----------------------------- MODULE NotifyPath -----------------------------
(***************************************************************************)
(* The deferred notifications of the PMIC GLINK driver.  A packet whose    *)
(* opcode IsDeferredNotificationOp names (channel.c) is stored in its slot *)
(* by the receive callback, which then creates a work item; the work item  *)
(* looks for the pending opcode of highest priority, hands its packet to   *)
(* PmicGlink_RetrieveRxData, clears the slot, and looks again.  Any number *)
(* of work items run at once, and nothing ties a work item to the packet   *)
(* it was created for.                                                     *)
(*                                                                         *)
(* Two of the opcodes (256 and 257, Replies here) also answer a request: a *)
(* thread in PmicGlink_SendData may be waiting for them on the same slot.  *)
(* Of that thread this module keeps what it does to the slot and to the Rx *)
(* event; the rest of it is in GlinkTransport.  The dispatch of a          *)
(* notification to ACPI, UCSI and the battery miniport is left out.        *)
(***************************************************************************)
EXTENDS Naturals

CONSTANTS
  Ops,          (* the deferred opcodes                                    *)
  Replies,      (* those RetrieveRxData reports as expected: 256, 257      *)
  Priority,     (* place in notificationOps[], lowest first                *)
  Workers,      (* system threads that run work items                      *)
  NoOp,         (* the receive callback is not running                     *)
  NoPacket,     (* the content of an empty slot                            *)
  MaxPackets    (* bound on the packets that arrive                        *)

ASSUME NotifyAssumption ==
  /\ Replies \subseteq Ops
  /\ Priority \in [Ops -> Nat]
  /\ NoOp \notin Ops
  /\ NoPacket \notin [id : Nat, read : BOOLEAN, clearing : SUBSET Workers]
  /\ MaxPackets \in Nat

(* A stored packet, with history: its number, whether RetrieveRxData has   *)
(* seen it, and the workers that had already read their packet of this     *)
(* opcode, and had not yet cleared the slot, when it was stored.           *)
Packets == [id : 1 .. MaxPackets, read : BOOLEAN, clearing : SUBSET Workers]

VARIABLES
  slot,         (* CommData of the deferred opcodes                        *)
  rxCb,         (* opcode of the callback between store and work item      *)
  items,        (* work items that are queued and have not begun           *)
  at, wop,      (* where each worker is, and its pendingOp                 *)
  got,          (* number of the expected packet it has retrieved, or 0    *)
  rxEvent,      (* gPmicGlinkRxNotificationEvent                           *)
  sender, sop,  (* the thread in SendData, and its opcode                  *)
  arrived,      (* packets received so far                                 *)
  failed,       (* history: the last creation of a work item failed        *)
  announced     (* history: packets a worker has set the Rx event for      *)

workVars == <<at, wop, got>>
sendVars == <<sender, sop>>
vars == <<slot, rxCb, items, workVars, rxEvent, sendVars, arrived, failed, announced>>

Places == {"idle", "look", "check", "retrieve", "zero", "clear", "signal", "recheck"}
SendPlaces == {"idle", "clear", "wait", "take", "zero"}

Pending(o) == slot[o] # NoPacket

(* PmicGlinkGetPendingNotificationOp, one scan under StateLock.            *)
FirstPending(o) ==
  /\ Pending(o)
  /\ \A p \in Ops : Pending(p) => Priority[o] <= Priority[p]

Goto(w, place) == at' = [at EXCEPT ![w] = place]
Erase(o) == slot' = [slot EXCEPT ![o] = NoPacket]

(* PmicGlinkCreateDeviceWorkItem: create and enqueue, or fail; a failure   *)
(* is answered with the Rx event by both callers.                          *)
CreateWorkItem ==
  \/ /\ items' = items + 1
     /\ failed' = FALSE
     /\ UNCHANGED rxEvent
  \/ /\ failed' = TRUE
     /\ rxEvent' = TRUE
     /\ UNCHANGED items

---------------------------------------------------------------------------
(* PmicGlinkRxNotificationCb.                                              *)

RxStore(o) ==
  /\ rxCb = NoOp
  /\ arrived < MaxPackets
  /\ arrived' = arrived + 1
  /\ slot' = [slot EXCEPT ![o] =
       [id |-> arrived + 1, read |-> FALSE,
        clearing |-> {w \in Workers : at[w] \in {"zero", "clear"} /\ wop[w] = o}]]
  /\ rxCb' = o
  /\ UNCHANGED <<items, workVars, rxEvent, sendVars, failed, announced>>

(* The packet needs a larger buffer and there is no memory for one: the    *)
(* old buffer has been deleted, with the packet it held, and the callback  *)
(* ends without work item or event.                                        *)
RxStoreFails(o) ==
  /\ rxCb = NoOp
  /\ Erase(o)
  /\ UNCHANGED <<rxCb, items, workVars, rxEvent, sendVars, arrived, failed, announced>>

RxDefer ==
  /\ rxCb # NoOp
  /\ rxCb' = NoOp
  /\ CreateWorkItem
  /\ UNCHANGED <<slot, workVars, sendVars, arrived, announced>>

---------------------------------------------------------------------------
(* PmicGlinkRxNotificationWorkItem, and PmicGlinkConsumeCommDataPacket     *)
(* from Check to Clear.                                                    *)

Begin(w) ==
  /\ at[w] = "idle"
  /\ items > 0
  /\ items' = items - 1
  /\ Goto(w, "look")
  /\ UNCHANGED <<slot, rxCb, wop, got, rxEvent, sendVars, arrived, failed, announced>>

(* Defect: the result of the scan is not looked at.                        *)
LookUnchecked(w) ==
  /\ at[w] = "look"
  /\ wop' = [wop EXCEPT ![w] =
       IF \E o \in Ops : Pending(o) THEN CHOOSE o \in Ops : FirstPending(o) ELSE NoOp]
  /\ Goto(w, "check")
  /\ UNCHANGED <<slot, rxCb, items, got, rxEvent, sendVars, arrived, failed, announced>>

Look(w) ==
  /\ at[w] = "look"
  /\ \/ \E o \in Ops :
          /\ FirstPending(o)
          /\ wop' = [wop EXCEPT ![w] = o]
          /\ Goto(w, "check")
     \/ /\ \A o \in Ops : ~Pending(o)
        /\ Goto(w, "idle")
        /\ UNCHANGED wop
  /\ UNCHANGED <<slot, rxCb, items, got, rxEvent, sendVars, arrived, failed, announced>>

(* hasPacket, under StateLock: the slot may have been emptied meanwhile.   *)
Check(w) ==
  /\ at[w] = "check"
  /\ Goto(w, IF Pending(wop[w]) THEN "retrieve" ELSE "recheck")
  /\ UNCHANGED <<slot, rxCb, items, wop, got, rxEvent, sendVars, arrived, failed, announced>>

(* Defect: the slot is emptied before the packet is read.                  *)
RetrieveAfterClear(w) ==
  /\ at[w] = "retrieve"
  /\ Erase(wop[w])
  /\ Goto(w, "clear")
  /\ UNCHANGED <<rxCb, items, wop, got, rxEvent, sendVars, arrived, failed, announced>>

(* Defect: an expected packet is not erased, and announced at once.        *)
RetrieveAnnouncing(w) ==
  /\ at[w] = "retrieve"
  /\ LET o == wop[w] IN
       \/ /\ Pending(o)
          /\ slot' = [slot EXCEPT ![o].read = TRUE]
          /\ rxEvent' = TRUE
          /\ announced' = announced \cup {slot[o].id}
       \/ /\ ~Pending(o)
          /\ UNCHANGED <<slot, rxEvent, announced>>
  /\ Goto(w, "clear")
  /\ UNCHANGED <<rxCb, items, wop, got, sendVars, arrived, failed>>

(* PmicGlink_RetrieveRxData reads the slot without the lock and dispatches *)
(* the packet.  Only an expected one is erased by it.                      *)
Retrieve(w) ==
  /\ at[w] = "retrieve"
  /\ LET o == wop[w] IN
       \/ /\ ~Pending(o)
          /\ Goto(w, "clear")
          /\ UNCHANGED <<slot, got>>
       \/ /\ Pending(o)
          /\ slot' = [slot EXCEPT ![o].read = TRUE]
          /\ IF o \in Replies
             THEN got' = [got EXCEPT ![w] = slot[o].id] /\ Goto(w, "zero")
             ELSE UNCHANGED got /\ Goto(w, "clear")
  /\ UNCHANGED <<rxCb, items, wop, rxEvent, sendVars, arrived, failed, announced>>

Zero(w) ==
  /\ at[w] = "zero"
  /\ Erase(wop[w])
  /\ Goto(w, "clear")
  /\ UNCHANGED <<rxCb, items, wop, got, rxEvent, sendVars, arrived, failed, announced>>

(* PmicGlinkClearCommDataSlot, whatever the slot holds by now.             *)
Clear(w) ==
  /\ at[w] = "clear"
  /\ Erase(wop[w])
  /\ Goto(w, IF got[w] # 0 THEN "signal" ELSE "recheck")
  /\ UNCHANGED <<rxCb, items, wop, got, rxEvent, sendVars, arrived, failed, announced>>

Signal(w) ==
  /\ at[w] = "signal"
  /\ rxEvent' = TRUE
  /\ announced' = announced \cup {got[w]}
  /\ got' = [got EXCEPT ![w] = 0]
  /\ Goto(w, "recheck")
  /\ UNCHANGED <<slot, rxCb, items, wop, sendVars, arrived, failed>>

(* Defect: a work item takes care of one packet only.                      *)
RecheckSkipped(w) ==
  /\ at[w] = "recheck"
  /\ Goto(w, "idle")
  /\ UNCHANGED <<slot, rxCb, items, wop, got, rxEvent, sendVars, arrived, failed, announced>>

Recheck(w) ==
  /\ at[w] = "recheck"
  /\ \/ /\ \E o \in Ops : Pending(o)
        /\ CreateWorkItem
     \/ /\ \A o \in Ops : ~Pending(o)
        /\ UNCHANGED <<items, failed, rxEvent>>
  /\ Goto(w, "idle")
  /\ UNCHANGED <<slot, rxCb, wop, got, sendVars, arrived, announced>>

---------------------------------------------------------------------------
(* PmicGlink_SendData for an opcode of Replies, waiting for its reply.     *)

SendBegin ==
  /\ sender = "idle"
  /\ rxEvent' = FALSE
  /\ sop' \in Replies
  /\ sender' = "clear"
  /\ UNCHANGED <<slot, rxCb, items, workVars, arrived, failed, announced>>

SendClear ==
  /\ sender = "clear"
  /\ Erase(sop)
  /\ sender' = "wait"
  /\ UNCHANGED <<rxCb, items, workVars, rxEvent, sop, arrived, failed, announced>>

SendWake ==
  /\ sender = "wait"
  /\ rxEvent
  /\ rxEvent' = FALSE
  /\ sender' = "take"
  /\ UNCHANGED <<slot, rxCb, items, workVars, sop, arrived, failed, announced>>

SendTake ==
  /\ sender = "take"
  /\ \/ /\ Pending(sop)
        /\ slot' = [slot EXCEPT ![sop].read = TRUE]
        /\ sender' = "zero"
     \/ /\ ~Pending(sop)
        /\ sender' = "wait"
        /\ UNCHANGED slot
  /\ UNCHANGED <<rxCb, items, workVars, rxEvent, sop, arrived, failed, announced>>

SendZero ==
  /\ sender = "zero"
  /\ Erase(sop)
  /\ sender' = "idle"
  /\ UNCHANGED <<rxCb, items, workVars, rxEvent, sop, arrived, failed, announced>>

SendTimeout ==
  /\ sender = "wait"
  /\ sender' = "idle"
  /\ UNCHANGED <<slot, rxCb, items, workVars, rxEvent, sop, arrived, failed, announced>>

---------------------------------------------------------------------------
(* A device that leaves D0 empties every slot, read or not.                *)
ResetCommDataSlots ==
  /\ slot' = [o \in Ops |-> NoPacket]
  /\ UNCHANGED <<rxCb, items, workVars, rxEvent, sendVars, arrived, failed, announced>>

---------------------------------------------------------------------------
Init ==
  /\ slot = [o \in Ops |-> NoPacket]
  /\ rxCb = NoOp
  /\ items = 0
  /\ at = [w \in Workers |-> "idle"]
  /\ wop \in [Workers -> Ops]
  /\ got = [w \in Workers |-> 0]
  /\ rxEvent = FALSE
  /\ sender = "idle"
  /\ sop \in Replies
  /\ arrived = 0
  /\ failed = FALSE
  /\ announced = {}

WorkStep(w) ==
  \/ Begin(w) \/ Look(w) \/ Check(w) \/ Retrieve(w) \/ Zero(w) \/ Clear(w)
  \/ Signal(w) \/ Recheck(w)

SendStep ==
  SendBegin \/ SendClear \/ SendWake \/ SendTake \/ SendZero \/ SendTimeout

Next ==
  \/ \E o \in Ops : RxStore(o) \/ RxStoreFails(o)
  \/ RxDefer
  \/ ResetCommDataSlots
  \/ \E w \in Workers : WorkStep(w)
  \/ SendStep

Spec == Init /\ [][Next]_vars

(* A callback runs to its end, and the system work queue runs its items.   *)
Fairness == WF_vars(RxDefer) /\ \A w \in Workers : WF_vars(WorkStep(w))

FairSpec == Spec /\ Fairness

---------------------------------------------------------------------------
(* The type of every variable.                                             *)
TypeOK ==
  /\ slot \in [Ops -> Packets \cup {NoPacket}]
  /\ rxCb \in Ops \cup {NoOp}
  /\ items \in Nat
  /\ at \in [Workers -> Places]
  /\ wop \in [Workers -> Ops]
  /\ got \in [Workers -> 0 .. MaxPackets]
  /\ rxEvent \in BOOLEAN
  /\ sender \in SendPlaces
  /\ sop \in Replies
  /\ arrived \in 0 .. MaxPackets
  /\ failed \in BOOLEAN
  /\ announced \subseteq 0 .. MaxPackets

(* A pending packet is never forgotten, although work items are not tied   *)
(* to packets and two of them may have gone after the same one: somebody   *)
(* has still to scan the slots, or no work item could be created.          *)
PendingIsCovered ==
  (\E o \in Ops : Pending(o)) =>
    \/ rxCb # NoOp
    \/ items > 0
    \/ \E w \in Workers : at[w] # "idle"
    \/ failed

(* The work item sets the Rx event for a reply only when the reply has     *)
(* left its slot: a sender of opcode 256 or 257 is always woken too late   *)
(* for the reply the event is about, and matches it only if some other     *)
(* event has woken it before.                                              *)
AnnouncedAfterErased ==
  \A o \in Ops : Pending(o) => slot[o].id \notin announced

(* A packet nobody has read is erased only by a worker that was already    *)
(* past its own reading of the same opcode when the packet was stored, by  *)
(* a sender that begins or ends an exchange of that opcode, by a packet    *)
(* for which there was no memory, or by a device that leaves D0.           *)
ErasedRightly(o) ==
  Pending(o) /\ ~slot[o].read /\ slot'[o] = NoPacket =>
    \/ \E w \in slot[o].clearing : wop[w] = o /\ at'[w] # at[w]
    \/ sop = o /\ sender \in {"clear", "zero"} /\ sender' # sender
    \/ RxStoreFails(o) \/ ResetCommDataSlots

LossNeedsOverlap == [][\A o \in Ops : ErasedRightly(o)]_vars

---------------------------------------------------------------------------
(* The inductive strengthening of AnnouncedAfterErased: packets are        *)
(* numbered as they arrive, and a reply a worker has retrieved lies in the *)
(* worker's own slot, until it is cleared, or nowhere.                     *)
NumberInv ==
  /\ \A o \in Ops : Pending(o) => slot[o].id <= arrived
  /\ \A o, p \in Ops : Pending(o) /\ Pending(p) /\ slot[o].id = slot[p].id => o = p
  /\ \A w \in Workers : got[w] <= arrived
  /\ \A n \in announced : n <= arrived

RetrievedInv ==
  \A w \in Workers :
    got[w] # 0 =>
      /\ at[w] \in {"zero", "clear", "signal"}
      /\ \A o \in Ops :
           Pending(o) /\ slot[o].id = got[w] => wop[w] = o /\ at[w] # "signal"

(* A worker past its reading has read what is in the slot, or was there    *)
(* before it.                                                              *)
ReadInv ==
  \A w \in Workers, o \in Ops :
    at[w] \in {"zero", "clear"} /\ wop[w] = o /\ Pending(o)
      => slot[o].read \/ w \in slot[o].clearing

NumberedInv == NumberInv /\ RetrievedInv /\ AnnouncedAfterErased

---------------------------------------------------------------------------
(* Once packets stop arriving every slot is emptied, unless a work item    *)
(* could not be created.                                                   *)
EventuallyDrained == \A o \in Ops : Pending(o) ~> (~Pending(o) \/ failed)
=============================================================================
