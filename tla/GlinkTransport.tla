--------------------------- MODULE GlinkTransport ---------------------------
(***************************************************************************)
(* The request/response transport of the PMIC GLINK driver:                *)
(* PmicGlink_SendData (transport.c), executed by any number of driver      *)
(* threads at once, against the GLINK callbacks that store received        *)
(* packets (requests.c) and report channel state changes (channel.c).      *)
(*                                                                         *)
(* A sender takes the mutex gPmicGlinkTxSync, polls until the flag         *)
(* gPmicGlinkRxInProgress is clear, sets it, gives the mutex back,         *)
(* transmits, and waits in two bounded phases on seven manual-reset        *)
(* events.  Replies are not handed over directly: the receive callback     *)
(* stores a packet in the slot of its opcode and sets the Rx event, and    *)
(* the sender looks into the slot when that event wakes it.                *)
(*                                                                         *)
(* Opcodes here are those the receive callback answers with the Rx event;  *)
(* the deferred ones, which go through a work item, are in NotifyPath.     *)
(* Payloads, the Tx counter and the LastRx* trace fields are left out.     *)
(* What the rest of the driver does to slots and events under a waiting    *)
(* caller is here too: a device that leaves D0 empties the slots, GLINK's  *)
(* arrival initialises the events, and a slot may lose its memory.         *)
(***************************************************************************)
EXTENDS Naturals

CONSTANTS
  Senders,      (* threads that may be inside PmicGlink_SendData           *)
  Ops,          (* opcodes whose packets are signalled by the Rx event     *)
  Unmatched,    (* those PmicGlink_RetrieveRxData never reports as the     *)
                (* expected reply: it has no arm for 34, which is sent     *)
  NoSender,     (* the owner of a free gPmicGlinkTxSync                    *)
  NoOp,         (* the receive callback is not running                     *)
  NoPacket,     (* the content of an empty comm-data slot                  *)
  NoEvent,      (* the sender was not woken                                *)
  PollLimit,    (* polls of the busy flag before giving up: 0x5DC          *)
  Wait1Limit,   (* waits for Tx or Rx in the first phase: 5                *)
  Wait2Limit    (* waits for Rx in the second phase: 140                   *)

ASSUME TransportAssumption ==
  /\ NoSender \notin Senders
  /\ NoOp \notin Ops
  /\ Unmatched \subseteq Ops
  /\ NoPacket \notin [seen : SUBSET Senders]
  /\ PollLimit \in Nat
  /\ Wait1Limit \in Nat
  /\ Wait2Limit \in Nat

(* The wait objects, in the order of the array that is given to            *)
(* KeWaitForMultipleObjects: of several set events the lowest index wins.  *)
(* The three channel state events (0 to 2) are alike to a sender and are   *)
(* one here; nothing ever sets the two intent events (4 and 6).            *)
Rank == [State |-> 0, Tx |-> 3, Rx |-> 5]
Events == {"State", "Tx", "Rx"}

(* A stored packet.  Its content decides only the status a call returns,   *)
(* so what is kept of it is history: the senders that were waiting for its *)
(* opcode when it was stored.                                              *)
Packets == [seen : SUBSET Senders]

VARIABLES
  pc,            (* where each sender is                                   *)
  op, waitRx,    (* the arguments of its call                              *)
  phase, count,  (* which wait loop, and waitCount                         *)
  woke,          (* the event that ended its wait                          *)
  txSync,        (* owner of gPmicGlinkTxSync                              *)
  rxInProgress,  (* gPmicGlinkRxInProgress                                 *)
  signaled,      (* the events that are set                                *)
  slot,          (* CommData: the packet stored for each opcode            *)
  rxCb,          (* opcode of the receive callback between store and set   *)
  asked,         (* opcodes the firmware has been sent                     *)
  disturbed,     (* history: senders whose claim another sender released,  *)
                 (* or who claimed while another exchange was under way    *)
  rearmed        (* history: senders that awaited a reply when the events  *)
                 (* were initialised again                                 *)

localVars == <<op, waitRx, phase, count, woke>>
claimVars == <<txSync, rxInProgress, disturbed, rearmed>>
rxVars    == <<signaled, slot, rxCb, asked>>
vars == <<pc, localVars, claimVars, rxVars>>

Places == {"idle", "acquire", "poll", "claim", "unlock", "clearEvents",
           "clearSlot", "transmit", "wait", "clear", "take", "zero",
           "matched", "again", "finish"}
WaitPlaces    == {"wait", "clear", "take"}
ExchangePlaces == WaitPlaces \cup {"transmit", "zero", "matched"}
ClaimedPlaces == ExchangePlaces \cup {"unlock", "clearEvents", "clearSlot", "finish"}
MutexPlaces   == {"poll", "claim", "unlock"}

(* s has set the busy flag and not yet released it itself.                 *)
Claimed(s) == pc[s] \in ClaimedPlaces
(* s has emptied its slot and takes whatever is stored there from now on.  *)
Awaits(s, o) == pc[s] \in ExchangePlaces /\ op[s] = o
(* Its request is on its way and it has not found a reply yet.             *)
Asks(s) == pc[s] \in WaitPlaces \cup {"transmit"}

WaitLimit(s) == IF phase[s] = 1 THEN Wait1Limit ELSE Wait2Limit

Goto(s, place) == pc' = [pc EXCEPT ![s] = place]
SetCount(s, n) == count' = [count EXCEPT ![s] = n]

(* The call returns and its locals are gone.                               *)
Return(s) ==
  /\ Goto(s, "idle")
  /\ waitRx' = [waitRx EXCEPT ![s] = FALSE]
  /\ phase' = [phase EXCEPT ![s] = 1]
  /\ SetCount(s, 0)
  /\ UNCHANGED <<op, woke>>

(* Defect, for the mutation of Release: the flag counted down, as if it    *)
(* were a counter of exchanges.                                            *)
ReleaseByDecrement(s) ==
  /\ rxInProgress' = rxInProgress - 1
  /\ disturbed' = (disturbed \cup {t \in Senders : Claimed(t)}) \ {s}
  /\ rearmed' = rearmed \ {s}

(* gPmicGlinkRxInProgress = 0, with its effect on the history variables.   *)
Release(s) ==
  /\ rxInProgress' = 0
  /\ disturbed' = (disturbed \cup {t \in Senders : Claimed(t)}) \ {s}
  /\ rearmed' = rearmed \ {s}

---------------------------------------------------------------------------
(* PmicGlink_SendData, up to the claim.                                    *)

(* A call that passes the checks before the mutex; the others return       *)
(* STATUS_RETRY and have changed nothing.  What is checked - two flags,    *)
(* the interface, the channel handle - is read without a lock and changed  *)
(* by other parts of the driver at any time (ChannelLifecycle), and is     *)
(* not looked at again.                                                    *)
Call(s) ==
  /\ pc[s] = "idle"
  /\ \E o \in Ops, w \in BOOLEAN :
       /\ op' = [op EXCEPT ![s] = o]
       /\ waitRx' = [waitRx EXCEPT ![s] = w]
  /\ Goto(s, "acquire")
  /\ UNCHANGED <<phase, count, woke, claimVars, rxVars>>

AcquireTxSync(s) ==
  /\ pc[s] = "acquire"
  /\ txSync = NoSender
  /\ txSync' = s
  /\ Goto(s, "poll")
  /\ UNCHANGED <<localVars, rxInProgress, disturbed, rearmed, rxVars>>

PollBusy(s) ==
  /\ pc[s] = "poll"
  /\ rxInProgress = 1
  /\ count[s] < PollLimit
  /\ SetCount(s, count[s] + 1)
  /\ UNCHANGED <<pc, op, waitRx, phase, woke, claimVars, rxVars>>

(* Defect: giving up resets the flag of the call it waited for.            *)
PollGiveUpResetting(s) ==
  /\ pc[s] = "poll"
  /\ rxInProgress = 1
  /\ count[s] >= PollLimit
  /\ txSync' = NoSender
  /\ Release(s)
  /\ Return(s)
  /\ UNCHANGED <<rxVars>>

(* Defect: giving up without KeReleaseMutex.                               *)
PollGiveUpHoldingTxSync(s) ==
  /\ pc[s] = "poll"
  /\ rxInProgress = 1
  /\ count[s] >= PollLimit
  /\ Return(s)
  /\ UNCHANGED <<claimVars, rxVars>>

(* STATUS_RETRY.                                                           *)
PollGiveUp(s) ==
  /\ pc[s] = "poll"
  /\ rxInProgress = 1
  /\ count[s] >= PollLimit
  /\ txSync' = NoSender
  /\ Return(s)
  /\ UNCHANGED <<rxInProgress, disturbed, rearmed, rxVars>>

(* Defect: the flag is not looked at.                                      *)
PollFreeUnchecked(s) ==
  /\ pc[s] = "poll"
  /\ SetCount(s, 0)
  /\ Goto(s, "claim")
  /\ UNCHANGED <<op, waitRx, phase, woke, claimVars, rxVars>>

PollFree(s) ==
  /\ pc[s] = "poll"
  /\ rxInProgress # 1
  /\ SetCount(s, 0)
  /\ Goto(s, "claim")
  /\ UNCHANGED <<op, waitRx, phase, woke, claimVars, rxVars>>

Claim(s) ==
  /\ pc[s] = "claim"
  /\ rxInProgress' = 1
  /\ disturbed' = IF \E t \in Senders \ {s} : Claimed(t)
                  THEN disturbed \cup {s} ELSE disturbed
  /\ Goto(s, "unlock")
  /\ UNCHANGED <<localVars, txSync, rearmed, rxVars>>

Unlock(s) ==
  /\ pc[s] = "unlock"
  /\ txSync' = NoSender
  /\ Goto(s, "clearEvents")
  /\ UNCHANGED <<localVars, rxInProgress, disturbed, rearmed, rxVars>>

---------------------------------------------------------------------------
(* PmicGlink_SendData, the exchange.                                       *)

ClearEvents(s) ==
  /\ pc[s] = "clearEvents"
  /\ signaled' = signaled \ {"Tx", "Rx"}
  /\ Goto(s, "clearSlot")
  /\ UNCHANGED <<localVars, claimVars, slot, rxCb, asked>>

(* Defect: the packet of an earlier exchange is left in the slot.          *)
ClearSlotSkipped(s) ==
  /\ pc[s] = "clearSlot"
  /\ Goto(s, "transmit")
  /\ UNCHANGED <<localVars, claimVars, rxVars>>

(* PmicGlinkClearCommDataSlot, under StateLock.                            *)
ClearSlot(s) ==
  /\ pc[s] = "clearSlot"
  /\ slot' = [slot EXCEPT ![op[s]] = NoPacket]
  /\ Goto(s, "transmit")
  /\ UNCHANGED <<localVars, claimVars, signaled, rxCb, asked>>

(* Defect: the events are cleared after GLinkTx instead of before it.      *)
TransmitThenClearEvents(s) ==
  /\ pc[s] = "transmit"
  /\ asked' = asked \cup {op[s]}
  /\ signaled' = signaled \ {"Tx", "Rx"}
  /\ Goto(s, "wait")
  /\ UNCHANGED <<localVars, claimVars, slot, rxCb>>

Transmit(s) ==
  /\ pc[s] = "transmit"
  /\ asked' = asked \cup {op[s]}
  /\ Goto(s, "wait")
  /\ UNCHANGED <<localVars, claimVars, signaled, slot, rxCb>>

(* Defect: the error path returns with the flag set.                       *)
TransmitFailsClaimed(s) ==
  /\ pc[s] = "transmit"
  /\ Return(s)
  /\ UNCHANGED <<claimVars, rxVars>>

(* GLinkTx fails: STATUS_UNSUCCESSFUL.                                     *)
TransmitFails(s) ==
  /\ pc[s] = "transmit"
  /\ Release(s)
  /\ Return(s)
  /\ UNCHANGED <<txSync, rxVars>>

(* KeWaitForMultipleObjects returns the lowest set event: it is a          *)
(* notification event, so it stays set until the sender clears it.         *)
WakeUp(s) ==
  /\ pc[s] = "wait"
  /\ count[s] < WaitLimit(s)
  /\ \E e \in signaled :
       /\ \A f \in signaled : Rank[e] <= Rank[f]
       /\ woke' = [woke EXCEPT ![s] = e]
  /\ Goto(s, "clear")
  /\ UNCHANGED <<op, waitRx, phase, count, claimVars, rxVars>>

(* The time-out of a wait with no event set; or of one whose events were   *)
(* initialised under it, which takes the waiter off their lists, so that   *)
(* setting them does not wake it any more.                                 *)
WaitTimesOut(s) ==
  /\ pc[s] = "wait"
  /\ count[s] < WaitLimit(s)
  /\ signaled = {} \/ s \in rearmed
  /\ SetCount(s, count[s] + 1)
  /\ UNCHANGED <<pc, op, waitRx, phase, woke, claimVars, rxVars>>

(* Neither a reply nor (in the first phase) a Tx notification came:        *)
(* STATUS_TIMEOUT.                                                         *)
WaitsExhausted(s) ==
  /\ pc[s] = "wait"
  /\ count[s] >= WaitLimit(s)
  /\ Goto(s, "finish")
  /\ UNCHANGED <<localVars, claimVars, rxVars>>

(* KeClearEvent on the event that ended the wait, and what it leads to:    *)
(* an Rx event to a look into the slot; a Tx notification out of the first *)
(* phase, and out of a call that wants no reply; anything else to the next *)
(* wait.                                                                   *)
ClearWoken(s) ==
  /\ pc[s] = "clear"
  /\ signaled' = signaled \ {woke[s]}
  /\ woke' = [woke EXCEPT ![s] = NoEvent]
  /\ \/ /\ woke[s] = "Rx"
        /\ Goto(s, "take")
        /\ UNCHANGED <<phase, count>>
     \/ /\ woke[s] = "Tx" /\ phase[s] = 1 /\ ~waitRx[s]
        /\ Goto(s, "finish")
        /\ UNCHANGED <<phase, count>>
     \/ /\ woke[s] = "Tx" /\ phase[s] = 1 /\ waitRx[s]
        /\ phase' = [phase EXCEPT ![s] = 2]
        /\ SetCount(s, 0)
        /\ Goto(s, "wait")
     \/ /\ woke[s] # "Rx" /\ ~(woke[s] = "Tx" /\ phase[s] = 1)
        /\ SetCount(s, count[s] + 1)
        /\ Goto(s, "wait")
        /\ UNCHANGED phase
  /\ UNCHANGED <<op, waitRx, claimVars, slot, rxCb, asked>>

(* What s finds is not the expected reply: the slot is empty, or the       *)
(* opcode has no arm that reports one, or the slot, which is read without  *)
(* the lock, is just being written and shows another opcode.               *)
Overlooks(s) ==
  slot[op[s]] = NoPacket \/ op[s] \in Unmatched \/ rxCb = op[s]

(* PmicGlink_RetrieveRxData.  What is not the expected reply stays in the  *)
(* slot, and the event that announced it is spent; the expected reply ...  *)
Take(s) ==
  /\ pc[s] = "take"
  /\ \/ /\ Overlooks(s)
        /\ SetCount(s, count[s] + 1)
        /\ Goto(s, "wait")
     \/ /\ slot[op[s]] # NoPacket /\ op[s] \notin Unmatched
        /\ Goto(s, "zero")
        /\ UNCHANGED count
  /\ UNCHANGED <<op, waitRx, phase, woke, claimVars, rxVars>>

(* ... and is then erased, still without the lock.                         *)
ZeroSlot(s) ==
  /\ pc[s] = "zero"
  /\ slot' = [slot EXCEPT ![op[s]] = NoPacket]
  /\ Goto(s, "matched")
  /\ UNCHANGED <<localVars, claimVars, signaled, rxCb, asked>>

(* A matched reply releases the flag at once ...                           *)
MatchedRelease(s) ==
  /\ pc[s] = "matched"
  /\ Release(s)
  /\ Goto(s, "again")
  /\ UNCHANGED <<localVars, txSync, rxVars>>

(* ... and every return path after it releases it again.                   *)
ReleaseAgain(s) ==
  /\ pc[s] = "again"
  /\ Release(s)
  /\ Return(s)
  /\ UNCHANGED <<txSync, rxVars>>

Finish(s) ==
  /\ pc[s] = "finish"
  /\ Release(s)
  /\ Return(s)
  /\ UNCHANGED <<txSync, rxVars>>

---------------------------------------------------------------------------
(* The GLINK callbacks.                                                    *)

sendVars == <<pc, localVars, claimVars>>

(* PmicGlinkRxNotificationCb: the firmware answers an opcode it has been   *)
(* sent, at any time and any number of times.  The packet overwrites what  *)
(* the slot holds; the event is set after the lock is released.            *)
RxStore(o) ==
  /\ rxCb = NoOp
  /\ o \in asked
  /\ slot' = [slot EXCEPT ![o] = [seen |-> {s \in Senders : Awaits(s, o)}]]
  /\ rxCb' = o
  /\ UNCHANGED <<sendVars, signaled, asked>>

(* The packet needs a larger buffer and there is no memory: the old buffer *)
(* is gone with what it held, and no event is set.                         *)
RxStoreFails(o) ==
  /\ rxCb = NoOp
  /\ o \in asked
  /\ slot' = [slot EXCEPT ![o] = NoPacket]
  /\ UNCHANGED <<sendVars, signaled, rxCb, asked>>

RxSignal ==
  /\ rxCb # NoOp
  /\ signaled' = signaled \cup {"Rx"}
  /\ rxCb' = NoOp
  /\ UNCHANGED <<sendVars, slot, asked>>

(* The same event is set for deferred opcodes, when a work item has        *)
(* consumed their packet or could not be created (NotifyPath).             *)
DeferredSignal ==
  /\ signaled' = signaled \cup {"Rx"}
  /\ UNCHANGED <<sendVars, slot, rxCb, asked>>

(* PmicGlinkTxNotificationCb: a transmission is confirmed, late perhaps.   *)
TxDone ==
  /\ asked # {}
  /\ signaled' = signaled \cup {"Tx"}
  /\ UNCHANGED <<sendVars, slot, rxCb, asked>>

(* PmicGlinkStateNotificationCb: whatever the new state, one of the state  *)
(* events is set.                                                          *)
StateNotification ==
  /\ signaled' = signaled \cup {"State"}
  /\ UNCHANGED <<sendVars, slot, rxCb, asked>>

---------------------------------------------------------------------------
(* What other parts of the driver do to the transport, at any time.        *)

(* Leaving D0 empties every slot, whoever waits for it.                    *)
ResetCommDataSlots ==
  /\ slot' = [o \in Ops |-> NoPacket]
  /\ UNCHANGED <<sendVars, signaled, rxCb, asked>>

(* GLINK arrives, for the second time perhaps, and the seven events are    *)
(* initialised, whoever waits on them.                                     *)
InitializeEvents ==
  /\ signaled' = {}
  /\ rearmed' = rearmed \cup {s \in Senders : Asks(s)}
  /\ UNCHANGED <<pc, localVars, txSync, rxInProgress, disturbed,
                 slot, rxCb, asked>>

---------------------------------------------------------------------------
Init ==
  /\ pc = [s \in Senders |-> "idle"]
  /\ op \in [Senders -> Ops]
  /\ waitRx = [s \in Senders |-> FALSE]
  /\ phase = [s \in Senders |-> 1]
  /\ count = [s \in Senders |-> 0]
  /\ woke = [s \in Senders |-> NoEvent]
  /\ txSync = NoSender
  /\ rxInProgress = 0
  /\ signaled = {}
  /\ slot = [o \in Ops |-> NoPacket]
  /\ rxCb = NoOp
  /\ asked = {}
  /\ disturbed = {}
  /\ rearmed = {}

(* What a call does of its own accord once it has begun.                   *)
SendStep(s) ==
  \/ AcquireTxSync(s) \/ PollBusy(s) \/ PollGiveUp(s) \/ PollFree(s)
  \/ Claim(s) \/ Unlock(s) \/ ClearEvents(s) \/ ClearSlot(s)
  \/ Transmit(s) \/ TransmitFails(s)
  \/ WakeUp(s) \/ WaitTimesOut(s) \/ WaitsExhausted(s) \/ ClearWoken(s)
  \/ Take(s) \/ ZeroSlot(s) \/ MatchedRelease(s) \/ ReleaseAgain(s) \/ Finish(s)

GlinkCallback ==
  \/ \E o \in Ops : RxStore(o) \/ RxStoreFails(o)
  \/ RxSignal \/ DeferredSignal \/ TxDone \/ StateNotification

Elsewhere == ResetCommDataSlots \/ InitializeEvents

Next ==
  \/ \E s \in Senders : Call(s) \/ SendStep(s)
  \/ GlinkCallback
  \/ Elsewhere

Spec == Init /\ [][Next]_vars

(* Threads are scheduled, waits end by their timeout, and the kernel hands *)
(* a mutex to its waiters in turn.  The firmware owes nothing.             *)
Fairness ==
  \A s \in Senders : WF_vars(SendStep(s)) /\ SF_vars(AcquireTxSync(s))

FairSpec == Spec /\ Fairness

---------------------------------------------------------------------------
(* The type of every variable.                                             *)
TypeOK ==
  /\ pc \in [Senders -> Places]
  /\ op \in [Senders -> Ops]
  /\ waitRx \in [Senders -> BOOLEAN]
  /\ phase \in [Senders -> {1, 2}]
  /\ count \in [Senders -> Nat]
  /\ woke \in [Senders -> Events \cup {NoEvent}]
  /\ txSync \in Senders \cup {NoSender}
  /\ rxInProgress \in {0, 1}
  /\ signaled \subseteq Events
  /\ slot \in [Ops -> Packets \cup {NoPacket}]
  /\ rxCb \in Ops \cup {NoOp}
  /\ asked \subseteq Ops
  /\ disturbed \subseteq Senders
  /\ rearmed \subseteq Senders

(* Two calls are inside an exchange at once only when both are disturbed:  *)
(* the mutex and the flag of PmicGlink_SendData keep exchanges apart as    *)
(* long as nobody releases a flag it does not own.                         *)
Exclusive ==
  \A s, t \in Senders :
    s # t /\ Claimed(s) /\ Claimed(t) => {s, t} \subseteq disturbed

(* Trouble starts in one place only: an undisturbed transport becomes      *)
(* disturbed by the second release of a call that matched its reply.       *)
OnlyRedundantReleaseDisturbs ==
  [][disturbed = {} /\ disturbed' # {} =>
       \E s \in Senders : pc[s] = "again" /\ pc'[s] = "idle"]_vars

(* The flag is never left behind by a return path: when it is set some     *)
(* call that set it has still to release it, and a held mutex has a        *)
(* holder that is on its way to releasing it.                              *)
NoLeakedClaim ==
  /\ rxInProgress = 1 => \E s \in Senders : Claimed(s)
  /\ txSync # NoSender => pc[txSync] \in MutexPlaces

(* The Rx event has not yet had its effect on s.                           *)
WakeOwed(s) ==
  \/ "Rx" \in signaled
  \/ rxCb # NoOp
  \/ pc[s] = "clear" /\ woke[s] = "Rx"
  \/ pc[s] = "take"

(* A reply stored for an undisturbed waiting call is never slept through:  *)
(* the Rx event is set, or the callback is about to set it, or the call    *)
(* has been woken by it and is about to look.  Two calls have no such      *)
(* promise: one whose opcode is never reported as the expected reply, and  *)
(* one under which the events were initialised again.                      *)
Heeds(s) == op[s] \notin Unmatched /\ s \notin disturbed \cup rearmed

NoLostReply ==
  \A s \in Senders :
    pc[s] \in WaitPlaces /\ Heeds(s) /\ slot[op[s]] # NoPacket
      => WakeOwed(s)

(* What a waiting call finds in its slot was stored after that call        *)
(* emptied it: a late answer to an earlier request of the same opcode is   *)
(* not taken for the answer to this one if it came before the exchange.    *)
NoStaleReply ==
  \A s \in Senders :
    pc[s] \in ExchangePlaces /\ slot[op[s]] # NoPacket
      => s \in slot[op[s]].seen

(* The calls implement the exchange: the mutex, the polls of the flag, the *)
(* events and the slots come to one exchange at a time, each answered by a *)
(* packet of its own opcode that came after it had emptied the slot, and   *)
(* nothing but the second release of an answered call breaks that.  Of a   *)
(* packet that came nothing more is promised: it may get lost.             *)
Stage(place) ==
  CASE place \in {"idle", "acquire", "poll", "claim"} -> "out"
    [] place \in {"zero", "matched"} -> "answered"
    [] place = "finish" -> "over"
    [] place = "again"  -> "leaving"
    [] OTHER -> "asking"
Stages == [s \in Senders |-> Stage(pc[s])]

Answers ==
  {s \in Senders : Asks(s) /\ slot[op[s]] # NoPacket /\ s \in slot[op[s]].seen}

Exch == INSTANCE Exchange WITH stage <- Stages, answers <- Answers
RefinesExchange == Exch!Spec

---------------------------------------------------------------------------
(* The inductive strengthening of the invariants above.                    *)

(* The mutex has exactly the holder that stands in a mutex place.          *)
MutexInv ==
  /\ \A s \in Senders : pc[s] \in MutexPlaces => txSync = s
  /\ txSync # NoSender => pc[txSync] \in MutexPlaces

(* Between the check of the flag and its setting it cannot become set.     *)
CheckedInv == \A s \in Senders : pc[s] = "claim" => rxInProgress = 0

(* An undisturbed claim is still marked by the flag, and only claims are   *)
(* disturbed.                                                              *)
OwnedInv ==
  /\ \A s \in Senders : Claimed(s) /\ s \notin disturbed => rxInProgress = 1
  /\ \A s \in disturbed : Claimed(s)
  /\ rxInProgress = 1 => \E s \in Senders : Claimed(s)

ClaimInv == MutexInv /\ CheckedInv /\ OwnedInv /\ Exclusive

(* The wake-up of NoLostReply is owed from the moment the slot is emptied. *)
ReplyInv ==
  \A s \in Senders :
    Asks(s) /\ Heeds(s) /\ slot[op[s]] # NoPacket => WakeOwed(s)

---------------------------------------------------------------------------
(* Every call returns: nobody keeps the mutex, and both wait loops end     *)
(* whatever the channel does in between.                                   *)
EveryCallReturns ==
  \A s \in Senders : pc[s] = "acquire" ~> pc[s] = "idle"
=============================================================================
