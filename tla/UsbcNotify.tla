------------------------------ MODULE UsbcNotify ------------------------------
(***************************************************************************)
(* USB-C requests of the PMIC GLINK driver (platform.c).  The firmware     *)
(* announces the pin assignment of a port; the driver remembers the port   *)
(* (one), has ACPI evaluate UPAN, and ACPI notifies it back to acknowledge *)
(* the port, or to send a selection or a platform state.  A request is put *)
(* in a global (one for the acknowledgements and selections, one for the   *)
(* states) and a work item is created that sends what the global holds     *)
(* when it runs.                                                           *)
(*                                                                         *)
(* Requests are their values; the value of an acknowledgement is its port. *)
(* ACPI gives one notification at a time and acknowledges each UPAN once.  *)
(* Sending is PmicGlink_SendData (GlinkTransport): it succeeds or fails.   *)
(***************************************************************************)
EXTENDS Naturals

CONSTANTS
  Ports,         (* port indices below PMICGLINK_MAX_PORTS                 *)
  Selections,    (* values of read-select notifications                    *)
  FirstSelect,   (* the selection sent at the first connection             *)
  States,        (* platform states                                        *)
  Pool,          (* threads that process received notifications            *)
  Acpi,          (* the thread of ACPI notifications                       *)
  Register,      (* the thread of the register-interface work item         *)
  None,          (* a port index of PMICGLINK_MAX_PORTS or above, which is  *)
                 (* no port; an empty global                               *)
  MaxCalls       (* bound on what arrives from outside                     *)

Callers == {Acpi, Register}
Values  == Ports \cup Selections \cup {FirstSelect} \cup States

ASSUME UsbcAssumption ==
  /\ None \notin Values
  /\ Acpi # Register
  /\ Ports \cap (Selections \cup {FirstSelect}) = {}
  /\ States \cap (Ports \cup Selections \cup {FirstSelect}) = {}
  /\ MaxCalls \in Nat

VARIABLES
  pendingPan,   (* gPmicGlinkPendingPan                                    *)
  rx,           (* whether each pool thread is to have UPAN evaluated      *)
  acks,         (* acknowledgements ACPI has yet to notify                 *)
  at, request,  (* the callers of ..._Request_Write, and their request     *)
  pending,      (* the two globals: ...PendingUsbcWriteRequest and         *)
                (* ...PendingPlatformState                                 *)
  items,        (* work items of each kind that have not run               *)
  messages,     (* what work items that run are sending                    *)
  owed,         (* history: values that the firmware has yet to be sent    *)
  failures,     (* history: steps that failed so far                       *)
  calls         (* calls from outside so far                               *)

usbcVars == <<pendingPan, rx, acks, at, request, pending, items, messages, owed, failures, calls>>

Kinds == {"request", "state"}
Kind(v) == IF v \in States THEN "state" ELSE "request"

Called == calls < MaxCalls /\ calls' = calls + 1

---------------------------------------------------------------------------
(* What is received.                                                       *)

(* Notification 0x800C: what it names is remembered, then UPAN evaluated.  *)
Announce(w, p) ==
  /\ ~rx[w] /\ Called
  /\ pendingPan' = p
  /\ rx' = [rx EXCEPT ![w] = TRUE]
  /\ owed' = owed \cup ({p} \cap Ports)
  /\ UNCHANGED <<acks, at, request, pending, items, messages, failures>>

Evaluate(w) ==
  /\ rx[w]
  /\ rx' = [rx EXCEPT ![w] = FALSE]
  /\ \/ acks' = acks + 1 /\ UNCHANGED failures
     \/ failures' = failures + 1 /\ UNCHANGED acks
  /\ UNCHANGED <<pendingPan, at, request, pending, items, messages, owed, calls>>

(* A packet of an unknown opcode, or too short to have one, is taken for a *)
(* pin assignment where it is long enough.                                 *)
UnknownPacket(p) ==
  /\ Called
  /\ pendingPan' = p
  /\ UNCHANGED <<rx, acks, at, request, pending, items, messages, owed, failures>>

---------------------------------------------------------------------------
(* The callers.                                                            *)

(* Caller c goes on to store request v.                                    *)
Write(c, v) ==
  /\ at' = [at EXCEPT ![c] = "store"]
  /\ request' = [request EXCEPT ![c] = v]

(* PmicGlinkPlatformUsbc_HandlePanAckNotification.                         *)
PanAck ==
  /\ at[Acpi] = "idle" /\ acks > 0
  /\ acks' = acks - 1
  /\ IF pendingPan = None THEN UNCHANGED <<at, request>> ELSE Write(Acpi, pendingPan)
  /\ UNCHANGED <<pendingPan, rx, pending, items, messages, owed, failures, calls>>

(* ..._HandleReadSelectNotification and ..._HandleStateNotification.       *)
Notification(v) ==
  /\ at[Acpi] = "idle" /\ Called
  /\ Write(Acpi, v)
  /\ owed' = owed \cup {v}
  /\ UNCHANGED <<pendingPan, rx, acks, pending, items, messages, failures>>

(* PmicGlinkRegisterInterfaceWorkItem forgets the port and the request; at *)
(* the first connection it writes one of its own.                          *)
ForgetPort ==
  /\ at[Register] = "idle" /\ Called
  /\ pendingPan' = None
  /\ pending' = [pending EXCEPT !["request"] = None]
  /\ \/ Write(Register, FirstSelect) /\ owed' = owed \cup {FirstSelect}
     \/ UNCHANGED <<at, request, owed>>
  /\ UNCHANGED <<rx, acks, items, messages, failures>>

Store(c) ==
  /\ at[c] = "store"
  /\ at' = [at EXCEPT ![c] = "create"]
  /\ pending' = [pending EXCEPT ![Kind(request[c])] = request[c]]
  /\ UNCHANGED <<pendingPan, rx, acks, request, items, messages, owed, failures, calls>>

(* PmicGlinkCreateDeviceWorkItem.                                          *)
Create(c) ==
  /\ at[c] = "create"
  /\ at' = [at EXCEPT ![c] = "idle"]
  /\ \/ items' = [items EXCEPT ![Kind(request[c])] = @ + 1] /\ UNCHANGED failures
     \/ failures' = failures + 1 /\ UNCHANGED items
  /\ UNCHANGED <<pendingPan, rx, acks, request, pending, messages, owed, calls>>

---------------------------------------------------------------------------
(* The work items, which may run at once.                                  *)

ItemRuns(k) ==
  /\ items[k] > 0
  /\ items' = [items EXCEPT ![k] = @ - 1]
  /\ messages' = messages \cup {pending[k]}
  /\ UNCHANGED <<pendingPan, rx, acks, at, request, pending, owed, failures, calls>>

(* Defect: the global is cleared once its request was sent.                *)
SendEndsAndClears(v) ==
  /\ v \in messages
  /\ messages' = messages \ {v}
  /\ pending' = [pending EXCEPT ![Kind(v)] = None]
  /\ owed' = owed \ {v}
  /\ UNCHANGED <<pendingPan, rx, acks, at, request, items, failures, calls>>

SendEnds(v) ==
  /\ v \in messages
  /\ messages' = messages \ {v}
  /\ \/ owed' = owed \ {v} /\ UNCHANGED failures
     \/ failures' = failures + 1 /\ UNCHANGED owed
  /\ UNCHANGED <<pendingPan, rx, acks, at, request, pending, items, calls>>

---------------------------------------------------------------------------
UsbcInit ==
  /\ pendingPan = None
  /\ rx = [w \in Pool |-> FALSE]
  /\ acks = 0
  /\ at = [c \in Callers |-> "idle"]
  /\ request = [c \in Callers |-> None]
  /\ pending = [k \in Kinds |-> None]
  /\ items = [k \in Kinds |-> 0]
  /\ messages = {} /\ owed = {}
  /\ failures = 0 /\ calls = 0

UsbcNext ==
  \/ \E w \in Pool : Evaluate(w) \/ \E p \in Ports \cup {None} : Announce(w, p)
  \/ \E p \in Ports \cup {None} : UnknownPacket(p)
  \/ PanAck \/ ForgetPort
  \/ \E v \in Selections \cup States : Notification(v)
  \/ \E c \in Callers : Store(c) \/ Create(c)
  \/ \E k \in Kinds : ItemRuns(k)
  \/ \E v \in messages : SendEnds(v)

UsbcSpec == UsbcInit /\ [][UsbcNext]_usbcVars

---------------------------------------------------------------------------
(* Properties.                                                             *)

(* Type correctness: the globals hold requests of their kind, and a caller *)
(* that stores or creates has one.                                         *)
UsbcTypeOK ==
  /\ pendingPan \in Ports \cup {None}
  /\ rx \in [Pool -> BOOLEAN]
  /\ at \in [Callers -> {"idle", "store", "create"}]
  /\ request \in [Callers -> Values \cup {None}]
  /\ \A c \in Callers : at[c] # "idle" => request[c] # None
  /\ pending \in [Kinds -> Values \cup {None}]
  /\ \A k \in Kinds : pending[k] # None => Kind(pending[k]) = k
  /\ items \in [Kinds -> Nat]
  /\ messages \subseteq Values \cup {None}
  /\ owed \subseteq Values
  /\ {acks, failures, calls} \subseteq Nat

(* ACPI will be asked to acknowledge port v, or is yet to do so.           *)
Remembered(v) ==
  /\ pendingPan = v
  /\ acks > 0 \/ \E w \in Pool : rx[w]

(* v lies in its global, for a work item that has not run yet.             *)
Waits(v) ==
  /\ pending[Kind(v)] = v
  /\ \/ items[Kind(v)] > 0
     \/ \E c \in Callers : at[c] = "create" /\ Kind(request[c]) = Kind(v)

(* Something still leads to v being sent.                                  *)
Covered(v) ==
  \/ Remembered(v) \/ Waits(v)
  \/ \E c \in Callers : at[c] = "store" /\ request[c] = v
  \/ v \in messages

(* A step that takes one of these ways from v: another port, or one that   *)
(* is none, is remembered before ACPI has acknowledged this one, or        *)
(* another request is stored in the global v waits in, or the registration *)
(* empties the one of the requests.                                        *)
Overwrites(v) ==
  \/ Remembered(v) /\ pendingPan' # v
  \/ /\ Waits(v)
     /\ \/ pending'[Kind(v)] \notin {v, None}
        \/ Kind(v) = "request" /\ ForgetPort
Fails == failures' # failures

(* An acknowledgement, selection or state that the firmware is owed gets   *)
(* lost in these ways, or by a step that fails, only.  Work items are not  *)
(* tied to requests, run in any order and send duplicates, but none of     *)
(* them, by reading a global or by ending, makes a request be missed.      *)
OnlyOverwritingLoses ==
  [][\A v \in owed \cap owed' :
       Covered(v) /\ ~Covered(v)' => Overwrites(v) \/ Fails]_usbcVars

(* What the firmware is owed will be sent.                                 *)
OwedIsCovered == \A v \in owed : Covered(v)
=============================================================================
