---------------------------- MODULE UlogTransport ----------------------------
(***************************************************************************)
(* The log channel of the PMIC GLINK driver (ulog.c): the exchange         *)
(* PmicGlinkUlog_SendData, the work item and the timer that use it, and    *)
(* the GLINK callbacks of the channel.                                     *)
(*                                                                         *)
(* The exchange resembles PmicGlink_SendData (GlinkTransport) and differs  *)
(* where it matters: there is no mutex between the test of the busy flag   *)
(* and its setting; the flag is released when the first wait loop ends     *)
(* with a reply or without a Tx notification, and the call then runs the   *)
(* second loop all the same; a reply is read from its slot in three steps  *)
(* without the lock; and an exchange that times out is a success for its   *)
(* callers (STATUS_TIMEOUT is a success code), which go on to print the    *)
(* buffer.                                                                 *)
(*                                                                         *)
(* Of a log buffer only whether it has been read is kept, and it is copied *)
(* in one step; the division into lines, the Tx counter, NotificationFlag  *)
(* and the LastUlogRx* fields are left out.  UlogInitEn is set: without it *)
(* the channel is never opened.                                            *)
(***************************************************************************)
EXTENDS Naturals

CONSTANTS
  Timer,        (* the thread that runs PmicGlinkUlogTimerFunction         *)
  Workers,      (* the threads that run the register-interface work item   *)
  NoOp,         (* the receive callback is not running                     *)
  PollLimit,    (* polls of the busy flag before giving up: 0x3E8          *)
  WaitLimit,    (* waits in each of the two loops: 50                      *)
  Attempts,     (* buffers read in one run of the timer function: 4        *)
  MaxPackets,   (* bound on the packets that arrive                        *)
  MaxItems      (* bound on the connections, each of which queues an item  *)

(* The opcodes of the log channel: set properties (25), get log buffer     *)
(* (24) and get buffer (35), which reads the log of the boot.              *)
Ops == {"props", "log", "init"}
Logs == {"log", "init"}
Callers == {Timer} \cup Workers

ASSUME UlogAssumption ==
  /\ Timer \notin Workers
  /\ NoOp \notin Ops
  /\ PollLimit \in Nat
  /\ WaitLimit \in Nat
  /\ Attempts \in Nat
  /\ MaxPackets \in Nat
  /\ MaxItems \in Nat

(* What a buffer holds: zeros, or a packet that (history) has not or has   *)
(* been read; read means copied, of a slot, and printed, of the data.      *)
Contents == {"zeros", "fresh", "read"}

VARIABLES
  pc,              (* where each caller is                                 *)
  phase,           (* which of its two wait loops it is in                 *)
  count,           (* waitCount                                            *)
  matched,         (* matchedResponse                                      *)
  rxInProgress,    (* gPmicGlinkUlogRxInProgress                           *)
  held,            (* history: callers that set the flag and have not      *)
                   (* released it themselves                               *)
  disturbed,       (* history: those whose claim another caller released,  *)
                   (* who claimed while another held, or whose events were *)
                   (* initialised again                                    *)
  signaled,        (* the two events, Tx and Rx                            *)
  full, buffer,    (* CommData: Size # 0, and the content, for each opcode *)
  rxCb,            (* opcode of the receive callback between store and set *)
  asked, arrived,  (* the opcodes the firmware was sent; packets so far    *)
  connected,       (* GlinkChannelUlogConnected                            *)
  restart,         (* GlinkChannelUlogRestart                              *)
  open,            (* gPmicGlinkUlogChannelHandle # NULL                   *)
  items,           (* register work items queued and not begun             *)
  connects,        (* connections so far                                   *)
  periodic,        (* UlogInterval # 0, from the registry                  *)
  timer,           (* UlogTimer: none, armed, fired (running) or idle      *)
  stage, left,     (* the loop of the timer function, its attempts         *)
  timedOut,        (* the last exchange of the timer function timed out    *)
  data,            (* gPmicGlinkUlogData and gPmicGlinkUlogInitData        *)
  initPrinted      (* gPmicGlinkUlogInitPrinted                            *)

localVars == <<phase, count, matched>>
claimVars == <<rxInProgress, held, disturbed>>
slotVars  == <<full, buffer>>
rxVars    == <<rxCb, asked, arrived>>
chanVars  == <<connected, restart, open>>
itemVars  == <<items, connects>>
timerVars == <<periodic, timer, stage, left>>
printVars == <<timedOut, data, initPrinted>>
vars == <<pc, localVars, claimVars, signaled, slotVars, rxVars, chanVars,
          itemVars, timerVars, printVars>>

(* What no step of an exchange before its end touches.                     *)
outerVars == <<chanVars, itemVars, timerVars>>

WaitPlaces == {"wait", "clearTx", "clearRx", "take", "copy", "zero", "matched"}
Exchange == WaitPlaces \cup {"clearEvents", "clearSlot", "transmit", "finish"}
Places == Exchange \cup {"idle", "poll", "claim", "print", "next", "ensure"}

(* The opcode of a caller's request.                                       *)
Opcode(c) == IF c = Timer THEN stage ELSE "props"

Goto(c, place) == pc' = [pc EXCEPT ![c] = place]
SetCount(c, n) == count' = [count EXCEPT ![c] = n]

(* PmicGlinkUlog_SendData returns: the timer function goes on to print or, *)
(* if the call failed, gives up its loop; the work item goes on to create  *)
(* the timer.                                                              *)
Return(c, success) ==
  /\ Goto(c, IF c \in Workers THEN "ensure" ELSE IF success THEN "print" ELSE "next")
  /\ left' = IF c = Timer /\ ~success THEN 0 ELSE left
  /\ phase' = [phase EXCEPT ![c] = 1]
  /\ matched' = [matched EXCEPT ![c] = FALSE]
  /\ SetCount(c, 0)
  /\ UNCHANGED <<periodic, timer, stage>>

(* gPmicGlinkUlogRxInProgress = 0, with its effect on the histories.       *)
Release(c) ==
  /\ rxInProgress' = FALSE
  /\ held' = held \ {c}
  /\ disturbed' = (disturbed \cup held) \ {c}

---------------------------------------------------------------------------
(* PmicGlinkUlog_SendData.                                                 *)

Usable == connected /\ ~restart /\ open

(* The checks on entry; STATUS_RETRY is a failure.                         *)
Enter(c) ==
  /\ \/ /\ Usable
        /\ Goto(c, "poll")
        /\ UNCHANGED left
     \/ /\ ~Usable
        /\ Goto(c, IF c = Timer THEN "next" ELSE "ensure")
        /\ left' = IF c = Timer THEN 0 ELSE left
  /\ UNCHANGED <<phase, count, matched>>

PollBusy(c) ==
  /\ pc[c] = "poll"
  /\ rxInProgress
  /\ count[c] < PollLimit
  /\ SetCount(c, count[c] + 1)
  /\ UNCHANGED <<pc, phase, matched, claimVars, signaled, slotVars,
                 rxVars, outerVars, printVars>>

PollGiveUp(c) ==
  /\ pc[c] = "poll"
  /\ rxInProgress
  /\ count[c] >= PollLimit
  /\ Return(c, FALSE)
  /\ UNCHANGED <<claimVars, signaled, slotVars, rxVars, chanVars, itemVars, printVars>>

(* Defect: the flag is not looked at.                                      *)
PollFreeUnchecked(c) ==
  /\ pc[c] = "poll"
  /\ SetCount(c, 0)
  /\ Goto(c, "claim")
  /\ UNCHANGED <<phase, matched, claimVars, signaled, slotVars,
                 rxVars, outerVars, printVars>>

PollFree(c) ==
  /\ pc[c] = "poll"
  /\ ~rxInProgress
  /\ SetCount(c, 0)
  /\ Goto(c, "claim")
  /\ UNCHANGED <<phase, matched, claimVars, signaled, slotVars,
                 rxVars, outerVars, printVars>>

Claim(c) ==
  /\ pc[c] = "claim"
  /\ rxInProgress' = TRUE
  /\ held' = held \cup {c}
  /\ disturbed' = IF held # {} THEN disturbed \cup {c} ELSE disturbed
  /\ Goto(c, "clearEvents")
  /\ UNCHANGED <<localVars, signaled, slotVars, rxVars, outerVars, printVars>>

ClearEvents(c) ==
  /\ pc[c] = "clearEvents"
  /\ signaled' = {}
  /\ Goto(c, "clearSlot")
  /\ UNCHANGED <<localVars, claimVars, slotVars, rxVars, outerVars, printVars>>

(* PmicGlinkClearCommDataSlot, under StateLock.                            *)
ClearSlot(c) ==
  /\ pc[c] = "clearSlot"
  /\ full' = [full EXCEPT ![Opcode(c)] = FALSE]
  /\ buffer' = [buffer EXCEPT ![Opcode(c)] = IF full[Opcode(c)] THEN "zeros" ELSE @]
  /\ Goto(c, "transmit")
  /\ UNCHANGED <<localVars, claimVars, signaled, rxVars, outerVars, printVars>>

(* Defect: the events are cleared after GLinkTx instead of before it.      *)
TransmitThenClearEvents(c) ==
  /\ pc[c] = "transmit"
  /\ asked' = asked \cup {Opcode(c)}
  /\ signaled' = {}
  /\ Goto(c, "wait")
  /\ UNCHANGED <<localVars, claimVars, slotVars, rxCb, arrived, outerVars, printVars>>

Transmit(c) ==
  /\ pc[c] = "transmit"
  /\ asked' = asked \cup {Opcode(c)}
  /\ Goto(c, "wait")
  /\ UNCHANGED <<localVars, claimVars, signaled, slotVars, rxCb, arrived,
                 outerVars, printVars>>

(* Defect: the error path returns with the flag set.                       *)
TransmitFailsClaimed(c) ==
  /\ pc[c] = "transmit"
  /\ Return(c, FALSE)
  /\ held' = held \ {c}
  /\ UNCHANGED <<rxInProgress, disturbed, signaled, slotVars, rxVars, chanVars,
                 itemVars, printVars>>

TransmitFails(c) ==
  /\ pc[c] = "transmit"
  /\ Release(c)
  /\ Return(c, FALSE)
  /\ UNCHANGED <<signaled, slotVars, rxVars, chanVars, itemVars, printVars>>

(* KeWaitForMultipleObjects: Tx comes before Rx in the array.              *)
WakeUp(c) ==
  /\ pc[c] = "wait"
  /\ count[c] < WaitLimit
  /\ signaled # {}
  /\ Goto(c, IF "Tx" \in signaled THEN "clearTx" ELSE "clearRx")
  /\ UNCHANGED <<localVars, claimVars, signaled, slotVars,
                 rxVars, outerVars, printVars>>

WaitTimesOut(c) ==
  /\ pc[c] = "wait"
  /\ count[c] < WaitLimit
  /\ signaled = {}
  /\ SetCount(c, count[c] + 1)
  /\ UNCHANGED <<pc, phase, matched, claimVars, signaled, slotVars,
                 rxVars, outerVars, printVars>>

(* The first loop has run out of waits: the flag is released, and the      *)
(* second loop runs without it.                                            *)
FirstLoopExhausted(c) ==
  /\ pc[c] = "wait"
  /\ count[c] >= WaitLimit
  /\ phase[c] = 1
  /\ Release(c)
  /\ phase' = [phase EXCEPT ![c] = 2]
  /\ SetCount(c, 0)
  /\ UNCHANGED <<pc, matched, signaled, slotVars, rxVars, outerVars, printVars>>

SecondLoopExhausted(c) ==
  /\ pc[c] = "wait"
  /\ count[c] >= WaitLimit
  /\ phase[c] = 2
  /\ Goto(c, "finish")
  /\ UNCHANGED <<localVars, claimVars, signaled, slotVars, rxVars, outerVars, printVars>>

(* KeClearEvent, and what the event leads to: a look into the slot, out of *)
(* the first loop, or the next wait.                                       *)
ClearWoken(c) ==
  /\ \/ /\ pc[c] = "clearRx"
        /\ signaled' = signaled \ {"Rx"}
        /\ Goto(c, "take")
        /\ UNCHANGED <<phase, count>>
     \/ /\ pc[c] = "clearTx"
        /\ signaled' = signaled \ {"Tx"}
        /\ Goto(c, "wait")
        /\ phase' = [phase EXCEPT ![c] = 2]
        /\ SetCount(c, IF phase[c] = 1 THEN 0 ELSE count[c] + 1)
  /\ UNCHANGED <<matched, claimVars, slotVars, rxVars, outerVars, printVars>>

(* PmicGlinkUlog_RetrieveRxData: an empty slot has no reply; a full one is *)
(* declared empty before it is read ...                                    *)
Take(c) ==
  /\ pc[c] = "take"
  /\ \/ /\ full[Opcode(c)]
        /\ full' = [full EXCEPT ![Opcode(c)] = FALSE]
        /\ Goto(c, "copy")
        /\ UNCHANGED count
     \/ /\ ~full[Opcode(c)]
        /\ SetCount(c, count[c] + 1)
        /\ Goto(c, "wait")
        /\ UNCHANGED full
  /\ UNCHANGED <<phase, matched, claimVars, signaled, buffer, rxVars,
                 outerVars, printVars>>

(* Defect: the opcode of the packet is not compared.                       *)
CopyAnything(c) ==
  /\ pc[c] = "copy"
  /\ data' = IF Opcode(c) \in Logs THEN [data EXCEPT ![Opcode(c)] = buffer[Opcode(c)]] ELSE data
  /\ Goto(c, "zero")
  /\ UNCHANGED <<localVars, claimVars, signaled, slotVars, rxVars, outerVars,
                 timedOut, initPrinted>>

(* ... an erased buffer has the wrong opcode; a log is copied ...          *)
Copy(c) ==
  /\ pc[c] = "copy"
  /\ \/ /\ buffer[Opcode(c)] = "zeros"
        /\ SetCount(c, count[c] + 1)
        /\ Goto(c, "wait")
        /\ UNCHANGED <<buffer, data>>
     \/ /\ buffer[Opcode(c)] # "zeros"
        /\ data' = IF Opcode(c) \in Logs
                   THEN [data EXCEPT ![Opcode(c)] = buffer[Opcode(c)]] ELSE data
        /\ buffer' = [buffer EXCEPT ![Opcode(c)] = "read"]
        /\ Goto(c, "zero")
        /\ UNCHANGED count
  /\ UNCHANGED <<phase, matched, claimVars, signaled, full, rxVars,
                 outerVars, timedOut, initPrinted>>

(* ... and the buffer is erased, with whatever has come into it meanwhile. *)
Zero(c) ==
  /\ pc[c] = "zero"
  /\ buffer' = [buffer EXCEPT ![Opcode(c)] = "zeros"]
  /\ Goto(c, "matched")
  /\ UNCHANGED <<localVars, claimVars, signaled, full, rxVars, outerVars, printVars>>

(* The expected reply releases the flag.  A refusal (opcode 25 only) ends  *)
(* the call; otherwise the first loop is followed by the second.           *)
Matched(c) ==
  /\ pc[c] = "matched"
  /\ Release(c)
  /\ matched' = [matched EXCEPT ![c] = TRUE]
  /\ \/ /\ Opcode(c) = "props" \/ phase[c] = 2
        /\ Goto(c, "finish")
        /\ UNCHANGED <<phase, count>>
     \/ /\ phase[c] = 1
        /\ phase' = [phase EXCEPT ![c] = 2]
        /\ SetCount(c, 0)
        /\ Goto(c, "wait")
  /\ UNCHANGED <<signaled, slotVars, rxVars, outerVars, printVars>>

(* Every way out releases the flag, again if need be.  Without a reply the *)
(* status is STATUS_TIMEOUT, a success.                                    *)
Finish(c) ==
  /\ pc[c] = "finish"
  /\ Release(c)
  /\ timedOut' = IF c = Timer THEN ~matched[c] ELSE timedOut
  /\ Return(c, TRUE)
  /\ UNCHANGED <<signaled, slotVars, rxVars, chanVars, itemVars, data, initPrinted>>

SendStep(c) ==
  \/ PollBusy(c) \/ PollGiveUp(c) \/ PollFree(c) \/ Claim(c)
  \/ ClearEvents(c) \/ ClearSlot(c) \/ Transmit(c) \/ TransmitFails(c)
  \/ WakeUp(c) \/ WaitTimesOut(c) \/ FirstLoopExhausted(c)
  \/ SecondLoopExhausted(c) \/ ClearWoken(c)
  \/ Take(c) \/ Copy(c) \/ Zero(c) \/ Matched(c) \/ Finish(c)

---------------------------------------------------------------------------
(* The timer function and the work item, the users of the exchange.        *)

(* PmicGlinkUlogTimerFunction first reads the boot log, unless it has been *)
(* printed, then the running log (only a periodic timer repeats that).     *)
TimerFires ==
  /\ timer = "armed"
  /\ pc[Timer] = "idle"
  /\ timer' = "fired"
  /\ stage' = IF initPrinted THEN "log" ELSE "init"
  /\ left' = IF connected /\ (periodic \/ ~initPrinted) THEN Attempts ELSE 0
  /\ Goto(Timer, "next")
  /\ UNCHANGED <<localVars, claimVars, signaled, slotVars, rxVars, chanVars,
                 itemVars, periodic, printVars>>

(* Defect: the loop does not look at the attempts that are left.           *)
TimerSendsForever ==
  /\ pc[Timer] = "next"
  /\ Enter(Timer)
  /\ UNCHANGED <<claimVars, signaled, slotVars, rxVars, chanVars, itemVars,
                 periodic, timer, stage, printVars>>

TimerSends ==
  /\ pc[Timer] = "next"
  /\ left > 0
  /\ Enter(Timer)
  /\ UNCHANGED <<claimVars, signaled, slotVars, rxVars, chanVars, itemVars,
                 periodic, timer, stage, printVars>>

(* PmicGlinkUlogGetLogBuffer does nothing on a closed channel.             *)
BootLogDone ==
  /\ pc[Timer] = "next"
  /\ left = 0
  /\ stage = "init"
  /\ stage' = "log"
  /\ left' = IF connected THEN Attempts ELSE 0
  /\ UNCHANGED <<pc, localVars, claimVars, signaled, slotVars, rxVars, chanVars,
                 itemVars, periodic, timer, printVars>>

TimerEnds ==
  /\ pc[Timer] = "next"
  /\ left = 0
  /\ stage = "log"
  /\ timer' = IF periodic THEN "armed" ELSE "idle"
  /\ Goto(Timer, "idle")
  /\ UNCHANGED <<localVars, claimVars, signaled, slotVars, rxVars, chanVars,
                 itemVars, periodic, stage, left, printVars>>

(* PmicGlinkUlogPrintBuffer: an empty boot log ends the boot log for good; *)
(* an empty buffer ends the loop once the boot log has ended.  Zeros are   *)
(* empty, a packet may be.                                                 *)
PrintBuffer ==
  /\ pc[Timer] = "print"
  /\ \E empty \in BOOLEAN :
       /\ data[stage] = "zeros" => empty
       /\ initPrinted' = (initPrinted \/ (stage = "init" /\ empty))
       /\ left' = IF initPrinted' /\ empty THEN 0 ELSE left - 1
  /\ data' = [data EXCEPT ![stage] = IF @ = "zeros" THEN @ ELSE "read"]
  /\ Goto(Timer, "next")
  /\ UNCHANGED <<localVars, claimVars, signaled, slotVars, rxVars, chanVars,
                 itemVars, periodic, timer, stage, timedOut>>

(* PmicGlinkUlogRegisterInterfaceWorkItem.  A periodic timer is preceded   *)
(* by a set-properties request, unless the registry's values are invalid.  *)
WorkBegins(w) ==
  /\ pc[w] = "idle"
  /\ items > 0
  /\ items' = items - 1
  /\ \/ /\ connected /\ periodic
        /\ Enter(w)
     \/ /\ connected
        /\ Goto(w, "ensure")
        /\ UNCHANGED <<localVars, left>>
     \/ /\ ~connected
        /\ UNCHANGED <<pc, localVars, left>>
  /\ UNCHANGED <<claimVars, signaled, slotVars, rxVars, chanVars, connects,
                 periodic, timer, stage, printVars>>

(* The timer is created and started once (test and creation are one step); *)
(* the creation may fail.                                                  *)
EnsureTimer(w) ==
  /\ pc[w] = "ensure"
  /\ timer' \in IF timer = "none" THEN {"none", "armed"} ELSE {timer}
  /\ Goto(w, "idle")
  /\ UNCHANGED <<localVars, claimVars, signaled, slotVars, rxVars, chanVars,
                 itemVars, periodic, stage, left, printVars>>

---------------------------------------------------------------------------
(* GLINK's callbacks for the channel, and the power callback.              *)

(* A packet is stored under StateLock (PmicGlinkStoreCommDataPacket) ...   *)
RxStore(o) ==
  /\ rxCb = NoOp
  /\ o \in asked
  /\ arrived < MaxPackets
  /\ arrived' = arrived + 1
  /\ full' = [full EXCEPT ![o] = TRUE]
  /\ buffer' = [buffer EXCEPT ![o] = "fresh"]
  /\ rxCb' = o
  /\ UNCHANGED <<pc, localVars, claimVars, signaled, asked, outerVars, printVars>>

(* ... and the event is set after the lock is released.                    *)
RxSignal ==
  /\ rxCb # NoOp
  /\ signaled' = signaled \cup {"Rx"}
  /\ rxCb' = NoOp
  /\ UNCHANGED <<pc, localVars, claimVars, slotVars, asked, arrived, outerVars, printVars>>

(* A Tx notification may be late, and sets the handle again.               *)
TxDone ==
  /\ asked # {}
  /\ open' = TRUE
  /\ signaled' = signaled \cup {"Tx"}
  /\ UNCHANGED <<pc, localVars, claimVars, slotVars, rxVars, connected, restart,
                 itemVars, timerVars, printVars>>

(* The creation of the work item may fail.                                 *)
ChannelConnected ==
  /\ open /\ ~connected
  /\ connects < MaxItems
  /\ connects' = connects + 1
  /\ connected' = TRUE /\ restart' = FALSE
  /\ items' \in {items, items + 1}
  /\ UNCHANGED <<pc, localVars, claimVars, signaled, slotVars, rxVars, open,
                 timerVars, printVars>>

RemoteDisconnected ==
  /\ open
  /\ open' = FALSE /\ connected' = FALSE /\ restart' = TRUE
  /\ UNCHANGED <<pc, localVars, claimVars, signaled, slotVars, rxVars,
                 itemVars, timerVars, printVars>>

(* PmicGlinkUlog_OpenGlinkChannelUlog: the two events are initialised,     *)
(* whoever waits on them; opening may fail.                                *)
OpenChannel ==
  /\ signaled' = {}
  /\ disturbed' = disturbed \cup held
  /\ open' \in BOOLEAN

(* After a remote disconnection, if the link is up, or may be.             *)
LocalDisconnected ==
  /\ restart
  /\ connected' = FALSE
  /\ OpenChannel \/ UNCHANGED <<signaled, disturbed, open>>
  /\ UNCHANGED <<pc, localVars, rxInProgress, held, slotVars, rxVars, restart,
                 itemVars, timerVars, printVars>>

(* PmicGLinkRegisterLinkStateCb: a link comes up at the start, or after it *)
(* went down.                                                              *)
LinkUp ==
  /\ restart \/ ~open
  /\ OpenChannel
  /\ restart' \in IF open' THEN {FALSE} ELSE {FALSE, restart}
  /\ UNCHANGED <<pc, localVars, rxInProgress, held, slotVars, rxVars, connected,
                 itemVars, timerVars, printVars>>

LinkDown ==
  /\ connected' = FALSE /\ restart' = TRUE
  /\ UNCHANGED <<pc, localVars, claimVars, signaled, slotVars, rxVars, open,
                 itemVars, timerVars, printVars>>

(* PmicGlinkEvtD0Exit waits for the timer function and stops the timer,    *)
(* which nothing starts again; then it closes the channel and empties the  *)
(* slots.                                                                  *)
D0Exit ==
  /\ pc[Timer] = "idle"
  /\ timer' = IF timer = "none" THEN "none" ELSE "idle"
  /\ open' = FALSE /\ connected' = FALSE /\ restart' = FALSE
  /\ full' = [o \in Ops |-> FALSE]
  /\ buffer' = [o \in Ops |-> IF full[o] THEN "zeros" ELSE buffer[o]]
  /\ UNCHANGED <<pc, localVars, claimVars, signaled, rxVars, itemVars, periodic,
                 stage, left, printVars>>

TimerStep == TimerFires \/ TimerSends \/ BootLogDone \/ TimerEnds \/ PrintBuffer
WorkStep(w) == WorkBegins(w) \/ EnsureTimer(w)
GlinkStep ==
  \/ \E o \in Ops : RxStore(o)
  \/ RxSignal \/ TxDone
  \/ ChannelConnected \/ RemoteDisconnected \/ LocalDisconnected
  \/ LinkUp \/ LinkDown

(* PmicGlinkDevice_InitContext, with the registry's UlogInterval.          *)
Init ==
  /\ pc = [c \in Callers |-> "idle"]
  /\ phase = [c \in Callers |-> 1]
  /\ count = [c \in Callers |-> 0]
  /\ matched = [c \in Callers |-> FALSE]
  /\ rxInProgress = FALSE /\ held = {} /\ disturbed = {}
  /\ signaled = {}
  /\ full = [o \in Ops |-> FALSE] /\ buffer = [o \in Ops |-> "zeros"]
  /\ rxCb = NoOp /\ asked = {} /\ arrived = 0
  /\ connected = FALSE /\ restart = FALSE /\ open = FALSE
  /\ items = 0 /\ connects = 0
  /\ periodic \in BOOLEAN
  /\ timer = "none" /\ stage = "log" /\ left = 0
  /\ timedOut = FALSE /\ data = [o \in Logs |-> "zeros"]
  /\ initPrinted = FALSE

Next ==
  \/ \E c \in Callers : SendStep(c)
  \/ TimerStep
  \/ \E w \in Workers : WorkStep(w)
  \/ GlinkStep
  \/ D0Exit

Spec == Init /\ [][Next]_vars

---------------------------------------------------------------------------
(* Properties.                                                             *)

(* Type correctness.                                                       *)
TypeOK ==
  /\ pc \in [Callers -> Places]
  /\ phase \in [Callers -> {1, 2}]
  /\ count \in [Callers -> Nat]
  /\ matched \in [Callers -> BOOLEAN]
  /\ rxInProgress \in BOOLEAN
  /\ held \subseteq Callers /\ disturbed \subseteq Callers
  /\ signaled \subseteq {"Tx", "Rx"}
  /\ full \in [Ops -> BOOLEAN]
  /\ buffer \in [Ops -> Contents]
  /\ rxCb \in Ops \cup {NoOp} /\ asked \subseteq Ops /\ arrived \in Nat
  /\ connected \in BOOLEAN /\ restart \in BOOLEAN /\ open \in BOOLEAN
  /\ items \in Nat /\ connects \in Nat
  /\ periodic \in BOOLEAN
  /\ timer \in {"none", "armed", "fired", "idle"}
  /\ stage \in Logs /\ left \in Nat
  /\ timedOut \in BOOLEAN
  /\ data \in [Logs -> Contents]
  /\ initPrinted \in BOOLEAN

(* gPmicGlinkUlogRxInProgress is set only while a caller is between its    *)
(* claim and its release: whatever the races, no path leaves the flag set  *)
(* behind, which would refuse every later exchange.                        *)
NoLeakedClaim == rxInProgress => \E c \in held : pc[c] \in Exchange

(* A caller gets past the busy flag only when nobody holds it, apart from  *)
(* holders from whom another caller's race or late release, or a channel   *)
(* opened again, has already taken it.                                     *)
FlagExcludes ==
  [][\A c \in Callers : pc[c] = "poll" /\ pc'[c] = "claim" => held \subseteq disturbed]_vars

(* A reply that lies in the slot of a waiting caller will wake it: the     *)
(* callback has still to set the event, the event is set, or the caller is *)
(* on its way to the slot.  Excepted are callers that were disturbed, or   *)
(* share the events with another exchange (one in its second loop, say).   *)
NoLostReply ==
  \A c \in held \ disturbed :
    /\ pc[c] \in WaitPlaces
    /\ full[Opcode(c)]
    /\ \A d \in Callers \ {c} : pc[d] \notin Exchange
    => \/ rxCb = Opcode(c) \/ "Rx" \in signaled
       \/ pc[c] \in {"clearRx", "take"}

(* What the timer function prints after an exchange that did not time out  *)
(* is an answer, and one that has not been printed before.  (After a time- *)
(* out the code prints whatever the buffer holds.)                         *)
PrintIsFresh ==
  pc[Timer] = "print" /\ ~timedOut => data[stage] = "fresh"
=============================================================================
