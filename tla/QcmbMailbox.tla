----------------------------- MODULE QcmbMailbox -----------------------------
(***************************************************************************)
(* The charger mailbox (QCMB) of the PMIC GLINK driver (transport.c): a    *)
(* status word that the driver writes with a command, the firmware with    *)
(* its answer, and that every thread reads back from the device context.   *)
(*                                                                         *)
(* Nothing ties an answer to a command.  A command is given by writing the *)
(* word, sending it (0x81) and asking for it (0x80) until it has changed;  *)
(* an exchange that times out is a success, so the word then read may be   *)
(* the driver's own.  The I/O queue, the standby callback and the work     *)
(* item that registers the interface all write the one word.               *)
(*                                                                         *)
(* An exchange is PmicGlink_SendData (GlinkTransport): exclusive, it takes *)
(* one reply of its opcode, of whatever request, or none.  A reply of an   *)
(* opcode nobody waits for is dropped when the next exchange begins.       *)
(* QcmbNotifyEvent is left out: the wait for it is bounded and its end is  *)
(* not looked at.  So are the charger fields, which come with the word,    *)
(* and replies too short to be decoded, which are time-outs.  A command    *)
(* word is composed and written in one step, and the mailbox is forgotten  *)
(* in one.                                                                 *)
(***************************************************************************)
EXTENDS Naturals

CONSTANTS
  Queue,          (* the thread of the sequential I/O queue                *)
  Standby,        (* the thread that calls the standby callback            *)
  Workers,        (* threads that run the register-interface work item     *)
  FirmwareWords   (* the status words the firmware may answer              *)

Threads == {Queue, Standby} \cup Workers

ASSUME MailboxAssumption ==
  /\ Queue # Standby
  /\ {Queue, Standby} \cap Workers = {}
  /\ FirmwareWords \subseteq Nat

VARIABLES
  pc,          (* where each thread is                                     *)
  call,        (* what it has been called for                              *)
  stage,       (* the exchange of that call it is at                       *)
  message,     (* the message the queue sends holds a command              *)
  status,      (* QcmbStatus                                               *)
  connected,   (* QcmbConnected                                            *)
  air,         (* replies on the way: opcode, and (history) whether the    *)
               (* firmware had been sent the queue's command by then       *)
  refused,     (* history: the queue's message could not be sent           *)
  news,        (* history: status is a reply made after its command        *)
  disturbed,   (* history: another thread wrote another word meanwhile     *)
  late         (* history: the queue took a reply made before its command  *)

history == <<refused, news, disturbed, late>>
vars == <<pc, call, stage, message, status, connected, air, history>>

(* The calls: charger info, a pre-shutdown with its first command only or  *)
(* with both, at its second, and the registration.                         *)
Calls  == {"info", "only", "both", "second", "register"}
Places == {"idle", "set", "write", "transmit", "exchange", "look", "copy"}
Stages == {"command", "poll", "repoll", "final"}

(* The command goes out with opcode 0x81, the other exchanges read (0x80). *)
Op(s) == IF s = "command" THEN "put" ELSE "get"

(* Bit 0 of a status word, and its bits 1 to 3: 1 stands for a command, 2  *)
(* for its result.                                                         *)
Linked(w)  == w % 2 = 1
Command(w) == (w \div 2) % 8 = 1
Result(w)  == (w \div 2) % 8 = 2

Bit(b) == IF b THEN 1 ELSE 0
(* Defect: the second word is made from the first.                         *)
CommandWordAdded(t) == Bit(connected) + 2 + IF call[t] = "second" THEN 4 ELSE 0
CommandWord(t) == Bit(connected) + IF call[t] = "second" THEN 4 ELSE 2

Goto(t, place) == pc' = [pc EXCEPT ![t] = place]

(* The queue is in a call for the charger information.                     *)
InInfo == pc[Queue] # "idle" /\ call[Queue] = "info"
(* ... and the firmware has been sent its command.                         *)
Sent ==
  /\ InInfo /\ message /\ ~refused
  /\ stage[Queue] # "command" \/ pc[Queue] = "exchange"

(* Thread t writes w; known: as a reply made after the queue's command.    *)
WriteWord(t, w, known) ==
  /\ status' = w
  /\ news' = known
  /\ disturbed' = (disturbed \/ (t # Queue /\ InInfo /\ ~known))

Ask(t, s) ==
  /\ Goto(t, "transmit")
  /\ stage' = [stage EXCEPT ![t] = s]
  /\ UNCHANGED call

(* A call that returns; the first command of two is followed by the second.*)
Leave(t) ==
  /\ Goto(t, IF call[t] = "both" THEN "set" ELSE "idle")
  /\ call' = [call EXCEPT ![t] = IF @ = "both" THEN "second" ELSE @]
  /\ stage' = [stage EXCEPT ![t] = "command"]

---------------------------------------------------------------------------
(* The callers.                                                            *)

Begin(t, c) ==
  /\ pc[t] = "idle" /\ connected
  /\ Goto(t, "set")
  /\ call' = [call EXCEPT ![t] = c]
  /\ UNCHANGED <<stage, message, status, connected>>

(* PmicGlinkPlatformQcmb_GetChargerInfo_Cmd; its history begins here.      *)
GetChargerInfo ==
  /\ Begin(Queue, "info")
  /\ air' = {[r EXCEPT !.told = FALSE] : r \in air}
  /\ refused' = FALSE /\ news' = FALSE /\ disturbed' = FALSE /\ late' = FALSE

(* PmicGlinkPlatformQcmb_PreShutdown_Cmd: bits from 4 on give one command. *)
PreShutdown ==
  /\ \E c \in {"only", "both"} : Begin(Queue, c)
  /\ UNCHANGED <<air, history>>

(* PmicGlinkPower_ModernStandby_Callback: bits 1 or 2.                     *)
ModernStandby == Begin(Standby, "both") /\ UNCHANGED <<air, history>>

(* PmicGlinkRegisterInterfaceWorkItem forgets the mailbox.                 *)
RegisterInterface(w) ==
  /\ pc[w] = "idle"
  /\ Goto(w, "write")
  /\ call' = [call EXCEPT ![w] = "register"]
  /\ connected' = FALSE
  /\ WriteWord(w, 0, FALSE)
  /\ UNCHANGED <<stage, message, air, refused, late>>

---------------------------------------------------------------------------
(* A mailbox command.                                                      *)

(* Defect: the word is left as it is, whatever was answered last.          *)
SetStatusKept(t) ==
  /\ pc[t] = "set"
  /\ Goto(t, "write")
  /\ UNCHANGED <<call, stage, message, status, connected, air, history>>

SetStatus(t) ==
  /\ pc[t] = "set"
  /\ Goto(t, "write")
  /\ WriteWord(t, CommandWord(t), FALSE)
  /\ UNCHANGED <<call, stage, message, connected, air, refused, late>>

(* The message takes the word as it is by now.                             *)
WriteMBToBuffer(t) ==
  /\ pc[t] = "write"
  /\ Goto(t, "transmit")
  /\ message' = IF t = Queue THEN Command(status) ELSE message
  /\ UNCHANGED <<call, stage, status, connected, air, history>>

(* The request goes out, and with it a reply that may come much later.     *)
Transmit(t) ==
  /\ pc[t] = "transmit"
  /\ \A u \in Threads : pc[u] # "exchange"
  /\ Goto(t, "exchange")
  /\ UNCHANGED <<call, stage, message, status, connected, history>>
  /\ air' = air \cup {[op |-> Op(stage[t]), told |-> Sent']}

(* What follows an exchange that succeeded or failed.                      *)
Succeed(t) ==
  \/ /\ stage[t] = "command" /\ call[t] = "second"
     /\ Leave(t)
  \/ /\ stage[t] = "command" /\ call[t] # "second"
     /\ Ask(t, IF call[t] = "register" THEN "final" ELSE "poll")
  \/ stage[t] = "repoll" /\ Ask(t, "final")
  \/ stage[t] \in {"poll", "final"} /\ Goto(t, "look") /\ UNCHANGED <<call, stage>>

Fail(t) ==
  IF stage[t] = "final" \/ (stage[t] = "command" /\ call[t] \in {"second", "register"})
    THEN Leave(t)
    ELSE Ask(t, "final")

(* STATUS_RETRY or a failed write.                                         *)
TransmitFails(t) ==
  /\ pc[t] = "transmit"
  /\ refused' = (refused \/ (t = Queue /\ stage[t] = "command"))
  /\ Fail(t)
  /\ UNCHANGED <<message, status, connected, air, news, disturbed, late>>

(* STATUS_TIMEOUT is a success code.                                       *)
TimeOut(t) ==
  /\ pc[t] = "exchange"
  /\ Succeed(t)
  /\ UNCHANGED <<message, status, connected, air, history>>

(* A reply with word w is decoded.  The answer to a command sets the       *)
(* connection too, and its word is also the status of the exchange; that   *)
(* of the other reply is a field of its own: both are a choice.            *)
Reply(t, r, w) ==
  /\ pc[t] = "exchange" /\ r.op = Op(stage[t])
  /\ air' = air \ {r}
  /\ WriteWord(t, w, r.told)
  /\ connected' = IF r.op = "put" THEN Linked(w) ELSE connected
  /\ late' = (late \/ (t = Queue /\ Sent /\ ~r.told))
  /\ Succeed(t) \/ Fail(t)
  /\ UNCHANGED <<message, refused>>

(* The end of PmicGlinkPlatformQcmb_GetStatus and what its caller does     *)
(* with the word.                                                          *)
Look(t) ==
  /\ pc[t] = "look"
  /\ \/ /\ stage[t] = "poll"
        /\ Ask(t, IF Command(status) THEN "repoll" ELSE "final")
        /\ UNCHANGED connected
     \/ /\ stage[t] = "final" /\ call[t] = "info" /\ Result(status)
        /\ Goto(t, "copy")
        /\ UNCHANGED <<call, stage, connected>>
     \/ /\ stage[t] = "final" /\ ~(call[t] = "info" /\ Result(status))
        /\ Leave(t)
        /\ connected' = IF call[t] = "register" THEN Linked(status) ELSE connected
  /\ UNCHANGED <<message, status, air, history>>

(* The charger fields are given to the caller.                             *)
Copy(t) ==
  /\ pc[t] = "copy"
  /\ Leave(t)
  /\ UNCHANGED <<message, status, connected, air, history>>

---------------------------------------------------------------------------
Init ==
  /\ pc = [t \in Threads |-> "idle"]
  /\ call = [t \in Threads |-> "register"]
  /\ stage = [t \in Threads |-> "command"]
  /\ message = FALSE /\ status = 0 /\ connected = FALSE
  /\ air = {}
  /\ refused = FALSE /\ news = FALSE /\ disturbed = FALSE /\ late = FALSE

Step(t) ==
  \/ SetStatus(t) \/ WriteMBToBuffer(t)
  \/ Transmit(t) \/ TransmitFails(t) \/ TimeOut(t)
  \/ \E r \in air, w \in FirmwareWords : Reply(t, r, w)
  \/ Look(t) \/ Copy(t)

Next ==
  \/ GetChargerInfo \/ PreShutdown \/ ModernStandby
  \/ \E w \in Workers : RegisterInterface(w)
  \/ \E t \in Threads : Step(t)

Spec == Init /\ [][Next]_vars

---------------------------------------------------------------------------
(* Properties.                                                             *)

(* Type correctness: the word is one the firmware answered, none, or a     *)
(* command with or without the bit of the connection.                      *)
TypeOK ==
  /\ pc \in [Threads -> Places]
  /\ call \in [Threads -> Calls]
  /\ stage \in [Threads -> Stages]
  /\ status \in FirmwareWords \cup {0, 2, 3, 4, 5}
  /\ {message, connected} \subseteq BOOLEAN
  /\ air \subseteq [op : {"put", "get"}, told : BOOLEAN]
  /\ {refused, news, disturbed, late} \subseteq BOOLEAN

(* Charger information is given to the caller only as the answer to his    *)
(* command, although answers name no command, every exchange may time out  *)
(* with success and the result of sending is not looked at.  The code      *)
(* allows three exceptions: the command was not sent, another thread wrote *)
(* the word meanwhile (the second word of a pre-shutdown reads as a result)*)
(* or a reply to an earlier request, given up by then, was taken.          *)
InfoIsAnswered ==
  pc[Queue] = "copy" => news \/ refused \/ disturbed \/ late

---------------------------------------------------------------------------
(* The inductive strengthening of InfoIsAnswered.                          *)

(* The queue has yet to send the command of its call.                      *)
Unsent ==
  /\ InInfo /\ stage[Queue] = "command"
  /\ pc[Queue] \in {"set", "write", "transmit"}

(* Until then no reply can have been made after it.  A call that has not   *)
(* transmitted is at its command, and only this kind of call copies.       *)
UnsentInv ==
  /\ pc[Queue] \in {"idle", "set", "write"} => stage[Queue] = "command"
  /\ pc[Queue] = "copy" => call[Queue] = "info"
  /\ Unsent => \A r \in air : ~r.told

(* The queue's command is written, and none of the exceptions has happened.*)
Untouched == InInfo /\ pc[Queue] # "set" /\ ~refused /\ ~disturbed /\ ~late

(* Then the word is the command until it is the answer, the message holds  *)
(* that command, and the fields are copied after an answer only.           *)
WordInv ==
  Untouched =>
    /\ news \/ Command(status)
    /\ IF pc[Queue] = "write" THEN ~news ELSE message
    /\ pc[Queue] = "copy" => news

MailboxInv == TypeOK /\ UnsentInv /\ WordInv
=============================================================================
