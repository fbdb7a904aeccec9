---------------------------- MODULE Platform_proofs ----------------------------
(***************************************************************************)
(* The platform requests: what QcmbMailbox checks for one work item and    *)
(* four words, for any numbers of them, and what UsbcNotify checks for two *)
(* ports and five calls, for any numbers of ports, threads and calls.      *)
(***************************************************************************)
EXTENDS QcmbMailbox, UsbcNotify, TLAPS

---------------------------------------------------------------------------
(* The mailbox: type correctness.                                          *)

(* What the steps within a call do to the places of the threads.           *)
PlacesOK ==
  /\ pc \in [Threads -> Places]
  /\ call \in [Threads -> Calls]
  /\ stage \in [Threads -> Stages]

LEMMA CommandWordType ==
  ASSUME NEW t \in Threads, connected \in BOOLEAN
  PROVE  CommandWord(t) \in {2, 3, 4, 5}
BY DEF CommandWord, Bit

LEMMA LeaveType == ASSUME NEW t \in Threads, PlacesOK, Leave(t) PROVE PlacesOK'
BY DEF Leave, Goto, PlacesOK, Places, Calls, Stages

LEMMA AskType ==
  ASSUME NEW t \in Threads, NEW s \in Stages, PlacesOK, Ask(t, s)
  PROVE  PlacesOK'
BY DEF Ask, Goto, PlacesOK, Places

LEMMA SucceedType == ASSUME NEW t \in Threads, PlacesOK, Succeed(t) PROVE PlacesOK'
<1>1. CASE Leave(t)
  BY <1>1, LeaveType
<1>2. ASSUME NEW s \in Stages, Ask(t, s) PROVE PlacesOK'
  BY <1>2, AskType
<1>3. CASE Goto(t, "look") /\ UNCHANGED <<call, stage>>
  BY <1>3 DEF Goto, PlacesOK, Places
<1>4. QED
  BY <1>1, <1>2, <1>3 DEF Succeed, Stages

LEMMA FailType == ASSUME NEW t \in Threads, PlacesOK, Fail(t) PROVE PlacesOK'
BY LeaveType, AskType DEF Fail, Stages

LEMMA MailboxTypeStep == TypeOK /\ [Next]_vars => TypeOK'
<1> SUFFICES ASSUME TypeOK, [Next]_vars PROVE TypeOK'
  OBVIOUS
<1> DEFINE WordOK == /\ status' \in FirmwareWords \cup {0, 2, 3, 4, 5}
                     /\ {message', connected'} \subseteq BOOLEAN
           AirOK == /\ air' \subseteq [op : {"put", "get"}, told : BOOLEAN]
                    /\ {refused', news', disturbed', late'} \subseteq BOOLEAN
<1>p. PlacesOK
  BY DEF TypeOK, PlacesOK
<1>t. {Queue, Standby} \cup Workers = Threads
  BY DEF Threads
<1>w. ASSUME NEW t, NEW k \in BOOLEAN, NEW w, WriteWord(t, w, k)
      PROVE  {news', disturbed'} \subseteq BOOLEAN /\ status' = w
  BY <1>w DEF WriteWord, TypeOK, InInfo
<1>q. ASSUME PlacesOK', WordOK, AirOK PROVE TypeOK'
  BY <1>q DEF TypeOK, PlacesOK
<1> HIDE DEF WordOK, AirOK
<1>1. ASSUME NEW t \in Threads, NEW c \in Calls, Begin(t, c) PROVE PlacesOK' /\ WordOK
  BY <1>1, <1>p DEF Begin, Goto, PlacesOK, Places, TypeOK, WordOK
<1>2. ASSUME GetChargerInfo PROVE TypeOK'
  <2>1. PlacesOK' /\ WordOK
    BY <1>2, <1>1, <1>t DEF GetChargerInfo, Calls
  <2>2. AirOK
    BY <1>2 DEF GetChargerInfo, TypeOK, AirOK
  <2>3. QED
    BY <1>q, <2>1, <2>2
<1>3. ASSUME PreShutdown \/ ModernStandby PROVE TypeOK'
  <2>1. PlacesOK' /\ WordOK
    BY <1>3, <1>1, <1>t DEF PreShutdown, ModernStandby, Calls
  <2>2. AirOK
    BY <1>3 DEF PreShutdown, ModernStandby, TypeOK, history, AirOK
  <2>3. QED
    BY <1>q, <2>1, <2>2
<1>4. ASSUME NEW w \in Workers, RegisterInterface(w) PROVE TypeOK'
  <2>1. PlacesOK'
    BY <1>4, <1>p, <1>t DEF RegisterInterface, Goto, PlacesOK, Places, Calls
  <2>2. WordOK /\ AirOK
    BY <1>4, <1>w DEF RegisterInterface, TypeOK, WordOK, AirOK
  <2>3. QED
    BY <1>q, <2>1, <2>2
<1>5. ASSUME NEW t \in Threads, SetStatus(t) PROVE TypeOK'
  <2>1. PlacesOK'
    BY <1>5, <1>p DEF SetStatus, Goto, PlacesOK, Places
  <2>2. WordOK /\ AirOK
    BY <1>5, <1>w, CommandWordType DEF SetStatus, TypeOK, WordOK, AirOK
  <2>3. QED
    BY <1>q, <2>1, <2>2
<1>6. ASSUME NEW t \in Threads, WriteMBToBuffer(t) PROVE TypeOK'
  <2>1. PlacesOK'
    BY <1>6, <1>p DEF WriteMBToBuffer, Goto, PlacesOK, Places
  <2>2. WordOK /\ AirOK
    BY <1>6 DEF WriteMBToBuffer, Command, TypeOK, history, WordOK, AirOK
  <2>3. QED
    BY <1>q, <2>1, <2>2
<1>7. ASSUME NEW t \in Threads, Transmit(t) PROVE TypeOK'
  <2>1. PlacesOK'
    BY <1>7, <1>p DEF Transmit, Goto, PlacesOK, Places
  <2>2. WordOK
    BY <1>7 DEF Transmit, TypeOK, WordOK
  <2>3. Op(stage[t]) \in {"put", "get"} /\ Sent' \in BOOLEAN
    BY DEF Op, Sent, InInfo
  <2>4. AirOK
    BY <1>7, <2>3 DEF Transmit, TypeOK, history, AirOK
  <2>5. QED
    BY <1>q, <2>1, <2>2, <2>4
<1>8. ASSUME NEW t \in Threads, TransmitFails(t) PROVE TypeOK'
  <2>1. PlacesOK'
    BY <1>8, <1>p, FailType DEF TransmitFails
  <2>2. WordOK /\ AirOK
    BY <1>8 DEF TransmitFails, TypeOK, WordOK, AirOK
  <2>3. QED
    BY <1>q, <2>1, <2>2
<1>9. ASSUME NEW t \in Threads, TimeOut(t) PROVE TypeOK'
  <2>1. PlacesOK'
    BY <1>9, <1>p, SucceedType DEF TimeOut
  <2>2. WordOK /\ AirOK
    BY <1>9 DEF TimeOut, TypeOK, history, WordOK, AirOK
  <2>3. QED
    BY <1>q, <2>1, <2>2
<1>10. ASSUME NEW t \in Threads, NEW r \in air, NEW w \in FirmwareWords, Reply(t, r, w)
       PROVE  TypeOK'
  <2>1. PlacesOK'
    BY <1>10, <1>p, SucceedType, FailType DEF Reply
  <2>2. r.told \in BOOLEAN
    BY DEF TypeOK
  <2>3. WordOK /\ AirOK
    BY <1>10, <1>w, <2>2 DEF Reply, Linked, TypeOK, Sent, InInfo, WordOK, AirOK
  <2>4. QED
    BY <1>q, <2>1, <2>3
<1>11. ASSUME NEW t \in Threads, Look(t) PROVE TypeOK'
  <2>1. PlacesOK'
    BY <1>11, <1>p, AskType, LeaveType DEF Look, Goto, PlacesOK, Places, Stages
  <2>2. WordOK /\ AirOK
    BY <1>11 DEF Look, Linked, TypeOK, history, WordOK, AirOK
  <2>3. QED
    BY <1>q, <2>1, <2>2
<1>12. ASSUME NEW t \in Threads, Copy(t) PROVE TypeOK'
  <2>1. PlacesOK'
    BY <1>12, <1>p, LeaveType DEF Copy
  <2>2. WordOK /\ AirOK
    BY <1>12 DEF Copy, TypeOK, history, WordOK, AirOK
  <2>3. QED
    BY <1>q, <2>1, <2>2
<1>13. ASSUME UNCHANGED vars PROVE TypeOK'
  BY <1>13 DEF vars, history, TypeOK
<1> QED
  BY <1>2, <1>3, <1>4, <1>5, <1>6, <1>7, <1>8, <1>9, <1>10, <1>11, <1>12, <1>13
    DEF Next, Step

(* The word is one the firmware answered or one the driver writes, for any  *)
(* words and any number of work items (transport.c).                       *)
THEOREM MailboxTypeCorrect == Spec => []TypeOK
<1>1. Init => TypeOK
  BY DEF Init, TypeOK, Places, Calls, Stages
<1>2. QED
  BY <1>1, MailboxTypeStep, PTL DEF Spec
---------------------------------------------------------------------------
(* The mailbox: charger information is an answer.                          *)

(* A thread other than the queue moves the queue only out of its way.      *)
LEMMA OthersKeepPlace ==
  ASSUME TypeOK, NEW t \in Threads, t # Queue, Step(t)
  PROVE  /\ pc'[Queue] = pc[Queue] /\ call'[Queue] = call[Queue]
         /\ stage'[Queue] = stage[Queue] /\ message' = message
         /\ refused' = refused /\ late' = late
<1> USE DEF TypeOK, Goto, history
<1>1. Queue \in Threads
  BY DEF Threads
<1>2. ASSUME Leave(t) \/ \E s \in Stages : Ask(t, s)
      PROVE  /\ pc'[Queue] = pc[Queue] /\ call'[Queue] = call[Queue]
             /\ stage'[Queue] = stage[Queue]
  BY <1>1, <1>2 DEF Leave, Ask
<1>3. CASE SetStatus(t) \/ WriteMBToBuffer(t) \/ Transmit(t)
  BY <1>1, <1>3 DEF SetStatus, WriteMBToBuffer, Transmit
<1>4. CASE TransmitFails(t)
  BY <1>2, <1>4 DEF TransmitFails, Fail, Stages
<1>5. CASE TimeOut(t)
  BY <1>1, <1>2, <1>5 DEF TimeOut, Succeed, Stages
<1>6. ASSUME NEW r \in air, NEW w \in FirmwareWords, Reply(t, r, w)
      PROVE  /\ pc'[Queue] = pc[Queue] /\ call'[Queue] = call[Queue]
             /\ stage'[Queue] = stage[Queue] /\ message' = message
             /\ refused' = refused /\ late' = late
  BY <1>1, <1>2, <1>6 DEF Reply, Succeed, Fail, Stages
<1>7. CASE Look(t)
  BY <1>1, <1>2, <1>7 DEF Look, Stages
<1>8. CASE Copy(t)
  BY <1>2, <1>8 DEF Copy
<1>9. QED
  BY <1>3, <1>4, <1>5, <1>6, <1>7, <1>8 DEF Step

(* What another thread writes disturbs the call, unless it is a reply made *)
(* after the queue's command.                                              *)
LEMMA OthersDisturb ==
  ASSUME MailboxInv, NEW t \in Threads, t # Queue, Step(t), InInfo
  PROVE  \/ disturbed'
         \/ status' = status /\ news' = news /\ disturbed' = disturbed
         \/ ~Unsent /\ news' /\ disturbed' = disturbed
<1> USE DEF WriteWord, history
<1>1. CASE SetStatus(t)
  BY <1>1 DEF SetStatus
<1>2. ASSUME NEW r \in air, NEW w \in FirmwareWords, Reply(t, r, w)
      PROVE  disturbed' \/ (~Unsent /\ news' /\ disturbed' = disturbed)
  BY <1>2 DEF Reply, MailboxInv, UnsentInv, TypeOK
<1>3. CASE \/ WriteMBToBuffer(t) \/ Transmit(t) \/ TransmitFails(t)
           \/ TimeOut(t) \/ Look(t) \/ Copy(t)
  BY <1>3 DEF WriteMBToBuffer, Transmit, TransmitFails, TimeOut, Look, Copy
<1>4. QED
  BY <1>1, <1>2, <1>3 DEF Step

(* While the command is unsent nobody is sent a reply marked as told.      *)
LEMMA UnsentStep == MailboxInv /\ [Next]_vars => UnsentInv'
<1> SUFFICES ASSUME MailboxInv, [Next]_vars PROVE UnsentInv'
  OBVIOUS
<1> USE DEF MailboxInv, TypeOK, UnsentInv, Unsent, InInfo, Goto, history
<1>q. Queue \in Threads /\ Queue \notin Workers /\ Queue # Standby
  BY MailboxAssumption DEF Threads
<1>1. ASSUME GetChargerInfo PROVE UnsentInv'
  BY <1>1, <1>q DEF GetChargerInfo, Begin
<1>2. ASSUME PreShutdown \/ ModernStandby PROVE UnsentInv'
  BY <1>2, <1>q DEF PreShutdown, ModernStandby, Begin
<1>3. ASSUME NEW w \in Workers, RegisterInterface(w) PROVE UnsentInv'
  BY <1>3, <1>q DEF RegisterInterface
<1>4. ASSUME NEW t \in Threads, t # Queue, Step(t) PROVE UnsentInv'
  <2>1. Unsent' => Unsent
    BY <1>4, OthersKeepPlace
  <2>2. Unsent => \A r \in air' \ air : ~r.told
    <3>1. CASE Transmit(t)
      <4>1. Unsent => ~Sent'
        BY <1>4, <3>1, OthersKeepPlace DEF Sent
      <4>2. QED
        BY <3>1, <4>1 DEF Transmit
    <3>2. CASE ~Transmit(t)
      BY <1>4, <3>2 DEF Step, SetStatus, WriteMBToBuffer, TransmitFails, TimeOut,
                        Reply, Look, Copy
    <3>3. QED
      BY <3>1, <3>2
  <2>3. QED
    BY <1>4, <2>1, <2>2, OthersKeepPlace
<1>5. ASSUME Step(Queue) PROVE UnsentInv'
  <2>1. CASE SetStatus(Queue) \/ WriteMBToBuffer(Queue) \/ Transmit(Queue)
    BY <1>q, <2>1 DEF SetStatus, WriteMBToBuffer, Transmit
  <2>2. ASSUME Leave(Queue) PROVE UnsentInv'
    <3>1. ~InInfo' /\ stage'[Queue] = "command" /\ pc'[Queue] # "copy"
      BY <1>q, <2>2 DEF Leave
    <3>2. QED
      BY <3>1
  <2>3. ASSUME NEW s \in Stages, s # "command", Ask(Queue, s) PROVE UnsentInv'
    BY <1>q, <2>3 DEF Ask
  <2>4. ASSUME \/ Goto(Queue, "look")
               \/ Goto(Queue, "copy") /\ call[Queue] = "info" /\ UNCHANGED call
        PROVE  UnsentInv'
    BY <1>q, <2>4
  <2>5. Succeed(Queue) \/ Fail(Queue) => UnsentInv'
    BY <2>2, <2>3, <2>4 DEF Succeed, Fail, Stages
  <2>6. CASE TransmitFails(Queue) \/ TimeOut(Queue) \/ Copy(Queue)
    BY <2>2, <2>5, <2>6 DEF TransmitFails, TimeOut, Copy
  <2>7. ASSUME NEW r \in air, NEW w \in FirmwareWords, Reply(Queue, r, w)
        PROVE  UnsentInv'
    BY <2>5, <2>7 DEF Reply
  <2>8. CASE Look(Queue)
    BY <2>2, <2>3, <2>4, <2>8 DEF Look, Stages
  <2>9. QED
    BY <1>5, <2>1, <2>6, <2>7, <2>8 DEF Step
<1>6. ASSUME UNCHANGED vars PROVE UnsentInv'
  BY <1>6 DEF vars
<1> QED
  BY <1>1, <1>2, <1>3, <1>4, <1>5, <1>6 DEF Next

(* The word is the command until it is the answer.                         *)
LEMMA WordStep == MailboxInv /\ [Next]_vars => WordInv'
<1> SUFFICES ASSUME MailboxInv, [Next]_vars, Untouched'
             PROVE  /\ (news \/ Command(status))'
                    /\ IF pc'[Queue] = "write" THEN ~news' ELSE message'
                    /\ pc'[Queue] = "copy" => news'
  BY DEF WordInv
<1> DEFINE Goal == /\ (news \/ Command(status))'
                   /\ IF pc'[Queue] = "write" THEN ~news' ELSE message'
                   /\ pc'[Queue] = "copy" => news'
<1>q. Queue \in Threads /\ Queue \notin Workers /\ Queue # Standby
  BY MailboxAssumption DEF Threads
<1>t. TypeOK /\ UnsentInv /\ WordInv
  BY DEF MailboxInv
<1>1. ASSUME GetChargerInfo \/ PreShutdown PROVE Goal
  <2>1. pc'[Queue] = "set"
    BY <1>1, <1>q, <1>t DEF GetChargerInfo, PreShutdown, Begin, Goto, TypeOK
  <2>2. QED
    BY <2>1 DEF Untouched
<1>2. ASSUME ModernStandby PROVE Goal
  BY <1>2, <1>q, <1>t DEF ModernStandby, Begin, Goto, TypeOK, WordInv, Untouched,
                          InInfo, Command, history
<1>3. ASSUME NEW w \in Workers, RegisterInterface(w) PROVE Goal
  <2>1. InInfo' => InInfo
    BY <1>3, <1>q, <1>t DEF RegisterInterface, Goto, TypeOK, InInfo
  <2>2. QED
    BY <1>3, <1>q, <2>1 DEF RegisterInterface, WriteWord, Untouched
<1>4. ASSUME NEW t \in Threads, t # Queue, Step(t) PROVE Goal
  <2>1. Untouched \/ disturbed
    BY <1>4, <1>t, OthersKeepPlace DEF Untouched, InInfo
  <2>2. InInfo
    BY <1>4, <1>t, OthersKeepPlace DEF Untouched, InInfo
  <2>3. Untouched /\ ~disturbed'
    BY <1>4, <2>1, <2>2, OthersDisturb DEF Untouched
  <2>4. CASE status' = status /\ news' = news
    BY <1>4, <1>t, <2>3, <2>4, OthersKeepPlace DEF WordInv, Command
  <2>5. CASE ~Unsent /\ news'
    <3>1. pc[Queue] # "write"
      BY <1>t, <2>2, <2>5 DEF UnsentInv, Unsent
    <3>2. pc'[Queue] = pc[Queue] /\ message' = message
      BY <1>4, <1>t, OthersKeepPlace
    <3>3. message
      BY <1>t, <2>3, <3>1 DEF WordInv
    <3>4. QED
      BY <2>5, <3>1, <3>2, <3>3
  <2>6. QED
    BY <1>4, <2>2, <2>3, <2>4, <2>5, OthersDisturb
<1>5. ASSUME Step(Queue) PROVE Goal
  <2>1. ASSUME SetStatus(Queue) PROVE Goal
    <3>1. call[Queue] = "info" /\ pc'[Queue] = "write"
      BY <1>q, <1>t, <2>1 DEF SetStatus, Goto, TypeOK, Untouched, InInfo
    <3>2. status' \in {2, 3} /\ ~news'
      BY <1>t, <2>1, <3>1 DEF SetStatus, WriteWord, CommandWord, Bit, TypeOK
    <3>3. Command(2) /\ Command(3)
      BY DEF Command
    <3>4. Command(status)'
      BY <3>2, <3>3 DEF Command
    <3>5. QED
      BY <3>1, <3>2, <3>4
  <2>2. ASSUME WriteMBToBuffer(Queue) PROVE Goal
    <3>1. pc[Queue] = "write" /\ pc'[Queue] = "transmit" /\ Untouched
      BY <1>q, <1>t, <2>2 DEF WriteMBToBuffer, Goto, TypeOK, Untouched, InInfo, history
    <3>2. ~news /\ Command(status)
      BY <1>t, <3>1 DEF WordInv
    <3>3. QED
      BY <2>2, <3>1, <3>2 DEF WriteMBToBuffer, Command, history
  <2>3. ASSUME Transmit(Queue) PROVE Goal
    <3>1. /\ Untouched /\ pc[Queue] = "transmit" /\ pc'[Queue] = "exchange"
          /\ status' = status /\ news' = news /\ message' = message
      BY <1>q, <1>t, <2>3 DEF Transmit, Goto, TypeOK, Untouched, InInfo, history
    <3>2. QED
      BY <1>t, <3>1 DEF WordInv, Command
  (* What follows an exchange moves the queue on, if it does not leave.    *)
  <2>s. ASSUME Succeed(Queue) \/ Fail(Queue) \/ Leave(Queue)
        PROVE  /\ pc'[Queue] \in {"transmit", "look"}
               /\ call'[Queue] = call[Queue]
    <3>1. ~Leave(Queue)
      BY <1>q, <1>t DEF Leave, Goto, TypeOK, Untouched, InInfo
    <3>2. QED
      BY <1>q, <1>t, <2>s, <3>1 DEF Succeed, Fail, Ask, Goto, TypeOK
  <2>4. ASSUME TransmitFails(Queue) \/ TimeOut(Queue) PROVE Goal
    <3>1. /\ pc[Queue] \in {"transmit", "exchange"} /\ pc'[Queue] \in {"transmit", "look"}
          /\ call'[Queue] = call[Queue]
          /\ status' = status /\ news' = news /\ message' = message
          /\ disturbed' = disturbed /\ late' = late /\ (refused => refused')
      <4>1. CASE TransmitFails(Queue)
        BY <2>s, <4>1 DEF TransmitFails
      <4>2. CASE TimeOut(Queue)
        BY <2>s, <4>2 DEF TimeOut, history
      <4>3. QED
        BY <2>4, <4>1, <4>2
    <3>2. Untouched
      BY <3>1 DEF Untouched, InInfo
    <3>3. QED
      BY <1>t, <3>1, <3>2 DEF WordInv, Command
  <2>5. ASSUME NEW r \in air, NEW w \in FirmwareWords, Reply(Queue, r, w) PROVE Goal
    <3>1. /\ pc[Queue] = "exchange" /\ pc'[Queue] \in {"transmit", "look"}
          /\ call'[Queue] = call[Queue]
          /\ message' = message /\ refused' = refused
          /\ news' = r.told
          /\ late' = (late \/ (Sent /\ ~r.told))
          /\ (disturbed => disturbed')
      BY <2>s, <2>5 DEF Reply, WriteWord
    <3>2. Untouched
      BY <3>1, <1>t DEF Untouched, InInfo, TypeOK
    <3>3. message /\ Sent
      BY <1>t, <3>1, <3>2 DEF WordInv, Sent, Untouched
    <3>4. news'
      BY <3>1, <3>3, <1>t DEF Untouched, TypeOK
    <3>5. QED
      BY <3>1, <3>3, <3>4
  <2>6. ASSUME Look(Queue) PROVE Goal
    <3>1. /\ status' = status /\ news' = news /\ message' = message
          /\ refused' = refused /\ disturbed' = disturbed /\ late' = late
          /\ pc[Queue] = "look"
      BY <2>6 DEF Look, history
    <3>2. \/ pc'[Queue] = "transmit"
          \/ pc'[Queue] = "copy" /\ Result(status)
      <4>1. ~Leave(Queue)
        BY <1>q, <1>t DEF Leave, Goto, TypeOK, Untouched, InInfo
      <4>2. QED
        BY <1>q, <1>t, <2>6, <4>1 DEF Look, Ask, Goto, TypeOK
    <3>3. Untouched
      BY <1>q, <1>t, <2>6, <2>s, <3>1 DEF Look, Ask, Untouched, InInfo
    <3>4. Result(status) => ~Command(status)
      BY DEF Result, Command
    <3>5. QED
      BY <1>t, <3>1, <3>2, <3>3, <3>4 DEF WordInv, Command
  <2>7. ASSUME Copy(Queue) PROVE Goal
    BY <2>s, <2>7, <1>q, <1>t DEF Copy, Leave, Goto, TypeOK, Untouched, InInfo
  <2>8. QED
    BY <1>5, <2>1, <2>2, <2>3, <2>4, <2>5, <2>6, <2>7 DEF Step
<1>6. ASSUME UNCHANGED vars PROVE Goal
  BY <1>6, <1>t DEF vars, history, WordInv, Untouched, InInfo, Command
<1> QED
  BY <1>1, <1>2, <1>3, <1>4, <1>5, <1>6 DEF Next

(* Charger information is returned only as the answer to its command, with *)
(* the three exceptions of transport.c, for any firmware and any number of *)
(* work items.                                                             *)
THEOREM InfoIsAnsweredCorrect == Spec => []InfoIsAnswered
<1>1. Init => MailboxInv
  BY MailboxAssumption DEF Init, MailboxInv, TypeOK, Places, Calls, Stages, UnsentInv, Unsent,
                           InInfo, WordInv, Untouched, Threads
<1>2. MailboxInv /\ [Next]_vars => MailboxInv'
  BY MailboxTypeStep, UnsentStep, WordStep DEF MailboxInv
<1>3. MailboxInv => InfoIsAnswered
  BY DEF MailboxInv, InfoIsAnswered, UnsentInv, WordInv, Untouched, InInfo
<1>4. QED
  BY <1>1, <1>2, <1>3, PTL DEF Spec
---------------------------------------------------------------------------
(* USB-C: type correctness.                                                *)

LEMMA KindType == ASSUME NEW v PROVE Kind(v) \in Kinds
BY DEF Kind, Kinds

LEMMA UsbcTypeStep == UsbcTypeOK /\ [UsbcNext]_usbcVars => UsbcTypeOK'
<1> SUFFICES ASSUME UsbcTypeOK, [UsbcNext]_usbcVars PROVE UsbcTypeOK'
  OBVIOUS
<1> USE UsbcAssumption, KindType DEF UsbcTypeOK, Called
<1>v. /\ Ports \subseteq Values /\ Selections \cup States \subseteq Values
      /\ FirstSelect \in Values /\ None \notin Values
      /\ Acpi \in Callers /\ Register \in Callers /\ "request" \in Kinds
  BY DEF Values, Callers, Kinds
<1>w. ASSUME NEW c \in Callers, NEW v \in Values, Write(c, v)
      PROVE  /\ at' \in [Callers -> {"idle", "store", "create"}]
             /\ request' \in [Callers -> Values \cup {None}]
             /\ \A d \in Callers : at'[d] # "idle" => request'[d] # None
  BY <1>v, <1>w DEF Write
<1>1. ASSUME NEW w \in Pool, Evaluate(w) PROVE UsbcTypeOK'
  BY <1>1 DEF Evaluate
<1>2. ASSUME NEW w \in Pool, NEW p \in Ports \cup {None}, Announce(w, p) PROVE UsbcTypeOK'
  BY <1>2, <1>v DEF Announce
<1>3. ASSUME NEW p \in Ports \cup {None}, UnknownPacket(p) PROVE UsbcTypeOK'
  BY <1>3 DEF UnknownPacket
<1>4. ASSUME PanAck PROVE UsbcTypeOK'
  <2>1. CASE pendingPan = None
    BY <1>4, <2>1 DEF PanAck
  <2>2. CASE pendingPan # None
    BY <1>4, <2>2, <1>v, <1>w DEF PanAck
  <2>3. QED
    BY <2>1, <2>2
<1>5. ASSUME ForgetPort PROVE UsbcTypeOK'
  <2>1. CASE Write(Register, FirstSelect) /\ owed' = owed \cup {FirstSelect}
    BY <1>5, <2>1, <1>v, <1>w DEF ForgetPort
  <2>2. CASE UNCHANGED <<at, request, owed>>
    BY <1>5, <2>2, <1>v DEF ForgetPort
  <2>3. QED
    BY <1>5, <2>1, <2>2 DEF ForgetPort
<1>6. ASSUME NEW v \in Selections \cup States, Notification(v) PROVE UsbcTypeOK'
  BY <1>6, <1>v, <1>w DEF Notification
<1>7. ASSUME NEW c \in Callers, Store(c) PROVE UsbcTypeOK'
  BY <1>7 DEF Store
<1>8. ASSUME NEW c \in Callers, Create(c) PROVE UsbcTypeOK'
  BY <1>8 DEF Create
<1>9. ASSUME NEW k \in Kinds, ItemRuns(k) PROVE UsbcTypeOK'
  BY <1>9 DEF ItemRuns
<1>10. ASSUME NEW v \in messages, SendEnds(v) PROVE UsbcTypeOK'
  BY <1>10 DEF SendEnds
<1>11. ASSUME UNCHANGED usbcVars PROVE UsbcTypeOK'
  BY <1>11 DEF usbcVars
<1> QED
  BY <1>1, <1>2, <1>3, <1>4, <1>5, <1>6, <1>7, <1>8, <1>9, <1>10, <1>11 DEF UsbcNext

(* The globals hold requests of their kind, and a caller that stores or    *)
(* creates has a request (platform.c), for any numbers of ports and calls. *)
THEOREM UsbcTypeCorrect == UsbcSpec => []UsbcTypeOK
<1>1. UsbcInit => UsbcTypeOK
  BY UsbcAssumption DEF UsbcInit, UsbcTypeOK
<1>2. QED
  BY <1>1, UsbcTypeStep, PTL DEF UsbcSpec

---------------------------------------------------------------------------
(* USB-C: what is owed is covered.                                         *)

(* No step but one that overwrites or fails takes the last cover from what *)
(* the firmware is still owed.                                             *)
LEMMA CoverKept ==
  ASSUME UsbcTypeOK, [UsbcNext]_usbcVars, NEW v \in owed, v \in owed', Covered(v)
  PROVE  Covered(v)' \/ Overwrites(v) \/ Fails
<1> USE UsbcAssumption, KindType
    DEF UsbcTypeOK, Covered, Remembered, Waits, Overwrites, Fails, Called
<1>v. /\ Ports \subseteq Values /\ None \notin Values
      /\ Acpi \in Callers /\ Register \in Callers
  BY DEF Values, Callers
<1> DEFINE Goal == Covered(v)' \/ Overwrites(v) \/ Fails
<1>1. ASSUME NEW w \in Pool, Evaluate(w) PROVE Goal
  BY <1>1 DEF Evaluate
<1>2. ASSUME NEW w \in Pool, NEW p \in Ports \cup {None}, Announce(w, p) PROVE Goal
  BY <1>2, <1>v DEF Announce
<1>3. ASSUME NEW p \in Ports \cup {None}, UnknownPacket(p) PROVE Goal
  BY <1>3 DEF UnknownPacket
<1>4. ASSUME PanAck PROVE Goal
  BY <1>4, <1>v DEF PanAck, Write
<1>5. ASSUME ForgetPort PROVE Goal
  BY <1>5, <1>v DEF ForgetPort, Write
<1>6. ASSUME NEW u \in Selections \cup States, Notification(u) PROVE Goal
  BY <1>6, <1>v DEF Notification, Write
<1>7. ASSUME NEW c \in Callers, Store(c) PROVE Goal
  BY <1>7, <1>v DEF Store
<1>8. ASSUME NEW c \in Callers, Create(c) PROVE Goal
  BY <1>8 DEF Create
<1>9. ASSUME NEW k \in Kinds, ItemRuns(k) PROVE Goal
  BY <1>9 DEF ItemRuns
<1>10. ASSUME NEW u \in messages, SendEnds(u) PROVE Goal
  BY <1>10 DEF SendEnds
<1>11. ASSUME UNCHANGED usbcVars PROVE Goal
  BY <1>11 DEF usbcVars
<1> QED
  BY <1>1, <1>2, <1>3, <1>4, <1>5, <1>6, <1>7, <1>8, <1>9, <1>10, <1>11 DEF UsbcNext

(* What becomes owed is covered from the start.                            *)
LEMMA OwedBeginsCovered ==
  ASSUME UsbcTypeOK, [UsbcNext]_usbcVars, NEW v \in owed' \ owed
  PROVE  Covered(v)'
<1> USE UsbcAssumption DEF UsbcTypeOK, Covered, Remembered, Waits
<1>v. Ports \subseteq Values /\ Acpi \in Callers /\ Register \in Callers
  BY DEF Values, Callers
<1>1. ASSUME NEW w \in Pool, NEW p \in Ports \cup {None}, Announce(w, p) PROVE Covered(v)'
  BY <1>1, <1>v DEF Announce
<1>2. ASSUME NEW u \in Selections \cup States, Notification(u) PROVE Covered(v)'
  BY <1>2, <1>v DEF Notification, Write
<1>3. ASSUME ForgetPort PROVE Covered(v)'
  BY <1>3, <1>v DEF ForgetPort, Write
<1>4. QED
  BY <1>1, <1>2, <1>3
    DEF UsbcNext, usbcVars, Evaluate, UnknownPacket, PanAck, Store, Create, ItemRuns, SendEnds

(* A request for the firmware gets lost only by being overwritten or by a  *)
(* failure (platform.c), whatever the order of work items and callers.     *)
THEOREM OnlyOverwritingLosesCorrect == UsbcSpec => OnlyOverwritingLoses
<1>1. UsbcTypeOK /\ [UsbcNext]_usbcVars
        => [\A v \in owed \cap owed' :
              Covered(v) /\ ~Covered(v)' => Overwrites(v) \/ Fails]_usbcVars
  BY CoverKept
<1>2. QED
  BY <1>1, UsbcTypeCorrect, PTL DEF UsbcSpec, OnlyOverwritingLoses

(* As long as nothing is overwritten and nothing fails, everything the     *)
(* firmware is owed has its way to being sent at every moment.             *)
THEOREM UndisturbedIsCovered ==
  UsbcSpec /\ [][~Fails /\ \A v \in owed : ~Overwrites(v)]_usbcVars => []OwedIsCovered
<1>1. UsbcInit => OwedIsCovered
  BY DEF UsbcInit, OwedIsCovered
<1>2. /\ UsbcTypeOK /\ OwedIsCovered /\ [UsbcNext]_usbcVars
      /\ [~Fails /\ \A v \in owed : ~Overwrites(v)]_usbcVars
      => OwedIsCovered'
  <2> SUFFICES ASSUME UsbcTypeOK, OwedIsCovered, [UsbcNext]_usbcVars,
                      [~Fails /\ \A v \in owed : ~Overwrites(v)]_usbcVars,
                      NEW v \in owed'
               PROVE  Covered(v)'
    BY DEF OwedIsCovered
  <2>1. CASE v \notin owed
    BY <2>1, OwedBeginsCovered
  <2>2. CASE v \in owed /\ ~(UNCHANGED usbcVars)
    BY <2>2, CoverKept DEF OwedIsCovered
  <2>3. CASE v \in owed /\ UNCHANGED usbcVars
    BY <2>3 DEF OwedIsCovered, Covered, Remembered, Waits, usbcVars
  <2>4. QED
    BY <2>1, <2>2, <2>3
<1>3. QED
  BY <1>1, <1>2, UsbcTypeCorrect, PTL DEF UsbcSpec
=============================================================================
