------------------------ MODULE UlogTransport_proofs ------------------------
(***************************************************************************)
(* What UlogTransport checks for a timer and one work item, for any number *)
(* of work items and any bounds.                                           *)
(***************************************************************************)
EXTENDS UlogTransport, TLAPS

USE UlogAssumption

---------------------------------------------------------------------------
(* Type correctness.                                                       *)
(* The parts of TypeOK: functions on callers, contents of buffers, sets    *)
(* and numbers, and flags.                                                 *)
CallersOK ==
  /\ pc \in [Callers -> Places]
  /\ phase \in [Callers -> {1, 2}]
  /\ count \in [Callers -> Nat]
  /\ matched \in [Callers -> BOOLEAN]

BuffersOK ==
  /\ full \in [Ops -> BOOLEAN]
  /\ buffer \in [Ops -> Contents]
  /\ data \in [Logs -> Contents]

SetsOK ==
  /\ held \subseteq Callers /\ disturbed \subseteq Callers
  /\ signaled \subseteq {"Tx", "Rx"} /\ asked \subseteq Ops
  /\ rxCb \in Ops \cup {NoOp} /\ arrived \in Nat
  /\ items \in Nat /\ connects \in Nat
  /\ timer \in {"none", "armed", "fired", "idle"} /\ stage \in Logs /\ left \in Nat

FlagsOK ==
  /\ rxInProgress \in BOOLEAN /\ connected \in BOOLEAN /\ restart \in BOOLEAN
  /\ open \in BOOLEAN /\ periodic \in BOOLEAN /\ timedOut \in BOOLEAN
  /\ initPrinted \in BOOLEAN

LEMMA TypeParts == TypeOK <=> CallersOK /\ BuffersOK /\ SetsOK /\ FlagsOK
BY DEF TypeOK, CallersOK, BuffersOK, SetsOK, FlagsOK

(* The timer function has attempts left while it is inside its loop.       *)
LoopInv == pc[Timer] \notin {"idle", "next"} => left > 0

LEMMA CallersOKStep == TypeOK /\ LoopInv /\ [Next]_vars => CallersOK'
<1> SUFFICES ASSUME CallersOK, BuffersOK, SetsOK, FlagsOK, LoopInv, [Next]_vars PROVE CallersOK'
  BY TypeParts
<1> USE DEF CallersOK, BuffersOK, SetsOK, FlagsOK, LoopInv,
        Callers, Ops, Logs, Contents, Places, Exchange, WaitPlaces, Opcode,
        localVars, claimVars, slotVars, rxVars, chanVars, itemVars, timerVars,
        printVars, outerVars, vars, Goto, SetCount
<1>1. ASSUME NEW c \in Callers, PollBusy(c) PROVE CallersOK'
  BY <1>1 DEF PollBusy
<1>2. ASSUME NEW c \in Callers, PollGiveUp(c) PROVE CallersOK'
  BY <1>2 DEF PollGiveUp, Return
<1>3. ASSUME NEW c \in Callers, PollFree(c) PROVE CallersOK'
  BY <1>3 DEF PollFree
<1>4. ASSUME NEW c \in Callers, Claim(c) PROVE CallersOK'
  BY <1>4 DEF Claim
<1>5. ASSUME NEW c \in Callers, ClearEvents(c) PROVE CallersOK'
  BY <1>5 DEF ClearEvents
<1>6. ASSUME NEW c \in Callers, ClearSlot(c) PROVE CallersOK'
  BY <1>6 DEF ClearSlot
<1>7. ASSUME NEW c \in Callers, Transmit(c) PROVE CallersOK'
  BY <1>7 DEF Transmit
<1>8. ASSUME NEW c \in Callers, TransmitFails(c) PROVE CallersOK'
  BY <1>8 DEF TransmitFails, Return, Release
<1>9. ASSUME NEW c \in Callers, WakeUp(c) PROVE CallersOK'
  BY <1>9 DEF WakeUp
<1>10. ASSUME NEW c \in Callers, WaitTimesOut(c) PROVE CallersOK'
  BY <1>10 DEF WaitTimesOut
<1>11. ASSUME NEW c \in Callers, FirstLoopExhausted(c) PROVE CallersOK'
  BY <1>11 DEF FirstLoopExhausted, Release
<1>12. ASSUME NEW c \in Callers, SecondLoopExhausted(c) PROVE CallersOK'
  BY <1>12 DEF SecondLoopExhausted
<1>13. ASSUME NEW c \in Callers, ClearWoken(c) PROVE CallersOK'
  BY <1>13 DEF ClearWoken
<1>14. ASSUME NEW c \in Callers, Take(c) PROVE CallersOK'
  BY <1>14 DEF Take
<1>15. ASSUME NEW c \in Callers, Copy(c) PROVE CallersOK'
  BY <1>15 DEF Copy
<1>16. ASSUME NEW c \in Callers, Zero(c) PROVE CallersOK'
  BY <1>16 DEF Zero
<1>17. ASSUME NEW c \in Callers, Matched(c) PROVE CallersOK'
  BY <1>17 DEF Matched, Release
<1>18. ASSUME NEW c \in Callers, Finish(c) PROVE CallersOK'
  BY <1>18 DEF Finish, Return, Release
<1>19. ASSUME TimerFires PROVE CallersOK'
  BY <1>19 DEF TimerFires
<1>20. ASSUME TimerSends PROVE CallersOK'
  BY <1>20 DEF TimerSends, Enter
<1>21. ASSUME BootLogDone PROVE CallersOK'
  BY <1>21 DEF BootLogDone
<1>22. ASSUME TimerEnds PROVE CallersOK'
  BY <1>22 DEF TimerEnds
<1>23. ASSUME PrintBuffer PROVE CallersOK'
  BY <1>23 DEF PrintBuffer
<1>24. ASSUME NEW w \in Workers, WorkBegins(w) PROVE CallersOK'
  BY <1>24 DEF WorkBegins, Enter
<1>25. ASSUME NEW w \in Workers, EnsureTimer(w) PROVE CallersOK'
  BY <1>25 DEF EnsureTimer
<1>26. ASSUME NEW o \in Ops, RxStore(o) PROVE CallersOK'
  BY <1>26 DEF RxStore
<1>27. ASSUME RxSignal PROVE CallersOK'
  BY <1>27 DEF RxSignal
<1>28. ASSUME TxDone PROVE CallersOK'
  BY <1>28 DEF TxDone
<1>29. ASSUME ChannelConnected PROVE CallersOK'
  BY <1>29 DEF ChannelConnected
<1>30. ASSUME RemoteDisconnected PROVE CallersOK'
  BY <1>30 DEF RemoteDisconnected
<1>31. ASSUME LocalDisconnected PROVE CallersOK'
  BY <1>31 DEF LocalDisconnected, OpenChannel
<1>32. ASSUME LinkUp PROVE CallersOK'
  BY <1>32 DEF LinkUp, OpenChannel
<1>33. ASSUME LinkDown PROVE CallersOK'
  BY <1>33 DEF LinkDown
<1>34. ASSUME D0Exit PROVE CallersOK'
  BY <1>34 DEF D0Exit
<1>35. ASSUME UNCHANGED vars PROVE CallersOK'
  BY <1>35 DEF vars
<1> QED
  BY <1>1, <1>2, <1>3, <1>4, <1>5, <1>6, <1>7, <1>8, <1>9, <1>10, <1>11,
     <1>12, <1>13, <1>14, <1>15, <1>16, <1>17, <1>18, <1>19, <1>20, <1>21,
     <1>22, <1>23, <1>24, <1>25, <1>26, <1>27, <1>28, <1>29, <1>30, <1>31,
     <1>32, <1>33, <1>34, <1>35
    DEF Next, SendStep, TimerStep, WorkStep, GlinkStep

LEMMA BuffersOKStep == TypeOK /\ LoopInv /\ [Next]_vars => BuffersOK'
<1> SUFFICES ASSUME CallersOK, BuffersOK, SetsOK, FlagsOK, LoopInv, [Next]_vars PROVE BuffersOK'
  BY TypeParts
<1> USE DEF CallersOK, BuffersOK, SetsOK, FlagsOK, LoopInv,
        Callers, Ops, Logs, Contents, Places, Exchange, WaitPlaces, Opcode,
        localVars, claimVars, slotVars, rxVars, chanVars, itemVars, timerVars,
        printVars, outerVars, vars, Goto, SetCount
<1>1. ASSUME NEW c \in Callers, PollBusy(c) PROVE BuffersOK'
  BY <1>1 DEF PollBusy
<1>2. ASSUME NEW c \in Callers, PollGiveUp(c) PROVE BuffersOK'
  BY <1>2 DEF PollGiveUp, Return
<1>3. ASSUME NEW c \in Callers, PollFree(c) PROVE BuffersOK'
  BY <1>3 DEF PollFree
<1>4. ASSUME NEW c \in Callers, Claim(c) PROVE BuffersOK'
  BY <1>4 DEF Claim
<1>5. ASSUME NEW c \in Callers, ClearEvents(c) PROVE BuffersOK'
  BY <1>5 DEF ClearEvents
<1>6. ASSUME NEW c \in Callers, ClearSlot(c) PROVE BuffersOK'
  BY <1>6 DEF ClearSlot
<1>7. ASSUME NEW c \in Callers, Transmit(c) PROVE BuffersOK'
  BY <1>7 DEF Transmit
<1>8. ASSUME NEW c \in Callers, TransmitFails(c) PROVE BuffersOK'
  BY <1>8 DEF TransmitFails, Return, Release
<1>9. ASSUME NEW c \in Callers, WakeUp(c) PROVE BuffersOK'
  BY <1>9 DEF WakeUp
<1>10. ASSUME NEW c \in Callers, WaitTimesOut(c) PROVE BuffersOK'
  BY <1>10 DEF WaitTimesOut
<1>11. ASSUME NEW c \in Callers, FirstLoopExhausted(c) PROVE BuffersOK'
  BY <1>11 DEF FirstLoopExhausted, Release
<1>12. ASSUME NEW c \in Callers, SecondLoopExhausted(c) PROVE BuffersOK'
  BY <1>12 DEF SecondLoopExhausted
<1>13. ASSUME NEW c \in Callers, ClearWoken(c) PROVE BuffersOK'
  BY <1>13 DEF ClearWoken
<1>14. ASSUME NEW c \in Callers, Take(c) PROVE BuffersOK'
  <2>1. Opcode(c) \in Ops /\ UNCHANGED <<buffer, data>>
    BY <1>14 DEF Take
  <2>2. full' = full \/ full' = [full EXCEPT ![Opcode(c)] = FALSE]
    BY <1>14 DEF Take
  <2>3. full' \in [Ops -> BOOLEAN]
    <3>1. full \in [Ops -> BOOLEAN]
      BY DEF BuffersOK
    <3> HIDE DEF Ops, BuffersOK, SetsOK, CallersOK, FlagsOK, Opcode
    <3>2. QED
      BY <2>1, <2>2, <3>1
  <2>4. QED
    BY <2>1, <2>3
<1>15. ASSUME NEW c \in Callers, Copy(c) PROVE BuffersOK'
  BY <1>15 DEF Copy
<1>16. ASSUME NEW c \in Callers, Zero(c) PROVE BuffersOK'
  BY <1>16 DEF Zero
<1>17. ASSUME NEW c \in Callers, Matched(c) PROVE BuffersOK'
  BY <1>17 DEF Matched, Release
<1>18. ASSUME NEW c \in Callers, Finish(c) PROVE BuffersOK'
  BY <1>18 DEF Finish, Return, Release
<1>19. ASSUME TimerFires PROVE BuffersOK'
  BY <1>19 DEF TimerFires
<1>20. ASSUME TimerSends PROVE BuffersOK'
  BY <1>20 DEF TimerSends, Enter
<1>21. ASSUME BootLogDone PROVE BuffersOK'
  BY <1>21 DEF BootLogDone
<1>22. ASSUME TimerEnds PROVE BuffersOK'
  BY <1>22 DEF TimerEnds
<1>23. ASSUME PrintBuffer PROVE BuffersOK'
  BY <1>23 DEF PrintBuffer
<1>24. ASSUME NEW w \in Workers, WorkBegins(w) PROVE BuffersOK'
  BY <1>24 DEF WorkBegins, Enter
<1>25. ASSUME NEW w \in Workers, EnsureTimer(w) PROVE BuffersOK'
  BY <1>25 DEF EnsureTimer
<1>26. ASSUME NEW o \in Ops, RxStore(o) PROVE BuffersOK'
  BY <1>26 DEF RxStore
<1>27. ASSUME RxSignal PROVE BuffersOK'
  BY <1>27 DEF RxSignal
<1>28. ASSUME TxDone PROVE BuffersOK'
  BY <1>28 DEF TxDone
<1>29. ASSUME ChannelConnected PROVE BuffersOK'
  BY <1>29 DEF ChannelConnected
<1>30. ASSUME RemoteDisconnected PROVE BuffersOK'
  BY <1>30 DEF RemoteDisconnected
<1>31. ASSUME LocalDisconnected PROVE BuffersOK'
  BY <1>31 DEF LocalDisconnected, OpenChannel
<1>32. ASSUME LinkUp PROVE BuffersOK'
  BY <1>32 DEF LinkUp, OpenChannel
<1>33. ASSUME LinkDown PROVE BuffersOK'
  BY <1>33 DEF LinkDown
<1>34. ASSUME D0Exit PROVE BuffersOK'
  BY <1>34 DEF D0Exit
<1>35. ASSUME UNCHANGED vars PROVE BuffersOK'
  BY <1>35 DEF vars
<1> QED
  BY <1>1, <1>2, <1>3, <1>4, <1>5, <1>6, <1>7, <1>8, <1>9, <1>10, <1>11,
     <1>12, <1>13, <1>14, <1>15, <1>16, <1>17, <1>18, <1>19, <1>20, <1>21,
     <1>22, <1>23, <1>24, <1>25, <1>26, <1>27, <1>28, <1>29, <1>30, <1>31,
     <1>32, <1>33, <1>34, <1>35
    DEF Next, SendStep, TimerStep, WorkStep, GlinkStep

LEMMA SetsOKStep == TypeOK /\ LoopInv /\ [Next]_vars => SetsOK'
<1> SUFFICES ASSUME CallersOK, BuffersOK, SetsOK, FlagsOK, LoopInv, [Next]_vars PROVE SetsOK'
  BY TypeParts
<1> USE DEF CallersOK, BuffersOK, SetsOK, FlagsOK, LoopInv,
        Callers, Ops, Logs, Contents, Places, Exchange, WaitPlaces, Opcode,
        localVars, claimVars, slotVars, rxVars, chanVars, itemVars, timerVars,
        printVars, outerVars, vars, Goto, SetCount
<1>1. ASSUME NEW c \in Callers, PollBusy(c) PROVE SetsOK'
  BY <1>1 DEF PollBusy
<1>2. ASSUME NEW c \in Callers, PollGiveUp(c) PROVE SetsOK'
  BY <1>2 DEF PollGiveUp, Return
<1>3. ASSUME NEW c \in Callers, PollFree(c) PROVE SetsOK'
  BY <1>3 DEF PollFree
<1>4. ASSUME NEW c \in Callers, Claim(c) PROVE SetsOK'
  BY <1>4 DEF Claim
<1>5. ASSUME NEW c \in Callers, ClearEvents(c) PROVE SetsOK'
  BY <1>5 DEF ClearEvents
<1>6. ASSUME NEW c \in Callers, ClearSlot(c) PROVE SetsOK'
  BY <1>6 DEF ClearSlot
<1>7. ASSUME NEW c \in Callers, Transmit(c) PROVE SetsOK'
  BY <1>7 DEF Transmit
<1>8. ASSUME NEW c \in Callers, TransmitFails(c) PROVE SetsOK'
  BY <1>8 DEF TransmitFails, Return, Release
<1>9. ASSUME NEW c \in Callers, WakeUp(c) PROVE SetsOK'
  BY <1>9 DEF WakeUp
<1>10. ASSUME NEW c \in Callers, WaitTimesOut(c) PROVE SetsOK'
  BY <1>10 DEF WaitTimesOut
<1>11. ASSUME NEW c \in Callers, FirstLoopExhausted(c) PROVE SetsOK'
  BY <1>11 DEF FirstLoopExhausted, Release
<1>12. ASSUME NEW c \in Callers, SecondLoopExhausted(c) PROVE SetsOK'
  BY <1>12 DEF SecondLoopExhausted
<1>13. ASSUME NEW c \in Callers, ClearWoken(c) PROVE SetsOK'
  BY <1>13 DEF ClearWoken
<1>14. ASSUME NEW c \in Callers, Take(c) PROVE SetsOK'
  BY <1>14 DEF Take
<1>15. ASSUME NEW c \in Callers, Copy(c) PROVE SetsOK'
  BY <1>15 DEF Copy
<1>16. ASSUME NEW c \in Callers, Zero(c) PROVE SetsOK'
  BY <1>16 DEF Zero
<1>17. ASSUME NEW c \in Callers, Matched(c) PROVE SetsOK'
  BY <1>17 DEF Matched, Release
<1>18. ASSUME NEW c \in Callers, Finish(c) PROVE SetsOK'
  BY <1>18 DEF Finish, Return, Release
<1>19. ASSUME TimerFires PROVE SetsOK'
  BY <1>19 DEF TimerFires
<1>20. ASSUME TimerSends PROVE SetsOK'
  BY <1>20 DEF TimerSends, Enter
<1>21. ASSUME BootLogDone PROVE SetsOK'
  BY <1>21 DEF BootLogDone
<1>22. ASSUME TimerEnds PROVE SetsOK'
  BY <1>22 DEF TimerEnds
<1>23. ASSUME PrintBuffer PROVE SetsOK'
  BY <1>23 DEF PrintBuffer
<1>24. ASSUME NEW w \in Workers, WorkBegins(w) PROVE SetsOK'
  BY <1>24 DEF WorkBegins, Enter
<1>25. ASSUME NEW w \in Workers, EnsureTimer(w) PROVE SetsOK'
  BY <1>25 DEF EnsureTimer
<1>26. ASSUME NEW o \in Ops, RxStore(o) PROVE SetsOK'
  BY <1>26 DEF RxStore
<1>27. ASSUME RxSignal PROVE SetsOK'
  BY <1>27 DEF RxSignal
<1>28. ASSUME TxDone PROVE SetsOK'
  BY <1>28 DEF TxDone
<1>29. ASSUME ChannelConnected PROVE SetsOK'
  BY <1>29 DEF ChannelConnected
<1>30. ASSUME RemoteDisconnected PROVE SetsOK'
  BY <1>30 DEF RemoteDisconnected
<1>31. ASSUME LocalDisconnected PROVE SetsOK'
  BY <1>31 DEF LocalDisconnected, OpenChannel
<1>32. ASSUME LinkUp PROVE SetsOK'
  BY <1>32 DEF LinkUp, OpenChannel
<1>33. ASSUME LinkDown PROVE SetsOK'
  BY <1>33 DEF LinkDown
<1>34. ASSUME D0Exit PROVE SetsOK'
  BY <1>34 DEF D0Exit
<1>35. ASSUME UNCHANGED vars PROVE SetsOK'
  BY <1>35 DEF vars
<1> QED
  BY <1>1, <1>2, <1>3, <1>4, <1>5, <1>6, <1>7, <1>8, <1>9, <1>10, <1>11,
     <1>12, <1>13, <1>14, <1>15, <1>16, <1>17, <1>18, <1>19, <1>20, <1>21,
     <1>22, <1>23, <1>24, <1>25, <1>26, <1>27, <1>28, <1>29, <1>30, <1>31,
     <1>32, <1>33, <1>34, <1>35
    DEF Next, SendStep, TimerStep, WorkStep, GlinkStep

LEMMA FlagsOKStep == TypeOK /\ LoopInv /\ [Next]_vars => FlagsOK'
<1> SUFFICES ASSUME CallersOK, BuffersOK, SetsOK, FlagsOK, LoopInv, [Next]_vars PROVE FlagsOK'
  BY TypeParts
<1> USE DEF CallersOK, BuffersOK, SetsOK, FlagsOK, LoopInv,
        Callers, Ops, Logs, Contents, Places, Exchange, WaitPlaces, Opcode,
        localVars, claimVars, slotVars, rxVars, chanVars, itemVars, timerVars,
        printVars, outerVars, vars, Goto, SetCount
<1>1. ASSUME NEW c \in Callers, PollBusy(c) PROVE FlagsOK'
  BY <1>1 DEF PollBusy
<1>2. ASSUME NEW c \in Callers, PollGiveUp(c) PROVE FlagsOK'
  BY <1>2 DEF PollGiveUp, Return
<1>3. ASSUME NEW c \in Callers, PollFree(c) PROVE FlagsOK'
  BY <1>3 DEF PollFree
<1>4. ASSUME NEW c \in Callers, Claim(c) PROVE FlagsOK'
  BY <1>4 DEF Claim
<1>5. ASSUME NEW c \in Callers, ClearEvents(c) PROVE FlagsOK'
  BY <1>5 DEF ClearEvents
<1>6. ASSUME NEW c \in Callers, ClearSlot(c) PROVE FlagsOK'
  BY <1>6 DEF ClearSlot
<1>7. ASSUME NEW c \in Callers, Transmit(c) PROVE FlagsOK'
  BY <1>7 DEF Transmit
<1>8. ASSUME NEW c \in Callers, TransmitFails(c) PROVE FlagsOK'
  BY <1>8 DEF TransmitFails, Return, Release
<1>9. ASSUME NEW c \in Callers, WakeUp(c) PROVE FlagsOK'
  BY <1>9 DEF WakeUp
<1>10. ASSUME NEW c \in Callers, WaitTimesOut(c) PROVE FlagsOK'
  BY <1>10 DEF WaitTimesOut
<1>11. ASSUME NEW c \in Callers, FirstLoopExhausted(c) PROVE FlagsOK'
  BY <1>11 DEF FirstLoopExhausted, Release
<1>12. ASSUME NEW c \in Callers, SecondLoopExhausted(c) PROVE FlagsOK'
  BY <1>12 DEF SecondLoopExhausted
<1>13. ASSUME NEW c \in Callers, ClearWoken(c) PROVE FlagsOK'
  BY <1>13 DEF ClearWoken
<1>14. ASSUME NEW c \in Callers, Take(c) PROVE FlagsOK'
  BY <1>14 DEF Take
<1>15. ASSUME NEW c \in Callers, Copy(c) PROVE FlagsOK'
  BY <1>15 DEF Copy
<1>16. ASSUME NEW c \in Callers, Zero(c) PROVE FlagsOK'
  BY <1>16 DEF Zero
<1>17. ASSUME NEW c \in Callers, Matched(c) PROVE FlagsOK'
  BY <1>17 DEF Matched, Release
<1>18. ASSUME NEW c \in Callers, Finish(c) PROVE FlagsOK'
  BY <1>18 DEF Finish, Return, Release
<1>19. ASSUME TimerFires PROVE FlagsOK'
  BY <1>19 DEF TimerFires
<1>20. ASSUME TimerSends PROVE FlagsOK'
  BY <1>20 DEF TimerSends, Enter
<1>21. ASSUME BootLogDone PROVE FlagsOK'
  BY <1>21 DEF BootLogDone
<1>22. ASSUME TimerEnds PROVE FlagsOK'
  BY <1>22 DEF TimerEnds
<1>23. ASSUME PrintBuffer PROVE FlagsOK'
  BY <1>23 DEF PrintBuffer
<1>24. ASSUME NEW w \in Workers, WorkBegins(w) PROVE FlagsOK'
  BY <1>24 DEF WorkBegins, Enter
<1>25. ASSUME NEW w \in Workers, EnsureTimer(w) PROVE FlagsOK'
  BY <1>25 DEF EnsureTimer
<1>26. ASSUME NEW o \in Ops, RxStore(o) PROVE FlagsOK'
  BY <1>26 DEF RxStore
<1>27. ASSUME RxSignal PROVE FlagsOK'
  BY <1>27 DEF RxSignal
<1>28. ASSUME TxDone PROVE FlagsOK'
  BY <1>28 DEF TxDone
<1>29. ASSUME ChannelConnected PROVE FlagsOK'
  BY <1>29 DEF ChannelConnected
<1>30. ASSUME RemoteDisconnected PROVE FlagsOK'
  BY <1>30 DEF RemoteDisconnected
<1>31. ASSUME LocalDisconnected PROVE FlagsOK'
  BY <1>31 DEF LocalDisconnected, OpenChannel
<1>32. ASSUME LinkUp PROVE FlagsOK'
  BY <1>32 DEF LinkUp, OpenChannel
<1>33. ASSUME LinkDown PROVE FlagsOK'
  BY <1>33 DEF LinkDown
<1>34. ASSUME D0Exit PROVE FlagsOK'
  BY <1>34 DEF D0Exit
<1>35. ASSUME UNCHANGED vars PROVE FlagsOK'
  BY <1>35 DEF vars
<1> QED
  BY <1>1, <1>2, <1>3, <1>4, <1>5, <1>6, <1>7, <1>8, <1>9, <1>10, <1>11,
     <1>12, <1>13, <1>14, <1>15, <1>16, <1>17, <1>18, <1>19, <1>20, <1>21,
     <1>22, <1>23, <1>24, <1>25, <1>26, <1>27, <1>28, <1>29, <1>30, <1>31,
     <1>32, <1>33, <1>34, <1>35
    DEF Next, SendStep, TimerStep, WorkStep, GlinkStep

LEMMA LoopInvStep == TypeOK /\ LoopInv /\ [Next]_vars => LoopInv'
<1> SUFFICES ASSUME CallersOK, BuffersOK, SetsOK, FlagsOK, LoopInv, [Next]_vars PROVE LoopInv'
  BY TypeParts
<1> USE DEF CallersOK, BuffersOK, SetsOK, FlagsOK, LoopInv,
        Callers, Ops, Logs, Contents, Places, Exchange, WaitPlaces, Opcode,
        localVars, claimVars, slotVars, rxVars, chanVars, itemVars, timerVars,
        printVars, outerVars, vars, Goto, SetCount
<1>1. ASSUME NEW c \in Callers, PollBusy(c) PROVE LoopInv'
  BY <1>1 DEF PollBusy
<1>2. ASSUME NEW c \in Callers, PollGiveUp(c) PROVE LoopInv'
  BY <1>2 DEF PollGiveUp, Return
<1>3. ASSUME NEW c \in Callers, PollFree(c) PROVE LoopInv'
  BY <1>3 DEF PollFree
<1>4. ASSUME NEW c \in Callers, Claim(c) PROVE LoopInv'
  BY <1>4 DEF Claim
<1>5. ASSUME NEW c \in Callers, ClearEvents(c) PROVE LoopInv'
  BY <1>5 DEF ClearEvents
<1>6. ASSUME NEW c \in Callers, ClearSlot(c) PROVE LoopInv'
  BY <1>6 DEF ClearSlot
<1>7. ASSUME NEW c \in Callers, Transmit(c) PROVE LoopInv'
  BY <1>7 DEF Transmit
<1>8. ASSUME NEW c \in Callers, TransmitFails(c) PROVE LoopInv'
  BY <1>8 DEF TransmitFails, Return, Release
<1>9. ASSUME NEW c \in Callers, WakeUp(c) PROVE LoopInv'
  BY <1>9 DEF WakeUp
<1>10. ASSUME NEW c \in Callers, WaitTimesOut(c) PROVE LoopInv'
  BY <1>10 DEF WaitTimesOut
<1>11. ASSUME NEW c \in Callers, FirstLoopExhausted(c) PROVE LoopInv'
  BY <1>11 DEF FirstLoopExhausted, Release
<1>12. ASSUME NEW c \in Callers, SecondLoopExhausted(c) PROVE LoopInv'
  BY <1>12 DEF SecondLoopExhausted
<1>13. ASSUME NEW c \in Callers, ClearWoken(c) PROVE LoopInv'
  BY <1>13 DEF ClearWoken
<1>14. ASSUME NEW c \in Callers, Take(c) PROVE LoopInv'
  BY <1>14 DEF Take
<1>15. ASSUME NEW c \in Callers, Copy(c) PROVE LoopInv'
  BY <1>15 DEF Copy
<1>16. ASSUME NEW c \in Callers, Zero(c) PROVE LoopInv'
  BY <1>16 DEF Zero
<1>17. ASSUME NEW c \in Callers, Matched(c) PROVE LoopInv'
  BY <1>17 DEF Matched, Release
<1>18. ASSUME NEW c \in Callers, Finish(c) PROVE LoopInv'
  BY <1>18 DEF Finish, Return, Release
<1>19. ASSUME TimerFires PROVE LoopInv'
  BY <1>19 DEF TimerFires
<1>20. ASSUME TimerSends PROVE LoopInv'
  BY <1>20 DEF TimerSends, Enter
<1>21. ASSUME BootLogDone PROVE LoopInv'
  BY <1>21 DEF BootLogDone
<1>22. ASSUME TimerEnds PROVE LoopInv'
  BY <1>22 DEF TimerEnds
<1>23. ASSUME PrintBuffer PROVE LoopInv'
  BY <1>23 DEF PrintBuffer
<1>24. ASSUME NEW w \in Workers, WorkBegins(w) PROVE LoopInv'
  BY <1>24 DEF WorkBegins, Enter
<1>25. ASSUME NEW w \in Workers, EnsureTimer(w) PROVE LoopInv'
  BY <1>25 DEF EnsureTimer
<1>26. ASSUME NEW o \in Ops, RxStore(o) PROVE LoopInv'
  BY <1>26 DEF RxStore
<1>27. ASSUME RxSignal PROVE LoopInv'
  BY <1>27 DEF RxSignal
<1>28. ASSUME TxDone PROVE LoopInv'
  BY <1>28 DEF TxDone
<1>29. ASSUME ChannelConnected PROVE LoopInv'
  BY <1>29 DEF ChannelConnected
<1>30. ASSUME RemoteDisconnected PROVE LoopInv'
  BY <1>30 DEF RemoteDisconnected
<1>31. ASSUME LocalDisconnected PROVE LoopInv'
  BY <1>31 DEF LocalDisconnected, OpenChannel
<1>32. ASSUME LinkUp PROVE LoopInv'
  BY <1>32 DEF LinkUp, OpenChannel
<1>33. ASSUME LinkDown PROVE LoopInv'
  BY <1>33 DEF LinkDown
<1>34. ASSUME D0Exit PROVE LoopInv'
  BY <1>34 DEF D0Exit
<1>35. ASSUME UNCHANGED vars PROVE LoopInv'
  BY <1>35 DEF vars
<1> QED
  BY <1>1, <1>2, <1>3, <1>4, <1>5, <1>6, <1>7, <1>8, <1>9, <1>10, <1>11,
     <1>12, <1>13, <1>14, <1>15, <1>16, <1>17, <1>18, <1>19, <1>20, <1>21,
     <1>22, <1>23, <1>24, <1>25, <1>26, <1>27, <1>28, <1>29, <1>30, <1>31,
     <1>32, <1>33, <1>34, <1>35
    DEF Next, SendStep, TimerStep, WorkStep, GlinkStep

THEOREM TypeCorrect == Spec => []TypeOK
<1>1. Init => TypeOK /\ LoopInv
  <2> SUFFICES ASSUME Init PROVE TypeOK /\ LoopInv
    OBVIOUS
  <2>1. CallersOK
    BY DEF Init, CallersOK, Places
  <2>2. BuffersOK
    BY DEF Init, BuffersOK, Contents
  <2>3. SetsOK
    BY DEF Init, SetsOK, Logs
  <2>4. FlagsOK
    BY DEF Init, FlagsOK
  <2>5. LoopInv
    BY DEF Init, LoopInv, Callers
  <2>6. QED
    BY <2>1, <2>2, <2>3, <2>4, <2>5, TypeParts
<1>2. TypeOK /\ LoopInv /\ [Next]_vars => TypeOK' /\ LoopInv'
  BY CallersOKStep, BuffersOKStep, SetsOKStep, FlagsOKStep, LoopInvStep
     DEF TypeOK, CallersOK, BuffersOK, SetsOK, FlagsOK
<1>3. QED
  BY <1>1, <1>2, PTL DEF Spec

---------------------------------------------------------------------------
(* The busy flag.                                                          *)

(* A holder is inside its exchange; the flag means that somebody holds it, *)
(* and a holder without the flag has been disturbed.                       *)
ClaimInv ==
  /\ \A c \in held : pc[c] \in Exchange
  /\ rxInProgress => held # {}
  /\ ~rxInProgress => held \subseteq disturbed

LEMMA ClaimStep == TypeOK /\ ClaimInv /\ [Next]_vars => ClaimInv'
<1> SUFFICES ASSUME TypeOK, ClaimInv, [Next]_vars PROVE ClaimInv'
  OBVIOUS
<1> USE DEF TypeOK, ClaimInv, Callers, Exchange, WaitPlaces,
        localVars, claimVars, slotVars, rxVars, chanVars, itemVars, timerVars,
        printVars, outerVars, vars, Goto, SetCount
<1>1. ASSUME NEW c \in Callers, PollBusy(c) PROVE ClaimInv'
  BY <1>1 DEF PollBusy
<1>2. ASSUME NEW c \in Callers, PollGiveUp(c) PROVE ClaimInv'
  BY <1>2 DEF PollGiveUp, Return
<1>3. ASSUME NEW c \in Callers, PollFree(c) PROVE ClaimInv'
  BY <1>3 DEF PollFree
<1>4. ASSUME NEW c \in Callers, Claim(c) PROVE ClaimInv'
  BY <1>4 DEF Claim
<1>5. ASSUME NEW c \in Callers, ClearEvents(c) PROVE ClaimInv'
  BY <1>5 DEF ClearEvents
<1>6. ASSUME NEW c \in Callers, ClearSlot(c) PROVE ClaimInv'
  BY <1>6 DEF ClearSlot
<1>7. ASSUME NEW c \in Callers, Transmit(c) PROVE ClaimInv'
  BY <1>7 DEF Transmit
<1>8. ASSUME NEW c \in Callers, TransmitFails(c) PROVE ClaimInv'
  BY <1>8 DEF TransmitFails, Return, Release
<1>9. ASSUME NEW c \in Callers, WakeUp(c) PROVE ClaimInv'
  BY <1>9 DEF WakeUp
<1>10. ASSUME NEW c \in Callers, WaitTimesOut(c) PROVE ClaimInv'
  BY <1>10 DEF WaitTimesOut
<1>11. ASSUME NEW c \in Callers, FirstLoopExhausted(c) PROVE ClaimInv'
  BY <1>11 DEF FirstLoopExhausted, Release
<1>12. ASSUME NEW c \in Callers, SecondLoopExhausted(c) PROVE ClaimInv'
  BY <1>12 DEF SecondLoopExhausted
<1>13. ASSUME NEW c \in Callers, ClearWoken(c) PROVE ClaimInv'
  BY <1>13 DEF ClearWoken
<1>14. ASSUME NEW c \in Callers, Take(c) PROVE ClaimInv'
  BY <1>14 DEF Take
<1>15. ASSUME NEW c \in Callers, Copy(c) PROVE ClaimInv'
  BY <1>15 DEF Copy
<1>16. ASSUME NEW c \in Callers, Zero(c) PROVE ClaimInv'
  BY <1>16 DEF Zero
<1>17. ASSUME NEW c \in Callers, Matched(c) PROVE ClaimInv'
  BY <1>17 DEF Matched, Release
<1>18. ASSUME NEW c \in Callers, Finish(c) PROVE ClaimInv'
  BY <1>18 DEF Finish, Return, Release
<1>19. ASSUME TimerFires PROVE ClaimInv'
  BY <1>19 DEF TimerFires
<1>20. ASSUME TimerSends PROVE ClaimInv'
  BY <1>20 DEF TimerSends, Enter
<1>21. ASSUME BootLogDone PROVE ClaimInv'
  BY <1>21 DEF BootLogDone
<1>22. ASSUME TimerEnds PROVE ClaimInv'
  BY <1>22 DEF TimerEnds
<1>23. ASSUME PrintBuffer PROVE ClaimInv'
  BY <1>23 DEF PrintBuffer
<1>24. ASSUME NEW w \in Workers, WorkBegins(w) PROVE ClaimInv'
  BY <1>24 DEF WorkBegins, Enter
<1>25. ASSUME NEW w \in Workers, EnsureTimer(w) PROVE ClaimInv'
  BY <1>25 DEF EnsureTimer
<1>26. ASSUME NEW o \in Ops, RxStore(o) PROVE ClaimInv'
  BY <1>26 DEF RxStore
<1>27. ASSUME RxSignal PROVE ClaimInv'
  BY <1>27 DEF RxSignal
<1>28. ASSUME TxDone PROVE ClaimInv'
  BY <1>28 DEF TxDone
<1>29. ASSUME ChannelConnected PROVE ClaimInv'
  BY <1>29 DEF ChannelConnected
<1>30. ASSUME RemoteDisconnected PROVE ClaimInv'
  BY <1>30 DEF RemoteDisconnected
<1>31. ASSUME LocalDisconnected PROVE ClaimInv'
  BY <1>31 DEF LocalDisconnected, OpenChannel
<1>32. ASSUME LinkUp PROVE ClaimInv'
  BY <1>32 DEF LinkUp, OpenChannel
<1>33. ASSUME LinkDown PROVE ClaimInv'
  BY <1>33 DEF LinkDown
<1>34. ASSUME D0Exit PROVE ClaimInv'
  BY <1>34 DEF D0Exit
<1>35. ASSUME UNCHANGED vars PROVE ClaimInv'
  BY <1>35 DEF vars
<1> QED
  BY <1>1, <1>2, <1>3, <1>4, <1>5, <1>6, <1>7, <1>8, <1>9, <1>10, <1>11,
     <1>12, <1>13, <1>14, <1>15, <1>16, <1>17, <1>18, <1>19, <1>20, <1>21,
     <1>22, <1>23, <1>24, <1>25, <1>26, <1>27, <1>28, <1>29, <1>30, <1>31,
     <1>32, <1>33, <1>34, <1>35
    DEF Next, SendStep, TimerStep, WorkStep, GlinkStep

THEOREM ClaimCorrect == Spec => []ClaimInv
<1>1. Init => ClaimInv
  BY DEF Init, ClaimInv
<1>2. QED
  BY <1>1, TypeCorrect, ClaimStep, PTL DEF Spec

(* The flag is never left set behind an exchange that has ended.           *)
THEOREM NoLeakedClaimCorrect == Spec => []NoLeakedClaim
<1>1. ClaimInv => NoLeakedClaim
  BY DEF ClaimInv, NoLeakedClaim
<1>2. QED
  BY <1>1, ClaimCorrect, PTL

(* Only PollFree gets past the flag, and finds it released.                *)
LEMMA PollStep ==
  TypeOK /\ ClaimInv /\ [Next]_vars =>
    \A d \in Callers : pc[d] = "poll" /\ pc'[d] = "claim" => held \subseteq disturbed
<1> SUFFICES ASSUME TypeOK, ClaimInv, [Next]_vars,
                    NEW d \in Callers, pc[d] = "poll", pc'[d] = "claim"
             PROVE  held \subseteq disturbed
  OBVIOUS
<1> USE DEF TypeOK, ClaimInv, Callers,
        localVars, claimVars, slotVars, rxVars, chanVars, itemVars, timerVars,
        printVars, outerVars, vars, Goto, SetCount
<1>1. ASSUME NEW c \in Callers, PollBusy(c) PROVE held \subseteq disturbed
  BY <1>1 DEF PollBusy
<1>2. ASSUME NEW c \in Callers, PollGiveUp(c) PROVE held \subseteq disturbed
  BY <1>2 DEF PollGiveUp, Return
<1>3. ASSUME NEW c \in Callers, PollFree(c) PROVE held \subseteq disturbed
  BY <1>3 DEF PollFree
<1>4. ASSUME NEW c \in Callers, Claim(c) PROVE held \subseteq disturbed
  BY <1>4 DEF Claim
<1>5. ASSUME NEW c \in Callers, ClearEvents(c) PROVE held \subseteq disturbed
  BY <1>5 DEF ClearEvents
<1>6. ASSUME NEW c \in Callers, ClearSlot(c) PROVE held \subseteq disturbed
  BY <1>6 DEF ClearSlot
<1>7. ASSUME NEW c \in Callers, Transmit(c) PROVE held \subseteq disturbed
  BY <1>7 DEF Transmit
<1>8. ASSUME NEW c \in Callers, TransmitFails(c) PROVE held \subseteq disturbed
  BY <1>8 DEF TransmitFails, Return, Release
<1>9. ASSUME NEW c \in Callers, WakeUp(c) PROVE held \subseteq disturbed
  BY <1>9 DEF WakeUp
<1>10. ASSUME NEW c \in Callers, WaitTimesOut(c) PROVE held \subseteq disturbed
  BY <1>10 DEF WaitTimesOut
<1>11. ASSUME NEW c \in Callers, FirstLoopExhausted(c) PROVE held \subseteq disturbed
  BY <1>11 DEF FirstLoopExhausted, Release
<1>12. ASSUME NEW c \in Callers, SecondLoopExhausted(c) PROVE held \subseteq disturbed
  BY <1>12 DEF SecondLoopExhausted
<1>13. ASSUME NEW c \in Callers, ClearWoken(c) PROVE held \subseteq disturbed
  BY <1>13 DEF ClearWoken
<1>14. ASSUME NEW c \in Callers, Take(c) PROVE held \subseteq disturbed
  BY <1>14 DEF Take
<1>15. ASSUME NEW c \in Callers, Copy(c) PROVE held \subseteq disturbed
  BY <1>15 DEF Copy
<1>16. ASSUME NEW c \in Callers, Zero(c) PROVE held \subseteq disturbed
  BY <1>16 DEF Zero
<1>17. ASSUME NEW c \in Callers, Matched(c) PROVE held \subseteq disturbed
  BY <1>17 DEF Matched, Release
<1>18. ASSUME NEW c \in Callers, Finish(c) PROVE held \subseteq disturbed
  BY <1>18 DEF Finish, Return, Release
<1>19. ASSUME TimerFires PROVE held \subseteq disturbed
  BY <1>19 DEF TimerFires
<1>20. ASSUME TimerSends PROVE held \subseteq disturbed
  BY <1>20 DEF TimerSends, Enter
<1>21. ASSUME BootLogDone PROVE held \subseteq disturbed
  BY <1>21 DEF BootLogDone
<1>22. ASSUME TimerEnds PROVE held \subseteq disturbed
  BY <1>22 DEF TimerEnds
<1>23. ASSUME PrintBuffer PROVE held \subseteq disturbed
  BY <1>23 DEF PrintBuffer
<1>24. ASSUME NEW w \in Workers, WorkBegins(w) PROVE held \subseteq disturbed
  BY <1>24 DEF WorkBegins, Enter
<1>25. ASSUME NEW w \in Workers, EnsureTimer(w) PROVE held \subseteq disturbed
  BY <1>25 DEF EnsureTimer
<1>26. ASSUME NEW o \in Ops, RxStore(o) PROVE held \subseteq disturbed
  BY <1>26 DEF RxStore
<1>27. ASSUME RxSignal PROVE held \subseteq disturbed
  BY <1>27 DEF RxSignal
<1>28. ASSUME TxDone PROVE held \subseteq disturbed
  BY <1>28 DEF TxDone
<1>29. ASSUME ChannelConnected PROVE held \subseteq disturbed
  BY <1>29 DEF ChannelConnected
<1>30. ASSUME RemoteDisconnected PROVE held \subseteq disturbed
  BY <1>30 DEF RemoteDisconnected
<1>31. ASSUME LocalDisconnected PROVE held \subseteq disturbed
  BY <1>31 DEF LocalDisconnected, OpenChannel
<1>32. ASSUME LinkUp PROVE held \subseteq disturbed
  BY <1>32 DEF LinkUp, OpenChannel
<1>33. ASSUME LinkDown PROVE held \subseteq disturbed
  BY <1>33 DEF LinkDown
<1>34. ASSUME D0Exit PROVE held \subseteq disturbed
  BY <1>34 DEF D0Exit
<1>35. ASSUME UNCHANGED vars PROVE held \subseteq disturbed
  BY <1>35 DEF vars
<1> QED
  BY <1>1, <1>2, <1>3, <1>4, <1>5, <1>6, <1>7, <1>8, <1>9, <1>10, <1>11,
     <1>12, <1>13, <1>14, <1>15, <1>16, <1>17, <1>18, <1>19, <1>20, <1>21,
     <1>22, <1>23, <1>24, <1>25, <1>26, <1>27, <1>28, <1>29, <1>30, <1>31,
     <1>32, <1>33, <1>34, <1>35
    DEF Next, SendStep, TimerStep, WorkStep, GlinkStep

THEOREM FlagExcludesCorrect == Spec => FlagExcludes
<1>1. TypeOK /\ ClaimInv /\ [Next]_vars =>
        [\A c \in Callers : pc[c] = "poll" /\ pc'[c] = "claim" => held \subseteq disturbed]_vars
  BY PollStep
<1>2. QED
  BY <1>1, TypeCorrect, ClaimCorrect, PTL DEF Spec, FlagExcludes

(* While no two callers are between the test of the flag and its setting,  *)
(* and nobody releases it beside a holder, a holder keeps the flag set and *)
(* nobody is past the test: there is one holder at most.                   *)
Raced   == \E c, d \in Callers : c # d /\ pc[c] = "claim" /\ pc[d] = "claim"
OwnOnly == \A c \in Callers : Release(c) => held \subseteq {c}
CalmInv ==
  /\ \A c, d \in held : c = d
  /\ held # {} => rxInProgress
  /\ rxInProgress => \A c \in Callers : pc[c] # "claim"

LEMMA CalmStep ==
  ASSUME TypeOK, CalmInv, ~Raced, [Next]_vars, [OwnOnly]_vars
  PROVE  CalmInv'
<1>u. ASSUME UNCHANGED vars PROVE CalmInv'
  BY <1>u DEF vars, CalmInv, claimVars
<1> SUFFICES ASSUME Next, OwnOnly PROVE CalmInv'
  BY <1>u
<1> USE DEF TypeOK, CalmInv, Raced, OwnOnly, Callers,
        localVars, claimVars, slotVars, rxVars, chanVars, itemVars, timerVars,
        printVars, outerVars, Goto, SetCount
<1>1. ASSUME NEW c \in Callers, PollBusy(c) PROVE CalmInv'
  BY <1>1 DEF PollBusy
<1>2. ASSUME NEW c \in Callers, PollGiveUp(c) PROVE CalmInv'
  BY <1>2 DEF PollGiveUp, Return
<1>3. ASSUME NEW c \in Callers, PollFree(c) PROVE CalmInv'
  BY <1>3 DEF PollFree
<1>4. ASSUME NEW c \in Callers, Claim(c) PROVE CalmInv'
  BY <1>4 DEF Claim
<1>5. ASSUME NEW c \in Callers, ClearEvents(c) PROVE CalmInv'
  BY <1>5 DEF ClearEvents
<1>6. ASSUME NEW c \in Callers, ClearSlot(c) PROVE CalmInv'
  BY <1>6 DEF ClearSlot
<1>7. ASSUME NEW c \in Callers, Transmit(c) PROVE CalmInv'
  BY <1>7 DEF Transmit
<1>8. ASSUME NEW c \in Callers, TransmitFails(c) PROVE CalmInv'
  BY <1>8 DEF TransmitFails, Return, Release
<1>9. ASSUME NEW c \in Callers, WakeUp(c) PROVE CalmInv'
  BY <1>9 DEF WakeUp
<1>10. ASSUME NEW c \in Callers, WaitTimesOut(c) PROVE CalmInv'
  BY <1>10 DEF WaitTimesOut
<1>11. ASSUME NEW c \in Callers, FirstLoopExhausted(c) PROVE CalmInv'
  BY <1>11 DEF FirstLoopExhausted, Release
<1>12. ASSUME NEW c \in Callers, SecondLoopExhausted(c) PROVE CalmInv'
  BY <1>12 DEF SecondLoopExhausted
<1>13. ASSUME NEW c \in Callers, ClearWoken(c) PROVE CalmInv'
  BY <1>13 DEF ClearWoken
<1>14. ASSUME NEW c \in Callers, Take(c) PROVE CalmInv'
  BY <1>14 DEF Take
<1>15. ASSUME NEW c \in Callers, Copy(c) PROVE CalmInv'
  BY <1>15 DEF Copy
<1>16. ASSUME NEW c \in Callers, Zero(c) PROVE CalmInv'
  BY <1>16 DEF Zero
<1>17. ASSUME NEW c \in Callers, Matched(c) PROVE CalmInv'
  BY <1>17 DEF Matched, Release
<1>18. ASSUME NEW c \in Callers, Finish(c) PROVE CalmInv'
  BY <1>18 DEF Finish, Return, Release
<1>19. ASSUME TimerFires PROVE CalmInv'
  BY <1>19 DEF TimerFires
<1>20. ASSUME TimerSends PROVE CalmInv'
  BY <1>20 DEF TimerSends, Enter
<1>21. ASSUME BootLogDone PROVE CalmInv'
  BY <1>21 DEF BootLogDone
<1>22. ASSUME TimerEnds PROVE CalmInv'
  BY <1>22 DEF TimerEnds
<1>23. ASSUME PrintBuffer PROVE CalmInv'
  BY <1>23 DEF PrintBuffer
<1>24. ASSUME NEW w \in Workers, WorkBegins(w) PROVE CalmInv'
  BY <1>24 DEF WorkBegins, Enter
<1>25. ASSUME NEW w \in Workers, EnsureTimer(w) PROVE CalmInv'
  BY <1>25 DEF EnsureTimer
<1>26. ASSUME NEW o \in Ops, RxStore(o) PROVE CalmInv'
  BY <1>26 DEF RxStore
<1>27. ASSUME RxSignal PROVE CalmInv'
  BY <1>27 DEF RxSignal
<1>28. ASSUME TxDone PROVE CalmInv'
  BY <1>28 DEF TxDone
<1>29. ASSUME ChannelConnected PROVE CalmInv'
  BY <1>29 DEF ChannelConnected
<1>30. ASSUME RemoteDisconnected PROVE CalmInv'
  BY <1>30 DEF RemoteDisconnected
<1>31. ASSUME LocalDisconnected PROVE CalmInv'
  BY <1>31 DEF LocalDisconnected, OpenChannel
<1>32. ASSUME LinkUp PROVE CalmInv'
  BY <1>32 DEF LinkUp, OpenChannel
<1>33. ASSUME LinkDown PROVE CalmInv'
  BY <1>33 DEF LinkDown
<1>34. ASSUME D0Exit PROVE CalmInv'
  BY <1>34 DEF D0Exit
<1> QED
  BY <1>1, <1>2, <1>3, <1>4, <1>5, <1>6, <1>7, <1>8, <1>9, <1>10, <1>11,
     <1>12, <1>13, <1>14, <1>15, <1>16, <1>17, <1>18, <1>19, <1>20, <1>21,
     <1>22, <1>23, <1>24, <1>25, <1>26, <1>27, <1>28, <1>29, <1>30, <1>31,
     <1>32, <1>33, <1>34
    DEF Next, SendStep, TimerStep, WorkStep, GlinkStep

(* What keeps exchanges apart: where the unlocked test and set do not race *)
(* and no caller's second release falls into another's exchange (ulog.c),  *)
(* one caller holds the flag at a time, reopened channels or not.          *)
THEOREM OneHolderUnlessRaced ==
  Spec /\ []~Raced /\ [][OwnOnly]_vars => [](\A c, d \in held : c = d)
<1> DEFINE OneHolder == \A c, d \in held : c = d
<1>1. Init => CalmInv
  BY DEF Init, CalmInv
<1>2. TypeOK /\ CalmInv /\ ~Raced /\ [Next]_vars /\ [OwnOnly]_vars => CalmInv'
  BY CalmStep
<1>3. CalmInv => OneHolder
  BY DEF CalmInv
<1> HIDE DEF OneHolder
<1>4. Spec /\ []~Raced /\ [][OwnOnly]_vars => []OneHolder
  BY <1>1, <1>2, <1>3, TypeCorrect, PTL DEF Spec
<1>5. QED
  BY <1>4 DEF OneHolder

---------------------------------------------------------------------------
(* Replies.                                                                *)

(* NoLostReply, from the moment the slot has been emptied.                 *)
ReplyInv ==
  \A c \in held \ disturbed :
    /\ pc[c] \in WaitPlaces \cup {"transmit"}
    /\ full[Opcode(c)]
    /\ \A d \in Callers \ {c} : pc[d] \notin Exchange
    => \/ rxCb = Opcode(c) \/ "Rx" \in signaled
       \/ pc[c] \in {"clearRx", "take"}

LEMMA OpcodeType == TypeOK => \A c \in Callers : Opcode(c) \in Ops
BY DEF TypeOK, Opcode, Ops, Logs

LEMMA ReplyStep == TypeOK /\ ClaimInv /\ ReplyInv /\ [Next]_vars => ReplyInv'
<1> SUFFICES ASSUME TypeOK, ClaimInv, ReplyInv, [Next]_vars PROVE ReplyInv'
  OBVIOUS
<1> USE OpcodeType DEF TypeOK, ClaimInv, ReplyInv, Callers, Exchange, WaitPlaces, Opcode,
        localVars, claimVars, slotVars, rxVars, chanVars, itemVars, timerVars,
        printVars, outerVars, vars, Goto, SetCount
<1>1. ASSUME NEW c \in Callers, PollBusy(c) PROVE ReplyInv'
  BY <1>1 DEF PollBusy
<1>2. ASSUME NEW c \in Callers, PollGiveUp(c) PROVE ReplyInv'
  BY <1>2 DEF PollGiveUp, Return
<1>3. ASSUME NEW c \in Callers, PollFree(c) PROVE ReplyInv'
  BY <1>3 DEF PollFree
<1>4. ASSUME NEW c \in Callers, Claim(c) PROVE ReplyInv'
  BY <1>4 DEF Claim
<1>5. ASSUME NEW c \in Callers, ClearEvents(c) PROVE ReplyInv'
  BY <1>5 DEF ClearEvents
<1>6. ASSUME NEW c \in Callers, ClearSlot(c) PROVE ReplyInv'
  BY <1>6 DEF ClearSlot
<1>7. ASSUME NEW c \in Callers, Transmit(c) PROVE ReplyInv'
  BY <1>7 DEF Transmit
<1>8. ASSUME NEW c \in Callers, TransmitFails(c) PROVE ReplyInv'
  BY <1>8 DEF TransmitFails, Return, Release
<1>9. ASSUME NEW c \in Callers, WakeUp(c) PROVE ReplyInv'
  BY <1>9 DEF WakeUp
<1>10. ASSUME NEW c \in Callers, WaitTimesOut(c) PROVE ReplyInv'
  BY <1>10 DEF WaitTimesOut
<1>11. ASSUME NEW c \in Callers, FirstLoopExhausted(c) PROVE ReplyInv'
  BY <1>11 DEF FirstLoopExhausted, Release
<1>12. ASSUME NEW c \in Callers, SecondLoopExhausted(c) PROVE ReplyInv'
  BY <1>12 DEF SecondLoopExhausted
<1>13. ASSUME NEW c \in Callers, ClearWoken(c) PROVE ReplyInv'
  BY <1>13 DEF ClearWoken
<1>14. ASSUME NEW c \in Callers, Take(c) PROVE ReplyInv'
  BY <1>14 DEF Take
<1>15. ASSUME NEW c \in Callers, Copy(c) PROVE ReplyInv'
  BY <1>15 DEF Copy
<1>16. ASSUME NEW c \in Callers, Zero(c) PROVE ReplyInv'
  BY <1>16 DEF Zero
<1>17. ASSUME NEW c \in Callers, Matched(c) PROVE ReplyInv'
  BY <1>17 DEF Matched, Release
<1>18. ASSUME NEW c \in Callers, Finish(c) PROVE ReplyInv'
  BY <1>18 DEF Finish, Return, Release
<1>19. ASSUME TimerFires PROVE ReplyInv'
  BY <1>19 DEF TimerFires
<1>20. ASSUME TimerSends PROVE ReplyInv'
  BY <1>20 DEF TimerSends, Enter
<1>21. ASSUME BootLogDone PROVE ReplyInv'
  BY <1>21 DEF BootLogDone
<1>22. ASSUME TimerEnds PROVE ReplyInv'
  BY <1>22 DEF TimerEnds
<1>23. ASSUME PrintBuffer PROVE ReplyInv'
  BY <1>23 DEF PrintBuffer
<1>24. ASSUME NEW w \in Workers, WorkBegins(w) PROVE ReplyInv'
  BY <1>24 DEF WorkBegins, Enter
<1>25. ASSUME NEW w \in Workers, EnsureTimer(w) PROVE ReplyInv'
  BY <1>25 DEF EnsureTimer
<1>26. ASSUME NEW o \in Ops, RxStore(o) PROVE ReplyInv'
  BY <1>26 DEF RxStore
<1>27. ASSUME RxSignal PROVE ReplyInv'
  BY <1>27 DEF RxSignal
<1>28. ASSUME TxDone PROVE ReplyInv'
  BY <1>28 DEF TxDone
<1>29. ASSUME ChannelConnected PROVE ReplyInv'
  BY <1>29 DEF ChannelConnected
<1>30. ASSUME RemoteDisconnected PROVE ReplyInv'
  BY <1>30 DEF RemoteDisconnected
<1>31. ASSUME LocalDisconnected PROVE ReplyInv'
  BY <1>31 DEF LocalDisconnected, OpenChannel
<1>32. ASSUME LinkUp PROVE ReplyInv'
  BY <1>32 DEF LinkUp, OpenChannel
<1>33. ASSUME LinkDown PROVE ReplyInv'
  BY <1>33 DEF LinkDown
<1>34. ASSUME D0Exit PROVE ReplyInv'
  BY <1>34 DEF D0Exit
<1>35. ASSUME UNCHANGED vars PROVE ReplyInv'
  BY <1>35 DEF vars
<1> QED
  BY <1>1, <1>2, <1>3, <1>4, <1>5, <1>6, <1>7, <1>8, <1>9, <1>10, <1>11,
     <1>12, <1>13, <1>14, <1>15, <1>16, <1>17, <1>18, <1>19, <1>20, <1>21,
     <1>22, <1>23, <1>24, <1>25, <1>26, <1>27, <1>28, <1>29, <1>30, <1>31,
     <1>32, <1>33, <1>34, <1>35
    DEF Next, SendStep, TimerStep, WorkStep, GlinkStep

THEOREM NoLostReplyCorrect == Spec => []NoLostReply
<1>1. Init => ReplyInv
  BY DEF Init, ReplyInv
<1>2. ReplyInv => NoLostReply
  BY DEF ReplyInv, NoLostReply
<1>3. QED
  BY <1>1, <1>2, TypeCorrect, ClaimCorrect, ReplyStep, PTL DEF Spec

(* A slot holds a packet already read only between copy and erasure; what  *)
(* the timer function has matched is fresh until it is printed.            *)
FreshInv ==
  /\ \A o \in Logs : buffer[o] = "read" => pc[Timer] = "zero" /\ stage = o
  /\ pc[Timer] \in {"zero", "matched"} => data[stage] = "fresh"
  /\ matched[Timer] => pc[Timer] \in Exchange /\ data[stage] = "fresh"
  /\ PrintIsFresh

LEMMA FreshStep == TypeOK /\ FreshInv /\ [Next]_vars => FreshInv'
<1> SUFFICES ASSUME TypeOK, FreshInv, [Next]_vars PROVE FreshInv'
  OBVIOUS
<1> USE DEF TypeOK, FreshInv, PrintIsFresh, Callers, Ops, Logs, Contents, Exchange, WaitPlaces,
        Opcode, localVars, claimVars, slotVars, rxVars, chanVars, itemVars, timerVars,
        printVars, outerVars, vars, Goto, SetCount
<1>1. ASSUME NEW c \in Callers, PollBusy(c) PROVE FreshInv'
  BY <1>1 DEF PollBusy
<1>2. ASSUME NEW c \in Callers, PollGiveUp(c) PROVE FreshInv'
  BY <1>2 DEF PollGiveUp, Return
<1>3. ASSUME NEW c \in Callers, PollFree(c) PROVE FreshInv'
  BY <1>3 DEF PollFree
<1>4. ASSUME NEW c \in Callers, Claim(c) PROVE FreshInv'
  BY <1>4 DEF Claim
<1>5. ASSUME NEW c \in Callers, ClearEvents(c) PROVE FreshInv'
  BY <1>5 DEF ClearEvents
<1>6. ASSUME NEW c \in Callers, ClearSlot(c) PROVE FreshInv'
  BY <1>6 DEF ClearSlot
<1>7. ASSUME NEW c \in Callers, Transmit(c) PROVE FreshInv'
  BY <1>7 DEF Transmit
<1>8. ASSUME NEW c \in Callers, TransmitFails(c) PROVE FreshInv'
  BY <1>8 DEF TransmitFails, Return, Release
<1>9. ASSUME NEW c \in Callers, WakeUp(c) PROVE FreshInv'
  BY <1>9 DEF WakeUp
<1>10. ASSUME NEW c \in Callers, WaitTimesOut(c) PROVE FreshInv'
  BY <1>10 DEF WaitTimesOut
<1>11. ASSUME NEW c \in Callers, FirstLoopExhausted(c) PROVE FreshInv'
  BY <1>11 DEF FirstLoopExhausted, Release
<1>12. ASSUME NEW c \in Callers, SecondLoopExhausted(c) PROVE FreshInv'
  BY <1>12 DEF SecondLoopExhausted
<1>13. ASSUME NEW c \in Callers, ClearWoken(c) PROVE FreshInv'
  BY <1>13 DEF ClearWoken
<1>14. ASSUME NEW c \in Callers, Take(c) PROVE FreshInv'
  BY <1>14 DEF Take
<1>15. ASSUME NEW c \in Callers, Copy(c) PROVE FreshInv'
  BY <1>15 DEF Copy
<1>16. ASSUME NEW c \in Callers, Zero(c) PROVE FreshInv'
  BY <1>16 DEF Zero
<1>17. ASSUME NEW c \in Callers, Matched(c) PROVE FreshInv'
  BY <1>17 DEF Matched, Release
<1>18. ASSUME NEW c \in Callers, Finish(c) PROVE FreshInv'
  BY <1>18 DEF Finish, Return, Release
<1>19. ASSUME TimerFires PROVE FreshInv'
  BY <1>19 DEF TimerFires
<1>20. ASSUME TimerSends PROVE FreshInv'
  BY <1>20 DEF TimerSends, Enter
<1>21. ASSUME BootLogDone PROVE FreshInv'
  BY <1>21 DEF BootLogDone
<1>22. ASSUME TimerEnds PROVE FreshInv'
  BY <1>22 DEF TimerEnds
<1>23. ASSUME PrintBuffer PROVE FreshInv'
  BY <1>23 DEF PrintBuffer
<1>24. ASSUME NEW w \in Workers, WorkBegins(w) PROVE FreshInv'
  BY <1>24 DEF WorkBegins, Enter
<1>25. ASSUME NEW w \in Workers, EnsureTimer(w) PROVE FreshInv'
  BY <1>25 DEF EnsureTimer
<1>26. ASSUME NEW o \in Ops, RxStore(o) PROVE FreshInv'
  BY <1>26 DEF RxStore
<1>27. ASSUME RxSignal PROVE FreshInv'
  BY <1>27 DEF RxSignal
<1>28. ASSUME TxDone PROVE FreshInv'
  BY <1>28 DEF TxDone
<1>29. ASSUME ChannelConnected PROVE FreshInv'
  BY <1>29 DEF ChannelConnected
<1>30. ASSUME RemoteDisconnected PROVE FreshInv'
  BY <1>30 DEF RemoteDisconnected
<1>31. ASSUME LocalDisconnected PROVE FreshInv'
  BY <1>31 DEF LocalDisconnected, OpenChannel
<1>32. ASSUME LinkUp PROVE FreshInv'
  BY <1>32 DEF LinkUp, OpenChannel
<1>33. ASSUME LinkDown PROVE FreshInv'
  BY <1>33 DEF LinkDown
<1>34. ASSUME D0Exit PROVE FreshInv'
  BY <1>34 DEF D0Exit
<1>35. ASSUME UNCHANGED vars PROVE FreshInv'
  BY <1>35 DEF vars
<1> QED
  BY <1>1, <1>2, <1>3, <1>4, <1>5, <1>6, <1>7, <1>8, <1>9, <1>10, <1>11,
     <1>12, <1>13, <1>14, <1>15, <1>16, <1>17, <1>18, <1>19, <1>20, <1>21,
     <1>22, <1>23, <1>24, <1>25, <1>26, <1>27, <1>28, <1>29, <1>30, <1>31,
     <1>32, <1>33, <1>34, <1>35
    DEF Next, SendStep, TimerStep, WorkStep, GlinkStep

(* Without a time-out the timer function prints an answer, and only once.  *)
THEOREM PrintIsFreshCorrect == Spec => []PrintIsFresh
<1>1. Init => FreshInv
  BY DEF Init, FreshInv, PrintIsFresh, Callers, Ops, Logs
<1>2. FreshInv => PrintIsFresh
  BY DEF FreshInv
<1>3. QED
  BY <1>1, <1>2, TypeCorrect, FreshStep, PTL DEF Spec
=============================================================================
