------------------------ MODULE GlinkTransport_proofs ------------------------
(***************************************************************************)
(* What GlinkTransport guarantees for any number of senders and opcodes    *)
(* and any limits of the poll and wait loops.                              *)
(***************************************************************************)
EXTENDS GlinkTransport, TLAPS

(* The variables keep their types.                                         *)
THEOREM TypeCorrect == Spec => []TypeOK
<1> USE TransportAssumption
<1>1. Init => TypeOK
  <2> SUFFICES ASSUME Init PROVE TypeOK
    OBVIOUS
  <2>1. /\ pc \in [Senders -> Places]
        /\ slot \in [Ops -> Packets \cup {NoPacket}]
        /\ woke \in [Senders -> Events \cup {NoEvent}]
    BY DEF Init, Places
  <2>2. QED
    BY <2>1 DEF Init, TypeOK
<1>2. TypeOK /\ [Next]_vars => TypeOK'
  <2> SUFFICES ASSUME TypeOK, [Next]_vars PROVE TypeOK'
    OBVIOUS
  <2> USE DEF TypeOK
  <2>1. ASSUME NEW s \in Senders, Call(s) PROVE TypeOK'
    BY <2>1 DEF Call, claimVars, rxVars, Goto, Places
  <2>2. ASSUME NEW s \in Senders, AcquireTxSync(s) PROVE TypeOK'
    BY <2>2 DEF AcquireTxSync, localVars, rxVars, Goto, Places
  <2>3. ASSUME NEW s \in Senders, PollBusy(s) PROVE TypeOK'
    BY <2>3 DEF PollBusy, claimVars, rxVars, SetCount
  <2>4. ASSUME NEW s \in Senders, PollGiveUp(s) PROVE TypeOK'
    BY <2>4 DEF PollGiveUp, rxVars, Goto, SetCount, Return, Places
  <2>5. ASSUME NEW s \in Senders, PollFree(s) PROVE TypeOK'
    BY <2>5 DEF PollFree, claimVars, rxVars, Goto, SetCount, Places
  <2>6. ASSUME NEW s \in Senders, Claim(s) PROVE TypeOK'
    BY <2>6 DEF Claim, localVars, rxVars, Goto, Places
  <2>7. ASSUME NEW s \in Senders, Unlock(s) PROVE TypeOK'
    BY <2>7 DEF Unlock, localVars, rxVars, Goto, Places
  <2>8. ASSUME NEW s \in Senders, ClearEvents(s) PROVE TypeOK'
    BY <2>8 DEF ClearEvents, localVars, claimVars, Goto, Places,
       Events
  <2>9. ASSUME NEW s \in Senders, ClearSlot(s) PROVE TypeOK'
    BY <2>9 DEF ClearSlot, localVars, claimVars, Goto, Places
  <2>10. ASSUME NEW s \in Senders, Transmit(s) PROVE TypeOK'
    BY <2>10 DEF Transmit, localVars, claimVars, Goto, Places
  <2>11. ASSUME NEW s \in Senders, TransmitFails(s) PROVE TypeOK'
    BY <2>11 DEF TransmitFails, rxVars, Goto, SetCount, Return,
       Release, Places
  <2>12. ASSUME NEW s \in Senders, WakeUp(s) PROVE TypeOK'
    BY <2>12 DEF WakeUp, claimVars, rxVars, Goto, Places, Events
  <2>13. ASSUME NEW s \in Senders, WaitTimesOut(s) PROVE TypeOK'
    BY <2>13 DEF WaitTimesOut, claimVars, rxVars, SetCount
  <2>14. ASSUME NEW s \in Senders, WaitsExhausted(s) PROVE TypeOK'
    BY <2>14 DEF WaitsExhausted, localVars, claimVars, rxVars,
       Goto, Places
  <2>15. ASSUME NEW s \in Senders, ClearWoken(s) PROVE TypeOK'
    <3>1. /\ pc' \in [Senders -> Places]
          /\ phase' \in [Senders -> {1, 2}]
          /\ count' \in [Senders -> Nat]
      BY <2>15 DEF ClearWoken, Goto, SetCount, Places
    <3>2. woke' \in [Senders -> Events \cup {NoEvent}] /\ signaled' \subseteq Events
      BY <2>15 DEF ClearWoken
    <3>3. QED
      BY <2>15, <3>1, <3>2 DEF ClearWoken, claimVars
  <2>16. ASSUME NEW s \in Senders, Take(s) PROVE TypeOK'
    BY <2>16 DEF Take, Overlooks, claimVars, rxVars, Goto, SetCount, Places
  <2>17. ASSUME NEW s \in Senders, ZeroSlot(s) PROVE TypeOK'
    BY <2>17 DEF ZeroSlot, localVars, claimVars, Goto, Places
  <2>18. ASSUME NEW s \in Senders, MatchedRelease(s) PROVE TypeOK'
    BY <2>18 DEF MatchedRelease, localVars, rxVars, Goto, Release,
       Places
  <2>19. ASSUME NEW s \in Senders, ReleaseAgain(s) PROVE TypeOK'
    BY <2>19 DEF ReleaseAgain, rxVars, Goto, SetCount, Return,
       Release, Places
  <2>20. ASSUME NEW s \in Senders, Finish(s) PROVE TypeOK'
    BY <2>20 DEF Finish, rxVars, Goto, SetCount, Return, Release,
       Places
  <2>21. ASSUME NEW o \in Ops, RxStore(o) PROVE TypeOK'
    <3>1. [seen |-> {s \in Senders : Awaits(s, o)}] \in Packets
      BY DEF Packets
    <3>2. QED
      BY <2>21, <3>1 DEF RxStore, sendVars, localVars, claimVars
  <2>22. CASE RxSignal
    BY <2>22 DEF RxSignal, localVars, claimVars, sendVars, Events
  <2>23. CASE TxDone
    BY <2>23 DEF TxDone, localVars, claimVars, sendVars, Events
  <2>24. CASE StateNotification
    BY <2>24 DEF StateNotification, localVars, claimVars, sendVars, Events
  <2>25. ASSUME NEW o \in Ops, RxStoreFails(o) PROVE TypeOK'
    BY <2>25 DEF RxStoreFails, localVars, claimVars, sendVars
  <2>26. CASE DeferredSignal
    BY <2>26 DEF DeferredSignal, localVars, claimVars, sendVars, Events
  <2>27. CASE ResetCommDataSlots
    BY <2>27 DEF ResetCommDataSlots, localVars, claimVars, sendVars
  <2>28. CASE InitializeEvents
    BY <2>28 DEF InitializeEvents, localVars
  <2>29. CASE UNCHANGED vars
    BY <2>29 DEF vars, localVars, claimVars, rxVars
  <2>30. QED
    BY <2>1, <2>2, <2>3, <2>4, <2>5, <2>6, <2>7, <2>8, <2>9, <2>10, <2>11,
       <2>12, <2>13, <2>14, <2>15, <2>16, <2>17, <2>18, <2>19, <2>20, <2>21,
       <2>22, <2>23, <2>24, <2>25, <2>26, <2>27, <2>28, <2>29
    DEF Next, SendStep, GlinkCallback, Elsewhere
<1>3. QED
  BY <1>1, <1>2, PTL DEF Spec

(* The claim protocol of PmicGlink_SendData: the mutex, the flag and the   *)
(* double release, tied together by the inductive invariant ClaimInv.      *)
THEOREM ClaimCorrect == Spec => []ClaimInv
<1> USE TransportAssumption
<1>1. Init => ClaimInv
  BY DEF Init, ClaimInv, MutexInv, CheckedInv, OwnedInv, Exclusive, Claimed,
         ClaimedPlaces, ExchangePlaces, WaitPlaces, MutexPlaces
<1>2. TypeOK /\ ClaimInv /\ [Next]_vars => ClaimInv'
  <2> SUFFICES ASSUME TypeOK, ClaimInv, [Next]_vars PROVE ClaimInv'
    OBVIOUS
  <2> USE DEF TypeOK, ClaimInv, MutexInv, CheckedInv, OwnedInv, Exclusive
  <2>1. ASSUME NEW s \in Senders, Call(s) PROVE ClaimInv'
    BY <2>1 DEF Call, claimVars, rxVars, Goto, Claimed,
       ClaimedPlaces, ExchangePlaces, WaitPlaces, MutexPlaces
  <2>2. ASSUME NEW s \in Senders, AcquireTxSync(s) PROVE ClaimInv'
    BY <2>2 DEF AcquireTxSync, localVars, rxVars, Goto, Claimed,
       ClaimedPlaces, ExchangePlaces, WaitPlaces, MutexPlaces
  <2>3. ASSUME NEW s \in Senders, PollBusy(s) PROVE ClaimInv'
    BY <2>3 DEF PollBusy, claimVars, rxVars, SetCount, Claimed,
       ClaimedPlaces, ExchangePlaces, WaitPlaces, MutexPlaces
  <2>4. ASSUME NEW s \in Senders, PollGiveUp(s) PROVE ClaimInv'
    BY <2>4 DEF PollGiveUp, rxVars, Goto, SetCount, Return,
       Claimed, ClaimedPlaces, ExchangePlaces, WaitPlaces, MutexPlaces
  <2>5. ASSUME NEW s \in Senders, PollFree(s) PROVE ClaimInv'
    BY <2>5 DEF PollFree, claimVars, rxVars, Goto, SetCount,
       Claimed, ClaimedPlaces, ExchangePlaces, WaitPlaces, MutexPlaces
  <2>6. ASSUME NEW s \in Senders, Claim(s) PROVE ClaimInv'
    BY <2>6 DEF Claim, localVars, rxVars, Goto, Claimed,
       ClaimedPlaces, ExchangePlaces, WaitPlaces, MutexPlaces
  <2>7. ASSUME NEW s \in Senders, Unlock(s) PROVE ClaimInv'
    BY <2>7 DEF Unlock, localVars, rxVars, Goto, Claimed,
       ClaimedPlaces, ExchangePlaces, WaitPlaces, MutexPlaces
  <2>8. ASSUME NEW s \in Senders, ClearEvents(s) PROVE ClaimInv'
    BY <2>8 DEF ClearEvents, localVars, claimVars, Goto, Claimed,
       ClaimedPlaces, ExchangePlaces, WaitPlaces, MutexPlaces
  <2>9. ASSUME NEW s \in Senders, ClearSlot(s) PROVE ClaimInv'
    BY <2>9 DEF ClearSlot, localVars, claimVars, Goto, Claimed,
       ClaimedPlaces, ExchangePlaces, WaitPlaces, MutexPlaces
  <2>10. ASSUME NEW s \in Senders, Transmit(s) PROVE ClaimInv'
    BY <2>10 DEF Transmit, localVars, claimVars, Goto, Claimed,
       ClaimedPlaces, ExchangePlaces, WaitPlaces, MutexPlaces
  <2>11. ASSUME NEW s \in Senders, TransmitFails(s) PROVE ClaimInv'
    BY <2>11 DEF TransmitFails, rxVars, Goto, SetCount, Return,
       Release, Claimed, ClaimedPlaces, ExchangePlaces, WaitPlaces,
       MutexPlaces
  <2>12. ASSUME NEW s \in Senders, WakeUp(s) PROVE ClaimInv'
    BY <2>12 DEF WakeUp, claimVars, rxVars, Goto, Claimed,
       ClaimedPlaces, ExchangePlaces, WaitPlaces, MutexPlaces
  <2>13. ASSUME NEW s \in Senders, WaitTimesOut(s) PROVE ClaimInv'
    BY <2>13 DEF WaitTimesOut, claimVars, rxVars, SetCount,
       Claimed, ClaimedPlaces, ExchangePlaces, WaitPlaces, MutexPlaces
  <2>14. ASSUME NEW s \in Senders, WaitsExhausted(s) PROVE ClaimInv'
    BY <2>14 DEF WaitsExhausted, localVars, claimVars, rxVars,
       Goto, Claimed, ClaimedPlaces, ExchangePlaces, WaitPlaces, MutexPlaces
  <2>15. ASSUME NEW s \in Senders, ClearWoken(s) PROVE ClaimInv'
    BY <2>15 DEF ClearWoken, claimVars, Goto, SetCount, Claimed,
       ClaimedPlaces, ExchangePlaces, WaitPlaces, MutexPlaces
  <2>16. ASSUME NEW s \in Senders, Take(s) PROVE ClaimInv'
    BY <2>16 DEF Take, Overlooks, claimVars, rxVars, Goto, SetCount, Claimed,
       ClaimedPlaces, ExchangePlaces, WaitPlaces, MutexPlaces
  <2>17. ASSUME NEW s \in Senders, ZeroSlot(s) PROVE ClaimInv'
    BY <2>17 DEF ZeroSlot, localVars, claimVars, Goto, Claimed,
       ClaimedPlaces, ExchangePlaces, WaitPlaces, MutexPlaces
  <2>18. ASSUME NEW s \in Senders, MatchedRelease(s) PROVE ClaimInv'
    BY <2>18 DEF MatchedRelease, localVars, rxVars, Goto, Release,
       Claimed, ClaimedPlaces, ExchangePlaces, WaitPlaces, MutexPlaces
  <2>19. ASSUME NEW s \in Senders, ReleaseAgain(s) PROVE ClaimInv'
    BY <2>19 DEF ReleaseAgain, rxVars, Goto, SetCount, Return,
       Release, Claimed, ClaimedPlaces, ExchangePlaces, WaitPlaces,
       MutexPlaces
  <2>20. ASSUME NEW s \in Senders, Finish(s) PROVE ClaimInv'
    BY <2>20 DEF Finish, rxVars, Goto, SetCount, Return, Release,
       Claimed, ClaimedPlaces, ExchangePlaces, WaitPlaces, MutexPlaces
  <2>21. ASSUME NEW o \in Ops, RxStore(o) PROVE ClaimInv'
    BY <2>21 DEF RxStore, localVars, claimVars, sendVars, Claimed
  <2>22. CASE RxSignal
    BY <2>22 DEF RxSignal, localVars, claimVars, sendVars, Claimed
  <2>23. CASE TxDone
    BY <2>23 DEF TxDone, localVars, claimVars, sendVars, Claimed
  <2>24. CASE StateNotification
    BY <2>24 DEF StateNotification, localVars, claimVars, sendVars, Claimed
  <2>25. ASSUME NEW o \in Ops, RxStoreFails(o) PROVE ClaimInv'
    BY <2>25 DEF RxStoreFails, localVars, claimVars, sendVars, Claimed
  <2>26. CASE DeferredSignal
    BY <2>26 DEF DeferredSignal, localVars, claimVars, sendVars, Claimed
  <2>27. CASE ResetCommDataSlots
    BY <2>27 DEF ResetCommDataSlots, localVars, claimVars, sendVars, Claimed
  <2>28. CASE InitializeEvents
    BY <2>28 DEF InitializeEvents, localVars, Claimed
  <2>29. CASE UNCHANGED vars
    BY <2>29 DEF vars, localVars, claimVars, rxVars, Claimed
  <2>30. QED
    BY <2>1, <2>2, <2>3, <2>4, <2>5, <2>6, <2>7, <2>8, <2>9, <2>10, <2>11,
       <2>12, <2>13, <2>14, <2>15, <2>16, <2>17, <2>18, <2>19, <2>20, <2>21,
       <2>22, <2>23, <2>24, <2>25, <2>26, <2>27, <2>28, <2>29
    DEF Next, SendStep, GlinkCallback, Elsewhere
<1>3. QED
  BY <1>1, <1>2, TypeCorrect, PTL DEF Spec

(* Exchanges overlap only after a redundant release (PmicGlink_SendData).  *)
THEOREM ExclusiveCorrect == Spec => []Exclusive
BY ClaimCorrect, PTL DEF ClaimInv

(* No return path of PmicGlink_SendData leaves the flag or the mutex       *)
(* behind.                                                                 *)
THEOREM NoLeakedClaimCorrect == Spec => []NoLeakedClaim
<1>1. ClaimInv => NoLeakedClaim
  BY DEF ClaimInv, MutexInv, OwnedInv, NoLeakedClaim
<1>2. QED
  BY <1>1, ClaimCorrect, PTL

(* The first disturbance is the second release of a matched call: every    *)
(* other release finds its own claim, and a claim finds no other.          *)
LEMMA FirstDisturbance ==
  ASSUME TypeOK, ClaimInv, [Next]_vars, disturbed = {}, disturbed' # {}
  PROVE  \E s, t \in Senders : ReleaseAgain(s) /\ Claimed(t)
<1>1. \A s, t \in Senders : Claimed(s) /\ Claimed(t) => s = t
  BY DEF ClaimInv, Exclusive
<1>2. \A s \in Senders : Claimed(s) => rxInProgress = 1
  BY DEF ClaimInv, OwnedInv
<1>3. ASSUME NEW s \in Senders, Claim(s) PROVE FALSE
  BY <1>2, <1>3 DEF Claim, ClaimInv, CheckedInv
<1>4. ASSUME NEW s \in Senders, Release(s), Claimed(s) PROVE FALSE
  BY <1>1, <1>4 DEF Release
<1>5. PICK s \in Senders : Release(s) /\ ~Claimed(s) /\ (TransmitFails(s)
        \/ MatchedRelease(s) \/ ReleaseAgain(s) \/ Finish(s))
  BY <1>3, <1>4 DEF Next, SendStep, GlinkCallback, Call, AcquireTxSync, PollBusy,
     PollGiveUp, PollFree, Unlock, ClearEvents, ClearSlot, Transmit,
     TransmitFails, WakeUp, WaitTimesOut, WaitsExhausted, ClearWoken, Take,
     ZeroSlot, MatchedRelease, ReleaseAgain, Finish, RxStore, RxSignal,
     TxDone, StateNotification, RxStoreFails, DeferredSignal, Elsewhere,
     ResetCommDataSlots, InitializeEvents, vars, claimVars, sendVars
<1>6. ReleaseAgain(s)
  BY <1>5 DEF TransmitFails, MatchedRelease, Finish, Claimed, ClaimedPlaces,
     ExchangePlaces
<1>7. QED
  BY <1>6 DEF ReleaseAgain, Release

(* Trouble starts at line 218 only.                                        *)
THEOREM RedundantReleaseCorrect == Spec => OnlyRedundantReleaseDisturbs
<1> DEFINE Cause == disturbed = {} /\ disturbed' # {} =>
                      \E s \in Senders : pc[s] = "again" /\ pc'[s] = "idle"
<1>1. TypeOK /\ ClaimInv /\ [Next]_vars => Cause
  BY FirstDisturbance DEF ReleaseAgain, Return, Goto, TypeOK
<1>2. QED
  BY <1>1, TypeCorrect, ClaimCorrect, PTL DEF Spec, OnlyRedundantReleaseDisturbs

(* Without it there is none: if no call releases a second time while       *)
(* another holds the claim, there is one exchange at a time, always.       *)
THEOREM AloneUnlessReleasedTwice ==
  Spec /\ [][~\E s, t \in Senders : ReleaseAgain(s) /\ Claimed(t)]_vars
    => [](\A s, t \in Senders : Claimed(s) /\ Claimed(t) => s = t)
<1> DEFINE Alone == \A s, t \in Senders : Claimed(s) /\ Claimed(t) => s = t
           Once  == ~\E s, t \in Senders : ReleaseAgain(s) /\ Claimed(t)
           Calm  == disturbed = {}
<1>1. Init => Calm
  BY DEF Init
<1>2. TypeOK /\ ClaimInv /\ Calm /\ [Next]_vars /\ [Once]_vars => Calm'
  <2>1. CASE UNCHANGED vars
    BY <2>1 DEF vars, claimVars
  <2>2. CASE ~UNCHANGED vars
    BY <2>2, FirstDisturbance
  <2>3. QED
    BY <2>1, <2>2
<1>3. ClaimInv /\ Calm => Alone
  BY DEF ClaimInv, Exclusive
<1> HIDE DEF Alone, Once, Calm
<1>4. Spec /\ [][Once]_vars => []Alone
  BY <1>1, <1>2, <1>3, TypeCorrect, ClaimCorrect, PTL DEF Spec
<1>5. QED
  BY <1>4 DEF Alone, Once

(* A stored reply keeps its wake-up until the waiting call has looked.     *)
THEOREM NoLostReplyCorrect == Spec => []NoLostReply
<1> USE TransportAssumption
<1>1. Init => ReplyInv
  BY DEF Init, ReplyInv, Asks, WaitPlaces
<1>2. TypeOK /\ ClaimInv /\ ReplyInv /\ [Next]_vars => ReplyInv'
  <2> SUFFICES ASSUME TypeOK, ClaimInv, ReplyInv, [Next]_vars PROVE ReplyInv'
    OBVIOUS
  <2> USE DEF TypeOK, ClaimInv, Exclusive, ReplyInv, Asks, Heeds
  <2>1. ASSUME NEW s \in Senders, Call(s) PROVE ReplyInv'
    BY <2>1 DEF Call, claimVars, rxVars, Goto, WakeOwed, WaitPlaces
  <2>2. ASSUME NEW s \in Senders, AcquireTxSync(s) PROVE ReplyInv'
    BY <2>2 DEF AcquireTxSync, localVars, rxVars, Goto, WakeOwed,
       WaitPlaces
  <2>3. ASSUME NEW s \in Senders, PollBusy(s) PROVE ReplyInv'
    BY <2>3 DEF PollBusy, claimVars, rxVars, SetCount, WakeOwed,
       WaitPlaces
  <2>4. ASSUME NEW s \in Senders, PollGiveUp(s) PROVE ReplyInv'
    BY <2>4 DEF PollGiveUp, rxVars, Goto, SetCount, Return,
       WakeOwed, WaitPlaces
  <2>5. ASSUME NEW s \in Senders, PollFree(s) PROVE ReplyInv'
    BY <2>5 DEF PollFree, claimVars, rxVars, Goto, SetCount,
       WakeOwed, WaitPlaces
  <2>6. ASSUME NEW s \in Senders, Claim(s) PROVE ReplyInv'
    BY <2>6 DEF Claim, localVars, rxVars, Goto, WakeOwed, WaitPlaces
  <2>7. ASSUME NEW s \in Senders, Unlock(s) PROVE ReplyInv'
    BY <2>7 DEF Unlock, localVars, rxVars, Goto, WakeOwed,
       WaitPlaces
  <2>8. ASSUME NEW s \in Senders, ClearEvents(s) PROVE ReplyInv'
    BY <2>8 DEF ClearEvents, localVars, claimVars, Goto, WakeOwed,
       WaitPlaces, Claimed, ClaimedPlaces, ExchangePlaces
  <2>9. ASSUME NEW s \in Senders, ClearSlot(s) PROVE ReplyInv'
    BY <2>9 DEF ClearSlot, localVars, claimVars, Goto, WakeOwed,
       WaitPlaces
  <2>10. ASSUME NEW s \in Senders, Transmit(s) PROVE ReplyInv'
    BY <2>10 DEF Transmit, localVars, claimVars, Goto, WakeOwed,
       WaitPlaces
  <2>11. ASSUME NEW s \in Senders, TransmitFails(s) PROVE ReplyInv'
    BY <2>11 DEF TransmitFails, rxVars, Goto, SetCount, Return,
       Release, WakeOwed, WaitPlaces, Claimed, ClaimedPlaces, ExchangePlaces
  <2>12. ASSUME NEW s \in Senders, WakeUp(s) PROVE ReplyInv'
    BY <2>12 DEF WakeUp, claimVars, rxVars, Goto, WakeOwed,
       WaitPlaces
  <2>13. ASSUME NEW s \in Senders, WaitTimesOut(s) PROVE ReplyInv'
    BY <2>13 DEF WaitTimesOut, claimVars, rxVars, SetCount,
       WakeOwed, WaitPlaces
  <2>14. ASSUME NEW s \in Senders, WaitsExhausted(s) PROVE ReplyInv'
    BY <2>14 DEF WaitsExhausted, localVars, claimVars, rxVars,
       Goto, WakeOwed, WaitPlaces
  <2>15. ASSUME NEW s \in Senders, ClearWoken(s) PROVE ReplyInv'
    BY <2>15 DEF ClearWoken, claimVars, Goto, SetCount, WakeOwed,
       WaitPlaces, Claimed, ClaimedPlaces, ExchangePlaces
  <2>16. ASSUME NEW s \in Senders, Take(s) PROVE ReplyInv'
    BY <2>16 DEF Take, Overlooks, claimVars, rxVars, Goto, SetCount,
       WakeOwed, WaitPlaces
  <2>17. ASSUME NEW s \in Senders, ZeroSlot(s) PROVE ReplyInv'
    BY <2>17 DEF ZeroSlot, localVars, claimVars, Goto, WakeOwed,
       WaitPlaces
  <2>18. ASSUME NEW s \in Senders, MatchedRelease(s) PROVE ReplyInv'
    BY <2>18 DEF MatchedRelease, localVars, rxVars, Goto, Release,
       WakeOwed, WaitPlaces, Claimed, ClaimedPlaces, ExchangePlaces
  <2>19. ASSUME NEW s \in Senders, ReleaseAgain(s) PROVE ReplyInv'
    BY <2>19 DEF ReleaseAgain, rxVars, Goto, SetCount, Return,
       Release, WakeOwed, WaitPlaces, Claimed, ClaimedPlaces, ExchangePlaces
  <2>20. ASSUME NEW s \in Senders, Finish(s) PROVE ReplyInv'
    BY <2>20 DEF Finish, rxVars, Goto, SetCount, Return, Release,
       WakeOwed, WaitPlaces, Claimed, ClaimedPlaces, ExchangePlaces
  <2>21. ASSUME NEW o \in Ops, RxStore(o) PROVE ReplyInv'
    BY <2>21 DEF RxStore, localVars, claimVars, sendVars, WakeOwed
  <2>22. CASE RxSignal
    BY <2>22 DEF RxSignal, localVars, claimVars, sendVars, WakeOwed
  <2>23. CASE TxDone
    BY <2>23 DEF TxDone, localVars, claimVars, sendVars, WakeOwed
  <2>24. CASE StateNotification
    BY <2>24 DEF StateNotification, localVars, claimVars, sendVars, WakeOwed
  <2>25. ASSUME NEW o \in Ops, RxStoreFails(o) PROVE ReplyInv'
    BY <2>25 DEF RxStoreFails, localVars, claimVars, sendVars, WakeOwed
  <2>26. CASE DeferredSignal
    BY <2>26 DEF DeferredSignal, localVars, claimVars, sendVars, WakeOwed
  <2>27. CASE ResetCommDataSlots
    BY <2>27 DEF ResetCommDataSlots, localVars, claimVars, sendVars, WakeOwed
  <2>28. CASE InitializeEvents
    BY <2>28 DEF InitializeEvents, localVars, WakeOwed
  <2>29. CASE UNCHANGED vars
    BY <2>29 DEF vars, localVars, claimVars, rxVars, WakeOwed
  <2>30. QED
    BY <2>1, <2>2, <2>3, <2>4, <2>5, <2>6, <2>7, <2>8, <2>9, <2>10, <2>11,
       <2>12, <2>13, <2>14, <2>15, <2>16, <2>17, <2>18, <2>19, <2>20, <2>21,
       <2>22, <2>23, <2>24, <2>25, <2>26, <2>27, <2>28, <2>29
    DEF Next, SendStep, GlinkCallback, Elsewhere
<1>3. ReplyInv => NoLostReply
  BY DEF ReplyInv, Asks, NoLostReply
<1>4. QED
  BY <1>1, <1>2, <1>3, TypeCorrect, ClaimCorrect, PTL DEF Spec

(* What a call finds in its slot was stored during its own exchange        *)
(* (PmicGlinkClearCommDataSlot comes before GLinkTx).                      *)
THEOREM NoStaleReplyCorrect == Spec => []NoStaleReply
<1> USE TransportAssumption
<1>1. Init => NoStaleReply
  BY DEF Init, NoStaleReply, ExchangePlaces, WaitPlaces
<1>2. TypeOK /\ NoStaleReply /\ [Next]_vars => NoStaleReply'
  <2> SUFFICES ASSUME TypeOK, NoStaleReply, [Next]_vars PROVE NoStaleReply'
    OBVIOUS
  <2> USE DEF TypeOK, NoStaleReply
  <2>1. ASSUME NEW s \in Senders, Call(s) PROVE NoStaleReply'
    BY <2>1 DEF Call, claimVars, rxVars, Goto, ExchangePlaces,
       WaitPlaces
  <2>2. ASSUME NEW s \in Senders, AcquireTxSync(s) PROVE NoStaleReply'
    BY <2>2 DEF AcquireTxSync, localVars, rxVars, Goto,
       ExchangePlaces, WaitPlaces
  <2>3. ASSUME NEW s \in Senders, PollBusy(s) PROVE NoStaleReply'
    BY <2>3 DEF PollBusy, claimVars, rxVars, SetCount,
       ExchangePlaces, WaitPlaces
  <2>4. ASSUME NEW s \in Senders, PollGiveUp(s) PROVE NoStaleReply'
    BY <2>4 DEF PollGiveUp, rxVars, Goto, SetCount, Return,
       ExchangePlaces, WaitPlaces
  <2>5. ASSUME NEW s \in Senders, PollFree(s) PROVE NoStaleReply'
    BY <2>5 DEF PollFree, claimVars, rxVars, Goto, SetCount,
       ExchangePlaces, WaitPlaces
  <2>6. ASSUME NEW s \in Senders, Claim(s) PROVE NoStaleReply'
    BY <2>6 DEF Claim, localVars, rxVars, Goto, ExchangePlaces,
       WaitPlaces
  <2>7. ASSUME NEW s \in Senders, Unlock(s) PROVE NoStaleReply'
    BY <2>7 DEF Unlock, localVars, rxVars, Goto, ExchangePlaces,
       WaitPlaces
  <2>8. ASSUME NEW s \in Senders, ClearEvents(s) PROVE NoStaleReply'
    BY <2>8 DEF ClearEvents, localVars, claimVars, Goto,
       ExchangePlaces, WaitPlaces
  <2>9. ASSUME NEW s \in Senders, ClearSlot(s) PROVE NoStaleReply'
    BY <2>9 DEF ClearSlot, localVars, claimVars, Goto,
       ExchangePlaces, WaitPlaces
  <2>10. ASSUME NEW s \in Senders, Transmit(s) PROVE NoStaleReply'
    BY <2>10 DEF Transmit, localVars, claimVars, Goto,
       ExchangePlaces, WaitPlaces
  <2>11. ASSUME NEW s \in Senders, TransmitFails(s) PROVE NoStaleReply'
    BY <2>11 DEF TransmitFails, rxVars, Goto, SetCount, Return,
       Release, ExchangePlaces, WaitPlaces
  <2>12. ASSUME NEW s \in Senders, WakeUp(s) PROVE NoStaleReply'
    BY <2>12 DEF WakeUp, claimVars, rxVars, Goto, ExchangePlaces,
       WaitPlaces
  <2>13. ASSUME NEW s \in Senders, WaitTimesOut(s) PROVE NoStaleReply'
    BY <2>13 DEF WaitTimesOut, claimVars, rxVars, SetCount,
       ExchangePlaces, WaitPlaces
  <2>14. ASSUME NEW s \in Senders, WaitsExhausted(s) PROVE NoStaleReply'
    BY <2>14 DEF WaitsExhausted, localVars, claimVars, rxVars,
       Goto, ExchangePlaces, WaitPlaces
  <2>15. ASSUME NEW s \in Senders, ClearWoken(s) PROVE NoStaleReply'
    BY <2>15 DEF ClearWoken, claimVars, Goto, SetCount,
       ExchangePlaces, WaitPlaces
  <2>16. ASSUME NEW s \in Senders, Take(s) PROVE NoStaleReply'
    BY <2>16 DEF Take, Overlooks, claimVars, rxVars, Goto, SetCount,
       ExchangePlaces, WaitPlaces
  <2>17. ASSUME NEW s \in Senders, ZeroSlot(s) PROVE NoStaleReply'
    BY <2>17 DEF ZeroSlot, localVars, claimVars, Goto,
       ExchangePlaces, WaitPlaces
  <2>18. ASSUME NEW s \in Senders, MatchedRelease(s) PROVE NoStaleReply'
    BY <2>18 DEF MatchedRelease, localVars, rxVars, Goto, Release,
       ExchangePlaces, WaitPlaces
  <2>19. ASSUME NEW s \in Senders, ReleaseAgain(s) PROVE NoStaleReply'
    BY <2>19 DEF ReleaseAgain, rxVars, Goto, SetCount, Return,
       Release, ExchangePlaces, WaitPlaces
  <2>20. ASSUME NEW s \in Senders, Finish(s) PROVE NoStaleReply'
    BY <2>20 DEF Finish, rxVars, Goto, SetCount, Return, Release,
       ExchangePlaces, WaitPlaces
  <2>21. ASSUME NEW o \in Ops, RxStore(o) PROVE NoStaleReply'
    BY <2>21 DEF RxStore, localVars, claimVars, sendVars, Awaits,
       Packets
  <2>22. CASE RxSignal
    BY <2>22 DEF RxSignal, localVars, claimVars, sendVars
  <2>23. CASE TxDone
    BY <2>23 DEF TxDone, localVars, claimVars, sendVars
  <2>24. CASE StateNotification
    BY <2>24 DEF StateNotification, localVars, claimVars, sendVars
  <2>25. ASSUME NEW o \in Ops, RxStoreFails(o) PROVE NoStaleReply'
    BY <2>25 DEF RxStoreFails, localVars, claimVars, sendVars
  <2>26. CASE DeferredSignal
    BY <2>26 DEF DeferredSignal, localVars, claimVars, sendVars
  <2>27. CASE ResetCommDataSlots
    BY <2>27 DEF ResetCommDataSlots, localVars, claimVars, sendVars
  <2>28. CASE InitializeEvents
    BY <2>28 DEF InitializeEvents, localVars
  <2>29. CASE UNCHANGED vars
    BY <2>29 DEF vars, localVars, claimVars, rxVars
  <2>30. QED
    BY <2>1, <2>2, <2>3, <2>4, <2>5, <2>6, <2>7, <2>8, <2>9, <2>10, <2>11,
       <2>12, <2>13, <2>14, <2>15, <2>16, <2>17, <2>18, <2>19, <2>20, <2>21,
       <2>22, <2>23, <2>24, <2>25, <2>26, <2>27, <2>28, <2>29
    DEF Next, SendStep, GlinkCallback, Elsewhere
<1>3. QED
  BY <1>1, <1>2, TypeCorrect, PTL DEF Spec
---------------------------------------------------------------------------
(* The exchange implemented.                                               *)

(* A caller that goes on to a place takes its exchange to that stage.      *)
LEMMA StageOfPlace ==
  ASSUME TypeOK, NEW s \in Senders, NEW place \in Places, Goto(s, place)
  PROVE  /\ Stages[s] = Stage(pc[s])
         /\ Stages' = [Stages EXCEPT ![s] = Stage(place)]
BY DEF TypeOK, Goto, Stages

LEMMA BusyIsClaimed ==
  ASSUME TypeOK
  PROVE  Exch!Busy = {s \in Senders : Claimed(s)}
<1>1. ASSUME NEW s \in Senders
      PROVE  Stages[s] \in {"asking", "answered", "over"} <=> Claimed(s)
  BY <1>1 DEF TypeOK, Stages, Stage, Places, Claimed, ClaimedPlaces, ExchangePlaces,
              WaitPlaces
<1>2. QED
  BY <1>1 DEF Exch!Busy

LEMMA AskingCallers == {s \in Senders : Asks(s)} \subseteq Exch!Asking
BY DEF Exch!Asking, Asks, Stages, Stage, WaitPlaces

(* The others that claim beside s are disturbed already, so a release by s *)
(* disturbs nobody else.                                                   *)
LEMMA ReleaseIsOwn ==
  ASSUME TypeOK, ClaimInv, NEW s \in Senders, Claimed(s), Release(s)
  PROVE  disturbed' = disturbed \ {s}
BY DEF ClaimInv, Exclusive, Release

(* Nothing but the caller's place matters while the slots stay.            *)
LEMMA AnswersOfOthers ==
  ASSUME TypeOK, NEW s \in Senders, NEW place \in Places, Goto(s, place),
         UNCHANGED <<op, slot>>
  PROVE  /\ ~Asks(s)' => Answers' = Answers \ {s}
         /\ (Asks(s)' <=> Asks(s)) => Answers' = Answers
BY DEF TypeOK, Goto, Answers, Asks

LEMMA ExchangeStep ==
  TypeOK /\ ClaimInv /\ NoStaleReply /\ [Next]_vars => [Exch!Next]_(Exch!vars)
<1> SUFFICES ASSUME TypeOK, ClaimInv, NoStaleReply, [Next]_vars
             PROVE  Exch!Next \/ UNCHANGED Exch!vars
  OBVIOUS
<1> USE TransportAssumption
<1> DEFINE Idle == Stages' = Stages /\ Answers' = Answers /\ disturbed' = disturbed
<1>i. Idle => UNCHANGED Exch!vars
  BY DEF Exch!vars
(* A step from place to place within a stage, with the slots as they are.  *)
<1>s. ASSUME NEW s \in Senders, NEW place \in Places, Goto(s, place),
             Stage(place) = Stage(pc[s]), Asks(s)' <=> Asks(s),
             UNCHANGED <<op, slot, disturbed>>
      PROVE  Idle
  BY <1>s, StageOfPlace, AnswersOfOthers DEF Stages
<1>p. ASSUME NEW s \in Senders, NEW place, Goto(s, place) PROVE pc'[s] = place
  BY <1>p DEF TypeOK, Goto
<1> HIDE DEF Idle
<1>1. ASSUME NEW s \in Senders, Call(s) PROVE Idle
  <2>1. ~Asks(s)
    BY <1>1 DEF Call, Asks, WaitPlaces
  <2>2. Answers' = Answers
    BY <1>1, <2>1 DEF Call, Goto, TypeOK, rxVars, Answers, Asks, WaitPlaces
  <2>3. Stages' = Stages
    <3>1. Stages[s] = "out" /\ Stages' = [Stages EXCEPT ![s] = "out"]
      BY <1>1, StageOfPlace DEF Call, Stage, Places
    <3>2. QED
      BY <3>1 DEF Stages
  <2>4. QED
    BY <1>1, <2>2, <2>3 DEF Call, claimVars, Idle
<1>2. ASSUME NEW s \in Senders, \/ AcquireTxSync(s) \/ PollGiveUp(s) \/ PollFree(s)
                              \/ Unlock(s) \/ ClearEvents(s) \/ Transmit(s) \/ WakeUp(s)
      PROVE  Idle
  <2>1. PICK place \in Places : /\ Goto(s, place) /\ Stage(place) = Stage(pc[s])
                                /\ place \in WaitPlaces \cup {"transmit"} <=> Asks(s)
    BY <1>2 DEF AcquireTxSync, PollGiveUp, Return, PollFree, Unlock, ClearEvents, Transmit,
                WakeUp, Places, Stage, Asks, WaitPlaces
  <2>2. UNCHANGED <<op, slot, disturbed>>
    BY <1>2 DEF AcquireTxSync, PollGiveUp, Return, PollFree, Unlock, ClearEvents, Transmit,
                WakeUp, localVars, claimVars, rxVars
  <2>3. Asks(s)' <=> Asks(s)
    BY <2>1, <1>p DEF Asks
  <2>4. QED
    BY <1>s, <2>1, <2>2, <2>3
<1>3. ASSUME NEW s \in Senders, PollBusy(s) \/ WaitTimesOut(s) PROVE Idle
  BY <1>3 DEF PollBusy, WaitTimesOut, claimVars, rxVars, Idle, Stages, Answers, Asks
<1>4. ASSUME NEW s \in Senders, Claim(s) PROVE Exch!Begin(s)
  <2>1. Exch!Busy \subseteq disturbed
    BY <1>4, BusyIsClaimed DEF Claim, ClaimInv, CheckedInv, OwnedInv
  <2>2. Stages[s] = "out" /\ Stages' = [Stages EXCEPT ![s] = "asking"]
    BY <1>4, StageOfPlace DEF Claim, Stage, Places
  <2>3. Answers' = Answers
    <3>1. Goto(s, "unlock") /\ UNCHANGED <<op, slot>>
      BY <1>4 DEF Claim, localVars, rxVars
    <3>2. ~Asks(s) /\ ~Asks(s)'
      BY <1>4, <3>1, <1>p DEF Claim, Asks, WaitPlaces
    <3>3. QED
      BY <3>1, <3>2, AnswersOfOthers DEF Places
  <2>4. disturbed' = IF Exch!Busy = {} THEN disturbed ELSE disturbed \cup {s}
    <3>1. ~Claimed(s)
      BY <1>4 DEF Claim, Claimed, ClaimedPlaces, ExchangePlaces, WaitPlaces
    <3>2. Exch!Busy = {} <=> ~\E t \in Senders \ {s} : Claimed(t)
      BY <3>1, BusyIsClaimed
    <3>3. QED
      BY <1>4, <3>2 DEF Claim
  <2>5. QED
    BY <2>1, <2>2, <2>3, <2>4 DEF Exch!Begin, Exch!Turn
<1>5. ASSUME NEW s \in Senders, ClearSlot(s) \/ ZeroSlot(s) PROVE Exch!Lose
  <2>1. PICK place \in Places : /\ Goto(s, place) /\ Stage(place) = Stage(pc[s])
                                /\ place \in {"transmit", "matched"}
    BY <1>5 DEF ClearSlot, ZeroSlot, Places, Stage
  <2>2. slot' = [slot EXCEPT ![op[s]] = NoPacket] /\ UNCHANGED <<op, disturbed>>
    BY <1>5 DEF ClearSlot, ZeroSlot, localVars, claimVars
  <2>3. Stages' = Stages
    BY <2>1, StageOfPlace DEF Stages
  <2>4. Answers' = {t \in Answers : op[t] # op[s]}
    BY <1>5, <2>1, <2>2 DEF ClearSlot, ZeroSlot, Goto, TypeOK, Answers, Asks, WaitPlaces
  <2>5. Answers' = Answers \ {t \in Answers : op[t] = op[s]}
    BY <2>4
  <2>6. QED
    BY <2>2, <2>3, <2>5 DEF Exch!Lose
<1>6. ASSUME NEW s \in Senders, TransmitFails(s) \/ Finish(s) PROVE Exch!End(s)
  <2>1. Goto(s, "idle") /\ Release(s) /\ Claimed(s) /\ UNCHANGED <<op, slot>>
    BY <1>6 DEF TransmitFails, Finish, Return, Claimed, ClaimedPlaces, ExchangePlaces, rxVars
  <2>2. Stages[s] \in {"asking", "over"} /\ Stages' = [Stages EXCEPT ![s] = "out"]
    BY <1>6, <2>1, StageOfPlace DEF TransmitFails, Finish, Stage, Places
  <2>3. ~Asks(s)'
    BY <2>1, <1>p DEF Asks, WaitPlaces
  <2>4. QED
    BY <2>1, <2>2, <2>3, ReleaseIsOwn, AnswersOfOthers DEF Exch!End, Exch!Turn, Places
<1>7. ASSUME NEW s \in Senders, Goto(s, "finish"), Asks(s), UNCHANGED <<op, slot, disturbed>>
      PROVE  Exch!GiveUp(s)
  <2>1. Stages[s] = "asking" /\ Stages' = [Stages EXCEPT ![s] = "over"]
    BY <1>7, StageOfPlace DEF Asks, Stage, Places, WaitPlaces
  <2>2. ~Asks(s)'
    BY <1>7, <1>p DEF Asks, WaitPlaces
  <2>3. QED
    BY <1>7, <2>1, <2>2, AnswersOfOthers DEF Exch!GiveUp, Exch!Turn, Places
<1>8. ASSUME NEW s \in Senders, WaitsExhausted(s) PROVE Exch!GiveUp(s)
  BY <1>7, <1>8 DEF WaitsExhausted, Asks, WaitPlaces, localVars, claimVars, rxVars
<1>9. ASSUME NEW s \in Senders, ClearWoken(s) PROVE Idle \/ Exch!GiveUp(s)
  <2>1. Asks(s) /\ UNCHANGED <<op, slot, disturbed>>
    BY <1>9 DEF ClearWoken, Asks, WaitPlaces, claimVars
  <2>2. CASE Goto(s, "finish")
    BY <1>7, <2>1, <2>2
  <2>3. ASSUME NEW place \in {"take", "wait"}, Goto(s, place) PROVE Idle
    <3>1. place \in Places /\ Stage(place) = Stage(pc[s])
      BY <2>1 DEF Asks, Stage, Places, WaitPlaces
    <3>2. Asks(s)'
      BY <2>3, <1>p DEF Asks, WaitPlaces
    <3>3. QED
      BY <1>s, <2>1, <2>3, <3>1, <3>2
  <2>4. QED
    BY <1>9, <2>2, <2>3 DEF ClearWoken
<1>10. ASSUME NEW s \in Senders, Take(s) PROVE Idle \/ Exch!Answer(s)
  <2>1. pc[s] = "take" /\ Asks(s) /\ UNCHANGED <<op, slot, disturbed>>
    BY <1>10 DEF Take, Asks, WaitPlaces, claimVars, rxVars
  <2>2. CASE Goto(s, "wait")
    <3>1. Asks(s)' /\ Stage("wait") = Stage(pc[s]) /\ "wait" \in Places
      BY <2>1, <2>2, <1>p DEF Asks, WaitPlaces, Stage, Places
    <3>2. QED
      BY <1>s, <2>1, <2>2, <3>1
  <2>3. CASE slot[op[s]] # NoPacket /\ Goto(s, "zero")
    <3>1. s \in Answers
      BY <2>1, <2>3 DEF NoStaleReply, ExchangePlaces, WaitPlaces, Answers
    <3>2. Stages[s] = "asking" /\ Stages' = [Stages EXCEPT ![s] = "answered"]
      BY <2>1, <2>3, StageOfPlace DEF Stage, Places
    <3>3. ~Asks(s)'
      BY <2>3, <1>p DEF Asks, WaitPlaces
    <3>4. QED
      BY <2>1, <2>3, <3>1, <3>2, <3>3, AnswersOfOthers DEF Exch!Answer, Exch!Turn, Places
  <2>4. QED
    BY <1>10, <2>2, <2>3 DEF Take
<1>11. ASSUME NEW s \in Senders, MatchedRelease(s) PROVE Exch!Release(s)
  <2>1. Goto(s, "again") /\ Release(s) /\ Claimed(s) /\ UNCHANGED <<op, slot>>
    BY <1>11 DEF MatchedRelease, Claimed, ClaimedPlaces, ExchangePlaces, localVars, rxVars
  <2>2. Stages[s] = "answered" /\ Stages' = [Stages EXCEPT ![s] = "leaving"]
    BY <1>11, <2>1, StageOfPlace DEF MatchedRelease, Stage, Places
  <2>3. ~Asks(s) /\ ~Asks(s)'
    BY <1>11, <2>1, <1>p DEF MatchedRelease, Asks, WaitPlaces
  <2>4. QED
    BY <2>1, <2>2, <2>3, ReleaseIsOwn, AnswersOfOthers DEF Exch!Release, Exch!Turn, Places
<1>12. ASSUME NEW s \in Senders, ReleaseAgain(s) PROVE Exch!Leave(s)
  <2>1. Goto(s, "idle") /\ Release(s) /\ ~Claimed(s) /\ UNCHANGED <<op, slot>>
    BY <1>12 DEF ReleaseAgain, Return, Claimed, ClaimedPlaces, ExchangePlaces, WaitPlaces,
                 rxVars
  <2>2. Stages[s] = "leaving" /\ Stages' = [Stages EXCEPT ![s] = "out"]
    BY <1>12, <2>1, StageOfPlace DEF ReleaseAgain, Stage, Places
  <2>3. ~Asks(s) /\ ~Asks(s)'
    BY <1>12, <2>1, <1>p DEF ReleaseAgain, Asks, WaitPlaces
  <2>4. disturbed' = disturbed \cup Exch!Busy
    BY <2>1, BusyIsClaimed DEF Release, ClaimInv, OwnedInv
  <2>5. QED
    BY <2>1, <2>2, <2>3, <2>4, AnswersOfOthers DEF Exch!Leave, Exch!Turn, Places
<1>13. ASSUME NEW o \in Ops, RxStore(o) PROVE Exch!Arrive
  <2> DEFINE S == {s \in Senders : Asks(s) /\ op[s] = o}
  <2>1. S \in SUBSET Exch!Asking
    BY AskingCallers
  <2>2. Answers' = Answers \cup S
    BY <1>13 DEF RxStore, sendVars, localVars, TypeOK, Packets, Awaits, ExchangePlaces,
                 Asks, Answers
  <2>3. Stages' = Stages /\ disturbed' = disturbed
    BY <1>13 DEF RxStore, sendVars, claimVars, Stages
  <2>4. QED
    BY <2>1, <2>2, <2>3 DEF Exch!Arrive
<1>14. ASSUME NEW o \in Ops, RxStoreFails(o) PROVE Exch!Lose
  <2>1. UNCHANGED <<pc, op, disturbed>> /\ slot' = [slot EXCEPT ![o] = NoPacket]
    BY <1>14 DEF RxStoreFails, sendVars, localVars, claimVars
  <2>2. Answers' = Answers \ {t \in Answers : op[t] = o}
    BY <2>1 DEF TypeOK, Answers, Asks
  <2>3. Stages' = Stages
    BY <2>1 DEF Stages
  <2>4. QED
    BY <2>1, <2>2, <2>3 DEF Exch!Lose
<1>15. ASSUME ResetCommDataSlots PROVE Exch!Lose
  <2>1. UNCHANGED <<pc, op, disturbed>> /\ slot' = [o \in Ops |-> NoPacket]
    BY <1>15 DEF ResetCommDataSlots, sendVars, localVars, claimVars
  <2>2. Answers' = Answers \ {t \in Answers : op[t] \in Ops}
    BY <2>1 DEF TypeOK, Answers
  <2>3. Stages' = Stages
    BY <2>1 DEF Stages
  <2>4. QED
    BY <2>1, <2>2, <2>3 DEF Exch!Lose
<1>16. CASE \/ RxSignal \/ DeferredSignal \/ TxDone \/ StateNotification
            \/ InitializeEvents \/ UNCHANGED vars
  <2>1. UNCHANGED <<pc, op, slot, disturbed>>
    BY <1>16 DEF RxSignal, DeferredSignal, TxDone, StateNotification, InitializeEvents,
                 sendVars, vars, localVars, claimVars, rxVars
  <2>2. QED
    BY <2>1, <1>i DEF Idle, Stages, Answers, Asks
<1> QED
  BY <1>i, <1>1, <1>2, <1>3, <1>4, <1>5, <1>6, <1>8, <1>9, <1>10, <1>11, <1>12, <1>13, <1>14,
     <1>15, <1>16
    DEF Next, SendStep, GlinkCallback, Elsewhere, Exch!Next

(* PmicGlink_SendData implements the exchange: one at a time, answered by  *)
(* a packet of its own time, until a second release takes a claim away.    *)
THEOREM ExchangeRefinement == Spec => RefinesExchange
<1>1. Init => Exch!Init
  BY DEF Init, Exch!Init, Stages, Stage, Answers, Asks, WaitPlaces
<1>2. QED
  BY <1>1, ExchangeStep, TypeCorrect, ClaimCorrect, NoStaleReplyCorrect, PTL
    DEF Spec, RefinesExchange, Exch!Spec
=============================================================================
