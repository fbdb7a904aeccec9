---------------------------- MODULE Battery_proofs ----------------------------
(***************************************************************************)
(* The battery: what BattMini checks for a bounded number of boot-refresh  *)
(* work items, for any number of them, and what BatteryGauge checks for    *)
(* values around the limits of the conversions, for any values the         *)
(* firmware may send.                                                      *)
(***************************************************************************)
EXTENDS BattMini, BatteryGauge, TLAPS

USE BattMiniAssumption

---------------------------------------------------------------------------
(* Type correctness and the lock.                                          *)

TypeInv ==
  /\ pc \in [Threads -> Places]
  /\ loaded \in BOOLEAN /\ target \in {"none", "closed", "open"}
  /\ go \in BOOLEAN /\ timer \in {"none", "stopped", "armed"}
  /\ boots \in Nat
  /\ connected \in BOOLEAN /\ hibernate \in BOOLEAN
  /\ crowd \subseteq Threads /\ hit \subseteq Threads

LockInv == \A t, u \in Threads : pc[t] \in Locking /\ pc[u] \in Locking => t = u

LEMMA TypeParts == TypeOK <=> TypeInv /\ LockInv
BY DEF TypeOK, TypeInv, LockInv

LEMMA TypeStep == TypeInv /\ [Next]_vars => TypeInv'
<1> SUFFICES ASSUME TypeInv, [Next]_vars PROVE TypeInv'
  OBVIOUS
<1> USE DEF TypeInv, Places, Openers,
        Threads, Attachers, Notifiers, Opening, Locking,
        attachVars, notifyVars, linkVars, vars, Goto
<1>1. ASSUME NEW t \in Attachers, AttachSkipped(t) PROVE TypeInv'
  BY <1>1 DEF AttachSkipped, Attached
<1>2. ASSUME NEW t \in Attachers, AttachBegins(t) PROVE TypeInv'
  BY <1>2 DEF AttachBegins, NoteOpening
<1>3. ASSUME NEW t \in Attachers, AttachOpen(t) PROVE TypeInv'
  BY <1>3 DEF AttachOpen
<1>4. ASSUME NEW t \in Attachers, AttachProbe(t) PROVE TypeInv'
  BY <1>4 DEF AttachProbe
<1>5. ASSUME NEW t \in Attachers, AttachClose(t) PROVE TypeInv'
  BY <1>5 DEF AttachClose, Closed
<1>6. ASSUME NEW t \in Attachers, AttachStore(t) PROVE TypeInv'
  BY <1>6 DEF AttachStore, Attached, StartTimer
<1>7. ASSUME NEW t \in Attachers, AttachFails(t) PROVE TypeInv'
  BY <1>7 DEF AttachFails, Attached, Closed
<1>8. ASSUME NEW t \in Notifiers, Ping(t) PROVE TypeInv'
  BY <1>8 DEF Ping
<1>9. ASSUME NEW t \in Notifiers, LookAtGo(t) PROVE TypeInv'
  BY <1>9 DEF LookAtGo, Notified
<1>10. ASSUME NEW t \in Notifiers, Acquire(t) PROVE TypeInv'
  BY <1>10 DEF Acquire, Unlocked, Notified
<1>11. ASSUME NEW t \in Notifiers, SendPresence(t) PROVE TypeInv'
  BY <1>11 DEF SendPresence, Notified, ResetGo
<1>12. ASSUME NEW t \in Notifiers, SendStatus(t) PROVE TypeInv'
  BY <1>12 DEF SendStatus, Notified, ResetGo
<1>13. ASSUME PnpArrival PROVE TypeInv'
  BY <1>13 DEF PnpArrival, NoteOpening, Unlocked
<1>14. ASSUME PnpStore PROVE TypeInv'
  <2>1. boots' \in Nat
    BY <1>14, boots \in Nat, MaxBoots \in Nat DEF PnpStore
  <2>4. timer' \in {"none", "stopped", "armed"}
    BY <1>14 DEF PnpStore, StartTimer
  <2>2. pc' \in [Threads -> Places] /\ loaded' \in BOOLEAN /\ crowd' \subseteq Threads
    BY <1>14 DEF PnpStore
  <2>3. QED
    BY <2>1, <2>2, <2>4, <1>14 DEF PnpStore
<1>15. ASSUME NEW t \in {"queue", "pnp"}, Detach(t) PROVE TypeInv'
  BY <1>15 DEF Detach, Closed, NoteLoss, Unlocked
<1>16. ASSUME QueueRequest PROVE TypeInv'
  BY <1>16 DEF QueueRequest
<1>17. ASSUME NotificationArrives PROVE TypeInv'
  BY <1>17 DEF NotificationArrives
<1>18. ASSUME TimerFires PROVE TypeInv'
  BY <1>18 DEF TimerFires, StopTimer
<1>19. ASSUME Rearm PROVE TypeInv'
  BY <1>19 DEF Rearm, StartTimer
<1>20. ASSUME BootBegins PROVE TypeInv'
  BY <1>20 DEF BootBegins
<1>21. ASSUME ChannelConnected PROVE TypeInv'
  BY <1>21 DEF ChannelConnected
<1>22. ASSUME ChannelStarts PROVE TypeInv'
  BY <1>22 DEF ChannelStarts, StartTimer
<1>23. ASSUME ChannelDisconnected PROVE TypeInv'
  BY <1>23 DEF ChannelDisconnected, StopTimer
<1>24. ASSUME D0Exit PROVE TypeInv'
  BY <1>24 DEF D0Exit
<1>25. ASSUME D0ExitStop PROVE TypeInv'
  BY <1>25 DEF D0ExitStop, StopTimer
<1>26. ASSUME D0ExitDisconnect PROVE TypeInv'
  BY <1>26 DEF D0ExitDisconnect, StopTimer
<1>27. ASSUME D0ExitClear PROVE TypeInv'
  BY <1>27 DEF D0ExitClear
<1>28. ASSUME D0Entry PROVE TypeInv'
  BY <1>28 DEF D0Entry
<1>29. ASSUME D0EntryStart PROVE TypeInv'
  BY <1>29 DEF D0EntryStart, StartTimer
<1>30. ASSUME UNCHANGED vars PROVE TypeInv'
  BY <1>30 DEF vars
<1> QED
  BY <1>1, <1>2, <1>3, <1>4, <1>5, <1>6, <1>7, <1>8, <1>9, <1>10, <1>11,
     <1>12, <1>13, <1>14, <1>15, <1>16, <1>17, <1>18, <1>19, <1>20, <1>21,
     <1>22, <1>23, <1>24, <1>25, <1>26, <1>27, <1>28, <1>29, <1>30
    DEF Next, AttachStep, NotifyStep, PnpStep, SourceStep, ChannelStep,
       PowerStep

LEMMA LockStep == TypeInv /\ LockInv /\ [Next]_vars => LockInv'
<1> SUFFICES ASSUME TypeInv, LockInv, [Next]_vars PROVE LockInv'
  OBVIOUS
<1> USE DEF TypeInv, LockInv,
        Threads, Attachers, Notifiers, Opening, Locking,
        attachVars, notifyVars, linkVars, vars, Goto
<1>1. ASSUME NEW t \in Attachers, AttachSkipped(t) PROVE LockInv'
  BY <1>1 DEF AttachSkipped, Attached
<1>2. ASSUME NEW t \in Attachers, AttachBegins(t) PROVE LockInv'
  BY <1>2 DEF AttachBegins, NoteOpening
<1>3. ASSUME NEW t \in Attachers, AttachOpen(t) PROVE LockInv'
  BY <1>3 DEF AttachOpen
<1>4. ASSUME NEW t \in Attachers, AttachProbe(t) PROVE LockInv'
  BY <1>4 DEF AttachProbe
<1>5. ASSUME NEW t \in Attachers, AttachClose(t) PROVE LockInv'
  BY <1>5 DEF AttachClose, Closed
<1>6. ASSUME NEW t \in Attachers, AttachStore(t) PROVE LockInv'
  BY <1>6 DEF AttachStore, Attached, StartTimer
<1>7. ASSUME NEW t \in Attachers, AttachFails(t) PROVE LockInv'
  BY <1>7 DEF AttachFails, Attached, Closed
<1>8. ASSUME NEW t \in Notifiers, Ping(t) PROVE LockInv'
  BY <1>8 DEF Ping
<1>9. ASSUME NEW t \in Notifiers, LookAtGo(t) PROVE LockInv'
  BY <1>9 DEF LookAtGo, Notified
<1>10. ASSUME NEW t \in Notifiers, Acquire(t) PROVE LockInv'
  BY <1>10 DEF Acquire, Unlocked, Notified
<1>11. ASSUME NEW t \in Notifiers, SendPresence(t) PROVE LockInv'
  BY <1>11 DEF SendPresence, Notified, ResetGo
<1>12. ASSUME NEW t \in Notifiers, SendStatus(t) PROVE LockInv'
  BY <1>12 DEF SendStatus, Notified, ResetGo
<1>13. ASSUME PnpArrival PROVE LockInv'
  BY <1>13 DEF PnpArrival, NoteOpening, Unlocked
<1>14. ASSUME PnpStore PROVE LockInv'
  BY <1>14 DEF PnpStore, StartTimer
<1>15. ASSUME NEW t \in {"queue", "pnp"}, Detach(t) PROVE LockInv'
  BY <1>15 DEF Detach, Closed, NoteLoss, Unlocked
<1>16. ASSUME QueueRequest PROVE LockInv'
  BY <1>16 DEF QueueRequest
<1>17. ASSUME NotificationArrives PROVE LockInv'
  BY <1>17 DEF NotificationArrives
<1>18. ASSUME TimerFires PROVE LockInv'
  BY <1>18 DEF TimerFires, StopTimer
<1>19. ASSUME Rearm PROVE LockInv'
  BY <1>19 DEF Rearm, StartTimer
<1>20. ASSUME BootBegins PROVE LockInv'
  BY <1>20 DEF BootBegins
<1>21. ASSUME ChannelConnected PROVE LockInv'
  BY <1>21 DEF ChannelConnected
<1>22. ASSUME ChannelStarts PROVE LockInv'
  BY <1>22 DEF ChannelStarts, StartTimer
<1>23. ASSUME ChannelDisconnected PROVE LockInv'
  BY <1>23 DEF ChannelDisconnected, StopTimer
<1>24. ASSUME D0Exit PROVE LockInv'
  BY <1>24 DEF D0Exit
<1>25. ASSUME D0ExitStop PROVE LockInv'
  BY <1>25 DEF D0ExitStop, StopTimer
<1>26. ASSUME D0ExitDisconnect PROVE LockInv'
  BY <1>26 DEF D0ExitDisconnect, StopTimer
<1>27. ASSUME D0ExitClear PROVE LockInv'
  BY <1>27 DEF D0ExitClear
<1>28. ASSUME D0Entry PROVE LockInv'
  BY <1>28 DEF D0Entry
<1>29. ASSUME D0EntryStart PROVE LockInv'
  BY <1>29 DEF D0EntryStart, StartTimer
<1>30. ASSUME UNCHANGED vars PROVE LockInv'
  BY <1>30 DEF vars
<1> QED
  BY <1>1, <1>2, <1>3, <1>4, <1>5, <1>6, <1>7, <1>8, <1>9, <1>10, <1>11,
     <1>12, <1>13, <1>14, <1>15, <1>16, <1>17, <1>18, <1>19, <1>20, <1>21,
     <1>22, <1>23, <1>24, <1>25, <1>26, <1>27, <1>28, <1>29, <1>30
    DEF Next, AttachStep, NotifyStep, PnpStep, SourceStep, ChannelStep,
       PowerStep

(* The lock is held by one thread at most, whatever attaches without it.   *)
THEOREM TypeCorrect == Spec => []TypeOK
<1>1. Init => TypeInv /\ LockInv
  <2> SUFFICES ASSUME Init PROVE TypeInv /\ LockInv
    OBVIOUS
  <2>1. TypeInv
    BY DEF Init, TypeInv, Places
  <2>2. LockInv
    BY DEF Init, LockInv, Locking
  <2>3. QED
    BY <2>1, <2>2
<1>2. TypeInv /\ LockInv => TypeOK
  BY TypeParts
<1>3. QED
  BY <1>1, <1>2, TypeStep, LockStep, PTL DEF Spec

---------------------------------------------------------------------------
(* The attachment.                                                         *)

(* A thread that is opening the target and is not crowded is the only one  *)
(* that opens it; nobody has marked the miniclass as loaded meanwhile, and *)
(* the target it has opened is still open.                                 *)
AloneInv ==
  \A t \in Openers \ crowd :
    /\ ~loaded
    /\ Openers = {t}
    /\ pc[t] \in {"probe", "store", "arrived"} => target = "open"

LEMMA AloneStep == TypeOK /\ AloneInv /\ [Next]_vars => AloneInv'
<1> SUFFICES ASSUME TypeOK, AloneInv, [Next]_vars PROVE AloneInv'
  OBVIOUS
<1> USE DEF TypeOK, AloneInv, Openers,
        Threads, Attachers, Notifiers, Opening, Locking,
        attachVars, notifyVars, linkVars, vars, Goto
<1>1. ASSUME NEW t \in Attachers, AttachSkipped(t) PROVE AloneInv'
  BY <1>1 DEF AttachSkipped, Attached
<1>2. ASSUME NEW t \in Attachers, AttachBegins(t) PROVE AloneInv'
  BY <1>2 DEF AttachBegins, NoteOpening
<1>3. ASSUME NEW t \in Attachers, AttachOpen(t) PROVE AloneInv'
  BY <1>3 DEF AttachOpen
<1>4. ASSUME NEW t \in Attachers, AttachProbe(t) PROVE AloneInv'
  BY <1>4 DEF AttachProbe
<1>5. ASSUME NEW t \in Attachers, AttachClose(t) PROVE AloneInv'
  BY <1>5 DEF AttachClose, Closed
<1>6. ASSUME NEW t \in Attachers, AttachStore(t) PROVE AloneInv'
  BY <1>6 DEF AttachStore, Attached, StartTimer
<1>7. ASSUME NEW t \in Attachers, AttachFails(t) PROVE AloneInv'
  BY <1>7 DEF AttachFails, Attached, Closed
<1>8. ASSUME NEW t \in Notifiers, Ping(t) PROVE AloneInv'
  BY <1>8 DEF Ping
<1>9. ASSUME NEW t \in Notifiers, LookAtGo(t) PROVE AloneInv'
  BY <1>9 DEF LookAtGo, Notified
<1>10. ASSUME NEW t \in Notifiers, Acquire(t) PROVE AloneInv'
  BY <1>10 DEF Acquire, Unlocked, Notified
<1>11. ASSUME NEW t \in Notifiers, SendPresence(t) PROVE AloneInv'
  BY <1>11 DEF SendPresence, Notified, ResetGo
<1>12. ASSUME NEW t \in Notifiers, SendStatus(t) PROVE AloneInv'
  BY <1>12 DEF SendStatus, Notified, ResetGo
<1>13. ASSUME PnpArrival PROVE AloneInv'
  BY <1>13 DEF PnpArrival, NoteOpening, Unlocked
<1>14. ASSUME PnpStore PROVE AloneInv'
  BY <1>14 DEF PnpStore, StartTimer
<1>15. ASSUME NEW t \in {"queue", "pnp"}, Detach(t) PROVE AloneInv'
  BY <1>15 DEF Detach, Closed, NoteLoss, Unlocked
<1>16. ASSUME QueueRequest PROVE AloneInv'
  BY <1>16 DEF QueueRequest
<1>17. ASSUME NotificationArrives PROVE AloneInv'
  BY <1>17 DEF NotificationArrives
<1>18. ASSUME TimerFires PROVE AloneInv'
  BY <1>18 DEF TimerFires, StopTimer
<1>19. ASSUME Rearm PROVE AloneInv'
  BY <1>19 DEF Rearm, StartTimer
<1>20. ASSUME BootBegins PROVE AloneInv'
  BY <1>20 DEF BootBegins
<1>21. ASSUME ChannelConnected PROVE AloneInv'
  BY <1>21 DEF ChannelConnected
<1>22. ASSUME ChannelStarts PROVE AloneInv'
  BY <1>22 DEF ChannelStarts, StartTimer
<1>23. ASSUME ChannelDisconnected PROVE AloneInv'
  BY <1>23 DEF ChannelDisconnected, StopTimer
<1>24. ASSUME D0Exit PROVE AloneInv'
  BY <1>24 DEF D0Exit
<1>25. ASSUME D0ExitStop PROVE AloneInv'
  BY <1>25 DEF D0ExitStop, StopTimer
<1>26. ASSUME D0ExitDisconnect PROVE AloneInv'
  BY <1>26 DEF D0ExitDisconnect, StopTimer
<1>27. ASSUME D0ExitClear PROVE AloneInv'
  BY <1>27 DEF D0ExitClear
<1>28. ASSUME D0Entry PROVE AloneInv'
  BY <1>28 DEF D0Entry
<1>29. ASSUME D0EntryStart PROVE AloneInv'
  BY <1>29 DEF D0EntryStart, StartTimer
<1>30. ASSUME UNCHANGED vars PROVE AloneInv'
  BY <1>30 DEF vars
<1> QED
  BY <1>1, <1>2, <1>3, <1>4, <1>5, <1>6, <1>7, <1>8, <1>9, <1>10, <1>11,
     <1>12, <1>13, <1>14, <1>15, <1>16, <1>17, <1>18, <1>19, <1>20, <1>21,
     <1>22, <1>23, <1>24, <1>25, <1>26, <1>27, <1>28, <1>29, <1>30
    DEF Next, AttachStep, NotifyStep, PnpStep, SourceStep, ChannelStep,
       PowerStep

THEOREM AloneCorrect == Spec => []AloneInv
<1>1. Init => AloneInv
  BY DEF Init, AloneInv, Openers, Opening
<1>2. QED
  BY <1>1, TypeCorrect, AloneStep, PTL DEF Spec

(* A step that leaves the miniclass loaded with a target that is not open. *)
Breaks == (loaded => target = "open") /\ ~(loaded' => target' = "open")
Crowded == \E t \in crowd : pc'[t] # pc[t]

LEMMA BreakStep == TypeOK /\ AloneInv /\ [Next]_vars => (Breaks => Crowded)
<1> SUFFICES ASSUME TypeOK, AloneInv, [Next]_vars, Breaks PROVE Crowded
  OBVIOUS
<1> USE DEF TypeOK, AloneInv, Openers, Breaks, Crowded,
        Threads, Attachers, Notifiers, Opening, Locking,
        attachVars, notifyVars, linkVars, vars, Goto
<1>1. ASSUME NEW t \in Attachers, AttachSkipped(t) PROVE Crowded
  BY <1>1 DEF AttachSkipped, Attached
<1>2. ASSUME NEW t \in Attachers, AttachBegins(t) PROVE Crowded
  BY <1>2 DEF AttachBegins, NoteOpening
<1>3. ASSUME NEW t \in Attachers, AttachOpen(t) PROVE Crowded
  BY <1>3 DEF AttachOpen
<1>4. ASSUME NEW t \in Attachers, AttachProbe(t) PROVE Crowded
  BY <1>4 DEF AttachProbe
<1>5. ASSUME NEW t \in Attachers, AttachClose(t) PROVE Crowded
  BY <1>5 DEF AttachClose, Closed
<1>6. ASSUME NEW t \in Attachers, AttachStore(t) PROVE Crowded
  BY <1>6 DEF AttachStore, Attached, StartTimer
<1>7. ASSUME NEW t \in Attachers, AttachFails(t) PROVE Crowded
  BY <1>7 DEF AttachFails, Attached, Closed
<1>8. ASSUME NEW t \in Notifiers, Ping(t) PROVE Crowded
  BY <1>8 DEF Ping
<1>9. ASSUME NEW t \in Notifiers, LookAtGo(t) PROVE Crowded
  BY <1>9 DEF LookAtGo, Notified
<1>10. ASSUME NEW t \in Notifiers, Acquire(t) PROVE Crowded
  BY <1>10 DEF Acquire, Unlocked, Notified
<1>11. ASSUME NEW t \in Notifiers, SendPresence(t) PROVE Crowded
  BY <1>11 DEF SendPresence, Notified, ResetGo
<1>12. ASSUME NEW t \in Notifiers, SendStatus(t) PROVE Crowded
  BY <1>12 DEF SendStatus, Notified, ResetGo
<1>13. ASSUME PnpArrival PROVE Crowded
  BY <1>13 DEF PnpArrival, NoteOpening, Unlocked
<1>14. ASSUME PnpStore PROVE Crowded
  BY <1>14 DEF PnpStore, StartTimer
<1>15. ASSUME NEW t \in {"queue", "pnp"}, Detach(t) PROVE Crowded
  BY <1>15 DEF Detach, Closed, NoteLoss, Unlocked
<1>16. ASSUME QueueRequest PROVE Crowded
  BY <1>16 DEF QueueRequest
<1>17. ASSUME NotificationArrives PROVE Crowded
  BY <1>17 DEF NotificationArrives
<1>18. ASSUME TimerFires PROVE Crowded
  BY <1>18 DEF TimerFires, StopTimer
<1>19. ASSUME Rearm PROVE Crowded
  BY <1>19 DEF Rearm, StartTimer
<1>20. ASSUME BootBegins PROVE Crowded
  BY <1>20 DEF BootBegins
<1>21. ASSUME ChannelConnected PROVE Crowded
  BY <1>21 DEF ChannelConnected
<1>22. ASSUME ChannelStarts PROVE Crowded
  BY <1>22 DEF ChannelStarts, StartTimer
<1>23. ASSUME ChannelDisconnected PROVE Crowded
  BY <1>23 DEF ChannelDisconnected, StopTimer
<1>24. ASSUME D0Exit PROVE Crowded
  BY <1>24 DEF D0Exit
<1>25. ASSUME D0ExitStop PROVE Crowded
  BY <1>25 DEF D0ExitStop, StopTimer
<1>26. ASSUME D0ExitDisconnect PROVE Crowded
  BY <1>26 DEF D0ExitDisconnect, StopTimer
<1>27. ASSUME D0ExitClear PROVE Crowded
  BY <1>27 DEF D0ExitClear
<1>28. ASSUME D0Entry PROVE Crowded
  BY <1>28 DEF D0Entry
<1>29. ASSUME D0EntryStart PROVE Crowded
  BY <1>29 DEF D0EntryStart, StartTimer
<1>30. ASSUME UNCHANGED vars PROVE Crowded
  BY <1>30 DEF vars
<1> QED
  BY <1>1, <1>2, <1>3, <1>4, <1>5, <1>6, <1>7, <1>8, <1>9, <1>10, <1>11,
     <1>12, <1>13, <1>14, <1>15, <1>16, <1>17, <1>18, <1>19, <1>20, <1>21,
     <1>22, <1>23, <1>24, <1>25, <1>26, <1>27, <1>28, <1>29, <1>30
    DEF Next, AttachStep, NotifyStep, PnpStep, SourceStep, ChannelStep,
       PowerStep

(* Only a crowded opener breaks the attachment, for any number of boots.   *)
THEOREM OnlyCrowdedOpensBreakCorrect == Spec => OnlyCrowdedOpensBreak
<1>1. TypeOK /\ AloneInv /\ [Next]_vars =>
        [(loaded => target = "open") /\ ~(loaded' => target' = "open") =>
           \E t \in crowd : pc'[t] # pc[t]]_vars
  BY BreakStep DEF Breaks, Crowded
<1>2. QED
  BY <1>1, TypeCorrect, AloneCorrect, PTL DEF Spec, OnlyCrowdedOpensBreak

(* Where no opens overlap the target of a loaded miniclass is open, always *)
(* (battery.c), whatever notifications, detachments and failures come.     *)
THEOREM LoadedIsOpenUncrowded ==
  Spec /\ [](crowd = {}) => [](loaded => target = "open")
<1>1. Init => (loaded => target = "open")
  BY DEF Init
<1>2. TypeOK /\ AloneInv /\ [Next]_vars /\ crowd = {} /\ (loaded => target = "open")
        => (loaded => target = "open")'
  BY BreakStep DEF Breaks, Crowded
<1>3. QED
  BY <1>1, <1>2, TypeCorrect, AloneCorrect, PTL DEF Spec

---------------------------------------------------------------------------
(* Notifications and the timer.                                            *)

LEMMA DropStep == TypeOK /\ DropNeedsOverlap /\ [Next]_vars => DropNeedsOverlap'
<1> SUFFICES ASSUME TypeOK, DropNeedsOverlap, [Next]_vars PROVE DropNeedsOverlap'
  OBVIOUS
<1> USE DEF TypeOK, DropNeedsOverlap,
        Threads, Attachers, Notifiers, Opening, Locking,
        attachVars, notifyVars, linkVars, vars, Goto
<1>1. ASSUME NEW t \in Attachers, AttachSkipped(t) PROVE DropNeedsOverlap'
  BY <1>1 DEF AttachSkipped, Attached
<1>2. ASSUME NEW t \in Attachers, AttachBegins(t) PROVE DropNeedsOverlap'
  BY <1>2 DEF AttachBegins, NoteOpening
<1>3. ASSUME NEW t \in Attachers, AttachOpen(t) PROVE DropNeedsOverlap'
  BY <1>3 DEF AttachOpen
<1>4. ASSUME NEW t \in Attachers, AttachProbe(t) PROVE DropNeedsOverlap'
  BY <1>4 DEF AttachProbe
<1>5. ASSUME NEW t \in Attachers, AttachClose(t) PROVE DropNeedsOverlap'
  BY <1>5 DEF AttachClose, Closed
<1>6. ASSUME NEW t \in Attachers, AttachStore(t) PROVE DropNeedsOverlap'
  BY <1>6 DEF AttachStore, Attached, StartTimer
<1>7. ASSUME NEW t \in Attachers, AttachFails(t) PROVE DropNeedsOverlap'
  BY <1>7 DEF AttachFails, Attached, Closed
<1>8. ASSUME NEW t \in Notifiers, Ping(t) PROVE DropNeedsOverlap'
  BY <1>8 DEF Ping
<1>9. ASSUME NEW t \in Notifiers, LookAtGo(t) PROVE DropNeedsOverlap'
  BY <1>9 DEF LookAtGo, Notified
<1>10. ASSUME NEW t \in Notifiers, Acquire(t) PROVE DropNeedsOverlap'
  BY <1>10 DEF Acquire, Unlocked, Notified
<1>11. ASSUME NEW t \in Notifiers, SendPresence(t) PROVE DropNeedsOverlap'
  BY <1>11 DEF SendPresence, Notified, ResetGo
<1>12. ASSUME NEW t \in Notifiers, SendStatus(t) PROVE DropNeedsOverlap'
  BY <1>12 DEF SendStatus, Notified, ResetGo
<1>13. ASSUME PnpArrival PROVE DropNeedsOverlap'
  BY <1>13 DEF PnpArrival, NoteOpening, Unlocked
<1>14. ASSUME PnpStore PROVE DropNeedsOverlap'
  BY <1>14 DEF PnpStore, StartTimer
<1>15. ASSUME NEW t \in {"queue", "pnp"}, Detach(t) PROVE DropNeedsOverlap'
  BY <1>15 DEF Detach, Closed, NoteLoss, Unlocked
<1>16. ASSUME QueueRequest PROVE DropNeedsOverlap'
  BY <1>16 DEF QueueRequest
<1>17. ASSUME NotificationArrives PROVE DropNeedsOverlap'
  BY <1>17 DEF NotificationArrives
<1>18. ASSUME TimerFires PROVE DropNeedsOverlap'
  BY <1>18 DEF TimerFires, StopTimer
<1>19. ASSUME Rearm PROVE DropNeedsOverlap'
  BY <1>19 DEF Rearm, StartTimer
<1>20. ASSUME BootBegins PROVE DropNeedsOverlap'
  BY <1>20 DEF BootBegins
<1>21. ASSUME ChannelConnected PROVE DropNeedsOverlap'
  BY <1>21 DEF ChannelConnected
<1>22. ASSUME ChannelStarts PROVE DropNeedsOverlap'
  BY <1>22 DEF ChannelStarts, StartTimer
<1>23. ASSUME ChannelDisconnected PROVE DropNeedsOverlap'
  BY <1>23 DEF ChannelDisconnected, StopTimer
<1>24. ASSUME D0Exit PROVE DropNeedsOverlap'
  BY <1>24 DEF D0Exit
<1>25. ASSUME D0ExitStop PROVE DropNeedsOverlap'
  BY <1>25 DEF D0ExitStop, StopTimer
<1>26. ASSUME D0ExitDisconnect PROVE DropNeedsOverlap'
  BY <1>26 DEF D0ExitDisconnect, StopTimer
<1>27. ASSUME D0ExitClear PROVE DropNeedsOverlap'
  BY <1>27 DEF D0ExitClear
<1>28. ASSUME D0Entry PROVE DropNeedsOverlap'
  BY <1>28 DEF D0Entry
<1>29. ASSUME D0EntryStart PROVE DropNeedsOverlap'
  BY <1>29 DEF D0EntryStart, StartTimer
<1>30. ASSUME UNCHANGED vars PROVE DropNeedsOverlap'
  BY <1>30 DEF vars
<1> QED
  BY <1>1, <1>2, <1>3, <1>4, <1>5, <1>6, <1>7, <1>8, <1>9, <1>10, <1>11,
     <1>12, <1>13, <1>14, <1>15, <1>16, <1>17, <1>18, <1>19, <1>20, <1>21,
     <1>22, <1>23, <1>24, <1>25, <1>26, <1>27, <1>28, <1>29, <1>30
    DEF Next, AttachStep, NotifyStep, PnpStep, SourceStep, ChannelStep,
       PowerStep

(* A notification is dropped only for another thread's send.               *)
THEOREM DropNeedsOverlapCorrect == Spec => []DropNeedsOverlap
<1>1. Init => DropNeedsOverlap
  BY DEF Init, DropNeedsOverlap
<1>2. QED
  BY <1>1, TypeCorrect, DropStep, PTL DEF Spec

(* TimerCovers needs to know that the device is hibernating from the first *)
(* step of D0 exit to D0 entry.                                            *)
CoverInv ==
  /\ pc["power"] \in {"stop", "disconnect", "clear", "asleep"} => hibernate
  /\ TimerCovers

LEMMA CoverStep == TypeOK /\ CoverInv /\ [Next]_vars => CoverInv'
<1> SUFFICES ASSUME TypeOK, CoverInv, [Next]_vars PROVE CoverInv'
  OBVIOUS
<1> USE DEF TypeOK, CoverInv, TimerCovers,
        Threads, Attachers, Notifiers, Opening, Locking,
        attachVars, notifyVars, linkVars, vars, Goto
<1>1. ASSUME NEW t \in Attachers, AttachSkipped(t) PROVE CoverInv'
  BY <1>1 DEF AttachSkipped, Attached
<1>2. ASSUME NEW t \in Attachers, AttachBegins(t) PROVE CoverInv'
  BY <1>2 DEF AttachBegins, NoteOpening
<1>3. ASSUME NEW t \in Attachers, AttachOpen(t) PROVE CoverInv'
  BY <1>3 DEF AttachOpen
<1>4. ASSUME NEW t \in Attachers, AttachProbe(t) PROVE CoverInv'
  BY <1>4 DEF AttachProbe
<1>5. ASSUME NEW t \in Attachers, AttachClose(t) PROVE CoverInv'
  BY <1>5 DEF AttachClose, Closed
<1>6. ASSUME NEW t \in Attachers, AttachStore(t) PROVE CoverInv'
  BY <1>6 DEF AttachStore, Attached, StartTimer
<1>7. ASSUME NEW t \in Attachers, AttachFails(t) PROVE CoverInv'
  BY <1>7 DEF AttachFails, Attached, Closed
<1>8. ASSUME NEW t \in Notifiers, Ping(t) PROVE CoverInv'
  BY <1>8 DEF Ping
<1>9. ASSUME NEW t \in Notifiers, LookAtGo(t) PROVE CoverInv'
  BY <1>9 DEF LookAtGo, Notified
<1>10. ASSUME NEW t \in Notifiers, Acquire(t) PROVE CoverInv'
  BY <1>10 DEF Acquire, Unlocked, Notified
<1>11. ASSUME NEW t \in Notifiers, SendPresence(t) PROVE CoverInv'
  BY <1>11 DEF SendPresence, Notified, ResetGo
<1>12. ASSUME NEW t \in Notifiers, SendStatus(t) PROVE CoverInv'
  BY <1>12 DEF SendStatus, Notified, ResetGo
<1>13. ASSUME PnpArrival PROVE CoverInv'
  BY <1>13 DEF PnpArrival, NoteOpening, Unlocked
<1>14. ASSUME PnpStore PROVE CoverInv'
  BY <1>14 DEF PnpStore, StartTimer
<1>15. ASSUME NEW t \in {"queue", "pnp"}, Detach(t) PROVE CoverInv'
  BY <1>15 DEF Detach, Closed, NoteLoss, Unlocked
<1>16. ASSUME QueueRequest PROVE CoverInv'
  BY <1>16 DEF QueueRequest
<1>17. ASSUME NotificationArrives PROVE CoverInv'
  BY <1>17 DEF NotificationArrives
<1>18. ASSUME TimerFires PROVE CoverInv'
  BY <1>18 DEF TimerFires, StopTimer
<1>19. ASSUME Rearm PROVE CoverInv'
  BY <1>19 DEF Rearm, StartTimer
<1>20. ASSUME BootBegins PROVE CoverInv'
  BY <1>20 DEF BootBegins
<1>21. ASSUME ChannelConnected PROVE CoverInv'
  BY <1>21 DEF ChannelConnected
<1>22. ASSUME ChannelStarts PROVE CoverInv'
  BY <1>22 DEF ChannelStarts, StartTimer
<1>23. ASSUME ChannelDisconnected PROVE CoverInv'
  BY <1>23 DEF ChannelDisconnected, StopTimer
<1>24. ASSUME D0Exit PROVE CoverInv'
  BY <1>24 DEF D0Exit
<1>25. ASSUME D0ExitStop PROVE CoverInv'
  BY <1>25 DEF D0ExitStop, StopTimer
<1>26. ASSUME D0ExitDisconnect PROVE CoverInv'
  BY <1>26 DEF D0ExitDisconnect, StopTimer
<1>27. ASSUME D0ExitClear PROVE CoverInv'
  BY <1>27 DEF D0ExitClear
<1>28. ASSUME D0Entry PROVE CoverInv'
  BY <1>28 DEF D0Entry
<1>29. ASSUME D0EntryStart PROVE CoverInv'
  BY <1>29 DEF D0EntryStart, StartTimer
<1>30. ASSUME UNCHANGED vars PROVE CoverInv'
  BY <1>30 DEF vars
<1> QED
  BY <1>1, <1>2, <1>3, <1>4, <1>5, <1>6, <1>7, <1>8, <1>9, <1>10, <1>11,
     <1>12, <1>13, <1>14, <1>15, <1>16, <1>17, <1>18, <1>19, <1>20, <1>21,
     <1>22, <1>23, <1>24, <1>25, <1>26, <1>27, <1>28, <1>29, <1>30
    DEF Next, AttachStep, NotifyStep, PnpStep, SourceStep, ChannelStep,
       PowerStep

(* While the channel is connected and the device awake a poll will come.   *)
THEOREM TimerCoversCorrect == Spec => []TimerCovers
<1>1. Init => CoverInv
  BY DEF Init, CoverInv, TimerCovers, Threads
<1>2. CoverInv => TimerCovers
  BY DEF CoverInv
<1>3. QED
  BY <1>1, <1>2, TypeCorrect, CoverStep, PTL DEF Spec
---------------------------------------------------------------------------
(* The gauge: division.                                                    *)

LEMMA QuotientBounds ==
  ASSUME NEW n \in Nat, NEW k \in Nat, k > 0
  PROVE  /\ n \div k \in Nat
         /\ k * (n \div k) <= n
         /\ n < k * (n \div k) + k
OBVIOUS

LEMMA QuotientUnique ==
  ASSUME NEW n \in Nat, NEW k \in Nat, k > 0, NEW q \in Nat,
         k * q <= n, n < k * q + k
  PROVE  n \div k = q
OBVIOUS

LEMMA ProductNat ==
  ASSUME NEW a \in Nat, NEW b \in Nat
  PROVE  a * b \in Nat
OBVIOUS

LEMMA ShareNat ==
  ASSUME NEW F \in Nat, NEW x \in Nat, NEW n \in Nat, n > 0
  PROVE  Share(F, x, n) \in Nat
BY ProductNat, QuotientBounds DEF Share

---------------------------------------------------------------------------
(* What the conversions return.                                            *)

LEMMA ReportedType ==
  ASSUME NEW d \in ULONG, NEW f \in ULONG
  PROVE  Reported(d, f) \in ULONG
BY DEF Reported

LEMMA NormalizeType ==
  ASSUME NEW F \in ULONG, NEW v \in ULONG
  PROVE  Normalize(F, v) \in ULONG
<1>1. CASE v = Unknown \/ ~Usable(F)
  BY <1>1 DEF Normalize
<1>2. CASE ~(v = Unknown \/ ~Usable(F))
  <2>1. F \in Nat /\ v \in Nat
    BY <1>2 DEF Usable, ULONG
  <2>2. Share(F, v, 100) \in Nat /\ Share(F, v, 10000) \in Nat
    BY <2>1, ShareNat
  <2>3. v \div 1000 \in Nat /\ v \div 100 \in Nat
    BY <2>1, QuotientBounds
  <2>4. QED
    BY <1>2, <2>1, <2>2, <2>3 DEF Normalize, ULONG
<1>3. QED
  BY <1>1, <1>2

LEMMA PercentageType ==
  ASSUME percentage \in Nat, percentage <= 100, NEW F \in ULONG, NEW c \in ULONG
  PROVE  Percentage(F, c) \in Nat /\ Percentage(F, c) <= 100
<1>1. CASE c = Unknown
  BY <1>1 DEF Percentage
<1>2. CASE c # Unknown
  <2>1. c \in Nat
    BY <1>2 DEF ULONG
  <2>2. CASE c <= 100
    BY <1>2, <2>1, <2>2 DEF Percentage
  <2>3. CASE c > 100 /\ Usable(F)
    <3>1. F \in Nat /\ F > 0
      BY <2>3 DEF Usable, ULONG
    <3>2. Share(100, c, F) \in Nat
      BY <2>1, <3>1, ShareNat
    <3>3. Percentage(F, c) = IF Share(100, c, F) > 100 THEN 100 ELSE Share(100, c, F)
      BY <1>2, <2>1, <2>3 DEF Percentage
    <3>4. QED
      BY <3>2, <3>3
  <2>4. CASE c > 100 /\ ~Usable(F)
    <3>1. Share(1, c, 100) \in Nat /\ (c <= 10000 => Share(1, c, 100) <= 100)
      BY <2>1 DEF Share
    <3>2. Percentage(F, c) = IF c <= 10000 THEN Share(1, c, 100) ELSE 100
      BY <1>2, <2>1, <2>4 DEF Percentage
    <3>3. QED
      BY <2>1, <3>1, <3>2
  <2>5. QED
    BY <2>1, <2>2, <2>3, <2>4
<1>3. QED
  BY <1>1, <1>2

LEMMA SocX100Type ==
  ASSUME NEW v \in ULONG
  PROVE  /\ SocX100(v) \in Nat /\ SocX100(v) <= 10000
         /\ SocX100(v) # 0 => v # Unknown
<1>1. CASE v = Unknown
  BY <1>1 DEF SocX100
<1>2. CASE v # Unknown
  <2>1. v \in Nat
    BY <1>2 DEF ULONG
  <2>2. Share(1, v, 10) \in Nat /\ Share(1, v, 100) \in Nat
    BY <2>1 DEF Share
  <2> DEFINE tens == Share(1, v, 10)
             hundreds == Share(1, v, 100)
             n == IF v <= 100 THEN v * 100
                  ELSE IF v <= 10000 THEN v
                  ELSE IF v <= 100000 THEN tens
                  ELSE IF v <= 1000000 THEN hundreds
                  ELSE 0
  <2>3. SocX100(v) = IF n > 10000 THEN 0 ELSE n
    BY <1>2 DEF SocX100
  <2>4. n \in Nat
    <3> HIDE DEF tens, hundreds
    <3>1. QED
      BY <2>1, <2>2 DEF tens, hundreds
  <2> HIDE DEF n
  <2>5. QED
    BY <1>2, <2>3, <2>4
<1>3. QED
  BY <1>1, <1>2

LEMMA SocPercentageType ==
  ASSUME NEW s \in Nat, s <= 10000
  PROVE  SocPercentage(s) \in Nat /\ SocPercentage(s) <= 100
BY DEF SocPercentage, Share

LEMMA SocCapacityType ==
  ASSUME NEW F \in ULONG, Usable(F), NEW s \in Nat
  PROVE  SocCapacity(F, s) \in ULONG
<1>1. F \in Nat /\ 10000 \in Nat /\ 10000 > 0
  BY DEF Usable, ULONG
<1>2. Share(F, s, 10000) \in Nat
  BY <1>1, ShareNat
<1>3. QED
  BY <1>2 DEF SocCapacity, ULONG

---------------------------------------------------------------------------
(* Type correctness.                                                       *)

Convertible(s) == s \in Nat /\ s > 0 /\ s <= 10000

(* A thread about to apply a state of charge has a convertible one.        *)
InHand(t) ==
  /\ place[t] = "adopt" => SocX100(value[t]) # 0
  /\ place[t] \in {"soc", "valid", "percentage", "scale"} =>
       Convertible(value[t]) /\ socRaw # Unknown
  /\ place[t] = "valid" => Convertible(socX100)

InHandInv == \A t \in Decoders : InHand(t)

LEMMA FullNowType == GaugeTypeOK => FullNow \in ULONG
BY ReportedType DEF GaugeTypeOK, FullNow

LEMMA HolderDecodes == Holder \in Decoders
BY DEF Decoders

DecodersOK ==
  /\ place \in [Decoders -> Stores] /\ value \in [Decoders -> ULONG]
  /\ overlapped \subseteq Decoders /\ torn \subseteq {"soc", "shown"}

LEMMA BeginType ==
  ASSUME DecodersOK, NEW t \in Decoders, NEW p \in Stores, NEW v \in ULONG,
         Begin(t, p, v)
  PROVE  DecodersOK'
<1>1. place' \in [Decoders -> Stores] /\ value' \in [Decoders -> ULONG]
  BY DEF DecodersOK, Begin
<1>2. overlapped' \subseteq Decoders /\ torn' \subseteq {"soc", "shown"}
  BY DEF DecodersOK, Begin, Busy, overlapVars
<1>3. QED
  BY <1>1, <1>2 DEF DecodersOK

LEMMA GaugeTypeStep ==
  GaugeTypeOK /\ InHandInv /\ [GaugeNext]_gaugeVars => GaugeTypeOK'
<1> SUFFICES ASSUME GaugeTypeOK, InHandInv, [GaugeNext]_gaugeVars PROVE GaugeTypeOK'
  OBVIOUS
<1> USE GaugeAssumption, HolderDecodes, FullNowType
<1>0. Unknown \in ULONG /\ Workers \subseteq Decoders
  BY DEF ULONG, Decoders
<1>1. ASSUME NEW v \in Capacities, ChargeStatusReply(v) PROVE GaugeTypeOK'
  <2>1. DecodersOK'
    <3>1. /\ Begin(Holder, "normalize", Unknown)
          /\ Holder \in Decoders /\ Unknown \in ULONG /\ DecodersOK
      BY <1>0, <1>1 DEF ChargeStatusReply, GaugeTypeOK, DecodersOK
    <3>2. "normalize" \in Stores
      BY DEF Stores
    <3>3. QED
      BY <3>1, <3>2, BeginType
  <2>2. QED
    BY <1>0, <1>1, <2>1
      DEF GaugeTypeOK, DecodersOK, ChargeStatusReply, infoVars, shownVars,
        socVars
<1>2. ASSUME NEW d \in Capacities, NEW f \in Capacities, BattInfoReply(d, f)
      PROVE  GaugeTypeOK'
  <2>1. DecodersOK'
    <3>1. Begin(Holder, "full", f) /\ Holder \in Decoders /\ f \in ULONG /\ DecodersOK
      BY <1>0, <1>2 DEF BattInfoReply, GaugeTypeOK, DecodersOK
    <3>2. "full" \in Stores
      BY DEF Stores
    <3>3. QED
      BY <3>1, <3>2, BeginType
  <2>2. QED
    BY <1>0, <1>2, <2>1
      DEF GaugeTypeOK, DecodersOK, BattInfoReply, shownVars, socVars
<1>3. ASSUME NEW v \in Charges, SocReply(v) PROVE GaugeTypeOK'
  <2>1. DecodersOK'
    <3>1. Begin(Holder, "adopt", v) /\ Holder \in Decoders /\ v \in ULONG /\ DecodersOK
      BY <1>0, <1>3 DEF SocReply, GaugeTypeOK, DecodersOK
    <3>2. "adopt" \in Stores
      BY DEF Stores
    <3>3. QED
      BY <3>1, <3>2, BeginType
  <2>2. QED
    BY <1>0, <1>3, <2>1
      DEF GaugeTypeOK, DecodersOK, SocReply, infoVars, shownVars, socVars
<1>4. ASSUME NEW v \in Charges, SocReplyInvalid(v) PROVE GaugeTypeOK'
  <2>1. DecodersOK'
    <3>1. /\ Begin(Holder, "clear", Unknown)
          /\ Holder \in Decoders /\ Unknown \in ULONG /\ DecodersOK
      BY <1>0, <1>4 DEF SocReplyInvalid, GaugeTypeOK, DecodersOK
    <3>2. "clear" \in Stores
      BY DEF Stores
    <3>3. QED
      BY <3>1, <3>2, BeginType
  <2>2. QED
    BY <1>0, <1>4, <2>1
      DEF GaugeTypeOK, DecodersOK, SocReplyInvalid, infoVars, shownVars,
        socVars
<1>5. ASSUME NEW w \in Workers, NEW v \in Charges, DebugMessage(w, v) PROVE GaugeTypeOK'
  <2>1. DecodersOK'
    <3>1. Begin(w, "adopt", v) /\ w \in Decoders /\ v \in ULONG /\ DecodersOK
      BY <1>0, <1>5 DEF DebugMessage, GaugeTypeOK, DecodersOK
    <3>2. "adopt" \in Stores
      BY DEF Stores
    <3>3. QED
      BY <3>1, <3>2, BeginType
  <2>2. QED
    BY <1>0, <1>5, <2>1
      DEF GaugeTypeOK, DecodersOK, DebugMessage, infoVars, shownVars,
        socVars
<1>6. ASSUME StoreFull PROVE GaugeTypeOK'
  BY <1>0, <1>6
    DEF GaugeTypeOK, StoreFull, shownVars, socVars, Go, overlapVars,
        Stores
<1>7. ASSUME NormalizeCapacity PROVE GaugeTypeOK'
  <2>1. Normalize(FullNow, raw) \in ULONG
    BY NormalizeType DEF GaugeTypeOK
  <2>2. QED
    BY <1>0, <1>7, <2>1
      DEF GaugeTypeOK, NormalizeCapacity, infoVars, socVars, Go,
        overlapVars, Stores
<1>8. ASSUME ComputePercentage PROVE GaugeTypeOK'
  <2>1. Percentage(FullNow, capacity) \in Nat /\ Percentage(FullNow, capacity) <= 100
    BY PercentageType DEF GaugeTypeOK
  <2>2. QED
    BY <1>0, <1>8, <2>1
      DEF GaugeTypeOK, ComputePercentage, infoVars, socVars, Go,
        overlapVars, Stores
<1>9. ASSUME Override PROVE GaugeTypeOK'
  <2>1. value' \in [Decoders -> ULONG]
    BY <1>9 DEF Override, GaugeTypeOK
  <2>2. place' \in [Decoders -> Stores]
    BY <1>9 DEF Override, Go, GaugeTypeOK, Stores
  <2>3. QED
    BY <1>0, <1>9, <2>1, <2>2
      DEF GaugeTypeOK, Override, infoVars, shownVars, socVars, Go,
        overlapVars, Stores
<1>10. ASSUME NothingToOverride PROVE GaugeTypeOK'
  BY <1>0, <1>10
    DEF GaugeTypeOK, NothingToOverride, infoVars, shownVars, socVars, Go,
        End, Mends, overlapVars, Stores
<1>11. ASSUME Clear PROVE GaugeTypeOK'
  <2>1. socValid' \in BOOLEAN /\ ~socValid'
    BY <1>11 DEF Clear
  <2>2. UNCHANGED <<designed, full, raw, capacity, percentage, socRaw, socX100>>
    BY <1>11 DEF Clear, infoVars, shownVars
  <2>3. DecodersOK'
    BY <1>0, <1>11 DEF GaugeTypeOK, DecodersOK, Clear, End, Go, Mends, Stores
  <2>4. QED
    BY <2>1, <2>2, <2>3 DEF GaugeTypeOK, DecodersOK
<1>12. ASSUME NEW t \in Decoders, Adopt(t) PROVE GaugeTypeOK'
  <2>1. value[t] \in ULONG /\ SocX100(value[t]) # 0
    BY <1>12 DEF Adopt, Go, InHandInv, InHand, GaugeTypeOK
  <2>2. SocX100(value[t]) \in ULONG /\ value[t] # Unknown
    <3>1. SocX100(value[t]) \in Nat /\ value[t] # Unknown
      BY <2>1, SocX100Type
    <3>2. QED
      BY <3>1 DEF ULONG
  <2>3. QED
    BY <1>0, <1>12, <2>1, <2>2
      DEF GaugeTypeOK, Adopt, infoVars, shownVars, Go, Mends, overlapVars,
        Stores
<1>13. ASSUME NEW t \in Decoders, StoreSoc(t) PROVE GaugeTypeOK'
  <2>1. Convertible(value[t])
    BY <1>13 DEF StoreSoc, Go, InHandInv, InHand
  <2>2. QED
    BY <1>0, <1>13, <2>1
      DEF GaugeTypeOK, StoreSoc, infoVars, shownVars, Go, overlapVars,
        Stores, Convertible, ULONG
<1>14. ASSUME NEW t \in Decoders, StoreValid(t) PROVE GaugeTypeOK'
  <2>1. Convertible(socX100) /\ socRaw # Unknown
    BY <1>14 DEF StoreValid, Go, InHandInv, InHand
  <2>2. QED
    BY <1>0, <1>14, <2>1
      DEF GaugeTypeOK, StoreValid, infoVars, shownVars, Go, overlapVars,
        Stores, Convertible, ULONG
<1>15. ASSUME NEW t \in Decoders, StorePercentage(t) PROVE GaugeTypeOK'
  <2>1. Convertible(value[t])
    BY <1>15 DEF StorePercentage, Go, InHandInv, InHand
  <2>2. SocPercentage(value[t]) \in Nat /\ SocPercentage(value[t]) <= 100
    BY <2>1, SocPercentageType DEF Convertible
  <2>3. QED
    BY <1>0, <1>15, <2>2
      DEF GaugeTypeOK, StorePercentage, infoVars, socVars, Go, overlapVars,
        Stores
<1>16. ASSUME NEW t \in Decoders, Unusable(t) PROVE GaugeTypeOK'
  BY <1>0, <1>16
    DEF GaugeTypeOK, Unusable, infoVars, shownVars, socVars, Go, End,
        Mends, overlapVars, Stores
<1>17. ASSUME NEW t \in Decoders, ScaleCapacity(t) PROVE GaugeTypeOK'
  <2>1. value[t] \in Nat
    BY <1>17 DEF ScaleCapacity, Go, InHandInv, InHand, Convertible
  <2>2. SocCapacity(FullNow, value[t]) \in ULONG
    BY <1>17, <2>1, SocCapacityType DEF ScaleCapacity
  <2>3. QED
    BY <1>0, <1>17, <2>2
      DEF GaugeTypeOK, ScaleCapacity, infoVars, shownVars, socVars, Go,
        overlapVars, Stores
<1>18. ASSUME NEW t \in Decoders, StoreCapacity(t) PROVE GaugeTypeOK'
  BY <1>0, <1>18
    DEF GaugeTypeOK, StoreCapacity, infoVars, socVars, Go, End, Mends,
        overlapVars, Stores
<1>19. ASSUME UNCHANGED gaugeVars PROVE GaugeTypeOK'
  BY <1>19 DEF GaugeTypeOK, gaugeVars, infoVars, shownVars, socVars, overlapVars
<1>20. QED
  BY <1>1, <1>2, <1>3, <1>4, <1>5, <1>6, <1>7, <1>8, <1>9, <1>10, <1>11,
     <1>12, <1>13, <1>14, <1>15, <1>16, <1>17, <1>18, <1>19
    DEF GaugeNext, Reply, Decode, Apply

LEMMA InHandStep ==
  GaugeTypeOK /\ InHandInv /\ [GaugeNext]_gaugeVars => InHandInv'
<1> SUFFICES ASSUME GaugeTypeOK, InHandInv, [GaugeNext]_gaugeVars, NEW u \in Decoders
             PROVE  InHand(u)'
  BY DEF InHandInv
<1> USE HolderDecodes
<1>0. InHand(u) /\ place \in [Decoders -> Stores] /\ value \in [Decoders -> ULONG]
        /\ Workers \subseteq Decoders
  BY DEF InHandInv, GaugeTypeOK, Decoders
<1>1. ASSUME NEW v \in Capacities, ChargeStatusReply(v) PROVE InHand(u)'
  BY <1>0, <1>1
    DEF InHand, ChargeStatusReply, infoVars, shownVars, socVars, Begin
<1>2. ASSUME NEW d \in Capacities, NEW f \in Capacities, BattInfoReply(d, f)
      PROVE  InHand(u)'
  BY <1>0, <1>2
    DEF InHand, BattInfoReply, shownVars, socVars, Begin
<1>3. ASSUME NEW v \in Charges, SocReply(v) PROVE InHand(u)'
  BY <1>0, <1>3
    DEF InHand, SocReply, infoVars, shownVars, socVars, Begin
<1>4. ASSUME NEW v \in Charges, SocReplyInvalid(v) PROVE InHand(u)'
  BY <1>0, <1>4
    DEF InHand, SocReplyInvalid, infoVars, shownVars, socVars, Begin
<1>5. ASSUME NEW w \in Workers, NEW v \in Charges, DebugMessage(w, v) PROVE InHand(u)'
  BY <1>0, <1>5
    DEF InHand, DebugMessage, infoVars, shownVars, socVars, Begin
<1>6. ASSUME StoreFull PROVE InHand(u)'
  BY <1>0, <1>6
    DEF InHand, StoreFull, shownVars, socVars, Go
<1>7. ASSUME NormalizeCapacity PROVE InHand(u)'
  BY <1>0, <1>7
    DEF InHand, NormalizeCapacity, infoVars, socVars, Go
<1>8. ASSUME ComputePercentage PROVE InHand(u)'
  BY <1>0, <1>8
    DEF InHand, ComputePercentage, infoVars, socVars, Go
<1>9. ASSUME Override PROVE InHand(u)'
  <2>1. Convertible(socX100) /\ socRaw # Unknown
    BY <1>9 DEF Override, GaugeTypeOK, Convertible, ULONG
  <2>2. QED
    BY <1>0, <1>9, <2>1
      DEF InHand, Override, infoVars, shownVars, socVars, Go
<1>10. ASSUME NothingToOverride PROVE InHand(u)'
  BY <1>0, <1>10
    DEF InHand, NothingToOverride, infoVars, shownVars, socVars, Go, End
<1>11. ASSUME Clear PROVE InHand(u)'
  BY <1>0, <1>11
    DEF InHand, Clear, infoVars, shownVars, Go, End
<1>12. ASSUME NEW t \in Decoders, Adopt(t) PROVE InHand(u)'
  <2>1. InHand(t) /\ value[t] \in ULONG /\ place[t] = "adopt"
    BY <1>12 DEF InHandInv, GaugeTypeOK, Adopt, Go
  <2>2. Convertible(SocX100(value[t])) /\ value[t] # Unknown
    BY <2>1, SocX100Type DEF InHand, Convertible
  <2>3. QED
    BY <1>0, <1>12, <2>2
      DEF InHand, Adopt, infoVars, shownVars, Go
<1>13. ASSUME NEW t \in Decoders, StoreSoc(t) PROVE InHand(u)'
  <2>1. InHand(t) /\ place[t] = "soc"
    BY <1>13 DEF InHandInv, StoreSoc, Go
  <2>2. QED
    BY <1>0, <1>13, <2>1
      DEF InHand, StoreSoc, infoVars, shownVars, Go
<1>14. ASSUME NEW t \in Decoders, StoreValid(t) PROVE InHand(u)'
  BY <1>0, <1>14
    DEF InHand, StoreValid, infoVars, shownVars, Go
<1>15. ASSUME NEW t \in Decoders, StorePercentage(t) PROVE InHand(u)'
  BY <1>0, <1>15
    DEF InHand, StorePercentage, infoVars, socVars, Go
<1>16. ASSUME NEW t \in Decoders, Unusable(t) PROVE InHand(u)'
  BY <1>0, <1>16
    DEF InHand, Unusable, infoVars, shownVars, socVars, Go, End
<1>17. ASSUME NEW t \in Decoders, ScaleCapacity(t) PROVE InHand(u)'
  BY <1>0, <1>17
    DEF InHand, ScaleCapacity, infoVars, shownVars, socVars, Go
<1>18. ASSUME NEW t \in Decoders, StoreCapacity(t) PROVE InHand(u)'
  BY <1>0, <1>18
    DEF InHand, StoreCapacity, infoVars, socVars, Go, End
<1>19. ASSUME UNCHANGED gaugeVars PROVE InHand(u)'
  BY <1>0, <1>19 DEF InHand, gaugeVars, infoVars, shownVars, socVars, overlapVars
<1>20. QED
  BY <1>1, <1>2, <1>3, <1>4, <1>5, <1>6, <1>7, <1>8, <1>9, <1>10, <1>11,
     <1>12, <1>13, <1>14, <1>15, <1>16, <1>17, <1>18, <1>19
    DEF GaugeNext, Reply, Decode, Apply

(* The percentage shown is at most 100, whatever the firmware sends.       *)
THEOREM GaugeTypeCorrect == GaugeSpec => []GaugeTypeOK
<1>1. GaugeInit => GaugeTypeOK /\ InHandInv
  <2> SUFFICES ASSUME GaugeInit PROVE GaugeTypeOK /\ InHandInv
    OBVIOUS
  <2>1. InitialCapacity \in ULONG /\ Unknown \in ULONG
    BY DEF ULONG, InitialCapacity
  <2>2. percentage \in Nat /\ percentage <= 100
    BY DEF GaugeInit
  <2>3. socValid \in BOOLEAN /\ ~socValid
    BY DEF GaugeInit
  <2>4. designed \in ULONG /\ full \in ULONG /\ raw \in ULONG /\ capacity \in ULONG
    BY <2>1, Zenon DEF GaugeInit
  <2>5. socRaw \in ULONG /\ socX100 \in ULONG
    BY <2>1, Zenon DEF GaugeInit
  <2>6. /\ place \in [Decoders -> Stores] /\ value \in [Decoders -> ULONG]
        /\ overlapped \subseteq Decoders /\ torn \subseteq {"soc", "shown"}
    BY <2>1 DEF GaugeInit, Stores
  <2>7. InHandInv
    BY DEF GaugeInit, InHandInv, InHand
  <2>8. QED
    BY <2>2, <2>3, <2>4, <2>5, <2>6, <2>7 DEF GaugeTypeOK
<1>2. QED
  BY <1>1, GaugeTypeStep, InHandStep, PTL DEF GaugeSpec

---------------------------------------------------------------------------
(* The history.  Of two threads that decode at once both are noted, and    *)
(* while one is noted nothing is mended.                                   *)

OverlapInv ==
  /\ overlapped \subseteq Busy
  /\ overlapped # {} => torn = {"soc", "shown"}
  /\ \A t, u \in Busy : t # u => t \in overlapped

(* A thread that runs alone: every other one is idle.                      *)
LEMMA AloneIsAlone ==
  ASSUME OverlapInv, NEW t \in Decoders, place[t] # "idle", t \notin overlapped
  PROVE  overlapped = {} /\ \A u \in Decoders : u # t => place[u] = "idle"
BY DEF OverlapInv, Busy

(* What a step of t leaves of the others: they are idle or noted.          *)
OthersIdle(t) == \A u \in Decoders : u # t => place'[u] = "idle" \/ u \in overlapped'

LEMMA OverlapBegin ==
  ASSUME OverlapInv, place \in [Decoders -> Stores], NEW t \in Decoders,
         NEW p, NEW v, p # "idle", Begin(t, p, v)
  PROVE  /\ OverlapInv' /\ OthersIdle(t)
         /\ t \notin overlapped' \/ torn' # {"soc", "shown"} => UNCHANGED overlapVars
<1>1. Busy' = Busy \cup {t} /\ t \notin Busy
  BY DEF Begin, Busy
<1>2. CASE Busy = {}
  <2>1. UNCHANGED <<overlapped, torn>>
    BY <1>2 DEF Begin, overlapVars
  <2>2. OverlapInv'
    BY <1>1, <1>2, <2>1 DEF OverlapInv
  <2>3. QED
    BY <1>1, <1>2, <2>1, <2>2 DEF OthersIdle, Busy, overlapVars
<1>3. CASE Busy # {}
  <2>1. overlapped' = Busy \cup {t} /\ torn' = {"soc", "shown"}
    BY <1>3 DEF Begin
  <2>2. OverlapInv'
    BY <1>1, <2>1 DEF OverlapInv
  <2>3. QED
    BY <1>1, <2>1, <2>2 DEF OthersIdle, Busy
<1>4. QED
  BY <1>2, <1>3

LEMMA OverlapGo ==
  ASSUME OverlapInv, place \in [Decoders -> Stores], NEW t \in Decoders,
         NEW p, NEW q, p # "idle", q # "idle", Go(t, p, q),
         UNCHANGED overlapped,
         UNCHANGED torn \/ (t \notin overlapped)
  PROVE  OverlapInv' /\ OthersIdle(t)
<1>1. Busy' = Busy /\ t \in Busy
  BY DEF Go, Busy
<1>2. t \notin overlapped => overlapped = {}
  BY <1>1 DEF OverlapInv
<1>3. OverlapInv'
  BY <1>1, <1>2 DEF OverlapInv
<1>4. QED
  BY <1>1, <1>3 DEF OverlapInv, OthersIdle, Busy, Go

LEMMA OverlapEnd ==
  ASSUME OverlapInv, place \in [Decoders -> Stores], NEW t \in Decoders,
         NEW p, NEW what, p # "idle", End(t, p, what)
  PROVE  OverlapInv' /\ OthersIdle(t)
<1>1. Busy' = Busy \ {t} /\ t \in Busy
  BY DEF End, Go, Busy
<1>2. overlapped' = overlapped \ {t} /\ (t \in overlapped => torn' = torn)
  BY DEF End, Mends
<1>3. t \notin overlapped => overlapped = {}
  BY <1>1 DEF OverlapInv
<1>4. OverlapInv'
  BY <1>1, <1>2, <1>3 DEF OverlapInv
<1>5. QED
  BY <1>1, <1>2 DEF OverlapInv, OthersIdle, Busy, End, Go

LEMMA OverlapStep == GaugeTypeOK /\ OverlapInv /\ [GaugeNext]_gaugeVars => OverlapInv'
<1> SUFFICES ASSUME GaugeTypeOK, OverlapInv, [GaugeNext]_gaugeVars PROVE OverlapInv'
  OBVIOUS
<1> USE HolderDecodes
<1>0. place \in [Decoders -> Stores] /\ Workers \subseteq Decoders
  BY DEF GaugeTypeOK, Decoders
<1>1. ASSUME NEW v \in Capacities, ChargeStatusReply(v) PROVE OverlapInv'
  BY <1>0, <1>1, OverlapBegin DEF ChargeStatusReply
<1>2. ASSUME NEW d \in Capacities, NEW f \in Capacities, BattInfoReply(d, f)
      PROVE  OverlapInv'
  BY <1>0, <1>2, OverlapBegin DEF BattInfoReply
<1>3. ASSUME NEW v \in Charges, SocReply(v) PROVE OverlapInv'
  BY <1>0, <1>3, OverlapBegin DEF SocReply
<1>4. ASSUME NEW v \in Charges, SocReplyInvalid(v) PROVE OverlapInv'
  BY <1>0, <1>4, OverlapBegin DEF SocReplyInvalid
<1>5. ASSUME NEW w \in Workers, NEW v \in Charges, DebugMessage(w, v) PROVE OverlapInv'
  BY <1>0, <1>5, OverlapBegin DEF DebugMessage
<1>6. ASSUME StoreFull PROVE OverlapInv'
  BY <1>0, <1>6, OverlapGo DEF StoreFull, overlapVars
<1>7. ASSUME NormalizeCapacity PROVE OverlapInv'
  BY <1>0, <1>7, OverlapGo DEF NormalizeCapacity, overlapVars
<1>8. ASSUME ComputePercentage PROVE OverlapInv'
  BY <1>0, <1>8, OverlapGo DEF ComputePercentage, overlapVars
<1>9. ASSUME Override PROVE OverlapInv'
  BY <1>0, <1>9, OverlapGo DEF Override, overlapVars
<1>10. ASSUME NothingToOverride PROVE OverlapInv'
  BY <1>0, <1>10, OverlapEnd DEF NothingToOverride
<1>11. ASSUME Clear PROVE OverlapInv'
  BY <1>0, <1>11, OverlapEnd DEF Clear
<1>12. ASSUME NEW t \in Decoders, Adopt(t) PROVE OverlapInv'
  BY <1>0, <1>12, OverlapGo DEF Adopt, Mends
<1>13. ASSUME NEW t \in Decoders, StoreSoc(t) PROVE OverlapInv'
  BY <1>0, <1>13, OverlapGo DEF StoreSoc, overlapVars
<1>14. ASSUME NEW t \in Decoders, StoreValid(t) PROVE OverlapInv'
  BY <1>0, <1>14, OverlapGo DEF StoreValid, overlapVars
<1>15. ASSUME NEW t \in Decoders, StorePercentage(t) PROVE OverlapInv'
  BY <1>0, <1>15, OverlapGo DEF StorePercentage, overlapVars
<1>16. ASSUME NEW t \in Decoders, Unusable(t) PROVE OverlapInv'
  BY <1>0, <1>16, OverlapEnd DEF Unusable
<1>17. ASSUME NEW t \in Decoders, ScaleCapacity(t) PROVE OverlapInv'
  BY <1>0, <1>17, OverlapGo DEF ScaleCapacity, overlapVars
<1>18. ASSUME NEW t \in Decoders, StoreCapacity(t) PROVE OverlapInv'
  BY <1>0, <1>18, OverlapEnd DEF StoreCapacity
<1>19. ASSUME UNCHANGED gaugeVars PROVE OverlapInv'
  BY <1>19 DEF OverlapInv, Busy, gaugeVars, overlapVars
<1>20. QED
  BY <1>1, <1>2, <1>3, <1>4, <1>5, <1>6, <1>7, <1>8, <1>9, <1>10, <1>11,
     <1>12, <1>13, <1>14, <1>15, <1>16, <1>17, <1>18, <1>19
    DEF GaugeNext, Reply, Decode, Apply

---------------------------------------------------------------------------
(* A capacity in per cent.                                                 *)

(* A percentage v of a full capacity F, rounded to the unit of F, is more  *)
(* than 100 and rounds back to v.                                          *)
LEMMA RoundTrip ==
  ASSUME NEW F \in Nat, F >= 10050, NEW v \in Nat, v <= 100
  PROVE  Percentage(F, Normalize(F, v)) = v
<1> DEFINE P == F * v
           c == Share(F, v, 100)
<1>1. Usable(F) /\ v # Unknown
  BY DEF Usable, Unknown
<1>2. Normalize(F, v) = c
  BY <1>1 DEF Normalize
<1>3. P \in Nat /\ 50 = 100 \div 2
  BY ProductNat
<1>4. c = (P + 50) \div 100
  BY <1>3 DEF Share
<1> HIDE DEF c
<1>5. c \in Nat /\ 100 * c <= P + 50 /\ P + 50 < 100 * c + 100
  <2>1. P + 50 \in Nat /\ 100 \in Nat /\ 100 > 0
    BY <1>3
  <2> HIDE DEF P
  <2>2. QED
    BY <1>4, <2>1, QuotientBounds
<1>6. c # Unknown
  BY <1>5 DEF Unknown
<1>7. CASE v = 0
  <2>1. P = 0
    BY <1>7
  <2>2. c = 0
    BY <1>5, <2>1
  <2>3. QED
    BY <1>2, <1>6, <1>7, <2>2 DEF Percentage
<1>8. CASE v # 0
  <2>1. P >= 10050
    <3>1. v >= 1
      BY <1>8
    <3>2. F * v >= F * 1
      BY <3>1
    <3>3. QED
      BY <3>2
  <2>2. c > 100
    BY <1>3, <1>5, <2>1
  <2>3. Share(100, c, F) = v
    <3> DEFINE half == F \div 2
               n == 100 * c + half
    <3>1. half \in Nat /\ 2 * half <= F /\ F < 2 * half + 2
      OBVIOUS
    <3> HIDE DEF half
    <3>2. n \in Nat /\ F * v <= n /\ n < F * v + F
      BY <1>3, <1>5, <3>1
    <3> HIDE DEF n
    <3>3. n \div F = v
      BY <3>2, QuotientUnique
    <3>4. QED
      BY <3>3 DEF Share, n, half
  <2>4. Percentage(F, c) = IF Share(100, c, F) > 100 THEN 100 ELSE Share(100, c, F)
    BY <1>1, <1>5, <1>6, <2>2 DEF Percentage
  <2>5. QED
    BY <1>2, <2>3, <2>4
<1>9. QED
  BY <1>7, <1>8

---------------------------------------------------------------------------
(* What a thread that runs alone has stored so far.                        *)

InPerCent == raw \in 0 .. 100 /\ FullNow >= 10050

Decoded(t) ==
  /\ place[t] = "compute" => capacity = Normalize(FullNow, raw)
  /\ place[t] = "test" => (InPerCent => percentage = raw)
  /\ place[t] = "clear" => ~BetterKnown
  /\ place[t] = "valid" => value[t] = socX100
  /\ place[t] \in {"percentage", "scale", "capacity"} => socValid
  /\ place[t] \in {"percentage", "scale"} => value[t] = socX100
  /\ place[t] \in {"scale", "capacity"} => percentage = SocPercentage(socX100)
  /\ place[t] = "capacity" => value[t] = SocCapacity(FullNow, socX100)

DecodedInv == \A t \in Decoders : t \notin overlapped => Decoded(t)

(* It is enough that a step keeps it for the thread that takes it.         *)
LEMMA DecodedOthers ==
  ASSUME NEW t \in Decoders, OthersIdle(t), t \notin overlapped' => Decoded(t)'
  PROVE  DecodedInv'
<1> SUFFICES ASSUME NEW u \in Decoders, u \notin overlapped' PROVE Decoded(u)'
  BY DEF DecodedInv
<1>1. CASE u = t
  BY <1>1
<1>2. CASE u # t
  <2>1. place'[u] = "idle"
    BY <1>2 DEF OthersIdle
  <2>2. QED
    BY <2>1 DEF Decoded
<1>3. QED
  BY <1>1, <1>2

LEMMA DecodedStep ==
  GaugeTypeOK /\ OverlapInv /\ DecodedInv /\ [GaugeNext]_gaugeVars => DecodedInv'
<1> SUFFICES ASSUME GaugeTypeOK, OverlapInv, DecodedInv, [GaugeNext]_gaugeVars
             PROVE  DecodedInv'
  OBVIOUS
<1> USE HolderDecodes
<1>0. /\ place \in [Decoders -> Stores] /\ value \in [Decoders -> ULONG]
      /\ Workers \subseteq Decoders
  BY DEF GaugeTypeOK, Decoders
<1>1. ASSUME NEW v \in Capacities, ChargeStatusReply(v) PROVE DecodedInv'
  <2>1. OthersIdle(Holder)
    BY <1>0, <1>1, OverlapBegin DEF ChargeStatusReply
  <2>2. place'[Holder] = "normalize"
    BY <1>0, <1>1 DEF ChargeStatusReply, Begin
  <2>3. Decoded(Holder)'
    BY <2>2 DEF Decoded
  <2>4. QED
    BY <1>0, <2>1, <2>3, DecodedOthers
<1>2. ASSUME NEW d \in Capacities, NEW f \in Capacities, BattInfoReply(d, f)
      PROVE  DecodedInv'
  <2>1. OthersIdle(Holder)
    BY <1>0, <1>2, OverlapBegin DEF BattInfoReply
  <2>2. place'[Holder] = "full"
    BY <1>0, <1>2 DEF BattInfoReply, Begin
  <2>3. Decoded(Holder)'
    BY <2>2 DEF Decoded
  <2>4. QED
    BY <1>0, <2>1, <2>3, DecodedOthers
<1>3. ASSUME NEW v \in Charges, SocReply(v) PROVE DecodedInv'
  <2>1. OthersIdle(Holder)
    BY <1>0, <1>3, OverlapBegin DEF SocReply
  <2>2. place'[Holder] = "adopt"
    BY <1>0, <1>3 DEF SocReply, Begin
  <2>3. Decoded(Holder)'
    BY <2>2 DEF Decoded
  <2>4. QED
    BY <1>0, <2>1, <2>3, DecodedOthers
<1>4. ASSUME NEW v \in Charges, SocReplyInvalid(v) PROVE DecodedInv'
  <2>1. OthersIdle(Holder)
    BY <1>0, <1>4, OverlapBegin DEF SocReplyInvalid
  <2>2. Decoded(Holder)'
    <3>1. place'[Holder] = "clear" /\ UNCHANGED socVars /\ ~BetterKnown
      BY <1>0, <1>4 DEF SocReplyInvalid, Begin
    <3>2. ~BetterKnown'
      BY <3>1 DEF BetterKnown, socVars
    <3>3. QED
      BY <3>1, <3>2 DEF Decoded
  <2>3. QED
    BY <2>1, <2>2, DecodedOthers
<1>5. ASSUME NEW w \in Workers, NEW v \in Charges, DebugMessage(w, v) PROVE DecodedInv'
  <2>1. OthersIdle(w)
    BY <1>0, <1>5, OverlapBegin DEF DebugMessage
  <2>2. place'[w] = "adopt"
    BY <1>0, <1>5 DEF DebugMessage, Begin
  <2>3. Decoded(w)'
    BY <2>2 DEF Decoded
  <2>4. QED
    BY <1>0, <2>1, <2>3, DecodedOthers
<1>6. ASSUME StoreFull PROVE DecodedInv'
  <2>1. OthersIdle(Holder)
    BY <1>0, <1>6, OverlapGo DEF StoreFull, overlapVars
  <2>2. place'[Holder] = "normalize"
    BY <1>0, <1>6 DEF StoreFull, Go
  <2>3. Decoded(Holder)'
    BY <2>2 DEF Decoded
  <2>4. QED
    BY <2>1, <2>3, DecodedOthers
<1>7. ASSUME NormalizeCapacity PROVE DecodedInv'
  <2>1. OthersIdle(Holder)
    BY <1>0, <1>7, OverlapGo DEF NormalizeCapacity, overlapVars
  <2>2. place[Holder] = "normalize" /\ place'[Holder] = "compute" /\ overlapped' = overlapped
    BY <1>0, <1>7 DEF NormalizeCapacity, Go, overlapVars
  <2>3. Holder \notin overlapped => Decoded(Holder)
    BY DEF DecodedInv
  <2>4. Holder \notin overlapped' => Decoded(Holder)'
    BY <1>0, <1>7, <2>2, <2>3
      DEF Decoded, NormalizeCapacity, infoVars, FullNow
  <2>5. QED
    BY <2>1, <2>4, DecodedOthers
<1>8. ASSUME ComputePercentage PROVE DecodedInv'
  <2>1. OthersIdle(Holder)
    BY <1>0, <1>8, OverlapGo DEF ComputePercentage, overlapVars
  <2>2. place[Holder] = "compute" /\ place'[Holder] = "test" /\ overlapped' = overlapped
    BY <1>0, <1>8 DEF ComputePercentage, Go, overlapVars
  <2>3. ASSUME Holder \notin overlapped, InPerCent' PROVE percentage' = raw'
    <3>1. UNCHANGED <<raw, capacity, designed, full>>
      BY <1>8 DEF ComputePercentage, infoVars
    <3>2. InPerCent
      BY <2>3, <3>1 DEF InPerCent, FullNow, Reported
    <3>3. capacity = Normalize(FullNow, raw)
      BY <2>2, <2>3 DEF DecodedInv, Decoded
    <3>4. FullNow \in Nat /\ FullNow >= 10050 /\ raw \in Nat /\ raw <= 100
      BY <3>2, FullNowType DEF InPerCent, ULONG, Unknown
    <3>5. Percentage(FullNow, capacity) = raw
      BY <3>3, <3>4, RoundTrip
    <3>6. QED
      BY <1>8, <3>1, <3>5 DEF ComputePercentage
  <2>4. Holder \notin overlapped' => Decoded(Holder)'
    BY <2>2, <2>3 DEF Decoded
  <2>5. QED
    BY <2>1, <2>4, DecodedOthers
<1>9. ASSUME Override PROVE DecodedInv'
  <2>1. OthersIdle(Holder)
    BY <1>0, <1>9, OverlapGo DEF Override, overlapVars
  <2>2. place'[Holder] = "soc"
    BY <1>0, <1>9 DEF Override, Go
  <2>3. Decoded(Holder)'
    BY <2>2 DEF Decoded
  <2>4. QED
    BY <2>1, <2>3, DecodedOthers
<1>10. ASSUME NothingToOverride PROVE DecodedInv'
  <2>1. OthersIdle(Holder)
    BY <1>0, <1>10, OverlapEnd DEF NothingToOverride
  <2>2. place'[Holder] = "idle"
    BY <1>0, <1>10 DEF NothingToOverride, Go, End
  <2>3. Decoded(Holder)'
    BY <2>2 DEF Decoded
  <2>4. QED
    BY <2>1, <2>3, DecodedOthers
<1>11. ASSUME Clear PROVE DecodedInv'
  <2>1. OthersIdle(Holder)
    BY <1>0, <1>11, OverlapEnd DEF Clear
  <2>2. place'[Holder] = "idle"
    BY <1>0, <1>11 DEF Clear, Go, End
  <2>3. Decoded(Holder)'
    BY <2>2 DEF Decoded
  <2>4. QED
    BY <2>1, <2>3, DecodedOthers
<1>12. ASSUME NEW t \in Decoders, Adopt(t) PROVE DecodedInv'
  <2>1. OthersIdle(t)
    BY <1>0, <1>12, OverlapGo DEF Adopt, Mends
  <2>2. place'[t] = "soc"
    BY <1>0, <1>12 DEF Adopt, Go
  <2>3. Decoded(t)'
    BY <2>2 DEF Decoded
  <2>4. QED
    BY <2>1, <2>3, DecodedOthers
<1>13. ASSUME NEW t \in Decoders, StoreSoc(t) PROVE DecodedInv'
  <2>1. OthersIdle(t)
    BY <1>0, <1>13, OverlapGo DEF StoreSoc, overlapVars
  <2>2. place[t] = "soc" /\ place'[t] = "valid" /\ overlapped' = overlapped
    BY <1>0, <1>13 DEF StoreSoc, Go, overlapVars
  <2>3. t \notin overlapped => Decoded(t)
    BY DEF DecodedInv
  <2>4. t \notin overlapped' => Decoded(t)'
    BY <1>0, <1>13, <2>2, <2>3
      DEF Decoded, StoreSoc, infoVars
  <2>5. QED
    BY <2>1, <2>4, DecodedOthers
<1>14. ASSUME NEW t \in Decoders, StoreValid(t) PROVE DecodedInv'
  <2>1. OthersIdle(t)
    BY <1>0, <1>14, OverlapGo DEF StoreValid, overlapVars
  <2>2. place[t] = "valid" /\ place'[t] = "percentage" /\ overlapped' = overlapped
    BY <1>0, <1>14 DEF StoreValid, Go, overlapVars
  <2>3. t \notin overlapped => Decoded(t)
    BY DEF DecodedInv
  <2>4. t \notin overlapped' => Decoded(t)'
    BY <1>0, <1>14, <2>2, <2>3
      DEF Decoded, StoreValid
  <2>5. QED
    BY <2>1, <2>4, DecodedOthers
<1>15. ASSUME NEW t \in Decoders, StorePercentage(t) PROVE DecodedInv'
  <2>1. OthersIdle(t)
    BY <1>0, <1>15, OverlapGo DEF StorePercentage, overlapVars
  <2>2. place[t] = "percentage" /\ place'[t] = "scale" /\ overlapped' = overlapped
    BY <1>0, <1>15 DEF StorePercentage, Go, overlapVars
  <2>3. t \notin overlapped => Decoded(t)
    BY DEF DecodedInv
  <2>4. t \notin overlapped' => Decoded(t)'
    BY <1>0, <1>15, <2>2, <2>3
      DEF Decoded, StorePercentage, socVars
  <2>5. QED
    BY <2>1, <2>4, DecodedOthers
<1>16. ASSUME NEW t \in Decoders, Unusable(t) PROVE DecodedInv'
  <2>1. OthersIdle(t)
    BY <1>0, <1>16, OverlapEnd DEF Unusable
  <2>2. place'[t] = "idle"
    BY <1>0, <1>16 DEF Unusable, Go, End
  <2>3. Decoded(t)'
    BY <2>2 DEF Decoded
  <2>4. QED
    BY <2>1, <2>3, DecodedOthers
<1>17. ASSUME NEW t \in Decoders, ScaleCapacity(t) PROVE DecodedInv'
  <2>1. OthersIdle(t)
    BY <1>0, <1>17, OverlapGo DEF ScaleCapacity, overlapVars
  <2>2. place[t] = "scale" /\ place'[t] = "capacity" /\ overlapped' = overlapped
    BY <1>0, <1>17 DEF ScaleCapacity, Go, overlapVars
  <2>3. t \notin overlapped => Decoded(t)
    BY DEF DecodedInv
  <2>4. t \notin overlapped' => Decoded(t)'
    BY <1>0, <1>17, <2>2, <2>3
      DEF Decoded, ScaleCapacity, socVars, shownVars, infoVars, FullNow
  <2>5. QED
    BY <2>1, <2>4, DecodedOthers
<1>18. ASSUME NEW t \in Decoders, StoreCapacity(t) PROVE DecodedInv'
  <2>1. OthersIdle(t)
    BY <1>0, <1>18, OverlapEnd DEF StoreCapacity
  <2>2. place'[t] = "idle"
    BY <1>0, <1>18 DEF StoreCapacity, Go, End
  <2>3. Decoded(t)'
    BY <2>2 DEF Decoded
  <2>4. QED
    BY <2>1, <2>3, DecodedOthers
<1>19. ASSUME UNCHANGED gaugeVars PROVE DecodedInv'
  <2>1. \A t \in Decoders : Decoded(t) => Decoded(t)'
    BY <1>19 DEF Decoded, BetterKnown, InPerCent, FullNow, Reported,
      gaugeVars, infoVars, shownVars, socVars
  <2>2. QED
    BY <1>19, <2>1 DEF DecodedInv, gaugeVars, overlapVars
<1>20. QED
  BY <1>1, <1>2, <1>3, <1>4, <1>5, <1>6, <1>7, <1>8, <1>9, <1>10, <1>11,
     <1>12, <1>13, <1>14, <1>15, <1>16, <1>17, <1>18, <1>19
    DEF GaugeNext, Reply, Decode, Apply

---------------------------------------------------------------------------
(* The state of charge was converted from the raw one.                     *)

ConvertedInv ==
  "soc" \notin torn =>
    /\ \A t \in Decoders : place[t] \in {"soc", "valid"} => value[t] = SocX100(socRaw)
    /\ socValid /\ (\A t \in Decoders : place[t] # "soc") => socX100 = SocX100(socRaw)

LEMMA NothingTorn ==
  ASSUME OverlapInv, "soc" \notin torn \/ "shown" \notin torn,
         NEW t \in Decoders, place[t] # "idle"
  PROVE  t \notin overlapped /\ \A u \in Decoders : u # t => place[u] = "idle"
<1>1. overlapped = {}
  BY DEF OverlapInv
<1>2. QED
  BY <1>1, AloneIsAlone

LEMMA ConvertedStep ==
  GaugeTypeOK /\ OverlapInv /\ DecodedInv /\ ConvertedInv /\ [GaugeNext]_gaugeVars
    => ConvertedInv'
<1> SUFFICES ASSUME GaugeTypeOK, OverlapInv, DecodedInv, ConvertedInv, [GaugeNext]_gaugeVars,
                    "soc" \notin torn'
             PROVE  ConvertedInv'
  BY DEF ConvertedInv
<1> USE HolderDecodes
<1>0. /\ place \in [Decoders -> Stores] /\ value \in [Decoders -> ULONG]
      /\ Workers \subseteq Decoders
  BY DEF GaugeTypeOK, Decoders
<1>1. ASSUME NEW v \in Capacities, ChargeStatusReply(v) PROVE ConvertedInv'
  <2>1. Begin(Holder, "normalize", Unknown) /\ UNCHANGED socVars /\ Holder \in Decoders
    BY <1>0, <1>1 DEF ChargeStatusReply
  <2>2. UNCHANGED overlapVars
    BY <1>0, <2>1, OverlapBegin
  <2>3. QED
    BY <1>0, <2>1, <2>2 DEF ConvertedInv, Begin, socVars, overlapVars
<1>2. ASSUME NEW d \in Capacities, NEW f \in Capacities, BattInfoReply(d, f)
      PROVE  ConvertedInv'
  <2>1. Begin(Holder, "full", f) /\ UNCHANGED socVars /\ Holder \in Decoders
    BY <1>0, <1>2 DEF BattInfoReply
  <2>2. UNCHANGED overlapVars
    BY <1>0, <2>1, OverlapBegin
  <2>3. QED
    BY <1>0, <2>1, <2>2 DEF ConvertedInv, Begin, socVars, overlapVars
<1>3. ASSUME NEW v \in Charges, SocReply(v) PROVE ConvertedInv'
  <2>1. Begin(Holder, "adopt", v) /\ UNCHANGED socVars /\ Holder \in Decoders
    BY <1>0, <1>3 DEF SocReply
  <2>2. UNCHANGED overlapVars
    BY <1>0, <2>1, OverlapBegin
  <2>3. QED
    BY <1>0, <2>1, <2>2 DEF ConvertedInv, Begin, socVars, overlapVars
<1>4. ASSUME NEW v \in Charges, SocReplyInvalid(v) PROVE ConvertedInv'
  <2>1. Begin(Holder, "clear", Unknown) /\ UNCHANGED socVars /\ Holder \in Decoders
    BY <1>0, <1>4 DEF SocReplyInvalid
  <2>2. UNCHANGED overlapVars
    BY <1>0, <2>1, OverlapBegin
  <2>3. QED
    BY <1>0, <2>1, <2>2 DEF ConvertedInv, Begin, socVars, overlapVars
<1>5. ASSUME NEW w \in Workers, NEW v \in Charges, DebugMessage(w, v)
      PROVE  ConvertedInv'
  <2>1. Begin(w, "adopt", v) /\ UNCHANGED socVars /\ w \in Decoders
    BY <1>0, <1>5 DEF DebugMessage
  <2>2. UNCHANGED overlapVars
    BY <1>0, <2>1, OverlapBegin
  <2>3. QED
    BY <1>0, <2>1, <2>2 DEF ConvertedInv, Begin, socVars, overlapVars
<1>6. ASSUME StoreFull PROVE ConvertedInv'
  <2>1. UNCHANGED socVars /\ UNCHANGED torn
    BY <1>6 DEF StoreFull, socVars, overlapVars
  <2>2. QED
    BY <1>0, <1>6, <2>1 DEF ConvertedInv, StoreFull, Go, socVars
<1>7. ASSUME NormalizeCapacity PROVE ConvertedInv'
  <2>1. UNCHANGED socVars /\ UNCHANGED torn
    BY <1>7 DEF NormalizeCapacity, socVars, overlapVars
  <2>2. QED
    BY <1>0, <1>7, <2>1 DEF ConvertedInv, NormalizeCapacity, Go, socVars
<1>8. ASSUME ComputePercentage PROVE ConvertedInv'
  <2>1. UNCHANGED socVars /\ UNCHANGED torn
    BY <1>8 DEF ComputePercentage, socVars, overlapVars
  <2>2. QED
    BY <1>0, <1>8, <2>1 DEF ConvertedInv, ComputePercentage, Go, socVars
<1>9. ASSUME Override PROVE ConvertedInv'
  <2>1. "soc" \notin torn /\ place[Holder] = "test" /\ place'[Holder] = "soc"
    BY <1>0, <1>9 DEF Override, Go, overlapVars
  <2>2. Holder \notin overlapped /\ \A u \in Decoders : u # Holder => place[u] = "idle"
    BY <2>1, NothingTorn
  <2>3. \A u \in Decoders : u # Holder => place'[u] = "idle"
    BY <1>0, <1>9, <2>2 DEF Override, Go
  <2>4. value'[Holder] = SocX100(socRaw) /\ socRaw' = socRaw
    BY <1>0, <1>9, <2>1, <2>2 DEF Override, ConvertedInv, socVars
  <2>5. QED
    BY <2>1, <2>3, <2>4 DEF ConvertedInv
<1>10. ASSUME NothingToOverride PROVE ConvertedInv'
  <2>1. "soc" \notin torn
    BY <1>10 DEF NothingToOverride, End, Mends
  <2>2. QED
    BY <1>0, <2>1, <1>10
      DEF ConvertedInv, NothingToOverride, End, Go, socVars
<1>11. ASSUME Clear PROVE ConvertedInv'
  <2>1. "soc" \notin torn
    BY <1>11 DEF Clear, End, Mends
  <2>2. QED
    BY <1>0, <2>1, <1>11
      DEF ConvertedInv, Clear, End, Go, socVars
<1>12. ASSUME NEW t \in Decoders, Adopt(t) PROVE ConvertedInv'
  <2>1. t \notin overlapped /\ place[t] = "adopt"
    BY <1>12 DEF Adopt, Go, Mends, OverlapInv
  <2>2. \A u \in Decoders : u # t => place[u] = "idle"
    BY <2>1, AloneIsAlone
  <2>3. place'[t] = "soc" /\ value'[t] = SocX100(socRaw')
    BY <1>0, <1>12 DEF Adopt, Go
  <2>4. \A u \in Decoders : u # t => place'[u] = "idle"
    BY <1>0, <1>12, <2>2 DEF Adopt, Go
  <2>5. QED
    BY <2>3, <2>4 DEF ConvertedInv
<1>13. ASSUME NEW t \in Decoders, StoreSoc(t) PROVE ConvertedInv'
  <2>1. "soc" \notin torn /\ place[t] = "soc" /\ place'[t] = "valid"
    BY <1>0, <1>13 DEF StoreSoc, Go, overlapVars
  <2>2. t \notin overlapped /\ \A u \in Decoders : u # t => place[u] = "idle"
    BY <2>1, NothingTorn
  <2>3. \A u \in Decoders : u # t => place'[u] = "idle"
    BY <1>0, <1>13, <2>2 DEF StoreSoc, Go
  <2>4. value[t] = SocX100(socRaw)
    BY <2>1 DEF ConvertedInv
  <2>5. UNCHANGED <<value, socRaw>> /\ socX100' = value[t]
    BY <1>13 DEF StoreSoc
  <2>6. QED
    BY <2>1, <2>3, <2>4, <2>5 DEF ConvertedInv
<1>14. ASSUME NEW t \in Decoders, StoreValid(t) PROVE ConvertedInv'
  <2>1. "soc" \notin torn /\ place[t] = "valid" /\ place'[t] = "percentage"
    BY <1>0, <1>14 DEF StoreValid, Go, overlapVars
  <2>2. t \notin overlapped /\ \A u \in Decoders : u # t => place[u] = "idle"
    BY <2>1, NothingTorn
  <2>3. \A u \in Decoders : u # t => place'[u] = "idle"
    BY <1>0, <1>14, <2>2 DEF StoreValid, Go
  <2>4. value[t] = SocX100(socRaw) /\ value[t] = socX100
    BY <2>1, <2>2 DEF ConvertedInv, DecodedInv, Decoded
  <2>5. UNCHANGED <<value, socRaw, socX100>>
    BY <1>14 DEF StoreValid
  <2>6. QED
    BY <2>1, <2>3, <2>4, <2>5 DEF ConvertedInv
<1>15. ASSUME NEW t \in Decoders, StorePercentage(t) PROVE ConvertedInv'
  <2>1. UNCHANGED socVars /\ UNCHANGED torn
    BY <1>15 DEF StorePercentage, socVars, overlapVars
  <2>2. QED
    BY <1>0, <1>15, <2>1 DEF ConvertedInv, StorePercentage, Go, socVars
<1>16. ASSUME NEW t \in Decoders, Unusable(t) PROVE ConvertedInv'
  <2>1. "soc" \notin torn
    BY <1>16 DEF Unusable, End, Mends
  <2>2. QED
    BY <1>0, <2>1, <1>16
      DEF ConvertedInv, Unusable, End, Go, socVars
<1>17. ASSUME NEW t \in Decoders, ScaleCapacity(t) PROVE ConvertedInv'
  <2>1. UNCHANGED socVars /\ UNCHANGED torn
    BY <1>17 DEF ScaleCapacity, socVars, overlapVars
  <2>2. QED
    BY <1>0, <1>17, <2>1 DEF ConvertedInv, ScaleCapacity, Go, socVars
<1>18. ASSUME NEW t \in Decoders, StoreCapacity(t) PROVE ConvertedInv'
  <2>1. "soc" \notin torn
    BY <1>18 DEF StoreCapacity, End, Mends
  <2>2. QED
    BY <1>0, <2>1, <1>18
      DEF ConvertedInv, StoreCapacity, End, Go, socVars
<1>19. ASSUME UNCHANGED gaugeVars PROVE ConvertedInv'
  BY <1>19 DEF ConvertedInv, gaugeVars, socVars, overlapVars
<1>20. QED
  BY <1>1, <1>2, <1>3, <1>4, <1>5, <1>6, <1>7, <1>8, <1>9, <1>10, <1>11,
     <1>12, <1>13, <1>14, <1>15, <1>16, <1>17, <1>18, <1>19
    DEF GaugeNext, Reply, Decode, Apply

---------------------------------------------------------------------------
(* What is shown while no thread has touched it.                           *)

Resting == {"idle", "adopt", "clear"}

SocShown ==
  socValid =>
    /\ percentage = SocPercentage(socX100)
    /\ Usable(FullNow) => capacity = SocCapacity(FullNow, socX100)

PerCentShown ==
  torn = {} /\ ~socValid /\ InPerCent =>
    percentage = raw \/ (socRaw = Placeholder /\ percentage = 100)

ShownInv ==
  "shown" \notin torn /\ (\A t \in Decoders : place[t] \in Resting) =>
    SocShown /\ PerCentShown

LEMMA PlaceholderIsFull == SocPercentage(SocX100(Placeholder)) = 100
BY DEF SocPercentage, SocX100, Share, Placeholder, Unknown

LEMMA ShownStep ==
  GaugeTypeOK /\ OverlapInv /\ DecodedInv /\ ConvertedInv /\ ShownInv
    /\ [GaugeNext]_gaugeVars => ShownInv'
<1> SUFFICES ASSUME GaugeTypeOK, OverlapInv, DecodedInv, ConvertedInv, ShownInv,
                    [GaugeNext]_gaugeVars
             PROVE  ShownInv'
  OBVIOUS
<1> SUFFICES ASSUME "shown" \notin torn', \A t \in Decoders : place'[t] \in Resting
             PROVE  SocShown' /\ PerCentShown'
  BY DEF ShownInv
<1> USE HolderDecodes
<1>0. /\ place \in [Decoders -> Stores] /\ value \in [Decoders -> ULONG]
      /\ Workers \subseteq Decoders
  BY DEF GaugeTypeOK, Decoders
<1>1. ASSUME NEW v \in Capacities, ChargeStatusReply(v) PROVE SocShown' /\ PerCentShown'
  <2>1. place'[Holder] = "normalize"
    BY <1>0, <1>1 DEF ChargeStatusReply, Begin
  <2>2. QED
    BY <1>0, <2>1 DEF Resting
<1>2. ASSUME NEW d \in Capacities, NEW f \in Capacities, BattInfoReply(d, f)
      PROVE  SocShown' /\ PerCentShown'
  <2>1. place'[Holder] = "full"
    BY <1>0, <1>2 DEF BattInfoReply, Begin
  <2>2. QED
    BY <1>0, <2>1 DEF Resting
<1>3. ASSUME NEW v \in Charges, SocReply(v) PROVE SocShown' /\ PerCentShown'
  <2>1. /\ Begin(Holder, "adopt", v) /\ Holder \in Decoders
        /\ UNCHANGED <<infoVars, raw, shownVars, socVars>>
    BY <1>0, <1>3 DEF SocReply
  <2>2. UNCHANGED overlapVars
    BY <1>0, <2>1, OverlapBegin
  <2>3. \A u \in Decoders : place[u] \in Resting
    BY <1>0, <2>1 DEF Begin, Resting
  <2>4. SocShown /\ PerCentShown
    BY <2>2, <2>3 DEF ShownInv, overlapVars
  <2>5. QED
    BY <2>1, <2>2, <2>4 DEF SocShown, PerCentShown, InPerCent, FullNow, Reported,
      infoVars, shownVars, socVars, overlapVars
<1>4. ASSUME NEW v \in Charges, SocReplyInvalid(v) PROVE SocShown' /\ PerCentShown'
  <2>1. /\ Begin(Holder, "clear", Unknown) /\ Holder \in Decoders
        /\ UNCHANGED <<infoVars, raw, shownVars, socVars>>
    BY <1>0, <1>4 DEF SocReplyInvalid
  <2>2. UNCHANGED overlapVars
    BY <1>0, <2>1, OverlapBegin
  <2>3. \A u \in Decoders : place[u] \in Resting
    BY <1>0, <2>1 DEF Begin, Resting
  <2>4. SocShown /\ PerCentShown
    BY <2>2, <2>3 DEF ShownInv, overlapVars
  <2>5. QED
    BY <2>1, <2>2, <2>4 DEF SocShown, PerCentShown, InPerCent, FullNow, Reported,
      infoVars, shownVars, socVars, overlapVars
<1>5. ASSUME NEW w \in Workers, NEW v \in Charges, DebugMessage(w, v)
      PROVE  SocShown' /\ PerCentShown'
  <2>1. /\ Begin(w, "adopt", v) /\ w \in Decoders
        /\ UNCHANGED <<infoVars, raw, shownVars, socVars>>
    BY <1>0, <1>5 DEF DebugMessage
  <2>2. UNCHANGED overlapVars
    BY <1>0, <2>1, OverlapBegin
  <2>3. \A u \in Decoders : place[u] \in Resting
    BY <1>0, <2>1 DEF Begin, Resting
  <2>4. SocShown /\ PerCentShown
    BY <2>2, <2>3 DEF ShownInv, overlapVars
  <2>5. QED
    BY <2>1, <2>2, <2>4 DEF SocShown, PerCentShown, InPerCent, FullNow, Reported,
      infoVars, shownVars, socVars, overlapVars
<1>6. ASSUME StoreFull PROVE SocShown' /\ PerCentShown'
  <2>1. place'[Holder] = "normalize"
    BY <1>0, <1>6 DEF StoreFull, Go
  <2>2. QED
    BY <1>0, <2>1 DEF Resting
<1>7. ASSUME NormalizeCapacity PROVE SocShown' /\ PerCentShown'
  <2>1. place'[Holder] = "compute"
    BY <1>0, <1>7 DEF NormalizeCapacity, Go
  <2>2. QED
    BY <1>0, <2>1 DEF Resting
<1>8. ASSUME ComputePercentage PROVE SocShown' /\ PerCentShown'
  <2>1. place'[Holder] = "test"
    BY <1>0, <1>8 DEF ComputePercentage, Go
  <2>2. QED
    BY <1>0, <2>1 DEF Resting
<1>9. ASSUME Override PROVE SocShown' /\ PerCentShown'
  <2>1. place'[Holder] = "soc"
    BY <1>0, <1>9 DEF Override, Go
  <2>2. QED
    BY <1>0, <2>1 DEF Resting
<1>10. ASSUME NothingToOverride PROVE SocShown' /\ PerCentShown'
  <2>1. place[Holder] = "test" /\ Holder \notin overlapped
    BY <1>10 DEF NothingToOverride, End, Go, Mends, OverlapInv
  <2>2. Decoded(Holder)
    BY <2>1 DEF DecodedInv
  <2>3. ~socValid /\ UNCHANGED <<infoVars, raw, shownVars, socVars>>
    BY <1>10 DEF NothingToOverride
  <2>4. InPerCent => percentage = raw
    BY <2>1, <2>2 DEF Decoded
  <2>5. QED
    BY <2>3, <2>4 DEF SocShown, PerCentShown, InPerCent, FullNow, Reported,
      infoVars, shownVars, socVars
<1>11. ASSUME Clear PROVE SocShown' /\ PerCentShown'
  <2>1. /\ place[Holder] = "clear" /\ torn' = torn /\ socValid' = FALSE
        /\ UNCHANGED <<infoVars, raw, shownVars, socRaw>>
    BY <1>11 DEF Clear, End, Go, Mends
  <2>2. Holder \notin overlapped /\ \A u \in Decoders : u # Holder => place[u] = "idle"
    BY <2>1, NothingTorn
  <2>3. ~BetterKnown
    BY <2>1, <2>2 DEF DecodedInv, Decoded
  <2>4. SocShown /\ PerCentShown
    BY <2>1, <2>2 DEF ShownInv, Resting
  <2>5. ASSUME torn = {}, InPerCent
        PROVE  percentage = raw \/ (socRaw = Placeholder /\ percentage = 100)
    <3>1. CASE ~socValid
      BY <2>4, <2>5, <3>1 DEF PerCentShown
    <3>2. CASE socValid
      <4>1. socRaw = Placeholder
        BY <2>3, <3>2 DEF BetterKnown, GaugeTypeOK
      <4>2. socX100 = SocX100(socRaw)
        BY <2>1, <2>2, <2>5, <3>2 DEF ConvertedInv
      <4>3. QED
        BY <2>4, <3>2, <4>1, <4>2, PlaceholderIsFull DEF SocShown
    <3>3. QED
      BY <3>1, <3>2
  <2>6. QED
    BY <2>1, <2>5 DEF SocShown, PerCentShown, InPerCent, FullNow, Reported,
      infoVars, shownVars
<1>12. ASSUME NEW t \in Decoders, Adopt(t) PROVE SocShown' /\ PerCentShown'
  <2>1. place'[t] = "soc"
    BY <1>0, <1>12 DEF Adopt, Go
  <2>2. QED
    BY <1>0, <2>1 DEF Resting
<1>13. ASSUME NEW t \in Decoders, StoreSoc(t) PROVE SocShown' /\ PerCentShown'
  <2>1. place'[t] = "valid"
    BY <1>0, <1>13 DEF StoreSoc, Go
  <2>2. QED
    BY <1>0, <2>1 DEF Resting
<1>14. ASSUME NEW t \in Decoders, StoreValid(t) PROVE SocShown' /\ PerCentShown'
  <2>1. place'[t] = "percentage"
    BY <1>0, <1>14 DEF StoreValid, Go
  <2>2. QED
    BY <1>0, <2>1 DEF Resting
<1>15. ASSUME NEW t \in Decoders, StorePercentage(t) PROVE SocShown' /\ PerCentShown'
  <2>1. place'[t] = "scale"
    BY <1>0, <1>15 DEF StorePercentage, Go
  <2>2. QED
    BY <1>0, <2>1 DEF Resting
<1>16. ASSUME NEW t \in Decoders, Unusable(t) PROVE SocShown' /\ PerCentShown'
  <2>1. place[t] = "scale" /\ t \notin overlapped
    BY <1>16 DEF Unusable, End, Go, Mends, OverlapInv
  <2>2. Decoded(t)
    BY <2>1 DEF DecodedInv
  <2>3. ~Usable(FullNow) /\ UNCHANGED <<infoVars, raw, shownVars, socVars>>
    BY <1>16 DEF Unusable
  <2>4. socValid /\ percentage = SocPercentage(socX100)
    BY <2>1, <2>2 DEF Decoded
  <2>5. QED
    BY <2>3, <2>4 DEF SocShown, PerCentShown, FullNow, Reported,
      infoVars, shownVars, socVars
<1>17. ASSUME NEW t \in Decoders, ScaleCapacity(t) PROVE SocShown' /\ PerCentShown'
  <2>1. place'[t] = "capacity"
    BY <1>0, <1>17 DEF ScaleCapacity, Go
  <2>2. QED
    BY <1>0, <2>1 DEF Resting
<1>18. ASSUME NEW t \in Decoders, StoreCapacity(t) PROVE SocShown' /\ PerCentShown'
  <2>1. place[t] = "capacity" /\ t \notin overlapped
    BY <1>18 DEF StoreCapacity, End, Go, Mends, OverlapInv
  <2>2. Decoded(t)
    BY <2>1 DEF DecodedInv
  <2>3. capacity' = value[t] /\ UNCHANGED <<infoVars, raw, percentage, socVars>>
    BY <1>18 DEF StoreCapacity
  <2>4. /\ socValid /\ percentage = SocPercentage(socX100)
        /\ value[t] = SocCapacity(FullNow, socX100)
    BY <2>1, <2>2 DEF Decoded
  <2>5. QED
    BY <2>3, <2>4 DEF SocShown, PerCentShown, FullNow, infoVars, socVars
<1>19. ASSUME UNCHANGED gaugeVars PROVE SocShown' /\ PerCentShown'
  <2>1. "shown" \notin torn /\ \A t \in Decoders : place[t] \in Resting
    BY <1>19 DEF gaugeVars, overlapVars
  <2>2. SocShown /\ PerCentShown
    BY <2>1 DEF ShownInv
  <2>3. QED
    BY <1>19, <2>2 DEF SocShown, PerCentShown, InPerCent, FullNow, Reported,
      gaugeVars, infoVars, shownVars, socVars, overlapVars
<1>20. QED
  BY <1>1, <1>2, <1>3, <1>4, <1>5, <1>6, <1>7, <1>8, <1>9, <1>10, <1>11,
     <1>12, <1>13, <1>14, <1>15, <1>16, <1>17, <1>18, <1>19
    DEF GaugeNext, Reply, Decode, Apply

LEMMA ShownCorrect == GaugeSpec => []ShownInv
<1>1. GaugeInit => OverlapInv /\ DecodedInv /\ ConvertedInv /\ ShownInv
  <2> SUFFICES ASSUME GaugeInit PROVE OverlapInv /\ DecodedInv /\ ConvertedInv /\ ShownInv
    OBVIOUS
  <2>1. Busy = {} /\ overlapped = {} /\ ~socValid /\ raw = Unknown
    BY DEF GaugeInit, Busy
  <2>2. \A t \in Decoders : place[t] = "idle"
    BY DEF GaugeInit
  <2>3. OverlapInv
    BY <2>1 DEF OverlapInv
  <2>4. DecodedInv /\ ConvertedInv
    BY <2>1, <2>2 DEF DecodedInv, Decoded, ConvertedInv
  <2>5. ShownInv
    BY <2>1 DEF ShownInv, SocShown, PerCentShown, InPerCent, Unknown
  <2>6. QED
    BY <2>3, <2>4, <2>5
<1>2. QED
  BY <1>1, GaugeTypeCorrect, OverlapStep, DecodedStep, ConvertedStep, ShownStep,
     PTL DEF GaugeSpec

LEMMA AtRest == Busy = {} => \A t \in Decoders : place[t] \in Resting
BY DEF Busy, Resting

(* At rest no reply has undone a known state of charge, unless threads     *)
(* that overlapped showed the charge last.                                 *)
THEOREM KnownSocIsShownCorrect == GaugeSpec => []KnownSocIsShown
<1>1. ShownInv => KnownSocIsShown
  BY AtRest DEF ShownInv, SocShown, KnownSocIsShown
<1>2. QED
  BY <1>1, ShownCorrect, PTL

(* A percentage survives for every full capacity from 10050 on, with any   *)
(* number of work items, once their overlaps are mended.                   *)
THEOREM PercentageSurvivesCorrect == GaugeSpec => []PercentageSurvives
<1>1. ShownInv => PercentageSurvives
  BY AtRest DEF ShownInv, PerCentShown, InPerCent, PercentageSurvives
<1>2. QED
  BY <1>1, ShownCorrect, PTL
=============================================================================
