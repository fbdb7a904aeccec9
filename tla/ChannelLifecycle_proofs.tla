----------------------- MODULE ChannelLifecycle_proofs -----------------------
(***************************************************************************)
(* What ChannelLifecycle checks for two channel handles, and for two       *)
(* threads at a time, for any set of handles and all the threads.          *)
(***************************************************************************)
EXTENDS ChannelLifecycle, TLAPS

---------------------------------------------------------------------------
(* Type correctness.                                                       *)

LEMMA TypeInit == Init => TypeOK
BY DEF Init, TypeOK, Openers, Threads, OpenPlaces, EnsurePlaces, Places, Stages

(* The two halves of TypeOK: the flags, and everything else.               *)
FlagsOK ==
  /\ registered \in BOOLEAN /\ orphaned \in BOOLEAN
  /\ api \in BOOLEAN /\ linkHandle \in BOOLEAN
  /\ rpe \in BOOLEAN /\ loaded \in BOOLEAN
  /\ connected \in BOOLEAN /\ restart \in BOOLEAN /\ linkUp \in BOOLEAN
  /\ hibernate \in BOOLEAN
  /\ failed \in BOOLEAN /\ stale \in BOOLEAN /\ swept \in BOOLEAN
  /\ crowded \in BOOLEAN /\ late \in BOOLEAN

StatesOK ==
  /\ chan \in [Channel -> {"free", "open", "connected", "closing"}]
  /\ handle \in Channel \cup {NoChannel}
  /\ power \in Stages
  /\ at \in [Threads -> Places]
  /\ got \in [Threads -> Channel \cup {NoChannel}]
  /\ \A t \in Threads : at[t] = "assign" <=> got[t] # NoChannel
  /\ refused \subseteq {"asleep", "final"}

LEMMA FlagsStep == FlagsOK /\ [Next]_vars => FlagsOK'
<1> SUFFICES ASSUME FlagsOK, [Next]_vars PROVE FlagsOK'
  OBVIOUS
<1> USE DEF FlagsOK, NoteCrowd, ForgetHandle, ResetApi, history, glinkVars, ifaceVars,
            handleVars, flagVars, powerVars, openVars
<1>1. ASSUME NEW t \in Threads, EnsureCheck(t) PROVE FlagsOK'
  BY <1>1 DEF EnsureCheck
<1>2. ASSUME NEW t \in Threads, EnsureReset(t) PROVE FlagsOK'
  BY Zenon, <1>2 DEF EnsureReset
<1>3. ASSUME NEW t \in Threads, EnsureFill(t) PROVE FlagsOK'
  <2>1. api' \in BOOLEAN /\ swept' \in BOOLEAN
    BY Zenon, <1>3 DEF EnsureFill
  <2> QED BY Zenon, <1>3, <2>1 DEF EnsureFill
<1>4. ASSUME NEW t \in Threads, EnsureFails(t) PROVE FlagsOK'
  <2>1. failed' \in BOOLEAN
    BY Zenon, <1>4 DEF EnsureFails
  <2> QED BY <1>4, <2>1 DEF EnsureFails
<1>5. ASSUME NEW t \in Openers, OpenStep(t) PROVE FlagsOK'
  <2>1. CASE GLinkOpenIsNull(t)
    BY Zenon, <2>1 DEF GLinkOpenIsNull
  <2>2. CASE ForgetForOpen(t)
    BY Zenon, <2>2 DEF ForgetForOpen
  <2>3. CASE GLinkOpen(t)
    BY Zenon, <2>3 DEF GLinkOpen
  <2>4. CASE GLinkOpenFails(t)
    BY Zenon, <2>4 DEF GLinkOpenFails
  <2>5. CASE AssignHandle(t)
    BY Zenon, <2>5 DEF AssignHandle
  <2> QED BY <1>5, <2>1, <2>2, <2>3, <2>4, <2>5 DEF OpenStep
<1>6. ASSUME LinkCallback PROVE FlagsOK'
  <2>1. CASE LinkUp
    BY Zenon, <2>1 DEF LinkUp
  <2>2. CASE LinkUpDone
    <3>1. restart' \in BOOLEAN
      BY <2>2 DEF LinkUpDone
    <3> QED BY <2>2, <3>1 DEF LinkUpDone
  <2>3. CASE LinkDown
    BY Zenon, <2>3 DEF LinkDown
  <2> QED BY <1>6, <2>1, <2>2, <2>3 DEF LinkCallback
<1>7. ASSUME NEW c \in Channel, ChannelCallback(c) PROVE FlagsOK'
  <2>1. CASE ChannelConnected(c)
    BY Zenon, <2>1 DEF ChannelConnected
  <2>2. CASE LocalDisconnected(c)
    <3>1. connected' \in BOOLEAN
      BY <2>2 DEF LocalDisconnected
    <3> QED BY <2>2, <3>1 DEF LocalDisconnected
  <2>3. CASE RemoteDisconnected(c)
    BY <2>3 DEF RemoteDisconnected
  <2>4. CASE TxDoneOrRxIntent(c)
    BY <2>4 DEF TxDoneOrRxIntent
  <2> QED BY <1>7, <2>1, <2>2, <2>3, <2>4 DEF ChannelCallback
<1>8. ASSUME ForgetClosed PROVE FlagsOK'
  BY Zenon, <1>8 DEF ForgetClosed
<1>9. ASSUME AskRestart \/ ClientRecovers PROVE FlagsOK'
  <2>1. CASE AskRestart
    BY Zenon, <2>1 DEF AskRestart
  <2>2. CASE ClientRecovers
    BY <2>2 DEF ClientRecovers
  <2> QED BY <1>9, <2>1, <2>2
<1>10. ASSUME GlinkArrival \/ GlinkRemoval PROVE FlagsOK'
  <2>1. CASE GlinkArrival
    BY <2>1 DEF GlinkArrival
  <2>2. CASE GlinkRemoval
    BY Zenon, <2>2 DEF GlinkRemoval
  <2> QED BY <1>10, <2>1, <2>2
<1>11. ASSUME RpeStep PROVE FlagsOK'
  <2>1. CASE Register
    <3>1. orphaned' \in BOOLEAN /\ late' \in BOOLEAN
      BY Zenon, <2>1 DEF Register
    <3> QED BY <2>1, <3>1 DEF Register
  <2>2. CASE DoNotRegister
    BY <2>2 DEF DoNotRegister
  <2>3. CASE StoreLinkHandle
    BY <2>3 DEF StoreLinkHandle
  <2>4. CASE StoreRpe
    <3>1. rpe' \in BOOLEAN
      BY Zenon, <2>4 DEF StoreRpe
    <3> QED BY <2>4, <3>1 DEF StoreRpe
  <2> QED BY <1>11, <2>1, <2>2, <2>3, <2>4 DEF RpeStep
<1>12. ASSUME D0Exit \/ D0ExitForgets \/ D0ExitClear \/ D0ExitUnlink PROVE FlagsOK'
  <2>1. CASE D0Exit
    BY Zenon, <2>1 DEF D0Exit
  <2>2. CASE D0ExitForgets
    <3>1. stale' \in BOOLEAN
      BY <2>2 DEF D0ExitForgets
    <3> QED BY <2>2, <3>1 DEF D0ExitForgets
  <2>3. CASE D0ExitClear
    BY Zenon, <2>3 DEF D0ExitClear
  <2>4. CASE D0ExitUnlink
    BY Zenon, <2>4 DEF D0ExitUnlink
  <2> QED BY <1>12, <2>1, <2>2, <2>3, <2>4
<1>13. ASSUME D0ExitClose \/ D0ExitDeregister PROVE FlagsOK'
  <2>1. late' \in BOOLEAN
    BY Zenon, <1>13 DEF D0ExitClose, D0ExitDeregister
  <2>2. /\ registered' \in BOOLEAN
        /\ UNCHANGED <<orphaned, ifaceVars, handleVars, flagVars, hibernate,
                       failed, swept, crowded>>
    BY <1>13 DEF D0ExitClose, D0ExitDeregister
  <2> QED BY <2>1, <2>2
<1>14. ASSUME D0Entry \/ ReleaseHardware \/ Cleanup \/ Removed PROVE FlagsOK'
  <2>1. CASE D0Entry
    <3>1. hibernate' \in BOOLEAN
      BY <2>1 DEF D0Entry
    <3> QED BY <2>1, <3>1 DEF D0Entry
  <2>2. CASE ReleaseHardware
    BY Zenon, <2>2 DEF ReleaseHardware
  <2>3. CASE Cleanup
    BY Zenon, <2>3 DEF Cleanup
  <2>4. CASE Removed
    BY <2>4 DEF Removed
  <2> QED BY <1>14, <2>1, <2>2, <2>3, <2>4
<1>15. ASSUME UNCHANGED vars PROVE FlagsOK'
  BY <1>15 DEF vars
<1> QED
  BY <1>1, <1>2, <1>3, <1>4, <1>5, <1>6, <1>7, <1>8, <1>9,
     <1>10, <1>11, <1>12, <1>13, <1>14, <1>15 DEF Next, EnsureStep, PowerStep

LEMMA StatesStep == StatesOK /\ [Next]_vars => StatesOK'
<1> SUFFICES ASSUME StatesOK, [Next]_vars PROVE StatesOK'
  OBVIOUS
<1> USE ChannelAssumption
    DEF StatesOK, Openers, Threads, OpenPlaces, EnsurePlaces, Places, Stages, Goto,
        ForgetHandle, ResetApi, history, glinkVars, ifaceVars, handleVars, flagVars,
        powerVars, openVars
<1>1. ASSUME NEW t \in Threads, EnsureStep(t) PROVE StatesOK'
  <2>1. UNCHANGED <<chan, power, got, refused>> /\ handle' \in Channel \cup {NoChannel}
    BY <1>1 DEF EnsureStep, EnsureCheck, EnsureReset, EnsureFill, EnsureFails
  <2>2. PICK p \in Places \ {"assign"} : at' = [at EXCEPT ![t] = p]
    BY <1>1 DEF EnsureStep, EnsureCheck, EnsureReset, EnsureFill, EnsureFails
  <2>3. at[t] # "assign"
    BY <1>1 DEF EnsureStep, EnsureCheck, EnsureReset, EnsureFill, EnsureFails
  <2> QED BY <2>1, <2>2, <2>3
<1>2. ASSUME NEW t \in Openers, OpenStep(t) PROVE StatesOK'
  <2>1. CASE GLinkOpenIsNull(t)
    BY <2>1 DEF GLinkOpenIsNull
  <2>2. CASE ForgetForOpen(t)
    BY <2>2 DEF ForgetForOpen
  <2>3. CASE GLinkOpen(t)
    <3>1. PICK c \in Channel : chan' = [chan EXCEPT ![c] = "open"] /\ got' = [got EXCEPT ![t] = c]
      BY <2>3 DEF GLinkOpen
    <3> QED BY <2>3, <3>1 DEF GLinkOpen
  <2>4. CASE GLinkOpenFails(t)
    BY <2>4 DEF GLinkOpenFails
  <2>5. CASE AssignHandle(t)
    BY <2>5 DEF AssignHandle
  <2> QED BY <1>2, <2>1, <2>2, <2>3, <2>4, <2>5 DEF OpenStep
<1>3. ASSUME LinkCallback PROVE StatesOK'
  <2>1. CASE LinkUp
    BY <2>1 DEF LinkUp
  <2>2. CASE LinkUpDone
    BY <2>2 DEF LinkUpDone
  <2>3. CASE LinkDown
    BY <2>3 DEF LinkDown
  <2> QED BY <1>3, <2>1, <2>2, <2>3 DEF LinkCallback
<1>4. ASSUME NEW c \in Channel, ChannelCallback(c) PROVE StatesOK'
  <2>1. CASE ChannelConnected(c)
    BY <2>1 DEF ChannelConnected
  <2>2. CASE LocalDisconnected(c)
    BY <2>2 DEF LocalDisconnected
  <2>3. CASE RemoteDisconnected(c)
    BY <2>3 DEF RemoteDisconnected
  <2>4. CASE TxDoneOrRxIntent(c)
    BY <2>4 DEF TxDoneOrRxIntent
  <2> QED BY <1>4, <2>1, <2>2, <2>3, <2>4 DEF ChannelCallback
<1>5. ASSUME ForgetClosed \/ AskRestart PROVE StatesOK'
  BY <1>5 DEF ForgetClosed, AskRestart
<1>6. ASSUME ClientRecovers \/ GlinkRemoval PROVE StatesOK'
  BY <1>6 DEF ClientRecovers, GlinkRemoval
<1>7. ASSUME GlinkArrival PROVE StatesOK'
  BY <1>7 DEF GlinkArrival
<1>8. ASSUME RpeStep PROVE StatesOK'
  BY <1>8 DEF RpeStep, Register, DoNotRegister, StoreLinkHandle, StoreRpe
<1>9. ASSUME D0Exit PROVE StatesOK'
  BY <1>9 DEF D0Exit
<1>10. ASSUME D0ExitClose PROVE StatesOK'
  BY <1>10 DEF D0ExitClose, Closed
<1>11. ASSUME D0ExitForgets \/ D0ExitClear \/ D0ExitUnlink PROVE StatesOK'
  BY <1>11 DEF D0ExitForgets, D0ExitClear, D0ExitUnlink, Target
<1>12. ASSUME D0ExitDeregister PROVE StatesOK'
  BY <1>12 DEF D0ExitDeregister, Target
<1>13. ASSUME D0Entry \/ ReleaseHardware \/ Cleanup \/ Removed PROVE StatesOK'
  BY <1>13 DEF D0Entry, ReleaseHardware, Cleanup, Removed
<1>14. ASSUME UNCHANGED vars PROVE StatesOK'
  BY <1>14 DEF vars
<1> QED
  BY <1>1, <1>2, <1>3, <1>4, <1>5, <1>6, <1>7, <1>8, <1>9,
     <1>10, <1>11, <1>12, <1>13, <1>14 DEF Next, PowerStep

LEMMA TypeStep == TypeOK /\ [Next]_vars => TypeOK'
<1>1. TypeOK <=> FlagsOK /\ StatesOK
  BY DEF TypeOK, FlagsOK, StatesOK
<1>2. TypeOK' <=> FlagsOK' /\ StatesOK'
  BY DEF TypeOK, FlagsOK, StatesOK
<1> QED BY <1>1, <1>2, FlagsStep, StatesStep

(* Every variable keeps its type; a thread owns a channel exactly between  *)
(* GLinkOpen, or the callback of GLINK, and the store of the handle.       *)
THEOREM TypeCorrect == Spec => []TypeOK
<1>1. Init => TypeOK
  BY TypeInit
<1>2. TypeOK /\ [Next]_vars => TypeOK'
  BY TypeStep
<1> QED BY <1>1, <1>2, PTL DEF Spec

---------------------------------------------------------------------------
(* The handle to send on.                                                  *)

LEMMA ForgottenStep == TypeOK /\ ClosedIsForgotten /\ [Next]_vars => ClosedIsForgotten'
<1> SUFFICES ASSUME TypeOK, ClosedIsForgotten, [Next]_vars PROVE ClosedIsForgotten'
  OBVIOUS
<1> USE DEF ForgetHandle, ResetApi, history, glinkVars, ifaceVars, handleVars, flagVars,
            powerVars, openVars
<1>a. ASSUME handle' = NoChannel PROVE ClosedIsForgotten'
  BY <1>a DEF ClosedIsForgotten
<1>b. ASSUME UNCHANGED <<chan, handle, stale>>,
             at["channel"] = "closed" => at'["channel"] = "closed",
             power = "forget" => power' = "forget"
      PROVE  ClosedIsForgotten'
  BY <1>b DEF ClosedIsForgotten, Alive
<1>1. ASSUME NEW t \in Threads, EnsureStep(t) PROVE ClosedIsForgotten'
  <2>1. handle' = NoChannel \/ UNCHANGED <<chan, handle, stale, power>>
    BY <1>1 DEF EnsureStep, EnsureCheck, EnsureReset, EnsureFill, EnsureFails
  <2>2. at[t] # "closed" /\ \A u \in Threads \ {t} : at'[u] = at[u]
    BY <1>1 DEF EnsureStep, EnsureCheck, EnsureReset, EnsureFill, EnsureFails, Goto, TypeOK
  <2>3. at["channel"] = "closed" => at'["channel"] = "closed"
    BY <2>2 DEF Threads, Openers
  <2> QED BY <1>a, <1>b, <2>1, <2>3
<1>2. ASSUME NEW t \in Openers, OpenStep(t) PROVE ClosedIsForgotten'
  <2>0. at[t] # "closed" /\ \A u \in Threads \ {t} : at'[u] = at[u]
    BY <1>2 DEF OpenStep, GLinkOpenIsNull, ForgetForOpen, GLinkOpen, GLinkOpenFails,
                AssignHandle, Goto, TypeOK, Threads
  <2>1. at["channel"] = "closed" => at'["channel"] = "closed"
    BY <2>0 DEF Threads, Openers
  <2>2. CASE GLinkOpenIsNull(t)
    BY <1>b, <2>1, <2>2 DEF GLinkOpenIsNull
  <2>3. CASE ForgetForOpen(t) \/ GLinkOpenFails(t)
    BY <1>a, <2>3 DEF ForgetForOpen, GLinkOpenFails
  <2>4. CASE GLinkOpen(t)
    <3>1. \A c \in Channel : Alive(c) => Alive(c)'
      BY <2>4 DEF GLinkOpen, Alive, TypeOK
    <3>2. UNCHANGED <<handle, stale, power>>
      BY <2>4 DEF GLinkOpen
    <3> QED BY <2>1, <3>1, <3>2 DEF ClosedIsForgotten, TypeOK, Alive
  <2>5. CASE AssignHandle(t)
    <3>1. handle' = got[t] /\ stale' = ~Alive(got[t]) /\ chan' = chan
      BY <2>5 DEF AssignHandle
    <3> QED BY <3>1 DEF ClosedIsForgotten, Alive
  <2> QED BY <1>2, <2>2, <2>3, <2>4, <2>5 DEF OpenStep
<1>3. ASSUME LinkCallback \/ ClientRecovers PROVE ClosedIsForgotten'
  BY <1>b, <1>3 DEF LinkCallback, LinkUp, LinkUpDone, LinkDown, ClientRecovers, Goto,
                    TypeOK, Threads, Openers
<1>4. ASSUME NEW c \in Channel, ChannelCallback(c) PROVE ClosedIsForgotten'
  <2>1. at["channel"] # "closed" /\ UNCHANGED <<handle, stale, power>>
    BY <1>4 DEF ChannelCallback, ChannelConnected, LocalDisconnected,
                RemoteDisconnected, TxDoneOrRxIntent
  <2>2. CASE RemoteDisconnected(c)
    <3>1. at'["channel"] = "closed"
      BY <2>2 DEF RemoteDisconnected, Goto, TypeOK, Threads, Openers
    <3> QED BY <3>1 DEF ClosedIsForgotten
  <2>3. CASE ~RemoteDisconnected(c)
    <3>1. \A d \in Channel : Alive(d) => Alive(d)'
      BY <1>4, <2>3 DEF ChannelCallback, ChannelConnected, LocalDisconnected,
                        TxDoneOrRxIntent, Alive, TypeOK
    <3> QED BY <2>1, <3>1 DEF ClosedIsForgotten, TypeOK, Alive
  <2> QED BY <2>2, <2>3
<1>5. ASSUME ForgetClosed PROVE ClosedIsForgotten'
  BY <1>a, <1>5 DEF ForgetClosed
<1>6. ASSUME AskRestart \/ GlinkRemoval PROVE ClosedIsForgotten'
  BY <1>b, <1>6 DEF AskRestart, GlinkRemoval, Goto
<1>7. ASSUME GlinkArrival \/ RpeStep PROVE ClosedIsForgotten'
  <2>1. UNCHANGED <<chan, handle, stale, power>>
    BY <1>7 DEF GlinkArrival, RpeStep, Register, DoNotRegister, StoreLinkHandle, StoreRpe
  <2>2. at'["channel"] = at["channel"]
    BY <1>7 DEF GlinkArrival, RpeStep, Register, DoNotRegister, StoreLinkHandle, StoreRpe,
                Goto, TypeOK, Threads, Openers
  <2> QED BY <1>b, <2>1, <2>2
<1>8. ASSUME D0ExitClose PROVE ClosedIsForgotten'
  BY <1>8 DEF D0ExitClose, ClosedIsForgotten
<1>9. ASSUME D0ExitForgets PROVE ClosedIsForgotten'
  BY <1>a, <1>9 DEF D0ExitForgets
<1>10. ASSUME D0Exit \/ D0ExitClear \/ D0ExitDeregister PROVE ClosedIsForgotten'
  BY <1>b, <1>10 DEF D0Exit, D0ExitClear, D0ExitDeregister, Goto, TypeOK, Threads, Openers
<1>11. ASSUME D0ExitUnlink PROVE ClosedIsForgotten'
  BY <1>a, <1>b, <1>11 DEF D0ExitUnlink
<1>12. ASSUME D0Entry \/ ReleaseHardware \/ Cleanup \/ Removed PROVE ClosedIsForgotten'
  BY <1>a, <1>b, <1>12 DEF D0Entry, ReleaseHardware, Cleanup, Removed
<1>13. ASSUME UNCHANGED vars PROVE ClosedIsForgotten'
  BY <1>b, <1>13 DEF vars
<1> QED
  BY <1>1, <1>2, <1>3, <1>4, <1>5, <1>6, <1>7, <1>8, <1>9, <1>10, <1>11, <1>12, <1>13
     DEF Next, PowerStep

(* A handle whose channel GLINK has closed is gone, or about to be stored  *)
(* over by the caller of GLinkClose, unless it was stored when closed.     *)
THEOREM HandleSound == Spec => []ClosedIsForgotten
<1>1. Init => ClosedIsForgotten
  BY DEF Init, ClosedIsForgotten
<1>2. Spec => []TypeOK
  BY TypeCorrect
<1> QED BY <1>1, <1>2, ForgottenStep, PTL DEF Spec


---------------------------------------------------------------------------
(* The history.                                                            *)

LEMMA HistoryGrows ==
  ASSUME TypeOK, [Next]_vars
  PROVE  /\ swept => swept'
         /\ crowded => crowded'
         /\ late => late'
         /\ refused \subseteq refused'
<1> USE DEF NoteCrowd, history, glinkVars, ifaceVars, handleVars, flagVars, powerVars, openVars
<1> DEFINE Grows == /\ swept => swept'
                    /\ crowded => crowded'
                    /\ late => late'
                    /\ refused \subseteq refused'
<1>0. ASSUME UNCHANGED history PROVE Grows
  BY <1>0
<1>1. ASSUME NEW t \in Threads, EnsureStep(t) PROVE Grows
  <2>1. CASE EnsureReset(t)
    BY <2>1 DEF EnsureReset
  <2>2. CASE EnsureFill(t)
    BY <2>2 DEF EnsureFill
  <2>3. CASE EnsureCheck(t) \/ EnsureFails(t)
    BY <2>3 DEF EnsureCheck, EnsureFails
  <2> QED BY <1>1, <2>1, <2>2, <2>3 DEF EnsureStep
<1>2. ASSUME NEW t \in Openers, OpenStep(t) PROVE Grows
  <2>1. UNCHANGED <<swept, refused>>
    BY <1>2 DEF OpenStep, GLinkOpenIsNull, ForgetForOpen, GLinkOpen, GLinkOpenFails, AssignHandle
  <2>2. crowded' = crowded \/ NoteCrowd(t)
    BY <1>2 DEF OpenStep, GLinkOpenIsNull, ForgetForOpen, GLinkOpen, GLinkOpenFails, AssignHandle
  <2>3. late' = late \/ late' = (late \/ power \notin {"on", "close"})
    BY <1>2 DEF OpenStep, GLinkOpenIsNull, ForgetForOpen, GLinkOpen, GLinkOpenFails, AssignHandle
  <2>4. crowded => crowded'
    BY Zenon, <2>2
  <2>5. late => late'
    BY Zenon, <2>3
  <2> QED BY <2>1, <2>4, <2>5
<1>3. ASSUME LinkCallback \/ AskRestart \/ ClientRecovers PROVE Grows
  BY <1>0, <1>3 DEF LinkCallback, LinkUp, LinkUpDone, LinkDown, AskRestart, ClientRecovers
<1>4. ASSUME NEW c \in Channel, ChannelCallback(c) PROVE Grows
  BY <1>0, <1>4 DEF ChannelCallback, ChannelConnected, LocalDisconnected,
                    RemoteDisconnected, TxDoneOrRxIntent
<1>5. ASSUME ForgetClosed PROVE Grows
  <2>1. UNCHANGED <<swept, late, refused>> /\ NoteCrowd("channel")
    BY <1>5 DEF ForgetClosed
  <2> QED BY <2>1
<1>6. ASSUME Register PROVE Grows
  BY <1>6 DEF Register
<1>7. ASSUME GlinkArrival \/ GlinkRemoval \/ (RpeStep /\ ~Register) PROVE Grows
  BY <1>0, <1>7 DEF GlinkArrival, GlinkRemoval, RpeStep, DoNotRegister, StoreLinkHandle, StoreRpe
<1>8. ASSUME D0ExitClose PROVE Grows
  BY <1>8 DEF D0ExitClose
<1>9. ASSUME D0ExitDeregister PROVE Grows
  BY <1>9 DEF D0ExitDeregister
<1>10. ASSUME PowerStep, ~D0ExitClose, ~D0ExitDeregister PROVE Grows
  BY <1>0, <1>10 DEF PowerStep, D0Exit, D0ExitForgets, D0ExitClear, D0ExitUnlink,
                     D0Entry, ReleaseHardware, Cleanup, Removed
<1>11. ASSUME UNCHANGED vars PROVE Grows
  BY <1>0, <1>11 DEF vars
<1> QED
  BY <1>1, <1>2, <1>3, <1>4, <1>5, <1>6, <1>7, <1>8, <1>9, <1>10, <1>11 DEF Next

---------------------------------------------------------------------------
(* The link-state registration.                                            *)

(* The driver has forgotten a registration, or may have.                   *)
Forgotten == "final" \in refused \/ power \in {"unregister", "removed"}

(* What makes the knowledge of the registration inductive: the place of    *)
(* PnP's thread, and of D0 exit, between GLINK's answer and the handle.    *)
LinkKnown ==
  /\ linkHandle => api /\ (registered \/ power = "unlink")
  /\ registered => linkHandle \/ at["pnp"] = "store" \/ Forgotten
  /\ orphaned => Forgotten
  /\ at["pnp"] = "store" =>
       registered /\ api /\ power \in {"on", "close", "forget", "clear", "deregister"}
  /\ power = "unlink" => at["pnp"] = "idle" /\ rpe /\ (registered => Forgotten)

LEMMA LinkKnownStep ==
  ASSUME TypeOK, LinkKnown, [Next]_vars, ~swept', ~late'
  PROVE  LinkKnown'
<1> USE DEF LinkKnown, Forgotten, ResetApi, history, glinkVars, ifaceVars, handleVars,
            flagVars, powerVars, openVars
<1>0. ASSUME UNCHANGED <<registered, orphaned, api, linkHandle, rpe, refused, power>>,
             at'["pnp"] = at["pnp"]
      PROVE  LinkKnown'
  BY <1>0
<1>1. ASSUME NEW t \in Threads, EnsureStep(t) PROVE LinkKnown'
  <2>0. UNCHANGED <<registered, orphaned, rpe, refused, power>>
    BY <1>1 DEF EnsureStep, EnsureCheck, EnsureReset, EnsureFill, EnsureFails
  <2>1. at'["pnp"] = at["pnp"] \/ (at["pnp"] \in EnsurePlaces /\ at'["pnp"] # "store")
    BY <1>1 DEF EnsureStep, EnsureCheck, EnsureReset, EnsureFill, EnsureFails, Goto,
                TypeOK, EnsurePlaces, Threads, Openers
  <2>2. power = "unlink" => at'["pnp"] = at["pnp"]
    BY <2>1 DEF EnsurePlaces
  <2>3. linkHandle' = linkHandle /\ (api => api')
    <3>1. CASE EnsureReset(t)
      BY <3>1 DEF EnsureReset, TypeOK
    <3>2. CASE EnsureFill(t)
      BY <3>2 DEF EnsureFill
    <3>3. CASE EnsureCheck(t) \/ EnsureFails(t)
      BY <3>3 DEF EnsureCheck, EnsureFails
    <3> QED BY <1>1, <3>1, <3>2, <3>3 DEF EnsureStep
  <2> QED BY <2>0, <2>1, <2>2, <2>3 DEF EnsurePlaces
<1>2. ASSUME NEW t \in Openers, OpenStep(t) PROVE LinkKnown'
  <2>1. UNCHANGED <<registered, orphaned, api, linkHandle, rpe, refused, power>>
    BY <1>2 DEF OpenStep, GLinkOpenIsNull, ForgetForOpen, GLinkOpen, GLinkOpenFails, AssignHandle
  <2>2. at'["pnp"] = at["pnp"]
    BY <1>2 DEF OpenStep, GLinkOpenIsNull, ForgetForOpen, GLinkOpen, GLinkOpenFails,
                AssignHandle, Goto, TypeOK, Threads, Openers
  <2> QED BY <1>0, <2>1, <2>2
<1>3. ASSUME LinkCallback \/ ForgetClosed \/ AskRestart \/ ClientRecovers PROVE LinkKnown'
  <2>1. UNCHANGED <<registered, orphaned, api, linkHandle, rpe, refused, power>>
    BY <1>3 DEF LinkCallback, LinkUp, LinkUpDone, LinkDown, ForgetClosed, AskRestart,
                ClientRecovers
  <2>2. at'["pnp"] = at["pnp"]
    BY <1>3 DEF LinkCallback, LinkUp, LinkUpDone, LinkDown, ForgetClosed, AskRestart,
                ClientRecovers, Goto, TypeOK, Threads, Openers
  <2> QED BY <1>0, <2>1, <2>2
<1>4. ASSUME NEW c \in Channel, ChannelCallback(c) PROVE LinkKnown'
  <2>1. UNCHANGED <<registered, orphaned, api, linkHandle, rpe, refused, power>>
    BY <1>4 DEF ChannelCallback, ChannelConnected, LocalDisconnected,
                RemoteDisconnected, TxDoneOrRxIntent
  <2>2. at'["pnp"] = at["pnp"]
    BY <1>4 DEF ChannelCallback, ChannelConnected, LocalDisconnected,
                RemoteDisconnected, TxDoneOrRxIntent, Goto, TypeOK, Threads, Openers
  <2> QED BY <1>0, <2>1, <2>2
<1>5. ASSUME GlinkArrival \/ GlinkRemoval PROVE LinkKnown'
  <2>1. UNCHANGED <<registered, orphaned, api, linkHandle, rpe, refused, power>>
    BY <1>5 DEF GlinkArrival, GlinkRemoval
  <2>2. at'["pnp"] = at["pnp"] \/ (~rpe /\ at["pnp"] = "idle" /\ at'["pnp"] # "store")
    BY <1>5 DEF GlinkArrival, GlinkRemoval, Goto, TypeOK, Threads, Openers
  <2> QED BY <2>1, <2>2
<1>6. ASSUME RpeStep PROVE LinkKnown'
  <2>0. "pnp" \in Threads
    BY DEF Threads
  <2>1. CASE Register
    <3>1. at["pnp"] = "register" /\ at'["pnp"] = "store"
      BY <2>0, <2>1 DEF Register, Goto, TypeOK
    <3>2. /\ ~linkHandle /\ api /\ registered' = TRUE
          /\ UNCHANGED <<api, linkHandle, rpe, refused, power>>
      BY <2>1 DEF Register
    <3>3. power \in {"on", "close", "forget", "clear", "deregister"}
      BY <2>1 DEF Register
    <3>4. orphaned' => orphaned \/ registered
      BY <2>1 DEF Register
    <3> QED BY <3>1, <3>2, <3>3, <3>4
  <2>2. CASE DoNotRegister
    BY <2>0, <2>2 DEF DoNotRegister, Goto, TypeOK
  <2>3. CASE StoreLinkHandle
    BY <2>0, <2>3 DEF StoreLinkHandle, Goto, TypeOK
  <2>4. CASE StoreRpe
    <3>1. rpe => rpe'
      BY <2>4 DEF StoreRpe
    <3> QED BY <2>0, <2>4, <3>1 DEF StoreRpe, Goto, TypeOK
  <2> QED BY <1>6, <2>1, <2>2, <2>3, <2>4 DEF RpeStep
<1>7. ASSUME D0Exit PROVE LinkKnown'
  <2>1. at'["pnp"] = at["pnp"]
    BY <1>7 DEF D0Exit, Goto, TypeOK, Threads, Openers
  <2> QED BY <1>7, <2>1 DEF D0Exit
<1>8. ASSUME D0ExitClose \/ D0ExitForgets \/ D0ExitClear PROVE LinkKnown'
  BY <1>8 DEF D0ExitClose, D0ExitForgets, D0ExitClear
<1>9. ASSUME D0ExitDeregister PROVE LinkKnown'
  <2>1. at["pnp"] = "idle"
    BY <1>9 DEF D0ExitDeregister
  <2> QED BY <1>9, <2>1 DEF D0ExitDeregister, Target
<1>10. ASSUME D0ExitUnlink PROVE LinkKnown'
  BY <1>10 DEF D0ExitUnlink, Target
<1>11. ASSUME D0Entry \/ ReleaseHardware \/ Cleanup \/ Removed PROVE LinkKnown'
  BY <1>11 DEF D0Entry, ReleaseHardware, Cleanup, Removed
<1>12. ASSUME UNCHANGED vars PROVE LinkKnown'
  BY <1>0, <1>12 DEF vars
<1> QED
  BY <1>1, <1>2, <1>3, <1>4, <1>5, <1>6, <1>7, <1>8, <1>9, <1>10, <1>11, <1>12
     DEF Next, PowerStep

LinkInv == swept \/ late \/ LinkKnown

LEMMA LinkInvariant == Spec => []LinkInv
<1>1. Init => LinkInv
  BY DEF Init, LinkInv, LinkKnown, Threads
<1>2. TypeOK /\ LinkInv /\ [Next]_vars => LinkInv'
  BY LinkKnownStep, HistoryGrows DEF LinkInv
<1>3. Spec => []TypeOK
  BY TypeCorrect
<1> QED BY <1>1, <1>2, <1>3, PTL DEF Spec

(* Unless it was reset in use, or made in the course of D0 exit, the       *)
(* driver never holds a link-state handle without a registration and the   *)
(* interface to undo it, and forgets a registration only at the end.       *)
THEOREM RegistrationKnown == Spec => []RegisteredIsKnown
<1>1. LinkInv => RegisteredIsKnown
  BY DEF LinkInv, LinkKnown, Forgotten, RegisteredIsKnown
<1> QED BY <1>1, LinkInvariant, PTL

---------------------------------------------------------------------------
(* Coverage of a link that is up.                                          *)

Closing == \E c \in Channel : chan[c] = "closing"

(* The channel that the callback has closed stays until it has returned.   *)
ClosingInv == at["channel"] \in {"closed", "forgotten"} => Closing

LEMMA ClosingStep ==
  ASSUME TypeOK, ClosingInv, [Next]_vars
  PROVE  ClosingInv'
<1> USE DEF ClosingInv, Closing, history, glinkVars, ifaceVars, handleVars, flagVars,
            powerVars, openVars
<1>0. ASSUME \A c \in Channel : chan[c] = "closing" => chan'[c] = "closing",
             at'["channel"] \in {"closed", "forgotten"} => at["channel"] \in {"closed", "forgotten"}
      PROVE  ClosingInv'
  BY <1>0
<1>1. ASSUME NEW t \in Threads, EnsureStep(t) PROVE ClosingInv'
  <2>1. /\ chan' = chan
        /\ at'["channel"] \in {"closed", "forgotten"} => at["channel"] \in {"closed", "forgotten"}
    BY <1>1 DEF EnsureStep, EnsureCheck, EnsureReset, EnsureFill, EnsureFails, Goto, TypeOK,
                Threads, Openers
  <2> QED BY <1>0, <2>1
<1>2. ASSUME NEW t \in Openers, OpenStep(t) PROVE ClosingInv'
  <2>1. \A c \in Channel : chan[c] = "closing" => chan'[c] = "closing"
    BY <1>2 DEF OpenStep, GLinkOpenIsNull, ForgetForOpen, GLinkOpen, GLinkOpenFails,
                AssignHandle, TypeOK
  <2>2. at'["channel"] \in {"closed", "forgotten"} => at["channel"] \in {"closed", "forgotten"}
    BY <1>2 DEF OpenStep, GLinkOpenIsNull, ForgetForOpen, GLinkOpen, GLinkOpenFails,
                AssignHandle, Goto, TypeOK, Threads, Openers
  <2> QED BY <1>0, <2>1, <2>2
<1>3. ASSUME LinkCallback \/ ClientRecovers \/ ForgetClosed \/ AskRestart PROVE ClosingInv'
  BY <1>0, <1>3 DEF LinkCallback, LinkUp, LinkUpDone, LinkDown, ClientRecovers,
                    ForgetClosed, AskRestart, Goto, TypeOK, Threads, Openers
<1>4. ASSUME NEW c \in Channel, ChannelCallback(c) PROVE ClosingInv'
  <2>1. CASE RemoteDisconnected(c)
    <3>1. chan'[c] = "closing"
      BY <2>1 DEF RemoteDisconnected, TypeOK
    <3> QED BY <3>1
  <2>2. CASE ~RemoteDisconnected(c)
    <3>1. at'["channel"] \notin {"closed", "forgotten"}
      BY <1>4, <2>2 DEF ChannelCallback, ChannelConnected, LocalDisconnected,
                        TxDoneOrRxIntent, Goto, TypeOK, Threads, Openers
    <3> QED BY <3>1
  <2> QED BY <2>1, <2>2
<1>5. ASSUME GlinkArrival \/ GlinkRemoval \/ RpeStep PROVE ClosingInv'
  <2>1. chan' = chan /\ at'["channel"] = at["channel"]
    BY <1>5 DEF GlinkArrival, GlinkRemoval, RpeStep, Register, DoNotRegister,
                StoreLinkHandle, StoreRpe, Goto, TypeOK, Threads, Openers
  <2> QED BY <2>1
<1>6. ASSUME D0Exit PROVE ClosingInv'
  <2>1. chan' = chan /\ at'["channel"] = at["channel"]
    BY <1>6 DEF D0Exit, Goto, TypeOK, Threads, Openers
  <2> QED BY <2>1
<1>7. ASSUME D0ExitClose PROVE ClosingInv'
  <2>1. at' = at /\ chan' = Closed
    BY <1>7 DEF D0ExitClose
  <2> QED BY <1>0, <2>1 DEF Closed
<1>8. ASSUME PowerStep, ~D0Exit, ~D0ExitClose PROVE ClosingInv'
  <2>1. at' = at /\ chan' = chan
    BY <1>8 DEF PowerStep, D0ExitForgets, D0ExitClear, D0ExitDeregister, D0ExitUnlink,
                D0Entry, ReleaseHardware, Cleanup, Removed
  <2> QED BY <2>1
<1>9. ASSUME UNCHANGED vars PROVE ClosingInv'
  BY <1>0, <1>9 DEF vars
<1> QED BY <1>1, <1>2, <1>3, <1>4, <1>5, <1>6, <1>7, <1>8, <1>9 DEF Next

(* In D0 every step but the end of the link-state callback leaves a        *)
(* channel, or somebody to open one.                                       *)
LEMMA CoveredStep ==
  ASSUME TypeOK, ClosingInv, [Next]_vars, Covered, power = "on",
         ~(at["link"] = "done" /\ at'["link"] = "idle")
  PROVE  Covered'
<1> DEFINE Waiting == \/ at["channel"] \in {"closed", "forgotten"}
                      \/ \E t \in Openers : at[t] \in OpenPlaces
           Living  == \E c \in Channel : chan[c] \in {"open", "connected"}
<1>u. /\ Covered <=> (linkUp => Living \/ (restart /\ Closing) \/ Waiting \/ failed)
      /\ Covered' <=> (linkUp' => Living' \/ (restart' /\ Closing') \/ Waiting' \/ failed')
  BY DEF Covered, Alive, Closing
<1> HIDE DEF Living
<1> USE DEF history, glinkVars, ifaceVars, handleVars, flagVars, powerVars, openVars
<1>a. ASSUME NEW t \in Openers, at'[t] \in OpenPlaces PROVE Covered'
  BY <1>a, <1>u
<1>b. ASSUME UNCHANGED <<chan, linkUp, restart, failed>>, Waiting => Waiting' PROVE Covered'
  BY <1>b, <1>u DEF Living, Closing
<1>c. ASSUME ~linkUp' PROVE Covered'
  BY <1>c DEF Covered
<1>d. ASSUME UNCHANGED <<chan, linkUp, restart, failed>>,
             \A t \in Openers : at'[t] = at[t]
      PROVE  Covered'
  BY <1>b, <1>d DEF Openers
<1>1. ASSUME NEW t \in Threads, EnsureStep(t) PROVE Covered'
  <2>1. CASE t = "pnp"
    <3>1. UNCHANGED <<chan, linkUp, restart>>
      BY <1>1 DEF EnsureStep, EnsureCheck, EnsureReset, EnsureFill, EnsureFails
    <3>2. \A u \in Openers : at'[u] = at[u]
      BY <1>1, <2>1 DEF EnsureStep, EnsureCheck, EnsureReset, EnsureFill, EnsureFails,
                        Goto, TypeOK, Threads, Openers
    <3>3. failed => failed'
      BY <1>1 DEF EnsureStep, EnsureCheck, EnsureReset, EnsureFill, EnsureFails
    <3> QED BY <3>1, <3>2, <3>3, <1>u DEF Living, Closing, Openers
  <2>2. CASE EnsureFails(t) /\ t # "pnp"
    <3>1. failed'
      BY <2>2 DEF EnsureFails
    <3> QED BY <3>1, <1>u
  <2>3. CASE t # "pnp" /\ ~EnsureFails(t)
    <3>1. at'[t] \in OpenPlaces
      BY <1>1, <2>3 DEF EnsureStep, EnsureCheck, EnsureReset, EnsureFill, Goto, TypeOK,
                        OpenPlaces, EnsurePlaces
    <3> QED BY <1>a, <2>3, <3>1 DEF Threads
  <2> QED BY <2>1, <2>2, <2>3
<1>2. ASSUME NEW t \in Openers, OpenStep(t) PROVE Covered'
  <2>1. CASE GLinkOpenIsNull(t) \/ GLinkOpenFails(t)
    <3>1. failed'
      BY <2>1 DEF GLinkOpenIsNull, GLinkOpenFails
    <3> QED BY <3>1, <1>u
  <2>2. CASE ForgetForOpen(t)
    <3>1. at'[t] \in OpenPlaces
      BY <2>2 DEF ForgetForOpen, Goto, TypeOK, OpenPlaces, Threads
    <3> QED BY <1>a, <3>1
  <2>3. CASE GLinkOpen(t)
    <3>1. Living'
      BY <2>3 DEF GLinkOpen, TypeOK, Living
    <3> QED BY <3>1, <1>u
  <2>4. CASE AssignHandle(t)
    <3>1. UNCHANGED <<chan, linkUp, restart, failed>>
      BY <2>4 DEF AssignHandle
    <3>2. Waiting => Waiting'
      BY <2>4 DEF AssignHandle, Goto, TypeOK, Threads, Openers, OpenPlaces, EnsurePlaces
    <3> QED BY <1>b, <3>1, <3>2
  <2> QED BY <1>2, <2>1, <2>2, <2>3, <2>4 DEF OpenStep
<1>3. ASSUME LinkCallback \/ ClientRecovers PROVE Covered'
  <2>1. CASE LinkUp \/ ClientRecovers
    <3>1. PICK t \in Openers : at' = [at EXCEPT ![t] = "ensure"]
      BY <2>1 DEF LinkUp, ClientRecovers, Goto, Openers
    <3>2. at'[t] \in OpenPlaces
      BY <3>1 DEF TypeOK, Threads, OpenPlaces, EnsurePlaces
    <3> QED BY <1>a, <3>2
  <2>2. CASE LinkUpDone
    BY <2>2 DEF LinkUpDone, Goto, TypeOK, Threads, Openers
  <2>3. CASE LinkDown
    BY <1>c, <2>3 DEF LinkDown
  <2> QED BY <1>3, <2>1, <2>2, <2>3 DEF LinkCallback
<1>4. ASSUME NEW c \in Channel, ChannelCallback(c) PROVE Covered'
  <2>1. CASE ChannelConnected(c)
    <3>1. Living'
      BY <2>1 DEF ChannelConnected, TypeOK, Living
    <3> QED BY <3>1, <1>u
  <2>2. CASE LocalDisconnected(c)
    <3>1. CASE linkUp /\ restart
      <4>1. at'["channel"] = "ensure"
        BY <2>2, <3>1 DEF LocalDisconnected, Goto, TypeOK, Threads, Openers
      <4> QED BY <1>a, <4>1 DEF Openers, OpenPlaces, EnsurePlaces
    <3>2. CASE linkUp /\ ~restart
      <4>1. UNCHANGED <<linkUp, restart, failed, at>>
        BY <2>2, <3>2 DEF LocalDisconnected
      <4>2. Living => Living'
        BY <2>2 DEF LocalDisconnected, TypeOK, Living
      <4> QED BY <3>2, <4>1, <4>2, <1>u
    <3>3. CASE ~linkUp
      BY <1>c, <2>2, <3>3 DEF LocalDisconnected
    <3> QED BY <3>1, <3>2, <3>3
  <2>3. CASE RemoteDisconnected(c)
    <3>1. at'["channel"] = "closed"
      BY <2>3 DEF RemoteDisconnected, Goto, TypeOK, Threads, Openers
    <3> QED BY <3>1, <1>u
  <2>4. CASE TxDoneOrRxIntent(c)
    <3>1. UNCHANGED <<chan, linkUp, restart, failed>> /\ at["channel"] = "idle"
      BY <2>4 DEF TxDoneOrRxIntent
    <3>2. \A t \in Openers \ {"channel"} : at'[t] = at[t]
      BY <2>4 DEF TxDoneOrRxIntent, Goto, TypeOK, Threads
    <3>3. Waiting => Waiting'
      BY <3>1, <3>2 DEF OpenPlaces, EnsurePlaces
    <3> QED BY <1>b, <3>1, <3>3
  <2> QED BY <1>4, <2>1, <2>2, <2>3, <2>4 DEF ChannelCallback
<1>5. ASSUME ForgetClosed PROVE Covered'
  <2>1. at'["channel"] = "forgotten"
    BY <1>5 DEF ForgetClosed, Goto, TypeOK, Threads, Openers
  <2> QED BY <2>1, <1>u
<1>6. ASSUME AskRestart PROVE Covered'
  <2>1. chan' = chan /\ restart' = TRUE /\ at["channel"] = "forgotten"
    BY <1>6 DEF AskRestart
  <2> QED BY <2>1, <1>u DEF ClosingInv, Closing
<1>7. ASSUME GlinkArrival \/ RpeStep PROVE Covered'
  <2>1. UNCHANGED <<chan, linkUp, restart, failed>>
    BY <1>7 DEF GlinkArrival, RpeStep, Register, DoNotRegister, StoreLinkHandle, StoreRpe
  <2>2. \A t \in Openers : at'[t] = at[t]
    BY <1>7 DEF GlinkArrival, RpeStep, Register, DoNotRegister, StoreLinkHandle, StoreRpe,
                Goto, TypeOK, Threads, Openers
  <2> QED BY <1>d, <2>1, <2>2
<1>8. ASSUME GlinkRemoval PROVE Covered'
  BY <1>c, <1>8 DEF GlinkRemoval
<1>9. ASSUME PowerStep PROVE Covered'
  <2>0. D0Exit
    BY <1>9 DEF PowerStep, D0ExitClose, D0ExitForgets, D0ExitClear, D0ExitDeregister,
                D0ExitUnlink, D0Entry, ReleaseHardware, Cleanup, Removed
  <2>1. UNCHANGED <<chan, linkUp, restart, failed>>
    BY <2>0 DEF D0Exit
  <2>2. CASE at' = at
    BY <1>d, <2>1, <2>2
  <2>3. CASE at' = [at EXCEPT !["power"] = "ensure"]
    <3>1. at'["power"] \in OpenPlaces
      BY <2>3 DEF TypeOK, Threads, Openers, OpenPlaces, EnsurePlaces
    <3> QED BY <1>a, <3>1 DEF Openers
  <2> QED BY <2>0, <2>2, <2>3 DEF D0Exit, Goto
<1>10. ASSUME UNCHANGED vars PROVE Covered'
  BY <1>d, <1>10 DEF vars
<1> QED
  BY <1>1, <1>2, <1>3, <1>4, <1>5, <1>6, <1>7, <1>8, <1>9, <1>10 DEF Next

(* A link that is up loses its channel for good, with nobody to reopen it, *)
(* at no other place than the end of the link-state callback.              *)
THEOREM LinkCovered == Spec => OnlyLinkUpStops
<1>1. TypeOK /\ ClosingInv /\ [Next]_vars =>
        [Covered /\ ~Covered' /\ power = "on"
           => at["link"] = "done" /\ at'["link"] = "idle"]_vars
  BY CoveredStep
<1>2. Init => ClosingInv
  BY DEF Init, ClosingInv, Threads, Openers
<1>3. TypeOK /\ ClosingInv /\ [Next]_vars => ClosingInv'
  BY ClosingStep
<1>4. Spec => []TypeOK
  BY TypeCorrect
<1> QED BY <1>1, <1>2, <1>3, <1>4, PTL DEF Spec, OnlyLinkUpStops

---------------------------------------------------------------------------
(* The end of the device.                                                  *)

(* What is excused, for good.                                              *)
Excused == crowded \/ late \/ swept \/ refused # {}

(* There is one channel at most, the driver can close it and knows it, and *)
(* it does not outlive the close in D0 exit.                               *)
QuietChannels ==
  /\ \A c, d \in Channel : Alive(c) /\ Alive(d) => c = d
  /\ \A c \in Channel : Alive(c) =>
       /\ api
       /\ handle = c \/ \E t \in Openers : got[t] = c
       /\ power \in {"on", "close"}

(* A registration is on record, or about to be, until the deregistration   *)
(* in D0 exit, and gone after it.                                          *)
QuietLink ==
  /\ ~orphaned
  /\ registered => /\ rpe \/ at["pnp"] \in {"store", "rpe"}
                   /\ power \in {"on", "close", "forget", "clear", "deregister"}

QuietInv == Excused \/ (QuietChannels /\ QuietLink)

LEMMA QuietLinkStep ==
  ASSUME TypeOK, LinkKnown, QuietLink, [Next]_vars, ~Excused, ~Excused'
  PROVE  QuietLink'
<1>u. /\ ~late' /\ refused' = {} /\ refused = {}
  BY DEF Excused
<1>k. registered => linkHandle \/ at["pnp"] = "store"
  BY <1>u DEF LinkKnown, Forgotten, QuietLink
<1> USE DEF QuietLink, history, glinkVars, ifaceVars, handleVars, flagVars, powerVars, openVars
<1>0. ASSUME UNCHANGED <<registered, orphaned, rpe, power>>, at'["pnp"] = at["pnp"]
      PROVE  QuietLink'
  BY <1>0
<1>1. ASSUME NEW t \in Threads, EnsureStep(t) PROVE QuietLink'
  <2>1. UNCHANGED <<registered, orphaned, rpe, power>>
    BY <1>1 DEF EnsureStep, EnsureCheck, EnsureReset, EnsureFill, EnsureFails
  <2>2. at'["pnp"] = at["pnp"] \/ at["pnp"] \in EnsurePlaces
    BY <1>1 DEF EnsureStep, EnsureCheck, EnsureReset, EnsureFill, EnsureFails, Goto,
                TypeOK, EnsurePlaces, Threads, Openers
  <2> QED BY <2>1, <2>2 DEF EnsurePlaces
<1>2. ASSUME NEW t \in Openers, OpenStep(t) PROVE QuietLink'
  <2>1. UNCHANGED <<registered, orphaned, rpe, power>>
    BY <1>2 DEF OpenStep, GLinkOpenIsNull, ForgetForOpen, GLinkOpen, GLinkOpenFails, AssignHandle
  <2>2. at'["pnp"] = at["pnp"]
    BY <1>2 DEF OpenStep, GLinkOpenIsNull, ForgetForOpen, GLinkOpen, GLinkOpenFails,
                AssignHandle, Goto, TypeOK, Threads, Openers
  <2> QED BY <1>0, <2>1, <2>2
<1>3. ASSUME LinkCallback \/ ForgetClosed \/ AskRestart \/ ClientRecovers PROVE QuietLink'
  <2>1. UNCHANGED <<registered, orphaned, rpe, power>>
    BY <1>3 DEF LinkCallback, LinkUp, LinkUpDone, LinkDown, ForgetClosed, AskRestart,
                ClientRecovers
  <2>2. at'["pnp"] = at["pnp"]
    BY <1>3 DEF LinkCallback, LinkUp, LinkUpDone, LinkDown, ForgetClosed, AskRestart,
                ClientRecovers, Goto, TypeOK, Threads, Openers
  <2> QED BY <1>0, <2>1, <2>2
<1>4. ASSUME NEW c \in Channel, ChannelCallback(c) PROVE QuietLink'
  <2>1. UNCHANGED <<registered, orphaned, rpe, power>>
    BY <1>4 DEF ChannelCallback, ChannelConnected, LocalDisconnected,
                RemoteDisconnected, TxDoneOrRxIntent
  <2>2. at'["pnp"] = at["pnp"]
    BY <1>4 DEF ChannelCallback, ChannelConnected, LocalDisconnected,
                RemoteDisconnected, TxDoneOrRxIntent, Goto, TypeOK, Threads, Openers
  <2> QED BY <1>0, <2>1, <2>2
<1>5. ASSUME GlinkArrival \/ GlinkRemoval PROVE QuietLink'
  <2>1. UNCHANGED <<registered, orphaned, rpe, power>> /\ at["pnp"] = "idle"
    BY <1>5 DEF GlinkArrival, GlinkRemoval
  <2> QED BY <2>1
<1>6. ASSUME RpeStep PROVE QuietLink'
  <2>0. "pnp" \in Threads
    BY DEF Threads
  <2>1. CASE Register
    <3>1. at["pnp"] = "register" /\ at'["pnp"] = "store"
      BY <2>0, <2>1 DEF Register, Goto, TypeOK
    <3>2. ~linkHandle /\ UNCHANGED <<rpe, power>>
      BY <2>1 DEF Register
    <3>3. power \in {"on", "close", "forget", "clear", "deregister"}
      BY <1>u, <2>1 DEF Register
    <3>4. orphaned' = (orphaned \/ registered)
      BY <2>1 DEF Register
    <3>5. ~registered
      BY <1>k, <3>1, <3>2
    <3> QED BY <3>1, <3>2, <3>3, <3>4, <3>5
  <2>2. CASE DoNotRegister
    BY <2>0, <2>2 DEF DoNotRegister, Goto, TypeOK
  <2>3. CASE StoreLinkHandle
    BY <2>0, <2>3 DEF StoreLinkHandle, Goto, TypeOK
  <2>4. CASE StoreRpe
    <3>1. UNCHANGED <<registered, orphaned, power>> /\ at["pnp"] = "rpe"
      BY <2>4 DEF StoreRpe
    <3>2. linkHandle => rpe'
      BY <2>4 DEF StoreRpe
    <3> QED BY <1>k, <3>1, <3>2
  <2> QED BY <1>6, <2>1, <2>2, <2>3, <2>4 DEF RpeStep
<1>7. ASSUME D0Exit PROVE QuietLink'
  <2>1. at'["pnp"] = at["pnp"]
    BY <1>7 DEF D0Exit, Goto, TypeOK, Threads, Openers
  <2> QED BY <1>7, <2>1 DEF D0Exit
<1>8. ASSUME D0ExitClose \/ D0ExitForgets \/ D0ExitClear PROVE QuietLink'
  BY <1>8 DEF D0ExitClose, D0ExitForgets, D0ExitClear
<1>9. ASSUME D0ExitDeregister PROVE QuietLink'
  <2>1. at["pnp"] = "idle" /\ UNCHANGED orphaned
    BY <1>u, <1>9 DEF D0ExitDeregister
  <2>2. registered => rpe /\ linkHandle
    BY <1>k, <2>1
  <2>3. ~registered'
    BY <1>u, <1>9, <2>2 DEF D0ExitDeregister
  <2> QED BY <2>1, <2>3
<1>10. ASSUME D0ExitUnlink \/ D0Entry \/ ReleaseHardware \/ Cleanup \/ Removed
       PROVE  QuietLink'
  <2>1. UNCHANGED <<registered, orphaned>>
    BY <1>10 DEF D0ExitUnlink, D0Entry, ReleaseHardware, Cleanup, Removed
  <2>2. power \in {"unlink", "asleep", "final", "released", "unregister"}
    BY <1>10 DEF D0ExitUnlink, D0Entry, ReleaseHardware, Cleanup, Removed
  <2> QED BY <2>1, <2>2
<1>11. ASSUME UNCHANGED vars PROVE QuietLink'
  BY <1>0, <1>11 DEF vars
<1> QED
  BY <1>1, <1>2, <1>3, <1>4, <1>5, <1>6, <1>7, <1>8, <1>9, <1>10, <1>11
     DEF Next, PowerStep

LEMMA QuietChannelsStep ==
  ASSUME TypeOK, QuietChannels, [Next]_vars, ~Excused'
  PROVE  QuietChannels'
<1> USE DEF history, glinkVars, ifaceVars, handleVars, flagVars, powerVars, openVars
<1>u. ~crowded' /\ ~late' /\ ~swept' /\ TypeOK'
  BY TypeStep DEF Excused
<1>a. ASSUME \A c \in Channel : ~Alive(c), UNCHANGED chan PROVE QuietChannels'
  BY <1>a DEF QuietChannels, Alive
<1>b. ASSUME UNCHANGED <<chan, handle, got>>, api => api',
             power \in {"on", "close"} => power' \in {"on", "close"}
      PROVE  QuietChannels'
  BY <1>b DEF QuietChannels, Alive
<1>c. ASSUME NEW t \in Threads, NoteCrowd(t), at[t] # "assign"
      PROVE  \A c \in Channel : ~Alive(c)
  <2>1. \A c \in Channel \ {got[t]} : ~Alive(c)
    BY Zenon, <1>u, <1>c DEF NoteCrowd
  <2>2. got[t] \notin Channel
    BY <1>c, ChannelAssumption DEF TypeOK
  <2> QED BY <2>1, <2>2
<1>o. Openers \subseteq Threads
  BY DEF Threads
<1>1. ASSUME NEW t \in Threads, EnsureStep(t) PROVE QuietChannels'
  <2>1. CASE EnsureReset(t)
    <3>1. chan' = chan /\ ~api
      BY <1>u, <2>1 DEF EnsureReset
    <3> QED BY <1>a, <3>1 DEF QuietChannels
  <2>2. CASE EnsureFill(t)
    <3>1. api => api'
      BY <1>u, <2>2 DEF EnsureFill
    <3> QED BY <1>b, <2>2, <3>1 DEF EnsureFill
  <2>3. CASE EnsureCheck(t) \/ EnsureFails(t)
    BY <1>b, <2>3 DEF EnsureCheck, EnsureFails
  <2> QED BY <1>1, <2>1, <2>2, <2>3 DEF EnsureStep
<1>2. ASSUME NEW t \in Openers, OpenStep(t) PROVE QuietChannels'
  <2>1. CASE GLinkOpenIsNull(t)
    BY <1>b, <2>1 DEF GLinkOpenIsNull
  <2>2. CASE ForgetForOpen(t) \/ GLinkOpenFails(t)
    <3>1. NoteCrowd(t) /\ at[t] # "assign" /\ chan' = chan
      BY <2>2 DEF ForgetForOpen, GLinkOpenFails
    <3> QED BY <1>a, <1>c, <1>o, <3>1
  <2>3. CASE GLinkOpen(t)
    <3>1. \A c \in Channel : ~Alive(c)
      BY <1>c, <1>o, <2>3 DEF GLinkOpen
    <3>2. PICK d \in Channel : chan' = [chan EXCEPT ![d] = "open"] /\ got' = [got EXCEPT ![t] = d]
      BY <2>3 DEF GLinkOpen
    <3>3. \A c \in Channel : Alive(c)' => c = d
      BY <3>1, <3>2 DEF Alive, TypeOK
    <3>4. got'[t] = d
      BY <1>o, <3>2 DEF TypeOK
    <3>5. api' /\ power' = power
      BY <2>3 DEF GLinkOpen
    <3>6. power \in {"on", "close"}
      BY Zenon, <1>u, <2>3 DEF GLinkOpen
    <3> QED BY <3>3, <3>4, <3>5, <3>6 DEF QuietChannels
  <2>4. CASE AssignHandle(t)
    <3>1. UNCHANGED <<chan, api, power>> /\ handle' = got[t] /\ NoteCrowd(t)
      BY <2>4 DEF AssignHandle
    <3>2. \A c \in Channel \ {got[t]} : ~Alive(c)
      BY Zenon, <1>u, <3>1 DEF NoteCrowd
    <3> QED BY <3>1, <3>2 DEF QuietChannels, Alive
  <2> QED BY <1>2, <2>1, <2>2, <2>3, <2>4 DEF OpenStep
<1>3. ASSUME LinkCallback \/ AskRestart \/ ClientRecovers PROVE QuietChannels'
  BY <1>b, <1>3 DEF LinkCallback, LinkUp, LinkUpDone, LinkDown, AskRestart, ClientRecovers
<1>4. ASSUME NEW c \in Channel, ChannelCallback(c) PROVE QuietChannels'
  <2>1. CASE ChannelConnected(c) \/ TxDoneOrRxIntent(c)
    <3>1. UNCHANGED <<api, power>> /\ Alive(c)
      BY <2>1 DEF ChannelConnected, TxDoneOrRxIntent, Alive
    <3>2. \A d \in Channel : Alive(d)' => Alive(d)
      BY <2>1 DEF ChannelConnected, TxDoneOrRxIntent, Alive, TypeOK
    <3>3. got'["channel"] = c
      BY <2>1 DEF ChannelConnected, TxDoneOrRxIntent, TypeOK, Threads, Openers
    <3>4. \A d \in Channel : Alive(d)' => d = c
      BY <3>1, <3>2 DEF QuietChannels
    <3> QED BY <3>1, <3>3, <3>4 DEF QuietChannels, Openers
  <2>2. CASE LocalDisconnected(c)
    <3>1. UNCHANGED <<api, power, handle, got>>
      BY <2>2 DEF LocalDisconnected
    <3>2. \A d \in Channel : Alive(d)' => Alive(d)
      BY <2>2 DEF LocalDisconnected, Alive, TypeOK
    <3> QED BY <3>1, <3>2 DEF QuietChannels
  <2>3. CASE RemoteDisconnected(c)
    <3>1. Alive(c) /\ \A d \in Channel : Alive(d)' => d # c /\ Alive(d)
      BY <2>3 DEF RemoteDisconnected, Alive, TypeOK
    <3> QED BY <3>1 DEF QuietChannels
  <2> QED BY <1>4, <2>1, <2>2, <2>3 DEF ChannelCallback
<1>5. ASSUME ForgetClosed PROVE QuietChannels'
  <2>1. NoteCrowd("channel") /\ at["channel"] # "assign" /\ chan' = chan
    BY <1>5 DEF ForgetClosed
  <2>2. "channel" \in Threads
    BY DEF Threads, Openers
  <2> QED BY <1>a, <1>c, <2>1, <2>2
<1>6. ASSUME GlinkArrival \/ RpeStep \/ GlinkRemoval PROVE QuietChannels'
  BY <1>b, <1>6 DEF GlinkArrival, GlinkRemoval, RpeStep, Register, DoNotRegister,
                    StoreLinkHandle, StoreRpe
<1>7. ASSUME D0Exit PROVE QuietChannels'
  BY <1>b, <1>7 DEF D0Exit
<1>8. ASSUME D0ExitClose PROVE QuietChannels'
  <2>1. \A t \in Openers : at[t] # "assign"
    BY <1>u, <1>8 DEF D0ExitClose, Opening
  <2>2. \A t \in Openers : got[t] \notin Channel
    BY <1>o, <2>1, ChannelAssumption DEF TypeOK
  <2>3. \A c \in Channel : Alive(c) => api /\ handle = c
    BY <2>2 DEF QuietChannels
  <2>4. \A c \in Channel : ~Alive(c)'
    BY <1>8, <2>3 DEF D0ExitClose, Closed, Alive
  <2> QED BY <2>4 DEF QuietChannels
<1>9. ASSUME PowerStep, ~D0Exit, ~D0ExitClose PROVE QuietChannels'
  <2>1. chan' = chan /\ power \notin {"on", "close"}
    BY <1>9 DEF PowerStep, D0ExitForgets, D0ExitClear, D0ExitDeregister, D0ExitUnlink,
                D0Entry, ReleaseHardware, Cleanup, Removed
  <2> QED BY <1>a, <2>1 DEF QuietChannels
<1>10. ASSUME UNCHANGED vars PROVE QuietChannels'
  BY <1>b, <1>10 DEF vars
<1> QED
  BY <1>1, <1>2, <1>3, <1>4, <1>5, <1>6, <1>7, <1>8, <1>9, <1>10 DEF Next

LEMMA ExcusedStays == TypeOK /\ Excused /\ [Next]_vars => Excused'
BY HistoryGrows DEF Excused

(* Nothing can call a removed device back, but for the excuses.            *)
THEOREM RemovalQuiet == Spec => []RemovedIsQuiet
<1>1. Init => QuietInv
  BY DEF Init, QuietInv, QuietChannels, QuietLink, Alive
<1>2. TypeOK /\ LinkInv /\ QuietInv /\ [Next]_vars => QuietInv'
  <2> SUFFICES ASSUME TypeOK, LinkInv, QuietInv, [Next]_vars, ~Excused' PROVE QuietInv'
    BY DEF QuietInv
  <2>1. ~Excused
    BY ExcusedStays
  <2>2. LinkKnown
    BY <2>1 DEF LinkInv, Excused
  <2> QED BY <2>1, <2>2, QuietLinkStep, QuietChannelsStep DEF QuietInv
<1>3. TypeOK /\ QuietInv => RemovedIsQuiet
  BY DEF TypeOK, QuietInv, Excused, QuietChannels, QuietLink, RemovedIsQuiet
<1> QED BY <1>1, <1>2, <1>3, TypeCorrect, LinkInvariant, PTL DEF Spec
=============================================================================
