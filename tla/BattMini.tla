------------------------------- MODULE BattMini -------------------------------
(***************************************************************************)
(* The battery miniclass of the PMIC GLINK driver (battery.c): how it is   *)
(* attached, how it is told of a change of the battery's state, and the    *)
(* refresh timer that polls it in case the firmware or a notification is   *)
(* lost.                                                                   *)
(*                                                                         *)
(* An attachment is an I/O target (created once and opened again) and the  *)
(* flag BattMiniDeviceLoaded.  PnP callbacks and the notification work     *)
(* under BattMiniNotifyLock; PmicGlinkTryAttachBattMiniNoPnp, called by    *)
(* the I/O queue, by the timer and by the boot-refresh work item, does     *)
(* not.  Notifications pass a global flag, gPmicGlinkNotifyGo, which each  *)
(* sets on entry and the others' sends reset.                              *)
(*                                                                         *)
(* The flags Notify, LegacyStatusNotificationPending and                   *)
(* LegacyStateChangePending and the queries that the boot refresh sends    *)
(* are left out, and so are the BCL callback and the NotificationFlag.     *)
(* Two starts that create the timer at the same time, as is possible only  *)
(* when PmicGlink_Init could not create it, come one after the other here. *)
(***************************************************************************)
EXTENDS Naturals

CONSTANT MaxBoots  (* bound on the boot-refresh work items in the queue    *)

ASSUME BattMiniAssumption == MaxBoots \in Nat

(* The I/O queue, the timer function, the boot-refresh work item, the      *)
(* notification work item, the PnP callback, the channel's state callback  *)
(* and the power callbacks.                                                *)
Attachers == {"queue", "timer", "boot"}
Notifiers == {"timer", "boot", "notify"}
Threads   == Attachers \cup Notifiers \cup {"pnp", "channel", "power"}

VARIABLES
  pc,         (* where each thread is                                      *)
  loaded,     (* BattMiniDeviceLoaded                                      *)
  target,     (* BattMiniIoTarget: none, closed or open                    *)
  go,         (* gPmicGlinkNotifyGo # 0                                    *)
  timer,      (* LegacyBatteryRefreshTimer: none, stopped or armed         *)
  boots,      (* boot-refresh work items queued                            *)
  connected,  (* GlinkChannelConnected                                     *)
  hibernate,  (* Hibernate                                                 *)
  crowd,      (* history: threads that open the target while another does, *)
              (* or while the attachment is given up                       *)
  hit         (* history: threads between the two looks at the go flag     *)
              (* when another's send resets it                             *)

attachVars == <<loaded, target, crowd>>
notifyVars == <<go, hit>>
linkVars   == <<connected, hibernate>>
vars == <<pc, attachVars, notifyVars, timer, boots, linkVars>>

(* A thread that has found the miniclass unattached and opens it.          *)
Opening == {"open", "probe", "close", "store", "arrived"}
Locking == {"send", "status", "arrived"}
Places == Opening \cup Locking \cup
          {"idle", "attach", "ping", "go", "acquire", "rearm", "start", "stop",
           "disconnect", "clear", "asleep"}

Goto(t, place) == pc' = [pc EXCEPT ![t] = place]

(* BattMiniNotifyLock is free.                                             *)
Unlocked == \A t \in Threads : pc[t] \notin Locking

Openers == {t \in Threads : pc[t] \in Opening}

(* Thread t begins to open the target, or gives the attachment up ...      *)
NoteOpening(t) == crowd' = IF Openers = {} THEN crowd ELSE crowd \cup Openers \cup {t}
NoteLoss == crowd' = crowd \cup Openers

(* ... and what it does when it has done with attaching or notifying.      *)
Attached(t) == Goto(t, IF t \in Notifiers THEN "ping" ELSE "idle")
Notified(t) == Goto(t, IF t = "timer" THEN "rearm" ELSE "idle")

(* PmicGlinkCloseIoTargetIfOpen; the target is never deleted.              *)
Closed == IF target = "none" THEN "none" ELSE "closed"

(* PmicGlinkStartLegacyBatteryRefreshTimer creates the timer when there is *)
(* none, and does nothing when it cannot.                                  *)
StartTimer ==
  \/ timer' = "armed"
  \/ timer = "none" /\ UNCHANGED timer

StopTimer == timer' = IF timer = "none" THEN "none" ELSE "stopped"

---------------------------------------------------------------------------
(* Attaching without PnP: PmicGlinkTryAttachBattMiniFromIoctl and          *)
(* PmicGlinkTryAttachBattMiniNoPnp.                                        *)

QueueRequest ==
  /\ pc["queue"] = "idle"
  /\ Goto("queue", "attach")
  /\ UNCHANGED <<attachVars, notifyVars, timer, boots, linkVars>>

(* Nothing is done when attached, nor (at will here) within two seconds of *)
(* the last attempt.                                                       *)
AttachSkipped(t) ==
  /\ pc[t] = "attach"
  /\ Attached(t)
  /\ UNCHANGED <<attachVars, notifyVars, timer, boots, linkVars>>

AttachBegins(t) ==
  /\ pc[t] = "attach"
  /\ ~loaded
  /\ NoteOpening(t)
  /\ Goto(t, "open")
  /\ UNCHANGED <<loaded, target, notifyVars, timer, boots, linkVars>>

(* The next interface of the lists.  A target that is open cannot be       *)
(* opened; creating or opening it may fail.                                *)
AttachOpen(t) ==
  /\ pc[t] = "open"
  /\ \/ /\ target # "open"
        /\ target' = "open"
        /\ Goto(t, "probe")
     \/ /\ target' \in {target, IF target = "none" THEN "closed" ELSE target}
        /\ Goto(t, "close")
  /\ UNCHANGED <<loaded, crowd, notifyVars, timer, boots, linkVars>>

AttachProbe(t) ==
  /\ pc[t] = "probe"
  /\ \/ Goto(t, "store")
     \/ Goto(t, "close")
  /\ UNCHANGED <<attachVars, notifyVars, timer, boots, linkVars>>

AttachClose(t) ==
  /\ pc[t] = "close"
  /\ target' = Closed
  /\ Goto(t, "open")
  /\ UNCHANGED <<loaded, crowd, notifyVars, timer, boots, linkVars>>

AttachStore(t) ==
  /\ pc[t] = "store"
  /\ loaded' = TRUE
  /\ crowd' = crowd \ {t}
  /\ IF connected /\ ~hibernate THEN StartTimer ELSE UNCHANGED timer
  /\ Attached(t)
  /\ UNCHANGED <<target, notifyVars, boots, linkVars>>

(* The lists are exhausted.                                                *)
AttachFails(t) ==
  /\ pc[t] = "open"
  /\ target' = Closed
  /\ crowd' = crowd \ {t}
  /\ Attached(t)
  /\ UNCHANGED <<loaded, notifyVars, timer, boots, linkVars>>

---------------------------------------------------------------------------
(* Attaching and detaching by PnP, under the lock.                         *)

PnpArrival ==
  /\ pc["pnp"] = "idle"
  /\ Unlocked
  /\ ~loaded
  /\ \/ /\ target # "open"
        /\ target' = "open"
        /\ NoteOpening("pnp")
        /\ Goto("pnp", "arrived")
     \/ /\ target = "none"
        /\ target' = "closed"
        /\ UNCHANGED <<pc, crowd>>
  /\ UNCHANGED <<loaded, notifyVars, timer, boots, linkVars>>

(* The timer and a work item are left out when the channel is down or the  *)
(* BCL callback could not be set.                                          *)
PnpStore ==
  /\ pc["pnp"] = "arrived"
  /\ loaded' = TRUE
  /\ crowd' = crowd \ {"pnp"}
  /\ \/ /\ connected
        /\ StartTimer
        /\ boots' \in {boots} \cup ((boots + 1) .. MaxBoots)
     \/ UNCHANGED <<timer, boots>>
  /\ Goto("pnp", "idle")
  /\ UNCHANGED <<target, notifyVars, linkVars>>

(* Defect: removal closes the target and leaves the device marked loaded.  *)
DetachKeepingLoaded(t) ==
  /\ pc[t] = "idle"
  /\ Unlocked
  /\ target' = IF loaded THEN Closed ELSE target
  /\ NoteLoss
  /\ UNCHANGED <<pc, loaded, notifyVars, timer, boots, linkVars>>

(* Removal of the interface, and PmicGlinkClearBattMiniAttachment, which   *)
(* the queue calls for a client that frees the interface.                  *)
Detach(t) ==
  /\ pc[t] = "idle"
  /\ Unlocked
  /\ target' = IF loaded THEN Closed ELSE target
  /\ loaded' = FALSE
  /\ NoteLoss
  /\ UNCHANGED <<pc, notifyVars, timer, boots, linkVars>>

---------------------------------------------------------------------------
(* PmicGlinkNotifyBattMiniStatusFromGlink.                                 *)

NotificationArrives ==
  /\ pc["notify"] = "idle"
  /\ Goto("notify", "ping")
  /\ UNCHANGED <<attachVars, notifyVars, timer, boots, linkVars>>

(* Defect: the ping leaves the flag to the send.                           *)
PingNothing(t) ==
  /\ pc[t] = "ping"
  /\ hit' = hit \ {t}
  /\ Goto(t, "go")
  /\ UNCHANGED <<attachVars, go, timer, boots, linkVars>>

Ping(t) ==
  /\ pc[t] = "ping"
  /\ go' = TRUE
  /\ hit' = hit \ {t}
  /\ Goto(t, "go")
  /\ UNCHANGED <<attachVars, timer, boots, linkVars>>

(* The notification is dropped when the flag has been reset.               *)
LookAtGo(t) ==
  /\ pc[t] = "go"
  /\ \/ go /\ Goto(t, "acquire")
     \/ ~go /\ Notified(t)
  /\ UNCHANGED <<attachVars, notifyVars, timer, boots, linkVars>>

(* Without a miniclass the notification is put off, that is, left to the   *)
(* timer.                                                                  *)
Acquire(t) ==
  /\ pc[t] = "acquire"
  /\ Unlocked
  /\ \/ loaded /\ Goto(t, "send")
     \/ ~loaded /\ Notified(t)
  /\ UNCHANGED <<attachVars, notifyVars, timer, boots, linkVars>>

ResetGo(t) ==
  /\ go' = FALSE
  /\ hit' = hit \cup {u \in Threads \ {t} : pc[u] = "go"}

(* NOTIFY_PRESENCE, then for some data of a firmware notification          *)
(* NOTIFY_STATUS, both under the lock.                                     *)
SendPresence(t) ==
  /\ pc[t] = "send"
  /\ ResetGo(t)
  /\ \/ t = "notify" /\ Goto(t, "status")
     \/ Notified(t)
  /\ UNCHANGED <<attachVars, timer, boots, linkVars>>

SendStatus(t) ==
  /\ pc[t] = "status"
  /\ ResetGo(t)
  /\ Notified(t)
  /\ UNCHANGED <<attachVars, timer, boots, linkVars>>

---------------------------------------------------------------------------
(* The refresh timer, the boot refresh, the channel and power.             *)

(* PmicGlinkLegacyBatteryRefreshTimerFunction.  After a recent firmware    *)
(* notification the timer is only started again: no step here.             *)
TimerFires ==
  /\ timer = "armed"
  /\ pc["timer"] = "idle"
  /\ StopTimer
  /\ IF connected /\ ~hibernate THEN Goto("timer", "attach") ELSE UNCHANGED pc
  /\ UNCHANGED <<attachVars, notifyVars, boots, linkVars>>

(* Defect: an unattached miniclass is not polled again.                    *)
RearmIfLoaded ==
  /\ pc["timer"] = "rearm"
  /\ IF connected /\ ~hibernate /\ loaded THEN StartTimer ELSE UNCHANGED timer
  /\ Goto("timer", "idle")
  /\ UNCHANGED <<attachVars, notifyVars, boots, linkVars>>

Rearm ==
  /\ pc["timer"] = "rearm"
  /\ IF connected /\ ~hibernate THEN StartTimer ELSE UNCHANGED timer
  /\ Goto("timer", "idle")
  /\ UNCHANGED <<attachVars, notifyVars, boots, linkVars>>

(* Defect: a work item that ran is not taken from the queue.               *)
BootBeginsAgain ==
  /\ pc["boot"] = "idle"
  /\ boots' = boots - 1
  /\ IF connected THEN Goto("boot", "attach") ELSE UNCHANGED pc
  /\ UNCHANGED <<attachVars, notifyVars, timer, linkVars>>

(* PmicGlinkBootBatteryRefreshWorkItem.                                    *)
BootBegins ==
  /\ pc["boot"] = "idle"
  /\ boots > 0
  /\ boots' = boots - 1
  /\ IF connected THEN Goto("boot", "attach") ELSE UNCHANGED pc
  /\ UNCHANGED <<attachVars, notifyVars, timer, linkVars>>

(* PmicGlinkStateNotificationCb sets the flag, then starts the timer and   *)
(* creates a work item, which may fail.                                    *)
ChannelConnected ==
  /\ pc["channel"] = "idle"
  /\ connected' = TRUE
  /\ Goto("channel", "start")
  /\ UNCHANGED <<attachVars, notifyVars, timer, boots, hibernate>>

ChannelStarts ==
  /\ pc["channel"] = "start"
  /\ StartTimer
  /\ boots' \in {boots} \cup ((boots + 1) .. MaxBoots)
  /\ Goto("channel", "idle")
  /\ UNCHANGED <<attachVars, notifyVars, linkVars>>

(* Local and remote disconnection stop the timer without waiting; the link *)
(* going down does not stop it.                                            *)
ChannelDisconnected ==
  /\ pc["channel"] = "idle"
  /\ connected' = FALSE
  /\ StopTimer \/ UNCHANGED timer
  /\ UNCHANGED <<pc, attachVars, notifyVars, boots, hibernate>>

(* D0 exit to D3: the flag; the timer is stopped, its function awaited;    *)
(* the channel is disconnected as above; the flag is cleared again.        *)
D0Exit ==
  /\ pc["power"] = "idle"
  /\ hibernate' = TRUE
  /\ Goto("power", "stop")
  /\ UNCHANGED <<attachVars, notifyVars, timer, boots, connected>>

D0ExitStop ==
  /\ pc["power"] = "stop"
  /\ pc["timer"] = "idle"
  /\ StopTimer
  /\ Goto("power", "disconnect")
  /\ UNCHANGED <<attachVars, notifyVars, boots, linkVars>>

D0ExitDisconnect ==
  /\ pc["power"] = "disconnect"
  /\ connected' = FALSE
  /\ StopTimer
  /\ Goto("power", "clear")
  /\ UNCHANGED <<attachVars, notifyVars, boots, hibernate>>

D0ExitClear ==
  /\ pc["power"] = "clear"
  /\ connected' = FALSE
  /\ Goto("power", "asleep")
  /\ UNCHANGED <<attachVars, notifyVars, timer, boots, hibernate>>

(* D0 entry from D3, and the restart of self-managed I/O.                  *)
D0Entry ==
  /\ pc["power"] = "asleep"
  /\ hibernate' = FALSE
  /\ Goto("power", "start")
  /\ UNCHANGED <<attachVars, notifyVars, timer, boots, connected>>

D0EntryStart ==
  /\ pc["power"] = "start"
  /\ StartTimer
  /\ Goto("power", "idle")
  /\ UNCHANGED <<attachVars, notifyVars, boots, linkVars>>

---------------------------------------------------------------------------
AttachStep(t) ==
  \/ AttachSkipped(t) \/ AttachBegins(t) \/ AttachOpen(t) \/ AttachProbe(t)
  \/ AttachClose(t) \/ AttachStore(t) \/ AttachFails(t)
NotifyStep(t) == Ping(t) \/ LookAtGo(t) \/ Acquire(t) \/ SendPresence(t) \/ SendStatus(t)
PnpStep == PnpArrival \/ PnpStore \/ \E t \in {"queue", "pnp"} : Detach(t)
SourceStep == QueueRequest \/ NotificationArrives \/ TimerFires \/ Rearm \/ BootBegins
ChannelStep == ChannelConnected \/ ChannelStarts \/ ChannelDisconnected
PowerStep ==
  \/ D0Exit \/ D0ExitStop \/ D0ExitDisconnect \/ D0ExitClear
  \/ D0Entry \/ D0EntryStart

(* PmicGlink_Init creates and starts the timer, and goes on when it cannot.*)
Init ==
  /\ pc = [t \in Threads |-> "idle"]
  /\ loaded = FALSE /\ target = "none" /\ crowd = {}
  /\ go = FALSE /\ hit = {}
  /\ timer \in {"none", "armed"} /\ boots = 0
  /\ connected = FALSE /\ hibernate = FALSE

Next ==
  \/ \E t \in Attachers : AttachStep(t)
  \/ \E t \in Notifiers : NotifyStep(t)
  \/ PnpStep \/ SourceStep \/ ChannelStep \/ PowerStep

Spec == Init /\ [][Next]_vars

---------------------------------------------------------------------------
(* Properties.                                                             *)

(* Type correctness; the lock has at most one holder.                      *)
TypeOK ==
  /\ pc \in [Threads -> Places]
  /\ loaded \in BOOLEAN /\ target \in {"none", "closed", "open"}
  /\ go \in BOOLEAN /\ timer \in {"none", "stopped", "armed"}
  /\ boots \in Nat
  /\ connected \in BOOLEAN /\ hibernate \in BOOLEAN
  /\ crowd \subseteq Threads /\ hit \subseteq Threads
  /\ \A t, u \in Threads : pc[t] \in Locking /\ pc[u] \in Locking => t = u

(* A miniclass marked as loaded has an open target.  What can break this   *)
(* is only a thread that opens the target while another one does, or while *)
(* the attachment is given up: an attempt left to itself never does, nor   *)
(* do removal, a client's release of the interface or a notification.      *)
OnlyCrowdedOpensBreak ==
  [][(loaded => target = "open") /\ ~(loaded' => target' = "open") =>
       \E t \in crowd : pc'[t] # pc[t]]_vars

(* A notification is dropped at its second look at the go flag only if     *)
(* another thread's send to the miniclass ended between the two looks.     *)
DropNeedsOverlap == \A t \in Threads : pc[t] = "go" /\ ~go => t \in hit

(* When the refresh timer could be created, then while the channel is      *)
(* connected and the device awake it is armed, or its function will arm it,*)
(* or whoever connected the channel or woke the device is about to start   *)
(* it: a notification that was dropped, put off or sent to a closed target *)
(* is made good by a poll.                                                 *)
TimerCovers ==
  timer # "none" /\ connected /\ ~hibernate =>
    timer = "armed" \/ pc["timer"] # "idle" \/ pc["channel"] = "start" \/ pc["power"] = "start"
=============================================================================
