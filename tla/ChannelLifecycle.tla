-------------------------- MODULE ChannelLifecycle --------------------------
(***************************************************************************)
(* How the driver opens and closes its GLINK channel: the link-state and   *)
(* the channel-state callbacks (requests.c, channel.c), arrival and        *)
(* removal of the GLINK interface (interfaces.c), recovery by a client's   *)
(* GET_BATT_ID (requests.c) and the power callbacks (device.c).            *)
(*                                                                         *)
(* Four threads call PmicGlink_OpenGlinkChannel: that of the link-state    *)
(* callback, that of the channel callbacks, a client, and D0 exit, which   *)
(* calls the channel-state callback itself.  A fifth, of PnP, registers    *)
(* the link-state callback.  No lock keeps them apart: every call of       *)
(* GLINK, every reset of the interface and every store of a handle is a    *)
(* step (flags stored in a row are one).  GLINK, which is not part of the  *)
(* driver, is the state of its channels, and whether it knows the          *)
(* link-state callback; it makes one channel callback at a time.  The ULOG *)
(* channel, and its own call of PmicGlinkEnsureApiInterface, are left out. *)
(***************************************************************************)
EXTENDS Naturals

CONSTANTS
  Channel,     (* handles of channels, used again after the channel is gone *)
  NoChannel    (* NULL                                                     *)

ASSUME ChannelAssumption == NoChannel \notin Channel

Openers == {"link", "channel", "client", "power"}
Threads == Openers \cup {"pnp"}

VARIABLES
  chan,        (* GLINK: the state of each channel                         *)
  registered,  (* GLINK: the last link-state registration is in force      *)
  orphaned,    (* GLINK: an earlier one, its handle forgotten, is in force *)
  api,         (* gPmicGlinkApiInterface is filled in                      *)
  handle,      (* gPmicGlinkMainChannelHandle                              *)
  stale,       (* history: its channel was closed when it was stored       *)
  linkHandle,  (* gPmicGlinkLinkStateHandle # NULL                         *)
  rpe,         (* RpeInitialized                                           *)
  loaded,      (* GlinkDeviceLoaded                                        *)
  connected,   (* GlinkChannelConnected                                    *)
  restart,     (* GlinkChannelRestart                                      *)
  linkUp,      (* GlinkLinkStateUp                                         *)
  hibernate,   (* Hibernate                                                *)
  power,       (* where the device is in its power and PnP life            *)
  at, got,     (* where each thread is, and the handle it is to store      *)
  failed,      (* history: the last open to end has opened nothing         *)
  refused,     (* history: on the way to where a deregistration failed     *)
  swept,       (* history: an interface or a registration was reset in use *)
  crowded,     (* history: an open took a step while there was a channel   *)
  late         (* history: an open or a registration overlapped D0 exit    *)

glinkVars == <<chan, registered, orphaned>>
ifaceVars == <<api, linkHandle, rpe, loaded>>
flagVars  == <<connected, restart, linkUp>>
powerVars == <<hibernate, power>>
openVars  == <<at, got>>
history   == <<failed, refused, swept, crowded, late>>
handleVars == <<handle, stale>>
vars == <<glinkVars, ifaceVars, handleVars, flagVars, powerVars, openVars, history>>

EnsurePlaces == {"ensure", "reset", "query"}
OpenPlaces   == EnsurePlaces \cup {"open", "call"}
Places == OpenPlaces \cup {"idle", "assign", "done", "closed", "forgotten",
                           "register", "store", "rpe"}
Stages == {"on", "close", "forget", "clear", "deregister", "unlink", "asleep",
           "final", "released", "unregister", "removed"}

Alive(c) == chan[c] \in {"open", "connected"}
Present  == power # "removed"

(* Thread t opens, has opened or forgets a channel although there is       *)
(* another one.                                                            *)
NoteCrowd(t) ==
  crowded' = (crowded \/ \E c \in Channel \ {got[t]} : Alive(c))

Goto(t, place) == at' = [at EXCEPT ![t] = place]

ForgetHandle == handle' = NoChannel /\ stale' = FALSE

(* PmicGlinkResetApiInterface.                                             *)
ResetApi ==
  /\ api' = FALSE
  /\ ForgetHandle
  /\ linkHandle' = FALSE

---------------------------------------------------------------------------
(* PmicGlinkEnsureApiInterface, for an open or for the registration.       *)

(* Its check: nothing is done when there is an interface.                  *)
EnsureCheck(t) ==
  /\ at[t] = "ensure"
  /\ Goto(t, IF ~api THEN "reset" ELSE IF t = "pnp" THEN "register" ELSE "open")
  /\ UNCHANGED <<glinkVars, ifaceVars, handleVars, flagVars, powerVars, got, history>>

(* It resets the interface before it begins, and before every query; what  *)
(* other threads have got since the check goes with it.                    *)
EnsureReset(t) ==
  /\ at[t] \in {"reset", "query"}
  /\ ResetApi
  /\ swept' = (swept \/ api \/ linkHandle)
  /\ Goto(t, "query")
  /\ UNCHANGED <<glinkVars, rpe, loaded, flagVars, powerVars, got,
                 failed, refused, crowded, late>>

(* A query succeeds, and its buffer is copied; another thread may have     *)
(* zeroed that buffer, which they share, for its own query.                *)
EnsureFill(t) ==
  /\ at[t] = "query"
  /\ \/ api' = TRUE
     \/ api' = FALSE /\ \E u \in Threads \ {t} : at[u] = "query"
  /\ swept' = (swept \/ (api /\ ~api'))
  /\ Goto(t, IF t = "pnp" THEN "register" ELSE "open")
  /\ UNCHANGED <<glinkVars, handleVars, linkHandle, rpe, loaded, flagVars, powerVars, got,
                 failed, refused, crowded, late>>

(* When no interface can be had the open succeeds without a channel.       *)
EnsureFails(t) ==
  /\ at[t] = "query"
  /\ failed' = (failed \/ t # "pnp")
  /\ Goto(t, IF t = "link" THEN "done" ELSE "idle")
  /\ UNCHANGED <<glinkVars, ifaceVars, handleVars, flagVars, powerVars, got,
                 refused, swept, crowded, late>>

---------------------------------------------------------------------------
(* The rest of PmicGlink_OpenGlinkChannel.                                 *)

(* The interface was reset again: this, too, is a success.                 *)
GLinkOpenIsNull(t) ==
  /\ at[t] = "open"
  /\ ~api
  /\ failed' = TRUE
  /\ Goto(t, IF t = "link" THEN "done" ELSE "idle")
  /\ UNCHANGED <<glinkVars, ifaceVars, handleVars, flagVars, powerVars, got,
                 refused, swept, crowded, late>>

ForgetForOpen(t) ==
  /\ at[t] = "open"
  /\ api
  /\ NoteCrowd(t)
  /\ ForgetHandle
  /\ Goto(t, "call")
  /\ UNCHANGED <<glinkVars, ifaceVars, flagVars, powerVars, got,
                 failed, refused, swept, late>>

(* Had the interface been reset meanwhile, the call would go through NULL. *)
GLinkOpen(t) ==
  /\ at[t] = "call"
  /\ api
  /\ NoteCrowd(t)
  /\ \E c \in Channel :
       /\ chan[c] = "free"
       /\ chan' = [chan EXCEPT ![c] = "open"]
       /\ got' = [got EXCEPT ![t] = c]
  /\ late' = (late \/ power \notin {"on", "close"})
  /\ failed' = FALSE
  /\ Goto(t, "assign")
  /\ UNCHANGED <<registered, orphaned, ifaceVars, handleVars, flagVars, powerVars,
                 refused, swept>>

GLinkOpenFails(t) ==
  /\ at[t] = "call"
  /\ api
  /\ NoteCrowd(t)
  /\ ForgetHandle
  /\ failed' = TRUE
  /\ Goto(t, "idle")
  /\ UNCHANGED <<glinkVars, ifaceVars, flagVars, powerVars, got,
                 refused, swept, late>>

(* Defect: the channel stays with the thread.                              *)
AssignHandleKeeping(t) ==
  /\ at[t] = "assign"
  /\ NoteCrowd(t)
  /\ handle' = got[t]
  /\ stale' = ~Alive(got[t])
  /\ Goto(t, IF t = "link" THEN "done" ELSE "idle")
  /\ UNCHANGED <<glinkVars, ifaceVars, flagVars, powerVars, got,
                 failed, refused, swept, late>>

(* The store at the end of an open, and of the callbacks that get a handle.*)
AssignHandle(t) ==
  /\ at[t] = "assign"
  /\ NoteCrowd(t)
  /\ handle' = got[t]
  /\ stale' = ~Alive(got[t])
  /\ got' = [got EXCEPT ![t] = NoChannel]
  /\ Goto(t, IF t = "link" THEN "done" ELSE "idle")
  /\ UNCHANGED <<glinkVars, ifaceVars, flagVars, powerVars,
                 failed, refused, swept, late>>

---------------------------------------------------------------------------
(* PmicGLinkRegisterLinkStateCb, for the driver's own link.                *)

LinkUp ==
  /\ Present
  /\ registered \/ orphaned
  /\ at["link"] = "idle"
  /\ linkUp' = TRUE
  /\ Goto("link", "ensure")
  /\ UNCHANGED <<glinkVars, ifaceVars, handleVars, connected, restart, powerVars, got, history>>

LinkUpDone ==
  /\ at["link"] = "done"
  /\ restart' = FALSE
  /\ Goto("link", "idle")
  /\ UNCHANGED <<glinkVars, ifaceVars, handleVars, connected, linkUp, powerVars, got, history>>

LinkDown ==
  /\ Present
  /\ registered \/ orphaned
  /\ at["link"] = "idle"
  /\ linkUp' = FALSE
  /\ connected' = FALSE
  /\ restart' = TRUE
  /\ UNCHANGED <<glinkVars, ifaceVars, handleVars, powerVars, openVars, history>>

---------------------------------------------------------------------------
(* PmicGlinkStateNotificationCb, and the callbacks that store the handle.  *)

ChannelConnected(c) ==
  /\ Present
  /\ at["channel"] = "idle"
  /\ chan[c] = "open"
  /\ chan' = [chan EXCEPT ![c] = "connected"]
  /\ connected' = TRUE
  /\ restart' = FALSE
  /\ got' = [got EXCEPT !["channel"] = c]
  /\ Goto("channel", "assign")
  /\ UNCHANGED <<registered, orphaned, ifaceVars, handleVars, linkUp, powerVars, history>>

(* Called by GLINK once a closed channel is gone.                          *)
LocalDisconnected(c) ==
  /\ Present
  /\ at["channel"] = "idle"
  /\ chan[c] = "closing"
  /\ chan' = [chan EXCEPT ![c] = "free"]
  /\ connected' = FALSE
  /\ IF restart /\ linkUp THEN Goto("channel", "ensure") ELSE UNCHANGED at
  /\ UNCHANGED <<registered, orphaned, ifaceVars, handleVars, restart, linkUp, powerVars,
                 got, history>>

(* Without the interface the channel cannot be closed and nothing happens. *)
RemoteDisconnected(c) ==
  /\ Present
  /\ at["channel"] = "idle"
  /\ Alive(c)
  /\ api
  /\ chan' = [chan EXCEPT ![c] = "closing"]
  /\ Goto("channel", "closed")
  /\ UNCHANGED <<registered, orphaned, ifaceVars, handleVars, flagVars, powerVars,
                 got, history>>

ForgetClosed ==
  /\ at["channel"] = "closed"
  /\ NoteCrowd("channel")
  /\ ForgetHandle
  /\ Goto("channel", "forgotten")
  /\ UNCHANGED <<glinkVars, ifaceVars, flagVars, powerVars, got,
                 failed, refused, swept, late>>

(* Defect: the restart is not asked for.                                   *)
AskNoRestart ==
  /\ at["channel"] = "forgotten"
  /\ connected' = FALSE
  /\ Goto("channel", "idle")
  /\ UNCHANGED <<glinkVars, ifaceVars, handleVars, restart, linkUp, powerVars, got, history>>

AskRestart ==
  /\ at["channel"] = "forgotten"
  /\ connected' = FALSE
  /\ restart' = TRUE
  /\ Goto("channel", "idle")
  /\ UNCHANGED <<glinkVars, ifaceVars, handleVars, linkUp, powerVars, got, history>>

(* PmicGlinkTxNotificationCb and PmicGlinkNotifyRxIntentCb.                *)
TxDoneOrRxIntent(c) ==
  /\ Present
  /\ at["channel"] = "idle"
  /\ chan[c] = "connected"
  /\ got' = [got EXCEPT !["channel"] = c]
  /\ Goto("channel", "assign")
  /\ UNCHANGED <<glinkVars, ifaceVars, handleVars, flagVars, powerVars, history>>

---------------------------------------------------------------------------
(* The recovery that GET_BATT_ID attempts, at most every two seconds.  The *)
(* request queue is power-managed: requests are handled in D0 only.        *)
ClientRecovers ==
  /\ power = "on"
  /\ at["client"] = "idle"
  /\ restart \/ ~connected
  /\ Goto("client", "ensure")
  /\ UNCHANGED <<glinkVars, ifaceVars, handleVars, flagVars, powerVars, got, history>>

---------------------------------------------------------------------------
(* The GLINK interface: PmicGlinkInterfaceNotificationCallback.            *)

(* The arrival calls PmicGlinkRpeADSPStateNotificationCallback, which does *)
(* nothing once RpeInitialized, and gets the interface if not hibernating. *)
GlinkArrival ==
  /\ Present
  /\ at["pnp"] = "idle"
  /\ ~loaded
  /\ loaded' = TRUE
  /\ \/ rpe /\ UNCHANGED at
     \/ ~rpe /\ Goto("pnp", IF hibernate THEN "register" ELSE "ensure")
  /\ UNCHANGED <<glinkVars, api, linkHandle, rpe, handleVars, flagVars, powerVars,
                 got, history>>

(* It registers the link-state callback, unless it has a handle for it, ...*)
Register ==
  /\ at["pnp"] = "register"
  /\ ~linkHandle
  /\ api
  /\ registered' = TRUE
  /\ orphaned' = (orphaned \/ registered)
  /\ late' = (late \/ power \notin {"on", "close", "forget", "clear", "deregister"})
  /\ Goto("pnp", "store")
  /\ UNCHANGED <<chan, ifaceVars, handleVars, flagVars, powerVars, got,
                 failed, refused, swept, crowded>>

(* ... (or it has one, or cannot register, or GLINK does not let it), ...  *)
DoNotRegister ==
  /\ at["pnp"] = "register"
  /\ Goto("pnp", "rpe")
  /\ UNCHANGED <<glinkVars, ifaceVars, handleVars, flagVars, powerVars, got, history>>

(* ... stores the handle ...                                               *)
StoreLinkHandle ==
  /\ at["pnp"] = "store"
  /\ linkHandle' = TRUE
  /\ Goto("pnp", "rpe")
  /\ UNCHANGED <<glinkVars, api, rpe, loaded, handleVars, flagVars, powerVars, got, history>>

(* ... and is initialized when there is one.                               *)
StoreRpe ==
  /\ at["pnp"] = "rpe"
  /\ rpe' = (rpe \/ linkHandle)
  /\ Goto("pnp", "idle")
  /\ UNCHANGED <<glinkVars, api, linkHandle, loaded, handleVars, flagVars, powerVars,
                 got, history>>

GlinkRemoval ==
  /\ Present
  /\ at["pnp"] = "idle"
  /\ loaded
  /\ loaded' = FALSE
  /\ linkUp' = FALSE
  /\ UNCHANGED <<glinkVars, api, linkHandle, rpe, handleVars, connected, restart,
                 powerVars, openVars, history>>
---------------------------------------------------------------------------
(* Power and PnP (device.c).  In D0 exit hibernate says that the target is *)
(* D3, and not D3Final.                                                    *)

(* Up to the channel-state callback that D0 exit calls with                *)
(* LocalDisconnected, which may open a channel.                            *)
D0Exit ==
  /\ power = "on"
  /\ at["client"] = "idle" /\ at["power"] = "idle"
  /\ hibernate' \in BOOLEAN
  /\ power' = "close"
  /\ connected' = FALSE
  /\ IF restart /\ linkUp THEN Goto("power", "ensure") ELSE UNCHANGED at
  /\ UNCHANGED <<glinkVars, ifaceVars, handleVars, restart, linkUp, got, history>>

(* Some thread is in an open, or about to store a handle.                  *)
Opening == \E t \in Openers : at[t] \in OpenPlaces \cup {"assign"}

(* What becomes of the channels when GLinkClose is called for the handle.  *)
Closed == [c \in Channel |->
             IF c = handle /\ api /\ Alive(c) THEN "closing" ELSE chan[c]]

(* Defect: the handle is left behind.                                      *)
D0ExitCloseOnly ==
  /\ power = "close"
  /\ at["power"] = "idle"
  /\ chan' = Closed
  /\ power' = "clear"
  /\ late' = (late \/ Opening)
  /\ UNCHANGED <<registered, orphaned, ifaceVars, handleVars, flagVars, hibernate, openVars,
                 failed, refused, swept, crowded>>

(* Defect: the handle is forgotten without GLinkClose.                     *)
D0ExitForget ==
  /\ power = "close"
  /\ at["power"] = "idle"
  /\ power' = IF handle = NoChannel THEN "clear" ELSE "forget"
  /\ late' = (late \/ Opening)
  /\ UNCHANGED <<glinkVars, ifaceVars, handleVars, flagVars, hibernate, openVars,
                 failed, refused, swept, crowded>>

D0ExitClose ==
  /\ power = "close"
  /\ at["power"] = "idle"
  /\ chan' = Closed
  /\ power' = IF handle = NoChannel THEN "clear" ELSE "forget"
  /\ late' = (late \/ Opening)
  /\ UNCHANGED <<registered, orphaned, ifaceVars, handleVars, flagVars, hibernate, openVars,
                 failed, refused, swept, crowded>>

D0ExitForgets ==
  /\ power = "forget"
  /\ ForgetHandle
  /\ power' = "clear"
  /\ UNCHANGED <<glinkVars, ifaceVars, flagVars, hibernate, openVars, history>>

D0ExitClear ==
  /\ power = "clear"
  /\ connected' = FALSE
  /\ restart' = FALSE
  /\ linkUp' = FALSE
  /\ power' = "deregister"
  /\ UNCHANGED <<glinkVars, ifaceVars, handleVars, hibernate, openVars, history>>

(* Where D0 exit leaves the device.                                        *)
Target == IF hibernate THEN "asleep" ELSE "final"

(* Defect: the status of the deregistration is not looked at.              *)
D0ExitDeregisterBlindly ==
  /\ power = "deregister"
  /\ late' = (late \/ at["pnp"] # "idle")
  /\ \/ /\ ~(rpe /\ linkHandle)
        /\ power' = Target
        /\ UNCHANGED <<registered, refused>>
     \/ /\ rpe /\ linkHandle
        /\ \/ api /\ registered' = FALSE /\ UNCHANGED refused
           \/ refused' = refused \cup {Target} /\ UNCHANGED registered
        /\ power' = "unlink"
  /\ UNCHANGED <<chan, orphaned, ifaceVars, handleVars, flagVars, hibernate, openVars,
                 failed, swept, crowded>>

(* It deregisters the link-state callback that it has a handle for; ...    *)
D0ExitDeregister ==
  /\ power = "deregister"
  /\ late' = (late \/ at["pnp"] # "idle")
  /\ \/ /\ ~(rpe /\ linkHandle)
        /\ power' = Target
        /\ UNCHANGED <<registered, refused>>
     \/ /\ rpe /\ linkHandle
        /\ api
        /\ registered' = FALSE
        /\ power' = "unlink"
        /\ UNCHANGED refused
     \/ /\ rpe /\ linkHandle
        /\ refused' = refused \cup {Target}
        /\ power' = IF hibernate THEN "asleep" ELSE "unlink"
        /\ UNCHANGED registered
  /\ UNCHANGED <<chan, orphaned, ifaceVars, handleVars, flagVars, hibernate, openVars,
                 failed, swept, crowded>>

(* ... when that succeeds, or is final, it forgets the handle.             *)
D0ExitUnlink ==
  /\ power = "unlink"
  /\ rpe' = FALSE
  /\ \/ hibernate /\ linkHandle' = FALSE /\ UNCHANGED <<api, handleVars>>
     \/ ~hibernate /\ ResetApi
  /\ power' = Target
  /\ UNCHANGED <<glinkVars, loaded, flagVars, hibernate, openVars, history>>

D0Entry ==
  /\ power \in {"asleep", "released"}
  /\ power' = "on"
  /\ hibernate' = FALSE
  /\ UNCHANGED <<glinkVars, ifaceVars, handleVars, flagVars, openVars, history>>

ReleaseHardware ==
  /\ power \in {"asleep", "final"}
  /\ power' = "released"
  /\ loaded' = FALSE
  /\ linkUp' = FALSE
  /\ UNCHANGED <<glinkVars, api, linkHandle, rpe, handleVars, connected, restart,
                 hibernate, openVars, history>>

(* SelfManagedIoCleanup: PmicGlinkDevice_RegisterForPnPNotifications(FALSE)*)
(* resets the interface and ends the notifications, which waits for one    *)
(* that is being handled.                                                  *)
Cleanup ==
  /\ power = "released"
  /\ power' = "unregister"
  /\ ResetApi
  /\ loaded' = FALSE
  /\ linkUp' = FALSE
  /\ UNCHANGED <<glinkVars, rpe, connected, restart, hibernate, openVars, history>>

Removed ==
  /\ power = "unregister"
  /\ at["pnp"] = "idle"
  /\ power' = "removed"
  /\ UNCHANGED <<glinkVars, ifaceVars, handleVars, flagVars, hibernate, openVars, history>>

---------------------------------------------------------------------------
(* PmicGlinkDevice_InitContext, and the power-up that follows.             *)
Init ==
  /\ chan = [c \in Channel |-> "free"]
  /\ registered = FALSE /\ orphaned = FALSE
  /\ api = FALSE
  /\ handle = NoChannel
  /\ linkHandle = FALSE
  /\ rpe = FALSE
  /\ loaded = FALSE
  /\ connected = FALSE
  /\ restart = FALSE
  /\ linkUp = FALSE
  /\ hibernate = FALSE
  /\ power = "on"
  /\ at = [t \in Threads |-> "idle"]
  /\ got = [t \in Threads |-> NoChannel]
  /\ failed = FALSE
  /\ refused = {}
  /\ stale = FALSE
  /\ swept = FALSE
  /\ crowded = FALSE
  /\ late = FALSE

EnsureStep(t) == EnsureCheck(t) \/ EnsureReset(t) \/ EnsureFill(t) \/ EnsureFails(t)

OpenStep(t) ==
  \/ GLinkOpenIsNull(t) \/ ForgetForOpen(t) \/ GLinkOpen(t) \/ GLinkOpenFails(t)
  \/ AssignHandle(t)

LinkCallback == LinkUp \/ LinkUpDone \/ LinkDown

ChannelCallback(c) ==
  \/ ChannelConnected(c) \/ LocalDisconnected(c) \/ RemoteDisconnected(c)
  \/ TxDoneOrRxIntent(c)

RpeStep == Register \/ DoNotRegister \/ StoreLinkHandle \/ StoreRpe

PowerStep ==
  \/ D0Exit \/ D0ExitClose \/ D0ExitForgets \/ D0ExitClear
  \/ D0ExitDeregister \/ D0ExitUnlink
  \/ D0Entry \/ ReleaseHardware \/ Cleanup \/ Removed

Next ==
  \/ \E t \in Threads : EnsureStep(t)
  \/ \E t \in Openers : OpenStep(t)
  \/ LinkCallback
  \/ \E c \in Channel : ChannelCallback(c)
  \/ ForgetClosed \/ AskRestart
  \/ ClientRecovers
  \/ GlinkArrival \/ RpeStep \/ GlinkRemoval
  \/ PowerStep

Spec == Init /\ [][Next]_vars

---------------------------------------------------------------------------
(* The type of every variable; a thread has a channel of its own exactly   *)
(* from GLinkOpen, or the callback, to the store of the handle.            *)
TypeOK ==
  /\ chan \in [Channel -> {"free", "open", "connected", "closing"}]
  /\ handle \in Channel \cup {NoChannel}
  /\ registered \in BOOLEAN /\ orphaned \in BOOLEAN /\ api \in BOOLEAN /\ linkHandle \in BOOLEAN
  /\ rpe \in BOOLEAN /\ loaded \in BOOLEAN
  /\ connected \in BOOLEAN /\ restart \in BOOLEAN /\ linkUp \in BOOLEAN
  /\ hibernate \in BOOLEAN
  /\ power \in Stages
  /\ at \in [Threads -> Places]
  /\ got \in [Threads -> Channel \cup {NoChannel}]
  /\ \A t \in Threads : at[t] = "assign" <=> got[t] # NoChannel
  /\ failed \in BOOLEAN /\ refused \subseteq {"asleep", "final"}
  /\ stale \in BOOLEAN /\ swept \in BOOLEAN
  /\ crowded \in BOOLEAN /\ late \in BOOLEAN

(* The handle that PmicGlink_SendData sends on is that of an open channel, *)
(* but for two cases: whoever called GLinkClose for it is about to forget  *)
(* it (channel.c 927-929, device.c 464-467), or a thread has stored it     *)
(* when its channel was closed already, having had it from GLinkOpen or    *)
(* from GLINK before that (channel.c 694, 885, requests.c 3169, 3196).     *)
ClosedIsForgotten ==
  handle # NoChannel =>
    Alive(handle) \/ at["channel"] = "closed" \/ power = "forget" \/ stale

(* While the link is up there is a channel, or somebody is to open one:    *)
(* the end of a closing one, for which the restart is asked for or about   *)
(* to be, an open under way, or, when an open has failed, the next client. *)
Covered ==
  linkUp => \/ \E c \in Channel : Alive(c)
            \/ restart /\ \E c \in Channel : chan[c] = "closing"
            \/ at["channel"] \in {"closed", "forgotten"}
            \/ \E t \in Openers : at[t] \in OpenPlaces
            \/ failed

(* In D0 no step takes that away except one: the link-state callback       *)
(* clears GlinkChannelRestart after its open (requests.c 3282), also when  *)
(* the channel it has opened was disconnected meanwhile and the flag means *)
(* that one.  Then nothing reopens the channel until a client asks.        *)
OnlyLinkUpStops ==
  [][Covered /\ ~Covered' /\ power = "on"
       => at["link"] = "done" /\ at'["link"] = "idle"]_vars

(* A removed device leaves GLINK neither a callback nor a channel to call  *)
(* it with, unless a channel was opened, or the handle of a closed one     *)
(* forgotten, while there was another one (the handle of one is            *)
(* overwritten, channel.c 668, 929), an open or a registration overlapped  *)
(* D0 exit, a thread in PmicGlinkEnsureApiInterface reset what another one *)
(* had got since its check, or a deregistration has failed.                *)
RemovedIsQuiet ==
  power = "removed" =>
    \/ crowded \/ late \/ swept \/ refused # {}
    \/ ~registered /\ ~orphaned /\ \A c \in Channel : ~Alive(c)

(* Without such a reset, and with no registration in the course of D0      *)
(* exit: the driver has a link-state handle only with a registration       *)
(* behind it (or just ended) and the interface to undo it; it forgets a    *)
(* registration only when it is removed, or the deregistration of the      *)
(* final D0 exit fails.  A failure on the way to sleep keeps the handle    *)
(* for the next attempt.                                                   *)
RegisteredIsKnown ==
  \/ swept \/ late
  \/ /\ linkHandle => api /\ (registered \/ power = "unlink")
     /\ registered \/ orphaned =>
          \/ linkHandle \/ at["pnp"] = "store"
          \/ "final" \in refused \/ power \in {"unregister", "removed"}
=============================================================================
