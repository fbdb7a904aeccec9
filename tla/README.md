# Verification of the PMIC GLINK driver

TLA+ models of `src/driver`, a Windows kernel driver that talks to the power
management firmware of a Snapdragon SoC over a GLINK channel and offers what it
learns to battery, USB-C/UCSI, OEM and crash-dump clients. The models are
checked with TLC and their main properties are proved with TLAPS.

## The system

The driver is C code in one device context plus globals. Its threads are:
requests, which one sequential, power-managed queue serves one at a time and in
D0 only; direct calls through the DDI interface; PnP and power callbacks; GLINK
callbacks; system work items and timers, serialized with nothing. So several
threads may be inside `PmicGlink_SendData`, but only one of them comes from the
queue.

| Part | Code | State it keeps | Operations |
|---|---|---|---|
| Request transport | `transport.c` 4-820 | mutex `gPmicGlinkTxSync`, flag `gPmicGlinkRxInProgress`, seven events | `PmicGlink_SendData`, request builders |
| Receive slots and notifications | `channel.c` 349-630, `requests.c` 2187-3238 | `CommData[]`, one packet for each opcode; work items | store, retrieve, consume, clear; work item |
| Channel lifecycle | `channel.c` 4-346, 633-949, `requests.c` 3241-3363 | channel handle, connected/restart flags, API interface, link-state handle | open, state callback, link-state callback |
| PnP and power | `interfaces.c`, `device.c` | attached interfaces, power steps | arrival, removal, D0 entry and exit |
| ULOG | `ulog.c` | second channel, own flag and events | log polling |
| Crash-dump rings | `crashdump.c` 130-450, 1260-1584 | ring, index, count, dump buffer | write, read, capture, bug-check callbacks |
| Crash-dump sources | `crashdump.c` 33-99, 891-1234, `device.c` 241-285 | 15 sources, owner and reader file, GUID | create/adopt, destroy, query, close |
| Battery miniclass | `battery.c` | I/O target, loaded flag, go flag and lock, refresh timer | attach, detach, notify, poll |
| QCMB mailbox | `transport.c` 825-1123, `requests.c` 2709-2762 | status word, connection flag, charger fields | charger info, pre-shutdown, registration |
| USB-C notifications | `platform.c`, `requests.c` 2951-2965 | one remembered port, one pending request, one pending state | ACPI notification, work items |
| ABD, UCSI/DDI | `interfaces.c`, `requests.c` 3-123 | connections, reference count, cached UCSI command | direct calls, reads and writes |
| Decoding | `requests.c` 1750-2845 | capacities, percentage, state of charge | replies, unit conversion |

Parts interact through shared state rather than messages: a caller of
`PmicGlink_SendData` waits on events that the GLINK callbacks and the work items
set, and takes the reply from a slot both of them write and clear; the power
callbacks call the channel's state callback directly; file close edits the
source table the crash-dump IOCTLs work on, and the bug-check callbacks read
that table when nothing else runs any more.

What is hard: the busy flag is claimed under a mutex and released without it;
events are one-bit and shared by all callers; slots are one packet deep, cleared
by several parties, and read without the lock; work items are not tied to the
packets they were created for; a bug check may stop a ring write at any store;
files are told apart by addresses that are used again.

## Modules

`GlinkTransport` - `PmicGlink_SendData` as one process per caller. Each place of
`pc` is a point between two accesses to shared state; `Call` .. `Finish` follow
the function from top to bottom. `poll` holds the mutex, `claim` is between the
test and the setting of the flag, `clearEvents`/`clearSlot`/`transmit` prepare
and send, `wait`/`clear`/`take`/`zero` is one turn of a wait loop (`phase` says
which of the two), `matched`/`again`/`finish` are the several releases at the
end. `take` leaves a packet that is not the expected reply in its slot, with the
event spent: that of an opcode for which the decoder has no arm (`Unmatched`; 34
is sent, and has none) or one read while it is being stored. The environment is
the GLINK callbacks, `RxStore` and `RxSignal` (two steps of one callback),
`RxStoreFails` (no memory for a longer packet), `TxDone`, `StateNotification`
(the three state events are one, for a sender does the same for each),
`DeferredSignal` (the Rx event set for a deferred opcode), and what the rest of
the driver does under a waiting caller: `ResetCommDataSlots` at D0 exit and
`InitializeEvents` at GLINK's arrival, which takes waiters off the events' wait
lists. Three history variables serve properties only: `disturbed` marks callers
whose claim somebody else released, `rearmed` those under whom the events were
initialised, and `seen` in a stored packet the callers that were already waiting
when it came.

`Exchange` - what `PmicGlink_SendData` promises its callers, and where the
promise ends: exchanges begin one at a time, a caller succeeds only with a
packet that came after it asked, and a caller that was answered leaves in two
steps, the second of which may disturb an exchange begun in between. An answer
that came may get lost before its caller looks: the code promises no more.
`GlinkTransport` implements it, with each place of `pc` mapped to a stage of the
exchange (`Stage`) and the packets in the slots to the callers they answer
(`Answers`).

`NotifyPath` - the deferred opcodes: `RxStore`/`RxDefer` are the callback before
and after it creates a work item (which may fail), `RxStoreFails` the callback
that deletes a slot's buffer and gets no larger one, `Begin` .. `Recheck` the
work item on a pool of threads, `SendBegin` .. `SendTimeout` what a caller
waiting for a deferred reply (opcodes 256, 257) does to the slot and the event,
`ResetCommDataSlots` the emptying of all slots at D0 exit.

`BoundedLog` - what a data source promises: a bounded log that drops its oldest
record, is read from the oldest, and is dumped whole, in order, in one step.
`CrashRing` - the ring that implements it: a write is three steps (`WriteEntry`,
`WriteIndex`, `WriteCount`), `Crash` may come between any two, and the callbacks
linearise, offer and encrypt the dump buffer. The callback that encrypts keeps no
memory of having done so: it may be called for any number of passes.

`CrashSources` - the table of sources: create or adopt, query (which makes a
reader), destroy by either role, write, read, capture, and close, which gives up
one role. Each request runs under `CrashDumpLock` and is one action.

`ChannelLifecycle` - the GLINK channel from opening to removal of the device.
Four threads (`link`, `channel`, `client`, `power`) call
`PmicGlink_OpenGlinkChannel`, and a fifth (`pnp`) registers the link-state
callback. None of them holds a lock, so each call of GLINK, each reset of the
interface and each store of a handle is a step: `EnsureCheck` .. `EnsureFails`
are `PmicGlinkEnsureApiInterface`, whose resets may zero what another thread has
got since the check (`EnsureReset`) and whose queries share one buffer
(`EnsureFill`), `GLinkOpenIsNull` .. `AssignHandle` the rest of an open.
`LinkUp`/`LinkUpDone`/`LinkDown` are the link-state callback, `ChannelConnected`
.. `TxDoneOrRxIntent` the callbacks that get a handle, of which
`RemoteDisconnected` closes, `ForgetClosed` forgets and `AskRestart` sets the
flags; `ClientRecovers` is the open inside GET_BATT_ID, `GlinkArrival` and then
`Register` .. `StoreRpe`, and `GlinkRemoval`, the interface notification,
`D0Exit` .. `D0ExitUnlink` one run of `PmicGlinkEvtD0Exit` (close, forget, clear
the flags, deregister, forget), then `D0Entry`, `ReleaseHardware`, `Cleanup`,
`Removed`. GLINK is the state of its channels and the link-state registrations it
holds, of which one may be forgotten by the driver (`orphaned`). The history
variables (`stale`, `failed`, `refused`, `swept`, `crowded`, `late`) serve
properties only. The channel notifications of `GlinkTransport` are the same
callbacks, seen from a call that waits. The two modules are not composed:
`GlinkTransport` lets the notifications come at any time and in any order, which
covers every order the lifecycle has.

`UlogTransport` - the log channel (`ulog.c`): its exchange, which has no mutex
around the busy flag and releases it before its second loop, run by the timer
function (reading and printing a log) and by the work items of each connection,
with the callbacks that open, connect and close the channel. Of a buffer only
zeros, a fresh or a read packet are told apart.

`BattMini` - the battery miniclass (`battery.c`). Threads: the I/O queue, the
refresh timer, the boot-refresh work item, the notification work item, PnP, the
channel's state callback and power. `AttachOpen` .. `AttachStore` are the steps
of attaching without PnP, which takes no lock; `PnpArrival` and `Detach` work
under it. `NotificationArrives` .. `SendStatus` follow one notification over its
two looks at `gPmicGlinkNotifyGo`. There may be no timer: its creation can fail at
initialisation, after which every start tries again (`StartTimer`). `crowd`
(opening overlapped) and `hit` (another's send came between the looks) are
history.

`BatteryGauge` - the percentage and the capacity shown: `Normalize`,
`Percentage`, `SocX100` are the conversions, `ChargeStatusReply` ..
`DebugMessage` begin the arms of `PmicGlink_RetrieveRxData` that use them, and
`StoreFull` .. `StoreCapacity` are their stores, one step each. The answers to
queries are decoded by the thread that holds the transport (`Holder`, one at a
time by `Exclusive` of `GlinkTransport`; two callers at once, which needs a
disturbed transport, are left out), a debug message by work items (`Workers`)
beside it and beside each other. `overlapped` and `torn` are history: which
decoders ran beside another, and what they may have left as a mixture. (Its
specification is `GaugeSpec` and that of `UsbcNotify` `UsbcSpec`, since each is
extended together with another module where it is proved.)

`QcmbMailbox` - the charger mailbox: the I/O queue, the standby callback and the
register work item, each at one exchange (`stage`) of its call. `air` holds the
replies on their way; their words are the firmware's choice. An exchange is one
exclusive `PmicGlink_SendData` in outline: it takes a reply of its opcode or
times out with success, or cannot be sent.

`UsbcNotify` - announcements of ports (an index that is none of a port included),
ACPI notifications, and the work items that send what the one pending request
(or state) holds when they run.
`owed` is history: what the firmware has yet to be sent.

`MC*` modules and `.cfg` files give the constants values; `*_proofs` modules
hold theorems and proofs: one module for each of the larger components,
`Battery_proofs` for `BattMini` and `BatteryGauge`, `Platform_proofs` for
`QcmbMailbox` and `UsbcNotify`.

## What each run checks

- `transport` (two callers, two opcodes of which one has no arm in the decoder,
  wait limits of 1, one look at the busy flag). `Exclusive`: two exchanges
  overlap only if both callers are disturbed. `RefinesExchange`: the code
  implements `Exchange`, so that the only way into that is the release at line
  218 of a call that has released at 149 or 204 already, which may hit another
  caller's claim, and no call succeeds without an answer that came during its
  exchange. The run reaches the overlap, so the code's exchanges are not
  exclusive; these two properties say exactly how far they are. `NoLeakedClaim`:
  no return path leaves flag or mutex behind. `NoLostReply`: a stored reply of
  an undisturbed caller always has its wake-up pending, unless its opcode has no
  arm, or the events were initialised under it; the run fails without either
  exception. `NoStaleReply`: whatever a caller finds in its slot was stored
  after it emptied the slot. Limits of 1 keep each wait loop able to go round,
  to match and to run out; properties do not count turns, and a call polls more
  than once in `transport_live`. Two callers are enough for a release to hit a
  claim, and a disturbed pair can go on to disturb again. Callers are symmetric,
  opcodes are not.
- `transport_live`: `EveryCallReturns`, one opcode, every loop limit 1.
- `notify` (a reply and a notification opcode, two threads, four packets).
  `PendingIsCovered`: a stored packet always has a work item, a running worker
  or the callback ahead of it, unless the last work item creation failed.
  `LossNeedsOverlap`: an unread packet is erased only by a worker that had
  already read its predecessor (the clear at the end of the consume comes
  outside the lock), by a sender of that opcode, by D0 exit, or by a longer
  packet for which there is no memory. `AnnouncedAfterErased`: the
  event for a deferred reply is set only when the slot is already empty, so that
  a sender of opcode 257 that waits for its reply (`transport.c` 340-365) normally
  times out: it cannot be woken by its reply in time to find it. Four packets let
  one be lost, one be announced, and two be pending at once.
- `notify_live`: `EventuallyDrained`, three packets.
- `ring` (three entries, three records). `RefinesLog`: the implementation of
  `BoundedLog`, with the committed writes as the log; `SnapshotIsLog`: the dump
  buffer is the log oldest first, before and after wrap-around;
  `FirstPassEncrypts`: the first pass of the XOR after any callback has
  linearised the ring leaves cipher, whatever came before. A second pass with no
  callback in between leaves plain text; how often it calls is the system's
  choice. Three entries wrap, and give full, partial and empty rings. Deadlock
  is not checked: after a bug check during a write every callback waits for the
  lock for ever, as in the driver.
- `sources` (two file objects that are used again, three GUIDs of which one is
  zero, three sources, rings of one entry). `WholeOrAbsent`, `OnlyNamedSources`,
  `ClosedFilesLetGo`. Two files are enough for owner and reader, and for an
  address to be used by a successor while the source is adopted by the other.

- `lifecycle` (two handles, which are symmetric; two threads at a time in the
  middle of something, beside D0 exit, and one kind of `crowded`, `late`, `swept`,
  `refused` in a behaviour). `ClosedIsForgotten`: the handle that requests are
  sent on is that of a channel open in GLINK, unless who closed it has still to
  forget it, or it was stored when its channel was closed already.
  `OnlyLinkUpStops`: while the link is up there is a channel or somebody to open
  one, and in D0 only the end of the link-state callback can break that: line
  3282 clears `GlinkChannelRestart` even when the new channel's disconnection
  set it. `RemovedIsQuiet`: after removal GLINK holds neither registration nor
  channel, unless an open met another open channel (its handle is overwritten),
  an open or registration overlapped D0 exit, a reset of the interface hit what
  another thread had got, or a deregistration failed. `RegisteredIsKnown`: but
  for such a reset or overlap, handle, registration and interface agree, and a
  failed deregistration on the way to sleep is remembered. Every exception is
  reached. Two handles let one channel close, or leak, while another opens;
  counts beyond that only add leaked channels. Two threads are what each
  exception takes, and a behaviour that has met one exception of
  `RemovedIsQuiet` shows nothing more of that property by meeting another; the
  proofs have neither bound. Deadlock is not checked: a removed device has
  nothing to do.

- `ulog` (the timer function and one work item, loop limits of 1, two packets,
  two connections). `NoLeakedClaim`: no race leaves the busy flag set.
  `FlagExcludes`: the flag is passed only when every other holder was already
  disturbed by a race, a late release or a channel opened again, all of which
  happen. `NoLostReply`: a reply in the slot of an undisturbed caller wakes it.
  `PrintIsFresh`: what is printed after an exchange that did not time out is an
  answer not printed before. Deadlock is not checked: the channel may stay
  closed with no timer.
- `battmini` (all threads, four at a time in the middle of something, one boot
  refresh queued). `DropNeedsOverlap`: a
  notification finds the go flag reset only if another thread's send ended
  between its looks. `TimerCovers`: while the channel is connected and the
  device awake, the timer is armed or about to be, or could not be created.
  `OnlyCrowdedOpensBreak`: a
  loaded miniclass loses its open target only to overlapping opens. One refresh
  item in the queue and one running are all the distinctions there are.
- `gauge` (the holder of the transport and one work item; five capacities and
  four states of charge, on both sides of the limits that the properties depend
  on). `GaugeTypeOK`: the percentage is one. `KnownSocIsShown`: when the decoders
  rest, no other reply has undone a known state of charge. `PercentageSurvives`:
  then a capacity sent in per cent has come back as sent when the full capacity
  is at least 10050. The bound is exact: with 10049, 1 % becomes a capacity of
  100 and is shown as 100 %. Both except what overlapping decoders left, until
  one that runs alone shows the charge again: the run reaches the mixtures (an
  old percentage beside a new state of charge, the valid flag cleared after it
  was set) and fails without the exception.
- `mailbox` (one work item, four words: with and without connection, command,
  result). `InfoIsAnswered`: charger information is returned only as the answer
  to its command, unless the command was not sent, another thread wrote the word
  meanwhile, or a late reply to an earlier request was taken. Each exception is
  reached: without it the run fails.
- `usbc` (two ports, two receive threads, five calls from outside).
  `OnlyOverwritingLoses`: a step takes from something owed to the firmware its
  last chance to be sent only by overwriting the port or the request, by the
  registration, or by failing. Each of the three is reached. Five calls let two
  ports, a selection and a registration overlap. Deadlock is not checked: after
  the last call nothing is left to do.

Every property has a mutant of the model (a `Defect` operator next to the
definition it replaces) under which TLC finds it violated.

## Fairness

`GlinkTransport`: weak fairness of each caller's steps (a thread that can run
runs, a wait ends by its timeout) and strong fairness of acquiring the mutex
(the kernel serves its waiters in turn). Nothing is asked of the firmware: no
callback is fair. `NotifyPath`: weak fairness of the second half of the callback
and of each pool thread. Packets stop at `MaxPackets`; without that bound a
low-priority packet can wait for ever, because the scan always prefers better
ones.

## What is proved

TLAPS proves, for all values of the constants that satisfy the modules' named
assumptions, every safety property of the runs above. Where a run shows that
the code keeps a property only up to an exception, a second theorem says what is
enough to have it outright; its extra hypothesis is a restriction on steps that
the code does not itself enforce, and the run shows that it is needed. The
arguments:

- `GlinkTransport_proofs`: `ClaimInv` is inductive. It adds to `Exclusive` that
  the mutex is held exactly by the caller in a mutex place, that between test
  and setting of the flag it stays clear (only a mutex holder sets it), and that
  an undisturbed claim is still visible in the flag. `ReplyInv` extends
  `NoLostReply` to the caller about to transmit, which is what makes it
  inductive: the reply may be stored before the wait begins. `Heeds` names the
  callers that are promised it. The refinement of `Exchange` goes action by
  action: local steps are stutters, a store answers the callers whose `seen`
  mark it bears, whatever empties a slot loses answers, and `ClaimInv` gives the
  guard of the abstract `Begin`, since a clear flag means that every claim left
  is disturbed. `FirstDisturbance` (the first step to disturb anybody is a
  second release) gives `OnlyRedundantReleaseDisturbs`, and
  `AloneUnlessReleasedTwice`: without such a release beside a claim there is one
  exchange at a time.
- `NotifyPath_proofs`: `PendingIsCovered` is inductive by itself; for
  `AnnouncedAfterErased`, `NumberedInv` adds that packet numbers are unique and
  that a retrieved reply is in its worker's own slot or nowhere; for
  `LossNeedsOverlap`, `ReadInv` says that a worker past its reading either has
  read what is in the slot or was there before it.
- `CrashRing_proofs`: index arithmetic modulo the capacity as lemmas
  (`IndexBack`, `IndexNext`, ...), then that each ring operation is the log
  operation on `Contents`, then `RingInv` and the refinement, with a committed
  write as the single abstract step of three. `FirstPassEncrypts` follows from
  the part of `RingInv` that says a snapshot no pass has gone over is plain,
  which every callback that linearises must restore.
- `CrashSources_proofs`: `WholeOrAbsent` and the roles (`RoleInv`): a file's
  roles and the GUIDs it asked for, across creation in a slot that was freed.
- `ChannelLifecycle_proofs`: `ClosedIsForgotten` is inductive with the types.
  `RegistrationKnown` rests on `LinkInv`: unless swept or late, a link-state
  handle has its registration and the interface, and a registration its handle
  or the thread that is to store it. `LinkCovered` adds `ClosingInv`: while the
  channel callback forgets a channel and asks for the restart, that channel is
  still closing. `RemovalQuiet` rests on `QuietInv`: unless excused, there is one
  live channel at most, its handle is known or with the thread that opened it,
  the interface to close it is there, and neither it nor the registration
  outlives its step of D0 exit.
- `UlogTransport_proofs`: `ClaimInv` says that the flag is held by a caller in
  its exchange or by nobody who still counts on it; `ReplyInv` covers, as for the
  request transport, the caller about to transmit; `FreshInv` follows the content
  of a buffer from slot to print. `CalmInv` gives `OneHolderUnlessRaced`: one
  holder of the flag at a time, if no two callers are between its test and its
  setting and nobody releases it beside a holder. Either alone is not enough.
- `Battery_proofs`, miniclass: `AloneInv` says that an opening thread that is
  not crowded is the only one, so that what it closes is its own; hence also
  `LoadedIsOpenUncrowded`. `CoverInv` adds to `TimerCovers` the thread that is
  about to start the timer, all on condition that there is one.
- `Battery_proofs`, gauge: `RoundTrip` is the arithmetic: for a full capacity F
  of 10050 or more, v per cent of F exceed 100 (so they are not taken for a
  percentage again) and the two roundings cancel. `InHandInv` says what a decoder
  may have in hand at each store, which makes the types inductive for any number
  of work items. `OverlapInv` says that a decoder that is not overlapped is the
  only one, so that `DecodedInv` (what a lone decoder has shown so far),
  `ShownInv` and `ConvertedInv` (the state of charge is that of its raw value)
  can follow it from store to store.
- `Platform_proofs`, mailbox: `InfoIsAnswered` looks at the word when the call
  is over; `MailboxInv` follows it there. `UnsentInv`: before the command has
  been transmitted no reply on its way can be an answer to it. `WordInv`: once
  the command is written, and while none of the exceptions has happened, the
  word is the command until it is the answer, the message holds that command,
  and the charger fields are copied only after an answer.
- `Platform_proofs`, USB-C: `CoverKept` goes through the steps for one value
  that is owed: the place it waits in (remembered port, caller, global with a
  work item, message) hands it on to the next. With `OwedBeginsCovered` (what
  becomes owed has such a place) this gives `UndisturbedIsCovered`: while
  nothing is overwritten, reset or failed, everything owed will be sent by
  somebody. The hypothesis is about the cover in use: a port announced over one
  that ACPI has acknowledged, or a request stored after the work item has read
  the one before it, is allowed, and so is any call that touches neither. There
  is no inductive invariant without that hypothesis: one
  overwriting leaves a value owed and uncovered for good.

Only model-checked: `EveryCallReturns` and `EventuallyDrained`. They are liveness
properties under fairness, which needs ENABLED.

## Abstractions

- GLINK callbacks of a channel are taken to be serialized by GLINK: one receive
  callback at a time. GLINK itself, WDF and the firmware are not part of the
  source.
- GLINK makes one channel callback at a time, and one link-state callback at a
  time, but the two may overlap. It reuses the handle of a closed channel only
  after its local disconnection. A call through an interface table that was
  zeroed meanwhile stops the system and is no step.
- In `ChannelLifecycle`, flags stored in a row are one step, and all queries for
  the interface that fail in a row are resets like the last.
- The ULOG channel, opened and closed by the same callbacks, and with it the call
  of `PmicGlinkEnsureApiInterface` that opening it makes, is left out of
  `ChannelLifecycle`; `UlogTransport` has those callbacks as far as they touch it.
- `BattMini` and `BatteryGauge` leave out what is only copied (rates, names) and
  the throttles of the queries. `BatteryGauge` reads the designed and the full
  capacity in one step; a reply that changes both between the reads overlaps the
  reader, and what comes of it is excepted anyway. Two starts that create the
  timer at once come one after the other.
- The system hands back to the secondary dump callback only a buffer that the
  callback offered: `CrashRing` has no pass before the first offer.
- `QcmbMailbox` takes exchanges to be exclusive, which they are but for the
  release at line 218 (`AloneUnlessReleasedTwice`); it leaves out the notification
  event, since the bounded wait for it ends either way.
- ACPI acknowledges each evaluation of UPAN once, one notification at a time.
- Packet contents are not modelled; which reply fields are decoded how does not
  influence control, except for opcode matching, which is by slot and, in
  `GlinkTransport`, by whether the decoder has an arm for it.
- Loop limits (1500 polls, 5 and 140 waits), number of callers, opcodes, sources
  and entries are constants; the proofs hold for all of them.
- `gPmicGlinkTxCount` and trace output are left out.
- Reallocation of a slot buffer empties the slot, and fails at will; what a reader
  that holds no lock gets of the deleted buffer is left out.

## Plan

1. Done: transport, notification path, crash-dump rings and sources, channel
   lifecycle, ULOG, battery miniclass, gauge, mailbox and USB-C notifications,
   each with proofs; the refinement of `Exchange`.
2. The cached UCSI command and its repetition by the register work item.
3. Liveness of the channel lifecycle.
4. An abstract specification of the notification path (each packet is read once
   or lost to an overlap), refined by `NotifyPath`.

## Not modelled

- ABD connections: attachment, reference and detachment of one kernel interface,
  in the pattern of the battery miniclass without its notifications.
- UCSI and DDI: the alert callback is one pointer under a lock and the reference
  count is never looked at; the cached UCSI command is planned (above).
- I/O queue and IOCTL dispatch: one request at a time, each complete in its
  handler; handlers that touch shared state are in the modules of that state.
- The remaining arms of the reply decoder: they copy fields.
- Crash-dump global callbacks: registration and removal, one kernel call each.
- Driver entry, registry, tracing: straight-line set-up.
