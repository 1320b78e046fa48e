# Keymasq: TLA+ specifications

Keymasq remaps input devices on Linux.  A root daemon (`keymasqd`) grabs devices
exclusively, runs every event through an ordered pipeline and writes the result to
uinput devices; a per-user session process decides which profile applies and sends
mappings to the daemon; a GUI and a command line talk to the session.  This directory
models the parts of daemon and session whose correctness is hard to test: keys that are
held while everything else changes, hardware that is taken away from the desktop and has
to be given back, and two processes that must agree on what is applied.

A wrong step shows as a key that stays pressed, a key that is pressed while the machine
is going to sleep, a controller that stays hidden, a layer that never ends, or input that
never comes back.  Daemon and session each run on one asyncio loop, so the interleavings
are those of tasks at their awaits, of the two processes, of privileged worker processes
that may be killed, plus the kernel, logind and the user, who wait for nobody.

## Inventory

| Component | State | Operations | What makes it correct |
|---|---|---|---|
| Grabbed device key path (`runtime/grabbed_device/`) | held source keys and their remembered actions, quarantined keys, held outputs per bucket, withheld presses, reader buffer | read an event, process it, reconcile key state, release everything, seed, neutralize | every press is released on the output it was pressed on; nothing is pressed while input is closed |
| Sleep coordination (`sleep.py`) | requested suspend, outstanding neutralizations, event queue, inhibitor, connection | PrepareForSleep handler, worker, connection supervisor, start, stop | paused while a suspend is prepared, outputs released before the machine sleeps, input back after the wake |
| Super keys (`superkey_state.py`) | gesture state, two timer tasks, held actions | down, up, timeouts, retire, stop | one meaning per gesture, presses and releases balance, a gesture ends |
| Combo engine (`combo_engine.py`, `runtime/combo/`) | candidates with deadlines, held bindings, recalled presses | press, release, expiry, replacement of the combos | a recalled press is released and replayed at most once |
| Rollover (`runtime/rollover.py`) | pending presses per group | press, release, decision | order of presses is kept |
| Hardware masking (`hardware_masking.py`, `masking/`) | reservations with phase and deadlines, undo records, emergency latch, stop generation | mask, confirm, restore, poll, monitor, startup, privileged jobs | access is restored after any failure or crash; a late answer does not re-open what was stopped |
| Grab lifecycle, topology (`runtime/grab/`, `runtime/topology.py`) | desired and actual grabs, delayed releases, snapshots | acquire, release, hotplug, re-grab | grabs converge to the desired set, hidden sources are restored |
| Macro playback (`runtime/macro/`) | instances, parents, pauses, held outputs, block counts | play, pause, cancel, loop | cancelling releases what was held; block counts return to zero |
| Action sequences, rapid fire, repeat (`runtime/action*`) | lanes, tasks per event | run, detach, cancel | one lane at a time per key |
| Recording and capture (`recording*.py`, `capture_manager.py`) | memory chunk, pending chunks, writer task | append, flush, finish, discard | a snapshot has every event or the recording fails |
| Profile activations (`profile_activation_tracker.py`, `session/manager/events.py`) | trackers with count and timeout, the session's activations | trigger, track, observe, expire, cancel, reset | each activation is tracked and ends for its own reason |
| Session (`session/manager/`) | apply generation, what the daemon is believed to have, command references | reevaluate, apply, retry, events | the daemon ends up with the newest generation |
| IPC, fd handoff (`socket_server.py`, `fd_handoff.py`) | pending tokens | expect, claim, receive, discard | every descriptor is used or closed once |
| Analog, motion, pointer, force feedback | filters, axes | event handlers | numeric |
| Listeners, MPRIS, GUI, CLI, helper, configuration | - | - | I/O, presentation, parsing |

How they interact: the device pipeline asks the device manager whether input is paused
and which mapping is active, and calls the combo, rollover and super-key stages.  The
sleep coordinator and the masking coordinator both call `neutralize_runtime`, which a
lock serializes.  Macros block keyboard output through a counter `write_key` reads.  The
session replaces mappings and combos at any time, also in the middle of a key press or of
a combo's action.  The masking coordinator starts root jobs and reads back their records;
the daemon's runtime stops its readers for it.  A key may activate a profile: the daemon
tells the session, which applies profiles and asks the daemon to tell it when to stop.
The hard behaviours are listed, line by line, in `PROJECT.json` under `hazards`.

## Modules

| Module | Models |
|---|---|
| `GrabbedDevice` | the key path of one grabbed device |
| `Sleep` | `LogindSleepCoordinator`, with logind, the bus and the pause flag of the device manager |
| `Superkey` | the pattern-mode `SuperkeyMachine` of one source key |
| `Combo` | combo engine, its orchestration, and the part of the devices that passes, recalls and restores trigger keys |
| `UndoLog` | abstract: a change is recorded before it is made, the record outlives the change |
| `MaskBackend` | the privileged jobs on one attachment and their undo records; implements `UndoLog` |
| `MaskReservation` | one reservation of the coordinator, with the daemon runtime that reads the hidden device |
| `MaskAdmission` | the emergency latch, the stop generation, and who may grab |
| `ProfileApply` | generations of profile applies in the session against the daemon's state of one device |
| `ProfileActivation` | temporary profile activations, across session and daemon |
| `MC*` | small instances of these for TLC |
| `*Proofs` | theorems about the module of that name, and their proofs |

Operators named `X_something` next to a definition `X` are deliberate faults; they are
used by no specification.  They show, for each property, a plausible bug of the code that
violates it (`PROJECT.json`, `mutants`).

The masking modules cut one subsystem along its two interfaces.  `MaskBackend` has every
durable effect of a root job and abstracts the coordinator to what it wants;
`MaskReservation` has the coordinator and abstracts the job to its result; `MaskAdmission`
has the latch that the daemon consults before it grabs anything.  `ProfileActivation` uses
an apply as one step with an end, which `ProfileApply` has in detail.

### GrabbedDevice

`unread` is the kernel's client queue, `input_event_buffer` the reader's.  One step of
`Pipeline` is `process_event` for one key event: `PausedEvent`, `QuarantinedEvent`
and `SuppressedEvent` are the early returns of `_process_event`, in its order;
`apply_fast_passthrough` and `apply_mapped_action_or_passthrough` its two ends.  A plain
key action does not suspend, so an event is one step.  `write_key` covers `key_blocked`,
the uinput write and `track_key_state`; with `DefaultOutput`, unmapped input takes
`DefaultControllerRoute.emit` instead, which drops the codes the controller lacks (those
not in `Buttons`) and looks at no block.  An event that raises
(`recover_from_event_processing_error`) may have raised in the middle of its write:
`Raised` has what was written and tracked by then, in the order of either path, before
everything is released.  `down` is the kernel's side of the uinput devices: it is what a
user would call a pressed key, and no code reads it; `slipped` is a history variable,
explained below.
`reconcile_live_key_state` is one step because the code does not suspend in it, but the
user moves during it: the queried state `active` may differ from what the drained events
say, and the difference is lost from the queue (operation `"lose"`).
`neutralize_runtime` is three steps, because macros, combos and super keys are awaited
between the quarantine and the release.

Constants choose what may happen (`Operations`), so that each run asks one question.
`Mappings` are functions from keys to actions: none, suppress, passthrough, keyboard.
Mouse and gamepad targets follow the same path as keyboard targets through another
bucket.  KEY_ESC, which ends an inspector suppression from the keyboard, is not among the
keys; `SetSuppression(FALSE)` stands for it as for the request.

Not in the model: events other than keys, combos, rollover, super keys, rapid fire, tap
and repeat actions, devices that are only observed, a second device, `SYN_DROPPED`, the
coming and going of the routed controller, a write error that ends the grab (an `OSError`
of the reader's own reconciliation), and the grab and release of the device itself: `Init`
is the state right after a grab with no key held.

### Sleep

Variables keep the names of the class.  `worker` and `supervisor` say where the two
tasks await; start and stop are places of `supervisor`, since only one of the three runs
at a time.  logind is external: a suspend is announced on a live connection, waits for
the inhibitor or, with the fault `"timeout"`, for its own limit, and a wake follows.
A lost connection and a change of logind's owner are one action, `ConnectionLost`: what
was on its way is lost.  A call that is pending on a connection that is closed fails
(`RefuseWorker`).  `outputs_active` stands for the whole of GrabbedDevice: input that is
not paused may press or release, a neutralization releases.  `monitor` is the mask
monitor: `suspend` stops it before it restores the hardware (`MonitorStopped`), `resume`
starts it if a user's session is remembered (`session`), and so does any answered mask
request, asleep too; `close` stops it first and forgets the session last.  Its values tell
who started it last, and whether a suspend took it from a session.  `promised`, `overlapped` and `leaked`
are history variables the properties use.  `resume_runtime_input` also asks the topology
watcher for a scan, which is not modelled.

### Superkey

A slot's action list is a sequence of bursts, the outputs pressed without suspending.
Between bursts the list awaits an action with a task of its own, and a tap awaits its
pulse of 10 ms.  The release of a macro is awaited as well, so every release is one burst
at a time, the last one first: of a tap (`PipelineRelease`, `DoubleTapRelease`), of what is
held (`HeldRelease`), of a reset (`StopRelease`) and of a double-tap task that the second
press or a reset has cancelled (`CutRelease`).  In between everything else may happen, the
cancellation of that task included: cancelled in its list it still releases (`cut`),
cancelled while it releases it leaves the rest down (`lost`).  Time is abstracted: a timer may expire at any time, and a release is a
tap or not by choice.  `pressed` is the bag of output press counts.  A hold list that is
still running when its gesture ends goes on (`HoldBurst`, `StrayBurst`); `late` records
it.  A reset has three parts, `Stop`, `StopRelease` and `StopEnds`, and `_running` is FALSE
from the first to the last; a retired machine that becomes idle meanwhile is left to the
reset.  Overload mode, the repetition of a slot, lists with a natural cursor move (they run
in a lane of `ActionSequences`), emergency resets inside a list, a reader that is cancelled
while the pipeline awaits a list, two resets at a time, and the machine that a press builds
between the end of `stop` and the `clear` of `reset_superkeys` are not modelled.

### Combo

Every device reads its events in a task of its own.  `Arrive` is what the device does
before it waits for the combo runtime's transition lock; `Decide` is the engine's
`handle_event` under the lock, `start_combo_action` and `stop_combo_action` follow one at
a time, because each awaits, and `Finish` routes the event.  Other devices' events arrive
meanwhile.  Deadlines pass at any time (`DeadlinePasses`), and the watchdog takes expired
candidates out when no event does.  `set_combos` replaces the engine and primes it with
what is held, `release_device` takes a device away.  An action is its entry in
`active_actions` and the keys it owes a restore; what the action presses is not modelled.

A combo may recall a modifier and not restore it, as the built-in Ctrl+Alt+Esc does
(`manager_combos.py:315`): the modifier then stays suppressed until it is released or
pressed again, or until another action that owes it stops.  `SuppressedIsOwed` therefore
says when a modifier may *come to be* suppressed with nobody owing it: only when such an
action starts (`RecalledForGood`).  In every other step a promise that was made is kept.

Not in the model: cancelling a device task in the middle of a transition, actions that
fail, super keys and sequences as combo actions, and rollover, which runs after the
combos.

### UndoLog and MaskBackend

A job is a list of steps, each one durable effect: a record, the late and the early rule
file, the reload, a driver unbound or bound, a port switched, the Deck's mode, an access
list.  A job may fail or be killed before each (`Abort`), the hardware may be connected
again, detached by a USB client, or gone (`Raise`), and a journal may be damaged.
`access` is what a user of the desktop notices.  The mapping to `UndoLog` reads `Recorded`
off the record files and `Changed` off the machine, so `KeepsUndoLog` says of every single
write which side of the record it is on.

All nodes, bindings and both rule files of an attachment are treated alike, and a
verification that compares names and inodes is a choice to fail.  `raced` is a history
variable, explained below.

### MaskReservation

Variables keep the coordinator's fields: phase, reason, the two deadlines, the apply and
recovery tasks, who holds `operation_lock`; the files are `policy`, `marker`,
`stopMarker`, `selection`; `seen`, `acquisition`, `readers` and `ownToken` are the
daemon's `MaskRuntime`.  A token is only ever compared with the current one, so a captured
token is the fact whether it is still current.  The daemon may die at any time
(`up`); `initialize` restarts from the files.  Requests, the monitor, a recovery task, the
apply task and the runtime's update task interleave as their locks allow.  `owner` is the
session that `HardwareMasking` serves: `handle` remembers it, an answered request or a
wake starts the monitor, `suspend_masks` stops it, and `close`, when the last session
leaves, stops it and forgets the session.  Both restore every mask first; without the
monitor nothing polls, verifies or retries.

One reservation is modelled.  The Deck's input mode, which two reservations share, the
inventory of devices and damaged journals are not.

### MaskAdmission

`emergency_latched`, `observed_paused` and `stop_generation`; the requests of the monitor
and of the window are issued, executed by the coordinator and answered in separate steps,
and an emergency stop takes four.  `grab_device` checks the latch before and after it
waits.  `inForce` is a history variable: a stop released the devices and nobody has asked
for them since.

### ProfileApply

`s` is what the session believes (`ProfileRuntimeState`, `ExecRuntimeState`), `daemon`
what the daemon has; `commands` and `replies` are the socket.  Every change of context is
a new generation whose task cancels the running one at its await.  A cancelled grab,
release or rollover command loses its answer; a cancelled mapping is settled first.
A delayed release, a reset of the daemon, hotplug, a lost connection and the retry are
actions.  A grab has six answers: grabbed, waited for, "timed out waiting" for keys to be
up, the client's own timeout (`late`: the daemon takes the command and its answer comes too
late), zero interfaces while remapping is suspended (`paused`) and any other failure; only
the two timeouts arm the retry, `paused` drops it and forgets the signatures, and a failed
grab leaves the daemon's wish as it was (`rollback_failed_grab_report`).  A signature stands for the payload it identifies.
`overtaken` is a history variable, explained below.

One device with a fixed set of interfaces.  SET_COMBOS follows the protocol of
SET_MAPPING and is left out, like the inspector, default outputs, capture locks and
lifecycle macros; RELEASE_DEVICE does not fail, and a timeout while a request settles is
part of the reconnection.  Only a device that is not grabbed is slow to grab or paused: a
grabbed one keeps its grab at once, and a pause has released it.  That a pause ends is
announced to the session by the masking, which is not modelled.

### ProfileActivation

The n-th press of a bound key, its trigger, the session task that handles it and the
activation it creates are all named n.  The tracker has its two indexes, active trigger
keys, timers and action counts; the session has activations, enabled flags and an apply
that is new, under way or idle.  Broadcasts keep their order in `queue`, deactivation
requests are handled by tasks of their own, and commands are served in order.  A reset is
the emergency reset; the resets of hardware masking are not modelled (a controller that is
ready keeps the activations, a recovery that is not retried clears them without a new
apply).  Bindings do
not change, and an apply does not raise.

## Runs

TLC explores every reachable state of each instance.

| Run | Instance | Shows |
|---|---|---|
| `GrabbedDeviceMapping` | 2 keys, 2 targets, non-empty mappings, errors, lost events | keys held across mapping changes are released where they were pressed; the runtime follows no key the hardware does not hold |
| `GrabbedDeviceSuspend` | 2 keys that share a target, pass to a routed controller or are unmapped, suspends, mask neutralizations, blocks, failing writes, repeats | tracked outputs cover what is down, no output is stuck, nothing is pressed while input is closed, withheld counts belong to held keys |
| `GrabbedDeviceLiveness` | with a controller output route, blocks and suppression | letting go of all keys releases all outputs for good |
| `SleepAll` | all faults, 3 queued events | the count of outstanding neutralizations is exact, stop leaves none |
| `SleepSettled` | 4 queued events, timeouts, lost connections | pause, agreement with the last signal, clean lone suspends, resumption |
| `SuperkeyGestures` | 3 configurations, 3 queued events | balance of presses, finality of a hold, end of the gesture |
| `Combo` | 2 devices, 4 inputs with a wheel and a modifier, combos of one and two steps, with and without recall, one of them like the emergency combo without restore, one edit | an action runs while its keys are held, no output is left down, a promise to restore a modifier is kept, a late step never completes, a deadline takes effect |
| `MaskBackend` | all three kinds of attachment, 3 connections, 2 faults | the jobs implement the undo log; the recorded baseline is the desktop's; access returns |
| `MaskReservation` | a USB attachment, 2 faults (crashes, suspends and sessions that leave among them) | readers stop before a rebind, phase and journal agree, a stop holds, activation and recovery end while a session attends |
| `MaskAdmission` | 3 emergency stops | an answer older than a stop does not re-open grabs |
| `ProfileApply` | 3 contexts, one without a mapping, 4 generations, one fault | references resolve, the rollover belief is true, the daemon ends with the newest context, applies end |
| `ProfileActivation` | a hold layer, a one-shot with timeout and count, a persistent toggle, 3 presses, one fault | a lasting activation is tracked, the applied profiles are the active ones, an activation ends for its own reason, a hold layer ends |

Deadlock is not checked where the system may rest: in `MaskBackend`, `MaskAdmission`,
`Combo`, `ProfileApply` and `ProfileActivation` the bounded inputs run out.

Each module states its types as `TypeOK`.  They are the first conjunct of the inductive
invariants below and are proved with them, for every module.

Bounds.  Two keys are needed for a shared target and for a key that is held while another
changes; one or two targets suffice because the code treats targets alike.  `MaxUnread`
and `DrainLimit` of 1 or 2 let a batch be full, short and empty (4096 in the code).
`MaxQueue` in `Sleep` lets a suspend, its wake and the next suspend wait at once; in
`Superkey` it lets a whole second press wait.  `MaxLate` stops the user from pressing
again once that many bursts of outliving hold lists and of cancelled taps are around.  In `Combo` two devices
are needed for an event that waits for another's transition, and one edit meets every
state of a running combo.  `MaxFaults` = 2 in the mask modules lets a recovery be cut short that
was itself started by a failure; three connections let the attachment return between
activation and recovery and again during recovery.  `MaxStops` = 3 lets two stops overtake
one answer.  Four generations of `ProfileApply` let a context return while two superseded
applies settle; three presses of `ProfileActivation` let a key be pressed again while its
first activation ends and another key changes the profile.

Fairness.  The pipeline, the reader's reconciliation and the neutralization that the
sleep worker awaits make progress, since asyncio runs every ready task.  In `Sleep` the
same holds for each task; signals on a live connection arrive; a lost connection is
noticed and retried for ever, as `_supervise_connection` does.  In `Superkey` timers
expire and the actions a list awaits end.  In `Combo` the holder of the transition lock
and the watchdog go on.  In `MaskBackend` a job takes its steps or raises, and a recovery
is started again as long as something is recorded, as the monitor does while a session is
there (see the exception).  In
`MaskReservation` jobs end, because systemd bounds them, the recovery task runs, the
monitor acts again while it runs (its fairness says nothing without a session), and
deadlines pass; the activation deadline is strongly fair because it is only
looked at between other jobs, each of which ends.  In `ProfileApply` and
`ProfileActivation` the daemon serves its socket, answers wake the tasks that wait, and
timers expire.  The user, the session's contexts, logind, the hardware, faults and `stop`
owe nothing.

## Known exceptions

Modelling met behaviour that breaks what one would expect, or what a doc says.  The
properties hold outside these cases; each entry says what keeps the case out.  Removing
the exception makes TLC show the behaviour.

* Fast path (`pipeline.py:705`; `CHANGELOG.md:138` says "Fixed keys staying pressed when a
  mapping changed while the key was held"): a press under an empty mapping is not remembered, so its release follows a
  mapping installed meanwhile.  An action seeded while a release is quarantined survives
  into the next press (`pipeline.py:280`, `dispatch.py:115`).  The instances have
  non-empty mappings or a routed output, and no mapping change meets a suspend.
* Write without tracking (`runtime/grabbed_device/outputs.py:311-321`): a keyboard target
  is written, synchronized and then tracked, so a `syn` that raises leaves the output down
  and untracked, and the release of everything that follows does not reach it; with a
  default output (`default_controller_route.py:67-72`) a release is untracked and then
  written, with the same result.  `slipped` has these outputs until an event writes them
  again; the theorem `SlipsAreRaised` says that nothing else gets there.
* Overlapping suspends (`sleep.py:161`, `docs/dependencies.md:190`): the end of an older
  cleanup closes the inhibitor a newer suspend waits on.  `CleanLoneSuspend` speaks of
  suspends that do not overlap.
* Lost wake (`sleep.py:237`, `docs/dependencies.md:192`): a connection attempt that fails
  after it has subscribed may have paused input and never hears the wake.  `SleepSettled`
  has no failing reconnection.
* Mask monitor asleep (`hardware_masking.py:474`, `:488`): `docs/dependencies.md:194` says
  that monitoring restarts only after restoration finishes; a mask request that is answered
  while the suspend restores, or later while the machine sleeps, starts it as well.
  `SettledAgreement` tells a monitor that a request started from one that a wake started.
* Inhibitor overwritten (`sleep.py:277`): two tasks await one each.  `leaked` records it.
* Mask recovery during suspend (`device_manager.py:533`): it un-pauses input at its end.
  `PausedWhileSleeping` is checked and proved without the fault `"mask"`.
* Super key tap by timer (`superkey_state.py:371`, `docs/superkeys.md:31`): during its
  pulse a second press is still accepted and another slot fires.  `HoldIsFinal` allows a
  tap to be followed by another slot.  A hold list that awaits goes on after the release
  (`superkey_state.py:531`); `late` records it.
* Super key tap cancelled while it releases (`superkey_state.py:380-381`, `:523-528`): the
  second press or a reset cancels the double-tap task at an await of its `finally`, and what
  it has not released by then stays down.  `lost` records it: `PressedIsAccounted`,
  `IdleReleased` and `GestureEnds` say that nothing else is left down.
* Recovery and hotplug (`masking/backend.py:663-706`): a device that connects between the
  lookup and the removal of the rules comes up masked and nothing triggers it again.
  `raced` records it.
* Failed recovery at the end of a session (`daemon.py:367-371`, `hardware_masking.py:615-642`):
  the last session's leaving stops the monitor and restores once.  If that fails,
  `coordinator.py:607` logs "recovery will retry", but nothing does until a session asks
  for something.  `Unattended` is that state, and the one after a restart that no session
  has followed yet; `RecoveryEnds` leaves a device there, and `ActivationEnds` speaks of
  activations that the monitor watches.
* Deck recovery that is killed between unbind and bind after a reconnection fails until
  the hardware is connected again.
* Observations on `MaskReservation`: switching persistence off while unplugged leaves udev
  rules armed without a policy; an automatic start that always times out is started again
  for ever; a late `replacement_unavailable` may overwrite the `user_restore` marker, and
  then only the policy keeps the stop in force.
* Answers during a stop (`hardware_masking.py:361-367`, comment at `:596`): one that is
  both issued and received while the stop neutralizes has the stop's generation and clears
  the latch.  `AsksDuringStop = FALSE` keeps it out.
* Combos on a device without a mapping (`event/combo.py:88-97`): a key pressed before the
  combos were set took the fast path, its release is consumed.  The instance maps both
  devices.  A capture that starts while a combo key is down takes its release away
  (`runtime/combo/events.py:76`, `:191`); `CaptureOverlaps = FALSE`.  Recalled keys are
  marked by normalized name (`device.py:1183`, `event/combo.py:51`), so left and right
  variants share a mark; the instance has no such pair on one device.
* Superseded applies (`application.py:269`, `reconciliation.py:62` "newest-wins"): from A
  to B and back to A, the daemon accepts B's command although its apply was cancelled, the
  session still believes A and skips it.  The same with a cancelled grab or release in
  between.  A reset forgets that a device is grabbed, and a context without a mapping then
  never releases it.  A grab that times out while its retry runs is not
  retried again (`runtime_state.py:44`), though the notification says "Retrying
  automatically." (`application.py:427`), and a grab that fails otherwise or meets a pause
  is not retried at all (`application.py:391`, `:415`, `:447`).  `overtaken` records these.
  The references of a device are dropped by a topology refresh while the daemon still has
  its mapping; `RefsResolve` speaks of mappings the session knows of.
* Tracking of activations (`events.py:608`, `docs/actions.md:610-623`): trigger tasks
  resume in any order and send TRACK without looking whether theirs is the current
  activation; an older TRACK replaces the tracker of a newer activation, which then never
  ends.  `overtaken` records it.  Not modelled: an apply that raises before TRACK leaves
  an activation without a tracker.

## Proofs

Every theorem holds for all values of the constants that satisfy the module's named
assumption and the conditions given here.  Each `*Proofs` module has the same shape: an
invariant made of named parts, one lemma per action (or per part, where the actions are
many) that shows it kept, and the theorem from these by `PTL`.  TLC checked every
invariant on the module's run before it was proved.

**Key path** (`GrabbedDeviceProofs`).
* `DownStaysTracked` is inductive as it stands, once every step is classified as silent, a
  write or a release of everything (`StepKinds`) and a release of everything is given what
  was tracked, save what the event that raised has touched (`RaisedWithin`).  Its exception,
  `slipped`, is bounded by `SlipsAreRaised`.  `ClosedIsQuiet` follows from the same
  classification, since only an event that passed pause and suppression writes a press, and
  only `write_key` writes those that a macro blocks.  `TypesHold` is the type correctness.
* `HeldStaysFollowed` (`HeldFollowsHardware`): what the runtime follows lags behind the
  hardware by the events that are not processed yet.  `FollowingInv` therefore speaks of
  each key's history, the buffered and the unread events together: it alternates, it ends
  in the physical state (`StreamInv`), and it starts from what the runtime follows unless
  a repair is due (`FollowInv`).  The lemmas `History*` say what appending, consuming and
  repairing do to such a history; `EventsOnce` and `HistoryRepaired` are about the events
  that `reconcile_live_key_state` synthesizes.
* `NothingStaysStuck` (`NoStuckOutput`) and `WithheldIsOwed` (`WithheldAwaitsRelease`) add
  a count (`OwedInv`): an output is owed as many releases as followed keys are routed to
  it, and at least as many as have been pressed or withheld.
* Conditions of these three: suspends and mask neutralizations do not meet changes of
  mapping or suppression (`NoSuspends \/ NoChanges`), and for the last two unmapped input
  is routed or no mapping is empty.  Both exclude the fast-path exception above and
  nothing else.

**Sleep** (`SleepProofs`).
* `PendingIsExact`: that the counter stays a natural number when it is counted down rests
  on what it counts, so types and count are proved together.
* `InputStaysPaused`: the worker is the only one to neutralize and found input paused
  (`LockInv`), and the coordinator's flag implies the device manager's (`PauseInv`).
* `StopFinishes`: a stop is the last event of the queue and nothing is announced behind it
  (`StopInv`).
* `SettledAgrees`: the last event in the queue or in the worker's hands is the last signal
  (`LastInv`), and what each task has done so far fits the event it works on (`AgreeInv`,
  `QuietInv`, `InhibitInv`); a monitor that a suspend stopped belongs to a session, so the
  wake that is handled in full starts it again.  It also covers failing reconnections, which the run leaves
  out.  `LoneSuspendIsClean` adds what a delayed suspend was promised (`PromiseInv`).
* Condition of `InputStaysPaused`, `SettledAgrees` and `LoneSuspendIsClean`: `"mask"` is
  not a fault (see the exception).

**Masking.**
* `StopsHold` (about `MaskAdmission`, at the end of `MaskReservationProofs`): a request
  that carries the current generation was issued after the last stop (`RequestInv`), so
  what is in force cannot be reopened by anything older.  Condition: `~AsksDuringStop`.
* `RebindsQuiesced`, `PhaseIsJournaled`, `StopIsFinal` (`MaskReservationProofs`) come from
  one invariant: no update task is about to acquire while the helper's job runs
  (`QuiesceInv`), which phases have a journal, and what a stop leaves under way
  (`StopInv`).
* `JobsImplementLog` (`MaskBackendProofs`): every step maps to a step of `UndoLog` or
  leaves it as it is, so the refinement that TLC checks on small instances holds for every
  kind of attachment, number of connections and faults.  A step that makes a change needs
  the record to exist, so the invariant relates each position of a job to the records it
  has written (`MaskInv`, `UndoInv`) and the hardware to the records (`DeviceInv`).
  `RecordsSuffice` is `UndoLog`'s own safety property over the same mapping;
  `BaselineHolds` says that the permissions a recovery puts back are the desktop's.

**Super keys** (`SuperkeyProofs`).  `EveryPressIsOwed` (`PressedIsAccounted`): output by
output, the count equals the presses held, orphaned, executed by a list under way, cut
off or lost (`AccountInv`); lists are bursts, so the lemmas on `Count` say what a prefix of
a list holds, and what is left when one burst is released.  `IdleHoldsNothing` and `HeldGestureWins` follow from which tasks each gesture
state allows (`StateInv`) and which slots have fired (`FiredInv`).

**Combos** (`ComboProofs`), for any devices, inputs, combos and edits.
* `TypesHold`: the engine's decisions keep their candidates within the present combos
  (`CandidatesOK`), the transition under way has the shape of its step (`JobShape`), and
  inputs without a release are never held (`Pulseless`).
* `LateStepsDrop` (`LateStepNeverCompletes`): `handle_event` forgets what has expired
  before it looks at the event, so a late press starts a step and completes none.
* `ActionsAreHeld` (`ActionHeldByKeys`): an event on its way agrees with its key (`KeysOK`)
  and a capture takes nobody's release (`CaptureOK`), so what the engine takes for held is
  down or its release has not been read yet (`EngineOK`); what is to be started has a
  complete candidate unless it is stopped at once (`JobOK`), and what runs has one unless
  it is about to be stopped (`ActiveOK`).
* `MarksAreOwed` (`SuppressedIsOwed`) needs nothing of the combos, so it holds of the
  default set with its built-in Ctrl+Alt+Esc: each step keeps what was promised
  (`PromisesKept`), because stopping an action takes the marks of all the keys it owes
  (`StoppedOwed`), and a start marks a modifier only to promise it or for good.
* `OutputsReleased` (`NoStuckOutput`): an output that is down is remembered and unmarked,
  and an event on its way agrees with it: a press finds it up, and a release is suppressed
  only if it is up already (`OutputOK`, `Fresh`, `Quiet`).
* Conditions: no capture begins while a combo key is held (`CapturesApart`, for
  `ActionsAreHeld` and `OutputsReleased`), every device is mapped (`Remembered`, for
  `OutputsReleased`), and a device has one input of each name (`OneOfName`, for
  `OutputsReleased`).  The instance satisfies them.  Without the mapping TLC finds an
  output that stays down.

**Profiles.**
* `AppliedIsActive`, `ActivationsTracked`, `EndsWithReason` (`ProfileActivationProofs`):
  the tracker's two indexes agree (`IndexInv`), and for every activation of the session
  there is a tracker, or a message, a task or a request on its way that will end it
  (`CancelInv`, `TrackInv`).
* `ReferencesResolve` and `GroupsAgree` (`ProfileApplyProofs`): commands and answers keep
  their order (`QueueInv`, `AnswerInv`), a staged mapping keeps its references until it is
  settled (`StagedInv`), and the last rollover command in the socket is what the session
  will believe (`RollInv`).
* `NewestApplied` (`AppliesNewest`) needs most.  What the session believes is what the
  daemon keeps unless it has announced otherwise (`KeptInv`); what is not in doubt is
  changed by the newest apply alone (`DoubtInv`); an answer on its way to that apply is
  still true (`AnsweredInv`); and a finished step of it leaves the grab and the mapping
  that its context resolves to (`GrabInv`, `MapInv`).  `overtaken` is what the theorem
  excepts, as in the known exceptions.

Only model-checked: liveness and everything under fairness, which the prover does not
cover (`EventuallyReleased`, `ResumesAfterWake`, `GestureEnds`, `AccessReturns`,
`ActivationEnds`, `RecoveryEnds`, `StepTimesOut`, `ApplyEnds`, `HoldEnds`).  Every
invariant and every safety action property that a run checks is the subject of a theorem.

## Plan

1. `Sleep` and the masking modules composed over `neutralize_runtime`.
2. `MacroPlayback`: instances and the block counts that GrabbedDevice takes as input.
3. `RecordingSpool` and `FdHandoff`: small modules of their own.
4. `GrabLifecycle`: acquisition under the operation lock, interfaces, source hiding.
5. Rollover and the lanes of action sequences in front of GrabbedDevice.

## Not modelled

Macro playback, action sequences, rapid fire, repeat, rollover, recording and capture,
descriptor handoff and the acquisition of grabs: they have concurrency worth modelling and
are on the plan.  GUI, command line, packaging, integration-test and screenshot drivers,
listeners' protocols, configuration parsing and data models: most of the repository's
lines; no concurrency of their own, plain tests reach them.  The numeric filters of analog
and motion controls are out of TLC's reach at their real ranges, and force feedback is a
proxy of kernel objects.
