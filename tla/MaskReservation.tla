-------------------------- MODULE MaskReservation --------------------------
(***************************************************************************)
(* One attachment's mask as the daemon keeps it: the reservation and its   *)
(* deadlines (masking/coordinator.py) and the readers that take over its   *)
(* input (MaskRuntime in keymasqd/hardware_masking.py).                    *)
(*                                                                         *)
(* Every request to the coordinator runs under HardwareMasking.lock and    *)
(* the reservation's operation_lock; the monitor and a recovery task take  *)
(* only the operation lock, the apply task takes neither, and a request to *)
(* restore one attachment writes the phase without it.  A handler that     *)
(* nobody can observe half done is one action; a recovery, which waits for *)
(* a privileged job, and a verification, which reads sysfs in a worker     *)
(* thread, are two.  Tokens are compared only with the current one, so a   *)
(* captured token is the fact whether it is still current.                 *)
(***************************************************************************)
EXTENDS Naturals, FiniteSets

CONSTANTS Usb,        \* the attachment is a USB device: rules can be armed ahead of it
          MaxFaults   \* crashes, failing jobs, broken or released readers, suspends,
                      \* sessions that leave

ASSUME ReservationAssumption == Usb \in BOOLEAN /\ MaxFaults \in Nat

VARIABLES policy,       \* policy.json: none, or the persist flag
          marker,       \* the reason in the reservation's suspended file
          stopMarker,   \* the coordinator's own suspended file
          selection,    \* the automatic flag in selection.json
          journal,      \* the helper's undo journal exists
          armed,        \* udev rules are installed
          up,           \* the daemon
          owner,        \* the user's session, and whether the monitor runs for it
          phase, reason, automatic, failed, \* state
          activation, confirmation,                          \* the deadlines
          apply,        \* apply_task
          op,           \* who holds operation_lock, and for what
          recovery,     \* the reason of recovery_task
          seen,         \* what the update task makes of the status it was given
          acquisition,  \* the acquisition task, and whether its token is current
          ownToken, readers,                                 \* MaskRuntime
          present, rolesChanged,                             \* the hardware
          faults,
          stopped       \* the user has stopped masking and not asked for it since

saved == <<policy, marker, stopMarker, selection>>
backend == <<journal, armed>>
state == <<phase, reason, automatic, failed>>
deadlines == <<activation, confirmation>>
tasks == <<apply, op, recovery>>
runtime == <<seen, acquisition, ownToken, readers>>
world == <<present, rolesChanged>>
daemon == <<up, owner>>
vars == <<saved, backend, daemon, state, deadlines, tasks, runtime, world, faults, stopped>>

Active == {"applying", "acquiring", "trial", "masked"}
Recovering == {"restoring", "recovery_failed"}

\* The reasons after which recovery differs; "failure" stands for the rest of
\* AUTOMATIC_RECOVERY_REASONS, "hardware" for a lost or changed attachment.
Reasons == {"none", "user_restore", "lifecycle_stop", "trial_expired", "hardware", "failure"}

Nothing == [what |-> "nothing", current |-> FALSE]

Free == [by |-> "nobody", step |-> "none", keep |-> FALSE]

active == phase \in Active

TypeOK ==
    /\ policy \in {"none", "on", "off"} /\ marker \in Reasons /\ reason \in Reasons
    /\ stopMarker \in BOOLEAN /\ selection \in BOOLEAN /\ journal \in BOOLEAN /\ armed \in BOOLEAN
    /\ up \in {"down", "initializing", "up"} /\ owner \in {"none", "connected", "monitored"}
    /\ phase \in Active \cup Recovering \cup {"unmasked", "restored"}
    /\ automatic \in BOOLEAN /\ failed \in BOOLEAN
    /\ activation \in {"off", "running", "passed"} /\ confirmation \in {"off", "running", "passed"}
    /\ apply \in {"none", "waiting", "running"}
    /\ op \in [by : {"nobody", "request", "monitor", "recovery"},
               step : {"none", "recover", "verify"}, keep : BOOLEAN]
    /\ recovery \in Reasons
    /\ seen \in [what : {"nothing", "quiesce", "acquire", "check", "release", "retry"},
                 current : BOOLEAN]
    /\ acquisition \in {"none", "current", "stale"}
    /\ readers \in {"none", "ready", "broken"}
    /\ ownToken \in BOOLEAN /\ present \in BOOLEAN /\ rolesChanged \in BOOLEAN /\ stopped \in BOOLEAN
    /\ faults \in 0..MaxFaults

Fault == faults < MaxFaults /\ faults' = faults + 1

\* The operation lock is handed out in order: a waiting recovery task goes first.
MayLock == up = "up" /\ op = Free /\ recovery = "none"

\* Nothing restores, polls or verifies by itself unless the monitor task runs.
Monitored == owner = "monitored"

\* A request reaches the coordinator when no other request is under way.
MayRequest == up = "up" /\ op.by # "request"

expired ==
    IF confirmation = "off" THEN activation = "passed"
    ELSE \/ confirmation = "passed"
         \/ phase # "trial" /\ activation = "passed"

\* A new token: whatever was captured with the old one is stale from now on.
Stale(task) == IF task = "none" THEN "none" ELSE "stale"
NewToken ==
    /\ seen' = [seen EXCEPT !.current = FALSE] /\ acquisition' = Stale(acquisition)
    /\ ownToken' = FALSE /\ UNCHANGED readers

-----------------------------------------------------------------------------
(* Masking *)

\* _mask, and the automatic flag that its caller sets.
StartMask(auto) ==
    /\ phase' = "applying" /\ reason' = "none" /\ failed' = FALSE
    /\ automatic' = auto
    /\ activation' = "running" /\ confirmation' = "off" /\ apply' = "waiting"
    /\ marker' = "none" /\ NewToken

\* The command "mask" with a generation; confirmed: it asks for persistence
\* and the attachment's policy exists.
mask(confirmed) ==
    /\ MayLock /\ ~stopMarker /\ present /\ ~active /\ ~journal
    /\ confirmed => policy # "none"
    /\ policy' = IF confirmed THEN "on" ELSE policy
    /\ StartMask(confirmed)
    /\ stopped' = FALSE
    /\ UNCHANGED <<stopMarker, selection, backend, daemon, op, recovery, world, faults>>

\* MaskReservation.autostart once its conditions hold: mask what is connected,
\* arm the rules for what is not.
Converge ==
    \/ present /\ StartMask(TRUE) /\ UNCHANGED armed
    \/ /\ ~present /\ armed' = (Usb \/ armed) /\ marker' = "none"
       /\ UNCHANGED <<state, deadlines, apply, runtime>>

\* autostart at a startup or a poll.
autostart ==
    /\ owner # "none"
    /\ MayLock /\ ~stopMarker /\ ~active /\ ~journal /\ policy = "on"
    /\ marker \in {"none", "lifecycle_stop"}
    /\ Converge
    /\ UNCHANGED <<policy, stopMarker, selection, journal, daemon, op, recovery, world, faults, stopped>>

\* The command "mask" for a confirmed attachment without a generation: it may be unplugged.
maskSaved ==
    /\ MayLock /\ ~stopMarker /\ ~active /\ ~journal /\ policy # "none"
    /\ policy' = "on" /\ stopped' = FALSE
    /\ Converge
    /\ UNCHANGED <<stopMarker, selection, journal, daemon, op, recovery, world, faults>>

\* _apply after the quiesce handshake: the activation or refresh job ends well.
ApplyDone ==
    /\ up = "up" /\ apply = "running" /\ present
    /\ apply' = "none" /\ journal' = TRUE /\ armed' = TRUE
    /\ phase' = "acquiring" /\ rolesChanged' = FALSE
    /\ UNCHANGED <<saved, daemon, reason, automatic, failed, deadlines, op, recovery,
                   runtime, present, faults, stopped>>

\* It fails, which it may always do without the device: the monitor will restore.
ApplyFailed ==
    /\ up = "up" /\ apply = "running"
    /\ \/ Fault
       \/ ~present /\ UNCHANGED faults
    /\ apply' = "none" /\ failed' = TRUE /\ activation' = "passed"
    /\ journal' \in {journal, TRUE} /\ armed' \in {armed, TRUE}
    /\ UNCHANGED <<saved, daemon, phase, reason, automatic, confirmation, op, recovery,
                   runtime, world, stopped>>

\* The command "ready" of the readers, with a token that is current.
ready ==
    /\ phase' = IF automatic THEN "masked" ELSE "trial"
    /\ confirmation' = IF ~automatic /\ confirmation = "off" THEN "running" ELSE confirmation
    /\ selection' = IF automatic THEN TRUE ELSE selection

\* The command "keep" of a client that saw the current trial.
keep(persist) ==
    /\ MayLock /\ phase = "trial" /\ ~expired
    /\ policy' = IF persist THEN "on" ELSE "off"
    /\ phase' = "masked" /\ selection' = automatic
    /\ stopped' = FALSE
    /\ UNCHANGED <<marker, stopMarker, backend, daemon, reason, automatic, failed,
                   deadlines, tasks, runtime, world, faults>>

persistence(persist) ==
    /\ MayLock /\ policy # "none"
    /\ active => phase = "masked"
    /\ policy' = IF persist THEN "on" ELSE "off"
    /\ stopped' = (stopped /\ ~persist)
    /\ UNCHANGED <<marker, stopMarker, selection, backend, daemon, state, deadlines, tasks, runtime,
                   world, faults>>

refresh_interfaces_restarts_trial ==
    /\ activation' = "running"
    /\ automatic' = (automatic \/ phase = "masked")
    /\ confirmation' = "off"
    /\ phase' = "applying" /\ apply' = "waiting"
    /\ UNCHANGED <<reason, failed>>

\* refresh_interfaces: reacquire the readers under the rules that are in place.
refresh_interfaces ==
    /\ activation' = IF phase \in {"masked", "trial"} THEN "running" ELSE activation
    /\ automatic' = (automatic \/ phase = "masked")
    /\ confirmation' = IF automatic' THEN "off" ELSE confirmation
    /\ phase' = "applying" /\ apply' = "waiting"
    /\ UNCHANGED <<reason, failed>>

-----------------------------------------------------------------------------
(* Restoring *)

\* _restore_locked up to the recovery job, or to its end when there is nothing
\* to recover.
_restore(by, why) ==
    LET r == IF why = "lifecycle_stop" /\ phase = "recovery_failed" THEN reason ELSE why
        had_mask == active \/ journal \/ armed \/ phase \in Recovering
        clean == r = "lifecycle_stop"
        keep_rules == r = "hardware" /\ Usb /\ policy = "on"
        interrupted_trial == had_mask /\ phase # "masked" /\ ~automatic
    IN  /\ marker' = IF ~keep_rules /\ (~clean \/ interrupted_trial) THEN r ELSE marker
        /\ IF had_mask
           THEN /\ phase' = "restoring" /\ reason' = r /\ apply' = "none"
                \* cancelling the apply task waits for its job to end
                /\ journal' \in IF apply = "running" THEN {journal, TRUE} ELSE {journal}
                /\ armed' = (armed \/ journal')
                /\ op' = [by |-> by, step |-> "recover", keep |-> keep_rules]
                /\ UNCHANGED <<selection, recovery>>
           ELSE /\ phase' = IF clean THEN phase ELSE "restored"
                /\ reason' = IF clean THEN reason ELSE r
                /\ selection' = IF clean THEN selection ELSE automatic
                /\ op' = Free
                /\ recovery' = IF by = "recovery" THEN "none" ELSE recovery
                /\ UNCHANGED <<apply, backend>>
        /\ activation' = "off" /\ confirmation' = "off" /\ failed' = FALSE
        /\ UNCHANGED automatic

\* The recovery job succeeds: the mask is gone, except rules kept for a return.
RecoverDone ==
    /\ up = "up" /\ op.step = "recover"
    /\ journal' = FALSE /\ armed' = (armed /\ op.keep)
    /\ phase' = "restored" /\ selection' = automatic
    /\ op' = Free /\ recovery' = IF op.by = "recovery" THEN "none" ELSE recovery
    /\ UNCHANGED <<policy, marker, stopMarker, daemon, reason, automatic, failed,
                   deadlines, apply, runtime, world, faults, stopped>>

RecoverFailed_reported_as_restored ==
    /\ up = "up" /\ op.step = "recover" /\ Fault
    /\ phase' = "restored"
    /\ op' = Free /\ recovery' = IF op.by = "recovery" THEN "none" ELSE recovery
    /\ UNCHANGED <<saved, backend, daemon, reason, automatic, failed, deadlines, apply,
                   runtime, world, stopped>>

RecoverFailed ==
    /\ up = "up" /\ op.step = "recover" /\ Fault
    /\ phase' = "recovery_failed"
    /\ op' = Free /\ recovery' = IF op.by = "recovery" THEN "none" ELSE recovery
    /\ UNCHANGED <<saved, backend, daemon, reason, automatic, failed, deadlines, apply,
                   runtime, world, stopped>>

stop_keeps_policy ==
    /\ MayLock
    /\ phase' = "restoring" /\ reason' = "user_restore" /\ recovery' = "user_restore"
    /\ stopped' = TRUE
    /\ UNCHANGED <<saved, backend, daemon, automatic, failed,
                   deadlines, apply, op, runtime, world, faults>>

\* The command "restore" for this attachment with persist false: what the
\* window and the command line send when the user switches the mask off.
stop ==
    /\ MayLock
    /\ policy' = IF policy = "none" THEN "none" ELSE "off"
    /\ phase' = "restoring" /\ reason' = "user_restore" /\ recovery' = "user_restore"
    /\ stopped' = TRUE
    /\ UNCHANGED <<marker, stopMarker, selection, backend, daemon, automatic, failed,
                   deadlines, apply, op, runtime, world, faults>>

\* recovery_task gets the operation lock.
RecoveryTask ==
    /\ up = "up" /\ op = Free /\ recovery # "none"
    /\ _restore("recovery", recovery)
    /\ UNCHANGED <<policy, stopMarker, daemon, runtime, world, faults, stopped>>

\* The command "restore" without an attachment: an emergency stop, or the user
\* switching every mask off.
restore(persist) ==
    /\ MayLock
    /\ stopMarker' = (stopMarker \/ persist)
    /\ policy' = IF persist \/ policy = "none" THEN policy ELSE "off"
    /\ stopped' = TRUE
    /\ _restore("request", "user_restore")
    /\ UNCHANGED <<daemon, runtime, world, faults>>

\* The command "resume": for one attachment from its runtime, or the user's for all.
ResumeAll ==
    /\ MayLock /\ stopMarker /\ ~active /\ ~journal
    /\ stopMarker' = FALSE /\ marker' = "none" /\ stopped' = FALSE
    /\ UNCHANGED <<policy, selection, backend, daemon, state, deadlines, tasks, runtime, world, faults>>

-----------------------------------------------------------------------------
(* The session and the monitor *)

\* handle takes the uid of the session that asks.
handle == owner = "none" /\ owner' = "connected"
          /\ UNCHANGED <<saved, backend, up, state, deadlines, tasks, runtime, world, faults, stopped>>

\* The monitor starts after a request that was not refused, or when the machine wakes.
start_monitor ==
    /\ MayRequest /\ owner = "connected" /\ owner' = "monitored"
    /\ UNCHANGED <<saved, backend, up, state, deadlines, tasks, runtime, world, faults, stopped>>

\* suspend and close: the monitor has ended its step, the readers are released
\* (which may raise) and every mask is restored.  A close forgets the session, so
\* nobody is left to retry this recovery until the next one asks for something.
lifecycle_stop(left) ==
    /\ MayLock /\ Fault
    /\ owner' = left
    /\ \/ seen' = Nothing /\ acquisition' = "none" /\ readers' = "none" /\ UNCHANGED ownToken
       \/ UNCHANGED runtime
    /\ _restore("request", "lifecycle_stop")
    /\ UNCHANGED <<policy, stopMarker, up, world, stopped>>

suspend_masks == lifecycle_stop(IF owner = "none" THEN "none" ELSE "connected")

close ==
    /\ owner # "none"
    /\ \/ lifecycle_stop("none")
       \* before the first request there is nothing to restore
       \/ /\ up # "up" /\ Fault /\ owner' = "none"
          /\ UNCHANGED <<saved, backend, up, state, deadlines, tasks, runtime, world, stopped>>

MonitorRestore_never_retries ==
    /\ MayLock /\ Monitored
    /\ \/ active /\ failed /\ _restore("monitor", "failure")
       \/ active /\ ~failed /\ phase # "masked" /\ expired /\ _restore("monitor", "trial_expired")
    /\ UNCHANGED <<policy, stopMarker, daemon, runtime, world, faults, stopped>>

\* _monitor_once: retry a failed recovery, restore after an error or an expired deadline.
MonitorRestore ==
    /\ MayLock /\ Monitored
    /\ \/ phase = "recovery_failed" /\ _restore("monitor", reason)
       \/ active /\ failed /\ _restore("monitor", "failure")
       \/ active /\ ~failed /\ phase # "masked" /\ expired /\ _restore("monitor", "trial_expired")
    /\ UNCHANGED <<policy, stopMarker, daemon, runtime, world, faults, stopped>>

\* It looks the attachment up in sysfs ...
MonitorVerify ==
    /\ MayLock /\ Monitored /\ active /\ ~failed /\ phase # "applying"
    /\ phase = "masked" \/ ~expired
    /\ op' = [by |-> "monitor", step |-> "verify", keep |-> FALSE]
    /\ UNCHANGED <<saved, backend, daemon, state, deadlines, apply, recovery, runtime, world, faults,
                   stopped>>

\* ... and acts on what it found, whatever a request has done to the phase meanwhile.
MonitorVerified ==
    /\ up = "up" /\ op.step = "verify"
    /\ \/ /\ ~present \/ rolesChanged
          /\ _restore("monitor", "hardware")
          /\ UNCHANGED runtime
       \/ /\ present /\ rolesChanged /\ Usb
          /\ refresh_interfaces /\ NewToken /\ op' = Free
          /\ UNCHANGED <<marker, selection, backend, recovery>>
       \/ /\ present /\ ~rolesChanged
          /\ IF phase # "masked" /\ expired
             THEN _restore("monitor", "trial_expired")
             ELSE op' = Free /\ UNCHANGED <<marker, selection, backend, state, deadlines, apply, recovery>>
          /\ UNCHANGED runtime
    /\ UNCHANGED <<policy, stopMarker, daemon, world, faults, stopped>>

-----------------------------------------------------------------------------
(* The readers *)

retryable == reason \in {"hardware", "failure"} \/ (reason = "trial_expired" /\ automatic)

\* HardwareMasking.monitor_once hands the poll's status to an update task.
Poll ==
    /\ MayRequest /\ Monitored /\ seen = Nothing
    /\ \E what \in {"quiesce", "acquire", "check", "release", "retry"} :
          /\ CASE what = "quiesce" -> phase = "applying" /\ apply = "waiting"
               [] what = "acquire" -> phase = "acquiring" /\ ~ownToken
               [] what = "check" -> phase \in {"trial", "masked"}
               [] what = "release" -> phase \in Recovering \cup {"restored"} /\ readers # "none"
               [] what = "retry" -> /\ phase = "restored" /\ readers = "none"
                                    /\ marker # "none" /\ retryable
          /\ seen' = [what |-> what, current |-> TRUE]
    /\ UNCHANGED <<saved, backend, daemon, state, deadlines, tasks, acquisition, ownToken, readers, world,
                   faults, stopped>>

\* The command "quiesced": the apply task may go on, if this is still its token.
quiesced ==
    apply' = IF seen.current /\ phase = "applying" /\ apply = "waiting" /\ ~expired
             THEN "running" ELSE apply

quiesce_keeps_readers ==
    /\ MayLock /\ seen.what = "quiesce"
    /\ seen' = Nothing
    /\ quiesced
    /\ UNCHANGED <<saved, backend, daemon, state, deadlines, op, recovery, acquisition, ownToken, readers,
                   world, faults, stopped>>

\* quiesce: let go of the attachment's readers, then answer the handshake.
quiesce ==
    /\ MayLock /\ seen.what = "quiesce"
    /\ seen' = Nothing /\ acquisition' = "none" /\ readers' = "none"
    /\ quiesced
    /\ UNCHANGED <<saved, backend, daemon, state, deadlines, op, recovery, ownToken, world, faults, stopped>>

\* acquire registers the reservation and starts to grab its nodes.
acquire ==
    /\ up = "up" /\ seen.what = "acquire"
    /\ seen' = Nothing
    /\ ownToken' = seen.current
    /\ acquisition' = IF seen.current THEN "current" ELSE "stale"
    /\ readers' \in {"ready"} \cup (IF present THEN {} ELSE {"broken"})
    /\ UNCHANGED <<saved, backend, daemon, state, deadlines, tasks, world, faults, stopped>>

\* The restore request of a runtime whose readers stopped: a hotplug that only
\* changed the interfaces is answered by a refresh, anything else by a recovery task.
replacement_unavailable ==
    LET refreshable == Usb /\ phase \in {"trial", "masked", "acquiring"}
    IN  /\ refreshable => op = Free /\ recovery = "none"
        /\ \/ /\ refreshable /\ present
              /\ refresh_interfaces /\ ownToken' = FALSE /\ UNCHANGED recovery
           \/ /\ IF recovery = "none"
                 THEN phase' = "restoring" /\ reason' = "failure" /\ recovery' = "failure"
                 ELSE UNCHANGED <<phase, reason, recovery>>
              /\ UNCHANGED <<automatic, failed, deadlines, apply, ownToken>>

\* Its token is compared first.
RequestRestore(current) ==
    IF current THEN replacement_unavailable
    ELSE UNCHANGED <<state, deadlines, apply, recovery, ownToken>>

\* The end of an acquisition: the mask goes on to its trial, or access is restored.
AcquireDone ==
    LET accepted == acquisition = "current" /\ ~expired /\ phase = "acquiring"
    IN  /\ MayRequest /\ acquisition # "none"
        /\ acquisition' = "none"
        /\ \/ /\ MayLock /\ readers = "ready" /\ accepted
              /\ ready
              /\ UNCHANGED <<reason, automatic, failed, activation, apply, recovery, seen, ownToken, readers>>
           \/ /\ readers # "ready" \/ (MayLock /\ ~accepted)
              /\ readers' = "none" /\ UNCHANGED selection
              /\ RequestRestore(acquisition = "current")
              /\ seen' = [seen EXCEPT !.current = @ /\ phase' # "applying"]
        /\ UNCHANGED <<policy, marker, stopMarker, backend, daemon, op, world, faults, stopped>>

\* update on a trial or a mask: readers that are not ready give the device back.
CheckReaders ==
    /\ MayRequest /\ seen.what = "check"
    /\ seen' = Nothing
    /\ IF readers = "ready"
       THEN UNCHANGED <<state, deadlines, apply, recovery, acquisition, ownToken, readers>>
       ELSE readers' = "none" /\ acquisition' = "none" /\ RequestRestore(seen.current)
    /\ UNCHANGED <<saved, backend, daemon, op, world, faults, stopped>>

\* release_runtime cancels the update and the acquisition: after a restored
\* status, before a stop is requested, or when the monitor's round failed.
release_runtime ==
    /\ up = "up"
    /\ \/ seen.what = "release" /\ UNCHANGED faults
       \/ <<seen, acquisition, readers>> # <<Nothing, "none", "none">> /\ Fault
    /\ seen' = Nothing /\ acquisition' = "none" /\ readers' = "none"
    /\ UNCHANGED <<saved, backend, daemon, state, deadlines, tasks, ownToken, world, stopped>>

\* recover_automatically: the retry delay is over, clear the pause.
recover_automatically ==
    /\ MayLock /\ seen.what = "retry"
    /\ seen' = Nothing
    /\ marker' = IF ~active /\ ~journal THEN "none" ELSE marker
    /\ UNCHANGED <<policy, stopMarker, selection, backend, daemon, state, deadlines, tasks, acquisition,
                   ownToken, readers, world, faults, stopped>>

-----------------------------------------------------------------------------
(* Time, hardware and crashes *)

Frame == UNCHANGED <<saved, backend, daemon, state, tasks, stopped>>

ActivationPasses ==
    /\ activation = "running" /\ phase \in {"applying", "acquiring"}
    /\ activation' = "passed"
    /\ Frame /\ UNCHANGED <<confirmation, runtime, world, faults>>

ConfirmationPasses ==
    /\ confirmation = "running" /\ confirmation' = "passed"
    /\ Frame /\ UNCHANGED <<activation, runtime, world, faults>>

Hotplug ==
    /\ \/ present' = ~present /\ UNCHANGED rolesChanged
       \/ rolesChanged' = TRUE /\ UNCHANGED present
    /\ readers' = IF readers = "ready" /\ ~present' THEN "broken" ELSE readers
    /\ Frame
    /\ UNCHANGED <<deadlines, seen, acquisition, ownToken, faults>>

ReaderStops ==
    /\ readers = "ready" /\ readers' = "broken" /\ Fault
    /\ Frame
    /\ UNCHANGED <<deadlines, seen, acquisition, ownToken, world>>

Volatile ==
    /\ automatic' = selection /\ reason' = marker /\ failed' = FALSE
    /\ activation' = "off" /\ confirmation' = "off" /\ apply' = "none" /\ op' = Free
    /\ recovery' = "none" /\ seen' = Nothing /\ acquisition' = "none"
    /\ ownToken' = FALSE /\ readers' = "none"

Crash ==
    /\ up # "down" /\ Fault
    /\ up' = "down" /\ owner' = "none" /\ phase' = "unmasked" /\ Volatile
    \* a job that was under way ends on its own
    /\ journal' \in IF apply = "running" THEN {journal, TRUE} ELSE {journal}
    /\ armed' = (armed \/ journal')
    /\ UNCHANGED <<saved, world, stopped>>

\* The first request after a start initializes the coordinator: it notes why
\* masking stopped before it recovers what the journal names ...
initialize ==
    /\ up = "down" /\ owner # "none" /\ up' = "initializing"
    /\ marker' = IF marker = "none" /\ journal THEN "failure" ELSE marker
    /\ UNCHANGED <<owner, policy, stopMarker, selection, backend, state, deadlines, tasks, runtime, world,
                   faults, stopped>>

\* ... and a recovery that fails is left to the monitor.
Initialized ==
    /\ up = "initializing" /\ up' = "up"
    /\ \/ /\ journal' = FALSE /\ armed' = FALSE
          /\ phase' = "restored" /\ UNCHANGED faults
          /\ reason' = IF marker = "none" THEN reason ELSE marker
       \/ /\ journal \/ armed
          /\ Fault /\ phase' = "recovery_failed"
          /\ reason' = IF marker = "none" THEN "failure" ELSE marker
          /\ UNCHANGED backend
    /\ UNCHANGED <<saved, owner, automatic, failed, deadlines, tasks, runtime, world, stopped>>

-----------------------------------------------------------------------------
Init ==
    /\ policy = "none" /\ marker = "none" /\ stopMarker = FALSE /\ selection = FALSE
    /\ journal = FALSE /\ armed = FALSE /\ up = "up" /\ owner = "none"
    /\ phase = "unmasked" /\ reason = "none" /\ automatic = FALSE /\ failed = FALSE
    /\ activation = "off" /\ confirmation = "off"
    /\ apply = "none" /\ op = Free /\ recovery = "none"
    /\ seen = Nothing /\ acquisition = "none" /\ ownToken = FALSE /\ readers = "none"
    /\ present = TRUE /\ rolesChanged = FALSE /\ faults = 0 /\ stopped = FALSE

\* The commands of a session.
User ==
    /\ owner # "none"
    /\ \/ \E b \in BOOLEAN : mask(b) \/ keep(b) \/ persistence(b) \/ restore(b)
       \/ maskSaved \/ stop \/ ResumeAll

Session == handle \/ start_monitor \/ suspend_masks \/ close

Monitor == MonitorRestore \/ MonitorVerify \/ MonitorVerified \/ RecoveryTask

Jobs == ApplyDone \/ ApplyFailed \/ RecoverDone \/ RecoverFailed

Runtime ==
    Poll \/ quiesce \/ acquire \/ AcquireDone \/ CheckReaders \/ release_runtime \/ recover_automatically

Environment == ActivationPasses \/ ConfirmationPasses \/ Hotplug \/ ReaderStops \/ Crash

Next == User \/ Session \/ autostart \/ Monitor \/ Jobs \/ Runtime \/ Environment \/ initialize \/ Initialized

\* While the monitor runs its heartbeat goes on, jobs are bounded by
\* HARDWARE_JOB_TIMEOUT, deadlines pass, a request that is under way is served.
\* Nothing is assumed of the user, the session, the readers or the hardware.
Fairness ==
    /\ WF_vars(ApplyDone \/ ApplyFailed) /\ WF_vars(RecoverDone)
    /\ WF_vars(RecoveryTask) /\ WF_vars(MonitorVerified) /\ WF_vars(MonitorRestore)
    /\ SF_vars(ActivationPasses) /\ WF_vars(ConfirmationPasses)
    /\ WF_vars(initialize) /\ WF_vars(Initialized)

Spec == Init /\ [][Next]_vars /\ Fairness

-----------------------------------------------------------------------------
(* Properties *)

\* A device is never rebound under the daemon's own readers: the activation
\* and refresh jobs run only after quiesce has let go of them.
QuiescedBeforeRebind == apply = "running" => readers = "none"

\* Once the user has switched the mask off or stopped everything, nothing that
\* was under way (an activation, a refresh, an automatic retry, a restart of the
\* daemon) brings it back, and when recovery has succeeded no rule is left.
StopHolds ==
    stopped /\ up = "up" /\ op = Free /\ recovery = "none"
        => ~active /\ (phase = "restored" => ~armed)

\* An attachment that is reported as restored is restored, one that is in use
\* is recorded for recovery.
JournalMatchesPhase ==
    /\ up = "up" /\ op = Free /\ phase = "restored" => ~journal
    /\ up = "up" /\ phase \in {"acquiring", "trial", "masked"} => journal

\* While the monitor runs, an activation and its trial end in a mask or in the
\* device's return, however often the hardware changes in between: reacquiring
\* does not extend a deadline.
ActivationEnds ==
    phase \in {"applying", "acquiring", "trial"} ~> phase \in {"masked", "restored"} \/ ~Monitored

\* Nobody is there to retry: a recovery failed, or the daemon was started again,
\* and no session has asked for anything since.
Unattended == ~Monitored /\ (phase = "recovery_failed" \/ up = "down")

\* Whatever fails, a device that is neither in use nor free becomes one of them,
\* unless it is left to a daemon that nobody attends to.
RecoveryEnds == journal /\ ~active ~> ~journal \/ active \/ Unattended
=============================================================================
