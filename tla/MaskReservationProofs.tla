----------------------- MODULE MaskReservationProofs -----------------------
(***************************************************************************)
(* One attachment's mask, for any number of faults, over USB or not, and   *)
(* the emergency stops of the daemon (at the end, about MaskAdmission).    *)
(***************************************************************************)
EXTENDS MaskReservation, MaskAdmission, TLAPS

\* While the daemon is down, or starts, nothing of it runs.
DownInv ==
    up # "up" => /\ phase = "unmasked" /\ apply = "none" /\ op = Free /\ recovery = "none"
                 /\ seen = Nothing /\ readers = "none"

\* An apply task belongs to an activation, or to one that is being restored.
ApplyInv == apply # "none" => phase \in {"applying", "restoring"}

\* A recovery job runs alone.
RecoverInv ==
    /\ op.step = "recover" => phase = "restoring" /\ apply = "none"
    /\ recovery \in {"none", "user_restore", "failure"}

\* The helper's job runs without readers, and no update task is about to start any.
QuiesceInv == apply = "running" => readers = "none" /\ seen.what # "acquire"

JournalInv ==
    /\ up = "up" /\ phase = "restored" => ~journal
    /\ phase \in {"acquiring", "trial", "masked"} => journal

\* After a stop nothing is active that no recovery waits for, and rules are not kept.
StopInv ==
    stopped =>
        /\ policy # "on" \/ (stopMarker /\ marker # "hardware" /\ reason # "hardware")
        /\ op.step # "verify" /\ (op.step = "recover" => ~op.keep)
        /\ recovery = "none" => ~active /\ apply = "none"
        /\ phase = "restored" => ~armed

IInv == DownInv /\ ApplyInv /\ RecoverInv /\ QuiesceInv /\ JournalInv /\ StopInv

-----------------------------------------------------------------------------
\* What an update task has seen, as far as the proofs look.
SeenType == seen \in [what : {"nothing", "quiesce", "acquire", "check", "release", "retry"},
                      current : BOOLEAN]

\* The reservation starts unmasked, with nothing under way.
LEMMA InitHolds == Init => IInv
BY DEF Init, IInv, DownInv, ApplyInv, RecoverInv, QuiesceInv, JournalInv, StopInv, Active, active,
       Free, Nothing

\* A mask that is asked for starts from a free lock: no recovery is under way,
\* and it ends the stop.
LEMMA MaskKeeps == ASSUME IInv, SeenType, NEW b \in BOOLEAN, mask(b) PROVE IInv'
<1> USE DEF mask, StartMask, NewToken, MayLock, Active, active, IInv, SeenType, daemon
<1>1. DownInv'  BY DEF DownInv
<1>2. ApplyInv'  BY DEF ApplyInv
<1>3. RecoverInv'  BY DEF RecoverInv, Free
<1>4. QuiesceInv'  BY DEF QuiesceInv
<1>5. JournalInv'  BY DEF JournalInv
<1>6. StopInv'  BY DEF StopInv
<1>7. QED  BY <1>1, <1>2, <1>3, <1>4, <1>5, <1>6

\* A mask that starts by itself was neither stopped nor is it recorded: after
\* a stop the policy is off or the coordinator's marker is set.
LEMMA ConvergeKeeps == ASSUME IInv, SeenType, autostart \/ maskSaved PROVE IInv'
<1> USE DEF autostart, maskSaved, Converge, StartMask, NewToken, MayLock, Active, active, IInv,
      SeenType,
            state, deadlines, runtime, backend, world, daemon
<1>1. DownInv'  BY DEF DownInv
<1>2. ApplyInv'  BY DEF ApplyInv
<1>3. RecoverInv'  BY DEF RecoverInv, Free
<1>4. QuiesceInv'  BY DEF QuiesceInv
<1>5. JournalInv'  BY DEF JournalInv
<1>6. StopInv'  BY DEF StopInv
<1>7. QED  BY <1>1, <1>2, <1>3, <1>4, <1>5, <1>6

\* The other requests: keep and persistence leave the tasks alone, a stop leaves
\* what is active to the recovery task that it starts, resume ends the stop.
LEMMA RequestKeeps ==
    ASSUME IInv, NEW b \in BOOLEAN, keep(b) \/ persistence(b) \/ stop \/ ResumeAll PROVE IInv'
<1> USE DEF keep, persistence, stop, ResumeAll, MayLock, Active, active, IInv,
            state, deadlines, runtime, backend, world, tasks, saved, daemon
<1>1. DownInv'  BY DEF DownInv
<1>2. ApplyInv'  BY DEF ApplyInv
<1>3. RecoverInv'  BY DEF RecoverInv, Free
<1>4. QuiesceInv'  BY DEF QuiesceInv
<1>5. JournalInv'  BY DEF JournalInv
<1>6. StopInv'
  <2>1. CASE keep(b) \/ ResumeAll  BY <2>1 DEF StopInv
  <2>2. CASE persistence(b)  BY <2>2 DEF StopInv
  <2>3. CASE stop  BY <2>3 DEF StopInv, Free
  <2>4. QED  BY <2>1, <2>2, <2>3
<1>7. QED  BY <1>1, <1>2, <1>3, <1>4, <1>5, <1>6

\* A job of the helper that ends: an activation that was overtaken by a stop ends
\* in a phase that a recovery task still waits to leave.
LEMMA JobKeeps ==
    ASSUME IInv, ApplyDone \/ ApplyFailed \/ RecoverDone \/ RecoverFailed
    PROVE  IInv'
<1> USE DEF ApplyDone, ApplyFailed, RecoverDone, RecoverFailed, Fault, Active, active, IInv, state,
      deadlines, runtime, backend, world, tasks, saved, daemon
<1>1. DownInv'  BY DEF DownInv
<1>2. ApplyInv'  BY DEF ApplyInv, RecoverInv
<1>3. RecoverInv'
  <2>1. CASE ApplyDone \/ ApplyFailed  BY <2>1 DEF RecoverInv
  <2>2. CASE RecoverDone \/ RecoverFailed  BY <2>2 DEF RecoverInv, Free
  <2>3. QED  BY <2>1, <2>2
<1>4. QuiesceInv'  BY DEF QuiesceInv, Nothing
<1>5. JournalInv'  BY DEF JournalInv, ApplyInv, RecoverInv
<1>6. StopInv'
  <2>1. CASE ApplyDone  BY <2>1 DEF StopInv, ApplyInv, RecoverInv
  <2>2. CASE ApplyFailed  BY <2>2 DEF StopInv, ApplyInv, RecoverInv
  <2>3. CASE RecoverDone  BY <2>3 DEF StopInv, RecoverInv, Free
  <2>4. CASE RecoverFailed  BY <2>4 DEF StopInv, RecoverInv, Free
  <2>5. QED  BY <2>1, <2>2, <2>3, <2>4
<1>7. QED  BY <1>1, <1>2, <1>3, <1>4, <1>5, <1>6

\* _restore keeps the invariant whoever calls it, provided that after a stop it
\* does not keep rules for a device that comes back.
LEMMA RestoreKeeps ==
    ASSUME IInv, up = "up", up' = up,
           UNCHANGED runtime \/ (seen' = Nothing /\ readers' = "none"),
           NEW by, NEW why \in Reasons, _restore(by, why),
           stopped' => \/ why = "user_restore" /\ (policy' # "on" \/ stopMarker')
                       \/ /\ stopped /\ policy' = policy /\ (stopMarker => stopMarker')
                          /\ why = "hardware" => policy # "on"
    PROVE  IInv'
<1> USE DEF _restore, Active, Recovering, Reasons, active, IInv, runtime, backend, daemon
<1>1. DownInv'  BY DEF DownInv
<1>2. ApplyInv'  BY DEF ApplyInv
<1>3. RecoverInv'
  <2>1. (phase' = "restoring" /\ apply' = "none") \/ op' = Free  OBVIOUS
  <2>2. recovery' \in {"none", "user_restore", "failure"}  BY DEF RecoverInv
  <2>3. QED  BY ONLY <2>1, <2>2 DEF RecoverInv, Free
<1>4. QuiesceInv'
  <2>1. apply' \in {apply, "none"}  OBVIOUS
  <2>2. QED  BY <2>1 DEF QuiesceInv, Nothing
<1>5. JournalInv'  BY DEF JournalInv
<1>6. StopInv'
  <2> SUFFICES ASSUME stopped' PROVE StopInv'  BY DEF StopInv
  <2>1. policy' # "on" \/ (stopMarker' /\ marker' # "hardware" /\ reason' # "hardware")  BY DEF StopInv
  <2>2. op'.step # "verify" /\ (op'.step = "recover" => ~op'.keep)
    <3> DEFINE r == IF why = "lifecycle_stop" /\ phase = "recovery_failed" THEN reason ELSE why
               keep_rules == r = "hardware" /\ Usb /\ policy = "on"
    <3>1. keep_rules = FALSE  BY DEF StopInv
    <3>2. op' = Free \/ op' = [by |-> by, step |-> "recover", keep |-> keep_rules]  OBVIOUS
    <3> HIDE DEF keep_rules
    <3>3. op'.step = "none" \/ (op'.step = "recover" /\ op'.keep = FALSE)
      BY ONLY <3>1, <3>2 DEF Free
    <3>4. QED  BY <3>3
  <2>3. recovery' = "none" => ~active' /\ apply' = "none"  BY DEF ApplyInv, RecoverInv
  <2>4. phase' = "restored" => ~armed'  BY DEF StopInv
  <2>5. QED  BY <2>1, <2>2, <2>3, <2>4 DEF StopInv
<1>7. QED  BY <1>1, <1>2, <1>3, <1>4, <1>5, <1>6

\* The update tasks: only quiesce lets a job run, and it lets go of the readers.
LEMMA RuntimeKeeps ==
    ASSUME IInv, Poll \/ quiesce \/ acquire \/ release_runtime \/ recover_automatically
    PROVE  IInv'
<1> USE DEF Poll, quiesce, acquire, release_runtime, recover_automatically, MayLock, MayRequest,
      quiesced, Active, active, Recovering, IInv, Fault, state, deadlines, runtime, backend, world,
      tasks, saved, daemon
<1>1. DownInv'  BY DEF DownInv
<1>2. ApplyInv'  BY DEF ApplyInv
<1>3. RecoverInv'  BY DEF RecoverInv, Free
<1>4. QuiesceInv'  BY DEF QuiesceInv, ApplyInv, Nothing
<1>5. JournalInv'  BY DEF JournalInv
<1>6. StopInv'  BY DEF StopInv, Free
<1>7. QED  BY <1>1, <1>2, <1>3, <1>4, <1>5, <1>6

\* Time, hotplug and a reader that stops touch no phase.
LEMMA EnvironmentKeeps ==
    ASSUME IInv, ActivationPasses \/ ConfirmationPasses \/ Hotplug \/ ReaderStops \/ initialize
    PROVE  IInv'
<1> USE DEF ActivationPasses, ConfirmationPasses, Hotplug, ReaderStops, initialize, Frame, Fault,
      Active, active, IInv, state, deadlines, runtime, backend, world, tasks, saved, daemon
<1>1. DownInv'  BY DEF DownInv
<1>2. ApplyInv'  BY DEF ApplyInv
<1>3. RecoverInv'  BY DEF RecoverInv, Free
<1>4. QuiesceInv'  BY DEF QuiesceInv, ApplyInv, Nothing
<1>5. JournalInv'  BY DEF JournalInv
<1>6. StopInv'  BY DEF StopInv, Free
<1>7. QED  BY <1>1, <1>2, <1>3, <1>4, <1>5, <1>6

\* After a crash nothing of the daemon runs, and a restart reports the device
\* as restored only when the journal is gone.
LEMMA RestartKeeps ==
    ASSUME IInv, Crash \/ Initialized
    PROVE  IInv'
<1> USE DEF Crash, Initialized, Volatile, Fault, Active, active, IInv, state, deadlines, runtime,
      backend, world, tasks, saved, daemon
<1>1. DownInv'  BY DEF DownInv
<1>2. ApplyInv'  BY DEF ApplyInv, DownInv
<1>3. RecoverInv'
  <2>1. op' = Free /\ recovery' = "none"  BY DEF DownInv
  <2>2. QED  BY <2>1 DEF RecoverInv, Free
<1>4. QuiesceInv'  BY DEF QuiesceInv, ApplyInv, Nothing
<1>5. JournalInv'  BY DEF JournalInv
<1>6. StopInv'
  <2>1. op' = Free /\ apply' = "none" /\ ~active'  BY DEF DownInv
  <2>2. marker' = marker /\ reason' \in {reason, marker, "failure"}
    BY DEF DownInv
  <2>3. phase' = "restored" => ~armed'  BY DEF DownInv
  <2>4. QED  BY <2>1, <2>2, <2>3 DEF StopInv, Free
<1>7. QED  BY <1>1, <1>2, <1>3, <1>4, <1>5, <1>6

\* The monitor's restores and the recovery task run _restore with the lock.
LEMMA MonitorKeeps ==
    ASSUME IInv, TypeOK, MonitorRestore \/ MonitorVerify \/ RecoveryTask PROVE IInv'
<1>1. CASE MonitorRestore
  <2>1. /\ up = "up" /\ UNCHANGED <<policy, stopMarker, up, stopped>> /\ UNCHANGED runtime
        /\ op = Free /\ recovery = "none"
    BY <1>1 DEF MonitorRestore, MayLock, daemon
  <2>2. \/ phase = "recovery_failed" /\ _restore("monitor", reason)
        \/ active /\ (_restore("monitor", "failure") \/ _restore("monitor", "trial_expired"))
    BY <1>1 DEF MonitorRestore
  <2>3. reason \in Reasons /\ {"failure", "trial_expired"} \subseteq Reasons  BY DEF TypeOK, Reasons
  <2>4. CASE _restore("monitor", "failure") \/ _restore("monitor", "trial_expired")
    BY <2>1, <2>3, <2>4, RestoreKeeps
  <2>5. CASE _restore("monitor", reason)
    BY <2>1, <2>3, <2>5, RestoreKeeps DEF IInv, StopInv
  <2>6. QED  BY <2>2, <2>4, <2>5
<1>2. CASE RecoveryTask
  <2>1. recovery \in Reasons /\ recovery # "hardware"  BY DEF IInv, RecoverInv, Reasons
  <2>2. QED  BY <1>2, <2>1, RestoreKeeps DEF RecoveryTask, daemon
<1>3. CASE MonitorVerify
  <2> USE <1>3 DEF MonitorVerify, MayLock, IInv, daemon, state, deadlines, runtime, backend, world, saved
  <2>1. DownInv'  BY DEF DownInv
  <2>2. ApplyInv'  BY DEF ApplyInv
  <2>3. RecoverInv'  BY DEF RecoverInv
  <2>4. QuiesceInv'  BY DEF QuiesceInv
  <2>5. JournalInv'  BY DEF JournalInv
  <2>6. StopInv'  BY DEF StopInv, active
  <2>7. QED  BY <2>1, <2>2, <2>3, <2>4, <2>5, <2>6
<1>4. QED  BY <1>1, <1>2, <1>3

\* The restore of every attachment by the user.
LEMMA StopsKeep == ASSUME IInv, NEW persist \in BOOLEAN, restore(persist) PROVE IInv'
<1>1. "user_restore" \in Reasons  BY DEF Reasons
<1>2. /\ up = "up" /\ up' = up /\ UNCHANGED runtime /\ _restore("request", "user_restore")
  BY DEF restore, MayLock, daemon
<1>3. policy' # "on" \/ stopMarker'  BY DEF restore
<1>4. QED  BY <1>1, <1>2, <1>3, RestoreKeeps

\* A session that comes, goes or makes the monitor start, and a suspend: a restore
\* whose readers may be let go of first.
LEMMA SessionKeeps == ASSUME IInv, Session PROVE IInv'
<1>1. CASE \E left : lifecycle_stop(left)
  <2>1. "lifecycle_stop" \in Reasons  BY DEF Reasons
  <2>2. /\ up = "up" /\ up' = up /\ _restore("request", "lifecycle_stop")
        /\ UNCHANGED <<policy, stopMarker, stopped>>
        /\ UNCHANGED runtime \/ (seen' = Nothing /\ readers' = "none")
    BY <1>1 DEF lifecycle_stop, MayLock
  <2>3. QED  BY <2>1, <2>2, RestoreKeeps
<1>2. CASE UNCHANGED <<saved, backend, up, state, tasks, runtime, stopped>>
  <2> USE <1>2 DEF IInv, saved, backend, state, tasks, runtime
  <2>1. DownInv' /\ ApplyInv'  BY DEF DownInv, ApplyInv
  <2>2. RecoverInv' /\ QuiesceInv'  BY DEF RecoverInv, QuiesceInv
  <2>3. JournalInv' /\ StopInv'  BY DEF JournalInv, StopInv, active
  <2>4. QED  BY <2>1, <2>2, <2>3
<1>3. QED  BY <1>1, <1>2 DEF Session, handle, start_monitor, suspend_masks, close

\* A refresh of the interfaces starts outside a recovery job and never after a stop.
LEMMA RefreshKeeps ==
    ASSUME IInv, up = "up", ~stopped, op.step # "recover", refresh_interfaces,
           UNCHANGED <<up, stopped, recovery, journal>>, op' \in {op, Free}
    PROVE  IInv'
<1> USE DEF IInv, refresh_interfaces, Active, active, daemon
<1>1. DownInv'  BY DEF DownInv
<1>2. ApplyInv'  BY DEF ApplyInv
<1>3. RecoverInv'  BY DEF RecoverInv, Free
<1>4. QuiesceInv'  BY DEF QuiesceInv
<1>5. JournalInv'  BY DEF JournalInv
<1>6. StopInv'  BY DEF StopInv
<1>7. QED  BY <1>1, <1>2, <1>3, <1>4, <1>5, <1>6

\* What the monitor does after it has read sysfs: it was not stopped meanwhile,
\* because a stop waits for the lock.
LEMMA VerifiedKeeps == ASSUME IInv, MonitorVerified PROVE IInv'
<1>1. up = "up" /\ op.step = "verify" /\ ~stopped /\ UNCHANGED <<policy, stopMarker, up, stopped>>
  BY DEF MonitorVerified, IInv, StopInv, daemon
<1>2. {"hardware", "trial_expired"} \subseteq Reasons  BY DEF Reasons
<1>3. CASE _restore("monitor", "hardware") /\ UNCHANGED runtime  BY <1>1, <1>2, <1>3, RestoreKeeps
<1>4. CASE _restore("monitor", "trial_expired") /\ UNCHANGED runtime  BY <1>1, <1>2, <1>4, RestoreKeeps
<1>5. CASE refresh_interfaces /\ op' = Free /\ UNCHANGED <<backend, recovery>>
  BY <1>1, <1>5, RefreshKeeps DEF backend
<1>6. CASE op' = Free /\ UNCHANGED <<marker, selection, backend, state, deadlines, apply, recovery,
                                     runtime>>
  <2> USE <1>1, <1>6 DEF IInv, state, backend, runtime
  <2>1. DownInv'  BY DEF DownInv
  <2>2. ApplyInv'  BY DEF ApplyInv
  <2>3. RecoverInv'  BY DEF RecoverInv, Free
  <2>4. QuiesceInv'  BY DEF QuiesceInv
  <2>5. JournalInv'  BY DEF JournalInv
  <2>6. StopInv'  BY DEF StopInv
  <2>7. QED  BY <2>1, <2>2, <2>3, <2>4, <2>5, <2>6
<1>7. QED  BY <1>3, <1>4, <1>5, <1>6 DEF MonitorVerified

\* A runtime whose readers stopped refreshes the interfaces or starts a
\* recovery task, without the lock.
LEMMA AskedBackKeeps ==
    ASSUME IInv, NEW current \in BOOLEAN, RequestRestore(current), MayRequest,
           UNCHANGED <<policy, marker, stopMarker, backend, up, op, stopped>>,
           readers' = "none", seen'.what \in {seen.what, "nothing"}
    PROVE  IInv'
<1>1. CASE refresh_interfaces /\ op = Free /\ recovery = "none" /\ recovery' = recovery
           /\ phase \in {"trial", "masked", "acquiring"}
  <2>1. ~stopped /\ op.step # "recover" /\ up = "up"
    BY <1>1 DEF IInv, StopInv, active, Active, Free, MayRequest
  <2>2. QED  BY <1>1, <2>1, RefreshKeeps DEF backend
<1>2. CASE /\ recovery = "none" /\ phase' = "restoring" /\ reason' = "failure" /\ recovery' = "failure"
           /\ UNCHANGED <<automatic, failed, deadlines, apply, ownToken>>
  <2> USE <1>2 DEF IInv, backend, MayRequest, Active, active
  <2>1. DownInv'  BY DEF DownInv
  <2>2. ApplyInv'  BY DEF ApplyInv
  <2>3. RecoverInv'  BY DEF RecoverInv
  <2>4. QuiesceInv'  BY DEF QuiesceInv
  <2>5. JournalInv'  BY DEF JournalInv
  <2>6. StopInv'  BY DEF StopInv
  <2>7. QED  BY <2>1, <2>2, <2>3, <2>4, <2>5, <2>6
<1>3. CASE UNCHANGED <<state, deadlines, apply, recovery, ownToken>>
  <2> USE <1>3 DEF IInv, backend, MayRequest, Active, active, state
  <2>1. DownInv'  BY DEF DownInv
  <2>2. ApplyInv'  BY DEF ApplyInv
  <2>3. RecoverInv'  BY DEF RecoverInv
  <2>4. QuiesceInv'  BY DEF QuiesceInv
  <2>5. JournalInv'  BY DEF JournalInv
  <2>6. StopInv'  BY DEF StopInv
  <2>7. QED  BY <2>1, <2>2, <2>3, <2>4, <2>5, <2>6
<1>4. QED  BY <1>1, <1>2, <1>3 DEF RequestRestore, replacement_unavailable, state

\* The end of an acquisition, and a check of the readers.
LEMMA ReadersKeep == ASSUME IInv, SeenType, AcquireDone \/ CheckReaders PROVE IInv'
<1>1. CASE AcquireDone
  <2>1. CASE /\ MayLock /\ phase = "acquiring" /\ ready
             /\ UNCHANGED <<policy, marker, stopMarker, backend, up, op, stopped, reason, apply,
                            recovery, seen,
                            readers>>
    <3> USE <2>1 DEF IInv, backend, daemon, MayLock, Active, active, ready
    <3>1. DownInv'  BY DEF DownInv
    <3>2. ApplyInv'  BY DEF ApplyInv
    <3>3. RecoverInv'  BY DEF RecoverInv, Free
    <3>4. QuiesceInv'  BY DEF QuiesceInv
    <3>5. JournalInv'  BY DEF JournalInv
    <3>6. StopInv'  BY DEF StopInv
    <3>7. QED  BY <3>1, <3>2, <3>3, <3>4, <3>5, <3>6
  <2>2. CASE /\ readers' = "none" /\ RequestRestore(acquisition = "current")
             /\ seen' = [seen EXCEPT !.current = @ /\ phase' # "applying"]
    <3>1. seen'.what = seen.what  BY <2>2 DEF SeenType
    <3>2. QED  BY <1>1, <2>2, <3>1, AskedBackKeeps DEF AcquireDone, daemon
  <2>3. QED  BY <1>1, <2>1, <2>2 DEF AcquireDone, daemon
<1>2. CASE CheckReaders
  <2>1. CASE readers = "ready"
    <3> USE <1>2, <2>1 DEF CheckReaders, IInv, backend, daemon, MayRequest, Active, active, state, saved,
        Nothing
    <3>1. DownInv'  BY DEF DownInv
    <3>2. ApplyInv'  BY DEF ApplyInv
    <3>3. RecoverInv'  BY DEF RecoverInv
    <3>4. QuiesceInv'  BY DEF QuiesceInv
    <3>5. JournalInv'  BY DEF JournalInv
    <3>6. StopInv'  BY DEF StopInv
    <3>7. QED  BY <3>1, <3>2, <3>3, <3>4, <3>5, <3>6
  <2>2. CASE readers # "ready"
    <3>1. seen.current \in BOOLEAN  BY DEF SeenType
    <3>2. seen'.what = "nothing"  BY <1>2 DEF CheckReaders, Nothing
    <3>3. QED  BY <1>2, <2>2, <3>1, <3>2, AskedBackKeeps DEF CheckReaders, saved, daemon
  <2>3. QED  BY <2>1, <2>2
<1>3. QED  BY <1>1, <1>2

-----------------------------------------------------------------------------
Flags ==
    /\ stopMarker \in BOOLEAN /\ selection \in BOOLEAN /\ journal \in BOOLEAN /\ armed \in BOOLEAN
    /\ automatic \in BOOLEAN /\ failed \in BOOLEAN
    /\ ownToken \in BOOLEAN /\ present \in BOOLEAN /\ rolesChanged \in BOOLEAN /\ stopped \in BOOLEAN

Names ==
    /\ policy \in {"none", "on", "off"} /\ marker \in Reasons /\ reason \in Reasons
    /\ up \in {"down", "initializing", "up"} /\ owner \in {"none", "connected", "monitored"}
    /\ phase \in Active \cup Recovering \cup {"unmasked", "restored"}
    /\ activation \in {"off", "running", "passed"} /\ confirmation \in {"off", "running", "passed"}
    /\ apply \in {"none", "waiting", "running"}
    /\ recovery \in Reasons
    /\ acquisition \in {"none", "current", "stale"}
    /\ readers \in {"none", "ready", "broken"}

OpType == op \in [by : {"nobody", "request", "monitor", "recovery"},
                  step : {"none", "recover", "verify"}, keep : BOOLEAN]

\* Faults are counted up to MaxFaults.
LEMMA FaultsKeep == ASSUME faults \in 0..MaxFaults, [Next]_vars PROVE faults' \in 0..MaxFaults
<1>1. faults' = faults \/ (faults < MaxFaults /\ faults' = faults + 1)
  BY DEF Next, User, Session, handle, start_monitor, suspend_masks, close, lifecycle_stop,
         Monitor, Jobs, Runtime, Environment, mask, keep, persistence, restore, maskSaved,
      stop,
         ResumeAll, MonitorRestore, MonitorVerify, MonitorVerified, RecoveryTask, ApplyDone, ApplyFailed,
         RecoverDone, RecoverFailed, Poll, quiesce, acquire, AcquireDone, CheckReaders, release_runtime,
         recover_automatically, ActivationPasses, ConfirmationPasses, Hotplug, ReaderStops, Crash,
         autostart, initialize, Initialized, Fault, vars
<1>2. QED  BY <1>1, ReservationAssumption

\* The flags stay flags.
LEMMA FlagsKeep == ASSUME Flags, SeenType, [Next]_vars PROVE Flags'
<1> USE DEF Flags, saved, backend, state, deadlines, tasks, runtime, world, daemon
<1>1. CASE \E b \in BOOLEAN : mask(b)  BY <1>1 DEF mask, StartMask, NewToken
<1>2. CASE \E b \in BOOLEAN : keep(b) \/ persistence(b)  BY <1>2 DEF keep, persistence
<1>3. CASE \E b \in BOOLEAN : restore(b)
  <2>1. PICK b \in BOOLEAN : restore(b)  BY <1>3
  <2>2. UNCHANGED <<automatic, ownToken, present,
                    rolesChanged>> /\ failed' = FALSE  BY <2>1 DEF restore, _restore
  <2>3. selection' \in BOOLEAN /\ journal' \in BOOLEAN /\ armed' \in BOOLEAN  BY <2>1 DEF restore,
      _restore
  <2>4. stopMarker' \in BOOLEAN /\ stopped' \in BOOLEAN  BY <2>1 DEF restore
  <2>5. QED  BY <2>2, <2>3, <2>4
<1>4. CASE autostart \/ maskSaved
  BY <1>4, ReservationAssumption DEF autostart, maskSaved, Converge, StartMask, NewToken
<1>5. CASE stop \/ ResumeAll  BY <1>5 DEF stop, ResumeAll
<1>6. CASE MonitorRestore  BY <1>6 DEF MonitorRestore, _restore
<1>7. CASE RecoveryTask  BY <1>7 DEF RecoveryTask, _restore
<1>8. CASE MonitorVerify  BY <1>8 DEF MonitorVerify
<1>9. CASE MonitorVerified
  BY <1>9, ZenonT(60) DEF MonitorVerified, _restore, refresh_interfaces, NewToken
<1>10. CASE ApplyDone \/ ApplyFailed  BY <1>10, ZenonT(60) DEF ApplyDone, ApplyFailed
<1>11. CASE RecoverDone \/ RecoverFailed  BY <1>11, ZenonT(60) DEF RecoverDone, RecoverFailed
<1>12. CASE Poll \/ quiesce \/ release_runtime \/ recover_automatically
  BY <1>12 DEF Poll, quiesce, release_runtime, recover_automatically
<1>13. CASE acquire  BY <1>13 DEF acquire, SeenType
<1>14. CASE AcquireDone
  BY <1>14, ZenonT(60) DEF AcquireDone, ready, RequestRestore, replacement_unavailable, refresh_interfaces
<1>15. CASE CheckReaders
  BY <1>15, ZenonT(60) DEF CheckReaders, RequestRestore, replacement_unavailable, refresh_interfaces
<1>16. CASE ActivationPasses \/ ConfirmationPasses \/ ReaderStops \/ initialize \/ UNCHANGED vars
  BY <1>16 DEF ActivationPasses, ConfirmationPasses, ReaderStops, initialize, Frame, vars
<1>17. CASE Crash \/ Initialized  BY <1>17 DEF Crash, Initialized, Volatile
<1>18. CASE Hotplug  BY <1>18 DEF Hotplug, Frame
<1>19. CASE \E left : lifecycle_stop(left)
  <2>1. UNCHANGED <<stopMarker, automatic, ownToken, present, rolesChanged, stopped>> /\ failed' = FALSE
    BY <1>19 DEF lifecycle_stop, _restore
  <2>2. selection' \in BOOLEAN /\ journal' \in BOOLEAN /\ armed' \in BOOLEAN
    BY <1>19 DEF lifecycle_stop, _restore
  <2>3. QED  BY <2>1, <2>2
<1>20. CASE Session /\ ~\E left : lifecycle_stop(left)
  BY <1>20 DEF Session, handle, start_monitor, suspend_masks, close
<1>21. QED
  BY <1>1, <1>2, <1>3, <1>4, <1>5, <1>6, <1>7, <1>8, <1>9, <1>10, <1>11, <1>12, <1>13, <1>14, <1>15,
      <1>16, <1>17,
     <1>18, <1>19, <1>20
  DEF Next, User, Monitor, Jobs, Runtime, Environment, Reasons

\* Phases, reasons and task states stay in their sets.
LEMMA NamesKeep == ASSUME Names, SeenType, OpType, [Next]_vars PROVE Names'
<1> USE DEF Names, saved, backend, state, deadlines, tasks, runtime, world, Active, Recovering, Reasons, daemon
<1>1. CASE \E b \in BOOLEAN : mask(b)  BY <1>1 DEF mask, StartMask, NewToken, Stale
<1>2. CASE \E b \in BOOLEAN : keep(b) \/ persistence(b)  BY <1>2 DEF keep, persistence
<1>3. CASE \E b \in BOOLEAN : restore(b)
  <2>1. PICK b \in BOOLEAN : restore(b)  BY <1>3
  <2>2. policy' \in {"none", "on", "off"} /\ UNCHANGED <<up, owner, acquisition, readers>>  BY <2>1 DEF restore
  <2>3. marker' \in Reasons /\ reason' \in Reasons /\ recovery' \in Reasons  BY <2>1 DEF restore,
      _restore
  <2>4. phase' \in {"restoring", "restored", phase} /\ apply' \in {"none", apply}
    BY <2>1 DEF restore, _restore
  <2>5. activation' = "off" /\ confirmation' = "off"  BY <2>1 DEF restore, _restore
  <2>6. QED  BY <2>2, <2>3, <2>4, <2>5
<1>4. CASE autostart \/ maskSaved
  BY <1>4 DEF autostart, maskSaved, Converge, StartMask, NewToken, Stale
<1>5. CASE stop \/ ResumeAll  BY <1>5 DEF stop, ResumeAll
<1>6. CASE MonitorRestore  BY <1>6 DEF MonitorRestore, _restore
<1>7. CASE RecoveryTask  BY <1>7 DEF RecoveryTask, _restore
<1>8. CASE MonitorVerify  BY <1>8 DEF MonitorVerify
<1>9. CASE MonitorVerified  BY <1>9, ZenonT(60) DEF MonitorVerified, _restore, refresh_interfaces, NewToken, Stale
<1>10. CASE ApplyDone \/ ApplyFailed  BY <1>10, ZenonT(60) DEF ApplyDone, ApplyFailed
<1>11. CASE RecoverDone \/ RecoverFailed  BY <1>11, ZenonT(60) DEF RecoverDone, RecoverFailed
<1>12. CASE Poll \/ quiesce \/ release_runtime \/ recover_automatically
  BY <1>12 DEF Poll, quiesce, release_runtime, recover_automatically, quiesced
<1>13. CASE acquire  BY <1>13 DEF acquire, SeenType
<1>14. CASE AcquireDone
  BY <1>14, ZenonT(60) DEF AcquireDone, ready, RequestRestore, replacement_unavailable, refresh_interfaces
<1>15. CASE CheckReaders
  BY <1>15, ZenonT(60) DEF CheckReaders, RequestRestore, replacement_unavailable, refresh_interfaces
<1>16. CASE ActivationPasses \/ ConfirmationPasses \/ Hotplug \/ ReaderStops \/ initialize \/ UNCHANGED vars
  BY <1>16 DEF ActivationPasses, ConfirmationPasses, Hotplug, ReaderStops, initialize, Frame, vars
<1>17. CASE Crash \/ Initialized  BY <1>17 DEF Crash, Initialized, Volatile
<1>18. CASE \E left \in {"none", "connected"} : lifecycle_stop(left)
  <2>1. PICK left \in {"none", "connected"} : lifecycle_stop(left)  BY <1>18
  <2>2. UNCHANGED <<policy, up>> /\ owner' = left  BY <2>1 DEF lifecycle_stop
  <2>3. acquisition' \in {"none", acquisition} /\ readers' \in {"none", readers}
    BY <2>1 DEF lifecycle_stop
  <2>4. marker' \in Reasons /\ reason' \in Reasons /\ recovery' \in Reasons
    BY <2>1 DEF lifecycle_stop, _restore
  <2>5. phase' \in {"restoring", "restored", phase} /\ apply' \in {"none", apply}
    BY <2>1 DEF lifecycle_stop, _restore
  <2>6. activation' = "off" /\ confirmation' = "off"  BY <2>1 DEF lifecycle_stop, _restore
  <2>7. QED  BY <2>2, <2>3, <2>4, <2>5, <2>6
<1>19. CASE handle \/ start_monitor \/ (close /\ ~lifecycle_stop("none"))
  BY <1>19 DEF handle, start_monitor, close
<1>20. Session => \/ \E left \in {"none", "connected"} : lifecycle_stop(left)
                  \/ handle \/ start_monitor \/ (close /\ ~lifecycle_stop("none"))
  BY DEF Session, suspend_masks, close
<1>21. QED
  BY <1>18, <1>19, <1>20, <1>1, <1>2, <1>3, <1>4, <1>5, <1>6, <1>7, <1>8, <1>9, <1>10, <1>11, <1>12, <1>13, <1>14, <1>15,
      <1>16, <1>17
  DEF Next, User, Monitor, Jobs, Runtime, Environment, Reasons


\* An update task keeps its kind.
LEMMA SeenKeeps == ASSUME SeenType, [Next]_vars PROVE SeenType'
<1> USE DEF SeenType, runtime, daemon
<1>0. Nothing \in [what : {"nothing", "quiesce", "acquire", "check", "release", "retry"}, current : BOOLEAN]
  BY DEF Nothing
<1>1. CASE \E b \in BOOLEAN : mask(b)  BY <1>1 DEF mask, StartMask, NewToken
<1>2. CASE User /\ ~\E b \in BOOLEAN : mask(b)
  BY <1>2 DEF User, keep, persistence, restore, stop, ResumeAll, maskSaved, Converge, StartMask,
      NewToken
<1>3. CASE autostart  BY <1>3 DEF autostart, Converge, StartMask, NewToken
<1>s. CASE Session
  BY <1>0, <1>s DEF Session, handle, start_monitor, suspend_masks, close, lifecycle_stop
<1>4. CASE Monitor
  BY <1>4 DEF Monitor, MonitorRestore, RecoveryTask, MonitorVerify, MonitorVerified, NewToken
<1>5. CASE Jobs  BY <1>5 DEF Jobs, ApplyDone, ApplyFailed, RecoverDone, RecoverFailed
<1>6. CASE Poll  BY <1>6 DEF Poll
<1>7. CASE AcquireDone  BY <1>7 DEF AcquireDone
<1>8. CASE quiesce \/ acquire \/ CheckReaders \/ release_runtime \/ recover_automatically
  BY <1>0, <1>8 DEF quiesce, acquire, CheckReaders, release_runtime, recover_automatically
<1>9. CASE Environment
  BY <1>0, <1>9 DEF Environment, ActivationPasses, ConfirmationPasses, Hotplug, ReaderStops, Crash,
      Volatile, Frame
<1>10. CASE initialize \/ Initialized \/ UNCHANGED vars  BY <1>10 DEF initialize, Initialized, vars
<1>11. QED  BY <1>1, <1>2, <1>3, <1>s, <1>4, <1>5, <1>6, <1>7, <1>8, <1>9, <1>10 DEF Next, Runtime

\* The operation lock names its holder and what for.
LEMMA OpKeeps == ASSUME OpType, Usb \in BOOLEAN, [Next]_vars PROVE OpType'
<1>0. Free \in [by : {"nobody", "request", "monitor", "recovery"},
               step : {"none", "recover", "verify"}, keep : BOOLEAN]
  BY DEF Free
<1>a. ASSUME NEW by \in {"request", "monitor", "recovery"}, NEW why, _restore(by, why) PROVE OpType'
  <2> DEFINE k == (IF why = "lifecycle_stop" /\ phase = "recovery_failed" THEN reason ELSE why) = "hardware"
                  /\ Usb /\ policy = "on"
  <2>1. op' = Free \/ op' = [by |-> by, step |-> "recover", keep |-> k]  BY <1>a DEF _restore
  <2>2. k \in BOOLEAN  OBVIOUS
  <2> HIDE DEF k
  <2>3. QED  BY ONLY <1>0, <2>1, <2>2, <1>a DEF OpType
<1>1. CASE User \/ autostart
  BY <1>1, <1>a DEF User, mask, keep, persistence, restore, stop, ResumeAll, maskSaved, autostart,
      tasks, OpType
<1>s. CASE Session
  BY <1>0, <1>s, <1>a DEF Session, handle, start_monitor, suspend_masks, close, lifecycle_stop, tasks,
      OpType
<1>2. CASE MonitorVerify  BY <1>2 DEF MonitorVerify, OpType
<1>3. CASE MonitorRestore \/ RecoveryTask \/ MonitorVerified
  BY <1>0, <1>3, <1>a DEF MonitorRestore, RecoveryTask, MonitorVerified, OpType
<1>4. CASE Jobs  BY <1>0, <1>4 DEF Jobs, ApplyDone, ApplyFailed, RecoverDone, RecoverFailed, OpType
<1>5. CASE Runtime
  BY <1>5 DEF Runtime, Poll, quiesce, acquire, AcquireDone, CheckReaders, release_runtime,
      recover_automatically,
              tasks, OpType
<1>6. CASE Environment
  BY <1>0, <1>6 DEF Environment, ActivationPasses, ConfirmationPasses, Hotplug, ReaderStops, Crash,
      Volatile,
                    Frame, tasks, OpType
<1>7. CASE initialize \/ Initialized \/ UNCHANGED vars  BY <1>7 DEF initialize, Initialized, vars,
      tasks, OpType
<1>8. QED  BY <1>1, <1>s, <1>2, <1>3, <1>4, <1>5, <1>6, <1>7 DEF Next, Monitor

\* The initial state is well typed.
LEMMA InitTyped == Init => TypeOK
<1> SUFFICES ASSUME Init PROVE TypeOK  OBVIOUS
<1>1. Flags  BY DEF Init, Flags
<1>2. Names  BY DEF Init, Names, Reasons
<1>3. OpType /\ SeenType  BY DEF Init, OpType, SeenType, Free, Nothing
<1>4. faults \in 0..MaxFaults  BY ReservationAssumption DEF Init
<1>5. QED  BY <1>1, <1>2, <1>3, <1>4 DEF TypeOK, Flags, Names, OpType, SeenType

\* Every step keeps the types.
LEMMA TypesKeep == ASSUME TypeOK, [Next]_vars PROVE TypeOK'
<1>1. Flags /\ Names /\ OpType /\ SeenType /\ faults \in 0..MaxFaults
  BY DEF TypeOK, Flags, Names, OpType, SeenType
<1>2. Flags' /\ Names' /\ OpType' /\ SeenType' /\ faults' \in 0..MaxFaults
  BY <1>1, FlagsKeep, NamesKeep, OpKeeps, SeenKeeps, FaultsKeep, ReservationAssumption
<1>3. QED  BY <1>2 DEF TypeOK, Flags, Names, OpType, SeenType

\* Every step keeps the invariant.
LEMMA StepKeeps == ASSUME TypeOK, IInv, [Next]_vars PROVE IInv'
<1>1. SeenType  BY DEF TypeOK, SeenType
<1>2. CASE User
  BY <1>1, <1>2, MaskKeeps, RequestKeeps, StopsKeep, ConvergeKeeps DEF User
<1>s. CASE Session  BY <1>s, SessionKeeps
<1>3. CASE autostart  BY <1>1, <1>3, ConvergeKeeps
<1>4. CASE Monitor  BY <1>4, MonitorKeeps, VerifiedKeeps DEF Monitor
<1>5. CASE Jobs  BY <1>5, JobKeeps DEF Jobs
<1>6. CASE Runtime  BY <1>1, <1>6, RuntimeKeeps, ReadersKeep DEF Runtime
<1>7. CASE Environment \/ initialize \/ Initialized
  BY <1>7, EnvironmentKeeps, RestartKeeps DEF Environment
<1>8. CASE UNCHANGED vars
  <2> USE <1>8 DEF IInv, vars, daemon, saved, backend, state, deadlines, tasks, runtime, world
  <2>1. DownInv' /\ ApplyInv'  BY DEF DownInv, ApplyInv
  <2>2. RecoverInv' /\ QuiesceInv'  BY DEF RecoverInv, QuiesceInv
  <2>3. JournalInv' /\ StopInv'  BY DEF JournalInv, StopInv, active
  <2>4. QED  BY <2>1, <2>2, <2>3
<1>9. QED  BY <1>2, <1>s, <1>3, <1>4, <1>5, <1>6, <1>7, <1>8 DEF Next

\* The inductive invariant holds in every reachable state.
LEMMA ReservationInvariant == Spec => [](TypeOK /\ IInv)
<1>1. Init => TypeOK /\ IInv  BY InitTyped, InitHolds
<1>2. TypeOK /\ IInv /\ [Next]_vars => (TypeOK /\ IInv)'  BY TypesKeep, StepKeeps
<1>3. QED  BY <1>1, <1>2, PTL DEF Spec

\* A device is never rebound under the daemon's own readers (QuiescedBeforeRebind).
THEOREM RebindsQuiesced == Spec => [](TypeOK /\ QuiescedBeforeRebind)
<1>1. IInv => QuiescedBeforeRebind  BY DEF IInv, QuiesceInv, QuiescedBeforeRebind
<1>2. QED  BY <1>1, ReservationInvariant, PTL

\* What is reported as restored is restored, what is in use is recorded.
THEOREM PhaseIsJournaled == Spec => []JournalMatchesPhase
<1>1. IInv => JournalMatchesPhase  BY DEF IInv, JournalInv, JournalMatchesPhase
<1>2. QED  BY <1>1, ReservationInvariant, PTL

\* Once the user has stopped masking, nothing brings a mask back.
THEOREM StopIsFinal == Spec => []StopHolds
<1>1. IInv => StopHolds  BY DEF IInv, StopInv, StopHolds
<1>2. QED  BY <1>1, ReservationInvariant, PTL
-----------------------------------------------------------------------------
(***************************************************************************)
(* The emergency stops of the daemon around the attachments                *)
(* (MaskAdmission): a stop holds, for any number of stops and any answers  *)
(* under way, provided that nobody asks for a device while a stop is still *)
(* neutralizing.                                                           *)
(***************************************************************************)

\* A stop that runs is latched, and its generation is odd.
LatchInv == stopping # "idle" => latched /\ generation % 2 = 1

\* Generations are counted two by two, so that a stop that starts can end.
GenerationInv == stopping = "idle" => generation % 2 = 0

\* A request that may reopen admission is no younger than the last stop, and
\* older than one that runs.
Outdated(request) ==
    request.at # "idle" /\ request.of # "poll"
        => request.generation <= generation /\ (stopping # "idle" => request.generation < generation)

\* An answer that would clear the latch comes from a request that lifted the stop.
Lifted(request) ==
    request.at = "answered" /\ request.of # "poll" /\ ~request.paused
            /\ request.generation = generation
        => ~inForce

RequestInv ==
    /\ monitor.at # "idle" => monitor.of \in {"startup", "poll"}
    /\ client.of # "poll"
    /\ Outdated(monitor) /\ Outdated(client)
    /\ Lifted(monitor) /\ Lifted(client)

\* A stop in force keeps admission closed, and no grab is under way.
ClosedInv == inForce => ~grabbed /\ ~grab /\ (latched \/ observed)

AdmissionInv == AdmissionTypeOK /\ LatchInv /\ GenerationInv /\ RequestInv /\ ClosedInv

Switches ==
    /\ suspended \in BOOLEAN /\ latched \in BOOLEAN /\ observed \in BOOLEAN
    /\ needsStartup \in BOOLEAN /\ watching \in BOOLEAN
    /\ grab \in BOOLEAN /\ grabbed \in BOOLEAN /\ inForce \in BOOLEAN

Counts ==
    /\ generation \in 0..(2 * MaxStops)
    /\ monitor \in Requests /\ client \in Requests
    /\ stopping \in {"idle", "latched", "released", "recorded"}

-----------------------------------------------------------------------------
\* The daemon starts with admission open and no stop in force.
LEMMA InitClosed == AdmissionInit => AdmissionInv
<1> SUFFICES ASSUME AdmissionInit PROVE AdmissionInv  OBVIOUS
<1>1. Switches  BY DEF AdmissionInit, Switches
<1>2. Counts  BY AdmissionAssumption DEF AdmissionInit, Counts, Idle, Requests
<1>3. LatchInv /\ GenerationInv /\ ClosedInv  BY DEF AdmissionInit, LatchInv, GenerationInv, ClosedInv
<1>4. RequestInv  BY DEF AdmissionInit, RequestInv, Idle, Outdated, Lifted
<1>5. QED  BY <1>1, <1>2, <1>3, <1>4 DEF AdmissionInv, AdmissionTypeOK, Switches, Counts

\* The switches stay Booleans.
LEMMA SwitchesKeep ==
    ASSUME Switches, monitor \in Requests, client \in Requests, [AdmissionNext]_admissionVars
    PROVE Switches'
<1> USE DEF Switches
<1>1. CASE MonitorExecute  BY <1>1 DEF MonitorExecute, Asked
<1>2. CASE MonitorApply  BY <1>2 DEF MonitorApply, _apply_status, Requests
<1>3. CASE ClientExecute  BY <1>3 DEF ClientExecute, Asked
<1>4. CASE ClientApply  BY <1>4 DEF ClientApply, _apply_status, Requests
<1>5. CASE StopRecord  BY <1>5 DEF StopRecord
<1>6. CASE GrabStart \/ GrabDone  BY <1>6 DEF GrabStart, GrabDone
<1>7. CASE StopLatch \/ StopRelease \/ StopEnd  BY <1>7 DEF StopLatch, StopRelease, StopEnd
<1>8. CASE suspend \/ resume  BY <1>8 DEF suspend, resume
<1>9. CASE MonitorIssue \/ MonitorFails \/ ClientIssue \/ ClientRefused \/ UNCHANGED admissionVars
  BY <1>9 DEF MonitorIssue, MonitorFails, ClientIssue, ClientRefused, admissionVars
<1>10. QED
  BY <1>1, <1>2, <1>3, <1>4, <1>5, <1>6, <1>7, <1>8, <1>9
  DEF AdmissionNext, MonitorTask, Client, Stop, Grab

\* A request that is issued or dropped is a request.
LEMMA NewRequests ==
    /\ Idle \in Requests
    /\ generation \in 0..(2 * MaxStops)
         => \A of \in {"startup", "poll", "mask", "resume"} : Issue(of) \in Requests
BY AdmissionAssumption DEF Idle, Issue, Requests

\* Generations stay within two per stop, requests stay requests.
LEMMA CountsKeep == ASSUME AdmissionInv, [AdmissionNext]_admissionVars PROVE Counts'
<1> USE AdmissionAssumption, NewRequests DEF AdmissionInv, AdmissionTypeOK, Counts
<1>1. CASE MonitorIssue \/ ClientIssue  BY <1>1 DEF MonitorIssue, ClientIssue
<1>2. CASE MonitorExecute  BY <1>2 DEF MonitorExecute, Requests
<1>3. CASE ClientExecute  BY <1>3 DEF ClientExecute, Requests
<1>4. CASE MonitorApply \/ MonitorFails \/ ClientApply \/ ClientRefused
  BY <1>4 DEF MonitorApply, MonitorFails, ClientApply, ClientRefused
<1>5. CASE StopLatch  BY <1>5 DEF StopLatch
<1>6. CASE StopEnd  BY <1>6 DEF StopEnd, LatchInv
<1>7. CASE StopRelease \/ StopRecord  BY <1>7 DEF StopRelease, StopRecord
<1>8. CASE suspend \/ resume \/ GrabStart \/ GrabDone \/ UNCHANGED admissionVars
  BY <1>8 DEF suspend, resume, GrabStart, GrabDone, admissionVars
<1>9. QED
  BY <1>1, <1>2, <1>3, <1>4, <1>5, <1>6, <1>7, <1>8
  DEF AdmissionNext, MonitorTask, Client, Stop, Grab

\* The generation grows by one when a stop begins and by one when it ends.
LEMMA StopKeeps == ASSUME AdmissionInv, [AdmissionNext]_admissionVars PROVE LatchInv' /\ GenerationInv'
<1> USE DEF AdmissionInv, AdmissionTypeOK, LatchInv, GenerationInv
\* While a stop runs no answer is young enough to clear the latch.
<1>1. CASE MonitorApply  BY <1>1 DEF MonitorApply, _apply_status, RequestInv, Outdated, Requests
<1>2. CASE ClientApply  BY <1>2 DEF ClientApply, _apply_status, RequestInv, Outdated, Requests
<1>3. CASE Stop
  <2>1. \A n \in Nat : n % 2 = 0 <=> (n + 1) % 2 = 1  OBVIOUS
  <2>2. \A n \in Nat : n % 2 = 1 <=> (n + 1) % 2 = 0  OBVIOUS
  <2>3. CASE StopLatch  BY <2>1, <2>3, AdmissionAssumption DEF StopLatch
  <2>4. CASE StopEnd  BY <2>2, <2>4, AdmissionAssumption DEF StopEnd
  <2>5. CASE StopRelease \/ StopRecord  BY <2>5 DEF StopRelease, StopRecord
  <2>6. QED  BY <1>3, <2>3, <2>4, <2>5 DEF Stop
<1>4. CASE MonitorIssue \/ MonitorExecute \/ MonitorFails \/ suspend \/ resume
  BY <1>4 DEF MonitorIssue, MonitorExecute, MonitorFails, suspend, resume
<1>5. CASE ClientIssue \/ ClientExecute \/ ClientRefused \/ Grab \/ UNCHANGED admissionVars
  BY <1>5 DEF ClientIssue, ClientExecute, ClientRefused, Grab, GrabStart, GrabDone, admissionVars
<1>6. QED  BY <1>1, <1>2, <1>3, <1>4, <1>5 DEF AdmissionNext, MonitorTask, Client, Stop

\* Nobody asks during a stop, so a request that may reopen admission is older
\* than a stop that runs, and one that is executed later lifts the stop.
LEMMA RequestsKeep ==
    ASSUME ~AsksDuringStop, AdmissionInv, [AdmissionNext]_admissionVars
    PROVE RequestInv'
<1> USE DEF AdmissionInv, AdmissionTypeOK, RequestInv, Outdated, Lifted, Requests
<1>1. CASE MonitorIssue  BY <1>1 DEF MonitorIssue, MayAsk, Issue
<1>2. CASE ClientIssue  BY <1>2 DEF ClientIssue, MayAsk, Issue
\* A request that is executed with the generation of the moment lifts the stop.
<1>3. CASE MonitorExecute
  <2>1. /\ monitor'.of = monitor.of /\ monitor.of \in {"startup", "poll"} /\ client'.of # "poll"
        /\ Outdated(monitor)' /\ Outdated(client)'
    BY <1>3 DEF MonitorExecute
  <2>2. Lifted(monitor)'  BY <1>3 DEF MonitorExecute, Asked
  <2>3. Lifted(client)'  BY <1>3 DEF MonitorExecute, Asked
  <2>4. QED  BY <2>1, <2>2, <2>3
<1>4. CASE ClientExecute  BY <1>4 DEF ClientExecute, Asked
<1>5. CASE MonitorApply \/ MonitorFails  BY <1>5 DEF MonitorApply, MonitorFails, Idle
<1>6. CASE ClientApply \/ ClientRefused
  <2>1. client' = Idle /\ UNCHANGED <<generation, stopping, inForce, monitor>>
    BY <1>6 DEF ClientApply, ClientRefused
  <2>2. /\ Outdated(monitor)' /\ Lifted(monitor)'
        /\ monitor'.at # "idle" => monitor'.of \in {"startup", "poll"}
    BY <2>1
  <2>3. client'.of = "none" /\ client'.at = "idle"  BY <2>1 DEF Idle
  <2>4. QED  BY <2>2, <2>3
<1>7. CASE StopLatch  BY <1>7 DEF StopLatch
<1>8. CASE StopRelease  BY <1>8 DEF StopRelease
<1>9. CASE StopEnd  BY <1>9 DEF StopEnd
<1>10. CASE StopRecord \/ suspend \/ resume \/ Grab \/ UNCHANGED admissionVars
  <2>1. /\ UNCHANGED <<generation, inForce, monitor, client>>
        /\ stopping' # "idle" => stopping # "idle"
    BY <1>10 DEF StopRecord, suspend, resume, Grab, GrabStart, GrabDone, admissionVars
  <2>2. QED  BY <2>1
<1>11. QED  BY <1>1, <1>2, <1>3, <1>4, <1>5, <1>6, <1>7, <1>8, <1>9, <1>10
            DEF AdmissionNext, MonitorTask, Client, Stop, Grab

\* A stop in force stays closed: no answer clears the latch, no grab starts.
LEMMA ClosedKeeps == ASSUME AdmissionInv, [AdmissionNext]_admissionVars PROVE ClosedInv'
<1> USE DEF AdmissionInv, AdmissionTypeOK, ClosedInv
\* An answer that clears the latch was lifted, so no stop is in force.
<1>1. CASE MonitorApply  BY <1>1 DEF MonitorApply, _apply_status, RequestInv, Lifted, Requests
<1>2. CASE ClientApply  BY <1>2 DEF ClientApply, _apply_status, RequestInv, Lifted, Requests
<1>3. CASE StopRelease  BY <1>3 DEF StopRelease, LatchInv
<1>4. CASE GrabStart  BY <1>4 DEF GrabStart, masking_suspended
<1>5. CASE GrabDone  BY <1>5 DEF GrabDone
<1>6. CASE MonitorExecute \/ ClientExecute  BY <1>6 DEF MonitorExecute, ClientExecute, Asked
<1>7. CASE StopLatch \/ StopRecord \/ StopEnd \/ suspend \/ resume
  BY <1>7 DEF StopLatch, StopRecord, StopEnd, suspend, resume
<1>8. CASE MonitorIssue \/ MonitorFails \/ ClientIssue \/ ClientRefused \/ UNCHANGED admissionVars
  BY <1>8 DEF MonitorIssue, MonitorFails, ClientIssue, ClientRefused, admissionVars
<1>9. QED
  BY <1>1, <1>2, <1>3, <1>4, <1>5, <1>6, <1>7, <1>8
  DEF AdmissionNext, MonitorTask, Client, Stop, Grab

\* While nobody asks for a device in the middle of a stop (AsksDuringStop), no
\* device is grabbed after an emergency stop until somebody asks for it, however
\* late and in whatever order the answers of polls, startups and commands arrive
\* (_apply_status against stop_generation).
THEOREM StopsHold == ~AsksDuringStop => (AdmissionSpec => [](AdmissionTypeOK /\ StopStaysClosed))
<1> SUFFICES ASSUME ~AsksDuringStop
             PROVE AdmissionSpec => [](AdmissionTypeOK /\ StopStaysClosed)  OBVIOUS
<1>1. AdmissionInv /\ [AdmissionNext]_admissionVars => AdmissionInv'
  BY SwitchesKeep, CountsKeep, StopKeeps, RequestsKeep, ClosedKeeps
  DEF AdmissionInv, AdmissionTypeOK, Switches, Counts
<1>2. AdmissionInv => AdmissionTypeOK /\ StopStaysClosed
  BY DEF AdmissionInv, ClosedInv, StopStaysClosed
<1>3. QED  BY InitClosed, <1>1, <1>2, PTL DEF AdmissionSpec
=============================================================================
