-------------------------------- MODULE Sleep --------------------------------
(***************************************************************************)
(* LogindSleepCoordinator (keymasqd/sleep.py) with the parts of the device *)
(* manager it drives: the input pause flag and neutralize_runtime.         *)
(*                                                                         *)
(* Everything here runs on one asyncio loop: the D-Bus signal handler, the *)
(* worker that serializes suspend and wake handling, the supervisor that   *)
(* reconnects to logind, stop(), a hardware-mask recovery that neutralizes *)
(* the runtime on its own account, and the mask requests of the session,   *)
(* which start the mask monitor as a wake does.  They interleave at their  *)
(* awaits.  logind and the machine are outside: logind announces a suspend, *)
(* waits for the delay inhibitor or for its own timeout, suspends, and     *)
(* announces the wake.                                                     *)
(***************************************************************************)
EXTENDS Integers, Sequences, FiniteSets

CONSTANTS
    MaxQueue,   \* bound on undelivered signals and unprocessed events
    Faults      \* what may go wrong: subset of FaultNames

\* "mask":      a hardware-mask recovery neutralizes the runtime as well;
\* "reconnect": the Inhibit call of a (re)connection fails or is cut off;
\* "timeout":   logind stops waiting for the delay inhibitor.
FaultNames == {"mask", "reconnect", "timeout"}

ASSUME SleepAssumption == MaxQueue \in Nat /\ Faults \subseteq FaultNames

VARIABLES
    machine,                \* logind: awake, preparing, asleep
    promised,               \* an inhibitor was held when the suspend was announced
    overlapped,             \* ... while an older suspend was still cleaned up
    signals,                \* PrepareForSleep signals on their way to the handler
    link,                   \* the bus connection in use works
    _subscribed,            \* the handler is connected (and _manager is set)
    _inhibitor_fd,          \* the coordinator holds an inhibitor
    leaked,                 \* an open inhibitor nobody remembers
    _connection_refresh,
    _sleep_requested,
    _pending_neutralizations,
    _runtime_paused,
    _events,                \* the worker's queue
    worker,                 \* where the worker awaits
    supervisor,             \* where the connection supervisor (or start, stop) awaits
    _runtime_input_paused,  \* of the device manager
    neutralizer,            \* holder of _neutralize_lock
    was_paused,             \* local of neutralize_runtime
    outputs_active,         \* tracked outputs are down
    session,                \* HardwareMasking.session_uid: none, open, closing
    monitor                 \* the mask monitor: absent, stopped by a suspend, or running
                            \* since a request or since a wake

logind      == <<machine, promised, overlapped>>
inhibitor   == <<_inhibitor_fd, leaked>>
connection  == <<link, _subscribed, _connection_refresh>>
coordinator == <<_sleep_requested, _pending_neutralizations, _runtime_paused>>
monitoring  == <<session, monitor>>
runtime     == <<_runtime_input_paused, neutralizer, was_paused, outputs_active>>
vars == <<logind, signals, connection, inhibitor, coordinator, _events, worker,
          supervisor, runtime, monitoring>>

WorkerSteps == {"absent", "waiting", "neutralize", "neutralizing", "hardware",
                "restoring", "acquiring", "refused", "done"}
SupervisorSteps == {"starting", "watching", "closed", "connecting", "cancelled",
                    "stopping", "absent"}

LogindTypes ==
    /\ machine \in {"awake", "preparing", "asleep"}
    /\ promised \in BOOLEAN /\ overlapped \in BOOLEAN
    /\ signals \in Seq({"sleep", "wake"})

ConnectionTypes ==
    /\ link \in BOOLEAN /\ _subscribed \in BOOLEAN /\ _connection_refresh \in BOOLEAN
    /\ _inhibitor_fd \in BOOLEAN /\ leaked \in BOOLEAN
    /\ supervisor \in SupervisorSteps

CoordinatorTypes ==
    /\ _sleep_requested \in BOOLEAN
    /\ _pending_neutralizations \in Nat
    /\ _runtime_paused \in BOOLEAN
    /\ _events \in Seq({"sleep", "wake", "stop"})
    /\ worker \in WorkerSteps

RuntimeTypes ==
    /\ _runtime_input_paused \in BOOLEAN
    /\ neutralizer \in {"nobody", "worker", "mask"}
    /\ was_paused \in BOOLEAN
    /\ outputs_active \in BOOLEAN
    /\ session \in {"none", "open", "closing"}
    /\ monitor \in {"absent", "stopped", "requested", "resumed"}

TypeOK == LogindTypes /\ ConnectionTypes /\ CoordinatorTypes /\ RuntimeTypes

\* start() has subscribed to logind and awaits its first inhibitor.
Init ==
    /\ machine = "awake" /\ promised = FALSE /\ overlapped = FALSE
    /\ signals = <<>>
    /\ link = TRUE /\ _subscribed = TRUE /\ _connection_refresh = FALSE
    /\ _inhibitor_fd = FALSE /\ leaked = FALSE
    /\ _sleep_requested = FALSE
    /\ _pending_neutralizations = 0
    /\ _runtime_paused = FALSE
    /\ _events = <<>>
    /\ worker = "absent"
    /\ supervisor = "starting"
    /\ _runtime_input_paused = FALSE
    /\ neutralizer = "nobody" /\ was_paused = FALSE
    /\ outputs_active = FALSE
    /\ session = "none" /\ monitor = "absent"

-----------------------------------------------------------------------------
(* logind and the machine. *)

Announce(signal) == signals' = IF _subscribed /\ link THEN Append(signals, signal) ELSE signals

PrepareForSleep ==
    /\ machine = "awake"
    /\ supervisor # "absent" => Len(signals) + Len(_events) < MaxQueue
    /\ machine' = "preparing"
    /\ promised' = (_subscribed /\ link /\ _inhibitor_fd)
    /\ overlapped' = \/ _pending_neutralizations > 0 \/ worker \in {"hardware", "restoring"}
                     \/ \E i \in 1..Len(signals) : signals[i] = "sleep"
    /\ Announce("sleep")
    /\ UNCHANGED <<connection, inhibitor, coordinator, _events, worker, supervisor,
                   runtime, monitoring>>

\* A delay inhibitor delays the suspend until it is closed, or until logind's
\* InhibitDelayMaxSec has passed.
Suspend ==
    /\ machine = "preparing"
    /\ "timeout" \in Faults \/ ~(_inhibitor_fd \/ leaked)
    /\ machine' = "asleep"
    /\ UNCHANGED <<promised, overlapped, signals, connection, inhibitor, coordinator,
                   _events, worker, supervisor, runtime, monitoring>>

Wake ==
    /\ machine = "asleep"
    /\ machine' = "awake"
    /\ Announce("wake")
    /\ UNCHANGED <<promised, overlapped, connection, inhibitor, coordinator, _events,
                   worker, supervisor, runtime, monitoring>>

\* The bus connection drops, or logind changes its owner: what was on its way is lost.
ConnectionLost ==
    /\ _subscribed /\ link
    /\ supervisor = "watching" \/ "reconnect" \in Faults
    /\ Len(signals) + Len(_events) < MaxQueue
    /\ link' = FALSE
    /\ promised' = FALSE
    /\ signals' = <<>>
    /\ UNCHANGED <<machine, overlapped, _subscribed, _connection_refresh, inhibitor,
                   coordinator, _events, worker, supervisor, runtime, monitoring>>

\* Input that is not paused presses and releases outputs.
Input ==
    /\ ~_runtime_input_paused
    /\ outputs_active' = ~outputs_active
    /\ UNCHANGED <<logind, signals, connection, inhibitor, coordinator, _events, worker,
                   supervisor, _runtime_input_paused, neutralizer, was_paused, monitoring>>

-----------------------------------------------------------------------------
(* The signal handler. *)

\* Mutant of ResumeIfReady: a wake resumes input although a cleanup is outstanding.
ResumeIfReady_on_any_wake(requested, pending, paused) ==
    LET resume == ~requested /\ _runtime_paused
    IN  /\ _runtime_paused' = (_runtime_paused /\ ~resume)
        /\ _runtime_input_paused' = (paused /\ ~resume)

\* _resume_if_ready, with the values the caller has just assigned; otherwise the
\* pause flag becomes `paused'.
ResumeIfReady(requested, pending, paused) ==
    LET resume == ~requested /\ pending = 0 /\ _runtime_paused
    IN  /\ _runtime_paused' = (_runtime_paused /\ ~resume)
        /\ _runtime_input_paused' = (paused /\ ~resume)

_on_prepare_for_sleep(signal) ==
    /\ _sleep_requested' = (signal = "sleep")
    /\ _events' = Append(_events, signal)
    /\ IF signal = "sleep"
         THEN /\ _pending_neutralizations' = _pending_neutralizations + 1
              /\ _runtime_paused' = TRUE
              /\ _runtime_input_paused' = (_runtime_input_paused \/ ~_runtime_paused)
         ELSE /\ UNCHANGED _pending_neutralizations
              /\ ResumeIfReady(FALSE, _pending_neutralizations, _runtime_input_paused)
    /\ UNCHANGED <<neutralizer, was_paused, outputs_active>>

Deliver ==
    /\ signals # <<>>
    /\ _on_prepare_for_sleep(Head(signals))
    /\ signals' = Tail(signals)
    /\ UNCHANGED <<logind, connection, inhibitor, worker, supervisor, monitoring>>

-----------------------------------------------------------------------------
(* neutralize_runtime: _neutralize_lock admits one caller at a time. *)

NeutralizeBegin(by) ==
    /\ neutralizer = "nobody"
    /\ neutralizer' = by
    /\ was_paused' = _runtime_input_paused
    /\ _runtime_input_paused' = TRUE
    /\ UNCHANGED outputs_active

NeutralizeEnd ==
    /\ neutralizer' = "nobody"
    /\ outputs_active' = FALSE
    /\ UNCHANGED was_paused

MaskNeutralizeBegin ==
    /\ "mask" \in Faults
    /\ NeutralizeBegin("mask")
    /\ UNCHANGED <<logind, signals, connection, inhibitor, coordinator, _events, worker,
                   supervisor, monitoring>>

MaskNeutralizeEnd ==
    /\ neutralizer = "mask"
    /\ NeutralizeEnd
    /\ _runtime_input_paused' = (was_paused /\ _runtime_input_paused)
    /\ UNCHANGED <<logind, signals, connection, inhibitor, coordinator, _events, worker,
                   supervisor, monitoring>>

-----------------------------------------------------------------------------
(* The worker, _run. *)

\* Mutant of TakeSuspend: the inhibitor is closed before the cleanup.
TakeSuspend_closes_first ==
    /\ worker = "waiting" /\ _events # <<>> /\ Head(_events) = "sleep"
    /\ _events' = Tail(_events)
    /\ worker' = "neutralize"
    /\ _inhibitor_fd' = FALSE
    /\ UNCHANGED <<logind, signals, connection, leaked, coordinator, supervisor, runtime,
                   monitoring>>

TakeSuspend ==
    /\ worker = "waiting" /\ _events # <<>> /\ Head(_events) = "sleep"
    /\ _events' = Tail(_events)
    /\ worker' = "neutralize"
    /\ UNCHANGED <<logind, signals, connection, inhibitor, coordinator, supervisor,
                   runtime, monitoring>>

WorkerNeutralizeBegin ==
    /\ worker = "neutralize"
    /\ NeutralizeBegin("worker")
    /\ worker' = "neutralizing"
    /\ UNCHANGED <<logind, signals, connection, inhibitor, coordinator, _events,
                   supervisor, monitoring>>

\* Mutant of WorkerNeutralizeEnd: a neutralization that raises is not counted off.
WorkerNeutralizeEnd_raises ==
    /\ worker = "neutralizing"
    /\ NeutralizeEnd
    /\ ResumeIfReady(_sleep_requested, _pending_neutralizations,
                     was_paused /\ _runtime_input_paused)
    /\ worker' = "hardware"
    /\ UNCHANGED <<logind, signals, connection, inhibitor, _sleep_requested,
                   _pending_neutralizations, _events, supervisor, monitoring>>

\* A neutralization ends the same way whether or not one of its steps raised.
WorkerNeutralizeEnd ==
    /\ worker = "neutralizing"
    /\ NeutralizeEnd
    /\ _pending_neutralizations' = _pending_neutralizations - 1
    /\ ResumeIfReady(_sleep_requested, _pending_neutralizations - 1,
                     was_paused /\ _runtime_input_paused)
    /\ worker' = "hardware"
    /\ UNCHANGED <<logind, signals, connection, inhibitor, _sleep_requested, _events,
                   supervisor, monitoring>>

\* hardware_masking.suspend first stops the monitor; a session is owed it back.
MonitorStopped ==
    /\ worker = "hardware"
    /\ monitor' = IF monitor = "absent" \/ session = "none" THEN "absent" ELSE "stopped"
    /\ worker' = "restoring"
    /\ UNCHANGED <<logind, signals, connection, inhibitor, coordinator, _events, supervisor,
                   runtime, session>>

\* hardware_masking.suspend returned or raised; the inhibitor is closed.
HardwareCleanedUp ==
    /\ worker = "restoring"
    /\ _inhibitor_fd' = FALSE
    /\ worker' = "waiting"
    /\ UNCHANGED <<logind, signals, connection, leaked, coordinator, _events, supervisor,
                   runtime, monitoring>>

\* start_monitor leaves a monitor that runs alone.
start_monitor(by) == monitor' = IF monitor \in {"absent", "stopped"} THEN by ELSE monitor

\* resume starts the monitor only of a session that has made a mask request.
resume_hardware == IF session # "none" THEN start_monitor("resumed") ELSE UNCHANGED monitor

\* A wake is stale when a newer suspend was requested or awaits its cleanup.
StaleWake == _sleep_requested \/ _pending_neutralizations # 0

\* Mutant of TakeWake: the inhibitor is not taken again.
TakeWake_without_inhibitor ==
    /\ worker = "waiting" /\ _events # <<>> /\ Head(_events) = "wake"
    /\ _events' = Tail(_events)
    /\ IF StaleWake
         THEN UNCHANGED <<_runtime_paused, _runtime_input_paused, monitor>>
         ELSE /\ ResumeIfReady(_sleep_requested, _pending_neutralizations, _runtime_input_paused)
              /\ resume_hardware
    /\ UNCHANGED <<logind, signals, connection, inhibitor, _sleep_requested,
                   _pending_neutralizations, worker, supervisor, neutralizer, was_paused,
                   outputs_active, session>>

TakeWake ==
    /\ worker = "waiting" /\ _events # <<>> /\ Head(_events) = "wake"
    /\ _events' = Tail(_events)
    /\ IF StaleWake
         THEN UNCHANGED <<_runtime_paused, _runtime_input_paused, monitor, worker>>
         ELSE /\ ResumeIfReady(_sleep_requested, _pending_neutralizations, _runtime_input_paused)
              /\ resume_hardware
              /\ worker' = IF _subscribed /\ ~_inhibitor_fd THEN "acquiring" ELSE "waiting"
    /\ UNCHANGED <<logind, signals, connection, inhibitor, _sleep_requested,
                   _pending_neutralizations, supervisor, neutralizer, was_paused,
                   outputs_active, session>>

\* call_inhibit returns an fd, which replaces whatever is remembered by now.
StoreInhibitor == _inhibitor_fd' = TRUE /\ leaked' = (leaked \/ _inhibitor_fd)

WorkerAcquired ==
    /\ worker = "acquiring" /\ link
    /\ StoreInhibitor
    /\ worker' = "waiting"
    /\ UNCHANGED <<logind, signals, connection, coordinator, _events, supervisor,
                   runtime, monitoring>>

WorkerAcquireFails ==
    /\ worker \in {"acquiring", "refused"}
    /\ _connection_refresh' = TRUE
    /\ worker' = "waiting"
    /\ UNCHANGED <<logind, signals, link, _subscribed, inhibitor, coordinator, _events,
                   supervisor, runtime, monitoring>>

TakeStop ==
    /\ worker = "waiting" /\ _events # <<>> /\ Head(_events) = "stop"
    /\ _events' = Tail(_events)
    /\ worker' = "done"
    /\ UNCHANGED <<logind, signals, connection, inhibitor, coordinator, supervisor,
                   runtime, monitoring>>

-----------------------------------------------------------------------------
(* start, _supervise_connection and stop. *)

\* _close_connection: unsubscribe, close the inhibitor, drop the bus.
CloseConnection ==
    /\ _subscribed' = FALSE
    /\ link' = FALSE
    /\ signals' = <<>>
    /\ _inhibitor_fd' = FALSE
    /\ promised' = FALSE
    /\ UNCHANGED <<machine, overlapped, leaked>>

\* A worker that awaits its Inhibit call on a connection that is closed gets an error.
RefuseWorker == worker' = IF worker = "acquiring" THEN "refused" ELSE worker

Started ==
    /\ supervisor = "starting" /\ link
    /\ StoreInhibitor
    /\ worker' = "waiting"
    /\ supervisor' = "watching"
    /\ UNCHANGED <<logind, signals, connection, coordinator, _events, runtime, monitoring>>

\* start() gives up: no worker and no supervisor are created.
StartFails ==
    /\ supervisor = "starting" /\ "reconnect" \in Faults
    /\ CloseConnection
    /\ supervisor' = "absent"
    /\ UNCHANGED <<_connection_refresh, coordinator, _events, worker, runtime, monitoring>>

\* Mutant of ConnectionClosed: the wake that was lost with the connection is not made up for.
ConnectionClosed_without_wake ==
    /\ supervisor = "watching"
    /\ ~link \/ _connection_refresh
    /\ _connection_refresh' = FALSE
    /\ CloseConnection
    /\ RefuseWorker
    /\ supervisor' = "closed"
    /\ UNCHANGED <<coordinator, _events, runtime, monitoring>>

\* The connection is lost or must be refreshed: act as if the machine woke up,
\* and close what is left of the connection.
ConnectionClosed ==
    /\ supervisor = "watching"
    /\ ~link \/ _connection_refresh
    /\ _connection_refresh' = FALSE
    /\ _on_prepare_for_sleep("wake")
    /\ CloseConnection
    /\ RefuseWorker
    /\ supervisor' = "closed"
    /\ UNCHANGED monitoring

\* _connect up to its Inhibit call, which is skipped while an inhibitor is held.
Connect ==
    /\ supervisor = "closed"
    /\ link' = TRUE /\ _subscribed' = TRUE
    /\ supervisor' = IF _inhibitor_fd THEN "watching" ELSE "connecting"
    /\ UNCHANGED <<logind, signals, _connection_refresh, inhibitor, coordinator, _events,
                   worker, runtime, monitoring>>

Connected ==
    /\ supervisor = "connecting" /\ link
    /\ StoreInhibitor
    /\ supervisor' = "watching"
    /\ UNCHANGED <<logind, signals, connection, coordinator, _events, worker, runtime,
                   monitoring>>

ConnectFails ==
    /\ supervisor = "connecting" /\ "reconnect" \in Faults
    /\ CloseConnection
    /\ RefuseWorker
    /\ supervisor' = "closed"
    /\ UNCHANGED <<_connection_refresh, coordinator, _events, runtime, monitoring>>

\* stop() cancels the supervisor, then unsubscribes and lets the worker finish
\* its queue, then resumes the runtime and closes the connection.
Stop ==
    /\ supervisor \in {"watching", "closed", "connecting"}
    /\ supervisor' = "cancelled"
    /\ UNCHANGED <<logind, signals, connection, inhibitor, coordinator, _events, worker,
                   runtime, monitoring>>

\* Mutant of StopWorker: the stop overtakes what waits in the queue.
StopWorker_overtakes ==
    /\ supervisor = "cancelled"
    /\ _subscribed' = FALSE
    /\ signals' = <<>>
    /\ promised' = FALSE
    /\ _events' = <<"stop">> \o _events
    /\ supervisor' = "stopping"
    /\ UNCHANGED <<machine, overlapped, link, _connection_refresh, inhibitor, coordinator,
                   worker, runtime, monitoring>>

StopWorker ==
    /\ supervisor = "cancelled"
    /\ _subscribed' = FALSE
    /\ signals' = <<>>
    /\ promised' = FALSE
    /\ _events' = Append(_events, "stop")
    /\ supervisor' = "stopping"
    /\ UNCHANGED <<machine, overlapped, link, _connection_refresh, inhibitor, coordinator,
                   worker, runtime, monitoring>>

Stopped ==
    /\ supervisor = "stopping" /\ worker = "done"
    /\ _runtime_paused' = FALSE
    /\ _runtime_input_paused' = (_runtime_input_paused /\ ~_runtime_paused)
    /\ CloseConnection
    /\ supervisor' = "absent"
    /\ UNCHANGED <<_connection_refresh, _sleep_requested, _pending_neutralizations, _events,
                   worker, neutralizer, was_paused, outputs_active, monitoring>>

-----------------------------------------------------------------------------
(* Mask requests: HardwareMasking.handle and close. *)

SleepUnchanged ==
    UNCHANGED <<logind, signals, connection, inhibitor, coordinator, _events, worker,
                supervisor, runtime>>

\* handle remembers the user before its first await.
RequestArrives ==
    /\ session = "none"
    /\ session' = "open"
    /\ SleepUnchanged /\ UNCHANGED monitor

\* An answered request starts the monitor, asleep too, and also when the session
\* that made it has gone since; one that raises does not.
RequestAnswered ==
    /\ monitor \in {"absent", "stopped"}
    /\ start_monitor("requested")
    /\ SleepUnchanged /\ UNCHANGED session

\* close, when the client has gone or another user asks, stops the monitor, restores,
\* and forgets the user last: what was started meanwhile goes on.
SessionCloses ==
    /\ session # "closing"
    /\ monitor' = "absent"
    /\ session' = IF session = "open" THEN "closing" ELSE session
    /\ SleepUnchanged

SessionClosed ==
    /\ session = "closing"
    /\ session' = "none"
    /\ monitor' = IF monitor = "stopped" THEN "absent" ELSE monitor
    /\ SleepUnchanged

-----------------------------------------------------------------------------
Machine == PrepareForSleep \/ Suspend \/ Wake \/ ConnectionLost \/ Input

Worker ==
    \/ TakeSuspend \/ WorkerNeutralizeBegin \/ WorkerNeutralizeEnd \/ MonitorStopped
    \/ HardwareCleanedUp \/ TakeWake \/ WorkerAcquired \/ WorkerAcquireFails \/ TakeStop

Supervisor ==
    \/ Started \/ StartFails \/ ConnectionClosed \/ Connect \/ Connected \/ ConnectFails
    \/ Stop \/ StopWorker \/ Stopped

MaskRecovery == MaskNeutralizeBegin \/ MaskNeutralizeEnd

Client == RequestArrives \/ RequestAnswered \/ SessionCloses \/ SessionClosed

Next == Machine \/ Deliver \/ Worker \/ Supervisor \/ MaskRecovery \/ Client

Spec == Init /\ [][Next]_vars

\* Tasks of the loop make progress, signals that were sent arrive, and a lost
\* connection is noticed and retried.  The machine, a stop and the client owe
\* nothing.
FairSpec ==
    /\ Spec
    /\ WF_vars(Deliver)
    /\ WF_vars(Worker)
    /\ WF_vars(Started \/ StartFails)
    /\ WF_vars(ConnectionClosed)
    /\ WF_vars(Connect)
    /\ WF_vars(Connected \/ ConnectFails)
    /\ WF_vars(StopWorker \/ Stopped)
    /\ WF_vars(MaskNeutralizeEnd)

-----------------------------------------------------------------------------
(* Properties. *)

\* Until stop() has finished, input stays paused as long as a suspend is requested
\* or awaits its neutralization: no wake, stale wake, reconnection or end of a
\* neutralization lets input through earlier (_resume_if_ready).
PausedWhileSleeping ==
    supervisor # "absent" /\ (_sleep_requested \/ _pending_neutralizations > 0)
        => _runtime_input_paused

\* When logind suspends because the inhibitor it waited for was closed, input is
\* paused and every tracked output has been released; for suspends that were
\* announced after the cleanup of older ones.
CleanLoneSuspend ==
    [][machine = "preparing" /\ machine' = "asleep" /\ promised /\ ~_inhibitor_fd /\ ~leaked
         /\ ~overlapped
         => _runtime_input_paused /\ ~outputs_active]_vars

\* The number of suspends that wait in a queue.
Suspends(queue) == Cardinality({i \in 1..Len(queue) : queue[i] = "sleep"})

\* _pending_neutralizations counts the suspends whose neutralization has not
\* finished: those in the queue and the one in the worker's hands.  A suspend that
\* is counted twice, or not at all, would pause input for good or resume it early.
PendingMatchesQueue ==
    _pending_neutralizations =
        Suspends(_events) + (IF worker \in {"neutralize", "neutralizing"} THEN 1 ELSE 0)

\* stop() lets the worker finish every suspend that was announced before it: once
\* the worker is done, no cleanup is outstanding.
StopFinishesCleanup ==
    worker = "done" => _events = <<>> /\ _pending_neutralizations = 0

\* With nothing left to process, the runtime agrees with the last signal: asleep,
\* input is paused, outputs are released, and if the mask monitor runs then because
\* the session has asked for it since, never because of a wake; awake, input flows,
\* the session has the monitor back that a suspend stopped, and the watched
\* connection holds an inhibitor.
CaughtUp ==
    /\ supervisor = "watching" /\ worker = "waiting"
    /\ signals = <<>> /\ _events = <<>> /\ link /\ ~_connection_refresh

SettledAgreement ==
    CaughtUp =>
        IF _sleep_requested
          THEN _runtime_input_paused /\ ~outputs_active /\ monitor # "resumed"
          ELSE ~_runtime_input_paused /\ monitor # "stopped" /\ _inhibitor_fd

\* If the machine stays awake, input eventually flows again.
ResumesAfterWake == <>[](machine = "awake") => <>[](~_runtime_input_paused)
=============================================================================
