--------------------------- MODULE MaskAdmission ---------------------------
(***************************************************************************)
(* Who may grab a device after an emergency stop: the latch, the pause and *)
(* the stop generation of HardwareMasking (keymasqd/hardware_masking.py),  *)
(* the monitor's startup and poll, the window's mask and resume commands,  *)
(* and DeviceManager.grab_device.  A request is issued, executed by the    *)
(* coordinator under HardwareMasking.lock, and its answer is applied some  *)
(* steps of the event loop later.  The names differ from those of          *)
(* MaskReservation, so that one module can speak of both.                  *)
(***************************************************************************)
EXTENDS Naturals

CONSTANTS MaxStops,        \* emergency stops
          AsksDuringStop   \* a resume, mask or startup may be issued while a stop runs

ASSUME AdmissionAssumption == MaxStops \in Nat /\ AsksDuringStop \in BOOLEAN

VARIABLES suspended,     \* the coordinator's suspended file
          latched,       \* emergency_latched
          observed,      \* observed_paused
          generation,    \* stop_generation
          needsStartup,  \* needs_startup
          watching,      \* the monitor task exists
          monitor,       \* the monitor's request
          client,        \* the window's request
          stopping,      \* how far an emergency stop has got
          grab,          \* a grab that holds _op_lock
          grabbed,       \* some device is grabbed
          inForce        \* a stop released the devices and nobody has asked for them since

admissionVars == <<suspended, latched, observed, generation, needsStartup, watching, monitor,
                   client, stopping, grab, grabbed, inForce>>

Idle == [at |-> "idle", of |-> "none", generation |-> 0, paused |-> FALSE]

Requests ==
    [at : {"idle", "issued", "answered"}, of : {"none", "startup", "poll", "mask", "resume"},
     generation : 0..(2 * MaxStops), paused : BOOLEAN]

AdmissionTypeOK ==
    /\ suspended \in BOOLEAN /\ latched \in BOOLEAN /\ observed \in BOOLEAN
    /\ needsStartup \in BOOLEAN /\ watching \in BOOLEAN
    /\ grab \in BOOLEAN /\ grabbed \in BOOLEAN /\ inForce \in BOOLEAN
    /\ generation \in 0..(2 * MaxStops)
    /\ monitor \in Requests /\ client \in Requests
    /\ stopping \in {"idle", "latched", "released", "recorded"}

AdmissionInit ==
    /\ suspended \in BOOLEAN /\ observed = suspended
    /\ latched = FALSE /\ generation = 0 /\ needsStartup = TRUE /\ watching = TRUE
    /\ monitor = Idle /\ client = Idle /\ stopping = "idle"
    /\ grab = FALSE /\ grabbed = FALSE /\ inForce = suspended

masking_suspended == latched \/ observed

\* _apply_status without the comparison of generations.
_apply_status_of_any_age(answer, transition) ==
    /\ observed' = (answer.paused \/ (observed /\ ~transition))
    /\ latched' = (latched /\ (answer.paused \/ ~transition))

\* _apply_status: any answer may raise the pause, only an explicit transition
\* that no stop has overtaken lowers it.
_apply_status(answer, transition) ==
    LET clears == ~answer.paused /\ transition /\ answer.generation = generation
    IN  /\ observed' = IF answer.paused THEN TRUE ELSE observed /\ ~clears
        /\ latched' = (latched /\ ~clears)

\* A request that nobody has overtaken and no suspended file holds up answers the stop.
MayAsk == AsksDuringStop \/ stopping = "idle"
Asked(request) ==
    inForce' = (inForce /\ (suspended' \/ request.generation # generation \/ stopping # "idle"))

Issue(of) == [at |-> "issued", of |-> of, generation |-> generation, paused |-> FALSE]

-----------------------------------------------------------------------------
(* The monitor *)

\* startup and the poll of monitor_once.
MonitorIssue ==
    /\ watching /\ monitor = Idle
    /\ \/ needsStartup /\ MayAsk /\ monitor' = Issue("startup")
       \/ ~needsStartup /\ monitor' = Issue("poll")
    /\ UNCHANGED <<suspended, latched, observed, generation, needsStartup, watching, client,
                   stopping, grab, grabbed, inForce>>

MonitorExecute ==
    /\ monitor.at = "issued"
    /\ monitor' = [monitor EXCEPT !.at = "answered", !.paused = suspended]
    /\ UNCHANGED suspended
    /\ IF monitor.of = "startup" THEN Asked(monitor) ELSE UNCHANGED inForce
    /\ UNCHANGED <<latched, observed, generation, needsStartup, watching, client, stopping, grab,
                   grabbed>>

\* An answer that is the first to tell of a pause releases the devices.
MonitorApply ==
    /\ monitor.at = "answered"
    /\ _apply_status(monitor, monitor.of = "startup")
    /\ IF monitor.of = "poll" /\ monitor.paused /\ ~masking_suspended
       THEN ~grab /\ grabbed' = FALSE
       ELSE UNCHANGED grabbed
    /\ needsStartup' = (needsStartup /\ monitor.of # "startup")
    /\ monitor' = Idle
    /\ UNCHANGED <<suspended, generation, watching, client, stopping, grab, inForce>>

\* A round that fails leaves everything to the next one.
MonitorFails ==
    /\ monitor.at = "issued" /\ monitor' = Idle
    /\ UNCHANGED <<suspended, latched, observed, generation, needsStartup, watching, client,
                   stopping, grab, grabbed, inForce>>

\* suspend stops the monitor and asks for a startup at the next wake.
suspend ==
    /\ watching /\ monitor = Idle
    /\ watching' = FALSE /\ needsStartup' = TRUE
    /\ UNCHANGED <<suspended, latched, observed, generation, monitor, client, stopping, grab,
                   grabbed, inForce>>

resume ==
    /\ ~watching /\ watching' = TRUE
    /\ UNCHANGED <<suspended, latched, observed, generation, needsStartup, monitor, client,
                   stopping, grab, grabbed, inForce>>

-----------------------------------------------------------------------------
(* The window: handle with the commands mask and resume *)

ClientIssue ==
    /\ client = Idle /\ MayAsk
    \* handle runs startup first; the monitor's stands for it
    /\ ~needsStartup
    /\ \E of \in {"mask", "resume"} : client' = Issue(of)
    /\ UNCHANGED <<suspended, latched, observed, generation, needsStartup, watching, monitor,
                   stopping, grab, grabbed, inForce>>

\* mask is refused while the suspended file exists, resume removes it.
ClientExecute ==
    /\ client.at = "issued"
    /\ client.of = "mask" => ~suspended
    /\ suspended' = FALSE
    /\ client' = [client EXCEPT !.at = "answered"]
    /\ Asked(client)
    /\ UNCHANGED <<latched, observed, generation, needsStartup, watching, monitor, stopping, grab,
                   grabbed>>

\* The suspended file exists, or hardware recovery is still in progress.
ClientRefused ==
    /\ client.at = "issued" /\ client' = Idle
    /\ UNCHANGED <<suspended, latched, observed, generation, needsStartup, watching, monitor,
                   stopping, grab, grabbed, inForce>>

ClientApply ==
    /\ client.at = "answered"
    /\ _apply_status(client, TRUE)
    /\ client' = Idle
    /\ UNCHANGED <<suspended, generation, needsStartup, watching, monitor, stopping, grab,
                   grabbed, inForce>>

-----------------------------------------------------------------------------
(* The emergency stop: HardwareMasking.restore *)

\* It latches before anything else ...
StopLatch ==
    /\ stopping = "idle" /\ generation < 2 * MaxStops
    /\ stopping' = "latched" /\ latched' = TRUE /\ generation' = generation + 1
    /\ UNCHANGED <<suspended, observed, needsStartup, watching, monitor, client, grab, grabbed,
                   inForce>>

\* ... neutralizes and releases the devices behind a grab that is under way ...
StopRelease ==
    /\ stopping = "latched" /\ ~grab
    /\ stopping' = "released" /\ grabbed' = FALSE /\ inForce' = TRUE
    /\ UNCHANGED <<suspended, latched, observed, generation, needsStartup, watching, monitor,
                   client, grab>>

\* ... asks the coordinator to restore, which writes the suspended file unless it fails ...
StopRecord ==
    /\ stopping = "released"
    /\ stopping' = "recorded" /\ suspended' \in {TRUE, suspended}
    /\ UNCHANGED <<latched, observed, generation, needsStartup, watching, monitor, client, grab,
                   grabbed, inForce>>

\* ... and steps the generation again.
StopEnd ==
    /\ stopping = "recorded"
    /\ stopping' = "idle" /\ generation' = generation + 1
    /\ UNCHANGED <<suspended, latched, observed, needsStartup, watching, monitor, client, grab,
                   grabbed, inForce>>

-----------------------------------------------------------------------------
(* DeviceManager.grab_device *)

\* The check is made, or repeated, with _op_lock held.
GrabStart ==
    /\ ~grab /\ ~masking_suspended /\ grab' = TRUE
    /\ UNCHANGED <<suspended, latched, observed, generation, needsStartup, watching, monitor,
                   client, stopping, grabbed, inForce>>

GrabDone ==
    /\ grab /\ grab' = FALSE /\ grabbed' = TRUE
    /\ UNCHANGED <<suspended, latched, observed, generation, needsStartup, watching, monitor,
                   client, stopping, inForce>>

MonitorTask == MonitorIssue \/ MonitorExecute \/ MonitorApply \/ MonitorFails \/ suspend \/ resume
Client == ClientIssue \/ ClientExecute \/ ClientRefused \/ ClientApply
Stop == StopLatch \/ StopRelease \/ StopRecord \/ StopEnd
Grab == GrabStart \/ GrabDone

AdmissionNext == MonitorTask \/ Client \/ Stop \/ Grab

AdmissionSpec == AdmissionInit /\ [][AdmissionNext]_admissionVars

-----------------------------------------------------------------------------
\* After an emergency stop no device is grabbed until somebody asks for it:
\* answers that were under way when the stop began, or while it ran, do not
\* reopen admission, and neither does a poll.
StopStaysClosed == inForce => ~grabbed
=============================================================================
