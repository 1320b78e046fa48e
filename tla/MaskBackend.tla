---------------------------- MODULE MaskBackend ----------------------------
(***************************************************************************)
(* The privileged transactions on one physical attachment: LinuxMaskBackend *)
(* with its undo records, run as short-lived root jobs.  A job is a list of *)
(* steps; each is one durable effect, so that a job that fails or is killed *)
(* leaves exactly the effects of the steps it took.  The coordinator of the *)
(* daemon appears as the guards of the four jobs.                           *)
(*                                                                          *)
(* All nodes, all bindings and both rule files of the attachment are        *)
(* treated alike.  Verification that only compares names, inodes and names  *)
(* of processes is a choice to fail.                                        *)
(***************************************************************************)
EXTENDS Naturals

CONSTANTS Kinds,         \* the kinds of attachment: subset of {"usb", "deck", "bluetooth"}
          MaxGeneration, \* bound on the times the attachment is connected again
          MaxFaults      \* bound on jobs that fail or are killed

ASSUME BackendAssumption ==
    /\ Kinds # {} /\ Kinds \subseteq {"usb", "deck", "bluetooth"}
    /\ MaxGeneration \in Nat /\ MaxFaults \in Nat

VARIABLES
    kind,         \* transport of the attachment
    present,      \* the hardware is connected
    generation,   \* which connection it is
    driver,       \* "bound", "unbound" by a job, "detached" by a USB client
    port,         \* the USB port: "on" or "off"
    mode,         \* the lizard mode of hid_steam: "user" or "N"
    access,       \* who may open the nodes: "desktop", "reserved", "bare"
    rules,        \* rule files on disk: 0 none, 1 the late one, 2 both
    loaded,       \* udev applies the rules to events
    armed_record, \* armed.json exists
    permissions,  \* permissions.json: "none" or the access it recorded
    journal,      \* journal.json or NoJournal
    selector,     \* selector.json was recorded by a connected activation
    job,          \* the running job or Idle
    wanted,       \* the coordinator wants the mask, or wants access restored
    faults,       \* number of faults so far
    raced         \* a device connected behind the back of a recovery

device  == <<kind, present, generation, driver, port, mode, access>>
records == <<armed_record, permissions, journal, selector>>
vars == <<device, rules, loaded, records, job, wanted, faults, raced>>

NoJournal == [generation |-> 0, mode |-> "", baseline |-> "none", prearmed |-> FALSE,
              port |-> "none", reconnect |-> FALSE, bindings |-> FALSE, exists |-> FALSE, readable |-> TRUE]
Idle == [step |-> "idle", generation |-> 0, keep_rules |-> FALSE, found |-> FALSE,
         bindings |-> FALSE, prearmed |-> FALSE, repair_error |-> FALSE]

usb == kind \in {"usb", "deck"}
armed == rules > 0 \/ armed_record
\* Mutant of needs_recovery: rules without a journal are overlooked.
needs_recovery_journal_only == journal.exists
needs_recovery == journal.exists \/ armed \/ permissions # "none"

\* What an event for the nodes makes of their access.
Policy == IF loaded THEN "reserved" ELSE "desktop"
At(step) == job.step = step
Go(step) == job' = [job EXCEPT !.step = step]
resolve(g) == present /\ generation = g
\* A USB attachment is found again at the same place, a Bluetooth connection is not.
Reached == present /\ (usb \/ generation = job.generation)

\* A job raises, or systemd stops it: what it did so far stays.
Abort ==
    /\ job # Idle /\ faults < MaxFaults
    /\ job' = Idle /\ faults' = faults + 1
    /\ UNCHANGED <<device, rules, loaded, records, wanted, raced>>

\* What a step expects is no longer there.
Raise ==
    /\ \/ job.step \in {"snapshot", "unbind", "bind", "portrecord", "verify"}
          /\ ~resolve(job.generation)
       \/ At("snapshot") /\ driver # "bound" /\ ~usb
       \/ At("trigger") /\ ~Reached
       \/ At("return")
    /\ job' = Idle
    /\ UNCHANGED <<device, rules, loaded, records, wanted, faults, raced>>

----------------------------------------------------------------------------
(* The activation of a mask, and its preparation for hardware that is not there. *)

StartActivate ==
    /\ job = Idle /\ wanted = "mask" /\ ~journal.exists /\ present
    /\ job' = [Idle EXCEPT !.step = "snapshot", !.generation = generation]
    /\ selector' = TRUE
    /\ UNCHANGED <<device, rules, loaded, armed_record, permissions, journal, wanted, faults, raced>>

\* The journal is written before anything is changed.
snapshot ==
    /\ At("snapshot") /\ resolve(job.generation) /\ (driver = "bound" \/ usb)
    /\ journal' = [generation |-> generation, mode |-> IF kind = "deck" THEN mode ELSE "",
                   baseline |-> access, prearmed |-> armed, port |-> "none", reconnect |-> FALSE,
                   bindings |-> driver = "bound", exists |-> TRUE, readable |-> TRUE]
    /\ Go("capture")
    /\ UNCHANGED <<device, rules, loaded, armed_record, permissions, selector, wanted, faults, raced>>

StartArm ==
    /\ job = Idle /\ wanted = "mask" /\ usb /\ ~journal.exists /\ ~armed /\ selector
    /\ job' = [Idle EXCEPT !.step = "capture", !.keep_rules = TRUE]
    /\ UNCHANGED <<device, rules, loaded, records, wanted, faults, raced>>

\* Mutant of capture: rules that are installed already are not looked at.
capture_under_rules ==
    /\ At("capture")
    /\ permissions' = IF present /\ permissions = "none" THEN access ELSE permissions
    /\ Go("record")
    /\ UNCHANGED <<device, rules, loaded, armed_record, journal, selector, wanted, faults, raced>>

\* Permissions are captured once, before the first rule is installed.
capture ==
    /\ At("capture")
    /\ permissions' = IF ~armed /\ present /\ permissions = "none" THEN access ELSE permissions
    /\ Go("record")
    /\ UNCHANGED <<device, rules, loaded, armed_record, journal, selector, wanted, faults, raced>>

install_rules ==
    \/ /\ At("record") /\ armed_record' = TRUE /\ Go("late")
       /\ UNCHANGED <<device, rules, loaded, permissions, journal, selector, wanted, faults, raced>>
    \/ /\ At("late") /\ rules' = 1 /\ Go("early")
       /\ UNCHANGED <<device, loaded, records, wanted, faults, raced>>
    \/ /\ At("early") /\ rules' = 2 /\ Go("reload")
       /\ UNCHANGED <<device, loaded, records, wanted, faults, raced>>
    \/ /\ At("reload") /\ loaded' = TRUE
       /\ IF job.keep_rules THEN job' = Idle ELSE Go("trigger")
       /\ UNCHANGED <<device, rules, records, wanted, faults, raced>>

\* A client that keeps the device open, or has detached its driver, is cut off by
\* disconnecting the port.
trigger ==
    /\ At("trigger") /\ Reached
    /\ access' = Policy
    /\ \/ usb /\ Go("portrecord")
       \/ journal.bindings /\ Go("unbind")
    /\ UNCHANGED <<kind, present, generation, driver, port, mode, rules, loaded, records, wanted,
                   faults, raced>>

rebind_binding ==
    \/ /\ At("unbind") /\ resolve(job.generation) /\ driver' = "unbound" /\ Go("bind")
       /\ UNCHANGED access
    \/ /\ At("bind") /\ resolve(job.generation) /\ driver' = "bound" /\ access' = Policy
       /\ Go("mode")

Rebind ==
    /\ rebind_binding
    /\ UNCHANGED <<kind, present, generation, port, mode, rules, loaded, records, wanted, faults,
                   raced>>

\* Mutant of reconnect: the port is disabled before the journal says so.
reconnect_unrecorded ==
    \/ /\ At("portrecord") /\ resolve(job.generation)
       /\ port' = "off" /\ present' = FALSE /\ driver' = "bound" /\ access' = "desktop"
       /\ Go("disable") /\ UNCHANGED journal
    \/ /\ At("disable") /\ journal' = [journal EXCEPT !.port = "disabled", !.reconnect = TRUE]
       /\ Go("enable") /\ UNCHANGED <<port, present, driver, access>>

reconnect ==
    \/ /\ At("portrecord") /\ resolve(job.generation)
       /\ journal' = [journal EXCEPT !.port = "disabled", !.reconnect = TRUE]
       /\ Go("disable") /\ UNCHANGED <<port, present, driver, access>>
    \/ /\ At("disable") /\ resolve(job.generation)
       /\ port' = "off" /\ present' = FALSE /\ driver' = "bound" /\ access' = "desktop"
       /\ Go("enable") /\ UNCHANGED journal
    \/ /\ At("disable") /\ ~resolve(job.generation) \* the port is enabled all the same
       /\ Go("enable") /\ UNCHANGED <<port, present, driver, access, journal>>
    \/ /\ At("enable") /\ port' = "on" /\ Go("enabled") /\ UNCHANGED <<present, driver, access, journal>>
    \/ /\ At("enabled") /\ journal' = [journal EXCEPT !.port = "enabled"]
       /\ Go("return") /\ UNCHANGED <<port, present, driver, access>>
    \/ /\ At("return") /\ present /\ generation # job.generation /\ driver = "bound"
       /\ journal' = [journal EXCEPT !.generation = generation, !.bindings = TRUE]
       /\ job' = [job EXCEPT !.step = "mode", !.generation = generation]
       /\ UNCHANGED <<port, present, driver, access>>

Reconnect ==
    /\ reconnect
    /\ UNCHANGED <<kind, generation, mode, rules, loaded, armed_record, permissions,
                   selector, wanted, faults, raced>>

activate ==
    /\ \/ /\ At("mode") /\ Go("verify")
          /\ mode' = IF kind = "deck" THEN "N" ELSE mode
          /\ UNCHANGED access
       \/ /\ At("verify") /\ resolve(job.generation) /\ job' = Idle
          /\ access' = Policy /\ UNCHANGED mode
    /\ UNCHANGED <<kind, present, generation, driver, port, rules, loaded, records, wanted, faults,
                   raced>>

\* Nodes that appeared under the rules are adopted; the rules see them again.
refresh_interfaces ==
    /\ job = Idle /\ wanted = "mask" /\ armed /\ journal.exists /\ resolve(journal.generation)
    /\ access' = Policy
    /\ UNCHANGED <<kind, present, generation, driver, port, mode, rules, loaded, records, job,
                   wanted, faults, raced>>

----------------------------------------------------------------------------
(* Recovery: reads the records, undoes, and forgets them last. *)

StartRecover ==
    /\ job = Idle /\ needs_recovery
    /\ \/ wanted = "restore" /\ job' = [Idle EXCEPT !.step = "read"]
       \/ wanted = "mask" /\ usb /\ journal.exists
          /\ job' = [Idle EXCEPT !.step = "read", !.keep_rules = TRUE]
    /\ UNCHANGED <<device, rules, loaded, records, wanted, faults, raced>>

\* The journal can no longer be parsed.
Damage ==
    /\ job = Idle /\ journal.exists /\ journal.readable /\ faults < MaxFaults
    /\ journal' = [journal EXCEPT !.readable = FALSE] /\ faults' = faults + 1
    /\ UNCHANGED <<device, rules, loaded, armed_record, permissions, selector, job, wanted, raced>>

\* Without a journal the intent to recover is written down first.
ReadRecords ==
    /\ At("read")
    /\ IF journal.exists /\ ~journal.readable THEN Go("unlinkearly") /\ UNCHANGED journal
       ELSE IF journal.exists THEN Go("port") /\ UNCHANGED journal
       ELSE IF job.keep_rules THEN job' = Idle /\ UNCHANGED journal
       ELSE IF permissions = "none" /\ ~armed_record THEN Go("unlinkearly") /\ UNCHANGED journal
       ELSE /\ journal' = [NoJournal EXCEPT !.prearmed = TRUE, !.exists = TRUE]
            /\ Go("port")
    /\ UNCHANGED <<device, rules, loaded, armed_record, permissions, selector, wanted, faults, raced>>

enable_recorded_port ==
    \/ /\ At("port") /\ journal.port # "disabled" /\ Go("resolve") /\ UNCHANGED <<port, journal>>
    \/ /\ At("port") /\ journal.port = "disabled" /\ port' = "on" /\ Go("ported")
       /\ UNCHANGED journal
    \/ /\ At("ported") /\ journal' = [journal EXCEPT !.port = "enabled"] /\ Go("resolve")
       /\ UNCHANGED port

EnablePort ==
    /\ enable_recorded_port
    /\ UNCHANGED <<kind, present, generation, driver, mode, access, rules, loaded, armed_record,
                   permissions, selector, wanted, faults, raced>>

\* The old connection's bindings are never applied to a replacement, but after a
\* reconnection the current ones are repaired.
FindAttachment ==
    /\ At("resolve")
    /\ LET same == resolve(journal.generation)
           other == present /\ usb /\ ~same
       IN job' = [job EXCEPT !.step = "repair", !.generation = generation,
                             !.found = same \/ other,
                             !.bindings = \/ same /\ journal.bindings
                                          \/ other /\ journal.reconnect /\ driver = "bound",
                             !.prearmed = journal.prearmed \/ other,
                             !.repair_error = other /\ journal.reconnect /\ driver # "bound"]
    /\ UNCHANGED <<device, rules, loaded, records, wanted, faults, raced>>

\* A Deck's drivers are always bound anew, others only when they are missing.
RepairDriver ==
    /\ At("repair")
    /\ \/ /\ ~job.bindings /\ Go("unmode") /\ UNCHANGED <<driver, access, faults>>
       \/ /\ job.bindings /\ resolve(job.generation) /\ journal.mode # "" /\ driver # "unbound"
          /\ driver' = "unbound" /\ UNCHANGED <<access, job, faults>>
       \/ /\ job.bindings /\ resolve(job.generation) /\ (journal.mode = "" \/ driver = "unbound")
          /\ driver' = "bound" /\ access' = (IF driver = "bound" THEN access ELSE Policy)
          /\ Go("unmode") /\ UNCHANGED faults
       \/ /\ job.bindings /\ (resolve(job.generation) => faults < MaxFaults)
          /\ faults' = IF resolve(job.generation) THEN faults + 1 ELSE faults
          /\ job' = [job EXCEPT !.step = "unmode", !.repair_error = TRUE]
          /\ UNCHANGED <<driver, access>>
    /\ UNCHANGED <<kind, present, generation, port, mode, rules, loaded, records, wanted, raced>>

RepairMode ==
    /\ At("unmode")
    /\ mode' = IF journal.mode = "" THEN mode ELSE journal.mode
    /\ Go(IF job.keep_rules THEN "check" ELSE "unlinkearly")
    /\ UNCHANGED <<kind, present, generation, driver, port, access, rules, loaded, records, wanted,
                   faults, raced>>

remove_rules ==
    \/ /\ At("unlinkearly") /\ rules' = (IF rules = 2 THEN 1 ELSE rules) /\ Go("unlinklate")
       /\ UNCHANGED <<loaded, armed_record>>
    \/ /\ At("unlinklate") /\ rules' = 0 /\ Go("unload") /\ UNCHANGED <<loaded, armed_record>>
    \/ /\ At("unload") /\ loaded' = FALSE /\ Go("unrecord") /\ UNCHANGED <<rules, armed_record>>
    \/ /\ At("unrecord") /\ journal.readable /\ armed_record' = FALSE
       /\ IF ~journal.exists THEN job' = Idle
          ELSE Go(IF job.found THEN "restore" ELSE "check")
       /\ UNCHANGED <<rules, loaded>>

\* A damaged journal is kept with all records: access is restored from the independent
\* ones, and the recovery counts as failed.
recover_damaged_journal ==
    /\ At("unrecord") /\ ~journal.readable
    /\ LET found == present /\ (usb \/ generation = journal.generation)
       IN job' = [job EXCEPT !.step = IF found THEN "restore" ELSE "check", !.found = found,
                             !.generation = generation, !.repair_error = TRUE]
    /\ UNCHANGED <<rules, loaded, armed_record>>

RemoveRules ==
    /\ remove_rules \/ recover_damaged_journal
    /\ UNCHANGED <<device, permissions, journal, selector, wanted, faults, raced>>

\* The captured baseline first, then the rules and logind decide.
restore ==
    /\ At("restore")
    /\ access' = IF ~Reached THEN access
                 ELSE IF permissions # "none" THEN permissions
                 ELSE IF ~journal.readable THEN access
                 ELSE IF job.prearmed THEN "bare" ELSE journal.baseline
    /\ Go("add")
    /\ UNCHANGED <<kind, present, generation, driver, port, mode, rules, loaded, records, wanted,
                   faults, raced>>

RestorePolicy ==
    /\ At("add")
    /\ access' = IF Reached THEN Policy ELSE access
    /\ Go("check")
    /\ UNCHANGED <<kind, present, generation, driver, port, mode, rules, loaded, records, wanted,
                   faults, raced>>

\* Records are dropped only if nothing failed.
Forget ==
    /\ \/ At("check") /\ job.repair_error /\ job' = Idle /\ UNCHANGED <<journal, permissions>>
       \/ /\ At("check") /\ ~job.repair_error
          /\ journal' = NoJournal /\ UNCHANGED permissions
          /\ IF job.keep_rules THEN job' = Idle ELSE Go("unpermit")
       \/ At("unpermit") /\ permissions' = "none" /\ job' = Idle /\ UNCHANGED journal
    /\ UNCHANGED <<device, rules, loaded, armed_record, selector, wanted, faults, raced>>

recover == ReadRecords \/ EnablePort \/ FindAttachment \/ RepairDriver \/ RepairMode
           \/ RemoveRules \/ restore \/ RestorePolicy \/ Forget

----------------------------------------------------------------------------
(* The hardware and the user. *)

\* A Bluetooth connection has a kernel name of its own, which the rules do not match.
Connect ==
    /\ ~present /\ port = "on" /\ generation < MaxGeneration
    /\ present' = TRUE /\ generation' = generation + 1
    /\ driver' = "bound" /\ access' = (IF usb THEN Policy ELSE "desktop")
    /\ raced' = (raced \/ (loaded /\ usb /\ ~job.found
                           /\ job.step \in {"repair", "unmode", "unlinkearly", "unlinklate",
                                            "unload"}))
    /\ UNCHANGED <<kind, port, mode, rules, loaded, records, job, wanted, faults>>

Disconnect ==
    /\ present
    /\ present' = FALSE /\ driver' = "bound" /\ access' = "desktop"
    /\ UNCHANGED <<kind, generation, port, mode, rules, loaded, records, job, wanted, faults, raced>>

\* An application that talks to the USB device directly.
Detach ==
    /\ present /\ usb /\ driver = "bound" /\ access = "desktop"
    /\ driver' = "detached"
    /\ UNCHANGED <<kind, present, generation, port, mode, access, rules, loaded, records, job,
                   wanted, faults, raced>>

Want(w) ==
    /\ wanted # w /\ wanted' = w
    /\ w = "mask" => ~journal.exists /\ job = Idle
    /\ UNCHANGED <<device, rules, loaded, records, job, faults, raced>>

----------------------------------------------------------------------------
Init ==
    /\ kind \in Kinds
    /\ present \in BOOLEAN /\ generation = 1
    /\ driver = "bound" /\ port = "on" /\ mode = "user" /\ access = "desktop"
    /\ rules = 0 /\ loaded = FALSE /\ armed_record = FALSE
    /\ permissions = "none" /\ journal = NoJournal /\ selector \in BOOLEAN
    /\ job = Idle /\ wanted = "mask" /\ faults = 0 /\ raced = FALSE

Progress == snapshot \/ capture \/ install_rules \/ trigger \/ Rebind \/ Reconnect \/ activate
            \/ recover

Next == StartActivate \/ StartArm \/ refresh_interfaces \/ StartRecover \/ Progress \/ Abort \/ Raise \/ Damage
        \/ Connect \/ Disconnect \/ Detach \/ Want("mask") \/ Want("restore")

\* A running job goes on or raises, and the daemon retries a recovery that failed for
\* as long as something is recorded.
Spec == /\ Init /\ [][Next]_vars
        /\ WF_vars(Progress) /\ WF_vars(Raise) /\ WF_vars(StartRecover)

----------------------------------------------------------------------------
(* Properties. *)

\* What a mask changes, and what the records allow to undo.
Changed ==
    {a \in {"access", "port", "driver", "mode"} :
        \/ a = "access" /\ (rules > 0 \/ loaded \/ (access # "desktop" /\ ~raced))
        \/ a = "port" /\ port = "off"
        \/ a = "driver" /\ driver = "unbound"
        \/ a = "mode" /\ mode # "user"}

Recorded ==
    {a \in {"access", "port", "driver", "mode"} :
        \/ a = "access" /\ (journal.exists \/ armed_record \/ permissions # "none")
        \/ a = "port" /\ journal.port = "disabled"
        \/ a = "driver" /\ (journal.bindings \/ journal.reconnect)
        \/ a = "mode" /\ journal.mode = "user"}

Log == INSTANCE UndoLog WITH Aspects <- {"access", "port", "driver", "mode"},
                             recorded <- Recorded, changed <- Changed

\* The jobs implement the undo log: every effect on the hardware is recorded first and
\* its record outlives it, although any job may be cut short between any two effects.
KeepsUndoLog == Log!Spec

\* The permissions that a recovery puts back are never the ones the mask had set.
BaselineIsOriginal == raced \/ permissions \in {"none", "desktop"}

\* Once access is to be restored it is, whatever failed before, unless the user asks for
\* the mask again.  A device that connects between the lookup of a recovery and the
\* removal of the rules (raced) is the exception: nothing triggers its nodes again.
AccessReturns ==
    wanted = "restore" ~> \/ wanted = "mask" \/ raced
                          \/ rules = 0 /\ ~loaded /\ (port = "on" \/ ~journal.readable)
                             /\ (present => access = "desktop")
=============================================================================
