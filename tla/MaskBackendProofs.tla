------------------------- MODULE MaskBackendProofs -------------------------
(***************************************************************************)
(* The privileged jobs implement the undo log, for every kind of           *)
(* attachment and any number of reconnections and faults.                  *)
(***************************************************************************)
EXTENDS MaskBackend, TLAPS

Arming == {"capture", "record", "late", "early", "reload"}
Masking == {"trigger", "unbind", "bind", "portrecord", "disable", "enable", "enabled", "return", "mode",
            "verify"}
Removing == {"unlinkearly", "unlinklate", "unload", "unrecord"}
Restoring == {"restore", "add", "check"}
Undoing == {"read", "port", "ported", "resolve", "repair", "unmode", "unpermit"} \cup Removing \cup Restoring

Journals == [generation : Nat, mode : {"", "user"}, baseline : {"none", "desktop", "reserved", "bare"},
             prearmed : BOOLEAN, port : {"none", "disabled", "enabled"}, reconnect : BOOLEAN,
             bindings : BOOLEAN, exists : BOOLEAN, readable : BOOLEAN]
Tasks == [step : {"idle", "snapshot"} \cup Arming \cup Masking \cup Undoing, generation : Nat,
          keep_rules : BOOLEAN, found : BOOLEAN, bindings : BOOLEAN, prearmed : BOOLEAN,
          repair_error : BOOLEAN]

TypeOK ==
    /\ kind \in {"usb", "deck", "bluetooth"} /\ present \in BOOLEAN /\ generation \in Nat \ {0}
    /\ driver \in {"bound", "unbound", "detached"} /\ port \in {"on", "off"} /\ mode \in {"user", "N"}
    /\ access \in {"desktop", "reserved", "bare"} /\ rules \in 0..2
    /\ loaded \in BOOLEAN /\ armed_record \in BOOLEAN
    /\ permissions \in {"none", "desktop", "reserved", "bare"}
    /\ journal \in Journals /\ selector \in BOOLEAN /\ job \in Tasks
    /\ wanted \in {"mask", "restore"} /\ faults \in Nat /\ raced \in BOOLEAN

\* The driver of this connection is named in the journal.
DriverNamed ==
    IF generation = journal.generation THEN journal.bindings ELSE usb /\ journal.reconnect

\* What the hardware shows of a mask is in the records.
DeviceInv ==
    /\ ~present => driver = "bound" /\ access = "desktop"
    /\ mode # "user" => journal.mode = "user"
    /\ port = "off" => journal.port = "disabled"
    /\ rules > 0 \/ loaded => armed_record
    /\ driver = "unbound" => DriverNamed
    /\ raced => usb
    /\ ~usb /\ access # "desktop" => generation = journal.generation
    /\ access # "desktop" /\ ~raced
         => \/ loaded \/ ~journal.readable
            \/ /\ journal.exists /\ wanted = "restore"
               /\ job.step = "idle" \/ (job.step \in Undoing /\ ~job.keep_rules)

JournalInv ==
    /\ ~journal.exists => journal = NoJournal
    /\ journal.generation <= generation
    /\ journal.exists /\ ~journal.prearmed => journal.baseline # "none"

\* An activation goes on with the journal that its snapshot wrote.
MaskInv ==
    /\ job.step = "idle" => job = Idle
    /\ job.keep_rules => usb
    /\ job.step = "snapshot" => ~journal.exists /\ ~job.keep_rules
    /\ job.step \in Arming /\ job.keep_rules => ~journal.exists
    /\ (job.step \in Arming /\ ~job.keep_rules) \/ job.step \in Masking
         => /\ journal.exists /\ job.generation = journal.generation
            /\ journal.readable /\ (kind = "deck" => journal.mode = "user")
    /\ job.step \in {"late", "early", "reload"} => armed_record
    /\ job.step \in Masking => loaded /\ ~job.keep_rules
    /\ job.step \in {"snapshot", "trigger", "unbind", "portrecord", "disable"} \cup Arming
         => driver # "unbound"
    /\ job.step \in {"unbind", "bind"} => journal.bindings
    /\ job.step = "disable" => journal.port = "disabled"
    /\ job.step = "enabled" => port = "on"

\* A recovery forgets only what it has put back.
UndoInv ==
    /\ job.step \in Undoing /\ ~job.keep_rules => wanted = "restore"
    /\ job.step \in {"port", "ported", "resolve", "repair", "unmode"} => journal.exists /\ journal.readable
    /\ job.step \in Restoring => journal.exists /\ (~journal.readable => job.repair_error)
    /\ job.step \in Removing \cup {"restore", "add"} /\ journal.readable => ~job.keep_rules
    /\ job.step = "unpermit" => ~job.keep_rules
    /\ job.step \in Removing /\ ~journal.exists => ~armed_record /\ permissions = "none"
    /\ job.step = "ported" => port = "on"
    /\ job.step \in {"resolve", "repair", "unmode"} \cup Removing \cup Restoring /\ journal.readable
         => port = "on"
    /\ job.step = "repair" => /\ job.bindings /\ generation = job.generation => DriverNamed
                              /\ ~job.bindings /\ ~job.repair_error => driver # "unbound"
                              /\ job.bindings => job.found
                              /\ job.generation <= generation
    /\ job.step \in {"unmode"} \cup Removing \cup Restoring /\ journal.readable /\ ~job.repair_error
         => driver # "unbound"
    /\ job.step \in Removing \cup Restoring /\ journal.readable => mode = "user"
    /\ job.step = "unload" => rules = 0
    /\ job.step \in {"unrecord", "restore", "add", "unpermit"} => rules = 0 /\ ~loaded
    /\ job.step = "check" /\ ~job.keep_rules => rules = 0 /\ ~loaded
    /\ job.step \in Restoring /\ ~job.keep_rules /\ journal.readable => ~armed_record
    /\ job.step = "read" => ~job.found
    /\ job.step \in {"repair", "unmode"} \cup Removing \cup Restoring /\ job.found /\ ~usb
         => job.generation = journal.generation
    /\ job.step \in {"repair", "unmode"} \cup Removing /\ journal.exists /\ journal.readable /\ ~job.found
         => access = "desktop" \/ raced
    /\ job.step \in {"repair", "unmode", "restore"} \cup Removing /\ journal.exists /\ journal.readable
         => job.prearmed \/ journal.baseline # "none"
    /\ job.step \in {"restore", "add"} => job.found
    /\ job.step = "check" /\ ~job.keep_rules /\ journal.readable => access = "desktop" \/ raced
    /\ job.step = "unpermit" => ~armed_record /\ ~journal.exists /\ (access = "desktop" \/ raced)

Inv == DeviceInv /\ JournalInv /\ MaskInv /\ UndoInv /\ BaselineIsOriginal

-----------------------------------------------------------------------------
Steps == {"idle", "snapshot"} \cup Arming \cup Masking \cup Undoing

\* The four things that a step may do to the undo log.
Undoes == Recorded' = Recorded /\ Changed' \subseteq Changed
Modifies == Recorded' = Recorded /\ Changed \subseteq Changed' /\ Changed' \subseteq Recorded
Notes == Changed' = Changed /\ Recorded \subseteq Recorded'
Forgets == Changed' = Changed /\ Recorded' \subseteq Recorded /\ Changed \subseteq Recorded'
LogStep == Undoes \/ Modifies \/ Notes \/ Forgets

\* A job goes on and keeps what it carries.
Goes(from, to) ==
    /\ job.step = from /\ job'.step = to /\ job' \in Tasks
    /\ job'.keep_rules = job.keep_rules /\ job'.generation = job.generation /\ job'.found = job.found
    /\ job'.bindings = job.bindings /\ job'.prearmed = job.prearmed
    /\ job'.repair_error = job.repair_error

\* Go is how jobs go on.
LEMMA GoCarries ==
    ASSUME job \in Tasks, NEW step \in Steps, Go(step)
    PROVE  Goes(job.step, step)
BY DEF Go, Goes, Tasks, Steps

\* A job that ends carries nothing.
LEMMA IdleCarries ==
    /\ Idle \in Tasks /\ Idle.step = "idle" /\ Idle.generation = 0 /\ ~Idle.keep_rules /\ ~Idle.found
    /\ ~Idle.bindings /\ ~Idle.prearmed /\ ~Idle.repair_error
BY DEF Idle, Tasks

\* The absent journal records nothing.
LEMMA NoJournalCarries ==
    /\ NoJournal \in Journals /\ NoJournal.generation = 0 /\ NoJournal.mode = "" /\ NoJournal.port = "none"
    /\ ~NoJournal.reconnect /\ ~NoJournal.bindings /\ ~NoJournal.exists /\ NoJournal.readable
BY DEF NoJournal, Journals

\* A note about the port changes nothing else in the journal.
LEMMA DisabledCarries ==
    ASSUME journal \in Journals, journal' = [journal EXCEPT !.port = "disabled", !.reconnect = TRUE]
    PROVE  /\ journal' \in Journals /\ journal'.port = "disabled" /\ journal'.reconnect
           /\ journal'.generation = journal.generation /\ journal'.mode = journal.mode
           /\ journal'.bindings = journal.bindings /\ journal'.baseline = journal.baseline
           /\ journal'.prearmed = journal.prearmed /\ journal'.exists = journal.exists
           /\ journal'.readable = journal.readable
BY DEF Journals

\* So does the note that it is enabled.
LEMMA EnabledCarries ==
    ASSUME journal \in Journals, journal' = [journal EXCEPT !.port = "enabled"]
    PROVE  /\ journal' \in Journals /\ journal'.port = "enabled" /\ journal'.reconnect = journal.reconnect
           /\ journal'.generation = journal.generation /\ journal'.mode = journal.mode
           /\ journal'.bindings = journal.bindings /\ journal'.baseline = journal.baseline
           /\ journal'.prearmed = journal.prearmed /\ journal'.exists = journal.exists
           /\ journal'.readable = journal.readable
BY DEF Journals

\* A recovery starts with nothing found.
LEMMA RecoveryCarries ==
    ASSUME NEW b \in BOOLEAN, job' = [Idle EXCEPT !.step = "read", !.keep_rules = b]
    PROVE  job' \in Tasks /\ job'.step = "read" /\ job'.keep_rules = b /\ ~job'.found
BY DEF Idle, Tasks, Undoing

\* The intent to recover names no connection.
LEMMA IntentCarries ==
    ASSUME journal' = [NoJournal EXCEPT !.prearmed = TRUE, !.exists = TRUE]
    PROVE  /\ journal' \in Journals /\ journal'.generation = 0 /\ journal'.mode = "" /\ journal'.port = "none"
           /\ ~journal'.reconnect /\ ~journal'.bindings /\ journal'.exists /\ journal'.readable
           /\ journal'.prearmed
BY DEF NoJournal, Journals

\* Whatever a mask has changed is recorded.
LEMMA AllRecorded == ASSUME TypeOK, Inv PROVE Changed \subseteq Recorded
<1>1. rules > 0 \/ loaded \/ (access # "desktop" /\ ~raced) => journal.exists \/ armed_record
  BY NoJournalCarries DEF Inv, DeviceInv, JournalInv
<1>2. port = "off" => journal.port = "disabled"  BY DEF Inv, DeviceInv
<1>3. driver = "unbound" => journal.bindings \/ journal.reconnect  BY DEF Inv, DeviceInv, DriverNamed
<1>4. mode # "user" => journal.mode = "user"  BY DEF Inv, DeviceInv
<1>5. QED  BY <1>1, <1>2, <1>3, <1>4 DEF Changed, Recorded

\* A step of one of the four kinds is a step of the undo log.
LEMMA LogSteps == ASSUME LogStep PROVE [Log!Next]_(Log!vars)
<1>0. /\ Changed \subseteq {"access", "port", "driver", "mode"}
      /\ Recorded \subseteq {"access", "port", "driver", "mode"}
  BY DEF Changed, Recorded
<1>00. /\ Changed' \subseteq {"access", "port", "driver", "mode"}
       /\ Recorded' \subseteq {"access", "port", "driver", "mode"}
  BY DEF Changed, Recorded
<1>1. CASE Undoes
  <2>1. Log!Undo(Changed \ Changed')  BY <1>1 DEF Undoes, Log!Undo
  <2>2. Changed \ Changed' \in SUBSET {"access", "port", "driver", "mode"}  BY <1>0
  <2>3. QED  BY <2>1, <2>2 DEF Log!Next
<1>2. CASE Modifies
  <2>1. Log!Modify(Changed')  BY <1>2 DEF Modifies, Log!Modify
  <2>2. QED  BY <1>00, <2>1 DEF Log!Next
<1>3. CASE Notes
  <2>1. Log!Note(Recorded')  BY <1>3 DEF Notes, Log!Note
  <2>2. QED  BY <1>00, <2>1 DEF Log!Next
<1>4. CASE Forgets
  <2>1. Log!Forget(Recorded \ Recorded')  BY <1>4 DEF Forgets, Log!Forget
  <2>2. Recorded \ Recorded' \in SUBSET {"access", "port", "driver", "mode"}  BY <1>0
  <2>3. QED  BY <2>1, <2>2 DEF Log!Next
<1>5. QED  BY <1>1, <1>2, <1>3, <1>4 DEF LogStep

\* A job that ends, or is cut short, leaves what it has done.
LEMMA EndKeeps ==
    ASSUME TypeOK, Inv, job' = Idle, faults' \in Nat, UNCHANGED <<device, rules, loaded, records,
                                                                  wanted, raced>>
    PROVE  TypeOK' /\ Inv' /\ LogStep
<1>1. job'.step = "idle" /\ job' \in Tasks /\ ~job'.keep_rules
  BY IdleCarries
<1> USE <1>1 DEF Goes, Inv, device, records, usb, Arming, Masking, Undoing, Removing, Restoring
<1>2. TypeOK'  BY DEF TypeOK
<1>3. DeviceInv'  BY DEF DeviceInv, DriverNamed, MaskInv, UndoInv
<1>4. JournalInv'  BY DEF JournalInv
<1>5. MaskInv'  BY DEF MaskInv
<1>6. UndoInv'  BY DEF UndoInv
<1>7. BaselineIsOriginal'  BY DEF BaselineIsOriginal
<1>8. Undoes  BY DEF Undoes, Changed, Recorded
<1>9. QED  BY <1>2, <1>3, <1>4, <1>5, <1>6, <1>7, <1>8 DEF LogStep

\* What is captured before the first rule is what the desktop set up.
LEMMA CaptureKeeps ==
    ASSUME TypeOK, Inv, capture
    PROVE  TypeOK' /\ Inv' /\ LogStep
<1>1. Goes("capture", "record")
  BY GoCarries DEF capture, Goes, At, TypeOK, Steps, Arming, Masking, Undoing, Removing, Restoring
<1> USE <1>1 DEF capture, Goes, Inv, device, records, usb, Arming, Masking, Undoing, Removing, Restoring
<1>2. TypeOK'  BY DEF TypeOK
<1>3. DeviceInv'  BY DEF DeviceInv, DriverNamed
<1>4. JournalInv'  BY DEF JournalInv
<1>5. MaskInv'  BY DEF MaskInv
<1>6. UndoInv'  BY DEF UndoInv
<1>7. BaselineIsOriginal'  BY NoJournalCarries DEF BaselineIsOriginal, DeviceInv, MaskInv, JournalInv,
      armed
<1>8. Notes  BY DEF Notes, Changed, Recorded
<1>9. QED  BY <1>2, <1>3, <1>4, <1>5, <1>6, <1>7, <1>8 DEF LogStep

\* An activation starts without a journal, so nothing is changed.
LEMMA StartActivateKeeps ==
    ASSUME TypeOK, Inv, StartActivate
    PROVE  TypeOK' /\ Inv' /\ LogStep
<1>1. job = Idle /\ ~journal.exists /\ job'.step = "snapshot" /\ job' \in Tasks /\ ~job'.keep_rules
  BY IdleCarries DEF StartActivate, Idle, Tasks, TypeOK
<1> USE <1>1 DEF StartActivate, Goes, Inv, device, records, usb, Arming, Masking, Undoing, Removing,
      Restoring
<1>2. TypeOK'  BY DEF TypeOK
<1>3. DeviceInv'  BY NoJournalCarries DEF DeviceInv, DriverNamed, MaskInv, JournalInv, TypeOK
<1>4. JournalInv'  BY DEF JournalInv
<1>5. MaskInv'  BY NoJournalCarries DEF MaskInv, DeviceInv, DriverNamed, JournalInv, TypeOK
<1>6. UndoInv'  BY DEF UndoInv
<1>7. BaselineIsOriginal'  BY DEF BaselineIsOriginal
<1>8. Undoes  BY DEF Undoes, Changed, Recorded
<1>9. QED  BY <1>2, <1>3, <1>4, <1>5, <1>6, <1>7, <1>8 DEF LogStep

\* The snapshot names the connection, its mode and its driver before they change.
LEMMA SnapshotKeeps ==
    ASSUME TypeOK, Inv, snapshot
    PROVE  TypeOK' /\ Inv' /\ LogStep
<1>0. /\ Goes("snapshot", "capture")
  BY GoCarries DEF snapshot, Goes, At, TypeOK, Steps, Arming, Masking, Undoing, Removing, Restoring
<1>a. mode = "user" /\ port = "on" /\ driver # "unbound"
  BY <1>0, NoJournalCarries DEF Goes, Inv, DeviceInv, DriverNamed, JournalInv, MaskInv, TypeOK
<1>1. /\ Goes("snapshot", "capture")
      /\ journal' \in Journals /\ journal'.exists /\ journal'.readable /\ journal'.generation = generation
      /\ journal'.mode = (IF kind = "deck" THEN mode ELSE "") /\ journal'.baseline # "none"
      /\ mode = "user" /\ port = "on" /\ driver # "unbound"
      /\ generation \in Nat /\ job.generation = generation /\ ~job.keep_rules
      /\ UNCHANGED <<device, rules, loaded, armed_record, permissions, selector, wanted, faults, raced>>
  <2> DEFINE bound == driver = "bound"
             saved_mode == IF kind = "deck" THEN mode ELSE ""
  <2>1. armed \in BOOLEAN /\ bound \in BOOLEAN /\ saved_mode \in {"", "user"}  BY <1>a DEF armed
  <2>2. journal' = [generation |-> generation, mode |-> saved_mode, baseline |-> access, prearmed |-> armed,
                    port |-> "none", reconnect |-> FALSE, bindings |-> bound, exists |-> TRUE,
                    readable |-> TRUE]
    BY DEF snapshot
  <2>3. access \in {"desktop", "reserved", "bare"} /\ generation \in Nat  BY DEF TypeOK
  <2> HIDE DEF bound, saved_mode
  <2>4. /\ journal' \in Journals /\ journal'.exists /\ journal'.readable /\ journal'.generation = generation
        /\ journal'.mode = saved_mode /\ journal'.baseline = access
    BY <2>1, <2>2, <2>3 DEF Journals
  <2>5. QED  BY <1>0, <1>a, <2>3, <2>4 DEF Goes, saved_mode, snapshot, resolve, Inv, MaskInv
<1> USE <1>1 DEF Goes, Inv, device, records, usb, Arming, Masking, Undoing, Removing, Restoring
<1>2. TypeOK'
  <2>1. /\ job' \in Tasks /\ journal' \in Journals
        /\ UNCHANGED <<device, rules, loaded, armed_record, permissions, selector, wanted, faults,
                       raced>>
    OBVIOUS
  <2>2. QED  BY ONLY TypeOK, <2>1 DEF TypeOK, device, records
<1>3. DeviceInv'  BY NoJournalCarries DEF DeviceInv, DriverNamed, MaskInv, JournalInv, TypeOK
<1>4. JournalInv'
  <2>1. /\ journal'.exists /\ journal'.generation = generation' /\ generation' \in Nat
        /\ journal'.baseline # "none"
    OBVIOUS
  <2>2. QED  BY ONLY <2>1 DEF JournalInv
<1>5. MaskInv'  BY DEF MaskInv
<1>6. UndoInv'  BY DEF UndoInv
<1>7. BaselineIsOriginal'  BY DEF BaselineIsOriginal
<1>8. Notes  BY NoJournalCarries DEF Notes, Changed, Recorded, MaskInv, JournalInv
<1>9. QED  BY <1>2, <1>3, <1>4, <1>5, <1>6, <1>7, <1>8 DEF LogStep

\* Rules are armed ahead of the hardware without a journal.
LEMMA StartArmKeeps ==
    ASSUME TypeOK, Inv, StartArm
    PROVE  TypeOK' /\ Inv' /\ LogStep
<1>1. /\ job = Idle /\ usb /\ ~journal.exists /\ ~armed
      /\ job'.step = "capture" /\ job' \in Tasks /\ job'.keep_rules
  BY IdleCarries DEF StartArm, Idle, Tasks, TypeOK, Arming
<1> USE <1>1 DEF StartArm, armed, Goes, Inv, device, records, usb, Arming, Masking, Undoing, Removing,
      Restoring
<1>2. TypeOK'  BY DEF TypeOK
<1>3. DeviceInv'  BY NoJournalCarries DEF DeviceInv, DriverNamed, MaskInv, JournalInv, TypeOK
<1>4. JournalInv'  BY DEF JournalInv
<1>5. MaskInv'  BY NoJournalCarries DEF MaskInv, DeviceInv, DriverNamed, JournalInv, TypeOK
<1>6. UndoInv'  BY DEF UndoInv
<1>7. BaselineIsOriginal'  BY DEF BaselineIsOriginal
<1>8. Undoes  BY DEF Undoes, Changed, Recorded
<1>9. QED  BY <1>2, <1>3, <1>4, <1>5, <1>6, <1>7, <1>8 DEF LogStep

\* The record of the rules is written before the first of them,
LEMMA Install_record ==
    ASSUME TypeOK, Inv, install_rules, job.step = "record"
    PROVE  TypeOK' /\ Inv' /\ LogStep
<1>1. Goes("record", "late")
  BY GoCarries DEF install_rules, Goes, At, TypeOK, Steps, Arming, Masking, Undoing, Removing, Restoring
<1> USE <1>1 DEF install_rules, At, Goes, Inv, device, records, usb, Arming, Masking, Undoing,
      Removing, Restoring
<1>2. TypeOK'  BY DEF TypeOK
<1>3. DeviceInv'  BY DEF DeviceInv, DriverNamed, MaskInv
<1>4. JournalInv'  BY DEF JournalInv
<1>5. MaskInv'  BY DEF MaskInv
<1>6. UndoInv'  BY DEF UndoInv
<1>7. BaselineIsOriginal'  BY DEF BaselineIsOriginal
<1>8. Notes  BY DEF Notes, Changed, Recorded
<1>9. QED  BY <1>2, <1>3, <1>4, <1>5, <1>6, <1>7, <1>8 DEF LogStep

\* the late rules are installed,
LEMMA Install_late ==
    ASSUME TypeOK, Inv, install_rules, job.step = "late"
    PROVE  TypeOK' /\ Inv' /\ LogStep
<1>1. Goes("late", "early")
  BY GoCarries DEF install_rules, Goes, At, TypeOK, Steps, Arming, Masking, Undoing, Removing, Restoring
<1> USE <1>1 DEF install_rules, At, Goes, Inv, device, records, usb, Arming, Masking, Undoing,
      Removing, Restoring
<1>2. TypeOK'  BY DEF TypeOK
<1>3. DeviceInv'  BY DEF DeviceInv, DriverNamed, MaskInv
<1>4. JournalInv'  BY DEF JournalInv
<1>5. MaskInv'  BY DEF MaskInv
<1>6. UndoInv'  BY DEF UndoInv
<1>7. BaselineIsOriginal'  BY DEF BaselineIsOriginal
<1>8. Modifies  BY AllRecorded DEF Modifies, Changed, Recorded, MaskInv
<1>9. QED  BY <1>2, <1>3, <1>4, <1>5, <1>6, <1>7, <1>8 DEF LogStep

\* then the early ones.
LEMMA Install_early ==
    ASSUME TypeOK, Inv, install_rules, job.step = "early"
    PROVE  TypeOK' /\ Inv' /\ LogStep
<1>1. Goes("early", "reload")
  BY GoCarries DEF install_rules, Goes, At, TypeOK, Steps, Arming, Masking, Undoing, Removing, Restoring
<1> USE <1>1 DEF install_rules, At, Goes, Inv, device, records, usb, Arming, Masking, Undoing,
      Removing, Restoring
<1>2. TypeOK'  BY DEF TypeOK
<1>3. DeviceInv'  BY DEF DeviceInv, DriverNamed, MaskInv
<1>4. JournalInv'  BY DEF JournalInv
<1>5. MaskInv'  BY DEF MaskInv
<1>6. UndoInv'  BY DEF UndoInv
<1>7. BaselineIsOriginal'  BY DEF BaselineIsOriginal
<1>8. Modifies  BY AllRecorded DEF Modifies, Changed, Recorded, MaskInv
<1>9. QED  BY <1>2, <1>3, <1>4, <1>5, <1>6, <1>7, <1>8 DEF LogStep

\* udev loads the rules, and an activation goes on.
LEMMA Install_reload ==
    ASSUME TypeOK, Inv, install_rules, job.step = "reload"
    PROVE  TypeOK' /\ Inv' /\ LogStep
<1>1. /\ loaded' /\ job' \in Tasks
      /\ \/ job' = Idle /\ job'.step = "idle" /\ ~job'.keep_rules
         \/ /\ ~job.keep_rules /\ job'.step = "trigger"
            /\ job'.keep_rules = job.keep_rules /\ job'.generation = job.generation
  BY GoCarries, IdleCarries DEF Goes, install_rules, At, TypeOK, Steps, Arming, Masking
<1> USE <1>1 DEF install_rules, At, Goes, Inv, device, records, usb, Arming, Masking, Undoing,
      Removing, Restoring
<1>2. TypeOK'  BY DEF TypeOK
<1>3. DeviceInv'  BY DEF DeviceInv, DriverNamed, MaskInv
<1>4. JournalInv'  BY DEF JournalInv
<1>5. MaskInv'  BY DEF MaskInv
<1>6. UndoInv'  BY DEF UndoInv
<1>7. BaselineIsOriginal'  BY DEF BaselineIsOriginal
<1>8. Modifies  BY AllRecorded DEF Modifies, Changed, Recorded, MaskInv
<1>9. QED  BY <1>2, <1>3, <1>4, <1>5, <1>6, <1>7, <1>8 DEF LogStep

\* The nodes pass to the daemon.
LEMMA TriggerKeeps ==
    ASSUME TypeOK, Inv, trigger
    PROVE  TypeOK' /\ Inv' /\ LogStep
<1>1. /\ job.step = "trigger" /\ job'.step \in {"portrecord", "unbind"} /\ job' \in Tasks
      /\ job'.step = "unbind" => journal.bindings
      /\ job'.keep_rules = job.keep_rules /\ job'.generation = job.generation
  BY GoCarries DEF Goes, trigger, At, TypeOK, Steps, Masking
<1> USE <1>1 DEF trigger, Policy, Reached, Goes, Inv, device, records, usb, Arming, Masking, Undoing,
      Removing, Restoring
<1>2. TypeOK'  BY DEF TypeOK
<1>3. DeviceInv'  BY DEF DeviceInv, DriverNamed, MaskInv, TypeOK
<1>4. JournalInv'  BY DEF JournalInv
<1>5. MaskInv'  BY DEF MaskInv, DeviceInv, TypeOK
<1>6. UndoInv'  BY DEF UndoInv
<1>7. BaselineIsOriginal'  BY DEF BaselineIsOriginal
<1>8. Undoes  BY DEF Undoes, Changed, Recorded, MaskInv
<1>9. QED  BY <1>2, <1>3, <1>4, <1>5, <1>6, <1>7, <1>8 DEF LogStep

\* The driver named in the journal is unbound,
LEMMA Rebind_unbind ==
    ASSUME TypeOK, Inv, Rebind, job.step = "unbind"
    PROVE  TypeOK' /\ Inv' /\ LogStep
<1>1. Goes("unbind", "bind")
  BY GoCarries DEF Rebind, rebind_binding, Goes, At, TypeOK, Steps, Arming, Masking, Undoing,
      Removing, Restoring
<1> USE <1>1 DEF Rebind, rebind_binding, At, resolve, Policy, Goes, Inv, device, records, usb, Arming,
      Masking, Undoing, Removing, Restoring
<1>2. TypeOK'  BY DEF TypeOK
<1>3. DeviceInv'  BY DEF DeviceInv, DriverNamed, MaskInv, JournalInv, TypeOK
<1>4. JournalInv'  BY DEF JournalInv
<1>5. MaskInv'  BY DEF MaskInv
<1>6. UndoInv'  BY DEF UndoInv
<1>7. BaselineIsOriginal'  BY DEF BaselineIsOriginal
<1>8. Modifies  BY AllRecorded DEF Modifies, Changed, Recorded, MaskInv
<1>9. QED  BY <1>2, <1>3, <1>4, <1>5, <1>6, <1>7, <1>8 DEF LogStep

\* and bound again, which shows the nodes to the rules.
LEMMA Rebind_bind ==
    ASSUME TypeOK, Inv, Rebind, job.step = "bind"
    PROVE  TypeOK' /\ Inv' /\ LogStep
<1>1. Goes("bind", "mode")
  BY GoCarries DEF Rebind, rebind_binding, Goes, At, TypeOK, Steps, Arming, Masking, Undoing,
      Removing, Restoring
<1> USE <1>1 DEF Rebind, rebind_binding, At, resolve, Policy, Goes, Inv, device, records, usb, Arming,
      Masking, Undoing, Removing, Restoring
<1>2. TypeOK'  BY DEF TypeOK
<1>3. DeviceInv'  BY DEF DeviceInv, DriverNamed, MaskInv, JournalInv, TypeOK
<1>4. JournalInv'  BY DEF JournalInv
<1>5. MaskInv'  BY DEF MaskInv
<1>6. UndoInv'  BY DEF UndoInv
<1>7. BaselineIsOriginal'  BY DEF BaselineIsOriginal
<1>8. Undoes  BY DEF Undoes, Changed, Recorded, MaskInv
<1>9. QED  BY <1>2, <1>3, <1>4, <1>5, <1>6, <1>7, <1>8 DEF LogStep

\* That the port will be disabled is written down,
LEMMA Reconnect_portrecord ==
    ASSUME TypeOK, Inv, Reconnect, job.step = "portrecord"
    PROVE  TypeOK' /\ Inv' /\ LogStep
<1>1. /\ Goes("portrecord", "disable")
      /\ journal' \in Journals /\ journal'.port = "disabled" /\ journal'.generation = journal.generation
      /\ journal'.mode = journal.mode /\ journal'.bindings = journal.bindings
      /\ journal'.baseline = journal.baseline /\ journal'.prearmed = journal.prearmed
      /\ journal'.exists = journal.exists /\ journal'.readable = journal.readable
      /\ journal'.reconnect
      /\ UNCHANGED <<kind, generation, mode, rules, loaded, armed_record, permissions, selector,
                     wanted, faults, raced>>
      /\ UNCHANGED <<port, present, driver, access>>
  BY GoCarries, DisabledCarries, EnabledCarries DEF Reconnect, reconnect, Goes, At, TypeOK, Steps,
      Arming, Masking, Undoing, Removing, Restoring
<1> USE <1>1 DEF Goes, Inv, device, records, usb, Arming, Masking, Undoing, Removing, Restoring
<1>2. TypeOK'  BY DEF TypeOK
<1>3. DeviceInv'  BY DEF DeviceInv, DriverNamed, MaskInv
<1>4. JournalInv'  BY DEF JournalInv, MaskInv
<1>5. MaskInv'  BY DEF MaskInv
<1>6. UndoInv'  BY DEF UndoInv
<1>7. BaselineIsOriginal'  BY DEF BaselineIsOriginal
<1>8. Notes  BY DEF Notes, Changed, Recorded, MaskInv
<1>9. QED  BY <1>2, <1>3, <1>4, <1>5, <1>6, <1>7, <1>8 DEF LogStep

\* then it is disabled,
LEMMA Reconnect_disable ==
    ASSUME TypeOK, Inv, Reconnect, job.step = "disable"
    PROVE  TypeOK' /\ Inv' /\ LogStep
<1>1. /\ Goes("disable", "enable")
      /\ journal' = journal /\ UNCHANGED <<kind, generation, mode, rules, loaded, armed_record,
                                           permissions, selector, wanted, faults, raced>>
      /\ \/ UNCHANGED <<port, present, driver, access>>
         \/ port' = "off" /\ ~present' /\ present' \in BOOLEAN /\ driver' = "bound" /\ access' = "desktop"
  BY GoCarries DEF Reconnect, reconnect, Goes, At, TypeOK, Steps, Arming, Masking, Undoing, Removing,
      Restoring
<1> USE <1>1 DEF Goes, Inv, device, records, usb, Arming, Masking, Undoing, Removing, Restoring
<1>2. TypeOK'  BY DEF TypeOK
<1>3. DeviceInv'  BY DEF DeviceInv, DriverNamed, MaskInv
<1>4. JournalInv'  BY DEF JournalInv, MaskInv
<1>5. MaskInv'  BY DEF MaskInv
<1>6. UndoInv'  BY DEF UndoInv
<1>7. BaselineIsOriginal'  BY DEF BaselineIsOriginal
<1>8. Modifies  BY AllRecorded DEF Modifies, Changed, Recorded, MaskInv
<1>9. QED  BY <1>2, <1>3, <1>4, <1>5, <1>6, <1>7, <1>8 DEF LogStep

\* enabled again,
LEMMA Reconnect_enable ==
    ASSUME TypeOK, Inv, Reconnect, job.step = "enable"
    PROVE  TypeOK' /\ Inv' /\ LogStep
<1>1. /\ Goes("enable", "enabled")
      /\ port' = "on" /\ UNCHANGED <<kind, generation, mode, rules, loaded, armed_record, permissions,
                                     selector, wanted, faults, raced>>
      /\ UNCHANGED <<present, driver, access, journal>>
  BY GoCarries DEF Reconnect, reconnect, Goes, At, TypeOK, Steps, Arming, Masking, Undoing, Removing,
      Restoring
<1> USE <1>1 DEF Goes, Inv, device, records, usb, Arming, Masking, Undoing, Removing, Restoring
<1>2. TypeOK'  BY DEF TypeOK
<1>3. DeviceInv'  BY DEF DeviceInv, DriverNamed, MaskInv
<1>4. JournalInv'  BY DEF JournalInv, MaskInv
<1>5. MaskInv'  BY DEF MaskInv
<1>6. UndoInv'  BY DEF UndoInv
<1>7. BaselineIsOriginal'  BY DEF BaselineIsOriginal
<1>8. Undoes  BY DEF Undoes, Changed, Recorded
<1>9. QED  BY <1>2, <1>3, <1>4, <1>5, <1>6, <1>7, <1>8 DEF LogStep

\* and noted as enabled.
LEMMA Reconnect_enabled ==
    ASSUME TypeOK, Inv, Reconnect, job.step = "enabled"
    PROVE  TypeOK' /\ Inv' /\ LogStep
<1>1. /\ Goes("enabled", "return")
      /\ journal' \in Journals /\ journal'.port = "enabled" /\ journal'.generation = journal.generation
      /\ journal'.mode = journal.mode /\ journal'.bindings = journal.bindings
      /\ journal'.baseline = journal.baseline /\ journal'.prearmed = journal.prearmed
      /\ journal'.exists = journal.exists /\ journal'.readable = journal.readable
      /\ journal'.reconnect = journal.reconnect
      /\ UNCHANGED <<kind, generation, mode, rules, loaded, armed_record, permissions, selector,
                     wanted, faults, raced>>
      /\ UNCHANGED <<port, present, driver, access>>
  BY GoCarries, DisabledCarries, EnabledCarries DEF Reconnect, reconnect, Goes, At, TypeOK, Steps,
      Arming, Masking, Undoing, Removing, Restoring
<1> USE <1>1 DEF Goes, Inv, device, records, usb, Arming, Masking, Undoing, Removing, Restoring
<1>2. TypeOK'  BY DEF TypeOK
<1>3. DeviceInv'  BY DEF DeviceInv, DriverNamed, MaskInv
<1>4. JournalInv'  BY DEF JournalInv, MaskInv
<1>5. MaskInv'  BY DEF MaskInv
<1>6. UndoInv'  BY DEF UndoInv
<1>7. BaselineIsOriginal'  BY DEF BaselineIsOriginal
<1>8. Forgets  BY AllRecorded DEF Forgets, Changed, Recorded, MaskInv
<1>9. QED  BY <1>2, <1>3, <1>4, <1>5, <1>6, <1>7, <1>8 DEF LogStep

\* The connection that returns is the one the journal names from now on.
LEMMA Reconnect_return ==
    ASSUME TypeOK, Inv, Reconnect, job.step = "return"
    PROVE  TypeOK' /\ Inv' /\ LogStep
<1>1. /\ job'.step = "mode" /\ job' \in Tasks /\ job'.generation = generation /\ job'.keep_rules = job.keep_rules
      /\ journal' \in Journals /\ journal'.port = journal.port /\ journal'.generation = generation
      /\ journal'.mode = journal.mode /\ journal'.exists = journal.exists
      /\ journal'.baseline = journal.baseline /\ journal'.prearmed = journal.prearmed
      /\ journal'.readable = journal.readable /\ journal'.bindings
      /\ driver = "bound" /\ UNCHANGED <<port, present, driver, access>>
      /\ generation \in Nat /\ UNCHANGED <<kind, generation, mode, rules, loaded, armed_record,
                                           permissions, selector, wanted, faults, raced>>
  BY ZenonT(60) DEF Reconnect, reconnect, At, TypeOK, Tasks, Journals, Steps, Masking
<1> USE <1>1 DEF Goes, Inv, device, records, usb, Arming, Masking, Undoing, Removing, Restoring
<1>2. TypeOK'  BY DEF TypeOK
<1>3. DeviceInv'  BY DEF DeviceInv, DriverNamed, MaskInv
<1>4. JournalInv'  BY DEF JournalInv, MaskInv
<1>5. MaskInv'  BY DEF MaskInv
<1>6. UndoInv'  BY DEF UndoInv
<1>7. BaselineIsOriginal'  BY DEF BaselineIsOriginal
<1>8. Notes  BY DEF Notes, Changed, Recorded, MaskInv
<1>9. QED  BY <1>2, <1>3, <1>4, <1>5, <1>6, <1>7, <1>8 DEF LogStep

\* The mode changes when the journal holds the old one.
LEMMA ModeKeeps ==
    ASSUME TypeOK, Inv, activate, job.step = "mode"
    PROVE  TypeOK' /\ Inv' /\ LogStep
<1>1. Goes("mode", "verify")
  BY GoCarries DEF activate, Goes, At, TypeOK, Steps, Arming, Masking, Undoing, Removing, Restoring
<1> USE <1>1 DEF activate, At, Goes, Inv, device, records, usb, Arming, Masking, Undoing, Removing,
      Restoring
<1>2. TypeOK'  BY DEF TypeOK
<1>3. DeviceInv'  BY DEF DeviceInv, DriverNamed, MaskInv
<1>4. JournalInv'  BY DEF JournalInv
<1>5. MaskInv'  BY DEF MaskInv
<1>6. UndoInv'  BY DEF UndoInv
<1>7. BaselineIsOriginal'  BY DEF BaselineIsOriginal
<1>8. Modifies  BY AllRecorded DEF Modifies, Changed, Recorded, MaskInv
<1>9. QED  BY <1>2, <1>3, <1>4, <1>5, <1>6, <1>7, <1>8 DEF LogStep

\* An activation ends with the nodes reserved.
LEMMA VerifyKeeps ==
    ASSUME TypeOK, Inv, activate, job.step = "verify"
    PROVE  TypeOK' /\ Inv' /\ LogStep
<1>1. job'.step = "idle" /\ job' = Idle /\ job' \in Tasks /\ ~job'.keep_rules
  BY IdleCarries DEF activate, At
<1> USE <1>1 DEF activate, At, resolve, Policy, Goes, Inv, device, records, usb, Arming, Masking,
      Undoing, Removing, Restoring
<1>2. TypeOK'  BY DEF TypeOK
<1>3. DeviceInv'  BY DEF DeviceInv, DriverNamed, MaskInv, TypeOK
<1>4. JournalInv'  BY DEF JournalInv
<1>5. MaskInv'  BY DEF MaskInv
<1>6. UndoInv'  BY DEF UndoInv
<1>7. BaselineIsOriginal'  BY DEF BaselineIsOriginal
<1>8. Undoes  BY DEF Undoes, Changed, Recorded, MaskInv
<1>9. QED  BY <1>2, <1>3, <1>4, <1>5, <1>6, <1>7, <1>8 DEF LogStep

\* Nodes that appear later are reserved as well.
LEMMA RefreshKeeps ==
    ASSUME TypeOK, Inv, refresh_interfaces
    PROVE  TypeOK' /\ Inv' /\ LogStep
<1>1. job = Idle /\ job.step = "idle"
  BY IdleCarries DEF refresh_interfaces
<1> USE <1>1 DEF refresh_interfaces, resolve, Policy, Goes, Inv, device, records, usb, Arming,
      Masking, Undoing, Removing, Restoring
<1>2. TypeOK'  BY DEF TypeOK
<1>3. DeviceInv'  BY DEF DeviceInv, DriverNamed, MaskInv, TypeOK
<1>4. JournalInv'  BY DEF JournalInv
<1>5. MaskInv'  BY DEF MaskInv
<1>6. UndoInv'  BY DEF UndoInv
<1>7. BaselineIsOriginal'  BY DEF BaselineIsOriginal
<1>8. Undoes  BY DEF Undoes, Changed, Recorded, DeviceInv
<1>9. QED  BY <1>2, <1>3, <1>4, <1>5, <1>6, <1>7, <1>8 DEF LogStep

\* A recovery starts; it keeps the rules only while the mask is wanted.
LEMMA StartRecoverKeeps ==
    ASSUME TypeOK, Inv, StartRecover
    PROVE  TypeOK' /\ Inv' /\ LogStep
<1>1. /\ job = Idle /\ job'.step = "read" /\ job' \in Tasks /\ ~job'.found
      /\ (wanted = "restore" /\ ~job'.keep_rules) \/ (wanted = "mask" /\ usb /\ job'.keep_rules)
  <2>1. job = Idle  BY DEF StartRecover
  <2>2. CASE wanted = "restore" /\ job' = [Idle EXCEPT !.step = "read"]
    <3>1. job' \in Tasks /\ job'.step = "read" /\ ~job'.keep_rules /\ ~job'.found
      BY <2>2 DEF Idle, Tasks, Undoing
    <3>2. wanted = "restore"  BY <2>2
    <3>3. QED  BY ONLY <2>1, <3>1, <3>2
  <2>3. CASE wanted = "mask" /\ usb /\ job' = [Idle EXCEPT !.step = "read", !.keep_rules = TRUE]
    BY <2>1, <2>3, RecoveryCarries
  <2>4. QED  BY <2>2, <2>3 DEF StartRecover
<1> USE <1>1 DEF StartRecover, Goes, Inv, device, records, usb, Arming, Masking, Undoing, Removing,
      Restoring
<1>2. TypeOK'  BY DEF TypeOK
<1>3. DeviceInv'  BY IdleCarries DEF DeviceInv, DriverNamed, MaskInv, TypeOK
<1>4. JournalInv'  BY DEF JournalInv
<1>5. MaskInv'  BY DEF MaskInv
<1>6. UndoInv'  BY DEF UndoInv
<1>7. BaselineIsOriginal'  BY DEF BaselineIsOriginal
<1>8. Undoes  BY DEF Undoes, Changed, Recorded
<1>9. QED  BY <1>2, <1>3, <1>4, <1>5, <1>6, <1>7, <1>8 DEF LogStep

\* A damaged journal is still there.
LEMMA DamageKeeps ==
    ASSUME TypeOK, Inv, Damage
    PROVE  TypeOK' /\ Inv' /\ LogStep
<1>1. /\ job = Idle /\ job.step = "idle" /\ journal' \in Journals /\ journal'.port = journal.port
      /\ journal'.generation = journal.generation
      /\ journal'.mode = journal.mode /\ journal'.bindings = journal.bindings
      /\ journal'.exists /\ ~journal'.readable /\ journal.exists
      /\ journal'.reconnect = journal.reconnect /\ faults' \in Nat
      /\ journal'.baseline = journal.baseline /\ journal'.prearmed = journal.prearmed
      /\ UNCHANGED <<device, rules, loaded, armed_record, permissions, selector, job, wanted, raced>>
  <2>1. journal' = [journal EXCEPT !.readable = FALSE] /\ journal.exists /\ journal \in Journals
    BY DEF Damage, TypeOK
  <2>2. faults' \in Nat  BY DEF Damage, TypeOK
  <2>3. /\ journal' \in Journals /\ journal'.port = journal.port
        /\ journal'.generation = journal.generation /\ journal'.mode = journal.mode
        /\ journal'.bindings = journal.bindings /\ journal'.exists /\ ~journal'.readable
        /\ journal'.reconnect = journal.reconnect /\ journal'.baseline = journal.baseline
        /\ journal'.prearmed = journal.prearmed
    BY ONLY <2>1 DEF Journals
  <2>4. QED  BY <2>1, <2>2, <2>3, IdleCarries DEF Damage
<1> USE <1>1 DEF Goes, Inv, device, records, usb, Arming, Masking, Undoing, Removing, Restoring
<1>2. TypeOK'  BY DEF TypeOK
<1>3. DeviceInv'  BY IdleCarries DEF DeviceInv, DriverNamed, MaskInv, TypeOK
<1>4. JournalInv'
  <2>1. /\ journal' \in Journals /\ journal \in Journals /\ journal'.exists /\ journal.exists
        /\ journal'.generation = journal.generation /\ generation' = generation
        /\ journal.generation <= generation
        /\ journal'.baseline = journal.baseline /\ journal'.prearmed = journal.prearmed
    BY DEF TypeOK, Damage, JournalInv
  <2>2. journal'.generation <= generation'  BY ONLY <2>1
  <2>3. QED  BY ONLY <2>1, <2>2, JournalInv, NoJournalCarries DEF JournalInv
<1>5. MaskInv'  BY DEF MaskInv
<1>6. UndoInv'  BY DEF UndoInv
<1>7. BaselineIsOriginal'  BY DEF BaselineIsOriginal
<1>8. Undoes  BY DEF Undoes, Changed, Recorded
<1>9. QED  BY <1>2, <1>3, <1>4, <1>5, <1>6, <1>7, <1>8 DEF LogStep

\* A recovery that finds a journal reads it; one that finds none writes down its intent, or has
\* nothing to undo but rules.
LEMMA ReadKeeps ==
    ASSUME TypeOK, Inv, ReadRecords
    PROVE  TypeOK' /\ Inv' /\ LogStep
<1>1. /\ job.step = "read" /\ ~job.found /\ job' \in Tasks /\ journal' \in Journals
      /\ \/ job' = Idle /\ job'.step = "idle" /\ ~job'.keep_rules /\ journal' = journal
         \/ /\ job'.step = "unlinkearly" /\ job'.keep_rules = job.keep_rules /\ ~job'.found
            /\ journal' = journal /\ ~journal.readable /\ journal.exists
         \/ /\ job'.step = "unlinkearly" /\ ~job.keep_rules /\ ~job'.keep_rules /\ ~job'.found
            /\ journal' = journal /\ ~journal.exists /\ permissions = "none" /\ ~armed_record
         \/ /\ job'.step = "port" /\ job'.keep_rules = job.keep_rules
            /\ journal' = journal /\ journal.exists /\ journal.readable
         \/ /\ job'.step = "port" /\ job'.keep_rules = job.keep_rules
            /\ ~journal.exists /\ journal'.exists /\ journal'.readable /\ journal'.generation = 0
            /\ journal'.port = "none" /\ journal'.mode = "" /\ ~journal'.reconnect /\ ~journal'.bindings
            /\ journal'.prearmed /\ (permissions # "none" \/ armed_record)
      /\ UNCHANGED <<device, rules, loaded, armed_record, permissions, selector, wanted, faults, raced>>
  <2>1. /\ job.step = "read" /\ ~job.found /\ job \in Tasks /\ journal \in Journals
        /\ UNCHANGED <<device, rules, loaded, armed_record, permissions, selector, wanted, faults,
                       raced>>
    BY DEF ReadRecords, At, Inv, UndoInv, TypeOK
  <2>2. {"unlinkearly", "port"} \subseteq Steps  BY DEF Steps, Undoing, Removing
  <2>3. CASE journal.exists /\ ~journal.readable
    <3>1. Go("unlinkearly") /\ journal' = journal  BY <2>3 DEF ReadRecords
    <3>2. QED  BY <2>1, <2>2, <2>3, <3>1, GoCarries DEF Goes
  <2>4. CASE journal.exists /\ journal.readable
    <3>1. Go("port") /\ journal' = journal  BY <2>4 DEF ReadRecords
    <3>2. QED  BY <2>1, <2>2, <2>4, <3>1, GoCarries DEF Goes
  <2>5. CASE ~journal.exists /\ job.keep_rules
    <3>1. job' = Idle /\ journal' = journal  BY <2>5 DEF ReadRecords
    <3>2. QED  BY <2>1, <3>1, IdleCarries
  <2>6. CASE ~journal.exists /\ ~job.keep_rules /\ permissions = "none" /\ ~armed_record
    <3>1. Go("unlinkearly") /\ journal' = journal  BY <2>6 DEF ReadRecords
    <3>2. QED  BY <2>1, <2>2, <2>6, <3>1, GoCarries DEF Goes
  <2>7. CASE ~journal.exists /\ ~job.keep_rules /\ ~(permissions = "none" /\ ~armed_record)
    <3>1. Go("port") /\ journal' = [NoJournal EXCEPT !.prearmed = TRUE, !.exists = TRUE]
      BY <2>7 DEF ReadRecords
    <3>2. QED  BY <2>1, <2>2, <2>7, <3>1, GoCarries, IntentCarries DEF Goes
  <2>8. QED  BY <2>3, <2>4, <2>5, <2>6, <2>7
<1> USE <1>1 DEF Goes, Inv, device, records, usb, Arming, Masking, Undoing, Removing, Restoring
<1>2. TypeOK'
  <2>1. job' \in Tasks /\ journal' \in Journals /\ UNCHANGED <<device, rules, loaded, armed_record,
                                                               permissions, selector, wanted, faults, raced>>
                                                                 BY ONLY <1>1
  <2>2. QED  BY ONLY TypeOK, <2>1 DEF TypeOK, device
<1>3. DeviceInv'  BY NoJournalCarries, ZenonT(60) DEF DeviceInv, DriverNamed, JournalInv, TypeOK, MaskInv
<1>4. JournalInv'  BY NoJournalCarries DEF JournalInv, TypeOK
<1>5. MaskInv'  BY DEF MaskInv
<1>6. UndoInv'  BY NoJournalCarries DEF UndoInv, JournalInv, DeviceInv, DriverNamed, TypeOK
<1>7. BaselineIsOriginal'  BY DEF BaselineIsOriginal
<1>8. Undoes  BY NoJournalCarries, ZenonT(60) DEF Undoes, Changed, Recorded, JournalInv, TypeOK
<1>9. QED  BY <1>2, <1>3, <1>4, <1>5, <1>6, <1>7, <1>8 DEF LogStep

\* A port that the journal does not call disabled is on.
LEMMA PortRead ==
    ASSUME TypeOK, Inv, EnablePort, job.step = "port"
    PROVE  TypeOK' /\ Inv' /\ LogStep
<1>1. /\ job.step = "port" /\ job' \in Tasks /\ job'.keep_rules = job.keep_rules /\ journal' = journal
      /\ \/ job'.step = "resolve" /\ journal.port # "disabled" /\ port' = port
         \/ job'.step = "ported" /\ port' = "on"
      /\ UNCHANGED <<kind, present, generation, driver, mode, access, rules, loaded, armed_record,
                     permissions,
                       selector, wanted, faults, raced>>
  BY GoCarries DEF Goes, EnablePort, enable_recorded_port, At, TypeOK, Steps, Undoing
<1> USE <1>1 DEF Goes, Inv, device, records, usb, Arming, Masking, Undoing, Removing, Restoring
<1>2. TypeOK'  BY DEF TypeOK
<1>3. DeviceInv'  BY DEF DeviceInv, DriverNamed, TypeOK
<1>4. JournalInv'  BY DEF JournalInv
<1>5. MaskInv'  BY DEF MaskInv
<1>6. UndoInv'  BY DEF UndoInv, DeviceInv, TypeOK
<1>7. BaselineIsOriginal'  BY DEF BaselineIsOriginal
<1>8. Undoes  BY DEF Undoes, Changed, Recorded
<1>9. QED  BY <1>2, <1>3, <1>4, <1>5, <1>6, <1>7, <1>8 DEF LogStep

\* The note that it is disabled goes when it is on.
LEMMA PortEnabled ==
    ASSUME TypeOK, Inv, EnablePort, job.step = "ported"
    PROVE  TypeOK' /\ Inv' /\ LogStep
<1>1. /\ Goes("ported", "resolve")
      /\ journal' \in Journals /\ journal'.port = "enabled" /\ journal'.generation = journal.generation
      /\ journal'.mode = journal.mode /\ journal'.bindings = journal.bindings
      /\ journal'.baseline = journal.baseline /\ journal'.prearmed = journal.prearmed
      /\ journal'.exists = journal.exists /\ journal'.readable = journal.readable
      /\ journal'.reconnect = journal.reconnect
      /\ port' = port /\ UNCHANGED <<kind, present, generation, driver, mode, access, rules, loaded,
                                     armed_record, permissions,
                       selector, wanted, faults, raced>>
  BY GoCarries, DisabledCarries, EnabledCarries DEF EnablePort, enable_recorded_port, Goes, At,
      TypeOK, Steps, Arming, Masking, Undoing, Removing, Restoring
<1> USE <1>1 DEF Goes, Inv, device, records, usb, Arming, Masking, Undoing, Removing, Restoring
<1>2. TypeOK'  BY DEF TypeOK
<1>3. DeviceInv'  BY DEF DeviceInv, DriverNamed, UndoInv
<1>4. JournalInv'  BY DEF JournalInv, UndoInv
<1>5. MaskInv'  BY DEF MaskInv
<1>6. UndoInv'  BY DEF UndoInv
<1>7. BaselineIsOriginal'  BY DEF BaselineIsOriginal
<1>8. Forgets  BY AllRecorded DEF Forgets, Changed, Recorded, UndoInv
<1>9. QED  BY <1>2, <1>3, <1>4, <1>5, <1>6, <1>7, <1>8 DEF LogStep

\* The connection that is found, and whether its driver is to be repaired.
LEMMA FindKeeps ==
    ASSUME TypeOK, Inv, FindAttachment
    PROVE  TypeOK' /\ Inv' /\ LogStep
<1>1. /\ job.step = "resolve" /\ job'.step = "repair" /\ job' \in Tasks /\ job'.keep_rules = job.keep_rules
      /\ job'.generation = generation
      /\ job'.found <=> present /\ (generation = journal.generation \/ usb)
      /\ job'.bindings <=> \/ present /\ generation = journal.generation /\ journal.bindings
                           \/ /\ present /\ usb /\ generation # journal.generation /\ journal.reconnect
                              /\ driver = "bound"
      /\ ~job'.prearmed => ~journal.prearmed
      /\ job'.repair_error <=> /\ present /\ usb /\ generation # journal.generation /\ journal.reconnect
                                /\ driver # "bound"
      /\ UNCHANGED <<device, rules, loaded, records, wanted, faults, raced>>
  <2> DEFINE same == resolve(journal.generation)
             other == present /\ usb /\ ~same
             found == same \/ other
             binds == (same /\ journal.bindings) \/ (other /\ journal.reconnect /\ driver = "bound")
             pre == journal.prearmed \/ other
             error == other /\ journal.reconnect /\ driver # "bound"
  <2>1. /\ job.step = "resolve" /\ job \in Tasks /\ generation \in Nat
        /\ job' = [job EXCEPT !.step = "repair", !.generation = generation, !.found = found,
                              !.bindings = binds, !.prearmed = pre, !.repair_error = error]
    BY DEF FindAttachment, At, TypeOK
  <2>2. {found, binds, pre, error} \subseteq BOOLEAN  BY DEF TypeOK, Journals
  <2>3. (same <=> present /\ generation = journal.generation)  BY DEF resolve
  <2>4. UNCHANGED <<device, rules, loaded, records, wanted, faults, raced>>  BY DEF FindAttachment
  <2> HIDE DEF found, binds, pre, error
  <2>5. /\ job'.step = "repair" /\ job' \in Tasks /\ job'.keep_rules = job.keep_rules
        /\ job'.generation = generation /\ job'.found = found /\ job'.bindings = binds
        /\ job'.repair_error = error /\ job'.prearmed = pre
    BY ONLY <2>1, <2>2 DEF Tasks, Undoing
  <2>6. QED  BY <2>1, <2>3, <2>4, <2>5 DEF found, binds, error, pre
<1> USE <1>1 DEF Goes, Inv, device, records, usb, Arming, Masking, Undoing, Removing, Restoring
<1>2. TypeOK'  BY DEF TypeOK
<1>3. DeviceInv'  BY DEF DeviceInv, DriverNamed, TypeOK
<1>4. JournalInv'  BY DEF JournalInv
<1>5. MaskInv'  BY DEF MaskInv
<1>6. UndoInv'  BY DEF UndoInv, DeviceInv, DriverNamed, JournalInv, TypeOK
<1>7. BaselineIsOriginal'  BY DEF BaselineIsOriginal
<1>8. Undoes  BY DEF Undoes, Changed, Recorded
<1>9. QED  BY <1>2, <1>3, <1>4, <1>5, <1>6, <1>7, <1>8 DEF LogStep

\* A recovery goes on when the driver it is to repair is bound, or with an error.
LEMMA RepairDriverKeeps ==
    ASSUME TypeOK, Inv, RepairDriver
    PROVE  TypeOK' /\ Inv' /\ LogStep
<1>1. /\ job.step = "repair" /\ job' \in Tasks
      /\ job'.keep_rules = job.keep_rules /\ job'.generation = job.generation /\ job'.found = job.found
      /\ job'.bindings = job.bindings /\ job'.prearmed = job.prearmed /\ faults' \in Nat
      /\ UNCHANGED <<kind, present, generation, port, mode, rules, loaded, records, wanted, raced>>
      /\ \/ /\ ~job.bindings /\ job'.step = "unmode" /\ job'.repair_error = job.repair_error
            /\ UNCHANGED <<driver, access>>
         \/ /\ job.bindings /\ resolve(job.generation) /\ driver' = "unbound"
            /\ job'.repair_error = job.repair_error /\ job'.step = "repair" /\ UNCHANGED access
         \/ /\ job.bindings /\ resolve(job.generation) /\ driver' = "bound" /\ access' \in {access, Policy}
            /\ job'.step = "unmode" /\ job'.repair_error = job.repair_error
         \/ /\ job.bindings /\ job'.step = "unmode" /\ job'.repair_error /\ UNCHANGED <<driver, access>>
  <2>1. job.step = "repair" /\ job \in Tasks /\ "unmode" \in Steps /\ faults \in Nat
    BY DEF RepairDriver, At, TypeOK, Steps, Undoing
  <2>2. UNCHANGED <<kind, present, generation, port, mode, rules, loaded, records, wanted, raced>>
    BY DEF RepairDriver
  <2>3. CASE ~job.bindings /\ Go("unmode") /\ UNCHANGED <<driver, access, faults>>
    BY <2>1, <2>2, <2>3, GoCarries DEF Goes
  <2>4. CASE /\ job.bindings /\ resolve(job.generation) /\ driver' = "unbound"
             /\ UNCHANGED <<access, job, faults>>
    BY <2>1, <2>2, <2>4
  <2>5. CASE /\ job.bindings /\ resolve(job.generation) /\ driver' = "bound"
             /\ access' = (IF driver = "bound" THEN access ELSE Policy) /\ Go("unmode") /\ UNCHANGED faults
    BY <2>1, <2>2, <2>5, GoCarries DEF Goes
  <2>6. CASE /\ job.bindings /\ faults' = (IF resolve(job.generation) THEN faults + 1 ELSE faults)
             /\ job' = [job EXCEPT !.step = "unmode", !.repair_error = TRUE]
             /\ UNCHANGED <<driver, access>>
    <3>1. /\ job' \in Tasks /\ job'.step = "unmode" /\ job'.repair_error
          /\ job'.keep_rules = job.keep_rules /\ job'.generation = job.generation /\ job'.found = job.found
          /\ job'.bindings = job.bindings /\ job'.prearmed = job.prearmed
      BY <2>1, <2>6 DEF Tasks, Undoing
    <3>2. faults' \in Nat  BY <2>1, <2>6
    <3>3. QED  BY <2>1, <2>2, <2>6, <3>1, <3>2
  <2>7. QED  BY <2>3, <2>4, <2>5, <2>6 DEF RepairDriver
<1> USE <1>1 DEF resolve, Policy, Goes, Inv, device, records, usb, Arming, Masking, Undoing, Removing,
      Restoring
<1>2. TypeOK'  BY DEF TypeOK
<1>3. DeviceInv'  BY DEF DeviceInv, DriverNamed, TypeOK, UndoInv
<1>4. JournalInv'  BY DEF JournalInv
<1>5. MaskInv'  BY DEF MaskInv
<1>6. UndoInv'  BY DEF UndoInv, DeviceInv, DriverNamed, TypeOK
<1>7. BaselineIsOriginal'  BY DEF BaselineIsOriginal, TypeOK
<1>8. Undoes \/ Modifies  BY AllRecorded DEF Undoes, Modifies, Changed, Recorded, UndoInv, DriverNamed
<1>9. QED  BY <1>2, <1>3, <1>4, <1>5, <1>6, <1>7, <1>8 DEF LogStep

\* The mode is the one that the journal holds.
LEMMA RepairModeKeeps ==
    ASSUME TypeOK, Inv, RepairMode
    PROVE  TypeOK' /\ Inv' /\ LogStep
<1>1. /\ job.step = "unmode" /\ job' \in Tasks /\ job'.step = (IF job.keep_rules THEN "check" ELSE "unlinkearly")
      /\ mode' = "user" /\ UNCHANGED <<kind, present, generation, driver, port, access, rules, loaded,
                                       records, wanted, faults, raced>>
      /\ job'.keep_rules = job.keep_rules /\ job'.generation = job.generation
      /\ job'.found = job.found /\ job'.repair_error = job.repair_error /\ job'.bindings = job.bindings
      /\ job'.prearmed = job.prearmed
  <2>1. mode' = "user" /\ UNCHANGED <<kind, present, generation, driver, port, access, rules, loaded,
                                      records, wanted, faults, raced>>
    BY DEF RepairMode, Inv, DeviceInv, TypeOK, Journals
  <2>2. QED  BY <2>1, GoCarries DEF Goes, RepairMode, At, TypeOK, Steps, Undoing, Removing, Restoring
<1> USE <1>1 DEF Goes, Inv, device, records, usb, Arming, Masking, Undoing, Removing, Restoring
<1>2. TypeOK'  BY DEF TypeOK
<1>3. DeviceInv'  BY DEF DeviceInv, DriverNamed, TypeOK, UndoInv
<1>4. JournalInv'  BY DEF JournalInv
<1>5. MaskInv'  BY DEF MaskInv
<1>6. UndoInv'  BY DEF UndoInv
<1>7. BaselineIsOriginal'  BY DEF BaselineIsOriginal
<1>8. Undoes  BY DEF Undoes, Changed, Recorded
<1>9. QED  BY <1>2, <1>3, <1>4, <1>5, <1>6, <1>7, <1>8 DEF LogStep

\* The early rules go first,
LEMMA Remove_unlinkearly ==
    ASSUME TypeOK, Inv, RemoveRules, job.step = "unlinkearly"
    PROVE  TypeOK' /\ Inv' /\ LogStep
<1>1. Goes("unlinkearly", "unlinklate")
  BY GoCarries DEF RemoveRules, remove_rules, recover_damaged_journal, Goes, At, TypeOK, Steps,
      Arming, Masking, Undoing, Removing, Restoring
<1> USE <1>1 DEF RemoveRules, remove_rules, recover_damaged_journal, At, Goes, Inv, device, records,
      usb, Arming, Masking, Undoing, Removing, Restoring
<1>2. TypeOK'  BY DEF TypeOK
<1>3. DeviceInv'  BY DEF DeviceInv, DriverNamed, TypeOK, UndoInv
<1>4. JournalInv'  BY DEF JournalInv
<1>5. MaskInv'  BY DEF MaskInv
<1>6. UndoInv'  BY DEF UndoInv, TypeOK
<1>7. BaselineIsOriginal'  BY DEF BaselineIsOriginal
<1>8. Undoes  BY DEF Undoes, Changed, Recorded
<1>9. QED  BY <1>2, <1>3, <1>4, <1>5, <1>6, <1>7, <1>8 DEF LogStep

\* then the late ones,
LEMMA Remove_unlinklate ==
    ASSUME TypeOK, Inv, RemoveRules, job.step = "unlinklate"
    PROVE  TypeOK' /\ Inv' /\ LogStep
<1>1. Goes("unlinklate", "unload")
  BY GoCarries DEF RemoveRules, remove_rules, recover_damaged_journal, Goes, At, TypeOK, Steps,
      Arming, Masking, Undoing, Removing, Restoring
<1> USE <1>1 DEF RemoveRules, remove_rules, recover_damaged_journal, At, Goes, Inv, device, records,
      usb, Arming, Masking, Undoing, Removing, Restoring
<1>2. TypeOK'  BY DEF TypeOK
<1>3. DeviceInv'  BY DEF DeviceInv, DriverNamed, TypeOK, UndoInv
<1>4. JournalInv'  BY DEF JournalInv
<1>5. MaskInv'  BY DEF MaskInv
<1>6. UndoInv'  BY DEF UndoInv, TypeOK
<1>7. BaselineIsOriginal'  BY DEF BaselineIsOriginal
<1>8. Undoes  BY DEF Undoes, Changed, Recorded
<1>9. QED  BY <1>2, <1>3, <1>4, <1>5, <1>6, <1>7, <1>8 DEF LogStep

\* then udev forgets them,
LEMMA Remove_unload ==
    ASSUME TypeOK, Inv, RemoveRules, job.step = "unload"
    PROVE  TypeOK' /\ Inv' /\ LogStep
<1>1. Goes("unload", "unrecord")
  BY GoCarries DEF RemoveRules, remove_rules, recover_damaged_journal, Goes, At, TypeOK, Steps,
      Arming, Masking, Undoing, Removing, Restoring
<1> USE <1>1 DEF RemoveRules, remove_rules, recover_damaged_journal, At, Goes, Inv, device, records,
      usb, Arming, Masking, Undoing, Removing, Restoring
<1>2. TypeOK'
  <2>1. /\ job' \in Tasks /\ loaded' \in BOOLEAN
        /\ UNCHANGED <<device, rules, records, wanted, faults, raced>>
    OBVIOUS
  <2>2. QED  BY ONLY TypeOK, <2>1 DEF TypeOK, device, records
<1>3. DeviceInv'  BY DEF DeviceInv, DriverNamed, TypeOK, UndoInv
<1>4. JournalInv'  BY DEF JournalInv
<1>5. MaskInv'  BY DEF MaskInv
<1>6. UndoInv'  BY DEF UndoInv, TypeOK
<1>7. BaselineIsOriginal'  BY DEF BaselineIsOriginal
<1>8. Undoes  BY DEF Undoes, Changed, Recorded
<1>9. QED  BY <1>2, <1>3, <1>4, <1>5, <1>6, <1>7, <1>8 DEF LogStep

\* and their record is dropped last.
LEMMA Remove_unrecord ==
    ASSUME TypeOK, Inv, RemoveRules, job.step = "unrecord", journal.readable
    PROVE  TypeOK' /\ Inv' /\ LogStep
<1>1. /\ job' \in Tasks /\ armed_record' = FALSE
      /\ UNCHANGED <<device, rules, loaded, permissions, journal, selector, wanted, faults, raced>>
      /\ \/ job' = Idle /\ job'.step = "idle" /\ ~job'.keep_rules /\ ~journal.exists
         \/ /\ journal.exists /\ job'.step = IF job.found THEN "restore" ELSE "check"
            /\ job'.keep_rules = job.keep_rules /\ job'.generation = job.generation
            /\ job'.found = job.found /\ job'.repair_error = job.repair_error /\ job'.bindings = job.bindings
            /\ job'.prearmed = job.prearmed
  BY GoCarries, IdleCarries DEF Goes, RemoveRules, remove_rules, recover_damaged_journal, At, TypeOK,
      Steps, Undoing, Restoring
<1> USE <1>1 DEF Goes, Inv, device, records, usb, Arming, Masking, Undoing, Removing, Restoring
<1>2. TypeOK'
  <2>1. /\ job' \in Tasks /\ armed_record' \in BOOLEAN
        /\ UNCHANGED <<device, rules, loaded, permissions, journal, selector, wanted, faults, raced>>
    OBVIOUS
  <2>2. QED  BY ONLY TypeOK, <2>1 DEF TypeOK, device, records
<1>3. DeviceInv'  BY DEF DeviceInv, DriverNamed, TypeOK, UndoInv
<1>4. JournalInv'  BY DEF JournalInv
<1>5. MaskInv'  BY DEF MaskInv
<1>6. UndoInv'  BY DEF UndoInv, TypeOK
<1>7. BaselineIsOriginal'  BY DEF BaselineIsOriginal
<1>8. Undoes  BY DEF Undoes, Changed, Recorded, UndoInv
<1>9. QED  BY <1>2, <1>3, <1>4, <1>5, <1>6, <1>7, <1>8 DEF LogStep

\* Access is restored without the journal, as an error.
LEMMA Remove_damaged ==
    ASSUME TypeOK, Inv, RemoveRules, job.step = "unrecord", ~journal.readable
    PROVE  TypeOK' /\ Inv' /\ LogStep
<1>1. /\ job' \in Tasks /\ job'.step \in {"restore", "check"} /\ job'.repair_error
      /\ job'.keep_rules = job.keep_rules /\ job'.generation = generation
      /\ job'.found <=> present /\ (usb \/ generation = journal.generation)
      /\ job'.step = "restore" => job'.found
      /\ UNCHANGED <<device, rules, loaded, armed_record, permissions, journal, selector, wanted,
                     faults, raced>>
  <2> DEFINE found == present /\ (usb \/ generation = journal.generation)
  <2>1. /\ job \in Tasks /\ generation \in Nat
        /\ job' = [job EXCEPT !.step = IF found THEN "restore" ELSE "check", !.found = found,
                              !.generation = generation, !.repair_error = TRUE]
    BY DEF RemoveRules, remove_rules, recover_damaged_journal, At, TypeOK
  <2>2. found \in BOOLEAN  BY DEF TypeOK
  <2>3. UNCHANGED <<device, rules, loaded, armed_record, permissions, journal, selector, wanted,
                    faults, raced>>
    BY DEF RemoveRules, remove_rules, recover_damaged_journal, At
  <2> HIDE DEF found
  <2>4. /\ job' \in Tasks /\ job'.step = (IF found THEN "restore" ELSE "check") /\ job'.repair_error
        /\ job'.keep_rules = job.keep_rules /\ job'.generation = generation /\ job'.found = found
    BY ONLY <2>1, <2>2 DEF Tasks, Undoing, Restoring
  <2>5. QED  BY <2>3, <2>4 DEF found
<1> USE <1>1 DEF Goes, Inv, device, records, usb, Arming, Masking, Undoing, Removing, Restoring
<1>2. TypeOK'  BY DEF TypeOK
<1>3. DeviceInv'  BY DEF DeviceInv, DriverNamed, TypeOK, UndoInv
<1>4. JournalInv'  BY DEF JournalInv
<1>5. MaskInv'  BY DEF MaskInv
<1>6. UndoInv'  BY NoJournalCarries DEF UndoInv, JournalInv, TypeOK
<1>7. BaselineIsOriginal'  BY DEF BaselineIsOriginal
<1>8. Undoes  BY DEF Undoes, Changed, Recorded
<1>9. QED  BY <1>2, <1>3, <1>4, <1>5, <1>6, <1>7, <1>8 DEF LogStep

\* The baseline is put back.
LEMMA RestoreKeeps ==
    ASSUME TypeOK, Inv, restore
    PROVE  TypeOK' /\ Inv' /\ LogStep
<1>1. /\ Goes("restore", "add")
      /\ access' \in {"desktop", "reserved", "bare"}
      /\ ~Reached => access' = access
      /\ UNCHANGED <<kind, present, generation, driver, port, mode, rules, loaded, records, wanted,
                     faults, raced>>
  <2>1. Goes("restore", "add")
    BY GoCarries DEF restore, Goes, At, TypeOK, Steps, Undoing, Restoring
  <2>2. ~Reached => access' = access  BY DEF restore
  <2>3. access' \in {"desktop", "reserved", "bare"}
    <3>1. access \in {"desktop", "reserved", "bare"} /\ permissions \in {"none", "desktop", "reserved", "bare"}
      BY DEF TypeOK
    <3>2. journal.baseline \in {"none", "desktop", "reserved", "bare"}  BY DEF TypeOK, Journals
    <3>3. journal.readable => job.prearmed \/ journal.baseline # "none"  BY <2>1 DEF Goes, Inv,
        UndoInv, Restoring
    <3>4. QED  BY <3>1, <3>2, <3>3 DEF restore
  <2>4. QED  BY <2>1, <2>2, <2>3 DEF restore
<1> USE <1>1 DEF Reached, Goes, Inv, device, records, usb, Arming, Masking, Undoing, Removing, Restoring
<1>2. TypeOK'
  <2>1. /\ job' \in Tasks /\ access' \in {"desktop", "reserved", "bare"}
        /\ UNCHANGED <<kind, present, generation, driver, port, mode, rules, loaded, records, wanted,
                       faults, raced>>
    OBVIOUS
  <2>2. QED  BY ONLY TypeOK, <2>1 DEF TypeOK, device, records
<1>3. DeviceInv'  BY DEF DeviceInv, DriverNamed, TypeOK, UndoInv
<1>4. JournalInv'  BY DEF JournalInv
<1>5. MaskInv'  BY DEF MaskInv
<1>6. UndoInv'  BY DEF UndoInv
<1>7. BaselineIsOriginal'  BY DEF BaselineIsOriginal
<1>8. Undoes \/ Modifies  BY AllRecorded DEF Undoes, Modifies, Changed, Recorded, UndoInv
<1>9. QED  BY <1>2, <1>3, <1>4, <1>5, <1>6, <1>7, <1>8 DEF LogStep

\* The rules decide, and they are gone.
LEMMA RestorePolicyKeeps ==
    ASSUME TypeOK, Inv, RestorePolicy
    PROVE  TypeOK' /\ Inv' /\ LogStep
<1>1. /\ Goes("add", "check")
      /\ access' = (IF Reached THEN "desktop" ELSE access)
      /\ UNCHANGED <<kind, present, generation, driver, port, mode, rules, loaded, records, wanted,
                     faults, raced>>
  BY GoCarries DEF RestorePolicy, Policy, Inv, UndoInv, Goes, At, TypeOK, Steps, Arming, Masking,
      Undoing, Removing, Restoring
<1> USE <1>1 DEF Reached, Goes, Inv, device, records, usb, Arming, Masking, Undoing, Removing, Restoring
<1>2. TypeOK'  BY DEF TypeOK
<1>3. DeviceInv'  BY DEF DeviceInv, DriverNamed, TypeOK, UndoInv
<1>4. JournalInv'  BY DEF JournalInv
<1>5. MaskInv'  BY DEF MaskInv
<1>6. UndoInv'  BY DEF UndoInv, DeviceInv, TypeOK
<1>7. BaselineIsOriginal'  BY DEF BaselineIsOriginal
<1>8. Undoes  BY DEF Undoes, Changed, Recorded
<1>9. QED  BY <1>2, <1>3, <1>4, <1>5, <1>6, <1>7, <1>8 DEF LogStep

\* The journal goes last of what it names.
LEMMA ForgetJournal ==
    ASSUME TypeOK, Inv, Forget, job.step = "check", ~job.repair_error
    PROVE  TypeOK' /\ Inv' /\ LogStep
<1>1. /\ job' \in Tasks /\ journal' = NoJournal /\ permissions' = permissions
      /\ \/ job' = Idle /\ job'.step = "idle" /\ ~job'.keep_rules /\ job.keep_rules
         \/ /\ job'.step = "unpermit" /\ ~job.keep_rules
            /\ job'.keep_rules = job.keep_rules /\ job'.generation = job.generation
            /\ job'.found = job.found /\ job'.repair_error = job.repair_error /\ job'.bindings = job.bindings
            /\ job'.prearmed = job.prearmed
      /\ UNCHANGED <<device, rules, loaded, armed_record, selector, wanted, faults, raced>>
  BY GoCarries, IdleCarries DEF Goes, Forget, At, TypeOK, Steps, Undoing
<1> USE <1>1 DEF Goes, Inv, device, records, usb, Arming, Masking, Undoing, Removing, Restoring
<1>2. TypeOK'
  <2>1. /\ job' \in Tasks /\ journal' \in Journals
        /\ permissions' = permissions /\ UNCHANGED <<device, rules, loaded, armed_record, selector,
                                                     wanted, faults, raced>>
    BY NoJournalCarries
  <2>2. QED  BY ONLY TypeOK, <2>1 DEF TypeOK, device, records
<1>3. DeviceInv'  BY NoJournalCarries DEF DeviceInv, DriverNamed, TypeOK, MaskInv, UndoInv
<1>4. JournalInv'
  <2>1. journal' = NoJournal /\ journal'.generation = 0 /\ generation' \in Nat
    BY NoJournalCarries DEF TypeOK
  <2>2. journal'.generation <= generation'  BY ONLY <2>1
  <2>3. QED  BY ONLY <2>1, <2>2, JournalInv, NoJournalCarries DEF JournalInv
<1>5. MaskInv'  BY DEF MaskInv
<1>6. UndoInv'  BY NoJournalCarries DEF UndoInv, TypeOK
<1>7. BaselineIsOriginal'  BY DEF BaselineIsOriginal
<1>8. Forgets  BY NoJournalCarries, AllRecorded DEF Forgets, Changed, Recorded, UndoInv, DeviceInv
<1>9. QED  BY <1>2, <1>3, <1>4, <1>5, <1>6, <1>7, <1>8 DEF LogStep

\* The captured permissions go after it.
LEMMA ForgetPermissions ==
    ASSUME TypeOK, Inv, Forget, job.step = "unpermit"
    PROVE  TypeOK' /\ Inv' /\ LogStep
<1>1. /\ job'.step = "idle" /\ job' = Idle /\ job' \in Tasks /\ ~job'.keep_rules /\ journal' = journal
      /\ permissions' = "none" /\ UNCHANGED <<device, rules, loaded, armed_record, selector, wanted,
                                              faults, raced>>
  BY IdleCarries DEF Forget, At
<1> USE <1>1 DEF Goes, Inv, device, records, usb, Arming, Masking, Undoing, Removing, Restoring
<1>2. TypeOK'  BY DEF TypeOK
<1>3. DeviceInv'  BY DEF DeviceInv, DriverNamed, UndoInv, TypeOK
<1>4. JournalInv'  BY DEF JournalInv
<1>5. MaskInv'  BY DEF MaskInv
<1>6. UndoInv'  BY DEF UndoInv
<1>7. BaselineIsOriginal'  BY DEF BaselineIsOriginal
<1>8. Forgets  BY AllRecorded DEF Forgets, Changed, Recorded, UndoInv
<1>9. QED  BY <1>2, <1>3, <1>4, <1>5, <1>6, <1>7, <1>8 DEF LogStep

\* A connection that appears is bound, and reserved only under loaded rules.
LEMMA ConnectKeeps ==
    ASSUME TypeOK, Inv, Connect
    PROVE  TypeOK' /\ Inv' /\ LogStep
<1>1. /\ ~present /\ port = "on" /\ present' /\ present' \in BOOLEAN /\ generation' = generation + 1 /\ driver' = "bound"
      /\ access' = (IF usb /\ loaded THEN "reserved" ELSE "desktop")
      /\ raced' \in BOOLEAN
      /\ raced' <=> \/ raced
                     \/ /\ loaded /\ usb /\ ~job.found
                        /\ job.step \in {"repair", "unmode", "unlinkearly", "unlinklate", "unload"}
      /\ UNCHANGED <<kind, port, mode, rules, loaded, records, job, wanted, faults>>
  BY DEF Connect, Policy, TypeOK
<1> USE <1>1 DEF Goes, Inv, device, records, usb, Arming, Masking, Undoing, Removing, Restoring
<1>2. TypeOK'  BY DEF TypeOK
<1>3. DeviceInv'  BY DEF DeviceInv, DriverNamed, TypeOK, JournalInv, Journals
<1>4. JournalInv'
  <2>1. /\ journal' = journal /\ journal.generation \in Nat /\ generation \in Nat
        /\ journal.generation <= generation /\ generation' = generation + 1
    BY DEF TypeOK, JournalInv, Journals
  <2>2. journal'.generation <= generation'  BY ONLY <2>1
  <2>3. QED  BY ONLY <2>1, <2>2, JournalInv, NoJournalCarries DEF JournalInv
<1>5. MaskInv'  BY DEF MaskInv
<1>6. UndoInv'  BY DEF UndoInv, TypeOK, Tasks, DriverNamed
<1>7. BaselineIsOriginal'  BY DEF BaselineIsOriginal
<1>8. Undoes  BY DEF Undoes, Changed, Recorded, DeviceInv
<1>9. QED  BY <1>2, <1>3, <1>4, <1>5, <1>6, <1>7, <1>8 DEF LogStep

\* A connection that goes takes its driver and its access along.
LEMMA DisconnectKeeps ==
    ASSUME TypeOK, Inv, Disconnect
    PROVE  TypeOK' /\ Inv' /\ LogStep
<1>1. /\ ~present' /\ present' \in BOOLEAN /\ driver' = "bound" /\ access' = "desktop"
      /\ UNCHANGED <<kind, generation, port, mode, rules, loaded, records, job, wanted, faults, raced>>
  BY DEF Disconnect
<1> USE <1>1 DEF Goes, Inv, device, records, usb, Arming, Masking, Undoing, Removing, Restoring
<1>2. TypeOK'  BY DEF TypeOK
<1>3. DeviceInv'  BY DEF DeviceInv, DriverNamed
<1>4. JournalInv'  BY DEF JournalInv
<1>5. MaskInv'  BY DEF MaskInv
<1>6. UndoInv'  BY DEF UndoInv, DriverNamed
<1>7. BaselineIsOriginal'  BY DEF BaselineIsOriginal
<1>8. Undoes  BY DEF Undoes, Changed, Recorded
<1>9. QED  BY <1>2, <1>3, <1>4, <1>5, <1>6, <1>7, <1>8 DEF LogStep

\* A client detaches the driver.
LEMMA DetachKeeps ==
    ASSUME TypeOK, Inv, Detach
    PROVE  TypeOK' /\ Inv' /\ LogStep
<1>1. /\ present /\ driver' = "detached" /\ driver = "bound"
      /\ UNCHANGED <<kind, present, generation, port, mode, access, rules, loaded, records, job,
                     wanted, faults, raced>>
  BY DEF Detach
<1> USE <1>1 DEF Goes, Inv, device, records, usb, Arming, Masking, Undoing, Removing, Restoring
<1>2. TypeOK'  BY DEF TypeOK
<1>3. DeviceInv'  BY DEF DeviceInv, DriverNamed
<1>4. JournalInv'  BY DEF JournalInv
<1>5. MaskInv'  BY DEF MaskInv
<1>6. UndoInv'  BY DEF UndoInv, DriverNamed
<1>7. BaselineIsOriginal'  BY DEF BaselineIsOriginal
<1>8. Undoes  BY DEF Undoes, Changed, Recorded
<1>9. QED  BY <1>2, <1>3, <1>4, <1>5, <1>6, <1>7, <1>8 DEF LogStep

\* A mask is wanted again only when the journal is gone.
LEMMA WantKeeps ==
    ASSUME TypeOK, Inv, NEW w \in {"mask", "restore"}, Want(w)
    PROVE  TypeOK' /\ Inv' /\ LogStep
<1>1. /\ wanted' = w /\ wanted # w /\ (w = "mask" => ~journal.exists /\ job = Idle)
      /\ UNCHANGED <<device, rules, loaded, records, job, faults, raced>>
  BY DEF Want
<1> USE <1>1 DEF Goes, Inv, device, records, usb, Arming, Masking, Undoing, Removing, Restoring
<1>2. TypeOK'  BY DEF TypeOK
<1>3. DeviceInv'  BY NoJournalCarries, IdleCarries, ZenonT(60) DEF DeviceInv, DriverNamed, JournalInv
<1>4. JournalInv'  BY DEF JournalInv
<1>5. MaskInv'  BY DEF MaskInv
<1>6. UndoInv'  BY IdleCarries DEF UndoInv, DriverNamed
<1>7. BaselineIsOriginal'  BY DEF BaselineIsOriginal
<1>8. Undoes  BY DEF Undoes, Changed, Recorded
<1>9. QED  BY <1>2, <1>3, <1>4, <1>5, <1>6, <1>7, <1>8 DEF LogStep

\* The machine starts with nothing recorded and nothing changed.
LEMMA InitHolds == Init => TypeOK /\ Inv /\ Log!Init
<1> SUFFICES ASSUME Init PROVE TypeOK /\ Inv /\ Log!Init  OBVIOUS
<1>1. job.step = "idle" /\ ~job.keep_rules /\ job \in Tasks  BY IdleCarries DEF Init
<1>2. /\ journal \in Journals /\ journal.generation = 0 /\ ~journal.exists /\ journal.readable
      /\ journal.port = "none" /\ journal.mode = "" /\ ~journal.bindings /\ ~journal.reconnect
  BY NoJournalCarries DEF Init
<1>3. TypeOK
  <2>1. job \in Tasks /\ journal \in Journals /\ kind \in {"usb", "deck", "bluetooth"}
    BY <1>1, <1>2, BackendAssumption DEF Init
  <2>2. /\ loaded \in BOOLEAN /\ armed_record \in BOOLEAN /\ selector \in BOOLEAN /\ raced \in BOOLEAN
        /\ present \in BOOLEAN
    BY DEF Init
  <2>3. generation \in Nat \ {0} /\ rules \in 0..2 /\ faults \in Nat  BY DEF Init
  <2>4. /\ driver = "bound" /\ port = "on" /\ mode = "user" /\ access = "desktop" /\ permissions = "none"
        /\ wanted = "mask"
    BY DEF Init
  <2>5. QED  BY <2>1, <2>2, <2>3, <2>4 DEF TypeOK
<1>a. ~(rules > 0) /\ journal.generation <= generation
  <2>1. rules = 0 /\ generation = 1  BY DEF Init
  <2>2. journal.generation = 0  BY <1>2
  <2>3. QED  BY ONLY <2>1, <2>2
<1>b. /\ ~loaded /\ ~armed_record /\ ~raced /\ journal = NoJournal /\ driver = "bound" /\ port = "on"
      /\ mode = "user" /\ access = "desktop" /\ permissions = "none"
  BY DEF Init
<1>4. DeviceInv  BY ONLY <1>a, <1>b DEF DeviceInv
<1>5. JournalInv  BY ONLY <1>2, <1>a, <1>b DEF JournalInv
<1>6. MaskInv /\ UndoInv
  BY <1>1 DEF Init, MaskInv, UndoInv, Arming, Masking, Undoing, Removing, Restoring
<1>7. BaselineIsOriginal  BY DEF Init, BaselineIsOriginal
<1>8. Log!Init  BY ONLY <1>2, <1>a, <1>b DEF Log!Init, Changed, Recorded
<1>9. QED  BY <1>3, <1>4, <1>5, <1>6, <1>7, <1>8 DEF Inv

\* A job fails or raises.
LEMMA FailsKeeps ==
    ASSUME TypeOK, Inv, Abort \/ Raise
    PROVE  TypeOK' /\ Inv' /\ LogStep
<1>1. job' = Idle /\ UNCHANGED <<device, rules, loaded, records, wanted, raced>>  BY DEF Abort, Raise
<1>2. faults' \in Nat  BY DEF Abort, Raise, TypeOK
<1>3. QED  BY <1>1, <1>2, EndKeeps

\* A recovery that met an error keeps its records.
LEMMA ForgetKeeps ==
    ASSUME TypeOK, Inv, Forget
    PROVE  TypeOK' /\ Inv' /\ LogStep
<1>1. CASE job.step = "check" /\ job.repair_error
  <2>1. job' = Idle /\ UNCHANGED <<device, rules, loaded, records, wanted, raced, faults>>
    BY <1>1 DEF Forget, At, records
  <2>2. faults' \in Nat  BY <2>1 DEF TypeOK
  <2>3. QED  BY <2>1, <2>2, EndKeeps
<1>2. CASE job.step = "check" /\ ~job.repair_error  BY <1>2, ForgetJournal
<1>3. CASE job.step = "unpermit"  BY <1>3, ForgetPermissions
<1>4. QED  BY <1>1, <1>2, <1>3 DEF Forget, At

\* Every step keeps the invariant and is a step of the undo log.
LEMMA StepKeeps ==
    ASSUME TypeOK, Inv, [Next]_vars
    PROVE  TypeOK' /\ Inv' /\ [Log!Next]_(Log!vars)
<1>1. CASE StartActivate \/ StartArm \/ refresh_interfaces \/ StartRecover
  BY <1>1, StartActivateKeeps, StartArmKeeps, RefreshKeeps, StartRecoverKeeps, LogSteps
<1>2. CASE snapshot \/ capture \/ trigger  BY <1>2, SnapshotKeeps, CaptureKeeps, TriggerKeeps, LogSteps
<1>3. CASE install_rules
  <2>1. job.step \in {"record", "late", "early", "reload"}  BY <1>3 DEF install_rules, At
  <2>2. QED  BY <1>3, <2>1, Install_record, Install_late, Install_early, Install_reload, LogSteps
<1>4. CASE Rebind
  <2>1. job.step \in {"unbind", "bind"}  BY <1>4 DEF Rebind, rebind_binding, At
  <2>2. QED  BY <1>4, <2>1, Rebind_unbind, Rebind_bind, LogSteps
<1>5. CASE Reconnect
  <2>1. job.step \in {"portrecord", "disable", "enable", "enabled", "return"}
    BY <1>5 DEF Reconnect, reconnect, At
  <2>2. QED
    BY <1>5, <2>1, Reconnect_portrecord, Reconnect_disable, Reconnect_enable, Reconnect_enabled,
       Reconnect_return, LogSteps
<1>6. CASE activate
  <2>1. job.step \in {"mode", "verify"}  BY <1>6 DEF activate, At
  <2>2. QED  BY <1>6, <2>1, ModeKeeps, VerifyKeeps, LogSteps
<1>7. CASE ReadRecords \/ FindAttachment \/ RepairDriver \/ RepairMode
  BY <1>7, ReadKeeps, FindKeeps, RepairDriverKeeps, RepairModeKeeps, LogSteps
<1>8. CASE EnablePort
  <2>1. job.step \in {"port", "ported"}  BY <1>8 DEF EnablePort, enable_recorded_port, At
  <2>2. QED  BY <1>8, <2>1, PortRead, PortEnabled, LogSteps
<1>9. CASE RemoveRules
  <2>1. \/ job.step \in {"unlinkearly", "unlinklate", "unload"}
        \/ job.step = "unrecord" /\ (journal.readable \/ ~journal.readable)
    BY <1>9 DEF RemoveRules, remove_rules, recover_damaged_journal, At
  <2>2. QED
    BY <1>9, <2>1, Remove_unlinkearly, Remove_unlinklate, Remove_unload, Remove_unrecord,
        Remove_damaged, LogSteps
<1>10. CASE restore \/ RestorePolicy \/ Forget  BY <1>10, RestoreKeeps, RestorePolicyKeeps,
      ForgetKeeps, LogSteps
<1>11. CASE Abort \/ Raise \/ Damage  BY <1>11, FailsKeeps, DamageKeeps, LogSteps
<1>12. CASE Connect \/ Disconnect \/ Detach \/ Want("mask") \/ Want("restore")
  BY <1>12, ConnectKeeps, DisconnectKeeps, DetachKeeps, WantKeeps, LogSteps
<1>13. CASE UNCHANGED vars
  <2>1. job' = job /\ UNCHANGED <<device, rules, loaded, records, wanted, faults,
                                  raced>>  BY <1>13 DEF vars
  <2> USE <2>1 DEF device, records, usb, Inv
  <2>2. TypeOK'  BY DEF TypeOK
  <2>3. DeviceInv' /\ JournalInv'  BY DEF DeviceInv, DriverNamed, JournalInv
  <2>4. MaskInv'  BY DEF MaskInv
  <2>5. UndoInv'  BY DEF UndoInv, DriverNamed
  <2>6. BaselineIsOriginal'  BY DEF BaselineIsOriginal
  <2>7. Undoes  BY DEF Undoes, Changed, Recorded
  <2>8. QED  BY <2>2, <2>3, <2>4, <2>5, <2>6, <2>7, LogSteps DEF LogStep
<1>14. QED
  BY <1>1, <1>2, <1>3, <1>4, <1>5, <1>6, <1>7, <1>8, <1>9, <1>10, <1>11, <1>12, <1>13
  DEF Next, Progress, recover

\* The inductive invariant holds in every reachable state.
LEMMA BackendInvariant == Spec => [](TypeOK /\ Inv)
<1>1. Init => TypeOK /\ Inv  BY InitHolds
<1>2. TypeOK /\ Inv /\ [Next]_vars => (TypeOK /\ Inv)'  BY StepKeeps
<1>3. QED  BY <1>1, <1>2, PTL DEF Spec

\* The jobs of LinuxMaskBackend implement the undo log (KeepsUndoLog): what a job changes is
\* recorded before and its record dropped after it is undone, wherever the job is cut short,
\* for every kind of attachment and any number of reconnections and faults.
THEOREM JobsImplementLog == Spec => KeepsUndoLog
<1>1. Init => Log!Init  BY InitHolds
<1>2. TypeOK /\ Inv /\ [Next]_vars => [Log!Next]_(Log!vars)  BY StepKeeps
<1>3. QED  BY <1>1, <1>2, BackendInvariant, PTL DEF Spec, KeepsUndoLog, Log!Spec

\* What recovery reads from the disk names all that there is to undo (NothingUnrecorded of UndoLog).
THEOREM RecordsSuffice == Spec => []Log!NothingUnrecorded
<1>1. TypeOK /\ Inv => Log!NothingUnrecorded  BY AllRecorded DEF Log!NothingUnrecorded
<1>2. QED  BY <1>1, BackendInvariant, PTL

\* The permissions that recovery puts back are the desktop's, never the mask's own
\* (BaselineIsOriginal), unless a device connected behind the back of a recovery.
THEOREM BaselineHolds == Spec => [](TypeOK /\ BaselineIsOriginal)
<1>1. Inv => BaselineIsOriginal  BY DEF Inv
<1>2. QED  BY <1>1, BackendInvariant, PTL
=============================================================================
