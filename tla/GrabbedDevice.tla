---------------------------- MODULE GrabbedDevice ----------------------------
(***************************************************************************)
(* The key path of one exclusively grabbed input device in keymasqd: the   *)
(* kernel event queue, the reader, the ordered event pipeline, the tracked *)
(* held state of sources and outputs, and the operations that run between  *)
(* two events on the same asyncio loop (mapping replacement, key-state     *)
(* reconciliation, pre-suspend pause and neutralization, inspector         *)
(* suppression, a macro's keyboard block, recovery from an event error).   *)
(*                                                                         *)
(* A source key is routed to an output key of a uinput device: the shared  *)
(* virtual keyboard, or where unmapped input goes ("passthrough"): the     *)
(* device's own clone, or the virtual controller of a default output.      *)
(* `down' is what the kernel believes about those outputs.  Combos,        *)
(* superkeys, rollover, analog and motion inputs take other routes of the  *)
(* same pipeline and are not configured here.                              *)
(***************************************************************************)
EXTENDS Naturals, Sequences, FiniteSets, SequencesExt

CONSTANTS
    Keys,           \* source keys of the device, save KEY_ESC, which ends a suppression
    Targets,        \* key codes of the shared virtual keyboard
    Mappings,       \* the mappings a session may install: subset of [Keys -> Action]
    DefaultOutput,  \* TRUE iff unmapped input goes to a routed controller output
    Buttons,        \* source keys whose code that controller has (button_codes)
    WriteFailures,  \* TRUE iff writes to an output may fail
    DrainLimit,     \* KEY_STATE_DRAIN_LIMIT
    MaxUnread,      \* bound on the kernel client queue
    Operations      \* which outside operations happen: subset of OperationNames

OperationNames ==
    {"map", "record", "block", "suppress", "sleep", "mask", "error", "repeat", "lose"}

NoTarget == "no target"

\* MappingAction, reduced to the routes a plain key event can take.
NoAction     == [type |-> "none", target |-> NoTarget]
Suppress     == [type |-> "suppress", target |-> NoTarget]
Passthrough  == [type |-> "passthrough", target |-> NoTarget]
Keyboard(t)  == [type |-> "keyboard", target |-> t]
Absent       == [type |-> "absent", target |-> NoTarget]

Action == {NoAction, Suppress, Passthrough} \cup {Keyboard(t) : t \in Targets}
EmptyMapping == [k \in Keys |-> NoAction]

Event == [key : Keys, value : 0..2]
Buckets == {"passthrough", "keyboard"}
Outputs == ({"passthrough"} \X Keys) \cup ({"keyboard"} \X Targets)

ASSUME GrabbedDeviceAssumption ==
    /\ IsFiniteSet(Keys)
    /\ NoTarget \notin Targets
    /\ Mappings # {} /\ Mappings \subseteq [Keys -> Action]
    /\ DefaultOutput \in BOOLEAN
    /\ Buttons \subseteq Keys
    /\ WriteFailures \in BOOLEAN
    /\ DrainLimit \in Nat \ {0}
    /\ MaxUnread \in Nat
    /\ Operations \subseteq OperationNames

VARIABLES
    physical,                       \* keys the user holds down
    unread,                         \* kernel client queue of the grabbed device
    input_event_buffer,             \* events drained by a reconciliation, not yet processed
    key_state_reconcile_requested,
    mapping,                        \* active_mappings of this hardware
    recording,                      \* recording_manager.is_recording
    held_source_keys,
    held_source_actions,            \* [Keys -> Action or Absent]
    quarantined_source_keys,
    runtime_input_paused,
    sleep,                          \* suspend progress: awake, preparing, neutralized
    neutralizing,                   \* [by, step] of the neutralization that runs
    was_paused,                     \* local of neutralize_runtime
    suppressed,                     \* inspector suppression
    keyboard_block,                 \* a macro blocks physical keyboard output
    blocked_output_keys,            \* withheld presses per output
    held_output_keys,               \* outputs the runtime believes are down
    down,                           \* outputs the kernel believes are down
    unwritten,                      \* outputs whose last release could not be written
    slipped                         \* history: outputs whose event raised between its
                                    \* write and its tracking, and none followed since

queue    == <<physical, unread>>
reader   == <<input_event_buffer, key_state_reconcile_requested>>
sources  == <<held_source_keys, held_source_actions>>
outputs  == <<blocked_output_keys, held_output_keys, down, unwritten, slipped>>
pause    == <<runtime_input_paused, sleep, neutralizing, was_paused>>
settings == <<mapping, recording, suppressed, keyboard_block>>
vars == <<queue, reader, sources, quarantined_source_keys, outputs, pause, settings>>

Idle == [by |-> "nobody", step |-> "idle"]

QueueTypes ==
    /\ physical \subseteq Keys
    /\ unread \in Seq(Event)
    /\ input_event_buffer \in Seq(Event)
    /\ key_state_reconcile_requested \in BOOLEAN

SourceTypes ==
    /\ held_source_keys \subseteq Keys
    /\ held_source_actions \in [Keys -> Action \cup {Absent}]
    /\ quarantined_source_keys \subseteq Keys

OutputTypes ==
    /\ blocked_output_keys \in [Outputs -> Nat]
    /\ held_output_keys \subseteq Outputs
    /\ down \subseteq Outputs
    /\ unwritten \subseteq Outputs
    /\ slipped \subseteq Outputs

PauseTypes ==
    /\ runtime_input_paused \in BOOLEAN
    /\ sleep \in {"awake", "preparing", "neutralized"}
    /\ neutralizing \in [by : {"nobody", "sleep", "mask"},
                         step : {"idle", "quarantine", "release"}]
    /\ was_paused \in BOOLEAN

SettingTypes ==
    /\ mapping \in Mappings
    /\ recording \in BOOLEAN
    /\ suppressed \in BOOLEAN
    /\ keyboard_block \in BOOLEAN

TypeOK == QueueTypes /\ SourceTypes /\ OutputTypes /\ PauseTypes /\ SettingTypes

\* A fresh grab: wait_for_active_keys_to_clear returned, nothing is held.
Init ==
    /\ physical = {}
    /\ unread = <<>>
    /\ input_event_buffer = <<>>
    /\ key_state_reconcile_requested = FALSE
    /\ mapping \in Mappings
    /\ recording = FALSE
    /\ held_source_keys = {}
    /\ held_source_actions = [k \in Keys |-> Absent]
    /\ quarantined_source_keys = {}
    /\ runtime_input_paused = FALSE
    /\ sleep = "awake"
    /\ neutralizing = Idle
    /\ was_paused = FALSE
    /\ suppressed = FALSE
    /\ keyboard_block = FALSE
    /\ blocked_output_keys = [o \in Outputs |-> 0]
    /\ held_output_keys = {}
    /\ down = {}
    /\ unwritten = {}
    /\ slipped = {}

-----------------------------------------------------------------------------
(* Hardware. *)

Enqueue(k, v) ==
    /\ Len(unread) < MaxUnread
    /\ unread' = Append(unread, [key |-> k, value |-> v])
    /\ UNCHANGED <<reader, sources, quarantined_source_keys, outputs, pause, settings>>

Press(k)   == k \notin physical /\ physical' = physical \cup {k} /\ Enqueue(k, 1)
Release(k) == k \in physical /\ physical' = physical \ {k} /\ Enqueue(k, 0)
Repeat(k)  ==
    "repeat" \in Operations /\ k \in physical /\ UNCHANGED physical /\ Enqueue(k, 2)

-----------------------------------------------------------------------------
(* Output writes. *)

\* Unmapped input of a routed device leaves on the controller.
Routed(action) == DefaultOutput /\ action.type \in {"none", "passthrough"}

\* The output an action drives for source key k: at most one, and none if the
\* controller it is routed to lacks the code.
Route(k, action) ==
    CASE action.type = "keyboard" -> {<<"keyboard", action.target>>}
      [] action.type \in {"none", "passthrough"} ->
            IF DefaultOutput /\ k \notin Buttons THEN {} ELSE {<<"passthrough", k>>}
      [] OTHER -> {}

\* S after an event of value v on the outputs O, for what is down or tracked.
Turned(S, O, v) == CASE v = 1 -> S \cup O [] v = 0 -> S \ O [] OTHER -> S

\* What write_key withholds of O: presses while the keyboard is blocked, and
\* one release for each withheld press.
Withheld(O, v) ==
    {o \in O : IF v = 1 THEN keyboard_block ELSE blocked_output_keys[o] > 0}

\* Outputs written and tracked as they were.
WriteAndTrack(O, v) ==
    /\ down' = Turned(down, O, v)
    /\ held_output_keys' = Turned(held_output_keys, O, v)
    /\ unwritten' = IF v \in {0, 1} THEN unwritten \ O ELSE unwritten
    /\ slipped' = IF v \in {0, 1} THEN slipped \ O ELSE slipped

\* Mutant of write_key: every release is taken for one of a withheld press.
write_key_uncounted(O, v) ==
    /\ blocked_output_keys' = [o \in Outputs |->
         IF o \in O /\ v = 0 THEN blocked_output_keys[o] - 1 ELSE blocked_output_keys[o]]
    /\ WriteAndTrack(IF v = 1 THEN O ELSE {}, v)

\* write_key on every output of O: a press is withheld and counted while the
\* keyboard is blocked, and each withheld press swallows one release.
write_key(O, v) ==
    /\ blocked_output_keys' =
         [o \in Outputs |->
            CASE o \in O /\ v = 1 -> IF keyboard_block THEN blocked_output_keys[o] + 1 ELSE 0
              [] o \in Withheld(O, v) /\ v = 0 -> blocked_output_keys[o] - 1
              [] OTHER -> blocked_output_keys[o]]
    /\ WriteAndTrack(O \ Withheld(O, v), v)

\* DefaultControllerRoute.emit: no block withholds what a controller gets.
emit(O, v) == WriteAndTrack(O, v) /\ UNCHANGED blocked_output_keys

\* The output of an event: a routed controller's, or that of write_key.
output(k, action, v) ==
    IF Routed(action) THEN emit(Route(k, action), v) ELSE write_key(Route(k, action), v)

\* Mutants of release_all_keys: a bucket is forgotten although its write failed;
\* the withheld presses stay counted.
release_all_keys_forgetful(held, pressed) ==
    \E failed \in IF WriteFailures THEN SUBSET held ELSE {{}} :
        /\ down' = (pressed \ held) \cup (pressed \cap failed)
        /\ unwritten' = failed
        /\ held_output_keys' = {}
        /\ blocked_output_keys' = [o \in Outputs |-> 0]
        /\ held_source_keys' = {}
        /\ held_source_actions' = [k \in Keys |-> Absent]

release_all_keys_counts_stay(held, pressed) ==
    /\ down' = pressed \ held
    /\ held_output_keys' = {}
    /\ held_source_keys' = {}
    /\ held_source_actions' = [k \in Keys |-> Absent]
    /\ UNCHANGED <<blocked_output_keys, unwritten>>

\* release_all_keys, with `held' tracked and `pressed' down: write a release for
\* every tracked output, bucket by bucket.  A bucket whose write fails stays
\* tracked; `failed' are its outputs that did not receive their release.
release_all_keys(held, pressed) ==
    \E broken \in IF WriteFailures THEN SUBSET Buckets ELSE {{}} :
        LET kept == {o \in held : o[1] \in broken}
        IN  \E failed \in SUBSET kept :
              /\ down' = (pressed \ held) \cup (pressed \cap failed)
              /\ unwritten' = failed
              /\ held_output_keys' = kept
              /\ blocked_output_keys' = [o \in Outputs |-> 0]
              /\ held_source_keys' = {}
              /\ held_source_actions' = [k \in Keys |-> Absent]

release_everything == release_all_keys(held_output_keys, down) /\ UNCHANGED slipped

-----------------------------------------------------------------------------
(* The reader hands one event at a time to the pipeline. *)

HasEvent ==
    input_event_buffer # <<>> \/ (~key_state_reconcile_requested /\ unread # <<>>)

NextEvent == IF input_event_buffer # <<>> THEN Head(input_event_buffer) ELSE Head(unread)

read_events ==
    /\ HasEvent
    /\ IF input_event_buffer # <<>>
         THEN input_event_buffer' = Tail(input_event_buffer) /\ UNCHANGED unread
         ELSE unread' = Tail(unread) /\ UNCHANGED input_event_buffer
    /\ UNCHANGED <<physical, key_state_reconcile_requested>>

\* Paused input is swallowed; what is pressed meanwhile is quarantined.
PausedEvent ==
    /\ read_events
    /\ runtime_input_paused
    /\ quarantined_source_keys' =
         IF NextEvent.value = 0 THEN quarantined_source_keys \ {NextEvent.key}
                                ELSE quarantined_source_keys \cup {NextEvent.key}
    /\ UNCHANGED <<sources, outputs, pause, settings>>

\* The repeats and the release of a quarantined key are swallowed as well.
QuarantinedEvent ==
    /\ read_events
    /\ ~runtime_input_paused
    /\ NextEvent.key \in quarantined_source_keys
    /\ NextEvent.value # 1
    /\ quarantined_source_keys' =
         IF NextEvent.value = 0 THEN quarantined_source_keys \ {NextEvent.key}
                                ELSE quarantined_source_keys
    /\ UNCHANGED <<sources, outputs, pause, settings>>

\* Mutant of PassIntercept: the pause is not looked at.
PassIntercept_unpaused ==
    /\ read_events
    /\ NextEvent.key \notin quarantined_source_keys \/ NextEvent.value = 1
    /\ quarantined_source_keys' = quarantined_source_keys \ {NextEvent.key}

\* The event passes the pause and quarantine stage; a new press ends a quarantine.
PassIntercept ==
    /\ read_events
    /\ ~runtime_input_paused
    /\ NextEvent.key \notin quarantined_source_keys \/ NextEvent.value = 1
    /\ quarantined_source_keys' = quarantined_source_keys \ {NextEvent.key}

SuppressedEvent ==
    /\ PassIntercept
    /\ suppressed
    /\ UNCHANGED <<sources, outputs, pause, settings>>

observe_source_key_transition ==
    held_source_keys' = CASE NextEvent.value = 1 -> held_source_keys \cup {NextEvent.key}
                          [] NextEvent.value = 0 -> held_source_keys \ {NextEvent.key}
                          [] OTHER -> held_source_keys

\* Nothing mapped, nothing recorded and no remembered press: straight through.
UseFastPassthrough ==
    /\ mapping = EmptyMapping
    /\ ~recording
    /\ held_source_actions[NextEvent.key] = Absent

apply_fast_passthrough ==
    LET k == NextEvent.key
    IN  /\ PassIntercept
        /\ ~suppressed
        /\ UseFastPassthrough
        /\ observe_source_key_transition
        /\ held_source_actions' = IF DefaultOutput /\ NextEvent.value = 1
                                    THEN [held_source_actions EXCEPT ![k] = NoAction]
                                    ELSE held_source_actions
        /\ output(k, NoAction, NextEvent.value)
        /\ UNCHANGED <<pause, settings>>

\* Mutant of apply_mapped_action_or_passthrough: repeats and releases follow the
\* mapping of the moment.
apply_mapped_action_of_the_moment ==
    LET k == NextEvent.key
        v == NextEvent.value
    IN  /\ PassIntercept
        /\ ~suppressed
        /\ ~UseFastPassthrough
        /\ observe_source_key_transition
        /\ held_source_actions' =
             [held_source_actions EXCEPT ![k] = IF v = 0 THEN Absent ELSE mapping[k]]
        /\ output(k, mapping[k], v)
        /\ UNCHANGED <<pause, settings>>

\* Repeats and releases follow what was remembered at the press.
EventAction ==
    LET held == held_source_actions[NextEvent.key]
    IN  IF NextEvent.value # 1 /\ held # Absent THEN held ELSE mapping[NextEvent.key]

\* A press remembers its action unless one is remembered already; repeats and
\* the release follow the remembered action, and the release forgets it.
apply_mapped_action_or_passthrough ==
    LET k    == NextEvent.key
        v    == NextEvent.value
        held == held_source_actions[k]
    IN  /\ PassIntercept
        /\ ~suppressed
        /\ ~UseFastPassthrough
        /\ observe_source_key_transition
        /\ held_source_actions' =
             [held_source_actions EXCEPT ![k] =
                CASE v = 0 -> Absent
                  [] v = 1 /\ held = Absent -> mapping[k]
                  [] OTHER -> held]
        /\ output(k, EventAction, v)
        /\ UNCHANGED <<pause, settings>>

\* Where the write of the event stood when it raised: what it touched, what is
\* tracked and what is down.  A keyboard target is written, synchronized and then
\* tracked; a routed controller is tracked and then written; the device's own
\* clone is synchronized later, with its frame.
Raised ==
    LET v       == NextEvent.value
        O       == Route(NextEvent.key, EventAction)
        written == IF Routed(EventAction) THEN O ELSE O \ Withheld(O, v)
        held    == Turned(held_output_keys, written, v)
        pressed == Turned(down, written, v)
    IN  {[touched |-> {}, held |-> held_output_keys, down |-> down]}
          \cup IF ~WriteFailures THEN {}
               ELSE IF Routed(EventAction)
                 THEN {[touched |-> written, held |-> held, down |-> down]}
               ELSE IF EventAction.type = "keyboard"
                 THEN {[touched |-> written, held |-> held_output_keys, down |-> pressed]}
               ELSE {}

\* An exception while an event is processed: the event is lost and the runtime
\* releases everything it tracks.
recover_from_event_processing_error ==
    /\ "error" \in Operations
    /\ PassIntercept
    /\ ~suppressed
    /\ \E at \in Raised :
         /\ release_all_keys(at.held, at.down)
         /\ slipped' = ((slipped \ at.touched) \cup (at.touched \cap at.down)) \ at.held
    /\ UNCHANGED <<pause, settings>>

-----------------------------------------------------------------------------
(* Key-state reconciliation, owned by the reader. *)

Tracked == held_source_keys \cup {k \in Keys : held_source_actions[k] # Absent}

Known(events) == Tracked \cup {events[i].key : i \in 1..Len(events)}

LastIndex(events, k) ==
    CHOOSE i \in 1..Len(events) :
        events[i].key = k /\ \A j \in 1..Len(events) : events[j].key = k => j <= i

\* The held state the buffered history leads to.
Projected(events) ==
    {k \in Known(events) :
        IF \E i \in 1..Len(events) : events[i].key = k
          THEN events[LastIndex(events, k)].value # 0
          ELSE k \in Tracked}

Events(S, v) == [i \in 1..Cardinality(S) |-> [key |-> SetToSeq(S)[i], value |-> v]]

\* Mutant of Repairs: a release the query discarded is not repaired.
Repairs_presses_only(events, active) ==
    Events((active \ Projected(events)) \cap Known(events), 1)

Repairs(events, active) ==
    Events(Projected(events) \ active, 0)
        \o Events((active \ Projected(events)) \cap Known(events), 1)

\* seed_startup_held_actions: keys nobody followed become held, remember the
\* current action, and the action's target is released.
seed_startup_held_actions(S) ==
    /\ held_source_keys' = held_source_keys \cup S
    /\ held_source_actions' =
         [k \in Keys |-> IF k \in S THEN mapping[k] ELSE held_source_actions[k]]
    /\ write_key(UNION {Route(k, mapping[k]) : k \in {j \in S : mapping[j].type = "keyboard"}}, 0)

\* The query itself discards unread key events: what the user did between the
\* last read and the query is only visible as the queried state `active'.
reconcile_live_key_state(active) ==
    /\ key_state_reconcile_requested
    /\ input_event_buffer = <<>>
    /\ Len(unread) < DrainLimit
    /\ "lose" \in Operations \/ active = physical
    /\ physical' = active
    /\ unread' = <<>>
    /\ input_event_buffer' = unread \o Repairs(unread, active)
    /\ key_state_reconcile_requested' = FALSE
    /\ seed_startup_held_actions(active \ Known(unread))
    /\ UNCHANGED <<quarantined_source_keys, pause, settings>>

\* More unread events than one batch: deliver the batch and ask again.
DeferReconcile ==
    /\ key_state_reconcile_requested
    /\ input_event_buffer = <<>>
    /\ Len(unread) >= DrainLimit
    /\ input_event_buffer' = SubSeq(unread, 1, DrainLimit)
    /\ unread' = SubSeq(unread, DrainLimit + 1, Len(unread))
    /\ UNCHANGED <<physical, key_state_reconcile_requested, sources,
                   quarantined_source_keys, outputs, pause, settings>>

\* The query failed: the drained events are delivered, nothing is reconciled.
ReconcileReadFails ==
    /\ "error" \in Operations
    /\ key_state_reconcile_requested
    /\ input_event_buffer = <<>>
    /\ Len(unread) < DrainLimit
    /\ input_event_buffer' = unread
    /\ unread' = <<>>
    /\ key_state_reconcile_requested' = FALSE
    /\ UNCHANGED <<physical, sources, quarantined_source_keys, outputs, pause, settings>>

-----------------------------------------------------------------------------
(* Operations that run between two events. *)

set_mapping(m) ==
    /\ "map" \in Operations
    /\ mapping' = m
    /\ key_state_reconcile_requested' = TRUE
    /\ UNCHANGED <<queue, input_event_buffer, sources, quarantined_source_keys, outputs,
                   pause, recording, suppressed, keyboard_block>>

SetRecording(on) ==
    /\ "record" \in Operations
    /\ recording' = on
    /\ UNCHANGED <<queue, reader, sources, quarantined_source_keys, outputs,
                   pause, mapping, suppressed, keyboard_block>>

SetKeyboardBlock(on) ==
    /\ "block" \in Operations
    /\ keyboard_block' = on
    /\ UNCHANGED <<queue, reader, sources, quarantined_source_keys, outputs,
                   pause, mapping, recording, suppressed>>

\* Mutant of SetSuppression: the runtime is not reset.
SetSuppression_without_reset(on) ==
    /\ "suppress" \in Operations
    /\ on \/ suppressed
    /\ suppressed' = on
    /\ UNCHANGED <<queue, reader, sources, quarantined_source_keys, outputs,
                   pause, mapping, recording, keyboard_block>>

\* enable/disable_device_inspector_suppression with its runtime reset.
SetSuppression(on) ==
    /\ "suppress" \in Operations
    /\ on \/ suppressed
    /\ suppressed' = on
    /\ release_everything
    /\ key_state_reconcile_requested' = TRUE
    /\ UNCHANGED <<queue, input_event_buffer, quarantined_source_keys,
                   pause, mapping, recording, keyboard_block>>

\* logind announces a suspend: input pauses and a neutralization is queued.
pause_runtime_input ==
    /\ "sleep" \in Operations
    /\ sleep = "awake"
    /\ sleep' = "preparing"
    /\ runtime_input_paused' = TRUE
    /\ UNCHANGED <<queue, reader, sources, quarantined_source_keys, outputs,
                   neutralizing, was_paused, settings>>

resume_runtime_input ==
    /\ sleep = "neutralized"
    /\ sleep' = "awake"
    /\ runtime_input_paused' = FALSE
    /\ UNCHANGED <<queue, reader, sources, quarantined_source_keys, outputs,
                   neutralizing, was_paused, settings>>

\* neutralize_runtime, for the suspend that is prepared or for a hardware-mask
\* recovery; _neutralize_lock admits one at a time.
NeutralizeBegin(by) ==
    /\ neutralizing = Idle
    /\ IF by = "sleep" THEN sleep = "preparing" ELSE by \in Operations
    /\ neutralizing' = [by |-> by, step |-> "quarantine"]
    /\ was_paused' = runtime_input_paused
    /\ runtime_input_paused' = TRUE
    /\ UNCHANGED <<queue, reader, sources, quarantined_source_keys, outputs, sleep, settings>>

NeutralizeQuarantine ==
    /\ neutralizing.step = "quarantine"
    /\ neutralizing' = [neutralizing EXCEPT !.step = "release"]
    /\ quarantined_source_keys' = quarantined_source_keys \cup Tracked
    /\ UNCHANGED <<queue, reader, sources, outputs, runtime_input_paused, sleep,
                   was_paused, settings>>

\* Mutant of NeutralizeFinish: the tracked outputs are not released.
NeutralizeFinish_without_release ==
    /\ neutralizing.step = "release"
    /\ neutralizing' = Idle
    /\ held_source_keys' = {}
    /\ held_source_actions' = [k \in Keys |-> Absent]
    /\ runtime_input_paused' = (was_paused /\ runtime_input_paused)
    /\ sleep' = IF neutralizing.by = "sleep" THEN "neutralized" ELSE sleep
    /\ UNCHANGED <<queue, reader, quarantined_source_keys, outputs, was_paused, settings>>

NeutralizeFinish ==
    /\ neutralizing.step = "release"
    /\ neutralizing' = Idle
    /\ release_everything
    /\ runtime_input_paused' = (was_paused /\ runtime_input_paused)
    /\ sleep' = IF neutralizing.by = "sleep" THEN "neutralized" ELSE sleep
    /\ UNCHANGED <<queue, reader, quarantined_source_keys, was_paused, settings>>

-----------------------------------------------------------------------------
Hardware == \E k \in Keys : Press(k) \/ Release(k) \/ Repeat(k)

Pipeline ==
    \/ PausedEvent
    \/ QuarantinedEvent
    \/ SuppressedEvent
    \/ apply_fast_passthrough
    \/ apply_mapped_action_or_passthrough
    \/ recover_from_event_processing_error

Reconcile ==
    \/ \E active \in SUBSET Keys : reconcile_live_key_state(active)
    \/ DeferReconcile
    \/ ReconcileReadFails

Neutralize ==
    \/ \E by \in {"sleep", "mask"} : NeutralizeBegin(by)
    \/ NeutralizeQuarantine
    \/ NeutralizeFinish

Control ==
    \/ \E m \in Mappings : set_mapping(m)
    \/ \E on \in BOOLEAN : SetRecording(on) \/ SetKeyboardBlock(on) \/ SetSuppression(on)
    \/ pause_runtime_input
    \/ resume_runtime_input

Next == Hardware \/ Pipeline \/ Reconcile \/ Neutralize \/ Control

Spec == Init /\ [][Next]_vars

\* The reader task keeps running, and a neutralization that was queued runs to
\* its end (the sleep worker awaits it).
FairSpec ==
    /\ Spec
    /\ WF_vars(Pipeline)
    /\ WF_vars(Reconcile)
    /\ WF_vars(NeutralizeBegin("sleep"))
    /\ WF_vars(NeutralizeQuarantine \/ NeutralizeFinish)

-----------------------------------------------------------------------------
(* Properties. *)

\* Nothing is in flight: every event was processed, and input is live.
Settled ==
    /\ unread = <<>> /\ input_event_buffer = <<>>
    /\ ~key_state_reconcile_requested
    /\ ~runtime_input_paused /\ neutralizing = Idle /\ sleep = "awake"
    /\ ~suppressed

\* Once the user has let go of every key and the pipeline has caught up, no
\* output key is down, unless its own release could not be written or its event
\* raised between write and tracking: presses and releases were routed to the same
\* output whatever mapping, recording, block, pause, error or lost event came
\* between (apply_mapped_action_or_passthrough, reconcile_live_key_state,
\* neutralize_runtime, write_key, DefaultControllerRoute.emit).
NoStuckOutput == Settled /\ physical = {} => down \subseteq unwritten \cup slipped

\* Every output the kernel holds down is one the runtime would release, but for
\* those whose own event raised between its write and its tracking and which
\* no later event wrote: track_key_state and _clear_held_output_bucket forget no
\* other output before its release was written, failed writes included.
DownIsTracked == down \subseteq held_output_keys \cup slipped

\* A settled runtime follows no key the hardware does not hold: the press the
\* runtime remembers in held_source_keys or held_source_actions still awaits its
\* release (reconcile_live_key_state repairs what the kernel query discarded).
HeldFollowsHardware == Settled => Tracked \subseteq physical

\* Withheld presses are those of keys still held: write_key never counts a
\* withheld press whose release has already passed, which would swallow the
\* release of a later, delivered press (a neutralization under way clears the
\* counts at its end).
WithheldAwaitsRelease ==
    neutralizing = Idle =>
      \A o \in Outputs :
        blocked_output_keys[o] > 0 =>
            \E k \in Tracked : o \in Route(k, held_source_actions[k])

\* The outputs that write_key serves; a routed controller does not pass it.
BlockedByMacro == {o \in Outputs : o[1] = "keyboard" \/ ~DefaultOutput}

\* No step presses an output while input is paused for a suspend or a
\* neutralization or while the inspector suppresses the device, nor one that
\* write_key serves while a macro blocks the keyboard.
QuietWhileClosed ==
    [][/\ runtime_input_paused \/ suppressed => down' \subseteq down
       /\ keyboard_block => down' \cap BlockedByMacro \subseteq down]_vars

\* If the user lets go of every key for good, every output is eventually
\* released for good, whatever the session keeps changing meanwhile.
EventuallyReleased == <>[](physical = {}) => <>[](down = {})
=============================================================================
