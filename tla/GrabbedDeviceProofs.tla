------------------------- MODULE GrabbedDeviceProofs -------------------------
(***************************************************************************)
(* What holds of the key path for every set of keys, mappings and bounds.  *)
(***************************************************************************)
EXTENDS GrabbedDevice, FiniteSetTheorems, SequenceTheorems, TLAPS

-----------------------------------------------------------------------------
(* What the operations that write outputs do to them. *)

\* A write, of write_key or of the default controller route.
Written(O, v) == write_key(O, v) \/ emit(O, v)

\* The output of an event is one of the two, on the route of its action.
LEMMA OutputWrites ==
    ASSUME NEW k, NEW action, NEW v, output(k, action, v)
    PROVE  Written(Route(k, action), v)
BY DEF output, Written

\* A write tracks what it presses and what it releases.
LEMMA WriteKeepsTracked ==
    ASSUME NEW O, NEW v, Written(O, v), DownIsTracked
    PROVE  DownIsTracked'
<1>1. PICK W : WriteAndTrack(W, v)
  BY DEF Written, write_key, emit
<1>2. CASE v \in {0, 1}
  BY <1>1, <1>2 DEF WriteAndTrack, Turned, DownIsTracked
<1>3. CASE v \notin {0, 1}
  BY <1>1, <1>3 DEF WriteAndTrack, Turned, DownIsTracked
<1> QED
  BY <1>2, <1>3

\* Whatever a write that raised has touched, everything else is as it was, and it
\* presses nothing while the keyboard is blocked.
LEMMA RaisedWithin ==
    ASSUME NEW at \in Raised
    PROVE  /\ at.touched \subseteq Route(NextEvent.key, EventAction)
           /\ at.held \ at.touched = held_output_keys \ at.touched
           /\ at.down \ at.touched = down \ at.touched
           /\ keyboard_block => at.down \subseteq down
           /\ ~WriteFailures => at.touched = {}
<1> DEFINE v == NextEvent.value
           O == Route(NextEvent.key, EventAction)
           written == IF Routed(EventAction) THEN O ELSE O \ Withheld(O, v)
           held == Turned(held_output_keys, written, v)
           pressed == Turned(down, written, v)
<1>1. \/ at = [touched |-> {}, held |-> held_output_keys, down |-> down]
      \/ /\ Routed(EventAction) /\ WriteFailures
         /\ at = [touched |-> written, held |-> held, down |-> down]
      \/ /\ ~Routed(EventAction) /\ WriteFailures
         /\ at = [touched |-> written, held |-> held_output_keys, down |-> pressed]
  <2>1. CASE ~WriteFailures
    BY <2>1 DEF Raised
  <2>2. CASE WriteFailures /\ Routed(EventAction)
    BY <2>2 DEF Raised
  <2>3. CASE WriteFailures /\ ~Routed(EventAction) /\ EventAction.type = "keyboard"
    BY <2>3 DEF Raised
  <2>4. CASE WriteFailures /\ ~Routed(EventAction) /\ EventAction.type # "keyboard"
    BY <2>4 DEF Raised
  <2> QED
    BY <2>1, <2>2, <2>3, <2>4
<1>2. written \subseteq O
  OBVIOUS
<1>3. /\ held \ written = held_output_keys \ written
      /\ pressed \ written = down \ written
  BY DEF Turned
<1>4. ~Routed(EventAction) /\ keyboard_block => pressed \subseteq down
  BY DEF Turned, Withheld
<1> HIDE DEF v, O, written, held, pressed
<1> QED
  BY <1>1, <1>2, <1>3, <1>4 DEF O

\* A release of everything keeps what is down within what is tracked, whatever
\* its writes do, if that held of what it was given.
LEMMA ReleaseLeaves ==
    ASSUME NEW held, NEW pressed, release_all_keys(held, pressed)
    PROVE  /\ down' \subseteq pressed
           /\ down' \subseteq held_output_keys' \cup (pressed \ held)
           /\ down' \subseteq unwritten' \cup (pressed \ held)
BY DEF release_all_keys

\* The steps that write no output.
Silent ==
    \/ Hardware \/ PausedEvent \/ QuarantinedEvent \/ SuppressedEvent
    \/ DeferReconcile \/ ReconcileReadFails
    \/ (\E by \in {"sleep", "mask"} : NeutralizeBegin(by)) \/ NeutralizeQuarantine
    \/ (\E m \in Mappings : set_mapping(m))
    \/ (\E on \in BOOLEAN : SetRecording(on) \/ SetKeyboardBlock(on))
    \/ pause_runtime_input \/ resume_runtime_input
    \/ UNCHANGED vars

\* Every other step writes keys or releases everything.
Writes ==
    \/ apply_fast_passthrough
    \/ apply_mapped_action_or_passthrough
    \/ (\E active \in SUBSET Keys : reconcile_live_key_state(active))

ReleasesAll ==
    \/ recover_from_event_processing_error
    \/ NeutralizeFinish
    \/ (\E on \in BOOLEAN : SetSuppression(on))

\* What is released then was tracked, or touched by the event that raised.
LEMMA ReleasesGiven ==
    ASSUME ReleasesAll
    PROVE  \E held, pressed, touched :
             /\ release_all_keys(held, pressed)
             /\ held \ touched = held_output_keys \ touched
             /\ pressed \ touched = down \ touched
             /\ \/ slipped' = ((slipped \ touched) \cup (touched \cap pressed)) \ held
                \/ touched = {} /\ slipped' = slipped
             /\ keyboard_block \/ runtime_input_paused \/ suppressed => pressed \subseteq down
             /\ ~WriteFailures => touched = {}
<1>1. CASE NeutralizeFinish \/ (\E on \in BOOLEAN : SetSuppression(on))
  <2>1. release_all_keys(held_output_keys, down) /\ slipped' = slipped
    BY <1>1 DEF NeutralizeFinish, SetSuppression, release_everything
  <2> WITNESS held_output_keys, down, {}
  <2> QED
    BY <2>1
<1>2. CASE recover_from_event_processing_error
  <2>1. PICK at \in Raised :
          /\ release_all_keys(at.held, at.down)
          /\ slipped' = ((slipped \ at.touched) \cup (at.touched \cap at.down)) \ at.held
    BY <1>2 DEF recover_from_event_processing_error
  <2>2. ~runtime_input_paused /\ ~suppressed
    BY <1>2 DEF recover_from_event_processing_error, PassIntercept
  <2>3. /\ at.held \ at.touched = held_output_keys \ at.touched
        /\ at.down \ at.touched = down \ at.touched
        /\ keyboard_block => at.down \subseteq down
        /\ ~WriteFailures => at.touched = {}
    BY RaisedWithin
  <2> DEFINE held == at.held
             pressed == at.down
             touched == at.touched
  <2>4. /\ release_all_keys(held, pressed)
        /\ slipped' = ((slipped \ touched) \cup (touched \cap pressed)) \ held
        /\ held \ touched = held_output_keys \ touched
        /\ pressed \ touched = down \ touched
        /\ keyboard_block \/ runtime_input_paused \/ suppressed => pressed \subseteq down
        /\ ~WriteFailures => touched = {}
    BY <2>1, <2>2, <2>3
  <2> HIDE DEF held, pressed, touched
  <2> QED
    BY <2>4, Zenon
<1> QED
  BY <1>1, <1>2 DEF ReleasesAll

\* A step is silent, writes keys, or releases everything.
LEMMA StepKinds == [Next]_vars => Silent \/ Writes \/ ReleasesAll
BY DEF Next, Pipeline, Reconcile, Neutralize, Control, Silent, Writes, ReleasesAll

\* Silent steps leave the outputs alone.
LEMMA SilentKeepsOutputs ==
    ASSUME Silent
    PROVE  UNCHANGED outputs
BY DEF Silent, Hardware, Press, Release, Repeat, Enqueue, PausedEvent, QuarantinedEvent,
   SuppressedEvent, DeferReconcile, ReconcileReadFails, NeutralizeBegin, NeutralizeQuarantine,
   set_mapping, SetRecording, SetKeyboardBlock, pause_runtime_input, resume_runtime_input, vars

-----------------------------------------------------------------------------
\* Every step keeps what is down within what is tracked.
LEMMA TrackedStep == DownIsTracked /\ [Next]_vars => DownIsTracked'
<1> SUFFICES ASSUME DownIsTracked, [Next]_vars PROVE DownIsTracked'
  OBVIOUS
<1>1. CASE Silent
  BY <1>1, SilentKeepsOutputs DEF DownIsTracked, outputs
<1>2. CASE Writes
  <2>1. \E O, v : Written(O, v)
    BY <1>2, OutputWrites DEF Writes, apply_fast_passthrough, Written,
       apply_mapped_action_or_passthrough, reconcile_live_key_state, seed_startup_held_actions
  <2> QED
    BY <2>1, WriteKeepsTracked
<1>3. CASE ReleasesAll
  <2>1. PICK held, pressed, touched :
          /\ release_all_keys(held, pressed)
          /\ held \ touched = held_output_keys \ touched
          /\ pressed \ touched = down \ touched
          /\ \/ slipped' = ((slipped \ touched) \cup (touched \cap pressed)) \ held
             \/ touched = {} /\ slipped' = slipped
    BY <1>3, ReleasesGiven
  <2>2. pressed \ held \subseteq slipped'
    BY <2>1 DEF DownIsTracked
  <2> QED
    BY <2>1, <2>2, ReleaseLeaves DEF DownIsTracked
<1> QED
  BY <1>1, <1>2, <1>3, StepKinds

\* Whatever the kernel holds down, the runtime tracks, unless the output's own
\* event raised between its write and its tracking: the bookkeeping of
\* track_key_state and release_all_keys forgets no other output before its
\* release was written, for every mapping, interleaving and failing write.
THEOREM DownStaysTracked == Spec => []DownIsTracked
<1>1. Init => DownIsTracked
  BY DEF Init, DownIsTracked
<1> QED
  BY <1>1, TrackedStep, PTL DEF Spec

\* A step leaves no output untracked but in an event that raises, and then only
\* outputs on the route of that event (write_key, DefaultControllerRoute.emit).
SlipsOnlyWhenRaised ==
    [][\A o \in slipped' \ slipped :
          /\ recover_from_event_processing_error /\ WriteFailures
          /\ o \in Route(NextEvent.key, EventAction)]_vars

\* The exception of DownStaysTracked is no wider than what it says: an output
\* slips only where the write of its own event raises.
THEOREM SlipsAreRaised == Spec => SlipsOnlyWhenRaised
<1>1. ASSUME [Next]_vars, NEW o \in slipped' \ slipped
      PROVE  /\ recover_from_event_processing_error /\ WriteFailures
             /\ o \in Route(NextEvent.key, EventAction)
  <2>1. CASE Silent
    BY <1>1, <2>1, SilentKeepsOutputs DEF outputs
  <2>2. CASE Writes
    <3>1. \E O, v : Written(O, v)
      BY <2>2, OutputWrites DEF Writes, apply_fast_passthrough, Written,
         apply_mapped_action_or_passthrough, reconcile_live_key_state, seed_startup_held_actions
    <3> QED
      BY <1>1, <3>1 DEF Written, write_key, emit, WriteAndTrack
  <2>3. CASE NeutralizeFinish \/ (\E on \in BOOLEAN : SetSuppression(on))
    BY <1>1, <2>3 DEF NeutralizeFinish, SetSuppression, release_everything
  <2>4. CASE recover_from_event_processing_error
    <3>1. PICK at \in Raised :
            slipped' = ((slipped \ at.touched) \cup (at.touched \cap at.down)) \ at.held
      BY <2>4 DEF recover_from_event_processing_error
    <3> QED
      BY <1>1, <2>4, <3>1, RaisedWithin
  <2> QED
    BY <1>1, <2>1, <2>2, <2>3, <2>4, StepKinds DEF ReleasesAll
<1>2. [Next]_vars => [\A o \in slipped' \ slipped :
                         /\ recover_from_event_processing_error /\ WriteFailures
                         /\ o \in Route(NextEvent.key, EventAction)]_vars
  BY <1>1
<1> QED
  BY <1>2, PTL DEF Spec, SlipsOnlyWhenRaised

\* A release owed to a keyboard key leaves through write_key.
LEMMA BlockedRoutes ==
    ASSUME NEW k, NEW action, NEW o \in Route(k, action) \cap BlockedByMacro
    PROVE  ~Routed(action)
BY DEF Route, BlockedByMacro, Routed

\* No step presses an output while input is paused or suppressed, nor one that
\* write_key serves while a macro blocks the keyboard: every path to an output
\* passes the pause and the suppression, and write_key looks at the block.
THEOREM ClosedIsQuiet == Spec => QuietWhileClosed
<1> DEFINE Quiet == /\ runtime_input_paused \/ suppressed => down' \subseteq down
                    /\ keyboard_block => down' \cap BlockedByMacro \subseteq down
<1>1. [Next]_vars => Quiet
  <2> SUFFICES ASSUME [Next]_vars PROVE Quiet
    OBVIOUS
  <2>1. CASE Silent
    BY <2>1, SilentKeepsOutputs DEF outputs
  <2>2. CASE ReleasesAll
    <3>1. PICK held, pressed, touched :
            /\ release_all_keys(held, pressed)
            /\ keyboard_block \/ runtime_input_paused \/ suppressed => pressed \subseteq down
      BY <2>2, ReleasesGiven
    <3> QED
      BY <3>1, ReleaseLeaves
  <2>3. CASE apply_fast_passthrough \/ apply_mapped_action_or_passthrough
    <3>1. ~runtime_input_paused /\ ~suppressed
      BY <2>3 DEF apply_fast_passthrough, apply_mapped_action_or_passthrough, PassIntercept
    <3>2. PICK action : output(NextEvent.key, action, NextEvent.value)
      BY <2>3 DEF apply_fast_passthrough, apply_mapped_action_or_passthrough
    <3> DEFINE O == Route(NextEvent.key, action)
               v == NextEvent.value
    <3>3. CASE Routed(action)
      <4>1. down' \subseteq down \cup O
        BY <3>2, <3>3 DEF output, emit, WriteAndTrack, Turned
      <4>2. O \cap BlockedByMacro = {}
        BY <3>3, BlockedRoutes
      <4> QED
        BY <3>1, <4>1, <4>2
    <3>4. CASE ~Routed(action)
      <4>1. WriteAndTrack(O \ Withheld(O, v), v)
        BY <3>2, <3>4 DEF output, write_key
      <4>2. keyboard_block => down' \subseteq down
        BY <4>1 DEF WriteAndTrack, Turned, Withheld
      <4> QED
        BY <3>1, <4>2
    <3> QED
      BY <3>3, <3>4
  <2>4. CASE \E active \in SUBSET Keys : reconcile_live_key_state(active)
    <3>1. \E W : WriteAndTrack(W, 0)
      BY <2>4 DEF reconcile_live_key_state, seed_startup_held_actions, write_key
    <3> QED
      BY <3>1 DEF WriteAndTrack, Turned
  <2> QED
    BY <2>1, <2>2, <2>3, <2>4, StepKinds DEF Writes
<1>2. [Next]_vars => [Quiet]_vars
  BY <1>1
<1> QED
  BY <1>2, PTL DEF Spec, QuietWhileClosed

-----------------------------------------------------------------------------
(* Type correctness. *)

\* No event is a sequence of events.
LEMMA NoEvents == <<>> \in Seq(Event)
OBVIOUS

\* An action drives outputs of the model only.
LEMMA RouteType ==
    ASSUME NEW k \in Keys, NEW action \in Action \cup {Absent}
    PROVE  Route(k, action) \subseteq Outputs
<1>1. CASE action.type = "keyboard"
  <2>1. action.target \in Targets
    BY <1>1 DEF Action, NoAction, Suppress, Passthrough, Absent, Keyboard
  <2> QED
    BY <1>1, <2>1 DEF Route, Outputs
<1>2. CASE action.type # "keyboard"
  BY <1>2 DEF Route, Outputs
<1> QED
  BY <1>1, <1>2

\* A write keeps the types: a count is only taken down where it is positive.
LEMMA WriteTypes ==
    ASSUME OutputTypes, NEW O \in SUBSET Outputs, NEW v \in 0..2, Written(O, v)
    PROVE  OutputTypes'
<1> USE DEF OutputTypes
<1>1. blocked_output_keys' \in [Outputs -> Nat]
  BY DEF Written, write_key, emit, Withheld
<1>2. PICK W \in SUBSET Outputs : WriteAndTrack(W, v)
  BY DEF Written, write_key, emit
<1>3. /\ held_output_keys' \subseteq Outputs /\ down' \subseteq Outputs
      /\ unwritten' \subseteq Outputs /\ slipped' \subseteq Outputs
  BY <1>2 DEF WriteAndTrack, Turned
<1> QED
  BY <1>1, <1>3

\* The reader hands out an event and keeps the rest.
LEMMA ReadTypes ==
    ASSUME QueueTypes, read_events
    PROVE  QueueTypes' /\ NextEvent \in Event
<1>1. CASE input_event_buffer # <<>>
  BY <1>1 DEF QueueTypes, read_events, NextEvent
<1>2. CASE input_event_buffer = <<>>
  BY <1>2 DEF QueueTypes, read_events, NextEvent, HasEvent
<1> QED
  BY <1>1, <1>2

\* The action an event follows is one that was mapped.
LEMMA EventActionType ==
    ASSUME TypeOK, read_events
    PROVE  EventAction \in Action \cup {Absent} /\ NextEvent.key \in Keys
<1>1. NextEvent \in Event /\ NextEvent.key \in Keys
  BY ReadTypes DEF TypeOK, Event
<1>2. mapping \in [Keys -> Action]
  BY GrabbedDeviceAssumption DEF TypeOK, SettingTypes
<1> QED
  BY <1>1, <1>2 DEF EventAction, TypeOK, SourceTypes

\* A release of everything keeps the types, also after an event that raised.
LEMMA ReleaseTypes ==
    ASSUME TypeOK, ReleasesAll
    PROVE  /\ OutputTypes'
           /\ held_source_keys' \subseteq Keys
           /\ held_source_actions' \in [Keys -> Action \cup {Absent}]
<1>1. ASSUME NEW held \in SUBSET Outputs, NEW pressed \in SUBSET Outputs,
             release_all_keys(held, pressed), slipped' \subseteq Outputs
      PROVE  /\ OutputTypes'
             /\ held_source_keys' \subseteq Keys
             /\ held_source_actions' \in [Keys -> Action \cup {Absent}]
  BY <1>1 DEF OutputTypes, release_all_keys
<1>2. CASE NeutralizeFinish \/ (\E on \in BOOLEAN : SetSuppression(on))
  BY <1>1, <1>2 DEF NeutralizeFinish, SetSuppression, release_everything, TypeOK, OutputTypes
<1>3. CASE recover_from_event_processing_error
  <2>1. PICK at \in Raised :
          /\ release_all_keys(at.held, at.down)
          /\ slipped' = ((slipped \ at.touched) \cup (at.touched \cap at.down)) \ at.held
    BY <1>3 DEF recover_from_event_processing_error
  <2>2. at.touched \subseteq Outputs
    <3>1. Route(NextEvent.key, EventAction) \subseteq Outputs
      BY <1>3, EventActionType, RouteType DEF recover_from_event_processing_error, PassIntercept
    <3> QED
      BY <3>1, RaisedWithin
  <2>3. at.held \in SUBSET Outputs /\ at.down \in SUBSET Outputs /\ slipped' \subseteq Outputs
    BY <2>1, <2>2, RaisedWithin DEF TypeOK, OutputTypes
  <2> QED
    BY <1>1, <2>1, <2>3
<1> QED
  BY <1>2, <1>3 DEF ReleasesAll

\* Repairs are events, in whichever order the sets are enumerated.
LEMMA EventsType ==
    ASSUME NEW S \in SUBSET Keys, NEW v \in 0..2
    PROVE  Events(S, v) \in Seq(Event)
<1> DEFINE n == Cardinality(S)
           order == SetToSeq(S)
<1>1. IsFiniteSet(S)
  BY GrabbedDeviceAssumption, FS_Subset
<1>2. n \in Nat /\ ExistsBijection(1..n, S)
  BY <1>1, FS_CardinalityType
<1>3. \E f \in [1..n -> S] : IsInjective(f)
  BY <1>2 DEF ExistsBijection, Bijection, Injection
<1>4. order \in [1..n -> S]
  BY <1>3 DEF SetToSeq
<1> HIDE DEF n, order
<1>5. \A i \in 1..n : [key |-> order[i], value |-> v] \in Event
  BY <1>4 DEF Event
<1>6. [i \in 1..n |-> [key |-> order[i], value |-> v]] \in Seq(Event)
  BY <1>2, <1>5
<1> QED
  BY <1>6 DEF Events, n, order

\* So the buffer a reconciliation leaves is a sequence of events.
LEMMA RepairsType ==
    ASSUME NEW events \in Seq(Event), NEW active \in SUBSET Keys, SourceTypes
    PROVE  Repairs(events, active) \in Seq(Event) /\ Known(events) \subseteq Keys
<1>1. \A i \in 1..Len(events) : events[i].key \in Keys
  <2>1. \A i \in 1..Len(events) : events[i] \in Event
    BY ElementOfSeq
  <2>2. \A e \in Event : e.key \in Keys
    BY DEF Event
  <2> QED
    BY <2>1, <2>2
<1>2. Known(events) \subseteq Keys
  BY <1>1 DEF Known, Tracked, SourceTypes
<1>3. Projected(events) \subseteq Keys
  BY <1>2 DEF Projected
<1>4. /\ Projected(events) \ active \in SUBSET Keys
      /\ (active \ Projected(events)) \cap Known(events) \in SUBSET Keys
  BY <1>2, <1>3
<1>5. /\ Events(Projected(events) \ active, 0) \in Seq(Event)
      /\ Events((active \ Projected(events)) \cap Known(events), 1) \in Seq(Event)
  BY <1>4, EventsType
<1> QED
  BY <1>2, <1>5 DEF Repairs

\* Every step keeps the types.
LEMMA TypeOKStep == TypeOK /\ [Next]_vars => TypeOK'
<1> SUFFICES ASSUME TypeOK, [Next]_vars PROVE TypeOK'
  OBVIOUS
<1> USE DEF TypeOK
<1>0. mapping \in [Keys -> Action]
  BY GrabbedDeviceAssumption DEF SettingTypes
<1>1. CASE Hardware
  <2>1. PICK k \in Keys, v \in 0..2 : physical' \subseteq Keys /\ Enqueue(k, v)
    BY <1>1 DEF Hardware, Press, Release, Repeat, QueueTypes
  <2>2. [key |-> k, value |-> v] \in Event
    BY DEF Event
  <2>3. QueueTypes'
    BY <2>1, <2>2 DEF Enqueue, QueueTypes, reader
  <2>4. UNCHANGED <<sources, quarantined_source_keys, outputs, pause, settings>>
    BY <2>1 DEF Enqueue
  <2> QED
    BY <2>3, <2>4 DEF SourceTypes, OutputTypes, PauseTypes, SettingTypes, sources, outputs,
       pause, settings
<1>2. CASE PausedEvent \/ QuarantinedEvent \/ SuppressedEvent
  <2>1. QueueTypes' /\ NextEvent \in Event
    BY <1>2, ReadTypes DEF PausedEvent, QuarantinedEvent, SuppressedEvent, PassIntercept
  <2>2. quarantined_source_keys' \subseteq Keys
    BY <1>2, <2>1 DEF PausedEvent, QuarantinedEvent, SuppressedEvent, PassIntercept, Event,
       SourceTypes
  <2>3. UNCHANGED <<sources, outputs, pause, settings>>
    BY <1>2 DEF PausedEvent, QuarantinedEvent, SuppressedEvent
  <2> QED
    BY <2>1, <2>2, <2>3 DEF SourceTypes, OutputTypes, PauseTypes, SettingTypes, sources,
       outputs, pause, settings
<1>3. CASE apply_fast_passthrough \/ apply_mapped_action_or_passthrough
  <2>1. QueueTypes' /\ NextEvent \in Event /\ quarantined_source_keys' \subseteq Keys
    BY <1>3, ReadTypes DEF apply_fast_passthrough, apply_mapped_action_or_passthrough,
       PassIntercept, SourceTypes
  <2>2. /\ NextEvent.key \in Keys /\ NextEvent.value \in 0..2
        /\ mapping[NextEvent.key] \in Action
        /\ held_source_actions[NextEvent.key] \in Action \cup {Absent}
        /\ NoAction \in Action
    BY <1>0, <2>1 DEF Event, SourceTypes, Action
  <2>3. held_source_keys' \subseteq Keys
    BY <1>3, <2>2 DEF apply_fast_passthrough, apply_mapped_action_or_passthrough,
       observe_source_key_transition, SourceTypes
  <2>4. held_source_actions' \in [Keys -> Action \cup {Absent}]
    BY <1>3, <2>2 DEF apply_fast_passthrough, apply_mapped_action_or_passthrough, SourceTypes
  <2>5. \E action \in Action \cup {Absent} :
          Written(Route(NextEvent.key, action), NextEvent.value)
    BY <1>3, <2>2, OutputWrites DEF apply_fast_passthrough, apply_mapped_action_or_passthrough,
       EventAction
  <2>6. OutputTypes'
    BY <2>2, <2>5, RouteType, WriteTypes
  <2>7. UNCHANGED <<pause, settings>>
    BY <1>3 DEF apply_fast_passthrough, apply_mapped_action_or_passthrough
  <2> QED
    BY <2>1, <2>3, <2>4, <2>6, <2>7 DEF SourceTypes, PauseTypes, SettingTypes, pause, settings
<1>4. CASE recover_from_event_processing_error
  <2>1. QueueTypes' /\ quarantined_source_keys' \subseteq Keys
    BY <1>4, ReadTypes DEF recover_from_event_processing_error, PassIntercept, SourceTypes
  <2>2. OutputTypes' /\ SourceTypes'
    BY <1>4, <2>1, ReleaseTypes DEF ReleasesAll, SourceTypes
  <2> QED
    BY <1>4, <2>1, <2>2 DEF recover_from_event_processing_error, PauseTypes, SettingTypes,
       pause, settings
<1>5. CASE \E active \in SUBSET Keys : reconcile_live_key_state(active)
  <2>1. PICK active \in SUBSET Keys : reconcile_live_key_state(active)
    BY <1>5
  <2> DEFINE S == active \ Known(unread)
             O == UNION {Route(k, mapping[k]) : k \in {j \in S : mapping[j].type = "keyboard"}}
  <2>2. unread \in Seq(Event)
    BY DEF QueueTypes
  <2>3. Repairs(unread, active) \in Seq(Event) /\ S \subseteq Keys
    BY <2>2, RepairsType
  <2>4. QueueTypes'
    BY <2>1, <2>2, <2>3, NoEvents, ConcatProperties DEF reconcile_live_key_state, QueueTypes
  <2>5. SourceTypes'
    BY <1>0, <2>1, <2>3 DEF reconcile_live_key_state, seed_startup_held_actions, SourceTypes
  <2>6. O \in SUBSET Outputs
    BY <1>0, <2>3, RouteType
  <2>7. Written(O, 0)
    BY <2>1 DEF reconcile_live_key_state, seed_startup_held_actions, Written
  <2> HIDE DEF S, O
  <2>8. OutputTypes'
    BY <2>6, <2>7, WriteTypes
  <2> QED
    BY <2>1, <2>4, <2>5, <2>8 DEF reconcile_live_key_state, PauseTypes, SettingTypes, pause,
       settings
<1>6. CASE DeferReconcile \/ ReconcileReadFails
  <2>1. unread \in Seq(Event) /\ DrainLimit \in Nat \ {0}
    BY GrabbedDeviceAssumption DEF QueueTypes
  <2>2. CASE DeferReconcile
    <3>1. /\ SubSeq(unread, 1, DrainLimit) \in Seq(Event)
          /\ SubSeq(unread, DrainLimit + 1, Len(unread)) \in Seq(Event)
      BY <2>1, <2>2, SubSeqProperties DEF DeferReconcile
    <3> QED
      BY <2>2, <3>1 DEF DeferReconcile, QueueTypes, SourceTypes, OutputTypes, PauseTypes,
         SettingTypes, sources, outputs, pause, settings
  <2>3. CASE ReconcileReadFails
    BY <2>1, <2>3, NoEvents DEF ReconcileReadFails, QueueTypes, SourceTypes, OutputTypes,
       PauseTypes, SettingTypes, sources, outputs, pause, settings
  <2> QED
    BY <1>6, <2>2, <2>3
<1>7. CASE (\E by \in {"sleep", "mask"} : NeutralizeBegin(by)) \/ NeutralizeQuarantine
  <2>1. PauseTypes'
    <3>1. CASE \E by \in {"sleep", "mask"} : NeutralizeBegin(by)
      BY <3>1 DEF NeutralizeBegin, PauseTypes
    <3>2. CASE NeutralizeQuarantine
      BY <3>2 DEF NeutralizeQuarantine, PauseTypes
    <3> QED
      BY <1>7, <3>1, <3>2
  <2>2. SourceTypes'
    BY <1>7 DEF NeutralizeBegin, NeutralizeQuarantine, SourceTypes, Tracked, sources
  <2> QED
    BY <1>7, <2>1, <2>2 DEF NeutralizeBegin, NeutralizeQuarantine, QueueTypes, OutputTypes,
       SettingTypes, queue, reader, outputs, settings
<1>8. CASE NeutralizeFinish
  <2>1. OutputTypes' /\ SourceTypes'
    BY <1>8, ReleaseTypes DEF ReleasesAll, NeutralizeFinish, SourceTypes
  <2>2. PauseTypes'
    BY <1>8 DEF NeutralizeFinish, PauseTypes, Idle
  <2> QED
    BY <1>8, <2>1, <2>2 DEF NeutralizeFinish, QueueTypes, SettingTypes, queue, reader, settings
<1>9. CASE \E on \in BOOLEAN : SetSuppression(on)
  <2>1. OutputTypes' /\ SourceTypes'
    BY <1>9, ReleaseTypes DEF ReleasesAll, SetSuppression, SourceTypes
  <2> QED
    BY <1>9, <2>1 DEF SetSuppression, QueueTypes, PauseTypes, SettingTypes, queue, pause
<1>10. CASE \/ \E m \in Mappings : set_mapping(m)
            \/ \E on \in BOOLEAN : SetRecording(on) \/ SetKeyboardBlock(on)
  <2>1. QueueTypes' /\ SettingTypes'
    BY <1>10 DEF set_mapping, SetRecording, SetKeyboardBlock, QueueTypes, SettingTypes, queue,
       reader
  <2> QED
    BY <1>10, <2>1 DEF set_mapping, SetRecording, SetKeyboardBlock, SourceTypes, OutputTypes,
       PauseTypes, sources, outputs, pause
<1>11. CASE pause_runtime_input \/ resume_runtime_input
  BY <1>11 DEF pause_runtime_input, resume_runtime_input, QueueTypes, SourceTypes, OutputTypes,
     PauseTypes, SettingTypes, queue, reader, sources, outputs, settings
<1>12. CASE UNCHANGED vars
  BY <1>12 DEF vars, QueueTypes, SourceTypes, OutputTypes, PauseTypes, SettingTypes, queue,
     reader, sources, outputs, pause, settings
<1> QED
  BY <1>1, <1>2, <1>3, <1>4, <1>5, <1>6, <1>7, <1>8, <1>9, <1>10, <1>11, <1>12
     DEF Next, Pipeline, Reconcile, Neutralize, Control

\* A fresh grab has its types.
LEMMA TypesInit == Init => TypeOK
<1> SUFFICES ASSUME Init PROVE TypeOK
  OBVIOUS
<1>1. QueueTypes
  BY NoEvents DEF Init, QueueTypes
<1>2. SourceTypes /\ OutputTypes
  BY DEF Init, SourceTypes, OutputTypes
<1>3. PauseTypes /\ SettingTypes
  BY DEF Init, PauseTypes, SettingTypes, Idle
<1> QED
  BY <1>1, <1>2, <1>3 DEF TypeOK

\* The key path keeps its types: no withheld press is counted off twice, and the
\* repairs of a reconciliation are events of this device.
THEOREM TypesHold == Spec => []TypeOK
BY TypesInit, TypeOKStep, PTL DEF Spec

-----------------------------------------------------------------------------
(* The history of each key between the hardware and the runtime.  The two   *)
(* queues are read as one stream, whose events of one key alternate and end *)
(* in what the hardware holds.                                              *)

Stream == input_event_buffer \o unread

\* No event of key k in positions m to n of q.
NoneOf(q, k, m, n) == \A i \in m..n : q[i].key # k

\* Two events of a key with none between: a press follows a release, and
\* nothing else follows one.
Alternates(q) ==
    \A i, j \in 1..Len(q) :
        i < j /\ q[i].key = q[j].key /\ NoneOf(q, q[i].key, i + 1, j - 1)
            => (q[i].value = 0 <=> q[j].value = 1)

\* The last event of a key says whether the set H of keys that are held has it.
EndsIn(q, H) ==
    \A i \in 1..Len(q) :
        NoneOf(q, q[i].key, i + 1, Len(q)) => (q[i].value # 0 <=> q[i].key \in H)

\* No key of T is pressed again before its release; one without events is held.
Awaits(q, T, H) ==
    \A k \in T :
        /\ \A i \in 1..Len(q) : q[i].key = k /\ NoneOf(q, k, 1, i - 1) => q[i].value # 1
        /\ NoneOf(q, k, 1, Len(q)) => k \in H

StreamInv == Alternates(Stream) /\ EndsIn(Stream, physical)

\* Events reach the stages behind the pause, the quarantine and the suppression.
Live == neutralizing = Idle /\ ~runtime_input_paused /\ ~suppressed

\* What the runtime follows still awaits its release, and no stage swallows it.
FollowInv ==
    Live => /\ Awaits(Stream, Tracked, physical)
            /\ Tracked \cap quarantined_source_keys = {}

\* Input is paused by a suspend or by a neutralization under way, and nothing
\* is followed once a neutralization has ended in a pause.
SuspendInv ==
    /\ neutralizing.by = "sleep" => sleep = "preparing"
    /\ sleep = "awake" /\ runtime_input_paused => neutralizing # Idle /\ ~was_paused
    /\ neutralizing = Idle /\ runtime_input_paused /\ sleep = "neutralized" => Tracked = {}

\* Suspends and neutralizations, mapping changes and suppressions: one of the
\* two kinds does not happen.
NoSuspends == Operations \cap {"sleep", "mask"} = {}
NoChanges  == Operations \cap {"map", "suppress"} = {}

ModeInv ==
    /\ NoSuspends => /\ sleep = "awake" /\ neutralizing = Idle /\ ~runtime_input_paused
                     /\ quarantined_source_keys = {}
    /\ NoChanges => ~key_state_reconcile_requested /\ ~suppressed

\* The keys that owe output o a release.
Owing(o) == {k \in Keys : o \in Route(k, held_source_actions[k])}

\* Each withheld press, and the output if it is down, is owed a release.
Due(o) ==
    blocked_output_keys[o] + (IF o \in down \ (unwritten \cup slipped) THEN 1 ELSE 0)

OwedInv == neutralizing = Idle => \A o \in Outputs : Cardinality(Owing(o)) >= Due(o)

FollowingInv == TypeOK /\ StreamInv /\ FollowInv /\ SuspendInv /\ ModeInv

\* The stream after one more event of the hardware: a press of a key that is
\* not held, or a release or repeat of one that is.
LEMMA HistoryGrows ==
    ASSUME NEW q \in Seq(Event), NEW e \in Event, NEW T, NEW H, NEW G,
           e.value = 1 <=> e.key \notin H,
           \A k : k # e.key => (k \in G <=> k \in H),
           e.key \in G <=> e.value # 0,
           Alternates(q), EndsIn(q, H)
    PROVE  /\ Alternates(Append(q, e)) /\ EndsIn(Append(q, e), G)
           /\ Awaits(q, T, H) => Awaits(Append(q, e), T, G)
<1> DEFINE n == Len(q)
           a == Append(q, e)
<1>1. /\ n \in Nat /\ Len(a) = n + 1 /\ a[n + 1] = e
      /\ \A i \in 1..n : a[i] = q[i]
  BY AppendProperties, LenProperties
<1> HIDE DEF n, a
<1>2. \A k : \A i, m \in 1..n : NoneOf(a, k, i, m) <=> NoneOf(q, k, i, m)
  BY <1>1 DEF NoneOf
<1>3. Alternates(a)
  <2> SUFFICES ASSUME NEW i \in 1..(n + 1), NEW j \in 1..(n + 1), i < j,
                      a[i].key = a[j].key, NoneOf(a, a[i].key, i + 1, j - 1)
               PROVE  a[i].value = 0 <=> a[j].value = 1
    BY <1>1 DEF Alternates
  <2>1. i \in 1..n /\ a[i] = q[i]
    BY <1>1
  <2>2. CASE j = n + 1
    <3>1. NoneOf(q, q[i].key, i + 1, n)
      BY <1>1, <2>1, <2>2 DEF NoneOf
    <3>2. q[i].value # 0 <=> q[i].key \in H
      BY <2>1, <3>1 DEF EndsIn, n
    <3> QED
      BY <1>1, <2>1, <2>2, <3>2
  <2>3. CASE j # n + 1
    <3>1. j \in 1..n /\ a[j] = q[j]
      BY <1>1, <2>3
    <3>2. NoneOf(q, q[i].key, i + 1, j - 1)
      BY <1>1, <2>1, <3>1 DEF NoneOf
    <3> QED
      BY <2>1, <3>1, <3>2 DEF Alternates, n
  <2> QED
    BY <2>2, <2>3
<1>4. EndsIn(a, G)
  <2> SUFFICES ASSUME NEW i \in 1..(n + 1), NoneOf(a, a[i].key, i + 1, n + 1)
               PROVE  a[i].value # 0 <=> a[i].key \in G
    BY <1>1 DEF EndsIn
  <2>1. CASE i = n + 1
    BY <1>1, <2>1
  <2>2. CASE i # n + 1
    <3>1. i \in 1..n /\ a[i] = q[i]
      BY <1>1, <2>2
    <3>2. NoneOf(q, q[i].key, i + 1, n) /\ q[i].key # e.key
      BY <1>1, <3>1 DEF NoneOf
    <3>3. q[i].value # 0 <=> q[i].key \in H
      BY <3>1, <3>2 DEF EndsIn, n
    <3> QED
      BY <3>1, <3>2, <3>3
  <2> QED
    BY <2>1, <2>2
<1>5. ASSUME Awaits(q, T, H) PROVE Awaits(a, T, G)
  <2> SUFFICES ASSUME NEW k \in T
               PROVE  /\ \A i \in 1..(n + 1) :
                           a[i].key = k /\ NoneOf(a, k, 1, i - 1) => a[i].value # 1
                      /\ NoneOf(a, k, 1, n + 1) => k \in G
    BY <1>1 DEF Awaits
  <2>1. ASSUME NEW i \in 1..(n + 1), a[i].key = k, NoneOf(a, k, 1, i - 1)
        PROVE  a[i].value # 1
    <3>1. CASE i = n + 1
      <4>1. NoneOf(q, k, 1, n)
        BY <1>1, <2>1, <3>1 DEF NoneOf
      <4>2. k \in H
        BY <1>5, <4>1 DEF Awaits, n
      <4> QED
        BY <1>1, <2>1, <3>1, <4>2
    <3>2. CASE i # n + 1
      <4>1. i \in 1..n /\ a[i] = q[i]
        BY <1>1, <3>2
      <4>2. NoneOf(q, k, 1, i - 1)
        BY <1>1, <2>1, <4>1 DEF NoneOf
      <4> QED
        BY <1>5, <2>1, <4>1, <4>2 DEF Awaits, n
    <3> QED
      BY <3>1, <3>2
  <2>2. ASSUME NoneOf(a, k, 1, n + 1) PROVE k \in G
    <3>1. NoneOf(q, k, 1, n) /\ k # e.key
      BY <1>1, <2>2 DEF NoneOf
    <3>2. k \in H
      BY <1>5, <3>1 DEF Awaits, n
    <3> QED
      BY <3>1, <3>2
  <2> QED
    BY <2>1, <2>2
<1> QED
  BY <1>3, <1>4, <1>5 DEF a

\* The stream after its first event was read.  A key that was followed before
\* and is another's, or whose press or repeat was read, awaits its release.
LEMMA HistoryShrinks ==
    ASSUME NEW q \in Seq(Event), q # <<>>, NEW T, NEW U, NEW H,
           Alternates(q), EndsIn(q, H)
    PROVE  /\ Alternates(Tail(q)) /\ EndsIn(Tail(q), H)
           /\ Awaits(q, T, H)
              /\ (\A k \in U : IF k = Head(q).key THEN Head(q).value # 0 ELSE k \in T)
                => Awaits(Tail(q), U, H)
<1> DEFINE n == Len(q)
           t == Tail(q)
           h == Head(q)
<1>1. /\ n \in Nat \ {0} /\ Len(t) = n - 1 /\ h = q[1]
      /\ \A i \in 1..(n - 1) : t[i] = q[i + 1]
  BY HeadTailProperties, EmptySeq
<1> HIDE DEF n, t, h
<1>2. Alternates(t)
  <2> SUFFICES ASSUME NEW i \in 1..(n - 1), NEW j \in 1..(n - 1), i < j,
                      t[i].key = t[j].key, NoneOf(t, t[i].key, i + 1, j - 1)
               PROVE  t[i].value = 0 <=> t[j].value = 1
    BY <1>1 DEF Alternates
  <2>1. /\ i + 1 \in 1..n /\ j + 1 \in 1..n /\ i + 1 < j + 1
        /\ t[i] = q[i + 1] /\ t[j] = q[j + 1]
    BY <1>1
  <2>2. NoneOf(q, q[i + 1].key, (i + 1) + 1, (j + 1) - 1)
    <3> SUFFICES ASSUME NEW m \in ((i + 1) + 1)..((j + 1) - 1)
                 PROVE  q[m].key # q[i + 1].key
      BY DEF NoneOf
    <3>1. m - 1 \in (i + 1)..(j - 1) /\ m - 1 \in 1..(n - 1) /\ (m - 1) + 1 = m
      BY <1>1
    <3>2. t[m - 1] = q[m]
      BY <1>1, <3>1
    <3> QED
      BY <2>1, <3>1, <3>2 DEF NoneOf
  <2> QED
    BY <2>1, <2>2 DEF Alternates, n
<1>3. EndsIn(t, H)
  <2> SUFFICES ASSUME NEW i \in 1..(n - 1), NoneOf(t, t[i].key, i + 1, n - 1)
               PROVE  t[i].value # 0 <=> t[i].key \in H
    BY <1>1 DEF EndsIn
  <2>1. i + 1 \in 1..n /\ t[i] = q[i + 1]
    BY <1>1
  <2>2. NoneOf(q, q[i + 1].key, (i + 1) + 1, n)
    <3> SUFFICES ASSUME NEW m \in ((i + 1) + 1)..n
                 PROVE  q[m].key # q[i + 1].key
      BY DEF NoneOf
    <3>1. m - 1 \in (i + 1)..(n - 1) /\ m - 1 \in 1..(n - 1) /\ (m - 1) + 1 = m
      BY <1>1
    <3>2. t[m - 1] = q[m]
      BY <1>1, <3>1
    <3> QED
      BY <2>1, <3>1, <3>2 DEF NoneOf
  <2> QED
    BY <2>1, <2>2 DEF EndsIn, n
<1>4. ASSUME Awaits(q, T, H), \A k \in U : IF k = h.key THEN h.value # 0 ELSE k \in T
      PROVE  Awaits(t, U, H)
  <2> SUFFICES ASSUME NEW k \in U
               PROVE  /\ \A i \in 1..(n - 1) :
                           t[i].key = k /\ NoneOf(t, k, 1, i - 1) => t[i].value # 1
                      /\ NoneOf(t, k, 1, n - 1) => k \in H
    BY <1>1 DEF Awaits
  <2>1. \A i \in 0..(n - 1) : NoneOf(t, k, 1, i) => NoneOf(q, k, 2, i + 1)
    <3> SUFFICES ASSUME NEW i \in 0..(n - 1), NoneOf(t, k, 1, i), NEW m \in 2..(i + 1)
                 PROVE  q[m].key # k
      BY DEF NoneOf
    <3>1. m - 1 \in 1..i /\ m - 1 \in 1..(n - 1) /\ (m - 1) + 1 = m
      BY <1>1
    <3>2. t[m - 1] = q[m]
      BY <1>1, <3>1
    <3> QED
      BY <3>1, <3>2 DEF NoneOf
  <2>2. ASSUME NEW i \in 1..(n - 1), t[i].key = k, NoneOf(t, k, 1, i - 1)
        PROVE  t[i].value # 1
    <3>1. i + 1 \in 1..n /\ 1 \in 1..n /\ 1 < i + 1 /\ t[i] = q[i + 1] /\ (i + 1) - 1 = i
      BY <1>1
    <3>2. NoneOf(q, k, 2, i)
      <4>1. i - 1 \in 0..(n - 1) /\ (i - 1) + 1 = i
        BY <1>1
      <4> QED
        BY <2>1, <2>2, <4>1
    <3>3. CASE k = h.key
      <4>1. NoneOf(q, q[1].key, 1 + 1, (i + 1) - 1)
        BY <1>1, <3>1, <3>2, <3>3
      <4>2. q[1].value = 0 <=> q[i + 1].value = 1
        BY <1>1, <2>2, <3>1, <3>3, <4>1 DEF Alternates, n
      <4> QED
        BY <1>1, <1>4, <3>1, <3>3, <4>2
    <3>4. CASE k # h.key
      <4>1. NoneOf(q, k, 1, (i + 1) - 1)
        BY <1>1, <3>1, <3>2, <3>4 DEF NoneOf
      <4> QED
        BY <1>4, <2>2, <3>1, <3>4, <4>1 DEF Awaits, n
    <3> QED
      BY <3>3, <3>4
  <2>3. ASSUME NoneOf(t, k, 1, n - 1) PROVE k \in H
    <3>1. NoneOf(q, k, 2, n)
      <4>1. n - 1 \in 0..(n - 1) /\ (n - 1) + 1 = n
        BY <1>1
      <4> QED
        BY <2>1, <2>3, <4>1
    <3>2. CASE k = h.key
      <4>1. 1 \in 1..n /\ NoneOf(q, q[1].key, 1 + 1, n)
        BY <1>1, <3>1, <3>2
      <4>2. q[1].value # 0 <=> q[1].key \in H
        BY <4>1 DEF EndsIn, n
      <4> QED
        BY <1>1, <1>4, <3>2, <4>2
    <3>3. CASE k # h.key
      <4>1. NoneOf(q, k, 1, n)
        BY <1>1, <3>1, <3>3 DEF NoneOf
      <4> QED
        BY <1>4, <3>3, <4>1 DEF Awaits, n
    <3> QED
      BY <3>2, <3>3
  <2> QED
    BY <2>2, <2>3
<1> QED
  BY <1>2, <1>3, <1>4 DEF t, h

\* The sequence q is one event of value v for each key of S.
OneEach(q, S, v) ==
    /\ q \in Seq(Event)
    /\ \A i \in 1..Len(q) : q[i].key \in S /\ q[i].value = v
    /\ \A i, j \in 1..Len(q) : q[i].key = q[j].key => i = j
    /\ \A k \in S : \E i \in 1..Len(q) : q[i].key = k

\* The events made of a set of keys are one for each of them.
LEMMA EventsOnce ==
    ASSUME NEW S \in SUBSET Keys, NEW v \in 0..2
    PROVE  OneEach(Events(S, v), S, v)
<1> DEFINE n == Cardinality(S)
           order == SetToSeq(S)
<1>1. IsFiniteSet(S)
  BY GrabbedDeviceAssumption, FS_Subset
<1>2. n \in Nat /\ ExistsBijection(1..n, S)
  BY <1>1, FS_CardinalityType
<1>3. \E f \in [1..n -> S] : IsInjective(f)
  BY <1>2 DEF ExistsBijection, Bijection, Injection
<1>4. order \in [1..n -> S] /\ IsInjective(order)
  BY <1>3 DEF SetToSeq
<1>5. order \in Injection(1..n, S)
  BY <1>4 DEF Injection
<1>6. Cardinality(1..n) = n
  BY <1>2, FS_Interval
<1>7. order \in Surjection(1..n, S)
  BY <1>1, <1>5, <1>6, FS_Injection
<1>8. /\ \A i, j \in 1..n : order[i] = order[j] => i = j
      /\ \A k \in S : \E i \in 1..n : order[i] = k
  BY <1>4, <1>7 DEF IsInjective, Surjection
<1> HIDE DEF n, order
<1> DEFINE E == [i \in 1..n |-> [key |-> order[i], value |-> v]]
<1>9. \A i \in 1..n : [key |-> order[i], value |-> v] \in Event
  BY <1>4 DEF Event
<1>10. E \in Seq(Event) /\ Len(E) = n
  BY <1>2, <1>9
<1>11. \A i \in 1..n : E[i].key = order[i] /\ E[i].value = v
  OBVIOUS
<1>12. Events(S, v) = E
  BY DEF Events, n, order
<1> HIDE DEF E
<1> QED
  BY <1>4, <1>8, <1>10, <1>11, <1>12 DEF OneEach

\* What the buffered history of a key projects is what its last event says.
LEMMA LastProjects ==
    ASSUME NEW q \in Seq(Event), NEW i \in 1..Len(q), NoneOf(q, q[i].key, i + 1, Len(q))
    PROVE  q[i].key \in Known(q) /\ (q[i].key \in Projected(q) <=> q[i].value # 0)
<1> DEFINE k == q[i].key
           n == Len(q)
           IsLast(m) == q[m].key = k /\ \A j \in 1..n : q[j].key = k => j <= m
<1>1. n \in Nat
  BY LenProperties
<1>2. IsLast(i)
  BY <1>1 DEF NoneOf
<1>3. \A m \in 1..n : IsLast(m) => m = i
  BY <1>1, <1>2
<1>4. LastIndex(q, k) = i
  BY <1>2, <1>3 DEF LastIndex
<1>5. k \in Known(q)
  BY DEF Known
<1> QED
  BY <1>4, <1>5 DEF Projected

\* A reconciliation ends the history in the queried state: the repairs are one
\* event for each key on which the two disagree.
LEMMA HistoryRepaired ==
    ASSUME NEW q \in Seq(Event), NEW active \in SUBSET Keys, SourceTypes,
           NEW H, Alternates(q)
    PROVE  LET r == q \o Repairs(q, active)
           IN  /\ Alternates(r) /\ EndsIn(r, active)
               /\ Awaits(q, Tracked, H) =>
                    Awaits(r, Tracked \cup (active \ Known(q)), active)
<1> DEFINE P == Projected(q)
           K == Known(q)
           up == P \ active
           dn == (active \ P) \cap K
           A == Events(up, 0)
           B == Events(dn, 1)
           R == A \o B
           r == q \o R
           n == Len(q)
<1>1. K \subseteq Keys /\ P \subseteq K
  BY RepairsType DEF Projected
<1>2. OneEach(A, up, 0)
  <2>1. up \in SUBSET Keys
    BY <1>1
  <2> HIDE DEF up
  <2> QED
    BY <2>1, EventsOnce
<1>3. OneEach(B, dn, 1)
  <2>1. dn \in SUBSET Keys
    BY <1>1
  <2> HIDE DEF dn
  <2> QED
    BY <2>1, EventsOnce
<1>4. Repairs(q, active) = R
  BY DEF Repairs
<1>5. up \cap dn = {}
  OBVIOUS
<1> HIDE DEF A, B, up, dn
<1> USE DEF OneEach
<1>6. /\ R \in Seq(Event) /\ Len(R) = Len(A) + Len(B) /\ Len(A) \in Nat /\ Len(B) \in Nat
      /\ \A i \in 1..(Len(A) + Len(B)) : R[i] = IF i <= Len(A) THEN A[i] ELSE B[i - Len(A)]
  BY <1>2, <1>3, ConcatProperties, LenProperties
<1> HIDE DEF R
<1>6a. \A i \in 1..Len(R) : \/ i \in 1..Len(A) /\ R[i] = A[i]
                            \/ i - Len(A) \in 1..Len(B) /\ R[i] = B[i - Len(A)]
  <2> TAKE i \in 1..Len(R)
  <2>1. CASE i <= Len(A)
    <3>1. i \in 1..Len(A) /\ i \in 1..(Len(A) + Len(B))
      BY <1>6, <2>1
    <3> QED
      BY <1>6, <2>1, <3>1
  <2>2. CASE ~(i <= Len(A))
    <3>1. i - Len(A) \in 1..Len(B) /\ i \in 1..(Len(A) + Len(B))
      BY <1>6, <2>2
    <3> QED
      BY <1>6, <2>2, <3>1
  <2> QED
    BY <2>1, <2>2
<1>7. \A i \in 1..Len(R) : \/ R[i].key \in up /\ R[i].value = 0
                           \/ R[i].key \in dn /\ R[i].value = 1
  <2> TAKE i \in 1..Len(R)
  <2>1. CASE i \in 1..Len(A) /\ R[i] = A[i]
    <3>1. A[i].key \in up /\ A[i].value = 0
      BY <1>2, <2>1
    <3> QED
      BY <2>1, <3>1
  <2>2. CASE i - Len(A) \in 1..Len(B) /\ R[i] = B[i - Len(A)]
    <3>1. B[i - Len(A)].key \in dn /\ B[i - Len(A)].value = 1
      BY <1>3, <2>2
    <3> QED
      BY <2>2, <3>1
  <2> QED
    BY <1>6a, <2>1, <2>2
<1>8. \A i, j \in 1..Len(R) : R[i].key = R[j].key => i = j
  <2> SUFFICES ASSUME NEW i \in 1..Len(R), NEW j \in 1..Len(R), R[i].key = R[j].key
               PROVE  i = j
    OBVIOUS
  <2>1. CASE i \in 1..Len(A) /\ R[i] = A[i]
    <3>1. R[i].key \in up
      BY <1>2, <2>1
    <3>2. j \in 1..Len(A) /\ R[j] = A[j]
      <4>1. R[j].key \notin dn
        BY <1>5, <3>1
      <4>2. ~(j - Len(A) \in 1..Len(B) /\ R[j] = B[j - Len(A)])
        BY <1>3, <4>1
      <4> QED
        BY <1>6a, <4>2
    <3> QED
      BY <1>2, <2>1, <3>2
  <2>2. CASE i - Len(A) \in 1..Len(B) /\ R[i] = B[i - Len(A)]
    <3>1. j - Len(A) \in 1..Len(B) /\ R[j] = B[j - Len(A)]
      <4>1. R[j].key \notin up
        BY <1>3, <1>5, <2>2
      <4>2. ~(j \in 1..Len(A) /\ R[j] = A[j])
        BY <1>2, <4>1
      <4> QED
        BY <1>6a, <4>2
    <3>2. i - Len(A) = j - Len(A)
      BY <1>3, <2>2, <3>1, ZenonT(60)
    <3> QED
      BY <1>6, <3>2
  <2> QED
    BY <1>6a, <2>1, <2>2
<1>9. \A k \in up \cup dn : \E i \in 1..Len(R) : R[i].key = k
  <2>1. ASSUME NEW k \in up PROVE \E i \in 1..Len(R) : R[i].key = k
    <3>1. PICK i \in 1..Len(A) : A[i].key = k
      BY <1>2, <2>1
    <3>2. i \in 1..Len(R) /\ R[i] = A[i]
      BY <1>6
    <3> QED
      BY <3>1, <3>2
  <2>2. ASSUME NEW k \in dn PROVE \E i \in 1..Len(R) : R[i].key = k
    <3>1. PICK i \in 1..Len(B) : B[i].key = k
      BY <1>3, <2>2
    <3>2. i + Len(A) \in 1..Len(R) /\ R[i + Len(A)] = B[i]
      BY <1>6, SMTT(30)
    <3> QED
      BY <3>1, <3>2
  <2> QED
    BY <2>1, <2>2
<1> HIDE DEF OneEach
<1>10. /\ r \in Seq(Event) /\ Len(r) = n + Len(R) /\ n \in Nat /\ Len(R) \in Nat
       /\ \A i \in 1..n : r[i] = q[i]
       /\ \A i \in 1..Len(R) : n + i \in 1..Len(r) /\ r[n + i] = R[i]
  <2>1. /\ r \in Seq(Event) /\ Len(r) = n + Len(R) /\ n \in Nat /\ Len(R) \in Nat
        /\ \A i \in 1..(n + Len(R)) : r[i] = IF i <= n THEN q[i] ELSE R[i - n]
    <3>1. n \in Nat /\ Len(R) \in Nat
      BY <1>6, LenProperties
    <3>2. q \in Seq(Event) /\ R \in Seq(Event)
      BY <1>6
    <3> QED
      BY <3>1, <3>2, ConcatProperties
  <2> HIDE DEF r, n
  <2>2. \A i \in 1..Len(R) : n + i \in 1..Len(r) /\ ~(n + i <= n) /\ (n + i) - n = i
    BY <2>1
  <2> QED
    BY <2>1, <2>2
<1>11. \A i \in 1..Len(r) : i \in 1..n \/ (i - n \in 1..Len(R) /\ i = n + (i - n))
  BY <1>10
<1> HIDE DEF r, n, P, K
<1>12. \A i \in 1..n : NoneOf(q, q[i].key, i + 1, n) =>
          q[i].key \in K /\ (q[i].key \in P <=> q[i].value # 0)
  BY LastProjects DEF n, P, K
<1>13. Alternates(r)
  <2> SUFFICES ASSUME NEW i \in 1..Len(r), NEW j \in 1..Len(r), i < j,
                      r[i].key = r[j].key, NoneOf(r, r[i].key, i + 1, j - 1)
               PROVE  r[i].value = 0 <=> r[j].value = 1
    BY DEF Alternates
  <2>1. CASE j \in 1..n
    <3>1. i \in 1..n /\ r[i] = q[i] /\ r[j] = q[j]
      BY <1>10, <2>1
    <3>2. NoneOf(q, q[i].key, i + 1, j - 1)
      BY <1>10, <2>1, <3>1 DEF NoneOf
    <3> QED
      BY <2>1, <3>1, <3>2 DEF Alternates, n
  <2>2. CASE i \in 1..n /\ j \notin 1..n
    <3>1. r[i] = q[i] /\ j - n \in 1..Len(R) /\ r[j] = R[j - n]
      BY <1>10, <1>11, <2>2
    <3>2. NoneOf(q, q[i].key, i + 1, n)
      BY <1>10, <1>11, <2>2, <3>1 DEF NoneOf
    <3>3. q[i].key \in P <=> q[i].value # 0
      BY <1>12, <2>2, <3>2
    <3>4. \/ r[j].key \in up /\ r[j].value = 0
          \/ r[j].key \in dn /\ r[j].value = 1
      BY <1>7, <3>1
    <3> QED
      BY <3>1, <3>3, <3>4 DEF up, dn
  <2>3. CASE i \notin 1..n /\ j \notin 1..n
    <3>1. i - n \in 1..Len(R) /\ r[i] = R[i - n] /\ j - n \in 1..Len(R) /\ r[j] = R[j - n]
      BY <1>10, <1>11, <2>3
    <3>2. i - n = j - n
      BY <1>8, <3>1
    <3> QED
      BY <1>10, <3>2
  <2> QED
    BY <1>10, <2>1, <2>2, <2>3
<1>14. EndsIn(r, active)
  <2> SUFFICES ASSUME NEW i \in 1..Len(r), NoneOf(r, r[i].key, i + 1, Len(r))
               PROVE  r[i].value # 0 <=> r[i].key \in active
    BY DEF EndsIn
  <2>1. CASE i \in 1..n
    <3>1. r[i] = q[i] /\ NoneOf(q, q[i].key, i + 1, n)
      BY <1>10, <2>1 DEF NoneOf
    <3>2. q[i].key \notin up \cup dn
      <4> SUFFICES ASSUME q[i].key \in up \cup dn PROVE FALSE
        OBVIOUS
      <4>1. PICK m \in 1..Len(R) : R[m].key = q[i].key
        BY <1>9
      <4>2. n + m \in (i + 1)..Len(r) /\ r[n + m].key = r[i].key
        BY <1>10, <2>1, <3>1, <4>1
      <4> QED
        BY <4>2 DEF NoneOf
    <3>3. q[i].key \in K /\ (q[i].key \in P <=> q[i].value # 0)
      BY <1>12, <2>1, <3>1
    <3> QED
      BY <3>1, <3>2, <3>3 DEF up, dn
  <2>2. CASE i \notin 1..n
    <3>1. i - n \in 1..Len(R) /\ r[i] = R[i - n]
      BY <1>10, <1>11, <2>2
    <3> QED
      BY <1>7, <3>1 DEF up, dn
  <2> QED
    BY <2>1, <2>2
<1>15. ASSUME Awaits(q, Tracked, H)
       PROVE  Awaits(r, Tracked \cup (active \ K), active)
  <2> SUFFICES ASSUME NEW k \in Tracked \cup (active \ K)
               PROVE  /\ \A i \in 1..Len(r) :
                           r[i].key = k /\ NoneOf(r, k, 1, i - 1) => r[i].value # 1
                      /\ NoneOf(r, k, 1, Len(r)) => k \in active
    BY DEF Awaits
  <2>1. Tracked \subseteq K
    BY DEF K, Known
  <2>2. k \in Tracked /\ NoneOf(q, k, 1, n) => k \in P
    BY <2>1 DEF NoneOf, P, Projected, n, K
  <2>3. k \notin Tracked => k \notin up \cup dn
    BY <1>1 DEF up, dn
  <2>4. k \notin Tracked => NoneOf(q, k, 1, n)
    BY DEF NoneOf, K, Known, n
  <2>5. ASSUME NEW i \in 1..Len(r), r[i].key = k, NoneOf(r, k, 1, i - 1)
        PROVE  r[i].value # 1
    <3>1. CASE i \in 1..n
      <4>1. r[i] = q[i] /\ NoneOf(q, k, 1, i - 1)
        BY <1>10, <2>5, <3>1 DEF NoneOf
      <4>2. k \in Tracked
        BY <2>4, <2>5, <3>1, <4>1 DEF NoneOf
      <4> QED
        BY <1>15, <2>5, <3>1, <4>1, <4>2 DEF Awaits, n
    <3>2. CASE i \notin 1..n
      <4>1. i - n \in 1..Len(R) /\ r[i] = R[i - n]
        BY <1>10, <1>11, <3>2
      <4>2. NoneOf(q, k, 1, n)
        BY <1>10, <1>11, <2>5, <3>2 DEF NoneOf
      <4>3. k \in up \cup dn
        BY <1>7, <2>5, <4>1
      <4>4. k \in P
        BY <2>2, <2>3, <4>2, <4>3
      <4> QED
        BY <1>7, <2>5, <4>1, <4>4 DEF up, dn
    <3> QED
      BY <3>1, <3>2
  <2>6. ASSUME NoneOf(r, k, 1, Len(r)) PROVE k \in active
    <3>1. NoneOf(q, k, 1, n)
      BY <1>10, <2>6 DEF NoneOf
    <3>2. k \notin up
      <4> SUFFICES ASSUME k \in up PROVE FALSE
        OBVIOUS
      <4>1. PICK m \in 1..Len(R) : R[m].key = k
        BY <1>9
      <4>2. n + m \in 1..Len(r) /\ r[n + m].key = k
        BY <1>10, <4>1
      <4> QED
        BY <2>6, <4>2 DEF NoneOf
    <3> QED
      BY <2>2, <3>1, <3>2 DEF up
  <2> QED
    BY <2>5, <2>6
<1> QED
  BY <1>4, <1>13, <1>14, <1>15 DEF r, K

-----------------------------------------------------------------------------
(* What each step does to the stream. *)

\* Both queues together hold events.
LEMMA StreamType == ASSUME QueueTypes PROVE Stream \in Seq(Event)
BY ConcatProperties DEF QueueTypes, Stream

\* The hardware appends to the stream.
LEMMA HardwareAppends ==
    ASSUME QueueTypes, NEW k \in Keys, NEW v \in 0..2, Enqueue(k, v)
    PROVE  Stream' = Append(Stream, [key |-> k, value |-> v])
<1> DEFINE e == [key |-> k, value |-> v]
<1>1. e \in Event
  BY DEF Event
<1> HIDE DEF e
<1>2. unread \in Seq(Event) /\ input_event_buffer \in Seq(Event) /\ <<e>> \in Seq(Event)
  BY <1>1 DEF QueueTypes
<1>3. unread' = Append(unread, e) /\ input_event_buffer' = input_event_buffer
  BY DEF Enqueue, reader, e
<1>4. Append(unread, e) = unread \o <<e>>
  BY <1>1, <1>2, AppendIsConcat
<1>5. Append(Stream, e) = Stream \o <<e>>
  BY <1>1, StreamType, AppendIsConcat
<1>6. input_event_buffer \o (unread \o <<e>>) = (input_event_buffer \o unread) \o <<e>>
  BY <1>2, ConcatAssociative
<1> QED
  BY <1>3, <1>4, <1>5, <1>6 DEF Stream, e

\* The reader takes the first event of the stream.
LEMMA ReaderShrinks ==
    ASSUME QueueTypes, read_events
    PROVE  /\ Stream # <<>> /\ NextEvent = Head(Stream) /\ Stream' = Tail(Stream)
           /\ UNCHANGED physical
<1>1. unread \in Seq(Event) /\ input_event_buffer \in Seq(Event)
  BY DEF QueueTypes
<1>2. CASE input_event_buffer # <<>>
  <2> DEFINE b == input_event_buffer
             u == unread
  <2>1. /\ Tail(b) \in Seq(Event) /\ Len(Tail(b)) = Len(b) - 1 /\ Len(b) \in Nat \ {0}
        /\ \A i \in 1..(Len(b) - 1) : Tail(b)[i] = b[i + 1]
    BY <1>1, <1>2, HeadTailProperties, EmptySeq
  <2>2. /\ Stream \in Seq(Event) /\ Len(Stream) = Len(b) + Len(u) /\ Len(u) \in Nat
        /\ \A i \in 1..(Len(b) + Len(u)) :
             Stream[i] = IF i <= Len(b) THEN b[i] ELSE u[i - Len(b)]
    BY <1>1, ConcatProperties, LenProperties DEF Stream
  <2>3. Stream # <<>>
    BY <2>1, <2>2, EmptySeq
  <2>4. Head(Stream) = Head(b)
    BY <1>1, <1>2, <2>1, <2>2, <2>3
  <2>5. Stream' = Tail(b) \o u
    BY <1>2 DEF read_events, Stream
  <2>6. /\ Tail(b) \o u \in Seq(Event) /\ Len(Tail(b) \o u) = (Len(b) - 1) + Len(u)
        /\ \A i \in 1..((Len(b) - 1) + Len(u)) :
             (Tail(b) \o u)[i] = IF i <= Len(b) - 1 THEN Tail(b)[i] ELSE u[i - (Len(b) - 1)]
    BY <1>1, <2>1, ConcatProperties
  <2>7. /\ Tail(Stream) \in Seq(Event) /\ Len(Tail(Stream)) = (Len(b) + Len(u)) - 1
        /\ \A i \in 1..((Len(b) + Len(u)) - 1) : Tail(Stream)[i] = Stream[i + 1]
    BY <2>2, <2>3, HeadTailProperties
  <2> DEFINE x == Tail(b) \o u
             y == Tail(Stream)
  <2>8. \A i \in 1..Len(x) : x[i] = y[i]
    <3> TAKE i \in 1..Len(x)
    <3>1. /\ i \in 1..((Len(b) - 1) + Len(u)) /\ i \in 1..((Len(b) + Len(u)) - 1)
          /\ i + 1 \in 1..(Len(b) + Len(u))
      BY <2>1, <2>2, <2>6
    <3>2. CASE i <= Len(b) - 1
      <4>1. i \in 1..(Len(b) - 1) /\ i + 1 <= Len(b)
        BY <2>1, <3>1, <3>2
      <4> QED
        BY <2>1, <2>2, <2>6, <2>7, <3>1, <3>2, <4>1
    <3>3. CASE ~(i <= Len(b) - 1)
      <4>1. ~(i + 1 <= Len(b)) /\ (i + 1) - Len(b) = i - (Len(b) - 1)
        BY <2>1, <3>1, <3>3
      <4> QED
        BY <2>2, <2>6, <2>7, <3>1, <3>3, <4>1
    <3> QED
      BY <3>2, <3>3
  <2>9. Len(x) = Len(y)
    BY <2>1, <2>2, <2>6, <2>7
  <2> HIDE DEF x, y
  <2>10. x \in Seq(Event) /\ y \in Seq(Event)
    BY <2>6, <2>7 DEF x, y
  <2>11. x = y
    BY <2>8, <2>9, <2>10, SeqEqual
  <2> QED
    BY <1>2, <2>3, <2>4, <2>5, <2>11 DEF read_events, NextEvent, x, y
<1>3. CASE input_event_buffer = <<>>
  <2>1. Stream = unread
    BY <1>1, <1>3, ConcatEmptySeq DEF Stream
  <2>2. unread # <<>> /\ unread' = Tail(unread) /\ input_event_buffer' = <<>>
    BY <1>3 DEF read_events, HasEvent
  <2>3. Tail(unread) \in Seq(Event)
    BY <1>1, <2>2, HeadTailProperties
  <2>4. Stream' = Tail(unread)
    BY <2>2, <2>3, ConcatEmptySeq DEF Stream
  <2> QED
    BY <1>3, <2>1, <2>2, <2>4 DEF read_events, NextEvent
<1> QED
  BY <1>2, <1>3

\* Handing a batch to the reader moves events within the stream.
LEMMA BatchKeepsStream ==
    ASSUME QueueTypes, DeferReconcile \/ ReconcileReadFails
    PROVE  Stream' = Stream /\ UNCHANGED physical
<1>1. unread \in Seq(Event) /\ Len(unread) \in Nat /\ DrainLimit \in Nat \ {0}
  BY GrabbedDeviceAssumption, LenProperties DEF QueueTypes
<1>2. Stream = unread
  BY <1>1, ConcatEmptySeq DEF Stream, DeferReconcile, ReconcileReadFails
<1>3. CASE DeferReconcile
  <2>1. SubSeq(unread, 1, DrainLimit) \o SubSeq(unread, DrainLimit + 1, Len(unread))
          = SubSeq(unread, 1, Len(unread))
    <3>1. /\ 1 \in 1..(Len(unread) + 1) /\ DrainLimit \in (1 - 1)..Len(unread)
          /\ Len(unread) \in DrainLimit..Len(unread)
      BY <1>1, <1>3 DEF DeferReconcile
    <3> QED
      BY <1>1, <3>1, ConcatAdjacentSubSeq
  <2> QED
    BY <1>1, <1>2, <1>3, <2>1, SubSeqFull DEF DeferReconcile, Stream
<1>4. CASE ReconcileReadFails
  BY <1>1, <1>2, <1>4, ConcatEmptySeq DEF ReconcileReadFails, Stream
<1> QED
  BY <1>3, <1>4

\* A reconciliation appends its repairs.
LEMMA ReconcileAppends ==
    ASSUME QueueTypes, SourceTypes, NEW active \in SUBSET Keys,
           reconcile_live_key_state(active)
    PROVE  Stream = unread /\ Stream' = Stream \o Repairs(Stream, active)
<1>1. unread \in Seq(Event)
  BY DEF QueueTypes
<1>2. Stream = unread
  BY <1>1, ConcatEmptySeq DEF Stream, reconcile_live_key_state
<1>3. unread \o Repairs(unread, active) \in Seq(Event)
  BY <1>1, RepairsType, ConcatProperties
<1>4. unread' = <<>> /\ input_event_buffer' = unread \o Repairs(unread, active)
  BY DEF reconcile_live_key_state
<1> QED
  BY <1>2, <1>3, <1>4, ConcatEmptySeq DEF Stream

-----------------------------------------------------------------------------
(* The invariant behind HeldFollowsHardware. *)

\* What the runtime follows, by its two fields.
LEMMA TrackedUnchanged ==
    ASSUME UNCHANGED sources
    PROVE  Tracked' = Tracked
BY DEF sources, Tracked

\* A release of everything follows nothing any more.
LEMMA ReleaseTracksNothing ==
    ASSUME ReleasesAll
    PROVE  Tracked' = {}
BY ReleasesGiven DEF release_all_keys, Tracked

\* An event that reaches its action is followed from its press to its release,
\* and leaves the other keys alone.
LEMMA AppliedTracks ==
    ASSUME TypeOK, apply_fast_passthrough \/ apply_mapped_action_or_passthrough
    PROVE  /\ PassIntercept /\ ~suppressed /\ UNCHANGED <<pause, settings>>
           /\ \A k \in Tracked' : IF k = NextEvent.key THEN NextEvent.value # 0
                                                       ELSE k \in Tracked
<1>1. NextEvent \in Event
  BY ReadTypes DEF TypeOK, apply_fast_passthrough, apply_mapped_action_or_passthrough,
     PassIntercept
<1>2. NextEvent.key \in Keys /\ NextEvent.value \in 0..2
  BY <1>1 DEF Event
<1>3. PassIntercept /\ ~suppressed /\ UNCHANGED <<pause, settings>>
  BY DEF apply_fast_passthrough, apply_mapped_action_or_passthrough
<1>4. \A k \in held_source_keys' : IF k = NextEvent.key THEN NextEvent.value # 0
                                                           ELSE k \in held_source_keys
  BY <1>2 DEF apply_fast_passthrough, apply_mapped_action_or_passthrough,
     observe_source_key_transition
<1>5. \A k \in Keys : k # NextEvent.key => held_source_actions'[k] = held_source_actions[k]
  BY <1>2 DEF TypeOK, SourceTypes, apply_fast_passthrough, apply_mapped_action_or_passthrough
<1>6. NextEvent.value = 0 => held_source_actions'[NextEvent.key] = Absent
  <2>1. CASE apply_fast_passthrough
    BY <1>2, <2>1 DEF apply_fast_passthrough, UseFastPassthrough
  <2>2. CASE apply_mapped_action_or_passthrough
    BY <1>2, <2>2 DEF TypeOK, SourceTypes, apply_mapped_action_or_passthrough
  <2> QED
    BY <2>1, <2>2
<1>7. \A k \in Tracked' : IF k = NextEvent.key THEN NextEvent.value # 0 ELSE k \in Tracked
  BY <1>2, <1>4, <1>5, <1>6 DEF Tracked
<1> QED
  BY <1>3, <1>7

\* The kind of operation that does not happen leaves its state as it was.
LEMMA ModeStep ==
    ASSUME TypeOK, ModeInv, [Next]_vars, NoSuspends \/ NoChanges
    PROVE  ModeInv'
<1> USE DEF ModeInv
<1>1. CASE Hardware
  BY <1>1 DEF Hardware, Press, Release, Repeat, Enqueue, reader, pause, settings
<1>2. CASE PausedEvent \/ QuarantinedEvent \/ SuppressedEvent
  BY <1>2 DEF PausedEvent, QuarantinedEvent, SuppressedEvent, PassIntercept, read_events, pause,
     settings
<1>3. CASE apply_fast_passthrough \/ apply_mapped_action_or_passthrough
  BY <1>3 DEF apply_fast_passthrough, apply_mapped_action_or_passthrough, PassIntercept,
     read_events, pause, settings
<1>4. CASE recover_from_event_processing_error
  BY <1>4 DEF recover_from_event_processing_error, PassIntercept, read_events, pause, settings
<1>5. CASE Reconcile
  <2>1. UNCHANGED <<pause, settings, quarantined_source_keys>>
    BY <1>5 DEF Reconcile, reconcile_live_key_state, DeferReconcile, ReconcileReadFails
  <2>2. key_state_reconcile_requested
    BY <1>5 DEF Reconcile, reconcile_live_key_state, DeferReconcile, ReconcileReadFails
  <2> QED
    BY <2>1, <2>2 DEF pause, settings
<1>6. CASE Neutralize
  BY <1>6 DEF Neutralize, NeutralizeBegin, NeutralizeQuarantine, NeutralizeFinish, reader,
     settings, NoSuspends, Idle
<1>7. CASE Control
  BY <1>7 DEF Control, set_mapping, SetRecording, SetKeyboardBlock, SetSuppression,
     pause_runtime_input, resume_runtime_input, reader, pause, settings, NoSuspends, NoChanges
<1>8. CASE UNCHANGED vars
  BY <1>8 DEF vars, reader, pause, settings
<1> QED
  BY <1>1, <1>2, <1>3, <1>4, <1>5, <1>6, <1>7, <1>8 DEF Next, Pipeline

\* Input stays paused for a suspend, and nothing is followed behind its
\* neutralization until input is resumed.
LEMMA SuspendStep ==
    ASSUME TypeOK, ModeInv, SuspendInv, [Next]_vars, NoSuspends \/ NoChanges
    PROVE  SuspendInv'
<1> USE DEF SuspendInv
<1>1. CASE UNCHANGED <<pause, sources>>
  BY <1>1, TrackedUnchanged DEF pause
<1>2. CASE apply_fast_passthrough \/ apply_mapped_action_or_passthrough
  BY <1>2, AppliedTracks DEF PassIntercept, pause
<1>3. CASE recover_from_event_processing_error \/ (\E on \in BOOLEAN : SetSuppression(on))
  <2>1. Tracked' = {}
    BY <1>3, ReleaseTracksNothing DEF ReleasesAll
  <2>2. UNCHANGED pause
    BY <1>3 DEF recover_from_event_processing_error, SetSuppression, pause
  <2> QED
    BY <2>1, <2>2 DEF pause
<1>4. CASE \E active \in SUBSET Keys : reconcile_live_key_state(active)
  BY <1>4 DEF reconcile_live_key_state, ModeInv, pause
<1>5. CASE \E by \in {"sleep", "mask"} : NeutralizeBegin(by)
  BY <1>5, TrackedUnchanged DEF NeutralizeBegin, Idle
<1>6. CASE NeutralizeQuarantine
  BY <1>6, TrackedUnchanged DEF NeutralizeQuarantine, Idle, TypeOK, PauseTypes
<1>7. CASE NeutralizeFinish
  BY <1>7, ReleaseTracksNothing DEF ReleasesAll, NeutralizeFinish, Idle, TypeOK, PauseTypes
<1>8. CASE pause_runtime_input
  BY <1>8, TrackedUnchanged DEF pause_runtime_input
<1>9. CASE resume_runtime_input
  BY <1>9, TrackedUnchanged DEF resume_runtime_input
<1>10. CASE \/ Hardware \/ PausedEvent \/ QuarantinedEvent \/ SuppressedEvent
            \/ DeferReconcile \/ ReconcileReadFails
            \/ (\E m \in Mappings : set_mapping(m))
            \/ (\E on \in BOOLEAN : SetRecording(on) \/ SetKeyboardBlock(on))
            \/ UNCHANGED vars
  BY <1>1, <1>10 DEF Hardware, Press, Release, Repeat, Enqueue, PausedEvent, QuarantinedEvent,
     SuppressedEvent, DeferReconcile, ReconcileReadFails, set_mapping, SetRecording,
     SetKeyboardBlock, vars
<1> QED
  BY <1>2, <1>3, <1>4, <1>5, <1>6, <1>7, <1>8, <1>9, <1>10, StepKinds
     DEF Silent, Writes, ReleasesAll

\* Every step keeps the history of each key, and what is followed on it.
LEMMA FollowStep ==
    ASSUME TypeOK, StreamInv, FollowInv, SuspendInv, ModeInv, [Next]_vars,
           NoSuspends \/ NoChanges
    PROVE  StreamInv' /\ FollowInv'
<1> USE DEF StreamInv
<1>0. Stream \in Seq(Event)
  BY StreamType DEF TypeOK
<1>1. CASE Hardware
  <2>1. PICK k \in Keys, v \in 0..2 :
          /\ Enqueue(k, v)
          /\ v = 1 <=> k \notin physical
          /\ physical' = IF v = 0 THEN physical \ {k} ELSE physical \cup {k}
    BY <1>1 DEF Hardware, Press, Release, Repeat
  <2> DEFINE e == [key |-> k, value |-> v]
  <2>2. Stream' = Append(Stream, e) /\ e \in Event /\ e.key = k /\ e.value = v
    BY <2>1, HardwareAppends DEF TypeOK, Event
  <2> HIDE DEF e
  <2>3. /\ e.value = 1 <=> e.key \notin physical
        /\ \A j : j # e.key => (j \in physical' <=> j \in physical)
        /\ e.key \in physical' <=> e.value # 0
    BY <2>1, <2>2
  <2>4. /\ Alternates(Stream') /\ EndsIn(Stream', physical')
        /\ Awaits(Stream, Tracked, physical) => Awaits(Stream', Tracked, physical')
    BY <1>0, <2>2, <2>3, HistoryGrows
  <2>5. Tracked' = Tracked /\ (Live' <=> Live) /\ UNCHANGED quarantined_source_keys
    BY <2>1, TrackedUnchanged DEF Enqueue, Live, pause, settings
  <2> QED
    BY <2>4, <2>5 DEF FollowInv
<1>2. CASE Pipeline
  <2>1. read_events
    BY <1>2 DEF Pipeline, PausedEvent, QuarantinedEvent, SuppressedEvent, PassIntercept,
       apply_fast_passthrough, apply_mapped_action_or_passthrough,
       recover_from_event_processing_error
  <2>2. /\ Stream # <<>> /\ NextEvent = Head(Stream) /\ Stream' = Tail(Stream)
        /\ physical' = physical
    BY <2>1, ReaderShrinks DEF TypeOK
  <2>3. Alternates(Tail(Stream)) /\ EndsIn(Tail(Stream), physical)
    BY <1>0, <2>2, HistoryShrinks
  <2>4. StreamInv'
    BY <2>2, <2>3
  <2>5. ASSUME Live, Live', Tracked' \cap quarantined_source_keys' = {},
               \A k \in Tracked' : IF k = NextEvent.key THEN NextEvent.value # 0
                                                        ELSE k \in Tracked
        PROVE  FollowInv'
    <3>1. Awaits(Stream, Tracked, physical)
      BY <2>5 DEF FollowInv
    <3>2. Awaits(Tail(Stream), Tracked', physical)
      BY <1>0, <2>2, <2>5, <3>1, HistoryShrinks
    <3> QED
      BY <2>2, <2>5, <3>2 DEF FollowInv
  <2>6. CASE PausedEvent \/ SuppressedEvent
    <3>1. ~Live'
      BY <2>6 DEF PausedEvent, SuppressedEvent, pause, settings, Live
    <3> QED
      BY <2>4, <3>1 DEF FollowInv
  <2>7. CASE QuarantinedEvent
    <3>1. Live' => Live
      BY <2>7 DEF QuarantinedEvent, pause, settings, Live
    <3>2. /\ Tracked' = Tracked /\ NextEvent.key \in quarantined_source_keys
          /\ quarantined_source_keys' \subseteq quarantined_source_keys
      BY <2>7, TrackedUnchanged DEF QuarantinedEvent
    <3> QED
      BY <2>4, <2>5, <3>1, <3>2 DEF FollowInv
  <2>8. CASE apply_fast_passthrough \/ apply_mapped_action_or_passthrough
    <3>1. Live' => Live
      BY <2>8, AppliedTracks DEF pause, settings, Live
    <3>2. quarantined_source_keys' = quarantined_source_keys \ {NextEvent.key}
      BY <2>8, AppliedTracks DEF PassIntercept
    <3>3. \A k \in Tracked' : IF k = NextEvent.key THEN NextEvent.value # 0 ELSE k \in Tracked
      BY <2>8, AppliedTracks
    <3> QED
      BY <2>4, <2>5, <3>1, <3>2, <3>3 DEF FollowInv
  <2>9. CASE recover_from_event_processing_error
    <3>1. Tracked' = {}
      BY <2>9, ReleaseTracksNothing DEF ReleasesAll
    <3> QED
      BY <2>4, <3>1 DEF FollowInv, Awaits
  <2> QED
    BY <1>2, <2>6, <2>7, <2>8, <2>9 DEF Pipeline
<1>3. CASE \E active \in SUBSET Keys : reconcile_live_key_state(active)
  <2>1. PICK active \in SUBSET Keys : reconcile_live_key_state(active)
    BY <1>3
  <2>2. Stream = unread /\ Stream' = Stream \o Repairs(Stream, active) /\ physical' = active
    BY <2>1, ReconcileAppends DEF TypeOK, reconcile_live_key_state
  <2>3. /\ Alternates(Stream') /\ EndsIn(Stream', active)
        /\ Awaits(Stream, Tracked, physical) =>
             Awaits(Stream', Tracked \cup (active \ Known(Stream)), active)
    BY <1>0, <2>2, HistoryRepaired DEF TypeOK
  <2>4. Tracked' \subseteq Tracked \cup (active \ Known(Stream))
    BY <2>1, <2>2 DEF reconcile_live_key_state, seed_startup_held_actions, Tracked, TypeOK,
       SourceTypes
  <2>5. Live' => Live
    BY <2>1 DEF reconcile_live_key_state, Live, pause, settings
  <2>6. quarantined_source_keys' = {}
    BY <2>1 DEF reconcile_live_key_state, ModeInv
  <2> QED
    BY <2>2, <2>3, <2>4, <2>5, <2>6 DEF FollowInv, Awaits
<1>4. CASE DeferReconcile \/ ReconcileReadFails
  <2>1. Stream' = Stream /\ physical' = physical
    BY <1>4, BatchKeepsStream DEF TypeOK
  <2>2. Tracked' = Tracked /\ (Live' <=> Live) /\ UNCHANGED quarantined_source_keys
    BY <1>4, TrackedUnchanged DEF DeferReconcile, ReconcileReadFails, Live, pause, settings
  <2> QED
    BY <2>1, <2>2 DEF FollowInv
<1>5. CASE Neutralize \/ Control \/ UNCHANGED vars
  <2>1. Stream' = Stream /\ physical' = physical
    BY <1>5 DEF Neutralize, NeutralizeBegin, NeutralizeQuarantine, NeutralizeFinish, Control,
       set_mapping, SetRecording, SetKeyboardBlock, SetSuppression, pause_runtime_input,
       resume_runtime_input, vars, queue, reader, Stream
  <2>2. CASE Tracked' = {}
    BY <2>1, <2>2 DEF FollowInv, Awaits
  <2>3. CASE Tracked' = Tracked /\ (Live' => Live) /\ UNCHANGED quarantined_source_keys
    BY <2>1, <2>3 DEF FollowInv
  <2>4. CASE ~Live'
    BY <2>1, <2>4 DEF FollowInv
  <2>5. CASE NeutralizeFinish \/ (\E on \in BOOLEAN : SetSuppression(on))
    BY <2>2, <2>5, ReleaseTracksNothing DEF ReleasesAll
  <2>6. CASE (\E by \in {"sleep", "mask"} : NeutralizeBegin(by)) \/ NeutralizeQuarantine
    <3>1. ~Live'
      BY <2>6 DEF NeutralizeBegin, NeutralizeQuarantine, Live, Idle, TypeOK, PauseTypes
    <3> QED
      BY <2>4, <3>1
  <2>7. CASE \/ \E m \in Mappings : set_mapping(m)
             \/ \E on \in BOOLEAN : SetRecording(on) \/ SetKeyboardBlock(on)
             \/ UNCHANGED vars
    BY <2>3, <2>7, TrackedUnchanged DEF set_mapping, SetRecording, SetKeyboardBlock, vars,
       pause, settings, Live
  <2>8. CASE pause_runtime_input
    BY <2>4, <2>8 DEF pause_runtime_input, Live
  <2>9. CASE resume_runtime_input
    <3>1. Tracked' = Tracked /\ UNCHANGED <<quarantined_source_keys, neutralizing, suppressed>>
      BY <2>9, TrackedUnchanged DEF resume_runtime_input, settings
    <3>2. Live' => Live \/ Tracked = {}
      BY <2>9, <3>1 DEF resume_runtime_input, Live, SuspendInv
    <3> QED
      BY <2>2, <2>3, <2>4, <3>1, <3>2
  <2> QED
    BY <1>5, <2>5, <2>6, <2>7, <2>8, <2>9 DEF Neutralize, Control
<1> QED
  BY <1>1, <1>2, <1>3, <1>4, <1>5 DEF Next, Reconcile

\* A fresh grab has the invariant.
LEMMA FollowingInit == Init => FollowingInv
<1> SUFFICES ASSUME Init PROVE FollowingInv
  OBVIOUS
<1>1. TypeOK
  BY TypesInit
<1>2. Stream = <<>> /\ Tracked = {}
  BY NoEvents, ConcatEmptySeq DEF Init, Stream, Tracked
<1>3. StreamInv /\ FollowInv
  BY <1>2 DEF StreamInv, Alternates, EndsIn, FollowInv, Awaits
<1>4. SuspendInv /\ ModeInv
  BY <1>2 DEF Init, SuspendInv, ModeInv, Idle
<1> QED
  BY <1>1, <1>3, <1>4 DEF FollowingInv

\* Every step keeps it.
LEMMA FollowingStep ==
    ASSUME NoSuspends \/ NoChanges
    PROVE  FollowingInv /\ [Next]_vars => FollowingInv'
BY TypeOKStep, ModeStep, SuspendStep, FollowStep DEF FollowingInv

\* In a settled state it says what HeldFollowsHardware does.
LEMMA FollowingSuffices == FollowingInv => HeldFollowsHardware
<1> SUFFICES ASSUME FollowingInv, Settled PROVE Tracked \subseteq physical
  BY DEF HeldFollowsHardware
<1>1. Stream = <<>> /\ Live
  BY NoEvents, ConcatEmptySeq DEF Settled, Stream, Live
<1> QED
  BY <1>1 DEF FollowingInv, FollowInv, Awaits, NoneOf

\* A settled runtime follows no key the hardware does not hold, for every set of
\* keys, every mapping and any number of changes, lost events and errors, when
\* suspends do not meet mapping changes or suppressions: the repairs of
\* reconcile_live_key_state end each key's history in what was queried, and no
\* stage swallows the release of a key that is followed.
THEOREM HeldStaysFollowed ==
    ASSUME NoSuspends \/ NoChanges
    PROVE  Spec => []HeldFollowsHardware
BY FollowingInit, FollowingStep, FollowingSuffices, PTL DEF Spec

-----------------------------------------------------------------------------
(* The invariant behind NoStuckOutput and WithheldAwaitsRelease: for each    *)
(* output as many keys owe a release as releases are due.                    *)

\* No press is withheld from an output that write_key does not serve.
RoutesUnblocked == \A o \in Outputs \ BlockedByMacro : blocked_output_keys[o] = 0

\* Every step keeps that.
LEMMA UnblockedStep == TypeOK /\ RoutesUnblocked /\ [Next]_vars => RoutesUnblocked'
<1> SUFFICES ASSUME TypeOK, RoutesUnblocked, [Next]_vars PROVE RoutesUnblocked'
  OBVIOUS
<1>1. CASE Silent
  BY <1>1, SilentKeepsOutputs DEF RoutesUnblocked, outputs
<1>2. CASE ReleasesAll
  BY <1>2, ReleasesGiven DEF RoutesUnblocked, release_all_keys
<1>3. ASSUME NEW O, NEW v, write_key(O, v), O \subseteq BlockedByMacro
      PROVE  RoutesUnblocked'
  BY <1>3 DEF write_key, RoutesUnblocked, Withheld
<1>4. CASE apply_fast_passthrough \/ apply_mapped_action_or_passthrough
  <2>1. PICK action : output(NextEvent.key, action, NextEvent.value)
    BY <1>4 DEF apply_fast_passthrough, apply_mapped_action_or_passthrough
  <2>2. CASE Routed(action)
    BY <2>1, <2>2 DEF output, emit, RoutesUnblocked
  <2>3. CASE ~Routed(action)
    <3>1. Route(NextEvent.key, action) \cap Outputs \subseteq BlockedByMacro
      BY <2>3 DEF Route, BlockedByMacro, Routed
    <3>2. write_key(Route(NextEvent.key, action), NextEvent.value)
      BY <2>1, <2>3 DEF output
    <3> QED
      BY <3>1, <3>2 DEF write_key, RoutesUnblocked, Withheld
  <2> QED
    BY <2>2, <2>3
<1>5. CASE \E active \in SUBSET Keys : reconcile_live_key_state(active)
  <2>1. PICK S : write_key(UNION {Route(k, mapping[k]) :
                                   k \in {j \in S : mapping[j].type = "keyboard"}}, 0)
    BY <1>5 DEF reconcile_live_key_state, seed_startup_held_actions
  <2> DEFINE O == UNION {Route(k, mapping[k]) : k \in {j \in S : mapping[j].type = "keyboard"}}
  <2>2. O \cap Outputs \subseteq BlockedByMacro
    BY DEF Route, BlockedByMacro
  <2> HIDE DEF O
  <2>3. write_key(O, 0)
    BY <2>1 DEF O
  <2> QED
    BY <2>2, <2>3 DEF write_key, RoutesUnblocked, Withheld
<1> QED
  BY <1>1, <1>2, <1>4, <1>5, StepKinds DEF Writes

\* What a write does to the releases that are due: a press adds one at most, a
\* release takes one off each of its outputs that has any.
LEMMA WriteDue ==
    ASSUME OutputTypes, NEW O \in SUBSET Outputs, NEW v \in 0..2,
           \/ write_key(O, v)
           \/ emit(O, v) /\ \A p \in O : blocked_output_keys[p] = 0,
           NEW o \in Outputs
    PROVE  /\ Due(o) \in Nat /\ Due(o)' \in Nat
           /\ v # 1 => Due(o)' <= Due(o)
           /\ v = 1 => Due(o)' <= Due(o) + 1
           /\ o \notin O => Due(o)' = Due(o)
           /\ v = 0 /\ o \in O => Due(o)' = 0 \/ Due(o)' <= Due(o) - 1
<1> DEFINE D == o \in down \ (unwritten \cup slipped)
<1>1. PICK b \in Nat : blocked_output_keys[o] = b
  BY DEF OutputTypes
<1>2. Due(o) = b + (IF D THEN 1 ELSE 0)
  BY <1>1 DEF Due
<1>3. Due(o)' = blocked_output_keys'[o] + (IF D' THEN 1 ELSE 0)
  BY DEF Due
<1>4. CASE o \notin O
  <2>1. blocked_output_keys'[o] = b /\ (D' <=> D)
    BY <1>1, <1>4 DEF write_key, emit, WriteAndTrack, Withheld, Turned
  <2> QED
    BY <1>2, <1>3, <1>4, <2>1
<1>5. CASE o \in O /\ v = 1
  <2>1. \/ blocked_output_keys'[o] = b + 1 /\ (D' <=> D)
        \/ blocked_output_keys'[o] = 0
    BY <1>1, <1>5 DEF write_key, emit, WriteAndTrack, Withheld, Turned
  <2> QED
    BY <1>2, <1>3, <1>5, <2>1
<1>6. CASE o \in O /\ v = 0
  <2>1. \/ b > 0 /\ blocked_output_keys'[o] = b - 1 /\ (D' <=> D)
        \/ blocked_output_keys'[o] = 0 /\ ~D'
    BY <1>1, <1>6 DEF write_key, emit, WriteAndTrack, Withheld, Turned
  <2> QED
    BY <1>2, <1>3, <1>6, <2>1
<1>7. CASE o \in O /\ v = 2
  <2>1. blocked_output_keys'[o] = b /\ (D' <=> D)
    BY <1>1, <1>7 DEF write_key, emit, WriteAndTrack, Withheld, Turned
  <2> QED
    BY <1>2, <1>3, <1>7, <2>1
<1> QED
  BY <1>4, <1>5, <1>6, <1>7

\* A release of everything leaves no release due that was not lost in a write.
LEMMA ReleaseDue ==
    ASSUME OutputTypes, DownIsTracked, ReleasesAll, NEW o \in Outputs
    PROVE  Due(o)' = 0
<1>1. PICK held, pressed, touched :
        /\ release_all_keys(held, pressed)
        /\ held \ touched = held_output_keys \ touched
        /\ pressed \ touched = down \ touched
        /\ \/ slipped' = ((slipped \ touched) \cup (touched \cap pressed)) \ held
           \/ touched = {} /\ slipped' = slipped
  BY ReleasesGiven
<1>2. pressed \ held \subseteq slipped'
  BY <1>1 DEF DownIsTracked
<1>3. blocked_output_keys'[o] = 0 /\ o \notin down' \ (unwritten' \cup slipped')
  <2>1. blocked_output_keys'[o] = 0
    BY <1>1 DEF release_all_keys
  <2> QED
    BY <1>1, <1>2, <2>1, ReleaseLeaves
<1> QED
  BY <1>3 DEF Due

\* The keys that owe a release can be counted.
LEMMA OwingFinite ==
    ASSUME NEW o
    PROVE  IsFiniteSet(Owing(o)) /\ Cardinality(Owing(o)) \in Nat
BY GrabbedDeviceAssumption, FS_Subset, FS_CardinalityType DEF Owing

\* Only a key that is followed owes a release.
LEMMA OwingTracked ==
    ASSUME NEW o, NEW k \in Owing(o)
    PROVE  k \in Tracked /\ held_source_actions[k] # Absent
BY DEF Owing, Route, Absent, Tracked

\* An event of key k: a press that is remembered when none was, a release that
\* follows what is remembered and forgets it, or a repeat.
LEMMA EventOwed ==
    ASSUME TypeOK, NEW k \in Keys, NEW v \in 0..2, NEW b \in Action \cup {Absent},
           NEW c \in Action \cup {Absent},
           held_source_actions' = [held_source_actions EXCEPT ![k] = b],
           output(k, c, v), RoutesUnblocked,
           \/ v = 1 /\ held_source_actions[k] = Absent /\ c = b
           \/ /\ v = 0 /\ b = Absent
              /\ held_source_actions[k] # Absent => c = held_source_actions[k]
           \/ v = 2 /\ b = held_source_actions[k],
           NEW o \in Outputs, Cardinality(Owing(o)) >= Due(o)
    PROVE  Cardinality(Owing(o)') >= Due(o)'
<1> DEFINE a == held_source_actions[k]
           W == Owing(o)
           X == Owing(o)'
<1>1. IsFiniteSet(W) /\ Cardinality(W) \in Nat
  BY OwingFinite
<1>2. Route(k, c) \in SUBSET Outputs
  BY RouteType
<1>3. /\ Due(o) \in Nat /\ Due(o)' \in Nat
      /\ v # 1 => Due(o)' <= Due(o)
      /\ v = 1 => Due(o)' <= Due(o) + 1
      /\ o \notin Route(k, c) => Due(o)' = Due(o)
      /\ v = 0 /\ o \in Route(k, c) => Due(o)' = 0 \/ Due(o)' <= Due(o) - 1
  <2>1. Routed(c) => \A p \in Route(k, c) : blocked_output_keys[p] = 0
    BY <1>2, BlockedRoutes DEF RoutesUnblocked
  <2>2. \/ write_key(Route(k, c), v)
        \/ emit(Route(k, c), v) /\ \A p \in Route(k, c) : blocked_output_keys[p] = 0
    BY <2>1 DEF output
  <2> QED
    BY <1>2, <2>2, WriteDue DEF TypeOK
<1>4. X = IF o \in Route(k, b) THEN W \cup {k} ELSE W \ {k}
  BY DEF Owing, TypeOK, SourceTypes
<1>5. k \in W <=> o \in Route(k, a)
  BY DEF Owing
<1>6. Route(k, Absent) = {}
  BY DEF Route, Absent
<1>7. /\ Cardinality(W \cup {k}) = IF k \in W THEN Cardinality(W) ELSE Cardinality(W) + 1
      /\ Cardinality(W \ {k}) = IF k \in W THEN Cardinality(W) - 1 ELSE Cardinality(W)
      /\ Cardinality(W \ {k}) \in Nat
  BY <1>1, FS_AddElement, FS_RemoveElement, FS_CardinalityType
<1> HIDE DEF a, W, X
<1>8. Cardinality(W) >= Due(o)
  BY DEF W
<1>9. CASE v = 1 /\ a = Absent /\ c = b
  BY <1>1, <1>3, <1>4, <1>5, <1>6, <1>7, <1>8, <1>9 DEF X
<1>10. CASE v = 0 /\ b = Absent /\ (a # Absent => c = a)
  <2>1. X = W \ {k}
    BY <1>4, <1>6, <1>10
  <2>2. CASE k \in W
    <3>1. o \in Route(k, c)
      BY <1>5, <1>6, <1>10, <2>2
    <3> QED
      BY <1>1, <1>3, <1>7, <1>8, <1>10, <2>1, <2>2, <3>1 DEF X
  <2>3. CASE k \notin W
    BY <1>1, <1>3, <1>7, <1>8, <1>10, <2>1, <2>3 DEF X
  <2> QED
    BY <2>2, <2>3
<1>11. CASE v = 2 /\ b = a
  <2>1. X = W
    BY <1>4, <1>5, <1>11
  <2> QED
    BY <1>3, <1>1, <1>8, <1>11, <2>1 DEF X
<1> QED
  BY <1>9, <1>10, <1>11 DEF a

\* The press of a key that reaches its action is not one of a key that is followed.
LEMMA PressIsNew ==
    ASSUME TypeOK, FollowInv, neutralizing = Idle, PassIntercept, ~suppressed,
           NextEvent.value = 1
    PROVE  held_source_actions[NextEvent.key] = Absent
<1>1. Live /\ read_events
  BY DEF Live, PassIntercept
<1>2. Stream \in Seq(Event) /\ Stream # <<>> /\ NextEvent = Head(Stream) /\ NextEvent \in Event
  BY <1>1, StreamType, ReaderShrinks, ReadTypes DEF TypeOK
<1>3. 1 \in 1..Len(Stream) /\ Head(Stream) = Stream[1]
  BY <1>2, EmptySeq
<1>4. NoneOf(Stream, NextEvent.key, 1, 1 - 1)
  BY DEF NoneOf
<1>5. NextEvent.key \notin Tracked
  BY <1>1, <1>2, <1>3, <1>4 DEF FollowInv, Awaits
<1> QED
  BY <1>2, <1>5 DEF Tracked, Event

\* Every step keeps the releases that are due owed.
LEMMA OwedStep ==
    ASSUME TypeOK, FollowInv, DownIsTracked, RoutesUnblocked, OwedInv, [Next]_vars,
           DefaultOutput \/ EmptyMapping \notin Mappings
    PROVE  OwedInv'
<1>1. CASE UNCHANGED <<outputs, sources>> /\ (neutralizing' = Idle => neutralizing = Idle)
  BY <1>1 DEF OwedInv, Owing, Due, outputs, sources
<1>2. CASE ReleasesAll
  <2>1. \E held, pressed : release_all_keys(held, pressed)
    BY <1>2, ReleasesGiven
  <2>2. \A o \in Outputs : Due(o)' = 0
    BY <1>2, ReleaseDue DEF TypeOK
  <2>3. \A o \in Outputs : Owing(o)' = {}
    BY <2>1 DEF release_all_keys, Owing, Route, Absent
  <2> QED
    BY <2>2, <2>3, FS_EmptySet DEF OwedInv
<1>3. CASE apply_fast_passthrough \/ apply_mapped_action_or_passthrough
  <2> DEFINE k == NextEvent.key
             v == NextEvent.value
  <2>1. PassIntercept /\ ~suppressed /\ neutralizing' = neutralizing
    BY <1>3, AppliedTracks DEF pause
  <2>2. k \in Keys /\ v \in 0..2
    BY <2>1, ReadTypes DEF TypeOK, PassIntercept, Event
  <2>3. /\ mapping \in Mappings /\ mapping[k] \in Action /\ NoAction \in Action
        /\ held_source_actions[k] \in Action \cup {Absent}
    BY <2>2, GrabbedDeviceAssumption DEF TypeOK, SettingTypes, SourceTypes, Action
  <2>4. ASSUME neutralizing' = Idle, NEW o \in Outputs
        PROVE  Cardinality(Owing(o)') >= Due(o)'
    <3>1. Cardinality(Owing(o)) >= Due(o)
      BY <2>1, <2>4 DEF OwedInv
    <3>2. v = 1 => held_source_actions[k] = Absent
      BY <2>1, <2>4, PressIsNew
    <3>3. CASE apply_fast_passthrough
      <4>1. DefaultOutput /\ held_source_actions[k] = Absent
        BY <2>3, <3>3 DEF apply_fast_passthrough, UseFastPassthrough
      <4> DEFINE b == IF v = 1 THEN NoAction ELSE Absent
      <4>2. held_source_actions' = [held_source_actions EXCEPT ![k] = b]
        BY <2>2, <3>3, <4>1 DEF apply_fast_passthrough, TypeOK, SourceTypes
      <4>3. output(k, NoAction, v)
        BY <3>3 DEF apply_fast_passthrough
      <4>4. b \in Action \cup {Absent} /\ (v = 1 => b = NoAction) /\ (v # 1 => b = Absent)
        BY <2>3
      <4> HIDE DEF b, k, v
      <4>5. \/ v = 1 /\ held_source_actions[k] = Absent /\ NoAction = b
            \/ /\ v = 0 /\ b = Absent
               /\ held_source_actions[k] # Absent => NoAction = held_source_actions[k]
            \/ v = 2 /\ b = held_source_actions[k]
        BY <2>2, <4>1, <4>4
      <4> QED
        BY <2>2, <2>3, <3>1, <4>2, <4>3, <4>4, <4>5, EventOwed
    <3>4. CASE apply_mapped_action_or_passthrough
      <4> DEFINE a == held_source_actions[k]
                 b == CASE v = 0 -> Absent
                        [] v = 1 /\ a = Absent -> mapping[k]
                        [] OTHER -> a
                 c == IF v # 1 /\ a # Absent THEN a ELSE mapping[k]
      <4>1. held_source_actions' = [held_source_actions EXCEPT ![k] = b]
        BY <3>4 DEF apply_mapped_action_or_passthrough
      <4>2. output(k, c, v)
        BY <3>4 DEF apply_mapped_action_or_passthrough, EventAction
      <4>3. b \in Action \cup {Absent} /\ c \in Action \cup {Absent}
        BY <2>2, <2>3
      <4>4. \/ v = 1 /\ a = Absent /\ c = b
            \/ v = 0 /\ b = Absent /\ (a # Absent => c = a)
            \/ v = 2 /\ b = a
        BY <2>2, <3>2
      <4> HIDE DEF b, c, k, v
      <4> QED
        BY <2>2, <3>1, <4>1, <4>2, <4>3, <4>4, EventOwed
    <3> QED
      BY <1>3, <3>3, <3>4
  <2> QED
    BY <2>4 DEF OwedInv
<1>4. CASE \E active \in SUBSET Keys : reconcile_live_key_state(active)
  <2>1. PICK active \in SUBSET Keys : reconcile_live_key_state(active)
    BY <1>4
  <2> DEFINE S == active \ Known(unread)
             O == UNION {Route(k, mapping[k]) : k \in {j \in S : mapping[j].type = "keyboard"}}
  <2>2. /\ write_key(O, 0) /\ neutralizing' = neutralizing
        /\ held_source_actions' =
             [k \in Keys |-> IF k \in S THEN mapping[k] ELSE held_source_actions[k]]
    BY <2>1 DEF reconcile_live_key_state, seed_startup_held_actions, pause
  <2>3. S \subseteq Keys /\ S \cap Tracked = {}
    BY DEF Known
  <2>4. mapping \in [Keys -> Action]
    BY GrabbedDeviceAssumption DEF TypeOK, SettingTypes
  <2>5. O \in SUBSET Outputs
    BY <2>3, <2>4, RouteType
  <2> HIDE DEF S, O
  <2>6. ASSUME neutralizing' = Idle, NEW o \in Outputs
        PROVE  Cardinality(Owing(o)') >= Due(o)'
    <3> DEFINE W == Owing(o)
               X == Owing(o)'
    <3>1. Cardinality(W) >= Due(o)
      BY <2>2, <2>6 DEF OwedInv
    <3>2. Due(o) \in Nat /\ Due(o)' \in Nat /\ Due(o)' <= Due(o)
      BY <2>2, <2>5, WriteDue DEF TypeOK
    <3>3. W \subseteq X
      <4> SUFFICES ASSUME NEW k \in W PROVE k \in X
        OBVIOUS
      <4>1. k \in Keys /\ k \notin S /\ o \in Route(k, held_source_actions[k])
        BY <2>3, OwingTracked DEF Owing
      <4> QED
        BY <2>2, <4>1 DEF Owing
    <3>4. X \subseteq Keys
      BY DEF Owing
    <3> HIDE DEF W, X
    <3>5. IsFiniteSet(X)
      BY <3>4, GrabbedDeviceAssumption, FS_Subset
    <3>6. /\ Cardinality(W) \in Nat /\ Cardinality(X) \in Nat
          /\ Cardinality(W) <= Cardinality(X)
      <4>1. W \in SUBSET X
        BY <3>3
      <4>2. IsFiniteSet(W) /\ Cardinality(W) <= Cardinality(X)
        BY <3>5, <4>1, FS_Subset
      <4> QED
        BY <3>5, <4>2, FS_CardinalityType
    <3>7. Cardinality(X) >= Due(o)'
      BY <3>1, <3>2, <3>6
    <3> QED
      BY <3>7 DEF X
  <2> QED
    BY <2>6 DEF OwedInv
<1>5. CASE Silent
  <2>1. UNCHANGED <<outputs, sources>>
    BY <1>5, SilentKeepsOutputs DEF Silent, Hardware, Press, Release, Repeat, Enqueue,
       PausedEvent, QuarantinedEvent, SuppressedEvent, DeferReconcile, ReconcileReadFails,
       NeutralizeBegin, NeutralizeQuarantine, set_mapping, SetRecording, SetKeyboardBlock,
       pause_runtime_input, resume_runtime_input, vars
  <2>2. neutralizing' = Idle => neutralizing = Idle
    <3>1. CASE (\E by \in {"sleep", "mask"} : NeutralizeBegin(by)) \/ NeutralizeQuarantine
      BY <3>1 DEF NeutralizeBegin, NeutralizeQuarantine, Idle, TypeOK, PauseTypes
    <3>2. CASE UNCHANGED neutralizing
      BY <3>2
    <3> QED
      BY <1>5, <3>1, <3>2 DEF Silent, Hardware, Press, Release, Repeat, Enqueue, PausedEvent,
         QuarantinedEvent, SuppressedEvent, DeferReconcile, ReconcileReadFails, set_mapping,
         SetRecording, SetKeyboardBlock, pause_runtime_input, resume_runtime_input, vars, pause
  <2> QED
    BY <1>1, <2>1, <2>2
<1> QED
  BY <1>2, <1>3, <1>4, <1>5, StepKinds DEF Writes

\* The invariant of both theorems below.
LEMMA OwedAlways ==
    ASSUME NoSuspends \/ NoChanges, DefaultOutput \/ EmptyMapping \notin Mappings
    PROVE  Spec => [](FollowingInv /\ DownIsTracked /\ RoutesUnblocked /\ OwedInv)
<1>1. Init => FollowingInv /\ DownIsTracked /\ RoutesUnblocked /\ OwedInv
  <2> SUFFICES ASSUME Init PROVE OwedInv
    BY FollowingInit DEF Init, DownIsTracked, RoutesUnblocked
  <2>1. \A o \in Outputs : Due(o) = 0 /\ Owing(o) = {}
    BY DEF Init, Due, Owing, Route, Absent
  <2> QED
    BY <2>1, FS_EmptySet DEF OwedInv
<1>2. FollowingInv /\ DownIsTracked /\ RoutesUnblocked /\ OwedInv /\ [Next]_vars
        => (FollowingInv /\ DownIsTracked /\ RoutesUnblocked /\ OwedInv)'
  BY FollowingStep, TrackedStep, UnblockedStep, OwedStep DEF FollowingInv
<1> QED
  BY <1>1, <1>2, PTL DEF Spec

\* Once the user has let go of every key and the pipeline has caught up, no
\* output is down whose release was written or could have been, for every set of
\* keys and mappings and any number of changes, blocks, lost events, errors and
\* failing writes: write_key and the remembered action keep a release owed for
\* every press, withheld or not.  Input that a device without a mapping passes on
\* goes to a routed output, or no mapping is empty: the fast path remembers
\* nothing (apply_fast_passthrough).
THEOREM NothingStaysStuck ==
    ASSUME NoSuspends \/ NoChanges, DefaultOutput \/ EmptyMapping \notin Mappings
    PROVE  Spec => []NoStuckOutput
<1>1. FollowingInv /\ DownIsTracked /\ RoutesUnblocked /\ OwedInv => NoStuckOutput
  <2> SUFFICES ASSUME FollowingInv, OwedInv, Settled, physical = {}, NEW o \in down
               PROVE  o \in unwritten \cup slipped
    BY DEF NoStuckOutput
  <2>1. Tracked = {}
    BY FollowingSuffices DEF HeldFollowsHardware
  <2>2. o \in Outputs /\ Owing(o) = {}
    BY <2>1, OwingTracked DEF FollowingInv, TypeOK, OutputTypes
  <2>3. blocked_output_keys[o] \in Nat
    BY <2>2 DEF FollowingInv, TypeOK, OutputTypes
  <2>4. 0 >= Due(o)
    BY <2>2, FS_EmptySet DEF OwedInv, Settled
  <2> QED
    BY <2>3, <2>4 DEF Due
<1> QED
  BY <1>1, OwedAlways, PTL

\* A withheld press is counted only while its key is followed: no count of
\* write_key outlives its key and swallows the release of a later press.
THEOREM WithheldIsOwed ==
    ASSUME NoSuspends \/ NoChanges, DefaultOutput \/ EmptyMapping \notin Mappings
    PROVE  Spec => []WithheldAwaitsRelease
<1>1. FollowingInv /\ DownIsTracked /\ RoutesUnblocked /\ OwedInv => WithheldAwaitsRelease
  <2> SUFFICES ASSUME FollowingInv, OwedInv, neutralizing = Idle, NEW o \in Outputs,
                      blocked_output_keys[o] > 0
               PROVE  \E k \in Tracked : o \in Route(k, held_source_actions[k])
    BY DEF WithheldAwaitsRelease
  <2>1. blocked_output_keys[o] \in Nat
    BY DEF FollowingInv, TypeOK, OutputTypes
  <2>2. Cardinality(Owing(o)) >= Due(o) /\ Due(o) \in Nat /\ Due(o) > 0
    BY <2>1 DEF OwedInv, Due
  <2>3. Owing(o) # {}
    BY <2>2, FS_EmptySet
  <2> QED
    BY <2>3, OwingTracked DEF Owing
<1> QED
  BY <1>1, OwedAlways, PTL
=============================================================================
