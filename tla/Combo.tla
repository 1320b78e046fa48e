------------------------------- MODULE Combo -------------------------------
(***************************************************************************)
(* The combo runtime of keymasqd: the matching engine (combo_engine.py),   *)
(* the orchestration of its decisions (runtime/combo/), and the part of a  *)
(* grabbed device that passes, recalls and restores trigger keys           *)
(* (event/combo.py, device.py).                                            *)
(*                                                                         *)
(* Every device reads its events in a task of its own.  An event first     *)
(* touches the device's own state (Arrive); then it waits for the          *)
(* transition lock, which is held over the engine's decision (Decide), the *)
(* actions that the decision starts and stops, one at a time, and the      *)
(* routing of the event (Finish).  Other devices' events arrive meanwhile. *)
(*                                                                         *)
(* The trigger keys themselves are not mapped: an event that no combo      *)
(* takes is passed through unchanged.  A device that maps other keys       *)
(* (Mapped) remembers the keys that it passed in held_source_actions; one  *)
(* without a mapping does not.  An action is what the combo runtime itself *)
(* keeps of it: its entry in active_actions and the keys it is to restore. *)
(***************************************************************************)
EXTENDS Naturals, Sequences, FiniteSets, Functions

CONSTANTS
  Bindings,        \* the inputs of the grabbed devices: keys, buttons, wheel directions
  Devices,         \* the grabbed devices
  Names,           \* normalised evdev names; left and right modifiers share one
  DeviceOf, NameOf,\* [Bindings -> Devices], [Bindings -> Names]
  Mapped,          \* the devices that have a mapping
  Pulses,          \* the bindings that are wheel directions
  Modifiers,       \* the names that are generic modifiers
  Ids,             \* combo ids
  Configurations,  \* the combo sets the session may send: functions id -> definition
  AnyDevice,       \* the device of an expected binding that matches every device
  MaxEdits,        \* bound: set_combos calls and device releases
  CaptureOverlaps  \* may a capture overlap held keys and changes of the combos

None == <<>>

Expected == [device : Devices \cup {AnyDevice}, name : Names]

\* held: the action has a press/release lifecycle; otherwise it runs once
Definition == [steps : Seq(SUBSET Expected), recall : BOOLEAN,
               restore : SUBSET Names, held : BOOLEAN]

ASSUME ComboAssumption ==
  /\ IsFiniteSet(Bindings)
  /\ DeviceOf \in [Bindings -> Devices] /\ NameOf \in [Bindings -> Names]
  /\ Mapped \subseteq Devices /\ Pulses \subseteq Bindings /\ Modifiers \subseteq Names
  /\ AnyDevice \notin Devices /\ MaxEdits \in Nat /\ CaptureOverlaps \in BOOLEAN
  /\ \A b \in Pulses : NameOf[b] \notin Modifiers
  /\ \A config \in Configurations :
       /\ DOMAIN config \subseteq Ids
       /\ \A id \in DOMAIN config :
            /\ config[id] \in Definition /\ config[id].steps # <<>>
            /\ \A n \in DOMAIN config[id].steps :
                 LET step == config[id].steps[n]
                 IN  /\ IsFiniteSet(step) /\ step # {}
                     \* the editor never stores one name twice in a step
                     /\ \A e, f \in step : e.name = f.name => e = f

VARIABLES
  combos,     \* active_combos, as id -> definition
  candidates, \* the engine's _candidates
  held,       \* the engine's _held_bindings
  active,     \* active_actions: id -> the bindings to restore when it stops
  down,       \* held_source_keys of every device
  dev,        \* of every device: the keys held at its output, combo_passthrough_held,
              \* the keys of held_source_actions, combo_recalled_bindings
  inbox,      \* per device: the event that waits for the transition lock
  job,        \* the event that holds the transition lock
  watchdog,   \* is timeout_task running
  capture,    \* the devices whose events go to a combo capture
  edits

vars == <<combos, candidates, held, active, down, dev, inbox, job, watchdog, capture, edits>>

Marks == Devices \X Names
Mark(b) == <<DeviceOf[b], NameOf[b]>>

Candidate ==
  [step : Nat, pressed : SUBSET Bindings, tracked : SUBSET Bindings,
   passed : SUBSET Bindings, releasing : BOOLEAN,
   deadline : {"none", "running", "passed"}, active : BOOLEAN, final : SUBSET Bindings]

Event == [b : Bindings, v : 0..2, suppress : BOOLEAN]

IsPartial(f, S, T) == DOMAIN f \subseteq S /\ \A x \in DOMAIN f : f[x] \in T

TypeOK ==
  /\ combos \in Configurations
  /\ IsPartial(candidates, Ids, Candidate)
  /\ held \subseteq Bindings /\ down \subseteq Bindings
  /\ IsPartial(active, Ids, SUBSET Bindings)
  /\ dev \in [out : SUBSET Bindings, through : SUBSET Bindings, routed : SUBSET Bindings,
              recalled : SUBSET Marks]
  /\ inbox \in [Devices -> Event \cup {None}]
  /\ job = None \/ /\ job.event \in Event
                   /\ IsPartial(job.start, Ids, SUBSET Bindings)
                   /\ job.once \subseteq Ids /\ job.stop \subseteq Ids
                   /\ {job.consume, job.pass} \subseteq BOOLEAN
  /\ watchdog \in BOOLEAN /\ capture \subseteq Devices /\ edits \in 0..MaxEdits

Init ==
  /\ combos \in Configurations
  /\ candidates = <<>> /\ held = {} /\ active = <<>> /\ down = {}
  /\ dev = [out |-> {}, through |-> {}, routed |-> {}, recalled |-> {}]
  /\ inbox = [d \in Devices |-> None] /\ job = None
  /\ watchdog = FALSE /\ capture = {} /\ edits = 0

----------------------------------------------------------------------------
(* The engine *)

Drop(f, S) == Restrict(f, DOMAIN f \ S)

\* the entries of f, and those of g that f does not have
Merge(f, g) == [x \in DOMAIN f \cup DOMAIN g |-> IF x \in DOMAIN f THEN f[x] ELSE g[x]]

_binding_matches(e, b) == e.device \in {AnyDevice, DeviceOf[b]} /\ e.name = NameOf[b]

_step_matches_binding(step, b) == \E e \in step : _binding_matches(e, b)

_step_matches_scope(step, b) == \E e \in step : e.device \in {AnyDevice, DeviceOf[b]}

current_step(id, c) == combos[id].steps[c.step]

LastStep(id) == Len(combos[id].steps)

NewCandidate ==
  [step |-> 1, pressed |-> {}, tracked |-> {}, passed |-> {}, releasing |-> FALSE,
   deadline |-> "none", active |-> FALSE, final |-> {}]

\* the candidate waits for its next step until the step's deadline
NextStep(c) == [NewCandidate EXCEPT !.step = c.step + 1, !.deadline = "running"]

_track_press(c, b, passed) ==
  IF b \in c.tracked THEN c
  ELSE [c EXCEPT !.tracked = @ \cup {b}, !.pressed = @ \cup ({b} \ Pulses),
                 !.passed = @ \cup (IF passed THEN {b} ELSE {}), !.deadline = "none"]

_complete_current_step(id, c, b) ==
  LET isFinal == c.step = LastStep(id)
  IN  [_track_press(c, b, FALSE) EXCEPT
         !.pressed = @ \cup ({b} \ Pulses), !.releasing = TRUE, !.deadline = "none",
         !.active = isFinal, !.final = IF isFinal THEN {b} ELSE {}]

\* a step that only pulses completed has nothing to be released
_advance_pulse_completed_step(id, c) ==
  IF ~c.active /\ c.releasing /\ c.pressed = {} /\ c.step < LastStep(id)
    THEN NextStep(c) ELSE c

\* the passed keys of a completed step that are to be released downstream
_recall_events(c) == {b \in c.tracked \ (c.final \cup Pulses) : NameOf[b] \notin Modifiers}

\* The outcome of a decision on the candidates cs: who starts, with which
\* trigger bindings, who stops, what is recalled, and the event's route.
Outcome(cs, start, stop, recall, consume, pass) ==
  [candidates |-> cs, start |-> start, stop |-> stop, recall |-> recall,
   consume |-> consume, pass |-> pass /\ ~consume]

\* the candidates of new that complete their combo, with their trigger bindings
Starting(new) ==
  [id \in {i \in DOMAIN new : new[i].active} |-> new[id].tracked]

\* a pulse that completes a combo leaves no candidate to release
Kept(new, b) == IF b \in Pulses THEN Drop(new, DOMAIN Starting(new)) ELSE new

\* what the candidates that already wait make of a press
_handle_waiting_candidate_press(cs, b) ==
  LET waiting  == {id \in DOMAIN cs : ~cs[id].releasing}
      repeated == {id \in waiting : b \in cs[id].pressed}
      matching == {id \in waiting \ repeated :
                     _step_matches_binding(current_step(id, cs[id]), b)}
      scoped   == {id \in waiting \ (repeated \cup matching) :
                     _step_matches_scope(current_step(id, cs[id]), b)}
      completed == {id \in matching :
                      Cardinality(cs[id].pressed) + 1 = Cardinality(current_step(id, cs[id]))}
      done == [id \in completed |->
                 _advance_pulse_completed_step(id, _complete_current_step(id, cs[id], b))]
      partial == [id \in matching \ completed |->
                    IF b \in Pulses THEN cs[id] ELSE _track_press(cs[id], b, TRUE)]
      rest == Drop(cs, matching \cup scoped)
  IN  CASE matching # {} ->
             Outcome(Merge(Merge(rest, partial), Kept(done, b)), Starting(done), {},
                     UNION {_recall_events(done[id]) : id \in completed},
                     completed # {}, TRUE)
        [] matching = {} /\ repeated # {} -> Outcome(cs, <<>>, {}, {}, TRUE, FALSE)
        [] OTHER -> Outcome(rest, <<>>, {}, {}, FALSE, scoped # {})

\* the sets of held bindings that, with b, satisfy a first step
_held_bindings_for_step(step, h, b) ==
  {m \in SUBSET (h \cup {b}) :
     /\ b \in m /\ Cardinality(m) = Cardinality(step)
     /\ \A e \in step : \E x \in m : _binding_matches(e, x)}

_pulse_can_complete_first_step(id, b, m) ==
  \/ b \notin Pulses
  \/ LastStep(id) = 1 /\ Cardinality(combos[id].steps[1]) = 1
  \/ ~ (m \ {b} \subseteq Pulses)

FirstStepMatches(id, h, b) ==
  {m \in _held_bindings_for_step(combos[id].steps[1], h, b) :
     _pulse_can_complete_first_step(id, b, m)}

_candidate_first_step_combos(b) ==
  {id \in DOMAIN combos : _step_matches_binding(combos[id].steps[1], b)}

\* The first steps that b and the held bindings satisfy.  Where several held
\* bindings fit one expected binding the engine takes any of them: choice.
_activate_satisfied_first_steps(cs, b, choice) ==
  LET activate(id) ==
        LET c == [NewCandidate EXCEPT !.tracked = choice[id], !.passed = choice[id] \ {b},
                                      !.pressed = choice[id] \ Pulses]
        IN  _advance_pulse_completed_step(id, _complete_current_step(id, c, b))
      new == [id \in DOMAIN choice |-> activate(id)]
      existing == {id \in _candidate_first_step_combos(b) \cap DOMAIN cs : b \in cs[id].pressed}
  IN  Outcome(Merge(cs, Kept(new, b)), Starting(new), {},
              UNION {_recall_events(new[id]) : id \in DOMAIN new},
              existing # {} \/ DOMAIN new # {}, FALSE)

\* a press with the held bindings h; the last disjunct of pass lets the first
\* keys of a combo through while it may still be completed
_handle_press_event(waiting, first, b) ==
  Outcome(first.candidates, Merge(waiting.start, first.start), {}, waiting.recall \cup first.recall,
          waiting.consume \/ first.consume,
          waiting.pass \/ _candidate_first_step_combos(b) # {})

\* Mutant: the action stops when the whole step is released.
_handle_release_event_waits_for_all(cs, b) ==
  LET pressing == {id \in DOMAIN cs : b \in cs[id].pressed}
      left == [id \in {i \in pressing : cs[i].pressed # {b}} |->
                 [cs[id] EXCEPT !.pressed = @ \ {b}]]
      last == pressing \ DOMAIN left
      next == [id \in {i \in last : cs[i].step < LastStep(i)} |-> NextStep(cs[id])]
  IN  Outcome(Merge(Merge(Drop(cs, pressing), left), next), <<>>, {id \in last : cs[id].active}, {},
              pressing # {}, FALSE)

\* A release ends every candidate's step that b was pressed for: a waiting
\* candidate is dropped; a completed one stops its action, and goes on to the
\* next step when the whole step is released.
_handle_release_event(cs, b) ==
  LET pressing == {id \in DOMAIN cs : b \in cs[id].pressed}
      waiting  == {id \in pressing : ~cs[id].releasing}
      ending   == pressing \ waiting
      over(id) == LET last == cs[id].pressed = {b}
                  IN  IF last THEN cs[id].step = LastStep(id) ELSE LastStep(id) = 1
      left(id) == IF cs[id].pressed = {b} THEN NextStep(cs[id])
                  ELSE [cs[id] EXCEPT !.pressed = @ \ {b}, !.active = FALSE]
      next     == [id \in {i \in ending : ~over(i)} |-> left(id)]
      passed   == \E id \in waiting : b \in cs[id].passed
  IN  Outcome(Merge(Drop(cs, pressing), next), <<>>, {id \in ending : cs[id].active}, {},
              ending # {} \/ (waiting # {} /\ ~passed), waiting # {} /\ passed)

expire_timeouts(cs) == Drop(cs, {id \in DOMAIN cs : cs[id].deadline = "passed"})

next_deadline(cs) == {id \in DOMAIN cs : cs[id].deadline # "none"}

----------------------------------------------------------------------------
(* The device's side *)

\* emit_combo_release and mark_combo_recalled_binding, for the keys of S
\* whose output is held
emit_combo_recalls(d, S) ==
  [d EXCEPT !.out = @ \ S, !.recalled = @ \cup {Mark(b) : b \in S \cap d.out}]

\* the keys of S that are still down are pressed again
restore_combo_trigger_bindings(d, S) ==
  [d EXCEPT !.out = @ \cup (S \cap down), !.through = @ \cup ((S \cap down) \ d.out),
            !.recalled = @ \ {Mark(b) : b \in S}]

\* outputs.passthrough
emit_passthrough_event(d, b, v) ==
  CASE b \in Pulses \/ v = 2 -> d
    [] v = 1 /\ b \notin Pulses -> [d EXCEPT !.out = @ \cup {b}]
    [] v = 0 /\ b \notin Pulses -> [d EXCEPT !.out = @ \ {b}]

clear_released_source_action(d, e) ==
  [d EXCEPT !.routed = IF e.v = 0 THEN @ \ {e.b} ELSE @]

\* Mutant: a consumed event always ends here.
Route_consumed_ends(d, e, consume, pass) ==
  LET emitted == emit_passthrough_event(d, e.b, e.v)
      pressed == IF e.v = 1 THEN {e.b} \ Pulses ELSE {}
  IN  IF consume \/ e.suppress THEN clear_released_source_action(d, e)
      ELSE [clear_released_source_action(emitted, e) EXCEPT
              !.through = IF pass THEN @ \cup pressed ELSE @,
              !.routed = IF DeviceOf[e.b] \in Mapped THEN @ \cup pressed ELSE @]

\* route_combo_callback_result: a consumed event ends here unless it is the
\* release of a key that was passed
StopsProcessing(d, e, consume) ==
  consume /\ ~(e.v = 0 /\ e.b \in d.through \cup d.routed)

\* What process_event does with the event after the combo callback: what
\* is neither consumed nor suppressed is passed, and a press that is passed is
\* remembered for its release.
Route(d, e, consume, pass) ==
  LET emitted == emit_passthrough_event(d, e.b, e.v)
      ends == StopsProcessing(d, e, consume)
      pressed == IF e.v = 1 THEN {e.b} \ Pulses ELSE {}
  IN  CASE ends -> d
        [] ~ends /\ e.suppress -> clear_released_source_action(d, e)
        [] ~ends /\ ~e.suppress /\ e.b \in d.through ->
             [clear_released_source_action(emitted, e) EXCEPT
                !.through = IF e.v = 0 THEN @ \ {e.b} ELSE @]
        [] OTHER ->
             [clear_released_source_action(emitted, e) EXCEPT
                !.through = IF pass THEN @ \cup pressed ELSE @,
                !.routed = IF DeviceOf[e.b] \in Mapped THEN @ \cup pressed ELSE @]

\* _observe_source_key_transition
Observed(b, v) ==
  CASE b \in Pulses \/ v = 2 -> down
    [] v = 1 /\ b \notin Pulses -> down \cup {b}
    [] v = 0 /\ b \notin Pulses -> down \ {b}

\* The hardware can send: a press of a key that is up, the release or the
\* repeat of one that is down, a tick of a wheel direction.
Possible(b, v) ==
  IF b \in Pulses THEN v = 1 ELSE (v = 1) = (b \notin down)

Recalled(b) == b \notin Pulses /\ Mark(b) \in dev.recalled

\* a press or a release takes the recall mark of its name
intercept_recalled_event(b) ==
  IF Recalled(b) THEN [dev EXCEPT !.recalled = @ \ {Mark(b)}, !.through = @ \ {b}] ELSE dev

\* The event reaches the device's task.  A captured event ends here, and
\* without combos the event is routed at once; otherwise it queues for the
\* transition lock.  The repeats of a recalled key are suppressed.
Arrive(b, v) ==
  LET d == DeviceOf[b]
      e == [b |-> b, v |-> v, suppress |-> Recalled(b) /\ v = 0]
      taken == intercept_recalled_event(b)
  IN  /\ inbox[d] = None /\ Possible(b, v)
      /\ ~(job # None /\ DeviceOf[job.event.b] = d)
      /\ ~(Recalled(b) /\ v = 2)
      /\ down' = Observed(b, v)
      /\ \/ d \in capture /\ dev' = clear_released_source_action(taken, e) /\ UNCHANGED inbox
         \/ d \notin capture /\ combos = <<>> /\ dev' = Route(taken, e, FALSE, FALSE)
            /\ UNCHANGED inbox
         \/ d \notin capture /\ combos # <<>> /\ dev' = taken
            /\ inbox' = [inbox EXCEPT ![d] = e]
      /\ UNCHANGED <<combos, candidates, held, active, job, watchdog, capture, edits>>

----------------------------------------------------------------------------
(* Under the transition lock *)

held_combo_modifier_bindings_for_scope(d) ==
  {b \in down : DeviceOf[b] = d /\ NameOf[b] \in Modifiers}

\* ways to satisfy, with b, the first steps of the combos that have no candidate
FirstStepChoices(cs, h, b) ==
  LET fits == [id \in _candidate_first_step_combos(b) \ DOMAIN cs |-> FirstStepMatches(id, h, b)]
      ids  == {id \in DOMAIN fits : fits[id] # {}}
  IN  {choice \in [ids -> UNION {fits[id] : id \in ids}] : \A id \in ids : choice[id] \in fits[id]}

\* Mutant: only the watchdog expires candidates.
handle_event_without_expiry(e, h) ==
  CASE e.v = 2 -> {Outcome(candidates, <<>>, {}, {}, FALSE, FALSE)}
    [] e.v = 0 -> {_handle_release_event(candidates, e.b)}
    [] e.v = 1 ->
         UNION {{_handle_press_event(waiting,
                   _activate_satisfied_first_steps(waiting.candidates, e.b, choice), e.b) :
                 choice \in FirstStepChoices(waiting.candidates, h, e.b)} :
                waiting \in {_handle_waiting_candidate_press(candidates, e.b)}}

\* handle_event: the possible outcomes of an event with the held bindings h
handle_event(e, h) ==
  LET alive == expire_timeouts(candidates)
  IN  CASE e.v = 2 -> {Outcome(alive, <<>>, {}, {}, FALSE, FALSE)}
        [] e.v = 0 -> {_handle_release_event(alive, e.b)}
        [] e.v = 1 ->
             UNION {{_handle_press_event(waiting,
                       _activate_satisfied_first_steps(waiting.candidates, e.b, choice), e.b) :
                     choice \in FirstStepChoices(waiting.candidates, h, e.b)} :
                    waiting \in {_handle_waiting_candidate_press(alive, e.b)}}

\* process_runtime_combo_event up to the recalls
Decide(d) ==
  /\ job = None /\ inbox[d] # None
  /\ LET e == inbox[d]
         pressed == IF e.v = 1 /\ e.b \notin Pulses
                      THEN {e.b} \cup held_combo_modifier_bindings_for_scope(d) ELSE {}
     IN  \E o \in handle_event(e, held \cup pressed) :
           /\ candidates' = o.candidates
           /\ held' = IF e.v = 0 THEN held \ {e.b} ELSE held \cup pressed
           /\ dev' = emit_combo_recalls(dev, o.recall)
           /\ job' = [event |-> e, start |-> o.start, stop |-> o.stop,
                      once |-> {id \in DOMAIN o.start : e.b \in Pulses \/ ~combos[id].held},
                      consume |-> o.consume, pass |-> o.pass]
  /\ inbox' = [inbox EXCEPT ![d] = None]
  /\ UNCHANGED <<combos, active, down, watchdog, capture, edits>>

\* Mutant: stopping an action leaves its trigger keys recalled.
Stopped_without_restore(d, S) == d

\* stop_combo_action of every id of S: the entries go and their keys come back
Stopped(d, S) ==
  restore_combo_trigger_bindings(d, UNION {active[id] : id \in S \cap DOMAIN active})

\* with recall_trigger_keys the trigger keys are released downstream; the ones
\* to restore are those the combo names
combo_trigger_recall_state(d, id, trigger) ==
  IF ~combos[id].recall THEN [dev |-> d, restore |-> {}]
  ELSE [dev |-> emit_combo_recalls(d, {b \in trigger : Mark(b) \notin d.recalled}),
        restore |-> {b \in trigger : /\ b \in d.out \/ Mark(b) \in d.recalled
                                     /\ NameOf[b] \in combos[id].restore}]

\* an action that still runs is stopped first
start_combo_action(id) ==
  LET recalled == combo_trigger_recall_state(Stopped(dev, {id}), id, job.start[id])
  IN  /\ job # None /\ job.stop = {} /\ id \in DOMAIN job.start
      /\ dev' = recalled.dev
      /\ active' = Merge([i \in {id} |-> recalled.restore], active)
      /\ job' = [job EXCEPT !.start = Drop(@, {id}), !.stop = job.once \cap {id}]
      /\ UNCHANGED <<combos, candidates, held, down, inbox, watchdog, capture, edits>>

stop_combo_action(id) ==
  /\ job # None /\ id \in job.stop
  /\ dev' = Stopped(dev, {id})
  /\ active' = Drop(active, {id})
  /\ job' = [job EXCEPT !.stop = @ \ {id}]
  /\ UNCHANGED <<combos, candidates, held, down, inbox, watchdog, capture, edits>>

\* Mutant: a watchdog is only kept, never started.
Finish_without_watchdog ==
  /\ job # None /\ DOMAIN job.start = {} /\ job.stop = {}
  /\ watchdog' = (watchdog /\ next_deadline(candidates) # {})
  /\ dev' = Route(dev, job.event, job.consume, job.pass)
  /\ job' = None
  /\ UNCHANGED <<combos, candidates, held, active, down, inbox, capture, edits>>

\* refresh_combo_timeout_watchdog, the end of the lock, and the routing
Finish ==
  /\ job # None /\ DOMAIN job.start = {} /\ job.stop = {}
  /\ watchdog' = (next_deadline(candidates) # {})
  /\ dev' = Route(dev, job.event, job.consume, job.pass)
  /\ job' = None
  /\ UNCHANGED <<combos, candidates, held, active, down, inbox, capture, edits>>

DeadlinePasses(id) ==
  /\ id \in DOMAIN candidates /\ candidates[id].deadline = "running"
  /\ candidates' = [candidates EXCEPT ![id].deadline = "passed"]
  /\ UNCHANGED <<combos, held, active, down, dev, inbox, job, watchdog, capture, edits>>

combo_timeout_watchdog ==
  /\ watchdog /\ job = None
  /\ \E id \in DOMAIN candidates : candidates[id].deadline = "passed"
  /\ candidates' = expire_timeouts(candidates)
  /\ watchdog' = (next_deadline(candidates') # {})
  /\ UNCHANGED <<combos, held, active, down, dev, inbox, job, capture, edits>>

unchanged_combo_ids(config) ==
  {id \in DOMAIN config \cap DOMAIN combos : config[id] = combos[id]}

\* prime_combo_engine_with_held_bindings
Primed(h, keys) == h \cup keys

\* set_combos with _refresh_combo_runtime: what did not change keeps its
\* candidate and its running action; when nothing is unchanged all is cleared
set_combos(config) ==
  LET unchanged == unchanged_combo_ids(config)
  IN  /\ job = None /\ edits < MaxEdits /\ config # combos
      /\ CaptureOverlaps \/ capture = {}
      /\ combos' = config
      /\ dev' = Stopped(dev, DOMAIN active \ unchanged)
      /\ active' = Restrict(active, DOMAIN active \cap unchanged)
      /\ candidates' = Restrict(candidates, DOMAIN candidates \cap unchanged)
      /\ held' = Primed(IF unchanged = {} THEN {} ELSE held, down)
      /\ watchdog' = (next_deadline(candidates') # {})
      /\ edits' = edits + 1
      /\ UNCHANGED <<down, inbox, job, capture>>

\* the candidates that drop_candidates_for_binding_scope drops
InScope(d) ==
  {id \in DOMAIN candidates :
     \E b \in candidates[id].pressed \cup candidates[id].tracked \cup candidates[id].final :
       DeviceOf[b] = d}

\* The device is released and grabbed again: its task is cancelled between two
\* transitions, what its inputs take part in is dropped and stopped
\* (clear_combo_runtime_for_binding_scope), its own state is cleared, and the
\* combos are refreshed.
release_device(d) ==
  LET mine(b) == DeviceOf[b] = d
      dropped == InScope(d)
      stopping == {id \in dropped : candidates[id].active}
      cleared == Stopped(dev, stopping)
  IN  /\ job = None /\ edits < MaxEdits
      /\ CaptureOverlaps \/ capture = {}
      /\ candidates' = Drop(candidates, dropped)
      /\ active' = Drop(active, stopping)
      /\ down' = {b \in down : ~mine(b)}
      /\ held' = Primed({b \in held : ~mine(b)}, down')
      /\ dev' = [out |-> {b \in cleared.out : ~mine(b)},
                 through |-> {b \in cleared.through : ~mine(b)},
                 routed |-> {b \in cleared.routed : ~mine(b)},
                 recalled |-> {m \in cleared.recalled : m[1] # d}]
      /\ inbox' = [inbox EXCEPT ![d] = None]
      /\ watchdog' = (next_deadline(candidates') # {})
      /\ edits' = edits + 1
      /\ UNCHANGED <<combos, job, capture>>

\* the releases that a device has read and the engine or the route has not seen
Leaving == {inbox[d].b : d \in {x \in Devices : inbox[x] # None /\ inbox[x].v = 0}}
             \cup (IF job # None /\ job.event.v = 0 THEN {job.event.b} ELSE {})

begin_combo_capture(d) ==
  /\ d \notin capture
  /\ CaptureOverlaps \/ \A b \in down \cup Leaving : DeviceOf[b] # d
  /\ capture' = capture \cup {d}
  /\ UNCHANGED <<combos, candidates, held, active, down, dev, inbox, job, watchdog, edits>>

end_combo_capture(d) ==
  /\ d \in capture
  /\ capture' = capture \ {d}
  /\ UNCHANGED <<combos, candidates, held, active, down, dev, inbox, job, watchdog, edits>>

Next ==
  \/ \E b \in Bindings, v \in 0..2 : Arrive(b, v)
  \/ \E d \in Devices : Decide(d)
  \/ \E id \in Ids : start_combo_action(id) \/ stop_combo_action(id) \/ DeadlinePasses(id)
  \/ Finish
  \/ combo_timeout_watchdog
  \/ \E config \in Configurations : set_combos(config)
  \/ \E d \in Devices : release_device(d) \/ begin_combo_capture(d) \/ end_combo_capture(d)

\* the tasks of the event loop run; the user and the session need not act
Fairness ==
  /\ \A d \in Devices : WF_vars(Decide(d))
  /\ \A id \in Ids : WF_vars(start_combo_action(id)) /\ WF_vars(stop_combo_action(id))
  /\ WF_vars(Finish) /\ WF_vars(combo_timeout_watchdog)

Spec == Init /\ [][Next]_vars /\ Fairness

----------------------------------------------------------------------------
(* Properties *)

\* "The action stops when any key from the final step is released": outside a
\* transition, an active action has a candidate whose final step is held by
\* keys that are all still down, or whose release is about to be processed.
ActionHeldByKeys ==
  job = None =>
    \A id \in DOMAIN active :
      /\ id \in DOMAIN candidates /\ candidates[id].active
      /\ candidates[id].step = LastStep(id)
      /\ Cardinality(candidates[id].pressed) = Cardinality(current_step(id, candidates[id]))
      /\ candidates[id].pressed \subseteq down \cup Leaving

\* Recall and restore keep the outputs balanced: a key that is held down for
\* the applications is physically down, or its release is being processed.
NoStuckOutput == dev.out \subseteq down \cup Leaving

\* A running action has promised to press b again when it stops.
Promised(b) == \E id \in DOMAIN active : b \in active[id]

\* An action starts that recalls the name of b and does not promise b: its combo
\* does not restore that name, or its trigger is another input of the name.
RecalledForGood(b) ==
  \E id \in Ids :
    /\ start_combo_action(id)
    /\ combos[id].recall
    /\ \E x \in job.start[id] :
         Mark(x) = Mark(b) /\ (x = b => NameOf[b] \notin combos[id].restore)

\* The modifier b is suppressed and no running action owes it.
Unowed(b) == NameOf[b] \in Modifiers /\ Mark(b) \in dev.recalled /\ ~Promised(b)

\* A promise to restore is kept: a modifier that is down is suppressed with no
\* running action that owes it only from the start of an action that recalls it
\* for good, like that of the built-in Ctrl+Alt+Esc.  No later start, stop, edit
\* of the combos or release of a device breaks a promise that was made, and a
\* key pressed anew is not suppressed.
SuppressedIsOwed ==
  [][\A b \in down' :
       Unowed(b)' => (b \in down /\ Unowed(b)) \/ RecalledForGood(b)]_vars

\* A step whose deadline has passed is never completed, however late the
\* watchdog and the press are processed.
LateStepNeverCompletes ==
  [][\A id \in DOMAIN candidates \cap DOMAIN candidates' :
       candidates[id].deadline = "passed" =>
         candidates'[id].step = 1 \/ candidates'[id].deadline = "passed"]_vars

\* Nobody has to press a key for a step to time out.
StepTimesOut ==
  \A id \in Ids :
    (id \in DOMAIN candidates /\ candidates[id].deadline = "passed")
      ~> ~(id \in DOMAIN candidates /\ candidates[id].deadline = "passed")
============================================================================
