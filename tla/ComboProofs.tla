---------------------------- MODULE ComboProofs ----------------------------
(***************************************************************************)
(* What holds of the combo runtime for every set of devices, inputs and    *)
(* combos, and any number of edits:                                        *)
(*                                                                         *)
(*   TypesHold        types, and candidates of the present combos          *)
(*   LateStepsDrop    a step whose deadline has passed is never completed  *)
(*   ActionsAreHeld   a running action has all its keys, down or leaving   *)
(*   OutputsReleased  an output is down only as long as its key            *)
(*   MarksAreOwed     a promise to restore a modifier is kept              *)
(*                                                                         *)
(* The first part is about the engine's decisions alone, the second about  *)
(* the devices.                                                            *)
(***************************************************************************)
EXTENDS Combo, FiniteSetTheorems, TLAPS

\* A capture does not begin while a key of its device is down.
CapturesApart == ~CaptureOverlaps

\* Every device has a mapping, so that it remembers the keys it passes.
Remembered == Mapped = Devices

\* A device has one input of each normalised name.
OneOfName == \A a, b \in Bindings : Mark(a) = Mark(b) => a = b

-----------------------------------------------------------------------------
(* The engine. *)

\* A candidate of the combo id: the bindings it tracks are inputs of its step,
\* and while its action runs the whole step is pressed.
CandidateOK(id, c) ==
  /\ c \in Candidate
  /\ c.step \in 1..LastStep(id)
  /\ c.pressed \cap Pulses = {}
  /\ ~c.releasing => c.tracked = c.pressed /\ ~c.active
  /\ c.active =>
       /\ c.deadline = "none" /\ c.step = LastStep(id) /\ c.tracked \ Pulses = c.pressed
       /\ Cardinality(c.pressed) = Cardinality(current_step(id, c))
  /\ \A b \in c.tracked : \E e \in current_step(id, c) : e.name = NameOf[b]

\* Candidates of the present combos that have pressed keys of K alone.
CandidatesOK(cs, K) ==
  \A id \in DOMAIN cs :
    id \in DOMAIN combos /\ CandidateOK(id, cs[id]) /\ cs[id].pressed \subseteq K

\* The action of the combo id is held by the keys S.
Holds(cs, id, S) ==
  id \in DOMAIN cs /\ cs[id].active /\ S \ Pulses \subseteq cs[id].pressed

\* What a decision on the event of b may start.
StartsOK(o, b, K) ==
  \A id \in DOMAIN o.start :
    /\ id \in DOMAIN combos /\ o.start[id] \subseteq Bindings
    /\ o.start[id] \ Pulses \subseteq K
    /\ b \notin Pulses => Holds(o.candidates, id, o.start[id])

\* An outcome of the event of b on the candidates cs.
OutcomeOK(o, cs, b, K) ==
  /\ CandidatesOK(o.candidates, K) /\ StartsOK(o, b, K)
  /\ o.stop \subseteq Ids /\ o.recall \subseteq Bindings
  /\ \A x \in o.recall : NameOf[x] \notin Modifiers
  /\ o.consume \in BOOLEAN /\ o.pass \in BOOLEAN
  /\ \A id \in DOMAIN cs : cs[id].active =>
       id \in o.stop \/ (id \in DOMAIN o.candidates /\ o.candidates[id] = cs[id])
  /\ \A id \in DOMAIN o.candidates : id \in DOMAIN cs \/ o.candidates[id].step = 1

\* The definitions of the combos.
LEMMA ComboFacts ==
  ASSUME combos \in Configurations, NEW id \in DOMAIN combos
  PROVE  /\ id \in Ids /\ combos[id] \in Definition
         /\ LastStep(id) \in Nat \ {0} /\ DOMAIN combos[id].steps = 1..LastStep(id)
         /\ \A n \in 1..LastStep(id) :
              /\ combos[id].steps[n] \in SUBSET Expected
              /\ IsFiniteSet(combos[id].steps[n]) /\ combos[id].steps[n] # {}
              /\ \A e, f \in combos[id].steps[n] : e.name = f.name => e = f
<1>1. id \in Ids /\ combos[id] \in Definition /\ combos[id].steps # <<>>
  BY ComboAssumption
<1>2. combos[id].steps \in Seq(SUBSET Expected)
  BY <1>1 DEF Definition
<1>3. LastStep(id) \in Nat \ {0} /\ DOMAIN combos[id].steps = 1..LastStep(id)
  BY <1>1, <1>2 DEF LastStep
<1>4. \A n \in 1..LastStep(id) : combos[id].steps[n] \in SUBSET Expected
  BY <1>2, <1>3
<1> QED
  BY <1>1, <1>3, <1>4, ComboAssumption

\* Any set of inputs is finite.
LEMMA InputsFinite ==
  ASSUME NEW S \in SUBSET Bindings
  PROVE  IsFiniteSet(S) /\ Cardinality(S) \in Nat
BY ComboAssumption, FS_Subset, FS_CardinalityType

\* A new candidate has pressed nothing.
LEMMA NewCandidateOK ==
  /\ NewCandidate \in Candidate /\ NewCandidate.step = 1 /\ NewCandidate.pressed = {}
  /\ NewCandidate.tracked = {} /\ NewCandidate.active = FALSE
BY DEF Candidate, NewCandidate

\* A candidate that has just gone on to its next step.
LEMMA NextStepOK ==
  ASSUME combos \in Configurations, NEW id \in DOMAIN combos, NEW c,
         CandidateOK(id, c), c.step # LastStep(id)
  PROVE  CandidateOK(id, NextStep(c)) /\ NextStep(c).pressed = {} /\ ~NextStep(c).active
<1>1. c.step \in Nat /\ c.step + 1 \in 1..LastStep(id)
  BY ComboFacts DEF CandidateOK, Candidate
<1> DEFINE n == NextStep(c)
<1>2. /\ n \in Candidate /\ n.step = c.step + 1 /\ n.pressed = {} /\ n.tracked = {}
      /\ n.active = FALSE
  <2>1. PICK k \in Nat : k = c.step + 1
    BY <1>1
  <2>2. n = [NewCandidate EXCEPT !.step = k, !.deadline = "running"]
    BY <2>1 DEF NextStep
  <2> HIDE DEF n
  <2>3. /\ n \in Candidate /\ n.step = k /\ n.pressed = {} /\ n.tracked = {} /\ n.active = FALSE
    BY <2>2, NewCandidateOK DEF Candidate
  <2> QED
    BY <2>1, <2>3
<1> HIDE DEF n
<1> QED
  BY <1>1, <1>2 DEF CandidateOK, n

\* A waiting candidate that has tracked one more key of its step.
LEMMA TrackOK ==
  ASSUME combos \in Configurations, NEW id \in DOMAIN combos, NEW c, CandidateOK(id, c),
         ~c.releasing, NEW b \in Bindings, _step_matches_binding(current_step(id, c), b),
         b \notin Pulses
  PROVE  /\ CandidateOK(id, _track_press(c, b, TRUE))
         /\ _track_press(c, b, TRUE).pressed \subseteq c.pressed \cup {b}
         /\ ~_track_press(c, b, TRUE).active
<1> DEFINE t == _track_press(c, b, TRUE)
<1>1. /\ t \in Candidate /\ t.step = c.step /\ t.releasing = c.releasing /\ t.active = c.active
      /\ t.pressed = c.pressed \cup {b} /\ t.tracked = c.tracked \cup {b}
  BY DEF _track_press, CandidateOK, Candidate
<1>2. \E e \in current_step(id, c) : e.name = NameOf[b]
  BY DEF _step_matches_binding, _binding_matches
<1> HIDE DEF t
<1>3. current_step(id, t) = current_step(id, c)
  BY <1>1 DEF current_step
<1>4. CandidateOK(id, t)
  BY <1>1, <1>2, <1>3 DEF CandidateOK
<1> QED
  BY <1>1, <1>4 DEF t, CandidateOK

\* The press of b completes the step of the candidate c.
Completes(id, c, b) ==
  /\ id \in DOMAIN combos /\ c \in Candidate /\ b \in Bindings
  /\ c.step \in 1..LastStep(id) /\ c.pressed = c.tracked \ Pulses
  /\ \A x \in c.tracked : \E e \in current_step(id, c) : e.name = NameOf[x]
  /\ _step_matches_binding(current_step(id, c), b)
  /\ b \notin Pulses => Cardinality(c.pressed \cup {b}) = Cardinality(current_step(id, c))

\* What becomes of it.
CompletedOK(id, c, b, q) ==
  /\ q \in Candidate /\ q.pressed \subseteq c.pressed \cup ({b} \ Pulses)
  /\ ~q.active \/ b \notin Pulses => CandidateOK(id, q)
  /\ q.active => q.tracked \ Pulses = q.pressed
  /\ c.pressed # {} \/ b \notin Pulses \/ c.step = LastStep(id) => q.step = c.step

\* A step that b completes: its candidate is one of the engine's, unless a pulse
\* completed the combo.
LEMMA CompleteOK ==
  ASSUME combos \in Configurations, NEW id, NEW c, NEW b, Completes(id, c, b), NEW q,
         q = _advance_pulse_completed_step(id, _complete_current_step(id, c, b))
  PROVE  CompletedOK(id, c, b, q)
<1> USE DEF Completes
<1> DEFINE f == _complete_current_step(id, c, b)
<1>1. /\ f \in Candidate /\ f.step = c.step /\ f.tracked = c.tracked \cup {b}
      /\ f.pressed = c.pressed \cup ({b} \ Pulses) /\ f.releasing /\ f.deadline = "none"
      /\ f.active = (c.step = LastStep(id))
  <2> DEFINE t == _track_press(c, b, FALSE)
  <2>1. /\ t \in Candidate /\ t.step = c.step /\ t.tracked = c.tracked \cup {b}
        /\ t.pressed = c.pressed \cup ({b} \ Pulses)
    <3>1. CASE b \in c.tracked
      BY <3>1 DEF _track_press
    <3>2. CASE b \notin c.tracked
      BY <3>2 DEF _track_press, Candidate
    <3> QED
      BY <3>1, <3>2
  <2> HIDE DEF t
  <2>2. f = [t EXCEPT !.pressed = @ \cup ({b} \ Pulses), !.releasing = TRUE, !.deadline = "none",
                      !.active = (c.step = LastStep(id)),
                      !.final = IF c.step = LastStep(id) THEN {b} ELSE {}]
    BY DEF _complete_current_step, t
  <2> QED
    BY <2>1, <2>2 DEF Candidate
<1>2. \A x \in f.tracked : \E e \in current_step(id, c) : e.name = NameOf[x]
  BY <1>1 DEF _step_matches_binding, _binding_matches
<1> HIDE DEF f
<1>3. current_step(id, f) = current_step(id, c)
  BY <1>1 DEF current_step
<1>4. f.pressed \cap Pulses = {} /\ f.tracked \ Pulses = f.pressed
  BY <1>1
<1>5. ~f.active \/ b \notin Pulses => CandidateOK(id, f)
  <2>1. b \notin Pulses => f.pressed = c.pressed \cup {b}
    BY <1>1
  <2> QED
    BY <1>1, <1>2, <1>3, <1>4, <2>1 DEF CandidateOK
<1>6. c.step \in Nat /\ LastStep(id) \in Nat
  BY ComboFacts
<1>7. CASE f.active \/ f.pressed # {} \/ ~(f.step < LastStep(id))
  <2>1. q = f
    BY <1>7 DEF _advance_pulse_completed_step, f
  <2> QED
    BY <1>1, <1>4, <1>5, <1>6, <2>1 DEF CompletedOK
<1>8. CASE ~f.active /\ f.pressed = {} /\ f.step < LastStep(id)
  <2>1. q = NextStep(f)
    BY <1>1, <1>8 DEF _advance_pulse_completed_step, f
  <2>2. CandidateOK(id, q) /\ q.pressed = {}
    BY <1>1, <1>5, <1>8, <2>1, NextStepOK
  <2>3. ~q.active
    BY <1>1, <1>5, <1>8, <2>1, NextStepOK
  <2>4. ~(c.pressed # {} \/ b \notin Pulses \/ c.step = LastStep(id))
    BY <1>1, <1>8
  <2> QED
    BY <2>2, <2>3, <2>4 DEF CandidateOK, CompletedOK
<1> QED
  BY <1>1, <1>6, <1>7, <1>8

\* What is recalled is a key of the candidate's, and no modifier.
LEMMA RecallOK ==
  ASSUME NEW c \in Candidate
  PROVE  _recall_events(c) \subseteq Bindings /\ \A x \in _recall_events(c) : NameOf[x] \notin Modifiers
BY DEF _recall_events, Candidate

\* As many inputs as the step names, one for each of them, are inputs of the step.
LEMMA StepInputs ==
  ASSUME NEW step, IsFiniteSet(step), \A e, f \in step : e.name = f.name => e = f,
         NEW m \in SUBSET Bindings, Cardinality(m) = Cardinality(step),
         \A e \in step : \E x \in m : _binding_matches(e, x)
  PROVE  \A x \in m : \E e \in step : e.name = NameOf[x]
<1> DEFINE g == [e \in step |-> CHOOSE x \in m : _binding_matches(e, x)]
<1>1. \A e \in step : g[e] \in m /\ _binding_matches(e, g[e])
  OBVIOUS
<1>2. \A e \in step : e.name = NameOf[g[e]]
  BY <1>1 DEF _binding_matches
<1> HIDE DEF g
<1>3. g \in [step -> m]
  BY <1>1 DEF g
<1>4. g \in Injection(step, m)
  BY <1>2, <1>3 DEF Injection, IsInjective
<1>5. IsFiniteSet(m)
  BY InputsFinite
<1>6. g \in Surjection(step, m)
  BY <1>4, <1>5, FS_Injection
<1> QED
  BY <1>2, <1>6 DEF Surjection

\* What the candidates that wait make of a press.
LEMMA WaitingOK ==
  ASSUME combos \in Configurations, NEW K, NEW cs, CandidatesOK(cs, K),
         NEW b \in Bindings, b \notin Pulses => b \in K,
         NEW w, w = _handle_waiting_candidate_press(cs, b)
  PROVE  OutcomeOK(w, cs, b, K) /\ DOMAIN w.candidates \subseteq DOMAIN cs /\ w.stop = {}
<1> DEFINE waiting  == {id \in DOMAIN cs : ~cs[id].releasing}
           repeated == {id \in waiting : b \in cs[id].pressed}
           matching == {id \in waiting \ repeated :
                          _step_matches_binding(current_step(id, cs[id]), b)}
           scoped   == {id \in waiting \ (repeated \cup matching) :
                          _step_matches_scope(current_step(id, cs[id]), b)}
           completed == {id \in matching :
                           Cardinality(cs[id].pressed) + 1 = Cardinality(current_step(id, cs[id]))}
           done == [id \in completed |->
                      _advance_pulse_completed_step(id, _complete_current_step(id, cs[id], b))]
           partial == [id \in matching \ completed |->
                         IF b \in Pulses THEN cs[id] ELSE _track_press(cs[id], b, TRUE)]
           rest == Drop(cs, matching \cup scoped)
           recall == UNION {_recall_events(done[id]) : id \in completed}
           all == Merge(Merge(rest, partial), Kept(done, b))
<1>1. w = CASE matching # {} ->
                 Outcome(all, Starting(done), {}, recall, completed # {}, TRUE)
            [] matching = {} /\ repeated # {} -> Outcome(cs, <<>>, {}, {}, TRUE, FALSE)
            [] OTHER -> Outcome(rest, <<>>, {}, {}, FALSE, scoped # {})
  BY DEF _handle_waiting_candidate_press
<1>2. \A id \in DOMAIN cs : id \in DOMAIN combos /\ CandidateOK(id, cs[id]) /\ cs[id].pressed \subseteq K
  BY DEF CandidatesOK
<1>3. /\ DOMAIN rest = DOMAIN cs \ (matching \cup scoped)
      /\ \A id \in DOMAIN rest : rest[id] = cs[id]
  BY DEF Drop, Restrict
<1>4. ASSUME NEW id \in completed
      PROVE  /\ id \in DOMAIN cs /\ id \in DOMAIN combos /\ done[id] \in Candidate
             /\ done[id].pressed \subseteq K
             /\ ~done[id].active \/ b \notin Pulses => CandidateOK(id, done[id])
             /\ done[id].active => /\ done[id].tracked \subseteq Bindings
                                   /\ done[id].tracked \ Pulses = done[id].pressed
  <2> DEFINE c == cs[id]
             q == done[id]
  <2>1. /\ c \in Candidate /\ c.step \in 1..LastStep(id) /\ c.tracked = c.pressed
        /\ c.pressed \cap Pulses = {} /\ c.pressed \subseteq K /\ id \in DOMAIN combos
        /\ \A x \in c.tracked : \E e \in current_step(id, c) : e.name = NameOf[x]
    BY <1>2 DEF CandidateOK
  <2>2. /\ b \notin c.pressed /\ _step_matches_binding(current_step(id, c), b)
        /\ Cardinality(c.pressed) + 1 = Cardinality(current_step(id, c))
    OBVIOUS
  <2>3. c.pressed \in SUBSET Bindings
    BY <2>1 DEF Candidate
  <2>4. Cardinality(c.pressed \cup {b}) = Cardinality(current_step(id, c))
    BY <2>2, <2>3, InputsFinite, FS_AddElement
  <2>5. q = _advance_pulse_completed_step(id, _complete_current_step(id, c, b))
    OBVIOUS
  <2>6. c.pressed = c.tracked \ Pulses
    BY <2>1
  <2> HIDE DEF c, q
  <2>7. CompletedOK(id, c, b, q)
    <3>1. Completes(id, c, b)
      BY <2>1, <2>2, <2>4, <2>6 DEF Completes
    <3> QED
      BY <2>5, <3>1, CompleteOK
  <2>8. /\ q \in Candidate /\ q.pressed \subseteq c.pressed \cup ({b} \ Pulses)
        /\ ~q.active \/ b \notin Pulses => CandidateOK(id, q)
        /\ q.active => q.tracked \ Pulses = q.pressed
    BY <2>7 DEF CompletedOK
  <2>9. q.tracked \subseteq Bindings
    BY <2>8 DEF Candidate
  <2> QED
    BY <2>1, <2>8, <2>9 DEF q
<1>5. ASSUME NEW id \in matching \ completed
      PROVE  /\ id \in DOMAIN cs /\ id \in DOMAIN combos
             /\ CandidateOK(id, partial[id]) /\ partial[id].pressed \subseteq K
  <2>1. CASE b \in Pulses
    BY <1>2, <2>1
  <2>2. CASE b \notin Pulses
    <3>1. partial[id] = _track_press(cs[id], b, TRUE)
      BY <2>2
    <3>2. /\ CandidateOK(id, partial[id])
          /\ partial[id].pressed \subseteq cs[id].pressed \cup {b}
      BY <1>2, <2>2, <3>1, TrackOK
    <3> QED
      BY <1>2, <2>2, <3>2
  <2> QED
    BY <2>1, <2>2
<1>6. /\ DOMAIN Starting(done) = {id \in completed : done[id].active}
      /\ \A id \in DOMAIN Starting(done) : Starting(done)[id] = done[id].tracked
  BY DEF Starting
<1>7. /\ DOMAIN Kept(done, b) = IF b \in Pulses THEN {id \in completed : ~done[id].active}
                                                ELSE completed
      /\ \A id \in DOMAIN Kept(done, b) : Kept(done, b)[id] = done[id]
  BY <1>6 DEF Kept, Drop, Restrict
<1>8. \A id \in DOMAIN cs : cs[id].active => id \notin waiting
  BY <1>2 DEF CandidateOK
<1>9. DOMAIN partial = matching \ completed /\ completed \subseteq matching /\ matching \subseteq DOMAIN cs
  OBVIOUS
<1>10. matching \cap DOMAIN rest = {} /\ \A id \in matching \cup scoped : id \in waiting
  BY <1>3
<1>11. \A id \in completed : /\ _recall_events(done[id]) \subseteq Bindings
                             /\ \A x \in _recall_events(done[id]) : NameOf[x] \notin Modifiers
  BY <1>4, RecallOK
<1>12. recall \subseteq Bindings /\ \A x \in recall : NameOf[x] \notin Modifiers
  BY <1>11
<1> HIDE DEF waiting, repeated, matching, scoped, completed, done, partial, rest, recall
<1>13. /\ DOMAIN all = DOMAIN rest \cup (matching \ completed) \cup DOMAIN Kept(done, b)
       /\ \A id \in DOMAIN rest : all[id] = cs[id]
       /\ \A id \in matching \ completed : all[id] = partial[id]
       /\ \A id \in DOMAIN Kept(done, b) : all[id] = done[id]
  <2> DEFINE both == Merge(rest, partial)
  <2>1. /\ DOMAIN both = DOMAIN rest \cup (matching \ completed)
        /\ \A id \in DOMAIN rest : both[id] = cs[id]
        /\ \A id \in matching \ completed : both[id] = partial[id]
    BY <1>3, <1>9, <1>10 DEF Merge
  <2>2. all = Merge(both, Kept(done, b)) /\ DOMAIN Kept(done, b) \cap DOMAIN both = {}
    BY <1>7, <1>9, <1>10, <2>1
  <2> HIDE DEF both, all
  <2> QED
    BY <1>7, <2>1, <2>2 DEF Merge
<1> HIDE DEF all
<1>14. CASE matching # {}
  <2>1. w = Outcome(all, Starting(done), {}, recall, completed # {}, TRUE)
    BY <1>1, <1>14
  <2>2. /\ w.candidates = all /\ w.start = Starting(done) /\ w.stop = {} /\ w.recall = recall
        /\ w.consume \in BOOLEAN /\ w.pass \in BOOLEAN
    BY <2>1 DEF Outcome
  <2>3. CandidatesOK(all, K)
    BY <1>2, <1>3, <1>4, <1>5, <1>7, <1>13 DEF CandidatesOK
  <2>4. StartsOK(w, b, K)
    <3> SUFFICES ASSUME NEW id \in DOMAIN w.start
                 PROVE  /\ id \in DOMAIN combos /\ w.start[id] \subseteq Bindings
                        /\ w.start[id] \ Pulses \subseteq K
                        /\ b \notin Pulses => Holds(w.candidates, id, w.start[id])
      BY DEF StartsOK
    <3>1. id \in completed /\ done[id].active /\ w.start[id] = done[id].tracked
      BY <1>6, <2>2
    <3>2. b \notin Pulses => id \in DOMAIN all /\ all[id] = done[id]
      BY <1>7, <1>13, <3>1
    <3> QED
      BY <1>4, <2>2, <3>1, <3>2 DEF Holds
  <2>5. \A id \in DOMAIN cs : cs[id].active => id \in DOMAIN all /\ all[id] = cs[id]
    BY <1>3, <1>8, <1>10, <1>13
  <2>6. DOMAIN all \subseteq DOMAIN cs
    BY <1>3, <1>7, <1>9, <1>13
  <2> QED
    BY <1>12, <2>2, <2>3, <2>4, <2>5, <2>6 DEF OutcomeOK
<1>15. CASE matching = {}
  <2>1. \/ w = Outcome(cs, <<>>, {}, {}, TRUE, FALSE)
        \/ w = Outcome(rest, <<>>, {}, {}, FALSE, scoped # {})
    BY <1>1, <1>15
  <2>2. /\ w.candidates \in {cs, rest} /\ w.start = <<>> /\ w.stop = {} /\ w.recall = {}
        /\ w.consume \in BOOLEAN /\ w.pass \in BOOLEAN
    <3>1. CASE w = Outcome(cs, <<>>, {}, {}, TRUE, FALSE)
      BY <3>1 DEF Outcome
    <3>2. CASE w = Outcome(rest, <<>>, {}, {}, FALSE, scoped # {})
      BY <3>2 DEF Outcome
    <3> QED
      BY <2>1, <3>1, <3>2
  <2>3. CandidatesOK(w.candidates, K)
    BY <1>2, <1>3, <2>2 DEF CandidatesOK
  <2>4. StartsOK(w, b, K)
    BY <2>2 DEF StartsOK
  <2>5. \A id \in DOMAIN cs :
          cs[id].active => id \in DOMAIN w.candidates /\ w.candidates[id] = cs[id]
    BY <1>3, <1>8, <1>10, <2>2
  <2>6. DOMAIN w.candidates \subseteq DOMAIN cs
    BY <1>3, <2>2
  <2> QED
    BY <2>2, <2>3, <2>4, <2>5, <2>6 DEF OutcomeOK
<1> QED
  BY <1>14, <1>15

\* What the held bindings h and the press of b make of the combos without a
\* candidate.
LEMMA FirstOK ==
  ASSUME combos \in Configurations, NEW K, NEW cs, CandidatesOK(cs, K),
         NEW b \in Bindings, b \notin Pulses => b \in K,
         NEW h \in SUBSET (Bindings \ Pulses), combos # <<>> => h \subseteq K,
         NEW choice \in FirstStepChoices(cs, h, b),
         NEW f, f = _activate_satisfied_first_steps(cs, b, choice)
  PROVE  /\ OutcomeOK(f, cs, b, K) /\ f.stop = {}
         /\ \A id \in DOMAIN cs : id \in DOMAIN f.candidates /\ f.candidates[id] = cs[id]
<1> DEFINE seed(id) == [NewCandidate EXCEPT !.tracked = choice[id], !.passed = choice[id] \ {b},
                                            !.pressed = choice[id] \ Pulses]
           new == [id \in DOMAIN choice |->
                     _advance_pulse_completed_step(id, _complete_current_step(id, seed(id), b))]
           existing == {id \in _candidate_first_step_combos(b) \cap DOMAIN cs : b \in cs[id].pressed}
           recall == UNION {_recall_events(new[id]) : id \in DOMAIN new}
           all == Merge(cs, Kept(new, b))
<1>1. f = Outcome(all, Starting(new), {}, recall, existing # {} \/ DOMAIN new # {}, FALSE)
  BY DEF _activate_satisfied_first_steps
<1>2. \A id \in DOMAIN choice : /\ id \in _candidate_first_step_combos(b) \ DOMAIN cs
                                /\ choice[id] \in FirstStepMatches(id, h, b)
  BY DEF FirstStepChoices
<1>3. ASSUME NEW id \in DOMAIN choice
      PROVE  /\ id \in DOMAIN combos /\ id \notin DOMAIN cs /\ new[id] \in Candidate
             /\ new[id].pressed \subseteq K /\ new[id].step = 1
             /\ ~new[id].active \/ b \notin Pulses => CandidateOK(id, new[id])
             /\ new[id].active => /\ new[id].tracked \subseteq Bindings
                                  /\ new[id].tracked \ Pulses = new[id].pressed
  <2> DEFINE m == choice[id]
             c == seed(id)
             q == new[id]
             step == combos[id].steps[1]
  <2>1. id \in DOMAIN combos /\ _step_matches_binding(step, b) /\ id \notin DOMAIN cs
    BY <1>2 DEF _candidate_first_step_combos
  <2>2. /\ m \in SUBSET (h \cup {b}) /\ b \in m /\ Cardinality(m) = Cardinality(step)
        /\ \A e \in step : \E x \in m : _binding_matches(e, x)
        /\ _pulse_can_complete_first_step(id, b, m)
    BY <1>2 DEF FirstStepMatches, _held_bindings_for_step
  <2>3. /\ IsFiniteSet(step) /\ \A e, g \in step : e.name = g.name => e = g
        /\ LastStep(id) \in Nat \ {0}
    BY <2>1, ComboFacts
  <2>4. m \in SUBSET Bindings
    BY <2>2
  <2> HIDE DEF m
  <2>5. /\ c \in Candidate /\ c.step = 1 /\ c.tracked = m /\ c.pressed = m \ Pulses
    BY <2>4, NewCandidateOK DEF Candidate, m
  <2>6. q = _advance_pulse_completed_step(id, _complete_current_step(id, c, b))
    OBVIOUS
  <2> HIDE DEF c, q
  <2>7. \A x \in m : \E e \in step : e.name = NameOf[x]
    BY <2>2, <2>3, <2>4, StepInputs
  <2>8. current_step(id, c) = step
    BY <2>5 DEF current_step
  <2>9. b \notin Pulses => Cardinality(c.pressed \cup {b}) = Cardinality(step)
    <3>1. b \notin Pulses => c.pressed \cup {b} = m
      BY <2>2, <2>5
    <3> QED
      BY <2>2, <3>1
  <2> HIDE DEF step
  <2>10. Completes(id, c, b)
    BY <2>1, <2>3, <2>5, <2>7, <2>8, <2>9 DEF Completes
  <2>11. CompletedOK(id, c, b, q)
    BY <2>6, <2>10, CompleteOK
  <2>12. c.pressed # {} \/ b \notin Pulses \/ c.step = LastStep(id)
    BY <2>2, <2>5 DEF _pulse_can_complete_first_step
  <2>13. c.pressed \subseteq K
    <3>1. combos # <<>>
      BY <2>1
    <3> QED
      BY <2>2, <2>5, <3>1
  <2>14. /\ q \in Candidate /\ q.pressed \subseteq c.pressed \cup ({b} \ Pulses)
         /\ ~q.active \/ b \notin Pulses => CandidateOK(id, q)
         /\ q.active => q.tracked \ Pulses = q.pressed
         /\ q.step = 1
    BY <2>5, <2>11, <2>12 DEF CompletedOK
  <2>15. q.tracked \subseteq Bindings
    BY <2>14 DEF Candidate
  <2> QED
    BY <2>1, <2>13, <2>14, <2>15 DEF q
<1>4. DOMAIN new = DOMAIN choice
  OBVIOUS
<1>5. recall \subseteq Bindings /\ \A x \in recall : NameOf[x] \notin Modifiers
  <2>1. \A id \in DOMAIN new : /\ _recall_events(new[id]) \subseteq Bindings
                               /\ \A x \in _recall_events(new[id]) : NameOf[x] \notin Modifiers
    BY <1>3, <1>4, RecallOK
  <2> QED
    BY <2>1
<1> HIDE DEF new, recall, existing
<1>6. /\ DOMAIN Starting(new) = {id \in DOMAIN new : new[id].active}
      /\ \A id \in DOMAIN Starting(new) : Starting(new)[id] = new[id].tracked
  BY DEF Starting
<1>7. /\ DOMAIN Kept(new, b) = IF b \in Pulses THEN {id \in DOMAIN new : ~new[id].active}
                                               ELSE DOMAIN new
      /\ \A id \in DOMAIN Kept(new, b) : Kept(new, b)[id] = new[id]
  BY <1>6 DEF Kept, Drop, Restrict
<1>8. /\ DOMAIN all = DOMAIN cs \cup DOMAIN Kept(new, b)
      /\ \A id \in DOMAIN cs : all[id] = cs[id]
      /\ \A id \in DOMAIN Kept(new, b) : all[id] = new[id]
  BY <1>3, <1>4, <1>7 DEF Merge
<1> HIDE DEF all
<1>9. /\ f.candidates = all /\ f.start = Starting(new) /\ f.stop = {} /\ f.recall = recall
      /\ f.consume \in BOOLEAN /\ f.pass \in BOOLEAN
  BY <1>1 DEF Outcome
<1>10. CandidatesOK(all, K)
  BY <1>3, <1>4, <1>7, <1>8 DEF CandidatesOK
<1>11. StartsOK(f, b, K)
  <2> SUFFICES ASSUME NEW id \in DOMAIN f.start
               PROVE  /\ id \in DOMAIN combos /\ f.start[id] \subseteq Bindings
                      /\ f.start[id] \ Pulses \subseteq K
                      /\ b \notin Pulses => Holds(f.candidates, id, f.start[id])
    BY DEF StartsOK
  <2>1. id \in DOMAIN choice /\ new[id].active /\ f.start[id] = new[id].tracked
    BY <1>4, <1>6, <1>9
  <2>2. b \notin Pulses => id \in DOMAIN all /\ all[id] = new[id]
    BY <1>4, <1>7, <1>8, <2>1
  <2> QED
    BY <1>3, <1>9, <2>1, <2>2 DEF Holds
<1>12. \A id \in DOMAIN all : id \in DOMAIN cs \/ all[id].step = 1
  BY <1>3, <1>4, <1>7, <1>8
<1> QED
  BY <1>5, <1>8, <1>9, <1>10, <1>11, <1>12 DEF OutcomeOK

\* A press, with the candidates that wait and then the others.
LEMMA PressOK ==
  ASSUME combos \in Configurations, NEW K, NEW cs, CandidatesOK(cs, K),
         NEW b \in Bindings, b \notin Pulses => b \in K,
         NEW h \in SUBSET (Bindings \ Pulses), combos # <<>> => h \subseteq K,
         NEW w, w = _handle_waiting_candidate_press(cs, b),
         NEW choice \in FirstStepChoices(w.candidates, h, b),
         NEW f, f = _activate_satisfied_first_steps(w.candidates, b, choice),
         NEW o, o = _handle_press_event(w, f, b)
  PROVE  OutcomeOK(o, cs, b, K)
<1>1. OutcomeOK(w, cs, b, K) /\ DOMAIN w.candidates \subseteq DOMAIN cs /\ w.stop = {}
  BY WaitingOK
<1>2. /\ OutcomeOK(f, w.candidates, b, K) /\ f.stop = {}
      /\ \A id \in DOMAIN w.candidates :
           id \in DOMAIN f.candidates /\ f.candidates[id] = w.candidates[id]
  BY <1>1, FirstOK DEF OutcomeOK
<1>3. /\ o.candidates = f.candidates /\ o.start = Merge(w.start, f.start) /\ o.stop = {}
      /\ o.recall = w.recall \cup f.recall /\ o.consume = (w.consume \/ f.consume)
      /\ o.pass \in BOOLEAN
  BY DEF _handle_press_event, Outcome
<1>4. StartsOK(o, b, K)
  <2> SUFFICES ASSUME NEW id \in DOMAIN o.start
               PROVE  /\ id \in DOMAIN combos /\ o.start[id] \subseteq Bindings
                      /\ o.start[id] \ Pulses \subseteq K
                      /\ b \notin Pulses => Holds(o.candidates, id, o.start[id])
    BY DEF StartsOK
  <2>1. CASE id \in DOMAIN w.start
    <3>1. o.start[id] = w.start[id]
      BY <1>3, <2>1 DEF Merge
    <3>2. /\ id \in DOMAIN combos /\ w.start[id] \subseteq Bindings
          /\ w.start[id] \ Pulses \subseteq K
          /\ b \notin Pulses => Holds(w.candidates, id, w.start[id])
      BY <1>1, <2>1 DEF OutcomeOK, StartsOK
    <3> QED
      BY <1>2, <1>3, <3>1, <3>2 DEF Holds
  <2>2. CASE id \notin DOMAIN w.start
    <3>1. id \in DOMAIN f.start /\ o.start[id] = f.start[id]
      BY <1>3, <2>2 DEF Merge
    <3> QED
      BY <1>2, <1>3, <3>1 DEF OutcomeOK, StartsOK
  <2> QED
    BY <2>1, <2>2
<1>5. \A id \in DOMAIN cs : cs[id].active => id \in DOMAIN o.candidates /\ o.candidates[id] = cs[id]
  BY <1>1, <1>2, <1>3 DEF OutcomeOK
<1> QED
  BY <1>1, <1>2, <1>3, <1>4, <1>5 DEF OutcomeOK

\* A release ends the steps that b was pressed for, and stops their actions.
LEMMA ReleaseOK ==
  ASSUME combos \in Configurations, NEW K, NEW cs, CandidatesOK(cs, K),
         NEW b \in Bindings, NEW o, o = _handle_release_event(cs, b)
  PROVE  OutcomeOK(o, cs, b, K \ {b})
<1> DEFINE pressing == {id \in DOMAIN cs : b \in cs[id].pressed}
           waiting  == {id \in pressing : ~cs[id].releasing}
           ending   == pressing \ waiting
           over(id) == LET last == cs[id].pressed = {b}
                       IN  IF last THEN cs[id].step = LastStep(id) ELSE LastStep(id) = 1
           left(id) == IF cs[id].pressed = {b} THEN NextStep(cs[id])
                       ELSE [cs[id] EXCEPT !.pressed = @ \ {b}, !.active = FALSE]
           next     == [id \in {i \in ending : ~over(i)} |-> left(id)]
           passed   == \E id \in waiting : b \in cs[id].passed
           all      == Merge(Drop(cs, pressing), next)
<1>1. o = Outcome(all, <<>>, {id \in ending : cs[id].active}, {},
                  ending # {} \/ (waiting # {} /\ ~passed), waiting # {} /\ passed)
  BY DEF _handle_release_event
<1>2. \A id \in DOMAIN cs : id \in DOMAIN combos /\ CandidateOK(id, cs[id]) /\ cs[id].pressed \subseteq K
  BY DEF CandidatesOK
<1>3. ASSUME NEW id \in DOMAIN next
      PROVE  /\ id \in DOMAIN cs /\ id \in DOMAIN combos /\ CandidateOK(id, next[id])
             /\ next[id].pressed \subseteq K \ {b}
  <2>1. /\ id \in ending /\ ~over(id) /\ next[id] = left(id) /\ cs[id].releasing
        /\ id \in DOMAIN cs
    OBVIOUS
  <2>2. CASE cs[id].pressed = {b}
    <3>1. next[id] = NextStep(cs[id]) /\ cs[id].step # LastStep(id)
      BY <2>1, <2>2
    <3> DEFINE c == cs[id]
    <3>2. CandidateOK(id, c) /\ c.step # LastStep(id) /\ id \in DOMAIN combos
      BY <1>2, <2>1, <3>1
    <3> HIDE DEF c
    <3>3. CandidateOK(id, NextStep(c)) /\ NextStep(c).pressed = {}
      BY <3>2, NextStepOK
    <3> QED
      BY <2>1, <3>1, <3>2, <3>3 DEF c
  <2>3. CASE cs[id].pressed # {b}
    <3> DEFINE c == cs[id]
               n == next[id]
    <3>1. n = [c EXCEPT !.pressed = @ \ {b}, !.active = FALSE]
      BY <2>1, <2>3
    <3>2. CandidateOK(id, c) /\ c.releasing
      BY <1>2, <2>1
    <3> HIDE DEF c, n
    <3>3. /\ n \in Candidate /\ n.step = c.step /\ n.tracked = c.tracked /\ n.releasing = c.releasing
          /\ n.pressed = c.pressed \ {b} /\ n.active = FALSE
      BY <3>1, <3>2 DEF CandidateOK, Candidate
    <3>4. current_step(id, n) = current_step(id, c)
      BY <3>3 DEF current_step
    <3>5. CandidateOK(id, n)
      BY <3>2, <3>3, <3>4 DEF CandidateOK
    <3> QED
      BY <1>2, <2>1, <3>3, <3>5 DEF c, n
  <2> QED
    BY <2>2, <2>3
<1>4. DOMAIN next \subseteq ending
  OBVIOUS
<1> HIDE DEF next
<1>5. /\ DOMAIN all = (DOMAIN cs \ pressing) \cup DOMAIN next
      /\ \A id \in DOMAIN cs \ pressing : all[id] = cs[id]
      /\ \A id \in DOMAIN next : all[id] = next[id]
  BY <1>4 DEF Merge, Drop, Restrict
<1> HIDE DEF all, passed
<1>6. /\ o.candidates = all /\ o.start = <<>> /\ o.stop = {id \in ending : cs[id].active}
      /\ o.recall = {} /\ o.consume \in BOOLEAN /\ o.pass \in BOOLEAN
  BY <1>1 DEF Outcome
<1>7. CandidatesOK(all, K \ {b})
  BY <1>2, <1>3, <1>5 DEF CandidatesOK
<1>8. StartsOK(o, b, K \ {b})
  BY <1>6 DEF StartsOK
<1>9. o.stop \subseteq Ids
  BY <1>2, <1>6, ComboFacts
<1>10. \A id \in DOMAIN cs : cs[id].active =>
         id \in o.stop \/ (id \in DOMAIN all /\ all[id] = cs[id])
  BY <1>2, <1>5, <1>6 DEF CandidateOK
<1>11. \A id \in DOMAIN all : id \in DOMAIN cs
  BY <1>3, <1>5
<1> QED
  BY <1>6, <1>7, <1>8, <1>9, <1>10, <1>11 DEF OutcomeOK

\* The candidates that have not expired; those whose action runs have not.
LEMMA ExpireOK ==
  ASSUME NEW K, NEW cs, CandidatesOK(cs, K)
  PROVE  /\ CandidatesOK(expire_timeouts(cs), K)
         /\ DOMAIN expire_timeouts(cs) = {id \in DOMAIN cs : cs[id].deadline # "passed"}
         /\ \A id \in DOMAIN expire_timeouts(cs) : expire_timeouts(cs)[id] = cs[id]
         /\ \A id \in DOMAIN cs : cs[id].active => id \in DOMAIN expire_timeouts(cs)
<1>1. /\ DOMAIN expire_timeouts(cs) = {id \in DOMAIN cs : cs[id].deadline # "passed"}
      /\ \A id \in DOMAIN expire_timeouts(cs) : expire_timeouts(cs)[id] = cs[id]
  BY DEF expire_timeouts, Drop, Restrict
<1>2. \A id \in DOMAIN cs : cs[id].active => id \in DOMAIN expire_timeouts(cs)
  BY <1>1 DEF CandidatesOK, CandidateOK
<1> QED
  BY <1>1, <1>2 DEF CandidatesOK

\* The keys that the engine knows after the event e, of those it knew before.
Known(e, K) == IF e.v = 0 THEN K \ {e.b} ELSE K

\* Any outcome of an event.
LEMMA EventOutcomeOK ==
  ASSUME combos \in Configurations, NEW K, CandidatesOK(candidates, K),
         NEW e \in Event, e.v # 0 /\ e.b \notin Pulses => e.b \in K,
         NEW h \in SUBSET (Bindings \ Pulses), combos # <<>> => h \subseteq K,
         NEW o \in handle_event(e, h)
  PROVE  OutcomeOK(o, expire_timeouts(candidates), e.b, Known(e, K))
<1> DEFINE alive == expire_timeouts(candidates)
<1>1. CandidatesOK(alive, K)
  BY ExpireOK
<1>2. e.b \in Bindings /\ e.v \in 0..2
  BY DEF Event
<1> HIDE DEF alive
<1>3. CASE e.v = 0
  <2>1. o = _handle_release_event(alive, e.b)
    BY <1>3 DEF handle_event, alive
  <2> QED
    BY <1>1, <1>2, <1>3, <2>1, ReleaseOK DEF Known, alive
<1>4. CASE e.v = 1
  <2> DEFINE w == _handle_waiting_candidate_press(alive, e.b)
  <2>1. PICK choice \in FirstStepChoices(w.candidates, h, e.b) :
          o = _handle_press_event(w, _activate_satisfied_first_steps(w.candidates, e.b, choice), e.b)
    BY <1>4 DEF handle_event, alive
  <2> HIDE DEF w
  <2>2. OutcomeOK(o, alive, e.b, K)
    <3> DEFINE f == _activate_satisfied_first_steps(w.candidates, e.b, choice)
    <3>1. o = _handle_press_event(w, f, e.b)
      BY <2>1
    <3>2. e.b \notin Pulses => e.b \in K
      BY <1>4
    <3> HIDE DEF f
    <3>3. w = _handle_waiting_candidate_press(alive, e.b)
      BY DEF w
    <3>4. f = _activate_satisfied_first_steps(w.candidates, e.b, choice)
      BY DEF f
    <3> QED
      BY <1>1, <1>2, <2>1, <3>1, <3>2, <3>3, <3>4, PressOK
  <2> QED
    BY <1>4, <2>2 DEF Known, alive
<1>5. CASE e.v = 2
  <2>1. o = Outcome(alive, <<>>, {}, {}, FALSE, FALSE)
    BY <1>5 DEF handle_event, alive
  <2>2. /\ o.candidates = alive /\ o.start = <<>> /\ o.stop = {} /\ o.recall = {}
        /\ o.consume = FALSE /\ o.pass = FALSE
    BY <2>1 DEF Outcome
  <2>3. StartsOK(o, e.b, K)
    BY <2>2 DEF StartsOK
  <2>4. OutcomeOK(o, alive, e.b, K)
    BY <1>1, <2>2, <2>3 DEF OutcomeOK
  <2> QED
    BY <1>5, <2>4 DEF Known, alive
<1> QED
  BY <1>2, <1>3, <1>4, <1>5

-----------------------------------------------------------------------------
(* The devices. *)

Dev == [out : SUBSET Bindings, through : SUBSET Bindings, routed : SUBSET Bindings,
        recalled : SUBSET Marks]

\* Marks are of inputs.
LEMMA MarkType == \A b \in Bindings : Mark(b) \in Marks
BY ComboAssumption DEF Mark, Marks

\* emit_combo_recalls releases the outputs of S and marks their keys.
LEMMA RecallsDev ==
  ASSUME NEW d \in Dev, NEW S \in SUBSET Bindings, NEW r, r = emit_combo_recalls(d, S)
  PROVE  /\ r \in Dev /\ r.out = d.out \ S /\ r.through = d.through /\ r.routed = d.routed
         /\ r.recalled = d.recalled \cup {Mark(b) : b \in S \cap d.out}
<1>1. {Mark(b) : b \in S \cap d.out} \in SUBSET Marks
  BY MarkType
<1> QED
  BY <1>1 DEF emit_combo_recalls, Dev

\* restore_combo_trigger_bindings presses what is down of S and unmarks S.
LEMMA RestoreDev ==
  ASSUME NEW d \in Dev, NEW S \in SUBSET Bindings, NEW r, r = restore_combo_trigger_bindings(d, S)
  PROVE  /\ r \in Dev /\ r.out = d.out \cup (S \cap down)
         /\ r.through = d.through \cup ((S \cap down) \ d.out) /\ r.routed = d.routed
         /\ r.recalled = d.recalled \ {Mark(b) : b \in S}
BY DEF restore_combo_trigger_bindings, Dev

\* emit_passthrough_event touches the output of its key.
LEMMA PassDev ==
  ASSUME NEW d \in Dev, NEW b \in Bindings, NEW v \in 0..2, NEW r, r = emit_passthrough_event(d, b, v)
  PROVE  /\ r \in Dev /\ r.through = d.through /\ r.routed = d.routed /\ r.recalled = d.recalled
         /\ r.out = CASE b \in Pulses \/ v = 2 -> d.out
                      [] v = 1 /\ b \notin Pulses -> d.out \cup {b}
                      [] v = 0 /\ b \notin Pulses -> d.out \ {b}
<1>1. CASE b \in Pulses \/ v = 2
  BY <1>1 DEF emit_passthrough_event
<1>2. CASE v = 1 /\ b \notin Pulses
  BY <1>2 DEF emit_passthrough_event, Dev
<1>3. CASE v = 0 /\ b \notin Pulses
  BY <1>3 DEF emit_passthrough_event, Dev
<1> QED
  BY <1>1, <1>2, <1>3

\* clear_released_source_action forgets the key of a release.
LEMMA ClearDev ==
  ASSUME NEW d \in Dev, NEW e \in Event, NEW r, r = clear_released_source_action(d, e)
  PROVE  /\ r \in Dev /\ r.out = d.out /\ r.through = d.through /\ r.recalled = d.recalled
         /\ r.routed = IF e.v = 0 THEN d.routed \ {e.b} ELSE d.routed
BY DEF clear_released_source_action, Dev

\* Where the event of e goes: its key alone is touched, and no mark.  What is
\* passed is remembered, and the release of a passed key is passed.
LEMMA RouteDev ==
  ASSUME NEW d \in Dev, NEW e \in Event, NEW consume \in BOOLEAN, NEW pass \in BOOLEAN,
         NEW r, r = Route(d, e, consume, pass)
  PROVE  /\ r \in Dev /\ r.recalled = d.recalled
         /\ r.out \ {e.b} = d.out \ {e.b} /\ r.through \ {e.b} = d.through \ {e.b}
         /\ r.routed \ {e.b} = d.routed \ {e.b}
         /\ e.b \in Pulses => r.out = d.out
         /\ e.b \in r.out => e.b \in d.out \/ e.v = 1
         /\ e.b \in r.out /\ e.v = 0 /\ e.b \notin Pulses /\ ~e.suppress =>
              e.b \notin d.through \cup d.routed
         /\ e.b \in r.out /\ e.v # 0 /\ ~e.suppress =>
              \/ e.b \in d.out /\ (e.b \in d.through => e.b \in r.through)
                               /\ (e.b \in d.routed => e.b \in r.routed)
              \/ e.b \in r.through
              \/ DeviceOf[e.b] \in Mapped => e.b \in r.routed
<1> DEFINE emitted == emit_passthrough_event(d, e.b, e.v)
           cleared == clear_released_source_action(emitted, e)
           ends == StopsProcessing(d, e, consume)
           pressed == IF e.v = 1 THEN {e.b} \ Pulses ELSE {}
<1>1. e.b \in Bindings /\ e.v \in 0..2 /\ e.suppress \in BOOLEAN
  BY DEF Event
<1>0. emitted = emit_passthrough_event(d, e.b, e.v) /\ cleared = clear_released_source_action(emitted, e)
  OBVIOUS
<1> HIDE DEF emitted, cleared
<1>2. /\ emitted \in Dev /\ emitted.through = d.through /\ emitted.routed = d.routed
      /\ emitted.recalled = d.recalled
      /\ emitted.out = CASE e.b \in Pulses \/ e.v = 2 -> d.out
                         [] e.v = 1 /\ e.b \notin Pulses -> d.out \cup {e.b}
                         [] e.v = 0 /\ e.b \notin Pulses -> d.out \ {e.b}
  BY <1>0, <1>1, PassDev
<1>3. /\ cleared \in Dev /\ cleared.out = emitted.out /\ cleared.through = d.through
      /\ cleared.recalled = d.recalled
      /\ cleared.routed = IF e.v = 0 THEN d.routed \ {e.b} ELSE d.routed
  <2>1. emitted \in Dev
    BY <1>2
  <2>2. /\ cleared \in Dev /\ cleared.out = emitted.out /\ cleared.through = emitted.through
        /\ cleared.recalled = emitted.recalled
        /\ cleared.routed = IF e.v = 0 THEN emitted.routed \ {e.b} ELSE emitted.routed
    BY <1>0, <2>1, ClearDev
  <2> QED
    BY <1>2, <2>2
<1>4. r = CASE ends -> d
            [] ~ends /\ e.suppress -> clear_released_source_action(d, e)
            [] ~ends /\ ~e.suppress /\ e.b \in d.through ->
                 [cleared EXCEPT !.through = IF e.v = 0 THEN @ \ {e.b} ELSE @]
            [] OTHER ->
                 [cleared EXCEPT !.through = IF pass THEN @ \cup pressed ELSE @,
                                 !.routed = IF DeviceOf[e.b] \in Mapped THEN @ \cup pressed ELSE @]
  BY DEF Route, emitted, cleared
<1> HIDE DEF ends
<1>5. ends \in BOOLEAN /\ (ends /\ e.v = 0 => e.b \notin d.through \cup d.routed)
  BY DEF ends, StopsProcessing
<1>6. CASE ends
  <2>1. r = d
    BY <1>4, <1>6
  <2> QED
    BY <1>5, <1>6, <2>1
<1>7. CASE ~ends /\ e.suppress
  <2>1. r = clear_released_source_action(d, e)
    BY <1>4, <1>7
  <2>2. /\ r \in Dev /\ r.out = d.out /\ r.through = d.through /\ r.recalled = d.recalled
        /\ r.routed = IF e.v = 0 THEN d.routed \ {e.b} ELSE d.routed
    BY <2>1, ClearDev
  <2> QED
    BY <1>7, <2>2
<1>8. CASE ~ends /\ ~e.suppress /\ e.b \in d.through
  <2>1. r = [cleared EXCEPT !.through = IF e.v = 0 THEN @ \ {e.b} ELSE @]
    BY <1>4, <1>8
  <2>2. /\ r \in Dev /\ r.out = cleared.out /\ r.recalled = cleared.recalled
        /\ r.routed = cleared.routed
        /\ r.through = IF e.v = 0 THEN cleared.through \ {e.b} ELSE cleared.through
    BY <1>3, <2>1 DEF Dev
  <2> QED
    BY <1>1, <1>2, <1>3, <1>8, <2>2
<1>9. CASE ~ends /\ ~e.suppress /\ e.b \notin d.through
  <2>1. r = [cleared EXCEPT !.through = IF pass THEN @ \cup pressed ELSE @,
                            !.routed = IF DeviceOf[e.b] \in Mapped THEN @ \cup pressed ELSE @]
    BY <1>4, <1>9
  <2>2. pressed \in SUBSET {e.b}
    OBVIOUS
  <2>3. e.v = 1 /\ e.b \notin Pulses => pressed = {e.b}
    OBVIOUS
  <2> HIDE DEF pressed
  <2>4. /\ r \in Dev /\ r.out = cleared.out /\ r.recalled = cleared.recalled
        /\ r.through = IF pass THEN cleared.through \cup pressed ELSE cleared.through
        /\ r.routed = IF DeviceOf[e.b] \in Mapped THEN cleared.routed \cup pressed
                                                  ELSE cleared.routed
    BY <1>1, <1>3, <2>1, <2>2 DEF Dev
  <2> QED
    BY <1>1, <1>2, <1>3, <1>9, <2>2, <2>3, <2>4
<1> QED
  BY <1>1, <1>5, <1>6, <1>7, <1>8, <1>9

\* intercept_recalled_event takes the mark of its key.
LEMMA InterceptDev ==
  ASSUME dev \in Dev, NEW b \in Bindings, NEW r, r = intercept_recalled_event(b)
  PROVE  /\ r \in Dev /\ r.out = dev.out /\ r.routed = dev.routed
         /\ r.recalled = IF Recalled(b) THEN dev.recalled \ {Mark(b)} ELSE dev.recalled
         /\ r.through = IF Recalled(b) THEN dev.through \ {b} ELSE dev.through
BY DEF intercept_recalled_event, Dev

\* The keys that the actions of S owe to restore.
Owing(S) == UNION {active[id] : id \in S \cap DOMAIN active}

\* Stopping the actions of S restores what they owe.
LEMMA StoppedDev ==
  ASSUME IsPartial(active, Ids, SUBSET Bindings), NEW d \in Dev, NEW S, NEW r, r = Stopped(d, S)
  PROVE  /\ Owing(S) \in SUBSET Bindings
         /\ r \in Dev /\ r.out = d.out \cup (Owing(S) \cap down)
         /\ r.through = d.through \cup ((Owing(S) \cap down) \ d.out) /\ r.routed = d.routed
         /\ r.recalled = d.recalled \ {Mark(b) : b \in Owing(S)}
<1>1. Owing(S) \in SUBSET Bindings
  BY DEF IsPartial, Owing
<1>2. r = restore_combo_trigger_bindings(d, Owing(S))
  BY DEF Stopped, Owing
<1> QED
  BY <1>1, <1>2, RestoreDev

\* The keys of the trigger that the combo id recalls.
Recalling(d, id, trigger) ==
  IF combos[id].recall THEN {b \in trigger : Mark(b) \notin d.recalled} ELSE {}

\* combo_trigger_recall_state releases and marks the trigger's outputs, and
\* promises to restore those that the combo names.
LEMMA TriggerDev ==
  ASSUME NEW d \in Dev, NEW id, combos[id].recall \in BOOLEAN, NEW trigger \in SUBSET Bindings,
         NEW r, r = combo_trigger_recall_state(d, id, trigger)
  PROVE  /\ r.dev \in Dev /\ r.dev.out = d.out \ Recalling(d, id, trigger)
         /\ r.dev.through = d.through /\ r.dev.routed = d.routed
         /\ r.dev.recalled = d.recalled \cup {Mark(b) : b \in Recalling(d, id, trigger) \cap d.out}
         /\ r.restore = {b \in trigger : /\ combos[id].recall
                                         /\ b \in d.out \/ Mark(b) \in d.recalled
                                         /\ NameOf[b] \in combos[id].restore}
<1>1. CASE combos[id].recall
  <2> DEFINE S == Recalling(d, id, trigger)
  <2>1. S = {b \in trigger : Mark(b) \notin d.recalled}
    BY <1>1 DEF Recalling
  <2>2. /\ r.dev = emit_combo_recalls(d, S)
        /\ r.restore = {b \in trigger : /\ b \in d.out \/ Mark(b) \in d.recalled
                                        /\ NameOf[b] \in combos[id].restore}
    BY <1>1, <2>1 DEF combo_trigger_recall_state
  <2>3. S \in SUBSET Bindings
    BY <2>1
  <2> HIDE DEF S
  <2>4. /\ r.dev \in Dev /\ r.dev.out = d.out \ S /\ r.dev.through = d.through
        /\ r.dev.routed = d.routed
        /\ r.dev.recalled = d.recalled \cup {Mark(b) : b \in S \cap d.out}
    BY <2>2, <2>3, RecallsDev
  <2> QED
    BY <1>1, <2>2, <2>4 DEF S
<1>2. CASE ~combos[id].recall
  <2>1. r.dev = d /\ r.restore = {}
    BY <1>2 DEF combo_trigger_recall_state
  <2>2. Recalling(d, id, trigger) = {}
    BY <1>2 DEF Recalling
  <2> QED
    BY <1>2, <2>1, <2>2
<1> QED
  BY <1>1, <1>2

-----------------------------------------------------------------------------
(* Types, and what the engine alone guarantees. *)

\* The transition has all its fields, and starts combos of the present set.
JobShape ==
  job # None =>
    /\ job = [event |-> job.event, start |-> job.start, stop |-> job.stop, once |-> job.once,
              consume |-> job.consume, pass |-> job.pass]
    /\ DOMAIN job.start \subseteq DOMAIN combos

\* A wheel tick is never held.
Pulseless == held \cap Pulses = {} /\ down \cap Pulses = {}

Typed == TypeOK /\ JobShape /\ Pulseless /\ CandidatesOK(candidates, Bindings)

\* The candidates of a configuration are typed.
LEMMA CandidatesTyped ==
  ASSUME combos \in Configurations, NEW cs, NEW K, CandidatesOK(cs, K)
  PROVE  IsPartial(cs, Ids, Candidate)
BY ComboFacts DEF IsPartial, CandidatesOK, CandidateOK

\* A candidate of a combo that stays is a candidate still.
LEMMA CandidateCarries ==
  ASSUME NEW id, NEW c, CandidateOK(id, c), combos'[id] = combos[id]
  PROVE  /\ c \in Candidate
         /\ c.step \in 1..Len(combos'[id].steps)
         /\ c.pressed \cap Pulses = {}
         /\ ~c.releasing => c.tracked = c.pressed /\ ~c.active
         /\ c.active =>
              /\ c.deadline = "none" /\ c.step = Len(combos'[id].steps)
              /\ c.tracked \ Pulses = c.pressed
              /\ Cardinality(c.pressed) = Cardinality(combos'[id].steps[c.step])
         /\ \A b \in c.tracked : \E e \in combos'[id].steps[c.step] : e.name = NameOf[b]
BY DEF CandidateOK, LastStep, current_step

\* So are all of them.
LEMMA CandidatesCarry ==
  ASSUME NEW cs, NEW K, CandidatesOK(cs, K), K \subseteq Bindings,
         \A id \in DOMAIN candidates' :
           /\ id \in DOMAIN cs /\ candidates'[id] = cs[id]
           /\ id \in DOMAIN combos' /\ combos'[id] = combos[id]
  PROVE  CandidatesOK(candidates, Bindings)'
<1> SUFFICES ASSUME NEW id \in DOMAIN candidates'
             PROVE  /\ id \in DOMAIN combos' /\ CandidateOK(id, candidates[id])'
                    /\ candidates'[id].pressed \subseteq Bindings
  BY DEF CandidatesOK
<1>1. CandidateOK(id, cs[id]) /\ cs[id].pressed \subseteq K
  BY DEF CandidatesOK
<1>2. CandidateOK(id, candidates[id])'
  BY <1>1, CandidateCarries DEF CandidateOK, LastStep, current_step
<1> QED
  BY <1>1, <1>2

\* What a decision does, where K are the keys that the engine may know.
LEMMA DecideOutcome ==
  ASSUME Typed, NEW d \in Devices, Decide(d), NEW K, CandidatesOK(candidates, K),
         combos # <<>> => held \subseteq K,
         inbox[d].v # 0 /\ inbox[d].b \notin Pulses =>
           inbox[d].b \in K /\ {b \in down : DeviceOf[b] = d} \subseteq K
  PROVE  \E o :
           /\ OutcomeOK(o, expire_timeouts(candidates), inbox[d].b, Known(inbox[d], K))
           /\ candidates' = o.candidates
           /\ dev' = emit_combo_recalls(dev, o.recall)
           /\ job' = [event |-> inbox[d], start |-> o.start, stop |-> o.stop,
                      once |-> {id \in DOMAIN o.start : inbox[d].b \in Pulses \/ ~combos[id].held},
                      consume |-> o.consume, pass |-> o.pass]
<1> DEFINE e == inbox[d]
           pressed == IF e.v = 1 /\ e.b \notin Pulses
                        THEN {e.b} \cup held_combo_modifier_bindings_for_scope(d) ELSE {}
<1>1. e \in Event /\ combos \in Configurations
  BY DEF Typed, TypeOK, Decide
<1>2. PICK o \in handle_event(e, held \cup pressed) :
        /\ candidates' = o.candidates
        /\ dev' = emit_combo_recalls(dev, o.recall)
        /\ job' = [event |-> e, start |-> o.start, stop |-> o.stop,
                   once |-> {id \in DOMAIN o.start : e.b \in Pulses \/ ~combos[id].held},
                   consume |-> o.consume, pass |-> o.pass]
  BY DEF Decide
<1>3. /\ held \cup pressed \in SUBSET (Bindings \ Pulses)
      /\ combos # <<>> => held \cup pressed \subseteq K
  BY <1>1 DEF Typed, TypeOK, Pulseless, held_combo_modifier_bindings_for_scope, Event
<1>4. e.v # 0 /\ e.b \notin Pulses => e.b \in K
  OBVIOUS
<1> HIDE DEF e, pressed
<1>5. OutcomeOK(o, expire_timeouts(candidates), e.b, Known(e, K))
  BY <1>1, <1>2, <1>3, <1>4, EventOutcomeOK
<1> QED
  BY <1>2, <1>5 DEF e

\* An event arrives.
LEMMA TypedArrive ==
  ASSUME Typed, NEW b \in Bindings, NEW v \in 0..2, Arrive(b, v)
  PROVE  Typed'
<1> DEFINE d == DeviceOf[b]
           e == [b |-> b, v |-> v, suppress |-> Recalled(b) /\ v = 0]
           taken == intercept_recalled_event(b)
<1>1. d \in Devices /\ e \in Event /\ e.v = v /\ e.b = b
  BY ComboAssumption DEF Event, Recalled
<1>2. taken \in Dev
  BY InterceptDev DEF Typed, TypeOK, Dev
<1>3. down' \subseteq Bindings /\ down' \cap Pulses = {}
  <2>1. down' = Observed(b, v) /\ down \subseteq Bindings /\ down \cap Pulses = {}
    BY DEF Arrive, Typed, TypeOK, Pulseless
  <2>2. CASE b \in Pulses \/ v = 2
    BY <2>1, <2>2 DEF Observed
  <2>3. CASE v = 1 /\ b \notin Pulses
    BY <2>1, <2>3 DEF Observed
  <2>4. CASE v = 0 /\ b \notin Pulses
    BY <2>1, <2>4 DEF Observed
  <2> QED
    BY <2>2, <2>3, <2>4
<1>4. UNCHANGED <<combos, candidates, held, active, job, watchdog, capture, edits>>
  BY DEF Arrive
<1>5. \/ dev' = clear_released_source_action(taken, e) /\ UNCHANGED inbox
      \/ dev' = Route(taken, e, FALSE, FALSE) /\ UNCHANGED inbox
      \/ dev' = taken /\ inbox' = [inbox EXCEPT ![d] = e]
  BY DEF Arrive
<1> HIDE DEF taken, e, d
<1>6. dev' \in Dev
  <2>1. ASSUME dev' = clear_released_source_action(taken, e)
        PROVE  dev' \in Dev
    BY <1>1, <1>2, <2>1, ClearDev
  <2>2. ASSUME dev' = Route(taken, e, FALSE, FALSE)
        PROVE  dev' \in Dev
    BY <1>1, <1>2, <2>2, RouteDev
  <2> QED
    BY <1>2, <1>5, <2>1, <2>2
<1>7. inbox' \in [Devices -> Event \cup {None}]
  BY <1>1, <1>5 DEF Typed, TypeOK
<1>8. TypeOK'
  BY <1>3, <1>4, <1>6, <1>7 DEF Typed, TypeOK, Dev
<1>9. JobShape' /\ Pulseless'
  BY <1>3, <1>4 DEF Typed, JobShape, Pulseless
<1>10. CandidatesOK(candidates, Bindings)'
  BY <1>4, CandidatesCarry DEF Typed, CandidatesOK
<1> QED
  BY <1>8, <1>9, <1>10 DEF Typed

\* The engine decides.
LEMMA TypedDecide ==
  ASSUME Typed, NEW d \in Devices, Decide(d)
  PROVE  Typed'
<1> DEFINE e == inbox[d]
           alive == expire_timeouts(candidates)
<1>1. e \in Event /\ combos \in Configurations /\ dev \in Dev
  BY DEF Typed, TypeOK, Decide, Dev
<1>2. PICK o :
        /\ OutcomeOK(o, alive, e.b, Known(e, Bindings))
        /\ candidates' = o.candidates
        /\ dev' = emit_combo_recalls(dev, o.recall)
        /\ job' = [event |-> e, start |-> o.start, stop |-> o.stop,
                   once |-> {id \in DOMAIN o.start : e.b \in Pulses \/ ~combos[id].held},
                   consume |-> o.consume, pass |-> o.pass]
  <2>1. /\ held \subseteq Bindings /\ down \subseteq Bindings /\ e.b \in Bindings
        /\ CandidatesOK(candidates, Bindings)
    BY <1>1 DEF Typed, TypeOK, Event
  <2> QED
    BY <2>1, DecideOutcome
<1> HIDE DEF e, alive
<1>3. Known(e, Bindings) \subseteq Bindings
  BY DEF Known
<1>4. /\ CandidatesOK(o.candidates, Known(e, Bindings)) /\ o.recall \in SUBSET Bindings
      /\ o.stop \subseteq Ids /\ o.consume \in BOOLEAN /\ o.pass \in BOOLEAN
      /\ \A id \in DOMAIN o.start : id \in DOMAIN combos /\ o.start[id] \subseteq Bindings
  BY <1>2 DEF OutcomeOK, StartsOK
<1>5. /\ job'.event = e /\ job'.start = o.start /\ job'.stop = o.stop
      /\ job'.once \subseteq DOMAIN o.start /\ job'.consume = o.consume /\ job'.pass = o.pass
      /\ job' = [event |-> job'.event, start |-> job'.start, stop |-> job'.stop,
                 once |-> job'.once, consume |-> job'.consume, pass |-> job'.pass]
  BY <1>2
<1>6. dev' \in Dev
  BY <1>1, <1>2, <1>4, RecallsDev
<1>7. /\ inbox' = [inbox EXCEPT ![d] = None]
      /\ UNCHANGED <<combos, active, down, watchdog, capture, edits>>
  BY DEF Decide
<1>8. held' \subseteq Bindings /\ held' \cap Pulses = {}
  <2>1. held \subseteq Bindings /\ held \cap Pulses = {} /\ down \subseteq Bindings /\ e.b \in Bindings
    BY <1>1 DEF Typed, TypeOK, Pulseless, Event
  <2>2. down \cap Pulses = {}
    BY DEF Typed, Pulseless
  <2>3. held' = IF e.v = 0 THEN held \ {e.b}
                ELSE held \cup (IF e.v = 1 /\ e.b \notin Pulses
                                  THEN {e.b} \cup held_combo_modifier_bindings_for_scope(d) ELSE {})
    BY DEF Decide, e
  <2> QED
    BY <2>1, <2>2, <2>3 DEF held_combo_modifier_bindings_for_scope
<1>9. IsPartial(candidates', Ids, Candidate)
  BY <1>1, <1>2, <1>4, CandidatesTyped
<1>10. /\ job'.event \in Event /\ IsPartial(job'.start, Ids, SUBSET Bindings)
       /\ job'.once \subseteq Ids /\ job'.stop \subseteq Ids
       /\ {job'.consume, job'.pass} \subseteq BOOLEAN
       /\ DOMAIN job'.start \subseteq DOMAIN combos
  BY <1>1, <1>4, <1>5, ComboFacts DEF IsPartial
<1>11. inbox' \in [Devices -> Event \cup {None}]
  BY <1>7 DEF Typed, TypeOK
<1>12. TypeOK'
  BY <1>6, <1>7, <1>8, <1>9, <1>10, <1>11 DEF Typed, TypeOK, Dev
<1>13. JobShape' /\ Pulseless'
  BY <1>5, <1>7, <1>8, <1>10 DEF Typed, JobShape, Pulseless
<1>14. CandidatesOK(candidates, Bindings)'
  BY <1>2, <1>3, <1>4, <1>7, CandidatesCarry DEF CandidatesOK
<1> QED
  BY <1>12, <1>13, <1>14 DEF Typed

\* The transition after an action was started or stopped, and what else changed.
JobKept ==
  /\ job'.event = job.event /\ job'.once = job.once /\ job'.consume = job.consume
  /\ job'.pass = job.pass
  /\ job' = [event |-> job'.event, start |-> job'.start, stop |-> job'.stop, once |-> job'.once,
             consume |-> job'.consume, pass |-> job'.pass]
  /\ UNCHANGED <<combos, candidates, held, down, inbox, watchdog, capture, edits>>

\* An action is started: its entry in active_actions is made, and the keys of
\* its trigger are recalled, after those of its earlier run were restored.
LEMMA StartFacts ==
  ASSUME Typed, NEW id, start_combo_action(id)
  PROVE  /\ job # None /\ job.stop = {} /\ id \in DOMAIN job.start /\ id \in DOMAIN combos
         /\ job.start[id] \in SUBSET Bindings /\ combos[id].recall \in BOOLEAN
         /\ JobKept /\ job'.stop = job.once \cap {id}
         /\ DOMAIN job'.start = DOMAIN job.start \ {id}
         /\ \A i \in DOMAIN job'.start : job'.start[i] = job.start[i]
         /\ dev' = combo_trigger_recall_state(Stopped(dev, {id}), id, job.start[id]).dev
         /\ DOMAIN active' = DOMAIN active \cup {id}
         /\ active'[id] = combo_trigger_recall_state(Stopped(dev, {id}), id, job.start[id]).restore
         /\ \A i \in DOMAIN active \ {id} : active'[i] = active[i]
<1> DEFINE recalled == combo_trigger_recall_state(Stopped(dev, {id}), id, job.start[id])
<1>1. /\ job # None /\ job.stop = {} /\ id \in DOMAIN job.start
      /\ dev' = recalled.dev
      /\ active' = Merge([i \in {id} |-> recalled.restore], active)
      /\ job' = [job EXCEPT !.start = Drop(@, {id}), !.stop = job.once \cap {id}]
      /\ UNCHANGED <<combos, candidates, held, down, inbox, watchdog, capture, edits>>
  BY DEF start_combo_action
<1> HIDE DEF recalled
<1>2. /\ DOMAIN active' = DOMAIN active \cup {id} /\ active'[id] = recalled.restore
      /\ \A i \in DOMAIN active \ {id} : active'[i] = active[i]
  BY <1>1 DEF Merge
<1>3. /\ job = [event |-> job.event, start |-> job.start, stop |-> job.stop, once |-> job.once,
                consume |-> job.consume, pass |-> job.pass]
      /\ id \in DOMAIN combos /\ job.start[id] \in SUBSET Bindings
  BY <1>1 DEF Typed, TypeOK, JobShape, IsPartial
<1>4. JobKept /\ job'.stop = job.once \cap {id} /\ job'.start = Drop(job.start, {id})
  BY <1>1, <1>3 DEF JobKept
<1>5. /\ DOMAIN job'.start = DOMAIN job.start \ {id}
      /\ \A i \in DOMAIN job'.start : job'.start[i] = job.start[i]
  BY <1>4 DEF Drop, Restrict
<1>6. combos[id].recall \in BOOLEAN
  BY <1>3, ComboFacts DEF Typed, TypeOK, Definition
<1> QED
  BY <1>1, <1>2, <1>3, <1>4, <1>5, <1>6 DEF recalled

\* An action is stopped: its keys come back and its entry goes.
LEMMA StopFacts ==
  ASSUME Typed, NEW id, stop_combo_action(id)
  PROVE  /\ job # None /\ id \in job.stop
         /\ JobKept /\ job'.stop = job.stop \ {id} /\ job'.start = job.start
         /\ dev' = Stopped(dev, {id})
         /\ DOMAIN active' = DOMAIN active \ {id}
         /\ \A i \in DOMAIN active' : active'[i] = active[i]
<1>1. /\ job # None /\ id \in job.stop /\ dev' = Stopped(dev, {id}) /\ active' = Drop(active, {id})
      /\ job' = [job EXCEPT !.stop = @ \ {id}]
      /\ UNCHANGED <<combos, candidates, held, down, inbox, watchdog, capture, edits>>
  BY DEF stop_combo_action
<1>2. job = [event |-> job.event, start |-> job.start, stop |-> job.stop, once |-> job.once,
             consume |-> job.consume, pass |-> job.pass]
  BY <1>1 DEF Typed, JobShape
<1>3. JobKept /\ job'.stop = job.stop \ {id} /\ job'.start = job.start
  BY <1>1, <1>2 DEF JobKept
<1> QED
  BY <1>1, <1>3 DEF Drop, Restrict

\* Starting or stopping an action.
LEMMA TypedStart ==
  ASSUME Typed, NEW id, start_combo_action(id)
  PROVE  Typed'
<1> DEFINE mid == Stopped(dev, {id})
           recalled == combo_trigger_recall_state(mid, id, job.start[id])
<1>1. mid \in Dev
  BY StoppedDev DEF Typed, TypeOK, Dev
<1> HIDE DEF mid
<1>0. recalled = combo_trigger_recall_state(mid, id, job.start[id])
  OBVIOUS
<1> HIDE DEF recalled
<1>2. recalled.dev \in Dev /\ recalled.restore \in SUBSET Bindings
  <2>1. combos[id].recall \in BOOLEAN /\ job.start[id] \in SUBSET Bindings
    BY StartFacts
  <2> QED
    BY <1>0, <1>1, <2>1, TriggerDev
<1>3. dev' \in Dev /\ active'[id] \in SUBSET Bindings
  BY <1>2, StartFacts DEF recalled, mid
<1>4. id \in Ids
  BY StartFacts, ComboFacts DEF Typed, TypeOK
<1>5. IsPartial(active', Ids, SUBSET Bindings)
  <2>1. /\ DOMAIN active' = DOMAIN active \cup {id}
        /\ \A i \in DOMAIN active \ {id} : active'[i] = active[i]
    BY StartFacts
  <2>2. DOMAIN active \subseteq Ids /\ \A i \in DOMAIN active : active[i] \in SUBSET Bindings
    BY DEF Typed, TypeOK, IsPartial
  <2> QED
    BY <1>3, <1>4, <2>1, <2>2 DEF IsPartial
<1>6. /\ job'.event \in Event /\ IsPartial(job'.start, Ids, SUBSET Bindings)
      /\ job'.once \subseteq Ids /\ job'.stop \subseteq Ids
      /\ {job'.consume, job'.pass} \subseteq BOOLEAN /\ DOMAIN job'.start \subseteq DOMAIN combos
  BY StartFacts DEF Typed, TypeOK, JobShape, JobKept, IsPartial
<1>7. JobKept
  BY StartFacts
<1>8. TypeOK'
  BY <1>3, <1>5, <1>6, <1>7 DEF Typed, TypeOK, Dev, JobKept
<1>9. JobShape' /\ Pulseless'
  BY <1>6, <1>7 DEF Typed, JobShape, Pulseless, JobKept
<1>10. CandidatesOK(candidates, Bindings)'
  BY <1>7, CandidatesCarry DEF Typed, CandidatesOK, JobKept
<1> QED
  BY <1>8, <1>9, <1>10 DEF Typed

LEMMA TypedStop ==
  ASSUME Typed, NEW id, stop_combo_action(id)
  PROVE  Typed'
<1>1. dev' \in Dev
  BY StopFacts, StoppedDev DEF Typed, TypeOK, Dev
<1>2. IsPartial(active', Ids, SUBSET Bindings)
  BY StopFacts DEF Typed, TypeOK, IsPartial
<1>3. /\ job'.event \in Event /\ IsPartial(job'.start, Ids, SUBSET Bindings)
      /\ job'.once \subseteq Ids /\ job'.stop \subseteq Ids
      /\ {job'.consume, job'.pass} \subseteq BOOLEAN /\ DOMAIN job'.start \subseteq DOMAIN combos
  BY StopFacts DEF Typed, TypeOK, JobShape, JobKept
<1>4. JobKept
  BY StopFacts
<1>5. TypeOK'
  BY <1>1, <1>2, <1>3, <1>4 DEF Typed, TypeOK, Dev, JobKept
<1>6. JobShape' /\ Pulseless'
  BY <1>3, <1>4 DEF Typed, JobShape, Pulseless, JobKept
<1>7. CandidatesOK(candidates, Bindings)'
  BY <1>4, CandidatesCarry DEF Typed, CandidatesOK, JobKept
<1> QED
  BY <1>5, <1>6, <1>7 DEF Typed

\* The transition ends.
LEMMA TypedFinish ==
  ASSUME Typed, Finish
  PROVE  Typed'
<1>1. job.event \in Event /\ job.consume \in BOOLEAN /\ job.pass \in BOOLEAN /\ dev \in Dev
  BY DEF Typed, TypeOK, Finish, Dev
<1>2. dev' \in Dev
  BY <1>1, RouteDev DEF Finish
<1>3. /\ job' = None /\ watchdog' \in BOOLEAN
      /\ UNCHANGED <<combos, candidates, held, active, down, inbox, capture, edits>>
  BY DEF Finish
<1>4. TypeOK'
  BY <1>2, <1>3 DEF Typed, TypeOK, Dev
<1>5. JobShape' /\ Pulseless'
  BY <1>3 DEF Typed, JobShape, Pulseless
<1>6. CandidatesOK(candidates, Bindings)'
  BY <1>3, CandidatesCarry DEF Typed, CandidatesOK
<1> QED
  BY <1>4, <1>5, <1>6 DEF Typed

\* Time passes for a candidate that waits.
LEMMA TypedDeadline ==
  ASSUME Typed, NEW id, DeadlinePasses(id)
  PROVE  Typed'
<1> DEFINE c == candidates[id]
           n == [c EXCEPT !.deadline = "passed"]
<1>1. /\ id \in DOMAIN candidates /\ c.deadline = "running"
      /\ DOMAIN candidates' = DOMAIN candidates /\ candidates'[id] = n
      /\ \A i \in DOMAIN candidates \ {id} : candidates'[i] = candidates[i]
      /\ UNCHANGED <<combos, held, active, down, dev, inbox, job, watchdog, capture, edits>>
  BY DEF DeadlinePasses
<1>2. id \in DOMAIN combos /\ CandidateOK(id, c) /\ c.pressed \subseteq Bindings
  BY <1>1 DEF Typed, CandidatesOK
<1> HIDE DEF c
<1>3. /\ n \in Candidate /\ n.step = c.step /\ n.pressed = c.pressed /\ n.tracked = c.tracked
      /\ n.releasing = c.releasing /\ n.active = c.active /\ ~c.active
  BY <1>1, <1>2 DEF CandidateOK, Candidate
<1> HIDE DEF n
<1>4. current_step(id, n) = current_step(id, c)
  BY <1>3 DEF current_step
<1>5. CandidateOK(id, n)
  BY <1>2, <1>3, <1>4 DEF CandidateOK
<1>6. CandidatesOK(candidates', Bindings)
  BY <1>1, <1>2, <1>3, <1>5 DEF Typed, CandidatesOK
<1>7. IsPartial(candidates', Ids, Candidate)
  BY <1>6, CandidatesTyped DEF Typed, TypeOK
<1>8. TypeOK'
  BY <1>1, <1>7 DEF Typed, TypeOK
<1>9. JobShape' /\ Pulseless'
  BY <1>1 DEF Typed, JobShape, Pulseless
<1>10. CandidatesOK(candidates, Bindings)'
  BY <1>1, <1>6, CandidatesCarry DEF CandidatesOK
<1> QED
  BY <1>8, <1>9, <1>10 DEF Typed

\* The watchdog drops the candidates that have expired.
LEMMA TypedWatchdog ==
  ASSUME Typed, combo_timeout_watchdog
  PROVE  Typed'
<1>1. /\ candidates' = expire_timeouts(candidates) /\ watchdog' \in BOOLEAN
      /\ UNCHANGED <<combos, held, active, down, dev, inbox, job, capture, edits>>
  BY DEF combo_timeout_watchdog
<1>2. CandidatesOK(candidates', Bindings)
  BY <1>1, ExpireOK DEF Typed
<1>3. IsPartial(candidates', Ids, Candidate)
  BY <1>2, CandidatesTyped DEF Typed, TypeOK
<1>4. TypeOK'
  BY <1>1, <1>3 DEF Typed, TypeOK
<1>5. JobShape' /\ Pulseless'
  BY <1>1 DEF Typed, JobShape, Pulseless
<1>6. CandidatesOK(candidates, Bindings)'
  BY <1>1, <1>2, CandidatesCarry DEF CandidatesOK
<1> QED
  BY <1>4, <1>5, <1>6 DEF Typed

\* What set_combos keeps are the candidates and actions of unchanged combos.
LEMMA SetFacts ==
  ASSUME NEW config, set_combos(config)
  PROVE  LET unchanged == unchanged_combo_ids(config)
         IN  /\ \A id \in unchanged :
                  id \in DOMAIN combos /\ id \in DOMAIN combos' /\ combos'[id] = combos[id]
             /\ job = None /\ combos' = config /\ (CaptureOverlaps \/ capture = {})
             /\ dev' = Stopped(dev, DOMAIN active \ unchanged)
             /\ DOMAIN active' = DOMAIN active \cap unchanged
             /\ \A id \in DOMAIN active' : active'[id] = active[id]
             /\ DOMAIN candidates' = DOMAIN candidates \cap unchanged
             /\ \A id \in DOMAIN candidates' : candidates'[id] = candidates[id]
             /\ held' = (IF unchanged = {} THEN {} ELSE held) \cup down
             /\ UNCHANGED <<down, inbox, job, capture>>
BY DEF set_combos, unchanged_combo_ids, Restrict, Primed

LEMMA TypedSet ==
  ASSUME Typed, NEW config \in Configurations, set_combos(config)
  PROVE  Typed'
<1> DEFINE unchanged == unchanged_combo_ids(config)
<1>1. /\ \A id \in unchanged :
           id \in DOMAIN combos /\ id \in DOMAIN combos' /\ combos'[id] = combos[id]
      /\ job = None /\ combos' = config
      /\ dev' = Stopped(dev, DOMAIN active \ unchanged)
      /\ DOMAIN active' = DOMAIN active \cap unchanged
      /\ \A id \in DOMAIN active' : active'[id] = active[id]
      /\ DOMAIN candidates' = DOMAIN candidates \cap unchanged
      /\ \A id \in DOMAIN candidates' : candidates'[id] = candidates[id]
      /\ held' = (IF unchanged = {} THEN {} ELSE held) \cup down
      /\ UNCHANGED <<down, inbox, job, capture>>
  BY SetFacts
<1> HIDE DEF unchanged
<1>2. dev' \in Dev
  BY <1>1, StoppedDev DEF Typed, TypeOK, Dev
<1>3. IsPartial(active', Ids, SUBSET Bindings) /\ IsPartial(candidates', Ids, Candidate)
  BY <1>1 DEF Typed, TypeOK, IsPartial
<1>4. held' \subseteq Bindings /\ held' \cap Pulses = {}
  BY <1>1 DEF Typed, TypeOK, Pulseless
<1>5. watchdog' \in BOOLEAN /\ edits' \in 0..MaxEdits
  BY ComboAssumption DEF set_combos, Typed, TypeOK
<1>6. TypeOK'
  BY <1>1, <1>2, <1>3, <1>4, <1>5 DEF Typed, TypeOK, Dev
<1>7. JobShape' /\ Pulseless'
  BY <1>1, <1>4 DEF Typed, JobShape, Pulseless
<1>8. CandidatesOK(candidates, Bindings)'
  BY <1>1, CandidatesCarry DEF Typed
<1> QED
  BY <1>6, <1>7, <1>8 DEF Typed

\* What the release of a device keeps is what its inputs take no part in.
LEMMA ReleaseFacts ==
  ASSUME Typed, NEW d \in Devices, release_device(d)
  PROVE  LET stopping == {id \in InScope(d) : candidates[id].active}
             cleared == Stopped(dev, stopping)
         IN  /\ job = None /\ (CaptureOverlaps \/ capture = {})
             /\ DOMAIN active' = DOMAIN active \ stopping
             /\ \A id \in DOMAIN active' : active'[id] = active[id]
             /\ DOMAIN candidates' = DOMAIN candidates \ InScope(d)
             /\ \A id \in DOMAIN candidates' : candidates'[id] = candidates[id]
             /\ down' = {b \in down : DeviceOf[b] # d}
             /\ held' = {b \in held : DeviceOf[b] # d} \cup down'
             /\ dev' = [out |-> {b \in cleared.out : DeviceOf[b] # d},
                        through |-> {b \in cleared.through : DeviceOf[b] # d},
                        routed |-> {b \in cleared.routed : DeviceOf[b] # d},
                        recalled |-> {m \in cleared.recalled : m[1] # d}]
             /\ inbox' = [inbox EXCEPT ![d] = None]
             /\ UNCHANGED <<combos, job, capture>>
BY DEF release_device, Drop, Restrict, Primed

LEMMA TypedRelease ==
  ASSUME Typed, NEW d \in Devices, release_device(d)
  PROVE  Typed'
<1> DEFINE stopping == {id \in InScope(d) : candidates[id].active}
           cleared == Stopped(dev, stopping)
<1>1. /\ job = None /\ DOMAIN active' = DOMAIN active \ stopping
      /\ \A id \in DOMAIN active' : active'[id] = active[id]
      /\ DOMAIN candidates' = DOMAIN candidates \ InScope(d)
      /\ \A id \in DOMAIN candidates' : candidates'[id] = candidates[id]
      /\ down' = {b \in down : DeviceOf[b] # d}
      /\ held' = {b \in held : DeviceOf[b] # d} \cup down'
      /\ dev' = [out |-> {b \in cleared.out : DeviceOf[b] # d},
                 through |-> {b \in cleared.through : DeviceOf[b] # d},
                 routed |-> {b \in cleared.routed : DeviceOf[b] # d},
                 recalled |-> {m \in cleared.recalled : m[1] # d}]
      /\ inbox' = [inbox EXCEPT ![d] = None]
      /\ UNCHANGED <<combos, job, capture>>
  BY ReleaseFacts
<1>2. cleared \in Dev
  BY StoppedDev DEF Typed, TypeOK, Dev
<1> HIDE DEF cleared, stopping
<1>3. dev' \in Dev
  BY <1>1, <1>2 DEF Dev
<1>4. IsPartial(active', Ids, SUBSET Bindings) /\ IsPartial(candidates', Ids, Candidate)
  BY <1>1 DEF Typed, TypeOK, IsPartial
<1>5. /\ held' \subseteq Bindings /\ held' \cap Pulses = {}
      /\ down' \subseteq Bindings /\ down' \cap Pulses = {}
  BY <1>1 DEF Typed, TypeOK, Pulseless
<1>6. watchdog' \in BOOLEAN /\ edits' \in 0..MaxEdits
  BY ComboAssumption DEF release_device, Typed, TypeOK
<1>7. inbox' \in [Devices -> Event \cup {None}]
  BY <1>1 DEF Typed, TypeOK
<1>8. TypeOK'
  BY <1>1, <1>3, <1>4, <1>5, <1>6, <1>7 DEF Typed, TypeOK, Dev
<1>9. JobShape' /\ Pulseless'
  BY <1>1, <1>5 DEF Typed, JobShape, Pulseless
<1>10. CandidatesOK(candidates, Bindings)'
  BY <1>1, CandidatesCarry DEF Typed, CandidatesOK
<1> QED
  BY <1>8, <1>9, <1>10 DEF Typed

\* A capture begins or ends.
LEMMA TypedCapture ==
  ASSUME Typed, NEW d \in Devices, begin_combo_capture(d) \/ end_combo_capture(d)
  PROVE  Typed'
<1>1. /\ capture' \subseteq Devices
      /\ UNCHANGED <<combos, candidates, held, active, down, dev, inbox, job, watchdog, edits>>
  BY DEF begin_combo_capture, end_combo_capture, Typed, TypeOK
<1>2. TypeOK'
  BY <1>1 DEF Typed, TypeOK
<1>3. JobShape' /\ Pulseless'
  BY <1>1 DEF Typed, JobShape, Pulseless
<1>4. CandidatesOK(candidates, Bindings)'
  BY <1>1, CandidatesCarry DEF Typed, CandidatesOK
<1> QED
  BY <1>2, <1>3, <1>4 DEF Typed

\* The types hold in every step.
LEMMA TypedStep ==
  ASSUME Typed, [Next]_vars
  PROVE  Typed'
<1>1. CASE UNCHANGED vars
  <2>1. UNCHANGED <<combos, candidates, held, active, down, dev, inbox, job, watchdog, capture, edits>>
    BY <1>1 DEF vars
  <2>2. TypeOK'
    BY <2>1 DEF Typed, TypeOK
  <2>3. JobShape' /\ Pulseless'
    BY <2>1 DEF Typed, JobShape, Pulseless
  <2>4. CandidatesOK(candidates, Bindings)'
    BY <2>1, CandidatesCarry DEF Typed, CandidatesOK
  <2> QED
    BY <2>2, <2>3, <2>4 DEF Typed
<1>2. CASE \E b \in Bindings, v \in 0..2 : Arrive(b, v)
  BY <1>2, TypedArrive
<1>3. CASE \E d \in Devices : Decide(d)
  BY <1>3, TypedDecide
<1>4. CASE \E id \in Ids : start_combo_action(id) \/ stop_combo_action(id) \/ DeadlinePasses(id)
  BY <1>4, TypedStart, TypedStop, TypedDeadline
<1>5. CASE Finish
  BY <1>5, TypedFinish
<1>6. CASE combo_timeout_watchdog
  BY <1>6, TypedWatchdog
<1>7. CASE \E config \in Configurations : set_combos(config)
  BY <1>7, TypedSet
<1>8. CASE \E d \in Devices : release_device(d) \/ begin_combo_capture(d) \/ end_combo_capture(d)
  BY <1>8, TypedRelease, TypedCapture
<1> QED
  BY <1>1, <1>2, <1>3, <1>4, <1>5, <1>6, <1>7, <1>8 DEF Next

LEMMA TypedInit ==
  ASSUME Init
  PROVE  Typed
<1>1. TypeOK
  <2>1. dev \in Dev /\ inbox \in [Devices -> Event \cup {None}]
    BY DEF Init, Dev
  <2>2. IsPartial(candidates, Ids, Candidate) /\ IsPartial(active, Ids, SUBSET Bindings)
    BY DEF Init, IsPartial
  <2>3. /\ held \subseteq Bindings /\ down \subseteq Bindings /\ watchdog \in BOOLEAN
        /\ capture \subseteq Devices /\ job = None /\ combos \in Configurations
    BY DEF Init
  <2>4. edits \in 0..MaxEdits
    BY ComboAssumption DEF Init
  <2> QED
    BY <2>1, <2>2, <2>3, <2>4 DEF TypeOK, Dev
<1>2. JobShape /\ Pulseless
  BY DEF Init, JobShape, Pulseless
<1>3. CandidatesOK(candidates, Bindings)
  BY DEF Init, CandidatesOK
<1> QED
  BY <1>1, <1>2, <1>3 DEF Typed

\* The types of the combo runtime, and that its candidates belong to the combos
\* of the present set: what set_combos and the engine never leave behind.
THEOREM TypesHold == Spec => []Typed
<1>1. Init => Typed
  BY TypedInit
<1>2. Typed /\ [Next]_vars => Typed'
  BY TypedStep
<1> QED
  BY <1>1, <1>2, PTL DEF Spec

\* One step never completes a step whose deadline has passed.
LateStep ==
  \A id \in DOMAIN candidates \cap DOMAIN candidates' :
    candidates[id].deadline = "passed" =>
      candidates'[id].step = 1 \/ candidates'[id].deadline = "passed"

LEMMA LateDecide ==
  ASSUME Typed, NEW d \in Devices, Decide(d)
  PROVE  LateStep
<1> DEFINE e == inbox[d]
           alive == expire_timeouts(candidates)
<1>1. PICK o : OutcomeOK(o, alive, e.b, Known(e, Bindings)) /\ candidates' = o.candidates
  <2>1. /\ held \subseteq Bindings /\ down \subseteq Bindings /\ e.b \in Bindings
        /\ CandidatesOK(candidates, Bindings)
    BY DEF Typed, TypeOK, Event, Decide
  <2> QED
    BY <2>1, DecideOutcome
<1>2. \A id \in DOMAIN candidates : candidates[id].deadline = "passed" => id \notin DOMAIN alive
  BY ExpireOK DEF Typed
<1> QED
  BY <1>1, <1>2 DEF LateStep, OutcomeOK

\* LateStepNeverCompletes: the engine forgets a candidate whose deadline has
\* passed before it looks at the event, so that no press completes its step,
\* however late the event and the watchdog get the transition lock.
THEOREM LateStepsDrop == Spec => LateStepNeverCompletes
<1>1. Typed /\ [Next]_vars => [LateStep]_vars
  <2> SUFFICES ASSUME Typed, Next
               PROVE  LateStep \/ UNCHANGED vars
    OBVIOUS
  <2>1. CASE UNCHANGED candidates
    BY <2>1 DEF LateStep
  <2>2. CASE \E b \in Bindings, v \in 0..2 : Arrive(b, v)
    BY <2>1, <2>2 DEF Arrive
  <2>3. CASE \E d \in Devices : Decide(d)
    BY <2>3, LateDecide
  <2>4. CASE \E id \in Ids : start_combo_action(id) \/ stop_combo_action(id)
    BY <2>1, <2>4 DEF start_combo_action, stop_combo_action
  <2>5. CASE \E id \in Ids : DeadlinePasses(id)
    <3>1. PICK id \in Ids : /\ id \in DOMAIN candidates /\ candidates[id].deadline = "running"
                            /\ candidates' = [candidates EXCEPT ![id].deadline = "passed"]
      BY <2>5 DEF DeadlinePasses
    <3>2. \A i \in DOMAIN candidates \ {id} : candidates'[i] = candidates[i]
      BY <3>1
    <3> QED
      BY <3>1, <3>2 DEF LateStep
  <2>6. CASE Finish
    BY <2>1, <2>6 DEF Finish
  <2>7. CASE combo_timeout_watchdog
    <3>1. candidates' = expire_timeouts(candidates)
      BY <2>7 DEF combo_timeout_watchdog
    <3>2. \A id \in DOMAIN candidates' : candidates'[id] = candidates[id]
      BY <3>1, ExpireOK DEF Typed
    <3> QED
      BY <3>2 DEF LateStep
  <2>8. CASE \E config \in Configurations : set_combos(config)
    <3>1. \A id \in DOMAIN candidates' : candidates'[id] = candidates[id]
      BY <2>8, SetFacts
    <3> QED
      BY <3>1 DEF LateStep
  <2>9. CASE \E d \in Devices : release_device(d)
    <3>1. \A id \in DOMAIN candidates' : candidates'[id] = candidates[id]
      BY <2>9, ReleaseFacts
    <3> QED
      BY <3>1 DEF LateStep
  <2>10. CASE \E d \in Devices : begin_combo_capture(d) \/ end_combo_capture(d)
    BY <2>1, <2>10 DEF begin_combo_capture, end_combo_capture
  <2> QED
    BY <2>2, <2>3, <2>4, <2>5, <2>6, <2>7, <2>8, <2>9, <2>10 DEF Next
<1>2. [][LateStep]_vars => LateStepNeverCompletes
  BY PTL DEF LateStep, LateStepNeverCompletes
<1> QED
  BY <1>1, <1>2, TypesHold, PTL DEF Spec

-----------------------------------------------------------------------------
(* A running action is held by its keys. *)

\* The releases that wait for the transition lock.
Unread == {inbox[d].b : d \in {x \in Devices : inbox[x] # None /\ inbox[x].v = 0}}

\* An event that is on its way agrees with the keys that are down.
EventOK(e) ==
  /\ e.b \notin Pulses /\ e.v # 0 => e.b \in down
  /\ e.v = 0 => e.b \notin down \cup Pulses

\* The events on their way: a device has one at a time.
KeysOK ==
  /\ \A d \in Devices : inbox[d] # None => DeviceOf[inbox[d].b] = d /\ EventOK(inbox[d])
  /\ job # None => inbox[DeviceOf[job.event.b]] = None /\ EventOK(job.event)

\* Only wheel ticks of a captured device are on their way.
CaptureOK ==
  /\ \A d \in capture : inbox[d] # None => inbox[d].b \in Pulses
  /\ job # None /\ DeviceOf[job.event.b] \in capture => job.event.b \in Pulses

Uncaptured(S) == {b \in S : DeviceOf[b] \notin capture}

\* The keys that the engine may know of, and those that may still be at work.
Seen == Uncaptured(down \cup Unread)
Live == Uncaptured(down \cup Leaving)

EngineOK ==
  /\ combos # <<>> => held \subseteq Seen
  /\ \A id \in DOMAIN candidates : candidates[id].pressed \subseteq Seen

\* What is to be started is held, unless it is to be stopped at once.
JobOK ==
  job # None =>
    \A id \in DOMAIN job.start :
      /\ job.start[id] \ Pulses \subseteq Seen
      /\ id \notin job.once => Holds(candidates, id, job.start[id])

\* What runs is held, or about to be stopped.
ActiveOK ==
  /\ DOMAIN active \subseteq DOMAIN combos
  /\ \A id \in DOMAIN active :
       /\ active[id] \ Pulses \subseteq Live
       /\ Holds(candidates, id, active[id]) \/ (job # None /\ id \in job.stop)

Held == KeysOK /\ CaptureOK /\ EngineOK /\ JobOK /\ ActiveOK

\* Every event on its way is of its device's key.
LEMMA KeysArrive ==
  ASSUME Typed, Held, NEW b \in Bindings, NEW v \in 0..2, Arrive(b, v)
  PROVE  KeysOK' /\ CaptureOK'
<1> DEFINE d == DeviceOf[b]
           e == [b |-> b, v |-> v, suppress |-> Recalled(b) /\ v = 0]
<1>1. d \in Devices /\ e.v = v /\ e.b = b
  BY ComboAssumption
<1>2. /\ inbox[d] = None /\ Possible(b, v) /\ ~(job # None /\ DeviceOf[job.event.b] = d)
      /\ down' = Observed(b, v) /\ UNCHANGED <<job, capture>>
      /\ \/ UNCHANGED inbox
         \/ d \notin capture /\ inbox' = [inbox EXCEPT ![d] = e]
  BY DEF Arrive
<1> HIDE DEF e, d
<1>3. \A x : x # b => (x \in down' <=> x \in down)
  BY <1>2 DEF Observed
<1>4. (b \notin Pulses /\ v # 0 => b \in down') /\ (v = 0 => b \notin down' \cup Pulses)
  BY <1>2 DEF Observed, Possible, Typed, Pulseless
<1>5. ASSUME NEW x \in Devices, inbox'[x] # None
      PROVE  /\ DeviceOf[inbox'[x].b] = x /\ EventOK(inbox[x])'
             /\ x \in capture => inbox'[x].b \in Pulses
  <2>1. CASE inbox'[x] = inbox[x] /\ x # d
    <3>1. DeviceOf[inbox[x].b] = x /\ EventOK(inbox[x])
      BY <1>5, <2>1 DEF Held, KeysOK
    <3>2. inbox[x].b # b
      BY <2>1, <3>1 DEF d
    <3> QED
      BY <1>3, <1>5, <2>1, <3>1, <3>2 DEF EventOK, Held, CaptureOK
  <2>2. CASE x = d
    <3>1. inbox'[x] = e /\ d \notin capture
      BY <1>1, <1>2, <1>5, <2>2 DEF Typed, TypeOK
    <3> QED
      BY <1>1, <1>4, <2>2, <3>1 DEF EventOK, d
  <2> QED
    BY <1>2, <2>1, <2>2 DEF Typed, TypeOK
<1>6. ASSUME job' # None
      PROVE  /\ inbox'[DeviceOf[job'.event.b]] = None /\ EventOK(job.event)'
             /\ DeviceOf[job'.event.b] \in capture => job'.event.b \in Pulses
  <2>1. /\ job # None /\ job' = job /\ DeviceOf[job.event.b] # d
        /\ inbox[DeviceOf[job.event.b]] = None /\ EventOK(job.event)
    BY <1>2, <1>6 DEF Held, KeysOK
  <2>2. job.event.b # b /\ DeviceOf[job.event.b] \in Devices
    BY <2>1, ComboAssumption DEF d, Typed, TypeOK, Event
  <2>3. EventOK(job.event)'
    BY <1>3, <2>1, <2>2 DEF EventOK
  <2> QED
    BY <1>2, <2>1, <2>2, <2>3 DEF Held, CaptureOK, Typed, TypeOK
<1>7. KeysOK'
  BY <1>5, <1>6 DEF KeysOK
<1>8. capture' = capture /\ capture \subseteq Devices
  BY <1>2 DEF Typed, TypeOK
<1>9. CaptureOK'
  BY <1>5, <1>6, <1>8 DEF CaptureOK
<1> QED
  BY <1>7, <1>9

\* The steps that leave the events on their way and the keys as they are.
LEMMA KeysKept ==
  ASSUME Held, UNCHANGED <<down, inbox>>, capture' \subseteq capture,
         job' = None \/ (job # None /\ job'.event = job.event)
  PROVE  KeysOK' /\ CaptureOK'
BY DEF Held, KeysOK, CaptureOK, EventOK

LEMMA KeysDecide ==
  ASSUME Typed, Held, NEW d \in Devices, Decide(d), job'.event = inbox[d]
  PROVE  KeysOK' /\ CaptureOK'
<1>1. /\ inbox[d] # None /\ DeviceOf[inbox[d].b] = d /\ EventOK(inbox[d])
      /\ inbox' = [inbox EXCEPT ![d] = None] /\ UNCHANGED <<down, capture>>
  BY DEF Decide, Held, KeysOK
<1>2. inbox'[d] = None /\ \A x \in Devices \ {d} : inbox'[x] = inbox[x]
  BY <1>1 DEF Typed, TypeOK
<1>3. KeysOK'
  BY <1>1, <1>2 DEF Held, KeysOK, EventOK
<1> QED
  BY <1>1, <1>2, <1>3 DEF Held, CaptureOK, Typed, TypeOK

LEMMA KeysRelease ==
  ASSUME CapturesApart, Typed, Held, NEW d \in Devices, release_device(d)
  PROVE  KeysOK' /\ CaptureOK'
<1>1. /\ down' = {b \in down : DeviceOf[b] # d} /\ inbox' = [inbox EXCEPT ![d] = None]
      /\ job = None /\ job' = None /\ capture = {} /\ capture' = {}
  BY ReleaseFacts DEF CapturesApart
<1>2. inbox'[d] = None /\ \A x \in Devices \ {d} : inbox'[x] = inbox[x]
  BY <1>1 DEF Typed, TypeOK
<1>3. KeysOK'
  BY <1>1, <1>2 DEF Held, KeysOK, EventOK
<1> QED
  BY <1>1, <1>3 DEF CaptureOK

LEMMA KeysBegin ==
  ASSUME CapturesApart, Typed, Held, NEW d \in Devices, begin_combo_capture(d)
  PROVE  KeysOK' /\ CaptureOK'
<1>1. /\ \A b \in down \cup Leaving : DeviceOf[b] # d
      /\ capture' = capture \cup {d} /\ UNCHANGED <<down, inbox, job>>
  BY DEF begin_combo_capture, CapturesApart
<1>2. inbox[d] # None => inbox[d].b \in Pulses
  <2> SUFFICES ASSUME inbox[d] # None, inbox[d].b \notin Pulses
               PROVE  FALSE
    OBVIOUS
  <2>1. DeviceOf[inbox[d].b] = d /\ inbox[d].b \in down \cup Leaving
    BY DEF Held, KeysOK, EventOK, Leaving
  <2> QED
    BY <1>1, <2>1
<1>3. job # None /\ DeviceOf[job.event.b] = d => job.event.b \in Pulses
  <2> SUFFICES ASSUME job # None, job.event.b \notin Pulses, DeviceOf[job.event.b] = d
               PROVE  FALSE
    OBVIOUS
  <2>1. job.event.b \in down \cup Leaving
    BY DEF Held, KeysOK, EventOK, Leaving
  <2> QED
    BY <1>1, <2>1
<1> QED
  BY <1>1, <1>2, <1>3 DEF Held, KeysOK, CaptureOK, EventOK

\* The steps that lose no key and touch nothing that a key holds.
LEMMA HeldKept ==
  ASSUME Held, Seen \subseteq Seen', Live \subseteq Live',
         UNCHANGED <<combos, candidates, held, active, job>>
  PROVE  EngineOK' /\ JobOK' /\ ActiveOK'
<1>1. EngineOK'
  BY DEF Held, EngineOK
<1>2. JobOK'
  BY DEF Held, JobOK, Holds
<1>3. ActiveOK'
  BY DEF Held, ActiveOK, Holds
<1> QED
  BY <1>1, <1>2, <1>3

\* The releases on their way, seen from their device.
LEMMA UnreadOf ==
  ASSUME Typed, KeysOK
  PROVE  \A b \in Bindings : b \in Unread <=>
           /\ inbox[DeviceOf[b]] # None /\ inbox[DeviceOf[b]].v = 0 /\ inbox[DeviceOf[b]].b = b
BY ComboAssumption DEF KeysOK, Unread

\* Leaving are the releases that wait, and the one under the lock.
LEMMA LeavingOf ==
  Leaving = Unread \cup (IF job # None /\ job.event.v = 0 THEN {job.event.b} ELSE {})
BY DEF Leaving, Unread

LEMMA LeavingOfNext ==
  Leaving' = Unread' \cup (IF job' # None /\ job'.event.v = 0 THEN {job'.event.b} ELSE {})
BY DEF Leaving, Unread

LEMMA HeldArrive ==
  ASSUME Typed, Held, NEW b \in Bindings, NEW v \in 0..2, Arrive(b, v)
  PROVE  Held'
<1> DEFINE d == DeviceOf[b]
           e == [b |-> b, v |-> v, suppress |-> Recalled(b) /\ v = 0]
<1>1. d \in Devices /\ e.v = v /\ e.b = b
  BY ComboAssumption
<1>2. /\ inbox[d] = None /\ down' = Observed(b, v)
      /\ UNCHANGED <<combos, candidates, held, active, job, capture>>
      /\ \/ d \in capture /\ UNCHANGED inbox
         \/ d \notin capture /\ combos = <<>> /\ UNCHANGED inbox
         \/ d \notin capture /\ combos # <<>> /\ inbox' = [inbox EXCEPT ![d] = e]
  BY DEF Arrive
<1> HIDE DEF e, d
<1>3. \A x : x # b => (x \in down' <=> x \in down)
  BY <1>2 DEF Observed
<1>4. KeysOK' /\ CaptureOK'
  BY KeysArrive
<1>5. CASE combos = <<>> /\ d \notin capture
  <2>1. DOMAIN combos = {}
    BY <1>5
  <2>2. DOMAIN candidates = {} /\ DOMAIN active = {} /\ (job # None => DOMAIN job.start = {})
    BY <2>1 DEF Held, ActiveOK, Typed, CandidatesOK, JobShape
  <2> QED
    BY <1>2, <1>4, <1>5, <2>2 DEF Held, EngineOK, JobOK, ActiveOK
<1>6. CASE d \in capture \/ combos # <<>>
  <2>1. \A x \in Unread : x # b
    BY <1>2 DEF Held, KeysOK, Unread, d
  <2>2. Unread \subseteq Unread'
    BY <1>2, <2>1 DEF Unread, Typed, TypeOK
  <2>3. b \in down => d \in capture \/ b \in down' \cup Unread'
    <3> SUFFICES ASSUME b \in down, d \notin capture
                 PROVE  b \in down' \cup Unread'
      OBVIOUS
    <3>1. inbox' = [inbox EXCEPT ![d] = e]
      BY <1>2, <1>6
    <3>2. v = 0 => inbox'[d] = e /\ e # None
      <4>1. e # None
        BY DEF e, None
      <4> QED
        BY <1>1, <3>1, <4>1 DEF Typed, TypeOK
    <3>3. v = 0 => b \in Unread'
      BY <1>1, <3>2 DEF Unread
    <3>4. v # 0 => b \in down'
      BY <1>2 DEF Observed
    <3> QED
      BY <3>3, <3>4
  <2>4. Seen \subseteq Seen'
    BY <1>2, <1>3, <2>2, <2>3 DEF Seen, Uncaptured, d
  <2>5. Live \subseteq Live'
    BY <1>2, <1>3, <2>2, <2>3, LeavingOf, LeavingOfNext DEF Live, Uncaptured, d
  <2> QED
    BY <1>2, <1>4, <2>4, <2>5, HeldKept DEF Held
<1> QED
  BY <1>2, <1>5, <1>6

LEMMA HeldCapture ==
  ASSUME CapturesApart, Typed, Held, NEW d \in Devices,
         begin_combo_capture(d) \/ end_combo_capture(d)
  PROVE  Held'
<1>1. UNCHANGED <<combos, candidates, held, active, down, dev, inbox, job>>
  BY DEF begin_combo_capture, end_combo_capture
<1>2. Unread' = Unread /\ Leaving' = Leaving
  BY <1>1 DEF Unread, Leaving
<1>3. CASE begin_combo_capture(d)
  <2>1. capture' = capture \cup {d} /\ \A b \in down \cup Leaving : DeviceOf[b] # d
    BY <1>3 DEF begin_combo_capture, CapturesApart
  <2>2. Seen \subseteq Seen' /\ Live \subseteq Live'
    BY <1>1, <1>2, <2>1, LeavingOf DEF Seen, Live, Uncaptured
  <2> QED
    BY <1>1, <1>3, <2>2, KeysBegin, HeldKept DEF Held
<1>4. CASE end_combo_capture(d)
  <2>1. capture' \subseteq capture
    BY <1>4 DEF end_combo_capture
  <2>2. Seen \subseteq Seen' /\ Live \subseteq Live'
    BY <1>1, <1>2, <2>1 DEF Seen, Live, Uncaptured
  <2> QED
    BY <1>1, <2>1, <2>2, KeysKept, HeldKept DEF Held
<1> QED
  BY <1>3, <1>4

LEMMA HeldDecide ==
  ASSUME Typed, Held, NEW d \in Devices, Decide(d)
  PROVE  Held'
<1> DEFINE e == inbox[d]
           alive == expire_timeouts(candidates)
           K == Seen
<1>1. /\ e \in Event /\ e # None /\ job = None /\ DeviceOf[e.b] = d /\ EventOK(e)
      /\ inbox' = [inbox EXCEPT ![d] = None]
      /\ UNCHANGED <<combos, active, down, capture>>
  BY DEF Decide, Held, KeysOK, Typed, TypeOK
<1>2. CandidatesOK(candidates, K)
  BY DEF Typed, CandidatesOK, Held, EngineOK
<1>3. e.v # 0 /\ e.b \notin Pulses =>
        d \notin capture /\ e.b \in K /\ {b \in down : DeviceOf[b] = d} \subseteq K
  BY <1>1 DEF Held, CaptureOK, EventOK, Seen, Uncaptured
<1>4. PICK o :
        /\ OutcomeOK(o, alive, e.b, Known(e, K))
        /\ candidates' = o.candidates
        /\ job' = [event |-> e, start |-> o.start, stop |-> o.stop,
                   once |-> {id \in DOMAIN o.start : e.b \in Pulses \/ ~combos[id].held},
                   consume |-> o.consume, pass |-> o.pass]
  <2>1. combos # <<>> => held \subseteq K
    BY DEF Held, EngineOK
  <2> QED
    BY <1>2, <1>3, <2>1, DecideOutcome
<1>5. /\ job'.event = e /\ job'.start = o.start /\ job'.stop = o.stop
      /\ job'.once = {id \in DOMAIN o.start : e.b \in Pulses \/ ~combos[id].held}
  BY <1>4
<1>6. held' = IF e.v = 0 THEN held \ {e.b}
              ELSE held \cup (IF e.v = 1 /\ e.b \notin Pulses
                                THEN {e.b} \cup held_combo_modifier_bindings_for_scope(d) ELSE {})
  BY DEF Decide
<1>7. KeysOK' /\ CaptureOK'
  BY <1>5, KeysDecide
<1>8. inbox'[d] = None /\ \A x \in Devices \ {d} : inbox'[x] = inbox[x]
  BY <1>1 DEF Typed, TypeOK
<1>9. /\ e.v = 0 => Unread' = Unread \ {e.b} /\ e.b \in Unread
      /\ e.v # 0 => Unread' = Unread
  <2>1. \A x \in Devices \ {d} : inbox[x] # None => inbox[x].b # e.b
    BY <1>1 DEF Held, KeysOK
  <2> QED
    BY <1>1, <1>8, <2>1 DEF Unread
<1>10. Known(e, K) \subseteq Seen'
  BY <1>1, <1>9 DEF Known, Seen, Uncaptured
<1> HIDE DEF e, alive, K
<1>11. EngineOK'
  <2>1. \A id \in DOMAIN o.candidates : o.candidates[id].pressed \subseteq Known(e, K)
    BY <1>4 DEF OutcomeOK, CandidatesOK
  <2>2. combos # <<>> => held' \subseteq Known(e, K)
    <3>1. combos # <<>> => held \subseteq K
      BY DEF Held, EngineOK, K
    <3>2. e.v = 1 /\ e.b \notin Pulses =>
            {e.b} \cup held_combo_modifier_bindings_for_scope(d) \subseteq K
      BY <1>3 DEF held_combo_modifier_bindings_for_scope
    <3> QED
      BY <1>6, <3>1, <3>2 DEF Known
  <2> QED
    BY <1>1, <1>4, <1>10, <2>1, <2>2 DEF EngineOK
<1>12. JobOK'
  <2> SUFFICES ASSUME NEW id \in DOMAIN o.start
               PROVE  /\ o.start[id] \ Pulses \subseteq Seen'
                      /\ id \notin job'.once => Holds(candidates', id, o.start[id])
    BY <1>5 DEF JobOK
  <2>1. /\ o.start[id] \ Pulses \subseteq Known(e, K)
        /\ e.b \notin Pulses => Holds(o.candidates, id, o.start[id])
    BY <1>4 DEF OutcomeOK, StartsOK
  <2> QED
    BY <1>4, <1>5, <1>10, <2>1
<1>13. ActiveOK'
  <2>1. job' # None
    BY <1>4 DEF None
  <2>2. Live' = Live
    <3>1. Leaving' = Leaving
      BY <1>1, <1>5, <1>9, <2>1, LeavingOf, LeavingOfNext
    <3> QED
      BY <1>1, <3>1 DEF Live, Uncaptured
  <2> SUFFICES ASSUME NEW id \in DOMAIN active
               PROVE  Holds(candidates', id, active[id]) \/ (job' # None /\ id \in job'.stop)
    BY <1>1, <2>2 DEF ActiveOK, Held
  <2>3. Holds(candidates, id, active[id])
    BY <1>1 DEF Held, ActiveOK
  <2>4. Holds(alive, id, active[id])
    BY <1>2, <2>3, ExpireOK DEF Holds, alive
  <2>5. id \in o.stop \/ Holds(o.candidates, id, active[id])
    BY <1>4, <2>4 DEF Holds, OutcomeOK
  <2> QED
    BY <1>4, <1>5, <2>1, <2>5
<1> QED
  BY <1>7, <1>11, <1>12, <1>13 DEF Held

\* While the transition goes on the keys stay as they are.
LEMMA SeenKept ==
  ASSUME UNCHANGED <<down, inbox, capture>>
  PROVE  /\ Unread' = Unread /\ Seen' = Seen
         /\ job' # None /\ job # None /\ job'.event = job.event => Live' = Live
BY DEF Unread, Seen, Live, Leaving, Uncaptured

LEMMA HeldStart ==
  ASSUME Typed, Held, NEW id, start_combo_action(id)
  PROVE  Held'
<1> DEFINE mid == Stopped(dev, {id})
           recalled == combo_trigger_recall_state(mid, id, job.start[id])
<1>1. /\ job # None /\ job.stop = {} /\ id \in DOMAIN job.start /\ id \in DOMAIN combos
      /\ JobKept /\ job'.stop = job.once \cap {id}
      /\ DOMAIN job'.start = DOMAIN job.start \ {id}
      /\ \A i \in DOMAIN job'.start : job'.start[i] = job.start[i]
      /\ DOMAIN active' = DOMAIN active \cup {id} /\ active'[id] = recalled.restore
      /\ \A i \in DOMAIN active \ {id} : active'[i] = active[i]
  BY StartFacts
<1>2. recalled.restore \subseteq job.start[id]
  BY DEF combo_trigger_recall_state
<1> HIDE DEF mid, recalled
<1>3. job' # None
  BY <1>1 DEF JobKept, None
<1>4. Seen' = Seen /\ Live' = Live /\ Seen \subseteq Live
  BY <1>1, <1>3, SeenKept, LeavingOf DEF JobKept, Seen, Live, Uncaptured
<1>5. KeysOK' /\ CaptureOK'
  BY <1>1, KeysKept DEF JobKept
<1>6. EngineOK'
  BY <1>1, <1>4 DEF Held, EngineOK, JobKept
<1>7. JobOK'
  BY <1>1, <1>4 DEF Held, JobOK, JobKept
<1>8. ActiveOK'
  <2>1. DOMAIN active' \subseteq DOMAIN combos'
    BY <1>1 DEF Held, ActiveOK, JobKept
  <2>2. \A i \in DOMAIN active \ {id} :
          active'[i] \ Pulses \subseteq Live' /\ Holds(candidates', i, active'[i])
    BY <1>1, <1>4 DEF Held, ActiveOK, JobKept
  <2>3. active'[id] \ Pulses \subseteq Live'
    BY <1>1, <1>2, <1>4 DEF Held, JobOK
  <2>4. Holds(candidates', id, active'[id]) \/ id \in job'.stop
    BY <1>1, <1>2 DEF Held, JobOK, Holds, JobKept
  <2> QED
    BY <1>1, <1>3, <2>1, <2>2, <2>3, <2>4 DEF ActiveOK
<1> QED
  BY <1>5, <1>6, <1>7, <1>8 DEF Held

LEMMA HeldStop ==
  ASSUME Typed, Held, NEW id, stop_combo_action(id)
  PROVE  Held'
<1>1. /\ job # None /\ id \in job.stop
      /\ JobKept /\ job'.stop = job.stop \ {id} /\ job'.start = job.start
      /\ DOMAIN active' = DOMAIN active \ {id}
      /\ \A i \in DOMAIN active' : active'[i] = active[i]
  BY StopFacts
<1>2. job' # None
  BY <1>1 DEF JobKept, None
<1>3. Seen' = Seen /\ Live' = Live
  BY <1>1, <1>2, SeenKept DEF JobKept
<1>4. KeysOK' /\ CaptureOK'
  BY <1>1, KeysKept DEF JobKept
<1>5. EngineOK'
  BY <1>1, <1>3 DEF Held, EngineOK, JobKept
<1>6. JobOK'
  BY <1>1, <1>3 DEF Held, JobOK, JobKept
<1>7. ActiveOK'
  BY <1>1, <1>2, <1>3 DEF Held, ActiveOK, JobKept
<1> QED
  BY <1>4, <1>5, <1>6, <1>7 DEF Held

\* Outside a transition, the keys of a running action are those of its candidate.
LEMMA ActiveSeen ==
  ASSUME Held, NEW id \in DOMAIN active, job = None \/ job.stop = {}
  PROVE  Holds(candidates, id, active[id]) /\ active[id] \ Pulses \subseteq Seen
BY DEF Held, ActiveOK, EngineOK, Holds

LEMMA HeldFinish ==
  ASSUME Typed, Held, Finish
  PROVE  Held'
<1>1. /\ job # None /\ job.stop = {} /\ job' = None
      /\ UNCHANGED <<combos, candidates, held, active, down, inbox, capture>>
  BY DEF Finish
<1>2. Seen' = Seen /\ Seen' = Live'
  BY <1>1, SeenKept, LeavingOfNext DEF Seen, Live
<1>3. KeysOK' /\ CaptureOK'
  BY <1>1, KeysKept
<1>4. EngineOK' /\ JobOK'
  BY <1>1, <1>2 DEF Held, EngineOK, JobOK
<1>5. \A id \in DOMAIN active : Holds(candidates, id, active[id]) /\ active[id] \ Pulses \subseteq Seen
  BY <1>1, ActiveSeen
<1>6. ActiveOK'
  BY <1>1, <1>2, <1>5 DEF Held, ActiveOK
<1> QED
  BY <1>3, <1>4, <1>6 DEF Held

LEMMA HeldDeadline ==
  ASSUME Typed, Held, NEW id, DeadlinePasses(id)
  PROVE  Held'
<1>1. /\ id \in DOMAIN candidates
      /\ candidates' = [candidates EXCEPT ![id] = [candidates[id] EXCEPT !.deadline = "passed"]]
      /\ UNCHANGED <<combos, held, active, down, inbox, job, capture>>
  BY DEF DeadlinePasses
<1>2. /\ DOMAIN candidates' = DOMAIN candidates
      /\ \A i \in DOMAIN candidates : /\ candidates'[i].pressed = candidates[i].pressed
                                      /\ candidates'[i].active = candidates[i].active
  <2>1. candidates[id] \in Candidate
    BY <1>1 DEF Typed, TypeOK, IsPartial
  <2>2. /\ candidates'[id].pressed = candidates[id].pressed
        /\ candidates'[id].active = candidates[id].active
    BY <1>1, <2>1 DEF Candidate
  <2> QED
    BY <1>1, <2>2
<1>3. Seen' = Seen /\ Live' = Live
  BY <1>1 DEF Seen, Live, Unread, Leaving, Uncaptured
<1>4. KeysOK' /\ CaptureOK'
  BY <1>1, KeysKept
<1>5. EngineOK'
  BY <1>1, <1>2, <1>3 DEF Held, EngineOK
<1>6. JobOK'
  BY <1>1, <1>2, <1>3 DEF Held, JobOK, Holds
<1>7. ActiveOK'
  BY <1>1, <1>2, <1>3 DEF Held, ActiveOK, Holds
<1> QED
  BY <1>4, <1>5, <1>6, <1>7 DEF Held

LEMMA HeldWatchdog ==
  ASSUME Typed, Held, combo_timeout_watchdog
  PROVE  Held'
<1>1. /\ job = None /\ candidates' = expire_timeouts(candidates)
      /\ UNCHANGED <<combos, held, active, down, inbox, job, capture>>
  BY DEF combo_timeout_watchdog
<1>2. /\ \A id \in DOMAIN candidates' : id \in DOMAIN candidates /\ candidates'[id] = candidates[id]
      /\ \A id \in DOMAIN candidates : candidates[id].active => id \in DOMAIN candidates'
  BY <1>1, ExpireOK DEF Typed
<1>3. Seen' = Seen /\ Live' = Live
  BY <1>1 DEF Seen, Live, Unread, Leaving, Uncaptured
<1>4. KeysOK' /\ CaptureOK'
  BY <1>1, KeysKept
<1>5. EngineOK' /\ JobOK'
  BY <1>1, <1>2, <1>3 DEF Held, EngineOK, JobOK
<1>6. ActiveOK'
  BY <1>1, <1>2, <1>3 DEF Held, ActiveOK, Holds
<1> QED
  BY <1>4, <1>5, <1>6 DEF Held

LEMMA HeldSet ==
  ASSUME CapturesApart, Typed, Held, NEW config \in Configurations, set_combos(config)
  PROVE  Held'
<1> DEFINE unchanged == unchanged_combo_ids(config)
<1>1. /\ \A id \in unchanged :
           id \in DOMAIN combos /\ id \in DOMAIN combos' /\ combos'[id] = combos[id]
      /\ job = None /\ capture = {}
      /\ DOMAIN active' = DOMAIN active \cap unchanged
      /\ \A id \in DOMAIN active' : active'[id] = active[id]
      /\ DOMAIN candidates' = DOMAIN candidates \cap unchanged
      /\ \A id \in DOMAIN candidates' : candidates'[id] = candidates[id]
      /\ held' = (IF unchanged = {} THEN {} ELSE held) \cup down
      /\ UNCHANGED <<down, inbox, job, capture>>
  BY SetFacts DEF CapturesApart
<1> HIDE DEF unchanged
<1>2. Seen' = Seen /\ Live' = Live
  BY <1>1 DEF Seen, Live, Unread, Leaving, Uncaptured
<1>3. KeysOK' /\ CaptureOK'
  BY <1>1, KeysKept
<1>4. held' \subseteq Seen
  <2>1. down \subseteq Seen
    BY <1>1 DEF Seen, Uncaptured
  <2>2. CASE unchanged = {}
    BY <1>1, <2>1, <2>2
  <2>3. CASE unchanged # {}
    <3>1. combos # <<>>
      BY <1>1, <2>3
    <3> QED
      BY <1>1, <2>1, <3>1 DEF Held, EngineOK
  <2> QED
    BY <2>2, <2>3
<1>5. EngineOK' /\ JobOK'
  BY <1>1, <1>2, <1>4 DEF Held, EngineOK, JobOK
<1>6. ActiveOK'
  BY <1>1, <1>2 DEF Held, ActiveOK, Holds
<1> QED
  BY <1>3, <1>5, <1>6 DEF Held

LEMMA HeldRelease ==
  ASSUME CapturesApart, Typed, Held, NEW d \in Devices, release_device(d)
  PROVE  Held'
<1> DEFINE stopping == {id \in InScope(d) : candidates[id].active}
<1>1. /\ job = None /\ capture = {} /\ DOMAIN active' = DOMAIN active \ stopping
      /\ \A id \in DOMAIN active' : active'[id] = active[id]
      /\ DOMAIN candidates' = DOMAIN candidates \ InScope(d)
      /\ \A id \in DOMAIN candidates' : candidates'[id] = candidates[id]
      /\ down' = {b \in down : DeviceOf[b] # d}
      /\ held' = {b \in held : DeviceOf[b] # d} \cup down'
      /\ inbox' = [inbox EXCEPT ![d] = None]
      /\ UNCHANGED <<combos, job, capture>>
  BY ReleaseFacts DEF CapturesApart
<1>2. inbox'[d] = None /\ \A x \in Devices \ {d} : inbox'[x] = inbox[x]
  BY <1>1 DEF Typed, TypeOK
<1>3. \A b \in Seen : DeviceOf[b] # d => b \in Seen'
  <2>1. \A b \in Unread : DeviceOf[b] # d => b \in Unread'
    BY <1>2 DEF Unread, Held, KeysOK
  <2> QED
    BY <1>1, <2>1 DEF Seen, Uncaptured
<1>4. KeysOK' /\ CaptureOK'
  BY KeysRelease
<1>5. \A id \in DOMAIN candidates : id \notin InScope(d) =>
        \A b \in candidates[id].pressed : b \in Seen'
  BY <1>3 DEF Held, EngineOK, InScope
<1>6. EngineOK'
  <2>1. down' \subseteq Seen'
    BY <1>1 DEF Seen, Uncaptured
  <2> QED
    BY <1>1, <1>3, <1>5, <2>1 DEF Held, EngineOK
<1>7. JobOK'
  BY <1>1 DEF JobOK
<1>8. ActiveOK'
  <2>1. DOMAIN active' \subseteq DOMAIN combos'
    BY <1>1 DEF Held, ActiveOK
  <2>2. Seen' \subseteq Live'
    BY LeavingOfNext DEF Seen, Live, Uncaptured
  <2> SUFFICES ASSUME NEW id \in DOMAIN active'
               PROVE  active'[id] \ Pulses \subseteq Live' /\ Holds(candidates', id, active'[id])
    BY <2>1 DEF ActiveOK
  <2>3. Holds(candidates, id, active[id])
    BY <1>1, ActiveSeen
  <2>4. id \in DOMAIN candidates /\ id \notin InScope(d)
    BY <1>1, <2>3 DEF Holds
  <2> QED
    BY <1>1, <1>5, <2>2, <2>3, <2>4 DEF Holds
<1> QED
  BY <1>4, <1>6, <1>7, <1>8 DEF Held

LEMMA HeldStep ==
  ASSUME CapturesApart, Typed, Held, [Next]_vars
  PROVE  Held'
<1>1. CASE UNCHANGED vars
  <2>1. UNCHANGED <<combos, candidates, held, active, down, inbox, job, capture>>
    BY <1>1 DEF vars
  <2>2. Seen' = Seen /\ Live' = Live
    BY <2>1 DEF Seen, Live, Unread, Leaving, Uncaptured
  <2>3. KeysOK' /\ CaptureOK'
    BY <2>1, KeysKept
  <2> QED
    BY <2>1, <2>2, <2>3, HeldKept DEF Held
<1>2. CASE \E b \in Bindings, v \in 0..2 : Arrive(b, v)
  BY <1>2, HeldArrive
<1>3. CASE \E d \in Devices : Decide(d)
  BY <1>3, HeldDecide
<1>4. CASE \E id \in Ids : start_combo_action(id) \/ stop_combo_action(id) \/ DeadlinePasses(id)
  BY <1>4, HeldStart, HeldStop, HeldDeadline
<1>5. CASE Finish
  BY <1>5, HeldFinish
<1>6. CASE combo_timeout_watchdog
  BY <1>6, HeldWatchdog
<1>7. CASE \E config \in Configurations : set_combos(config)
  BY <1>7, HeldSet
<1>8. CASE \E d \in Devices : release_device(d) \/ begin_combo_capture(d) \/ end_combo_capture(d)
  BY <1>8, HeldRelease, HeldCapture
<1> QED
  BY <1>1, <1>2, <1>3, <1>4, <1>5, <1>6, <1>7, <1>8 DEF Next

LEMMA HeldInit ==
  ASSUME Init
  PROVE  Held
<1>1. KeysOK /\ CaptureOK
  BY DEF Init, KeysOK, CaptureOK
<1>2. EngineOK /\ JobOK /\ ActiveOK
  BY DEF Init, EngineOK, JobOK, ActiveOK
<1> QED
  BY <1>1, <1>2 DEF Held

\* The keys and events agree, and what runs is held.
LEMMA HeldAlways == CapturesApart => (Spec => [](Typed /\ Held))
<1> SUFFICES ASSUME CapturesApart
             PROVE  Spec => [](Typed /\ Held)
  OBVIOUS
<1>1. Init => Held
  BY HeldInit
<1>2. Typed /\ Held /\ [Next]_vars => Held'
  BY HeldStep
<1> QED
  BY <1>1, <1>2, TypesHold, PTL DEF Spec

\* ActionHeldByKeys: if no capture overlaps a held key, an action that
\* start_combo_action has started is, outside a transition, the action of a
\* candidate with its whole final step pressed, each key of which is down or has
\* its release on the way to the engine; no interleaving of devices, edits and
\* releases leaves an action running without its keys.
THEOREM ActionsAreHeld == CapturesApart => (Spec => []ActionHeldByKeys)
<1>1. Typed /\ Held => ActionHeldByKeys
  <2> SUFFICES ASSUME Typed, Held, job = None, NEW id \in DOMAIN active
               PROVE  /\ id \in DOMAIN candidates /\ candidates[id].active
                      /\ candidates[id].step = LastStep(id)
                      /\ Cardinality(candidates[id].pressed) =
                           Cardinality(current_step(id, candidates[id]))
                      /\ candidates[id].pressed \subseteq down \cup Leaving
    BY DEF ActionHeldByKeys
  <2>1. id \in DOMAIN candidates /\ candidates[id].active
    BY ActiveSeen DEF Holds
  <2>2. CandidateOK(id, candidates[id])
    BY <2>1 DEF Typed, CandidatesOK
  <2>3. candidates[id].pressed \subseteq down \cup Leaving
    BY <2>1, LeavingOf DEF Held, EngineOK, Seen, Uncaptured
  <2> QED
    BY <2>1, <2>2, <2>3 DEF CandidateOK
<1> SUFFICES ASSUME CapturesApart
             PROVE  Spec => []ActionHeldByKeys
  OBVIOUS
<1>2. Spec => [](Typed /\ Held)
  BY HeldAlways
<1> QED
  BY <1>1, <1>2, PTL

-----------------------------------------------------------------------------
(* A suppressed modifier is owed. *)

\* What a step must keep of the modifiers that are owed.
PromisesKept ==
  \A b \in down' : Unowed(b)' => (b \in down /\ Unowed(b)) \/ RecalledForGood(b)

\* Stopping actions takes the marks of the keys that they owe.
LEMMA StoppedOwed ==
  ASSUME Typed, NEW S, NEW b, Mark(b) \in Stopped(dev, S).recalled
  PROVE  Mark(b) \in dev.recalled /\ \A id \in DOMAIN active : b \in active[id] => id \notin S
<1> DEFINE r == Stopped(dev, S)
<1>1. r = Stopped(dev, S) /\ Mark(b) \in r.recalled
  OBVIOUS
<1> HIDE DEF r
<1>2. r.recalled = dev.recalled \ {Mark(x) : x \in Owing(S)}
  BY <1>1, StoppedDev DEF Typed, TypeOK, Dev
<1> QED
  BY <1>1, <1>2 DEF Owing

\* A step that stops the actions of S and no others keeps the promises.
LEMMA StopKeeps ==
  ASSUME Typed, NEW S, DOMAIN active' = DOMAIN active \ S,
         \A id \in DOMAIN active' : active'[id] = active[id],
         down' \subseteq down, dev'.recalled \subseteq Stopped(dev, S).recalled
  PROVE  PromisesKept
<1> SUFFICES ASSUME NEW b \in down', Unowed(b)'
             PROVE  b \in down /\ Unowed(b)
  BY DEF PromisesKept
<1>1. /\ NameOf[b] \in Modifiers /\ Mark(b) \in Stopped(dev, S).recalled
      /\ \A id \in DOMAIN active' : b \notin active'[id]
  BY DEF Unowed, Promised, Mark
<1>2. Mark(b) \in dev.recalled /\ \A id \in DOMAIN active : b \in active[id] => id \notin S
  BY <1>1, StoppedOwed
<1> QED
  BY <1>1, <1>2 DEF Unowed, Promised

LEMMA PromisesArrive ==
  ASSUME Typed, NEW b \in Bindings, NEW v \in 0..2, Arrive(b, v)
  PROVE  PromisesKept
<1> DEFINE e == [b |-> b, v |-> v, suppress |-> Recalled(b) /\ v = 0]
           taken == intercept_recalled_event(b)
<1>1. e \in Event
  BY DEF Event, Recalled
<1>2. /\ down' = Observed(b, v) /\ UNCHANGED active
      /\ \/ dev' = clear_released_source_action(taken, e)
         \/ dev' = Route(taken, e, FALSE, FALSE)
         \/ dev' = taken
  BY DEF Arrive
<1>3. taken = intercept_recalled_event(b)
  OBVIOUS
<1> HIDE DEF e, taken
<1>4. /\ taken \in Dev
      /\ taken.recalled = IF Recalled(b) THEN dev.recalled \ {Mark(b)} ELSE dev.recalled
  BY <1>3, InterceptDev DEF Typed, TypeOK, Dev
<1>5. dev'.recalled = taken.recalled
  <2>1. ASSUME dev' = clear_released_source_action(taken, e)
        PROVE  dev'.recalled = taken.recalled
    BY <1>1, <1>4, <2>1, ClearDev
  <2>2. ASSUME dev' = Route(taken, e, FALSE, FALSE)
        PROVE  dev'.recalled = taken.recalled
    BY <1>1, <1>4, <2>2, RouteDev
  <2> QED
    BY <1>2, <2>1, <2>2
<1>6. \A x \in down' : x \in down \/ (x = b /\ b \notin Pulses)
  BY <1>2 DEF Observed
<1> SUFFICES ASSUME NEW x \in down', Unowed(x)'
             PROVE  x \in down /\ Unowed(x)
  BY DEF PromisesKept
<1>7. /\ NameOf[x] \in Modifiers /\ Mark(x) \in taken.recalled
      /\ \A id \in DOMAIN active : x \notin active[id]
  BY <1>2, <1>5 DEF Unowed, Promised, Mark
<1>8. Mark(x) \in dev.recalled /\ (x = b => ~Recalled(b))
  BY <1>4, <1>7
<1> QED
  BY <1>6, <1>7, <1>8 DEF Unowed, Promised, Recalled

LEMMA PromisesDecide ==
  ASSUME Typed, NEW d \in Devices, Decide(d)
  PROVE  PromisesKept
<1> DEFINE e == inbox[d]
           alive == expire_timeouts(candidates)
<1>1. PICK o :
        /\ OutcomeOK(o, alive, e.b, Known(e, Bindings))
        /\ dev' = emit_combo_recalls(dev, o.recall)
  <2>1. /\ held \subseteq Bindings /\ down \subseteq Bindings /\ e.b \in Bindings
        /\ CandidatesOK(candidates, Bindings)
    BY DEF Typed, TypeOK, Event, Decide
  <2> QED
    BY <2>1, DecideOutcome
<1>2. o.recall \in SUBSET Bindings /\ \A x \in o.recall : NameOf[x] \notin Modifiers
  BY <1>1 DEF OutcomeOK
<1>3. UNCHANGED <<active, down>>
  BY DEF Decide
<1>4. dev'.recalled = dev.recalled \cup {Mark(x) : x \in o.recall \cap dev.out}
  BY <1>1, <1>2, RecallsDev DEF Typed, TypeOK, Dev
<1>5. \A b \in down : NameOf[b] \in Modifiers /\ Mark(b) \in dev'.recalled => Mark(b) \in dev.recalled
  BY <1>2, <1>4 DEF Mark
<1> QED
  BY <1>3, <1>5 DEF PromisesKept, Unowed, Promised, Mark

\* What the start of an action recalls is promised, or recalled for good.
LEMMA PromisesStart ==
  ASSUME Typed, NEW id \in Ids, start_combo_action(id)
  PROVE  PromisesKept
<1> DEFINE mid == Stopped(dev, {id})
           trigger == job.start[id]
           recalled == combo_trigger_recall_state(mid, id, trigger)
<1>1. /\ trigger \in SUBSET Bindings /\ combos[id].recall \in BOOLEAN /\ down' = down
      /\ dev' = recalled.dev
      /\ DOMAIN active' = DOMAIN active \cup {id} /\ active'[id] = recalled.restore
      /\ \A i \in DOMAIN active \ {id} : active'[i] = active[i]
  BY StartFacts DEF JobKept
<1>2. mid \in Dev
  BY StoppedDev DEF Typed, TypeOK, Dev
<1>3. /\ recalled = combo_trigger_recall_state(mid, id, trigger)
      /\ mid = Stopped(dev, {id}) /\ trigger = job.start[id]
  OBVIOUS
<1> HIDE DEF mid, recalled, trigger
<1>4. /\ recalled.dev.recalled =
           mid.recalled \cup {Mark(b) : b \in Recalling(mid, id, trigger) \cap mid.out}
      /\ recalled.restore = {b \in trigger : /\ combos[id].recall
                                             /\ b \in mid.out \/ Mark(b) \in mid.recalled
                                             /\ NameOf[b] \in combos[id].restore}
  <2>1. trigger \in SUBSET Bindings /\ combos[id].recall \in BOOLEAN
    BY <1>1
  <2>2. recalled = combo_trigger_recall_state(mid, id, trigger)
    BY <1>3
  <2> QED
    BY <1>2, <2>1, <2>2, TriggerDev
<1> SUFFICES ASSUME NEW b \in down', Unowed(b)'
             PROVE  (b \in down /\ Unowed(b)) \/ RecalledForGood(b)
  BY DEF PromisesKept
<1>5. /\ NameOf[b] \in Modifiers /\ Mark(b) \in dev'.recalled
      /\ \A i \in DOMAIN active' : b \notin active'[i]
  BY DEF Unowed, Promised, Mark
<1>6. CASE Mark(b) \in mid.recalled
  <2>1. Mark(b) \in dev.recalled /\ \A i \in DOMAIN active : b \in active[i] => i \notin {id}
    BY <1>3, <1>6, StoppedOwed
  <2>2. \A i \in DOMAIN active : b \notin active[i]
    BY <1>1, <1>5, <2>1
  <2> QED
    BY <1>1, <1>5, <2>1, <2>2 DEF Unowed, Promised
<1>7. CASE Mark(b) \notin mid.recalled
  <2>1. PICK x \in Recalling(mid, id, trigger) \cap mid.out : Mark(b) = Mark(x)
    BY <1>1, <1>4, <1>5, <1>7
  <2>2. x \in trigger /\ combos[id].recall /\ x \in mid.out
    BY <1>1, <2>1 DEF Recalling
  <2>3. x = b => NameOf[b] \notin combos[id].restore
    BY <1>1, <1>4, <1>5, <2>2
  <2> QED
    BY <1>3, <2>1, <2>2, <2>3 DEF RecalledForGood
<1> QED
  BY <1>6, <1>7

LEMMA PromisesStep ==
  ASSUME Typed, [Next]_vars
  PROVE  PromisesKept \/ UNCHANGED vars
<1>1. CASE UNCHANGED <<active, down, dev>>
  BY <1>1 DEF PromisesKept, Unowed, Promised, Mark
<1>2. CASE \E b \in Bindings, v \in 0..2 : Arrive(b, v)
  BY <1>2, PromisesArrive
<1>3. CASE \E d \in Devices : Decide(d)
  BY <1>3, PromisesDecide
<1>4. CASE \E id \in Ids : start_combo_action(id)
  BY <1>4, PromisesStart
<1>5. CASE \E id \in Ids : stop_combo_action(id)
  <2>1. PICK id \in Ids : stop_combo_action(id)
    BY <1>5
  <2>2. /\ down' = down /\ dev' = Stopped(dev, {id})
        /\ DOMAIN active' = DOMAIN active \ {id}
        /\ \A i \in DOMAIN active' : active'[i] = active[i]
    BY <2>1, StopFacts DEF JobKept
  <2> QED
    BY <2>2, StopKeeps
<1>6. CASE \E id \in Ids : DeadlinePasses(id)
  BY <1>1, <1>6 DEF DeadlinePasses
<1>7. CASE Finish
  <2>1. /\ job # None /\ dev' = Route(dev, job.event, job.consume, job.pass)
        /\ UNCHANGED <<active, down>>
    BY <1>7 DEF Finish
  <2>2. job.event \in Event /\ job.consume \in BOOLEAN /\ job.pass \in BOOLEAN /\ dev \in Dev
    BY <2>1 DEF Typed, TypeOK, Dev
  <2>3. dev'.recalled = dev.recalled
    BY <2>1, <2>2, RouteDev
  <2> QED
    BY <2>1, <2>3 DEF PromisesKept, Unowed, Promised, Mark
<1>8. CASE combo_timeout_watchdog
  BY <1>1, <1>8 DEF combo_timeout_watchdog
<1>9. CASE \E config \in Configurations : set_combos(config)
  <2>1. PICK config \in Configurations : set_combos(config)
    BY <1>9
  <2> DEFINE S == DOMAIN active \ unchanged_combo_ids(config)
  <2>2. /\ DOMAIN active' = DOMAIN active \ S
        /\ \A id \in DOMAIN active' : active'[id] = active[id]
        /\ down' = down /\ dev' = Stopped(dev, S)
    BY <2>1, SetFacts
  <2> QED
    BY <2>2, StopKeeps
<1>10. CASE \E d \in Devices : release_device(d)
  <2>1. PICK d \in Devices : release_device(d)
    BY <1>10
  <2> DEFINE stopping == {id \in InScope(d) : candidates[id].active}
             cleared == Stopped(dev, stopping)
  <2>2. /\ DOMAIN active' = DOMAIN active \ stopping
        /\ \A id \in DOMAIN active' : active'[id] = active[id]
        /\ down' \subseteq down
        /\ dev' = [out |-> {b \in cleared.out : DeviceOf[b] # d},
                   through |-> {b \in cleared.through : DeviceOf[b] # d},
                   routed |-> {b \in cleared.routed : DeviceOf[b] # d},
                   recalled |-> {m \in cleared.recalled : m[1] # d}]
    BY <2>1, ReleaseFacts
  <2>3. cleared = Stopped(dev, stopping)
    OBVIOUS
  <2> HIDE DEF cleared, stopping
  <2>4. dev'.recalled \subseteq cleared.recalled
    BY <2>2
  <2> QED
    BY <2>2, <2>3, <2>4, StopKeeps
<1>11. CASE \E d \in Devices : begin_combo_capture(d) \/ end_combo_capture(d)
  BY <1>1, <1>11 DEF begin_combo_capture, end_combo_capture
<1> QED
  BY <1>2, <1>3, <1>4, <1>5, <1>6, <1>7, <1>8, <1>9, <1>10, <1>11 DEF Next

\* SuppressedIsOwed: a modifier that is down comes to be marked as recalled with no
\* running action that has it in its restore list only from the start of an action
\* that does not restore it; no stop, edit, release of a device or overlapping combo
\* loses a promise, and a key pressed anew is not marked.  It holds of every set of
\* combos, of the default one with its built-in Ctrl+Alt+Esc too.
THEOREM MarksAreOwed == Spec => SuppressedIsOwed
<1>1. Typed /\ [Next]_vars => [PromisesKept]_vars
  BY PromisesStep
<1>2. Spec => [][PromisesKept]_vars
  BY <1>1, TypesHold, PTL DEF Spec
<1> QED
  BY <1>2, PTL DEF SuppressedIsOwed, PromisesKept

-----------------------------------------------------------------------------
(* An output is down only as long as its key. *)

\* The events on their way.
OnWay == {inbox[d] : d \in {x \in Devices : inbox[x] # None}}
           \cup (IF job # None THEN {job.event} ELSE {})

\* A press on its way is of a key whose output is up and that nothing will restore.
Fresh(e) ==
  e.v = 1 /\ e.b \notin Pulses =>
    e.b \notin dev.out /\ Mark(e.b) \notin dev.recalled /\ \A id \in DOMAIN active : e.b \notin active[id]

\* An event that is suppressed is the release of a key whose output is up.
Quiet(e) == e.suppress => e.v = 0 /\ e.b \notin dev.out

\* The outputs that are down are of live keys, remembered, and not marked.
OutputOK ==
  /\ dev.out \subseteq Live /\ dev.out \subseteq dev.through \cup dev.routed
  /\ \A b \in dev.out : Mark(b) \notin dev.recalled
  /\ \A e \in OnWay : Fresh(e) /\ Quiet(e)

\* The events on their way are of different devices, and agree with the keys.
LEMMA OnWayOK ==
  ASSUME Typed, Held
  PROVE  /\ \A e \in OnWay : /\ e \in Event /\ e.b \in Bindings /\ e.v \in 0..2
                             /\ e.suppress \in BOOLEAN /\ EventOK(e)
         /\ \A e, f \in OnWay : DeviceOf[e.b] = DeviceOf[f.b] => e = f
         /\ Leaving = {e.b : e \in {f \in OnWay : f.v = 0}}
<1>1. \A d \in Devices : inbox[d] # None =>
        inbox[d] \in Event /\ DeviceOf[inbox[d].b] = d /\ EventOK(inbox[d])
  BY DEF Typed, TypeOK, Held, KeysOK
<1>2. job # None => job.event \in Event /\ inbox[DeviceOf[job.event.b]] = None /\ EventOK(job.event)
  BY DEF Typed, TypeOK, Held, KeysOK
<1>3. \A e \in OnWay : e \in Event /\ EventOK(e)
  BY <1>1, <1>2 DEF OnWay
<1>4. \A e \in OnWay : e.b \in Bindings /\ e.v \in 0..2 /\ e.suppress \in BOOLEAN
  BY <1>3 DEF Event
<1>5. \A e, f \in OnWay : DeviceOf[e.b] = DeviceOf[f.b] => e = f
  BY <1>1, <1>2 DEF OnWay
<1>6. Leaving = {e.b : e \in {f \in OnWay : f.v = 0}}
  BY DEF Leaving, OnWay
<1> QED
  BY <1>3, <1>4, <1>5, <1>6

\* No wheel tick is at work.
LEMMA LiveKeys ==
  ASSUME Typed, Held
  PROVE  Live \subseteq Bindings \ Pulses
<1>1. Leaving \subseteq Bindings \ Pulses
  BY OnWayOK DEF EventOK
<1> QED
  BY <1>1 DEF Live, Uncaptured, Typed, TypeOK, Pulseless

\* What a step must show of the device's state, where out, through, recalled are
\* those after it.
LEMMA OutputNext ==
  ASSUME dev'.out \subseteq Live', dev'.out \subseteq dev'.through \cup dev'.routed,
         \A b \in dev'.out : Mark(b) \notin dev'.recalled,
         \A e \in OnWay' : Fresh(e)' /\ Quiet(e)'
  PROVE  OutputOK'
BY DEF OutputOK

\* Recalling keys releases their outputs.
LEMMA RecallsOut ==
  ASSUME OneOfName, Typed, Held, OutputOK, NEW S \in SUBSET Bindings,
         dev' = emit_combo_recalls(dev, S), UNCHANGED active,
         Live \subseteq Live', OnWay' \subseteq OnWay
  PROVE  OutputOK'
<1>1. /\ dev'.out = dev.out \ S /\ dev'.through = dev.through /\ dev'.routed = dev.routed
      /\ dev'.recalled = dev.recalled \cup {Mark(b) : b \in S \cap dev.out}
  BY RecallsDev DEF Typed, TypeOK, Dev
<1>2. \A b \in Bindings : Mark(b) \in dev'.recalled => Mark(b) \in dev.recalled \/ b \in S \cap dev.out
  BY <1>1 DEF OneOfName
<1>3. dev.out \subseteq Bindings
  BY DEF Typed, TypeOK
<1>4. \A e \in OnWay' : Fresh(e)' /\ Quiet(e)'
  BY <1>1, <1>2, OnWayOK DEF OutputOK, Fresh, Quiet
<1> QED
  BY <1>1, <1>2, <1>3, <1>4 DEF OutputOK

\* Restoring keys that are down presses outputs of live keys.
LEMMA StoppedOut ==
  ASSUME Typed, Held, OutputOK, NEW S, NEW r, r = Stopped(dev, S)
  PROVE  /\ r.out \subseteq Live /\ r.out \subseteq r.through \cup r.routed
         /\ r.recalled \subseteq dev.recalled
         /\ \A b \in r.out : Mark(b) \notin r.recalled
         /\ \A e \in OnWay : e.b \in r.out => e.b \in dev.out \/ e.v = 2
<1>1. /\ r.out = dev.out \cup (Owing(S) \cap down) /\ r.routed = dev.routed
      /\ r.through = dev.through \cup ((Owing(S) \cap down) \ dev.out)
      /\ r.recalled = dev.recalled \ {Mark(b) : b \in Owing(S)}
  BY StoppedDev DEF Typed, TypeOK, Dev
<1>2. Owing(S) \cap down \subseteq Live
  BY DEF Owing, Held, ActiveOK, Typed, Pulseless
<1>3. \A e \in OnWay : e.b \in Owing(S) \cap down => e.v = 2
  <2> SUFFICES ASSUME NEW e \in OnWay, e.b \in Owing(S), e.b \in down
               PROVE  e.v = 2
    OBVIOUS
  <2>1. e.v # 0 /\ e.v \in 0..2 /\ e.b \notin Pulses
    BY OnWayOK DEF EventOK, Typed, Pulseless
  <2>2. e.v # 1
    BY <2>1 DEF OutputOK, Fresh, Owing
  <2> QED
    BY <2>1, <2>2
<1> QED
  BY <1>1, <1>2, <1>3 DEF OutputOK

\* Stopping actions, when they are forgotten.
LEMMA StoppedKeeps ==
  ASSUME Typed, Held, OutputOK, NEW S, dev' = Stopped(dev, S),
         DOMAIN active' \subseteq DOMAIN active, \A id \in DOMAIN active' : active'[id] = active[id],
         Live \subseteq Live', OnWay' \subseteq OnWay
  PROVE  OutputOK'
<1>1. /\ dev'.out \subseteq Live /\ dev'.out \subseteq dev'.through \cup dev'.routed
      /\ dev'.recalled \subseteq dev.recalled
      /\ \A b \in dev'.out : Mark(b) \notin dev'.recalled
      /\ \A e \in OnWay : e.b \in dev'.out => e.b \in dev.out \/ e.v = 2
  BY StoppedOut
<1>2. \A e \in OnWay' : Fresh(e)' /\ Quiet(e)'
  BY <1>1 DEF OutputOK, Fresh, Quiet
<1> QED
  BY <1>1, <1>2 DEF OutputOK

LEMMA OutputStart ==
  ASSUME OneOfName, Typed, Held, OutputOK, NEW id, start_combo_action(id)
  PROVE  OutputOK'
<1> DEFINE mid == Stopped(dev, {id})
           trigger == job.start[id]
           recalled == combo_trigger_recall_state(mid, id, trigger)
           R == Recalling(mid, id, trigger)
<1>1. /\ job # None /\ JobKept /\ trigger \in SUBSET Bindings /\ combos[id].recall \in BOOLEAN
      /\ dev' = recalled.dev
      /\ DOMAIN active' = DOMAIN active \cup {id} /\ active'[id] = recalled.restore
      /\ \A i \in DOMAIN active \ {id} : active'[i] = active[i]
  BY StartFacts
<1>2. mid \in Dev
  BY StoppedDev DEF Typed, TypeOK, Dev
<1>3. recalled = combo_trigger_recall_state(mid, id, trigger) /\ mid = Stopped(dev, {id})
  OBVIOUS
<1> HIDE DEF mid, recalled, trigger
<1>4. /\ dev'.out = mid.out \ R /\ dev'.through = mid.through /\ dev'.routed = mid.routed
      /\ dev'.recalled = mid.recalled \cup {Mark(b) : b \in R \cap mid.out}
      /\ \A b \in active'[id] : b \in mid.out \/ Mark(b) \in mid.recalled
  <2>1. trigger \in SUBSET Bindings /\ combos[id].recall \in BOOLEAN
    BY <1>1
  <2>2. recalled = combo_trigger_recall_state(mid, id, trigger)
    BY <1>3
  <2>3. /\ recalled.dev.out = mid.out \ R /\ recalled.dev.through = mid.through
        /\ recalled.dev.routed = mid.routed
        /\ recalled.dev.recalled = mid.recalled \cup {Mark(b) : b \in R \cap mid.out}
        /\ recalled.restore = {b \in trigger : /\ combos[id].recall
                                               /\ b \in mid.out \/ Mark(b) \in mid.recalled
                                               /\ NameOf[b] \in combos[id].restore}
    BY <1>2, <2>1, <2>2, TriggerDev
  <2> QED
    BY <1>1, <2>3
<1>5. R \subseteq Bindings /\ mid.out \subseteq Bindings
  BY <1>1, <1>2 DEF Recalling, Dev
<1>6. /\ mid.out \subseteq Live /\ mid.out \subseteq mid.through \cup mid.routed
      /\ mid.recalled \subseteq dev.recalled
      /\ \A b \in mid.out : Mark(b) \notin mid.recalled
      /\ \A e \in OnWay : e.b \in mid.out => e.b \in dev.out \/ e.v = 2
  BY <1>3, StoppedOut
<1>7. job' # None /\ Live' = Live /\ OnWay' = OnWay
  <2>1. job' # None
    BY <1>1 DEF JobKept, None
  <2> QED
    BY <1>1, <2>1, SeenKept DEF JobKept, OnWay
<1> HIDE DEF R
<1>8. \A b \in Bindings : Mark(b) \in dev'.recalled => Mark(b) \in mid.recalled \/ b \in R \cap mid.out
  BY <1>4, <1>5 DEF OneOfName
<1>9. ASSUME NEW e \in OnWay, e.v = 1, e.b \notin Pulses
      PROVE  /\ e.b \notin dev'.out /\ Mark(e.b) \notin dev'.recalled
             /\ \A i \in DOMAIN active' : e.b \notin active'[i]
  <2>1. e.b \in Bindings
    BY OnWayOK
  <2>2. e.b \notin mid.out /\ Mark(e.b) \notin mid.recalled
    BY <1>6, <1>9 DEF OutputOK, Fresh
  <2>3. \A i \in DOMAIN active : e.b \notin active[i]
    BY <1>9 DEF OutputOK, Fresh
  <2>4. e.b \notin active'[id]
    BY <1>4, <2>2
  <2> QED
    BY <1>1, <1>4, <1>8, <2>1, <2>2, <2>3, <2>4
<1>10. \A e \in OnWay : Quiet(e)'
  BY <1>4, <1>6 DEF OutputOK, Quiet
<1>11. \A e \in OnWay' : Fresh(e)' /\ Quiet(e)'
  BY <1>7, <1>9, <1>10 DEF Fresh
<1>12. \A b \in dev'.out : Mark(b) \notin dev'.recalled
  BY <1>4, <1>5, <1>6, <1>8
<1>13. dev'.out \subseteq Live' /\ dev'.out \subseteq dev'.through \cup dev'.routed
  BY <1>4, <1>6, <1>7
<1> QED
  BY <1>11, <1>12, <1>13, OutputNext

\* An event that is routed: e is no longer on its way, or never was.
LEMMA RouteOut ==
  ASSUME Remembered, NEW d \in Dev, NEW e \in Event, NEW consume \in BOOLEAN, NEW pass \in BOOLEAN,
         NEW r, r = Route(d, e, consume, pass), NEW L,
         e.b \notin d.out \/ e.b \notin Pulses,
         d.out \subseteq d.through \cup d.routed,
         \A b \in d.out : Mark(b) \notin d.recalled,
         e.suppress => e.v = 0 /\ e.b \notin d.out,
         e.v = 1 /\ e.b \notin Pulses => Mark(e.b) \notin d.recalled,
         e.v # 0 /\ e.b \notin Pulses => e.b \in L, d.out \ {e.b} \subseteq L
  PROVE  /\ r.out \subseteq L /\ r.out \subseteq r.through \cup r.routed
         /\ \A b \in r.out : Mark(b) \notin r.recalled
         /\ r.recalled = d.recalled /\ r.out \ {e.b} = d.out \ {e.b}
<1>1. /\ r.recalled = d.recalled /\ r.out \ {e.b} = d.out \ {e.b}
      /\ r.through \ {e.b} = d.through \ {e.b} /\ r.routed \ {e.b} = d.routed \ {e.b}
      /\ e.b \in Pulses => r.out = d.out
      /\ e.b \in r.out => e.b \in d.out \/ e.v = 1
      /\ e.b \in r.out /\ e.v = 0 /\ e.b \notin Pulses /\ ~e.suppress =>
           e.b \notin d.through \cup d.routed
      /\ e.b \in r.out /\ e.v # 0 /\ ~e.suppress =>
           \/ e.b \in d.out /\ (e.b \in d.through => e.b \in r.through)
                            /\ (e.b \in d.routed => e.b \in r.routed)
           \/ e.b \in r.through
           \/ DeviceOf[e.b] \in Mapped => e.b \in r.routed
  BY RouteDev
<1>2. e.b \in Bindings /\ e.v \in 0..2 /\ DeviceOf[e.b] \in Mapped
  BY ComboAssumption DEF Event, Remembered
<1>3. e.b \in r.out => /\ e.b \notin Pulses /\ e.v # 0 /\ ~e.suppress /\ e.b \in L
                       /\ e.b \in r.through \cup r.routed /\ Mark(e.b) \notin r.recalled
  <2> SUFFICES ASSUME e.b \in r.out
               PROVE  /\ e.b \notin Pulses /\ e.v # 0 /\ ~e.suppress /\ e.b \in L
                      /\ e.b \in r.through \cup r.routed /\ Mark(e.b) \notin r.recalled
    OBVIOUS
  <2>1. e.b \notin Pulses
    BY <1>1
  <2>2. ~e.suppress
    BY <1>1
  <2>3. e.v # 0
    BY <1>1, <2>1, <2>2
  <2>4. e.b \in r.through \cup r.routed
    BY <1>1, <1>2, <2>2, <2>3
  <2>5. Mark(e.b) \notin r.recalled
    BY <1>1, <2>1
  <2> QED
    BY <2>1, <2>2, <2>3, <2>4, <2>5
<1>4. \A b \in r.out : b # e.b => /\ b \in d.out /\ b \in L /\ b \in r.through \cup r.routed
                                  /\ Mark(b) \notin r.recalled
  BY <1>1
<1> QED
  BY <1>1, <1>3, <1>4

LEMMA OutputFinish ==
  ASSUME Remembered, Typed, Held, OutputOK, Finish
  PROVE  OutputOK'
<1> DEFINE e == job.event
<1>1. /\ job # None /\ job' = None /\ dev' = Route(dev, e, job.consume, job.pass)
      /\ UNCHANGED <<active, down, inbox, capture>>
  BY DEF Finish
<1>2. e \in Event /\ job.consume \in BOOLEAN /\ job.pass \in BOOLEAN /\ dev \in Dev
  BY <1>1 DEF Typed, TypeOK, Dev
<1>3. e \in OnWay /\ EventOK(e) /\ Fresh(e) /\ Quiet(e)
  BY <1>1, OnWayOK DEF OnWay, OutputOK
<1>4. OnWay' \subseteq OnWay /\ e \notin OnWay'
  <2>1. OnWay' = {inbox[d] : d \in {x \in Devices : inbox[x] # None}}
    BY <1>1 DEF OnWay
  <2>2. \A d \in Devices : inbox[d] # None => inbox[d] # e
    BY <1>1 DEF Held, KeysOK
  <2> QED
    BY <2>1, <2>2 DEF OnWay
<1>5. Live' = Uncaptured(down \cup Unread) /\ Live \ {e.b} \subseteq Live'
  BY <1>1, LeavingOf, LeavingOfNext, SeenKept DEF Live, Uncaptured
<1>6. e.v # 0 /\ e.b \notin Pulses => e.b \in Live'
  BY <1>1, <1>3, <1>5 DEF EventOK, Uncaptured, Held, CaptureOK
<1>7. e.b \notin dev.out \/ e.b \notin Pulses
  BY LiveKeys DEF OutputOK
<1> HIDE DEF e
<1>8. /\ dev'.out \subseteq Live' /\ dev'.out \subseteq dev'.through \cup dev'.routed
      /\ \A b \in dev'.out : Mark(b) \notin dev'.recalled
      /\ dev'.recalled = dev.recalled /\ dev'.out \ {e.b} = dev.out \ {e.b}
  <2>1. /\ dev.out \subseteq dev.through \cup dev.routed
        /\ \A b \in dev.out : Mark(b) \notin dev.recalled
        /\ e.suppress => e.v = 0 /\ e.b \notin dev.out
        /\ e.v = 1 /\ e.b \notin Pulses => Mark(e.b) \notin dev.recalled
        /\ dev.out \ {e.b} \subseteq Live'
    BY <1>3, <1>5 DEF OutputOK, Fresh, Quiet
  <2> QED
    BY <1>1, <1>2, <1>6, <1>7, <2>1, RouteOut
<1>9. \A f \in OnWay' : f \in OnWay /\ f.b # e.b
  BY <1>3, <1>4, OnWayOK
<1>10. \A f \in OnWay' : Fresh(f)' /\ Quiet(f)'
  BY <1>1, <1>8, <1>9 DEF OutputOK, Fresh, Quiet
<1> QED
  BY <1>8, <1>10, OutputNext

LEMMA OutputArrive ==
  ASSUME Remembered, Typed, Held, OutputOK, NEW b \in Bindings, NEW v \in 0..2, Arrive(b, v)
  PROVE  OutputOK'
<1> DEFINE d == DeviceOf[b]
           e == [b |-> b, v |-> v, suppress |-> Recalled(b) /\ v = 0]
           taken == intercept_recalled_event(b)
<1>1. d \in Devices /\ e \in Event /\ e.v = v /\ e.b = b /\ e.suppress = (Recalled(b) /\ v = 0)
  BY ComboAssumption DEF Event, Recalled
<1>2. /\ inbox[d] = None /\ Possible(b, v) /\ ~(job # None /\ DeviceOf[job.event.b] = d)
      /\ down' = Observed(b, v) /\ UNCHANGED <<combos, active, job, capture>>
      /\ \/ d \in capture /\ dev' = clear_released_source_action(taken, e) /\ UNCHANGED inbox
         \/ d \notin capture /\ combos = <<>> /\ dev' = Route(taken, e, FALSE, FALSE)
            /\ UNCHANGED inbox
         \/ d \notin capture /\ combos # <<>> /\ dev' = taken
            /\ inbox' = [inbox EXCEPT ![d] = e]
  BY DEF Arrive
<1>3. taken = intercept_recalled_event(b) /\ e # None
  BY DEF None
<1> HIDE DEF e, d, taken
<1>4. /\ taken \in Dev /\ taken.out = dev.out /\ taken.routed = dev.routed
      /\ taken.recalled = IF Recalled(b) THEN dev.recalled \ {Mark(b)} ELSE dev.recalled
      /\ taken.through = IF Recalled(b) THEN dev.through \ {b} ELSE dev.through
  BY <1>3, InterceptDev DEF Typed, TypeOK, Dev
<1>5. Recalled(b) => b \notin dev.out
  BY DEF Recalled, OutputOK
<1>6. /\ taken.out \subseteq taken.through \cup taken.routed
      /\ \A x \in taken.out : Mark(x) \notin taken.recalled
      /\ taken.recalled \subseteq dev.recalled
      /\ b \notin Pulses => Mark(b) \notin taken.recalled
  BY <1>4, <1>5 DEF OutputOK, Recalled
<1>7. \A f \in OnWay : f.b # b
  BY <1>2 DEF OnWay, Held, KeysOK, d
<1>8. b \notin Leaving
  BY <1>7, OnWayOK
<1>9. \A x : x # b => (x \in down' <=> x \in down)
  BY <1>2 DEF Observed
<1>10. v # 0 /\ b \notin Pulses => b \in down'
  BY <1>2 DEF Observed, Possible
<1>11. ASSUME dev'.out \ {b} \subseteq dev.out, dev'.recalled \subseteq dev.recalled
       PROVE  \A f \in OnWay : Fresh(f)' /\ Quiet(f)'
  BY <1>2, <1>7, <1>11 DEF OutputOK, Fresh, Quiet
<1>12. CASE UNCHANGED inbox
  <2>1. OnWay' = OnWay /\ Leaving' = Leaving
    BY <1>2, <1>12 DEF OnWay, Leaving
  <2>2. Live \ {b} \subseteq Live' /\ (v # 0 /\ b \notin Pulses /\ d \notin capture => b \in Live')
    BY <1>2, <1>9, <1>10, <2>1 DEF Live, Uncaptured, d
  <2>3. CASE dev' = clear_released_source_action(taken, e) /\ d \in capture
    <3>1. b \notin dev.out
      BY <2>3 DEF OutputOK, Live, Uncaptured, d
    <3>2. /\ dev'.out = dev.out /\ dev'.recalled = taken.recalled /\ dev'.through = taken.through
          /\ dev'.routed = IF e.v = 0 THEN taken.routed \ {e.b} ELSE taken.routed
      BY <1>1, <1>4, <2>3, ClearDev
    <3>3. dev'.out \subseteq dev'.through \cup dev'.routed
      BY <1>1, <1>4, <1>6, <3>1, <3>2
    <3>4. \A x \in dev'.out : Mark(x) \notin dev'.recalled
      BY <1>4, <1>6, <3>2
    <3>5. dev'.out \subseteq Live'
      BY <2>2, <3>1, <3>2 DEF OutputOK
    <3>6. \A f \in OnWay' : Fresh(f)' /\ Quiet(f)'
      BY <1>6, <1>11, <2>1, <3>2
    <3> QED
      BY <3>3, <3>4, <3>5, <3>6, OutputNext
  <2>4. CASE dev' = Route(taken, e, FALSE, FALSE) /\ d \notin capture
    <3>1. /\ dev'.out \subseteq Live' /\ dev'.out \subseteq dev'.through \cup dev'.routed
          /\ \A x \in dev'.out : Mark(x) \notin dev'.recalled
          /\ dev'.recalled = taken.recalled /\ dev'.out \ {e.b} = taken.out \ {e.b}
      <4>1. e.b \notin taken.out \/ e.b \notin Pulses
        BY <1>4, LiveKeys DEF OutputOK
      <4>2. e.suppress => e.v = 0 /\ e.b \notin taken.out
        BY <1>1, <1>4, <1>5
      <4>3. e.v = 1 /\ e.b \notin Pulses => Mark(e.b) \notin taken.recalled
        BY <1>1, <1>6
      <4>4. (e.v # 0 /\ e.b \notin Pulses => e.b \in Live') /\ taken.out \ {e.b} \subseteq Live'
        BY <1>1, <1>4, <2>2, <2>4 DEF OutputOK
      <4>5. /\ e \in Event /\ taken \in Dev /\ dev' = Route(taken, e, FALSE, FALSE)
            /\ taken.out \subseteq taken.through \cup taken.routed
            /\ \A x \in taken.out : Mark(x) \notin taken.recalled
        BY <1>1, <1>4, <1>6, <2>4
      <4> QED
        BY <4>1, <4>2, <4>3, <4>4, <4>5, RouteOut
    <3>2. \A f \in OnWay' : Fresh(f)' /\ Quiet(f)'
      BY <1>1, <1>4, <1>6, <1>11, <2>1, <3>1
    <3> QED
      BY <3>1, <3>2, OutputNext
  <2> QED
    <3>1. inbox' # [inbox EXCEPT ![d] = e]
      BY <1>1, <1>2, <1>3, <1>12 DEF Typed, TypeOK
    <3> QED
      BY <1>2, <2>3, <2>4, <3>1
<1>13. CASE d \notin capture /\ dev' = taken /\ inbox' = [inbox EXCEPT ![d] = e]
  <2>1. inbox'[d] = e /\ \A x \in Devices \ {d} : inbox'[x] = inbox[x]
    BY <1>1, <1>13 DEF Typed, TypeOK
  <2>2. OnWay' = OnWay \cup {e}
    BY <1>1, <1>2, <1>3, <2>1 DEF OnWay
  <2>3. v = 0 => b \in Leaving'
    BY <1>1, <1>3, <2>1 DEF Leaving
  <2>4. Leaving \subseteq Leaving'
    BY <1>1, <1>2, <2>1 DEF Leaving
  <2>5. b \in dev.out => b \in down
    BY <1>8 DEF OutputOK, Live, Uncaptured
  <2>6. Live \subseteq Live'
    <3>1. b \notin Pulses => b \in down' \cup Leaving'
      BY <1>10, <2>3
    <3>2. b \in Live => b \notin Pulses
      BY LiveKeys
    <3> QED
      BY <1>2, <1>9, <2>4, <3>1, <3>2 DEF Live, Uncaptured
  <2>7. ASSUME NEW f, f = e
        PROVE  Fresh(f)'
    <3> SUFFICES ASSUME v = 1, b \notin Pulses
                 PROVE  /\ b \notin dev'.out /\ Mark(b) \notin dev'.recalled
                        /\ \A id \in DOMAIN active' : b \notin active'[id]
      BY <1>1, <2>7 DEF Fresh
    <3>1. b \notin Live
      BY <1>2, <1>8 DEF Possible, Live, Uncaptured
    <3> QED
      BY <1>2, <1>4, <1>6, <1>13, <3>1 DEF OutputOK, Held, ActiveOK
  <2>8. ASSUME NEW f, f = e
        PROVE  Quiet(f)'
    BY <1>1, <1>4, <1>5, <1>13, <2>8 DEF Quiet
  <2>9. \A f \in OnWay' : Fresh(f)' /\ Quiet(f)'
    BY <1>4, <1>6, <1>11, <1>13, <2>2, <2>7, <2>8
  <2>10. dev'.out \subseteq Live'
    BY <1>4, <1>13, <2>6 DEF OutputOK
  <2> QED
    BY <1>6, <1>13, <2>9, <2>10, OutputNext
<1> QED
  BY <1>2, <1>12, <1>13

LEMMA OutputDecide ==
  ASSUME OneOfName, Typed, Held, OutputOK, NEW d \in Devices, Decide(d)
  PROVE  OutputOK'
<1> DEFINE e == inbox[d]
           alive == expire_timeouts(candidates)
<1>1. PICK o :
        /\ OutcomeOK(o, alive, e.b, Known(e, Bindings))
        /\ dev' = emit_combo_recalls(dev, o.recall)
        /\ job' = [event |-> e, start |-> o.start, stop |-> o.stop,
                   once |-> {id \in DOMAIN o.start : e.b \in Pulses \/ ~combos[id].held},
                   consume |-> o.consume, pass |-> o.pass]
  <2>1. /\ held \subseteq Bindings /\ down \subseteq Bindings /\ e.b \in Bindings
        /\ CandidatesOK(candidates, Bindings)
    BY DEF Typed, TypeOK, Event, Decide
  <2> QED
    BY <2>1, DecideOutcome
<1>2. o.recall \in SUBSET Bindings
  BY <1>1 DEF OutcomeOK
<1>3. /\ job = None /\ inbox[d] # None /\ inbox' = [inbox EXCEPT ![d] = None]
      /\ UNCHANGED <<active, down, capture>>
  BY DEF Decide
<1>4. job'.event = e /\ job' # None
  BY <1>1 DEF None
<1>5. inbox'[d] = None /\ \A x \in Devices \ {d} : inbox'[x] = inbox[x]
  BY <1>3 DEF Typed, TypeOK
<1>6. OnWay' = OnWay
  BY <1>3, <1>4, <1>5 DEF OnWay
<1>7. Leaving \subseteq Leaving'
  BY <1>3, <1>4, <1>5 DEF Leaving
<1>8. Live \subseteq Live'
  BY <1>3, <1>7 DEF Live, Uncaptured
<1> QED
  BY <1>1, <1>2, <1>3, <1>6, <1>8, RecallsOut

LEMMA OutputRelease ==
  ASSUME CapturesApart, Typed, Held, OutputOK, NEW d \in Devices, release_device(d)
  PROVE  OutputOK'
<1> DEFINE stopping == {id \in InScope(d) : candidates[id].active}
           cleared == Stopped(dev, stopping)
<1>1. /\ job = None /\ capture = {} /\ DOMAIN active' = DOMAIN active \ stopping
      /\ \A id \in DOMAIN active' : active'[id] = active[id]
      /\ down' = {b \in down : DeviceOf[b] # d}
      /\ inbox' = [inbox EXCEPT ![d] = None] /\ UNCHANGED <<job, capture>>
  BY ReleaseFacts DEF CapturesApart
<1>2. dev' = [out |-> {b \in cleared.out : DeviceOf[b] # d},
              through |-> {b \in cleared.through : DeviceOf[b] # d},
              routed |-> {b \in cleared.routed : DeviceOf[b] # d},
              recalled |-> {m \in cleared.recalled : m[1] # d}]
  BY ReleaseFacts
<1>3. /\ cleared.out \subseteq Live /\ cleared.out \subseteq cleared.through \cup cleared.routed
      /\ cleared.recalled \subseteq dev.recalled
      /\ \A b \in cleared.out : Mark(b) \notin cleared.recalled
      /\ \A e \in OnWay : e.b \in cleared.out => e.b \in dev.out \/ e.v = 2
  <2>1. cleared = Stopped(dev, stopping)
    OBVIOUS
  <2> HIDE DEF cleared, stopping
  <2> QED
    BY <2>1, StoppedOut
<1> HIDE DEF cleared
<1>4. /\ dev'.out = {b \in cleared.out : DeviceOf[b] # d}
      /\ dev'.through = {b \in cleared.through : DeviceOf[b] # d}
      /\ dev'.routed = {b \in cleared.routed : DeviceOf[b] # d}
      /\ dev'.recalled \subseteq cleared.recalled
  BY <1>2
<1>5. inbox'[d] = None /\ \A x \in Devices \ {d} : inbox'[x] = inbox[x]
  BY <1>1 DEF Typed, TypeOK
<1>6. OnWay' \subseteq OnWay
  BY <1>1, <1>5 DEF OnWay
<1>7. \A b \in Leaving : DeviceOf[b] # d => b \in Leaving'
  BY <1>1, <1>5 DEF Leaving, Held, KeysOK
<1>8. \A b \in Live : DeviceOf[b] # d => b \in Live'
  BY <1>1, <1>7 DEF Live, Uncaptured
<1>9. \A e \in OnWay' : Fresh(e)' /\ Quiet(e)'
  BY <1>1, <1>3, <1>4, <1>6 DEF OutputOK, Fresh, Quiet
<1> QED
  BY <1>3, <1>4, <1>8, <1>9, OutputNext

\* The steps that leave the devices and the actions as they are.
LEMMA OutputKept ==
  ASSUME OutputOK, UNCHANGED <<dev, active, inbox, job>>, Live \subseteq Live'
  PROVE  OutputOK'
<1>1. OnWay' = OnWay
  BY DEF OnWay
<1> QED
  BY <1>1 DEF OutputOK, Fresh, Quiet

LEMMA OutputStep ==
  ASSUME CapturesApart, Remembered, OneOfName, Typed, Held, OutputOK, [Next]_vars
  PROVE  OutputOK'
<1>1. ASSUME UNCHANGED <<dev, active, inbox, job, down, capture>>
      PROVE  OutputOK'
  <2>1. Live' = Live
    BY <1>1 DEF Live, Leaving, Uncaptured
  <2> QED
    BY <1>1, <2>1, OutputKept
<1>2. CASE UNCHANGED vars
  BY <1>1, <1>2 DEF vars
<1>3. CASE \E b \in Bindings, v \in 0..2 : Arrive(b, v)
  BY <1>3, OutputArrive
<1>4. CASE \E d \in Devices : Decide(d)
  BY <1>4, OutputDecide
<1>5. CASE \E id \in Ids : start_combo_action(id)
  BY <1>5, OutputStart
<1>6. CASE \E id \in Ids : stop_combo_action(id)
  <2>1. PICK id \in Ids : stop_combo_action(id)
    BY <1>6
  <2>2. /\ job # None /\ JobKept /\ dev' = Stopped(dev, {id})
        /\ DOMAIN active' = DOMAIN active \ {id}
        /\ \A i \in DOMAIN active' : active'[i] = active[i]
    BY <2>1, StopFacts
  <2>3. job' # None
    BY <2>2 DEF JobKept, None
  <2>4. Live' = Live /\ OnWay' = OnWay
    BY <2>2, <2>3, SeenKept DEF JobKept, OnWay
  <2> QED
    BY <2>2, <2>4, StoppedKeeps
<1>7. CASE \E id \in Ids : DeadlinePasses(id)
  BY <1>1, <1>7 DEF DeadlinePasses
<1>8. CASE Finish
  BY <1>8, OutputFinish
<1>9. CASE combo_timeout_watchdog
  BY <1>1, <1>9 DEF combo_timeout_watchdog
<1>10. CASE \E config \in Configurations : set_combos(config)
  <2>1. PICK config \in Configurations : set_combos(config)
    BY <1>10
  <2> DEFINE S == DOMAIN active \ unchanged_combo_ids(config)
  <2>2. /\ dev' = Stopped(dev, S)
        /\ DOMAIN active' \subseteq DOMAIN active
        /\ \A id \in DOMAIN active' : active'[id] = active[id]
        /\ UNCHANGED <<down, inbox, job, capture>>
    BY <2>1, SetFacts
  <2>3. Live' = Live /\ OnWay' = OnWay
    BY <2>2 DEF Live, Leaving, Uncaptured, OnWay
  <2> HIDE DEF S
  <2> QED
    BY <2>2, <2>3, StoppedKeeps
<1>11. CASE \E d \in Devices : release_device(d)
  BY <1>11, OutputRelease
<1>12. CASE \E d \in Devices : begin_combo_capture(d) \/ end_combo_capture(d)
  <2>1. PICK d \in Devices : begin_combo_capture(d) \/ end_combo_capture(d)
    BY <1>12
  <2>2. UNCHANGED <<dev, active, inbox, job, down>>
    BY <2>1 DEF begin_combo_capture, end_combo_capture
  <2>3. Leaving' = Leaving
    BY <2>2 DEF Leaving
  <2>4. Live \subseteq Live'
    <3>1. CASE begin_combo_capture(d)
      <4>1. capture' = capture \cup {d} /\ \A b \in down \cup Leaving : DeviceOf[b] # d
        BY <3>1 DEF begin_combo_capture, CapturesApart
      <4> QED
        BY <2>2, <2>3, <4>1 DEF Live, Uncaptured
    <3>2. CASE end_combo_capture(d)
      <4>1. capture' \subseteq capture
        BY <3>2 DEF end_combo_capture
      <4> QED
        BY <2>2, <2>3, <4>1 DEF Live, Uncaptured
    <3> QED
      BY <2>1, <3>1, <3>2
  <2> QED
    BY <2>2, <2>4, OutputKept
<1> QED
  BY <1>2, <1>3, <1>4, <1>5, <1>6, <1>7, <1>8, <1>9, <1>10, <1>11, <1>12 DEF Next

\* NoStuckOutput: where every device remembers what it passes, a device has one
\* input of each name and no capture overlaps a held key, an output that was
\* passed or restored is down only as long as its key is, or its release is on its
\* way; no recall, restore, edit or release of a device leaves it pressed.
THEOREM OutputsReleased ==
  CapturesApart /\ Remembered /\ OneOfName => (Spec => []NoStuckOutput)
<1> SUFFICES ASSUME CapturesApart, Remembered, OneOfName
             PROVE  Spec => []NoStuckOutput
  OBVIOUS
<1>1. Init => OutputOK
  BY DEF Init, OutputOK, OnWay
<1>2. Typed /\ Held /\ OutputOK /\ [Next]_vars => OutputOK'
  BY OutputStep
<1>3. OutputOK => NoStuckOutput
  BY DEF OutputOK, NoStuckOutput, Live, Uncaptured
<1>4. Spec => [](Typed /\ Held)
  BY HeldAlways
<1> QED
  BY <1>1, <1>2, <1>3, <1>4, PTL DEF Spec

=============================================================================
