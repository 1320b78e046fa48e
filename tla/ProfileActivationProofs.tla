---------------------- MODULE ProfileActivationProofs ----------------------
(***************************************************************************)
(* Proofs about the temporary activations of profiles, for every set of    *)
(* keys and profiles, every binding and every number of presses and        *)
(* faults:                                                                 *)
(*                                                                         *)
(*   AppliedIsActive    what was applied last is what is active, once no   *)
(*                      apply and no change is under way                   *)
(*   ActivationsTracked when nothing is under way, the daemon tracks what  *)
(*                      the session still activates                        *)
(*   EndsWithReason     a deactivation request ends an activation for that *)
(*                      activation's own reason only                       *)
(*                                                                         *)
(* One lemma per action shows that it preserves the inductive invariant    *)
(* Inv: what the action does to the records first, then each conjunct.     *)
(***************************************************************************)
EXTENDS ProfileActivation, FiniteSetTheorems, TLAPS

Reasons == {"trigger_end", "action_count", "timeout"}
Events == [kind : {"trigger"}, id : Nat] \cup [kind : {"reset"}]
Commands == [kind : {"track", "cancel"}, id : Nat, handler : Nat]
DaemonFields == {"active", "trackers", "byProfile", "resetting"}
SessionFields == {"acts", "enabled", "apply", "resolved", "applied"}
Tasks == [pc : Pcs, off : BOOLEAN]

\* The fields of the two records, the messages and the tasks.
Shapes ==
    /\ presses \in Seq(Keys) /\ Len(presses) <= MaxPresses /\ faults \in 0..MaxFaults
    /\ DOMAIN daemon = DaemonFields /\ DOMAIN session = SessionFields
    /\ \A n \in DOMAIN handlers : handlers[n] \in Tasks
    /\ queue \in Seq(Events) /\ commands \in Seq(Commands)
    /\ expiries \subseteq [id : Nat, reason : Reasons]

\* Everything that names an activation names a press that happened.
NamesPresses ==
    /\ daemon.active \subseteq Keys
    /\ DOMAIN handlers \subseteq DOMAIN presses
    /\ \A i \in DOMAIN queue : queue[i].kind = "trigger" => queue[i].id \in DOMAIN presses
    /\ \A i \in DOMAIN commands : commands[i].id \in DOMAIN presses
    /\ \A e \in expiries : e.id \in DOMAIN presses
    /\ DOMAIN daemon.trackers \subseteq DOMAIN presses
    /\ overtaken \subseteq DOMAIN presses

\* The session's records; an activation is one of its profile.
SessionInv ==
    /\ \A p \in DOMAIN session.acts :
         /\ session.acts[p] \in DOMAIN presses
         /\ Profile(session.acts[p]) = p
    /\ session.enabled \subseteq Profiles /\ session.resolved \subseteq Profiles
    /\ session.applied \subseteq Profiles
    /\ session.apply \in {"idle", "new", "applying"}

\* The tracker's two indexes agree: one tracker per profile.
IndexInv ==
    /\ \A p \in DOMAIN daemon.byProfile :
         /\ daemon.byProfile[p] \in DOMAIN daemon.trackers
         /\ Profile(daemon.byProfile[p]) = p
    /\ \A n \in DOMAIN daemon.trackers :
         /\ Profile(n) \in DOMAIN daemon.byProfile
         /\ daemon.byProfile[Profile(n)] = n

\* An apply that is not replaced yet has resolved what is active, unless a task
\* is about to replace it.
ApplyInv ==
    /\ session.apply = "idle" /\ ~Changing => session.applied = Active
    /\ session.apply = "applying" /\ ~Changing => session.resolved = Active

\* A trigger that waits in the queue has caused nothing yet.
FreshInv ==
    \A i \in DOMAIN queue : queue[i].kind = "trigger" =>
        /\ queue[i].id \notin DOMAIN handlers
        /\ \A j \in DOMAIN commands : commands[j].id # queue[i].id
        /\ \A p \in DOMAIN session.acts : session.acts[p] # queue[i].id
        /\ \A j \in DOMAIN queue : j # i /\ queue[j].kind = "trigger" => queue[j].id # queue[i].id

\* An activation whose CANCEL is on its way is no longer the session's.
CancelInv ==
    \A i \in DOMAIN commands : commands[i].kind = "cancel" =>
        \A p \in DOMAIN session.acts : session.acts[p] # commands[i].id

\* A reset clears all activations once the session hears of it.
ResetPending == daemon.resetting \/ \E i \in DOMAIN queue : queue[i].kind = "reset"

\* No TRACK from the i-th command on is for profile p.
NoTrackFrom(p, i) ==
    \A j \in DOMAIN commands :
        j >= i /\ commands[j].kind = "track" => Profile(commands[j].id) # p

\* Activation n of p is about to be tracked, has its TRACK on the way, is tracked
\* or has expired.
OnItsWay(p, n) ==
    \/ n \in DOMAIN handlers /\ handlers[n].pc = "applying"
    \/ \E e \in expiries : e.id = n
    \/ \E i \in DOMAIN commands :
         commands[i].kind = "track" /\ commands[i].id = n /\ NoTrackFrom(p, i + 1)
    \/ n \in DOMAIN daemon.trackers /\ NoTrackFrom(p, 1)

TrackInv ==
    \A p \in DOMAIN session.acts :
        ResetPending \/ session.acts[p] \in overtaken \/ OnItsWay(p, session.acts[p])

\* The presses that count for activation n.
Later(n) == {m \in DOMAIN presses : m > n /\ Key(m) # Key(n)}

\* A tracker has counted no more than the presses of other keys since its own.
CountInv ==
    \A n \in DOMAIN daemon.trackers :
        daemon.trackers[n] \in Nat /\ daemon.trackers[n] <= Cardinality(Later(n))

\* What has expired had its reason, and still has it.
ReasonInv ==
    \A e \in expiries :
        /\ e.reason = "trigger_end" => "trigger_end" \in Policy(e.id).ends /\ Lifted(e.id)
        /\ e.reason = "action_count" =>
             Policy(e.id).after > 0 /\ Cardinality(Later(e.id)) >= Policy(e.id).after

Inv ==
    /\ Shapes /\ NamesPresses /\ SessionInv /\ IndexInv /\ ApplyInv /\ FreshInv /\ CancelInv
    /\ TrackInv /\ CountInv /\ ReasonInv
-----------------------------------------------------------------------------
\* What the bindings of a press are.
LEMMA PressFacts ==
    ASSUME Shapes, NEW n \in DOMAIN presses
    PROVE  /\ Key(n) \in Keys /\ Profile(n) \in Profiles
           /\ Policy(n).after \in Nat /\ Policy(n) = Binding[Key(n)]
           /\ n \in 1..Len(presses) /\ n \in Nat
BY ActivationAssumption DEF Shapes, Key, Profile, Policy

\* What is left of the tracker d when the trackers ids are dropped.
LEMMA CancelFacts ==
    ASSUME NEW d, NEW ids, DOMAIN d = DaemonFields
    PROVE  LET c == cancel(d, ids)
           IN /\ DOMAIN c = DaemonFields
              /\ c.active = d.active /\ c.resetting = d.resetting
              /\ DOMAIN c.trackers = DOMAIN d.trackers \ ids
              /\ \A n \in DOMAIN c.trackers : c.trackers[n] = d.trackers[n]
              /\ DOMAIN c.byProfile = {p \in DOMAIN d.byProfile : d.byProfile[p] \notin ids}
              /\ \A p \in DOMAIN c.byProfile : c.byProfile[p] = d.byProfile[p]
<1> DEFINE t == Without(d.trackers, ids)
           b == Without(d.byProfile, {p \in DOMAIN d.byProfile : d.byProfile[p] \in ids})
<1>1. cancel(d, ids) = [d EXCEPT !.trackers = t, !.byProfile = b]
  BY DEF cancel
<1>2. DOMAIN t = DOMAIN d.trackers \ ids /\ \A n \in DOMAIN t : t[n] = d.trackers[n]
  BY DEF Without
<1>3. /\ DOMAIN b = {p \in DOMAIN d.byProfile : d.byProfile[p] \notin ids}
      /\ \A p \in DOMAIN b : b[p] = d.byProfile[p]
  BY DEF Without
<1> HIDE DEF t, b
<1> DEFINE c == cancel(d, ids)
<1>4. /\ DOMAIN c = DaemonFields /\ c.active = d.active /\ c.trackers = t
      /\ c.byProfile = b /\ c.resetting = d.resetting
  BY <1>1 DEF DaemonFields
<1> HIDE DEF c
<1> QED
  BY <1>2, <1>3, <1>4 DEF c

\* The invariants of the daemon's side hold where a task of the session runs.
LEMMA DaemonSideKept ==
    ASSUME IndexInv, CountInv, ReasonInv, UNCHANGED <<daemon, presses>>,
           expiries' \subseteq expiries
    PROVE  IndexInv' /\ CountInv' /\ ReasonInv'
<1>1. IndexInv'
  BY DEF IndexInv, Profile, Policy, Key
<1>2. CountInv'
  BY DEF CountInv, Later, Key
<1>3. ReasonInv'
  BY DEF ReasonInv, Lifted, Later, Key, Policy
<1> QED
  BY <1>1, <1>2, <1>3

\* Task n has gone on to pc; or it has ended.
Moves(n, pc) ==
    /\ DOMAIN handlers' = DOMAIN handlers \cup {n}
    /\ handlers'[n] \in Tasks /\ handlers'[n].pc = pc
    /\ \A m \in DOMAIN handlers \ {n} : handlers'[m] = handlers[m]

Ends(n) ==
    /\ DOMAIN handlers' = DOMAIN handlers \ {n}
    /\ \A m \in DOMAIN handlers' : handlers'[m] = handlers[m]

\* A handler that goes on is at its next await and keeps its activation.
LEMMA GoMoves ==
    ASSUME NEW n, NEW pc \in Pcs, Go(n, pc)
    PROVE  Moves(n, pc)
<1> DEFINE t == [pc |-> pc, off |-> FALSE]
<1>1. t \in Tasks /\ t.pc = pc
  BY DEF Tasks
<1> HIDE DEF t
<1> QED
  BY <1>1 DEF Go, With, Moves, t

\* The same of a handler whose whole record is written.
LEMMA PutMoves ==
    ASSUME NEW n \in DOMAIN handlers, NEW t \in Tasks, handlers' = [handlers EXCEPT ![n] = t]
    PROVE  Moves(n, t.pc)
BY DEF Moves

\* The same of a handler of which only the await changes.
LEMMA StepMoves ==
    ASSUME NEW n \in DOMAIN handlers, handlers[n] \in Tasks, NEW pc \in Pcs,
           handlers' = [handlers EXCEPT ![n].pc = pc]
    PROVE  Moves(n, pc)
<1> DEFINE t == [handlers[n] EXCEPT !.pc = pc]
<1>1. t \in Tasks /\ t.pc = pc
  BY DEF Tasks
<1>2. handlers' = [handlers EXCEPT ![n] = t]
  OBVIOUS
<1> HIDE DEF t
<1> QED
  BY <1>1, <1>2 DEF Moves

\* A handler that returns is forgotten.
LEMMA EndEnds ==
    ASSUME NEW n, End(n)
    PROVE  Ends(n)
BY DEF End, Ends, Without

\* No apply goes on from a change of what is active.
LEMMA ApplyNew ==
    ASSUME session'.apply = "new"
    PROVE  ApplyInv'
BY DEF ApplyInv

\* A handler that is about to reapply leaves nothing to show of the apply.
LEMMA ApplyChanging ==
    ASSUME NEW n, NEW pc \in {"dropping", "clearing", "saved", "disabling"}, Moves(n, pc)
    PROVE  ApplyInv'
<1>1. Changing'
  BY DEF Changing, Moves
<1> QED
  BY <1>1 DEF ApplyInv

\* The apply is as good as it was while whoever is changing goes on.
LEMMA ApplyKept ==
    ASSUME ApplyInv, session' = session, Changing => Changing'
    PROVE  ApplyInv'
BY DEF ApplyInv, Active
-----------------------------------------------------------------------------
\* No activation has been entered.
SubActs ==
    \A p \in DOMAIN session'.acts :
        p \in DOMAIN session.acts /\ session'.acts[p] = session.acts[p]

\* A CANCEL is sent only with its activation taken back.
CancelSent ==
    \E p \in DOMAIN session.acts, h \in Nat :
        /\ p \notin DOMAIN session'.acts
        /\ commands' = Append(commands, [kind |-> "cancel", id |-> session.acts[p],
                                         handler |-> h])

\* The session's record where only its apply, its flags or its activations change.
SessionSound ==
    /\ DOMAIN session' = SessionFields
    /\ session'.enabled \subseteq Profiles /\ session'.resolved \subseteq Profiles
    /\ session'.applied \subseteq Profiles
    /\ session'.apply \in {"idle", "new", "applying"}

\* A command is queued behind those the daemon has not served.
LEMMA CommandsGrow ==
    ASSUME Inv, NEW kind \in {"track", "cancel"}, NEW id \in DOMAIN presses, NEW h \in Nat,
           commands' = Append(commands, [kind |-> kind, id |-> id, handler |-> h])
    PROVE  /\ commands' \in Seq(Commands) /\ Len(commands') = Len(commands) + 1
           /\ DOMAIN commands = 1..Len(commands)
           /\ DOMAIN commands' = 1..(Len(commands) + 1)
           /\ \A i \in DOMAIN commands : commands'[i] = commands[i]
           /\ commands'[Len(commands) + 1].kind = kind
           /\ commands'[Len(commands) + 1].id = id
           /\ Len(commands) \in Nat
<1> DEFINE c == [kind |-> kind, id |-> id, handler |-> h]
<1>1. c \in Commands /\ c.kind = kind /\ c.id = id
  BY PressFacts DEF Commands, Inv
<1> HIDE DEF c
<1> QED
  BY <1>1 DEF c, Inv, Shapes

\* What a task leaves alone that enters no activation and sends no TRACK.
LEMMA TaskKeeps ==
    ASSUME Inv, UNCHANGED <<presses, daemon, overtaken>>,
           expiries' = expiries, SubActs, SessionSound, ResetPending => ResetPending',
           commands' = commands \/ CancelSent,
           \A n \in DOMAIN handlers : handlers[n].pc = "applying" =>
               n \in DOMAIN handlers' /\ handlers'[n].pc = "applying"
    PROVE  /\ SessionInv' /\ IndexInv' /\ CountInv' /\ ReasonInv' /\ CancelInv' /\ TrackInv'
           /\ commands' \in Seq(Commands)
           /\ \A i \in DOMAIN commands' : commands'[i].id \in DOMAIN presses
           /\ \A i \in DOMAIN commands' :
                \/ \E j \in DOMAIN commands : commands'[i].id = commands[j].id
                \/ \E p \in DOMAIN session.acts : commands'[i].id = session.acts[p]
<1>1. IndexInv' /\ CountInv' /\ ReasonInv'
  BY DaemonSideKept DEF Inv
<1>2. SessionInv'
  BY DEF Inv, SessionInv, SubActs, SessionSound, Profile, Policy, Key
<1>3. CASE commands' = commands
  <2>1. CancelInv'
    BY <1>3 DEF Inv, CancelInv, SubActs
  <2>2. TrackInv'
    BY <1>3 DEF Inv, TrackInv, OnItsWay, NoTrackFrom, SubActs, Profile, Policy, Key
  <2> QED
    BY <1>1, <1>2, <1>3, <2>1, <2>2 DEF Inv, Shapes, NamesPresses
<1>4. CASE CancelSent
  <2>1. PICK p \in DOMAIN session.acts, h \in Nat :
          /\ p \notin DOMAIN session'.acts
          /\ commands' = Append(commands, [kind |-> "cancel", id |-> session.acts[p],
                                           handler |-> h])
    BY <1>4 DEF CancelSent
  <2>2. session.acts[p] \in DOMAIN presses
    BY DEF Inv, SessionInv
  <2>3. /\ commands' \in Seq(Commands) /\ Len(commands') = Len(commands) + 1
        /\ DOMAIN commands = 1..Len(commands)
        /\ DOMAIN commands' = 1..(Len(commands) + 1)
        /\ \A i \in DOMAIN commands : commands'[i] = commands[i]
        /\ commands'[Len(commands) + 1].kind = "cancel"
        /\ commands'[Len(commands) + 1].id = session.acts[p]
        /\ Len(commands) \in Nat
    BY <2>1, <2>2, CommandsGrow
  <2>4. \A q \in DOMAIN session'.acts : session'.acts[q] # session.acts[p]
    BY <2>1 DEF SubActs, Inv, SessionInv
  <2>5. CancelInv'
    BY <2>3, <2>4 DEF Inv, CancelInv, SubActs
  <2>6. ASSUME NEW q, NEW i \in Nat, NoTrackFrom(q, i)
        PROVE  NoTrackFrom(q, i)'
    BY <2>3, <2>6 DEF NoTrackFrom, Profile, Policy, Key
  <2>7. TrackInv'
    <3> SUFFICES ASSUME NEW q \in DOMAIN session'.acts, ~ResetPending',
                        session'.acts[q] \notin overtaken'
                 PROVE  OnItsWay(q, session.acts[q])'
      BY DEF TrackInv
    <3>1. OnItsWay(q, session.acts[q]) /\ session'.acts[q] = session.acts[q]
      BY DEF Inv, TrackInv, SubActs
    <3>2. \A i \in DOMAIN commands : i + 1 \in Nat /\ i \in DOMAIN commands'
      BY <2>3
    <3> QED
      BY <3>1, <3>2, <2>3, <2>6 DEF OnItsWay
  <2> QED
    BY <1>1, <1>2, <2>2, <2>3, <2>5, <2>7 DEF Inv, NamesPresses
<1> QED
  BY <1>3, <1>4

\* A task n that goes on or ends, as above, preserves all but what is said of the
\* apply.
LEMMA TaskStep ==
    ASSUME Inv, NEW n \in DOMAIN handlers, UNCHANGED <<presses, daemon, queue, expiries, overtaken>>,
           faults' \in 0..MaxFaults, SubActs, SessionSound, commands' = commands \/ CancelSent,
           (\E pc \in Pcs : Moves(n, pc)) \/ Ends(n),
           handlers[n].pc # "applying", ApplyInv'
    PROVE  Inv'
<1>1. DOMAIN handlers' \subseteq DOMAIN handlers /\ \A m \in DOMAIN handlers' : handlers'[m] \in Tasks
  BY DEF Moves, Ends, Inv, Shapes
<1>2. \A m \in DOMAIN handlers : handlers[m].pc = "applying" =>
          m \in DOMAIN handlers' /\ handlers'[m].pc = "applying"
  BY DEF Moves, Ends
<1>3. ResetPending => ResetPending'
  BY DEF ResetPending
<1>4. /\ SessionInv' /\ IndexInv' /\ CountInv' /\ ReasonInv' /\ CancelInv' /\ TrackInv'
      /\ commands' \in Seq(Commands)
      /\ \A i \in DOMAIN commands' : commands'[i].id \in DOMAIN presses
      /\ \A i \in DOMAIN commands' :
           \/ \E j \in DOMAIN commands : commands'[i].id = commands[j].id
           \/ \E p \in DOMAIN session.acts : commands'[i].id = session.acts[p]
  BY <1>2, <1>3, TaskKeeps
<1>5. FreshInv'
  BY <1>1, <1>4 DEF Inv, FreshInv, SubActs
<1>6. Shapes'
  BY <1>1, <1>4 DEF Inv, Shapes, SessionSound
<1>7. NamesPresses'
  BY <1>1, <1>4 DEF Inv, NamesPresses
<1> QED
  BY <1>4, <1>5, <1>6, <1>7 DEF Inv
-----------------------------------------------------------------------------
\* A new set of activations asks for a new apply.
LEMMA ActsReplaced ==
    ASSUME Inv, NEW X, session' = reevaluate([session EXCEPT !.acts = X])
    PROVE  SessionSound /\ session'.acts = X /\ session'.apply = "new"
BY DEF Inv, Shapes, SessionInv, SessionSound, SessionFields, reevaluate

\* So does a reevaluation of the same set.
LEMMA Reevaluated ==
    ASSUME Inv, session' = reevaluate(session)
    PROVE  SessionSound /\ SubActs /\ session'.apply = "new"
BY DEF Inv, Shapes, SessionInv, SessionSound, SessionFields, SubActs, reevaluate

\* A step that leaves the session alone keeps it sound.
LEMMA SessionSame ==
    ASSUME Inv, session' = session
    PROVE  SessionSound /\ SubActs
BY DEF Inv, Shapes, SessionInv, SessionSound, SubActs

\* Taking an activation back leaves a task that is going to reapply.
LEMMA ActivationCancelled ==
    ASSUME Inv, NEW n \in DOMAIN presses, NEW pc \in {"dropping", "clearing", "disabling"},
           cancel_runtime_profile_activation(n, pc)
    PROVE  SessionSound /\ SubActs /\ CancelSent /\ Moves(n, pc) /\ ApplyInv'
<1> DEFINE X == Without(session.acts, {Profile(n)})
<1>1. DOMAIN X = DOMAIN session.acts \ {Profile(n)} /\ \A p \in DOMAIN X : X[p] = session.acts[p]
  BY DEF Without
<1>2. session' = [session EXCEPT !.acts = X]
  BY DEF cancel_runtime_profile_activation
<1> HIDE DEF X
<1>3. SessionSound /\ session'.acts = X
  BY <1>2 DEF Inv, Shapes, SessionInv, SessionSound, SessionFields
<1>4. SubActs
  BY <1>1, <1>3 DEF SubActs
<1>5. CancelSent
  <2>1. Profile(n) \in DOMAIN session.acts /\ Profile(n) \notin DOMAIN session'.acts /\ n \in Nat
    BY <1>1, <1>3, PressFacts DEF cancel_runtime_profile_activation, Inv
  <2>2. commands' = Append(commands, [kind |-> "cancel", id |-> session.acts[Profile(n)],
                                      handler |-> n])
    BY DEF cancel_runtime_profile_activation, Send
  <2> QED
    BY <2>1, <2>2 DEF CancelSent
<1>6. Moves(n, pc)
  BY GoMoves DEF cancel_runtime_profile_activation, Pcs
<1> QED
  BY <1>3, <1>4, <1>5, <1>6, ApplyChanging

\* The tracker's answer arrives in time.
LEMMA TrackedKeeps ==
    ASSUME Inv, NEW n \in DOMAIN presses, Tracked(n)
    PROVE  Inv'
<1>1. n \in DOMAIN handlers /\ handlers[n].pc = "tracking" /\ Ends(n)
  BY EndEnds DEF Tracked, At
<1>2. Changing => Changing'
  BY <1>1 DEF Changing, Ends
<1>3. ApplyInv'
  BY <1>2, ApplyKept DEF Tracked, Inv
<1>4. SessionSound /\ SubActs
  BY SessionSame DEF Tracked
<1>5. faults' \in 0..MaxFaults
  BY DEF Tracked, Inv, Shapes
<1> QED
  BY <1>1, <1>3, <1>4, <1>5, TaskStep DEF Tracked

\* The tracker cannot be set up and the activation is taken back.
LEMMA TrackFailedKeeps ==
    ASSUME Inv, NEW n \in DOMAIN presses, TrackFailed(n)
    PROVE  Inv'
<1>1. n \in DOMAIN handlers /\ handlers[n].pc = "tracking" /\ Ends(n)
  BY EndEnds DEF TrackFailed, At
<1>2. faults' \in 0..MaxFaults
  BY ActivationAssumption DEF TrackFailed, Inv, Shapes
<1>3. SessionSound /\ SubActs /\ ApplyInv'
  <2> DEFINE X == Without(session.acts, {Profile(n)})
  <2>1. CASE session' = session
    <3>1. Changing => Changing'
      BY <1>1 DEF Changing, Ends
    <3> QED
      BY <2>1, <3>1, ApplyKept, SessionSame DEF Inv
  <2>2. CASE session' = reevaluate([session EXCEPT !.acts = X])
    <3>1. DOMAIN X \subseteq DOMAIN session.acts /\ \A p \in DOMAIN X : X[p] = session.acts[p]
      BY DEF Without
    <3> HIDE DEF X
    <3> QED
      BY <2>2, <3>1, ActsReplaced, ApplyNew DEF SubActs
  <2> QED
    BY <2>1, <2>2 DEF TrackFailed
<1> QED
  BY <1>1, <1>2, <1>3, TaskStep DEF TrackFailed, wire

\* Dropped, Cleared and Disabled all reapply after a CANCEL.
LEMMA CancelledFaults ==
    ASSUME Inv, NEW n, Cancelled(n)
    PROVE  faults' \in 0..MaxFaults
BY ActivationAssumption DEF Cancelled, Inv, Shapes

\* The activation that was dropped has been reapplied without.
LEMMA DroppedKeeps ==
    ASSUME Inv, NEW n \in DOMAIN presses, Dropped(n)
    PROVE  Inv'
<1>1. n \in DOMAIN handlers /\ handlers[n].pc = "dropping" /\ Ends(n)
  BY EndEnds DEF Dropped, At
<1>2. SessionSound /\ SubActs /\ ApplyInv'
  BY Reevaluated, ApplyNew DEF Dropped
<1>3. faults' \in 0..MaxFaults
  BY CancelledFaults DEF Dropped
<1> QED
  BY <1>1, <1>2, <1>3, TaskStep DEF Dropped

\* A cleared set of activations has been reapplied.
LEMMA ClearedKeeps ==
    ASSUME Inv, NEW n \in DOMAIN presses, Cleared(n)
    PROVE  Inv'
<1>1. n \in DOMAIN handlers /\ handlers[n].pc = "clearing" /\ \E pc \in Pcs : Moves(n, pc)
  BY GoMoves DEF Cleared, At, Pcs
<1>2. SessionSound /\ SubActs /\ ApplyInv'
  BY Reevaluated, ApplyNew DEF Cleared
<1>3. faults' \in 0..MaxFaults
  BY CancelledFaults DEF Cleared
<1> QED
  BY <1>1, <1>2, <1>3, TaskStep DEF Cleared

\* A disabled profile has been reapplied without.
LEMMA DisabledKeeps ==
    ASSUME Inv, NEW n \in DOMAIN presses, Disabled(n)
    PROVE  Inv'
<1>1. n \in DOMAIN handlers /\ handlers[n].pc = "disabling"
  BY DEF Disabled, At
<1>2. \E pc \in Pcs : Moves(n, pc)
  <2> DEFINE t == [pc |-> "settling", off |-> TRUE]
  <2>1. t \in Tasks /\ t.pc \in Pcs
    BY DEF Tasks, Pcs
  <2>2. handlers' = With(handlers, n, t)
    BY DEF Disabled
  <2> HIDE DEF t
  <2> QED
    BY <2>1, <2>2 DEF With, Moves
<1>3. SessionSound /\ SubActs /\ ApplyInv'
  BY Reevaluated, ApplyNew DEF Disabled
<1>4. faults' \in 0..MaxFaults
  BY CancelledFaults DEF Disabled
<1> QED
  BY <1>1, <1>2, <1>3, <1>4, TaskStep DEF Disabled

\* The handler reads whether the profile is enabled.
LEMMA ReadFlagKeeps ==
    ASSUME Inv, NEW n \in DOMAIN presses, ReadFlag(n)
    PROVE  Inv'
<1>1. n \in DOMAIN handlers /\ handlers[n].pc \in {"reading", "cleared"}
  BY DEF ReadFlag, Reapplied, At
<1>2. Moves(n, "saving")
  <2> DEFINE b == Policy(n)
             off == b.type = "disable" \/ (b.type = "toggle" /\ b.profile \in session.enabled)
             t == [pc |-> "saving", off |-> off]
  <2>1. off \in BOOLEAN
    OBVIOUS
  <2>2. handlers' = [handlers EXCEPT ![n] = t]
    BY DEF ReadFlag
  <2> HIDE DEF off
  <2>3. t \in Tasks /\ t.pc = "saving"
    BY <2>1 DEF Tasks, Pcs
  <2> HIDE DEF t
  <2> QED
    BY <1>1, <2>2, <2>3, PutMoves
<1>3. Changing => Changing'
  BY <1>1, <1>2 DEF Changing, Moves
<1>4. ApplyInv'
  BY <1>3, ApplyKept DEF ReadFlag, Inv
<1>5. SessionSound /\ SubActs
  BY SessionSame DEF ReadFlag
<1>6. faults' \in 0..MaxFaults /\ "saving" \in Pcs
  BY DEF ReadFlag, Inv, Shapes, Pcs
<1> QED
  BY <1>1, <1>2, <1>4, <1>5, <1>6, TaskStep DEF ReadFlag, wire

\* The handler saves the flag it decided on.
LEMMA SaveFlagKeeps ==
    ASSUME Inv, NEW n \in DOMAIN presses, SaveFlag(n)
    PROVE  Inv'
<1>1. n \in DOMAIN handlers /\ handlers[n].pc = "saving" /\ handlers[n] \in Tasks
  BY DEF SaveFlag, At, Inv, Shapes
<1>2. Moves(n, "saved") /\ "saved" \in Pcs
  BY <1>1, StepMoves DEF SaveFlag, Pcs
<1>3. ApplyInv'
  BY <1>2, ApplyChanging
<1>4. SessionSound /\ SubActs
  <2> DEFINE E == IF handlers[n].off THEN session.enabled \ {Profile(n)}
                  ELSE session.enabled \cup {Profile(n)}
  <2>1. session' = [session EXCEPT !.enabled = E]
    BY DEF SaveFlag
  <2>2. E \subseteq Profiles
    BY PressFacts DEF Inv, SessionInv
  <2> HIDE DEF E
  <2> QED
    BY <2>1, <2>2 DEF Inv, Shapes, SessionInv, SessionSound, SessionFields, SubActs
<1>5. faults' \in 0..MaxFaults
  BY DEF SaveFlag, Inv, Shapes
<1> QED
  BY <1>1, <1>2, <1>3, <1>4, <1>5, TaskStep DEF SaveFlag, wire

\* The user changes the flag of a profile.
LEMMA SetProfileEnabledKeeps ==
    ASSUME Inv, NEW n \in DOMAIN presses, set_profile_enabled(n)
    PROVE  Inv'
<1>1. n \in DOMAIN handlers /\ handlers[n].pc = "saved" /\ handlers[n] \in Tasks
  BY DEF set_profile_enabled, At, Inv, Shapes
<1>2. faults' \in 0..MaxFaults /\ "disabling" \in Pcs /\ "settling" \in Pcs
  BY DEF set_profile_enabled, Inv, Shapes, Pcs
<1>3. CASE cancel_runtime_profile_activation(n, "disabling")
  <2>1. SessionSound /\ SubActs /\ CancelSent /\ Moves(n, "disabling") /\ ApplyInv'
    BY <1>3, ActivationCancelled
  <2> QED
    BY <1>1, <1>2, <2>1, TaskStep DEF set_profile_enabled
<1>4. CASE /\ session' = reevaluate(session)
           /\ handlers' = [handlers EXCEPT ![n].pc = "settling"]
           /\ UNCHANGED commands
  <2>1. SessionSound /\ SubActs /\ ApplyInv'
    BY <1>4, Reevaluated, ApplyNew
  <2>2. Moves(n, "settling")
    BY <1>1, <1>2, <1>4, StepMoves
  <2> QED
    BY <1>1, <1>2, <1>4, <2>1, <2>2, TaskStep DEF set_profile_enabled
<1> QED
  BY <1>3, <1>4 DEF set_profile_enabled

\* The handler enters, replaces or ends an activation.
LEMMA SettleKeeps ==
    ASSUME Inv, NEW n \in DOMAIN presses, Settle(n)
    PROVE  Inv'
<1>1. n \in DOMAIN handlers /\ handlers[n].pc = "settling"
  BY DEF Settle, Reapplied, At
<1>2. faults' \in 0..MaxFaults /\ "dropping" \in Pcs
  BY DEF Settle, Inv, Shapes, Pcs
<1>3. CASE cancel_runtime_profile_activation(n, "dropping")
  <2>1. SessionSound /\ SubActs /\ CancelSent /\ Moves(n, "dropping") /\ ApplyInv'
    BY <1>3, ActivationCancelled
  <2> QED
    BY <1>1, <1>2, <2>1, TaskStep DEF Settle
<1>4. CASE End(n) /\ UNCHANGED <<session, commands>>
  <2>1. Ends(n)
    BY <1>4, EndEnds
  <2>2. Changing => Changing'
    BY <1>1, <2>1 DEF Changing, Ends
  <2>3. SessionSound /\ SubActs /\ ApplyInv'
    BY <1>4, <2>2, SessionSame, ApplyKept DEF Inv
  <2> QED
    BY <1>1, <1>2, <1>4, <2>1, <2>3, TaskStep DEF Settle
<1> QED
  BY <1>3, <1>4 DEF Settle
-----------------------------------------------------------------------------
\* The TRACK of n leaves any other activation of its profile on its way, or
\* overtaken.
LEMMA SendTrackKeeps ==
    ASSUME Inv, NEW n \in DOMAIN presses, SendTrack(n)
    PROVE  Inv'
<1>1. n \in DOMAIN handlers /\ handlers[n].pc = "applying" /\ Moves(n, "tracking")
  BY GoMoves DEF SendTrack, Reapplied, At, Pcs
<1>2. n \in Nat /\ n \in 1..Len(presses)
  BY PressFacts DEF Inv
<1>3. /\ commands' \in Seq(Commands) /\ Len(commands') = Len(commands) + 1
      /\ DOMAIN commands = 1..Len(commands)
      /\ DOMAIN commands' = 1..(Len(commands) + 1)
      /\ \A i \in DOMAIN commands : commands'[i] = commands[i]
      /\ commands'[Len(commands) + 1].kind = "track"
      /\ commands'[Len(commands) + 1].id = n
      /\ Len(commands) \in Nat
  BY <1>2, CommandsGrow DEF SendTrack, Send
<1>4. DOMAIN handlers' = DOMAIN handlers /\ \A m \in DOMAIN handlers' : handlers'[m] \in Tasks
  BY <1>1 DEF Moves, Inv, Shapes
<1>5. Shapes'
  BY <1>3, <1>4 DEF SendTrack, Inv, Shapes
<1>6. NamesPresses'
  <2>1. overtaken' \subseteq DOMAIN presses
    BY DEF SendTrack, Overtakes, Inv, NamesPresses, SessionInv
  <2> QED
    BY <1>1, <1>3, <1>4, <2>1 DEF SendTrack, Inv, NamesPresses
<1>7. SessionInv'
  BY DEF SendTrack, Inv, SessionInv, Profile, Policy, Key
<1>8. IndexInv' /\ CountInv' /\ ReasonInv'
  BY DaemonSideKept DEF SendTrack, Inv
<1>9. ApplyInv'
  <2>1. Changing => Changing'
    BY <1>1 DEF Changing, Moves
  <2> QED
    BY <2>1, ApplyKept DEF SendTrack, Inv
<1>10. FreshInv'
  BY <1>1, <1>3, <1>4 DEF SendTrack, Inv, FreshInv
<1>11. CancelInv'
  BY <1>3 DEF SendTrack, Inv, CancelInv
<1>12. TrackInv'
  <2> SUFFICES ASSUME NEW p \in DOMAIN session.acts, ~ResetPending',
                      session.acts[p] \notin overtaken'
               PROVE  OnItsWay(p, session.acts[p])'
    BY DEF TrackInv, SendTrack
  <2>1. UNCHANGED <<presses, daemon, session, queue, expiries>>
    BY DEF SendTrack
  <2>2. ~ResetPending /\ session.acts[p] \notin overtaken
    BY <2>1 DEF ResetPending, SendTrack
  <2>3. OnItsWay(p, session.acts[p])
    BY <2>2 DEF Inv, TrackInv
  <2>4. CASE session.acts[p] = n
    <3> PICK k \in Nat : k = Len(commands) + 1
      BY <1>3
    <3>1. NoTrackFrom(p, k + 1)'
      BY <1>3 DEF NoTrackFrom
    <3>2. \E i \in DOMAIN commands' : commands'[i].kind = "track" /\ commands'[i].id = n
                                        /\ NoTrackFrom(p, i + 1)'
      BY <1>3, <3>1
    <3> QED
      BY <2>1, <2>4, <3>2 DEF OnItsWay
  <2>5. CASE session.acts[p] # n /\ Profile(n) = p
    <3>1. session.acts[p] \in Ids
      BY ActivationAssumption DEF Inv, SessionInv, Shapes, Ids
    <3>2. At(session.acts[p], "applying")
      BY <2>5, <3>1 DEF SendTrack, Overtakes
    <3>3. /\ session.acts[p] \in DOMAIN handlers'
          /\ handlers'[session.acts[p]].pc = "applying"
      BY <1>1, <2>5, <3>2 DEF At, Moves
    <3> QED
      BY <2>1, <3>3 DEF OnItsWay
  <2>6. CASE session.acts[p] # n /\ Profile(n) # p
    <3>1. ASSUME NEW i \in Nat, NoTrackFrom(p, i)
          PROVE  NoTrackFrom(p, i)'
      BY <1>3, <2>1, <2>6, <3>1 DEF NoTrackFrom, Profile, Policy, Key
    <3>2. \A i \in DOMAIN commands : i + 1 \in Nat /\ i \in DOMAIN commands'
      BY <1>3
    <3>3. \A m \in DOMAIN handlers : m # n => m \in DOMAIN handlers' /\ handlers'[m] = handlers[m]
      BY <1>1 DEF Moves
    <3> QED
      BY <1>3, <2>1, <2>3, <2>6, <3>1, <3>2, <3>3 DEF OnItsWay
  <2> QED
    BY <2>4, <2>5, <2>6
<1> QED
  BY <1>5, <1>6, <1>7, <1>8, <1>9, <1>10, <1>11, <1>12 DEF Inv

\* A generation of the apply neither enters nor ends an activation.
LEMMA ApplyStep ==
    ASSUME Inv, UNCHANGED <<presses, daemon, handlers, wire, faults, overtaken>>,
           SubActs, SessionSound, ApplyInv'
    PROVE  Inv'
<1>1. UNCHANGED <<queue, expiries, commands, replies>>
  BY DEF wire
<1>2. ResetPending => ResetPending'
  BY <1>1 DEF ResetPending
<1>3. /\ SessionInv' /\ IndexInv' /\ CountInv' /\ ReasonInv' /\ CancelInv' /\ TrackInv'
  BY <1>1, <1>2, TaskKeeps
<1>4. FreshInv'
  BY <1>1 DEF Inv, FreshInv, SubActs
<1>5. Shapes' /\ NamesPresses'
  BY <1>1 DEF Inv, Shapes, NamesPresses, SessionSound
<1> QED
  BY <1>3, <1>4, <1>5 DEF Inv

\* The session resolves what is active, for the apply.
LEMMA ResolveKeeps ==
    ASSUME Inv, resolve
    PROVE  Inv'
<1>1. Active \subseteq Profiles
  BY PressFacts DEF Inv, SessionInv, Active
<1>2. SessionSound /\ SubActs
  BY <1>1 DEF resolve, Inv, Shapes, SessionInv, SessionSound, SessionFields, SubActs
<1>3. ApplyInv'
  BY DEF resolve, ApplyInv, Active, Inv, Shapes, SessionFields
<1> QED
  BY <1>2, <1>3, ApplyStep DEF resolve

\* The apply is over.
LEMMA ApplyEndsKeeps ==
    ASSUME Inv, ApplyEnds
    PROVE  Inv'
<1>1. SessionSound /\ SubActs
  BY DEF ApplyEnds, Inv, Shapes, SessionInv, SessionSound, SessionFields, SubActs
<1>2. ApplyInv'
  <2>1. Changing' = Changing
    BY DEF ApplyEnds, Changing
  <2> QED
    BY <2>1 DEF ApplyEnds, ApplyInv, Active, Inv, Shapes, SessionFields
<1> QED
  BY <1>1, <1>2, ApplyStep DEF ApplyEnds

\* The queue without its first event.
LEMMA QueueTail ==
    ASSUME Inv, queue # <<>>, queue' = Tail(queue)
    PROVE  /\ queue' \in Seq(Events) /\ Head(queue) = queue[1] /\ 1 \in DOMAIN queue
           /\ Head(queue) \in Events
           /\ \A i \in DOMAIN queue' :
                i + 1 \in DOMAIN queue /\ i + 1 # 1 /\ queue'[i] = queue[i + 1]
           /\ \A i \in DOMAIN queue : i # 1 => \E j \in DOMAIN queue' : queue'[j] = queue[i]
           /\ \A i, j \in DOMAIN queue' : i # j => i + 1 # j + 1
<1>1. queue \in Seq(Events)
  BY DEF Inv, Shapes
<1>2. Len(queue) \in Nat /\ Len(queue) > 0 /\ DOMAIN queue = 1..Len(queue)
  BY <1>1
<1>3. /\ queue' \in Seq(Events) /\ Len(queue') = Len(queue) - 1
      /\ \A i \in 1..(Len(queue) - 1) : queue'[i] = queue[i + 1]
  BY <1>1, <1>2
<1>4. \A i \in DOMAIN queue : i # 1 => i - 1 \in DOMAIN queue' /\ queue'[i - 1] = queue[i]
  BY <1>2, <1>3
<1>5. Head(queue) = queue[1] /\ Head(queue) \in Events
  BY <1>1, <1>2
<1> QED
  BY <1>2, <1>3, <1>4, <1>5
-----------------------------------------------------------------------------
\* The task of the trigger n begins: what holds however far it gets.
LEMMA TriggerBegins ==
    ASSUME Inv, queue # <<>>, queue' = Tail(queue), Head(queue).kind = "trigger",
           NEW n, n = Head(queue).id, NEW pc \in Pcs, Moves(n, pc)
    PROVE  /\ n \in DOMAIN presses /\ n \in Nat /\ n \notin DOMAIN handlers
           /\ \A j \in DOMAIN commands : commands[j].id # n
           /\ \A p \in DOMAIN session.acts : session.acts[p] # n
           /\ \A i \in DOMAIN queue' : queue'[i].kind = "trigger" => queue'[i].id # n
           /\ \A i \in DOMAIN queue' : queue'[i].kind = "trigger" =>
                /\ queue'[i].id \in DOMAIN presses /\ queue'[i].id \notin DOMAIN handlers'
                /\ \A j \in DOMAIN commands : commands[j].id # queue'[i].id
                /\ \A p \in DOMAIN session.acts : session.acts[p] # queue'[i].id
                /\ \A j \in DOMAIN queue' : j # i /\ queue'[j].kind = "trigger" =>
                     queue'[j].id # queue'[i].id
           /\ DOMAIN handlers' \subseteq DOMAIN presses
           /\ \A m \in DOMAIN handlers' : handlers'[m] \in Tasks
           /\ queue' \in Seq(Events)
           /\ (\E i \in DOMAIN queue : queue[i].kind = "reset")
                => \E i \in DOMAIN queue' : queue'[i].kind = "reset"
           /\ \A m \in DOMAIN handlers : m \in DOMAIN handlers' /\ handlers'[m] = handlers[m]
<1>1. /\ queue' \in Seq(Events) /\ Head(queue) = queue[1] /\ 1 \in DOMAIN queue
      /\ \A i \in DOMAIN queue' :
           i + 1 \in DOMAIN queue /\ i + 1 # 1 /\ queue'[i] = queue[i + 1]
      /\ \A i \in DOMAIN queue : i # 1 => \E j \in DOMAIN queue' : queue'[j] = queue[i]
      /\ \A i, j \in DOMAIN queue' : i # j => i + 1 # j + 1
  BY QueueTail
<1>2. /\ n \in DOMAIN presses /\ n \notin DOMAIN handlers
      /\ \A j \in DOMAIN commands : commands[j].id # n
      /\ \A p \in DOMAIN session.acts : session.acts[p] # n
      /\ \A j \in DOMAIN queue : j # 1 /\ queue[j].kind = "trigger" => queue[j].id # n
  BY <1>1 DEF Inv, NamesPresses, FreshInv
<1>3. n \in Nat
  BY <1>2, PressFacts DEF Inv
<1>4. /\ DOMAIN handlers' = DOMAIN handlers \cup {n}
      /\ \A m \in DOMAIN handlers' : handlers'[m] \in Tasks
      /\ \A m \in DOMAIN handlers : m \in DOMAIN handlers' /\ handlers'[m] = handlers[m]
  BY <1>2 DEF Moves, Inv, Shapes
<1>5. \A i \in DOMAIN queue' : queue'[i].kind = "trigger" => queue'[i].id # n
  BY <1>1, <1>2
<1>6. DOMAIN handlers' \subseteq DOMAIN presses
  BY <1>2, <1>4 DEF Inv, NamesPresses
<1>7. (\E i \in DOMAIN queue : queue[i].kind = "reset")
        => \E i \in DOMAIN queue' : queue'[i].kind = "reset"
  BY <1>1
<1>8. ASSUME NEW i \in DOMAIN queue', queue'[i].kind = "trigger"
      PROVE  /\ queue'[i].id \in DOMAIN presses /\ queue'[i].id \notin DOMAIN handlers'
             /\ \A j \in DOMAIN commands : commands[j].id # queue'[i].id
             /\ \A p \in DOMAIN session.acts : session.acts[p] # queue'[i].id
             /\ \A j \in DOMAIN queue' : j # i /\ queue'[j].kind = "trigger" =>
                  queue'[j].id # queue'[i].id
  <2>1. i + 1 \in DOMAIN queue /\ queue[i + 1].kind = "trigger" /\ queue[i + 1] = queue'[i]
    BY <1>1, <1>8
  <2>2. /\ queue[i + 1].id \in DOMAIN presses /\ queue[i + 1].id \notin DOMAIN handlers
        /\ \A j \in DOMAIN commands : commands[j].id # queue[i + 1].id
        /\ \A p \in DOMAIN session.acts : session.acts[p] # queue[i + 1].id
        /\ \A j \in DOMAIN queue : j # i + 1 /\ queue[j].kind = "trigger" =>
             queue[j].id # queue[i + 1].id
    BY <2>1 DEF Inv, NamesPresses, FreshInv
  <2>3. \A j \in DOMAIN queue' : j # i /\ queue'[j].kind = "trigger" =>
          queue'[j].id # queue'[i].id
    BY <1>1, <2>1, <2>2
  <2> QED
    BY <1>4, <1>5, <1>8, <2>1, <2>2, <2>3
<1> QED
  BY <1>1, <1>2, <1>3, <1>4, <1>5, <1>6, <1>7, <1>8

\* A trigger that enters no activation.
LEMMA TriggerStep ==
    ASSUME Inv, queue # <<>>, queue' = Tail(queue), Head(queue).kind = "trigger",
           NEW n, n = Head(queue).id, NEW pc \in Pcs, Moves(n, pc),
           UNCHANGED <<presses, daemon, expiries, faults, overtaken>>,
           SubActs, SessionSound, commands' = commands \/ CancelSent, ApplyInv'
    PROVE  Inv'
<1>1. /\ n \in DOMAIN presses /\ n \notin DOMAIN handlers
      /\ \A i \in DOMAIN queue' : queue'[i].kind = "trigger" =>
           /\ queue'[i].id \in DOMAIN presses /\ queue'[i].id \notin DOMAIN handlers'
           /\ \A j \in DOMAIN commands : commands[j].id # queue'[i].id
           /\ \A p \in DOMAIN session.acts : session.acts[p] # queue'[i].id
           /\ \A j \in DOMAIN queue' : j # i /\ queue'[j].kind = "trigger" =>
                queue'[j].id # queue'[i].id
      /\ DOMAIN handlers' \subseteq DOMAIN presses
      /\ \A m \in DOMAIN handlers' : handlers'[m] \in Tasks
      /\ queue' \in Seq(Events)
      /\ (\E i \in DOMAIN queue : queue[i].kind = "reset")
           => \E i \in DOMAIN queue' : queue'[i].kind = "reset"
      /\ \A m \in DOMAIN handlers : m \in DOMAIN handlers' /\ handlers'[m] = handlers[m]
  BY TriggerBegins
<1>2. ResetPending => ResetPending'
  BY <1>1 DEF ResetPending
<1>3. /\ SessionInv' /\ IndexInv' /\ CountInv' /\ ReasonInv' /\ CancelInv' /\ TrackInv'
      /\ commands' \in Seq(Commands)
      /\ \A i \in DOMAIN commands' : commands'[i].id \in DOMAIN presses
      /\ \A i \in DOMAIN commands' :
           \/ \E j \in DOMAIN commands : commands'[i].id = commands[j].id
           \/ \E p \in DOMAIN session.acts : commands'[i].id = session.acts[p]
  BY <1>1, <1>2, TaskKeeps
<1>4. FreshInv'
  <2> SUFFICES ASSUME NEW i \in DOMAIN queue', queue'[i].kind = "trigger"
               PROVE  /\ queue'[i].id \notin DOMAIN handlers'
                      /\ \A j \in DOMAIN commands' : commands'[j].id # queue'[i].id
                      /\ \A p \in DOMAIN session'.acts : session'.acts[p] # queue'[i].id
                      /\ \A j \in DOMAIN queue' : j # i /\ queue'[j].kind = "trigger" =>
                           queue'[j].id # queue'[i].id
    BY DEF FreshInv
  <2> DEFINE q == queue'[i].id
  <2>0. /\ q \notin DOMAIN handlers'
        /\ \A j \in DOMAIN commands : commands[j].id # q
        /\ \A p \in DOMAIN session.acts : session.acts[p] # q
    BY <1>1
  <2>1. \A j \in DOMAIN commands' : commands'[j].id # q
    <3> HIDE DEF q
    <3> QED
      BY <1>3, <2>0
  <2>2. \A p \in DOMAIN session'.acts : session'.acts[p] # queue'[i].id
    BY <1>1 DEF SubActs
  <2> QED
    BY <1>1, <2>1, <2>2
<1>5. Shapes'
  BY <1>1, <1>3 DEF Inv, Shapes, SessionSound
<1>6. NamesPresses'
  BY <1>1, <1>3 DEF Inv, NamesPresses
<1> QED
  BY <1>3, <1>4, <1>5, <1>6 DEF Inv

\* A trigger that enters its activation: it is about to be tracked.
LEMMA ActivateKeeps ==
    ASSUME Inv, queue # <<>>, queue' = Tail(queue), Head(queue).kind = "trigger",
           NEW n, n = Head(queue).id, Activate(n),
           UNCHANGED <<presses, daemon, expiries, faults, overtaken>>
    PROVE  Inv'
<1>1. Moves(n, "applying") /\ "applying" \in Pcs
  BY GoMoves DEF Activate, Pcs
<1>2. /\ n \in DOMAIN presses /\ n \notin DOMAIN handlers
      /\ \A j \in DOMAIN commands : commands[j].id # n
      /\ \A p \in DOMAIN session.acts : session.acts[p] # n
      /\ \A i \in DOMAIN queue' : queue'[i].kind = "trigger" => queue'[i].id # n
      /\ \A i \in DOMAIN queue' : queue'[i].kind = "trigger" =>
           /\ queue'[i].id \in DOMAIN presses /\ queue'[i].id \notin DOMAIN handlers'
           /\ \A j \in DOMAIN commands : commands[j].id # queue'[i].id
           /\ \A p \in DOMAIN session.acts : session.acts[p] # queue'[i].id
           /\ \A j \in DOMAIN queue' : j # i /\ queue'[j].kind = "trigger" =>
                queue'[j].id # queue'[i].id
      /\ DOMAIN handlers' \subseteq DOMAIN presses
      /\ \A m \in DOMAIN handlers' : handlers'[m] \in Tasks
      /\ queue' \in Seq(Events)
      /\ (\E i \in DOMAIN queue : queue[i].kind = "reset")
           => \E i \in DOMAIN queue' : queue'[i].kind = "reset"
      /\ \A m \in DOMAIN handlers : m \in DOMAIN handlers' /\ handlers'[m] = handlers[m]
  BY <1>1, TriggerBegins
<1>3. commands' = commands
  BY DEF Activate
<1> DEFINE X == With(session.acts, Profile(n), n)
<1>4. /\ DOMAIN X = DOMAIN session.acts \cup {Profile(n)} /\ X[Profile(n)] = n
      /\ \A p \in DOMAIN session.acts : p # Profile(n) => X[p] = session.acts[p]
  BY DEF With
<1>5. session' = reevaluate([session EXCEPT !.acts = X])
  BY DEF Activate
<1> HIDE DEF X
<1>6. SessionSound /\ session'.acts = X /\ session'.apply = "new"
  BY <1>5, ActsReplaced
<1>7. SessionInv'
  <2>1. \A p \in DOMAIN session'.acts :
          session'.acts[p] \in DOMAIN presses /\ Profile(session'.acts[p]) = p
    BY <1>2, <1>4, <1>6 DEF Inv, SessionInv
  <2> QED
    BY <1>6, <2>1 DEF SessionInv, SessionSound, Profile, Policy, Key
<1>8. IndexInv' /\ CountInv' /\ ReasonInv'
  BY DaemonSideKept DEF Inv
<1>9. ApplyInv'
  BY <1>6, ApplyNew
<1>10. Shapes'
  BY <1>2, <1>3, <1>6 DEF Inv, Shapes, SessionSound
<1>11. NamesPresses'
  BY <1>2, <1>3 DEF Inv, NamesPresses
<1>12. FreshInv'
  BY <1>2, <1>3, <1>4, <1>6 DEF FreshInv
<1>13. CancelInv'
  BY <1>2, <1>3, <1>4, <1>6 DEF Inv, CancelInv
<1>14. TrackInv'
  <2> SUFFICES ASSUME NEW p \in DOMAIN session'.acts, ~ResetPending',
                      session'.acts[p] \notin overtaken
               PROVE  OnItsWay(p, session.acts[p])'
    BY DEF TrackInv
  <2>1. ~ResetPending
    BY <1>2 DEF ResetPending
  <2>2. CASE p = Profile(n)
    BY <1>1, <1>4, <1>6, <2>2 DEF OnItsWay, Moves
  <2>3. CASE p # Profile(n)
    <3>1. p \in DOMAIN session.acts /\ session'.acts[p] = session.acts[p]
      BY <1>4, <1>6, <2>3
    <3>2. OnItsWay(p, session.acts[p])
      BY <2>1, <3>1 DEF Inv, TrackInv
    <3> QED
      BY <1>2, <1>3, <3>1, <3>2 DEF OnItsWay, NoTrackFrom, Profile, Policy, Key
  <2> QED
    BY <2>2, <2>3
<1> QED
  BY <1>7, <1>8, <1>9, <1>10, <1>11, <1>12, <1>13, <1>14 DEF Inv

\* The session starts a handler for an event of the daemon.
LEMMA HandleEventKeeps ==
    ASSUME Inv, HandleEvent
    PROVE  Inv'
<1> DEFINE e == Head(queue)
<1>1. /\ queue # <<>> /\ queue' = Tail(queue)
      /\ UNCHANGED <<presses, daemon, expiries, replies, faults, overtaken>>
  BY DEF HandleEvent
<1>2. CASE e.kind = "trigger" /\ handle_profile_trigger(e.id)
  <2> PICK n : n = e.id
    OBVIOUS
  <2>1. n \in DOMAIN presses
    BY <1>1, <1>2, QueueTail DEF Inv, NamesPresses
  <2>2. \/ cancel_runtime_profile_activation(n, "dropping")
        \/ cancel_runtime_profile_activation(n, "clearing")
        \/ Activate(n)
        \/ Go(n, "reading") /\ UNCHANGED <<session, commands>>
    BY <1>2 DEF handle_profile_trigger
  <2>3. ASSUME NEW pc \in {"dropping", "clearing"}, cancel_runtime_profile_activation(n, pc)
        PROVE  Inv'
    <3>1. SessionSound /\ SubActs /\ CancelSent /\ Moves(n, pc) /\ ApplyInv' /\ pc \in Pcs
      BY <2>1, <2>3, ActivationCancelled DEF Pcs
    <3> QED
      BY <1>1, <1>2, <3>1, TriggerStep
  <2>4. CASE Activate(n)
    BY <1>1, <1>2, <2>4, ActivateKeeps
  <2>5. CASE Go(n, "reading") /\ UNCHANGED <<session, commands>>
    <3>1. Moves(n, "reading") /\ "reading" \in Pcs
      BY <2>5, GoMoves DEF Pcs
    <3>2. \A m \in DOMAIN handlers : m \in DOMAIN handlers' /\ handlers'[m] = handlers[m]
      BY <1>1, <1>2, <3>1, TriggerBegins
    <3>3. Changing => Changing'
      BY <3>2 DEF Changing
    <3>4. ApplyInv' /\ SessionSound /\ SubActs
      BY <2>5, <3>3, ApplyKept, SessionSame DEF Inv
    <3> QED
      BY <1>1, <1>2, <2>5, <3>1, <3>4, TriggerStep
  <2> QED
    BY <2>2, <2>3, <2>4, <2>5
<1>3. CASE /\ e.kind = "reset" /\ session' = reevaluate([session EXCEPT !.acts = << >>])
           /\ UNCHANGED <<handlers, commands>>
  <2>0. SessionSound /\ session'.acts = << >> /\ ApplyInv'
    BY <1>3, ActsReplaced, ApplyNew
  <2>1. SessionSound /\ DOMAIN session'.acts = {} /\ ApplyInv'
    BY <2>0
  <2>2. SessionInv' /\ CancelInv' /\ TrackInv'
    BY <2>1 DEF SessionInv, CancelInv, TrackInv, SessionSound
  <2>3. IndexInv' /\ CountInv' /\ ReasonInv'
    BY <1>1, DaemonSideKept DEF Inv
  <2>4. /\ queue' \in Seq(Events)
        /\ \A i \in DOMAIN queue' :
             i + 1 \in DOMAIN queue /\ i + 1 # 1 /\ queue'[i] = queue[i + 1]
        /\ \A i, j \in DOMAIN queue' : i # j => i + 1 # j + 1
    BY <1>1, QueueTail
  <2>5. FreshInv'
    <3> SUFFICES ASSUME NEW i \in DOMAIN queue', queue'[i].kind = "trigger"
                 PROVE  /\ queue'[i].id \notin DOMAIN handlers
                        /\ \A j \in DOMAIN commands : commands[j].id # queue'[i].id
                        /\ \A j \in DOMAIN queue' : j # i /\ queue'[j].kind = "trigger" =>
                             queue'[j].id # queue'[i].id
      BY <1>3, <2>1 DEF FreshInv
    <3>1. i + 1 \in DOMAIN queue /\ queue[i + 1].kind = "trigger" /\ queue[i + 1] = queue'[i]
      BY <2>4
    <3>2. /\ queue[i + 1].id \notin DOMAIN handlers
          /\ \A j \in DOMAIN commands : commands[j].id # queue[i + 1].id
          /\ \A j \in DOMAIN queue : j # i + 1 /\ queue[j].kind = "trigger" =>
               queue[j].id # queue[i + 1].id
      BY <3>1 DEF Inv, FreshInv
    <3>3. \A j \in DOMAIN queue' : j # i /\ queue'[j].kind = "trigger" =>
            queue'[j].id # queue'[i].id
      BY <2>4, <3>1, <3>2
    <3> QED
      BY <3>1, <3>2, <3>3
  <2>6. Shapes'
    BY <1>1, <1>3, <2>1, <2>4 DEF Inv, Shapes, SessionSound
  <2>7. NamesPresses'
    BY <1>1, <1>3, <2>4 DEF Inv, NamesPresses
  <2> QED
    BY <2>1, <2>2, <2>3, <2>5, <2>6, <2>7 DEF Inv
<1> QED
  BY <1>2, <1>3 DEF HandleEvent
-----------------------------------------------------------------------------
\* Only the activation that expired ends, and its request is used up.
LEMMA DeactivateKeeps ==
    ASSUME Inv, NEW n \in DOMAIN presses, handle_profile_deactivate_requested(n)
    PROVE  Inv'
<1> DEFINE ends == {p \in {Profile(n)} \cap DOMAIN session.acts : session.acts[p] = n}
           X == Without(session.acts, ends)
<1>1. UNCHANGED <<presses, daemon, handlers, queue, commands, replies, faults, overtaken>>
  BY DEF handle_profile_deactivate_requested
<1>2. PICK e \in expiries : e.id = n /\ expiries' = expiries \ {e}
  BY DEF handle_profile_deactivate_requested
<1>3. /\ SessionSound /\ SubActs /\ ApplyInv'
      /\ \A p \in DOMAIN session'.acts : session'.acts[p] # n
  <2>1. CASE ends = {} /\ session' = session
    <3>1. \A p \in DOMAIN session.acts : session.acts[p] # n
      BY <2>1 DEF Inv, SessionInv
    <3>2. Changing => Changing'
      BY <1>1 DEF Changing
    <3> QED
      BY <2>1, <3>1, <3>2, SessionSame, ApplyKept DEF Inv
  <2>2. CASE session' = reevaluate([session EXCEPT !.acts = X])
    <3>1. /\ DOMAIN X \subseteq DOMAIN session.acts /\ \A p \in DOMAIN X : X[p] = session.acts[p]
          /\ \A p \in DOMAIN X : p \notin ends
      BY DEF Without
    <3>2. \A p \in DOMAIN X : X[p] # n
      BY <3>1 DEF Inv, SessionInv
    <3> HIDE DEF X, ends
    <3> QED
      BY <2>2, <3>1, <3>2, ActsReplaced, ApplyNew DEF SubActs
  <2> QED
    BY <2>1, <2>2 DEF handle_profile_deactivate_requested
<1>4. SessionInv'
  BY <1>1, <1>3 DEF Inv, SessionInv, SubActs, SessionSound, Profile, Policy, Key
<1>5. IndexInv' /\ CountInv' /\ ReasonInv'
  BY <1>1, <1>2, DaemonSideKept DEF Inv
<1>6. CancelInv' /\ FreshInv'
  BY <1>1, <1>3 DEF Inv, CancelInv, FreshInv, SubActs
<1>7. TrackInv'
  <2> SUFFICES ASSUME NEW p \in DOMAIN session'.acts, ~ResetPending',
                      session'.acts[p] \notin overtaken
               PROVE  OnItsWay(p, session.acts[p])'
    BY <1>1 DEF TrackInv
  <2>1. ~ResetPending
    BY <1>1 DEF ResetPending
  <2>2. /\ session'.acts[p] = session.acts[p] /\ p \in DOMAIN session.acts
        /\ session.acts[p] # n
    BY <1>3 DEF SubActs
  <2>3. OnItsWay(p, session.acts[p])
    BY <2>1, <2>2 DEF Inv, TrackInv
  <2>4. (\E x \in expiries : x.id = session.acts[p]) =>
          \E x \in expiries' : x.id = session.acts[p]
    BY <1>2, <2>2
  <2> QED
    BY <1>1, <2>2, <2>3, <2>4 DEF OnItsWay, NoTrackFrom, Profile, Policy, Key
<1>8. Shapes'
  BY <1>1, <1>2, <1>3 DEF Inv, Shapes, SessionSound
<1>9. NamesPresses'
  BY <1>1, <1>2 DEF Inv, NamesPresses
<1> QED
  BY <1>3, <1>4, <1>5, <1>6, <1>7, <1>8, <1>9 DEF Inv
-----------------------------------------------------------------------------
\* The trackers ids have expired for a reason.
Expires(ids, reason) ==
    /\ DOMAIN daemon' = DaemonFields
    /\ DOMAIN daemon'.trackers = DOMAIN daemon.trackers \ ids
    /\ DOMAIN daemon'.byProfile =
         {p \in DOMAIN daemon.byProfile : daemon.byProfile[p] \notin ids}
    /\ \A p \in DOMAIN daemon'.byProfile : daemon'.byProfile[p] = daemon.byProfile[p]
    /\ expiries' = expiries \cup {[id |-> n, reason |-> reason] : n \in ids}

\* The presses so far are still there.
PressesKept ==
    DOMAIN presses \subseteq DOMAIN presses' /\ \A n \in DOMAIN presses : presses'[n] = presses[n]

\* The daemon ends an activation on its own account.
LEMMA ExpireKeeps ==
    ASSUME Inv, NEW ids \in SUBSET DOMAIN daemon.trackers, NEW reason \in Reasons,
           Expires(ids, reason), PressesKept, UNCHANGED <<session, handlers, commands, overtaken>>,
           ResetPending => ResetPending'
    PROVE  /\ SessionInv' /\ IndexInv' /\ ApplyInv' /\ CancelInv' /\ TrackInv'
           /\ expiries' \subseteq [id : Nat, reason : Reasons]
           /\ \A e \in expiries' : e.id \in DOMAIN presses
           /\ DOMAIN daemon'.trackers \subseteq DOMAIN presses
<1>1. DOMAIN daemon.trackers \subseteq DOMAIN presses /\ DOMAIN presses \subseteq Nat
  BY PressFacts DEF Inv, NamesPresses
<1>2. ASSUME NEW n \in DOMAIN presses
      PROVE  Profile(n)' = Profile(n)
  BY DEF PressesKept, Profile, Policy, Key
<1>3. SessionInv'
  <2>1. \A p \in DOMAIN session.acts :
          session.acts[p] \in DOMAIN presses' /\ Profile(session.acts[p])' = p
    BY DEF PressesKept, Inv, SessionInv, Profile, Policy, Key
  <2> QED
    BY <2>1 DEF Inv, SessionInv
<1>4. IndexInv'
  <2>1. \A p \in DOMAIN daemon'.byProfile :
          daemon'.byProfile[p] \in DOMAIN daemon'.trackers /\ Profile(daemon.byProfile[p])' = p
    BY <1>1 DEF Inv, IndexInv, Expires, PressesKept, Profile, Policy, Key
  <2>2. \A n \in DOMAIN daemon'.trackers :
          Profile(n)' \in DOMAIN daemon'.byProfile /\ daemon'.byProfile[Profile(n)'] = n
    BY <1>1, <1>2 DEF Inv, IndexInv, Expires
  <2> QED
    BY <2>1, <2>2 DEF IndexInv
<1>5. ApplyInv'
  <2>1. Changing => Changing'
    BY DEF Changing
  <2> QED
    BY <2>1, ApplyKept DEF Inv
<1>6. CancelInv'
  BY DEF Inv, CancelInv
<1>7. TrackInv'
  <2> SUFFICES ASSUME NEW p \in DOMAIN session.acts, ~ResetPending',
                      session.acts[p] \notin overtaken
               PROVE  OnItsWay(p, session.acts[p])'
    BY DEF TrackInv
  <2>1. OnItsWay(p, session.acts[p])
    BY DEF Inv, TrackInv
  <2>2. ASSUME NEW i, NoTrackFrom(p, i)
        PROVE  NoTrackFrom(p, i)'
    <3>1. \A j \in DOMAIN commands : Profile(commands[j].id)' = Profile(commands[j].id)
      BY DEF Inv, NamesPresses, PressesKept, Profile, Policy, Key
    <3> QED
      BY <2>2, <3>1 DEF NoTrackFrom
  <2>3. session.acts[p] \in DOMAIN daemon.trackers =>
          \/ session.acts[p] \in DOMAIN daemon'.trackers
          \/ \E e \in expiries' : e.id = session.acts[p]
    <3>1. \A n \in ids : /\ [id |-> n, reason |-> reason] \in expiries'
                         /\ [id |-> n, reason |-> reason].id = n
      BY DEF Expires
    <3>2. \A n \in ids : \E e \in expiries' : e.id = n
      BY <3>1
    <3> QED
      BY <3>2 DEF Expires
  <2>4. expiries \subseteq expiries'
    BY DEF Expires
  <2> QED
    BY <2>1, <2>2, <2>3, <2>4 DEF OnItsWay
<1>8. /\ expiries' \subseteq [id : Nat, reason : Reasons]
      /\ \A e \in expiries' : e.id \in DOMAIN presses
  <2>1. \A n \in ids : /\ [id |-> n, reason |-> reason] \in [id : Nat, reason : Reasons]
                       /\ [id |-> n, reason |-> reason].id \in DOMAIN presses
    BY <1>1
  <2> QED
    BY <2>1 DEF Inv, Shapes, NamesPresses, Expires
<1>9. DOMAIN daemon'.trackers \subseteq DOMAIN presses
  BY <1>1 DEF Expires
<1> QED
  BY <1>3, <1>4, <1>5, <1>6, <1>7, <1>8, <1>9

\* Between presses: the trackers that are left have counted what they had.
LEMMA ExpireStep ==
    ASSUME Inv, NEW ids \in SUBSET DOMAIN daemon.trackers, NEW reason \in Reasons,
           Expires(ids, reason), UNCHANGED <<presses, session, handlers, commands, faults, overtaken>>,
           ResetPending => ResetPending', daemon'.active \subseteq daemon.active,
           \A n \in DOMAIN daemon'.trackers : daemon'.trackers[n] = daemon.trackers[n],
           reason # "action_count",
           reason = "trigger_end" =>
               \A n \in ids : "trigger_end" \in Policy(n).ends /\ Key(n) \notin daemon'.active,
           queue' \in Seq(Events),
           \A i \in DOMAIN queue' : queue'[i].kind = "trigger" =>
               i \in DOMAIN queue /\ queue'[i] = queue[i]
    PROVE  Inv'
<1>1. PressesKept
  BY DEF PressesKept
<1>2. /\ SessionInv' /\ IndexInv' /\ ApplyInv' /\ CancelInv' /\ TrackInv'
      /\ expiries' \subseteq [id : Nat, reason : Reasons]
      /\ \A e \in expiries' : e.id \in DOMAIN presses
      /\ DOMAIN daemon'.trackers \subseteq DOMAIN presses
  BY <1>1, ExpireKeeps
<1>3. CountInv'
  <2>1. DOMAIN daemon'.trackers \subseteq DOMAIN daemon.trackers
    BY DEF Expires
  <2> QED
    BY <2>1 DEF Inv, CountInv, Later, Key
<1>4. ReasonInv'
  <2>1. ASSUME NEW e \in expiries', e.reason = "trigger_end"
        PROVE  "trigger_end" \in Policy(e.id).ends /\ Lifted(e.id)'
    <3>1. CASE e \in expiries
      BY <2>1, <3>1 DEF Inv, ReasonInv, Lifted, Key
    <3>2. CASE e \notin expiries
      <4>1. PICK n \in ids : e = [id |-> n, reason |-> reason]
        BY <3>2 DEF Expires
      <4> QED
        BY <2>1, <4>1 DEF Lifted, Key
    <3> QED
      BY <3>1, <3>2
  <2>2. ASSUME NEW e \in expiries', e.reason = "action_count"
        PROVE  e \in expiries
    BY <2>2 DEF Expires
  <2> QED
    BY <2>1, <2>2 DEF Inv, ReasonInv, Later, Policy, Key
<1>5. FreshInv'
  BY DEF Inv, FreshInv
<1>6. Shapes'
  BY <1>2 DEF Inv, Shapes, Expires
<1>7. NamesPresses'
  BY <1>2 DEF Inv, NamesPresses
<1> QED
  BY <1>2, <1>3, <1>4, <1>5, <1>6, <1>7 DEF Inv
-----------------------------------------------------------------------------
\* _expire of the tracker d, which has daemon's activations.
LEMMA ExpireEffect ==
    ASSUME NEW d, NEW ids, NEW reason, DOMAIN d = DaemonFields,
           DOMAIN d.trackers = DOMAIN daemon.trackers, d.byProfile = daemon.byProfile,
           _expire(d, ids, reason)
    PROVE  /\ Expires(ids, reason) /\ daemon'.active = d.active
           /\ daemon'.resetting = d.resetting
           /\ \A n \in DOMAIN daemon'.trackers : daemon'.trackers[n] = d.trackers[n]
<1> DEFINE c == cancel(d, ids)
<1>1. /\ DOMAIN c = DaemonFields
      /\ c.active = d.active /\ c.resetting = d.resetting
      /\ DOMAIN c.trackers = DOMAIN d.trackers \ ids
      /\ \A n \in DOMAIN c.trackers : c.trackers[n] = d.trackers[n]
      /\ DOMAIN c.byProfile = {p \in DOMAIN d.byProfile : d.byProfile[p] \notin ids}
      /\ \A p \in DOMAIN c.byProfile : c.byProfile[p] = d.byProfile[p]
  BY CancelFacts
<1>2. daemon' = c /\ expiries' = expiries \cup {[id |-> n, reason |-> reason] : n \in ids}
  BY DEF _expire
<1> HIDE DEF c
<1> QED
  BY <1>1, <1>2 DEF Expires

\* The source key is released.
LEMMA ReleaseKeeps ==
    ASSUME Inv, NEW k \in Keys, Release(k)
    PROVE  Inv'
<1> DEFINE d == [daemon EXCEPT !.active = @ \ {k}]
           ids == {m \in DOMAIN daemon.trackers :
                     Key(m) \in {k} /\ "trigger_end" \in Policy(m).ends}
<1>1. UNCHANGED <<presses, session, handlers, queue, commands, replies, faults, overtaken>>
  BY DEF Release
<1>2. _expire(d, ids, "trigger_end")
  BY DEF Release, observe_trigger_end
<1>3. /\ DOMAIN d = DaemonFields /\ d.trackers = daemon.trackers
      /\ d.byProfile = daemon.byProfile /\ d.active = daemon.active \ {k}
      /\ d.resetting = daemon.resetting
  BY DEF Inv, Shapes, DaemonFields
<1>4. \A n \in ids : "trigger_end" \in Policy(n).ends /\ Key(n) \notin daemon.active \ {k}
  OBVIOUS
<1>5. ids \in SUBSET DOMAIN daemon.trackers
  OBVIOUS
<1> HIDE DEF d, ids
<1>6. /\ Expires(ids, "trigger_end") /\ daemon'.active = daemon.active \ {k}
      /\ daemon'.resetting = daemon.resetting
      /\ \A n \in DOMAIN daemon'.trackers : daemon'.trackers[n] = daemon.trackers[n]
  BY <1>2, <1>3, ExpireEffect
<1>7. ResetPending => ResetPending'
  BY <1>1, <1>6 DEF ResetPending
<1>8. daemon'.active \subseteq daemon.active /\ "trigger_end" \in Reasons
  BY <1>6 DEF Reasons
<1>9. \A n \in ids : "trigger_end" \in Policy(n).ends /\ Key(n) \notin daemon'.active
  BY <1>4, <1>6
<1>10. queue' \in Seq(Events) /\ queue' = queue
  BY <1>1 DEF Inv, Shapes
<1> QED
  BY <1>1, <1>5, <1>6, <1>7, <1>8, <1>9, <1>10, ExpireStep

\* The activation's time is over.
LEMMA TimeoutKeeps ==
    ASSUME Inv, NEW n \in DOMAIN presses, _timeout_after(n)
    PROVE  Inv'
<1>1. /\ UNCHANGED <<presses, session, handlers, queue, commands, replies, faults, overtaken>>
      /\ _expire(daemon, {n}, "timeout") /\ n \in DOMAIN daemon.trackers
  BY DEF _timeout_after
<1>2. /\ Expires({n}, "timeout") /\ daemon'.active = daemon.active
      /\ daemon'.resetting = daemon.resetting
      /\ \A m \in DOMAIN daemon'.trackers : daemon'.trackers[m] = daemon.trackers[m]
  BY <1>1, ExpireEffect DEF Inv, Shapes
<1>3. ResetPending => ResetPending'
  BY <1>1, <1>2 DEF ResetPending
<1>4. queue' \in Seq(Events) /\ queue' = queue /\ "timeout" \in Reasons
  BY <1>1 DEF Inv, Shapes, Reasons
<1> QED
  BY <1>1, <1>2, <1>3, <1>4, ExpireStep

\* The daemon's reset is over.
LEMMA ResetEndKeeps ==
    ASSUME Inv, ResetEnd
    PROVE  Inv'
<1> DEFINE d0 == [daemon EXCEPT !.resetting = FALSE]
           d == [d0 EXCEPT !.active = @ \ daemon.active]
           ids == {m \in DOMAIN d0.trackers :
                     Key(m) \in daemon.active /\ "trigger_end" \in Policy(m).ends}
<1>1. UNCHANGED <<presses, session, handlers, commands, replies, faults, overtaken>>
  BY DEF ResetEnd
<1>2. _expire(d, ids, "trigger_end")
  BY DEF ResetEnd, observe_trigger_end
<1>3. /\ DOMAIN d0 = DaemonFields /\ d0.trackers = daemon.trackers
      /\ d0.byProfile = daemon.byProfile /\ d0.active = daemon.active
  BY DEF Inv, Shapes, DaemonFields
<1>4. ids \in SUBSET DOMAIN daemon.trackers /\ \A n \in ids : "trigger_end" \in Policy(n).ends
  BY <1>3
<1> HIDE DEF d0, ids
<1>5. /\ DOMAIN d = DaemonFields /\ d.trackers = daemon.trackers
      /\ d.byProfile = daemon.byProfile /\ d.active = daemon.active \ daemon.active
  BY <1>3 DEF DaemonFields
<1> HIDE DEF d
<1>6. /\ Expires(ids, "trigger_end") /\ daemon'.active = {}
      /\ \A n \in DOMAIN daemon'.trackers : daemon'.trackers[n] = daemon.trackers[n]
  BY <1>2, <1>5, ExpireEffect
<1>7. /\ queue' \in Seq(Events) /\ DOMAIN queue' = 1..(Len(queue) + 1)
      /\ DOMAIN queue = 1..Len(queue) /\ Len(queue) \in Nat
      /\ \A i \in DOMAIN queue : queue'[i] = queue[i]
      /\ queue'[Len(queue) + 1].kind = "reset"
  <2> DEFINE r == [kind |-> "reset"]
  <2>1. r \in Events /\ r.kind = "reset"
    BY DEF Events
  <2>2. queue' = Append(queue, r)
    BY DEF ResetEnd
  <2> HIDE DEF r
  <2> QED
    BY <2>1, <2>2 DEF Inv, Shapes
<1>8. ResetPending'
  BY <1>7 DEF ResetPending
<1>9. \A i \in DOMAIN queue' : queue'[i].kind = "trigger" =>
        i \in DOMAIN queue /\ queue'[i] = queue[i]
  BY <1>7
<1>10. daemon'.active \subseteq daemon.active /\ "trigger_end" \in Reasons
  BY <1>6 DEF Reasons
<1>11. \A n \in ids : "trigger_end" \in Policy(n).ends /\ Key(n) \notin daemon'.active
  BY <1>4, <1>6
<1> QED
  BY <1>1, <1>4, <1>6, <1>7, <1>8, <1>9, <1>10, <1>11, ExpireStep

\* A tracker that is gone, with no trigger active.
LEMMA ForgottenKeeps ==
    ASSUME Inv, DOMAIN daemon' = DaemonFields, daemon'.active = {},
           DOMAIN daemon'.trackers = {}, DOMAIN daemon'.byProfile = {},
           presses' = presses, expiries' \subseteq expiries
    PROVE  IndexInv' /\ CountInv' /\ ReasonInv'
<1>1. IndexInv' /\ CountInv'
  BY DEF IndexInv, CountInv
<1>2. ReasonInv'
  BY DEF Inv, ReasonInv, Lifted, Later, Policy, Key
<1> QED
  BY <1>1, <1>2

\* A daemon that was reset tracks nothing.
LEMMA NoTrackersFacts ==
    /\ DOMAIN NoTrackers = DaemonFields /\ NoTrackers.active = {}
    /\ DOMAIN NoTrackers.trackers = {} /\ DOMAIN NoTrackers.byProfile = {}
    /\ NoTrackers.resetting = FALSE
BY DEF NoTrackers, DaemonFields

\* The daemon resets and forgets what it tracks.
LEMMA ResetBeginKeeps ==
    ASSUME Inv, ResetBegin
    PROVE  Inv'
<1>1. UNCHANGED <<presses, session, handlers, queue, expiries, commands, replies, overtaken>>
  BY DEF ResetBegin, wire
<1>2. /\ DOMAIN daemon' = DaemonFields /\ daemon'.active = {}
      /\ DOMAIN daemon'.trackers = {} /\ DOMAIN daemon'.byProfile = {}
      /\ daemon'.resetting = TRUE
  BY NoTrackersFacts DEF ResetBegin, DaemonFields
<1>3. IndexInv' /\ CountInv' /\ ReasonInv'
  BY <1>1, <1>2, ForgottenKeeps
<1>4. TrackInv'
  BY <1>2 DEF TrackInv, ResetPending
<1>5. SessionInv' /\ CancelInv' /\ FreshInv'
  BY <1>1 DEF Inv, SessionInv, CancelInv, FreshInv, Profile, Policy, Key
<1>6. ApplyInv'
  <2>1. Changing => Changing'
    BY <1>1 DEF Changing
  <2> QED
    BY <1>1, <2>1, ApplyKept DEF Inv
<1>7. Shapes'
  <2>1. faults' \in 0..MaxFaults
    BY ActivationAssumption DEF ResetBegin, Inv, Shapes
  <2> QED
    BY <1>1, <1>2, <2>1 DEF Inv, Shapes
<1>8. NamesPresses'
  BY <1>1, <1>2 DEF Inv, NamesPresses
<1> QED
  BY <1>3, <1>4, <1>5, <1>6, <1>7, <1>8 DEF Inv

\* The session reconnects.
LEMMA ReconnectKeeps ==
    ASSUME Inv, Reconnect
    PROVE  Inv'
<1>1. /\ DOMAIN daemon' = DaemonFields /\ daemon'.active = {}
      /\ DOMAIN daemon'.trackers = {} /\ DOMAIN daemon'.byProfile = {}
  BY NoTrackersFacts DEF Reconnect
<1>2. /\ UNCHANGED <<presses, overtaken>> /\ handlers' = << >> /\ queue' = <<>>
      /\ expiries' = {} /\ commands' = <<>>
  BY DEF Reconnect
<1>3. DOMAIN handlers' = {} /\ DOMAIN queue' = {} /\ DOMAIN commands' = {}
  BY <1>2
<1>4. IndexInv' /\ CountInv' /\ ReasonInv'
  BY <1>1, <1>2, ForgottenKeeps
<1>5. SessionSound /\ session'.acts = << >> /\ session'.apply = "new"
  BY ActsReplaced DEF Reconnect
<1>6. DOMAIN session'.acts = {}
  BY <1>5
<1>7. SessionInv' /\ TrackInv' /\ CancelInv'
  BY <1>3, <1>5, <1>6 DEF SessionInv, TrackInv, CancelInv, SessionSound
<1>8. FreshInv' /\ ApplyInv'
  BY <1>3, <1>5, ApplyNew DEF FreshInv
<1>9. Shapes'
  <2>1. faults' \in 0..MaxFaults
    BY ActivationAssumption DEF Reconnect, Inv, Shapes
  <2>2. queue' \in Seq(Events) /\ commands' \in Seq(Commands)
    BY <1>2
  <2> QED
    BY <1>1, <1>2, <1>3, <1>5, <2>1, <2>2 DEF Inv, Shapes, SessionSound
<1>10. NamesPresses'
  BY <1>1, <1>2, <1>3 DEF Inv, NamesPresses
<1> QED
  BY <1>4, <1>7, <1>8, <1>9, <1>10 DEF Inv
-----------------------------------------------------------------------------
\* A press is the newest of all.
LEMMA PressGrows ==
    ASSUME Inv, NEW k \in Keys, presses' = Append(presses, k)
    PROVE  /\ Len(presses) \in Nat /\ DOMAIN presses = 1..Len(presses)
           /\ DOMAIN presses' = 1..(Len(presses) + 1) /\ Len(presses') = Len(presses) + 1
           /\ PressesKept /\ presses'[Len(presses) + 1] = k /\ presses' \in Seq(Keys)
BY DEF Inv, Shapes, PressesKept

\* A press counts for the activations of other keys, and only once.
LEMMA LaterGrows ==
    ASSUME Inv, NEW k \in Keys, presses' = Append(presses, k), NEW n \in DOMAIN presses
    PROVE  /\ Cardinality(Later(n)) \in Nat
           /\ Key(n) # k => Cardinality(Later(n)') = Cardinality(Later(n)) + 1
           /\ Key(n) = k => Cardinality(Later(n)') = Cardinality(Later(n))
<1>1. /\ Len(presses) \in Nat /\ DOMAIN presses = 1..Len(presses)
      /\ DOMAIN presses' = 1..(Len(presses) + 1)
      /\ \A m \in DOMAIN presses : presses'[m] = presses[m]
      /\ presses'[Len(presses) + 1] = k
  BY PressGrows DEF PressesKept
<1>2. IsFiniteSet(Later(n))
  <2>1. IsFiniteSet(1..Len(presses)) /\ Later(n) \subseteq 1..Len(presses)
    BY <1>1, FS_Interval DEF Later
  <2> QED
    BY <2>1, FS_Subset
<1>3. Cardinality(Later(n)) \in Nat
  BY <1>2, FS_CardinalityType
<1>4. Len(presses) + 1 \notin Later(n)
  BY <1>1 DEF Later
<1>5. CASE Key(n) # k
  <2>1. Later(n)' = Later(n) \cup {Len(presses) + 1}
    BY <1>1, <1>5 DEF Later, Key
  <2> QED
    BY <1>2, <1>3, <1>4, <1>5, <2>1, FS_AddElement
<1>6. CASE Key(n) = k
  <2>1. Later(n)' = Later(n)
    BY <1>1, <1>6 DEF Later, Key
  <2> QED
    BY <1>3, <1>6, <2>1
<1> QED
  BY <1>3, <1>5, <1>6

\* A key is pressed.
LEMMA PressKeeps ==
    ASSUME Inv, NEW k \in Keys, Press(k)
    PROVE  Inv'
<1> DEFINE d0 == [daemon EXCEPT !.active = @ \cup {k}]
           counts(m) == Policy(m).after > 0 /\ Key(m) # k
           counted == [m \in DOMAIN d0.trackers |->
                         IF counts(m) THEN d0.trackers[m] + 1 ELSE d0.trackers[m]]
           ids == {m \in DOMAIN counted : counts(m) /\ counted[m] >= Policy(m).after}
           d == [d0 EXCEPT !.trackers = counted]
<1>1. /\ UNCHANGED <<session, handlers, commands, replies, faults, overtaken>>
      /\ presses' = Append(presses, k)
  BY DEF Press
<1>2. _expire(d, ids, "action_count")
  BY DEF Press, record_action
<1>3. /\ DOMAIN d0 = DaemonFields /\ d0.trackers = daemon.trackers
      /\ d0.byProfile = daemon.byProfile /\ d0.active = daemon.active \cup {k}
      /\ d0.resetting = daemon.resetting
  BY DEF Inv, Shapes, DaemonFields
<1>4. /\ DOMAIN counted = DOMAIN daemon.trackers
      /\ \A m \in DOMAIN counted :
           /\ counts(m) => counted[m] = daemon.trackers[m] + 1
           /\ ~counts(m) => counted[m] = daemon.trackers[m]
  BY <1>3
<1> HIDE DEF d0, counted
<1>5. /\ DOMAIN d = DaemonFields /\ d.trackers = counted /\ d.byProfile = daemon.byProfile
      /\ d.active = daemon.active \cup {k} /\ d.resetting = daemon.resetting
  BY <1>3 DEF DaemonFields
<1>6. ids \in SUBSET DOMAIN daemon.trackers
  BY <1>4
<1> HIDE DEF d
<1>7. /\ Expires(ids, "action_count") /\ daemon'.active = daemon.active \cup {k}
      /\ daemon'.resetting = daemon.resetting
      /\ \A m \in DOMAIN daemon'.trackers : daemon'.trackers[m] = counted[m]
  <2> HIDE DEF ids
  <2> QED
    BY <1>2, <1>4, <1>5, ExpireEffect
<1>8. /\ Len(presses) \in Nat /\ DOMAIN presses = 1..Len(presses)
      /\ DOMAIN presses' = 1..(Len(presses) + 1) /\ Len(presses') = Len(presses) + 1
      /\ PressesKept /\ presses'[Len(presses) + 1] = k /\ presses' \in Seq(Keys)
  BY <1>1, PressGrows
<1>9. /\ queue' \in Seq(Events)
      /\ \A i \in DOMAIN queue : i \in DOMAIN queue' /\ queue'[i] = queue[i]
      /\ \A i \in DOMAIN queue' \ DOMAIN queue :
           queue'[i].kind = "trigger" /\ queue'[i].id = Len(presses) + 1
      /\ \A i, j \in DOMAIN queue' \ DOMAIN queue : i = j
  <2>1. queue \in Seq(Events)
    BY DEF Inv, Shapes
  <2>2. CASE queue' = queue
    BY <2>1, <2>2
  <2>3. CASE queue' = Append(queue, [kind |-> "trigger", id |-> Len(presses) + 1])
    <3> DEFINE e == [kind |-> "trigger", id |-> Len(presses) + 1]
    <3>1. e \in Events /\ e.kind = "trigger" /\ e.id = Len(presses) + 1
      BY <1>8 DEF Events
    <3>2. queue' = Append(queue, e)
      BY <2>3
    <3> HIDE DEF e
    <3> QED
      BY <2>1, <3>1, <3>2
  <2> QED
    BY <2>2, <2>3 DEF Press
<1>10. ResetPending => ResetPending'
  BY <1>7, <1>9 DEF ResetPending
<1>11. /\ SessionInv' /\ IndexInv' /\ ApplyInv' /\ CancelInv' /\ TrackInv'
       /\ expiries' \subseteq [id : Nat, reason : Reasons]
       /\ \A e \in expiries' : e.id \in DOMAIN presses
       /\ DOMAIN daemon'.trackers \subseteq DOMAIN presses
  <2> HIDE DEF ids
  <2>1. "action_count" \in Reasons
    BY DEF Reasons
  <2> QED
    BY <1>1, <1>6, <1>7, <1>8, <1>10, <2>1, ExpireKeeps
<1>12. DOMAIN daemon.trackers \subseteq DOMAIN presses
  BY DEF Inv, NamesPresses
<1>13. ASSUME NEW n \in DOMAIN daemon.trackers
       PROVE  /\ counted[n] \in Nat /\ counted[n] <= Cardinality(Later(n)')
              /\ Cardinality(Later(n)') \in Nat
  <2>1. /\ Cardinality(Later(n)) \in Nat
        /\ Key(n) # k => Cardinality(Later(n)') = Cardinality(Later(n)) + 1
        /\ Key(n) = k => Cardinality(Later(n)') = Cardinality(Later(n))
    BY <1>1, <1>12, LaterGrows
  <2>2. daemon.trackers[n] \in Nat /\ daemon.trackers[n] <= Cardinality(Later(n))
    BY DEF Inv, CountInv
  <2>3. /\ counts(n) => counted[n] = daemon.trackers[n] + 1
        /\ ~counts(n) => counted[n] = daemon.trackers[n]
    BY <1>4
  <2>4. CASE Key(n) = k
    <3>1. counted[n] = daemon.trackers[n]
      BY <2>3, <2>4
    <3> QED
      BY <2>1, <2>2, <2>4, <3>1
  <2>5. CASE Key(n) # k
    <3>1. counted[n] = daemon.trackers[n] \/ counted[n] = daemon.trackers[n] + 1
      BY <2>3
    <3> QED
      BY <2>1, <2>2, <2>5, <3>1
  <2> QED
    BY <2>4, <2>5
<1>14. CountInv'
  <2>1. \A n \in DOMAIN daemon'.trackers : n \in DOMAIN daemon.trackers
    BY <1>7 DEF Expires
  <2>2. ASSUME NEW n \in DOMAIN daemon'.trackers
        PROVE  daemon'.trackers[n] \in Nat /\ daemon'.trackers[n] <= Cardinality(Later(n)')
    BY <1>7, <1>13, <2>1
  <2> QED
    BY <2>2 DEF CountInv
<1>15. ASSUME NEW n \in DOMAIN presses
       PROVE  Policy(n)' = Policy(n) /\ (Lifted(n) => Lifted(n)')
  <2>1. Policy(n)' = Policy(n) /\ Key(n)' = Key(n)
    BY <1>8 DEF PressesKept, Policy, Key
  <2>2. CASE Key(n) = k
    <3>1. Len(presses) + 1 \in DOMAIN presses' /\ Len(presses) + 1 > n
      BY <1>8
    <3> QED
      BY <1>8, <2>1, <2>2, <3>1 DEF Lifted, Key
  <2>3. CASE Key(n) # k
    BY <1>7, <1>8, <2>1, <2>3 DEF Lifted, PressesKept, Key
  <2> QED
    BY <2>1, <2>2, <2>3
<1>16. ReasonInv'
  <2>1. ASSUME NEW e \in expiries
        PROVE  /\ e.reason = "trigger_end" =>
                    "trigger_end" \in Policy(e.id)'.ends /\ Lifted(e.id)'
               /\ e.reason = "action_count" =>
                    /\ Policy(e.id)'.after > 0
                    /\ Cardinality(Later(e.id)') >= Policy(e.id)'.after
    <3>1. e.id \in DOMAIN presses
      BY DEF Inv, NamesPresses
    <3>2. Policy(e.id)' = Policy(e.id) /\ (Lifted(e.id) => Lifted(e.id)')
      BY <1>15, <3>1
    <3>3. /\ Cardinality(Later(e.id)) \in Nat
          /\ \/ Cardinality(Later(e.id)') = Cardinality(Later(e.id)) + 1
             \/ Cardinality(Later(e.id)') = Cardinality(Later(e.id))
      BY <1>1, <3>1, LaterGrows
    <3>4. Policy(e.id).after \in Nat
      BY <3>1, PressFacts DEF Inv
    <3>5. /\ e.reason = "trigger_end" => "trigger_end" \in Policy(e.id).ends /\ Lifted(e.id)
          /\ e.reason = "action_count" =>
               Policy(e.id).after > 0 /\ Cardinality(Later(e.id)) >= Policy(e.id).after
      BY DEF Inv, ReasonInv
    <3> QED
      BY <3>2, <3>3, <3>4, <3>5
  <2>2. ASSUME NEW e \in expiries', e \notin expiries
        PROVE  /\ e.reason = "action_count" /\ Policy(e.id)'.after > 0
               /\ Cardinality(Later(e.id)') >= Policy(e.id)'.after
    <3>1. PICK n \in ids : e = [id |-> n, reason |-> "action_count"]
      <4> HIDE DEF ids
      <4> QED
        BY <1>7, <2>2 DEF Expires
    <3>2. /\ n \in DOMAIN daemon.trackers /\ Policy(n).after > 0
          /\ counted[n] >= Policy(n).after
      BY <1>4
    <3>3. Policy(n)' = Policy(n) /\ Policy(n).after \in Nat
      BY <1>12, <1>15, <3>2, PressFacts DEF Inv
    <3>4. /\ counted[n] \in Nat /\ counted[n] <= Cardinality(Later(n)')
          /\ Cardinality(Later(n)') \in Nat
      BY <1>13, <3>2
    <3>5. Cardinality(Later(n)') >= Policy(n).after
      BY <3>2, <3>3, <3>4
    <3>6. e.id = n /\ e.reason = "action_count"
      BY <3>1
    <3> QED
      BY <3>2, <3>3, <3>5, <3>6
  <2> QED
    BY <2>1, <2>2 DEF ReasonInv
<1>17. FreshInv'
  <2> SUFFICES ASSUME NEW i \in DOMAIN queue', queue'[i].kind = "trigger"
               PROVE  /\ queue'[i].id \notin DOMAIN handlers
                      /\ \A j \in DOMAIN commands : commands[j].id # queue'[i].id
                      /\ \A p \in DOMAIN session.acts : session.acts[p] # queue'[i].id
                      /\ \A j \in DOMAIN queue' : j # i /\ queue'[j].kind = "trigger" =>
                           queue'[j].id # queue'[i].id
    BY <1>1 DEF FreshInv
  <2>1. \A j \in DOMAIN queue : queue[j].kind = "trigger" => queue[j].id # Len(presses) + 1
    BY <1>8 DEF Inv, NamesPresses
  <2>2. CASE i \in DOMAIN queue
    <3>1. queue'[i] = queue[i]
      BY <1>9, <2>2
    <3>2. /\ queue[i].id \notin DOMAIN handlers
          /\ \A j \in DOMAIN commands : commands[j].id # queue[i].id
          /\ \A p \in DOMAIN session.acts : session.acts[p] # queue[i].id
          /\ \A j \in DOMAIN queue : j # i /\ queue[j].kind = "trigger" =>
               queue[j].id # queue[i].id
      BY <2>2, <3>1 DEF Inv, FreshInv
    <3>3. \A j \in DOMAIN queue' : j # i /\ queue'[j].kind = "trigger" =>
            queue'[j].id # queue[i].id
      BY <1>9, <2>1, <2>2, <3>1, <3>2
    <3> QED
      BY <3>1, <3>2, <3>3
  <2>3. CASE i \notin DOMAIN queue
    <3>1. queue'[i].id = Len(presses) + 1 /\ Len(presses) + 1 \notin DOMAIN presses
      BY <1>8, <1>9, <2>3
    <3>2. \A j \in DOMAIN queue' : j # i => j \in DOMAIN queue /\ queue'[j] = queue[j]
      BY <1>9, <2>3
    <3> QED
      BY <2>1, <3>1, <3>2 DEF Inv, NamesPresses, SessionInv
  <2> QED
    BY <2>2, <2>3
<1>18. Shapes'
  <2>1. Len(presses') <= MaxPresses
    BY <1>8, ActivationAssumption DEF Press
  <2>2. DOMAIN daemon' = DaemonFields
    BY <1>7 DEF Expires
  <2> QED
    BY <1>1, <1>8, <1>9, <1>11, <2>1, <2>2 DEF Inv, Shapes
<1>19. NamesPresses'
  <2>1. DOMAIN presses \subseteq DOMAIN presses' /\ Len(presses) + 1 \in DOMAIN presses'
    BY <1>8
  <2>2. \A i \in DOMAIN queue' : queue'[i].kind = "trigger" => queue'[i].id \in DOMAIN presses'
    BY <1>9, <2>1 DEF Inv, NamesPresses
  <2>3. daemon'.active \subseteq Keys
    BY <1>7 DEF Inv, NamesPresses
  <2>4. DOMAIN handlers' \subseteq DOMAIN presses' /\ overtaken' \subseteq DOMAIN presses'
    BY <1>1, <2>1 DEF Inv, NamesPresses
  <2>5. \A i \in DOMAIN commands' : commands'[i].id \in DOMAIN presses'
    BY <1>1, <2>1 DEF Inv, NamesPresses
  <2> QED
    BY <1>11, <2>1, <2>2, <2>3, <2>4, <2>5 DEF NamesPresses
<1> QED
  BY <1>11, <1>14, <1>16, <1>17, <1>18, <1>19 DEF Inv
-----------------------------------------------------------------------------
\* The commands without the first.
LEMMA CommandsTail ==
    ASSUME Inv, commands # <<>>, commands' = Tail(commands)
    PROVE  /\ commands' \in Seq(Commands) /\ Head(commands) = commands[1]
           /\ 1 \in DOMAIN commands /\ DOMAIN commands \subseteq Nat
           /\ \A i \in DOMAIN commands' :
                i \in Nat /\ i >= 1 /\ i + 1 \in DOMAIN commands /\ commands'[i] = commands[i + 1]
           /\ \A i \in DOMAIN commands : i # 1 =>
                i - 1 \in DOMAIN commands' /\ commands'[i - 1] = commands[i]
<1>1. commands \in Seq(Commands)
  BY DEF Inv, Shapes
<1>2. Len(commands) \in Nat /\ Len(commands) > 0 /\ DOMAIN commands = 1..Len(commands)
  BY <1>1
<1>3. /\ commands' \in Seq(Commands) /\ Len(commands') = Len(commands) - 1
      /\ DOMAIN commands' = 1..(Len(commands) - 1)
      /\ \A i \in 1..(Len(commands) - 1) : commands'[i] = commands[i + 1]
  BY <1>1, <1>2
<1>4. \A i \in DOMAIN commands : i # 1 =>
        i - 1 \in DOMAIN commands' /\ commands'[i - 1] = commands[i]
  BY <1>2, <1>3
<1>5. Head(commands) = commands[1]
  BY <1>1, <1>2
<1> QED
  BY <1>2, <1>3, <1>4, <1>5

\* What serving a command leaves to show: what the daemon tracks and what it has
\* expired.
LEMMA ServeStep ==
    ASSUME Inv, commands # <<>>, commands' = Tail(commands),
           UNCHANGED <<presses, session, handlers, queue, faults, overtaken>>,
           DOMAIN daemon' = DaemonFields, daemon'.active = daemon.active,
           daemon'.resetting = daemon.resetting,
           DOMAIN daemon'.trackers \subseteq DOMAIN presses,
           expiries' \subseteq [id : Nat, reason : Reasons],
           \A e \in expiries' : e.id \in DOMAIN presses,
           IndexInv', CountInv', ReasonInv',
           \A p \in DOMAIN session.acts :
               OnItsWay(p, session.acts[p]) => OnItsWay(p, session.acts[p])'
    PROVE  Inv'
<1>1. /\ commands' \in Seq(Commands)
      /\ \A i \in DOMAIN commands' : i + 1 \in DOMAIN commands /\ commands'[i] = commands[i + 1]
  BY CommandsTail
<1>2. TrackInv'
  BY DEF Inv, TrackInv, ResetPending
<1>3. CancelInv'
  BY <1>1 DEF Inv, CancelInv
<1>4. FreshInv'
  BY <1>1 DEF Inv, FreshInv
<1>5. ApplyInv'
  <2>1. Changing => Changing'
    BY DEF Changing
  <2> QED
    BY <2>1, ApplyKept DEF Inv
<1>6. SessionInv'
  BY DEF Inv, SessionInv, Profile, Policy, Key
<1>7. Shapes'
  BY <1>1 DEF Inv, Shapes
<1>8. NamesPresses'
  BY <1>1 DEF Inv, NamesPresses
<1> QED
  BY <1>2, <1>3, <1>4, <1>5, <1>6, <1>7, <1>8 DEF Inv

\* CANCEL: its activation is no longer the session's.
LEMMA ServeCancel ==
    ASSUME Inv, commands # <<>>, commands' = Tail(commands), Head(commands).kind = "cancel",
           daemon' = cancel(daemon, {Head(commands).id}),
           UNCHANGED <<presses, session, handlers, queue, expiries, faults, overtaken>>
    PROVE  Inv'
<1>1. /\ Head(commands) = commands[1] /\ 1 \in DOMAIN commands /\ DOMAIN commands \subseteq Nat
      /\ \A i \in DOMAIN commands' :
           i \in Nat /\ i >= 1 /\ i + 1 \in DOMAIN commands /\ commands'[i] = commands[i + 1]
      /\ \A i \in DOMAIN commands : i # 1 =>
           i - 1 \in DOMAIN commands' /\ commands'[i - 1] = commands[i]
  BY CommandsTail
<1> PICK n : n = Head(commands).id
  OBVIOUS
<1>2. /\ DOMAIN daemon' = DaemonFields
      /\ daemon'.active = daemon.active /\ daemon'.resetting = daemon.resetting
      /\ DOMAIN daemon'.trackers = DOMAIN daemon.trackers \ {n}
      /\ \A m \in DOMAIN daemon'.trackers : daemon'.trackers[m] = daemon.trackers[m]
      /\ DOMAIN daemon'.byProfile = {p \in DOMAIN daemon.byProfile : daemon.byProfile[p] # n}
      /\ \A p \in DOMAIN daemon'.byProfile : daemon'.byProfile[p] = daemon.byProfile[p]
  <2> DEFINE c == cancel(daemon, {n})
  <2>1. /\ DOMAIN c = DaemonFields
        /\ c.active = daemon.active /\ c.resetting = daemon.resetting
        /\ DOMAIN c.trackers = DOMAIN daemon.trackers \ {n}
        /\ \A m \in DOMAIN c.trackers : c.trackers[m] = daemon.trackers[m]
        /\ DOMAIN c.byProfile = {p \in DOMAIN daemon.byProfile : daemon.byProfile[p] \notin {n}}
        /\ \A p \in DOMAIN c.byProfile : c.byProfile[p] = daemon.byProfile[p]
    BY CancelFacts DEF Inv, Shapes
  <2>2. daemon' = c
    OBVIOUS
  <2> HIDE DEF c
  <2> QED
    BY <2>1, <2>2
<1>3. IndexInv'
  <2>1. \A m : Profile(m)' = Profile(m)
    BY DEF Profile, Policy, Key
  <2>2. \A p \in DOMAIN daemon'.byProfile :
          daemon'.byProfile[p] \in DOMAIN daemon'.trackers /\ Profile(daemon.byProfile[p])' = p
    BY <1>2 DEF Inv, IndexInv, Profile, Policy, Key
  <2>3. \A m \in DOMAIN daemon'.trackers :
          Profile(m) \in DOMAIN daemon'.byProfile /\ daemon'.byProfile[Profile(m)] = m
    BY <1>2 DEF Inv, IndexInv
  <2> QED
    BY <2>1, <2>2, <2>3 DEF IndexInv
<1>4. CountInv'
  BY <1>2 DEF Inv, CountInv, Later, Key
<1>5. ReasonInv'
  BY <1>2 DEF Inv, ReasonInv, Lifted, Later, Policy, Key
<1>6. ASSUME NEW p \in DOMAIN session.acts, OnItsWay(p, session.acts[p])
      PROVE  OnItsWay(p, session.acts[p])'
  <2>1. session.acts[p] # n
    BY <1>1 DEF Inv, CancelInv
  <2>2. ASSUME NEW i \in Nat, NEW j \in Nat, i <= j + 1, NoTrackFrom(p, i)
        PROVE  NoTrackFrom(p, j)'
    BY <1>1, <2>2 DEF NoTrackFrom, Profile, Policy, Key
  <2>3. ASSUME NEW i \in DOMAIN commands, commands[i].kind = "track",
               commands[i].id = session.acts[p], NoTrackFrom(p, i + 1)
        PROVE  \E j \in DOMAIN commands' : /\ commands'[j].kind = "track"
                                           /\ commands'[j].id = session.acts[p]
                                           /\ NoTrackFrom(p, j + 1)'
    <3>1. i # 1
      BY <1>1, <2>1, <2>3
    <3> PICK j : j = i - 1
      OBVIOUS
    <3>2. j \in DOMAIN commands' /\ commands'[j] = commands[i] /\ j \in Nat /\ i = j + 1
      BY <1>1, <3>1
    <3>3. NoTrackFrom(p, j + 1)'
      BY <2>2, <2>3, <3>2
    <3> QED
      BY <2>3, <3>2, <3>3
  <2>4. NoTrackFrom(p, 1) => NoTrackFrom(p, 1)'
    BY <2>2
  <2>5. session.acts[p] \in DOMAIN daemon.trackers => session.acts[p] \in DOMAIN daemon'.trackers
    BY <1>2, <2>1
  <2> QED
    BY <1>6, <2>3, <2>4, <2>5 DEF OnItsWay
<1> QED
  BY <1>2, <1>3, <1>4, <1>5, <1>6, ServeStep DEF Inv, Shapes, NamesPresses

\* The tracker with the one of n in place of its profile's.
LEMMA TrackFacts ==
    ASSUME Inv, NEW n \in DOMAIN presses
    PROVE  LET kept == cancel(daemon, {daemon.byProfile[p] :
                                         p \in {Profile(n)} \cap DOMAIN daemon.byProfile})
               d == [kept EXCEPT !.trackers = With(@, n, 0),
                                 !.byProfile = With(@, Profile(n), n)]
           IN /\ DOMAIN d = DaemonFields
              /\ d.active = daemon.active /\ d.resetting = daemon.resetting
              /\ DOMAIN d.trackers =
                   {m \in DOMAIN daemon.trackers : Profile(m) # Profile(n)} \cup {n}
              /\ d.trackers[n] = 0
              /\ \A m \in DOMAIN d.trackers : m # n => d.trackers[m] = daemon.trackers[m]
              /\ DOMAIN d.byProfile = DOMAIN daemon.byProfile \cup {Profile(n)}
              /\ d.byProfile[Profile(n)] = n
              /\ \A p \in DOMAIN daemon.byProfile :
                   p # Profile(n) => d.byProfile[p] = daemon.byProfile[p]
<1> DEFINE old == {daemon.byProfile[p] : p \in {Profile(n)} \cap DOMAIN daemon.byProfile}
           kept == cancel(daemon, old)
           d == [kept EXCEPT !.trackers = With(@, n, 0), !.byProfile = With(@, Profile(n), n)]
<1>1. \A m \in DOMAIN daemon.trackers : m \in old <=> Profile(m) = Profile(n)
  BY DEF Inv, IndexInv
<1>2. \A p \in DOMAIN daemon.byProfile : daemon.byProfile[p] \in old <=> p = Profile(n)
  BY DEF Inv, IndexInv
<1>3. /\ DOMAIN kept = DaemonFields
      /\ kept.active = daemon.active /\ kept.resetting = daemon.resetting
      /\ DOMAIN kept.trackers = DOMAIN daemon.trackers \ old
      /\ \A m \in DOMAIN kept.trackers : kept.trackers[m] = daemon.trackers[m]
      /\ DOMAIN kept.byProfile = {p \in DOMAIN daemon.byProfile : daemon.byProfile[p] \notin old}
      /\ \A p \in DOMAIN kept.byProfile : kept.byProfile[p] = daemon.byProfile[p]
  <2> HIDE DEF old
  <2> QED
    BY CancelFacts DEF Inv, Shapes
<1> HIDE DEF old, kept
<1> DEFINE t == With(kept.trackers, n, 0)
           b == With(kept.byProfile, Profile(n), n)
<1>4. /\ DOMAIN t = DOMAIN kept.trackers \cup {n} /\ t[n] = 0
      /\ \A m \in DOMAIN kept.trackers : m # n => t[m] = kept.trackers[m]
  BY DEF With
<1>5. /\ DOMAIN b = DOMAIN kept.byProfile \cup {Profile(n)} /\ b[Profile(n)] = n
      /\ \A p \in DOMAIN kept.byProfile : p # Profile(n) => b[p] = kept.byProfile[p]
  BY DEF With
<1>6. d = [kept EXCEPT !.trackers = t, !.byProfile = b]
  OBVIOUS
<1> HIDE DEF t, b
<1>7. /\ DOMAIN d = DaemonFields /\ d.active = kept.active /\ d.resetting = kept.resetting
      /\ d.trackers = t /\ d.byProfile = b
  <2> HIDE DEF d
  <2> QED
    BY <1>3, <1>6 DEF DaemonFields
<1> HIDE DEF d
<1>8. /\ DOMAIN d.trackers = {m \in DOMAIN daemon.trackers : Profile(m) # Profile(n)} \cup {n}
      /\ d.trackers[n] = 0
      /\ \A m \in DOMAIN d.trackers : m # n => d.trackers[m] = daemon.trackers[m]
  BY <1>1, <1>3, <1>4, <1>7
<1>9. /\ DOMAIN d.byProfile = DOMAIN daemon.byProfile \cup {Profile(n)}
      /\ d.byProfile[Profile(n)] = n
      /\ \A p \in DOMAIN daemon.byProfile :
           p # Profile(n) => d.byProfile[p] = daemon.byProfile[p]
  BY <1>2, <1>3, <1>5, <1>7
<1> QED
  BY <1>3, <1>7, <1>8, <1>9 DEF d, kept, old

\* TRACK of n: it is tracked now, or has expired at once as its trigger ended
\* before the command arrived.
LEMMA ServeTrack ==
    ASSUME Inv, commands # <<>>, commands' = Tail(commands), Head(commands).kind = "track",
           track(daemon, Head(commands).id),
           UNCHANGED <<presses, session, handlers, queue, faults, overtaken>>
    PROVE  Inv'
<1>1. /\ Head(commands) = commands[1] /\ 1 \in DOMAIN commands /\ DOMAIN commands \subseteq Nat
      /\ \A i \in DOMAIN commands' :
           i \in Nat /\ i >= 1 /\ i + 1 \in DOMAIN commands /\ commands'[i] = commands[i + 1]
      /\ \A i \in DOMAIN commands : i # 1 =>
           i - 1 \in DOMAIN commands' /\ commands'[i - 1] = commands[i]
  BY CommandsTail
<1> PICK n : n = Head(commands).id
  OBVIOUS
<1>2. n \in DOMAIN presses
  BY <1>1 DEF Inv, NamesPresses
<1> DEFINE kept == cancel(daemon, {daemon.byProfile[p] :
                                     p \in {Profile(n)} \cap DOMAIN daemon.byProfile})
           d == [kept EXCEPT !.trackers = With(@, n, 0), !.byProfile = With(@, Profile(n), n)]
           ids == {m \in {n} : "trigger_end" \in Policy(m).ends /\ Key(m) \notin daemon.active}
<1>3. /\ daemon' = cancel(d, ids)
      /\ expiries' = expiries \cup {[id |-> m, reason |-> "trigger_end"] : m \in ids}
  BY DEF track, _expire
<1>4. /\ DOMAIN d = DaemonFields
      /\ d.active = daemon.active /\ d.resetting = daemon.resetting
      /\ DOMAIN d.trackers = {m \in DOMAIN daemon.trackers : Profile(m) # Profile(n)} \cup {n}
      /\ d.trackers[n] = 0
      /\ \A m \in DOMAIN d.trackers : m # n => d.trackers[m] = daemon.trackers[m]
      /\ DOMAIN d.byProfile = DOMAIN daemon.byProfile \cup {Profile(n)}
      /\ d.byProfile[Profile(n)] = n
      /\ \A p \in DOMAIN daemon.byProfile :
           p # Profile(n) => d.byProfile[p] = daemon.byProfile[p]
  BY <1>2, TrackFacts
<1>5. /\ ids \subseteq {n}
      /\ \A m \in ids : "trigger_end" \in Policy(m).ends /\ Key(m) \notin daemon.active
  OBVIOUS
<1> HIDE DEF d, ids, kept
<1>6. /\ DOMAIN daemon' = DaemonFields
      /\ daemon'.active = daemon.active /\ daemon'.resetting = daemon.resetting
      /\ DOMAIN daemon'.trackers = DOMAIN d.trackers \ ids
      /\ \A m \in DOMAIN daemon'.trackers : daemon'.trackers[m] = d.trackers[m]
      /\ DOMAIN daemon'.byProfile = {p \in DOMAIN d.byProfile : d.byProfile[p] \notin ids}
      /\ \A p \in DOMAIN daemon'.byProfile : daemon'.byProfile[p] = d.byProfile[p]
  <2> DEFINE c == cancel(d, ids)
  <2>1. /\ DOMAIN c = DaemonFields
        /\ c.active = d.active /\ c.resetting = d.resetting
        /\ DOMAIN c.trackers = DOMAIN d.trackers \ ids
        /\ \A m \in DOMAIN c.trackers : c.trackers[m] = d.trackers[m]
        /\ DOMAIN c.byProfile = {p \in DOMAIN d.byProfile : d.byProfile[p] \notin ids}
        /\ \A p \in DOMAIN c.byProfile : c.byProfile[p] = d.byProfile[p]
    BY <1>4, CancelFacts
  <2>2. daemon' = c
    BY <1>3
  <2> HIDE DEF c
  <2> QED
    BY <1>4, <2>1, <2>2
<1>7. DOMAIN daemon.trackers \subseteq DOMAIN presses /\ DOMAIN presses \subseteq Nat
  BY PressFacts DEF Inv, NamesPresses
<1>8. DOMAIN daemon'.trackers \subseteq DOMAIN presses
  BY <1>2, <1>4, <1>6, <1>7
<1>9. IndexInv'
  <2>1. \A m : Profile(m)' = Profile(m)
    BY DEF Profile, Policy, Key
  <2>2. \A p \in DOMAIN d.byProfile :
          d.byProfile[p] \in DOMAIN d.trackers /\ Profile(d.byProfile[p]) = p
    BY <1>4 DEF Inv, IndexInv
  <2>3. \A m \in DOMAIN d.trackers :
          Profile(m) \in DOMAIN d.byProfile /\ d.byProfile[Profile(m)] = m
    BY <1>4 DEF Inv, IndexInv
  <2>4. ASSUME NEW p \in DOMAIN daemon'.byProfile
        PROVE  daemon'.byProfile[p] \in DOMAIN daemon'.trackers
                 /\ Profile(daemon.byProfile[p])' = p
    <3>1. Profile(daemon.byProfile[p])' = Profile(daemon'.byProfile[p])
      BY DEF Profile, Policy, Key
    <3> QED
      BY <1>6, <2>2, <3>1
  <2>5. \A m \in DOMAIN daemon'.trackers :
          Profile(m) \in DOMAIN daemon'.byProfile /\ daemon'.byProfile[Profile(m)] = m
    BY <1>6, <2>3
  <2> QED
    BY <2>1, <2>4, <2>5 DEF IndexInv
<1>10. CountInv'
  <2>1. \A m : Later(m)' = Later(m)
    BY DEF Later, Key
  <2>2. Cardinality(Later(n)) \in Nat
    <3>0. Len(presses) \in Nat /\ DOMAIN presses = 1..Len(presses)
      BY DEF Inv, Shapes
    <3>1. IsFiniteSet(1..Len(presses)) /\ Later(n) \subseteq 1..Len(presses)
      BY <3>0, FS_Interval DEF Later
    <3> QED
      BY <3>1, FS_Subset, FS_CardinalityType
  <2>3. \A m \in DOMAIN d.trackers :
          d.trackers[m] \in Nat /\ d.trackers[m] <= Cardinality(Later(m))
    BY <1>4, <2>2 DEF Inv, CountInv
  <2> QED
    BY <1>6, <2>1, <2>3 DEF CountInv
<1>11. ReasonInv'
  <2>1. \A m : Lifted(m)' <=> Lifted(m)
    BY <1>6 DEF Lifted, Key
  <2>2. \A m : Later(m)' = Later(m) /\ Policy(m)' = Policy(m)
    BY DEF Later, Policy, Key
  <2>3. ASSUME NEW e \in expiries', e \notin expiries
        PROVE  /\ e.reason = "trigger_end" /\ "trigger_end" \in Policy(e.id).ends
               /\ Lifted(e.id)
    <3>1. PICK m \in ids : e = [id |-> m, reason |-> "trigger_end"]
      BY <1>3, <2>3
    <3> QED
      BY <1>5, <3>1 DEF Lifted
  <2> QED
    BY <2>1, <2>2, <2>3 DEF Inv, ReasonInv
<1>12. /\ expiries' \subseteq [id : Nat, reason : Reasons]
       /\ \A e \in expiries' : e.id \in DOMAIN presses
  <2>1. \A m \in ids : /\ [id |-> m, reason |-> "trigger_end"] \in [id : Nat, reason : Reasons]
                       /\ [id |-> m, reason |-> "trigger_end"].id \in DOMAIN presses
    BY <1>2, <1>5, <1>7 DEF Reasons
  <2> QED
    BY <1>3, <2>1 DEF Inv, Shapes, NamesPresses
<1>13. ASSUME NEW p \in DOMAIN session.acts, OnItsWay(p, session.acts[p])
       PROVE  OnItsWay(p, session.acts[p])'
  <2> DEFINE a == session.acts[p]
  <2>1. a \in DOMAIN presses /\ Profile(a) = p
    BY DEF Inv, SessionInv
  <2>2. ASSUME NEW i \in Nat, NEW j \in Nat, i <= j + 1, NoTrackFrom(p, i)
        PROVE  NoTrackFrom(p, j)'
    BY <1>1, <2>2 DEF NoTrackFrom, Profile, Policy, Key
  <2>3. CASE \E e \in expiries : e.id = a
    <3>1. expiries \subseteq expiries'
      BY <1>3
    <3> QED
      BY <2>3, <3>1 DEF OnItsWay
  <2>4. ASSUME NEW i \in DOMAIN commands, commands[i].kind = "track", commands[i].id = a,
               NoTrackFrom(p, i + 1), i # 1
        PROVE  OnItsWay(p, session.acts[p])'
    <3> PICK j : j = i - 1
      OBVIOUS
    <3>1. j \in DOMAIN commands' /\ commands'[j] = commands[i] /\ j \in Nat /\ i = j + 1
      BY <1>1, <2>4
    <3>2. NoTrackFrom(p, j + 1)'
      BY <2>2, <2>4, <3>1
    <3>3. \E x \in DOMAIN commands' : /\ commands'[x].kind = "track" /\ commands'[x].id = a
                                      /\ NoTrackFrom(p, x + 1)'
      BY <2>4, <3>1, <3>2
    <3> QED
      BY <3>3 DEF OnItsWay
  <2>5. ASSUME n = a, NoTrackFrom(p, 1 + 1)
        PROVE  OnItsWay(p, session.acts[p])'
    <3>1. NoTrackFrom(p, 1)'
      BY <2>2, <2>5
    <3>2. CASE n \in ids
      <4>1. /\ [id |-> n, reason |-> "trigger_end"] \in expiries'
            /\ [id |-> n, reason |-> "trigger_end"].id = n
        BY <1>3, <3>2
      <4>2. \E e \in expiries' : e.id = a
        BY <2>5, <4>1
      <4> QED
        BY <4>2 DEF OnItsWay
    <3>3. CASE n \notin ids
      <4>1. a \in DOMAIN daemon'.trackers
        BY <1>4, <1>6, <2>5, <3>3
      <4> QED
        BY <3>1, <4>1 DEF OnItsWay
    <3> QED
      BY <3>2, <3>3
  <2>6. CASE a \in DOMAIN daemon.trackers /\ NoTrackFrom(p, 1)
    <3>1. NoTrackFrom(p, 1)'
      BY <2>2, <2>6
    <3>2. Profile(n) # p
      BY <1>1, <2>6 DEF NoTrackFrom
    <3>3. a \in DOMAIN daemon'.trackers
      BY <1>4, <1>5, <1>6, <2>1, <2>6, <3>2
    <3> QED
      BY <3>1, <3>3 DEF OnItsWay
  <2>7. CASE a \in DOMAIN handlers /\ handlers[a].pc = "applying"
    BY <2>7 DEF OnItsWay
  <2> QED
    BY <1>1, <1>13, <2>3, <2>4, <2>5, <2>6, <2>7 DEF OnItsWay
<1> QED
  BY <1>6, <1>8, <1>9, <1>10, <1>11, <1>12, <1>13, ServeStep

\* The daemon serves the next command.
LEMMA ServeKeeps ==
    ASSUME Inv, Serve
    PROVE  Inv'
BY ServeTrack, ServeCancel DEF Serve
-----------------------------------------------------------------------------
\* The invariant holds at first.
LEMMA InitInv ==
    ASSUME Init
    PROVE  Inv
<1>1. /\ presses = <<>> /\ handlers = << >> /\ queue = <<>> /\ commands = <<>>
      /\ expiries = {} /\ faults = 0 /\ overtaken = {}
  BY DEF Init
<1>2. /\ DOMAIN presses = {} /\ DOMAIN handlers = {} /\ DOMAIN queue = {}
      /\ DOMAIN commands = {} /\ presses \in Seq(Keys) /\ queue \in Seq(Events)
      /\ commands \in Seq(Commands) /\ Len(presses) = 0
  BY <1>1
<1>3. /\ DOMAIN daemon = DaemonFields /\ daemon.active = {}
      /\ DOMAIN daemon.trackers = {} /\ DOMAIN daemon.byProfile = {}
  BY NoTrackersFacts DEF Init
<1>4. /\ DOMAIN session = SessionFields /\ session.acts = << >> /\ session.enabled = {}
      /\ session.apply = "idle" /\ session.resolved = {} /\ session.applied = {}
  BY DEF Init, SessionFields
<1>5. DOMAIN session.acts = {}
  BY <1>4
<1>6. Shapes
  BY <1>1, <1>2, <1>3, <1>4, ActivationAssumption DEF Shapes
<1>7. NamesPresses /\ IndexInv /\ CountInv /\ ReasonInv
  BY <1>1, <1>2, <1>3 DEF NamesPresses, IndexInv, CountInv, ReasonInv
<1>8. SessionInv /\ ApplyInv /\ FreshInv /\ CancelInv /\ TrackInv
  BY <1>2, <1>4, <1>5 DEF SessionInv, ApplyInv, FreshInv, CancelInv, TrackInv, Active
<1> QED
  BY <1>6, <1>7, <1>8 DEF Inv

\* A step that changes nothing keeps the invariant.
LEMMA StutterInv ==
    ASSUME Inv, UNCHANGED vars
    PROVE  Inv'
<1>1. UNCHANGED <<presses, daemon, session, handlers, queue, expiries, commands, faults,
                  overtaken>>
  BY DEF vars
<1>2. SessionSound /\ SubActs /\ ApplyInv'
  <2>1. Changing => Changing'
    BY <1>1 DEF Changing
  <2> QED
    BY <1>1, <2>1, SessionSame, ApplyKept DEF Inv
<1> QED
  BY <1>1, <1>2, ApplyStep DEF vars, wire

\* Every step keeps the invariant.
LEMMA NextInv ==
    ASSUME Inv, [Next]_vars
    PROVE  Inv'
<1>1. ASSUME NEW n \in DOMAIN presses, HandlerStep(n)
      PROVE  Inv'
  BY <1>1, SendTrackKeeps, TrackedKeeps, DroppedKeeps, ClearedKeeps, ReadFlagKeeps,
     SaveFlagKeeps, SetProfileEnabledKeeps, DisabledKeeps, SettleKeeps DEF HandlerStep
<1>2. ASSUME NEW n \in DOMAIN presses,
             _timeout_after(n) \/ handle_profile_deactivate_requested(n) \/ TrackFailed(n)
      PROVE  Inv'
  BY <1>2, TimeoutKeeps, DeactivateKeeps, TrackFailedKeeps
<1>3. ASSUME NEW k \in Keys, Press(k) \/ Release(k)
      PROVE  Inv'
  BY <1>3, PressKeeps, ReleaseKeeps
<1>4. CASE Serve \/ ResetBegin \/ ResetEnd
  BY <1>4, ServeKeeps, ResetBeginKeeps, ResetEndKeeps
<1>5. CASE resolve \/ ApplyEnds \/ HandleEvent \/ Reconnect
  BY <1>5, ResolveKeeps, ApplyEndsKeeps, HandleEventKeeps, ReconnectKeeps
<1>6. CASE UNCHANGED vars
  BY <1>6, StutterInv
<1> QED
  BY <1>1, <1>2, <1>3, <1>4, <1>5, <1>6 DEF Next

\* The invariant is inductive.
LEMMA InvHolds == Spec => []Inv
<1>1. Init => Inv
  BY InitInv
<1>2. Inv /\ [Next]_vars => Inv'
  BY NextInv
<1> QED
  BY <1>1, <1>2, PTL DEF Spec
-----------------------------------------------------------------------------
\* Types, and the tracker's two indexes agree: cancel, track and _expire of
\* ProfileActivationTracker always change both.
THEOREM TypesHold == Spec => []TypeOK
<1>1. ASSUME Inv
      PROVE  TypeOK
  <2> USE <1>1
  <2>1. \A p \in DOMAIN session.acts : p \in Profiles /\ session.acts[p] \in DOMAIN presses
    BY PressFacts DEF Inv, SessionInv
  <2>2. {daemon.byProfile[p] : p \in DOMAIN daemon.byProfile} = DOMAIN daemon.trackers
    BY DEF Inv, IndexInv
  <2>3. \A n \in DOMAIN handlers : handlers[n].pc \in Pcs
    BY DEF Inv, Shapes, Tasks
  <2>4. {e.id : e \in expiries} \cup overtaken \subseteq DOMAIN presses
    BY DEF Inv, NamesPresses
  <2>5. \A n \in DOMAIN daemon.trackers : daemon.trackers[n] \in Nat
    BY DEF Inv, CountInv
  <2>6. /\ presses \in Seq(Keys) /\ Len(presses) <= MaxPresses /\ faults \in 0..MaxFaults
        /\ daemon.active \subseteq Keys
    BY DEF Inv, Shapes, NamesPresses
  <2>7. /\ session.enabled \cup session.applied \subseteq Profiles
        /\ session.apply \in {"idle", "new", "applying"}
    BY DEF Inv, SessionInv
  <2> QED
    BY <2>1, <2>2, <2>3, <2>4, <2>5, <2>6, <2>7 DEF TypeOK
<1> QED
  BY <1>1, InvHolds, PTL

\* With no apply and no change under way the applied profiles are the active
\* ones: every change of the activations and of the enabled flags in
\* session/manager is followed by a reevaluation, and no apply that resolved
\* before it is the last.
THEOREM AppliedIsActive == Spec => []AppliesActive
<1>1. Inv => AppliesActive
  BY DEF Inv, ApplyInv, AppliesActive
<1> QED
  BY <1>1, InvHolds, PTL

\* When nothing is under way the daemon tracks every activation that the session
\* has, unless an older activation's TRACK overtook it: no interleaving of
\* triggers, expiries, CANCELs, resets and reconnects loses the tracker.
THEOREM ActivationsTracked == Spec => []ActivationIsTracked
<1>1. ASSUME Inv
      PROVE  ActivationIsTracked
  <2> SUFFICES ASSUME Quiet, NEW p \in DOMAIN session.acts
               PROVE  session.acts[p] \in DOMAIN daemon.trackers \cup overtaken
    BY DEF ActivationIsTracked
  <2>1. /\ DOMAIN handlers = {} /\ DOMAIN queue = {} /\ DOMAIN commands = {}
        /\ expiries = {}
    BY DEF Quiet
  <2>2. ~ResetPending
    BY <2>1 DEF ResetPending, Quiet
  <2>3. session.acts[p] \in overtaken \/ OnItsWay(p, session.acts[p])
    BY <1>1, <2>2 DEF Inv, TrackInv
  <2> QED
    BY <2>1, <2>3 DEF OnItsWay
<1> QED
  BY <1>1, InvHolds, PTL

\* Only handle_profile_deactivate_requested uses up a request without a fault.
LEMMA OnlyDeactivateUses ==
    ASSUME Inv, Next, ~(expiries \subseteq expiries'), faults' = faults
    PROVE  \E n \in DOMAIN presses : handle_profile_deactivate_requested(n)
<1>1. ASSUME NEW d, NEW ids, NEW r, _expire(d, ids, r)
      PROVE  expiries \subseteq expiries'
  BY <1>1 DEF _expire
<1>2. ~\E k \in Keys : Press(k) \/ Release(k)
  BY <1>1 DEF Press, Release, record_action, observe_trigger_end
<1>3. ~\E n \in DOMAIN presses : _timeout_after(n) \/ HandlerStep(n) \/ TrackFailed(n)
  BY <1>1 DEF _timeout_after, HandlerStep, TrackFailed, SendTrack, Tracked, Dropped, Cleared,
     ReadFlag, SaveFlag, set_profile_enabled, Disabled, Settle, wire
<1>4. ~(Serve \/ ResetBegin \/ ResetEnd)
  BY <1>1 DEF Serve, track, ResetBegin, ResetEnd, observe_trigger_end, wire
<1>5. ~(resolve \/ ApplyEnds \/ HandleEvent)
  BY DEF resolve, ApplyEnds, HandleEvent, wire
<1>6. ~Reconnect
  <2>1. faults \in Nat
    BY ActivationAssumption DEF Inv, Shapes
  <2> QED
    BY <2>1 DEF Reconnect
<1> QED
  BY <1>2, <1>3, <1>4, <1>5, <1>6 DEF Next

\* A deactivation request ends an activation for that activation's own reason
\* only: its trigger was released, other keys were pressed often enough after
\* it, or its own timeout fired (_expire of the tracker, and the session's check
\* of the activation id).
THEOREM EndsWithReason == Spec => EndsForItsReason
<1> DEFINE A == \A p \in DOMAIN session.acts :
                  ~(expiries \subseteq expiries') /\ faults' = faults
                    /\ p \notin DOMAIN session.acts' => Due(session.acts[p])
<1>1. ASSUME Inv, [Next]_vars
      PROVE  [A]_vars
  <2> SUFFICES ASSUME Next, NEW p \in DOMAIN session.acts, ~(expiries \subseteq expiries'),
                      faults' = faults, p \notin DOMAIN session'.acts
               PROVE  Due(session.acts[p])
    BY <1>1
  <2>1. PICK n \in DOMAIN presses : handle_profile_deactivate_requested(n)
    BY <1>1, OnlyDeactivateUses
  <2>2. PICK e \in expiries : e.id = n
    BY <2>1 DEF handle_profile_deactivate_requested
  <2>3. session.acts[p] = n
    <3> DEFINE ends == {q \in {Profile(n)} \cap DOMAIN session.acts : session.acts[q] = n}
               X == Without(session.acts, ends)
    <3>1. CASE session' = session
      BY <3>1
    <3>2. CASE session' = reevaluate([session EXCEPT !.acts = X])
      <4>1. DOMAIN X = DOMAIN session.acts \ ends
        BY DEF Without
      <4> HIDE DEF X
      <4>2. session'.acts = X
        BY <1>1, <3>2, ActsReplaced
      <4> QED
        BY <4>1, <4>2
    <3> QED
      BY <2>1, <3>1, <3>2 DEF handle_profile_deactivate_requested
  <2>4. e \in [id : Nat, reason : Reasons]
    BY <1>1 DEF Inv, Shapes
  <2>5. CASE e.reason = "trigger_end"
    <3>1. "trigger_end" \in Policy(n).ends /\ Lifted(n)
      BY <1>1, <2>2, <2>5 DEF Inv, ReasonInv
    <3> QED
      BY <2>3, <3>1 DEF Due
  <2>6. CASE e.reason = "action_count"
    <3>1. Policy(n).after > 0 /\ Cardinality(Later(n)) >= Policy(n).after
      BY <1>1, <2>2, <2>6 DEF Inv, ReasonInv
    <3> QED
      BY <2>3, <3>1 DEF Due, Later
  <2>7. CASE e.reason = "timeout"
    <3>1. e = [id |-> n, reason |-> "timeout"]
      BY <2>2, <2>4, <2>7
    <3> QED
      BY <2>3, <3>1 DEF Due
  <2> QED
    BY <2>4, <2>5, <2>6, <2>7 DEF Reasons
<1> QED
  BY <1>1, InvHolds, PTL DEF Spec, EndsForItsReason
=============================================================================
