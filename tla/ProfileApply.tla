---------------------------- MODULE ProfileApply ----------------------------
(***************************************************************************)
(* The session's profile application (session/manager/profile): every      *)
(* change of window, configuration or activation starts a new generation   *)
(* that supersedes the running one, resolves the active profiles and       *)
(* brings the daemon to them with GRAB_DEVICE, SET_MAPPING, RELEASE_DEVICE *)
(* and SET_ROLLOVER_GROUPS, skipping what the daemon is believed to have.  *)
(* A superseded apply is cancelled at its await: the answer of a grab, a   *)
(* release or a rollover command is lost, a mapping command is settled     *)
(* first because its command references (exec refs) must stay resolvable.  *)
(*                                                                         *)
(* One device with one fixed set of interfaces is modelled; SET_COMBOS     *)
(* follows the same protocol as SET_MAPPING and is left out.  A signature  *)
(* stands for the payload it identifies.  One counter numbers both the     *)
(* client's requests and device_request_sequence (they grow together), and *)
(* the references of a mapping are named by the request that carries them. *)
(***************************************************************************)
EXTENDS Naturals, Sequences

CONSTANTS
    Contexts,      \* windows and configurations that select profiles
    Resolve,       \* Resolve[c]: the payload signatures of the profiles of c
    InitialContext,
    NoSig,         \* nothing sent or installed
    Unknown,       \* rollover.UNKNOWN_SIGNATURE
    MaxGens,       \* bound on generations
    MaxFaults      \* bound on resets, losses, disconnections and failed grabs

\* rollover.EMPTY_SIGNATURE: what a daemon without groups has.
EmptyRoll == Resolve[InitialContext].roll

ASSUME ProfileAssumption ==
    /\ InitialContext \in Contexts
    /\ MaxGens \in Nat \ {0} /\ MaxFaults \in Nat
    /\ \A c \in Contexts : DOMAIN Resolve[c] = {"grab", "map", "roll"}
    /\ \A c \in Contexts : Unknown # Resolve[c].roll /\ NoSig # Resolve[c].map

VARIABLES
    context,    \* what the resolution reads
    s,          \* ProfileRuntimeState and ExecRuntimeState
    gen,        \* apply_generation
    tasks,      \* the live apply tasks, by generation
    commands,   \* written to the daemon and not yet served
    replies,    \* answered and not yet seen by the task that waits
    daemon,     \* what the daemon has for the device, and its groups
    events,     \* broadcast by the daemon and not yet handled
    faults,
    overtaken   \* history: what the daemon may have and the session forgot

vars == <<context, s, gen, tasks, commands, replies, daemon, events, faults, overtaken>>

\* ok, waiting: grabbed, or waited for (zero interfaces with waiting_for_device);
\* busy: "timed out waiting" for keys to be up; late: the client's own timeout;
\* paused: zero interfaces while remapping is suspended; error: any other failure.
Answers == {"ok", "waiting", "busy", "late", "paused", "error"}
Timeouts == {"busy", "late"}

Steps == {"new", "regrab", "grab", "remap", "mapping", "release", "rerelease", "rollover"}
MappingSteps == {"remap", "mapping"}
Kinds == {"grab", "map", "release", "roll"}

\* A device without an effective mapping is released, not grabbed.
Effective(r) == r.grab # NoSig

FreshDaemon == [grabbed |-> FALSE, desired |-> FALSE, grab |-> NoSig, map |-> NoSig,
                ref |-> 0, roll |-> EmptyRoll, releasing |-> FALSE, present |-> TRUE]

\* remap: mapping.update_needed, as the apply found it.
NewTask(c) == [step |-> "new", res |-> Resolve[c], req |-> 0, remap |-> FALSE,
               cancelled |-> FALSE]

Init ==
    /\ context = InitialContext
    /\ s = [grabbed |-> FALSE, waiting |-> FALSE, retry |-> "no", grab |-> NoSig,
            map |-> NoSig, roll |-> EmptyRoll, seq |-> 0, acked |-> 0,
            exec |-> {}, owned |-> {}, retired |-> {}]
    /\ gen = 1
    /\ tasks = [g \in {1} |-> NewTask(InitialContext)]
    /\ commands = <<>> /\ replies = {} /\ daemon = FreshDaemon
    /\ events = {} /\ faults = 0 /\ overtaken = {}
-----------------------------------------------------------------------------
\* The function f with the value y at x.
With(f, x, y) == [z \in DOMAIN f \cup {x} |-> IF z = x THEN y ELSE f[z]]

\* What a step of an apply leaves: the session's state, a command it wrote and
\* the await it reached ("done" when the generation ends).
Await(state, kind, sig, step) ==
    [s |-> [state EXCEPT !.seq = @ + 1], step |-> step,
     cmd |-> <<[kind |-> kind, sig |-> sig, req |-> state.seq + 1]>>]

Ended(state) == [s |-> state, step |-> "done", cmd |-> <<>>]

\* Without UNKNOWN_SIGNATURE: the last acknowledged groups stay believed.
update_rollover_groups_keeps_signature(state, t) ==
    IF state.roll = t.res.roll
      THEN Ended(state)
      ELSE Await(state, "roll", t.res.roll, "rollover")

\* update_rollover_groups: the groups are unknown from the write to the answer.
update_rollover_groups(state, t) ==
    IF state.roll = t.res.roll
      THEN Ended(state)
      ELSE Await([state EXCEPT !.roll = Unknown], "roll", t.res.roll, "rollover")

\* references.expose: staged refs resolve before the daemon can use them.
SendMapping(state, t, step) ==
    Await([state EXCEPT !.exec = @ \cup {state.seq + 1}], "map", t.res.map, step)

SendGrab(state, t, step) == Await(state, "grab", t.res.grab, step)

\* cancel_grab_retry and grab_waiting_devices.discard, then RELEASE_DEVICE.
deactivate_profile(state, step) ==
    Await([state EXCEPT !.retry = "no", !.waiting = FALSE], "release", NoSig, step)

\* clear_hardware_runtime_state, with retire_device.
clear_hardware_runtime_state(state) ==
    [state EXCEPT !.grabbed = FALSE, !.waiting = FALSE, !.retry = "no",
                  !.grab = NoSig, !.map = NoSig, !.owned = {},
                  !.exec = @ \ state.owned, !.retired = @ \cup state.owned]

_reconcile_existing_grab(state, t) ==
    IF state.grab # t.res.grab THEN SendGrab(state, t, "regrab")
    ELSE IF t.remap THEN SendMapping(state, t, "remap")
    ELSE update_rollover_groups(state, t)

\* apply_resolved_device_profile up to its first await.
apply_resolved_device_profile(state, t) ==
    IF ~Effective(t.res)
      THEN LET cleared == [state EXCEPT !.retry = "no", !.waiting = FALSE, !.grab = NoSig]
           IN IF state.grabbed THEN deactivate_profile(cleared, "release")
                               ELSE update_rollover_groups(cleared, t)
    ELSE IF state.waiting /\ ~state.grabbed /\ state.grab = t.res.grab
      THEN update_rollover_groups(state, t)
    ELSE IF state.grabbed THEN _reconcile_existing_grab(state, t)
    ELSE SendGrab(state, t, "grab")

_acknowledge_device_request(state, req) ==
    [state EXCEPT !.acked = IF req > @ THEN req ELSE @]

\* update_grab_device_payload has its answer; a refusal forces a re-grab.
Regrabbed(state, t, answer) ==
    LET acked == _acknowledge_device_request([state EXCEPT !.grab = t.res.grab], t.req)
    IN IF answer # "ok"
         THEN IF state.grabbed THEN deactivate_profile(state, "rerelease")
                               ELSE SendGrab(state, t, "grab")
       ELSE IF ~t.remap THEN update_rollover_groups(acked, t)
       ELSE IF ~acked.grabbed THEN SendGrab(acked, t, "grab")
       ELSE SendMapping(acked, t, "remap")

\* schedule_grab_retry: at most one retry exists, and the one that started this
\* apply exists until the apply has ended.
schedule_grab_retry(state) ==
    [state EXCEPT !.retry = IF @ = "no" THEN "armed" ELSE @]

\* _send_grab_device_command has its answer: only timeouts are retried.
Grabbed(state, t, answer) ==
    CASE answer = "ok" ->
           SendMapping(_acknowledge_device_request(
               [state EXCEPT !.retry = "no", !.waiting = FALSE, !.grabbed = TRUE,
                             !.grab = t.res.grab], t.req), t, "mapping")
      [] answer = "waiting" ->
           update_rollover_groups([state EXCEPT !.retry = "no", !.grabbed = FALSE,
               !.waiting = TRUE, !.grab = t.res.grab, !.map = NoSig], t)
      [] answer = "paused" ->
           update_rollover_groups([state EXCEPT !.retry = "no", !.grabbed = FALSE,
               !.waiting = FALSE, !.grab = NoSig, !.map = NoSig], t)
      [] answer \in Timeouts -> update_rollover_groups(schedule_grab_retry(state), t)
      [] OTHER -> update_rollover_groups(state, t)

\* A device that was lost between its grab and its mapping is grabbed again
\* later, unless a later request has been acknowledged meanwhile.
_defer_mapping_until_regrab(state, req) ==
    IF state.acked > req
      THEN state
      ELSE schedule_grab_retry(clear_hardware_runtime_state(state))

\* A superseded answer is treated like a refused one.
_commit_device_references_of_newest(state, req, current) ==
    IF current
      THEN [state EXCEPT !.exec = (@ \ state.owned) \cup {req}, !.owned = {req},
                         !.retired = @ \cup state.owned]
      ELSE [state EXCEPT !.exec = @ \ {req}]

\* _commit_device_references: the newest generation replaces the device's refs,
\* a superseded one that the daemon accepted only adds its own.
_commit_device_references(state, req, current) ==
    IF current
      THEN [state EXCEPT !.exec = (@ \ state.owned) \cup {req}, !.owned = {req},
                         !.retired = @ \cup state.owned]
      ELSE [state EXCEPT !.exec = @ \cup {req}, !.owned = @ \cup {req}]

\* What a mapping answer does to references and grab state, whether or not the
\* apply that sent the command has been superseded.
SettleMapping(state, t, answer, current) ==
    CASE answer = "ok" -> _commit_device_references(state, t.req, current)
      [] answer = "waiting" ->
           [_defer_mapping_until_regrab(state, t.req) EXCEPT !.exec = @ \ {t.req}]
      [] OTHER -> [state EXCEPT !.exec = @ \ {t.req}]

\* update_mapping or _send_set_mapping_command has its answer.
Mapped(state, t, answer) ==
    LET settled == SettleMapping(state, t, answer, TRUE)
    IN IF answer = "ok"
         THEN update_rollover_groups(
                _acknowledge_device_request([settled EXCEPT !.map = t.res.map], t.req), t)
       ELSE IF answer = "error" /\ t.step = "remap" /\ settled.grabbed
         THEN deactivate_profile(settled, "rerelease")
       ELSE update_rollover_groups(settled, t)

\* deactivate_profile has its answer; a forced release goes on to the grab.
Released(state, t) ==
    LET cleared == clear_hardware_runtime_state(state)
    IN IF t.step = "release" THEN update_rollover_groups(cleared, t)
                             ELSE SendGrab(cleared, t, "grab")

RolledOver(state, t, answer) ==
    Ended(IF answer = "ok" THEN [state EXCEPT !.roll = t.res.roll] ELSE state)

Answered(state, t, answer) ==
    CASE t.step = "regrab" -> Regrabbed(state, t, answer)
      [] t.step = "grab" -> Grabbed(state, t, answer)
      [] t.step \in MappingSteps -> Mapped(state, t, answer)
      [] t.step \in {"release", "rerelease"} -> Released(state, t)
      [] OTHER -> RolledOver(state, t, answer)
-----------------------------------------------------------------------------
\* Parts of the daemon's device state that a lost answer leaves in doubt.
InDoubt(t) ==
    CASE t.step \in {"grab", "regrab"} -> {"grab"}
      [] t.step \in MappingSteps -> {"map"}
      [] t.step \in {"release", "rerelease"} -> {"grab", "map"}
      [] OTHER -> {}

\* Task.cancel at the await of an apply: a mapping command is settled first
\* (_send_reference_command), every other apply ends there.
Cancel(live) ==
    [g \in {h \in DOMAIN live : h # gen \/ live[h].step \in MappingSteps} |->
        [live[g] EXCEPT !.cancelled = TRUE]]

\* ReconciliationGenerationState.begin and track, with the session's state after
\* whatever the caller did before; forgotten: what that made the session forget.
begin(c, state, forgotten) ==
    /\ gen < MaxGens
    /\ gen' = gen + 1
    /\ context' = c
    /\ s' = state
    /\ tasks' = With(Cancel(tasks), gen + 1, NewTask(c))
    /\ overtaken' = overtaken \cup forgotten \cup
          (IF gen \in DOMAIN tasks THEN InDoubt(tasks[gen]) ELSE {})
    /\ replies' = {r \in replies :
          \E g \in DOMAIN tasks' : tasks'[g].req = r.req /\ tasks'[g].step # "new"}

\* The apply t of generation g ran until the result o.
Take(g, t, o) ==
    /\ s' = o.s
    /\ commands' = commands \o o.cmd
    /\ tasks' = IF o.step = "done"
                  THEN [h \in DOMAIN tasks \ {g} |-> tasks[h]]
                  ELSE [tasks EXCEPT ![g] = [t EXCEPT !.step = o.step, !.req = o.s.seq]]

\* _reevaluate_profiles starts: the profiles are resolved from the context that
\* is current now.
reconcile(g) ==
    /\ g \in DOMAIN tasks /\ tasks[g].step = "new"
    /\ \E t \in {[tasks[g] EXCEPT !.res = Resolve[context],
                                  !.remap = s.map # Resolve[context].map]} :
         \E o \in {apply_resolved_device_profile(s, t)} : Take(g, t, o)
    /\ UNCHANGED <<context, gen, replies, daemon, events, faults, overtaken>>

\* is_current
IsCurrent(g) == g = gen /\ ~tasks[g].cancelled

\* A current command that was answered overwrites what was in doubt.
Confirms(t, answer) ==
    CASE t.step \in {"grab", "regrab"} /\ answer = "ok" -> {"grab"}
      [] t.step \in MappingSteps /\ answer = "ok" -> {"map"}
      [] OTHER -> {}

\* A grab is given up that fails for another reason than a timeout, or times out
\* while its retry runs; after the client's timeout the daemon may have grabbed.
GivenUp(t, answer) ==
    IF t.step # "grab" THEN {}
    ELSE CASE answer = "paused" -> {"grab", "map"}
           [] answer = "error" /\ s.retry # "armed" -> {"grab", "map"}
           [] answer \in Timeouts /\ s.retry = "running" -> {"grab", "map"}
           [] answer = "late" /\ s.retry # "running" -> {"grab"}
           [] OTHER -> {}

\* The answer arrives at the apply that waits for it.
Resume(g) ==
    /\ g \in DOMAIN tasks
    /\ \E r \in replies :
        /\ r.req = tasks[g].req /\ tasks[g].step # "new"
        /\ replies' = replies \ {r}
        /\ \/ /\ IsCurrent(g)
              /\ \E o \in {Answered(s, tasks[g], r.answer)} : Take(g, tasks[g], o)
              /\ overtaken' = (overtaken \ Confirms(tasks[g], r.answer))
                                \cup GivenUp(tasks[g], r.answer)
           \/ /\ ~IsCurrent(g)
              /\ s' = IF tasks[g].step \in MappingSteps
                        THEN SettleMapping(s, tasks[g], r.answer, g = gen)
                      ELSE IF tasks[g].step = "rollover"
                        THEN RolledOver(s, tasks[g], r.answer).s
                      ELSE s
              /\ tasks' = [h \in DOMAIN tasks \ {g} |-> tasks[h]]
              /\ UNCHANGED <<commands, overtaken>>
    /\ UNCHANGED <<context, gen, daemon, events, faults>>
-----------------------------------------------------------------------------
\* The window, the configuration or the set of activations changes.
ChangeContext(c) ==
    /\ c # context
    /\ begin(c, s, {})
    /\ UNCHANGED <<commands, daemon, events, faults>>

\* The retry wakes and awaits the apply that it requests, or its successor.
Retry ==
    /\ s.retry = "armed"
    /\ begin(context, [s EXCEPT !.retry = "running"], {})
    /\ UNCHANGED <<commands, daemon, events, faults>>

RetryReturns ==
    /\ s.retry = "running" /\ gen \notin DOMAIN tasks
    /\ s' = [s EXCEPT !.retry = "no"]
    /\ UNCHANGED <<context, gen, tasks, commands, replies, daemon, events, faults, overtaken>>

\* A device that was waited for is still waited for.
invalidate_grabbed_state_keeps_waiting(state) ==
    [state EXCEPT !.grabbed = FALSE, !.retry = "no", !.map = NoSig, !.roll = Unknown,
                  !.exec = @ \ state.owned, !.owned = {}, !.retired = {}]

\* invalidate_grabbed_state, with references.clear_all.
invalidate_grabbed_state(state) ==
    [state EXCEPT !.grabbed = FALSE, !.waiting = FALSE, !.retry = "no",
                  !.grab = NoSig, !.map = NoSig, !.roll = Unknown,
                  !.exec = @ \ state.owned, !.owned = {}, !.retired = {}]

\* handle_runtime_reset_event, or schedule_topology_refresh after its debounce.
HandleEvent(e) ==
    /\ e \in events
    /\ begin(context, invalidate_grabbed_state(s),
             IF daemon.grabbed THEN {"grab", "map"} ELSE {})
    /\ events' = events \ {e}
    /\ UNCHANGED <<commands, daemon, faults>>

\* collect_retired: refs that the daemon no longer uses are dropped.
collect_retired ==
    /\ \E r \in s.retired : r # daemon.ref
    /\ s' = [s EXCEPT !.retired = {r \in @ : r = daemon.ref}]
    /\ UNCHANGED <<context, gen, tasks, commands, replies, daemon, events, faults, overtaken>>
-----------------------------------------------------------------------------
\* The client forgets the request of an apply that was cancelled.
Reply_to_running(req, answer) ==
    replies' = replies \cup
        {r \in {[req |-> req, answer |-> answer]} :
            \E g \in DOMAIN tasks : tasks[g].req = req /\ ~tasks[g].cancelled}

\* An answer nobody waits for is dropped by the client.
Reply(req, answer) ==
    replies' = replies \cup
        {r \in {[req |-> req, answer |-> answer]} : \E g \in DOMAIN tasks : tasks[g].req = req}

Fails == faults < MaxFaults /\ faults' = faults + 1

\* The answer of a grab, in time or after the client's timeout.
ReplyOrLate(req, answer) ==
    \/ Reply(req, answer) /\ UNCHANGED faults
    \/ Reply(req, "late") /\ ~daemon.grabbed /\ Fails

\* grab_device: a device that is grabbed keeps its grab at once; one that is away
\* is desired and waited for; one whose keys stay down or whose grab fails is
\* rolled back to what was desired before, but one without a mapped interface
\* stays desired; while remapping is suspended nothing is tried.
grab_device(sig, req) ==
    \/ /\ daemon.present
       /\ daemon' = [daemon EXCEPT !.grabbed = TRUE, !.desired = TRUE, !.grab = sig,
                                   !.releasing = FALSE]
       /\ ReplyOrLate(req, "ok")
    \/ /\ ~daemon.present
       /\ daemon' = [daemon EXCEPT !.desired = TRUE, !.releasing = FALSE]
       /\ ReplyOrLate(req, "waiting")
    \/ /\ daemon.present /\ ~daemon.grabbed
       /\ daemon' = [daemon EXCEPT !.releasing = FALSE]
       /\ ReplyOrLate(req, "busy") \/ (Reply(req, "error") /\ Fails)
    \/ /\ daemon.present /\ ~daemon.grabbed
       /\ daemon' = [daemon EXCEPT !.desired = TRUE, !.releasing = FALSE]
       /\ Reply(req, "error") /\ Fails
    \/ /\ ~daemon.grabbed
       /\ daemon' = daemon
       /\ Reply(req, "paused") /\ Fails

\* set_mapping: a pending release is cancelled in any case.
set_mapping(sig, req) ==
    \/ /\ daemon.grabbed
       /\ daemon' = [daemon EXCEPT !.map = sig, !.ref = req, !.releasing = FALSE]
       /\ Reply(req, "ok")
    \/ /\ ~daemon.grabbed
       /\ daemon' = [daemon EXCEPT !.releasing = FALSE]
       /\ Reply(req, IF daemon.desired THEN "waiting" ELSE "error")

\* schedule_hardware_release_unlocked: the mapping goes at once, the grab after
\* the grace period.
schedule_hardware_release(req) ==
    /\ daemon' = IF daemon.grabbed
                   THEN [daemon EXCEPT !.map = NoSig, !.ref = 0, !.releasing = TRUE]
                   ELSE [daemon EXCEPT !.map = NoSig, !.ref = 0, !.desired = FALSE]
    /\ Reply(req, "ok")

set_rollover_groups(sig, req) ==
    /\ daemon' = [daemon EXCEPT !.roll = sig]
    /\ Reply(req, "ok")

\* The daemon serves one command of its only client at a time.
Serve ==
    /\ commands # <<>>
    /\ commands' = Tail(commands)
    /\ LET c == Head(commands) IN
         \/ c.kind = "grab" /\ grab_device(c.sig, c.req)
         \/ c.kind = "map" /\ set_mapping(c.sig, c.req) /\ UNCHANGED faults
         \/ c.kind = "release" /\ schedule_hardware_release(c.req) /\ UNCHANGED faults
         \/ c.kind = "roll" /\ set_rollover_groups(c.sig, c.req) /\ UNCHANGED faults
    /\ UNCHANGED <<context, s, gen, tasks, events, overtaken>>

delayed_hardware_release ==
    /\ daemon.releasing
    /\ daemon' = [daemon EXCEPT !.grabbed = FALSE, !.desired = FALSE, !.grab = NoSig,
                                !.map = NoSig, !.ref = 0, !.releasing = FALSE]
    /\ UNCHANGED <<context, s, gen, tasks, commands, replies, events, faults, overtaken>>

\* release_all_devices: what is left of a daemon that was reset.
Reset == [FreshDaemon EXCEPT !.present = daemon.present]

\* emergency_reset, announced to the session.
emergency_reset ==
    /\ faults < MaxFaults
    /\ daemon' = Reset
    /\ events' = events \cup {"reset"}
    /\ faults' = faults + 1
    /\ UNCHANGED <<context, s, gen, tasks, commands, replies, overtaken>>

\* Topology events are broadcast for desired devices only
\* (live_interface_matches_desired).
Announced == IF daemon.desired THEN {"topology"} ELSE {}

\* The device goes away and comes back; its grab stays desired and its mapping
\* stays installed.
Unplug ==
    /\ faults < MaxFaults /\ daemon.present
    /\ daemon' = [daemon EXCEPT !.present = FALSE, !.grabbed = FALSE]
    /\ events' = events \cup Announced
    /\ faults' = faults + 1
    /\ UNCHANGED <<context, s, gen, tasks, commands, replies, overtaken>>

Replug ==
    /\ ~daemon.present
    /\ daemon' = [daemon EXCEPT !.present = TRUE]
    /\ events' = events \cup Announced
    /\ UNCHANGED <<context, s, gen, tasks, commands, replies, faults, overtaken>>

\* The connection is lost, also after a mapping command that timed out: every
\* apply fails at its await, the daemon releases all, the session forgets all
\* (_handle_keymasqd_disconnect) and starts over once it is connected again.
Reconnect ==
    /\ faults < MaxFaults /\ gen < MaxGens
    /\ gen' = gen + 1
    /\ tasks' = [g \in {gen + 1} |-> NewTask(context)]
    /\ s' = [invalidate_grabbed_state(s) EXCEPT !.exec = {}]
    /\ commands' = <<>> /\ replies' = {} /\ events' = {} /\ overtaken' = {}
    /\ daemon' = Reset
    /\ faults' = faults + 1
    /\ UNCHANGED context

Next ==
    \/ \E g \in 1..MaxGens : reconcile(g) \/ Resume(g)
    \/ \E c \in Contexts : ChangeContext(c)
    \/ Retry \/ RetryReturns
    \/ \E e \in {"reset", "topology"} : HandleEvent(e)
    \/ collect_retired
    \/ Serve
    \/ delayed_hardware_release
    \/ emergency_reset \/ Unplug \/ Replug \/ Reconnect

Spec == Init /\ [][Next]_vars

\* The event loops of both processes run what is ready, and the daemon answers
\* what it reads.
FairSpec ==
    /\ Spec
    /\ WF_vars(Serve)
    /\ \A g \in 1..MaxGens : WF_vars(reconcile(g)) /\ WF_vars(Resume(g))
-----------------------------------------------------------------------------
\* Types; the references a device owns resolve.
TypeOK ==
    /\ context \in Contexts /\ gen \in 1..MaxGens /\ faults \in 0..MaxFaults
    /\ DOMAIN tasks \subseteq 1..gen
    /\ \A g \in DOMAIN tasks : tasks[g].step \in Steps /\ tasks[g].req \in 0..s.seq
    /\ \A i \in DOMAIN commands : commands[i].kind \in Kinds /\ commands[i].req \in 1..s.seq
    /\ \A r \in replies : r.answer \in Answers /\ r.req \in 1..s.seq
    /\ s.owned \subseteq s.exec /\ s.exec \subseteq 1..s.seq /\ s.retired \subseteq 1..s.seq
    /\ events \subseteq {"reset", "topology"} /\ overtaken \subseteq {"grab", "map"}

\* While the session believes in the mapping it sent, whatever mapping the
\* daemon runs, a superseded one included, carries references that the session
\* can still resolve to their commands.
RefsResolve == s.map # NoSig /\ daemon.ref # 0 => daemon.ref \in s.exec \cup s.retired

\* The daemon's groups are sig once it has read what was written.
RollWillBe(sig) ==
    LET rolls == {i \in DOMAIN commands : commands[i].kind = "roll"}
    IN  /\ rolls = {} => daemon.roll = sig
        /\ \A i \in rolls : (\A j \in rolls : j <= i) => commands[i].sig = sig

\* Groups that the session takes for acknowledged are the daemon's groups, also
\* with commands of superseded applies still in the socket.
RolloverAgrees == s.roll # Unknown /\ "reset" \notin events => RollWillBe(s.roll)

\* Nothing is under way.
Quiet ==
    /\ DOMAIN tasks = {} /\ commands = <<>> /\ events = {} /\ s.retry = "no"
    /\ daemon.present

\* Once everything is quiet the daemon has what the newest context resolves to,
\* except for a part that a superseded apply changed, a reset forgot or a refusal
\* without a retry gave up, and that no later command set.  A grab that timed out
\* is not such a part: its retry is still to come, or brought it.
AppliesNewest ==
    Quiet =>
        LET r == Resolve[context] IN
        /\ daemon.roll = r.roll
        /\ Effective(r) /\ "grab" \notin overtaken => daemon.grabbed /\ daemon.grab = r.grab
        /\ Effective(r) /\ "map" \notin overtaken => daemon.map = r.map
        /\ ~Effective(r) /\ "grab" \notin overtaken => ~daemon.grabbed \/ daemon.releasing

\* Every apply ends, superseded or not: nobody who awaits one waits forever.
ApplyEnds ==
    \A g \in 1..MaxGens : g \in DOMAIN tasks ~> g \notin DOMAIN tasks
=============================================================================
