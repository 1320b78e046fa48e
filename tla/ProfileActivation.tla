------------------------- MODULE ProfileActivation -------------------------
(***************************************************************************)
(* Temporary profile activations.  A key bound to profile_enable,          *)
(* profile_toggle or profile_disable makes the daemon broadcast a trigger; *)
(* the session runs one task per trigger (session/manager/events.py),      *)
(* activates the profile, reapplies all profiles and then asks the daemon  *)
(* to track when the activation ends: with its trigger, after a number of  *)
(* actions or after a timeout (keymasqd/runtime/profile_activation_tracker *)
(* .py).  The daemon's request to deactivate, the user's next toggle, a    *)
(* reset and a lost connection race those tasks.                           *)
(*                                                                         *)
(* The n-th press of a bound key, the trigger it broadcasts, the task that *)
(* handles it and the activation that the task creates are all named n.    *)
(* Reapplying the profiles is one generation that a later one replaces     *)
(* (ProfileApply has its details); whoever waits for one goes on when none *)
(* is running.                                                             *)
(***************************************************************************)
EXTENDS Naturals, Sequences, FiniteSets

CONSTANTS
    Keys,
    Binding,      \* Binding[k]: the action of k: type, profile, ends, after
    Profiles,
    MaxPresses,   \* bound on key presses
    MaxFaults     \* bound on resets, late answers and lost connections

Types == {"enable", "toggle", "disable", "plain"}

\* ends, after: the ProfileDeactivationPolicy; without a condition the action
\* is persistent and changes the profile's enabled flag.
ASSUME ActivationAssumption ==
    /\ MaxPresses \in Nat /\ MaxFaults \in Nat
    /\ \A k \in Keys :
         /\ Binding[k].type \in Types /\ Binding[k].profile \in Profiles
         /\ Binding[k].ends \subseteq {"trigger_end", "timeout"}
         /\ Binding[k].after \in Nat

VARIABLES
    presses,    \* the keys of the presses so far
    daemon,     \* the tracker: active trigger keys, trackers, and a reset under way
    session,    \* activations, enabled flags and the profile apply
    handlers,   \* the trigger tasks
    queue,      \* triggers and resets broadcast and not yet handled, in order
    expiries,   \* deactivation requests broadcast and not yet handled
    commands,   \* TRACK and CANCEL commands not yet served, in order
    replies,    \* handlers whose command was answered
    faults,
    overtaken   \* history: tracked activations another TRACK has replaced

vars == <<presses, daemon, session, handlers, queue, expiries, commands, replies,
          faults, overtaken>>
wire == <<queue, expiries, commands, replies>>

Ids == 1..MaxPresses
Key(n) == presses[n]
Policy(n) == Binding[Key(n)]
Profile(n) == Policy(n).profile
has_condition(b) == b.ends # {} \/ b.after > 0

NoTrackers == [active |-> {}, trackers |-> << >>, byProfile |-> << >>, resetting |-> FALSE]

Init ==
    /\ presses = <<>>
    /\ daemon = NoTrackers
    /\ session = [acts |-> << >>, enabled |-> {}, apply |-> "idle", resolved |-> {},
                  applied |-> {}]
    /\ handlers = << >>
    /\ queue = <<>> /\ expiries = {} /\ commands = <<>> /\ replies = {}
    /\ faults = 0 /\ overtaken = {}
-----------------------------------------------------------------------------
\* f without the arguments in S, and f with y for x.
Without(f, S) == [x \in DOMAIN f \ S |-> f[x]]
With(f, x, y) == [z \in DOMAIN f \cup {x} |-> IF z = x THEN y ELSE f[z]]

\* ProfileActivationTracker.cancel of the trackers ids.
cancel(d, ids) ==
    [d EXCEPT !.trackers = Without(@, ids),
              !.byProfile = Without(@, {p \in DOMAIN @ : @[p] \in ids})]

\* _expire: the trackers ids are dropped and their end is broadcast.
_expire(d, ids, reason) ==
    /\ daemon' = cancel(d, ids)
    /\ expiries' = expiries \cup {[id |-> n, reason |-> reason] : n \in ids}

\* A trigger that ended before the command arrived is not noticed.
track_of_active(d, n) ==
    LET kept == cancel(d, {d.byProfile[p] : p \in {Profile(n)} \cap DOMAIN d.byProfile})
    IN _expire([kept EXCEPT !.trackers = With(@, n, 0),
                            !.byProfile = With(@, Profile(n), n)], {}, "trigger_end")

\* track: one tracker per profile; a trigger that ended before the command
\* arrived ends the activation at once.
track(d, n) ==
    LET kept == cancel(d, {d.byProfile[p] : p \in {Profile(n)} \cap DOMAIN d.byProfile})
    IN _expire([kept EXCEPT !.trackers = With(@, n, 0),
                            !.byProfile = With(@, Profile(n), n)],
               {m \in {n} : "trigger_end" \in Policy(m).ends /\ Key(m) \notin d.active},
               "trigger_end")

\* record_action: a press counts for every activation that it did not trigger.
record_action(d, k) ==
    LET counts(m) == Policy(m).after > 0 /\ Key(m) # k
        counted == [m \in DOMAIN d.trackers |->
            IF counts(m) THEN d.trackers[m] + 1 ELSE d.trackers[m]]
    IN _expire([d EXCEPT !.trackers = counted],
               {m \in DOMAIN counted : counts(m) /\ counted[m] >= Policy(m).after},
               "action_count")

\* observe_trigger_end for the keys ks.
observe_trigger_end(d, ks) ==
    _expire([d EXCEPT !.active = @ \ ks],
            {m \in DOMAIN d.trackers : Key(m) \in ks /\ "trigger_end" \in Policy(m).ends},
            "trigger_end")

\* The pipeline sees a key go down: the trigger starts, the press is counted and
\* a bound action is broadcast.
Press(k) ==
    /\ Len(presses) < MaxPresses /\ k \notin daemon.active
    /\ presses' = Append(presses, k)
    /\ record_action([daemon EXCEPT !.active = @ \cup {k}], k)
    /\ queue' = IF Binding[k].type = "plain"
                  THEN queue
                  ELSE Append(queue, [kind |-> "trigger", id |-> Len(presses) + 1])
    /\ UNCHANGED <<session, handlers, commands, replies, faults, overtaken>>

Release(k) ==
    /\ k \in daemon.active
    /\ observe_trigger_end(daemon, {k})
    /\ UNCHANGED <<presses, session, handlers, queue, commands, replies, faults, overtaken>>

_timeout_after(n) ==
    /\ n \in DOMAIN daemon.trackers /\ "timeout" \in Policy(n).ends
    /\ _expire(daemon, {n}, "timeout")
    /\ UNCHANGED <<presses, session, handlers, queue, commands, replies, faults, overtaken>>

\* track_profile_activation and cancel_profile_activation.
Serve ==
    /\ commands # <<>>
    /\ commands' = Tail(commands)
    /\ LET c == Head(commands) IN
         /\ \/ c.kind = "track" /\ track(daemon, c.id)
            \/ c.kind = "cancel" /\ daemon' = cancel(daemon, {c.id}) /\ UNCHANGED expiries
         /\ replies' = replies \cup ({c.handler} \cap DOMAIN handlers)
    /\ UNCHANGED <<presses, session, handlers, queue, faults, overtaken>>

\* emergency_reset: release_all_devices forgets the trackers first, then takes
\* its time to release the devices, whose held triggers end, and tells the
\* session at last.
ResetBegin ==
    /\ faults < MaxFaults /\ ~daemon.resetting
    /\ faults' = faults + 1
    /\ daemon' = [NoTrackers EXCEPT !.resetting = TRUE]
    /\ UNCHANGED <<presses, session, handlers, wire, overtaken>>

ResetEnd ==
    /\ daemon.resetting
    /\ observe_trigger_end([daemon EXCEPT !.resetting = FALSE], daemon.active)
    /\ queue' = Append(queue, [kind |-> "reset"])
    /\ UNCHANGED <<presses, session, handlers, commands, replies, faults, overtaken>>
-----------------------------------------------------------------------------
\* Profiles that are on: by their flag or by an activation.
Active == session.enabled \cup DOMAIN session.acts

\* request_profile_reevaluation: the newest generation replaces the running one.
reevaluate(s) == [s EXCEPT !.apply = "new"]

resolve ==
    /\ session.apply = "new"
    /\ session' = [session EXCEPT !.apply = "applying", !.resolved = Active]
    /\ UNCHANGED <<presses, daemon, handlers, wire, faults, overtaken>>

ApplyEnds ==
    /\ session.apply = "applying"
    /\ session' = [session EXCEPT !.apply = "idle", !.applied = session.resolved]
    /\ UNCHANGED <<presses, daemon, handlers, wire, faults, overtaken>>

Go(n, pc) == handlers' = With(handlers, n, [pc |-> pc, off |-> FALSE])

End(n) == handlers' = Without(handlers, {n})

Send(kind, n, id) ==
    commands' = Append(commands, [kind |-> kind, id |-> id, handler |-> n])

\* cancel_runtime_profile_activation of an existing activation, up to its await.
cancel_runtime_profile_activation(n, pc) ==
    /\ Profile(n) \in DOMAIN session.acts
    /\ session' = [session EXCEPT !.acts = Without(@, {Profile(n)})]
    /\ Send("cancel", n, session.acts[Profile(n)])
    /\ Go(n, pc)

\* _handle_lifetime_profile_trigger enters its activation and reapplies.
Activate(n) ==
    /\ session' = reevaluate([session EXCEPT !.acts = With(@, Profile(n), n)])
    /\ Go(n, "applying")
    /\ UNCHANGED commands

\* handle_profile_trigger, up to the first await.
handle_profile_trigger(n) ==
    LET b == Policy(n)
        active == b.profile \in DOMAIN session.acts
    IN \/ /\ has_condition(b) /\ b.type = "toggle" /\ active
          /\ cancel_runtime_profile_activation(n, "dropping")
       \/ /\ has_condition(b) /\ ~(b.type = "toggle" /\ active)
          /\ Activate(n)
       \/ /\ ~has_condition(b) /\ b.type # "enable" /\ active
          /\ cancel_runtime_profile_activation(n, "clearing")
       \/ /\ ~has_condition(b) /\ ~(b.type # "enable" /\ active)
          /\ Go(n, "reading") /\ UNCHANGED <<session, commands>>

\* A reset reapplies the profiles with their activations.
HandleEvent_keeps_activations ==
    /\ queue # <<>>
    /\ queue' = Tail(queue)
    /\ LET e == Head(queue) IN
         \/ e.kind = "trigger" /\ handle_profile_trigger(e.id)
         \/ /\ e.kind = "reset"
            /\ session' = reevaluate(session)
            /\ UNCHANGED <<handlers, commands>>
    /\ UNCHANGED <<presses, daemon, expiries, replies, faults, overtaken>>

\* The next broadcast gets its task, which runs to its first await.  A reset
\* forgets every activation and reapplies.
HandleEvent ==
    /\ queue # <<>>
    /\ queue' = Tail(queue)
    /\ LET e == Head(queue) IN
         \/ e.kind = "trigger" /\ handle_profile_trigger(e.id)
         \/ /\ e.kind = "reset"
            /\ session' = reevaluate([session EXCEPT !.acts = << >>])
            /\ UNCHANGED <<handlers, commands>>
    /\ UNCHANGED <<presses, daemon, expiries, replies, faults, overtaken>>

\* Whatever activation the profile has now is ended.
handle_profile_deactivate_requested_of_any(n) ==
    /\ \E e \in expiries : e.id = n /\ expiries' = expiries \ {e}
    /\ LET ends == {Profile(n)} \cap DOMAIN session.acts
       IN session' = IF ends = {} THEN session
                       ELSE reevaluate([session EXCEPT !.acts = Without(@, ends)])
    /\ UNCHANGED <<presses, daemon, handlers, queue, commands, replies, faults, overtaken>>

\* handle_profile_deactivate_requested: only the activation that expired ends.
handle_profile_deactivate_requested(n) ==
    /\ \E e \in expiries : e.id = n /\ expiries' = expiries \ {e}
    /\ LET ends == {p \in {Profile(n)} \cap DOMAIN session.acts : session.acts[p] = n}
       IN session' = IF ends = {} THEN session
                       ELSE reevaluate([session EXCEPT !.acts = Without(@, ends)])
    /\ UNCHANGED <<presses, daemon, handlers, queue, commands, replies, faults, overtaken>>
-----------------------------------------------------------------------------
At(n, pc) == n \in DOMAIN handlers /\ handlers[n].pc = pc

\* Waiting for the newest generation is over (the loop of
\* request_profile_reevaluation).
Reapplied(n, pc) == At(n, pc) /\ session.apply = "idle"

\* The activation whose tracker the TRACK of n is going to replace.
Overtakes(n) ==
    {m \in Ids \ {n} : /\ Profile(n) \in DOMAIN session.acts
                       /\ m = session.acts[Profile(n)] /\ ~At(m, "applying")}

\* _track_runtime_profile_activation; whether n is still the activation of its
\* profile is not looked at.
SendTrack(n) ==
    /\ Reapplied(n, "applying")
    /\ Send("track", n, n)
    /\ Go(n, "tracking")
    /\ overtaken' = overtaken \cup Overtakes(n)
    /\ UNCHANGED <<presses, daemon, session, queue, expiries, replies, faults>>

Replied(n) ==
    /\ n \in replies
    /\ replies' = replies \ {n}

Tracked(n) ==
    /\ At(n, "tracking") /\ Replied(n)
    /\ End(n)
    /\ UNCHANGED <<presses, daemon, session, queue, expiries, commands, faults, overtaken>>

\* No answer within the command's timeout: the activation that is not tracked
\* for certain is taken back.
TrackFailed(n) ==
    /\ faults < MaxFaults
    /\ At(n, "tracking") /\ n \notin replies
    /\ faults' = faults + 1
    /\ session' = IF Profile(n) \in DOMAIN session.acts /\ session.acts[Profile(n)] = n
                    THEN reevaluate([session EXCEPT !.acts = Without(@, {Profile(n)})])
                    ELSE session
    /\ End(n)
    /\ UNCHANGED <<presses, daemon, wire, overtaken>>

\* CANCEL_PROFILE_ACTIVATION was answered or, as that is only logged, was not.
Cancelled(n) ==
    \/ Replied(n) /\ UNCHANGED faults
    \/ /\ n \notin replies /\ faults < MaxFaults /\ faults' = faults + 1
       /\ UNCHANGED replies

\* The last cancellation of a task reapplies and has nothing more to do.
Dropped(n) ==
    /\ At(n, "dropping") /\ Cancelled(n)
    /\ session' = reevaluate(session)
    /\ End(n)
    /\ UNCHANGED <<presses, daemon, queue, expiries, commands, overtaken>>

\* A persistent action cancelled first; then it changes the flag.
Cleared(n) ==
    /\ At(n, "clearing") /\ Cancelled(n)
    /\ session' = reevaluate(session)
    /\ Go(n, "cleared")
    /\ UNCHANGED <<presses, daemon, queue, expiries, commands, overtaken>>

\* ProfileManager.set_profile_enabled, in a thread: the flag is read under the
\* lock and saved after it.
ReadFlag(n) ==
    /\ At(n, "reading") \/ Reapplied(n, "cleared")
    /\ LET b == Policy(n)
           off == b.type = "disable" \/ (b.type = "toggle" /\ b.profile \in session.enabled)
       IN handlers' = [handlers EXCEPT ![n] = [pc |-> "saving", off |-> off]]
    /\ UNCHANGED <<presses, daemon, session, wire, faults, overtaken>>

SaveFlag(n) ==
    /\ At(n, "saving")
    /\ session' = [session EXCEPT !.enabled = IF handlers[n].off THEN @ \ {Profile(n)}
                                              ELSE @ \cup {Profile(n)}]
    /\ handlers' = [handlers EXCEPT ![n].pc = "saved"]
    /\ UNCHANGED <<presses, daemon, wire, faults, overtaken>>

\* The saved flag is not followed by a reevaluation.
set_profile_enabled_without_reevaluation(n) ==
    /\ At(n, "saved")
    /\ session' = session
    /\ handlers' = [handlers EXCEPT ![n].pc = "settling"]
    /\ UNCHANGED <<presses, daemon, wire, faults, overtaken>>

\* lifecycle.set_profile_enabled goes on: a profile that is off now loses its
\* activation, and the profiles are reapplied.
set_profile_enabled(n) ==
    /\ At(n, "saved")
    /\ IF handlers[n].off /\ Profile(n) \in DOMAIN session.acts
         THEN cancel_runtime_profile_activation(n, "disabling")
         ELSE /\ session' = reevaluate(session)
              /\ handlers' = [handlers EXCEPT ![n].pc = "settling"]
              /\ UNCHANGED commands
    /\ UNCHANGED <<presses, daemon, queue, expiries, replies, faults, overtaken>>

Disabled(n) ==
    /\ At(n, "disabling") /\ Cancelled(n)
    /\ session' = reevaluate(session)
    /\ handlers' = With(handlers, n, [pc |-> "settling", off |-> TRUE])
    /\ UNCHANGED <<presses, daemon, queue, expiries, commands, overtaken>>

\* handle_profile_trigger after set_profile_enabled: a profile that was switched
\* off also loses an activation that was entered meanwhile.
Settle(n) ==
    /\ Reapplied(n, "settling")
    /\ IF handlers[n].off /\ Profile(n) \in DOMAIN session.acts
         THEN cancel_runtime_profile_activation(n, "dropping")
         ELSE End(n) /\ UNCHANGED <<session, commands>>
    /\ UNCHANGED <<presses, daemon, queue, expiries, replies, faults, overtaken>>

\* The connection is lost and made again: the session cancels its tasks and
\* forgets all activations, the daemon releases all devices.
Reconnect ==
    /\ faults < MaxFaults
    /\ faults' = faults + 1
    /\ daemon' = NoTrackers
    /\ session' = reevaluate([session EXCEPT !.acts = << >>])
    /\ handlers' = << >>
    /\ queue' = <<>> /\ expiries' = {} /\ commands' = <<>> /\ replies' = {}
    /\ UNCHANGED <<presses, overtaken>>

\* One task runs on.
HandlerStep(n) ==
    \/ SendTrack(n) \/ Tracked(n)
    \/ Dropped(n) \/ Cleared(n)
    \/ ReadFlag(n) \/ SaveFlag(n) \/ set_profile_enabled(n) \/ Disabled(n) \/ Settle(n)

Next ==
    \/ \E k \in Keys : Press(k) \/ Release(k)
    \/ \E n \in DOMAIN presses :
         \/ _timeout_after(n) \/ handle_profile_deactivate_requested(n)
         \/ HandlerStep(n) \/ TrackFailed(n)
    \/ Serve \/ ResetBegin \/ ResetEnd
    \/ resolve \/ ApplyEnds \/ HandleEvent \/ Reconnect

Spec == Init /\ [][Next]_vars

\* Both event loops run what is ready, timers fire, the daemon answers; the user
\* need not do anything.
FairSpec ==
    /\ Spec
    /\ WF_vars(Serve) /\ WF_vars(ResetEnd)
    /\ WF_vars(resolve) /\ WF_vars(ApplyEnds) /\ WF_vars(HandleEvent)
    /\ \A n \in Ids :
         /\ WF_vars(n \in DOMAIN presses /\ _timeout_after(n))
         /\ WF_vars(n \in DOMAIN presses /\ handle_profile_deactivate_requested(n))
         /\ WF_vars(n \in DOMAIN presses /\ HandlerStep(n))
-----------------------------------------------------------------------------
Pcs == {"applying", "tracking", "dropping", "clearing", "cleared", "reading", "saving",
        "saved", "disabling", "settling"}

\* Types; the tracker's two indexes agree: every tracker is the one its profile
\* names.
TypeOK ==
    /\ presses \in Seq(Keys) /\ Len(presses) <= MaxPresses /\ faults \in 0..MaxFaults
    /\ daemon.active \subseteq Keys
    /\ \A n \in DOMAIN daemon.trackers : daemon.trackers[n] \in Nat
    /\ {daemon.byProfile[p] : p \in DOMAIN daemon.byProfile} = DOMAIN daemon.trackers
    /\ \A p \in DOMAIN session.acts : p \in Profiles /\ session.acts[p] \in DOMAIN presses
    /\ session.enabled \cup session.applied \subseteq Profiles
    /\ session.apply \in {"idle", "new", "applying"}
    /\ \A n \in DOMAIN handlers : handlers[n].pc \in Pcs
    /\ {e.id : e \in expiries} \cup overtaken \subseteq DOMAIN presses

\* Nothing is under way on either side.
Quiet ==
    /\ handlers = << >> /\ queue = <<>> /\ expiries = {} /\ commands = <<>>
    /\ session.apply = "idle" /\ ~daemon.resetting

\* When nothing is under way, whatever activation the session still has is the
\* one that the daemon tracks, so it will end; unless the TRACK of an older
\* activation was sent after its own.
ActivationIsTracked ==
    Quiet => \A p \in DOMAIN session.acts :
        session.acts[p] \in DOMAIN daemon.trackers \cup overtaken

\* The key of press n has been released since.
Lifted(n) == Key(n) \notin daemon.active \/ \E m \in DOMAIN presses : m > n /\ Key(m) = Key(n)

\* Why activation n may end by itself.
Due(n) ==
    LET b == Policy(n)
        later == {m \in DOMAIN presses : m > n /\ Key(m) # Key(n)}
    IN \/ "trigger_end" \in b.ends /\ Lifted(n)
       \/ b.after > 0 /\ Cardinality(later) >= b.after
       \/ [id |-> n, reason |-> "timeout"] \in expiries

\* A deactivation request ends an activation for that activation's own reason
\* only: its trigger was released, other keys were pressed often enough after
\* it, or its own timeout fired.
EndsForItsReason ==
    [][\A p \in DOMAIN session.acts :
         ~(expiries \subseteq expiries') /\ faults' = faults /\ p \notin DOMAIN session.acts'
           => Due(session.acts[p])]_vars

\* Tasks between a change of what is active and its reevaluation.
Changing ==
    \E n \in DOMAIN handlers : handlers[n].pc \in {"dropping", "clearing", "saved", "disabling"}

\* With no apply and no change under way the applied profiles are the active
\* ones: no sequence of overlapping activations, expiries, toggles and resets
\* ends on an apply that resolved too early.
AppliesActive == session.apply = "idle" /\ ~Changing => session.applied = Active

\* A hold layer whose trigger has been released is on, and the TRACK of no older
\* activation was sent after its own.
Outlives ==
    \E p \in DOMAIN session.acts :
        LET n == session.acts[p]
        IN "trigger_end" \in Policy(n).ends /\ Lifted(n) /\ n \notin overtaken

\* A hold layer ends once its trigger is released, however the release races the
\* apply, the TRACK command, a reset or the next press.
HoldEnds == Outlives ~> ~Outlives
=============================================================================
