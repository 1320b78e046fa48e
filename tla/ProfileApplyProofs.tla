------------------------- MODULE ProfileApplyProofs -------------------------
(***************************************************************************)
(* What holds of the application of profiles for every set of contexts and *)
(* any number of generations and faults.                                   *)
(***************************************************************************)
EXTENDS ProfileApply, SequenceTheorems, TLAPS

(* Sets for the types. *)

Resolutions == {Resolve[c] : c \in Contexts}

Sig == {NoSig, Unknown} \cup {r.grab : r \in Resolutions} \cup {r.map : r \in Resolutions}
         \cup {r.roll : r \in Resolutions}

State ==
    [grabbed : BOOLEAN, waiting : BOOLEAN, retry : {"no", "armed", "running"}, grab : Sig,
     map : Sig, roll : Sig, seq : Nat, acked : Nat,
     exec : SUBSET Nat, owned : SUBSET Nat, retired : SUBSET Nat]

Task == [step : Steps, res : Resolutions, req : Nat, remap : BOOLEAN, cancelled : BOOLEAN]

Command == [kind : Kinds, sig : Sig, req : Nat]

Daemon ==
    [grabbed : BOOLEAN, desired : BOOLEAN, grab : Sig, map : Sig, ref : Nat, roll : Sig,
     releasing : BOOLEAN, present : BOOLEAN]

Types ==
    /\ context \in Contexts /\ gen \in 1..MaxGens /\ faults \in 0..MaxFaults
    /\ events \subseteq {"reset", "topology"} /\ overtaken \subseteq {"grab", "map"}
    /\ s \in State /\ daemon \in Daemon
    /\ DOMAIN tasks \subseteq 1..gen /\ \A g \in DOMAIN tasks : tasks[g] \in Task
    /\ commands \in Seq(Command)
    /\ replies \subseteq [req : Nat, answer : Answers]

-----------------------------------------------------------------------------
(* The invariant. *)

\* Superseded applies only settle mappings; the newest apply waits for the
\* newest request, and no two wait for one.
TaskInv ==
    /\ \A g \in DOMAIN tasks :
         /\ g # gen => tasks[g].step \in MappingSteps
         /\ tasks[g].cancelled <=> g # gen
         /\ tasks[g].req <= s.seq
    /\ gen \in DOMAIN tasks /\ tasks[gen].step # "new" => tasks[gen].req = s.seq
    /\ \A g, h \in DOMAIN tasks :
         tasks[g].step # "new" /\ tasks[h].step # "new" /\ tasks[g].req = tasks[h].req => g = h

\* The socket keeps the order of requests, answers are older than what waits in
\* it, and so is the mapping that the daemon runs.
QueueInv ==
    /\ \A i \in 1..Len(commands) :
         commands[i].req <= s.seq /\ daemon.ref < commands[i].req
    /\ \A i, j \in 1..Len(commands) : i < j => commands[i].req < commands[j].req
    /\ \A r \in replies : r.req \in 1..s.seq /\ \A i \in 1..Len(commands) : r.req < commands[i].req
    /\ daemon.ref <= s.seq

\* A mapping command is awaited by an apply, and an apply at a mapping awaits
\* the answer of a mapping command.
SentInv ==
    /\ \A i \in 1..Len(commands) :
         commands[i].kind = "map" =>
           \E g \in DOMAIN tasks : tasks[g].step \in MappingSteps /\ tasks[g].req = commands[i].req
    /\ \A i \in 1..Len(commands), g \in DOMAIN tasks :
         tasks[g].step \in MappingSteps /\ tasks[g].req = commands[i].req => commands[i].kind = "map"

\* The answer of a mapping command tells what the daemon did with it.
AnswerInv ==
    \A r \in replies, g \in DOMAIN tasks :
      tasks[g].step \in MappingSteps /\ tasks[g].req = r.req =>
        IF r.answer = "ok" THEN daemon.ref = 0 \/ daemon.ref >= r.req ELSE daemon.ref # r.req

\* Staged references resolve and belong to no committed mapping.
StagedInv ==
    /\ s.owned \subseteq s.exec /\ s.exec \subseteq 1..s.seq /\ s.retired \subseteq 1..s.seq
    /\ \A g \in DOMAIN tasks : tasks[g].step \in MappingSteps =>
         tasks[g].req \in s.exec \ s.owned

\* The groups that were written last are those the newest apply waits for, or
\* those that were acknowledged.
RollInv ==
    "reset" \notin events =>
      /\ s.roll # Unknown => RollWillBe(s.roll)
      /\ gen \in DOMAIN tasks /\ tasks[gen].step = "rollover" => RollWillBe(tasks[gen].res.roll)

Inv ==
    /\ Types /\ TaskInv /\ QueueInv /\ SentInv /\ AnswerInv
    /\ StagedInv /\ RefsResolve /\ RollInv

-----------------------------------------------------------------------------
(* What a step of an apply leaves, by its last call. *)

\* The result o of an apply that had reached the state b: it ended, or it wrote
\* one command and waits for it.
Sends(o, b, t) ==
    /\ o.s \in State
    /\ o.s.owned = b.owned /\ o.s.retired = b.retired /\ o.s.map = b.map
    /\ \/ /\ o.step = "done" /\ o.cmd = <<>>
          /\ o.s.seq = b.seq /\ o.s.exec = b.exec /\ o.s.roll = b.roll
       \/ /\ o.step \in Steps \ {"new"} /\ o.s.seq = b.seq + 1
          /\ \E k \in Kinds, sig \in Sig :
               /\ o.cmd = <<[kind |-> k, sig |-> sig, req |-> b.seq + 1]>>
               /\ k = "map" <=> o.step \in MappingSteps
               /\ IF k = "roll" THEN o.step = "rollover" /\ sig = t.res.roll /\ o.s.roll = Unknown
                                ELSE o.step # "rollover" /\ o.s.roll = b.roll
               /\ o.s.exec = b.exec \cup (IF k = "map" THEN {b.seq + 1} ELSE {})

\* The resolved payloads of a task are signatures.
LEMMA TaskSigs ==
    ASSUME NEW t \in Task
    PROVE  t.res.grab \in Sig /\ t.res.map \in Sig /\ t.res.roll \in Sig
BY DEF Task, Sig

\* Each call that may end a step of an apply leaves such a result.
LEMMA SendsRoll ==
    ASSUME NEW b \in State, NEW t \in Task
    PROVE  Sends(update_rollover_groups(b, t), b, t)
<1> USE TaskSigs
<1>1. CASE b.roll = t.res.roll
  BY <1>1 DEF update_rollover_groups, Ended, Sends
<1>2. CASE b.roll # t.res.roll
  <2> DEFINE c == [b EXCEPT !.roll = Unknown]
             d == [c EXCEPT !.seq = @ + 1]
  <2>1. c \in State /\ Unknown \in Sig
    BY DEF State, Sig
  <2>2. /\ c.seq = b.seq /\ c.owned = b.owned /\ c.retired = b.retired /\ c.map = b.map
        /\ c.exec = b.exec /\ c.roll = Unknown
    BY DEF State
  <2> HIDE DEF c
  <2>3. d \in State
    BY <2>1 DEF State
  <2>4. /\ d.seq = b.seq + 1 /\ d.owned = b.owned /\ d.retired = b.retired /\ d.map = b.map
        /\ d.exec = b.exec /\ d.roll = Unknown
    BY <2>1, <2>2 DEF State
  <2> HIDE DEF d
  <2>5. update_rollover_groups(b, t) =
          [s |-> d, step |-> "rollover",
           cmd |-> <<[kind |-> "roll", sig |-> t.res.roll, req |-> b.seq + 1]>>]
    BY <1>2, <2>2 DEF update_rollover_groups, Await, c, d
  <2> QED
    BY <2>3, <2>4, <2>5 DEF Sends, Steps, Kinds, MappingSteps
<1> QED
  BY <1>1, <1>2

\* ...a mapping with its staged references,
LEMMA SendsMap ==
    ASSUME NEW b \in State, NEW t \in Task, NEW step \in MappingSteps
    PROVE  Sends(SendMapping(b, t, step), b, t)
<1> DEFINE c == [b EXCEPT !.exec = @ \cup {b.seq + 1}]
           d == [c EXCEPT !.seq = @ + 1]
<1>1. c \in State
  BY DEF State
<1>2. /\ c.seq = b.seq /\ c.owned = b.owned /\ c.retired = b.retired /\ c.map = b.map
      /\ c.exec = b.exec \cup {b.seq + 1} /\ c.roll = b.roll
  BY DEF State
<1> HIDE DEF c
<1>3. d \in State
  BY <1>1 DEF State
<1>4. /\ d.seq = b.seq + 1 /\ d.owned = b.owned /\ d.retired = b.retired /\ d.map = b.map
      /\ d.exec = b.exec \cup {b.seq + 1} /\ d.roll = b.roll
  BY <1>1, <1>2 DEF State
<1> HIDE DEF d
<1>5. SendMapping(b, t, step) =
        [s |-> d, step |-> step,
         cmd |-> <<[kind |-> "map", sig |-> t.res.map, req |-> b.seq + 1]>>]
  BY <1>2 DEF SendMapping, Await, c, d
<1> QED
  BY <1>3, <1>4, <1>5, TaskSigs DEF Sends, Steps, Kinds, MappingSteps

\* ...a grab,
LEMMA SendsGrab ==
    ASSUME NEW b \in State, NEW t \in Task, NEW step \in {"grab", "regrab"}
    PROVE  Sends(SendGrab(b, t, step), b, t)
<1> DEFINE d == [b EXCEPT !.seq = @ + 1]
<1>1. d \in State
  BY DEF State
<1>2. /\ d.seq = b.seq + 1 /\ d.owned = b.owned /\ d.retired = b.retired /\ d.map = b.map
      /\ d.exec = b.exec /\ d.roll = b.roll
  BY DEF State
<1> HIDE DEF d
<1>3. SendGrab(b, t, step) =
        [s |-> d, step |-> step,
         cmd |-> <<[kind |-> "grab", sig |-> t.res.grab, req |-> b.seq + 1]>>]
  BY DEF SendGrab, Await, d
<1> QED
  BY <1>1, <1>2, <1>3, TaskSigs DEF Sends, Steps, Kinds, MappingSteps

\* ...or a release.
LEMMA SendsRelease ==
    ASSUME NEW b \in State, NEW t \in Task, NEW step \in {"release", "rerelease"}
    PROVE  Sends(deactivate_profile(b, step), b, t)
<1> DEFINE c == [b EXCEPT !.retry = "no", !.waiting = FALSE]
           d == [c EXCEPT !.seq = @ + 1]
<1>1. c \in State
  BY DEF State
<1>2. /\ c.seq = b.seq /\ c.owned = b.owned /\ c.retired = b.retired /\ c.map = b.map
      /\ c.exec = b.exec /\ c.roll = b.roll
  BY DEF State
<1> HIDE DEF c
<1>3. d \in State
  BY <1>1 DEF State
<1>4. /\ d.seq = b.seq + 1 /\ d.owned = b.owned /\ d.retired = b.retired /\ d.map = b.map
      /\ d.exec = b.exec /\ d.roll = b.roll
  BY <1>1, <1>2 DEF State
<1> HIDE DEF d
<1>5. deactivate_profile(b, step) =
        [s |-> d, step |-> step,
         cmd |-> <<[kind |-> "release", sig |-> NoSig, req |-> b.seq + 1]>>]
  BY <1>2 DEF deactivate_profile, Await, c, d
<1> QED
  BY <1>3, <1>4, <1>5 DEF Sends, Steps, Kinds, MappingSteps, Sig

-----------------------------------------------------------------------------
(* What a step of an apply does to the session's references before that. *)

\* From the state st to b, for the requests Q (one or none) that are settled:
\* accepted by the daemon (ok), of the newest apply (newest).
Refs(b, st, Q, ok, newest) ==
    /\ b \in State /\ b.seq = st.seq
    /\ b.owned \subseteq b.exec /\ b.retired \subseteq st.retired \cup st.owned
    /\ b.exec \subseteq st.exec \cup (IF ok THEN Q ELSE {})
    /\ \A p \in st.exec \ st.owned : p \in Q \/ p \in b.exec \ b.owned
    /\ ok => Q \subseteq b.exec
    /\ b.map # NoSig =>
         /\ st.map # NoSig \/ (ok /\ newest)
         /\ st.exec \cup st.retired \subseteq b.exec \cup b.retired \cup (IF ok THEN {} ELSE Q)

\* Nothing but the belief in the mapping changes.
LEMMA RefsSame ==
    ASSUME NEW st \in State, NEW b \in State, st.owned \subseteq st.exec,
           b.seq = st.seq, b.exec = st.exec, b.owned = st.owned, b.retired = st.retired,
           b.map = st.map \/ b.map = NoSig
    PROVE  Refs(b, st, {}, FALSE, TRUE)
BY DEF Refs

\* Giving a device up retires its references.
LEMMA ClearRefs ==
    ASSUME NEW st \in State, st.owned \subseteq st.exec
    PROVE  LET b == clear_hardware_runtime_state(st)
           IN  /\ b \in State /\ b.seq = st.seq /\ b.roll = st.roll
               /\ b.exec = st.exec \ st.owned /\ b.owned = {} /\ b.map = NoSig
               /\ b.retired = st.retired \cup st.owned
BY DEF clear_hardware_runtime_state, State, Sig

\* The apply of a resolved profile up to its first await.
LEMMA AppliedRefs ==
    ASSUME NEW st \in State, NEW t \in Task, st.owned \subseteq st.exec
    PROVE  \E b \in State :
             /\ Refs(b, st, {}, FALSE, TRUE) /\ b.roll = st.roll
             /\ Sends(apply_resolved_device_profile(st, t), b, t)
<1> DEFINE o == apply_resolved_device_profile(st, t)
           c == [st EXCEPT !.retry = "no", !.waiting = FALSE, !.grab = NoSig]
<1>1. Refs(st, st, {}, FALSE, TRUE)
  BY RefsSame
<1>2. c \in State /\ Refs(c, st, {}, FALSE, TRUE) /\ c.roll = st.roll
  <2>1. /\ c \in State /\ c.seq = st.seq /\ c.exec = st.exec /\ c.owned = st.owned
        /\ c.retired = st.retired /\ c.map = st.map /\ c.roll = st.roll
    BY DEF State, Sig
  <2> HIDE DEF c
  <2> QED
    BY <2>1, RefsSame
<1>3. CASE ~Effective(t.res)
  <2>1. o = deactivate_profile(c, "release") \/ o = update_rollover_groups(c, t)
    BY <1>3 DEF apply_resolved_device_profile
  <2> HIDE DEF c, o
  <2>2. Sends(o, c, t)
    BY <1>2, <2>1, SendsRelease, SendsRoll
  <2> QED
    BY <1>2, <2>2 DEF o
<1>4. CASE Effective(t.res)
  <2>1. \/ o = update_rollover_groups(st, t) \/ o = SendGrab(st, t, "regrab")
        \/ o = SendMapping(st, t, "remap") \/ o = SendGrab(st, t, "grab")
    BY <1>4 DEF apply_resolved_device_profile, _reconcile_existing_grab
  <2> HIDE DEF c, o
  <2>2. Sends(o, st, t)
    BY <2>1, SendsRoll, SendsGrab, SendsMap DEF MappingSteps
  <2> QED
    BY <1>1, <2>2 DEF o
<1> QED
  BY <1>3, <1>4

\* The answer of a grab.
LEMMA GrabRefs ==
    ASSUME NEW st \in State, NEW t \in Task, NEW answer \in Answers, st.owned \subseteq st.exec,
           NEW o, o = Regrabbed(st, t, answer) \/ o = Grabbed(st, t, answer)
    PROVE  \E b \in State :
             /\ Refs(b, st, {}, FALSE, TRUE) /\ b.roll = st.roll
             /\ Sends(o, b, t)
<1> USE TaskSigs
<1>1. Refs(st, st, {}, FALSE, TRUE)
  BY RefsSame
<1>2. ASSUME NEW b \in State, b.seq = st.seq, b.exec = st.exec, b.owned = st.owned,
             b.retired = st.retired, b.map = st.map \/ b.map = NoSig, b.roll = st.roll,
             Sends(o, b, t)
      PROVE  \E x \in State : Refs(x, st, {}, FALSE, TRUE) /\ x.roll = st.roll /\ Sends(o, x, t)
  BY <1>2, RefsSame
<1>3. ASSUME NEW b \in State, NEW q \in Nat
      PROVE  LET a == _acknowledge_device_request(b, q)
             IN  /\ a \in State /\ a.seq = b.seq /\ a.exec = b.exec /\ a.owned = b.owned
                 /\ a.retired = b.retired /\ a.map = b.map /\ a.roll = b.roll
  BY DEF _acknowledge_device_request, State
<1>4. t.req \in Nat
  BY DEF Task
<1>5. CASE o = Regrabbed(st, t, answer)
  <2> DEFINE c == [st EXCEPT !.grab = t.res.grab]
             a == _acknowledge_device_request(c, t.req)
  <2>1. /\ c \in State /\ c.seq = st.seq /\ c.exec = st.exec /\ c.owned = st.owned
        /\ c.retired = st.retired /\ c.map = st.map /\ c.roll = st.roll
    BY DEF State
  <2>2. \/ o = deactivate_profile(st, "rerelease") \/ o = SendGrab(st, t, "grab")
        \/ o = update_rollover_groups(a, t) \/ o = SendGrab(a, t, "grab")
        \/ o = SendMapping(a, t, "remap")
    BY <1>5 DEF Regrabbed
  <2> HIDE DEF c
  <2>3. /\ a \in State /\ a.seq = st.seq /\ a.exec = st.exec /\ a.owned = st.owned
        /\ a.retired = st.retired /\ a.map = st.map /\ a.roll = st.roll
    BY <1>3, <1>4, <2>1
  <2> HIDE DEF a
  <2>4. Sends(o, st, t) \/ Sends(o, a, t)
    BY <2>2, <2>3, SendsRelease, SendsGrab, SendsRoll, SendsMap DEF MappingSteps
  <2> QED
    BY <1>1, <1>2, <2>3, <2>4
<1>6. CASE o = Grabbed(st, t, answer)
  <2>1. CASE answer = "ok"
    <3> DEFINE c == [st EXCEPT !.retry = "no", !.waiting = FALSE, !.grabbed = TRUE,
                               !.grab = t.res.grab]
               a == _acknowledge_device_request(c, t.req)
    <3>1. /\ c \in State /\ c.seq = st.seq /\ c.exec = st.exec /\ c.owned = st.owned
          /\ c.retired = st.retired /\ c.map = st.map /\ c.roll = st.roll
      BY DEF State
    <3>2. o = SendMapping(a, t, "mapping")
      BY <1>6, <2>1 DEF Grabbed, Timeouts
    <3> HIDE DEF c
    <3>3. /\ a \in State /\ a.seq = st.seq /\ a.exec = st.exec /\ a.owned = st.owned
          /\ a.retired = st.retired /\ a.map = st.map /\ a.roll = st.roll
      BY <1>3, <1>4, <3>1
    <3> HIDE DEF a
    <3> QED
      BY <1>2, <3>2, <3>3, SendsMap DEF MappingSteps
  <2>2. CASE answer = "waiting"
    <3> DEFINE c == [st EXCEPT !.retry = "no", !.grabbed = FALSE, !.waiting = TRUE,
                               !.grab = t.res.grab, !.map = NoSig]
    <3>1. /\ c \in State /\ c.seq = st.seq /\ c.exec = st.exec /\ c.owned = st.owned
          /\ c.retired = st.retired /\ c.map = NoSig /\ c.roll = st.roll
      BY DEF State, Sig
    <3>2. o = update_rollover_groups(c, t)
      BY <1>6, <2>2 DEF Grabbed, Timeouts
    <3> HIDE DEF c
    <3> QED
      BY <1>2, <3>1, <3>2, SendsRoll
  <2>3. CASE answer = "paused"
    <3> DEFINE c == [st EXCEPT !.retry = "no", !.grabbed = FALSE, !.waiting = FALSE,
                               !.grab = NoSig, !.map = NoSig]
    <3>1. /\ c \in State /\ c.seq = st.seq /\ c.exec = st.exec /\ c.owned = st.owned
          /\ c.retired = st.retired /\ c.map = NoSig /\ c.roll = st.roll
      BY DEF State, Sig
    <3>2. o = update_rollover_groups(c, t)
      BY <1>6, <2>3 DEF Grabbed, Timeouts
    <3> HIDE DEF c
    <3> QED
      BY <1>2, <3>1, <3>2, SendsRoll
  <2>4. CASE answer \in Timeouts
    <3> DEFINE c == schedule_grab_retry(st)
    <3>1. /\ c \in State /\ c.seq = st.seq /\ c.exec = st.exec /\ c.owned = st.owned
          /\ c.retired = st.retired /\ c.map = st.map /\ c.roll = st.roll
      BY DEF schedule_grab_retry, State
    <3>2. o = update_rollover_groups(c, t)
      BY <1>6, <2>4 DEF Grabbed, Timeouts
    <3> HIDE DEF c
    <3> QED
      BY <1>2, <3>1, <3>2, SendsRoll
  <2>5. CASE answer = "error"
    <3>1. o = update_rollover_groups(st, t)
      BY <1>6, <2>5 DEF Grabbed, Timeouts
    <3> QED
      BY <1>1, <3>1, SendsRoll
  <2> QED
    BY <2>1, <2>2, <2>3, <2>4, <2>5 DEF Answers, Timeouts
<1> QED
  BY <1>5, <1>6

\* The answer of a release.
LEMMA ReleaseRefs ==
    ASSUME NEW st \in State, NEW t \in Task, st.owned \subseteq st.exec
    PROVE  \E b \in State :
             /\ Refs(b, st, {}, FALSE, TRUE) /\ b.roll = st.roll
             /\ Sends(Released(st, t), b, t)
<1> DEFINE b == clear_hardware_runtime_state(st)
<1>1. /\ b \in State /\ b.seq = st.seq /\ b.roll = st.roll
      /\ b.exec = st.exec \ st.owned /\ b.owned = {} /\ b.map = NoSig
      /\ b.retired = st.retired \cup st.owned
  BY ClearRefs
<1>2. Released(st, t) = update_rollover_groups(b, t) \/ Released(st, t) = SendGrab(b, t, "grab")
  BY DEF Released
<1> HIDE DEF b
<1>3. Sends(Released(st, t), b, t)
  BY <1>1, <1>2, SendsRoll, SendsGrab
<1>4. Refs(b, st, {}, FALSE, TRUE)
  BY <1>1 DEF Refs
<1> QED
  BY <1>1, <1>3, <1>4

\* The answer of a mapping command settles its references.
LEMMA SettleRefs ==
    ASSUME NEW st \in State, NEW t \in Task, NEW answer \in Answers, NEW newest \in BOOLEAN,
           st.owned \subseteq st.exec, t.req \in st.exec \ st.owned
    PROVE  LET b == SettleMapping(st, t, answer, newest)
           IN  Refs(b, st, {t.req}, answer = "ok", newest) /\ b.roll = st.roll
<1> DEFINE b == SettleMapping(st, t, answer, newest)
           q == t.req
<1>1. q \in Nat
  BY DEF Task
<1> HIDE DEF q
<1>2. CASE answer = "ok" /\ newest
  <2> DEFINE c == [st EXCEPT !.exec = (@ \ st.owned) \cup {q}, !.owned = {q},
                             !.retired = @ \cup st.owned]
  <2>1. b = c
    BY <1>2 DEF SettleMapping, _commit_device_references, q
  <2>2. /\ c \in State /\ c.seq = st.seq /\ c.roll = st.roll /\ c.map = st.map
        /\ c.exec = (st.exec \ st.owned) \cup {q} /\ c.owned = {q}
        /\ c.retired = st.retired \cup st.owned
    BY <1>1 DEF State
  <2> HIDE DEF b, c
  <2>3. b \in State /\ b.exec \cup b.retired = st.exec \cup st.retired \cup {q}
    BY <2>1, <2>2
  <2> QED
    BY <1>2, <2>1, <2>2, <2>3 DEF Refs, b, q
<1>3. CASE answer = "ok" /\ ~newest
  <2> DEFINE c == [st EXCEPT !.exec = @ \cup {q}, !.owned = @ \cup {q}]
  <2>1. b = c
    BY <1>3 DEF SettleMapping, _commit_device_references, q
  <2>2. /\ c \in State /\ c.seq = st.seq /\ c.roll = st.roll /\ c.map = st.map
        /\ c.exec = st.exec \cup {q} /\ c.owned = st.owned \cup {q} /\ c.retired = st.retired
    BY <1>1 DEF State
  <2> HIDE DEF b, c
  <2> QED
    BY <1>3, <2>1, <2>2 DEF Refs, b, q
<1>4. CASE answer # "ok"
  <2> DEFINE d == schedule_grab_retry(clear_hardware_runtime_state(st))
             c(x) == [x EXCEPT !.exec = @ \ {q}]
  <2>1. /\ d \in State /\ d.seq = st.seq /\ d.roll = st.roll /\ d.map = NoSig
        /\ d.exec = st.exec \ st.owned /\ d.owned = {} /\ d.retired = st.retired \cup st.owned
    <3> DEFINE e == clear_hardware_runtime_state(st)
    <3>1. /\ e \in State /\ e.seq = st.seq /\ e.roll = st.roll
          /\ e.exec = st.exec \ st.owned /\ e.owned = {} /\ e.map = NoSig
          /\ e.retired = st.retired \cup st.owned
      BY ClearRefs
    <3> HIDE DEF e
    <3> QED
      BY <3>1 DEF schedule_grab_retry, State, e
  <2>2. b = c(st) \/ b = c(d)
    BY <1>4 DEF SettleMapping, _defer_mapping_until_regrab, q
  <2>3. ASSUME NEW x \in State
        PROVE  /\ c(x) \in State /\ c(x).seq = x.seq /\ c(x).roll = x.roll /\ c(x).map = x.map
               /\ c(x).exec = x.exec \ {q} /\ c(x).owned = x.owned /\ c(x).retired = x.retired
    BY DEF State
  <2> HIDE DEF b, c, d
  <2> QED
    BY <1>4, <2>1, <2>2, <2>3 DEF Refs, b, q
<1> QED
  BY <1>2, <1>3, <1>4 DEF Answers

\* ...and the apply goes on.
LEMMA MappedRefs ==
    ASSUME NEW st \in State, NEW t \in Task, NEW answer \in Answers,
           st.owned \subseteq st.exec, t.req \in st.exec \ st.owned
    PROVE  \E b \in State :
             /\ Refs(b, st, {t.req}, answer = "ok", TRUE) /\ b.roll = st.roll
             /\ Sends(Mapped(st, t, answer), b, t)
<1> DEFINE c == SettleMapping(st, t, answer, TRUE)
           o == Mapped(st, t, answer)
<1>1. Refs(c, st, {t.req}, answer = "ok", TRUE) /\ c.roll = st.roll
  BY SettleRefs
<1>2. c \in State
  BY <1>1 DEF Refs
<1>3. t.req \in Nat
  BY DEF Task
<1>4. CASE answer = "ok"
  <2> DEFINE d == [c EXCEPT !.map = t.res.map]
             a == _acknowledge_device_request(d, t.req)
  <2>1. o = update_rollover_groups(a, t)
    BY <1>4 DEF Mapped
  <2>2. c = SettleMapping(st, t, "ok", TRUE)
    BY <1>4
  <2>3. st.exec \cup st.retired \subseteq c.exec \cup c.retired
    <3> DEFINE q == t.req
               e == [st EXCEPT !.exec = (@ \ st.owned) \cup {q}, !.owned = {q},
                               !.retired = @ \cup st.owned]
    <3>1. c = e
      BY <2>2 DEF SettleMapping, _commit_device_references
    <3> HIDE DEF c
    <3>2. e.exec = (st.exec \ st.owned) \cup {q} /\ e.retired = st.retired \cup st.owned
      BY DEF State
    <3> QED
      BY <3>1, <3>2
  <2> HIDE DEF c
  <2>4. /\ d \in State /\ d.seq = c.seq /\ d.exec = c.exec /\ d.owned = c.owned
        /\ d.retired = c.retired /\ d.roll = c.roll
    BY <1>2, TaskSigs DEF State
  <2> HIDE DEF d
  <2>5. /\ a \in State /\ a.seq = c.seq /\ a.exec = c.exec /\ a.owned = c.owned
        /\ a.retired = c.retired /\ a.roll = c.roll
    BY <1>3, <2>4 DEF _acknowledge_device_request, State
  <2> HIDE DEF a
  <2>6. Refs(a, st, {t.req}, answer = "ok", TRUE)
    BY <1>1, <1>4, <2>3, <2>5 DEF Refs
  <2>7. Sends(o, a, t)
    BY <2>1, <2>5, SendsRoll
  <2> QED
    BY <1>1, <2>5, <2>6, <2>7
<1>5. CASE answer # "ok"
  <2>1. o = deactivate_profile(c, "rerelease") \/ o = update_rollover_groups(c, t)
    BY <1>5 DEF Mapped
  <2> HIDE DEF c, o
  <2>2. Sends(o, c, t)
    BY <1>2, <2>1, SendsRelease, SendsRoll
  <2> QED
    BY <1>1, <1>2, <2>2 DEF o
<1> QED
  BY <1>4, <1>5

\* What an answer may say of the references Q of its request to an apply t.
Settles(Q, t, ok, answer) ==
    \/ Q = {} /\ ok = FALSE
    \/ t.step \in MappingSteps /\ Q = {t.req} /\ ok = (answer = "ok")

\* The answer of any command.
LEMMA AnsweredRefs ==
    ASSUME NEW st \in State, NEW t \in Task, NEW answer \in Answers,
           st.owned \subseteq st.exec, t.step # "new",
           t.step \in MappingSteps => t.req \in st.exec \ st.owned
    PROVE  \E b \in State, Q \in SUBSET Nat, ok \in BOOLEAN :
             /\ Settles(Q, t, ok, answer)
             /\ Refs(b, st, Q, ok, TRUE)
             /\ b.roll = st.roll \/ (t.step = "rollover" /\ b.roll = t.res.roll)
             /\ Sends(Answered(st, t, answer), b, t)
<1> DEFINE o == Answered(st, t, answer)
<1>1. ASSUME \E b \in State : /\ Refs(b, st, {}, FALSE, TRUE)
                              /\ b.roll = st.roll \/ (t.step = "rollover" /\ b.roll = t.res.roll)
                              /\ Sends(o, b, t)
      PROVE  \E b \in State, Q \in SUBSET Nat, ok \in BOOLEAN :
               /\ Settles(Q, t, ok, answer)
               /\ Refs(b, st, Q, ok, TRUE)
               /\ b.roll = st.roll \/ (t.step = "rollover" /\ b.roll = t.res.roll)
               /\ Sends(o, b, t)
  BY <1>1 DEF Settles
<1>2. CASE t.step \in {"regrab", "grab"}
  <2>1. o = Regrabbed(st, t, answer) \/ o = Grabbed(st, t, answer)
    <3>1. CASE t.step = "regrab"
      BY <3>1 DEF Answered, MappingSteps
    <3>2. CASE t.step = "grab"
      BY <3>2 DEF Answered, MappingSteps
    <3> QED
      BY <1>2, <3>1, <3>2
  <2> HIDE DEF o
  <2>2. \E b \in State : Refs(b, st, {}, FALSE, TRUE) /\ b.roll = st.roll /\ Sends(o, b, t)
    BY <2>1, GrabRefs
  <2> QED
    BY <1>1, <2>2 DEF o
<1>3. CASE t.step \in MappingSteps
  <2>1. o = Mapped(st, t, answer)
    BY <1>3 DEF Answered, MappingSteps
  <2>2. PICK b \in State : /\ Refs(b, st, {t.req}, answer = "ok", TRUE) /\ b.roll = st.roll
                           /\ Sends(Mapped(st, t, answer), b, t)
    BY <1>3, MappedRefs
  <2> HIDE DEF o
  <2>3. {t.req} \in SUBSET Nat /\ (answer = "ok") \in BOOLEAN
    BY DEF Task
  <2>4. Settles({t.req}, t, answer = "ok", answer)
    BY <1>3 DEF Settles
  <2>5. Sends(o, b, t)
    BY <2>1, <2>2
  <2> QED
    BY <2>2, <2>3, <2>4, <2>5 DEF o
<1>4. CASE t.step \in {"release", "rerelease"}
  <2>1. o = Released(st, t)
    BY <1>4 DEF Answered, MappingSteps
  <2> HIDE DEF o
  <2>2. \E b \in State : Refs(b, st, {}, FALSE, TRUE) /\ b.roll = st.roll /\ Sends(o, b, t)
    BY <2>1, ReleaseRefs
  <2> QED
    BY <1>1, <2>2 DEF o
<1>5. CASE t.step = "rollover"
  <2> DEFINE b == IF answer = "ok" THEN [st EXCEPT !.roll = t.res.roll] ELSE st
  <2>1. o = Ended(b)
    BY <1>5 DEF Answered, MappingSteps, RolledOver
  <2>2. /\ b \in State /\ b.seq = st.seq /\ b.exec = st.exec /\ b.owned = st.owned
        /\ b.retired = st.retired /\ b.map = st.map
        /\ b.roll = st.roll \/ b.roll = t.res.roll
    BY TaskSigs DEF State
  <2> HIDE DEF b, o
  <2>3. Sends(o, b, t)
    BY <2>1, <2>2 DEF Sends, Ended
  <2>4. Refs(b, st, {}, FALSE, TRUE)
    BY <2>2, RefsSame
  <2> QED
    BY <1>1, <1>5, <2>2, <2>3, <2>4 DEF o
<1>6. t.step \in Steps \ {"new"}
  BY DEF Task
<1> QED
  BY <1>2, <1>3, <1>4, <1>5, <1>6 DEF Steps, MappingSteps

-----------------------------------------------------------------------------
(* What a socket does to the groups that the daemon will have. *)

\* RollWillBe, of a socket cmds and a daemon with the groups d.
LastRoll(cmds, d, sig) ==
    /\ (\A i \in 1..Len(cmds) : cmds[i].kind # "roll") => d = sig
    /\ \A i \in 1..Len(cmds) :
         /\ cmds[i].kind = "roll"
         /\ \A j \in 1..Len(cmds) : cmds[j].kind = "roll" => j <= i
         => cmds[i].sig = sig

\* It is RollWillBe.
LEMMA RollIsLast ==
    ASSUME commands \in Seq(Command), NEW sig
    PROVE  RollWillBe(sig) <=> LastRoll(commands, daemon.roll, sig)
<1>1. DOMAIN commands = 1..Len(commands)
  OBVIOUS
<1> DEFINE rolls == {i \in DOMAIN commands : commands[i].kind = "roll"}
<1>2. RollWillBe(sig) <=>
        /\ rolls = {} => daemon.roll = sig
        /\ \A i \in rolls : (\A j \in rolls : j <= i) => commands[i].sig = sig
  BY DEF RollWillBe
<1>3. rolls = {} <=> \A i \in 1..Len(commands) : commands[i].kind # "roll"
  BY <1>1
<1>4. \A i : i \in rolls <=> i \in 1..Len(commands) /\ commands[i].kind = "roll"
  BY <1>1
<1> HIDE DEF rolls
<1> QED
  BY <1>2, <1>3, <1>4 DEF LastRoll

\* A command that is written comes last.
LEMMA Written ==
    ASSUME NEW cmds \in Seq(Command), NEW c \in Command
    PROVE  /\ cmds \o <<c>> \in Seq(Command)
           /\ Len(cmds \o <<c>>) = Len(cmds) + 1
           /\ \A i \in 1..Len(cmds) : (cmds \o <<c>>)[i] = cmds[i]
           /\ (cmds \o <<c>>)[Len(cmds) + 1] = c
<1>1. <<c>> \in Seq(Command) /\ Len(<<c>>) = 1 /\ <<c>>[1] = c
  OBVIOUS
<1> QED
  BY <1>1, ConcatProperties

\* The groups written last count; another command leaves them.
LEMMA RollWritten ==
    ASSUME NEW cmds \in Seq(Command), NEW c \in Command, NEW d, NEW sig,
           c.kind = "roll" => sig = c.sig,
           c.kind # "roll" => LastRoll(cmds, d, sig)
    PROVE  LastRoll(cmds \o <<c>>, d, sig)
<1> DEFINE n == Len(cmds)
           w == cmds \o <<c>>
<1>1. n \in Nat /\ Len(w) = n + 1 /\ (\A i \in 1..n : w[i] = cmds[i]) /\ w[n + 1] = c
  BY Written
<1> HIDE DEF w
<1>2. CASE c.kind = "roll"
  <2>1. ASSUME NEW i \in 1..Len(w), w[i].kind = "roll",
               \A j \in 1..Len(w) : w[j].kind = "roll" => j <= i
        PROVE  w[i].sig = sig
    BY <1>1, <1>2, <2>1
  <2>2. ~ \A i \in 1..Len(w) : w[i].kind # "roll"
    BY <1>1, <1>2
  <2> QED
    BY <2>1, <2>2 DEF LastRoll, w
<1>3. CASE c.kind # "roll"
  <2>1. ASSUME NEW i \in 1..Len(w), w[i].kind = "roll",
               \A j \in 1..Len(w) : w[j].kind = "roll" => j <= i
        PROVE  w[i].sig = sig
    <3>1. i \in 1..n
      BY <1>1, <1>3, <2>1
    <3>2. cmds[i].kind = "roll" /\ \A j \in 1..n : cmds[j].kind = "roll" => j <= i
      BY <1>1, <2>1, <3>1
    <3> QED
      BY <1>1, <1>3, <3>1, <3>2 DEF LastRoll
  <2>2. ASSUME \A i \in 1..Len(w) : w[i].kind # "roll"
        PROVE  d = sig
    <3>1. \A i \in 1..n : cmds[i].kind # "roll"
      BY <1>1, <2>2
    <3> QED
      BY <1>3, <3>1 DEF LastRoll
  <2> QED
    BY <2>1, <2>2 DEF LastRoll, w
<1> QED
  BY <1>2, <1>3

\* What is left of a socket when its first command has been read.
LEMMA Read ==
    ASSUME NEW cmds \in Seq(Command), cmds # <<>>
    PROVE  /\ Head(cmds) \in Command /\ Head(cmds) = cmds[1] /\ Len(cmds) \in Nat \ {0}
           /\ Tail(cmds) \in Seq(Command) /\ Len(Tail(cmds)) = Len(cmds) - 1
           /\ \A i \in 1..Len(Tail(cmds)) : Tail(cmds)[i] = cmds[i + 1]
OBVIOUS

\* Reading a command leaves what the groups will be.
LEMMA RollRead ==
    ASSUME NEW cmds \in Seq(Command), cmds # <<>>, NEW d, NEW sig, LastRoll(cmds, d, sig)
    PROVE  LastRoll(Tail(cmds), IF Head(cmds).kind = "roll" THEN Head(cmds).sig ELSE d, sig)
<1> DEFINE n == Len(cmds)
           w == Tail(cmds)
           e == IF Head(cmds).kind = "roll" THEN Head(cmds).sig ELSE d
<1>1. /\ n \in Nat \ {0} /\ Len(w) = n - 1 /\ (\A i \in 1..(n - 1) : w[i] = cmds[i + 1])
      /\ Head(cmds) = cmds[1]
  BY Read
<1>2. e = IF cmds[1].kind = "roll" THEN cmds[1].sig ELSE d
  BY <1>1
<1> HIDE DEF w, e
<1>3. ASSUME NEW i \in 1..Len(w), w[i].kind = "roll",
             \A j \in 1..Len(w) : w[j].kind = "roll" => j <= i
      PROVE  w[i].sig = sig
  <2>1. i + 1 \in 1..n /\ cmds[i + 1].kind = "roll" /\ w[i] = cmds[i + 1]
    BY <1>1, <1>3
  <2>2. ASSUME NEW j \in 1..n, cmds[j].kind = "roll"
        PROVE  j <= i + 1
    <3>1. CASE j = 1
      BY <1>1, <3>1
    <3>2. CASE j # 1
      <4>1. j - 1 \in 1..Len(w) /\ w[j - 1] = cmds[j]
        BY <1>1, <3>2
      <4>2. j - 1 <= i
        BY <1>3, <2>2, <4>1
      <4> QED
        BY <1>1, <4>2
    <3> QED
      BY <3>1, <3>2
  <2> QED
    BY <2>1, <2>2 DEF LastRoll
<1>4. ASSUME \A i \in 1..Len(w) : w[i].kind # "roll"
      PROVE  e = sig
  <2>1. \A j \in 1..n : j # 1 => cmds[j].kind # "roll"
    <3> TAKE j \in 1..n
    <3>1. CASE j # 1
      <4>1. j - 1 \in 1..Len(w) /\ w[j - 1] = cmds[j]
        BY <1>1, <3>1
      <4> QED
        BY <1>4, <4>1
    <3> QED
      BY <3>1
  <2> QED
    BY <1>1, <1>2, <2>1 DEF LastRoll
<1> QED
  BY <1>3, <1>4 DEF LastRoll, w, e

\* RollInv from the last groups in the socket.
LEMMA RollInvHolds ==
    ASSUME commands' \in Seq(Command),
           "reset" \notin events' /\ s'.roll # Unknown => LastRoll(commands', daemon'.roll, s'.roll),
           "reset" \notin events' /\ gen' \in DOMAIN tasks' /\ tasks'[gen'].step = "rollover" =>
             LastRoll(commands', daemon'.roll, tasks'[gen'].res.roll)
    PROVE  RollInv'
<1>1. ASSUME NEW cmds \in Seq(Command), NEW d, NEW sig, LastRoll(cmds, d, sig)
      PROVE  /\ {i \in DOMAIN cmds : cmds[i].kind = "roll"} = {} => d = sig
             /\ \A i \in {j \in DOMAIN cmds : cmds[j].kind = "roll"} :
                  (\A j \in {l \in DOMAIN cmds : cmds[l].kind = "roll"} : j <= i) => cmds[i].sig = sig
  <2>1. DOMAIN cmds = 1..Len(cmds)
    OBVIOUS
  <2> QED
    BY <1>1, <2>1 DEF LastRoll
<1> DEFINE R(sig) == /\ {i \in DOMAIN commands' : commands'[i].kind = "roll"} = {} => daemon'.roll = sig
                     /\ \A i \in {j \in DOMAIN commands' : commands'[j].kind = "roll"} :
                          (\A j \in {l \in DOMAIN commands' : commands'[l].kind = "roll"} : j <= i)
                            => commands'[i].sig = sig
<1>2. "reset" \notin events' /\ s'.roll # Unknown => R(s'.roll)
  BY <1>1
<1>3. "reset" \notin events' /\ gen' \in DOMAIN tasks' /\ tasks'[gen'].step = "rollover" =>
        R(tasks'[gen'].res.roll)
  BY <1>1
<1> QED
  BY <1>2, <1>3 DEF RollInv, RollWillBe

-----------------------------------------------------------------------------
(* Every step keeps the invariant. *)

\* A step of the newest apply: it settles the references Q, has the state b
\* before its last call, and ends or writes a command.
LEMMA ApplyStep ==
    ASSUME Inv, gen \in DOMAIN tasks, NEW t \in Task, ~t.cancelled,
           NEW b \in State, NEW Q \in SUBSET Nat, NEW ok \in BOOLEAN, NEW o,
           Refs(b, s, Q, ok, TRUE),
           Q = {} \/ (tasks[gen].step \in MappingSteps /\ Q = {tasks[gen].req}),
           ok => daemon.ref \in Q \cup {0}, ~ok => daemon.ref \notin Q,
           tasks[gen].step \in MappingSteps => commands = <<>>,
           "reset" \notin events /\ b.roll # Unknown => RollWillBe(b.roll),
           Sends(o, b, t), Take(gen, t, o), replies' \subseteq replies,
           overtaken' \subseteq {"grab", "map"},
           UNCHANGED <<context, gen, daemon, events, faults>>
    PROVE  Inv'
<1>1. /\ context \in Contexts /\ gen \in 1..MaxGens /\ s \in State /\ daemon \in Daemon
      /\ DOMAIN tasks \subseteq 1..gen /\ (\A g \in DOMAIN tasks : tasks[g] \in Task)
      /\ commands \in Seq(Command) /\ replies \subseteq [req : Nat, answer : Answers]
      /\ faults \in 0..MaxFaults /\ events \subseteq {"reset", "topology"}
  BY DEF Inv, Types
<1>2. /\ s.seq \in Nat /\ daemon.ref \in Nat /\ b.seq = s.seq
      /\ (\A g \in DOMAIN tasks : tasks[g].req \in Nat) /\ \A r \in replies : r.req \in Nat
  BY <1>1 DEF State, Daemon, Task, Refs
<1>3. /\ s' = o.s /\ o.s \in State /\ context' = context /\ gen' = gen /\ daemon' = daemon
      /\ events' = events /\ faults' = faults /\ commands' = commands \o o.cmd
      /\ o.s.owned = b.owned /\ o.s.retired = b.retired /\ o.s.map = b.map
      /\ b.exec \subseteq o.s.exec
  <2>1. b.exec \subseteq o.s.exec
    BY DEF Sends
  <2> QED
    BY <2>1 DEF Take, Sends
<1>4. /\ b.owned \subseteq b.exec /\ b.retired \subseteq 1..s.seq /\ b.exec \subseteq 1..s.seq
      /\ \A g \in DOMAIN tasks \ {gen} : tasks[g].step \in MappingSteps /\ tasks[g].cancelled
                                           /\ tasks[g].req \in b.exec \ b.owned
  <2>1. /\ b.owned \subseteq b.exec /\ b.retired \subseteq s.retired \cup s.owned
        /\ b.exec \subseteq s.exec \cup Q /\ \A p \in s.exec \ s.owned : p \in Q \/ p \in b.exec \ b.owned
    BY DEF Refs
  <2>2. /\ s.owned \subseteq s.exec /\ s.exec \subseteq 1..s.seq /\ s.retired \subseteq 1..s.seq
        /\ \A g \in DOMAIN tasks : tasks[g].step \in MappingSteps => tasks[g].req \in s.exec \ s.owned
    BY DEF Inv, StagedInv
  <2>3. Q \subseteq s.exec
    BY <2>2
  <2>4. ASSUME NEW g \in DOMAIN tasks \ {gen}
        PROVE  tasks[g].step \in MappingSteps /\ tasks[g].cancelled /\ tasks[g].req \in b.exec \ b.owned
    <3>1. tasks[g].step \in MappingSteps /\ tasks[g].cancelled
      BY DEF Inv, TaskInv
    <3>2. tasks[g].req \notin Q
      BY <3>1 DEF Inv, TaskInv, MappingSteps
    <3> QED
      BY <2>1, <2>2, <3>1, <3>2
  <2> QED
    BY <2>1, <2>2, <2>3, <2>4
<1>5. RefsResolve'
  <2>1. SUFFICES ASSUME o.s.map # NoSig, daemon.ref # 0
                 PROVE  daemon.ref \in o.s.exec \cup o.s.retired
    BY <1>3 DEF RefsResolve
  <2>2. s.map # NoSig \/ ok
    BY <1>3, <2>1 DEF Refs
  <2>3. s.exec \cup s.retired \subseteq b.exec \cup b.retired \cup (IF ok THEN {} ELSE Q)
    BY <1>3, <2>1 DEF Refs
  <2>4. CASE ok
    <3>1. daemon.ref \in Q /\ Q \subseteq b.exec
      BY <2>1, <2>4 DEF Refs
    <3> QED
      BY <1>3, <3>1
  <2>5. CASE ~ok
    <3>1. daemon.ref \in s.exec \cup s.retired
      BY <2>1, <2>2, <2>5 DEF Inv, RefsResolve
    <3> QED
      BY <1>3, <2>3, <2>5, <3>1
  <2> QED
    BY <2>4, <2>5
<1>6. \A r \in replies' : r \in [req : Nat, answer : Answers] /\ r.req \in 1..s.seq
  BY <1>1 DEF Inv, QueueInv
<1>7. CASE o.step = "done"
  <2>1. /\ o.cmd = <<>> /\ o.s.seq = s.seq /\ o.s.exec = b.exec /\ o.s.roll = b.roll
    BY <1>2, <1>7 DEF Sends, Steps
  <2>2. commands' = commands
    BY <1>1, <1>3, <2>1, ConcatEmptySeq
  <2>3. /\ DOMAIN tasks' = DOMAIN tasks \ {gen}
        /\ \A g \in DOMAIN tasks \ {gen} : tasks'[g] = tasks[g]
    BY <1>7 DEF Take
  <2>4. Types'
    BY <1>1, <1>3, <1>6, <2>2, <2>3 DEF Types
  <2>5. TaskInv'
    BY <1>3, <2>1, <2>3 DEF Inv, TaskInv
  <2>6. QueueInv'
    BY <1>3, <2>1, <2>2 DEF Inv, QueueInv
  <2>7. SentInv'
    <3>1. ASSUME NEW i \in 1..Len(commands), commands[i].kind = "map"
          PROVE  \E g \in DOMAIN tasks \ {gen} :
                   tasks[g].step \in MappingSteps /\ tasks[g].req = commands[i].req
      <4>1. PICK g \in DOMAIN tasks : tasks[g].step \in MappingSteps /\ tasks[g].req = commands[i].req
        BY <3>1 DEF Inv, SentInv
      <4>2. g # gen
        BY <4>1
      <4> QED
        BY <4>1, <4>2
    <3>2. \A i \in 1..Len(commands), g \in DOMAIN tasks :
            tasks[g].step \in MappingSteps /\ tasks[g].req = commands[i].req => commands[i].kind = "map"
      BY DEF Inv, SentInv
    <3> QED
      BY <2>2, <2>3, <3>1, <3>2 DEF SentInv
  <2>8. AnswerInv'
    BY <1>3, <2>3 DEF Inv, AnswerInv
  <2>9. StagedInv'
    BY <1>3, <1>4, <2>1, <2>3 DEF StagedInv
  <2>10. RollInv'
    <3>1. gen' \notin DOMAIN tasks'
      BY <1>3, <2>3
    <3> QED
      BY <1>3, <2>1, <2>2, <3>1 DEF RollInv, RollWillBe
  <2> QED
    BY <1>5, <2>4, <2>5, <2>6, <2>7, <2>8, <2>9, <2>10 DEF Inv
<1>8. CASE o.step # "done"
  <2>1. PICK k \in Kinds, sig \in Sig :
          /\ o.cmd = <<[kind |-> k, sig |-> sig, req |-> s.seq + 1]>>
          /\ k = "map" <=> o.step \in MappingSteps
          /\ IF k = "roll" THEN o.step = "rollover" /\ sig = t.res.roll /\ o.s.roll = Unknown
                           ELSE o.step # "rollover" /\ o.s.roll = b.roll
          /\ o.s.exec = b.exec \cup (IF k = "map" THEN {s.seq + 1} ELSE {})
    BY <1>2, <1>8 DEF Sends
  <2>2. o.step \in Steps \ {"new"} /\ o.s.seq = s.seq + 1
    BY <1>2, <1>8 DEF Sends
  <2> DEFINE c == [kind |-> k, sig |-> sig, req |-> s.seq + 1]
             n == Len(commands)
             u == [t EXCEPT !.step = o.step, !.req = o.s.seq]
  <2>3. c \in Command /\ c.kind = k /\ c.sig = sig /\ c.req = s.seq + 1
    BY <1>2 DEF Command
  <2>4. commands' = commands \o <<c>>
    BY <1>3, <2>1
  <2> HIDE DEF c
  <2>5. /\ commands' \in Seq(Command) /\ n \in Nat /\ Len(commands') = n + 1
        /\ (\A i \in 1..n : commands'[i] = commands[i]) /\ commands'[n + 1] = c
    BY <1>1, <2>3, <2>4, Written
  <2>6. \A i \in 1..Len(commands') : i \in 1..n \/ i = n + 1
    BY <2>5
  <2>7. /\ DOMAIN tasks' = DOMAIN tasks /\ tasks'[gen] = u
        /\ \A g \in DOMAIN tasks : g # gen => tasks'[g] = tasks[g]
    BY <1>8 DEF Take
  <2>8. /\ u \in Task /\ u.step = o.step /\ u.req = s.seq + 1 /\ u.res = t.res
        /\ ~u.cancelled
    <3>1. o.s.seq \in Nat /\ o.step \in Steps
      BY <1>2, <2>2
    <3>2. u \in Task
      BY <3>1 DEF Task
    <3>3. u.step = o.step /\ u.req = o.s.seq /\ u.res = t.res /\ u.cancelled = t.cancelled
      BY DEF Task
    <3> QED
      BY <2>2, <3>2, <3>3
  <2> HIDE DEF u
  <2>9. \A i \in 1..n : commands[i].req \in Nat /\ commands[i].req <= s.seq
    <3>1. \A i \in 1..n : commands[i] \in Command
      BY <1>1
    <3> QED
      BY <3>1 DEF Inv, QueueInv, Command
  <2>10. Types'
    BY <1>1, <1>3, <1>6, <2>5, <2>7, <2>8 DEF Types
  <2>11. TaskInv'
    <3>1. \A g \in DOMAIN tasks : tasks[g].req <= s.seq
      BY DEF Inv, TaskInv
    <3>2. ASSUME NEW g \in DOMAIN tasks'
          PROVE  /\ g # gen' => tasks'[g].step \in MappingSteps
                 /\ tasks'[g].cancelled <=> g # gen'
                 /\ tasks'[g].req <= s'.seq
      <4>1. CASE g = gen
        BY <1>2, <1>3, <2>2, <2>7, <2>8, <4>1
      <4>2. CASE g # gen
        BY <1>2, <1>3, <1>4, <2>2, <2>7, <3>1, <4>2
      <4> QED
        BY <4>1, <4>2
    <3>3. gen' \in DOMAIN tasks' /\ tasks'[gen'].step # "new" => tasks'[gen'].req = s'.seq
      BY <1>3, <2>2, <2>7, <2>8
    <3>4. ASSUME NEW g \in DOMAIN tasks', NEW h \in DOMAIN tasks', tasks'[g].step # "new",
                 tasks'[h].step # "new", tasks'[g].req = tasks'[h].req
          PROVE  g = h
      <4>1. CASE g = gen \/ h = gen
        BY <1>2, <2>7, <2>8, <3>1, <3>4, <4>1
      <4>2. CASE g # gen /\ h # gen
        BY <2>7, <3>4, <4>2 DEF Inv, TaskInv
      <4> QED
        BY <4>1, <4>2
    <3> QED
      BY <3>2, <3>3, <3>4 DEF TaskInv
  <2>12. QueueInv'
    <3>1. daemon.ref <= s.seq
      BY DEF Inv, QueueInv
    <3>2. ASSUME NEW i \in 1..Len(commands')
          PROVE  commands'[i].req <= s'.seq /\ daemon'.ref < commands'[i].req
      <4>1. CASE i \in 1..n
        BY <1>2, <1>3, <2>2, <2>5, <2>9, <4>1 DEF Inv, QueueInv
      <4>2. CASE i = n + 1
        BY <1>2, <1>3, <2>2, <2>3, <2>5, <3>1, <4>2
      <4> QED
        BY <2>6, <4>1, <4>2
    <3>3. ASSUME NEW i \in 1..Len(commands'), NEW j \in 1..Len(commands'), i < j
          PROVE  commands'[i].req < commands'[j].req
      <4>1. i \in 1..n
        BY <2>5, <3>3
      <4>2. CASE j \in 1..n
        BY <2>5, <3>3, <4>1, <4>2 DEF Inv, QueueInv
      <4>3. CASE j = n + 1
        <5>1. commands'[i].req \in Nat /\ commands'[i].req <= s.seq
          BY <2>5, <2>9, <4>1
        <5>2. commands'[j].req = s.seq + 1
          BY <2>3, <2>5, <4>3
        <5>3. s.seq \in Nat
          BY <1>2
        <5> HIDE DEF n
        <5> QED
          BY <5>1, <5>2, <5>3
      <4> QED
        BY <2>6, <4>2, <4>3
    <3>4. ASSUME NEW r \in replies'
          PROVE  r.req \in 1..s'.seq /\ \A i \in 1..Len(commands') : r.req < commands'[i].req
      <4>1. r.req \in 1..s.seq
        BY <1>6
      <4>2. r.req \in 1..s'.seq
        BY <1>2, <1>3, <2>2, <4>1
      <4>3. ASSUME NEW i \in 1..Len(commands')
            PROVE  r.req < commands'[i].req
        <5>1. CASE i \in 1..n
          BY <2>5, <5>1 DEF Inv, QueueInv
        <5>2. CASE i = n + 1
          BY <1>2, <2>3, <2>5, <4>1, <5>2
        <5> QED
          BY <2>6, <5>1, <5>2
      <4> QED
        BY <4>2, <4>3
    <3>5. daemon'.ref <= s'.seq
      BY <1>2, <1>3, <2>2, <3>1
    <3> QED
      BY <3>2, <3>3, <3>4, <3>5 DEF QueueInv
  <2>13. SentInv'
    <3>1. ASSUME NEW i \in 1..Len(commands'), commands'[i].kind = "map"
          PROVE  \E g \in DOMAIN tasks' :
                   tasks'[g].step \in MappingSteps /\ tasks'[g].req = commands'[i].req
      <4>1. CASE i \in 1..n
        <5>1. commands[i].kind = "map" /\ commands'[i] = commands[i]
          BY <2>5, <3>1, <4>1
        <5>2. PICK g \in DOMAIN tasks :
                tasks[g].step \in MappingSteps /\ tasks[g].req = commands[i].req
          BY <4>1, <5>1 DEF Inv, SentInv
        <5>3. g # gen
          BY <4>1, <5>2
        <5> QED
          BY <2>7, <5>1, <5>2, <5>3
      <4>2. CASE i = n + 1
        BY <2>1, <2>3, <2>5, <2>7, <2>8, <3>1, <4>2
      <4> QED
        BY <2>6, <4>1, <4>2
    <3>2. ASSUME NEW i \in 1..Len(commands'), NEW g \in DOMAIN tasks',
                 tasks'[g].step \in MappingSteps, tasks'[g].req = commands'[i].req
          PROVE  commands'[i].kind = "map"
      <4>1. CASE i \in 1..n
        <5>1. commands'[i] = commands[i] /\ commands[i].req <= s.seq
          BY <2>5, <2>9, <4>1
        <5>2. g # gen
          BY <1>2, <2>7, <2>8, <2>9, <3>2, <4>1, <5>1
        <5> QED
          BY <2>7, <3>2, <4>1, <5>1, <5>2 DEF Inv, SentInv
      <4>2. CASE i = n + 1
        <5>1. tasks'[g].req = s.seq + 1
          BY <2>3, <2>5, <3>2, <4>2
        <5>2. g = gen
          BY <1>2, <2>7, <5>1 DEF Inv, TaskInv
        <5> QED
          BY <2>1, <2>3, <2>5, <2>7, <2>8, <3>2, <4>2, <5>2
      <4> QED
        BY <2>6, <4>1, <4>2
    <3> QED
      BY <3>1, <3>2 DEF SentInv
  <2>14. AnswerInv'
    <3> SUFFICES ASSUME NEW r \in replies', NEW g \in DOMAIN tasks',
                        tasks'[g].step \in MappingSteps, tasks'[g].req = r.req
                 PROVE  IF r.answer = "ok" THEN daemon'.ref = 0 \/ daemon'.ref >= r.req
                                           ELSE daemon'.ref # r.req
      BY DEF AnswerInv
    <3>1. r.req \in 1..s.seq
      BY <1>6
    <3>2. g # gen
      BY <1>2, <2>7, <2>8, <3>1
    <3> QED
      BY <1>3, <2>7, <3>2 DEF Inv, AnswerInv
  <2>15. StagedInv'
    <3>1. s'.owned \subseteq s'.exec /\ s'.exec \subseteq 1..s'.seq /\ s'.retired \subseteq 1..s'.seq
      BY <1>2, <1>3, <1>4, <2>1, <2>2
    <3>2. ASSUME NEW g \in DOMAIN tasks', tasks'[g].step \in MappingSteps
          PROVE  tasks'[g].req \in s'.exec \ s'.owned
      <4>1. CASE g = gen
        <5>1. k = "map" /\ tasks'[g].req = s.seq + 1
          BY <2>1, <2>7, <2>8, <3>2, <4>1
        <5>2. s.seq + 1 \notin b.owned
          BY <1>2, <1>4
        <5> QED
          BY <1>3, <2>1, <5>1, <5>2
      <4>2. CASE g # gen
        BY <1>3, <1>4, <2>7, <4>2
      <4> QED
        BY <4>1, <4>2
    <3> QED
      BY <3>1, <3>2 DEF StagedInv
  <2>16. RollInv'
    <3>2. ASSUME k = "roll"
          PROVE  /\ o.s.roll = Unknown
                 /\ LastRoll(commands', daemon'.roll, t.res.roll)
      <4>1. LastRoll(commands \o <<c>>, daemon.roll, t.res.roll)
        BY <1>1, <2>1, <2>3, <3>2, RollWritten
      <4> QED
        BY <1>3, <2>1, <2>4, <3>2, <4>1
    <3>3. ASSUME k # "roll"
          PROVE  /\ o.step # "rollover"
                 /\ "reset" \notin events /\ o.s.roll # Unknown =>
                      LastRoll(commands', daemon'.roll, o.s.roll)
      <4>1. ASSUME "reset" \notin events, b.roll # Unknown
            PROVE  LastRoll(commands', daemon'.roll, b.roll)
        <5>1. LastRoll(commands, daemon.roll, b.roll)
          BY <1>1, <4>1, RollIsLast
        <5>2. LastRoll(commands \o <<c>>, daemon.roll, b.roll)
          BY <1>1, <2>3, <3>3, <5>1, RollWritten
        <5> QED
          BY <1>3, <2>4, <5>2
      <4> QED
        BY <2>1, <3>3, <4>1
    <3>4. "reset" \notin events' /\ s'.roll # Unknown => LastRoll(commands', daemon'.roll, s'.roll)
      BY <1>3, <3>2, <3>3
    <3>5. tasks'[gen'].step = "rollover" => LastRoll(commands', daemon'.roll, tasks'[gen'].res.roll)
      BY <1>3, <2>7, <2>8, <3>2, <3>3
    <3> QED
      BY <2>5, <3>4, <3>5, RollInvHolds
  <2> QED
    BY <1>5, <2>10, <2>11, <2>12, <2>13, <2>14, <2>15, <2>16 DEF Inv
<1> QED
  BY <1>7, <1>8

\* An apply resolves the profiles and takes its first step.
LEMMA ReconcileStep ==
    ASSUME Inv, NEW g, reconcile(g)
    PROVE  Inv'
<1>1. g \in DOMAIN tasks /\ tasks[g].step = "new" /\ g = gen
  BY DEF Inv, TaskInv, reconcile, MappingSteps
<1>2. /\ tasks[gen] \in Task /\ context \in Contexts /\ s \in State /\ s.owned \subseteq s.exec
      /\ ~tasks[gen].cancelled /\ overtaken \subseteq {"grab", "map"}
  BY <1>1 DEF Inv, Types, TaskInv, StagedInv
<1> DEFINE t == [tasks[gen] EXCEPT !.res = Resolve[context], !.remap = s.map # Resolve[context].map]
           o == apply_resolved_device_profile(s, t)
<1>3. Take(gen, t, o) /\ UNCHANGED <<context, gen, replies, daemon, events, faults, overtaken>>
  BY <1>1 DEF reconcile
<1>4. t \in Task /\ ~t.cancelled
  <2>1. Resolve[context] \in Resolutions
    BY <1>2 DEF Resolutions
  <2>2. t.cancelled = tasks[gen].cancelled
    BY <1>2 DEF Task
  <2>3. t \in Task
    BY <1>2, <2>1 DEF Task
  <2> QED
    BY <1>2, <2>2, <2>3
<1> HIDE DEF t
<1>5. PICK b \in State : Refs(b, s, {}, FALSE, TRUE) /\ b.roll = s.roll /\ Sends(o, b, t)
  BY <1>2, <1>4, AppliedRefs
<1> HIDE DEF o
<1>6. "reset" \notin events /\ b.roll # Unknown => RollWillBe(b.roll)
  BY <1>5 DEF Inv, RollInv
<1>7. {} \in SUBSET Nat /\ FALSE \in BOOLEAN /\ tasks[gen].step \notin MappingSteps
  BY <1>1 DEF MappingSteps
<1> QED
  BY <1>1, <1>2, <1>3, <1>4, <1>5, <1>6, <1>7, ApplyStep

\* An answer arrives at the newest apply: everything it sent has been read.
LEMMA CurrentStep ==
    ASSUME Inv, gen \in DOMAIN tasks, NEW r \in replies, r.req = tasks[gen].req,
           tasks[gen].step # "new", replies' = replies \ {r},
           Take(gen, tasks[gen], Answered(s, tasks[gen], r.answer)),
           overtaken' \subseteq {"grab", "map"},
           UNCHANGED <<context, gen, daemon, events, faults>>
    PROVE  Inv'
<1> DEFINE t == tasks[gen]
           o == Answered(s, t, r.answer)
<1>1. /\ t \in Task /\ s \in State /\ s.owned \subseteq s.exec /\ ~t.cancelled
      /\ t.step \in MappingSteps => t.req \in s.exec \ s.owned
  BY DEF Inv, Types, TaskInv, StagedInv
<1>2. /\ r.answer \in Answers /\ r.req \in Nat /\ s.seq \in Nat /\ daemon.ref \in Nat
      /\ commands \in Seq(Command)
  BY <1>1 DEF Inv, Types, State, Daemon
<1>3. r.req = s.seq
  BY DEF Inv, TaskInv
<1>4. commands = <<>>
  <2>1. ASSUME NEW i \in 1..Len(commands)
        PROVE  FALSE
    <3>1. commands[i].req \in Nat
      <4>1. commands[i] \in Command
        BY <1>2
      <4> QED
        BY <4>1 DEF Command
    <3>2. commands[i].req <= s.seq /\ r.req < commands[i].req
      BY DEF Inv, QueueInv
    <3> QED
      BY <1>2, <1>3, <3>1, <3>2
  <2>2. Len(commands) \in Nat
    BY <1>2
  <2>3. Len(commands) = 0
    BY <2>1, <2>2
  <2> QED
    BY <1>2, <2>3
<1> HIDE DEF t, o
<1>5. PICK b \in State, Q \in SUBSET Nat, ok \in BOOLEAN :
             /\ Settles(Q, t, ok, r.answer)
             /\ Refs(b, s, Q, ok, TRUE)
             /\ b.roll = s.roll \/ (t.step = "rollover" /\ b.roll = t.res.roll)
             /\ Sends(o, b, t)
  BY <1>1, <1>2, AnsweredRefs DEF t, o
<1>6. /\ Q = {} \/ (t.step \in MappingSteps /\ Q = {t.req})
      /\ ok => t.step \in MappingSteps /\ Q = {t.req} /\ r.answer = "ok"
      /\ ~ok => Q = {} \/ (t.step \in MappingSteps /\ Q = {t.req} /\ r.answer # "ok")
  BY <1>5 DEF Settles
<1>7. /\ ok => daemon.ref \in Q \cup {0}
      /\ ~ok => daemon.ref \notin Q
  <2>1. t.step \in MappingSteps =>
          IF r.answer = "ok" THEN daemon.ref = 0 \/ daemon.ref >= r.req ELSE daemon.ref # r.req
    BY DEF Inv, AnswerInv, t
  <2>2. daemon.ref <= s.seq
    BY DEF Inv, QueueInv
  <2>3. r.req = t.req
    BY DEF t
  <2> QED
    BY <1>2, <1>3, <1>6, <2>1, <2>2, <2>3
<1>8. "reset" \notin events /\ b.roll # Unknown => RollWillBe(b.roll)
  BY <1>5 DEF Inv, RollInv, t
<1>9. replies' \subseteq replies /\ Take(gen, t, o)
  BY DEF t, o
<1> QED
  BY <1>1, <1>4, <1>5, <1>6, <1>7, <1>8, <1>9, ApplyStep DEF t

\* An answer arrives at a superseded apply: it settles its mapping and ends.
LEMMA SupersededStep ==
    ASSUME Inv, NEW g \in DOMAIN tasks, g # gen, NEW r \in replies, r.req = tasks[g].req,
           replies' = replies \ {r},
           s' = SettleMapping(s, tasks[g], r.answer, FALSE),
           tasks' = [h \in DOMAIN tasks \ {g} |-> tasks[h]],
           UNCHANGED <<context, gen, commands, daemon, events, faults, overtaken>>
    PROVE  Inv'
<1> DEFINE t == tasks[g]
           ok == r.answer = "ok"
<1>1. /\ t \in Task /\ s \in State /\ r.answer \in Answers /\ t.step \in MappingSteps
      /\ s.owned \subseteq s.exec /\ s.exec \subseteq 1..s.seq /\ s.retired \subseteq 1..s.seq
      /\ t.req \in s.exec \ s.owned
  BY DEF Inv, Types, TaskInv, StagedInv
<1>2. Refs(s', s, {t.req}, ok, FALSE) /\ s'.roll = s.roll
  BY <1>1, SettleRefs
<1>3. /\ s' \in State /\ s'.seq = s.seq /\ s'.owned \subseteq s'.exec
      /\ s'.exec \subseteq 1..s.seq /\ s'.retired \subseteq 1..s.seq
      /\ \A p \in s.exec \ s.owned : p = t.req \/ p \in s'.exec \ s'.owned
  BY <1>1, <1>2 DEF Refs
<1>4. /\ DOMAIN tasks' = DOMAIN tasks \ {g} /\ gen' = gen /\ context' = context
      /\ commands' = commands /\ daemon' = daemon /\ events' = events /\ faults' = faults
      /\ overtaken' = overtaken /\ \A h \in DOMAIN tasks \ {g} : tasks'[h] = tasks[h]
  OBVIOUS
<1>5. \A h \in DOMAIN tasks \ {g} :
        /\ tasks[h].step \in MappingSteps => tasks[h].req # t.req
        /\ tasks[h].step \in MappingSteps => tasks[h].req \in s'.exec \ s'.owned
  <2>1. \A h \in DOMAIN tasks \ {g} : tasks[h].step \in MappingSteps => tasks[h].req # t.req
    BY <1>1 DEF Inv, TaskInv, MappingSteps
  <2>2. \A h \in DOMAIN tasks : tasks[h].step \in MappingSteps => tasks[h].req \in s.exec \ s.owned
    BY DEF Inv, StagedInv
  <2> QED
    BY <1>3, <2>1, <2>2
<1>6. Types'
  BY <1>3, <1>4 DEF Inv, Types
<1>7. TaskInv'
  BY <1>3, <1>4 DEF Inv, TaskInv
<1>8. QueueInv'
  BY <1>3, <1>4 DEF Inv, QueueInv
<1>9. SentInv'
  <2>1. ASSUME NEW i \in 1..Len(commands), commands[i].kind = "map"
        PROVE  \E h \in DOMAIN tasks \ {g} :
                 tasks[h].step \in MappingSteps /\ tasks[h].req = commands[i].req
    <3>1. PICK h \in DOMAIN tasks : tasks[h].step \in MappingSteps /\ tasks[h].req = commands[i].req
      BY <2>1 DEF Inv, SentInv
    <3>2. r.req < commands[i].req /\ r.req \in 1..s.seq
      BY DEF Inv, QueueInv
    <3>3. h # g
      BY <3>1, <3>2
    <3> QED
      BY <3>1, <3>3
  <2> QED
    BY <1>4, <2>1 DEF Inv, SentInv
<1>10. AnswerInv'
  BY <1>4 DEF Inv, AnswerInv
<1>11. StagedInv'
  BY <1>3, <1>4, <1>5 DEF StagedInv
<1>12. RefsResolve'
  <2>1. SUFFICES ASSUME s'.map # NoSig, daemon.ref # 0
                 PROVE  daemon.ref \in s'.exec \cup s'.retired
    BY <1>4 DEF RefsResolve
  <2>2. /\ s.map # NoSig
        /\ s.exec \cup s.retired \subseteq s'.exec \cup s'.retired \cup (IF ok THEN {} ELSE {t.req})
    BY <1>2, <2>1 DEF Refs
  <2>3. ~ok => daemon.ref # t.req
    BY <1>1 DEF Inv, AnswerInv
  <2>4. daemon.ref \in s.exec \cup s.retired
    BY <2>1, <2>2 DEF Inv, RefsResolve
  <2> QED
    BY <2>2, <2>3, <2>4
<1>13. RollInv'
  BY <1>2, <1>4 DEF Inv, RollInv, RollWillBe
<1> QED
  BY <1>6, <1>7, <1>8, <1>9, <1>10, <1>11, <1>12, <1>13 DEF Inv

\* The answer of a command.
LEMMA ResumeStep ==
    ASSUME Inv, NEW g, Resume(g)
    PROVE  Inv'
<1>1. PICK r \in replies :
        /\ r.req = tasks[g].req /\ tasks[g].step # "new"
        /\ replies' = replies \ {r}
        /\ \/ /\ IsCurrent(g)
              /\ Take(g, tasks[g], Answered(s, tasks[g], r.answer))
              /\ overtaken' = (overtaken \ Confirms(tasks[g], r.answer))
                                \cup GivenUp(tasks[g], r.answer)
           \/ /\ ~IsCurrent(g)
              /\ s' = IF tasks[g].step \in MappingSteps
                        THEN SettleMapping(s, tasks[g], r.answer, g = gen)
                      ELSE IF tasks[g].step = "rollover"
                        THEN RolledOver(s, tasks[g], r.answer).s
                      ELSE s
              /\ tasks' = [h \in DOMAIN tasks \ {g} |-> tasks[h]]
              /\ UNCHANGED <<commands, overtaken>>
  BY DEF Resume
<1>2. g \in DOMAIN tasks /\ UNCHANGED <<context, gen, daemon, events, faults>>
  BY DEF Resume
<1>3. CASE IsCurrent(g)
  <2>1. g = gen
    BY <1>3 DEF IsCurrent
  <2>2. overtaken' \subseteq {"grab", "map"}
    <3>1. overtaken \subseteq {"grab", "map"}
      BY DEF Inv, Types
    <3>2. GivenUp(tasks[g], r.answer) \subseteq {"grab", "map"}
      BY DEF GivenUp
    <3> QED
      BY <1>1, <1>3, <3>1, <3>2
  <2> QED
    BY <1>1, <1>2, <1>3, <2>1, <2>2, CurrentStep
<1>4. CASE ~IsCurrent(g)
  <2>1. g # gen
    BY <1>2, <1>4 DEF Inv, TaskInv, IsCurrent
  <2>2. tasks[g].step \in MappingSteps
    BY <1>2, <2>1 DEF Inv, TaskInv
  <2>3. s' = SettleMapping(s, tasks[g], r.answer, FALSE)
    <3>1. s' = SettleMapping(s, tasks[g], r.answer, g = gen)
      BY <1>1, <1>4, <2>2
    <3>2. (g = gen) = FALSE
      BY <2>1
    <3> QED
      BY <3>1, <3>2
  <2> QED
    BY <1>1, <1>2, <1>4, <2>1, <2>3, SupersededStep
<1> QED
  BY <1>3, <1>4

\* A new generation supersedes the applies: only those at a mapping stay.
LEMMA BeginStep ==
    ASSUME Inv, NEW c \in Contexts, NEW st \in State, NEW F \in SUBSET {"grab", "map"},
           begin(c, st, F), st.seq = s.seq, st.owned \subseteq st.exec, st.exec \subseteq s.exec,
           st.retired \subseteq s.retired, s.exec \ s.owned \subseteq st.exec \ st.owned,
           st.map # NoSig => st.map = s.map /\ st.exec = s.exec /\ st.retired = s.retired,
           st.roll = Unknown \/ (st.roll = s.roll /\ events' = events),
           events' \subseteq {"reset", "topology"}, UNCHANGED <<commands, daemon, faults>>
    PROVE  Inv'
<1> DEFINE D == {h \in DOMAIN tasks : h # gen \/ tasks[h].step \in MappingSteps}
           n == NewTask(c)
<1>1. /\ gen \in 1..MaxGens /\ s \in State /\ daemon \in Daemon /\ MaxGens \in Nat
      /\ DOMAIN tasks \subseteq 1..gen /\ (\A g \in DOMAIN tasks : tasks[g] \in Task)
      /\ commands \in Seq(Command) /\ replies \subseteq [req : Nat, answer : Answers]
      /\ faults \in 0..MaxFaults /\ overtaken \subseteq {"grab", "map"}
  BY ProfileAssumption DEF Inv, Types
<1>2. /\ gen < MaxGens /\ gen' = gen + 1 /\ context' = c /\ s' = st /\ replies' \subseteq replies
      /\ tasks' = With(Cancel(tasks), gen + 1, n)
      /\ overtaken' = overtaken \cup F \cup
            (IF gen \in DOMAIN tasks THEN InDoubt(tasks[gen]) ELSE {})
      /\ commands' = commands /\ daemon' = daemon /\ faults' = faults
  BY DEF begin
<1>3. /\ n \in Task /\ n.step = "new" /\ n.req = 0 /\ n.cancelled = FALSE
  BY DEF NewTask, Task, Resolutions, Steps
<1> HIDE DEF n
<1>4. gen + 1 \notin DOMAIN tasks /\ gen + 1 \notin D
  BY <1>1
<1>5. /\ DOMAIN tasks' = D \cup {gen + 1} /\ tasks'[gen + 1] = n
      /\ \A g \in D : tasks'[g] = [tasks[g] EXCEPT !.cancelled = TRUE]
  BY <1>2, <1>4 DEF With, Cancel
<1>6. \A g \in D : tasks[g].step \in MappingSteps
  BY DEF Inv, TaskInv
<1>7. \A g \in D : /\ tasks'[g] \in Task /\ tasks'[g].step = tasks[g].step
                   /\ tasks'[g].req = tasks[g].req /\ tasks'[g].cancelled /\ g # gen + 1
                   /\ g \in DOMAIN tasks
  <2> TAKE g \in D
  <2>1. tasks[g] \in Task /\ g \in DOMAIN tasks /\ g # gen + 1
    BY <1>1, <1>4
  <2>2. tasks'[g] = [tasks[g] EXCEPT !.cancelled = TRUE]
    BY <1>5
  <2>3. tasks'[g] \in Task /\ tasks'[g].step = tasks[g].step /\ tasks'[g].req = tasks[g].req
    BY <2>1, <2>2 DEF Task
  <2>4. tasks'[g].cancelled
    BY <2>1, <2>2 DEF Task
  <2> QED
    BY <2>1, <2>3, <2>4
<1>8. \A g \in DOMAIN tasks : tasks[g].step \in MappingSteps => g \in D
  OBVIOUS
<1> HIDE DEF D
<1>9. Types'
  <2>1. InDoubt(tasks[gen]) \subseteq {"grab", "map"}
    BY DEF InDoubt
  <2>2. overtaken' \subseteq {"grab", "map"}
    BY <1>1, <1>2, <2>1
  <2>3. gen' \in 1..MaxGens /\ DOMAIN tasks' \subseteq 1..gen'
    <3>1. gen + 1 \in 1..MaxGens /\ \A x \in 1..gen : x \in 1..(gen + 1)
      BY <1>1, <1>2
    <3>2. D \subseteq 1..gen /\ gen + 1 \in 1..(gen + 1)
      BY <1>1, <1>7
    <3> QED
      BY <1>2, <1>5, <3>1, <3>2
  <2>4. \A g \in DOMAIN tasks' : tasks'[g] \in Task
    BY <1>3, <1>5, <1>7
  <2> QED
    BY <1>1, <1>2, <2>2, <2>3, <2>4 DEF Types
<1>10. TaskInv'
  <2>1. s.seq \in Nat /\ \A g \in D : tasks[g].req <= s.seq
    BY <1>1, <1>7 DEF Inv, TaskInv, State
  <2>2. ASSUME NEW g \in DOMAIN tasks'
        PROVE  /\ g # gen' => tasks'[g].step \in MappingSteps
               /\ tasks'[g].cancelled <=> g # gen'
               /\ tasks'[g].req <= s'.seq
    <3>1. CASE g \in D
      BY <1>2, <1>6, <1>7, <2>1, <3>1
    <3>2. CASE g = gen + 1
      BY <1>2, <1>3, <1>5, <2>1, <3>2
    <3> QED
      BY <1>5, <3>1, <3>2
  <2>3. ASSUME NEW g \in DOMAIN tasks', NEW h \in DOMAIN tasks', tasks'[g].step # "new",
               tasks'[h].step # "new", tasks'[g].req = tasks'[h].req
        PROVE  g = h
    <3>1. g \in D /\ h \in D
      BY <1>3, <1>5, <2>3
    <3> QED
      BY <1>7, <2>3, <3>1 DEF Inv, TaskInv
  <2>4. tasks'[gen'].step = "new"
    BY <1>2, <1>3, <1>5
  <2> QED
    BY <2>2, <2>3, <2>4 DEF TaskInv
<1>11. QueueInv'
  BY <1>2 DEF Inv, QueueInv
<1>12. \A g \in DOMAIN tasks' : tasks'[g].step \in MappingSteps =>
         g \in D /\ tasks[g].step \in MappingSteps /\ tasks'[g].req = tasks[g].req
  BY <1>3, <1>5, <1>7 DEF MappingSteps
<1>13. SentInv'
  <2>1. ASSUME NEW i \in 1..Len(commands), commands[i].kind = "map"
        PROVE  \E g \in DOMAIN tasks' :
                 tasks'[g].step \in MappingSteps /\ tasks'[g].req = commands[i].req
    <3>1. PICK g \in DOMAIN tasks : tasks[g].step \in MappingSteps /\ tasks[g].req = commands[i].req
      BY <2>1 DEF Inv, SentInv
    <3>2. g \in D
      BY <1>8, <3>1
    <3> QED
      BY <1>5, <1>7, <3>1, <3>2
  <2>2. \A i \in 1..Len(commands), g \in DOMAIN tasks :
          tasks[g].step \in MappingSteps /\ tasks[g].req = commands[i].req => commands[i].kind = "map"
    BY DEF Inv, SentInv
  <2>3. \A i \in 1..Len(commands), g \in DOMAIN tasks' :
          tasks'[g].step \in MappingSteps /\ tasks'[g].req = commands[i].req => commands[i].kind = "map"
    BY <1>7, <1>12, <2>2
  <2> QED
    BY <1>2, <2>1, <2>3 DEF SentInv
<1>14. AnswerInv'
  BY <1>2, <1>7, <1>12 DEF Inv, AnswerInv
<1>15. StagedInv'
  <2>1. s'.owned \subseteq s'.exec /\ s'.exec \subseteq 1..s'.seq /\ s'.retired \subseteq 1..s'.seq
    BY <1>2 DEF Inv, StagedInv
  <2>2. ASSUME NEW g \in DOMAIN tasks', tasks'[g].step \in MappingSteps
        PROVE  tasks'[g].req \in s'.exec \ s'.owned
    <3>1. tasks[g].req \in s.exec \ s.owned
      BY <1>7, <1>12, <2>2 DEF Inv, StagedInv
    <3> QED
      BY <1>2, <1>12, <2>2, <3>1
  <2> QED
    BY <2>1, <2>2 DEF StagedInv
<1>16. RefsResolve'
  BY <1>2 DEF Inv, RefsResolve
<1>17. RollInv'
  <2>1. tasks'[gen'].step # "rollover"
    BY <1>2, <1>3, <1>5
  <2>2. ASSUME "reset" \notin events', s'.roll # Unknown
        PROVE  LastRoll(commands', daemon'.roll, s'.roll)
    <3>1. RollWillBe(s.roll) /\ s'.roll = s.roll
      BY <1>2, <2>2 DEF Inv, RollInv
    <3>2. LastRoll(commands, daemon.roll, s.roll)
      BY <1>1, <3>1, RollIsLast
    <3> QED
      BY <1>2, <3>1, <3>2
  <2>3. commands' \in Seq(Command)
    BY <1>1, <1>2
  <2> QED
    BY <2>1, <2>2, <2>3, RollInvHolds
<1> QED
  BY <1>9, <1>10, <1>11, <1>13, <1>14, <1>15, <1>16, <1>17 DEF Inv

\* The state after a reset or a change of the topology has been handled.
LEMMA InvalidState ==
    ASSUME s \in State
    PROVE  LET b == invalidate_grabbed_state(s)
           IN  /\ b \in State /\ b.seq = s.seq /\ b.roll = Unknown /\ b.map = NoSig
               /\ b.exec = s.exec \ s.owned /\ b.owned = {} /\ b.retired = {}
BY DEF invalidate_grabbed_state, State, Sig

\* A change of context, a retry, or an event of the daemon.
LEMMA SupersedeStep ==
    ASSUME Inv,
           \/ \E c \in Contexts : ChangeContext(c)
           \/ Retry
           \/ \E e \in {"reset", "topology"} : HandleEvent(e)
    PROVE  Inv'
<1>1. /\ s \in State /\ context \in Contexts /\ events \subseteq {"reset", "topology"}
      /\ s.owned \subseteq s.exec /\ {} \in SUBSET {"grab", "map"}
  BY DEF Inv, Types, StagedInv
<1>2. CASE \E c \in Contexts : ChangeContext(c)
  <2>1. PICK c \in Contexts : ChangeContext(c)
    BY <1>2
  <2>2. begin(c, s, {}) /\ UNCHANGED <<commands, daemon, events, faults>>
    BY <2>1 DEF ChangeContext
  <2> QED
    BY <1>1, <2>2, BeginStep
<1>3. CASE Retry
  <2> DEFINE b == [s EXCEPT !.retry = "running"]
  <2>1. begin(context, b, {}) /\ UNCHANGED <<commands, daemon, events, faults>>
    BY <1>3 DEF Retry
  <2>2. /\ b \in State /\ b.seq = s.seq /\ b.exec = s.exec /\ b.owned = s.owned
        /\ b.retired = s.retired /\ b.map = s.map /\ b.roll = s.roll
    BY <1>1 DEF State
  <2> HIDE DEF b
  <2> QED
    BY <1>1, <2>1, <2>2, BeginStep
<1>4. CASE \E e \in {"reset", "topology"} : HandleEvent(e)
  <2>1. PICK e \in {"reset", "topology"} : HandleEvent(e)
    BY <1>4
  <2> DEFINE b == invalidate_grabbed_state(s)
             F == IF daemon.grabbed THEN {"grab", "map"} ELSE {}
  <2>2. begin(context, b, F) /\ events' = events \ {e} /\ UNCHANGED <<commands, daemon, faults>>
    BY <2>1 DEF HandleEvent
  <2>3. /\ b \in State /\ b.seq = s.seq /\ b.roll = Unknown /\ b.map = NoSig
        /\ b.exec = s.exec \ s.owned /\ b.owned = {} /\ b.retired = {}
    BY <1>1, InvalidState
  <2>4. F \in SUBSET {"grab", "map"}
    OBVIOUS
  <2> HIDE DEF b, F
  <2> QED
    BY <1>1, <2>2, <2>3, <2>4, BeginStep
<1> QED
  BY <1>2, <1>3, <1>4

\* The session drops a retry, or references that the daemon does not use.
LEMMA SessionStep ==
    ASSUME Inv, RetryReturns \/ collect_retired
    PROVE  Inv'
<1>1. s \in State
  BY DEF Inv, Types
<1>2. /\ UNCHANGED <<context, gen, tasks, commands, replies, daemon, events, faults, overtaken>>
      /\ s' \in State /\ s'.seq = s.seq /\ s'.exec = s.exec /\ s'.owned = s.owned /\ s'.map = s.map
      /\ s'.roll = s.roll /\ s'.retired \subseteq s.retired
      /\ daemon.ref \in s.retired => daemon.ref \in s'.retired
  <2>1. CASE RetryReturns
    BY <1>1, <2>1 DEF RetryReturns, State
  <2>2. CASE collect_retired
    <3> DEFINE R == {r \in s.retired : r = daemon.ref}
    <3>1. /\ s' = [s EXCEPT !.retired = R]
          /\ UNCHANGED <<context, gen, tasks, commands, replies, daemon, events, faults, overtaken>>
      BY <1>1, <2>2 DEF collect_retired, State
    <3>2. R \subseteq s.retired /\ (daemon.ref \in s.retired => daemon.ref \in R)
      OBVIOUS
    <3> HIDE DEF R
    <3> QED
      BY <1>1, <3>1, <3>2 DEF State
  <2> QED
    BY <2>1, <2>2
<1>3. Types'
  BY <1>2 DEF Inv, Types
<1>4. TaskInv' /\ QueueInv' /\ SentInv' /\ AnswerInv'
  BY <1>2 DEF Inv, TaskInv, QueueInv, SentInv, AnswerInv
<1>5. StagedInv'
  BY <1>2 DEF Inv, StagedInv
<1>6. RefsResolve'
  BY <1>2 DEF Inv, RefsResolve
<1>7. RollInv'
  BY <1>2 DEF Inv, RollInv, RollWillBe
<1> QED
  BY <1>3, <1>4, <1>5, <1>6, <1>7 DEF Inv

\* The daemon changes by itself: it keeps its mapping or drops it, and forgets
\* its groups only with a reset that it announces.
LEMMA DaemonStep ==
    ASSUME Inv, delayed_hardware_release \/ emergency_reset \/ Unplug \/ Replug
    PROVE  Inv'
<1>1. /\ daemon \in Daemon /\ events \subseteq {"reset", "topology"} /\ faults \in 0..MaxFaults
      /\ MaxFaults \in Nat
  BY ProfileAssumption DEF Inv, Types
<1>2. NoSig \in Sig /\ EmptyRoll \in Sig
  BY ProfileAssumption DEF Sig, EmptyRoll, Resolutions
<1>3. /\ UNCHANGED <<context, s, gen, tasks, commands, replies, overtaken>>
      /\ daemon' \in Daemon /\ daemon'.ref \in {daemon.ref, 0}
      /\ events \subseteq events' /\ events' \subseteq {"reset", "topology"}
      /\ faults' \in 0..MaxFaults
      /\ daemon'.roll = daemon.roll \/ "reset" \in events'
  <2>1. CASE delayed_hardware_release
    BY <1>1, <1>2, <2>1 DEF delayed_hardware_release, Daemon
  <2>2. CASE emergency_reset
    <3>1. Reset \in Daemon /\ Reset.ref = 0
      BY <1>1, <1>2 DEF Reset, FreshDaemon, Daemon
    <3>2. /\ faults < MaxFaults /\ daemon' = Reset /\ events' = events \cup {"reset"}
          /\ faults' = faults + 1 /\ UNCHANGED <<context, s, gen, tasks, commands, replies, overtaken>>
      BY <2>2 DEF emergency_reset
    <3>3. faults' \in 0..MaxFaults
      BY <1>1, <3>2
    <3> QED
      BY <1>1, <3>1, <3>2, <3>3
  <2>3. CASE Unplug
    <3>1. /\ faults < MaxFaults /\ daemon' = [daemon EXCEPT !.present = FALSE, !.grabbed = FALSE]
          /\ events' = events \cup Announced
          /\ faults' = faults + 1 /\ UNCHANGED <<context, s, gen, tasks, commands, replies, overtaken>>
      BY <2>3 DEF Unplug
    <3>2. faults' \in 0..MaxFaults
      BY <1>1, <3>1
    <3>3. Announced \subseteq {"topology"}
      BY DEF Announced
    <3>4. daemon' \in Daemon /\ daemon'.ref = daemon.ref /\ daemon'.roll = daemon.roll
      BY <1>1, <3>1 DEF Daemon
    <3> QED
      BY <1>1, <3>1, <3>2, <3>3, <3>4
  <2>4. CASE Replug
    <3>1. /\ daemon' = [daemon EXCEPT !.present = TRUE] /\ events' = events \cup Announced
          /\ UNCHANGED <<context, s, gen, tasks, commands, replies, faults, overtaken>>
      BY <2>4 DEF Replug
    <3>2. Announced \subseteq {"topology"}
      BY DEF Announced
    <3>3. daemon' \in Daemon /\ daemon'.ref = daemon.ref /\ daemon'.roll = daemon.roll
      BY <1>1, <3>1 DEF Daemon
    <3> QED
      BY <1>1, <3>1, <3>2, <3>3
  <2> QED
    BY <2>1, <2>2, <2>3, <2>4
<1>4. /\ \A i \in 1..Len(commands) : commands[i].req \in Nat
      /\ daemon.ref \in Nat /\ s.seq \in Nat
  <2>1. \A i \in 1..Len(commands) : commands[i] \in Command
    BY DEF Inv, Types
  <2> QED
    BY <1>1, <2>1 DEF Inv, Types, State, Command, Daemon
<1>5. Types'
  BY <1>3 DEF Inv, Types
<1>6. TaskInv' /\ SentInv' /\ StagedInv'
  BY <1>3 DEF Inv, TaskInv, SentInv, StagedInv
<1>7. QueueInv'
  <2>1. /\ \A i \in 1..Len(commands) : commands[i].req <= s.seq /\ daemon.ref < commands[i].req
        /\ daemon.ref <= s.seq
    BY DEF Inv, QueueInv
  <2>2. /\ \A i \in 1..Len(commands) : commands[i].req <= s.seq /\ daemon'.ref < commands[i].req
        /\ daemon'.ref <= s.seq
    BY <1>3, <1>4, <2>1
  <2> QED
    BY <1>3, <2>2 DEF Inv, QueueInv
<1>8. AnswerInv'
  <2>1. \A r \in replies : r.req \in 1..s.seq
    BY DEF Inv, QueueInv
  <2> QED
    BY <1>3, <1>4, <2>1 DEF Inv, AnswerInv
<1>9. RefsResolve'
  BY <1>3 DEF Inv, RefsResolve
<1>10. RollInv'
  BY <1>3 DEF Inv, RollInv, RollWillBe
<1> QED
  BY <1>5, <1>6, <1>7, <1>8, <1>9, <1>10 DEF Inv

\* The connection is lost and made again.
LEMMA ReconnectStep ==
    ASSUME Inv, Reconnect
    PROVE  Inv'
<1> DEFINE b == invalidate_grabbed_state(s)
           n == NewTask(context)
<1>1. /\ s \in State /\ daemon \in Daemon /\ context \in Contexts /\ gen \in 1..MaxGens
      /\ MaxGens \in Nat /\ MaxFaults \in Nat /\ faults \in 0..MaxFaults /\ s.seq \in Nat
  BY ProfileAssumption DEF Inv, Types, State
<1>2. /\ faults < MaxFaults /\ gen < MaxGens /\ gen' = gen + 1
      /\ tasks' = [g \in {gen + 1} |-> n]
      /\ s' = [b EXCEPT !.exec = {}]
      /\ commands' = <<>> /\ replies' = {} /\ events' = {} /\ overtaken' = {}
      /\ daemon' = Reset /\ faults' = faults + 1 /\ context' = context
  BY DEF Reconnect
<1>3. /\ b \in State /\ b.seq = s.seq /\ b.roll = Unknown /\ b.map = NoSig
      /\ b.owned = {} /\ b.retired = {}
  BY <1>1, InvalidState
<1>4. n \in Task /\ n.step = "new" /\ n.req = 0 /\ n.cancelled = FALSE
  BY <1>1 DEF NewTask, Task, Resolutions, Steps
<1> HIDE DEF b, n
<1>5. /\ s' \in State /\ s'.seq = s.seq /\ s'.roll = Unknown /\ s'.map = NoSig
      /\ s'.exec = {} /\ s'.owned = {} /\ s'.retired = {}
  BY <1>2, <1>3 DEF State
<1>6. daemon' \in Daemon /\ daemon'.ref = 0
  BY <1>1, <1>2, ProfileAssumption DEF Reset, FreshDaemon, Daemon, Sig, EmptyRoll, Resolutions
<1>7. /\ DOMAIN tasks' = {gen'} /\ tasks'[gen'] = n /\ gen' \in 1..MaxGens
      /\ DOMAIN tasks' \subseteq 1..gen' /\ faults' \in 0..MaxFaults
  BY <1>1, <1>2
<1>8. commands' \in Seq(Command) /\ Len(commands') = 0
  BY <1>2
<1>9. Types'
  BY <1>1, <1>2, <1>4, <1>5, <1>6, <1>7, <1>8 DEF Types
<1>10. TaskInv'
  BY <1>1, <1>4, <1>5, <1>7 DEF TaskInv
<1>11. QueueInv' /\ SentInv' /\ AnswerInv'
  BY <1>1, <1>2, <1>5, <1>6, <1>8 DEF QueueInv, SentInv, AnswerInv
<1>12. StagedInv' /\ RefsResolve'
  BY <1>4, <1>5, <1>6, <1>7 DEF StagedInv, RefsResolve, MappingSteps
<1>13. RollInv'
  BY <1>4, <1>5, <1>7 DEF RollInv
<1> QED
  BY <1>9, <1>10, <1>11, <1>12, <1>13 DEF Inv

\* What serving the command c does: an answer a, and a mapping with the
\* references of c exactly when a mapping command was accepted.
LEMMA Served ==
    ASSUME Inv, Serve
    PROVE  /\ commands # <<>> /\ commands' = Tail(commands) /\ daemon' \in Daemon
           /\ UNCHANGED <<context, s, gen, tasks, events, overtaken>> /\ faults' \in 0..MaxFaults
           /\ \E a \in Answers :
                /\ replies' \subseteq replies \cup {[req |-> Head(commands).req, answer |-> a]}
                /\ IF Head(commands).kind = "map"
                     THEN daemon'.ref = IF a = "ok" THEN Head(commands).req ELSE daemon.ref
                     ELSE daemon'.ref \in {daemon.ref, 0}
           /\ daemon'.roll = IF Head(commands).kind = "roll" THEN Head(commands).sig ELSE daemon.roll
<1> DEFINE c == Head(commands)
           G(a) == /\ replies' \subseteq replies \cup {[req |-> c.req, answer |-> a]}
                   /\ IF c.kind = "map" THEN daemon'.ref = IF a = "ok" THEN c.req ELSE daemon.ref
                                        ELSE daemon'.ref \in {daemon.ref, 0}
           H == /\ daemon' \in Daemon
                /\ daemon'.roll = IF c.kind = "roll" THEN c.sig ELSE daemon.roll
<1>1. /\ commands # <<>> /\ commands' = Tail(commands)
      /\ UNCHANGED <<context, s, gen, tasks, events, overtaken>>
      /\ \/ c.kind = "grab" /\ grab_device(c.sig, c.req)
         \/ c.kind = "map" /\ set_mapping(c.sig, c.req)
         \/ c.kind = "release" /\ schedule_hardware_release(c.req)
         \/ c.kind = "roll" /\ set_rollover_groups(c.sig, c.req)
  BY DEF Serve
<1>0. faults' \in 0..MaxFaults
  <2>1. faults \in 0..MaxFaults /\ MaxFaults \in Nat
    BY ProfileAssumption DEF Inv, Types
  <2>2. faults' = faults \/ (faults < MaxFaults /\ faults' = faults + 1)
    BY DEF Serve, grab_device, ReplyOrLate, Fails
  <2> QED
    BY <2>1, <2>2
<1>2. daemon \in Daemon /\ NoSig \in Sig /\ c.sig \in Sig /\ c.req \in Nat
  <2>1. commands \in Seq(Command) /\ daemon \in Daemon
    BY DEF Inv, Types
  <2>2. c \in Command
    BY <1>1, <2>1, Read
  <2> HIDE DEF c
  <2> QED
    BY <2>1, <2>2 DEF Command, Sig
<1> HIDE DEF c
<1>3. ASSUME NEW a \in Answers, Reply(c.req, a)
      PROVE  replies' \subseteq replies \cup {[req |-> c.req, answer |-> a]}
  BY <1>3 DEF Reply
<1>4. /\ "ok" \in Answers /\ "waiting" \in Answers /\ "busy" \in Answers
      /\ "late" \in Answers /\ "paused" \in Answers /\ "error" \in Answers
  BY DEF Answers
<1>5. CASE c.kind = "grab" /\ grab_device(c.sig, c.req)
  <2>1. daemon' \in Daemon /\ daemon'.ref = daemon.ref /\ daemon'.roll = daemon.roll
    BY <1>2, <1>5 DEF grab_device, Daemon
  <2>2. \E a \in Answers : Reply(c.req, a)
    BY <1>4, <1>5 DEF grab_device, ReplyOrLate
  <2>3. (\E a \in Answers : G(a)) /\ H
    BY <1>3, <1>5, <2>1, <2>2
  <2> QED
    BY <1>0, <1>1, <2>3 DEF c
<1>6. CASE c.kind = "map" /\ set_mapping(c.sig, c.req)
  <2>1. CASE daemon.grabbed
    <3>1. /\ daemon' = [daemon EXCEPT !.map = c.sig, !.ref = c.req, !.releasing = FALSE]
          /\ Reply(c.req, "ok")
      BY <1>6, <2>1 DEF set_mapping
    <3>2. daemon' \in Daemon /\ daemon'.ref = c.req /\ daemon'.roll = daemon.roll
      BY <1>2, <3>1 DEF Daemon
    <3>3. G("ok") /\ H
      BY <1>3, <1>4, <1>6, <3>1, <3>2
    <3> QED
      BY <1>0, <1>1, <1>4, <3>3 DEF c
  <2>2. CASE ~daemon.grabbed
    <3>1. /\ daemon' = [daemon EXCEPT !.releasing = FALSE]
          /\ Reply(c.req, "waiting") \/ Reply(c.req, "error")
      BY <1>6, <2>2 DEF set_mapping
    <3>2. (G("waiting") \/ G("error")) /\ H
      BY <1>2, <1>3, <1>4, <1>6, <3>1 DEF Daemon
    <3> QED
      BY <1>0, <1>1, <1>4, <3>2 DEF c
  <2> QED
    BY <2>1, <2>2
<1>7. CASE c.kind = "release" /\ schedule_hardware_release(c.req)
  <2>1. daemon' \in Daemon /\ daemon'.ref = 0 /\ daemon'.roll = daemon.roll
    BY <1>2, <1>7 DEF schedule_hardware_release, Daemon
  <2>2. G("ok") /\ H
    BY <1>3, <1>4, <1>7, <2>1 DEF schedule_hardware_release
  <2> QED
    BY <1>0, <1>1, <1>4, <2>2 DEF c
<1>8. CASE c.kind = "roll" /\ set_rollover_groups(c.sig, c.req)
  <2>1. daemon' \in Daemon /\ daemon'.ref = daemon.ref /\ daemon'.roll = c.sig
    BY <1>2, <1>8 DEF set_rollover_groups, Daemon
  <2>2. G("ok") /\ H
    BY <1>3, <1>4, <1>8, <2>1 DEF set_rollover_groups
  <2> QED
    BY <1>0, <1>1, <1>4, <2>2 DEF c
<1> QED
  BY <1>1, <1>5, <1>6, <1>7, <1>8

\* The daemon serves a command.
LEMMA ServeStep ==
    ASSUME Inv, Serve
    PROVE  Inv'
<1> DEFINE c == Head(commands)
           n == Len(commands)
<1>1. /\ commands # <<>> /\ commands' = Tail(commands) /\ daemon' \in Daemon
      /\ UNCHANGED <<context, s, gen, tasks, events, overtaken>> /\ faults' \in 0..MaxFaults
      /\ daemon'.roll = IF c.kind = "roll" THEN c.sig ELSE daemon.roll
  BY Served
<1>2. PICK a \in Answers :
        /\ replies' \subseteq replies \cup {[req |-> c.req, answer |-> a]}
        /\ IF c.kind = "map" THEN daemon'.ref = IF a = "ok" THEN c.req ELSE daemon.ref
                             ELSE daemon'.ref \in {daemon.ref, 0}
  BY Served
<1>3. commands \in Seq(Command) /\ replies \subseteq [req : Nat, answer : Answers]
  BY DEF Inv, Types
<1>4. /\ c \in Command /\ c = commands[1] /\ n \in Nat \ {0} /\ commands' \in Seq(Command)
      /\ Len(commands') = n - 1 /\ \A i \in 1..(n - 1) : commands'[i] = commands[i + 1]
  BY <1>1, <1>3, Read
<1> HIDE DEF c
<1>5. /\ c.req \in Nat /\ s.seq \in Nat /\ daemon.ref \in Nat /\ daemon'.ref \in Nat
      /\ \A i \in 1..n : commands[i].req \in Nat
  <2>1. \A i \in 1..n : commands[i] \in Command
    BY <1>3
  <2> QED
    BY <1>1, <1>4, <2>1 DEF Inv, Types, State, Daemon, Command
<1>6. /\ 1 \in 1..n /\ c.req \in 1..s.seq /\ daemon.ref < c.req
      /\ \A i \in 1..(n - 1) : i + 1 \in 1..n /\ 1 < i + 1 /\ c.req < commands[i + 1].req
  <2>1. 1 \in 1..n /\ \A i \in 1..(n - 1) : i + 1 \in 1..n /\ 1 < i + 1
    BY <1>4
  <2>2. c.req <= s.seq /\ daemon.ref < c.req
    BY <1>4, <2>1 DEF Inv, QueueInv
  <2>3. \A i \in 1..(n - 1) : commands[1].req < commands[i + 1].req
    BY <2>1 DEF Inv, QueueInv
  <2> QED
    BY <1>4, <1>5, <2>1, <2>2, <2>3
<1>7. daemon'.ref <= c.req
  BY <1>2, <1>5, <1>6
<1>8. \A r \in replies' : r \in replies \/ (r.req = c.req /\ r.answer = a)
  BY <1>2
<1>9. \A r \in replies : r.req \in 1..s.seq /\ r.req < c.req
  BY <1>4, <1>6 DEF Inv, QueueInv
<1>10. Types'
  <2>1. replies' \subseteq [req : Nat, answer : Answers]
    BY <1>2, <1>3, <1>5
  <2> QED
    BY <1>1, <1>4, <2>1 DEF Inv, Types
<1>11. TaskInv' /\ StagedInv'
  BY <1>1 DEF Inv, TaskInv, StagedInv
<1>12. QueueInv'
  <2>1. ASSUME NEW i \in 1..Len(commands')
        PROVE  commands'[i].req <= s'.seq /\ daemon'.ref < commands'[i].req /\ c.req < commands'[i].req
    <3>1. /\ i \in 1..(n - 1) /\ commands'[i] = commands[i + 1] /\ i + 1 \in 1..n
          /\ c.req < commands[i + 1].req
      BY <1>4, <1>6
    <3>2. commands[i + 1].req <= s.seq
      BY <3>1 DEF Inv, QueueInv
    <3> QED
      BY <1>1, <1>5, <1>7, <3>1, <3>2
  <2>2. ASSUME NEW i \in 1..Len(commands'), NEW j \in 1..Len(commands'), i < j
        PROVE  commands'[i].req < commands'[j].req
    <3>1. /\ i + 1 \in 1..n /\ j + 1 \in 1..n /\ i + 1 < j + 1
          /\ commands'[i] = commands[i + 1] /\ commands'[j] = commands[j + 1]
      BY <1>4, <2>2
    <3>2. commands[i + 1].req < commands[j + 1].req
      BY <3>1 DEF Inv, QueueInv
    <3> QED
      BY <3>1, <3>2
  <2>3. ASSUME NEW r \in replies'
        PROVE  r.req \in 1..s'.seq /\ \A i \in 1..Len(commands') : r.req < commands'[i].req
    <3>1. r.req \in 1..s.seq /\ r.req <= c.req
      BY <1>5, <1>6, <1>8, <1>9
    <3>2. \A i \in 1..Len(commands') : commands'[i].req \in Nat
      BY <1>4, <1>5, <1>6
    <3> QED
      BY <1>1, <1>5, <2>1, <3>1, <3>2
  <2>4. daemon'.ref <= s'.seq
    BY <1>1, <1>5, <1>6, <1>7
  <2> QED
    BY <2>1, <2>2, <2>3, <2>4 DEF QueueInv
<1>13. SentInv'
  <2>1. \A i \in 1..Len(commands') : i + 1 \in 1..n /\ commands'[i] = commands[i + 1]
    BY <1>4, <1>6
  <2> QED
    BY <1>1, <2>1 DEF Inv, SentInv
<1>14. AnswerInv'
  <2> SUFFICES ASSUME NEW r \in replies', NEW g \in DOMAIN tasks,
                      tasks[g].step \in MappingSteps, tasks[g].req = r.req
               PROVE  IF r.answer = "ok" THEN daemon'.ref = 0 \/ daemon'.ref >= r.req
                                         ELSE daemon'.ref # r.req
    BY <1>1 DEF AnswerInv
  <2>1. CASE r \in replies
    <3>1. IF r.answer = "ok" THEN daemon.ref = 0 \/ daemon.ref >= r.req ELSE daemon.ref # r.req
      BY <2>1 DEF Inv, AnswerInv
    <3>2. r.req \in 1..s.seq /\ r.req < c.req
      BY <1>9, <2>1
    <3> QED
      BY <1>2, <1>5, <3>1, <3>2
  <2>2. CASE r.req = c.req /\ r.answer = a
    <3>1. c.kind = "map"
      BY <1>4, <1>6, <2>2 DEF Inv, SentInv
    <3> QED
      BY <1>2, <1>5, <1>6, <2>2, <3>1
  <2> QED
    BY <1>8, <2>1, <2>2
<1>15. RefsResolve'
  <2>1. SUFFICES ASSUME s.map # NoSig, daemon'.ref # 0
                 PROVE  daemon'.ref \in s.exec \cup s.retired
    BY <1>1 DEF RefsResolve
  <2>2. CASE daemon'.ref = daemon.ref
    BY <2>1, <2>2 DEF Inv, RefsResolve
  <2>3. CASE c.kind = "map" /\ daemon'.ref = c.req
    <3>1. PICK g \in DOMAIN tasks : tasks[g].step \in MappingSteps /\ tasks[g].req = c.req
      BY <1>4, <1>6, <2>3 DEF Inv, SentInv
    <3> QED
      BY <2>3, <3>1 DEF Inv, StagedInv
  <2> QED
    BY <1>2, <2>1, <2>2, <2>3
<1>16. RollInv'
  <2>1. ASSUME NEW sig, RollWillBe(sig)
        PROVE  LastRoll(commands', daemon'.roll, sig)
    <3>1. LastRoll(commands, daemon.roll, sig)
      BY <1>3, <2>1, RollIsLast
    <3> QED
      BY <1>1, <1>3, <3>1, RollRead DEF c
  <2>2. "reset" \notin events /\ s.roll # Unknown => RollWillBe(s.roll)
    BY DEF Inv, RollInv
  <2>3. "reset" \notin events /\ gen \in DOMAIN tasks /\ tasks[gen].step = "rollover" =>
          RollWillBe(tasks[gen].res.roll)
    BY DEF Inv, RollInv
  <2>4. /\ "reset" \notin events' /\ s'.roll # Unknown => LastRoll(commands', daemon'.roll, s'.roll)
        /\ "reset" \notin events' /\ gen' \in DOMAIN tasks' /\ tasks'[gen'].step = "rollover" =>
             LastRoll(commands', daemon'.roll, tasks'[gen'].res.roll)
    BY <1>1, <2>1, <2>2, <2>3
  <2> QED
    BY <1>4, <2>4, RollInvHolds
<1> QED
  BY <1>10, <1>11, <1>12, <1>13, <1>14, <1>15, <1>16 DEF Inv

-----------------------------------------------------------------------------
(* The theorems. *)

\* The first generation has read nothing and sent nothing.
LEMMA InitHolds ==
    ASSUME Init
    PROVE  Inv
<1> DEFINE n == NewTask(InitialContext)
<1>1. /\ InitialContext \in Contexts /\ MaxFaults \in Nat /\ MaxGens \in Nat \ {0}
      /\ NoSig \in Sig /\ EmptyRoll \in Sig
  BY ProfileAssumption DEF Sig, EmptyRoll, Resolutions
<1>2. n \in Task /\ n.step = "new" /\ n.req = 0 /\ n.cancelled = FALSE
  BY <1>1 DEF NewTask, Task, Resolutions, Steps
<1> HIDE DEF n
<1>3. /\ s \in State /\ s.seq = 0 /\ s.roll = EmptyRoll /\ s.exec = {} /\ s.owned = {}
      /\ s.retired = {} /\ s.map = NoSig
  BY <1>1 DEF Init, State
<1>4. daemon \in Daemon /\ daemon.ref = 0 /\ daemon.roll = EmptyRoll
  BY <1>1 DEF Init, FreshDaemon, Daemon
<1>5. /\ gen = 1 /\ DOMAIN tasks = {1} /\ tasks[1] = n /\ commands = <<>> /\ replies = {}
      /\ context = InitialContext /\ events = {} /\ faults = 0 /\ overtaken = {}
  BY DEF Init, n
<1>6. Types
  BY <1>1, <1>2, <1>3, <1>4, <1>5 DEF Types
<1>7. TaskInv
  BY <1>2, <1>3, <1>5 DEF TaskInv
<1>8. QueueInv /\ SentInv /\ AnswerInv
  <2>1. Len(commands) = 0
    BY <1>5
  <2> QED
    BY <1>3, <1>4, <1>5, <2>1 DEF QueueInv, SentInv, AnswerInv
<1>9. StagedInv /\ RefsResolve
  BY <1>2, <1>3, <1>4, <1>5 DEF StagedInv, RefsResolve, MappingSteps
<1>10. RollInv
  <2>1. RollWillBe(s.roll)
    BY <1>3, <1>4, <1>5 DEF RollWillBe
  <2>2. tasks[gen].step # "rollover"
    BY <1>2, <1>5
  <2> QED
    BY <2>1, <2>2 DEF RollInv
<1> QED
  BY <1>6, <1>7, <1>8, <1>9, <1>10 DEF Inv

\* Every step of the session and of the daemon keeps the invariant.
LEMMA NextHolds ==
    ASSUME Inv, [Next]_vars
    PROVE  Inv'
<1>1. CASE \E g \in 1..MaxGens : reconcile(g) \/ Resume(g)
  BY <1>1, ReconcileStep, ResumeStep
<1>2. CASE \/ \E c \in Contexts : ChangeContext(c)
           \/ Retry
           \/ \E e \in {"reset", "topology"} : HandleEvent(e)
  BY <1>2, SupersedeStep
<1>3. CASE RetryReturns \/ collect_retired
  BY <1>3, SessionStep
<1>4. CASE Serve
  BY <1>4, ServeStep
<1>5. CASE delayed_hardware_release \/ emergency_reset \/ Unplug \/ Replug
  BY <1>5, DaemonStep
<1>6. CASE Reconnect
  BY <1>6, ReconnectStep
<1>7. CASE UNCHANGED vars
  BY <1>7 DEF vars, Inv, Types, TaskInv, QueueInv, SentInv, AnswerInv, StagedInv, RefsResolve,
              RollInv, RollWillBe
<1> QED
  BY <1>1, <1>2, <1>3, <1>4, <1>5, <1>6, <1>7 DEF Next

\* The invariant holds in every behaviour.
THEOREM InvHolds == Spec => []Inv
BY InitHolds, NextHolds, PTL DEF Spec

\* The types of the session and the daemon: requests, references and answers are
\* among those that have been numbered, and owned references resolve
\* (ProfileRuntimeState, ExecRuntimeState).
THEOREM TypesHold == Spec => []TypeOK
<1>1. Inv => TypeOK
  <2> SUFFICES ASSUME Inv PROVE TypeOK
    OBVIOUS
  <2>1. /\ context \in Contexts /\ gen \in 1..MaxGens /\ faults \in 0..MaxFaults
        /\ DOMAIN tasks \subseteq 1..gen
        /\ events \subseteq {"reset", "topology"} /\ overtaken \subseteq {"grab", "map"}
    BY DEF Inv, Types
  <2>2. \A g \in DOMAIN tasks : tasks[g].step \in Steps /\ tasks[g].req \in 0..s.seq
    BY DEF Inv, Types, TaskInv, Task, State
  <2>3. \A i \in DOMAIN commands : commands[i].kind \in Kinds /\ commands[i].req \in 1..s.seq
    <3>1. commands \in Seq(Command) /\ s.seq \in Nat /\ daemon.ref \in Nat
      BY DEF Inv, Types, State, Daemon
    <3>2. \A i \in DOMAIN commands : i \in 1..Len(commands) /\ commands[i] \in Command
      BY <3>1
    <3>3. \A i \in DOMAIN commands : commands[i].req <= s.seq /\ daemon.ref < commands[i].req
      BY <3>2 DEF Inv, QueueInv
    <3> QED
      BY <3>1, <3>2, <3>3 DEF Command
  <2>4. \A r \in replies : r.answer \in Answers /\ r.req \in 1..s.seq
    BY DEF Inv, Types, QueueInv
  <2>5. s.owned \subseteq s.exec /\ s.exec \subseteq 1..s.seq /\ s.retired \subseteq 1..s.seq
    BY DEF Inv, StagedInv
  <2> QED
    BY <2>1, <2>2, <2>3, <2>4, <2>5 DEF TypeOK
<1> QED
  BY <1>1, InvHolds, PTL

\* Whatever mapping the daemon runs while the session believes in the one it
\* sent, its command references resolve: superseded mapping commands are settled
\* before their apply ends (_send_reference_command), and references are retired
\* and not dropped when they are replaced (_commit_device_references).
THEOREM ReferencesResolve == Spec => []RefsResolve
BY InvHolds, PTL DEF Inv

\* Groups that the session takes for acknowledged are the ones the daemon has or
\* will have: they are UNKNOWN_SIGNATURE from the write to the answer, so the
\* loss of an answer makes the next apply send them again
\* (update_rollover_groups).
THEOREM GroupsAgree == Spec => []RolloverAgrees
<1>1. Inv => RolloverAgrees
  BY DEF Inv, RollInv, RolloverAgrees
<1> QED
  BY <1>1, InvHolds, PTL

-----------------------------------------------------------------------------
(***************************************************************************)
(* What is left when everything is quiet.                                  *)
(***************************************************************************)

\* Where the newest apply is.
Stage == IF gen \in DOMAIN tasks THEN tasks[gen].step ELSE "ended"

Waits == Steps \ {"new"}
GrabSteps == {"grab", "regrab", "release", "rerelease"}
UnmapSteps == MappingSteps \cup {"release", "rerelease"}

\* The command that a step waits for.
KindAt(step) ==
    IF step \in {"grab", "regrab"} THEN "grab"
    ELSE IF step \in MappingSteps THEN "map"
    ELSE IF step \in {"release", "rerelease"} THEN "release"
    ELSE "roll"

\* The answer r is the newest apply's.
IsAnswer(r) == Stage \in Waits /\ r.req = tasks[gen].req

\* No command of the kinds K is in the socket.
None(cmds, K) == \A i \in 1..Len(cmds) : cmds[i].kind \notin K

\* What the session's state b implies for the daemon d, when it has heard of
\* everything that the daemon announced...
KeptFor(b, cmds, d) ==
    /\ b.grabbed /\ b.grab # NoSig =>
         d.grabbed /\ ~d.releasing /\ None(cmds, {"release"})
    /\ b.grabbed => \A i \in 1..Len(cmds) : cmds[i].kind = "map" =>
         d.grabbed /\ ~d.releasing /\ \A j \in 1..i : cmds[j].kind # "release"
    /\ b.waiting =>
         d.desired /\ ~d.present /\ ~d.releasing /\ None(cmds, {"release"})

\* ...and when no grab is in doubt,
GrabFor(b, cmds, d) ==
    /\ b.grabbed => d.grabbed /\ d.grab = b.grab /\ ~d.releasing
    /\ ~b.grabbed => (~d.grabbed \/ d.releasing) /\ (d.grabbed => None(cmds, {"map"}))

\* ...or no mapping is.
MapFor(b, d) == b.map # NoSig => d.map = b.map /\ ~d.releasing

\* The grab and the mapping that an apply of r leaves.
GrabDone(b, r) ==
    b.retry # "armed" =>
      IF Effective(r) THEN (b.grabbed /\ b.grab = r.grab) \/ b.waiting ELSE ~b.grabbed

MapDone(b, r) ==
    b.retry # "armed" /\ Effective(r) => b.map = r.map \/ b.waiting

\* The session waits for a device or has it, and acknowledges in order.
BeliefInv ==
    /\ ~(s.waiting /\ s.grabbed)
    /\ s.acked <= s.seq
    /\ Stage \in Waits => s.acked < tasks[gen].req
    /\ Stage = "grab" => ~s.grabbed

\* An apply works on what the newest context resolves to.
ResolvedInv ==
    /\ Stage \in Waits => tasks[gen].res = Resolve[context]
    /\ Stage \in Waits \ {"release", "rollover"} => Effective(tasks[gen].res)
    /\ Stage = "release" => ~Effective(tasks[gen].res)
    /\ Stage = "ended" => s.roll = Resolve[context].roll

\* It waits for the command that its step says, and some answers are impossible.
ServedInv ==
    /\ \A i \in 1..Len(commands) : Stage \in Waits /\ commands[i].req = tasks[gen].req =>
         /\ commands[i].kind = KindAt(Stage)
         /\ Stage \in {"grab", "regrab"} => commands[i].sig = tasks[gen].res.grab
         /\ Stage \in MappingSteps => commands[i].sig = tasks[gen].res.map
    /\ \A r \in replies :
         IsAnswer(r) /\ Stage \in {"rollover", "release", "rerelease"} => r.answer = "ok"

\* What is not in doubt is changed by the newest apply alone.
DoubtInv ==
    \A i \in 1..Len(commands) :
      /\ "grab" \notin overtaken /\ commands[i].kind \in {"grab", "release"} =>
           Stage \in GrabSteps /\ tasks[gen].req = commands[i].req
      /\ "map" \notin overtaken /\ commands[i].kind \in {"map", "release"} =>
           Stage \in UnmapSteps /\ tasks[gen].req = commands[i].req

\* A grabbed device is present and wanted, so its loss is announced.
DaemonInv == daemon.grabbed => daemon.desired /\ daemon.present

KeptInv == events = {} => KeptFor(s, commands, daemon)

\* A mapping that was refused finds the session without the grab it was for, or
\* with a later one.
RefusedInv ==
    events = {} => \A r \in replies, g \in DOMAIN tasks :
      /\ tasks[g].step \in MappingSteps /\ tasks[g].req = r.req
      /\ r.answer # "ok" /\ s.acked <= r.req
      => ~s.grabbed

\* The grab that an apply builds on is kept while it waits.
HeldInv ==
    events = {} =>
      /\ Stage \in MappingSteps \cup {"regrab"} => s.grabbed
      /\ Stage = "regrab" /\ ~tasks[gen].remap => s.map = tasks[gen].res.map

\* What the newest apply is about to hear is still so.
AnsweredInv ==
    events = {} => \A r \in replies : IsAnswer(r) =>
      /\ Stage \in {"grab", "regrab"} =>
           /\ r.answer = "ok" =>
                daemon.grabbed /\ daemon.grab = tasks[gen].res.grab /\ ~daemon.releasing
           /\ r.answer = "waiting" => daemon.desired /\ ~daemon.present /\ ~daemon.releasing
           /\ r.answer \in {"busy", "error"} => ~daemon.grabbed
      /\ Stage = "regrab" /\ r.answer # "ok" => ~(s.grabbed /\ s.grab # NoSig)
      /\ Stage \in {"release", "rerelease"} => ~daemon.grabbed \/ daemon.releasing
      /\ Stage \in MappingSteps /\ r.answer = "ok" =>
           daemon.map = tasks[gen].res.map /\ ~daemon.releasing

GrabInv ==
    events = {} /\ "grab" \notin overtaken /\ Stage \notin GrabSteps =>
      /\ GrabFor(s, commands, daemon)
      /\ Stage # "new" => GrabDone(s, Resolve[context])

MapInv ==
    events = {} /\ "map" \notin overtaken /\ Stage \notin UnmapSteps =>
      /\ MapFor(s, daemon)
      /\ Stage \notin {"new", "grab", "regrab"} => MapDone(s, Resolve[context])

Newest ==
    /\ Inv /\ BeliefInv /\ ResolvedInv /\ ServedInv /\ DoubtInv /\ DaemonInv /\ KeptInv
    /\ RefusedInv /\ HeldInv /\ AnsweredInv /\ GrabInv /\ MapInv

\* The invariant is what the property needs.
LEMMA NewestSuffices ==
    ASSUME Newest
    PROVE  AppliesNewest
<1> SUFFICES ASSUME Quiet
             PROVE  LET r == Resolve[context] IN
               /\ daemon.roll = r.roll
               /\ Effective(r) /\ "grab" \notin overtaken => daemon.grabbed /\ daemon.grab = r.grab
               /\ Effective(r) /\ "map" \notin overtaken => daemon.map = r.map
               /\ ~Effective(r) /\ "grab" \notin overtaken => ~daemon.grabbed \/ daemon.releasing
  BY DEF AppliesNewest
<1> DEFINE r == Resolve[context]
<1>1. /\ Stage = "ended" /\ commands = <<>> /\ events = {} /\ s.retry = "no" /\ daemon.present
      /\ context \in Contexts
  BY DEF Quiet, Stage, Newest, Inv, Types
<1>2. daemon.roll = r.roll
  <2>1. s.roll = r.roll /\ r.roll # Unknown
    BY <1>1, ProfileAssumption DEF Newest, ResolvedInv
  <2>2. RollWillBe(s.roll)
    BY <1>1, <2>1 DEF Newest, Inv, RollInv
  <2> QED
    BY <1>1, <2>1, <2>2 DEF RollWillBe
<1>3. ~s.waiting
  BY <1>1 DEF Newest, KeptInv, KeptFor
<1>4. "grab" \notin overtaken => GrabFor(s, commands, daemon) /\ GrabDone(s, r)
  BY <1>1 DEF Newest, GrabInv, GrabSteps
<1>5. "map" \notin overtaken => MapFor(s, daemon) /\ MapDone(s, r)
  BY <1>1 DEF Newest, MapInv, UnmapSteps, MappingSteps
<1>6. r.map # NoSig
  BY <1>1, ProfileAssumption
<1> HIDE DEF r
<1>7. /\ Effective(r) /\ "grab" \notin overtaken => daemon.grabbed /\ daemon.grab = r.grab
      /\ ~Effective(r) /\ "grab" \notin overtaken => ~daemon.grabbed \/ daemon.releasing
  BY <1>1, <1>3, <1>4 DEF GrabFor, GrabDone
<1>8. Effective(r) /\ "map" \notin overtaken => daemon.map = r.map
  BY <1>1, <1>3, <1>5, <1>6 DEF MapFor, MapDone
<1> QED
  BY <1>2, <1>7, <1>8 DEF r

-----------------------------------------------------------------------------
(* What the last call of a step must find. *)

\* The parts of the session's state that the invariant looks at.
Agrees(x, b) ==
    /\ x.grabbed = b.grabbed /\ x.waiting = b.waiting /\ x.retry = b.retry
    /\ x.grab = b.grab /\ x.map = b.map /\ x.acked = b.acked /\ x.seq = b.seq

\* RefusedInv of the superseded applies.
RefusedFor(b) ==
    \A r \in replies, g \in DOMAIN tasks \ {gen} :
      /\ tasks[g].step \in MappingSteps /\ tasks[g].req = r.req
      /\ r.answer # "ok" /\ b.acked <= r.req
      => ~b.grabbed

\* The state b of an apply t that goes to the step st, or ends ("ended"), with
\* the doubts ov.
Ready(b, t, st, ov) ==
    /\ b.seq = s.seq /\ b.acked \in Nat /\ b.acked <= s.seq /\ ~(b.waiting /\ b.grabbed)
    /\ st \in Waits \ {"release", "rollover"} => Effective(t.res)
    /\ st = "release" => ~Effective(t.res)
    /\ st = "grab" => ~b.grabbed
    /\ st \in {"release", "rerelease"} => ~b.waiting
    /\ events = {} =>
         /\ KeptFor(b, commands, daemon) /\ RefusedFor(b)
         /\ st \in MappingSteps \cup {"regrab"} => b.grabbed
         /\ st \in MappingSteps => b.grab # NoSig
         /\ st = "regrab" /\ ~t.remap => b.map = t.res.map
         /\ st \in {"release", "rerelease"} => ~(b.grabbed /\ b.grab # NoSig)
    /\ events = {} /\ "grab" \notin ov /\ st \notin GrabSteps =>
         GrabFor(b, commands, daemon) /\ GrabDone(b, t.res)
    /\ events = {} /\ "map" \notin ov /\ st \notin UnmapSteps =>
         /\ MapFor(b, daemon)
         /\ st \notin {"grab", "regrab"} => MapDone(b, t.res)

\* Nothing else of the state matters.
LEMMA ReadyAgrees ==
    ASSUME NEW b, NEW x, NEW t, NEW st, NEW ov, Agrees(x, b), Ready(b, t, st, ov)
    PROVE  Ready(x, t, st, ov)
BY DEF Agrees, Ready, KeptFor, RefusedFor, GrabFor, GrabDone, MapFor, MapDone

\* An apply that may end may write groups first.
LEMMA ReadyRoll ==
    ASSUME NEW b, NEW t, NEW ov, Ready(b, t, "ended", ov)
    PROVE  Ready(b, t, "rollover", ov)
BY DEF Ready, GrabSteps, UnmapSteps, MappingSteps, Waits, Steps

\* The result o of a step: the apply ended with the newest groups, or it wrote
\* the command of its next step.
Call(o, t, ov) ==
    \E b \in State :
      \/ o = Ended(b) /\ b.roll = t.res.roll /\ Ready(b, t, "ended", ov)
      \/ \E st \in Waits, sig \in Sig :
           /\ o = Await(b, KindAt(st), sig, st) /\ Ready(b, t, st, ov)
           /\ st \in {"grab", "regrab"} => sig = t.res.grab
           /\ st \in MappingSteps => sig = t.res.map

\* An apply ends with its groups, which it writes if they are not believed,
LEMMA RollCall ==
    ASSUME NEW b \in State, NEW t \in Task, NEW ov, Ready(b, t, "ended", ov)
    PROVE  Call(update_rollover_groups(b, t), t, ov)
<1>1. CASE b.roll = t.res.roll
  BY <1>1 DEF update_rollover_groups, Call
<1>2. CASE b.roll # t.res.roll
  <2> DEFINE x == [b EXCEPT !.roll = Unknown]
  <2>1. x \in State /\ Agrees(x, b)
    BY DEF State, Sig, Agrees
  <2>2. update_rollover_groups(b, t) = Await(x, "roll", t.res.roll, "rollover")
    BY <1>2 DEF update_rollover_groups
  <2> HIDE DEF x
  <2>3. Ready(x, t, "rollover", ov)
    BY <2>1, ReadyRoll, ReadyAgrees
  <2>4. KindAt("rollover") = "roll" /\ "rollover" \in Waits
    BY DEF KindAt, MappingSteps, Waits, Steps
  <2> QED
    BY <2>1, <2>2, <2>3, <2>4, TaskSigs DEF Call, MappingSteps
<1> QED
  BY <1>1, <1>2

\* ...or sends its mapping,
LEMMA MapCall ==
    ASSUME NEW b \in State, NEW t \in Task, NEW ov, NEW st \in MappingSteps, Ready(b, t, st, ov)
    PROVE  Call(SendMapping(b, t, st), t, ov)
<1> DEFINE x == [b EXCEPT !.exec = @ \cup {b.seq + 1}]
<1>1. x \in State /\ Agrees(x, b)
  BY DEF State, Agrees
<1>2. SendMapping(b, t, st) = Await(x, "map", t.res.map, st)
  BY DEF SendMapping
<1> HIDE DEF x
<1>3. Ready(x, t, st, ov)
  BY <1>1, ReadyAgrees
<1>4. KindAt(st) = "map" /\ st \in Waits /\ st \notin {"grab", "regrab"}
  BY DEF KindAt, MappingSteps, Waits, Steps
<1> QED
  BY <1>1, <1>2, <1>3, <1>4, TaskSigs DEF Call

\* ...its grab,
LEMMA GrabCall ==
    ASSUME NEW b \in State, NEW t \in Task, NEW ov, NEW st \in {"grab", "regrab"},
           Ready(b, t, st, ov)
    PROVE  Call(SendGrab(b, t, st), t, ov)
<1>1. KindAt(st) = "grab" /\ st \in Waits /\ st \notin MappingSteps
  BY DEF KindAt, MappingSteps, Waits, Steps
<1> QED
  BY <1>1, TaskSigs DEF Call, SendGrab

\* The state in which a device is released.
Unwaited(b) == [b EXCEPT !.retry = "no", !.waiting = FALSE]

\* ...or a release.
LEMMA ReleaseCall ==
    ASSUME NEW b \in State, NEW t \in Task, NEW ov, NEW st \in {"release", "rerelease"},
           Ready(Unwaited(b), t, st, ov)
    PROVE  Call(deactivate_profile(b, st), t, ov)
<1>1. Unwaited(b) \in State
  BY DEF State, Unwaited
<1>2. deactivate_profile(b, st) = Await(Unwaited(b), "release", NoSig, st)
  BY DEF deactivate_profile, Unwaited
<1>3. KindAt(st) = "release" /\ st \in Waits /\ st \notin MappingSteps /\ NoSig \in Sig
  BY DEF KindAt, MappingSteps, Waits, Steps, Sig
<1> QED
  BY <1>1, <1>2, <1>3 DEF Call

-----------------------------------------------------------------------------
(* Every step of an apply leaves such a result. *)

\* A new apply.
LEMMA ResolveCall ==
    ASSUME Newest, Stage = "new", NEW t \in Task, t.res = Resolve[context],
           t.remap <=> s.map # t.res.map
    PROVE  Call(apply_resolved_device_profile(s, t), t, overtaken)
<1> DEFINE o == apply_resolved_device_profile(s, t)
           c == [s EXCEPT !.retry = "no", !.waiting = FALSE, !.grab = NoSig]
<1>1. /\ s \in State /\ s.acked \in Nat /\ s.acked <= s.seq /\ ~(s.waiting /\ s.grabbed)
  BY DEF Newest, Inv, Types, BeliefInv, State
<1>2. events = {} => KeptFor(s, commands, daemon) /\ RefusedFor(s)
  BY DEF Newest, KeptInv, RefusedInv, RefusedFor
<1>3. /\ events = {} /\ "grab" \notin overtaken => GrabFor(s, commands, daemon)
      /\ events = {} /\ "map" \notin overtaken => MapFor(s, daemon)
  BY DEF Newest, GrabInv, MapInv, GrabSteps, UnmapSteps, MappingSteps
<1>4. CASE ~Effective(t.res)
  <2>1. /\ c \in State /\ c.grabbed = s.grabbed /\ ~c.waiting /\ c.retry = "no"
        /\ c.grab = NoSig /\ c.map = s.map /\ c.acked = s.acked /\ c.seq = s.seq
    BY <1>1 DEF State, Sig
  <2>2. CASE s.grabbed
    <3> DEFINE x == Unwaited(c)
    <3>1. o = deactivate_profile(c, "release")
      BY <1>4, <2>2 DEF apply_resolved_device_profile
    <3>2. /\ x.grabbed = s.grabbed /\ ~x.waiting /\ x.retry = "no"
          /\ x.grab = NoSig /\ x.map = s.map /\ x.acked = s.acked /\ x.seq = s.seq
      BY <2>1 DEF State, Unwaited
    <3> HIDE DEF x, o
    <3>3. events = {} => KeptFor(x, commands, daemon) /\ RefusedFor(x)
      BY <1>2, <3>2 DEF KeptFor, RefusedFor
    <3>4. Ready(x, t, "release", overtaken)
      BY <1>1, <1>4, <3>2, <3>3 DEF Ready, GrabSteps, UnmapSteps, MappingSteps, Waits, Steps
    <3> QED
      BY <2>1, <3>1, <3>4, ReleaseCall DEF x, o
  <2>3. CASE ~s.grabbed
    <3>1. o = update_rollover_groups(c, t)
      BY <1>4, <2>3 DEF apply_resolved_device_profile
    <3> HIDE DEF c, o
    <3>2. events = {} => KeptFor(c, commands, daemon) /\ RefusedFor(c)
      BY <1>2, <2>1, <2>3 DEF KeptFor, RefusedFor
    <3>3. events = {} /\ "grab" \notin overtaken => GrabFor(c, commands, daemon) /\ GrabDone(c, t.res)
      BY <1>3, <1>4, <2>1, <2>3 DEF GrabFor, GrabDone
    <3>4. events = {} /\ "map" \notin overtaken => MapFor(c, daemon) /\ MapDone(c, t.res)
      BY <1>3, <1>4, <2>1, <2>3 DEF MapFor, MapDone
    <3>5. Ready(c, t, "ended", overtaken)
      BY <1>1, <1>4, <2>1, <2>3, <3>2, <3>3, <3>4
         DEF Ready, GrabSteps, UnmapSteps, MappingSteps, Waits, Steps
    <3> QED
      BY <2>1, <3>1, <3>5, RollCall DEF o
  <2> QED
    BY <2>2, <2>3
<1>5. CASE Effective(t.res)
  <2> HIDE DEF c
  <2>1. CASE s.waiting /\ ~s.grabbed /\ s.grab = t.res.grab
    <3>1. o = update_rollover_groups(s, t)
      BY <1>5, <2>1 DEF apply_resolved_device_profile
    <3> HIDE DEF o
    <3>2. GrabDone(s, t.res) /\ MapDone(s, t.res)
      BY <1>5, <2>1 DEF GrabDone, MapDone
    <3>3. Ready(s, t, "ended", overtaken)
      BY <1>1, <1>2, <1>3, <3>2 DEF Ready, GrabSteps, UnmapSteps, MappingSteps, Waits, Steps
    <3> QED
      BY <1>1, <3>1, <3>3, RollCall DEF o
  <2>2. CASE s.grabbed
    <3>1. o = _reconcile_existing_grab(s, t)
      BY <1>5, <2>2 DEF apply_resolved_device_profile
    <3>2. CASE s.grab # t.res.grab
      <4>1. o = SendGrab(s, t, "regrab")
        BY <3>1, <3>2 DEF _reconcile_existing_grab
      <4> HIDE DEF o
      <4>2. Ready(s, t, "regrab", overtaken)
        BY <1>1, <1>2, <1>3, <1>5, <2>2
           DEF Ready, GrabSteps, UnmapSteps, MappingSteps, Waits, Steps
      <4> QED
        BY <1>1, <4>1, <4>2, GrabCall DEF o
    <3>3. CASE s.grab = t.res.grab
      <4>1. GrabDone(s, t.res) /\ s.grab # NoSig
        BY <1>5, <2>2, <3>3 DEF GrabDone, Effective
      <4>2. CASE t.remap
        <5>1. o = SendMapping(s, t, "remap")
          BY <3>1, <3>3, <4>2 DEF _reconcile_existing_grab
        <5> HIDE DEF o
        <5>2. Ready(s, t, "remap", overtaken)
          BY <1>1, <1>2, <1>3, <1>5, <2>2, <4>1
             DEF Ready, GrabSteps, UnmapSteps, MappingSteps, Waits, Steps
        <5> QED
          BY <1>1, <5>1, <5>2, MapCall DEF o, MappingSteps
      <4>3. CASE ~t.remap
        <5>1. o = update_rollover_groups(s, t)
          BY <3>1, <3>3, <4>3 DEF _reconcile_existing_grab
        <5> HIDE DEF o
        <5>2. MapDone(s, t.res)
          BY <4>3 DEF MapDone
        <5>3. Ready(s, t, "ended", overtaken)
          BY <1>1, <1>2, <1>3, <4>1, <5>2
             DEF Ready, GrabSteps, UnmapSteps, MappingSteps, Waits, Steps
        <5> QED
          BY <1>1, <5>1, <5>3, RollCall DEF o
      <4> QED
        BY <4>2, <4>3
    <3> QED
      BY <3>2, <3>3
  <2>3. CASE ~s.grabbed /\ ~(s.waiting /\ ~s.grabbed /\ s.grab = t.res.grab)
    <3>1. o = SendGrab(s, t, "grab")
      BY <1>5, <2>3 DEF apply_resolved_device_profile
    <3> HIDE DEF o
    <3>2. Ready(s, t, "grab", overtaken)
      BY <1>1, <1>2, <1>3, <1>5, <2>3
         DEF Ready, GrabSteps, UnmapSteps, MappingSteps, Waits, Steps
    <3> QED
      BY <1>1, <3>1, <3>2, GrabCall DEF o
  <2> QED
    BY <2>1, <2>2, <2>3
<1> QED
  BY <1>4, <1>5

\* What the answer r of the newest apply meets: an empty socket.
Hears(r) ==
    /\ Newest /\ commands = <<>>
    /\ r \in replies /\ r.answer \in Answers /\ IsAnswer(r) /\ r.req = s.seq /\ r.req \in Nat
    /\ tasks[gen] \in Task /\ gen \in DOMAIN tasks /\ s \in State

\* The doubts that are left after an answer.
DoubtsAfter(r) ==
    (overtaken \ Confirms(tasks[gen], r.answer)) \cup GivenUp(tasks[gen], r.answer)

\* A refusal that no retry follows.
Abandoned(answer) ==
    \/ answer = "paused"
    \/ answer = "error" /\ s.retry # "armed"
    \/ answer \in Timeouts /\ s.retry = "running"

\* Common to all answers.
LEMMA HearsFacts ==
    ASSUME NEW r, Hears(r)
    PROVE  LET t == tasks[gen] IN
           /\ t \in Task /\ t.res = Resolve[context] /\ t.req = s.seq /\ Stage = t.step
           /\ t.step \in Waits /\ t.req \in Nat
           /\ s \in State /\ s.acked \in Nat /\ s.acked < t.req /\ ~(s.waiting /\ s.grabbed)
           /\ events = {} => KeptFor(s, commands, daemon) /\ RefusedFor(s)
           /\ \A K : None(commands, K)
           /\ \A x \in replies, g \in DOMAIN tasks \ {gen} :
                tasks[g].step \in MappingSteps /\ tasks[g].req = x.req => x.req < s.seq /\ x.req \in Nat
<1> DEFINE t == tasks[gen]
<1>1. /\ t \in Task /\ Stage = t.step /\ t.step \in Waits /\ t.req = s.seq /\ t.req \in Nat
  BY DEF Hears, IsAnswer, Stage, Waits
<1>2. /\ t.res = Resolve[context] /\ s \in State /\ s.acked \in Nat /\ s.acked < t.req
      /\ ~(s.waiting /\ s.grabbed)
  BY <1>1 DEF Hears, Newest, ResolvedInv, BeliefInv, State
<1>3. events = {} => KeptFor(s, commands, daemon) /\ RefusedFor(s)
  BY DEF Hears, Newest, KeptInv, RefusedInv, RefusedFor
<1>4. \A K : None(commands, K)
  <2>1. Len(commands) = 0
    BY DEF Hears
  <2> QED
    BY <2>1 DEF None
<1>5. ASSUME NEW x \in replies, NEW g \in DOMAIN tasks \ {gen},
             tasks[g].step \in MappingSteps, tasks[g].req = x.req
      PROVE  x.req < s.seq /\ x.req \in Nat
  <2>1. x.req \in 1..s.seq
    BY DEF Hears, Newest, Inv, QueueInv
  <2>2. tasks[g].req # t.req
    BY <1>1, <1>5 DEF Hears, Newest, Inv, TaskInv, Waits, MappingSteps
  <2> QED
    BY <1>1, <1>5, <2>1, <2>2
<1> QED
  BY <1>1, <1>2, <1>3, <1>4, <1>5

\* The acknowledgement of a request that is newer than the last one.
LEMMA Acknowledged ==
    ASSUME NEW b \in State, NEW q \in Nat, b.acked < q
    PROVE  LET a == _acknowledge_device_request(b, q) IN
           /\ a \in State /\ a.acked = q /\ a.seq = b.seq
           /\ a.grabbed = b.grabbed /\ a.waiting = b.waiting /\ a.retry = b.retry
           /\ a.grab = b.grab /\ a.map = b.map
BY DEF _acknowledge_device_request, State

\* What the answer leaves in doubt.
LEMMA DoubtsFacts ==
    ASSUME NEW r
    PROVE  LET t == tasks[gen] IN
           /\ t.step \in {"grab", "regrab"} /\ r.answer = "ok" =>
                DoubtsAfter(r) = overtaken \ {"grab"}
           /\ t.step \in MappingSteps /\ r.answer = "ok" => DoubtsAfter(r) = overtaken \ {"map"}
           /\ t.step \in {"rollover", "release", "rerelease"} => DoubtsAfter(r) = overtaken
           /\ r.answer # "ok" => overtaken \subseteq DoubtsAfter(r)
           /\ t.step = "grab" /\ Abandoned(r.answer) => {"grab", "map"} \subseteq DoubtsAfter(r)
           /\ t.step = "grab" /\ r.answer = "late" => "grab" \in DoubtsAfter(r)
<1> DEFINE t == tasks[gen]
<1>1. /\ t.step \in {"grab", "regrab"} /\ r.answer = "ok" => Confirms(t, r.answer) = {"grab"}
      /\ t.step \in MappingSteps /\ r.answer = "ok" => Confirms(t, r.answer) = {"map"}
      /\ t.step \in {"rollover", "release", "rerelease"} => Confirms(t, r.answer) = {}
      /\ r.answer # "ok" => Confirms(t, r.answer) = {}
  BY DEF Confirms, MappingSteps
<1>2. /\ t.step # "grab" \/ r.answer \in {"ok", "waiting"} => GivenUp(t, r.answer) = {}
      /\ t.step = "grab" /\ Abandoned(r.answer) => GivenUp(t, r.answer) = {"grab", "map"}
      /\ t.step = "grab" /\ r.answer = "late" => "grab" \in GivenUp(t, r.answer)
  BY DEF GivenUp, Abandoned, Timeouts
<1>3. DoubtsAfter(r) = (overtaken \ Confirms(t, r.answer)) \cup GivenUp(t, r.answer)
  BY DEF DoubtsAfter
<1> HIDE DEF t
<1> QED
  BY <1>1, <1>2, <1>3 DEF MappingSteps, t

\* The answer of a grab that updates the device's payload.
LEMMA RegrabbedCall ==
    ASSUME NEW r, Hears(r), tasks[gen].step = "regrab"
    PROVE  Call(Regrabbed(s, tasks[gen], r.answer), tasks[gen], DoubtsAfter(r))
<1> DEFINE t == tasks[gen]
           ov == DoubtsAfter(r)
           o == Regrabbed(s, t, r.answer)
<1>1. /\ t \in Task /\ t.res = Resolve[context] /\ t.req = s.seq /\ Stage = "regrab" /\ t.req \in Nat
      /\ t.step = "regrab"
      /\ s \in State /\ s.acked \in Nat /\ s.acked < t.req /\ ~(s.waiting /\ s.grabbed)
      /\ events = {} => KeptFor(s, commands, daemon) /\ RefusedFor(s)
      /\ \A K : None(commands, K)
      /\ \A x \in replies, g \in DOMAIN tasks \ {gen} :
           tasks[g].step \in MappingSteps /\ tasks[g].req = x.req => x.req < s.seq /\ x.req \in Nat
  BY HearsFacts
<1>2. Effective(t.res) /\ t.res.grab # NoSig
  BY <1>1 DEF Hears, Newest, ResolvedInv, Effective, Waits, Steps
<1>3. events = {} => s.grabbed /\ (~t.remap => s.map = t.res.map)
  BY <1>1 DEF Hears, Newest, HeldInv
<1>4. /\ events = {} /\ r.answer = "ok" =>
           daemon.grabbed /\ daemon.grab = t.res.grab /\ ~daemon.releasing
      /\ events = {} /\ r.answer # "ok" => ~(s.grabbed /\ s.grab # NoSig)
  BY <1>1 DEF Hears, Newest, AnsweredInv
<1>5. events = {} /\ "map" \notin overtaken => MapFor(s, daemon)
  BY <1>1 DEF Hears, Newest, MapInv, UnmapSteps, MappingSteps
<1>6. r.answer = "ok" => ov = overtaken \ {"grab"}
  BY <1>1, DoubtsFacts
<1> HIDE DEF t, ov
<1>7. CASE r.answer # "ok" /\ s.grabbed
  <2> DEFINE x == Unwaited(s)
  <2>1. o = deactivate_profile(s, "rerelease")
    BY <1>7 DEF Regrabbed
  <2>2. /\ x.grabbed = s.grabbed /\ ~x.waiting /\ x.retry = "no"
        /\ x.grab = s.grab /\ x.map = s.map /\ x.acked = s.acked /\ x.seq = s.seq
    BY <1>1 DEF State, Unwaited
  <2> HIDE DEF x, o
  <2>3. events = {} => KeptFor(x, commands, daemon) /\ RefusedFor(x)
    BY <1>1, <2>2 DEF KeptFor, RefusedFor
  <2>4. events = {} => ~(s.grabbed /\ s.grab # NoSig)
    BY <1>4, <1>7
  <2>5. Ready(x, t, "rerelease", ov)
    BY <1>1, <1>2, <2>2, <2>3, <2>4 DEF Ready, GrabSteps, UnmapSteps, MappingSteps, Waits, Steps
  <2>6. s \in State /\ t \in Task
    BY <1>1
  <2>7. Call(deactivate_profile(s, "rerelease"), t, ov)
    BY <2>5, <2>6, ReleaseCall DEF x
  <2> QED
    BY <2>1, <2>7 DEF o, t, ov
<1>8. CASE r.answer # "ok" /\ ~s.grabbed
  <2>1. o = SendGrab(s, t, "grab")
    BY <1>8 DEF Regrabbed
  <2> HIDE DEF o
  <2>2. Ready(s, t, "grab", ov)
    BY <1>1, <1>2, <1>3, <1>8 DEF Ready, GrabSteps, UnmapSteps, MappingSteps, Waits, Steps
  <2> QED
    BY <1>1, <2>1, <2>2, GrabCall DEF o, t, ov
<1>9. CASE r.answer = "ok"
  <2> DEFINE c == [s EXCEPT !.grab = t.res.grab]
             a == _acknowledge_device_request(c, t.req)
  <2>1. /\ c \in State /\ c.grabbed = s.grabbed /\ c.waiting = s.waiting /\ c.retry = s.retry
        /\ c.grab = t.res.grab /\ c.map = s.map /\ c.acked = s.acked /\ c.seq = s.seq
    BY <1>1, TaskSigs DEF State
  <2>2. /\ o = IF ~t.remap THEN update_rollover_groups(a, t)
               ELSE IF ~a.grabbed THEN SendGrab(a, t, "grab")
               ELSE SendMapping(a, t, "remap")
    BY <1>9 DEF Regrabbed
  <2> HIDE DEF c
  <2>3. /\ a \in State /\ a.grabbed = s.grabbed /\ a.waiting = s.waiting /\ a.retry = s.retry
        /\ a.grab = t.res.grab /\ a.map = s.map /\ a.acked = t.req /\ a.seq = s.seq
    BY <1>1, <2>1, Acknowledged
  <2> HIDE DEF a, o
  <2>4. events = {} => KeptFor(a, commands, daemon) /\ RefusedFor(a)
    <3>1. events = {} => KeptFor(a, commands, daemon)
      BY <1>1, <1>3, <1>4, <1>9, <2>3 DEF KeptFor, None
    <3>2. RefusedFor(a)
      BY <1>1, <2>3 DEF RefusedFor
    <3> QED
      BY <3>1, <3>2
  <2>5. events = {} => GrabFor(a, commands, daemon) /\ GrabDone(a, t.res)
    BY <1>2, <1>3, <1>4, <1>9, <2>3 DEF GrabFor, GrabDone
  <2>6. events = {} /\ "map" \notin ov => MapFor(a, daemon)
    BY <1>5, <1>6, <1>9, <2>3 DEF MapFor
  <2>7. CASE ~t.remap
    <3>1. events = {} => MapDone(a, t.res)
      BY <1>3, <2>3, <2>7 DEF MapDone
    <3>2. Ready(a, t, "ended", ov)
      BY <1>1, <2>3, <2>4, <2>5, <2>6, <3>1
         DEF Ready, GrabSteps, UnmapSteps, MappingSteps, Waits, Steps
    <3> QED
      BY <1>1, <2>2, <2>3, <2>7, <3>2, RollCall DEF o, t, ov
  <2>8. CASE t.remap /\ ~a.grabbed
    <3>1. Ready(a, t, "grab", ov)
      BY <1>1, <1>2, <1>3, <2>3, <2>8
         DEF Ready, GrabSteps, UnmapSteps, MappingSteps, Waits, Steps
    <3> QED
      BY <1>1, <2>2, <2>3, <2>8, <3>1, GrabCall DEF o, t, ov
  <2>9. CASE t.remap /\ a.grabbed
    <3>1. Ready(a, t, "remap", ov)
      BY <1>1, <1>2, <1>3, <2>3, <2>4, <2>5, <2>9
         DEF Ready, GrabSteps, UnmapSteps, MappingSteps, Waits, Steps
    <3> QED
      BY <1>1, <2>2, <2>3, <2>9, <3>1, MapCall DEF o, t, ov, MappingSteps
  <2> QED
    BY <2>7, <2>8, <2>9
<1> QED
  BY <1>7, <1>8, <1>9 DEF t, ov

\* The answer of a grab.
LEMMA GrabbedCall ==
    ASSUME NEW r, Hears(r), tasks[gen].step = "grab"
    PROVE  Call(Grabbed(s, tasks[gen], r.answer), tasks[gen], DoubtsAfter(r))
<1> DEFINE t == tasks[gen]
           ov == DoubtsAfter(r)
           o == Grabbed(s, t, r.answer)
<1>1. /\ t \in Task /\ t.res = Resolve[context] /\ t.req = s.seq /\ Stage = "grab" /\ t.req \in Nat
      /\ t.step = "grab"
      /\ s \in State /\ s.acked \in Nat /\ s.acked < t.req
      /\ events = {} => KeptFor(s, commands, daemon) /\ RefusedFor(s)
      /\ \A K : None(commands, K)
      /\ \A x \in replies, g \in DOMAIN tasks \ {gen} :
           tasks[g].step \in MappingSteps /\ tasks[g].req = x.req => x.req < s.seq /\ x.req \in Nat
  BY HearsFacts
<1>2. Effective(t.res) /\ t.res.grab # NoSig /\ ~s.grabbed
  BY <1>1 DEF Hears, Newest, ResolvedInv, BeliefInv, Effective, Waits, Steps
<1>3. /\ r.answer \in {"ok", "waiting", "busy", "late", "paused", "error"}
      /\ events = {} /\ r.answer = "ok" =>
           daemon.grabbed /\ daemon.grab = t.res.grab /\ ~daemon.releasing
      /\ events = {} /\ r.answer = "waiting" =>
           daemon.desired /\ ~daemon.present /\ ~daemon.releasing /\ ~daemon.grabbed
      /\ events = {} /\ r.answer \in {"busy", "error"} => ~daemon.grabbed
  <2>1. r.answer \in {"ok", "waiting", "busy", "late", "paused", "error"}
    BY DEF Hears, Answers
  <2> QED
    BY <1>1, <2>1 DEF Hears, Newest, AnsweredInv, DaemonInv
<1>4. events = {} /\ "map" \notin overtaken => MapFor(s, daemon)
  BY <1>1 DEF Hears, Newest, MapInv, UnmapSteps, MappingSteps
<1>5. /\ r.answer # "ok" => overtaken \subseteq ov
      /\ Abandoned(r.answer) => "grab" \in ov /\ "map" \in ov
      /\ r.answer = "late" => "grab" \in ov
  BY <1>1, DoubtsFacts
<1> HIDE DEF t, ov
<1>6. CASE r.answer = "ok"
  <2> DEFINE c == [s EXCEPT !.retry = "no", !.waiting = FALSE, !.grabbed = TRUE,
                            !.grab = t.res.grab]
             a == _acknowledge_device_request(c, t.req)
  <2>1. /\ c \in State /\ c.grabbed /\ ~c.waiting /\ c.grab = t.res.grab
        /\ c.acked = s.acked /\ c.seq = s.seq
    BY <1>1, TaskSigs DEF State
  <2>2. o = SendMapping(a, t, "mapping")
    BY <1>6 DEF Grabbed, Timeouts
  <2> HIDE DEF c
  <2>3. /\ a \in State /\ a.grabbed /\ ~a.waiting /\ a.grab = t.res.grab
        /\ a.acked = t.req /\ a.seq = s.seq
    BY <1>1, <2>1, Acknowledged
  <2> HIDE DEF a, o
  <2>4. events = {} => KeptFor(a, commands, daemon)
    BY <1>1, <1>3, <1>6, <2>3 DEF KeptFor, None
  <2>5. RefusedFor(a)
    BY <1>1, <2>3 DEF RefusedFor
  <2>6. events = {} => GrabFor(a, commands, daemon) /\ GrabDone(a, t.res)
    BY <1>2, <1>3, <1>6, <2>3 DEF GrabFor, GrabDone
  <2>7. Ready(a, t, "mapping", ov)
    BY <1>1, <1>2, <2>3, <2>4, <2>5, <2>6
       DEF Ready, GrabSteps, UnmapSteps, MappingSteps, Waits, Steps
  <2> QED
    BY <1>1, <2>2, <2>3, <2>7, MapCall DEF o, t, ov, MappingSteps
<1>7. CASE r.answer = "waiting"
  <2> DEFINE c == [s EXCEPT !.retry = "no", !.grabbed = FALSE, !.waiting = TRUE,
                            !.grab = t.res.grab, !.map = NoSig]
  <2>1. /\ c \in State /\ ~c.grabbed /\ c.waiting /\ c.retry = "no" /\ c.map = NoSig
        /\ c.acked = s.acked /\ c.seq = s.seq
    BY <1>1, TaskSigs DEF State, Sig
  <2>2. o = update_rollover_groups(c, t)
    BY <1>7 DEF Grabbed, Timeouts
  <2> HIDE DEF c, o
  <2>3. events = {} => KeptFor(c, commands, daemon) /\ RefusedFor(c)
    BY <1>1, <1>3, <1>7, <2>1 DEF KeptFor, RefusedFor
  <2>4. events = {} => GrabFor(c, commands, daemon) /\ GrabDone(c, t.res)
    BY <1>2, <1>3, <1>7, <2>1 DEF GrabFor, GrabDone
  <2>5. MapFor(c, daemon) /\ MapDone(c, t.res)
    BY <2>1 DEF MapFor, MapDone
  <2>6. Ready(c, t, "ended", ov)
    BY <1>1, <2>1, <2>3, <2>4, <2>5 DEF Ready, GrabSteps, UnmapSteps, MappingSteps, Waits, Steps
  <2> QED
    BY <1>1, <2>1, <2>2, <2>6, RollCall DEF o, t, ov
<1>8. CASE r.answer \in Timeouts
  <2> DEFINE c == schedule_grab_retry(s)
  <2>1. /\ c \in State /\ c.grabbed = s.grabbed /\ c.waiting = s.waiting /\ c.grab = s.grab
        /\ c.map = s.map /\ c.acked = s.acked /\ c.seq = s.seq
        /\ s.retry = "running" \/ c.retry = "armed"
    BY <1>1 DEF schedule_grab_retry, State
  <2>2. o = update_rollover_groups(c, t)
    BY <1>8 DEF Grabbed, Timeouts
  <2> HIDE DEF c, o
  <2>3. events = {} => KeptFor(c, commands, daemon) /\ RefusedFor(c)
    BY <1>1, <2>1 DEF KeptFor, RefusedFor
  <2>4. events = {} /\ "grab" \notin ov => GrabFor(c, commands, daemon) /\ GrabDone(c, t.res)
    BY <1>2, <1>3, <1>5, <1>8, <2>1 DEF GrabFor, GrabDone, Abandoned, Timeouts
  <2>5. events = {} /\ "map" \notin ov => MapFor(c, daemon) /\ MapDone(c, t.res)
    BY <1>4, <1>5, <1>8, <2>1 DEF MapFor, MapDone, Abandoned, Timeouts
  <2>6. Ready(c, t, "ended", ov)
    BY <1>1, <1>2, <2>1, <2>3, <2>4, <2>5
       DEF Ready, GrabSteps, UnmapSteps, MappingSteps, Waits, Steps
  <2> QED
    BY <1>1, <2>1, <2>2, <2>6, RollCall DEF o, t, ov
<1>9. CASE r.answer = "paused"
  <2> DEFINE c == [s EXCEPT !.retry = "no", !.grabbed = FALSE, !.waiting = FALSE,
                            !.grab = NoSig, !.map = NoSig]
  <2>1. /\ c \in State /\ ~c.grabbed /\ ~c.waiting /\ c.acked = s.acked /\ c.seq = s.seq
    BY <1>1 DEF State, Sig
  <2>2. o = update_rollover_groups(c, t)
    BY <1>9 DEF Grabbed, Timeouts
  <2> HIDE DEF c, o
  <2>3. events = {} => KeptFor(c, commands, daemon) /\ RefusedFor(c)
    BY <2>1 DEF KeptFor, RefusedFor
  <2>4. "grab" \in ov /\ "map" \in ov
    BY <1>5, <1>9 DEF Abandoned
  <2>5. Ready(c, t, "ended", ov)
    BY <1>1, <2>1, <2>3, <2>4 DEF Ready, GrabSteps, UnmapSteps, MappingSteps, Waits, Steps
  <2> QED
    BY <1>1, <2>1, <2>2, <2>5, RollCall DEF o, t, ov
<1>10. CASE r.answer = "error"
  <2>1. o = update_rollover_groups(s, t)
    BY <1>10 DEF Grabbed, Timeouts
  <2> HIDE DEF o
  <2>2. events = {} /\ "grab" \notin ov => GrabFor(s, commands, daemon) /\ GrabDone(s, t.res)
    BY <1>2, <1>3, <1>5, <1>10 DEF GrabFor, GrabDone, Abandoned
  <2>3. events = {} /\ "map" \notin ov => MapFor(s, daemon) /\ MapDone(s, t.res)
    BY <1>4, <1>5, <1>10 DEF MapFor, MapDone, Abandoned
  <2>4. Ready(s, t, "ended", ov)
    BY <1>1, <1>2, <2>2, <2>3
       DEF Ready, GrabSteps, UnmapSteps, MappingSteps, Waits, Steps
  <2> QED
    BY <1>1, <2>1, <2>4, RollCall DEF o, t, ov
<1> QED
  BY <1>3, <1>6, <1>7, <1>8, <1>9, <1>10 DEF t, ov, Timeouts

\* The session's state b and x agree beyond the references, or x has given the
\* device up.
GivesUp(x, b, t, answer) ==
    /\ x \in State /\ x.seq = b.seq /\ x.acked = b.acked /\ x.roll = b.roll
    /\ \/ Agrees(x, b)
       \/ /\ answer = "waiting" /\ ~(b.acked > t.req)
          /\ ~x.grabbed /\ ~x.waiting /\ x.retry = "armed"
          /\ x.grab = NoSig /\ x.map = NoSig

\* A mapping's answer gives a device up that was lost, unless a later request has
\* been acknowledged.
LEMMA Settled ==
    ASSUME NEW b \in State, NEW t \in Task, NEW answer \in Answers, NEW newest
    PROVE  GivesUp(SettleMapping(b, t, answer, newest), b, t, answer)
<1> DEFINE x == SettleMapping(b, t, answer, newest)
           d == schedule_grab_retry(clear_hardware_runtime_state(b))
           e(z) == [z EXCEPT !.exec = @ \ {t.req}]
<1>1. /\ d \in State /\ d.seq = b.seq /\ d.acked = b.acked /\ d.roll = b.roll
      /\ ~d.grabbed /\ ~d.waiting /\ d.retry = "armed" /\ d.grab = NoSig /\ d.map = NoSig
  <2> DEFINE c == clear_hardware_runtime_state(b)
  <2>1. /\ c \in State /\ c.seq = b.seq /\ c.acked = b.acked /\ c.roll = b.roll
        /\ ~c.grabbed /\ ~c.waiting /\ c.retry = "no" /\ c.grab = NoSig /\ c.map = NoSig
    BY DEF clear_hardware_runtime_state, State, Sig
  <2> HIDE DEF c
  <2> QED
    BY <2>1 DEF schedule_grab_retry, State, c
<1>2. ASSUME NEW z \in State
      PROVE  e(z) \in State /\ Agrees(e(z), z) /\ e(z).roll = z.roll
  BY DEF State, Agrees
<1>3. CASE answer = "ok"
  <2>1. t.req \in Nat
    BY DEF Task
  <2>2. x = _commit_device_references(b, t.req, newest)
    BY <1>3 DEF SettleMapping
  <2> DEFINE y == [b EXCEPT !.exec = (@ \ b.owned) \cup {t.req}, !.owned = {t.req},
                            !.retired = @ \cup b.owned]
             z == [b EXCEPT !.exec = @ \cup {t.req}, !.owned = @ \cup {t.req}]
  <2>3. x = y \/ x = z
    BY <2>2 DEF _commit_device_references
  <2>4. y \in State /\ Agrees(y, b) /\ y.roll = b.roll
    BY <2>1 DEF State, Agrees
  <2>5. z \in State /\ Agrees(z, b) /\ z.roll = b.roll
    BY <2>1 DEF State, Agrees
  <2>6. x \in State /\ Agrees(x, b) /\ x.roll = b.roll
    <3> HIDE DEF x, y, z
    <3> QED
      BY <2>3, <2>4, <2>5
  <2> QED
    BY <2>6 DEF Agrees, GivesUp
<1>4. CASE answer = "waiting" /\ ~(b.acked > t.req)
  <2>1. x = e(d)
    BY <1>4 DEF SettleMapping, _defer_mapping_until_regrab
  <2> HIDE DEF x, d, e
  <2>2. x \in State /\ Agrees(x, d) /\ x.roll = d.roll
    BY <1>1, <1>2, <2>1
  <2> QED
    BY <1>1, <1>4, <2>2 DEF Agrees, GivesUp, x
<1>5. CASE answer # "ok" /\ ~(answer = "waiting" /\ ~(b.acked > t.req))
  <2>1. x = e(b)
    BY <1>5 DEF SettleMapping, _defer_mapping_until_regrab
  <2> HIDE DEF x, d, e
  <2>2. x \in State /\ Agrees(x, b) /\ x.roll = b.roll
    BY <1>2, <2>1
  <2> QED
    BY <2>2 DEF Agrees, GivesUp, x
<1> QED
  BY <1>3, <1>4, <1>5

\* The answer of a mapping.
LEMMA MappedCall ==
    ASSUME NEW r, Hears(r), tasks[gen].step \in MappingSteps
    PROVE  Call(Mapped(s, tasks[gen], r.answer), tasks[gen], DoubtsAfter(r))
<1> DEFINE t == tasks[gen]
           ov == DoubtsAfter(r)
           b == SettleMapping(s, t, r.answer, TRUE)
           o == Mapped(s, t, r.answer)
<1>1. /\ t \in Task /\ t.res = Resolve[context] /\ t.req = s.seq /\ Stage \in MappingSteps
      /\ t.req \in Nat
      /\ s \in State /\ s.acked \in Nat /\ s.acked < t.req /\ ~(s.waiting /\ s.grabbed)
      /\ events = {} => KeptFor(s, commands, daemon) /\ RefusedFor(s)
      /\ \A x \in replies, g \in DOMAIN tasks \ {gen} :
           tasks[g].step \in MappingSteps /\ tasks[g].req = x.req => x.req < s.seq /\ x.req \in Nat
  BY HearsFacts
<1>2. Effective(t.res) /\ t.res.grab # NoSig
  BY <1>1 DEF Hears, Newest, ResolvedInv, Effective, Waits, Steps, MappingSteps
<1>3. events = {} => s.grabbed
  BY <1>1 DEF Hears, Newest, HeldInv
<1>4. /\ b \in State /\ b.seq = s.seq /\ b.acked = s.acked
      /\ Agrees(b, s) \/ (r.answer = "waiting" /\ ~b.grabbed /\ ~b.waiting)
  <2>1. r.answer \in Answers /\ s \in State /\ t \in Task
    BY <1>1 DEF Hears
  <2>2. GivesUp(b, s, t, r.answer)
    BY <2>1, Settled
  <2> HIDE DEF b
  <2> QED
    BY <2>2 DEF GivesUp
<1> HIDE DEF b
<1>5. CASE r.answer = "ok"
  <2> DEFINE c == [b EXCEPT !.map = t.res.map]
             a == _acknowledge_device_request(c, t.req)
  <2>1. /\ c \in State /\ c.grabbed = s.grabbed /\ c.waiting = s.waiting /\ c.retry = s.retry
        /\ c.grab = s.grab /\ c.map = t.res.map /\ c.acked = s.acked /\ c.seq = s.seq
    BY <1>1, <1>4, <1>5, TaskSigs DEF State, Agrees
  <2>2. o = update_rollover_groups(a, t)
    BY <1>5 DEF Mapped, b
  <2> HIDE DEF c
  <2>3. /\ a \in State /\ a.grabbed = s.grabbed /\ a.waiting = s.waiting /\ a.retry = s.retry
        /\ a.grab = s.grab /\ a.map = t.res.map /\ a.acked = t.req /\ a.seq = s.seq
    BY <1>1, <2>1, Acknowledged
  <2> HIDE DEF a, o
  <2>4. ov = overtaken \ {"map"}
    BY <1>1, <1>5, DoubtsFacts DEF Hears
  <2>5. events = {} => KeptFor(a, commands, daemon) /\ RefusedFor(a)
    BY <1>1, <2>3 DEF KeptFor, RefusedFor
  <2>6. events = {} /\ "grab" \notin overtaken => GrabFor(s, commands, daemon) /\ GrabDone(s, t.res)
    BY <1>1 DEF Hears, Newest, GrabInv, GrabSteps, MappingSteps
  <2>7. events = {} /\ "grab" \notin ov => GrabFor(a, commands, daemon) /\ GrabDone(a, t.res)
    BY <2>3, <2>4, <2>6 DEF GrabFor, GrabDone
  <2>8. events = {} => daemon.map = t.res.map /\ ~daemon.releasing
    BY <1>1, <1>5 DEF Hears, Newest, AnsweredInv
  <2>9. events = {} => MapFor(a, daemon) /\ MapDone(a, t.res)
    BY <2>3, <2>8 DEF MapFor, MapDone
  <2> HIDE DEF t, ov
  <2>10. Ready(a, t, "ended", ov)
    BY <1>1, <2>3, <2>5, <2>7, <2>9 DEF Ready, GrabSteps, UnmapSteps, MappingSteps, Waits, Steps
  <2> QED
    BY <1>1, <2>2, <2>3, <2>10, RollCall DEF o, t, ov
<1>6. CASE r.answer # "ok"
  <2>1. events # {}
    BY <1>1, <1>3, <1>6 DEF Hears, Newest, RefusedInv
  <2>2. /\ b.waiting => ~b.grabbed
        /\ b.acked \in Nat /\ b.acked <= s.seq
    BY <1>1, <1>4 DEF Agrees
  <2>3. o = deactivate_profile(b, "rerelease") \/ o = update_rollover_groups(b, t)
    BY <1>6 DEF Mapped, b
  <2> HIDE DEF o, t, ov
  <2>4. Ready(b, t, "ended", ov)
    BY <1>4, <2>1, <2>2 DEF Ready, Waits, Steps
  <2>5. Ready(Unwaited(b), t, "rerelease", ov)
    <3> DEFINE x == Unwaited(b)
    <3>1. ~x.waiting /\ x.seq = s.seq /\ x.acked = b.acked
      BY <1>4 DEF Unwaited, State
    <3> HIDE DEF x
    <3>2. Ready(x, t, "rerelease", ov)
      BY <1>2, <2>1, <2>2, <3>1 DEF Ready, Waits, Steps
    <3> QED
      BY <3>2 DEF x
  <2>6. Call(update_rollover_groups(b, t), t, ov) /\ Call(deactivate_profile(b, "rerelease"), t, ov)
    BY <1>1, <1>4, <2>4, <2>5, RollCall, ReleaseCall
  <2> QED
    BY <2>3, <2>6 DEF o, t, ov
<1> QED
  BY <1>5, <1>6

\* The answer of a release.
LEMMA ReleasedCall ==
    ASSUME NEW r, Hears(r), tasks[gen].step \in {"release", "rerelease"}
    PROVE  Call(Released(s, tasks[gen]), tasks[gen], DoubtsAfter(r))
<1> DEFINE t == tasks[gen]
           ov == DoubtsAfter(r)
           b == clear_hardware_runtime_state(s)
           o == Released(s, t)
<1>1. /\ t \in Task /\ t.res = Resolve[context] /\ Stage = t.step
      /\ s \in State /\ s.acked \in Nat /\ s.acked < t.req /\ t.req = s.seq /\ t.req \in Nat
      /\ \A K : None(commands, K)
  BY HearsFacts
<1>2. /\ b \in State /\ b.seq = s.seq /\ b.acked = s.acked
      /\ ~b.grabbed /\ ~b.waiting /\ b.grab = NoSig /\ b.map = NoSig
  BY <1>1 DEF clear_hardware_runtime_state, State, Sig
<1>3. IF t.step = "release" THEN o = update_rollover_groups(b, t) /\ ~Effective(t.res)
                            ELSE o = SendGrab(b, t, "grab") /\ Effective(t.res)
  BY <1>1 DEF Released, Hears, Newest, ResolvedInv, Waits, Steps
<1>4. events = {} => ~daemon.grabbed \/ daemon.releasing
  BY <1>1 DEF Hears, Newest, AnsweredInv
<1> HIDE DEF b, o
<1>5. /\ KeptFor(b, commands, daemon) /\ RefusedFor(b) /\ MapFor(b, daemon)
      /\ events = {} => GrabFor(b, commands, daemon)
  BY <1>1, <1>2, <1>4 DEF KeptFor, RefusedFor, MapFor, GrabFor
<1> HIDE DEF t, ov
<1>6. CASE t.step = "release"
  <2>1. GrabDone(b, t.res) /\ MapDone(b, t.res)
    BY <1>2, <1>3, <1>6 DEF GrabDone, MapDone
  <2>2. Ready(b, t, "ended", ov)
    BY <1>1, <1>2, <1>5, <2>1 DEF Ready, GrabSteps, UnmapSteps, MappingSteps, Waits, Steps
  <2> QED
    BY <1>1, <1>2, <1>3, <1>6, <2>2, RollCall DEF o, t, ov
<1>7. CASE t.step # "release"
  <2>1. Ready(b, t, "grab", ov)
    BY <1>1, <1>2, <1>3, <1>5, <1>7 DEF Ready, GrabSteps, UnmapSteps, MappingSteps, Waits, Steps
  <2> QED
    BY <1>1, <1>2, <1>3, <1>7, <2>1, GrabCall DEF o, t, ov
<1> QED
  BY <1>6, <1>7

\* The answer of the groups.
LEMMA RolledCall ==
    ASSUME NEW r, Hears(r), tasks[gen].step = "rollover"
    PROVE  Call(RolledOver(s, tasks[gen], r.answer), tasks[gen], DoubtsAfter(r))
<1> DEFINE t == tasks[gen]
           ov == DoubtsAfter(r)
           b == [s EXCEPT !.roll = t.res.roll]
<1>1. /\ t \in Task /\ t.res = Resolve[context] /\ Stage = "rollover" /\ t.req = s.seq
      /\ s \in State /\ s.acked \in Nat /\ s.acked < t.req /\ ~(s.waiting /\ s.grabbed)
      /\ t.req \in Nat
      /\ events = {} => KeptFor(s, commands, daemon) /\ RefusedFor(s)
  BY HearsFacts
<1>2. RolledOver(s, t, r.answer) = Ended(b)
  BY <1>1 DEF RolledOver, Hears, Newest, ServedInv
<1>3. b \in State /\ Agrees(b, s) /\ b.roll = t.res.roll
  BY <1>1, TaskSigs DEF State, Agrees
<1>4. ov = overtaken
  BY DoubtsFacts
<1>5. /\ events = {} /\ "grab" \notin overtaken => GrabFor(s, commands, daemon) /\ GrabDone(s, t.res)
      /\ events = {} /\ "map" \notin overtaken => MapFor(s, daemon) /\ MapDone(s, t.res)
  BY <1>1 DEF Hears, Newest, GrabInv, MapInv, GrabSteps, UnmapSteps, MappingSteps
<1> HIDE DEF b, t, ov
<1>6. Ready(s, t, "ended", ov)
  BY <1>1, <1>4, <1>5 DEF Ready, GrabSteps, UnmapSteps, MappingSteps, Waits, Steps
<1>7. Ready(b, t, "ended", ov)
  BY <1>3, <1>6, ReadyAgrees
<1> QED
  BY <1>2, <1>3, <1>7 DEF Call, t, ov

\* All answers.
LEMMA AnsweredCall ==
    ASSUME NEW r, Hears(r)
    PROVE  Call(Answered(s, tasks[gen], r.answer), tasks[gen], DoubtsAfter(r))
<1> DEFINE t == tasks[gen]
           o == Answered(s, t, r.answer)
<1>1. t.step \in Steps \ {"new"}
  BY HearsFacts DEF Waits
<1>2. /\ t.step = "regrab" => o = Regrabbed(s, t, r.answer)
      /\ t.step = "grab" => o = Grabbed(s, t, r.answer)
      /\ t.step \in MappingSteps => o = Mapped(s, t, r.answer)
      /\ t.step \in {"release", "rerelease"} => o = Released(s, t)
      /\ t.step = "rollover" => o = RolledOver(s, t, r.answer)
  BY DEF Answered, MappingSteps
<1> HIDE DEF o
<1>3. \/ t.step = "regrab" \/ t.step = "grab" \/ t.step \in MappingSteps
      \/ t.step \in {"release", "rerelease"} \/ t.step = "rollover"
  BY <1>1 DEF Steps, MappingSteps
<1>4. Call(o, t, DoubtsAfter(r))
  BY <1>2, <1>3, RegrabbedCall, GrabbedCall, MappedCall, ReleasedCall, RolledCall
<1> QED
  BY <1>4 DEF o

-----------------------------------------------------------------------------
(* What such a result leaves satisfies the invariant. *)

\* The kinds of the commands with one more.
LEMMA NoneWritten ==
    ASSUME NEW cmds \in Seq(Command), NEW c \in Command, NEW K, None(cmds, K), c.kind \notin K
    PROVE  None(cmds \o <<c>>, K)
<1> DEFINE w == cmds \o <<c>>
<1>1. /\ Len(w) = Len(cmds) + 1 /\ Len(cmds) \in Nat
      /\ \A i \in 1..Len(cmds) : w[i] = cmds[i]
      /\ w[Len(cmds) + 1] = c
  BY Written
<1> HIDE DEF w
<1>2. ASSUME NEW i \in 1..Len(w)
      PROVE  w[i].kind \notin K
  <2>1. i \in 1..Len(cmds) \/ i = Len(cmds) + 1
    BY <1>1
  <2> QED
    BY <1>1, <2>1 DEF None
<1> QED
  BY <1>2 DEF None, w

\* What the session keeps, with one more command that is not a release of what it
\* has, nor a mapping for what it has not.
LEMMA KeptWritten ==
    ASSUME NEW cmds \in Seq(Command), NEW c \in Command, NEW b, NEW d, KeptFor(b, cmds, d),
           c.kind = "release" => ~b.waiting /\ ~(b.grabbed /\ b.grab # NoSig),
           c.kind = "map" => b.grabbed /\ b.grab # NoSig
    PROVE  KeptFor(b, cmds \o <<c>>, d)
<1> DEFINE w == cmds \o <<c>>
<1>1. /\ Len(w) = Len(cmds) + 1 /\ Len(cmds) \in Nat
      /\ \A i \in 1..Len(cmds) : w[i] = cmds[i]
      /\ w[Len(cmds) + 1] = c
  BY Written
<1>2. None(cmds, {"release"}) /\ c.kind # "release" => None(w, {"release"})
  BY NoneWritten
<1> HIDE DEF w
<1>3. /\ b.grabbed /\ b.grab # NoSig => d.grabbed /\ ~d.releasing /\ None(w, {"release"})
      /\ b.waiting => d.desired /\ ~d.present /\ ~d.releasing /\ None(w, {"release"})
  BY <1>2 DEF KeptFor
<1>4. ASSUME b.grabbed, NEW i \in 1..Len(w), w[i].kind = "map"
      PROVE  d.grabbed /\ ~d.releasing /\ \A j \in 1..i : w[j].kind # "release"
  <2>1. CASE i \in 1..Len(cmds)
    <3>1. w[i] = cmds[i] /\ \A j \in 1..i : j \in 1..Len(cmds) /\ w[j] = cmds[j]
      BY <1>1, <2>1
    <3>2. d.grabbed /\ ~d.releasing /\ \A j \in 1..i : cmds[j].kind # "release"
      BY <1>4, <2>1, <3>1 DEF KeptFor
    <3> QED
      BY <3>1, <3>2
  <2>2. CASE i = Len(cmds) + 1
    <3>1. c.kind = "map"
      BY <1>1, <1>4, <2>2
    <3>2. d.grabbed /\ ~d.releasing /\ None(w, {"release"})
      BY <1>3, <3>1
    <3>3. \A j \in 1..i : j \in 1..Len(w)
      BY <1>1, <2>2
    <3> QED
      BY <3>2, <3>3 DEF None
  <2> QED
    BY <1>1, <2>1, <2>2
<1> QED
  BY <1>3, <1>4 DEF KeptFor, w

\* The apply that ended.
LEMMA EndStep ==
    ASSUME Newest, gen \in DOMAIN tasks, NEW t \in Task, t.res = Resolve[context], NEW ov,
           NEW b \in State, b.roll = t.res.roll, Ready(b, t, "ended", ov),
           Take(gen, t, Ended(b)), overtaken' = ov, replies' \subseteq replies,
           UNCHANGED <<context, gen, daemon, events>>,
           "grab" \notin ov => None(commands, {"grab", "release"}),
           "map" \notin ov => None(commands, {"map", "release"}),
           Inv'
    PROVE  Newest'
<1>1. /\ s' = b /\ commands' = commands /\ s.seq \in Nat
      /\ tasks' = [h \in DOMAIN tasks \ {gen} |-> tasks[h]]
  BY DEF Take, Ended, Newest, Inv, Types, State
<1>2. /\ DOMAIN tasks' = DOMAIN tasks \ {gen}
      /\ \A h \in DOMAIN tasks' : tasks'[h] = tasks[h]
  BY <1>1
<1>3. Stage' = "ended"
  BY <1>2 DEF Stage
<1>4. BeliefInv'
  BY <1>1, <1>3 DEF BeliefInv, Ready, Waits, Steps
<1>5. ResolvedInv'
  BY <1>1, <1>3 DEF ResolvedInv, Waits, Steps
<1>6. ServedInv' /\ AnsweredInv'
  BY <1>3 DEF ServedInv, AnsweredInv, IsAnswer, Waits, Steps
<1>7. DoubtInv'
  BY <1>1 DEF DoubtInv, None
<1>8. DaemonInv' /\ KeptInv'
  BY <1>1 DEF Newest, DaemonInv, KeptInv, Ready
<1>9. RefusedInv'
  BY <1>1, <1>2 DEF RefusedInv, Ready, RefusedFor
<1>10. HeldInv'
  BY <1>3 DEF HeldInv, MappingSteps
<1>11. GrabInv' /\ MapInv'
  BY <1>1, <1>3 DEF GrabInv, MapInv, Ready, GrabSteps, UnmapSteps, MappingSteps
<1> QED
  BY <1>4, <1>5, <1>6, <1>7, <1>8, <1>9, <1>10, <1>11 DEF Newest

\* The apply that waits for its next command.
LEMMA AwaitStep ==
    ASSUME Newest, gen \in DOMAIN tasks, NEW t \in Task, t.res = Resolve[context], NEW ov,
           NEW b \in State, NEW st \in Waits, NEW sig \in Sig, Ready(b, t, st, ov),
           st \in {"grab", "regrab"} => sig = t.res.grab,
           st \in MappingSteps => sig = t.res.map,
           Take(gen, t, Await(b, KindAt(st), sig, st)), overtaken' = ov, replies' \subseteq replies,
           UNCHANGED <<context, gen, daemon, events>>,
           "grab" \notin ov => None(commands, {"grab", "release"}),
           "map" \notin ov => None(commands, {"map", "release"}),
           Inv'
    PROVE  Newest'
<1> DEFINE y == [b EXCEPT !.seq = @ + 1]
           c == [kind |-> KindAt(st), sig |-> sig, req |-> s.seq + 1]
           u == [t EXCEPT !.step = st, !.req = s.seq + 1]
           n == Len(commands)
<1>1. /\ s.seq \in Nat /\ b.seq = s.seq /\ commands \in Seq(Command) /\ n \in Nat
      /\ b.acked \in Nat /\ b.acked <= s.seq
  BY DEF Newest, Inv, Types, State, Ready
<1>2. /\ y.grabbed = b.grabbed /\ y.waiting = b.waiting /\ y.retry = b.retry
      /\ y.grab = b.grab /\ y.map = b.map /\ y.acked = b.acked /\ y.seq = s.seq + 1
  BY <1>1 DEF State
<1>3. /\ c \in Command /\ c.kind = KindAt(st) /\ c.sig = sig /\ c.req = s.seq + 1
      /\ u.step = st /\ u.req = s.seq + 1 /\ u.res = t.res /\ u.remap = t.remap
  BY <1>1 DEF Command, Kinds, KindAt, Task
<1>4. /\ s' = y /\ commands' = commands \o <<c>> /\ tasks' = [tasks EXCEPT ![gen] = u]
  <2>1. st # "done"
    BY DEF Waits, Steps
  <2> QED
    BY <1>1, <1>2, <2>1 DEF Take, Await
<1> HIDE DEF y, c, u
<1>5. /\ DOMAIN tasks' = DOMAIN tasks /\ tasks'[gen] = u
      /\ \A h \in DOMAIN tasks \ {gen} : tasks'[h] = tasks[h]
  BY <1>4
<1>6. Stage' = st /\ st # "new" /\ st # "ended"
  BY <1>3, <1>5 DEF Stage, Waits, Steps
<1>7. /\ Len(commands') = n + 1 /\ commands'[n + 1] = c
      /\ \A i \in 1..n : commands'[i] = commands[i]
  BY <1>1, <1>3, <1>4, Written
<1>8. \A i \in 1..Len(commands') : i \in 1..n \/ i = n + 1
  BY <1>1, <1>7
<1>9. /\ \A i \in 1..n : commands[i].req # s.seq + 1
      /\ \A r \in replies' : r.req # s.seq + 1
  <2>1. /\ \A i \in 1..n : commands[i].req <= s.seq
        /\ \A r \in replies' : r.req \in 1..s.seq
    BY DEF Newest, Inv, QueueInv
  <2> QED
    BY <1>1, <2>1
<1>10. /\ c.kind \in {"grab", "release"} => st \in GrabSteps
       /\ c.kind \in {"map", "release"} => st \in UnmapSteps
       /\ c.kind = "release" => st \in {"release", "rerelease"}
       /\ c.kind = "map" => st \in MappingSteps
  BY <1>3 DEF KindAt, GrabSteps, UnmapSteps
<1>11. BeliefInv'
  <2>1. y.acked <= s.seq + 1 /\ y.acked < s.seq + 1
    BY <1>1, <1>2
  <2> QED
    BY <1>2, <1>3, <1>4, <1>5, <1>6, <2>1 DEF BeliefInv, Ready
<1>12. ResolvedInv'
  BY <1>3, <1>5, <1>6 DEF ResolvedInv, Ready
<1>13. ServedInv'
  <2>1. ASSUME NEW i \in 1..Len(commands'), commands'[i].req = s.seq + 1
        PROVE  commands'[i] = c
    BY <1>7, <1>8, <1>9, <2>1
  <2>2. \A r \in replies' : ~IsAnswer(r)'
    BY <1>3, <1>5, <1>9 DEF IsAnswer
  <2> QED
    BY <1>3, <1>5, <1>6, <2>1, <2>2 DEF ServedInv
<1>14. DoubtInv'
  <2> SUFFICES ASSUME NEW i \in 1..Len(commands')
               PROVE  /\ "grab" \notin ov /\ commands'[i].kind \in {"grab", "release"} =>
                           st \in GrabSteps /\ s.seq + 1 = commands'[i].req
                      /\ "map" \notin ov /\ commands'[i].kind \in {"map", "release"} =>
                           st \in UnmapSteps /\ s.seq + 1 = commands'[i].req
    BY <1>3, <1>5, <1>6 DEF DoubtInv
  <2>1. CASE i \in 1..n
    BY <1>7, <2>1 DEF None
  <2>2. CASE i = n + 1
    BY <1>3, <1>7, <1>10, <2>2
  <2> QED
    BY <1>8, <2>1, <2>2
<1>15. DaemonInv'
  BY DEF Newest, DaemonInv
<1>16. KeptInv'
  <2> SUFFICES ASSUME events = {}
               PROVE  KeptFor(y, commands', daemon)
    BY <1>4 DEF KeptInv
  <2>1. /\ c.kind = "release" => ~b.waiting /\ ~(b.grabbed /\ b.grab # NoSig)
        /\ c.kind = "map" => b.grabbed /\ b.grab # NoSig
        /\ KeptFor(b, commands, daemon)
    BY <1>10 DEF Ready
  <2>2. KeptFor(b, commands', daemon)
    BY <1>1, <1>3, <1>4, <2>1, KeptWritten
  <2> QED
    BY <1>2, <2>2 DEF KeptFor
<1>17. RefusedInv'
  <2> SUFFICES ASSUME events = {}, NEW r \in replies', NEW g \in DOMAIN tasks,
                      tasks'[g].step \in MappingSteps, tasks'[g].req = r.req,
                      r.answer # "ok", y.acked <= r.req
               PROVE  ~y.grabbed
    BY <1>4, <1>5 DEF RefusedInv
  <2>1. g # gen
    BY <1>3, <1>5, <1>9
  <2>2. r \in replies /\ tasks[g].step \in MappingSteps /\ tasks[g].req = r.req /\ b.acked <= r.req
    BY <1>2, <1>5, <2>1
  <2>3. RefusedFor(b)
    BY DEF Ready
  <2> QED
    BY <1>2, <2>1, <2>2, <2>3 DEF RefusedFor
<1>18. HeldInv'
  BY <1>2, <1>3, <1>4, <1>5, <1>6 DEF HeldInv, Ready
<1>19. AnsweredInv'
  BY <1>3, <1>5, <1>9 DEF AnsweredInv, IsAnswer
<1>20. GrabInv'
  <2> SUFFICES ASSUME events = {}, "grab" \notin ov, st \notin GrabSteps
               PROVE  GrabFor(y, commands', daemon) /\ GrabDone(y, t.res)
    BY <1>4, <1>6 DEF GrabInv
  <2>1. GrabFor(b, commands, daemon) /\ GrabDone(b, t.res)
    BY DEF Ready
  <2>2. ~b.grabbed => c.kind \notin {"map"}
    BY <1>10 DEF Ready
  <2>3. ~b.grabbed /\ daemon.grabbed => None(commands', {"map"})
    BY <1>1, <1>3, <1>4, <2>1, <2>2, NoneWritten DEF GrabFor
  <2> QED
    BY <1>2, <2>1, <2>3 DEF GrabFor, GrabDone
<1>21. MapInv'
  BY <1>2, <1>4, <1>6 DEF MapInv, Ready, MapFor, MapDone
<1> QED
  BY <1>11, <1>12, <1>13, <1>14, <1>15, <1>16, <1>17, <1>18, <1>19, <1>20, <1>21 DEF Newest

\* Either result, after an answer that met an empty socket or for a new apply.
LEMMA CallStep ==
    ASSUME Newest, gen \in DOMAIN tasks, NEW t \in Task, t.res = Resolve[context], NEW ov, NEW o,
           Call(o, t, ov), Take(gen, t, o), overtaken' = ov, replies' \subseteq replies,
           UNCHANGED <<context, gen, daemon, events>>,
           commands = <<>> \/ (Stage = "new" /\ ov = overtaken),
           Inv'
    PROVE  Newest'
<1>1. /\ "grab" \notin ov => None(commands, {"grab", "release"})
      /\ "map" \notin ov => None(commands, {"map", "release"})
  <2>1. CASE commands = <<>>
    <3>1. Len(commands) = 0
      BY <2>1
    <3> QED
      BY <3>1 DEF None
  <2>2. CASE Stage = "new" /\ ov = overtaken
    <3>1. Stage \notin GrabSteps /\ Stage \notin UnmapSteps
      BY <2>2 DEF GrabSteps, UnmapSteps, MappingSteps
    <3> QED
      BY <2>2, <3>1 DEF Newest, DoubtInv, None
  <2> QED
    BY <2>1, <2>2
<1>2. PICK b \in State :
        \/ o = Ended(b) /\ b.roll = t.res.roll /\ Ready(b, t, "ended", ov)
        \/ \E st \in Waits, sig \in Sig :
             /\ o = Await(b, KindAt(st), sig, st) /\ Ready(b, t, st, ov)
             /\ st \in {"grab", "regrab"} => sig = t.res.grab
             /\ st \in MappingSteps => sig = t.res.map
  BY DEF Call
<1>3. CASE o = Ended(b) /\ b.roll = t.res.roll /\ Ready(b, t, "ended", ov)
  <2>1. Take(gen, t, Ended(b))
    BY <1>3
  <2> QED
    BY <1>1, <1>3, <2>1, EndStep
<1>4. ASSUME NEW st \in Waits, NEW sig \in Sig,
             o = Await(b, KindAt(st), sig, st), Ready(b, t, st, ov),
             st \in {"grab", "regrab"} => sig = t.res.grab,
             st \in MappingSteps => sig = t.res.map
      PROVE  Newest'
  <2>1. Take(gen, t, Await(b, KindAt(st), sig, st))
    BY <1>4
  <2> QED
    BY <1>1, <1>4, <2>1, AwaitStep
<1> QED
  BY <1>2, <1>3, <1>4

\* A new apply starts.
LEMMA ReconcileNewest ==
    ASSUME Newest, NEW g, reconcile(g), Inv'
    PROVE  Newest'
<1> DEFINE t == [tasks[gen] EXCEPT !.res = Resolve[context], !.remap = s.map # Resolve[context].map]
           o == apply_resolved_device_profile(s, t)
<1>1. /\ g = gen /\ gen \in DOMAIN tasks /\ tasks[gen].step = "new" /\ tasks[gen] \in Task
      /\ context \in Contexts
  BY DEF Newest, Inv, Types, TaskInv, reconcile, MappingSteps
<1>2. /\ t \in Task /\ t.res = Resolve[context] /\ (t.remap <=> s.map # t.res.map)
  BY <1>1 DEF Task, Resolutions
<1>3. /\ Take(gen, t, o)
      /\ UNCHANGED <<context, gen, replies, daemon, events, overtaken>>
  BY <1>1 DEF reconcile
<1>4. Stage = "new"
  BY <1>1 DEF Stage
<1> HIDE DEF t, o
<1>5. Call(o, t, overtaken)
  BY <1>2, <1>4, ResolveCall DEF o
<1> QED
  BY <1>1, <1>2, <1>3, <1>4, <1>5, CallStep

\* The newest apply hears its answer.
LEMMA CurrentNewest ==
    ASSUME Newest, gen \in DOMAIN tasks, NEW r \in replies, r.req = tasks[gen].req,
           tasks[gen].step # "new", replies' = replies \ {r},
           Take(gen, tasks[gen], Answered(s, tasks[gen], r.answer)),
           overtaken' = DoubtsAfter(r),
           UNCHANGED <<context, gen, daemon, events>>, Inv'
    PROVE  Newest'
<1> DEFINE t == tasks[gen]
           o == Answered(s, t, r.answer)
<1>1. /\ t \in Task /\ s \in State /\ r.answer \in Answers /\ r.req = s.seq /\ r.req \in Nat
      /\ commands \in Seq(Command) /\ \A i \in 1..Len(commands) : commands[i].req \in Nat
  <2>1. commands \in Seq(Command)
    BY DEF Newest, Inv, Types
  <2>2. \A i \in 1..Len(commands) : commands[i].req \in Nat
    <3>1. \A i \in 1..Len(commands) : commands[i] \in Command
      BY <2>1
    <3> QED
      BY <3>1 DEF Command
  <2> QED
    BY <2>1, <2>2 DEF Newest, Inv, Types, TaskInv
<1>2. commands = <<>>
  <2>1. \A i \in 1..Len(commands) : commands[i].req <= s.seq /\ r.req < commands[i].req
    BY DEF Newest, Inv, QueueInv
  <2>2. ~(1 \in 1..Len(commands))
    BY <1>1, <2>1
  <2> QED
    BY <1>1, <2>2
<1>3. IsAnswer(r) /\ t.res = Resolve[context]
  <2>1. Stage \in Waits
    BY <1>1 DEF Stage, Waits, Task
  <2> QED
    BY <2>1 DEF IsAnswer, Newest, ResolvedInv
<1>4. Hears(r)
  BY <1>1, <1>2, <1>3 DEF Hears
<1>5. Call(o, t, DoubtsAfter(r))
  BY <1>4, AnsweredCall
<1>6. t \in Task /\ Take(gen, t, o) /\ replies' \subseteq replies
  BY <1>1
<1> HIDE DEF t, o
<1> QED
  BY <1>2, <1>3, <1>5, <1>6, CallStep

\* A superseded apply settles its mapping.
LEMMA SupersededNewest ==
    ASSUME Newest, NEW g \in DOMAIN tasks, g # gen, NEW r \in replies, r.req = tasks[g].req,
           replies' = replies \ {r},
           s' = SettleMapping(s, tasks[g], r.answer, FALSE),
           tasks' = [h \in DOMAIN tasks \ {g} |-> tasks[h]],
           UNCHANGED <<context, gen, commands, daemon, events, overtaken>>, Inv'
    PROVE  Newest'
<1>1. /\ s \in State /\ tasks[g] \in Task /\ r.answer \in Answers /\ tasks[g].step \in MappingSteps
      /\ s.acked \in Nat /\ r.req \in Nat
  BY DEF Newest, Inv, Types, TaskInv, State
<1>2. GivesUp(s', s, tasks[g], r.answer)
  BY <1>1, Settled
<1>3. /\ (gen \in DOMAIN tasks' <=> gen \in DOMAIN tasks)
      /\ \A h \in DOMAIN tasks' : h \in DOMAIN tasks /\ tasks'[h] = tasks[h]
  OBVIOUS
<1>4. Stage' = Stage /\ (Stage \in Waits => gen \in DOMAIN tasks /\ tasks'[gen] = tasks[gen])
  BY <1>3 DEF Stage, Waits, Steps
<1>5. Stage \in MappingSteps \cup {"regrab", "grab"} => Stage \in Waits
  BY DEF Waits, Steps, MappingSteps
<1>6. s'.seq = s.seq /\ s'.acked = s.acked /\ s'.roll = s.roll
  BY <1>2 DEF GivesUp
<1>7. \/ Agrees(s', s)
      \/ /\ ~s'.grabbed /\ ~s'.waiting /\ s'.retry = "armed" /\ s'.map = NoSig
         /\ events = {} => ~s.grabbed
  <2>1. ~(s.acked > tasks[g].req) /\ r.answer = "waiting" => s.acked <= r.req
    BY <1>1
  <2>2. ~(s.acked > tasks[g].req) /\ r.answer = "waiting" /\ events = {} => ~s.grabbed
    BY <1>1, <2>1 DEF Newest, RefusedInv
  <2> QED
    BY <1>2, <2>2 DEF GivesUp
<1>8. BeliefInv'
  BY <1>4, <1>6, <1>7 DEF Newest, BeliefInv, Agrees
<1>9. ResolvedInv'
  BY <1>4, <1>6 DEF Newest, ResolvedInv, Waits, Steps
<1>10. ServedInv' /\ DoubtInv' /\ AnsweredInv'
  <2>1. ServedInv'
    BY <1>4 DEF Newest, ServedInv, IsAnswer
  <2>2. DoubtInv'
    BY <1>4 DEF Newest, DoubtInv, GrabSteps, UnmapSteps, MappingSteps, Waits, Steps
  <2>3. AnsweredInv'
    BY <1>4, <1>7 DEF Newest, AnsweredInv, IsAnswer, Agrees
  <2> QED
    BY <2>1, <2>2, <2>3
<1>11. DaemonInv' /\ KeptInv'
  BY <1>7 DEF Newest, DaemonInv, KeptInv, KeptFor, Agrees
<1>12. RefusedInv'
  BY <1>3, <1>6, <1>7 DEF Newest, RefusedInv, Agrees
<1>13. HeldInv'
  BY <1>4, <1>5, <1>7 DEF Newest, HeldInv, Agrees
<1>14. GrabInv'
  BY <1>4, <1>7 DEF Newest, GrabInv, GrabFor, GrabDone, Agrees
<1>15. MapInv'
  BY <1>4, <1>7 DEF Newest, MapInv, MapFor, MapDone, Agrees
<1> QED
  BY <1>8, <1>9, <1>10, <1>11, <1>12, <1>13, <1>14, <1>15 DEF Newest

-----------------------------------------------------------------------------
(* The other steps. *)

\* A new generation begins: with what the session had, or without a grab.
LEMMA BeginNewest ==
    ASSUME Newest, NEW c \in Contexts, NEW st \in State, NEW F,
           begin(c, st, F), UNCHANGED <<commands, daemon>>, st.acked = s.acked, st.seq = s.seq,
           \/ /\ events' = events
              /\ st.grabbed = s.grabbed /\ st.waiting = s.waiting
              /\ st.grab = s.grab /\ st.map = s.map
           \/ /\ ~st.grabbed /\ ~st.waiting /\ st.map = NoSig
              /\ daemon.grabbed => F = {"grab", "map"},
           Inv'
    PROVE  Newest'
<1> DEFINE n == NewTask(c)
<1>1. /\ DOMAIN tasks \subseteq 1..gen /\ gen \in Nat /\ MaxGens \in Nat
      /\ s.seq \in Nat /\ s.acked \in Nat
  BY ProfileAssumption DEF Newest, Inv, Types, State
<1>2. /\ gen' = gen + 1 /\ context' = c /\ s' = st
      /\ tasks' = With(Cancel(tasks), gen + 1, n)
      /\ overtaken' = overtaken \cup F \cup
            (IF gen \in DOMAIN tasks THEN InDoubt(tasks[gen]) ELSE {})
      /\ replies' \subseteq replies
  BY DEF begin
<1>3. gen + 1 \notin DOMAIN tasks
  BY <1>1
<1>4. /\ DOMAIN Cancel(tasks) \subseteq DOMAIN tasks
      /\ \A g \in DOMAIN Cancel(tasks) :
           Cancel(tasks)[g].step = tasks[g].step /\ Cancel(tasks)[g].req = tasks[g].req
  <2>1. \A g \in DOMAIN tasks : tasks[g] \in Task
    BY DEF Newest, Inv, Types
  <2> QED
    BY <2>1 DEF Cancel, Task
<1>5. /\ gen' \in DOMAIN tasks' /\ tasks'[gen'] = n /\ n.step = "new"
      /\ \A g \in DOMAIN tasks' : g = gen' \/ ( /\ g \in DOMAIN tasks
                                              /\ tasks'[g].step = tasks[g].step
                                              /\ tasks'[g].req = tasks[g].req )
  BY <1>2, <1>3, <1>4 DEF With, NewTask
<1> HIDE DEF n
<1>6. Stage' = "new"
  BY <1>5 DEF Stage
<1>7. /\ Stage \in GrabSteps => "grab" \in overtaken'
      /\ Stage \in UnmapSteps => "map" \in overtaken'
  <2>1. Stage \in GrabSteps \cup UnmapSteps => gen \in DOMAIN tasks /\ Stage = tasks[gen].step
    BY DEF Stage, GrabSteps, UnmapSteps, MappingSteps
  <2>2. /\ gen \in DOMAIN tasks /\ tasks[gen].step \in GrabSteps => "grab" \in InDoubt(tasks[gen])
        /\ gen \in DOMAIN tasks /\ tasks[gen].step \in UnmapSteps => "map" \in InDoubt(tasks[gen])
    BY DEF InDoubt, GrabSteps, UnmapSteps, MappingSteps
  <2> QED
    BY <1>2, <2>1, <2>2
<1>8. overtaken \subseteq overtaken' /\ F \subseteq overtaken'
  BY <1>2
<1>9. BeliefInv'
  BY <1>1, <1>2, <1>6 DEF Newest, BeliefInv, Waits, Steps
<1>10. ResolvedInv' /\ ServedInv' /\ AnsweredInv' /\ HeldInv'
  BY <1>6 DEF ResolvedInv, ServedInv, AnsweredInv, HeldInv, IsAnswer, Waits, Steps, MappingSteps
<1>11. DoubtInv'
  BY <1>7, <1>8 DEF Newest, DoubtInv
<1>12. DaemonInv' /\ KeptInv'
  BY <1>2 DEF Newest, DaemonInv, KeptInv, KeptFor
<1>13. RefusedInv'
  <2>1. \A g \in DOMAIN tasks' : tasks'[g].step \in MappingSteps =>
          g \in DOMAIN tasks /\ tasks[g].step \in MappingSteps /\ tasks'[g].req = tasks[g].req
    BY <1>5 DEF MappingSteps
  <2> QED
    BY <1>2, <2>1 DEF Newest, RefusedInv
<1>14. GrabInv'
  <2> SUFFICES ASSUME events' = {}, "grab" \notin overtaken'
               PROVE  GrabFor(st, commands, daemon)
    BY <1>2, <1>6 DEF GrabInv
  <2>1. "grab" \notin overtaken /\ "grab" \notin F /\ Stage \notin GrabSteps
    BY <1>7, <1>8
  <2> QED
    BY <2>1 DEF Newest, GrabInv, GrabFor
<1>15. MapInv'
  <2> SUFFICES ASSUME events' = {}, "map" \notin overtaken'
               PROVE  MapFor(st, daemon)
    BY <1>2, <1>6 DEF MapInv
  <2>1. "map" \notin overtaken /\ Stage \notin UnmapSteps
    BY <1>7, <1>8
  <2> QED
    BY <2>1 DEF Newest, MapInv, MapFor
<1> QED
  BY <1>9, <1>10, <1>11, <1>12, <1>13, <1>14, <1>15 DEF Newest

\* A change of context, a retry, or an event of the daemon.
LEMMA SupersedeNewest ==
    ASSUME Newest, Inv',
           \/ \E c \in Contexts : ChangeContext(c)
           \/ Retry
           \/ \E e \in {"reset", "topology"} : HandleEvent(e)
    PROVE  Newest'
<1>1. s \in State /\ context \in Contexts
  BY DEF Newest, Inv, Types
<1>2. ASSUME NEW c \in Contexts, ChangeContext(c)
      PROVE  Newest'
  <2>1. begin(c, s, {}) /\ UNCHANGED <<commands, daemon>> /\ events' = events
    BY <1>2 DEF ChangeContext
  <2> QED
    BY <1>1, <2>1, BeginNewest
<1>3. CASE Retry
  <2> DEFINE st == [s EXCEPT !.retry = "running"]
  <2>1. /\ st \in State /\ st.acked = s.acked /\ st.seq = s.seq
        /\ st.grabbed = s.grabbed /\ st.waiting = s.waiting /\ st.grab = s.grab /\ st.map = s.map
    BY <1>1 DEF State
  <2>2. begin(context, st, {}) /\ UNCHANGED <<commands, daemon>> /\ events' = events
    BY <1>3 DEF Retry
  <2> HIDE DEF st
  <2> QED
    BY <1>1, <2>1, <2>2, BeginNewest
<1>4. ASSUME NEW e \in {"reset", "topology"}, HandleEvent(e)
      PROVE  Newest'
  <2> DEFINE st == invalidate_grabbed_state(s)
             F == IF daemon.grabbed THEN {"grab", "map"} ELSE {}
  <2>1. /\ st \in State /\ st.acked = s.acked /\ st.seq = s.seq
        /\ ~st.grabbed /\ ~st.waiting /\ st.map = NoSig
    <3>1. st \in State /\ st.seq = s.seq /\ st.map = NoSig
      BY <1>1, InvalidState
    <3>2. st.acked = s.acked /\ st.grabbed = FALSE /\ st.waiting = FALSE
      BY <1>1 DEF invalidate_grabbed_state, State
    <3> QED
      BY <3>1, <3>2
  <2>2. begin(context, st, F) /\ UNCHANGED <<commands, daemon>>
    BY <1>4 DEF HandleEvent
  <2>3. daemon.grabbed => F = {"grab", "map"}
    OBVIOUS
  <2> HIDE DEF st, F
  <2> QED
    BY <1>1, <2>1, <2>2, <2>3, BeginNewest
<1> QED
  BY <1>2, <1>3, <1>4

\* The session drops a retry that returned, or references.
LEMMA SessionNewest ==
    ASSUME Newest, RetryReturns \/ collect_retired, Inv'
    PROVE  Newest'
<1>1. s \in State
  BY DEF Newest, Inv, Types
<1>2. /\ UNCHANGED <<context, gen, tasks, commands, replies, daemon, events, overtaken>>
      /\ s'.grabbed = s.grabbed /\ s'.waiting = s.waiting /\ s'.grab = s.grab /\ s'.map = s.map
      /\ s'.acked = s.acked /\ s'.seq = s.seq /\ s'.roll = s.roll
      /\ s'.retry = "armed" => s.retry = "armed"
      /\ s.retry = "armed" => s'.retry = "armed"
  <2>1. CASE RetryReturns
    BY <1>1, <2>1 DEF RetryReturns, State
  <2>2. CASE collect_retired
    <3> DEFINE R == {r \in s.retired : r = daemon.ref}
    <3>1. /\ s' = [s EXCEPT !.retired = R]
          /\ UNCHANGED <<context, gen, tasks, commands, replies, daemon, events, overtaken>>
      BY <1>1, <2>2 DEF collect_retired, State
    <3> HIDE DEF R
    <3> QED
      BY <1>1, <3>1 DEF State
  <2> QED
    BY <2>1, <2>2
<1>3. Stage' = Stage
  BY <1>2 DEF Stage
<1>4. BeliefInv' /\ ResolvedInv'
  BY <1>2, <1>3 DEF Newest, BeliefInv, ResolvedInv
<1>5. ServedInv' /\ DoubtInv' /\ DaemonInv' /\ AnsweredInv'
  BY <1>2, <1>3 DEF Newest, ServedInv, DoubtInv, DaemonInv, AnsweredInv, IsAnswer
<1>6. KeptInv' /\ RefusedInv' /\ HeldInv'
  BY <1>2, <1>3 DEF Newest, KeptInv, KeptFor, RefusedInv, HeldInv
<1>7. GrabInv'
  BY <1>2, <1>3 DEF Newest, GrabInv, GrabFor, GrabDone
<1>8. MapInv'
  BY <1>2, <1>3 DEF Newest, MapInv, MapFor, MapDone
<1> QED
  BY <1>4, <1>5, <1>6, <1>7, <1>8 DEF Newest

\* A change of the daemon alone.
LEMMA DaemonNewest ==
    ASSUME Newest, UNCHANGED <<context, s, gen, tasks, commands, replies, overtaken>>,
           DaemonInv', events' = {} => KeptInv' /\ AnsweredInv' /\ events = {},
           events' = {} => (GrabFor(s, commands, daemon) => GrabFor(s, commands, daemon')),
           events' = {} => (MapFor(s, daemon) => MapFor(s, daemon')),
           Inv'
    PROVE  Newest'
<1>1. Stage' = Stage
  BY DEF Stage
<1>2. BeliefInv' /\ ResolvedInv' /\ ServedInv' /\ DoubtInv'
  BY <1>1 DEF Newest, BeliefInv, ResolvedInv, ServedInv, DoubtInv, IsAnswer
<1>3. KeptInv' /\ AnsweredInv'
  BY DEF KeptInv, AnsweredInv
<1>4. RefusedInv' /\ HeldInv'
  BY <1>1 DEF Newest, RefusedInv, HeldInv
<1>5. GrabInv'
  BY <1>1 DEF Newest, GrabInv
<1>6. MapInv'
  BY <1>1 DEF Newest, MapInv
<1> QED
  BY <1>2, <1>3, <1>4, <1>5, <1>6 DEF Newest

\* The grace period of a release ends.
LEMMA ReleaseNewest ==
    ASSUME Newest, delayed_hardware_release, Inv'
    PROVE  Newest'
<1>1. /\ UNCHANGED <<context, s, gen, tasks, commands, replies, events, overtaken>>
      /\ daemon.releasing /\ daemon \in Daemon
      /\ daemon' = [daemon EXCEPT !.grabbed = FALSE, !.desired = FALSE, !.grab = NoSig,
                                  !.map = NoSig, !.ref = 0, !.releasing = FALSE]
  BY DEF delayed_hardware_release, Newest, Inv, Types
<1>2. daemon'.grabbed = FALSE /\ daemon'.releasing = FALSE
  BY <1>1 DEF Daemon
<1>3. DaemonInv'
  BY <1>2 DEF DaemonInv
<1>4. ASSUME events = {}
      PROVE  KeptInv'
  <2>1. KeptFor(s, commands, daemon)
    BY <1>4 DEF Newest, KeptInv
  <2>2. /\ ~(s.grabbed /\ s.grab # NoSig) /\ ~s.waiting
        /\ s.grabbed => \A i \in 1..Len(commands) : commands[i].kind # "map"
    BY <1>1, <2>1 DEF KeptFor
  <2> QED
    BY <1>1, <2>2 DEF KeptInv, KeptFor
<1>5. ASSUME events = {}
      PROVE  AnsweredInv'
  <2>1. Stage' = Stage
    BY <1>1 DEF Stage
  <2> QED
    BY <1>1, <1>2, <1>5, <2>1 DEF Newest, AnsweredInv, IsAnswer
<1>6. GrabFor(s, commands, daemon) => GrabFor(s, commands, daemon')
  BY <1>1, <1>2 DEF GrabFor
<1>7. MapFor(s, daemon) => MapFor(s, daemon')
  BY <1>1, <1>2 DEF MapFor
<1> QED
  BY <1>1, <1>3, <1>4, <1>5, <1>6, <1>7, DaemonNewest

\* A reset, or a device that goes away or comes back: announced unless the
\* daemon did not want the device.
LEMMA TopologyNewest ==
    ASSUME Newest, emergency_reset \/ Unplug \/ Replug, Inv'
    PROVE  Newest'
<1>1. /\ UNCHANGED <<context, s, gen, tasks, commands, replies, overtaken>>
      /\ daemon \in Daemon
  BY DEF emergency_reset, Unplug, Replug, Newest, Inv, Types
<1>2. CASE events' # {} /\ DaemonInv'
  BY <1>1, <1>2, DaemonNewest
<1>3. CASE emergency_reset
  <2>1. events' # {} /\ daemon'.grabbed = FALSE
    BY <1>3 DEF emergency_reset, Reset, FreshDaemon
  <2> QED
    BY <1>2, <2>1 DEF DaemonInv
<1>4. CASE Unplug \/ Replug
  <2>1. \/ daemon' = [daemon EXCEPT !.present = FALSE, !.grabbed = FALSE]
        \/ daemon' = [daemon EXCEPT !.present = TRUE]
    BY <1>4 DEF Unplug, Replug
  <2>2. /\ daemon'.desired = daemon.desired /\ daemon'.releasing = daemon.releasing
        /\ daemon'.grab = daemon.grab /\ daemon'.map = daemon.map
        /\ daemon'.grabbed => daemon.grabbed /\ daemon'.present
    BY <1>1, <2>1 DEF Daemon
  <2>3. events' = events \cup Announced
    BY <1>4 DEF Unplug, Replug
  <2>4. DaemonInv'
    BY <2>2 DEF Newest, DaemonInv
  <2>5. CASE daemon.desired
    <3>1. events' # {}
      BY <2>3, <2>5 DEF Announced
    <3> QED
      BY <1>2, <2>4, <3>1
  <2>6. CASE ~daemon.desired
    <3>1. events' = events /\ ~daemon.grabbed /\ ~daemon'.grabbed
      BY <2>2, <2>3, <2>6 DEF Announced, Newest, DaemonInv
    <3>2. ASSUME events = {}
          PROVE  KeptInv'
      <4>1. KeptFor(s, commands, daemon)
        BY <3>2 DEF Newest, KeptInv
      <4>2. KeptFor(s, commands, daemon')
        BY <2>6, <3>1, <4>1 DEF KeptFor
      <4> QED
        BY <1>1, <4>2 DEF KeptInv
    <3>3. ASSUME events = {}
          PROVE  AnsweredInv'
      <4>1. Stage' = Stage
        BY <1>1 DEF Stage
      <4> QED
        BY <1>1, <2>2, <2>6, <3>1, <3>3, <4>1 DEF Newest, AnsweredInv, IsAnswer
    <3>4. GrabFor(s, commands, daemon) => GrabFor(s, commands, daemon')
      BY <2>2, <3>1 DEF GrabFor
    <3>5. MapFor(s, daemon) => MapFor(s, daemon')
      BY <2>2 DEF MapFor
    <3> QED
      BY <1>1, <2>4, <3>1, <3>2, <3>3, <3>4, <3>5, DaemonNewest
  <2> QED
    BY <2>5, <2>6
<1> QED
  BY <1>3, <1>4

\* A first apply, with nothing in the socket and no grab on either side.
Fresh ==
    /\ Inv /\ DOMAIN tasks = {gen} /\ tasks[gen].step = "new"
    /\ commands = <<>> /\ replies = {} /\ ~daemon.grabbed
    /\ ~s.grabbed /\ ~s.waiting /\ s.map = NoSig /\ s.acked <= s.seq

\* It satisfies the invariant.
LEMMA FreshNewest == Fresh => Newest
<1> SUFFICES ASSUME Fresh
             PROVE  Newest
  OBVIOUS
<1> USE DEF Fresh
<1>1. Stage = "new"
  BY DEF Stage
<1>2. Len(commands) = 0
  OBVIOUS
<1>3. BeliefInv /\ ResolvedInv /\ ServedInv /\ AnsweredInv /\ HeldInv
  BY <1>1, <1>2 DEF BeliefInv, ResolvedInv, ServedInv, AnsweredInv, HeldInv, IsAnswer,
                    Waits, Steps, MappingSteps
<1>4. DoubtInv /\ DaemonInv /\ RefusedInv
  BY <1>2 DEF DoubtInv, DaemonInv, RefusedInv
<1>5. KeptInv /\ GrabInv /\ MapInv
  BY <1>1, <1>2 DEF KeptInv, GrabInv, MapInv, KeptFor, GrabFor, MapFor, None
<1> QED
  BY <1>3, <1>4, <1>5 DEF Newest

\* What serving the command c with the answer a makes of the daemon: d.
Effect(c, a, d) ==
    /\ d.present = daemon.present
    /\ \/ /\ c.kind = "grab" /\ a = "ok" /\ daemon.present
          /\ d.grabbed /\ d.desired /\ ~d.releasing /\ d.grab = c.sig /\ d.map = daemon.map
       \/ /\ c.kind = "grab" /\ a = "waiting" /\ ~daemon.present
          /\ d.desired /\ ~d.releasing
          /\ d.grabbed = daemon.grabbed /\ d.grab = daemon.grab /\ d.map = daemon.map
       \/ /\ c.kind = "grab" /\ a \in {"busy", "late", "paused", "error"} /\ ~daemon.grabbed
          /\ d.grabbed => a = "late" /\ daemon.present /\ d.desired
          /\ (d.releasing => daemon.releasing) /\ (daemon.desired => d.desired)
          /\ d.map = daemon.map
       \/ /\ c.kind = "map" /\ a = "ok" /\ daemon.grabbed
          /\ d.grabbed /\ d.desired = daemon.desired /\ d.grab = daemon.grab
          /\ d.map = c.sig /\ ~d.releasing
       \/ /\ c.kind = "map" /\ a # "ok" /\ ~daemon.grabbed /\ ~d.releasing
          /\ d.grabbed = daemon.grabbed /\ d.desired = daemon.desired /\ d.grab = daemon.grab /\ d.map = daemon.map
       \/ /\ c.kind = "release" /\ a = "ok" /\ d.grabbed = daemon.grabbed
          /\ d.grabbed => d.desired = daemon.desired /\ d.releasing
       \/ /\ c.kind = "roll" /\ a = "ok"
          /\ d.grabbed = daemon.grabbed /\ d.desired = daemon.desired
          /\ d.releasing = daemon.releasing /\ d.grab = daemon.grab /\ d.map = daemon.map

\* The daemon serves a command.
LEMMA ServedEffect ==
    ASSUME Newest, Serve
    PROVE  /\ commands # <<>> /\ commands' = Tail(commands)
           /\ UNCHANGED <<context, s, gen, tasks, events, overtaken>>
           /\ \E a \in Answers :
                /\ replies' \subseteq replies \cup {[req |-> Head(commands).req, answer |-> a]}
                /\ Effect(Head(commands), a, daemon')
<1> DEFINE c == Head(commands)
           G(a) == /\ replies' \subseteq replies \cup {[req |-> c.req, answer |-> a]}
                   /\ Effect(c, a, daemon')
<1>1. /\ commands # <<>> /\ commands' = Tail(commands) /\ daemon \in Daemon
      /\ UNCHANGED <<context, s, gen, tasks, events, overtaken>>
      /\ \/ c.kind = "grab" /\ grab_device(c.sig, c.req)
         \/ c.kind = "map" /\ set_mapping(c.sig, c.req)
         \/ c.kind = "release" /\ schedule_hardware_release(c.req)
         \/ c.kind = "roll" /\ set_rollover_groups(c.sig, c.req)
  BY DEF Serve, Newest, Inv, Types
<1> HIDE DEF c
<1>2. ASSUME NEW a \in Answers, Reply(c.req, a), Effect(c, a, daemon')
      PROVE  \E x \in Answers : G(x)
  <2>1. replies' \subseteq replies \cup {[req |-> c.req, answer |-> a]}
    BY <1>2 DEF Reply
  <2> QED
    BY <1>2, <2>1
<1>3. /\ "ok" \in Answers /\ "waiting" \in Answers /\ "busy" \in Answers
      /\ "late" \in Answers /\ "paused" \in Answers /\ "error" \in Answers
  BY DEF Answers
<1> SUFFICES \E a \in Answers : G(a)
  BY <1>1 DEF G, c
<1> HIDE DEF G
<1>4. CASE c.kind = "grab" /\ grab_device(c.sig, c.req)
  <2>1. CASE /\ daemon.present
             /\ daemon' = [daemon EXCEPT !.grabbed = TRUE, !.desired = TRUE, !.grab = c.sig,
                                         !.releasing = FALSE]
             /\ ReplyOrLate(c.req, "ok")
    <3>1. Effect(c, "ok", daemon') /\ (~daemon.grabbed => Effect(c, "late", daemon'))
      BY <1>1, <1>4, <2>1 DEF Effect, Daemon
    <3> QED
      BY <1>2, <1>3, <2>1, <3>1 DEF ReplyOrLate
  <2>2. CASE /\ ~daemon.present
             /\ daemon' = [daemon EXCEPT !.desired = TRUE, !.releasing = FALSE]
             /\ ReplyOrLate(c.req, "waiting")
    <3>1. Effect(c, "waiting", daemon') /\ (~daemon.grabbed => Effect(c, "late", daemon'))
      BY <1>1, <1>4, <2>2 DEF Effect, Daemon
    <3> QED
      BY <1>2, <1>3, <2>2, <3>1 DEF ReplyOrLate
  <2>3. CASE /\ daemon.present /\ ~daemon.grabbed
             /\ daemon' = [daemon EXCEPT !.releasing = FALSE]
             /\ ReplyOrLate(c.req, "busy") \/ (Reply(c.req, "error") /\ Fails)
    <3>1. \A a \in {"busy", "late", "error"} : Effect(c, a, daemon')
      BY <1>1, <1>4, <2>3 DEF Effect, Daemon
    <3> QED
      BY <1>2, <1>3, <2>3, <3>1 DEF ReplyOrLate
  <2>4. CASE /\ daemon.present /\ ~daemon.grabbed
             /\ daemon' = [daemon EXCEPT !.desired = TRUE, !.releasing = FALSE]
             /\ Reply(c.req, "error")
    <3>1. Effect(c, "error", daemon')
      BY <1>1, <1>4, <2>4 DEF Effect, Daemon
    <3> QED
      BY <1>2, <1>3, <2>4, <3>1
  <2>5. CASE ~daemon.grabbed /\ daemon' = daemon /\ Reply(c.req, "paused")
    <3>1. Effect(c, "paused", daemon')
      BY <1>1, <1>4, <2>5 DEF Effect, Daemon
    <3> QED
      BY <1>2, <1>3, <2>5, <3>1
  <2> QED
    BY <1>4, <2>1, <2>2, <2>3, <2>4, <2>5 DEF grab_device
<1>5. CASE c.kind = "map" /\ set_mapping(c.sig, c.req)
  <2>1. CASE daemon.grabbed
    <3>1. /\ daemon' = [daemon EXCEPT !.map = c.sig, !.ref = c.req, !.releasing = FALSE]
          /\ Reply(c.req, "ok")
      BY <1>5, <2>1 DEF set_mapping
    <3>2. Effect(c, "ok", daemon')
      BY <1>1, <1>5, <2>1, <3>1 DEF Effect, Daemon
    <3> QED
      BY <1>2, <1>3, <3>1, <3>2
  <2>2. CASE ~daemon.grabbed
    <3>1. /\ daemon' = [daemon EXCEPT !.releasing = FALSE]
          /\ Reply(c.req, "waiting") \/ Reply(c.req, "error")
      BY <1>5, <2>2 DEF set_mapping
    <3>2. Effect(c, "waiting", daemon') /\ Effect(c, "error", daemon')
      BY <1>1, <1>5, <2>2, <3>1 DEF Effect, Daemon
    <3> QED
      BY <1>2, <1>3, <3>1, <3>2
  <2> QED
    BY <2>1, <2>2
<1>6. CASE c.kind = "release" /\ schedule_hardware_release(c.req)
  <2>1. Effect(c, "ok", daemon')
    BY <1>1, <1>6 DEF schedule_hardware_release, Effect, Daemon
  <2> QED
    BY <1>2, <1>3, <1>6, <2>1 DEF schedule_hardware_release
<1>7. CASE c.kind = "roll" /\ set_rollover_groups(c.sig, c.req)
  <2>1. Effect(c, "ok", daemon')
    BY <1>1, <1>7 DEF set_rollover_groups, Effect, Daemon
  <2> QED
    BY <1>2, <1>3, <1>7, <2>1 DEF set_rollover_groups
<1> QED
  BY <1>1, <1>4, <1>5, <1>6, <1>7

\* The commands that are left.
LEMMA NoneRead ==
    ASSUME NEW cmds \in Seq(Command), cmds # <<>>, NEW K, None(cmds, K)
    PROVE  Head(cmds).kind \notin K /\ None(Tail(cmds), K)
<1>1. /\ Head(cmds) = cmds[1] /\ Len(cmds) \in Nat \ {0} /\ Len(Tail(cmds)) = Len(cmds) - 1
      /\ \A i \in 1..Len(Tail(cmds)) : Tail(cmds)[i] = cmds[i + 1]
  BY Read
<1>2. 1 \in 1..Len(cmds) /\ \A i \in 1..Len(Tail(cmds)) : i + 1 \in 1..Len(cmds)
  BY <1>1
<1> QED
  BY <1>1, <1>2 DEF None

\* What the session keeps when the daemon serves a command.
LEMMA KeptServed ==
    ASSUME commands \in Seq(Command), commands # <<>>, DaemonInv, KeptFor(s, commands, daemon),
           NEW a, NEW d, Effect(Head(commands), a, d)
    PROVE  KeptFor(s, Tail(commands), d)
<1> DEFINE c == Head(commands)
           w == Tail(commands)
<1>1. /\ c = commands[1] /\ Len(commands) \in Nat \ {0} /\ Len(w) = Len(commands) - 1
      /\ \A i \in 1..Len(w) : w[i] = commands[i + 1]
  BY Read
<1>2. None(commands, {"release"}) => c.kind # "release" /\ None(w, {"release"})
  BY NoneRead
<1> HIDE DEF c, w
<1>3. 1 \in 1..Len(commands) /\ \A i \in 1..Len(w) : i + 1 \in 1..Len(commands)
  BY <1>1
<1>4. ASSUME s.grabbed, s.grab # NoSig
      PROVE  d.grabbed /\ ~d.releasing /\ None(w, {"release"})
  <2>1. daemon.grabbed /\ ~daemon.releasing /\ None(w, {"release"}) /\ c.kind # "release"
    BY <1>2, <1>4 DEF KeptFor
  <2>2. daemon.present
    BY <2>1 DEF DaemonInv
  <2> QED
    BY <2>1, <2>2 DEF Effect, c
<1>5. ASSUME s.waiting
      PROVE  d.desired /\ ~d.present /\ ~d.releasing /\ None(w, {"release"})
  <2>1. /\ daemon.desired /\ ~daemon.present /\ ~daemon.releasing
        /\ None(w, {"release"}) /\ c.kind # "release"
    BY <1>2, <1>5 DEF KeptFor
  <2>2. ~daemon.grabbed
    BY <2>1 DEF DaemonInv
  <2> QED
    BY <2>1, <2>2 DEF Effect, c
<1>6. ASSUME s.grabbed, NEW i \in 1..Len(w), w[i].kind = "map"
      PROVE  d.grabbed /\ ~d.releasing /\ \A j \in 1..i : w[j].kind # "release"
  <2>1. i + 1 \in 1..Len(commands) /\ commands[i + 1].kind = "map"
    BY <1>1, <1>3, <1>6
  <2>2. /\ daemon.grabbed /\ ~daemon.releasing
        /\ \A j \in 1..(i + 1) : commands[j].kind # "release"
    BY <1>6, <2>1 DEF KeptFor
  <2>3. 1 \in 1..(i + 1) /\ \A j \in 1..i : j + 1 \in 1..(i + 1) /\ j \in 1..Len(w)
    BY <1>1, <1>6
  <2>4. c.kind # "release" /\ \A j \in 1..i : w[j].kind # "release"
    BY <1>1, <2>2, <2>3
  <2>5. daemon.present
    BY <2>2 DEF DaemonInv
  <2> QED
    BY <2>2, <2>4, <2>5 DEF Effect, c
<1> QED
  BY <1>4, <1>5, <1>6 DEF KeptFor, w

\* The daemon serves a command.
LEMMA ServeNewest ==
    ASSUME Newest, Serve, Inv'
    PROVE  Newest'
<1> DEFINE c == Head(commands)
           n == Len(commands)
<1>1. /\ commands # <<>> /\ commands' = Tail(commands)
      /\ UNCHANGED <<context, s, gen, tasks, events, overtaken>>
  BY ServedEffect
<1>2. PICK a \in Answers :
        /\ replies' \subseteq replies \cup {[req |-> c.req, answer |-> a]}
        /\ Effect(c, a, daemon')
  BY ServedEffect
<1>3. commands \in Seq(Command)
  BY DEF Newest, Inv, Types
<1>4. /\ c = commands[1] /\ n \in Nat \ {0} /\ Len(commands') = n - 1 /\ c \in Command
      /\ \A i \in 1..Len(commands') : commands'[i] = commands[i + 1]
  BY <1>1, <1>3, Read
<1>5. 1 \in 1..n /\ \A i \in 1..Len(commands') : i + 1 \in 1..n
  BY <1>4
<1>6. \A K : None(commands, K) => c.kind \notin K /\ None(commands', K)
  BY <1>1, <1>3, NoneRead
<1>7. events = {} => KeptFor(s, commands', daemon')
  BY <1>1, <1>2, <1>3, KeptServed DEF Newest, KeptInv
<1> HIDE DEF c
<1>8. Stage' = Stage
  BY <1>1 DEF Stage
<1>9. /\ \A r \in replies : ~IsAnswer(r)
      /\ \A r \in replies' : r \in replies \/ (r.req = c.req /\ r.answer = a)
  <2>1. /\ c.req <= s.seq /\ c.req \in Nat /\ s.seq \in Nat
        /\ \A r \in replies : r.req \in 1..s.seq /\ r.req < c.req
    BY <1>4, <1>5 DEF Newest, Inv, QueueInv, Types, State, Command
  <2>2. Stage \in Waits => tasks[gen].req = s.seq
    BY DEF Stage, Waits, Steps, Newest, Inv, TaskInv
  <2> QED
    BY <1>2, <2>1, <2>2 DEF IsAnswer
<1>10. Stage \in Waits /\ c.req = tasks[gen].req =>
         /\ c.kind = KindAt(Stage)
         /\ Stage \in {"grab", "regrab"} => c.sig = tasks[gen].res.grab
         /\ Stage \in MappingSteps => c.sig = tasks[gen].res.map
  BY <1>4, <1>5 DEF Newest, ServedInv
<1>11. BeliefInv' /\ ResolvedInv' /\ HeldInv'
  BY <1>1, <1>8 DEF Newest, BeliefInv, ResolvedInv, HeldInv
<1>12. ServedInv'
  <2>1. \A i \in 1..Len(commands') : Stage \in Waits /\ commands'[i].req = tasks[gen].req =>
         /\ commands'[i].kind = KindAt(Stage)
         /\ Stage \in {"grab", "regrab"} => commands'[i].sig = tasks[gen].res.grab
         /\ Stage \in MappingSteps => commands'[i].sig = tasks[gen].res.map
    BY <1>4, <1>5 DEF Newest, ServedInv
  <2>2. ASSUME NEW r \in replies', Stage \in Waits, r.req = tasks[gen].req
        PROVE  Stage \in {"rollover", "release", "rerelease"} => r.answer = "ok"
    <3>1. r.req = c.req /\ r.answer = a
      BY <1>9, <2>2 DEF IsAnswer
    <3>2. Stage \in {"rollover", "release", "rerelease"} => c.kind \in {"roll", "release"}
      BY <1>10, <2>2, <3>1 DEF KindAt, MappingSteps
    <3>3. c.kind \in {"roll", "release"} => a = "ok"
      BY <1>2 DEF Effect
    <3> QED
      BY <3>1, <3>2, <3>3
  <2> QED
    BY <1>1, <1>8, <2>1, <2>2 DEF ServedInv, IsAnswer
<1>13. DoubtInv'
  BY <1>1, <1>4, <1>5, <1>8 DEF Newest, DoubtInv
<1>14. DaemonInv'
  <2>1. daemon.grabbed => daemon.desired /\ daemon.present
    BY DEF Newest, DaemonInv
  <2>2. daemon'.grabbed => daemon'.desired /\ daemon'.present
    BY <1>2, <2>1 DEF Effect
  <2> QED
    BY <2>2 DEF DaemonInv
<1>15. KeptInv'
  BY <1>1, <1>7 DEF KeptInv
<1>16. RefusedInv'
  <2> SUFFICES ASSUME events = {}, NEW r \in replies', NEW g \in DOMAIN tasks,
                      tasks[g].step \in MappingSteps, tasks[g].req = r.req, r.answer # "ok",
                      s.acked <= r.req
               PROVE  ~s.grabbed
    BY <1>1 DEF RefusedInv
  <2>1. CASE r \in replies
    BY <2>1 DEF Newest, RefusedInv
  <2>2. CASE r.req = c.req /\ r.answer = a
    <3>1. c.kind = "map"
      BY <1>4, <1>5, <2>2 DEF Newest, Inv, SentInv
    <3>2. ~daemon.grabbed
      BY <1>2, <2>2, <3>1 DEF Effect
    <3>3. s.grabbed => daemon.grabbed
      BY <1>4, <1>5, <3>1 DEF Newest, KeptInv, KeptFor
    <3> QED
      BY <3>2, <3>3
  <2> QED
    BY <1>9, <2>1, <2>2
<1>17. AnsweredInv'
  <2> SUFFICES ASSUME events = {}, NEW r \in replies', Stage \in Waits, r.req = tasks[gen].req
               PROVE  /\ Stage \in {"grab", "regrab"} =>
                           /\ r.answer = "ok" =>
                                /\ daemon'.grabbed /\ daemon'.grab = tasks[gen].res.grab
                                /\ ~daemon'.releasing
                           /\ r.answer = "waiting" =>
                                daemon'.desired /\ ~daemon'.present /\ ~daemon'.releasing
                           /\ r.answer \in {"busy", "error"} => ~daemon'.grabbed
                      /\ Stage = "regrab" /\ r.answer # "ok" => ~(s.grabbed /\ s.grab # NoSig)
                      /\ Stage \in {"release", "rerelease"} => ~daemon'.grabbed \/ daemon'.releasing
                      /\ Stage \in MappingSteps /\ r.answer = "ok" =>
                           daemon'.map = tasks[gen].res.map /\ ~daemon'.releasing
    BY <1>1, <1>8 DEF AnsweredInv, IsAnswer
  <2>1. r.req = c.req /\ r.answer = a
    BY <1>9 DEF IsAnswer
  <2>2. /\ Stage \in {"grab", "regrab"} => c.kind = "grab" /\ c.sig = tasks[gen].res.grab
        /\ Stage \in {"release", "rerelease"} => c.kind = "release"
        /\ Stage \in MappingSteps => c.kind = "map" /\ c.sig = tasks[gen].res.map
    BY <1>10, <2>1 DEF KindAt, MappingSteps
  <2>3. ASSUME c.kind = "grab"
        PROVE  /\ a = "ok" => daemon'.grabbed /\ daemon'.grab = c.sig /\ ~daemon'.releasing
               /\ a = "waiting" => daemon'.desired /\ ~daemon'.present /\ ~daemon'.releasing
               /\ a \in {"busy", "error"} => ~daemon'.grabbed
    BY <1>2, <2>3 DEF Effect
  <2>4. ASSUME c.kind = "release"
        PROVE  ~daemon'.grabbed \/ daemon'.releasing
    BY <1>2, <2>4 DEF Effect
  <2>5. ASSUME c.kind = "map", a = "ok"
        PROVE  daemon'.map = c.sig /\ ~daemon'.releasing
    BY <1>2, <2>5 DEF Effect
  <2>6. ASSUME c.kind = "grab", a # "ok"
        PROVE  ~(s.grabbed /\ s.grab # NoSig)
    <3>1. s.grabbed /\ s.grab # NoSig => daemon.grabbed
      BY DEF Newest, KeptInv, KeptFor
    <3>2. daemon.grabbed => daemon.present
      BY DEF Newest, DaemonInv
    <3> QED
      BY <1>2, <2>6, <3>1, <3>2 DEF Effect
  <2> QED
    BY <2>1, <2>2, <2>3, <2>4, <2>5, <2>6
<1>18. GrabInv'
  <2> SUFFICES ASSUME events = {}, "grab" \notin overtaken, Stage \notin GrabSteps
               PROVE  GrabFor(s, commands', daemon')
    BY <1>1, <1>8 DEF Newest, GrabInv
  <2>1. GrabFor(s, commands, daemon)
    BY DEF Newest, GrabInv
  <2>2. c.kind \notin {"grab", "release"}
    BY <1>4, <1>5 DEF Newest, DoubtInv
  <2>3. daemon'.grabbed = daemon.grabbed /\ daemon'.grab = daemon.grab
    BY <1>2, <2>2 DEF Effect
  <2>4. c.kind = "map" => ~daemon.grabbed \/ s.grabbed
    BY <1>6, <2>1 DEF GrabFor
  <2>5. \/ daemon'.releasing = daemon.releasing
        \/ ~daemon'.releasing /\ (s.grabbed \/ ~daemon'.grabbed)
    BY <1>2, <2>2, <2>4 DEF Effect
  <2>6. daemon.grabbed /\ ~s.grabbed => None(commands', {"map"})
    BY <1>6, <2>1 DEF GrabFor
  <2> QED
    BY <2>1, <2>3, <2>5, <2>6 DEF GrabFor
<1>19. MapInv'
  <2> SUFFICES ASSUME events = {}, "map" \notin overtaken, Stage \notin UnmapSteps
               PROVE  MapFor(s, daemon')
    BY <1>1, <1>8 DEF Newest, MapInv
  <2>1. MapFor(s, daemon)
    BY DEF Newest, MapInv
  <2>2. c.kind \notin {"map", "release"}
    BY <1>4, <1>5 DEF Newest, DoubtInv
  <2>3. daemon'.map = daemon.map /\ (daemon'.releasing => daemon.releasing)
    BY <1>2, <2>2 DEF Effect
  <2> QED
    BY <2>1, <2>3 DEF MapFor
<1> QED
  BY <1>11, <1>12, <1>13, <1>14, <1>15, <1>16, <1>17, <1>18, <1>19 DEF Newest

\* Any step.
LEMMA NextNewest ==
    ASSUME Newest, [Next]_vars
    PROVE  Newest'
<1>1. Inv'
  BY NextHolds DEF Newest
<1>2. ASSUME NEW g, Resume(g)
      PROVE  Newest'
  <2>1. PICK r \in replies :
          /\ g \in DOMAIN tasks /\ r.req = tasks[g].req /\ tasks[g].step # "new"
          /\ replies' = replies \ {r} /\ UNCHANGED <<context, gen, daemon, events>>
          /\ \/ /\ IsCurrent(g)
                /\ Take(g, tasks[g], Answered(s, tasks[g], r.answer))
                /\ overtaken' = (overtaken \ Confirms(tasks[g], r.answer))
                                  \cup GivenUp(tasks[g], r.answer)
             \/ /\ ~IsCurrent(g)
                /\ tasks[g].step \in MappingSteps =>
                     s' = SettleMapping(s, tasks[g], r.answer, g = gen)
                /\ tasks' = [h \in DOMAIN tasks \ {g} |-> tasks[h]]
                /\ UNCHANGED <<commands, overtaken>>
    BY <1>2 DEF Resume
  <2>2. CASE IsCurrent(g)
    <3>1. g = gen
      BY <2>2 DEF IsCurrent
    <3>2. overtaken' = DoubtsAfter(r)
      BY <2>1, <2>2, <3>1 DEF DoubtsAfter
    <3> QED
      BY <1>1, <2>1, <2>2, <3>1, <3>2, CurrentNewest
  <2>3. CASE ~IsCurrent(g)
    <3>1. g # gen /\ tasks[g].step \in MappingSteps
      BY <2>1, <2>3 DEF IsCurrent, Newest, Inv, TaskInv
    <3>2. (g = gen) = FALSE
      BY <3>1
    <3>3. s' = SettleMapping(s, tasks[g], r.answer, FALSE)
      BY <2>1, <2>3, <3>1, <3>2
    <3> QED
      BY <1>1, <2>1, <2>3, <3>1, <3>3, SupersededNewest
  <2> QED
    BY <2>2, <2>3
<1>3. CASE Reconnect
  <2>1. /\ DOMAIN tasks' = {gen'} /\ tasks'[gen'].step = "new"
        /\ commands' = <<>> /\ replies' = {} /\ daemon' = Reset
        /\ s' = [invalidate_grabbed_state(s) EXCEPT !.exec = {}]
    BY <1>3 DEF Reconnect, NewTask
  <2>2. s \in State /\ s.acked <= s.seq
    BY DEF Newest, Inv, Types, BeliefInv
  <2>3. /\ ~s'.grabbed /\ ~s'.waiting /\ s'.map = NoSig /\ s'.acked <= s'.seq
    <3> DEFINE b == invalidate_grabbed_state(s)
    <3>1. b.acked = s.acked /\ b.grabbed = FALSE /\ b.waiting = FALSE
      BY <2>2 DEF invalidate_grabbed_state, State
    <3>2. b \in State /\ b.seq = s.seq /\ b.map = NoSig
      BY <2>2, InvalidState
    <3>3. s' = [b EXCEPT !.exec = {}]
      BY <2>1
    <3> HIDE DEF b
    <3> QED
      BY <2>2, <3>1, <3>2, <3>3 DEF State
  <2>4. ~daemon'.grabbed
    BY <2>1 DEF Reset, FreshDaemon
  <2>5. Fresh'
    BY <1>1, <2>1, <2>3, <2>4 DEF Fresh
  <2>6. Fresh' => Newest'
    BY FreshNewest, PTL
  <2> QED
    BY <2>5, <2>6
<1>4. CASE UNCHANGED vars
  <2>1. /\ context' = context /\ s' = s /\ gen' = gen /\ tasks' = tasks /\ commands' = commands
        /\ replies' = replies /\ daemon' = daemon /\ events' = events /\ overtaken' = overtaken
    BY <1>4 DEF vars
  <2>2. DaemonInv' /\ KeptInv' /\ AnsweredInv'
    BY <2>1 DEF Newest, DaemonInv, KeptInv, AnsweredInv, IsAnswer, Stage
  <2> QED
    BY <1>1, <2>1, <2>2, DaemonNewest
<1> QED
  BY <1>1, <1>2, <1>3, <1>4, ReconcileNewest, SupersedeNewest, SessionNewest, ServeNewest,
     ReleaseNewest, TopologyNewest DEF Next

\* Once everything is quiet the daemon has what the newest context resolves to,
\* but for the parts that are known to be in doubt: whatever applies were
\* superseded at their awaits, and whatever the daemon refused or announced
\* meanwhile (apply_resolved_device_profile and the answers it awaits).
THEOREM NewestApplied == Spec => []AppliesNewest
<1>1. ASSUME Init
      PROVE  Newest
  <2>1. Inv
    BY <1>1, InitHolds
  <2>2. /\ tasks = [g \in {1} |-> NewTask(InitialContext)] /\ gen = 1
        /\ commands = <<>> /\ replies = {} /\ daemon = FreshDaemon
        /\ ~s.grabbed /\ ~s.waiting /\ s.map = NoSig /\ s.acked = 0 /\ s.seq = 0
    BY <1>1 DEF Init
  <2>3. /\ DOMAIN tasks = {gen} /\ tasks[gen].step = "new"
        /\ ~daemon.grabbed /\ s.acked <= s.seq
    BY <2>2 DEF NewTask, FreshDaemon
  <2> QED
    BY <2>1, <2>2, <2>3, FreshNewest DEF Fresh
<1>2. Newest /\ [Next]_vars => Newest'
  BY NextNewest
<1>3. Newest => AppliesNewest
  BY NewestSuffices
<1> QED
  BY <1>1, <1>2, <1>3, PTL DEF Spec
=============================================================================
