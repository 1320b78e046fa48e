------------------------------- MODULE Superkey -------------------------------
(***************************************************************************)
(* The pattern-mode SuperkeyMachine of one source key                      *)
(* (keymasqd/superkey_state.py): the gesture states, the hold timer, the   *)
(* double-tap timer, and the action lists the four slots run.              *)
(*                                                                         *)
(* on_down and on_up run inside the device's event pipeline, which waits   *)
(* for them; the two timers are tasks of their own.  They interleave where *)
(* a list suspends.  A list is a sequence of bursts: the outputs a run of  *)
(* actions presses without suspending.  Between two bursts the list awaits *)
(* an action that has a task of its own (exec, macro, MPRIS, ...), and a   *)
(* tap awaits its pulse after the last one.  The release of a macro is      *)
(* awaited too, so bursts are released one at a time, the last one first,  *)
(* and a list may wait before the first and after the last of them.  Lists *)
(* with a natural cursor move, which go through a lane of ActionSequences, *)
(* are not configured.                                                     *)
(***************************************************************************)
EXTENDS Naturals, Sequences, FiniteSets, Bags, SequencesExt

CONSTANTS
    Outputs,    \* output keys the slots press
    Configs,    \* super keys the mapping may assign: subset of Config
    MaxQueue,   \* bound on unprocessed source events
    MaxLate,    \* bound on hold lists that outlive their gesture, and on the bursts
                \* they press, cancelled taps have yet to release, or nobody releases
    Operations  \* subset of {"retire", "stop"}

Slots  == {"tap", "double_tap", "hold", "tap_hold"}
Config == [Slots -> Seq(SUBSET Outputs)]

ASSUME SuperkeyAssumption ==
    /\ Configs # {} /\ Configs \subseteq Config
    /\ MaxQueue \in Nat /\ MaxLate \in Nat
    /\ Operations \subseteq {"retire", "stop"}

VARIABLES
    physical,           \* the source key is down
    queue,              \* source events the pipeline has not read
    config,             \* of the machine in superkey_machines
    state,
    retiring,           \* a replaced mapping waits for the gesture to end
    _running,           \* FALSE while stop() releases what is held
    pipeline,           \* the tap list or the release of held actions the pipeline awaits
    _hold_task,
    _double_tap_task,
    strays,             \* hold tasks the machine no longer refers to
    _held_actions,      \* bursts a hold list has pressed
    orphaned,           \* the same of machines that were dropped
    late,               \* a hold list pressed something after its gesture had ended
    cut,                \* bursts that cancelled double-tap tasks have yet to release
    lost,               \* bursts of double-tap tasks that were cancelled while releasing
    pressed,            \* bag of outputs: the shared press counts
    fired               \* slots fired in the current gesture

machine   == <<config, state, retiring, _held_actions, orphaned, late>>
tasks     == <<pipeline, _hold_task, _double_tap_task, strays>>
cancelled == <<_running, cut, lost>>
vars      == <<physical, queue, machine, tasks, cancelled, pressed, fired>>

States == {"IDLE", "DOWN_WAIT", "HOLDING", "UP_WAIT", "DOWN_WAIT_2", "TAP_HOLDING"}

\* A task sleeps in its timer, has run the first `done' bursts of a list, or has all
\* but the first `done' of what it has run released; `owned' is FALSE when the machine
\* it belongs to is gone.  The pipeline may also release what is held.
NoTask        == [step |-> "none", list |-> <<>>, done |-> 0, owned |-> TRUE]
Timer         == [step |-> "timer", list |-> <<>>, done |-> 0, owned |-> TRUE]
Running(list) == [step |-> "list", list |-> list, done |-> 1, owned |-> TRUE]
Releasing     == [step |-> "held", list |-> <<>>, done |-> 0, owned |-> TRUE]
Task == [step : {"none", "timer", "list", "release", "held"}, list : Seq(SUBSET Outputs),
         done : Nat, owned : BOOLEAN]

TypeOK ==
    /\ physical \in BOOLEAN
    /\ queue \in Seq({0, 1})
    /\ config \in Configs
    /\ state \in States
    /\ retiring \in BOOLEAN
    /\ pipeline \in Task /\ _hold_task \in Task /\ _double_tap_task \in Task
    /\ strays \in Seq(Task)
    /\ _held_actions \in Seq(SUBSET Outputs) /\ orphaned \in Seq(SUBSET Outputs)
    /\ late \in BOOLEAN /\ _running \in BOOLEAN
    /\ cut \in Seq(SUBSET Outputs) /\ lost \in Seq(SUBSET Outputs)
    /\ IsABag(pressed) /\ BagToSet(pressed) \subseteq Outputs
    /\ fired \in Seq(Slots)

Init ==
    /\ physical = FALSE
    /\ queue = <<>>
    /\ config \in Configs
    /\ state = "IDLE"
    /\ retiring = FALSE
    /\ pipeline = NoTask /\ _hold_task = NoTask /\ _double_tap_task = NoTask
    /\ strays = <<>>
    /\ _held_actions = <<>> /\ orphaned = <<>>
    /\ late = FALSE /\ _running = TRUE
    /\ cut = <<>> /\ lost = <<>>
    /\ pressed = EmptyBag
    /\ fired = <<>>

-----------------------------------------------------------------------------
(* Helpers. *)

\* The outputs of a sequence of bursts, with multiplicity.
BagOfBursts(bursts) ==
    LET count(o) == Cardinality({i \in 1..Len(bursts) : o \in bursts[i]})
    IN  [o \in {o \in Outputs : count(o) > 0} |-> count(o)]

\* What a task has pressed and not released.
Executed(task) ==
    IF task.step \in {"list", "release"} THEN SubSeq(task.list, 1, task.done) ELSE <<>>
Finished(task) == task.done = Len(task.list)

\* A tap that has run its list waits for its pulse and then releases, the last burst
\* first.
Pulsing(task)     == task.step = "list" /\ Finished(task)
MayRelease(task)  == task.step = "release" /\ task.done > 0
AllReleased(task) == task.step = "release" /\ task.done = 0

\* What is held is released burst by burst, the last one first.
ReleaseLastHeld ==
    /\ _held_actions # <<>>
    /\ _held_actions' = Front(_held_actions)
    /\ pressed' = pressed (-) BagOfBursts(<<Last(_held_actions)>>)

\* A cancelled double-tap task that still runs its list releases what it has pressed,
\* and nobody refers to it any more; one that releases already is cancelled there, and
\* what is left of its list stays down.
CancelDoubleTap ==
    /\ _double_tap_task' = NoTask
    /\ cut' = IF _double_tap_task.step = "list" THEN cut \o Executed(_double_tap_task) ELSE cut
    /\ lost' = IF _double_tap_task.step = "release"
                 THEN lost \o Executed(_double_tap_task) ELSE lost

\* A timer task that is replaced or forgotten while it runs its list goes on.
Outliving(task) == IF task.step = "list" THEN <<task>> ELSE <<>>

\* The machine is dropped: its tasks that still run a list append to a list of
\* held actions nobody else refers to, and the next press builds a machine for the
\* mapping of that time.
DropMachine(held, running) ==
    /\ config' \in Configs
    /\ retiring' = FALSE
    /\ _held_actions' = <<>>
    /\ orphaned' = orphaned \o held
    /\ strays' = LET all == strays \o running
                 IN  [i \in 1..Len(all) |-> [all[i] EXCEPT !.owned = FALSE]]

\* _become_idle, with the actions that are still held and the hold task the caller
\* leaves behind: the gesture is over, and a retiring machine is dropped, unless a
\* reset is about to drop it.
BecomeIdle(held, task) ==
    /\ state' = "IDLE"
    /\ IF retiring /\ _running
         THEN DropMachine(held, Outliving(task)) /\ _hold_task' = NoTask
         ELSE /\ _held_actions' = held /\ _hold_task' = task
              /\ UNCHANGED <<config, retiring, strays, orphaned>>

-----------------------------------------------------------------------------
(* The source key and the pipeline. *)

SourceEvent(v) ==
    /\ physical = (v = 0)
    /\ Len(queue) < MaxQueue
    /\ Len(strays \o _held_actions \o orphaned \o cut \o lost) <= MaxLate
    /\ physical' = ~physical
    /\ queue' = Append(queue, v)
    /\ UNCHANGED <<machine, tasks, cancelled, pressed, fired>>

Read(v) ==
    /\ pipeline = NoTask
    /\ queue # <<>> /\ Head(queue) = v
    /\ queue' = Tail(queue)
    /\ UNCHANGED physical

\* A new hold timer replaces the task the machine refers to.
StartHoldTimer(wanted) ==
    /\ _hold_task' = IF wanted THEN Timer ELSE _hold_task
    /\ strays' = IF wanted THEN strays \o Outliving(_hold_task) ELSE strays

DownFirst ==
    /\ Read(1)
    /\ state = "IDLE"
    /\ state' = "DOWN_WAIT"
    /\ fired' = <<>>
    /\ StartHoldTimer(config["hold"] # <<>>)
    /\ UNCHANGED <<config, retiring, _held_actions, orphaned, late, pipeline, _double_tap_task,
                   cancelled, pressed>>

\* The second press cancels the double-tap task.
DownSecond ==
    /\ Read(1)
    /\ state = "UP_WAIT"
    /\ state' = "DOWN_WAIT_2"
    /\ CancelDoubleTap
    /\ StartHoldTimer(config["tap_hold"] # <<>> \/ config["hold"] # <<>>)
    /\ UNCHANGED <<config, retiring, _held_actions, orphaned, late, pipeline, _running, pressed,
                   fired>>

\* The tap list of a slot, awaited by the pipeline, which ends the gesture.
EmitInPipeline(slot) ==
    /\ pipeline' = Running(config[slot])
    /\ pressed' = pressed (+) BagOfBursts(<<Head(config[slot])>>)
    /\ fired' = Append(fired, slot)
    /\ _hold_task' = NoTask
    /\ UNCHANGED <<state, config, retiring, _held_actions, orphaned, strays>>

EndGesture ==
    /\ BecomeIdle(_held_actions, NoTask)
    /\ UNCHANGED <<pipeline, pressed, fired>>

\* The first release cancels the hold timer; it is a tap when it came within the
\* tap timeout.
UpFirst(is_tap) ==
    /\ Read(0)
    /\ state = "DOWN_WAIT"
    /\ IF is_tap /\ (config["double_tap"] # <<>> \/ config["tap_hold"] # <<>>)
         THEN /\ state' = "UP_WAIT"
              /\ _hold_task' = NoTask
              /\ _double_tap_task' = Timer
              /\ UNCHANGED <<config, retiring, _held_actions, orphaned, pipeline, strays,
                             pressed, fired>>
         ELSE /\ UNCHANGED _double_tap_task
              /\ IF is_tap /\ config["tap"] # <<>> THEN EmitInPipeline("tap") ELSE EndGesture
    /\ UNCHANGED <<late, cancelled>>

\* The second release: a double tap, or else the first tap after all.
UpSecond(is_tap) ==
    /\ Read(0)
    /\ state = "DOWN_WAIT_2"
    /\ IF is_tap /\ config["double_tap"] # <<>> THEN EmitInPipeline("double_tap")
       ELSE IF config["tap"] # <<>> THEN EmitInPipeline("tap") ELSE EndGesture
    /\ UNCHANGED <<_double_tap_task, late, cancelled>>

\* _on_hold_release and _on_tap_hold_release: the pipeline releases what is held.  The
\* hold task is left alone, also when it is still running its list.
UpHeld ==
    /\ Read(0)
    /\ state \in {"HOLDING", "TAP_HOLDING"}
    /\ pipeline' = Releasing
    /\ UNCHANGED <<machine, _hold_task, _double_tap_task, strays, cancelled, pressed, fired>>

\* Mutant of HeldRelease: what is left is forgotten with the first release.
HeldRelease_once ==
    /\ pipeline.step = "held"
    /\ _held_actions # <<>> /\ _held_actions' = <<>>
    /\ pressed' = pressed (-) BagOfBursts(<<Last(_held_actions)>>)
    /\ UNCHANGED <<physical, queue, config, state, retiring, orphaned, late, tasks, cancelled,
                   fired>>

\* The pipeline releases until nothing is held, what the hold task presses meanwhile
\* included,
HeldRelease ==
    /\ pipeline.step = "held"
    /\ ReleaseLastHeld
    /\ UNCHANGED <<physical, queue, config, state, retiring, orphaned, late, tasks, cancelled,
                   fired>>

\* and then the gesture is over.
HeldReleased ==
    /\ pipeline.step = "held" /\ _held_actions = <<>>
    /\ pipeline' = NoTask
    /\ BecomeIdle(<<>>, _hold_task)
    /\ UNCHANGED <<physical, queue, late, _double_tap_task, cancelled, pressed, fired>>

\* A press or release no state waits for.
Ignored ==
    /\ \/ Read(1) /\ state \notin {"IDLE", "UP_WAIT"}
       \/ Read(0) /\ state \in {"IDLE", "UP_WAIT"}
    /\ UNCHANGED <<machine, tasks, cancelled, pressed, fired>>

PipelineBurst ==
    /\ pipeline.step = "list" /\ ~Finished(pipeline)
    /\ pipeline' = [pipeline EXCEPT !.done = @ + 1]
    /\ pressed' = pressed (+) BagOfBursts(<<pipeline.list[pipeline.done + 1]>>)
    /\ UNCHANGED <<physical, queue, machine, _hold_task, _double_tap_task, strays, cancelled,
                   fired>>

\* The pulse is over:
PipelinePulseEnds ==
    /\ Pulsing(pipeline)
    /\ pipeline' = [pipeline EXCEPT !.step = "release"]
    /\ UNCHANGED <<physical, queue, machine, _hold_task, _double_tap_task, strays, cancelled,
                   pressed, fired>>

\* release in reverse order,
PipelineRelease ==
    /\ MayRelease(pipeline)
    /\ pipeline' = [pipeline EXCEPT !.done = @ - 1]
    /\ pressed' = pressed (-) BagOfBursts(<<pipeline.list[pipeline.done]>>)
    /\ UNCHANGED <<physical, queue, machine, _hold_task, _double_tap_task, strays, cancelled,
                   fired>>

\* and end the gesture.
PipelineTapEnds ==
    /\ AllReleased(pipeline)
    /\ pipeline' = NoTask
    /\ BecomeIdle(_held_actions, _hold_task)
    /\ UNCHANGED <<physical, queue, late, _double_tap_task, cancelled, pressed, fired>>

-----------------------------------------------------------------------------
(* The hold timer, and the list its task runs. *)

\* The slot a hold that lasts long enough starts, by the state the timer finds.
HeldSlot ==
    IF state = "DOWN_WAIT_2" /\ config["tap_hold"] # <<>> THEN "tap_hold" ELSE "hold"

\* Mutant of StartHolding: the state still says that the press awaits its meaning.
StartHolding_keeps_state(slot) ==
    /\ UNCHANGED state
    /\ _hold_task' = IF Len(config[slot]) = 1 THEN NoTask ELSE Running(config[slot])
    /\ _held_actions' = Append(_held_actions, Head(config[slot]))
    /\ pressed' = pressed (+) BagOfBursts(<<Head(config[slot])>>)
    /\ fired' = Append(fired, slot)

StartHolding(slot) ==
    /\ state' = IF slot = "tap_hold" THEN "TAP_HOLDING" ELSE "HOLDING"
    /\ _hold_task' = IF Len(config[slot]) = 1 THEN NoTask ELSE Running(config[slot])
    /\ _held_actions' = Append(_held_actions, Head(config[slot]))
    /\ pressed' = pressed (+) BagOfBursts(<<Head(config[slot])>>)
    /\ fired' = Append(fired, slot)

\* After a second press without a Hold and without a Tap + Hold list nothing waits;
\* with a Tap + Hold list only, HeldSlot is that one.  A machine that is stopped starts
\* nothing.
_hold_timeout ==
    /\ _hold_task = Timer
    /\ IF _running /\ state \in {"DOWN_WAIT", "DOWN_WAIT_2"}
         THEN StartHolding(HeldSlot)
         ELSE _hold_task' = NoTask /\ UNCHANGED <<state, _held_actions, pressed, fired>>
    /\ UNCHANGED <<physical, queue, config, retiring, orphaned, late, pipeline,
                   _double_tap_task, strays, cancelled>>

NextBurst(task) == task.list[task.done + 1]
AfterBurst(task) ==
    IF task.done + 1 = Len(task.list) THEN NoTask ELSE [task EXCEPT !.done = @ + 1]

\* The hold task presses its next burst, whatever the gesture has become.
HoldBurst ==
    /\ _hold_task.step = "list"
    /\ _hold_task' = AfterBurst(_hold_task)
    /\ _held_actions' = Append(_held_actions, NextBurst(_hold_task))
    /\ pressed' = pressed (+) BagOfBursts(<<NextBurst(_hold_task)>>)
    /\ late' = (late \/ state \notin {"HOLDING", "TAP_HOLDING"})
    /\ UNCHANGED <<physical, queue, config, state, retiring, orphaned, pipeline,
                   _double_tap_task, strays, cancelled, fired>>

\* So does a hold task the machine no longer refers to.
StrayBurst ==
    \E i \in 1..Len(strays) :
        LET task == strays[i]
            held == <<NextBurst(task)>>
        IN  /\ strays' = IF AfterBurst(task) = NoTask THEN RemoveAt(strays, i)
                                                      ELSE [strays EXCEPT ![i] = AfterBurst(@)]
            /\ _held_actions' = IF task.owned THEN _held_actions \o held ELSE _held_actions
            /\ orphaned' = IF task.owned THEN orphaned ELSE orphaned \o held
            /\ pressed' = pressed (+) BagOfBursts(held)
            /\ late' = TRUE
            /\ UNCHANGED <<physical, queue, config, state, retiring, pipeline, _hold_task,
                           _double_tap_task, cancelled, fired>>

-----------------------------------------------------------------------------
(* The double-tap timer. *)

\* Mutant of _double_tap_timeout: the tap that waited for a second press is dropped
\* and the machine waits on.
_double_tap_timeout_forgets ==
    /\ _double_tap_task = Timer
    /\ _double_tap_task' = NoTask
    /\ UNCHANGED <<physical, queue, machine, pipeline, _hold_task, strays, cancelled, pressed,
                   fired>>

\* No second press came: the tap fires from the timer's task.  The state stays
\* UP_WAIT until the pulse is over.
_double_tap_timeout ==
    /\ _double_tap_task = Timer
    /\ IF _running /\ state = "UP_WAIT" /\ config["tap"] # <<>>
         THEN /\ _double_tap_task' = Running(config["tap"])
              /\ pressed' = pressed (+) BagOfBursts(<<Head(config["tap"])>>)
              /\ fired' = Append(fired, "tap")
         ELSE _double_tap_task' = NoTask /\ UNCHANGED <<pressed, fired>>
    /\ IF _running /\ state = "UP_WAIT" /\ config["tap"] = <<>>
         THEN BecomeIdle(_held_actions, _hold_task)
         ELSE UNCHANGED <<state, config, retiring, _held_actions, orphaned, _hold_task, strays>>
    /\ UNCHANGED <<physical, queue, late, pipeline, cancelled>>

DoubleTapBurst ==
    /\ _double_tap_task.step = "list" /\ ~Finished(_double_tap_task)
    /\ _double_tap_task' = [_double_tap_task EXCEPT !.done = @ + 1]
    /\ pressed' = pressed (+) BagOfBursts(<<NextBurst(_double_tap_task)>>)
    /\ UNCHANGED <<physical, queue, machine, pipeline, _hold_task, strays, cancelled, fired>>

DoubleTapPulseEnds ==
    /\ Pulsing(_double_tap_task)
    /\ _double_tap_task' = [_double_tap_task EXCEPT !.step = "release"]
    /\ UNCHANGED <<physical, queue, machine, pipeline, _hold_task, strays, cancelled, pressed,
                   fired>>

DoubleTapRelease ==
    /\ MayRelease(_double_tap_task)
    /\ _double_tap_task' = [_double_tap_task EXCEPT !.done = @ - 1]
    /\ pressed' = pressed (-) BagOfBursts(<<_double_tap_task.list[_double_tap_task.done]>>)
    /\ UNCHANGED <<physical, queue, machine, pipeline, _hold_task, strays, cancelled, fired>>

DoubleTapEnds ==
    /\ AllReleased(_double_tap_task)
    /\ _double_tap_task' = NoTask
    /\ BecomeIdle(_held_actions, _hold_task)
    /\ UNCHANGED <<physical, queue, late, pipeline, cancelled, pressed, fired>>

\* A double-tap task that was cancelled in its list releases what it pressed and ends
\* nothing; several such tasks may be at it.
CutRelease ==
    \E i \in 1..Len(cut) :
        /\ cut' = RemoveAt(cut, i)
        /\ pressed' = pressed (-) BagOfBursts(<<cut[i]>>)
        /\ UNCHANGED <<physical, queue, machine, tasks, _running, lost, fired>>

-----------------------------------------------------------------------------
(* Mapping changes and resets. *)

\* retire_when_idle, for a mapping that was replaced.
Retire ==
    /\ "retire" \in Operations
    /\ IF state = "IDLE" /\ _running
         THEN DropMachine(_held_actions, Outliving(_hold_task)) /\ _hold_task' = NoTask
         ELSE /\ retiring' = TRUE
              /\ UNCHANGED <<config, _held_actions, orphaned, _hold_task, strays>>
    /\ UNCHANGED <<physical, queue, state, late, pipeline, _double_tap_task, cancelled, pressed,
                   fired>>

\* Mutant of Stop: a tap that is cut off does not release its keys.
Stop_cuts_tap_short ==
    /\ "stop" \in Operations /\ _running
    /\ _running' = FALSE
    /\ _hold_task' = NoTask
    /\ _double_tap_task' = NoTask
    /\ UNCHANGED <<physical, queue, machine, pipeline, strays, cut, lost, pressed, fired>>

\* stop, for a reset: both tasks are cancelled and timers that expire start nothing.
\* A list that the pipeline awaits, or that no task of the machine runs, goes on.
Stop ==
    /\ "stop" \in Operations /\ _running
    /\ _running' = FALSE
    /\ _hold_task' = NoTask
    /\ CancelDoubleTap
    /\ UNCHANGED <<physical, queue, machine, pipeline, strays, pressed, fired>>

\* What is held is released, while the pipeline goes on,
StopRelease ==
    /\ ~_running
    /\ ReleaseLastHeld
    /\ UNCHANGED <<physical, queue, config, state, retiring, orphaned, late, tasks, cancelled,
                   fired>>

\* and then the machine is dropped, with the timers it was given meanwhile.
StopEnds ==
    /\ ~_running /\ _held_actions = <<>>
    /\ _running' = TRUE
    /\ state' = "IDLE"
    /\ _hold_task' = NoTask /\ _double_tap_task' = NoTask
    /\ DropMachine(<<>>, <<>>)
    /\ UNCHANGED <<physical, queue, late, pipeline, cut, lost, pressed, fired>>

-----------------------------------------------------------------------------
SourceKey == \E v \in {0, 1} : SourceEvent(v)

Pipeline ==
    \/ DownFirst \/ DownSecond
    \/ \E is_tap \in BOOLEAN : UpFirst(is_tap) \/ UpSecond(is_tap)
    \/ UpHeld \/ HeldRelease \/ HeldReleased \/ Ignored
    \/ PipelineBurst \/ PipelinePulseEnds \/ PipelineRelease \/ PipelineTapEnds

HoldTask      == _hold_timeout \/ HoldBurst
DoubleTapTask ==
    \/ _double_tap_timeout \/ DoubleTapBurst
    \/ DoubleTapPulseEnds \/ DoubleTapRelease \/ DoubleTapEnds

Reset == StopRelease \/ StopEnds

Next ==
    \/ SourceKey \/ Pipeline \/ HoldTask \/ StrayBurst \/ DoubleTapTask \/ CutRelease
    \/ Retire \/ Stop \/ Reset

Spec == Init /\ [][Next]_vars

\* The pipeline reads what is queued, timers expire, and the actions a list awaits
\* end.  The user and the mapping owe nothing.
FairSpec ==
    /\ Spec
    /\ WF_vars(Pipeline)
    /\ WF_vars(HoldTask)
    /\ WF_vars(StrayBurst)
    /\ WF_vars(DoubleTapTask)
    /\ WF_vars(CutRelease)
    /\ WF_vars(Reset)

-----------------------------------------------------------------------------
(* Properties. *)

\* Every press that is counted is owed a release by somebody: by the list of held
\* actions of this or of a dropped machine, by a tap that is under way or was cut off;
\* or it was lost, because its tap was cancelled a second time, while it was releasing.
\* No interleaving of second press, timers, retirement and reset releases an output
\* twice or forgets one in another way.
PressedIsAccounted ==
    pressed = BagOfBursts(_held_actions \o orphaned \o Executed(pipeline)
                            \o Executed(_double_tap_task) \o cut \o lost)

\* A machine that is idle, with nothing under way in the pipeline, holds nothing down
\* but what a tap that was cut off is about to release and what was lost, unless a
\* hold list went on pressing after its gesture had ended.
IdleReleased ==
    state = "IDLE" /\ pipeline = NoTask /\ ~late => pressed = BagOfBursts(cut \o lost)

\* Once Hold or Tap + Hold activates, that held gesture wins: only a tap that
\* fired while its window ran out is ever followed by another slot.
HoldIsFinal == \A i \in 1..Len(fired) - 1 : fired[i] = "tap"

\* Once the key rests, the gesture comes to an end: the machine is idle, a replaced
\* one is dropped or being reset, and nothing is held down but what was lost, unless
\* a hold list pressed it late.
GestureEnds ==
    <>[](~physical) =>
        <>[](/\ state = "IDLE" /\ (retiring => ~_running)
             /\ late \/ pressed = BagOfBursts(lost))
=============================================================================
