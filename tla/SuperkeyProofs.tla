--------------------------- MODULE SuperkeyProofs ---------------------------
(***************************************************************************)
(* Proofs about the super key machine, for every set of outputs, every     *)
(* configuration of the four slots and every bound on late presses:        *)
(*                                                                         *)
(*   EveryPressIsOwed  every counted press is owed exactly one release or  *)
(*                     was lost with a tap cancelled while it released     *)
(*   IdleHoldsNothing  an idle machine holds nothing down but what was cut *)
(*                     off or lost, unless a hold list pressed it late     *)
(*   HeldGestureWins   no slot fires after Hold, Tap + Hold or Double tap  *)
(*                                                                         *)
(* The accounting compares the shared press counts with the bursts output  *)
(* by output: the bag of a sequence of bursts is what Count says of each.  *)
(***************************************************************************)
EXTENDS Superkey, FiniteSetTheorems, SequenceTheorems, TLAPS

\* How often the bursts press o.
Count(bursts, o) == Cardinality({i \in 1..Len(bursts) : o \in bursts[i]})

Bursts == Seq(SUBSET Outputs)

\* How far a list may be run: a tap may have run all of it and await its pulse, and
\* may have released all of it; a hold list is forgotten after its last burst.
TapTask(task) ==
    /\ task.step = "list" => task.done \in 1..Len(task.list)
    /\ task.step = "release" => task.done \in 0..Len(task.list)
HoldList(task) ==
    task.step = "list" => task.done \in 1..(Len(task.list) - 1)

TaskInv ==
    /\ pipeline.step # "timer" /\ TapTask(pipeline) /\ TapTask(_double_tap_task)
    /\ pipeline.step = "none" => pipeline = NoTask
    /\ _double_tap_task.step = "none" => _double_tap_task = NoTask
    /\ HoldList(_hold_task)
    /\ \A i \in 1..Len(strays) : strays[i].step = "list" /\ HoldList(strays[i])

\* Which tasks a state allows.
StateInv ==
    /\ _double_tap_task.step # "none" => state = "UP_WAIT"
    /\ pipeline.step \in {"list", "release"} =>
         state \in {"DOWN_WAIT", "DOWN_WAIT_2", "IDLE"} /\ _hold_task.step # "timer"
    /\ pipeline.step = "held" =>
         state \in {"HOLDING", "TAP_HOLDING", "IDLE"} /\ _hold_task.step # "timer"
    /\ _hold_task.step = "timer" =>
         state \in {"DOWN_WAIT", "DOWN_WAIT_2"} /\ config[HeldSlot] # <<>>
    /\ ~_running => _double_tap_task.step \in {"none", "timer"}

\* Before any late press, only a held gesture has held actions.
HeldInv ==
    ~late =>
        /\ orphaned = <<>>
        /\ state \notin {"HOLDING", "TAP_HOLDING"} => _held_actions = <<>>

\* While the gesture is open only taps have fired.
FiredInv ==
    /\ HoldIsFinal
    /\ state \in {"DOWN_WAIT", "UP_WAIT", "DOWN_WAIT_2"} /\ pipeline.step = "none" =>
         \A i \in 1..Len(fired) : fired[i] = "tap"

\* Output by output, the presses counted are those somebody has to release, or that
\* cancelled taps left behind.
Cancelled(o) == Count(cut, o) + Count(lost, o)
Owed(o) ==
    Count(_held_actions, o) + Count(orphaned, o)
      + Count(Executed(pipeline), o) + Count(Executed(_double_tap_task), o) + Cancelled(o)
Copies(o, bag) == IF o \in DOMAIN bag THEN bag[o] ELSE 0
AccountInv == \A o \in Outputs : Copies(o, pressed) = Owed(o)

Inv == TypeOK /\ TaskInv /\ StateInv /\ HeldInv /\ FiredInv /\ AccountInv
-----------------------------------------------------------------------------
(* Counting presses. *)

\* A list presses an output a finite number of times.
LEMMA CountIsNat ==
    ASSUME NEW b \in Bursts, NEW o
    PROVE  /\ IsFiniteSet({i \in 1..Len(b) : o \in b[i]})
           /\ Count(b, o) \in Nat
<1>1. Len(b) \in Nat
  BY DEF Bursts
<1>2. IsFiniteSet(1..Len(b))
  BY <1>1, FS_Interval
<1>3. IsFiniteSet({i \in 1..Len(b) : o \in b[i]})
  BY <1>2, FS_Subset
<1> QED
  BY <1>3, FS_CardinalityType DEF Count

\* The empty list presses nothing.
LEMMA CountEmpty ==
    ASSUME NEW o
    PROVE  Count(<<>>, o) = 0
<1>1. {i \in 1..Len(<<>>) : o \in <<>>[i]} = {}
  OBVIOUS
<1> QED
  BY <1>1, FS_EmptySet DEF Count

\* The bursts of two lists, one after the other.
LEMMA CountConcat ==
    ASSUME NEW s \in Bursts, NEW t \in Bursts, NEW o
    PROVE  s \o t \in Bursts /\ Count(s \o t, o) = Count(s, o) + Count(t, o)
<1> DEFINE n == Len(s)
           S == {i \in 1..Len(s) : o \in s[i]}
           T == {i \in 1..Len(t) : o \in t[i]}
           U == {i \in 1..Len(s \o t) : o \in (s \o t)[i]}
           V == {i \in U : i > n}
           f == [i \in T |-> i + n]
<1>1. /\ n \in Nat /\ Len(t) \in Nat /\ s \o t \in Bursts /\ Len(s \o t) = n + Len(t)
      /\ \A i \in 1..n : (s \o t)[i] = s[i]
      /\ \A i \in 1..Len(t) : (s \o t)[n + i] = t[i]
  BY DEF Bursts
<1>2. IsFiniteSet(S) /\ IsFiniteSet(T) /\ IsFiniteSet(U)
  BY <1>1, CountIsNat
<1>3. IsFiniteSet(V)
  BY <1>2, FS_Subset
<1>4. U = S \cup V /\ S \cap V = {}
  BY <1>1
<1>5. Cardinality(V) = Cardinality(T)
  <2>1. \A i \in T : i + n \in V
    BY <1>1
  <2>2. \A j \in V : j - n \in T /\ (j - n) + n = j
    BY <1>1
  <2>3. \A i, j \in T : i + n = j + n => i = j
    BY <1>1
  <2>4. f \in Bijection(T, V)
    <3>1. f \in [T -> V]
      BY <2>1
    <3>2. \A i, j \in T : f[i] = f[j] => i = j
      BY <2>3
    <3>3. \A j \in V : \E i \in T : f[i] = j
      BY <2>2
    <3> QED
      BY <3>1, <3>2, <3>3 DEF Bijection, Injection, Surjection, IsInjective
  <2>5. ExistsBijection(T, V)
    BY <2>4 DEF ExistsBijection
  <2> HIDE DEF T, V
  <2> QED
    BY <1>2, <2>5, FS_Bijection
<1>6. /\ Cardinality(U) = Cardinality(S) + Cardinality(V) - Cardinality(S \cap V)
      /\ Cardinality(S) \in Nat /\ Cardinality(V) \in Nat
  <2> HIDE DEF S, V, U
  <2> QED
    BY <1>2, <1>3, <1>4, FS_Union, FS_CardinalityType
<1>7. Cardinality(S \cap V) = 0
  <2> HIDE DEF S, V
  <2> QED
    BY <1>4, FS_EmptySet
<1>8. Cardinality(U) = Cardinality(S) + Cardinality(T)
  <2> HIDE DEF S, T, V, U
  <2> QED
    BY <1>5, <1>6, <1>7
<1> QED
  BY <1>1, <1>8 DEF Count

\* A list as far as it has been run, with one more burst, and to its end.
LEMMA CountStep ==
    ASSUME NEW list \in Bursts, NEW d \in Nat, d + 1 <= Len(list), NEW o
    PROVE  /\ SubSeq(list, 1, d) \in Bursts /\ <<list[d + 1]>> \in Bursts
           /\ Count(SubSeq(list, 1, d + 1), o)
                = Count(SubSeq(list, 1, d), o) + Count(<<list[d + 1]>>, o)
<1>1. SubSeq(list, 1, d) \in Bursts /\ <<list[d + 1]>> \in Bursts
  BY DEF Bursts
<1>2. SubSeq(list, 1, d + 1) = SubSeq(list, 1, d) \o <<list[d + 1]>>
  BY DEF Bursts
<1> DEFINE a == SubSeq(list, 1, d)
           b == <<list[d + 1]>>
<1> HIDE DEF a, b
<1>3. Count(a \o b, o) = Count(a, o) + Count(b, o)
  BY <1>1, CountConcat DEF a, b
<1> QED
  BY <1>1, <1>2, <1>3 DEF a, b

\* A list run to its end is the list.
LEMMA WholeList ==
    ASSUME NEW list \in Bursts
    PROVE  SubSeq(list, 1, Len(list)) = list
BY DEF Bursts

\* A list that is not empty has a first burst.
LEMMA FirstBurst ==
    ASSUME NEW list \in Bursts, list # <<>>
    PROVE  /\ SubSeq(list, 1, 1) = <<Head(list)>> /\ <<Head(list)>> \in Bursts
           /\ Len(list) \in Nat /\ Len(list) >= 1
<1>1. /\ list \in Seq(SUBSET Outputs) /\ Len(list) \in Nat /\ Len(list) >= 1
      /\ Head(list) = list[1] /\ list[1] \in SUBSET Outputs
  BY DEF Bursts
<1>2. <<list[1]>> \in Bursts
  BY <1>1 DEF Bursts
<1>3. SubSeq(list, 1, 1) = <<list[1]>>
  <2> DEFINE u == SubSeq(list, 1, 1)
             v == <<list[1]>>
  <2>1. u \in Seq(SUBSET Outputs) /\ Len(u) = 1 /\ u[1] = list[1]
    BY <1>1
  <2>2. v \in Seq(SUBSET Outputs) /\ Len(v) = 1 /\ v[1] = list[1]
    BY <1>1
  <2> HIDE DEF u, v
  <2>3. u = v
    BY <2>1, <2>2, SeqEqual
  <2> QED
    BY <2>3 DEF u, v
<1> QED
  BY <1>1, <1>2, <1>3
-----------------------------------------------------------------------------
(* The bag of bursts. *)

\* pressed is a bag of outputs.
Presses(bag) == IsABag(bag) /\ BagToSet(bag) \subseteq Outputs

\* The bag of a list has as many of an output as the list presses.
LEMMA BagOfBurstsFacts ==
    ASSUME NEW b \in Bursts
    PROVE  /\ Presses(BagOfBursts(b))
           /\ \A o \in Outputs : Copies(o, BagOfBursts(b)) = Count(b, o)
<1> DEFINE B == BagOfBursts(b)
<1>1. /\ B = [o \in {x \in Outputs : Count(b, x) > 0} |-> Count(b, o)]
      /\ DOMAIN B = {o \in Outputs : Count(b, o) > 0}
      /\ \A o \in DOMAIN B : B[o] = Count(b, o)
  BY DEF BagOfBursts, Count
<1>2. \A o \in Outputs : Count(b, o) \in Nat
  BY CountIsNat
<1>3. Presses(B)
  BY <1>1, <1>2 DEF Presses, IsABag, BagToSet
<1> HIDE DEF B
<1>4. \A o \in Outputs : Copies(o, B) = Count(b, o)
  BY <1>1, <1>2 DEF Copies
<1> QED
  BY <1>3, <1>4 DEF B

\* A bag is what it has of every output.
LEMMA SameBag ==
    ASSUME NEW A, NEW B, Presses(A), Presses(B),
           \A o \in Outputs : Copies(o, A) = Copies(o, B)
    PROVE  A = B
<1>1. /\ A \in [DOMAIN A -> {n \in Nat : n > 0}] /\ DOMAIN A \subseteq Outputs
      /\ B \in [DOMAIN B -> {n \in Nat : n > 0}] /\ DOMAIN B \subseteq Outputs
  BY DEF Presses, IsABag, BagToSet
<1>2. \A o \in Outputs : (o \in DOMAIN A <=> o \in DOMAIN B) /\ (o \in DOMAIN A => A[o] = B[o])
  BY <1>1 DEF Copies
<1>3. DOMAIN A = DOMAIN B
  BY <1>1, <1>2
<1> QED
  BY <1>1, <1>2, <1>3

\* Pressing a list adds its presses.
LEMMA Pressed ==
    ASSUME NEW A, Presses(A), NEW b \in Bursts
    PROVE  /\ Presses(A (+) BagOfBursts(b))
           /\ \A o \in Outputs :
                /\ Copies(o, A (+) BagOfBursts(b)) = Copies(o, A) + Count(b, o)
                /\ Copies(o, A) \in Nat
<1> DEFINE B == BagOfBursts(b)
           C == A (+) B
<1>1. Presses(B) /\ \A o \in Outputs : Copies(o, B) = Count(b, o)
  BY BagOfBurstsFacts
<1> HIDE DEF B
<1>2. /\ A \in [DOMAIN A -> {n \in Nat : n > 0}] /\ DOMAIN A \subseteq Outputs
      /\ B \in [DOMAIN B -> {n \in Nat : n > 0}] /\ DOMAIN B \subseteq Outputs
  BY <1>1 DEF Presses, IsABag, BagToSet
<1>3. /\ C = [e \in DOMAIN A \cup DOMAIN B |-> (IF e \in DOMAIN A THEN A[e] ELSE 0)
                                                 + (IF e \in DOMAIN B THEN B[e] ELSE 0)]
      /\ DOMAIN C = DOMAIN A \cup DOMAIN B
      /\ \A o \in DOMAIN C : C[o] = (IF o \in DOMAIN A THEN A[o] ELSE 0)
                                      + (IF o \in DOMAIN B THEN B[o] ELSE 0)
  BY DEF (+)
<1>4. \A o \in DOMAIN C : C[o] \in Nat /\ C[o] > 0
  BY <1>2, <1>3
<1>5. Presses(C)
  BY <1>2, <1>3, <1>4 DEF Presses, IsABag, BagToSet
<1> HIDE DEF C
<1>6. \A o \in Outputs : Copies(o, C) = Copies(o, A) + Copies(o, B) /\ Copies(o, A) \in Nat
  BY <1>2, <1>3 DEF Copies
<1> QED
  BY <1>1, <1>5, <1>6 DEF B, C

\* Releasing a list that is held takes its presses away.
LEMMA Released ==
    ASSUME NEW A, Presses(A), NEW b \in Bursts,
           \A o \in Outputs : Count(b, o) <= Copies(o, A)
    PROVE  /\ Presses(A (-) BagOfBursts(b))
           /\ \A o \in Outputs :
                Copies(o, A (-) BagOfBursts(b)) = Copies(o, A) - Count(b, o)
<1> DEFINE B == BagOfBursts(b)
           C == A (-) B
           left(e) == IF e \in DOMAIN B THEN A[e] - B[e] ELSE A[e]
<1>1. Presses(B) /\ \A o \in Outputs : Copies(o, B) = Count(b, o)
  BY BagOfBurstsFacts
<1> HIDE DEF B
<1>2. /\ A \in [DOMAIN A -> {n \in Nat : n > 0}] /\ DOMAIN A \subseteq Outputs
      /\ B \in [DOMAIN B -> {n \in Nat : n > 0}] /\ DOMAIN B \subseteq Outputs
  BY <1>1 DEF Presses, IsABag, BagToSet
<1>3. /\ C = [e \in {x \in DOMAIN A : left(x) > 0} |-> left(e)]
      /\ DOMAIN C = {e \in DOMAIN A : left(e) > 0}
      /\ \A e \in DOMAIN C : C[e] = left(e)
  BY DEF (-)
<1>4. \A e \in DOMAIN C : C[e] \in Nat /\ C[e] > 0
  BY <1>2, <1>3
<1>5. Presses(C)
  BY <1>2, <1>3, <1>4 DEF Presses, IsABag, BagToSet
<1> HIDE DEF C
<1>6. \A o \in Outputs : Copies(o, B) <= Copies(o, A)
  BY <1>1
<1>7. \A o \in Outputs : Copies(o, C) = Copies(o, A) - Copies(o, B)
  BY <1>2, <1>3, <1>6 DEF Copies
<1> QED
  BY <1>1, <1>5, <1>7 DEF B, C
-----------------------------------------------------------------------------
(* Tasks and the lists they run. *)

GoodStrays(q) ==
    q \in Seq(Task) /\ \A i \in 1..Len(q) : q[i].step = "list" /\ HoldList(q[i])

\* What a slot runs is a list of bursts.
LEMMA ListFacts ==
    ASSUME config \in Configs, NEW slot \in Slots
    PROVE  config[slot] \in Bursts
BY SuperkeyAssumption DEF Config, Bursts

\* A task that sleeps or is absent has run nothing.
LEMMA TaskFacts ==
    /\ NoTask \in Task /\ NoTask.step = "none" /\ HoldList(NoTask) /\ TapTask(NoTask)
    /\ Timer \in Task /\ Timer.step = "timer" /\ HoldList(Timer) /\ TapTask(Timer)
    /\ Executed(NoTask) = <<>> /\ Executed(Timer) = <<>>
    /\ Outliving(NoTask) = <<>>
BY DEF NoTask, Timer, Task, HoldList, TapTask, Executed, Outliving

\* A list of several bursts is not over after the first.
LEMMA FirstOfMore ==
    ASSUME NEW n \in Nat, n >= 1, n # 1
    PROVE  1 \in 1..(n - 1)
OBVIOUS

\* A list that is started has run its first burst.
LEMMA RunningFacts ==
    ASSUME NEW list \in Bursts, list # <<>>
    PROVE  /\ Running(list) \in Task /\ Running(list).step = "list" /\ TapTask(Running(list))
           /\ Running(list).list = list /\ Running(list).done = 1
           /\ Executed(Running(list)) = <<Head(list)>>
           /\ Len(list) # 1 => HoldList(Running(list))
<1>1. /\ SubSeq(list, 1, 1) = <<Head(list)>> /\ Len(list) \in Nat /\ Len(list) >= 1
  BY FirstBurst
<1>2. /\ Running(list) \in Task /\ Running(list).step = "list"
      /\ Running(list).list = list /\ Running(list).done = 1
  BY DEF Running, Task, Bursts
<1>3. TapTask(Running(list))
  BY <1>1, <1>2 DEF TapTask
<1>4. Executed(Running(list)) = <<Head(list)>>
  BY <1>1, <1>2 DEF Executed
<1>5. ASSUME Len(list) # 1
      PROVE  HoldList(Running(list))
  <2>0. Len(list) \in Nat /\ Len(list) >= 1
    BY <1>1
  <2>1. 1 \in 1..(Len(list) - 1)
    BY <2>0, <1>5, FirstOfMore
  <2> QED
    BY <1>2, <2>1 DEF HoldList
<1> QED
  BY <1>2, <1>3, <1>4, <1>5

\* The task goes on by one burst.
LEMMA BurstFacts ==
    ASSUME NEW task \in Task, task.step = "list", task.done \in Nat,
           task.done + 1 <= Len(task.list)
    PROVE  LET next == [task EXCEPT !.done = @ + 1]
           IN /\ next \in Task /\ next.step = "list" /\ next.list = task.list
              /\ next.done = task.done + 1 /\ TapTask(next)
              /\ Executed(next) \in Bursts /\ Executed(task) \in Bursts
              /\ <<task.list[task.done + 1]>> \in Bursts
              /\ \A o \in Outputs : Count(Executed(next), o)
                   = Count(Executed(task), o) + Count(<<task.list[task.done + 1]>>, o)
<1> DEFINE next == [task EXCEPT !.done = @ + 1]
<1>1. /\ next \in Task /\ next.step = "list" /\ next.list = task.list
      /\ next.done = task.done + 1 /\ task.list \in Bursts
  BY DEF Task, Bursts
<1> HIDE DEF next
<1>2. Len(task.list) \in Nat
  BY <1>1 DEF Bursts
<1>3. TapTask(next)
  BY <1>1, <1>2 DEF TapTask
<1>4. /\ Executed(next) = SubSeq(task.list, 1, task.done + 1)
      /\ Executed(task) = SubSeq(task.list, 1, task.done)
  BY <1>1 DEF Executed
<1>5. Executed(next) \in Bursts
  BY <1>1, <1>2, <1>4 DEF Bursts
<1>6. /\ Executed(task) \in Bursts /\ <<task.list[task.done + 1]>> \in Bursts
      /\ \A o \in Outputs : Count(Executed(next), o)
           = Count(Executed(task), o) + Count(<<task.list[task.done + 1]>>, o)
  <2> DEFINE l == task.list
             d == task.done
  <2>1. l \in Bursts /\ d \in Nat /\ d + 1 <= Len(l)
    BY <1>1
  <2> HIDE DEF l, d
  <2>2. \A o : /\ SubSeq(l, 1, d) \in Bursts /\ <<l[d + 1]>> \in Bursts
               /\ Count(SubSeq(l, 1, d + 1), o)
                    = Count(SubSeq(l, 1, d), o) + Count(<<l[d + 1]>>, o)
    BY <2>1, CountStep
  <2> QED
    BY <1>4, <2>2 DEF l, d
<1> QED
  BY <1>1, <1>3, <1>5, <1>6 DEF next

\* What a task has pressed and not released.
LEMMA ExecutedFacts ==
    ASSUME NEW task \in Task, TapTask(task)
    PROVE  Executed(task) \in Bursts /\ task.list \in Bursts
<1>1. task.list \in Bursts /\ Len(task.list) \in Nat
  BY DEF Task, Bursts
<1>2. CASE task.step \notin {"list", "release"}
  BY <1>1, <1>2 DEF Executed, Bursts
<1>3. CASE task.step \in {"list", "release"}
  <2>1. task.done \in 0..Len(task.list) /\ Executed(task) = SubSeq(task.list, 1, task.done)
    BY <1>1, <1>3 DEF TapTask, Executed
  <2>2. Executed(task) \in Bursts
    BY <1>1, <2>1 DEF Bursts
  <2> QED
    BY <1>1, <2>2
<1> QED
  BY <1>2, <1>3

\* The end of the pulse releases nothing yet.
LEMMA PulseFacts ==
    ASSUME NEW task \in Task, TapTask(task), Pulsing(task)
    PROVE  LET next == [task EXCEPT !.step = "release"]
           IN  next \in Task /\ next.step = "release" /\ TapTask(next)
                 /\ Executed(next) = Executed(task)
<1> DEFINE next == [task EXCEPT !.step = "release"]
<1>1. /\ next \in Task /\ next.step = "release" /\ next.list = task.list
      /\ next.done = task.done
  BY DEF Task
<1>2. /\ task.step = "list" /\ task.done \in 1..Len(task.list) /\ Len(task.list) \in Nat
  BY DEF Pulsing, TapTask, Task
<1> HIDE DEF next
<1>3. TapTask(next)
  BY <1>1, <1>2 DEF TapTask
<1>4. Executed(next) = Executed(task)
  BY <1>1, <1>2 DEF Executed
<1> QED
  BY <1>1, <1>3, <1>4 DEF next

\* A tap releases its last burst.
LEMMA ReleaseFacts ==
    ASSUME NEW task \in Task, TapTask(task), MayRelease(task)
    PROVE  LET next == [task EXCEPT !.done = @ - 1]
           IN /\ next \in Task /\ next.step = "release" /\ TapTask(next)
              /\ Executed(next) \in Bursts /\ <<task.list[task.done]>> \in Bursts
              /\ \A o \in Outputs : Count(Executed(task), o)
                   = Count(Executed(next), o) + Count(<<task.list[task.done]>>, o)
<1> DEFINE next == [task EXCEPT !.done = @ - 1]
           l == task.list
<1>1. /\ task.step = "release" /\ task.done \in 0..Len(l) /\ task.done # 0
      /\ l \in Bursts /\ Len(l) \in Nat
  BY DEF MayRelease, TapTask, Task, Bursts
<1>2. PICK d \in Nat : task.done = d + 1 /\ d + 1 <= Len(l)
  <2>1. task.done - 1 \in Nat /\ task.done = (task.done - 1) + 1
    BY <1>1
  <2> QED
    BY <1>1, <2>1
<1>3. /\ next \in Task /\ next.step = "release" /\ next.list = l /\ next.done = d
  BY <1>1, <1>2 DEF Task
<1> HIDE DEF next, l
<1>4. TapTask(next)
  BY <1>1, <1>2, <1>3 DEF TapTask
<1>5. Executed(next) = SubSeq(l, 1, d) /\ Executed(task) = SubSeq(l, 1, d + 1)
  BY <1>1, <1>2, <1>3 DEF Executed, l
<1>6. \A o : /\ SubSeq(l, 1, d) \in Bursts /\ <<l[d + 1]>> \in Bursts
             /\ Count(SubSeq(l, 1, d + 1), o)
                  = Count(SubSeq(l, 1, d), o) + Count(<<l[d + 1]>>, o)
  BY <1>1, <1>2, CountStep
<1>7. <<task.list[task.done]>> = <<l[d + 1]>>
  BY <1>2 DEF l
<1> QED
  BY <1>3, <1>4, <1>5, <1>6, <1>7 DEF next

\* A tap that has released all of it owes nothing.
LEMMA NothingLeft ==
    ASSUME NEW task \in Task, task.done = 0
    PROVE  Executed(task) = <<>>
<1>1. task.list \in Seq(SUBSET Outputs) /\ SubSeq(task.list, 1, 0) = <<>>
  BY DEF Task
<1> QED
  BY <1>1 DEF Executed

\* The last burst of a sequence may be taken off,
LEMMA LastOff ==
    ASSUME NEW s \in Bursts, s # <<>>
    PROVE  /\ Front(s) \in Bursts /\ <<Last(s)>> \in Bursts
           /\ \A o : Count(s, o) = Count(Front(s), o) + Count(<<Last(s)>>, o)
<1>1. /\ s \in Seq(SUBSET Outputs) /\ Len(s) \in Nat /\ Len(s) # 0
  BY DEF Bursts
<1>2. PICK d \in Nat : Len(s) = d + 1
  <2>1. Len(s) - 1 \in Nat /\ Len(s) = (Len(s) - 1) + 1
    BY <1>1
  <2> QED
    BY <2>1
<1>3. Front(s) = SubSeq(s, 1, d) /\ Last(s) = s[d + 1]
  BY <1>2 DEF Front, Last
<1>4. SubSeq(s, 1, d + 1) = s
  BY <1>2, WholeList
<1>5. \A o : /\ SubSeq(s, 1, d) \in Bursts /\ <<s[d + 1]>> \in Bursts
             /\ Count(SubSeq(s, 1, d + 1), o)
                  = Count(SubSeq(s, 1, d), o) + Count(<<s[d + 1]>>, o)
  BY <1>2, CountStep
<1> QED
  BY <1>3, <1>4, <1>5

\* (where two sequences meet)
LEMMA ConcatAt ==
    ASSUME NEW a \in Seq(SUBSET Outputs), NEW b \in Seq(SUBSET Outputs)
    PROVE  /\ a \o b \in Seq(SUBSET Outputs) /\ Len(a \o b) = Len(a) + Len(b)
           /\ \A j \in 1..Len(a) : (a \o b)[j] = a[j]
           /\ \A j \in 1..Len(b) : (a \o b)[Len(a) + j] = b[j]
OBVIOUS

\* and so may any other.
LEMMA OneOff ==
    ASSUME NEW s \in Bursts, NEW i \in 1..Len(s)
    PROVE  /\ RemoveAt(s, i) \in Bursts /\ <<s[i]>> \in Bursts
           /\ \A o : Count(s, o) = Count(RemoveAt(s, i), o) + Count(<<s[i]>>, o)
<1> DEFINE a == SubSeq(s, 1, i)
           b == SubSeq(s, i + 1, Len(s))
<1>1. s \in Seq(SUBSET Outputs) /\ Len(s) \in Nat
  BY DEF Bursts
<1>2. PICK d \in Nat : i = d + 1 /\ d + 1 <= Len(s)
  <2>1. i - 1 \in Nat /\ i = (i - 1) + 1
    OBVIOUS
  <2> QED
    BY <1>1, <2>1
<1>3. a \in Bursts /\ b \in Bursts /\ s = a \o b
  <2>1. /\ a \in Seq(SUBSET Outputs) /\ Len(a) = i /\ \A j \in 1..i : a[j] = s[j]
        /\ b \in Seq(SUBSET Outputs) /\ Len(b) = Len(s) - i
        /\ \A j \in 1..(Len(s) - i) : b[j] = s[i + j]
    BY <1>1
  <2> HIDE DEF a, b
  <2>2. /\ a \o b \in Seq(SUBSET Outputs) /\ Len(a \o b) = Len(s)
        /\ \A j \in 1..Len(s) : (a \o b)[j] = s[j]
    <3>1. /\ a \o b \in Seq(SUBSET Outputs) /\ Len(a \o b) = Len(s)
          /\ \A j \in 1..i : (a \o b)[j] = a[j]
          /\ \A j \in 1..(Len(s) - i) : (a \o b)[i + j] = b[j]
      <4>1. /\ a \o b \in Seq(SUBSET Outputs) /\ Len(a \o b) = Len(a) + Len(b)
            /\ \A j \in 1..Len(a) : (a \o b)[j] = a[j]
            /\ \A j \in 1..Len(b) : (a \o b)[Len(a) + j] = b[j]
        BY <2>1, ConcatAt
      <4>2. i \in Nat /\ Len(s) \in Nat /\ Len(a) + Len(b) = Len(s)
        BY <1>1, <2>1
      <4> QED
        BY <2>1, <4>1, <4>2
    <3>2. \A j \in 1..Len(s) : j \notin 1..i => j - i \in 1..(Len(s) - i) /\ i + (j - i) = j
      BY <1>1
    <3>3. ASSUME NEW j \in 1..Len(s), j \notin 1..i
          PROVE  (a \o b)[j] = s[j]
      <4>1. PICK k \in 1..(Len(s) - i) : i + k = j
        BY <3>2, <3>3
      <4> QED
        BY <2>1, <3>1, <4>1
    <3> QED
      BY <2>1, <3>1, <3>3
  <2> DEFINE u == a \o b
  <2> HIDE DEF u
  <2>3. u = s
    BY <1>1, <2>2, SeqEqual DEF u
  <2> QED
    BY <2>1, <2>3 DEF u, Bursts
<1> HIDE DEF b
<1>4. RemoveAt(s, i) = SubSeq(s, 1, d) \o b
  <2>1. i - 1 = d
    BY <1>2
  <2> QED
    BY <2>1 DEF RemoveAt, b
<1>5. \A o : /\ SubSeq(s, 1, d) \in Bursts /\ <<s[d + 1]>> \in Bursts
             /\ Count(SubSeq(s, 1, d + 1), o)
                  = Count(SubSeq(s, 1, d), o) + Count(<<s[d + 1]>>, o)
  BY <1>2, CountStep
<1> DEFINE c == SubSeq(s, 1, d)
<1>6. a = SubSeq(s, 1, d + 1)
  BY <1>2
<1> HIDE DEF a, c
<1>7. c \in Bursts /\ c \o b \in Bursts
  BY <1>3, <1>5, CountConcat DEF c
<1>8. ASSUME NEW o
      PROVE  Count(s, o) = Count(c \o b, o) + Count(<<s[i]>>, o)
  <2>1. Count(s, o) = Count(a, o) + Count(b, o) /\ Count(c \o b, o) = Count(c, o) + Count(b, o)
    BY <1>3, <1>7, CountConcat
  <2>2. Count(a, o) = Count(c, o) + Count(<<s[i]>>, o)
    BY <1>2, <1>5, <1>6 DEF c
  <2>3. Count(b, o) \in Nat /\ Count(c, o) \in Nat /\ Count(<<s[i]>>, o) \in Nat
    BY <1>2, <1>3, <1>5, <1>7, CountIsNat
  <2> QED
    BY <2>1, <2>2, <2>3
<1> QED
  BY <1>2, <1>4, <1>5, <1>7, <1>8 DEF c

\* A hold task that is left behind is a proper stray.
LEMMA OutlivingFacts ==
    ASSUME NEW task \in Task, HoldList(task)
    PROVE  GoodStrays(Outliving(task))
<1>1. CASE task.step # "list"
  BY <1>1 DEF Outliving, GoodStrays
<1>2. CASE task.step = "list"
  <2>1. Outliving(task) = <<task>>
    BY <1>2 DEF Outliving
  <2>2. <<task>> \in Seq(Task) /\ Len(<<task>>) = 1 /\ <<task>>[1] = task
    OBVIOUS
  <2> QED
    BY <1>2, <2>1, <2>2 DEF GoodStrays
<1> QED
  BY <1>1, <1>2

\* Strays may be put together,
LEMMA StraysConcat ==
    ASSUME NEW p, NEW q, GoodStrays(p), GoodStrays(q)
    PROVE  GoodStrays(p \o q)
<1>1. /\ p \o q \in Seq(Task) /\ Len(p \o q) = Len(p) + Len(q)
      /\ Len(p) \in Nat /\ Len(q) \in Nat
      /\ \A i \in 1..Len(p) : (p \o q)[i] = p[i]
      /\ \A i \in 1..Len(p \o q) : i \notin 1..Len(p) => (p \o q)[i] = q[i - Len(p)]
  BY DEF GoodStrays
<1>2. \A i \in 1..Len(p \o q) : i \notin 1..Len(p) => i - Len(p) \in 1..Len(q)
  BY <1>1
<1>3. ASSUME NEW i \in 1..Len(p \o q)
      PROVE  (p \o q)[i].step = "list" /\ HoldList((p \o q)[i])
  BY <1>1, <1>2 DEF GoodStrays
<1> QED
  BY <1>1, <1>3 DEF GoodStrays

\* lose their machine,
LEMMA StraysDisowned ==
    ASSUME NEW q, GoodStrays(q)
    PROVE  GoodStrays([i \in 1..Len(q) |-> [q[i] EXCEPT !.owned = FALSE]])
<1> DEFINE e(i) == [q[i] EXCEPT !.owned = FALSE]
           r == [i \in 1..Len(q) |-> e(i)]
<1>1. Len(q) \in Nat
  BY DEF GoodStrays
<1>2. ASSUME NEW i \in 1..Len(q)
      PROVE  /\ e(i) \in Task /\ e(i).step = "list" /\ HoldList(e(i))
  <2>1. q[i] \in Task /\ q[i].step = "list" /\ HoldList(q[i])
    BY DEF GoodStrays
  <2>2. /\ e(i) \in Task /\ e(i).step = q[i].step /\ e(i).list = q[i].list
        /\ e(i).done = q[i].done
    BY <2>1 DEF Task
  <2> HIDE DEF e
  <2> QED
    BY <2>1, <2>2 DEF HoldList
<1> HIDE DEF e
<1>3. r \in Seq(Task) /\ Len(r) = Len(q) /\ \A i \in 1..Len(q) : r[i] = e(i)
  BY <1>1, <1>2
<1>4. GoodStrays(r)
  BY <1>2, <1>3 DEF GoodStrays
<1> QED
  BY <1>4 DEF e

\* come to their end,
LEMMA StraysRemoved ==
    ASSUME NEW q, GoodStrays(q), NEW i \in 1..Len(q)
    PROVE  GoodStrays(RemoveAt(q, i))
<1> DEFINE a == SubSeq(q, 1, i - 1)
           b == SubSeq(q, i + 1, Len(q))
<1>1. q \in Seq(Task) /\ Len(q) \in Nat
  BY DEF GoodStrays
<1>2. a \in Seq(Task) /\ Len(a) = i - 1 /\ \A j \in 1..Len(a) : a[j] = q[j] /\ j \in 1..Len(q)
  BY <1>1
<1>3. b \in Seq(Task) /\ \A j \in 1..Len(b) : b[j] = q[i + j] /\ i + j \in 1..Len(q)
  BY <1>1
<1> HIDE DEF a, b
<1>4. GoodStrays(a) /\ GoodStrays(b)
  BY <1>2, <1>3 DEF GoodStrays
<1> QED
  BY <1>4, StraysConcat DEF RemoveAt, a, b

\* and go on.
LEMMA StraysUpdated ==
    ASSUME NEW q, GoodStrays(q), NEW i \in 1..Len(q), NEW t \in Task, t.step = "list", HoldList(t)
    PROVE  GoodStrays([q EXCEPT ![i] = t])
<1>1. /\ [q EXCEPT ![i] = t] \in Seq(Task) /\ Len([q EXCEPT ![i] = t]) = Len(q)
      /\ \A j \in 1..Len(q) : [q EXCEPT ![i] = t][j] = IF j = i THEN t ELSE q[j]
  BY DEF GoodStrays
<1> QED
  BY <1>1 DEF GoodStrays
-----------------------------------------------------------------------------
(* Accounting for a step. *)

\* What the invariant says of the bursts that are counted.
LEMMA Basics ==
    ASSUME TypeOK, TaskInv
    PROVE  /\ Presses(pressed) /\ _held_actions \in Bursts /\ orphaned \in Bursts
           /\ Executed(pipeline) \in Bursts /\ Executed(_double_tap_task) \in Bursts
           /\ cut \in Bursts /\ lost \in Bursts
           /\ GoodStrays(strays)
           /\ \A slot \in Slots : config[slot] \in Bursts
           /\ \A o \in Outputs :
                /\ Count(_held_actions, o) \in Nat /\ Count(orphaned, o) \in Nat
                /\ Count(Executed(pipeline), o) \in Nat
                /\ Count(Executed(_double_tap_task), o) \in Nat
                /\ Count(cut, o) \in Nat /\ Count(lost, o) \in Nat /\ Cancelled(o) \in Nat
<1>1. /\ Presses(pressed) /\ _held_actions \in Bursts /\ orphaned \in Bursts
      /\ cut \in Bursts /\ lost \in Bursts
      /\ pipeline \in Task /\ _double_tap_task \in Task /\ config \in Configs
  BY DEF TypeOK, Presses, Bursts
<1>2. TapTask(pipeline) /\ TapTask(_double_tap_task)
  BY DEF TaskInv
<1>3. Executed(pipeline) \in Bursts /\ Executed(_double_tap_task) \in Bursts
  BY <1>1, <1>2, ExecutedFacts
<1>4. GoodStrays(strays)
  BY DEF TypeOK, TaskInv, GoodStrays
<1>5. \A slot \in Slots : config[slot] \in Bursts
  BY <1>1, ListFacts
<1>6. \A b \in Bursts : \A o \in Outputs : Count(b, o) \in Nat
  BY CountIsNat
<1>7. \A o \in Outputs : Cancelled(o) \in Nat
  BY <1>1, <1>6 DEF Cancelled
<1> QED
  BY <1>1, <1>3, <1>4, <1>5, <1>6, <1>7

\* A step that presses bursts which somebody then owes keeps the account.
LEMMA AccountPress ==
    ASSUME Presses(pressed), AccountInv, NEW b \in Bursts,
           pressed' = pressed (+) BagOfBursts(b),
           \A o \in Outputs : Owed(o)' = Owed(o) + Count(b, o)
    PROVE  Presses(pressed') /\ AccountInv'
<1>1. /\ Presses(pressed')
      /\ \A o \in Outputs : Copies(o, pressed') = Copies(o, pressed) + Count(b, o)
  BY Pressed
<1>2. \A o \in Outputs : Copies(o, pressed) = Owed(o)
  BY DEF AccountInv
<1>3. \A o \in Outputs : Copies(o, pressed') = Owed(o)'
  BY <1>1, <1>2
<1> QED
  BY <1>1, <1>3 DEF AccountInv

\* So does one that releases bursts which nobody owes any more.
LEMMA AccountRelease ==
    ASSUME Presses(pressed), AccountInv, NEW b \in Bursts,
           pressed' = pressed (-) BagOfBursts(b),
           \A o \in Outputs : Owed(o)' \in Nat /\ Owed(o) = Owed(o)' + Count(b, o)
    PROVE  Presses(pressed') /\ AccountInv'
<1>0. \A o \in Outputs : Count(b, o) \in Nat
  BY CountIsNat
<1>1. \A o \in Outputs : Copies(o, pressed) = Owed(o)' + Count(b, o)
  BY DEF AccountInv
<1>2. \A o \in Outputs : Count(b, o) <= Copies(o, pressed)
  BY <1>0, <1>1
<1>3. /\ Presses(pressed')
      /\ \A o \in Outputs : Copies(o, pressed') = Copies(o, pressed) - Count(b, o)
  BY <1>2, Released
<1>4. \A o \in Outputs : Copies(o, pressed') = Owed(o)'
  BY <1>0, <1>1, <1>3
<1> QED
  BY <1>3, <1>4 DEF AccountInv

\* A step that presses nothing and moves no debt keeps the account.
LEMMA AccountSame ==
    ASSUME Presses(pressed), AccountInv, pressed' = pressed,
           \A o \in Outputs : Owed(o)' = Owed(o)
    PROVE  Presses(pressed') /\ AccountInv'
<1>1. \A o \in Outputs : Copies(o, pressed') = Owed(o)'
  BY DEF AccountInv
<1> QED
  BY <1>1 DEF AccountInv

\* What the debts are made of, in a step that has none but held actions to move.
LEMMA DebtsMove ==
    ASSUME UNCHANGED <<pipeline, _double_tap_task, cancelled>>, TypeOK, TaskInv,
           NEW o \in Outputs,
           NEW n \in Nat, _held_actions' \in Bursts, orphaned' \in Bursts,
           Count(_held_actions', o) + Count(orphaned', o)
             = Count(_held_actions, o) + Count(orphaned, o) + n
    PROVE  Owed(o)' = Owed(o) + n
<1>1. /\ Count(_held_actions, o) \in Nat /\ Count(orphaned, o) \in Nat
      /\ Count(Executed(pipeline), o) \in Nat /\ Count(Executed(_double_tap_task), o) \in Nat
      /\ Count(_held_actions', o) \in Nat /\ Count(orphaned', o) \in Nat
      /\ Cancelled(o) \in Nat
  BY Basics, CountIsNat
<1>2. /\ Executed(pipeline)' = Executed(pipeline)
      /\ Executed(_double_tap_task)' = Executed(_double_tap_task)
      /\ Cancelled(o)' = Cancelled(o)
  BY DEF Executed, Cancelled, cancelled
<1> QED
  BY <1>1, <1>2 DEF Owed

\* What is owed is a number of presses.
LEMMA OwedIsNat ==
    ASSUME TypeOK, TaskInv, NEW o \in Outputs
    PROVE  Owed(o) \in Nat
BY Basics DEF Owed

-----------------------------------------------------------------------------
(* The end of a gesture. *)

\* Dropping the machine hands its held actions to nobody and keeps its lists alive.
LEMMA DropFacts ==
    ASSUME TypeOK, TaskInv, NEW held \in Bursts, NEW running, GoodStrays(running),
           DropMachine(held, running)
    PROVE  /\ config' \in Configs /\ retiring' = FALSE
           /\ _held_actions' = <<>> /\ _held_actions' \in Bursts /\ orphaned' \in Bursts
           /\ GoodStrays(strays')
           /\ held = <<>> => orphaned' = orphaned
           /\ \A o \in Outputs : Count(_held_actions', o) + Count(orphaned', o)
                                   = Count(held, o) + Count(orphaned, o)
<1>1. /\ config' \in Configs /\ retiring' = FALSE /\ _held_actions' = <<>>
      /\ orphaned' = orphaned \o held
      /\ strays' = [i \in 1..Len(strays \o running) |->
                      [(strays \o running)[i] EXCEPT !.owned = FALSE]]
  BY DEF DropMachine
<1>2. GoodStrays(strays) /\ orphaned \in Bursts
  BY Basics
<1>3. GoodStrays(strays \o running)
  BY <1>2, StraysConcat
<1>4. GoodStrays(strays')
  BY <1>1, <1>3, StraysDisowned
<1>5. orphaned' \in Bursts
  BY <1>1, <1>2, CountConcat
<1>6. _held_actions' \in Bursts
  BY <1>1 DEF Bursts
<1>7. held = <<>> => orphaned' = orphaned
  BY <1>1, <1>2 DEF Bursts
<1>8. ASSUME NEW o \in Outputs
      PROVE  Count(_held_actions', o) + Count(orphaned', o) = Count(held, o) + Count(orphaned, o)
  <2>1. Count(_held_actions', o) = 0
    BY <1>1, CountEmpty
  <2>2. Count(orphaned', o) = Count(orphaned, o) + Count(held, o)
    BY <1>1, <1>2, CountConcat
  <2>3. Count(orphaned, o) \in Nat /\ Count(held, o) \in Nat
    BY <1>2, CountIsNat
  <2> QED
    BY <2>1, <2>2, <2>3
<1> QED
  BY <1>1, <1>4, <1>5, <1>6, <1>7, <1>8

\* _become_idle keeps every debt, for this machine or for nobody.
LEMMA IdleFacts ==
    ASSUME TypeOK, TaskInv, NEW held \in Bursts, NEW task \in Task, HoldList(task),
           BecomeIdle(held, task)
    PROVE  /\ state' = "IDLE" /\ config' \in Configs /\ retiring' \in BOOLEAN
           /\ _held_actions' \in Bursts /\ orphaned' \in Bursts
           /\ GoodStrays(strays')
           /\ _hold_task' \in {task, NoTask} /\ _hold_task' \in Task /\ HoldList(_hold_task')
           /\ held = <<>> => _held_actions' = <<>> /\ orphaned' = orphaned
           /\ \A o \in Outputs : Count(_held_actions', o) + Count(orphaned', o)
                                   = Count(held, o) + Count(orphaned, o)
<1>1. state' = "IDLE"
  BY DEF BecomeIdle
<1>2. CASE retiring /\ _running
  <2>1. DropMachine(held, Outliving(task)) /\ _hold_task' = NoTask
    BY <1>2 DEF BecomeIdle
  <2>2. GoodStrays(Outliving(task))
    BY OutlivingFacts
  <2> QED
    BY <1>1, <2>1, <2>2, DropFacts, TaskFacts
<1>3. CASE ~(retiring /\ _running)
  <2>1. /\ _held_actions' = held /\ _hold_task' = task
        /\ UNCHANGED <<config, retiring, strays, orphaned>>
    BY <1>3 DEF BecomeIdle
  <2>2. /\ GoodStrays(strays) /\ orphaned \in Bursts /\ config \in Configs
        /\ retiring \in BOOLEAN
    BY Basics DEF TypeOK
  <2> QED
    BY <1>1, <2>1, <2>2
<1> QED
  BY <1>2, <1>3

\* A new hold timer leaves a running list alive.
LEMMA HoldTimerFacts ==
    ASSUME TypeOK, TaskInv, NEW wanted \in BOOLEAN, StartHoldTimer(wanted)
    PROVE  /\ _hold_task' \in Task /\ HoldList(_hold_task') /\ GoodStrays(strays')
           /\ _hold_task' = IF wanted THEN Timer ELSE _hold_task
<1>1. GoodStrays(strays) /\ _hold_task \in Task /\ HoldList(_hold_task)
  BY Basics DEF TypeOK, TaskInv
<1>2. GoodStrays(Outliving(_hold_task))
  BY <1>1, OutlivingFacts
<1>3. GoodStrays(strays \o Outliving(_hold_task))
  BY <1>1, <1>2, StraysConcat
<1> QED
  BY <1>1, <1>3, TaskFacts DEF StartHoldTimer
-----------------------------------------------------------------------------
(* Reading an event, firing a slot. *)

\* The pipeline reads only when it awaits no list.
LEMMA ReadFacts ==
    ASSUME TypeOK, NEW v, Read(v)
    PROVE  /\ pipeline = NoTask /\ pipeline.step = "none" /\ Executed(pipeline) = <<>>
           /\ physical' \in BOOLEAN /\ queue' \in Seq({0, 1})
BY TaskFacts DEF Read, TypeOK

\* While only taps have fired, another slot may.
LEMMA FiredGrows ==
    ASSUME fired \in Seq(Slots), NEW slot \in Slots, fired' = Append(fired, slot),
           \A i \in 1..Len(fired) : fired[i] = "tap"
    PROVE  /\ fired' \in Seq(Slots) /\ HoldIsFinal'
           /\ slot = "tap" => \A i \in 1..Len(fired') : fired'[i] = "tap"
<1>1. /\ Len(fired) \in Nat /\ fired' \in Seq(Slots) /\ Len(fired') = Len(fired) + 1
      /\ \A i \in 1..Len(fired) : fired'[i] = fired[i]
      /\ fired'[Len(fired) + 1] = slot
  OBVIOUS
<1>2. \A i \in 1..(Len(fired') - 1) : fired'[i] = "tap"
  BY <1>1
<1>3. \A i \in 1..Len(fired') : i \in 1..Len(fired) \/ i = Len(fired) + 1
  BY <1>1
<1> QED
  BY <1>1, <1>2, <1>3 DEF HoldIsFinal

\* The tap list of a slot is owed by the pipeline.
LEMMA EmitFacts ==
    ASSUME TypeOK, TaskInv, AccountInv, NEW slot \in Slots, config[slot] # <<>>,
           pipeline = NoTask, EmitInPipeline(slot), UNCHANGED <<_double_tap_task, cancelled>>
    PROVE  /\ pipeline' \in Task /\ TapTask(pipeline') /\ pipeline'.step = "list"
           /\ Presses(pressed') /\ AccountInv'
           /\ fired' = Append(fired, slot) /\ _hold_task' = NoTask
           /\ UNCHANGED <<state, config, retiring, _held_actions, orphaned, strays>>
<1> DEFINE list == config[slot]
           b == <<Head(config[slot])>>
<1>1. /\ pipeline' = Running(list) /\ pressed' = pressed (+) BagOfBursts(b)
      /\ fired' = Append(fired, slot) /\ _hold_task' = NoTask
      /\ UNCHANGED <<state, config, retiring, _held_actions, orphaned, strays>>
  BY DEF EmitInPipeline
<1>2. list \in Bursts /\ list # <<>>
  BY Basics
<1>3. b \in Bursts
  BY <1>2, FirstBurst
<1>4. /\ pipeline' \in Task /\ TapTask(pipeline') /\ pipeline'.step = "list"
      /\ Executed(pipeline') = b
  BY <1>1, <1>2, RunningFacts
<1>5. Executed(pipeline) = <<>> /\ Executed(_double_tap_task)' = Executed(_double_tap_task)
  BY TaskFacts DEF Executed
<1> HIDE DEF b
<1>6. ASSUME NEW o \in Outputs
      PROVE  Owed(o)' = Owed(o) + Count(b, o)
  <2>1. /\ Count(_held_actions, o) \in Nat /\ Count(orphaned, o) \in Nat
        /\ Count(Executed(_double_tap_task), o) \in Nat /\ Count(b, o) \in Nat
        /\ Cancelled(o) \in Nat
    BY <1>3, Basics, CountIsNat
  <2>2. Count(Executed(pipeline), o) = 0
    BY <1>5, CountEmpty
  <2>3. Owed(o) = Count(_held_actions, o) + Count(orphaned, o) + 0
                    + Count(Executed(_double_tap_task), o) + Cancelled(o)
    BY <2>2 DEF Owed
  <2>4. Owed(o)' = Count(_held_actions, o) + Count(orphaned, o) + Count(b, o)
                     + Count(Executed(_double_tap_task), o) + Cancelled(o)
    BY <1>1, <1>4, <1>5 DEF Owed, Cancelled, cancelled
  <2> QED
    BY <2>1, <2>3, <2>4
<1>7. Presses(pressed') /\ AccountInv'
  BY <1>1, <1>3, <1>6, Basics, AccountPress
<1> QED
  BY <1>1, <1>4, <1>7

-----------------------------------------------------------------------------
(* Each action preserves the invariant. *)

\* The source key moves.
LEMMA SourceEventKeeps ==
    ASSUME Inv, NEW v \in {0, 1}, SourceEvent(v)
    PROVE  Inv'
<1>1. /\ physical' = ~physical /\ queue' = Append(queue, v)
      /\ UNCHANGED <<machine, tasks, cancelled, pressed, fired>>
  BY DEF SourceEvent
<1>2. physical' \in BOOLEAN
  BY <1>1
<1>3. queue' \in Seq({0, 1})
  BY <1>1 DEF Inv, TypeOK
<1>4. TypeOK'
  BY <1>1, <1>2, <1>3 DEF Inv, TypeOK, machine, tasks, cancelled
<1>5. TaskInv'
  BY <1>1 DEF Inv, TaskInv, machine, tasks, TapTask, HoldList
<1>6. StateInv' /\ HeldInv' /\ FiredInv'
  BY <1>1 DEF Inv, StateInv, cancelled, HeldInv, FiredInv, HoldIsFinal, HeldSlot, machine, tasks
<1>7. AccountInv'
  <2>1. \A o \in Outputs : Owed(o)' = Owed(o)
    BY <1>1 DEF Owed, Cancelled, machine, tasks, cancelled
  <2> QED
    BY <1>1, <2>1, Basics, AccountSame DEF Inv
<1> QED
  BY <1>4, <1>5, <1>6, <1>7 DEF Inv

\* An event no state waits for.
LEMMA IgnoredKeeps ==
    ASSUME Inv, Ignored
    PROVE  Inv'
<1>1. UNCHANGED <<machine, tasks, cancelled, pressed, fired>>
  BY DEF Ignored
<1>2. physical' \in BOOLEAN /\ queue' \in Seq({0, 1})
  BY ReadFacts DEF Ignored, Inv
<1>4. TypeOK'
  BY <1>1, <1>2 DEF Inv, TypeOK, machine, tasks, cancelled
<1>5. TaskInv'
  BY <1>1 DEF Inv, TaskInv, machine, tasks, TapTask, HoldList
<1>6. StateInv' /\ HeldInv' /\ FiredInv'
  BY <1>1 DEF Inv, StateInv, cancelled, HeldInv, FiredInv, HoldIsFinal, HeldSlot, machine, tasks
<1>7. AccountInv'
  <2>1. \A o \in Outputs : Owed(o)' = Owed(o)
    BY <1>1 DEF Owed, Cancelled, machine, tasks, cancelled
  <2> QED
    BY <1>1, <2>1, Basics, AccountSame DEF Inv
<1> QED
  BY <1>4, <1>5, <1>6, <1>7 DEF Inv

\* The first press opens a gesture.
LEMMA DownFirstKeeps ==
    ASSUME Inv, DownFirst
    PROVE  Inv'
<1> DEFINE wanted == config["hold"] # <<>>
<1>1. /\ Read(1) /\ state = "IDLE" /\ state' = "DOWN_WAIT" /\ fired' = <<>>
      /\ StartHoldTimer(wanted)
      /\ UNCHANGED <<config, retiring, _held_actions, orphaned, late, pipeline,
                     _double_tap_task, cancelled, pressed>>
  BY DEF DownFirst
<1>2. TypeOK /\ TaskInv /\ StateInv /\ HeldInv /\ AccountInv
  BY DEF Inv
<1>3. /\ pipeline = NoTask /\ pipeline.step = "none" /\ physical' \in BOOLEAN
      /\ queue' \in Seq({0, 1})
  BY <1>1, <1>2, ReadFacts
<1>4. /\ _hold_task' \in Task /\ HoldList(_hold_task') /\ GoodStrays(strays')
      /\ _hold_task' = IF wanted THEN Timer ELSE _hold_task
  BY <1>1, <1>2, HoldTimerFacts
<1>5. TypeOK'
  BY <1>1, <1>2, <1>3, <1>4 DEF TypeOK, GoodStrays, States, cancelled
<1>6. TaskInv'
  BY <1>1, <1>2, <1>3, <1>4 DEF TaskInv, GoodStrays, TapTask
<1>7. StateInv'
  <2>1. _double_tap_task.step = "none"
    BY <1>1, <1>2 DEF StateInv, TypeOK, Task
  <2>2. _hold_task.step # "timer"
    BY <1>1, <1>2 DEF StateInv
  <2>3. HeldSlot' = "hold"
    BY <1>1 DEF HeldSlot
  <2> QED
    BY <1>1, <1>3, <1>4, <2>1, <2>2, <2>3 DEF StateInv, cancelled
<1>8. HeldInv'
  BY <1>1, <1>2 DEF HeldInv
<1>9. FiredInv'
  BY <1>1 DEF FiredInv, HoldIsFinal
<1>10. AccountInv'
  <2>1. \A o \in Outputs : Owed(o)' = Owed(o)
    BY <1>1 DEF Owed, Cancelled, cancelled
  <2> QED
    BY <1>1, <1>2, <2>1, Basics, AccountSame
<1> QED
  BY <1>5, <1>6, <1>7, <1>8, <1>9, <1>10 DEF Inv

\* Cancelling the double-tap task moves its debts.
LEMMA CancelFacts ==
    ASSUME TypeOK, TaskInv, AccountInv, CancelDoubleTap,
           UNCHANGED <<_held_actions, orphaned, pipeline, pressed>>
    PROVE  /\ _double_tap_task' = NoTask /\ cut' \in Bursts /\ lost' \in Bursts
           /\ Presses(pressed') /\ AccountInv'
<1> DEFINE b == Executed(_double_tap_task)
<1>1. /\ _double_tap_task' = NoTask
      /\ cut' = IF _double_tap_task.step = "list" THEN cut \o b ELSE cut
      /\ lost' = IF _double_tap_task.step = "release" THEN lost \o b ELSE lost
  BY DEF CancelDoubleTap
<1>2. b \in Bursts /\ cut \in Bursts /\ lost \in Bursts /\ Presses(pressed)
  BY Basics
<1>3. _double_tap_task.step \notin {"list", "release"} => b = <<>>
  BY DEF Executed
<1> HIDE DEF b
<1>4. /\ cut \o b \in Bursts /\ lost \o b \in Bursts
      /\ \A o : /\ Count(cut \o b, o) = Count(cut, o) + Count(b, o)
                /\ Count(lost \o b, o) = Count(lost, o) + Count(b, o)
  BY <1>2, CountConcat
<1>5. cut' \in Bursts /\ lost' \in Bursts
  BY <1>1, <1>2, <1>4
<1>6. ASSUME NEW o \in Outputs
      PROVE  Owed(o)' = Owed(o)
  <2>1. /\ Count(_held_actions, o) \in Nat /\ Count(orphaned, o) \in Nat
        /\ Count(Executed(pipeline), o) \in Nat /\ Count(b, o) \in Nat
        /\ Count(cut, o) \in Nat /\ Count(lost, o) \in Nat
    BY <1>2, Basics, CountIsNat
  <2>2. Count(Executed(_double_tap_task'), o) = 0
    BY <1>1, TaskFacts, CountEmpty
  <2>3. Owed(o) = Count(_held_actions, o) + Count(orphaned, o)
          + Count(Executed(pipeline), o) + Count(b, o) + (Count(cut, o) + Count(lost, o))
    BY DEF Owed, Cancelled, b
  <2>4. Owed(o)' = Count(_held_actions, o) + Count(orphaned, o)
          + Count(Executed(pipeline), o) + 0 + (Count(cut', o) + Count(lost', o))
    BY <2>2 DEF Owed, Cancelled
  <2>5. Count(cut', o) + Count(lost', o) = Count(cut, o) + Count(lost, o) + Count(b, o)
    <3>1. CASE _double_tap_task.step = "list"
      BY <1>1, <1>4, <2>1, <3>1
    <3>2. CASE _double_tap_task.step = "release"
      BY <1>1, <1>4, <2>1, <3>2
    <3>3. CASE _double_tap_task.step \notin {"list", "release"}
      BY <1>1, <1>3, <2>1, <3>3, CountEmpty
    <3> QED
      BY <3>1, <3>2, <3>3
  <2>6. Count(cut', o) \in Nat /\ Count(lost', o) \in Nat
    BY <1>5, CountIsNat
  <2> QED
    BY <2>1, <2>3, <2>4, <2>5, <2>6
<1>7. Presses(pressed') /\ AccountInv'
  BY <1>2, <1>6, AccountSame
<1> QED
  BY <1>1, <1>5, <1>7

\* The second press cancels the double-tap task.
LEMMA DownSecondKeeps ==
    ASSUME Inv, DownSecond
    PROVE  Inv'
<1> DEFINE wanted == config["tap_hold"] # <<>> \/ config["hold"] # <<>>
<1>1. /\ Read(1) /\ state = "UP_WAIT" /\ state' = "DOWN_WAIT_2"
      /\ CancelDoubleTap
      /\ StartHoldTimer(wanted)
      /\ UNCHANGED <<config, retiring, _held_actions, orphaned, late, pipeline, _running,
                     pressed, fired>>
  BY DEF DownSecond
<1>2. TypeOK /\ TaskInv /\ StateInv /\ HeldInv /\ FiredInv /\ AccountInv
  BY DEF Inv
<1>3. /\ pipeline = NoTask /\ pipeline.step = "none" /\ physical' \in BOOLEAN
      /\ queue' \in Seq({0, 1})
  BY <1>1, <1>2, ReadFacts
<1>4. /\ _hold_task' \in Task /\ HoldList(_hold_task') /\ GoodStrays(strays')
      /\ _hold_task' = IF wanted THEN Timer ELSE _hold_task
  BY <1>1, <1>2, HoldTimerFacts
<1>5. /\ _double_tap_task' = NoTask /\ cut' \in Bursts /\ lost' \in Bursts
      /\ Presses(pressed') /\ AccountInv'
  BY <1>1, <1>2, CancelFacts
<1>6. TypeOK'
  BY <1>1, <1>2, <1>3, <1>4, <1>5, TaskFacts DEF TypeOK, GoodStrays, States, Presses, Bursts
<1>7. TaskInv'
  BY <1>1, <1>2, <1>3, <1>4, <1>5, TaskFacts DEF TaskInv, GoodStrays
<1>8. StateInv'
  <2>1. _hold_task.step # "timer"
    BY <1>1, <1>2 DEF StateInv
  <2>2. wanted => config'[HeldSlot'] # <<>>
    BY <1>1 DEF HeldSlot
  <2>3. _hold_task'.step = "timer" => wanted
    BY <1>4, <2>1
  <2> QED
    BY <1>1, <1>3, <1>5, <2>2, <2>3, TaskFacts DEF StateInv, cancelled
<1>9. HeldInv'
  BY <1>1, <1>2 DEF HeldInv
<1>10. FiredInv'
  BY <1>1, <1>2, <1>3 DEF FiredInv, HoldIsFinal
<1> QED
  BY <1>5, <1>6, <1>7, <1>8, <1>9, <1>10 DEF Inv

\* The gesture ends without firing anything.
LEMMA EndGestureKeeps ==
    ASSUME Inv, NEW v, Read(v), state \in {"DOWN_WAIT", "DOWN_WAIT_2"}, EndGesture,
           UNCHANGED <<_double_tap_task, late, cancelled>>
    PROVE  Inv'
<1>1. BecomeIdle(_held_actions, NoTask) /\ UNCHANGED <<pipeline, pressed, fired>>
  BY DEF EndGesture
<1>2. TypeOK /\ TaskInv /\ StateInv /\ HeldInv /\ FiredInv /\ AccountInv
  BY DEF Inv
<1>3. /\ pipeline = NoTask /\ pipeline.step = "none" /\ physical' \in BOOLEAN
      /\ queue' \in Seq({0, 1})
  BY <1>2, ReadFacts
<1>4. _held_actions \in Bursts /\ Presses(pressed)
  BY <1>2, Basics
<1>5. /\ state' = "IDLE" /\ config' \in Configs /\ retiring' \in BOOLEAN
      /\ _held_actions' \in Bursts /\ orphaned' \in Bursts /\ GoodStrays(strays')
      /\ _hold_task' = NoTask
      /\ _held_actions = <<>> => _held_actions' = <<>> /\ orphaned' = orphaned
      /\ \A o \in Outputs : Count(_held_actions', o) + Count(orphaned', o)
                              = Count(_held_actions, o) + Count(orphaned, o)
  BY <1>1, <1>2, <1>4, IdleFacts, TaskFacts
<1>6. TypeOK'
  BY <1>1, <1>2, <1>3, <1>5, TaskFacts DEF TypeOK, GoodStrays, States, Bursts, cancelled
<1>7. TaskInv'
  BY <1>1, <1>2, <1>3, <1>5, TaskFacts DEF TaskInv, GoodStrays
<1>8. StateInv'
  <2>1. _double_tap_task.step = "none"
    BY <1>2 DEF StateInv, TypeOK, Task
  <2> QED
    BY <1>1, <1>3, <1>5, <2>1, TaskFacts DEF StateInv, cancelled
<1>9. HeldInv'
  BY <1>1, <1>2, <1>5 DEF HeldInv
<1>10. FiredInv'
  BY <1>1, <1>2, <1>5 DEF FiredInv, HoldIsFinal
<1>11. AccountInv'
  <2>1. ASSUME NEW o \in Outputs
        PROVE  Owed(o)' = Owed(o)
    <3>1. Owed(o)' = Owed(o) + 0
      <4>1. Count(_held_actions', o) + Count(orphaned', o)
              = Count(_held_actions, o) + Count(orphaned, o) + 0
        BY <1>2, <1>5, Basics
      <4> QED
        BY <1>1, <1>2, <1>5, <4>1, DebtsMove
    <3> QED
      BY <1>2, <3>1, OwedIsNat
  <2> QED
    BY <1>1, <1>2, <1>4, <2>1, AccountSame
<1> QED
  BY <1>6, <1>7, <1>8, <1>9, <1>10, <1>11 DEF Inv

\* The pipeline starts the tap list of a slot.
LEMMA EmitKeeps ==
    ASSUME Inv, NEW v, Read(v), state \in {"DOWN_WAIT", "DOWN_WAIT_2"}, NEW slot \in Slots,
           config[slot] # <<>>, EmitInPipeline(slot),
           UNCHANGED <<_double_tap_task, late, cancelled>>
    PROVE  Inv'
<1>2. TypeOK /\ TaskInv /\ StateInv /\ HeldInv /\ FiredInv /\ AccountInv
  BY DEF Inv
<1>3. /\ pipeline = NoTask /\ pipeline.step = "none" /\ physical' \in BOOLEAN
      /\ queue' \in Seq({0, 1})
  BY <1>2, ReadFacts
<1>4. /\ pipeline' \in Task /\ TapTask(pipeline') /\ pipeline'.step = "list"
      /\ Presses(pressed') /\ AccountInv'
      /\ fired' = Append(fired, slot) /\ _hold_task' = NoTask
      /\ UNCHANGED <<state, config, retiring, _held_actions, orphaned, strays>>
  BY <1>2, <1>3, EmitFacts
<1>5. fired' \in Seq(Slots) /\ HoldIsFinal'
  <2>1. \A i \in 1..Len(fired) : fired[i] = "tap"
    BY <1>2, <1>3 DEF FiredInv
  <2>2. fired \in Seq(Slots)
    BY <1>2 DEF TypeOK
  <2> QED
    BY <1>4, <2>1, <2>2, FiredGrows
<1>6. TypeOK'
  BY <1>2, <1>3, <1>4, <1>5, TaskFacts DEF TypeOK, Presses, cancelled
<1>7. TaskInv'
  BY <1>2, <1>3, <1>4, TaskFacts DEF TaskInv
<1>8. StateInv'
  BY <1>2, <1>3, <1>4, TaskFacts DEF StateInv, cancelled
<1>9. HeldInv'
  BY <1>2, <1>4 DEF HeldInv
<1>10. FiredInv'
  BY <1>4, <1>5 DEF FiredInv
<1> QED
  BY <1>4, <1>6, <1>7, <1>8, <1>9, <1>10 DEF Inv

\* The first release.
LEMMA UpFirstKeeps ==
    ASSUME Inv, NEW is_tap \in BOOLEAN, UpFirst(is_tap)
    PROVE  Inv'
<1> DEFINE waits == is_tap /\ (config["double_tap"] # <<>> \/ config["tap_hold"] # <<>>)
<1>1. Read(0) /\ state = "DOWN_WAIT" /\ UNCHANGED <<late, cancelled>>
  BY DEF UpFirst
<1>2. CASE waits
  <2>1. /\ state' = "UP_WAIT" /\ _hold_task' = NoTask /\ _double_tap_task' = Timer
        /\ UNCHANGED <<config, retiring, _held_actions, orphaned, pipeline, strays, pressed,
                       fired>>
    BY <1>2 DEF UpFirst
  <2>2. TypeOK /\ TaskInv /\ StateInv /\ HeldInv /\ FiredInv /\ AccountInv
    BY DEF Inv
  <2>3. /\ pipeline = NoTask /\ pipeline.step = "none" /\ physical' \in BOOLEAN
        /\ queue' \in Seq({0, 1})
    BY <1>1, <2>2, ReadFacts
  <2>4. TypeOK'
    BY <1>1, <2>1, <2>2, <2>3, TaskFacts DEF TypeOK, States, cancelled
  <2>5. TaskInv'
    BY <2>1, <2>2, <2>3, TaskFacts DEF TaskInv
  <2>6. StateInv'
    BY <2>1, <2>3, TaskFacts DEF StateInv, cancelled
  <2>7. HeldInv'
    BY <1>1, <2>1, <2>2 DEF HeldInv
  <2>8. FiredInv'
    BY <1>1, <2>1, <2>2 DEF FiredInv, HoldIsFinal
  <2>9. AccountInv'
    <3>1. _double_tap_task.step = "none"
      BY <1>1, <2>2 DEF StateInv, TypeOK, Task
    <3>2. Executed(_double_tap_task)' = Executed(_double_tap_task)
      BY <2>1, <3>1, TaskFacts DEF Executed
    <3>3. \A o \in Outputs : Owed(o)' = Owed(o)
      BY <1>1, <2>1, <3>2 DEF Owed, Cancelled, cancelled
    <3> QED
      BY <2>1, <2>2, <3>3, Basics, AccountSame
  <2> QED
    BY <2>4, <2>5, <2>6, <2>7, <2>8, <2>9 DEF Inv
<1>3. CASE ~waits
  <2>1. /\ UNCHANGED _double_tap_task
        /\ IF is_tap /\ config["tap"] # <<>> THEN EmitInPipeline("tap") ELSE EndGesture
    BY <1>3 DEF UpFirst
  <2>2. "tap" \in Slots
    BY DEF Slots
  <2>3. CASE is_tap /\ config["tap"] # <<>>
    BY <1>1, <2>1, <2>2, <2>3, EmitKeeps
  <2>4. CASE ~(is_tap /\ config["tap"] # <<>>)
    BY <1>1, <2>1, <2>4, EndGestureKeeps
  <2> QED
    BY <2>3, <2>4
<1> QED
  BY <1>2, <1>3

\* The second release.
LEMMA UpSecondKeeps ==
    ASSUME Inv, NEW is_tap \in BOOLEAN, UpSecond(is_tap)
    PROVE  Inv'
<1>1. Read(0) /\ state = "DOWN_WAIT_2" /\ UNCHANGED <<_double_tap_task, late, cancelled>>
  BY DEF UpSecond
<1>2. "tap" \in Slots /\ "double_tap" \in Slots
  BY DEF Slots
<1>3. CASE is_tap /\ config["double_tap"] # <<>>
  <2>1. EmitInPipeline("double_tap")
    BY <1>3 DEF UpSecond
  <2> QED
    BY <1>1, <1>2, <1>3, <2>1, EmitKeeps
<1>4. CASE ~(is_tap /\ config["double_tap"] # <<>>) /\ config["tap"] # <<>>
  <2>1. EmitInPipeline("tap")
    BY <1>4 DEF UpSecond
  <2> QED
    BY <1>1, <1>2, <1>4, <2>1, EmitKeeps
<1>5. CASE ~(is_tap /\ config["double_tap"] # <<>>) /\ config["tap"] = <<>>
  <2>1. EndGesture
    BY <1>5 DEF UpSecond
  <2> QED
    BY <1>1, <2>1, EndGestureKeeps
<1> QED
  BY <1>3, <1>4, <1>5

\* The release of a held gesture.
LEMMA UpHeldKeeps ==
    ASSUME Inv, UpHeld
    PROVE  Inv'
<1>1. /\ Read(0) /\ state \in {"HOLDING", "TAP_HOLDING"} /\ pipeline' = Releasing
      /\ UNCHANGED <<machine, _hold_task, _double_tap_task, strays, cancelled, pressed, fired>>
  BY DEF UpHeld
<1>2. TypeOK /\ TaskInv /\ StateInv /\ HeldInv /\ FiredInv /\ AccountInv
  BY DEF Inv
<1>3. /\ pipeline = NoTask /\ Executed(pipeline) = <<>> /\ physical' \in BOOLEAN
      /\ queue' \in Seq({0, 1})
  BY <1>1, <1>2, ReadFacts
<1>4. /\ pipeline' \in Task /\ pipeline'.step = "held" /\ TapTask(pipeline')
      /\ Executed(pipeline') = <<>>
  BY <1>1 DEF Releasing, Task, TapTask, Executed
<1>5. _hold_task.step # "timer"
  BY <1>1, <1>2 DEF StateInv
<1>6. AccountInv'
  <2>1. \A o \in Outputs : Owed(o)' = Owed(o)
    BY <1>1, <1>3, <1>4 DEF Owed, Cancelled, cancelled, machine
  <2> QED
    BY <1>1, <1>2, <2>1, Basics, AccountSame
<1>7. TypeOK'
  BY <1>1, <1>2, <1>3, <1>4 DEF TypeOK, machine, cancelled
<1>8. TaskInv'
  BY <1>1, <1>2, <1>4 DEF TaskInv, machine
<1>9. StateInv'
  BY <1>1, <1>2, <1>4, <1>5 DEF StateInv, cancelled, machine
<1>10. HeldInv' /\ FiredInv'
  BY <1>1, <1>2, <1>4 DEF HeldInv, FiredInv, HoldIsFinal, machine
<1> QED
  BY <1>6, <1>7, <1>8, <1>9, <1>10 DEF Inv

\* The last burst that is held is released, by the pipeline or by a reset.
LEMMA ReleaseHeldKeeps ==
    ASSUME Inv, ReleaseLastHeld,
           UNCHANGED <<physical, queue, config, state, retiring, orphaned, late, tasks,
                       cancelled, fired>>
    PROVE  Inv'
<1> DEFINE b == <<Last(_held_actions)>>
<1>1. /\ _held_actions # <<>> /\ _held_actions' = Front(_held_actions)
      /\ pressed' = pressed (-) BagOfBursts(b)
  BY DEF ReleaseLastHeld
<1>2. TypeOK /\ TaskInv /\ StateInv /\ HeldInv /\ FiredInv /\ AccountInv
  BY DEF Inv
<1>3. _held_actions \in Bursts /\ orphaned \in Bursts /\ Presses(pressed)
  BY <1>2, Basics
<1>4. /\ _held_actions' \in Bursts /\ b \in Bursts
      /\ \A o : Count(_held_actions, o) = Count(_held_actions', o) + Count(b, o)
  BY <1>1, <1>3, LastOff
<1> HIDE DEF b
<1>5. Presses(pressed') /\ AccountInv'
  <2>1. ASSUME NEW o \in Outputs
        PROVE  Owed(o)' \in Nat /\ Owed(o) = Owed(o)' + Count(b, o)
    <3>1. /\ Count(_held_actions', o) \in Nat /\ Count(orphaned, o) \in Nat
          /\ Count(Executed(pipeline), o) \in Nat /\ Count(b, o) \in Nat
          /\ Count(Executed(_double_tap_task), o) \in Nat /\ Cancelled(o) \in Nat
      BY <1>2, <1>4, Basics, CountIsNat
    <3>2. Owed(o)' = Count(_held_actions', o) + Count(orphaned, o) + Count(Executed(pipeline), o)
                       + Count(Executed(_double_tap_task), o) + Cancelled(o)
      BY DEF Owed, Cancelled, cancelled, tasks
    <3>3. Owed(o) = (Count(_held_actions', o) + Count(b, o)) + Count(orphaned, o)
            + Count(Executed(pipeline), o) + Count(Executed(_double_tap_task), o) + Cancelled(o)
      BY <1>4 DEF Owed
    <3> QED
      BY <3>1, <3>2, <3>3
  <2> QED
    BY <1>1, <1>2, <1>3, <1>4, <2>1, AccountRelease
<1>6. TypeOK'
  BY <1>2, <1>4, <1>5 DEF TypeOK, Presses, Bursts, tasks, cancelled
<1>7. TaskInv'
  BY <1>2 DEF TaskInv, tasks
<1>8. StateInv'
  BY <1>2 DEF StateInv, cancelled, HeldSlot, tasks
<1>9. HeldInv'
  BY <1>1, <1>2 DEF HeldInv
<1>10. FiredInv'
  BY <1>2 DEF FiredInv, HoldIsFinal, tasks
<1> QED
  BY <1>5, <1>6, <1>7, <1>8, <1>9, <1>10 DEF Inv

\* A step that ends a gesture and leaves the debts as they are.
LEMMA IdleKeeps ==
    ASSUME Inv, BecomeIdle(_held_actions, _hold_task), _hold_task.step # "timer",
           _held_actions = <<>> \/ state \notin {"HOLDING", "TAP_HOLDING"},
           pipeline' \in {pipeline, NoTask}, _double_tap_task' = NoTask,
           pipeline' = NoTask \/ pipeline.step = "none",
           Executed(pipeline) = <<>>, Executed(_double_tap_task) = <<>>,
           UNCHANGED <<physical, queue, late, cancelled, pressed, fired>>
    PROVE  Inv'
<1>2. TypeOK /\ TaskInv /\ StateInv /\ HeldInv /\ FiredInv /\ AccountInv
  BY DEF Inv
<1>3. /\ _held_actions \in Bursts /\ orphaned \in Bursts /\ Presses(pressed)
      /\ _hold_task \in Task /\ HoldList(_hold_task)
  BY <1>2, Basics DEF TypeOK, TaskInv
<1>4. /\ state' = "IDLE" /\ config' \in Configs /\ retiring' \in BOOLEAN
      /\ _held_actions' \in Bursts /\ orphaned' \in Bursts /\ GoodStrays(strays')
      /\ _hold_task' \in {_hold_task, NoTask} /\ _hold_task' \in Task /\ HoldList(_hold_task')
      /\ _held_actions = <<>> => _held_actions' = <<>> /\ orphaned' = orphaned
      /\ \A o \in Outputs : Count(_held_actions', o) + Count(orphaned', o)
                              = Count(_held_actions, o) + Count(orphaned, o)
  BY <1>2, <1>3, IdleFacts
<1>5. pipeline' = NoTask
  BY <1>2 DEF TaskInv
<1>6. AccountInv'
  <2>1. ASSUME NEW o \in Outputs
        PROVE  Owed(o)' = Owed(o)
    <3>1. Executed(pipeline') = <<>> /\ Executed(_double_tap_task') = <<>>
      BY <1>5, TaskFacts
    <3>2. Owed(o)' = Count(_held_actions', o) + Count(orphaned', o)
            + Count(Executed(pipeline), o) + Count(Executed(_double_tap_task), o) + Cancelled(o)
      BY <3>1 DEF Owed, Cancelled, cancelled
    <3> QED
      BY <1>4, <3>2 DEF Owed
  <2> QED
    BY <1>2, <1>3, <2>1, AccountSame
<1>7. TypeOK'
  BY <1>2, <1>4, <1>5, TaskFacts DEF TypeOK, GoodStrays, States, Bursts, cancelled
<1>8. TaskInv'
  BY <1>2, <1>4, <1>5, TaskFacts DEF TaskInv, GoodStrays
<1>9. StateInv'
  <2>1. _hold_task'.step # "timer"
    BY <1>4, TaskFacts
  <2> QED
    BY <1>4, <1>5, <2>1, TaskFacts DEF StateInv, cancelled
<1>10. HeldInv'
  BY <1>2, <1>4 DEF HeldInv
<1>11. FiredInv'
  BY <1>2, <1>4 DEF FiredInv, HoldIsFinal
<1> QED
  BY <1>6, <1>7, <1>8, <1>9, <1>10, <1>11 DEF Inv

\* The pipeline has released what was held.
LEMMA HeldReleasedKeeps ==
    ASSUME Inv, HeldReleased
    PROVE  Inv'
<1>1. /\ pipeline.step = "held" /\ _held_actions = <<>> /\ pipeline' = NoTask
      /\ BecomeIdle(_held_actions, _hold_task)
      /\ UNCHANGED <<physical, queue, late, _double_tap_task, cancelled, pressed, fired>>
  BY DEF HeldReleased
<1>2. TypeOK /\ TaskInv /\ StateInv
  BY DEF Inv
<1>3. _hold_task.step # "timer" /\ _double_tap_task.step = "none"
  BY <1>1, <1>2 DEF StateInv, TypeOK, Task
<1>4. _double_tap_task = NoTask
  BY <1>2, <1>3 DEF TaskInv
<1>5. Executed(pipeline) = <<>> /\ Executed(_double_tap_task) = <<>>
  BY <1>1, <1>3 DEF Executed
<1> QED
  BY <1>1, <1>3, <1>4, <1>5, IdleKeeps

\* The tap list in the pipeline goes on.
LEMMA PipelineBurstKeeps ==
    ASSUME Inv, PipelineBurst
    PROVE  Inv'
<1> DEFINE b == <<pipeline.list[pipeline.done + 1]>>
<1>1. /\ pipeline.step = "list" /\ ~Finished(pipeline)
      /\ pipeline' = [pipeline EXCEPT !.done = @ + 1]
      /\ pressed' = pressed (+) BagOfBursts(b)
      /\ UNCHANGED <<physical, queue, machine, _hold_task, _double_tap_task, strays, cancelled,
                     fired>>
  BY DEF PipelineBurst
<1>2. TypeOK /\ TaskInv /\ StateInv /\ HeldInv /\ FiredInv /\ AccountInv
  BY DEF Inv
<1>3. /\ pipeline \in Task /\ pipeline.done \in Nat /\ pipeline.done + 1 <= Len(pipeline.list)
  <2>1. pipeline \in Task /\ Len(pipeline.list) \in Nat
    BY <1>2 DEF TypeOK, Task
  <2>2. pipeline.done \in 1..Len(pipeline.list) /\ pipeline.done # Len(pipeline.list)
    BY <1>1, <1>2 DEF TaskInv, TapTask, Finished
  <2> QED
    BY <2>1, <2>2
<1>4. /\ pipeline' \in Task /\ pipeline'.step = "list" /\ TapTask(pipeline')
      /\ Executed(pipeline') \in Bursts /\ b \in Bursts
      /\ \A o \in Outputs : Count(Executed(pipeline'), o) = Count(Executed(pipeline), o) + Count(b, o)
  BY <1>1, <1>3, BurstFacts
<1>5. Presses(pressed') /\ AccountInv'
  <2> HIDE DEF b
  <2>1. ASSUME NEW o \in Outputs
        PROVE  Owed(o)' = Owed(o) + Count(b, o)
    <3>1. /\ Count(_held_actions, o) \in Nat /\ Count(orphaned, o) \in Nat
          /\ Count(Executed(pipeline), o) \in Nat /\ Count(b, o) \in Nat
          /\ Count(Executed(_double_tap_task), o) \in Nat /\ Cancelled(o) \in Nat
      BY <1>2, <1>4, Basics, CountIsNat
    <3>2. Owed(o)' = Count(_held_actions, o) + Count(orphaned, o)
            + (Count(Executed(pipeline), o) + Count(b, o)) + Count(Executed(_double_tap_task), o)
            + Cancelled(o)
      BY <1>1, <1>4 DEF Owed, Cancelled, cancelled, machine
    <3>3. Owed(o) = Count(_held_actions, o) + Count(orphaned, o)
                      + Count(Executed(pipeline), o) + Count(Executed(_double_tap_task), o)
                      + Cancelled(o)
      BY DEF Owed
    <3> QED
      BY <3>1, <3>2, <3>3
  <2> QED
    BY <1>1, <1>2, <1>4, <2>1, Basics, AccountPress
<1>6. TypeOK'
  BY <1>1, <1>2, <1>4, <1>5 DEF TypeOK, Presses, machine, cancelled
<1>7. TaskInv'
  BY <1>1, <1>2, <1>4 DEF TaskInv, machine
<1>8. StateInv'
  BY <1>1, <1>2, <1>4 DEF StateInv, cancelled, HeldSlot, machine
<1>9. HeldInv'
  BY <1>1, <1>2 DEF HeldInv, machine
<1>10. FiredInv'
  BY <1>1, <1>2, <1>4 DEF FiredInv, HoldIsFinal, machine
<1> QED
  BY <1>5, <1>6, <1>7, <1>8, <1>9, <1>10 DEF Inv

\* The pulse of the tap in the pipeline is over.
LEMMA PipelinePulseEndsKeeps ==
    ASSUME Inv, PipelinePulseEnds
    PROVE  Inv'
<1>1. /\ Pulsing(pipeline) /\ pipeline' = [pipeline EXCEPT !.step = "release"]
      /\ UNCHANGED <<physical, queue, machine, _hold_task, _double_tap_task, strays, cancelled,
                     pressed, fired>>
  BY DEF PipelinePulseEnds
<1>2. TypeOK /\ TaskInv /\ StateInv /\ HeldInv /\ FiredInv /\ AccountInv
  BY DEF Inv
<1>3. pipeline \in Task /\ TapTask(pipeline) /\ pipeline.step = "list"
  BY <1>1, <1>2 DEF TypeOK, TaskInv, Pulsing
<1>4. /\ pipeline' \in Task /\ pipeline'.step = "release" /\ TapTask(pipeline')
      /\ Executed(pipeline') = Executed(pipeline)
  BY <1>1, <1>3, PulseFacts
<1>5. AccountInv'
  <2>1. \A o \in Outputs : Owed(o)' = Owed(o)
    BY <1>1, <1>4 DEF Owed, Cancelled, cancelled, machine
  <2> QED
    BY <1>1, <1>2, <2>1, Basics, AccountSame
<1>6. TypeOK'
  BY <1>1, <1>2, <1>4 DEF TypeOK, machine, cancelled
<1>7. TaskInv'
  BY <1>1, <1>2, <1>4 DEF TaskInv, machine
<1>8. StateInv'
  BY <1>1, <1>2, <1>3, <1>4 DEF StateInv, cancelled, HeldSlot, machine
<1>9. HeldInv'
  BY <1>1, <1>2 DEF HeldInv, machine
<1>10. FiredInv'
  BY <1>1, <1>2, <1>3, <1>4 DEF FiredInv, HoldIsFinal, machine
<1> QED
  BY <1>5, <1>6, <1>7, <1>8, <1>9, <1>10 DEF Inv

\* It releases a burst,
LEMMA PipelineReleaseKeeps ==
    ASSUME Inv, PipelineRelease
    PROVE  Inv'
<1> DEFINE b == <<pipeline.list[pipeline.done]>>
<1>1. /\ MayRelease(pipeline) /\ pipeline' = [pipeline EXCEPT !.done = @ - 1]
      /\ pressed' = pressed (-) BagOfBursts(b)
      /\ UNCHANGED <<physical, queue, machine, _hold_task, _double_tap_task, strays, cancelled,
                     fired>>
  BY DEF PipelineRelease
<1>2. TypeOK /\ TaskInv /\ StateInv /\ HeldInv /\ FiredInv /\ AccountInv
  BY DEF Inv
<1>3. pipeline \in Task /\ TapTask(pipeline) /\ pipeline.step = "release"
  BY <1>1, <1>2 DEF TypeOK, TaskInv, MayRelease
<1>4. /\ pipeline' \in Task /\ pipeline'.step = "release" /\ TapTask(pipeline')
      /\ Executed(pipeline') \in Bursts /\ b \in Bursts
      /\ \A o \in Outputs :
           Count(Executed(pipeline), o) = Count(Executed(pipeline'), o) + Count(b, o)
  BY <1>1, <1>3, ReleaseFacts
<1> HIDE DEF b
<1>5. Presses(pressed') /\ AccountInv'
  <2>1. ASSUME NEW o \in Outputs
        PROVE  Owed(o)' \in Nat /\ Owed(o) = Owed(o)' + Count(b, o)
    <3>1. /\ Count(_held_actions, o) \in Nat /\ Count(orphaned, o) \in Nat
          /\ Count(Executed(pipeline'), o) \in Nat /\ Count(b, o) \in Nat
          /\ Count(Executed(_double_tap_task), o) \in Nat /\ Cancelled(o) \in Nat
      BY <1>2, <1>4, Basics, CountIsNat
    <3>2. Owed(o)' = Count(_held_actions, o) + Count(orphaned, o)
            + Count(Executed(pipeline'), o) + Count(Executed(_double_tap_task'), o) + Cancelled(o)
      BY <1>1 DEF Owed, Cancelled, cancelled, machine
    <3>3. Owed(o) = Count(_held_actions, o) + Count(orphaned, o)
            + Count(Executed(pipeline), o) + Count(Executed(_double_tap_task), o) + Cancelled(o)
      BY DEF Owed
    <3>4. Executed(_double_tap_task') = Executed(_double_tap_task)
      BY <1>1
    <3>5. Count(Executed(pipeline), o) = Count(Executed(pipeline'), o) + Count(b, o)
      BY <1>4
    <3> QED
      BY <3>1, <3>2, <3>3, <3>4, <3>5
  <2> QED
    BY <1>1, <1>2, <1>4, <2>1, Basics, AccountRelease
<1>6. TypeOK'
  BY <1>1, <1>2, <1>4, <1>5 DEF TypeOK, Presses, machine, cancelled
<1>7. TaskInv'
  BY <1>1, <1>2, <1>4 DEF TaskInv, machine
<1>8. StateInv'
  BY <1>1, <1>2, <1>3, <1>4 DEF StateInv, cancelled, HeldSlot, machine
<1>9. HeldInv'
  BY <1>1, <1>2 DEF HeldInv, machine
<1>10. FiredInv'
  BY <1>1, <1>2, <1>3, <1>4 DEF FiredInv, HoldIsFinal, machine
<1> QED
  BY <1>5, <1>6, <1>7, <1>8, <1>9, <1>10 DEF Inv

\* and is over.
LEMMA PipelineTapEndsKeeps ==
    ASSUME Inv, PipelineTapEnds
    PROVE  Inv'
<1>1. /\ pipeline.step = "release" /\ pipeline.done = 0 /\ pipeline' = NoTask
      /\ BecomeIdle(_held_actions, _hold_task)
      /\ UNCHANGED <<physical, queue, late, _double_tap_task, cancelled, pressed, fired>>
  BY DEF PipelineTapEnds, AllReleased
<1>2. TypeOK /\ TaskInv /\ StateInv
  BY DEF Inv
<1>3. /\ _hold_task.step # "timer" /\ _double_tap_task.step = "none"
      /\ state \notin {"HOLDING", "TAP_HOLDING"}
  BY <1>1, <1>2 DEF StateInv, TypeOK, Task
<1>4. _double_tap_task = NoTask
  BY <1>2, <1>3 DEF TaskInv
<1>5. Executed(pipeline) = <<>> /\ Executed(_double_tap_task) = <<>>
  BY <1>1, <1>2, <1>4, NothingLeft, TaskFacts DEF TypeOK
<1> QED
  BY <1>1, <1>3, <1>4, <1>5, IdleKeeps

\* A hold list goes on by a burst, and is forgotten after its last one.
LEMMA AfterBurstFacts ==
    ASSUME NEW task \in Task, task.step = "list", HoldList(task)
    PROVE  /\ NextBurst(task) \in SUBSET Outputs /\ <<NextBurst(task)>> \in Bursts
           /\ AfterBurst(task) \in Task /\ HoldList(AfterBurst(task))
           /\ AfterBurst(task).step # "timer"
           /\ AfterBurst(task) # NoTask => AfterBurst(task).step = "list"
<1>1. /\ task.list \in Seq(SUBSET Outputs) /\ Len(task.list) \in Nat
      /\ task.done \in 1..(Len(task.list) - 1)
  BY DEF Task, HoldList
<1>2. NextBurst(task) \in SUBSET Outputs /\ <<NextBurst(task)>> \in Bursts
  BY <1>1 DEF NextBurst, Bursts
<1>3. CASE task.done + 1 = Len(task.list)
  BY <1>2, <1>3, TaskFacts DEF AfterBurst
<1>4. CASE task.done + 1 # Len(task.list)
  <2> DEFINE next == [task EXCEPT !.done = @ + 1]
  <2>1. AfterBurst(task) = next
    BY <1>4 DEF AfterBurst
  <2>2. /\ next \in Task /\ next.step = "list" /\ next.list = task.list
        /\ next.done = task.done + 1
    BY <1>1 DEF Task
  <2>3. task.done + 1 \in 1..(Len(task.list) - 1)
    BY <1>1, <1>4
  <2> HIDE DEF next
  <2>4. HoldList(next)
    BY <2>2, <2>3 DEF HoldList
  <2> QED
    BY <1>2, <2>1, <2>2, <2>4
<1> QED
  BY <1>3, <1>4

\* A burst that is pressed and appended to the held actions is owed by them.
LEMMA HeldGrows ==
    ASSUME TypeOK, TaskInv, AccountInv, NEW burst \in SUBSET Outputs,
           _held_actions' = Append(_held_actions, burst),
           pressed' = pressed (+) BagOfBursts(<<burst>>),
           UNCHANGED <<orphaned, pipeline, _double_tap_task, cancelled>>
    PROVE  _held_actions' \in Bursts /\ Presses(pressed') /\ AccountInv'
<1> DEFINE b == <<burst>>
<1>1. b \in Bursts /\ _held_actions \in Bursts /\ orphaned \in Bursts /\ Presses(pressed)
  BY Basics DEF Bursts
<1>2. _held_actions' = _held_actions \o b
  BY <1>1 DEF Bursts
<1> HIDE DEF b
<1>3. /\ _held_actions' \in Bursts
      /\ \A o \in Outputs : Count(_held_actions', o) = Count(_held_actions, o) + Count(b, o)
  BY <1>1, <1>2, CountConcat
<1>4. ASSUME NEW o \in Outputs
      PROVE  Owed(o)' = Owed(o) + Count(b, o)
  <2>1. /\ Count(_held_actions, o) \in Nat /\ Count(orphaned, o) \in Nat /\ Count(b, o) \in Nat
    BY <1>1, CountIsNat
  <2>2. Count(_held_actions', o) + Count(orphaned', o)
          = Count(_held_actions, o) + Count(orphaned, o) + Count(b, o)
    BY <1>3, <2>1
  <2> QED
    BY <1>1, <1>3, <2>1, <2>2, DebtsMove
<1>5. pressed' = pressed (+) BagOfBursts(b)
  BY DEF b
<1> QED
  BY <1>1, <1>3, <1>4, <1>5, AccountPress

\* The hold timer starts the held gesture: it is the only slot that still may fire.
LEMMA HoldTimeoutStarts ==
    ASSUME Inv, _hold_timeout, _running
    PROVE  Inv'
<1>0. PICK slot : slot = HeldSlot
  OBVIOUS
<1>1. TypeOK /\ TaskInv /\ StateInv /\ HeldInv /\ FiredInv /\ AccountInv
  BY DEF Inv
<1>2. _hold_task = Timer
  BY DEF _hold_timeout
<1>3. /\ state \in {"DOWN_WAIT", "DOWN_WAIT_2"} /\ config[slot] # <<>>
      /\ pipeline.step = "none"
  BY <1>0, <1>1, <1>2, TaskFacts DEF StateInv, TaskInv, TypeOK, Task
<1>4. slot \in {"hold", "tap_hold"} /\ slot \in Slots
  BY <1>0 DEF HeldSlot, Slots
<1>5. /\ StartHolding(slot)
      /\ UNCHANGED <<physical, queue, config, retiring, orphaned, late, pipeline,
                     _double_tap_task, strays, cancelled>>
  BY <1>0, <1>3 DEF _hold_timeout
<1>6. /\ state' \in {"TAP_HOLDING", "HOLDING"}
      /\ _hold_task' = IF Len(config[slot]) = 1 THEN NoTask ELSE Running(config[slot])
      /\ _held_actions' = Append(_held_actions, Head(config[slot]))
      /\ pressed' = pressed (+) BagOfBursts(<<Head(config[slot])>>)
      /\ fired' = Append(fired, slot)
  BY <1>5 DEF StartHolding
<1>7. config[slot] \in Bursts
  BY <1>1, <1>4, Basics
<1>8. Head(config[slot]) \in SUBSET Outputs
  BY <1>3, <1>7 DEF Bursts
<1>9. _held_actions' \in Bursts /\ Presses(pressed') /\ AccountInv'
  BY <1>1, <1>5, <1>6, <1>8, HeldGrows
<1>10. _hold_task' \in Task /\ HoldList(_hold_task') /\ _hold_task'.step # "timer"
  BY <1>3, <1>6, <1>7, RunningFacts, TaskFacts
<1>11. fired' \in Seq(Slots) /\ HoldIsFinal'
  <2>1. \A i \in 1..Len(fired) : fired[i] = "tap"
    BY <1>1, <1>3 DEF FiredInv
  <2>2. fired \in Seq(Slots)
    BY <1>1 DEF TypeOK
  <2> QED
    BY <1>4, <1>6, <2>1, <2>2, FiredGrows
<1>12. TypeOK'
  BY <1>1, <1>5, <1>6, <1>9, <1>10, <1>11 DEF TypeOK, Presses, Bursts, States, cancelled
<1>13. TaskInv'
  BY <1>1, <1>5, <1>10 DEF TaskInv
<1>14. StateInv'
  <2>1. _double_tap_task.step = "none"
    BY <1>1, <1>3 DEF StateInv, TypeOK, Task
  <2> QED
    BY <1>3, <1>5, <1>10, <2>1 DEF StateInv, cancelled
<1>15. HeldInv'
  BY <1>1, <1>5, <1>6 DEF HeldInv
<1>16. FiredInv'
  BY <1>6, <1>11 DEF FiredInv
<1> QED
  BY <1>9, <1>12, <1>13, <1>14, <1>15, <1>16 DEF Inv

\* A timer of a machine that is being reset starts nothing.
LEMMA HoldTimeoutKeeps ==
    ASSUME Inv, _hold_timeout
    PROVE  Inv'
<1>1. CASE _running
  BY <1>1, HoldTimeoutStarts
<1>2. CASE ~_running
  <2>1. /\ _hold_task' = NoTask
        /\ UNCHANGED <<physical, queue, config, state, retiring, _held_actions, orphaned, late,
                       pipeline, _double_tap_task, strays, cancelled, pressed, fired>>
    BY <1>2 DEF _hold_timeout
  <2>2. TypeOK /\ TaskInv /\ StateInv /\ HeldInv /\ FiredInv /\ AccountInv
    BY DEF Inv
  <2>3. TypeOK'
    BY <2>1, <2>2, TaskFacts DEF TypeOK, cancelled
  <2>4. TaskInv'
    BY <2>1, <2>2, TaskFacts DEF TaskInv
  <2>5. StateInv'
    BY <2>1, <2>2, TaskFacts DEF StateInv, cancelled
  <2>6. HeldInv' /\ FiredInv'
    BY <2>1, <2>2 DEF HeldInv, FiredInv, HoldIsFinal
  <2>7. AccountInv'
    <3>1. \A o \in Outputs : Owed(o)' = Owed(o)
      BY <2>1 DEF Owed, Cancelled, cancelled
    <3> QED
      BY <2>1, <2>2, <3>1, Basics, AccountSame
  <2> QED
    BY <2>3, <2>4, <2>5, <2>6, <2>7 DEF Inv
<1> QED
  BY <1>1, <1>2

\* A hold list goes on, late or not.
LEMMA HoldBurstKeeps ==
    ASSUME Inv, HoldBurst
    PROVE  Inv'
<1>0. PICK burst, next : burst = NextBurst(_hold_task) /\ next = AfterBurst(_hold_task)
  OBVIOUS
<1>1. TypeOK /\ TaskInv /\ StateInv /\ HeldInv /\ FiredInv /\ AccountInv
  BY DEF Inv
<1>2. /\ _hold_task.step = "list" /\ _hold_task' = next
      /\ _held_actions' = Append(_held_actions, burst)
      /\ pressed' = pressed (+) BagOfBursts(<<burst>>)
      /\ late' = (late \/ state \notin {"HOLDING", "TAP_HOLDING"})
      /\ UNCHANGED <<physical, queue, config, state, retiring, orphaned, pipeline,
                     _double_tap_task, strays, cancelled, fired>>
  BY <1>0 DEF HoldBurst
<1>3. _hold_task \in Task /\ HoldList(_hold_task)
  BY <1>1 DEF TypeOK, TaskInv
<1>4. burst \in SUBSET Outputs /\ next \in Task /\ HoldList(next) /\ next.step # "timer"
  BY <1>0, <1>2, <1>3, AfterBurstFacts
<1>5. _held_actions' \in Bursts /\ Presses(pressed') /\ AccountInv'
  BY <1>1, <1>2, <1>4, HeldGrows
<1>6. late' \in BOOLEAN
  BY <1>2
<1>7. TypeOK'
  BY <1>1, <1>2, <1>4, <1>5, <1>6 DEF TypeOK, Presses, Bursts, cancelled
<1>8. TaskInv'
  BY <1>1, <1>2, <1>4 DEF TaskInv
<1>9. StateInv'
  BY <1>1, <1>2, <1>4 DEF StateInv, cancelled
<1>10. HeldInv'
  <2>1. ~late' => ~late /\ state \in {"HOLDING", "TAP_HOLDING"}
    BY <1>2
  <2> QED
    BY <1>1, <1>2, <2>1 DEF HeldInv
<1>11. FiredInv'
  BY <1>1, <1>2 DEF FiredInv, HoldIsFinal
<1> QED
  BY <1>5, <1>7, <1>8, <1>9, <1>10, <1>11 DEF Inv

\* So does one its machine has forgotten.
LEMMA StrayBurstKeeps ==
    ASSUME Inv, StrayBurst
    PROVE  Inv'
<1>1. TypeOK /\ TaskInv /\ StateInv /\ HeldInv /\ FiredInv /\ AccountInv
  BY DEF Inv
<1>2. PICK i, task, next, b :
        /\ i \in 1..Len(strays)
        /\ task = strays[i] /\ next = AfterBurst(task) /\ b = <<NextBurst(task)>>
        /\ strays' = IF next = NoTask THEN RemoveAt(strays, i) ELSE [strays EXCEPT ![i] = next]
        /\ _held_actions' = IF task.owned THEN _held_actions \o b ELSE _held_actions
        /\ orphaned' = IF task.owned THEN orphaned ELSE orphaned \o b
        /\ pressed' = pressed (+) BagOfBursts(b)
        /\ late' = TRUE
        /\ UNCHANGED <<physical, queue, config, state, retiring, pipeline, _hold_task,
                       _double_tap_task, cancelled, fired>>
  BY DEF StrayBurst
<1>3. /\ GoodStrays(strays) /\ _held_actions \in Bursts /\ orphaned \in Bursts
      /\ Presses(pressed)
  BY <1>1, Basics
<1>4. task \in Task /\ task.step = "list" /\ HoldList(task)
  BY <1>2, <1>3 DEF GoodStrays
<1>5. /\ b \in Bursts /\ next \in Task /\ HoldList(next)
      /\ next # NoTask => next.step = "list"
  BY <1>2, <1>4, AfterBurstFacts
<1>6. GoodStrays(strays')
  <2>1. CASE next = NoTask
    BY <1>2, <1>3, <2>1, StraysRemoved
  <2>2. CASE next # NoTask
    BY <1>2, <1>3, <1>5, <2>2, StraysUpdated
  <2> QED
    BY <2>1, <2>2
<1>7. /\ _held_actions \o b \in Bursts /\ orphaned \o b \in Bursts
      /\ \A o \in Outputs :
           /\ Count(_held_actions \o b, o) = Count(_held_actions, o) + Count(b, o)
           /\ Count(orphaned \o b, o) = Count(orphaned, o) + Count(b, o)
  BY <1>3, <1>5, CountConcat
<1>8. _held_actions' \in Bursts /\ orphaned' \in Bursts
  BY <1>2, <1>3, <1>7
<1>9. Presses(pressed') /\ AccountInv'
  <2>1. ASSUME NEW o \in Outputs
        PROVE  Owed(o)' = Owed(o) + Count(b, o)
    <3>1. Count(_held_actions, o) \in Nat /\ Count(orphaned, o) \in Nat /\ Count(b, o) \in Nat
      BY <1>3, <1>5, CountIsNat
    <3>2. Count(_held_actions', o) + Count(orphaned', o)
            = Count(_held_actions, o) + Count(orphaned, o) + Count(b, o)
      <4>1. CASE task.owned
        <5>1. /\ Count(_held_actions', o) = Count(_held_actions, o) + Count(b, o)
              /\ Count(orphaned', o) = Count(orphaned, o)
          BY <1>2, <1>7, <4>1
        <5> QED
          BY ONLY <3>1, <5>1
      <4>2. CASE ~task.owned
        <5>1. /\ Count(_held_actions', o) = Count(_held_actions, o)
              /\ Count(orphaned', o) = Count(orphaned, o) + Count(b, o)
          BY <1>2, <1>7, <4>2
        <5> QED
          BY ONLY <3>1, <5>1
      <4> QED
        BY <4>1, <4>2
    <3> QED
      BY <1>1, <1>2, <1>8, <3>1, <3>2, DebtsMove
  <2> QED
    BY <1>1, <1>2, <1>3, <1>5, <2>1, AccountPress
<1>10. TypeOK'
  BY <1>1, <1>2, <1>6, <1>8, <1>9 DEF TypeOK, Presses, Bursts, GoodStrays, cancelled
<1>11. TaskInv'
  BY <1>1, <1>2, <1>6 DEF TaskInv, GoodStrays
<1>12. StateInv'
  BY <1>1, <1>2 DEF StateInv, cancelled, HeldSlot
<1>13. HeldInv'
  BY <1>2 DEF HeldInv
<1>14. FiredInv'
  BY <1>1, <1>2 DEF FiredInv, HoldIsFinal
<1> QED
  BY <1>9, <1>10, <1>11, <1>12, <1>13, <1>14 DEF Inv

\* No second press came.
LEMMA DoubleTapTimeoutKeeps ==
    ASSUME Inv, _double_tap_timeout
    PROVE  Inv'
<1> DEFINE list == config["tap"]
           b == <<Head(config["tap"])>>
<1>1. TypeOK /\ TaskInv /\ StateInv /\ HeldInv /\ FiredInv /\ AccountInv
  BY DEF Inv
<1>2. _double_tap_task = Timer /\ UNCHANGED <<physical, queue, late, pipeline, cancelled>>
  BY DEF _double_tap_timeout
<1>3. /\ state = "UP_WAIT" /\ pipeline.step = "none" /\ _hold_task.step # "timer"
      /\ Executed(_double_tap_task) = <<>>
  BY <1>1, <1>2, TaskFacts DEF StateInv, TaskInv, TypeOK, Task
<1>4. /\ list \in Bursts /\ Presses(pressed) /\ _held_actions \in Bursts
      /\ orphaned \in Bursts /\ "tap" \in Slots
  BY <1>1, Basics DEF Slots
<1>5. CASE _running /\ list # <<>>
  <2>1. /\ _double_tap_task' = Running(list) /\ pressed' = pressed (+) BagOfBursts(b)
        /\ fired' = Append(fired, "tap")
        /\ UNCHANGED <<state, config, retiring, _held_actions, orphaned, _hold_task, strays>>
    BY <1>3, <1>5 DEF _double_tap_timeout
  <2>2. b \in Bursts
    BY <1>4, <1>5, FirstBurst
  <2>3. /\ _double_tap_task' \in Task /\ _double_tap_task'.step = "list"
        /\ TapTask(_double_tap_task')
        /\ Executed(_double_tap_task') = b
    BY <1>4, <1>5, <2>1, RunningFacts
  <2> HIDE DEF b
  <2>4. ASSUME NEW o \in Outputs
        PROVE  Owed(o)' = Owed(o) + Count(b, o)
    <3>1. /\ Count(_held_actions, o) \in Nat /\ Count(orphaned, o) \in Nat
          /\ Count(Executed(pipeline), o) \in Nat /\ Count(b, o) \in Nat
      BY <1>1, <2>2, Basics, CountIsNat
    <3>0. Cancelled(o) \in Nat
      BY <1>1, Basics
    <3>2. Count(Executed(_double_tap_task), o) = 0
      BY <1>3, CountEmpty
    <3>3. Owed(o) = Count(_held_actions, o) + Count(orphaned, o)
                      + Count(Executed(pipeline), o) + 0 + Cancelled(o)
      BY <3>2 DEF Owed
    <3>4. Owed(o)' = Count(_held_actions, o) + Count(orphaned, o)
                       + Count(Executed(pipeline), o) + Count(b, o) + Cancelled(o)
      BY <1>2, <2>1, <2>3 DEF Owed, Cancelled, cancelled
    <3> QED
      BY <3>0, <3>1, <3>3, <3>4
  <2>5. Presses(pressed') /\ AccountInv'
    BY <1>1, <1>4, <2>1, <2>2, <2>4, AccountPress
  <2>6. /\ fired' \in Seq(Slots) /\ HoldIsFinal'
        /\ \A i \in 1..Len(fired') : fired'[i] = "tap"
    <3>1. \A i \in 1..Len(fired) : fired[i] = "tap"
      BY <1>1, <1>3 DEF FiredInv
    <3>2. fired \in Seq(Slots)
      BY <1>1 DEF TypeOK
    <3> QED
      BY <1>4, <2>1, <3>1, <3>2, FiredGrows
  <2>7. TypeOK'
    BY <1>1, <1>2, <2>1, <2>3, <2>5, <2>6 DEF TypeOK, Presses, cancelled
  <2>8. TaskInv'
    BY <1>1, <1>2, <2>1, <2>3 DEF TaskInv
  <2>9. StateInv'
    BY <1>1, <1>2, <1>3, <1>5, <2>1 DEF StateInv, cancelled
  <2>10. HeldInv'
    BY <1>1, <1>2, <2>1 DEF HeldInv
  <2>11. FiredInv'
    BY <2>6 DEF FiredInv
  <2> QED
    BY <2>5, <2>7, <2>8, <2>9, <2>10, <2>11 DEF Inv
<1>6. CASE _running /\ list = <<>>
  <2>1. /\ _double_tap_task' = NoTask /\ UNCHANGED <<pressed, fired>>
        /\ BecomeIdle(_held_actions, _hold_task)
    BY <1>3, <1>6 DEF _double_tap_timeout
  <2>2. Executed(pipeline) = <<>>
    BY <1>3 DEF Executed
  <2> QED
    BY <1>2, <1>3, <2>1, <2>2, IdleKeeps
<1>7. CASE ~_running
  <2>1. /\ _double_tap_task' = NoTask
        /\ UNCHANGED <<physical, queue, config, state, retiring, _held_actions, orphaned, late,
                       pipeline, _hold_task, strays, cancelled, pressed, fired>>
    BY <1>7 DEF _double_tap_timeout
  <2>2. TypeOK'
    BY <1>1, <2>1, TaskFacts DEF TypeOK, cancelled
  <2>3. TaskInv'
    BY <1>1, <2>1, TaskFacts DEF TaskInv
  <2>4. StateInv'
    BY <1>1, <2>1, TaskFacts DEF StateInv, cancelled, HeldSlot
  <2>5. HeldInv' /\ FiredInv'
    BY <1>1, <2>1 DEF HeldInv, FiredInv, HoldIsFinal
  <2>6. AccountInv'
    <3>1. \A o \in Outputs : Owed(o)' = Owed(o)
      BY <1>3, <2>1, TaskFacts DEF Owed, Cancelled, cancelled
    <3> QED
      BY <1>1, <1>4, <2>1, <3>1, AccountSame
  <2> QED
    BY <2>2, <2>3, <2>4, <2>5, <2>6 DEF Inv
<1> QED
  BY <1>5, <1>6, <1>7

\* The tap of the double-tap timer goes on.
LEMMA DoubleTapBurstKeeps ==
    ASSUME Inv, DoubleTapBurst
    PROVE  Inv'
<1>0. PICK b : b = <<NextBurst(_double_tap_task)>>
  OBVIOUS
<1>1. /\ _double_tap_task.step = "list" /\ ~Finished(_double_tap_task)
      /\ _double_tap_task' = [_double_tap_task EXCEPT !.done = @ + 1]
      /\ pressed' = pressed (+) BagOfBursts(b)
      /\ UNCHANGED <<physical, queue, machine, pipeline, _hold_task, strays, cancelled, fired>>
  BY <1>0 DEF DoubleTapBurst
<1>2. TypeOK /\ TaskInv /\ StateInv /\ HeldInv /\ FiredInv /\ AccountInv
  BY DEF Inv
<1>3. /\ _double_tap_task \in Task /\ _double_tap_task.done \in Nat
      /\ _double_tap_task.done + 1 <= Len(_double_tap_task.list)
  <2>1. _double_tap_task \in Task /\ Len(_double_tap_task.list) \in Nat
    BY <1>2 DEF TypeOK, Task
  <2>2. /\ _double_tap_task.done \in 1..Len(_double_tap_task.list)
        /\ _double_tap_task.done # Len(_double_tap_task.list)
    BY <1>1, <1>2 DEF TaskInv, TapTask, Finished
  <2> QED
    BY <2>1, <2>2
<1>4. /\ _double_tap_task' \in Task /\ _double_tap_task'.step = "list"
      /\ TapTask(_double_tap_task') /\ Executed(_double_tap_task') \in Bursts /\ b \in Bursts
      /\ \A o \in Outputs : Count(Executed(_double_tap_task'), o)
                              = Count(Executed(_double_tap_task), o) + Count(b, o)
  BY <1>0, <1>1, <1>3, BurstFacts DEF NextBurst
<1>5. Presses(pressed') /\ AccountInv'
  <2>1. ASSUME NEW o \in Outputs
        PROVE  Owed(o)' = Owed(o) + Count(b, o)
    <3>1. /\ Count(_held_actions, o) \in Nat /\ Count(orphaned, o) \in Nat
          /\ Count(Executed(pipeline), o) \in Nat /\ Count(b, o) \in Nat
          /\ Count(Executed(_double_tap_task), o) \in Nat /\ Cancelled(o) \in Nat
      BY <1>2, <1>4, Basics, CountIsNat
    <3>2. Owed(o)' = Count(_held_actions, o) + Count(orphaned, o)
            + Count(Executed(pipeline), o) + (Count(Executed(_double_tap_task), o) + Count(b, o))
            + Cancelled(o)
      BY <1>1, <1>4 DEF Owed, Cancelled, cancelled, machine
    <3>3. Owed(o) = Count(_held_actions, o) + Count(orphaned, o)
                      + Count(Executed(pipeline), o) + Count(Executed(_double_tap_task), o)
                      + Cancelled(o)
      BY DEF Owed
    <3> QED
      BY <3>1, <3>2, <3>3
  <2> QED
    BY <1>1, <1>2, <1>4, <2>1, Basics, AccountPress
<1>6. TypeOK'
  BY <1>1, <1>2, <1>4, <1>5 DEF TypeOK, Presses, machine, cancelled
<1>7. TaskInv'
  BY <1>1, <1>2, <1>4 DEF TaskInv, machine
<1>8. StateInv'
  BY <1>1, <1>2, <1>4 DEF StateInv, cancelled, HeldSlot, machine
<1>9. HeldInv'
  BY <1>1, <1>2 DEF HeldInv, machine
<1>10. FiredInv'
  BY <1>1, <1>2, <1>4 DEF FiredInv, HoldIsFinal, machine
<1> QED
  BY <1>5, <1>6, <1>7, <1>8, <1>9, <1>10 DEF Inv

\* Its pulse is over.
LEMMA DoubleTapPulseEndsKeeps ==
    ASSUME Inv, DoubleTapPulseEnds
    PROVE  Inv'
<1>1. /\ Pulsing(_double_tap_task) /\ _double_tap_task' = [_double_tap_task EXCEPT !.step = "release"]
      /\ UNCHANGED <<physical, queue, machine, _hold_task, pipeline, strays, cancelled,
                     pressed, fired>>
  BY DEF DoubleTapPulseEnds
<1>2. TypeOK /\ TaskInv /\ StateInv /\ HeldInv /\ FiredInv /\ AccountInv
  BY DEF Inv
<1>3. _double_tap_task \in Task /\ TapTask(_double_tap_task) /\ _double_tap_task.step = "list"
  BY <1>1, <1>2 DEF TypeOK, TaskInv, Pulsing
<1>4. /\ _double_tap_task' \in Task /\ _double_tap_task'.step = "release" /\ TapTask(_double_tap_task')
      /\ Executed(_double_tap_task') = Executed(_double_tap_task)
  BY <1>1, <1>3, PulseFacts
<1>5. AccountInv'
  <2>1. \A o \in Outputs : Owed(o)' = Owed(o)
    BY <1>1, <1>4 DEF Owed, Cancelled, cancelled, machine
  <2> QED
    BY <1>1, <1>2, <2>1, Basics, AccountSame
<1>6. TypeOK'
  BY <1>1, <1>2, <1>4 DEF TypeOK, machine, cancelled
<1>7. TaskInv'
  BY <1>1, <1>2, <1>4 DEF TaskInv, machine
<1>8. StateInv'
  BY <1>1, <1>2, <1>3, <1>4 DEF StateInv, cancelled, HeldSlot, machine
<1>9. HeldInv'
  BY <1>1, <1>2 DEF HeldInv, machine
<1>10. FiredInv'
  BY <1>1, <1>2, <1>3, <1>4 DEF FiredInv, HoldIsFinal, machine
<1> QED
  BY <1>5, <1>6, <1>7, <1>8, <1>9, <1>10 DEF Inv

\* It releases a burst,
LEMMA DoubleTapReleaseKeeps ==
    ASSUME Inv, DoubleTapRelease
    PROVE  Inv'
<1> DEFINE b == <<_double_tap_task.list[_double_tap_task.done]>>
<1>1. /\ MayRelease(_double_tap_task) /\ _double_tap_task' = [_double_tap_task EXCEPT !.done = @ - 1]
      /\ pressed' = pressed (-) BagOfBursts(b)
      /\ UNCHANGED <<physical, queue, machine, _hold_task, pipeline, strays, cancelled,
                     fired>>
  BY DEF DoubleTapRelease
<1>2. TypeOK /\ TaskInv /\ StateInv /\ HeldInv /\ FiredInv /\ AccountInv
  BY DEF Inv
<1>3. _double_tap_task \in Task /\ TapTask(_double_tap_task) /\ _double_tap_task.step = "release"
  BY <1>1, <1>2 DEF TypeOK, TaskInv, MayRelease
<1>4. /\ _double_tap_task' \in Task /\ _double_tap_task'.step = "release" /\ TapTask(_double_tap_task')
      /\ Executed(_double_tap_task') \in Bursts /\ b \in Bursts
      /\ \A o \in Outputs :
           Count(Executed(_double_tap_task), o) = Count(Executed(_double_tap_task'), o) + Count(b, o)
  BY <1>1, <1>3, ReleaseFacts
<1> HIDE DEF b
<1>5. Presses(pressed') /\ AccountInv'
  <2>1. ASSUME NEW o \in Outputs
        PROVE  Owed(o)' \in Nat /\ Owed(o) = Owed(o)' + Count(b, o)
    <3>1. /\ Count(_held_actions, o) \in Nat /\ Count(orphaned, o) \in Nat
          /\ Count(Executed(_double_tap_task'), o) \in Nat /\ Count(b, o) \in Nat
          /\ Count(Executed(pipeline), o) \in Nat /\ Cancelled(o) \in Nat
      BY <1>2, <1>4, Basics, CountIsNat
    <3>2. Owed(o)' = Count(_held_actions, o) + Count(orphaned, o)
            + Count(Executed(pipeline'), o) + Count(Executed(_double_tap_task'), o) + Cancelled(o)
      BY <1>1 DEF Owed, Cancelled, cancelled, machine
    <3>3. Owed(o) = Count(_held_actions, o) + Count(orphaned, o)
            + Count(Executed(pipeline), o) + Count(Executed(_double_tap_task), o) + Cancelled(o)
      BY DEF Owed
    <3>4. Executed(pipeline') = Executed(pipeline)
      BY <1>1
    <3>5. Count(Executed(_double_tap_task), o) = Count(Executed(_double_tap_task'), o) + Count(b, o)
      BY <1>4
    <3> QED
      BY <3>1, <3>2, <3>3, <3>4, <3>5
  <2> QED
    BY <1>1, <1>2, <1>4, <2>1, Basics, AccountRelease
<1>6. TypeOK'
  BY <1>1, <1>2, <1>4, <1>5 DEF TypeOK, Presses, machine, cancelled
<1>7. TaskInv'
  BY <1>1, <1>2, <1>4 DEF TaskInv, machine
<1>8. StateInv'
  BY <1>1, <1>2, <1>3, <1>4 DEF StateInv, cancelled, HeldSlot, machine
<1>9. HeldInv'
  BY <1>1, <1>2 DEF HeldInv, machine
<1>10. FiredInv'
  BY <1>1, <1>2, <1>3, <1>4 DEF FiredInv, HoldIsFinal, machine
<1> QED
  BY <1>5, <1>6, <1>7, <1>8, <1>9, <1>10 DEF Inv

\* and is over.
LEMMA DoubleTapEndsKeeps ==
    ASSUME Inv, DoubleTapEnds
    PROVE  Inv'
<1>1. /\ _double_tap_task.step = "release" /\ _double_tap_task.done = 0
      /\ _double_tap_task' = NoTask
      /\ BecomeIdle(_held_actions, _hold_task)
      /\ UNCHANGED <<physical, queue, late, pipeline, cancelled, pressed, fired>>
  BY DEF DoubleTapEnds, AllReleased
<1>2. TypeOK /\ TaskInv /\ StateInv
  BY DEF Inv
<1>3. state = "UP_WAIT" /\ _hold_task.step # "timer" /\ pipeline.step = "none"
  BY <1>1, <1>2 DEF StateInv, TaskInv, TypeOK, Task
<1>4. Executed(pipeline) = <<>> /\ Executed(_double_tap_task) = <<>>
  BY <1>1, <1>2, <1>3, NothingLeft DEF TypeOK, Executed
<1> QED
  BY <1>1, <1>3, <1>4, IdleKeeps

\* A tap that was cut off releases a burst.
LEMMA CutReleaseKeeps ==
    ASSUME Inv, CutRelease
    PROVE  Inv'
<1>1. PICK i, b :
        /\ i \in 1..Len(cut) /\ b = <<cut[i]>> /\ cut' = RemoveAt(cut, i)
        /\ pressed' = pressed (-) BagOfBursts(b)
        /\ UNCHANGED <<physical, queue, machine, tasks, _running, lost, fired>>
  BY DEF CutRelease
<1>2. TypeOK /\ TaskInv /\ StateInv /\ HeldInv /\ FiredInv /\ AccountInv
  BY DEF Inv
<1>3. cut \in Bursts /\ Presses(pressed)
  BY <1>2, Basics
<1>4. /\ cut' \in Bursts /\ b \in Bursts
      /\ \A o : Count(cut, o) = Count(cut', o) + Count(b, o)
  BY <1>1, <1>3, OneOff
<1>5. Presses(pressed') /\ AccountInv'
  <2>1. ASSUME NEW o \in Outputs
        PROVE  Owed(o)' \in Nat /\ Owed(o) = Owed(o)' + Count(b, o)
    <3>1. /\ Count(_held_actions, o) \in Nat /\ Count(orphaned, o) \in Nat
          /\ Count(Executed(pipeline), o) \in Nat /\ Count(b, o) \in Nat
          /\ Count(Executed(_double_tap_task), o) \in Nat
          /\ Count(cut', o) \in Nat /\ Count(lost, o) \in Nat
      BY <1>2, <1>4, Basics, CountIsNat
    <3>2. Owed(o)' = Count(_held_actions, o) + Count(orphaned, o) + Count(Executed(pipeline), o)
                       + Count(Executed(_double_tap_task), o) + (Count(cut', o) + Count(lost, o))
      BY <1>1 DEF Owed, Cancelled, machine, tasks
    <3>3. Owed(o) = Count(_held_actions, o) + Count(orphaned, o) + Count(Executed(pipeline), o)
                      + Count(Executed(_double_tap_task), o)
                      + ((Count(cut', o) + Count(b, o)) + Count(lost, o))
      BY <1>4 DEF Owed, Cancelled
    <3> QED
      BY <3>1, <3>2, <3>3
  <2> QED
    BY <1>1, <1>2, <1>3, <1>4, <2>1, AccountRelease
<1>6. TypeOK'
  BY <1>1, <1>2, <1>4, <1>5 DEF TypeOK, Presses, Bursts, machine, tasks
<1>7. TaskInv'
  BY <1>1, <1>2 DEF TaskInv, machine, tasks
<1>8. StateInv' /\ HeldInv' /\ FiredInv'
  BY <1>1, <1>2 DEF StateInv, cancelled, HeldInv, FiredInv, HoldIsFinal, HeldSlot, machine, tasks
<1> QED
  BY <1>5, <1>6, <1>7, <1>8 DEF Inv

\* The mapping is replaced.
LEMMA RetireKeeps ==
    ASSUME Inv, Retire
    PROVE  Inv'
<1>1. TypeOK /\ TaskInv /\ StateInv /\ HeldInv /\ FiredInv /\ AccountInv
  BY DEF Inv
<1>2. UNCHANGED <<physical, queue, state, late, pipeline, _double_tap_task, cancelled, pressed,
                  fired>>
  BY DEF Retire
<1>3. CASE state = "IDLE" /\ _running
  <2>1. DropMachine(_held_actions, Outliving(_hold_task)) /\ _hold_task' = NoTask
    BY <1>3 DEF Retire
  <2>2. _held_actions \in Bursts /\ Presses(pressed) /\ GoodStrays(Outliving(_hold_task))
    BY <1>1, Basics, OutlivingFacts DEF TypeOK, TaskInv
  <2>3. /\ config' \in Configs /\ retiring' = FALSE /\ _held_actions' = <<>>
        /\ _held_actions' \in Bursts /\ orphaned' \in Bursts /\ GoodStrays(strays')
        /\ _held_actions = <<>> => orphaned' = orphaned
        /\ \A o \in Outputs : Count(_held_actions', o) + Count(orphaned', o)
                                = Count(_held_actions, o) + Count(orphaned, o)
    BY <1>1, <2>1, <2>2, DropFacts
  <2>4. AccountInv'
    <3>1. ASSUME NEW o \in Outputs
          PROVE  Owed(o)' = Owed(o)
      <4>1. Owed(o)' = Count(_held_actions', o) + Count(orphaned', o)
                         + Count(Executed(pipeline), o) + Count(Executed(_double_tap_task), o)
                         + Cancelled(o)
        BY <1>2 DEF Owed, Cancelled, cancelled
      <4> QED
        BY <2>3, <4>1 DEF Owed
    <3> QED
      BY <1>1, <1>2, <2>2, <3>1, AccountSame
  <2>5. TypeOK'
    BY <1>1, <1>2, <2>1, <2>3, TaskFacts DEF TypeOK, GoodStrays, Bursts, cancelled
  <2>6. TaskInv'
    BY <1>1, <1>2, <2>1, <2>3, TaskFacts DEF TaskInv, GoodStrays
  <2>7. StateInv'
    BY <1>1, <1>2, <1>3, <2>1, TaskFacts DEF StateInv, cancelled
  <2>8. HeldInv'
    BY <1>1, <1>2, <1>3, <2>3 DEF HeldInv
  <2>9. FiredInv'
    BY <1>1, <1>2 DEF FiredInv, HoldIsFinal
  <2> QED
    BY <2>4, <2>5, <2>6, <2>7, <2>8, <2>9 DEF Inv
<1>4. CASE ~(state = "IDLE" /\ _running)
  <2>1. retiring' = TRUE /\ UNCHANGED <<config, _held_actions, orphaned, _hold_task, strays>>
    BY <1>4 DEF Retire
  <2>2. TypeOK'
    BY <1>1, <1>2, <2>1 DEF TypeOK, cancelled
  <2>3. TaskInv'
    BY <1>1, <1>2, <2>1 DEF TaskInv
  <2>4. StateInv' /\ HeldInv' /\ FiredInv'
    BY <1>1, <1>2, <2>1 DEF StateInv, cancelled, HeldInv, FiredInv, HoldIsFinal, HeldSlot
  <2>5. AccountInv'
    <3>1. \A o \in Outputs : Owed(o)' = Owed(o)
      BY <1>2, <2>1 DEF Owed, Cancelled, cancelled
    <3> QED
      BY <1>1, <1>2, <3>1, Basics, AccountSame
  <2> QED
    BY <2>2, <2>3, <2>4, <2>5 DEF Inv
<1> QED
  BY <1>3, <1>4

\* A reset cancels the two timer tasks.
LEMMA StopKeeps ==
    ASSUME Inv, Stop
    PROVE  Inv'
<1>1. TypeOK /\ TaskInv /\ StateInv /\ HeldInv /\ FiredInv /\ AccountInv
  BY DEF Inv
<1>2. /\ _running' = FALSE /\ _hold_task' = NoTask /\ CancelDoubleTap
      /\ UNCHANGED <<physical, queue, config, state, retiring, _held_actions, orphaned, late,
                     pipeline, strays, pressed, fired>>
  BY DEF Stop, machine
<1>3. /\ _double_tap_task' = NoTask /\ cut' \in Bursts /\ lost' \in Bursts
      /\ Presses(pressed') /\ AccountInv'
  BY <1>1, <1>2, CancelFacts
<1>4. TypeOK'
  BY <1>1, <1>2, <1>3, TaskFacts DEF TypeOK, Presses, Bursts
<1>5. TaskInv'
  BY <1>1, <1>2, <1>3, TaskFacts DEF TaskInv
<1>6. StateInv'
  BY <1>1, <1>2, <1>3, TaskFacts DEF StateInv, cancelled
<1>7. HeldInv' /\ FiredInv'
  BY <1>1, <1>2 DEF HeldInv, FiredInv, HoldIsFinal
<1> QED
  BY <1>3, <1>4, <1>5, <1>6, <1>7 DEF Inv

\* The reset is over.
LEMMA StopEndsKeeps ==
    ASSUME Inv, StopEnds
    PROVE  Inv'
<1>1. TypeOK /\ TaskInv /\ StateInv /\ HeldInv /\ FiredInv /\ AccountInv
  BY DEF Inv
<1>2. /\ _held_actions = <<>> /\ _running' = TRUE /\ state' = "IDLE"
      /\ _hold_task' = NoTask /\ _double_tap_task' = NoTask /\ DropMachine(<<>>, <<>>)
      /\ UNCHANGED <<physical, queue, late, pipeline, cut, lost, pressed, fired>>
  BY DEF StopEnds
<1>3. <<>> \in Bursts /\ GoodStrays(<<>>)
  BY DEF Bursts, GoodStrays
<1>4. /\ config' \in Configs /\ retiring' = FALSE /\ _held_actions' = <<>>
      /\ _held_actions' \in Bursts /\ orphaned' = orphaned /\ GoodStrays(strays')
  BY <1>1, <1>2, <1>3, DropFacts
<1>5. AccountInv'
  <2>1. Executed(_double_tap_task) = <<>> /\ Executed(_double_tap_task') = <<>>
    BY <1>1, <1>2, TaskFacts DEF Executed, StateInv, StopEnds
  <2>2. \A o \in Outputs : Owed(o)' = Owed(o)
    BY <1>2, <1>4, <2>1 DEF Owed, Cancelled
  <2> QED
    BY <1>1, <1>2, <2>2, Basics, AccountSame
<1>6. TypeOK'
  BY <1>1, <1>2, <1>4, TaskFacts DEF TypeOK, GoodStrays, States, Bursts
<1>7. TaskInv'
  BY <1>1, <1>2, <1>4, TaskFacts DEF TaskInv, GoodStrays
<1>8. StateInv'
  BY <1>1, <1>2, TaskFacts DEF StateInv, cancelled
<1>9. HeldInv'
  BY <1>1, <1>2, <1>4 DEF HeldInv
<1>10. FiredInv'
  BY <1>1, <1>2 DEF FiredInv, HoldIsFinal
<1> QED
  BY <1>5, <1>6, <1>7, <1>8, <1>9, <1>10 DEF Inv
-----------------------------------------------------------------------------
(* The theorems. *)

\* The invariant holds at first.
LEMMA InitKeeps == Init => Inv
<1> SUFFICES ASSUME Init PROVE Inv
  OBVIOUS
<1>1. TypeOK
  <2>1. IsABag(pressed) /\ BagToSet(pressed) = {}
    BY DEF Init, EmptyBag, SetToBag, IsABag, BagToSet
  <2>2. pipeline \in Task /\ _hold_task \in Task /\ _double_tap_task \in Task
    BY TaskFacts DEF Init
  <2>3. /\ strays \in Seq(Task) /\ queue \in Seq({0, 1}) /\ fired \in Seq(Slots)
        /\ _held_actions \in Seq(SUBSET Outputs) /\ orphaned \in Seq(SUBSET Outputs)
        /\ cut \in Seq(SUBSET Outputs) /\ lost \in Seq(SUBSET Outputs)
    BY DEF Init
  <2>4. BagToSet(pressed) \subseteq Outputs
    BY <2>1
  <2> QED
    BY <2>1, <2>2, <2>3, <2>4 DEF Init, TypeOK, States
<1>2. TaskInv /\ StateInv
  BY TaskFacts DEF Init, TaskInv, StateInv
<1>3. HeldInv /\ FiredInv
  BY DEF Init, HeldInv, FiredInv, HoldIsFinal
<1>4. AccountInv
  <2>1. ASSUME NEW o \in Outputs
        PROVE  Copies(o, pressed) = Owed(o)
    <3>1. Copies(o, pressed) = 0
      BY DEF Init, Copies, EmptyBag, SetToBag
    <3>2. /\ Count(_held_actions, o) = 0 /\ Count(orphaned, o) = 0
          /\ Count(Executed(pipeline), o) = 0 /\ Count(Executed(_double_tap_task), o) = 0
          /\ Cancelled(o) = 0
      BY TaskFacts, CountEmpty DEF Init, Cancelled
    <3> QED
      BY <3>1, <3>2 DEF Owed
  <2> QED
    BY <2>1 DEF AccountInv
<1> QED
  BY <1>1, <1>2, <1>3, <1>4 DEF Inv

\* A step that changes nothing keeps the invariant.
LEMMA StutterKeeps ==
    ASSUME Inv, UNCHANGED vars
    PROVE  Inv'
<1>1. TypeOK'
  BY DEF Inv, TypeOK, vars, machine, tasks, cancelled
<1>2. TaskInv'
  BY DEF Inv, TaskInv, vars, machine, tasks
<1>3. StateInv' /\ HeldInv' /\ FiredInv'
  BY DEF Inv, StateInv, cancelled, HeldInv, FiredInv, HoldIsFinal, HeldSlot, vars, machine, tasks
<1>4. AccountInv'
  <2>1. \A o \in Outputs : Owed(o)' = Owed(o)
    BY DEF Owed, Cancelled, vars, machine, tasks, cancelled
  <2> QED
    BY <2>1, Basics, AccountSame DEF Inv, vars
<1> QED
  BY <1>1, <1>2, <1>3, <1>4 DEF Inv

\* The invariant of the whole machine is inductive.
LEMMA Inductive == Spec => []Inv
<1>1. ASSUME Inv, [Next]_vars
      PROVE  Inv'
  <2>1. CASE SourceKey
    BY <1>1, <2>1, SourceEventKeeps DEF SourceKey
  <2>2. CASE Pipeline
    <3>1. CASE HeldRelease
      BY <1>1, <3>1, ReleaseHeldKeeps DEF HeldRelease
    <3>2. CASE ~HeldRelease
      BY <1>1, <2>2, <3>2, DownFirstKeeps, DownSecondKeeps, UpFirstKeeps, UpSecondKeeps,
         UpHeldKeeps, HeldReleasedKeeps, IgnoredKeeps, PipelineBurstKeeps,
         PipelinePulseEndsKeeps, PipelineReleaseKeeps, PipelineTapEndsKeeps DEF Pipeline
    <3> QED
      BY <3>1, <3>2
  <2>3. CASE HoldTask
    BY <1>1, <2>3, HoldTimeoutKeeps, HoldBurstKeeps DEF HoldTask
  <2>4. CASE StrayBurst
    BY <1>1, <2>4, StrayBurstKeeps
  <2>5. CASE DoubleTapTask
    BY <1>1, <2>5, DoubleTapTimeoutKeeps, DoubleTapBurstKeeps, DoubleTapPulseEndsKeeps,
       DoubleTapReleaseKeeps, DoubleTapEndsKeeps DEF DoubleTapTask
  <2>6. CASE Retire
    BY <1>1, <2>6, RetireKeeps
  <2>7. CASE Stop
    BY <1>1, <2>7, StopKeeps
  <2>8. CASE CutRelease
    BY <1>1, <2>8, CutReleaseKeeps
  <2>9. CASE Reset
    <3>1. CASE StopRelease
      BY <1>1, <3>1, ReleaseHeldKeeps DEF StopRelease
    <3>2. CASE StopEnds
      BY <1>1, <3>2, StopEndsKeeps
    <3> QED
      BY <2>9, <3>1, <3>2 DEF Reset
  <2>10. CASE UNCHANGED vars
    BY <1>1, <2>10, StutterKeeps
  <2> QED
    BY <1>1, <2>1, <2>2, <2>3, <2>4, <2>5, <2>6, <2>7, <2>8, <2>9, <2>10 DEF Next
<1> QED
  BY <1>1, InitKeeps, PTL DEF Spec

\* Every press in the shared press counts (superkey_state.py: _held_actions and the
\* lists of _emit_tap) is owed exactly one release: by the held actions of this or a
\* dropped machine, by a tap under way or by one that was cut off; or it was lost, when
\* _on_second_down or stop cancelled the tap while it released.  No interleaving of the
\* pipeline, the two timers, a retirement and a reset releases an output twice or
\* forgets one in another way.
THEOREM EveryPressIsOwed == Spec => [](TypeOK /\ PressedIsAccounted)
<1>1. ASSUME Inv
      PROVE  TypeOK /\ PressedIsAccounted
  <2>0. PICK h, p, d : h = _held_actions /\ p = Executed(pipeline) /\ d = Executed(_double_tap_task)
    OBVIOUS
  <2>1. TypeOK /\ TaskInv /\ AccountInv
    BY <1>1 DEF Inv
  <2>2. /\ h \in Bursts /\ orphaned \in Bursts /\ p \in Bursts /\ d \in Bursts
        /\ cut \in Bursts /\ lost \in Bursts /\ Presses(pressed)
    BY <2>0, <2>1, Basics
  <2> DEFINE all == ((((h \o orphaned) \o p) \o d) \o cut) \o lost
  <2>3. /\ all \in Bursts
        /\ \A o \in Outputs : Count(all, o)
             = ((((Count(h, o) + Count(orphaned, o)) + Count(p, o)) + Count(d, o))
                  + Count(cut, o)) + Count(lost, o)
    <3>1. /\ h \o orphaned \in Bursts
          /\ \A o \in Outputs : Count(h \o orphaned, o) = Count(h, o) + Count(orphaned, o)
      BY <2>2, CountConcat
    <3>2. /\ (h \o orphaned) \o p \in Bursts
          /\ \A o \in Outputs : Count((h \o orphaned) \o p, o)
                                  = Count(h \o orphaned, o) + Count(p, o)
      BY <2>2, <3>1, CountConcat
    <3>3. /\ ((h \o orphaned) \o p) \o d \in Bursts
          /\ \A o \in Outputs : Count(((h \o orphaned) \o p) \o d, o)
                                  = Count((h \o orphaned) \o p, o) + Count(d, o)
      BY <2>2, <3>2, CountConcat
    <3>4. /\ (((h \o orphaned) \o p) \o d) \o cut \in Bursts
          /\ \A o \in Outputs : Count((((h \o orphaned) \o p) \o d) \o cut, o)
                                  = Count(((h \o orphaned) \o p) \o d, o) + Count(cut, o)
      BY <2>2, <3>3, CountConcat
    <3>5. /\ all \in Bursts
          /\ \A o \in Outputs : Count(all, o)
               = Count((((h \o orphaned) \o p) \o d) \o cut, o) + Count(lost, o)
      BY <2>2, <3>4, CountConcat
    <3> QED
      BY <3>1, <3>2, <3>3, <3>4, <3>5
  <2> HIDE DEF all
  <2>4. /\ Presses(BagOfBursts(all))
        /\ \A o \in Outputs : Copies(o, BagOfBursts(all)) = Count(all, o)
    BY <2>3, BagOfBurstsFacts
  <2>5. ASSUME NEW o \in Outputs
        PROVE  Copies(o, pressed) = Copies(o, BagOfBursts(all))
    <3>1. Copies(o, pressed) = Count(h, o) + Count(orphaned, o) + Count(p, o) + Count(d, o)
                                 + (Count(cut, o) + Count(lost, o))
      BY <2>0, <2>1 DEF AccountInv, Owed, Cancelled
    <3>2. /\ Count(h, o) \in Nat /\ Count(orphaned, o) \in Nat /\ Count(p, o) \in Nat
          /\ Count(d, o) \in Nat /\ Count(cut, o) \in Nat /\ Count(lost, o) \in Nat
      BY <2>2, CountIsNat
    <3>3. Count(all, o) = ((((Count(h, o) + Count(orphaned, o)) + Count(p, o)) + Count(d, o))
                             + Count(cut, o)) + Count(lost, o)
      BY <2>3
    <3>4. Copies(o, BagOfBursts(all)) = Count(all, o)
      BY <2>4
    <3> QED
      BY <3>1, <3>2, <3>3, <3>4
  <2>6. pressed = BagOfBursts(all)
    BY <2>2, <2>4, <2>5, SameBag
  <2> QED
    BY <2>0, <2>1, <2>6 DEF PressedIsAccounted, all
<1> QED
  BY <1>1, Inductive, PTL

\* An idle machine with nothing under way in the pipeline holds nothing down but what
\* a cancelled tap has yet to release or was kept from releasing, unless a hold list
\* that awaited an action pressed something after _on_hold_release had popped the held
\* actions (superkey_state.py: _execute_actions_down).
THEOREM IdleHoldsNothing == Spec => []IdleReleased
<1>1. ASSUME Inv
      PROVE  IdleReleased
  <2> SUFFICES ASSUME state = "IDLE", pipeline = NoTask, ~late
               PROVE  pressed = BagOfBursts(cut \o lost)
    BY DEF IdleReleased
  <2>1. TypeOK /\ TaskInv /\ StateInv /\ HeldInv /\ AccountInv
    BY <1>1 DEF Inv
  <2>2. _held_actions = <<>> /\ orphaned = <<>>
    BY <2>1 DEF HeldInv
  <2>3. Executed(pipeline) = <<>> /\ Executed(_double_tap_task) = <<>>
    BY <2>1, TaskFacts DEF StateInv, TypeOK, Task, Executed
  <2>4. Presses(pressed) /\ cut \in Bursts /\ lost \in Bursts
    BY <2>1, Basics
  <2>5. /\ cut \o lost \in Bursts
        /\ \A o \in Outputs : Count(cut \o lost, o) = Count(cut, o) + Count(lost, o)
    BY <2>4, CountConcat
  <2>6. /\ Presses(BagOfBursts(cut \o lost))
        /\ \A o \in Outputs : Copies(o, BagOfBursts(cut \o lost)) = Count(cut \o lost, o)
    BY <2>5, BagOfBurstsFacts
  <2>7. ASSUME NEW o \in Outputs
        PROVE  Copies(o, pressed) = Copies(o, BagOfBursts(cut \o lost))
    <3>1. Count(<<>>, o) = 0 /\ Count(cut, o) \in Nat /\ Count(lost, o) \in Nat
      BY <2>4, CountEmpty, CountIsNat
    <3>2. Copies(o, pressed) = Count(<<>>, o) + Count(<<>>, o) + Count(<<>>, o) + Count(<<>>, o)
                                 + (Count(cut, o) + Count(lost, o))
      BY <2>1, <2>2, <2>3 DEF AccountInv, Owed, Cancelled
    <3> QED
      BY <2>5, <2>6, <3>1, <3>2
  <2> QED
    BY <2>4, <2>6, <2>7, SameBag
<1> QED
  BY <1>1, Inductive, PTL

\* Once Hold, Tap + Hold or Double tap has fired, no other slot of the gesture does:
\* _hold_timeout, the releases and the double-tap timer never fire a second slot
\* unless the first was a tap whose window ran out.
THEOREM HeldGestureWins == Spec => []HoldIsFinal
<1>1. Inv => HoldIsFinal
  BY DEF Inv, FiredInv
<1> QED
  BY <1>1, Inductive, PTL
=============================================================================
