----------------------------- MODULE SleepProofs -----------------------------
(***************************************************************************)
(* What holds of the sleep coordinator for every bound on its queues.      *)
(***************************************************************************)
EXTENDS Sleep, FiniteSetTheorems, SequenceTheorems, TLAPS

-----------------------------------------------------------------------------
(* Counting the suspends of a queue. *)

\* The suspends of a queue are finitely many positions of it.
LEMMA SuspendsType ==
    ASSUME NEW S, NEW q \in Seq(S)
    PROVE  /\ IsFiniteSet({i \in 1..Len(q) : q[i] = "sleep"})
           /\ Suspends(q) \in Nat
<1>1. IsFiniteSet(1..Len(q))
  BY FS_Interval
<1>2. {i \in 1..Len(q) : q[i] = "sleep"} \in SUBSET (1..Len(q))
  OBVIOUS
<1> QED
  BY <1>1, <1>2, FS_Subset, FS_CardinalityType DEF Suspends

\* An empty queue holds no suspend.
LEMMA SuspendsEmpty == Suspends(<<>>) = 0
<1>1. {i \in 1..Len(<<>>) : <<>>[i] = "sleep"} = {}
  OBVIOUS
<1> QED
  BY <1>1, FS_EmptySet DEF Suspends

\* Queuing an event adds one suspend if that is what it is, and else none.
LEMMA SuspendsAppend ==
    ASSUME NEW S, NEW q \in Seq(S), NEW e \in S
    PROVE  Suspends(Append(q, e)) = Suspends(q) + (IF e = "sleep" THEN 1 ELSE 0)
<1> DEFINE old == {i \in 1..Len(q) : q[i] = "sleep"}
           new == {i \in 1..Len(Append(q, e)) : Append(q, e)[i] = "sleep"}
           n   == Len(q) + 1
<1>1. IsFiniteSet(old) /\ n \notin old
  BY SuspendsType
<1>2. /\ Len(Append(q, e)) = n
      /\ \A i \in 1..Len(q) : Append(q, e)[i] = q[i]
      /\ Append(q, e)[n] = e
  BY AppendProperties
<1>3. new = IF e = "sleep" THEN old \cup {n} ELSE old
  BY <1>2
<1>4. Cardinality(old \cup {n}) = Cardinality(old) + 1
  BY <1>1, FS_AddElement
<1>5. Cardinality(old) \in Nat
  BY <1>1, FS_CardinalityType
<1> HIDE DEF old, new, n
<1>6. Cardinality(new) = Cardinality(old) + (IF e = "sleep" THEN 1 ELSE 0)
  <2>1. CASE e = "sleep"
    BY <2>1, <1>3, <1>4
  <2>2. CASE e # "sleep"
    BY <2>2, <1>3, <1>5
  <2> QED
    BY <2>1, <2>2
<1> QED
  BY <1>6 DEF Suspends, old, new

\* Taking the head of a queue removes one suspend if that is what it is.
LEMMA SuspendsTail ==
    ASSUME NEW S, NEW q \in Seq(S), q # <<>>
    PROVE  Suspends(q) = Suspends(Tail(q)) + (IF Head(q) = "sleep" THEN 1 ELSE 0)
<1> DEFINE old == {i \in 1..Len(q) : q[i] = "sleep"}
           new == {i \in 1..Len(Tail(q)) : Tail(q)[i] = "sleep"}
           moved == {i \in old : i # 1}
           shift == [i \in new |-> i + 1]
<1>1. /\ Tail(q) \in Seq(S) /\ Len(Tail(q)) = Len(q) - 1 /\ Len(q) \in Nat \ {0}
      /\ \A i \in 1..Len(Tail(q)) : Tail(q)[i] = q[i + 1]
      /\ Head(q) = q[1]
  BY HeadTailProperties
<1>2. IsFiniteSet(old) /\ IsFiniteSet(new)
  BY <1>1, SuspendsType
<1>3. shift \in Bijection(new, moved)
  <2>1. shift \in [new -> moved]
    BY <1>1
  <2>2. \A i, j \in new : shift[i] = shift[j] => i = j
    OBVIOUS
  <2>3. \A j \in moved : \E i \in new : shift[i] = j
    <3> SUFFICES ASSUME NEW j \in moved PROVE \E i \in new : shift[i] = j
      OBVIOUS
    <3>1. j - 1 \in new /\ shift[j - 1] = j
      BY <1>1
    <3> QED
      BY <3>1
  <2> QED
    BY <2>1, <2>2, <2>3 DEF Bijection, Injection, Surjection, IsInjective
<1>4. IsFiniteSet(moved) /\ Cardinality(moved) = Cardinality(new)
  BY <1>2, <1>3, FS_Bijection DEF ExistsBijection
<1>5. old = IF Head(q) = "sleep" THEN moved \cup {1} ELSE moved
  BY <1>1
<1>6. Cardinality(moved \cup {1}) = Cardinality(moved) + 1
  BY <1>4, FS_AddElement
<1>7. Cardinality(moved) \in Nat
  BY <1>4, FS_CardinalityType
<1> HIDE DEF old, new, moved, shift
<1>8. Cardinality(old) = Cardinality(new) + (IF Head(q) = "sleep" THEN 1 ELSE 0)
  <2>1. CASE Head(q) = "sleep"
    BY <2>1, <1>4, <1>5, <1>6
  <2>2. CASE Head(q) # "sleep"
    BY <2>2, <1>4, <1>5, <1>7
  <2> QED
    BY <2>1, <2>2
<1> QED
  BY <1>8 DEF Suspends, old, new

-----------------------------------------------------------------------------
(* The counter of outstanding neutralizations. *)

\* An empty queue has the type of every queue.
LEMMA EmptyQueues == <<>> \in Seq({"sleep", "wake"}) /\ <<>> \in Seq({"sleep", "wake", "stop"})
OBVIOUS

\* start() creates the worker only when it succeeds.
WorkerNotStarted == supervisor = "starting" => worker = "absent"

\* TypeOK is not inductive alone: that the counter stays a natural number when a
\* neutralization ends rests on what it counts, and that the new worker has nothing
\* in its hands rests on there being only one.
CountInv == TypeOK /\ PendingMatchesQueue /\ WorkerNotStarted

\* No step but start()'s success gives a worker to a coordinator that starts.
LEMMA WorkerNotStartedStep == WorkerNotStarted /\ [Next]_vars => WorkerNotStarted'
<1> SUFFICES ASSUME WorkerNotStarted, [Next]_vars PROVE WorkerNotStarted'
  OBVIOUS
<1>1. CASE Machine \/ Deliver \/ MaskRecovery \/ Client \/ UNCHANGED vars
  BY <1>1 DEF WorkerNotStarted, Machine, PrepareForSleep, Suspend, Wake, ConnectionLost, Input,
     Deliver, MaskRecovery, MaskNeutralizeBegin, MaskNeutralizeEnd, vars, Client,
     RequestArrives, RequestAnswered, SessionCloses, SessionClosed, SleepUnchanged
<1>2. CASE Worker
  BY <1>2 DEF WorkerNotStarted, Worker, TakeSuspend, WorkerNeutralizeBegin,
     WorkerNeutralizeEnd, MonitorStopped, HardwareCleanedUp, TakeWake, WorkerAcquired, WorkerAcquireFails,
     TakeStop
<1>3. CASE Supervisor
  BY <1>3 DEF WorkerNotStarted, Supervisor, Started, StartFails, ConnectionClosed, Connect,
     Connected, ConnectFails, Stop, StopWorker, Stopped
<1> QED
  BY <1>1, <1>2, <1>3 DEF Next

\* Nothing waits and nothing is counted in the beginning.
LEMMA CountInvInit == Init => CountInv
<1> SUFFICES ASSUME Init PROVE CountInv
  OBVIOUS
<1>1. LogindTypes /\ ConnectionTypes
  BY EmptyQueues DEF Init, LogindTypes, ConnectionTypes, SupervisorSteps
<1>2. CoordinatorTypes /\ RuntimeTypes
  BY EmptyQueues DEF Init, CoordinatorTypes, RuntimeTypes, WorkerSteps
<1>3. PendingMatchesQueue
  BY SuspendsEmpty DEF Init, PendingMatchesQueue
<1>4. WorkerNotStarted
  BY DEF Init, WorkerNotStarted
<1> QED
  BY <1>1, <1>2, <1>3, <1>4 DEF CountInv, TypeOK

\* A signal that is handled, real or made up, is queued and counted at once.
LEMMA CountInvHandler ==
    ASSUME CountInv, NEW signal \in {"sleep", "wake"}, _on_prepare_for_sleep(signal),
           UNCHANGED worker \/ RefuseWorker, UNCHANGED monitoring
    PROVE  PendingMatchesQueue' /\ CoordinatorTypes' /\ RuntimeTypes'
<1> DEFINE Kinds == {"sleep", "wake", "stop"}
<1>1. _events \in Seq(Kinds) /\ signal \in Kinds
  BY DEF CountInv, TypeOK, CoordinatorTypes
<1>2. Suspends(_events) \in Nat
  BY <1>1, SuspendsType
<1>3. Suspends(Append(_events, signal)) = Suspends(_events) + (IF signal = "sleep" THEN 1 ELSE 0)
  BY <1>1, SuspendsAppend
<1>4. _events' = Append(_events, signal) /\ _events' \in Seq(Kinds)
  BY <1>1 DEF _on_prepare_for_sleep
<1>5. /\ _pending_neutralizations' = _pending_neutralizations + (IF signal = "sleep" THEN 1 ELSE 0)
      /\ _pending_neutralizations' \in Nat
  <2>1. _pending_neutralizations \in Nat
    BY DEF CountInv, TypeOK, CoordinatorTypes
  <2>2. CASE signal = "sleep"
    BY <2>1, <2>2 DEF _on_prepare_for_sleep
  <2>3. CASE signal = "wake"
    BY <2>1, <2>3 DEF _on_prepare_for_sleep
  <2> QED
    BY <2>2, <2>3
<1>6. PendingMatchesQueue'
  BY <1>2, <1>3, <1>4, <1>5 DEF PendingMatchesQueue, CountInv, RefuseWorker
<1>7. /\ _sleep_requested' \in BOOLEAN /\ _runtime_paused' \in BOOLEAN
      /\ _runtime_input_paused' \in BOOLEAN
  BY DEF _on_prepare_for_sleep, ResumeIfReady, CountInv, TypeOK, CoordinatorTypes, RuntimeTypes
<1>8. worker' \in WorkerSteps
  BY DEF CountInv, TypeOK, CoordinatorTypes, RefuseWorker, WorkerSteps
<1> QED
  BY <1>4, <1>5, <1>6, <1>7, <1>8
     DEF _on_prepare_for_sleep, CountInv, TypeOK, CoordinatorTypes, RuntimeTypes, monitoring

\* Every step keeps the types and the count.
LEMMA CountInvStep == CountInv /\ [Next]_vars => CountInv'
<1> SUFFICES ASSUME CountInv, [Next]_vars PROVE CountInv'
  OBVIOUS
<1>w. WorkerNotStarted'
  BY WorkerNotStartedStep DEF CountInv
<1> SUFFICES TypeOK' /\ PendingMatchesQueue'
  BY <1>w DEF CountInv
<1> USE DEF CountInv, TypeOK, monitoring
<1> DEFINE Kinds == {"sleep", "wake", "stop"}
<1>0. _events \in Seq(Kinds) /\ Suspends(_events) \in Nat
  BY SuspendsType DEF CoordinatorTypes
<1>1. CASE PrepareForSleep
  <2>1. LogindTypes' /\ ConnectionTypes'
    BY <1>1 DEF PrepareForSleep, Announce, LogindTypes, ConnectionTypes, SupervisorSteps,
       logind,
       connection, inhibitor
  <2>2. CoordinatorTypes' /\ RuntimeTypes' /\ PendingMatchesQueue'
    BY <1>1 DEF PrepareForSleep, Announce, CoordinatorTypes, RuntimeTypes, WorkerSteps,
       PendingMatchesQueue, coordinator, runtime
  <2> QED
    BY <2>1, <2>2
<1>2. CASE Suspend
  <2>1. LogindTypes' /\ ConnectionTypes'
    BY <1>2 DEF Suspend, LogindTypes, ConnectionTypes, SupervisorSteps, logind,
       connection, inhibitor
  <2>2. CoordinatorTypes' /\ RuntimeTypes' /\ PendingMatchesQueue'
    BY <1>2 DEF Suspend, CoordinatorTypes, RuntimeTypes, WorkerSteps,
       PendingMatchesQueue, coordinator, runtime
  <2> QED
    BY <2>1, <2>2
<1>3. CASE Wake
  <2>1. LogindTypes' /\ ConnectionTypes'
    BY <1>3 DEF Wake, Announce, LogindTypes, ConnectionTypes, SupervisorSteps, logind,
       connection, inhibitor
  <2>2. CoordinatorTypes' /\ RuntimeTypes' /\ PendingMatchesQueue'
    BY <1>3 DEF Wake, Announce, CoordinatorTypes, RuntimeTypes, WorkerSteps,
       PendingMatchesQueue, coordinator, runtime
  <2> QED
    BY <2>1, <2>2
<1>4. CASE ConnectionLost
  <2>1. LogindTypes' /\ ConnectionTypes'
    BY <1>4, EmptyQueues DEF ConnectionLost, LogindTypes, ConnectionTypes, SupervisorSteps,
       logind,
       connection, inhibitor
  <2>2. CoordinatorTypes' /\ RuntimeTypes' /\ PendingMatchesQueue'
    BY <1>4 DEF ConnectionLost, CoordinatorTypes, RuntimeTypes, WorkerSteps,
       PendingMatchesQueue, coordinator, runtime
  <2> QED
    BY <2>1, <2>2
<1>5. CASE Input
  <2>1. LogindTypes' /\ ConnectionTypes'
    BY <1>5 DEF Input, LogindTypes, ConnectionTypes, SupervisorSteps, logind,
       connection, inhibitor
  <2>2. CoordinatorTypes' /\ RuntimeTypes' /\ PendingMatchesQueue'
    BY <1>5 DEF Input, CoordinatorTypes, RuntimeTypes, WorkerSteps,
       PendingMatchesQueue, coordinator, runtime
  <2> QED
    BY <2>1, <2>2
<1>6. CASE MaskNeutralizeBegin
  <2>1. LogindTypes' /\ ConnectionTypes'
    BY <1>6 DEF MaskNeutralizeBegin, NeutralizeBegin, LogindTypes, ConnectionTypes,
       SupervisorSteps, logind,
       connection, inhibitor
  <2>2. CoordinatorTypes' /\ RuntimeTypes' /\ PendingMatchesQueue'
    BY <1>6 DEF MaskNeutralizeBegin, NeutralizeBegin, CoordinatorTypes, RuntimeTypes,
       WorkerSteps,
       PendingMatchesQueue, coordinator, runtime
  <2> QED
    BY <2>1, <2>2
<1>7. CASE MaskNeutralizeEnd
  <2>1. LogindTypes' /\ ConnectionTypes'
    BY <1>7 DEF MaskNeutralizeEnd, NeutralizeEnd, LogindTypes, ConnectionTypes,
       SupervisorSteps, logind,
       connection, inhibitor
  <2>2. CoordinatorTypes' /\ RuntimeTypes' /\ PendingMatchesQueue'
    BY <1>7 DEF MaskNeutralizeEnd, NeutralizeEnd, CoordinatorTypes, RuntimeTypes, WorkerSteps,
       PendingMatchesQueue, coordinator, runtime
  <2> QED
    BY <2>1, <2>2
<1>8. CASE HardwareCleanedUp
  <2>1. LogindTypes' /\ ConnectionTypes'
    BY <1>8 DEF HardwareCleanedUp, LogindTypes, ConnectionTypes, SupervisorSteps, logind,
       connection, inhibitor
  <2>2. CoordinatorTypes' /\ RuntimeTypes' /\ PendingMatchesQueue'
    BY <1>8 DEF HardwareCleanedUp, CoordinatorTypes, RuntimeTypes, WorkerSteps,
       PendingMatchesQueue, coordinator, runtime
  <2> QED
    BY <2>1, <2>2
<1>9. CASE WorkerAcquired
  <2>1. LogindTypes' /\ ConnectionTypes'
    BY <1>9 DEF WorkerAcquired, StoreInhibitor, LogindTypes, ConnectionTypes,
       SupervisorSteps, logind,
       connection, inhibitor
  <2>2. CoordinatorTypes' /\ RuntimeTypes' /\ PendingMatchesQueue'
    BY <1>9 DEF WorkerAcquired, StoreInhibitor, CoordinatorTypes, RuntimeTypes, WorkerSteps,
       PendingMatchesQueue, coordinator, runtime
  <2> QED
    BY <2>1, <2>2
<1>10. CASE WorkerAcquireFails
  <2>1. LogindTypes' /\ ConnectionTypes'
    BY <1>10 DEF WorkerAcquireFails, LogindTypes, ConnectionTypes, SupervisorSteps, logind,
       connection, inhibitor
  <2>2. CoordinatorTypes' /\ RuntimeTypes' /\ PendingMatchesQueue'
    BY <1>10 DEF WorkerAcquireFails, CoordinatorTypes, RuntimeTypes, WorkerSteps,
       PendingMatchesQueue, coordinator, runtime
  <2> QED
    BY <2>1, <2>2
<1>11. CASE Started
  <2>1. LogindTypes' /\ ConnectionTypes'
    BY <1>11 DEF Started, StoreInhibitor, LogindTypes, ConnectionTypes, SupervisorSteps,
       logind,
       connection, inhibitor
  <2>2. CoordinatorTypes' /\ RuntimeTypes' /\ PendingMatchesQueue'
    BY <1>11 DEF Started, StoreInhibitor, CoordinatorTypes, RuntimeTypes, WorkerSteps,
       PendingMatchesQueue, WorkerNotStarted, coordinator, runtime
  <2> QED
    BY <2>1, <2>2
<1>12. CASE StartFails
  <2>1. LogindTypes' /\ ConnectionTypes'
    BY <1>12, EmptyQueues DEF StartFails, CloseConnection, LogindTypes, ConnectionTypes,
       SupervisorSteps, logind,
       connection, inhibitor
  <2>2. CoordinatorTypes' /\ RuntimeTypes' /\ PendingMatchesQueue'
    BY <1>12 DEF StartFails, CloseConnection, CoordinatorTypes, RuntimeTypes, WorkerSteps,
       PendingMatchesQueue, coordinator, runtime
  <2> QED
    BY <2>1, <2>2
<1>13. CASE Connect
  <2>1. LogindTypes' /\ ConnectionTypes'
    BY <1>13 DEF Connect, LogindTypes, ConnectionTypes, SupervisorSteps, logind,
       connection, inhibitor
  <2>2. CoordinatorTypes' /\ RuntimeTypes' /\ PendingMatchesQueue'
    BY <1>13 DEF Connect, CoordinatorTypes, RuntimeTypes, WorkerSteps,
       PendingMatchesQueue, coordinator, runtime
  <2> QED
    BY <2>1, <2>2
<1>14. CASE Connected
  <2>1. LogindTypes' /\ ConnectionTypes'
    BY <1>14 DEF Connected, StoreInhibitor, LogindTypes, ConnectionTypes, SupervisorSteps,
       logind,
       connection, inhibitor
  <2>2. CoordinatorTypes' /\ RuntimeTypes' /\ PendingMatchesQueue'
    BY <1>14 DEF Connected, StoreInhibitor, CoordinatorTypes, RuntimeTypes, WorkerSteps,
       PendingMatchesQueue, coordinator, runtime
  <2> QED
    BY <2>1, <2>2
<1>15. CASE ConnectFails
  <2>1. LogindTypes' /\ ConnectionTypes'
    BY <1>15, EmptyQueues DEF ConnectFails, CloseConnection, LogindTypes, ConnectionTypes,
       SupervisorSteps, logind,
       connection, inhibitor
  <2>2. CoordinatorTypes' /\ RuntimeTypes' /\ PendingMatchesQueue'
    BY <1>15 DEF ConnectFails, CloseConnection, RefuseWorker, CoordinatorTypes,
       RuntimeTypes, WorkerSteps,
       PendingMatchesQueue, coordinator, runtime
  <2> QED
    BY <2>1, <2>2
<1>16. CASE Stop
  <2>1. LogindTypes' /\ ConnectionTypes'
    BY <1>16 DEF Stop, LogindTypes, ConnectionTypes, SupervisorSteps, logind,
       connection, inhibitor
  <2>2. CoordinatorTypes' /\ RuntimeTypes' /\ PendingMatchesQueue'
    BY <1>16 DEF Stop, CoordinatorTypes, RuntimeTypes, WorkerSteps,
       PendingMatchesQueue, coordinator, runtime
  <2> QED
    BY <2>1, <2>2
<1>17. CASE Stopped
  <2>1. LogindTypes' /\ ConnectionTypes'
    BY <1>17, EmptyQueues DEF Stopped, CloseConnection, LogindTypes, ConnectionTypes,
       SupervisorSteps, logind,
       connection, inhibitor
  <2>2. CoordinatorTypes' /\ RuntimeTypes' /\ PendingMatchesQueue'
    BY <1>17 DEF Stopped, CloseConnection, CoordinatorTypes, RuntimeTypes, WorkerSteps,
       PendingMatchesQueue, coordinator, runtime
  <2> QED
    BY <2>1, <2>2
<1>18. CASE Deliver
  <2>1. Head(signals) \in {"sleep", "wake"}
    BY <1>18 DEF Deliver, LogindTypes
  <2>2. _on_prepare_for_sleep(Head(signals)) /\ UNCHANGED <<worker, monitoring>>
    BY <1>18 DEF Deliver
  <2>3. PendingMatchesQueue' /\ CoordinatorTypes' /\ RuntimeTypes'
    BY <2>1, <2>2, CountInvHandler
  <2>4. LogindTypes' /\ ConnectionTypes'
    BY <1>18 DEF Deliver, LogindTypes, ConnectionTypes, SupervisorSteps, logind,
       connection, inhibitor
  <2> QED
    BY <2>3, <2>4
<1>19. CASE ConnectionClosed
  <2>1. "wake" \in {"sleep", "wake"}
    BY <1>19 DEF ConnectionClosed, LogindTypes
  <2>2. _on_prepare_for_sleep("wake") /\ RefuseWorker /\ UNCHANGED monitoring
    BY <1>19 DEF ConnectionClosed
  <2>3. PendingMatchesQueue' /\ CoordinatorTypes' /\ RuntimeTypes'
    BY <2>1, <2>2, CountInvHandler
  <2>4. LogindTypes' /\ ConnectionTypes'
    BY <1>19, EmptyQueues DEF ConnectionClosed, CloseConnection, LogindTypes,
       ConnectionTypes, SupervisorSteps, logind,
       connection, inhibitor
  <2> QED
    BY <2>3, <2>4
<1>20. CASE TakeSuspend
  <2>1. _events # <<>> /\ Tail(_events) \in Seq(Kinds) /\ _events' = Tail(_events)
    BY <1>20, <1>0 DEF TakeSuspend
  <2>2. Suspends(_events) = Suspends(Tail(_events)) + (IF Head(_events) = "sleep" THEN 1 ELSE 0)
    BY <1>0, <2>1, SuspendsTail
  <2>3. Suspends(Tail(_events)) \in Nat
    BY <2>1, SuspendsType
  <2>4. PendingMatchesQueue'
    BY <1>20, <1>0, <2>1, <2>2, <2>3
       DEF TakeSuspend, PendingMatchesQueue, CoordinatorTypes, coordinator
  <2>5. LogindTypes' /\ ConnectionTypes'
    BY <1>20 DEF TakeSuspend, LogindTypes, ConnectionTypes, logind, connection, inhibitor
  <2>6. CoordinatorTypes' /\ RuntimeTypes'
    BY <1>20, <2>1 DEF TakeSuspend, CoordinatorTypes, RuntimeTypes, WorkerSteps,
       coordinator, runtime
  <2> QED
    BY <2>4, <2>5, <2>6
<1>21. CASE TakeWake
  <2>1. _events # <<>> /\ Tail(_events) \in Seq(Kinds) /\ _events' = Tail(_events)
    BY <1>21, <1>0 DEF TakeWake
  <2>2. Suspends(_events) = Suspends(Tail(_events)) + (IF Head(_events) = "sleep" THEN 1 ELSE 0)
    BY <1>0, <2>1, SuspendsTail
  <2>3. Suspends(Tail(_events)) \in Nat
    BY <2>1, SuspendsType
  <2>4. PendingMatchesQueue'
    BY <1>21, <1>0, <2>1, <2>2, <2>3
       DEF TakeWake, PendingMatchesQueue, CoordinatorTypes, coordinator
  <2>5. LogindTypes' /\ ConnectionTypes'
    BY <1>21 DEF TakeWake, LogindTypes, ConnectionTypes, logind, connection, inhibitor
  <2>6. CoordinatorTypes' /\ RuntimeTypes'
    BY <1>21, <2>1 DEF TakeWake, ResumeIfReady, StaleWake, resume_hardware, start_monitor,
       CoordinatorTypes, RuntimeTypes,
       WorkerSteps,
       coordinator, runtime
  <2> QED
    BY <2>4, <2>5, <2>6
<1>22. CASE TakeStop
  <2>1. _events # <<>> /\ Tail(_events) \in Seq(Kinds) /\ _events' = Tail(_events)
    BY <1>22, <1>0 DEF TakeStop
  <2>2. Suspends(_events) = Suspends(Tail(_events)) + (IF Head(_events) = "sleep" THEN 1 ELSE 0)
    BY <1>0, <2>1, SuspendsTail
  <2>3. Suspends(Tail(_events)) \in Nat
    BY <2>1, SuspendsType
  <2>4. PendingMatchesQueue'
    BY <1>22, <1>0, <2>1, <2>2, <2>3
       DEF TakeStop, PendingMatchesQueue, CoordinatorTypes, coordinator
  <2>5. LogindTypes' /\ ConnectionTypes'
    BY <1>22 DEF TakeStop, LogindTypes, ConnectionTypes, logind, connection, inhibitor
  <2>6. CoordinatorTypes' /\ RuntimeTypes'
    BY <1>22, <2>1 DEF TakeStop, CoordinatorTypes, RuntimeTypes, WorkerSteps,
       coordinator, runtime
  <2> QED
    BY <2>4, <2>5, <2>6
<1>23. CASE WorkerNeutralizeBegin
  BY <1>23 DEF WorkerNeutralizeBegin, NeutralizeBegin, LogindTypes, ConnectionTypes,
     CoordinatorTypes, RuntimeTypes, PendingMatchesQueue, WorkerSteps, logind, connection,
     inhibitor, coordinator
<1>24. CASE WorkerNeutralizeEnd
  <2>1. _pending_neutralizations = Suspends(_events) + 1
    BY <1>24 DEF WorkerNeutralizeEnd, PendingMatchesQueue
  <2>2. PendingMatchesQueue' /\ _pending_neutralizations' \in Nat
    BY <1>24, <1>0, <2>1 DEF WorkerNeutralizeEnd, PendingMatchesQueue
  <2>3. LogindTypes' /\ ConnectionTypes'
    BY <1>24 DEF WorkerNeutralizeEnd, LogindTypes, ConnectionTypes, logind, connection,
       inhibitor
  <2>4. CoordinatorTypes' /\ RuntimeTypes'
    BY <1>24, <2>2 DEF WorkerNeutralizeEnd, NeutralizeEnd, ResumeIfReady, CoordinatorTypes,
       RuntimeTypes, WorkerSteps
  <2> QED
    BY <2>2, <2>3, <2>4
<1>25. CASE StopWorker
  <2>1. Suspends(Append(_events, "stop")) = Suspends(_events)
    BY <1>0, SuspendsAppend
  <2>2. LogindTypes' /\ ConnectionTypes'
    BY <1>25, EmptyQueues DEF StopWorker, LogindTypes, ConnectionTypes, SupervisorSteps,
       inhibitor
  <2>3. CoordinatorTypes' /\ RuntimeTypes' /\ PendingMatchesQueue'
    BY <1>25, <1>0, <2>1 DEF StopWorker, CoordinatorTypes, RuntimeTypes, PendingMatchesQueue,
       coordinator, runtime
  <2> QED
    BY <2>2, <2>3
<1>26. CASE UNCHANGED vars
  BY <1>26 DEF LogindTypes, ConnectionTypes, CoordinatorTypes, RuntimeTypes,
     PendingMatchesQueue, vars, logind, connection, inhibitor, coordinator, runtime
<1>27. CASE MonitorStopped
  <2>1. LogindTypes' /\ ConnectionTypes'
    BY <1>27 DEF MonitorStopped, LogindTypes, ConnectionTypes, SupervisorSteps, logind,
       connection, inhibitor
  <2>2. CoordinatorTypes' /\ RuntimeTypes' /\ PendingMatchesQueue'
    BY <1>27 DEF MonitorStopped, CoordinatorTypes, RuntimeTypes, WorkerSteps,
       PendingMatchesQueue, coordinator, runtime
  <2> QED
    BY <2>1, <2>2
<1>28. CASE Client
  <2>1. LogindTypes' /\ ConnectionTypes'
    BY <1>28 DEF Client, RequestArrives, RequestAnswered, SessionCloses, SessionClosed,
     SleepUnchanged, start_monitor, LogindTypes, ConnectionTypes, SupervisorSteps, logind,
       connection, inhibitor
  <2>2. CoordinatorTypes' /\ RuntimeTypes' /\ PendingMatchesQueue'
    BY <1>28 DEF Client, RequestArrives, RequestAnswered, SessionCloses, SessionClosed,
     SleepUnchanged, start_monitor, CoordinatorTypes, RuntimeTypes, WorkerSteps,
       PendingMatchesQueue, coordinator, runtime
  <2> QED
    BY <2>1, <2>2
<1> QED
  BY <1>1, <1>2, <1>3, <1>4, <1>5, <1>6, <1>7, <1>8, <1>9, <1>10, <1>11, <1>12, <1>13,
     <1>14, <1>15, <1>16, <1>17, <1>18, <1>19, <1>20, <1>21, <1>22, <1>23, <1>24, <1>25, <1>26,
     <1>27, <1>28
     DEF Next, Machine, Worker, Supervisor, MaskRecovery

\* The coordinator's variables keep their types and the counter of outstanding
\* neutralizations is exact: every suspend that waits in the worker's queue or is in
\* its hands is counted once, across reconnections, stale wakes and stop().
THEOREM PendingIsExact == Spec => [](TypeOK /\ PendingMatchesQueue)
BY CountInvInit, CountInvStep, PTL DEF Spec, CountInv

-----------------------------------------------------------------------------
(* Input stays paused while a suspend is requested or outstanding. *)

\* Without a worker nothing neutralizes.
WorkerPresence == supervisor = "absent" => worker \in {"absent", "done"}

\* The worker is the only one to neutralize, and it found input paused.
LockInv ==
    /\ neutralizer # "mask"
    /\ neutralizer = "worker" <=> worker = "neutralizing"
    /\ worker = "neutralizing" => was_paused

\* What the coordinator believes is what the device manager does, and it believes
\* to have paused whenever it has a reason to.
PauseInv ==
    /\ _runtime_paused => _runtime_input_paused
    /\ supervisor # "absent" /\ (_sleep_requested \/ _pending_neutralizations > 0)
         => _runtime_paused

SleepInv == CountInv /\ WorkerPresence /\ LockInv /\ PauseInv

\* A suspend in the worker's hands is counted.
LEMMA InHandsIsCounted ==
    ASSUME CountInv, worker \in {"neutralize", "neutralizing"}
    PROVE  _pending_neutralizations > 0
<1>1. Suspends(_events) \in Nat
  BY SuspendsType DEF CountInv, TypeOK, CoordinatorTypes
<1> QED
  BY <1>1 DEF CountInv, PendingMatchesQueue

\* The handler pauses for a suspend and resumes for a wake only when nothing is
\* outstanding.
LEMMA HandlerKeepsPause ==
    ASSUME CountInv, PauseInv, NEW signal \in {"sleep", "wake"},
           _on_prepare_for_sleep(signal), supervisor' # "absent" => supervisor # "absent"
    PROVE  PauseInv'
<1> USE DEF PauseInv, CountInv, TypeOK, CoordinatorTypes, RuntimeTypes
<1>1. CASE signal = "sleep"
  BY <1>1 DEF _on_prepare_for_sleep
<1>2. CASE signal = "wake"
  BY <1>2 DEF _on_prepare_for_sleep, ResumeIfReady
<1> QED
  BY <1>1, <1>2

\* Every step keeps the pause, as long as nobody but the worker neutralizes.
LEMMA SleepInvStep ==
    ASSUME "mask" \notin Faults
    PROVE  SleepInv /\ [Next]_vars => SleepInv'
<1> SUFFICES ASSUME SleepInv, [Next]_vars PROVE SleepInv'
  OBVIOUS
<1>0. CountInv'
  BY CountInvStep DEF SleepInv
<1> SUFFICES WorkerPresence' /\ LockInv' /\ PauseInv'
  BY <1>0 DEF SleepInv
<1>a. CountInv /\ WorkerPresence /\ LockInv /\ PauseInv
  BY DEF SleepInv
<1> USE DEF WorkerPresence, LockInv
<1>1. CASE PrepareForSleep
  BY <1>1, <1>a DEF PrepareForSleep, PauseInv, coordinator, runtime
<1>2. CASE Suspend
  BY <1>2, <1>a DEF Suspend, PauseInv, coordinator, runtime
<1>3. CASE Wake
  BY <1>3, <1>a DEF Wake, PauseInv, coordinator, runtime
<1>4. CASE ConnectionLost
  BY <1>4, <1>a DEF ConnectionLost, PauseInv, coordinator, runtime
<1>5. CASE Input
  BY <1>5, <1>a DEF Input, PauseInv, coordinator, runtime
<1>6. CASE TakeSuspend
  BY <1>6, <1>a DEF TakeSuspend, PauseInv, coordinator, runtime
<1>7. CASE HardwareCleanedUp
  BY <1>7, <1>a DEF HardwareCleanedUp, PauseInv, coordinator, runtime
<1>8. CASE WorkerAcquired
  BY <1>8, <1>a DEF WorkerAcquired, PauseInv, coordinator, runtime
<1>9. CASE WorkerAcquireFails
  BY <1>9, <1>a DEF WorkerAcquireFails, PauseInv, coordinator, runtime
<1>10. CASE Connect
  BY <1>10, <1>a DEF Connect, PauseInv, coordinator, runtime
<1>11. CASE Connected
  BY <1>11, <1>a DEF Connected, PauseInv, coordinator, runtime
<1>12. CASE ConnectFails
  BY <1>12, <1>a DEF ConnectFails, RefuseWorker, PauseInv, coordinator, runtime
<1>13. CASE Stop
  BY <1>13, <1>a DEF Stop, PauseInv, coordinator, runtime
<1>14. CASE StopWorker
  BY <1>14, <1>a DEF StopWorker, PauseInv, coordinator, runtime
<1>15. CASE TakeStop
  BY <1>15, <1>a DEF TakeStop, PauseInv, coordinator, runtime
<1>16. CASE Deliver
  <2>1. Head(signals) \in {"sleep", "wake"}
    BY <1>16, <1>a DEF Deliver, CountInv, TypeOK, LogindTypes
  <2>2. PauseInv'
    BY <1>16, <1>a, <2>1, HandlerKeepsPause DEF Deliver
  <2> QED
    BY <1>16, <1>a, <2>2 DEF Deliver, _on_prepare_for_sleep
<1>17. CASE ConnectionClosed
  <2>1. PauseInv'
    BY <1>17, <1>a, HandlerKeepsPause DEF ConnectionClosed
  <2> QED
    BY <1>17, <1>a, <2>1 DEF ConnectionClosed, RefuseWorker, _on_prepare_for_sleep
<1>18. CASE WorkerNeutralizeBegin
  <2>1. _runtime_input_paused
    BY <1>18, <1>a, InHandsIsCounted DEF WorkerNeutralizeBegin, PauseInv
  <2> QED
    BY <1>18, <1>a, <2>1 DEF WorkerNeutralizeBegin, NeutralizeBegin, PauseInv, coordinator
<1>19. CASE WorkerNeutralizeEnd
  <2>1. WorkerPresence' /\ LockInv'
    BY <1>19, <1>a DEF WorkerNeutralizeEnd, NeutralizeEnd
  <2>2. PauseInv'
    BY <1>19, <1>a, <1>0, InHandsIsCounted DEF WorkerNeutralizeEnd, ResumeIfReady, PauseInv,
       CountInv, TypeOK, CoordinatorTypes, RuntimeTypes
  <2> QED
    BY <2>1, <2>2
<1>20. CASE TakeWake
  <2>1. WorkerPresence' /\ LockInv'
    BY <1>20, <1>a DEF TakeWake
  <2>2. PauseInv'
    BY <1>20, <1>a DEF TakeWake, StaleWake, ResumeIfReady, PauseInv, CountInv, TypeOK,
       CoordinatorTypes, RuntimeTypes
  <2> QED
    BY <2>1, <2>2
<1>21. CASE Started
  BY <1>21, <1>a DEF Started, PauseInv, CountInv, WorkerNotStarted, coordinator, runtime
<1>22. CASE StartFails
  BY <1>22, <1>a DEF StartFails, PauseInv, CountInv, WorkerNotStarted, coordinator, runtime
<1>23. CASE Stopped
  BY <1>23, <1>a DEF Stopped, PauseInv, CountInv, TypeOK, CoordinatorTypes, RuntimeTypes
<1>24. CASE MaskRecovery
  BY <1>24, <1>a DEF MaskRecovery, MaskNeutralizeBegin, MaskNeutralizeEnd
<1>25. CASE UNCHANGED vars
  BY <1>25, <1>a DEF PauseInv, vars, coordinator, runtime
<1>26. CASE MonitorStopped
  BY <1>26, <1>a DEF MonitorStopped, PauseInv, coordinator, runtime
<1>27. CASE Client
  BY <1>27, <1>a DEF Client, RequestArrives, RequestAnswered, SessionCloses, SessionClosed,
     SleepUnchanged, PauseInv,
     coordinator, runtime
<1> QED
  BY <1>1, <1>2, <1>3, <1>4, <1>5, <1>6, <1>7, <1>8, <1>9, <1>10, <1>11, <1>12, <1>13,
     <1>14, <1>15, <1>16, <1>17, <1>18, <1>19, <1>20, <1>21, <1>22, <1>23, <1>24, <1>25,
     <1>26, <1>27
     DEF Next, Machine, Worker, Supervisor

\* As long as no hardware-mask recovery neutralizes the runtime, nothing resumes
\* input while a suspend is requested or its neutralization is outstanding: not a
\* wake, not a stale one, not a reconnection, not the end of a neutralization.
THEOREM InputStaysPaused ==
    ASSUME "mask" \notin Faults
    PROVE  Spec => []PausedWhileSleeping
<1>1. Init => SleepInv
  BY CountInvInit DEF SleepInv, Init, WorkerPresence, LockInv, PauseInv
<1>2. SleepInv /\ [Next]_vars => SleepInv'
  BY SleepInvStep
<1>3. SleepInv => PausedWhileSleeping
  BY DEF SleepInv, PauseInv, PausedWhileSleeping
<1> QED
  BY <1>1, <1>2, <1>3, PTL DEF Spec

-----------------------------------------------------------------------------
(* stop() finishes what was announced. *)

\* A stop is the last event, nothing can be announced behind it, and the worker
\* that has taken it has taken everything.
StopInv ==
    /\ ~_subscribed => signals = <<>>
    /\ supervisor \in {"stopping", "absent"} => ~_subscribed
    /\ \A i \in 1..Len(_events) :
          _events[i] = "stop" => i = Len(_events) /\ supervisor = "stopping"
    /\ worker = "done" => _events = <<>> /\ supervisor \in {"stopping", "absent"}

\* A handler that still runs has no stop before it in the queue.
LEMMA HandlerBeforeStop ==
    ASSUME CountInv, StopInv, NEW signal \in {"sleep", "wake"}, _on_prepare_for_sleep(signal),
           supervisor \notin {"stopping", "absent"}
    PROVE  /\ \A i \in 1..Len(_events') : _events'[i] # "stop"
           /\ worker # "done"
<1>1. _events \in Seq({"sleep", "wake", "stop"}) /\ _events' = Append(_events, signal)
  BY DEF CountInv, TypeOK, CoordinatorTypes, _on_prepare_for_sleep
<1>2. \A i \in 1..Len(_events) : _events[i] # "stop"
  BY DEF StopInv
<1>3. worker # "done"
  BY DEF StopInv
<1> QED
  BY <1>1, <1>2, <1>3

\* Every step keeps the stop last.
LEMMA StopInvStep == CountInv /\ StopInv /\ [Next]_vars => StopInv'
<1> SUFFICES ASSUME CountInv, StopInv, [Next]_vars PROVE StopInv'
  OBVIOUS
<1>1. CASE PrepareForSleep
  BY <1>1 DEF PrepareForSleep, Announce, StopInv, connection
<1>2. CASE Suspend
  BY <1>2 DEF Suspend, StopInv, connection
<1>3. CASE Wake
  BY <1>3 DEF Wake, Announce, StopInv, connection
<1>4. CASE ConnectionLost
  BY <1>4 DEF ConnectionLost, StopInv, connection
<1>5. CASE Input
  BY <1>5 DEF Input, StopInv, connection
<1>6. CASE WorkerNeutralizeBegin
  BY <1>6 DEF WorkerNeutralizeBegin, StopInv, connection
<1>7. CASE WorkerNeutralizeEnd
  BY <1>7 DEF WorkerNeutralizeEnd, StopInv, connection
<1>8. CASE HardwareCleanedUp
  BY <1>8 DEF HardwareCleanedUp, StopInv, connection
<1>9. CASE WorkerAcquired
  BY <1>9 DEF WorkerAcquired, StopInv, connection
<1>10. CASE WorkerAcquireFails
  BY <1>10 DEF WorkerAcquireFails, StopInv, connection
<1>11. CASE Started
  BY <1>11 DEF Started, StopInv, connection
<1>12. CASE Connect
  BY <1>12 DEF Connect, StopInv, connection
<1>13. CASE Connected
  BY <1>13 DEF Connected, StopInv, connection
<1>14. CASE Stop
  BY <1>14 DEF Stop, StopInv, connection
<1>15. CASE StartFails
  BY <1>15 DEF StartFails, CloseConnection, StopInv, CountInv, WorkerNotStarted
<1>16. CASE ConnectFails
  BY <1>16 DEF ConnectFails, CloseConnection, RefuseWorker, StopInv, CountInv, WorkerNotStarted
<1>17. CASE Stopped
  BY <1>17 DEF Stopped, CloseConnection, StopInv, CountInv, WorkerNotStarted
<1>18. CASE TakeSuspend
  <2>1. /\ _events \in Seq({"sleep", "wake", "stop"}) /\ _events # <<>>
        /\ _events' = Tail(_events) /\ UNCHANGED <<supervisor, _subscribed, signals>>
    BY <1>18 DEF TakeSuspend, CountInv, TypeOK, CoordinatorTypes, connection
  <2>2. \A i \in 1..Len(_events') :
          _events'[i] = "stop" => i = Len(_events') /\ supervisor = "stopping"
    BY <2>1 DEF StopInv
  <2>3. worker' # "done"
    BY <1>18 DEF TakeSuspend
  <2> QED
    BY <2>1, <2>2, <2>3 DEF StopInv
<1>19. CASE TakeWake
  <2>1. /\ _events \in Seq({"sleep", "wake", "stop"}) /\ _events # <<>>
        /\ _events' = Tail(_events) /\ UNCHANGED <<supervisor, _subscribed, signals>>
    BY <1>19 DEF TakeWake, CountInv, TypeOK, CoordinatorTypes, connection
  <2>2. \A i \in 1..Len(_events') :
          _events'[i] = "stop" => i = Len(_events') /\ supervisor = "stopping"
    BY <2>1 DEF StopInv
  <2>3. worker' # "done"
    BY <1>19 DEF TakeWake
  <2> QED
    BY <2>1, <2>2, <2>3 DEF StopInv
<1>20. CASE TakeStop
  <2>1. /\ _events \in Seq({"sleep", "wake", "stop"}) /\ _events # <<>>
        /\ _events' = Tail(_events) /\ UNCHANGED <<supervisor, _subscribed, signals>>
    BY <1>20 DEF TakeStop, CountInv, TypeOK, CoordinatorTypes, connection
  <2>2. \A i \in 1..Len(_events') :
          _events'[i] = "stop" => i = Len(_events') /\ supervisor = "stopping"
    BY <2>1 DEF StopInv
  <2>3. Len(_events) = 1 /\ supervisor = "stopping"
    <3>1. 1 \in 1..Len(_events) /\ _events[1] = "stop"
      BY <1>20, <2>1 DEF TakeStop
    <3> QED
      BY <3>1 DEF StopInv
  <2>4. _events' = <<>>
    BY <2>1, <2>3
  <2> QED
    BY <2>1, <2>2, <2>3, <2>4 DEF StopInv
<1>21. CASE Deliver
  <2>1. Head(signals) \in {"sleep", "wake"} /\ Tail(signals) \in Seq({"sleep", "wake"})
    BY <1>21 DEF Deliver, CountInv, TypeOK, LogindTypes
  <2>2. _subscribed /\ supervisor \notin {"stopping", "absent"}
    BY <1>21 DEF Deliver, StopInv
  <2>3. (\A i \in 1..Len(_events') : _events'[i] # "stop") /\ worker # "done"
    BY <1>21, <2>1, <2>2, HandlerBeforeStop DEF Deliver
  <2> QED
    BY <1>21, <2>2, <2>3 DEF Deliver, StopInv, connection
<1>22. CASE ConnectionClosed
  <2>1. (\A i \in 1..Len(_events') : _events'[i] # "stop") /\ worker # "done"
    BY <1>22, HandlerBeforeStop DEF ConnectionClosed
  <2> QED
    BY <1>22, <2>1 DEF ConnectionClosed, CloseConnection, RefuseWorker, StopInv
<1>23. CASE StopWorker
  <2>1. /\ _events \in Seq({"sleep", "wake", "stop"}) /\ _events' = Append(_events, "stop")
        /\ \A i \in 1..Len(_events) : _events[i] # "stop"
    BY <1>23 DEF StopWorker, StopInv, CountInv, TypeOK, CoordinatorTypes
  <2>2. \A i \in 1..Len(_events') : _events'[i] = "stop" => i = Len(_events')
    BY <2>1
  <2> QED
    BY <1>23, <2>2 DEF StopWorker, StopInv
<1>24. CASE MaskRecovery
  BY <1>24 DEF MaskRecovery, MaskNeutralizeBegin, MaskNeutralizeEnd, StopInv, connection
<1>25. CASE UNCHANGED vars
  BY <1>25 DEF StopInv, vars, connection
<1>26. CASE MonitorStopped
  BY <1>26 DEF MonitorStopped, StopInv, connection
<1>27. CASE Client
  BY <1>27 DEF Client, RequestArrives, RequestAnswered, SessionCloses, SessionClosed,
     SleepUnchanged, StopInv,
     connection
<1> QED
  BY <1>1, <1>2, <1>3, <1>4, <1>5, <1>6, <1>7, <1>8, <1>9, <1>10, <1>11, <1>12, <1>13,
     <1>14, <1>15, <1>16, <1>17, <1>18, <1>19, <1>20, <1>21, <1>22, <1>23, <1>24, <1>25,
     <1>26, <1>27
     DEF Next, Machine, Worker, Supervisor

\* stop() lets the worker finish every suspend that was announced before it: when
\* the worker has ended, its queue is empty and no neutralization is outstanding.
THEOREM StopFinishes == Spec => []StopFinishesCleanup
<1>1. Init => CountInv /\ StopInv
  BY CountInvInit DEF Init, StopInv
<1>2. CountInv /\ StopInv /\ [Next]_vars => (CountInv /\ StopInv)'
  BY CountInvStep, StopInvStep
<1>3. CountInv /\ StopInv => StopFinishesCleanup
  BY SuspendsEmpty DEF CountInv, PendingMatchesQueue, StopInv, StopFinishesCleanup
<1> QED
  BY <1>1, <1>2, <1>3, PTL DEF Spec

-----------------------------------------------------------------------------
(* With nothing left to process, the runtime agrees with the last signal. *)

LastIs(q, e) == q # <<>> /\ q[Len(q)] = e

\* The coordinator pauses exactly when it has a reason to, and is the only one to.
AgreeInv ==
    supervisor # "absent" =>
        /\ _runtime_paused => _sleep_requested \/ _pending_neutralizations > 0
        /\ _runtime_input_paused => _runtime_paused

\* Once the last neutralization is over, no output is down until input resumes, and
\* the cleanup after it stops the monitor of a wake; it is a session that is owed one.
QuietInv ==
    /\ _runtime_paused /\ _pending_neutralizations = 0 => ~outputs_active
    /\ _sleep_requested /\ _pending_neutralizations = 0 /\ worker # "hardware"
         => monitor # "resumed"
    /\ monitor = "stopped" => session # "none"

\* The newest event is what was requested last; when the queue has run out after a
\* wake, that wake was handled in full.
LastInv ==
    supervisor \notin {"stopping", "absent"} =>
        /\ _events # <<>> => LastIs(_events, IF _sleep_requested THEN "sleep" ELSE "wake")
        /\ _events = <<>> /\ ~_sleep_requested =>
             monitor # "stopped" /\ worker \notin {"neutralize", "neutralizing", "hardware", "restoring"}

\* A connection that is watched has its inhibitor, or somebody will see to it.
InhibitInv ==
    /\ supervisor \in {"starting", "watching", "connecting"} => _subscribed
    /\ supervisor = "watching" /\ link /\ ~_connection_refresh /\ ~_sleep_requested
       /\ _events = <<>> /\ worker \notin {"acquiring", "refused"} => _inhibitor_fd

\* Only a suspend that was announced to the handler promises anything.
HeardInv == promised => _subscribed

\* A suspend that was promised its cleanup is on its way, is being cleaned up with the
\* inhibitor still held, or has been cleaned up.
PromiseInv ==
    machine = "preparing" /\ promised /\ ~overlapped =>
        \/ /\ LastIs(signals, "sleep") /\ \A i \in 1..(Len(signals) - 1) : signals[i] # "sleep"
           /\ _pending_neutralizations = 0 /\ worker \notin {"hardware", "restoring"} /\ _inhibitor_fd
        \/ /\ signals = <<>> /\ _sleep_requested
           /\ _pending_neutralizations = 1 /\ worker \notin {"hardware", "restoring"} /\ _inhibitor_fd
        \/ signals = <<>> /\ _sleep_requested /\ _pending_neutralizations = 0

SettleInv ==
    /\ SleepInv /\ StopInv /\ AgreeInv /\ QuietInv /\ LastInv /\ InhibitInv
    /\ HeardInv /\ PromiseInv

\* The last of a queue stays the last while anything is left,
LEMMA LastOfTail ==
    ASSUME NEW S, NEW q \in Seq(S), q # <<>>, NEW e, LastIs(q, e)
    PROVE  /\ Tail(q) # <<>> => LastIs(Tail(q), e)
           /\ Tail(q) = <<>> => Head(q) = e
           /\ Head(q) \in S /\ Tail(q) \in Seq(S)
<1>1. /\ Tail(q) \in Seq(S) /\ Len(Tail(q)) = Len(q) - 1 /\ Len(q) \in Nat \ {0}
      /\ \A i \in 1..Len(Tail(q)) : Tail(q)[i] = q[i + 1]
      /\ Head(q) = q[1]
  BY HeadTailProperties
<1>2. CASE Len(q) = 1
  <2>1. Len(Tail(q)) = 0
    BY <1>1, <1>2
  <2>2. Tail(q) = <<>>
    BY <1>1, <2>1, EmptySeq
  <2> QED
    BY <1>1, <1>2, <2>2 DEF LastIs
<1>3. CASE Len(q) # 1
  <2>1. Len(Tail(q)) \in 1..Len(Tail(q)) /\ Tail(q) # <<>>
    BY <1>1, <1>3
  <2>2. Tail(q)[Len(Tail(q))] = q[Len(q)]
    BY <1>1, <2>1
  <2> QED
    BY <1>1, <2>1, <2>2 DEF LastIs
<1> QED
  BY <1>2, <1>3

\* and what is queued becomes it.
LEMMA LastOfAppend ==
    ASSUME NEW S, NEW q \in Seq(S), NEW e \in S
    PROVE  /\ LastIs(Append(q, e), e) /\ Append(q, e) \in Seq(S)
           /\ Append(q, e) # <<>> /\ Len(Append(q, e)) - 1 = Len(q)
           /\ \A i \in 1..Len(q) : Append(q, e)[i] = q[i]
<1>1. /\ Append(q, e) \in Seq(S) /\ Len(Append(q, e)) = Len(q) + 1 /\ Len(q) \in Nat
      /\ Append(q, e)[Len(q) + 1] = e
      /\ \A i \in 1..Len(q) : Append(q, e)[i] = q[i]
  BY AppendProperties
<1>2. Append(q, e) # <<>>
  BY <1>1
<1> QED
  BY <1>1, <1>2 DEF LastIs

\* Every step keeps the pause in agreement with its reasons.
LEMMA AgreeStep ==
    ASSUME "mask" \notin Faults, SettleInv, [Next]_vars
    PROVE  AgreeInv'
<1>a. /\ CountInv /\ WorkerPresence /\ LockInv /\ PauseInv /\ StopInv
      /\ AgreeInv /\ QuietInv /\ LastInv /\ InhibitInv /\ HeardInv /\ PromiseInv
  BY DEF SettleInv, SleepInv
<1>1. CASE PrepareForSleep
  BY <1>1, <1>a DEF PrepareForSleep, AgreeInv, coordinator, runtime, connection, inhibitor, logind
<1>2. CASE Suspend
  BY <1>2, <1>a DEF Suspend, AgreeInv, coordinator, runtime, connection, inhibitor, logind
<1>3. CASE Wake
  BY <1>3, <1>a DEF Wake, AgreeInv, coordinator, runtime, connection, inhibitor, logind
<1>4. CASE ConnectionLost
  BY <1>4, <1>a DEF ConnectionLost, AgreeInv, coordinator, runtime, connection, inhibitor, logind
<1>5. CASE Input
  BY <1>5, <1>a DEF Input, AgreeInv, coordinator, runtime, connection, inhibitor, logind
<1>6. CASE Deliver
  <2>1. _pending_neutralizations \in Nat /\ _on_prepare_for_sleep(Head(signals)) /\ UNCHANGED supervisor
    BY <1>6, <1>a DEF Deliver, CountInv, TypeOK, CoordinatorTypes, RuntimeTypes
  <2>2. CASE Head(signals) = "sleep"
    BY <1>a, <2>1, <2>2 DEF _on_prepare_for_sleep, AgreeInv
  <2>3. CASE Head(signals) # "sleep"
    <3>1. /\ _sleep_requested' = FALSE /\ _pending_neutralizations' = _pending_neutralizations
          /\ ResumeIfReady(FALSE, _pending_neutralizations, _runtime_input_paused)
      BY <2>1, <2>3 DEF _on_prepare_for_sleep
    <3>2. _runtime_paused \in BOOLEAN /\ _runtime_input_paused \in BOOLEAN
      BY <1>a DEF CountInv, TypeOK, CoordinatorTypes, RuntimeTypes
    <3>3. CASE _pending_neutralizations = 0
      <4>1. /\ _runtime_paused' = FALSE
            /\ _runtime_input_paused' => _runtime_input_paused /\ ~_runtime_paused
        BY <3>1, <3>2, <3>3 DEF ResumeIfReady
      <4> QED
        BY <1>a, <2>1, <4>1 DEF AgreeInv
    <3>4. CASE _pending_neutralizations # 0
      <4>1. /\ _runtime_paused' = _runtime_paused
            /\ _runtime_input_paused' = _runtime_input_paused
        BY <3>1, <3>2, <3>4 DEF ResumeIfReady
      <4>2. _pending_neutralizations' > 0
        BY <2>1, <3>1, <3>4
      <4> QED
        BY <1>a, <2>1, <4>1, <4>2 DEF AgreeInv
    <3> QED
      BY <3>3, <3>4
  <2> QED
    BY <2>2, <2>3
<1>7. CASE TakeSuspend
  BY <1>7, <1>a DEF TakeSuspend, AgreeInv, coordinator, runtime, connection, inhibitor, logind
<1>8. CASE WorkerNeutralizeBegin
  BY <1>8, <1>a, InHandsIsCounted DEF WorkerNeutralizeBegin, NeutralizeBegin, AgreeInv, PauseInv,
      coordinator
<1>9. CASE WorkerNeutralizeEnd
  BY <1>9, <1>a, InHandsIsCounted DEF WorkerNeutralizeEnd, ResumeIfReady, AgreeInv, CountInv, TypeOK,
      CoordinatorTypes, RuntimeTypes
<1>10. CASE HardwareCleanedUp
  BY <1>10, <1>a DEF HardwareCleanedUp, AgreeInv, coordinator, runtime, connection, inhibitor, logind
<1>11. CASE TakeWake
  BY <1>11, <1>a DEF TakeWake, StaleWake, ResumeIfReady, AgreeInv, CountInv, TypeOK, CoordinatorTypes,
      RuntimeTypes
<1>12. CASE WorkerAcquired
  BY <1>12, <1>a DEF WorkerAcquired, AgreeInv, coordinator, runtime, connection, inhibitor, logind
<1>13. CASE WorkerAcquireFails
  BY <1>13, <1>a DEF WorkerAcquireFails, AgreeInv, coordinator, runtime, connection, inhibitor, logind
<1>14. CASE TakeStop
  BY <1>14, <1>a DEF TakeStop, AgreeInv, coordinator, runtime, connection, inhibitor, logind
<1>15. CASE Started
  BY <1>15, <1>a DEF Started, AgreeInv, coordinator, runtime, connection, inhibitor, logind
<1>16. CASE StartFails
  BY <1>16, <1>a DEF StartFails, AgreeInv, coordinator, runtime, connection, inhibitor, logind
<1>17. CASE ConnectionClosed
  BY <1>17, <1>a DEF ConnectionClosed, _on_prepare_for_sleep, ResumeIfReady, AgreeInv, CountInv,
      TypeOK, CoordinatorTypes, RuntimeTypes
<1>18. CASE Connect
  BY <1>18, <1>a DEF Connect, AgreeInv, coordinator, runtime, connection, inhibitor, logind
<1>19. CASE Connected
  BY <1>19, <1>a DEF Connected, AgreeInv, coordinator, runtime, connection, inhibitor, logind
<1>20. CASE ConnectFails
  BY <1>20, <1>a DEF ConnectFails, RefuseWorker, AgreeInv, coordinator, runtime, connection,
      inhibitor, logind
<1>21. CASE Stop
  BY <1>21, <1>a DEF Stop, AgreeInv, coordinator, runtime, connection, inhibitor, logind
<1>22. CASE StopWorker
  BY <1>22, <1>a DEF StopWorker, AgreeInv, coordinator, runtime, connection, inhibitor, logind
<1>23. CASE Stopped
  BY <1>23 DEF Stopped, AgreeInv
<1>24. CASE MaskRecovery
  BY <1>24, <1>a DEF MaskRecovery, MaskNeutralizeBegin, MaskNeutralizeEnd, LockInv
<1>25. CASE UNCHANGED vars
  BY <1>25, <1>a DEF AgreeInv, vars, coordinator, runtime, connection, inhibitor, logind
<1>26. CASE MonitorStopped
  BY <1>26, <1>a DEF MonitorStopped, AgreeInv, coordinator, runtime, connection, inhibitor, logind
<1>27. CASE Client
  BY <1>27, <1>a DEF Client, RequestArrives, RequestAnswered, SessionCloses, SessionClosed,
     SleepUnchanged, AgreeInv,
     coordinator, runtime, connection, inhibitor, logind
<1> QED
  BY <1>1, <1>2, <1>3, <1>4, <1>5, <1>6, <1>7, <1>8, <1>9, <1>10, <1>11, <1>12, <1>13, <1>14, <1>15,
      <1>16, <1>17, <1>18, <1>19, <1>20, <1>21, <1>22, <1>23, <1>24, <1>25, <1>26, <1>27 DEF Next, Machine, Worker,
      Supervisor

\* Every step keeps what a neutralization has reached.
LEMMA QuietStep ==
    ASSUME "mask" \notin Faults, SettleInv, [Next]_vars
    PROVE  QuietInv'
<1>a. /\ CountInv /\ WorkerPresence /\ LockInv /\ PauseInv /\ StopInv
      /\ AgreeInv /\ QuietInv /\ LastInv /\ InhibitInv /\ HeardInv /\ PromiseInv
  BY DEF SettleInv, SleepInv
<1> USE DEF monitoring
<1>1. CASE PrepareForSleep
  BY <1>1, <1>a DEF PrepareForSleep, QuietInv, coordinator, runtime, connection, inhibitor, logind
<1>2. CASE Suspend
  BY <1>2, <1>a DEF Suspend, QuietInv, coordinator, runtime, connection, inhibitor, logind
<1>3. CASE Wake
  BY <1>3, <1>a DEF Wake, QuietInv, coordinator, runtime, connection, inhibitor, logind
<1>4. CASE ConnectionLost
  BY <1>4, <1>a DEF ConnectionLost, QuietInv, coordinator, runtime, connection, inhibitor, logind
<1>5. CASE Input
  BY <1>5, <1>a DEF Input, QuietInv, PauseInv, coordinator
<1>6. CASE Deliver
  <2>1. /\ _pending_neutralizations \in Nat /\ _on_prepare_for_sleep(Head(signals))
        /\ UNCHANGED <<worker, monitoring>>
    BY <1>6, <1>a DEF Deliver, CountInv, TypeOK, CoordinatorTypes, RuntimeTypes
  <2>2. CASE Head(signals) = "sleep"
    BY <1>a, <2>1, <2>2 DEF _on_prepare_for_sleep, QuietInv
  <2>3. CASE Head(signals) # "sleep"
    BY <1>a, <2>1, <2>3 DEF _on_prepare_for_sleep, ResumeIfReady, QuietInv
  <2> QED
    BY <2>2, <2>3
<1>7. CASE TakeSuspend
  BY <1>7, <1>a DEF TakeSuspend, QuietInv, coordinator, runtime, connection, inhibitor, logind
<1>8. CASE WorkerNeutralizeBegin
  BY <1>8, <1>a DEF WorkerNeutralizeBegin, NeutralizeBegin, QuietInv, coordinator
<1>9. CASE WorkerNeutralizeEnd
  BY <1>9, <1>a DEF WorkerNeutralizeEnd, NeutralizeEnd, QuietInv
<1>10. CASE HardwareCleanedUp
  BY <1>10, <1>a DEF HardwareCleanedUp, QuietInv, coordinator, runtime, connection, inhibitor, logind
<1>11. CASE TakeWake
  BY <1>11, <1>a DEF TakeWake, StaleWake, resume_hardware, start_monitor, ResumeIfReady, QuietInv, CountInv, TypeOK, CoordinatorTypes,
      RuntimeTypes
<1>12. CASE WorkerAcquired
  BY <1>12, <1>a DEF WorkerAcquired, QuietInv, coordinator, runtime, connection, inhibitor, logind
<1>13. CASE WorkerAcquireFails
  BY <1>13, <1>a DEF WorkerAcquireFails, QuietInv, coordinator, runtime, connection, inhibitor, logind
<1>14. CASE TakeStop
  BY <1>14, <1>a DEF TakeStop, QuietInv, coordinator, runtime, connection, inhibitor, logind
<1>15. CASE Started
  BY <1>15, <1>a DEF Started, QuietInv, CountInv, WorkerNotStarted, coordinator, runtime
<1>16. CASE StartFails
  BY <1>16, <1>a DEF StartFails, QuietInv, coordinator, runtime, connection, inhibitor, logind
<1>17. CASE ConnectionClosed
  BY <1>17, <1>a DEF ConnectionClosed, RefuseWorker, _on_prepare_for_sleep, ResumeIfReady, QuietInv,
      CountInv, TypeOK, CoordinatorTypes, RuntimeTypes
<1>18. CASE Connect
  BY <1>18, <1>a DEF Connect, QuietInv, coordinator, runtime, connection, inhibitor, logind
<1>19. CASE Connected
  BY <1>19, <1>a DEF Connected, QuietInv, coordinator, runtime, connection, inhibitor, logind
<1>20. CASE ConnectFails
  BY <1>20, <1>a DEF ConnectFails, RefuseWorker, QuietInv, coordinator, runtime, connection,
      inhibitor, logind
<1>21. CASE Stop
  BY <1>21, <1>a DEF Stop, QuietInv, coordinator, runtime, connection, inhibitor, logind
<1>22. CASE StopWorker
  BY <1>22, <1>a DEF StopWorker, QuietInv, coordinator, runtime, connection, inhibitor, logind
<1>23. CASE Stopped
  BY <1>23, <1>a DEF Stopped, QuietInv
<1>24. CASE MaskRecovery
  BY <1>24, <1>a DEF MaskRecovery, MaskNeutralizeBegin, MaskNeutralizeEnd, LockInv
<1>25. CASE UNCHANGED vars
  BY <1>25, <1>a DEF QuietInv, vars, coordinator, runtime, connection, inhibitor, logind
<1>26. CASE MonitorStopped
  BY <1>26, <1>a DEF MonitorStopped, QuietInv, coordinator, runtime, connection, inhibitor, logind
<1>27. CASE Client
  BY <1>27, <1>a DEF Client, RequestArrives, RequestAnswered, SessionCloses, SessionClosed,
     SleepUnchanged, start_monitor, QuietInv,
     coordinator, runtime, connection, inhibitor, logind
<1> QED
  BY <1>1, <1>2, <1>3, <1>4, <1>5, <1>6, <1>7, <1>8, <1>9, <1>10, <1>11, <1>12, <1>13, <1>14, <1>15,
      <1>16, <1>17, <1>18, <1>19, <1>20, <1>21, <1>22, <1>23, <1>24, <1>25, <1>26, <1>27 DEF Next, Machine, Worker,
      Supervisor

\* Every step keeps the queue's end in agreement with the request.
LEMMA LastStep ==
    ASSUME "mask" \notin Faults, SettleInv, [Next]_vars
    PROVE  LastInv'
<1>a. /\ CountInv /\ WorkerPresence /\ LockInv /\ PauseInv /\ StopInv
      /\ AgreeInv /\ QuietInv /\ LastInv /\ InhibitInv /\ HeardInv /\ PromiseInv
  BY DEF SettleInv, SleepInv
<1> USE DEF monitoring
<1>1. CASE PrepareForSleep
  BY <1>1, <1>a DEF PrepareForSleep, LastInv, coordinator, runtime, connection, inhibitor, logind
<1>2. CASE Suspend
  BY <1>2, <1>a DEF Suspend, LastInv, coordinator, runtime, connection, inhibitor, logind
<1>3. CASE Wake
  BY <1>3, <1>a DEF Wake, LastInv, coordinator, runtime, connection, inhibitor, logind
<1>4. CASE ConnectionLost
  BY <1>4, <1>a DEF ConnectionLost, LastInv, coordinator, runtime, connection, inhibitor, logind
<1>5. CASE Input
  BY <1>5, <1>a DEF Input, LastInv, coordinator, runtime, connection, inhibitor, logind
<1>6. CASE Deliver
  <2>1. /\ _events \in Seq({"sleep", "wake", "stop"}) /\ Head(signals) \in {"sleep", "wake"}
        /\ _sleep_requested' = (Head(signals) = "sleep") /\ _events' = Append(_events, Head(signals))
    BY <1>6, <1>a DEF Deliver, _on_prepare_for_sleep, CountInv, TypeOK, CoordinatorTypes,
        RuntimeTypes, LogindTypes
  <2>2. LastIs(_events', Head(signals)) /\ _events' # <<>>
    BY <2>1, LastOfAppend
  <2> QED
    BY <2>1, <2>2 DEF LastInv
<1>7. CASE TakeSuspend
  <2>1. /\ _events \in Seq({"sleep", "wake", "stop"}) /\ _events # <<>> /\ _events' = Tail(_events)
        /\ UNCHANGED <<supervisor, _sleep_requested>> /\ Head(_events) = "sleep"
    BY <1>7, <1>a DEF TakeSuspend, CountInv, TypeOK, CoordinatorTypes, RuntimeTypes, coordinator
  <2>2. ASSUME supervisor \notin {"stopping", "absent"}
        PROVE  LastIs(_events, IF _sleep_requested THEN "sleep" ELSE "wake")
    BY <1>a, <2>1, <2>2 DEF LastInv
  <2>3. ASSUME supervisor \notin {"stopping", "absent"}
        PROVE  /\ _events' # <<>> => LastIs(_events', IF _sleep_requested THEN "sleep" ELSE "wake")
               /\ _events' = <<>> => "sleep" = IF _sleep_requested THEN "sleep" ELSE "wake"
    BY <2>1, <2>2, <2>3, LastOfTail

  <2> QED
    BY <2>1, <2>3 DEF LastInv
<1>8. CASE WorkerNeutralizeBegin
  BY <1>8, <1>a DEF WorkerNeutralizeBegin, LastInv, coordinator, runtime, connection, inhibitor, logind
<1>9. CASE WorkerNeutralizeEnd
  BY <1>9, <1>a DEF WorkerNeutralizeEnd, LastInv
<1>10. CASE HardwareCleanedUp
  BY <1>10, <1>a DEF HardwareCleanedUp, LastInv, coordinator, runtime, connection, inhibitor, logind
<1>11. CASE TakeWake
  <2>1. /\ _events \in Seq({"sleep", "wake", "stop"}) /\ _events # <<>> /\ _events' = Tail(_events)
        /\ UNCHANGED <<supervisor, _sleep_requested>> /\ Head(_events) = "wake"
    BY <1>11, <1>a DEF TakeWake, CountInv, TypeOK, CoordinatorTypes, RuntimeTypes, coordinator
  <2>2. ASSUME supervisor \notin {"stopping", "absent"}
        PROVE  LastIs(_events, IF _sleep_requested THEN "sleep" ELSE "wake")
    BY <1>a, <2>1, <2>2 DEF LastInv
  <2>3. ASSUME supervisor \notin {"stopping", "absent"}
        PROVE  /\ _events' # <<>> => LastIs(_events', IF _sleep_requested THEN "sleep" ELSE "wake")
               /\ _events' = <<>> => "wake" = IF _sleep_requested THEN "sleep" ELSE "wake"
    BY <2>1, <2>2, <2>3, LastOfTail

  <2>4. ASSUME supervisor \notin {"stopping", "absent"}, _events' = <<>>
        PROVE  monitor' # "stopped" /\ worker' \notin {"neutralize", "neutralizing", "hardware", "restoring"}
    <3>1. ~_sleep_requested
      BY <2>3, <2>4
    <3>2. worker = "waiting"
      BY <1>11 DEF TakeWake
    <3>3. _pending_neutralizations = 0
      <4>1. PendingMatchesQueue'
        BY CountInvStep, <1>a DEF CountInv
      <4>2. worker' \notin {"neutralize", "neutralizing"} /\ UNCHANGED _pending_neutralizations
        BY <1>11, <3>2 DEF TakeWake
      <4> QED
        BY <2>4, <4>1, <4>2, SuspendsEmpty DEF PendingMatchesQueue
    <3> QED
      BY <1>11, <1>a, <3>1, <3>3 DEF TakeWake, StaleWake, resume_hardware, start_monitor, QuietInv
  <2> QED
    BY <2>1, <2>3, <2>4 DEF LastInv
<1>12. CASE WorkerAcquired
  BY <1>12, <1>a DEF WorkerAcquired, LastInv, coordinator, runtime, connection, inhibitor, logind
<1>13. CASE WorkerAcquireFails
  BY <1>13, <1>a DEF WorkerAcquireFails, LastInv, coordinator, runtime, connection, inhibitor, logind
<1>14. CASE TakeStop
  <2>1. worker' = "done"
    BY <1>14 DEF TakeStop
  <2>2. StopInv'
    BY <1>a, StopInvStep
  <2> QED
    BY <2>1, <2>2 DEF StopInv, LastInv
<1>15. CASE Started
  BY <1>15, <1>a DEF Started, LastInv, coordinator
<1>16. CASE StartFails
  BY <1>16 DEF StartFails, LastInv
<1>17. CASE ConnectionClosed
  <2>1. /\ _events \in Seq({"sleep", "wake", "stop"}) /\ "wake" \in {"sleep", "wake"}
        /\ _sleep_requested' = ("wake" = "sleep") /\ _events' = Append(_events, "wake")
    BY <1>17, <1>a DEF ConnectionClosed, _on_prepare_for_sleep, CountInv, TypeOK, CoordinatorTypes,
        RuntimeTypes, LogindTypes
  <2>2. LastIs(_events', "wake") /\ _events' # <<>>
    BY <2>1, LastOfAppend
  <2> QED
    BY <2>1, <2>2 DEF LastInv
<1>18. CASE Connect
  BY <1>18, <1>a DEF Connect, LastInv, coordinator, runtime, connection, inhibitor, logind
<1>19. CASE Connected
  BY <1>19, <1>a DEF Connected, LastInv, coordinator, runtime, connection, inhibitor, logind
<1>20. CASE ConnectFails
  BY <1>20, <1>a DEF ConnectFails, RefuseWorker, LastInv, coordinator, runtime, connection, inhibitor,
      logind
<1>21. CASE Stop
  BY <1>21, <1>a DEF Stop, LastInv, coordinator, runtime, connection, inhibitor, logind
<1>22. CASE StopWorker
  BY <1>22 DEF StopWorker, LastInv
<1>23. CASE Stopped
  BY <1>23 DEF Stopped, LastInv
<1>24. CASE MaskRecovery
  BY <1>24, <1>a DEF MaskRecovery, MaskNeutralizeBegin, MaskNeutralizeEnd, LockInv
<1>25. CASE UNCHANGED vars
  BY <1>25, <1>a DEF LastInv, vars, coordinator, runtime, connection, inhibitor, logind
<1>26. CASE MonitorStopped
  BY <1>26, <1>a DEF MonitorStopped, LastInv, coordinator, runtime, connection, inhibitor, logind
<1>27. CASE Client
  BY <1>27, <1>a DEF Client, RequestArrives, RequestAnswered, SessionCloses, SessionClosed,
     SleepUnchanged, start_monitor, LastInv,
     coordinator, runtime, connection, inhibitor, logind
<1> QED
  BY <1>1, <1>2, <1>3, <1>4, <1>5, <1>6, <1>7, <1>8, <1>9, <1>10, <1>11, <1>12, <1>13, <1>14, <1>15,
      <1>16, <1>17, <1>18, <1>19, <1>20, <1>21, <1>22, <1>23, <1>24, <1>25, <1>26, <1>27 DEF Next, Machine, Worker,
      Supervisor

\* Every step keeps the inhibitor of a watched connection.
LEMMA InhibitStep ==
    ASSUME "mask" \notin Faults, SettleInv, [Next]_vars
    PROVE  InhibitInv'
<1>a. /\ CountInv /\ WorkerPresence /\ LockInv /\ PauseInv /\ StopInv
      /\ AgreeInv /\ QuietInv /\ LastInv /\ InhibitInv /\ HeardInv /\ PromiseInv
  BY DEF SettleInv, SleepInv
<1>1. CASE PrepareForSleep
  BY <1>1, <1>a DEF PrepareForSleep, InhibitInv, coordinator, runtime, connection, inhibitor, logind
<1>2. CASE Suspend
  BY <1>2, <1>a DEF Suspend, InhibitInv, coordinator, runtime, connection, inhibitor, logind
<1>3. CASE Wake
  BY <1>3, <1>a DEF Wake, InhibitInv, coordinator, runtime, connection, inhibitor, logind
<1>4. CASE ConnectionLost
  BY <1>4, <1>a DEF ConnectionLost, InhibitInv, coordinator, runtime, connection, inhibitor, logind
<1>5. CASE Input
  BY <1>5, <1>a DEF Input, InhibitInv, coordinator, runtime, connection, inhibitor, logind
<1>6. CASE Deliver
  <2>1. _events' # <<>> /\ UNCHANGED <<supervisor, _subscribed>>
    BY <1>6, <1>a, LastOfAppend DEF Deliver, _on_prepare_for_sleep, connection, CountInv, TypeOK,
        CoordinatorTypes, RuntimeTypes, LogindTypes
  <2> QED
    BY <1>a, <2>1 DEF InhibitInv
<1>7. CASE TakeSuspend
  <2>1. worker' = "neutralize" /\ UNCHANGED <<supervisor, _subscribed>> /\ LastInv'
    BY <1>7, <1>a, LastStep DEF TakeSuspend, connection
  <2> QED
    BY <1>a, <2>1 DEF InhibitInv, LastInv
<1>8. CASE WorkerNeutralizeBegin
  <2>1. worker' = "neutralizing" /\ UNCHANGED <<supervisor, _subscribed>> /\ LastInv'
    BY <1>8, <1>a, LastStep DEF WorkerNeutralizeBegin, connection
  <2> QED
    BY <1>a, <2>1 DEF InhibitInv, LastInv
<1>9. CASE WorkerNeutralizeEnd
  <2>1. worker' = "hardware" /\ UNCHANGED <<supervisor, _subscribed>> /\ LastInv'
    BY <1>9, <1>a, LastStep DEF WorkerNeutralizeEnd, connection
  <2> QED
    BY <1>a, <2>1 DEF InhibitInv, LastInv
<1>10. CASE HardwareCleanedUp
  <2>1. worker = "restoring" /\ UNCHANGED <<supervisor, _subscribed, _events, _sleep_requested>>
    BY <1>10 DEF HardwareCleanedUp, connection, coordinator
  <2> QED
    BY <1>a, <2>1 DEF InhibitInv, LastInv
<1>11. CASE TakeWake
  <2>1. /\ worker = "waiting" /\ UNCHANGED <<connection, inhibitor, _sleep_requested,
                                             _pending_neutralizations, supervisor>>
    BY <1>11 DEF TakeWake
  <2>2. CASE StaleWake
    <3>1. worker' = "waiting"
      BY <1>11, <2>1, <2>2 DEF TakeWake
    <3>2. _events' = <<>> => _pending_neutralizations = 0
      <4>1. PendingMatchesQueue'
        BY CountInvStep, <1>a DEF CountInv
      <4> QED
        BY <2>1, <3>1, <4>1, SuspendsEmpty DEF PendingMatchesQueue
    <3>3. _events' = <<>> => _sleep_requested
      BY <2>2, <3>2 DEF StaleWake
    <3> QED
      BY <1>a, <2>1, <3>3 DEF InhibitInv, connection
  <2>3. CASE ~StaleWake
    <3>1. worker' = IF _subscribed /\ ~_inhibitor_fd THEN "acquiring" ELSE "waiting"
      BY <1>11, <2>3 DEF TakeWake
    <3> QED
      BY <1>a, <2>1, <3>1 DEF InhibitInv, connection, inhibitor
  <2> QED
    BY <2>2, <2>3
<1>12. CASE WorkerAcquired
  BY <1>12, <1>a DEF WorkerAcquired, StoreInhibitor, InhibitInv, connection
<1>13. CASE WorkerAcquireFails
  BY <1>13, <1>a DEF WorkerAcquireFails, InhibitInv, coordinator, runtime, connection, inhibitor, logind
<1>14. CASE TakeStop
  <2>1. StopInv' /\ worker' = "done" /\ UNCHANGED <<supervisor, _subscribed>>
    BY <1>14, <1>a, StopInvStep DEF TakeStop, connection
  <2> QED
    BY <1>a, <2>1 DEF InhibitInv, StopInv
<1>15. CASE Started
  BY <1>15, <1>a DEF Started, StoreInhibitor, InhibitInv, connection
<1>16. CASE StartFails
  BY <1>16 DEF StartFails, InhibitInv
<1>17. CASE ConnectionClosed
  BY <1>17 DEF ConnectionClosed, InhibitInv
<1>18. CASE Connect
  BY <1>18, <1>a DEF Connect, InhibitInv, inhibitor, coordinator
<1>19. CASE Connected
  BY <1>19, <1>a DEF Connected, StoreInhibitor, InhibitInv, connection
<1>20. CASE ConnectFails
  BY <1>20 DEF ConnectFails, InhibitInv
<1>21. CASE Stop
  BY <1>21 DEF Stop, InhibitInv
<1>22. CASE StopWorker
  BY <1>22 DEF StopWorker, InhibitInv
<1>23. CASE Stopped
  BY <1>23 DEF Stopped, InhibitInv
<1>24. CASE MaskRecovery
  BY <1>24, <1>a DEF MaskRecovery, MaskNeutralizeBegin, MaskNeutralizeEnd, LockInv
<1>25. CASE UNCHANGED vars
  BY <1>25, <1>a DEF InhibitInv, vars, coordinator, runtime, connection, inhibitor, logind
<1>26. CASE MonitorStopped
  BY <1>26, <1>a DEF MonitorStopped, InhibitInv, coordinator, runtime, connection, inhibitor, logind
<1>27. CASE Client
  BY <1>27, <1>a DEF Client, RequestArrives, RequestAnswered, SessionCloses, SessionClosed,
     SleepUnchanged, InhibitInv,
     coordinator, runtime, connection, inhibitor, logind
<1> QED
  BY <1>1, <1>2, <1>3, <1>4, <1>5, <1>6, <1>7, <1>8, <1>9, <1>10, <1>11, <1>12, <1>13, <1>14, <1>15,
      <1>16, <1>17, <1>18, <1>19, <1>20, <1>21, <1>22, <1>23, <1>24, <1>25, <1>26, <1>27 DEF Next, Machine, Worker,
      Supervisor

\* Every step keeps the promise with those who hear it.
LEMMA HeardStep ==
    ASSUME "mask" \notin Faults, SettleInv, [Next]_vars
    PROVE  HeardInv'
<1>a. /\ CountInv /\ WorkerPresence /\ LockInv /\ PauseInv /\ StopInv
      /\ AgreeInv /\ QuietInv /\ LastInv /\ InhibitInv /\ HeardInv /\ PromiseInv
  BY DEF SettleInv, SleepInv
<1>1. CASE PrepareForSleep
  BY <1>1, <1>a DEF PrepareForSleep, HeardInv, coordinator, runtime, connection, inhibitor, logind
<1>2. CASE Suspend
  BY <1>2, <1>a DEF Suspend, HeardInv, coordinator, runtime, connection, inhibitor, logind
<1>3. CASE Wake
  BY <1>3, <1>a DEF Wake, HeardInv, coordinator, runtime, connection, inhibitor, logind
<1>4. CASE ConnectionLost
  BY <1>4, <1>a DEF ConnectionLost, HeardInv, coordinator, runtime, connection, inhibitor, logind
<1>5. CASE Input
  BY <1>5, <1>a DEF Input, HeardInv, coordinator, runtime, connection, inhibitor, logind
<1>6. CASE Deliver
  BY <1>6, <1>a DEF Deliver, HeardInv, coordinator, runtime, connection, inhibitor, logind
<1>7. CASE TakeSuspend
  BY <1>7, <1>a DEF TakeSuspend, HeardInv, coordinator, runtime, connection, inhibitor, logind
<1>8. CASE WorkerNeutralizeBegin
  BY <1>8, <1>a DEF WorkerNeutralizeBegin, HeardInv, coordinator, runtime, connection, inhibitor, logind
<1>9. CASE WorkerNeutralizeEnd
  BY <1>9, <1>a DEF WorkerNeutralizeEnd, HeardInv, coordinator, runtime, connection, inhibitor, logind
<1>10. CASE HardwareCleanedUp
  BY <1>10, <1>a DEF HardwareCleanedUp, HeardInv, coordinator, runtime, connection, inhibitor, logind
<1>11. CASE TakeWake
  BY <1>11, <1>a DEF TakeWake, HeardInv, coordinator, runtime, connection, inhibitor, logind
<1>12. CASE WorkerAcquired
  BY <1>12, <1>a DEF WorkerAcquired, HeardInv, coordinator, runtime, connection, inhibitor, logind
<1>13. CASE WorkerAcquireFails
  BY <1>13, <1>a DEF WorkerAcquireFails, HeardInv, coordinator, runtime, connection, inhibitor, logind
<1>14. CASE TakeStop
  BY <1>14, <1>a DEF TakeStop, HeardInv, coordinator, runtime, connection, inhibitor, logind
<1>15. CASE Started
  BY <1>15, <1>a DEF Started, HeardInv, coordinator, runtime, connection, inhibitor, logind
<1>16. CASE StartFails
  BY <1>16 DEF StartFails, CloseConnection, HeardInv
<1>17. CASE ConnectionClosed
  BY <1>17 DEF ConnectionClosed, CloseConnection, HeardInv
<1>18. CASE Connect
  BY <1>18, <1>a DEF Connect, HeardInv, coordinator, runtime, connection, inhibitor, logind
<1>19. CASE Connected
  BY <1>19, <1>a DEF Connected, HeardInv, coordinator, runtime, connection, inhibitor, logind
<1>20. CASE ConnectFails
  BY <1>20 DEF ConnectFails, CloseConnection, HeardInv
<1>21. CASE Stop
  BY <1>21, <1>a DEF Stop, HeardInv, coordinator, runtime, connection, inhibitor, logind
<1>22. CASE StopWorker
  BY <1>22, <1>a DEF StopWorker, HeardInv, coordinator, runtime, connection, inhibitor, logind
<1>23. CASE Stopped
  BY <1>23 DEF Stopped, CloseConnection, HeardInv
<1>24. CASE MaskRecovery
  BY <1>24, <1>a DEF MaskRecovery, MaskNeutralizeBegin, MaskNeutralizeEnd, LockInv
<1>25. CASE UNCHANGED vars
  BY <1>25, <1>a DEF HeardInv, vars, coordinator, runtime, connection, inhibitor, logind
<1>26. CASE MonitorStopped
  BY <1>26, <1>a DEF MonitorStopped, HeardInv, coordinator, runtime, connection, inhibitor, logind
<1>27. CASE Client
  BY <1>27, <1>a DEF Client, RequestArrives, RequestAnswered, SessionCloses, SessionClosed,
     SleepUnchanged, HeardInv,
     coordinator, runtime, connection, inhibitor, logind
<1> QED
  BY <1>1, <1>2, <1>3, <1>4, <1>5, <1>6, <1>7, <1>8, <1>9, <1>10, <1>11, <1>12, <1>13, <1>14, <1>15,
      <1>16, <1>17, <1>18, <1>19, <1>20, <1>21, <1>22, <1>23, <1>24, <1>25, <1>26, <1>27 DEF Next, Machine, Worker,
      Supervisor

\* Every step keeps the promise of a suspend.
LEMMA PromiseStep ==
    ASSUME "mask" \notin Faults, SettleInv, [Next]_vars
    PROVE  PromiseInv'
<1>a. /\ CountInv /\ WorkerPresence /\ LockInv /\ PauseInv /\ StopInv
      /\ AgreeInv /\ QuietInv /\ LastInv /\ InhibitInv /\ HeardInv /\ PromiseInv
  BY DEF SettleInv, SleepInv
<1>1. CASE PrepareForSleep
  <2>1. /\ signals \in Seq({"sleep", "wake"}) /\ Len(signals) \in Nat
        /\ promised' = (_subscribed /\ link /\ _inhibitor_fd)
        /\ UNCHANGED <<_pending_neutralizations, worker, _inhibitor_fd>>
        /\ _pending_neutralizations \in Nat
    BY <1>1, <1>a DEF PrepareForSleep, CountInv, TypeOK, CoordinatorTypes, RuntimeTypes, LogindTypes,
        coordinator, inhibitor
  <2>2. ASSUME promised'
        PROVE  _subscribed /\ link /\ _inhibitor_fd
    BY <2>1, <2>2
  <2>3. overlapped' = (\/ _pending_neutralizations > 0 \/ worker \in {"hardware", "restoring"}
                       \/ \E i \in 1..Len(signals) : signals[i] = "sleep")
    BY <1>1 DEF PrepareForSleep
  <2>4. ASSUME ~overlapped'
        PROVE  /\ _pending_neutralizations = 0 /\ worker \notin {"hardware", "restoring"}
               /\ \A i \in 1..Len(signals) : signals[i] # "sleep"
    BY <2>1, <2>3, <2>4
  <2>5. ASSUME promised', ~overlapped'
        PROVE  /\ LastIs(signals', "sleep")
               /\ \A i \in 1..(Len(signals') - 1) : signals'[i] # "sleep"
    <3>1. signals' = Append(signals, "sleep")
      BY <1>1, <2>2, <2>5 DEF PrepareForSleep, Announce
    <3>2. /\ LastIs(signals', "sleep") /\ Len(signals') - 1 = Len(signals)
          /\ \A i \in 1..Len(signals) : signals'[i] = signals[i]
      BY <2>1, <3>1, LastOfAppend
    <3> QED
      BY <2>4, <2>5, <3>2
  <2> QED
    BY <2>1, <2>2, <2>4, <2>5 DEF PromiseInv
<1>2. CASE Suspend
  BY <1>2 DEF Suspend, PromiseInv
<1>3. CASE Wake
  BY <1>3 DEF Wake, PromiseInv
<1>4. CASE ConnectionLost
  BY <1>4 DEF ConnectionLost, PromiseInv
<1>5. CASE Input
  BY <1>5, <1>a DEF Input, PromiseInv, coordinator, runtime, connection, inhibitor, logind
<1>6. CASE Deliver
  <2>0. PICK s : s = Head(signals)
    OBVIOUS
  <2>1. /\ signals \in Seq({"sleep", "wake"}) /\ signals # <<>> /\ signals' = Tail(signals)
        /\ UNCHANGED <<machine, promised, overlapped, _inhibitor_fd, worker>>
        /\ _sleep_requested' = (s = "sleep")
        /\ _pending_neutralizations \in Nat
        /\ _pending_neutralizations' = (IF s = "sleep" THEN _pending_neutralizations + 1
                                                       ELSE _pending_neutralizations)
    BY <1>6, <1>a, <2>0 DEF Deliver, _on_prepare_for_sleep, CountInv, TypeOK, CoordinatorTypes,
        RuntimeTypes, LogindTypes, logind, inhibitor
  <2> SUFFICES ASSUME machine = "preparing", promised, ~overlapped
               PROVE  PromiseInv'
    BY <2>1 DEF PromiseInv
  <2>2. /\ LastIs(signals, "sleep") /\ \A i \in 1..(Len(signals) - 1) : signals[i] # "sleep"
        /\ _pending_neutralizations = 0 /\ worker \notin {"hardware", "restoring"} /\ _inhibitor_fd
    BY <1>a, <2>1 DEF PromiseInv
  <2>3. /\ Tail(signals) \in Seq({"sleep", "wake"}) /\ Len(Tail(signals)) = Len(signals) - 1
        /\ Len(signals) \in Nat \ {0}
        /\ \A i \in 1..Len(Tail(signals)) : Tail(signals)[i] = signals[i + 1]
        /\ s = signals[1]
    BY <2>0, <2>1, HeadTailProperties
  <2>4. CASE Tail(signals) = <<>>
    <3>1. s = "sleep"
      BY <2>0, <2>1, <2>2, <2>4, LastOfTail
    <3>2. signals' = <<>> /\ _pending_neutralizations' = 1
      BY <2>1, <2>2, <2>4, <3>1
    <3>3. _sleep_requested'
      BY <2>1, <3>1
    <3> QED
      BY <2>1, <2>2, <3>2, <3>3 DEF PromiseInv
  <2>5. CASE Tail(signals) # <<>>
    <3>1. LastIs(signals', "sleep")
      BY <2>1, <2>2, <2>5, LastOfTail
    <3>2. Len(signals) # 1
      BY <2>3, <2>5
    <3>3. s # "sleep"
      BY <2>2, <2>3, <3>2
    <3>4. \A i \in 1..(Len(signals') - 1) : signals'[i] # "sleep"
      BY <2>1, <2>2, <2>3
    <3> QED
      BY <2>1, <2>2, <3>1, <3>3, <3>4 DEF PromiseInv
  <2> QED
    BY <2>4, <2>5
<1>7. CASE TakeSuspend
  BY <1>7, <1>a DEF TakeSuspend, PromiseInv, coordinator, inhibitor, logind
<1>8. CASE WorkerNeutralizeBegin
  BY <1>8, <1>a DEF WorkerNeutralizeBegin, PromiseInv, coordinator, inhibitor, logind
<1>9. CASE WorkerNeutralizeEnd
  <2>1. /\ _pending_neutralizations' = _pending_neutralizations - 1
        /\ UNCHANGED <<machine, promised, overlapped, signals, _sleep_requested>>
        /\ _pending_neutralizations \in Nat /\ _pending_neutralizations > 0
    BY <1>9, <1>a, InHandsIsCounted DEF WorkerNeutralizeEnd, logind, CountInv, TypeOK,
        CoordinatorTypes, RuntimeTypes
  <2> QED
    BY <1>a, <2>1 DEF PromiseInv
<1>10. CASE HardwareCleanedUp
  BY <1>10, <1>a DEF HardwareCleanedUp, PromiseInv, coordinator, runtime, connection, inhibitor, logind
<1>11. CASE TakeWake
  BY <1>11, <1>a DEF TakeWake, PromiseInv, coordinator, runtime, connection, inhibitor, logind
<1>12. CASE WorkerAcquired
  BY <1>12, <1>a DEF WorkerAcquired, StoreInhibitor, PromiseInv, coordinator, logind
<1>13. CASE WorkerAcquireFails
  BY <1>13, <1>a DEF WorkerAcquireFails, PromiseInv, coordinator, runtime, connection, inhibitor, logind
<1>14. CASE TakeStop
  BY <1>14, <1>a DEF TakeStop, PromiseInv, coordinator, runtime, connection, inhibitor, logind
<1>15. CASE Started
  BY <1>15, <1>a DEF Started, StoreInhibitor, PromiseInv, coordinator, logind
<1>16. CASE StartFails
  BY <1>16 DEF StartFails, CloseConnection, PromiseInv
<1>17. CASE ConnectionClosed
  BY <1>17 DEF ConnectionClosed, CloseConnection, PromiseInv
<1>18. CASE Connect
  BY <1>18, <1>a DEF Connect, PromiseInv, coordinator, runtime, connection, inhibitor, logind
<1>19. CASE Connected
  BY <1>19, <1>a DEF Connected, StoreInhibitor, PromiseInv, coordinator, logind
<1>20. CASE ConnectFails
  BY <1>20 DEF ConnectFails, CloseConnection, PromiseInv
<1>21. CASE Stop
  BY <1>21, <1>a DEF Stop, PromiseInv, coordinator, runtime, connection, inhibitor, logind
<1>22. CASE StopWorker
  BY <1>22 DEF StopWorker, PromiseInv
<1>23. CASE Stopped
  BY <1>23 DEF Stopped, CloseConnection, PromiseInv
<1>24. CASE MaskRecovery
  BY <1>24, <1>a DEF MaskRecovery, MaskNeutralizeBegin, MaskNeutralizeEnd, LockInv
<1>25. CASE UNCHANGED vars
  BY <1>25, <1>a DEF PromiseInv, vars, coordinator, runtime, connection, inhibitor, logind
<1>26. CASE MonitorStopped
  BY <1>26, <1>a DEF MonitorStopped, PromiseInv, coordinator, runtime, connection, inhibitor, logind
<1>27. CASE Client
  BY <1>27, <1>a DEF Client, RequestArrives, RequestAnswered, SessionCloses, SessionClosed,
     SleepUnchanged, PromiseInv,
     coordinator, runtime, connection, inhibitor, logind
<1> QED
  BY <1>1, <1>2, <1>3, <1>4, <1>5, <1>6, <1>7, <1>8, <1>9, <1>10, <1>11, <1>12, <1>13, <1>14, <1>15,
      <1>16, <1>17, <1>18, <1>19, <1>20, <1>21, <1>22, <1>23, <1>24, <1>25, <1>26, <1>27 DEF Next, Machine, Worker,
      Supervisor

\* The invariant behind the agreement holds at first and in every step.
LEMMA SettleInvHolds ==
    ASSUME "mask" \notin Faults
    PROVE  Spec => []SettleInv
<1>1. Init => SettleInv
  BY CountInvInit DEF SettleInv, SleepInv, Init, WorkerPresence, LockInv, PauseInv, StopInv, AgreeInv,
     QuietInv, LastInv, InhibitInv, HeardInv, PromiseInv
<1>2. ASSUME SettleInv, [Next]_vars
      PROVE  SettleInv'
  <2>1. SleepInv' /\ StopInv'
    BY <1>2, SleepInvStep, StopInvStep DEF SettleInv, SleepInv
  <2>2. AgreeInv' /\ QuietInv' /\ LastInv' /\ InhibitInv' /\ HeardInv' /\ PromiseInv'
    BY <1>2, AgreeStep, QuietStep, LastStep, InhibitStep, HeardStep, PromiseStep
  <2> QED
    BY <2>1, <2>2 DEF SettleInv
<1> QED
  BY <1>1, <1>2, PTL DEF Spec

\* When the handler, the worker and the supervisor have caught up, the runtime agrees
\* with the last PrepareForSleep signal, real or made up for a lost connection: input,
\* outputs, the mask monitor and the inhibitor.  Reconnections that fail are included.
THEOREM SettledAgrees ==
    ASSUME "mask" \notin Faults
    PROVE  Spec => []SettledAgreement
<1>1. ASSUME SettleInv
      PROVE  SettledAgreement
  <2>1. /\ CountInv /\ PauseInv /\ AgreeInv /\ QuietInv /\ LastInv /\ InhibitInv
    BY <1>1 DEF SettleInv, SleepInv
  <2> SUFFICES ASSUME CaughtUp
               PROVE  IF _sleep_requested
                        THEN _runtime_input_paused /\ ~outputs_active /\ monitor # "resumed"
                        ELSE ~_runtime_input_paused /\ monitor # "stopped" /\ _inhibitor_fd
    BY DEF SettledAgreement
  <2>2. _pending_neutralizations = 0
    BY <2>1, SuspendsEmpty DEF CaughtUp, CountInv, PendingMatchesQueue
  <2>3. CASE _sleep_requested
    BY <2>1, <2>2, <2>3 DEF CaughtUp, PauseInv, QuietInv
  <2>4. CASE ~_sleep_requested
    BY <2>1, <2>2, <2>4 DEF CaughtUp, AgreeInv, LastInv, InhibitInv
  <2> QED
    BY <2>3, <2>4
<1> QED
  BY <1>1, SettleInvHolds, PTL

\* When logind suspends because the delay inhibitor it waited for was closed
\* (_release_inhibitor, at the end of the worker's cleanup), input is paused and the
\* outputs are released, unless an older suspend was still being cleaned up.
THEOREM LoneSuspendIsClean ==
    ASSUME "mask" \notin Faults
    PROVE  Spec => CleanLoneSuspend
<1>1. ASSUME SettleInv, machine = "preparing", promised, ~_inhibitor_fd, ~overlapped
      PROVE  _runtime_input_paused /\ ~outputs_active
  <2>1. PauseInv /\ QuietInv /\ PromiseInv /\ StopInv /\ HeardInv
    BY <1>1 DEF SettleInv, SleepInv
  <2>2. _sleep_requested /\ _pending_neutralizations = 0
    BY <1>1, <2>1 DEF PromiseInv
  <2>3. _runtime_paused
    BY <1>1, <2>1, <2>2 DEF PauseInv, StopInv, HeardInv
  <2> QED
    BY <2>1, <2>2, <2>3 DEF PauseInv, QuietInv
<1>2. SettleInv /\ [Next]_vars =>
        [machine = "preparing" /\ machine' = "asleep" /\ promised /\ ~_inhibitor_fd /\ ~leaked
           /\ ~overlapped
           => _runtime_input_paused /\ ~outputs_active]_vars
  BY <1>1
<1> QED
  BY <1>2, SettleInvHolds, PTL DEF Spec, CleanLoneSuspend
=============================================================================
