-------------------------- MODULE ThreadPoolProofs --------------------------
(***************************************************************************)
(* Proofs about ThreadPool for every number of workers, every set of tasks *)
(* and every combination of failures.                                      *)
(***************************************************************************)
EXTENDS ThreadPool, FiniteSetTheorems, TLAPS

USE PoolAssumption DEF PoolAssumption, vars, queueVars, bossVars, workerVars,
    AtQueue, BossStates, WorkerStates, Fault, NoFault, Waiters, JoinedAll, QueuePop

(***************************************************************************)
(* Where the tasks are.  One lemma for each way a step can move a task:    *)
(* not at all, from the queue to a worker, into the queue, from a worker   *)
(* to the finished ones.                                                   *)
(***************************************************************************)

\* A step that moves no task keeps OneCopy and NoneForgotten.
LEMMA PlacesFrame ==
  ASSUME OneCopy, NoneForgotten,
         UNCHANGED <<p_task, work_queue, submitted, finished>>,
         boss \in {"destroyed", "destroy_failed"} => boss' \in {"destroyed", "destroy_failed"}
  PROVE  OneCopy' /\ NoneForgotten'
<1>1. Queued' = Queued /\ Held' = Held
  BY DEF Queued, Held
<1> QED
  BY <1>1 DEF OneCopy, NoneForgotten

\* coin_queue_pop hands the oldest task to a worker whose hands are empty.
LEMMA PopPlaces ==
  ASSUME TypeOK, OneCopy, NoneForgotten,
         NEW w \in Workers, p_task[w] = NoTask, Len(work_queue) > 0,
         p_task' = [p_task EXCEPT ![w] = Head(work_queue)],
         work_queue' = Tail(work_queue),
         UNCHANGED <<boss, submitted, finished>>
  PROVE  OneCopy' /\ NoneForgotten'
<1> DEFINE h == Head(work_queue)
<1>1. /\ h = work_queue[1]
      /\ h \in Tasks
      /\ h \in Queued
  BY DEF TypeOK, Queued
<1>2. /\ Len(work_queue') = Len(work_queue) - 1
      /\ \A i \in 1..Len(work_queue') : work_queue'[i] = work_queue[i + 1]
  BY DEF TypeOK
<1>3. \A i, j \in 1..Len(work_queue') : work_queue'[i] = work_queue'[j] => i = j
  BY <1>2 DEF TypeOK, OneCopy
<1>4. Queued' = Queued \ {h}
  <2>1. ASSUME NEW x \in Queued' PROVE x \in Queued \ {h}
    <3>1. PICK i \in 1..Len(work_queue') : x = work_queue'[i]
      BY <2>1 DEF Queued
    <3>2. i + 1 \in 1..Len(work_queue) /\ i + 1 # 1 /\ x = work_queue[i + 1]
      BY <1>2, <3>1 DEF TypeOK
    <3> QED
      BY <1>1, <3>2 DEF Queued, OneCopy, TypeOK
  <2>2. ASSUME NEW x \in Queued \ {h} PROVE x \in Queued'
    <3>1. PICK i \in 1..Len(work_queue) : x = work_queue[i]
      BY <2>2 DEF Queued
    <3>2. i - 1 \in 1..Len(work_queue') /\ x = work_queue'[i - 1]
      BY <1>1, <1>2, <2>2, <3>1 DEF TypeOK
    <3> QED
      BY <3>2 DEF Queued
  <2> QED
    BY <2>1, <2>2
<1>5. \A v \in Workers : p_task'[v] = IF v = w THEN h ELSE p_task[v]
  BY DEF TypeOK
<1>6. Held' = Held \cup {h}
  BY <1>1, <1>5 DEF Held
<1>7. \A v, u \in Workers : p_task'[v] = p_task'[u] /\ p_task'[v] # NoTask => v = u
  BY <1>1, <1>5 DEF OneCopy, Held
<1> HIDE DEF h
<1> QED
  BY <1>1, <1>3, <1>4, <1>6, <1>7 DEF OneCopy, NoneForgotten

\* coin_queue_push adds a task that was never submitted before.
LEMMA PushPlaces ==
  ASSUME TypeOK, OneCopy, NoneForgotten,
         NEW t \in Tasks, t \notin submitted, Push(t),
         UNCHANGED <<boss, p_task, finished>>
  PROVE  OneCopy' /\ NoneForgotten'
<1>1. /\ Len(work_queue') = Len(work_queue) + 1
      /\ \A i \in 1..Len(work_queue) : work_queue'[i] = work_queue[i]
      /\ work_queue'[Len(work_queue) + 1] = t
  BY DEF TypeOK, Push
<1>2. Queued' = Queued \cup {t}
  <2>1. ASSUME NEW x \in Queued' PROVE x \in Queued \cup {t}
    BY <1>1, <2>1 DEF Queued, TypeOK
  <2>2. ASSUME NEW x \in Queued PROVE x \in Queued'
    BY <1>1, <2>2 DEF Queued, TypeOK
  <2>3. t \in Queued'
    <3>1. Len(work_queue) + 1 \in 1..Len(work_queue')
      BY <1>1 DEF TypeOK
    <3> QED
      BY <1>1, <3>1 DEF Queued
  <2> QED
    BY <2>1, <2>2, <2>3
<1>3. Held' = Held
  BY DEF Held
<1>4. \A i, j \in 1..Len(work_queue') : work_queue'[i] = work_queue'[j] => i = j
  <2>1. \A i \in 1..Len(work_queue) : work_queue[i] # t
    BY DEF OneCopy, Queued
  <2> QED
    BY <1>1, <2>1 DEF OneCopy, TypeOK
<1> QED
  BY <1>2, <1>3, <1>4 DEF OneCopy, NoneForgotten, Push

\* coin_thread_worker lets go of a task when its function has returned.
LEMMA RunPlaces ==
  ASSUME TypeOK, OneCopy, NoneForgotten,
         NEW w \in Workers, p_task[w] # NoTask,
         p_task' = [p_task EXCEPT ![w] = NoTask],
         finished' = finished \cup {p_task[w]},
         UNCHANGED <<boss, work_queue, submitted>>
  PROVE  OneCopy' /\ NoneForgotten'
<1>1. Queued' = Queued
  BY DEF Queued
<1>2. \A v \in Workers : p_task'[v] = IF v = w THEN NoTask ELSE p_task[v]
  BY DEF TypeOK
<1>3. p_task[w] \in Held
  BY DEF Held
<1>4. Held' = Held \ {p_task[w]}
  BY <1>2 DEF Held, OneCopy
<1>5. \A v, u \in Workers : p_task'[v] = p_task'[u] /\ p_task'[v] # NoTask => v = u
  BY <1>2 DEF OneCopy
<1> QED
  BY <1>1, <1>3, <1>4, <1>5 DEF OneCopy, NoneForgotten

(***************************************************************************)
(* The counter of active tasks.                                            *)
(***************************************************************************)

\* The workers that are counted are finitely many.
LEMMA CountedFinite ==
  /\ IsFiniteSet(Workers) /\ IsFiniteSet(Counted)
  /\ Cardinality(Counted) \in Nat
<1>1. IsFiniteSet(Workers)
  BY FS_Interval DEF Workers
<1>2. IsFiniteSet(Counted)
  BY <1>1, FS_Subset DEF Counted
<1> QED
  BY <1>1, <1>2, FS_CardinalityType

\* One more worker between the two counter updates.
LEMMA CountOneMore ==
  ASSUME NEW w \in Workers, w \notin Counted, Counted' = Counted \cup {w}
  PROVE  Cardinality(Counted') = Cardinality(Counted) + 1
BY CountedFinite, FS_AddElement

\* One worker fewer between the two counter updates.
LEMMA CountOneLess ==
  ASSUME NEW w \in Workers, w \in Counted, Counted' = Counted \ {w}
  PROVE  Cardinality(Counted') = Cardinality(Counted) - 1
BY CountedFinite, FS_RemoveElement

\* active_tasks-- is reached only with active_tasks above zero: the size_t
\* never wraps around.
LEMMA ActiveFloor ==
  ASSUME TypeOK, ActiveCounts, NEW w \in Workers, w \in Counted
  PROVE  active_tasks > 0
<1>1. Cardinality(Counted) # 0
  BY CountedFinite, FS_EmptySet
<1> QED
  BY <1>1, CountedFinite DEF TypeOK, ActiveCounts

\* Every step keeps the inductive invariant, one case for each action.
LEMMA PoolInvStep == PoolInv /\ [Next]_vars => PoolInv'
<1> SUFFICES ASSUME PoolInv, [Next]_vars PROVE PoolInv'
  OBVIOUS
<1> TypeOK /\ ActiveCounts /\ HandsInv /\ PhaseInv /\ OneCopy /\ NoneForgotten /\ FreedWhenQuiet
  BY DEF PoolInv
<1>1. CASE TpoolInit
  <2>1. TypeOK'
    BY <1>1 DEF TypeOK, TpoolInit
  <2>2. HandsInv'
    BY <1>1 DEF TypeOK, HandsInv, TpoolInit
  <2>3. PhaseInv' /\ FreedWhenQuiet'
    BY <1>1 DEF TypeOK, PhaseInv, FreedWhenQuiet, TpoolInit
  <2>4. OneCopy' /\ NoneForgotten'
    BY <1>1, PlacesFrame DEF TpoolInit
  <2>5. ActiveCounts'
    <3>1. Counted' = Counted
      BY <1>1 DEF TypeOK, PhaseInv, Counted, TpoolInit
    <3> QED
      BY <1>1, <3>1, CountedFinite DEF TypeOK, ActiveCounts, TpoolInit
  <2> QED
    BY <2>1, <2>2, <2>3, <2>4, <2>5 DEF PoolInv
<1>2. CASE CreateWorker
  <2>1. TypeOK'
    <3>1. num_created + 1 \in Workers
      BY <1>2 DEF TypeOK, Workers, CreateWorker
    <3> QED
      BY <1>2, <3>1 DEF TypeOK, Workers, CreateWorker
  <2>2. HandsInv'
    <3>1. num_created + 1 \in Workers /\ pc[num_created + 1] = "new"
      BY <1>2 DEF TypeOK, PhaseInv, Workers, CreateWorker
    <3> QED
      BY <1>2, <3>1 DEF TypeOK, HandsInv, CreateWorker
  <2>3. PhaseInv' /\ FreedWhenQuiet'
    BY <1>2 DEF TypeOK, PhaseInv, FreedWhenQuiet, CreateWorker
  <2>4. OneCopy' /\ NoneForgotten'
    BY <1>2, PlacesFrame DEF CreateWorker
  <2>5. ActiveCounts'
    <3>1. Counted' = Counted
      BY <1>2 DEF TypeOK, PhaseInv, Counted, CreateWorker
    <3> QED
      BY <1>2, <3>1, CountedFinite DEF TypeOK, ActiveCounts, CreateWorker
  <2> QED
    BY <2>1, <2>2, <2>3, <2>4, <2>5 DEF PoolInv
<1>3. CASE WorkersCreated
  <2>1. TypeOK'
    BY <1>3 DEF TypeOK, WorkersCreated
  <2>2. HandsInv'
    BY <1>3 DEF TypeOK, HandsInv, WorkersCreated
  <2>3. PhaseInv' /\ FreedWhenQuiet'
    BY <1>3 DEF TypeOK, PhaseInv, FreedWhenQuiet, WorkersCreated
  <2>4. OneCopy' /\ NoneForgotten'
    BY <1>3, PlacesFrame DEF WorkersCreated
  <2>5. ActiveCounts'
    <3>1. Counted' = Counted
      BY <1>3 DEF TypeOK, PhaseInv, Counted, WorkersCreated
    <3> QED
      BY <1>3, <3>1, CountedFinite DEF TypeOK, ActiveCounts, WorkersCreated
  <2> QED
    BY <2>1, <2>2, <2>3, <2>4, <2>5 DEF PoolInv
<1>4. CASE CreateFails
  <2>1. TypeOK'
    BY <1>4 DEF TypeOK, CreateFails
  <2>2. HandsInv'
    BY <1>4 DEF TypeOK, HandsInv, CreateFails
  <2>3. PhaseInv' /\ FreedWhenQuiet'
    BY <1>4 DEF TypeOK, PhaseInv, FreedWhenQuiet, CreateFails
  <2>4. OneCopy' /\ NoneForgotten'
    BY <1>4, PlacesFrame DEF CreateFails
  <2>5. ActiveCounts'
    <3>1. Counted' = Counted
      BY <1>4 DEF TypeOK, PhaseInv, Counted, CreateFails
    <3> QED
      BY <1>4, <3>1, CountedFinite DEF TypeOK, ActiveCounts, CreateFails
  <2> QED
    BY <2>1, <2>2, <2>3, <2>4, <2>5 DEF PoolInv
<1>5. ASSUME NEW t \in Tasks, Submit(t) PROVE PoolInv'
  <2>1. TypeOK'
    BY <1>5 DEF TypeOK, Submit, Push, Signal
  <2>2. HandsInv'
    BY <1>5 DEF TypeOK, HandsInv, Submit, Push, Signal
  <2>3. PhaseInv' /\ FreedWhenQuiet'
    BY <1>5 DEF TypeOK, PhaseInv, FreedWhenQuiet, Submit, Push, Signal
  <2>4. OneCopy' /\ NoneForgotten'
    BY <1>5, PushPlaces DEF Submit
  <2>5. ActiveCounts'
    <3>1. Counted' = Counted
      BY <1>5 DEF TypeOK, PhaseInv, Counted, Submit, Push, Signal
    <3> QED
      BY <1>5, <3>1, CountedFinite DEF TypeOK, ActiveCounts, Submit, Push, Signal
  <2> QED
    BY <2>1, <2>2, <2>3, <2>4, <2>5 DEF PoolInv
<1>6. ASSUME NEW t \in Tasks, SubmitRefused(t) PROVE PoolInv'
  <2>1. TypeOK'
    BY <1>6 DEF TypeOK, SubmitRefused
  <2>2. HandsInv'
    BY <1>6 DEF TypeOK, HandsInv, SubmitRefused
  <2>3. PhaseInv' /\ FreedWhenQuiet'
    BY <1>6 DEF TypeOK, PhaseInv, FreedWhenQuiet, SubmitRefused
  <2>4. OneCopy' /\ NoneForgotten'
    BY <1>6, PlacesFrame DEF SubmitRefused
  <2>5. ActiveCounts'
    <3>1. Counted' = Counted
      BY <1>6 DEF TypeOK, PhaseInv, Counted, SubmitRefused
    <3> QED
      BY <1>6, <3>1, CountedFinite DEF TypeOK, ActiveCounts, SubmitRefused
  <2> QED
    BY <2>1, <2>2, <2>3, <2>4, <2>5 DEF PoolInv
<1>7. ASSUME NEW t \in Tasks, SubmitSignalFails(t) PROVE PoolInv'
  <2>1. TypeOK'
    BY <1>7 DEF TypeOK, SubmitSignalFails, Push
  <2>2. HandsInv'
    BY <1>7 DEF TypeOK, HandsInv, SubmitSignalFails, Push
  <2>3. PhaseInv' /\ FreedWhenQuiet'
    BY <1>7 DEF TypeOK, PhaseInv, FreedWhenQuiet, SubmitSignalFails, Push
  <2>4. OneCopy' /\ NoneForgotten'
    BY <1>7, PushPlaces DEF SubmitSignalFails
  <2>5. ActiveCounts'
    <3>1. Counted' = Counted
      BY <1>7 DEF TypeOK, PhaseInv, Counted, SubmitSignalFails, Push
    <3> QED
      BY <1>7, <3>1, CountedFinite DEF TypeOK, ActiveCounts, SubmitSignalFails, Push
  <2> QED
    BY <2>1, <2>2, <2>3, <2>4, <2>5 DEF PoolInv
<1>8. CASE WaitCall
  <2>1. TypeOK'
    BY <1>8 DEF TypeOK, WaitCall
  <2>2. HandsInv'
    BY <1>8 DEF TypeOK, HandsInv, WaitCall
  <2>3. PhaseInv' /\ FreedWhenQuiet'
    BY <1>8 DEF TypeOK, PhaseInv, FreedWhenQuiet, WaitCall
  <2>4. OneCopy' /\ NoneForgotten'
    BY <1>8, PlacesFrame DEF WaitCall
  <2>5. ActiveCounts'
    <3>1. Counted' = Counted
      BY <1>8 DEF TypeOK, PhaseInv, Counted, WaitCall
    <3> QED
      BY <1>8, <3>1, CountedFinite DEF TypeOK, ActiveCounts, WaitCall
  <2> QED
    BY <2>1, <2>2, <2>3, <2>4, <2>5 DEF PoolInv
<1>9. CASE WaitActive
  <2>1. TypeOK'
    BY <1>9 DEF TypeOK, WaitActive
  <2>2. HandsInv'
    BY <1>9 DEF TypeOK, HandsInv, WaitActive
  <2>3. PhaseInv' /\ FreedWhenQuiet'
    BY <1>9 DEF TypeOK, PhaseInv, FreedWhenQuiet, WaitActive
  <2>4. OneCopy' /\ NoneForgotten'
    BY <1>9, PlacesFrame DEF WaitActive
  <2>5. ActiveCounts'
    <3>1. Counted' = Counted
      BY <1>9 DEF TypeOK, PhaseInv, Counted, WaitActive
    <3> QED
      BY <1>9, <3>1, CountedFinite DEF TypeOK, ActiveCounts, WaitActive
  <2> QED
    BY <2>1, <2>2, <2>3, <2>4, <2>5 DEF PoolInv
<1>10. CASE WaitQueue
  <2>1. TypeOK'
    BY <1>10 DEF TypeOK, WaitQueue
  <2>2. HandsInv'
    BY <1>10 DEF TypeOK, HandsInv, WaitQueue
  <2>3. PhaseInv' /\ FreedWhenQuiet'
    BY <1>10 DEF TypeOK, PhaseInv, FreedWhenQuiet, WaitQueue
  <2>4. OneCopy' /\ NoneForgotten'
    BY <1>10, PlacesFrame DEF WaitQueue
  <2>5. ActiveCounts'
    <3>1. Counted' = Counted
      BY <1>10 DEF TypeOK, PhaseInv, Counted, WaitQueue
    <3> QED
      BY <1>10, <3>1, CountedFinite DEF TypeOK, ActiveCounts, WaitQueue
  <2> QED
    BY <2>1, <2>2, <2>3, <2>4, <2>5 DEF PoolInv
<1>11. CASE WaitFails
  <2>1. TypeOK'
    BY <1>11 DEF TypeOK, WaitFails
  <2>2. HandsInv'
    BY <1>11 DEF TypeOK, HandsInv, WaitFails
  <2>3. PhaseInv' /\ FreedWhenQuiet'
    BY <1>11 DEF TypeOK, PhaseInv, FreedWhenQuiet, WaitFails
  <2>4. OneCopy' /\ NoneForgotten'
    BY <1>11, PlacesFrame DEF WaitFails
  <2>5. ActiveCounts'
    <3>1. Counted' = Counted
      BY <1>11 DEF TypeOK, PhaseInv, Counted, WaitFails
    <3> QED
      BY <1>11, <3>1, CountedFinite DEF TypeOK, ActiveCounts, WaitFails
  <2> QED
    BY <2>1, <2>2, <2>3, <2>4, <2>5 DEF PoolInv
<1>12. CASE StopWorkers
  <2>1. TypeOK'
    BY <1>12 DEF TypeOK, StopWorkers, Broadcast
  <2>2. HandsInv'
    BY <1>12 DEF TypeOK, HandsInv, StopWorkers, Broadcast
  <2>3. PhaseInv' /\ FreedWhenQuiet'
    BY <1>12 DEF TypeOK, PhaseInv, FreedWhenQuiet, StopWorkers, Broadcast
  <2>4. OneCopy' /\ NoneForgotten'
    BY <1>12, PlacesFrame DEF StopWorkers, Broadcast
  <2>5. ActiveCounts'
    <3>1. Counted' = Counted
      BY <1>12 DEF TypeOK, PhaseInv, Counted, StopWorkers, Broadcast
    <3> QED
      BY <1>12, <3>1, CountedFinite DEF TypeOK, ActiveCounts, StopWorkers, Broadcast
  <2> QED
    BY <2>1, <2>2, <2>3, <2>4, <2>5 DEF PoolInv
<1>13. CASE StopWorkersFails
  <2>1. TypeOK'
    <3>1. b_shutdown' \in BOOLEAN
      <4>1. CASE b_shutdown' = b_shutdown
        BY <4>1 DEF TypeOK
      <4>2. CASE b_shutdown' = TRUE
        BY <4>2
      <4> QED
        BY <1>13, <4>1, <4>2 DEF StopWorkersFails
    <3> QED
      BY <1>13, <3>1 DEF TypeOK, StopWorkersFails
  <2>2. HandsInv'
    BY <1>13 DEF TypeOK, HandsInv, StopWorkersFails
  <2>3. PhaseInv' /\ FreedWhenQuiet'
    BY <1>13 DEF TypeOK, PhaseInv, FreedWhenQuiet, StopWorkersFails
  <2>4. OneCopy' /\ NoneForgotten'
    BY <1>13, PlacesFrame DEF StopWorkersFails
  <2>5. ActiveCounts'
    <3>1. Counted' = Counted
      BY <1>13 DEF TypeOK, PhaseInv, Counted, StopWorkersFails
    <3> QED
      BY <1>13, <3>1, CountedFinite DEF TypeOK, ActiveCounts, StopWorkersFails
  <2> QED
    BY <2>1, <2>2, <2>3, <2>4, <2>5 DEF PoolInv
<1>14. CASE Join
  <2>1. TypeOK'
    BY <1>14 DEF TypeOK, Join
  <2>2. HandsInv'
    BY <1>14 DEF TypeOK, HandsInv, Join
  <2>3. PhaseInv' /\ FreedWhenQuiet'
    BY <1>14 DEF TypeOK, PhaseInv, FreedWhenQuiet, Join
  <2>4. OneCopy' /\ NoneForgotten'
    BY <1>14, PlacesFrame DEF Join
  <2>5. ActiveCounts'
    <3>1. Counted' = Counted
      BY <1>14 DEF TypeOK, PhaseInv, Counted, Join
    <3> QED
      BY <1>14, <3>1, CountedFinite DEF TypeOK, ActiveCounts, Join
  <2> QED
    BY <2>1, <2>2, <2>3, <2>4, <2>5 DEF PoolInv
<1>15. CASE JoinFails
  <2>1. TypeOK'
    BY <1>15 DEF TypeOK, JoinFails
  <2>2. HandsInv'
    BY <1>15 DEF TypeOK, HandsInv, JoinFails
  <2>3. PhaseInv' /\ FreedWhenQuiet'
    BY <1>15 DEF TypeOK, PhaseInv, FreedWhenQuiet, JoinFails
  <2>4. OneCopy' /\ NoneForgotten'
    BY <1>15, PlacesFrame DEF JoinFails
  <2>5. ActiveCounts'
    <3>1. Counted' = Counted
      BY <1>15 DEF TypeOK, PhaseInv, Counted, JoinFails
    <3> QED
      BY <1>15, <3>1, CountedFinite DEF TypeOK, ActiveCounts, JoinFails
  <2> QED
    BY <2>1, <2>2, <2>3, <2>4, <2>5 DEF PoolInv
<1>16. CASE CtxDestroy
  <2>1. TypeOK'
    BY <1>16 DEF TypeOK, CtxDestroy
  <2>2. HandsInv'
    BY <1>16 DEF TypeOK, HandsInv, CtxDestroy
  <2>3. PhaseInv' /\ FreedWhenQuiet'
    BY <1>16 DEF TypeOK, PhaseInv, FreedWhenQuiet, CtxDestroy
  <2>4. OneCopy' /\ NoneForgotten'
    <3>1. Queued' = {} /\ Held' = Held /\ work_queue' = <<>>
      BY <1>16 DEF Queued, Held, CtxDestroy
    <3>2. boss = "init_join" => submitted = {}
      BY DEF PhaseInv
    <3> QED
      BY <1>16, <3>1, <3>2 DEF OneCopy, NoneForgotten, CtxDestroy
  <2>5. ActiveCounts'
    <3>1. Counted' = Counted
      BY <1>16 DEF TypeOK, PhaseInv, Counted, CtxDestroy
    <3> QED
      BY <1>16, <3>1, CountedFinite DEF TypeOK, ActiveCounts, CtxDestroy
  <2> QED
    BY <2>1, <2>2, <2>3, <2>4, <2>5 DEF PoolInv
<1>17. CASE DestroyGivesUp
  <2>1. TypeOK'
    BY <1>17 DEF TypeOK, DestroyGivesUp
  <2>2. HandsInv'
    BY <1>17 DEF TypeOK, HandsInv, DestroyGivesUp
  <2>3. PhaseInv' /\ FreedWhenQuiet'
    BY <1>17 DEF TypeOK, PhaseInv, FreedWhenQuiet, DestroyGivesUp
  <2>4. OneCopy' /\ NoneForgotten'
    BY <1>17, PlacesFrame DEF DestroyGivesUp
  <2>5. ActiveCounts'
    <3>1. Counted' = Counted
      BY <1>17 DEF TypeOK, PhaseInv, Counted, DestroyGivesUp
    <3> QED
      BY <1>17, <3>1, CountedFinite DEF TypeOK, ActiveCounts, DestroyGivesUp
  <2> QED
    BY <2>1, <2>2, <2>3, <2>4, <2>5 DEF PoolInv
<1>18. CASE CtxDestroyFails
  <2>1. TypeOK'
    <3>1. work_queue' \in Seq(Tasks)
      <4>1. CASE work_queue' = work_queue
        BY <4>1 DEF TypeOK
      <4>2. CASE work_queue' = <<>>
        BY <4>2
      <4> QED
        BY <1>18, <4>1, <4>2 DEF CtxDestroyFails
    <3> QED
      BY <1>18, <3>1 DEF TypeOK, CtxDestroyFails
  <2>2. HandsInv'
    BY <1>18 DEF TypeOK, HandsInv, CtxDestroyFails
  <2>3. PhaseInv' /\ FreedWhenQuiet'
    BY <1>18 DEF TypeOK, PhaseInv, FreedWhenQuiet, CtxDestroyFails
  <2>4. OneCopy' /\ NoneForgotten'
    <3>1. CASE work_queue' = work_queue
      BY <1>18, <3>1, PlacesFrame DEF CtxDestroyFails
    <3>2. CASE work_queue' = <<>>
      <4>1. Queued' = {} /\ Held' = Held
        BY <1>18, <3>2 DEF Queued, Held, CtxDestroyFails
      <4> QED
        BY <1>18, <3>2, <4>1 DEF OneCopy, NoneForgotten, CtxDestroyFails
    <3> QED
      BY <1>18, <3>1, <3>2 DEF CtxDestroyFails
  <2>5. ActiveCounts'
    <3>1. Counted' = Counted
      BY <1>18 DEF TypeOK, PhaseInv, Counted, CtxDestroyFails
    <3> QED
      BY <1>18, <3>1, CountedFinite DEF TypeOK, ActiveCounts, CtxDestroyFails
  <2> QED
    BY <2>1, <2>2, <2>3, <2>4, <2>5 DEF PoolInv
<1>19. CASE BossSpuriousWakeup
  <2>1. TypeOK'
    BY <1>19 DEF TypeOK, BossSpuriousWakeup
  <2>2. HandsInv'
    BY <1>19 DEF TypeOK, HandsInv, BossSpuriousWakeup
  <2>3. PhaseInv' /\ FreedWhenQuiet'
    BY <1>19 DEF TypeOK, PhaseInv, FreedWhenQuiet, BossSpuriousWakeup
  <2>4. OneCopy' /\ NoneForgotten'
    BY <1>19, PlacesFrame DEF BossSpuriousWakeup
  <2>5. ActiveCounts'
    <3>1. Counted' = Counted
      BY <1>19 DEF TypeOK, PhaseInv, Counted, BossSpuriousWakeup
    <3> QED
      BY <1>19, <3>1, CountedFinite DEF TypeOK, ActiveCounts, BossSpuriousWakeup
  <2> QED
    BY <2>1, <2>2, <2>3, <2>4, <2>5 DEF PoolInv
<1>20. ASSUME NEW w \in Workers, Sleep(w) PROVE PoolInv'
  <2>1. TypeOK'
    BY <1>20 DEF TypeOK, Sleep
  <2>2. HandsInv'
    BY <1>20 DEF TypeOK, HandsInv, Sleep
  <2>3. PhaseInv' /\ FreedWhenQuiet'
    BY <1>20 DEF TypeOK, PhaseInv, FreedWhenQuiet, Sleep
  <2>4. OneCopy' /\ NoneForgotten'
    BY <1>20, PlacesFrame DEF Sleep
  <2>5. ActiveCounts'
    <3>1. Counted' = Counted
      BY <1>20 DEF TypeOK, PhaseInv, Counted, Sleep
    <3> QED
      BY <1>20, <3>1, CountedFinite DEF TypeOK, ActiveCounts, Sleep
  <2> QED
    BY <2>1, <2>2, <2>3, <2>4, <2>5 DEF PoolInv
<1>21. ASSUME NEW w \in Workers, LeaveLoop(w) PROVE PoolInv'
  <2>1. TypeOK'
    BY <1>21 DEF TypeOK, LeaveLoop
  <2>2. HandsInv'
    BY <1>21 DEF TypeOK, HandsInv, LeaveLoop
  <2>3. PhaseInv' /\ FreedWhenQuiet'
    BY <1>21 DEF TypeOK, PhaseInv, FreedWhenQuiet, LeaveLoop
  <2>4. OneCopy' /\ NoneForgotten'
    BY <1>21, PlacesFrame DEF LeaveLoop
  <2>5. ActiveCounts'
    <3>1. Counted' = Counted
      BY <1>21 DEF TypeOK, PhaseInv, Counted, LeaveLoop
    <3> QED
      BY <1>21, <3>1, CountedFinite DEF TypeOK, ActiveCounts, LeaveLoop
  <2> QED
    BY <2>1, <2>2, <2>3, <2>4, <2>5 DEF PoolInv
<1>22. ASSUME NEW w \in Workers, Pop(w) PROVE PoolInv'
  <2>1. TypeOK'
    BY <1>22 DEF TypeOK, Pop, Signal
  <2>2. HandsInv'
    BY <1>22 DEF TypeOK, HandsInv, Pop, Signal
  <2>3. PhaseInv' /\ FreedWhenQuiet'
    BY <1>22 DEF TypeOK, PhaseInv, FreedWhenQuiet, Pop, Signal
  <2>4. OneCopy' /\ NoneForgotten'
    <3>1. p_task[w] = NoTask
      BY <1>22 DEF HandsInv, Pop
    <3> QED
      BY <1>22, <3>1, PopPlaces DEF Pop
  <2>5. ActiveCounts'
    <3>1. Counted' = Counted
      BY <1>22 DEF TypeOK, PhaseInv, Counted, Pop, Signal
    <3> QED
      BY <1>22, <3>1, CountedFinite DEF TypeOK, ActiveCounts, Pop, Signal
  <2> QED
    BY <2>1, <2>2, <2>3, <2>4, <2>5 DEF PoolInv
<1>23. ASSUME NEW w \in Workers, IncActive(w) PROVE PoolInv'
  <2>1. TypeOK'
    BY <1>23 DEF TypeOK, IncActive, BroadcastActive
  <2>2. HandsInv'
    BY <1>23 DEF TypeOK, HandsInv, IncActive, BroadcastActive
  <2>3. PhaseInv' /\ FreedWhenQuiet'
    BY <1>23 DEF TypeOK, PhaseInv, FreedWhenQuiet, IncActive, BroadcastActive
  <2>4. OneCopy' /\ NoneForgotten'
    BY <1>23, PlacesFrame DEF IncActive, BroadcastActive
  <2>5. ActiveCounts'
    <3>1. w \notin Counted /\ Counted' = Counted \cup {w}
      BY <1>23 DEF TypeOK, Counted, IncActive
    <3>2. Cardinality(Counted') = Cardinality(Counted) + 1
      BY <3>1, CountOneMore
    <3> QED
      BY <1>23, <3>2, CountedFinite DEF TypeOK, ActiveCounts, IncActive
  <2> QED
    BY <2>1, <2>2, <2>3, <2>4, <2>5 DEF PoolInv
<1>24. ASSUME NEW w \in Workers, RunTask(w) PROVE PoolInv'
  <2>1. TypeOK'
    <3>1. p_task[w] \in Tasks
      BY <1>24 DEF TypeOK, HandsInv, RunTask
    <3> QED
      BY <1>24, <3>1 DEF TypeOK, RunTask
  <2>2. HandsInv'
    BY <1>24 DEF TypeOK, HandsInv, RunTask
  <2>3. PhaseInv' /\ FreedWhenQuiet'
    BY <1>24 DEF TypeOK, PhaseInv, FreedWhenQuiet, RunTask
  <2>4. OneCopy' /\ NoneForgotten'
    <3>1. p_task[w] # NoTask
      BY <1>24 DEF HandsInv, RunTask
    <3> QED
      BY <1>24, <3>1, RunPlaces DEF RunTask
  <2>5. ActiveCounts'
    <3>1. Counted' = Counted
      BY <1>24 DEF TypeOK, PhaseInv, Counted, RunTask
    <3> QED
      BY <1>24, <3>1, CountedFinite DEF TypeOK, ActiveCounts, RunTask
  <2> QED
    BY <2>1, <2>2, <2>3, <2>4, <2>5 DEF PoolInv
<1>25. ASSUME NEW w \in Workers, DecActive(w) PROVE PoolInv'
  <2>1. TypeOK'
    <3>1. active_tasks > 0
      BY <1>25, ActiveFloor DEF Counted, DecActive
    <3> QED
      BY <1>25, <3>1 DEF TypeOK, DecActive, BroadcastActive
  <2>2. HandsInv'
    BY <1>25 DEF TypeOK, HandsInv, DecActive, BroadcastActive
  <2>3. PhaseInv' /\ FreedWhenQuiet'
    BY <1>25 DEF TypeOK, PhaseInv, FreedWhenQuiet, DecActive, BroadcastActive
  <2>4. OneCopy' /\ NoneForgotten'
    BY <1>25, PlacesFrame DEF DecActive, BroadcastActive
  <2>5. ActiveCounts'
    <3>1. w \in Counted /\ Counted' = Counted \ {w}
      BY <1>25 DEF TypeOK, Counted, DecActive
    <3>2. Cardinality(Counted') = Cardinality(Counted) - 1
      BY <3>1, CountOneLess
    <3> QED
      BY <1>25, <3>2, CountedFinite DEF TypeOK, ActiveCounts, DecActive
  <2> QED
    BY <2>1, <2>2, <2>3, <2>4, <2>5 DEF PoolInv
<1>26. ASSUME NEW w \in Workers, Exit(w) PROVE PoolInv'
  <2>1. TypeOK'
    BY <1>26 DEF TypeOK, Exit, Broadcast
  <2>2. HandsInv'
    BY <1>26 DEF TypeOK, HandsInv, Exit, Broadcast
  <2>3. PhaseInv' /\ FreedWhenQuiet'
    <3>1. \A v \in Workers :
            pc'[v] = IF v = w THEN "done"
                     ELSE IF pc[v] = "wait" /\ ~b_shutdown THEN "woken" ELSE pc[v]
      BY <1>26 DEF TypeOK, Exit, Broadcast
    <3>2. \A v \in Workers : pc[v] \in {"new", "done"} /\ v # w => pc'[v] = pc[v]
      BY <3>1
    <3>3. w <= num_created
      BY <1>26 DEF TypeOK, PhaseInv, Workers, Exit
    <3>4. PhaseInv'
      BY <1>26, <3>1, <3>2, <3>3 DEF TypeOK, PhaseInv, Workers, Exit
    <3>5. FreedWhenQuiet'
      BY <1>26, <3>1, <3>2 DEF TypeOK, FreedWhenQuiet, Workers, Exit
    <3> QED
      BY <3>4, <3>5
  <2>4. OneCopy' /\ NoneForgotten'
    BY <1>26, PlacesFrame DEF Exit, Broadcast
  <2>5. ActiveCounts'
    <3>1. Counted' = Counted
      BY <1>26 DEF TypeOK, PhaseInv, Counted, Exit, Broadcast
    <3> QED
      BY <1>26, <3>1, CountedFinite DEF TypeOK, ActiveCounts, Exit, Broadcast
  <2> QED
    BY <2>1, <2>2, <2>3, <2>4, <2>5 DEF PoolInv
<1>27. ASSUME NEW w \in Workers, QueueLockFails(w) PROVE PoolInv'
  <2>1. TypeOK'
    BY <1>27 DEF TypeOK, QueueLockFails
  <2>2. HandsInv'
    BY <1>27 DEF TypeOK, HandsInv, QueueLockFails
  <2>3. PhaseInv' /\ FreedWhenQuiet'
    BY <1>27 DEF TypeOK, PhaseInv, FreedWhenQuiet, QueueLockFails
  <2>4. OneCopy' /\ NoneForgotten'
    BY <1>27, PlacesFrame DEF QueueLockFails
  <2>5. ActiveCounts'
    <3>1. Counted' = Counted
      BY <1>27 DEF TypeOK, PhaseInv, Counted, QueueLockFails
    <3> QED
      BY <1>27, <3>1, CountedFinite DEF TypeOK, ActiveCounts, QueueLockFails
  <2> QED
    BY <2>1, <2>2, <2>3, <2>4, <2>5 DEF PoolInv
<1>28. ASSUME NEW w \in Workers, CondWaitFails(w) PROVE PoolInv'
  <2>1. TypeOK'
    BY <1>28 DEF TypeOK, CondWaitFails, Broadcast
  <2>2. HandsInv'
    BY <1>28 DEF TypeOK, HandsInv, CondWaitFails, Broadcast
  <2>3. PhaseInv' /\ FreedWhenQuiet'
    BY <1>28 DEF TypeOK, PhaseInv, FreedWhenQuiet, CondWaitFails, Broadcast
  <2>4. OneCopy' /\ NoneForgotten'
    BY <1>28, PlacesFrame DEF CondWaitFails, Broadcast
  <2>5. ActiveCounts'
    <3>1. Counted' = Counted
      BY <1>28 DEF TypeOK, PhaseInv, Counted, CondWaitFails, Broadcast
    <3> QED
      BY <1>28, <3>1, CountedFinite DEF TypeOK, ActiveCounts, CondWaitFails, Broadcast
  <2> QED
    BY <2>1, <2>2, <2>3, <2>4, <2>5 DEF PoolInv
<1>29. ASSUME NEW w \in Workers, PopSignalFails(w) PROVE PoolInv'
  <2>1. TypeOK'
    BY <1>29 DEF TypeOK, PopSignalFails
  <2>2. HandsInv'
    BY <1>29 DEF TypeOK, HandsInv, PopSignalFails
  <2>3. PhaseInv' /\ FreedWhenQuiet'
    BY <1>29 DEF TypeOK, PhaseInv, FreedWhenQuiet, PopSignalFails
  <2>4. OneCopy' /\ NoneForgotten'
    <3>1. p_task[w] = NoTask /\ Len(work_queue) > 0
      BY <1>29 DEF TypeOK, HandsInv, PopSignalFails
    <3> QED
      BY <1>29, <3>1, PopPlaces DEF PopSignalFails
  <2>5. ActiveCounts'
    <3>1. Counted' = Counted
      BY <1>29 DEF TypeOK, PhaseInv, Counted, PopSignalFails
    <3> QED
      BY <1>29, <3>1, CountedFinite DEF TypeOK, ActiveCounts, PopSignalFails
  <2> QED
    BY <2>1, <2>2, <2>3, <2>4, <2>5 DEF PoolInv
<1>30. ASSUME NEW w \in Workers, IncActiveFails(w) PROVE PoolInv'
  <2>1. TypeOK'
    BY <1>30 DEF TypeOK, IncActiveFails
  <2>2. HandsInv'
    BY <1>30 DEF TypeOK, HandsInv, IncActiveFails
  <2>3. PhaseInv' /\ FreedWhenQuiet'
    BY <1>30 DEF TypeOK, PhaseInv, FreedWhenQuiet, IncActiveFails
  <2>4. OneCopy' /\ NoneForgotten'
    BY <1>30, PlacesFrame DEF IncActiveFails
  <2>5. ActiveCounts'
    <3>1. Counted' = Counted
      BY <1>30 DEF TypeOK, Counted, IncActiveFails
    <3> QED
      BY <1>30, <3>1, CountedFinite DEF TypeOK, ActiveCounts, IncActiveFails
  <2> QED
    BY <2>1, <2>2, <2>3, <2>4, <2>5 DEF PoolInv
<1>31. ASSUME NEW w \in Workers, DecActiveFails(w) PROVE PoolInv'
  <2>1. TypeOK'
    <3>1. active_tasks > 0
      BY <1>31, ActiveFloor DEF Counted, DecActiveFails
    <3> QED
      BY <1>31, <3>1 DEF TypeOK, DecActiveFails
  <2>2. HandsInv'
    BY <1>31 DEF TypeOK, HandsInv, DecActiveFails
  <2>3. PhaseInv' /\ FreedWhenQuiet'
    BY <1>31 DEF TypeOK, PhaseInv, FreedWhenQuiet, DecActiveFails
  <2>4. OneCopy' /\ NoneForgotten'
    BY <1>31, PlacesFrame DEF DecActiveFails
  <2>5. ActiveCounts'
    <3>1. w \in Counted /\ Counted' = Counted \ {w}
      BY <1>31 DEF TypeOK, Counted, DecActiveFails
    <3>2. Cardinality(Counted') = Cardinality(Counted) - 1
      BY <3>1, CountOneLess
    <3> QED
      BY <1>31, <3>2, CountedFinite DEF TypeOK, ActiveCounts, DecActiveFails
  <2> QED
    BY <2>1, <2>2, <2>3, <2>4, <2>5 DEF PoolInv
<1>32. ASSUME NEW w \in Workers, SpuriousWakeup(w) PROVE PoolInv'
  <2>1. TypeOK'
    BY <1>32 DEF TypeOK, SpuriousWakeup
  <2>2. HandsInv'
    BY <1>32 DEF TypeOK, HandsInv, SpuriousWakeup
  <2>3. PhaseInv' /\ FreedWhenQuiet'
    BY <1>32 DEF TypeOK, PhaseInv, FreedWhenQuiet, SpuriousWakeup
  <2>4. OneCopy' /\ NoneForgotten'
    BY <1>32, PlacesFrame DEF SpuriousWakeup
  <2>5. ActiveCounts'
    <3>1. Counted' = Counted
      BY <1>32 DEF TypeOK, PhaseInv, Counted, SpuriousWakeup
    <3> QED
      BY <1>32, <3>1, CountedFinite DEF TypeOK, ActiveCounts, SpuriousWakeup
  <2> QED
    BY <2>1, <2>2, <2>3, <2>4, <2>5 DEF PoolInv
<1>33. CASE UNCHANGED vars
  <2>1. OneCopy' /\ NoneForgotten'
    BY <1>33, PlacesFrame
  <2>2. TypeOK' /\ HandsInv' /\ PhaseInv' /\ FreedWhenQuiet'
    BY <1>33 DEF TypeOK, HandsInv, PhaseInv, FreedWhenQuiet
  <2>3. Counted' = Counted
    BY <1>33 DEF Counted
  <2> QED
    BY <1>33, <2>1, <2>2, <2>3 DEF PoolInv, ActiveCounts
<1>34. CASE BossStep
  BY <1>34, <1>2, <1>3, <1>9, <1>10, <1>14, <1>16, <1>17 DEF BossStep
<1>35. CASE BossCall
  BY <1>35, <1>1, <1>8, <1>12, <1>5 DEF BossCall
<1>36. CASE BossFault
  BY <1>36, <1>4, <1>11, <1>13, <1>15, <1>18, <1>6, <1>7 DEF BossFault
<1>37. ASSUME NEW w \in Workers, WorkerStep(w) PROVE PoolInv'
  BY <1>37, <1>20, <1>21, <1>22, <1>23, <1>24, <1>25, <1>26 DEF WorkerStep
<1>38. ASSUME NEW w \in Workers, WorkerFault(w) PROVE PoolInv'
  BY <1>38, <1>27, <1>28, <1>29, <1>30, <1>31 DEF WorkerFault
<1> QED
  BY <1>33, <1>34, <1>35, <1>36, <1>37, <1>38, <1>19, <1>32 DEF Next, Ended

\* No step loses a wakeup: the signals of coin_tpool_submit and of the pop are
\* the two cases that matter.
LEMMA WorkConservingStep == TypeOK /\ WorkConserving /\ [Next]_vars => WorkConserving'
<1> SUFFICES ASSUME TypeOK, WorkConserving, [Next]_vars PROVE WorkConserving'
  OBVIOUS
<1>1. CASE TpoolInit
  BY <1>1 DEF TypeOK, WorkConserving, TpoolInit
<1>2. CASE CreateWorker
  BY <1>2 DEF TypeOK, WorkConserving, CreateWorker
<1>3. CASE WorkersCreated
  BY <1>3 DEF TypeOK, WorkConserving, WorkersCreated
<1>4. CASE CreateFails
  BY <1>4 DEF TypeOK, WorkConserving, CreateFails
<1>5. ASSUME NEW t \in Tasks, Submit(t) PROVE WorkConserving'
  BY <1>5 DEF TypeOK, WorkConserving, Submit, Push, Signal
<1>6. ASSUME NEW t \in Tasks, SubmitRefused(t) PROVE WorkConserving'
  BY <1>6 DEF TypeOK, WorkConserving, SubmitRefused
<1>7. ASSUME NEW t \in Tasks, SubmitSignalFails(t) PROVE WorkConserving'
  BY <1>7 DEF TypeOK, WorkConserving, SubmitSignalFails, Push
<1>8. CASE WaitCall
  BY <1>8 DEF TypeOK, WorkConserving, WaitCall
<1>9. CASE WaitActive
  BY <1>9 DEF TypeOK, WorkConserving, WaitActive
<1>10. CASE WaitQueue
  BY <1>10 DEF TypeOK, WorkConserving, WaitQueue
<1>11. CASE WaitFails
  BY <1>11 DEF TypeOK, WorkConserving, WaitFails
<1>12. CASE StopWorkers
  BY <1>12 DEF TypeOK, WorkConserving, StopWorkers, Broadcast
<1>13. CASE StopWorkersFails
  BY <1>13 DEF TypeOK, WorkConserving, StopWorkersFails
<1>14. CASE Join
  BY <1>14 DEF TypeOK, WorkConserving, Join
<1>15. CASE JoinFails
  BY <1>15 DEF TypeOK, WorkConserving, JoinFails
<1>16. CASE CtxDestroy
  BY <1>16 DEF TypeOK, WorkConserving, CtxDestroy
<1>17. CASE DestroyGivesUp
  BY <1>17 DEF TypeOK, WorkConserving, DestroyGivesUp
<1>18. CASE CtxDestroyFails
  BY <1>18 DEF TypeOK, WorkConserving, CtxDestroyFails
<1>19. CASE BossSpuriousWakeup
  BY <1>19 DEF TypeOK, WorkConserving, BossSpuriousWakeup
<1>20. ASSUME NEW w \in Workers, Sleep(w) PROVE WorkConserving'
  BY <1>20 DEF TypeOK, WorkConserving, Sleep
<1>21. ASSUME NEW w \in Workers, LeaveLoop(w) PROVE WorkConserving'
  BY <1>21 DEF TypeOK, WorkConserving, LeaveLoop
<1>22. ASSUME NEW w \in Workers, Pop(w) PROVE WorkConserving'
  <2> DEFINE popped == [pc EXCEPT ![w] = "popped"]
  <2>1. popped \in [Workers -> WorkerStates] /\ Len(work_queue') = Len(work_queue) - 1
    BY <1>22 DEF TypeOK, Pop
  <2>2. CASE Len(work_queue) > 1
    <3>1. Signal(popped, pc')
      BY <1>22, <2>2 DEF Pop
    <3> HIDE DEF popped
    <3> QED
      BY <2>1, <3>1 DEF Signal, WorkConserving
  <2>3. CASE Len(work_queue) = 1
    BY <1>22, <2>1, <2>3 DEF TypeOK, WorkConserving
  <2> QED
    <3>1. Len(work_queue) > 0 /\ Len(work_queue) \in Nat
      BY <1>22 DEF TypeOK, Pop
    <3> QED
      BY <2>2, <2>3, <3>1
<1>23. ASSUME NEW w \in Workers, IncActive(w) PROVE WorkConserving'
  BY <1>23 DEF TypeOK, WorkConserving, IncActive, BroadcastActive
<1>24. ASSUME NEW w \in Workers, RunTask(w) PROVE WorkConserving'
  BY <1>24 DEF TypeOK, WorkConserving, RunTask
<1>25. ASSUME NEW w \in Workers, DecActive(w) PROVE WorkConserving'
  BY <1>25 DEF TypeOK, WorkConserving, DecActive, BroadcastActive
<1>26. ASSUME NEW w \in Workers, Exit(w) PROVE WorkConserving'
  BY <1>26 DEF TypeOK, WorkConserving, Exit, Broadcast
<1>27. ASSUME NEW w \in Workers, QueueLockFails(w) PROVE WorkConserving'
  BY <1>27 DEF TypeOK, WorkConserving, QueueLockFails
<1>28. ASSUME NEW w \in Workers, CondWaitFails(w) PROVE WorkConserving'
  BY <1>28 DEF TypeOK, WorkConserving, CondWaitFails, Broadcast
<1>29. ASSUME NEW w \in Workers, PopSignalFails(w) PROVE WorkConserving'
  BY <1>29 DEF TypeOK, WorkConserving, PopSignalFails
<1>30. ASSUME NEW w \in Workers, IncActiveFails(w) PROVE WorkConserving'
  BY <1>30 DEF TypeOK, WorkConserving, IncActiveFails
<1>31. ASSUME NEW w \in Workers, DecActiveFails(w) PROVE WorkConserving'
  BY <1>31 DEF TypeOK, WorkConserving, DecActiveFails
<1>32. ASSUME NEW w \in Workers, SpuriousWakeup(w) PROVE WorkConserving'
  BY <1>32 DEF TypeOK, WorkConserving, SpuriousWakeup
<1>33. CASE UNCHANGED vars
  BY <1>33 DEF WorkConserving
<1>34. CASE BossStep
  BY <1>34, <1>2, <1>3, <1>9, <1>10, <1>14, <1>16, <1>17 DEF BossStep
<1>35. CASE BossCall
  BY <1>35, <1>1, <1>8, <1>12, <1>5 DEF BossCall
<1>36. CASE BossFault
  BY <1>36, <1>4, <1>11, <1>13, <1>15, <1>18, <1>6, <1>7 DEF BossFault
<1>37. ASSUME NEW w \in Workers, WorkerStep(w) PROVE WorkConserving'
  BY <1>37, <1>20, <1>21, <1>22, <1>23, <1>24, <1>25, <1>26 DEF WorkerStep
<1>38. ASSUME NEW w \in Workers, WorkerFault(w) PROVE WorkConserving'
  BY <1>38, <1>27, <1>28, <1>29, <1>30, <1>31 DEF WorkerFault
<1> QED
  BY <1>33, <1>34, <1>35, <1>36, <1>37, <1>38, <1>19, <1>32 DEF Next, Ended

\* The state before coin_tpool_init satisfies the inductive invariant.
LEMMA PoolInvInit == Init => PoolInv
<1> SUFFICES ASSUME Init PROVE PoolInv
  OBVIOUS
<1> USE DEF Init
<1>1. TypeOK
  <2>1. work_queue \in Seq(Tasks)
    OBVIOUS
  <2>2. pc \in [Workers -> WorkerStates] /\ p_task \in [Workers -> Tasks \cup {NoTask}]
    OBVIOUS
  <2>3. num_created \in 0..NumWorkers /\ num_joined \in 0..NumWorkers /\ faults \in 0..MaxFaults
    OBVIOUS
  <2> QED
    BY <2>1, <2>2, <2>3 DEF TypeOK
<1>2. Queued = {} /\ Held = {}
  BY DEF Queued, Held
<1>3. OneCopy /\ NoneForgotten
  BY <1>2 DEF OneCopy, NoneForgotten
<1>4. HandsInv /\ PhaseInv /\ FreedWhenQuiet
  BY DEF HandsInv, PhaseInv, FreedWhenQuiet
<1>5. ActiveCounts
  <2>1. Counted = {}
    BY DEF Counted
  <2> QED
    BY <2>1, FS_EmptySet DEF ActiveCounts
<1> QED
  BY <1>1, <1>3, <1>4, <1>5 DEF PoolInv

\* The inductive invariant holds throughout, for every number of workers, set
\* of tasks and sequence of failing pthread calls.
THEOREM PoolInvariant == Spec => []PoolInv
<1>1. Init => PoolInv
  BY PoolInvInit
<1>2. PoolInv /\ [Next]_vars => PoolInv'
  BY PoolInvStep
<1> QED
  BY <1>1, <1>2, PTL DEF Spec

\* Type correctness; in particular active_tasks never goes below zero.
THEOREM PoolTypeCorrect == Spec => []TypeOK
<1>1. PoolInv => TypeOK
  BY DEF PoolInv
<1> QED
  BY <1>1, PoolInvariant, PTL

\* A submitted task is run at most once and freed once: no path through
\* coin_queue_push, coin_queue_pop and coin_thread_worker duplicates it.
THEOREM PoolOneCopy == Spec => []OneCopy
<1>1. PoolInv => OneCopy
  BY DEF PoolInv
<1> QED
  BY <1>1, PoolInvariant, PTL

\* No task disappears between coin_tpool_submit and coin_tpool_destroy, whatever
\* calls fail on the way.
THEOREM PoolNoneForgotten == Spec => []NoneForgotten
<1>1. PoolInv => NoneForgotten
  BY DEF PoolInv
<1> QED
  BY <1>1, PoolInvariant, PTL

\* What coin_tpool_wait reads in active_tasks: without failures the number of
\* workers between the increment and the decrement, and never less than that.
THEOREM PoolActiveCounts == Spec => []ActiveCounts
<1>1. PoolInv => ActiveCounts
  BY DEF PoolInv
<1> QED
  BY <1>1, PoolInvariant, PTL

\* coin_tpool_ctx_destroy frees nothing a worker thread still uses.
THEOREM PoolFreedWhenQuiet == Spec => []FreedWhenQuiet
<1>1. PoolInv => FreedWhenQuiet
  BY DEF PoolInv
<1> QED
  BY <1>1, PoolInvariant, PTL

\* coin_tpool_submit and coin_thread_worker never lose a wakeup.
THEOREM PoolWorkConserving == Spec => []WorkConserving
<1>1. Init => WorkConserving
  BY DEF Init, WorkConserving
<1>2. TypeOK /\ WorkConserving /\ [Next]_vars => WorkConserving'
  BY WorkConservingStep
<1> QED
  BY <1>1, <1>2, PoolTypeCorrect, PTL DEF Spec

(***************************************************************************)
(* Shutting down.  AwakeInv is inductive: a worker sleeps only while the   *)
(* pool is open, and whoever closes it wakes them all, coin_tpool_destroy  *)
(* with its failing calls excepted.                                        *)
(***************************************************************************)

\* What a signal and a broadcast on tpool_queue_cond do to a worker.
LEMMA SignalWakes ==
  ASSUME NEW p \in [Workers -> WorkerStates], NEW q, Signal(p, q)
  PROVE  /\ q \in [Workers -> WorkerStates]
         /\ \A v \in Workers : q[v] = p[v] \/ (p[v] = "wait" /\ q[v] = "woken")
BY DEF Signal

LEMMA BroadcastWakes ==
  ASSUME NEW p \in [Workers -> WorkerStates]
  PROVE  /\ Broadcast(p) \in [Workers -> WorkerStates]
         /\ \A v \in Workers : Broadcast(p)[v] = IF p[v] = "wait" THEN "woken" ELSE p[v]
BY DEF Broadcast

\* A step that neither closes the pool nor ends or puts to sleep a worker behind
\* its back keeps AwakeInv.
LEMMA AwakeFrame ==
  ASSUME AwakeInv, UNCHANGED <<num_created, b_shutdown>>, num_created \in 0..NumWorkers,
         boss = "destroy_failed" => boss' = "destroy_failed",
         \A v \in Workers :
           /\ pc'[v] = "new" => pc[v] = "new"
           /\ pc'[v] = "wait" => pc[v] = "wait" \/ ~b_shutdown
           /\ pc'[v] = "done" => pc[v] = "done" \/ b_shutdown
  PROVE  AwakeInv'
<1>1. \A v \in 1..num_created : v \in Workers
  BY DEF Workers
<1>2. \A v \in 1..num_created' : pc'[v] # "new"
  BY <1>1 DEF AwakeInv
<1>3. \A v \in Workers : pc'[v] = "done" => b_shutdown'
  BY Zenon DEF AwakeInv, ShutdownWakesAll
<1>4. ASSUME b_shutdown', boss' # "destroy_failed", NEW v \in 1..num_created'
      PROVE  pc'[v] \notin {"new", "wait"}
  <2>1. pc[v] # "wait" /\ v \in Workers
    BY Zenon, <1>1, <1>4 DEF AwakeInv, ShutdownWakesAll
  <2> QED
    BY <1>2, <1>4, <2>1
<1> QED
  BY <1>2, <1>3, <1>4 DEF AwakeInv, ShutdownWakesAll

\* A step that closes the pool wakes everybody, the new state of one worker
\* apart.
LEMMA AwakeCloses ==
  ASSUME AwakeInv, UNCHANGED num_created, num_created \in 0..NumWorkers, b_shutdown' = TRUE,
         \A v \in Workers : pc'[v] \in {"new", "wait"} => pc[v] = "new"
  PROVE  AwakeInv'
<1>1. \A v \in 1..num_created : v \in Workers
  BY DEF Workers
<1> QED
  BY <1>1 DEF AwakeInv, ShutdownWakesAll

LEMMA AwakeStep == TypeOK /\ AwakeInv /\ [Next]_vars => AwakeInv'
<1> SUFFICES ASSUME TypeOK, AwakeInv, [Next]_vars PROVE AwakeInv'
  OBVIOUS
<1>1. CASE TpoolInit
  BY <1>1 DEF TypeOK, AwakeInv, ShutdownWakesAll, TpoolInit
<1>2. CASE CreateWorker
  <2>1. num_created \in 0..NumWorkers /\ num_created + 1 \in Workers
    BY <1>2 DEF TypeOK, Workers, CreateWorker
  <2>2. \A v \in Workers : pc'[v] = IF v = num_created + 1 THEN "top" ELSE pc[v]
    BY <1>2 DEF TypeOK, CreateWorker
  <2>3. \A v \in 1..num_created' : v = num_created + 1 \/ v \in 1..num_created
    BY <1>2, <2>1 DEF CreateWorker
  <2>4. \A v \in 1..num_created' : v \in Workers
    BY <1>2, <2>1 DEF Workers, CreateWorker
  <2>5. b_shutdown' = b_shutdown /\ boss' = boss
    BY <1>2 DEF CreateWorker
  <2> QED
    BY <2>2, <2>3, <2>4, <2>5 DEF AwakeInv, ShutdownWakesAll
<1>3. CASE WorkersCreated
  BY <1>3 DEF TypeOK, AwakeInv, ShutdownWakesAll, WorkersCreated
<1>4. CASE CreateFails
  BY <1>4 DEF TypeOK, AwakeInv, ShutdownWakesAll, CreateFails
<1>5. CASE WaitCall
  BY <1>5 DEF TypeOK, AwakeInv, ShutdownWakesAll, WaitCall
<1>6. CASE WaitActive
  BY <1>6 DEF TypeOK, AwakeInv, ShutdownWakesAll, WaitActive
<1>7. CASE WaitQueue
  BY <1>7 DEF TypeOK, AwakeInv, ShutdownWakesAll, WaitQueue
<1>8. CASE WaitFails
  BY <1>8 DEF TypeOK, AwakeInv, ShutdownWakesAll, WaitFails
<1>9. CASE StopWorkers
  BY <1>9, AwakeCloses, BroadcastWakes DEF TypeOK, StopWorkers
<1>10. CASE StopWorkersFails
  <2>1. CASE b_shutdown' = b_shutdown
    BY <1>10, <2>1, AwakeFrame DEF TypeOK, StopWorkersFails
  <2>2. CASE b_shutdown' = TRUE
    BY <1>10, <2>2 DEF AwakeInv, ShutdownWakesAll, StopWorkersFails
  <2> QED
    BY <1>10, <2>1, <2>2 DEF StopWorkersFails
<1>11. CASE Join
  BY <1>11 DEF TypeOK, AwakeInv, ShutdownWakesAll, Join
<1>12. CASE JoinFails
  BY <1>12 DEF TypeOK, AwakeInv, ShutdownWakesAll, JoinFails
<1>13. CASE CtxDestroy
  BY <1>13 DEF TypeOK, AwakeInv, ShutdownWakesAll, CtxDestroy
<1>14. CASE DestroyGivesUp
  BY <1>14 DEF TypeOK, AwakeInv, ShutdownWakesAll, DestroyGivesUp
<1>15. CASE CtxDestroyFails
  BY <1>15 DEF TypeOK, AwakeInv, ShutdownWakesAll, CtxDestroyFails
<1>16. CASE BossSpuriousWakeup
  BY <1>16 DEF TypeOK, AwakeInv, ShutdownWakesAll, BossSpuriousWakeup
<1>17. ASSUME NEW t \in Tasks, Submit(t) PROVE AwakeInv'
  <2>1. Signal(pc, pc') /\ UNCHANGED <<num_created, b_shutdown, boss>>
    BY <1>17 DEF Submit
  <2> QED
    BY <2>1, AwakeFrame, SignalWakes DEF TypeOK
<1>18. ASSUME NEW t \in Tasks, SubmitRefused(t) PROVE AwakeInv'
  BY <1>18 DEF TypeOK, AwakeInv, ShutdownWakesAll, SubmitRefused
<1>19. ASSUME NEW t \in Tasks, SubmitSignalFails(t) PROVE AwakeInv'
  BY <1>19 DEF TypeOK, AwakeInv, ShutdownWakesAll, SubmitSignalFails, Push
<1>20. ASSUME NEW w \in Workers, Sleep(w) PROVE AwakeInv'
  BY <1>20 DEF TypeOK, AwakeInv, ShutdownWakesAll, Sleep
<1>21. ASSUME NEW w \in Workers, LeaveLoop(w) PROVE AwakeInv'
  BY <1>21 DEF TypeOK, AwakeInv, ShutdownWakesAll, LeaveLoop
<1>22. ASSUME NEW w \in Workers, Pop(w) PROVE AwakeInv'
  <2> DEFINE popped == [pc EXCEPT ![w] = "popped"]
  <2>1. UNCHANGED <<num_created, b_shutdown, boss>> /\ (pc' = popped \/ Signal(popped, pc'))
    BY <1>22 DEF Pop
  <2>2. popped \in [Workers -> WorkerStates]
    BY DEF TypeOK
  <2>3. \A v \in Workers : popped[v] = IF v = w THEN "popped" ELSE pc[v]
    BY DEF TypeOK
  <2> HIDE DEF popped
  <2>4. \A v \in Workers : pc'[v] = popped[v] \/ (popped[v] = "wait" /\ pc'[v] = "woken")
    BY <2>1, <2>2, SignalWakes
  <2> QED
    BY <2>1, <2>3, <2>4, AwakeFrame DEF TypeOK
<1>23. ASSUME NEW w \in Workers, IncActive(w) PROVE AwakeInv'
  BY <1>23 DEF TypeOK, AwakeInv, ShutdownWakesAll, IncActive, BroadcastActive
<1>24. ASSUME NEW w \in Workers, RunTask(w) PROVE AwakeInv'
  BY <1>24 DEF TypeOK, AwakeInv, ShutdownWakesAll, RunTask
<1>25. ASSUME NEW w \in Workers, DecActive(w) PROVE AwakeInv'
  BY <1>25 DEF TypeOK, AwakeInv, ShutdownWakesAll, DecActive, BroadcastActive
<1>26. ASSUME NEW w \in Workers, Exit(w) PROVE AwakeInv'
  <2>1. CASE b_shutdown
    <3>1. b_shutdown' = b_shutdown
      BY <1>26, <2>1 DEF TypeOK, Exit
    <3> QED
      BY <1>26, <2>1, <3>1, AwakeFrame DEF TypeOK, Exit
  <2>2. CASE ~b_shutdown
    <3>1. \A v \in Workers : pc'[v] = IF v = w THEN "done" ELSE Broadcast(pc)[v]
      BY <1>26, <2>2, BroadcastWakes DEF TypeOK, Exit
    <3> QED
      BY <1>26, <3>1, AwakeCloses, BroadcastWakes DEF TypeOK, Exit
  <2> QED
    BY <2>1, <2>2
<1>27. ASSUME NEW w \in Workers, QueueLockFails(w) PROVE AwakeInv'
  BY <1>27 DEF TypeOK, AwakeInv, ShutdownWakesAll, QueueLockFails
<1>28. ASSUME NEW w \in Workers, CondWaitFails(w) PROVE AwakeInv'
  <2>1. \A v \in Workers : pc'[v] = IF v = w THEN "exit" ELSE Broadcast(pc)[v]
    BY <1>28, BroadcastWakes DEF TypeOK, CondWaitFails
  <2> QED
    BY <1>28, <2>1, AwakeCloses, BroadcastWakes DEF TypeOK, CondWaitFails
<1>29. ASSUME NEW w \in Workers, PopSignalFails(w) PROVE AwakeInv'
  BY <1>29 DEF TypeOK, AwakeInv, ShutdownWakesAll, PopSignalFails
<1>30. ASSUME NEW w \in Workers, IncActiveFails(w) PROVE AwakeInv'
  BY <1>30 DEF TypeOK, AwakeInv, ShutdownWakesAll, IncActiveFails
<1>31. ASSUME NEW w \in Workers, DecActiveFails(w) PROVE AwakeInv'
  BY <1>31 DEF TypeOK, AwakeInv, ShutdownWakesAll, DecActiveFails
<1>32. ASSUME NEW w \in Workers, SpuriousWakeup(w) PROVE AwakeInv'
  BY <1>32 DEF TypeOK, AwakeInv, ShutdownWakesAll, SpuriousWakeup
<1>33. CASE UNCHANGED vars
  BY <1>33 DEF AwakeInv, ShutdownWakesAll
<1>34. CASE BossStep
  BY <1>34, <1>2, <1>3, <1>6, <1>7, <1>11, <1>13, <1>14 DEF BossStep
<1>35. CASE BossCall
  BY <1>35, <1>1, <1>5, <1>9, <1>17 DEF BossCall
<1>36. CASE BossFault
  BY <1>36, <1>4, <1>8, <1>10, <1>12, <1>15, <1>18, <1>19 DEF BossFault
<1>37. ASSUME NEW w \in Workers, WorkerStep(w) PROVE AwakeInv'
  BY <1>37, <1>20, <1>21, <1>22, <1>23, <1>24, <1>25, <1>26 DEF WorkerStep
<1>38. ASSUME NEW w \in Workers, WorkerFault(w) PROVE AwakeInv'
  BY <1>38, <1>27, <1>28, <1>29, <1>30, <1>31 DEF WorkerFault
<1> QED
  BY <1>34, <1>35, <1>36, <1>37, <1>38, <1>33, <1>16, <1>32 DEF Next, Ended

\* Once the pool is closed every thread that was created is awake: the join loops
\* never wait for a sleeping worker.
THEOREM PoolShutdownWakesAll == Spec => []ShutdownWakesAll
<1>1. Init => AwakeInv
  BY DEF Init, AwakeInv, ShutdownWakesAll
<1>2. TypeOK /\ AwakeInv /\ [Next]_vars => AwakeInv'
  BY AwakeStep
<1>3. AwakeInv => ShutdownWakesAll
  BY DEF AwakeInv
<1> QED
  BY <1>1, <1>2, <1>3, PoolTypeCorrect, PTL DEF Spec

LEMMA StepsLeftAre ==
  /\ StepsLeft("done") = 0 /\ StepsLeft("exit") = 1 /\ StepsLeft("top") = 2
  /\ StepsLeft("ran") = 3 /\ StepsLeft("run") = 4 /\ StepsLeft("popped") = 5
  /\ StepsLeft("woken") = 6 /\ StepsLeft("wait") = 7 /\ StepsLeft("new") = 8
BY DEF StepsLeft

\* A closed pool moves each worker towards its end, or not at all.
LEMMA ForwardStep ==
  ASSUME TypeOK, PhaseInv, b_shutdown, [Next]_vars, NEW v \in Workers
  PROVE  StepsLeft(pc'[v]) <= StepsLeft(pc[v])
<1> USE StepsLeftAre DEF TypeOK
<1>1. CASE TpoolInit
  BY <1>1 DEF TpoolInit
<1>2. CASE CreateWorker
  <2>1. num_created + 1 \in Workers
    BY <1>2 DEF Workers, CreateWorker
  <2>2. pc[num_created + 1] = "new"
    BY <2>1 DEF PhaseInv, Workers
  <2> QED
    BY <1>2, <2>1, <2>2 DEF CreateWorker
<1>3. CASE WorkersCreated
  BY <1>3 DEF WorkersCreated
<1>4. CASE CreateFails
  BY <1>4 DEF CreateFails
<1>5. CASE WaitCall
  BY <1>5 DEF WaitCall
<1>6. CASE WaitActive
  BY <1>6 DEF WaitActive
<1>7. CASE WaitQueue
  BY <1>7 DEF WaitQueue
<1>8. CASE WaitFails
  BY <1>8 DEF WaitFails
<1>9. CASE StopWorkers
  BY <1>9 DEF StopWorkers, Broadcast
<1>10. CASE StopWorkersFails
  BY <1>10 DEF StopWorkersFails
<1>11. CASE Join
  BY <1>11 DEF Join
<1>12. CASE JoinFails
  BY <1>12 DEF JoinFails
<1>13. CASE CtxDestroy
  BY <1>13 DEF CtxDestroy
<1>14. CASE DestroyGivesUp
  BY <1>14 DEF DestroyGivesUp
<1>15. CASE CtxDestroyFails
  BY <1>15 DEF CtxDestroyFails
<1>16. CASE BossSpuriousWakeup
  BY <1>16 DEF BossSpuriousWakeup
<1>17. ASSUME NEW t \in Tasks, Submit(t) PROVE StepsLeft(pc'[v]) <= StepsLeft(pc[v])
  <2>1. Signal(pc, pc')
    BY <1>17 DEF Submit
  <2> QED
    BY <2>1, SignalWakes
<1>18. ASSUME NEW t \in Tasks, SubmitRefused(t) PROVE StepsLeft(pc'[v]) <= StepsLeft(pc[v])
  BY <1>18 DEF SubmitRefused
<1>19. ASSUME NEW t \in Tasks, SubmitSignalFails(t) PROVE StepsLeft(pc'[v]) <= StepsLeft(pc[v])
  <2>1. pc' = pc
    BY <1>19 DEF SubmitSignalFails
  <2> QED
    BY <2>1
<1>20. ASSUME NEW w \in Workers, Sleep(w) PROVE StepsLeft(pc'[v]) <= StepsLeft(pc[v])
  BY <1>20 DEF Sleep
<1>21. ASSUME NEW w \in Workers, LeaveLoop(w) PROVE StepsLeft(pc'[v]) <= StepsLeft(pc[v])
  BY <1>21 DEF LeaveLoop
<1>22. ASSUME NEW w \in Workers, Pop(w) PROVE StepsLeft(pc'[v]) <= StepsLeft(pc[v])
  BY <1>22 DEF Pop, Signal
<1>23. ASSUME NEW w \in Workers, IncActive(w) PROVE StepsLeft(pc'[v]) <= StepsLeft(pc[v])
  BY <1>23 DEF IncActive, BroadcastActive
<1>24. ASSUME NEW w \in Workers, RunTask(w) PROVE StepsLeft(pc'[v]) <= StepsLeft(pc[v])
  BY <1>24 DEF RunTask
<1>25. ASSUME NEW w \in Workers, DecActive(w) PROVE StepsLeft(pc'[v]) <= StepsLeft(pc[v])
  BY <1>25 DEF DecActive, BroadcastActive
<1>26. ASSUME NEW w \in Workers, Exit(w) PROVE StepsLeft(pc'[v]) <= StepsLeft(pc[v])
  BY <1>26 DEF Exit, Broadcast
<1>27. ASSUME NEW w \in Workers, QueueLockFails(w) PROVE StepsLeft(pc'[v]) <= StepsLeft(pc[v])
  BY <1>27 DEF QueueLockFails
<1>28. ASSUME NEW w \in Workers, CondWaitFails(w) PROVE StepsLeft(pc'[v]) <= StepsLeft(pc[v])
  BY <1>28 DEF CondWaitFails, Broadcast
<1>29. ASSUME NEW w \in Workers, PopSignalFails(w) PROVE StepsLeft(pc'[v]) <= StepsLeft(pc[v])
  BY <1>29 DEF PopSignalFails
<1>30. ASSUME NEW w \in Workers, IncActiveFails(w) PROVE StepsLeft(pc'[v]) <= StepsLeft(pc[v])
  BY <1>30 DEF IncActiveFails
<1>31. ASSUME NEW w \in Workers, DecActiveFails(w) PROVE StepsLeft(pc'[v]) <= StepsLeft(pc[v])
  BY <1>31 DEF DecActiveFails
<1>32. ASSUME NEW w \in Workers, SpuriousWakeup(w) PROVE StepsLeft(pc'[v]) <= StepsLeft(pc[v])
  BY <1>32 DEF SpuriousWakeup
<1>33. CASE UNCHANGED vars
  BY <1>33
<1>34. CASE BossStep
  BY <1>34, <1>2, <1>3, <1>6, <1>7, <1>11, <1>13, <1>14 DEF BossStep
<1>35. CASE BossCall
  BY <1>35, <1>1, <1>5, <1>9, <1>17 DEF BossCall
<1>36. CASE BossFault
  BY <1>36, <1>4, <1>8, <1>10, <1>12, <1>15, <1>18, <1>19 DEF BossFault
<1>37. ASSUME NEW w \in Workers, WorkerStep(w) PROVE StepsLeft(pc'[v]) <= StepsLeft(pc[v])
  BY <1>37, <1>20, <1>21, <1>22, <1>23, <1>24, <1>25, <1>26 DEF WorkerStep
<1>38. ASSUME NEW w \in Workers, WorkerFault(w) PROVE StepsLeft(pc'[v]) <= StepsLeft(pc[v])
  BY <1>38, <1>27, <1>28, <1>29, <1>30, <1>31 DEF WorkerFault
<1> QED
  BY <1>34, <1>35, <1>36, <1>37, <1>38, <1>33, <1>16, <1>32 DEF Next, Ended

THEOREM PoolShutdownOnlyForward == Spec => ShutdownOnlyForward
<1> DEFINE Forward == b_shutdown => \A w \in Workers : StepsLeft(pc'[w]) <= StepsLeft(pc[w])
<1>1. PoolInv /\ [Next]_vars => [Forward]_vars
  BY ForwardStep DEF PoolInv
<1> QED
  BY <1>1, PoolInvariant, PTL DEF Spec, ShutdownOnlyForward

(***************************************************************************)
(* Waiting.  Whoever is counted goes on to a broadcast, and the boss goes  *)
(* to sleep only while somebody is.                                        *)
(***************************************************************************)
LEMMA WaiterFrame ==
  ASSUME WaiterHasWaker, UNCHANGED <<boss, faults>>,
         \A v \in Workers : pc[v] \in {"run", "ran"} => pc'[v] \in {"run", "ran"}
  PROVE  WaiterHasWaker'
BY DEF WaiterHasWaker, Counted

LEMMA WaiterStep == PoolInv /\ WaiterHasWaker /\ [Next]_vars => WaiterHasWaker'
<1> SUFFICES ASSUME TypeOK, PhaseInv, ActiveCounts, WaiterHasWaker, [Next]_vars
             PROVE  WaiterHasWaker'
  BY DEF PoolInv
<1>1. CASE TpoolInit
  BY <1>1 DEF WaiterHasWaker, TpoolInit
<1>2. CASE CreateWorker
  <2>1. num_created + 1 \in Workers /\ pc[num_created + 1] = "new"
    BY <1>2 DEF TypeOK, PhaseInv, Workers, CreateWorker
  <2> QED
    BY <1>2, <2>1, WaiterFrame DEF TypeOK, CreateWorker
<1>3. CASE WorkersCreated
  BY <1>3 DEF WaiterHasWaker, WorkersCreated
<1>4. CASE CreateFails
  BY <1>4 DEF TypeOK, WaiterHasWaker, CreateFails
<1>5. CASE WaitCall
  BY <1>5 DEF WaiterHasWaker, WaitCall
<1>6. CASE WaitActive
  <2> SUFFICES ASSUME faults' = 0, boss' = "wait_blocked" PROVE Counted' # {}
    BY DEF WaiterHasWaker
  <2>1. active_tasks > 0 /\ faults = 0
    BY <1>6 DEF WaitActive
  <2>2. Cardinality(Counted) # 0
    BY <2>1 DEF ActiveCounts
  <2>3. Counted # {}
    BY <2>2, FS_EmptySet
  <2>4. Counted' = Counted
    BY <1>6 DEF WaitActive, Counted
  <2> QED
    BY <2>3, <2>4
<1>7. CASE WaitQueue
  BY <1>7 DEF WaiterHasWaker, WaitQueue
<1>8. CASE WaitFails
  BY <1>8 DEF TypeOK, WaiterHasWaker, WaitFails
<1>9. CASE StopWorkers
  BY <1>9 DEF WaiterHasWaker, StopWorkers
<1>10. CASE StopWorkersFails
  BY <1>10 DEF TypeOK, WaiterHasWaker, StopWorkersFails
<1>11. CASE Join
  BY <1>11, WaiterFrame DEF TypeOK, Join
<1>12. CASE JoinFails
  BY <1>12 DEF TypeOK, WaiterHasWaker, JoinFails
<1>13. CASE CtxDestroy
  BY <1>13 DEF WaiterHasWaker, CtxDestroy
<1>14. CASE DestroyGivesUp
  BY <1>14 DEF WaiterHasWaker, DestroyGivesUp
<1>15. CASE CtxDestroyFails
  BY <1>15 DEF TypeOK, WaiterHasWaker, CtxDestroyFails
<1>16. CASE BossSpuriousWakeup
  BY <1>16 DEF WaiterHasWaker, BossSpuriousWakeup
<1>17. ASSUME NEW t \in Tasks, Submit(t) PROVE WaiterHasWaker'
  <2>1. Signal(pc, pc') /\ UNCHANGED <<boss, faults>>
    BY <1>17 DEF Submit
  <2> QED
    BY <2>1, WaiterFrame, SignalWakes DEF TypeOK
<1>18. ASSUME NEW t \in Tasks, SubmitRefused(t) PROVE WaiterHasWaker'
  BY <1>18 DEF TypeOK, WaiterHasWaker, SubmitRefused
<1>19. ASSUME NEW t \in Tasks, SubmitSignalFails(t) PROVE WaiterHasWaker'
  BY <1>19 DEF TypeOK, WaiterHasWaker, SubmitSignalFails
<1>20. ASSUME NEW w \in Workers, Sleep(w) PROVE WaiterHasWaker'
  BY <1>20, WaiterFrame DEF TypeOK, Sleep
<1>21. ASSUME NEW w \in Workers, LeaveLoop(w) PROVE WaiterHasWaker'
  BY <1>21, WaiterFrame DEF TypeOK, LeaveLoop
<1>22. ASSUME NEW w \in Workers, Pop(w) PROVE WaiterHasWaker'
  <2> DEFINE popped == [pc EXCEPT ![w] = "popped"]
  <2>1. UNCHANGED <<boss, faults>> /\ (pc' = popped \/ Signal(popped, pc'))
    BY <1>22 DEF Pop
  <2>2. popped \in [Workers -> WorkerStates]
    BY DEF TypeOK
  <2>3. \A v \in Workers : v # w => popped[v] = pc[v]
    BY DEF TypeOK
  <2>4. pc[w] \notin {"run", "ran"}
    BY <1>22 DEF Pop
  <2> HIDE DEF popped
  <2>5. \A v \in Workers : pc'[v] = popped[v] \/ popped[v] = "wait"
    BY <2>1, <2>2, SignalWakes
  <2> QED
    BY <2>1, <2>3, <2>4, <2>5, WaiterFrame
<1>23. ASSUME NEW w \in Workers, IncActive(w) PROVE WaiterHasWaker'
  BY <1>23 DEF WaiterHasWaker, IncActive, BroadcastActive
<1>24. ASSUME NEW w \in Workers, RunTask(w) PROVE WaiterHasWaker'
  BY <1>24, WaiterFrame DEF TypeOK, RunTask
<1>25. ASSUME NEW w \in Workers, DecActive(w) PROVE WaiterHasWaker'
  BY <1>25 DEF WaiterHasWaker, DecActive, BroadcastActive
<1>26. ASSUME NEW w \in Workers, Exit(w) PROVE WaiterHasWaker'
  <2>1. \A v \in Workers : v = w \/ pc'[v] = pc[v] \/ pc[v] = "wait"
    BY <1>26, BroadcastWakes DEF TypeOK, Exit
  <2> QED
    BY <1>26, <2>1, WaiterFrame DEF Exit
<1>27. ASSUME NEW w \in Workers, QueueLockFails(w) PROVE WaiterHasWaker'
  BY <1>27 DEF TypeOK, WaiterHasWaker, QueueLockFails
<1>28. ASSUME NEW w \in Workers, CondWaitFails(w) PROVE WaiterHasWaker'
  BY <1>28 DEF TypeOK, WaiterHasWaker, CondWaitFails
<1>29. ASSUME NEW w \in Workers, PopSignalFails(w) PROVE WaiterHasWaker'
  BY <1>29 DEF TypeOK, WaiterHasWaker, PopSignalFails
<1>30. ASSUME NEW w \in Workers, IncActiveFails(w) PROVE WaiterHasWaker'
  BY <1>30 DEF TypeOK, WaiterHasWaker, IncActiveFails
<1>31. ASSUME NEW w \in Workers, DecActiveFails(w) PROVE WaiterHasWaker'
  BY <1>31 DEF TypeOK, WaiterHasWaker, DecActiveFails
<1>32. ASSUME NEW w \in Workers, SpuriousWakeup(w) PROVE WaiterHasWaker'
  BY <1>32, WaiterFrame DEF TypeOK, SpuriousWakeup
<1>33. CASE UNCHANGED vars
  BY <1>33 DEF WaiterHasWaker, Counted
<1>34. CASE BossStep
  BY <1>34, <1>2, <1>3, <1>6, <1>7, <1>11, <1>13, <1>14 DEF BossStep
<1>35. CASE BossCall
  BY <1>35, <1>1, <1>5, <1>9, <1>17 DEF BossCall
<1>36. CASE BossFault
  BY <1>36, <1>4, <1>8, <1>10, <1>12, <1>15, <1>18, <1>19 DEF BossFault
<1>37. ASSUME NEW w \in Workers, WorkerStep(w) PROVE WaiterHasWaker'
  BY <1>37, <1>20, <1>21, <1>22, <1>23, <1>24, <1>25, <1>26 DEF WorkerStep
<1>38. ASSUME NEW w \in Workers, WorkerFault(w) PROVE WaiterHasWaker'
  BY <1>38, <1>27, <1>28, <1>29, <1>30, <1>31 DEF WorkerFault
<1> QED
  BY <1>34, <1>35, <1>36, <1>37, <1>38, <1>33, <1>16, <1>32 DEF Next, Ended

\* coin_tpool_wait never sleeps without a worker that is going to wake it.
THEOREM PoolWaiterHasWaker == Spec => []WaiterHasWaker
<1>1. Init => WaiterHasWaker
  BY DEF Init, WaiterHasWaker
<1>2. PoolInv /\ WaiterHasWaker /\ [Next]_vars => WaiterHasWaker'
  BY WaiterStep
<1> QED
  BY <1>1, <1>2, PoolInvariant, PTL DEF Spec
=============================================================================
