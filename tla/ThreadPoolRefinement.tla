----------------------- MODULE ThreadPoolRefinement -----------------------
(***************************************************************************)
(* The proof that ThreadPool implements TaskPool.                          *)
(***************************************************************************)
EXTENDS ThreadPoolProofs

USE PoolAssumption DEF PoolAssumption, vars, queueVars, bossVars, workerVars,
    AtQueue, BossStates, WorkerStates, Fault, NoFault, Waiters, JoinedAll, QueuePop

\* A step that moves no worker into or out of its task runs what ran before.
LEMMA RunningFrame ==
  ASSUME UNCHANGED p_task,
         \A v \in Workers : pc'[v] \in {"popped", "run"} <=> pc[v] \in {"popped", "run"}
  PROVE  Running' = Running
BY DEF Running

\* A worker that finishes or abandons its task takes exactly that task away.
LEMMA RunningLeaves ==
  ASSUME TypeOK, OneCopy, HandsInv, NEW w \in Workers, pc[w] \in {"popped", "run"},
         pc' = [pc EXCEPT ![w] = pc'[w]], pc'[w] \notin {"popped", "run"},
         \A v \in Workers \ {w} : p_task'[v] = p_task[v]
  PROVE  /\ p_task[w] \in Running
         /\ p_task[w] \in Tasks
         /\ Running' = Running \ {p_task[w]}
<1>1. p_task[w] \in Running
  BY DEF Running
<1>2. p_task[w] \in Tasks
  BY DEF TypeOK, HandsInv
<1>3. \A v \in Workers : pc'[v] \in {"popped", "run"} <=> v # w /\ pc[v] \in {"popped", "run"}
  BY DEF TypeOK
<1>4. \A v \in Workers : v # w /\ pc[v] \in {"popped", "run"} => p_task[v] # p_task[w]
  BY DEF OneCopy, HandsInv
<1>5. Running' = Running \ {p_task[w]}
  BY <1>3, <1>4 DEF Running
<1> QED
  BY <1>1, <1>2, <1>5

\* Taking a task from the queue, kept or dropped, is ApTake.
LEMMA PopStep ==
  ASSUME TypeOK, OneCopy, HandsInv, NEW w \in Workers, AtQueue(w),
         ~b_shutdown, Len(work_queue) > 0,
         p_task' = [p_task EXCEPT ![w] = Head(work_queue)],
         work_queue' = Tail(work_queue),
         UNCHANGED <<submitted, finished, b_shutdown>>,
         \A v \in Workers \ {w} : pc'[v] \in {"popped", "run"} <=> pc[v] \in {"popped", "run"},
         pc'[w] \in {"popped", "exit"}
  PROVE  Pool!ApNext
<1> DEFINE h == Head(work_queue)
<1>1. h \in Queued /\ h \notin finished /\ h \notin Held /\ work_queue # <<>>
  BY DEF TypeOK, Queued, OneCopy
<1>2. Running \subseteq Held
  BY DEF Running, Held, HandsInv
<1>3. \A v \in Workers : p_task'[v] = IF v = w THEN h ELSE p_task[v]
  BY DEF TypeOK
<1>4. pc'[w] = "popped" => Running' = Running \cup {h}
  BY <1>3 DEF Running
<1>5. pc'[w] = "exit" => Running' = Running
  BY <1>3 DEF Running
<1>6. Pool!ApTake(pc'[w] = "exit")
  <2> HIDE DEF h
  <2>1. Running' = IF pc'[w] = "exit" THEN Running ELSE Running \cup {h}
    BY <1>4, <1>5
  <2> QED
    BY <1>1, <1>2, <2>1 DEF Pool!ApTake, h
<1> QED
  BY <1>6 DEF Pool!ApNext

\* When all threads are joined nothing runs.
LEMMA QuietNothingRuns ==
  ASSUME TypeOK, PhaseInv, boss \in {"init_join", "joining"}, JoinedAll
  PROVE  Running = {}
<1>1. \A w \in Workers : pc[w] \in {"new", "done"}
  BY DEF TypeOK, PhaseInv, Workers
<1> QED
  BY <1>1 DEF Running

\* Every step of the pool is a step of the abstract pool or a stutter.
LEMMA RefinementStep ==
  PoolInv /\ [Next]_vars => [Pool!ApNext]_Pool!apVars
<1> SUFFICES ASSUME PoolInv, [Next]_vars PROVE Pool!ApNext \/ UNCHANGED Pool!apVars
  OBVIOUS
<1> TypeOK /\ HandsInv /\ PhaseInv /\ OneCopy
  BY DEF PoolInv
<1> USE DEF Pool!apVars
<1>1. CASE TpoolInit
  <2>1. Running' = Running
    BY <1>1, RunningFrame DEF TypeOK, PhaseInv, Workers, TpoolInit
  <2> QED
    BY <1>1, <2>1 DEF TpoolInit
<1>2. CASE CreateWorker
  <2>1. Running' = Running
    BY <1>2, RunningFrame DEF TypeOK, PhaseInv, Workers, CreateWorker
  <2> QED
    BY <1>2, <2>1 DEF CreateWorker
<1>3. CASE WorkersCreated
  <2>1. Running' = Running
    BY <1>3, RunningFrame DEF TypeOK, PhaseInv, Workers, WorkersCreated
  <2> QED
    BY <1>3, <2>1 DEF WorkersCreated
<1>4. CASE CreateFails
  <2>1. Running' = Running
    BY <1>4, RunningFrame DEF TypeOK, PhaseInv, Workers, CreateFails
  <2> QED
    BY <1>4, <2>1 DEF CreateFails
<1>5. ASSUME NEW t \in Tasks, Submit(t) PROVE Pool!ApNext \/ UNCHANGED Pool!apVars
  <2>1. Running' = Running
    BY <1>5, RunningFrame DEF TypeOK, Submit, Signal
  <2>2. Pool!ApSubmit(t)
    BY <1>5, <2>1 DEF Submit, Push, Pool!ApSubmit
  <2> QED
    BY <1>5, <2>2 DEF Pool!ApNext
<1>6. ASSUME NEW t \in Tasks, SubmitRefused(t) PROVE Pool!ApNext \/ UNCHANGED Pool!apVars
  <2>1. Running' = Running
    BY <1>6, RunningFrame DEF TypeOK, PhaseInv, Workers, SubmitRefused
  <2> QED
    BY <1>6, <2>1 DEF SubmitRefused
<1>7. ASSUME NEW t \in Tasks, SubmitSignalFails(t) PROVE Pool!ApNext \/ UNCHANGED Pool!apVars
  <2>1. Running' = Running
    BY <1>7, RunningFrame DEF SubmitSignalFails
  <2>2. Pool!ApSubmit(t)
    BY <1>7, <2>1 DEF SubmitSignalFails, Push, Pool!ApSubmit
  <2> QED
    BY <1>7, <2>2 DEF Pool!ApNext
<1>8. CASE WaitCall
  <2>1. Running' = Running
    BY <1>8, RunningFrame DEF TypeOK, PhaseInv, Workers, WaitCall
  <2> QED
    BY <1>8, <2>1 DEF WaitCall
<1>9. CASE WaitActive
  <2>1. Running' = Running
    BY <1>9, RunningFrame DEF TypeOK, PhaseInv, Workers, WaitActive
  <2> QED
    BY <1>9, <2>1 DEF WaitActive
<1>10. CASE WaitQueue
  <2>1. Running' = Running
    BY <1>10, RunningFrame DEF TypeOK, PhaseInv, Workers, WaitQueue
  <2> QED
    BY <1>10, <2>1 DEF WaitQueue
<1>11. CASE WaitFails
  <2>1. Running' = Running
    BY <1>11, RunningFrame DEF TypeOK, PhaseInv, Workers, WaitFails
  <2> QED
    BY <1>11, <2>1 DEF WaitFails
<1>12. CASE StopWorkers
  <2>1. Running' = Running
    BY <1>12, RunningFrame DEF TypeOK, PhaseInv, Workers, StopWorkers, Broadcast
  <2> QED
    BY <1>12, <2>1 DEF StopWorkers, Pool!ApClose, Pool!ApNext
<1>13. CASE StopWorkersFails
  <2>1. Running' = Running
    BY <1>13, RunningFrame DEF TypeOK, PhaseInv, Workers, StopWorkersFails
  <2>2. CASE b_shutdown' = TRUE
    BY <1>13, <2>1, <2>2 DEF StopWorkersFails, Pool!ApClose, Pool!ApNext
  <2>3. CASE b_shutdown' = b_shutdown
    BY <1>13, <2>1, <2>3 DEF StopWorkersFails
  <2> QED
    BY <1>13, <2>2, <2>3 DEF StopWorkersFails
<1>14. CASE Join
  <2>1. Running' = Running
    BY <1>14, RunningFrame DEF TypeOK, PhaseInv, Workers, Join
  <2> QED
    BY <1>14, <2>1 DEF Join
<1>15. CASE JoinFails
  <2>1. Running' = Running
    BY <1>15, RunningFrame DEF TypeOK, PhaseInv, Workers, JoinFails
  <2> QED
    BY <1>15, <2>1 DEF JoinFails
<1>16. CASE CtxDestroy
  <2>1. Running = {} /\ Running' = Running
    BY <1>16, QuietNothingRuns, RunningFrame DEF CtxDestroy
  <2>2. CASE boss = "joining"
    <3>1. Pool!ApDiscard
      BY <1>16, <2>1, <2>2 DEF PhaseInv, CtxDestroy, Pool!ApDiscard
    <3> QED
      BY <3>1 DEF Pool!ApNext
  <2>3. CASE boss = "init_join"
    BY <1>16, <2>1, <2>3 DEF PhaseInv, CtxDestroy
  <2> QED
    BY <1>16, <2>2, <2>3 DEF CtxDestroy
<1>17. CASE DestroyGivesUp
  <2>1. Running' = Running
    BY <1>17, RunningFrame DEF TypeOK, PhaseInv, Workers, DestroyGivesUp
  <2> QED
    BY <1>17, <2>1 DEF DestroyGivesUp
<1>18. CASE CtxDestroyFails
  <2>1. Running = {} /\ Running' = Running
    BY <1>18, QuietNothingRuns, RunningFrame DEF CtxDestroyFails
  <2>2. CASE work_queue' = <<>>
    <3>1. Pool!ApDiscard
      BY <1>18, <2>1, <2>2 DEF PhaseInv, CtxDestroyFails, Pool!ApDiscard
    <3> QED
      BY <3>1 DEF Pool!ApNext
  <2>3. CASE work_queue' = work_queue
    BY <1>18, <2>1, <2>3 DEF CtxDestroyFails
  <2> QED
    BY <1>18, <2>2, <2>3 DEF CtxDestroyFails
<1>19. CASE BossSpuriousWakeup
  <2>1. Running' = Running
    BY <1>19, RunningFrame DEF TypeOK, PhaseInv, Workers, BossSpuriousWakeup
  <2> QED
    BY <1>19, <2>1 DEF BossSpuriousWakeup
<1>20. ASSUME NEW w \in Workers, Sleep(w) PROVE Pool!ApNext \/ UNCHANGED Pool!apVars
  <2>1. Running' = Running
    BY <1>20, RunningFrame DEF TypeOK, PhaseInv, Workers, Sleep
  <2> QED
    BY <1>20, <2>1 DEF Sleep
<1>21. ASSUME NEW w \in Workers, LeaveLoop(w) PROVE Pool!ApNext \/ UNCHANGED Pool!apVars
  <2>1. Running' = Running
    BY <1>21, RunningFrame DEF TypeOK, PhaseInv, Workers, LeaveLoop
  <2> QED
    BY <1>21, <2>1 DEF LeaveLoop
<1>22. ASSUME NEW w \in Workers, Pop(w) PROVE Pool!ApNext \/ UNCHANGED Pool!apVars
  <2>1. /\ \A v \in Workers \ {w} : pc'[v] \in {"popped", "run"} <=> pc[v] \in {"popped", "run"}
        /\ pc'[w] = "popped"
    BY <1>22 DEF TypeOK, Pop, Signal
  <2> QED
    BY <1>22, <2>1, PopStep DEF Pop
<1>23. ASSUME NEW w \in Workers, IncActive(w) PROVE Pool!ApNext \/ UNCHANGED Pool!apVars
  <2>1. Running' = Running
    BY <1>23, RunningFrame DEF TypeOK, PhaseInv, Workers, IncActive
  <2> QED
    BY <1>23, <2>1 DEF IncActive
<1>24. ASSUME NEW w \in Workers, RunTask(w) PROVE Pool!ApNext \/ UNCHANGED Pool!apVars
  <2>1. p_task[w] \in Running /\ p_task[w] \in Tasks /\ Running' = Running \ {p_task[w]}
    BY <1>24, RunningLeaves DEF TypeOK, RunTask
  <2>2. Pool!ApFinish(p_task[w])
    BY <1>24, <2>1 DEF RunTask, Pool!ApFinish
  <2> QED
    BY <2>1, <2>2 DEF Pool!ApNext
<1>25. ASSUME NEW w \in Workers, DecActive(w) PROVE Pool!ApNext \/ UNCHANGED Pool!apVars
  <2>1. Running' = Running
    BY <1>25, RunningFrame DEF TypeOK, PhaseInv, Workers, DecActive
  <2> QED
    BY <1>25, <2>1 DEF DecActive
<1>26. ASSUME NEW w \in Workers, Exit(w) PROVE Pool!ApNext \/ UNCHANGED Pool!apVars
  <2>1. Running' = Running
    BY <1>26, RunningFrame DEF TypeOK, PhaseInv, Workers, Exit, Broadcast
  <2> QED
    BY <1>26, <2>1 DEF Exit, Pool!ApClose, Pool!ApNext
<1>27. ASSUME NEW w \in Workers, QueueLockFails(w) PROVE Pool!ApNext \/ UNCHANGED Pool!apVars
  <2>1. Running' = Running
    BY <1>27, RunningFrame DEF TypeOK, PhaseInv, Workers, QueueLockFails
  <2> QED
    BY <1>27, <2>1 DEF QueueLockFails
<1>28. ASSUME NEW w \in Workers, CondWaitFails(w) PROVE Pool!ApNext \/ UNCHANGED Pool!apVars
  <2>1. Running' = Running
    BY <1>28, RunningFrame DEF TypeOK, PhaseInv, Workers, CondWaitFails, Broadcast
  <2> QED
    BY <1>28, <2>1 DEF CondWaitFails, Pool!ApClose, Pool!ApNext
<1>29. ASSUME NEW w \in Workers, PopSignalFails(w) PROVE Pool!ApNext \/ UNCHANGED Pool!apVars
  <2>1. /\ \A v \in Workers \ {w} : pc'[v] \in {"popped", "run"} <=> pc[v] \in {"popped", "run"}
        /\ pc'[w] = "exit"
        /\ Len(work_queue) > 0
    BY <1>29 DEF TypeOK, PopSignalFails
  <2> QED
    BY <1>29, <2>1, PopStep DEF PopSignalFails
<1>30. ASSUME NEW w \in Workers, IncActiveFails(w) PROVE Pool!ApNext \/ UNCHANGED Pool!apVars
  <2>1. p_task[w] \in Running /\ p_task[w] \in Tasks /\ Running' = Running \ {p_task[w]}
    BY <1>30, RunningLeaves DEF TypeOK, IncActiveFails
  <2>2. Pool!ApAbandon(p_task[w])
    BY <1>30, <2>1 DEF IncActiveFails, Pool!ApAbandon
  <2> QED
    BY <2>1, <2>2 DEF Pool!ApNext
<1>31. ASSUME NEW w \in Workers, DecActiveFails(w) PROVE Pool!ApNext \/ UNCHANGED Pool!apVars
  <2>1. Running' = Running
    BY <1>31, RunningFrame DEF TypeOK, PhaseInv, Workers, DecActiveFails
  <2> QED
    BY <1>31, <2>1 DEF DecActiveFails
<1>32. ASSUME NEW w \in Workers, SpuriousWakeup(w) PROVE Pool!ApNext \/ UNCHANGED Pool!apVars
  <2>1. Running' = Running
    BY <1>32, RunningFrame DEF TypeOK, PhaseInv, Workers, SpuriousWakeup
  <2> QED
    BY <1>32, <2>1 DEF SpuriousWakeup
<1>33. CASE UNCHANGED vars
  BY <1>33 DEF Running
<1>34. CASE BossStep
  BY <1>34, <1>2, <1>3, <1>9, <1>10, <1>14, <1>16, <1>17 DEF BossStep
<1>35. CASE BossCall
  BY <1>35, <1>1, <1>8, <1>12, <1>5 DEF BossCall
<1>36. CASE BossFault
  BY <1>36, <1>4, <1>11, <1>13, <1>15, <1>18, <1>6, <1>7 DEF BossFault
<1>37. ASSUME NEW w \in Workers, WorkerStep(w) PROVE Pool!ApNext \/ UNCHANGED Pool!apVars
  BY <1>37, <1>20, <1>21, <1>22, <1>23, <1>24, <1>25, <1>26 DEF WorkerStep
<1>38. ASSUME NEW w \in Workers, WorkerFault(w) PROVE Pool!ApNext \/ UNCHANGED Pool!apVars
  BY <1>38, <1>27, <1>28, <1>29, <1>30, <1>31 DEF WorkerFault
<1> QED
  BY <1>33, <1>34, <1>35, <1>36, <1>37, <1>38, <1>19, <1>32 DEF Next, Ended

\* The pool implements the abstract task pool of module TaskPool.
THEOREM PoolImplementsTaskPool == Spec => PoolRefinement
<1>1. Init => Pool!ApInit
  <2>1. Init => Running = {}
    BY DEF Init, Running
  <2> QED
    BY <2>1 DEF Init, Pool!ApInit
<1>2. PoolInv /\ [Next]_vars => [Pool!ApNext]_Pool!apVars
  BY RefinementStep
<1> QED
  BY <1>1, <1>2, PoolInvariant, PTL DEF Spec, PoolRefinement, Pool!ApSpec
===========================================================================
