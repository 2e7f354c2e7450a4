----------------------------- MODULE ThreadPool -----------------------------
(***************************************************************************)
(* The thread pool of libs/concurinc: NumWorkers threads that run          *)
(* coin_thread_worker, and the one boss thread (main) that calls           *)
(* coin_tpool_init, _submit, _wait and _destroy.                           *)
(*                                                                         *)
(* Grain of atomicity.  Everything the code does between locking and       *)
(* unlocking one of its two mutexes is one step: all the shared fields are *)
(* touched only there, with one exception, the read of p_work_queue->size  *)
(* at concurinc.c:208 under the wrong mutex, which is a single word and a  *)
(* step of its own here.  pthread_cond_wait ends a step: the thread sleeps *)
(* ("wait"), is woken by a signal, a broadcast or spuriously ("woken"),    *)
(* and looks at its condition again in a later step.                       *)
(*                                                                         *)
(* The error branches of the code are steps that spend one of MaxFaults    *)
(* failures of the kinds in Faults:                                        *)
(*   "calloc"  an allocation fails;   "create"  pthread_create fails;      *)
(*   "worker"  a lock, wait, signal or broadcast fails in a worker;        *)
(*   "boss"    a pthread call fails in submit, wait or destroy.            *)
(* Unlocking a mutex the thread holds does not fail.                       *)
(***************************************************************************)
EXTENDS Naturals, Sequences, FiniteSets

CONSTANTS
  NumWorkers,  \* num_workers of coin_tpool_init (NUM_THREADS in main.c)
  Tasks,       \* the tasks the boss may submit, each at most once
  NoTask,      \* p_task == NULL
  Faults,      \* the kinds of failing calls that are considered
  MaxFaults    \* how many of them fail in one execution

FaultKinds == {"calloc", "create", "worker", "boss"}

ASSUME PoolAssumption ==
  /\ NumWorkers \in Nat \ {0}
  /\ NoTask \notin Tasks
  /\ Faults \subseteq FaultKinds
  /\ MaxFaults \in Nat

Workers == 1..NumWorkers

VARIABLES
  boss,          \* where the boss thread is in the pool's functions
  num_created,   \* worker threads created so far
  num_joined,    \* worker threads the current join loop is done with
  pc,            \* where each worker thread is in coin_thread_worker
  p_task,        \* the task each worker holds
  work_queue,    \* p_work_queue, oldest task first
  active_tasks,
  b_shutdown,
  submitted,     \* history: the tasks pushed onto the queue
  refused,       \* history: the tasks whose coin_tpool_submit failed
  finished,      \* history: the tasks whose function returned
  faults         \* failures spent so far

queueVars == <<work_queue, submitted, refused>>
bossVars == <<boss, num_created, num_joined>>
workerVars == <<pc, p_task>>
vars == <<boss, num_created, num_joined, pc, p_task, work_queue, active_tasks,
          b_shutdown, submitted, refused, finished, faults>>

BossStates ==
  {"off", "creating", "init_join", "init_failed", "idle", "wait_active",
   "wait_blocked", "wait_queue", "joining", "joining_err", "destroyed",
   "destroy_failed"}

WorkerStates ==
  {"new", "top", "wait", "woken", "popped", "run", "ran", "exit", "done"}

Init ==
  /\ boss = "off"
  /\ num_created = 0
  /\ num_joined = 0
  /\ pc = [w \in Workers |-> "new"]
  /\ p_task = [w \in Workers |-> NoTask]
  /\ work_queue = <<>>
  /\ active_tasks = 0
  /\ b_shutdown = FALSE
  /\ submitted = {}
  /\ refused = {}
  /\ finished = {}
  /\ faults = 0

\* A call of the given kind fails in this step.
Fault(kind) ==
  /\ kind \in Faults
  /\ faults < MaxFaults
  /\ faults' = faults + 1

NoFault == UNCHANGED faults
-----------------------------------------------------------------------------
(* Condition variables.                                                    *)

Waiters(p) == {w \in Workers : p[w] = "wait"}

\* pthread_cond_signal on tpool_queue_cond: one sleeping worker, if there is
\* one, wakes up. SpuriousWakeup covers a signal that wakes several.
Signal(p, q) ==
  IF Waiters(p) = {}
  THEN q = p
  ELSE \E w \in Waiters(p) : q = [p EXCEPT ![w] = "woken"]

\* pthread_cond_broadcast on tpool_queue_cond.
Broadcast(p) == [w \in Workers |-> IF p[w] = "wait" THEN "woken" ELSE p[w]]

\* Mutant of BroadcastActive: nobody is told.
BroadcastActiveLost == UNCHANGED boss

\* pthread_cond_broadcast on active_tasks_cond: only coin_tpool_wait, in the
\* boss thread, ever sleeps on it.
BroadcastActive == boss' = IF boss = "wait_blocked" THEN "wait_active" ELSE boss

\* POSIX lets pthread_cond_wait return without a signal.
SpuriousWakeup(w) ==
  /\ pc[w] = "wait"
  /\ pc' = [pc EXCEPT ![w] = "woken"]
  /\ UNCHANGED <<bossVars, p_task, queueVars, active_tasks, b_shutdown, finished, faults>>

BossSpuriousWakeup ==
  /\ boss = "wait_blocked"
  /\ boss' = "wait_active"
  /\ UNCHANGED <<num_created, num_joined, workerVars, queueVars, active_tasks,
                 b_shutdown, finished, faults>>
-----------------------------------------------------------------------------
(* coin_tpool_init and coin_initialize_workers.                            *)

\* The container, the context with its queue, and the thread array.
TpoolInit ==
  /\ boss = "off"
  /\ \/ boss' = "creating" /\ NoFault
     \/ boss' = "init_failed" /\ Fault("calloc")
  /\ UNCHANGED <<num_created, num_joined, workerVars, queueVars, active_tasks,
                 b_shutdown, finished>>

\* One pthread_create; the new thread may run at once.
CreateWorker ==
  /\ boss = "creating"
  /\ num_created < NumWorkers
  /\ num_created' = num_created + 1
  /\ pc' = [pc EXCEPT ![num_created + 1] = "top"]
  /\ UNCHANGED <<boss, num_joined, p_task, queueVars, active_tasks, b_shutdown,
                 finished, faults>>

WorkersCreated ==
  /\ boss = "creating"
  /\ num_created = NumWorkers
  /\ boss' = "idle"
  /\ UNCHANGED <<num_created, num_joined, workerVars, queueVars, active_tasks,
                 b_shutdown, finished, faults>>

\* pthread_create, or restoring the signal mask after the last one, fails:
\* the threads created so far are joined.
CreateFails ==
  /\ boss = "creating"
  /\ Fault("create")
  /\ boss' = "init_join"
  /\ UNCHANGED <<num_created, num_joined, workerVars, queueVars, active_tasks,
                 b_shutdown, finished>>
-----------------------------------------------------------------------------
(* coin_tpool_submit and coin_queue_push.                                  *)

\* coin_queue_push.
Push(t) ==
  /\ work_queue' = Append(work_queue, t)
  /\ submitted' = submitted \cup {t}

\* Mutant of Submit: no pthread_cond_signal.
SubmitSilent(t) ==
  /\ boss = "idle"
  /\ t \notin submitted \cup refused
  /\ Push(t)
  /\ UNCHANGED <<bossVars, workerVars, active_tasks, b_shutdown, refused, finished, faults>>

Submit(t) ==
  /\ boss = "idle"
  /\ t \notin submitted \cup refused
  /\ Push(t)
  /\ Signal(pc, pc')
  /\ UNCHANGED <<bossVars, p_task, active_tasks, b_shutdown, refused, finished, faults>>

\* The task or its queue node cannot be allocated, or the mutex not locked.
SubmitRefused(t) ==
  /\ boss = "idle"
  /\ t \notin submitted \cup refused
  /\ Fault("calloc") \/ Fault("boss")
  /\ refused' = refused \cup {t}
  /\ UNCHANGED <<bossVars, workerVars, work_queue, submitted, active_tasks,
                 b_shutdown, finished>>

\* pthread_cond_signal fails after the push: submit reports an error and
\* leaves the task in the queue.
SubmitSignalFails(t) ==
  /\ boss = "idle"
  /\ t \notin submitted \cup refused
  /\ Fault("boss")
  /\ Push(t)
  /\ refused' = refused \cup {t}
  /\ UNCHANGED <<bossVars, workerVars, active_tasks, b_shutdown, finished>>
-----------------------------------------------------------------------------
(* coin_tpool_wait.                                                        *)

WaitCall ==
  /\ boss = "idle"
  /\ boss' = "wait_active"
  /\ UNCHANGED <<num_created, num_joined, workerVars, queueVars, active_tasks,
                 b_shutdown, finished, faults>>

\* Under active_tasks_mutex: sleep while a task is active; then the queue's
\* size, read without its mutex, decides whether to go round again.
WaitActive ==
  /\ boss = "wait_active"
  /\ boss' = IF active_tasks > 0 THEN "wait_blocked"
             ELSE IF Len(work_queue) > 0 THEN "wait_active"
             ELSE "wait_queue"
  /\ UNCHANGED <<num_created, num_joined, workerVars, queueVars, active_tasks,
                 b_shutdown, finished, faults>>

\* The size again, now under tpool_queue_mutex.
WaitQueue ==
  /\ boss = "wait_queue"
  /\ boss' = IF Len(work_queue) = 0 THEN "idle" ELSE "wait_active"
  /\ UNCHANGED <<num_created, num_joined, workerVars, queueVars, active_tasks,
                 b_shutdown, finished, faults>>

\* A lock or the wait itself fails and coin_tpool_wait returns an error.
WaitFails ==
  /\ boss \in {"wait_active", "wait_queue"}
  /\ Fault("boss")
  /\ boss' = "idle"
  /\ UNCHANGED <<num_created, num_joined, workerVars, queueVars, active_tasks,
                 b_shutdown, finished>>
-----------------------------------------------------------------------------
(* coin_tpool_destroy, coin_tpool_stop_workers, coin_tpool_ctx_destroy.    *)

\* Mutant of StopWorkers: the flag is set without waking anybody.
StopWorkersSilent ==
  /\ boss = "idle"
  /\ boss' = "joining"
  /\ b_shutdown' = TRUE
  /\ UNCHANGED <<num_created, num_joined, workerVars, queueVars, active_tasks, finished,
                 faults>>

StopWorkers ==
  /\ boss = "idle"
  /\ boss' = "joining"
  /\ b_shutdown' = TRUE
  /\ pc' = Broadcast(pc)
  /\ UNCHANGED <<num_created, num_joined, p_task, queueVars, active_tasks, finished,
                 faults>>

\* The lock fails, or the broadcast does after the flag was set.
StopWorkersFails ==
  /\ boss = "idle"
  /\ Fault("boss")
  /\ boss' = "destroy_failed"
  /\ b_shutdown' \in {b_shutdown, TRUE}
  /\ UNCHANGED <<num_created, num_joined, workerVars, queueVars, active_tasks, finished>>

\* The join loops of coin_tpool_stop_workers and of the cleanup_threads label
\* of coin_initialize_workers, one pthread_join a step.
Join ==
  /\ boss \in {"init_join", "joining", "joining_err"}
  /\ num_joined < num_created
  /\ pc[num_joined + 1] = "done"
  /\ num_joined' = num_joined + 1
  /\ UNCHANGED <<boss, num_created, workerVars, queueVars, active_tasks, b_shutdown,
                 finished, faults>>

\* coin_tpool_stop_workers notes a failing pthread_join and joins the rest. (The
\* cleanup_threads label ignores what pthread_join returns; a failure there is
\* not considered.)
JoinFails ==
  /\ boss \in {"joining", "joining_err"}
  /\ num_joined < num_created
  /\ Fault("boss")
  /\ boss' = "joining_err"
  /\ num_joined' = num_joined + 1
  /\ UNCHANGED <<num_created, workerVars, queueVars, active_tasks, b_shutdown, finished>>

\* Mutant of JoinedAll: the last thread is not waited for.
JoinedAllButOne == num_joined + 1 >= num_created

JoinedAll == num_joined = num_created

\* Tasks still queued are freed with the queue; their functions never run.
CtxDestroy ==
  /\ boss \in {"init_join", "joining"}
  /\ JoinedAll
  /\ boss' = IF boss = "joining" THEN "destroyed" ELSE "init_failed"
  /\ work_queue' = <<>>
  /\ UNCHANGED <<num_created, num_joined, workerVars, active_tasks, b_shutdown,
                 submitted, refused, finished, faults>>

\* A join failed: the context and the thread array are left alone.
DestroyGivesUp ==
  /\ boss = "joining_err"
  /\ JoinedAll
  /\ boss' = "destroy_failed"
  /\ UNCHANGED <<num_created, num_joined, workerVars, queueVars, active_tasks,
                 b_shutdown, finished, faults>>

\* Destroying a mutex or a condition variable fails, before or after the
\* queue was freed.
CtxDestroyFails ==
  /\ boss = "joining"
  /\ JoinedAll
  /\ Fault("boss")
  /\ boss' = "destroy_failed"
  /\ work_queue' \in {work_queue, <<>>}
  /\ UNCHANGED <<num_created, num_joined, workerVars, active_tasks, b_shutdown,
                 submitted, refused, finished>>
-----------------------------------------------------------------------------
(* coin_thread_worker.                                                     *)

AtQueue(w) == pc[w] \in {"top", "woken"}

\* Mutants of QueuePop: the node stays linked, the rest of the list is lost,
\* the newest node is taken.
QueuePeek(w) ==
  /\ p_task' = [p_task EXCEPT ![w] = Head(work_queue)]
  /\ UNCHANGED work_queue

QueuePopUnlinksRest(w) ==
  /\ p_task' = [p_task EXCEPT ![w] = Head(work_queue)]
  /\ work_queue' = <<>>

QueuePopNewest(w) ==
  /\ p_task' = [p_task EXCEPT ![w] = work_queue[Len(work_queue)]]
  /\ work_queue' = SubSeq(work_queue, 1, Len(work_queue) - 1)

\* coin_queue_pop: the head of the list goes to the worker.
QueuePop(w) ==
  /\ p_task' = [p_task EXCEPT ![w] = Head(work_queue)]
  /\ work_queue' = Tail(work_queue)

\* Mutant of Sleep: the flag is not looked at under the mutex.
SleepUnchecked(w) ==
  /\ AtQueue(w)
  /\ Len(work_queue) = 0
  /\ pc' = [pc EXCEPT ![w] = "wait"]
  /\ UNCHANGED <<bossVars, p_task, queueVars, active_tasks, b_shutdown, finished, faults>>

\* Nothing to do: sleep on tpool_queue_cond.
Sleep(w) ==
  /\ AtQueue(w)
  /\ ~b_shutdown
  /\ Len(work_queue) = 0
  /\ pc' = [pc EXCEPT ![w] = "wait"]
  /\ UNCHANGED <<bossVars, p_task, queueVars, active_tasks, b_shutdown, finished, faults>>

\* The shutdown flag is looked at before the queue.
LeaveLoop(w) ==
  /\ AtQueue(w)
  /\ b_shutdown
  /\ pc' = [pc EXCEPT ![w] = "exit"]
  /\ UNCHANGED <<bossVars, p_task, queueVars, active_tasks, b_shutdown, finished, faults>>

\* Mutant of Pop: the shutdown flag is not looked at again after the wait.
PopUnchecked(w) ==
  /\ AtQueue(w)
  /\ Len(work_queue) > 0
  /\ QueuePop(w)
  /\ pc' = [pc EXCEPT ![w] = "popped"]
  /\ UNCHANGED <<bossVars, active_tasks, b_shutdown, submitted, refused, finished, faults>>

\* coin_queue_pop, and a signal that passes the news on if more is queued.
Pop(w) ==
  /\ AtQueue(w)
  /\ ~b_shutdown
  /\ Len(work_queue) > 0
  /\ QueuePop(w)
  /\ LET popped == [pc EXCEPT ![w] = "popped"]
     IN  IF Len(work_queue) > 1 THEN Signal(popped, pc') ELSE pc' = popped
  /\ UNCHANGED <<bossVars, active_tasks, b_shutdown, submitted, refused, finished, faults>>

\* Mutant of IncActive: the task is not counted.
IncActiveForgotten(w) ==
  /\ pc[w] = "popped"
  /\ pc' = [pc EXCEPT ![w] = "run"]
  /\ UNCHANGED <<bossVars, p_task, queueVars, active_tasks, b_shutdown, finished, faults>>

IncActive(w) ==
  /\ pc[w] = "popped"
  /\ pc' = [pc EXCEPT ![w] = "run"]
  /\ active_tasks' = active_tasks + 1
  /\ BroadcastActive
  /\ UNCHANGED <<num_created, num_joined, p_task, queueVars, b_shutdown, finished, faults>>

\* The task's function returns; the task is freed.
RunTask(w) ==
  /\ pc[w] = "run"
  /\ pc' = [pc EXCEPT ![w] = "ran"]
  /\ finished' = finished \cup {p_task[w]}
  /\ p_task' = [p_task EXCEPT ![w] = NoTask]
  /\ UNCHANGED <<bossVars, queueVars, active_tasks, b_shutdown, faults>>

\* Mutant of DecActive: the task stays counted.
DecActiveForgotten(w) ==
  /\ pc[w] = "ran"
  /\ pc' = [pc EXCEPT ![w] = "top"]
  /\ BroadcastActive
  /\ UNCHANGED <<num_created, num_joined, p_task, queueVars, active_tasks, b_shutdown,
                 finished, faults>>

DecActive(w) ==
  /\ pc[w] = "ran"
  /\ pc' = [pc EXCEPT ![w] = "top"]
  /\ active_tasks' = active_tasks - 1
  /\ BroadcastActive
  /\ UNCHANGED <<num_created, num_joined, p_task, queueVars, b_shutdown, finished, faults>>

\* Mutant of Exit: the flag is set without waking anybody.
ExitSilent(w) ==
  /\ pc[w] = "exit"
  /\ b_shutdown' = TRUE
  /\ pc' = [pc EXCEPT ![w] = "done"]
  /\ UNCHANGED <<bossVars, p_task, queueVars, active_tasks, finished, faults>>

\* After the loop: whoever leaves it with the pool still open closes it.
Exit(w) ==
  /\ pc[w] = "exit"
  /\ b_shutdown' = TRUE
  /\ pc' = [(IF b_shutdown THEN pc ELSE Broadcast(pc)) EXCEPT ![w] = "done"]
  /\ UNCHANGED <<bossVars, p_task, queueVars, active_tasks, finished, faults>>

\* pthread_mutex_lock on tpool_queue_mutex fails at the top of the loop.
QueueLockFails(w) ==
  /\ pc[w] = "top"
  /\ Fault("worker")
  /\ pc' = [pc EXCEPT ![w] = "exit"]
  /\ UNCHANGED <<bossVars, p_task, queueVars, active_tasks, b_shutdown, finished>>

\* pthread_cond_wait fails: the pop that follows finds the queue empty, which
\* the code takes for corruption, and the pool is closed.
CondWaitFails(w) ==
  /\ AtQueue(w)
  /\ ~b_shutdown
  /\ Len(work_queue) = 0
  /\ Fault("worker")
  /\ b_shutdown' = TRUE
  /\ pc' = [Broadcast(pc) EXCEPT ![w] = "exit"]
  /\ UNCHANGED <<bossVars, p_task, queueVars, active_tasks, finished>>

\* The signal after the pop fails: the worker leaves with the task.
PopSignalFails(w) ==
  /\ AtQueue(w)
  /\ ~b_shutdown
  /\ Len(work_queue) > 1
  /\ Fault("worker")
  /\ QueuePop(w)
  /\ pc' = [pc EXCEPT ![w] = "exit"]
  /\ UNCHANGED <<bossVars, active_tasks, b_shutdown, submitted, refused, finished>>

\* Counting the task fails, in the lock or in the broadcast.
IncActiveFails(w) ==
  /\ pc[w] = "popped"
  /\ Fault("worker")
  /\ active_tasks' \in {active_tasks, active_tasks + 1}
  /\ pc' = [pc EXCEPT ![w] = "exit"]
  /\ UNCHANGED <<bossVars, p_task, queueVars, b_shutdown, finished>>

DecActiveFails(w) ==
  /\ pc[w] = "ran"
  /\ Fault("worker")
  /\ active_tasks' \in {active_tasks, active_tasks - 1}
  /\ pc' = [pc EXCEPT ![w] = "exit"]
  /\ UNCHANGED <<bossVars, p_task, queueVars, b_shutdown, finished>>
-----------------------------------------------------------------------------
WorkerStep(w) ==
  \/ Sleep(w) \/ LeaveLoop(w) \/ Pop(w)
  \/ IncActive(w) \/ RunTask(w) \/ DecActive(w)
  \/ Exit(w)

WorkerFault(w) ==
  \/ QueueLockFails(w) \/ CondWaitFails(w) \/ PopSignalFails(w)
  \/ IncActiveFails(w) \/ DecActiveFails(w)

\* What the boss does once it is inside a function of the pool.
BossStep ==
  \/ CreateWorker \/ WorkersCreated
  \/ WaitActive \/ WaitQueue
  \/ Join \/ CtxDestroy \/ DestroyGivesUp

\* What the boss chooses to call.
BossCall ==
  \/ TpoolInit \/ WaitCall \/ StopWorkers
  \/ \E t \in Tasks : Submit(t)

BossFault ==
  \/ CreateFails \/ WaitFails \/ StopWorkersFails \/ JoinFails \/ CtxDestroyFails
  \/ \E t \in Tasks : SubmitRefused(t) \/ SubmitSignalFails(t)

\* Where an execution may end: no thread of the pool is left, or
\* coin_tpool_destroy failed and main goes on without it.
Ended ==
  /\ \/ boss \in {"destroyed", "init_failed"} /\ \A w \in Workers : pc[w] \in {"new", "done"}
     \/ boss = "destroy_failed"
  /\ UNCHANGED vars

Next ==
  \/ BossStep
  \/ BossCall
  \/ BossFault
  \/ BossSpuriousWakeup
  \/ \E w \in Workers : WorkerStep(w) \/ WorkerFault(w) \/ SpuriousWakeup(w)
  \/ Ended

Spec == Init /\ [][Next]_vars

\* A runnable thread is eventually scheduled, gets a mutex it keeps asking
\* for, and task functions return. What the boss calls, and failures and
\* spurious wakeups, are nobody's obligation.
Fairness ==
  /\ \A w \in Workers : WF_vars(WorkerStep(w))
  /\ WF_vars(BossStep)

FairSpec == Spec /\ Fairness
-----------------------------------------------------------------------------
(* Properties.                                                             *)

\* Every variable of the pool keeps its type; active_tasks, a size_t in
\* tpool_ctx_t, never goes below zero.
TypeOK ==
  /\ boss \in BossStates
  /\ num_created \in 0..NumWorkers
  /\ num_joined \in 0..NumWorkers
  /\ pc \in [Workers -> WorkerStates]
  /\ p_task \in [Workers -> Tasks \cup {NoTask}]
  /\ work_queue \in Seq(Tasks)
  /\ active_tasks \in Nat
  /\ b_shutdown \in BOOLEAN
  /\ submitted \subseteq Tasks
  /\ refused \subseteq Tasks
  /\ finished \subseteq Tasks
  /\ faults \in 0..MaxFaults

Queued == {work_queue[i] : i \in 1..Len(work_queue)}
Held == {p_task[w] : w \in Workers} \ {NoTask}

\* coin_queue_push, coin_queue_pop and the worker loop hand a task on without
\* ever duplicating it: it is queued once, or held by one worker, or its
\* function has returned, and so it is run at most once and freed once.
OneCopy ==
  /\ \A i, j \in 1..Len(work_queue) : work_queue[i] = work_queue[j] => i = j
  /\ \A v, w \in Workers : p_task[v] = p_task[w] /\ p_task[v] # NoTask => v = w
  /\ Queued \cap Held = {}
  /\ (Queued \cup Held) \cap finished = {}
  /\ Queued \cup Held \cup finished \subseteq submitted

\* Until coin_tpool_destroy frees the context, a task that was pushed is still
\* in the queue, in the hands of a worker, or completed: none is dropped on
\* the way from coin_tpool_submit to its function.
NoneForgotten ==
  boss \notin {"destroyed", "destroy_failed"} =>
    submitted \subseteq Queued \cup Held \cup finished

\* No lost wakeup: while the pool is open and a task is queued, a worker sleeps
\* on tpool_queue_cond only if another one is up and about to look at the
\* queue. The signal in coin_tpool_submit is for this; the one after the pop in
\* coin_thread_worker is a second chance.
WorkConserving ==
  /\ faults = 0
  /\ ~b_shutdown
  /\ Len(work_queue) > 0
  /\ \E w \in Workers : pc[w] = "wait"
  => \E v \in Workers : AtQueue(v)

Counted == {w \in Workers : pc[w] \in {"run", "ran"}}

\* active_tasks counts exactly the workers between the two counter updates of
\* coin_thread_worker; a worker that died of an error may stay counted.
ActiveCounts ==
  /\ active_tasks >= Cardinality(Counted)
  /\ faults = 0 => active_tasks = Cardinality(Counted)

\* coin_tpool_ctx_destroy frees the mutexes, the condition variables and the
\* queue only when every thread that was created has left coin_thread_worker.
FreedWhenQuiet ==
  boss \in {"destroyed", "init_failed"} => \A w \in 1..num_created : pc[w] = "done"

\* No lost wakeup at the end: the pool is closed by the first worker that ends, if
\* not before, and from then on every thread that was created is awake, however
\* the flag was set and whoever was about to sleep. (If coin_tpool_destroy failed,
\* the flag may have been set without a broadcast.) The join loop of
\* coin_tpool_stop_workers therefore never waits for a sleeping thread.
ShutdownWakesAll ==
  /\ \A w \in Workers : pc[w] = "done" => b_shutdown
  /\ b_shutdown /\ boss # "destroy_failed" =>
       \A w \in 1..num_created : pc[w] \notin {"new", "wait"}

\* How far a worker still has to go once the pool is closed.
StepsLeft(p) ==
  CASE p = "done" -> 0 [] p = "exit" -> 1 [] p = "top" -> 2 [] p = "ran" -> 3
    [] p = "run" -> 4 [] p = "popped" -> 5 [] p = "woken" -> 6 [] p = "wait" -> 7
    [] p = "new" -> 8

\* Once b_shutdown is set coin_thread_worker only goes on towards its end: no
\* worker sleeps again or starts another round, whatever happens around it.
ShutdownOnlyForward ==
  [][b_shutdown => \A w \in Workers : StepsLeft(pc'[w]) <= StepsLeft(pc[w])]_vars

\* While coin_tpool_wait sleeps on active_tasks_cond a worker is between the two
\* updates of active_tasks and has its broadcast still before it; only a failed
\* call can leave the boss without one. A last decrement between the boss's test
\* and its sleep would never be heard.
WaiterHasWaker ==
  faults = 0 /\ boss = "wait_blocked" => Counted # {}

Running == {p_task[w] : w \in {v \in Workers : pc[v] \in {"popped", "run"}}}

\* The pool implements the task pool its callers rely on: first in, first out,
\* at most once, nothing taken after closing, nothing discarded while a task
\* is still being run.
Pool == INSTANCE TaskPool WITH
  accepted <- submitted,
  pending <- work_queue,
  running <- Running,
  done <- finished,
  closed <- b_shutdown

PoolRefinement == Pool!ApSpec

\* Every task that was pushed is eventually run, unless the pool is closed or
\* coin_tpool_submit has reported that it was not submitted.
EveryTaskRuns ==
  \A t \in Tasks : (t \in submitted) ~> (t \in finished \/ t \in refused \/ b_shutdown)

\* coin_tpool_wait returns, unless a call has failed: a worker that died may have
\* left active_tasks above zero for ever.
WaitReturns == (boss = "wait_active") ~> (boss = "idle" \/ faults > 0)

\* Once coin_tpool_destroy has told the workers to stop it returns, whatever they
\* were doing and whatever join fails.
DestroyReturns ==
  (boss \in {"joining", "joining_err"}) ~> (boss \in {"destroyed", "destroy_failed"})

\* One worker that leaves its loop for any reason takes the whole pool down:
\* every thread that was created ends (the comment at the end of
\* coin_thread_worker). If coin_tpool_destroy failed, the flag may have been set
\* without a broadcast, and workers that see it wake nobody.
FatalStopsEveryone ==
  (\E w \in Workers : pc[w] = "exit") ~>
    ((\A w \in Workers : pc[w] \in {"new", "done"}) \/ boss = "destroy_failed")

\* The documentation of coin_tpool_wait: when it returns success, no task is
\* being executed.
WaitReturnsIdle ==
  [][boss = "wait_queue" /\ boss' = "idle" =>
       \A w \in Workers : pc[w] \notin {"popped", "run"}]_vars

\* The documentation of coin_initialize_workers: it handles cleanup on failure,
\* that is, coin_tpool_init returns.
InitReturns == (boss = "creating") ~> (boss \in {"idle", "init_failed"})
-----------------------------------------------------------------------------
(* The inductive invariant behind the proofs of ThreadPoolProofs.          *)

\* A worker holds a task exactly while it is between pop and the end of the
\* task's function, or if it left the loop there.
HandsInv ==
  \A w \in Workers :
    /\ pc[w] \in {"popped", "run"} => p_task[w] # NoTask
    /\ pc[w] \in {"new", "top", "wait", "woken", "ran"} => p_task[w] = NoTask

\* What the boss's position says about the pool: nothing is submitted before
\* coin_tpool_init returns, joining comes after the flag is set, and the
\* threads already joined have ended.
PhaseInv ==
  /\ boss = "off" => num_created = 0
  /\ boss \in {"off", "creating", "init_join", "init_failed"} =>
       submitted = {} /\ work_queue = <<>>
  /\ boss \in {"off", "creating", "idle", "wait_active", "wait_blocked", "wait_queue"} =>
       num_joined = 0
  /\ boss \in {"joining", "joining_err", "destroyed"} => b_shutdown
  /\ boss \in {"init_join", "joining"} => \A w \in 1..num_joined : pc[w] = "done"
  /\ num_joined <= num_created
  /\ \A w \in Workers : w > num_created => pc[w] = "new"

\* A thread that was created is in coin_thread_worker, awake once the pool is closed.
AwakeInv ==
  /\ \A w \in 1..num_created : pc[w] # "new"
  /\ ShutdownWakesAll

PoolInv ==
  /\ TypeOK
  /\ ActiveCounts
  /\ HandsInv
  /\ PhaseInv
  /\ OneCopy
  /\ NoneForgotten
  /\ FreedWhenQuiet
=============================================================================
