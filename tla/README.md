# A TLA+ model of multithreaded-c-server

The program is a TCP server that answers ping messages with pong messages. One
thread polls all the sockets and hands the I/O of each ready connection to a pool
of eight worker threads; a further thread waits for SIGINT and SIGTERM. This
directory models the pool, the life of a connection, the tables and the queue of the
connection manager and the server's life from its first call to its return, checks them
with TLC and proves the central facts with TLAPS. Paths below are those of the
repository.

## 1. The system

| Part | Where | State | Operations |
|---|---|---|---|
| Thread pool | `src/libs/concurinc/src/concurinc.c` | `tpool_ctx_t`: `b_shutdown`, `p_work_queue`, `active_tasks`, two mutexes, two condition variables; the thread array | `coin_tpool_init`, `_submit`, `_wait`, `_destroy`; `coin_thread_worker` |
| Task queue | `src/libs/concurinc/src/coin_queue.c` | a linked list with its size | init, push, pop, destroy |
| Framing, socket I/O | `src/libs/net_io/netio.c` | the buffers, counters and `state` of a `conn_ctx_t` | `read_header`, `read_content`, `nl_handle_sock_data_in/out`, `nl_recvall`, `nl_sendall`, `nl_accept` |
| Protocol | `src/libs/protocols/pong.c` | none | `proto_pingpong_create_response` |
| Event loop, tasks | `src/main.c` | `g_should_shutdown`, copies of a connection's `state` and `ref_count` | the poll loop, `task_io_read`, `task_io_send`, the cleanup labels |
| Signal thread | `src/main.c` | its signal set, the self-pipe | `signal_thread_fn` |
| Connection manager | `src/libs/connmgr/connmgr.c` | `p_conns`, `p_pfds`, `p_new_conns` and their sizes | create, destroy, destroy all, update |
| Array, ring buffer | `src/libs/ezarray`, `src/libs/ezqueue` | buffer, number of items, maximum; head and tail | push, get, set, compact, resize; enqueue, dequeue, clear, resize |

**How they interact.** `main` is the only caller of the pool and of the connection
manager. It raises a connection's `ref_count` under the connection's mutex and,
still holding it, submits a task with the connection as its argument; the task
takes the same mutex, moves bytes, changes the state and drops `ref_count`. `main`
frees a connection in `PENDING_CLOSE` once it has seen `ref_count = 0`. Locks are
taken in the order connection mutex, then pool mutex, and a worker holds no pool
mutex while it runs a task. The signal thread sets `g_should_shutdown` and writes to
a pipe that `main` polls.

**What is hard.** Wakeups of the two condition variables; the windows between two
critical sections of a worker (a popped task is in neither count); the copies on
which `main` decides to free a connection; tasks that run long after the state they
were submitted for is gone; a byte stream cut into pieces of any size; failing calls
half way through an operation; shutdown at any moment. `PROJECT.json` lists each
hazard at its line.

**What makes each part correct.** - Pool: a submitted task is run exactly once, in FIFO
order of taking, or dropped at   destroy; no worker sleeps while work is left for it;
`wait` and `destroy` return;   nothing is freed under a running worker. - Connection: the
answers a client receives are those to its messages, whole and in   order, and every
message is answered; no byte is lost between pieces; a context is   freed only when no
task will use it; `PENDING_CLOSE` is final. - Connection manager: `p_conns[i]` and
`p_pfds[i]` belong to the same connection   whenever the event loop uses them together;
every open descriptor has an owner that   closes it; the limit of connections is kept,
and every client below it gets a   connection that is polled. - Ring buffer: a FIFO
across wrap-around and resize, that refuses only at its limit. - Signals: SIGINT and
SIGTERM end the process from any point, and every other exit path   ends the signal
thread and returns from `main`.

## 2. Modules

| Module | Contents |
|---|---|
| `TaskPool` | What the pool promises: accepted tasks wait in order, are taken from the front at most once and not after closing, and are discarded only when none is running |
| `ThreadPool` | The pool: boss thread, workers, queue, condition variables, failing calls; its properties; the refinement mapping to `TaskPool`; the inductive invariant `PoolInv` |
| `MCThreadPool` | Task sets for TLC |
| `ThreadPoolProofs` | `PoolInv` is inductive; the safety theorems, waking and waiting included |
| `ThreadPoolRefinement` | `ThreadPool` implements `TaskPool` |
| `Connection` | One inbound connection: client, network, tasks, event loop, exit paths; its properties; the inductive invariant `RefInv` |
| `MCConnection` | The module TLC is run on |
| `ConnectionProofs` | Reference counting and the finality of `PENDING_CLOSE` |
| `StreamTheorems` | Induction over the naturals with a set in the place of a predicate; what concatenation over a sequence of messages computes |
| `ConnectionStreamProofs` | The byte stream: nothing lost, answers whole, in order and in their places, nothing forgotten in silence, types |
| `Fifo` | What the ring buffer promises: a queue that refuses an item only at its largest size or without memory |
| `EzQueue` | The ring buffer with its 16-bit indices and its resize; the mapping to `Fifo` |
| `MCEzQueue` | The module TLC is run on |
| `EzQueueProofs` | `EzQueue` keeps its invariant and implements `Fifo` |
| `EzArray` | The growable array, as operators: push, get, set, compact, growth by `realloc` |
| `ConnMgr` | The two parallel tables and the queue of new connections, as actions over the open descriptors; the invariant `InStep` of the tables |
| `ConnMgrProofs` | What a compaction computes, for every buffer; what each operation of `ConnMgr` keeps of `InStep` |
| `Server` | `main` from start-up to return, `nl_accept`, the signal thread; extends `ConnMgr`; the inductive invariant `ServerInv` |
| `ServerProofs` | `ServerInv` is inductive; the safety theorems |
| `MCServer` | `Server` for TLC, and the comparison of the compaction loop with its result |

`Server` extends `ConnMgr`, which extends `EzArray`; `ConnMgr` uses `EzQueue` through what
it is shown to implement, and `Server` and `Connection` use the pool through what
`ThreadPool` is shown to do (see below).

Definitions named after a mutation ("Mutant of ...") stand beside the definition they
vary. They belong to no specification; they show that each property can fail.

### ThreadPool and the code

Variables carry the names of the fields they model (`work_queue` for
`p_work_queue`). `pc[w]` is the place of worker `w` in `coin_thread_worker`, `boss`
that of `main` inside the pool's functions; `submitted`, `refused` and `finished` are
history. One step is one critical section, which is sound because every shared field
is touched only under its mutex; the exception is the size read at
`concurinc.c:208` under the wrong mutex, a single aligned word. `WaitActive` joins it
to the test of `active_tasks` before it: the mutex held there keeps that value, so
the two are one instant. The worker's cycle is `Sleep`/`LeaveLoop`/`Pop`, `IncActive`,
`RunTask`, `DecActive`; `Exit` is the code behind the loop.

Each error branch is an action of its own that spends one of `MaxFaults` failures
of an allowed kind: allocations, `pthread_create`, pthread calls in a worker, pthread
calls in the boss. Unlocking a mutex the thread holds is taken not to fail, nor is
locking in `Exit`, whose result the code ignores. Signals wake one sleeper, and
spurious wakeups are separate steps, so a signal that wakes several is included.

The refinement maps the queue to `pending`, the tasks of workers between pop and the
end of the function to `running`, and `b_shutdown` to `closed`.

### Connection and the code

A byte of the client's stream is `<<m, i>>`, byte `i` of message `m`, and a byte of an
answer `<<m, kind, i>>`: enough to see every loss, repetition, mix-up or cut. `wire` and
`rcvq` are the bytes under way and in the socket's buffer; `delivered` is what the server
wrote and `unread` how much of it the client has not read (which makes `send` take less
than it was given). `conn_ctx_t` fields keep their names. A task holds the connection's
mutex throughout, so it is one step (`ReadHeader`, `ReadContent`, `WriteResponse`, or the
`Skips` actions when the state has moved on). A client may announce any content length of
16 bits (`Lengths`), and nothing compares it with the size of the receive buffer:
`ReadContent` is the read that stays within the buffer, `ReadOverrun` the one that writes
past its end. What the program does after that is undefined, so the model ends there
(`main` is "undefined"), as it does for a task whose context was freed (`Defined`).
`main` visits the connection in `Check` (the copies), `Reap`, `Poll`, `PollIn`,
`PollHup`, `PollOut`; `cur` is `cur_state` and `cur_refs`. The contents of `IncomingLen`
are any of `Lengths` if the buffer does not start with a header.

The pool appears as the numbers of outstanding tasks: tasks of one connection run in
any order. Its two imperfections appear too: a failing `coin_tpool_submit` may leave
the task queued, and `coin_tpool_wait` may return with up to `NumThreads` tasks left
(`WaitPool`). The failing calls of the event loop (`LoopFault`) are bounded by
`MaxFaults`; locking a connection's mutex does not fail. Client and network are the
environment: they send framed messages, deliver in order in pieces of any size, read,
close or reset at any time.

### EzQueue and the code

The variables are the fields of `ezqueue_t`; -1 as a `uint16_t` is `U16Max`. A call is a
step, since only `main` calls it; `ezq_clear` is one step for each of its calls of
`ezq_dequeue`. `EzqEnqueue` is the call with room, `EzqEnqueueResizing` the one that
resizes first (`Resized` moves the items to the start of the new buffer) and
`EzqEnqueueFails` the one that cannot. `Contents`, the items from the head on, is mapped
to the abstract queue.

In the program the event loop empties the queue before it accepts again, so that the
queue is filled from its first slot and does not wrap around. The module keeps all the
orders of calls that the interface allows.

### ConnMgr, EzArray and the code

A context is represented by its descriptor, `NULL` is -1, and `p_pfds` keeps the `fd`
fields, with 0 for an unused entry as in the code. The queue is a sequence. The two
arrays are kept apart because the code keeps them so: `p_conns` with its own
`num_items` and `max_items`, `p_pfds` with `num_active_conns` and `max_conns`, each
grown (`EzarrPush`, `AddToPollfd`) and compacted (`RemoveClosed`) by itself, up to its
whole allocated size. Memory added by `realloc` holds a member of `Fresh`.

`ezarr_compact` and its twin in `connmgr_remove_closed_connections` are loops with a
reading and a writing index into one buffer. `CompactLoop` is that loop; the actions
use `Compacted`, the closed form (the kept items in front, the sentinel behind them).
That the two agree is the theorem `CompactLoopIsCompacted`, for buffers of any size and
loops that stop anywhere in them; `MCServer` also assumes it (so TLC evaluates it) for
buffers of up to five slots, `LoopCompacts`.

### Server and the code

`main` is the place of the main thread: the stages of the start-up, the stages of a round
of the loop, and the labels at the end of the function under their names. `StartFails`
lists which label each stage of the start-up leaves through. A round is `LoopEnds` or
`Reap`, `UpdateConns`, `AddConn` until the queue is empty, `PollReturns`, and the visits
with `idx` as `conn`; `Accept` and its variants are one round of the loop of `nl_accept`
each. `errno` is kept as "EAGAIN" or "other" because `nl_accept` tests it after leaving
its loop at the limit, without having called `accept`. The kernel hands out the lowest
free descriptor. Each failing call is an action that spends one of `MaxFaults`; four of
them leave a descriptor open that nobody will close, and `lost` counts these (`Loss`):
`AddFails`, `AcceptNoBuffer`, `AcceptBlocking`, and `StartFails` where the listener's
connection is created. `served` counts the clients whose connection has come into the
tables. Both are history: no guard reads them.

`Reap` destroys any subset of the connections in `PENDING_CLOSE`, in one step: which of
them are unreferenced is `Connection`'s subject, and nobody but `main` reads the tables.
`ConnCloses` is everything that makes a connection `PENDING_CLOSE` there. `WaitPool` and
`DestroyTpool` return, which is `WaitReturns` and `DestroyReturns` of `ThreadPool`, with
the exceptions stated there; so is a failing `coin_tpool_init` taken to return, which
`pool_init_hangs` shows it need not.

`sig` is the place of the signal thread. `SigReceived` is `sigwait` returning and the flag
being set, `SigWakeMain` the write to the self-pipe; both signals the thread waits for
are blocked everywhere, so no other thread gets them. `KillSignalThread` is
`pthread_kill(SIGUSR1)`: the thread neither waits for that signal nor blocks it, so its
default action ends the process.

## 3. Runs

Passing runs:

| Run | Instance | Shows |
|---|---|---|
| `pool` | 3 workers, 3 tasks, any one failing call, fair | `TypeOK`, `OneCopy`, `NoneForgotten`, `ActiveCounts`, `FreedWhenQuiet`, `ShutdownWakesAll`, `ShutdownOnlyForward`, `WaiterHasWaker` and `WorkConserving` (both up to the first failure), `PoolRefinement`; `EveryTaskRuns`, `WaitReturns` (unless a call failed), `DestroyReturns`, `FatalStopsEveryone` |
| `conn_stream` | 2 messages (empty, a ping's length or too long for the receive buffer), 1 outstanding task of each kind, room for 4 of the 6 bytes of two answers, 1 failing call | `TypeOK`, `AnswersAligned`, `NothingLost`, `QuietOwesNothing`, `RefsCounted`, `OverrunOnlyByLength`, `ClosedIsFinal`, `ReapSafe` |
| `conn_live` | 2 messages, room for every answer, 1 failing call, fair | `AnswersInOrder`, `EveryMessageAnswered` |
| `ezqueue` | a buffer that grows from 3 over 6 to 7, 2 items, 1 failing allocation | `TypeOK`, `FifoRefinement` |
| `server` | 5 clients, 7 descriptors, limit 4, tables that grow from 2 over 4 to 8, 2 failing calls, cleared memory, fair | `TypeOK`, `TablesAgree`, `NothingLeaked`, `WithinLimit`, `NoLostWakeup`, `ShutdownEnds`, `EveryoneServed` |

Runs in which the code and what the repository says of it disagree:

| Run | Property | What happens |
|---|---|---|
| `pool_wait_early` | `WaitReturnsIdle` | a worker has popped a task and not yet counted it; `coin_tpool_wait` returns success |
| `pool_init_hangs` | `InitReturns` | `pthread_create` fails after a worker went to sleep; the cleanup joins it for ever |
| `conn_cleanup` | `NoUseAfterFree` | an ordinary shutdown; the early return of `coin_tpool_wait` lets `connmgr_destroy_all_conns` free a context that a task will lock |
| `conn_short_send` | `AnswersInOrder` | the kernel takes part of an answer; the next send starts at its beginning again |
| `conn_zero_length` | `EveryMessageAnswered` | a header announcing no content; nothing more arrives, so no read task is submitted to make the answer |
| `server_grow` | `TablesAgree` | a table grows by `realloc`, which clears nothing; the next compaction takes what the memory holds for connections |
| `server_usr1` | `NeverKilled` | the server fills up in its first round and leaves its loop without a signal; the SIGUSR1 it sends to its signal thread ends the process before `main` returns |

`conn_stream` also says what is left when `AnswersInOrder` and `EveryMessageAnswered`
fail as `conn_short_send` and `conn_zero_length` show. After a short send the client gets
wrong bytes, but the right number of them: the answers do not shift (`AnswersAligned`).
And the event loop submits a read task only when poll reports POLLIN: unless the next
message has no content, none is left behind for which no POLLIN will come
(`QuietOwesNothing`). The run also reaches the overrun of the receive buffer;
`OverrunOnlyByLength` says that only the message that is next to be answered causes it, by
being longer than the buffer, and not, for example, a second message that was read behind
the first. Messages above the buffer's size are an open question of the repository's
README, so the overrun contradicts no statement and is not listed as a disagreement.

`EveryoneServed` counts clients that have got into the tables the event loop polls. A
client may be missing only for a failing call that lost its descriptor, one each; a client
that is accepted and dropped otherwise violates it, however empty backlog and queue are.

`server_grow` and `server` differ in one assumption: what `realloc` returns. With `Fresh`
= {0} the tables stay in step through every history of the run; with other contents they
do not after the first resize. A passing `server` run thus speaks of programs whose
allocator hands out cleared memory, which is usual for a young process and promised by
nobody, and of any program only as long as its tables have not grown. The theorems of
section 4 say it that way (`Trusted`). With the 16 slots of INITIAL_MAX_CONNS that is the
time until a fifteenth client is connected at once.

**Bounds.** *Pool*: two workers are the least that can race for a task and three let one
sleep, one wake and one run, each with a task; the one failure is of any kind at any
point. *Connection*: in `conn_stream` `HeaderSize = 2` allows a header in two pieces, and
two messages let the second arrive together with any part of the first. `BufSize` is
`MessageSize`, the length of a ping, the tightest buffer that holds one, and `Lengths` are
0, a ping's 1, and 2, one byte too long: the boundary of the overrun, which a content that
arrives in two pieces also reaches. `conn_live` has the content of a ping in two pieces.
The proofs have any `Lengths` up to 65535. (The three counterexamples about connections
have a header of 3 bytes and a buffer of 8.) `MaxTasks` stands for the pool's backlog,
which the code does not bound: the event loop blocks at it, which removes no order of the
tasks that are outstanding. One task of each kind already lets a read and a send task run
in either order and be stale when they run; `conn_cleanup` has two of each, and the
theorems on reference counting hold for any number. `SendRoom` is the size of all the
answers or more where sends are to be whole, 4 in `conn_stream`, where two answers have 6
bytes, and 7 of 10 in `conn_short_send`: the send stops after one or two bytes of the
second answer, or not at all if the client has read the first. In `conn_live` the header
is one byte long and every message a ping's length, which keeps the behaviour graph small;
headers in pieces and other lengths are `conn_stream`'s subject. *Ring buffer*: the sizes
3, 6, 7 have a doubling and the last step to the limit that is less than a doubling, and
every position of head and tail; two items tell orders apart, and the theorems hold for
every size. *Server*: seven descriptors are the pipe's, the listener's and four clients';
the limit of 4 is met with three clients, or never when two descriptors have leaked, so
that both ends (the limit and EMFILE) are reached; five clients let one wait at the full
server and one take a descriptor that was closed before. `server_grow` and `server_usr1`
need no failing call.

**Fairness.** `ThreadPool`: each worker, and the boss inside a function of the pool, is
weakly fair: the scheduler runs runnable threads, a thread that keeps asking for a mutex
gets it, and task functions return (the tasks use non-blocking sockets). Nothing is
assumed of what the boss calls, of failures or of spurious wakeups. `Connection`: the
network delivers, outstanding tasks run (that is `EveryTaskRuns`), the event loop goes
round. The client owes nothing. `Server`: the main thread (its calls return, but need
not succeed) and the signal thread after it has got a signal. `poll` returns for the
listener or the self-pipe when one of them is ready (`PollServer`); that a client's
socket makes it return (`PollClient`) is not assumed, nor that anybody connects, closes
or sends a signal.

## 4. Proofs

All theorems hold for every number of workers, tasks, messages, clients, descriptors and
failures allowed by `PoolAssumption`, `ConnectionAssumption`, `EzQueueAssumption`,
`EzArrayAssumption`, `ConnMgrAssumption` and `ServerAssumption`: at least one worker,
`NoTask` is not a task, the failure kinds are among those listed, bounds are natural
numbers, a header is not empty and a ping fits into the buffer (1024 bytes in the
program; other messages need not), a content length has 16 bits, the initial sizes of
ring buffer and tables are between 1 and the largest value of their index type, and three
descriptors are free for the pipe and the listener. Every safety property of a passing
run is a theorem. Hypotheses beyond these assumptions are stated with the theorem:
`ConnectionAnswersWhole`, `ConnectionAnswersInOrder` and the `Server` theorems have some,
explained below.

*ThreadPool.* `PoolInv` joins the types, `ActiveCounts`, `OneCopy`, `NoneForgotten` and
`FreedWhenQuiet`, which are not inductive by themselves, with two facts about control:
`HandsInv` (a worker has a task exactly between pop and the end of the function, unless
it died there), without which the pop could overwrite a held task, and `PhaseInv`
(nothing is submitted before `coin_tpool_init` returns, joining comes after the flag is
set, the threads joined so far have ended), without which freeing the context could
lose a task or hit a live worker. `PoolInvariant` is its induction, one step per
action; the safety theorems follow, `PoolWorkConserving` with an induction of its own
that also uses the type facts. `PoolImplementsTaskPool` shows, over the same invariant,
that every step is a step of `TaskPool` or leaves its variables alone: a pop takes the
head, a dying worker abandons its task, `CtxDestroy` discards only when no worker runs.

*ThreadPool, waking and waiting.* What `DestroyReturns`, `FatalStopsEveryone` and
`WaitReturns` need besides fairness. `PoolShutdownWakesAll`: once a worker has ended the
pool is closed, and in a closed pool every created thread is awake, so that the join
loop never waits for a sleeper; the exception is a failed `coin_tpool_destroy`, which
may have set the flag without a broadcast, and joins nobody. It is inductive together
with the fact that a created thread is in `coin_thread_worker` (`AwakeInv`): a worker
tests the flag in the critical section in which it goes to sleep, and whoever sets the
flag broadcasts. `PoolShutdownOnlyForward`: `StepsLeft`, the number of places a worker
has before its end, never grows in a closed pool, so that a fair worker, which cannot
stay where it is, gets there. `PoolWaiterHasWaker`: as long as no call failed, whoever
sleeps in `coin_tpool_wait` has a counted worker whose broadcast is still to come; a
worker decrements and broadcasts in one critical section, and the boss tests and sleeps
in one. What fairness adds is that these workers take their steps.

*Connection.* `RefInv`: every outstanding task is counted, at most one reference per
failure is left over, the copy that `main` decides on is no lower than the number of
outstanding tasks (only `main` counts up, and it does not while it is at `Reap`), and a
freed context is not visited again. `ConnectionReapSafe` and `ConnectionRefsCounted`
follow from it; `ConnectionClosedIsFinal` needs no invariant.

*Connection, the byte stream.* Neither `NothingLost` nor `AnswersInOrder` is inductive:
the one speaks of the states in which the server reads only, the other of what has been
written only. `StreamInv` says for every state how many messages `n` are answered, and
that the receive buffer, the socket's buffer and the wire together are the stream of the
messages after them (up to a reset, which drops the end), cut where `state` and the
counters say: within a header; behind the header, with the rest of the announced content
asked for; or behind a whole message whose answer is being sent. `ConnectionStream` is
its induction, `ConnectionNothingLost` and `ConnectionTypeOK` follow; the types say what
wire and buffers hold, and nothing of the receive buffer's size, which the code does not
respect. `ConnectionOverrunOnlyByLength` does: what is read and asked for belongs to one
message, the next to be answered, so it exceeds the buffer only if that message does.
When the connection is in `PENDING_CLOSE` or the read has overrun, the counters keep what
they were, and `delivered` still names that message (`NextStays`). `AnswerInv` adds that
what was written are the `n` answers. A short send breaks it, as `conn_short_send` shows,
so `ConnectionAnswersWhole` is about behaviours in which the socket always has room for
the rest of an answer (`RoomForAnswer`), and `ConnectionAnswersInOrder` about every
behaviour if `SendRoom >= MaxMessages * MessageSize`, as in `conn_live`. TLC finds
`StreamInv` true in the 10.2 million states of `conn_stream`.

*Connection, short sends and silence.* `ConnectionAnswersAligned` has no hypothesis on
`SendRoom`. `AnswersAligned` is inductive beside `StreamInv`, which says that what is
written has `n * MessageSize + bytes_sent` bytes while answer `n + 1` is sent: the next
bytes are the first of `p_send_buf` (that is the fault), and since `bytes_to_send` counts
down they never go past the answer's place; that a byte has one place in one answer is
`OnePlace`. `ConnectionQuietOwesNothing` is the part of `EveryMessageAnswered` that is not
about fairness. Its proof: if nothing is under way, the receive buffer is all that is
pending, so a message that was sent and not answered would be in it whole (`StreamFrom`);
but then READ_HEADER would not still ask for a byte of the header, nor READ_CONTENT for
one of the content. The last is `ContentOwed`: only right behind the header may nothing be
asked for, which is a content of no bytes, the exception that `conn_zero_length` is about.
TLC finds `ContentOwed` true in `conn_stream`.

The streams are concatenations over a sequence of messages, so these proofs need
induction over data. The library's induction rule takes a predicate, which the provers
cannot instantiate; `SetInduction` of `StreamTheorems` states the rule for a set of
naturals instead and is proved from well-foundedness, with the set given to a lemma as an
ordinary parameter. The functions that define concatenation are then handled as values
that satisfy their equation (`JoinsAt`, `JoinsExist`; `RecursionAt` and `RecursionExists`
in `ConnMgrProofs` for any recursion over an initial segment).

*The compaction.* `CompactLoopIsCompacted`: `AfterRounds` is the buffer after `n`
rounds, the items kept so far in front, the sentinel up to the reading index, the old
contents from there on; `RoundKeeps` is the step of the induction, where the writing
index lies at or before the reading one, so that no unread item is overwritten.
`KeptItems`, `KeptDistinct` and `KeptShort` say that exactly the items in use are kept,
each once and no more than there are slots up to the last one in use; `KeptSame` that
two buffers with their sentinels at the same indices keep the same items, though the
sentinels differ. That is why the separate compactions of `p_conns` (NULL) and `p_pfds`
(0) leave them in step.

*Server.* `TablesAgree` looks at the slots in use only, but a compaction reads a whole
array: `InStep` extends it to the unused slots (each unused in both tables, and behind
the used ones except between `Reap` and `RemoveClosed`) and to sizes. `QueueInv` says
that no connection is queued twice or both queued and active. `ServerInv` ties them to
the places of the main thread: `StartInv` says what is open during the start-up, without
which a label could close too little; `TablesInv` says where the tables are in step, that
after `connmgr_destroy_all_conns` nothing is left in them, that what is `PENDING_CLOSE`
is active (so that `Reap` destroys nothing it does not own), and that `num_active_conns`
is no larger than `p_conns.num` at the cleanup label, even after half an `AddNew` (else
`ezarr_set_at` would refuse a slot there); `ControlInv` bounds the rest.
`ServerInvariant` is its induction. Most steps leave tables, queue and descriptors alone
(`QuietKeeps`); the others have a lemma each. `NothingLeaked` is kept because a step
enlarges `open \ Owned` by nothing (`LeaksNothing`) or by one descriptor at the price of
a failed call that `lost` counts (`LeaksOne`): the queue's head in `AddFails`, the
accepted descriptor in `AcceptNoBuffer` and `AcceptBlocking`, the listener in
`StartFails`. That the descriptor `accept` hands out is new needs that a set of
descriptors has a least element (`MinimumExists`).

*Server, wakeups.* `NoLostWakeup` is the part of `ShutdownEnds` and `EveryoneServed` that
is not about fairness: `poll` has no timeout, so it must find the listener or the pipe
ready. `WakeInv` holds beside `ServerInv`: the two internal connections are in tables or
queue throughout the loop, since they never close, and the queue is empty before `poll`
(`InternalInv`); the pipe is open before the signal thread starts and until the loop is
left, so the byte is written and, as nobody reads it, stays (`SignalInv`, over
`NoWayBack`: the main thread never returns to start-up or loop). That the descriptors
of active connections are those `poll` is given follows from `InStep`.

*Server, memory.* The theorems assume nothing of what `realloc` returns and nothing of
the tables' initial size. They are claimed of the states in which the server is
`Trusted`: the tables have not grown beyond the `InitialMax` slots that `connmgr_init`
has cleared, or `Fresh` holds only 0. So `ServerTablesAgree` is `Spec => [](Trusted =>
TablesAgree)`, and likewise the others. More cannot be claimed of the code, whose two
compactions take uncleared memory for connections: `server_grow` shows it, and after the
event loop has followed such a pointer nothing is defined. The tables never shrink,
whatever the memory holds (`SizesKeep`), so a server that is `Trusted` was so in every
state before (`TrustedBefore`), and `Trusted => ServerInv` is inductive beside
`SizesInv`. The step that could break it is `AddConn`, which grows the tables: either the
server is not `Trusted` afterwards, or nothing was added or what was added is cleared
(`RoomForAll`). `AddFails` may grow `p_conns` alone, into slots that nobody reads before
the tables are freed.

*Server, hypotheses.* `Settings` has two, both true of the program. *Descriptors:*
`FirstFd > 0`, that is, the server was started with standard input open; 0 is the
sentinel of `p_pfds` (section 5). *Limit:* at least 1, for the two internal connections,
and below UINT16_MAX; MAX_CONNECTIONS is 1024. TLC finds `Trusted => ServerInv /\
WakeInv` true on the instance of `server` (251,363 states) and on instances with
`InitialMax = 3`, `Fresh` = {0, 99} or {0, 4} and `MaxConnections` 4 or 5, whose tables
grow.

*EzQueue.* `TypeOK` is inductive as it stands, because it says how the two indices and
the number of items determine each other: an empty queue has the indices of `ezq_init`,
any other one a tail `num_items - 1` slots behind its head around the end of the buffer.
`EzQueueType` needs arithmetic with `%` and a variable divisor, which the lemmas
`WrapsOnce` (an index below twice the size wraps around at most once) and `SlotValue`
reduce to a case distinction; `GrowsWithinBound` is about the doubling. `EzQueueIsFifo`
shows over `TypeOK` that every call is a step of `Fifo`: enqueuing appends to `Contents`
because the slot behind the last item is none of the others' (`SlotsDistinct`), dequeuing
takes its head, and resizing leaves it as it is (`ResizedType`).

**Only model-checked.** The liveness properties `EveryTaskRuns`, `WaitReturns`,
`DestroyReturns`, `FatalStopsEveryone`, `EveryMessageAnswered`, `ShutdownEnds` and
`EveryoneServed`: fairness and ENABLED are beyond the prover. Proved are the safety
properties they rest on: `WorkConserving`, `ShutdownWakesAll`, `ShutdownOnlyForward` and
`WaiterHasWaker` for the pool, `QuietOwesNothing` for a connection, `NoLostWakeup` for
the server. What remains with TLC is that fair steps are taken until the end is reached.
The disagreements of section 3 are counterexamples, which need no proof.

## 5. Not modelled

- What the program does after a message longer than the receive buffer has overrun it
  (`ReadOverrun`), or after it has used slots of a table that `realloc` left uncleared.
- The volley counter and byte order.
- `retvals` of `coin_tpool_destroy`: `main` passes NULL.
- That a connection in `PENDING_CLOSE` is eventually reaped: `main` submits a send
  task in nearly every round, and no fairness of the scheduler makes it look at a
  moment when none is outstanding.
- A server that is started without its standard descriptors: descriptor 0 would then
  become the self-pipe's, which the compaction of `p_pfds` takes for an unused entry.
  `FirstFd = 0` makes `TablesAgree` fail; the runs have `FirstFd = 3`.
- `accept` failing with EINTR, ECONNABORTED and the like, each on its own: `nl_accept`
  treats every error but EAGAIN alike (`AcceptFails`).
- A largest size of `p_conns` below the limit of connections: MAX_CONNECTIONS is far below
  UINT16_MAX, so that `ezarr_push` fails for want of memory only.
- Logging, build files, the developer scripts.

## 6. What is left

1. `Connection` and `ThreadPool` meet in numbers of tasks only. A module with several
   connections over one `TaskPool` would show that a slow connection does not hold up
   the others for longer than its tasks take.
2. The reaping of a connection in `PENDING_CLOSE` (section 5), which the code leaves to
   chance: a statement of how many rounds it can take would need a bound on the pool's
   backlog, which the code does not have.
