------------------------------ MODULE ConnMgr -------------------------------
(***************************************************************************)
(* The connection manager of connmgr.c: the connections the event loop     *)
(* polls, in two parallel arrays, and the queue of accepted ones it has    *)
(* not taken over yet.  Only the main thread calls it.                     *)
(*                                                                         *)
(* A connection context is represented by its descriptor.  The queue is a  *)
(* sequence, which is what EzQueue is shown to implement.                  *)
(***************************************************************************)
EXTENDS EzArray, FiniteSets

CONSTANTS
  InitialMax,   \* INITIAL_MAX_CONNS
  Fresh         \* what the memory that realloc adds may hold, 0 if cleared

ASSUME ConnMgrAssumption == InitialMax \in 1..U16Max /\ Fresh \subseteq Nat

VARIABLES
  p_conns,            \* ezarray_t of contexts
  p_pfds,             \* the fd fields of the struct pollfd array
  max_conns,
  num_active_conns,
  p_new_conns,        \* ezqueue_t of contexts
  open                \* the descriptors of the process that are open

connVars == <<p_conns, p_pfds, max_conns, num_active_conns, p_new_conns>>

NULL == -1
Fd0 == 0     \* the sentinel of p_pfds

\* A context found in memory with the content v.
Pointer(v) == IF v = 0 THEN NULL ELSE v
-----------------------------------------------------------------------------
NoTables ==
  /\ p_conns = EzarrInit(0, NULL)
  /\ p_pfds = Buffer(0, Fd0)
  /\ max_conns = 0 /\ num_active_conns = 0
  /\ p_new_conns = <<>>

ConnmgrInit ==
  /\ p_conns' = EzarrInit(InitialMax, NULL)
  /\ p_pfds' = Buffer(InitialMax, Fd0)
  /\ p_new_conns' = <<>>
  /\ max_conns' = InitialMax
  /\ num_active_conns' = 0
  /\ UNCHANGED open

\* connmgr_deinit frees the tables, not what they refer to.
ConnmgrDeinit ==
  /\ p_conns' = EzarrInit(0, NULL)
  /\ p_pfds' = Buffer(0, Fd0)
  /\ p_new_conns' = <<>>
  /\ UNCHANGED <<max_conns, num_active_conns, open>>

CreateNewConn(fd) ==
  /\ p_new_conns' = Append(p_new_conns, fd)
  /\ UNCHANGED <<p_conns, p_pfds, max_conns, num_active_conns>>

\* The contexts the event loop sees.
Active == {EzarrGetAt(p_conns, i, NULL) : i \in 0..(num_active_conns - 1)} \ {NULL}

Queued == {p_new_conns[i] : i \in 1..Len(p_new_conns)}

\* Mutant of DestroyAllConns: the queue is forgotten.
DestroyActiveConns ==
  /\ open' = open \ Active
  /\ p_conns' = EzarrSetAt(p_conns, 0..(num_active_conns - 1), NULL)
  /\ UNCHANGED <<p_pfds, max_conns, num_active_conns, p_new_conns>>

\* connmgr_destroy_all_conns: connmgr_destroy_conn for every context in the
\* first num_active_conns slots, then for the ones in the queue.
DestroyAllConns ==
  /\ open' = open \ (Active \cup Queued)
  /\ p_conns' = EzarrSetAt(p_conns, 0..(num_active_conns - 1), NULL)
  /\ p_new_conns' = <<>>
  /\ UNCHANGED <<p_pfds, max_conns, num_active_conns>>

\* Mutant of DestroyConns: the entries of p_pfds are not cleared.
DestroyConnsKeepFds(gone) ==
  LET slots == {i \in 0..(num_active_conns - 1) : p_conns.buf[i] \in gone} IN
  /\ open' = open \ gone
  /\ p_conns' = EzarrSetAt(p_conns, slots, NULL)
  /\ UNCHANGED <<p_pfds, max_conns, num_active_conns, p_new_conns>>

\* The event loop destroys some of the active connections and clears their
\* slots in both arrays, in p_pfds only after ezarr_set_at has succeeded.
DestroyConns(gone) ==
  LET slots == {i \in 0..(num_active_conns - 1) : p_conns.buf[i] \in gone} IN
  /\ open' = open \ gone
  /\ p_conns' = EzarrSetAt(p_conns, slots, NULL)
  /\ p_pfds' = [i \in DOMAIN p_pfds |->
                  IF i \in slots /\ i < p_conns.num THEN Fd0 ELSE p_pfds[i]]
  /\ UNCHANGED <<max_conns, num_active_conns, p_new_conns>>

\* connmgr_remove_closed_connections: each array is compacted on its own, up to
\* its own size and by its own sentinel.
RemoveClosed ==
  LET pfds == Compacted(p_pfds, max_conns, Fd0) IN
  /\ p_conns' = EzarrCompact(p_conns, NULL)
  /\ p_pfds' = pfds.buf
  /\ num_active_conns' = pfds.write_idx
  /\ UNCHANGED <<max_conns, p_new_conns, open>>
-----------------------------------------------------------------------------
(* connmgr_add_new_connections, one connection of the queue at a time.     *)

\* Mutant of Pushed: the size is not taken over from the array.
PushedKeepsMax(fresh) ==
  /\ p_conns' = EzarrPush(p_conns, Head(p_new_conns), fresh)
  /\ p_new_conns' = Tail(p_new_conns)
  /\ UNCHANGED <<max_conns, open>>

\* Mutant of Pushed: one connection is taken over, and the queue is emptied.
PushedForgetsRest(fresh) ==
  /\ p_conns' = EzarrPush(p_conns, Head(p_new_conns), fresh)
  /\ p_new_conns' = <<>>
  /\ max_conns' = p_conns'.max
  /\ UNCHANGED open

Pushed(fresh) ==
  /\ p_conns' = EzarrPush(p_conns, Head(p_new_conns), fresh)
  /\ p_new_conns' = Tail(p_new_conns)
  /\ max_conns' = p_conns'.max
  /\ UNCHANGED open

\* add_to_pollfd.
AddToPollfd(fd, fresh) ==
  LET full == num_active_conns = max_conns
      pfds == IF full THEN Realloc(p_pfds, NewMax(num_active_conns), fresh) ELSE p_pfds
  IN  p_pfds' = [pfds EXCEPT ![num_active_conns] = fd]

AddNew(v) ==
  /\ p_new_conns # <<>>
  /\ Pushed(Pointer(v))
  /\ AddToPollfd(Head(p_new_conns), v)
  /\ num_active_conns' = num_active_conns + 1

\* ezarr_push cannot resize: the connection has left the queue and is nowhere.
AddNewPushFails ==
  /\ p_new_conns # <<>>
  /\ p_conns.num = p_conns.max
  /\ p_new_conns' = Tail(p_new_conns)
  /\ UNCHANGED <<p_conns, p_pfds, max_conns, num_active_conns, open>>

\* add_to_pollfd cannot resize: p_conns has the connection and p_pfds has not.
AddNewPollfdFails(v) ==
  /\ p_new_conns # <<>>
  /\ num_active_conns = max_conns
  /\ p_conns' = EzarrPush(p_conns, Head(p_new_conns), Pointer(v))
  /\ p_new_conns' = Tail(p_new_conns)
  /\ UNCHANGED <<p_pfds, max_conns, num_active_conns, open>>
-----------------------------------------------------------------------------
TablesTypeOK ==
  /\ DOMAIN p_conns.buf = 0..(p_conns.max - 1)
  /\ p_conns.max \in 0..U16Max /\ p_conns.num \in 0..p_conns.max
  /\ max_conns \in 0..U16Max
  /\ \A i \in DOMAIN p_pfds : p_pfds[i] \in Int
  /\ num_active_conns \in 0..max_conns

\* Slot i of p_conns and slot i of p_pfds belong to the same live connection,
\* for each of the num_active_conns slots, and no connection has two of them:
\* the event loop reads revents of one array and takes the context from the
\* other.
SameConnections ==
  /\ num_active_conns = p_conns.num
  /\ max_conns = p_conns.max
  /\ DOMAIN p_pfds = 0..(max_conns - 1)
  /\ \A i \in 0..(num_active_conns - 1) :
       p_conns.buf[i] \in open /\ p_pfds[i] = p_conns.buf[i]
  /\ Cardinality(Active) = num_active_conns
  /\ Active \cap Queued = {}
-----------------------------------------------------------------------------
(* The inductive invariant of the tables: SameConnections for all the       *)
(* slots they have, the unused ones included, because a compaction looks    *)
(* at those too.                                                            *)

\* An unused slot is unused in both tables. It lies behind the used ones, unless
\* a connection was destroyed and the tables are not compacted yet.
InStep(holes) ==
  /\ max_conns \in 1..U16Max /\ num_active_conns \in 0..max_conns
  /\ p_conns \in [buf : [0..(max_conns - 1) -> open \cup {NULL}],
                  num : {num_active_conns}, max : {max_conns}]
  /\ p_pfds \in [0..(max_conns - 1) -> open \cup {Fd0}]
  /\ \A i \in 0..(max_conns - 1) :
       \/ /\ p_conns.buf[i] = NULL /\ p_pfds[i] = Fd0
          /\ holes \/ i >= num_active_conns
       \/ /\ p_conns.buf[i] # NULL /\ p_pfds[i] = p_conns.buf[i]
          /\ i < num_active_conns
  /\ \A i, j \in 0..(max_conns - 1) :
       p_conns.buf[i] = p_conns.buf[j] => i = j \/ p_conns.buf[i] = NULL

\* Each queued connection is open, queued once and not in the tables.
QueueInv ==
  /\ p_new_conns \in Seq(open)
  /\ \A i, j \in 1..Len(p_new_conns) : p_new_conns[i] = p_new_conns[j] => i = j
  /\ Active \cap Queued = {}
=============================================================================
