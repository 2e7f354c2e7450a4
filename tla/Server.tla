------------------------------- MODULE Server -------------------------------
(***************************************************************************)
(* The server as a process: main of main.c from its first call to its      *)
(* return, with the tables of ConnMgr, the listening socket and nl_accept  *)
(* of netio.c, and the signal thread with its self-pipe.                   *)
(*                                                                         *)
(* What happens on an accepted connection is the subject of Connection;    *)
(* here a client's connection may at any time reach PENDING_CLOSE, and the *)
(* event loop may or may not find it unreferenced when it looks.           *)
(***************************************************************************)
EXTENDS ConnMgr

CONSTANTS
  MaxConnections,  \* MAX_CONNECTIONS
  FirstFd,         \* the lowest descriptor that is free when the server starts
  LastFd,          \* the highest one the process may have
  MaxClients,      \* bound: clients that connect
  MaxFaults        \* bound: failing calls

ASSUME ServerAssumption ==
  /\ MaxConnections \in Nat /\ MaxClients \in Nat /\ MaxFaults \in Nat
  /\ FirstFd \in Nat /\ LastFd \in Nat /\ FirstFd + 3 <= LastFd

VARIABLES
  main,               \* where the main thread is
  idx,                \* conn, the index of the loop over the connections
  revents,            \* the descriptors poll has reported POLLIN for
  errno,              \* of the main thread
  sig,                \* where the signal thread is
  g_should_shutdown,
  sigpipe,            \* there is a byte in the self-pipe
  backlog,            \* clients the kernel has connected and nobody accepted
  arrived,            \* clients that have connected
  served,             \* clients whose connection has come into the tables
  closing,            \* connections whose state is PENDING_CLOSE
  faults,             \* calls that have failed
  lost                \* those of them after which a descriptor has no owner

sigVars == <<sig, g_should_shutdown, sigpipe>>
clientVars == <<backlog, arrived, served, closing>>
loopVars == <<idx, revents, errno>>
faultVars == <<faults, lost>>
vars == <<connVars, open, main, loopVars, sigVars, clientVars, faultVars>>

\* pipe and nl_start_listener are the first calls that open descriptors.
PipeRead == FirstFd
PipeWrite == FirstFd + 1
sfd == FirstFd + 2

\* The labels of main, and the stages of its start-up and of its loop.
Starting == {"pipe", "signals", "connmgr", "tpool", "listener", "conn_listener", "conn_pipe"}
Looping == {"loop", "update", "add", "poll", "visit", "accept"}
Exiting == {"wait", "cleanup_connections", "destroy_tpool", "destroy_connmgr",
            "join_sig_thread", "pthread_kill", "pthread_join", "close_pipefds"}

\* The process is gone: main has returned, or a signal has ended it.
Over == main \in {"end", "killed"}

Init ==
  /\ NoTables
  /\ open = {}
  /\ main = "pipe" /\ idx = 0 /\ revents = {} /\ errno = "other"
  /\ sig = "none" /\ g_should_shutdown = FALSE /\ sigpipe = FALSE
  /\ backlog = 0 /\ arrived = 0 /\ served = 0 /\ closing = {}
  /\ faults = 0 /\ lost = 0

Goto(from, to) == main = from /\ main' = to

Fault ==
  /\ faults < MaxFaults
  /\ faults' = faults + 1
  /\ UNCHANGED lost

\* A call fails, and the caller keeps an open descriptor that nobody will close.
Loss ==
  /\ faults < MaxFaults
  /\ faults' = faults + 1
  /\ lost' = lost + 1
-----------------------------------------------------------------------------
(* Start-up.                                                               *)

MakePipe ==
  /\ Goto("pipe", "signals")
  /\ open' = {PipeRead, PipeWrite}
  /\ UNCHANGED <<connVars, loopVars, sigVars, clientVars, faultVars>>

\* setup_signal_handler_thread.
StartSignalThread ==
  /\ Goto("signals", "connmgr")
  /\ sig' = "sigwait"
  /\ UNCHANGED <<connVars, open, loopVars, g_should_shutdown, sigpipe, clientVars, faultVars>>

StartConnmgr ==
  /\ Goto("connmgr", "tpool")
  /\ ConnmgrInit
  /\ UNCHANGED <<loopVars, sigVars, clientVars, faultVars>>

StartTpool ==
  /\ Goto("tpool", "listener")
  /\ UNCHANGED <<connVars, open, loopVars, sigVars, clientVars, faultVars>>

\* nl_start_listener.
StartListener ==
  /\ Goto("listener", "conn_listener")
  /\ open' = open \cup {sfd}
  /\ UNCHANGED <<connVars, loopVars, sigVars, clientVars, faultVars>>

CreateListenerConn ==
  /\ Goto("conn_listener", "conn_pipe")
  /\ CreateNewConn(sfd)
  /\ UNCHANGED <<open, loopVars, sigVars, clientVars, faultVars>>

CreatePipeConn ==
  /\ Goto("conn_pipe", "loop")
  /\ CreateNewConn(PipeRead)
  /\ UNCHANGED <<open, loopVars, sigVars, clientVars, faultVars>>

\* Each stage that fails leaves through the label that undoes the ones before
\* it; only the listening socket without a connection is forgotten. A
\* coin_tpool_init that fails is taken to return (InitReturns of ThreadPool).
StartFails ==
  /\ \/ Goto("pipe", "end") /\ Fault
     \/ Goto("signals", "close_pipefds") /\ Fault
     \/ Goto("connmgr", "join_sig_thread") /\ Fault
     \/ Goto("tpool", "destroy_connmgr") /\ Fault
     \/ Goto("listener", "destroy_tpool") /\ Fault
     \/ Goto("conn_listener", "cleanup_connections") /\ Loss
     \/ Goto("conn_pipe", "cleanup_connections") /\ Fault
  /\ UNCHANGED <<connVars, open, loopVars, sigVars, clientVars>>
-----------------------------------------------------------------------------
(* The event loop.                                                         *)

LoopEnds ==
  /\ g_should_shutdown
  /\ Goto("loop", "wait")
  /\ UNCHANGED <<connVars, open, loopVars, sigVars, clientVars, faultVars>>

\* The connections in PENDING_CLOSE that are not referenced are destroyed.
Reap(gone) ==
  /\ ~g_should_shutdown
  /\ Goto("loop", "update")
  /\ DestroyConns(gone)
  /\ closing' = closing \ gone
  /\ UNCHANGED <<loopVars, sigVars, backlog, arrived, served, faultVars>>

\* connmgr_update_connections.
UpdateConns ==
  /\ Goto("update", "add")
  /\ RemoveClosed
  /\ UNCHANGED <<loopVars, sigVars, clientVars, faultVars>>

\* The listener's connection and the pipe's one are not clients.
AddConn(v) ==
  /\ Goto("add", "add")
  /\ AddNew(v)
  /\ served' = IF Head(p_new_conns) \in {sfd, PipeRead} THEN served ELSE served + 1
  /\ UNCHANGED <<loopVars, sigVars, backlog, arrived, closing, faultVars>>

AddedAll ==
  /\ p_new_conns = <<>>
  /\ Goto("add", "poll")
  /\ UNCHANGED <<connVars, open, loopVars, sigVars, clientVars, faultVars>>

\* The connection that was taken from the queue is not among those that
\* connmgr_destroy_all_conns looks at.
AddFails(v) ==
  /\ Goto("add", "cleanup_connections")
  /\ AddNewPushFails \/ AddNewPollfdFails(v)
  /\ Loss
  /\ UNCHANGED <<loopVars, sigVars, clientVars>>

Polled == {p_pfds[i] : i \in 0..(num_active_conns - 1)}

\* What poll reports of the listening socket and of the self-pipe.
PollIn ==
  (IF backlog > 0 THEN Polled \cap {sfd} ELSE {}) \cup
  (IF sigpipe THEN Polled \cap {PipeRead} ELSE {})

PollReturns ==
  /\ Goto("poll", "visit")
  /\ revents' = PollIn
  /\ idx' = 0
  /\ UNCHANGED <<connVars, open, errno, sigVars, clientVars, faultVars>>

\* poll has no timeout: it returns for the listener, the self-pipe or a client.
PollServer == PollReturns /\ PollIn # {}
PollClient == PollReturns /\ Active \ {sfd, PipeRead} # {}

\* Until then it sleeps.
PollBlocks == main = "poll" /\ PollIn = {} /\ UNCHANGED vars

PollFails ==
  /\ Goto("poll", "wait")
  /\ Fault
  /\ UNCHANGED <<connVars, open, loopVars, sigVars, clientVars>>

VisitListener ==
  /\ Goto("visit", "accept")
  /\ idx < num_active_conns
  /\ p_pfds[idx] = sfd /\ sfd \in revents
  /\ UNCHANGED <<connVars, open, loopVars, sigVars, clientVars, faultVars>>

VisitPipe ==
  /\ Goto("visit", "loop")
  /\ idx < num_active_conns
  /\ p_conns.buf[idx] = PipeRead /\ p_pfds[idx] \in revents
  /\ UNCHANGED <<connVars, open, loopVars, sigVars, clientVars, faultVars>>

\* Nothing to do on an internal connection; tasks for a client's one.
VisitOther ==
  /\ main = "visit"
  /\ idx < num_active_conns
  /\ p_pfds[idx] \notin revents
  /\ idx' = idx + 1
  /\ UNCHANGED <<connVars, open, main, revents, errno, sigVars, clientVars, faultVars>>

VisitFails ==
  /\ Goto("visit", "cleanup_connections")
  /\ idx < num_active_conns
  /\ p_conns.buf[idx] \notin {sfd, PipeRead}
  /\ Fault
  /\ UNCHANGED <<connVars, open, loopVars, sigVars, clientVars>>

VisitedAll ==
  /\ Goto("visit", "loop")
  /\ idx = num_active_conns
  /\ UNCHANGED <<connVars, open, loopVars, sigVars, clientVars, faultVars>>
-----------------------------------------------------------------------------
(* nl_accept, one round of its loop at a time.                             *)

FreeFds == (FirstFd..LastFd) \ open
LowestFd == CHOOSE f \in FreeFds : \A g \in FreeFds : f <= g

\* Mutant of Full: the connections in the queue are not counted.
FullIgnoresQueue == MaxConnections - num_active_conns + 1 = 0

Full == MaxConnections - num_active_conns - Len(p_new_conns) + 1 = 0

\* accept hands out a connection, on the lowest free descriptor.
Accepting ==
  /\ main = "accept"
  /\ ~Full
  /\ backlog > 0 /\ FreeFds # {}
  /\ open' = open \cup {LowestFd}
  /\ backlog' = backlog - 1
  /\ UNCHANGED <<idx, revents, sigVars, arrived, served, closing>>

Accept ==
  /\ Accepting
  /\ CreateNewConn(LowestFd)
  /\ UNCHANGED <<main, errno, faultVars>>

\* There is no memory for a buffer of the new connection: the context is freed,
\* connmgr_create_new_conn returns 0, and nobody closes the descriptor.
AcceptNoBuffer ==
  /\ Accepting
  /\ Loss
  /\ errno' = "other"
  /\ UNCHANGED <<connVars, main>>

\* nl_set_nonblocking fails: the descriptor is not closed either.
AcceptBlocking ==
  /\ Accepting
  /\ main' = "cleanup_connections"
  /\ Loss
  /\ errno' = "other"
  /\ UNCHANGED connVars

\* connmgr_create_new_conn reports a failure: the descriptor is closed.
AcceptNoContext ==
  /\ ~Full
  /\ backlog > 0 /\ FreeFds # {}
  /\ Goto("accept", "cleanup_connections")
  /\ backlog' = backlog - 1
  /\ Fault
  /\ errno' = "other"
  /\ UNCHANGED <<connVars, open, idx, revents, sigVars, arrived, served, closing>>

\* accept fails with EAGAIN: everyone was accepted.
AcceptedAll ==
  /\ ~Full
  /\ backlog = 0
  /\ Goto("accept", "visit") /\ idx' = idx + 1
  /\ errno' = "EAGAIN"
  /\ UNCHANGED <<connVars, open, revents, sigVars, clientVars, faultVars>>

\* accept fails otherwise: the process has no descriptor left, or for any other
\* reason.
AcceptNoFd ==
  /\ ~Full
  /\ backlog > 0 /\ FreeFds = {}
  /\ Goto("accept", "cleanup_connections")
  /\ errno' = "other"
  /\ UNCHANGED <<connVars, open, idx, revents, sigVars, clientVars, faultVars>>

AcceptFails ==
  /\ ~Full
  /\ Goto("accept", "cleanup_connections")
  /\ Fault
  /\ errno' = "other"
  /\ UNCHANGED <<connVars, open, idx, revents, sigVars, clientVars>>

\* At the limit accept is not called, and errno is what an earlier call left.
AcceptFull ==
  /\ Full
  /\ IF errno = "EAGAIN"
     THEN Goto("accept", "visit") /\ idx' = idx + 1
     ELSE Goto("accept", "cleanup_connections") /\ UNCHANGED idx
  /\ UNCHANGED <<connVars, open, revents, errno, sigVars, clientVars, faultVars>>
-----------------------------------------------------------------------------
(* The labels at the end of main.                                          *)

\* coin_tpool_wait, whatever it returns.
WaitPool ==
  /\ Goto("wait", "cleanup_connections")
  /\ UNCHANGED <<connVars, open, loopVars, sigVars, clientVars, faultVars>>

CleanupConnections ==
  /\ Goto("cleanup_connections", "destroy_tpool")
  /\ DestroyAllConns
  /\ closing' = {}
  /\ UNCHANGED <<loopVars, sigVars, backlog, arrived, served, faultVars>>

DestroyTpool ==
  /\ Goto("destroy_tpool", "destroy_connmgr")
  /\ UNCHANGED <<connVars, open, loopVars, sigVars, clientVars, faultVars>>

DestroyConnmgr ==
  /\ Goto("destroy_connmgr", "join_sig_thread")
  /\ ConnmgrDeinit
  /\ UNCHANGED <<loopVars, sigVars, clientVars, faultVars>>

TestShutdown ==
  /\ main = "join_sig_thread"
  /\ main' = IF g_should_shutdown THEN "pthread_join" ELSE "pthread_kill"
  /\ UNCHANGED <<connVars, open, loopVars, sigVars, clientVars, faultVars>>

\* SIGUSR1 is not in the set that sigwait waits for, and is not blocked: as long
\* as the signal thread lives, the signal's default action ends the process.
KillSignalThread ==
  /\ main = "pthread_kill"
  /\ main' = IF sig = "done" THEN "pthread_join" ELSE "killed"
  /\ UNCHANGED <<connVars, open, loopVars, sigVars, clientVars, faultVars>>

JoinSignalThread ==
  /\ sig = "done"
  /\ Goto("pthread_join", "close_pipefds")
  /\ UNCHANGED <<connVars, open, loopVars, sigVars, clientVars, faultVars>>

\* The read end may have been closed with its connection before.
ClosePipe ==
  /\ Goto("close_pipefds", "end")
  /\ open' = open \ {PipeRead, PipeWrite}
  /\ UNCHANGED <<connVars, loopVars, sigVars, clientVars, faultVars>>
-----------------------------------------------------------------------------
(* signal_thread_fn.                                                       *)

\* SIGINT or SIGTERM.
SigReceived ==
  /\ ~Over
  /\ sig = "sigwait"
  /\ sig' = "write"
  /\ g_should_shutdown' = TRUE
  /\ UNCHANGED <<connVars, open, main, loopVars, sigpipe, clientVars, faultVars>>

\* Mutant of SigWakeMain: the main thread is not woken up.
SigWakesNobody ==
  /\ ~Over
  /\ sig = "write"
  /\ sig' = "done"
  /\ UNCHANGED <<connVars, open, main, loopVars, g_should_shutdown, sigpipe, clientVars,
                 faultVars>>

\* The write fails if the read end is closed; SIGPIPE is blocked.
SigWakeMain ==
  /\ ~Over
  /\ sig = "write"
  /\ sig' = "done"
  /\ sigpipe' = (PipeRead \in open)
  /\ UNCHANGED <<connVars, open, main, loopVars, g_should_shutdown, clientVars, faultVars>>

\* sigwait fails: the thread ends, and nobody waits for the signals any more.
SigWaitFails ==
  /\ ~Over
  /\ sig = "sigwait"
  /\ sig' = "done"
  /\ Fault
  /\ UNCHANGED <<connVars, open, main, loopVars, g_should_shutdown, sigpipe, clientVars>>
-----------------------------------------------------------------------------
(* The clients.                                                            *)

ClientConnects ==
  /\ ~Over
  /\ sfd \in open
  /\ arrived < MaxClients
  /\ arrived' = arrived + 1
  /\ backlog' = backlog + 1
  /\ UNCHANGED <<connVars, open, main, loopVars, sigVars, served, closing, faultVars>>

\* A task or the event loop has put a client's connection to PENDING_CLOSE.
ConnCloses(fd) ==
  /\ ~Over
  /\ fd \in Active \ {sfd, PipeRead}
  /\ closing' = closing \cup {fd}
  /\ UNCHANGED <<connVars, open, main, loopVars, sigVars, backlog, arrived, served, faultVars>>

Ended == Over /\ UNCHANGED vars
-----------------------------------------------------------------------------
StartUp ==
  \/ MakePipe \/ StartSignalThread \/ StartConnmgr \/ StartTpool \/ StartListener
  \/ CreateListenerConn \/ CreatePipeConn

Round ==
  \/ LoopEnds \/ \E gone \in SUBSET closing : Reap(gone)
  \/ UpdateConns \/ (\E v \in Fresh : AddConn(v)) \/ AddedAll
  \/ PollServer
  \/ VisitListener \/ VisitPipe \/ VisitOther \/ VisitedAll
  \/ Accept \/ AcceptedAll \/ AcceptNoFd \/ AcceptFull

Exit ==
  \/ WaitPool \/ CleanupConnections \/ DestroyTpool \/ DestroyConnmgr
  \/ TestShutdown \/ KillSignalThread \/ JoinSignalThread \/ ClosePipe

CallFails ==
  \/ StartFails \/ (\E v \in Fresh : AddFails(v)) \/ PollFails \/ VisitFails
  \/ AcceptNoBuffer \/ AcceptBlocking \/ AcceptNoContext \/ AcceptFails

Main == StartUp \/ Round \/ Exit

Environment ==
  \/ ClientConnects \/ (\E fd \in open : ConnCloses(fd))
  \/ PollClient \/ PollBlocks
  \/ SigReceived \/ SigWaitFails
  \/ Ended

Next == Main \/ CallFails \/ SigWakeMain \/ Environment

Spec == Init /\ [][Next]_vars

\* Both threads are scheduled. Nobody has to send a signal or connect, no call
\* has to fail, and poll need not report a client.
FairSpec == Spec /\ WF_vars(Main) /\ WF_vars(SigWakeMain)
-----------------------------------------------------------------------------
(* Properties.                                                             *)

TypeOK ==
  /\ TablesTypeOK
  /\ open \subseteq FirstFd..LastFd
  /\ main \in Starting \cup Looping \cup Exiting \cup {"end", "killed"}
  /\ main = "visit" => idx \in 0..num_active_conns
  /\ revents \subseteq {sfd, PipeRead}
  /\ errno \in {"EAGAIN", "other"}
  /\ sig \in {"none", "sigwait", "write", "done"}
  /\ g_should_shutdown \in BOOLEAN /\ sigpipe \in BOOLEAN
  /\ backlog \in 0..MaxClients /\ arrived \in 0..MaxClients
  /\ served \in Nat
  /\ closing \subseteq open
  /\ faults \in 0..MaxFaults /\ lost \in 0..faults

\* Whenever the event loop uses p_conns and p_pfds side by side, they hold the
\* same live connections at the same indices, whatever was accepted, closed,
\* compacted and resized before. (Between Reap and RemoveClosed both have holes.)
TablesAgree == main \in Looping \ {"update"} => SameConnections

\* The descriptors somebody will still close.
Owned ==
  Active \cup Queued \cup
  (IF main = "conn_listener" THEN {sfd} ELSE {}) \cup
  (IF main = "end" THEN {} ELSE {PipeRead, PipeWrite})

\* On every way through start-up, loop and shutdown each open descriptor has an
\* owner that will close it, but for the one that each of four failing calls
\* forgets: connmgr_create_new_conn for the listener, for want of a buffer, or
\* after nl_set_nonblocking has failed, and connmgr_add_new_connections. After
\* any other failure, and on every exit that none of them causes, none is left.
NothingLeaked == Cardinality(open \ Owned) <= lost

\* The server never has more than MAX_CONNECTIONS + 1 connections, its two
\* internal ones and the queued ones included, although the limit is tested for
\* equality only.
WithinLimit == num_active_conns + Len(p_new_conns) <= MaxConnections + 1

\* No wakeup is lost: poll does not sleep while a client waits to be accepted, or
\* after the signal thread has done its work, whenever that was.
NoLostWakeup ==
  main = "poll" /\ (backlog > 0 \/ (g_should_shutdown /\ sig = "done")) => PollIn # {}

\* SIGINT or SIGTERM ends the process, wherever the main thread is and even if
\* it sleeps in poll.
ShutdownEnds == g_should_shutdown ~> Over

\* Of the clients that connect, everyone but those whose descriptor a failing call
\* has lost gets a connection that the event loop polls, unless the server stays
\* full or leaves its loop.
EveryoneServed ==
  \A k \in 1..MaxClients :
    arrived >= k ~> \/ served + lost >= k
                    \/ Full \/ main \in Exiting \/ Over

\* The comment at join_sig_thread: SIGUSR1 makes the signal thread leave its
\* loop, so that main can join it and return.
NeverKilled == main # "killed"
-----------------------------------------------------------------------------
(* The inductive invariant.                                                *)

\* The places where the tables exist and are used side by side, and those where
\* connmgr_destroy_all_conns has run or there was nothing to destroy.
Filled == {"tpool", "listener", "conn_listener", "conn_pipe"} \cup Looping
Emptied == (Exiting \ {"wait", "cleanup_connections"}) \cup {"end", "killed"}

\* The variables of the control. The listener is visited at an index of the tables.
ControlInv ==
  /\ main \in Starting \cup Looping \cup Exiting \cup {"end", "killed"}
  /\ main = "visit" => idx \in 0..num_active_conns
  /\ main = "accept" => idx \in 0..(num_active_conns - 1)
  /\ revents \subseteq {sfd, PipeRead}
  /\ errno \in {"EAGAIN", "other"}
  /\ sig \in {"none", "sigwait", "write", "done"}
  /\ g_should_shutdown \in BOOLEAN /\ sigpipe \in BOOLEAN
  /\ backlog \in 0..arrived /\ arrived \in 0..MaxClients /\ served \in Nat
  /\ faults \in 0..MaxFaults /\ lost \in 0..faults

\* What is open and queued during the start-up.
StartInv ==
  /\ main \in Starting => num_active_conns = 0
  /\ main \in {"pipe", "signals", "connmgr"} => NoTables
  /\ main = "pipe" => open = {}
  /\ main \in {"signals", "connmgr", "tpool", "listener"} => open = {PipeRead, PipeWrite}
  /\ main \in {"conn_listener", "conn_pipe"} => open = {PipeRead, PipeWrite, sfd}
  /\ main \in {"tpool", "listener", "conn_listener"} => p_new_conns = <<>>
  /\ main = "conn_pipe" => p_new_conns = <<sfd>>

\* The tables and the queue at each place of the main thread. What closes is in
\* the tables, the tables never shrink, and connmgr_destroy_all_conns sees every
\* active slot.
TablesInv ==
  /\ open \subseteq FirstFd..LastFd
  /\ TablesTypeOK /\ QueueInv /\ WithinLimit
  /\ main \in Filled \ {"update"} => InStep(FALSE)
  /\ main = "update" => InStep(TRUE)
  /\ main \in Filled => InitialMax <= max_conns
  /\ main \in {"wait", "cleanup_connections"} => num_active_conns <= p_conns.num
  /\ main \in Emptied => Active = {} /\ p_new_conns = <<>>
  /\ closing \subseteq Active \cap open

ServerInv == ControlInv /\ StartInv /\ TablesInv /\ NothingLeaked

\* What the server may rely on: the tables still have the slots that
\* connmgr_init has cleared, or realloc adds memory that is cleared.
Trusted == max_conns <= InitialMax \/ Fresh \subseteq {0}

\* What NoLostWakeup needs besides: the internal connections never close and are
\* polled.
InternalInv ==
  /\ main \in Looping => {sfd, PipeRead} \subseteq Active \cup Queued
  /\ main = "poll" => p_new_conns = <<>>
  /\ closing \cap {sfd, PipeRead} = {}

\* The signal thread is not there before the pipe, and the byte it has written
\* stays in the pipe.
SignalInv ==
  /\ main \in {"pipe", "signals"} => sig = "none"
  /\ g_should_shutdown => sig \in {"write", "done"}
  /\ g_should_shutdown /\ sig = "done" /\ main \in Starting \cup Looping => sigpipe

WakeInv == InternalInv /\ SignalInv
=============================================================================
