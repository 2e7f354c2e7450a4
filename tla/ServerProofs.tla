---------------------------- MODULE ServerProofs ----------------------------
(***************************************************************************)
(* The server's safety properties, for every size of its tables, limit of  *)
(* connections, number of descriptors, of clients and of failing calls.    *)
(***************************************************************************)
EXTENDS Server, ConnMgrProofs

(***************************************************************************)
(* What the theorems need to know of the constants: descriptor 0 is taken  *)
(* when the server starts, and the limit of connections is positive and    *)
(* below the largest size of a table. Nothing is asked of the initial size *)
(* and of the memory that realloc adds: what the server does is claimed as *)
(* long as it is Trusted, and server_grow shows what happens afterwards.   *)
(***************************************************************************)
Settings ==
  /\ FirstFd > 0
  /\ MaxConnections \in 1..(U16Max - 1)

\* The variables of the control that are not Boolean.
Places ==
  /\ main \in Starting \cup Looping \cup Exiting \cup {"end", "killed"}
  /\ main = "visit" => idx \in 0..num_active_conns
  /\ main = "accept" => idx \in 0..(num_active_conns - 1)
  /\ revents \subseteq {sfd, PipeRead}
  /\ errno \in {"EAGAIN", "other"}
  /\ sig \in {"none", "sigwait", "write", "done"}
  /\ backlog \in 0..arrived /\ arrived \in 0..MaxClients /\ served \in Nat
  /\ faults \in 0..MaxFaults /\ lost \in 0..faults

(***************************************************************************)
(* The steps that touch the state of the signal thread.                    *)
(***************************************************************************)
LEMMA SignalSteps ==
  ASSUME [Next]_vars
  PROVE  \/ g_should_shutdown' = g_should_shutdown /\ sigpipe' = sigpipe /\ sig' = sig
         \/ SigReceived \/ SigWakeMain \/ StartSignalThread \/ SigWaitFails
<1> USE DEF Goto, Fault, Loss, loopVars, sigVars, clientVars, faultVars
<1> DEFINE Same == g_should_shutdown' = g_should_shutdown /\ sigpipe' = sigpipe /\ sig' = sig
           Kinds == \/ Same \/ SigReceived \/ SigWakeMain
                    \/ StartSignalThread \/ SigWaitFails
<1>1. StartUp => Kinds
  BY DEF StartUp, MakePipe, StartConnmgr, StartTpool, StartListener,
    CreateListenerConn, CreatePipeConn
<1>2. Round => Kinds
  BY DEF Round, LoopEnds, Reap, UpdateConns, AddConn, AddedAll, PollServer,
    PollReturns, VisitListener, VisitPipe, VisitOther, VisitedAll, Accept, Accepting,
    AcceptedAll, AcceptNoFd, AcceptFull
<1>3. Exit => Kinds
  BY DEF Exit, WaitPool, CleanupConnections, DestroyTpool, DestroyConnmgr,
    TestShutdown, KillSignalThread, JoinSignalThread, ClosePipe
<1>4. CallFails => Kinds
  BY DEF CallFails, StartFails, AddFails, PollFails, VisitFails, AcceptNoBuffer,
    AcceptBlocking, Accepting, AcceptNoContext, AcceptFails
<1>5. Environment => Kinds
  BY DEF Environment, ClientConnects, ConnCloses, PollClient, PollReturns,
    PollBlocks, Ended, vars
<1>6. UNCHANGED vars => Kinds
  BY DEF vars
<1> QED BY Zenon, <1>1, <1>2, <1>3, <1>4, <1>5, <1>6 DEF Next, Main

(***************************************************************************)
(* The variables of the control keep their types and bounds.               *)
(***************************************************************************)
LEMMA ControlKeeps ==
  ASSUME ControlInv, num_active_conns \in Nat, [Next]_vars
  PROVE  ControlInv'
<1> USE DEF Goto, Fault, Loss, loopVars, sigVars, clientVars, faultVars
<1>1. g_should_shutdown' \in BOOLEAN /\ sigpipe' \in BOOLEAN
  <2>1. CASE g_should_shutdown' = g_should_shutdown /\ sigpipe' = sigpipe
    BY Zenon, <2>1 DEF ControlInv
  <2>2. CASE SigReceived
    BY Zenon, <2>2 DEF ControlInv, SigReceived
  <2>3. CASE SigWakeMain
    <3>1. sigpipe' = (PipeRead \in open) /\ g_should_shutdown' = g_should_shutdown
      BY <2>3 DEF SigWakeMain
    <3>2. (PipeRead \in open) \in BOOLEAN
      OBVIOUS
    <3> QED BY Zenon, <3>1, <3>2 DEF ControlInv
  <2>4. CASE StartSignalThread
    BY Zenon, <2>4 DEF ControlInv, StartSignalThread
  <2>5. CASE SigWaitFails
    BY Zenon, <2>5 DEF ControlInv, SigWaitFails
  <2> QED BY Zenon, <2>1, <2>2, <2>3, <2>4, <2>5, SignalSteps
<1>p. Places
  BY Zenon DEF ControlInv, Places
<1>c. FirstFd \in Nat /\ MaxClients \in Nat /\ MaxFaults \in Nat
  BY ServerAssumption
<1>q. PollIn \subseteq {sfd, PipeRead}
  BY Zenon DEF PollIn
<1>2. StartUp => Places'
  BY <1>p, <1>c DEF StartUp, MakePipe, StartSignalThread, StartConnmgr, StartTpool,
    StartListener, CreateListenerConn, CreatePipeConn, Places, Starting, Looping, Exiting
<1>3. Round => Places'
  <2>1. LoopEnds \/ (\E gone \in SUBSET closing : Reap(gone)) \/ UpdateConns
          \/ (\E v \in Fresh : AddConn(v)) \/ AddedAll => Places'
    BY <1>p, <1>c DEF LoopEnds, Reap, UpdateConns, AddConn, AddedAll, Places, Starting,
      Looping, Exiting
  <2>2. PollReturns => Places'
    BY <1>p, <1>c, <1>q DEF PollReturns, connVars, Places, Starting, Looping, Exiting
  <2>3. VisitListener \/ VisitPipe \/ VisitOther \/ VisitedAll => Places'
    BY <1>p, <1>c DEF VisitListener, VisitPipe, VisitOther, VisitedAll, connVars, Places,
      Starting, Looping, Exiting
  <2>4. Accept => Places'
    BY <1>p, <1>c DEF Accept, Accepting, CreateNewConn, Places, Starting, Looping, Exiting
  <2>5. AcceptedAll \/ AcceptNoFd \/ AcceptFull => Places'
    BY <1>p, <1>c DEF AcceptedAll, AcceptNoFd, AcceptFull, connVars, Places, Starting,
      Looping, Exiting
  <2> QED BY Zenon, <2>1, <2>2, <2>3, <2>4, <2>5 DEF Round, PollServer
<1>4. Exit => Places'
  BY <1>p, <1>c DEF Exit, WaitPool, CleanupConnections, DestroyTpool, DestroyConnmgr,
      TestShutdown, KillSignalThread, JoinSignalThread, ClosePipe, Places, Starting,
      Looping, Exiting
<1>5. CallFails => Places'
  <2>1. StartFails \/ (\E v \in Fresh : AddFails(v)) \/ PollFails \/ VisitFails => Places'
    BY <1>p, <1>c DEF StartFails, AddFails, PollFails, VisitFails, Places, Starting,
      Looping, Exiting
  <2>2. AcceptNoBuffer \/ AcceptBlocking \/ AcceptNoContext \/ AcceptFails => Places'
    BY <1>p, <1>c DEF AcceptNoBuffer, AcceptBlocking, Accepting, AcceptNoContext,
      AcceptFails, connVars, Places, Starting, Looping, Exiting
  <2> QED BY Zenon, <2>1, <2>2 DEF CallFails
<1>6. SigWakeMain => Places'
  <2>1. SigWakeMain => /\ sig' = "done"
                       /\ UNCHANGED <<connVars, main, loopVars, clientVars, faultVars>>
    BY Zenon DEF SigWakeMain
  <2> QED BY <1>p, <2>1 DEF connVars, Places
<1>7. Environment => Places'
  <2>1. PollReturns => Places'
    BY <1>p, <1>c, <1>q DEF PollReturns, connVars, Places, Starting, Looping, Exiting
  <2>2. PollBlocks \/ Ended => Places'
    BY <1>p DEF PollBlocks, Ended, vars, connVars, Places
  <2>3. SigReceived \/ SigWaitFails => Places'
    <3>1. SigReceived => /\ sig' = "write"
                         /\ UNCHANGED <<connVars, main, loopVars, clientVars, faultVars>>
      BY Zenon DEF SigReceived
    <3>2. SigWaitFails => /\ sig' = "done" /\ Fault
                          /\ UNCHANGED <<connVars, main, loopVars, clientVars>>
      BY Zenon DEF SigWaitFails
    <3> QED BY <1>p, <1>c, <3>1, <3>2 DEF connVars, Places
  <2>4. ClientConnects \/ (\E fd \in open : ConnCloses(fd)) => Places'
    BY <1>p, <1>c DEF ClientConnects, ConnCloses, connVars, Places
  <2> QED BY Zenon, <2>1, <2>2, <2>3, <2>4 DEF Environment, PollClient
<1>8. UNCHANGED vars => Places'
  BY <1>p DEF vars, connVars, Places
<1>9. Places'
  BY Zenon, <1>2, <1>3, <1>4, <1>5, <1>6, <1>7, <1>8 DEF Next, Main
<1> QED BY Zenon, <1>1, <1>9 DEF ControlInv, Places
-----------------------------------------------------------------------------
(***************************************************************************)
(* What the descriptors and the tables are before and after a step.        *)
(***************************************************************************)
LEMMA ServerDescriptors ==
  ASSUME Settings
  PROVE  /\ TablesInv => Descriptors
         /\ TablesInv' => Descriptors'
<1>1. \A s : s \subseteq FirstFd..LastFd => s \subseteq Nat \ {0}
  BY ServerAssumption DEF Settings
<1> QED BY Zenon, <1>1 DEF TablesInv, Descriptors

\* Empty tables have no connections, and an empty queue none either.
LEMMA NoConnections ==
  /\ num_active_conns = 0 => Active = {}
  /\ num_active_conns' = 0 => Active' = {}
  /\ p_new_conns = <<>> => Queued = {} /\ QueueInv
  /\ p_new_conns' = <<>> => Queued' = {} /\ QueueInv'
<1>1. 0..(0 - 1) = {} /\ 1..0 = {}
  OBVIOUS
<1>2. /\ num_active_conns = 0 => Active = {}
      /\ num_active_conns' = 0 => Active' = {}
  BY <1>1 DEF Active
<1>3. /\ p_new_conns = <<>> => Queued = {}
      /\ p_new_conns' = <<>> => Queued' = {}
  BY <1>1 DEF Queued
<1>4. \A s : <<>> \in Seq(s)
  OBVIOUS
<1>5. Len(<<>>) = 0
  OBVIOUS
<1>6. p_new_conns = <<>> => QueueInv
  BY <1>1, <1>3, <1>4, <1>5 DEF QueueInv
<1>7. p_new_conns' = <<>> => QueueInv'
  BY <1>1, <1>3, <1>4, <1>5 DEF QueueInv
<1> QED BY <1>2, <1>3, <1>6, <1>7

\* What InStep says of the tables' types holds after a step, too.
LEMMA InStepNext ==
  ASSUME NEW CONSTANT holes
  PROVE  InStep(holes)' /\ Descriptors' =>
           /\ TablesTypeOK' /\ num_active_conns' <= p_conns'.num
           /\ Active' \subseteq open'
<1>1. InStep(holes) /\ Descriptors =>
        /\ TablesTypeOK /\ num_active_conns <= p_conns.num
        /\ Active \subseteq open
  BY Zenon, InStepTypes, InStepActive
<1>2. (InStep(holes) /\ Descriptors =>
         /\ TablesTypeOK /\ num_active_conns <= p_conns.num
         /\ Active \subseteq open)'
  BY <1>1, PTL
<1> QED BY Zenon, <1>2

\* A step that assigns none of the tables leaves what is said of them alone.
LEMMA TablesUnchanged ==
  ASSUME UNCHANGED <<p_conns, p_pfds, max_conns, num_active_conns>>
  PROVE  /\ Active' = Active
         /\ TablesTypeOK => TablesTypeOK'
         /\ \A holes : open' = open /\ InStep(holes) => InStep(holes)'
<1>1. Active' = Active
  BY Zenon DEF Active
<1>2. TablesTypeOK => TablesTypeOK'
  BY Zenon DEF TablesTypeOK
<1>3. ASSUME NEW holes, open' = open, InStep(holes)  PROVE InStep(holes)'
  BY Zenon, <1>3 DEF InStep
<1> QED BY Zenon, <1>1, <1>2, <1>3

\* And one that does not assign the queue leaves the queue alone.
LEMMA QueueUnchanged ==
  ASSUME p_new_conns' = p_new_conns
  PROVE  /\ Queued' = Queued
         /\ open' = open /\ Active' = Active /\ QueueInv => QueueInv'
<1>1. Queued' = Queued
  BY Zenon DEF Queued
<1>2. ASSUME open' = open, Active' = Active, QueueInv  PROVE QueueInv'
  BY Zenon, <1>1, <1>2 DEF QueueInv
<1> QED BY Zenon, <1>1, <1>2
-----------------------------------------------------------------------------
(***************************************************************************)
(* What a step may leak: nothing, or one descriptor if a call has failed.  *)
(***************************************************************************)
LEMMA LeaksNothing ==
  ASSUME NothingLeaked, open \subseteq FirstFd..LastFd, lost \in Nat,
         lost' \in Nat, lost <= lost', open' \ Owned' \subseteq open \ Owned
  PROVE  NothingLeaked'
<1> DEFINE A == open \ Owned
           B == open' \ Owned'
<1>1. IsFiniteSet(A)
  <2>1. IsFiniteSet(FirstFd..LastFd)
    BY ServerAssumption, FS_Interval
  <2> QED BY <2>1, FS_Subset
<1>2. IsFiniteSet(B) /\ Cardinality(B) <= Cardinality(A)
  BY <1>1, FS_Subset
<1>3. Cardinality(A) <= lost /\ Cardinality(A) \in Nat /\ Cardinality(B) \in Nat
  BY <1>1, <1>2, FS_CardinalityType DEF NothingLeaked
<1>4. Cardinality(B) <= lost'
  <2> HIDE DEF A, B
  <2> QED BY <1>2, <1>3
<1> QED BY <1>4 DEF NothingLeaked

\* The call that fails pays for the descriptor fd.
LEMMA LeaksOne ==
  ASSUME NothingLeaked, open \subseteq FirstFd..LastFd, lost \in Nat,
         lost' = lost + 1, NEW fd, open' \ Owned' \subseteq (open \ Owned) \cup {fd}
  PROVE  NothingLeaked'
<1> DEFINE A == open \ Owned
           B == open' \ Owned'
<1>1. IsFiniteSet(A)
  <2>1. IsFiniteSet(FirstFd..LastFd)
    BY ServerAssumption, FS_Interval
  <2> QED BY <2>1, FS_Subset
<1>2. IsFiniteSet(A \cup {fd}) /\ Cardinality(A) \in Nat
      /\ (Cardinality(A \cup {fd}) = Cardinality(A) \/ Cardinality(A \cup {fd}) = Cardinality(A) + 1)
  <2> HIDE DEF A
  <2> QED BY <1>1, FS_AddElement, FS_CardinalityType
<1>3. IsFiniteSet(B) /\ Cardinality(B) <= Cardinality(A \cup {fd}) /\ Cardinality(B) \in Nat
  BY <1>2, FS_Subset, FS_CardinalityType
<1>4. Cardinality(A) <= lost
  BY DEF NothingLeaked
<1>5. Cardinality(B) <= lost'
  <2> HIDE DEF A, B
  <2> QED BY <1>2, <1>3, <1>4
<1> QED BY <1>5 DEF NothingLeaked
-----------------------------------------------------------------------------
(***************************************************************************)
(* The part of the invariant that is about the tables and descriptors.     *)
(***************************************************************************)
Tables == StartInv /\ TablesInv /\ NothingLeaked

(***************************************************************************)
(* The steps that leave tables, queue and descriptors alone, wherever they *)
(* are taken: the moves of the main thread between places that ask for the *)
(* same of them, and all steps of the signal thread and of the clients.    *)
(***************************************************************************)
LEMMA QuietKeeps ==
  ASSUME Settings, ServerInv, UNCHANGED <<connVars, open>>, closing' \subseteq Active \cap open,
         lost' \in Nat, lost <= lost',
         \/ main' = main
         \/ /\ main \in Looping \ {"update"}
            /\ main' \in (Looping \ {"update"}) \cup {"wait", "cleanup_connections"}
         \/ main = "wait" /\ main' = "cleanup_connections"
         \/ main \in Emptied \ {"end"} /\ main' \in Emptied \ {"end"}
         \/ main = "signals" /\ main' = "connmgr"
         \/ main = "tpool" /\ main' = "listener"
  PROVE  Tables'
<1>1. ControlInv /\ StartInv /\ TablesInv /\ NothingLeaked
  BY DEF ServerInv
<1>2. /\ UNCHANGED <<p_conns, p_pfds, max_conns, num_active_conns>>
      /\ p_new_conns' = p_new_conns /\ open' = open
  BY DEF connVars
<1>3. /\ Active' = Active /\ Queued' = Queued
      /\ TablesTypeOK' /\ QueueInv'
      /\ InStep(FALSE) => InStep(FALSE)'
      /\ InStep(TRUE) => InStep(TRUE)'
  BY Zenon, <1>1, <1>2, TablesUnchanged, QueueUnchanged DEF TablesInv
<1>4. /\ WithinLimit'
      /\ NoTables => NoTables'
  BY Zenon, <1>1, <1>2 DEF TablesInv, WithinLimit, NoTables
<1>5. /\ main \in Looping => num_active_conns <= p_conns.num \/ main = "update"
  <2>1. Descriptors
    BY <1>1, ServerDescriptors
  <2>2. main \in Looping \ {"update"} => InStep(FALSE)
    BY <1>1 DEF TablesInv, Filled
  <2> QED BY <2>1, <2>2, InStepTypes
<1>6. StartInv'
  BY <1>1, <1>2, <1>4 DEF StartInv, Starting, Looping, Exiting, Emptied
<1>7. TablesInv'
  BY <1>1, <1>2, <1>3, <1>4, <1>5 DEF TablesInv, Filled, Starting, Looping, Exiting, Emptied
<1>8. NothingLeaked'
  <2>1. Owned' = Owned
    BY <1>3 DEF Owned, Looping, Exiting, Emptied
  <2>2. open' \ Owned' \subseteq open \ Owned /\ lost \in Nat /\ open \subseteq FirstFd..LastFd
    BY <1>1, <1>2, <2>1, ServerAssumption DEF ControlInv, TablesInv
  <2> QED BY <1>1, <2>2, LeaksNothing
<1> QED BY <1>6, <1>7, <1>8 DEF Tables
-----------------------------------------------------------------------------
(***************************************************************************)
(* Start-up.                                                               *)
(***************************************************************************)
\* pipe is the first call that opens descriptors.
LEMMA MakePipeKeeps ==
  ASSUME Settings, ServerInv, MakePipe
  PROVE  Tables'
<1>1. ControlInv /\ StartInv /\ TablesInv /\ NothingLeaked
  BY DEF ServerInv
<1>2. /\ main = "pipe" /\ main' = "signals" /\ open' = {PipeRead, PipeWrite} /\ open = {}
      /\ UNCHANGED <<p_conns, p_pfds, max_conns, num_active_conns>>
      /\ p_new_conns' = p_new_conns /\ closing' = closing /\ lost' = lost
  BY <1>1 DEF MakePipe, Goto, connVars, clientVars, faultVars, StartInv
<1>3. NoTables /\ NoTables'
  BY Zenon, <1>1, <1>2 DEF StartInv, NoTables
<1>4. num_active_conns = 0 /\ p_new_conns = <<>> /\ p_new_conns' = <<>>
  BY <1>2, <1>3 DEF NoTables
<1>5. TablesTypeOK' /\ Active = {} /\ Active' = {} /\ Queued' = {} /\ QueueInv'
  BY Zenon, <1>1, <1>2, <1>4, TablesUnchanged, NoConnections DEF TablesInv
<1>6. WithinLimit'
  BY Zenon, <1>1, <1>2 DEF TablesInv, WithinLimit
<1>7. StartInv'
  BY <1>2, <1>3, <1>4 DEF StartInv, Starting
<1>8. TablesInv'
  <2>1. open' \subseteq FirstFd..LastFd
    BY <1>2, ServerAssumption DEF PipeRead, PipeWrite
  <2>2. closing' \subseteq Active' \cap open'
    BY <1>1, <1>2 DEF TablesInv
  <2> QED BY <1>2, <1>5, <1>6, <2>1, <2>2 DEF TablesInv, Filled, Looping, Emptied, Exiting
<1>9. NothingLeaked'
  <2>1. open' \ Owned' \subseteq open \ Owned
    BY <1>2 DEF Owned
  <2> QED BY <1>1, <1>2, <2>1, LeaksNothing, ServerAssumption DEF ControlInv, TablesInv
<1> QED BY <1>7, <1>8, <1>9 DEF Tables

\* connmgr_init makes tables without connections, all slots unused.
LEMMA StartConnmgrKeeps ==
  ASSUME Settings, ServerInv, StartConnmgr
  PROVE  Tables'
<1>1. ControlInv /\ StartInv /\ TablesInv /\ NothingLeaked
  BY DEF ServerInv
<1>2. /\ main = "connmgr" /\ main' = "tpool" /\ open' = open
      /\ open = {PipeRead, PipeWrite}
      /\ p_conns' = EzarrInit(InitialMax, NULL) /\ p_pfds' = Buffer(InitialMax, Fd0)
      /\ p_new_conns' = <<>> /\ max_conns' = InitialMax /\ num_active_conns' = 0
      /\ closing' = closing /\ lost' = lost
  BY <1>1 DEF StartConnmgr, ConnmgrInit, Goto, clientVars, faultVars, StartInv
<1>3. InStep(FALSE)'
  <2>1. /\ InitialMax \in 1..U16Max /\ InitialMax \in Nat
    BY ConnMgrAssumption, EzArrayAssumption
  <2> DEFINE b == [i \in 0..(InitialMax - 1) |-> NULL]
  <2>2. p_conns' = [buf |-> b, num |-> 0, max |-> InitialMax]
    BY <1>2 DEF EzarrInit, Buffer
  <2>3. p_pfds' = [i \in 0..(InitialMax - 1) |-> Fd0]
    BY <1>2 DEF Buffer
  <2>4. p_conns' \in [buf : [0..(InitialMax - 1) -> open' \cup {NULL}],
                      num : {0}, max : {InitialMax}]
    BY <2>2
  <2>5. p_pfds' \in [0..(InitialMax - 1) -> open' \cup {Fd0}]
    BY <2>3
  <2>6. \A i \in 0..(InitialMax - 1) : p_conns'.buf[i] = NULL /\ p_pfds'[i] = Fd0 /\ i >= 0
    BY <2>2, <2>3
  <2> QED BY <1>2, <2>1, <2>4, <2>5, <2>6 DEF InStep
<1>4. num_active_conns = 0
  BY <1>1, <1>2 DEF StartInv, Starting
<1>5. Active = {} /\ Active' = {} /\ Queued' = {} /\ QueueInv'
  BY Zenon, <1>2, <1>4, NoConnections
<1>6. WithinLimit'
  <2>1. Len(p_new_conns') = 0
    BY <1>2
  <2> QED BY <1>2, <2>1, ServerAssumption DEF WithinLimit
<1>7. open' \subseteq FirstFd..LastFd /\ Descriptors'
  <2>1. open' \subseteq FirstFd..LastFd
    BY Zenon, <1>1, <1>2 DEF TablesInv
  <2> QED BY <2>1, ServerAssumption DEF Settings, Descriptors
<1>8. TablesTypeOK'
  BY <1>3, <1>7, InStepNext
<1>9. StartInv'
  BY <1>2 DEF StartInv, Starting
<1>10. TablesInv'
  <2>1. closing' \subseteq Active' \cap open'
    BY <1>1, <1>2, <1>5 DEF TablesInv
  <2>2. InitialMax <= max_conns'
    BY <1>2, ConnMgrAssumption, EzArrayAssumption
  <2> QED BY <1>2, <1>3, <1>5, <1>6, <1>7, <1>8, <2>1, <2>2
       DEF TablesInv, Filled, Looping, Emptied, Exiting
<1>11. NothingLeaked'
  <2>1. open' \ Owned' \subseteq open \ Owned
    BY <1>2 DEF Owned
  <2> QED BY <1>1, <1>2, <2>1, LeaksNothing, ServerAssumption DEF ControlInv, TablesInv
<1> QED BY <1>9, <1>10, <1>11 DEF Tables

\* The listening socket belongs to nobody until its connection is created.
LEMMA StartListenerKeeps ==
  ASSUME Settings, ServerInv, StartListener
  PROVE  Tables'
<1>1. ControlInv /\ StartInv /\ TablesInv /\ NothingLeaked
  BY DEF ServerInv
<1>2. /\ main = "listener" /\ main' = "conn_listener" /\ open' = open \cup {sfd}
      /\ open = {PipeRead, PipeWrite}
      /\ UNCHANGED <<p_conns, p_pfds, max_conns, num_active_conns>>
      /\ p_new_conns' = p_new_conns /\ p_new_conns = <<>> /\ num_active_conns = 0
      /\ closing' = closing /\ lost' = lost
  BY <1>1 DEF StartListener, Goto, connVars, clientVars, faultVars, StartInv, Starting
<1>3. InStep(FALSE)'
  <2>1. InStep(FALSE)
    BY <1>1, <1>2 DEF TablesInv, Filled, Looping
  <2> QED BY <1>2, <2>1, TablesStay
<1>4. TablesTypeOK' /\ Active = {} /\ Active' = {} /\ Queued' = {} /\ QueueInv'
  BY Zenon, <1>1, <1>2, TablesUnchanged, NoConnections DEF TablesInv
<1>5. WithinLimit'
  BY Zenon, <1>1, <1>2 DEF TablesInv, WithinLimit
<1>6. StartInv'
  BY <1>2 DEF StartInv, Starting
<1>7. TablesInv'
  <2>1. open' \subseteq FirstFd..LastFd
    BY <1>2, ServerAssumption DEF PipeRead, PipeWrite, sfd
  <2>2. closing' \subseteq Active' \cap open'
    BY <1>1, <1>2, <1>4 DEF TablesInv
  <2>3. InitialMax <= max_conns'
    BY <1>1, <1>2 DEF TablesInv, Filled
  <2> QED BY <1>2, <1>3, <1>4, <1>5, <2>1, <2>2, <2>3
       DEF TablesInv, Filled, Looping, Emptied, Exiting
<1>8. NothingLeaked'
  <2>1. open' \ Owned' \subseteq open \ Owned
    BY <1>2 DEF Owned
  <2> QED BY <1>1, <1>2, <2>1, LeaksNothing, ServerAssumption DEF ControlInv, TablesInv
<1> QED BY <1>6, <1>7, <1>8 DEF Tables

\* The two internal connections are queued, first the listener and then the pipe.
LEMMA CreateInternalKeeps ==
  ASSUME Settings, ServerInv, CreateListenerConn \/ CreatePipeConn
  PROVE  /\ Tables' /\ closing' = closing
         /\ CreatePipeConn => {sfd, PipeRead} \subseteq Active' \cup Queued'
<1> DEFINE fd == IF main = "conn_listener" THEN sfd ELSE PipeRead
<1>1. ControlInv /\ StartInv /\ TablesInv /\ NothingLeaked
  BY DEF ServerInv
<1>2. /\ \/ main = "conn_listener" /\ main' = "conn_pipe" /\ p_new_conns = <<>>
         \/ main = "conn_pipe" /\ main' = "loop" /\ p_new_conns = <<sfd>>
      /\ open' = open /\ open = {PipeRead, PipeWrite, sfd} /\ num_active_conns = 0
      /\ CreateNewConn(fd)
      /\ closing' = closing /\ lost' = lost
  BY <1>1 DEF CreateListenerConn, CreatePipeConn, Goto, clientVars, faultVars, StartInv, Starting
<1>3. /\ UNCHANGED <<p_conns, p_pfds, max_conns, num_active_conns>>
      /\ p_new_conns' = Append(p_new_conns, fd)
  BY <1>2 DEF CreateNewConn
<1>4. InStep(FALSE)'
  <2>1. InStep(FALSE)
    BY <1>1, <1>2 DEF TablesInv, Filled, Looping
  <2> QED BY <1>2, <1>3, <2>1, TablesStay
<1>5. TablesTypeOK' /\ Active = {}
  BY Zenon, <1>1, <1>2, <1>3, TablesUnchanged, NoConnections DEF TablesInv
<1>6. /\ main = "conn_listener" => Queued = {}
      /\ main = "conn_pipe" => Queued = {sfd}
  <2>1. p_new_conns = <<sfd>> => Queued = {sfd}
    BY DEF Queued
  <2> QED BY <1>2, <2>1, NoConnections
<1>7. fd \notin Active \cup Queued /\ fd \in open'
  BY <1>2, <1>5, <1>6, ServerAssumption DEF PipeRead, sfd
<1>8. /\ QueueInv' /\ Active' = Active /\ Queued' = Queued \cup {fd}
  <2>1. QueueInv
    BY <1>1 DEF TablesInv
  <2> HIDE DEF fd
  <2> QED BY <1>2, <1>7, <2>1, CreateKeeps
<1>9. WithinLimit'
  <2>1. p_new_conns \in Seq({sfd}) /\ Len(p_new_conns) <= 1
    <3>1. \A x : /\ <<>> \in Seq({x}) /\ Len(<<>>) <= 1
                 /\ <<x>> \in Seq({x}) /\ Len(<<x>>) <= 1
      OBVIOUS
    <3> QED BY Zenon, <1>2, <3>1
  <2>2. Len(p_new_conns') = Len(p_new_conns) + 1 /\ Len(p_new_conns) \in Nat
    <3> HIDE DEF fd
    <3> QED BY <1>3, <2>1
  <2>3. num_active_conns' = 0
    BY <1>2, <1>3
  <2> QED BY <2>1, <2>2, <2>3 DEF WithinLimit, Settings
<1>10. StartInv'
  <2>1. main = "conn_listener" => p_new_conns' = <<sfd>>
    BY <1>2, <1>3
  <2> QED BY <1>2, <1>3, <2>1 DEF StartInv, Starting
<1>11. TablesInv'
  <2>1. open' \subseteq FirstFd..LastFd
    BY Zenon, <1>1, <1>2 DEF TablesInv
  <2>2. closing' \subseteq Active' \cap open'
    BY <1>1, <1>2, <1>8 DEF TablesInv
  <2>3. InitialMax <= max_conns'
    BY <1>1, <1>2, <1>3 DEF TablesInv, Filled
  <2> QED BY <1>2, <1>4, <1>5, <1>8, <1>9, <2>1, <2>2, <2>3
       DEF TablesInv, Filled, Looping, Emptied, Exiting
<1>12. NothingLeaked'
  <2>1. open' \ Owned' \subseteq open \ Owned
    BY <1>2, <1>6, <1>8 DEF Owned
  <2> QED BY <1>1, <1>2, <2>1, LeaksNothing, ServerAssumption DEF ControlInv, TablesInv
<1>13. CreatePipeConn => {sfd, PipeRead} \subseteq Active' \cup Queued'
  BY <1>6, <1>8 DEF CreatePipeConn, Goto
<1> QED BY <1>2, <1>10, <1>11, <1>12, <1>13 DEF Tables

\* A stage that fails: only the listening socket, whose connection was not
\* created, may stay open.
LEMMA StartFailsKeeps ==
  ASSUME Settings, ServerInv, StartFails
  PROVE  Tables'
<1>1. ControlInv /\ StartInv /\ TablesInv /\ NothingLeaked
  BY DEF ServerInv
<1>2. /\ \/ main = "pipe" /\ main' = "end"
         \/ main = "signals" /\ main' = "close_pipefds"
         \/ main = "connmgr" /\ main' = "join_sig_thread"
         \/ main = "tpool" /\ main' = "destroy_connmgr"
         \/ main = "listener" /\ main' = "destroy_tpool"
         \/ main = "conn_listener" /\ main' = "cleanup_connections"
         \/ main = "conn_pipe" /\ main' = "cleanup_connections"
      /\ UNCHANGED <<p_conns, p_pfds, max_conns, num_active_conns>>
      /\ p_new_conns' = p_new_conns /\ open' = open /\ closing' = closing
      /\ lost' = IF main = "conn_listener" THEN lost + 1 ELSE lost
  BY DEF StartFails, Goto, Fault, Loss, connVars, clientVars
<1>3. /\ num_active_conns = 0
      /\ main \notin {"conn_listener", "conn_pipe"} => p_new_conns = <<>>
  BY <1>1, <1>2 DEF StartInv, Starting, NoTables
<1>4. /\ TablesTypeOK' /\ QueueInv' /\ Active = {} /\ Active' = Active /\ Queued' = Queued
  BY Zenon, <1>1, <1>2, <1>3, TablesUnchanged, QueueUnchanged, NoConnections DEF TablesInv
<1>5. WithinLimit'
  BY Zenon, <1>1, <1>2 DEF TablesInv, WithinLimit
<1>6. main' = "cleanup_connections" => num_active_conns' <= p_conns'.num
  <2>1. 0 <= p_conns.num
    BY <1>1 DEF TablesInv, TablesTypeOK
  <2> QED BY <1>2, <1>3, <2>1
<1>7. StartInv'
  BY <1>2 DEF StartInv, Starting
<1>8. TablesInv'
  BY <1>1, <1>2, <1>3, <1>4, <1>5, <1>6 DEF TablesInv, Filled, Looping, Emptied, Exiting
<1>9. NothingLeaked'
  <2>1. lost \in Nat /\ open \subseteq FirstFd..LastFd
    BY <1>1, ServerAssumption DEF ControlInv, TablesInv
  <2>2. CASE main = "conn_listener"
    <3>1. open' \ Owned' \subseteq (open \ Owned) \cup {sfd}
      BY <1>1, <1>2, <1>4, <2>2 DEF Owned, StartInv
    <3>2. lost' = lost + 1
      BY <1>2, <2>2
    <3> QED BY Zenon, <1>1, <2>1, <3>1, <3>2, LeaksOne
  <2>3. CASE main # "conn_listener"
    <3>1. open' \ Owned' \subseteq open \ Owned
      BY <1>1, <1>2, <1>4, <2>3 DEF Owned, StartInv
    <3>2. lost' \in Nat /\ lost <= lost'
      BY <1>2, <2>1, <2>3
    <3> QED BY Zenon, <1>1, <2>1, <3>1, <3>2, LeaksNothing
  <2> QED BY <2>2, <2>3
<1> QED BY <1>7, <1>8, <1>9 DEF Tables
-----------------------------------------------------------------------------
(***************************************************************************)
(* The event loop.                                                         *)
(***************************************************************************)
\* What is destroyed was active, so its descriptor had this owner only.
LEMMA ReapKeeps ==
  ASSUME Settings, ServerInv, NEW gone \in SUBSET closing, Reap(gone)
  PROVE  Tables' /\ Active' = Active \ gone /\ Queued' = Queued
<1>1. ControlInv /\ StartInv /\ TablesInv /\ NothingLeaked
  BY DEF ServerInv
<1>2. /\ main = "loop" /\ main' = "update" /\ DestroyConns(gone)
      /\ closing' = closing \ gone /\ lost' = lost
  BY Zenon DEF Reap, Goto, faultVars
<1>3. /\ InStep(FALSE) /\ QueueInv /\ Descriptors /\ gone \subseteq Active
      /\ closing \subseteq Active \cap open
  BY <1>1, <1>2, ServerDescriptors DEF TablesInv, Filled, Looping
<1>4. InStep(TRUE)' /\ QueueInv' /\ Descriptors' /\ Active' = Active \ gone
  BY Zenon, <1>2, <1>3, DestroyKeeps
<1>5. /\ p_new_conns' = p_new_conns /\ num_active_conns' = num_active_conns
      /\ open' = open \ gone
  BY <1>2 DEF DestroyConns
<1>6. TablesTypeOK' /\ Queued' = Queued
  BY Zenon, <1>4, <1>5, InStepNext, QueueUnchanged
<1>7. WithinLimit'
  BY Zenon, <1>1, <1>5 DEF TablesInv, WithinLimit
<1>8. StartInv'
  BY <1>2 DEF StartInv, Starting
<1>9. TablesInv'
  <2>1. InitialMax <= max_conns'
    BY <1>1, <1>2 DEF TablesInv, Filled, Looping, DestroyConns
  <2> QED BY <1>1, <1>2, <1>3, <1>4, <1>5, <1>6, <1>7, <2>1
       DEF TablesInv, Filled, Looping, Emptied, Exiting
<1>10. NothingLeaked'
  <2>1. open' \ Owned' \subseteq open \ Owned
    BY <1>2, <1>4, <1>5, <1>6 DEF Owned
  <2> QED BY <1>1, <1>2, <2>1, LeaksNothing, ServerAssumption DEF ControlInv, TablesInv
<1> QED BY Zenon, <1>4, <1>6, <1>8, <1>9, <1>10 DEF Tables

\* The compaction closes the holes and no descriptor.
LEMMA UpdateConnsKeeps ==
  ASSUME Settings, ServerInv, UpdateConns
  PROVE  Tables' /\ Active' = Active /\ Queued' = Queued
<1>1. ControlInv /\ StartInv /\ TablesInv /\ NothingLeaked
  BY DEF ServerInv
<1>2. /\ main = "update" /\ main' = "add" /\ RemoveClosed
      /\ closing' = closing /\ lost' = lost
  BY DEF UpdateConns, Goto, clientVars, faultVars
<1>3. InStep(TRUE) /\ QueueInv /\ Descriptors
  BY <1>1, <1>2, ServerDescriptors DEF TablesInv
<1>4. /\ InStep(FALSE)' /\ QueueInv' /\ Descriptors'
      /\ Active' = Active /\ num_active_conns' <= num_active_conns
  BY Zenon, <1>2, <1>3, RemoveKeeps
<1>5. p_new_conns' = p_new_conns /\ open' = open
  BY <1>2 DEF RemoveClosed
<1>6. TablesTypeOK' /\ Queued' = Queued
  BY Zenon, <1>4, <1>5, InStepNext, QueueUnchanged
<1>7. WithinLimit'
  <2>1. /\ num_active_conns \in Nat /\ num_active_conns' \in Nat
        /\ Len(p_new_conns) \in Nat /\ Len(p_new_conns') = Len(p_new_conns)
    BY <1>1, <1>3, <1>5, <1>6 DEF TablesInv, TablesTypeOK, QueueInv
  <2>2. num_active_conns + Len(p_new_conns) <= MaxConnections + 1
    BY <1>1 DEF TablesInv, WithinLimit
  <2>3. num_active_conns' + Len(p_new_conns') <= MaxConnections + 1
    BY <1>4, <2>1, <2>2, ServerAssumption
  <2> QED BY <2>3 DEF WithinLimit
<1>8. StartInv'
  BY <1>2 DEF StartInv, Starting
<1>9. TablesInv'
  <2>1. InitialMax <= max_conns'
    BY <1>1, <1>2 DEF TablesInv, Filled, Looping, RemoveClosed
  <2> QED BY <1>1, <1>2, <1>4, <1>5, <1>6, <1>7, <2>1
       DEF TablesInv, Filled, Looping, Emptied, Exiting
<1>10. NothingLeaked'
  <2>1. open' \ Owned' \subseteq open \ Owned
    BY <1>2, <1>4, <1>5, <1>6 DEF Owned
  <2> QED BY <1>1, <1>2, <2>1, LeaksNothing, ServerAssumption DEF ControlInv, TablesInv
<1> QED BY Zenon, <1>4, <1>6, <1>8, <1>9, <1>10 DEF Tables

\* Memory that realloc does not add is not looked at.
LEMMA RoomIsEnough ==
  ASSUME InStep(FALSE), num_active_conns # max_conns, NEW v, AddNew(v)
  PROVE  AddNew(0)
<1>1. p_conns.num = num_active_conns /\ p_conns.max = max_conns
  BY DEF InStep
<1>2. \A p : EzarrPush(p_conns, Head(p_new_conns), p)
               = EzarrPush(p_conns, Head(p_new_conns), Pointer(v))
  BY <1>1 DEF EzarrPush
<1>3. AddToPollfd(Head(p_new_conns), 0)
  BY DEF AddNew, AddToPollfd
<1>4. Pushed(Pointer(0))
  BY Zenon, <1>2 DEF AddNew, Pushed
<1> QED BY Zenon, <1>3, <1>4 DEF AddNew

\* Realloc adds none that counts, or it is cleared.
LEMMA RoomForAll ==
  ASSUME Trusted', NEW v \in Fresh, AddNew(v), InStep(FALSE), num_active_conns < U16Max,
         InitialMax <= max_conns
  PROVE  v = 0 \/ num_active_conns # max_conns
<1> SUFFICES ASSUME num_active_conns = max_conns, max_conns' <= InitialMax  PROVE FALSE
  BY DEF Trusted
<1>1. p_conns.num = max_conns /\ p_conns.max = max_conns /\ max_conns \in 1..(U16Max - 1)
  BY EzArrayAssumption DEF InStep
<1>2. max_conns' = NewMax(max_conns)
  BY <1>1 DEF AddNew, Pushed, EzarrPush
<1>3. NewMax(max_conns) \in (max_conns + 1)..U16Max
  BY <1>1, NewMaxGrows
<1> QED BY <1>1, <1>2, <1>3, ConnMgrAssumption, EzArrayAssumption

\* A connection moves from the queue to the tables.
LEMMA AddConnKeeps ==
  ASSUME Settings, ServerInv, Trusted', NEW v \in Fresh, AddConn(v)
  PROVE  Tables' /\ Active' \cup Queued' = Active \cup Queued
<1>1. ControlInv /\ StartInv /\ TablesInv /\ NothingLeaked
  BY DEF ServerInv
<1>2. /\ main = "add" /\ main' = "add" /\ AddNew(v) /\ open' = open
      /\ closing' = closing /\ lost' = lost
  BY DEF AddConn, Goto, faultVars, AddNew, Pushed
<1>3. InStep(FALSE) /\ QueueInv /\ Descriptors
  BY <1>1, <1>2, ServerDescriptors DEF TablesInv, Filled, Looping
<1>4. /\ num_active_conns + Len(p_new_conns) <= MaxConnections + 1
      /\ num_active_conns \in Nat /\ Len(p_new_conns) \in Nat \ {0}
  <2>1. p_new_conns # <<>> /\ p_new_conns \in Seq(open)
    BY <1>2, <1>3 DEF AddNew, QueueInv
  <2>2. Len(p_new_conns) \in Nat \ {0}
    BY <2>1
  <2> QED BY <1>1, <2>2 DEF TablesInv, TablesTypeOK, WithinLimit
<1>5. num_active_conns < U16Max
  BY <1>4, EzArrayAssumption DEF Settings
<1>6. AddNew(0)
  <2>1. CASE v = 0
    BY <1>2, <2>1
  <2>2. CASE num_active_conns # max_conns
    BY <1>2, <1>3, <2>2, RoomIsEnough
  <2>3. InitialMax <= max_conns
    BY <1>1, <1>2 DEF TablesInv, Filled, Looping
  <2> QED BY Zenon, <1>2, <1>3, <1>5, <2>1, <2>2, <2>3, RoomForAll
<1>7. /\ InStep(FALSE)' /\ QueueInv' /\ Descriptors'
      /\ Active' \cup Queued' = Active \cup Queued
      /\ Active \subseteq Active'
      /\ num_active_conns' = num_active_conns + 1 /\ max_conns <= max_conns'
      /\ Len(p_new_conns') = Len(p_new_conns) - 1
  BY Zenon, <1>6, <1>2, <1>3, <1>5, AddKeeps
<1>8. TablesTypeOK'
  BY Zenon, <1>7, InStepNext
<1>9. WithinLimit'
  BY <1>4, <1>7, ServerAssumption DEF WithinLimit
<1>10. StartInv'
  BY <1>2 DEF StartInv, Starting
<1>11. TablesInv'
  <2>1. /\ InitialMax <= max_conns /\ InitialMax \in Nat
        /\ max_conns \in Nat /\ max_conns' \in Nat
    BY <1>1, <1>2, <1>8, ConnMgrAssumption, EzArrayAssumption
       DEF TablesInv, TablesTypeOK, Filled, Looping
  <2>2. InitialMax <= max_conns'
    BY <1>7, <2>1
  <2> QED BY <1>1, <1>2, <1>7, <1>8, <1>9, <2>2
       DEF TablesInv, Filled, Looping, Emptied, Exiting
<1>12. NothingLeaked'
  <2>1. open' \ Owned' \subseteq open \ Owned
    BY <1>2, <1>7 DEF Owned
  <2> QED BY <1>1, <1>2, <2>1, LeaksNothing, ServerAssumption DEF ControlInv, TablesInv
<1> QED BY Zenon, <1>7, <1>10, <1>11, <1>12 DEF Tables

\* The connection that was taken from the queue is in no table: its descriptor is
\* the one that leaks.
LEMMA AddFailsKeeps ==
  ASSUME Settings, ServerInv, NEW v \in Fresh, AddFails(v)
  PROVE  Tables'
<1>1. ControlInv /\ StartInv /\ TablesInv /\ NothingLeaked
  BY DEF ServerInv
<1>2. /\ main = "add" /\ main' = "cleanup_connections"
      /\ AddNewPushFails \/ AddNewPollfdFails(v)
      /\ p_new_conns # <<>> /\ p_new_conns' = Tail(p_new_conns)
      /\ num_active_conns' = num_active_conns /\ open' = open
      /\ closing' = closing /\ lost' = lost + 1
  BY DEF AddFails, Goto, Fault, Loss, clientVars, faultVars, AddNewPushFails, AddNewPollfdFails
<1>3. InStep(FALSE) /\ QueueInv /\ Descriptors
  BY <1>1, <1>2, ServerDescriptors DEF TablesInv, Filled, Looping
<1>4. /\ num_active_conns + Len(p_new_conns) <= MaxConnections + 1
      /\ num_active_conns \in Nat /\ Len(p_new_conns) \in Nat \ {0}
  <2>1. p_new_conns \in Seq(open)
    BY <1>3 DEF QueueInv
  <2>2. Len(p_new_conns) \in Nat \ {0}
    BY <1>2, <2>1
  <2> QED BY <1>1, <2>2 DEF TablesInv, TablesTypeOK, WithinLimit
<1>5. num_active_conns < U16Max
  BY <1>4, EzArrayAssumption DEF Settings
<1>6. TablesTypeOK' /\ num_active_conns' <= p_conns'.num /\ Active' = Active
  <2>1. CASE AddNewPushFails
    <3>1. UNCHANGED <<p_conns, p_pfds, max_conns, num_active_conns>>
      BY <2>1 DEF AddNewPushFails
    <3>2. num_active_conns <= p_conns.num
      BY Zenon, <1>3, InStepTypes
    <3>3. num_active_conns' <= p_conns'.num
      BY Zenon, <3>1, <3>2
    <3> QED BY Zenon, <1>1, <3>1, <3>3, TablesUnchanged DEF TablesInv
  <2>2. CASE AddNewPollfdFails(v)
    BY Zenon, <1>3, <1>5, <2>2, PollfdFailsKeeps
  <2> QED BY Zenon, <1>2, <2>1, <2>2
<1>7. /\ QueueInv' /\ Queued \subseteq Queued' \cup {Head(p_new_conns)}
      /\ Len(p_new_conns') = Len(p_new_conns) - 1
  BY Zenon, <1>2, <1>3, <1>6, PopKeeps
<1>8. WithinLimit'
  BY <1>2, <1>4, <1>7, ServerAssumption DEF WithinLimit
<1>9. StartInv'
  BY <1>2 DEF StartInv, Starting
<1>10. TablesInv'
  BY <1>1, <1>2, <1>6, <1>7, <1>8 DEF TablesInv, Filled, Looping, Emptied, Exiting
<1>11. NothingLeaked'
  <2> DEFINE h == Head(p_new_conns)
  <2>1. open' \ Owned' \subseteq (open \ Owned) \cup {h}
    BY <1>2, <1>6, <1>7 DEF Owned
  <2> HIDE DEF h
  <2>2. lost \in Nat /\ open \subseteq FirstFd..LastFd /\ lost' = lost + 1
    BY <1>1, <1>2, ServerAssumption DEF ControlInv, TablesInv
  <2> QED BY Zenon, <1>1, <2>1, <2>2, LeaksOne
<1> QED BY <1>9, <1>10, <1>11 DEF Tables
-----------------------------------------------------------------------------
(***************************************************************************)
(* nl_accept.  The descriptor that accept hands out is free, so it is in   *)
(* neither table nor queue.                                                *)
(***************************************************************************)
\* A set of naturals that is not empty has a least element.
LEMMA MinimumExists ==
  ASSUME NEW S \in SUBSET Nat, S # {}
  PROVE  \E m \in S : \A x \in S : m <= x
<1> DEFINE Goal == \E m \in S : \A x \in S : m <= x
           T == {n \in Nat : (\E k \in S : k <= n) => Goal}
<1>1. 0 \in T
  OBVIOUS
<1>2. ASSUME NEW n \in Nat, n \in T  PROVE n + 1 \in T
  <2>1. CASE \E k \in S : k <= n
    BY <1>2, <2>1
  <2>2. CASE ~ \E k \in S : k <= n
    <3>1. ASSUME NEW k \in S, k <= n + 1  PROVE Goal
      <4>1. k = n + 1 /\ \A x \in S : k <= x
        BY <2>2, <3>1
      <4> QED BY <4>1
    <3> QED BY <3>1
  <2> QED BY <2>1, <2>2
<1>3. \A n \in Nat : n \in T
  <2> HIDE DEF T
  <2> QED BY <1>1, <1>2, SetInduction
<1>4. PICK k \in S : TRUE
  OBVIOUS
<1>5. k \in Nat /\ k \in T
  BY <1>3, <1>4
<1> QED BY <1>4, <1>5

\* The lowest free descriptor is free.
LEMMA LowestFdFree ==
  ASSUME FreeFds # {}
  PROVE  LowestFd \in FreeFds
<1>1. FreeFds \in SUBSET Nat
  BY ServerAssumption DEF FreeFds
<1>2. \E m \in FreeFds : \A x \in FreeFds : m <= x
  <2> HIDE DEF FreeFds
  <2> QED BY <1>1, MinimumExists
<1> QED BY <1>2 DEF LowestFd

\* The new connection is queued, or its descriptor is the one that leaks.
LEMMA AcceptKeeps ==
  ASSUME Settings, ServerInv, Accept \/ AcceptNoBuffer \/ AcceptBlocking
  PROVE  Tables' /\ Active' = Active /\ Queued \subseteq Queued'
<1> DEFINE fd == LowestFd
<1>1. ControlInv /\ StartInv /\ TablesInv /\ NothingLeaked
  BY DEF ServerInv
<1>2. /\ main = "accept" /\ ~Full /\ FreeFds # {}
      /\ open' = open \cup {fd} /\ closing' = closing
      /\ \/ CreateNewConn(fd) /\ main' = main /\ lost' = lost
         \/ /\ UNCHANGED <<p_conns, p_pfds, max_conns, num_active_conns>>
            /\ p_new_conns' = p_new_conns
            /\ main' \in {main, "cleanup_connections"} /\ lost' = lost + 1
  BY DEF Accept, AcceptNoBuffer, AcceptBlocking, Accepting, Loss, connVars, faultVars
<1>3. fd \in FirstFd..LastFd /\ fd \notin open
  BY <1>2, LowestFdFree DEF FreeFds
<1> HIDE DEF fd
<1>4. /\ InStep(FALSE) /\ QueueInv /\ Descriptors /\ TablesTypeOK
      /\ open \subseteq FirstFd..LastFd /\ closing \subseteq Active \cap open
  BY <1>1, <1>2, ServerDescriptors DEF TablesInv, Filled, Looping
<1>5. Active \subseteq open /\ Queued \subseteq open
  <2>1. Active \subseteq open
    BY Zenon, <1>4, InStepActive
  <2>2. Queued \subseteq open
    BY <1>4 DEF QueueInv, Queued
  <2> QED BY <2>1, <2>2
<1>6. UNCHANGED <<p_conns, p_pfds, max_conns, num_active_conns>>
  BY <1>2 DEF CreateNewConn
<1>7. InStep(FALSE)' /\ TablesTypeOK' /\ Active' = Active
  <2>1. open \subseteq open'
    BY <1>2
  <2> QED BY Zenon, <1>4, <1>6, <2>1, TablesStay, TablesUnchanged
<1>8. /\ num_active_conns \in Nat /\ Len(p_new_conns) \in Nat
      /\ num_active_conns + Len(p_new_conns) < MaxConnections + 1
  <2>1. num_active_conns \in Nat /\ Len(p_new_conns) \in Nat
    BY <1>4 DEF TablesTypeOK, QueueInv
  <2>2. num_active_conns + Len(p_new_conns) <= MaxConnections + 1
    BY <1>1 DEF TablesInv, WithinLimit
  <2> QED BY <1>2, <2>1, <2>2, ServerAssumption DEF Full
<1>m. InitialMax <= max_conns'
  BY <1>1, <1>2, <1>6 DEF TablesInv, Filled, Looping
<1>9. CASE CreateNewConn(fd) /\ main' = main /\ lost' = lost
  <2>1. fd \notin Active \cup Queued /\ open \subseteq open' /\ fd \in open'
    BY <1>2, <1>3, <1>5
  <2>2. /\ QueueInv' /\ Queued' = Queued \cup {fd}
        /\ Len(p_new_conns') = Len(p_new_conns) + 1
    BY Zenon, <1>4, <1>9, <2>1, CreateKeeps
  <2>3. WithinLimit'
    BY <1>6, <1>8, <2>2, ServerAssumption DEF WithinLimit
  <2>4. StartInv'
    BY <1>2, <1>9 DEF StartInv, Starting
  <2>5. TablesInv'
    BY <1>2, <1>3, <1>4, <1>7, <1>9, <1>m, <2>2, <2>3
       DEF TablesInv, Filled, Looping, Emptied, Exiting
  <2>6. NothingLeaked'
    <3>1. open' \ Owned' \subseteq open \ Owned
      BY <1>2, <1>7, <1>9, <2>2 DEF Owned
    <3> QED BY <1>1, <1>4, <1>9, <3>1, LeaksNothing, ServerAssumption DEF ControlInv
  <2> QED BY <1>7, <2>2, <2>4, <2>5, <2>6 DEF Tables
<1>10. CASE /\ p_new_conns' = p_new_conns
            /\ main' \in {main, "cleanup_connections"} /\ lost' = lost + 1
  <2>1. QueueInv' /\ Queued' = Queued
    <3>1. Queued' = Queued
      BY Zenon, <1>10, QueueUnchanged
    <3>2. p_new_conns' \in Seq(open')
      BY <1>2, <1>4, <1>10 DEF QueueInv
    <3> QED BY Zenon, <1>4, <1>7, <1>10, <3>1, <3>2 DEF QueueInv
  <2>2. WithinLimit'
    BY Zenon, <1>1, <1>6, <1>10 DEF TablesInv, WithinLimit
  <2>3. StartInv'
    BY <1>2, <1>10 DEF StartInv, Starting
  <2>4. num_active_conns' <= p_conns'.num
    BY Zenon, <1>4, <1>6, InStepTypes
  <2>5. TablesInv'
    BY <1>2, <1>3, <1>4, <1>7, <1>10, <1>m, <2>1, <2>2, <2>4
       DEF TablesInv, Filled, Looping, Emptied, Exiting
  <2>6. NothingLeaked'
    <3>1. open' \ Owned' \subseteq (open \ Owned) \cup {fd}
      BY <1>2, <1>7, <1>10, <2>1 DEF Owned
    <3>2. lost \in Nat
      BY <1>1, ServerAssumption DEF ControlInv
    <3> QED BY Zenon, <1>1, <1>4, <1>10, <3>1, <3>2, LeaksOne
  <2> QED BY <1>7, <2>1, <2>3, <2>5, <2>6 DEF Tables
<1> QED BY Zenon, <1>2, <1>9, <1>10
-----------------------------------------------------------------------------
(***************************************************************************)
(* The labels at the end of main that give something back.                 *)
(***************************************************************************)
\* connmgr_destroy_all_conns reaches everything in the tables and in the queue.
LEMMA CleanupKeeps ==
  ASSUME Settings, ServerInv, CleanupConnections
  PROVE  Tables'
<1>1. ControlInv /\ StartInv /\ TablesInv /\ NothingLeaked
  BY DEF ServerInv
<1>2. /\ main = "cleanup_connections" /\ main' = "destroy_tpool" /\ DestroyAllConns
      /\ closing' = {} /\ lost' = lost
      /\ open' = open \ (Active \cup Queued)
      /\ num_active_conns' = num_active_conns /\ p_new_conns' = <<>>
  BY Zenon DEF CleanupConnections, DestroyAllConns, Goto, faultVars
<1>3. TablesTypeOK /\ num_active_conns <= p_conns.num
  BY <1>1, <1>2 DEF TablesInv
<1>4. TablesTypeOK' /\ Active' = {}
  BY Zenon, <1>2, <1>3, DestroyAllKeeps
<1>5. QueueInv' /\ Queued' = {}
  BY Zenon, <1>2, NoConnections
<1>6. WithinLimit'
  <2>1. num_active_conns \in Nat /\ Len(p_new_conns) \in Nat /\ Len(p_new_conns') = 0
    BY <1>1, <1>2 DEF TablesInv, TablesTypeOK, QueueInv
  <2>2. num_active_conns + Len(p_new_conns) <= MaxConnections + 1
    BY <1>1 DEF TablesInv, WithinLimit
  <2> QED BY <1>2, <2>1, <2>2, ServerAssumption DEF WithinLimit
<1>7. StartInv'
  BY <1>2 DEF StartInv, Starting
<1>8. TablesInv'
  BY <1>1, <1>2, <1>4, <1>5, <1>6 DEF TablesInv, Filled, Looping, Emptied, Exiting
<1>9. NothingLeaked'
  <2>1. open' \ Owned' \subseteq open \ Owned
    BY <1>2, <1>4, <1>5 DEF Owned
  <2> QED BY <1>1, <1>2, <2>1, LeaksNothing, ServerAssumption DEF ControlInv, TablesInv
<1> QED BY <1>7, <1>8, <1>9 DEF Tables

\* The tables are freed when nothing is left in them. num_active_conns keeps its
\* value, but every slot is out of bounds.
LEMMA DestroyConnmgrKeeps ==
  ASSUME Settings, ServerInv, DestroyConnmgr
  PROVE  Tables'
<1>1. ControlInv /\ StartInv /\ TablesInv /\ NothingLeaked
  BY DEF ServerInv
<1>2. /\ main = "destroy_connmgr" /\ main' = "join_sig_thread"
      /\ p_conns' = EzarrInit(0, NULL) /\ p_pfds' = Buffer(0, Fd0) /\ p_new_conns' = <<>>
      /\ UNCHANGED <<max_conns, num_active_conns, open>>
      /\ closing' = closing /\ lost' = lost
  BY DEF DestroyConnmgr, ConnmgrDeinit, Goto, clientVars, faultVars
<1>3. Active = {} /\ p_new_conns = <<>> /\ closing = {}
  BY <1>1, <1>2 DEF TablesInv, Emptied, Exiting
<1>4. p_conns' = [buf |-> [i \in 0..(0 - 1) |-> NULL], num |-> 0, max |-> 0]
  BY Zenon, <1>2 DEF EzarrInit, Buffer
<1>5. TablesTypeOK'
  <2>1. /\ DOMAIN p_conns'.buf = 0..(p_conns'.max - 1)
        /\ p_conns'.max = 0 /\ p_conns'.num = 0
    BY <1>4
  <2>2. DOMAIN p_pfds' = {}
    BY <1>2 DEF Buffer
  <2>3. /\ max_conns' \in 0..U16Max /\ num_active_conns' \in 0..max_conns'
    BY <1>1, <1>2 DEF TablesInv, TablesTypeOK
  <2> QED BY <2>1, <2>2, <2>3, EzArrayAssumption DEF TablesTypeOK
<1>6. Active' = {}
  <2>1. \A i \in 0..(num_active_conns' - 1) : EzarrGetAt(p_conns', i, NULL) = NULL
    BY <1>4 DEF EzarrGetAt
  <2> QED BY Zenon, <2>1 DEF Active
<1>7. QueueInv' /\ Queued' = {} /\ Queued = {}
  BY Zenon, <1>2, <1>3, NoConnections
<1>8. WithinLimit'
  BY Zenon, <1>1, <1>2, <1>3 DEF TablesInv, WithinLimit
<1>9. StartInv'
  BY <1>2 DEF StartInv, Starting
<1>10. TablesInv'
  BY <1>1, <1>2, <1>3, <1>5, <1>6, <1>7, <1>8 DEF TablesInv, Filled, Looping, Emptied, Exiting
<1>11. NothingLeaked'
  <2>1. open' \ Owned' \subseteq open \ Owned
    BY <1>2, <1>3, <1>6, <1>7 DEF Owned
  <2> QED BY <1>1, <1>2, <2>1, LeaksNothing, ServerAssumption DEF ControlInv, TablesInv
<1> QED BY <1>9, <1>10, <1>11 DEF Tables

\* At the end main owns no descriptor but those of the pipe.
LEMMA ClosePipeKeeps ==
  ASSUME Settings, ServerInv, ClosePipe
  PROVE  Tables'
<1>1. ControlInv /\ StartInv /\ TablesInv /\ NothingLeaked
  BY DEF ServerInv
<1>2. /\ main = "close_pipefds" /\ main' = "end" /\ open' = open \ {PipeRead, PipeWrite}
      /\ UNCHANGED <<p_conns, p_pfds, max_conns, num_active_conns>>
      /\ p_new_conns' = p_new_conns /\ closing' = closing /\ lost' = lost
  BY DEF ClosePipe, Goto, connVars, clientVars, faultVars
<1>3. Active = {} /\ p_new_conns = <<>> /\ closing = {}
  BY <1>1, <1>2 DEF TablesInv, Emptied, Exiting
<1>4. /\ TablesTypeOK' /\ Active' = {} /\ Queued = {} /\ Queued' = {} /\ QueueInv'
  BY Zenon, <1>1, <1>2, <1>3, TablesUnchanged, NoConnections DEF TablesInv
<1>5. WithinLimit'
  BY Zenon, <1>1, <1>2 DEF TablesInv, WithinLimit
<1>6. StartInv'
  BY <1>2 DEF StartInv, Starting
<1>7. TablesInv'
  BY <1>1, <1>2, <1>3, <1>4, <1>5 DEF TablesInv, Filled, Looping, Emptied, Exiting
<1>8. NothingLeaked'
  <2>1. open' \ Owned' \subseteq open \ Owned
    BY <1>2, <1>3, <1>4 DEF Owned
  <2> QED BY <1>1, <1>2, <2>1, LeaksNothing, ServerAssumption DEF ControlInv, TablesInv
<1> QED BY <1>6, <1>7, <1>8 DEF Tables
-----------------------------------------------------------------------------
(***************************************************************************)
(* Every step keeps the invariant.                                         *)
(***************************************************************************)
LEMMA TablesKept ==
  ASSUME Settings, ServerInv, Trusted', [Next]_vars
  PROVE  Tables'
<1> DEFINE Quiet ==
      /\ UNCHANGED <<connVars, open>> /\ closing' \subseteq Active \cap open
      /\ lost' \in Nat /\ lost <= lost'
      /\ \/ main' = main
         \/ /\ main \in Looping \ {"update"}
            /\ main' \in (Looping \ {"update"}) \cup {"wait", "cleanup_connections"}
         \/ main = "wait" /\ main' = "cleanup_connections"
         \/ main \in Emptied \ {"end"} /\ main' \in Emptied \ {"end"}
         \/ main = "signals" /\ main' = "connmgr"
         \/ main = "tpool" /\ main' = "listener"
<1> USE DEF Goto, Fault, Loss, clientVars, faultVars
<1>1. Quiet => Tables'
  BY Zenon, QuietKeeps
<1>2. lost \in Nat /\ closing \subseteq Active \cap open
  BY ServerAssumption DEF ServerInv, ControlInv, TablesInv
<1>3. StartUp => Tables'
  <2>1. StartSignalThread \/ StartTpool => Quiet
    BY <1>2 DEF StartSignalThread, StartTpool
  <2> QED BY Zenon, <1>1, <2>1, MakePipeKeeps, StartConnmgrKeeps, StartListenerKeeps,
        CreateInternalKeeps DEF StartUp
<1>4. Round => Tables'
  <2>1. LoopEnds \/ AddedAll => Quiet
    BY <1>2 DEF LoopEnds, AddedAll, Looping
  <2>2. PollServer => Quiet
    BY <1>2 DEF PollServer, PollReturns, Looping
  <2>3. VisitListener \/ VisitPipe \/ VisitOther \/ VisitedAll => Quiet
    BY <1>2 DEF VisitListener, VisitPipe, VisitOther, VisitedAll, Looping
  <2>4. AcceptedAll \/ AcceptNoFd \/ AcceptFull => Quiet
    BY <1>2 DEF AcceptedAll, AcceptNoFd, AcceptFull, Looping
  <2>5. (\E gone \in SUBSET closing : Reap(gone)) \/ UpdateConns
          \/ (\E v \in Fresh : AddConn(v)) \/ Accept => Tables'
    BY Zenon, ReapKeeps, UpdateConnsKeeps, AddConnKeeps, AcceptKeeps
  <2> QED BY Zenon, <1>1, <2>1, <2>2, <2>3, <2>4, <2>5 DEF Round
<1>5. Exit => Tables'
  <2>1. WaitPool \/ DestroyTpool \/ TestShutdown \/ KillSignalThread \/ JoinSignalThread
          => Quiet
    BY <1>2 DEF WaitPool, DestroyTpool, TestShutdown, KillSignalThread, JoinSignalThread,
      Emptied, Exiting
  <2> QED BY Zenon, <1>1, <2>1, CleanupKeeps, DestroyConnmgrKeeps, ClosePipeKeeps DEF Exit
<1>6. CallFails => Tables'
  <2>1. PollFails \/ VisitFails \/ AcceptNoContext \/ AcceptFails => Quiet
    BY <1>2 DEF PollFails, VisitFails, AcceptNoContext, AcceptFails, Looping
  <2> QED BY Zenon, <1>1, <2>1, StartFailsKeeps, AddFailsKeeps, AcceptKeeps DEF CallFails
<1>7. SigWakeMain => Tables'
  <2>1. SigWakeMain => UNCHANGED <<connVars, open, main, clientVars, faultVars>>
    BY Zenon DEF SigWakeMain
  <2> QED BY <1>1, <1>2, <2>1
<1>8. Environment => Tables'
  <2>1. ClientConnects \/ (\E fd \in open : ConnCloses(fd)) => Quiet
    BY <1>2 DEF ClientConnects, ConnCloses
  <2>2. PollClient \/ PollBlocks \/ Ended => Quiet
    BY <1>2 DEF PollClient, PollReturns, PollBlocks, Ended, vars, Looping
  <2>3. SigReceived => UNCHANGED <<connVars, open, main, clientVars, faultVars>>
    BY Zenon DEF SigReceived
  <2>4. SigWaitFails => /\ UNCHANGED <<connVars, open, main, clientVars>>
                        /\ lost' = lost
    BY Zenon DEF SigWaitFails
  <2>5. SigReceived \/ SigWaitFails => Quiet
    BY <1>2, <2>3, <2>4
  <2> QED BY Zenon, <1>1, <2>1, <2>2, <2>5 DEF Environment
<1>9. UNCHANGED vars => Tables'
  <2>1. UNCHANGED vars => Quiet
    BY <1>2 DEF vars
  <2> QED BY Zenon, <1>1, <2>1
<1> QED BY Zenon, <1>3, <1>4, <1>5, <1>6, <1>7, <1>8, <1>9 DEF Next, Main

(***************************************************************************)
(* The tables never shrink, whatever the memory holds: a server that is    *)
(* Trusted after a step was so before.                                     *)
(***************************************************************************)
SizesInv ==
  /\ max_conns \in 0..U16Max /\ "max" \in DOMAIN p_conns
  /\ main \in {"pipe", "signals", "connmgr"} => max_conns = 0
  /\ main \in Filled => max_conns = p_conns.max

LEMMA SizesKeep ==
  ASSUME SizesInv, [Next]_vars
  PROVE  SizesInv' /\ max_conns <= max_conns'
<1> USE DEF Goto
<1> DEFINE Done == SizesInv' /\ max_conns <= max_conns'
           \* The main thread does not enter the places that SizesInv is about.
           Onward == /\ main' \in Filled => main \in Filled
                     /\ main' \in {"pipe", "signals", "connmgr"} =>
                          main \in {"pipe", "signals", "connmgr"}
           Sized == /\ UNCHANGED max_conns
                    /\ "max" \in DOMAIN p_conns' /\ p_conns'.max = p_conns.max
                    /\ Onward
           Leaves == /\ UNCHANGED max_conns /\ "max" \in DOMAIN p_conns'
                     /\ main' \notin Filled \cup {"pipe", "signals", "connmgr"}
<1>1. /\ max_conns \in 0..U16Max /\ "max" \in DOMAIN p_conns
      /\ main \in {"pipe", "signals", "connmgr"} => max_conns = 0
      /\ main \in Filled => max_conns = p_conns.max
      /\ U16Max \in Nat
  BY EzArrayAssumption DEF SizesInv
<1>2. Sized \/ Leaves => Done
  BY <1>1 DEF SizesInv
<1>3. UNCHANGED connVars /\ Onward => Sized
  BY <1>1 DEF connVars
<1> USE DEF Filled, Looping
<1>4. StartUp => Done
  <2>1. StartConnmgr => Done
    <3>1. StartConnmgr => /\ p_conns' = EzarrInit(InitialMax, NULL)
                          /\ max_conns' = InitialMax /\ main = "connmgr" /\ main' = "tpool"
      BY DEF StartConnmgr, ConnmgrInit
    <3>2. /\ "max" \in DOMAIN EzarrInit(InitialMax, NULL)
          /\ EzarrInit(InitialMax, NULL).max = InitialMax
      BY DEF EzarrInit
    <3> QED BY <1>1, <3>1, <3>2, ConnMgrAssumption DEF SizesInv
  <2>2. MakePipe \/ StartSignalThread => UNCHANGED connVars /\ Onward
    BY DEF MakePipe, StartSignalThread
  <2>3. StartTpool \/ StartListener => UNCHANGED connVars /\ Onward
    BY DEF StartTpool, StartListener
  <2>4. CreateListenerConn \/ CreatePipeConn => Sized
    BY <1>1 DEF CreateListenerConn, CreatePipeConn, CreateNewConn
  <2> QED BY Zenon, <1>2, <1>3, <2>1, <2>2, <2>3, <2>4 DEF StartUp
<1>5. Round => Done
  <2>1. LoopEnds => UNCHANGED connVars /\ main' = "wait"
    BY DEF LoopEnds
  <2>2. LoopEnds => Leaves
    BY <1>1, <2>1 DEF connVars
  <2>3. ASSUME NEW gone \in SUBSET closing, Reap(gone)  PROVE Sized
    <3>1. \A slots : /\ "max" \in DOMAIN EzarrSetAt(p_conns, slots, NULL)
                     /\ EzarrSetAt(p_conns, slots, NULL).max = p_conns.max
      BY <1>1 DEF EzarrSetAt
    <3>2. /\ main = "loop" /\ main' = "update" /\ max_conns' = max_conns
          /\ \E slots : p_conns' = EzarrSetAt(p_conns, slots, NULL)
      BY Zenon, <2>3 DEF Reap, DestroyConns
    <3> QED BY <3>1, <3>2
  <2>4. ASSUME UpdateConns  PROVE Sized
    <3>1. /\ "max" \in DOMAIN EzarrCompact(p_conns, NULL)
          /\ EzarrCompact(p_conns, NULL).max = p_conns.max
      BY DEF EzarrCompact
    <3>2. /\ main = "update" /\ main' = "add" /\ max_conns' = max_conns
          /\ p_conns' = EzarrCompact(p_conns, NULL)
      BY Zenon, <2>4 DEF UpdateConns, RemoveClosed
    <3> QED BY <3>1, <3>2
  <2>5. ASSUME NEW v \in Fresh, AddConn(v)  PROVE Done
    <3> DEFINE a == EzarrPush(p_conns, Head(p_new_conns), Pointer(v))
    <3>1. /\ main = "add" /\ main' = "add" /\ p_conns' = a /\ max_conns' = p_conns'.max
      BY <2>5 DEF AddConn, AddNew, Pushed
    <3>2. /\ "max" \in DOMAIN a
          /\ a.max = IF p_conns.num = p_conns.max THEN NewMax(p_conns.num) ELSE p_conns.max
      BY DEF EzarrPush
    <3>3. max_conns' \in {max_conns, NewMax(max_conns)} /\ "max" \in DOMAIN p_conns'
      <4> HIDE DEF a
      <4> QED BY <1>1, <3>1, <3>2
    <3>4. NewMax(max_conns) \in max_conns..U16Max
      BY <1>1 DEF NewMax
    <3>5. max_conns' \in 0..U16Max /\ max_conns <= max_conns'
      BY <1>1, <3>3, <3>4
    <3> QED BY <3>1, <3>3, <3>5 DEF SizesInv
  <2>6. AddedAll \/ PollServer => UNCHANGED connVars /\ Onward
    BY DEF AddedAll, PollServer, PollReturns
  <2>7. VisitListener \/ VisitPipe \/ VisitOther \/ VisitedAll => UNCHANGED connVars /\ Onward
    BY DEF VisitListener, VisitPipe, VisitOther, VisitedAll
  <2>8. Accept => Sized
    BY <1>1 DEF Accept, Accepting, CreateNewConn
  <2>9. AcceptedAll \/ AcceptNoFd \/ AcceptFull => UNCHANGED connVars /\ Onward
    BY DEF AcceptedAll, AcceptNoFd, AcceptFull
  <2> QED BY Zenon, <1>2, <1>3, <2>2, <2>3, <2>4, <2>5, <2>6, <2>7, <2>8, <2>9 DEF Round
<1>6. Exit => Done
  <2>1. WaitPool \/ DestroyTpool \/ TestShutdown \/ KillSignalThread \/ JoinSignalThread
          \/ ClosePipe => UNCHANGED connVars /\ Onward
    BY DEF WaitPool, DestroyTpool, TestShutdown, KillSignalThread, JoinSignalThread, ClosePipe
  <2>2. ASSUME CleanupConnections  PROVE Leaves
    <3>1. \A slots : "max" \in DOMAIN EzarrSetAt(p_conns, slots, NULL)
      BY <1>1 DEF EzarrSetAt
    <3>2. /\ main' = "destroy_tpool" /\ max_conns' = max_conns
          /\ \E slots : p_conns' = EzarrSetAt(p_conns, slots, NULL)
      BY Zenon, <2>2 DEF CleanupConnections, DestroyAllConns
    <3> QED BY <3>1, <3>2
  <2>3. DestroyConnmgr => Leaves
    BY DEF DestroyConnmgr, ConnmgrDeinit, EzarrInit
  <2> QED BY Zenon, <1>2, <1>3, <2>1, <2>2, <2>3 DEF Exit
<1>7. CallFails => Done
  <2>1. StartFails \/ PollFails \/ VisitFails => UNCHANGED connVars /\ Onward
    BY DEF StartFails, PollFails, VisitFails
  <2>2. AcceptNoBuffer \/ AcceptBlocking \/ AcceptNoContext \/ AcceptFails
          => UNCHANGED connVars /\ Onward
    BY DEF AcceptNoBuffer, AcceptBlocking, Accepting, AcceptNoContext, AcceptFails
  <2>3. ASSUME NEW v \in Fresh, AddFails(v)  PROVE Leaves
    <3>1. "max" \in DOMAIN EzarrPush(p_conns, Head(p_new_conns), Pointer(v))
      BY DEF EzarrPush
    <3>2. /\ main' = "cleanup_connections" /\ max_conns' = max_conns
          /\ \/ p_conns' = p_conns
             \/ p_conns' = EzarrPush(p_conns, Head(p_new_conns), Pointer(v))
      BY Zenon, <2>3 DEF AddFails, AddNewPushFails, AddNewPollfdFails
    <3> QED BY <1>1, <3>1, <3>2
  <2> QED BY Zenon, <1>2, <1>3, <2>1, <2>2, <2>3 DEF CallFails
<1>8. SigWakeMain => Done
  <2>1. SigWakeMain => UNCHANGED <<connVars, main>>
    BY Zenon DEF SigWakeMain
  <2> QED BY <1>2, <1>3, <2>1
<1>9. Environment => Done
  <2>1. SigReceived \/ SigWaitFails => UNCHANGED <<connVars, main>>
    BY Zenon DEF SigReceived, SigWaitFails
  <2>2. ClientConnects \/ (\E fd \in open : ConnCloses(fd)) => UNCHANGED <<connVars, main>>
    BY DEF ClientConnects, ConnCloses
  <2>3. PollClient \/ PollBlocks \/ Ended => UNCHANGED connVars /\ Onward
    BY DEF PollClient, PollReturns, PollBlocks, Ended, vars
  <2>4. UNCHANGED <<connVars, main>> => UNCHANGED connVars /\ Onward
    OBVIOUS
  <2> QED BY Zenon, <1>2, <1>3, <2>1, <2>2, <2>3, <2>4 DEF Environment
<1>10. UNCHANGED vars => Done
  <2>1. UNCHANGED vars => UNCHANGED connVars /\ Onward
    BY DEF vars
  <2> QED BY Zenon, <1>2, <1>3, <2>1
<1> QED BY Zenon, <1>4, <1>5, <1>6, <1>7, <1>8, <1>9, <1>10 DEF Next, Main

LEMMA TrustedBefore ==
  ASSUME SizesInv, [Next]_vars, Trusted'
  PROVE  Trusted
<1>1. SizesInv' /\ max_conns <= max_conns'
  BY Zenon, SizesKeep
<1>2. max_conns \in Nat /\ max_conns' \in Nat /\ InitialMax \in Nat
  BY <1>1, ConnMgrAssumption, EzArrayAssumption DEF SizesInv
<1>3. max_conns' <= InitialMax => max_conns <= InitialMax
  BY <1>1, <1>2
<1> QED BY Zenon, <1>3 DEF Trusted

(***************************************************************************)
(* The initial states satisfy the invariant.                               *)
(***************************************************************************)
LEMMA ServerStarts ==
  ASSUME Settings, Init
  PROVE  ServerInv
<1>1. /\ NoTables /\ open = {} /\ main = "pipe" /\ revents = {} /\ errno = "other"
      /\ sig = "none" /\ backlog = 0 /\ arrived = 0 /\ served = 0 /\ closing = {}
      /\ faults = 0 /\ lost = 0
  BY Zenon DEF Init
<1>2. g_should_shutdown \in BOOLEAN /\ sigpipe \in BOOLEAN
  BY Zenon DEF Init
<1>3. ControlInv
  <2>1. Places
    BY <1>1, ServerAssumption DEF Places, Starting
  <2> QED BY Zenon, <1>2, <2>1 DEF ControlInv, Places
<1>4. /\ p_conns = [buf |-> [i \in 0..(0 - 1) |-> NULL], num |-> 0, max |-> 0]
      /\ p_pfds = [i \in 0..(0 - 1) |-> Fd0]
      /\ max_conns = 0 /\ num_active_conns = 0 /\ p_new_conns = <<>>
  BY Zenon, <1>1 DEF NoTables, EzarrInit, Buffer
<1>5. TablesTypeOK
  BY <1>4, EzArrayAssumption DEF TablesTypeOK
<1>6. Active = {} /\ Queued = {} /\ QueueInv
  BY Zenon, <1>4, NoConnections
<1>7. WithinLimit
  <2>1. Len(p_new_conns) = 0
    BY <1>4
  <2> QED BY <1>4, <2>1, ServerAssumption DEF WithinLimit
<1>8. StartInv
  BY <1>1, <1>4 DEF StartInv
<1>9. TablesInv
  BY <1>1, <1>5, <1>6, <1>7 DEF TablesInv, Filled, Looping, Emptied, Exiting
<1>10. NothingLeaked
  BY <1>1, FS_EmptySet DEF NothingLeaked
<1> QED BY <1>3, <1>8, <1>9, <1>10 DEF ServerInv

(***************************************************************************)
(* The sizes of the tables, and the inductive invariant as long as the     *)
(* server is Trusted.                                                      *)
(***************************************************************************)
Inductive == SizesInv /\ (Trusted => ServerInv)

LEMMA InductiveStarts ==
  ASSUME Settings, Init
  PROVE  Inductive
<1>1. max_conns = 0 /\ main = "pipe" /\ p_conns = EzarrInit(0, NULL)
  BY Zenon DEF Init, NoTables
<1>2. SizesInv
  BY <1>1, EzArrayAssumption DEF SizesInv, EzarrInit, Filled, Looping
<1> QED BY Zenon, <1>2, ServerStarts DEF Inductive

LEMMA InductiveKeeps ==
  ASSUME Settings, Inductive, [Next]_vars
  PROVE  Inductive'
<1>1. SizesInv'
  BY Zenon, SizesKeep DEF Inductive
<1>2. ASSUME Trusted'  PROVE ServerInv'
  <2>1. ServerInv
    BY Zenon, <1>2, TrustedBefore DEF Inductive
  <2>2. num_active_conns \in Nat
    BY <2>1 DEF ServerInv, TablesInv, TablesTypeOK
  <2>3. ControlInv'
    BY Zenon, <2>1, <2>2, ControlKeeps DEF ServerInv
  <2>4. Tables'
    BY Zenon, <1>2, <2>1, TablesKept
  <2> QED BY Zenon, <2>3, <2>4 DEF ServerInv, Tables
<1> QED BY Zenon, <1>1, <1>2 DEF Inductive

(***************************************************************************)
(* The inductive invariant holds until the tables first grow, and for good *)
(* if realloc's memory is cleared.                                         *)
(***************************************************************************)
THEOREM ServerInvariant ==
  ASSUME Settings
  PROVE  Spec => [](Trusted => ServerInv)
<1>1. Init => Inductive
  BY Zenon, InductiveStarts
<1>2. Inductive /\ [Next]_vars => Inductive'
  BY Zenon, InductiveKeeps
<1>3. Inductive => (Trusted => ServerInv)
  BY Zenon DEF Inductive
<1> QED BY <1>1, <1>2, <1>3, PTL DEF Spec

(***************************************************************************)
(* The types of the variables.                                             *)
(***************************************************************************)
THEOREM ServerTypeOK ==
  ASSUME Settings
  PROVE  Spec => [](Trusted => TypeOK)
<1>1. ServerInv => TypeOK
  <2> SUFFICES ASSUME ServerInv  PROVE TypeOK
    OBVIOUS
  <2>1. Places /\ g_should_shutdown \in BOOLEAN /\ sigpipe \in BOOLEAN
    BY Zenon DEF ServerInv, ControlInv, Places
  <2>2. backlog \in 0..MaxClients
    BY <2>1, ServerAssumption DEF Places
  <2>3. TablesTypeOK /\ open \subseteq FirstFd..LastFd /\ closing \subseteq open
    BY DEF ServerInv, TablesInv
  <2> QED BY Zenon, <2>1, <2>2, <2>3 DEF TypeOK, Places
<1> QED BY <1>1, ServerInvariant, PTL

(***************************************************************************)
(* Whenever the event loop uses the two tables side by side, they hold the *)
(* same live connections at the same indices, whatever was accepted,       *)
(* closed, compacted and resized before.                                   *)
(***************************************************************************)
THEOREM ServerTablesAgree ==
  ASSUME Settings
  PROVE  Spec => [](Trusted => TablesAgree)
<1>1. ServerInv => TablesAgree
  <2> SUFFICES ASSUME ServerInv, main \in Looping \ {"update"}  PROVE SameConnections
    BY DEF TablesAgree
  <2>1. InStep(FALSE) /\ QueueInv /\ Descriptors
    BY ServerDescriptors DEF ServerInv, TablesInv, Filled
  <2> QED BY <2>1, InStepIsSame
<1> QED BY <1>1, ServerInvariant, PTL

(***************************************************************************)
(* On every way through start-up, loop and shutdown each open descriptor   *)
(* has an owner that will close it, but for one for each call that failed. *)
(***************************************************************************)
THEOREM ServerNothingLeaked ==
  ASSUME Settings
  PROVE  Spec => [](Trusted => NothingLeaked)
<1>1. ServerInv => NothingLeaked
  BY DEF ServerInv
<1> QED BY <1>1, ServerInvariant, PTL

(***************************************************************************)
(* The server never has more than MAX_CONNECTIONS + 1 connections.         *)
(***************************************************************************)
THEOREM ServerWithinLimit ==
  ASSUME Settings
  PROVE  Spec => [](Trusted => WithinLimit)
<1>1. ServerInv => WithinLimit
  BY DEF ServerInv, TablesInv
<1> QED BY <1>1, ServerInvariant, PTL
-----------------------------------------------------------------------------
(***************************************************************************)
(* No wakeup is lost.                                                      *)
(***************************************************************************)

\* The main thread does not come back to its start-up or its loop.
LEMMA NoWayBack ==
  ASSUME [Next]_vars
  PROVE  /\ main' \in {"pipe", "signals"} =>
              main \in {"pipe", "signals"} /\ (main' = main \/ MakePipe)
         /\ main' \in Starting \cup Looping => main \in Starting \cup Looping
<1> USE DEF Goto, Starting, Looping
<1> DEFINE Forward ==
      /\ main' \in {"pipe", "signals"} =>
           main \in {"pipe", "signals"} /\ (main' = main \/ MakePipe)
      /\ main' \in Starting \cup Looping => main \in Starting \cup Looping
<1>1. StartUp => Forward
  BY DEF StartUp, MakePipe, StartSignalThread, StartConnmgr, StartTpool, StartListener,
    CreateListenerConn, CreatePipeConn
<1>2. Round => Forward
  BY DEF Round, LoopEnds, Reap, UpdateConns, AddConn, AddedAll, PollServer,
    PollReturns, VisitListener, VisitPipe, VisitOther, VisitedAll, Accept, Accepting,
    AcceptedAll, AcceptNoFd, AcceptFull
<1>3. Exit => Forward
  BY DEF Exit, WaitPool, CleanupConnections, DestroyTpool, DestroyConnmgr,
    TestShutdown, KillSignalThread, JoinSignalThread, ClosePipe
<1>4. CallFails => Forward
  BY DEF CallFails, StartFails, AddFails, PollFails, VisitFails, AcceptNoBuffer,
    AcceptBlocking, Accepting, AcceptNoContext, AcceptFails
<1>5. SigWakeMain => Forward
  <2>1. SigWakeMain => main' = main
    BY Zenon DEF SigWakeMain
  <2> QED BY <2>1
<1>6. Environment => Forward
  <2>1. SigReceived \/ SigWaitFails => main' = main
    BY Zenon DEF SigReceived, SigWaitFails
  <2>2. ClientConnects \/ (\E fd \in open : ConnCloses(fd)) => main' = main
    BY DEF ClientConnects, ConnCloses
  <2>3. PollClient \/ PollBlocks \/ Ended => Forward
    BY DEF PollClient, PollReturns, PollBlocks, Ended, vars
  <2> QED BY <2>1, <2>2, <2>3 DEF Environment
<1>7. UNCHANGED vars => Forward
  BY DEF vars
<1> QED BY Zenon, <1>1, <1>2, <1>3, <1>4, <1>5, <1>6, <1>7 DEF Next, Main

\* The internal connections are queued before the loop begins, and no step of the
\* loop takes them away: they never close.
LEMMA InternalKeeps ==
  ASSUME Settings, ServerInv, Trusted', InternalInv, [Next]_vars
  PROVE  InternalInv'
<1> USE DEF Goto, Fault, Loss, clientVars, faultVars
<1> DEFINE Internal == {sfd, PipeRead}
           Calm == /\ UNCHANGED connVars
                   /\ closing' \cap Internal \subseteq closing
                   /\ main' \in Looping => main \in Looping
                   /\ main' = "poll" => main = "poll" \/ p_new_conns = <<>>
           Leaves == main' \notin Looping /\ closing' \cap Internal \subseteq closing
<1>1. /\ main \in Looping => Internal \subseteq Active \cup Queued
      /\ main = "poll" => p_new_conns = <<>>
      /\ closing \cap Internal = {}
  BY DEF InternalInv
<1>2. Calm => InternalInv'
  <2>1. UNCHANGED connVars =>
          Active' = Active /\ Queued' = Queued /\ p_new_conns' = p_new_conns
    BY Zenon DEF connVars, Active, Queued
  <2> QED BY <1>1, <2>1 DEF InternalInv
<1>3. Leaves => InternalInv'
  BY <1>1 DEF InternalInv, Looping
<1> HIDE DEF Internal
<1>4. StartUp => InternalInv'
  <2>1. MakePipe \/ StartSignalThread \/ StartConnmgr \/ StartTpool \/ StartListener
          \/ CreateListenerConn => Leaves
    BY DEF MakePipe, StartSignalThread, StartConnmgr, StartTpool, StartListener,
      CreateListenerConn, Looping
  <2>2. ASSUME CreatePipeConn  PROVE InternalInv'
    <3>1. Internal \subseteq Active' \cup Queued' /\ closing' = closing
      BY Zenon, <2>2, CreateInternalKeeps DEF Internal
    <3>2. main' = "loop"
      BY <2>2 DEF CreatePipeConn
    <3> QED BY <1>1, <3>1, <3>2 DEF InternalInv, Internal
  <2> QED BY Zenon, <1>3, <2>1, <2>2 DEF StartUp
<1>5. Round => InternalInv'
  <2>1. LoopEnds \/ AddedAll => Calm
    BY DEF LoopEnds, AddedAll, Looping
  <2>2. PollServer \/ VisitListener \/ VisitPipe \/ VisitOther \/ VisitedAll => Calm
    BY DEF PollServer, PollReturns, VisitListener, VisitPipe, VisitOther, VisitedAll, Looping
  <2>3. AcceptedAll \/ AcceptNoFd \/ AcceptFull => Calm
    BY DEF AcceptedAll, AcceptNoFd, AcceptFull, Looping
  <2>4. ASSUME NEW gone \in SUBSET closing, Reap(gone)  PROVE InternalInv'
    <3>1. Active' = Active \ gone /\ Queued' = Queued
      BY Zenon, <2>4, ReapKeeps
    <3>2. main = "loop" /\ main' = "update" /\ closing' = closing \ gone
      BY Zenon, <2>4 DEF Reap
    <3> QED BY <1>1, <3>1, <3>2 DEF InternalInv, Internal, Looping
  <2>5. ASSUME UpdateConns  PROVE InternalInv'
    <3>1. Active' = Active /\ Queued' = Queued
      BY Zenon, <2>5, UpdateConnsKeeps
    <3>2. main = "update" /\ main' = "add" /\ closing' = closing
      BY <2>5 DEF UpdateConns
    <3> QED BY <1>1, <3>1, <3>2 DEF InternalInv, Internal, Looping
  <2>6. ASSUME NEW v \in Fresh, AddConn(v)  PROVE InternalInv'
    <3>1. Active' \cup Queued' = Active \cup Queued
      BY Zenon, <2>6, AddConnKeeps
    <3>2. main = "add" /\ main' = "add" /\ closing' = closing
      BY <2>6 DEF AddConn
    <3> QED BY <1>1, <3>1, <3>2 DEF InternalInv, Internal, Looping
  <2>7. ASSUME Accept  PROVE InternalInv'
    <3>1. Active' = Active /\ Queued \subseteq Queued'
      BY Zenon, <2>7, AcceptKeeps
    <3>2. main = "accept" /\ main' = "accept" /\ closing' = closing
      BY <2>7 DEF Accept, Accepting
    <3> QED BY <1>1, <3>1, <3>2 DEF InternalInv, Internal, Looping
  <2> QED BY Zenon, <1>2, <2>1, <2>2, <2>3, <2>4, <2>5, <2>6, <2>7 DEF Round
<1>6. Exit => InternalInv'
  <2>1. Exit => Leaves
    BY DEF Exit, WaitPool, CleanupConnections, DestroyTpool, DestroyConnmgr,
      TestShutdown, KillSignalThread, JoinSignalThread, ClosePipe, Looping
  <2> QED BY Zenon, <1>3, <2>1
<1>7. CallFails => InternalInv'
  <2>1. StartFails \/ (\E v \in Fresh : AddFails(v)) \/ PollFails \/ VisitFails
          \/ AcceptBlocking \/ AcceptNoContext \/ AcceptFails => Leaves
    BY DEF StartFails, AddFails, PollFails, VisitFails, AcceptBlocking, Accepting,
      AcceptNoContext, AcceptFails, Looping
  <2>2. AcceptNoBuffer => Calm
    BY DEF AcceptNoBuffer, Accepting
  <2> QED BY Zenon, <1>2, <1>3, <2>1, <2>2 DEF CallFails
<1>8. SigWakeMain => InternalInv'
  <2>1. SigWakeMain => UNCHANGED <<connVars, main, clientVars>>
    BY Zenon DEF SigWakeMain
  <2> QED BY <1>2, <2>1
<1>9. Environment => InternalInv'
  <2>1. SigReceived \/ SigWaitFails => UNCHANGED <<connVars, main, clientVars>>
    BY Zenon DEF SigReceived, SigWaitFails
  <2>2. SigReceived \/ SigWaitFails => Calm
    BY <2>1
  <2>3. ClientConnects \/ (\E fd \in open : ConnCloses(fd)) => Calm
    BY DEF ClientConnects, ConnCloses, Internal
  <2>4. PollClient \/ PollBlocks \/ Ended => Calm
    BY DEF PollClient, PollReturns, PollBlocks, Ended, vars, Looping
  <2> QED BY Zenon, <1>2, <2>2, <2>3, <2>4 DEF Environment
<1>10. UNCHANGED vars => InternalInv'
  <2>1. UNCHANGED vars => Calm
    BY DEF vars
  <2> QED BY Zenon, <1>2, <2>1
<1> QED BY Zenon, <1>4, <1>5, <1>6, <1>7, <1>8, <1>9, <1>10 DEF Next, Main

\* The flag is set before the byte is written, and the pipe is there as long as
\* the main thread has not left its loop.
LEMMA SignalKeeps ==
  ASSUME Settings, ServerInv, InternalInv, SignalInv, [Next]_vars
  PROVE  SignalInv'
<1>1. /\ main \in {"pipe", "signals"} => sig = "none"
      /\ g_should_shutdown => sig \in {"write", "done"}
      /\ g_should_shutdown /\ sig = "done" /\ main \in Starting \cup Looping => sigpipe
  BY Zenon DEF SignalInv
<1>2. /\ main' \in {"pipe", "signals"} =>
           main \in {"pipe", "signals"} /\ (main' = main \/ MakePipe)
      /\ main' \in Starting \cup Looping => main \in Starting \cup Looping
  BY Zenon, NoWayBack
<1>3. CASE g_should_shutdown' = g_should_shutdown /\ sigpipe' = sigpipe /\ sig' = sig
  BY Zenon, <1>1, <1>2, <1>3 DEF SignalInv
<1>4. CASE SigReceived
  <2>1. sig = "sigwait" /\ sig' = "write" /\ main' = main
    BY Zenon, <1>4 DEF SigReceived
  <2> QED BY <1>1, <2>1 DEF SignalInv
<1>5. CASE SigWaitFails
  <2>1. /\ sig = "sigwait" /\ sig' = "done" /\ main' = main
        /\ g_should_shutdown' = g_should_shutdown
    BY Zenon, <1>5 DEF SigWaitFails
  <2>2. sig \notin {"write", "done", "none"}
    BY <2>1
  <2>3. ~g_should_shutdown /\ main \notin {"pipe", "signals"}
    BY Zenon, <1>1, <2>2
  <2> QED BY Zenon, <2>1, <2>3 DEF SignalInv
<1>6. CASE StartSignalThread
  <2>1. /\ main = "signals" /\ sig' = "sigwait" /\ main' = "connmgr"
        /\ g_should_shutdown' = g_should_shutdown
    BY Zenon, <1>6 DEF StartSignalThread, Goto
  <2>2. sig \notin {"write", "done"} /\ main' \notin {"pipe", "signals"}
    BY <1>1, <2>1
  <2>3. ~g_should_shutdown
    BY Zenon, <1>1, <2>2
  <2> QED BY Zenon, <2>1, <2>2, <2>3 DEF SignalInv
<1>7. CASE SigWakeMain
  <2>1. /\ sig = "write" /\ sig' = "done" /\ main' = main
        /\ sigpipe' = (PipeRead \in open)
    BY Zenon, <1>7 DEF SigWakeMain
  <2>2. main \notin {"pipe", "signals"}
    BY <1>1, <2>1
  <2>3. main \in Starting \cup Looping => PipeRead \in open
    <3>1. CASE main \in Looping
      <4>1. Active \subseteq open
        <5>1. Descriptors /\ (InStep(FALSE) \/ InStep(TRUE))
          BY <3>1, ServerDescriptors DEF ServerInv, TablesInv, Filled
        <5> QED BY Zenon, <5>1, InStepActive
      <4>2. Queued \subseteq open
        BY DEF ServerInv, TablesInv, QueueInv, Queued
      <4> QED BY <3>1, <4>1, <4>2 DEF InternalInv
    <3>2. CASE main \in Starting
      BY <2>2, <3>2 DEF ServerInv, StartInv, Starting
    <3> QED BY <3>1, <3>2
  <2>4. main' \in Starting \cup Looping => sigpipe'
    BY Zenon, <2>1, <2>3
  <2> QED BY Zenon, <2>1, <2>2, <2>4 DEF SignalInv
<1> QED BY Zenon, <1>3, <1>4, <1>5, <1>6, <1>7, SignalSteps

(***************************************************************************)
(* poll never sleeps while a client waits to be accepted, nor once the     *)
(* signal thread has written its byte, even if it did so before the loop   *)
(* began or while main was on its way into poll.                           *)
(***************************************************************************)
THEOREM ServerNoLostWakeup ==
  ASSUME Settings
  PROVE  Spec => [](Trusted => NoLostWakeup)
<1>1. Init => WakeInv
  <2> SUFFICES ASSUME Init  PROVE WakeInv
    OBVIOUS
  <2>1. /\ main = "pipe" /\ sig = "none" /\ closing = {} /\ ~g_should_shutdown
    BY Zenon DEF Init
  <2>2. InternalInv
    BY <2>1 DEF InternalInv, Looping
  <2>3. SignalInv
    BY Zenon, <2>1 DEF SignalInv
  <2> QED BY <2>2, <2>3 DEF WakeInv
<1>2. ASSUME Inductive, Trusted => WakeInv, [Next]_vars, Trusted'  PROVE WakeInv'
  <2>1. ServerInv /\ WakeInv
    BY Zenon, <1>2, TrustedBefore DEF Inductive
  <2> QED BY Zenon, <1>2, <2>1, InternalKeeps, SignalKeeps DEF WakeInv
<1>3. ServerInv /\ WakeInv => NoLostWakeup
  <2> SUFFICES ASSUME ServerInv, WakeInv, main = "poll",
                      backlog > 0 \/ (g_should_shutdown /\ sig = "done")
               PROVE  PollIn # {}
    BY Zenon DEF NoLostWakeup
  <2>1. {sfd, PipeRead} \subseteq Active
    <3>1. main \in Looping
      BY DEF Looping
    <3> QED BY <3>1, NoConnections DEF WakeInv, InternalInv
  <2>2. InStep(FALSE) /\ Descriptors /\ QueueInv
    BY ServerDescriptors DEF ServerInv, TablesInv, Filled, Looping
  <2>3. Active \subseteq Polled
    <3>1. Active = {p_conns.buf[i] : i \in 0..(num_active_conns - 1)} \ {NULL}
      BY Zenon, <2>2, InStepActive
    <3>2. \A i \in 0..(num_active_conns - 1) : p_pfds[i] = p_conns.buf[i]
      BY <2>2, InStepIsSame DEF SameConnections
    <3> QED BY <3>1, <3>2 DEF Polled
  <2>4. CASE backlog > 0
    BY <2>1, <2>3, <2>4 DEF PollIn
  <2>5. CASE g_should_shutdown /\ sig = "done"
    <3>1. main \in Starting \cup Looping
      BY DEF Looping
    <3>2. sigpipe
      BY Zenon, <2>5, <3>1 DEF WakeInv, SignalInv
    <3>3. PipeRead \in PollIn
      BY Zenon, <2>1, <2>3, <3>2 DEF PollIn
    <3> QED BY <3>3
  <2> QED BY Zenon, <2>4, <2>5
<1> DEFINE J == Inductive /\ (Trusted => WakeInv)
<1>4. Init => J
  BY Zenon, <1>1, InductiveStarts
<1>5. J /\ [Next]_vars => J'
  BY Zenon, <1>2, InductiveKeeps
<1>6. J => (Trusted => NoLostWakeup)
  BY Zenon, <1>3 DEF Inductive
<1> QED BY <1>4, <1>5, <1>6, PTL DEF Spec
=============================================================================
