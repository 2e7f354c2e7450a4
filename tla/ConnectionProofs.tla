-------------------------- MODULE ConnectionProofs --------------------------
(***************************************************************************)
(* Proofs about Connection: the life time of the connection's context, for *)
(* every number of messages, workers, outstanding tasks and failing calls. *)
(***************************************************************************)
EXTENDS Connection, TLAPS

USE ConnectionAssumption DEF ConnectionAssumption

\* Everything that happens to the references happens in main and in the tasks:
\* the client, the network and the signal thread leave them alone.
LEMMA OutsideFrame ==
  ASSUME RefInv, UNCHANGED <<loopVars, ref_count, reads, sends>>
  PROVE  RefInv'
BY DEF RefInv, RefsCounted, Outstanding, loopVars

\* A task drops the reference it was submitted with.
LEMMA TaskKeepsRefs ==
  ASSUME RefInv, TaskRead \/ TaskSend
  PROVE  RefInv'
<1>1. CASE TaskRead
  BY <1>1 DEF RefInv, RefsCounted, Outstanding, TaskRead, loopVars
<1>2. CASE TaskSend
  BY <1>2 DEF RefInv, RefsCounted, Outstanding, TaskSend, loopVars
<1> QED
  BY <1>1, <1>2

\* Every step keeps the reference invariant, one case for each action.
LEMMA RefInvStep == RefInv /\ [Next]_vars => RefInv'
<1> SUFFICES ASSUME RefInv, [Next]_vars PROVE RefInv'
  OBVIOUS
<1>1. CASE Client
  BY <1>1, OutsideFrame DEF Client, ClientSend, ClientRecv, ClientClose, ClientReset
<1>2. CASE Network
  BY <1>2, OutsideFrame DEF Network, Deliver
<1>3. CASE ReadTask
  <2>1. CASE ReadOverrun
    BY <2>1 DEF RefInv, RefsCounted, Outstanding, ReadOverrun, Defined
  <2> QED
    BY <1>3, <2>1, TaskKeepsRefs DEF ReadTask, ReadSkips, ReadHeader, ReadContent
<1>4. CASE SendTask
  BY <1>4, TaskKeepsRefs DEF SendTask, SendSkips, WriteResponse
<1>5. CASE Check
  BY <1>5 DEF RefInv, RefsCounted, Outstanding, Check
<1>6. CASE Reap
  BY <1>6 DEF RefInv, RefsCounted, Outstanding, Reap
<1>7. CASE Poll
  BY <1>7 DEF RefInv, RefsCounted, Outstanding, Poll
<1>8. CASE PollIn
  BY <1>8 DEF RefInv, RefsCounted, Outstanding, PollIn
<1>9. CASE PollHup
  BY <1>9 DEF RefInv, RefsCounted, Outstanding, PollHup
<1>10. CASE PollOut
  BY <1>10 DEF RefInv, RefsCounted, Outstanding, PollOut
<1>11. CASE DestroyAllConns
  BY <1>11 DEF RefInv, RefsCounted, Outstanding, DestroyAllConns
<1>12. CASE PollInFails
  <2> USE DEF Fault
  <2>1. CASE reads' = reads
    BY <1>12, <2>1 DEF RefInv, RefsCounted, Outstanding, PollInFails
  <2>2. CASE reads' = reads + 1
    BY <1>12, <2>2 DEF RefInv, RefsCounted, Outstanding, PollInFails
  <2> QED
    BY <1>12, <2>1, <2>2 DEF PollInFails
<1>13. CASE PollOutFails
  <2> USE DEF Fault
  <2>1. CASE sends' = sends
    BY <1>13, <2>1 DEF RefInv, RefsCounted, Outstanding, PollOutFails
  <2>2. CASE sends' = sends + 1
    BY <1>13, <2>2 DEF RefInv, RefsCounted, Outstanding, PollOutFails
  <2> QED
    BY <1>13, <2>1, <2>2 DEF PollOutFails
<1>14. CASE ShutDown
  BY <1>14, OutsideFrame DEF ShutDown
<1>15. CASE UNCHANGED vars
  BY <1>15, OutsideFrame DEF vars
<1>16. CASE WaitPool
  BY <1>16 DEF RefInv, RefsCounted, Outstanding, WaitPool
<1>17. CASE PollFails \/ LoopGivesUp \/ WaitPoolFails
  BY <1>17 DEF RefInv, RefsCounted, Outstanding, PollFails, LoopGivesUp, WaitPoolFails, Fault
<1> QED
  BY <1>1, <1>2, <1>3, <1>4, <1>5, <1>6, <1>7, <1>8, <1>9, <1>10, <1>11, <1>12, <1>13,
     <1>14, <1>15, <1>16, <1>17 DEF Next, Loop, LoopFault, Ended

\* Every task that may still run is counted, whatever fails.
THEOREM ConnectionRefs == Spec => []RefInv
<1>1. Init => RefInv
  BY DEF Init, RefInv, RefsCounted, Outstanding
<1> QED
  BY <1>1, RefInvStep, PTL DEF Spec

\* The event loop destroys a connection only when no task will use it.
THEOREM ConnectionReapSafe == Spec => ReapSafe
<1>1. RefInv /\ [Next]_vars => [main = "reap" /\ freed' => Outstanding = 0]_vars
  <2> SUFFICES ASSUME RefInv, Next, main = "reap", freed' PROVE Outstanding = 0
    OBVIOUS
  <2>1. ~freed
    BY DEF RefInv
  <2>2. CASE Reap
    <3>1. CASE cur.state = "PENDING_CLOSE" /\ cur.refs = 0
      BY <3>1 DEF RefInv, RefsCounted, Outstanding
    <3>2. CASE ~(cur.state = "PENDING_CLOSE" /\ cur.refs = 0)
      <4>1. freed' = freed
        BY <2>2, <3>2 DEF Reap
      <4> QED
        BY <2>1, <4>1
    <3> QED
      BY <3>1, <3>2
  <2>3. CASE freed' = freed
    BY <2>1, <2>3
  <2>4. Reap \/ freed' = freed
    <3>1. CASE Client \/ Network \/ ShutDown \/ Ended
      BY <3>1 DEF Client, ClientSend, ClientRecv, ClientClose, ClientReset, Network, Deliver,
                  ShutDown, Ended, loopVars, vars
    <3>2. CASE ReadTask \/ SendTask
      BY <3>2 DEF ReadTask, ReadSkips, ReadHeader, ReadContent, ReadOverrun, SendTask,
                  SendSkips, WriteResponse, TaskRead, TaskSend, loopVars
    <3>3. CASE Loop \/ LoopFault
      BY <3>3 DEF Loop, LoopFault, Check, Poll, PollIn, PollHup, PollOut, WaitPool,
                  DestroyAllConns, PollFails, LoopGivesUp, WaitPoolFails, PollInFails,
                  PollOutFails
    <3> QED
      BY <3>1, <3>2, <3>3 DEF Next
  <2> QED
    BY <2>2, <2>3, <2>4
<1> QED
  BY <1>1, ConnectionRefs, PTL DEF Spec, ReapSafe

\* ref_count is the number of tasks submitted and not run, but for at most one
\* reference left over by each failure.
THEOREM ConnectionRefsCounted == Spec => []RefsCounted
<1>1. RefInv => RefsCounted
  BY DEF RefInv
<1> QED
  BY <1>1, ConnectionRefs, PTL

\* No task and no visit of the event loop revives a connection in PENDING_CLOSE,
\* and nothing more is written to it.
THEOREM ConnectionClosedIsFinal == Spec => ClosedIsFinal
<1>1. [Next]_vars => [state = "PENDING_CLOSE" => state' = "PENDING_CLOSE" /\ UNCHANGED delivered]_vars
  <2> SUFFICES ASSUME Next, state = "PENDING_CLOSE"
               PROVE  state' = "PENDING_CLOSE" /\ UNCHANGED delivered
    OBVIOUS
  <2>1. CASE Client \/ Network \/ ShutDown \/ Ended
    BY <2>1 DEF Client, ClientSend, ClientRecv, ClientClose, ClientReset, Network, Deliver,
                ShutDown, Ended, sendVars, vars
  <2>2. CASE ReadTask
    BY <2>2 DEF ReadTask, ReadSkips, ReadHeader, ReadContent, ReadOverrun, TaskRead
  <2>3. CASE SendTask
    BY <2>3 DEF SendTask, SendSkips, WriteResponse, sendVars
  <2>4. CASE Loop \/ LoopFault
    BY <2>4 DEF Loop, LoopFault, Check, Reap, Poll, PollIn, PollHup, PollOut,
                WaitPool, DestroyAllConns, PollFails, LoopGivesUp, WaitPoolFails, PollInFails,
                PollOutFails, sendVars
  <2> QED
    BY <2>1, <2>2, <2>3, <2>4 DEF Next
<1> QED
  BY <1>1, PTL DEF Spec, ClosedIsFinal
=============================================================================
