------------------------------ MODULE TaskPool ------------------------------
(***************************************************************************)
(* What the thread pool of concurinc promises to its caller, with no       *)
(* threads, locks or condition variables: accepted tasks wait in the order *)
(* of their submission, each one is taken at most once and only from the   *)
(* front, none is taken once the pool is closed, and what still waits may  *)
(* be discarded only when nobody is working any more.                      *)
(***************************************************************************)
EXTENDS Naturals, Sequences

CONSTANT Tasks

VARIABLES
  accepted, \* every task the pool ever took in
  pending,  \* accepted and not yet taken, oldest first
  running,  \* taken and not yet completed
  done,     \* completed
  closed    \* no task may be taken any more

apVars == <<accepted, pending, running, done, closed>>

ApInit ==
  /\ accepted = {}
  /\ pending = <<>>
  /\ running = {}
  /\ done = {}
  /\ closed = FALSE

ApSubmit(t) ==
  /\ t \notin accepted
  /\ accepted' = accepted \cup {t}
  /\ pending' = Append(pending, t)
  /\ UNCHANGED <<running, done, closed>>

\* The oldest task leaves the queue. A worker that hits a fatal error right
\* there drops it; the task never comes back.
ApTake(dropped) ==
  /\ ~closed
  /\ pending # <<>>
  /\ Head(pending) \notin running \cup done
  /\ pending' = Tail(pending)
  /\ running' = IF dropped THEN running ELSE running \cup {Head(pending)}
  /\ UNCHANGED <<accepted, done, closed>>

ApFinish(t) ==
  /\ t \in running
  /\ running' = running \ {t}
  /\ done' = done \cup {t}
  /\ UNCHANGED <<accepted, pending, closed>>

\* A worker hit a fatal error: its task is neither completed nor retried.
ApAbandon(t) ==
  /\ t \in running
  /\ running' = running \ {t}
  /\ UNCHANGED <<accepted, pending, done, closed>>

ApClose ==
  /\ closed' = TRUE
  /\ UNCHANGED <<accepted, pending, running, done>>

ApDiscard ==
  /\ closed
  /\ running = {}
  /\ pending' = <<>>
  /\ UNCHANGED <<accepted, running, done, closed>>

ApNext ==
  \/ \E t \in Tasks : ApSubmit(t) \/ ApFinish(t) \/ ApAbandon(t)
  \/ \E dropped \in BOOLEAN : ApTake(dropped)
  \/ ApClose
  \/ ApDiscard

ApSpec == ApInit /\ [][ApNext]_apVars
=============================================================================
