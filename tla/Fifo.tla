-------------------------------- MODULE Fifo --------------------------------
(***************************************************************************)
(* What ezqueue.c promises its callers: a first-in first-out queue that    *)
(* refuses an item only when it holds UINT16_MAX of them or when there is  *)
(* no memory, and that an unsuccessful call leaves as it was.              *)
(***************************************************************************)
EXTENDS Naturals, Sequences

CONSTANTS
  Items,     \* the pointers that are stored
  NoItem,    \* no pointer was handed out
  Capacity   \* UINT16_MAX

VARIABLES
  queue,     \* the items, oldest first
  out,       \* the item the last call handed out
  ok,        \* whether the last call succeeded
  faults     \* allocations that have failed

vars == <<queue, out, ok, faults>>

Init == queue = <<>> /\ out = NoItem /\ ok = TRUE /\ faults = 0

Put(x) ==
  /\ Len(queue) < Capacity
  /\ queue' = Append(queue, x)
  /\ out' = NoItem /\ ok' = TRUE
  /\ UNCHANGED faults

PutRefused ==
  /\ Len(queue) = Capacity \/ faults' = faults + 1
  /\ faults' \in {faults, faults + 1}
  /\ out' = NoItem /\ ok' = FALSE
  /\ UNCHANGED queue

Get ==
  /\ queue # <<>>
  /\ out' = Head(queue)
  /\ queue' = Tail(queue)
  /\ ok' = TRUE
  /\ UNCHANGED faults

GetRefused ==
  /\ queue = <<>>
  /\ out' = NoItem /\ ok' = FALSE
  /\ UNCHANGED <<queue, faults>>

\* The queue is made or thrown away, with what is left in it.
Discard ==
  /\ queue' = <<>>
  /\ out' = NoItem /\ ok' \in BOOLEAN
  /\ faults' \in {faults, faults + 1}

\* A call that only returns.
Return ==
  /\ out' = NoItem /\ ok' = TRUE
  /\ UNCHANGED <<queue, faults>>

Next ==
  \/ \E x \in Items : Put(x)
  \/ PutRefused \/ Get \/ GetRefused \/ Discard \/ Return

Spec == Init /\ [][Next]_vars
=============================================================================
