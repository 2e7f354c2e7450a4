------------------------------ MODULE EzQueue -------------------------------
(***************************************************************************)
(* The ring buffer of ezqueue.c, which connmgr.c keeps accepted            *)
(* connections in until the event loop takes them over.  Only the main     *)
(* thread calls it, so a call is a step; ezq_clear, which calls            *)
(* ezq_dequeue in a loop, is one step per call of ezq_dequeue.             *)
(*                                                                         *)
(* The indices are uint16_t: -1 is stored as U16Max.                       *)
(***************************************************************************)
EXTENDS Integers, Sequences

CONSTANTS
  Items,      \* the pointers that are stored
  NoItem,     \* what a slot holds that was never written, or no item
  U16Max,     \* UINT16_MAX
  InitialMax, \* INITIAL_MAX_CONNS
  MaxFaults   \* bound: failing allocations

ASSUME EzQueueAssumption ==
  /\ U16Max \in Nat /\ InitialMax \in 1..U16Max
  /\ MaxFaults \in Nat
  /\ NoItem \notin Items

VARIABLES
  pp_buf, num_items, max_items, idx_head, idx_tail,   \* ezqueue_t
  clearing,   \* ezq_clear is in its loop
  out,        \* the item ezq_dequeue has stored through pp_out
  ok,         \* whether the last call returned 0
  faults

queueVars == <<pp_buf, num_items, max_items, idx_head, idx_tail>>
vars == <<queueVars, clearing, out, ok, faults>>

\* Before ezq_init: connmgr.c allocates the structure and calls ezq_init next.
Init ==
  /\ pp_buf = <<>> /\ num_items = 0 /\ max_items = 0
  /\ idx_head = U16Max /\ idx_tail = U16Max
  /\ clearing = FALSE
  /\ out = NoItem /\ ok = TRUE /\ faults = 0

Fault ==
  /\ faults < MaxFaults
  /\ faults' = faults + 1

Initialised == max_items > 0 /\ ~clearing

EzqInit ==
  /\ max_items = 0
  /\ pp_buf' = [i \in 0..(InitialMax - 1) |-> NoItem]
  /\ max_items' = InitialMax
  /\ idx_head' = U16Max /\ idx_tail' = U16Max /\ num_items' = 0
  /\ out' = NoItem /\ ok' = TRUE
  /\ UNCHANGED <<clearing, faults>>

EzqInitNoMemory ==
  /\ max_items = 0
  /\ Fault
  /\ out' = NoItem /\ ok' = FALSE
  /\ UNCHANGED <<queueVars, clearing>>

EzqDeinit ==
  /\ Initialised
  /\ pp_buf' = <<>> /\ num_items' = 0 /\ max_items' = 0
  /\ idx_head' = U16Max /\ idx_tail' = U16Max
  /\ out' = NoItem /\ ok' = TRUE
  /\ UNCHANGED <<clearing, faults>>
-----------------------------------------------------------------------------
\* Mutant of Slot: the index does not wrap around.
SlotUnwrapped(head, i, max) == head + i

\* The i-th slot behind a head index.
Slot(head, i, max) == (head + i) % max

\* ezq_resize: the size doubles as long as it fits into 16 bits.
NewMax == IF U16Max \div 2 < max_items THEN U16Max ELSE max_items * 2

\* Mutant of Resized: the buffer is copied as it lies.
ResizedInPlace ==
  [i \in 0..(NewMax - 1) |-> IF i < num_items THEN pp_buf[i] ELSE NoItem]

\* ezq_resize: the items are moved to the start of the new buffer.
Resized ==
  [i \in 0..(NewMax - 1) |->
     IF i < num_items THEN pp_buf[Slot(idx_head, i, max_items)] ELSE NoItem]

\* The end of ezq_enqueue, for a buffer that has room.
Place(x, buf, max, head, tail) ==
  LET at == IF num_items = 0 THEN 0 ELSE Slot(tail, 1, max) IN
  /\ idx_head' = IF num_items = 0 THEN 0 ELSE head
  /\ idx_tail' = at
  /\ pp_buf' = [buf EXCEPT ![at] = x]
  /\ max_items' = max
  /\ num_items' = num_items + 1
  /\ out' = NoItem /\ ok' = TRUE
  /\ UNCHANGED <<clearing, faults>>

EzqEnqueue(x) ==
  /\ Initialised
  /\ num_items # max_items
  /\ Place(x, pp_buf, max_items, idx_head, idx_tail)

EzqEnqueueResizing(x) ==
  /\ Initialised
  /\ num_items = max_items /\ max_items # U16Max
  /\ Place(x, Resized, NewMax, 0, num_items - 1)

\* ezq_resize fails: the queue is at its largest size, or malloc fails.
EzqEnqueueFails ==
  /\ Initialised
  /\ num_items = max_items
  /\ IF max_items = U16Max THEN UNCHANGED faults ELSE Fault
  /\ out' = NoItem /\ ok' = FALSE
  /\ UNCHANGED <<queueVars, clearing>>

\* ezq_dequeue of a queue that is not empty.
TakeHead ==
  /\ num_items > 0
  /\ out' = pp_buf[idx_head]
  /\ ok' = TRUE
  /\ IF num_items = 1
     THEN idx_head' = U16Max /\ idx_tail' = U16Max
     ELSE idx_head' = Slot(idx_head, 1, max_items) /\ UNCHANGED idx_tail
  /\ num_items' = num_items - 1
  /\ UNCHANGED <<pp_buf, max_items, clearing, faults>>

EzqDequeue == Initialised /\ TakeHead

EzqDequeueEmpty ==
  /\ Initialised
  /\ num_items = 0
  /\ out' = NoItem /\ ok' = FALSE
  /\ UNCHANGED <<queueVars, clearing, faults>>

\* ezq_clear: free_func gets the items one by one.
EzqClear ==
  /\ Initialised
  /\ clearing' = TRUE
  /\ out' = NoItem /\ ok' = TRUE
  /\ UNCHANGED <<queueVars, faults>>

EzqClearStep == clearing /\ TakeHead

EzqClearEnd ==
  /\ clearing /\ num_items = 0
  /\ clearing' = FALSE
  /\ out' = NoItem /\ ok' = TRUE
  /\ UNCHANGED <<queueVars, faults>>
-----------------------------------------------------------------------------
Next ==
  \/ EzqInit \/ EzqInitNoMemory \/ EzqDeinit
  \/ \E x \in Items : EzqEnqueue(x) \/ EzqEnqueueResizing(x)
  \/ EzqEnqueueFails
  \/ EzqDequeue \/ EzqDequeueEmpty
  \/ EzqClear \/ EzqClearStep \/ EzqClearEnd

Spec == Init /\ [][Next]_vars
-----------------------------------------------------------------------------
(* Properties.                                                             *)

\* The fields keep their types and agree with each other: the indices of an
\* empty queue are the ones ezq_init stores, those of any other point at its
\* first and last item, which are num_items apart around the end of the buffer.
TypeOK ==
  /\ max_items \in 0..U16Max /\ num_items \in 0..max_items
  /\ pp_buf \in [0..(max_items - 1) -> Items \cup {NoItem}]
  /\ IF num_items = 0
     THEN idx_head = U16Max /\ idx_tail = U16Max
     ELSE /\ idx_head \in 0..(max_items - 1)
          /\ idx_tail = (idx_head + num_items - 1) % max_items
  /\ clearing \in BOOLEAN /\ (clearing => max_items > 0)
  /\ out \in Items \cup {NoItem}
  /\ ok \in BOOLEAN
  /\ faults \in 0..MaxFaults

\* The items from the head on: what the ring buffer stands for.
Contents == [i \in 1..num_items |-> pp_buf[(idx_head + i - 1) % max_items]]

F == INSTANCE Fifo WITH Capacity <- U16Max, queue <- Contents

\* Through wrap-around and resizing, at the largest size and without memory,
\* the ring buffer hands out what was put in, in that order, and refuses
\* nothing it has room for.
FifoRefinement == F!Spec
=============================================================================
