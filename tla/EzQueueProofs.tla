--------------------------- MODULE EzQueueProofs ----------------------------
(***************************************************************************)
(* The ring buffer keeps its invariant and implements Fifo, for every size *)
(* of the index type and every initial size.                               *)
(***************************************************************************)
EXTENDS EzQueue, TLAPS

\* An index that has run past the end of the buffer wraps around once.
LEMMA WrapsOnce ==
  ASSUME NEW max \in Nat \ {0}, NEW x \in 0..(2 * max - 1)
  PROVE  x % max = IF x < max THEN x ELSE x - max
<1> DEFINE q == x \div max
<1>1. q \in Int /\ x % max \in 0..(max - 1) /\ x = max * q + (x % max)
  BY SMT
<1> HIDE DEF q
<1>2. CASE q <= -1
  <2>1. max * q <= max * (-1)  BY <1>1, <1>2, SMT
  <2> QED  BY <1>1, <2>1, SMT
<1>3. CASE q >= 2
  <2>1. max * q >= max * 2  BY <1>1, <1>3, SMT
  <2> QED  BY <1>1, <2>1, SMT
<1>4. CASE q = 0
  BY <1>1, <1>4, SMT
<1>5. CASE q = 1
  BY <1>1, <1>5, SMT
<1> QED  BY <1>1, <1>2, <1>3, <1>4, <1>5, SMT

\* What the modulo of ezq_enqueue, ezq_dequeue and ezq_resize computes.
LEMMA SlotValue ==
  ASSUME NEW max \in Nat \ {0}, NEW head \in 0..(max - 1), NEW i \in 0..max
  PROVE  /\ (head + i) % max = IF head + i < max THEN head + i ELSE head + i - max
         /\ (head + i) % max \in 0..(max - 1)
<1> DEFINE sum == head + i
           slot == sum % max
<1>1. sum \in 0..(2 * max - 1)
  BY SMT
<1> HIDE DEF sum
<1>2. slot = IF sum < max THEN sum ELSE sum - max
  BY <1>1, WrapsOnce, Zenon
<1> HIDE DEF slot
<1>3. slot \in 0..(max - 1)
  BY <1>1, <1>2, SMT
<1> QED  BY <1>2, <1>3 DEF slot, sum

\* The slot behind the last item is none of the items' slots.
LEMMA SlotsDistinct ==
  ASSUME NEW max \in Nat \ {0}, NEW head \in 0..(max - 1),
         NEW num \in 0..(max - 1), NEW i \in 0..(num - 1)
  PROVE  (head + i) % max # (head + num) % max
<1> DEFINE at == (head + i) % max
           end == (head + num) % max
<1>1. i \in 0..max /\ num \in 0..max
  OBVIOUS
<1>2. at = IF head + i < max THEN head + i ELSE head + i - max
  BY <1>1, SlotValue
<1>3. end = IF head + num < max THEN head + num ELSE head + num - max
  BY <1>1, SlotValue
<1> HIDE DEF at, end
<1>4. at # end
  BY <1>2, <1>3
<1> QED  BY <1>4 DEF at, end

\* A queue that may grow does: by at least one slot, and never past U16Max.
LEMMA GrowsWithinBound ==
  ASSUME max_items \in 1..(U16Max - 1)
  PROVE  NewMax \in (max_items + 1)..U16Max
BY EzQueueAssumption, SMT DEF NewMax

-----------------------------------------------------------------------------
\* Resizing copies the items, in their order, to the start of a larger buffer.
LEMMA ResizedType ==
  ASSUME TypeOK, num_items = max_items, max_items \in 1..(U16Max - 1)
  PROVE  /\ Resized \in [0..(NewMax - 1) -> Items \cup {NoItem}]
         /\ \A i \in 0..(num_items - 1) :
              Resized[i] = pp_buf[(idx_head + i) % max_items]
<1>1. NewMax \in (max_items + 1)..U16Max
  BY GrowsWithinBound
<1>2. idx_head \in 0..(max_items - 1) /\ pp_buf \in [0..(max_items - 1) -> Items \cup {NoItem}]
  BY DEF TypeOK
<1>3. \A i \in 0..(num_items - 1) : (idx_head + i) % max_items \in 0..(max_items - 1)
  <2> TAKE i \in 0..(num_items - 1)
  <2> QED  BY <1>2, SlotValue
<1> HIDE DEF NewMax
<1>4. ASSUME NEW i \in 0..(NewMax - 1)
      PROVE  (IF i < num_items THEN pp_buf[Slot(idx_head, i, max_items)] ELSE NoItem)
               \in Items \cup {NoItem}
  <2>1. CASE i < num_items
    <3>1. Slot(idx_head, i, max_items) \in 0..(max_items - 1)
      BY <1>1, <1>3, <2>1, EzQueueAssumption DEF Slot
    <3> QED  BY <1>2, <2>1, <3>1
  <2> QED  BY <2>1
<1>5. Resized \in [0..(NewMax - 1) -> Items \cup {NoItem}]
  BY <1>4 DEF Resized
<1>6. \A i \in 0..(num_items - 1) : i \in 0..(NewMax - 1) /\ i < num_items
  BY <1>1, EzQueueAssumption
<1> QED  BY <1>5, <1>6 DEF Resized, Slot

\* The end of ezq_enqueue, for the buffer it is called with.
LEMMA PlaceKeepsType ==
  ASSUME TypeOK, NEW x \in Items,
         NEW max \in 1..U16Max, num_items < max,
         NEW buf \in [0..(max - 1) -> Items \cup {NoItem}],
         NEW head, NEW tail,
         num_items > 0 => /\ head \in 0..(max - 1)
                          /\ tail = (head + num_items - 1) % max,
         ~clearing,
         Place(x, buf, max, head, tail)
  PROVE  TypeOK'
<1> USE EzQueueAssumption
<1>1. /\ max_items' = max /\ num_items' = num_items + 1
      /\ out' = NoItem /\ ok' = TRUE /\ clearing' = clearing /\ faults' = faults
  BY DEF Place
<1>2. num_items \in Nat
  BY DEF TypeOK
<1>3. /\ idx_head' \in 0..(max - 1)
      /\ idx_tail' = (idx_head' + num_items' - 1) % max
      /\ idx_tail' \in 0..(max - 1)
  <2>1. CASE num_items = 0
    <3>1. idx_head' = 0 /\ idx_tail' = 0
      BY <2>1 DEF Place
    <3>2. (0 + 0) % max = 0
      BY SlotValue
    <3> QED  BY <1>1, <2>1, <3>1, <3>2
  <2>2. CASE num_items > 0
    <3>1. idx_head' = head /\ idx_tail' = (tail + 1) % max
      BY <2>2 DEF Place, Slot
    <3> DEFINE last == (head + (num_items - 1)) % max
               next == (head + num_items) % max
               after == (tail + 1) % max
    <3>0. /\ max \in Nat \ {0} /\ head \in 0..(max - 1)
          /\ num_items - 1 \in 0..max /\ num_items \in 0..max /\ 1 \in 0..max
          /\ head + (num_items - 1) = head + num_items - 1
      BY <1>2, <2>2
    <3>2. /\ last = IF head + (num_items - 1) < max THEN head + (num_items - 1)
                    ELSE head + (num_items - 1) - max
          /\ last \in 0..(max - 1)
      BY <3>0, SlotValue
    <3>3. /\ next = IF head + num_items < max THEN head + num_items
                    ELSE head + num_items - max
          /\ next \in 0..(max - 1)
      BY <3>0, SlotValue
    <3>4. tail = last
      BY <2>2, <3>0
    <3>5. after = IF tail + 1 < max THEN tail + 1 ELSE tail + 1 - max
      <4>1. tail \in 0..(max - 1)
        BY <3>2, <3>4
      <4> QED  BY <3>0, <4>1, SlotValue
    <3> HIDE DEF last, next, after
    <3>6. after = next
      BY <1>2, <2>2, <3>0, <3>2, <3>3, <3>4, <3>5
    <3>7. head + num_items = head + (num_items + 1) - 1
      BY <1>2, <2>2
    <3> QED  BY <1>1, <2>2, <3>1, <3>3, <3>6, <3>7 DEF next, after
  <2> QED  BY <1>2, <2>1, <2>2
<1>4. pp_buf' \in [0..(max - 1) -> Items \cup {NoItem}]
  BY DEF Place
<1>5. num_items' \in 0..max_items' /\ num_items' # 0 /\ max_items' \in 0..U16Max
  BY <1>1, <1>2
<1>6. /\ out' \in Items \cup {NoItem} /\ ok' \in BOOLEAN
      /\ clearing' \in BOOLEAN /\ (clearing' => max_items' > 0)
      /\ faults' \in 0..MaxFaults
  BY <1>1 DEF TypeOK
<1> QED  BY <1>1, <1>3, <1>4, <1>5, <1>6 DEF TypeOK

\* ezq_dequeue moves the head to the next item.
LEMMA TakeHeadKeepsType ==
  ASSUME TypeOK, max_items > 0, TakeHead
  PROVE  TypeOK'
<1> USE EzQueueAssumption
<1>1. /\ num_items \in 1..max_items /\ max_items \in 1..U16Max
      /\ idx_head \in 0..(max_items - 1)
      /\ idx_tail = (idx_head + num_items - 1) % max_items
      /\ pp_buf' = pp_buf /\ max_items' = max_items /\ num_items' = num_items - 1
      /\ clearing' = clearing /\ faults' = faults /\ ok' = TRUE
  BY DEF TypeOK, TakeHead
<1>2. out' \in Items \cup {NoItem}
  BY <1>1 DEF TypeOK, TakeHead
<1>3. CASE num_items = 1
  BY <1>1, <1>2, <1>3 DEF TypeOK, TakeHead
<1>4. CASE num_items > 1
  <2>1. /\ (idx_head + 1) % max_items =
             IF idx_head + 1 < max_items THEN idx_head + 1 ELSE idx_head + 1 - max_items
        /\ (idx_head + 1) % max_items \in 0..(max_items - 1)
    BY <1>1, SlotValue
  <2>2. (idx_head + (num_items - 1)) % max_items =
          IF idx_head + (num_items - 1) < max_items THEN idx_head + (num_items - 1)
          ELSE idx_head + (num_items - 1) - max_items
    BY <1>1, SlotValue
  <2>3. idx_head' = (idx_head + 1) % max_items /\ idx_tail' = idx_tail
    BY <1>1, <1>4 DEF TakeHead, Slot
  <2>4. (idx_head' + (num_items' - 1)) % max_items =
          IF idx_head' + (num_items' - 1) < max_items THEN idx_head' + (num_items' - 1)
          ELSE idx_head' + (num_items' - 1) - max_items
    BY <1>1, <1>4, <2>1, <2>3, SlotValue
  <2>5. (idx_head' + (num_items' - 1)) % max_items = (idx_head + (num_items - 1)) % max_items
    BY <1>1, <1>4, <2>1, <2>2, <2>3, <2>4
  <2>6. idx_tail' = (idx_head' + num_items' - 1) % max_items'
    <3>1. idx_head + (num_items - 1) = idx_head + num_items - 1
      BY <1>1
    <3>2. idx_head' + (num_items' - 1) = idx_head' + num_items' - 1
      BY <1>1, <2>1, <2>3
    <3> QED  BY <1>1, <2>3, <2>5, <3>1, <3>2
  <2> QED  BY <1>1, <1>2, <1>4, <2>1, <2>3, <2>6 DEF TypeOK
<1> QED  BY <1>1, <1>3, <1>4

-----------------------------------------------------------------------------
LEMMA InitType == Init => TypeOK
<1> SUFFICES ASSUME Init  PROVE TypeOK
  OBVIOUS
<1>1. pp_buf \in [0..(max_items - 1) -> Items \cup {NoItem}]
  BY DEF Init
<1>2. /\ max_items \in 0..U16Max /\ num_items \in 0..max_items
      /\ faults \in 0..MaxFaults
  BY EzQueueAssumption DEF Init
<1> QED  BY <1>1, <1>2 DEF Init, TypeOK

LEMMA TypeStep == TypeOK /\ [Next]_vars => TypeOK'
<1> SUFFICES ASSUME TypeOK, [Next]_vars  PROVE TypeOK'
  OBVIOUS
<1> USE EzQueueAssumption
<1>1. CASE EzqInit
  BY <1>1 DEF TypeOK, EzqInit
<1>2. CASE EzqInitNoMemory
  <2>1. faults' \in 0..MaxFaults
    BY <1>2 DEF TypeOK, EzqInitNoMemory, Fault
  <2> QED  BY <1>2, <2>1 DEF TypeOK, EzqInitNoMemory, queueVars
<1>3. CASE EzqDeinit
  BY <1>3 DEF TypeOK, EzqDeinit, Initialised
<1>4. ASSUME NEW x \in Items, EzqEnqueue(x)  PROVE TypeOK'
  <2>1. /\ max_items \in 1..U16Max /\ num_items < max_items /\ ~clearing
        /\ pp_buf \in [0..(max_items - 1) -> Items \cup {NoItem}]
        /\ num_items > 0 => /\ idx_head \in 0..(max_items - 1)
                            /\ idx_tail = (idx_head + num_items - 1) % max_items
    BY <1>4 DEF TypeOK, EzqEnqueue, Initialised
  <2>2. Place(x, pp_buf, max_items, idx_head, idx_tail)
    BY <1>4 DEF EzqEnqueue
  <2> QED  BY <2>1, <2>2, PlaceKeepsType
<1>5. ASSUME NEW x \in Items, EzqEnqueueResizing(x)  PROVE TypeOK'
  <2>1. max_items \in 1..(U16Max - 1) /\ num_items = max_items /\ ~clearing
    BY <1>5 DEF TypeOK, EzqEnqueueResizing, Initialised
  <2>2. NewMax \in (max_items + 1)..U16Max
    BY <2>1, GrowsWithinBound
  <2>3. Resized \in [0..(NewMax - 1) -> Items \cup {NoItem}]
    BY <2>1, ResizedType
  <2>4. Place(x, Resized, NewMax, 0, num_items - 1)
    BY <1>5 DEF EzqEnqueueResizing
  <2> HIDE DEF NewMax, Resized
  <2>5. NewMax \in 1..U16Max /\ num_items < NewMax /\ 0 \in 0..(NewMax - 1)
    BY <2>1, <2>2
  <2>6. num_items - 1 = (0 + num_items - 1) % NewMax
    <3>1. /\ NewMax \in Nat \ {0} /\ num_items - 1 \in 0..NewMax
          /\ num_items - 1 < NewMax
          /\ 0 + (num_items - 1) = num_items - 1 /\ 0 + num_items - 1 = num_items - 1
      BY <2>1, <2>2
    <3>2. (0 + (num_items - 1)) % NewMax = num_items - 1
      BY <2>5, <3>1, SlotValue
    <3> QED  BY <3>1, <3>2
  <2> QED  BY <2>1, <2>3, <2>4, <2>5, <2>6, PlaceKeepsType
<1>6. CASE EzqEnqueueFails
  <2>1. faults' \in 0..MaxFaults
    BY <1>6 DEF TypeOK, EzqEnqueueFails, Fault
  <2> QED  BY <1>6, <2>1 DEF TypeOK, EzqEnqueueFails, queueVars
<1>7. CASE EzqDequeue
  BY <1>7, TakeHeadKeepsType DEF EzqDequeue, Initialised, TypeOK
<1>8. CASE EzqDequeueEmpty
  BY <1>8 DEF TypeOK, EzqDequeueEmpty, queueVars
<1>9. CASE EzqClear
  BY <1>9 DEF TypeOK, EzqClear, Initialised, queueVars
<1>10. CASE EzqClearStep
  <2>1. max_items > 0
    BY <1>10 DEF EzqClearStep, TypeOK
  <2> QED  BY <1>10, <2>1, TakeHeadKeepsType DEF EzqClearStep
<1>11. CASE EzqClearEnd
  BY <1>11 DEF TypeOK, EzqClearEnd, queueVars
<1>12. CASE UNCHANGED vars
  BY <1>12 DEF TypeOK, vars, queueVars
<1> QED
  BY <1>1, <1>2, <1>3, <1>4, <1>5, <1>6, <1>7, <1>8, <1>9, <1>10, <1>11, <1>12 DEF Next

\* The indices of ezqueue.c always frame its items: head and tail are num_items
\* slots apart around the end of the buffer, through every resize.
THEOREM EzQueueType == Spec => []TypeOK
BY InitType, TypeStep, PTL DEF Spec

-----------------------------------------------------------------------------
(* The refinement: Contents is the queue of Fifo.                          *)

\* Contents is the sequence of the items in the slots from the head on.
ContentsIsSeq ==
  /\ Contents \in Seq(Items \cup {NoItem})
  /\ Len(Contents) = num_items
  /\ \A i \in 1..num_items : Contents[i] = pp_buf[(idx_head + i - 1) % max_items]

LEMMA ContentsSeq == TypeOK => ContentsIsSeq
<1> SUFFICES ASSUME TypeOK  PROVE ContentsIsSeq
  OBVIOUS
<1>1. num_items \in Nat
  BY EzQueueAssumption DEF TypeOK
<1>2. ASSUME NEW i \in 1..num_items
      PROVE  pp_buf[(idx_head + i - 1) % max_items] \in Items \cup {NoItem}
  <2>1. /\ max_items \in Nat \ {0} /\ idx_head \in 0..(max_items - 1)
        /\ i - 1 \in 0..max_items /\ idx_head + (i - 1) = idx_head + i - 1
        /\ pp_buf \in [0..(max_items - 1) -> Items \cup {NoItem}]
    BY EzQueueAssumption DEF TypeOK
  <2>2. (idx_head + (i - 1)) % max_items \in 0..(max_items - 1)
    BY <2>1, SlotValue
  <2> QED  BY <2>1, <2>2
<1>3. Contents \in [1..num_items -> Items \cup {NoItem}]
  BY <1>2 DEF Contents
<1> QED  BY <1>1, <1>3 DEF Contents, ContentsIsSeq

\* An empty ring buffer stands for the empty queue.
LEMMA ContentsEmpty ==
  TypeOK /\ num_items = 0 => Contents = <<>>
BY ContentsSeq DEF ContentsIsSeq

\* A buffer with the same items from its head on and one more behind them stands
\* for the queue with that item added.
LEMMA ContentsAppend ==
  ASSUME TypeOK, TypeOK', NEW x \in Items,
         num_items' = num_items + 1,
         \A i \in 1..num_items :
           pp_buf'[(idx_head' + i - 1) % max_items'] = pp_buf[(idx_head + i - 1) % max_items],
         pp_buf'[(idx_head' + num_items) % max_items'] = x
  PROVE  Contents' = Append(Contents, x)
<1>1. ContentsIsSeq /\ ContentsIsSeq'
  BY ContentsSeq, PTL
<1>2. num_items \in Nat /\ idx_head' + (num_items + 1) - 1 = idx_head' + num_items
  BY EzQueueAssumption DEF TypeOK
<1>3. /\ Contents' \in Seq(Items \cup {NoItem}) /\ Len(Contents') = num_items + 1
      /\ Contents \in Seq(Items \cup {NoItem}) /\ Len(Contents) = num_items
  BY <1>1 DEF ContentsIsSeq
<1>4. ASSUME NEW i \in 1..num_items  PROVE Contents'[i] = Contents[i]
  <2>1. i \in 1..num_items'
    BY <1>2
  <2> QED  BY <1>1, <2>1 DEF ContentsIsSeq
<1>5. Contents'[num_items + 1] = x
  <2>1. num_items + 1 \in 1..num_items'
    BY <1>2
  <2>2. Contents'[num_items + 1] = pp_buf'[(idx_head' + (num_items + 1) - 1) % max_items']
    BY <1>1, <2>1 DEF ContentsIsSeq
  <2> QED  BY <1>2, <2>2
<1> QED  BY <1>2, <1>3, <1>4, <1>5

\* The end of ezq_enqueue does not overwrite an item that is in the buffer.
LEMMA PlaceRefines ==
  ASSUME TypeOK, TypeOK', NEW x \in Items,
         NEW max \in 1..U16Max, num_items < max,
         NEW buf \in [0..(max - 1) -> Items \cup {NoItem}],
         NEW head, NEW tail,
         num_items > 0 => /\ head \in 0..(max - 1)
                          /\ tail = (head + num_items - 1) % max,
         \A i \in 1..num_items :
           buf[(head + i - 1) % max] = pp_buf[(idx_head + i - 1) % max_items],
         Place(x, buf, max, head, tail)
  PROVE  F!Put(x)
<1>1. /\ max_items' = max /\ num_items' = num_items + 1
      /\ out' = NoItem /\ ok' = TRUE /\ faults' = faults
      /\ pp_buf' = [buf EXCEPT ![idx_tail'] = x]
  BY DEF Place
<1>2. /\ num_items \in Nat /\ max \in Nat \ {0}
      /\ idx_head' \in 0..(max - 1)
      /\ idx_tail' = (idx_head' + num_items) % max
      /\ idx_tail' \in 0..(max - 1)
  <2>1. /\ num_items \in Nat /\ num_items' # 0
        /\ idx_head' \in 0..(max - 1)
        /\ idx_tail' = (idx_head' + num_items' - 1) % max
    BY <1>1, EzQueueAssumption DEF TypeOK
  <2>2. idx_head' + num_items' - 1 = idx_head' + num_items /\ num_items \in 0..max
    BY <1>1, <2>1, EzQueueAssumption
  <2>3. max \in Nat \ {0}
    BY EzQueueAssumption
  <2>4. (idx_head' + num_items) % max \in 0..(max - 1)
    BY <2>1, <2>2, <2>3, SlotValue
  <2> QED  BY <2>1, <2>2, <2>3, <2>4
<1>3. pp_buf'[(idx_head' + num_items) % max_items'] = x
  BY <1>1, <1>2
<1>4. ASSUME NEW i \in 1..num_items
      PROVE  pp_buf'[(idx_head' + i - 1) % max_items'] = pp_buf[(idx_head + i - 1) % max_items]
  <2> DEFINE at == (idx_head' + (i - 1)) % max
             end == (idx_head' + num_items) % max
  <2>1. idx_head' = head /\ idx_head' + (i - 1) = idx_head' + i - 1
    BY <1>2 DEF Place
  <2>2. at \in 0..(max - 1) /\ at # end
    <3>1. /\ num_items \in 0..(max - 1) /\ i - 1 \in 0..(num_items - 1)
          /\ i - 1 \in 0..max
      BY <1>2
    <3>2. max \in Nat \ {0} /\ idx_head' \in 0..(max - 1)
      BY <1>2
    <3>3. at \in 0..(max - 1)
      BY Zenon, <3>1, <3>2, SlotValue
    <3>4. at # end
      BY Zenon, <3>1, <3>2, SlotsDistinct
    <3> QED  BY <3>3, <3>4
  <2>3. idx_tail' = end
    BY <1>2
  <2>4. buf[at] = pp_buf[(idx_head + i - 1) % max_items]
    BY <2>1
  <2>5. (idx_head' + i - 1) % max_items' = at
    BY <1>1, <2>1
  <2> HIDE DEF at, end
  <2>6. pp_buf'[at] = buf[at]
    <3>1. at \in 0..(max - 1)
      BY <2>2
    <3>2. pp_buf' = [buf EXCEPT ![end] = x]
      BY <1>1, <2>3
    <3> QED  BY <2>2, <3>1, <3>2
  <2> QED  BY <2>4, <2>5, <2>6
<1>5. Contents' = Append(Contents, x)
  BY <1>1, <1>3, <1>4, ContentsAppend
<1>6. Len(Contents) < U16Max
  BY <1>2, ContentsSeq, EzQueueAssumption DEF ContentsIsSeq
<1> QED  BY <1>1, <1>5, <1>6 DEF F!Put

\* ezq_dequeue hands out the oldest item and leaves the others in their order.
LEMMA TakeHeadRefines ==
  ASSUME TypeOK, TypeOK', TakeHead
  PROVE  F!Get
<1>1. /\ num_items \in 1..max_items /\ max_items \in Nat \ {0}
      /\ idx_head \in 0..(max_items - 1)
      /\ pp_buf' = pp_buf /\ max_items' = max_items /\ num_items' = num_items - 1
      /\ out' = pp_buf[idx_head] /\ ok' = TRUE /\ faults' = faults
  BY EzQueueAssumption DEF TypeOK, TakeHead
<1>2. ContentsIsSeq /\ ContentsIsSeq'
  BY ContentsSeq, PTL
<1>3. Contents # <<>> /\ out' = Head(Contents)
  <2>1. (idx_head + 0) % max_items = idx_head
    <3> DEFINE first == (idx_head + 0) % max_items
    <3>1. 0 \in 0..max_items /\ idx_head + 0 = idx_head /\ idx_head < max_items
      BY <1>1
    <3>2. first = IF idx_head + 0 < max_items THEN idx_head + 0
                  ELSE idx_head + 0 - max_items
      BY <1>1, <3>1, SlotValue
    <3> HIDE DEF first
    <3>3. first = idx_head
      BY <3>1, <3>2
    <3> QED  BY <3>3 DEF first
  <2>2. 1 \in 1..num_items /\ idx_head + 1 - 1 = idx_head + 0
    BY <1>1
  <2>3. Contents[1] = pp_buf[idx_head]
    BY <1>2, <2>1, <2>2 DEF ContentsIsSeq
  <2> QED  BY <1>1, <1>2, <2>3 DEF ContentsIsSeq
<1>4. ASSUME NEW i \in 1..(num_items - 1)
      PROVE  Contents'[i] = Contents[i + 1]
  <2> DEFINE here == (idx_head + i) % max_items
             there == (idx_head' + (i - 1)) % max_items
  <2>1. idx_head' = (idx_head + 1) % max_items
    BY <1>1 DEF TakeHead, Slot
  <2>2. /\ idx_head' = IF idx_head + 1 < max_items THEN idx_head + 1
                       ELSE idx_head + 1 - max_items
        /\ idx_head' \in 0..(max_items - 1)
    <3>1. 1 \in 0..max_items
      BY <1>1
    <3> QED  BY <1>1, <2>1, <3>1, SlotValue
  <2>3. here = IF idx_head + i < max_items THEN idx_head + i
               ELSE idx_head + i - max_items
    <3>1. i \in 0..max_items
      BY <1>1
    <3> QED  BY <1>1, <3>1, SlotValue
  <2>4. there = IF idx_head' + (i - 1) < max_items THEN idx_head' + (i - 1)
                ELSE idx_head' + (i - 1) - max_items
    <3>1. i - 1 \in 0..max_items
      BY <1>1
    <3> QED  BY <1>1, <2>2, <3>1, SlotValue
  <2>5. /\ i \in 1..num_items' /\ i + 1 \in 1..num_items
        /\ idx_head + (i + 1) - 1 = idx_head + i
        /\ idx_head' + i - 1 = idx_head' + (i - 1)
    BY <1>1, <2>2
  <2>6. Contents'[i] = pp_buf[there]
    BY <1>1, <1>2, <2>5 DEF ContentsIsSeq
  <2>7. Contents[i + 1] = pp_buf[here]
    BY <1>1, <1>2, <2>5 DEF ContentsIsSeq
  <2> HIDE DEF here, there
  <2>8. here = there
    BY <1>1, <2>2, <2>3, <2>4
  <2> QED  BY <2>6, <2>7, <2>8
<1>5. Contents' = Tail(Contents)
  <2>1. /\ Contents \in Seq(Items \cup {NoItem}) /\ Len(Contents) = num_items
        /\ Contents' \in Seq(Items \cup {NoItem}) /\ Len(Contents') = num_items - 1
    BY <1>1, <1>2 DEF ContentsIsSeq
  <2>2. num_items \in Nat \ {0}
    BY <1>1
  <2> QED  BY <1>4, <2>1, <2>2
<1> QED  BY <1>1, <1>3, <1>5 DEF F!Get

-----------------------------------------------------------------------------
LEMMA FifoStep == TypeOK /\ TypeOK' /\ [Next]_vars => [F!Next]_(F!vars)
<1> SUFFICES ASSUME TypeOK, TypeOK', [Next]_vars  PROVE [F!Next]_(F!vars)
  OBVIOUS
<1> USE EzQueueAssumption
<1>1. CASE EzqInit
  <2>1. num_items' = 0
    BY <1>1 DEF EzqInit
  <2>2. ContentsIsSeq'
    BY ContentsSeq, PTL
  <2>3. Contents' = <<>>
    BY <2>1, <2>2 DEF ContentsIsSeq
  <2> QED  BY <1>1, <2>3 DEF EzqInit, F!Next, F!Discard
<1>2. CASE EzqInitNoMemory
  <2>1. num_items = 0
    BY <1>2 DEF EzqInitNoMemory, TypeOK
  <2>2. Contents = <<>> /\ Contents' = <<>>
    BY <1>2, <2>1, ContentsEmpty DEF EzqInitNoMemory, queueVars, Contents
  <2> QED  BY <1>2, <2>2 DEF EzqInitNoMemory, Fault, F!Next, F!Discard
<1>3. CASE EzqDeinit
  <2>1. num_items' = 0
    BY <1>3 DEF EzqDeinit
  <2>2. ContentsIsSeq'
    BY ContentsSeq, PTL
  <2>3. Contents' = <<>>
    BY <2>1, <2>2 DEF ContentsIsSeq
  <2> QED  BY <1>3, <2>3 DEF EzqDeinit, F!Next, F!Discard
<1>4. ASSUME NEW x \in Items, EzqEnqueue(x)  PROVE F!Next
  <2>1. /\ max_items \in 1..U16Max /\ num_items < max_items
        /\ pp_buf \in [0..(max_items - 1) -> Items \cup {NoItem}]
        /\ num_items > 0 => /\ idx_head \in 0..(max_items - 1)
                            /\ idx_tail = (idx_head + num_items - 1) % max_items
    BY <1>4 DEF TypeOK, EzqEnqueue, Initialised
  <2>2. Place(x, pp_buf, max_items, idx_head, idx_tail)
    BY <1>4 DEF EzqEnqueue
  <2>3. F!Put(x)
    BY <2>1, <2>2, PlaceRefines
  <2> QED  BY <2>3 DEF F!Next
<1>5. ASSUME NEW x \in Items, EzqEnqueueResizing(x)  PROVE F!Next
  <2>1. max_items \in 1..(U16Max - 1) /\ num_items = max_items
    BY <1>5 DEF TypeOK, EzqEnqueueResizing, Initialised
  <2>2. NewMax \in (max_items + 1)..U16Max
    BY <2>1, GrowsWithinBound
  <2>3. /\ Resized \in [0..(NewMax - 1) -> Items \cup {NoItem}]
        /\ \A i \in 0..(num_items - 1) :
             Resized[i] = pp_buf[(idx_head + i) % max_items]
    BY <2>1, ResizedType
  <2>4. Place(x, Resized, NewMax, 0, num_items - 1)
    BY <1>5 DEF EzqEnqueueResizing
  <2> HIDE DEF NewMax, Resized
  <2>5. /\ NewMax \in 1..U16Max /\ num_items < NewMax
        /\ 0 \in 0..(NewMax - 1) /\ NewMax \in Nat \ {0}
    BY <2>1, <2>2
  <2>6. \A i \in 1..num_items : (0 + i - 1) % NewMax = i - 1
    <3> TAKE i \in 1..num_items
    <3>1. /\ i - 1 \in 0..NewMax /\ i - 1 < NewMax
          /\ 0 + (i - 1) = i - 1 /\ 0 + i - 1 = i - 1
      BY <2>1, <2>5
    <3>2. (0 + (i - 1)) % NewMax = i - 1
      BY <2>5, <3>1, SlotValue
    <3> QED  BY <3>1, <3>2
  <2>7. num_items - 1 = (0 + num_items - 1) % NewMax
    <3>1. num_items \in 1..num_items
      BY <2>1
    <3> QED  BY <2>6, <3>1
  <2>8. \A i \in 1..num_items :
          Resized[(0 + i - 1) % NewMax] = pp_buf[(idx_head + i - 1) % max_items]
    <3> TAKE i \in 1..num_items
    <3>1. i - 1 \in 0..(num_items - 1) /\ idx_head + (i - 1) = idx_head + i - 1
      BY <2>1 DEF TypeOK
    <3> QED  BY <2>3, <2>6, <3>1
  <2>9. F!Put(x)
    BY <2>3, <2>4, <2>5, <2>7, <2>8, PlaceRefines
  <2> QED  BY <2>9 DEF F!Next
<1>6. CASE EzqEnqueueFails
  <2>1. Len(Contents) = U16Max \/ faults' = faults + 1
    BY <1>6, ContentsSeq DEF EzqEnqueueFails, Fault, ContentsIsSeq
  <2>2. Contents' = Contents /\ faults' \in {faults, faults + 1}
    BY <1>6 DEF EzqEnqueueFails, Fault, queueVars, Contents
  <2> QED  BY <1>6, <2>1, <2>2 DEF EzqEnqueueFails, F!Next, F!PutRefused
<1>7. CASE EzqDequeue
  BY <1>7, TakeHeadRefines DEF EzqDequeue, F!Next
<1>8. CASE EzqDequeueEmpty
  <2>1. Contents = <<>> /\ Contents' = Contents
    BY <1>8, ContentsEmpty DEF EzqDequeueEmpty, queueVars, Contents
  <2> QED  BY <1>8, <2>1 DEF EzqDequeueEmpty, F!Next, F!GetRefused
<1>9. CASE EzqClear
  <2>1. Contents' = Contents
    BY <1>9 DEF EzqClear, queueVars, Contents
  <2> QED  BY <1>9, <2>1 DEF EzqClear, F!Next, F!Return
<1>10. CASE EzqClearStep
  BY <1>10, TakeHeadRefines DEF EzqClearStep, F!Next
<1>11. CASE EzqClearEnd
  <2>1. Contents' = Contents
    BY <1>11 DEF EzqClearEnd, queueVars, Contents
  <2> QED  BY <1>11, <2>1 DEF EzqClearEnd, F!Next, F!Return
<1>12. CASE UNCHANGED vars
  BY <1>12 DEF vars, queueVars, Contents, F!vars
<1> QED
  BY <1>1, <1>2, <1>3, <1>4, <1>5, <1>6, <1>7, <1>8, <1>9, <1>10, <1>11, <1>12 DEF Next

\* The ring buffer of ezqueue.c is a first-in first-out queue that holds up to
\* UINT16_MAX items: wrapping around and resizing lose, repeat and reorder none.
THEOREM EzQueueIsFifo == Spec => FifoRefinement
<1>1. Init => TypeOK
  BY InitType
<1>2. Init => F!Init
  <2>1. Init => Contents = <<>>
    BY <1>1, ContentsEmpty DEF Init
  <2> QED  BY <2>1 DEF Init, F!Init
<1> QED  BY <1>1, <1>2, TypeStep, FifoStep, PTL DEF Spec, FifoRefinement, F!Spec
=============================================================================
