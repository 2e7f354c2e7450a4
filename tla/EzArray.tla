------------------------------ MODULE EzArray -------------------------------
(***************************************************************************)
(* The growable pointer array of ezarray.c, as operators on its structure  *)
(* (pp_buf, num_items, max_items).  connmgr.c repeats the growth and the   *)
(* compaction for its array of struct pollfd, so both are stated for a     *)
(* buffer of any kind.                                                     *)
(***************************************************************************)
EXTENDS Integers, Sequences

CONSTANT U16Max   \* UINT16_MAX

ASSUME EzArrayAssumption == U16Max \in Nat \ {0}

Buffer(max, value) == [i \in 0..(max - 1) |-> value]

EzarrInit(max, null) == [buf |-> Buffer(max, null), num |-> 0, max |-> max]

\* The size of a full buffer after a resize.
NewMax(num) == IF U16Max \div 2 < num THEN U16Max ELSE num * 2

\* realloc: the new slots hold whatever the memory held.
Realloc(buf, max, fresh) ==
  [i \in 0..(max - 1) |-> IF i \in DOMAIN buf THEN buf[i] ELSE fresh]

\* ezarr_push; a full array is resized first, which the caller has checked to
\* succeed.
EzarrPush(a, item, fresh) ==
  LET full == a.num = a.max
      max == IF full THEN NewMax(a.num) ELSE a.max
      buf == IF full THEN Realloc(a.buf, max, fresh) ELSE a.buf
  IN  [buf |-> [buf EXCEPT ![a.num] = item], num |-> a.num + 1, max |-> max]

\* ezarr_set_at with null at each index of a set; it refuses an index from
\* num_items on.
EzarrSetAt(a, indices, null) ==
  [a EXCEPT !.buf =
     [i \in DOMAIN @ |-> IF i \in indices /\ i < a.num THEN null ELSE @[i]]]

\* ezarr_get_at refuses an index from max_items on only, and leaves the caller's
\* pointer as it was.
EzarrGetAt(a, idx, p) == IF idx < a.max THEN a.buf[idx] ELSE p

\* The loop of ezarr_compact over the first max slots, with two indices into one
\* buffer: the buffer after it, and write_idx.
CompactLoop(buf, max, sentinel) ==
  LET after[n \in 0..max] ==
        IF n = 0 THEN [buf |-> buf, write_idx |-> 0]
        ELSE LET read_idx == n - 1
                 p == after[read_idx]
             IN  IF p.buf[read_idx] = sentinel THEN p
                 ELSE [buf |-> IF p.write_idx = read_idx THEN p.buf
                               ELSE [p.buf EXCEPT ![p.write_idx] = p.buf[read_idx],
                                                  ![read_idx] = sentinel],
                       write_idx |-> p.write_idx + 1]
  IN  after[max]

\* The items in use among the first max slots, in their order.
Kept(buf, max, sentinel) ==
  LET kept[n \in 0..max] ==
        IF n = 0 THEN <<>>
        ELSE IF buf[n - 1] = sentinel THEN kept[n - 1]
        ELSE Append(kept[n - 1], buf[n - 1])
  IN  kept[max]

\* What the loop computes: the slots in use move to the front, in their order,
\* and the sentinel fills the rest (CompactLoopIsCompacted of ConnMgrProofs).
Compacted(buf, max, sentinel) ==
  LET kept == Kept(buf, max, sentinel)
  IN  [buf |-> [i \in DOMAIN buf |-> IF i < Len(kept) THEN kept[i + 1]
                                     ELSE IF i < max THEN sentinel ELSE buf[i]],
       write_idx |-> Len(kept)]

EzarrCompact(a, sentinel) ==
  LET c == Compacted(a.buf, a.max, sentinel)
  IN  [buf |-> c.buf, num |-> c.write_idx, max |-> a.max]
=============================================================================
