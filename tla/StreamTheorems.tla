--------------------------- MODULE StreamTheorems ---------------------------
(***************************************************************************)
(* Facts about sequences of bytes that the proofs about a connection keep  *)
(* needing: what FlattenSeq computes, and what it means for a sequence to  *)
(* be a prefix of another.                                                 *)
(***************************************************************************)
EXTENDS Integers, SequencesExt, SequenceTheorems, WellFoundedInduction, TLAPS

(***************************************************************************)
(* Induction over the naturals with a set in place of the predicate: a set *)
(* is a value, so the provers can instantiate it.  The least number that   *)
(* is not in T has a predecessor that is.                                  *)
(***************************************************************************)
LEMMA SetInduction ==
  ASSUME NEW T, 0 \in T, \A n \in Nat : n \in T => n + 1 \in T
  PROVE  Nat \subseteq T
<1> DEFINE Rest == {n \in Nat : n \notin T}
<1>1. SUFFICES ASSUME Rest # {}  PROVE FALSE
  OBVIOUS
<1>2. \E x \in Rest : \A y \in Rest : ~(y < x)
  <2> DEFINE Less == OpToRel(<, Nat)
  <2>1. IsWellFoundedOn(Less, Nat)
    BY NatLessThanWellFounded
  <2>2. \A x, y \in Nat : <<y, x>> \in Less <=> y < x
    BY Zenon DEF OpToRel
  <2>3. Rest \subseteq Nat
    OBVIOUS
  <2>4. \E x \in Rest : \A y \in Rest : ~(<<y, x>> \in Less)
    <3> HIDE DEF Less, Rest
    <3> QED BY <1>1, <2>1, <2>3, WFMin
  <2> HIDE DEF Less
  <2> QED BY <2>2, <2>3, <2>4
<1>3. PICK x \in Rest : \A y \in Rest : ~(y < x)
  BY <1>2
<1>4. x - 1 \in Nat /\ x - 1 \notin Rest
  BY <1>3
<1> QED
  BY <1>3, <1>4
-----------------------------------------------------------------------------
(***************************************************************************)
(* FlattenSeq(s) is the last value of the function of the partial joins of *)
(* s.  There is exactly one such function, so the joins of a sequence and  *)
(* of the sequence without its last element agree.                         *)
(***************************************************************************)
IsJoins(f, s, n) ==
  f = [i \in 1..n |-> IF i = 1 THEN s[i] ELSE f[i - 1] \o s[i]]

LEMMA JoinsAt ==
  ASSUME NEW f, NEW s, NEW n \in Nat, IsJoins(f, s, n), NEW i \in 1..n
  PROVE  f[i] = IF i = 1 THEN s[i] ELSE f[i - 1] \o s[i]
<1>1. PICK h : h = f
  OBVIOUS
<1>2. f = [j \in 1..n |-> IF j = 1 THEN s[j] ELSE h[j - 1] \o s[j]]
  BY Zenon, <1>1 DEF IsJoins
<1>3. f[i] = IF i = 1 THEN s[i] ELSE h[i - 1] \o s[i]
  BY <1>2
<1> QED BY Zenon, <1>1, <1>3

LEMMA JoinsExist ==
  ASSUME NEW s, NEW n \in Nat
  PROVE  \E f : IsJoins(f, s, n)
<1> DEFINE T == {k \in Nat : \E f : IsJoins(f, s, k)}
<1>1. 0 \in T
  <2>1. IsJoins([i \in 1..0 |-> 0], s, 0)
    BY DEF IsJoins
  <2> QED BY <2>1
<1>2. ASSUME NEW k \in Nat, k \in T  PROVE k + 1 \in T
  <2>1. PICK f : IsJoins(f, s, k)
    BY <1>2
  <2> DEFINE g == [i \in 1..(k + 1) |-> IF i = 1 THEN s[i] ELSE f[i - 1] \o s[i]]
  <2>2. \A i \in 1..k : g[i] = f[i]
    BY <2>1, JoinsAt
  <2>3. \A i \in 1..(k + 1) : i # 1 => g[i - 1] = f[i - 1]
    <3> HIDE DEF g
    <3> QED BY <2>2
  <2>4. g = [i \in 1..(k + 1) |-> IF i = 1 THEN s[i] ELSE g[i - 1] \o s[i]]
    BY <2>3
  <2>5. IsJoins(g, s, k + 1)
    <3> HIDE DEF g
    <3> QED BY <2>4 DEF IsJoins
  <2> QED BY <2>5
<1>3. Nat \subseteq T
  <2> HIDE DEF T
  <2> QED BY <1>1, <1>2, SetInduction
<1> QED BY <1>3

LEMMA JoinsAgree ==
  ASSUME NEW s, NEW t, NEW m \in Nat, NEW n \in Nat, m <= n,
         NEW f, IsJoins(f, s, m), NEW g, IsJoins(g, t, n),
         \A i \in 1..m : s[i] = t[i]
  PROVE  \A i \in 1..m : f[i] = g[i]
<1> DEFINE T == {j \in Nat : j \in 1..m => f[j] = g[j]}
<1>1. 0 \in T
  OBVIOUS
<1>2. ASSUME NEW j \in Nat, j \in T  PROVE j + 1 \in T
  <2>1. SUFFICES ASSUME j + 1 \in 1..m  PROVE f[j + 1] = g[j + 1]
    OBVIOUS
  <2>2. f[j + 1] = IF j + 1 = 1 THEN s[j + 1] ELSE f[(j + 1) - 1] \o s[j + 1]
    BY <2>1, JoinsAt
  <2>3. g[j + 1] = IF j + 1 = 1 THEN t[j + 1] ELSE g[(j + 1) - 1] \o t[j + 1]
    BY <2>1, JoinsAt
  <2>4. (j + 1) - 1 = j /\ (j + 1 # 1 => j \in 1..m)
    BY <2>1
  <2>5. s[j + 1] = t[j + 1]
    BY <2>1
  <2>6. j + 1 # 1 => f[j] = g[j]
    BY <2>4, <1>2
  <2> QED BY <2>2, <2>3, <2>4, <2>5, <2>6
<1>3. Nat \subseteq T
  <2> HIDE DEF T
  <2> QED BY <1>1, <1>2, SetInduction
<1> QED BY <1>3

LEMMA FlattenIsJoin ==
  ASSUME NEW s, Len(s) \in Nat \ {0}
  PROVE  \E f : IsJoins(f, s, Len(s)) /\ FlattenSeq(s) = f[Len(s)]
<1> DEFINE F == CHOOSE f : IsJoins(f, s, Len(s))
<1>1. IsJoins(F, s, Len(s))
  BY JoinsExist
<1>2. FlattenSeq(s) = F[Len(s)]
  BY DEF FlattenSeq, IsJoins
<1> HIDE DEF F
<1> QED BY <1>1, <1>2

(***************************************************************************)
(* What FlattenSeq returns: nothing for no parts, and for one part more    *)
(* the same joined with that part.                                         *)
(***************************************************************************)
LEMMA FlattenEmpty ==
  ASSUME NEW S, NEW s \in Seq(S), Len(s) = 0
  PROVE  FlattenSeq(s) = <<>>
<1>1. s = <<>>
  BY EmptySeq
<1> QED BY <1>1 DEF FlattenSeq

LEMMA FlattenOne ==
  ASSUME NEW S, NEW s \in Seq(Seq(S)), Len(s) = 1
  PROVE  FlattenSeq(s) = s[1]
<1>1. PICK f : IsJoins(f, s, Len(s)) /\ FlattenSeq(s) = f[Len(s)]
  <2>1. Len(s) \in Nat \ {0}
    OBVIOUS
  <2> QED BY <2>1, FlattenIsJoin
<1>2. f[1] = IF 1 = 1 THEN s[1] ELSE f[1 - 1] \o s[1]
  BY <1>1, JoinsAt
<1> QED BY <1>1, <1>2

LEMMA JoinsAgreeAtEnd ==
  ASSUME NEW s, NEW t, NEW m \in Nat \ {0}, NEW n \in Nat, m <= n,
         NEW f, IsJoins(f, s, m), NEW g, IsJoins(g, t, n),
         \A i \in 1..m : s[i] = t[i]
  PROVE  f[m] = g[m]
<1>1. \A i \in 1..m : f[i] = g[i]
  BY JoinsAgree
<1> QED BY <1>1

LEMMA FlattenMore ==
  ASSUME NEW s, NEW t, Len(s) \in Nat \ {0}, Len(t) = Len(s) + 1,
         \A i \in 1..Len(s) : s[i] = t[i]
  PROVE  FlattenSeq(t) = FlattenSeq(s) \o t[Len(t)]
<1>0. Len(t) \in Nat \ {0} /\ Len(s) <= Len(t)
  OBVIOUS
<1>1. PICK f : IsJoins(f, s, Len(s)) /\ FlattenSeq(s) = f[Len(s)]
  BY FlattenIsJoin
<1>2. PICK g : IsJoins(g, t, Len(t)) /\ FlattenSeq(t) = g[Len(t)]
  BY <1>0, FlattenIsJoin
<1>3. f[Len(s)] = g[Len(s)]
  BY <1>0, <1>1, <1>2, JoinsAgreeAtEnd
<1>4. g[Len(t)] = IF Len(t) = 1 THEN t[Len(t)] ELSE g[Len(t) - 1] \o t[Len(t)]
  <2>1. Len(t) \in 1..Len(t)
    BY <1>0
  <2> QED BY <1>0, <1>2, <2>1, JoinsAt
<1>5. Len(t) # 1 /\ Len(t) - 1 = Len(s)
  BY <1>0
<1> QED BY <1>1, <1>2, <1>3, <1>4, <1>5

LEMMA FlattenType ==
  ASSUME NEW S, NEW s \in Seq(Seq(S))
  PROVE  FlattenSeq(s) \in Seq(S)
<1>0. Len(s) \in Nat
  BY LenProperties
<1>1. CASE Len(s) = 0
  BY <1>1, FlattenEmpty, EmptySeq
<1>2. CASE Len(s) # 0
  <2>1. PICK f : IsJoins(f, s, Len(s)) /\ FlattenSeq(s) = f[Len(s)]
    BY <1>0, <1>2, FlattenIsJoin
  <2> DEFINE T == {j \in Nat : j \in 1..Len(s) => f[j] \in Seq(S)}
  <2>2. 0 \in T
    OBVIOUS
  <2>3. ASSUME NEW j \in Nat, j \in T  PROVE j + 1 \in T
    <3>1. SUFFICES ASSUME j + 1 \in 1..Len(s)  PROVE f[j + 1] \in Seq(S)
      OBVIOUS
    <3>2. f[j + 1] = IF j + 1 = 1 THEN s[j + 1] ELSE f[(j + 1) - 1] \o s[j + 1]
      BY <1>0, <2>1, <3>1, JoinsAt
    <3>3. s[j + 1] \in Seq(S)
      BY <3>1, ElementOfSeq
    <3>4. j + 1 # 1 => f[(j + 1) - 1] \in Seq(S)
      BY <2>3, <3>1
    <3> QED BY <3>2, <3>3, <3>4, ConcatProperties
  <2>4. Nat \subseteq T
    <3> HIDE DEF T
    <3> QED BY <2>2, <2>3, SetInduction
  <2> QED BY <1>0, <1>2, <2>1, <2>4
<1> QED BY <1>1, <1>2

LEMMA FlattenStep ==
  ASSUME NEW S, NEW s \in Seq(Seq(S)), NEW t \in Seq(Seq(S)),
         Len(t) = Len(s) + 1, \A i \in 1..Len(s) : s[i] = t[i]
  PROVE  FlattenSeq(t) = FlattenSeq(s) \o t[Len(t)]
<1>1. CASE Len(s) = 0
  <2>1. FlattenSeq(s) = <<>>
    BY <1>1, FlattenEmpty
  <2>2. Len(t) = 1 /\ t[Len(t)] \in Seq(S)
    BY <1>1, ElementOfSeq
  <2>3. FlattenSeq(t) = t[1]
    BY <2>2, FlattenOne
  <2> QED BY <2>1, <2>2, <2>3, ConcatEmptySeq
<1>2. CASE Len(s) # 0
  <2>1. Len(s) \in Nat \ {0}
    BY <1>2, LenProperties
  <2> QED BY <2>1, FlattenMore
<1> QED BY <1>1, <1>2

(***************************************************************************)
(* Joining the first parts of a sequence gives a prefix of joining all.    *)
(***************************************************************************)
LEMMA FirstParts ==
  ASSUME NEW S, NEW s \in Seq(S), NEW n \in 0..Len(s)
  PROVE  /\ SubSeq(s, 1, n) \in Seq(S)
         /\ Len(SubSeq(s, 1, n)) = n
         /\ \A i \in 1..n : SubSeq(s, 1, n)[i] = s[i]
<1>0. Len(s) \in Nat /\ n \in Nat
  BY LenProperties
<1>1. \A i \in 1..n : s[i] \in S
  BY <1>0, ElementOfSeq
<1>2. /\ SubSeq(s, 1, n) \in Seq(S)
      /\ Len(SubSeq(s, 1, n)) = IF 1 <= n THEN n - 1 + 1 ELSE 0
      /\ \A i \in 1..(n - 1 + 1) : SubSeq(s, 1, n)[i] = s[1 + i - 1]
  BY <1>0, <1>1, SubSeqProperties
<1>3. Len(SubSeq(s, 1, n)) = n
  BY <1>0, <1>2
<1>4. ASSUME NEW i \in 1..n  PROVE SubSeq(s, 1, n)[i] = s[i]
  <2>1. i \in 1..(n - 1 + 1) /\ 1 + i - 1 = i
    BY <1>0
  <2> QED BY <1>2, <2>1
<1> QED BY <1>2, <1>3, <1>4

LEMMA FlattenStepAt ==
  ASSUME NEW S, NEW s \in Seq(Seq(S)), NEW n \in Nat, n + 1 <= Len(s)
  PROVE  FlattenSeq(SubSeq(s, 1, n + 1)) = FlattenSeq(SubSeq(s, 1, n)) \o s[n + 1]
<1> DEFINE p == SubSeq(s, 1, n)
           q == SubSeq(s, 1, n + 1)
<1>0. n \in 0..Len(s) /\ n + 1 \in 0..Len(s)
  BY LenProperties
<1>1. p \in Seq(Seq(S)) /\ Len(p) = n /\ \A i \in 1..n : p[i] = s[i]
  BY <1>0, FirstParts
<1>2. q \in Seq(Seq(S)) /\ Len(q) = n + 1 /\ \A i \in 1..(n + 1) : q[i] = s[i]
  BY <1>0, FirstParts
<1> HIDE DEF p, q
<1>3. Len(q) = Len(p) + 1 /\ \A i \in 1..Len(p) : p[i] = q[i]
  <2>1. \A i \in 1..n : i \in 1..(n + 1)
    OBVIOUS
  <2>2. \A i \in 1..n : p[i] = q[i]
    BY <1>1, <1>2, <2>1
  <2> QED BY <1>1, <1>2, <2>2
<1>4. FlattenSeq(q) = FlattenSeq(p) \o q[Len(q)]
  BY <1>1, <1>2, <1>3, FlattenStep
<1>5. q[Len(q)] = s[n + 1]
  BY <1>2
<1> QED BY <1>4, <1>5 DEF p, q

\* Joining is associative.  The equation has a name, so that the provers can
\* instantiate it before they reason about equality.
JoinsAssociate(x, y, z) == (x \o y) \o z = x \o (y \o z)

LEMMA Associative ==
  ASSUME NEW S
  PROVE  \A x, y, z \in Seq(S) : JoinsAssociate(x, y, z)
BY ConcatAssociative DEF JoinsAssociate

LEMMA FlattenPrefix ==
  ASSUME NEW S, NEW s \in Seq(Seq(S)), NEW k \in 0..Len(s)
  PROVE  \E u \in Seq(S) : FlattenSeq(s) = FlattenSeq(SubSeq(s, 1, k)) \o u
<1> DEFINE a == FlattenSeq(SubSeq(s, 1, k))
           Extends(b) == \E u \in Seq(S) : b = a \o u
           F(m) == FlattenSeq(SubSeq(s, 1, m))
           T == {m \in Nat : k <= m /\ m <= Len(s) => Extends(F(m))}
<1>0. Len(s) \in Nat /\ k \in Nat
  BY LenProperties
<1>1. a \in Seq(S)
  BY FirstParts, FlattenType
<1>2. Extends(a)
  <2> HIDE DEF a
  <2> QED BY <1>1, ConcatEmptySeq, EmptySeq
<1>3. ASSUME NEW b \in Seq(S), Extends(b), NEW x \in Seq(S)  PROVE Extends(b \o x)
  <2>1. PICK u \in Seq(S) : b = a \o u
    BY <1>3
  <2> HIDE DEF a
  <2>2. (a \o u) \o x = a \o (u \o x)
    <3>1. JoinsAssociate(a, u, x)
      BY Zenon, <1>1, Associative
    <3> QED BY Zenon, <3>1 DEF JoinsAssociate
  <2>3. u \o x \in Seq(S)
    BY ConcatProperties
  <2> QED BY <2>1, <2>2, <2>3
<1>4. F(k) = a
  OBVIOUS
<1>5. ASSUME NEW m \in Nat, m + 1 <= Len(s)
      PROVE  F(m) \in Seq(S) /\ s[m + 1] \in Seq(S) /\ F(m + 1) = F(m) \o s[m + 1]
  <2>1. m \in 0..Len(s) /\ m + 1 \in 1..Len(s)
    BY <1>0, <1>5
  <2>2. F(m) \in Seq(S)
    BY <2>1, FirstParts, FlattenType
  <2>3. s[m + 1] \in Seq(S)
    BY <2>1, ElementOfSeq
  <2> QED BY <1>5, <2>2, <2>3, FlattenStepAt
<1>6. F(Len(s)) = FlattenSeq(s)
  BY SubSeqFull
<1> HIDE DEF a, Extends, F
<1>7. 0 \in T
  <2>1. 0 = k => Extends(F(0))
    BY <1>2, <1>4
  <2> QED BY <1>0, <2>1
<1>8. ASSUME NEW m \in Nat, m \in T  PROVE m + 1 \in T
  <2>1. ASSUME m + 1 <= Len(s), k <= m  PROVE Extends(F(m + 1))
    <3>1. Extends(F(m))
      BY <1>0, <1>8, <2>1
    <3> QED BY <1>3, <1>5, <2>1, <3>1
  <2>2. ASSUME k = m + 1  PROVE Extends(F(m + 1))
    BY <1>2, <1>4, <2>2
  <2>3. k <= m + 1 => k = m + 1 \/ k <= m
    BY <1>0
  <2> QED BY <2>1, <2>2, <2>3
<1>9. Nat \subseteq T
  <2> HIDE DEF T
  <2> QED BY <1>7, <1>8, SetInduction
<1>10. Extends(F(Len(s)))
  <2>1. Len(s) \in Nat /\ k <= Len(s) /\ Len(s) <= Len(s)
    BY <1>0
  <2> QED BY <1>9, <2>1
<1> QED BY <1>6, <1>10 DEF Extends, a

LEMMA FlattenFirst ==
  ASSUME NEW S, NEW s \in Seq(Seq(S)), NEW t \in Seq(Seq(S)),
         Len(s) <= Len(t), \A i \in 1..Len(s) : s[i] = t[i]
  PROVE  \E u \in Seq(S) : FlattenSeq(t) = FlattenSeq(s) \o u
<1>1. Len(s) \in 0..Len(t)
  <2>1. Len(s) \in Nat /\ Len(t) \in Nat
    BY LenProperties
  <2> QED BY <2>1
<1>2. /\ SubSeq(t, 1, Len(s)) \in Seq(Seq(S)) /\ Len(SubSeq(t, 1, Len(s))) = Len(s)
      /\ \A i \in 1..Len(s) : SubSeq(t, 1, Len(s))[i] = t[i]
  BY <1>1, FirstParts
<1>3. SubSeq(t, 1, Len(s)) = s
  BY <1>2, SeqEqual
<1>4. \E u \in Seq(S) : FlattenSeq(t) = FlattenSeq(SubSeq(t, 1, Len(s))) \o u
  BY <1>1, FlattenPrefix
<1> QED BY <1>3, <1>4
-----------------------------------------------------------------------------
(***************************************************************************)
(* Prefixes, and moving elements from the front of a sequence to the end   *)
(* of another.                                                             *)
(***************************************************************************)
LEMMA Split ==
  ASSUME NEW S, NEW t \in Seq(S), NEW n \in 0..Len(t)
  PROVE  /\ SubSeq(t, 1, n) \in Seq(S) /\ Len(SubSeq(t, 1, n)) = n
         /\ SubSeq(t, n + 1, Len(t)) \in Seq(S)
         /\ SubSeq(t, 1, n) \o SubSeq(t, n + 1, Len(t)) = t
<1>0. Len(t) \in Nat /\ n \in Nat
  BY LenProperties
<1>1. \A i \in 1..n : t[i] \in S
  BY <1>0, ElementOfSeq
<1>2. \A i \in (n + 1)..Len(t) : t[i] \in S
  BY <1>0, ElementOfSeq
<1>3. SubSeq(t, 1, n) \in Seq(S) /\ Len(SubSeq(t, 1, n)) = IF 1 <= n THEN n - 1 + 1 ELSE 0
  BY <1>0, <1>1, SubSeqProperties
<1>4. SubSeq(t, n + 1, Len(t)) \in Seq(S)
  BY <1>0, <1>2, SubSeqProperties
<1>5. SubSeq(t, 1, n) \o SubSeq(t, n + 1, Len(t)) = SubSeq(t, 1, Len(t))
  <2>1. 1 \in 1..(Len(t) + 1) /\ n \in (1 - 1)..Len(t) /\ Len(t) \in n..Len(t)
    BY <1>0
  <2> QED BY <2>1, ConcatAdjacentSubSeq
<1>6. SubSeq(t, 1, Len(t)) = t
  BY SubSeqFull
<1>7. Len(SubSeq(t, 1, n)) = n
  BY <1>0, <1>3
<1> QED BY <1>3, <1>4, <1>5, <1>6, <1>7

LEMMA Move ==
  ASSUME NEW S, NEW s \in Seq(S), NEW t \in Seq(S), NEW n \in 0..Len(t)
  PROVE  /\ s \o SubSeq(t, 1, n) \in Seq(S) /\ Len(s \o SubSeq(t, 1, n)) = Len(s) + n
         /\ SubSeq(t, n + 1, Len(t)) \in Seq(S)
         /\ (s \o SubSeq(t, 1, n)) \o SubSeq(t, n + 1, Len(t)) = s \o t
<1> DEFINE a == SubSeq(t, 1, n)
           b == SubSeq(t, n + 1, Len(t))
<1>1. a \in Seq(S) /\ Len(a) = n /\ b \in Seq(S) /\ a \o b = t
  BY Split
<1> HIDE DEF a, b
<1>2. (s \o a) \o b = s \o (a \o b)
  <2>1. a \in Seq(S) /\ b \in Seq(S)
    BY <1>1
  <2>2. \A x, y, z \in Seq(S) : (x \o y) \o z = x \o (y \o z)
    BY ConcatAssociative
  <2> QED BY <2>1, <2>2
<1>3. s \o a \in Seq(S) /\ Len(s \o a) = Len(s) + n
  BY <1>1, ConcatProperties
<1>4. (s \o a) \o b = s \o t
  BY <1>1, <1>2
<1> QED BY <1>1, <1>3, <1>4 DEF a, b

LEMMA PrefixOfJoin ==
  ASSUME NEW S, NEW s \in Seq(S), NEW u \in Seq(S)
  PROVE  IsPrefix(s, s \o u)
<1>1. Len(s) \in Nat /\ Len(u) \in Nat /\ Len(s \o u) = Len(s) + Len(u)
  BY LenProperties, ConcatProperties
<1>2. SubSeq(s, 1, Len(s)) = SubSeq(s \o u, 1, Len(s))
  <2>1. CASE Len(s) = 0
    <3>1. SubSeq(s, 1, 0) = <<>> /\ SubSeq(s \o u, 1, 0) = <<>>
      BY SubSeqEmpty
    <3> QED BY <2>1, <3>1
  <2>2. CASE Len(s) # 0
    <3>1. 1 \in 1..Len(s) /\ Len(s) \in 1..Len(s)
      BY <1>1, <2>2
    <3> QED BY <3>1, SubSeqOfConcat1
  <2> QED BY <2>1, <2>2
<1> QED BY <1>1, <1>2 DEF IsPrefix

LEMMA PrefixSelf ==
  ASSUME NEW S, NEW s \in Seq(S)
  PROVE  IsPrefix(s, s)
BY LenProperties DEF IsPrefix

LEMMA PrefixIsJoin ==
  ASSUME NEW S, NEW s \in Seq(S), NEW t \in Seq(S), IsPrefix(s, t)
  PROVE  \E u \in Seq(S) : t = s \o u
<1>1. Len(s) \in Nat /\ Len(t) \in Nat /\ Len(s) <= Len(t)
  BY LenProperties DEF IsPrefix
<1>2. Len(s) \in 0..Len(t)
  BY <1>1
<1>3. /\ SubSeq(t, Len(s) + 1, Len(t)) \in Seq(S)
      /\ SubSeq(t, 1, Len(s)) \o SubSeq(t, Len(s) + 1, Len(t)) = t
  BY <1>2, Split
<1>4. SubSeq(t, 1, Len(s)) = s
  BY SubSeqFull DEF IsPrefix
<1> QED BY <1>3, <1>4

LEMMA PrefixWithout ==
  ASSUME NEW S, NEW s \in Seq(S), NEW u \in Seq(S), NEW t \in Seq(S), IsPrefix(s \o u, t)
  PROVE  IsPrefix(s, t)
<1>1. s \o u \in Seq(S)
  BY ConcatProperties
<1>2. PICK v \in Seq(S) : t = (s \o u) \o v
  BY <1>1, PrefixIsJoin
<1>3. t = s \o (u \o v) /\ u \o v \in Seq(S)
  BY <1>2, ConcatAssociative, ConcatProperties
<1> QED BY <1>3, PrefixOfJoin

\* Two ways to cut a sequence in two: the shorter first part is the start of the
\* longer one.
LEMMA SameStart ==
  ASSUME NEW S, NEW p \in Seq(S), NEW x \in Seq(S), NEW b \in Seq(S), NEW u \in Seq(S),
         p \o x = b \o u, Len(p) <= Len(b)
  PROVE  \A i \in 1..Len(p) : p[i] = b[i]
<1>0. Len(p) \in Nat /\ Len(x) \in Nat /\ Len(b) \in Nat /\ Len(u) \in Nat
  BY LenProperties
<1> SUFFICES ASSUME NEW i \in 1..Len(p)  PROVE p[i] = b[i]
  OBVIOUS
<1>1. (p \o x)[i] = p[i]
  <2>1. i \in 1..(Len(p) + Len(x)) /\ i <= Len(p)
    BY <1>0
  <2> QED BY <2>1, ConcatProperties
<1>2. (b \o u)[i] = b[i]
  <2>1. i \in 1..(Len(b) + Len(u)) /\ i <= Len(b)
    BY <1>0
  <2> QED BY <2>1, ConcatProperties
<1> QED BY <1>1, <1>2

LEMMA SameCut ==
  ASSUME NEW S, NEW p \in Seq(S), NEW x \in Seq(S), NEW b \in Seq(S), NEW u \in Seq(S),
         p \o x = b \o u, Len(p) = Len(b)
  PROVE  p = b /\ x = u
<1>1. \A i \in 1..Len(p) : p[i] = b[i]
  <2>1. Len(p) <= Len(b)
    BY LenProperties
  <2> QED BY <2>1, SameStart
<1>2. p = b
  BY <1>1, SeqEqual
<1>3. b \o x = b \o u
  BY <1>2
<1>4. x = u
  BY <1>3, ConcatSimplifications
<1> QED BY <1>2, <1>4
=============================================================================
