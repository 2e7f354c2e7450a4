--------------------------- MODULE ConnMgrProofs ---------------------------
(***************************************************************************)
(* What the array operators of EzArray compute, for every buffer, and what *)
(* the operations of ConnMgr keep of its two tables.                       *)
(***************************************************************************)
EXTENDS ConnMgr, StreamTheorems, FiniteSetTheorems

(***************************************************************************)
(* A recursive function over 0..n exists and has the values its equation   *)
(* says, if its step is a function of the index and the value before.      *)
(***************************************************************************)
IsRecursion(f, first, step, n) ==
  f = [i \in 0..n |-> IF i = 0 THEN first ELSE step[i][f[i - 1]]]

\* The values of a recursion.
LEMMA RecursionAt ==
  ASSUME NEW f, NEW first, NEW step, NEW n \in Nat, IsRecursion(f, first, step, n)
  PROVE  /\ DOMAIN f = 0..n
         /\ f[0] = first
         /\ \A i \in 1..n : f[i] = step[i][f[i - 1]]
<1>1. PICK h : h = f
  OBVIOUS
<1>2. f = [i \in 0..n |-> IF i = 0 THEN first ELSE step[i][h[i - 1]]]
  BY Zenon, <1>1 DEF IsRecursion
<1>3. /\ DOMAIN f = 0..n /\ f[0] = first
      /\ \A i \in 1..n : f[i] = step[i][h[i - 1]]
  BY <1>2
<1> QED BY Zenon, <1>1, <1>3

\* There is one, by induction on the length of its domain.
LEMMA RecursionExists ==
  ASSUME NEW first, NEW step, NEW n \in Nat
  PROVE  \E f : IsRecursion(f, first, step, n)
<1> DEFINE T == {m \in Nat : \E f : IsRecursion(f, first, step, m)}
<1>1. 0 \in T
  <2> DEFINE f == [i \in 0..0 |-> first]
  <2>1. PICK h : h = f
    OBVIOUS
  <2>2. f = [i \in 0..0 |-> IF i = 0 THEN first ELSE step[i][h[i - 1]]]
    OBVIOUS
  <2>3. IsRecursion(f, first, step, 0)
    BY Zenon, <2>1, <2>2 DEF IsRecursion
  <2> QED BY <2>3
<1>2. ASSUME NEW m \in Nat, m \in T  PROVE m + 1 \in T
  <2>1. PICK f : IsRecursion(f, first, step, m)
    BY <1>2
  <2> DEFINE g == [i \in 0..(m + 1) |-> IF i = m + 1 THEN step[i][f[m]] ELSE f[i]]
  <2>2. PICK h : h = g
    OBVIOUS
  <2>3. \A i \in 0..(m + 1) : g[i] = IF i = 0 THEN first ELSE step[i][h[i - 1]]
    <3>1. /\ f[0] = first /\ \A i \in 1..m : f[i] = step[i][f[i - 1]]
      BY <2>1, RecursionAt
    <3>2. \A i \in 0..m : h[i] = f[i] /\ g[i] = f[i]
      BY <2>2
    <3>3. g[m + 1] = step[m + 1][f[m]]
      OBVIOUS
    <3> HIDE DEF g
    <3>4. \A i \in 1..m : g[i] = step[i][h[i - 1]]
      <4> TAKE i \in 1..m
      <4>1. i - 1 \in 0..m /\ i \in 0..m
        OBVIOUS
      <4> QED BY <3>1, <3>2, <4>1
    <3>5. g[m + 1] = step[m + 1][h[(m + 1) - 1]]
      <4>1. (m + 1) - 1 = m /\ m \in 0..m
        OBVIOUS
      <4> QED BY <3>2, <3>3, <4>1
    <3> QED BY <3>1, <3>2, <3>4, <3>5
  <2>4. g = [i \in 0..(m + 1) |-> IF i = 0 THEN first ELSE step[i][h[i - 1]]]
    <3>1. g = [i \in 0..(m + 1) |-> g[i]]
      OBVIOUS
    <3> HIDE DEF g
    <3> QED BY <2>3, <3>1
  <2>5. IsRecursion(g, first, step, m + 1)
    <3> HIDE DEF g
    <3> QED BY Zenon, <2>2, <2>4 DEF IsRecursion
  <2> QED BY <2>5
<1>3. Nat \subseteq T
  <2> HIDE DEF T
  <2> QED BY <1>1, <1>2, SetInduction
<1> QED BY <1>3
-----------------------------------------------------------------------------
(***************************************************************************)
(* Kept, and with it the closed form of the compaction.                    *)
(***************************************************************************)

\* kept of Kept, as a function.
IsKept(f, buf, max, x) ==
  f = [n \in 0..max |->
         IF n = 0 THEN <<>>
         ELSE IF buf[n - 1] = x THEN f[n - 1]
         ELSE Append(f[n - 1], buf[n - 1])]

\* The values of kept, slot by slot.
LEMMA KeptAt ==
  ASSUME NEW f, NEW buf, NEW max \in Nat, NEW x, IsKept(f, buf, max, x)
  PROVE  /\ f[0] = <<>>
         /\ \A n \in 0..(max - 1) :
              f[n + 1] = IF buf[n] = x THEN f[n] ELSE Append(f[n], buf[n])
<1>1. PICK h : h = f
  OBVIOUS
<1>2. f = [n \in 0..max |->
             IF n = 0 THEN <<>>
             ELSE IF buf[n - 1] = x THEN h[n - 1]
             ELSE Append(h[n - 1], buf[n - 1])]
  BY Zenon, <1>1 DEF IsKept
<1>3. f[0] = <<>>
  BY <1>2
<1>4. \A n \in 0..(max - 1) :
        f[n + 1] = IF buf[n] = x THEN h[n] ELSE Append(h[n], buf[n])
  <2> TAKE n \in 0..(max - 1)
  <2>1. n + 1 \in 0..max /\ n + 1 # 0 /\ (n + 1) - 1 = n
    OBVIOUS
  <2> QED BY <1>2, <2>1
<1> QED BY Zenon, <1>1, <1>3, <1>4

\* Kept is the last value of a function that satisfies the equation.
LEMMA KeptExists ==
  ASSUME NEW buf, NEW max \in Nat, NEW x
  PROVE  \E f : IsKept(f, buf, max, x) /\ Kept(buf, max, x) = f[max]
<1> DEFINE R == {buf[i] : i \in 0..(max - 1)}
<1>r. \A i \in 0..(max - 1) : buf[i] \in R
  OBVIOUS
<1> HIDE DEF R
<1> DEFINE step == [i \in 1..max |-> [s \in Seq(R) |->
                      IF buf[i - 1] = x THEN s ELSE Append(s, buf[i - 1])]]
<1>1. PICK f : IsRecursion(f, <<>>, step, max)
  <2> HIDE DEF step
  <2> QED BY RecursionExists
<1>2. /\ DOMAIN f = 0..max
      /\ f[0] = <<>>
      /\ \A i \in 1..max : f[i] = step[i][f[i - 1]]
  <2> HIDE DEF step
  <2> QED BY <1>1, RecursionAt
<1>3. \A i \in 1..max : \A s \in Seq(R) :
        /\ step[i][s] = IF buf[i - 1] = x THEN s ELSE Append(s, buf[i - 1])
        /\ step[i][s] \in Seq(R)
  <2> TAKE i \in 1..max
  <2> TAKE s \in Seq(R)
  <2>1. step[i][s] = IF buf[i - 1] = x THEN s ELSE Append(s, buf[i - 1])
    OBVIOUS
  <2>2. i - 1 \in 0..(max - 1)
    OBVIOUS
  <2>3. buf[i - 1] \in R
    BY <1>r, <2>2
  <2> HIDE DEF step
  <2> QED BY <2>1, <2>3
<1> HIDE DEF step
<1>4. \A n \in 0..max : f[n] \in Seq(R)
  <2> DEFINE T == {n \in Nat : n <= max => f[n] \in Seq(R)}
  <2>1. 0 \in T
    <3>1. f[0] \in Seq(R)
      <4>1. <<>> \in Seq(R)
        OBVIOUS
      <4> QED BY <1>2, <4>1
    <3> QED BY <3>1
  <2>2. ASSUME NEW n \in Nat, n \in T  PROVE n + 1 \in T
    <3>1. SUFFICES ASSUME n + 1 <= max  PROVE f[n + 1] \in Seq(R)
      OBVIOUS
    <3>2. n + 1 \in 1..max /\ (n + 1) - 1 = n
      BY <3>1
    <3>3. f[n] \in Seq(R)
      BY <2>2, <3>1
    <3>4. f[n + 1] = step[n + 1][f[n]]
      BY <1>2, <3>2
    <3> QED BY <1>3, <3>2, <3>3, <3>4
  <2>3. Nat \subseteq T
    <3> HIDE DEF T
    <3> QED BY <2>1, <2>2, SetInduction
  <2> QED BY <2>3
<1>5. IsKept(f, buf, max, x)
  <2>1. PICK h : h = f
    OBVIOUS
  <2>2. \A n \in 0..max :
          f[n] = IF n = 0 THEN <<>>
                 ELSE IF buf[n - 1] = x THEN h[n - 1]
                 ELSE Append(h[n - 1], buf[n - 1])
    <3> TAKE n \in 0..max
    <3>1. CASE n = 0
      BY <1>2, <3>1
    <3>2. CASE n # 0
      <4>1. n \in 1..max /\ n - 1 \in 0..max
        BY <3>2
      <4>2. f[n] = step[n][f[n - 1]] /\ f[n - 1] \in Seq(R)
        BY <1>2, <1>4, <4>1
      <4>3. f[n] = IF buf[n - 1] = x THEN f[n - 1] ELSE Append(f[n - 1], buf[n - 1])
        BY <1>3, <4>1, <4>2
      <4> QED BY <2>1, <3>2, <4>3
    <3> QED BY <3>1, <3>2
  <2>3. f = [n \in 0..max |-> f[n]]
    <3>1. IsRecursion(f, <<>>, step, max) => f = [n \in 0..max |-> f[n]]
      BY DEF IsRecursion
    <3> QED BY <1>1, <3>1
  <2>4. f = [n \in 0..max |->
               IF n = 0 THEN <<>>
               ELSE IF buf[n - 1] = x THEN h[n - 1]
               ELSE Append(h[n - 1], buf[n - 1])]
    BY <2>2, <2>3
  <2> QED BY Zenon, <2>1, <2>4 DEF IsKept
<1> QED
  <2> DEFINE g == CHOOSE g : IsKept(g, buf, max, x)
  <2>1. IsKept(g, buf, max, x)
    BY Zenon, <1>5
  <2>2. Kept(buf, max, x) = g[max]
    BY Zenon DEF Kept, IsKept
  <2> QED BY Zenon, <2>1, <2>2

(***************************************************************************)
(* Its values: sequences of used items, no longer than the slots read.     *)
(***************************************************************************)
LEMMA KeptType ==
  ASSUME NEW buf, NEW max \in Nat, NEW x, NEW R, \A i \in 0..(max - 1) : buf[i] \in R,
         NEW f, IsKept(f, buf, max, x)
  PROVE  \A n \in 0..max : f[n] \in Seq(R \ {x}) /\ Len(f[n]) <= n
<1> DEFINE T == {n \in Nat : n <= max => f[n] \in Seq(R \ {x}) /\ Len(f[n]) <= n}
<1>1. 0 \in T
  <2>1. <<>> \in Seq(R \ {x}) /\ Len(<<>>) <= 0
    OBVIOUS
  <2>2. f[0] = <<>>
    BY KeptAt
  <2> QED BY <2>1, <2>2
<1>2. ASSUME NEW n \in Nat, n \in T  PROVE n + 1 \in T
  <2>1. SUFFICES ASSUME n + 1 <= max
                 PROVE  f[n + 1] \in Seq(R \ {x}) /\ Len(f[n + 1]) <= n + 1
    OBVIOUS
  <2>2. f[n] \in Seq(R \ {x}) /\ Len(f[n]) <= n
    BY <1>2, <2>1
  <2>3. n \in 0..(max - 1)
    BY <2>1
  <2>4. f[n + 1] = IF buf[n] = x THEN f[n] ELSE Append(f[n], buf[n])
    BY <2>3, KeptAt
  <2>5. buf[n] \in R
    BY <2>3
  <2> QED BY <2>2, <2>4, <2>5
<1>3. Nat \subseteq T
  <2> HIDE DEF T
  <2> QED BY <1>1, <1>2, SetInduction
<1> QED BY <1>3

(***************************************************************************)
(* What is kept depends on the used items alone: two buffers that are used *)
(* at the same indices, with the same items, keep the same sequence.       *)
(***************************************************************************)
LEMMA KeptSame ==
  ASSUME NEW max \in Nat,
         NEW buf, NEW x, NEW f, IsKept(f, buf, max, x),
         NEW buf2, NEW x2, NEW f2, IsKept(f2, buf2, max, x2),
         \A i \in 0..(max - 1) : \/ buf[i] = x /\ buf2[i] = x2
                                 \/ buf[i] # x /\ buf2[i] # x2 /\ buf[i] = buf2[i]
  PROVE  f[max] = f2[max]
<1> DEFINE T == {n \in Nat : n <= max => f[n] = f2[n]}
<1>1. 0 \in T
  BY KeptAt
<1>2. ASSUME NEW n \in Nat, n \in T  PROVE n + 1 \in T
  <2>1. SUFFICES ASSUME n + 1 <= max  PROVE f[n + 1] = f2[n + 1]
    OBVIOUS
  <2>2. f[n] = f2[n]
    BY <1>2, <2>1
  <2>3. n \in 0..(max - 1)
    BY <2>1
  <2>4. f[n + 1] = IF buf[n] = x THEN f[n] ELSE Append(f[n], buf[n])
    BY <2>3, KeptAt
  <2>5. f2[n + 1] = IF buf2[n] = x2 THEN f2[n] ELSE Append(f2[n], buf2[n])
    BY <2>3, KeptAt
  <2> QED BY <2>2, <2>3, <2>4, <2>5
<1>3. Nat \subseteq T
  <2> HIDE DEF T
  <2> QED BY <1>1, <1>2, SetInduction
<1> QED BY <1>3

(***************************************************************************)
(* If only the first m slots are used, no more than m items are kept.      *)
(***************************************************************************)
LEMMA KeptShort ==
  ASSUME NEW buf, NEW max \in Nat, NEW x,
         NEW f, IsKept(f, buf, max, x),
         NEW m \in 0..max, \A i \in m..(max - 1) : buf[i] = x
  PROVE  Len(f[max]) <= m
<1> DEFINE R == {buf[i] : i \in 0..(max - 1)}
<1>r. \A i \in 0..(max - 1) : buf[i] \in R
  OBVIOUS
<1> HIDE DEF R
<1> DEFINE T == {n \in Nat : n <= max => Len(f[n]) <= m}
<1>0. \A n \in 0..max : f[n] \in Seq(R \ {x}) /\ Len(f[n]) <= n
  BY <1>r, KeptType
<1>1. 0 \in T
  <2>1. f[0] \in Seq(R \ {x}) /\ Len(f[0]) <= 0
    BY <1>0
  <2> QED BY <2>1
<1>2. ASSUME NEW n \in Nat, n \in T  PROVE n + 1 \in T
  <2>1. SUFFICES ASSUME n + 1 <= max  PROVE Len(f[n + 1]) <= m
    OBVIOUS
  <2>2. Len(f[n]) <= m
    BY <1>2, <2>1
  <2>3. n \in 0..(max - 1)
    BY <2>1
  <2>4. CASE n < m
    <3>1. f[n + 1] \in Seq(R \ {x}) /\ Len(f[n + 1]) <= n + 1
      BY <1>0, <2>1
    <3> QED BY <2>4, <3>1
  <2>5. CASE n >= m
    <3>1. f[n + 1] = IF buf[n] = x THEN f[n] ELSE Append(f[n], buf[n])
      BY <2>3, KeptAt
    <3>2. buf[n] = x
      BY <2>3, <2>5
    <3> QED BY <2>2, <3>1, <3>2
  <2> QED BY <2>4, <2>5
<1>3. Nat \subseteq T
  <2> HIDE DEF T
  <2> QED BY <1>1, <1>2, SetInduction
<1> QED BY <1>3

Items(s) == {s[i] : i \in 1..Len(s)}

UsedItems(buf, max, x) == {buf[i] : i \in 0..(max - 1)} \ {x}

(***************************************************************************)
(* Exactly the used items are kept, and each once if no two slots hold the *)
(* same one.                                                               *)
(***************************************************************************)
LEMMA KeptItems ==
  ASSUME NEW buf, NEW max \in Nat, NEW x,
         NEW f, IsKept(f, buf, max, x)
  PROVE  Items(f[max]) = UsedItems(buf, max, x)
<1> DEFINE R == {buf[i] : i \in 0..(max - 1)}
<1>r. \A i \in 0..(max - 1) : buf[i] \in R
  OBVIOUS
<1> HIDE DEF R
<1>0. \A n \in 0..max : f[n] \in Seq(R \ {x}) /\ Len(f[n]) <= n
  BY <1>r, KeptType
<1> DEFINE Same(n) == \A y : (\E i \in 1..Len(f[n]) : f[n][i] = y) <=>
                              (y # x /\ \E i \in 0..(n - 1) : buf[i] = y)
           T == {n \in Nat : n <= max => Same(n)}
<1>1. 0 \in T
  <2>1. f[0] = <<>>
    BY KeptAt
  <2>2. Same(0)
    BY <2>1
  <2> QED BY <2>2
<1>2. ASSUME NEW n \in Nat, n \in T  PROVE n + 1 \in T
  <2>1. SUFFICES ASSUME n + 1 <= max  PROVE Same(n + 1)
    <3> HIDE DEF Same
    <3> QED OBVIOUS
  <2>2. Same(n)
    <3> HIDE DEF Same
    <3> QED BY <1>2, <2>1
  <2>3. n \in 0..(max - 1) /\ n \in 0..max
    BY <2>1
  <2>4. f[n + 1] = IF buf[n] = x THEN f[n] ELSE Append(f[n], buf[n])
    BY <2>3, KeptAt
  <2>5. \A y : (\E i \in 0..((n + 1) - 1) : buf[i] = y) <=>
              (\E i \in 0..(n - 1) : buf[i] = y) \/ buf[n] = y
    <3>1. \A i : i \in 0..((n + 1) - 1) <=> i \in 0..(n - 1) \/ i = n
      OBVIOUS
    <3> QED BY Zenon, <3>1
  <2>6. CASE buf[n] = x
    <3>1. f[n + 1] = f[n]
      BY <2>4, <2>6
    <3> HIDE DEF T
    <3> QED BY Zenon, <2>2, <2>5, <2>6, <3>1
  <2>7. CASE buf[n] # x
    <3> DEFINE s == f[n]
               t == f[n + 1]
    <3>1. s \in Seq(R \ {x}) /\ t = Append(s, buf[n])
      BY <1>0, <2>3, <2>4, <2>7
    <3>2. /\ Len(t) = Len(s) + 1 /\ Len(s) \in Nat
          /\ \A i \in 1..Len(s) : t[i] = s[i]
          /\ t[Len(s) + 1] = buf[n]
      <4> HIDE DEF s, t
      <4> QED BY <3>1
    <3>3. \A y : (\E i \in 1..Len(t) : t[i] = y) <=>
                (\E i \in 1..Len(s) : s[i] = y) \/ y = buf[n]
      <4> HIDE DEF s, t
      <4>1. \A i : i \in 1..Len(t) <=> i \in 1..Len(s) \/ i = Len(s) + 1
        BY <3>2
      <4> QED BY <3>2, <4>1
    <3>4. SUFFICES ASSUME NEW y
                   PROVE  (\E i \in 1..Len(t) : t[i] = y) <=>
                            (y # x /\ \E i \in 0..((n + 1) - 1) : buf[i] = y)
      BY Zenon
    <3>5. (\E i \in 1..Len(s) : s[i] = y) <=> (y # x /\ \E i \in 0..(n - 1) : buf[i] = y)
      BY Zenon, <2>2
    <3> DEFINE InS == \E i \in 1..Len(s) : s[i] = y
               InT == \E i \in 1..Len(t) : t[i] = y
               Before == \E i \in 0..(n - 1) : buf[i] = y
               Upto == \E i \in 0..((n + 1) - 1) : buf[i] = y
    <3>6. /\ InT <=> InS \/ y = buf[n]
          /\ Upto <=> Before \/ buf[n] = y
          /\ InS <=> y # x /\ Before
      BY Zenon, <2>5, <3>3, <3>5
    <3> HIDE DEF T, InS, InT, Before, Upto
    <3>7. InT <=> y # x /\ Upto
      BY <2>7, <3>6
    <3> QED BY <3>7 DEF InT, Upto
  <2> QED BY <2>6, <2>7
<1>3. Nat \subseteq T
  <2> HIDE DEF T
  <2> QED BY <1>1, <1>2, SetInduction
<1>4. max \in T
  BY <1>3
<1>5. Same(max)
  <2> HIDE DEF Same
  <2> QED BY <1>4
<1>6. \A y : y \in {f[max][i] : i \in 1..Len(f[max])} <=>
             y \in {buf[i] : i \in 0..(max - 1)} \ {x}
  BY Zenon, <1>5
<1> QED BY Zenon, <1>6 DEF Items, UsedItems

\* What is in the buffer once is kept once.
LEMMA KeptDistinct ==
  ASSUME NEW buf, NEW max \in Nat, NEW x,
         NEW f, IsKept(f, buf, max, x),
         \A i, j \in 0..(max - 1) : buf[i] = buf[j] => i = j \/ buf[i] = x
  PROVE  \A i, j \in 1..Len(f[max]) : f[max][i] = f[max][j] => i = j
<1> DEFINE R == {buf[i] : i \in 0..(max - 1)}
<1>r. \A i \in 0..(max - 1) : buf[i] \in R
  OBVIOUS
<1> HIDE DEF R
<1>0. \A n \in 0..max : f[n] \in Seq(R \ {x}) /\ Len(f[n]) <= n
  BY <1>r, KeptType
<1> DEFINE Distinct(n) == /\ \A i, j \in 1..Len(f[n]) : f[n][i] = f[n][j] => i = j
                          /\ \A i \in 1..Len(f[n]) : \E k \in 0..(n - 1) : f[n][i] = buf[k]
           T == {n \in Nat : n <= max => Distinct(n)}
<1>1. 0 \in T
  <2>1. f[0] = <<>>
    BY KeptAt
  <2>2. Distinct(0)
    BY <2>1
  <2> QED BY <2>2
<1>2. ASSUME NEW n \in Nat, n \in T  PROVE n + 1 \in T
  <2>1. SUFFICES ASSUME n + 1 <= max  PROVE Distinct(n + 1)
    <3> HIDE DEF Distinct
    <3> QED OBVIOUS
  <2>2. Distinct(n)
    BY <1>2, <2>1
  <2>3. n \in 0..(max - 1) /\ n \in 0..max
    BY <2>1
  <2>4. f[n + 1] = IF buf[n] = x THEN f[n] ELSE Append(f[n], buf[n])
    BY <2>3, KeptAt
  <2>5. \A i \in 0..(n - 1) : i \in 0..((n + 1) - 1)
    OBVIOUS
  <2>6. CASE buf[n] = x
    <3>1. f[n + 1] = f[n]
      BY <2>4, <2>6
    <3> HIDE DEF T
    <3> QED BY <2>2, <2>5, <3>1
  <2>7. CASE buf[n] # x
    <3> DEFINE s == f[n]
               t == f[n + 1]
    <3>1. s \in Seq(R \ {x}) /\ t = Append(s, buf[n])
      BY <1>0, <2>3, <2>4, <2>7
    <3>2. /\ Len(t) = Len(s) + 1 /\ Len(s) \in Nat
          /\ \A i \in 1..Len(s) : t[i] = s[i]
          /\ t[Len(s) + 1] = buf[n]
      <4> HIDE DEF s, t
      <4> QED BY <3>1
    <3>3. \A i : i \in 1..Len(t) <=> i \in 1..Len(s) \/ i = Len(s) + 1
      <4> HIDE DEF s, t
      <4> QED BY <3>2
    <3>4. \A i \in 1..Len(s) : s[i] # buf[n]
      <4> SUFFICES ASSUME NEW i \in 1..Len(s), s[i] = buf[n]  PROVE FALSE
        OBVIOUS
      <4>1. PICK k \in 0..(n - 1) : s[i] = buf[k]
        BY <2>2
      <4>2. k \in 0..(max - 1) /\ k # n /\ buf[k] = buf[n]
        BY <2>3, <4>1
      <4> QED BY <2>3, <2>7, <4>2
    <3>5. \A i, j \in 1..Len(t) : t[i] = t[j] => i = j
      <4>1. \A i, j \in 1..Len(s) : s[i] = s[j] => i = j
        BY <2>2
      <4> HIDE DEF s, t
      <4> QED BY <3>2, <3>3, <3>4, <4>1
    <3>6. \A i \in 1..Len(t) : \E k \in 0..((n + 1) - 1) : t[i] = buf[k]
      <4>1. \A i \in 1..Len(s) : \E k \in 0..(n - 1) : s[i] = buf[k]
        BY <2>2
      <4>2. n \in 0..((n + 1) - 1)
        OBVIOUS
      <4> HIDE DEF s, t
      <4> QED BY <2>5, <3>2, <3>3, <4>1, <4>2
    <3> QED BY <3>5, <3>6
  <2> QED BY <2>6, <2>7
<1>3. Nat \subseteq T
  <2> HIDE DEF T
  <2> QED BY <1>1, <1>2, SetInduction
<1>4. max \in T
  BY <1>3
<1> QED BY <1>4

(***************************************************************************)
(* The loop of ezarr_compact, with its two indices into the one buffer it  *)
(* changes, computes the closed form that the actions use: for every       *)
(* buffer, and for a loop that stops before the end of the buffer.         *)
(***************************************************************************)
IsLoop(f, buf, max, x) ==
  f = [n \in 0..max |->
        IF n = 0 THEN [buf |-> buf, write_idx |-> 0]
        ELSE LET read_idx == n - 1
                 p == f[read_idx]
             IN  IF p.buf[read_idx] = x THEN p
                 ELSE [buf |-> IF p.write_idx = read_idx THEN p.buf
                               ELSE [p.buf EXCEPT ![p.write_idx] = p.buf[read_idx],
                                                  ![read_idx] = x],
                       write_idx |-> p.write_idx + 1]]

\* One round of the loop, at read_idx, from p.
LoopRound(p, read_idx, x) ==
  IF p.buf[read_idx] = x THEN p
  ELSE [buf |-> IF p.write_idx = read_idx THEN p.buf
                ELSE [p.buf EXCEPT ![p.write_idx] = p.buf[read_idx],
                                   ![read_idx] = x],
        write_idx |-> p.write_idx + 1]

\* The buffer and the writing index after the first n slots, of which k is kept.
AfterRounds(buf, n, x, k) ==
  [buf |-> [i \in DOMAIN buf |-> IF i < Len(k) THEN k[i + 1]
                                 ELSE IF i < n THEN x ELSE buf[i]],
   write_idx |-> Len(k)]

\* One round of the loop goes from the closed form for n slots to the one for n + 1.
LEMMA RoundKeeps ==
  ASSUME NEW R, NEW size \in Nat, NEW buf \in [0..(size - 1) -> R], NEW x \in R,
         NEW n \in 0..(size - 1), NEW k \in Seq(R), Len(k) <= n
  PROVE  LoopRound(AfterRounds(buf, n, x, k), n, x) =
           AfterRounds(buf, n + 1, x, IF buf[n] = x THEN k ELSE Append(k, buf[n]))
<1> DEFINE p == AfterRounds(buf, n, x, k)
<1>1. /\ p.write_idx = Len(k) /\ Len(k) \in 0..n
      /\ p.buf = [i \in 0..(size - 1) |-> IF i < Len(k) THEN k[i + 1]
                                        ELSE IF i < n THEN x ELSE buf[i]]
      /\ p = [buf |-> p.buf, write_idx |-> p.write_idx]
  BY DEF AfterRounds
<1> HIDE DEF p
<1>2. p.buf[n] = buf[n]
  BY <1>1
<1>3. CASE buf[n] = x
  <2>1. LoopRound(p, n, x) = p
    BY <1>2, <1>3 DEF LoopRound
  <2>2. [i \in DOMAIN buf |-> IF i < Len(k) THEN k[i + 1]
                              ELSE IF i < n + 1 THEN x ELSE buf[i]] = p.buf
    <3>1. \A i \in 0..(size - 1) : (IF i < n + 1 THEN x ELSE buf[i]) =
                                   (IF i < n THEN x ELSE buf[i])
      BY <1>3
    <3> QED BY <1>1, <3>1
  <2>3. AfterRounds(buf, n + 1, x, k) = p
    BY <1>1, <2>2 DEF AfterRounds
  <2> QED BY <1>3, <2>1, <2>3 DEF p
<1>4. CASE buf[n] # x
  <2> DEFINE k2 == Append(k, buf[n])
             b2 == IF p.write_idx = n THEN p.buf
                   ELSE [p.buf EXCEPT ![p.write_idx] = p.buf[n], ![n] = x]
  <2>1. LoopRound(p, n, x) = [buf |-> b2, write_idx |-> Len(k) + 1]
    BY <1>1, <1>2, <1>4 DEF LoopRound
  <2>2. /\ Len(k2) = Len(k) + 1 /\ k2[Len(k) + 1] = buf[n]
        /\ \A i \in 1..Len(k) : k2[i] = k[i]
    OBVIOUS
  <2>3. b2 = [i \in 0..(size - 1) |-> IF i < Len(k2) THEN k2[i + 1]
                                      ELSE IF i < n + 1 THEN x ELSE buf[i]]
    <3> HIDE DEF k2
    <3>1. CASE Len(k) = n
      <4>1. b2 = p.buf
        BY <1>1, <3>1
      <4>2. \A i \in 0..(size - 1) : p.buf[i] = IF i < Len(k2) THEN k2[i + 1]
                                                ELSE IF i < n + 1 THEN x ELSE buf[i]
        <5> TAKE i \in 0..(size - 1)
        <5>1. p.buf[i] = IF i < n THEN k[i + 1] ELSE buf[i]
          BY <1>1, <3>1
        <5>2. i < n => i + 1 \in 1..Len(k)
          BY <3>1
        <5> QED BY <2>2, <3>1, <5>1, <5>2
      <4> QED BY <1>1, <4>1, <4>2
    <3>2. CASE Len(k) # n
      <4>1. b2 = [p.buf EXCEPT ![Len(k)] = buf[n], ![n] = x]
        BY <1>1, <1>2, <3>2
      <4>2. b2 = [i \in 0..(size - 1) |-> IF i = n THEN x ELSE IF i = Len(k) THEN buf[n] ELSE p.buf[i]]
        BY <1>1, <4>1
      <4>3. \A i \in 0..(size - 1) :
              (IF i = n THEN x ELSE IF i = Len(k) THEN buf[n] ELSE p.buf[i]) =
                IF i < Len(k2) THEN k2[i + 1] ELSE IF i < n + 1 THEN x ELSE buf[i]
        <5> TAKE i \in 0..(size - 1)
        <5>1. p.buf[i] = IF i < Len(k) THEN k[i + 1] ELSE IF i < n THEN x ELSE buf[i]
          BY <1>1
        <5>2. i < Len(k) => i + 1 \in 1..Len(k)
          OBVIOUS
        <5> HIDE DEF p, b2
        <5>3. i = n \/ i = Len(k) \/ i < Len(k) \/ (i > Len(k) /\ i # n)
          OBVIOUS
        <5> QED BY <1>1, <2>2, <3>2, <5>1, <5>2, <5>3
      <4> HIDE DEF b2
      <4> QED BY <4>2, <4>3
    <3> QED BY <3>1, <3>2
  <2>4. AfterRounds(buf, n + 1, x, k2) = [buf |-> b2, write_idx |-> Len(k) + 1]
    <3> HIDE DEF b2, k2
    <3> QED BY <2>2, <2>3 DEF AfterRounds
  <2> HIDE DEF b2
  <2> QED BY <1>4, <2>1, <2>4 DEF p
<1> QED BY <1>3, <1>4

\* The values of the loop, round by round.
LEMMA LoopAt ==
  ASSUME NEW f, NEW buf, NEW max \in Nat, NEW x, IsLoop(f, buf, max, x)
  PROVE  /\ f[0] = [buf |-> buf, write_idx |-> 0]
         /\ \A n \in 0..(max - 1) : f[n + 1] = LoopRound(f[n], n, x)
<1>1. PICK h : h = f
  OBVIOUS
<1>2. f = [n \in 0..max |-> IF n = 0 THEN [buf |-> buf, write_idx |-> 0]
                            ELSE LoopRound(h[n - 1], n - 1, x)]
  BY Zenon, <1>1 DEF IsLoop, LoopRound
<1>3. f[0] = [buf |-> buf, write_idx |-> 0]
  BY <1>2
<1>4. \A n \in 0..(max - 1) : f[n + 1] = LoopRound(h[n], n, x)
  <2> TAKE n \in 0..(max - 1)
  <2>1. n + 1 \in 0..max /\ n + 1 # 0 /\ (n + 1) - 1 = n
    OBVIOUS
  <2>2. f[n + 1] = IF n + 1 = 0 THEN [buf |-> buf, write_idx |-> 0]
                   ELSE LoopRound(h[(n + 1) - 1], (n + 1) - 1, x)
    BY Zenon, <1>2, <2>1
  <2> QED BY Zenon, <2>1, <2>2
<1> QED BY Zenon, <1>1, <1>3, <1>4

(***************************************************************************)
(* ezarr_compact and connmgr_remove_closed_connections: after the loop the *)
(* items in use are at the front, each once and in their order, and every  *)
(* slot behind them that the loop has seen holds the sentinel.             *)
(***************************************************************************)
THEOREM CompactLoopIsCompacted ==
  ASSUME NEW R, NEW size \in Nat, NEW buf \in [0..(size - 1) -> R], NEW x \in R,
         NEW max \in 0..size
  PROVE  CompactLoop(buf, max, x) = Compacted(buf, max, x)
<1>1. max \in Nat /\ \A i \in 0..(max - 1) : buf[i] \in R /\ i \in 0..(size - 1)
  OBVIOUS
<1>2. PICK k : IsKept(k, buf, max, x) /\ Kept(buf, max, x) = k[max]
  BY <1>1, KeptExists
<1>3. \A n \in 0..max : k[n] \in Seq(R) /\ Len(k[n]) <= n
  <2>1. \A n \in 0..max : k[n] \in Seq(R \ {x}) /\ Len(k[n]) <= n
    BY Zenon, <1>1, <1>2, KeptType
  <2> QED BY <2>1
<1>4. /\ k[0] = <<>>
      /\ \A n \in 0..(max - 1) :
           k[n + 1] = IF buf[n] = x THEN k[n] ELSE Append(k[n], buf[n])
  BY <1>1, <1>2, KeptAt
<1> DEFINE At(n) == AfterRounds(buf, n, x, k[n])
<1>5. At(0) = [buf |-> buf, write_idx |-> 0]
  <2>1. [i \in DOMAIN buf |-> IF i < 0 THEN k[0][i + 1] ELSE IF i < 0 THEN x ELSE buf[i]] = buf
    OBVIOUS
  <2>2. Len(k[0]) = 0
    BY <1>4
  <2> QED BY <2>1, <2>2 DEF AfterRounds
<1>6. \A n \in 0..(max - 1) : At(n + 1) = LoopRound(At(n), n, x)
  <2> TAKE n \in 0..(max - 1)
  <2>1. n \in 0..(size - 1)
    OBVIOUS
  <2>2. k[n] \in Seq(R) /\ Len(k[n]) <= n
    BY <1>1, <1>3
  <2>3. LoopRound(AfterRounds(buf, n, x, k[n]), n, x) =
          AfterRounds(buf, n + 1, x, IF buf[n] = x THEN k[n] ELSE Append(k[n], buf[n]))
    <3>1. \A s \in Seq(R) : Len(s) <= n =>
            LoopRound(AfterRounds(buf, n, x, s), n, x) =
              AfterRounds(buf, n + 1, x, IF buf[n] = x THEN s ELSE Append(s, buf[n]))
      BY <2>1, RoundKeeps
    <3> QED BY Zenon, <2>2, <3>1
  <2>4. k[n + 1] = IF buf[n] = x THEN k[n] ELSE Append(k[n], buf[n])
    BY Zenon, <1>4
  <2> QED BY Zenon, <2>3, <2>4
<1> DEFINE g == [n \in 0..max |-> At(n)]
<1>7. IsLoop(g, buf, max, x)
  <2>1. PICK h : h = g
    OBVIOUS
  <2>2. \A n \in 0..max : At(n) = IF n = 0 THEN [buf |-> buf, write_idx |-> 0]
                                   ELSE LoopRound(h[n - 1], n - 1, x)
    <3> TAKE n \in 0..max
    <3>1. CASE n = 0
      BY Zenon, <1>5, <3>1
    <3>2. CASE n # 0
      <4>1. n - 1 \in 0..(max - 1) /\ n - 1 \in 0..max /\ (n - 1) + 1 = n
        BY <1>1, <3>2
      <4>2. h[n - 1] = At(n - 1)
        <5> HIDE DEF At
        <5> QED BY <2>1, <4>1
      <4>3. At((n - 1) + 1) = LoopRound(At(n - 1), n - 1, x)
        <5> HIDE DEF At
        <5> QED BY Zenon, <1>6, <4>1
      <4> HIDE DEF At
      <4> QED BY Zenon, <3>2, <4>1, <4>2, <4>3
    <3> QED BY Zenon, <3>1, <3>2
  <2>3. g = [n \in 0..max |-> IF n = 0 THEN [buf |-> buf, write_idx |-> 0]
                              ELSE LoopRound(h[n - 1], n - 1, x)]
    <3> HIDE DEF At
    <3> QED BY Zenon, <2>2
  <2> HIDE DEF g
  <2> QED BY Zenon, <2>1, <2>3 DEF IsLoop, LoopRound
<1> DEFINE L == CHOOSE f : IsLoop(f, buf, max, x)
<1>8. IsLoop(L, buf, max, x)
  <2> HIDE DEF g
  <2> QED BY Zenon, <1>7
<1>9. CompactLoop(buf, max, x) = L[max]
  BY Zenon DEF CompactLoop, IsLoop
<1> HIDE DEF L, At, g
<1>10. L[max] = At(max)
  <2> DEFINE T == {n \in Nat : n <= max => L[n] = At(n)}
  <2>1. /\ L[0] = [buf |-> buf, write_idx |-> 0]
        /\ \A n \in 0..(max - 1) : L[n + 1] = LoopRound(L[n], n, x)
    <3> HIDE DEF T
    <3>1. max \in Nat
      BY <1>1
    <3> QED BY <1>8, <3>1, LoopAt
  <2>2. 0 \in T
    BY <1>5, <2>1
  <2>3. ASSUME NEW n \in Nat, n \in T  PROVE n + 1 \in T
    <3>1. SUFFICES ASSUME n + 1 <= max  PROVE L[n + 1] = At(n + 1)
      OBVIOUS
    <3>2. n \in 0..(max - 1) /\ L[n] = At(n)
      BY <2>3, <3>1
    <3>3. L[n + 1] = LoopRound(L[n], n, x) /\ At(n + 1) = LoopRound(At(n), n, x)
      BY Zenon, <1>6, <2>1, <3>2
    <3> QED BY Zenon, <3>2, <3>3
  <2>4. Nat \subseteq T
    <3> HIDE DEF T
    <3> QED BY <2>2, <2>3, SetInduction
  <2> QED BY <1>1, <2>4
<1>11. At(max) = Compacted(buf, max, x)
  BY Zenon, <1>2 DEF At, AfterRounds, Compacted
<1> QED BY Zenon, <1>9, <1>10, <1>11
-----------------------------------------------------------------------------
(***************************************************************************)
(* The tables.  0 and NULL are no descriptors of the process.              *)
(***************************************************************************)
Descriptors == open \subseteq Nat \ {0}

\* Within the array ezarr_get_at is plain indexing.
LEMMA ActiveItems ==
  ASSUME NEW c, NEW m \in Nat, NEW n \in 0..m, c.max = m
  PROVE  {EzarrGetAt(c, i, NULL) : i \in 0..(n - 1)} = {c.buf[i] : i \in 0..(n - 1)}
<1>1. \A i \in 0..(n - 1) : EzarrGetAt(c, i, NULL) = c.buf[i]
  BY DEF EzarrGetAt
<1> QED BY Zenon, <1>1

\* The active connections are in the first slots, and open.
LEMMA InStepActive ==
  ASSUME NEW holes, InStep(holes), Descriptors
  PROVE  /\ Active = {p_conns.buf[i] : i \in 0..(num_active_conns - 1)} \ {NULL}
         /\ Active \subseteq open
<1>1. /\ p_conns.max = max_conns /\ max_conns \in Nat
      /\ num_active_conns \in 0..max_conns
      /\ \A i \in 0..(max_conns - 1) : p_conns.buf[i] \in open \cup {NULL}
  <2>1. /\ p_conns.max = max_conns
        /\ \A i \in 0..(max_conns - 1) : p_conns.buf[i] \in open \cup {NULL}
    BY DEF InStep
  <2>2. max_conns \in Nat /\ num_active_conns \in 0..max_conns
    BY EzArrayAssumption DEF InStep
  <2> QED BY <2>1, <2>2
<1>2. \A i \in 0..(num_active_conns - 1) : i \in 0..(max_conns - 1)
  BY <1>1
<1>3. Active = {p_conns.buf[i] : i \in 0..(num_active_conns - 1)} \ {NULL}
  BY <1>1, ActiveItems DEF Active
<1> QED BY <1>1, <1>2, <1>3

(***************************************************************************)
(* InStep without holes, and a queue of others, is what the event loop     *)
(* relies on.                                                              *)
(***************************************************************************)
LEMMA InStepIsSame ==
  ASSUME InStep(FALSE), QueueInv, Descriptors
  PROVE  SameConnections
<1>1. /\ num_active_conns = p_conns.num /\ max_conns = p_conns.max
      /\ DOMAIN p_pfds = 0..(max_conns - 1)
  BY DEF InStep
<1>2. max_conns \in Nat /\ num_active_conns \in 0..max_conns
  BY EzArrayAssumption DEF InStep
<1>3. \A i \in 0..(num_active_conns - 1) :
        /\ i \in 0..(max_conns - 1)
        /\ p_conns.buf[i] # NULL /\ p_pfds[i] = p_conns.buf[i]
  <2> TAKE i \in 0..(num_active_conns - 1)
  <2>1. i \in 0..(max_conns - 1) /\ ~(i >= num_active_conns)
    BY <1>2
  <2> QED BY <2>1 DEF InStep
<1>4. \A i \in 0..(num_active_conns - 1) : p_conns.buf[i] \in open
  BY <1>3 DEF InStep
<1>5. Active = {p_conns.buf[i] : i \in 0..(num_active_conns - 1)}
  <2>1. Active = {p_conns.buf[i] : i \in 0..(num_active_conns - 1)} \ {NULL}
    BY Zenon, InStepActive
  <2> QED BY Zenon, <1>3, <2>1
<1>6. Cardinality(Active) = num_active_conns
  <2> DEFINE g == [i \in 1..num_active_conns |-> p_conns.buf[i - 1]]
  <2>1. \A i \in 1..num_active_conns : i - 1 \in 0..(num_active_conns - 1)
    BY <1>2
  <2>2. g \in [1..num_active_conns -> Active]
    BY <1>5, <2>1
  <2>3. \A i, j \in 1..num_active_conns : g[i] = g[j] => i = j
    <3> TAKE i, j \in 1..num_active_conns
    <3>1. HAVE g[i] = g[j]
    <3>2. p_conns.buf[i - 1] = p_conns.buf[j - 1]
      BY <3>1
    <3>3. /\ i - 1 \in 0..(max_conns - 1) /\ j - 1 \in 0..(max_conns - 1)
          /\ p_conns.buf[i - 1] # NULL
      BY <1>3, <2>1
    <3>4. i - 1 = j - 1
      BY <3>2, <3>3 DEF InStep
    <3> QED BY <3>4
  <2>4. \A y \in Active : \E i \in 1..num_active_conns : g[i] = y
    <3> TAKE y \in Active
    <3>1. PICK k \in 0..(num_active_conns - 1) : y = p_conns.buf[k]
      BY Zenon, <1>5
    <3>2. k + 1 \in 1..num_active_conns /\ (k + 1) - 1 = k
      BY <1>2
    <3>3. g[k + 1] = y
      BY <3>1, <3>2
    <3> QED BY <3>2, <3>3
  <2>5. g \in Bijection(1..num_active_conns, Active)
    <3> HIDE DEF g
    <3> QED BY <2>2, <2>3, <2>4 DEF Bijection, Injection, Surjection, IsInjective
  <2>6. ExistsBijection(1..num_active_conns, Active)
    <3> HIDE DEF g
    <3> QED BY <2>5 DEF ExistsBijection
  <2>7. num_active_conns \in Nat
    BY <1>2
  <2> QED BY Zenon, <2>6, <2>7, FS_CountingElements
<1>7. Active \cap Queued = {}
  BY DEF QueueInv
<1> QED BY Zenon, <1>1, <1>3, <1>4, <1>6, <1>7 DEF SameConnections

(***************************************************************************)
(* Destroying connections of the tables leaves holes, the same in both.    *)
(***************************************************************************)
LEMMA DestroyKeeps ==
  ASSUME InStep(FALSE), QueueInv, Descriptors, NEW gone, gone \subseteq Active,
         DestroyConns(gone)
  PROVE  /\ InStep(TRUE)' /\ QueueInv' /\ Descriptors'
         /\ Active' = Active \ gone
<1> DEFINE slots == {i \in 0..(num_active_conns - 1) : p_conns.buf[i] \in gone}
           buf2 == [i \in 0..(max_conns - 1) |-> IF i \in slots THEN NULL ELSE p_conns.buf[i]]
<1>1. /\ max_conns \in 1..U16Max /\ max_conns \in Nat /\ num_active_conns \in 0..max_conns
      /\ p_conns = [buf |-> p_conns.buf, num |-> num_active_conns, max |-> max_conns]
      /\ p_conns.num = num_active_conns
      /\ p_conns.buf \in [0..(max_conns - 1) -> open \cup {NULL}]
      /\ p_pfds \in [0..(max_conns - 1) -> open \cup {Fd0}]
  <2>1. max_conns \in 1..U16Max /\ max_conns \in Nat /\ num_active_conns \in 0..max_conns
    BY EzArrayAssumption DEF InStep
  <2> QED BY <2>1 DEF InStep
<1>2. Active = {p_conns.buf[i] : i \in 0..(num_active_conns - 1)} \ {NULL} /\ Active \subseteq open
  BY Zenon, InStepActive
<1>3. /\ NULL \notin open /\ Fd0 \notin open
  BY DEF Descriptors, NULL, Fd0
<1>4. /\ open' = open \ gone
      /\ p_conns' = [buf |-> buf2, num |-> num_active_conns, max |-> max_conns]
      /\ p_pfds' = [i \in 0..(max_conns - 1) |-> IF i \in slots THEN Fd0 ELSE p_pfds[i]]
      /\ UNCHANGED <<max_conns, num_active_conns, p_new_conns>>
  <2>1. /\ open' = open \ gone
        /\ p_conns' = EzarrSetAt(p_conns, slots, NULL)
        /\ p_pfds' = [i \in DOMAIN p_pfds |->
                        IF i \in slots /\ i < p_conns.num THEN Fd0 ELSE p_pfds[i]]
        /\ UNCHANGED <<max_conns, num_active_conns, p_new_conns>>
    BY Zenon DEF DestroyConns
  <2>2. \A i \in slots : i < p_conns.num
    BY <1>1
  <2>3. p_pfds' = [i \in 0..(max_conns - 1) |-> IF i \in slots THEN Fd0 ELSE p_pfds[i]]
    <3> HIDE DEF slots
    <3> QED BY <1>1, <2>1, <2>2
  <2>4. EzarrSetAt(p_conns, slots, NULL) =
          [buf |-> buf2, num |-> num_active_conns, max |-> max_conns]
    <3>1. EzarrSetAt(p_conns, slots, NULL) =
            [p_conns EXCEPT !.buf =
               [i \in 0..(max_conns - 1) |->
                  IF i \in slots /\ i < num_active_conns THEN NULL ELSE p_conns.buf[i]]]
      <4> HIDE DEF slots
      <4> QED BY <1>1 DEF EzarrSetAt
    <3>2. buf2 = [i \in 0..(max_conns - 1) |->
                   IF i \in slots /\ i < num_active_conns THEN NULL ELSE p_conns.buf[i]]
      <4> HIDE DEF slots
      <4> QED BY <1>1, <2>2
    <3>3. [p_conns EXCEPT !.buf = buf2] =
            [buf |-> buf2, num |-> num_active_conns, max |-> max_conns]
      <4>1. PICK b : b = p_conns.buf
        OBVIOUS
      <4>2. p_conns = [buf |-> b, num |-> num_active_conns, max |-> max_conns]
        BY Zenon, <1>1, <4>1
      <4> HIDE DEF slots, buf2
      <4> QED BY <4>2
    <3> HIDE DEF slots, buf2
    <3> QED BY Zenon, <3>1, <3>2, <3>3
  <2> HIDE DEF slots, buf2
  <2> QED BY <2>1, <2>3, <2>4
<1>5. \A i \in 0..(max_conns - 1) :
        \/ p_conns.buf[i] = NULL /\ p_pfds[i] = Fd0
        \/ p_conns.buf[i] # NULL /\ p_pfds[i] = p_conns.buf[i] /\ i < num_active_conns
  BY DEF InStep
<1>6. \A i \in 0..(max_conns - 1) : i \in slots <=> p_conns.buf[i] \in gone
  <2> TAKE i \in 0..(max_conns - 1)
  <2>1. p_conns.buf[i] \in gone => p_conns.buf[i] # NULL
    BY <1>2, <1>3
  <2>2. i < num_active_conns => i \in 0..(num_active_conns - 1)
    BY <1>1
  <2> QED BY <1>5, <2>1, <2>2
<1> HIDE DEF slots
<1>7. InStep(TRUE)'
  <2>1. buf2 \in [0..(max_conns - 1) -> (open \ gone) \cup {NULL}]
    BY <1>1, <1>6
  <2>2. p_pfds' \in [0..(max_conns - 1) -> (open \ gone) \cup {Fd0}]
    <3>1. \A i \in 0..(max_conns - 1) : i \notin slots => p_pfds[i] \in (open \ gone) \cup {Fd0}
      BY <1>1, <1>5, <1>6
    <3> QED BY <1>4, <3>1
  <2>3. \A i \in 0..(max_conns - 1) :
          \/ buf2[i] = NULL /\ p_pfds'[i] = Fd0
          \/ buf2[i] # NULL /\ p_pfds'[i] = buf2[i] /\ i < num_active_conns
    BY <1>4, <1>5
  <2>4. \A i, j \in 0..(max_conns - 1) : buf2[i] = buf2[j] => i = j \/ buf2[i] = NULL
    <3>1. \A i, j \in 0..(max_conns - 1) :
            p_conns.buf[i] = p_conns.buf[j] => i = j \/ p_conns.buf[i] = NULL
      BY DEF InStep
    <3> QED BY <3>1
  <2>5. p_conns'.buf = buf2
    BY <1>4
  <2> HIDE DEF buf2
  <2>6. p_conns' \in [buf : [0..(max_conns - 1) -> (open \ gone) \cup {NULL}],
                      num : {num_active_conns}, max : {max_conns}]
    BY <1>4, <2>1
  <2> QED BY <1>1, <1>4, <2>2, <2>3, <2>4, <2>5, <2>6 DEF InStep
<1>8. Descriptors'
  BY <1>4 DEF Descriptors
<1>9. Active' = Active \ gone
  <2>1. Active' = {p_conns'.buf[i] : i \in 0..(num_active_conns' - 1)} \ {NULL}
    <3> HIDE DEF buf2
    <3>1. p_conns'.max = max_conns
      BY <1>4
    <3>2. \A i \in 0..(num_active_conns - 1) :
            EzarrGetAt(p_conns', i, NULL) = p_conns'.buf[i]
      BY <1>1, <3>1 DEF EzarrGetAt
    <3>3. num_active_conns' = num_active_conns
      BY <1>4
    <3> QED BY Zenon, <3>2, <3>3 DEF Active
  <2>2. \A i \in 0..(num_active_conns - 1) :
          p_conns'.buf[i] = IF p_conns.buf[i] \in gone THEN NULL ELSE p_conns.buf[i]
    <3>1. \A i \in 0..(num_active_conns - 1) : i \in 0..(max_conns - 1)
      BY <1>1
    <3>2. p_conns'.buf = buf2
      BY <1>4
    <3>3. \A i \in 0..(max_conns - 1) :
            buf2[i] = IF p_conns.buf[i] \in gone THEN NULL ELSE p_conns.buf[i]
      BY <1>6
    <3> HIDE DEF buf2
    <3> QED BY Zenon, <3>1, <3>2, <3>3
  <2>3. num_active_conns' = num_active_conns
    BY <1>4
  <2>4. \A y : y \in Active' <=> y \in Active \ gone
    BY Zenon, <1>2, <2>1, <2>2, <2>3
  <2> QED BY Zenon, <2>4
<1>10. QueueInv'
  <2>1. /\ p_new_conns \in Seq(open) /\ Active \cap Queued = {}
        /\ \A i, j \in 1..Len(p_new_conns) : p_new_conns[i] = p_new_conns[j] => i = j
    BY DEF QueueInv
  <2>2. Queued' = Queued
    BY <1>4 DEF Queued
  <2>3. \A i \in 1..Len(p_new_conns) : p_new_conns[i] \in open \ gone
    BY <1>2, <2>1 DEF Queued
  <2>4. p_new_conns \in Seq(open \ gone)
    BY <2>1, <2>3
  <2> QED BY <1>4, <1>9, <2>1, <2>2, <2>4 DEF QueueInv
<1> QED BY Zenon, <1>7, <1>8, <1>9, <1>10

\* The active connections after a step that builds a new array.
LEMMA ActiveAfter ==
  ASSUME NEW b, NEW k, NEW m \in Nat, NEW n \in 0..m,
         p_conns' = [buf |-> b, num |-> k, max |-> m], num_active_conns' = n
  PROVE  Active' = {b[i] : i \in 0..(n - 1)} \ {NULL}
<1>1. p_conns'.max = m /\ p_conns'.buf = b
  OBVIOUS
<1>2. \A i \in 0..(n - 1) : EzarrGetAt(p_conns', i, NULL) = b[i]
  BY <1>1 DEF EzarrGetAt
<1> QED BY Zenon, <1>2 DEF Active

(***************************************************************************)
(* Compacting both tables closes the holes and loses no connection.        *)
(***************************************************************************)
LEMMA RemoveKeeps ==
  ASSUME InStep(TRUE), QueueInv, Descriptors, RemoveClosed
  PROVE  /\ InStep(FALSE)' /\ QueueInv' /\ Descriptors'
         /\ Active' = Active /\ num_active_conns' <= num_active_conns
<1> DEFINE n == num_active_conns
           m == max_conns
<1>1. /\ m \in 1..U16Max /\ m \in Nat /\ n \in 0..m
      /\ p_conns.buf \in [0..(m - 1) -> open \cup {NULL}]
      /\ p_pfds \in [0..(m - 1) -> open \cup {Fd0}]
      /\ p_conns.max = m
  <2>1. m \in 1..U16Max /\ m \in Nat /\ n \in 0..m
    BY EzArrayAssumption DEF InStep
  <2> QED BY <2>1 DEF InStep
<1>2. Active = {p_conns.buf[i] : i \in 0..(n - 1)} \ {NULL} /\ Active \subseteq open
  BY Zenon, InStepActive
<1>3. /\ NULL \notin open /\ Fd0 \notin open
  BY DEF Descriptors, NULL, Fd0
<1>4. \A i \in 0..(m - 1) :
        \/ p_conns.buf[i] = NULL /\ p_pfds[i] = Fd0
        \/ p_conns.buf[i] # NULL /\ p_pfds[i] = p_conns.buf[i] /\ i < n
  BY DEF InStep
<1>5. \A i \in 0..(m - 1) :
        p_conns.buf[i] \in open \cup {NULL} /\ p_pfds[i] \in open \cup {Fd0}
  BY <1>1
<1>6. PICK f : IsKept(f, p_conns.buf, m, NULL) /\ Kept(p_conns.buf, m, NULL) = f[m]
  <2> HIDE DEF m
  <2> QED BY <1>1, KeptExists
<1>7. PICK g : IsKept(g, p_pfds, m, Fd0) /\ Kept(p_pfds, m, Fd0) = g[m]
  <2> HIDE DEF m
  <2> QED BY <1>1, KeptExists
<1> DEFINE k == f[m]
<1>8. g[m] = k
  <2>1. \A i \in 0..(m - 1) :
          \/ p_conns.buf[i] = NULL /\ p_pfds[i] = Fd0
          \/ p_conns.buf[i] # NULL /\ p_pfds[i] # Fd0 /\ p_conns.buf[i] = p_pfds[i]
    BY <1>3, <1>4, <1>5
  <2>2. m \in Nat
    BY <1>1
  <2> HIDE DEF m
  <2>3. f[m] = g[m]
    BY <1>6, <1>7, <2>1, <2>2, KeptSame
  <2> QED BY <2>3
<1>9. k \in Seq(open) /\ Len(k) <= n
  <2>1. \A i \in 0..(m - 1) : p_conns.buf[i] \in open \cup {NULL}
    BY <1>5
  <2>2. \A i \in n..(m - 1) : p_conns.buf[i] = NULL
    <3> TAKE i \in n..(m - 1)
    <3>1. i \in 0..(m - 1) /\ ~(i < n)
      BY <1>1
    <3> QED BY <1>4, <3>1
  <2>3. m \in Nat /\ n \in 0..m /\ m \in 0..m
    BY <1>1
  <2> HIDE DEF m, n
  <2>4. \A j \in 0..m : f[j] \in Seq((open \cup {NULL}) \ {NULL}) /\ Len(f[j]) <= j
    BY <1>6, <2>1, <2>3, KeptType
  <2>5. (open \cup {NULL}) \ {NULL} = open
    BY <1>3
  <2>6. Len(f[m]) <= n
    BY <1>6, <2>1, <2>2, <2>3, KeptShort
  <2> QED BY <2>3, <2>4, <2>5, <2>6
<1>10. \A y : (\E i \in 1..Len(k) : k[i] = y) <=>
                (y # NULL /\ \E i \in 0..(m - 1) : p_conns.buf[i] = y)
  <2>1. m \in Nat
    BY <1>1
  <2>2. IsKept(f, p_conns.buf, m, NULL)
    BY <1>6
  <2> HIDE DEF m
  <2>3. Items(f[m]) = UsedItems(p_conns.buf, m, NULL)
    BY <2>1, <2>2, KeptItems
  <2> QED BY Zenon, <2>3 DEF Items, UsedItems
<1>11. \A i, j \in 1..Len(k) : k[i] = k[j] => i = j
  <2>1. \A i \in 0..(m - 1) : p_conns.buf[i] \in open \cup {NULL}
    BY <1>5
  <2>2. m \in Nat
    BY <1>1
  <2>3. \A i, j \in 0..(m - 1) :
          p_conns.buf[i] = p_conns.buf[j] => i = j \/ p_conns.buf[i] = NULL
    BY DEF InStep
  <2> HIDE DEF m
  <2> QED BY <1>6, <2>1, <2>2, <2>3, KeptDistinct
<1> DEFINE b == [i \in 0..(m - 1) |-> IF i < Len(k) THEN k[i + 1] ELSE NULL]
           p == [i \in 0..(m - 1) |-> IF i < Len(k) THEN k[i + 1] ELSE Fd0]
<1>12. /\ p_conns' = [buf |-> b, num |-> Len(k), max |-> m]
       /\ p_pfds' = p /\ num_active_conns' = Len(k)
       /\ max_conns' = m /\ p_new_conns' = p_new_conns /\ open' = open
  <2>1. /\ p_conns' = EzarrCompact(p_conns, NULL)
        /\ p_pfds' = Compacted(p_pfds, m, Fd0).buf
        /\ num_active_conns' = Compacted(p_pfds, m, Fd0).write_idx
        /\ max_conns' = m /\ p_new_conns' = p_new_conns /\ open' = open
    BY DEF RemoveClosed
  <2>2. Compacted(p_conns.buf, m, NULL) = [buf |-> b, write_idx |-> Len(k)]
    <3>1. b = [i \in DOMAIN p_conns.buf |-> IF i < Len(k) THEN k[i + 1]
                                 ELSE IF i < m THEN NULL ELSE p_conns.buf[i]]
      <4> HIDE DEF k
      <4> QED BY <1>1
    <3> HIDE DEF b, m
    <3> QED BY <1>6, <3>1 DEF Compacted
  <2>3. Compacted(p_pfds, m, Fd0) = [buf |-> p, write_idx |-> Len(k)]
    <3>1. p = [i \in DOMAIN p_pfds |-> IF i < Len(k) THEN k[i + 1]
                                 ELSE IF i < m THEN Fd0 ELSE p_pfds[i]]
      <4> HIDE DEF k
      <4> QED BY <1>1
    <3>2. Kept(p_pfds, m, Fd0) = k
      BY <1>7, <1>8
    <3> HIDE DEF p, m, k
    <3> QED BY <3>1, <3>2 DEF Compacted
  <2>4. EzarrCompact(p_conns, NULL) = [buf |-> b, num |-> Len(k), max |-> m]
    <3>1. Compacted(p_conns.buf, p_conns.max, NULL) = [buf |-> b, write_idx |-> Len(k)]
      BY <1>1, <2>2
    <3> HIDE DEF b, k
    <3> QED BY <1>1, <3>1 DEF EzarrCompact
  <2> HIDE DEF b, k, p, m
  <2> QED BY <2>1, <2>3, <2>4
<1> HIDE DEF k
<1>13. InStep(FALSE)'
  <2>1. Len(k) \in 0..m
    BY <1>1, <1>9
  <2>2. \A i \in 0..(m - 1) : i < Len(k) => i + 1 \in 1..Len(k) /\ k[i + 1] \in open
    BY <1>9
  <2>3. b \in [0..(m - 1) -> open \cup {NULL}] /\ p \in [0..(m - 1) -> open \cup {Fd0}]
    BY <2>2
  <2>4. \A i \in 0..(m - 1) :
          \/ b[i] = NULL /\ p[i] = Fd0 /\ i >= Len(k)
          \/ b[i] # NULL /\ p[i] = b[i] /\ i < Len(k)
    BY <1>3, <2>1, <2>2
  <2>5. \A i, j \in 0..(m - 1) : b[i] = b[j] => i = j \/ b[i] = NULL
    <3> TAKE i, j \in 0..(m - 1)
    <3>1. CASE i < Len(k) /\ j < Len(k)
      <4>1. i + 1 \in 1..Len(k) /\ j + 1 \in 1..Len(k) /\ b[i] = k[i + 1] /\ b[j] = k[j + 1]
        BY <2>1, <3>1
      <4>2. k[i + 1] = k[j + 1] => i + 1 = j + 1
        BY <1>11, <4>1
      <4> QED BY <4>1, <4>2
    <3>2. CASE ~(i < Len(k))
      BY <3>2
    <3>3. CASE i < Len(k) /\ ~(j < Len(k))
      BY <1>3, <2>2, <3>3
    <3> QED BY <3>1, <3>2, <3>3
  <2> HIDE DEF b, p
  <2>6. p_conns'.buf = b
    BY <1>12
  <2>7. p_conns' \in [buf : [0..(m - 1) -> open \cup {NULL}], num : {Len(k)}, max : {m}]
    BY <1>12, <2>3
  <2> QED BY <1>1, <1>12, <2>1, <2>3, <2>4, <2>5, <2>6, <2>7 DEF InStep
<1>14. Active' = Active
  <2>1. Active' = {b[i] : i \in 0..(Len(k) - 1)} \ {NULL}
    <3>1. Len(k) \in 0..m /\ m \in Nat
      BY <1>1, <1>9
    <3> HIDE DEF b, m
    <3> QED BY <1>12, <3>1, ActiveAfter
  <2>2. \A y : y \in Active' <=> y # NULL /\ \E i \in 1..Len(k) : k[i] = y
    <3>1. \A i \in 0..(Len(k) - 1) : b[i] = k[i + 1] /\ i + 1 \in 1..Len(k)
      BY <1>1, <1>9
    <3>2. \A i \in 1..Len(k) : i - 1 \in 0..(Len(k) - 1) /\ (i - 1) + 1 = i
      BY <1>9
    <3>3. \A i \in 1..Len(k) : b[i - 1] = k[i]
      <4> HIDE DEF b
      <4> TAKE i \in 1..Len(k)
      <4>1. i - 1 \in 0..(Len(k) - 1) /\ (i - 1) + 1 = i
        BY <3>2
      <4>2. b[i - 1] = k[(i - 1) + 1]
        BY Zenon, <3>1, <4>1
      <4> QED BY Zenon, <4>1, <4>2
    <3>4. \A y : y \in Active' <=> y # NULL /\ \E i \in 0..(Len(k) - 1) : b[i] = y
      <4> HIDE DEF b
      <4> QED BY Zenon, <2>1
    <3>5. \A y : (\E i \in 0..(Len(k) - 1) : b[i] = y) <=> (\E i \in 1..Len(k) : k[i] = y)
      <4> HIDE DEF b
      <4> QED BY Zenon, <3>1, <3>2, <3>3
    <3> HIDE DEF b
    <3> QED BY Zenon, <3>4, <3>5
  <2>3. \A y : y # NULL => ((\E i \in 0..(m - 1) : p_conns.buf[i] = y) <=>
                            (\E i \in 0..(n - 1) : p_conns.buf[i] = y))
    <3>1. \A i \in 0..(n - 1) : i \in 0..(m - 1)
      BY <1>1
    <3>2. \A i \in 0..(m - 1) : i \in 0..(n - 1) \/ p_conns.buf[i] = NULL
      <4> TAKE i \in 0..(m - 1)
      <4>1. i < n => i \in 0..(n - 1)
        BY <1>1
      <4> QED BY <1>4, <4>1
    <3> QED BY Zenon, <3>1, <3>2
  <2>4. \A y : y \in Active <=> y # NULL /\ \E i \in 0..(n - 1) : p_conns.buf[i] = y
    BY Zenon, <1>2
  <2>5. \A y : y \in Active' <=> y \in Active
    BY Zenon, <1>10, <2>2, <2>3, <2>4
  <2> QED BY Zenon, <2>5
<1>15. QueueInv' /\ Descriptors'
  BY <1>12, <1>14 DEF QueueInv, Queued, Descriptors
<1> QED BY <1>9, <1>12, <1>13, <1>14, <1>15

(***************************************************************************)
(* Growing: a full table gets room for at least one more, and its size     *)
(* stays a uint16_t.                                                       *)
(***************************************************************************)
LEMMA NewMaxGrows ==
  ASSUME NEW n \in 1..(U16Max - 1)
  PROVE  NewMax(n) \in (n + 1)..U16Max
<1>1. U16Max \in Nat /\ U16Max \div 2 \in Nat
  BY EzArrayAssumption
<1>2. CASE U16Max \div 2 < n
  BY <1>1, <1>2 DEF NewMax
<1>3. CASE ~(U16Max \div 2 < n)
  <2>1. n * 2 <= U16Max /\ n * 2 \in Nat /\ n + 1 <= n * 2
    BY <1>1, <1>3
  <2> QED BY <1>1, <1>3, <2>1 DEF NewMax
<1> QED BY <1>2, <1>3

(***************************************************************************)
(* The next connection of the queue goes to the first unused slot of both  *)
(* tables, which grow together if they have none, provided the memory that *)
(* realloc adds is cleared.                                                *)
(***************************************************************************)
LEMMA AddKeeps ==
  ASSUME InStep(FALSE), QueueInv, Descriptors, num_active_conns < U16Max, AddNew(0),
         open' = open
  PROVE  /\ InStep(FALSE)' /\ QueueInv' /\ Descriptors'
         /\ Active' \cup Queued' = Active \cup Queued
         /\ Active \subseteq Active'
         /\ num_active_conns' = num_active_conns + 1 /\ max_conns <= max_conns'
         /\ Len(p_new_conns') = Len(p_new_conns) - 1
<1> DEFINE n == num_active_conns
           h == Head(p_new_conns)
           full == n = max_conns
           m == IF full THEN NewMax(n) ELSE max_conns
           b == [i \in 0..(m - 1) |-> IF i = n THEN h
                                      ELSE IF i < max_conns THEN p_conns.buf[i] ELSE NULL]
           p == [i \in 0..(m - 1) |-> IF i = n THEN h
                                      ELSE IF i < max_conns THEN p_pfds[i] ELSE Fd0]
<1>1. /\ max_conns \in 1..U16Max /\ max_conns \in Nat /\ n \in 0..max_conns
      /\ p_conns.buf \in [0..(max_conns - 1) -> open \cup {NULL}]
      /\ p_pfds \in [0..(max_conns - 1) -> open \cup {Fd0}]
      /\ p_conns.max = max_conns /\ p_conns.num = n
  <2>1. max_conns \in 1..U16Max /\ max_conns \in Nat /\ n \in 0..max_conns
    BY EzArrayAssumption DEF InStep
  <2> QED BY <2>1 DEF InStep
<1>2. Active = {p_conns.buf[i] : i \in 0..(n - 1)} \ {NULL} /\ Active \subseteq open
  BY Zenon, InStepActive
<1>3. NULL \notin open /\ Fd0 \notin open
  BY DEF Descriptors, NULL, Fd0
<1>4. \A i \in 0..(max_conns - 1) :
        \/ p_conns.buf[i] = NULL /\ p_pfds[i] = Fd0 /\ i >= n
        \/ p_conns.buf[i] # NULL /\ p_pfds[i] = p_conns.buf[i] /\ i < n
  BY DEF InStep
<1>5. /\ m \in 1..U16Max /\ m \in Nat /\ max_conns <= m /\ n < m
  <2>1. CASE full
    <3>1. n \in 1..(U16Max - 1)
      BY <1>1, <2>1, EzArrayAssumption
    <3>2. NewMax(n) \in (n + 1)..U16Max
      BY <3>1, NewMaxGrows
    <3> QED BY <1>1, <2>1, <3>2, EzArrayAssumption
  <2>2. CASE ~full
    BY <1>1, <2>2
  <2> QED BY <2>1, <2>2
<1>6. /\ p_new_conns # <<>> /\ p_new_conns \in Seq(open)
      /\ h \in open /\ h = p_new_conns[1] /\ 1 \in 1..Len(p_new_conns)
      /\ Tail(p_new_conns) \in Seq(open)
      /\ Len(Tail(p_new_conns)) = Len(p_new_conns) - 1
      /\ \A i \in 1..(Len(p_new_conns) - 1) : Tail(p_new_conns)[i] = p_new_conns[i + 1]
      /\ Len(p_new_conns) \in Nat \ {0}
  BY DEF QueueInv, AddNew
<1>7. h \in Queued /\ h \notin Active
  BY <1>6 DEF Queued, QueueInv
<1>8. /\ p_conns' = [buf |-> b, num |-> n + 1, max |-> m]
      /\ p_pfds' = p /\ num_active_conns' = n + 1
      /\ max_conns' = m /\ p_new_conns' = Tail(p_new_conns)
  <2>1. /\ p_conns' = EzarrPush(p_conns, h, NULL)
        /\ p_new_conns' = Tail(p_new_conns)
        /\ max_conns' = p_conns'.max
        /\ AddToPollfd(h, 0)
        /\ num_active_conns' = n + 1
    BY DEF AddNew, Pushed, Pointer
  <2>2. EzarrPush(p_conns, h, NULL) = [buf |-> b, num |-> n + 1, max |-> m]
    <3>1. CASE full
      <4>1. [Realloc(p_conns.buf, m, NULL) EXCEPT ![n] = h] = b
        <5>1. Realloc(p_conns.buf, m, NULL) =
                [i \in 0..(m - 1) |-> IF i < max_conns THEN p_conns.buf[i] ELSE NULL]
          <6> HIDE DEF m
          <6> QED BY <1>1, <1>5 DEF Realloc
        <5> HIDE DEF m, h
        <5> QED BY <1>1, <1>5, <5>1
      <4>2. p_conns.num = p_conns.max /\ m = NewMax(p_conns.num)
        BY <1>1, <3>1
      <4> HIDE DEF b, m, h
      <4> QED BY <1>1, <4>1, <4>2 DEF EzarrPush
    <3>2. CASE ~full
      <4>1. [p_conns.buf EXCEPT ![n] = h] = b
        <5>1. m = max_conns
          BY <3>2
        <5> HIDE DEF m, h
        <5> QED BY <1>1, <1>5, <5>1
      <4>2. p_conns.num # p_conns.max /\ m = max_conns
        BY <1>1, <3>2
      <4> HIDE DEF b, m, h
      <4> QED BY <1>1, <4>1, <4>2 DEF EzarrPush
    <3> QED BY <3>1, <3>2
  <2>3. p_pfds' = p
    <3>1. CASE full
      <4>1. p_pfds' = [Realloc(p_pfds, m, Fd0) EXCEPT ![n] = h]
        BY <2>1, <3>1 DEF AddToPollfd, Fd0
      <4>2. Realloc(p_pfds, m, Fd0) =
              [i \in 0..(m - 1) |-> IF i < max_conns THEN p_pfds[i] ELSE Fd0]
        <5> HIDE DEF m
        <5> QED BY <1>1, <1>5 DEF Realloc
      <4> HIDE DEF m, h
      <4> QED BY <1>1, <1>5, <4>1, <4>2
    <3>2. CASE ~full
      <4>1. p_pfds' = [p_pfds EXCEPT ![n] = h] /\ m = max_conns
        BY <2>1, <3>2 DEF AddToPollfd
      <4>2. [p_pfds EXCEPT ![n] = h] = p
        <5>1. m = max_conns
          BY <4>1
        <5> HIDE DEF m, h
        <5>2. [p_pfds EXCEPT ![n] = h] =
                [i \in 0..(max_conns - 1) |-> IF i = n THEN h ELSE p_pfds[i]]
          BY <1>1
        <5>3. \A i \in 0..(max_conns - 1) : i < max_conns
          BY <1>1
        <5> QED BY Zenon, <5>1, <5>2, <5>3
      <4> QED BY Zenon, <4>1, <4>2
    <3> QED BY <3>1, <3>2
  <2> HIDE DEF b, p, m, h
  <2> QED BY <2>1, <2>2, <2>3
<1> HIDE DEF m, h
<1>9. InStep(FALSE)'
  <2>1. b \in [0..(m - 1) -> open \cup {NULL}] /\ p \in [0..(m - 1) -> open \cup {Fd0}]
    <3>1. \A i \in 0..(m - 1) : i < max_conns => i \in 0..(max_conns - 1)
      BY <1>1, <1>5
    <3> QED BY <1>1, <1>6, <3>1
  <2>2. \A i \in 0..(m - 1) :
          \/ b[i] = NULL /\ p[i] = Fd0 /\ i >= n + 1
          \/ b[i] # NULL /\ p[i] = b[i] /\ i < n + 1
    <3> TAKE i \in 0..(m - 1)
    <3>1. CASE i = n
      BY <1>1, <1>3, <1>6, <3>1
    <3>2. CASE i # n /\ i < max_conns
      <4>1. i \in 0..(max_conns - 1) /\ b[i] = p_conns.buf[i] /\ p[i] = p_pfds[i]
        BY <1>1, <3>2
      <4>2. i >= n => i >= n + 1
        BY <1>1, <3>2
      <4>3. i < n => i < n + 1
        BY <1>1
      <4> HIDE DEF b, p
      <4> QED BY <1>4, <4>1, <4>2, <4>3
    <3>3. CASE i # n /\ ~(i < max_conns)
      BY <1>1, <3>3
    <3> QED BY <3>1, <3>2, <3>3
  <2>3. \A i, j \in 0..(m - 1) : b[i] = b[j] => i = j \/ b[i] = NULL
    <3>1. \A i \in 0..(m - 1) : i # n /\ b[i] # NULL =>
            /\ i \in 0..(max_conns - 1) /\ b[i] = p_conns.buf[i]
            /\ i \in 0..(n - 1)
      <4> TAKE i \in 0..(m - 1)
      <4>1. HAVE i # n /\ b[i] # NULL
      <4>2. i \in 0..(max_conns - 1) /\ b[i] = p_conns.buf[i]
        BY <1>1, <4>1
      <4>3. i < n
        BY <1>4, <4>1, <4>2
      <4> QED BY <1>1, <4>2, <4>3
    <3>2. \A i \in 0..(m - 1) : i # n => b[i] # h
      <4> TAKE i \in 0..(m - 1)
      <4>1. HAVE i # n
      <4>2. SUFFICES ASSUME b[i] = h  PROVE FALSE
        OBVIOUS
      <4>3. b[i] # NULL
        BY <1>3, <1>6, <4>2
      <4>4. i \in 0..(n - 1) /\ b[i] = p_conns.buf[i]
        BY <3>1, <4>1, <4>3
      <4>5. h \in Active
        <5> HIDE DEF b
        <5> QED BY Zenon, <1>2, <4>2, <4>3, <4>4
      <4> QED BY <1>7, <4>5
    <3>3. n \in 0..(m - 1) /\ b[n] = h
      BY <1>1, <1>5
    <3>4. \A i, j \in 0..(max_conns - 1) :
            p_conns.buf[i] = p_conns.buf[j] => i = j \/ p_conns.buf[i] = NULL
      BY DEF InStep
    <3> HIDE DEF b
    <3> TAKE i, j \in 0..(m - 1)
    <3>5. CASE i = n
      BY <3>2, <3>3, <3>5
    <3>6. CASE j = n
      BY <3>2, <3>3, <3>6
    <3>7. CASE i # n /\ j # n
      BY <3>1, <3>4, <3>7
    <3> QED BY <3>5, <3>6, <3>7
  <2>4. n + 1 \in 0..m
    BY <1>1, <1>5
  <2> HIDE DEF b, p
  <2>5. p_conns'.buf = b
    BY <1>8
  <2>6. p_conns' \in [buf : [0..(m - 1) -> open \cup {NULL}], num : {n + 1}, max : {m}]
    BY <1>8, <2>1
  <2>7. p_pfds' \in [0..(m - 1) -> open \cup {Fd0}]
    BY <1>8, <2>1
  <2> QED BY <1>5, <1>8, <2>2, <2>3, <2>4, <2>5, <2>6, <2>7 DEF InStep
<1>10. Active' = Active \cup {h}
  <2>1. Active' = {b[i] : i \in 0..((n + 1) - 1)} \ {NULL}
    <3>1. n + 1 \in 0..m /\ m \in Nat
      BY <1>1, <1>5
    <3> HIDE DEF b
    <3> QED BY <1>8, <3>1, ActiveAfter
  <2>2. \A i : i \in 0..((n + 1) - 1) <=> i \in 0..(n - 1) \/ i = n
    BY <1>1
  <2>3. /\ b[n] = h /\ h # NULL
        /\ \A i \in 0..(n - 1) : b[i] = p_conns.buf[i]
    BY <1>1, <1>3, <1>5, <1>6
  <2> HIDE DEF b
  <2>4. \A y : y \in {b[i] : i \in 0..((n + 1) - 1)} <=>
                 y = h \/ y \in {p_conns.buf[i] : i \in 0..(n - 1)}
    BY Zenon, <2>2, <2>3
  <2>5. \A y : y \in Active' <=> y \in Active \cup {h}
    BY Zenon, <1>2, <2>1, <2>3, <2>4
  <2> QED BY Zenon, <2>5
<1>11. \A y : y \in Queued' <=> y \in Queued /\ y # h
  <2> DEFINE q == p_new_conns
             t == Tail(p_new_conns)
  <2>1. \A i, j \in 1..Len(q) : q[i] = q[j] => i = j
    BY DEF QueueInv
  <2>2. \A i \in 1..Len(t) : t[i] = q[i + 1] /\ i + 1 \in 1..Len(q) /\ i + 1 # 1
    BY <1>6
  <2>3. \A i \in 1..Len(q) : i # 1 => i - 1 \in 1..Len(t) /\ t[i - 1] = q[i]
    <3> TAKE i \in 1..Len(q)
    <3>1. HAVE i # 1
    <3>2. i - 1 \in 1..Len(t) /\ (i - 1) + 1 = i
      BY <1>6, <3>1
    <3>3. t[i - 1] = q[(i - 1) + 1]
      BY <2>2, <3>2
    <3> QED BY <3>2, <3>3
  <2>4. Queued' = {t[i] : i \in 1..Len(t)}
    BY <1>8 DEF Queued
  <2>5. Queued = {q[i] : i \in 1..Len(q)} /\ h = q[1] /\ 1 \in 1..Len(q)
    BY <1>6 DEF Queued
  <2> HIDE DEF q, t
  <2>6. \A i \in 1..Len(q) : q[i] = h => i = 1
    BY Zenon, <2>1, <2>5
  <2>7. ASSUME NEW y  PROVE y \in Queued' => y \in Queued /\ y # h
    <3>1. HAVE y \in Queued'
    <3>2. PICK i \in 1..Len(t) : y = t[i]
      BY Zenon, <2>4, <3>1
    <3>3. y = q[i + 1] /\ i + 1 \in 1..Len(q) /\ i + 1 # 1
      BY <2>2, <3>2
    <3> QED BY Zenon, <2>5, <2>6, <3>3
  <2>8. ASSUME NEW y  PROVE y \in Queued /\ y # h => y \in Queued'
    <3>1. HAVE y \in Queued /\ y # h
    <3>2. PICK i \in 1..Len(q) : y = q[i]
      BY Zenon, <2>5, <3>1
    <3>3. i - 1 \in 1..Len(t) /\ t[i - 1] = y
      BY Zenon, <2>3, <2>5, <3>1, <3>2
    <3> QED BY Zenon, <2>4, <3>3
  <2> QED BY Zenon, <2>7, <2>8
<1>12. QueueInv'
  <2>1. Active' \cap Queued' = {}
    <3>1. Active \cap Queued = {}
      BY DEF QueueInv
    <3> QED BY <1>10, <1>11, <3>1
  <2>2. \A i, j \in 1..Len(p_new_conns') : p_new_conns'[i] = p_new_conns'[j] => i = j
    <3>1. \A i, j \in 1..Len(p_new_conns) : p_new_conns[i] = p_new_conns[j] => i = j
      BY DEF QueueInv
    <3>2. \A i \in 1..Len(p_new_conns') :
            p_new_conns'[i] = p_new_conns[i + 1] /\ i + 1 \in 1..Len(p_new_conns)
      BY <1>6, <1>8
    <3> TAKE i, j \in 1..Len(p_new_conns')
    <3>3. HAVE p_new_conns'[i] = p_new_conns'[j]
    <3>4. i + 1 = j + 1
      BY <3>1, <3>2, <3>3
    <3> QED BY <1>6, <1>8, <3>4
  <2> QED BY <1>6, <1>8, <2>1, <2>2 DEF QueueInv
<1>13. Descriptors'
  BY DEF Descriptors
<1>14. Active' \cup Queued' = Active \cup Queued
  BY <1>7, <1>10, <1>11
<1>15. Len(p_new_conns') = Len(p_new_conns) - 1
  BY <1>6, <1>8
<1>16. num_active_conns' = num_active_conns + 1 /\ max_conns <= max_conns'
  BY Zenon, <1>5, <1>8
<1> QED BY Zenon, <1>9, <1>10, <1>12, <1>13, <1>14, <1>15, <1>16

(***************************************************************************)
(* When a step of connmgr_add_new_connections fails, the connection leaves *)
(* the queue, and the event loop sees the same ones as before.             *)
(***************************************************************************)
LEMMA PopKeeps ==
  ASSUME QueueInv, p_new_conns # <<>>, p_new_conns' = Tail(p_new_conns),
         open' = open, Active' = Active
  PROVE  /\ QueueInv' /\ Queued' \subseteq Queued
         /\ Queued \subseteq Queued' \cup {Head(p_new_conns)}
         /\ Len(p_new_conns') = Len(p_new_conns) - 1
         /\ Len(p_new_conns) \in Nat \ {0} /\ Head(p_new_conns) \in Queued
<1> DEFINE q == p_new_conns
           t == Tail(p_new_conns)
<1>1. /\ q \in Seq(open) /\ Active \cap Queued = {}
      /\ \A i, j \in 1..Len(q) : q[i] = q[j] => i = j
  BY DEF QueueInv
<1>2. /\ t \in Seq(open) /\ Len(t) = Len(q) - 1 /\ Len(q) \in Nat \ {0}
      /\ \A i \in 1..Len(t) : t[i] = q[i + 1] /\ i + 1 \in 1..Len(q)
      /\ Head(q) = q[1] /\ 1 \in 1..Len(q)
  BY <1>1
<1>3. Queued' = {t[i] : i \in 1..Len(t)} /\ Queued = {q[i] : i \in 1..Len(q)}
  BY DEF Queued
<1>4. p_new_conns' = t /\ t = Tail(q)
  OBVIOUS
<1> HIDE DEF q, t
<1>5. Queued' \subseteq Queued
  BY Zenon, <1>2, <1>3
<1>6. Queued \subseteq Queued' \cup {Head(q)}
  <2>0. q[1] = Head(q)
    BY <1>2
  <2> SUFFICES ASSUME NEW i \in 1..Len(q), i # 1  PROVE q[i] \in Queued'
    BY Zenon, <1>3, <2>0
  <2>1. i - 1 \in 1..Len(t) /\ (i - 1) + 1 = i
    BY <1>2
  <2>2. t[i - 1] = q[(i - 1) + 1]
    BY Zenon, <1>2, <2>1
  <2> QED BY Zenon, <1>3, <2>1, <2>2
<1>7. \A i, j \in 1..Len(t) : t[i] = t[j] => i = j
  <2> TAKE i, j \in 1..Len(t)
  <2>1. HAVE t[i] = t[j]
  <2>2. i + 1 = j + 1
    BY <1>1, <1>2, <2>1
  <2> QED BY <1>2, <2>2
<1>8. QueueInv'
  <2>1. Active' \cap Queued' = {}
    BY <1>1, <1>5
  <2> QED BY <1>2, <1>4, <1>7, <2>1 DEF QueueInv
<1>9. Head(q) \in Queued
  BY Zenon, <1>2, <1>3
<1> QED BY <1>2, <1>4, <1>5, <1>6, <1>8, <1>9 DEF q

\* Tables in step have their types, and no more active slots than items.
LEMMA InStepTypes ==
  ASSUME NEW holes, InStep(holes), Descriptors
  PROVE  TablesTypeOK /\ num_active_conns <= p_conns.num
<1>1. /\ max_conns \in 1..U16Max /\ max_conns \in Nat /\ num_active_conns \in 0..max_conns
      /\ DOMAIN p_conns.buf = 0..(max_conns - 1)
      /\ p_pfds \in [0..(max_conns - 1) -> open \cup {Fd0}]
      /\ p_conns.max = max_conns /\ p_conns.num = num_active_conns
  <2>1. /\ max_conns \in 1..U16Max /\ max_conns \in Nat
        /\ num_active_conns \in 0..max_conns
    BY EzArrayAssumption DEF InStep
  <2> QED BY <2>1 DEF InStep
<1>2. \A i \in DOMAIN p_pfds : p_pfds[i] \in Int
  BY <1>1 DEF Descriptors, Fd0
<1> QED BY <1>1, <1>2, EzArrayAssumption DEF TablesTypeOK

\* If add_to_pollfd fails, p_conns may have grown alone; the types still hold.
LEMMA PollfdFailsKeeps ==
  ASSUME InStep(FALSE), Descriptors, num_active_conns < U16Max,
         NEW v, AddNewPollfdFails(v)
  PROVE  /\ TablesTypeOK' /\ num_active_conns' <= p_conns'.num
         /\ Active' = Active
<1> DEFINE n == num_active_conns
           m == NewMax(n)
           b == [Realloc(p_conns.buf, m, Pointer(v)) EXCEPT ![n] = Head(p_new_conns)]
<1>1. /\ max_conns \in 1..U16Max /\ n = max_conns /\ n \in Nat
      /\ DOMAIN p_conns.buf = 0..(n - 1) /\ p_conns.max = n /\ p_conns.num = n
  <2>1. /\ max_conns \in 1..U16Max /\ n = max_conns /\ n \in Nat
    BY EzArrayAssumption DEF InStep, AddNewPollfdFails
  <2> QED BY <2>1 DEF InStep
<1>2. m \in (n + 1)..U16Max /\ m \in Nat
  <2>1. n \in 1..(U16Max - 1)
    BY <1>1, EzArrayAssumption
  <2>2. m \in (n + 1)..U16Max
    BY <2>1, NewMaxGrows
  <2> QED BY <1>1, <2>2, EzArrayAssumption
<1>3. /\ p_conns' = [buf |-> b, num |-> n + 1, max |-> m]
      /\ UNCHANGED <<p_pfds, max_conns, num_active_conns, open>>
  <2>1. /\ p_conns' = EzarrPush(p_conns, Head(p_new_conns), Pointer(v))
        /\ UNCHANGED <<p_pfds, max_conns, num_active_conns, open>>
    BY DEF AddNewPollfdFails
  <2>2. EzarrPush(p_conns, Head(p_new_conns), Pointer(v)) = [buf |-> b, num |-> n + 1, max |-> m]
    BY <1>1 DEF EzarrPush
  <2> HIDE DEF b, m
  <2> QED BY <2>1, <2>2
<1>4. DOMAIN b = 0..(m - 1)
  <2> HIDE DEF m
  <2> QED BY <1>2 DEF Realloc
<1>5. \A i \in 0..(n - 1) : b[i] = p_conns.buf[i]
  <2> HIDE DEF m
  <2> QED BY <1>1, <1>2 DEF Realloc
<1>6. TablesTypeOK /\ Active = {p_conns.buf[i] : i \in 0..(n - 1)} \ {NULL}
  BY InStepTypes, InStepActive
<1>7. TablesTypeOK'
  <2>1. p_conns'.buf = b /\ p_conns'.num = n + 1 /\ p_conns'.max = m
    BY <1>3
  <2> HIDE DEF b, m
  <2> QED BY <1>1, <1>2, <1>3, <1>4, <1>6, <2>1, EzArrayAssumption DEF TablesTypeOK
<1>8. Active' = Active
  <2>1. Active' = {b[i] : i \in 0..(n - 1)} \ {NULL}
    <3>1. n \in 0..m
      BY <1>1, <1>2
    <3> HIDE DEF b, m
    <3> QED BY <1>2, <1>3, <3>1, ActiveAfter
  <2> HIDE DEF b
  <2> QED BY Zenon, <1>5, <1>6, <2>1
<1>9. num_active_conns' <= p_conns'.num
  <2> HIDE DEF b, m
  <2> QED BY <1>1, <1>3
<1> QED BY <1>7, <1>8, <1>9

(***************************************************************************)
(* Destroying everything leaves neither a context in the tables nor one in *)
(* the queue.                                                              *)
(***************************************************************************)
LEMMA DestroyAllKeeps ==
  ASSUME TablesTypeOK, num_active_conns <= p_conns.num, DestroyAllConns
  PROVE  /\ TablesTypeOK' /\ Active' = {}
         /\ p_new_conns' = <<>>
<1> DEFINE n == num_active_conns
           b == [i \in DOMAIN p_conns.buf |->
                   IF i \in 0..(n - 1) /\ i < p_conns.num THEN NULL ELSE p_conns.buf[i]]
<1>1. /\ p_conns' = [p_conns EXCEPT !.buf = b]
      /\ p_new_conns' = <<>>
      /\ UNCHANGED <<p_pfds, max_conns, num_active_conns>>
  BY DEF DestroyAllConns, EzarrSetAt
<1>2. /\ DOMAIN p_conns.buf = 0..(p_conns.max - 1) /\ p_conns.max \in 0..U16Max
      /\ p_conns.num \in 0..p_conns.max /\ max_conns \in 0..U16Max
      /\ n \in 0..max_conns
  BY DEF TablesTypeOK
<1>3. /\ n \in Nat /\ p_conns.num \in Nat /\ p_conns.max \in Nat
  BY <1>2, EzArrayAssumption
<1>4. \A i \in 0..(n - 1) : EzarrGetAt(p_conns', i, NULL) = NULL
  <2> TAKE i \in 0..(n - 1)
  <2>1. i \in 0..(p_conns.max - 1) /\ i < p_conns.num
    BY <1>2, <1>3
  <2>2. b[i] = NULL
    BY <1>2, <2>1
  <2> HIDE DEF b
  <2>3. EzarrGetAt(p_conns', i, NULL) = IF i < p_conns'.max THEN p_conns'.buf[i] ELSE NULL
    BY DEF EzarrGetAt
  <2>4. p_conns'.buf[i] = NULL
    BY <1>1, <2>2
  <2> QED BY <2>3, <2>4
<1>5. Active' = {}
  <2>1. num_active_conns' = n
    BY <1>1
  <2> HIDE DEF b
  <2> QED BY Zenon, <1>4, <2>1 DEF Active
<1>6. TablesTypeOK'
  <2>1. p_conns'.buf = b /\ p_conns'.num = p_conns.num /\ p_conns'.max = p_conns.max
    BY <1>1
  <2>2. DOMAIN b = 0..(p_conns.max - 1)
    BY <1>2
  <2> HIDE DEF b
  <2> QED BY <1>1, <2>1, <2>2 DEF TablesTypeOK
<1> QED BY <1>1, <1>5, <1>6

(***************************************************************************)
(* A new connection is queued; descriptors that are opened meanwhile leave *)
(* the tables as they are.                                                 *)
(***************************************************************************)
LEMMA CreateKeeps ==
  ASSUME QueueInv, NEW fd, fd \notin Active \cup Queued, CreateNewConn(fd),
         open \subseteq open', fd \in open'
  PROVE  /\ QueueInv' /\ Active' = Active /\ Queued' = Queued \cup {fd}
         /\ Len(p_new_conns') = Len(p_new_conns) + 1 /\ Len(p_new_conns) \in Nat
<1> DEFINE q == p_new_conns
           t == Append(p_new_conns, fd)
<1>1. /\ q \in Seq(open) /\ Active \cap Queued = {}
      /\ \A i, j \in 1..Len(q) : q[i] = q[j] => i = j
  BY DEF QueueInv
<1>2. t \in Seq(open')
  BY <1>1
<1>3. /\ Len(t) = Len(q) + 1 /\ Len(q) \in Nat /\ t[Len(q) + 1] = fd
      /\ \A i \in 1..Len(q) : t[i] = q[i]
  BY <1>1
<1>4. /\ p_new_conns' = t
      /\ Queued = {q[i] : i \in 1..Len(q)} /\ Queued' = {t[i] : i \in 1..Len(t)}
      /\ Active' = Active
  BY DEF CreateNewConn, Queued, Active
<1> HIDE DEF q, t
<1>5. \A i : i \in 1..Len(t) <=> i \in 1..Len(q) \/ i = Len(q) + 1
  BY <1>3
<1>6. Queued' = Queued \cup {fd}
  <2>1. \A y : y \in Queued' <=> y \in Queued \cup {fd}
    BY Zenon, <1>3, <1>4, <1>5
  <2> QED BY Zenon, <2>1
<1>7. \A i, j \in 1..Len(t) : t[i] = t[j] => i = j
  <2>1. \A i \in 1..Len(q) : q[i] # fd
    BY <1>4
  <2> QED BY <1>1, <1>3, <1>5, <2>1
<1>8. QueueInv'
  <2>1. Active' \cap Queued' = {}
    BY <1>1, <1>4, <1>6
  <2> QED BY <1>2, <1>4, <1>7, <2>1 DEF QueueInv
<1> QED BY <1>3, <1>4, <1>6, <1>8 DEF q

\* Descriptors may be opened while the tables stay.
LEMMA TablesStay ==
  ASSUME UNCHANGED <<p_conns, p_pfds, max_conns, num_active_conns>>, open \subseteq open',
         NEW holes, InStep(holes)
  PROVE  InStep(holes)'
<1>1. p_conns' \in [buf : [0..(max_conns - 1) -> open' \cup {NULL}],
                    num : {num_active_conns}, max : {max_conns}]
  BY DEF InStep
<1>2. p_pfds' \in [0..(max_conns - 1) -> open' \cup {Fd0}]
  BY DEF InStep
<1> QED BY Zenon, <1>1, <1>2 DEF InStep
=============================================================================
