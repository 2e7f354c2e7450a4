----------------------- MODULE ConnectionStreamProofs -----------------------
(***************************************************************************)
(* Proofs about Connection: what becomes of the client's bytes, and what   *)
(* the server writes, for messages of every number and length, cut by the  *)
(* network in every way.                                                   *)
(***************************************************************************)
EXTENDS ConnectionProofs, StreamTheorems

LEMMA Sizes ==
  /\ HeaderSize \in Nat \ {0} /\ MessageSize \in Nat \ {0} /\ BufSize \in Nat
  /\ HeaderSize < MessageSize /\ MessageSize <= BufSize
  /\ SendRoom \in Nat
BY ConnectionAssumption DEF ConnectionAssumption

LEMMA MessageLength ==
  ASSUME NEW msg \in Messages
  PROVE  msg.len \in Lengths /\ msg.len \in Nat
<1>1. msg.len \in Lengths
  BY DEF Messages
<1>2. msg.len \in 0..U16Max
  BY <1>1, ConnectionAssumption DEF ConnectionAssumption
<1> QED BY <1>1, <1>2
-----------------------------------------------------------------------------
(* The streams of bytes and of answers.                                    *)

\* A message and an answer, byte by byte.
LEMMA BytesAre ==
  ASSUME NEW m \in Nat, NEW len \in Nat
  PROVE  /\ Bytes(m, len) \in Seq(ReadBytes)
         /\ Len(Bytes(m, len)) = HeaderSize + len
         /\ \A i \in 1..(HeaderSize + len) : Bytes(m, len)[i] = <<m, i>>
<1> DEFINE k == HeaderSize + len
<1>0. k \in Nat
  BY Sizes
<1> HIDE DEF k
<1>1. Bytes(m, len) = [i \in 1..k |-> <<m, i>>]
  BY DEF Bytes, k
<1>2. \A i \in 1..k : <<m, i>> \in ReadBytes
  BY DEF ReadBytes
<1> QED BY <1>0, <1>1, <1>2 DEF k

LEMMA ExpectedIs ==
  ASSUME NEW m \in Nat, NEW msg \in Messages
  PROVE  /\ Expected(m, msg) \in Seq(AnswerBytes)
         /\ Len(Expected(m, msg)) = MessageSize
<1> DEFINE kind == IF HeaderSize + msg.len # MessageSize THEN <<0, "err">>
                   ELSE <<m, IF msg.ping THEN "pong" ELSE "err">>
<1>1. kind[1] \in Nat /\ kind[2] \in {"pong", "err"}
  OBVIOUS
<1>2. Expected(m, msg) = [i \in 1..MessageSize |-> <<kind[1], kind[2], i>>]
  BY Zenon DEF Expected
<1> HIDE DEF kind
<1>3. \A i \in 1..MessageSize : <<kind[1], kind[2], i>> \in AnswerBytes
  BY <1>1 DEF AnswerBytes
<1> QED BY <1>2, <1>3, Sizes

\* The parts StreamOf and AnswersTo join.
MessageParts(q) == [m \in 1..Len(q) |-> Bytes(m, q[m].len)]
AnswerParts(q) == [m \in 1..Len(q) |-> Expected(m, q[m])]

LEMMA MessagePartsAre ==
  ASSUME NEW q \in Seq(Messages)
  PROVE  /\ MessageParts(q) \in Seq(Seq(ReadBytes)) /\ Len(MessageParts(q)) = Len(q)
         /\ \A m \in 1..Len(q) : MessageParts(q)[m] = Bytes(m, q[m].len)
<1>1. Len(q) \in Nat
  BY LenProperties
<1>2. \A m \in 1..Len(q) : Bytes(m, q[m].len) \in Seq(ReadBytes)
  <2> TAKE m \in 1..Len(q)
  <2>1. q[m] \in Messages
    BY ElementOfSeq
  <2>2. m \in Nat /\ q[m].len \in Nat
    BY <1>1, <2>1, MessageLength
  <2> QED BY <2>2, BytesAre
<1> QED BY <1>1, <1>2 DEF MessageParts

LEMMA AnswerPartsAre ==
  ASSUME NEW q \in Seq(Messages)
  PROVE  /\ AnswerParts(q) \in Seq(Seq(AnswerBytes)) /\ Len(AnswerParts(q)) = Len(q)
         /\ \A m \in 1..Len(q) : AnswerParts(q)[m] = Expected(m, q[m])
<1>1. Len(q) \in Nat
  BY LenProperties
<1>2. \A m \in 1..Len(q) : Expected(m, q[m]) \in Seq(AnswerBytes)
  <2> TAKE m \in 1..Len(q)
  <2>1. q[m] \in Messages /\ m \in Nat
    BY <1>1, ElementOfSeq
  <2> QED BY <2>1, ExpectedIs
<1> QED BY <1>1, <1>2 DEF AnswerParts

LEMMA StreamType ==
  ASSUME NEW q \in Seq(Messages)
  PROVE  StreamOf(q) \in Seq(ReadBytes)
BY MessagePartsAre, FlattenType DEF StreamOf, MessageParts

LEMMA First ==
  ASSUME NEW q \in Seq(Messages), NEW n \in 0..Len(q)
  PROVE  /\ SubSeq(q, 1, n) \in Seq(Messages) /\ Len(SubSeq(q, 1, n)) = n
         /\ \A i \in 1..n : SubSeq(q, 1, n)[i] = q[i]
BY FirstParts

LEMMA FirstOfAppend ==
  ASSUME NEW q \in Seq(Messages), NEW msg \in Messages, NEW n \in 0..Len(q)
  PROVE  SubSeq(Append(q, msg), 1, n) = SubSeq(q, 1, n)
<1> DEFINE r == Append(q, msg)
           a == SubSeq(q, 1, n)
           b == SubSeq(r, 1, n)
<1>0. Len(q) \in Nat
  BY LenProperties
<1>1. r \in Seq(Messages) /\ Len(r) = Len(q) + 1 /\ \A i \in 1..Len(q) : r[i] = q[i]
  BY AppendProperties
<1>2. a \in Seq(Messages) /\ Len(a) = n /\ \A i \in 1..n : a[i] = q[i]
  BY First
<1>3. b \in Seq(Messages) /\ Len(b) = n /\ \A i \in 1..n : b[i] = r[i]
  <2> HIDE DEF r
  <2>1. n \in 0..Len(r)
    BY <1>0, <1>1
  <2> QED BY <1>1, <2>1, First
<1> HIDE DEF r, a, b
<1>4. \A i \in 1..n : b[i] = a[i]
  BY <1>0, <1>1, <1>2, <1>3
<1>5. b = a
  BY <1>2, <1>3, <1>4, SeqEqual
<1> QED BY <1>5 DEF r, a, b

\* One message more.
LEMMA StreamMore ==
  ASSUME NEW q \in Seq(Messages), NEW r \in Seq(Messages),
         Len(r) = Len(q) + 1, \A i \in 1..Len(q) : q[i] = r[i]
  PROVE  StreamOf(r) = StreamOf(q) \o Bytes(Len(r), r[Len(r)].len)
<1>0. Len(q) \in Nat /\ Len(r) \in 1..Len(r)
  BY LenProperties
<1>1. \A i \in 1..Len(q) : MessageParts(q)[i] = MessageParts(r)[i]
  <2> TAKE i \in 1..Len(q)
  <2>1. i \in 1..Len(r) /\ q[i] = r[i]
    BY <1>0
  <2> QED BY <2>1, MessagePartsAre
<1>2. FlattenSeq(MessageParts(r)) = FlattenSeq(MessageParts(q)) \o MessageParts(r)[Len(r)]
  <2>1. /\ MessageParts(q) \in Seq(Seq(ReadBytes)) /\ Len(MessageParts(q)) = Len(q)
        /\ MessageParts(r) \in Seq(Seq(ReadBytes)) /\ Len(MessageParts(r)) = Len(r)
    BY MessagePartsAre
  <2> QED BY <1>1, <2>1, FlattenStep
<1>3. MessageParts(r)[Len(r)] = Bytes(Len(r), r[Len(r)].len)
  BY <1>0, MessagePartsAre
<1> QED BY <1>2, <1>3 DEF StreamOf, MessageParts

LEMMA AnswersMore ==
  ASSUME NEW q \in Seq(Messages), NEW r \in Seq(Messages),
         Len(r) = Len(q) + 1, \A i \in 1..Len(q) : q[i] = r[i]
  PROVE  AnswersTo(r) = AnswersTo(q) \o Expected(Len(r), r[Len(r)])
<1>0. Len(q) \in Nat /\ Len(r) \in 1..Len(r)
  BY LenProperties
<1>1. \A i \in 1..Len(q) : AnswerParts(q)[i] = AnswerParts(r)[i]
  <2> TAKE i \in 1..Len(q)
  <2>1. i \in 1..Len(r) /\ q[i] = r[i]
    BY <1>0
  <2> QED BY <2>1, AnswerPartsAre
<1>2. FlattenSeq(AnswerParts(r)) = FlattenSeq(AnswerParts(q)) \o AnswerParts(r)[Len(r)]
  <2>1. /\ AnswerParts(q) \in Seq(Seq(AnswerBytes)) /\ Len(AnswerParts(q)) = Len(q)
        /\ AnswerParts(r) \in Seq(Seq(AnswerBytes)) /\ Len(AnswerParts(r)) = Len(r)
    BY AnswerPartsAre
  <2> QED BY <1>1, <2>1, FlattenStep
<1>3. AnswerParts(r)[Len(r)] = Expected(Len(r), r[Len(r)])
  BY <1>0, AnswerPartsAre
<1> QED BY <1>2, <1>3 DEF AnswersTo, AnswerParts

\* The first n + 1 messages, and all from the first n on.
LEMMA StreamStepAt ==
  ASSUME NEW q \in Seq(Messages), NEW n \in Nat, n < Len(q)
  PROVE  StreamOf(SubSeq(q, 1, n + 1)) = StreamOf(SubSeq(q, 1, n)) \o Bytes(n + 1, q[n + 1].len)
<1> DEFINE a == SubSeq(q, 1, n)
           b == SubSeq(q, 1, n + 1)
<1>0. n \in 0..Len(q) /\ n + 1 \in 0..Len(q)
  BY LenProperties
<1>1. a \in Seq(Messages) /\ Len(a) = n /\ \A i \in 1..n : a[i] = q[i]
  BY <1>0, First
<1>2. b \in Seq(Messages) /\ Len(b) = n + 1 /\ \A i \in 1..(n + 1) : b[i] = q[i]
  BY <1>0, First
<1> HIDE DEF a, b
<1>3. \A i \in 1..Len(a) : a[i] = b[i]
  <2>1. \A i \in 1..n : i \in 1..(n + 1)
    OBVIOUS
  <2> QED BY <1>1, <1>2, <2>1
<1>4. Len(b) = Len(a) + 1 /\ b[Len(b)] = q[n + 1]
  BY <1>1, <1>2
<1>5. StreamOf(b) = StreamOf(a) \o Bytes(Len(b), b[Len(b)].len)
  BY <1>1, <1>2, <1>3, <1>4, StreamMore
<1> QED BY <1>2, <1>4, <1>5 DEF a, b

LEMMA AnswersStepAt ==
  ASSUME NEW q \in Seq(Messages), NEW n \in Nat, n < Len(q)
  PROVE  AnswersTo(SubSeq(q, 1, n + 1)) = AnswersTo(SubSeq(q, 1, n)) \o Expected(n + 1, q[n + 1])
<1> DEFINE a == SubSeq(q, 1, n)
           b == SubSeq(q, 1, n + 1)
<1>0. n \in 0..Len(q) /\ n + 1 \in 0..Len(q)
  BY LenProperties
<1>1. a \in Seq(Messages) /\ Len(a) = n /\ \A i \in 1..n : a[i] = q[i]
  BY <1>0, First
<1>2. b \in Seq(Messages) /\ Len(b) = n + 1 /\ \A i \in 1..(n + 1) : b[i] = q[i]
  BY <1>0, First
<1> HIDE DEF a, b
<1>3. \A i \in 1..Len(a) : a[i] = b[i]
  <2>1. \A i \in 1..n : i \in 1..(n + 1)
    OBVIOUS
  <2> QED BY <1>1, <1>2, <2>1
<1>4. Len(b) = Len(a) + 1 /\ b[Len(b)] = q[n + 1]
  BY <1>1, <1>2
<1>5. AnswersTo(b) = AnswersTo(a) \o Expected(Len(b), b[Len(b)])
  BY <1>1, <1>2, <1>3, <1>4, AnswersMore
<1> QED BY <1>2, <1>4, <1>5 DEF a, b

LEMMA StreamFirst ==
  ASSUME NEW q \in Seq(Messages), NEW r \in Seq(Messages),
         Len(q) <= Len(r), \A i \in 1..Len(q) : q[i] = r[i]
  PROVE  \E u \in Seq(ReadBytes) : StreamOf(r) = StreamOf(q) \o u
<1>1. /\ MessageParts(q) \in Seq(Seq(ReadBytes)) /\ Len(MessageParts(q)) = Len(q)
      /\ MessageParts(r) \in Seq(Seq(ReadBytes)) /\ Len(MessageParts(r)) = Len(r)
  BY MessagePartsAre
<1>2. \A i \in 1..Len(q) : MessageParts(q)[i] = MessageParts(r)[i]
  <2> TAKE i \in 1..Len(q)
  <2>1. i \in 1..Len(r) /\ q[i] = r[i]
    BY LenProperties
  <2> QED BY <2>1, MessagePartsAre
<1>3. \E u \in Seq(ReadBytes) : FlattenSeq(MessageParts(r)) = FlattenSeq(MessageParts(q)) \o u
  BY <1>1, <1>2, FlattenFirst
<1> QED BY <1>3 DEF StreamOf, MessageParts

\* The first n messages, the next one, and the rest.
LEMMA StreamFrom ==
  ASSUME NEW q \in Seq(Messages), NEW n \in Nat, n < Len(q)
  PROVE  \E u \in Seq(ReadBytes) :
           StreamOf(q) = (StreamOf(SubSeq(q, 1, n)) \o Bytes(n + 1, q[n + 1].len)) \o u
<1> DEFINE r == SubSeq(q, 1, n + 1)
<1>0. Len(q) \in Nat /\ n + 1 \in 0..Len(q)
  BY LenProperties
<1>1. r \in Seq(Messages) /\ Len(r) = n + 1 /\ \A i \in 1..(n + 1) : r[i] = q[i]
  BY <1>0, First
<1>2. \E u \in Seq(ReadBytes) : StreamOf(q) = StreamOf(r) \o u
  <2> HIDE DEF r
  <2>1. Len(r) <= Len(q) /\ \A i \in 1..Len(r) : r[i] = q[i]
    BY <1>0, <1>1
  <2> QED BY <1>1, <2>1, StreamFirst
<1>3. StreamOf(r) = StreamOf(SubSeq(q, 1, n)) \o Bytes(n + 1, q[n + 1].len)
  BY StreamStepAt
<1> QED BY <1>2, <1>3

LEMMA AnswersFirst ==
  ASSUME NEW q \in Seq(Messages), NEW r \in Seq(Messages),
         Len(q) <= Len(r), \A i \in 1..Len(q) : q[i] = r[i]
  PROVE  \E u \in Seq(AnswerBytes) : AnswersTo(r) = AnswersTo(q) \o u
<1>1. /\ AnswerParts(q) \in Seq(Seq(AnswerBytes)) /\ Len(AnswerParts(q)) = Len(q)
      /\ AnswerParts(r) \in Seq(Seq(AnswerBytes)) /\ Len(AnswerParts(r)) = Len(r)
  BY AnswerPartsAre
<1>2. \A i \in 1..Len(q) : AnswerParts(q)[i] = AnswerParts(r)[i]
  <2> TAKE i \in 1..Len(q)
  <2>1. i \in 1..Len(r) /\ q[i] = r[i]
    BY LenProperties
  <2> QED BY <2>1, AnswerPartsAre
<1>3. \E u \in Seq(AnswerBytes) : FlattenSeq(AnswerParts(r)) = FlattenSeq(AnswerParts(q)) \o u
  BY <1>1, <1>2, FlattenFirst
<1> QED BY <1>3 DEF AnswersTo, AnswerParts

-----------------------------------------------------------------------------
(* The bytes that are pending.                                             *)

\* Joining reads, for this set of bytes.
LEMMA ReadJoin ==
  \A x, y \in Seq(ReadBytes) :
    x \o y \in Seq(ReadBytes) /\ Len(x \o y) = Len(x) + Len(y)
BY ConcatProperties

LEMMA ReadAssoc ==
  \A x, y, z \in Seq(ReadBytes) : (x \o y) \o z = x \o (y \o z)
BY ConcatAssociative

LEMMA ReadMove ==
  \A x, y \in Seq(ReadBytes) : \A n \in 0..Len(y) :
    /\ x \o SubSeq(y, 1, n) \in Seq(ReadBytes) /\ Len(x \o SubSeq(y, 1, n)) = Len(x) + n
    /\ SubSeq(y, n + 1, Len(y)) \in Seq(ReadBytes)
    /\ (x \o SubSeq(y, 1, n)) \o SubSeq(y, n + 1, Len(y)) = x \o y
BY Move

LEMMA ReadCancel ==
  \A x, y, z \in Seq(ReadBytes) : x \o y = x \o z => y = z
BY ConcatSimplifications

\* What follows x is decided by the whole.
RestIs(x, y, z, w) == x \o w = (x \o y) \o z => w = y \o z

LEMMA SameRest ==
  \A x, y, z, w \in Seq(ReadBytes) : RestIs(x, y, z, w)
<1> SUFFICES ASSUME NEW x \in Seq(ReadBytes), NEW y \in Seq(ReadBytes),
                    NEW z \in Seq(ReadBytes), NEW w \in Seq(ReadBytes),
                    x \o w = (x \o y) \o z
             PROVE  w = y \o z
  BY DEF RestIs
<1>1. JoinsAssociate(x, y, z)
  BY Zenon, Associative
<1>2. y \o z \in Seq(ReadBytes)
  BY Zenon, ReadJoin
<1>3. x \o w = x \o (y \o z)
  BY Zenon, <1>1 DEF JoinsAssociate
<1>4. \A v \in Seq(ReadBytes) : x \o w = x \o v => w = v
  BY Zenon, ReadCancel
<1> QED BY Zenon, <1>2, <1>3, <1>4

LEMMA ReadNotEmpty ==
  \A x, y \in Seq(ReadBytes) :
    /\ Len(x) >= 1 => x \o y # <<>>
    /\ x \o y = x => y = <<>>
<1> SUFFICES ASSUME NEW x \in Seq(ReadBytes), NEW y \in Seq(ReadBytes)
             PROVE  /\ Len(x) >= 1 => x \o y # <<>>
                    /\ x \o y = x => y = <<>>
  OBVIOUS
<1>1. x \o y = <<>> => x = <<>>
  BY ConcatEqualIffEmpty
<1>2. x \o y = x => y = <<>>
  BY ConcatEqualIffEmpty
<1>3. Len(<<>>) = 0
  BY EmptySeq
<1> QED BY <1>1, <1>2, <1>3

LEMMA PendingType ==
  StreamTypes => Pending \in Seq(ReadBytes)
BY ConcatProperties DEF StreamTypes, Pending

\* If the first n messages and what is pending are the start of the client's
\* stream, then what is pending starts with message n + 1.
LEMMA NextMessage ==
  ASSUME StreamTypes, NEW n \in 0..Len(asked), Follows(n),
         NEW buf \in Seq(ReadBytes), NEW rest \in Seq(ReadBytes),
         Pending = buf \o rest, Len(buf) >= 1
  PROVE  /\ n < Len(asked) /\ n \in Nat
         /\ asked[n + 1] \in Messages
         /\ \E u, v \in Seq(ReadBytes) : buf \o v = Bytes(n + 1, asked[n + 1].len) \o u
<1> DEFINE first == StreamOf(SubSeq(asked, 1, n))
<1>0. asked \in Seq(Messages) /\ Len(asked) \in Nat /\ n \in Nat
  BY LenProperties DEF StreamTypes
<1>1. Pending \in Seq(ReadBytes) /\ first \in Seq(ReadBytes) /\ StreamOf(asked) \in Seq(ReadBytes)
  BY <1>0, PendingType, First, StreamType
<1>2. first \o Pending \in Seq(ReadBytes)
  BY <1>1, ConcatProperties
<1>3. PICK lost \in Seq(ReadBytes) : StreamOf(asked) = (first \o Pending) \o lost
  <2>1. IsPrefix(first \o Pending, StreamOf(asked))
    BY DEF Follows
  <2> DEFINE s == first \o Pending
             t == StreamOf(asked)
  <2>2. s \in Seq(ReadBytes) /\ t \in Seq(ReadBytes) /\ IsPrefix(s, t)
    BY <1>1, <1>2, <2>1
  <2> HIDE DEF s, t
  <2>3. \E u \in Seq(ReadBytes) : t = s \o u
    BY <2>2, PrefixIsJoin
  <2> QED BY <2>3 DEF s, t
<1> DEFINE v == rest \o lost
<1>4. v \in Seq(ReadBytes)
  BY ConcatProperties
<1>5. Pending \o lost = buf \o v
  BY ConcatAssociative
<1>6. StreamOf(asked) = first \o (buf \o v)
  <2> HIDE DEF first, v
  <2>1. (first \o Pending) \o lost = first \o (Pending \o lost)
    <3>1. JoinsAssociate(first, Pending, lost)
      BY Zenon, <1>1, Associative
    <3> QED BY Zenon, <3>1 DEF JoinsAssociate
  <2> QED BY <1>3, <1>5, <2>1
<1>7. buf \o v \in Seq(ReadBytes) /\ buf \o v # <<>>
  <2> HIDE DEF v
  <2> QED BY <1>4, ReadJoin, ReadNotEmpty
<1>8. n < Len(asked)
  <2>1. SUFFICES ASSUME n = Len(asked)  PROVE FALSE
    BY <1>0
  <2>2. first = StreamOf(asked)
    BY <1>0, <2>1, SubSeqFull
  <2> HIDE DEF first, v
  <2> QED BY <1>1, <1>6, <1>7, <2>2, ConcatEqualIffEmpty
<1> DEFINE next == Bytes(n + 1, asked[n + 1].len)
<1>9. asked[n + 1] \in Messages /\ next \in Seq(ReadBytes)
  <2>1. n + 1 \in 1..Len(asked)
    BY <1>0, <1>8
  <2>2. asked[n + 1] \in Messages
    BY <1>0, <2>1, ElementOfSeq
  <2>3. n + 1 \in Nat /\ asked[n + 1].len \in Nat
    BY <1>0, <2>2, MessageLength
  <2> QED BY <2>2, <2>3, BytesAre
<1>10. PICK u \in Seq(ReadBytes) : StreamOf(asked) = (first \o next) \o u
  BY <1>0, <1>8, StreamFrom
<1>11. buf \o v = next \o u
  <2> HIDE DEF first, v, next
  <2>1. first \in Seq(ReadBytes) /\ next \in Seq(ReadBytes)
    BY <1>1, <1>9
  <2>2. buf \o v \in Seq(ReadBytes)
    BY <1>7
  <2>3. RestIs(first, next, u, buf \o v)
    BY Zenon, <2>1, <2>2, SameRest
  <2>4. first \o (buf \o v) = (first \o next) \o u
    BY Zenon, <1>6, <1>10
  <2> QED BY Zenon, <2>3, <2>4 DEF RestIs
<1> QED BY <1>0, <1>4, <1>8, <1>9, <1>11
-----------------------------------------------------------------------------
(* What the steps leave alone.                                             *)

LEMMA FollowsSame ==
  ASSUME NEW n, Follows(n), UNCHANGED <<asked, rst>>, Pending' = Pending
  PROVE  Follows(n)'
BY DEF Follows

\* The limits of the buffers hold in every state, but for a message that is longer
\* than they are.
LEMMA PositionCloses ==
  ASSUME StreamTypes, NEW n \in 0..Len(asked), Position(n)
  PROVE  AtClose(n)
<1>0. n \in Nat /\ Len(asked) \in Nat /\ bytes_read \in Nat /\ bytes_sent \in Nat
  BY LenProperties DEF StreamTypes
<1>1. CASE state = "READ_HEADER"
  BY <1>0, <1>1, Sizes DEF Position, AtHeader, NothingToSend, AtClose
<1>2. CASE state = "READ_CONTENT"
  <2>1. AtContent(n)
    BY <1>2 DEF Position
  <2> QED BY <1>0, <2>1, Sizes DEF AtContent, NothingToSend, AtClose
<1>3. CASE state = "WRITE_RESPONSE"
  BY <1>0, <1>3, Sizes DEF Position, AtResponse, AtClose
<1>4. CASE state = "PENDING_CLOSE"
  BY <1>4 DEF Position
<1> QED BY <1>1, <1>2, <1>3, <1>4 DEF StreamTypes, States

\* A step that moves no byte and changes no counter of the connection.
LEMMA StreamFrame ==
  ASSUME StreamInv,
         UNCHANGED <<asked, wire, rst, recvVars, p_send_buf, bytes_to_send, bytes_sent,
                     delivered, state>>,
         unread' \in {unread, 0}
  PROVE  StreamInv'
<1>1. PICK n \in 0..Len(asked) : Position(n)
  BY DEF StreamInv
<1>2. StreamTypes'
  BY Sizes DEF StreamInv, StreamTypes, recvVars
<1>3. \A i : Follows(i) => Follows(i)'
  BY DEF Follows, Pending, recvVars
<1>4. Position(n)'
  BY <1>1, <1>3 DEF Position, AtHeader, AtContent, AtResponse, AtClose, NothingToSend, recvVars
<1> QED BY <1>2, <1>4 DEF StreamInv

\* A step that moves bytes towards the server, or adds to the client's stream.
LEMMA StreamGrows ==
  ASSUME StreamTypes, StreamTypes', NEW n \in 0..Len(asked), Position(n),
         UNCHANGED <<p_recv_buf, bytes_read, bytes_to_read, p_send_buf, bytes_to_send,
                     bytes_sent, delivered, state>>,
         Len(asked) <= Len(asked'), \A i \in 1..Len(asked) : asked'[i] = asked[i],
         \A i \in 0..Len(asked) : Follows(i) => Follows(i)'
  PROVE  StreamInv'
<1>0. n \in Nat /\ Len(asked) \in Nat /\ Len(asked') \in Nat
  BY LenProperties DEF StreamTypes
<1>1. n \in 0..Len(asked')
  BY <1>0
<1>2. (state = "READ_HEADER" => AtHeader(n))'
  BY DEF Position, AtHeader, NothingToSend
<1>3. (state = "READ_CONTENT" => AtContent(n))'
  <2>1. SUFFICES ASSUME state = "READ_CONTENT"  PROVE AtContent(n)'
    OBVIOUS
  <2>2. AtContent(n)
    BY <2>1 DEF Position
  <2>3. n < Len(asked') /\ asked'[n + 1] = asked[n + 1]
    BY <1>0, <2>2 DEF AtContent
  <2>4. Follows(n)'
    BY <2>2 DEF AtContent
  <2> QED BY <2>2, <2>3, <2>4 DEF AtContent, NothingToSend
<1>4. (state = "WRITE_RESPONSE" => AtResponse(n))'
  <2>1. SUFFICES ASSUME state = "WRITE_RESPONSE"  PROVE AtResponse(n)'
    OBVIOUS
  <2>2. AtResponse(n)
    BY <2>1 DEF Position
  <2>3. n < Len(asked') /\ asked'[n + 1] = asked[n + 1] /\ n + 1 \in 0..Len(asked)
    BY <1>0, <2>2 DEF AtResponse
  <2>4. Follows(n + 1)'
    BY <2>2, <2>3 DEF AtResponse
  <2> QED BY <2>2, <2>3, <2>4 DEF AtResponse
<1>5. (state = "PENDING_CLOSE" => AtClose(n))'
  <2>1. SUFFICES ASSUME state = "PENDING_CLOSE"  PROVE AtClose(n)'
    OBVIOUS
  <2>2. AtClose(n)
    BY <2>1 DEF Position
  <2>3. n < Len(asked) => n < Len(asked') /\ asked'[n + 1] = asked[n + 1]
    BY <1>0
  <2> QED BY <2>2, <2>3 DEF AtClose
<1>6. Position(n)'
  BY <1>2, <1>3, <1>4, <1>5 DEF Position
<1> QED BY <1>1, <1>6 DEF StreamInv
-----------------------------------------------------------------------------
(* The client and the network.                                             *)

LEMMA ClientSendStream ==
  ASSUME StreamInv, NEW msg \in Messages, ClientSend(msg)
  PROVE  StreamInv'
<1> DEFINE new == Bytes(Len(asked) + 1, msg.len)
<1>0. /\ StreamTypes /\ asked \in Seq(Messages) /\ Len(asked) \in Nat
      /\ Len(asked) < MaxMessages /\ MaxMessages \in Nat /\ ~rst /\ ~rst'
  BY LenProperties, ConnectionAssumption
     DEF StreamInv, StreamTypes, ClientSend, ConnectionAssumption
<1>1. new \in Seq(ReadBytes)
  <2>1. Len(asked) + 1 \in Nat /\ msg.len \in Nat
    BY <1>0, MessageLength
  <2> QED BY <2>1, BytesAre
<1>2. /\ asked' \in Seq(Messages) /\ Len(asked') = Len(asked) + 1
      /\ \A i \in 1..Len(asked) : asked'[i] = asked[i]
      /\ asked'[Len(asked')] = msg
  BY <1>0, AppendProperties DEF ClientSend
<1>3. wire' = wire \o new /\ wire' \in Seq(ReadBytes)
  BY <1>0, <1>1, ReadJoin DEF ClientSend, StreamTypes
<1>4. StreamTypes'
  BY <1>0, <1>2, <1>3 DEF StreamInv, StreamTypes, ClientSend, recvVars, sendVars
<1>5. StreamOf(asked') = StreamOf(asked) \o new
  BY <1>0, <1>2, StreamMore
<1>6. Pending' = Pending \o new /\ Pending \in Seq(ReadBytes)
  <2>1. p_recv_buf \o rcvq \in Seq(ReadBytes) /\ wire \in Seq(ReadBytes)
    BY <1>0, ReadJoin DEF StreamTypes
  <2>2. Pending' = (p_recv_buf \o rcvq) \o (wire \o new)
    BY <1>3 DEF Pending, ClientSend, recvVars
  <2>3. Pending' = ((p_recv_buf \o rcvq) \o wire) \o new
    <3> HIDE DEF new
    <3> QED BY <1>1, <2>1, <2>2, ReadAssoc
  <2> QED BY <1>0, <2>3, PendingType DEF Pending
<1>7. ASSUME NEW i \in 0..Len(asked), Follows(i)  PROVE Follows(i)'
  <2> DEFINE first == StreamOf(SubSeq(asked, 1, i))
  <2>1. SubSeq(asked', 1, i) = SubSeq(asked, 1, i)
    BY <1>0, FirstOfAppend DEF ClientSend
  <2>2. first \in Seq(ReadBytes) /\ first \o Pending = StreamOf(asked)
    BY <1>0, <1>7, First, StreamType DEF Follows
  <2>3. first \o Pending' = StreamOf(asked')
    <3> HIDE DEF first, new
    <3>1. first \o Pending' = first \o (Pending \o new)
      BY <1>6
    <3>2. first \o (Pending \o new) = (first \o Pending) \o new
      BY <1>1, <1>6, <2>2, ReadAssoc
    <3> QED BY <1>5, <2>2, <3>1, <3>2
  <2>4. IsPrefix(StreamOf(asked'), StreamOf(asked'))
    BY <1>2, StreamType, PrefixSelf
  <2> QED BY <2>1, <2>3, <2>4 DEF Follows
<1>8. PICK n \in 0..Len(asked) : Position(n)
  BY DEF StreamInv
<1>9. Len(asked) <= Len(asked')
  BY <1>0, <1>2
<1>10. UNCHANGED <<p_recv_buf, bytes_read, bytes_to_read, p_send_buf, bytes_to_send,
                   bytes_sent, delivered, state>>
  BY DEF ClientSend, recvVars, sendVars
<1> QED BY <1>0, <1>2, <1>4, <1>7, <1>8, <1>9, <1>10, StreamGrows

LEMMA DeliverStream ==
  ASSUME StreamInv, NEW k \in 1..Len(wire), Deliver(k)
  PROVE  StreamInv'
<1>0. /\ StreamTypes /\ Len(wire) \in Nat /\ Len(asked) \in Nat
      /\ wire \in Seq(ReadBytes) /\ rcvq \in Seq(ReadBytes) /\ p_recv_buf \in Seq(ReadBytes)
  BY LenProperties DEF StreamInv, StreamTypes
<1>1. /\ rcvq' \in Seq(ReadBytes) /\ wire' \in Seq(ReadBytes)
      /\ rcvq' \o wire' = rcvq \o wire
  <2>1. k \in 0..Len(wire)
    BY <1>0
  <2> DEFINE a == SubSeq(wire, 1, k)
             b == SubSeq(wire, k + 1, Len(wire))
  <2>2. /\ rcvq \o a \in Seq(ReadBytes) /\ b \in Seq(ReadBytes)
        /\ (rcvq \o a) \o b = rcvq \o wire
    BY Zenon, <1>0, <2>1, ReadMove
  <2>3. rcvq' = rcvq \o a /\ wire' = b
    BY DEF Deliver
  <2> HIDE DEF a, b
  <2> QED BY Zenon, <2>2, <2>3
<1>2. Pending' = Pending
  <2>1. Pending = p_recv_buf \o (rcvq \o wire)
    BY <1>0, ReadAssoc DEF Pending
  <2>2. Pending' = p_recv_buf \o (rcvq' \o wire')
    <3>1. Pending' = (p_recv_buf \o rcvq') \o wire'
      BY DEF Pending, Deliver
    <3> QED BY <1>0, <1>1, <3>1, ReadAssoc
  <2> QED BY <1>1, <2>1, <2>2
<1>3. ~rst
  BY EmptySeq DEF StreamInv, StreamTypes
<1>4. StreamTypes'
  BY <1>0, <1>1, <1>3 DEF StreamTypes, Deliver, sendVars
<1>5. \A i \in 0..Len(asked) : Follows(i) => Follows(i)'
  BY <1>2 DEF Follows, Deliver
<1>6. PICK n \in 0..Len(asked) : Position(n)
  BY DEF StreamInv
<1>7. UNCHANGED <<p_recv_buf, bytes_read, bytes_to_read, p_send_buf, bytes_to_send,
                  bytes_sent, delivered, state, asked>>
  BY DEF Deliver, sendVars
<1>8. Len(asked) <= Len(asked') /\ \A i \in 1..Len(asked) : asked'[i] = asked[i]
  BY <1>0, <1>7
<1> QED BY <1>0, <1>4, <1>5, <1>6, <1>7, <1>8, StreamGrows

LEMMA ClientResetStream ==
  ASSUME StreamInv, ClientReset
  PROVE  StreamInv'
<1>0. /\ StreamTypes /\ asked \in Seq(Messages) /\ Len(asked) \in Nat
      /\ wire \in Seq(ReadBytes) /\ rcvq \in Seq(ReadBytes) /\ p_recv_buf \in Seq(ReadBytes)
  BY LenProperties DEF StreamInv, StreamTypes
<1>1. /\ rcvq' \in Seq(ReadBytes) /\ wire' = <<>> /\ <<>> \in Seq(ReadBytes)
      /\ rst' /\ UNCHANGED <<p_recv_buf, asked>>
  BY <1>0, EmptySeq DEF ClientReset
<1>2. \E u \in Seq(ReadBytes) : Pending = Pending' \o u
  <2>1. Pending' = p_recv_buf \o rcvq'
    <3>1. Pending' = (p_recv_buf \o rcvq') \o <<>>
      BY <1>1 DEF Pending
    <3>2. p_recv_buf \o rcvq' \in Seq(ReadBytes)
      BY <1>0, <1>1, ReadJoin
    <3> QED BY <3>1, <3>2, ConcatEmptySeq
  <2>2. CASE rcvq' = rcvq
    BY <1>0, <2>1, <2>2 DEF Pending
  <2>3. CASE rcvq' = <<>>
    <3>1. Pending' = p_recv_buf
      BY <1>0, <2>1, <2>3, ConcatEmptySeq
    <3>2. Pending = p_recv_buf \o (rcvq \o wire) /\ rcvq \o wire \in Seq(ReadBytes)
      BY <1>0, ReadAssoc, ReadJoin DEF Pending
    <3> QED BY <3>1, <3>2
  <2> QED BY <2>2, <2>3 DEF ClientReset
<1>3. StreamTypes'
  BY <1>0, <1>1 DEF StreamTypes, ClientReset, sendVars
<1>4. ASSUME NEW i \in 0..Len(asked), Follows(i)  PROVE Follows(i)'
  <2> DEFINE first == StreamOf(SubSeq(asked, 1, i))
             all == StreamOf(asked)
  <2>1. first \in Seq(ReadBytes) /\ all \in Seq(ReadBytes) /\ IsPrefix(first \o Pending, all)
    BY <1>0, <1>4, First, StreamType DEF Follows
  <2>2. PICK u \in Seq(ReadBytes) : Pending = Pending' \o u
    BY <1>2
  <2>3. Pending' \in Seq(ReadBytes)
    <3>1. /\ p_recv_buf' \in Seq(ReadBytes) /\ rcvq' \in Seq(ReadBytes)
          /\ wire' \in Seq(ReadBytes)
      BY <1>3 DEF StreamTypes
    <3> QED BY <3>1, ReadJoin DEF Pending
  <2>4. IsPrefix(first \o Pending', all)
    <3> HIDE DEF first, all
    <3>1. (first \o Pending') \o u = first \o Pending
      BY <2>1, <2>2, <2>3, ReadAssoc
    <3>2. first \o Pending' \in Seq(ReadBytes)
      BY <2>1, <2>3, ReadJoin
    <3>3. IsPrefix((first \o Pending') \o u, all)
      BY <2>1, <3>1
    <3> QED BY <2>1, <3>2, <3>3, PrefixWithout
  <2> QED BY <1>1, <2>4 DEF Follows
<1>5. PICK n \in 0..Len(asked) : Position(n)
  BY DEF StreamInv
<1>6. UNCHANGED <<p_recv_buf, bytes_read, bytes_to_read, p_send_buf, bytes_to_send,
                  bytes_sent, delivered, state, asked>>
  BY DEF ClientReset, sendVars
<1>7. Len(asked) <= Len(asked') /\ \A i \in 1..Len(asked) : asked'[i] = asked[i]
  BY <1>0, <1>6
<1> QED BY <1>0, <1>3, <1>4, <1>5, <1>6, <1>7, StreamGrows
-----------------------------------------------------------------------------
(* The read task.                                                          *)

\* What nl_recvall takes from the socket goes behind what has been read; no byte
\* gets lost on the way.
LEMMA Receives ==
  ASSUME StreamTypes, bytes_read = Len(p_recv_buf), NEW len \in Nat, NEW o \in RecvAll(len)
  PROVE  /\ o.n \in 0..Len(rcvq) /\ o.n \in Nat /\ o.n <= len
         /\ o.err = "NL_IO_SUCCESS" => o.n = len
         /\ o.err # "NL_IO_SUCCESS" => o.n < len
         /\ Received(o.n) \in Seq(ReadBytes) /\ Len(Received(o.n)) = bytes_read + o.n
         /\ SubSeq(rcvq, o.n + 1, Len(rcvq)) \in Seq(ReadBytes)
         /\ (Received(o.n) \o SubSeq(rcvq, o.n + 1, Len(rcvq))) \o wire = Pending
<1>0. /\ p_recv_buf \in Seq(ReadBytes) /\ rcvq \in Seq(ReadBytes) /\ wire \in Seq(ReadBytes)
      /\ Len(rcvq) \in Nat /\ bytes_read \in Nat
  BY LenProperties DEF StreamTypes
<1>1. /\ o.n \in 0..Len(rcvq) /\ o.n \in Nat /\ o.n <= len
      /\ o.err = "NL_IO_SUCCESS" => o.n = len
      /\ o.err # "NL_IO_SUCCESS" => o.n < len
  <2>1. CASE Len(rcvq) >= len
    BY <1>0, <2>1 DEF RecvAll, Outcome
  <2>2. CASE ~(Len(rcvq) >= len)
    BY <1>0, <2>2 DEF RecvAll, Outcome
  <2> QED BY <2>1, <2>2
<1> DEFINE k == o.n
<1>2. k \in 0..Len(rcvq) /\ Received(k) = p_recv_buf \o SubSeq(rcvq, 1, k)
  BY <1>0, <1>1, SubSeqFull DEF Received
<1>3. /\ Received(k) \in Seq(ReadBytes) /\ Len(Received(k)) = bytes_read + k
      /\ SubSeq(rcvq, k + 1, Len(rcvq)) \in Seq(ReadBytes)
      /\ Received(k) \o SubSeq(rcvq, k + 1, Len(rcvq)) = p_recv_buf \o rcvq
  <2> HIDE DEF k
  <2> DEFINE a == SubSeq(rcvq, 1, k)
             b == SubSeq(rcvq, k + 1, Len(rcvq))
  <2>1. /\ p_recv_buf \o a \in Seq(ReadBytes) /\ Len(p_recv_buf \o a) = Len(p_recv_buf) + k
        /\ b \in Seq(ReadBytes)
        /\ (p_recv_buf \o a) \o b = p_recv_buf \o rcvq
    BY <1>0, <1>2, ReadMove
  <2> QED BY <1>2, <2>1
<1> QED BY <1>1, <1>3 DEF Pending

\* A header that is complete says how long the content of the next message is.
LEMMA HeaderRead ==
  ASSUME StreamTypes, NEW n \in 0..Len(asked), Follows(n),
         NEW buf \in Seq(ReadBytes), NEW rest \in Seq(ReadBytes),
         Pending = buf \o rest, Len(buf) = HeaderSize
  PROVE  /\ n < Len(asked) /\ asked[n + 1] \in Messages
         /\ IncomingLen(buf) = {asked[n + 1].len}
<1>0. /\ n < Len(asked) /\ n \in Nat /\ asked[n + 1] \in Messages
      /\ \E u, v \in Seq(ReadBytes) : buf \o v = Bytes(n + 1, asked[n + 1].len) \o u
  <2>1. Len(buf) >= 1
    BY Sizes
  <2> QED BY <2>1, NextMessage
<1>1. PICK u \in Seq(ReadBytes), v \in Seq(ReadBytes) :
             buf \o v = Bytes(n + 1, asked[n + 1].len) \o u
  BY <1>0
<1> DEFINE len == asked[n + 1].len
           next == Bytes(n + 1, len)
<1>2. len \in Nat /\ n + 1 \in Nat
  BY <1>0, MessageLength
<1>3. /\ next \in Seq(ReadBytes) /\ Len(next) = HeaderSize + len
      /\ \A i \in 1..(HeaderSize + len) : next[i] = <<n + 1, i>>
  BY <1>2, BytesAre
<1>4. \A i \in 1..HeaderSize : buf[i] = <<n + 1, i>>
  <2> HIDE DEF len, next
  <2>1. Len(buf) <= Len(next)
    BY <1>2, <1>3, Sizes
  <2>2. \A i \in 1..HeaderSize : buf[i] = next[i]
    BY <1>1, <1>3, <2>1, SameStart DEF next, len
  <2>3. \A i \in 1..HeaderSize : i \in 1..(HeaderSize + len)
    BY <1>2, Sizes
  <2> QED BY <1>3, <2>2, <2>3
<1>5. buf[HeaderSize][1] = n + 1
  BY <1>4, Sizes
<1> QED BY <1>0, <1>4, <1>5 DEF IncomingLen

\* The next message, whole: the buffer holds its bytes, and the rest follows it.
LEMMA MessageRead ==
  ASSUME StreamTypes, NEW n \in 0..Len(asked), Follows(n), n < Len(asked),
         NEW buf \in Seq(ReadBytes), NEW rest \in Seq(ReadBytes),
         Pending = buf \o rest, Len(buf) = HeaderSize + asked[n + 1].len
  PROVE  /\ asked[n + 1] \in Messages
         /\ buf = Bytes(n + 1, asked[n + 1].len)
         /\ StreamOf(SubSeq(asked, 1, n + 1)) \o rest = StreamOf(SubSeq(asked, 1, n)) \o Pending
<1> DEFINE len == asked[n + 1].len
           next == Bytes(n + 1, len)
           first == StreamOf(SubSeq(asked, 1, n))
<1>0. /\ asked \in Seq(Messages) /\ Len(asked) \in Nat /\ n \in Nat
      /\ asked[n + 1] \in Messages
  BY LenProperties, ElementOfSeq DEF StreamTypes
<1>1. len \in Nat /\ n + 1 \in Nat /\ HeaderSize + len >= 1
  BY <1>0, MessageLength, Sizes
<1>2. PICK u \in Seq(ReadBytes), v \in Seq(ReadBytes) : buf \o v = next \o u
  BY <1>1, NextMessage
<1>3. next \in Seq(ReadBytes) /\ Len(next) = HeaderSize + len
  BY <1>1, BytesAre
<1>4. buf = next
  <2> HIDE DEF next
  <2> QED BY <1>2, <1>3, SameCut
<1>5. StreamOf(SubSeq(asked, 1, n + 1)) = first \o next
  BY <1>0, StreamStepAt
<1>6. first \in Seq(ReadBytes)
  BY <1>0, First, StreamType
<1>7. (first \o next) \o rest = first \o Pending
  <2> HIDE DEF first, next
  <2>1. Pending = next \o rest
    BY <1>4
  <2>2. (first \o next) \o rest = first \o (next \o rest)
    BY <1>3, <1>6, ReadAssoc
  <2> QED BY <2>1, <2>2
<1> QED BY <1>0, <1>4, <1>5, <1>7

LEMMA ReadHeaderStream ==
  ASSUME StreamInv, ReadHeader
  PROVE  StreamInv'
<1>0. StreamTypes /\ Len(asked) \in Nat
  BY LenProperties DEF StreamInv, StreamTypes
<1>1. PICK n \in 0..Len(asked) : Position(n)
  BY DEF StreamInv
<1>2. AtHeader(n) /\ state = "READ_HEADER"
  BY <1>1 DEF Position, ReadHeader
<1>3. /\ bytes_read \in Nat /\ bytes_to_read \in Nat \ {0} /\ bytes_read = Len(p_recv_buf)
      /\ bytes_read + bytes_to_read = HeaderSize
  BY <1>0, <1>2 DEF AtHeader, StreamTypes
<1>4. PICK o \in RecvAll(bytes_to_read) :
        LET complete == o.err = "NL_IO_SUCCESS" /\ bytes_read + o.n = HeaderSize IN
        /\ p_recv_buf' = Received(o.n)
        /\ rcvq' = SubSeq(rcvq, o.n + 1, Len(rcvq))
        /\ bytes_read' = bytes_read + o.n
        /\ IF complete
           THEN bytes_to_read' \in IncomingLen(Received(o.n))
           ELSE bytes_to_read' = bytes_to_read - o.n
        /\ state' = IF complete THEN "READ_CONTENT"
                    ELSE IF o.err = "NL_IO_EOF" THEN "PENDING_CLOSE" ELSE state
  BY DEF ReadHeader
<1>5. /\ o.n \in Nat /\ o.n <= bytes_to_read
      /\ o.err = "NL_IO_SUCCESS" => o.n = bytes_to_read
      /\ o.err # "NL_IO_SUCCESS" => o.n < bytes_to_read
      /\ Received(o.n) \in Seq(ReadBytes) /\ Len(Received(o.n)) = bytes_read + o.n
      /\ SubSeq(rcvq, o.n + 1, Len(rcvq)) \in Seq(ReadBytes)
      /\ (Received(o.n) \o SubSeq(rcvq, o.n + 1, Len(rcvq))) \o wire = Pending
  BY <1>0, <1>3, Receives
<1>6. UNCHANGED <<asked, wire, rst, delivered, unread, bytes_sent, p_send_buf,
                  bytes_to_send>>
  BY DEF ReadHeader, TaskRead, clientVars
<1>7. Pending' = Pending
  BY <1>4, <1>5, <1>6 DEF Pending
<1>8. Follows(n)' /\ NothingToSend'
  BY <1>2, <1>6, <1>7 DEF AtHeader, Follows, NothingToSend
<1>9. bytes_read' \in Nat /\ bytes_read' = Len(p_recv_buf')
  BY <1>3, <1>4, <1>5
<1>10. CASE o.err = "NL_IO_SUCCESS"
  <2>1. bytes_read + o.n = HeaderSize
    BY <1>3, <1>5, <1>10
  <2>2. state' = "READ_CONTENT" /\ bytes_to_read' \in IncomingLen(Received(o.n))
    BY <1>4, <1>10, <2>1
  <2>3. /\ n < Len(asked) /\ asked[n + 1] \in Messages
        /\ IncomingLen(Received(o.n)) = {asked[n + 1].len}
    <3> DEFINE buf == Received(o.n)
               rest == SubSeq(rcvq, o.n + 1, Len(rcvq)) \o wire
    <3>1. buf \in Seq(ReadBytes) /\ Len(buf) = HeaderSize
      BY <1>5, <2>1
    <3>2. rest \in Seq(ReadBytes) /\ Pending = buf \o rest
      <4>1. wire \in Seq(ReadBytes)
        BY <1>0 DEF StreamTypes
      <4> DEFINE kept == SubSeq(rcvq, o.n + 1, Len(rcvq))
      <4>2. kept \in Seq(ReadBytes) /\ (buf \o kept) \o wire = Pending
        BY <1>5
      <4> HIDE DEF kept, buf
      <4>3. buf \in Seq(ReadBytes) /\ kept \in Seq(ReadBytes)
        BY <3>1, <4>2
      <4>4. kept \o wire \in Seq(ReadBytes)
        BY Zenon, <4>1, <4>3, ReadJoin
      <4>5. (buf \o kept) \o wire = buf \o (kept \o wire)
        <5>1. JoinsAssociate(buf, kept, wire)
          BY Zenon, <4>1, <4>3, Associative
        <5> QED BY Zenon, <5>1 DEF JoinsAssociate
      <4> QED BY <4>2, <4>4, <4>5 DEF kept
    <3>3. Follows(n)
      BY <1>2 DEF AtHeader
    <3> HIDE DEF buf, rest
    <3>4. /\ n < Len(asked) /\ asked[n + 1] \in Messages
          /\ IncomingLen(buf) = {asked[n + 1].len}
      BY <1>0, <3>1, <3>2, <3>3, HeaderRead
    <3> QED BY <3>4 DEF buf
  <2>4. bytes_to_read' = asked[n + 1].len /\ bytes_to_read' \in Nat
    BY <2>2, <2>3, MessageLength
  <2>5. AtContent(n)'
    BY <1>4, <1>6, <1>8, <1>9, <2>1, <2>3, <2>4, Sizes DEF AtContent
  <2>6. Position(n)'
    BY <1>1, <1>6, <2>2, <2>5 DEF Position
  <2>7. StreamTypes'
    BY <1>0, <1>4, <1>5, <1>6, <1>9, <2>2 DEF StreamTypes, States
  <2> QED BY <1>6, <2>6, <2>7 DEF StreamInv
<1>11. CASE o.err # "NL_IO_SUCCESS"
  <2>1. /\ bytes_to_read' = bytes_to_read - o.n
        /\ state' \in {"READ_HEADER", "PENDING_CLOSE"}
    BY <1>2, <1>4, <1>11
  <2>2. bytes_to_read' \in Nat \ {0} /\ bytes_read' + bytes_to_read' = HeaderSize
    <3>1. bytes_read' = bytes_read + o.n /\ o.n < bytes_to_read
      BY <1>4, <1>5, <1>11
    <3>2. bytes_to_read' = bytes_to_read - o.n
      BY <2>1
    <3>3. bytes_read \in Nat /\ bytes_to_read \in Nat /\ o.n \in Nat
      BY <1>3, <1>5
    <3> DEFINE k == o.n
    <3> HIDE DEF k
    <3>4. bytes_to_read - k \in Nat \ {0}
          /\ (bytes_read + k) + (bytes_to_read - k) = bytes_read + bytes_to_read
      BY <3>1, <3>3 DEF k
    <3> QED BY <1>3, <3>1, <3>2, <3>4 DEF k
  <2>3. AtHeader(n)'
    BY <1>8, <1>9, <2>2 DEF AtHeader
  <2>4. AtClose(n)'
    <3>1. bytes_to_send' = 0 /\ bytes_sent' = 0
      BY <1>8 DEF NothingToSend
    <3> QED BY <2>2, <3>1, Sizes DEF AtClose
  <2>5. Position(n)'
    BY <1>1, <1>6, <2>1, <2>3, <2>4 DEF Position
  <2>6. StreamTypes'
    BY <1>0, <1>4, <1>5, <1>6, <1>9, <2>1 DEF StreamTypes, States
  <2> QED BY <1>6, <2>5, <2>6 DEF StreamInv
<1> QED BY <1>10, <1>11

\* The answer to a whole message is the one the protocol prescribes.
LEMMA AnswerIsExpected ==
  ASSUME NEW m \in Nat, asked[m] \in Messages
  PROVE  Answer(Bytes(m, asked[m].len), HeaderSize + asked[m].len) = Expected(m, asked[m])
<1> DEFINE len == asked[m].len
           buf == Bytes(m, len)
<1>0. len \in Nat /\ asked[m].ping \in BOOLEAN
  BY MessageLength DEF Messages
<1>1. buf[1] = <<m, 1>>
  <2>1. 1 \in 1..(HeaderSize + len)
    BY <1>0, Sizes
  <2>2. \A i \in 1..(HeaderSize + len) : buf[i] = <<m, i>>
    BY <1>0, BytesAre
  <2> QED BY <2>1, <2>2
<1>2. buf[1][1] = m
  BY <1>1
<1> HIDE DEF buf
<1>3. CASE HeaderSize + len # MessageSize
  BY <1>2, <1>3 DEF Answer, Expected
<1>4. CASE HeaderSize + len = MessageSize
  <2>1. len = MessageSize - HeaderSize
    BY <1>0, <1>4, Sizes
  <2>2. buf = Bytes(m, MessageSize - HeaderSize)
    BY <2>1 DEF buf
  <2>3. Answer(buf, MessageSize) =
          LET kind == IF asked[m].ping THEN <<m, "pong">> ELSE <<m, "err">>
          IN  [i \in 1..MessageSize |-> <<kind[1], kind[2], i>>]
    BY <1>2, <2>2 DEF Answer
  <2>4. Expected(m, asked[m]) =
          LET kind == <<m, IF asked[m].ping THEN "pong" ELSE "err">>
          IN  [i \in 1..MessageSize |-> <<kind[1], kind[2], i>>]
    BY <1>4 DEF Expected
  <2>5. CASE asked[m].ping
    <3>1. Answer(buf, MessageSize) = [i \in 1..MessageSize |-> <<m, "pong", i>>]
      BY <2>3, <2>5
    <3>2. Expected(m, asked[m]) = [i \in 1..MessageSize |-> <<m, "pong", i>>]
      BY <2>4, <2>5
    <3> QED BY <1>4, <3>1, <3>2 DEF buf
  <2>6. CASE ~asked[m].ping
    <3>1. Answer(buf, MessageSize) = [i \in 1..MessageSize |-> <<m, "err", i>>]
      BY <2>3, <2>6
    <3>2. Expected(m, asked[m]) = [i \in 1..MessageSize |-> <<m, "err", i>>]
      BY <2>4, <2>6
    <3> QED BY <1>4, <3>1, <3>2 DEF buf
  <2> QED BY <2>5, <2>6
<1> QED BY <1>3, <1>4 DEF buf

LEMMA ReadContentStream ==
  ASSUME StreamInv, ReadContent
  PROVE  StreamInv'
<1>0. StreamTypes /\ Len(asked) \in Nat
  BY LenProperties DEF StreamInv, StreamTypes
<1>1. PICK n \in 0..Len(asked) : Position(n)
  BY DEF StreamInv
<1>2. AtContent(n) /\ state = "READ_CONTENT" /\ n \in Nat
  BY <1>1 DEF Position, ReadContent
<1> DEFINE len == asked[n + 1].len
<1>3. /\ bytes_read \in Nat /\ bytes_to_read \in Nat /\ bytes_read = Len(p_recv_buf)
      /\ bytes_read + bytes_to_read = HeaderSize + len /\ n < Len(asked) /\ Follows(n)
      /\ bytes_read >= HeaderSize
  BY <1>0, <1>2 DEF AtContent, StreamTypes
<1>4. asked[n + 1] \in Messages /\ len \in Nat /\ n + 1 \in Nat
  <2>1. n + 1 \in 1..Len(asked)
    BY <1>0, <1>2, <1>3
  <2>2. asked[n + 1] \in Messages
    BY <1>0, <2>1, ElementOfSeq DEF StreamTypes
  <2> QED BY <1>2, <2>2, MessageLength
<1>5. PICK o \in RecvAll(bytes_to_read) :
        LET complete == o.err = "NL_IO_SUCCESS" /\ bytes_to_read - o.n = 0 IN
        /\ rcvq' = SubSeq(rcvq, o.n + 1, Len(rcvq))
        /\ bytes_to_read' = bytes_to_read - o.n
        /\ IF complete
           THEN /\ p_send_buf' = Answer(Received(o.n), bytes_read + o.n)
                /\ bytes_to_send' = MessageSize
                /\ p_recv_buf' = <<>>
                /\ bytes_read' = 0
           ELSE /\ p_recv_buf' = Received(o.n)
                /\ bytes_read' = bytes_read + o.n
                /\ UNCHANGED <<p_send_buf, bytes_to_send>>
        /\ state' = IF complete THEN "WRITE_RESPONSE"
                    ELSE IF o.err = "NL_IO_EOF" THEN "PENDING_CLOSE" ELSE state
  BY DEF ReadContent
<1> DEFINE buf == Received(o.n)
           kept == SubSeq(rcvq, o.n + 1, Len(rcvq))
           k == o.n
<1>6. /\ k \in Nat /\ k <= bytes_to_read
      /\ o.err = "NL_IO_SUCCESS" => k = bytes_to_read
      /\ o.err # "NL_IO_SUCCESS" => k < bytes_to_read
      /\ buf \in Seq(ReadBytes) /\ Len(buf) = bytes_read + k
      /\ kept \in Seq(ReadBytes)
      /\ (buf \o kept) \o wire = Pending
  BY <1>0, <1>3, Receives
<1>7. UNCHANGED <<asked, wire, rst, delivered, unread, bytes_sent>>
  BY DEF ReadContent, TaskRead, clientVars
<1>8. bytes_sent = 0 /\ bytes_to_send = 0 /\ p_send_buf = <<>>
  BY <1>2 DEF AtContent, NothingToSend
<1>9. CASE o.err = "NL_IO_SUCCESS"
  <2>1. k = bytes_to_read /\ bytes_to_read - k = 0 /\ bytes_read + k = HeaderSize + len
    BY <1>3, <1>6, <1>9
  <2>2. /\ rcvq' = kept /\ p_recv_buf' = <<>> /\ bytes_read' = 0 /\ bytes_to_read' = 0
        /\ p_send_buf' = Answer(buf, HeaderSize + len) /\ bytes_to_send' = MessageSize
        /\ state' = "WRITE_RESPONSE"
    BY <1>5, <1>9, <2>1
  <2> DEFINE rest == kept \o wire
  <2>3. rest \in Seq(ReadBytes) /\ Pending = buf \o rest /\ Pending' = rest
    <3>1. wire \in Seq(ReadBytes) /\ kept \in Seq(ReadBytes) /\ buf \in Seq(ReadBytes)
      BY <1>0, <1>6 DEF StreamTypes
    <3>2. Pending' = (<<>> \o kept) \o wire
      BY <1>7, <2>2 DEF Pending
    <3> HIDE DEF kept, buf
    <3>3. <<>> \o kept = kept
      BY <3>1, ConcatEmptySeq
    <3>4. (buf \o kept) \o wire = buf \o (kept \o wire) /\ kept \o wire \in Seq(ReadBytes)
      BY <3>1, ReadJoin, ReadAssoc
    <3> QED BY <1>6, <3>2, <3>3, <3>4
  <2>4. /\ buf = Bytes(n + 1, len)
        /\ StreamOf(SubSeq(asked, 1, n + 1)) \o rest = StreamOf(SubSeq(asked, 1, n)) \o Pending
    <3>1. Len(buf) = HeaderSize + len
      BY <1>6, <2>1
    <3>2. buf \in Seq(ReadBytes)
      BY <1>6
    <3> HIDE DEF rest, buf
    <3> QED BY <1>0, <1>3, <2>3, <3>1, <3>2, MessageRead
  <2>5. Follows(n + 1)'
    <3>1. StreamOf(SubSeq(asked', 1, n + 1)) \o Pending' = StreamOf(SubSeq(asked, 1, n)) \o Pending
      BY <1>7, <2>3, <2>4
    <3>2. StreamOf(asked') = StreamOf(asked) /\ rst' = rst
      BY <1>7
    <3> QED BY <1>3, <3>1, <3>2 DEF Follows
  <2>6. p_send_buf' = Expected(n + 1, asked'[n + 1])
    BY <1>4, <1>7, <2>2, <2>4, AnswerIsExpected
  <2>7. AtResponse(n)'
    <3>1. bytes_to_send' \in Nat \ {0} /\ bytes_to_send' + bytes_sent' = MessageSize
      BY <1>7, <1>8, <2>2, Sizes
    <3> QED BY <1>3, <1>7, <2>2, <2>5, <2>6, <3>1 DEF AtResponse
  <2>8. Position(n)'
    BY <1>1, <1>7, <2>2, <2>7 DEF Position
  <2>9. StreamTypes'
    <3>1. p_send_buf' \in Seq(AnswerBytes)
      BY <1>4, <1>7, <2>6, ExpectedIs
    <3> QED BY <1>0, <1>6, <1>7, <2>2, <3>1, EmptySeq DEF StreamTypes, States
  <2> QED BY <1>7, <2>8, <2>9 DEF StreamInv
<1>10. CASE o.err # "NL_IO_SUCCESS"
  <2>1. /\ rcvq' = kept /\ p_recv_buf' = buf /\ bytes_read' = bytes_read + k
        /\ bytes_to_read' = bytes_to_read - k
        /\ UNCHANGED <<p_send_buf, bytes_to_send>>
        /\ state' \in {"READ_CONTENT", "PENDING_CLOSE"}
    BY <1>2, <1>5, <1>10
  <2> HIDE DEF buf, kept, k
  <2>2. Pending' = Pending
    BY <1>6, <1>7, <2>1 DEF Pending
  <2>3. /\ bytes_read' \in Nat /\ bytes_to_read' \in Nat /\ bytes_read' >= HeaderSize
        /\ bytes_read' + bytes_to_read' = HeaderSize + len
    <3> HIDE DEF len
    <3>1. /\ k \in Nat /\ k <= bytes_to_read /\ bytes_read \in Nat /\ bytes_to_read \in Nat
          /\ len \in Nat /\ bytes_read + bytes_to_read = HeaderSize + len
          /\ bytes_read >= HeaderSize
          /\ bytes_read' = bytes_read + k /\ bytes_to_read' = bytes_to_read - k
      BY <1>3, <1>4, <1>6, <2>1
    <3> QED BY <3>1, Sizes
  <2>4. NothingToSend'
    BY <1>7, <1>8, <2>1 DEF NothingToSend
  <2>5. AtContent(n)'
    BY <1>3, <1>6, <1>7, <2>1, <2>2, <2>3, <2>4 DEF AtContent, Follows
  <2>6. AtClose(n)'
    <3>1. bytes_to_send' = 0 /\ bytes_sent' = 0
      BY <2>4 DEF NothingToSend
    <3>2. bytes_read' + bytes_to_read' = HeaderSize + asked'[n + 1].len /\ n < Len(asked')
      BY <2>5 DEF AtContent
    <3>3. bytes_to_read' \in Nat
      BY <2>3
    <3> QED BY <3>1, <3>2, <3>3, Sizes DEF AtClose
  <2>7. Position(n)'
    BY <1>1, <1>7, <2>1, <2>5, <2>6 DEF Position
  <2>8. StreamTypes'
    BY <1>0, <1>6, <1>7, <2>1, <2>3 DEF StreamTypes, States
  <2> QED BY <1>7, <2>7, <2>8 DEF StreamInv
<1> QED BY <1>9, <1>10
-----------------------------------------------------------------------------
(* The send task.                                                          *)

\* nl_sendall writes no more than it is asked to, and all of it if it succeeds.
LEMMA Sends ==
  ASSUME unread \in 0..SendRoom, NEW len \in Nat \ {0}
  PROVE  /\ SendAll(len).n \in 0..len /\ unread + SendAll(len).n \in 0..SendRoom
         /\ SendAll(len).err = "NL_IO_SUCCESS" <=> SendAll(len).n = len
<1>1. CASE rst
  BY <1>1, Sizes DEF SendAll, Outcome
<1>2. CASE ~rst /\ unread + len <= SendRoom
  BY <1>2, Sizes DEF SendAll, Outcome
<1>3. CASE ~rst /\ ~(unread + len <= SendRoom)
  BY <1>3, Sizes DEF SendAll, Outcome
<1> QED BY <1>1, <1>2, <1>3

LEMMA WriteResponseStream ==
  ASSUME StreamInv, WriteResponse
  PROVE  StreamInv'
<1>0. StreamTypes /\ Len(asked) \in Nat
  BY LenProperties DEF StreamInv, StreamTypes
<1>1. PICK n \in 0..Len(asked) : Position(n)
  BY DEF StreamInv
<1>2. AtResponse(n) /\ state = "WRITE_RESPONSE" /\ n \in Nat
  BY <1>1 DEF Position, WriteResponse
<1>3. /\ bytes_to_send \in Nat \ {0} /\ bytes_sent \in Nat /\ unread \in 0..SendRoom
      /\ bytes_to_send + bytes_sent = MessageSize /\ n < Len(asked)
      /\ Len(delivered) = n * MessageSize + bytes_sent /\ delivered \in Seq(AnswerBytes)
      /\ bytes_read = 0 /\ p_recv_buf = <<>> /\ bytes_to_read = 0
  BY <1>0, <1>1, <1>2 DEF AtResponse, StreamTypes, Position
<1> DEFINE o == SendAll(bytes_to_send)
           k == o.n
           part == SubSeq(p_send_buf, 1, k)
<1>4. /\ k \in 0..bytes_to_send /\ k \in Nat /\ unread + k \in 0..SendRoom
      /\ o.err = "NL_IO_SUCCESS" <=> k = bytes_to_send
  <2> HIDE DEF o
  <2>1. o.n \in 0..bytes_to_send /\ unread + o.n \in 0..SendRoom
        /\ (o.err = "NL_IO_SUCCESS" <=> o.n = bytes_to_send)
    BY <1>3, Sends DEF o
  <2> QED BY <1>3, <2>1
<1>5. part \in Seq(AnswerBytes) /\ Len(part) = k
  <2>1. asked[n + 1] \in Messages /\ n + 1 \in Nat
    <3>1. n + 1 \in 1..Len(asked)
      BY <1>0, <1>2, <1>3
    <3> QED BY <1>0, <1>2, <3>1, ElementOfSeq DEF StreamTypes
  <2>2. p_send_buf \in Seq(AnswerBytes) /\ Len(p_send_buf) = MessageSize
    BY <1>2, <2>1, ExpectedIs DEF AtResponse
  <2>3. k \in 0..Len(p_send_buf)
    <3> HIDE DEF k
    <3> QED BY <1>3, <1>4, <2>2, Sizes
  <2> HIDE DEF k
  <2> QED BY <2>2, <2>3, Split
<1>6. /\ delivered' = delivered \o part /\ unread' = unread + k
      /\ IF o.err = "NL_IO_SUCCESS" /\ bytes_to_send - k = 0
         THEN /\ state' = "READ_HEADER"
              /\ bytes_to_read' = HeaderSize
              /\ bytes_to_send' = 0 /\ bytes_sent' = 0
              /\ p_send_buf' = <<>>
         ELSE /\ bytes_to_send' = bytes_to_send - k
              /\ bytes_sent' = bytes_sent + k
              /\ UNCHANGED <<state, bytes_to_read, p_send_buf>>
  BY DEF WriteResponse
<1>7. UNCHANGED <<asked, wire, rst, rcvq, p_recv_buf, bytes_read>>
  BY DEF WriteResponse, TaskSend, clientVars
<1> HIDE DEF part, k, o
<1>8. delivered' \in Seq(AnswerBytes) /\ Len(delivered') = (n * MessageSize + bytes_sent) + k
  BY <1>3, <1>5, <1>6, ConcatProperties
<1>9. Follows(n + 1)'
  BY <1>2, <1>7 DEF AtResponse, Follows, Pending
<1>10. CASE o.err = "NL_IO_SUCCESS"
  <2>1. bytes_to_send - k = 0 /\ k = bytes_to_send
    BY <1>3, <1>4, <1>10
  <2>2. /\ state' = "READ_HEADER" /\ bytes_to_read' = HeaderSize
        /\ bytes_to_send' = 0 /\ bytes_sent' = 0 /\ p_send_buf' = <<>>
    BY <1>6, <1>10, <2>1
  <2>3. Len(delivered') = (n + 1) * MessageSize + bytes_sent'
    <3>1. Len(delivered') = n * MessageSize + MessageSize
      <4> DEFINE before == n * MessageSize
      <4>1. before \in Nat
        BY <1>2, Sizes
      <4> HIDE DEF before
      <4>2. (before + bytes_sent) + k = before + MessageSize
        BY <1>3, <2>1, <4>1, Sizes
      <4> QED BY <1>8, <4>2 DEF before
    <3>2. n * MessageSize + MessageSize = (n + 1) * MessageSize + 0
      BY <1>2, Sizes
    <3> QED BY <2>2, <3>1, <3>2
  <2>4. AtHeader(n + 1)'
    <3>1. bytes_read' = Len(p_recv_buf') /\ bytes_read' = 0
      BY <1>3, <1>7, EmptySeq
    <3> QED BY <1>9, <2>2, <3>1, Sizes DEF AtHeader, NothingToSend
  <2>5. Position(n + 1)'
    BY <2>2, <2>3, <2>4, Sizes DEF Position
  <2>6. StreamTypes'
    BY <1>0, <1>4, <1>6, <1>7, <1>8, <2>2 DEF StreamTypes, States
  <2>7. n + 1 \in 0..Len(asked')
    BY <1>0, <1>2, <1>3, <1>7
  <2> QED BY <2>5, <2>6, <2>7 DEF StreamInv
<1>11. CASE o.err # "NL_IO_SUCCESS"
  <2>1. /\ bytes_to_send' = bytes_to_send - k /\ bytes_sent' = bytes_sent + k
        /\ UNCHANGED <<state, bytes_to_read, p_send_buf>>
    BY <1>6, <1>11
  <2>2. k < bytes_to_send
    BY <1>3, <1>4, <1>11
  <2>3. /\ bytes_to_send' \in Nat \ {0} /\ bytes_sent' \in Nat /\ bytes_sent' < MessageSize
        /\ bytes_to_send' + bytes_sent' = MessageSize
    BY <1>3, <1>4, <2>1, <2>2, Sizes
  <2>4. Len(delivered') = n * MessageSize + bytes_sent'
    <3> DEFINE before == n * MessageSize
    <3>1. before \in Nat
      BY <1>2, Sizes
    <3> HIDE DEF before
    <3>2. (before + bytes_sent) + k = before + (bytes_sent + k)
      BY <1>3, <1>4, <3>1
    <3> QED BY <1>8, <2>1, <3>2 DEF before
  <2>5. AtResponse(n)'
    BY <1>2, <1>7, <1>9, <2>1, <2>3 DEF AtResponse
  <2>6. Position(n)'
    BY <1>2, <2>1, <2>3, <2>4, <2>5 DEF Position
  <2>7. StreamTypes'
    BY <1>0, <1>4, <1>6, <1>7, <1>8, <2>1, <2>3 DEF StreamTypes, States
  <2> QED BY <1>7, <2>6, <2>7 DEF StreamInv
<1> QED BY <1>10, <1>11
-----------------------------------------------------------------------------
(* The event loop, and all steps together.                                 *)

\* A POLLHUP leaves the connection wherever it is.
LEMMA PollHupStream ==
  ASSUME StreamInv, PollHup
  PROVE  StreamInv'
<1>1. CASE "POLLHUP" \in revents
  <2>1. PICK n \in 0..Len(asked) : Position(n)
    BY DEF StreamInv
  <2>2. /\ state' = "PENDING_CLOSE"
        /\ UNCHANGED <<asked, wire, rst, rcvq, p_recv_buf, bytes_read, bytes_to_read,
                       p_send_buf, bytes_to_send, bytes_sent, delivered, unread>>
    BY <1>1 DEF PollHup, clientVars, recvVars, sendVars
  <2>3. AtClose(n)'
    BY <2>1, <2>2, PositionCloses DEF StreamInv, AtClose
  <2>4. Position(n)'
    BY <2>1, <2>2, <2>3 DEF Position
  <2>5. StreamTypes'
    BY <2>2 DEF StreamInv, StreamTypes, States
  <2> QED BY <2>2, <2>4, <2>5 DEF StreamInv
<1>2. CASE "POLLHUP" \notin revents
  BY <1>2, StreamFrame DEF PollHup, clientVars, sendVars
<1> QED BY <1>1, <1>2

LEMMA StreamInvStep == StreamInv /\ [Next]_vars => StreamInv'
<1> SUFFICES ASSUME StreamInv, [Next]_vars  PROVE StreamInv'
  OBVIOUS
<1>1. CASE Client
  <2>1. CASE ClientRecv \/ ClientClose
    BY <2>1, StreamFrame DEF ClientRecv, ClientClose, clientVars, sendVars
  <2>2. CASE \E msg \in Messages : ClientSend(msg)
    BY <2>2, ClientSendStream
  <2> QED BY <1>1, <2>1, <2>2, ClientResetStream DEF Client
<1>2. CASE Network
  BY <1>2, DeliverStream DEF Network
<1>3. CASE ReadTask
  <2>1. CASE ReadSkips
    BY <2>1, StreamFrame DEF ReadSkips, TaskRead, clientVars
  <2>2. CASE ReadOverrun
    BY <2>2, StreamFrame DEF ReadOverrun, clientVars, sendVars
  <2> QED BY <1>3, <2>1, <2>2, ReadHeaderStream, ReadContentStream DEF ReadTask
<1>4. CASE SendTask
  <2>1. CASE SendSkips
    BY <2>1, StreamFrame DEF SendSkips, TaskSend, clientVars, recvVars, sendVars
  <2> QED BY <1>4, <2>1, WriteResponseStream DEF SendTask
<1>5. CASE Check \/ Reap \/ Poll \/ PollIn \/ PollOut \/ WaitPool \/ DestroyAllConns
  BY <1>5, StreamFrame DEF Check, Reap, Poll, PollIn, PollOut, WaitPool, DestroyAllConns,
                           clientVars, sendVars
<1>6. CASE LoopFault
  BY <1>6, StreamFrame DEF LoopFault, PollFails, LoopGivesUp, WaitPoolFails, PollInFails,
                           PollOutFails, clientVars, sendVars
<1>7. CASE ShutDown \/ UNCHANGED vars
  BY <1>7, StreamFrame DEF ShutDown, vars, clientVars, sendVars
<1> QED
  BY <1>1, <1>2, <1>3, <1>4, <1>5, <1>6, <1>7, PollHupStream DEF Next, Loop, Ended

LEMMA NoMessages ==
  StreamOf(<<>>) = <<>> /\ AnswersTo(<<>>) = <<>>
<1>1. <<>> \in Seq(Messages) /\ Len(<<>>) = 0
  BY EmptySeq
<1>2. MessageParts(<<>>) \in Seq(Seq(ReadBytes)) /\ Len(MessageParts(<<>>)) = 0
  BY <1>1, MessagePartsAre
<1>3. AnswerParts(<<>>) \in Seq(Seq(AnswerBytes)) /\ Len(AnswerParts(<<>>)) = 0
  BY <1>1, AnswerPartsAre
<1>4. FlattenSeq(MessageParts(<<>>)) = <<>> /\ FlattenSeq(AnswerParts(<<>>)) = <<>>
  BY <1>2, <1>3, FlattenEmpty
<1> QED BY <1>4 DEF StreamOf, AnswersTo, MessageParts, AnswerParts

LEMMA StreamInvInit == Init => StreamInv
<1> SUFFICES ASSUME Init  PROVE StreamInv
  OBVIOUS
<1>1. /\ asked = <<>> /\ wire = <<>> /\ rcvq = <<>> /\ p_recv_buf = <<>>
      /\ Len(asked) = 0 /\ asked \in Seq(Messages) /\ <<>> \in Seq(ReadBytes)
      /\ <<>> \in Seq(AnswerBytes)
  BY EmptySeq DEF Init
<1>2. StreamTypes
  BY <1>1, Sizes, ConnectionAssumption DEF StreamTypes, Init, States, ConnectionAssumption
<1>3. Follows(0)
  <2>1. SubSeq(asked, 1, 0) = <<>>
    BY SubSeqEmpty
  <2>2. Pending = <<>>
    <3>1. <<>> \o <<>> = <<>>
      BY <1>1, ConcatEmptySeq
    <3> QED BY <1>1, <3>1 DEF Pending
  <2>3. StreamOf(SubSeq(asked, 1, 0)) \o Pending = <<>> /\ StreamOf(asked) = <<>>
    BY <1>1, <2>1, <2>2, NoMessages, ConcatEmptySeq
  <2>4. IsPrefix(<<>>, <<>>)
    BY <1>1, PrefixSelf
  <2> QED BY <2>3, <2>4 DEF Follows
<1>4. AtHeader(0)
  BY <1>1, <1>3, Sizes DEF AtHeader, NothingToSend, Init
<1>5. Position(0)
  BY <1>1, <1>4, Sizes DEF Position, Init
<1> QED BY <1>1, <1>2, <1>5 DEF StreamInv

\* Wherever the network cuts the stream and whichever task runs next, the
\* buffers hold exactly what follows the messages that are answered.
THEOREM ConnectionStream == Spec => []StreamInv
BY StreamInvInit, StreamInvStep, PTL DEF Spec

LEMMA Quotient ==
  ASSUME NEW n \in Nat, NEW max \in Nat \ {0}, NEW r \in Nat, r < max
  PROVE  (n * max + r) \div max = n
<1> DEFINE x == n * max + r
           q == x \div max
<1>1. x \in Nat /\ x = max * n + r
  BY SMT
<1> HIDE DEF x
<1>2. q \in Int /\ x % max \in 0..(max - 1) /\ x = max * q + (x % max)
  BY <1>1, SMT
<1> HIDE DEF q
<1>3. ASSUME q <= n - 1  PROVE FALSE
  <2>1. max * q <= max * (n - 1)  BY <1>2, <1>3, SMT
  <2>2. max * (n - 1) = max * n - max  BY SMT
  <2> QED  BY <1>1, <1>2, <2>1, <2>2, SMT
<1>4. ASSUME q >= n + 1  PROVE FALSE
  <2>1. max * q >= max * (n + 1)  BY <1>2, <1>4, SMT
  <2>2. max * (n + 1) = max * n + max  BY SMT
  <2> QED  BY <1>1, <1>2, <2>1, <2>2, SMT
<1>5. q = n
  BY <1>2, <1>3, <1>4, SMT
<1> QED BY <1>5 DEF q, x

\* While the connection is read, no byte is lost, read twice or attributed to the
\* wrong message.
THEOREM ConnectionNothingLost == Spec => []NothingLost
<1>1. StreamInv => NothingLost
  <2> SUFFICES ASSUME StreamInv, state \in {"READ_HEADER", "READ_CONTENT"}, ~rst
               PROVE  /\ bytes_read = Len(p_recv_buf)
                      /\ StreamOf(SubSeq(asked, 1, Len(delivered) \div MessageSize)) \o Pending
                            = StreamOf(asked)
    BY DEF NothingLost
  <2>1. PICK n \in 0..Len(asked) : Position(n)
    BY DEF StreamInv
  <2>2. /\ bytes_read = Len(p_recv_buf) /\ bytes_sent = 0
        /\ Follows(n)
    BY <2>1 DEF Position, AtHeader, AtContent, NothingToSend
  <2>3. StreamOf(SubSeq(asked, 1, n)) \o Pending = StreamOf(asked)
    BY <2>2 DEF Follows
  <2>4. Len(delivered) \div MessageSize = n
    <3>1. n \in Nat /\ 0 \in Nat /\ 0 < MessageSize
      BY LenProperties, Sizes DEF StreamInv, StreamTypes
    <3>2. (n * MessageSize + 0) \div MessageSize = n
      BY <3>1, Sizes, Quotient
    <3> QED BY <2>1, <2>2, <3>2 DEF Position
  <2> QED BY <2>2, <2>3, <2>4
<1> QED BY <1>1, ConnectionStream, PTL
-----------------------------------------------------------------------------
(* What the server writes.                                                 *)

\* Only a send task writes: any other step keeps what is written, and a message
\* more does not change the answers to the first ones.
LEMMA AnswerFrame ==
  ASSUME StreamInv, AnswerInv, UNCHANGED <<bytes_sent, delivered>>, unread' \in {unread, 0},
         asked' = asked \/ \E msg \in Messages : asked' = Append(asked, msg)
  PROVE  AnswerInv'
<1>0. asked \in Seq(Messages) /\ Len(asked) \in Nat /\ Len(delivered) \in Nat
  BY LenProperties DEF StreamInv, StreamTypes
<1>1. PICK n \in 0..Len(asked) :
        delivered = AnswersTo(SubSeq(asked, 1, n)) /\ Len(delivered) = n * MessageSize
  BY DEF AnswerInv
<1>2. SubSeq(asked', 1, n) = SubSeq(asked, 1, n) /\ n \in 0..Len(asked')
  <2>1. CASE asked' = asked
    BY <2>1
  <2>2. CASE \E msg \in Messages : asked' = Append(asked, msg)
    <3>1. PICK msg \in Messages : asked' = Append(asked, msg)
      BY <2>2
    <3>2. Len(asked') = Len(asked) + 1
      BY <1>0, <3>1, AppendProperties
    <3> QED BY <1>0, <3>1, <3>2, FirstOfAppend
  <2> QED BY <2>1, <2>2
<1>3. unread' \in Nat /\ unread' <= Len(delivered') /\ bytes_sent' = 0
  BY <1>0 DEF AnswerInv
<1> QED BY <1>1, <1>2, <1>3 DEF AnswerInv

\* A whole answer goes behind the others.
LEMMA AnswerSent ==
  ASSUME StreamInv, AnswerInv, RoomForAnswer, WriteResponse
  PROVE  AnswerInv'
<1>0. StreamTypes /\ asked \in Seq(Messages) /\ Len(asked) \in Nat /\ Len(delivered) \in Nat
  BY LenProperties DEF StreamInv, StreamTypes
<1>1. PICK m \in 0..Len(asked) : Position(m)
  BY DEF StreamInv
<1>2. AtResponse(m) /\ m \in Nat /\ state = "WRITE_RESPONSE"
  BY <1>1 DEF Position, WriteResponse
<1>3. PICK n \in 0..Len(asked) :
        delivered = AnswersTo(SubSeq(asked, 1, n)) /\ Len(delivered) = n * MessageSize
  BY DEF AnswerInv
<1>4. bytes_sent = 0 /\ bytes_to_send = MessageSize
  BY <1>2, Sizes DEF AnswerInv, AtResponse
<1>5. m = n
  <2>1. Len(delivered) = m * MessageSize + 0 /\ Len(delivered) = n * MessageSize + 0
    <3>1. m * MessageSize \in Nat /\ n \in Nat
      BY <1>0, <1>2, Sizes
    <3>2. n * MessageSize \in Nat
      BY <3>1, Sizes
    <3> QED BY <1>1, <1>3, <1>4, <3>1, <3>2 DEF Position
  <2>2. /\ (m * MessageSize + 0) \div MessageSize = m
        /\ (n * MessageSize + 0) \div MessageSize = n
    <3>1. n \in Nat /\ 0 \in Nat /\ 0 < MessageSize
      BY Sizes
    <3> QED BY <1>2, <3>1, Sizes, Quotient
  <2> QED BY <2>1, <2>2
<1> DEFINE answer == Expected(n + 1, asked[n + 1])
<1>6. /\ n < Len(asked) /\ p_send_buf = answer
      /\ answer \in Seq(AnswerBytes) /\ Len(answer) = MessageSize
  <2>1. n < Len(asked) /\ p_send_buf = answer
    BY <1>2, <1>5 DEF AtResponse
  <2>2. n + 1 \in 1..Len(asked) /\ n + 1 \in Nat
    BY <1>0, <2>1
  <2>3. asked[n + 1] \in Messages
    BY <1>0, <2>2, ElementOfSeq
  <2> QED BY <2>1, <2>2, <2>3, ExpectedIs
<1>7. UNCHANGED asked
  BY DEF WriteResponse, TaskSend, clientVars
<1> DEFINE o == SendAll(MessageSize)
<1>8. /\ delivered' = delivered \o SubSeq(p_send_buf, 1, o.n) /\ unread' = unread + o.n
      /\ IF o.err = "NL_IO_SUCCESS" /\ MessageSize - o.n = 0
         THEN bytes_sent' = 0
         ELSE bytes_sent' = bytes_sent + o.n
  BY <1>4 DEF WriteResponse
<1>9. CASE rst
  <2>1. o.n = 0 /\ o.err = "NL_SEND_ERR"
    BY <1>9 DEF SendAll, Outcome
  <2>2. delivered' = delivered
    <3>1. SubSeq(p_send_buf, 1, 0) = <<>>
      BY SubSeqEmpty
    <3> QED BY <1>0, <1>8, <2>1, <3>1, ConcatEmptySeq DEF StreamTypes
  <2>3. unread' = unread /\ bytes_sent' = bytes_sent
    BY <1>4, <1>8, <2>1 DEF AnswerInv
  <2> QED BY <1>7, <2>2, <2>3, AnswerFrame
<1>10. CASE ~rst
  <2>1. unread + MessageSize <= SendRoom
    BY <1>2, <1>4 DEF RoomForAnswer
  <2>2. o.n = MessageSize /\ o.err = "NL_IO_SUCCESS"
    BY <1>10, <2>1 DEF SendAll, Outcome
  <2>3. SubSeq(p_send_buf, 1, MessageSize) = answer
    BY <1>6, SubSeqFull
  <2>4. /\ delivered' = delivered \o answer /\ unread' = unread + MessageSize
        /\ bytes_sent' = 0
    <3>1. MessageSize - o.n = 0
      BY <2>2, Sizes
    <3> HIDE DEF o, answer
    <3> QED BY <1>8, <2>2, <2>3, <3>1
  <2>5. Len(delivered') = Len(delivered) + MessageSize
    <3> HIDE DEF answer
    <3> QED BY <1>0, <1>6, <2>4, ConcatProperties DEF StreamTypes
  <2>6. delivered' = AnswersTo(SubSeq(asked', 1, n + 1))
    <3>1. n \in Nat /\ n < Len(asked)
      BY <1>0, <1>6
    <3>2. AnswersTo(SubSeq(asked, 1, n + 1)) = AnswersTo(SubSeq(asked, 1, n)) \o answer
      BY <1>0, <3>1, AnswersStepAt
    <3> HIDE DEF answer
    <3> QED BY <1>3, <1>7, <2>4, <3>2
  <2>7. Len(delivered') = (n + 1) * MessageSize
    <3>1. n * MessageSize + MessageSize = (n + 1) * MessageSize
      BY <1>0, Sizes
    <3> QED BY <1>3, <2>5, <3>1
  <2>8. unread' \in Nat /\ unread' <= Len(delivered')
    BY <1>0, <2>4, <2>5, Sizes DEF AnswerInv
  <2>9. n + 1 \in 0..Len(asked')
    BY <1>0, <1>6, <1>7
  <2> QED BY <2>4, <2>6, <2>7, <2>8, <2>9 DEF AnswerInv
<1> QED BY <1>9, <1>10

LEMMA AnswerInvStep == StreamInv /\ AnswerInv /\ RoomForAnswer /\ [Next]_vars => AnswerInv'
<1> SUFFICES ASSUME StreamInv, AnswerInv, RoomForAnswer, [Next]_vars  PROVE AnswerInv'
  OBVIOUS
<1>1. CASE Client
  BY <1>1, AnswerFrame DEF Client, ClientSend, ClientRecv, ClientClose, ClientReset,
                           clientVars, sendVars
<1>2. CASE Network
  BY <1>2, AnswerFrame DEF Network, Deliver, sendVars
<1>3. CASE ReadTask
  BY <1>3, AnswerFrame DEF ReadTask, ReadSkips, ReadHeader, ReadContent, ReadOverrun, TaskRead,
                           clientVars, sendVars
<1>4. CASE SendTask
  <2>1. CASE SendSkips
    BY <2>1, AnswerFrame DEF SendSkips, TaskSend, clientVars, sendVars
  <2> QED BY <1>4, <2>1, AnswerSent DEF SendTask
<1>5. CASE Loop
  BY <1>5, AnswerFrame DEF Loop, Check, Reap, Poll, PollIn, PollHup, PollOut, WaitPool,
                           DestroyAllConns, clientVars, sendVars
<1>6. CASE LoopFault
  BY <1>6, AnswerFrame DEF LoopFault, PollFails, LoopGivesUp, WaitPoolFails, PollInFails,
                           PollOutFails, clientVars, sendVars
<1>7. CASE ShutDown \/ UNCHANGED vars
  BY <1>7, AnswerFrame DEF ShutDown, vars, clientVars, sendVars
<1> QED
  BY <1>1, <1>2, <1>3, <1>4, <1>5, <1>6, <1>7 DEF Next, Ended

LEMMA AnswerInvInit == Init => AnswerInv
<1> SUFFICES ASSUME Init  PROVE AnswerInv
  OBVIOUS
<1>1. /\ delivered = <<>> /\ asked = <<>> /\ Len(delivered) = 0 /\ Len(asked) = 0
      /\ unread = 0 /\ bytes_sent = 0
  BY EmptySeq DEF Init
<1>2. SubSeq(asked, 1, 0) = <<>>
  BY SubSeqEmpty
<1>3. delivered = AnswersTo(SubSeq(asked, 1, 0)) /\ Len(delivered) = 0 * MessageSize
  <2>1. 0 * MessageSize = 0
    BY Sizes
  <2>2. AnswersTo(SubSeq(asked, 1, 0)) = <<>>
    BY <1>2, NoMessages
  <2> QED BY <1>1, <2>1, <2>2
<1> QED BY <1>1, <1>3 DEF AnswerInv

LEMMA WholeAnswers == StreamInv /\ AnswerInv => AnswersInOrder
<1> SUFFICES ASSUME StreamInv, AnswerInv  PROVE AnswersInOrder
  OBVIOUS
<1>1. PICK n \in 0..Len(asked) : delivered = AnswersTo(SubSeq(asked, 1, n))
  BY DEF AnswerInv
<1> DEFINE q == SubSeq(asked, 1, n)
<1>2. asked \in Seq(Messages) /\ Len(asked) \in Nat
  BY LenProperties DEF StreamInv, StreamTypes
<1>3. q \in Seq(Messages) /\ Len(q) <= Len(asked) /\ \A i \in 1..Len(q) : q[i] = asked[i]
  BY <1>2, First
<1>4. delivered \in Seq(AnswerBytes)
  BY DEF StreamInv, StreamTypes
<1> HIDE DEF q
<1>5. PICK u \in Seq(AnswerBytes) : AnswersTo(asked) = AnswersTo(q) \o u
  BY <1>2, <1>3, AnswersFirst
<1>6. AnswersTo(asked) = delivered \o u
  BY <1>1, <1>5 DEF q
<1> QED BY <1>4, <1>6, PrefixOfJoin DEF AnswersInOrder

\* As long as no send is short, what the server writes is the answers to the
\* messages, whole and in order, however the stream is cut into pieces and the
\* tasks are interleaved.
THEOREM ConnectionAnswersWhole == Spec /\ []RoomForAnswer => []AnswersInOrder
BY ConnectionStream, AnswerInvInit, AnswerInvStep, WholeAnswers, PTL DEF Spec

\* There is always room if the socket takes all the answers there can be.
LEMMA AlwaysRoom ==
  ASSUME SendRoom >= MaxMessages * MessageSize, StreamInv, AnswerInv
  PROVE  RoomForAnswer
<1> SUFFICES ASSUME state = "WRITE_RESPONSE"  PROVE unread + bytes_to_send <= SendRoom
  BY DEF RoomForAnswer
<1>1. PICK n \in 0..Len(asked) : Position(n)
  BY DEF StreamInv
<1>2. AtResponse(n)
  BY <1>1 DEF Position
<1>3. /\ n \in Nat /\ n + 1 <= MaxMessages /\ MaxMessages \in Nat
      /\ Len(delivered) = n * MessageSize + bytes_sent
  <2>1. Len(asked) \in Nat /\ Len(asked) <= MaxMessages /\ MaxMessages \in Nat
    BY LenProperties, ConnectionAssumption DEF StreamInv, StreamTypes, ConnectionAssumption
  <2> QED BY <1>1, <1>2, <2>1 DEF Position, AtResponse
<1>4. /\ bytes_sent = 0 /\ bytes_to_send = MessageSize
      /\ unread \in Nat /\ unread <= Len(delivered)
  BY <1>2, Sizes DEF AnswerInv, AtResponse
<1> DEFINE sent == n * MessageSize
           all == MaxMessages * MessageSize
<1>5. sent + MessageSize <= all /\ sent \in Nat /\ all \in Nat
  <2>1. (n + 1) * MessageSize <= MaxMessages * MessageSize
    BY <1>3, Sizes
  <2>2. (n + 1) * MessageSize = n * MessageSize + MessageSize
    BY <1>3, Sizes
  <2> QED BY <1>3, <2>1, <2>2, Sizes
<1>6. Len(delivered) = sent /\ SendRoom >= all
  BY <1>3, <1>4, <1>5
<1> HIDE DEF sent, all
<1> QED BY <1>4, <1>5, <1>6, Sizes

\* So with that much room the client receives the answers to its messages in their
\* order, whole and without a foreign byte.
THEOREM ConnectionAnswersInOrder ==
  ASSUME SendRoom >= MaxMessages * MessageSize
  PROVE  Spec => []AnswersInOrder
<1>1. StreamInv /\ AnswerInv /\ [Next]_vars => AnswerInv'
  BY AlwaysRoom, AnswerInvStep
<1> QED
  BY <1>1, ConnectionStream, AnswerInvInit, WholeAnswers, PTL DEF Spec
-----------------------------------------------------------------------------
(* What the server writes when a send is cut short.                        *)

\* A byte has one place in one answer.
LEMMA OnePlace ==
  ASSUME NEW a \in Nat, NEW b \in Nat, NEW max \in Nat \ {0}, NEW r \in 1..max, NEW s \in 1..max,
         a * max + r = b * max + s
  PROVE  a = b /\ r = s
<1>1. (a * max + (r - 1)) \div max = a /\ (b * max + (s - 1)) \div max = b
  BY Quotient
<1>2. a * max \in Nat /\ b * max \in Nat
  OBVIOUS
<1> DEFINE x == a * max
           y == b * max
<1>3. x + (r - 1) = y + (s - 1)
  <2> HIDE DEF x, y
  <2>1. x \in Nat /\ y \in Nat /\ x + r = y + s
    BY <1>2 DEF x, y
  <2> QED BY <2>1
<1>4. a = b
  BY <1>1, <1>3
<1>5. r = s
  <2> HIDE DEF x, y
  <2>1. x \in Nat /\ x = y /\ x + r = y + s
    BY <1>2, <1>4 DEF x, y
  <2> QED BY <2>1
<1> QED BY <1>4, <1>5

\* Joining keeps the bytes and their order.
JoinKeeps(s, t) ==
  /\ Len(s \o t) = Len(s) + Len(t)
  /\ \A i \in 1..Len(s) : (s \o t)[i] = s[i]
  /\ \A i \in 1..Len(t) : (s \o t)[Len(s) + i] = t[i]

LEMMA JoinsKeep ==
  \A s, t \in Seq(AnswerBytes) : JoinKeeps(s, t)
<1> SUFFICES ASSUME NEW s \in Seq(AnswerBytes), NEW t \in Seq(AnswerBytes)
             PROVE  /\ Len(s \o t) = Len(s) + Len(t)
                    /\ \A i \in 1..Len(s) : (s \o t)[i] = s[i]
                    /\ \A i \in 1..Len(t) : (s \o t)[Len(s) + i] = t[i]
  BY Zenon DEF JoinKeeps
<1> DEFINE u == s \o t
<1>0. Len(s) \in Nat /\ Len(t) \in Nat
  BY LenProperties
<1>1. /\ Len(u) = Len(s) + Len(t)
      /\ \A i \in 1..(Len(s) + Len(t)) : u[i] = IF i <= Len(s) THEN s[i] ELSE t[i - Len(s)]
  BY ConcatProperties
<1> HIDE DEF u
<1>2. ASSUME NEW i \in 1..Len(s)  PROVE u[i] = s[i]
  <2>1. i \in 1..(Len(s) + Len(t)) /\ i <= Len(s)
    BY <1>0
  <2> QED BY <1>1, <2>1
<1>3. ASSUME NEW i \in 1..Len(t)  PROVE u[Len(s) + i] = t[i]
  <2> DEFINE at == Len(s) + i
  <2>1. at \in 1..(Len(s) + Len(t)) /\ ~(at <= Len(s)) /\ at - Len(s) = i
    BY <1>0
  <2> HIDE DEF at
  <2>2. u[at] = t[at - Len(s)]
    BY <1>1, <2>1
  <2> QED BY <2>1, <2>2 DEF at
<1> QED BY <1>1, <1>2, <1>3 DEF u

\* If byte j of the place of answer m is written, it is one of the first j bytes
\* of that answer.
Place(m, j) == (m - 1) * MessageSize + j
InPlace(m, j) ==
  Place(m, j) <= Len(delivered) =>
    \E i \in 1..j : delivered[Place(m, j)] = Expected(m, asked[m])[i]

LEMMA AlignedIs ==
  AnswersAligned <=>
    /\ Len(delivered) <= Len(asked) * MessageSize
    /\ \A m \in 1..Len(asked), j \in 1..MessageSize : InPlace(m, j)
BY Zenon DEF AnswersAligned, InPlace, Place

LEMMA AlignedNext ==
  AnswersAligned' <=>
    /\ Len(delivered') <= Len(asked') * MessageSize
    /\ \A m \in 1..Len(asked'), j \in 1..MessageSize : InPlace(m, j)'
BY Zenon DEF AnswersAligned, InPlace, Place

\* Only a send task writes; a message more gets the next place, which is empty.
LEMMA AlignedFrame ==
  ASSUME StreamInv, AnswersAligned, UNCHANGED delivered,
         asked' = asked \/ \E msg \in Messages : asked' = Append(asked, msg)
  PROVE  AnswersAligned'
<1>0. /\ asked \in Seq(Messages) /\ Len(asked) \in Nat /\ Len(delivered) \in Nat
      /\ Len(delivered) <= Len(asked) * MessageSize
  BY LenProperties, AlignedIs DEF StreamInv, StreamTypes
<1> DEFINE full == Len(asked) * MessageSize
<1>1. full \in Nat /\ Len(delivered) <= full
  BY <1>0, Sizes
<1>2. /\ Len(asked') \in {Len(asked), Len(asked) + 1}
      /\ \A i \in 1..Len(asked) : asked'[i] = asked[i]
  <2>1. CASE \E msg \in Messages : asked' = Append(asked, msg)
    BY <1>0, <2>1, AppendProperties
  <2> QED BY <2>1
<1>3. Len(delivered') <= Len(asked') * MessageSize
  <2>1. (Len(asked) + 1) * MessageSize = full + MessageSize
    BY <1>0, Sizes
  <2>2. Len(asked') * MessageSize \in {full, full + MessageSize}
    BY <1>2, <2>1
  <2> HIDE DEF full
  <2> QED BY <1>0, <1>1, <2>2, Sizes
<1>4. ASSUME NEW m \in 1..Len(asked'), NEW j \in 1..MessageSize  PROVE InPlace(m, j)'
  <2>1. CASE m \in 1..Len(asked)
    <3>1. asked'[m] = asked[m] /\ InPlace(m, j)
      BY <1>2, <2>1, AlignedIs
    <3> QED BY Zenon, <3>1 DEF InPlace, Place, Expected
  <2>2. CASE m \notin 1..Len(asked)
    <3>1. m = Len(asked) + 1
      BY <1>0, <1>2, <2>2
    <3>2. Place(m, j)' = full + j
      BY <1>0, <3>1 DEF Place
    <3> HIDE DEF full
    <3>3. ~(full + j <= Len(delivered))
      BY <1>0, <1>1, Sizes
    <3> QED BY <3>2, <3>3 DEF InPlace
  <2> QED BY <2>1, <2>2
<1> QED BY Zenon, <1>3, <1>4, AlignedNext

\* What a send adds are the first bytes of the answer, at its place or behind it.
LEMMA AlignedSent ==
  ASSUME StreamInv, AnswersAligned, WriteResponse
  PROVE  AnswersAligned'
<1>0. StreamTypes /\ asked \in Seq(Messages) /\ Len(asked) \in Nat
  BY LenProperties DEF StreamInv, StreamTypes
<1>1. PICK n \in 0..Len(asked) : Position(n)
  BY DEF StreamInv
<1>2. AtResponse(n) /\ n \in Nat
  BY <1>1 DEF Position, WriteResponse
<1>3. /\ bytes_to_send \in Nat \ {0} /\ bytes_sent \in Nat /\ unread \in 0..SendRoom
      /\ bytes_to_send + bytes_sent = MessageSize /\ n < Len(asked)
      /\ Len(delivered) = n * MessageSize + bytes_sent /\ delivered \in Seq(AnswerBytes)
  BY <1>0, <1>1, <1>2 DEF AtResponse, StreamTypes, Position
<1> DEFINE answer == Expected(n + 1, asked[n + 1])
           k == SendAll(bytes_to_send).n
           part == SubSeq(p_send_buf, 1, k)
           before == n * MessageSize
<1>4. k \in 0..bytes_to_send /\ k \in Nat /\ before \in Nat
  <2>1. k \in 0..bytes_to_send
    BY <1>3, Sends
  <2> HIDE DEF k
  <2> QED BY <1>2, <1>3, <2>1, Sizes
<1>5. p_send_buf = answer /\ answer \in Seq(AnswerBytes) /\ Len(answer) = MessageSize
  <2>1. n + 1 \in 1..Len(asked) /\ n + 1 \in Nat
    BY <1>0, <1>2, <1>3
  <2>2. asked[n + 1] \in Messages
    BY <1>0, <2>1, ElementOfSeq
  <2> QED BY <1>2, <2>1, <2>2, ExpectedIs DEF AtResponse
<1>6. delivered' = delivered \o part /\ asked' = asked
  BY DEF WriteResponse, TaskSend, clientVars
<1>7. part \in Seq(AnswerBytes) /\ Len(part) = k /\ \A i \in 1..k : part[i] = answer[i]
  <2> HIDE DEF k, answer
  <2>1. k \in 0..Len(p_send_buf)
    BY <1>3, <1>4, <1>5, Sizes
  <2> QED BY <1>5, <2>1, FirstParts
<1> HIDE DEF k, part, answer, before
<1>8. /\ Len(delivered') = (before + bytes_sent) + k
      /\ \A i \in 1..Len(delivered) : delivered'[i] = delivered[i]
      /\ \A i \in 1..k : delivered'[(before + bytes_sent) + i] = part[i]
  <2>1. Len(delivered) = before + bytes_sent
    BY <1>3 DEF before
  <2>2. JoinKeeps(delivered, part)
    BY Zenon, <1>3, <1>7, JoinsKeep
  <2> QED BY Zenon, <1>6, <1>7, <2>1, <2>2 DEF JoinKeeps
<1>9. Len(delivered') <= Len(asked') * MessageSize
  <2>1. (n + 1) * MessageSize <= Len(asked) * MessageSize
    BY <1>0, <1>2, <1>3, Sizes
  <2>2. (n + 1) * MessageSize = before + MessageSize
    BY <1>2, Sizes DEF before
  <2> DEFINE all == Len(asked) * MessageSize
  <2>3. all \in Nat /\ before + MessageSize <= all
    BY <1>0, <2>1, <2>2, Sizes
  <2> HIDE DEF all
  <2>4. (before + bytes_sent) + k <= all
    BY <1>3, <1>4, <2>3, Sizes
  <2> QED BY <1>6, <1>8, <2>4 DEF all
<1>10. ASSUME NEW m \in 1..Len(asked'), NEW j \in 1..MessageSize  PROVE InPlace(m, j)'
  <2>0. m \in 1..Len(asked) /\ InPlace(m, j)
    BY <1>6, AlignedIs
  <2> DEFINE at == Place(m, j)
  <2>1. at \in Nat /\ at >= 1
    <3>1. m - 1 \in Nat
      BY <1>0, <2>0
    <3>2. (m - 1) * MessageSize \in Nat
      BY <3>1, Sizes
    <3> QED BY <3>2, Sizes DEF Place
  <2>2. InPlace(m, j)' <=>
          (at <= Len(delivered') =>
             \E i \in 1..j : delivered'[at] = Expected(m, asked[m])[i])
    BY <1>6 DEF InPlace, Place, Expected
  <2>3. CASE at <= Len(delivered)
    <3>1. \E i \in 1..j : delivered[at] = Expected(m, asked[m])[i]
      BY Zenon, <2>0, <2>3 DEF InPlace
    <3>2. delivered'[at] = delivered[at]
      <4> HIDE DEF at
      <4>1. at \in 1..Len(delivered)
        BY <1>3, <2>1, <2>3, LenProperties
      <4> QED BY <1>8, <4>1
    <3> QED BY Zenon, <2>2, <3>1, <3>2
  <2>4. CASE ~(at <= Len(delivered)) /\ at <= Len(delivered')
    <3> DEFINE i == at - (before + bytes_sent)
    <3>1. i \in 1..k /\ at = (before + bytes_sent) + i
      <4> HIDE DEF at
      <4> DEFINE written == before + bytes_sent
      <4>1. Len(delivered) = written /\ written \in Nat
        BY <1>3, <1>4 DEF before
      <4>2. Len(delivered') = written + k
        BY <1>8
      <4>3. ~(at <= written) /\ at <= written + k
        BY <2>4, <4>1, <4>2
      <4> HIDE DEF written
      <4>4. at - written \in 1..k /\ at = written + (at - written)
        BY <1>4, <2>1, <4>1, <4>3
      <4> QED BY <4>4 DEF written
    <3> HIDE DEF i
    <3>2. m - 1 = n /\ j = bytes_sent + i
      <4>1. bytes_sent + i \in 1..MessageSize
        BY <1>3, <1>4, <3>1, Sizes
      <4>2. m - 1 \in Nat
        BY <1>0, <2>0
      <4>3. (m - 1) * MessageSize + j = n * MessageSize + (bytes_sent + i)
        <5>1. at = before + (bytes_sent + i)
          <6> HIDE DEF at
          <6> QED BY <1>3, <1>4, <3>1
        <5> QED BY <5>1 DEF Place, before
      <4> DEFINE a == m - 1
                 r == bytes_sent + i
      <4>4. a \in Nat /\ r \in 1..MessageSize /\ a * MessageSize + j = n * MessageSize + r
        BY <4>1, <4>2, <4>3
      <4> HIDE DEF a, r
      <4>5. a = n /\ j = r
        BY <1>2, <4>4, Sizes, OnePlace
      <4> QED BY <4>5 DEF a, r
    <3>3. m = n + 1 /\ i \in 1..j
      BY <1>2, <1>3, <1>4, <2>0, <3>1, <3>2
    <3>4. delivered'[at] = Expected(m, asked[m])[i]
      <4>1. delivered'[at] = part[i] /\ part[i] = answer[i]
        BY Zenon, <1>7, <1>8, <3>1
      <4> QED BY Zenon, <3>3, <4>1 DEF answer
    <3> QED BY Zenon, <2>2, <3>3, <3>4
  <2> QED BY Zenon, <2>2, <2>3, <2>4
<1> QED BY Zenon, <1>9, <1>10, AlignedNext

LEMMA AlignedStep == StreamInv /\ AnswersAligned /\ [Next]_vars => AnswersAligned'
<1> SUFFICES ASSUME StreamInv, AnswersAligned, [Next]_vars  PROVE AnswersAligned'
  OBVIOUS
<1>1. CASE Client
  BY <1>1, AlignedFrame DEF Client, ClientSend, ClientRecv, ClientClose, ClientReset,
                            clientVars, sendVars
<1>2. CASE Network
  BY <1>2, AlignedFrame DEF Network, Deliver, sendVars
<1>3. CASE ReadTask
  BY <1>3, AlignedFrame DEF ReadTask, ReadSkips, ReadHeader, ReadContent, ReadOverrun, TaskRead,
                            clientVars, sendVars
<1>4. CASE SendTask
  <2>1. CASE SendSkips
    BY <2>1, AlignedFrame DEF SendSkips, TaskSend, clientVars, sendVars
  <2> QED BY <1>4, <2>1, AlignedSent DEF SendTask
<1>5. CASE Loop
  BY <1>5, AlignedFrame DEF Loop, Check, Reap, Poll, PollIn, PollHup, PollOut, WaitPool,
                            DestroyAllConns, clientVars, sendVars
<1>6. CASE LoopFault
  BY <1>6, AlignedFrame DEF LoopFault, PollFails, LoopGivesUp, WaitPoolFails, PollInFails,
                            PollOutFails, clientVars, sendVars
<1>7. CASE ShutDown \/ UNCHANGED vars
  BY <1>7, AlignedFrame DEF ShutDown, vars, clientVars, sendVars
<1> QED
  BY <1>1, <1>2, <1>3, <1>4, <1>5, <1>6, <1>7 DEF Next, Ended

\* However often a send is cut short, and although nl_handle_sock_data_out then
\* starts again at the beginning of p_send_buf, the answers stay where the client
\* looks for them: MessageSize bytes for each message, in the order of the
\* messages, none with a byte of another answer.
THEOREM ConnectionAnswersAligned == Spec => []AnswersAligned
<1>1. Init => AnswersAligned
  <2> SUFFICES ASSUME Init  PROVE AnswersAligned
    OBVIOUS
  <2>1. Len(delivered) = 0 /\ Len(asked) = 0
    BY EmptySeq DEF Init
  <2>2. 0 * MessageSize = 0 /\ 1..0 = {}
    BY Sizes
  <2> QED BY <2>1, <2>2, AlignedIs
<1> QED
  BY <1>1, ConnectionStream, AlignedStep, PTL DEF Spec
-----------------------------------------------------------------------------
(* When nothing more arrives.                                              *)

\* A header that is read is read as a whole and no more; from then on bytes are
\* only asked for, and received, as long as some are missing.
LEMMA ContentOwedStep ==
  ASSUME StreamInv, ContentOwed, [Next]_vars
  PROVE  ContentOwed'
<1>0. CASE UNCHANGED <<state, bytes_read, bytes_to_read>>
  BY <1>0 DEF ContentOwed
<1>1. CASE Client
  BY <1>0, <1>1 DEF Client, ClientSend, ClientRecv, ClientClose, ClientReset, recvVars
<1>2. CASE Network
  BY <1>0, <1>2 DEF Network, Deliver
<1>3. CASE ReadTask
  <2>1. CASE ReadSkips
    BY <1>0, <2>1 DEF ReadSkips, recvVars
  <2>2. CASE ReadHeader
    <3>1. state' = "READ_CONTENT" => bytes_read' = HeaderSize
      BY <2>2 DEF ReadHeader
    <3> QED BY <3>1 DEF ContentOwed
  <2>3. CASE ReadContent
    <3>1. SUFFICES ASSUME state' = "READ_CONTENT"  PROVE bytes_to_read' # 0
      BY DEF ContentOwed
    <3>2. PICK n \in 0..Len(asked) : Position(n)
      BY DEF StreamInv
    <3>3. bytes_read = Len(p_recv_buf) /\ bytes_to_read \in Nat
      BY <2>3, <3>2 DEF Position, AtContent, ReadContent
    <3>4. PICK o \in RecvAll(bytes_to_read) :
            /\ bytes_to_read' = bytes_to_read - o.n
            /\ ~(o.err = "NL_IO_SUCCESS" /\ bytes_to_read - o.n = 0)
      BY <2>3, <3>1 DEF ReadContent
    <3>5. /\ o.n \in Nat
          /\ o.err = "NL_IO_SUCCESS" => o.n = bytes_to_read
          /\ o.err # "NL_IO_SUCCESS" => o.n < bytes_to_read
      BY <3>3, Receives DEF StreamInv
    <3> DEFINE k == o.n
    <3> HIDE DEF k
    <3>6. k \in Nat /\ k < bytes_to_read
      BY <3>3, <3>4, <3>5 DEF k
    <3> QED BY <3>3, <3>4, <3>6 DEF k
  <2>4. CASE ReadOverrun
    BY <1>0, <2>4 DEF ReadOverrun, recvVars
  <2> QED BY <1>3, <2>1, <2>2, <2>3, <2>4 DEF ReadTask
<1>4. CASE SendTask
  <2>1. CASE SendSkips
    BY <1>0, <2>1 DEF SendSkips, TaskSend
  <2>2. CASE WriteResponse
    <3>1. state' # "READ_CONTENT"
      BY <2>2 DEF WriteResponse
    <3> QED BY <3>1 DEF ContentOwed
  <2> QED BY <1>4, <2>1, <2>2 DEF SendTask
<1>5. CASE Loop
  <2>1. CASE PollHup
    BY <2>1 DEF PollHup, ContentOwed, recvVars
  <2> QED BY <1>0, <1>5, <2>1 DEF Loop, Check, Reap, Poll, PollIn, PollOut, WaitPool,
                                  DestroyAllConns, recvVars
<1>6. CASE LoopFault
  BY <1>0, <1>6 DEF LoopFault, PollFails, LoopGivesUp, WaitPoolFails, PollInFails,
                    PollOutFails, recvVars
<1>7. CASE ShutDown \/ UNCHANGED vars
  BY <1>0, <1>7 DEF ShutDown, vars, recvVars
<1> QED
  BY <1>1, <1>2, <1>3, <1>4, <1>5, <1>6, <1>7 DEF Next, Ended

\* If the next message has been sent, it is in the buffer whole, and no more than
\* that is asked for.
LEMMA QuietHolds == StreamInv /\ ContentOwed => QuietOwesNothing
<1> SUFFICES ASSUME StreamInv, ContentOwed, state \in {"READ_HEADER", "READ_CONTENT"},
                    ~rst, rcvq = <<>>, wire = <<>>
             PROVE  \/ /\ Len(delivered) = Len(asked) * MessageSize
                       /\ state = "READ_HEADER" /\ bytes_read = 0
                    \/ /\ state = "READ_CONTENT"
                       /\ asked[Len(delivered) \div MessageSize + 1].len = 0
  BY Zenon DEF QuietOwesNothing
<1>0. /\ asked \in Seq(Messages) /\ Len(asked) \in Nat
      /\ p_recv_buf \in Seq(ReadBytes) /\ bytes_read \in Nat
  BY LenProperties DEF StreamInv, StreamTypes
<1>1. PICK n \in 0..Len(asked) : Position(n)
  BY DEF StreamInv
<1>2. n \in Nat /\ n <= Len(asked)
  BY <1>0
<1> DEFINE first == StreamOf(SubSeq(asked, 1, n))
           next == Bytes(n + 1, asked[n + 1].len)
<1>3. /\ bytes_sent = 0 /\ bytes_read = Len(p_recv_buf)
      /\ first \o Pending = StreamOf(asked)
  BY <1>1 DEF Position, AtHeader, AtContent, NothingToSend, Follows
<1>4. Pending = p_recv_buf
  <2>1. p_recv_buf \o <<>> = p_recv_buf
    BY <1>0, ConcatEmptySeq
  <2> QED BY <2>1 DEF Pending
<1>5. first \in Seq(ReadBytes)
  BY <1>0, First, StreamType
<1>6. Len(delivered) = n * MessageSize
  <2>1. n * MessageSize \in Nat
    BY <1>2, Sizes
  <2>2. n * MessageSize + 0 = n * MessageSize
    BY <2>1
  <2> QED BY <1>1, <1>3, <2>2 DEF Position
<1>7. CASE n < Len(asked)
  <2>1. asked[n + 1] \in Messages
    <3>1. n + 1 \in 1..Len(asked)
      BY <1>0, <1>2, <1>7
    <3> QED BY <1>0, <3>1, ElementOfSeq
  <2> DEFINE len == asked[n + 1].len
  <2>2. len \in Nat /\ n + 1 \in Nat
    BY <1>2, <2>1, MessageLength
  <2>3. next \in Seq(ReadBytes) /\ Len(next) = HeaderSize + len
    BY <2>2, BytesAre
  <2>4. PICK u \in Seq(ReadBytes) : StreamOf(asked) = (first \o next) \o u
    BY <1>0, <1>2, <1>7, StreamFrom
  <2>5. p_recv_buf = next \o u
    <3> HIDE DEF first, next
    <3>1. RestIs(first, next, u, p_recv_buf)
      BY Zenon, <1>0, <1>5, <2>3, <2>4, SameRest
    <3> QED BY Zenon, <1>3, <1>4, <2>4, <3>1 DEF RestIs
  <2>6. bytes_read >= HeaderSize + len
    <3> HIDE DEF next, len
    <3>1. Len(p_recv_buf) = Len(next) + Len(u) /\ Len(u) \in Nat
      BY <2>3, <2>4, <2>5, ReadJoin, LenProperties
    <3> QED BY <1>3, <2>2, <2>3, <3>1, Sizes
  <2>7. state = "READ_CONTENT"
    <3>1. SUFFICES ASSUME state = "READ_HEADER"  PROVE FALSE
      OBVIOUS
    <3>2. bytes_to_read \in Nat \ {0} /\ bytes_read + bytes_to_read = HeaderSize
      BY <1>1, <3>1 DEF Position, AtHeader
    <3> HIDE DEF len
    <3> QED BY <1>0, <2>2, <2>6, <3>2, Sizes
  <2>8. len = 0
    <3>1. bytes_to_read \in Nat /\ bytes_read + bytes_to_read = HeaderSize + len
      BY <1>1, <2>7 DEF Position, AtContent
    <3> HIDE DEF len
    <3>2. bytes_to_read = 0 /\ bytes_read = HeaderSize + len
      BY <1>0, <2>2, <2>6, <3>1, Sizes
    <3>3. bytes_read = HeaderSize
      BY <2>7, <3>2 DEF ContentOwed
    <3> QED BY <2>2, <3>2, <3>3, Sizes
  <2>9. Len(delivered) \div MessageSize = n
    <3>1. (n * MessageSize + 0) \div MessageSize = n
      BY <1>2, Sizes, Quotient
    <3>2. n * MessageSize + 0 = n * MessageSize
      BY <1>2, Sizes
    <3> QED BY <1>6, <3>1, <3>2
  <2> QED BY <2>7, <2>8, <2>9
<1>8. CASE n = Len(asked)
  <2>1. state = "READ_HEADER"
    BY <1>0, <1>1, <1>8 DEF Position, AtContent
  <2>2. SubSeq(asked, 1, n) = asked
    BY <1>0, <1>8, SubSeqFull
  <2>3. first \o p_recv_buf = first
    BY <1>3, <1>4, <2>2
  <2> HIDE DEF first
  <2>4. p_recv_buf = <<>>
    BY Zenon, <1>0, <1>5, <2>3, ReadNotEmpty
  <2>5. bytes_read = 0
    BY <1>3, <2>4, EmptySeq
  <2> QED BY <1>6, <1>8, <2>1, <2>5
<1> QED BY <1>0, <1>2, <1>7, <1>8

\* A connection that is read and for which nothing is on its way owes no answer and
\* holds no part of a message, unless its next message has no content: that no read
\* task is submitted while poll reports no POLLIN does no other harm.
THEOREM ConnectionQuietOwesNothing == Spec => []QuietOwesNothing
<1>1. Init => ContentOwed
  BY DEF Init, ContentOwed
<1>2. StreamInv /\ ContentOwed /\ [Next]_vars => ContentOwed'
  BY ContentOwedStep
<1> QED
  BY <1>1, <1>2, ConnectionStream, QuietHolds, PTL DEF Spec
-----------------------------------------------------------------------------
(* Types.                                                                  *)

\* The part of TypeOK that is about the event loop and the pool.
Flags ==
  /\ fin \in BOOLEAN /\ rst \in BOOLEAN /\ freed \in BOOLEAN
  /\ g_should_shutdown \in BOOLEAN

LoopTypes ==
  /\ reads \in 0..MaxTasks /\ sends \in 0..MaxTasks
  /\ main \in {"check", "reap", "poll", "pollin", "pollhup", "pollout", "stopped",
               "cleanup", "gone", "undefined"}
  /\ cur \in [state : States, refs : Nat]
  /\ revents \subseteq {"POLLIN", "POLLHUP", "POLLOUT"}
  /\ faults \in 0..MaxFaults

LEMMA FlagsStep == Flags /\ [Next]_vars => Flags'
<1> SUFFICES ASSUME Flags, [Next]_vars  PROVE Flags'
  OBVIOUS
<1>1. CASE Client
  BY <1>1, Zenon DEF Flags, Client, ClientSend, ClientRecv, ClientClose, ClientReset, clientVars,
                     loopVars
<1>2. CASE Network
  BY <1>2, Zenon DEF Flags, Network, Deliver, loopVars
<1>3. CASE ReadTask
  BY <1>3 DEF Flags, ReadTask, ReadSkips, ReadHeader, ReadContent, ReadOverrun, TaskRead,
              clientVars, loopVars
<1>4. CASE SendTask
  BY <1>4 DEF Flags, SendTask, SendSkips, WriteResponse, TaskSend, clientVars, loopVars
<1>5. CASE Loop
  BY <1>5, Zenon DEF Flags, Loop, Check, Reap, Poll, PollIn, PollHup, PollOut, WaitPool,
                     DestroyAllConns, clientVars
<1>6. CASE LoopFault
  BY <1>6, Zenon DEF Flags, LoopFault, PollFails, LoopGivesUp, WaitPoolFails, PollInFails,
                     PollOutFails, clientVars
<1>7. CASE ShutDown
  BY <1>7, Zenon DEF Flags, ShutDown, clientVars, loopVars
<1>8. CASE UNCHANGED vars
  BY <1>8, Zenon DEF Flags, vars, clientVars, loopVars
<1> QED
  BY <1>1, <1>2, <1>3, <1>4, <1>5, <1>6, <1>7, <1>8 DEF Next, Ended

LEMMA LoopTypesFrame ==
  ASSUME LoopTypes, reads' \in {reads, reads - 1} /\ reads' \in Nat,
         sends' \in {sends, sends - 1} /\ sends' \in Nat,
         UNCHANGED <<main, cur, revents, faults>>
  PROVE  LoopTypes'
BY ConnectionAssumption DEF LoopTypes, ConnectionAssumption

LEMMA LoopTypesStep ==
  ASSUME LoopTypes, RefInv, state \in States, [Next]_vars
  PROVE  LoopTypes'
<1>0. /\ MaxTasks \in Nat /\ MaxFaults \in Nat /\ reads \in 0..MaxTasks /\ sends \in 0..MaxTasks
      /\ ref_count \in Nat
  BY ConnectionAssumption DEF LoopTypes, RefInv, ConnectionAssumption
<1>1. CASE Client \/ Network \/ ShutDown \/ UNCHANGED vars
  BY <1>0, <1>1, LoopTypesFrame
     DEF Client, ClientSend, ClientRecv, ClientClose, ClientReset, Network, Deliver, ShutDown,
         vars, loopVars
<1>2. CASE ReadTask
  <2>1. CASE TaskRead
    BY <1>0, <2>1, LoopTypesFrame DEF TaskRead, loopVars
  <2>2. CASE ReadOverrun
    BY <2>2 DEF ReadOverrun, LoopTypes
  <2> QED BY <1>2, <2>1, <2>2 DEF ReadTask, ReadSkips, ReadHeader, ReadContent
<1>3. CASE SendTask
  <2>1. TaskSend
    BY <1>3 DEF SendTask, SendSkips, WriteResponse
  <2> QED BY <1>0, <2>1, LoopTypesFrame DEF TaskSend, loopVars
<1>4. CASE Check
  BY <1>0, <1>4 DEF LoopTypes, Check
<1>5. CASE Reap \/ PollHup \/ WaitPool \/ DestroyAllConns
  BY <1>5 DEF LoopTypes, Reap, PollHup, WaitPool, DestroyAllConns
<1>6. CASE Poll
  <2>1. Events \subseteq {"POLLIN", "POLLHUP", "POLLOUT"}
    BY DEF Events
  <2> QED BY <1>6, <2>1 DEF LoopTypes, Poll
<1>7. CASE PollIn
  BY <1>0, <1>7 DEF LoopTypes, PollIn
<1>8. CASE PollOut
  BY <1>0, <1>8 DEF LoopTypes, PollOut
<1>9. CASE PollFails \/ LoopGivesUp \/ WaitPoolFails
  <2>1. /\ faults < MaxFaults /\ faults' = faults + 1 /\ main' \in {"stopped", "cleanup"}
        /\ UNCHANGED <<reads, sends, cur, revents>>
    BY <1>9 DEF PollFails, LoopGivesUp, WaitPoolFails, Fault
  <2>2. faults' \in 0..MaxFaults
    BY <1>0, <2>1 DEF LoopTypes
  <2> QED BY <2>1, <2>2 DEF LoopTypes
<1>10. CASE PollInFails
  BY <1>0, <1>10 DEF LoopTypes, PollInFails, Fault
<1>11. CASE PollOutFails
  BY <1>0, <1>11 DEF LoopTypes, PollOutFails, Fault
<1> QED
  BY <1>1, <1>2, <1>3, <1>4, <1>5, <1>6, <1>7, <1>8, <1>9, <1>10, <1>11
     DEF Next, Loop, LoopFault, Ended

\* Every field keeps its type: no counter goes below zero, those of an answer stay within
\* it, and wire, socket and buffers hold bytes of messages and of answers.
THEOREM ConnectionTypeOK == Spec => []TypeOK
<1>1. Init => Flags /\ LoopTypes
  <2> SUFFICES ASSUME Init  PROVE Flags /\ LoopTypes
    OBVIOUS
  <2>1. Flags
    BY Zenon DEF Init, Flags
  <2>2. LoopTypes
    BY ConnectionAssumption DEF Init, LoopTypes, States, ConnectionAssumption
  <2> QED BY <2>1, <2>2
<1>2. Flags /\ LoopTypes /\ RefInv /\ StreamInv /\ [Next]_vars => (Flags /\ LoopTypes)'
  BY FlagsStep, LoopTypesStep DEF StreamInv, StreamTypes
<1>3. Flags /\ LoopTypes /\ RefInv /\ StreamInv => TypeOK
  <2> SUFFICES ASSUME Flags, LoopTypes, RefInv, StreamInv  PROVE TypeOK
    OBVIOUS
  <2>1. PICK n \in 0..Len(asked) : AtClose(n)
    BY PositionCloses DEF StreamInv
  <2>2. bytes_read \in Nat /\ bytes_sent \in Nat
    BY DEF StreamInv, StreamTypes
  <2>3. bytes_to_send \in 0..MessageSize /\ bytes_sent \in 0..MessageSize
    BY <2>1, <2>2, Sizes DEF AtClose
  <2>4. bytes_to_read \in Nat
    BY <2>1 DEF AtClose
  <2> QED BY <2>2, <2>3, <2>4
          DEF TypeOK, Flags, LoopTypes, RefInv, StreamInv, StreamTypes
<1> QED
  BY <1>1, <1>2, <1>3, ConnectionRefs, ConnectionStream, PTL DEF Spec
-----------------------------------------------------------------------------
(* The end of the receive buffer.                                          *)

\* Once the client has written it, and until it is answered, the next message is the
\* same one.
LEMMA NextStays ==
  ASSUME StreamInv, NextTooLong, UNCHANGED delivered,
         asked' = asked \/ \E msg \in Messages : asked' = Append(asked, msg)
  PROVE  NextTooLong'
<1> DEFINE m == Len(delivered) \div MessageSize + 1
<1>0. asked \in Seq(Messages) /\ Len(asked) \in Nat /\ Len(delivered) \in Nat
  BY LenProperties DEF StreamInv, StreamTypes
<1>1. m \in 1..Len(asked)
  <2>1. Len(delivered) \div MessageSize \in Nat
    <3> DEFINE k == Len(delivered)
    <3>1. k \in Nat /\ MessageSize \in Nat \ {0}
      BY <1>0, Sizes
    <3> HIDE DEF k
    <3>2. k \div MessageSize \in Nat
      BY <3>1, SMT
    <3> QED BY <3>2 DEF k
  <2> QED BY <2>1, <1>0 DEF NextTooLong
<1> HIDE DEF m
<1>2. Len(asked) <= Len(asked') /\ asked'[m] = asked[m] /\ Len(asked') \in Nat
  <2>1. CASE asked' = asked
    BY <1>0, <2>1
  <2>2. CASE \E msg \in Messages : asked' = Append(asked, msg)
    BY <1>0, <1>1, <2>2, AppendProperties
  <2> QED BY <2>1, <2>2
<1>3. m' = m
  BY DEF m
<1>4. HeaderSize + asked[m].len > BufSize
  BY DEF NextTooLong, m
<1>5. m <= Len(asked') /\ HeaderSize + asked'[m].len > BufSize
  BY <1>0, <1>1, <1>2, <1>4
<1> QED BY <1>3, <1>5 DEF NextTooLong, m

\* The number of messages that are answered.
LEMMA AnsweredIs ==
  ASSUME StreamInv, NEW n \in 0..Len(asked), Position(n)
  PROVE  n \in Nat /\ Len(delivered) \div MessageSize = n
<1>1. n \in Nat /\ bytes_sent \in Nat /\ bytes_sent < MessageSize
  BY LenProperties DEF StreamInv, StreamTypes, Position
<1>2. (n * MessageSize + bytes_sent) \div MessageSize = n
  BY <1>1, Sizes, Quotient
<1> QED BY <1>1, <1>2 DEF Position

\* No more is asked for than fits, unless the message says so.
LEMMA MoreOnlyByLength ==
  ASSUME StreamInv, bytes_read + bytes_to_read > BufSize
  PROVE  NextTooLong
<1>1. PICK n \in 0..Len(asked) : Position(n)
  BY DEF StreamInv
<1>2. n < Len(asked) /\ HeaderSize + asked[n + 1].len > BufSize
  BY <1>1, PositionCloses DEF StreamInv, AtClose
<1>3. n \in Nat /\ Len(delivered) \div MessageSize = n /\ Len(asked) \in Nat
  BY <1>1, AnsweredIs, LenProperties DEF StreamInv, StreamTypes
<1> QED BY <1>2, <1>3 DEF NextTooLong

\* What led there stays known.
OverrunInv == main = "undefined" => NextTooLong

LEMMA OverrunStep ==
  ASSUME StreamInv, OverrunInv, [Next]_vars, main' = "undefined"
  PROVE  NextTooLong'
<1>1. CASE main = "undefined"
  <2>1. NextTooLong
    BY <1>1 DEF OverrunInv
  <2>2. CASE Client
    <3>1. CASE \E msg \in Messages : ClientSend(msg)
      <4>1. UNCHANGED delivered /\ \E msg \in Messages : asked' = Append(asked, msg)
        BY <3>1 DEF ClientSend, sendVars
      <4> QED BY <2>1, <4>1, NextStays
    <3>2. CASE ClientRecv \/ ClientClose \/ ClientReset
      <4>1. UNCHANGED <<asked, delivered>>
        BY <3>2 DEF ClientRecv, ClientClose, ClientReset, clientVars, sendVars
      <4> QED BY <2>1, <4>1, NextStays
    <3> QED BY <2>2, <3>1, <3>2 DEF Client
  <2>3. CASE Network \/ ShutDown \/ UNCHANGED vars
    BY <2>1, <2>3, NextStays DEF Network, Deliver, ShutDown, clientVars, sendVars, vars
  <2>4. ~ReadTask /\ ~SendTask
    BY <1>1 DEF ReadTask, ReadSkips, ReadHeader, ReadContent, ReadOverrun, SendTask, SendSkips,
                WriteResponse, TaskRead, TaskSend, Defined
  <2>5. ~Loop /\ ~LoopFault
    BY <1>1 DEF Loop, Check, Reap, Poll, PollIn, PollHup, PollOut, WaitPool, DestroyAllConns,
                LoopFault, PollFails, LoopGivesUp, WaitPoolFails, PollInFails, PollOutFails
  <2> QED BY <2>2, <2>3, <2>4, <2>5 DEF Next, Ended
<1>2. CASE main # "undefined"
  <2>1. ReadOverrun
    <3>1. CASE Client \/ Network \/ ShutDown \/ UNCHANGED vars
      BY <1>2, <3>1 DEF Client, ClientSend, ClientRecv, ClientClose, ClientReset, Network,
                        Deliver, ShutDown, loopVars, vars
    <3>2. CASE ReadTask \/ SendTask
      BY <1>2, <3>2 DEF ReadTask, ReadSkips, ReadHeader, ReadContent, SendTask, SendSkips,
                        WriteResponse, TaskRead, TaskSend, loopVars
    <3>3. CASE Loop
      BY <3>3 DEF Loop, Check, Reap, Poll, PollIn, PollHup, PollOut, WaitPool, DestroyAllConns
    <3>4. CASE LoopFault
      BY <3>4 DEF LoopFault, PollFails, LoopGivesUp, WaitPoolFails, PollInFails, PollOutFails
    <3> QED BY <3>1, <3>2, <3>3, <3>4 DEF Next, Ended
  <2>2. PICK n \in 0..Len(asked) : Position(n)
    BY DEF StreamInv
  <2>3. AtContent(n)
    BY <2>1, <2>2 DEF Position, ReadOverrun
  <2>4. bytes_read \in Nat /\ bytes_to_read \in Nat /\ bytes_read = Len(p_recv_buf)
    BY <2>3 DEF AtContent, StreamInv, StreamTypes
  <2>5. PICK o \in RecvAll(bytes_to_read) : bytes_read + o.n > BufSize
    BY <2>1 DEF ReadOverrun
  <2>6. o.n \in Nat /\ o.n <= bytes_to_read
    BY <2>4, Receives DEF StreamInv
  <2>7. bytes_read + bytes_to_read > BufSize
    <3> DEFINE k == o.n
    <3>1. k \in Nat /\ k <= bytes_to_read /\ bytes_read + k > BufSize
      BY <2>5, <2>6
    <3> HIDE DEF k
    <3> QED BY <2>4, <3>1, Sizes
  <2>8. NextTooLong
    BY <2>7, MoreOnlyByLength
  <2> QED BY <2>1, <2>8, NextStays DEF ReadOverrun, clientVars, sendVars
<1> QED BY <1>1, <1>2

\* read_content goes past the end of p_recv_buf only for a message that is itself longer
\* than the buffer, for every length a header can announce, every number of messages and
\* every way they are cut.
THEOREM ConnectionOverrunOnlyByLength == Spec => []OverrunOnlyByLength
<1>1. Init => OverrunInv
  BY DEF Init, OverrunInv
<1>2. StreamInv /\ OverrunInv /\ [Next]_vars => OverrunInv'
  BY OverrunStep DEF OverrunInv
<1>3. StreamInv /\ OverrunInv => OverrunOnlyByLength
  <2>1. StreamInv /\ bytes_read + bytes_to_read > BufSize => NextTooLong
    BY MoreOnlyByLength
  <2> QED BY <2>1 DEF OverrunInv, OverrunOnlyByLength
<1> QED
  BY <1>1, <1>2, <1>3, ConnectionStream, PTL DEF Spec
=============================================================================
