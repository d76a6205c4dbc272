--------------------------- MODULE FramingProofs ---------------------------
(***************************************************************************)
(* Theorems about Framing, for whatever is written to either reader.       *)
(***************************************************************************)
EXTENDS Framing, SequenceTheorems, TLAPS

------------------------------------------------------------------------------
(* The inductive invariant.                                                *)

\* Byte k of message i has the place <<i, k>>; the next byte that is written
\* after it has the place Successor (<<i, k>>).
MessageSize(i) == VersionByteSize + HeaderSize + Messages[i][2]
Successor(p) ==
  IF p[2] < MessageSize(p[1]) THEN <<p[1], p[2] + 1>> ELSE <<p[1] + 1, 1>>

Places == [1..Len(stream) + 1 -> Nat \X Nat]

\* at gives the place of each byte of the stream, and of the next to come: the
\* stream is a piece of what was written, whatever the reader made of it.
Placed(at) ==
  /\ \A q \in 1..Len(stream) :
       /\ at[q][1] \in 1..written
       /\ at[q][2] \in 1..MessageSize(at[q][1])
       /\ stream[q] = Serialize(at[q][1])[at[q][2]]
       /\ at[q + 1] = Successor(at[q])
  /\ ~closed => at[Len(stream) + 1] = <<written + 1, 1>>

\* The message after the last that was processed.
Due == processed[Len(processed)] + 1

\* The gateway reads a registered client's next message, from its version on,
\* as long as it reads at all.
InPlace(p) ==
  reader = "GATEWAY" /\ registered =>
    /\ pc = "version" => p = <<Due, 1>>
    /\ pc = "header" => p = <<Due, 1 + VersionByteSize>>
    /\ pc = "body" => p[1] = Due

IsInfo(i) == Messages[i][1] = INFO

\* A client is registered from its info on, until the gateway stops reading.
RegisteredInv ==
  reader = "GATEWAY" =>
    /\ registered => processed # << >> /\ pc # "end"
    /\ ~registered /\ pc # "end" => \A k \in DOMAIN processed : ~IsInfo(processed[k])

TypeOK ==
  /\ reader \in {"HUB", "GATEWAY"}
  /\ written \in 0..Len(Messages)
  /\ stream \in Seq(Nat)
  /\ arrived \in 0..Len(stream)
  /\ pc \in {"version", "header", "body", "end"}
  /\ header \in [size : Nat, command : Nat]
  /\ registered \in BOOLEAN
  /\ processed \in Seq(DOMAIN Messages)

FramingInv ==
  /\ TypeOK
  /\ RegisteredInv
  /\ NoGapAfterInfo
  /\ \E at \in Places : Placed(at) /\ InPlace(at[1])

------------------------------------------------------------------------------
(* Bytes.                                                                  *)

LEMMA MessagesType ==
  ASSUME reader \in {"HUB", "GATEWAY"}
  PROVE  /\ Messages \in Seq(MessageTypes \X (1..8))
         /\ Len(Messages) \in 1..23 /\ DOMAIN Messages = 1..Len(Messages)
         /\ DOMAIN Messages \subseteq 1..23
         /\ \A i \in DOMAIN Messages : /\ Messages[i] \in MessageTypes \X (1..8)
                                       /\ Messages[i][1] \in MessageTypes
                                       /\ Messages[i][2] \in 1..8
<1>1. Messages \in Seq(MessageTypes \X (1..8)) /\ Len(Messages) \in 1..23
  BY FramingAssumption DEF Messages
<1>2. DOMAIN Messages = 1..Len(Messages)
  BY <1>1
<1>3. \A i \in DOMAIN Messages : Messages[i] \in MessageTypes \X (1..8)
  BY <1>1
<1>4. DOMAIN Messages \subseteq 1..23
  <2> DEFINE n == Len(Messages)
  <2>1. n \in 1..23 /\ DOMAIN Messages = 1..n
    BY <1>1, <1>2
  <2> HIDE DEF n
  <2> QED BY <2>1
<1> QED BY <1>1, <1>2, <1>3, <1>4

LEMMA JoinedLength ==
  ASSUME NEW T, NEW s \in Seq(T), NEW t \in Seq(T)
  PROVE  Len(s \o t) = Len(s) + Len(t)
BY ConcatProperties

LEMMA JoinedByte ==
  ASSUME NEW T, NEW s \in Seq(T), NEW t \in Seq(T), NEW k \in 1..Len(s) + Len(t)
  PROVE  (s \o t)[k] = IF k <= Len(s) THEN s[k] ELSE t[k - Len(s)]
BY ConcatProperties

\* The bytes of a body have values of their own.
LEMMA SerializedBytes ==
  ASSUME reader \in {"HUB", "GATEWAY"}, NEW i \in DOMAIN Messages
  PROVE  /\ Serialize(i) \in Seq(Nat)
         /\ Len(Serialize(i)) = MessageSize(i)
         /\ \A k \in 1..10 : Serialize(i)[k] \in 0..8 \cup {231}
         /\ \A k \in 11..MessageSize(i) : Serialize(i)[k] = 32 + 8 * i + (k - 11)
<1>1. /\ Messages[i][2] \in 1..8 /\ Messages[i][1] \in MessageTypes
      /\ i \in 1..23
  BY MessagesType
<1>2. ASSUME NEW n \in 0..8 \cup {999}
      PROVE  /\ Bytes(n) = <<n % 256, n \div 256>>
             /\ n % 256 \in 0..8 \cup {231} /\ n \div 256 \in 0..8
  BY DEF Bytes
<1>3. Messages[i][1] \in 0..8 \cup {999}
  BY <1>1 DEF MessageTypes, ACK, MSG, INFO, KEEPALIVE, NOTIFY, REQ, BROADCAST, TEST
<1> DEFINE head == Bytes(Version) \o HeaderInfo(i)
           small == 0..8 \cup {231}
<1>4. head \in Seq(small) /\ Len(head) = 10
  <2>1. /\ Bytes(Messages[i][2]) \in Seq(small) /\ Len(Bytes(Messages[i][2])) = 2
        /\ Bytes(Messages[i][1]) \in Seq(small) /\ Len(Bytes(Messages[i][1])) = 2
        /\ Bytes(Version) \in Seq(small) /\ Len(Bytes(Version)) = 2
    <3>1. ASSUME NEW n \in 0..8 \cup {999}
          PROVE  Bytes(n) \in Seq(small) /\ Len(Bytes(n)) = 2
      <4>1. n % 256 \in small /\ n \div 256 \in small /\ Bytes(n) = <<n % 256, n \div 256>>
        BY <1>2
      <4> HIDE DEF small
      <4> QED BY <4>1
    <3>2. Messages[i][2] \in 0..8 \cup {999} /\ Version \in 0..8 \cup {999}
      BY <1>1 DEF Version
    <3> QED BY <1>3, <3>1, <3>2
  <2> DEFINE pad == <<0, 0>>
             size == Bytes(Messages[i][2])
             command == Bytes(Messages[i][1])
             ver == Bytes(Version)
  <2>2. pad \in Seq(small) /\ Len(pad) = 2
    OBVIOUS
  <2>3. HeaderInfo(i) = ((size \o pad) \o command) \o pad
    BY DEF HeaderInfo
  <2> HIDE DEF small, pad, size, command, ver
  <2>4. /\ size \in Seq(small) /\ Len(size) = 2
        /\ command \in Seq(small) /\ Len(command) = 2
        /\ ver \in Seq(small) /\ Len(ver) = 2
    BY <2>1 DEF size, command, ver
  <2>5. size \o pad \in Seq(small)
    BY <2>2, <2>4, ConcatProperties
  <2>6. Len(size \o pad) = 4
    <3>1. Len(size \o pad) = Len(size) + Len(pad)
      BY <2>2, <2>4, JoinedLength
    <3> QED BY <2>2, <2>4, <3>1
  <2>7. (size \o pad) \o command \in Seq(small)
    BY <2>4, <2>5, ConcatProperties
  <2>8. Len((size \o pad) \o command) = 6
    <3>1. Len((size \o pad) \o command) = Len(size \o pad) + Len(command)
      BY <2>4, <2>5, JoinedLength
    <3> QED BY <2>4, <2>6, <3>1
  <2>9. HeaderInfo(i) \in Seq(small)
    BY <2>2, <2>3, <2>7, ConcatProperties
  <2>10. Len(HeaderInfo(i)) = 8
    <3>1. Len(HeaderInfo(i)) = Len((size \o pad) \o command) + Len(pad)
      BY <2>2, <2>3, <2>7, JoinedLength
    <3> QED BY <2>2, <2>8, <3>1
  <2>11. ver \o HeaderInfo(i) \in Seq(small)
    BY <2>4, <2>9, ConcatProperties
  <2>12. Len(ver \o HeaderInfo(i)) = 10
    <3>1. Len(ver \o HeaderInfo(i)) = Len(ver) + Len(HeaderInfo(i))
      BY <2>4, <2>9, JoinedLength
    <3> QED BY <2>4, <2>10, <3>1
  <2> QED BY <2>11, <2>12 DEF ver
<1>5. /\ Body(i) \in Seq(Nat) /\ Len(Body(i)) = Messages[i][2]
      /\ \A k \in 1..Messages[i][2] : Body(i)[k] = 32 + 8 * i + (k - 1)
  <2> DEFINE m == Messages[i][2]
             b == [k \in 1..m |-> 32 + 8 * i + (k - 1)]
  <2>1. m \in Nat /\ i \in Nat /\ Body(i) = b
    BY <1>1 DEF Body
  <2> HIDE DEF m
  <2>2. \A k \in 1..m : 32 + 8 * i + (k - 1) \in Nat
    BY <2>1
  <2>3. b \in [1..m -> Nat]
    BY <2>2
  <2>4. b \in Seq(Nat) /\ Len(b) = m
    BY <2>1, <2>3
  <2> QED BY <2>1, <2>4 DEF m
<1>6. Serialize(i) = head \o Body(i)
  BY DEF Serialize
<1> HIDE DEF head
<1>7. /\ Serialize(i) \in Seq(Nat)
      /\ Len(Serialize(i)) = 10 + Messages[i][2]
      /\ \A k \in 1..10 : Serialize(i)[k] = head[k]
      /\ \A k \in 11..(10 + Messages[i][2]) : Serialize(i)[k] = Body(i)[k - 10]
  <2>1. head \in Seq(Nat)
    BY <1>4
  <2>2. Messages[i][2] \in Nat
    BY <1>1
  <2>3. head \o Body(i) \in Seq(Nat)
    BY <1>5, <2>1, ConcatProperties
  <2>4. Len(head \o Body(i)) = 10 + Messages[i][2]
    <3>1. Len(head \o Body(i)) = Len(head) + Len(Body(i))
      BY <1>5, <2>1, JoinedLength
    <3> QED BY <1>4, <1>5, <3>1
  <2>5. ASSUME NEW k \in 1..(10 + Messages[i][2])
        PROVE  (head \o Body(i))[k] = IF k <= 10 THEN head[k] ELSE Body(i)[k - 10]
    <3>1. k \in 1..Len(head) + Len(Body(i)) /\ Len(head) = 10
      BY <1>4, <1>5
    <3>2. (head \o Body(i))[k] = IF k <= Len(head) THEN head[k] ELSE Body(i)[k - Len(head)]
      BY <1>5, <2>1, <3>1, JoinedByte
    <3> QED BY <3>1, <3>2
  <2>6. ASSUME NEW k \in 1..10
        PROVE  Serialize(i)[k] = head[k]
    <3>1. k \in 1..(10 + Messages[i][2]) /\ k <= 10
      BY <2>2
    <3>2. (head \o Body(i))[k] = head[k]
      BY <2>5, <3>1
    <3> QED BY <1>6, <3>2
  <2>7. ASSUME NEW k \in 11..(10 + Messages[i][2])
        PROVE  Serialize(i)[k] = Body(i)[k - 10]
    <3>1. k \in 1..(10 + Messages[i][2]) /\ ~(k <= 10)
      BY <2>2
    <3>2. (head \o Body(i))[k] = Body(i)[k - 10]
      BY <2>5, <3>1
    <3> QED BY <1>6, <3>2
  <2> QED BY <1>6, <2>3, <2>4, <2>6, <2>7
<1>8. MessageSize(i) = 10 + Messages[i][2]
  BY <1>1 DEF MessageSize, VersionByteSize, HeaderSize
<1>9. \A k \in 1..10 : head[k] \in small
  BY <1>4, ElementOfSeq
<1>10. \A k \in 11..MessageSize(i) : Body(i)[k - 10] = 32 + 8 * i + (k - 11)
  <2> TAKE k \in 11..MessageSize(i)
  <2>1. k - 10 \in 1..Messages[i][2] /\ k - 10 - 1 = k - 11
    BY <1>1, <1>8
  <2> QED BY <1>5, <2>1
<1>11. \A k \in 1..10 : Serialize(i)[k] \in small
  BY <1>7, <1>9
<1>12. \A k \in 11..MessageSize(i) : Serialize(i)[k] = 32 + 8 * i + (k - 11)
  <2> TAKE k \in 11..MessageSize(i)
  <2>1. k \in 11..(10 + Messages[i][2])
    BY <1>8
  <2>2. Serialize(i)[k] = Body(i)[k - 10]
    BY <1>7, <2>1
  <2> QED BY <1>10, <2>2
<1> QED BY <1>7, <1>8, <1>11, <1>12

LEMMA Sizes ==
  ASSUME reader \in {"HUB", "GATEWAY"}, NEW i \in DOMAIN Messages
  PROVE  MessageSize(i) = 10 + Messages[i][2] /\ MessageSize(i) \in 11..18
<1>1. Messages[i][2] \in 1..8
  BY MessagesType
<1> QED BY <1>1 DEF MessageSize, VersionByteSize, HeaderSize

\* A byte of a body tells its place.
LEMMA ByteTellsPlace ==
  ASSUME reader \in {"HUB", "GATEWAY"}, NEW i \in DOMAIN Messages, NEW k \in 0..7,
         NEW j \in DOMAIN Messages, NEW l \in 1..MessageSize(j),
         Serialize(j)[l] = 32 + 8 * i + k
  PROVE  j = i /\ l = 11 + k
<1>1. i \in 1..23 /\ j \in 1..23 /\ MessageSize(j) \in 11..18
  <2>1. i \in 1..23 /\ j \in 1..23
    BY MessagesType
  <2> QED BY <2>1, Sizes
<1>2. ASSUME l \in 1..10
      PROVE  FALSE
  <2>1. Serialize(j)[l] \in 0..8 \cup {231}
    <3>1. \A n \in 1..10 : Serialize(j)[n] \in 0..8 \cup {231}
      BY SerializedBytes
    <3> QED BY <1>2, <3>1
  <2>2. 32 + 8 * i + k \in 40..223
    BY <1>1
  <2> QED BY <2>1, <2>2
<1>3. l \in 11..MessageSize(j)
  BY <1>1, <1>2
<1>4. Serialize(j)[l] = 32 + 8 * j + (l - 11)
  BY <1>3, SerializedBytes
<1>5. l - 11 \in 0..7 /\ 8 * i + k = 8 * j + (l - 11)
  BY <1>1, <1>3, <1>4
<1>6. i = j
  BY <1>1, <1>5
<1> QED BY <1>1, <1>3, <1>5, <1>6

------------------------------------------------------------------------------
(* The stream.                                                             *)

LEMMA PlaceType ==
  ASSUME TypeOK, NEW at \in Places, Placed(at), NEW q \in 1..Len(stream)
  PROVE  /\ q \in 1..Len(stream) + 1 /\ q + 1 \in 1..Len(stream) + 1
         /\ at[q] \in Nat \X Nat
         /\ at[q][1] \in DOMAIN Messages
         /\ at[q] = <<at[q][1], at[q][2]>>
<1>1. Len(stream) \in Nat /\ written \in 0..Len(Messages)
  BY DEF TypeOK
<1>2. q \in 1..Len(stream) + 1 /\ q + 1 \in 1..Len(stream) + 1
  BY <1>1
<1>3. at[q] \in Nat \X Nat
  BY <1>2 DEF Places
<1>4. at[q][1] \in 1..written
  BY DEF Placed
<1>5. DOMAIN Messages = 1..Len(Messages) /\ Len(Messages) \in Nat
  BY MessagesType DEF TypeOK
<1>6. at[q][1] \in DOMAIN Messages
  BY <1>1, <1>4, <1>5
<1> QED BY <1>2, <1>3, <1>6

\* No version and no header ends a message.
LEMMA NextPlace ==
  ASSUME TypeOK, NEW at \in Places, Placed(at), NEW q \in 1..Len(stream), NEW d, NEW k \in 0..10,
         at[q] = <<d, k>>
  PROVE  at[q + 1] = <<d, k + 1>>
<1>1. d \in DOMAIN Messages
  BY PlaceType
<1>2. k < MessageSize(d)
  <2>1. MessageSize(d) \in 11..18
    BY <1>1, Sizes DEF TypeOK
  <2> QED BY <2>1
<1>3. at[q + 1] = Successor(<<d, k>>)
  BY DEF Placed
<1> QED BY <1>2, <1>3 DEF Successor

\* Up to ten bytes from the first of a message on are of that message.
LEMMA PlacesAfter ==
  ASSUME TypeOK, NEW at \in Places, Placed(at), NEW d, NEW k \in 1..3, at[1] = <<d, k>>,
         NEW n \in 0..8, n <= Len(stream)
  PROVE  at[n + 1] = <<d, k + n>>
<1> DEFINE P(m) == m <= Len(stream) => at[m + 1] = <<d, k + m>>
<1>1. Len(stream) \in Nat
  BY DEF TypeOK
<1>2. P(0)
  OBVIOUS
<1>3. ASSUME NEW m \in 0..7, P(m)
      PROVE  P(m + 1)
  <2> SUFFICES ASSUME m + 1 <= Len(stream) PROVE at[(m + 1) + 1] = <<d, k + (m + 1)>>
    OBVIOUS
  <2>1. m + 1 \in 1..Len(stream) /\ k + m \in 0..10 /\ at[m + 1] = <<d, k + m>>
    BY <1>1, <1>3
  <2>2. at[(m + 1) + 1] = <<d, (k + m) + 1>>
    BY <2>1, NextPlace
  <2>3. (k + m) + 1 = k + (m + 1)
    OBVIOUS
  <2> QED BY <2>2, <2>3
<1>4. P(0 + 1)
  BY <1>2, <1>3
<1>5. P(1 + 1)
  BY <1>3, <1>4
<1>6. P(2 + 1)
  BY <1>3, <1>5
<1>7. P(3 + 1)
  BY <1>3, <1>6
<1>8. P(4 + 1)
  BY <1>3, <1>7
<1>9. P(5 + 1)
  BY <1>3, <1>8
<1>10. P(6 + 1)
  BY <1>3, <1>9
<1>11. P(7 + 1)
  BY <1>3, <1>10
<1>12. P(n)
  <2>1. /\ 0 + 1 = 1 /\ 1 + 1 = 2 /\ 2 + 1 = 3 /\ 3 + 1 = 4 /\ 4 + 1 = 5
        /\ 5 + 1 = 6 /\ 6 + 1 = 7 /\ 7 + 1 = 8
    OBVIOUS
  <2>2. n \in {0, 1, 2, 3, 4, 5, 6, 7, 8}
    OBVIOUS
  <2> HIDE DEF P
  <2>3. P(0) /\ P(1) /\ P(2) /\ P(3) /\ P(4) /\ P(5) /\ P(6) /\ P(7) /\ P(8)
    BY <1>2, <1>4, <1>5, <1>6, <1>7, <1>8, <1>9, <1>10, <1>11, <2>1
  <2> QED BY <2>2, <2>3
<1> QED BY <1>12

\* What is left of a sequence, and what it begins with.
LEMMA Pieces ==
  ASSUME NEW s \in Seq(Nat), NEW n \in 0..Len(s)
  PROVE  /\ SubSeq(s, n + 1, Len(s)) \in Seq(Nat)
         /\ Len(SubSeq(s, n + 1, Len(s))) = Len(s) - n
         /\ \A q \in 1..Len(s) - n : SubSeq(s, n + 1, Len(s))[q] = s[q + n]
         /\ SubSeq(s, 1, n) \in Seq(Nat)
         /\ Len(SubSeq(s, 1, n)) = n
         /\ \A q \in 1..n : SubSeq(s, 1, n)[q] = s[q]
<1>1. Len(s) \in Nat /\ n \in Nat /\ n <= Len(s) /\ \A q \in 1..Len(s) : s[q] \in Nat
  OBVIOUS
<1>2. /\ SubSeq(s, n + 1, Len(s)) \in Seq(Nat)
      /\ Len(SubSeq(s, n + 1, Len(s))) = IF n + 1 <= Len(s) THEN Len(s) - (n + 1) + 1 ELSE 0
      /\ \A q \in 1..Len(s) - (n + 1) + 1 : SubSeq(s, n + 1, Len(s))[q] = s[(n + 1) + q - 1]
  <2>1. n + 1 \in Int /\ Len(s) \in Int /\ \A q \in (n + 1)..Len(s) : s[q] \in Nat
    BY <1>1
  <2> QED BY <2>1, SubSeqProperties
<1>3. Len(SubSeq(s, n + 1, Len(s))) = Len(s) - n
  BY <1>1, <1>2
<1>4. \A q \in 1..Len(s) - n : SubSeq(s, n + 1, Len(s))[q] = s[q + n]
  <2>1. Len(s) - (n + 1) + 1 = Len(s) - n
    BY <1>1
  <2>2. \A q \in 1..Len(s) - n : (n + 1) + q - 1 = q + n
    BY <1>1
  <2> QED BY <1>2, <2>1, <2>2
<1>5. /\ SubSeq(s, 1, n) \in Seq(Nat)
      /\ Len(SubSeq(s, 1, n)) = IF 1 <= n THEN n - 1 + 1 ELSE 0
      /\ \A q \in 1..n - 1 + 1 : SubSeq(s, 1, n)[q] = s[1 + q - 1]
  <2>1. n \in Int /\ \A q \in 1..n : s[q] \in Nat
    BY <1>1
  <2> QED BY <2>1, SubSeqProperties
<1>6. Len(SubSeq(s, 1, n)) = n
  BY <1>1, <1>5
<1>7. \A q \in 1..n : SubSeq(s, 1, n)[q] = s[q]
  <2>1. n - 1 + 1 = n /\ \A q \in 1..n : 1 + q - 1 = q
    BY <1>1
  <2> QED BY <1>5, <2>1
<1> QED BY <1>2, <1>3, <1>4, <1>5, <1>6, <1>7

\* Whatever is taken from the stream, the rest of it has the places it had.
LEMMA TookPlaces ==
  ASSUME TypeOK, NEW at \in Places, Placed(at), NEW n \in 0..Len(stream),
         stream' = SubSeq(stream, n + 1, Len(stream)), UNCHANGED <<reader, written, closed>>
  PROVE  \E bt \in Places' : Placed(bt)' /\ bt[1] = at[n + 1]
<1> DEFINE m == Len(stream)
<1>1. m \in Nat /\ n \in Nat /\ n <= m /\ stream \in Seq(Nat)
  BY DEF TypeOK
<1>2. Len(stream') = m - n /\ \A q \in 1..m - n : stream'[q] = stream[q + n]
  BY <1>1, Pieces
<1> HIDE DEF m
<1>3. PICK bt \in [1..(m - n) + 1 -> Nat \X Nat] : bt = [q \in 1..(m - n) + 1 |-> at[q + n]]
  <2>1. \A q \in 1..(m - n) + 1 : q + n \in 1..m + 1
    BY <1>1
  <2>2. \A q \in 1..(m - n) + 1 : at[q + n] \in Nat \X Nat
    BY <2>1 DEF Places, m
  <2> QED BY <2>2
<1>4. \A q \in 1..(m - n) + 1 : bt[q] = at[q + n]
  BY <1>3
<1>5. bt \in Places'
  BY <1>2 DEF Places
<1>6. bt[1] = at[n + 1]
  <2>1. 1 \in 1..(m - n) + 1 /\ 1 + n = n + 1
    BY <1>1
  <2> QED BY <1>4, <2>1
<1>7. Messages' = Messages
  BY DEF Messages
<1>8. \A p : Successor(p)' = Successor(p) /\ \A i : Serialize(i)' = Serialize(i)
                                                    /\ MessageSize(i)' = MessageSize(i)
  BY <1>7 DEF Successor, Serialize, HeaderInfo, Body, MessageSize
<1>9. ASSUME NEW q \in 1..m - n
      PROVE  /\ bt[q][1] \in 1..written
             /\ bt[q][2] \in 1..MessageSize(bt[q][1])
             /\ stream'[q] = Serialize(bt[q][1])[bt[q][2]]
             /\ bt[q + 1] = Successor(bt[q])
  <2>1. q + n \in 1..m /\ q \in 1..(m - n) + 1 /\ q + 1 \in 1..(m - n) + 1
    BY <1>1
  <2>2. bt[q] = at[q + n] /\ bt[q + 1] = at[(q + n) + 1]
    <3>1. (q + 1) + n = (q + n) + 1
      BY <1>1
    <3> QED BY <1>4, <2>1, <3>1
  <2>3. stream'[q] = stream[q + n]
    BY <1>2
  <2> QED BY <2>1, <2>2, <2>3 DEF Placed, m
<1>10. ~closed => bt[Len(stream') + 1] = <<written + 1, 1>>
  <2>1. (m - n) + 1 \in 1..(m - n) + 1 /\ ((m - n) + 1) + n = m + 1
    BY <1>1
  <2>2. bt[(m - n) + 1] = at[m + 1]
    BY <1>4, <2>1
  <2> QED BY <1>2, <2>2 DEF Placed, m
<1>11. Placed(bt)'
  BY <1>2, <1>8, <1>9, <1>10 DEF Placed
<1> QED BY <1>5, <1>6, <1>11

\* A message that is written gets the places that follow.
LEMMA WritePlaces ==
  ASSUME TypeOK, NEW at \in Places, Placed(at), Write
  PROVE  \E bt \in Places' : Placed(bt)' /\ bt[1] = at[1]
<1> DEFINE m == Len(stream)
           w == written + 1
           n == MessageSize(w)
<1>1. /\ m \in Nat /\ stream \in Seq(Nat) /\ written \in Nat /\ w \in DOMAIN Messages
      /\ written' = w /\ stream' = stream \o Serialize(w)
      /\ ~closed /\ closed' = closed /\ reader' = reader
  <2>1. DOMAIN Messages = 1..Len(Messages) /\ Len(Messages) \in Nat
    BY MessagesType DEF TypeOK
  <2> QED BY <2>1 DEF TypeOK, Write, fixed
<1>2. /\ Serialize(w) \in Seq(Nat) /\ Len(Serialize(w)) = n
  BY <1>1, SerializedBytes DEF TypeOK
<1>3. n \in 11..18
  BY <1>1, Sizes DEF TypeOK
<1> HIDE DEF n, m, w
<1>4. Len(stream') = m + n
  <2>1. Len(stream') = Len(stream) + Len(Serialize(w))
    BY <1>1, <1>2, JoinedLength
  <2> QED BY <1>2, <2>1 DEF m
<1>5. ASSUME NEW q \in 1..m + n
      PROVE  stream'[q] = IF q <= m THEN stream[q] ELSE Serialize(w)[q - m]
  <2>1. q \in 1..Len(stream) + Len(Serialize(w))
    BY <1>2 DEF m
  <2> QED BY <1>1, <1>2, <2>1, JoinedByte DEF m
<1>6. PICK bt \in [1..(m + n) + 1 -> Nat \X Nat] :
        bt = [q \in 1..(m + n) + 1 |-> IF q <= m THEN at[q]
                                       ELSE IF q <= m + n THEN <<w, q - m>> ELSE <<w + 1, 1>>]
  <2>1. \A q \in 1..(m + n) + 1 : q <= m => q \in 1..m + 1
    BY <1>1
  <2>2. \A q \in 1..(m + n) + 1 : q <= m => at[q] \in Nat \X Nat
    BY <2>1 DEF Places, m
  <2>3. \A q \in 1..(m + n) + 1 : ~(q <= m) => <<w, q - m>> \in Nat \X Nat
    BY <1>1 DEF w
  <2>4. <<w + 1, 1>> \in Nat \X Nat
    BY <1>1 DEF w
  <2> QED BY <2>2, <2>3, <2>4
<1>7. /\ \A q \in 1..m : bt[q] = at[q]
      /\ \A q \in m + 1..m + n : bt[q] = <<w, q - m>>
      /\ bt[(m + n) + 1] = <<w + 1, 1>>
  <2>1. \A q \in 1..m : q \in 1..(m + n) + 1 /\ q <= m
    BY <1>1, <1>3
  <2>2. \A q \in m + 1..m + n : q \in 1..(m + n) + 1 /\ ~(q <= m) /\ q <= m + n
    BY <1>1, <1>3
  <2>3. LET q == (m + n) + 1 IN q \in 1..(m + n) + 1 /\ ~(q <= m) /\ ~(q <= m + n)
    BY <1>1, <1>3
  <2> QED BY <1>6, <2>1, <2>2, <2>3
<1>8. bt[m + 1] = <<w, 1>>
  <2>1. m + 1 \in m + 1..m + n /\ (m + 1) - m = 1
    BY <1>1, <1>3
  <2>2. bt[m + 1] = <<w, (m + 1) - m>>
    BY <1>7, <2>1
  <2> QED BY <2>1, <2>2
<1>9. at[m + 1] = <<w, 1>>
  BY <1>1 DEF Placed, m, w
<1>10. bt[1] = at[1]
  <2>1. CASE m = 0
    BY <1>8, <1>9, <2>1
  <2>2. CASE m # 0
    <3>1. 1 \in 1..m
      BY <1>1, <2>2
    <3> QED BY <1>7, <3>1
  <2> QED BY <2>1, <2>2
<1>11. Messages' = Messages
  BY <1>1 DEF Messages
<1>12. \A p : Successor(p)' = Successor(p) /\ \A i : Serialize(i)' = Serialize(i)
                                                     /\ MessageSize(i)' = MessageSize(i)
  BY <1>11 DEF Successor, Serialize, HeaderInfo, Body, MessageSize
<1>13. ASSUME NEW q \in 1..m + n
       PROVE  /\ bt[q][1] \in 1..w
              /\ bt[q][2] \in 1..MessageSize(bt[q][1])
              /\ stream'[q] = Serialize(bt[q][1])[bt[q][2]]
              /\ bt[q + 1] = Successor(bt[q])
  <2>1. CASE q <= m
    <3>1. q \in 1..m
      BY <1>1, <2>1
    <3>2. /\ at[q][1] \in 1..written
          /\ at[q][2] \in 1..MessageSize(at[q][1])
          /\ stream[q] = Serialize(at[q][1])[at[q][2]]
          /\ at[q + 1] = Successor(at[q])
      BY <3>1 DEF Placed, m
    <3>3. bt[q + 1] = at[q + 1]
      <4>1. CASE q = m
        BY <1>8, <1>9, <4>1
      <4>2. CASE q # m
        <5>1. q + 1 \in 1..m
          BY <1>1, <3>1, <4>2
        <5> QED BY <1>7, <5>1
      <4> QED BY <4>1, <4>2
    <3>4. bt[q] = at[q] /\ stream'[q] = stream[q]
      BY <1>5, <1>7, <2>1, <3>1
    <3>5. at[q][1] \in 1..w
      BY <1>1, <3>2 DEF w
    <3> QED BY <3>2, <3>3, <3>4, <3>5
  <2>2. CASE ~(q <= m)
    <3>1. q \in m + 1..m + n /\ q - m \in 1..n
      BY <1>1, <1>3, <2>2
    <3>2. bt[q] = <<w, q - m>>
      BY <1>7, <3>1
    <3>3. stream'[q] = Serialize(w)[q - m]
      BY <1>5, <2>2
    <3>4. bt[q + 1] = Successor(bt[q])
      <4>1. CASE q = m + n
        <5>1. bt[q + 1] = <<w + 1, 1>> /\ q - m = n
          BY <1>1, <1>3, <1>7, <4>1
        <5>2. Successor(<<w, n>>) = <<w + 1, 1>>
          BY <1>3 DEF Successor, n
        <5> QED BY <3>2, <5>1, <5>2
      <4>2. CASE q # m + n
        <5>1. q + 1 \in m + 1..m + n /\ (q + 1) - m = (q - m) + 1 /\ q - m < n
          BY <1>1, <1>3, <3>1, <4>2
        <5>2. bt[q + 1] = <<w, (q - m) + 1>>
          BY <1>7, <5>1
        <5>3. Successor(<<w, q - m>>) = <<w, (q - m) + 1>>
          BY <5>1 DEF Successor, n
        <5> QED BY <3>2, <5>2, <5>3
      <4> QED BY <4>1, <4>2
    <3>5. w \in 1..w
      BY <1>1 DEF w
    <3> QED BY <3>1, <3>2, <3>3, <3>4, <3>5 DEF n
  <2> QED BY <2>1, <2>2
<1>14. bt[Len(stream') + 1] = <<w + 1, 1>>
  BY <1>4, <1>7
<1>15. Placed(bt)'
  BY <1>1, <1>4, <1>12, <1>13, <1>14 DEF Placed
<1>16. bt \in Places'
  BY <1>4 DEF Places
<1> QED BY <1>10, <1>15, <1>16

\* A connection that ends cuts the stream, and nothing is written any more.
LEMMA ClosePlaces ==
  ASSUME TypeOK, NEW at \in Places, Placed(at), Close
  PROVE  \E bt \in Places' : Placed(bt)' /\ bt[1] = at[1]
<1> DEFINE m == Len(stream)
<1>1. /\ m \in Nat /\ stream \in Seq(Nat) /\ arrived \in 0..m
      /\ closed' = TRUE /\ UNCHANGED <<reader, written>>
  BY DEF TypeOK, Close, fixed
<1>2. PICK n \in arrived..m : stream' = SubSeq(stream, 1, n)
  BY DEF Close
<1>3. n \in 0..m
  BY <1>1, <1>2
<1>4. Len(stream') = n /\ \A q \in 1..n : stream'[q] = stream[q]
  BY <1>1, <1>2, <1>3, Pieces
<1>5. PICK bt \in [1..n + 1 -> Nat \X Nat] : bt = [q \in 1..n + 1 |-> at[q]]
  <2>1. \A q \in 1..n + 1 : q \in 1..m + 1
    BY <1>1, <1>3
  <2> HIDE DEF m
  <2>2. \A q \in 1..n + 1 : at[q] \in Nat \X Nat
    BY <2>1 DEF Places, m
  <2> QED BY <2>2
<1>6. \A q \in 1..n : bt[q] = at[q] /\ bt[q + 1] = at[q + 1]
  <2>1. \A q \in 1..n : q \in 1..n + 1 /\ q + 1 \in 1..n + 1
    BY <1>3
  <2> QED BY <1>5, <2>1
<1>7. bt[1] = at[1]
  <2>1. 1 \in 1..n + 1
    BY <1>3
  <2> QED BY <1>5, <2>1
<1>8. Messages' = Messages
  BY <1>1 DEF Messages
<1>9. \A p : Successor(p)' = Successor(p) /\ \A i : Serialize(i)' = Serialize(i)
                                                    /\ MessageSize(i)' = MessageSize(i)
  BY <1>8 DEF Successor, Serialize, HeaderInfo, Body, MessageSize
<1>10. \A q \in 1..n : q \in 1..m
  BY <1>1, <1>3
<1>11. ASSUME NEW q \in 1..n
       PROVE  /\ bt[q][1] \in 1..written
              /\ bt[q][2] \in 1..MessageSize(bt[q][1])
              /\ stream'[q] = Serialize(bt[q][1])[bt[q][2]]
              /\ bt[q + 1] = Successor(bt[q])
  <2>1. q \in 1..Len(stream) /\ bt[q] = at[q] /\ bt[q + 1] = at[q + 1] /\ stream'[q] = stream[q]
    BY <1>4, <1>6, <1>10
  <2> QED BY <2>1 DEF Placed
<1>13. Placed(bt)'
  BY <1>1, <1>4, <1>9, <1>11 DEF Placed
<1>12. bt \in Places'
  BY <1>4, <1>5 DEF Places
<1> QED BY <1>7, <1>12, <1>13

\* Bytes that are the body of a message are at its place: what follows is the
\* next message.
LEMMA BodyPlace ==
  ASSUME TypeOK, NEW at \in Places, Placed(at), NEW n \in 0..Len(stream),
         NEW i \in DOMAIN Messages, SubSeq(stream, 1, n) = Body(i)
  PROVE  at[1] = <<i, 11>> /\ at[n + 1] = <<i + 1, 1>>
<1> DEFINE m == Messages[i][2]
<1>1. m \in 1..8 /\ reader \in {"HUB", "GATEWAY"}
  BY MessagesType DEF TypeOK
<1>2. MessageSize(i) = 10 + m
  BY <1>1, Sizes
<1>3. stream \in Seq(Nat) /\ Len(stream) \in Nat
  BY DEF TypeOK
<1>4. Body(i) = [k \in 1..m |-> 32 + 8 * i + (k - 1)]
  BY DEF Body
<1> HIDE DEF m
<1>5. n = m
  <2>1. Len(SubSeq(stream, 1, n)) = n
    BY <1>3, Pieces
  <2>2. Len(Body(i)) = m
    BY <1>1, <1>4
  <2> QED BY <2>1, <2>2
<1>6. ASSUME NEW k \in 0..m - 1
      PROVE  at[k + 1] = <<i, 11 + k>>
  <2>1. k + 1 \in 1..m /\ k + 1 \in 1..n /\ k + 1 \in 1..Len(stream) /\ k \in 0..7
    BY <1>1, <1>3, <1>5
  <2>2. stream[k + 1] = Body(i)[k + 1]
    <3>1. SubSeq(stream, 1, n)[k + 1] = stream[k + 1]
      BY <1>3, <2>1, Pieces
    <3> QED BY <3>1
  <2>3. Body(i)[k + 1] = 32 + 8 * i + k
    <3>1. (k + 1) - 1 = k
      OBVIOUS
    <3> QED BY <1>4, <2>1, <3>1
  <2> DEFINE j == at[k + 1][1]
             l == at[k + 1][2]
  <2>4. /\ j \in DOMAIN Messages /\ at[k + 1] = <<j, l>>
        /\ l \in 1..MessageSize(j) /\ stream[k + 1] = Serialize(j)[l]
    BY <2>1, PlaceType DEF Placed
  <2> HIDE DEF j, l
  <2>5. Serialize(j)[l] = 32 + 8 * i + k
    BY <2>2, <2>3, <2>4
  <2>6. j = i /\ l = 11 + k
    BY <1>1, <2>1, <2>4, <2>5, ByteTellsPlace
  <2> QED BY <2>4, <2>6
<1>7. at[1] = <<i, 11>>
  <2>1. 0 \in 0..m - 1 /\ 0 + 1 = 1 /\ 11 + 0 = 11
    BY <1>1
  <2> QED BY <1>6, <2>1
<1>8. at[n + 1] = <<i + 1, 1>>
  <2>1. m - 1 \in 0..m - 1 /\ (m - 1) + 1 = n /\ 11 + (m - 1) = 10 + m /\ n \in 1..Len(stream)
    BY <1>1, <1>3, <1>5
  <2>2. at[n] = <<i, 10 + m>>
    BY <1>6, <2>1
  <2>3. at[n + 1] = Successor(<<i, 10 + m>>)
    BY <2>1, <2>2 DEF Placed
  <2>4. ~(10 + m < MessageSize(i))
    BY <1>1, <1>2
  <2> QED BY <2>3, <2>4 DEF Successor
<1> QED BY <1>7, <1>8

------------------------------------------------------------------------------
(* The steps.                                                              *)

\* What the reader takes is there.
LEMMA TookType ==
  ASSUME TypeOK, NEW n \in 0..arrived, Took(n)
  PROVE  /\ n \in 0..Len(stream)
         /\ stream' \in Seq(Nat) /\ arrived' \in 0..Len(stream')
<1>1. /\ stream \in Seq(Nat) /\ Len(stream) \in Nat /\ arrived \in 0..Len(stream)
      /\ stream' = SubSeq(stream, n + 1, Len(stream)) /\ arrived' = arrived - n
  BY DEF TypeOK, Took
<1>2. n \in 0..Len(stream)
  BY <1>1
<1>3. stream' \in Seq(Nat) /\ Len(stream') = Len(stream) - n
  BY <1>1, <1>2, Pieces
<1>4. arrived' \in 0..Len(stream')
  BY <1>1, <1>2, <1>3
<1> QED BY <1>2, <1>3, <1>4

\* An exception leaves the gateway with no registered client to read for.
LEMMA FailedKeeps ==
  ASSUME TypeOK, RegisteredInv, pc # "end", Failed, UNCHANGED <<reader, processed>>
  PROVE  /\ pc' \in {"version", "end"} /\ registered' \in BOOLEAN
         /\ reader = "GATEWAY" => ~registered'
         /\ RegisteredInv'
<1>1. Messages' = Messages
  BY DEF Messages
<1>2. /\ pc' \in {"version", "end"} /\ registered' \in BOOLEAN
      /\ reader = "GATEWAY" => ~registered'
      /\ reader = "GATEWAY" /\ registered => pc' = "end"
  BY DEF Failed, TypeOK
<1>3. \A i : IsInfo(i)' = IsInfo(i)
  BY <1>1 DEF IsInfo
<1> QED BY <1>2, <1>3 DEF RegisteredInv

\* A step that hands no message to a handler loses none.
LEMMA NoGapKept ==
  ASSUME NoGapAfterInfo, UNCHANGED <<reader, processed>>
  PROVE  NoGapAfterInfo'
<1>1. Messages' = Messages
  BY DEF Messages
<1> QED BY <1>1 DEF NoGapAfterInfo

\* The writer and TCP leave the reader alone.
LEMMA OthersKeep ==
  ASSUME FramingInv, Write \/ Arrive \/ Close
  PROVE  FramingInv'
<1>0. TypeOK /\ RegisteredInv /\ NoGapAfterInfo
  BY DEF FramingInv
<1>1. UNCHANGED <<reader, pc, header, registered, processed>>
  BY DEF Write, Arrive, Close, fixed
<1>2. Messages' = Messages
  BY <1>1 DEF Messages
<1>3. NoGapAfterInfo'
  BY <1>0, <1>1, NoGapKept
<1>4. RegisteredInv'
  BY <1>0, <1>1, <1>2 DEF RegisteredInv, IsInfo
<1>5. TypeOK'
  <2>1. /\ stream' \in Seq(Nat) /\ written' \in 0..Len(Messages)
        /\ arrived' \in 0..Len(stream')
    <3>0. /\ stream \in Seq(Nat) /\ Len(stream) \in Nat /\ arrived \in 0..Len(stream)
          /\ written \in 0..Len(Messages)
      BY <1>0 DEF TypeOK
    <3>1. CASE Write
      <4>1. written + 1 \in DOMAIN Messages /\ written' \in 0..Len(Messages)
        <5>1. DOMAIN Messages = 1..Len(Messages) /\ Len(Messages) \in Nat
          BY <1>0, MessagesType DEF TypeOK
        <5> QED BY <3>0, <3>1, <5>1 DEF Write
      <4>2. Serialize(written + 1) \in Seq(Nat)
        BY <1>0, <4>1, SerializedBytes DEF TypeOK
      <4>3. stream' \in Seq(Nat)
        BY <3>0, <3>1, <4>2, ConcatProperties DEF Write
      <4>4. Len(stream') = Len(stream) + Len(Serialize(written + 1))
        BY <3>0, <3>1, <4>2, JoinedLength DEF Write
      <4>5. Len(Serialize(written + 1)) \in Nat /\ arrived' = arrived
        BY <3>1, <4>2 DEF Write
      <4> QED BY <3>0, <4>1, <4>3, <4>4, <4>5
    <3>2. CASE Arrive
      BY <3>0, <3>2 DEF Arrive
    <3>3. CASE Close
      <4>1. PICK n \in arrived..Len(stream) : stream' = SubSeq(stream, 1, n)
        BY <3>3 DEF Close
      <4>2. n \in 0..Len(stream) /\ arrived \in 0..n
        BY <3>0, <4>1
      <4>3. stream' \in Seq(Nat) /\ Len(stream') = n
        BY <3>0, <4>1, <4>2, Pieces
      <4> QED BY <3>0, <3>3, <4>2, <4>3 DEF Close
    <3> QED BY <3>1, <3>2, <3>3
  <2> QED BY <1>0, <1>1, <1>2, <2>1 DEF TypeOK
<1>6. PICK at \in Places : Placed(at) /\ InPlace(at[1])
  BY DEF FramingInv
<1>7. \E bt \in Places' : Placed(bt)' /\ bt[1] = at[1]
  <2>1. CASE Arrive
    <3>1. UNCHANGED <<stream, written, closed>>
      BY <2>1 DEF Arrive
    <3>2. Places' = Places /\ Placed(at)'
      BY <1>2, <1>6, <3>1 DEF Places, Placed, Successor, MessageSize, Serialize, HeaderInfo, Body
    <3> QED BY <1>6, <3>2
  <2> QED BY <1>0, <1>6, <2>1, WritePlaces, ClosePlaces
<1>8. PICK bt \in Places' : Placed(bt)' /\ bt[1] = at[1]
  BY <1>7
<1>9. InPlace(bt[1])'
  BY <1>1, <1>6, <1>8 DEF InPlace, Due
<1> QED BY <1>3, <1>4, <1>5, <1>8, <1>9 DEF FramingInv

\* The reader's steps take the first n bytes and keep what was written.
LEMMA ReadKeeps ==
  ASSUME FramingInv, NEW n \in 0..arrived, Took(n), UNCHANGED <<fixed, written, closed, processed>>,
         pc' \in {"version", "header", "body", "end"}, registered' \in BOOLEAN,
         header' \in [size : Nat, command : Nat], RegisteredInv',
         \A at \in Places : Placed(at) /\ InPlace(at[1]) => InPlace(at[n + 1])'
  PROVE  FramingInv'
<1>0. TypeOK /\ NoGapAfterInfo /\ UNCHANGED <<reader, written, closed, processed>>
  BY DEF FramingInv, fixed
<1>1. Messages' = Messages
  BY <1>0 DEF Messages
<1>2. n \in 0..Len(stream) /\ stream' \in Seq(Nat) /\ arrived' \in 0..Len(stream')
  BY <1>0, TookType
<1>3. TypeOK'
  BY <1>0, <1>1, <1>2 DEF TypeOK
<1>4. NoGapAfterInfo'
  BY <1>0, NoGapKept
<1>5. PICK at \in Places : Placed(at) /\ InPlace(at[1])
  BY DEF FramingInv
<1>6. PICK bt \in Places' : Placed(bt)' /\ bt[1] = at[n + 1]
  BY <1>0, <1>2, <1>5, TookPlaces DEF Took
<1>7. InPlace(bt[1])'
  BY <1>5, <1>6
<1> QED BY <1>3, <1>4, <1>6, <1>7 DEF FramingInv

LEMMA VersionKeeps == FramingInv /\ ReadVersion => FramingInv'
<1> SUFFICES ASSUME FramingInv, ReadVersion PROVE FramingInv'
  OBVIOUS
<1>0. /\ TypeOK /\ RegisteredInv /\ arrived \in 0..Len(stream) /\ Len(stream) \in Nat
      /\ pc = "version" /\ arrived >= 2 /\ Took(2)
      /\ UNCHANGED <<fixed, written, closed, header, processed>>
      /\ reader' = reader
  BY DEF FramingInv, TypeOK, ReadVersion, VersionByteSize, fixed
<1>1. 2 \in 0..arrived
  BY <1>0
<1>2. \/ pc' = "header" /\ registered' = registered
      \/ Failed
  BY DEF ReadVersion
<1>3. /\ pc' \in {"version", "header", "end"} /\ registered' \in BOOLEAN
      /\ RegisteredInv'
  <2>1. CASE Failed
    BY <1>0, <2>1, FailedKeeps
  <2>2. CASE pc' = "header" /\ registered' = registered
    <3>1. Messages' = Messages
      BY <1>0 DEF Messages
    <3> QED BY <1>0, <2>2, <3>1 DEF RegisteredInv, TypeOK, IsInfo
  <2> QED BY <1>2, <2>1, <2>2
<1>4. ASSUME NEW at \in Places, Placed(at), InPlace(at[1])
      PROVE  InPlace(at[2 + 1])'
  <2>1. CASE Failed
    BY <1>0, <2>1, FailedKeeps DEF InPlace
  <2>2. CASE pc' = "header" /\ registered' = registered
    <3> SUFFICES ASSUME reader = "GATEWAY", registered
                 PROVE  at[2 + 1] = <<Due, 1 + VersionByteSize>>
      BY <1>0, <2>2 DEF InPlace, Due
    <3>1. at[1] = <<Due, 1>>
      BY <1>0, <1>4 DEF InPlace
    <3>2. 2 <= Len(stream)
      BY <1>0
    <3>3. at[2 + 1] = <<Due, 1 + 2>>
      BY <1>0, <1>4, <3>1, <3>2, PlacesAfter
    <3> QED BY <3>3 DEF VersionByteSize
  <2> QED BY <1>2, <2>1, <2>2
<1>5. header' \in [size : Nat, command : Nat]
  BY <1>0 DEF TypeOK
<1> QED BY <1>0, <1>1, <1>3, <1>4, <1>5, ReadKeeps

LEMMA EndKeeps == FramingInv /\ ReadEnd => FramingInv'
<1> SUFFICES ASSUME FramingInv, ReadEnd PROVE FramingInv'
  OBVIOUS
<1>0. /\ TypeOK /\ RegisteredInv /\ arrived \in Nat
      /\ pc = "version" /\ Took(arrived) /\ Failed
      /\ UNCHANGED <<fixed, written, closed, header, processed>>
      /\ reader' = reader
  BY DEF FramingInv, TypeOK, ReadEnd, fixed
<1>1. /\ pc' \in {"version", "end"} /\ registered' \in BOOLEAN
      /\ RegisteredInv' /\ (reader = "GATEWAY" => ~registered')
  BY <1>0, FailedKeeps
<1>2. \A p : InPlace(p)'
  BY <1>0, <1>1 DEF InPlace
<1>3. header' \in [size : Nat, command : Nat] /\ arrived \in 0..arrived
  BY <1>0 DEF TypeOK
<1> QED BY <1>0, <1>1, <1>2, <1>3, ReadKeeps

\* The bytes of a header, with those that are missing, are numbers.
LEMMA HeaderType ==
  ASSUME TypeOK, NEW n \in 0..arrived,
         NEW b, b = [k \in 1..HeaderSize |-> IF k <= n THEN stream[k] ELSE 0]
  PROVE  ToUInt16(b) \in Nat /\ ToUInt16(SubSeq(b, 5, 6)) \in Nat
<1>1. \A k \in 1..8 : b[k] \in Nat
  <2>1. stream \in Seq(Nat) /\ Len(stream) \in Nat /\ arrived \in 0..Len(stream)
    BY DEF TypeOK
  <2>2. ASSUME NEW k \in 1..8
        PROVE  b[k] \in Nat
    <3>1. b[k] = IF k <= n THEN stream[k] ELSE 0
      BY DEF HeaderSize
    <3>2. k <= n => k \in 1..Len(stream)
      BY <2>1
    <3>3. k <= n => stream[k] \in Nat
      BY <2>1, <3>2
    <3> QED BY <3>1, <3>3
  <2> QED BY <2>2
<1>2. \A i \in 1..6 - 5 + 1 : SubSeq(b, 5, 6)[i] = b[5 + i - 1]
  <2>1. \A k \in 5..6 : b[k] \in Nat
    BY <1>1
  <2> QED BY <2>1, SubSeqProperties
<1>3. SubSeq(b, 5, 6)[1] = b[5] /\ SubSeq(b, 5, 6)[2] = b[6]
  <2>1. 1 \in 1..6 - 5 + 1 /\ 2 \in 1..6 - 5 + 1 /\ 5 + 1 - 1 = 5 /\ 5 + 2 - 1 = 6
    OBVIOUS
  <2> QED BY <1>2, <2>1
<1>4. b[1] \in Nat /\ b[2] \in Nat /\ b[5] \in Nat /\ b[6] \in Nat
  BY <1>1
<1>5. /\ ToUInt16(b) = b[1] + 256 * b[2]
      /\ ToUInt16(SubSeq(b, 5, 6)) = b[5] + 256 * b[6]
  BY <1>3 DEF ToUInt16
<1>6. \A x, y \in Nat : x + 256 * y \in Nat
  OBVIOUS
<1>7. b[1] + 256 * b[2] \in Nat
  BY <1>4, <1>6
<1>8. b[5] + 256 * b[6] \in Nat
  BY <1>4, <1>6
<1> QED BY <1>5, <1>7, <1>8

LEMMA HeaderKeeps == FramingInv /\ ReadHeader => FramingInv'
<1> SUFFICES ASSUME FramingInv, ReadHeader PROVE FramingInv'
  OBVIOUS
<1>0a. PICK n \in 0..arrived : n = HeaderRead /\ n \in 0..8
  <2>1. arrived \in Nat
    BY DEF FramingInv, TypeOK
  <2> QED BY <2>1 DEF HeaderRead, HeaderSize
<1> DEFINE b == [k \in 1..HeaderSize |-> IF k <= n THEN stream[k] ELSE 0]
           command == ToUInt16(SubSeq(b, 5, 6))
<1>0. /\ TypeOK /\ RegisteredInv /\ arrived \in 0..Len(stream) /\ Len(stream) \in Nat
      /\ pc = "header" /\ Took(n)
      /\ header' = [size |-> ToUInt16(b), command |-> command]
      /\ UNCHANGED <<fixed, written, closed, processed>>
      /\ reader' = reader
  BY <1>0a DEF FramingInv, TypeOK, ReadHeader, fixed
<1>1. n \in 0..arrived /\ n \in 0..8
  BY <1>0a
<1>2. \/ pc' = "body" /\ registered' = registered
      \/ Failed
  BY DEF ReadHeader
<1>3. /\ pc' \in {"version", "body", "end"} /\ registered' \in BOOLEAN
      /\ RegisteredInv'
  <2>1. CASE Failed
    BY <1>0, <2>1, FailedKeeps
  <2>2. CASE pc' = "body" /\ registered' = registered
    <3>1. Messages' = Messages
      BY <1>0 DEF Messages
    <3> QED BY <1>0, <2>2, <3>1 DEF RegisteredInv, TypeOK, IsInfo
  <2> QED BY <1>2, <2>1, <2>2
<1>4. header' \in [size : Nat, command : Nat]
  <2>1. ToUInt16(b) \in Nat /\ command \in Nat
    BY <1>0, <1>1, HeaderType
  <2> HIDE DEF b, command
  <2> QED BY <1>0, <2>1
<1> HIDE DEF b, command
<1>5. ASSUME NEW at \in Places, Placed(at), InPlace(at[1])
      PROVE  InPlace(at[n + 1])'
  <2>1. CASE Failed
    BY <1>0, <2>1, FailedKeeps DEF InPlace
  <2>2. CASE pc' = "body" /\ registered' = registered
    <3>1. ASSUME reader = "GATEWAY", registered
          PROVE  at[n + 1][1] = Due
      <4>1. at[1] = <<Due, 3>>
        BY <1>0, <1>5, <3>1 DEF InPlace, VersionByteSize
      <4>2. n <= Len(stream)
        BY <1>0, <1>1
      <4>3. at[n + 1] = <<Due, 3 + n>>
        BY <1>0, <1>1, <1>5, <4>1, <4>2, PlacesAfter
      <4> QED BY <4>3
    <3>2. Due' = Due
      BY <1>0 DEF Due
    <3>3. reader' = "GATEWAY" /\ registered' => at[n + 1][1] = Due'
      BY <1>0, <2>2, <3>1, <3>2
    <3> QED BY <2>2, <3>3 DEF InPlace
  <2> QED BY <1>2, <2>1, <2>2
<1> QED BY <1>0, <1>1, <1>3, <1>4, <1>5, ReadKeeps

\* A body that is the body of message i is at its place; on the gateway, with a
\* registered client, that message is the one that is due.
LEMMA BodyKeeps == FramingInv /\ ReadBody => FramingInv'
<1> SUFFICES ASSUME FramingInv, ReadBody PROVE FramingInv'
  OBVIOUS
<1>0. /\ TypeOK /\ RegisteredInv /\ NoGapAfterInfo
      /\ arrived \in 0..Len(stream) /\ Len(stream) \in Nat /\ header.size \in Nat
      /\ pc = "body" /\ UNCHANGED <<fixed, written, closed, header>>
      /\ UNCHANGED <<reader, written, closed>>
      /\ processed \in Seq(DOMAIN Messages) /\ registered \in BOOLEAN
  BY DEF FramingInv, TypeOK, ReadBody, fixed
<1>1. PICK n \in 0..arrived :
        n = IF arrived < header.size THEN arrived ELSE ReadSize(header.size)
  BY <1>0 DEF ReadSize
<1>2. /\ Took(n)
      /\ \/ \E i \in DOMAIN Messages :
              /\ Deserialized(SubSeq(stream, 1, n), i)
              /\ processed' = Append(processed, i)
              /\ registered' = (registered \/ header.command = INFO)
              /\ pc' = "version"
         \/ Failed /\ UNCHANGED processed
  BY <1>1 DEF ReadBody
<1>3. n \in 0..Len(stream)
  BY <1>0
<1>4. Messages' = Messages
  BY <1>0 DEF Messages
<1>5. CASE Failed /\ UNCHANGED processed
  <2>1. /\ pc' \in {"version", "end"} /\ registered' \in BOOLEAN
        /\ RegisteredInv' /\ (reader = "GATEWAY" => ~registered')
    BY <1>0, <1>5, FailedKeeps
  <2>2. \A p : InPlace(p)'
    BY <1>0, <2>1 DEF InPlace
  <2>3. header' \in [size : Nat, command : Nat]
    BY <1>0 DEF TypeOK
  <2> QED BY <1>0, <1>2, <1>5, <2>1, <2>2, <2>3, ReadKeeps
<1>6. CASE \E i \in DOMAIN Messages :
             /\ Deserialized(SubSeq(stream, 1, n), i)
             /\ processed' = Append(processed, i)
             /\ registered' = (registered \/ header.command = INFO)
             /\ pc' = "version"
  <2>1. PICK i \in DOMAIN Messages :
          /\ SubSeq(stream, 1, n) = Body(i) /\ header.command = Messages[i][1]
          /\ processed' = Append(processed, i)
          /\ registered' = (registered \/ header.command = INFO)
          /\ pc' = "version"
    BY <1>6 DEF Deserialized
  <2>2. PICK at \in Places : Placed(at) /\ InPlace(at[1])
    BY DEF FramingInv
  <2>3. at[1] = <<i, 11>> /\ at[n + 1] = <<i + 1, 1>>
    BY <1>0, <1>3, <2>1, <2>2, BodyPlace
  <2>4. /\ processed' \in Seq(DOMAIN Messages) /\ Len(processed') = Len(processed) + 1
        /\ processed'[Len(processed) + 1] = i
        /\ \A k \in 1..Len(processed) : processed'[k] = processed[k]
    BY <1>0, <2>1, AppendProperties
  <2>5. Len(processed) \in Nat /\ i \in Nat
    BY <1>0, MessagesType DEF TypeOK
  <2>6. registered' = (registered \/ IsInfo(i)) /\ registered' \in BOOLEAN
    BY <1>0, <2>1 DEF IsInfo
  <2>7. reader = "GATEWAY" /\ registered => processed # << >> /\ i = Due
    BY <1>0, <2>2, <2>3 DEF InPlace, RegisteredInv
  <2>8. Due' = i + 1
    BY <2>4 DEF Due
  <2>9. RegisteredInv'
    <3>1. processed' # << >>
      <4>1. Len(processed') # 0
        BY <2>4, <2>5
      <4> QED BY <4>1
    <3>2. ASSUME reader = "GATEWAY", ~registered', NEW k \in DOMAIN processed'
          PROVE  ~IsInfo(processed'[k])
      <4>1. ~registered /\ ~IsInfo(i) /\ pc # "end"
        BY <1>0, <2>6, <3>2
      <4>2. k \in 1..Len(processed) \/ k = Len(processed) + 1
        BY <2>4, <2>5
      <4>3. \A j \in 1..Len(processed) : j \in DOMAIN processed
        BY <1>0
      <4> QED BY <1>0, <2>4, <3>2, <4>1, <4>2, <4>3 DEF RegisteredInv
    <3>3. \A j : IsInfo(j)' = IsInfo(j)
      BY <1>4 DEF IsInfo
    <3> QED BY <1>0, <2>1, <3>1, <3>2, <3>3 DEF RegisteredInv
  <2>10. NoGapAfterInfo'
    <3> SUFFICES ASSUME reader = "GATEWAY", NEW q \in 1..Len(processed') - 1, NEW k \in 1..q,
                        IsInfo(processed'[k])
                 PROVE  processed'[q + 1] = processed'[q] + 1
      BY <1>0, <1>4 DEF NoGapAfterInfo, IsInfo
    <3>1. /\ q \in 1..Len(processed) /\ k \in 1..Len(processed) /\ k \in DOMAIN processed
          /\ processed'[k] = processed[k] /\ processed'[q] = processed[q]
      <4>1. q \in 1..Len(processed) /\ k \in 1..Len(processed)
        BY <2>4, <2>5
      <4> QED BY <1>0, <2>4, <4>1
    <3>2. registered /\ IsInfo(processed[k])
      BY <1>0, <3>1 DEF RegisteredInv
    <3>3. CASE q = Len(processed)
      <4>1. processed'[q + 1] = i /\ i = processed[q] + 1
        BY <2>4, <2>7, <3>2, <3>3 DEF Due
      <4> QED BY <3>1, <4>1
    <3>4. CASE q # Len(processed)
      <4>1. q \in 1..Len(processed) - 1 /\ q + 1 \in 1..Len(processed)
        BY <2>5, <3>1, <3>4
      <4>2. processed[q + 1] = processed[q] + 1
        BY <1>0, <3>2, <4>1 DEF NoGapAfterInfo, IsInfo
      <4> QED BY <2>4, <3>1, <4>1, <4>2
    <3> QED BY <3>3, <3>4
  <2>11. TypeOK'
    <3>1. stream' \in Seq(Nat) /\ arrived' \in 0..Len(stream')
      BY <1>0, <1>2, TookType
    <3> QED BY <1>0, <1>4, <2>1, <2>4, <2>6, <3>1 DEF TypeOK
  <2>12. PICK bt \in Places' : Placed(bt)' /\ bt[1] = at[n + 1]
    BY <1>0, <1>2, <1>3, <2>2, TookPlaces DEF Took
  <2>13. InPlace(bt[1])'
    BY <2>1, <2>3, <2>8, <2>12 DEF InPlace
  <2> QED BY <2>9, <2>10, <2>11, <2>12, <2>13 DEF FramingInv
<1> QED BY <1>2, <1>5, <1>6

------------------------------------------------------------------------------
(* The theorems.                                                           *)

\* Nothing was written and nothing was read.
LEMMA InitEstablishes == Init => FramingInv
<1> SUFFICES ASSUME Init PROVE FramingInv
  OBVIOUS
<1>1. reader \in {"HUB", "GATEWAY"} /\ stream = << >> /\ Len(stream) = 0 /\ written = 0
  BY DEF Init
<1>2. TypeOK
  <2>1. 0 \in 0..Len(Messages)
    BY <1>1, MessagesType
  <2>2. stream \in Seq(Nat) /\ processed \in Seq(DOMAIN Messages)
    BY DEF Init
  <2>3. pc \in {"version", "header", "body", "end"} /\ registered \in BOOLEAN
    BY DEF Init
  <2>4. header \in [size : Nat, command : Nat]
    BY DEF Init
  <2>5. arrived \in 0..Len(stream)
    BY <1>1 DEF Init
  <2> QED BY <1>1, <2>1, <2>2, <2>3, <2>4, <2>5 DEF TypeOK
<1>3. RegisteredInv /\ NoGapAfterInfo
  BY DEF Init, RegisteredInv, NoGapAfterInfo
<1>4. PICK at \in Places : at[1] = <<1, 1>>
  <2>1. PICK at \in [1..1 -> Nat \X Nat] : at = [q \in 1..1 |-> <<1, 1>>]
    OBVIOUS
  <2>2. at[1] = <<1, 1>> /\ Len(stream) + 1 = 1
    BY <1>1, <2>1
  <2> QED BY <2>2 DEF Places
<1>5. Placed(at)
  BY <1>1, <1>4 DEF Placed
<1>6. InPlace(at[1])
  BY DEF Init, InPlace
<1> QED BY <1>2, <1>3, <1>5, <1>6 DEF FramingInv

LEMMA StepKeeps == FramingInv /\ [Next]_vars => FramingInv'
<1> SUFFICES ASSUME FramingInv, [Next]_vars PROVE FramingInv'
  OBVIOUS
<1>1. CASE Write \/ Arrive \/ Close
  BY <1>1, OthersKeep
<1>2. CASE Deserialize
  BY <1>2, VersionKeeps, HeaderKeeps, BodyKeeps, EndKeeps DEF Deserialize
<1>3. CASE UNCHANGED vars
  <2>1. /\ UNCHANGED <<reader, written, stream, arrived, closed, pc, header, registered, processed>>
        /\ Messages' = Messages
    BY <1>3 DEF vars, fixed, Messages
  <2>2. TypeOK' /\ RegisteredInv' /\ NoGapAfterInfo'
    BY <2>1, NoGapKept DEF FramingInv, TypeOK, RegisteredInv, IsInfo
  <2>3. PICK at \in Places : Placed(at) /\ InPlace(at[1])
    BY DEF FramingInv
  <2>4. Places' = Places /\ Placed(at)'
    BY <2>1, <2>3 DEF Places, Placed, Successor, MessageSize, Serialize, HeaderInfo, Body
  <2>5. InPlace(at[1])'
    BY <2>1, <2>3 DEF InPlace, Due
  <2> QED BY <2>2, <2>3, <2>4, <2>5 DEF FramingInv
<1> QED BY <1>1, <1>2, <1>3 DEF Next

THEOREM Invariance == Spec => []FramingInv
<1> QED BY InitEstablishes, StepKeeps, PTL DEF Spec

\* From the info of a client on, the gateway processes every message that the
\* client wrote, without a gap, whatever TCP makes of the headers.
THEOREM NothingMissed == Spec => []NoGapAfterInfo
<1>1. FramingInv => NoGapAfterInfo
  BY DEF FramingInv
<1> QED BY <1>1, Invariance, PTL

============================================================================
