----------------------------- MODULE WireProofs -----------------------------
(***************************************************************************)
(* Proof that Wire implements Channel, for any messages, sizes, header and *)
(* pipe: the reader, which only counts bytes, never loses the frames.      *)
(***************************************************************************)
EXTENDS Wire, SequenceTheorems, TLAPS

USE WireAssumption

Byte == Nat \X Nat

FrameLen(log, k) == HeaderLen + Size[log[k]]

\* What is on its way, from the frame that is being read to the one that is
\* being written.
Stream == (frame \o pipe) \o unwritten

\* From where a frame begins its bytes follow, and then the next frame does.
Framed(s, log) ==
  \A i \in 1..Len(s) : s[i][2] = 1 =>
    /\ s[i][1] \in 1..Len(log)
    /\ \A j \in i..Len(s) :
         /\ j < i + FrameLen(log, s[i][1]) => s[j] = <<s[i][1], j - i + 1>>
         /\ j = i + FrameLen(log, s[i][1]) => s[j] = <<s[i][1] + 1, 1>>

\* No frame is cut short, and the last is that of the newest message.
Whole(s, log) ==
  \A i \in 1..Len(s) : s[i][2] = 1 =>
    LET next == i + FrameLen(log, s[i][1]) IN
      /\ next <= Len(s) + 1
      /\ next = Len(s) + 1 => s[i][1] = Len(log)

\* The message that is due next, but for odd ones, is number n.
Passed(n) ==
  /\ Promise!LastReceived < n
  /\ \A j \in (Promise!LastReceived + 1)..(n - 1) : sent[j] \in Odd

Types ==
  /\ sent \in Seq(Messages)
  /\ frame \in Seq(Byte) /\ pipe \in Seq(Byte) /\ unwritten \in Seq(Byte)
  /\ received \in Seq(Nat)
  /\ writer \in {"Open", "Closed"}

InStep ==
  /\ Framed(Stream, sent)
  /\ writer = "Open" => Whole(Stream, sent)
  /\ Stream # <<>> => Stream[1][2] = 1 /\ Passed(Stream[1][1])
  /\ Stream = <<>> /\ writer = "Open" => Passed(Len(sent) + 1)

IInv == Types /\ InStep

-----------------------------------------------------------------------------
(* Streams *)

LEMMA FrameLenType ==
  ASSUME NEW log \in Seq(Messages), NEW k \in 1..Len(log)
  PROVE  FrameLen(log, k) \in Nat /\ FrameLen(log, k) >= HeaderLen
BY DEF FrameLen

LEMMA BytesType ==
  ASSUME NEW k \in Nat, NEW m \in Messages
  PROVE  /\ Bytes(k, m) \in Seq(Byte)
         /\ Len(Bytes(k, m)) = HeaderLen + Size[m]
         /\ \A i \in 1..(HeaderLen + Size[m]) : Bytes(k, m)[i] = <<k, i>>
<1> DEFINE n == HeaderLen + Size[m]
<1>1. n \in Nat
  OBVIOUS
<1> HIDE DEF n
<1>2. \A i \in 1..n : <<k, i>> \in Byte
  BY <1>1 DEF Byte
<1>3. [i \in 1..n |-> <<k, i>>] \in [1..n -> Byte]
  BY <1>2
<1>4. \A f \in [1..n -> Byte] : f \in Seq(Byte) /\ Len(f) = n
  BY <1>1
<1>5. Bytes(k, m) = [i \in 1..n |-> <<k, i>>]
  BY DEF Bytes, n
<1> QED
  BY <1>3, <1>4, <1>5 DEF n

LEMMA StreamType ==
  ASSUME Types
  PROVE  /\ Stream \in Seq(Byte)
         /\ Len(Stream) = Len(frame) + Len(pipe) + Len(unwritten)
         /\ \A i \in 1..Len(frame) : Stream[i] = frame[i]
BY ConcatProperties DEF Types, Stream

LEMMA Parts ==
  ASSUME NEW a \in Seq(Byte), NEW b \in Seq(Byte)
  PROVE  /\ a \o b \in Seq(Byte)
         /\ Len(a \o b) = Len(a) + Len(b)
         /\ \A i \in 1..Len(a) : (a \o b)[i] = a[i]
         /\ \A i \in 1..Len(b) : (a \o b)[Len(a) + i] = b[i]
BY ConcatProperties

LEMMA Assoc ==
  ASSUME NEW a \in Seq(Byte), NEW b \in Seq(Byte), NEW c \in Seq(Byte)
  PROVE  a \o (b \o c) = (a \o b) \o c
OBVIOUS

\* Bytes that move from the head of one part to the end of the other.
LEMMA Moves ==
  ASSUME NEW a \in Seq(Byte), NEW b \in Seq(Byte), NEW n \in 1..Len(b)
  PROVE  /\ SubSeq(b, 1, n) \in Seq(Byte) /\ SubSeq(b, n + 1, Len(b)) \in Seq(Byte)
         /\ (a \o SubSeq(b, 1, n)) \o SubSeq(b, n + 1, Len(b)) = a \o b
<1> DEFINE from == SubSeq(b, 1, n)
           rest == SubSeq(b, n + 1, Len(b))
<1>1. from \in Seq(Byte) /\ rest \in Seq(Byte)
  BY SubSeqProperties
<1>2. from \o rest = b
  BY ConcatAdjacentSubSeq, SubSeqFull
<1>3. (a \o from) \o rest = a \o (from \o rest)
  <2> HIDE DEF from, rest
  <2> QED
    BY <1>1
<1> QED
  BY <1>1, <1>2, <1>3

\* The beginning of a stream of frames is one.
LEMMA FramedPrefix ==
  ASSUME NEW log \in Seq(Messages), NEW s \in Seq(Byte), NEW t \in Seq(Byte),
         Framed(s, log), Len(t) <= Len(s), \A i \in 1..Len(t) : t[i] = s[i]
  PROVE  Framed(t, log)
<1>1. ASSUME NEW i \in 1..Len(t), t[i][2] = 1
      PROVE  /\ t[i][1] \in 1..Len(log)
             /\ \A j \in i..Len(t) :
                  /\ j < i + FrameLen(log, t[i][1]) => t[j] = <<t[i][1], j - i + 1>>
                  /\ j = i + FrameLen(log, t[i][1]) => t[j] = <<t[i][1] + 1, 1>>
  <2>1. i \in 1..Len(s) /\ s[i] = t[i]
    OBVIOUS
  <2>2. \A j \in i..Len(t) : j \in i..Len(s) /\ t[j] = s[j]
    OBVIOUS
  <2> QED
    BY SMTT(30), <1>1, <2>1, <2>2 DEF Framed
<1> QED
  BY <1>1 DEF Framed

\* A frame that is added begins where the last one ends.
LEMMA FrameAdded ==
  ASSUME NEW log \in Seq(Messages), NEW s \in Seq(Byte), NEW m \in Messages,
         Framed(s, log), Whole(s, log)
  PROVE  LET t == s \o Bytes(Len(log) + 1, m)
             longer == Append(log, m)
         IN  Framed(t, longer) /\ Whole(t, longer)
<1> DEFINE t == s \o Bytes(Len(log) + 1, m)
           longer == Append(log, m)
           size == HeaderLen + Size[m]
<1>1. /\ longer \in Seq(Messages) /\ Len(longer) = Len(log) + 1
      /\ longer[Len(log) + 1] = m
      /\ \A k \in 1..Len(log) : longer[k] = log[k]
  BY AppendProperties
<1>2. /\ size \in Nat /\ size >= 1
      /\ t \in Seq(Byte) /\ Len(t) = Len(s) + size
      /\ \A i \in 1..Len(s) : t[i] = s[i]
      /\ \A i \in 1..size : t[Len(s) + i] = <<Len(log) + 1, i>>
  <2>1. Len(log) + 1 \in Nat /\ size \in Nat /\ size >= 1
    OBVIOUS
  <2>2. /\ Bytes(Len(log) + 1, m) \in Seq(Byte)
        /\ Len(Bytes(Len(log) + 1, m)) = size
        /\ \A i \in 1..size : Bytes(Len(log) + 1, m)[i] = <<Len(log) + 1, i>>
    BY <2>1, BytesType
  <2> DEFINE b == Bytes(Len(log) + 1, m)
  <2> HIDE DEF size, b
  <2>3. b \in Seq(Byte) /\ Len(b) = size /\ \A i \in 1..size : b[i] = <<Len(log) + 1, i>>
    BY <2>2 DEF b
  <2>4. s \o b \in Seq(Byte) /\ Len(s \o b) = Len(s) + size
    BY <2>3, Parts
  <2>5. \A i \in 1..Len(s) : (s \o b)[i] = s[i]
    BY <2>3, Parts
  <2>6. \A i \in 1..size : (s \o b)[Len(s) + i] = b[i]
    BY <2>3, Parts
  <2> QED
    BY <2>1, <2>3, <2>4, <2>5, <2>6 DEF b
<1>3. FrameLen(longer, Len(log) + 1) = size
  BY <1>1 DEF FrameLen
<1>4. \A k \in 1..Len(log) : FrameLen(longer, k) = FrameLen(log, k) /\ FrameLen(log, k) \in Nat
  BY <1>1, FrameLenType DEF FrameLen
<1> HIDE DEF t, longer, size
<1>5. ASSUME NEW i \in 1..Len(t), t[i][2] = 1
      PROVE  /\ t[i][1] \in 1..Len(longer)
             /\ \A j \in i..Len(t) :
                  /\ j < i + FrameLen(longer, t[i][1]) => t[j] = <<t[i][1], j - i + 1>>
                  /\ j = i + FrameLen(longer, t[i][1]) => t[j] = <<t[i][1] + 1, 1>>
             /\ i + FrameLen(longer, t[i][1]) <= Len(t) + 1
             /\ i + FrameLen(longer, t[i][1]) = Len(t) + 1 => t[i][1] = Len(longer)
  <2>1. CASE i \in 1..Len(s)
    <3> DEFINE k == s[i][1]
    <3>1. t[i] = s[i] /\ k \in 1..Len(log)
      BY <1>2, <1>5, <2>1 DEF Framed
    <3>2. FrameLen(longer, k) = FrameLen(log, k) /\ FrameLen(log, k) \in Nat
      BY <1>4, <3>1
    <3>3. /\ i + FrameLen(log, k) <= Len(s) + 1
          /\ i + FrameLen(log, k) = Len(s) + 1 => k = Len(log)
          /\ \A j \in i..Len(s) :
               /\ j < i + FrameLen(log, k) => s[j] = <<k, j - i + 1>>
               /\ j = i + FrameLen(log, k) => s[j] = <<k + 1, 1>>
      BY <1>2, <1>5, <2>1 DEF Framed, Whole
    <3> HIDE DEF k
    <3>4. ASSUME NEW j \in i..Len(t)
          PROVE  /\ j < i + FrameLen(log, k) => t[j] = <<k, j - i + 1>>
                 /\ j = i + FrameLen(log, k) => t[j] = <<k + 1, 1>>
      <4>1. CASE j <= Len(s)
        <5>1. j \in 1..Len(s) /\ j \in i..Len(s)
          BY <2>1, <4>1
        <5>2. t[j] = s[j]
          BY <1>2, <5>1
        <5> QED
          BY <3>3, <5>1, <5>2
      <4>2. CASE j = Len(s) + 1
        BY SMTT(30), <1>2, <3>1, <3>2, <3>3, <4>2, <2>1
      <4>3. CASE j > Len(s) + 1
        BY <1>2, <3>2, <3>3, <4>3, <2>1
      <4> QED
        BY SMTT(30), <1>2, <4>1, <4>2, <4>3, <2>1
    <3>5. t[i][1] = k
      BY <3>1 DEF k
    <3>6. t[i][1] \in 1..Len(longer)
      BY <1>1, <3>1, <3>5
    <3>7. /\ i + FrameLen(longer, k) <= Len(t) + 1
          /\ i + FrameLen(longer, k) # Len(t) + 1
      <4> DEFINE w == FrameLen(log, k)
      <4>1. w \in Nat /\ i + w <= Len(s) + 1
        BY <3>2, <3>3
      <4> HIDE DEF w
      <4>2. i + w <= Len(t) + 1 /\ i + w # Len(t) + 1
        BY <1>2, <2>1, <4>1
      <4> QED
        BY <3>2, <4>2 DEF w
    <3>8. FrameLen(longer, t[i][1]) = FrameLen(log, k)
      BY <3>2, <3>5
    <3>9. /\ i + FrameLen(longer, t[i][1]) <= Len(t) + 1
          /\ i + FrameLen(longer, t[i][1]) # Len(t) + 1
      BY <3>5, <3>7
    <3>10. ASSUME NEW j \in i..Len(t)
           PROVE  /\ j < i + FrameLen(longer, t[i][1]) => t[j] = <<t[i][1], j - i + 1>>
                  /\ j = i + FrameLen(longer, t[i][1]) => t[j] = <<t[i][1] + 1, 1>>
      BY <3>4, <3>5, <3>8
    <3> QED
      BY <3>6, <3>9, <3>10
  <2>2. CASE i \notin 1..Len(s)
    <3>1. PICK d \in 1..size : i = Len(s) + d
      <4>1. i - Len(s) \in 1..size
        BY <1>2, <2>2
      <4> QED
        BY <4>1
    <3>2. d = 1 /\ t[i][1] = Len(log) + 1
      BY <1>2, <1>5, <3>1
    <3>3. \A j \in i..Len(t) : j - Len(s) \in 1..size /\ t[j] = <<Len(log) + 1, j - Len(s)>>
      <4> SUFFICES ASSUME NEW j \in i..Len(t)
                   PROVE  j - Len(s) \in 1..size /\ t[j] = <<Len(log) + 1, j - Len(s)>>
        OBVIOUS
      <4>1. j - Len(s) \in 1..size /\ j = Len(s) + (j - Len(s))
        BY <1>2, <3>1
      <4> QED
        BY <1>2, <4>1
    <3> QED
      BY <1>1, <1>2, <1>3, <3>1, <3>2, <3>3
  <2> QED
    BY <2>1, <2>2
<1> QED
  BY <1>5 DEF Framed, Whole, t, longer

\* t is what follows the first n bytes of s.
Follows(t, s, n) ==
  /\ n <= Len(s) /\ Len(t) = Len(s) - n
  /\ \A i \in 1..Len(t) : t[i] = s[i + n]

\* Without its first frame a stream begins with the next.
LEMMA FrameTaken ==
  ASSUME NEW log \in Seq(Messages), NEW s \in Seq(Byte), NEW t \in Seq(Byte), NEW k \in 1..Len(log),
         Framed(s, log), s # <<>>, s[1] = <<k, 1>>,
         Follows(t, s, FrameLen(log, k))
  PROVE  /\ Framed(t, log)
         /\ Whole(s, log) => Whole(t, log)
         /\ t # <<>> => t[1] = <<k + 1, 1>>
         /\ t = <<>> /\ Whole(s, log) => k = Len(log)
<1> DEFINE n == FrameLen(log, k)
<1>1. n \in Nat /\ Len(s) \in Nat /\ Len(t) \in Nat /\ Len(s) = Len(t) + n
  BY FrameLenType DEF Follows
<1>2. \A i \in 1..Len(t) : i + n \in 1..Len(s) /\ t[i] = s[i + n]
  BY SMTT(30), <1>1 DEF Follows
<1>3. /\ \A i \in 1..Len(s) : s[i][2] = 1 => s[i][1] \in 1..Len(log)
      /\ \A i \in 1..Len(s) : s[i][2] = 1 => \A j \in i..Len(s) :
           /\ j < i + FrameLen(log, s[i][1]) => s[j] = <<s[i][1], j - i + 1>>
           /\ j = i + FrameLen(log, s[i][1]) => s[j] = <<s[i][1] + 1, 1>>
  BY DEF Framed
<1>4. 1 \in 1..Len(s) /\ s[1][1] = k /\ s[1][2] = 1
  BY <1>1
<1>5. Whole(s, log) =>
        /\ 1 + n = Len(s) + 1 => k = Len(log)
        /\ \A i \in 1..Len(s) : s[i][2] = 1 =>
             /\ i + FrameLen(log, s[i][1]) <= Len(s) + 1
             /\ i + FrameLen(log, s[i][1]) = Len(s) + 1 => s[i][1] = Len(log)
  BY <1>4 DEF Whole
<1>6. t # <<>> => 1 \in 1..Len(t)
  BY <1>1
<1>7. t = <<>> => Len(t) = 0
  OBVIOUS
<1> HIDE DEF n
<1>8. ASSUME NEW i \in 1..Len(t), t[i][2] = 1
      PROVE  /\ t[i][1] \in 1..Len(log)
             /\ \A j \in i..Len(t) :
                  /\ j < i + FrameLen(log, t[i][1]) => t[j] = <<t[i][1], j - i + 1>>
                  /\ j = i + FrameLen(log, t[i][1]) => t[j] = <<t[i][1] + 1, 1>>
             /\ Whole(s, log) => /\ i + FrameLen(log, t[i][1]) <= Len(t) + 1
                                 /\ i + FrameLen(log, t[i][1]) = Len(t) + 1 => t[i][1] = Len(log)
  <2>1. i + n \in 1..Len(s) /\ t[i] = s[i + n]
    BY <1>2
  <2>2. t[i][1] \in 1..Len(log) /\ FrameLen(log, t[i][1]) \in Nat
    BY <1>3, <1>8, <2>1, FrameLenType
  <2>3. ASSUME NEW j \in i..Len(t)
        PROVE  /\ j < i + FrameLen(log, t[i][1]) => t[j] = <<t[i][1], j - i + 1>>
               /\ j = i + FrameLen(log, t[i][1]) => t[j] = <<t[i][1] + 1, 1>>
    <3>1. j \in 1..Len(t) /\ j + n \in (i + n)..Len(s) /\ t[j] = s[j + n]
      BY <1>1, <1>2
    <3>2. /\ j + n < i + n + FrameLen(log, t[i][1]) => s[j + n] = <<t[i][1], (j + n) - (i + n) + 1>>
          /\ j + n = i + n + FrameLen(log, t[i][1]) => s[j + n] = <<t[i][1] + 1, 1>>
      BY <1>3, <1>8, <2>1, <3>1
    <3>3. /\ (j + n) - (i + n) + 1 = j - i + 1
          /\ j < i + FrameLen(log, t[i][1]) => j + n < i + n + FrameLen(log, t[i][1])
          /\ j = i + FrameLen(log, t[i][1]) => j + n = i + n + FrameLen(log, t[i][1])
      <4> DEFINE w == FrameLen(log, t[i][1])
      <4>1. w \in Nat /\ i \in Nat /\ j \in Nat
        BY <1>1, <2>2
      <4> HIDE DEF w
      <4>2. /\ (j + n) - (i + n) + 1 = j - i + 1
            /\ j < i + w => j + n < i + n + w
            /\ j = i + w => j + n = i + n + w
        BY <1>1, <4>1
      <4> QED
        BY <4>2 DEF w
    <3> QED
      BY <3>1, <3>2, <3>3
  <2>4. ASSUME Whole(s, log)
        PROVE  /\ i + FrameLen(log, t[i][1]) <= Len(t) + 1
               /\ i + FrameLen(log, t[i][1]) = Len(t) + 1 => t[i][1] = Len(log)
    <3>1. /\ i + n + FrameLen(log, t[i][1]) <= Len(s) + 1
          /\ i + n + FrameLen(log, t[i][1]) = Len(s) + 1 => t[i][1] = Len(log)
      BY <1>5, <1>8, <2>1, <2>4
    <3> DEFINE w == FrameLen(log, t[i][1])
    <3>2. w \in Nat /\ i \in Nat
      BY <2>2
    <3>3. i + n + w <= Len(s) + 1 /\ (i + n + w = Len(s) + 1 => t[i][1] = Len(log))
      BY <3>1
    <3> DEFINE a == Len(s)
           b == Len(t)
    <3>4. a \in Nat /\ b \in Nat /\ a = b + n /\ n \in Nat
      BY <1>1
    <3>5. i + n + w <= a + 1
      BY <3>3
    <3> HIDE DEF w, a, b
    <3>6. i + w <= b + 1 /\ (i + w = b + 1 => i + n + w = a + 1)
      BY <3>2, <3>4, <3>5
    <3> QED
      BY <3>3, <3>6 DEF w, a, b
  <2> QED
    BY <2>2, <2>3, <2>4
<1>9. t # <<>> => t[1] = <<k + 1, 1>>
  <2> SUFFICES ASSUME t # <<>>
               PROVE  t[1] = <<k + 1, 1>>
    OBVIOUS
  <2>1. 1 + n \in 1..Len(s) /\ t[1] = s[1 + n]
    BY <1>2, <1>6
  <2> QED
    BY <1>1, <1>3, <1>4, <2>1 DEF n
<1>10. t = <<>> /\ Whole(s, log) => k = Len(log)
  BY <1>1, <1>5, <1>7
<1> QED
  BY <1>8, <1>9, <1>10 DEF Framed, Whole

-----------------------------------------------------------------------------
(* What the reader knows *)

LEMMA PassedType ==
  ASSUME Types
  PROVE  Promise!LastReceived \in Nat
BY DEF Types, Promise!LastReceived

\* The reader's frame is the one that is due, and what the reader takes for its
\* length is its length.
LEMMA HeaderTells ==
  ASSUME IInv, HeaderRead
  PROVE  \E k \in 1..Len(sent) :
           /\ Stream[1] = <<k, 1>> /\ Passed(k)
           /\ PayloadLen = Size[sent[k]]
           /\ \A j \in 1..Len(Stream) : j < 1 + FrameLen(sent, k) => Stream[j] = <<k, j>>
<1>1. /\ Len(frame) \in Nat /\ Len(frame) >= HeaderLen /\ HeaderLen \in Nat /\ HeaderLen >= 1
      /\ sent \in Seq(Messages)
  BY DEF IInv, Types, HeaderRead
<1>2. /\ Stream \in Seq(Byte) /\ Len(Stream) >= Len(frame)
      /\ \A i \in 1..Len(frame) : Stream[i] = frame[i]
  BY StreamType DEF IInv, Types
<1>3. 1 \in 1..Len(Stream) /\ HeaderLen \in 1..Len(Stream) /\ HeaderLen \in 1..Len(frame)
  BY <1>1, <1>2
<1>4. Stream # <<>>
  BY <1>3
<1>5. Stream[1] \in Byte /\ Stream[1][2] = 1 /\ Passed(Stream[1][1])
  BY <1>2, <1>3, <1>4 DEF IInv, InStep
<1> DEFINE k == Stream[1][1]
<1>6. Stream[1] = <<k, 1>>
  BY <1>5 DEF Byte
<1>7. /\ k \in 1..Len(sent)
      /\ \A j \in 1..Len(Stream) : j < 1 + FrameLen(sent, k) => Stream[j] = <<k, j - 1 + 1>>
  BY <1>3, <1>5 DEF IInv, InStep, Framed
<1>8. \A j \in 1..Len(Stream) : j - 1 + 1 = j
  BY <1>2
<1> HIDE DEF k
<1>9. \A j \in 1..Len(Stream) : j < 1 + FrameLen(sent, k) => Stream[j] = <<k, j>>
  BY <1>7, <1>8
<1>10. HeaderLen < 1 + FrameLen(sent, k)
  BY <1>1, <1>7, FrameLenType
<1>11. frame[HeaderLen] = <<k, HeaderLen>>
  BY <1>2, <1>3, <1>9, <1>10
<1>12. PayloadLen = Size[sent[k]]
  BY <1>11 DEF PayloadLen
<1> QED
  BY <1>5, <1>6, <1>7, <1>9, <1>12 DEF k

\* A whole frame is that of the message that is due, and is decoded as such.
LEMMA FrameIsDue ==
  ASSUME IInv, HeaderRead, Len(frame) = Needed
  PROVE  \E k \in 1..Len(sent) :
           /\ Stream[1] = <<k, 1>> /\ Passed(k)
           /\ Len(frame) = FrameLen(sent, k)
           /\ Decoded = k
<1>1. PICK k \in 1..Len(sent) :
        /\ Stream[1] = <<k, 1>> /\ Passed(k)
        /\ PayloadLen = Size[sent[k]]
        /\ \A j \in 1..Len(Stream) : j < 1 + FrameLen(sent, k) => Stream[j] = <<k, j>>
  BY HeaderTells
<1>2. Len(frame) = FrameLen(sent, k)
  BY <1>1 DEF Needed, FrameLen
<1>3. /\ sent \in Seq(Messages) /\ frame \in Seq(Byte) /\ k \in Nat /\ sent[k] \in Messages
      /\ k \in DOMAIN sent
  BY <1>1 DEF IInv, Types
<1>4. /\ FrameLen(sent, k) \in Nat /\ FrameLen(sent, k) >= HeaderLen
      /\ Len(frame) \in Nat
  BY <1>3, FrameLenType
<1>5. /\ Len(Stream) \in Nat /\ Len(Stream) >= Len(frame)
      /\ \A i \in 1..Len(frame) : Stream[i] = frame[i]
  BY StreamType DEF IInv, Types
<1>6. \A i \in 1..FrameLen(sent, k) : frame[i] = <<k, i>>
  <2> DEFINE w == FrameLen(sent, k)
  <2>1. w \in Nat /\ Len(Stream) >= w
    BY <1>2, <1>4, <1>5
  <2> SUFFICES ASSUME NEW i \in 1..w
               PROVE  frame[i] = <<k, i>>
    OBVIOUS
  <2> HIDE DEF w
  <2>2. i \in 1..Len(Stream) /\ i < 1 + w
    BY <2>1, <1>5
  <2>3. i \in 1..Len(frame)
    BY <1>2 DEF w
  <2> QED
    BY <1>1, <1>5, <2>2, <2>3 DEF w
<1>7. frame = [i \in 1..FrameLen(sent, k) |-> <<k, i>>]
  <2> DEFINE w == FrameLen(sent, k)
  <2>1. w \in Nat /\ Len(frame) = w /\ \A i \in 1..w : frame[i] = <<k, i>>
    BY <1>2, <1>4, <1>6
  <2> HIDE DEF w
  <2>2. frame \in [1..w -> Byte]
    BY <1>3, <2>1
  <2>3. frame = [i \in 1..w |-> <<k, i>>]
    BY <2>1, <2>2
  <2> QED
    BY <2>3 DEF w
<1>8. frame = Bytes(k, sent[k])
  BY <1>7 DEF Bytes, FrameLen
<1>9. frame[1] = <<k, 1>>
  <2>1. 1 \in 1..FrameLen(sent, k)
    BY <1>4
  <2> QED
    BY <1>6, <2>1
<1>10. Decoded = k
  BY <1>3, <1>8, <1>9 DEF Decoded
<1> QED
  BY <1>1, <1>2, <1>10

-----------------------------------------------------------------------------
(* Steps *)

\* A step that leaves the stream, what is sent and what is received alone.
LEMMA StaysInStep ==
  ASSUME IInv, Types', Stream' = Stream, UNCHANGED <<sent, received>>,
         writer' = "Open" => writer = "Open"
  PROVE  IInv'
<1>1. Promise!LastReceived' = Promise!LastReceived
  BY DEF Promise!LastReceived
<1>2. \A n : Passed(n)' <=> Passed(n)
  BY <1>1 DEF Passed
<1>3. Framed(Stream, sent)' <=> Framed(Stream, sent)
  BY DEF Framed, FrameLen
<1>4. Whole(Stream, sent)' <=> Whole(Stream, sent)
  BY DEF Whole, FrameLen
<1> QED
  BY <1>2, <1>3, <1>4 DEF IInv, InStep

LEMMA WriteInStep ==
  ASSUME IInv, NEW m \in Messages, Write(m)
  PROVE  IInv' /\ Promise!Next
<1>1. /\ sent \in Seq(Messages) /\ Len(sent) \in Nat /\ sent' = Append(sent, m)
      /\ unwritten = <<>> /\ unwritten' = Bytes(Len(sent) + 1, m)
      /\ writer = "Open" /\ UNCHANGED <<writer, pipe, frame, received, reader>>
      /\ frame \in Seq(Byte) /\ pipe \in Seq(Byte) /\ received \in Seq(Nat)
  BY DEF Write, IInv, Types
<1>2. PICK new \in Nat : new = Len(sent) + 1
  BY <1>1
<1> DEFINE b == Bytes(new, m)
<1>3. /\ b \in Seq(Byte) /\ Len(b) > 0 /\ b[1] = <<new, 1>>
  BY BytesType
<1>4. /\ sent' \in Seq(Messages) /\ Len(sent') = new
      /\ \A j \in 1..Len(sent) : sent'[j] = sent[j]
  BY <1>1, <1>2, AppendProperties
<1>5. Types'
  BY <1>1, <1>2, <1>3, <1>4 DEF Types
<1>6. Stream = frame \o pipe /\ Stream \in Seq(Byte)
  <2>1. frame \o pipe \in Seq(Byte)
    BY <1>1
  <2>2. (frame \o pipe) \o <<>> = frame \o pipe
    BY <2>1
  <2> QED
    BY <1>1, <2>1, <2>2 DEF Stream
<1>7. Stream' = Stream \o b
  BY <1>1, <1>2, <1>6 DEF Stream
<1>8. Framed(Stream, sent)' /\ Whole(Stream, sent)'
  <2>1. Framed(Stream', sent') /\ Whole(Stream', sent')
    BY <1>1, <1>2, <1>6, <1>7, FrameAdded DEF IInv, InStep
  <2> QED
    BY <2>1 DEF Framed, Whole, FrameLen
<1> HIDE DEF b
<1>9. ASSUME NEW n \in Nat, n <= new, Passed(n)
      PROVE  Passed(n)'
  <2>1. Promise!LastReceived' = Promise!LastReceived /\ Promise!LastReceived \in Nat
    BY <1>1, PassedType DEF IInv, Promise!LastReceived
  <2>2. \A j \in (Promise!LastReceived + 1)..(n - 1) : j \in 1..Len(sent)
    BY <1>1, <1>2, <1>9, <2>1
  <2> QED
    BY <1>4, <1>9, <2>1, <2>2 DEF Passed
<1>10. \E n \in Nat : Stream'[1] = <<n, 1>> /\ Passed(n)'
  <2>1. CASE Stream = <<>>
    <3>1. Passed(new)
      BY <1>1, <1>2, <2>1 DEF IInv, InStep
    <3>2. Passed(new)'
      BY <1>2, <1>9, <3>1
    <3>3. Stream'[1] = <<new, 1>>
      <4>1. <<>> \o b = b
        BY <1>3
      <4> QED
        BY <1>3, <1>7, <2>1, <4>1
    <3> QED
      BY <3>2, <3>3
  <2>2. CASE Stream # <<>>
    <3>1. 1 \in 1..Len(Stream) /\ Stream[1] \in Byte
      BY <1>6, <2>2
    <3>2. Stream'[1] = Stream[1]
      BY <1>3, <1>6, <1>7, <3>1, Parts
    <3>3. PICK k \in Nat : Stream[1] = <<k, 1>> /\ Passed(k) /\ k \in 1..Len(sent)
      <4>1. Stream[1][2] = 1 /\ Passed(Stream[1][1]) /\ Stream[1][1] \in 1..Len(sent)
        BY <2>2, <3>1 DEF IInv, InStep, Framed
      <4>2. Stream[1] = <<Stream[1][1], 1>> /\ Stream[1][1] \in Nat
        BY <3>1, <4>1 DEF Byte
      <4> QED
        BY <4>1, <4>2
    <3>4. k <= new
      BY <1>1, <1>2, <3>3
    <3>5. Passed(k)'
      BY <1>9, <3>3, <3>4
    <3> QED
      BY <3>2, <3>3, <3>5
  <2> QED
    BY <2>1, <2>2
<1>11. Stream[1][2]' = 1 /\ Passed(Stream[1][1])'
  BY <1>10 DEF Passed
<1>12. Stream' # <<>>
  <2>1. Len(Stream \o b) = Len(Stream) + Len(b) /\ Len(Stream) \in Nat /\ Len(b) \in Nat
    BY <1>3, <1>6
  <2>2. Len(Stream \o b) # 0
    BY <1>3, <2>1
  <2> QED
    BY <1>7, <2>2
<1>13. IInv'
  BY <1>5, <1>8, <1>11, <1>12 DEF IInv, InStep
<1>14. Promise!Next
  BY <1>1 DEF Promise!Next, Promise!Send, Reading
<1> QED
  BY <1>13, <1>14

LEMMA PushInStep ==
  ASSUME IInv, NEW n \in 1..Len(unwritten), Push(n)
  PROVE  IInv' /\ UNCHANGED Promise!vars
<1>1. /\ frame \in Seq(Byte) /\ pipe \in Seq(Byte) /\ unwritten \in Seq(Byte)
      /\ pipe' = pipe \o SubSeq(unwritten, 1, n)
      /\ unwritten' = SubSeq(unwritten, n + 1, Len(unwritten))
      /\ UNCHANGED <<sent, writer, frame, received, reader>>
  BY DEF Push, IInv, Types
<1> DEFINE head == frame \o pipe
           from == SubSeq(unwritten, 1, n)
<1>2. head \in Seq(Byte)
  BY <1>1
<1> HIDE DEF head
<1>3. /\ from \in Seq(Byte) /\ unwritten' \in Seq(Byte)
      /\ (head \o from) \o unwritten' = head \o unwritten
  <2> DEFINE rest == SubSeq(unwritten, n + 1, Len(unwritten))
  <2>1. from \in Seq(Byte) /\ rest \in Seq(Byte) /\ (head \o from) \o rest = head \o unwritten
    BY <1>1, <1>2, Moves
  <2> QED
    BY <1>1, <2>1, Zenon
<1>4. frame \o (pipe \o from) = head \o from
  <2> HIDE DEF from
  <2> QED
    BY ZenonT(40), <1>1, <1>3, Assoc DEF head
<1>5. Stream' = Stream
  BY <1>1, <1>3, <1>4 DEF Stream, head
<1>6. pipe' \in Seq(Byte)
  <2> HIDE DEF from
  <2>1. pipe \o from \in Seq(Byte)
    BY <1>1, <1>3
  <2> QED
    BY <1>1, <2>1 DEF from
<1>7. Types'
  BY <1>1, <1>3, <1>6 DEF IInv, Types
<1>8. IInv'
  BY <1>1, <1>5, <1>7, StaysInStep
<1> QED
  BY <1>1, <1>8 DEF Promise!vars, Reading

LEMMA PullInStep ==
  ASSUME IInv, NEW n \in 1..Len(pipe), Pull(n)
  PROVE  IInv' /\ UNCHANGED Promise!vars
<1>1. /\ frame \in Seq(Byte) /\ pipe \in Seq(Byte) /\ unwritten \in Seq(Byte)
      /\ frame' = frame \o SubSeq(pipe, 1, n)
      /\ pipe' = SubSeq(pipe, n + 1, Len(pipe))
      /\ UNCHANGED <<sent, unwritten, writer, received, reader>>
  BY DEF Pull, IInv, Types
<1> DEFINE from == SubSeq(pipe, 1, n)
<1>2. from \in Seq(Byte) /\ pipe' \in Seq(Byte) /\ (frame \o from) \o pipe' = frame \o pipe
  <2> DEFINE rest == SubSeq(pipe, n + 1, Len(pipe))
  <2>1. from \in Seq(Byte) /\ rest \in Seq(Byte) /\ (frame \o from) \o rest = frame \o pipe
    BY <1>1, Moves
  <2> QED
    BY <1>1, <2>1, Zenon
<1>3. Stream' = Stream
  BY <1>1, <1>2 DEF Stream
<1>4. frame' \in Seq(Byte)
  <2> HIDE DEF from
  <2>1. frame \o from \in Seq(Byte)
    BY <1>1, <1>2
  <2> QED
    BY <1>1, <2>1 DEF from
<1>5. Types'
  BY <1>1, <1>2, <1>4 DEF IInv, Types
<1>6. IInv'
  BY <1>1, <1>3, <1>5, StaysInStep
<1> QED
  BY <1>1, <1>6 DEF Promise!vars, Reading

LEMMA CloseInStep ==
  ASSUME IInv, Close
  PROVE  IInv' /\ UNCHANGED Promise!vars
<1>1. /\ frame \in Seq(Byte) /\ pipe \in Seq(Byte) /\ unwritten \in Seq(Byte)
      /\ writer' = "Closed" /\ unwritten' = <<>>
      /\ sent \in Seq(Messages)
      /\ UNCHANGED <<sent, pipe, frame, received, reader>>
  BY DEF Close, IInv, Types
<1>2. Types'
  BY <1>1 DEF IInv, Types
<1> DEFINE head == frame \o pipe
<1>3. head \in Seq(Byte)
  BY <1>1
<1> HIDE DEF head
<1>4. head \o <<>> = head
  BY <1>3
<1>5. Stream = head \o unwritten /\ Stream' = head
  BY <1>1, <1>4 DEF Stream, head
<1>6. /\ Stream \in Seq(Byte) /\ Len(head) <= Len(Stream)
      /\ \A i \in 1..Len(head) : head[i] = Stream[i]
  <2>1. Stream \in Seq(Byte)
    BY StreamType DEF IInv, Types
  <2>2. Len(head \o unwritten) = Len(head) + Len(unwritten)
    BY <1>1, <1>3
  <2>3. \A i \in 1..Len(head) : (head \o unwritten)[i] = head[i]
    BY <1>1, <1>3, Parts
  <2>4. Len(head) \in Nat /\ Len(unwritten) \in Nat
    BY <1>1, <1>3
  <2> QED
    BY <1>5, <2>1, <2>2, <2>3, <2>4
<1>7. Framed(head, sent)
  BY <1>1, <1>3, <1>6, FramedPrefix DEF IInv, InStep
<1>8. Framed(Stream, sent)'
  BY <1>1, <1>5, <1>7 DEF Framed, FrameLen
<1>9. Stream' # <<>> => Stream # <<>> /\ Stream'[1] = Stream[1]
  <2> SUFFICES ASSUME head # <<>>
               PROVE  Stream # <<>> /\ head[1] = Stream[1]
    BY <1>5
  <2>1. 1 \in 1..Len(head)
    BY <1>3
  <2>2. 1 \in 1..Len(Stream)
    BY <1>3, <1>6, <2>1
  <2> QED
    BY <1>6, <2>1, <2>2
<1>10. Promise!LastReceived' = Promise!LastReceived
  BY <1>1 DEF Promise!LastReceived
<1>11. Stream' # <<>> => Stream[1][2]' = 1 /\ Passed(Stream[1][1])'
  BY <1>1, <1>9, <1>10 DEF IInv, InStep, Passed
<1>12. IInv'
  BY <1>1, <1>2, <1>8, <1>11 DEF IInv, InStep
<1> QED
  BY <1>1, <1>12 DEF Promise!vars, Reading

\* The step of the promise: the message that is due comes out, or is odd.
LEMMA DeliverInStep ==
  ASSUME IInv, Deliver
  PROVE  IInv' /\ (Promise!Next \/ UNCHANGED Promise!vars)
<1>1. /\ frame \in Seq(Byte) /\ pipe \in Seq(Byte) /\ unwritten \in Seq(Byte)
      /\ sent \in Seq(Messages) /\ received \in Seq(Nat)
      /\ frame' = <<>> /\ UNCHANGED <<sent, unwritten, writer, pipe, reader>>
      /\ Reading /\ HeaderRead /\ Len(frame) = Needed
  BY DEF Deliver, WholeFrame, IInv, Types
<1>2. PICK k \in 1..Len(sent) :
        /\ Stream[1] = <<k, 1>> /\ Passed(k)
        /\ Len(frame) = FrameLen(sent, k)
        /\ Decoded = k
  BY <1>1, FrameIsDue
<1>3. k \in Nat /\ k \in DOMAIN sent
  BY <1>1
<1>4. received' = IF sent[k] \in Odd THEN received ELSE Append(received, k)
  BY <1>2, <1>3 DEF Deliver
<1>18. sent[k] \notin Unexpected
  BY <1>2, <1>3 DEF Deliver, Malformed
<1>5. received' \in Seq(Nat)
  BY <1>1, <1>3, <1>4
<1>6. Types'
  BY <1>1, <1>5 DEF IInv, Types
<1>7. Promise!LastReceived \in Nat
  BY PassedType DEF IInv
<1>8. /\ Promise!LastReceived' \in Nat /\ Promise!LastReceived' < k + 1
      /\ \A j \in (Promise!LastReceived' + 1)..k : sent[j] \in Odd
  <2>1. CASE sent[k] \in Odd
    <3>1. Promise!LastReceived' = Promise!LastReceived
      BY <1>4, <2>1 DEF Promise!LastReceived
    <3> QED
      BY <1>2, <1>3, <1>7, <2>1, <3>1 DEF Passed
  <2>2. CASE sent[k] \notin Odd
    <3>1. received' = Append(received, k)
      BY <1>4, <2>2
    <3>2. received' # <<>> /\ received'[Len(received')] = k
      BY <1>1, <1>3, <3>1
    <3>3. Promise!LastReceived' = k
      BY <3>2 DEF Promise!LastReceived
    <3> QED
      BY <1>3, <3>3
  <2> QED
    BY <2>1, <2>2
<1>9. PICK next \in Nat : next = k + 1
  BY <1>3
<1>10. Passed(next)'
  <2>1. next - 1 = k
    BY <1>3, <1>9
  <2> QED
    BY <1>1, <1>8, <1>9, <2>1 DEF Passed
<1>11. /\ Stream \in Seq(Byte) /\ Stream # <<>> /\ FrameLen(sent, k) <= Len(Stream)
       /\ Stream' \in Seq(Byte) /\ Len(Stream') = Len(Stream) - FrameLen(sent, k)
       /\ \A i \in 1..Len(Stream') : Stream'[i] = Stream[i + FrameLen(sent, k)]
  <2> DEFINE tail == pipe \o unwritten
  <2>1. tail \in Seq(Byte)
    BY <1>1
  <2>2. (<<>> \o pipe) \o unwritten = tail
    BY <1>1
  <2>3. Stream = frame \o tail
    BY <1>1, Assoc DEF Stream
  <2>4. Stream' = tail
    BY <1>1, <2>2 DEF Stream
  <2> HIDE DEF tail
  <2>5. Len(frame \o tail) = Len(frame) + Len(tail) /\ frame \o tail \in Seq(Byte)
    BY <1>1, <2>1, Parts
  <2>6. \A i \in 1..Len(tail) : (frame \o tail)[Len(frame) + i] = tail[i]
    BY <1>1, <2>1, Parts
  <2>7. Len(frame) \in Nat /\ Len(tail) \in Nat /\ Len(frame) >= HeaderLen
    BY <1>1, <2>1 DEF HeaderRead
  <2>8. Stream # <<>> /\ Len(Stream) = Len(frame) + Len(tail)
    BY <2>3, <2>5, <2>7
  <2>9. \A i \in 1..Len(tail) : i + Len(frame) = Len(frame) + i
    BY <2>7
  <2>10. \A i \in 1..Len(tail) : tail[i] = Stream[i + Len(frame)]
    BY <2>3, <2>6, <2>9
  <2>11. Len(frame) <= Len(Stream) /\ Len(tail) = Len(Stream) - Len(frame)
    BY <2>7, <2>8
  <2> QED
    BY <1>2, <2>1, <2>3, <2>4, <2>5, <2>8, <2>10, <2>11
<1>12. /\ Framed(Stream', sent)
       /\ Whole(Stream, sent) => Whole(Stream', sent)
       /\ Stream' # <<>> => Stream'[1] = <<k + 1, 1>>
       /\ Stream' = <<>> /\ Whole(Stream, sent) => k = Len(sent)
  <2> DEFINE t == Stream'
  <2>1. /\ sent \in Seq(Messages) /\ Stream \in Seq(Byte) /\ Framed(Stream, sent)
        /\ Stream # <<>> /\ Stream[1] = <<k, 1>>
    BY <1>1, <1>2, <1>11 DEF IInv, InStep
  <2>2. t \in Seq(Byte) /\ Follows(t, Stream, FrameLen(sent, k))
    BY <1>11 DEF Follows
  <2> HIDE DEF t
  <2>3. /\ Framed(t, sent)
        /\ Whole(Stream, sent) => Whole(t, sent)
        /\ t # <<>> => t[1] = <<k + 1, 1>>
        /\ t = <<>> /\ Whole(Stream, sent) => k = Len(sent)
    BY <2>1, <2>2, FrameTaken
  <2> QED
    BY <2>3 DEF t
<1>13. Framed(Stream, sent)' /\ (writer' = "Open" => Whole(Stream, sent)')
  BY <1>1, <1>12 DEF IInv, InStep, Framed, Whole, FrameLen
<1>14. Stream' # <<>> => Stream[1][2]' = 1 /\ Passed(Stream[1][1])'
  BY <1>9, <1>10, <1>12 DEF Passed
<1>15. Stream' = <<>> /\ writer' = "Open" => Passed(Len(sent) + 1)'
  <2> SUFFICES ASSUME Stream' = <<>>, writer' = "Open"
               PROVE  Passed(Len(sent) + 1)'
    OBVIOUS
  <2>1. Len(sent') + 1 = next
    BY <1>1, <1>9, <1>12 DEF IInv, InStep
  <2> QED
    BY <1>10, <2>1 DEF Passed
<1>16. IInv'
  BY <1>6, <1>13, <1>14, <1>15 DEF IInv, InStep
<1>17. Promise!Next \/ UNCHANGED Promise!vars
  <2>1. CASE sent[k] \in Odd
    BY <1>1, <1>4, <2>1 DEF Promise!vars, Reading
  <2>2. CASE sent[k] \notin Odd
    <3>1. received' = Append(received, k)
      BY <1>4, <2>2
    <3> QED
      BY <1>1, <1>2, <1>3, <1>18, <2>2, <3>1
         DEF Promise!Next, Promise!Deliver, Passed, Reading
  <2> QED
    BY <2>1, <2>2
<1> QED
  BY <1>16, <1>17

LEMMA EndInStep ==
  ASSUME IInv, NEW how \in {"Failed", "Stopped"}, Ends(how)
  PROVE  IInv' /\ Promise!Next
<1>1. UNCHANGED <<sent, unwritten, writer, pipe, frame, received>> /\ reader' = how
  BY DEF Ends
<1>2. Stream' = Stream /\ Types'
  BY <1>1 DEF Stream, IInv, Types
<1>3. IInv'
  BY <1>1, <1>2, StaysInStep
<1> QED
  BY <1>1, <1>3 DEF Promise!Next, Promise!End, Reading

-----------------------------------------------------------------------------
(* The promise *)

\* However the bytes of frames are split, and wherever a stream is cut: what
\* protocol.rs reads are the messages that were written, whole, in order and
\* each once, but for those it cannot decode.
THEOREM WireKeepsOrder == Spec => KeepsOrder
<1>1. Init => IInv /\ Promise!Init
  <2> SUFFICES ASSUME Init
               PROVE  IInv /\ Promise!Init
    OBVIOUS
  <2>1. Stream = <<>>
    BY DEF Init, Stream
  <2>2. Types
    BY DEF Init, Types
  <2>3. Promise!LastReceived = 0 /\ Len(sent) = 0
    BY DEF Init, Promise!LastReceived
  <2>4. Passed(Len(sent) + 1)
    BY <2>3 DEF Passed
  <2>5. Framed(Stream, sent) /\ Whole(Stream, sent)
    BY <2>1 DEF Framed, Whole
  <2>6. IInv
    BY <2>1, <2>2, <2>4, <2>5 DEF IInv, InStep
  <2> QED
    BY <2>6 DEF Init, Promise!Init, Reading
<1>2. IInv /\ [Next]_vars => IInv' /\ [Promise!Next]_(Promise!vars)
  <2> SUFFICES ASSUME IInv, [Next]_vars
               PROVE  IInv' /\ (Promise!Next \/ UNCHANGED Promise!vars)
    OBVIOUS
  <2>1. CASE \E m \in Messages : Write(m)
    BY <2>1, WriteInStep
  <2>2. CASE SomePush
    BY <2>2, PushInStep DEF SomePush
  <2>3. CASE Close
    BY <2>3, CloseInStep
  <2>4. CASE SomePull
    BY <2>4, PullInStep DEF SomePull
  <2>5. CASE Deliver
    BY <2>5, DeliverInStep
  <2>6. CASE Reject \/ Eof \/ Stop
    BY <2>6, EndInStep DEF Reject, Eof, Stop
  <2>7. CASE UNCHANGED vars
    <3>1. Stream' = Stream /\ Types' /\ UNCHANGED <<sent, received, writer, reader>>
      BY <2>7 DEF vars, Stream, IInv, Types
    <3> QED
      BY <3>1, StaysInStep DEF Promise!vars, Reading
  <2> QED
    BY <2>1, <2>2, <2>3, <2>4, <2>5, <2>6, <2>7 DEF Next
<1> QED
  BY <1>1, <1>2, PTL DEF Spec, KeepsOrder, Promise!Spec

=============================================================================
