---------------------------- MODULE InputProofs ----------------------------
(***************************************************************************)
(* Proofs about Input, for any queue, length of keys and PTY.              *)
(***************************************************************************)
EXTENDS Input, WellFoundedInduction, SequenceTheorems, FiniteSetTheorems, TLAPS

USE InputAssumption

\* The queue ends with the newest key, unless that was dropped.
EndsWithNewest ==
  queue # <<>> /\ ~dropping => queue[Len(queue)] = typed

\* The flag is about the newest key.
DroppingNewest ==
  /\ lost \subseteq 1..typed
  /\ dropping <=> typed \in lost

\* The keys that begin a run of losses.
FirstLosses(keys) == {k \in keys : k - 1 \notin keys}

Losses ==
  /\ DroppingNewest
  /\ banners <= typed
  /\ EveryLossIsTold

Queued == QueueIsOneRun /\ EndsWithNewest

IInv == TypeOK /\ Losses /\ Queued

-----------------------------------------------------------------------------
(* The sequences and sets that the steps make *)

LEMMA KeyType ==
  ASSUME NEW k \in Keys
  PROVE  Key(k) \in Seq(Keys) /\ Len(Key(k)) = KeyBytes
BY DEF Key

LEMMA EmptyType == <<>> \in Seq(Keys) /\ Len(<<>>) = 0
OBVIOUS

LEMMA SplitType ==
  ASSUME NEW s \in Seq(Keys), NEW n \in 1..Len(s)
  PROVE  /\ SubSeq(s, 1, n) \in Seq(Keys) /\ Len(SubSeq(s, 1, n)) = n
         /\ SubSeq(s, n + 1, Len(s)) \in Seq(Keys)
         /\ Len(SubSeq(s, n + 1, Len(s))) = Len(s) - n
OBVIOUS

\* A key that follows a lost one begins no run, and any other begins one.
LEMMA NextLoss ==
  ASSUME NEW n \in Nat, NEW keys \in SUBSET (1..n)
  PROVE  /\ IsFiniteSet(FirstLosses(keys))
         /\ FirstLosses(keys \cup {n + 1}) =
              IF n \in keys THEN FirstLosses(keys) ELSE FirstLosses(keys) \cup {n + 1}
         /\ n + 1 \notin FirstLosses(keys)
<1>1. IsFiniteSet(1..n)
  BY FS_Interval
<1>2. FirstLosses(keys) \subseteq 1..n
  BY DEF FirstLosses
<1>3. IsFiniteSet(FirstLosses(keys))
  BY <1>1, <1>2, FS_Subset
<1>4. n + 1 \notin keys /\ \A k \in keys : k - 1 # n + 1 /\ k \in Int
  OBVIOUS
<1>5. FirstLosses(keys \cup {n + 1}) =
        IF n \in keys THEN FirstLosses(keys) ELSE FirstLosses(keys) \cup {n + 1}
  BY <1>4 DEF FirstLosses
<1> QED
  BY <1>2, <1>3, <1>5

-----------------------------------------------------------------------------
(* The invariant *)

LEMMA InitIInv ==
  ASSUME Init
  PROVE  IInv
<1>1. FirstLosses({}) = {}
  BY DEF FirstLosses
<1>2. Cardinality({k \in lost : k - 1 \notin lost}) = 0
  BY <1>1, FS_EmptySet DEF FirstLosses, Init
<1>3. TypeOK
  <2>1. {running, dropping, writing, open} \subseteq BOOLEAN
    BY Zenon DEF Init
  <2>2. /\ typed \in 0..MaxKeys /\ banners \in 0..MaxKeys
        /\ resizes \in 0..MaxResizes /\ applied \in 0..MaxResizes
        /\ lost \subseteq Keys
    BY DEF Init
  <2>3. /\ queue \in Seq(Keys) /\ Len(queue) <= QueueSize
        /\ pending \in Seq(Keys) /\ Len(pending) <= KeyBytes
        /\ pty \in Seq(Keys) /\ Len(pty) <= PtySize
        /\ got \in Seq(Keys)
    BY EmptyType DEF Init
  <2> QED
    BY <2>1, <2>2, <2>3, Zenon DEF TypeOK
<1>4. Losses
  BY <1>2 DEF Init, Losses, DroppingNewest, EveryLossIsTold
<1>5. Queued
  BY DEF Init, Queued, QueueIsOneRun, EndsWithNewest
<1> QED
  BY <1>3, <1>4, <1>5 DEF IInv

\* A key is typed: it is queued, or lost and the user told.
LEMMA ForwardKeyIInv ==
  ASSUME IInv, ForwardKey
  PROVE  IInv'
<1> DEFINE key == typed + 1
           full == (dropping /\ queue # <<>>) \/ Len(queue) = QueueSize
<1> USE DEF IInv
<1>1. /\ typed' = key /\ key \in Keys
      /\ UNCHANGED <<running, resizes, taskVars>>
  BY DEF ForwardKey, TypeOK, Keys
<1>2. CASE full
  <2>1. /\ lost' = lost \cup {key} /\ dropping' = TRUE /\ queue' = queue
        /\ banners' = IF dropping THEN banners ELSE banners + 1
    BY <1>2 DEF ForwardKey, Write
  <2>2. banners' \in 0..typed' /\ lost' \subseteq 1..typed' /\ typed' \in lost'
    BY <1>1, <2>1 DEF TypeOK, Losses, DroppingNewest
  <2>3. TypeOK'
    BY <1>1, <2>1, <2>2 DEF TypeOK, taskVars, Keys
  <2>4. Queued'
    BY <2>1 DEF Queued, QueueIsOneRun, EndsWithNewest
  <2>5. Cardinality(FirstLosses(lost')) = banners'
    <3>1. typed \in Nat /\ lost \in SUBSET (1..typed) /\ (dropping <=> typed \in lost)
      BY DEF TypeOK, Losses, DroppingNewest
    <3>2. Cardinality(FirstLosses(lost)) = banners /\ banners \in Nat
      BY DEF TypeOK, Losses, EveryLossIsTold, FirstLosses
    <3>3. CASE dropping
      BY <2>1, <3>1, <3>2, <3>3, NextLoss
    <3>4. CASE ~dropping
      <4>1. FirstLosses(lost') = FirstLosses(lost) \cup {key}
        BY <2>1, <3>1, <3>4, NextLoss
      <4>2. Cardinality(FirstLosses(lost) \cup {key}) = banners + 1
        BY <3>1, <3>2, NextLoss, FS_AddElement
      <4> QED
        BY <2>1, <3>4, <4>1, <4>2
    <3> QED
      BY <3>3, <3>4 DEF TypeOK
  <2> QED
    BY <2>1, <2>2, <2>3, <2>4, <2>5 DEF Losses, DroppingNewest, EveryLossIsTold, FirstLosses
<1>3. CASE ~full
  <2>1. queue' = Append(queue, key) /\ dropping' = FALSE /\ UNCHANGED <<lost, banners>>
    BY <1>3 DEF ForwardKey, Write
  <2>2. /\ queue' \in Seq(Keys) /\ Len(queue') = Len(queue) + 1
        /\ \A i \in 1..Len(queue) : queue'[i] = queue[i]
        /\ queue'[Len(queue')] = key
    BY <1>1, <2>1 DEF TypeOK
  <2>3. TypeOK'
    <3>1. Len(queue) \in Nat /\ Len(queue) <= QueueSize /\ Len(queue) # QueueSize
      BY <1>3 DEF TypeOK
    <3>2. Len(queue') <= QueueSize
      BY <2>2, <3>1
    <3>3. dropping' \in BOOLEAN
      BY <2>1, Zenon
    <3>4. typed' \in 0..MaxKeys
      BY <1>1 DEF Keys, TypeOK
    <3> QED
      BY <1>1, <2>1, <2>2, <3>2, <3>3, <3>4, Zenon DEF TypeOK, taskVars
  <2>4. Losses'
    BY <1>1, <2>1 DEF TypeOK, Losses, DroppingNewest, EveryLossIsTold
  <2>5. Queued'
    <3>1. queue # <<>> => queue[Len(queue)] = typed
      BY <1>3 DEF Queued, EndsWithNewest
    <3>2. QueueIsOneRun'
      <4> SUFFICES ASSUME NEW i \in 1..Len(queue') - 1
                   PROVE  queue'[i + 1] = queue'[i] + 1
        BY DEF QueueIsOneRun
      <4>1. i \in 1..Len(queue) /\ queue # <<>> /\ Len(queue) \in Nat
        BY <2>2 DEF TypeOK
      <4>2. CASE i = Len(queue)
        BY <2>2, <3>1, <4>1, <4>2
      <4>3. CASE i # Len(queue)
        <5>1. i \in 1..Len(queue) - 1 /\ i + 1 \in 1..Len(queue)
          BY <4>1, <4>3
        <5> QED
          BY <2>2, <4>1, <5>1 DEF Queued, QueueIsOneRun
      <4> QED
        BY <4>2, <4>3
    <3> QED
      BY <1>1, <2>2, <3>2 DEF Queued, EndsWithNewest
  <2> QED
    BY <2>3, <2>4, <2>5
<1> QED
  BY <1>2, <1>3

\* A key is taken: what stays in the queue is still a run up to its end.
LEMMA TakeInputIInv ==
  ASSUME IInv, TakeInput
  PROVE  IInv'
<1> USE DEF IInv
<1>1. /\ queue # <<>> /\ queue \in Seq(Keys)
      /\ queue' = Tail(queue) /\ pending' = Key(Head(queue))
      /\ UNCHANGED <<running, typed, dropping, lost, banners, resizes, writing, applied, pty, open, got>>
  BY DEF TakeInput, TypeOK
<1>2. /\ queue' \in Seq(Keys) /\ Len(queue') = Len(queue) - 1 /\ Head(queue) \in Keys
      /\ \A i \in 1..Len(queue') : queue'[i] = queue[i + 1]
  BY <1>1
<1>3. TypeOK'
  BY <1>1, <1>2, KeyType DEF TypeOK
<1>4. Losses'
  BY <1>1 DEF Losses, DroppingNewest, EveryLossIsTold
<1>5. QueueIsOneRun'
  <2> SUFFICES ASSUME NEW i \in 1..Len(queue') - 1
               PROVE  queue'[i + 1] = queue'[i] + 1
    BY DEF QueueIsOneRun
  <2>1. i \in 1..Len(queue') /\ i + 1 \in 1..Len(queue') /\ i + 1 \in 1..Len(queue) - 1
    BY <1>1, <1>2
  <2> QED
    BY <1>2, <2>1 DEF Queued, QueueIsOneRun
<1>6. EndsWithNewest'
  <2> SUFFICES ASSUME queue' # <<>>, ~dropping
               PROVE  queue'[Len(queue')] = typed
    BY <1>1 DEF EndsWithNewest
  <2>1. Len(queue') \in 1..Len(queue') /\ Len(queue') + 1 = Len(queue)
    BY <1>1, <1>2
  <2> QED
    BY <1>1, <1>2, <2>1 DEF Queued, EndsWithNewest
<1> QED
  BY <1>3, <1>4, <1>5, <1>6 DEF Queued

\* Everything else leaves the queue and the losses alone.
LEMMA OtherStepsIInv ==
  ASSUME IInv, UNCHANGED <<typed, queue, dropping, lost, banners>>, TypeOK'
  PROVE  IInv'
BY DEF IInv, Losses, DroppingNewest, EveryLossIsTold, Queued, QueueIsOneRun, EndsWithNewest

LEMMA NextIInv ==
  ASSUME IInv, [Next]_vars
  PROVE  IInv'
<1>1. CASE ForwardKey
  BY <1>1, ForwardKeyIInv
<1>2. CASE Resize
  BY <1>2, OtherStepsIInv DEF Resize, taskVars, IInv, TypeOK
<1>3. CASE Stop
  BY <1>3, OtherStepsIInv DEF Stop, taskVars, IInv, TypeOK
<1>4. CASE ApplySize
  BY <1>4, OtherStepsIInv DEF ApplySize, appVars, IInv, TypeOK
<1>5. CASE TakeInput
  BY <1>5, TakeInputIInv
<1>6. CASE WriteSome
  <2>1. PICK n \in 1..Len(pending) :
          /\ Len(pty) + n <= PtySize
          /\ pty' = pty \o SubSeq(pending, 1, n)
          /\ pending' = SubSeq(pending, n + 1, Len(pending))
    BY <1>6 DEF WriteSome
  <2>2. pty \in Seq(Keys) /\ pending \in Seq(Keys) /\ Len(pending) <= KeyBytes
    BY DEF IInv, TypeOK
  <2>3. /\ pty' \in Seq(Keys) /\ Len(pty') <= PtySize
        /\ pending' \in Seq(Keys) /\ Len(pending') <= KeyBytes
    <3>1. Len(pending') = Len(pending) - n /\ pending' \in Seq(Keys)
      BY <2>1, <2>2, SplitType
    <3>2. Len(pty') = Len(pty) + n /\ pty' \in Seq(Keys)
      BY <2>1, <2>2, SplitType, ConcatProperties
    <3> QED
      BY <2>1, <2>2, <3>1, <3>2
  <2>4. UNCHANGED <<appVars, writing, applied, open, got>>
    BY <1>6 DEF WriteSome
  <2> QED
    BY <2>3, <2>4, OtherStepsIInv DEF appVars, IInv, TypeOK
<1>7. CASE WriteFails
  BY <1>7, OtherStepsIInv DEF WriteFails, appVars, IInv, TypeOK
<1>8. CASE WriterEnds
  BY <1>8, OtherStepsIInv DEF WriterEnds, appVars, IInv, TypeOK
<1>9. CASE ChildReads
  <2>1. pty \in Seq(Keys) /\ pty # <<>> /\ got \in Seq(Keys) /\ Len(pty) <= PtySize
    BY <1>9 DEF ChildReads, IInv, TypeOK
  <2>2. /\ pty' \in Seq(Keys) /\ Len(pty') <= PtySize /\ got' \in Seq(Keys)
        /\ UNCHANGED <<appVars, writing, pending, applied, open>>
    BY <1>9, <2>1 DEF ChildReads
  <2> QED
    BY <2>2, OtherStepsIInv DEF appVars, IInv, TypeOK
<1>10. CASE ChildCloses
  <2>1. open' \in BOOLEAN /\ pty' = <<>> /\ UNCHANGED <<appVars, writing, pending, applied, got>>
    BY <1>10, Zenon DEF ChildCloses
  <2>2. pty' \in Seq(Keys) /\ Len(pty') <= PtySize
    BY <2>1, EmptyType
  <2>3. TypeOK'
    BY <2>1, <2>2, Zenon DEF appVars, IInv, TypeOK
  <2> QED
    BY <2>1, <2>3, OtherStepsIInv DEF appVars
<1>11. CASE UNCHANGED vars
  BY <1>11, OtherStepsIInv DEF vars, appVars, taskVars, IInv, TypeOK
<1> QED
  BY <1>1, <1>2, <1>3, <1>4, <1>5, <1>6, <1>7, <1>8, <1>9, <1>10, <1>11 DEF Next, Writer

-----------------------------------------------------------------------------
(* Induction *)

LEMMA Least ==
  ASSUME NEW S \in SUBSET Nat, S # {}
  PROVE  \E x \in S : \A y \in S : x <= y
<1> DEFINE R == OpToRel(<, Nat)
<1>1. IsWellFoundedOn(R, Nat)
  BY NatLessThanWellFounded
<1>2. \A x, y \in Nat : x < y => <<x, y>> \in R
  BY DEF OpToRel
<1> HIDE DEF R
<1>3. \E x \in S : \A y \in S : ~ (<<y, x>> \in R)
  BY <1>1, WFMin
<1>4. PICK x \in S : \A y \in S : ~ (<<y, x>> \in R)
  BY <1>3
<1>5. \A y \in S : x <= y
  <2> TAKE y \in S
  <2>1. ~(y < x)
    BY <1>2, <1>4
  <2> QED
    BY <2>1
<1> QED
  BY <1>5

LEMMA Induction ==
  ASSUME NEW T, 0 \in T, \A n \in Nat : n \in T => n + 1 \in T
  PROVE  \A n \in Nat : n \in T
<1> SUFFICES ASSUME Nat \ T # {}
             PROVE  FALSE
  OBVIOUS
<1>1. PICK x \in Nat \ T : \A y \in Nat \ T : x <= y
  <2> DEFINE S == Nat \ T
  <2>1. S \in SUBSET Nat /\ S # {}
    OBVIOUS
  <2> HIDE DEF S
  <2>2. \E x \in S : \A y \in S : x <= y
    BY <2>1, Least
  <2> QED
    BY <2>2 DEF S
<1>2. x # 0
  OBVIOUS
<1>3. x - 1 \in Nat /\ ~(x <= x - 1)
  BY <1>2
<1>4. x - 1 \in T
  BY <1>1, <1>3
<1>5. (x - 1) + 1 \in T /\ (x - 1) + 1 = x
  BY <1>3, <1>4
<1> QED
  BY <1>5

-----------------------------------------------------------------------------
(* The keys accepted *)

\* g gives what is accepted of the first keys, for each number of them up to n.
Accepts(g, n, gone) ==
  g = [k \in 0..n |-> IF k = 0 THEN <<>> ELSE IF k \in gone THEN g[k - 1] ELSE Append(g[k - 1], k)]

LEMMA AcceptsExist ==
  ASSUME NEW gone, NEW n \in Nat
  PROVE  \E g : Accepts(g, n, gone)
<1> DEFINE T == {m \in Nat : \E g : Accepts(g, m, gone)}
<1>1. 0 \in T
  <2> DEFINE g == [k \in 0..0 |-> <<>>]
  <2>1. Accepts(g, 0, gone)
    BY DEF Accepts
  <2> QED
    BY <2>1
<1>2. ASSUME NEW m \in Nat, m \in T
      PROVE  m + 1 \in T
  <2>1. PICK g : Accepts(g, m, gone)
    BY <1>2
  <2> DEFINE last == IF m + 1 \in gone THEN g[m] ELSE Append(g[m], m + 1)
             h == [k \in 0..m + 1 |-> IF k <= m THEN g[k] ELSE last]
             step(k) == IF k = 0 THEN <<>> ELSE IF k \in gone THEN h[k - 1] ELSE Append(h[k - 1], k)
  <2>2. ASSUME NEW k \in 0..m + 1
        PROVE  h[k] = step(k)
    <3>1. CASE k <= m
      <4>1. k \in 0..m /\ h[k] = g[k] /\ (k # 0 => k - 1 \in 0..m + 1 /\ h[k - 1] = g[k - 1])
        BY <3>1
      <4>2. g[k] = IF k = 0 THEN <<>> ELSE IF k \in gone THEN g[k - 1] ELSE Append(g[k - 1], k)
        BY <2>1, <4>1 DEF Accepts
      <4> QED
        BY <4>1, <4>2
    <3>2. CASE ~(k <= m)
      <4>1. k = m + 1 /\ k # 0 /\ k - 1 = m /\ m \in 0..m + 1 /\ h[k] = last /\ h[m] = g[m]
        BY <3>2
      <4> QED
        BY <4>1
    <3> QED
      BY <3>1, <3>2
  <2>3. h = [k \in 0..m + 1 |-> h[k]]
    OBVIOUS
  <2> HIDE DEF h
  <2>4. Accepts(h, m + 1, gone)
    BY <2>2, <2>3 DEF Accepts
  <2> QED
    BY <2>4
<1> HIDE DEF T
<1>3. n \in T
  BY <1>1, <1>2, Induction
<1> QED
  BY <1>3 DEF T

LEMMA AcceptsStep ==
  ASSUME NEW g, NEW n \in Nat, NEW gone, Accepts(g, n, gone)
  PROVE  /\ g[0] = <<>>
         /\ \A k \in 1..n : g[k] = IF k \in gone THEN g[k - 1] ELSE Append(g[k - 1], k)
<1>1. \A k \in 0..n :
        g[k] = IF k = 0 THEN <<>> ELSE IF k \in gone THEN g[k - 1] ELSE Append(g[k - 1], k)
  BY DEF Accepts
<1> QED
  BY <1>1

\* What is accepted of the first keys is the same whatever becomes of the rest.
LEMMA AcceptsAgree ==
  ASSUME NEW g, NEW h, NEW n \in Nat, NEW m \in Nat, n <= m, NEW gone, NEW more,
         Accepts(g, n, gone), Accepts(h, m, more), \A k \in 1..n : k \in gone <=> k \in more
  PROVE  g[n] = h[n]
<1> DEFINE T == {k \in Nat : k <= n => g[k] = h[k]}
<1>1. 0 \in T
  <2>1. g[0] = <<>>
    <3>1. Accepts(g, n, gone)
      OBVIOUS
    <3> QED
      BY <3>1, AcceptsStep
  <2>2. h[0] = <<>>
    <3>1. Accepts(h, m, more)
      OBVIOUS
    <3> QED
      BY <3>1, AcceptsStep
  <2> QED
    BY <2>1, <2>2
<1>2. ASSUME NEW k \in Nat, k \in T
      PROVE  k + 1 \in T
  <2> SUFFICES ASSUME k + 1 <= n
               PROVE  g[k + 1] = h[k + 1]
    OBVIOUS
  <2>1. k + 1 \in 1..n /\ k + 1 \in 1..m /\ (k + 1) - 1 = k /\ k <= n
    OBVIOUS
  <2>2. g[k] = h[k]
    BY <1>2, <2>1
  <2>3. /\ g[k + 1] = IF k + 1 \in gone THEN g[(k + 1) - 1] ELSE Append(g[(k + 1) - 1], k + 1)
        /\ h[k + 1] = IF k + 1 \in more THEN h[(k + 1) - 1] ELSE Append(h[(k + 1) - 1], k + 1)
    BY <2>1, AcceptsStep
  <2> QED
    BY <2>1, <2>2, <2>3
<1> HIDE DEF T
<1>3. n \in T
  BY <1>1, <1>2, Induction
<1> QED
  BY <1>3 DEF T

LEMMA AcceptsType ==
  ASSUME NEW g, NEW n \in 0..MaxKeys, NEW gone, Accepts(g, n, gone)
  PROVE  g[n] \in Seq(Keys)
<1> DEFINE T == {k \in Nat : k <= n => g[k] \in Seq(Keys)}
<1>1. 0 \in T
  <2>1. n \in Nat
    OBVIOUS
  <2>2. g[0] = <<>>
    BY <2>1, AcceptsStep
  <2>3. g[0] \in Seq(Keys)
    BY <2>2, EmptySeq
  <2> QED
    BY <2>3
<1>2. ASSUME NEW k \in Nat, k \in T
      PROVE  k + 1 \in T
  <2> SUFFICES ASSUME k + 1 <= n
               PROVE  g[k + 1] \in Seq(Keys)
    OBVIOUS
  <2>1. k + 1 \in 1..n /\ (k + 1) - 1 = k /\ k + 1 \in Keys
    BY DEF Keys
  <2>2. g[k] \in Seq(Keys)
    BY <1>2, <2>1
  <2>3. g[k + 1] = IF k + 1 \in gone THEN g[(k + 1) - 1] ELSE Append(g[(k + 1) - 1], k + 1)
    BY <2>1, AcceptsStep
  <2> QED
    BY <2>1, <2>2, <2>3, AppendProperties
<1> HIDE DEF T
<1>3. n \in T
  BY <1>1, <1>2, Induction
<1> QED
  BY <1>3 DEF T

LEMMA AcceptedIs ==
  TypeOK => \E f : Accepts(f, typed, lost) /\ Accepted = f[typed]
<1> SUFFICES ASSUME TypeOK
             PROVE  \E f : Accepts(f, typed, lost) /\ Accepted = f[typed]
  OBVIOUS
<1> DEFINE upTo == CHOOSE g : g = [k \in 0..typed |-> IF k = 0 THEN <<>>
                                     ELSE IF k \in lost THEN g[k - 1] ELSE Append(g[k - 1], k)]
<1>1. typed \in Nat
  BY DEF TypeOK
<1>2. PICK h : Accepts(h, typed, lost)
  BY <1>1, AcceptsExist
<1>3. h = [k \in 0..typed |-> IF k = 0 THEN <<>>
                              ELSE IF k \in lost THEN h[k - 1] ELSE Append(h[k - 1], k)]
  BY <1>2 DEF Accepts
<1>4. upTo = [k \in 0..typed |-> IF k = 0 THEN <<>>
                                 ELSE IF k \in lost THEN upTo[k - 1] ELSE Append(upTo[k - 1], k)]
  BY <1>3
<1>5. Accepted = upTo[typed]
  BY DEF Accepted
<1> HIDE DEF upTo
<1>6. Accepts(upTo, typed, lost)
  BY <1>4 DEF Accepts
<1> QED
  BY <1>5, <1>6

LEMMA AcceptedType ==
  ASSUME TypeOK
  PROVE  Accepted \in Seq(Keys)
BY AcceptedIs, AcceptsType DEF TypeOK

\* A key that is typed is added, unless it is lost.
LEMMA AcceptedNext ==
  ASSUME IInv, IInv', typed' = typed + 1, lost' = lost \/ lost' = lost \cup {typed + 1}
  PROVE  Accepted' = IF typed + 1 \in lost' THEN Accepted ELSE Append(Accepted, typed + 1)
<1>1. TypeOK /\ TypeOK' /\ typed \in Nat /\ lost \subseteq 1..typed
  BY SMTT(30) DEF IInv, TypeOK, Losses, DroppingNewest
<1>2. PICK g : Accepts(g, typed, lost) /\ Accepted = g[typed]
  BY <1>1, AcceptedIs
<1>3. PICK h : Accepts(h, typed + 1, lost') /\ Accepted' = h[typed + 1]
  <2>1. TypeOK' => (\E f : Accepts(f, typed, lost) /\ Accepted = f[typed])'
    BY AcceptedIs, PTL
  <2> QED
    BY <1>1, <2>1 DEF Accepts
<1>4. /\ \A k \in 1..typed : k \in lost <=> k \in lost'
      /\ typed <= typed + 1 /\ typed + 1 \in Nat /\ typed + 1 \in 1..typed + 1
      /\ (typed + 1) - 1 = typed
  BY <1>1
<1>5. g[typed] = h[typed]
  BY <1>1, <1>2, <1>3, <1>4, AcceptsAgree
<1>6. h[typed + 1] = IF typed + 1 \in lost' THEN h[(typed + 1) - 1]
                     ELSE Append(h[(typed + 1) - 1], typed + 1)
  BY <1>3, <1>4, AcceptsStep
<1> QED
  BY <1>2, <1>3, <1>4, <1>5, <1>6

-----------------------------------------------------------------------------
(* The bytes of keys *)

LEMMA ConcatKeys ==
  ASSUME NEW s \in Seq(Keys), NEW t \in Seq(Keys)
  PROVE  /\ s \o t \in Seq(Keys) /\ Len(s \o t) = Len(s) + Len(t)
         /\ \A i \in 1..Len(s) + Len(t) :
              (s \o t)[i] = IF i <= Len(s) THEN s[i] ELSE t[i - Len(s)]
BY ConcatProperties

LEMMA ConcatKeysAssociative ==
  ASSUME NEW s \in Seq(Keys), NEW t \in Seq(Keys), NEW u \in Seq(Keys)
  PROVE  (s \o t) \o u = s \o (t \o u)
BY ConcatAssociative

LEMMA Below ==
  ASSUME NEW a \in Nat, NEW b \in Nat \ {0}, NEW n \in Nat, a < n * b
  PROVE  a \div b \in 0..(n - 1)
OBVIOUS

LEMMA BytesType ==
  ASSUME NEW s \in Seq(Keys)
  PROVE  /\ Bytes(s) \in Seq(Keys) /\ Len(Bytes(s)) = Len(s) * KeyBytes
         /\ \A i \in 1..Len(s) * KeyBytes : Bytes(s)[i] = s[(i - 1) \div KeyBytes + 1]
<1>1. Len(s) \in Nat /\ Len(s) * KeyBytes \in Nat
  OBVIOUS
<1>2. ASSUME NEW i \in 1..Len(s) * KeyBytes
      PROVE  (i - 1) \div KeyBytes + 1 \in 1..Len(s)
  <2>1. i - 1 \in Nat /\ i - 1 < Len(s) * KeyBytes
    BY <1>1
  <2>2. (i - 1) \div KeyBytes \in 0..Len(s) - 1
    BY <1>1, <2>1
  <2> QED
    BY <1>1, <2>2
<1> QED
  BY <1>1, <1>2 DEF Bytes

LEMMA BytesAppend ==
  ASSUME NEW s \in Seq(Keys), NEW k \in Keys
  PROVE  Bytes(Append(s, k)) = Bytes(s) \o Key(k)
<1> DEFINE n == Len(s)
           t == Append(s, k)
           b == Bytes(s) \o Key(k)
<1>1. /\ t \in Seq(Keys) /\ Len(t) = n + 1 /\ t[n + 1] = k /\ \A j \in 1..n : t[j] = s[j]
      /\ n \in Nat
  BY AppendProperties
<1>2. n * KeyBytes \in Nat /\ (n + 1) * KeyBytes = n * KeyBytes + KeyBytes
  BY <1>1
<1>3. /\ Key(k) \in Seq(Keys) /\ Len(Key(k)) = KeyBytes
      /\ \A i \in 1..KeyBytes : Key(k)[i] = k
  BY KeyType DEF Key
<1>4. /\ b \in Seq(Keys) /\ Len(b) = n * KeyBytes + KeyBytes
      /\ \A i \in 1..n * KeyBytes + KeyBytes :
           b[i] = IF i <= n * KeyBytes THEN Bytes(s)[i] ELSE Key(k)[i - n * KeyBytes]
  <2>1. Bytes(s) \in Seq(Keys) /\ Len(Bytes(s)) = n * KeyBytes
    BY BytesType
  <2> DEFINE u == Bytes(s)
             v == Key(k)
  <2> HIDE DEF t, n, u, v
  <2>2. /\ u \in Seq(Keys) /\ v \in Seq(Keys) /\ Len(u) = n * KeyBytes /\ Len(v) = KeyBytes
        /\ b = u \o v
    BY <1>3, <2>1 DEF u, v
  <2> HIDE DEF b
  <2>3. /\ u \o v \in Seq(Keys) /\ Len(u \o v) = Len(u) + Len(v)
        /\ \A i \in 1..Len(u) + Len(v) :
             (u \o v)[i] = IF i <= Len(u) THEN u[i] ELSE v[i - Len(u)]
    BY ONLY <2>2, ConcatKeys
  <2>4. /\ b \in Seq(Keys) /\ Len(b) = n * KeyBytes + KeyBytes
        /\ \A i \in 1..n * KeyBytes + KeyBytes :
             b[i] = IF i <= n * KeyBytes THEN u[i] ELSE v[i - n * KeyBytes]
    BY ONLY <2>2, <2>3
  <2> QED
    BY <2>4 DEF u, v
<1> HIDE DEF t, b, n
<1>5. /\ Bytes(t) \in Seq(Keys) /\ Len(Bytes(t)) = n * KeyBytes + KeyBytes
      /\ \A i \in 1..n * KeyBytes + KeyBytes : Bytes(t)[i] = t[(i - 1) \div KeyBytes + 1]
  BY <1>1, <1>2, BytesType
<1>6. ASSUME NEW i \in 1..n * KeyBytes + KeyBytes
      PROVE  Bytes(t)[i] = b[i]
  <2>1. CASE i <= n * KeyBytes
    <3>1. i \in 1..n * KeyBytes /\ i - 1 \in Nat /\ i - 1 < n * KeyBytes
      BY <1>2, <2>1
    <3>2. (i - 1) \div KeyBytes \in 0..n - 1
      BY <1>1, <3>1
    <3>3. (i - 1) \div KeyBytes + 1 \in 1..n
      BY <1>1, <3>2
    <3>4. Bytes(s)[i] = s[(i - 1) \div KeyBytes + 1]
      BY <3>1, BytesType DEF n
    <3> QED
      BY <1>1, <1>4, <1>5, <2>1, <3>3, <3>4
  <2>2. CASE ~(i <= n * KeyBytes)
    <3>1. /\ i - 1 \in Nat /\ n * KeyBytes <= i - 1 /\ i - 1 < (n + 1) * KeyBytes
          /\ i - n * KeyBytes \in 1..KeyBytes
      BY <1>2, <2>2
    <3>2. (i - 1) \div KeyBytes = n
      BY <1>1, <3>1
    <3>3. Bytes(t)[i] = k
      BY <1>1, <1>5, <3>2
    <3>4. Key(k)[i - n * KeyBytes] = k
      BY <1>3, <3>1
    <3>5. b[i] = Key(k)[i - n * KeyBytes]
      BY <1>4, <2>2
    <3> QED
      BY <3>3, <3>4, <3>5
  <2> QED
    BY <2>1, <2>2
<1>7. Bytes(t) = b
  BY <1>4, <1>5, <1>6, SeqEqual
<1> QED
  BY <1>7 DEF t, b

LEMMA BytesTaken ==
  ASSUME NEW s \in Seq(Keys), s # <<>>
  PROVE  Bytes(s) = Key(Head(s)) \o Bytes(Tail(s))
<1> DEFINE n == Len(Tail(s))
           t == Tail(s)
           b == Key(Head(s)) \o Bytes(t)
<1>1. /\ t \in Seq(Keys) /\ n \in Nat /\ Len(s) = n + 1 /\ \A j \in 1..n : t[j] = s[j + 1]
      /\ Head(s) = s[1] /\ Head(s) \in Keys
  BY HeadTailProperties
<1>2. n * KeyBytes \in Nat /\ (n + 1) * KeyBytes = KeyBytes + n * KeyBytes
  BY <1>1
<1>3. /\ Key(Head(s)) \in Seq(Keys) /\ Len(Key(Head(s))) = KeyBytes
      /\ \A i \in 1..KeyBytes : Key(Head(s))[i] = s[1]
  BY <1>1, KeyType DEF Key
<1>4. /\ Bytes(t) \in Seq(Keys) /\ Len(Bytes(t)) = n * KeyBytes
      /\ \A i \in 1..n * KeyBytes : Bytes(t)[i] = t[(i - 1) \div KeyBytes + 1]
  BY <1>1, BytesType
<1>5. /\ b \in Seq(Keys) /\ Len(b) = KeyBytes + n * KeyBytes
      /\ \A i \in 1..KeyBytes + n * KeyBytes :
           b[i] = IF i <= KeyBytes THEN Key(Head(s))[i] ELSE Bytes(t)[i - KeyBytes]
  <2> DEFINE u == Key(Head(s))
             v == Bytes(t)
  <2> HIDE DEF t, n, u, v
  <2>1. /\ u \in Seq(Keys) /\ v \in Seq(Keys) /\ Len(u) = KeyBytes /\ Len(v) = n * KeyBytes
        /\ b = u \o v
    BY <1>3, <1>4 DEF u, v
  <2> HIDE DEF b
  <2>2. /\ b \in Seq(Keys) /\ Len(b) = KeyBytes + n * KeyBytes
        /\ \A i \in 1..KeyBytes + n * KeyBytes :
             b[i] = IF i <= KeyBytes THEN u[i] ELSE v[i - KeyBytes]
    <3>1. /\ b \in Seq(Keys) /\ Len(b) = Len(u) + Len(v)
          /\ \A i \in 1..Len(u) + Len(v) :
               b[i] = IF i <= Len(u) THEN u[i] ELSE v[i - Len(u)]
      BY <2>1, ConcatKeys
    <3> QED
      BY <2>1, <3>1
  <2> QED
    BY <2>2 DEF u, v
<1> HIDE DEF t, b, n
<1>6. /\ Bytes(s) \in Seq(Keys) /\ Len(Bytes(s)) = KeyBytes + n * KeyBytes
      /\ \A i \in 1..KeyBytes + n * KeyBytes : Bytes(s)[i] = s[(i - 1) \div KeyBytes + 1]
  BY <1>1, <1>2, BytesType
<1>7. ASSUME NEW i \in 1..KeyBytes + n * KeyBytes
      PROVE  Bytes(s)[i] = b[i]
  <2>1. CASE i <= KeyBytes
    <3>1. i - 1 \in Nat /\ i - 1 < KeyBytes /\ i \in 1..KeyBytes
      BY <1>2, <2>1
    <3>2. (i - 1) \div KeyBytes = 0
      BY <3>1
    <3> QED
      BY <1>3, <1>5, <1>6, <2>1, <3>1, <3>2
  <2>2. CASE ~(i <= KeyBytes)
    <3> DEFINE j == (i - KeyBytes) - 1
    <3>1. /\ i - KeyBytes \in 1..n * KeyBytes /\ j \in Nat /\ j < n * KeyBytes
          /\ i - 1 = j + KeyBytes
      BY <1>2, <2>2
    <3> HIDE DEF j
    <3>2. (i - 1) \div KeyBytes = j \div KeyBytes + 1
      BY <3>1
    <3>3. j \div KeyBytes \in 0..(n - 1)
      BY <1>1, <3>1, InputAssumption, Below
    <3>4. j \div KeyBytes + 1 \in 1..n
      BY <1>1, <3>3
    <3>5. Bytes(t)[i - KeyBytes] = t[j \div KeyBytes + 1]
      BY <1>4, <3>1 DEF j
    <3> QED
      BY <1>1, <1>5, <1>6, <2>2, <3>2, <3>4, <3>5
  <2> QED
    BY <2>1, <2>2
<1>8. Bytes(s) = b
  BY <1>5, <1>6, <1>7, SeqEqual
<1> QED
  BY <1>8 DEF t, b

-----------------------------------------------------------------------------
(* Theorems *)

LEMMA Invariance == Spec => []IInv
<1>1. Init => IInv
  BY InitIInv
<1>2. IInv /\ [Next]_vars => IInv'
  BY NextIInv
<1> QED
  BY <1>1, <1>2, PTL DEF Spec

\* What waits in the queue was typed in one run, for every queue and however
\* the writer takes from it (Process::write).
THEOREM QueueHoldsOneRun == Spec => []QueueIsOneRun
<1>1. IInv => QueueIsOneRun
  BY DEF IInv, Queued
<1> QED
  BY <1>1, Invariance, PTL

\* The user is told once of each run of lost keys (the banner of
\* Process::write).
THEOREM LossesAreTold == Spec => []EveryLossIsTold
<1>1. IInv => EveryLossIsTold
  BY DEF IInv, Losses
<1> QED
  BY <1>1, Invariance, PTL

-----------------------------------------------------------------------------
(* What arrives *)

LEMMA Written ==
  ASSUME NEW s \in Seq(Keys), NEW n \in 1..Len(s)
  PROVE  SubSeq(s, 1, n) \o SubSeq(s, n + 1, Len(s)) = s
<1>1. 1 \in 1..Len(s) + 1 /\ n \in 0..Len(s) /\ Len(s) \in n..Len(s)
  OBVIOUS
<1>2. SubSeq(s, 1, n) \o SubSeq(s, n + 1, Len(s)) = SubSeq(s, 1, Len(s))
  BY <1>1, ConcatAdjacentSubSeq
<1> QED
  BY <1>2, SubSeqFull

LEMMA ReadNext ==
  ASSUME NEW a \in Seq(Keys), NEW s \in Seq(Keys), s # <<>>
  PROVE  Append(a, Head(s)) \o Tail(s) = a \o s
<1> DEFINE h == <<Head(s)>>
<1>1. Head(s) \in Keys /\ Tail(s) \in Seq(Keys) /\ 1 \in 1..Len(s)
  BY HeadTailProperties
<1>2. h \in Seq(Keys) /\ h = SubSeq(s, 1, 1)
  BY <1>1
<1>3. Tail(s) = SubSeq(s, 2, Len(s))
  BY TailIsSubSeq
<1>4. h \o Tail(s) = s
  <2>1. SubSeq(s, 1, 1) \o SubSeq(s, 1 + 1, Len(s)) = s
    BY <1>1, Written
  <2>2. 1 + 1 = 2
    OBVIOUS
  <2> QED
    BY <1>2, <1>3, <2>1, <2>2
<1>5. Append(a, Head(s)) = a \o h
  BY <1>1, AppendIsConcat
<1> HIDE DEF h
<1>6. (a \o h) \o Tail(s) = a \o (h \o Tail(s))
  BY <1>1, <1>2, ConcatKeysAssociative
<1> QED
  BY <1>4, <1>5, <1>6

\* What the child read, the PTY holds and the writer has yet to write.
Underway == got \o pty \o pending

LEMMA UnderwayType ==
  ASSUME TypeOK
  PROVE  Underway \in Seq(Keys) /\ got \o pty \in Seq(Keys)
<1>1. got \o pty \in Seq(Keys)
  BY ConcatProperties DEF TypeOK
<1> QED
  BY <1>1, ConcatProperties DEF TypeOK, Underway

\* Writing to the PTY, and reading from it, moves bytes on.
LEMMA UnderwayKept ==
  ASSUME TypeOK, WriteSome \/ ChildReads
  PROVE  Underway' = Underway
<1>1. got \in Seq(Keys) /\ pty \in Seq(Keys) /\ pending \in Seq(Keys)
  BY DEF TypeOK
<1>2. CASE WriteSome
  <2>1. PICK n \in 1..Len(pending) :
          /\ pty' = pty \o SubSeq(pending, 1, n)
          /\ pending' = SubSeq(pending, n + 1, Len(pending))
          /\ got' = got
    BY <1>2 DEF WriteSome
  <2> DEFINE x == SubSeq(pending, 1, n)
             y == SubSeq(pending, n + 1, Len(pending))
  <2>2. x \in Seq(Keys) /\ y \in Seq(Keys)
    BY <1>1, SplitType
  <2>3. x \o y = pending
    BY <1>1, Written
  <2>4. pty' = pty \o x /\ pending' = y
    BY <2>1
  <2> HIDE DEF x, y
  <2>5. got \o (pty \o x) = (got \o pty) \o x
    BY <1>1, <2>2, ConcatKeysAssociative
  <2>6. ((got \o pty) \o x) \o y = (got \o pty) \o (x \o y)
    <3>1. got \o pty \in Seq(Keys)
      BY UnderwayType
    <3> QED
      BY <2>2, <3>1, ConcatKeysAssociative
  <2> QED
    BY <2>1, <2>3, <2>4, <2>5, <2>6 DEF Underway
<1>3. CASE ChildReads
  <2>1. /\ pty # <<>> /\ got' = Append(got, Head(pty)) /\ pty' = Tail(pty)
        /\ pending' = pending
    BY <1>3 DEF ChildReads
  <2>2. Append(got, Head(pty)) \o Tail(pty) = got \o pty
    BY <1>1, <2>1, ReadNext
  <2> QED
    BY <2>1, <2>2 DEF Underway
<1> QED
  BY <1>2, <1>3

\* A key that is taken is underway, and not in the queue any more.
LEMMA UnderwayTaken ==
  ASSUME TypeOK, TakeInput
  PROVE  Underway' \o Bytes(queue') = Underway \o Bytes(queue)
<1>1. /\ queue \in Seq(Keys) /\ queue # <<>> /\ pending = <<>> /\ queue' = Tail(queue)
      /\ pending' = Key(Head(queue)) /\ UNCHANGED <<got, pty>>
  BY DEF TypeOK, TakeInput
<1> DEFINE a == got \o pty
           h == Key(Head(queue))
           b == Bytes(Tail(queue))
<1>2. a \in Seq(Keys)
  BY UnderwayType
<1>3. h \in Seq(Keys) /\ b \in Seq(Keys)
  BY <1>1, HeadTailProperties, KeyType, BytesType
<1>4. Bytes(queue) = h \o b
  BY <1>1, BytesTaken
<1>5. Underway = a \o <<>> /\ Underway' = a \o h /\ Bytes(queue') = b
  BY <1>1 DEF Underway
<1> HIDE DEF a, h, b
<1>6. a \o <<>> = a
  BY <1>2, ConcatEmptySeq
<1>7. (a \o h) \o b = a \o (h \o b)
  BY <1>2, <1>3, ConcatKeysAssociative
<1> QED
  BY <1>4, <1>5, <1>6, <1>7

LEMMA AcceptedKept ==
  ASSUME UNCHANGED <<typed, lost>>
  PROVE  Accepted' = Accepted
BY DEF Accepted

LEMMA ForwardKeyArrives ==
  ASSUME IInv, IInv', BytesArriveInOrder, ForwardKey
  PROVE  BytesArriveInOrder'
<1> SUFFICES ASSUME open'
             PROVE  Underway' \o Bytes(queue') = Bytes(Accepted')
  BY DEF BytesArriveInOrder, Underway, Bytes
<1> DEFINE key == typed + 1
<1>1. /\ typed' = key /\ key \in Keys /\ key \notin lost
      /\ UNCHANGED <<pending, pty, got, open>>
      /\ TypeOK
  BY DEF ForwardKey, taskVars, IInv, TypeOK, Keys, Losses, DroppingNewest
<1>2. Underway \o Bytes(queue) = Bytes(Accepted) /\ Underway' = Underway
  BY <1>1 DEF BytesArriveInOrder, Underway
<1>3. \/ lost' = lost \cup {key} /\ queue' = queue
      \/ lost' = lost /\ queue' = Append(queue, key)
  BY DEF ForwardKey, Write
<1>4. Accepted' = IF key \in lost' THEN Accepted ELSE Append(Accepted, key)
  BY <1>1, <1>3, AcceptedNext
<1> HIDE DEF key
<1>5. CASE lost' = lost \cup {key} /\ queue' = queue
  BY <1>2, <1>4, <1>5
<1>6. CASE lost' = lost /\ queue' = Append(queue, key)
  <2>1. Accepted \in Seq(Keys) /\ queue \in Seq(Keys) /\ Underway \in Seq(Keys)
    BY <1>1, AcceptedType, UnderwayType DEF TypeOK
  <2>2. /\ Bytes(Append(queue, key)) = Bytes(queue) \o Key(key)
        /\ Bytes(Append(Accepted, key)) = Bytes(Accepted) \o Key(key)
    BY <1>1, <2>1, BytesAppend
  <2>3. Bytes(queue) \in Seq(Keys) /\ Key(key) \in Seq(Keys)
    BY <1>1, <2>1, BytesType, KeyType
  <2>4. Underway \o (Bytes(queue) \o Key(key)) = (Underway \o Bytes(queue)) \o Key(key)
    BY <2>1, <2>3, ConcatKeysAssociative
  <2>5. Accepted' = Append(Accepted, key)
    BY <1>1, <1>4, <1>6
  <2> QED
    BY <1>2, <1>6, <2>2, <2>4, <2>5
<1> QED
  BY <1>3, <1>5, <1>6

LEMMA NextArrives ==
  ASSUME IInv, IInv', BytesArriveInOrder, [Next]_vars
  PROVE  BytesArriveInOrder'
<1>1. TypeOK
  BY DEF IInv
<1>2. ASSUME UNCHANGED <<typed, lost>>, open' => open,
             open' => Underway' \o Bytes(queue') = Underway \o Bytes(queue)
      PROVE  BytesArriveInOrder'
  <2>1. Accepted' = Accepted
    BY <1>2, AcceptedKept
  <2>2. open => Underway \o Bytes(queue) = Bytes(Accepted)
    BY DEF BytesArriveInOrder, Underway
  <2>3. open' => Underway' \o Bytes(queue') = Bytes(Accepted')
    BY <1>2, <2>1, <2>2
  <2> QED
    BY <2>3 DEF BytesArriveInOrder, Underway, Bytes
<1>3. ASSUME UNCHANGED <<typed, lost, queue, pending, pty, got, open>>
      PROVE  BytesArriveInOrder'
  <2>1. Underway' = Underway
    BY <1>3 DEF Underway
  <2> QED
    BY <1>2, <1>3, <2>1
<1>4. CASE ForwardKey
  BY <1>4, ForwardKeyArrives
<1>5. CASE Resize \/ Stop \/ ApplySize \/ WriterEnds \/ UNCHANGED vars
  BY <1>3, <1>5 DEF Resize, Stop, ApplySize, WriterEnds, vars, appVars, taskVars
<1>6. CASE TakeInput
  BY <1>1, <1>2, <1>6, UnderwayTaken DEF TakeInput
<1>7. CASE WriteSome \/ ChildReads
  <2>1. UNCHANGED <<typed, lost, queue, open>>
    BY <1>7 DEF WriteSome, ChildReads, appVars
  <2> QED
    BY <1>1, <1>2, <1>7, <2>1, UnderwayKept
<1>8. CASE WriteFails
  <2>1. UNCHANGED <<typed, lost, open>> /\ ~open
    BY <1>8 DEF WriteFails, appVars
  <2> QED
    BY <1>2, <2>1
<1>9. CASE ChildCloses
  <2>1. UNCHANGED <<typed, lost>> /\ ~open'
    BY <1>9 DEF ChildCloses, appVars
  <2> QED
    BY <1>2, <2>1
<1> QED
  BY <1>4, <1>5, <1>6, <1>7, <1>8, <1>9 DEF Next, Writer

LEMMA InitArrives ==
  ASSUME Init
  PROVE  BytesArriveInOrder
<1>1. TypeOK /\ typed = 0 /\ queue = <<>>
  BY InitIInv DEF IInv, Init
<1>2. Accepted = <<>>
  <2>1. PICK g : Accepts(g, 0, lost) /\ Accepted = g[0]
    BY <1>1, AcceptedIs
  <2> QED
    BY <2>1, AcceptsStep
<1>3. <<>> \o <<>> \o <<>> \o Bytes(<<>>) = Bytes(<<>>)
  <2>1. Bytes(<<>>) \in Seq(Keys)
    BY EmptyType, BytesType
  <2>2. <<>> \o <<>> = <<>>
    BY EmptyType, ConcatEmptySeq
  <2> QED
    BY <2>1, <2>2, ConcatEmptySeq
<1> QED
  BY <1>1, <1>2, <1>3 DEF BytesArriveInOrder, Init

\* As long as the child has its terminal, the bytes it read and those on their
\* way are the keys accepted, each byte once and in order, for keys of any
\* length, any queue and PTY, and whatever part of a key each write takes.
THEOREM BytesArrive == Spec => []BytesArriveInOrder
BY InitArrives, NextArrives, Invariance, PTL DEF Spec

=============================================================================
