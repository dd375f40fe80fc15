---------------------------- MODULE SearchProofs ----------------------------
(***************************************************************************)
(* Proofs about Search, for any height, any length of the scrollback, any  *)
(* queries and any number of writes.                                       *)
(***************************************************************************)
EXTENDS Search, WellFoundedInduction, SequenceTheorems, TLAPS

-----------------------------------------------------------------------------
(* Least and greatest *)

LEMMA Least ==
  ASSUME NEW S \in SUBSET Nat, S # {}
  PROVE  \E x \in S : \A y \in S : x <= y
<1> DEFINE R == OpToRel(<, Nat)
<1>1. IsWellFoundedOn(R, Nat)
  BY NatLessThanWellFounded
<1>2. \A x, y \in Nat : x < y => <<x, y>> \in R
  BY DEF OpToRel
<1> HIDE DEF R
<1>3. \E x \in S : \A y \in S : ~ (<<y, x>> \in R)
  BY <1>1, WFMin
<1>4. PICK x \in S : \A y \in S : ~ (<<y, x>> \in R)
  BY <1>3
<1>5. \A y \in S : x <= y
  <2> TAKE y \in S
  <2>1. ~(y < x)
    BY <1>2, <1>4
  <2> QED
    BY <2>1
<1> QED
  BY <1>5

LEMMA MinIsLeast ==
  ASSUME NEW S \in SUBSET Nat, S # {}
  PROVE  Min(S) \in S /\ \A y \in S : Min(S) <= y
BY Least DEF Min

LEMMA MaxIsGreatest ==
  ASSUME NEW n \in Nat, NEW S \in SUBSET (0..n), S # {}
  PROVE  Max(S) \in S /\ \A y \in S : y <= Max(S)
<1> DEFINE T == {n - x : x \in S}
<1>1. T \in SUBSET Nat /\ T # {}
  OBVIOUS
<1>2. \A x \in S : n - x \in T
  OBVIOUS
<1>3. \A t \in T : \E x \in S : t = n - x
  OBVIOUS
<1> HIDE DEF T
<1>4. PICK t \in T : \A u \in T : t <= u
  BY <1>1, Least
<1>5. PICK x \in S : t = n - x
  BY <1>3
<1>6. \A y \in S : x >= y
  <2> TAKE y \in S
  <2>1. n - x <= n - y
    BY <1>2, <1>4, <1>5
  <2> QED
    BY <2>1
<1>7. Max(S) \in S /\ \A y \in S : Max(S) >= y
  BY <1>6 DEF Max
<1> QED
  BY <1>7

LEMMA FunctionIsSeq ==
  ASSUME NEW S, NEW n \in Nat, NEW f \in [1..n -> S]
  PROVE  f \in Seq(S) /\ Len(f) = n
BY DEF Seq

LEMMA MinOfTwo ==
  ASSUME NEW a \in Nat, NEW b \in Nat
  PROVE  Min({a, b}) = IF a <= b THEN a ELSE b
<1>1. Min({a, b}) \in {a, b} /\ \A y \in {a, b} : Min({a, b}) <= y
  BY MinIsLeast
<1> QED
  BY <1>1

-----------------------------------------------------------------------------
(* The view *)

LEMMA ViewTypes ==
  ASSUME TypeOK
  PROVE  /\ text \in Seq(Lines) /\ Len(text) \in Nat /\ Len(text) >= Rows
         /\ Len(text) <= Rows + ScrollbackLen
         /\ Rows \in Nat /\ Rows >= 1 /\ ScrollbackLen \in Nat
         /\ MaxOffset \in 0..ScrollbackLen
         /\ MaxOffset = IF alternate THEN 0 ELSE Len(text) - Rows
         /\ offset \in 0..MaxOffset
         /\ Top \in Nat /\ Top + offset = MaxOffset
         /\ \A n \in Nat : Clamp(n) = IF n <= MaxOffset THEN n ELSE MaxOffset
<1>1. /\ text \in Seq(Lines) /\ Len(text) \in Nat /\ Len(text) >= Rows
      /\ Len(text) <= Rows + ScrollbackLen /\ offset \in 0..MaxOffset
      /\ Rows \in Nat /\ Rows >= 1 /\ ScrollbackLen \in Nat
  BY SearchAssumption DEF TypeOK
<1>2. /\ MaxOffset \in 0..ScrollbackLen
      /\ MaxOffset = IF alternate THEN 0 ELSE Len(text) - Rows
  BY <1>1 DEF MaxOffset
<1>3. Top \in Nat /\ Top + offset = MaxOffset
  BY <1>1, <1>2 DEF Top
<1>4. \A n \in Nat : Clamp(n) = IF n <= MaxOffset THEN n ELSE MaxOffset
  BY <1>2, MinOfTwo DEF Clamp
<1> QED
  BY <1>1, <1>2, <1>3, <1>4

LEMMA ScrolledWithin ==
  ASSUME TypeOK, NEW n \in Nat
  PROVE  /\ Clamp(n) \in 0..MaxOffset
         /\ (IF offset > n THEN offset - n ELSE 0) \in 0..MaxOffset
BY ViewTypes

LEMMA CentredIs ==
  ASSUME NEW row
  PROVE  Centred(row) = IF MaxOffset + Rows \div 2 <= row THEN 0
                        ELSE Clamp((MaxOffset + Rows \div 2) - row)
<1> DEFINE back == MaxOffset + Rows \div 2
<1>1. Centred(row) = IF back <= row THEN 0 ELSE Clamp(back - row)
  BY DEF Centred
<1> QED
  BY <1>1

\* The arithmetic of scroll_to_row: m is the greatest offset, c the offset.
LEMMA CentredWithin ==
  ASSUME NEW m \in Nat, NEW rows \in Nat, NEW h \in Nat, h <= rows - 1, NEW row \in Nat, NEW c,
         c = IF m + h <= row THEN 0 ELSE IF (m + h) - row <= m THEN (m + h) - row ELSE m
  PROVE  /\ c \in 0..m
         /\ row < m + rows => row >= m - c /\ row <= m - c + rows - 1
<1>1. CASE m + h <= row
  BY <1>1
<1>2. CASE ~(m + h <= row) /\ (m + h) - row <= m
  <2>1. c = (m + h) - row
    BY <1>2
  <2>2. c >= 0 /\ c <= m
    BY <1>2, <2>1
  <2>3. row >= m - c
    BY <2>1
  <2>4. row <= m - c + rows - 1
    BY <2>1
  <2> QED
    BY <2>1, <2>2, <2>3, <2>4
<1>3. CASE ~(m + h <= row) /\ ~((m + h) - row <= m)
  <2>1. c = m
    BY <1>3
  <2>2. row < h
    BY <1>3
  <2> QED
    BY <2>1, <2>2
<1> QED
  BY <1>1, <1>2, <1>3

\* scroll_to_row puts a row of the text into the view.
LEMMA CentredShows ==
  ASSUME TypeOK, NEW row \in Nat
  PROVE  /\ Centred(row) \in 0..MaxOffset
         /\ ~alternate /\ row < Len(text) =>
              row \in (MaxOffset - Centred(row))..(MaxOffset - Centred(row) + Rows - 1)
<1> DEFINE h == Rows \div 2
<1>1. h \in Nat /\ h <= Rows - 1
  BY ViewTypes
<1>2. Centred(row) = IF MaxOffset + h <= row THEN 0 ELSE Clamp((MaxOffset + h) - row)
  BY CentredIs
<1> HIDE DEF h
<1>3. ~(MaxOffset + h <= row) =>
        Clamp((MaxOffset + h) - row)
          = IF (MaxOffset + h) - row <= MaxOffset THEN (MaxOffset + h) - row ELSE MaxOffset
  <2>1. ~(MaxOffset + h <= row) => (MaxOffset + h) - row \in Nat
    BY <1>1, ViewTypes
  <2> QED
    BY <2>1, ViewTypes
<1>4. /\ Centred(row) \in 0..MaxOffset
      /\ row < MaxOffset + Rows => /\ row >= MaxOffset - Centred(row)
                                   /\ row <= MaxOffset - Centred(row) + Rows - 1
  <2>1. Centred(row) = IF MaxOffset + h <= row THEN 0
                       ELSE IF (MaxOffset + h) - row <= MaxOffset THEN (MaxOffset + h) - row
                       ELSE MaxOffset
    BY <1>2, <1>3
  <2>2. MaxOffset \in Nat /\ Rows \in Nat
    BY ViewTypes
  <2> QED
    BY <1>1, <2>1, <2>2, CentredWithin
<1>5. ~alternate => MaxOffset + Rows = Len(text)
  BY ViewTypes
<1> QED
  BY <1>4, <1>5, ViewTypes

LEMMA MatchingRows ==
  ASSUME NEW lines, Len(lines) \in Nat, NEW q
  PROVE  Matching(lines, q) \subseteq 0..(Len(lines) - 1)
BY DEF Matching

LEMMA LenOfView ==
  ASSUME TypeOK
  PROVE  Len(View) = Rows
<1>1. CASE alternate
  BY <1>1, ViewTypes DEF View, TypeOK
<1>2. CASE ~alternate
  <2>1. Top \in Nat /\ Top + Rows <= Len(text) /\ Rows >= 1
    BY <1>2, ViewTypes
  <2>2. \A i \in (Top + 1)..(Top + Rows) : text[i] \in Lines
    BY <2>1, ViewTypes
  <2>3. Len(SubSeq(text, Top + 1, Top + Rows))
          = IF Top + 1 <= Top + Rows THEN (Top + Rows) - (Top + 1) + 1 ELSE 0
    BY <2>1, <2>2, ViewTypes, SubSeqProperties
  <2>4. Len(SubSeq(text, Top + 1, Top + Rows)) = Rows
    BY <2>1, <2>3, ViewTypes
  <2> QED
    BY <1>2, <2>4 DEF View
<1> QED
  BY <1>1, <1>2

-----------------------------------------------------------------------------
(* Matches *)

QueryType == Queries \cup {Empty}

AllType == [query : QueryType, matches : SUBSET RowsKept, rows : 0..Rows + ScrollbackLen]

VisibleType == [query : QueryType, offset : 0..ScrollbackLen, matches : SUBSET (0..Rows - 1)]

LEMMA AllMatchesType ==
  ASSUME TypeOK, NEW q \in QueryType
  PROVE  AllMatches(q) \in AllType
<1>1. CASE q = Empty
  BY <1>1, ViewTypes DEF AllMatches, AllType, QueryType
<1>2. CASE q # Empty /\ Cached(all, q)
  BY <1>2 DEF AllMatches, AllType, QueryType, TypeOK
<1>3. CASE q # Empty /\ ~Cached(all, q)
  <2>1. Matching(text, q) \subseteq RowsKept
    BY ViewTypes, MatchingRows DEF RowsKept
  <2> QED
    BY <1>3, <2>1, ViewTypes DEF AllMatches, AllType, QueryType
<1> QED
  BY <1>1, <1>2, <1>3

LEMMA VisibleMatchesType ==
  ASSUME TypeOK, NEW q \in QueryType
  PROVE  VisibleMatches(q) \in VisibleType
<1>1. Matching(View, q) \subseteq 0..Rows - 1
  BY ViewTypes, LenOfView, MatchingRows
<1> QED
  BY <1>1, ViewTypes DEF VisibleMatches, VisibleType, QueryType, TypeOK

LEMMA FindAllType ==
  ASSUME TypeOK, NEW q \in QueryType, FindAll(q)
  PROVE  all' \in AllType /\ visible' \in VisibleType /\ dirty' \in BOOLEAN
<1>1. all \in AllType /\ visible \in VisibleType /\ dirty \in BOOLEAN
  BY DEF TypeOK, AllType, VisibleType, QueryType
<1> QED
  BY <1>1, AllMatchesType DEF FindAll, cacheVars

\* The match that is jumped to is one of those found.
LEMMA JumpTargetFound ==
  ASSUME TypeOK, NEW found \in AllType, found.matches # {}
  PROVE  JumpTarget(found) \in found.matches
<1> DEFINE bottom == (IF found.rows > Rows + offset THEN found.rows - Rows - offset ELSE 0) + Rows
           before == {r \in found.matches : r <= bottom}
           S == IF before = {} THEN found.matches ELSE before
<1>1. JumpTarget(found) = Max(S)
  BY DEF JumpTarget
<1>2. found.matches \subseteq 0..(Rows + ScrollbackLen - 1) /\ Rows + ScrollbackLen - 1 \in Nat
  BY ViewTypes DEF AllType, RowsKept
<1>3. S # {} /\ S \subseteq found.matches
  OBVIOUS
<1> HIDE DEF S
<1>4. Max(S) \in S
  BY <1>2, <1>3, MaxIsGreatest
<1> QED
  BY <1>1, <1>3, <1>4

-----------------------------------------------------------------------------
(* The inductive invariant *)

\* A match that is current is one of those found; none is while a query is typed.
Inv == TypeOK /\ CurrentIsAMatch /\ (searching => current = NoMatch)

LEMMA Blank ==
  /\ BlankScreen \in [1..Rows -> Lines]
  /\ BlankScreen \in Seq(Lines) /\ Len(BlankScreen) = Rows
BY SearchAssumption DEF BlankScreen, Lines

LEMMA InvInit ==
  ASSUME Init
  PROVE  Inv
<1>1. text \in Seq(Lines) /\ Len(text) = Rows /\ alt \in [1..Rows -> Lines]
  BY Blank DEF Init
<1>2. MaxOffset = 0
  BY <1>1, SearchAssumption DEF MaxOffset, Init
<1>3. all \in AllType /\ visible \in VisibleType
  BY SearchAssumption DEF AllType, VisibleType, QueryType, Init
<1>4. Rows \in Rows..Rows + ScrollbackLen /\ 0 \in 0..MaxWrites /\ 0 \in 0..0
  BY SearchAssumption
<1>5. TypeOK
  BY <1>1, <1>2, <1>3, <1>4, Zenon DEF TypeOK, Init, AllType, VisibleType, QueryType
<1> QED
  BY <1>5 DEF Inv, CurrentIsAMatch, Init

LEMMA MaxOffsetNext ==
  ASSUME text' \in Seq(Lines), Len(text') \in Rows..Rows + ScrollbackLen, alternate' \in BOOLEAN
  PROVE  MaxOffset' \in 0..ScrollbackLen
BY SearchAssumption DEF MaxOffset

LEMMA PinnedWithin ==
  ASSUME TypeOK, MaxOffset' \in Nat, Pinned
  PROVE  offset' \in 0..MaxOffset'
<1> DEFINE grown == IF MaxOffset' > MaxOffset THEN MaxOffset' - MaxOffset ELSE 0
<1>1. offset' = IF offset = 0 THEN 0 ELSE Min({offset + grown, MaxOffset'})
  BY DEF Pinned
<1>2. offset \in Nat /\ grown \in Nat
  BY ViewTypes
<1> HIDE DEF grown
<1>3. Min({offset + grown, MaxOffset'})
        = IF offset + grown <= MaxOffset' THEN offset + grown ELSE MaxOffset'
  BY <1>2, MinOfTwo
<1> QED
  BY <1>1, <1>2, <1>3

\* What every write keeps, given what it does to the text and the view.
LEMMA WriteKeeps ==
  ASSUME Inv, Writes,
         text' \in Seq(Lines), Len(text') \in Rows..Rows + ScrollbackLen,
         alt' \in [1..Rows -> Lines], alternate' \in BOOLEAN,
         offset' \in 0..MaxOffset'
  PROVE  Inv'
<1>1. writes' \in 0..MaxWrites
  BY SearchAssumption DEF Inv, TypeOK, Writes
<1>2. TypeOK'
  BY <1>1 DEF Inv, TypeOK, Writes, searchVars
<1> QED
  BY <1>2 DEF Inv, CurrentIsAMatch, Writes, searchVars

LEMMA PushType ==
  ASSUME NEW kept \in Seq(Lines), NEW l \in Lines,
         Len(kept) \in Rows..Rows + ScrollbackLen
  PROVE  /\ Push(kept, l) \in Seq(Lines) /\ Len(Push(kept, l)) \in Rows..Rows + ScrollbackLen
         /\ Len(Push(kept, l)) >= Len(kept)
<1>1. Rows \in Nat \ {0} /\ ScrollbackLen \in Nat /\ Len(kept) \in Nat
  BY SearchAssumption
<1>2. CASE Len(kept) = Rows + ScrollbackLen
  <2>1. kept # <<>>
    BY <1>1, <1>2
  <2>2. Tail(kept) \in Seq(Lines) /\ Len(Tail(kept)) = Len(kept) - 1
    BY <2>1, HeadTailProperties
  <2>3. Append(Tail(kept), l) \in Seq(Lines) /\ Len(Append(Tail(kept), l)) = Len(kept)
    BY <1>1, <2>2, AppendProperties
  <2> QED
    BY <1>1, <1>2, <2>3 DEF Push
<1>3. CASE Len(kept) # Rows + ScrollbackLen
  <2>1. Append(kept, l) \in Seq(Lines) /\ Len(Append(kept, l)) = Len(kept) + 1
    BY AppendProperties
  <2> QED
    BY <1>1, <1>3, <2>1 DEF Push
<1> QED
  BY <1>2, <1>3

LEMMA ShiftType ==
  ASSUME NEW screen \in [1..Rows -> Lines], NEW l \in Lines
  PROVE  Shift(screen, l) \in [1..Rows -> Lines]
<1>1. screen \in Seq(Lines) /\ Len(screen) = Rows /\ Rows \in Nat /\ Rows >= 1
  BY SearchAssumption, FunctionIsSeq
<1>2. screen # <<>>
  BY <1>1
<1>3. Tail(screen) \in Seq(Lines) /\ Len(Tail(screen)) = Rows - 1
  BY <1>1, <1>2, HeadTailProperties
<1>4. Append(Tail(screen), l) \in Seq(Lines) /\ Len(Append(Tail(screen), l)) = Rows
  BY <1>1, <1>3, AppendProperties
<1> QED
  BY <1>4, LenProperties DEF Shift

LEMMA InvPrints ==
  ASSUME Inv, NEW l \in Lines, Prints(l)
  PROVE  Inv'
<1> USE DEF Inv
<1>1. /\ Push(text, l) \in Seq(Lines) /\ Len(Push(text, l)) \in Rows..Rows + ScrollbackLen
      /\ Shift(alt, l) \in [1..Rows -> Lines]
  BY PushType, ShiftType DEF TypeOK
<1>2. /\ text' \in Seq(Lines) /\ Len(text') \in Rows..Rows + ScrollbackLen
      /\ alt' \in [1..Rows -> Lines] /\ alternate' \in BOOLEAN
  BY <1>1 DEF Prints, TypeOK
<1>3. offset' \in 0..MaxOffset'
  BY <1>2, MaxOffsetNext, PinnedWithin DEF Prints
<1> QED
  BY <1>2, <1>3, WriteKeeps DEF Prints

LEMMA InvOverwrite ==
  ASSUME Inv, NEW i \in 1..Rows, NEW l \in Lines, Overwrite(i, l)
  PROVE  Inv'
<1> USE DEF Inv
<1>1. /\ text' \in Seq(Lines) /\ Len(text') = Len(text)
      /\ alt' \in [1..Rows -> Lines]
  <2>1. CASE alternate
    BY <2>1, ViewTypes DEF Overwrite, TypeOK
  <2>2. CASE ~alternate
    <3>1. alt' = alt /\ text' = [text EXCEPT ![Len(text) - Rows + i] = l]
      BY <2>2 DEF Overwrite
    <3>2. text' \in Seq(Lines) /\ Len(text') = Len(text)
      BY <3>1, ViewTypes, ExceptSeq
    <3> QED
      BY <3>1, <3>2 DEF TypeOK
  <2> QED
    BY <2>1, <2>2
<1>2. Len(text') \in Rows..Rows + ScrollbackLen /\ alternate' \in BOOLEAN
  BY <1>1 DEF Overwrite, TypeOK
<1>3. offset' \in 0..MaxOffset'
  BY <1>1, <1>2, MaxOffsetNext, PinnedWithin DEF Overwrite
<1> QED
  BY <1>1, <1>2, <1>3, WriteKeeps DEF Overwrite

LEMMA InvEnterAlternate ==
  ASSUME Inv, EnterAlternate
  PROVE  Inv'
<1> USE DEF Inv
<1>1. /\ text' \in Seq(Lines) /\ Len(text') \in Rows..Rows + ScrollbackLen
      /\ alt' \in [1..Rows -> Lines] /\ alternate' \in BOOLEAN
  BY Blank DEF EnterAlternate, TypeOK
<1>2. offset' \in 0..MaxOffset'
  BY <1>1, MaxOffsetNext, PinnedWithin DEF EnterAlternate
<1> QED
  BY <1>1, <1>2, WriteKeeps DEF EnterAlternate

LEMMA InvLeaveAlternate ==
  ASSUME Inv, LeaveAlternate
  PROVE  Inv'
<1> USE DEF Inv
<1>1. /\ text' \in Seq(Lines) /\ Len(text') \in Rows..Rows + ScrollbackLen
      /\ alt' \in [1..Rows -> Lines] /\ alternate' \in BOOLEAN
  BY DEF LeaveAlternate, TypeOK
<1>2. offset' \in 0..MaxOffset'
  BY <1>1, MaxOffsetNext, PinnedWithin DEF LeaveAlternate
<1> QED
  BY <1>1, <1>2, WriteKeeps DEF LeaveAlternate

LEMMA InvResetTerminal ==
  ASSUME Inv, ResetTerminal
  PROVE  Inv'
<1> USE DEF Inv
<1>1. /\ text' \in Seq(Lines) /\ Len(text') \in Rows..Rows + ScrollbackLen
      /\ alt' \in [1..Rows -> Lines] /\ alternate' \in BOOLEAN
  <2>1. /\ BlankScreen \in [1..Rows -> Lines] /\ BlankScreen \in Seq(Lines)
        /\ Len(BlankScreen) \in Rows..Rows + ScrollbackLen
    BY Blank, SearchAssumption
  <2> QED
    BY <2>1 DEF ResetTerminal
<1>2. offset' \in 0..MaxOffset'
  BY <1>1, MaxOffsetNext, PinnedWithin DEF ResetTerminal
<1> QED
  BY <1>1, <1>2, WriteKeeps DEF ResetTerminal

LEMMA InvInjectBanner ==
  ASSUME Inv, NEW label \in Lines, InjectBanner(label)
  PROVE  Inv'
<1> USE DEF Inv
<1>1. {} \in Lines
  BY DEF Lines
<1>2. /\ text' \in Seq(Lines) /\ Len(text') \in Rows..Rows + ScrollbackLen
      /\ alt' \in [1..Rows -> Lines] /\ alternate' \in BOOLEAN
  <2>1. CASE alternate
    <3>1. Shift(alt, label) \in [1..Rows -> Lines]
      BY ShiftType DEF TypeOK
    <3>2. Shift(Shift(alt, label), {}) \in [1..Rows -> Lines]
      BY <1>1, <3>1, ShiftType
    <3> QED
      BY <2>1, <3>2 DEF InjectBanner, TypeOK
  <2>2. CASE ~alternate
    <3>1. /\ Push(text, label) \in Seq(Lines)
          /\ Len(Push(text, label)) \in Rows..Rows + ScrollbackLen
      BY PushType DEF TypeOK
    <3>2. /\ Push(Push(text, label), {}) \in Seq(Lines)
          /\ Len(Push(Push(text, label), {})) \in Rows..Rows + ScrollbackLen
      BY <1>1, <3>1, PushType
    <3> QED
      BY <2>2, <3>2 DEF InjectBanner, TypeOK
  <2> QED
    BY <2>1, <2>2 DEF TypeOK
<1>3. MaxOffset' \in Nat
  BY <1>2, MaxOffsetNext
<1>4. offset' \in 0..MaxOffset'
  <2>1. PICK moved \in 0..2 :
          offset' = IF offset = 0 THEN 0 ELSE Min({offset + moved, MaxOffset'})
    BY DEF InjectBanner
  <2>2. offset + moved \in Nat
    BY ViewTypes
  <2>3. Min({offset + moved, MaxOffset'})
          = IF offset + moved <= MaxOffset' THEN offset + moved ELSE MaxOffset'
    BY <1>3, <2>2, MinOfTwo
  <2> QED
    BY <1>3, <2>1, <2>2, <2>3
<1> QED
  BY <1>2, <1>4, WriteKeeps DEF InjectBanner

LEMMA ViewSame ==
  ASSUME UNCHANGED <<text, alternate>>
  PROVE  MaxOffset' = MaxOffset
BY DEF MaxOffset

LEMMA InvScrollTo ==
  ASSUME Inv, NEW n \in 0..MaxOffset, ScrollTo(n)
  PROVE  Inv'
<1>1. MaxOffset' = MaxOffset
  BY ViewSame DEF ScrollTo
<1> QED
  BY <1>1 DEF ScrollTo, Inv, TypeOK, CurrentIsAMatch, cacheVars, searchVars

LEMMA InvScrolled ==
  ASSUME Inv, Scrolled
  PROVE  Inv'
<1> USE DEF Inv
<1>1. CASE ScrollToTop
  BY <1>1, ViewTypes, ScrolledWithin, InvScrollTo DEF ScrollToTop
<1>2. CASE ScrollToBottom
  BY <1>2, ViewTypes, InvScrollTo DEF ScrollToBottom
<1>3. ASSUME NEW n \in 1..Rows, ScrollUp(n)
      PROVE  Inv'
  <2>1. offset + n \in Nat
    BY ViewTypes
  <2> QED
    BY <1>3, <2>1, ScrolledWithin, InvScrollTo DEF ScrollUp
<1>4. ASSUME NEW n \in 1..Rows, ScrollDown(n)
      PROVE  Inv'
  BY SMTT(30), <1>4, ViewTypes, ScrolledWithin, InvScrollTo DEF ScrollDown
<1> QED
  BY <1>1, <1>2, <1>3, <1>4 DEF Scrolled

-----------------------------------------------------------------------------
(* Searching *)

LEMMA InvDraw ==
  ASSUME Inv, Draw
  PROVE  Inv'
<1> USE DEF Inv
<1>1. MaxOffset' = MaxOffset
  BY ViewSame DEF Draw, termVars
<1>2. /\ highlights' \in SUBSET (0..Rows - 1) /\ visible' \in VisibleType
      /\ dirty' \in BOOLEAN /\ all' = all
  <2>1. CASE query = Empty \/ searching
    <3>1. visible \in VisibleType
      BY DEF TypeOK, VisibleType, QueryType
    <3> QED
      BY <2>1, <3>1 DEF Draw, cacheVars, TypeOK
  <2>2. CASE ~(query = Empty \/ searching)
    <3>1. VisibleMatches(query) \in VisibleType
      BY VisibleMatchesType DEF TypeOK, QueryType
    <3>2. VisibleMatches(query).matches \in SUBSET (0..Rows - 1)
      BY <3>1 DEF VisibleType
    <3> QED
      BY <2>2, <3>1, <3>2 DEF Draw
  <2> QED
    BY <2>1, <2>2
<1>3. TypeOK'
  BY <1>1, <1>2 DEF Draw, TypeOK, termVars, searchVars, VisibleType, QueryType
<1> QED
  BY <1>3 DEF CurrentIsAMatch, Draw, searchVars

\* What an accepted search finds, and whether it jumps.
LEMMA AcceptFinds ==
  ASSUME Inv, SearchAccept
  PROVE  /\ query' \in QueryType /\ lastQuery' \in QueryType
         /\ current = NoMatch
         /\ alternate => UNCHANGED <<cacheVars, matches, current, offset>>
         /\ ~alternate =>
              \E found \in AllType :
                /\ found = AllMatches(query') /\ FindAll(query')
                /\ matches' = found.matches
                /\ found.matches = {} => UNCHANGED <<current, offset>>
                /\ found.matches # {} => /\ current' = JumpTarget(found)
                                         /\ JumpTarget(found) \in found.matches
                                         /\ offset' = Centred(JumpTarget(found))
<1> USE DEF Inv
<1> DEFINE q == IF query = Empty THEN lastQuery ELSE query
<1>1. q \in QueryType
  BY DEF TypeOK, QueryType
<1>2. query' = q /\ lastQuery' = q /\ current = NoMatch
  BY DEF SearchAccept
<1>3. alternate => UNCHANGED <<cacheVars, matches, current, offset>>
  BY DEF SearchAccept
<1>4. ~alternate => /\ FindAll(q)
                    /\ matches' = AllMatches(q).matches
                    /\ IF AllMatches(q).matches = {} THEN UNCHANGED <<current, offset>>
                       ELSE /\ current' = JumpTarget(AllMatches(q))
                            /\ offset' = Centred(JumpTarget(AllMatches(q)))
  BY DEF SearchAccept
<1> HIDE DEF q
<1>5. AllMatches(q) \in AllType
  BY <1>1, AllMatchesType
<1>6. AllMatches(q).matches # {} => JumpTarget(AllMatches(q)) \in AllMatches(q).matches
  BY <1>5, JumpTargetFound
<1> QED
  BY <1>1, <1>2, <1>3, <1>4, <1>5, <1>6

LEMMA MatchIsRow ==
  ASSUME TypeOK
  PROVE  RowsKept \subseteq Nat
BY ViewTypes DEF RowsKept

LEMMA InvSearchAccept ==
  ASSUME Inv, SearchAccept
  PROVE  Inv'
<1>1. TypeOK /\ CurrentIsAMatch
  BY DEF Inv
<1>2. /\ UNCHANGED <<text, alt, alternate, writes, highlights>> /\ searching' = FALSE
      /\ query' \in QueryType /\ lastQuery' \in QueryType /\ current = NoMatch
  BY AcceptFinds DEF SearchAccept
<1>3. MaxOffset' = MaxOffset
  BY <1>2, ViewSame
<1>4. /\ all' \in AllType /\ visible' \in VisibleType /\ dirty' \in BOOLEAN
      /\ matches' \subseteq RowsKept /\ current' \in RowsKept \cup {NoMatch}
      /\ offset' \in 0..MaxOffset
      /\ CurrentIsAMatch'
  <2>1. CASE alternate
    BY <1>1, <2>1, AcceptFinds
       DEF TypeOK, AllType, VisibleType, QueryType, cacheVars, CurrentIsAMatch
  <2>2. CASE ~alternate
    <3>1. PICK found \in AllType :
            /\ found = AllMatches(query') /\ FindAll(query')
            /\ matches' = found.matches
            /\ found.matches = {} => UNCHANGED <<current, offset>>
            /\ found.matches # {} => /\ current' = JumpTarget(found)
                                     /\ JumpTarget(found) \in found.matches
                                     /\ offset' = Centred(JumpTarget(found))
      BY <2>2, AcceptFinds
    <3>2. all' \in AllType /\ visible' \in VisibleType /\ dirty' \in BOOLEAN
      <4>1. /\ all \in AllType /\ visible \in VisibleType /\ dirty \in BOOLEAN
            /\ AllMatches(query') \in AllType
        BY <1>1, <3>1 DEF TypeOK, AllType, VisibleType, QueryType
      <4> QED
        BY <3>1, <4>1 DEF FindAll, cacheVars
    <3>3. found.matches \subseteq RowsKept
      BY DEF AllType
    <3>4. CASE found.matches = {}
      BY <1>1, <1>2, <3>1, <3>2, <3>4 DEF TypeOK, CurrentIsAMatch
    <3>5. CASE found.matches # {}
      <4>1. JumpTarget(found) \in RowsKept /\ JumpTarget(found) \in Nat
        BY <1>1, <3>1, <3>3, <3>5, MatchIsRow
      <4>2. offset' \in 0..MaxOffset
        BY <1>1, <3>1, <3>5, <4>1, CentredShows
      <4> QED
        BY <3>1, <3>2, <3>3, <3>5, <4>1, <4>2 DEF CurrentIsAMatch
    <3> QED
      BY <3>4, <3>5
  <2> QED
    BY <2>1, <2>2
<1>5. TypeOK'
  BY <1>1, <1>2, <1>3, <1>4 DEF TypeOK, AllType, VisibleType, QueryType
<1> QED
  BY <1>2, <1>4, <1>5 DEF Inv

\* A step that clears the search, or changes only the query.
LEMMA ClearKeeps ==
  ASSUME Inv, Clear, UNCHANGED <<text, alt, alternate, writes, cacheVars, lastQuery, highlights>>,
         offset' \in 0..MaxOffset, searching' \in BOOLEAN
  PROVE  Inv'
<1>1. MaxOffset' = MaxOffset
  BY ViewSame
<1> QED
  BY <1>1 DEF Inv, TypeOK, CurrentIsAMatch, Clear, cacheVars

LEMMA QueryKeeps ==
  ASSUME Inv, query' \in QueryType,
         UNCHANGED <<termVars, cacheVars, searching, lastQuery, matches, current, highlights>>
  PROVE  Inv'
<1>1. MaxOffset' = MaxOffset
  BY ViewSame DEF termVars
<1> QED
  BY <1>1 DEF Inv, TypeOK, CurrentIsAMatch, QueryType, termVars, cacheVars

\* What N and n go to is a match.
LEMMA Targets ==
  ASSUME TypeOK
  PROVE  /\ Below # {} => Min(Below) \in matches
         /\ Above # {} => Max(Above) \in matches
<1>1. /\ Below \subseteq matches /\ Above \subseteq matches
      /\ matches \subseteq 0..(Rows + ScrollbackLen - 1)
  BY DEF Below, Above, TypeOK, RowsKept
<1>2. Rows + ScrollbackLen - 1 \in Nat
  BY ViewTypes
<1>3. Below # {} => Min(Below) \in Below
  BY <1>1, <1>2, MinIsLeast
<1>4. Above # {} => Max(Above) \in Above
  BY <1>1, <1>2, MaxIsGreatest
<1> QED
  BY <1>1, <1>3, <1>4

LEMMA GoToKeeps ==
  ASSUME Inv, ~searching, NEW row \in matches, GoTo(row),
         UNCHANGED <<text, alt, alternate, writes, cacheVars, searching, query, lastQuery, matches,
                     highlights>>
  PROVE  Inv'
<1>1. MaxOffset' = MaxOffset
  BY ViewSame
<1>2. row \in RowsKept /\ row \in Nat
  BY MatchIsRow DEF Inv, TypeOK
<1>3. current' = row /\ offset' \in 0..MaxOffset
  BY <1>2, CentredShows DEF GoTo, Inv
<1> QED
  BY <1>1, <1>2, <1>3 DEF Inv, TypeOK, CurrentIsAMatch, cacheVars

LEMMA InvSearched ==
  ASSUME Inv, Searched
  PROVE  Inv'
<1>1. TypeOK
  BY DEF Inv
<1>2. offset \in 0..MaxOffset /\ 0 \in 0..MaxOffset /\ searching \in BOOLEAN
      /\ lastQuery \in QueryType
  BY <1>1, ViewTypes DEF TypeOK, QueryType
<1>3. CASE EnterSearch
  BY <1>2, <1>3, ClearKeeps DEF EnterSearch, termVars
<1>4. ASSUME NEW q \in Queries \cup {Empty}, TypeQuery(q)
      PROVE  Inv'
  BY <1>4, QueryKeeps DEF TypeQuery, QueryType
<1>5. CASE SearchFillPlaceholder
  BY <1>2, <1>5, QueryKeeps DEF SearchFillPlaceholder
<1>6. CASE SearchAccept
  BY <1>6, InvSearchAccept
<1>7. CASE SearchCancel
  BY <1>2, <1>7, ClearKeeps DEF SearchCancel
<1>8. CASE SwitchTab
  BY <1>2, <1>8, ClearKeeps DEF SwitchTab, termVars
<1>9. CASE SearchNext
  BY <1>1, <1>9, Targets, GoToKeeps DEF SearchNext
<1>10. CASE SearchPrev
  BY <1>1, <1>10, Targets, GoToKeeps DEF SearchPrev
<1> QED
  BY <1>3, <1>4, <1>5, <1>6, <1>7, <1>8, <1>9, <1>10 DEF Searched

LEMMA InvNext ==
  ASSUME Inv, [Next]_vars
  PROVE  Inv'
<1>1. CASE Written
  BY <1>1, InvPrints, InvOverwrite, InvEnterAlternate, InvLeaveAlternate, InvResetTerminal,
     InvInjectBanner
     DEF Written
<1>2. CASE UNCHANGED vars
  <2>1. MaxOffset' = MaxOffset
    BY <1>2, ViewSame DEF vars, termVars
  <2> QED
    BY <1>2, <2>1 DEF vars, termVars, cacheVars, searchVars, Inv, TypeOK, CurrentIsAMatch
<1> QED
  BY <1>1, <1>2, InvScrolled, InvSearched, InvDraw DEF Next

\* The terminal stays within its scrollback, the view within the text, and
\* every other variable within its type, whatever is written and searched for.
THEOREM TypeCorrect == Spec => []TypeOK
<1>1. Init => Inv
  BY InvInit
<1>2. Inv /\ [Next]_vars => Inv'
  BY InvNext
<1>3. Inv => TypeOK
  BY DEF Inv
<1> QED
  BY <1>1, <1>2, <1>3, PTL DEF Spec

\* The match that the status bar counts is one of those found.
THEOREM CurrentFound == Spec => []CurrentIsAMatch
<1>1. Init => Inv
  BY InvInit
<1>2. Inv /\ [Next]_vars => Inv'
  BY InvNext
<1>3. Inv => CurrentIsAMatch
  BY DEF Inv
<1> QED
  BY <1>1, <1>2, <1>3, PTL DEF Spec

-----------------------------------------------------------------------------
(* Jumps *)

\* Going to a row shows it, if it is there.
LEMMA GoToShows ==
  ASSUME TypeOK, ~alternate, UNCHANGED <<text, alternate>>, NEW row \in Nat, offset' = Centred(row)
  PROVE  \A q : row \in Matching(text', q) => row \in Top'..Top' + Rows - 1
<1>1. MaxOffset' = MaxOffset
  BY ViewSame
<1>2. Top' = MaxOffset - Centred(row)
  BY <1>1 DEF Top
<1> TAKE q
<1> HAVE row \in Matching(text', q)
<1>3. row < Len(text)
  BY ViewTypes DEF Matching
<1>4. row \in (MaxOffset - Centred(row))..(MaxOffset - Centred(row) + Rows - 1)
  BY <1>3, CentredShows
<1> QED
  BY <1>2, <1>4

LEMMA JumpsShow ==
  ASSUME Inv, SearchAccept \/ SearchNext \/ SearchPrev,
         current' \in Matching(text', query')
  PROVE  current' \in Top'..Top' + Rows - 1
<1>1. TypeOK
  BY DEF Inv
<1>2. NoMatch \notin Matching(text', query')
  BY SearchAssumption DEF Matching
<1>3. CASE SearchAccept
  <2>1. ~alternate
    BY <1>2, <1>3, AcceptFinds
  <2>2. PICK found \in AllType :
          /\ found.matches = {} => UNCHANGED <<current, offset>>
          /\ found.matches # {} => /\ current' = JumpTarget(found)
                                   /\ JumpTarget(found) \in found.matches
                                   /\ offset' = Centred(JumpTarget(found))
    BY <1>3, <2>1, AcceptFinds
  <2>3. found.matches # {}
    BY <1>2, <1>3, <2>2, AcceptFinds
  <2>4. JumpTarget(found) \in Nat
    BY <1>1, <2>2, <2>3, MatchIsRow DEF AllType
  <2>5. UNCHANGED <<text, alternate>>
    BY <1>3 DEF SearchAccept
  <2> QED
    BY <1>1, <2>1, <2>2, <2>3, <2>4, <2>5, GoToShows
<1>4. ASSUME NEW row \in matches, GoTo(row), ~alternate, UNCHANGED <<text, alternate>>
      PROVE  current' \in Top'..Top' + Rows - 1
  <2>1. row \in Nat /\ current' = row /\ offset' = Centred(row)
    BY <1>1, <1>4, MatchIsRow DEF TypeOK, GoTo
  <2> QED
    BY <1>1, <1>4, <2>1, GoToShows
<1>5. CASE SearchNext
  BY <1>1, <1>4, <1>5, Targets DEF SearchNext
<1>6. CASE SearchPrev
  BY <1>1, <1>4, <1>6, Targets DEF SearchPrev
<1> QED
  BY <1>3, <1>5, <1>6

\* A jump to a match brings it into the view, however old the search and
\* wherever the view was, if its row is still there.
THEOREM JumpsShowMatch == Spec => JumpShowsMatch
<1>1. Init => Inv
  BY InvInit
<1>2. Inv /\ [Next]_vars => Inv'
  BY InvNext
<1>3. Inv /\ [Next]_vars => [SearchAccept \/ SearchNext \/ SearchPrev =>
         (current' \in Matching(text', query') => current' \in Top'..Top' + Rows - 1)]_vars
  BY JumpsShow
<1> QED
  BY <1>1, <1>2, <1>3, PTL DEF Spec, JumpShowsMatch

-----------------------------------------------------------------------------
(* The view while the process prints *)

LEMMA PrintPins ==
  ASSUME TypeOK, offset > 0, NEW l \in Lines, Prints(l), Len(text) < Rows + ScrollbackLen
  PROVE  View' = View
<1>1. ~alternate /\ ~alternate'
  BY ViewTypes DEF Prints
<1>2. text' = Append(text, l)
  BY <1>1, ViewTypes DEF Prints, Push
<1>3. text' \in Seq(Lines) /\ Len(text') = Len(text) + 1
      /\ \A i \in 1..Len(text) : text'[i] = text[i]
  BY <1>2, ViewTypes, AppendProperties
<1>4. MaxOffset' = MaxOffset + 1
  BY <1>1, <1>3, ViewTypes DEF MaxOffset
<1>5. offset' = offset + 1
  <2>1. offset' = Min({offset + 1, MaxOffset'})
    <3> DEFINE grown == IF MaxOffset' > MaxOffset THEN MaxOffset' - MaxOffset ELSE 0
    <3>1. grown = 1
      BY <1>4, ViewTypes
    <3>2. offset' = Min({offset + grown, MaxOffset'})
      BY DEF Prints, Pinned
    <3> QED
      BY <3>1, <3>2
  <2> QED
    BY <1>4, <2>1, ViewTypes, MinOfTwo
<1>6. Top' = Top
  BY <1>4, <1>5, ViewTypes DEF Top
<1>7. Top \in Nat /\ Top + Rows <= Len(text)
  BY <1>1, ViewTypes
<1>8. SubSeq(text', Top + 1, Top + Rows) = SubSeq(text, Top + 1, Top + Rows)
  <2>1. /\ \A i \in (Top + 1)..(Top + Rows) : text[i] \in Lines /\ text'[i] = text[i]
        /\ Top + 1 \in Int /\ Top + Rows \in Int
    <3>1. ASSUME NEW i \in (Top + 1)..(Top + Rows)
          PROVE  text[i] \in Lines /\ text'[i] = text[i]
      <4>1. i \in 1..Len(text)
        BY <1>7, ViewTypes
      <4> QED
        BY <1>3, <4>1, ViewTypes, ElementOfSeq
    <3> QED
      BY <1>7, <3>1, ViewTypes
  <2>2. /\ SubSeq(text, Top + 1, Top + Rows) \in Seq(Lines)
        /\ SubSeq(text', Top + 1, Top + Rows) \in Seq(Lines)
        /\ Len(SubSeq(text', Top + 1, Top + Rows)) = Len(SubSeq(text, Top + 1, Top + Rows))
        /\ Len(SubSeq(text, Top + 1, Top + Rows)) = (Top + Rows) - (Top + 1) + 1
    <3>1. Top + 1 <= Top + Rows
      BY <1>7, ViewTypes
    <3> QED
      BY <2>1, <3>1, SubSeqProperties
  <2>3. ASSUME NEW i \in 1..((Top + Rows) - (Top + 1) + 1)
        PROVE  SubSeq(text', Top + 1, Top + Rows)[i] = SubSeq(text, Top + 1, Top + Rows)[i]
    <3>1. /\ SubSeq(text, Top + 1, Top + Rows)[i] = text[(Top + 1) + i - 1]
          /\ SubSeq(text', Top + 1, Top + Rows)[i] = text'[(Top + 1) + i - 1]
      BY <2>1, SubSeqProperties
    <3>2. (Top + 1) + i - 1 \in (Top + 1)..(Top + Rows)
      BY <1>7, ViewTypes
    <3> QED
      BY <2>1, <3>1, <3>2
  <2> QED
    BY <2>2, <2>3, SeqEqual
<1> QED
  BY <1>1, <1>6, <1>8 DEF View

\* What is in the view while it is back does not move as lines are printed,
\* as long as the scrollback has room.
THEOREM PinnedView == Spec => PinnedWithRoom
<1>1. Init => Inv
  BY InvInit
<1>2. Inv /\ [Next]_vars => Inv'
  BY InvNext
<1>3. Inv /\ [Next]_vars =>
        [offset > 0 /\ (\E l \in Lines : Prints(l)) /\ Len(text) < Rows + ScrollbackLen
           => View' = View]_vars
  BY PrintPins DEF Inv
<1> QED
  BY <1>1, <1>2, <1>3, PTL DEF Spec, PinnedWithRoom

=============================================================================
