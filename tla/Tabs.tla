-------------------------------- MODULE Tabs --------------------------------
(***************************************************************************)
(* The tab bar of mtack (ui/tabs.rs): which tabs are visible, where they   *)
(* are drawn, and which one is under the mouse.                            *)
(*                                                                         *)
(* Tabs are numbered from 1 and ranges are <<first, last>>, both visible.  *)
(* Widths are sums of u16, which wrap in a release build.                  *)
(***************************************************************************)
EXTENDS Naturals, Sequences, SequencesExt

U16 == 65536

\* A bracket and an ellipsis, on a side where tabs are hidden.
OverflowWidth == 2

Plus(a, b) == (a + b) % U16

Span(widths, r) == FoldFunctionOnSet(Plus, 0, widths, r[1]..r[2])

LeftCost(r) == IF r[1] > 1 THEN OverflowWidth ELSE 0

RightCost(widths, r) == IF r[2] < Len(widths) THEN OverflowWidth ELSE 0

\* The test before a range becomes r.
Fits(widths, area, r) ==
  Plus(Plus(Span(widths, r), LeftCost(r)), RightCost(widths, r)) <= area

\* One iteration of the loop: right, then left.
Expand(widths, area, r) ==
  LET right == <<r[1], r[2] + 1>>
      s     == IF r[2] < Len(widths) /\ Fits(widths, area, right) THEN right ELSE r
      left  == <<s[1] - 1, s[2]>>
  IN  IF s[1] > 1 /\ Fits(widths, area, left) THEN left ELSE s

\* Mutant: the loop ends once the right side is full.
VisibleToTheRight(widths, selected, area) ==
  LET last == CHOOSE l \in selected..Len(widths) :
                /\ l = selected \/ Fits(widths, area, <<selected, l>>)
                /\ \A k \in (l + 1)..Len(widths) : ~Fits(widths, area, <<selected, k>>)
  IN  IF Span(widths, <<1, Len(widths)>>) <= area THEN <<1, Len(widths)>> ELSE <<selected, last>>

VisibleRange(widths, selected, area) ==
  LET n == Len(widths)
      Expanded[r \in (1..n) \X (1..n)] ==
        LET next == Expand(widths, area, r)
        IN  IF next = r THEN r ELSE Expanded[next]
  IN  IF Span(widths, <<1, n>>) <= area THEN <<1, n>> ELSE Expanded[<<selected, selected>>]

\* Mutant: the bar is taken to start at column 0 also where tabs are hidden.
TabIndexFromZero(widths, selected, area, col) ==
  LET r == VisibleRange(widths, selected, area)
      Start(i) == Span(widths, <<r[1], i - 1>>)
  IN  {i \in r[1]..r[2] : Start(i) <= col /\ col < Start(i) + widths[i]}

\* The tab at a column (from 0), if any.
TabIndexAtCol(widths, selected, area, col) ==
  LET r == VisibleRange(widths, selected, area)
      Start(i) == Plus(LeftCost(r), Span(widths, <<r[1], i - 1>>))
  IN  {i \in r[1]..r[2] : Start(i) <= col /\ col < Plus(Start(i), widths[i])}

Marker == <<0, 0>>

\* TabBar::render: what each cell of the bar shows, a tab or 0 for none.  What
\* does not fit is cut off.
Bar(widths, selected, area) ==
  LET r       == VisibleRange(widths, selected, area)
      Tab(i)  == [c \in 1..widths[i] |-> i]
      visible == FlattenSeq([k \in 1..(r[2] - r[1] + 1) |-> Tab(r[1] + k - 1)])
      whole   == (IF r[1] > 1 THEN Marker ELSE <<>>) \o visible
                   \o (IF r[2] < Len(widths) THEN Marker ELSE <<>>)
                   \o [c \in 1..area |-> 0]
  IN  SubSeq(whole, 1, area)

=============================================================================
