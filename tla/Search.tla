------------------------------- MODULE Search -------------------------------
(***************************************************************************)
(* The terminal of the selected process and the search in it: terminal.rs, *)
(* and the actions and the drawing in app.rs that use it.                  *)
(*                                                                         *)
(* A line is the set of queries it matches, so a match is a row.  Rows are *)
(* counted from 0, the oldest line kept.  The vt100 crate keeps the text,  *)
(* the alternate screen, and how far back the view is; it is modelled as   *)
(* terminal.rs uses it.                                                    *)
(***************************************************************************)
EXTENDS Naturals, Sequences, FiniteSetsExt

CONSTANTS
  Rows,           \* the height of the view
  ScrollbackLen,  \* the lines kept above it
  Queries,        \* what is searched for
  Empty,          \* the empty query
  NoMatch,        \* no match is current
  MaxWrites       \* bound: times the process, or a banner, writes

ASSUME SearchAssumption ==
  /\ Rows \in Nat \ {0}
  /\ ScrollbackLen \in Nat
  /\ MaxWrites \in Nat
  /\ Empty \notin Queries
  /\ NoMatch \notin Nat

VARIABLES
  text,        \* the lines kept, oldest first; the last Rows are the screen
  alt,         \* the lines of the alternate screen
  alternate,   \* whether the alternate screen is on
  offset,      \* how far back the view is (vt100's scrollback)
  writes,      \* how often the terminal was written to
  dirty,       \* Terminal::search_dirty
  all,         \* the cached result of find_all_matches
  visible,     \* the cached result of find_visible_matches
  searching,   \* whether the mode is Search
  query, lastQuery, matches, current,  \* App's SearchState
  highlights   \* the rows of the view that the last frame highlights

termVars == <<text, alt, alternate, offset, writes>>
cacheVars == <<dirty, all, visible>>
searchVars == <<searching, query, lastQuery, matches, current>>
vars == <<termVars, cacheVars, searchVars, highlights>>

Lines == SUBSET Queries

BlankScreen == [i \in 1..Rows |-> {}]

-----------------------------------------------------------------------------
(* The view *)

MaxOffset == IF alternate THEN 0 ELSE Len(text) - Rows

\* vt100 keeps the view within what there is.
Clamp(n) == Min({n, MaxOffset})

\* The row at the top of the view.
Top == MaxOffset - offset

View == IF alternate THEN alt ELSE SubSeq(text, Top + 1, Top + Rows)

Matching(lines, q) == {r \in 0..Len(lines) - 1 : q \in lines[r + 1]}

\* scroll_to_row, but for its guard on the alternate screen: the row goes to
\* the middle of the view, as far as there is text.
Centred(row) ==
  LET back == MaxOffset + Rows \div 2 IN
    IF back <= row THEN 0 ELSE Clamp(back - row)

-----------------------------------------------------------------------------
(* What the process writes *)

\* A line comes in at the bottom, of the text or of the alternate screen.
Push(kept, l) ==
  IF Len(kept) = Rows + ScrollbackLen THEN Append(Tail(kept), l) ELSE Append(kept, l)

Shift(screen, l) == Append(Tail(screen), l)

\* Mutant: the view stays at its distance from the bottom.
HeldAtDistance == offset' = IF offset = 0 THEN 0 ELSE Min({offset, MaxOffset'})

\* The end of Terminal::process: a view that is back follows its content by as
\* much as the scrollback has grown.
Pinned ==
  LET grown == IF MaxOffset' > MaxOffset THEN MaxOffset' - MaxOffset ELSE 0 IN
    offset' = IF offset = 0 THEN 0 ELSE Min({offset + grown, MaxOffset'})

Writes ==
  /\ writes < MaxWrites
  /\ writes' = writes + 1
  /\ dirty' = TRUE
  /\ UNCHANGED <<all, visible, searchVars, highlights>>

Prints(l) ==
  /\ Writes
  /\ IF alternate THEN alt' = Shift(alt, l) /\ UNCHANGED text
     ELSE text' = Push(text, l) /\ UNCHANGED alt
  /\ UNCHANGED alternate
  /\ Pinned

\* A line of the screen is written over.
Overwrite(i, l) ==
  /\ Writes
  /\ IF alternate THEN alt' = [alt EXCEPT ![i] = l] /\ UNCHANGED text
     ELSE text' = [text EXCEPT ![Len(text) - Rows + i] = l] /\ UNCHANGED alt
  /\ UNCHANGED alternate
  /\ Pinned

EnterAlternate ==
  /\ Writes
  /\ ~alternate /\ alternate' = TRUE
  /\ alt' = BlankScreen
  /\ UNCHANGED text
  /\ Pinned

LeaveAlternate ==
  /\ Writes
  /\ alternate /\ alternate' = FALSE
  /\ UNCHANGED <<text, alt>>
  /\ Pinned

\* The output resets the terminal: the scrollback shrinks.
ResetTerminal ==
  /\ Writes
  /\ text' = BlankScreen
  /\ alt' = BlankScreen
  /\ alternate' = FALSE
  /\ Pinned

\* inject_banner: the label between two line feeds, on whichever screen is on.
\* Nothing is pinned: what becomes of a view that is back is up to vt100.
InjectBanner(label) ==
  /\ Writes
  /\ IF alternate THEN alt' = Shift(Shift(alt, label), {}) /\ UNCHANGED text
     ELSE text' = Push(Push(text, label), {}) /\ UNCHANGED alt
  /\ UNCHANGED alternate
  /\ \E moved \in 0..2 :
       offset' = IF offset = 0 THEN 0 ELSE Min({offset + moved, MaxOffset'})

-----------------------------------------------------------------------------
(* Scrolling *)

ScrollTo(n) ==
  /\ offset' = n
  /\ UNCHANGED <<text, alt, alternate, writes, cacheVars, searchVars, highlights>>

ScrollUp(n) == ~alternate /\ ScrollTo(Clamp(offset + n))

\* Mutant: the subtraction does not stop at 0.
ScrollDownPast(n) == ~alternate /\ ScrollTo(offset - n)

ScrollDown(n) == ~alternate /\ ScrollTo(IF offset > n THEN offset - n ELSE 0)

ScrollToTop == ~alternate /\ ScrollTo(Clamp(ScrollbackLen))

ScrollToBottom == ScrollTo(0)

-----------------------------------------------------------------------------
(* Matches and their caches *)

Cached(cache, q) == ~dirty /\ cache.query = q

\* What find_all_matches returns.
AllMatches(q) ==
  CASE q = Empty -> [query |-> Empty, matches |-> {}, rows |-> 0]
    [] q # Empty /\ Cached(all, q) -> all
    [] OTHER -> [query |-> q, matches |-> Matching(text, q), rows |-> Len(text)]

FindAll(q) ==
  IF q = Empty \/ Cached(all, q) THEN UNCHANGED cacheVars
  ELSE all' = AllMatches(q) /\ dirty' = FALSE /\ UNCHANGED visible

\* What find_visible_matches returns.
VisibleMatches(q) ==
  IF Cached(visible, q) /\ visible.offset = offset THEN visible
  ELSE [query |-> q, offset |-> offset, matches |-> Matching(View, q)]

\* App::draw looks for matches unless the query is being typed.
Draw ==
  /\ IF query = Empty \/ searching
     THEN highlights' = {} /\ UNCHANGED cacheVars
     ELSE /\ highlights' = VisibleMatches(query).matches
          /\ visible' = VisibleMatches(query)
          /\ dirty' = FALSE
          /\ UNCHANGED all
  /\ UNCHANGED <<termVars, searchVars>>

-----------------------------------------------------------------------------
(* Searching *)

\* Mutant: the match stays current.
ClearKeepsCurrent == query' = Empty /\ matches' = {} /\ UNCHANGED current

\* SearchState::clear
Clear == query' = Empty /\ matches' = {} /\ current' = NoMatch

EnterSearch ==
  /\ ~searching /\ searching' = TRUE
  /\ Clear
  /\ UNCHANGED <<termVars, cacheVars, lastQuery, highlights>>

\* SearchInput and SearchBackspace: any query can be typed.
TypeQuery(q) ==
  /\ searching
  /\ query' = q
  /\ UNCHANGED <<termVars, cacheVars, searching, lastQuery, matches, current, highlights>>

SearchFillPlaceholder ==
  /\ searching
  /\ query = Empty /\ query' = lastQuery
  /\ UNCHANGED <<termVars, cacheVars, searching, lastQuery, matches, current, highlights>>

\* The last match at or before the view, or else the last.
JumpTarget(found) ==
  LET bottom == (IF found.rows > Rows + offset THEN found.rows - Rows - offset ELSE 0) + Rows
      before == {r \in found.matches : r <= bottom} IN
    Max(IF before = {} THEN found.matches ELSE before)

SearchAccept ==
  /\ searching /\ searching' = FALSE
  /\ LET q == IF query = Empty THEN lastQuery ELSE query
         found == AllMatches(q) IN
       /\ query' = q
       /\ lastQuery' = q
       /\ IF alternate THEN UNCHANGED <<cacheVars, matches, current, offset>>
          ELSE /\ FindAll(q)
               /\ matches' = found.matches
               /\ IF found.matches = {} THEN UNCHANGED <<current, offset>>
                  ELSE current' = JumpTarget(found) /\ offset' = Centred(JumpTarget(found))
  /\ UNCHANGED <<text, alt, alternate, writes, highlights>>

SearchCancel ==
  /\ searching' = FALSE
  /\ Clear
  /\ offset' = 0
  /\ UNCHANGED <<text, alt, alternate, writes, cacheVars, lastQuery, highlights>>

\* Selecting another tab, and coming back: the other one is not modelled.
SwitchTab ==
  /\ Clear
  /\ UNCHANGED <<termVars, cacheVars, searching, lastQuery, highlights>>

Centre ==
  LET back == offset + Rows \div 2
      total == MaxOffset + Rows IN
    IF total > back THEN total - back ELSE 0

Below == {r \in matches : r > Centre}

Above == {r \in matches : r < Centre}

\* Mutant: the view is left where it is.
GoToUnseen(row) == current' = row /\ UNCHANGED offset

GoTo(row) == current' = row /\ offset' = Centred(row)

SearchNext ==
  /\ ~searching /\ ~alternate
  /\ Below # {}
  /\ GoTo(Min(Below))
  /\ UNCHANGED <<text, alt, alternate, writes, cacheVars, searching, query, lastQuery, matches,
                 highlights>>

SearchPrev ==
  /\ ~searching /\ ~alternate
  /\ Above # {}
  /\ GoTo(Max(Above))
  /\ UNCHANGED <<text, alt, alternate, writes, cacheVars, searching, query, lastQuery, matches,
                 highlights>>

-----------------------------------------------------------------------------
(* Specification *)

Init ==
  /\ text = BlankScreen
  /\ alt = BlankScreen
  /\ alternate = FALSE
  /\ offset = 0
  /\ writes = 0
  /\ dirty = TRUE
  /\ all = [query |-> Empty, matches |-> {}, rows |-> 0]
  /\ visible = [query |-> Empty, offset |-> 0, matches |-> {}]
  /\ searching = FALSE
  /\ query = Empty /\ lastQuery = Empty /\ matches = {} /\ current = NoMatch
  /\ highlights = {}

Written ==
  \/ \E l \in Lines : Prints(l) \/ InjectBanner(l) \/ \E i \in 1..Rows : Overwrite(i, l)
  \/ EnterAlternate
  \/ LeaveAlternate
  \/ ResetTerminal

Scrolled == ScrollToTop \/ ScrollToBottom \/ \E n \in 1..Rows : ScrollUp(n) \/ ScrollDown(n)

Searched ==
  \/ EnterSearch
  \/ \E q \in Queries \cup {Empty} : TypeQuery(q)
  \/ SearchFillPlaceholder
  \/ SearchAccept
  \/ SearchCancel
  \/ SwitchTab
  \/ SearchNext
  \/ SearchPrev

Next == Written \/ Scrolled \/ Searched \/ Draw

Spec == Init /\ [][Next]_vars

-----------------------------------------------------------------------------
(* Properties *)

RowsKept == 0..Rows + ScrollbackLen - 1

\* Every variable holds a value of its type; the view is within the text.
TypeOK ==
  /\ text \in Seq(Lines) /\ Len(text) \in Rows..Rows + ScrollbackLen
  /\ alt \in [1..Rows -> Lines]
  /\ alternate \in BOOLEAN
  /\ offset \in 0..MaxOffset
  /\ writes \in 0..MaxWrites
  /\ dirty \in BOOLEAN
  /\ all \in [query : Queries \cup {Empty}, matches : SUBSET RowsKept,
              rows : 0..Rows + ScrollbackLen]
  /\ visible \in [query : Queries \cup {Empty}, offset : 0..ScrollbackLen,
                  matches : SUBSET (0..Rows - 1)]
  /\ searching \in BOOLEAN
  /\ query \in Queries \cup {Empty} /\ lastQuery \in Queries \cup {Empty}
  /\ matches \subseteq RowsKept
  /\ current \in RowsKept \cup {NoMatch}
  /\ highlights \subseteq 0..Rows - 1

\* The match that the status bar counts is one of those found, through every
\* change of query, tab and screen (SearchState::current).
CurrentIsAMatch == current # NoMatch => current \in matches

\* A jump to a match brings it into the view, however old the search and
\* wherever the view was, if its row is still there (scroll_to_row).
JumpShowsMatch ==
  [][SearchAccept \/ SearchNext \/ SearchPrev =>
       (current' \in Matching(text', query') => current' \in Top'..Top' + Rows - 1)]_vars

\* What is in the view while it is back does not move as lines are printed,
\* as long as the scrollback has room (Terminal::process).
PinnedWithRoom ==
  [][offset > 0 /\ (\E l \in Lines : Prints(l)) /\ Len(text) < Rows + ScrollbackLen
       => View' = View]_vars

\* The same when it has no room and the lines in the view are kept, as the
\* comment in Terminal::process says.  It does not hold: see the README.
PinnedToContent ==
  [][offset > 0 /\ (\E l \in Lines : Prints(l)) /\ (Len(text) = Rows + ScrollbackLen => Top > 0)
       => View' = View]_vars

\* Searching again finds what is there, as the comment at search_navigate says.
\* It does not hold: see the README.
SearchRefreshes ==
  [][SearchAccept /\ ~alternate => matches' = Matching(text, query')]_vars

\* What is highlighted is what is in the view.  It does not hold: see the
\* README.
HighlightsMatchView ==
  [][Draw /\ query # Empty /\ ~searching => highlights' = Matching(View, query)]_vars

\* A search jumps to the last match at or before the view if there is one, as
\* the comment at SearchAccept says.  It does not hold: see the README.
AcceptStaysInView ==
  [][SearchAccept /\ ~alternate /\ (\E r \in matches' : r <= Top + Rows - 1)
       => current' <= Top + Rows - 1]_vars

\* With the view where the current match put it, and nothing printed since the
\* search, N moves to a match before it, as the help says ("n/N", "next/prev
\* match", hints.rs:100).  It does not hold: see the README.
PrevMoves ==
  (/\ current # NoMatch /\ offset = Centred(current)
   /\ matches = Matching(text, query)
   /\ \E r \in matches : r < current)
    => Above # {} /\ Max(Above) < current

=============================================================================
