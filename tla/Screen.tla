------------------------------- MODULE Screen -------------------------------
(***************************************************************************)
(* The user interface of the App (app.rs, ui/mod.rs): what the keys and    *)
(* the mouse of the attached client do to the view, how the view is laid   *)
(* out in the client's terminal, and which size the processes are given.   *)
(*                                                                         *)
(* Composes Tabs (the bar) and Keys (the key map).  Of a process there is  *)
(* its state and its size: modules App and Search have its life, and the   *)
(* scrolling and searching in it.                                          *)
(***************************************************************************)
EXTENDS Tabs, Keys

CONSTANTS
  Widths,       \* Widths[p]: the width of the tab of process p
  UnfocusKey,   \* UnfocusKey[p]: the key that ends focus on p, as configured
  Clients,
  NoClient,
  Sizes,        \* the sizes <<cols, rows>> of the clients' terminals
  AllKeys,      \* the keys that are pressed
  HelpWidth,    \* HelpColumns::total_width
  HelpRows      \* HelpColumns::max_rows

Procs == DOMAIN Widths

ASSUME ScreenAssumption ==
  /\ Widths \in Seq(1..U16) /\ Widths # <<>>
  /\ DOMAIN UnfocusKey = Procs
  /\ NoClient \notin Clients
  /\ Sizes \subseteq (1..U16) \X (2..U16)
  /\ HelpWidth \in Nat /\ HelpRows \in Nat

VARIABLES
  mode, selected,
  showHelp,
  query,        \* whether there is a search, SearchState::query
  state,        \* state[p]: what the tab of p shows
  client,       \* App::client
  rect,         \* the size of its frames, Client::terminal
  terminal,     \* App::terminal_cols, terminal_rows
  size,         \* the size of the emulated terminals, rows first
  pty,          \* pty[p]: the size that a running p was told (Lifecycle::Running)
  entered,      \* history: who was attached, and which tab was selected, when
                \* the mode became what it is
  loop

\* The modes that a client's key leads to, apart from Quitting.
OwnModes == {"Focused", "Search", "ConfirmQuit"}

viewVars == <<showHelp, query>>
sizeVars == <<rect, terminal, size>>
vars == <<mode, selected, viewVars, state, client, sizeVars, pty, entered, loop>>

Larger(a, b) == IF a > b THEN a ELSE b

Minus(a, b) == Larger(a - b, 0)     \* saturating_sub

Up(p) == state[p] \in {"Running", "Stopping"}

AllStopped == \A p \in Procs : ~Up(p)

-----------------------------------------------------------------------------
(* Sizes *)

HelpHeight(cols) == IF HelpWidth > cols THEN 4 ELSE HelpRows + 4

Bottom(help, cols) == IF help THEN HelpHeight(cols) ELSE 1

ViewportRows(help, dim) == Minus(dim[2], 1 + Bottom(help, dim[1]))

\* Terminal::resize.
TerminalSize(help, dim) == <<Larger(ViewportRows(help, dim), 1), Larger(dim[1], 1)>>

Untold == <<>>

\* resize_processes, for help and a terminal of these dimensions.  A running
\* child is told of no rows where there are none.
ResizeProcesses(help, dim) ==
  /\ size' = TerminalSize(help, dim)
  /\ pty' = [p \in Procs |-> IF state[p] = "Running" THEN <<ViewportRows(help, dim), dim[1]>>
                                                     ELSE Untold]

SetSize(dim) == rect' = dim /\ terminal' = dim /\ ResizeProcesses(FALSE, dim)

-----------------------------------------------------------------------------
(* Clients *)

ModeAfterReset == IF mode = "Quitting" THEN mode ELSE "Normal"

ResetView == mode' = ModeAfterReset /\ showHelp' = FALSE /\ query' = FALSE

Attach(c, dim) ==
  /\ loop = "Running" /\ c # client
  /\ client' = c
  /\ ResetView
  /\ SetSize(dim)
  /\ UNCHANGED <<selected, state, loop>>

\* The client is let go of or lost.  Processes keep the size they have.
LetGo ==
  /\ loop = "Running" /\ client # NoClient
  /\ client' = NoClient
  /\ ResetView
  /\ UNCHANGED <<selected, state, sizeVars, pty, loop>>

Stopped == [p \in Procs |-> IF state[p] = "Running" THEN "Stopping" ELSE state[p]]

\* Mutant: the rows of the help are not given back.
BeginQuitUnsized ==
  IF AllStopped
  THEN loop' = "Exited" /\ UNCHANGED <<mode, showHelp, state, size, pty>>
  ELSE /\ mode' = "Quitting" /\ showHelp' = FALSE
       /\ state' = Stopped /\ pty' = [p \in Procs |-> Untold]
       /\ UNCHANGED <<size, loop>>

\* The view loses its help, and every process is stopped.
BeginQuit ==
  IF AllStopped
  THEN loop' = "Exited" /\ UNCHANGED <<mode, showHelp, state, size, pty>>
  ELSE /\ mode' = "Quitting" /\ showHelp' = FALSE
       /\ size' = TerminalSize(FALSE, terminal)
       /\ state' = Stopped /\ pty' = [p \in Procs |-> Untold]
       /\ UNCHANGED loop

QuitRequest ==
  /\ loop = "Running"
  /\ BeginQuit
  /\ UNCHANGED <<selected, query, client, rect, terminal>>

-----------------------------------------------------------------------------
(* Keys *)

\* What an action leaves alone unless it says otherwise.
Sized == UNCHANGED <<sizeVars, pty>>
View == UNCHANGED viewVars
Alive == UNCHANGED <<client, loop>>

Select(p) ==
  /\ selected' = p
  /\ query' = FALSE
  /\ UNCHANGED showHelp

SelectAction(key, action) ==
  /\ \/ action = "SelectTab" /\ IF Digits[key.code] \in Procs THEN Select(Digits[key.code])
                                ELSE View /\ UNCHANGED selected
     \/ action = "NextTab" /\ Select((selected % Len(Widths)) + 1)
     \/ action = "PrevTab" /\ Select(((selected + Len(Widths) - 2) % Len(Widths)) + 1)
  /\ Sized /\ Alive /\ UNCHANGED <<mode, state>>

FocusRunning(action) ==
  /\ action = "Focus"
  /\ mode' = IF state[selected] = "Running" THEN "Focused" ELSE mode

ModeAction(action) ==
  /\ \/ FocusRunning(action)
     \/ action \in {"Unfocus", "CancelQuit"} /\ mode' = "Normal"
  /\ View /\ Sized /\ Alive /\ UNCHANGED <<selected, state>>

\* start: the new child's terminal has the size of the emulated one.
Spawned(p) ==
  \/ /\ state' = [state EXCEPT ![p] = "Running"]
     /\ pty' = [pty EXCEPT ![p] = size]
  \/ /\ state' = [state EXCEPT ![p] = "Failed"]
     /\ pty' = [pty EXCEPT ![p] = Untold]

ProcessAction(action) ==
  LET s == state[selected] IN
  /\ \/ /\ \/ action = "StartProcess" /\ s # "Running"
           \/ action = "RestartProcess" /\ ~Up(selected)
        /\ Spawned(selected)
     \/ /\ action \in {"StopProcess", "RestartProcess"} /\ s = "Running"
        /\ state' = [state EXCEPT ![selected] = "Stopping"]
        /\ pty' = [pty EXCEPT ![selected] = Untold]
     \/ /\ \/ action = "StartProcess" /\ s = "Running"
           \/ action = "StopProcess" /\ s # "Running"
           \/ action = "RestartProcess" /\ s = "Stopping"
        /\ UNCHANGED <<state, pty>>
  /\ View /\ Alive /\ UNCHANGED <<mode, selected, sizeVars>>

\* Whether there is a last query to fill in is left open.
SearchAction(action) ==
  /\ \/ action = "EnterSearch" /\ mode' = "Search" /\ query' = FALSE
     \/ action = "SearchInput" /\ query' = TRUE /\ UNCHANGED mode
     \/ action = "SearchBackspace" /\ query' \in {query, FALSE} /\ UNCHANGED mode
     \/ action = "SearchFillPlaceholder" /\ query' \in {query, TRUE} /\ UNCHANGED mode
     \/ action = "SearchAccept" /\ query' \in {query, TRUE} /\ mode' = "Normal"
     \/ action = "SearchCancel" /\ query' = FALSE /\ mode' = "Normal"
  /\ Sized /\ Alive /\ UNCHANGED <<selected, state, showHelp>>

ToggleHelp(action) ==
  /\ action = "ToggleHelp"
  /\ showHelp' = ~showHelp
  /\ ResizeProcesses(showHelp', terminal)
  /\ Alive /\ UNCHANGED <<mode, selected, query, state, rect, terminal>>

QuitAction(action) ==
  \/ /\ action = "Quit" /\ ~AllStopped /\ mode # "ConfirmQuit"
     /\ mode' = "ConfirmQuit"
     /\ View /\ Sized /\ Alive /\ UNCHANGED <<selected, state>>
  \/ /\ \/ action = "Quit" /\ (AllStopped \/ mode = "ConfirmQuit")
        \/ action = "ForceQuit" /\ mode # "Quitting"
     /\ BeginQuit
     /\ UNCHANGED <<selected, query, client, rect, terminal>>
  \/ /\ action = "ForceQuit" /\ mode = "Quitting"
     /\ loop' = "Exited"
     /\ View /\ Sized /\ UNCHANGED <<mode, selected, state, client>>

Scrolls == {"ScrollUp", "ScrollDown", "ScrollToTop", "ScrollToBottom", "SearchNext", "SearchPrev"}

\* Unbound, typed into the child, or moving within the selected tab.
OtherAction(action) ==
  /\ action \in {"None", "ForwardKey"} \cup Scrolls
  /\ View /\ Sized /\ Alive /\ UNCHANGED <<mode, selected, state>>

Press(key) ==
  /\ loop = "Running" /\ client # NoClient
  /\ LET action == Resolve(key, mode, UnfocusKey[selected]) IN
       \/ SelectAction(key, action)
       \/ ModeAction(action)
       \/ ProcessAction(action)
       \/ SearchAction(action)
       \/ ToggleHelp(action)
       \/ QuitAction(action)
       \/ action = "Detach" /\ LetGo
       \/ OtherAction(action)

-----------------------------------------------------------------------------
(* The mouse, and the terminal's size *)

\* Mutant: focus moves along.
ClickKeepsFocus(col) ==
  /\ loop = "Running" /\ client # NoClient
  /\ \E p \in TabIndexAtCol(Widths, selected, terminal[1], col) : Select(p)
  /\ Sized /\ Alive /\ UNCHANGED <<mode, state>>

\* The left button on the first row, in any mode.
Click(col) ==
  /\ loop = "Running" /\ client # NoClient
  /\ \E p \in TabIndexAtCol(Widths, selected, terminal[1], col) : Select(p)
  /\ mode' = IF mode = "Focused" THEN "Normal" ELSE mode
  /\ Sized /\ Alive /\ UNCHANGED state

Resize(dim) ==
  /\ loop = "Running" /\ client # NoClient
  /\ rect' = dim /\ terminal' = dim
  /\ ResizeProcesses(showHelp, dim)
  /\ View /\ Alive /\ UNCHANGED <<mode, selected, state>>

\* A process ends, and may be started again (handle_exit).
ProcessExits(p) ==
  /\ loop = "Running" /\ Up(p)
  /\ \/ Spawned(p)
     \/ state' = [state EXCEPT ![p] = "Stopped"] /\ pty' = [pty EXCEPT ![p] = Untold]
  /\ loop' = IF mode = "Quitting" /\ (\A q \in Procs : state'[q] \notin {"Running", "Stopping"})
             THEN "Exited" ELSE loop
  /\ View /\ UNCHANGED <<mode, selected, client, sizeVars>>

-----------------------------------------------------------------------------
(* Specification *)

Init ==
  /\ mode = "Normal" /\ selected = 1
  /\ showHelp = FALSE /\ query = FALSE
  /\ state \in [Procs -> {"Running", "Stopped", "Failed"}]
  /\ client = NoClient
  /\ rect = <<80, 24>> /\ terminal = <<80, 24>> /\ size = <<22, 80>>
  /\ pty = [p \in Procs |-> IF state[p] = "Running" THEN size ELSE Untold]
  /\ entered = <<NoClient, 1>>
  /\ loop = "Running"

Step ==
  \/ \E dim \in Sizes : Resize(dim) \/ \E c \in Clients : Attach(c, dim)
  \/ LetGo
  \/ QuitRequest
  \/ \E key \in AllKeys : Press(key)
  \/ \E col \in 0..(terminal[1] - 1) : Click(col)
  \/ \E p \in Procs : ProcessExits(p)

Next ==
  /\ Step
  /\ entered' = IF mode' = mode THEN entered
                ELSE IF mode' \in OwnModes THEN <<client, selected>> ELSE <<NoClient, 1>>

Spec == Init /\ [][Next]_vars

-----------------------------------------------------------------------------
(* Properties *)

\* What the client's frames have room for, the emulated terminals and the
\* children were told are one size, whatever was pressed, resized, attached or
\* started in which order (resize_processes runs apart from ui::render).  Only a
\* child in a view of no rows is told less than it is emulated with.
SizesAgree ==
  loop = "Running" /\ client # NoClient =>
    LET rows == Minus(rect[2], 1 + Bottom(showHelp, rect[1])) IN
      /\ size = <<Larger(rows, 1), rect[1]>>
      /\ rows > 0 => \A p \in Procs : state[p] = "Running" => pty[p] = size

\* A click selects the tab that is drawn under it, and nothing where none is
\* (tab_index_at_col and TabBar::render compute it apart).
ClickHits ==
  client # NoClient =>
    LET bar == Bar(Widths, selected, rect[1]) IN
      \A col \in 0..(rect[1] - 1) :
        TabIndexAtCol(Widths, selected, terminal[1], col) = {bar[col + 1]} \ {0}

\* The bar shows the selected tab, whole if that fits, and could not show more
\* tabs than it does (visible_range).
BarIsFull ==
  LET r == VisibleRange(Widths, selected, rect[1])
      Needed(a, b) == FoldFunctionOnSet(+, 0, Widths, a..b)
                        + (IF a > 1 THEN 2 ELSE 0) + (IF b < Len(Widths) THEN 2 ELSE 0)
  IN  /\ r[1] <= selected /\ selected <= r[2]
      /\ r = <<selected, selected>> \/ Needed(r[1], r[2]) <= rect[1]
      /\ \A a \in 1..r[1], b \in r[2]..Len(Widths) : <<a, b>> # r => Needed(a, b) > rect[1]

\* A dialog, a prompt or focus is the attached client's own, opened on the tab
\* that is focused: no client answers the question another was asked, and
\* nothing is typed into a process that was not focused.
ModeIsOwn ==
  mode \in OwnModes =>
    /\ client # NoClient /\ entered[1] = client
    /\ mode = "Focused" => entered[2] = selected

\* The keys the status bar names do what it says, and do it here and now.
HintsHold ==
  \A scrolled \in BOOLEAN : \A h \in BarHints(mode, state[selected], scrolled, query) :
    /\ Resolve(h.key, mode, UnfocusKey[selected]) = h.action
    /\ h.action \in {"Focus", "StopProcess", "RestartProcess"} => state[selected] = "Running"
    /\ h.action = "StartProcess" => ~Up(selected)

\* Focus can be left with a key, as the configuration promises.  It does not
\* hold: see the README.
FocusCanBeLeft ==
  mode = "Focused" => \E key \in AllKeys : Resolve(key, mode, UnfocusKey[selected]) = "Unfocus"

=============================================================================
