-------------------------------- MODULE Keys --------------------------------
(***************************************************************************)
(* The keys of mtack: what each does in each mode (input.rs), which key    *)
(* leaves Focused (config.rs), and what the status bar says of them        *)
(* (ui/hints.rs, ui/status.rs).                                            *)
(*                                                                         *)
(* A key event is a code with the modifiers it arrives with.  An action is *)
(* its name; how far a key scrolls, what it types and which tab a digit    *)
(* means is read off the key.                                              *)
(***************************************************************************)
EXTENDS Naturals, TLC

Key(code, mods) == [code |-> code, mods |-> mods]

Plain(code) == Key(code, {})
Ctrl(code) == Key(code, {"Ctrl"})
Shift(code) == Key(code, {"Shift"})

Digits == [d \in {"1", "2", "3", "4", "5", "6", "7", "8", "9"} |->
             CHOOSE n \in 1..9 : ToString(n) = d]

-----------------------------------------------------------------------------
(* What keys do *)

NormalKey(code) ==
  CASE code \in DOMAIN Digits -> "SelectTab"
    [] code \in {"l", "Right", "Tab"} -> "NextTab"
    [] code \in {"h", "Left"} -> "PrevTab"
    [] code \in {"i", "Enter"} -> "Focus"
    [] code = "s" -> "StartProcess"
    [] code = "x" -> "StopProcess"
    [] code = "r" -> "RestartProcess"
    [] code \in {"j", "Down", "PageDown"} -> "ScrollDown"
    [] code \in {"k", "Up", "PageUp"} -> "ScrollUp"
    [] code = "Home" -> "ScrollToTop"
    [] code = "End" -> "ScrollToBottom"
    [] code = "/" -> "EnterSearch"
    [] code = "n" -> "SearchNext"
    [] code = "Esc" -> "SearchCancel"
    [] code = "d" -> "Detach"
    [] code = "q" -> "Quit"
    [] code = "?" -> "ToggleHelp"
    [] OTHER -> "None"

ShiftKey(code) ==
  CASE code = "Q" -> "ForceQuit"
    [] code = "N" -> "SearchPrev"
    [] code = "?" -> "ToggleHelp"
    [] code = "BackTab" -> "PrevTab"
    [] OTHER -> "None"

CtrlKey(code) ==
  CASE code = "b" -> "ScrollUp"
    [] code = "c" -> "Quit"
    [] code = "f" -> "ScrollDown"
    [] OTHER -> "None"

\* The codes that are not characters: those that some key map names, and others.
Bound == {"Right", "Left", "Up", "Down", "Tab", "BackTab", "Enter", "Esc", "Backspace",
          "PageUp", "PageDown", "Home", "End"}

Named ==
  Bound
    \cup {"F1", "F2", "F3", "F4", "F5", "F6", "F7", "F8", "F9", "F10", "F11", "F12"}
    \cup {"Insert", "Delete", "Null", "CapsLock", "ScrollLock", "NumLock", "PrintScreen",
          "Pause", "Menu", "KeypadBegin", "Media", "Modifier"}

SearchKey(code) ==
  CASE code = "Enter" -> "SearchAccept"
    [] code = "Esc" -> "SearchCancel"
    [] code = "Tab" -> "SearchFillPlaceholder"
    [] code = "Backspace" -> "SearchBackspace"
    [] code \notin Named -> "SearchInput"
    [] OTHER -> "None"

ResolveNormal(key) ==
  CASE key.mods = {} -> NormalKey(key.code)
    [] key.mods = {"Shift"} -> ShiftKey(key.code)
    [] key.mods = {"Ctrl"} -> CtrlKey(key.code)
    [] OTHER -> "None"

ResolveSearch(key) ==
  CASE key = Ctrl("c") -> "SearchCancel"
    [] key # Ctrl("c") /\ key.mods \subseteq {"Shift"} -> SearchKey(key.code)
    [] OTHER -> "None"

\* An unfocus key as configured: esc, one character, or ctrl with a letter.
UnfocusEsc == [kind |-> "Esc", code |-> "Esc"]
UnfocusChar(c) == [kind |-> "Char", code |-> c]
UnfocusCtrl(c) == [kind |-> "Ctrl", code |-> c]

MatchesUnfocusKey(key, unfocus) ==
  /\ key.code = unfocus.code
  /\ key.mods = IF unfocus.kind = "Ctrl" THEN {"Ctrl"} ELSE {}

ResolveFocused(key, unfocus) ==
  IF MatchesUnfocusKey(key, unfocus) THEN "Unfocus" ELSE "ForwardKey"

ResolveConfirmQuit(key) ==
  IF key = Plain("y") \/ key.code = "Enter" THEN "Quit" ELSE "CancelQuit"

ResolveQuitting(key) == IF key = Ctrl("c") THEN "ForceQuit" ELSE "None"

Resolve(key, mode, unfocus) ==
  CASE mode = "Normal" -> ResolveNormal(key)
    [] mode = "Focused" -> ResolveFocused(key, unfocus)
    [] mode = "Search" -> ResolveSearch(key)
    [] mode = "ConfirmQuit" -> ResolveConfirmQuit(key)
    [] mode = "Quitting" -> ResolveQuitting(key)

-----------------------------------------------------------------------------
(* What the status bar says of them.  A narrow bar shows fewer. *)

Hint(key, action) == [key |-> key, action |-> action]

Always ==
  {Hint(Plain("h"), "PrevTab"), Hint(Plain("l"), "NextTab"), Hint(Plain("/"), "EnterSearch"),
   Hint(Plain("d"), "Detach"), Hint(Plain("q"), "Quit"), Hint(Plain("?"), "ToggleHelp")}

WhenRunning ==
  {Hint(Plain("i"), "Focus"), Hint(Plain("x"), "StopProcess"), Hint(Plain("r"), "RestartProcess")}

WhenStopped == {Hint(Plain("s"), "StartProcess")}

WhenScrolled == {Hint(Ctrl("f"), "ScrollDown"), Hint(Ctrl("b"), "ScrollUp")}

Clear == {Hint(Plain("Esc"), "SearchCancel")}

\* Mutant: a process that is stopping counts as running.
NormalHintsUntilDown(state, scrolled, searching) ==
  Always \cup (IF state \in {"Running", "Stopping"} THEN WhenRunning ELSE WhenStopped)

\* The hints of Normal, for the selected process.
NormalHints(state, scrolled, searching) ==
  Always
    \cup (IF state = "Running" THEN WhenRunning ELSE {})
    \cup (IF state \in {"Stopped", "Failed"} THEN WhenStopped ELSE {})
    \cup (IF scrolled THEN WhenScrolled ELSE {})
    \cup (IF scrolled \/ searching THEN Clear ELSE {})

FocusedHints == {Hint(Plain("Esc"), "Unfocus")}

ConfirmHints == {Hint(Plain("y"), "Quit"), Hint(Plain("Enter"), "Quit")}

BarHints(mode, state, scrolled, searching) ==
  CASE mode = "Normal" -> NormalHints(state, scrolled, searching)
    [] mode = "Focused" -> FocusedHints
    [] mode = "ConfirmQuit" -> ConfirmHints
    [] OTHER -> {}

=============================================================================
