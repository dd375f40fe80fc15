------------------------------ MODULE MCScreen ------------------------------
(***************************************************************************)
(* Screen for TLC: three tabs of 5, 6 and 9 columns, every key that is     *)
(* bound, and a few that are not.                                          *)
(***************************************************************************)
EXTENDS Screen

CONSTANTS c1, c2

ThreeTabs == <<5, 6, 9>>
OneTab == <<5>>

EscUnfocuses == [p \in 1..3 |-> UnfocusEsc]
CustomKeys == <<UnfocusEsc, UnfocusCtrl("b"), UnfocusChar("j")>>
CapitalUnfocuses == <<UnfocusChar("Q")>>

\* Too narrow for two tabs, for three, and for nothing; too low for the help,
\* for a view beside it, and for nothing.
Dims == {<<6, 3>>, <<13, 12>>, <<18, 24>>, <<60, 13>>, <<60, 24>>}
OneDim == {<<60, 24>>}

Unmodified ==
  DOMAIN Digits \cup (Bound \ {"BackTab"}) \cup {"Delete", "F1"}
    \cup {"l", "h", "i", "s", "x", "r", "j", "k", "/", "n", "d", "q", "?", "y"}

\* Capitals arrive with SHIFT.
Pressed ==
  {Plain(c) : c \in Unmodified} \cup {Shift(c) : c \in {"Q", "N", "?", "BackTab"}}
    \cup {Ctrl(c) : c \in {"b", "c", "f"}}

=============================================================================
