----------------------------- MODULE MCSearch -----------------------------
(***************************************************************************)
(* Search for TLC: one query, or two.                                      *)
(***************************************************************************)
EXTENDS Search

CONSTANTS q1, q2

OneQuery == {q1}
TwoQueries == {q1, q2}

=============================================================================
