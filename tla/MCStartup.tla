----------------------------- MODULE MCStartup -----------------------------
(* Instances of Startup for TLC. *)
EXTENDS Startup

CONSTANTS u1, u2, d1, l1

TwoUps == {u1, u2}
OneDown == {d1}
OneLister == {l1}
NoOne == {}

=============================================================================
