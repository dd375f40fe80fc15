------------------------------- MODULE MCWire -------------------------------
(***************************************************************************)
(* Wire for TLC: a message of a header alone, one with a payload, an odd   *)
(* one, one that is unexpected, and one that is too large.                 *)
(***************************************************************************)
EXTENDS Wire

CONSTANTS bare, event, odd, bad, huge

Kinds == {bare, event, odd, bad, huge}

SizeOf ==
  [m \in Kinds |-> CASE m = bare -> 0 [] m = bad -> 1 [] m = huge -> 3 [] OTHER -> 2]

=============================================================================
