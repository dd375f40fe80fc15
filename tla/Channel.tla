------------------------------ MODULE Channel ------------------------------
(***************************************************************************)
(* What a connection between `mtack attach` and the server promises: the   *)
(* messages written at one end come out at the other in order, each once,  *)
(* until one end ends.  Only the odd ones, which the reader cannot decode, *)
(* are passed over; nothing comes after an unexpected one.                 *)
(***************************************************************************)
EXTENDS Naturals, Sequences

CONSTANTS
  Messages,
  Odd,        \* those the reader cannot decode
  Unexpected  \* those it ends at

VARIABLES
  sent,       \* the messages written
  received,   \* the positions in sent of those handed on
  over        \* whether the reader has ended

vars == <<sent, received, over>>

LastReceived == IF received = <<>> THEN 0 ELSE received[Len(received)]

Init == sent = <<>> /\ received = <<>> /\ over = FALSE

Send ==
  /\ \E m \in Messages : sent' = Append(sent, m)
  /\ UNCHANGED <<received, over>>

\* The next message that is not odd.
Deliver ==
  /\ ~over
  /\ \E k \in DOMAIN sent :
       /\ LastReceived < k /\ sent[k] \notin Odd \cup Unexpected
       /\ \A j \in (LastReceived + 1)..(k - 1) : sent[j] \in Odd
       /\ received' = Append(received, k)
  /\ UNCHANGED <<sent, over>>

End == over' = TRUE /\ UNCHANGED <<sent, received>>

Next == Send \/ Deliver \/ End

Spec == Init /\ [][Next]_vars

=============================================================================
