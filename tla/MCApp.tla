------------------------------- MODULE MCApp -------------------------------
(***************************************************************************)
(* Instances of App for TLC, and a user of one kind.                       *)
(***************************************************************************)
EXTENDS App, TLC

CONSTANTS api, web

One == {api}
Two == {api, web}

Swaps == Permutations(Two)

\* A user who attaches, scrolls up, quits by key and from then on waits; the
\* child ends when it is told to.
QuitterNext ==
  \/ mode # "Quitting" /\ (Attach \/ ScrollView(TRUE) \/ Quit \/ QuitNow)
  \/ HandleAppEvent
  \/ \E p \in Procs, k \in Spawns :
       Beside(Task(p, k) /\ (ChildDies(p, k) => proc[p].child[k].signal # "None"))

\* Every behaviour of it is one of Spec.
QuitterSpec == Init /\ [][QuitterNext]_vars /\ Fairness

=============================================================================
