----------------------------- MODULE Supervisor -----------------------------
(***************************************************************************)
(* What mtack promises about the processes it looks after, without the     *)
(* clients, the tasks and the channels it takes: a tab never has more than *)
(* one child, a tab shown as stopped or failed has none, a process that    *)
(* was asked to stop is down before it is started again, and the server    *)
(* does not leave by itself while a child lives.                           *)
(***************************************************************************)
CONSTANTS
  Procs,    \* the configured processes
  Ids       \* names for their children

VARIABLES
  shown,      \* what each tab shows
  children,   \* the live children of each tab
  server      \* whether the server runs, or how it left

supervisorVars == <<shown, children, server>>

Down == {"Stopped", "Failed"}

Init ==
  /\ shown \in [Procs -> {"Stopped", "Running", "Failed"}]
  /\ children \in [Procs -> SUBSET Ids]
  /\ \A p \in Procs : IF shown[p] = "Running" THEN \E i \in Ids : children[p] = {i}
                                              ELSE children[p] = {}
  /\ server = "Running"

-----------------------------------------------------------------------------
(* What may happen to one process *)

Becomes(p, s, c) == shown'[p] = s /\ children'[p] = c

Launch(p) ==
  /\ children[p] = {}
  /\ \E i \in Ids : Becomes(p, "Running", {i})

LaunchFails(p) == children[p] = {} /\ Becomes(p, "Failed", {})

AskedToStop(p) == shown[p] = "Running" /\ Becomes(p, "Stopping", children[p])

Ends(p) == Becomes(p, shown[p], {})

Reported(p) ==
  /\ children[p] = {}
  /\ \/ shown[p] = "Running" /\ \E s \in Down : Becomes(p, s, {})
     \/ shown[p] = "Stopping" /\ Becomes(p, "Stopped", {})

Same(p) == Becomes(p, shown[p], children[p])

Step(p) ==
  \/ Launch(p)
  \/ LaunchFails(p)
  \/ AskedToStop(p)
  \/ Ends(p)
  \/ Reported(p)
  \/ Same(p)

-----------------------------------------------------------------------------
(* The server as a whole: a request to quit asks all of them to stop at once *)

Serve ==
  /\ \A p \in Procs : Step(p)
  /\ UNCHANGED server

Quit ==
  /\ \A p \in Procs : Step(p) /\ shown'[p] \in Down /\ children'[p] = {}
  /\ server' = "Exited"

ForceQuit ==
  /\ UNCHANGED children
  /\ \A p \in Procs : shown'[p] = IF shown[p] = "Running" THEN "Stopped" ELSE shown[p]
  /\ server' = "ForceExited"

Next ==
  /\ server = "Running"
  /\ Serve \/ Quit \/ ForceQuit

Spec == Init /\ [][Next]_supervisorVars

=============================================================================
