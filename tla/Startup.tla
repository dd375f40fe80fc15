------------------------------ MODULE Startup ------------------------------
(***************************************************************************)
(* Which server owns a config: `mtack up` (client.rs), the server it       *)
(* launches (serve in main.rs, bind and SocketGuard in server.rs), `mtack  *)
(* down`, and the listing of running servers, all for one config file.     *)
(*                                                                         *)
(* They share three things in the file system: the lock file, which the OS *)
(* unlocks when its holder ends; the config's path written in it; and the  *)
(* socket's path, which names the last listener bound to it until someone  *)
(* removes it, even when that listener is gone.                            *)
(***************************************************************************)
EXTENDS Naturals

CONSTANTS
  Ups,        \* the runs of `mtack up`, each of which may launch one server
  Downs,      \* the runs of `mtack down`
  Listers,    \* the runs of a command that lists the running servers
  MaxPolls,   \* how often `up` tries to reach a server that won the lock
  None        \* no server

ASSUME StartupAssumption ==
  /\ MaxPolls \in Nat \ {0}
  /\ None \notin Ups

VARIABLES
  up,         \* up[u]: where `mtack up` is, or how it ended
  polls,      \* polls[u]: connections tried in vain after BUSY
  server,     \* server[u]: where the server launched by u is
  said,       \* said[u]: the line it wrote to the pipe that u reads
  lock,       \* the server that holds the lock
  lockText,   \* what the lock file holds
  socket,     \* the server whose listener the socket's path names
  down,       \* down[d]: where `mtack down` is, and the server it reached
  lister      \* lister[l]: where a listing is, and what it read

vars == <<up, polls, server, said, lock, lockText, socket, down, lister>>

serverVars == <<server, said, lock, lockText, socket>>

\* A server from its launch to its end.  From "Bound" on it has a listener, and
\* a SocketGuard until "Unlocked".
ServerStates ==
  {"NotLaunched", "Launched", "Locked", "Truncated", "Written", "Unlinked",
   "Bound", "Serving", "Leaving", "SocketRemoved", "Unlocked", "Gone"}

Holding ==
  {"Locked", "Truncated", "Written", "Unlinked", "Bound", "Serving", "Leaving", "SocketRemoved"}

Guarded == {"Bound", "Serving", "Leaving"}

HasListener == {"Bound", "Serving", "Leaving", "SocketRemoved", "Unlocked"}

\* connect() succeeds; the listener's backlog takes those not accepted yet.
Reachable == socket # None /\ server[socket] \in HasListener

-----------------------------------------------------------------------------
(* The server: serve, bind, and the drop of its SocketGuard *)

Advance(u, from, to) ==
  /\ server[u] = from
  /\ server' = [server EXCEPT ![u] = to]

\* The pipe to `up` closes with the process that has said nothing.
Hangup(u) == said' = [said EXCEPT ![u] = IF @ = "" THEN "nothing" ELSE @]

\* Mutant: the socket decides, not the lock.
TrySocket(u) ==
  /\ ~Reachable
  /\ Advance(u, "Launched", "Locked")
  /\ lock' = u
  /\ UNCHANGED <<said, lockText, socket>>

TryLock(u) ==
  /\ lock = None
  /\ Advance(u, "Launched", "Locked")
  /\ lock' = u
  /\ UNCHANGED <<said, lockText, socket>>

LockIsBusy(u) ==
  /\ lock # None
  /\ Advance(u, "Launched", "Gone")
  /\ said' = [said EXCEPT ![u] = "busy"]
  /\ UNCHANGED <<lock, lockText, socket>>

TruncateLock(u) ==
  /\ Advance(u, "Locked", "Truncated")
  /\ lockText' = "Empty"
  /\ UNCHANGED <<said, lock, socket>>

WriteConfig(u) ==
  /\ Advance(u, "Truncated", "Written")
  /\ lockText' = "Config"
  /\ UNCHANGED <<said, lock, socket>>

\* Mutant: a socket that a dead server left is not removed.
KeepStale(u) ==
  /\ Advance(u, "Written", "Unlinked")
  /\ UNCHANGED <<said, lock, lockText, socket>>

RemoveStale(u) ==
  /\ Advance(u, "Written", "Unlinked")
  /\ socket' = None
  /\ UNCHANGED <<said, lock, lockText>>

BindSocket(u) ==
  /\ socket = None
  /\ Advance(u, "Unlinked", "Bound")
  /\ socket' = u
  /\ UNCHANGED <<said, lock, lockText>>

\* The socket's path is taken: the server gives up without a guard.
BindFails(u) ==
  /\ socket # None
  /\ Advance(u, "Unlinked", "Gone")
  /\ Hangup(u)
  /\ lock' = None
  /\ UNCHANGED <<lockText, socket>>

\* Config::load succeeds, and the App runs.
Ready(u) ==
  /\ Advance(u, "Bound", "Serving")
  /\ said' = [said EXCEPT ![u] = "ready"]
  /\ UNCHANGED <<lock, lockText, socket>>

\* The config was edited since `up` loaded it.
LoadFails(u) ==
  /\ Advance(u, "Bound", "Leaving")
  /\ UNCHANGED <<said, lock, lockText, socket>>

\* App::run returns.
AppEnds(u) ==
  /\ Advance(u, "Serving", "Leaving")
  /\ UNCHANGED <<said, lock, lockText, socket>>

\* Mutant: the lock is dropped and the socket stays.
UnlockFirst(u) ==
  /\ Advance(u, "Leaving", "SocketRemoved")
  /\ lock' = None
  /\ UNCHANGED <<said, lockText, socket>>

RemoveSocket(u) ==
  /\ Advance(u, "Leaving", "SocketRemoved")
  /\ socket' = None
  /\ UNCHANGED <<said, lock, lockText>>

Unlock(u) ==
  /\ Advance(u, "SocketRemoved", "Unlocked")
  /\ lock' = None
  /\ UNCHANGED <<said, lockText, socket>>

\* The runtime is dropped, and with it the listener and the connections.
Exit(u) ==
  /\ Advance(u, "Unlocked", "Gone")
  /\ Hangup(u)
  /\ UNCHANGED <<lock, lockText, socket>>

\* The server is killed, or fails on the way to its guard: the OS takes back
\* its lock and its listener, the files stay.
Crash(u) ==
  /\ server[u] \notin {"NotLaunched", "Gone"}
  /\ server' = [server EXCEPT ![u] = "Gone"]
  /\ lock' = IF lock = u THEN None ELSE lock
  /\ Hangup(u)
  /\ UNCHANGED <<lockText, socket>>

ServerStep(u) ==
  \/ TryLock(u)
  \/ LockIsBusy(u)
  \/ TruncateLock(u)
  \/ WriteConfig(u)
  \/ RemoveStale(u)
  \/ BindSocket(u)
  \/ BindFails(u)
  \/ Ready(u)
  \/ LoadFails(u)
  \/ RemoveSocket(u)
  \/ Unlock(u)
  \/ Exit(u)

-----------------------------------------------------------------------------
(* `mtack up` *)

UpGoes(u, from, to) == up[u] = from /\ up' = [up EXCEPT ![u] = to]

UpConnects(u) ==
  /\ UpGoes(u, "Connect", IF Reachable THEN "AlreadyRunning" ELSE "Load")
  /\ UNCHANGED <<serverVars, polls>>

UpRejectsConfig(u) ==
  /\ UpGoes(u, "Load", "Failed")
  /\ UNCHANGED <<serverVars, polls>>

UpLaunches(u) ==
  /\ UpGoes(u, "Load", "ReadLine")
  /\ server' = [server EXCEPT ![u] = "Launched"]
  /\ UNCHANGED <<said, lock, lockText, socket, polls>>

UpReadsLine(u) ==
  /\ said[u] # ""
  /\ UpGoes(u, "ReadLine", CASE said[u] = "ready" -> "Started"
                             [] said[u] = "busy" -> "Poll"
                             [] OTHER -> "Failed")
  /\ UNCHANGED <<serverVars, polls>>

\* Mutant: the polls are not counted.
UpPollsOn(u) ==
  /\ UpGoes(u, "Poll", IF Reachable THEN "AlreadyRunning" ELSE "Poll")
  /\ UNCHANGED <<serverVars, polls>>

UpPolls(u) ==
  /\ \/ Reachable /\ UpGoes(u, "Poll", "AlreadyRunning") /\ UNCHANGED polls
     \/ /\ ~Reachable
        /\ UpGoes(u, "Poll", IF polls[u] + 1 = MaxPolls THEN "Failed" ELSE "Poll")
        /\ polls' = [polls EXCEPT ![u] = @ + 1]
  /\ UNCHANGED serverVars

UpStep(u) ==
  /\ \/ UpConnects(u)
     \/ UpRejectsConfig(u)
     \/ UpLaunches(u)
     \/ UpReadsLine(u)
     \/ UpPolls(u)
  /\ UNCHANGED <<down, lister>>

-----------------------------------------------------------------------------
(* `mtack down`, and the listing of running servers *)

DownConnects(d) ==
  /\ down[d].at = "Connect"
  /\ down' = [down EXCEPT ![d] = IF Reachable THEN [at |-> "Wait", server |-> socket]
                                 ELSE [at |-> "NotRunning", server |-> None]]
  /\ UNCHANGED <<serverVars, up, polls, lister>>

\* Mutants: `down` returns as the App ends; it waits until nobody can be reached.
ClosedWithApp(u) == server[u] \in {"Leaving", "SocketRemoved", "Unlocked", "Gone"}

GoneAndUnreachable(u) == server[u] = "Gone" /\ ~Reachable

\* The server closes the connection only as its runtime is dropped.
ConnectionClosed(u) == server[u] = "Gone"

DownReturns(d) ==
  /\ down[d].at = "Wait"
  /\ ConnectionClosed(down[d].server)
  /\ down' = [down EXCEPT ![d].at = "Done"]
  /\ UNCHANGED <<serverVars, up, polls, lister>>

ListerConnects(l) ==
  /\ lister[l] = "Connect"
  /\ lister' = [lister EXCEPT ![l] = IF Reachable THEN "ReadLock" ELSE "NotListed"]
  /\ UNCHANGED <<serverVars, up, polls, down>>

ListerReads(l) ==
  /\ lister[l] = "ReadLock"
  /\ lister' = [lister EXCEPT ![l] = lockText]
  /\ UNCHANGED <<serverVars, up, polls, down>>

-----------------------------------------------------------------------------
(* Specification *)

Init ==
  /\ up = [u \in Ups |-> "Connect"]
  /\ polls = [u \in Ups |-> 0]
  /\ server = [u \in Ups |-> "NotLaunched"]
  /\ said = [u \in Ups |-> ""]
  /\ lock = None
  /\ lockText = "Empty"
  /\ socket = None
  /\ down = [d \in Downs |-> [at |-> "Connect", server |-> None]]
  /\ lister = [l \in Listers |-> "Connect"]

Beside(A) == A /\ UNCHANGED <<up, polls, down, lister>>

Next ==
  \/ \E u \in Ups : Beside(ServerStep(u)) \/ Beside(AppEnds(u)) \/ Beside(Crash(u)) \/ UpStep(u)
  \/ \E d \in Downs : DownConnects(d) \/ DownReturns(d)
  \/ \E l \in Listers : ListerConnects(l) \/ ListerReads(l)

\* Servers and commands go on.  An App need not end, asked or not, and nothing
\* has to crash.
Fairness ==
  /\ \A u \in Ups : WF_vars(Beside(ServerStep(u))) /\ WF_vars(UpStep(u))
  /\ \A d \in Downs : WF_vars(DownConnects(d) \/ DownReturns(d))

Spec == Init /\ [][Next]_vars /\ Fairness

-----------------------------------------------------------------------------
(* Properties *)

\* Every variable holds a value of its type.
TypeOK ==
  /\ up \in [Ups -> {"Connect", "Load", "ReadLine", "Poll", "Started", "AlreadyRunning", "Failed"}]
  /\ polls \in [Ups -> 0..MaxPolls]
  /\ server \in [Ups -> ServerStates]
  /\ said \in [Ups -> {"", "ready", "busy", "nothing"}]
  /\ lock \in Ups \cup {None}
  /\ lockText \in {"Empty", "Config"}
  /\ socket \in Ups \cup {None}
  /\ down \in [Downs -> [at : {"Connect", "Wait", "Done", "NotRunning"}, server : Ups \cup {None}]]
  /\ lister \in [Listers -> {"Connect", "ReadLock", "NotListed", "Empty", "Config"}]

\* One server at a time owns the config, from taking the lock to giving it
\* back: however they race, two never run its processes both (bind).
OneOwner ==
  \A u \in Ups : server[u] \in Holding <=> lock = u

\* The socket of a server that listens is not taken from it, neither by one
\* that starts nor by one that ends: the path leads to it until it removes it
\* itself (SocketGuard).
SocketNeverLost ==
  \A u \in Ups : server[u] \in Guarded => socket = u

\* The path is free when a server comes to bind it: a leftover socket never
\* blocks a start (bind).
BindFindsPathFree ==
  \A u \in Ups : server[u] = "Unlinked" => socket = None

\* Who can be reached is the owner, so that `mtack`, `up`, `attach` and `down`
\* never talk to a server that has handed over (SocketGuard's order of removal).
ReachableIsOwner == Reachable => lock = socket

\* When `mtack down` returns, the server it stopped has left the lock and the
\* path to the next one (serve, handle_connection).
DownFrees ==
  \A d \in Downs : down[d].at = "Done" =>
    lock # down[d].server /\ (Reachable => socket # down[d].server)

\* A server that listens can be listed by its config: the listing finds the
\* path written, as bind's comment says.  It does not hold: see the README.
ListedByConfig == \A l \in Listers : lister[l] # "Empty"

\* `mtack up` ends, however many race it.
UpEnds == \A u \in Ups : <>(up[u] \in {"Started", "AlreadyRunning", "Failed"})

\* `mtack down` returns once the server it asked is on its way out, be it that
\* its App returned, that its config did not load or that it was killed, and
\* whoever has taken the config over since.  When the App returns is for App to
\* say (DownCompletes, QuitCompletes).
DownEnds ==
  \A d \in Downs, u \in Ups :
    (/\ down[d].at = "Wait" /\ down[d].server = u
     /\ server[u] \in {"Leaving", "SocketRemoved", "Unlocked", "Gone"})
      ~> down[d].at = "Done"

=============================================================================
