--------------------------- MODULE StartupProofs ---------------------------
(***************************************************************************)
(* Proofs about Startup, for any number of commands that race each other   *)
(* and any crash.                                                          *)
(***************************************************************************)
EXTENDS Startup, TLAPS

USE StartupAssumption

\* A server that has removed its socket does not find it back.
RemovedForGood ==
  \A u \in Ups : server[u] \in {"SocketRemoved", "Unlocked"} => socket # u

\* `up` launches its server once, after it was found missing.
LaunchedOnce ==
  \A u \in Ups : up[u] \in {"Connect", "Load"} => server[u] = "NotLaunched"

\* `up` has a poll left until it ends.
PollsLeft ==
  \A u \in Ups : up[u] \in {"Connect", "Load", "ReadLine", "Poll"} => polls[u] < MaxPolls

\* `down` waits for a server that was launched, and is done when that is gone.
DownWaits ==
  \A d \in Downs :
    /\ down[d].at = "Wait" => down[d].server \in Ups /\ server[down[d].server] # "NotLaunched"
    /\ down[d].at = "Done" => down[d].server \in Ups /\ server[down[d].server] = "Gone"

Ownership == OneOwner /\ SocketNeverLost /\ BindFindsPathFree /\ RemovedForGood

IInv == TypeOK /\ Ownership /\ LaunchedOnce /\ PollsLeft /\ DownWaits

LEMMA InitIInv ==
  ASSUME Init
  PROVE  IInv
<1>1. TypeOK
  <2>1. [at |-> "Connect", server |-> None]
          \in [at : {"Connect", "Wait", "Done", "NotRunning"}, server : Ups \cup {None}]
    OBVIOUS
  <2>2. 0 \in 0..MaxPolls /\ "NotLaunched" \in ServerStates
    BY DEF ServerStates
  <2> QED
    BY <2>1, <2>2 DEF Init, TypeOK
<1>2. Ownership
  BY DEF Init, Ownership, OneOwner, SocketNeverLost, BindFindsPathFree, RemovedForGood,
         Holding, Guarded
<1>3. LaunchedOnce /\ DownWaits
  BY DEF Init, LaunchedOnce, DownWaits
<1>4. PollsLeft
  <2>1. MaxPolls > 0
    BY StartupAssumption
  <2> QED
    BY <2>1 DEF Init, PollsLeft
<1> QED
  BY <1>1, <1>2, <1>3, <1>4 DEF IInv

-----------------------------------------------------------------------------
(* The server's own steps *)

\* A step of one server, seen from the other commands: it was launched, and
\* once gone it stays so.
Lives(u) ==
  /\ server[u] \notin {"NotLaunched", "Gone"}
  /\ \E to \in ServerStates \ {"NotLaunched"} : server' = [server EXCEPT ![u] = to]

LEMMA LivesKeeps ==
  ASSUME IInv, NEW u \in Ups, Lives(u), UNCHANGED <<up, polls, down, lister>>
  PROVE  LaunchedOnce' /\ PollsLeft' /\ DownWaits'
BY DEF Lives, IInv, TypeOK, LaunchedOnce, PollsLeft, DownWaits

LEMMA BindKeeps ==
  ASSUME IInv, NEW u \in Ups,
         \/ TryLock(u) \/ LockIsBusy(u) \/ TruncateLock(u) \/ WriteConfig(u)
         \/ RemoveStale(u) \/ BindSocket(u) \/ BindFails(u)
  PROVE  Ownership' /\ Lives(u)
<1> USE DEF Advance, Lives, IInv, TypeOK, ServerStates, Ownership, OneOwner, SocketNeverLost,
            BindFindsPathFree, RemovedForGood, Holding, Guarded
<1>1. CASE TruncateLock(u)
  BY <1>1 DEF TruncateLock
<1>2. CASE WriteConfig(u)
  BY <1>2 DEF WriteConfig
<1>3. CASE RemoveStale(u)
  BY <1>3 DEF RemoveStale
<1>4. CASE BindSocket(u)
  BY <1>4 DEF BindSocket
<1>5. CASE BindFails(u)
  BY <1>5 DEF BindFails
<1>6. CASE TryLock(u)
  BY <1>6 DEF TryLock
<1>7. CASE LockIsBusy(u)
  BY <1>7 DEF LockIsBusy
<1> QED
  BY <1>1, <1>2, <1>3, <1>4, <1>5, <1>6, <1>7

LEMMA LeaveKeeps ==
  ASSUME IInv, NEW u \in Ups,
         \/ Ready(u) \/ LoadFails(u) \/ AppEnds(u)
         \/ RemoveSocket(u) \/ Unlock(u) \/ Exit(u) \/ Crash(u)
  PROVE  Ownership' /\ Lives(u)
<1> USE DEF Advance, Lives, IInv, TypeOK, ServerStates, Ownership, OneOwner, SocketNeverLost,
            BindFindsPathFree, RemovedForGood, Holding, Guarded
<1>1. CASE Ready(u)
  BY ZenonT(40), <1>1 DEF Ready
<1>2. CASE LoadFails(u)
  BY ZenonT(40), <1>2 DEF LoadFails
<1>3. CASE AppEnds(u)
  BY ZenonT(40), <1>3 DEF AppEnds
<1>4. CASE RemoveSocket(u)
  BY <1>4 DEF RemoveSocket
<1>5. CASE Unlock(u)
  BY <1>5 DEF Unlock
<1>6. CASE Exit(u)
  BY <1>6 DEF Exit
<1>7. CASE Crash(u)
  BY <1>7 DEF Crash
<1> QED
  BY <1>1, <1>2, <1>3, <1>4, <1>5, <1>6, <1>7

LEMMA ServerTypeOK ==
  ASSUME IInv, NEW u \in Ups, ServerStep(u) \/ AppEnds(u) \/ Crash(u), Lives(u),
         UNCHANGED <<up, polls, down, lister>>
  PROVE  TypeOK'
<1>1. server' \in [Ups -> ServerStates]
  <2>1. server \in [Ups -> ServerStates]
    BY DEF IInv, TypeOK
  <2>2. PICK to \in ServerStates : server' = [server EXCEPT ![u] = to]
    BY DEF Lives
  <2> QED
    BY <2>1, <2>2
<1>2. /\ said' \in [Ups -> {"", "ready", "busy", "nothing"}]
      /\ lock' \in Ups \cup {None}
      /\ lockText' \in {"Empty", "Config"}
      /\ socket' \in Ups \cup {None}
  BY DEF IInv, TypeOK, ServerStep, AppEnds, Crash, TryLock, LockIsBusy, TruncateLock, WriteConfig,
         RemoveStale, BindSocket, BindFails, Ready, LoadFails, RemoveSocket, Unlock, Exit, Hangup
<1> QED
  BY <1>1, <1>2 DEF IInv, TypeOK

LEMMA ServerKeeps ==
  ASSUME IInv, NEW u \in Ups,
         \/ Beside(ServerStep(u)) \/ Beside(AppEnds(u)) \/ Beside(Crash(u))
  PROVE  IInv'
<1>1. /\ ServerStep(u) \/ AppEnds(u) \/ Crash(u)
      /\ UNCHANGED <<up, polls, down, lister>>
  BY DEF Beside
<1>2. Ownership' /\ Lives(u)
  BY <1>1, BindKeeps, LeaveKeeps DEF ServerStep
<1> QED
  BY <1>1, <1>2, ServerTypeOK, LivesKeeps DEF IInv

-----------------------------------------------------------------------------
(* The commands *)

LEMMA OwnershipKept ==
  ASSUME Ownership, UNCHANGED <<server, lock, socket>>
  PROVE  Ownership'
BY DEF Ownership, OneOwner, SocketNeverLost, BindFindsPathFree, RemovedForGood

LEMMA UpKeeps ==
  ASSUME IInv, NEW u \in Ups, UpStep(u)
  PROVE  IInv'
<1>1. TypeOK /\ Ownership /\ LaunchedOnce /\ PollsLeft /\ DownWaits /\ UNCHANGED <<down, lister>>
  BY DEF IInv, UpStep
<1>2. ASSUME NEW from, NEW to, UpGoes(u, from, to), UNCHANGED serverVars,
             to \in {"Load", "ReadLine", "Poll", "Started", "AlreadyRunning", "Failed"},
             from # "Connect" => to # "Load",
             polls' \in [Ups -> 0..MaxPolls], PollsLeft'
      PROVE  IInv'
  <2>1. TypeOK'
    BY <1>1, <1>2 DEF TypeOK, UpGoes, serverVars
  <2>2. Ownership'
    BY <1>1, <1>2, OwnershipKept DEF serverVars
  <2>3. LaunchedOnce' /\ DownWaits'
    BY <1>1, <1>2 DEF TypeOK, UpGoes, serverVars, LaunchedOnce, DownWaits
  <2> QED
    BY <1>2, <2>1, <2>2, <2>3 DEF IInv
<1>3. polls \in [Ups -> 0..MaxPolls]
  BY <1>1 DEF TypeOK
<1>4. CASE UpConnects(u) \/ UpRejectsConfig(u) \/ UpReadsLine(u)
  <2>1. PollsLeft'
    BY <1>1, <1>4 DEF TypeOK, PollsLeft, UpGoes, UpConnects, UpRejectsConfig, UpReadsLine
  <2> QED
    BY <1>2, <1>3, <1>4, <2>1 DEF UpConnects, UpRejectsConfig, UpReadsLine
<1>5. CASE UpLaunches(u)
  <2>1. /\ server[u] = "NotLaunched"
        /\ server' = [server EXCEPT ![u] = "Launched"]
        /\ up[u] = "Load" /\ up' = [up EXCEPT ![u] = "ReadLine"]
        /\ UNCHANGED <<said, lock, lockText, socket, polls>>
    BY <1>1, <1>5 DEF UpLaunches, UpGoes, LaunchedOnce
  <2>2. TypeOK'
    BY <1>1, <2>1 DEF TypeOK, ServerStates
  <2>3. Ownership'
    BY <1>1, <2>1 DEF TypeOK, Ownership, OneOwner, SocketNeverLost, BindFindsPathFree,
                      RemovedForGood, Holding, Guarded
  <2>4. LaunchedOnce' /\ PollsLeft' /\ DownWaits'
    BY <1>1, <2>1 DEF TypeOK, LaunchedOnce, PollsLeft, DownWaits
  <2> QED
    BY <2>2, <2>3, <2>4 DEF IInv
<1>6. CASE UpPolls(u)
  <2>1. CASE Reachable /\ UpGoes(u, "Poll", "AlreadyRunning") /\ UNCHANGED polls
    <3>1. PollsLeft'
      BY <1>1, <2>1 DEF TypeOK, PollsLeft, UpGoes
    <3> QED
      BY <1>2, <1>3, <1>6, <2>1, <3>1 DEF UpPolls
  <2>2. CASE /\ UpGoes(u, "Poll", IF polls[u] + 1 = MaxPolls THEN "Failed" ELSE "Poll")
             /\ polls' = [polls EXCEPT ![u] = @ + 1]
    <3>1. polls[u] < MaxPolls
      BY <1>1, <2>2 DEF PollsLeft, UpGoes
    <3>2. polls' \in [Ups -> 0..MaxPolls]
      BY <1>3, <2>2, <3>1
    <3>3. PollsLeft'
      <4>1. up \in [Ups -> {"Connect", "Load", "ReadLine", "Poll", "Started", "AlreadyRunning", "Failed"}]
        BY <1>1 DEF TypeOK
      <4>2. CASE polls[u] + 1 = MaxPolls
        <5>1. up'[u] = "Failed" /\ \A v \in Ups \ {u} : up'[v] = up[v] /\ polls'[v] = polls[v]
          BY <1>3, <2>2, <4>1, <4>2 DEF UpGoes
        <5> QED
          BY <1>1, <5>1 DEF PollsLeft
      <4>3. CASE polls[u] + 1 # MaxPolls
        <5>1. polls'[u] = polls[u] + 1 /\ \A v \in Ups \ {u} : up'[v] = up[v] /\ polls'[v] = polls[v]
          BY <1>3, <2>2, <4>1, <4>3 DEF UpGoes
        <5>2. polls'[u] < MaxPolls
          BY <1>3, <3>1, <4>3, <5>1, StartupAssumption
        <5> QED
          BY <1>1, <5>1, <5>2 DEF PollsLeft
      <4> QED
        BY <4>2, <4>3
    <3>4. UNCHANGED serverVars
      BY <1>6 DEF UpPolls
    <3>5. CASE polls[u] + 1 = MaxPolls
      <4>1. UpGoes(u, "Poll", "Failed")
        BY <2>2, <3>5
      <4> QED
        BY <1>2, <3>2, <3>3, <3>4, <4>1
    <3>6. CASE polls[u] + 1 # MaxPolls
      <4>1. UpGoes(u, "Poll", "Poll")
        BY <2>2, <3>6
      <4> QED
        BY <1>2, <3>2, <3>3, <3>4, <4>1
    <3> QED
      BY <3>5, <3>6
  <2> QED
    BY <1>1, <1>6, <2>1, <2>2 DEF UpPolls
<1> QED
  BY <1>4, <1>5, <1>6 DEF UpStep

LEMMA DownKeeps ==
  ASSUME IInv, NEW d \in Downs, DownConnects(d) \/ DownReturns(d)
  PROVE  IInv'
<1>1. TypeOK /\ Ownership /\ LaunchedOnce /\ PollsLeft /\ DownWaits
  BY DEF IInv
<1>2. UNCHANGED <<server, said, lock, lockText, socket, up, polls, lister>>
  BY DEF DownConnects, DownReturns, serverVars
<1>3. ASSUME NEW r \in [at : {"Connect", "Wait", "Done", "NotRunning"}, server : Ups \cup {None}],
             down' = [down EXCEPT ![d] = r],
             r.at = "Wait" => r.server \in Ups /\ server[r.server] # "NotLaunched",
             r.at = "Done" => r.server \in Ups /\ server[r.server] = "Gone"
      PROVE  IInv'
  <2>1. TypeOK'
    BY <1>1, <1>2, <1>3 DEF TypeOK
  <2>2. Ownership' /\ LaunchedOnce' /\ PollsLeft'
    BY <1>1, <1>2, OwnershipKept DEF LaunchedOnce, PollsLeft
  <2>3. DownWaits'
    BY <1>1, <1>2, <1>3 DEF TypeOK, DownWaits
  <2> QED
    BY <2>1, <2>2, <2>3 DEF IInv
<1>4. CASE DownConnects(d)
  BY <1>1, <1>3, <1>4 DEF TypeOK, DownConnects, Reachable, HasListener
<1>5. CASE DownReturns(d)
  <2> DEFINE r == [down[d] EXCEPT !.at = "Done"]
  <2>1. /\ down[d].at = "Wait"
        /\ down[d].server \in Ups
        /\ server[down[d].server] = "Gone"
        /\ down' = [down EXCEPT ![d] = r]
    BY <1>1, <1>5 DEF DownReturns, ConnectionClosed, DownWaits
  <2>2. down[d] \in [at : {"Connect", "Wait", "Done", "NotRunning"}, server : Ups \cup {None}]
    BY <1>1 DEF TypeOK
  <2>3. /\ r \in [at : {"Connect", "Wait", "Done", "NotRunning"}, server : Ups \cup {None}]
        /\ r.at = "Done" /\ r.server = down[d].server
    BY <2>2
  <2> HIDE DEF r
  <2> QED
    BY <1>3, <2>1, <2>3
<1> QED
  BY <1>4, <1>5

LEMMA ListerKeeps ==
  ASSUME IInv, NEW l \in Listers, ListerConnects(l) \/ ListerReads(l)
  PROVE  IInv'
<1>1. UNCHANGED <<server, said, lock, lockText, socket, up, polls, down>>
  BY DEF ListerConnects, ListerReads, serverVars
<1>2. TypeOK'
  BY ZenonT(40), <1>1 DEF IInv, TypeOK, ListerConnects, ListerReads
<1>3. Ownership' /\ LaunchedOnce' /\ PollsLeft' /\ DownWaits'
  BY <1>1, OwnershipKept DEF IInv, LaunchedOnce, PollsLeft, DownWaits
<1> QED
  BY <1>2, <1>3 DEF IInv

LEMMA StepIInv ==
  ASSUME IInv, [Next]_vars
  PROVE  IInv'
<1>1. CASE Next
  BY <1>1, ServerKeeps, UpKeeps, DownKeeps, ListerKeeps DEF Next
<1>2. CASE UNCHANGED vars
  BY <1>2 DEF vars, IInv, TypeOK, LaunchedOnce, PollsLeft, DownWaits, Ownership, OneOwner, SocketNeverLost,
              BindFindsPathFree, RemovedForGood
<1> QED
  BY <1>1, <1>2

-----------------------------------------------------------------------------
(* Theorems *)

\* However many servers are started and killed, one at a time holds the lock,
\* listens on the socket, and runs the config's processes.
THEOREM OneServerOwnsTheConfig == Spec => [](OneOwner /\ SocketNeverLost)
<1>1. IInv => OneOwner /\ SocketNeverLost
  BY DEF IInv, Ownership
<1> QED
  BY <1>1, InitIInv, StepIInv, PTL DEF Spec

\* A socket that a dead server left never keeps the next one from starting.
THEOREM StaleSocketNeverBlocks == Spec => []BindFindsPathFree
<1>1. IInv => BindFindsPathFree
  BY DEF IInv, Ownership
<1> QED
  BY <1>1, InitIInv, StepIInv, PTL DEF Spec

\* Every command that reaches a server reaches the owner of the config.
THEOREM ReachedServerIsOwner == Spec => []ReachableIsOwner
<1>1. IInv => ReachableIsOwner
  BY DEF IInv, TypeOK, Ownership, OneOwner, RemovedForGood, ReachableIsOwner, Reachable,
         HasListener, Holding
<1> QED
  BY <1>1, InitIInv, StepIInv, PTL DEF Spec

\* After `mtack down` the config is free for the next server.
THEOREM DownFreesTheConfig == Spec => []DownFrees
<1>1. IInv => DownFrees
  BY DEF IInv, Ownership, OneOwner, DownWaits, DownFrees, Reachable, HasListener, Holding
<1> QED
  BY <1>1, InitIInv, StepIInv, PTL DEF Spec

=============================================================================
