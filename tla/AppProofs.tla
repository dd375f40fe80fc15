----------------------------- MODULE AppProofs -----------------------------
(***************************************************************************)
(* Proofs about App, for any processes, any number of spawns, any capacity *)
(* of the event channel, and a user who may press any key at any time.     *)
(***************************************************************************)
EXTENDS App, SequenceTheorems, TLAPS

\* The records a Process may be, with the restart flag only where Lifecycle
\* has one.
WellFormed ==
  {s \in ProcessRecord : s.pendingRestart => s.state = "Stopping"}

USE ProcessAssumption, AppAssumption

-----------------------------------------------------------------------------
(* What the methods of Process return *)

LEMMA SendPauseType ==
  ASSUME NEW s \in WellFormed, NEW pause \in BOOLEAN
  PROVE  /\ SendPause(s, pause) \in WellFormed
         /\ SendPause(s, pause).state = s.state
         /\ SendPause(s, pause).spawn = s.spawn
         /\ SendPause(s, pause).child = s.child
BY DEF WellFormed, ProcessRecord, SendPause

LEMMA SyncPausedType ==
  ASSUME NEW s \in WellFormed
  PROVE  /\ SyncPaused(s) \in WellFormed
         /\ SyncPaused(s).state = s.state
         /\ SyncPaused(s).spawn = s.spawn
         /\ SyncPaused(s).child = s.child
BY SendPauseType DEF SyncPaused, WellFormed, ProcessRecord

LEMMA SignalledType ==
  ASSUME NEW c \in Child, NEW sig \in {"TERM", "KILL"}
  PROVE  /\ Signalled(c, sig) \in Child
         /\ Signalled(c, sig).watcher = c.watcher
BY DEF Child, Signalled

LEMMA WithChildType ==
  ASSUME NEW s \in WellFormed, NEW k \in Spawns, NEW c \in Child
  PROVE  /\ WithChild(s, k, c) \in WellFormed
         /\ WithChild(s, k, c) = [s EXCEPT !.child = [s.child EXCEPT ![k] = c]]
         /\ WithChild(s, k, c).state = s.state
         /\ WithChild(s, k, c).spawn = s.spawn
         /\ WithChild(s, k, c).child = [s.child EXCEPT ![k] = c]
<1>1. WithChild(s, k, c) = [s EXCEPT !.child = [s.child EXCEPT ![k] = c]]
  BY DEF WithChild
<1>2. [s.child EXCEPT ![k] = c] \in [Spawns -> Child]
  BY DEF WellFormed, ProcessRecord
<1> QED
  BY <1>1, <1>2 DEF WellFormed, ProcessRecord

LEMMA TerminatedType ==
  ASSUME NEW s \in WellFormed, s.spawn \in Spawns
  PROVE  /\ Terminated(s) \in WellFormed
         /\ Terminated(s).state = s.state
         /\ Terminated(s).spawn = s.spawn
         /\ \A k \in Spawns : Terminated(s).child[k].watcher = s.child[k].watcher
<1> DEFINE c == Signalled(s.child[s.spawn], "TERM")
<1>1. s.child \in [Spawns -> Child]
  BY DEF WellFormed, ProcessRecord
<1>2. c \in Child /\ c.watcher = s.child[s.spawn].watcher
  BY <1>1, SignalledType
<1>3. Terminated(s) = WithChild(s, s.spawn, c)
  BY DEF Terminated
<1> HIDE DEF c
<1>4. /\ Terminated(s) \in WellFormed
      /\ Terminated(s).state = s.state
      /\ Terminated(s).spawn = s.spawn
      /\ Terminated(s).child = [s.child EXCEPT ![s.spawn] = c]
  BY <1>2, <1>3, WithChildType
<1> QED
  BY <1>1, <1>2, <1>4

Up == {"Running", "Stopping"}

\* t is up only if s was, with the same spawn and the same watchers.
Keeps(s, t) ==
  t.state \in Up =>
    /\ s.state \in Up
    /\ t.spawn = s.spawn
    /\ \A k \in Spawns : t.child[k].watcher = s.child[k].watcher

\* If t is up, the watcher of its newest spawn is at work.
Fresh(t) ==
  t.state \in Up => t.spawn \in Spawns /\ Watching(t.child[t.spawn])

LEMMA StartType ==
  ASSUME NEW s \in WellFormed, NEW spawns \in BOOLEAN
  PROVE  /\ Start(s, spawns) \in WellFormed
         /\ s.state = "Running" => Start(s, spawns) = s
         /\ s.state # "Running" => Fresh(Start(s, spawns))
<1>1. CASE s.state = "Running"
  BY <1>1 DEF Start
<1>2. CASE s.state # "Running" /\ spawns /\ s.spawn < MaxSpawns
  <2> DEFINE w == WithChild(s, s.spawn + 1, Spawned)
             t == [w EXCEPT !.state = "Running", !.pendingRestart = FALSE, !.spawn = s.spawn + 1]
  <2>1. s.spawn + 1 \in Spawns /\ s.spawn + 1 \in 0..MaxSpawns
    BY <1>2 DEF WellFormed, ProcessRecord, Spawns
  <2>2. Spawned \in Child /\ Watching(Spawned)
    BY DEF Spawned, Child, Watching
  <2>3. /\ w \in WellFormed
        /\ w.child = [s.child EXCEPT ![s.spawn + 1] = Spawned]
    BY <2>1, <2>2, WithChildType
  <2>0. w.child[s.spawn + 1] = Spawned
    BY <2>1, <2>3 DEF WellFormed, ProcessRecord
  <2>4. Start(s, spawns) = SyncPaused(t)
    BY <1>2 DEF Start
  <2> HIDE DEF w
  <2>5. /\ t \in WellFormed
        /\ t.spawn = s.spawn + 1
        /\ t.child[s.spawn + 1] = Spawned
    BY <2>0, <2>1, <2>3 DEF WellFormed, ProcessRecord, State
  <2> HIDE DEF t
  <2> QED
    BY <1>2, <2>1, <2>2, <2>4, <2>5, SyncPausedType DEF Fresh
<1>3. CASE s.state # "Running" /\ ~(spawns /\ s.spawn < MaxSpawns)
  <2>1. Start(s, spawns) = [s EXCEPT !.state = "Failed", !.pendingRestart = FALSE]
    BY <1>3 DEF Start
  <2> QED
    BY <1>3, <2>1 DEF WellFormed, ProcessRecord, State, Fresh, Up
<1> QED
  BY <1>1, <1>2, <1>3

LEMMA StopType ==
  ASSUME NEW s \in WellFormed, s.state = "Running" => s.spawn \in Spawns
  PROVE  /\ Stop(s) \in WellFormed
         /\ Keeps(s, Stop(s))
         /\ s.state # "Running" => Stop(s) = s
         /\ s.state = "Running" => Stop(s).state = "Stopping"
<1>1. CASE s.state # "Running"
  BY <1>1 DEF Stop, Keeps
<1>2. CASE s.state = "Running"
  <2> DEFINE b == SendPause(s, FALSE)
             a == Terminated(b)
  <2>0. b \in WellFormed /\ b.spawn = s.spawn /\ b.child = s.child
    BY SendPauseType
  <2> HIDE DEF b
  <2>1. /\ a \in WellFormed
        /\ a.spawn = s.spawn
        /\ \A k \in Spawns : a.child[k].watcher = s.child[k].watcher
    BY <1>2, <2>0, TerminatedType
  <2>2. Stop(s) = [a EXCEPT !.state = "Stopping"]
    BY <1>2 DEF Stop, b
  <2> HIDE DEF a
  <2> QED
    BY <1>2, <2>1, <2>2 DEF Keeps, Up, WellFormed, ProcessRecord, State
<1> QED
  BY <1>1, <1>2

LEMMA DroppedType ==
  ASSUME NEW s \in WellFormed, s.state = "Running" => s.spawn \in Spawns
  PROVE  Dropped(s) \in WellFormed
<1>1. CASE s.state # "Running"
  BY <1>1 DEF Dropped
<1>2. CASE s.state = "Running"
  <2> DEFINE a == Terminated(SendPause(s, FALSE))
  <2>1. a \in WellFormed /\ a.state = "Running"
    BY <1>2, SendPauseType, TerminatedType
  <2>2. Dropped(s) = [a EXCEPT !.state = "Stopped"]
    BY <1>2 DEF Dropped
  <2> HIDE DEF a
  <2> QED
    BY <2>1, <2>2 DEF WellFormed, ProcessRecord, State
<1> QED
  BY <1>1, <1>2

LEMMA RestartType ==
  ASSUME NEW s \in WellFormed, NEW spawns \in BOOLEAN,
         s.state = "Running" => s.spawn \in Spawns
  PROVE  /\ Restart(s, spawns) \in WellFormed
         /\ Keeps(s, Restart(s, spawns)) \/ Fresh(Restart(s, spawns))
<1>1. CASE s.state \in {"Stopped", "Failed"}
  BY <1>1, StartType DEF Restart
<1>2. CASE s.state \notin {"Stopped", "Failed"}
  <2>1. /\ Stop(s) \in WellFormed
        /\ Keeps(s, Stop(s))
        /\ Stop(s).state = "Stopping"
    BY <1>2, StopType DEF WellFormed, ProcessRecord, State
  <2>2. Restart(s, spawns) = [Stop(s) EXCEPT !.pendingRestart = TRUE]
    BY <1>2 DEF Restart
  <2> QED
    BY <2>1, <2>2 DEF Keeps, Up, WellFormed, ProcessRecord
<1> QED
  BY <1>1, <1>2

LEMMA HandleExitType ==
  ASSUME NEW p \in Procs, NEW s \in WellFormed, NEW status \in ProcessStatus,
         NEW tooFast \in BOOLEAN, NEW spawns \in BOOLEAN
  PROVE  /\ HandleExit(p, s, status, tooFast, spawns) \in WellFormed
         /\ Fresh(HandleExit(p, s, status, tooFast, spawns))
<1> DEFINE ended == [s EXCEPT !.state = ExitState(s, status), !.pendingRestart = FALSE]
<1>1. /\ ended \in WellFormed
      /\ ended.state \in {"Stopped", "Failed"}
  BY DEF ExitState, WellFormed, ProcessRecord, State
<1>2. \/ HandleExit(p, s, status, tooFast, spawns) = s /\ s.state \in {"Stopped", "Failed"}
      \/ HandleExit(p, s, status, tooFast, spawns) = Start(ended, spawns)
      \/ HandleExit(p, s, status, tooFast, spawns) = ended
  BY DEF HandleExit
<1> HIDE DEF ended
<1> QED
  BY <1>1, <1>2, StartType DEF Fresh, Up

LEMMA ViewType ==
  ASSUME NEW s \in WellFormed, NEW back \in BOOLEAN
  PROVE  /\ \A reset \in BOOLEAN :
              HandleOutput(s, back, reset) \in WellFormed /\ Keeps(s, HandleOutput(s, back, reset))
         /\ Scroll(s, back) \in WellFormed /\ Keeps(s, Scroll(s, back))
         /\ ScrollToBottom(s) \in WellFormed /\ Keeps(s, ScrollToBottom(s))
<1>1. ASSUME NEW reset \in BOOLEAN
      PROVE  HandleOutput(s, back, reset) \in WellFormed /\ Keeps(s, HandleOutput(s, back, reset))
  BY DEF HandleOutput, Keeps, WellFormed, ProcessRecord
<1>2. Scroll(s, back) \in WellFormed /\ Keeps(s, Scroll(s, back))
  BY DEF Scroll, Keeps, WellFormed, ProcessRecord
<1>3. ScrollToBottom(s) \in WellFormed /\ Keeps(s, ScrollToBottom(s))
  BY DEF ScrollToBottom, Keeps, WellFormed, ProcessRecord
<1> QED
  BY <1>1, <1>2, <1>3

-----------------------------------------------------------------------------
(* What a turn of the App leaves *)

IInv == TypeOK /\ ReportOwed

Moves(s, t) == t \in WellFormed /\ (Keeps(s, t) \/ Fresh(t))

\* ps is what a turn makes of the processes.
Turned(ps) ==
  /\ ps \in [Procs -> WellFormed]
  /\ \A p \in Procs : Moves(proc[p], ps[p])

LEMMA TypeOKWellFormed ==
  TypeOK <=> /\ proc \in [Procs -> WellFormed]
             /\ events \in Seq(Event)
             /\ mode \in Mode
             /\ selected \in Procs
             /\ attached \in BOOLEAN
             /\ loop \in {"Running", "Exited", "ForceExited"}
<1>1. ASSUME proc \in [Procs -> ProcessRecord],
             \A p \in Procs : proc[p].pendingRestart => proc[p].state = "Stopping"
      PROVE  proc \in [Procs -> WellFormed]
  BY <1>1 DEF WellFormed
<1>2. ASSUME proc \in [Procs -> WellFormed]
      PROVE  /\ proc \in [Procs -> ProcessRecord]
             /\ \A p \in Procs : proc[p].pendingRestart => proc[p].state = "Stopping"
  BY <1>2 DEF WellFormed
<1> QED
  BY <1>1, <1>2 DEF TypeOK

LEMMA RunningHasSpawn ==
  ASSUME IInv, loop = "Running", NEW p \in Procs, proc[p].state \in Up
  PROVE  proc[p].spawn \in Spawns
BY DEF IInv, TypeOK, ReportOwed, ProcessRecord, Spawns, Up

LEMMA TurnedHasSpawn ==
  ASSUME IInv, loop = "Running", NEW ps, Turned(ps),
         NEW p \in Procs, ps[p].state \in Up
  PROVE  ps[p].spawn \in Spawns
BY RunningHasSpawn DEF Turned, Moves, Keeps, Fresh

LEMMA SyncMoves ==
  ASSUME NEW s \in WellFormed, NEW t, Moves(s, t)
  PROVE  Moves(s, SyncPaused(t))
<1>1. t \in WellFormed
  BY DEF Moves
<1> QED
  BY <1>1, SyncPausedType DEF Moves, Keeps, Fresh

LEMMA SyncedTurned ==
  ASSUME TypeOK, NEW ps, Turned(ps), NEW tab \in Procs
  PROVE  Turned(Synced(tab, ps))
<1>1. \A p \in Procs : proc[p] \in WellFormed
  BY TypeOKWellFormed
<1>2. \A p \in Procs : Moves(proc[p], SyncPaused(ps[p]))
  BY <1>1, SyncMoves DEF Turned
<1>3. Synced(tab, ps) = [p \in Procs |-> IF p = tab THEN SyncPaused(ps[p]) ELSE ps[p]]
  BY DEF Synced, Turned
<1> QED
  BY <1>2, <1>3 DEF Turned, Moves

LEMMA Unchanged ==
  ASSUME TypeOK
  PROVE  Turned(proc)
BY TypeOKWellFormed DEF Turned, Moves, Keeps

LEMMA OneTurned ==
  ASSUME TypeOK, NEW p \in Procs, NEW t, Moves(proc[p], t)
  PROVE  Turned([proc EXCEPT ![p] = t])
<1>1. Turned(proc) /\ proc \in [Procs -> WellFormed]
  BY Unchanged, TypeOKWellFormed
<1> QED
  BY <1>1 DEF Turned, Moves

LEMMA StopAllTurned ==
  ASSUME IInv, loop = "Running"
  PROVE  Turned(StopAll)
<1>1. \A p \in Procs : proc[p] \in WellFormed
  BY TypeOKWellFormed DEF IInv
<1>2. \A p \in Procs : Moves(proc[p], Stop(proc[p]))
  BY <1>1, RunningHasSpawn, StopType DEF Moves, Up
<1> QED
  BY <1>2 DEF Turned, StopAll, Moves

LEMMA ResetTurned ==
  ASSUME TypeOK
  PROVE  Turned([p \in Procs |-> SyncPaused(ScrollToBottom(proc[p]))])
<1>1. \A p \in Procs : proc[p] \in WellFormed
  BY TypeOKWellFormed
<1>2. \A p \in Procs : Moves(proc[p], ScrollToBottom(proc[p]))
  BY <1>1, ViewType DEF Moves
<1>3. \A p \in Procs : Moves(proc[p], SyncPaused(ScrollToBottom(proc[p])))
  BY <1>1, <1>2, SyncMoves
<1> QED
  BY <1>3 DEF Turned, Moves

\* The three ways to end a turn keep the types, and change the processes as
\* Turned says unless the server is left.
TurnDone(ps) ==
  /\ proc' \in [Procs -> WellFormed]
  /\ mode' \in Mode
  /\ loop' \in {"Running", "Exited", "ForceExited"}
  /\ loop' = "Running" => proc' = ps

LEMMA LeaveDone ==
  ASSUME IInv, loop = "Running", NEW ps, Turned(ps),
         NEW how \in {"Exited", "ForceExited"}, Leave(how, ps), mode' \in Mode
  PROVE  TurnDone(ps)
<1>1. \A p \in Procs : Dropped(ps[p]) \in WellFormed
  BY TurnedHasSpawn, DroppedType DEF Turned, Up
<1> QED
  BY <1>1 DEF Leave, TurnDone

LEMMA EndTurnDone ==
  ASSUME IInv, loop = "Running", NEW ps, Turned(ps), NEW m \in Mode, EndTurn(m, ps)
  PROVE  TurnDone(ps)
BY LeaveDone DEF EndTurn, TurnDone, Turned

LEMMA BeginQuitDone ==
  ASSUME IInv, loop = "Running", NEW ps, Turned(ps), BeginQuit(ps)
  PROVE  TurnDone(ps)
<1>1. "Quitting" \in Mode /\ mode \in Mode
  BY DEF IInv, TypeOK, Mode
<1> QED
  BY <1>1, LeaveDone, EndTurnDone DEF BeginQuit

\* A turn that takes no event from the channel keeps the invariant.
LEMMA TurnKeeps ==
  ASSUME IInv, loop = "Running", NEW ps, Turned(ps), TurnDone(ps),
         events' = events, selected' \in Procs, attached' \in BOOLEAN
  PROVE  IInv'
<1>1. TypeOK'
  <2>1. events' \in Seq(Event)
    BY DEF IInv, TypeOK
  <2> QED
    BY <2>1, TypeOKWellFormed DEF TurnDone, TypeOK, WellFormed
<1>2. ReportOwed'
  <2> SUFFICES ASSUME loop' = "Running", NEW p \in Procs, proc'[p].state \in Up
               PROVE  /\ proc'[p].spawn > 0
                      /\ \/ Watching(proc'[p].child[proc'[p].spawn])
                         \/ \E i \in DOMAIN events' : IsExitOf(events'[i], p, proc'[p].spawn)
    BY DEF ReportOwed, Up
  <2>1. proc' = ps /\ ps[p].spawn \in Spawns
    BY TurnedHasSpawn DEF TurnDone
  <2>2. CASE Fresh(ps[p])
    BY <2>1, <2>2 DEF Fresh, Spawns
  <2>3. CASE Keeps(proc[p], ps[p])
    BY <2>1, <2>3 DEF Keeps, IInv, ReportOwed, Up, Watching
  <2> QED
    BY <2>2, <2>3 DEF Turned, Moves
<1> QED
  BY <1>1, <1>2 DEF IInv

-----------------------------------------------------------------------------
(* Every step keeps the invariant *)

LEMMA InputKeeps ==
  ASSUME IInv, NEW modes, NEW m \in Mode, NEW s, Moves(proc[selected], s),
         Input(modes, m, s)
  PROVE  IInv'
<1> DEFINE ps == Synced(selected, [proc EXCEPT ![selected] = s])
<1>1. selected \in Procs /\ TypeOK /\ loop = "Running" /\ attached' \in BOOLEAN
  BY DEF IInv, TypeOK, Input, InputIn
<1>2. Turned(ps)
  BY <1>1, OneTurned, SyncedTurned
<1>3. EndTurn(m, ps) /\ UNCHANGED <<events, attached, selected>>
  BY DEF Input, InputIn
<1> HIDE DEF ps
<1> QED
  BY <1>1, <1>2, <1>3, EndTurnDone, TurnKeeps

LEMMA ClientInputKeeps ==
  ASSUME IInv, ClientInput
  PROVE  IInv'
<1>1. /\ TypeOK
      /\ selected \in Procs
      /\ Shown = proc[selected]
      /\ Shown \in WellFormed
      /\ mode \in Mode
      /\ {"Normal", "Focused", "Search", "ConfirmQuit", "Quitting"} = Mode
  BY TypeOKWellFormed DEF IInv, TypeOK, Shown, Mode
<1>2. Moves(Shown, Shown)
  BY <1>1 DEF Moves, Keeps
<1>3. ASSUME NEW modes, InputIn(modes)
      PROVE  /\ loop = "Running"
             /\ events' = events
             /\ attached' \in BOOLEAN
             /\ Shown.state = "Running" => Shown.spawn \in Spawns
  BY <1>1, <1>3, RunningHasSpawn DEF InputIn, IInv, TypeOK, Up
<1>4. CASE OtherInput
  BY <1>1, <1>2, <1>4, InputKeeps DEF OtherInput
<1>5. ASSUME NEW p \in Procs, SelectTab(p) \/ ClickTab(p)
      PROVE  IInv'
  <2>1. Turned(Synced(p, proc))
    BY <1>1, Unchanged, SyncedTurned
  <2>2. CASE SelectTab(p)
    BY <1>1, <1>3, <2>1, <2>2, EndTurnDone, TurnKeeps DEF SelectTab
  <2>3. CASE ClickTab(p)
    BY <1>1, <1>3, <2>1, <2>3, EndTurnDone, TurnKeeps DEF ClickTab
  <2> QED
    BY <1>5, <2>2, <2>3
<1>6. ASSUME NEW back \in BOOLEAN, ScrollView(back) \/ SearchAccept(back)
      PROVE  IInv'
  <2>1. Moves(Shown, Scroll(Shown, back))
    BY <1>1, ViewType DEF Moves
  <2> QED
    BY <1>1, <1>6, <2>1, InputKeeps DEF ScrollView, SearchAccept
<1>7. CASE FocusTab \/ Unfocus \/ EnterSearch \/ Quit \/ CancelQuit
  BY <1>1, <1>2, <1>7, InputKeeps DEF FocusTab, Unfocus, EnterSearch, Quit, CancelQuit
<1>8. ASSUME NEW spawns \in BOOLEAN, StartProcess(spawns)
      PROVE  IInv'
  <2>1. Moves(Shown, Start(Shown, spawns))
    BY <1>1, <1>2, StartType DEF Moves
  <2> QED
    BY <1>1, <1>8, <2>1, InputKeeps DEF StartProcess
<1>9. ASSUME NEW spawns \in BOOLEAN, RestartProcess(spawns)
      PROVE  IInv'
  <2>1. Shown.state = "Running" => Shown.spawn \in Spawns
    BY <1>3, <1>9 DEF RestartProcess, Input
  <2>2. Moves(Shown, Restart(Shown, spawns))
    BY <1>1, <2>1, RestartType DEF Moves
  <2> QED
    BY <1>1, <1>9, <2>2, InputKeeps DEF RestartProcess
<1>10. CASE StopProcess
  <2>1. Shown.state = "Running" => Shown.spawn \in Spawns
    BY <1>3, <1>10 DEF StopProcess, Input
  <2>2. Moves(Shown, Stop(Shown))
    BY <1>1, <2>1, StopType DEF Moves
  <2> QED
    BY <1>1, <1>10, <2>2, InputKeeps DEF StopProcess
<1>11. CASE SearchCancel
  <2>1. Moves(Shown, ScrollToBottom(Shown))
    BY <1>1, ViewType DEF Moves
  <2> QED
    BY <1>1, <1>11, <2>1, InputKeeps DEF SearchCancel
<1>12. CASE QuitNow
  <2> DEFINE ps == Synced(selected, StopAll)
  <2>1. loop = "Running" /\ UNCHANGED <<events, selected>> /\ attached' \in BOOLEAN
    BY <1>3, <1>12 DEF QuitNow
  <2>2. Turned(ps)
    BY <1>1, <2>1, StopAllTurned, SyncedTurned
  <2>3. BeginQuit(ps)
    BY <1>12 DEF QuitNow
  <2> HIDE DEF ps
  <2> QED
    BY <1>1, <2>1, <2>2, <2>3, BeginQuitDone, TurnKeeps
<1>13. CASE ForceQuit
  <2>1. loop = "Running" /\ UNCHANGED <<events, selected, mode>> /\ attached' \in BOOLEAN
    BY <1>3, <1>13 DEF ForceQuit
  <2>2. Leave("ForceExited", proc)
    BY <1>13 DEF ForceQuit
  <2>3. Turned(proc)
    BY <1>1, Unchanged
  <2> QED
    BY <1>1, <2>1, <2>2, <2>3, LeaveDone, TurnKeeps
<1> QED
  BY <1>4, <1>5, <1>6, <1>7, <1>8, <1>9, <1>10, <1>11, <1>12, <1>13 DEF ClientInput

LEMMA ServerTurnKeeps ==
  ASSUME IInv, Attach \/ Detach \/ QuitRequest
  PROVE  IInv'
<1>1. /\ TypeOK
      /\ loop = "Running"
      /\ events' = events
      /\ selected' \in Procs
      /\ attached' \in BOOLEAN
  BY DEF IInv, TypeOK, Attach, Detach, QuitRequest
<1>2. CASE ResetView
  <2> DEFINE ps == [p \in Procs |-> SyncPaused(ScrollToBottom(proc[p]))]
             m == IF mode = "Quitting" THEN mode ELSE "Normal"
  <2>1. Turned(ps) /\ m \in Mode /\ EndTurn(m, ps)
    BY <1>1, <1>2, ResetTurned DEF ResetView, TypeOK, Mode
  <2> HIDE DEF ps, m
  <2> QED
    BY <1>1, <2>1, EndTurnDone, TurnKeeps
<1>3. CASE BeginQuit(StopAll)
  BY <1>1, <1>3, StopAllTurned, BeginQuitDone, TurnKeeps
<1> QED
  BY <1>2, <1>3 DEF Attach, Detach, QuitRequest

LEMMA HandleAppEventKeeps ==
  ASSUME IInv, HandleAppEvent
  PROVE  IInv'
<1> DEFINE e == Head(events)
<1>1. /\ TypeOK
      /\ loop = "Running"
      /\ mode \in Mode
      /\ events \in Seq(Event)
      /\ events # <<>>
      /\ events' = Tail(events)
      /\ selected' \in Procs
      /\ attached' \in BOOLEAN
      /\ proc \in [Procs -> WellFormed]
  BY TypeOKWellFormed DEF IInv, TypeOK, HandleAppEvent
<1>2. /\ e = events[1]
      /\ e \in Event
      /\ e.id \in Procs
      /\ e.type = "ProcessExited" => e.status \in ProcessStatus
      /\ events' \in Seq(Event)
      /\ \A i \in DOMAIN events : i # 1 => i - 1 \in DOMAIN events' /\ events'[i - 1] = events[i]
  BY <1>1 DEF Event
<1>3. ASSUME NEW ps, EndTurn(mode, ps), Turned(ps),
             \A p \in Procs : Fresh(ps[p]) \/ (\A k \in Spawns : ~IsExitOf(e, p, k))
      PROVE  IInv'
  <2>1. TurnDone(ps)
    BY <1>1, <1>3, EndTurnDone
  <2>2. TypeOK'
    BY <1>1, <1>2, <2>1 DEF TurnDone, TypeOK, WellFormed
  <2>3. ASSUME loop' = "Running", NEW p \in Procs, proc'[p].state \in Up
        PROVE  /\ proc'[p].spawn > 0
               /\ \/ Watching(proc'[p].child[proc'[p].spawn])
                  \/ \E i \in DOMAIN events' : IsExitOf(events'[i], p, proc'[p].spawn)
    <3>1. proc' = ps /\ ps[p].spawn \in Spawns
      BY <1>1, <1>3, <2>1, <2>3, TurnedHasSpawn DEF TurnDone
    <3>2. CASE Fresh(ps[p])
      BY <2>3, <3>1, <3>2 DEF Fresh, Spawns
    <3>3. CASE Keeps(proc[p], ps[p]) /\ (\A k \in Spawns : ~IsExitOf(e, p, k))
      <4>1. /\ proc[p].state \in Up
            /\ proc[p].spawn = ps[p].spawn
            /\ Watching(proc[p].child[proc[p].spawn]) => Watching(ps[p].child[ps[p].spawn])
        BY <2>3, <3>1, <3>3 DEF Keeps, Watching
      <4>2. CASE Watching(proc[p].child[proc[p].spawn])
        BY <3>1, <4>1, <4>2 DEF Spawns
      <4>3. CASE \E i \in DOMAIN events : IsExitOf(events[i], p, proc[p].spawn)
        <5>1. PICK i \in DOMAIN events : IsExitOf(events[i], p, proc[p].spawn)
          BY <4>3
        <5>2. i # 1
          BY <1>2, <3>1, <3>3, <4>1, <5>1
        <5> QED
          BY <1>2, <3>1, <4>1, <5>1, <5>2 DEF Spawns
      <4> QED
        BY <1>1, <4>1, <4>2, <4>3 DEF IInv, ReportOwed, Up
    <3> QED
      BY <1>3, <3>2, <3>3 DEF Turned, Moves
  <2>4. ReportOwed'
    BY <2>3 DEF ReportOwed, Up
  <2> QED
    BY <2>2, <2>4 DEF IInv
<1> HIDE DEF e
<1>4. CASE TakeOutput(e)
  <2>1. PICK alt \in BOOLEAN, reset \in BOOLEAN :
         EndTurn(mode, [proc EXCEPT ![e.id] = HandleOutput(@, alt, reset)])
    BY <1>4 DEF TakeOutput
  <2>2. Moves(proc[e.id], HandleOutput(proc[e.id], alt, reset))
    BY <1>1, <1>2, ViewType DEF Moves
  <2>3. Turned([proc EXCEPT ![e.id] = HandleOutput(proc[e.id], alt, reset)])
    BY <1>1, <1>2, <2>2, OneTurned
  <2> QED
    BY <1>3, <1>4, <2>1, <2>3 DEF TakeOutput, IsExitOf
<1>5. CASE TakeExit(e)
  <2> DEFINE t(tooFast, spawns) == HandleExit(e.id, proc[e.id], e.status, tooFast, spawns)
  <2>1. PICK tooFast \in BOOLEAN, spawns \in BOOLEAN :
          EndTurn(mode, [proc EXCEPT ![e.id] = t(tooFast, spawns)])
    BY <1>5 DEF TakeExit
  <2>2. t(tooFast, spawns) \in WellFormed /\ Fresh(t(tooFast, spawns))
    BY <1>1, <1>2, <1>5, HandleExitType DEF TakeExit
  <2> HIDE DEF t
  <2>3. Turned([proc EXCEPT ![e.id] = t(tooFast, spawns)])
    BY <1>1, <1>2, <2>2, OneTurned DEF Moves
  <2>4. \A p \in Procs : \/ Fresh([proc EXCEPT ![e.id] = t(tooFast, spawns)][p])
                         \/ \A k \in Spawns : ~IsExitOf(e, p, k)
    BY <1>1, <2>2 DEF IsExitOf
  <2> QED
    BY <1>3, <2>1, <2>3, <2>4
<1> QED
  BY <1>4, <1>5 DEF HandleAppEvent, e

LEMMA TaskKeeps ==
  ASSUME IInv, NEW p \in Procs, NEW k \in Spawns, Beside(Task(p, k))
  PROVE  IInv'
<1> DEFINE c == proc[p].child[k]
<1>1. /\ proc \in [Procs -> WellFormed]
      /\ proc[p].child \in [Spawns -> Child]
      /\ c \in Child
      /\ events \in Seq(Event)
      /\ loop = "Running"
      /\ UNCHANGED <<mode, selected, attached, loop>>
  BY TypeOKWellFormed DEF IInv, TypeOK, WellFormed, ProcessRecord, Beside
<1>2. ASSUME NEW d \in Child,
             proc' = [proc EXCEPT ![p] = WithChild(@, k, d)],
             events' \in Seq(Event),
             \A i \in DOMAIN events : i \in DOMAIN events' /\ events'[i] = events[i],
             Watching(c) => \/ Watching(d)
                            \/ \E i \in DOMAIN events' : IsExitOf(events'[i], p, k)
      PROVE  IInv'
  <2>1. /\ WithChild(proc[p], k, d) \in WellFormed
        /\ WithChild(proc[p], k, d).state = proc[p].state
        /\ WithChild(proc[p], k, d).spawn = proc[p].spawn
        /\ WithChild(proc[p], k, d).child = [proc[p].child EXCEPT ![k] = d]
    BY <1>1, WithChildType
  <2>2. /\ proc' \in [Procs -> WellFormed]
        /\ \A q \in Procs : proc'[q].state = proc[q].state /\ proc'[q].spawn = proc[q].spawn
        /\ \A q \in Procs, j \in Spawns :
             proc'[q].child[j] = IF q = p /\ j = k THEN d ELSE proc[q].child[j]
    BY <1>1, <1>2, <2>1
  <2>3. TypeOK'
    BY <1>1, <1>2, <2>2 DEF IInv, TypeOK, WellFormed
  <2>4. ReportOwed'
    <3> SUFFICES ASSUME NEW q \in Procs, proc'[q].state \in Up
                 PROVE  /\ proc'[q].spawn > 0
                        /\ \/ Watching(proc'[q].child[proc'[q].spawn])
                           \/ \E i \in DOMAIN events' : IsExitOf(events'[i], q, proc'[q].spawn)
      BY DEF ReportOwed, Up
    <3>1. proc[q].state \in Up /\ proc[q].spawn \in Spawns
      BY <1>1, <2>2, RunningHasSpawn
    <3>2. \/ Watching(proc[q].child[proc[q].spawn])
          \/ \E i \in DOMAIN events : IsExitOf(events[i], q, proc[q].spawn)
      BY <1>1, <3>1 DEF IInv, ReportOwed, Up
    <3> QED
      BY <1>2, <2>2, <3>1, <3>2 DEF Spawns
  <2> QED
    BY <2>3, <2>4 DEF IInv
<1>3. ASSUME NEW from, NEW to, WatcherStep(p, k, from, to),
             to \in {"CheckPause", "Read", "SendOutput", "Wait", "SendExit", "Done"}
      PROVE  /\ [c EXCEPT !.watcher = to] \in Child
             /\ proc' = [proc EXCEPT ![p] = WithChild(@, k, [c EXCEPT !.watcher = to])]
             /\ to # "Done" => Watching([c EXCEPT !.watcher = to])
  <2>1. [c EXCEPT !.watcher = to] \in Child
    BY <1>1, <1>3 DEF Child
  <2>2. proc' = [proc EXCEPT ![p] = WithChild(@, k, [c EXCEPT !.watcher = to])]
    BY <1>3 DEF WatcherStep, WithChild
  <2>3. to # "Done" => Watching([c EXCEPT !.watcher = to])
    BY <1>1, <1>3 DEF Watching, Child
  <2> QED
    BY <2>1, <2>2, <2>3
<1> HIDE DEF c
<1>4. CASE \/ WatcherResume(p, k)
           \/ WatcherRead(p, k)
           \/ WatcherEof(p, k)
           \/ WatcherWait(p, k)
  <2>1. /\ events' = events
        /\ \E from, to : /\ to \in {"Read", "SendOutput", "Wait", "SendExit"}
                         /\ WatcherStep(p, k, from, to)
    BY <1>4 DEF WatcherResume, WatcherRead, WatcherEof, WatcherWait
  <2> QED
    BY <1>1, <1>2, <1>3, <2>1
<1>5. CASE WatcherSendOutput(p, k)
  <2> DEFINE o == [type |-> "PtyOutput", id |-> p]
  <2>1. o \in Event /\ events' = Append(events, o)
    BY <1>5 DEF Event, WatcherSendOutput
  <2>2. /\ events' \in Seq(Event)
        /\ \A i \in DOMAIN events : i \in DOMAIN events' /\ events'[i] = events[i]
    BY <1>1, <2>1
  <2>3. WatcherStep(p, k, "SendOutput", "CheckPause")
    BY <1>5 DEF WatcherSendOutput
  <2> DEFINE d == [c EXCEPT !.watcher = "CheckPause"]
  <2>4. d \in Child /\ Watching(d) /\ proc' = [proc EXCEPT ![p] = WithChild(@, k, d)]
    BY <1>3, <2>3
  <2> HIDE DEF d, o
  <2> QED
    BY <1>2, <2>2, <2>4
<1>6. CASE WatcherSendExit(p, k)
  <2>1. PICK status \in ProcessStatus :
          events' = Append(events, [type |-> "ProcessExited", id |-> p,
                                    spawn |-> k, status |-> status])
    BY <1>6 DEF WatcherSendExit
  <2> DEFINE x == [type |-> "ProcessExited", id |-> p, spawn |-> k, status |-> status]
  <2>2. x \in Event /\ IsExitOf(x, p, k)
    BY DEF Event, IsExitOf
  <2> HIDE DEF x
  <2>3. /\ events' \in Seq(Event)
        /\ \A i \in DOMAIN events : i \in DOMAIN events' /\ events'[i] = events[i]
        /\ Len(events) + 1 \in DOMAIN events'
        /\ events'[Len(events) + 1] = x
    BY <1>1, <2>1, <2>2 DEF x
  <2> QED
    BY <1>2, <1>3, <1>6, <2>2, <2>3 DEF WatcherSendExit
<1>7. CASE KillTimer(p, k)
  <2> DEFINE d == [c EXCEPT !.signal = "KILL"]
  <2>1. d \in Child /\ d.watcher = c.watcher
    BY <1>1 DEF Child
  <2>2. events' = events /\ proc' = [proc EXCEPT ![p] = WithChild(@, k, d)]
    BY <1>7 DEF KillTimer, WithChild, c
  <2> HIDE DEF d
  <2> QED
    BY <1>1, <1>2, <2>1, <2>2 DEF Watching
<1>8. CASE ChildDies(p, k)
  <2> DEFINE d == [c EXCEPT !.os = "Dead", !.signal = "None"]
  <2>1. d \in Child /\ d.watcher = c.watcher
    BY <1>1 DEF Child
  <2>2. events' = events /\ proc' = [proc EXCEPT ![p] = WithChild(@, k, d)]
    BY <1>8 DEF ChildDies, WithChild, c
  <2> HIDE DEF d
  <2> QED
    BY <1>1, <1>2, <2>1, <2>2 DEF Watching
<1> QED
  BY <1>4, <1>5, <1>6, <1>7, <1>8 DEF Beside, Task

LEMMA InitIInv ==
  ASSUME Init
  PROVE  IInv
<1>1. NewProcess \in WellFormed
  <2>1. [k \in Spawns |-> [os |-> "Unborn", signal |-> "None", watcher |-> "Absent"]]
          \in [Spawns -> Child]
    BY DEF Child
  <2> QED
    BY <2>1 DEF NewProcess, WellFormed, ProcessRecord, State
<1>2. NewProcess.state = "Stopped" /\ Fresh(NewProcess)
  BY DEF NewProcess, Fresh, Up
<1>3. /\ proc \in [Procs -> WellFormed]
      /\ \A p \in Procs : Fresh(proc[p])
  <2>1. PICK spawned \in SUBSET AutoStart :
          proc = [p \in Procs |-> IF p \in AutoStart THEN Start(NewProcess, p \in spawned)
                                                    ELSE NewProcess]
    BY DEF Init
  <2>2. \A b \in BOOLEAN : Start(NewProcess, b) \in WellFormed /\ Fresh(Start(NewProcess, b))
    BY <1>1, <1>2, StartType
  <2>3. \A p \in Procs : (p \in spawned) \in BOOLEAN
    OBVIOUS
  <2>4. \A p \in Procs : proc[p] \in WellFormed /\ Fresh(proc[p])
    BY <1>1, <1>2, <2>1, <2>2, <2>3
  <2> QED
    BY <2>1, <2>4
<1>4. TypeOK
  <2>1. events \in Seq(Event)
    BY DEF Init
  <2> QED
    BY <1>3, <2>1, TypeOKWellFormed DEF Init, Mode
<1>5. ReportOwed
  BY <1>3 DEF ReportOwed, Fresh, Up, Spawns
<1> QED
  BY <1>4, <1>5 DEF IInv

LEMMA StepIInv ==
  ASSUME IInv, [Next]_vars
  PROVE  IInv'
<1>1. CASE Next
  BY <1>1, ServerTurnKeeps, ClientInputKeeps, HandleAppEventKeeps, TaskKeeps DEF Next
<1>2. CASE UNCHANGED vars
  BY <1>2 DEF vars, IInv, TypeOK, ReportOwed
<1> QED
  BY <1>1, <1>2

\* The App, its channel and every process keep to their types, and only a
\* process that is stopping owes a restart.
THEOREM TypeCorrect == Spec => []TypeOK
<1>1. IInv => TypeOK
  BY DEF IInv
<1> QED
  BY <1>1, InitIInv, StepIInv, PTL DEF Spec

\* No exit is ever missed: a tab shown as running or stopping is always owed
\* the report of its newest spawn, whatever the user, the children and the
\* scheduler do.
THEOREM ExitIsReported == Spec => []ReportOwed
<1>1. IInv => ReportOwed
  BY DEF IInv
<1> QED
  BY <1>1, InitIInv, StepIInv, PTL DEF Spec

-----------------------------------------------------------------------------
(* Without a client *)

\* What sync_paused would leave as it is, with a view that is at the bottom.
Quiet(s) == ~s.scrolledBack /\ (Watched(s) => ~s.paused)

LEMMA SendPauseQuiet ==
  ASSUME NEW s \in WellFormed, ~s.scrolledBack
  PROVE  Quiet(SendPause(s, FALSE)) /\ Quiet(SyncPaused(s))
<1>1. /\ SendPause(s, FALSE).scrolledBack = s.scrolledBack
      /\ SendPause(s, FALSE).child = s.child
      /\ Watched(s) => SendPause(s, FALSE).paused = FALSE
  BY DEF SendPause, WellFormed, ProcessRecord
<1>2. SyncPaused(s) = SendPause(s, FALSE)
  BY DEF SyncPaused, WellFormed, ProcessRecord
<1> QED
  BY <1>1, <1>2 DEF Quiet, Watched

LEMMA WithChildQuiet ==
  ASSUME NEW s \in WellFormed, Quiet(s), NEW k \in Spawns, NEW c \in Child,
         Watching(c) => Watching(s.child[k])
  PROVE  Quiet(WithChild(s, k, c))
<1> DEFINE t == WithChild(s, k, c)
<1>1. t = [s EXCEPT !.child = [s.child EXCEPT ![k] = c]] /\ t.child = [s.child EXCEPT ![k] = c]
  BY WithChildType
<1>2. t.scrolledBack = s.scrolledBack /\ t.paused = s.paused
  BY <1>1 DEF WellFormed, ProcessRecord
<1> HIDE DEF t
<1>3. s.child \in [Spawns -> Child]
  BY DEF WellFormed, ProcessRecord
<1>4. Quiet(t)
  BY <1>1, <1>2, <1>3 DEF Quiet, Watched, Watching
<1> QED
  BY <1>4 DEF t

LEMMA TerminatedQuiet ==
  ASSUME NEW s \in WellFormed, Quiet(s), s.spawn \in Spawns
  PROVE  Quiet(Terminated(s))
<1>1. s.child[s.spawn] \in Child
  BY DEF WellFormed, ProcessRecord
<1> QED
  BY <1>1, SignalledType, WithChildQuiet DEF Terminated, Watching

LEMMA StartQuiet ==
  ASSUME NEW s \in WellFormed, Quiet(s), NEW spawns \in BOOLEAN
  PROVE  Quiet(Start(s, spawns))
<1>1. CASE s.state = "Running"
  BY <1>1 DEF Start
<1>2. CASE s.state # "Running" /\ spawns /\ s.spawn < MaxSpawns
  <2> DEFINE w == WithChild(s, s.spawn + 1, Spawned)
             t == [w EXCEPT !.state = "Running", !.pendingRestart = FALSE, !.spawn = s.spawn + 1]
  <2>1. /\ s.spawn + 1 \in Spawns /\ s.spawn + 1 \in 0..MaxSpawns
        /\ Spawned \in Child
    BY <1>2 DEF WellFormed, ProcessRecord, Spawns, Spawned, Child
  <2>2. w \in WellFormed /\ w.scrolledBack = s.scrolledBack
    BY <2>1, WithChildType DEF WithChild, WellFormed, ProcessRecord
  <2> HIDE DEF w
  <2>3. t \in WellFormed /\ ~t.scrolledBack
    BY <2>1, <2>2 DEF WellFormed, ProcessRecord, State, Quiet
  <2>4. Start(s, spawns) = SyncPaused(t)
    BY <1>2 DEF Start, w
  <2> HIDE DEF t
  <2> QED
    BY <2>3, <2>4, SendPauseQuiet
<1>3. CASE s.state # "Running" /\ ~(spawns /\ s.spawn < MaxSpawns)
  <2>1. Start(s, spawns) = [s EXCEPT !.state = "Failed", !.pendingRestart = FALSE]
    BY <1>3 DEF Start
  <2> QED
    BY <2>1 DEF Quiet, Watched, WellFormed, ProcessRecord
<1> QED
  BY <1>1, <1>2, <1>3

LEMMA EndedQuiet ==
  ASSUME NEW s \in WellFormed, Quiet(s), s.state = "Running" => s.spawn \in Spawns
  PROVE  Quiet(Stop(s)) /\ Quiet(Dropped(s))
<1>1. CASE s.state # "Running"
  BY <1>1 DEF Stop, Dropped
<1>2. CASE s.state = "Running"
  <2> DEFINE a == Terminated(SendPause(s, FALSE))
  <2>1. a \in WellFormed /\ Quiet(a)
    BY <1>2, SendPauseType, SendPauseQuiet, TerminatedType, TerminatedQuiet DEF Quiet
  <2>2. Stop(s) = [a EXCEPT !.state = "Stopping"] /\ Dropped(s) = [a EXCEPT !.state = "Stopped"]
    BY <1>2 DEF Stop, Dropped
  <2> HIDE DEF a
  <2> QED
    BY <2>1, <2>2 DEF Quiet, Watched, WellFormed, ProcessRecord
<1> QED
  BY <1>1, <1>2

LEMMA EventQuiet ==
  ASSUME NEW p \in Procs, NEW s \in WellFormed, Quiet(s), NEW status \in ProcessStatus,
         NEW tooFast \in BOOLEAN, NEW spawns \in BOOLEAN
  PROVE  /\ Quiet(HandleExit(p, s, status, tooFast, spawns))
         /\ Quiet(HandleOutput(s, tooFast, spawns))
<1> DEFINE ended == [s EXCEPT !.state = ExitState(s, status), !.pendingRestart = FALSE]
<1>1. ended \in WellFormed /\ Quiet(ended)
  BY DEF ExitState, WellFormed, ProcessRecord, State, Quiet, Watched
<1>2. \/ HandleExit(p, s, status, tooFast, spawns) = s
      \/ HandleExit(p, s, status, tooFast, spawns) = Start(ended, spawns)
      \/ HandleExit(p, s, status, tooFast, spawns) = ended
  BY DEF HandleExit
<1>3. Quiet(HandleOutput(s, tooFast, spawns))
  BY DEF HandleOutput, Quiet, Watched, WellFormed, ProcessRecord
<1> HIDE DEF ended
<1> QED
  BY <1>1, <1>2, <1>3, StartQuiet

DetachedQuiet == ~attached => \A p \in Procs : Quiet(proc[p])

\* A turn that ends with quiet processes leaves quiet ones.
LEMMA EndTurnQuiet ==
  ASSUME IInv, loop = "Running", NEW ps, Turned(ps), \A p \in Procs : Quiet(ps[p]),
         (\E m : EndTurn(m, ps)) \/ BeginQuit(ps)
  PROVE  \A p \in Procs : Quiet(proc'[p])
<1>1. \A p \in Procs : Quiet(Dropped(ps[p]))
  BY TurnedHasSpawn, EndedQuiet DEF Turned, Up
<1> QED
  BY <1>1 DEF EndTurn, BeginQuit, Leave

LEMMA StepDetachedQuiet ==
  ASSUME IInv, DetachedQuiet, [Next]_vars
  PROVE  DetachedQuiet'
<1> SUFFICES ASSUME ~attached', NEW q \in Procs
             PROVE  Quiet(proc'[q])
  BY DEF DetachedQuiet
<1>1. /\ TypeOK
      /\ \A p \in Procs : proc[p] \in WellFormed
      /\ proc \in [Procs -> WellFormed]
  BY TypeOKWellFormed DEF IInv
<1>2. CASE Attach \/ ClientInput \/ Detach
  <2>1. CASE Attach \/ ClientInput
    <3>1. CASE Attach
      BY <3>1, Zenon DEF Attach
    <3>2. CASE ClientInput
      <4>1. \E modes : InputIn(modes)
        BY <3>2 DEF ClientInput, OtherInput, SelectTab, ClickTab, ScrollView, FocusTab, Unfocus,
                    StartProcess, StopProcess, RestartProcess, EnterSearch, SearchAccept,
                    SearchCancel, Quit, CancelQuit, QuitNow, ForceQuit, Input
      <4>2. attached' = attached
        BY <4>1 DEF InputIn
      <4>3. attached
        BY <4>1, Zenon DEF InputIn
      <4> QED
        BY <4>2, <4>3, Zenon
    <3> QED
      BY <2>1, <3>1, <3>2
  <2>2. CASE Detach
    <3> DEFINE ps == [p \in Procs |-> SyncPaused(ScrollToBottom(proc[p]))]
    <3>1. \A p \in Procs : ScrollToBottom(proc[p]) \in WellFormed /\ ~ScrollToBottom(proc[p]).scrolledBack
      BY <1>1, ViewType DEF ScrollToBottom, WellFormed, ProcessRecord
    <3>2. \A p \in Procs : Quiet(ps[p])
      BY <3>1, SendPauseQuiet
    <3>3. Turned(ps) /\ loop = "Running" /\ \E m : EndTurn(m, ps)
      BY <1>1, <2>2, ResetTurned DEF Detach, ResetView
    <3> HIDE DEF ps
    <3> QED
      BY <3>2, <3>3, EndTurnQuiet
  <2> QED
    BY <1>2, <2>1, <2>2
<1>3. CASE QuitRequest
  <2>1. loop = "Running" /\ ~attached /\ BeginQuit(StopAll)
    BY <1>3 DEF QuitRequest
  <2>2. \A p \in Procs : Quiet(Stop(proc[p]))
    BY <1>1, <2>1, RunningHasSpawn, EndedQuiet DEF DetachedQuiet, Up
  <2>3. \A p \in Procs : Quiet(StopAll[p])
    BY <2>2 DEF StopAll
  <2> QED
    BY <2>1, <2>3, StopAllTurned, EndTurnQuiet
<1>4. CASE HandleAppEvent
  <2> DEFINE e == Head(events)
  <2>1. /\ loop = "Running" /\ ~attached
        /\ e \in Event /\ e.id \in Procs
        /\ e.type = "ProcessExited" => e.status \in ProcessStatus
    BY <1>1, <1>4 DEF HandleAppEvent, TypeOK, Event
  <2>2. Quiet(proc[e.id])
    BY <2>1 DEF DetachedQuiet
  <2>3. TakeOutput(e) \/ TakeExit(e)
    BY <1>4 DEF HandleAppEvent
  <2> HIDE DEF e
  <2>4. \E t : Moves(proc[e.id], t) /\ Quiet(t) /\ \E m : EndTurn(m, [proc EXCEPT ![e.id] = t])
    <3>1. CASE TakeOutput(e)
      <4>1. PICK alt \in BOOLEAN, reset \in BOOLEAN :
             EndTurn(mode, [proc EXCEPT ![e.id] = HandleOutput(@, alt, reset)])
        BY <3>1 DEF TakeOutput
      <4>2. Moves(proc[e.id], HandleOutput(proc[e.id], alt, reset))
        BY <1>1, <2>1, ViewType DEF Moves
      <4>3. Quiet(HandleOutput(proc[e.id], alt, reset))
        BY <1>1, <2>1, <2>2, EventQuiet DEF ProcessStatus
      <4> QED
        BY <4>1, <4>2, <4>3
    <3>2. CASE TakeExit(e)
      <4> DEFINE t(tooFast, spawns) == HandleExit(e.id, proc[e.id], e.status, tooFast, spawns)
      <4>1. PICK tooFast \in BOOLEAN, spawns \in BOOLEAN :
              EndTurn(mode, [proc EXCEPT ![e.id] = t(tooFast, spawns)])
        BY <3>2 DEF TakeExit
      <4>2. Moves(proc[e.id], t(tooFast, spawns)) /\ Quiet(t(tooFast, spawns))
        BY <1>1, <2>1, <2>2, <3>2, HandleExitType, EventQuiet DEF Moves, TakeExit
      <4> HIDE DEF t
      <4> QED
        BY <4>1, <4>2
    <3> QED
      BY <2>3, <3>1, <3>2
  <2>5. PICK t : Moves(proc[e.id], t) /\ Quiet(t) /\ \E m : EndTurn(m, [proc EXCEPT ![e.id] = t])
    BY <2>4
  <2>6. Turned([proc EXCEPT ![e.id] = t])
    BY <1>1, <2>1, <2>5, OneTurned
  <2>7. \A p \in Procs : Quiet([proc EXCEPT ![e.id] = t][p])
    BY <1>1, <2>1, <2>5 DEF DetachedQuiet
  <2> QED
    BY <2>1, <2>5, <2>6, <2>7, EndTurnQuiet
<1>5. ASSUME NEW p \in Procs, NEW k \in Spawns, Beside(Task(p, k))
      PROVE  Quiet(proc'[q])
  <2> DEFINE c == proc[p].child[k]
  <2>1. ~attached /\ c \in Child
    BY <1>1, <1>5 DEF Beside, WellFormed, ProcessRecord
  <2>2. \E d \in Child : (Watching(d) => Watching(c)) /\ proc' = [proc EXCEPT ![p] = WithChild(@, k, d)]
    <3>1. ASSUME NEW from, NEW to, WatcherStep(p, k, from, to), from \notin {"Absent", "Done"},
                 to \in {"CheckPause", "Read", "SendOutput", "Wait", "SendExit", "Done"}
          PROVE  /\ [c EXCEPT !.watcher = to] \in Child /\ Watching(c)
                 /\ proc' = [proc EXCEPT ![p] = WithChild(@, k, [c EXCEPT !.watcher = to])]
      BY <2>1, <3>1 DEF Child, WatcherStep, WithChild, Watching
    <3>2. CASE WatcherResume(p, k) \/ WatcherRead(p, k) \/ WatcherSendOutput(p, k)
               \/ WatcherEof(p, k) \/ WatcherWait(p, k) \/ WatcherSendExit(p, k)
      <4>1. \E from, to :
              /\ WatcherStep(p, k, from, to) /\ from \notin {"Absent", "Done"}
              /\ to \in {"CheckPause", "Read", "SendOutput", "Wait", "SendExit", "Done"}
        BY <3>2 DEF WatcherResume, WatcherRead, WatcherSendOutput, WatcherEof, WatcherWait,
                    WatcherSendExit
      <4> QED
        BY <3>1, <4>1
    <3>3. CASE KillTimer(p, k)
      <4> DEFINE d == [c EXCEPT !.signal = "KILL"]
      <4>1. d \in Child /\ d.watcher = c.watcher /\ proc' = [proc EXCEPT ![p] = WithChild(@, k, d)]
        BY <2>1, <3>3 DEF Child, KillTimer, WithChild
      <4> QED
        BY <4>1 DEF Watching
    <3>4. CASE ChildDies(p, k)
      <4> DEFINE d == [c EXCEPT !.os = "Dead", !.signal = "None"]
      <4>1. d \in Child /\ d.watcher = c.watcher /\ proc' = [proc EXCEPT ![p] = WithChild(@, k, d)]
        BY <2>1, <3>4 DEF Child, ChildDies, WithChild
      <4> QED
        BY <4>1 DEF Watching
    <3> QED
      BY <1>5, <3>2, <3>3, <3>4 DEF Beside, Task
  <2>3. PICK d \in Child : (Watching(d) => Watching(c)) /\ proc' = [proc EXCEPT ![p] = WithChild(@, k, d)]
    BY <2>2
  <2>4. Quiet(WithChild(proc[p], k, d))
    BY <1>1, <2>1, <2>3, WithChildQuiet DEF DetachedQuiet
  <2> QED
    BY <1>1, <2>1, <2>3, <2>4 DEF DetachedQuiet
<1>6. CASE UNCHANGED vars
  BY <1>6 DEF vars, DetachedQuiet
<1> QED
  BY <1>2, <1>3, <1>4, <1>5, <1>6 DEF Next

LEMMA InitDetachedQuiet ==
  ASSUME Init
  PROVE  DetachedQuiet
<1>1. NewProcess \in WellFormed /\ Quiet(NewProcess)
  <2>1. [k \in Spawns |-> [os |-> "Unborn", signal |-> "None", watcher |-> "Absent"]]
          \in [Spawns -> Child]
    BY DEF Child
  <2> QED
    BY <2>1 DEF NewProcess, WellFormed, ProcessRecord, State, Quiet, Watched
<1>2. PICK spawned \in SUBSET AutoStart :
        proc = [p \in Procs |-> IF p \in AutoStart THEN Start(NewProcess, p \in spawned)
                                                  ELSE NewProcess]
  BY DEF Init
<1>3. \A p \in Procs : (p \in spawned) \in BOOLEAN
  OBVIOUS
<1>4. \A b \in BOOLEAN : Quiet(Start(NewProcess, b))
  BY <1>1, StartQuiet
<1> QED
  BY <1>1, <1>2, <1>3, <1>4 DEF DetachedQuiet

\* No process is held up because of a client that is gone: whatever was
\* scrolled back by it is read again (reset_view).
THEOREM DetachedIsRead == Spec => []DetachedIsNeverPaused
<1>1. IInv /\ DetachedQuiet => DetachedIsNeverPaused
  BY DEF DetachedQuiet, Quiet, DetachedIsNeverPaused
<1>2. Init => IInv /\ DetachedQuiet
  BY InitIInv, InitDetachedQuiet
<1>3. IInv /\ DetachedQuiet /\ [Next]_vars => (IInv /\ DetachedQuiet)'
  BY StepIInv, StepDetachedQuiet
<1> QED
  BY <1>1, <1>2, <1>3, PTL DEF Spec

-----------------------------------------------------------------------------
(* Quitting *)

\* Not to be started again.
Still(s) == s.state # "Running" /\ ~s.pendingRestart

LEMMA StillKept ==
  ASSUME NEW p \in Procs, NEW s \in WellFormed, Still(s), NEW back \in BOOLEAN,
         NEW status, NEW tooFast, NEW spawns
  PROVE  /\ Still(SyncPaused(s))
         /\ Still(ScrollToBottom(s)) /\ ScrollToBottom(s) \in WellFormed
         /\ Still(Scroll(s, back)) /\ Scroll(s, back) \in WellFormed
         /\ \A reset \in BOOLEAN : Still(HandleOutput(s, back, reset))
         /\ Still(HandleExit(p, s, status, tooFast, spawns))
         /\ Stop(s) = s /\ Dropped(s) = s
<1>1. /\ Still(ScrollToBottom(s)) /\ ScrollToBottom(s) \in WellFormed
      /\ Still(Scroll(s, back)) /\ Scroll(s, back) \in WellFormed
      /\ \A reset \in BOOLEAN : Still(HandleOutput(s, back, reset))
  BY DEF Still, ScrollToBottom, Scroll, HandleOutput, WellFormed, ProcessRecord
<1>2. Still(SyncPaused(s))
  BY DEF Still, SyncPaused, SendPause, WellFormed, ProcessRecord
<1>3. Stop(s) = s /\ Dropped(s) = s
  BY DEF Still, Stop, Dropped
<1>4. Still(HandleExit(p, s, status, tooFast, spawns))
  <2>1. s.state \in {"Stopped", "Failed", "Stopping"} /\ ~s.pendingRestart
    BY DEF Still, WellFormed, ProcessRecord, State
  <2>2. CASE s.state \in {"Stopped", "Failed"}
    BY <2>2 DEF HandleExit
  <2>3. CASE s.state = "Stopping"
    <3>1. ~ShouldRestart(p, s, status, tooFast)
      BY <2>1, <2>3 DEF ShouldRestart
    <3>2. HandleExit(p, s, status, tooFast, spawns)
            = [s EXCEPT !.state = ExitState(s, status), !.pendingRestart = FALSE]
      BY <2>3, <3>1 DEF HandleExit
    <3>3. ExitState(s, status) = "Stopped"
      BY <2>3 DEF ExitState
    <3> QED
      BY <3>2, <3>3 DEF Still, WellFormed, ProcessRecord
  <2> QED
    BY <2>1, <2>2, <2>3
<1> QED
  BY <1>1, <1>2, <1>3, <1>4

\* A turn that leaves every process still, also by ending the server.
LEMMA StillTurn ==
  ASSUME NEW ps, NEW m, \A p \in Procs : ps[p] \in WellFormed /\ Still(ps[p]),
         EndTurn(m, ps) \/ BeginQuit(ps) \/ Leave("ForceExited", ps)
  PROVE  \A p \in Procs : Still(proc'[p])
<1>1. proc' = ps \/ proc' = [p \in Procs |-> Dropped(ps[p])]
  BY DEF EndTurn, BeginQuit, Leave
<1>2. \A p \in Procs : Dropped(ps[p]) = ps[p]
  BY DEF Still, Dropped
<1> QED
  BY <1>1, <1>2

LEMMA StillSynced ==
  ASSUME TypeOK, \A p \in Procs : Still(proc[p]),
         NEW tab \in Procs, NEW s \in WellFormed, Still(s)
  PROVE  \A p \in Procs :
           /\ Synced(tab, proc)[p] \in WellFormed /\ Still(Synced(tab, proc)[p])
           /\ Synced(tab, [proc EXCEPT ![tab] = s])[p] \in WellFormed
           /\ Still(Synced(tab, [proc EXCEPT ![tab] = s])[p])
<1>1. \A p \in Procs : proc[p] \in WellFormed
  BY TypeOKWellFormed
<1>2. /\ SyncPaused(s) \in WellFormed /\ Still(SyncPaused(s))
      /\ SyncPaused(proc[tab]) \in WellFormed /\ Still(SyncPaused(proc[tab]))
  BY <1>1, SyncPausedType, StillKept
<1>3. /\ Synced(tab, proc) = [proc EXCEPT ![tab] = SyncPaused(proc[tab])]
      /\ Synced(tab, [proc EXCEPT ![tab] = s]) = [proc EXCEPT ![tab] = SyncPaused(s)]
  BY DEF Synced, TypeOK
<1> QED
  BY <1>1, <1>2, <1>3 DEF TypeOK

LEMMA QuittingStays ==
  ASSUME IInv, [Next]_vars, mode = "Quitting"
  PROVE  /\ mode' = "Quitting"
         /\ (\A p \in Procs : Still(proc[p])) => \A p \in Procs : Still(proc'[p])
<1> DEFINE AllStill == \A p \in Procs : Still(proc[p])
           AllStillNext == \A p \in Procs : Still(proc'[p])
<1>1. TypeOK /\ \A p \in Procs : proc[p] \in WellFormed
  BY TypeOKWellFormed DEF IInv
<1>2. selected \in Procs
  BY <1>1 DEF TypeOK
<1>3. CASE Attach \/ Detach
  <2>1. ResetView
    BY <1>3 DEF Attach, Detach
  <2>2. EndTurn("Quitting", [p \in Procs |-> SyncPaused(ScrollToBottom(proc[p]))])
    BY <2>1 DEF ResetView
  <2>3. mode' = "Quitting"
    BY <2>2 DEF EndTurn
  <2>4. AllStill => \A p \in Procs : /\ SyncPaused(ScrollToBottom(proc[p])) \in WellFormed
                                     /\ Still(SyncPaused(ScrollToBottom(proc[p])))
    BY <1>1, StillKept, SyncPausedType
  <2> QED
    BY <2>2, <2>3, <2>4, StillTurn
<1>4. CASE QuitRequest
  <2>1. BeginQuit(StopAll)
    BY <1>4 DEF QuitRequest
  <2>2. mode' = "Quitting"
    BY <2>1 DEF BeginQuit, EndTurn, Leave
  <2>3. AllStill => \A p \in Procs : StopAll[p] \in WellFormed /\ Still(StopAll[p])
    BY <1>1, StillKept DEF StopAll
  <2> QED
    BY <2>1, <2>2, <2>3, StillTurn
<1>5. CASE ClientInput
  <2>1. \/ OtherInput
        \/ \E p \in Procs : ClickTab(p)
        \/ \E back \in BOOLEAN : ScrollView(back)
        \/ ForceQuit
    BY <1>5 DEF ClientInput, SelectTab, SearchAccept, FocusTab, Unfocus, StartProcess,
                RestartProcess, StopProcess, EnterSearch, SearchCancel, Quit, CancelQuit, QuitNow,
                Input, InputIn
  <2>2. ASSUME NEW p \in Procs, ClickTab(p)
        PROVE  mode' = "Quitting" /\ (AllStill => AllStillNext)
    <3>1. EndTurn("Quitting", Synced(p, proc))
      BY <2>2 DEF ClickTab
    <3> QED
      BY <1>1, <3>1, StillSynced, StillTurn DEF EndTurn
  <2>3. ASSUME NEW s \in WellFormed, AllStill => Still(s), Input(Mode, mode, s)
        PROVE  mode' = "Quitting" /\ (AllStill => AllStillNext)
    <3>1. EndTurn("Quitting", Synced(selected, [proc EXCEPT ![selected] = s]))
      BY <2>3 DEF Input
    <3>2. mode' = "Quitting"
      BY <3>1 DEF EndTurn
    <3> QED
      BY <1>1, <1>2, <2>3, <3>1, <3>2, StillSynced, StillTurn
  <2>4. CASE OtherInput
    BY <1>1, <1>2, <2>3, <2>4 DEF OtherInput, Shown
  <2>5. ASSUME NEW back \in BOOLEAN, ScrollView(back)
        PROVE  mode' = "Quitting" /\ (AllStill => AllStillNext)
    <3>1. Scroll(proc[selected], back) \in WellFormed
      BY <1>1, <1>2 DEF Scroll, WellFormed, ProcessRecord
    <3>2. AllStill => Still(Scroll(proc[selected], back))
      BY <1>1, <1>2, StillKept
    <3> QED
      BY <2>3, <2>5, <3>1, <3>2 DEF ScrollView, Shown
  <2>6. CASE ForceQuit
    BY <1>1, <2>6, StillTurn DEF ForceQuit
  <2> QED
    BY <2>1, <2>2, <2>4, <2>5, <2>6
<1>6. CASE HandleAppEvent
  <2> DEFINE e == Head(events)
  <2>1. e \in Event /\ e.id \in Procs /\ (TakeOutput(e) \/ TakeExit(e))
    BY <1>1, <1>6 DEF HandleAppEvent, TypeOK, Event
  <2> HIDE DEF e
  <2>2. \E t : EndTurn(mode, [proc EXCEPT ![e.id] = t]) /\ (AllStill => t \in WellFormed /\ Still(t))
    <3>1. CASE TakeOutput(e)
      <4>1. PICK alt \in BOOLEAN, reset \in BOOLEAN :
             EndTurn(mode, [proc EXCEPT ![e.id] = HandleOutput(@, alt, reset)])
        BY <3>1 DEF TakeOutput
      <4>2. HandleOutput(proc[e.id], alt, reset) \in WellFormed
        BY <1>1, <2>1, ViewType
      <4> QED
        BY <1>1, <2>1, <4>1, <4>2, StillKept
    <3>2. CASE TakeExit(e)
      <4> DEFINE t(tooFast, spawns) == HandleExit(e.id, proc[e.id], e.status, tooFast, spawns)
      <4>1. PICK tooFast \in BOOLEAN, spawns \in BOOLEAN :
              EndTurn(mode, [proc EXCEPT ![e.id] = t(tooFast, spawns)])
        BY <3>2 DEF TakeExit
      <4>2. AllStill => Still(t(tooFast, spawns))
        BY <1>1, <2>1, StillKept
      <4>3. t(tooFast, spawns) \in WellFormed
        BY <1>1, <2>1, <3>2, HandleExitType DEF TakeExit, Event
      <4> HIDE DEF t
      <4> QED
        BY <4>1, <4>2, <4>3
    <3> QED
      BY <2>1, <3>1, <3>2
  <2>3. PICK t : EndTurn(mode, [proc EXCEPT ![e.id] = t]) /\ (AllStill => t \in WellFormed /\ Still(t))
    BY <2>2
  <2>4. AllStill => \A p \in Procs : /\ [proc EXCEPT ![e.id] = t][p] \in WellFormed
                                     /\ Still([proc EXCEPT ![e.id] = t][p])
    BY <1>1, <2>1, <2>3 DEF TypeOK
  <2> QED
    BY <2>3, <2>4, StillTurn DEF EndTurn
<1>7. ASSUME NEW p \in Procs, NEW k \in Spawns, Beside(Task(p, k))
      PROVE  mode' = "Quitting" /\ (AllStill => AllStillNext)
  <2>1. mode' = mode /\ Task(p, k)
    BY <1>7 DEF Beside
  <2>2. \E d : proc' = [proc EXCEPT ![p] = WithChild(proc[p], k, d)]
    <3>1. ASSUME NEW from, NEW to, WatcherStep(p, k, from, to)
          PROVE  \E d : proc' = [proc EXCEPT ![p] = WithChild(proc[p], k, d)]
      BY <3>1 DEF WatcherStep, WithChild
    <3>2. CASE KillTimer(p, k)
      BY <3>2 DEF KillTimer, WithChild
    <3>3. CASE ChildDies(p, k)
      BY <3>3 DEF ChildDies, WithChild
    <3> QED
      BY <2>1, <3>1, <3>2, <3>3 DEF Task, WatcherResume, WatcherRead, WatcherSendOutput, WatcherEof,
                                    WatcherWait, WatcherSendExit
  <2>3. \A q \in Procs : /\ proc'[q].state = proc[q].state
                         /\ proc'[q].pendingRestart = proc[q].pendingRestart
    BY <1>1, <2>2 DEF WithChild, WellFormed, ProcessRecord, TypeOK
  <2> QED
    BY <2>1, <2>3 DEF Still
<1>8. CASE UNCHANGED vars
  BY <1>8 DEF vars, processVars
<1> QED
  BY <1>3, <1>4, <1>5, <1>6, <1>7, <1>8 DEF Next

\* No client, key or event makes the App leave Quitting, and once nothing runs
\* and no restart is owed, none of them makes anything start.
THEOREM QuitIsFinal == Spec => QuittingIsFinal
<1>1. Init => IInv
  BY InitIInv
<1>2. IInv /\ [Next]_vars => IInv'
  BY StepIInv
<1>3. IInv /\ [Next]_vars =>
        [/\ mode = "Quitting" => mode' = "Quitting"
         /\ WindingDown => WindingDown']_vars
  BY QuittingStays DEF WindingDown, Still
<1> QED
  BY <1>1, <1>2, <1>3, PTL DEF Spec, QuittingIsFinal

=============================================================================
