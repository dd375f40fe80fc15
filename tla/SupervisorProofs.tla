-------------------------- MODULE SupervisorProofs --------------------------
(***************************************************************************)
(* Proofs that App keeps the promise of Supervisor, and that its tabs tell *)
(* the truth, for any processes, spawns and channel, and a user who does   *)
(* not press `s` on a tab that is stopping.                                *)
(***************************************************************************)
EXTENDS AppProofs

USE ProcessAssumption, AppAssumption

-----------------------------------------------------------------------------
(* What a turn of the App does to one process *)

SameTasks(s, t) ==
  /\ t.spawn = s.spawn
  /\ \A k \in Spawns : /\ t.child[k].os = s.child[k].os
                       /\ t.child[k].watcher = s.child[k].watcher

Same(s, t) == t.state = s.state /\ t.spawn = s.spawn /\ t.child = s.child

Stops(s, t) ==
  /\ SameTasks(s, t)
  /\ s.state = "Running" /\ t.state = "Stopping"
  /\ t.child[s.spawn].os = "Alive" => t.child[s.spawn].signal # "None"

Fails(s, t) == SameTasks(s, t) /\ s.state \notin Up /\ t.state = "Failed"

Launches(s, t) ==
  /\ s.state \notin Up /\ t.state = "Running"
  /\ t.spawn = s.spawn + 1 /\ t.spawn \in Spawns
  /\ t.child[t.spawn] = Spawned
  /\ \A k \in Spawns \ {t.spawn} : t.child[k] = s.child[k]

\* Whatever is pressed or asked for.
Turns(s, t) == Same(s, t) \/ Stops(s, t) \/ Fails(s, t) \/ Launches(s, t)

Ends(s, t) ==
  /\ SameTasks(s, t)
  /\ s.state \in Up /\ t.state \in {"Stopped", "Failed"}
  /\ s.state = "Running" \/ t.state = "Stopped"

\* The report of an exit.
Exits(s, t) ==
  \/ Ends(s, t)
  \/ \E m \in WellFormed : Ends(s, m) /\ (Fails(m, t) \/ Launches(m, t))

LEMMA StartTurns ==
  ASSUME NEW s \in WellFormed, s.state # "Stopping", NEW spawns \in BOOLEAN
  PROVE  /\ Turns(s, Start(s, spawns))
         /\ s.state # "Running" =>
              Fails(s, Start(s, spawns)) \/ Launches(s, Start(s, spawns))
<1>1. CASE s.state = "Running"
  BY <1>1 DEF Start, Turns, Same
<1>2. CASE s.state # "Running" /\ spawns /\ s.spawn < MaxSpawns
  <2> DEFINE w == WithChild(s, s.spawn + 1, Spawned)
             t == [w EXCEPT !.state = "Running", !.pendingRestart = FALSE, !.spawn = s.spawn + 1]
  <2>1. s.spawn + 1 \in Spawns /\ s.spawn + 1 \in 0..MaxSpawns
    BY <1>2 DEF WellFormed, ProcessRecord, Spawns
  <2>2. Spawned \in Child
    BY DEF Spawned, Child
  <2>3. /\ w \in WellFormed
        /\ w.child = [s.child EXCEPT ![s.spawn + 1] = Spawned]
    BY <2>1, <2>2, WithChildType
  <2> HIDE DEF w
  <2>4. /\ t \in WellFormed
        /\ t.spawn = s.spawn + 1 /\ t.state = "Running"
        /\ t.child = [s.child EXCEPT ![s.spawn + 1] = Spawned]
    BY <2>1, <2>3 DEF WellFormed, ProcessRecord, State
  <2>5. Start(s, spawns) = SyncPaused(t)
    BY <1>2 DEF Start, w
  <2> HIDE DEF t
  <2>6. /\ Start(s, spawns).spawn = s.spawn + 1
        /\ Start(s, spawns).state = "Running"
        /\ Start(s, spawns).child = [s.child EXCEPT ![s.spawn + 1] = Spawned]
    BY <2>4, <2>5, SyncPausedType
  <2>7. s.child \in [Spawns -> Child] /\ s.state \notin Up
    BY <1>2 DEF WellFormed, ProcessRecord, Up, State
  <2> QED
    BY <2>1, <2>6, <2>7 DEF Launches, Turns
<1>3. CASE s.state # "Running" /\ ~(spawns /\ s.spawn < MaxSpawns)
  <2>1. Start(s, spawns) = [s EXCEPT !.state = "Failed", !.pendingRestart = FALSE]
    BY <1>3 DEF Start
  <2> QED
    BY <1>3, <2>1 DEF WellFormed, ProcessRecord, State, Fails, SameTasks, Turns, Up
<1> QED
  BY <1>1, <1>2, <1>3

LEMMA TerminatedTold ==
  ASSUME NEW s \in WellFormed, s.spawn \in Spawns
  PROVE  /\ SameTasks(s, Terminated(s))
         /\ Terminated(s).child[s.spawn].os = "Alive" =>
              Terminated(s).child[s.spawn].signal = "TERM"
         /\ \A k \in Spawns \ {s.spawn} : Terminated(s).child[k] = s.child[k]
<1> DEFINE c == Signalled(s.child[s.spawn], "TERM")
<1>1. s.child \in [Spawns -> Child]
  BY DEF WellFormed, ProcessRecord
<1>2. c \in Child /\ c.watcher = s.child[s.spawn].watcher
  BY <1>1, SignalledType
<1>3. c.os = s.child[s.spawn].os /\ (c.os = "Alive" => c.signal = "TERM")
  BY <1>1 DEF Signalled, Child
<1>4. Terminated(s) = WithChild(s, s.spawn, c)
  BY DEF Terminated
<1> HIDE DEF c
<1>5. Terminated(s).child = [s.child EXCEPT ![s.spawn] = c] /\ Terminated(s).spawn = s.spawn
  BY <1>2, <1>4, WithChildType
<1> QED
  BY <1>1, <1>2, <1>3, <1>5 DEF SameTasks

LEMMA StopTurns ==
  ASSUME NEW s \in WellFormed, s.state = "Running" => s.spawn \in Spawns
  PROVE  /\ s.state = "Running" => Stops(s, Stop(s))
         /\ Turns(s, Stop(s))
<1>1. CASE s.state # "Running"
  BY <1>1 DEF Stop, Turns, Same
<1>2. CASE s.state = "Running"
  <2> DEFINE b == SendPause(s, FALSE)
             a == Terminated(b)
  <2>1. b \in WellFormed /\ b.spawn = s.spawn /\ b.child = s.child
    BY SendPauseType
  <2> HIDE DEF b
  <2>2. /\ a \in WellFormed
        /\ SameTasks(b, a)
        /\ a.child[s.spawn].os = "Alive" => a.child[s.spawn].signal = "TERM"
    BY <1>2, <2>1, TerminatedType, TerminatedTold
  <2>3. Stop(s) = [a EXCEPT !.state = "Stopping"]
    BY <1>2 DEF Stop, b
  <2> HIDE DEF a
  <2>4. Stop(s).state = "Stopping" /\ Stop(s).spawn = a.spawn /\ Stop(s).child = a.child
    BY <2>2, <2>3 DEF WellFormed, ProcessRecord
  <2> QED
    BY <1>2, <2>1, <2>2, <2>4 DEF Stops, SameTasks, Turns
<1> QED
  BY <1>1, <1>2

LEMMA RestartTurns ==
  ASSUME NEW s \in WellFormed, NEW spawns \in BOOLEAN,
         s.state = "Running" => s.spawn \in Spawns
  PROVE  Turns(s, Restart(s, spawns))
<1>1. CASE s.state \in {"Stopped", "Failed"}
  BY <1>1, StartTurns DEF Restart
<1>2. CASE s.state \notin {"Stopped", "Failed"}
  <2>1. /\ Stop(s) \in WellFormed
        /\ s.state = "Running" => Stops(s, Stop(s))
        /\ s.state # "Running" => Stop(s) = s
    BY StopType, StopTurns
  <2>2. Restart(s, spawns) = [Stop(s) EXCEPT !.pendingRestart = TRUE]
    BY <1>2 DEF Restart
  <2>3. /\ Restart(s, spawns).state = Stop(s).state
        /\ Restart(s, spawns).spawn = Stop(s).spawn
        /\ Restart(s, spawns).child = Stop(s).child
    BY <2>1, <2>2 DEF WellFormed, ProcessRecord
  <2> QED
    BY <2>1, <2>3 DEF Turns, Stops, Same, SameTasks
<1> QED
  BY <1>1, <1>2

LEMMA HandleExitExits ==
  ASSUME NEW p \in Procs, NEW s \in WellFormed, s.state \in Up, NEW status \in ProcessStatus,
         NEW tooFast \in BOOLEAN, NEW spawns \in BOOLEAN
  PROVE  Exits(s, HandleExit(p, s, status, tooFast, spawns))
<1> DEFINE ended == [s EXCEPT !.state = ExitState(s, status), !.pendingRestart = FALSE]
<1>1. /\ ended \in WellFormed
      /\ ended.state \in {"Stopped", "Failed"}
      /\ Ends(s, ended)
  BY DEF ExitState, WellFormed, ProcessRecord, State, Ends, SameTasks, Up
<1>2. \/ HandleExit(p, s, status, tooFast, spawns) = Start(ended, spawns)
      \/ HandleExit(p, s, status, tooFast, spawns) = ended
  BY DEF HandleExit, Up
<1> HIDE DEF ended
<1> QED
  BY <1>1, <1>2, StartTurns DEF Exits

LEMMA ViewTurns ==
  ASSUME NEW s \in WellFormed, NEW back \in BOOLEAN
  PROVE  /\ \A reset \in BOOLEAN : Same(s, HandleOutput(s, back, reset))
         /\ Same(s, Scroll(s, back))
         /\ Same(s, ScrollToBottom(s))
BY DEF HandleOutput, Scroll, ScrollToBottom, Same, WellFormed, ProcessRecord

LEMMA SyncTurns ==
  ASSUME NEW s, NEW t \in WellFormed, Turns(s, t)
  PROVE  Turns(s, SyncPaused(t))
<1>1. Same(t, SyncPaused(t))
  BY SyncPausedType DEF Same
<1> QED
  BY <1>1 DEF Turns, Same, Stops, Fails, Launches, SameTasks

-----------------------------------------------------------------------------
(* The invariant *)

Finished(c) == c.os # "Alive" /\ c.watcher \in {"Absent", "Done"}

\* Every spawn but the one the tab stands for is over, a watcher reports no
\* child that lives, and a child is stopped by being told.
Sound(s) ==
  /\ s.state \in Up => s.spawn \in Spawns
  /\ \A k \in Spawns :
       /\ s.state \notin Up \/ k # s.spawn => Finished(s.child[k])
       /\ s.child[k].watcher \in {"SendExit", "Done"} => s.child[k].os # "Alive"
  /\ s.state = "Stopping" /\ s.child[s.spawn].os = "Alive" => s.child[s.spawn].signal # "None"

IsReport(e) == e.type = "ProcessExited"

\* A report is about the spawn that the tab stands for, whose watcher has sent it.
Due(e, s) ==
  /\ e.spawn = s.spawn
  /\ s.state \in Up
  /\ s.child[s.spawn].watcher = "Done"

Reports ==
  /\ \A i \in DOMAIN events :
       IsReport(events[i]) => Due(events[i], proc[events[i].id])
  /\ \A i, j \in DOMAIN events :
       IsReport(events[i]) /\ IsReport(events[j]) /\ events[i].id = events[j].id => i = j

Working == Reports /\ \A p \in Procs : Sound(proc[p])

Left == NothingOutlivesQuit /\ NoChildLeftUntold

SInv == IInv /\ Left /\ (loop = "Running" => Working)

LEMMA TurnsSound ==
  ASSUME NEW s \in WellFormed, NEW t \in WellFormed, Sound(s), Turns(s, t)
  PROVE  Sound(t)
<1>1. CASE Same(s, t)
  BY <1>1 DEF Same, Sound
<1>2. CASE Stops(s, t)
  BY <1>2 DEF Stops, SameTasks, Sound, Finished, Up
<1>3. CASE Fails(s, t)
  BY <1>3 DEF Fails, SameTasks, Sound, Finished, Up
<1>4. CASE Launches(s, t)
  BY <1>4 DEF Launches, Sound, Finished, Up, Spawned
<1> QED
  BY <1>1, <1>2, <1>3, <1>4 DEF Turns

LEMMA ExitsSound ==
  ASSUME NEW s \in WellFormed, NEW t \in WellFormed, Sound(s), Finished(s.child[s.spawn]),
         Exits(s, t)
  PROVE  Sound(t)
<1>1. ASSUME NEW m, Ends(s, m)
      PROVE  Sound(m)
  BY <1>1 DEF Ends, SameTasks, Sound, Finished, Up
<1>2. ASSUME NEW m \in WellFormed, Ends(s, m), Fails(m, t) \/ Launches(m, t)
      PROVE  Sound(t)
  BY <1>1, <1>2, TurnsSound DEF Turns
<1> QED
  BY <1>1, <1>2 DEF Exits

\* A report stays due until it is taken.
LEMMA TurnsDue ==
  ASSUME NEW s, NEW t, Sound(s), NEW e, Due(e, s), Turns(s, t)
  PROVE  Due(e, t)
BY DEF Due, Sound, Turns, Same, Stops, Fails, Launches, SameTasks, Up

\* What a turn makes of the processes, unless it takes the report of an exit.
TurnedTo(ps) ==
  /\ ps \in [Procs -> WellFormed]
  /\ \A p \in Procs : Turns(proc[p], ps[p])

\* A turn goes on, or leaves because all are down.
Outcome(ps) ==
  /\ proc' = ps
  /\ loop' \in {"Running", "Exited"}
  /\ loop' = "Exited" => AllStopped(ps)

ForceLeft ==
  /\ loop' = "ForceExited"
  /\ proc' = [p \in Procs |-> Dropped(proc[p])]

LEMMA LeaveOutcome ==
  ASSUME NEW ps \in [Procs -> WellFormed], AllStopped(ps), Leave("Exited", ps)
  PROVE  Outcome(ps)
<1>1. \A p \in Procs : Dropped(ps[p]) = ps[p]
  BY DEF AllStopped, Dropped
<1> QED
  BY <1>1 DEF Leave, Outcome

LEMMA EndTurnOutcome ==
  ASSUME NEW ps \in [Procs -> WellFormed], loop = "Running", NEW m, EndTurn(m, ps)
  PROVE  Outcome(ps)
BY LeaveOutcome DEF EndTurn, Outcome

LEMMA SyncedTo ==
  ASSUME NEW ps, TurnedTo(ps), NEW tab \in Procs
  PROVE  /\ TurnedTo(Synced(tab, ps))
         /\ AllStopped(ps) => AllStopped(Synced(tab, ps))
<1>1. ps[tab] \in WellFormed
  BY DEF TurnedTo
<1>2. SyncPaused(ps[tab]) \in WellFormed /\ SyncPaused(ps[tab]).state = ps[tab].state
  BY <1>1, SyncPausedType
<1>3. Turns(proc[tab], SyncPaused(ps[tab]))
  BY <1>1, SyncTurns DEF TurnedTo
<1> QED
  BY <1>2, <1>3 DEF TurnedTo, Synced, AllStopped

LEMMA StopAllTo ==
  ASSUME IInv, loop = "Running"
  PROVE  TurnedTo(StopAll) /\ (AllStopped(proc) => AllStopped(StopAll))
<1>1. \A p \in Procs : /\ proc[p] \in WellFormed
                       /\ proc[p].state = "Running" => proc[p].spawn \in Spawns
  BY TypeOKWellFormed, RunningHasSpawn DEF IInv, Up
<1>2. \A p \in Procs : /\ Stop(proc[p]) \in WellFormed
                       /\ Turns(proc[p], Stop(proc[p]))
                       /\ proc[p].state # "Running" => Stop(proc[p]) = proc[p]
  BY <1>1, StopType, StopTurns
<1> QED
  BY <1>2 DEF TurnedTo, StopAll, AllStopped

LEMMA BeginQuitOutcome ==
  ASSUME NEW ps, TurnedTo(ps), AllStopped(proc) => AllStopped(ps), loop = "Running", BeginQuit(ps)
  PROVE  Outcome(ps)
BY LeaveOutcome, EndTurnOutcome DEF BeginQuit, TurnedTo

LEMMA OneTurnedTo ==
  ASSUME TypeOK, NEW p \in Procs, NEW t \in WellFormed, Turns(proc[p], t)
  PROVE  TurnedTo([proc EXCEPT ![p] = t])
<1>1. proc \in [Procs -> WellFormed]
  BY TypeOKWellFormed
<1> QED
  BY <1>1 DEF TurnedTo, Turns, Same

-----------------------------------------------------------------------------
(* Every turn is one of these *)

\* A turn that takes no report.
PlainTurn == \E ps : TurnedTo(ps) /\ Outcome(ps)

LEMMA InputTurns ==
  ASSUME IInv, NEW modes, NEW m, NEW s \in WellFormed, Turns(proc[selected], s),
         Input(modes, m, s)
  PROVE  PlainTurn
<1> DEFINE ps == Synced(selected, [proc EXCEPT ![selected] = s])
<1>1. selected \in Procs /\ TypeOK /\ loop = "Running"
  BY DEF IInv, TypeOK, Input, InputIn
<1>2. TurnedTo(ps)
  BY <1>1, OneTurnedTo, SyncedTo
<1>3. EndTurn(m, ps)
  BY DEF Input, InputIn
<1> HIDE DEF ps
<1> QED
  BY <1>1, <1>2, <1>3, EndTurnOutcome DEF PlainTurn, TurnedTo

LEMMA ClientInputTurns ==
  ASSUME IInv, ~StartWhileStopping, ClientInput
  PROVE  PlainTurn \/ ForceLeft
<1>1. /\ TypeOK
      /\ selected \in Procs
      /\ Shown = proc[selected]
      /\ Shown \in WellFormed
      /\ proc \in [Procs -> WellFormed]
  BY TypeOKWellFormed DEF IInv, TypeOK, Shown
<1>2. Turns(Shown, Shown) /\ TurnedTo(proc)
  BY <1>1 DEF Turns, Same, TurnedTo
<1>3. ASSUME NEW modes, InputIn(modes)
      PROVE  /\ loop = "Running"
             /\ Shown.state = "Running" => Shown.spawn \in Spawns
  BY <1>1, <1>3, RunningHasSpawn DEF InputIn, Up
<1>4. CASE OtherInput \/ FocusTab \/ Unfocus \/ EnterSearch \/ Quit \/ CancelQuit
  BY <1>1, <1>2, <1>4, InputTurns DEF OtherInput, FocusTab, Unfocus, EnterSearch, Quit, CancelQuit
<1>5. ASSUME NEW p \in Procs, SelectTab(p) \/ ClickTab(p)
      PROVE  PlainTurn
  <2>1. TurnedTo(Synced(p, proc)) /\ loop = "Running"
    BY <1>2, <1>3, <1>5, SyncedTo DEF SelectTab, ClickTab
  <2>2. \E m : EndTurn(m, Synced(p, proc))
    BY <1>5 DEF SelectTab, ClickTab
  <2> QED
    BY <2>1, <2>2, EndTurnOutcome DEF PlainTurn, TurnedTo
<1>6. ASSUME NEW back \in BOOLEAN, ScrollView(back) \/ SearchAccept(back)
      PROVE  PlainTurn
  <2>1. Turns(Shown, Scroll(Shown, back)) /\ Scroll(Shown, back) \in WellFormed
    BY <1>1, ViewTurns, ViewType DEF Turns
  <2> QED
    BY <1>1, <1>6, <2>1, InputTurns DEF ScrollView, SearchAccept
<1>7. ASSUME NEW spawns \in BOOLEAN, StartProcess(spawns)
      PROVE  PlainTurn
  <2>1. Shown.state # "Stopping"
    BY <1>7 DEF StartProcess
  <2>2. Turns(Shown, Start(Shown, spawns)) /\ Start(Shown, spawns) \in WellFormed
    BY <1>1, <2>1, StartTurns, StartType
  <2> QED
    BY <1>1, <1>7, <2>2, InputTurns DEF StartProcess
<1>8. ASSUME NEW spawns \in BOOLEAN, RestartProcess(spawns)
      PROVE  PlainTurn
  <2>1. Shown.state = "Running" => Shown.spawn \in Spawns
    BY <1>3, <1>8 DEF RestartProcess, Input
  <2>2. Turns(Shown, Restart(Shown, spawns)) /\ Restart(Shown, spawns) \in WellFormed
    BY <1>1, <2>1, RestartTurns, RestartType
  <2> QED
    BY <1>1, <1>8, <2>2, InputTurns DEF RestartProcess
<1>9. CASE StopProcess
  <2>1. Shown.state = "Running" => Shown.spawn \in Spawns
    BY <1>3, <1>9 DEF StopProcess, Input
  <2>2. Turns(Shown, Stop(Shown)) /\ Stop(Shown) \in WellFormed
    BY <1>1, <2>1, StopTurns, StopType
  <2> QED
    BY <1>1, <1>9, <2>2, InputTurns DEF StopProcess
<1>10. CASE SearchCancel
  <2>1. Turns(Shown, ScrollToBottom(Shown)) /\ ScrollToBottom(Shown) \in WellFormed
    BY <1>1, ViewTurns, ViewType DEF Turns
  <2> QED
    BY <1>1, <1>10, <2>1, InputTurns DEF SearchCancel
<1>11. CASE QuitNow
  <2>1. loop = "Running" /\ BeginQuit(Synced(selected, StopAll))
    BY <1>3, <1>11 DEF QuitNow
  <2>2. /\ TurnedTo(Synced(selected, StopAll))
        /\ AllStopped(proc) => AllStopped(Synced(selected, StopAll))
    BY <1>1, <2>1, StopAllTo, SyncedTo
  <2> QED
    BY <2>1, <2>2, BeginQuitOutcome DEF PlainTurn
<1>12. CASE ForceQuit
  BY <1>12 DEF ForceQuit, Leave, ForceLeft
<1> QED
  BY <1>4, <1>5, <1>6, <1>7, <1>8, <1>9, <1>10, <1>11, <1>12 DEF ClientInput

LEMMA ServerTurns ==
  ASSUME IInv, Attach \/ Detach \/ QuitRequest
  PROVE  PlainTurn
<1>1. TypeOK /\ loop = "Running" /\ proc \in [Procs -> WellFormed]
  BY TypeOKWellFormed DEF IInv, Attach, Detach, QuitRequest
<1>2. CASE ResetView
  <2> DEFINE ps == [p \in Procs |-> SyncPaused(ScrollToBottom(proc[p]))]
  <2>1. \A p \in Procs : ScrollToBottom(proc[p]) \in WellFormed /\ Turns(proc[p], ScrollToBottom(proc[p]))
    BY <1>1, ViewType, ViewTurns DEF Turns
  <2>2. \A p \in Procs : /\ SyncPaused(ScrollToBottom(proc[p])) \in WellFormed
                         /\ Turns(proc[p], SyncPaused(ScrollToBottom(proc[p])))
    BY <2>1, SyncPausedType, SyncTurns
  <2>3. TurnedTo(ps)
    BY <2>2 DEF TurnedTo
  <2>4. \E m : EndTurn(m, ps)
    BY <1>2 DEF ResetView
  <2> HIDE DEF ps
  <2> QED
    BY <1>1, <2>3, <2>4, EndTurnOutcome DEF PlainTurn, TurnedTo
<1>3. CASE BeginQuit(StopAll)
  BY <1>1, <1>3, StopAllTo, BeginQuitOutcome DEF PlainTurn
<1> QED
  BY <1>2, <1>3 DEF Attach, Detach, QuitRequest

\* An output is taken, or the report of an exit, and only then leaves the
\* channel.
ReportTaken ==
  \E ps \in [Procs -> WellFormed] :
    LET e == Head(events) IN
      /\ IsReport(e) /\ e.id \in Procs
      /\ \A p \in Procs \ {e.id} : ps[p] = proc[p]
      /\ proc[e.id].state \in Up => Exits(proc[e.id], ps[e.id])
      /\ Outcome(ps)

LEMMA AppEventTurns ==
  ASSUME IInv, HandleAppEvent
  PROVE  /\ events \in Seq(Event) /\ events # <<>> /\ events' = Tail(events)
         /\ loop = "Running"
         /\ (PlainTurn /\ ~IsReport(Head(events))) \/ ReportTaken
<1> DEFINE e == Head(events)
<1>1. /\ TypeOK
      /\ loop = "Running"
      /\ events \in Seq(Event) /\ events # <<>> /\ events' = Tail(events)
      /\ proc \in [Procs -> WellFormed]
  BY TypeOKWellFormed DEF IInv, TypeOK, HandleAppEvent
<1>2. /\ e \in Event /\ e.id \in Procs
      /\ e.type = "ProcessExited" => e.status \in ProcessStatus
  BY <1>1 DEF Event
<1> HIDE DEF e
<1>3. CASE TakeOutput(e)
  <2>1. PICK alt \in BOOLEAN, reset \in BOOLEAN :
         EndTurn(mode, [proc EXCEPT ![e.id] = HandleOutput(@, alt, reset)])
    BY <1>3 DEF TakeOutput
  <2>2. /\ Turns(proc[e.id], HandleOutput(proc[e.id], alt, reset))
        /\ HandleOutput(proc[e.id], alt, reset) \in WellFormed
    BY <1>1, <1>2, ViewTurns, ViewType DEF Turns
  <2>3. TurnedTo([proc EXCEPT ![e.id] = HandleOutput(proc[e.id], alt, reset)])
    BY <1>1, <1>2, <2>2, OneTurnedTo
  <2>4. PlainTurn
    BY <1>1, <2>1, <2>3, EndTurnOutcome DEF PlainTurn, TurnedTo
  <2> QED
    BY <1>1, <1>3, <2>4 DEF TakeOutput, IsReport, e
<1>4. CASE TakeExit(e)
  <2> DEFINE t(tooFast, spawns) == HandleExit(e.id, proc[e.id], e.status, tooFast, spawns)
  <2>1. PICK tooFast \in BOOLEAN, spawns \in BOOLEAN :
          EndTurn(mode, [proc EXCEPT ![e.id] = t(tooFast, spawns)])
    BY <1>4 DEF TakeExit
  <2>2. /\ t(tooFast, spawns) \in WellFormed
        /\ proc[e.id].state \in Up => Exits(proc[e.id], t(tooFast, spawns))
    BY <1>1, <1>2, <1>4, HandleExitType, HandleExitExits DEF TakeExit
  <2> HIDE DEF t
  <2> DEFINE ps == [proc EXCEPT ![e.id] = t(tooFast, spawns)]
  <2>3. /\ ps \in [Procs -> WellFormed]
        /\ \A p \in Procs \ {e.id} : ps[p] = proc[p]
        /\ ps[e.id] = t(tooFast, spawns)
    BY <1>1, <1>2, <2>2
  <2>4. Outcome(ps)
    BY <1>1, <2>1, <2>3, EndTurnOutcome
  <2> HIDE DEF ps
  <2>5. ReportTaken
    BY <1>2, <1>4, <2>2, <2>3, <2>4 DEF ReportTaken, TakeExit, IsReport, e
  <2> QED
    BY <1>1, <2>5
<1> QED
  BY <1>1, <1>3, <1>4 DEF HandleAppEvent, e

-----------------------------------------------------------------------------
(* Every step keeps the invariant *)

LEMMA AllDownLeft ==
  ASSUME NEW ps \in [Procs -> WellFormed], \A p \in Procs : Sound(ps[p]), Outcome(ps)
  PROVE  Left'
<1>1. loop' = "Exited" => \A p \in Procs, k \in Spawns : ps[p].child[k].os # "Alive"
  BY DEF Outcome, AllStopped, Sound, Finished, Up
<1> QED
  BY <1>1 DEF Left, NothingOutlivesQuit, NoChildLeftUntold, Outcome

LEMMA PlainTurnSInv ==
  ASSUME SInv, IInv', loop = "Running", PlainTurn, events \in Seq(Event),
         events' = events \/ (events # <<>> /\ events' = Tail(events))
  PROVE  SInv'
<1>1. PICK ps : TurnedTo(ps) /\ Outcome(ps)
  BY DEF PlainTurn
<1>2. proc \in [Procs -> WellFormed] /\ ps \in [Procs -> WellFormed]
  BY <1>1, TypeOKWellFormed DEF SInv, IInv, TurnedTo
<1>3. \A p \in Procs : Sound(ps[p])
  BY <1>1, <1>2, TurnsSound DEF SInv, Working, TurnedTo
<1>4. PICK d \in {0, 1} : /\ \A i \in DOMAIN events' : i + d \in DOMAIN events /\ events'[i] = events[i + d]
                          /\ DOMAIN events' \subseteq Nat
  <2>1. CASE events' = events
    BY <2>1
  <2>2. CASE events # <<>> /\ events' = Tail(events)
    BY <2>2
  <2> QED
    BY <2>1, <2>2
<1>5. \A i \in DOMAIN events : events[i].id \in Procs \/ ~IsReport(events[i])
  BY DEF Event, IsReport
<1>6. Reports'
  <2>1. ASSUME NEW i \in DOMAIN events', IsReport(events'[i])
        PROVE  Due(events'[i], ps[events'[i].id])
    BY <1>1, <1>4, <1>5, <2>1, TurnsDue DEF SInv, Working, Reports, TurnedTo
  <2>2. ASSUME NEW i \in DOMAIN events', NEW j \in DOMAIN events',
               IsReport(events'[i]), IsReport(events'[j]), events'[i].id = events'[j].id
        PROVE  i = j
    <3>1. i + d = j + d /\ i \in Nat /\ j \in Nat
      BY <1>4, <2>2 DEF SInv, Working, Reports
    <3> QED
      BY <3>1
  <2> QED
    BY <1>1, <2>1, <2>2 DEF Reports, Outcome
<1> QED
  BY <1>1, <1>2, <1>3, <1>6, AllDownLeft DEF SInv, Working, Outcome

LEMMA ReportTakenSInv ==
  ASSUME SInv, IInv', loop = "Running", ReportTaken,
         events \in Seq(Event), events # <<>>, events' = Tail(events)
  PROVE  SInv'
<1> DEFINE e == Head(events)
<1>1. PICK ps \in [Procs -> WellFormed] :
        /\ IsReport(e) /\ e.id \in Procs
        /\ \A p \in Procs \ {e.id} : ps[p] = proc[p]
        /\ proc[e.id].state \in Up => Exits(proc[e.id], ps[e.id])
        /\ Outcome(ps)
  BY DEF ReportTaken
<1>2. /\ e = events[1] /\ 1 \in DOMAIN events
      /\ DOMAIN events' \subseteq Nat
      /\ \A i \in DOMAIN events' : /\ i + 1 \in DOMAIN events /\ i + 1 # 1
                                   /\ events'[i] = events[i + 1]
  OBVIOUS
<1> HIDE DEF e
<1>3. proc \in [Procs -> WellFormed]
  BY TypeOKWellFormed DEF SInv, IInv
<1>4. Due(e, proc[e.id]) /\ Sound(proc[e.id])
  BY <1>1, <1>2 DEF SInv, Working, Reports
<1>5. Finished(proc[e.id].child[proc[e.id].spawn])
  BY <1>4 DEF Due, Sound, Finished
<1>6. \A p \in Procs : Sound(ps[p])
  <2>1. Sound(ps[e.id])
    BY <1>1, <1>3, <1>4, <1>5, ExitsSound DEF Due
  <2> QED
    BY <1>1, <2>1 DEF SInv, Working
<1>7. Reports'
  <2>1. ASSUME NEW i \in DOMAIN events', IsReport(events'[i])
        PROVE  Due(events'[i], ps[events'[i].id])
    <3>1. events'[i].id \in Procs
      BY <1>2, <2>1 DEF IsReport, Event
    <3>2. events'[i].id # e.id
      BY <1>1, <1>2, <2>1 DEF SInv, Working, Reports
    <3> QED
      BY <1>1, <1>2, <2>1, <3>1, <3>2 DEF SInv, Working, Reports
  <2>2. ASSUME NEW i \in DOMAIN events', NEW j \in DOMAIN events',
               IsReport(events'[i]), IsReport(events'[j]), events'[i].id = events'[j].id
        PROVE  i = j
    <3>1. i + 1 = j + 1 /\ i \in Nat /\ j \in Nat
      BY <1>2, <2>2 DEF SInv, Working, Reports
    <3> QED
      BY <3>1
  <2> QED
    BY <1>1, <2>1, <2>2 DEF Reports, Outcome
<1> QED
  BY <1>1, <1>6, <1>7, AllDownLeft DEF SInv, Working, Outcome

\* Ctrl-C again: what is still running is told to end.
LEMMA ForceLeftSInv ==
  ASSUME SInv, IInv', loop = "Running", ForceLeft
  PROVE  SInv'
<1>1. \A p \in Procs : proc[p] \in WellFormed /\ Sound(proc[p])
  BY TypeOKWellFormed DEF SInv, IInv, Working
<1>2. ASSUME NEW p \in Procs, NEW k \in Spawns, Dropped(proc[p]).child[k].os = "Alive"
      PROVE  Dropped(proc[p]).child[k].signal # "None"
  <2>1. CASE proc[p].state # "Running"
    BY <1>1, <1>2, <2>1 DEF Dropped, Sound, Finished, Up
  <2>2. CASE proc[p].state = "Running"
    <3> DEFINE b == SendPause(proc[p], FALSE)
               a == Terminated(b)
    <3>1. b \in WellFormed /\ b.spawn = proc[p].spawn /\ b.child = proc[p].child
          /\ b.spawn \in Spawns
      BY <1>1, <2>2, SendPauseType DEF Sound, Up
    <3> HIDE DEF b
    <3>2. /\ a \in WellFormed
          /\ a.child[b.spawn].os = "Alive" => a.child[b.spawn].signal = "TERM"
          /\ \A j \in Spawns \ {b.spawn} : a.child[j] = b.child[j]
      BY <3>1, TerminatedType, TerminatedTold
    <3>3. Dropped(proc[p]) = [a EXCEPT !.state = "Stopped"]
      BY <2>2 DEF Dropped, b
    <3> HIDE DEF a
    <3>4. Dropped(proc[p]).child = a.child
      BY <3>2, <3>3 DEF WellFormed, ProcessRecord
    <3>5. \A j \in Spawns \ {b.spawn} : b.child[j].os # "Alive"
      BY <1>1, <3>1 DEF Sound, Finished
    <3> QED
      BY <1>2, <3>2, <3>4, <3>5
  <2> QED
    BY <2>1, <2>2
<1> QED
  BY <1>2 DEF SInv, ForceLeft, Left, NothingOutlivesQuit, NoChildLeftUntold

\* A step of a task keeps what is over, and a child that was told.
LEMMA ChildSound ==
  ASSUME NEW s \in WellFormed, Sound(s), NEW k \in Spawns, NEW d \in Child,
         s.child[k].watcher \in {"Absent", "Done"} => d.watcher = s.child[k].watcher,
         d.watcher \in {"SendExit", "Done"} => d.os # "Alive",
         d.os = "Alive" => /\ s.child[k].os = "Alive"
                           /\ s.child[k].signal # "None" => d.signal # "None"
  PROVE  Sound(WithChild(s, k, d))
<1> DEFINE t == WithChild(s, k, d)
<1>1. /\ t.state = s.state /\ t.spawn = s.spawn
      /\ t.child = [s.child EXCEPT ![k] = d]
      /\ s.child \in [Spawns -> Child]
  BY WithChildType DEF WellFormed, ProcessRecord
<1> HIDE DEF t
<1>2. /\ t.child[k] = d
      /\ \A j \in Spawns \ {k} : t.child[j] = s.child[j]
  BY <1>1
<1>3. Finished(s.child[k]) => Finished(d)
  BY DEF Finished
<1>4. Sound(t)
  BY <1>1, <1>2, <1>3 DEF Sound, Up
<1> QED
  BY <1>4 DEF t

\* What a task's step does: its child becomes d, and it may send an event.
TaskTo(p, k, d) ==
  /\ d \in Child
  /\ proc' = [proc EXCEPT ![p] = WithChild(@, k, d)]
  /\ UNCHANGED loop
  /\ LET c == proc[p].child[k] IN
       /\ d.os = "Alive" => c.os = "Alive" /\ (c.signal # "None" => d.signal # "None")
       /\ \/ d.watcher = c.watcher /\ events' = events
          \/ /\ Watching(c) /\ Watching(d) /\ d.os = c.os
             /\ d.watcher = "SendExit" => d.os = "Dead"
             /\ events' = events \/ events' = Append(events, [type |-> "PtyOutput", id |-> p])
          \/ /\ c.watcher = "SendExit" /\ d.watcher = "Done" /\ d.os = c.os
             /\ \E status \in ProcessStatus :
                  events' = Append(events, [type |-> "ProcessExited", id |-> p,
                                            spawn |-> k, status |-> status])

LEMMA TaskSteps ==
  ASSUME IInv, NEW p \in Procs, NEW k \in Spawns, Beside(Task(p, k))
  PROVE  \E d : TaskTo(p, k, d)
<1> DEFINE c == proc[p].child[k]
           w(to) == [c EXCEPT !.watcher = to]
<1>1. /\ proc \in [Procs -> WellFormed]
      /\ c \in Child
      /\ loop' = loop
  BY TypeOKWellFormed DEF IInv, WellFormed, ProcessRecord, Beside
<1>2. ASSUME NEW from, NEW to, WatcherStep(p, k, from, to),
             to \in {"CheckPause", "Read", "SendOutput", "Wait", "SendExit", "Done"}
      PROVE  /\ w(to) \in Child /\ c.watcher = from /\ w(to).watcher = to
             /\ w(to).os = c.os /\ w(to).signal = c.signal
             /\ proc' = [proc EXCEPT ![p] = WithChild(@, k, w(to))]
  BY <1>1, <1>2 DEF Child, WatcherStep, WithChild
<1> HIDE DEF w
<1>3. CASE WatcherResume(p, k)
  <2>1. TaskTo(p, k, w("Read"))
    BY <1>1, <1>2, <1>3 DEF WatcherResume, TaskTo, Watching
  <2> QED
    BY <2>1
<1>4. CASE WatcherRead(p, k)
  <2>1. TaskTo(p, k, w("SendOutput"))
    BY <1>1, <1>2, <1>4 DEF WatcherRead, TaskTo, Watching
  <2> QED
    BY <2>1
<1>5. CASE WatcherSendOutput(p, k)
  <2>1. TaskTo(p, k, w("CheckPause"))
    BY <1>1, <1>2, <1>5 DEF WatcherSendOutput, TaskTo, Watching
  <2> QED
    BY <2>1
<1>6. CASE WatcherEof(p, k)
  <2>1. TaskTo(p, k, w("Wait"))
    BY <1>1, <1>2, <1>6 DEF WatcherEof, TaskTo, Watching
  <2> QED
    BY <2>1
<1>7. CASE WatcherWait(p, k)
  <2>1. TaskTo(p, k, w("SendExit"))
    BY <1>1, <1>2, <1>7 DEF WatcherWait, TaskTo, Watching
  <2> QED
    BY <2>1
<1>8. CASE WatcherSendExit(p, k)
  <2>1. TaskTo(p, k, w("Done"))
    BY <1>1, <1>2, <1>8 DEF WatcherSendExit, TaskTo
  <2> QED
    BY <2>1
<1>9. CASE KillTimer(p, k)
  <2> DEFINE d == [c EXCEPT !.signal = "KILL"]
  <2>1. d \in Child /\ d.watcher = c.watcher /\ d.os = c.os /\ d.signal # "None"
    BY <1>1 DEF Child
  <2>2. events' = events /\ proc' = [proc EXCEPT ![p] = WithChild(@, k, d)]
    BY <1>9 DEF KillTimer, WithChild
  <2> QED
    BY <1>1, <2>1, <2>2 DEF TaskTo
<1>10. CASE ChildDies(p, k)
  <2> DEFINE d == [c EXCEPT !.os = "Dead", !.signal = "None"]
  <2>1. d \in Child /\ d.watcher = c.watcher /\ d.os = "Dead"
    BY <1>1 DEF Child
  <2>2. events' = events /\ proc' = [proc EXCEPT ![p] = WithChild(@, k, d)]
    BY <1>10 DEF ChildDies, WithChild
  <2> QED
    BY <1>1, <2>1, <2>2 DEF TaskTo
<1> QED
  BY <1>3, <1>4, <1>5, <1>6, <1>7, <1>8, <1>9, <1>10 DEF Beside, Task

LEMMA TaskSInv ==
  ASSUME SInv, IInv', loop = "Running", NEW p \in Procs, NEW k \in Spawns,
         NEW d, TaskTo(p, k, d)
  PROVE  SInv'
<1> DEFINE c == proc[p].child[k]
           t == WithChild(proc[p], k, d)
<1>1. /\ proc \in [Procs -> WellFormed] /\ proc[p].child \in [Spawns -> Child]
      /\ events \in Seq(Event)
      /\ d \in Child
      /\ Sound(proc[p])
      /\ loop' = "Running" /\ proc' = [proc EXCEPT ![p] = t]
  BY TypeOKWellFormed DEF SInv, IInv, Working, TaskTo, WellFormed, ProcessRecord
<1>2. /\ c.watcher \in {"Absent", "Done"} => d.watcher = c.watcher
      /\ d.watcher \in {"SendExit", "Done"} => d.os # "Alive"
  BY <1>1 DEF TaskTo, Sound, Watching
<1>3. Sound(t)
  BY <1>1, <1>2, ChildSound DEF TaskTo
<1>4. /\ t.state = proc[p].state /\ t.spawn = proc[p].spawn
      /\ t.child = [proc[p].child EXCEPT ![k] = d]
  BY <1>1, WithChildType
<1> HIDE DEF t
<1>5. /\ proc'[p] = t
      /\ \A q \in Procs \ {p} : proc'[q] = proc[q]
  BY <1>1
<1>6. ASSUME NEW e \in Event, IsReport(e), Due(e, proc[e.id])
      PROVE  Due(e, proc'[e.id])
  BY <1>1, <1>2, <1>4, <1>5, <1>6 DEF Due, Event, IsReport, Sound
<1>7. \A i \in DOMAIN events : events[i] \in Event
  BY <1>1
<1>8. CASE events' = events
  BY <1>1, <1>3, <1>5, <1>6, <1>7, <1>8
     DEF SInv, Working, Reports, Left, NothingOutlivesQuit, NoChildLeftUntold
<1>9. ASSUME NEW n, events' = Append(events, n),
             IsReport(n) => Due(n, proc'[n.id]) /\ \A i \in DOMAIN events :
                              ~(IsReport(events[i]) /\ events[i].id = n.id)
      PROVE  SInv'
  <2>1. /\ DOMAIN events' = DOMAIN events \cup {Len(events) + 1}
        /\ Len(events) + 1 \notin DOMAIN events
        /\ events'[Len(events) + 1] = n
        /\ \A i \in DOMAIN events : events'[i] = events[i]
    BY <1>1, <1>9
  <2>2. Reports'
    <3>1. \A i \in DOMAIN events' : IsReport(events'[i]) => Due(events'[i], proc'[events'[i].id])
      BY <1>6, <1>7, <1>9, <2>1 DEF SInv, Working, Reports
    <3>2. \A i, j \in DOMAIN events' :
            IsReport(events'[i]) /\ IsReport(events'[j]) /\ events'[i].id = events'[j].id => i = j
      BY <1>1, <1>9, <2>1 DEF SInv, Working, Reports
    <3> QED
      BY <3>1, <3>2 DEF Reports
  <2> QED
    BY <1>1, <1>3, <1>5, <2>2 DEF SInv, Working, Left, NothingOutlivesQuit, NoChildLeftUntold
<1>10. CASE events' = Append(events, [type |-> "PtyOutput", id |-> p])
  BY <1>9, <1>10 DEF IsReport
<1>11. CASE /\ c.watcher = "SendExit" /\ d.watcher = "Done"
            /\ \E status \in ProcessStatus :
                 events' = Append(events, [type |-> "ProcessExited", id |-> p,
                                           spawn |-> k, status |-> status])
  <2>1. PICK status \in ProcessStatus :
          events' = Append(events, [type |-> "ProcessExited", id |-> p,
                                    spawn |-> k, status |-> status])
    BY <1>11
  <2> DEFINE n == [type |-> "ProcessExited", id |-> p, spawn |-> k, status |-> status]
  <2>2. proc[p].state \in Up /\ k = proc[p].spawn
    BY <1>1, <1>11 DEF Sound, Finished
  <2>3. Due(n, proc'[n.id])
    BY <1>1, <1>4, <1>5, <1>11, <2>2 DEF Due
  <2>4. \A i \in DOMAIN events : ~(IsReport(events[i]) /\ events[i].id = n.id)
    BY <1>11, <2>2 DEF SInv, Working, Reports, Due
  <2> HIDE DEF n
  <2> QED
    BY <1>9, <2>1, <2>3, <2>4 DEF n
<1> QED
  BY <1>8, <1>10, <1>11 DEF TaskTo

LEMMA InitSInv ==
  ASSUME Init
  PROVE  SInv
<1>1. IInv /\ proc \in [Procs -> WellFormed]
  BY InitIInv, TypeOKWellFormed DEF IInv
<1>2. NewProcess \in WellFormed /\ Sound(NewProcess) /\ NewProcess.state = "Stopped"
  <2>1. [k \in Spawns |-> [os |-> "Unborn", signal |-> "None", watcher |-> "Absent"]]
          \in [Spawns -> Child]
    BY DEF Child
  <2> QED
    BY <2>1 DEF NewProcess, WellFormed, ProcessRecord, State, Sound, Finished, Up
<1>3. \A b \in BOOLEAN : Sound(Start(NewProcess, b))
  BY <1>2, StartTurns, StartType, TurnsSound
<1>4. PICK spawned \in SUBSET AutoStart :
        proc = [p \in Procs |-> IF p \in AutoStart THEN Start(NewProcess, p \in spawned)
                                                  ELSE NewProcess]
  BY DEF Init
<1>5. \A p \in Procs : (p \in spawned) \in BOOLEAN
  OBVIOUS
<1>6. \A p \in Procs : Sound(proc[p])
  BY <1>2, <1>3, <1>4, <1>5
<1> QED
  BY <1>1, <1>6 DEF Init, SInv, Working, Reports, Left, NothingOutlivesQuit, NoChildLeftUntold

\* Every step is a turn, a report that is taken, a second Ctrl-C, or a task's.
LEMMA NextSteps ==
  ASSUME IInv, ~StartWhileStopping, Next
  PROVE  /\ loop = "Running"
         /\ \/ PlainTurn /\ (events' = events \/ (events # <<>> /\ events' = Tail(events)))
            \/ ReportTaken /\ events # <<>> /\ events' = Tail(events)
            \/ ForceLeft
            \/ \E p \in Procs, k \in Spawns : \E d : TaskTo(p, k, d)
<1>1. CASE Attach \/ Detach \/ QuitRequest
  BY <1>1, ServerTurns DEF Attach, Detach, QuitRequest
<1>2. CASE ClientInput
  <2>1. loop = "Running" /\ events' = events
    BY <1>2 DEF ClientInput, OtherInput, SelectTab, ClickTab, ScrollView, FocusTab, Unfocus,
                StartProcess, StopProcess, RestartProcess, EnterSearch, SearchAccept,
                SearchCancel, Quit, CancelQuit, QuitNow, ForceQuit, Input, InputIn
  <2> QED
    BY <1>2, <2>1, ClientInputTurns
<1>3. CASE HandleAppEvent
  BY <1>3, AppEventTurns
<1>4. ASSUME NEW p \in Procs, NEW k \in Spawns, Beside(Task(p, k))
      PROVE  loop = "Running" /\ \E d : TaskTo(p, k, d)
  BY <1>4, TaskSteps DEF Beside
<1> QED
  BY <1>1, <1>2, <1>3, <1>4 DEF Next

LEMMA StepSInv ==
  ASSUME SInv, ~StartWhileStopping, [Next]_vars
  PROVE  SInv'
<1>1. IInv' /\ IInv /\ events \in Seq(Event)
  BY StepIInv DEF SInv, IInv, TypeOK
<1>2. CASE Next
  BY <1>1, <1>2, NextSteps, PlainTurnSInv, ReportTakenSInv, ForceLeftSInv, TaskSInv
<1>3. CASE UNCHANGED vars
  BY <1>1, <1>3 DEF vars, SInv, Left, NothingOutlivesQuit, NoChildLeftUntold, Working, Reports
<1> QED
  BY <1>2, <1>3

-----------------------------------------------------------------------------
(* What Supervisor allows one process *)

Living(s) == {k \in Spawns : s.child[k].os = "Alive"}

\* Promise!Step, on the records it is about.
StepOf(s, t) ==
  \/ Living(s) = {} /\ t.state = "Running" /\ \E i \in Spawns : Living(t) = {i}
  \/ Living(s) = {} /\ t.state = "Failed" /\ Living(t) = {}
  \/ s.state = "Running" /\ t.state = "Stopping" /\ Living(t) = Living(s)
  \/ t.state = s.state /\ Living(t) = {}
  \/ /\ Living(s) = {} /\ Living(t) = {}
     /\ \/ s.state = "Running" /\ t.state \in {"Stopped", "Failed"}
        \/ s.state = "Stopping" /\ t.state = "Stopped"
  \/ t.state = s.state /\ Living(t) = Living(s)

LEMMA StepMaps ==
  ASSUME NEW p \in Procs, StepOf(proc[p], proc'[p])
  PROVE  Promise!Step(p)
BY DEF StepOf, Living, Promise!Step, Promise!Launch, Promise!LaunchFails, Promise!AskedToStop,
       Promise!Ends, Promise!Reported, Promise!Same, Promise!Becomes, Promise!Down

LEMMA SameLiving ==
  ASSUME NEW s, NEW t, SameTasks(s, t)
  PROVE  Living(t) = Living(s)
BY DEF SameTasks, Living

LEMMA LaunchLives ==
  ASSUME NEW s, NEW t, Living(s) = {}, Launches(s, t)
  PROVE  Living(t) = {t.spawn} /\ t.spawn \in Spawns
BY DEF Launches, Living, Spawned

LEMMA TurnsStepOf ==
  ASSUME NEW s \in WellFormed, NEW t, Sound(s), Turns(s, t)
  PROVE  StepOf(s, t)
<1>1. s.state \notin Up => Living(s) = {}
  BY DEF Sound, Finished, Living
<1>2. CASE Same(s, t)
  BY <1>2 DEF Same, StepOf, Living
<1>3. CASE Stops(s, t)
  BY <1>3, SameLiving DEF Stops, StepOf
<1>4. CASE Fails(s, t)
  BY <1>1, <1>4, SameLiving DEF Fails, StepOf
<1>5. CASE Launches(s, t)
  BY <1>1, <1>5, LaunchLives DEF Launches, StepOf
<1> QED
  BY <1>2, <1>3, <1>4, <1>5 DEF Turns

LEMMA ExitsStepOf ==
  ASSUME NEW s \in WellFormed, NEW t, Sound(s), s.state \in Up,
         s.child[s.spawn].watcher = "Done", Exits(s, t)
  PROVE  StepOf(s, t)
<1>1. Living(s) = {}
  BY DEF Sound, Finished, Living
<1>2. CASE Ends(s, t)
  BY <1>1, <1>2, SameLiving DEF Ends, StepOf, Up
<1>3. ASSUME NEW m \in WellFormed, Ends(s, m), Fails(m, t)
      PROVE  StepOf(s, t)
  BY <1>1, <1>3, SameLiving DEF Ends, Fails, StepOf
<1>4. ASSUME NEW m \in WellFormed, Ends(s, m), Launches(m, t)
      PROVE  StepOf(s, t)
  <2>1. Living(m) = {}
    BY <1>1, <1>4, SameLiving DEF Ends
  <2> QED
    BY <1>1, <1>4, <2>1, LaunchLives DEF Launches, StepOf
<1> QED
  BY <1>2, <1>3, <1>4 DEF Exits

-----------------------------------------------------------------------------
(* Every step of App is one of Supervisor *)

\* When all are down, Quit; else Serve.
LEMMA OutcomeMaps ==
  ASSUME loop = "Running", NEW ps \in [Procs -> WellFormed], Outcome(ps),
         \A p \in Procs : Sound(ps[p]) /\ StepOf(proc[p], ps[p])
  PROVE  Promise!Next
<1>1. \A p \in Procs : Promise!Step(p)
  BY StepMaps DEF Outcome
<1>2. CASE loop' = "Running"
  BY <1>1, <1>2 DEF Promise!Next, Promise!Serve
<1>3. CASE loop' = "Exited"
  <2>1. \A p \in Procs : ps[p].state \in {"Stopped", "Failed"} /\ Living(ps[p]) = {}
    BY <1>3 DEF Outcome, AllStopped, Sound, Finished, Living, Up
  <2> QED
    BY <1>1, <1>3, <2>1 DEF Outcome, Promise!Next, Promise!Quit, Promise!Down, Living
<1> QED
  BY <1>2, <1>3 DEF Outcome

LEMMA PlainTurnMaps ==
  ASSUME SInv, loop = "Running", PlainTurn
  PROVE  Promise!Next
<1>1. PICK ps : TurnedTo(ps) /\ Outcome(ps)
  BY DEF PlainTurn
<1>2. \A p \in Procs : proc[p] \in WellFormed /\ ps[p] \in WellFormed /\ Sound(proc[p])
  BY <1>1, TypeOKWellFormed DEF SInv, IInv, Working, TurnedTo
<1>3. \A p \in Procs : Sound(ps[p]) /\ StepOf(proc[p], ps[p])
  BY <1>1, <1>2, TurnsSound, TurnsStepOf DEF TurnedTo
<1> QED
  BY <1>1, <1>3, OutcomeMaps DEF TurnedTo

LEMMA ReportTakenMaps ==
  ASSUME SInv, loop = "Running", ReportTaken, events # <<>>
  PROVE  Promise!Next
<1> DEFINE e == Head(events)
<1>1. PICK ps \in [Procs -> WellFormed] :
        /\ IsReport(e) /\ e.id \in Procs
        /\ \A p \in Procs \ {e.id} : ps[p] = proc[p]
        /\ proc[e.id].state \in Up => Exits(proc[e.id], ps[e.id])
        /\ Outcome(ps)
  BY DEF ReportTaken
<1>2. e = events[1] /\ 1 \in DOMAIN events
  BY DEF SInv, IInv, TypeOK
<1> HIDE DEF e
<1>3. \A p \in Procs : proc[p] \in WellFormed /\ Sound(proc[p])
  BY TypeOKWellFormed DEF SInv, IInv, Working
<1>4. Due(e, proc[e.id])
  BY <1>1, <1>2 DEF SInv, Working, Reports
<1>5. Sound(ps[e.id])
  <2>1. Finished(proc[e.id].child[proc[e.id].spawn])
    BY <1>1, <1>3, <1>4 DEF Due, Sound, Finished
  <2> QED
    BY <1>1, <1>3, <1>4, <2>1, ExitsSound DEF Due
<1>6. StepOf(proc[e.id], ps[e.id])
  BY <1>1, <1>3, <1>4, ExitsStepOf DEF Due
<1>7. \A p \in Procs \ {e.id} : Sound(ps[p]) /\ StepOf(proc[p], ps[p])
  BY <1>1, <1>3 DEF StepOf
<1> QED
  BY <1>1, <1>5, <1>6, <1>7, OutcomeMaps

LEMMA ForceLeftMaps ==
  ASSUME SInv, loop = "Running", ForceLeft
  PROVE  Promise!Next
<1>1. \A p \in Procs : /\ proc[p] \in WellFormed
                       /\ proc[p].state = "Running" => proc[p].spawn \in Spawns
  BY TypeOKWellFormed DEF SInv, IInv, Working, Sound, Up
<1>2. ASSUME NEW p \in Procs
      PROVE  /\ Dropped(proc[p]).state = IF proc[p].state = "Running" THEN "Stopped" ELSE proc[p].state
             /\ Living(Dropped(proc[p])) = Living(proc[p])
  <2>1. CASE proc[p].state # "Running"
    BY <2>1 DEF Dropped
  <2>2. CASE proc[p].state = "Running"
    <3> DEFINE b == SendPause(proc[p], FALSE)
               a == Terminated(b)
    <3>1. b \in WellFormed /\ b.spawn \in Spawns /\ b.child = proc[p].child
      BY <1>1, <2>2, SendPauseType
    <3> HIDE DEF b
    <3>2. a \in WellFormed /\ SameTasks(b, a)
      BY <3>1, TerminatedType, TerminatedTold
    <3>3. Dropped(proc[p]) = [a EXCEPT !.state = "Stopped"]
      BY <2>2 DEF Dropped, b
    <3> HIDE DEF a
    <3>4. Dropped(proc[p]).state = "Stopped" /\ Dropped(proc[p]).child = a.child
      BY <3>2, <3>3 DEF WellFormed, ProcessRecord
    <3> QED
      BY <2>2, <3>1, <3>2, <3>4 DEF SameTasks, Living
  <2> QED
    BY <2>1, <2>2
<1> QED
  BY <1>2 DEF ForceLeft, Living, Promise!Next, Promise!ForceQuit

LEMMA TaskMaps ==
  ASSUME SInv, loop = "Running", NEW p \in Procs, NEW k \in Spawns, NEW d, TaskTo(p, k, d)
  PROVE  Promise!Next
<1> DEFINE c == proc[p].child[k]
           t == WithChild(proc[p], k, d)
<1>1. /\ proc \in [Procs -> WellFormed] /\ proc[p].child \in [Spawns -> Child]
      /\ d \in Child
      /\ Sound(proc[p])
      /\ loop' = loop /\ proc' = [proc EXCEPT ![p] = t]
      /\ d.os = "Alive" => c.os = "Alive"
  BY TypeOKWellFormed DEF SInv, IInv, Working, TaskTo, WellFormed, ProcessRecord
<1>2. t.state = proc[p].state /\ t.child = [proc[p].child EXCEPT ![k] = d]
  BY <1>1, WithChildType
<1> HIDE DEF t
<1>3. StepOf(proc[p], t)
  <2>1. CASE d.os = "Alive" \/ c.os # "Alive"
    <3>1. Living(t) = Living(proc[p])
      BY <1>1, <1>2, <2>1 DEF Living
    <3> QED
      BY <1>2, <3>1 DEF StepOf
  <2>2. CASE d.os # "Alive" /\ c.os = "Alive"
    <3>1. \A j \in Spawns \ {k} : proc[p].child[j].os # "Alive"
      BY <1>1, <2>2 DEF Sound, Finished
    <3>2. Living(t) = {}
      BY <1>1, <1>2, <2>2, <3>1 DEF Living
    <3> QED
      BY <1>2, <3>2 DEF StepOf
  <2> QED
    BY <2>1, <2>2
<1>4. \A q \in Procs : StepOf(proc[q], proc'[q])
  BY <1>1, <1>3 DEF StepOf
<1> QED
  BY <1>1, <1>4, StepMaps DEF Promise!Next, Promise!Serve

LEMMA InitMaps ==
  ASSUME Init
  PROVE  Promise!Init
<1>1. NewProcess \in WellFormed /\ NewProcess.state = "Stopped" /\ Living(NewProcess) = {}
  <2>1. [k \in Spawns |-> [os |-> "Unborn", signal |-> "None", watcher |-> "Absent"]]
          \in [Spawns -> Child]
    BY DEF Child
  <2> QED
    BY <2>1 DEF NewProcess, WellFormed, ProcessRecord, State, Living
<1>2. ASSUME NEW b \in BOOLEAN
      PROVE  LET t == Start(NewProcess, b) IN
               \/ t.state = "Running" /\ \E i \in Spawns : Living(t) = {i}
               \/ t.state = "Failed" /\ Living(t) = {}
  <2>1. Fails(NewProcess, Start(NewProcess, b)) \/ Launches(NewProcess, Start(NewProcess, b))
    BY <1>1, StartTurns
  <2> QED
    BY <1>1, <2>1, SameLiving, LaunchLives DEF Fails, Launches
<1>3. PICK spawned \in SUBSET AutoStart :
        proc = [p \in Procs |-> IF p \in AutoStart THEN Start(NewProcess, p \in spawned)
                                                  ELSE NewProcess]
  BY DEF Init
<1>4. \A p \in Procs : (p \in spawned) \in BOOLEAN
  OBVIOUS
<1>5. ASSUME NEW p \in Procs
      PROVE  \/ proc[p].state = "Running" /\ \E i \in Spawns : Living(proc[p]) = {i}
             \/ proc[p].state \in {"Stopped", "Failed"} /\ Living(proc[p]) = {}
  BY <1>1, <1>2, <1>3, <1>4
<1>6. \A p \in Procs : Living(proc[p]) \subseteq Spawns
  BY DEF Living
<1> QED
  BY <1>5, <1>6 DEF Init, Promise!Init, Living

LEMMA StepMapsToNext ==
  ASSUME SInv, ~StartWhileStopping, [Next]_vars
  PROVE  [Promise!Next]_Promise!supervisorVars
<1>1. CASE Next
  BY <1>1, NextSteps, PlainTurnMaps, ReportTakenMaps, ForceLeftMaps, TaskMaps DEF SInv
<1>2. CASE UNCHANGED vars
  BY <1>2 DEF vars, Promise!supervisorVars
<1> QED
  BY <1>1, <1>2

-----------------------------------------------------------------------------
(* Theorems *)

LEMMA SafetyInvariance ==
  ASSUME ~StartWhileStopping
  PROVE  Spec => []SInv
<1>1. Init => SInv
  BY InitSInv
<1>2. SInv /\ [Next]_vars => SInv'
  BY StepSInv
<1> QED
  BY <1>1, <1>2, PTL DEF Spec

\* The report that handle_exit takes is about the spawn that the tab stands
\* for, though it names the process alone.
THEOREM ReportsName ==
  ASSUME ~StartWhileStopping
  PROVE  Spec => []ReportsAreCurrent
<1>1. SInv => ReportsAreCurrent
  BY DEF SInv, Working, Reports, IsReport, Due, ReportsAreCurrent, Up
<1> QED
  BY <1>1, SafetyInvariance, PTL

\* What a tab shows as stopped or failed is dead, and no process is doubled
\* by a restart.
THEOREM TabsTellTheTruth ==
  ASSUME ~StartWhileStopping
  PROVE  Spec => []TabTellsTruth
<1>1. SInv => TabTellsTruth
  BY DEF SInv, Working, Sound, Finished, TabTellsTruth, Up
<1> QED
  BY <1>1, SafetyInvariance, PTL

\* When `mtack down` returns because all are stopped, nothing is left behind.
THEOREM NothingIsLeft ==
  ASSUME ~StartWhileStopping
  PROVE  Spec => []NothingOutlivesQuit
<1>1. SInv => NothingOutlivesQuit
  BY DEF SInv, Left
<1> QED
  BY <1>1, SafetyInvariance, PTL

\* A child that a second Ctrl-C leaves behind has been told to end.
THEOREM LeftIsTold ==
  ASSUME ~StartWhileStopping
  PROVE  Spec => []NoChildLeftUntold
<1>1. SInv => NoChildLeftUntold
  BY DEF SInv, Left
<1> QED
  BY <1>1, SafetyInvariance, PTL

\* App does what Supervisor promises, for any number of processes.
THEOREM AppKeepsPromise ==
  ASSUME ~StartWhileStopping
  PROVE  Spec => KeepsPromise
<1>1. Init => Promise!Init
  BY InitMaps
<1>2. SInv /\ [Next]_vars => [Promise!Next]_Promise!supervisorVars
  BY StepMapsToNext
<1> QED
  BY <1>1, <1>2, SafetyInvariance, PTL DEF Spec, KeepsPromise, Promise!Spec

=============================================================================
