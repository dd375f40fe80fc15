-------------------------------- MODULE App --------------------------------
(***************************************************************************)
(* The App of mtack (app.rs): the one task that owns every Process, takes  *)
(* requests from clients, signals and watchers, and decides when the       *)
(* server is done.                                                         *)
(*                                                                         *)
(* One turn of the loop in run() is one action.  Its branches are the      *)
(* arrival or the end of a client, a request to quit, an input event of    *)
(* the client, and an event of a watcher; each ends with the test that     *)
(* leaves the loop.  Between turns the tasks of module Process step.       *)
(*                                                                         *)
(* Left to other modules: what is searched and drawn, the size of the      *)
(* terminal, the bytes typed into a child, and the socket.                 *)
(***************************************************************************)
EXTENDS Process

CONSTANTS
  AutoStart,            \* the processes configured with autostart
  StartWhileStopping    \* whether the user may press `s` on a tab that is
                        \* stopping, where the key hints do not offer it

ASSUME AppAssumption ==
  /\ AutoStart \subseteq Procs
  /\ StartWhileStopping \in BOOLEAN
  /\ Procs # {}

VARIABLES
  mode,       \* the Mode of the user interface
  selected,   \* the selected tab
  attached,   \* App.client.is_some()
  loop        \* whether run() is looping, or how it left

vars == <<proc, events, mode, selected, attached, loop>>

Mode == {"Normal", "Focused", "Search", "ConfirmQuit", "Quitting"}

-----------------------------------------------------------------------------
(* The end of a turn *)

\* Mutants: a process that is stopping counts as down; one that failed does
\* not; one that is down is enough.
NoneRunning(ps) == \A p \in Procs : ps[p].state # "Running"

NoneFailed(ps) == \A p \in Procs : ps[p].state = "Stopped"

OneStopped(ps) == \E p \in Procs : ps[p].state \in {"Stopped", "Failed"}

AllStopped(ps) == \A p \in Procs : ps[p].state \in {"Stopped", "Failed"}

HasRunning(ps) == ~AllStopped(ps)

\* The App is dropped, and its processes with it.
Leave(how, ps) ==
  /\ loop' = how
  /\ proc' = [p \in Procs |-> Dropped(ps[p])]

EndTurn(m, ps) ==
  /\ mode' = m
  /\ IF m = "Quitting" /\ AllStopped(ps)
       THEN Leave("Exited", ps)
       ELSE proc' = ps /\ UNCHANGED loop

StopAll == [p \in Procs |-> Stop(proc[p])]

\* begin_quit; ps is StopAll, with what the caller still does to it.
BeginQuit(ps) ==
  IF AllStopped(proc)
    THEN Leave("Exited", ps) /\ UNCHANGED mode
    ELSE EndTurn("Quitting", ps)

\* Mutants: only the selected tab is reset; the mode is reset although the App
\* is quitting.
ResetSelectedView ==
  EndTurn(IF mode = "Quitting" THEN mode ELSE "Normal",
          [proc EXCEPT ![selected] = SyncPaused(ScrollToBottom(@))])

ResetAnyMode ==
  EndTurn("Normal", [p \in Procs |-> SyncPaused(ScrollToBottom(proc[p]))])

ResetView ==
  EndTurn(IF mode = "Quitting" THEN mode ELSE "Normal",
          [p \in Procs |-> SyncPaused(ScrollToBottom(proc[p]))])

-----------------------------------------------------------------------------
(* The server's events and the signals *)

\* A client attaches, and takes the view over from one already attached.
Attach ==
  /\ loop = "Running"
  /\ ResetView
  /\ attached' = TRUE
  /\ UNCHANGED <<events, selected>>

\* The client's connection ends, or the client presses `d`.
Detach ==
  /\ loop = "Running"
  /\ attached
  /\ ResetView
  /\ attached' = FALSE
  /\ UNCHANGED <<events, selected>>

\* `mtack down`, SIGTERM or SIGHUP.
QuitRequest ==
  /\ loop = "Running"
  /\ BeginQuit(StopAll)
  /\ UNCHANGED <<events, selected, attached>>

-----------------------------------------------------------------------------
(* The client's input events, each followed by sync_paused *)

Synced(tab, ps) == [ps EXCEPT ![tab] = SyncPaused(@)]

InputIn(modes) ==
  /\ loop = "Running"
  /\ attached
  /\ mode \in modes
  /\ UNCHANGED <<events, attached>>

\* An event in one of the modes, which leads to mode m and makes the selected
\* process s.
Input(modes, m, s) ==
  /\ InputIn(modes)
  /\ EndTurn(m, Synced(selected, [proc EXCEPT ![selected] = s]))
  /\ UNCHANGED selected

Shown == proc[selected]

\* Typing, help, focus, unbound keys and mouse moves: nothing else happens.
OtherInput == Input(Mode, mode, Shown)

SelectTab(p) ==
  /\ InputIn({"Normal"})
  /\ selected' = p
  /\ EndTurn("Normal", Synced(p, proc))

\* The mouse works in every mode.
ClickTab(p) ==
  /\ InputIn(Mode)
  /\ selected' = p
  /\ EndTurn(IF mode = "Focused" THEN "Normal" ELSE mode, Synced(p, proc))

\* Every key, wheel or match to scroll by: it ends scrolled back or it does not.
ScrollView(back) == Input(Mode, mode, Scroll(Shown, back))

FocusTab == Shown.state = "Running" /\ Input({"Normal"}, "Focused", Shown)

Unfocus == Input({"Focused"}, "Normal", Shown)

StartProcess(spawns) ==
  /\ Shown.state = "Stopping" => StartWhileStopping
  /\ Input({"Normal"}, "Normal", Start(Shown, spawns))

StopProcess == Input({"Normal"}, "Normal", Stop(Shown))

RestartProcess(spawns) == Input({"Normal"}, "Normal", Restart(Shown, spawns))

EnterSearch == Input({"Normal"}, "Search", Shown)

SearchAccept(back) == Input({"Search"}, "Normal", Scroll(Shown, back))

SearchCancel == Input({"Normal", "Search"}, "Normal", ScrollToBottom(Shown))

\* `q`: asks first when something runs.
Quit == HasRunning(proc) /\ Input({"Normal"}, "ConfirmQuit", Shown)

CancelQuit == Input({"ConfirmQuit"}, "Normal", Shown)

\* `q` with nothing running, `y` in the dialog, or `Q`.
QuitNow ==
  /\ InputIn({"Normal", "ConfirmQuit"})
  /\ BeginQuit(Synced(selected, StopAll))
  /\ UNCHANGED selected

\* A second Ctrl-C.
ForceQuit ==
  /\ InputIn({"Quitting"})
  /\ Leave("ForceExited", proc)
  /\ UNCHANGED <<mode, selected>>

ClientInput ==
  \/ OtherInput
  \/ \E p \in Procs : SelectTab(p) \/ ClickTab(p)
  \/ \E back \in BOOLEAN : ScrollView(back) \/ SearchAccept(back)
  \/ FocusTab
  \/ Unfocus
  \/ \E spawns \in BOOLEAN : StartProcess(spawns) \/ RestartProcess(spawns)
  \/ StopProcess
  \/ EnterSearch
  \/ SearchCancel
  \/ Quit
  \/ CancelQuit
  \/ QuitNow
  \/ ForceQuit

-----------------------------------------------------------------------------
(* The watchers' events *)

TakeOutput(e) ==
  /\ e.type = "PtyOutput"
  /\ \E alt, reset \in BOOLEAN :
       EndTurn(mode, [proc EXCEPT ![e.id] = HandleOutput(@, alt, reset)])

TakeExit(e) ==
  /\ e.type = "ProcessExited"
  /\ \E tooFast, spawns \in BOOLEAN :
       EndTurn(mode, [proc EXCEPT ![e.id] = HandleExit(e.id, @, e.status, tooFast, spawns)])

HandleAppEvent ==
  /\ loop = "Running"
  /\ events # <<>>
  /\ events' = Tail(events)
  /\ TakeOutput(Head(events)) \/ TakeExit(Head(events))
  /\ UNCHANGED <<selected, attached>>

-----------------------------------------------------------------------------
(* Specification *)

Init ==
  /\ \E spawned \in SUBSET AutoStart :
       proc = [p \in Procs |-> IF p \in AutoStart THEN Start(NewProcess, p \in spawned)
                                                  ELSE NewProcess]
  /\ events = <<>>
  /\ mode = "Normal"
  /\ selected \in Procs     \* the first tab, whichever that is
  /\ attached = FALSE
  /\ loop = "Running"

\* A step of a task, which ends with the server.
Beside(A) == loop = "Running" /\ A /\ UNCHANGED <<mode, selected, attached, loop>>

Next ==
  \/ Attach
  \/ Detach
  \/ QuitRequest
  \/ ClientInput
  \/ HandleAppEvent
  \/ \E p \in Procs, k \in Spawns : Beside(Task(p, k))

\* The runtime polls every task that can go on.  A full channel serves its
\* senders in turn, hence SF for them.  A dead child has left finitely much to
\* read, so a reader that goes on reading comes to the end of file: SF, since
\* it may read and report the rest first.  A child need not die before it is
\* killed.
Fairness ==
  /\ WF_vars(HandleAppEvent)
  /\ \A p \in Procs, k \in Spawns :
       /\ WF_vars(Beside(WatcherResume(p, k)))
       /\ SF_vars(Beside(proc[p].child[k].os = "Dead" /\ WatcherEof(p, k)))
       /\ WF_vars(Beside(WatcherWait(p, k)))
       /\ SF_vars(Beside(WatcherSendOutput(p, k)))
       /\ SF_vars(Beside(WatcherSendExit(p, k)))
       /\ WF_vars(Beside(KillTimer(p, k)))
       /\ WF_vars(Beside(proc[p].child[k].signal = "KILL" /\ ChildDies(p, k)))

Spec == Init /\ [][Next]_vars /\ Fairness

-----------------------------------------------------------------------------
(* Properties *)

\* Every variable holds a value of its type, and a restart is owed only by a
\* process that is stopping (Lifecycle has the flag in that variant alone).
TypeOK ==
  /\ proc \in [Procs -> ProcessRecord]
  /\ events \in Seq(Event)
  /\ mode \in Mode
  /\ selected \in Procs
  /\ attached \in BOOLEAN
  /\ loop \in {"Running", "Exited", "ForceExited"}
  /\ \A p \in Procs : proc[p].pendingRestart => proc[p].state = "Stopping"

IsExitOf(e, p, k) == e.type = "ProcessExited" /\ e.id = p /\ e.spawn = k

Watching(c) == c.watcher \notin {"Absent", "Done"}

\* A tab shown as running or stopping will still be told of an exit: the
\* watcher of its newest spawn is at work, or has its report in the channel.
\* Only handle_exit ends those states, so a lost report would leave the tab,
\* and a quit that waits for it, stuck for ever.
ReportOwed ==
  loop = "Running" =>
    \A p \in Procs : proc[p].state \in {"Running", "Stopping"} =>
      /\ proc[p].spawn > 0
      /\ \/ Watching(proc[p].child[proc[p].spawn])
         \/ \E i \in DOMAIN events : IsExitOf(events[i], p, proc[p].spawn)

\* A report in the channel is about the spawn the tab stands for, and the tab
\* awaits it.  ProcessExited names only the process, so handle_exit has to rely
\* on this to end the right spawn.
ReportsAreCurrent ==
  \A i \in DOMAIN events :
    LET e == events[i]
    IN  e.type = "ProcessExited" /\ loop = "Running" =>
          /\ e.spawn = proc[e.id].spawn
          /\ proc[e.id].state \in {"Running", "Stopping"}

\* Only a tab shown as running or stopping has a live child, and only one: what
\* the user sees as stopped or failed is gone, and no restart doubles it.
TabTellsTruth ==
  loop = "Running" =>
    \A p \in Procs, k \in Spawns : proc[p].child[k].os = "Alive" =>
      k = proc[p].spawn /\ proc[p].state \in {"Running", "Stopping"}

\* When the server exits because all are stopped, no child survives it.
NothingOutlivesQuit ==
  loop = "Exited" => \A p \in Procs, k \in Spawns : proc[p].child[k].os # "Alive"

\* However the server exits, each child it leaves has been told to end.
NoChildLeftUntold ==
  loop # "Running" =>
    \A p \in Procs, k \in Spawns :
      proc[p].child[k].os = "Alive" => proc[p].child[k].signal # "None"

\* With no client to scroll the view back down, no reader is paused: a detached
\* process never blocks on its output (reset_view).
DetachedIsNeverPaused ==
  ~attached => \A p \in Procs : Watched(proc[p]) => ~proc[p].paused

\* Only a process whose view is scrolled back has its reader stopped, as the
\* watcher's comment says.  It does not hold: see the README.
PausedIsScrolledBack ==
  \A p \in Procs : proc[p].paused /\ Watched(proc[p]) => proc[p].scrolledBack

WindingDown ==
  /\ mode = "Quitting"
  /\ \A p \in Procs : proc[p].state # "Running" /\ ~proc[p].pendingRestart

\* Quitting is final: no client, key or event leaves it, and once nothing runs
\* and no restart is owed, nothing is started any more.
QuittingIsFinal ==
  [][/\ mode = "Quitting" => mode' = "Quitting"
     /\ WindingDown => WindingDown']_vars

\* While quitting, nothing is started: what `q` and `mtack down` stop is stopped,
\* as src/README.md says.  It does not hold: see the README.
QuittingStartsNothing ==
  [][mode = "Quitting" => \A p \in Procs : proc'[p].spawn = proc[p].spawn]_vars

\* Stopping ends, unless the reader is paused meanwhile: the kill timer of
\* stop() sees to it.
StoppingEnds ==
  \A p \in Procs :
    proc[p].state = "Stopping" ~>
      (proc[p].state # "Stopping" \/ proc[p].paused \/ loop # "Running")

\* A server that is quitting, with nothing running and no restart owed, exits
\* unless a client attaches meanwhile (`mtack down`).
DownCompletes ==
  (WindingDown /\ ~attached) ~> (attached \/ loop # "Running")

\* A quit ends the server, as src/README.md says of `q`.  It does not hold, even
\* of a user who does nothing but scroll and quit (MCApp): see the README.
QuitCompletes == mode = "Quitting" ~> loop # "Running"

\* A restart asked for while the process ran does start it anew, or fails to,
\* unless the reader is paused meanwhile.
RestartHappens ==
  \A p \in Procs, k \in Spawns :
    (proc[p].pendingRestart /\ proc[p].spawn = k) ~>
      (proc[p].spawn > k \/ proc[p].state = "Failed" \/ proc[p].paused \/ loop # "Running")

\* The App does no more than a Supervisor may: what a tab shows, its children
\* and the server's exit change only as promised there.
Promise ==
  INSTANCE Supervisor WITH
    Ids <- Spawns,
    shown <- [p \in Procs |-> proc[p].state],
    children <- [p \in Procs |-> {k \in Spawns : proc[p].child[k].os = "Alive"}],
    server <- loop

KeepsPromise == Promise!Spec

=============================================================================
