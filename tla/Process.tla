------------------------------ MODULE Process ------------------------------
(***************************************************************************)
(* One configured process of mtack (process.rs): the lifecycle the App     *)
(* keeps for it, and the three things that run beside the App: the child   *)
(* on its PTY, the watcher task that reads the PTY and reports the exit,   *)
(* and the SIGKILL timer that a stop leaves behind.                        *)
(*                                                                         *)
(* A process is started many times over its life.  Each start is a "spawn" *)
(* numbered 1, 2, ...; every spawn has a child and a watcher of its own.   *)
(* The methods of Process are operators from record to record, which the   *)
(* App calls; the tasks are actions.                                       *)
(***************************************************************************)
EXTENDS Naturals, Sequences

CONSTANTS
  Procs,        \* the configured processes
  MaxSpawns,    \* bound: later spawns fail, as a spawn may in the code
  EventCap,     \* capacity of the channel from the watchers to the App
  AutoRestart   \* the processes configured with autorestart

ASSUME ProcessAssumption ==
  /\ MaxSpawns \in Nat \ {0}
  /\ EventCap \in Nat \ {0}
  /\ AutoRestart \subseteq Procs

VARIABLES
  proc,         \* [Procs -> Process record]
  events        \* the App's event channel, oldest first

processVars == <<proc, events>>

Spawns == 1..MaxSpawns

State == {"Stopped", "Running", "Stopping", "Failed"}

ProcessStatus == {"Success", "Failed", "Signal"}

\* "Alive" stands for the process and all who hold its terminal, "Dead" for
\* their end: holders are taken to stay in the process group that is signalled.
Child ==
  [os      : {"Unborn", "Alive", "Dead"},
   signal  : {"None", "TERM", "KILL"},     \* the last one sent to the group
   watcher : {"Absent", "CheckPause", "Read", "SendOutput", "Wait", "SendExit", "Done"}]

ProcessRecord ==
  [state          : State,
   pendingRestart : BOOLEAN,        \* the payload of Lifecycle::Stopping
   spawn          : 0..MaxSpawns,   \* the newest spawn, 0 before the first
   scrolledBack   : BOOLEAN,        \* Terminal::is_scrolled_back
   alternate      : BOOLEAN,        \* the terminal shows its alternate screen
   paused         : BOOLEAN,        \* the value in the pause watch channel
   child          : [Spawns -> Child]]

\* The code's ProcessExited carries only id.  Which spawn exited is kept here
\* for the properties; no operator below reads it.
Event ==
  [type : {"PtyOutput"}, id : Procs]
    \cup [type : {"ProcessExited"}, id : Procs, spawn : Spawns, status : ProcessStatus]

NewProcess ==
  [state |-> "Stopped", pendingRestart |-> FALSE, spawn |-> 0,
   scrolledBack |-> FALSE, alternate |-> FALSE, paused |-> FALSE,
   child |-> [k \in Spawns |-> [os |-> "Unborn", signal |-> "None", watcher |-> "Absent"]]]

-----------------------------------------------------------------------------
(* Methods of Process *)

Watched(s) == \E k \in Spawns : s.child[k].watcher \notin {"Absent", "Done"}

\* watch::Sender::send: without a receiver the value is not stored.
SendPause(s, pause) == [s EXCEPT !.paused = IF Watched(s) THEN pause ELSE @]

SyncPaused(s) == SendPause(s, s.scrolledBack)

\* Signals reach only a child that still exists.
Signalled(c, sig) == [c EXCEPT !.signal = IF c.os = "Alive" THEN sig ELSE @]

WithChild(s, k, c) == [s EXCEPT !.child[k] = c]

\* SIGTERM to the newest spawn; stop() also arms the timer for SIGKILL.
Terminated(s) == WithChild(s, s.spawn, Signalled(s.child[s.spawn], "TERM"))

Spawned == [os |-> "Alive", signal |-> "None", watcher |-> "CheckPause"]

Start(s, spawns) ==
  CASE s.state = "Running" -> s
    [] s.state # "Running" /\ spawns /\ s.spawn < MaxSpawns ->
         SyncPaused([WithChild(s, s.spawn + 1, Spawned) EXCEPT
                       !.state = "Running", !.pendingRestart = FALSE, !.spawn = s.spawn + 1])
    [] OTHER -> [s EXCEPT !.state = "Failed", !.pendingRestart = FALSE]

Stop(s) ==
  IF s.state # "Running" THEN s
  ELSE [Terminated(SendPause(s, FALSE)) EXCEPT !.state = "Stopping"]

\* Mutant: restart does not wait for the exit of the running spawn.
RestartAtOnce(s, spawns) == Start(Stop(s), spawns)

\* restart, and the start that the App makes when it returns Yes.
Restart(s, spawns) ==
  IF s.state \in {"Stopped", "Failed"} THEN Start(s, spawns)
  ELSE [Stop(s) EXCEPT !.pendingRestart = TRUE]

ExitState(s, status) ==
  IF s.state = "Stopping" \/ status = "Success" THEN "Stopped" ELSE "Failed"

\* Mutant: the restart that was asked for is forgotten.
ShouldAutoRestart(p, s, status, tooFast) ==
  s.state = "Running" /\ p \in AutoRestart /\ ~tooFast /\ status # "Signal"

ShouldRestart(p, s, status, tooFast) ==
  \/ s.pendingRestart
  \/ /\ s.state = "Running"
     /\ p \in AutoRestart
     /\ ~tooFast
     /\ status # "Signal"

\* handle_exit, and the start that the App makes when it returns Yes.
HandleExit(p, s, status, tooFast, spawns) ==
  LET ended == [s EXCEPT !.state = ExitState(s, status), !.pendingRestart = FALSE]
  IN  CASE s.state \in {"Stopped", "Failed"} -> s
        [] s.state \notin {"Stopped", "Failed"} /\ ShouldRestart(p, s, status, tooFast) ->
             Start(ended, spawns)
        [] OTHER -> ended

\* Output may enter the alternate screen, which has no scrollback, or leave it,
\* and may reset the terminal.  One chunk may do several of these: without a
\* reset, a chunk that enters and leaves again keeps the view back.
HandleOutput(s, alt, reset) ==
  [s EXCEPT !.alternate = alt, !.scrolledBack = @ /\ ~alt /\ ~reset]

\* Every way to scroll, by whatever amount, leaves some offset or none.
Scroll(s, back) == [s EXCEPT !.scrolledBack = IF s.alternate THEN @ ELSE back]

ScrollToBottom(s) == [s EXCEPT !.scrolledBack = FALSE]

\* Mutant: a process that still runs is dropped without a signal.
DroppedSilently(s) ==
  IF s.state # "Running" THEN s ELSE [SendPause(s, FALSE) EXCEPT !.state = "Stopped"]

\* Drop for Process, as the server exits.
Dropped(s) ==
  IF s.state # "Running" THEN s
  ELSE [Terminated(SendPause(s, FALSE)) EXCEPT !.state = "Stopped"]

-----------------------------------------------------------------------------
(* The tasks beside the App *)

WatcherStep(p, k, from, to) ==
  /\ proc[p].child[k].watcher = from
  /\ proc' = [proc EXCEPT ![p].child[k].watcher = to]

\* The reader waits here while the terminal is scrolled back.
WatcherResume(p, k) ==
  /\ ~proc[p].paused
  /\ WatcherStep(p, k, "CheckPause", "Read")
  /\ UNCHANGED events

\* The PTY holds output: what a child wrote can be read after it died, too.
WatcherRead(p, k) ==
  /\ WatcherStep(p, k, "Read", "SendOutput")
  /\ UNCHANGED events

WatcherSendOutput(p, k) ==
  /\ Len(events) < EventCap
  /\ WatcherStep(p, k, "SendOutput", "CheckPause")
  /\ events' = Append(events, [type |-> "PtyOutput", id |-> p])

\* End of file: the child has ended, or has closed its terminal and lives on.
WatcherEof(p, k) ==
  /\ WatcherStep(p, k, "Read", "Wait")
  /\ UNCHANGED events

\* Mutant: the exit is reported at end of file, while the child may live.
WatcherSkipsWait(p, k) == WatcherStep(p, k, "Wait", "SendExit") /\ UNCHANGED events

\* child.wait() returns.
WatcherWait(p, k) ==
  /\ proc[p].child[k].os = "Dead"
  /\ WatcherStep(p, k, "Wait", "SendExit")
  /\ UNCHANGED events

\* Mutant: a report that finds the channel full is dropped.
WatcherTrySendExit(p, k) ==
  /\ WatcherStep(p, k, "SendExit", "Done")
  /\ IF Len(events) = EventCap THEN UNCHANGED events
     ELSE events' = Append(events, [type |-> "ProcessExited", id |-> p,
                                    spawn |-> k, status |-> "Success"])

WatcherSendExit(p, k) ==
  /\ Len(events) < EventCap
  /\ WatcherStep(p, k, "SendExit", "Done")
  /\ \E status \in ProcessStatus :
       events' = Append(events, [type |-> "ProcessExited", id |-> p,
                                 spawn |-> k, status |-> status])

\* Mutant: the timer repeats SIGTERM, which a child may ignore.
TimerSendsTerm(p, k) == proc[p].child[k].signal = "TERM" /\ UNCHANGED processVars

\* The timer of stop() fires: shutdown_timeout passed and the watcher runs on.
KillTimer(p, k) ==
  /\ proc[p].child[k].signal = "TERM"
  /\ proc' = [proc EXCEPT ![p].child[k].signal = "KILL"]
  /\ UNCHANGED events

\* The child ends, by itself or from a signal.
ChildDies(p, k) ==
  /\ proc[p].child[k].os = "Alive"
  /\ proc' = [proc EXCEPT ![p].child[k] = [@ EXCEPT !.os = "Dead", !.signal = "None"]]
  /\ UNCHANGED events

Task(p, k) ==
  \/ WatcherResume(p, k)
  \/ WatcherRead(p, k)
  \/ WatcherSendOutput(p, k)
  \/ WatcherEof(p, k)
  \/ WatcherWait(p, k)
  \/ WatcherSendExit(p, k)
  \/ KillTimer(p, k)
  \/ ChildDies(p, k)

=============================================================================
