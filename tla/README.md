# mtack in TLA+

mtack runs the processes of a config file in a background server, one tab each,
and lets terminals attach to it. This directory holds TLA+ models of that
server and its clients, the TLC runs that check them on small instances, and
TLAPS proofs about them for every instance.

    tlc -workers 2 -config MCApp_lifecycle.cfg MCApp     # a run
    tlapm AppProofs.tla                                  # a proof module

`PROJECT.json` lists the runs, the source lines behind each definition, the
hazards the properties are for, the disagreements found and the theorems.

## The system

Everything the server does runs in one single-threaded tokio runtime: tasks
interleave at each `await` and never in between. So one turn of `App::run` is
one atomic action, and the watchers, writers, timers, connections, children and
other programs take steps between turns.

| Component (source) | State | Operations | Talks to | Correct when |
|---|---|---|---|---|
| Process (`process.rs`) | lifecycle, pending restart, pause channel, input queue | start, stop, restart, handle_exit, write, resize, Drop; a watcher task, a writer task and a SIGKILL timer per spawn | the App calls it; its tasks send events to the App | a tab tells the truth about its one child; every exit is reported, once and about the right spawn; stops end; input is not garbled |
| App (`app.rs`, `event.rs`) | processes, mode, selected tab, client, sizes, help, query, dirty flag | `run`'s branches, `handle_action`, `begin_quit`, `reset_view`, `resize_processes` | clients, watchers, signals | a quit stops all and then ends; no reader stays paused for a client that is gone; what is drawn, emulated and told to children is one size; dialogs and focus are the attached client's own |
| Ownership (`server.rs` bind, `main.rs` serve, `client.rs` up/down) | lock file, config path in it, socket path | bind, SocketGuard's drop, up, down, list_running | other `mtack` programs, through the file system | one server per config, always reachable by its path; stale files do no harm |
| Sessions (`server.rs` Client, `client.rs` attach) | outbox, writer task, goodbyes, the client's screen | connect, hello, messages, draw, goodbye, flush | the App; the terminal of the user | the screen becomes what there is to see; everyone who attached hears how it ended |
| Terminal and search (`terminal.rs`, `SearchState`) | text, offset, caches, matches | process, scroll, find, jump | the App, `vt100` | the view holds still; what is found and highlighted is there |
| Keys (`input.rs`) | none | `resolve` | the App | each mode takes its keys and can be left |
| Wire (`protocol.rs`) | the frame that is read or written | `write_frame`, `read_frame`, decoding | sockets | frames come out whole and in order wherever the stream is cut; one odd event costs no connection |
| Tab bar (`ui/tabs.rs`) | none | `visible_range`, `tab_index_at_col`, `render` | the App, the mouse | the selected tab is visible, no room is wasted, a click selects the tab under it |
| Help, hints, rendering (`ui/`) | none | layout | the App | the status bar names keys that do what it says |
| Config (`config.rs`), command line (`main.rs`) | none | parse, find | everything, as constants | bad configs are refused |

The behaviours that are hard, and that the models are about: exits, signals and
restarts that cross one another; a bounded event channel between many watchers
and one App; readers that are paused while their process is stopped; clients
that take over, hang up or stop reading at any moment; streams that are cut within a
frame; servers that race, crash and hand over; flags and caches that say
something is unchanged; the same layout computed in two places.

## The modules

| Module | Models | Its actions |
|---|---|---|
| `Process` | one process and what runs beside the App for it | the methods are operators from record to record; each step of the watcher, the timer and the child is an action |
| `App` (extends `Process`) | the App and all processes | one action per branch of `run` and per kind of action in `handle_action` |
| `Supervisor` | the abstract promise: what tabs show, which children live, how the server leaves | start, ask to stop, end, report, quit |
| `Startup` | one config's lock and socket, any number of `up`, servers, `down` and listings | one action per system call that others can see |
| `Session` | clients, their connection and writer tasks, and the App's turns about them | one per message, per task step and per turn |
| `Search` | the terminal of the selected tab and the search in it | one per write, scroll, search action and frame |
| `Input` | what is typed into one spawn | Process::write, the branches of write_input's select!, the child |
| `Tabs` | the tab bar | none: its functions are operators |
| `Keys` | the key maps, and the hints that name them | none |
| `Screen` (extends `Tabs`, `Keys`) | the view of the App: modes, tabs, help, sizes | one per key, click, resize, attachment, exit |
| `Wire` | one direction of a connection, byte by byte | the parts of `write_frame` and `read_frame`, the stream, its ends |
| `Channel` | the abstract promise of a connection | send, deliver, end |
| `MCApp`, `MCStartup`, `MCSession`, `MCSearch`, `MCScreen`, `MCWire` | instances for TLC | (`Input` needs none) |
| `AppProofs`, `SupervisorProofs`, `StartupProofs`, `InputProofs`, `SessionProofs`, `SearchProofs`, `ScreenProofs`, `WireProofs` | theorems | |

The models meet where the code does. `App` takes a client as attached or not
and its keys as choices; `Session` fills in connections and frames, and takes
processes as output and exits. `Startup` has a step in which the App ends, and
`App` says when that is. `Input` and `Search` open up what `App` has as "other
input" and "scroll"; `Screen` opens up the keys and the mouse, and leaves to
`App` what a process does meanwhile. `Session` takes each direction of a
connection as a queue of messages, which is what `Wire` is shown to be.

### Correspondence

`Process`. A spawn has a number; `child[k]` is its child (`os`), the last
signal sent to it, and where its watcher is. `Alive` means that someone still
holds the terminal: children and their descendants are taken to stay in the
process group that is signalled. What a child wrote before it died is still read
and sent; how much that is stays open, up to the end of file. The event in the channel carries the spawn it
is about; only properties read it, since the code's event names the process
alone. Whether an exit came too soon after the start, its status, and whether a
spawn succeeds are free choices. A watch channel without a receiver stores
nothing (`SendPause`), as in tokio. A chunk of output leaves the alternate screen on
or off, and may reset the terminal on the way; one that enters and leaves the
alternate screen keeps the view where it was, since `Terminal::process` sets the offset again.

`App`. An input event is `Input(modes, m, s)`: it is possible in some modes,
leads to mode `m`, makes the selected process `s`, and ends with `sync_paused`
and the test that leaves the loop, as `handle_client_msg` and `run` do.
`flush_goodbyes` takes no part in what happens to processes and is folded into
the exit; `Session` has it. The first tab is any tab. The constant
`StartWhileStopping` says whether `s` is pressed on a tab that is stopping:
the key hints offer it on stopped and failed tabs only, but the code accepts it.
Most properties are about a user who follows the hints; what goes wrong
otherwise is a finding of its own.

`Startup`. `server[u]` is where the server launched by `up` number `u` is, from
launch to gone; a crash may come at each point. A socket path names the last
listener bound to it, dead or alive, until it is removed. `connect` succeeds
while the listener exists, accepted or not. `up` reads the line its server says, or the
end of the pipe once a server that said nothing is gone. The listings are runs of
`list_running`.

`Session`. A frame is the pair of views it leads between, so that a frame
applied to another screen than it was made for shows. The client's messages are
the ones that the session tells apart: select a tab, resize, detach, force
quit. Each client program connects once. `Stall` is a terminal that takes no
output any more, and it lasts; a stalled client may still hang up. The timeout
of `flush_goodbyes` (1 s) runs out only when all that are still waited for are
stalled: a client that reads is served within it. A process exits once.

`Search`. A line is the set of queries that match it, one match per row; rows
are numbered from the oldest kept. `vt100` is external: it clamps the offset,
moves a full scrollback by dropping the oldest line, has no scrollback on the
alternate screen, and returns from it at the bottom. A banner is its label between two
line feeds, on whichever screen is on, for a cursor on the last line; for one above it, it
is an `Overwrite`. It is written without pinning, so the offset may follow its two lines or
not. Output may reset the terminal (`ResetTerminal`), which empties the scrollback. Sizes are
fixed.

`Input`. Keys are numbered; a write takes any part of what is pending, as much
as the PTY has room for. One spawn; a new one gets new queues.

`Tabs`. The loop of `visible_range` is a recursive function, its sums are modulo
2^16. `Bar` is what the cells of the bar show after `TabBar::render`.

`Keys`. A key event is a code and its modifiers, an action is its name: the
arguments of `SelectTab`, `ForwardKey` and the scrolls are read off the key. A
capital arrives with SHIFT, as crossterm reports it.

`Screen`. `Press` resolves a key in the current mode and does the whole of
`handle_action`. `rect` is what the client draws into, `terminal` what the App
remembers of it, `size` what terminals are emulated with and `pty[p]` what a
child was last told; the code keeps them apart as well. `entered` is history and
read by `ModeIsOwn` alone. A process is its tab's state, and may exit, start or
fail to at any time.

`Wire`. A byte is a pair of a frame's number and its place in it, which the reader
does not look at: it counts bytes, and learns the length from the byte that ends
the header. `Pull(n)` is a read of any size up to what `read_exact` still wants;
`Push(n)` a write of what the stream has room for. An `Odd` message is an event that
`ClientMsg::read` cannot decode, and skips; from server to client there is none, and
`Odd` is empty. An `Unexpected` one has an unknown tag, or is a resize of a bad length, and ends
the reading. `Close` may cut a frame:
a writer task is aborted, or the program dies.

## The runs

| Run | Shows | Instance |
|---|---|---|
| `MCApp_lifecycle` | reports are owed and come, one child per tab, no child is left untold, a quit is final, and `App` implements `Supervisor`; stops end, `down` completes and restarts happen | 1 process, 3 spawns, channel of 2 |
| `MCApp_tabs` | quitting waits for both of two processes on one channel; switching tabs and clients leaves no reader paused that nobody could resume | 2 processes, 1 spawn each, channel of 1, symmetric |
| `MCStartup_owner` | one owner, no stale sockets, `down` frees; `up` returns, and `down` once the server it asked is on its way out | 2 `up`s, 1 `down`, 1 listing |
| `MCSession_frames` | frames compose, a goodbye fits, nothing is left undrawn | 1 client, 2 tabs |
| `MCSession_clients` | whoever attached is told how it ended; clients catch up, goodbyes arrive, the flush ends | 2 clients, 1 tab |
| `MCSearch_view` | the current match is one, jumps land in view, the view is pinned while there is room | 3 rows, 2 of scrollback, 4 writes, banners and resets among them |
| `MCInput_typed` | order, runs and losses of keys; resizes and the end get past a blocked write | 7 keys, 1 resize |
| `MCScreen_view` | one size for what is drawn, emulated and told; a full bar, clicks that hit; dialogs and focus are one's own; hints hold | 2 clients, 3 tabs, 5 terminal sizes, every bound key, and two that are not |
| `MCWire_frames` | messages come out whole, in order and once (`Channel`); what was written arrives although the writer closes; the reader notices the end | 3 messages of 5 kinds, header of 5, stream of 4 bytes |
| three `violation` runs | the first three disagreements below | the smallest instance that shows each |

The other configs are not part of the list: `MCApp_types`, `MCSession_types` and
`MCStartup_types` pass, and check type invariants and what `TypeCorrect`
and `ReportsName` prove anyway; the rest reproduce the other disagreements.

### Bounds

`MaxSpawns`: two spawns make a restart, three a restart of one; a later start
fails, as a spawn may, so nothing is cut off. `EventCap`: 1 or 2 instead of 256,
to have the channel full at every point where that matters. `MaxPolls`: 2
instead of 40. `MaxKeys`, `MaxOutput`, `MaxResizes`, `MaxWrites` bound what users
and processes do; each run's are large enough to fill the queue or scrollback
it is about and go on. `OutputQueueSize` is 2, as in the code; `WireSize` is 1,
the least with which a client can lag behind the outbox. In `Wire` a header has its
real 5 bytes and the stream holds 4, so that no header fits it whole;
`MaxFrameLen` is 2 instead of 16 MiB, and `MaxSent` 3 is a message before and one after
the one that is odd, unexpected or too large. `Screen` needs no bound: its state is
finite. Its terminal sizes are picked for what they are too small for (one tab, two
tabs, the help, a view beside the help, any view), with the help's real size,
57 by 8; no terminal has fewer than two rows. Its tabs are far from 2^16 columns wide: a config would
have to name them so. Two actors that race
are enough where roles are symmetric: a third meets the same lock, slot or
channel (`StartupProofs` shows it for the lock).

`CHECK_DEADLOCK FALSE` is set where the program ends: the server exits, `up` and
`down` return, clients are gone, or a bound is used up.

### Fairness

Weak fairness for the App's turns and each task's steps: tokio polls what is
ready, and `select!` picks its branches at random. Strong fairness for sending
into the event channel, since tokio serves waiting senders in order, and for the
end of file of a dead child: it left a finite amount of output, so a watcher that
keeps reading gets to the end of it, however often it is paused in between. The child
is fair in one thing: it dies of SIGKILL. It need not die of SIGTERM, read or
print. Users need not do anything. `MCApp_quit_scrolled` has the same fairness and narrows
`Next` to a user who attaches, scrolls up and quits by key, and a child that dies
only when told to (`QuitterSpec`), so that its counterexample is the one it is about.
In `Startup`, servers and commands go on; an App need not end, asked or not, and nothing
has to crash. So `DownEnds` starts where the server that was asked is on its way out;
whether it gets there is `App`'s `DownCompletes`, and `QuitCompletes`, which fails.
In `Session`, a client that has not stalled reads. In `Input`, the branches of
the writer are fair and the child is not. In `Wire`, both ends go on with a frame
they have begun, and a reader notices an end; nobody has to write or to close.
`Screen` states no fairness: nobody has to press a key.

### Refinement

`KeepsPromise` instantiates `Supervisor` with the tab's state, the live spawns
and the loop's state. It says, for every step: a child is launched only where
none lives, a tab is shown as down only once its child is dead, a process asked
to stop is not shown as failed, and the server leaves by itself only with all
down.

`KeepsOrder` instantiates `Channel` with the messages whose writing began, the
frames handed on and whether the reader has ended: each delivery is the next
message that is not odd. Cutting the stream is no step of the promise.

## What is proved

Proofs hold for every value of the constants that meets the `ASSUME`s of the module.
Where a theorem assumes more, it says so and so does this section. Every invariant
and every action property of a passing run is proved, and so are both refinements.

`AppProofs`: `TypeCorrect` (`TypeOK`), `ExitIsReported` (`ReportOwed`),
`DetachedIsRead` (`DetachedIsNeverPaused`) and `QuitIsFinal` (`QuittingIsFinal`), with
any `StartWhileStopping`.
`ReportOwed` says that a tab shown as running or stopping is owed a report by a
watcher at work or in the channel. The invariant is `IInv`, `TypeOK /\ ReportOwed`,
and is inductive as it stands: `TypeOK` says what `ReportOwed` needs besides, that
the channel holds reports of spawns there are. The argument goes by the actions.
The watcher's step that sends a report appends it to the channel, which is where
`ReportOwed` looks next. A turn of the App replaces process records, and each
record it writes either keeps what the old one owes (state, spawn and watchers),
or is that of a fresh spawn whose watcher is at work, or is down and owes
nothing. The lemmas say which of these each method of `Process` does, and each
action then follows from them. `QuitIsFinal` needs of `IInv` that a restart is owed
only by a tab that is stopping; the rest is what each branch of `handle_action` does
in `Quitting`.

`SupervisorProofs`: `AppKeepsPromise` (`KeepsPromise`, the refinement),
`TabsTellTheTruth`, `NothingIsLeft`, `LeftIsTold` and `ReportsName`
(`ReportsAreCurrent`). They assume `~StartWhileStopping`: without it each is false,
as `MCApp_start_while_stopping` shows for one. Their invariant `SInv` adds to
`IInv` what makes a report safe to act on. A late report could end the wrong spawn;
so older spawns are finished, child and watcher. The newest is reported once; so
a process has at most one report in the channel, and none beside a watcher that
is still at work. A tab goes down with the report; so a watcher that reports
knows its child to be dead. And a quit may have to leave a child; so the child of a
stopping tab has been told. The refinement follows by the actions: the lemmas
classify what a turn does to one process (nothing, asks to stop, fails to start,
launches; for a report, ends it and maybe starts again), each of which is a step of
`Supervisor`, and the tasks' steps are its ends of children or stutter.

`StartupProofs`: `OneServerOwnsTheConfig`, `StaleSocketNeverBlocks`,
`ReachedServerIsOwner` and `DownFreesTheConfig`, from one inductive invariant. Its
part on ownership says that the holder of the lock is the one server between
taking and giving it, that a server with a guard is the one the path names, and
that one past the removal of its socket is not. Three smaller parts say that
a server is launched by its `up` once, that polls are left while an `up` polls,
and that a server that a `down` waits for had been reached. The assumptions are
`None \notin Ups`, that no server is called none, and that `MaxPolls` is a positive
number.

`InputProofs`: `QueueHoldsOneRun`, `LossesAreTold` and `BytesArrive`
(`BytesArriveInOrder`). By itself `QueueIsOneRun` is not inductive: a key may join a
queue only if the queue ends with the key typed before it. The invariant adds that
(`EndsWithNewest`), and that `dropping_input` is set exactly if the newest key was
lost, which makes each new loss either the continuation of a run that was told or
the start of one. `BytesArriveInOrder` is inductive beside it: what was read, the
PTY, what is pending and the queue make one sequence, and each step but typing moves
bytes from one part of it to the next. The sequence itself (`Accepted`) is
a recursive function of how much was typed; that one more key appends its bytes,
and that one more lost key appends nothing, is shown by induction.

`SearchProofs`: `TypeCorrect` (`TypeOK`), `CurrentFound` (`CurrentIsAMatch`),
`JumpsShowMatch` (`JumpShowsMatch`) and `PinnedView` (`PinnedWithRoom`). The invariant
adds to the first two that a search which is being typed has no current match, so
that a new query never keeps one of the old. The other two are arithmetic
over it: with saturating subtractions and heights odd or even, the offset
that `scroll_to_row` sets and `vt100` clamps puts the row into the view; and an offset
that grows with the scrollback shows the same lines.

`SessionProofs`: `GoodbyeAlwaysFits` (`GoodbyeFits`), `NobodyIsLost`
(`AttachedIsNeverLost`), `AllIsDrawn` (`NothingUndrawn`) and `FramesAlwaysCompose`
(`FramesCompose`); also its `TypeCorrect`. The invariant of the first two, `Sessions`, says what each client is
owed. It is held once, as the attached client or in one waiting `Attach`. While it
is held, its outbox has one message at most: a frame is queued only when none
waits, and a goodbye is queued as it is let go of. If it reads and its hello was
accepted by a running App, it is held, or its goodbye is on its way or on its wire,
and `flush_goodbyes` knows of it; so its writer ends only once the goodbye is
written. A client that is lost therefore came too late. That the outbox holds two
(`OutputQueueSize >= 2`) is the assumption that makes a goodbye fit. For the frames
the invariant is `Chained`: what is on a client's wire, in its writer's hand and in
its outbox, in this order, leads from the view the client shows through each frame in
turn; for a client that is attached or about to be it ends in the App's own copy
of the client's view, unless that was cleared for a full redraw; and a goodbye is the
last of it. A client that never attached has nothing on its way. `Sessions` says
besides that a frame is queued for the attached client alone.

`ScreenProofs`: `OneSize` (`SizesAgree`), `OwnDialogs` (`ModeIsOwn`), `BarShowsMost`
(`BarIsFull`), `ClicksHit` (`ClickHits`), `HintsElsewhere` and `HintsAreTrue`
(`HintsHold`). `ModeIsOwn` is inductive as it stands. The first needs more: while a client is attached, the size
of the terminals is the one that follows from its terminal and the help, whichever
changed last, and every running child was told it (`SizeInv`). The other
three are about functions of the state, and need of it only that the selected
tab is one and that the App knows its client's size (`InBounds`). Two steps carry `BarIsFull`:
the loop of `visible_range` ends, in a range that neither side can extend (induction
on the tabs still hidden), and a range that contains another needs at least its room.
The latter holds because a tab is no narrower than the mark it replaces (`WideTabs`:
`tab_width` is four and the name, and the mark two), and because sums do not wrap
(`Narrow`: all tabs and two marks have fewer than 2^16 columns). That one is an
assumption on the config: nothing in the code sees to it, and a release build wraps.
`ClickHits` assumes `Narrow` too: both `render` and
`tab_index_at_col` are shown to put tab i between the columns that the tabs before it
take and those that it takes with them. `HintsElsewhere` says that hints are true for
any config in every state but one: in focus, `esc` is named whatever the key is. So
`HintsAreTrue` assumes the default, `esc`.

`WireProofs`: `WireKeepsOrder` (`KeepsOrder`): `Wire` implements `Channel`, for any
messages and sizes, any length of header and any stream. All bytes on their way
are one sequence (`Stream`: the frame being read, the pipe, what is still to be
written). The invariant says that in it frames follow one another in the order they
were sent (`Framed`), that none is cut while the writer is open (`Whole`), and that
it begins with the frame that is due (`Passed`). Writing and reading move bytes
within the sequence; a frame that the reader completes is the next message that is
not odd, which is a delivery of `Channel`, or is an odd one and no step of it.

Induction over data goes by sets: the library's induction theorems take an operator,
which no prover here instantiates, so the modules that need induction state it once for
sets of numbers (`Induction`, from the well-foundedness of <), and take the set of
the numbers for which a claim holds. `RECURSIVE` operators are out of reach, so recursion is
written as functions.

Only model-checked: liveness (`StoppingEnds`, `DownCompletes`, `RestartHappens`,
`UpEnds`, `DownEnds`, `ClientCatchesUp`, `GoodbyeArrives`, `FlushEnds`, `ResizeApplies`,
`WriterGoes`, `WrittenArrives`, `EndIsNoticed`). It rests on fairness, which is defined by
`ENABLED`, and the prover does not reason about that.

## Where code and words disagree

Each of these ends with a counterexample. The first three are listed runs; the
others are reproduced with the config of that name.

* `MCApp_start_while_stopping`: `s` on a stopping tab starts a second child
  (`start` returns only for `Running`, process.rs:123). The first one's exit then
  ends the tab of the second, and `mtack down` leaves it running.
* `MCApp_quit_scrolled`: `stop` resumes the reader, but the key that quits is
  followed by `sync_paused` (app.rs:235), which pauses it again if the tab is
  scrolled back. The child dies of its SIGTERM, the watcher never reads to the end of
  file, and the quit hangs until the client detaches or presses Ctrl-C.
* `MCSearch_again`: the highlights and the search share one dirty flag; a frame
  drawn after new output makes the next search for the same query stale.
* `MCApp_quit_restarting`: a pending restart survives `begin_quit`, and the
  process is started while the server quits (process.rs:284). The new child is not
  asked to stop.
* `MCSearch_previous`: with an odd number of rows the centre that `n` and `N` compare with
  is a row below the one `scroll_to_row` aims at (app.rs:519): `N` finds the current match
  again, and sticks to it.
* `MCInput_tail`: input is accepted again once the queue has drained, also in the
  middle of a paste.
* `MCApp_alternate_screen`: output that was queued before the pause can enter the
  alternate screen; then nothing is scrolled back, and the reader stays paused
  until the next key.
* `MCStartup_listing`: between the connect and the read of `list_running`, a new
  server may have emptied the lock file.
* `MCSession_lost`: a client that connects as the server ends is told that the
  server exited unexpectedly.
* `MCSearch_pinned`: a full scrollback moves under the view.
* `MCSearch_highlights`: the same flag the other way: a search makes the
  highlights of the next frame stale.
* `MCSearch_jump`: the bottom of the view is taken one row too low.
* `MCScreen_unfocus_capital`: `unfocus-key "Q"` is accepted, but its key event has
  SHIFT and `matches_unfocus_key` wants no modifiers (input.rs:86): focus cannot be
  left by key.
* `MCScreen_unfocus_hint`: in focus the status bar names `esc` whatever the
  `unfocus-key` is.
* `MCWire_sizes`: `write_frame` writes a frame of any length, and the reader ends the
  connection at one over `MAX_FRAME_LEN`.

## Not modelled

* Parsing and validation of the config and the command line, and the search for a
  config file: sequential conversions, whose results are the constants of `App`
  and `Screen`. Their own tests in `config.rs` go case by case; a model would
  repeat the parser.
* The encodings: of events on the wire (tags and bytes) and of keys for a child.
* What cells show: the viewport, the help's columns, the status bar's text,
  colours. They are functions of the state that is modelled.
* What a resize does to the text, columns and wide characters (`vt100`).
* The log, the runtime directory's checks, pids and their reuse, exit codes.
* Descendants that leave the process group.
* mtack's clocks: timeouts may fire at any time.

## Plan

Done: `Process`, `App`, `Supervisor`; `Startup`; `Session`; `Search`; `Input`;
`Tabs`, `Keys`, `Screen`; `Wire`, `Channel`; a proof of every safety property that a
run checks. Open:

1. `SupervisorProofs` assumes `~StartWhileStopping`. What holds of a start on a stopping
   tab, besides `ExitIsReported`, could be stated and proved.
2. The safety parts of the liveness properties: that a step towards each goal is
   possible wherever it is due.
