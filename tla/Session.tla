------------------------------- MODULE Session -------------------------------
(***************************************************************************)
(* The clients that `mtack attach` connects, and how the server serves     *)
(* them (server.rs, and the turns of App::run that concern clients): hello *)
(* and attachment, input, frames through the outbox and its writer task,   *)
(* goodbyes, and the flush of goodbyes at the end.                         *)
(*                                                                         *)
(* Processes appear only as what a frame shows of them: their output, and  *)
(* whether they stopped.  Module App has their life.                       *)
(***************************************************************************)
EXTENDS Naturals, Sequences

CONSTANTS
  Clients,          \* the runs of `mtack attach`
  Tabs,             \* the processes
  OutputQueueSize,  \* the capacity of an outbox
  WireSize,         \* messages a connection holds that were not read
  MaxKeys,          \* bound: messages a client sends
  MaxOutput,        \* bound: times a process prints
  NoClient,         \* no client is attached
  Blank             \* a cleared screen

ASSUME SessionAssumption ==
  /\ OutputQueueSize \in Nat /\ OutputQueueSize >= 2
  /\ WireSize \in Nat \ {0}
  /\ MaxKeys \in Nat /\ MaxOutput \in Nat
  /\ NoClient \notin Clients

VARIABLES
  user,       \* user[c]: the client program
  typed,      \* typed[c]: what it sent that the App has not handled
  keys,       \* keys[c]: how much it sent
  shown,      \* shown[c]: its screen
  wire,       \* wire[c]: what the server sent that it has not read
  conn,       \* conn[c]: its connection task
  writer,     \* writer[c]: its writer task
  sending,    \* sending[c]: what the writer task is writing, if anything
  outbox,     \* outbox[c]: what is queued for the writer task
  drawn,      \* drawn[c]: what the server's copy of its screen holds
  attaching,  \* the Attach events that wait for the App
  client,     \* App::client
  goodbyes,   \* App::goodbyes, with the ones that are done
  dirty,      \* App::dirty
  selected,   \* App::selected
  output,     \* output[t]: how much tab t printed
  stopped,    \* the tabs whose process stopped
  quitting,   \* whether the mode is Quitting
  phase       \* App::run: in its loop, in flush_goodbyes, returned

userVars == <<user, typed, keys, shown, wire>>
taskVars == <<conn, writer, sending, outbox>>
appVars == <<drawn, attaching, client, goodbyes, dirty, selected, output, stopped, quitting, phase>>
vars == <<userVars, taskVars, appVars>>

\* What a frame shows.
Views == [selected : Tabs, printed : 0..MaxOutput, stopped : SUBSET Tabs, quitting : BOOLEAN]

View == [selected |-> selected, printed |-> output[selected],
         stopped |-> stopped, quitting |-> quitting]

\* A frame is what changed from one view to another; after a clear it is whole.
Frames == [kind : {"Output"}, from : Views \cup {Blank}, to : Views]

Goodbyes == [kind : {"Detached", "Exited"}]

ServerMsgs == Frames \cup Goodbyes

ClientMsgs == [kind : {"SelectTab"}, tab : Tabs] \cup [kind : {"Resize", "Detach", "ForceQuit"}]

\* The client's end of the connection is open.
Connected(c) == user[c] \in {"Attached", "Stalled"}

\* A Client of the server exists, and with it the sender of its outbox.
Held(c) == client = c \/ \E i \in DOMAIN attaching : attaching[i] = c

-----------------------------------------------------------------------------
(* `mtack attach` *)

Connect(c) ==
  /\ user[c] = "Away"
  /\ phase # "Returned"
  /\ user' = [user EXCEPT ![c] = "Attached"]
  /\ conn' = [conn EXCEPT ![c] = "Hello"]
  /\ UNCHANGED <<typed, keys, shown, wire, writer, sending, outbox, appVars>>

Type(c, m) ==
  /\ user[c] = "Attached"
  /\ keys[c] < MaxKeys
  /\ typed' = [typed EXCEPT ![c] = Append(@, m)]
  /\ keys' = [keys EXCEPT ![c] = @ + 1]
  /\ UNCHANGED <<user, shown, wire, taskVars, appVars>>

ReadFrame(c) ==
  /\ user[c] = "Attached"
  /\ wire[c] # <<>>
  /\ Head(wire[c]).kind = "Output"
  /\ shown' = [shown EXCEPT ![c] = Head(wire[c]).to]
  /\ wire' = [wire EXCEPT ![c] = Tail(@)]
  /\ UNCHANGED <<user, typed, keys, taskVars, appVars>>

\* The program ends: it closes the connection, and gives the screen back.
ClientEnds(c, how) ==
  /\ user' = [user EXCEPT ![c] = how]
  /\ wire' = [wire EXCEPT ![c] = <<>>]
  /\ shown' = [shown EXCEPT ![c] = Blank]
  /\ UNCHANGED <<typed, keys, taskVars, appVars>>

ReadGoodbye(c) ==
  /\ user[c] = "Attached"
  /\ wire[c] # <<>>
  /\ Head(wire[c]).kind # "Output"
  /\ ClientEnds(c, Head(wire[c]).kind)

\* The connection is closed, and nothing is left to read.
ReadEof(c) ==
  /\ user[c] = "Attached"
  /\ wire[c] = <<>>
  /\ writer[c] = "Ended" \/ phase = "Returned"
  /\ ClientEnds(c, "Lost")

\* The user's terminal does not take output any more.
Stall(c) ==
  /\ user[c] = "Attached"
  /\ user' = [user EXCEPT ![c] = "Stalled"]
  /\ UNCHANGED <<typed, keys, shown, wire, taskVars, appVars>>

\* SIGTERM, or the terminal is gone.
HangUp(c) ==
  /\ Connected(c)
  /\ ClientEnds(c, "HungUp")

Read(c) == ReadFrame(c) \/ ReadGoodbye(c) \/ ReadEof(c)

-----------------------------------------------------------------------------
(* The tasks of a connection *)

\* A hello is read, and a Client made for it.  Once the App has quit, the task
\* tells the client itself.
ReadHello(c) ==
  /\ conn[c] = "Hello"
  /\ phase # "Returned"
  /\ writer' = [writer EXCEPT ![c] = "Running"]
  /\ \/ /\ phase = "Running"
        /\ conn' = [conn EXCEPT ![c] = "Open"]
        /\ attaching' = Append(attaching, c)
        /\ UNCHANGED outbox
     \/ /\ phase = "Flushing"
        /\ conn' = [conn EXCEPT ![c] = "Late"]
        /\ outbox' = [outbox EXCEPT ![c] = <<[kind |-> "Exited"]>>]
        /\ UNCHANGED attaching
  /\ UNCHANGED <<userVars, sending, drawn, client, goodbyes, dirty, selected, output, stopped,
                 quitting, phase>>

\* The client closed its end, or what it sent has no one to go to.
CloseConn(c) ==
  /\ conn[c] = "Open"
  /\ phase # "Returned"
  /\ \/ ~Connected(c) /\ typed[c] = <<>>
     \/ ~Held(c) /\ typed[c] # <<>>
  /\ conn' = [conn EXCEPT ![c] = "Closed"]
  /\ UNCHANGED <<userVars, writer, sending, outbox, appVars>>

Working(c) == writer[c] = "Running" /\ phase # "Returned"

WriterTakes(c) ==
  /\ Working(c) /\ sending[c] = <<>> /\ outbox[c] # <<>>
  /\ sending' = [sending EXCEPT ![c] = <<Head(outbox[c])>>]
  /\ outbox' = [outbox EXCEPT ![c] = Tail(@)]
  /\ UNCHANGED <<userVars, conn, writer, appVars>>

WriterWrites(c) ==
  /\ Working(c) /\ sending[c] # <<>>
  /\ Connected(c) /\ Len(wire[c]) < WireSize
  /\ wire' = [wire EXCEPT ![c] = @ \o sending[c]]
  /\ sending' = [sending EXCEPT ![c] = <<>>]
  /\ UNCHANGED <<user, typed, keys, shown, conn, writer, outbox, appVars>>

\* The write fails, or the outbox is dropped and delivered.
WriterEnds(c) ==
  /\ Working(c)
  /\ \/ sending[c] # <<>> /\ ~Connected(c)
     \/ sending[c] = <<>> /\ outbox[c] = <<>> /\ ~Held(c)
  /\ writer' = [writer EXCEPT ![c] = "Ended"]
  /\ sending' = [sending EXCEPT ![c] = <<>>]
  /\ outbox' = [outbox EXCEPT ![c] = <<>>]
  /\ UNCHANGED <<userVars, conn, appVars>>

ConnStep(c) == ReadHello(c) \/ CloseConn(c)

WriterStep(c) == WriterTakes(c) \/ WriterWrites(c) \/ WriterEnds(c)

-----------------------------------------------------------------------------
(* The App's turns *)

\* try_send: what does not fit, or has no reader, is dropped.
Queue(box, c, m) ==
  IF writer[c] = "Running" /\ Len(box[c]) < OutputQueueSize
  THEN [box EXCEPT ![c] = Append(@, m)] ELSE box

\* Mutant: the client is dropped without a goodbye.
DropSilently == UNCHANGED <<outbox, goodbyes>>

\* detach says goodbye to the attached client.
SayGoodbye ==
  IF client = NoClient THEN UNCHANGED <<outbox, goodbyes>>
  ELSE /\ outbox' = Queue(outbox, client, [kind |-> "Detached"])
       /\ goodbyes' = goodbyes \cup {client}

\* Mutant: clients that attached as the App quit are dropped.
LeaveUndrained ==
  /\ phase' = "Flushing"
  /\ client' = NoClient /\ attaching' = <<>>
  /\ IF client = NoClient THEN UNCHANGED <<outbox, goodbyes>>
     ELSE /\ outbox' = Queue(outbox, client, [kind |-> "Exited"])
          /\ goodbyes' = goodbyes \cup {client}

\* The loop ends: the attached client, and those about to be, are told.
Leave ==
  /\ phase' = "Flushing"
  /\ client' = NoClient /\ attaching' = <<>>
  /\ goodbyes' = goodbyes \cup {c \in Clients : Held(c)}
  /\ outbox' = [c \in Clients |-> IF Held(c) THEN Queue(outbox, c, [kind |-> "Exited"])[c]
                                  ELSE outbox[c]]

Stay == UNCHANGED <<phase, client, attaching, goodbyes, outbox>>

\* begin_quit: at once when everything has stopped, else when it has.
BeginQuit ==
  IF stopped = Tabs THEN Leave /\ UNCHANGED quitting
  ELSE quitting' = TRUE /\ Stay

HandleAttach ==
  /\ phase = "Running"
  /\ attaching # <<>>
  /\ SayGoodbye
  /\ client' = Head(attaching)
  /\ attaching' = Tail(attaching)
  /\ dirty' = TRUE
  /\ UNCHANGED <<userVars, conn, writer, sending, drawn, selected, output, stopped, quitting, phase>>

\* SIGTERM, SIGHUP, or the Quit of `mtack down`.
HandleQuit ==
  /\ phase = "Running"
  /\ BeginQuit
  /\ dirty' = (dirty \/ stopped # Tabs)
  /\ UNCHANGED <<userVars, conn, writer, sending, drawn, selected, output, stopped>>

SelectTab(m) ==
  /\ m.kind = "SelectTab"
  /\ selected' = m.tab
  /\ Stay /\ UNCHANGED <<drawn, quitting>>

\* Client::resize clears the screen.
Resize(m) ==
  /\ m.kind = "Resize"
  /\ drawn' = [drawn EXCEPT ![client] = Blank]
  /\ Stay /\ UNCHANGED <<selected, quitting>>

Detach(m) ==
  /\ m.kind = "Detach" /\ ~quitting
  /\ SayGoodbye
  /\ client' = NoClient
  /\ UNCHANGED <<drawn, attaching, selected, quitting, phase>>

ForceQuit(m) ==
  /\ m.kind = "ForceQuit"
  /\ IF quitting THEN Leave /\ UNCHANGED quitting ELSE BeginQuit
  /\ UNCHANGED <<drawn, selected>>

\* While quitting, no other key does anything.
Ignore(m) ==
  /\ m.kind = "Detach" /\ quitting
  /\ Stay /\ UNCHANGED <<drawn, selected, quitting>>

HandleClientMsg ==
  /\ phase = "Running"
  /\ client # NoClient /\ typed[client] # <<>>
  /\ typed' = [typed EXCEPT ![client] = Tail(@)]
  /\ LET m == Head(typed[client]) IN
       SelectTab(m) \/ Resize(m) \/ Detach(m) \/ ForceQuit(m) \/ Ignore(m)
  /\ dirty' = TRUE
  /\ UNCHANGED <<user, keys, shown, wire, conn, writer, sending, output, stopped>>

\* The client's messages end, and with them the client.
DropClient ==
  /\ phase = "Running"
  /\ client # NoClient /\ conn[client] = "Closed" /\ typed[client] = <<>>
  /\ client' = NoClient
  /\ UNCHANGED <<userVars, taskVars, drawn, attaching, goodbyes, dirty, selected, output, stopped,
                 quitting, phase>>

\* Mutants: a frame may take the goodbye's place; a frame is rendered with no
\* room to queue it; a frame that cannot be drawn is forgotten.
DrawIfRoom ==
  /\ phase = "Running"
  /\ dirty /\ client # NoClient /\ writer[client] = "Running"
  /\ Len(outbox[client]) < OutputQueueSize
  /\ outbox' = Queue(outbox, client, [kind |-> "Output", from |-> drawn[client], to |-> View])
  /\ drawn' = [drawn EXCEPT ![client] = View]
  /\ dirty' = FALSE
  /\ UNCHANGED <<userVars, conn, writer, sending, attaching, client, goodbyes, selected, output,
                 stopped, quitting, phase>>

DrawAndDrop ==
  /\ phase = "Running"
  /\ dirty /\ client # NoClient /\ writer[client] = "Running"
  /\ IF outbox[client] = <<>>
     THEN outbox' = Queue(outbox, client, [kind |-> "Output", from |-> drawn[client], to |-> View])
     ELSE UNCHANGED outbox
  /\ drawn' = [drawn EXCEPT ![client] = View]
  /\ dirty' = FALSE
  /\ UNCHANGED <<userVars, conn, writer, sending, attaching, client, goodbyes, selected, output,
                 stopped, quitting, phase>>

DrawOrForget ==
  /\ phase = "Running"
  /\ dirty /\ client # NoClient /\ writer[client] = "Running"
  /\ IF outbox[client] = <<>>
     THEN /\ outbox' = Queue(outbox, client, [kind |-> "Output", from |-> drawn[client], to |-> View])
          /\ drawn' = [drawn EXCEPT ![client] = View]
     ELSE UNCHANGED <<outbox, drawn>>
  /\ dirty' = FALSE
  /\ UNCHANGED <<userVars, conn, writer, sending, attaching, client, goodbyes, selected, output,
                 stopped, quitting, phase>>

\* Drawn::Sent.  While a frame waits (Drawn::Busy), nothing is rendered.
DrawSent ==
  /\ phase = "Running"
  /\ dirty /\ client # NoClient /\ writer[client] = "Running"
  /\ outbox[client] = <<>>
  /\ outbox' = Queue(outbox, client, [kind |-> "Output", from |-> drawn[client], to |-> View])
  /\ drawn' = [drawn EXCEPT ![client] = View]
  /\ dirty' = FALSE
  /\ UNCHANGED <<userVars, conn, writer, sending, attaching, client, goodbyes, selected, output,
                 stopped, quitting, phase>>

\* Drawn::Disconnected: the writer is gone, and the client with it.
DrawDisconnected ==
  /\ phase = "Running"
  /\ dirty /\ client # NoClient /\ writer[client] = "Ended"
  /\ client' = NoClient
  /\ UNCHANGED <<userVars, taskVars, drawn, attaching, goodbyes, dirty, selected, output, stopped,
                 quitting, phase>>

HandleOutput(t) ==
  /\ phase = "Running"
  /\ t \notin stopped /\ output[t] < MaxOutput
  /\ output' = [output EXCEPT ![t] = @ + 1]
  /\ dirty' = (dirty \/ t = selected)
  /\ UNCHANGED <<userVars, taskVars, drawn, attaching, client, goodbyes, selected, stopped, quitting,
                 phase>>

\* Mutant: only the exit of the selected process is shown.
ExitUnseen(t) ==
  /\ phase = "Running"
  /\ t \notin stopped
  /\ stopped' = stopped \cup {t}
  /\ IF quitting /\ stopped' = Tabs THEN Leave ELSE Stay
  /\ dirty' = (dirty \/ t = selected)
  /\ UNCHANGED <<userVars, conn, writer, sending, drawn, selected, output, quitting>>

HandleExit(t) ==
  /\ phase = "Running"
  /\ t \notin stopped
  /\ stopped' = stopped \cup {t}
  /\ IF quitting /\ stopped' = Tabs THEN Leave ELSE Stay
  /\ dirty' = TRUE
  /\ UNCHANGED <<userVars, conn, writer, sending, drawn, selected, output, quitting>>

Draw == DrawSent \/ DrawDisconnected

-----------------------------------------------------------------------------
(* flush_goodbyes *)

\* The writers that flush_goodbyes waits for.
Waiting == {c \in goodbyes : writer[c] # "Ended"}

Flushed ==
  /\ phase = "Flushing"
  /\ Waiting = {}
  /\ phase' = "Returned"
  /\ UNCHANGED <<userVars, taskVars, drawn, attaching, client, goodbyes, dirty, selected, output,
                 stopped, quitting>>

\* Mutant: the server waits for as long as it takes.
NeverTimesOut == FALSE /\ UNCHANGED vars

\* Time runs out on clients that do not read, after those that do.
FlushTimesOut ==
  /\ phase = "Flushing"
  /\ Waiting # {}
  /\ \A c \in Waiting : user[c] = "Stalled"
  /\ writer' = [c \in Clients |-> IF c \in goodbyes THEN "Ended" ELSE writer[c]]
  /\ phase' = "Returned"
  /\ UNCHANGED <<userVars, conn, sending, outbox, drawn, attaching, client, goodbyes, dirty, selected,
                 output, stopped, quitting>>

-----------------------------------------------------------------------------
(* Specification *)

Init ==
  /\ user = [c \in Clients |-> "Away"]
  /\ typed = [c \in Clients |-> <<>>]
  /\ keys = [c \in Clients |-> 0]
  /\ shown = [c \in Clients |-> Blank]
  /\ wire = [c \in Clients |-> <<>>]
  /\ conn = [c \in Clients |-> "None"]
  /\ writer = [c \in Clients |-> "None"]
  /\ sending = [c \in Clients |-> <<>>]
  /\ outbox = [c \in Clients |-> <<>>]
  /\ drawn = [c \in Clients |-> Blank]
  /\ attaching = <<>>
  /\ client = NoClient
  /\ goodbyes = {}
  /\ dirty = TRUE
  /\ selected \in Tabs
  /\ output = [t \in Tabs |-> 0]
  /\ stopped = {}
  /\ quitting = FALSE
  /\ phase = "Running"

Turn ==
  \/ HandleAttach
  \/ HandleQuit
  \/ HandleClientMsg
  \/ DropClient
  \/ Draw
  \/ \E t \in Tabs : HandleOutput(t) \/ HandleExit(t)
  \/ Flushed
  \/ FlushTimesOut

ClientStep(c) ==
  \/ Connect(c)
  \/ \E m \in ClientMsgs : Type(c, m)
  \/ Read(c)
  \/ Stall(c)
  \/ HangUp(c)

Next == Turn \/ \E c \in Clients : ClientStep(c) \/ ConnStep(c) \/ WriterStep(c)

Fairness ==
  /\ WF_vars(HandleAttach)
  /\ WF_vars(HandleClientMsg)
  /\ WF_vars(DropClient)
  /\ WF_vars(Draw)
  /\ WF_vars(Flushed)
  /\ WF_vars(FlushTimesOut)
  /\ \A c \in Clients : WF_vars(Read(c)) /\ WF_vars(ConnStep(c)) /\ WF_vars(WriterStep(c))

Spec == Init /\ [][Next]_vars /\ Fairness

-----------------------------------------------------------------------------
(* Properties *)

Users == {"Away", "Attached", "Stalled", "HungUp", "Detached", "Exited", "Lost"}

\* Every variable holds a value of its type, and the queues their sizes.
TypeOK ==
  /\ user \in [Clients -> Users]
  /\ typed \in [Clients -> Seq(ClientMsgs)]
  /\ keys \in [Clients -> 0..MaxKeys]
  /\ shown \in [Clients -> Views \cup {Blank}]
  /\ wire \in [Clients -> Seq(ServerMsgs)]
  /\ \A c \in Clients : Len(wire[c]) <= WireSize /\ Len(sending[c]) <= 1 /\ Len(outbox[c]) <= OutputQueueSize
  /\ conn \in [Clients -> {"None", "Hello", "Open", "Late", "Closed"}]
  /\ writer \in [Clients -> {"None", "Running", "Ended"}]
  /\ sending \in [Clients -> Seq(ServerMsgs)]
  /\ outbox \in [Clients -> Seq(ServerMsgs)]
  /\ drawn \in [Clients -> Views \cup {Blank}]
  /\ attaching \in Seq(Clients)
  /\ client \in Clients \cup {NoClient}
  /\ goodbyes \subseteq Clients
  /\ dirty \in BOOLEAN
  /\ selected \in Tabs
  /\ output \in [Tabs -> 0..MaxOutput]
  /\ stopped \subseteq Tabs
  /\ quitting \in BOOLEAN
  /\ phase \in {"Running", "Flushing", "Returned"}

\* A client that is attached, or about to be, has room for a goodbye in its
\* outbox, whatever is on its way (OUTPUT_QUEUE_SIZE).
GoodbyeFits == \A c \in Clients : Held(c) => Len(outbox[c]) < OutputQueueSize

InFlight(c) == wire[c] \o sending[c] \o outbox[c]

\* Every frame is a diff against what the client shows once it has read the
\* ones before it, and a goodbye is the last message: frames are never lost,
\* reordered, or based on one that was not sent (Client::draw).
FramesCompose ==
  \A c \in Clients : Connected(c) =>
    LET sent == InFlight(c) IN
      \A i \in DOMAIN sent :
        /\ sent[i].kind = "Output" =>
             \/ sent[i].from = Blank
             \/ sent[i].from = IF i = 1 THEN shown[c] ELSE sent[i - 1].to
        /\ sent[i].kind # "Output" => i = Len(sent)

\* While nothing is to be drawn, what was drawn last is what there is to see
\* (App::dirty, and needs_render in App::run).
NothingUndrawn == phase = "Running" /\ client # NoClient /\ ~dirty => drawn[client] = View

\* A client whose Attach reached the App is told how it ended: it never finds
\* the connection closed without a word (the drain and the flush in App::run).
AttachedIsNeverLost == \A c \in Clients : user[c] = "Lost" => conn[c] \in {"Hello", "Late"}

\* A connection that closes without a goodbye means that the server died, as
\* protocol.rs says of Exited; here no server dies.  It does not hold: see the
\* README.
LostMeansDied == \A c \in Clients : user[c] # "Lost"

\* A client that is attached and reads comes to show what there is to see, and
\* shows it as long as nothing changes (Client::draw).
ClientCatchesUp ==
  \A c \in Clients : <>[](client = c /\ user[c] = "Attached" => shown[c] = View)

\* A client that attached and was let go of, and that reads, gets its goodbye
\* (Client::detach, Client::exit).
GoodbyeArrives ==
  \A c \in Clients :
    conn[c] \in {"Open", "Closed"} /\ ~Held(c) /\ user[c] = "Attached"
      ~> user[c] \in {"Detached", "Exited", "HungUp", "Stalled"}

\* A client that does not read delays the end, and does not prevent it.
FlushEnds == phase = "Flushing" ~> phase = "Returned"

=============================================================================
