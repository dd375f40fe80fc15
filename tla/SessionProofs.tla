--------------------------- MODULE SessionProofs ---------------------------
(***************************************************************************)
(* Proofs about the sessions of clients, for any clients, tabs, outbox and *)
(* connection: a goodbye always fits, a client that attached is never lost *)
(* without a word, and nothing is left undrawn.                            *)
(***************************************************************************)
EXTENDS Session, SequenceTheorems, TLAPS

-----------------------------------------------------------------------------
(* Types *)

LEMMA ViewType ==
  ASSUME TypeOK
  PROVE  View \in Views
BY DEF TypeOK, View, Views

LEMMA MsgTypes ==
  /\ \A k \in {"Detached", "Exited"} : [kind |-> k] \in ServerMsgs
  /\ \A from \in Views \cup {Blank}, to \in Views :
       [kind |-> "Output", from |-> from, to |-> to] \in ServerMsgs
BY DEF ServerMsgs, Goodbyes, Frames

\* try_send, as far as types go.
LEMMA QueueType ==
  ASSUME TypeOK, NEW c \in Clients, NEW m \in ServerMsgs
  PROVE  /\ Queue(outbox, c, m) \in [Clients -> Seq(ServerMsgs)]
         /\ \A d \in Clients : Len(Queue(outbox, c, m)[d]) <= OutputQueueSize
         /\ \A d \in Clients \ {c} : Queue(outbox, c, m)[d] = outbox[d]
         /\ Queue(outbox, c, m)[c] = IF writer[c] = "Running" /\ Len(outbox[c]) < OutputQueueSize
                                     THEN Append(outbox[c], m) ELSE outbox[c]
<1>1. /\ outbox \in [Clients -> Seq(ServerMsgs)]
      /\ \A d \in Clients : Len(outbox[d]) <= OutputQueueSize /\ Len(outbox[d]) \in Nat
  BY DEF TypeOK
<1>2. CASE ~(writer[c] = "Running" /\ Len(outbox[c]) < OutputQueueSize)
  BY <1>1, <1>2 DEF Queue
<1>3. CASE writer[c] = "Running" /\ Len(outbox[c]) < OutputQueueSize
  <2>1. Queue(outbox, c, m) = [outbox EXCEPT ![c] = Append(outbox[c], m)]
    BY <1>3 DEF Queue
  <2>2. /\ Append(outbox[c], m) \in Seq(ServerMsgs)
        /\ Len(Append(outbox[c], m)) = Len(outbox[c]) + 1
    BY <1>1, AppendProperties
  <2>3. OutputQueueSize \in Nat
    BY SessionAssumption
  <2>4. Len(Append(outbox[c], m)) <= OutputQueueSize
    BY <1>1, <1>3, <2>2, <2>3
  <2> HIDE DEF Queue
  <2> QED
    BY <1>1, <1>3, <2>1, <2>2, <2>4
<1> QED
  BY <1>2, <1>3

LEMMA SayGoodbyeType ==
  ASSUME TypeOK, SayGoodbye
  PROVE  /\ outbox' \in [Clients -> Seq(ServerMsgs)]
         /\ \A d \in Clients : Len(outbox'[d]) <= OutputQueueSize
         /\ goodbyes' \subseteq Clients
<1>1. CASE client = NoClient
  BY <1>1 DEF SayGoodbye, TypeOK
<1>2. CASE client # NoClient
  <2>1. client \in Clients /\ goodbyes \subseteq Clients
    BY <1>2 DEF TypeOK
  <2>2. outbox' = Queue(outbox, client, [kind |-> "Detached"]) /\ goodbyes' = goodbyes \cup {client}
    BY <1>2 DEF SayGoodbye
  <2> QED
    BY <2>1, <2>2, QueueType, MsgTypes
<1> QED
  BY <1>1, <1>2

LEMMA LeaveType ==
  ASSUME TypeOK, Leave
  PROVE  /\ outbox' \in [Clients -> Seq(ServerMsgs)]
         /\ \A d \in Clients : Len(outbox'[d]) <= OutputQueueSize
         /\ goodbyes' \subseteq Clients
         /\ phase' \in {"Running", "Flushing", "Returned"}
         /\ client' \in Clients \cup {NoClient}
         /\ attaching' \in Seq(Clients)
<1>1. /\ phase' = "Flushing" /\ client' = NoClient /\ attaching' = <<>>
      /\ goodbyes' = goodbyes \cup {c \in Clients : Held(c)}
      /\ outbox' = [c \in Clients |-> IF Held(c) THEN Queue(outbox, c, [kind |-> "Exited"])[c]
                                      ELSE outbox[c]]
  BY DEF Leave
<1>2. [kind |-> "Exited"] \in ServerMsgs
  BY MsgTypes
<1>3. \A c \in Clients : /\ Queue(outbox, c, [kind |-> "Exited"])[c] \in Seq(ServerMsgs)
                         /\ Len(Queue(outbox, c, [kind |-> "Exited"])[c]) <= OutputQueueSize
  BY <1>2, QueueType
<1>4. \A c \in Clients : outbox[c] \in Seq(ServerMsgs) /\ Len(outbox[c]) <= OutputQueueSize
  BY DEF TypeOK
<1>5. goodbyes' \subseteq Clients
  BY <1>1 DEF TypeOK
<1> QED
  BY <1>1, <1>3, <1>4, <1>5

LEMMA StayType ==
  ASSUME TypeOK, Stay
  PROVE  /\ outbox' \in [Clients -> Seq(ServerMsgs)]
         /\ \A d \in Clients : Len(outbox'[d]) <= OutputQueueSize
         /\ goodbyes' \subseteq Clients
         /\ phase' \in {"Running", "Flushing", "Returned"}
         /\ client' \in Clients \cup {NoClient}
         /\ attaching' \in Seq(Clients)
BY DEF TypeOK, Stay

LEMMA ClientTypes ==
  ASSUME TypeOK, NEW c \in Clients, ClientStep(c)
  PROVE  TypeOK'
<1>1. CASE Connect(c)
  BY <1>1 DEF Connect, TypeOK, Users, appVars
<1>2. ASSUME NEW m \in ClientMsgs, Type(c, m)
      PROVE  TypeOK'
  <2>1. /\ typed' = [typed EXCEPT ![c] = Append(typed[c], m)]
        /\ keys' = [keys EXCEPT ![c] = keys[c] + 1] /\ keys[c] < MaxKeys
        /\ UNCHANGED <<user, shown, wire, taskVars, appVars>>
    BY <1>2 DEF Type
  <2>2. Append(typed[c], m) \in Seq(ClientMsgs)
    BY DEF TypeOK
  <2>3. typed' \in [Clients -> Seq(ClientMsgs)]
    BY <2>1, <2>2 DEF TypeOK
  <2>4. keys[c] + 1 \in 0..MaxKeys
    <3>1. keys[c] \in 0..MaxKeys
      BY DEF TypeOK
    <3>2. keys[c] < MaxKeys /\ MaxKeys \in Nat
      BY <2>1, SessionAssumption
    <3> QED
      BY ONLY <3>1, <3>2
  <2>5. keys' \in [Clients -> 0..MaxKeys]
    BY <2>1, <2>4 DEF TypeOK
  <2> QED
    BY <2>1, <2>3, <2>5 DEF TypeOK, taskVars, appVars
<1>3. CASE ReadFrame(c)
  <2>1. /\ wire[c] # <<>> /\ Head(wire[c]).kind = "Output"
        /\ shown' = [shown EXCEPT ![c] = Head(wire[c]).to]
        /\ wire' = [wire EXCEPT ![c] = Tail(wire[c])]
        /\ UNCHANGED <<user, typed, keys, taskVars, appVars>>
    BY <1>3 DEF ReadFrame
  <2>2. /\ Head(wire[c]) \in ServerMsgs /\ Tail(wire[c]) \in Seq(ServerMsgs)
        /\ Len(Tail(wire[c])) = Len(wire[c]) - 1
    BY <2>1, HeadTailProperties DEF TypeOK
  <2>3. Head(wire[c]).to \in Views
    BY <2>1, <2>2 DEF ServerMsgs, Frames, Goodbyes
  <2>4. shown' \in [Clients -> Views \cup {Blank}]
    BY <2>1, <2>3 DEF TypeOK
  <2>5. wire' \in [Clients -> Seq(ServerMsgs)]
    BY <2>1, <2>2 DEF TypeOK
  <2>6. WireSize \in Nat /\ \A d \in Clients : Len(wire[d]) \in Nat /\ Len(wire[d]) <= WireSize
    BY SessionAssumption DEF TypeOK
  <2>7. \A d \in Clients : Len(wire'[d]) <= WireSize
    BY <2>1, <2>2, <2>6 DEF TypeOK
  <2> QED
    BY <2>1, <2>4, <2>5, <2>7 DEF TypeOK, taskVars, appVars
<1>4. ASSUME NEW how \in Users, ClientEnds(c, how)
      PROVE  TypeOK'
  <2>1. <<>> \in Seq(ServerMsgs) /\ Len(<<>>) = 0 /\ 0 <= WireSize
    BY SessionAssumption
  <2> QED
    BY <1>4, <2>1 DEF ClientEnds, TypeOK, taskVars, appVars
<1>5. CASE ReadGoodbye(c)
  <2>1. Head(wire[c]) \in ServerMsgs /\ Head(wire[c]).kind # "Output"
    BY <1>5, HeadTailProperties DEF ReadGoodbye, TypeOK
  <2>2. Head(wire[c]).kind \in Users
    BY <2>1 DEF ServerMsgs, Frames, Goodbyes, Users
  <2> QED
    BY <1>4, <1>5, <2>2 DEF ReadGoodbye
<1>6. CASE ReadEof(c)
  BY <1>4, <1>6 DEF ReadEof, Users
<1>7. CASE Stall(c)
  BY <1>7 DEF Stall, TypeOK, Users, taskVars, appVars
<1>8. CASE HangUp(c)
  BY <1>4, <1>8 DEF HangUp, Users
<1> QED
  BY <1>1, <1>2, <1>3, <1>5, <1>6, <1>7, <1>8 DEF ClientStep, Read

LEMMA TaskTypes ==
  ASSUME TypeOK, NEW c \in Clients, ConnStep(c) \/ WriterStep(c)
  PROVE  TypeOK'
<1>1. CASE ReadHello(c)
  <2>1. writer' \in [Clients -> {"None", "Running", "Ended"}]
    BY <1>1 DEF ReadHello, TypeOK
  <2>2. conn' \in [Clients -> {"None", "Hello", "Open", "Late", "Closed"}]
    BY <1>1 DEF ReadHello, TypeOK
  <2>3. attaching' \in Seq(Clients)
    <3>1. attaching' = attaching \/ attaching' = Append(attaching, c)
      BY <1>1 DEF ReadHello
    <3>2. attaching \in Seq(Clients)
      BY DEF TypeOK
    <3> QED
      BY <3>1, <3>2, AppendProperties
  <2>4. outbox' = outbox \/ outbox' = [outbox EXCEPT ![c] = <<[kind |-> "Exited"]>>]
    BY <1>1 DEF ReadHello
  <2>5. /\ <<[kind |-> "Exited"]>> \in Seq(ServerMsgs) /\ Len(<<[kind |-> "Exited"]>>) = 1
        /\ 1 <= OutputQueueSize
    BY MsgTypes, SessionAssumption
  <2>6. /\ outbox' \in [Clients -> Seq(ServerMsgs)]
        /\ \A d \in Clients : Len(outbox'[d]) <= OutputQueueSize
    BY ZenonT(40), <2>4, <2>5 DEF TypeOK
  <2>7. UNCHANGED <<userVars, sending, drawn, client, goodbyes, dirty, selected, output, stopped,
                    quitting, phase>>
    BY <1>1 DEF ReadHello
  <2> QED
    BY <2>1, <2>2, <2>3, <2>6, <2>7 DEF TypeOK, userVars
<1>2. CASE CloseConn(c)
  BY <1>2 DEF CloseConn, TypeOK, userVars, appVars
<1>3. CASE WriterTakes(c)
  <2>1. /\ outbox[c] # <<>>
        /\ sending' = [sending EXCEPT ![c] = <<Head(outbox[c])>>]
        /\ outbox' = [outbox EXCEPT ![c] = Tail(outbox[c])]
        /\ UNCHANGED <<userVars, conn, writer, appVars>>
    BY <1>3 DEF WriterTakes
  <2>2. /\ Head(outbox[c]) \in ServerMsgs /\ Tail(outbox[c]) \in Seq(ServerMsgs)
        /\ Len(Tail(outbox[c])) = Len(outbox[c]) - 1
    BY <2>1, HeadTailProperties DEF TypeOK
  <2>3. OutputQueueSize \in Nat /\ \A d \in Clients : Len(outbox[d]) \in Nat
    BY SessionAssumption DEF TypeOK
  <2>4. /\ outbox' \in [Clients -> Seq(ServerMsgs)]
        /\ \A d \in Clients : Len(outbox'[d]) <= OutputQueueSize
    BY <2>1, <2>2, <2>3 DEF TypeOK
  <2>5. <<Head(outbox[c])>> \in Seq(ServerMsgs) /\ Len(<<Head(outbox[c])>>) = 1
    BY <2>2
  <2>6. /\ sending' \in [Clients -> Seq(ServerMsgs)]
        /\ \A d \in Clients : Len(sending'[d]) <= 1
    BY <2>1, <2>5 DEF TypeOK
  <2> QED
    BY <2>1, <2>4, <2>6 DEF TypeOK, userVars, appVars
<1>4. CASE WriterWrites(c)
  <2>1. /\ Len(wire[c]) < WireSize
        /\ wire' = [wire EXCEPT ![c] = wire[c] \o sending[c]]
        /\ sending' = [sending EXCEPT ![c] = <<>>]
        /\ UNCHANGED <<user, typed, keys, shown, conn, writer, outbox, appVars>>
    BY <1>4 DEF WriterWrites
  <2>2. /\ wire[c] \o sending[c] \in Seq(ServerMsgs)
        /\ Len(wire[c] \o sending[c]) = Len(wire[c]) + Len(sending[c])
        /\ Len(wire[c]) \in Nat /\ Len(sending[c]) \in Nat /\ Len(sending[c]) <= 1
    BY ConcatProperties DEF TypeOK
  <2>3. Len(wire[c] \o sending[c]) <= WireSize
    <3> DEFINE a == Len(wire[c])
               b == Len(sending[c])
    <3>1. a \in Nat /\ b \in Nat /\ b <= 1 /\ a < WireSize /\ WireSize \in Nat
      BY <2>1, <2>2, SessionAssumption
    <3> HIDE DEF a, b
    <3>2. a + b <= WireSize
      BY <3>1
    <3> QED
      BY <2>2, <3>2 DEF a, b
  <2>4. /\ wire' \in [Clients -> Seq(ServerMsgs)]
        /\ \A d \in Clients : Len(wire'[d]) <= WireSize
    BY <2>1, <2>2, <2>3 DEF TypeOK
  <2>5. /\ sending' \in [Clients -> Seq(ServerMsgs)]
        /\ \A d \in Clients : Len(sending'[d]) <= 1
    BY <2>1 DEF TypeOK
  <2> QED
    BY <2>1, <2>4, <2>5 DEF TypeOK, appVars
<1>5. CASE WriterEnds(c)
  <2>1. 0 <= OutputQueueSize
    BY SessionAssumption
  <2> QED
    BY <1>5, <2>1 DEF WriterEnds, TypeOK, userVars, appVars
<1> QED
  BY <1>1, <1>2, <1>3, <1>4, <1>5 DEF ConnStep, WriterStep

\* What a turn does to queues and clients.
QueueTypes ==
  /\ outbox' \in [Clients -> Seq(ServerMsgs)]
  /\ \A d \in Clients : Len(outbox'[d]) <= OutputQueueSize
  /\ goodbyes' \subseteq Clients
  /\ phase' \in {"Running", "Flushing", "Returned"}
  /\ client' \in Clients \cup {NoClient}
  /\ attaching' \in Seq(Clients)

LEMMA TurnTypes ==
  ASSUME TypeOK, Turn
  PROVE  TypeOK'
<1>1. Leave => QueueTypes
  BY LeaveType DEF QueueTypes
<1>2. Stay => QueueTypes
  BY StayType DEF QueueTypes
<1>3. BeginQuit => QueueTypes /\ quitting' \in BOOLEAN
  BY <1>1, <1>2 DEF BeginQuit, TypeOK
<1>4. CASE HandleAttach
  <2>1. Head(attaching) \in Clients /\ Tail(attaching) \in Seq(Clients)
    BY <1>4, HeadTailProperties DEF HandleAttach, TypeOK
  <2>2. SayGoodbye
    BY <1>4 DEF HandleAttach
  <2>3. QueueTypes
    BY <1>4, <2>1, <2>2, SayGoodbyeType DEF HandleAttach, QueueTypes, TypeOK
  <2> QED
    BY <1>4, <2>3 DEF HandleAttach, QueueTypes, TypeOK, userVars
<1>5. CASE HandleQuit
  BY <1>3, <1>5 DEF HandleQuit, QueueTypes, TypeOK, userVars
<1>6. CASE HandleClientMsg
  <2> DEFINE m == Head(typed[client])
  <2>1. /\ client \in Clients /\ typed[client] # <<>>
        /\ typed' = [typed EXCEPT ![client] = Tail(typed[client])]
        /\ SelectTab(m) \/ Resize(m) \/ Detach(m) \/ ForceQuit(m) \/ Ignore(m)
        /\ dirty' = TRUE
        /\ UNCHANGED <<user, keys, shown, wire, conn, writer, sending, output, stopped>>
    BY <1>6 DEF HandleClientMsg, TypeOK
  <2>2. m \in ClientMsgs /\ Tail(typed[client]) \in Seq(ClientMsgs)
    BY <2>1, HeadTailProperties DEF TypeOK
  <2> HIDE DEF m
  <2>3. typed' \in [Clients -> Seq(ClientMsgs)]
    BY <2>1, <2>2 DEF TypeOK
  <2>4. /\ QueueTypes /\ quitting' \in BOOLEAN
        /\ selected' \in Tabs /\ drawn' \in [Clients -> Views \cup {Blank}]
    <3>1. CASE SelectTab(m)
      BY <1>2, <2>2, <3>1 DEF SelectTab, ClientMsgs, TypeOK
    <3>2. CASE Resize(m)
      BY <1>2, <2>1, <3>2 DEF Resize, TypeOK
    <3>3. CASE Detach(m)
      <4>1. SayGoodbye
        BY <3>3 DEF Detach
      <4> QED
        BY <3>3, <4>1, SayGoodbyeType DEF Detach, QueueTypes, TypeOK
    <3>4. CASE ForceQuit(m)
      BY <1>1, <1>3, <3>4 DEF ForceQuit, TypeOK
    <3>5. CASE Ignore(m)
      BY <1>2, <3>5 DEF Ignore, TypeOK
    <3> QED
      BY <2>1, <3>1, <3>2, <3>3, <3>4, <3>5
  <2> QED
    BY <2>1, <2>3, <2>4 DEF QueueTypes, TypeOK
<1>7. CASE DropClient \/ DrawDisconnected
  BY <1>7 DEF DropClient, DrawDisconnected, TypeOK, userVars, taskVars
<1>8. CASE DrawSent
  <2> DEFINE frame == [kind |-> "Output", from |-> drawn[client], to |-> View]
  <2>1. client \in Clients /\ View \in Views /\ drawn[client] \in Views \cup {Blank}
    BY <1>8, ViewType DEF DrawSent, TypeOK
  <2>2. frame \in ServerMsgs
    BY <2>1, MsgTypes
  <2>3. outbox' = Queue(outbox, client, frame) /\ drawn' = [drawn EXCEPT ![client] = View]
    BY <1>8 DEF DrawSent
  <2> HIDE DEF frame
  <2>4. /\ outbox' \in [Clients -> Seq(ServerMsgs)]
        /\ \A d \in Clients : Len(outbox'[d]) <= OutputQueueSize
    BY <2>1, <2>2, <2>3, QueueType
  <2>5. drawn' \in [Clients -> Views \cup {Blank}]
    BY <2>1, <2>3 DEF TypeOK
  <2> QED
    BY <1>8, <2>4, <2>5 DEF DrawSent, TypeOK, userVars
<1>9. ASSUME NEW t \in Tabs, HandleOutput(t)
      PROVE  TypeOK'
  <2>1. output[t] + 1 \in 0..MaxOutput
    BY <1>9, SessionAssumption DEF HandleOutput, TypeOK
  <2> QED
    BY <1>9, <2>1 DEF HandleOutput, TypeOK, userVars, taskVars
<1>10. ASSUME NEW t \in Tabs, HandleExit(t)
       PROVE  TypeOK'
  <2>1. QueueTypes
    BY <1>1, <1>2, <1>10 DEF HandleExit
  <2> QED
    BY <1>10, <2>1 DEF HandleExit, QueueTypes, TypeOK, userVars
<1>11. CASE Flushed
  BY <1>11 DEF Flushed, TypeOK, userVars, taskVars
<1>12. CASE FlushTimesOut
  BY <1>12 DEF FlushTimesOut, TypeOK, userVars
<1> QED
  BY <1>4, <1>5, <1>6, <1>7, <1>8, <1>9, <1>10, <1>11, <1>12 DEF Turn, Draw

LEMMA InitTypes == Init => TypeOK
<1>1. /\ 0 \in 0..MaxKeys /\ 0 \in 0..MaxOutput
      /\ 0 <= WireSize /\ 0 <= OutputQueueSize /\ 0 <= 1 /\ Len(<<>>) = 0
  BY SessionAssumption
<1> QED
  <2> SUFFICES ASSUME Init
               PROVE  TypeOK
    OBVIOUS
  <2>1. \A S : <<>> \in Seq(S)
    OBVIOUS
  <2>2. /\ keys \in [Clients -> 0..MaxKeys] /\ output \in [Tabs -> 0..MaxOutput]
        /\ user \in [Clients -> Users]
    BY <1>1 DEF Init, Users
  <2>3. \A c \in Clients : wire[c] = <<>> /\ sending[c] = <<>> /\ outbox[c] = <<>>
    BY DEF Init
  <2>4. \A c \in Clients : Len(wire[c]) = 0 /\ Len(sending[c]) = 0 /\ Len(outbox[c]) = 0
    BY <1>1, <2>3, Zenon
  <2>5. /\ typed \in [Clients -> Seq(ClientMsgs)] /\ wire \in [Clients -> Seq(ServerMsgs)]
        /\ sending \in [Clients -> Seq(ServerMsgs)] /\ outbox \in [Clients -> Seq(ServerMsgs)]
        /\ attaching \in Seq(Clients)
    BY <2>1 DEF Init
  <2>6. \A c \in Clients : Len(wire[c]) <= WireSize /\ Len(sending[c]) <= 1
                             /\ Len(outbox[c]) <= OutputQueueSize
    BY <1>1, <2>4, Zenon
  <2> QED
    BY <2>2, <2>5, <2>6 DEF Init, TypeOK

LEMMA NextTypes == TypeOK /\ [Next]_vars => TypeOK'
<1>1. TypeOK /\ UNCHANGED vars => TypeOK'
  BY DEF vars, userVars, taskVars, appVars, TypeOK
<1> QED
  BY <1>1, ClientTypes, TaskTypes, TurnTypes DEF Next

\* Every queue keeps its bounds and every variable its type, for any clients.
THEOREM TypeCorrect == Spec => []TypeOK
BY InitTypes, NextTypes, PTL DEF Spec

-----------------------------------------------------------------------------
(* What is drawn *)

\* Whatever happens to it, a client that is attached has been drawn, or will.
LEMMA DrawnStep ==
  ASSUME TypeOK, NothingUndrawn, [Next]_vars
  PROVE  NothingUndrawn'
<1>1. ASSUME UNCHANGED <<phase, client, dirty, drawn, selected, output, stopped, quitting>>
      PROVE  NothingUndrawn'
  BY <1>1 DEF NothingUndrawn, View
<1>2. CASE UNCHANGED vars
  BY <1>1, <1>2 DEF vars, appVars
<1>3. ASSUME NEW c \in Clients, ClientStep(c) \/ ConnStep(c) \/ WriterStep(c)
      PROVE  NothingUndrawn'
  <2>1. UNCHANGED <<phase, client, dirty, drawn, selected, output, stopped, quitting>>
    <3>1. CASE ClientStep(c)
      BY <3>1 DEF ClientStep, Connect, Type, Read, ReadFrame, ReadGoodbye, ReadEof, Stall, HangUp,
                  ClientEnds, appVars
    <3>2. CASE ConnStep(c) \/ WriterStep(c)
      BY <3>2 DEF ConnStep, ReadHello, CloseConn, WriterStep, WriterTakes, WriterWrites, WriterEnds,
                  appVars
    <3> QED
      BY <1>3, <3>1, <3>2
  <2> QED
    BY <1>1, <2>1
<1>4. CASE HandleAttach \/ HandleClientMsg
  BY <1>4 DEF HandleAttach, HandleClientMsg, NothingUndrawn
<1>5. CASE HandleQuit
  <2>1. CASE stopped = Tabs
    BY <1>5, <2>1 DEF HandleQuit, BeginQuit, Leave, NothingUndrawn
  <2>2. CASE stopped # Tabs
    BY <1>5, <2>2 DEF HandleQuit, NothingUndrawn, TypeOK
  <2> QED
    BY <2>1, <2>2
<1>6. CASE DropClient \/ DrawDisconnected
  BY <1>6 DEF DropClient, DrawDisconnected, NothingUndrawn
<1>7. CASE DrawSent
  <2>1. client \in Clients /\ drawn' = [drawn EXCEPT ![client] = View]
        /\ UNCHANGED <<client, selected, output, stopped, quitting>>
    BY <1>7 DEF DrawSent, TypeOK
  <2>2. drawn'[client] = View
    BY <2>1 DEF TypeOK
  <2>3. View' = View
    BY <2>1 DEF View
  <2> QED
    BY <2>1, <2>2, <2>3 DEF NothingUndrawn
<1>8. ASSUME NEW t \in Tabs, HandleOutput(t)
      PROVE  NothingUndrawn'
  <2>1. CASE t = selected
    BY <1>8, <2>1 DEF HandleOutput, NothingUndrawn, TypeOK
  <2>2. CASE t # selected
    <3>1. output'[selected] = output[selected]
      BY <1>8, <2>2 DEF HandleOutput, TypeOK
    <3>2. UNCHANGED <<phase, client, drawn, selected, stopped, quitting>> /\ (dirty => dirty')
      BY <1>8 DEF HandleOutput
    <3>3. View' = View
      BY <3>1, <3>2 DEF View
    <3> QED
      BY <3>2, <3>3 DEF NothingUndrawn
  <2> QED
    BY <2>1, <2>2
<1>9. ASSUME NEW t \in Tabs, HandleExit(t)
      PROVE  NothingUndrawn'
  BY <1>9 DEF HandleExit, NothingUndrawn
<1>10. CASE Flushed \/ FlushTimesOut
  BY <1>10 DEF Flushed, FlushTimesOut, NothingUndrawn
<1> QED
  BY <1>2, <1>3, <1>4, <1>5, <1>6, <1>7, <1>8, <1>9, <1>10 DEF Next, Turn, Draw

\* While nothing is to be drawn, the client was drawn what there is to see, for
\* any clients and tabs.
THEOREM AllIsDrawn == Spec => []NothingUndrawn
<1>1. Init => NothingUndrawn
  BY DEF Init, NothingUndrawn
<1> QED
  BY <1>1, InitTypes, NextTypes, DrawnStep, PTL DEF Spec

-----------------------------------------------------------------------------
(* What each client is owed *)

HasGoodbye(q) == \E i \in 1..Len(q) : q[i].kind # "Output"

Coming(c) == HasGoodbye(wire[c]) \/ HasGoodbye(sending[c]) \/ HasGoodbye(outbox[c])

\* How far a connection is.
Begun(c) ==
  /\ user[c] = "Away" <=> conn[c] = "None"
  /\ conn[c] \in {"None", "Hello"} => writer[c] = "None" /\ outbox[c] = <<>>
  /\ conn[c] \notin {"None", "Hello"} => writer[c] # "None"
  /\ conn[c] \in {"None", "Hello", "Late"} => ~Held(c)
  /\ conn[c] \in {"None", "Hello"} => c \notin goodbyes

\* Only frames are queued for a client that is held, and only when none waits.
Room(c) == Held(c) => Len(outbox[c]) <= 1

\* A client that reads is held, or its goodbye comes.
Told(c) ==
  user[c] = "Attached" /\ conn[c] \in {"Open", "Closed"} =>
    /\ conn[c] = "Closed" => ~Held(c)
    /\ Held(c) \/ (c \in goodbyes /\ Coming(c))
    /\ writer[c] = "Ended" => ~Held(c) /\ HasGoodbye(wire[c])
    /\ phase = "Returned" => writer[c] = "Ended"

\* One that is lost came too late.
Late(c) == user[c] = "Lost" => conn[c] = "Late" \/ (conn[c] = "Hello" /\ phase = "Returned")

Served(c) == Begun(c) /\ Room(c) /\ Told(c) /\ Late(c)

Over == phase # "Running" => client = NoClient /\ attaching = <<>>

\* A client is held once.
Distinct ==
  /\ \A i, j \in 1..Len(attaching) : attaching[i] = attaching[j] => i = j
  /\ \A i \in 1..Len(attaching) : attaching[i] # client

Sessions == Over /\ Distinct /\ \A c \in Clients : Served(c)

SInv == TypeOK /\ Sessions

-----------------------------------------------------------------------------
(* What a step does to one client *)

LEMMA HeldIs ==
  ASSUME TypeOK, NEW c \in Clients
  PROVE  Held(c) <=> client = c \/ \E i \in 1..Len(attaching) : attaching[i] = c
<1>1. DOMAIN attaching = 1..Len(attaching)
  BY DEF TypeOK
<1> QED
  BY <1>1 DEF Held

\* A client that a step leaves alone.
LEMMA Untouched ==
  ASSUME NEW c \in Clients, Served(c),
         user'[c] = user[c], conn'[c] = conn[c], writer'[c] = writer[c],
         outbox'[c] = outbox[c], sending'[c] = sending[c], wire'[c] = wire[c],
         Held(c)' <=> Held(c), c \in goodbyes <=> c \in goodbyes', phase' = phase
  PROVE  Served(c)'
<1>1. Coming(c)' <=> Coming(c)
  BY DEF Coming, HasGoodbye
<1>2. HasGoodbye(wire[c])' <=> HasGoodbye(wire[c])
  BY DEF HasGoodbye
<1> QED
  BY <1>1, <1>2 DEF Served, Begun, Room, Told, Late

\* A client that has ended or does not read is owed nothing.
LEMMA Ended ==
  ASSUME NEW c \in Clients, Served(c),
         user[c] # "Away", user'[c] \notin {"Away", "Attached", "Lost"},
         conn'[c] = conn[c], writer'[c] = writer[c], outbox'[c] = outbox[c], Held(c)' <=> Held(c),
         c \in goodbyes <=> c \in goodbyes'
  PROVE  Served(c)'
BY DEF Served, Begun, Room, Told, Late

\* A goodbye to a client that is held gets into its outbox.
LEMMA GoodbyeQueued ==
  ASSUME SInv, NEW c \in Clients, Held(c), user[c] = "Attached", NEW k \in {"Detached", "Exited"}
  PROVE  HasGoodbye(Queue(outbox, c, [kind |-> k])[c])
<1>1. conn[c] \in {"Open", "Closed"} /\ writer[c] = "Running" /\ Len(outbox[c]) <= 1
  BY DEF SInv, Sessions, Served, Begun, Room, Told, TypeOK
<1>2. outbox[c] \in Seq(ServerMsgs) /\ Len(outbox[c]) \in Nat
  BY DEF SInv, TypeOK
<1>3. Len(outbox[c]) < OutputQueueSize
  BY <1>1, <1>2, SessionAssumption
<1>4. Queue(outbox, c, [kind |-> k])[c] = Append(outbox[c], [kind |-> k])
  BY <1>1, <1>3, QueueType, MsgTypes DEF SInv
<1> DEFINE q == Append(outbox[c], [kind |-> k])
<1>5. Len(q) \in 1..Len(q) /\ q[Len(q)] = [kind |-> k]
  BY <1>2, AppendProperties, MsgTypes
<1>6. [kind |-> k].kind # "Output"
  OBVIOUS
<1> HIDE DEF q
<1>7. HasGoodbye(q)
  BY <1>5, <1>6 DEF HasGoodbye
<1> QED
  BY <1>4, <1>7 DEF q

\* A client that is let go of with a goodbye.
LEMMA LetGo ==
  ASSUME SInv, NEW c \in Clients, Held(c), ~Held(c)', NEW k \in {"Detached", "Exited"},
         outbox'[c] = Queue(outbox, c, [kind |-> k])[c], c \in goodbyes',
         user'[c] = user[c], conn'[c] = conn[c], writer'[c] = writer[c],
         phase' # "Returned"
  PROVE  Served(c)'
<1>1. Served(c)
  BY DEF SInv, Sessions
<1>2. conn[c] \notin {"None", "Hello", "Late"}
  BY <1>1 DEF Served, Begun
<1>3. user[c] = "Attached" => Coming(c)'
  BY GoodbyeQueued DEF Coming, HasGoodbye
<1>4. user[c] = "Attached" /\ conn[c] \in {"Open", "Closed"} => writer[c] # "Ended"
  BY <1>1 DEF Served, Told
<1> QED
  BY <1>1, <1>2, <1>3, <1>4 DEF Served, Begun, Room, Told, Late

-----------------------------------------------------------------------------
(* Steps of a client and its tasks *)

\* A step about client c leaves the App and the other clients alone.
LEMMA OneClient ==
  ASSUME SInv, NEW c \in Clients, UNCHANGED <<phase, client, attaching, goodbyes>>,
         \A d \in Clients \ {c} :
           /\ user'[d] = user[d] /\ conn'[d] = conn[d] /\ writer'[d] = writer[d]
           /\ outbox'[d] = outbox[d] /\ sending'[d] = sending[d] /\ wire'[d] = wire[d],
         Served(c)'
  PROVE  Sessions'
<1>1. \A d : Held(d)' <=> Held(d)
  BY DEF Held
<1>2. ASSUME NEW d \in Clients \ {c}
      PROVE  Served(d)'
  <2>1. Served(d)
    BY DEF SInv, Sessions
  <2> QED
    BY <1>1, <2>1, Untouched
<1>3. Over' /\ Distinct'
  BY DEF SInv, Sessions, Over, Distinct
<1> QED
  BY <1>2, <1>3 DEF Sessions

LEMMA ClientSessions ==
  ASSUME SInv, NEW c \in Clients, ClientStep(c)
  PROVE  Sessions'
<1>1. /\ UNCHANGED <<phase, client, attaching, goodbyes, writer, outbox, sending>>
      /\ \A d \in Clients \ {c} : user'[d] = user[d] /\ conn'[d] = conn[d] /\ wire'[d] = wire[d]
  <2>1. CASE Connect(c)
    BY <2>1 DEF Connect, SInv, TypeOK, appVars
  <2>2. CASE Stall(c) \/ \E m \in ClientMsgs : Type(c, m)
    BY <2>2 DEF Stall, Type, SInv, TypeOK, taskVars, appVars
  <2>3. CASE ReadFrame(c)
    BY <2>3 DEF ReadFrame, SInv, TypeOK, taskVars, appVars
  <2>4. CASE ReadGoodbye(c) \/ ReadEof(c) \/ HangUp(c)
    BY <2>4 DEF ReadGoodbye, ReadEof, HangUp, ClientEnds, SInv, TypeOK, taskVars, appVars
  <2> QED
    BY <2>1, <2>2, <2>3, <2>4 DEF ClientStep, Read
<1>2. Held(c)' <=> Held(c)
  BY <1>1 DEF Held
<1>3. Served(c)
  BY DEF SInv, Sessions
<1>4. Served(c)'
  <2>1. CASE Connect(c)
    <3>1. user[c] = "Away" /\ user'[c] = "Attached" /\ conn'[c] = "Hello"
      BY <2>1 DEF Connect, SInv, TypeOK
    <3> QED
      BY <1>1, <1>2, <1>3, <3>1 DEF Served, Begun, Room, Told, Late
  <2>2. CASE \E m \in ClientMsgs : Type(c, m)
    <3>1. UNCHANGED <<user, conn, wire>>
      BY <2>2 DEF Type, taskVars
    <3> QED
      BY <1>1, <1>2, <1>3, <3>1, Untouched
  <2>3. CASE Stall(c) \/ HangUp(c)
    <3>1. user'[c] \in {"Stalled", "HungUp"} /\ conn' = conn /\ user[c] # "Away"
      BY <2>3 DEF Stall, HangUp, Connected, ClientEnds, SInv, TypeOK, taskVars
    <3> QED
      BY <1>1, <1>2, <1>3, <3>1, Ended
  <2>4. CASE ReadFrame(c)
    <3>1. /\ UNCHANGED <<user, conn>>
          /\ wire[c] # <<>> /\ Head(wire[c]).kind = "Output" /\ wire'[c] = Tail(wire[c])
          /\ wire[c] \in Seq(ServerMsgs)
      BY <2>4 DEF ReadFrame, SInv, TypeOK, taskVars
    <3>2. HasGoodbye(wire[c]) => HasGoodbye(Tail(wire[c]))
      <4> SUFFICES ASSUME NEW i \in 1..Len(wire[c]), wire[c][i].kind # "Output"
                   PROVE  \E j \in 1..Len(Tail(wire[c])) : Tail(wire[c])[j].kind # "Output"
        BY DEF HasGoodbye
      <4>1. /\ Len(Tail(wire[c])) = Len(wire[c]) - 1 /\ Len(wire[c]) \in Nat
            /\ Head(wire[c]) = wire[c][1]
            /\ \A j \in 1..Len(Tail(wire[c])) : Tail(wire[c])[j] = wire[c][j + 1]
        BY <3>1, HeadTailProperties
      <4>2. i # 1
        BY <3>1, <4>1
      <4>3. i - 1 \in 1..Len(Tail(wire[c])) /\ (i - 1) + 1 = i
        BY <4>1, <4>2
      <4>4. Tail(wire[c])[i - 1] = wire[c][i]
        BY <4>1, <4>3
      <4> QED
        BY <4>3, <4>4
    <3>3. HasGoodbye(wire[c]) => HasGoodbye(wire[c])'
      BY <3>1, <3>2 DEF HasGoodbye
    <3>4. Coming(c) => Coming(c)'
      BY <1>1, <3>3 DEF Coming, HasGoodbye
    <3> QED
      BY <1>1, <1>2, <1>3, <3>1, <3>3, <3>4 DEF Served, Begun, Room, Told, Late
  <2>5. CASE ReadGoodbye(c)
    <3>1. Head(wire[c]) \in ServerMsgs /\ Head(wire[c]).kind # "Output"
      BY <2>5, HeadTailProperties DEF ReadGoodbye, SInv, TypeOK
    <3>2. Head(wire[c]).kind \in {"Detached", "Exited"}
      BY <3>1 DEF ServerMsgs, Frames, Goodbyes
    <3>3. user'[c] \in {"Detached", "Exited"} /\ conn' = conn /\ user[c] # "Away"
      BY <2>5, <3>2 DEF ReadGoodbye, ClientEnds, SInv, TypeOK, taskVars
    <3> QED
      BY <1>1, <1>2, <1>3, <3>3, Ended
  <2>6. CASE ReadEof(c)
    <3>1. /\ user[c] = "Attached" /\ wire[c] = <<>>
          /\ writer[c] = "Ended" \/ phase = "Returned"
          /\ user'[c] = "Lost" /\ conn' = conn
          /\ conn[c] \in {"None", "Hello", "Open", "Late", "Closed"}
      BY <2>6 DEF ReadEof, ClientEnds, SInv, TypeOK, taskVars
    <3>2. ~HasGoodbye(wire[c])
      BY <3>1 DEF HasGoodbye
    <3>3. conn[c] \in {"None", "Hello", "Late"}
      BY <1>3, <3>1, <3>2 DEF Served, Told
    <3>4. conn[c] # "None" /\ (conn[c] = "Hello" => writer[c] = "None")
      BY <1>3, <3>1 DEF Served, Begun
    <3> QED
      BY <1>1, <1>2, <1>3, <3>1, <3>3, <3>4 DEF Served, Begun, Room, Told, Late
  <2> QED
    BY <2>1, <2>2, <2>3, <2>4, <2>5, <2>6 DEF ClientStep, Read
<1> QED
  BY <1>1, <1>4, OneClient

LEMMA GoodbyeGoes ==
  ASSUME NEW a \in Seq(ServerMsgs), NEW b \in Seq(ServerMsgs), HasGoodbye(a) \/ HasGoodbye(b)
  PROVE  HasGoodbye(a \o b)
<1>1. Len(a \o b) = Len(a) + Len(b) /\ Len(a) \in Nat /\ Len(b) \in Nat
  OBVIOUS
<1>2. CASE HasGoodbye(a)
  <2>1. PICK i \in 1..Len(a) : a[i].kind # "Output"
    BY <1>2 DEF HasGoodbye
  <2>2. i \in 1..Len(a \o b)
    BY <1>1
  <2>3. (a \o b)[i] = a[i]
    OBVIOUS
  <2> QED
    BY <2>1, <2>2, <2>3 DEF HasGoodbye
<1>3. CASE HasGoodbye(b)
  <2>1. PICK i \in 1..Len(b) : b[i].kind # "Output"
    BY <1>3 DEF HasGoodbye
  <2>2. Len(a) + i \in 1..Len(a \o b)
    BY <1>1
  <2>3. (a \o b)[Len(a) + i] = b[i]
    BY ConcatProperties
  <2> QED
    BY <2>1, <2>2, <2>3 DEF HasGoodbye
<1> QED
  BY <1>2, <1>3

LEMMA TaskSessions ==
  ASSUME SInv, NEW c \in Clients, ConnStep(c) \/ WriterStep(c)
  PROVE  Sessions'
<1>1. Served(c)
  BY DEF SInv, Sessions
<1>2. CASE ReadHello(c)
  <2>1. /\ conn[c] = "Hello" /\ writer'[c] = "Running"
        /\ \A d \in Clients \ {c} : /\ conn'[d] = conn[d] /\ writer'[d] = writer[d]
                                    /\ outbox'[d] = outbox[d]
        /\ UNCHANGED <<user, wire, sending, client, goodbyes, phase>>
    BY <1>2 DEF ReadHello, SInv, TypeOK, userVars
  <2>2. /\ outbox[c] = <<>> /\ ~Held(c) /\ user[c] # "Away" /\ user[c] # "Lost"
    BY <1>1, <1>2, <2>1 DEF ReadHello, Served, Begun, Late
  <2>3. CASE phase = "Running"
    <3>1. conn'[c] = "Open" /\ attaching' = Append(attaching, c) /\ outbox' = outbox
      BY <1>2, <2>3 DEF ReadHello, SInv, TypeOK
    <3>2. /\ attaching \in Seq(Clients) /\ Len(attaching) \in Nat
          /\ Len(attaching') = Len(attaching) + 1
          /\ attaching'[Len(attaching) + 1] = c
          /\ \A i \in 1..Len(attaching) : attaching'[i] = attaching[i]
      BY <3>1, AppendProperties DEF SInv, TypeOK
    <3>3. TypeOK' /\ TypeOK
      BY <1>2, TaskTypes DEF SInv, ConnStep
    <3>4. c # client /\ \A i \in 1..Len(attaching) : attaching[i] # c
      BY <2>2, <3>3, HeldIs
    <3>5. Held(c)'
      <4>1. DOMAIN attaching' = 1..Len(attaching')
        BY <3>3 DEF TypeOK
      <4> QED
        BY <3>2, <4>1 DEF Held
    <3>6. ASSUME NEW d \in Clients \ {c}
          PROVE  Held(d)' <=> Held(d)
      <4>1. DOMAIN attaching' = 1..Len(attaching') /\ DOMAIN attaching = 1..Len(attaching)
        BY <3>3 DEF TypeOK
      <4> QED
        BY <2>1, <3>2, <4>1 DEF Held
    <3>7. ASSUME NEW d \in Clients \ {c}
          PROVE  Served(d)'
      <4>1. Served(d)
        BY DEF SInv, Sessions
      <4> QED
        BY <2>1, <3>1, <3>6, <4>1, Untouched
    <3>8. Served(c)'
      <4>1. Len(<<>>) = 0
        OBVIOUS
      <4> QED
        BY <2>1, <2>2, <2>3, <3>1, <3>5, <4>1 DEF Served, Begun, Room, Told, Late
    <3>9. Distinct'
      BY <2>1, <3>2, <3>4 DEF SInv, Sessions, Distinct
    <3>10. Over'
      BY <2>1, <2>3 DEF Over
    <3> QED
      BY <3>7, <3>8, <3>9, <3>10 DEF Sessions
  <2>4. CASE phase # "Running"
    <3>1. conn'[c] = "Late" /\ attaching' = attaching
      BY <1>2, <2>4 DEF ReadHello, SInv, TypeOK
    <3>2. ~Held(c)'
      BY <2>1, <2>2, <3>1 DEF Held
    <3>3. Served(c)'
      BY <2>1, <2>2, <3>1, <3>2 DEF Served, Begun, Room, Told, Late
    <3> QED
      BY <2>1, <3>1, <3>3, OneClient
  <2> QED
    BY <2>3, <2>4
<1>3. CASE CloseConn(c)
  <2>1. /\ conn[c] = "Open" /\ conn'[c] = "Closed"
        /\ user[c] = "Attached" => ~Held(c)
        /\ \A d \in Clients \ {c} : conn'[d] = conn[d]
        /\ UNCHANGED <<user, wire, sending, outbox, writer, client, attaching, goodbyes, phase>>
    BY <1>3 DEF CloseConn, Connected, SInv, TypeOK, userVars, appVars
  <2>2. Held(c)' <=> Held(c)
    BY <2>1 DEF Held
  <2>3. Coming(c)' <=> Coming(c)
    BY <2>1 DEF Coming, HasGoodbye
  <2>4. HasGoodbye(wire[c])' <=> HasGoodbye(wire[c])
    BY <2>1 DEF HasGoodbye
  <2>5. Served(c)'
    BY <1>1, <2>1, <2>2, <2>3, <2>4 DEF Served, Begun, Room, Told, Late
  <2> QED
    BY <2>1, <2>5, OneClient
<1>4. CASE WriterTakes(c)
  <2>1. /\ writer[c] = "Running" /\ sending[c] = <<>> /\ outbox[c] # <<>>
        /\ sending'[c] = <<Head(outbox[c])>> /\ outbox'[c] = Tail(outbox[c])
        /\ \A d \in Clients \ {c} : sending'[d] = sending[d] /\ outbox'[d] = outbox[d]
        /\ UNCHANGED <<user, wire, conn, writer, client, attaching, goodbyes, phase>>
    BY <1>4 DEF WriterTakes, Working, SInv, TypeOK, userVars, appVars
  <2>2. Held(c)' <=> Held(c)
    BY <2>1 DEF Held
  <2>3. /\ Len(Tail(outbox[c])) = Len(outbox[c]) - 1 /\ Len(outbox[c]) \in Nat
        /\ Head(outbox[c]) = outbox[c][1]
        /\ \A j \in 1..Len(Tail(outbox[c])) : Tail(outbox[c])[j] = outbox[c][j + 1]
    BY <2>1, HeadTailProperties DEF SInv, TypeOK
  <2>4. HasGoodbye(outbox[c]) => HasGoodbye(sending'[c]) \/ HasGoodbye(outbox'[c])
    <3> SUFFICES ASSUME NEW i \in 1..Len(outbox[c]), outbox[c][i].kind # "Output"
                 PROVE  HasGoodbye(sending'[c]) \/ HasGoodbye(outbox'[c])
      BY DEF HasGoodbye
    <3>1. CASE i = 1
      <4>1. 1 \in 1..Len(sending'[c]) /\ sending'[c][1] = outbox[c][1]
        BY <2>1, <2>3
      <4> QED
        BY <3>1, <4>1 DEF HasGoodbye
    <3>2. CASE i # 1
      <4>1. i - 1 \in 1..Len(outbox'[c]) /\ (i - 1) + 1 = i
        BY <2>1, <2>3, <3>2
      <4>2. outbox'[c][i - 1] = outbox[c][i]
        BY <2>1, <2>3, <4>1
      <4> QED
        BY <4>1, <4>2 DEF HasGoodbye
    <3> QED
      BY <3>1, <3>2
  <2>5. ~HasGoodbye(sending[c])
    BY <2>1 DEF HasGoodbye
  <2>6. Coming(c) => Coming(c)'
    BY <2>1, <2>4, <2>5 DEF Coming, HasGoodbye
  <2>7. HasGoodbye(wire[c])' <=> HasGoodbye(wire[c])
    BY <2>1 DEF HasGoodbye
  <2>8. Len(outbox'[c]) <= 1 \/ ~Held(c)
    BY <1>1, <2>1, <2>3 DEF Served, Room
  <2>9. conn[c] \notin {"None", "Hello"}
    BY <1>1, <2>1 DEF Served, Begun
  <2>10. Served(c)'
    BY <1>1, <2>1, <2>2, <2>6, <2>7, <2>8, <2>9 DEF Served, Begun, Room, Told, Late
  <2> QED
    BY <2>1, <2>10, OneClient
<1>5. CASE WriterWrites(c)
  <2>1. /\ wire'[c] = wire[c] \o sending[c] /\ sending'[c] = <<>>
        /\ \A d \in Clients \ {c} : sending'[d] = sending[d] /\ wire'[d] = wire[d]
        /\ UNCHANGED <<user, conn, writer, outbox, client, attaching, goodbyes, phase>>
        /\ wire[c] \in Seq(ServerMsgs) /\ sending[c] \in Seq(ServerMsgs)
    BY <1>5 DEF WriterWrites, SInv, TypeOK, appVars
  <2>2. Held(c)' <=> Held(c)
    BY <2>1 DEF Held
  <2>3. HasGoodbye(wire[c]) \/ HasGoodbye(sending[c]) => HasGoodbye(wire[c] \o sending[c])
    BY <2>1, GoodbyeGoes
  <2>4. HasGoodbye(wire[c]) \/ HasGoodbye(sending[c]) => HasGoodbye(wire[c])'
    <3>1. HasGoodbye(wire'[c]) => HasGoodbye(wire[c])'
      BY DEF HasGoodbye
    <3> QED
      BY <2>1, <2>3, <3>1
  <2>5. HasGoodbye(outbox[c])' <=> HasGoodbye(outbox[c])
    BY <2>1 DEF HasGoodbye
  <2>6. Coming(c) => Coming(c)'
    BY <2>4, <2>5 DEF Coming
  <2>7. Served(c)'
    BY <1>1, <2>1, <2>2, <2>4, <2>6 DEF Served, Begun, Room, Told, Late
  <2> QED
    BY <2>1, <2>7, OneClient
<1>6. CASE WriterEnds(c)
  <2>1. /\ writer[c] = "Running" /\ phase # "Returned"
        /\ \/ ~Connected(c)
           \/ sending[c] = <<>> /\ outbox[c] = <<>> /\ ~Held(c)
        /\ writer'[c] = "Ended" /\ outbox'[c] = <<>>
        /\ \A d \in Clients \ {c} : /\ sending'[d] = sending[d] /\ outbox'[d] = outbox[d]
                                    /\ writer'[d] = writer[d]
        /\ UNCHANGED <<user, wire, conn, client, attaching, goodbyes, phase>>
    BY <1>6 DEF WriterEnds, Working, SInv, TypeOK, userVars, appVars
  <2>2. Held(c)' <=> Held(c)
    BY <2>1 DEF Held
  <2>3. HasGoodbye(wire[c])' <=> HasGoodbye(wire[c])
    BY <2>1 DEF HasGoodbye
  <2>4. conn[c] \notin {"None", "Hello"}
    BY <1>1, <2>1 DEF Served, Begun
  <2>5. user[c] = "Attached" /\ conn[c] \in {"Open", "Closed"} => ~Held(c) /\ c \in goodbyes
                                                                  /\ HasGoodbye(wire[c])
    BY <1>1, <2>1 DEF Served, Told, Connected, Coming, HasGoodbye
  <2>6. Coming(c)' \/ ~HasGoodbye(wire[c])
    BY <2>3 DEF Coming
  <2>7. Len(outbox'[c]) <= 1
    BY <2>1
  <2>8. Served(c)'
    BY <1>1, <2>1, <2>2, <2>3, <2>4, <2>5, <2>6, <2>7 DEF Served, Begun, Room, Told, Late
  <2> QED
    BY <2>1, <2>8, OneClient
<1> QED
  BY <1>2, <1>3, <1>4, <1>5, <1>6 DEF ConnStep, WriterStep

-----------------------------------------------------------------------------
(* Turns *)

\* A turn that leaves connections, queues and clients alone.
LEMMA StaySessions ==
  ASSUME SInv, UNCHANGED <<user, wire, conn, writer, sending, phase>>,
         UNCHANGED <<client, attaching, goodbyes, outbox>>
  PROVE  Sessions'
<1>1. \A d : Held(d)' <=> Held(d)
  BY DEF Held
<1>2. ASSUME NEW d \in Clients
      PROVE  Served(d)'
  <2>1. Served(d)
    BY DEF SInv, Sessions
  <2> QED
    BY <1>1, <2>1, Untouched
<1>3. Over' /\ Distinct'
  BY DEF SInv, Sessions, Over, Distinct
<1> QED
  BY <1>2, <1>3 DEF Sessions

LEMMA LeaveSessions ==
  ASSUME SInv, phase = "Running", Leave, UNCHANGED <<user, wire, conn, writer, sending>>
  PROVE  Sessions'
<1>1. /\ phase' = "Flushing" /\ client' = NoClient /\ attaching' = <<>>
      /\ goodbyes' = goodbyes \cup {c \in Clients : Held(c)}
      /\ outbox' = [c \in Clients |-> IF Held(c) THEN Queue(outbox, c, [kind |-> "Exited"])[c]
                                      ELSE outbox[c]]
  BY DEF Leave
<1>2. \A c \in Clients : ~Held(c)'
  BY <1>1, SessionAssumption DEF Held
<1>3. ASSUME NEW c \in Clients
      PROVE  Served(c)'
  <2>1. CASE Held(c)
    <3>1. outbox'[c] = Queue(outbox, c, [kind |-> "Exited"])[c] /\ c \in goodbyes'
      BY <1>1, <2>1
    <3> QED
      BY <1>1, <1>2, <2>1, <3>1, LetGo
  <2>2. CASE ~Held(c)
    <3>1. outbox'[c] = outbox[c] /\ (c \in goodbyes <=> c \in goodbyes')
      BY <1>1, <2>2
    <3>2. Coming(c)' <=> Coming(c)
      BY <3>1 DEF Coming, HasGoodbye
    <3>3. HasGoodbye(wire[c])' <=> HasGoodbye(wire[c])
      BY DEF HasGoodbye
    <3>4. Served(c)
      BY DEF SInv, Sessions
    <3> QED
      BY <1>1, <1>2, <2>2, <3>1, <3>2, <3>3, <3>4 DEF Served, Begun, Room, Told, Late
  <2> QED
    BY <2>1, <2>2
<1>4. Over' /\ Distinct'
  <2>1. Len(<<>>) = 0 /\ 1..0 = {}
    OBVIOUS
  <2> QED
    BY <1>1, <2>1 DEF Over, Distinct
<1> QED
  BY <1>3, <1>4 DEF Sessions

\* The attached client is let go of: all others keep what they have.
LEMMA OthersKeep ==
  ASSUME SInv, NEW c \in Clients, c # client,
         outbox'[c] = outbox[c], c \in goodbyes <=> c \in goodbyes', Held(c)' <=> Held(c),
         UNCHANGED <<user, wire, conn, writer, sending, phase>>
  PROVE  Served(c)'
<1>1. Served(c)
  BY DEF SInv, Sessions
<1> QED
  BY <1>1, Untouched

\* A client that does not read any more, and is dropped without a goodbye.
LEMMA Dropped ==
  ASSUME SInv, phase = "Running", client \in Clients, user[client] # "Attached", client' = NoClient,
         UNCHANGED <<user, wire, conn, writer, sending, phase, attaching, goodbyes, outbox>>
  PROVE  Sessions'
<1>1. TypeOK /\ Distinct
  BY DEF SInv, Sessions
<1>2. \A i \in DOMAIN attaching : attaching[i] # client
  BY <1>1 DEF TypeOK, Distinct
<1>3. ASSUME NEW d \in Clients
      PROVE  Served(d)'
  <2>1. CASE d # client
    <3>1. Held(d)' <=> Held(d)
      BY <2>1, SessionAssumption DEF Held
    <3> QED
      BY <2>1, <3>1, OthersKeep
  <2>2. CASE d = client
    <3>1. ~Held(d)'
      BY <1>2, <2>2, SessionAssumption DEF Held
    <3>2. Served(d)
      BY DEF SInv, Sessions
    <3> QED
      BY <2>2, <3>1, <3>2 DEF Served, Begun, Room, Told, Late
  <2> QED
    BY <2>1, <2>2
<1>4. Over' /\ Distinct'
  <2>1. \A i \in 1..Len(attaching) : attaching[i] \in Clients
    BY SMTT(30), <1>1 DEF TypeOK
  <2>2. \A i \in 1..Len(attaching) : attaching[i] # NoClient
    BY <2>1, SessionAssumption
  <2> QED
    BY <1>1, <2>2 DEF Over, Distinct
<1> QED
  BY <1>3, <1>4 DEF Sessions

\* The attached client is told that it is detached, and let go of.
LEMMA DetachedSessions ==
  ASSUME SInv, phase = "Running", SayGoodbye, client \in Clients,
         UNCHANGED <<user, wire, conn, writer, sending, phase>>,
         \A d \in Clients : Held(d)' <=> Held(d) /\ d # client,
         NEW d \in Clients
  PROVE  Served(d)'
<1>1. client # NoClient
  BY SessionAssumption
<1>2. /\ outbox' = Queue(outbox, client, [kind |-> "Detached"])
      /\ goodbyes' = goodbyes \cup {client}
  BY <1>1 DEF SayGoodbye
<1>3. CASE d = client
  <2>1. Held(d) /\ ~Held(d)'
    BY <1>3 DEF Held
  <2>2. outbox'[d] = Queue(outbox, d, [kind |-> "Detached"])[d] /\ d \in goodbyes'
    BY <1>2, <1>3
  <2>3. user'[d] = user[d] /\ conn'[d] = conn[d] /\ writer'[d] = writer[d]
    OBVIOUS
  <2> QED
    BY <2>1, <2>2, <2>3, LetGo
<1>4. CASE d # client
  <2>1. outbox'[d] = outbox[d]
    BY <1>2, <1>4, QueueType, MsgTypes DEF SInv
  <2>2. Held(d)' <=> Held(d)
    BY <1>4
  <2> QED
    BY <1>2, <1>4, <2>1, <2>2, OthersKeep
<1> QED
  BY <1>3, <1>4

LEMMA AttachSessions ==
  ASSUME SInv, HandleAttach
  PROVE  Sessions'
<1>1. /\ phase = "Running" /\ attaching # <<>> /\ SayGoodbye
      /\ client' = Head(attaching) /\ attaching' = Tail(attaching)
      /\ UNCHANGED <<user, wire, conn, writer, sending, phase>>
  BY DEF HandleAttach, userVars
<1>2. TypeOK /\ Distinct /\ attaching \in Seq(Clients)
  BY DEF SInv, Sessions, TypeOK
<1>3. /\ Len(attaching) \in Nat /\ Len(attaching) >= 1
      /\ Tail(attaching) \in Seq(Clients)
      /\ Head(attaching) = attaching[1] /\ Len(Tail(attaching)) = Len(attaching) - 1
      /\ \A i \in 1..Len(Tail(attaching)) : Tail(attaching)[i] = attaching[i + 1]
  BY <1>1, <1>2, HeadTailProperties
<1>4. DOMAIN attaching = 1..Len(attaching) /\ DOMAIN attaching' = 1..Len(attaching')
  BY <1>1, <1>2, <1>3
<1>5. ASSUME NEW d \in Clients
      PROVE  Held(d)' <=> Held(d) /\ d # client
  <2>1. Held(d)' <=> d = attaching[1] \/ \E i \in 1..Len(attaching') : attaching'[i] = d
    BY <1>1, <1>3, <1>4 DEF Held
  <2>2. (\E i \in 1..Len(attaching) : attaching[i] = d)
          <=> d = attaching[1] \/ \E i \in 1..Len(attaching') : attaching'[i] = d
    <3>1. ASSUME NEW i \in 1..Len(attaching), attaching[i] = d, i # 1
          PROVE  \E j \in 1..Len(attaching') : attaching'[j] = d
      <4>1. i - 1 \in 1..Len(attaching') /\ (i - 1) + 1 = i
        BY <1>1, <1>3, <3>1
      <4>2. attaching'[i - 1] = attaching[i]
        BY <1>1, <1>3, <4>1
      <4> QED
        BY <3>1, <4>1, <4>2
    <3>2. ASSUME NEW j \in 1..Len(attaching'), attaching'[j] = d
          PROVE  \E i \in 1..Len(attaching) : attaching[i] = d
      <4>1. j + 1 \in 1..Len(attaching)
        BY <1>1, <1>3
      <4>2. attaching[j + 1] = d
        BY <1>1, <1>3, <3>2
      <4> QED
        BY <4>1, <4>2
    <3>3. 1 \in 1..Len(attaching)
      BY <1>3
    <3> QED
      BY <3>1, <3>2, <3>3
  <2>3. Held(d) <=> client = d \/ \E i \in 1..Len(attaching) : attaching[i] = d
    BY <1>2, HeldIs
  <2>4. d = client => ~\E i \in 1..Len(attaching) : attaching[i] = d
    BY <1>2 DEF Distinct
  <2> QED
    BY <2>1, <2>2, <2>3, <2>4
<1>6. ASSUME NEW d \in Clients
      PROVE  Served(d)'
  <2>1. CASE client \in Clients
    BY <1>1, <1>5, <2>1, DetachedSessions
  <2>2. CASE client \notin Clients
    <3>1. client = NoClient
      BY <1>2, <2>2 DEF TypeOK
    <3>2. UNCHANGED <<outbox, goodbyes>>
      BY <1>1, <3>1 DEF SayGoodbye
    <3>3. Held(d)' <=> Held(d)
      BY <1>5, <2>2
    <3> QED
      BY <1>1, <2>2, <3>2, <3>3, OthersKeep
  <2> QED
    BY <2>1, <2>2
<1>7. Distinct'
  <2>1. ASSUME NEW i \in 1..Len(attaching'), NEW j \in 1..Len(attaching'),
               attaching'[i] = attaching'[j]
        PROVE  i = j
    <3>1. i + 1 \in 1..Len(attaching) /\ j + 1 \in 1..Len(attaching)
      BY <1>1, <1>3
    <3>2. attaching[i + 1] = attaching[j + 1]
      BY <1>1, <1>3, <2>1
    <3>3. i + 1 = j + 1
      BY <1>2, <3>1, <3>2 DEF Distinct
    <3> QED
      BY <3>3
  <2>2. ASSUME NEW i \in 1..Len(attaching')
        PROVE  attaching'[i] # client'
    <3>1. i + 1 \in 1..Len(attaching) /\ 1 \in 1..Len(attaching) /\ i + 1 # 1
      BY <1>1, <1>3
    <3>2. attaching[i + 1] # attaching[1]
      BY <1>2, <3>1 DEF Distinct
    <3> QED
      BY <1>1, <1>3, <3>2
  <2> QED
    BY <2>1, <2>2 DEF Distinct
<1>8. Over'
  BY <1>1 DEF Over
<1> QED
  BY <1>6, <1>7, <1>8 DEF Sessions

LEMMA BeginQuitSessions ==
  ASSUME SInv, phase = "Running", BeginQuit \/ Leave \/ Stay,
         UNCHANGED <<user, wire, conn, writer, sending>>
  PROVE  Sessions'
<1>1. Leave \/ Stay
  BY DEF BeginQuit
<1>2. Stay => UNCHANGED <<phase, client, attaching, goodbyes, outbox>>
  BY DEF Stay
<1> QED
  BY <1>1, <1>2, LeaveSessions, StaySessions

LEMMA MsgSessions ==
  ASSUME SInv, HandleClientMsg
  PROVE  Sessions'
<1> DEFINE m == Head(typed[client])
<1>1. /\ phase = "Running" /\ client \in Clients
      /\ SelectTab(m) \/ Resize(m) \/ Detach(m) \/ ForceQuit(m) \/ Ignore(m)
      /\ UNCHANGED <<user, wire, conn, writer, sending>>
  BY DEF HandleClientMsg, SInv, TypeOK
<1> HIDE DEF m
<1>2. CASE SelectTab(m) \/ Resize(m) \/ Ignore(m) \/ ForceQuit(m)
  <2>1. BeginQuit \/ Leave \/ Stay
    BY <1>2 DEF SelectTab, Resize, Ignore, ForceQuit
  <2> QED
    BY <1>1, <2>1, BeginQuitSessions
<1>3. CASE Detach(m)
  <2>1. SayGoodbye /\ client' = NoClient /\ UNCHANGED <<attaching, phase>>
    BY <1>3 DEF Detach
  <2>2. ASSUME NEW d \in Clients
        PROVE  Held(d)' <=> Held(d) /\ d # client
    <3>1. Held(d)' <=> \E i \in DOMAIN attaching : attaching[i] = d
      BY <2>1, SessionAssumption DEF Held
    <3>2. d = client => ~\E i \in DOMAIN attaching : attaching[i] = d
      BY DEF SInv, Sessions, Distinct, TypeOK
    <3> QED
      BY <3>1, <3>2 DEF Held
  <2>3. \A d \in Clients : Served(d)'
    BY <1>1, <2>1, <2>2, DetachedSessions
  <2>4. \A i \in 1..Len(attaching) : attaching[i] \in Clients
    BY DEF SInv, TypeOK
  <2>5. \A i \in 1..Len(attaching) : attaching[i] # NoClient
    BY <2>4, SessionAssumption
  <2>6. Over' /\ Distinct'
    BY <1>1, <2>1, <2>5 DEF Over, SInv, Sessions, Distinct
  <2> QED
    BY <2>3, <2>6 DEF Sessions
<1> QED
  BY <1>1, <1>2, <1>3

LEMMA SentSessions ==
  ASSUME SInv, DrawSent
  PROVE  Sessions'
<1> DEFINE frame == [kind |-> "Output", from |-> drawn[client], to |-> View]
<1>1. /\ phase = "Running" /\ client \in Clients /\ writer[client] = "Running"
      /\ outbox[client] = <<>> /\ outbox' = Queue(outbox, client, frame)
      /\ UNCHANGED <<user, wire, conn, writer, sending, phase, attaching, client, goodbyes>>
  BY DEF DrawSent, SInv, TypeOK, userVars
<1>2. frame \in ServerMsgs
  <2>1. View \in Views /\ drawn[client] \in Views \cup {Blank}
    BY <1>1, ViewType DEF SInv, TypeOK
  <2> QED
    BY <2>1, MsgTypes
<1> HIDE DEF frame
<1>3. /\ outbox'[client] = outbox[client] \/ outbox'[client] = Append(outbox[client], frame)
      /\ \A d \in Clients \ {client} : outbox'[d] = outbox[d]
  BY <1>1, <1>2, QueueType DEF SInv
<1>4. Len(outbox'[client]) <= 1
  <2>1. Len(<<>>) = 0 /\ Len(Append(<<>>, frame)) = 1
    BY <1>2, AppendProperties
  <2>2. 0 <= 1 /\ 1 <= 1
    OBVIOUS
  <2> QED
    BY <1>1, <1>3, <2>1, <2>2, Zenon
<1>5. \A d : Held(d)' <=> Held(d)
  BY <1>1 DEF Held
<1>6. ASSUME NEW d \in Clients
      PROVE  Served(d)'
  <2>1. Served(d)
    BY DEF SInv, Sessions
  <2>2. CASE d = client
    <3>1. Held(d) /\ conn[d] \notin {"None", "Hello"} /\ Len(outbox'[d]) <= 1
      BY <1>1, <1>4, <2>1, <2>2 DEF Held, Served, Begun
    <3> QED
      BY <1>1, <1>5, <2>1, <2>2, <3>1 DEF Served, Begun, Room, Told, Late
  <2>3. CASE d # client
    BY <1>1, <1>3, <1>5, <2>3, OthersKeep
  <2> QED
    BY <2>2, <2>3
<1>7. Over' /\ Distinct'
  BY <1>1 DEF SInv, Sessions, Over, Distinct
<1> QED
  BY <1>6, <1>7 DEF Sessions

\* The end: whom time runs out on, or nobody, does not read.
LEMMA FlushSessions ==
  ASSUME SInv, Flushed \/ FlushTimesOut
  PROVE  Sessions'
<1>1. /\ phase = "Flushing" /\ phase' = "Returned"
      /\ \A c \in Waiting : user[c] = "Stalled"
      /\ UNCHANGED <<user, wire, conn, sending, outbox, attaching, client, goodbyes>>
  BY DEF Flushed, FlushTimesOut, userVars, taskVars
<1>2. \A c \in Clients : writer'[c] = writer[c] \/ (c \in goodbyes /\ writer'[c] = "Ended")
  BY DEF Flushed, FlushTimesOut, taskVars
<1>3. \A d : Held(d)' <=> Held(d)
  BY <1>1 DEF Held
<1>4. ASSUME NEW d \in Clients
      PROVE  ~Held(d)
  BY <1>1, SessionAssumption DEF SInv, Sessions, Over, Held
<1>5. ASSUME NEW d \in Clients
      PROVE  Served(d)'
  <2>1. Served(d)
    BY DEF SInv, Sessions
  <2>2. HasGoodbye(wire[d])' <=> HasGoodbye(wire[d])
    BY <1>1 DEF HasGoodbye
  <2>3. Coming(d)' <=> Coming(d)
    BY <1>1 DEF Coming, HasGoodbye
  <2>4. user[d] = "Attached" /\ conn[d] \in {"Open", "Closed"} =>
          d \in goodbyes /\ writer[d] = "Ended" /\ HasGoodbye(wire[d])
    <3> SUFFICES ASSUME user[d] = "Attached", conn[d] \in {"Open", "Closed"}
                 PROVE  d \in goodbyes /\ writer[d] = "Ended" /\ HasGoodbye(wire[d])
      OBVIOUS
    <3>1. d \in goodbyes
      BY <1>4, <2>1 DEF Served, Told
    <3>2. writer[d] = "Ended"
      BY <1>1, <3>1 DEF Waiting
    <3> QED
      BY <2>1, <3>1, <3>2 DEF Served, Told
  <2>5. conn[d] \in {"None", "Hello"} => writer'[d] = "None"
    <3> SUFFICES ASSUME conn[d] \in {"None", "Hello"}
                 PROVE  writer'[d] = "None"
      OBVIOUS
    <3>1. writer[d] = "None" /\ d \notin goodbyes
      BY <2>1 DEF Served, Begun
    <3> QED
      BY <1>2, <3>1
  <2> QED
    BY <1>1, <1>2, <1>3, <1>4, <2>1, <2>2, <2>3, <2>4, <2>5 DEF Served, Begun, Room, Told, Late
<1>6. Over' /\ Distinct'
  BY <1>1 DEF SInv, Sessions, Over, Distinct
<1> QED
  BY <1>5, <1>6 DEF Sessions

LEMMA TurnSessions ==
  ASSUME SInv, Turn
  PROVE  Sessions'
<1>1. CASE HandleAttach
  BY <1>1, AttachSessions
<1>2. CASE HandleQuit
  BY <1>2, BeginQuitSessions DEF HandleQuit, userVars
<1>3. CASE HandleClientMsg
  BY <1>3, MsgSessions
<1>4. CASE DropClient
  <2>1. client \in Clients /\ conn[client] = "Closed" /\ Held(client)
    BY <1>4 DEF DropClient, SInv, TypeOK, Held
  <2>2. user[client] # "Attached"
    BY <2>1 DEF SInv, Sessions, Served, Told
  <2> QED
    BY <1>4, <2>1, <2>2, Dropped DEF DropClient, userVars, taskVars
<1>5. CASE DrawSent
  BY <1>5, SentSessions
<1>6. CASE DrawDisconnected
  <2>1. client \in Clients /\ writer[client] = "Ended" /\ Held(client)
    BY <1>6 DEF DrawDisconnected, SInv, TypeOK, Held
  <2>2. conn[client] \in {"Open", "Closed"}
    BY <2>1 DEF SInv, Sessions, Served, Begun, TypeOK
  <2>3. user[client] # "Attached"
    BY <2>1, <2>2 DEF SInv, Sessions, Served, Told
  <2> QED
    BY <1>6, <2>1, <2>3, Dropped DEF DrawDisconnected, userVars, taskVars
<1>7. ASSUME NEW t \in Tabs, HandleOutput(t)
      PROVE  Sessions'
  BY <1>7, StaySessions DEF HandleOutput, userVars, taskVars
<1>8. ASSUME NEW t \in Tabs, HandleExit(t)
      PROVE  Sessions'
  <2>1. phase = "Running" /\ (Leave \/ Stay) /\ UNCHANGED <<user, wire, conn, writer, sending>>
    BY <1>8 DEF HandleExit, userVars
  <2> QED
    BY <2>1, BeginQuitSessions
<1>9. CASE Flushed \/ FlushTimesOut
  BY <1>9, FlushSessions
<1> QED
  BY <1>1, <1>2, <1>3, <1>4, <1>5, <1>6, <1>7, <1>8, <1>9 DEF Turn, Draw

LEMMA InitSessions == Init => Sessions
<1> SUFFICES ASSUME Init
             PROVE  Sessions
  OBVIOUS
<1>1. attaching = <<>> /\ client = NoClient /\ goodbyes = {} /\ phase = "Running"
  BY DEF Init
<1>2. \A c \in Clients : ~Held(c)
  BY <1>1, SessionAssumption DEF Held
<1>3. ASSUME NEW c \in Clients
      PROVE  Served(c)
  BY <1>1, <1>2 DEF Init, Served, Begun, Room, Told, Late
<1>4. Len(<<>>) = 0 /\ 1..0 = {}
  OBVIOUS
<1> QED
  BY <1>1, <1>3, <1>4 DEF Sessions, Over, Distinct

LEMMA NextSessions == SInv /\ [Next]_vars => SInv'
<1> SUFFICES ASSUME SInv, [Next]_vars
             PROVE  SInv'
  OBVIOUS
<1>1. TypeOK'
  BY NextTypes DEF SInv
<1>2. Sessions'
  <2>1. CASE UNCHANGED vars
    BY <2>1, StaySessions DEF vars, userVars, taskVars, appVars
  <2> QED
    BY <2>1, ClientSessions, TaskSessions, TurnSessions DEF Next
<1> QED
  BY <1>1, <1>2 DEF SInv

LEMMA AlwaysServed == Spec => []SInv
<1>1. Init => SInv
  BY InitTypes, InitSessions DEF SInv
<1> QED
  BY <1>1, NextSessions, PTL DEF Spec

\* A client that is attached or about to be always has room for a goodbye, for
\* any capacity of the outbox of at least two (OUTPUT_QUEUE_SIZE).
THEOREM GoodbyeAlwaysFits == Spec => []GoodbyeFits
<1>1. SInv => GoodbyeFits
  <2> SUFFICES ASSUME SInv, NEW c \in Clients, Held(c)
               PROVE  Len(outbox[c]) < OutputQueueSize
    BY DEF GoodbyeFits
  <2>1. Len(outbox[c]) <= 1 /\ Len(outbox[c]) \in Nat
    BY DEF SInv, Sessions, Served, Room, TypeOK
  <2> QED
    BY <2>1, SessionAssumption
<1> QED
  BY <1>1, AlwaysServed, PTL

\* A client whose Attach reached the App never finds its connection closed
\* without a word, however many attach, detach, stall or hang up, and whenever
\* the App quits (App::run, its drain and flush_goodbyes).
THEOREM NobodyIsLost == Spec => []AttachedIsNeverLost
<1>1. SInv => AttachedIsNeverLost
  BY DEF SInv, Sessions, Served, Late, AttachedIsNeverLost
<1> QED
  BY <1>1, AlwaysServed, PTL

-----------------------------------------------------------------------------
(* Frames compose *)

\* What the client will show when it has read what is on its way.
Latest(sent, base) == IF sent = <<>> THEN base ELSE sent[Len(sent)].to

\* What the statement of FramesCompose asks of what is on its way.
Composes(sent, base) ==
  \A i \in 1..Len(sent) :
    /\ sent[i].kind = "Output" =>
         \/ sent[i].from = Blank
         \/ sent[i].from = IF i = 1 THEN base ELSE sent[i - 1].to
    /\ sent[i].kind # "Output" => i = Len(sent)

OnlyFrames(sent) == \A i \in 1..Len(sent) : sent[i].kind = "Output"

\* Before its hello is read, nothing is sent to a client.
Unused(c) ==
  conn[c] \in {"None", "Hello"} => wire[c] = <<>> /\ sending[c] = <<>> /\ drawn[c] = Blank

\* The server's copy of a held client's screen is what that client will show.
Follows(c) ==
  Connected(c) =>
    /\ Composes(InFlight(c), shown[c])
    /\ Held(c) => /\ OnlyFrames(InFlight(c))
                  /\ drawn[c] \in {Blank, Latest(InFlight(c), shown[c])}

Chained == \A c \in Clients : Unused(c) /\ Follows(c)

\* What a message does to what is on its way: queued last, taken by the writer,
\* written, or read first.
LEMMA QueuedLast ==
  ASSUME NEW a \in Seq(ServerMsgs), NEW b \in Seq(ServerMsgs), NEW e \in Seq(ServerMsgs),
         NEW m \in ServerMsgs
  PROVE  a \o b \o Append(e, m) = Append(a \o b \o e, m)
<1> DEFINE ab == a \o b
<1>1. ab \in Seq(ServerMsgs)
  BY ConcatProperties
<1> HIDE DEF ab
<1>2. Append(e, m) = e \o <<m>> /\ <<m>> \in Seq(ServerMsgs)
  BY AppendIsConcat
<1>3. ab \o (e \o <<m>>) = (ab \o e) \o <<m>>
  BY <1>1, <1>2, ConcatAssociative
<1>4. ab \o e \in Seq(ServerMsgs)
  BY <1>1, ConcatProperties
<1>5. (ab \o e) \o <<m>> = Append(ab \o e, m)
  BY <1>4, AppendIsConcat
<1> QED
  BY <1>2, <1>3, <1>5 DEF ab

LEMMA TakenFirst ==
  ASSUME NEW S, NEW a \in Seq(S), NEW e \in Seq(S), e # <<>>
  PROVE  a \o <<Head(e)>> \o Tail(e) = a \o <<>> \o e
<1>1. Head(e) \in S /\ Tail(e) \in Seq(S)
  BY HeadTailProperties
<1>2. <<Head(e)>> \in Seq(S)
  BY <1>1
<1>3. a \o <<Head(e)>> \o Tail(e) = a \o (<<Head(e)>> \o Tail(e))
  BY <1>1, <1>2, ConcatAssociative
<1>4. <<Head(e)>> \o Tail(e) = e
  <2>1. Len(<<Head(e)>>) = 1 /\ <<Head(e)>>[1] = Head(e) /\ Head(e) = e[1]
    OBVIOUS
  <2>2. /\ Len(Tail(e)) = Len(e) - 1 /\ Len(e) \in Nat
        /\ \A i \in 1..Len(Tail(e)) : Tail(e)[i] = e[i + 1]
    BY HeadTailProperties
  <2>3. /\ <<Head(e)>> \o Tail(e) \in Seq(S) /\ Len(<<Head(e)>> \o Tail(e)) = 1 + Len(Tail(e))
        /\ \A i \in 1..1 + Len(Tail(e)) :
             (<<Head(e)>> \o Tail(e))[i] = IF i <= 1 THEN <<Head(e)>>[i] ELSE Tail(e)[i - 1]
    BY <1>1, <1>2, <2>1, ConcatProperties
  <2>4. ASSUME NEW i \in 1..Len(e)
        PROVE  (<<Head(e)>> \o Tail(e))[i] = e[i]
    <3>1. CASE i = 1
      BY <2>1, <2>2, <2>3, <3>1
    <3>2. CASE i # 1
      <4>1. i - 1 \in 1..Len(Tail(e)) /\ (i - 1) + 1 = i /\ i \in 1..1 + Len(Tail(e)) /\ ~(i <= 1)
        BY <2>2, <3>2
      <4>2. (<<Head(e)>> \o Tail(e))[i] = Tail(e)[i - 1]
        BY <2>3, <4>1
      <4>3. Tail(e)[i - 1] = e[(i - 1) + 1]
        BY <2>2, <4>1
      <4> QED
        BY <4>1, <4>2, <4>3
    <3> QED
      BY <3>1, <3>2
  <2>5. Len(<<Head(e)>> \o Tail(e)) = Len(e)
    BY <2>2, <2>3
  <2> QED
    BY <2>3, <2>4, <2>5, SeqEqual
<1>5. a \o <<>> = a
  BY ConcatEmptySeq
<1> QED
  BY <1>3, <1>4, <1>5

LEMMA ReadFirst ==
  ASSUME NEW a \in Seq(ServerMsgs), NEW b \in Seq(ServerMsgs), NEW e \in Seq(ServerMsgs), a # <<>>
  PROVE  /\ a \o b \o e # <<>>
         /\ Tail(a) \o b \o e = Tail(a \o b \o e)
         /\ Head(a) = (a \o b \o e)[1]
<1> DEFINE be == b \o e
           w == a \o be
           t == Tail(a) \o be
<1>1. be \in Seq(ServerMsgs)
  BY ConcatProperties
<1>2. Head(a) \in ServerMsgs /\ Tail(a) \in Seq(ServerMsgs) /\ Len(Tail(a)) = Len(a) - 1
      /\ \A i \in 1..Len(Tail(a)) : Tail(a)[i] = a[i + 1]
  BY HeadTailProperties
<1>3. a \o b \o e = w /\ Tail(a) \o b \o e = t
  <2>1. (a \o b) \o e = a \o (b \o e)
    BY ConcatAssociative
  <2>2. (Tail(a) \o b) \o e = Tail(a) \o (b \o e)
    BY SMTT(30), <1>2, ConcatAssociative
  <2> QED
    BY <2>1, <2>2
<1> HIDE DEF be
<1>4. /\ w \in Seq(ServerMsgs) /\ Len(w) = Len(a) + Len(be)
      /\ \A i \in 1..Len(a) + Len(be) : w[i] = IF i <= Len(a) THEN a[i] ELSE be[i - Len(a)]
  BY <1>1, ConcatProperties
<1>5. /\ t \in Seq(ServerMsgs) /\ Len(t) = Len(Tail(a)) + Len(be)
      /\ \A i \in 1..Len(Tail(a)) + Len(be) :
           t[i] = IF i <= Len(Tail(a)) THEN Tail(a)[i] ELSE be[i - Len(Tail(a))]
  BY <1>1, <1>2, ConcatProperties
<1>6. Len(a) \in Nat /\ Len(a) >= 1 /\ Len(be) \in Nat
  BY <1>1
<1> HIDE DEF w, t
<1>7. w # <<>>
  BY <1>4, <1>6
<1>8. /\ Tail(w) \in Seq(ServerMsgs) /\ Len(Tail(w)) = Len(w) - 1
      /\ \A i \in 1..Len(Tail(w)) : Tail(w)[i] = w[i + 1]
  BY <1>4, <1>7, HeadTailProperties
<1>9. ASSUME NEW i \in 1..Len(t)
      PROVE  t[i] = Tail(w)[i]
  <2>1. i \in 1..Len(Tail(w)) /\ Tail(w)[i] = w[i + 1] /\ i + 1 \in 1..Len(a) + Len(be)
    BY <1>2, <1>4, <1>5, <1>6, <1>8
  <2>2. CASE i <= Len(Tail(a))
    <3>1. t[i] = Tail(a)[i] /\ Tail(a)[i] = a[i + 1] /\ i + 1 <= Len(a)
      BY <1>2, <1>5, <1>6, <2>2
    <3> QED
      BY <1>4, <2>1, <3>1
  <2>3. CASE ~(i <= Len(Tail(a)))
    <3>1. t[i] = be[i - Len(Tail(a))] /\ ~(i + 1 <= Len(a)) /\ i - Len(Tail(a)) = (i + 1) - Len(a)
      BY <1>2, <1>5, <1>6, <2>3
    <3> QED
      BY <1>4, <2>1, <3>1
  <2> QED
    BY <2>2, <2>3
<1>10. Len(t) = Len(Tail(w))
  BY <1>2, <1>4, <1>5, <1>6, <1>8
<1>11. t = Tail(w)
  BY <1>5, <1>8, <1>9, <1>10, SeqEqual
<1>12. Head(a) = w[1]
  <2>1. 1 \in 1..Len(a) + Len(be) /\ 1 <= Len(a) /\ Head(a) = a[1]
    BY <1>6
  <2> QED
    BY <1>4, <2>1
<1> QED
  BY <1>3, <1>7, <1>11, <1>12

\* Composition, and what a message that is queued, or read, does to it.
LEMMA ComposesSent ==
  ASSUME NEW s \in Seq(ServerMsgs), NEW base, Composes(s, base), OnlyFrames(s),
         NEW m \in ServerMsgs, m.kind = "Output" => m.from \in {Blank, Latest(s, base)}
  PROVE  /\ Composes(Append(s, m), base)
         /\ m.kind = "Output" => /\ OnlyFrames(Append(s, m))
                                 /\ Latest(Append(s, m), base) = m.to
<1> DEFINE t == Append(s, m)
<1>1. /\ t \in Seq(ServerMsgs) /\ Len(t) = Len(s) + 1 /\ t[Len(s) + 1] = m
      /\ \A i \in 1..Len(s) : t[i] = s[i]
      /\ Len(s) \in Nat
  BY AppendProperties
<1> HIDE DEF t
<1>2. ASSUME NEW i \in 1..Len(t)
      PROVE  /\ t[i].kind = "Output" =>
                  \/ t[i].from = Blank
                  \/ t[i].from = IF i = 1 THEN base ELSE t[i - 1].to
             /\ t[i].kind # "Output" => i = Len(t)
  <2>1. CASE i \in 1..Len(s)
    <3>1. t[i] = s[i] /\ (i # 1 => i - 1 \in 1..Len(s) /\ t[i - 1] = s[i - 1])
      BY <1>1, <2>1
    <3>2. t[i].kind = "Output"
      BY <2>1, <3>1 DEF OnlyFrames
    <3>3. t[i].from = Blank \/ t[i].from = IF i = 1 THEN base ELSE s[i - 1].to
      BY <2>1, <3>1, <3>2 DEF Composes
    <3>4. (IF i = 1 THEN base ELSE s[i - 1].to) = (IF i = 1 THEN base ELSE t[i - 1].to)
      BY <3>1
    <3> QED
      BY <3>2, <3>3, <3>4
  <2>2. CASE i = Len(s) + 1
    <3>1. t[i] = m
      BY <1>1, <2>2
    <3>2. Latest(s, base) = IF i = 1 THEN base ELSE t[i - 1].to
      <4>1. CASE s = <<>>
        BY <1>1, <2>2, <4>1 DEF Latest
      <4>2. CASE s # <<>>
        <5>1. Len(s) \in 1..Len(s) /\ i - 1 = Len(s) /\ i # 1
          BY <1>1, <2>2, <4>2
        <5> QED
          BY <1>1, <4>2, <5>1 DEF Latest
      <4> QED
        BY <4>1, <4>2
    <3> QED
      BY <1>1, <2>2, <3>1, <3>2
  <2> QED
    BY <1>1, <2>1, <2>2
<1>3. Composes(t, base)
  BY <1>2 DEF Composes
<1>4. ASSUME m.kind = "Output"
      PROVE  OnlyFrames(t) /\ Latest(t, base) = m.to
  <2>1. OnlyFrames(t)
    BY <1>1, <1>4 DEF OnlyFrames
  <2>2. t # <<>> /\ t[Len(t)] = m
    BY <1>1
  <2> QED
    BY <2>1, <2>2 DEF Latest
<1> QED
  BY <1>3, <1>4 DEF t

LEMMA ComposesRead ==
  ASSUME NEW s \in Seq(ServerMsgs), s # <<>>, NEW base, Composes(s, base), s[1].kind = "Output"
  PROVE  /\ Composes(Tail(s), s[1].to)
         /\ OnlyFrames(s) => /\ OnlyFrames(Tail(s))
                             /\ Latest(Tail(s), s[1].to) = Latest(s, base)
<1> DEFINE t == Tail(s)
<1>1. /\ t \in Seq(ServerMsgs) /\ Len(t) = Len(s) - 1 /\ Len(s) \in Nat /\ Len(s) >= 1
      /\ \A i \in 1..Len(t) : t[i] = s[i + 1]
  BY HeadTailProperties
<1> HIDE DEF t
<1>2. ASSUME NEW i \in 1..Len(t)
      PROVE  /\ t[i].kind = "Output" =>
                  \/ t[i].from = Blank
                  \/ t[i].from = IF i = 1 THEN s[1].to ELSE t[i - 1].to
             /\ t[i].kind # "Output" => i = Len(t)
  <2>1. i + 1 \in 1..Len(s) /\ i + 1 # 1 /\ (i + 1) - 1 = i /\ t[i] = s[i + 1]
    BY <1>1
  <2>2. /\ t[i].kind = "Output" => t[i].from = Blank \/ t[i].from = s[i].to
        /\ t[i].kind # "Output" => i + 1 = Len(s)
    BY <2>1 DEF Composes
  <2>3. i # 1 => t[i - 1] = s[i]
    <3> SUFFICES ASSUME i # 1
                 PROVE  t[i - 1] = s[i]
      OBVIOUS
    <3>1. i - 1 \in 1..Len(t) /\ (i - 1) + 1 = i
      BY <1>1
    <3> QED
      BY <1>1, <3>1
  <2>4. s[i].to = IF i = 1 THEN s[1].to ELSE t[i - 1].to
    BY <2>3
  <2> QED
    BY <1>1, <2>2, <2>4
<1>3. Composes(t, s[1].to)
  BY <1>2 DEF Composes
<1>4. ASSUME OnlyFrames(s)
      PROVE  OnlyFrames(t) /\ Latest(t, s[1].to) = Latest(s, base)
  <2>1. \A i \in 1..Len(t) : i + 1 \in 1..Len(s)
    BY <1>1
  <2>2. OnlyFrames(t)
    BY <1>1, <1>4, <2>1 DEF OnlyFrames
  <2>3. CASE t = <<>>
    <3>1. Len(s) = 1
      BY <1>1, <2>3
    <3> QED
      BY <2>2, <2>3, <3>1 DEF Latest
  <2>4. CASE t # <<>>
    <3>1. Len(t) \in 1..Len(t) /\ Len(t) + 1 = Len(s)
      BY <1>1, <2>4
    <3>2. t[Len(t)] = s[Len(s)]
      BY <1>1, <3>1
    <3> QED
      BY <2>2, <2>4, <3>2 DEF Latest
  <2> QED
    BY <2>3, <2>4
<1> QED
  BY <1>3, <1>4 DEF t

LEMMA InFlightType ==
  ASSUME TypeOK, NEW c \in Clients
  PROVE  /\ wire[c] \in Seq(ServerMsgs) /\ sending[c] \in Seq(ServerMsgs)
         /\ outbox[c] \in Seq(ServerMsgs) /\ InFlight(c) \in Seq(ServerMsgs)
<1>1. /\ wire[c] \in Seq(ServerMsgs) /\ sending[c] \in Seq(ServerMsgs)
      /\ outbox[c] \in Seq(ServerMsgs)
  BY DEF TypeOK
<1>2. wire[c] \o sending[c] \in Seq(ServerMsgs)
  BY <1>1, ConcatProperties
<1> QED
  BY <1>1, <1>2, ConcatProperties DEF InFlight

LEMMA FollowsNext ==
  ASSUME NEW c \in Clients, NEW sent, sent = InFlight(c)',
         Connected(c)' => Composes(sent, shown'[c]),
         Connected(c)' /\ Held(c)' =>
           OnlyFrames(sent) /\ drawn'[c] \in {Blank, Latest(sent, shown'[c])}
  PROVE  Follows(c)'
BY DEF Follows, Composes, OnlyFrames, Latest

LEMMA FollowsKept ==
  ASSUME NEW c \in Clients, Follows(c), InFlight(c)' = InFlight(c),
         shown'[c] = shown[c], drawn'[c] \in {drawn[c], Blank},
         Connected(c)' => Connected(c), Held(c)' => Held(c)
  PROVE  Follows(c)'
<1>1. Connected(c)' => Composes(InFlight(c), shown'[c])
  BY DEF Follows
<1>2. Connected(c)' /\ Held(c)' =>
        OnlyFrames(InFlight(c)) /\ drawn'[c] \in {Blank, Latest(InFlight(c), shown'[c])}
  BY DEF Follows
<1> QED
  BY <1>1, <1>2, FollowsNext

\* A client that a step sends nothing to.
LEMMA FollowsQuiet ==
  ASSUME NEW c \in Clients, Follows(c), wire'[c] = wire[c], sending'[c] = sending[c],
         outbox'[c] = outbox[c], shown'[c] = shown[c], drawn'[c] \in {drawn[c], Blank},
         Connected(c)' => Connected(c), Held(c)' => Held(c)
  PROVE  Follows(c)'
<1>1. InFlight(c)' = InFlight(c)
  BY DEF InFlight
<1> QED
  BY <1>1, FollowsKept

\* A held client is sent what was drawn for it, or its goodbye.
LEMMA FollowsQueued ==
  ASSUME TypeOK, NEW c \in Clients, Follows(c), Held(c), NEW m \in ServerMsgs,
         outbox'[c] = Append(outbox[c], m) \/ outbox'[c] = outbox[c],
         wire'[c] = wire[c], sending'[c] = sending[c], shown'[c] = shown[c],
         Connected(c)' => Connected(c),
         m.kind = "Output" => /\ m.from = drawn[c] /\ drawn'[c] = m.to
                              /\ outbox'[c] = Append(outbox[c], m),
         m.kind # "Output" => drawn'[c] = drawn[c] /\ ~Held(c)'
  PROVE  Follows(c)'
<1>1. CASE outbox'[c] = outbox[c] /\ m.kind # "Output"
  BY <1>1, FollowsQuiet
<1>2. CASE outbox'[c] = Append(outbox[c], m)
  <2>1. InFlight(c)' = Append(InFlight(c), m) /\ InFlight(c) \in Seq(ServerMsgs)
    <3>1. InFlight(c)' = wire[c] \o sending[c] \o Append(outbox[c], m)
      BY <1>2 DEF InFlight
    <3>2. /\ wire[c] \in Seq(ServerMsgs) /\ sending[c] \in Seq(ServerMsgs)
          /\ outbox[c] \in Seq(ServerMsgs) /\ InFlight(c) \in Seq(ServerMsgs)
      BY InFlightType
    <3>3. wire[c] \o sending[c] \o Append(outbox[c], m)
            = Append(wire[c] \o sending[c] \o outbox[c], m)
      BY <3>2, QueuedLast
    <3>4. InFlight(c) = wire[c] \o sending[c] \o outbox[c]
      BY DEF InFlight
    <3> HIDE DEF InFlight
    <3> QED
      BY <3>1, <3>2, <3>3, <3>4
  <2>2. CASE ~Connected(c)
    <3>1. ~Connected(c)'
      BY <2>2
    <3> QED
      BY <3>1 DEF Follows
  <2>3. CASE Connected(c)
    <3>1. /\ Composes(InFlight(c), shown[c]) /\ OnlyFrames(InFlight(c))
          /\ drawn[c] \in {Blank, Latest(InFlight(c), shown[c])}
      BY <2>3 DEF Follows
    <3>2. /\ Composes(Append(InFlight(c), m), shown[c])
          /\ m.kind = "Output" => /\ OnlyFrames(Append(InFlight(c), m))
                                  /\ Latest(Append(InFlight(c), m), shown[c]) = m.to
      BY <2>1, <3>1, ComposesSent
    <3> QED
      BY <2>1, <3>2, FollowsNext
  <2> QED
    BY <2>2, <2>3
<1> QED
  BY <1>1, <1>2

\* A step that nothing is drawn or sent in.
LEMMA QuietChained ==
  ASSUME Chained, UNCHANGED <<wire, sending, outbox, shown, drawn>>,
         \A d \in Clients : /\ Connected(d)' => Connected(d)
                            /\ Held(d)' => Held(d)
                            /\ conn'[d] \in {"None", "Hello"} => conn[d] \in {"None", "Hello"}
  PROVE  Chained'
<1> SUFFICES ASSUME NEW d \in Clients
             PROVE  Unused(d)' /\ Follows(d)'
  BY DEF Chained
<1>1. Unused(d) /\ Follows(d)
  BY DEF Chained
<1> QED
  BY <1>1, FollowsQuiet DEF Unused

LEMMA ClientChained ==
  ASSUME SInv, Chained, NEW c \in Clients, ClientStep(c)
  PROVE  Chained'
<1>1. /\ UNCHANGED <<sending, outbox, drawn, client, attaching>>
      /\ \A d \in Clients \ {c} : /\ user'[d] = user[d] /\ conn'[d] = conn[d]
                                  /\ wire'[d] = wire[d] /\ shown'[d] = shown[d]
  <2>1. CASE Connect(c)
    BY <2>1 DEF Connect, SInv, TypeOK, appVars
  <2>2. CASE Stall(c) \/ \E m \in ClientMsgs : Type(c, m)
    BY <2>2 DEF Stall, Type, SInv, TypeOK, taskVars, appVars
  <2>3. CASE ReadFrame(c)
    BY <2>3 DEF ReadFrame, SInv, TypeOK, taskVars, appVars
  <2>4. CASE ReadGoodbye(c) \/ ReadEof(c) \/ HangUp(c)
    BY <2>4 DEF ReadGoodbye, ReadEof, HangUp, ClientEnds, SInv, TypeOK, taskVars, appVars
  <2> QED
    BY <2>1, <2>2, <2>3, <2>4 DEF ClientStep, Read
<1>2. \A d : Held(d)' <=> Held(d)
  BY <1>1 DEF Held
<1>3. ASSUME NEW d \in Clients, d # c
      PROVE  Unused(d)' /\ Follows(d)'
  <2>1. Unused(d) /\ Follows(d)
    BY DEF Chained
  <2>2. Connected(d)' <=> Connected(d)
    BY <1>1, <1>3 DEF Connected
  <2> QED
    BY <1>1, <1>2, <1>3, <2>1, <2>2, FollowsQuiet DEF Unused
<1>4. Unused(c) /\ Follows(c) /\ Begun(c)
  BY DEF Chained, SInv, Sessions, Served
<1>5. Unused(c)' /\ Follows(c)'
  <2>1. CASE Connect(c)
    <3>1. user[c] = "Away" /\ wire' = wire
      BY <2>1 DEF Connect
    <3>2. conn[c] = "None" /\ ~Held(c)
      BY <1>4, <3>1 DEF Begun
    <3>3. wire[c] = <<>> /\ sending[c] = <<>> /\ outbox[c] = <<>> /\ drawn[c] = Blank
      BY <1>4, <3>2 DEF Unused, Begun
    <3>4. InFlight(c)' = <<>>
      BY <1>1, <3>1, <3>3 DEF InFlight
    <3>5. \A base : Composes(<<>>, base)
      BY DEF Composes
    <3> QED
      BY <1>1, <1>2, <3>1, <3>2, <3>3, <3>4, <3>5, FollowsNext DEF Unused
  <2>2. CASE Stall(c) \/ \E m \in ClientMsgs : Type(c, m)
    <3>1. UNCHANGED <<wire, shown, conn>> /\ (Connected(c)' => Connected(c))
      BY <2>2 DEF Stall, Type, Connected, taskVars
    <3> QED
      BY <1>1, <1>2, <1>4, <3>1, FollowsQuiet DEF Unused
  <2>3. CASE ReadFrame(c)
    <3>1. /\ wire[c] # <<>> /\ Head(wire[c]).kind = "Output" /\ wire'[c] = Tail(wire[c])
          /\ shown'[c] = Head(wire[c]).to /\ Connected(c) /\ UNCHANGED conn
      BY <2>3 DEF ReadFrame, Connected, SInv, TypeOK, taskVars
    <3>2. /\ InFlight(c) \in Seq(ServerMsgs) /\ InFlight(c) # <<>>
          /\ InFlight(c)' = Tail(InFlight(c)) /\ Head(wire[c]) = InFlight(c)[1]
      <4>1. /\ wire[c] \in Seq(ServerMsgs) /\ sending[c] \in Seq(ServerMsgs)
            /\ outbox[c] \in Seq(ServerMsgs) /\ InFlight(c) \in Seq(ServerMsgs)
        BY InFlightType DEF SInv
      <4>2. /\ wire[c] \o sending[c] \o outbox[c] # <<>>
            /\ Tail(wire[c]) \o sending[c] \o outbox[c]
                 = Tail(wire[c] \o sending[c] \o outbox[c])
            /\ Head(wire[c]) = (wire[c] \o sending[c] \o outbox[c])[1]
        BY <3>1, <4>1, ReadFirst
      <4>3. /\ InFlight(c) = wire[c] \o sending[c] \o outbox[c]
            /\ InFlight(c)' = Tail(wire[c]) \o sending[c] \o outbox[c]
        BY <1>1, <3>1 DEF InFlight
      <4> QED
        BY <4>1, <4>2, <4>3
    <3>3. /\ Composes(InFlight(c), shown[c])
          /\ Held(c) => /\ OnlyFrames(InFlight(c))
                        /\ drawn[c] \in {Blank, Latest(InFlight(c), shown[c])}
      BY <1>4, <3>1 DEF Follows
    <3>4. /\ Composes(Tail(InFlight(c)), shown'[c])
          /\ OnlyFrames(InFlight(c)) =>
               /\ OnlyFrames(Tail(InFlight(c)))
               /\ Latest(Tail(InFlight(c)), shown'[c]) = Latest(InFlight(c), shown[c])
      BY <3>1, <3>2, <3>3, ComposesRead
    <3>5. Follows(c)'
      BY <1>1, <1>2, <3>2, <3>3, <3>4, FollowsNext
    <3>6. Unused(c)'
      BY <1>4, <3>1 DEF Unused
    <3> QED
      BY <3>5, <3>6
  <2>4. CASE ReadGoodbye(c) \/ ReadEof(c) \/ HangUp(c)
    <3>1. PICK how \in {"Detached", "Exited", "Lost", "HungUp"} : ClientEnds(c, how)
      <4>1. ReadGoodbye(c) => Head(wire[c]).kind \in {"Detached", "Exited"}
        <5> SUFFICES ASSUME ReadGoodbye(c)
                     PROVE  Head(wire[c]).kind \in {"Detached", "Exited"}
          OBVIOUS
        <5>1. Head(wire[c]) \in ServerMsgs /\ Head(wire[c]).kind # "Output"
          BY HeadTailProperties DEF ReadGoodbye, SInv, TypeOK
        <5> QED
          BY <5>1 DEF ServerMsgs, Frames, Goodbyes
      <4> QED
        BY <2>4, <4>1 DEF ReadGoodbye, ReadEof, HangUp
    <3>2. ~Connected(c)' /\ wire'[c] = <<>> /\ UNCHANGED conn
      BY <3>1 DEF ClientEnds, Connected, SInv, TypeOK, taskVars
    <3> QED
      BY <1>1, <1>4, <3>2 DEF Unused, Follows
  <2> QED
    BY <2>1, <2>2, <2>3, <2>4 DEF ClientStep, Read
<1> QED
  BY <1>3, <1>5 DEF Chained

LEMMA TaskChained ==
  ASSUME SInv, Chained, NEW c \in Clients, ConnStep(c) \/ WriterStep(c)
  PROVE  Chained'
<1>1. /\ UNCHANGED <<user, shown, drawn, client>>
      /\ \A d \in Clients \ {c} : /\ conn'[d] = conn[d] /\ wire'[d] = wire[d]
                                  /\ sending'[d] = sending[d] /\ outbox'[d] = outbox[d]
  <2>1. CASE ReadHello(c)
    BY <2>1 DEF ReadHello, SInv, TypeOK, userVars
  <2>2. CASE CloseConn(c)
    BY <2>2 DEF CloseConn, SInv, TypeOK, userVars, appVars
  <2>3. CASE WriterTakes(c)
    BY <2>3 DEF WriterTakes, SInv, TypeOK, userVars, appVars
  <2>4. CASE WriterWrites(c)
    BY <2>4 DEF WriterWrites, SInv, TypeOK, appVars
  <2>5. CASE WriterEnds(c)
    BY <2>5 DEF WriterEnds, SInv, TypeOK, userVars, appVars
  <2> QED
    BY <2>1, <2>2, <2>3, <2>4, <2>5 DEF ConnStep, WriterStep
<1>2. \A d : Connected(d)' <=> Connected(d)
  BY <1>1 DEF Connected
<1>3. \A d \in Clients \ {c} : Held(d)' => Held(d)
  <2>1. CASE ReadHello(c)
    <3>1. attaching' = attaching \/ attaching' = Append(attaching, c)
      BY <2>1 DEF ReadHello
    <3>2. /\ attaching \in Seq(Clients) /\ Append(attaching, c) \in Seq(Clients)
          /\ Len(Append(attaching, c)) = Len(attaching) + 1 /\ Len(attaching) \in Nat
          /\ Append(attaching, c)[Len(attaching) + 1] = c
          /\ \A i \in 1..Len(attaching) : Append(attaching, c)[i] = attaching[i]
      BY AppendProperties DEF SInv, TypeOK
    <3>3. DOMAIN attaching = 1..Len(attaching)
          /\ DOMAIN Append(attaching, c) = 1..Len(attaching) + 1
      BY <3>2
    <3> QED
      BY <1>1, <3>1, <3>2, <3>3 DEF Held
  <2>2. CASE CloseConn(c) \/ WriterStep(c)
    <3>1. UNCHANGED <<client, attaching>>
      BY <2>2 DEF CloseConn, WriterStep, WriterTakes, WriterWrites, WriterEnds, appVars
    <3> QED
      BY <3>1 DEF Held
  <2> QED
    BY <2>1, <2>2 DEF ConnStep
<1>4. ASSUME NEW d \in Clients, d # c
      PROVE  Unused(d)' /\ Follows(d)'
  <2>1. Unused(d) /\ Follows(d)
    BY DEF Chained
  <2> QED
    BY <1>1, <1>2, <1>3, <1>4, <2>1, FollowsQuiet DEF Unused
<1>5. Unused(c) /\ Follows(c) /\ Begun(c)
  BY DEF Chained, SInv, Sessions, Served
<1>6. Unused(c)' /\ Follows(c)'
  <2>1. CASE ReadHello(c)
    <3>1. /\ conn[c] = "Hello" /\ conn'[c] \in {"Open", "Late"}
          /\ wire' = wire /\ sending' = sending
      BY <2>1 DEF ReadHello, SInv, TypeOK, userVars
    <3>2. wire[c] = <<>> /\ sending[c] = <<>> /\ outbox[c] = <<>> /\ drawn[c] = Blank /\ ~Held(c)
      BY <1>5, <3>1 DEF Unused, Begun
    <3>3. CASE phase = "Running"
      <4>1. outbox' = outbox
        BY <2>1, <3>3 DEF ReadHello
      <4>2. InFlight(c)' = <<>>
        BY <3>1, <3>2, <4>1 DEF InFlight
      <4>3. (\A base : Composes(<<>>, base)) /\ OnlyFrames(<<>>)
        BY DEF Composes, OnlyFrames
      <4> QED
        BY <1>1, <3>1, <3>2, <4>2, <4>3, FollowsNext DEF Unused
    <3>4. CASE phase # "Running"
      <4>1. outbox'[c] = <<[kind |-> "Exited"]>> /\ attaching' = attaching
        BY <2>1, <3>4 DEF ReadHello, SInv, TypeOK
      <4>2. InFlight(c)' = <<[kind |-> "Exited"]>>
        BY <3>1, <3>2, <4>1 DEF InFlight
      <4>3. \A base : Composes(<<[kind |-> "Exited"]>>, base)
        BY DEF Composes
      <4>4. ~Held(c)'
        BY <1>1, <3>2, <4>1 DEF Held
      <4> QED
        BY <3>1, <4>2, <4>3, <4>4, FollowsNext DEF Unused
    <3> QED
      BY <3>3, <3>4
  <2>2. CASE CloseConn(c)
    <3>1. UNCHANGED <<wire, sending, outbox, attaching>> /\ conn'[c] = "Closed"
      BY <2>2 DEF CloseConn, SInv, TypeOK, userVars, appVars
    <3>2. Held(c)' => Held(c)
      BY <1>1, <3>1 DEF Held
    <3> QED
      BY <1>1, <1>2, <1>5, <3>1, <3>2, FollowsQuiet DEF Unused
  <2>3. CASE WriterStep(c)
    <3>1. UNCHANGED <<conn, attaching>> /\ writer[c] = "Running"
      BY <2>3 DEF WriterStep, WriterTakes, WriterWrites, WriterEnds, Working, appVars
    <3>2. conn[c] \notin {"None", "Hello"}
      BY <1>5, <3>1 DEF Begun
    <3>3. Unused(c)'
      BY <3>1, <3>2 DEF Unused
    <3>4. Held(c)' => Held(c)
      BY <1>1, <3>1 DEF Held
    <3>5. InFlight(c)' = InFlight(c) => Follows(c)'
      BY <1>1, <1>2, <1>5, <3>4, FollowsKept
    <3>6. CASE WriterTakes(c)
      <4>1. /\ sending[c] = <<>> /\ outbox[c] # <<>> /\ wire'[c] = wire[c]
            /\ sending'[c] = <<Head(outbox[c])>> /\ outbox'[c] = Tail(outbox[c])
        BY <3>6 DEF WriterTakes, SInv, TypeOK, userVars
      <4>2. InFlight(c)' = InFlight(c)
        BY <4>1, InFlightType, TakenFirst DEF InFlight, SInv
      <4> QED
        BY <3>3, <3>5, <4>2
    <3>7. CASE WriterWrites(c)
      <4>1. /\ wire'[c] = wire[c] \o sending[c] /\ sending'[c] = <<>> /\ outbox'[c] = outbox[c]
        BY <3>7 DEF WriterWrites, SInv, TypeOK
      <4>2. wire[c] \o sending[c] \in Seq(ServerMsgs)
        BY InFlightType, ConcatProperties DEF SInv
      <4>3. (wire[c] \o sending[c]) \o <<>> = wire[c] \o sending[c]
        BY <4>2, ConcatEmptySeq
      <4>4. InFlight(c)' = InFlight(c)
        BY <4>1, <4>3 DEF InFlight
      <4> QED
        BY <3>3, <3>5, <4>4
    <3>8. CASE WriterEnds(c)
      <4>1. /\ wire'[c] = wire[c] /\ sending'[c] = <<>> /\ outbox'[c] = <<>>
            /\ ~Connected(c) \/ (sending[c] = <<>> /\ outbox[c] = <<>>)
        BY <3>8 DEF WriterEnds, SInv, TypeOK, userVars
      <4>2. CASE ~Connected(c)
        BY <1>2, <3>3, <4>2 DEF Follows
      <4>3. CASE sending[c] = <<>> /\ outbox[c] = <<>>
        <5>1. InFlight(c)' = InFlight(c)
          BY <4>1, <4>3 DEF InFlight
        <5> QED
          BY <3>3, <3>5, <5>1
      <4> QED
        BY <4>1, <4>2, <4>3
    <3> QED
      BY <2>3, <3>6, <3>7, <3>8 DEF WriterStep
  <2> QED
    BY <2>1, <2>2, <2>3 DEF ConnStep
<1> QED
  BY <1>4, <1>6 DEF Chained

\* A turn that says goodbye to the attached client and lets go of it, or draws
\* nothing new, leaves the frames in order.
LEMMA GoodbyeChained ==
  ASSUME SInv, Chained, SayGoodbye, UNCHANGED <<user, shown, wire, sending, conn, drawn>>,
         \A d \in Clients : Held(d)' => Held(d) /\ d # client
  PROVE  Chained'
<1> SUFFICES ASSUME NEW d \in Clients
             PROVE  Unused(d)' /\ Follows(d)'
  BY DEF Chained
<1>1. Unused(d) /\ Follows(d)
  BY DEF Chained
<1>2. Connected(d)' <=> Connected(d)
  BY DEF Connected
<1>3. Unused(d)'
  BY <1>1 DEF Unused
<1>4. CASE d = client
  <2>1. outbox' = Queue(outbox, d, [kind |-> "Detached"])
    BY <1>4, SessionAssumption DEF SayGoodbye
  <2>2. [kind |-> "Detached"] \in ServerMsgs
    BY MsgTypes
  <2>3. \/ outbox'[d] = Append(outbox[d], [kind |-> "Detached"])
        \/ outbox'[d] = outbox[d]
    BY <2>1, <2>2, QueueType DEF SInv
  <2>4. Held(d) /\ ~Held(d)'
    BY <1>4 DEF Held
  <2>5. [kind |-> "Detached"].kind # "Output"
    OBVIOUS
  <2>6. Follows(d)'
    BY <1>1, <1>2, <2>2, <2>3, <2>4, <2>5, FollowsQueued DEF SInv
  <2> QED
    BY <1>3, <2>6
<1>5. CASE d # client
  <2>1. outbox'[d] = outbox[d]
    <3>1. CASE client = NoClient
      BY <3>1 DEF SayGoodbye
    <3>2. CASE client # NoClient
      <4>1. client \in Clients /\ outbox' = Queue(outbox, client, [kind |-> "Detached"])
        BY <3>2 DEF SayGoodbye, SInv, TypeOK
      <4> QED
        BY <1>5, <4>1, MsgTypes, QueueType DEF SInv
    <3> QED
      BY <3>1, <3>2
  <2> QED
    BY <1>1, <1>2, <1>3, <2>1, FollowsQuiet
<1> QED
  BY <1>4, <1>5

LEMMA LeaveChained ==
  ASSUME SInv, Chained, Leave, UNCHANGED <<user, shown, wire, sending, conn, drawn>>
  PROVE  Chained'
<1> SUFFICES ASSUME NEW d \in Clients
             PROVE  Unused(d)' /\ Follows(d)'
  BY DEF Chained
<1>1. Unused(d) /\ Follows(d)
  BY DEF Chained
<1>2. Connected(d)' <=> Connected(d)
  BY DEF Connected
<1>3. Unused(d)'
  BY <1>1 DEF Unused
<1>4. /\ client' = NoClient /\ attaching' = <<>>
      /\ outbox' = [c \in Clients |-> IF Held(c) THEN Queue(outbox, c, [kind |-> "Exited"])[c]
                                      ELSE outbox[c]]
  BY DEF Leave
<1>5. ~Held(d)'
  BY <1>4, SessionAssumption DEF Held
<1>6. CASE Held(d)
  <2>1. outbox'[d] = Queue(outbox, d, [kind |-> "Exited"])[d]
    BY <1>4, <1>6
  <2>2. [kind |-> "Exited"] \in ServerMsgs
    BY MsgTypes
  <2>3. \/ outbox'[d] = Append(outbox[d], [kind |-> "Exited"])
        \/ outbox'[d] = outbox[d]
    BY <2>1, <2>2, QueueType DEF SInv
  <2>4. [kind |-> "Exited"].kind # "Output"
    OBVIOUS
  <2>5. Follows(d)'
    BY <1>1, <1>2, <1>5, <1>6, <2>2, <2>3, <2>4, FollowsQueued DEF SInv
  <2> QED
    BY <1>3, <2>5
<1>7. CASE ~Held(d)
  <2>1. outbox'[d] = outbox[d]
    BY <1>4, <1>7
  <2> QED
    BY <1>1, <1>2, <1>3, <1>5, <2>1, FollowsQuiet
<1> QED
  BY <1>6, <1>7

LEMMA BeginQuitChained ==
  ASSUME SInv, Chained, BeginQuit \/ Leave \/ Stay,
         UNCHANGED <<user, shown, wire, sending, conn, drawn>>
  PROVE  Chained'
<1>1. Leave \/ Stay
  BY DEF BeginQuit
<1>2. CASE Stay
  <2>1. UNCHANGED <<client, attaching, outbox>>
    BY <1>2 DEF Stay
  <2>2. \A d : (Held(d)' => Held(d)) /\ (Connected(d)' => Connected(d))
    BY <2>1 DEF Held, Connected
  <2> QED
    BY <2>1, <2>2, QuietChained
<1> QED
  BY <1>1, <1>2, LeaveChained

\* The attached client is let go of without a word, or nothing happens to it.
LEMMA DropChained ==
  ASSUME Chained, UNCHANGED <<user, shown, wire, sending, outbox, conn, drawn, attaching>>,
         client' \in {client, NoClient}
  PROVE  Chained'
<1>1. \A d \in Clients : (Held(d)' => Held(d)) /\ (Connected(d)' => Connected(d))
  BY SessionAssumption DEF Held, Connected
<1> QED
  BY <1>1, QuietChained

LEMMA ResizeChained ==
  ASSUME SInv, Chained, client \in Clients, drawn' = [drawn EXCEPT ![client] = Blank],
         UNCHANGED <<user, shown, wire, sending, outbox, conn, client, attaching>>
  PROVE  Chained'
<1> SUFFICES ASSUME NEW d \in Clients
             PROVE  Unused(d)' /\ Follows(d)'
  BY DEF Chained
<1>1. Unused(d) /\ Follows(d)
  BY DEF Chained
<1>2. drawn'[d] = drawn[d] \/ drawn'[d] = Blank
  BY DEF SInv, TypeOK
<1>3. (Connected(d)' <=> Connected(d)) /\ (Held(d)' <=> Held(d))
  BY DEF Connected, Held
<1> QED
  BY <1>1, <1>2, <1>3, FollowsQuiet DEF Unused

LEMMA AttachChained ==
  ASSUME SInv, Chained, HandleAttach
  PROVE  Chained'
<1>1. /\ attaching # <<>> /\ SayGoodbye
      /\ client' = Head(attaching) /\ attaching' = Tail(attaching)
      /\ UNCHANGED <<user, shown, wire, sending, conn, drawn>>
  BY DEF HandleAttach, userVars
<1>2. attaching \in Seq(Clients) /\ Distinct
  BY DEF SInv, Sessions, TypeOK
<1>3. /\ Len(attaching) \in Nat /\ Len(attaching) >= 1
      /\ Tail(attaching) \in Seq(Clients)
      /\ Head(attaching) = attaching[1] /\ Len(Tail(attaching)) = Len(attaching) - 1
      /\ \A i \in 1..Len(Tail(attaching)) : Tail(attaching)[i] = attaching[i + 1]
  BY <1>1, <1>2, HeadTailProperties
<1>4. DOMAIN attaching = 1..Len(attaching) /\ DOMAIN attaching' = 1..Len(attaching')
  BY <1>1, <1>2, <1>3
<1>5. ASSUME NEW d \in Clients, Held(d)'
      PROVE  Held(d) /\ d # client
  <2>1. PICK i \in 1..Len(attaching) : attaching[i] = d
    <3>1. CASE client' = d
      <4>1. 1 \in 1..Len(attaching) /\ attaching[1] = d
        BY <1>1, <1>3, <3>1
      <4> QED
        BY <4>1
    <3>2. CASE \E i \in DOMAIN attaching' : attaching'[i] = d
      <4>1. PICK i \in 1..Len(attaching') : attaching'[i] = d
        BY <1>4, <3>2
      <4>2. i + 1 \in 1..Len(attaching) /\ attaching[i + 1] = d
        BY <1>1, <1>3, <4>1
      <4> QED
        BY <4>2
    <3> QED
      BY <1>5, <3>1, <3>2 DEF Held
  <2> QED
    BY <1>2, <1>4, <2>1 DEF Held, Distinct
<1> QED
  BY <1>1, <1>5, GoodbyeChained

LEMMA MsgChained ==
  ASSUME SInv, Chained, HandleClientMsg
  PROVE  Chained'
<1> DEFINE m == Head(typed[client])
<1>1. /\ client \in Clients
      /\ SelectTab(m) \/ Resize(m) \/ Detach(m) \/ ForceQuit(m) \/ Ignore(m)
      /\ UNCHANGED <<user, shown, wire, sending, conn>>
  BY DEF HandleClientMsg, SInv, TypeOK
<1> HIDE DEF m
<1>2. CASE SelectTab(m) \/ Ignore(m) \/ ForceQuit(m)
  <2>1. (BeginQuit \/ Leave \/ Stay) /\ drawn' = drawn
    BY <1>2 DEF SelectTab, Ignore, ForceQuit
  <2> QED
    BY <1>1, <2>1, BeginQuitChained
<1>3. CASE Resize(m)
  BY <1>1, <1>3, ResizeChained DEF Resize, Stay
<1>4. CASE Detach(m)
  <2>1. SayGoodbye /\ client' = NoClient /\ UNCHANGED <<attaching, drawn>>
    BY <1>4 DEF Detach
  <2>2. ASSUME NEW d \in Clients, Held(d)'
        PROVE  Held(d) /\ d # client
    <3>1. PICK i \in DOMAIN attaching : attaching[i] = d
      BY <2>1, <2>2, SessionAssumption DEF Held
    <3>2. i \in 1..Len(attaching) /\ Distinct
      <4>1. attaching \in Seq(Clients) /\ Distinct
        BY DEF SInv, Sessions, TypeOK
      <4>2. DOMAIN attaching = 1..Len(attaching)
        BY <4>1
      <4> QED
        BY <4>1, <4>2
    <3>3. d # client
      BY <3>1, <3>2 DEF Distinct
    <3> QED
      BY <3>1, <3>3 DEF Held
  <2> QED
    BY <1>1, <2>1, <2>2, GoodbyeChained
<1> QED
  BY <1>1, <1>2, <1>3, <1>4

LEMMA SentChained ==
  ASSUME SInv, Chained, DrawSent
  PROVE  Chained'
<1> DEFINE frame == [kind |-> "Output", from |-> drawn[client], to |-> View]
<1>1. /\ client \in Clients /\ writer[client] = "Running" /\ outbox[client] = <<>>
      /\ outbox' = Queue(outbox, client, frame)
      /\ drawn' = [drawn EXCEPT ![client] = View]
      /\ UNCHANGED <<user, shown, wire, sending, conn, client, attaching>>
  BY DEF DrawSent, SInv, TypeOK, userVars
<1>2. frame \in ServerMsgs
  <2>1. View \in Views /\ drawn[client] \in Views \cup {Blank}
    BY <1>1, ViewType DEF SInv, TypeOK
  <2> QED
    BY <2>1, MsgTypes
<1>3. frame.kind = "Output" /\ frame.from = drawn[client] /\ frame.to = View
  OBVIOUS
<1> HIDE DEF frame
<1>4. Len(outbox[client]) < OutputQueueSize
  <2>1. Len(<<>>) = 0
    OBVIOUS
  <2> QED
    BY <1>1, <2>1, SessionAssumption
<1>5. /\ outbox'[client] = Append(outbox[client], frame)
      /\ \A d \in Clients \ {client} : outbox'[d] = outbox[d]
  BY <1>1, <1>2, <1>4, QueueType DEF SInv
<1>6. /\ drawn'[client] = View
      /\ \A d \in Clients \ {client} : drawn'[d] = drawn[d]
  BY <1>1 DEF SInv, TypeOK
<1>7. \A d : (Connected(d)' <=> Connected(d)) /\ (Held(d)' <=> Held(d))
  BY <1>1 DEF Connected, Held
<1>8. ASSUME NEW d \in Clients
      PROVE  Unused(d)' /\ Follows(d)'
  <2>1. Unused(d) /\ Follows(d) /\ Begun(d)
    BY DEF Chained, SInv, Sessions, Served
  <2>2. CASE d = client
    <3>1. Held(d)
      BY <2>2 DEF Held
    <3>2. conn'[d] \notin {"None", "Hello"}
      BY <1>1, <2>1, <3>1 DEF Begun
    <3>3. Follows(d)'
      BY <1>1, <1>2, <1>3, <1>5, <1>6, <1>7, <2>1, <2>2, <3>1, FollowsQueued DEF SInv
    <3> QED
      BY <3>2, <3>3 DEF Unused
  <2>3. CASE d # client
    BY <1>1, <1>5, <1>6, <1>7, <2>1, <2>3, FollowsQuiet DEF Unused
  <2> QED
    BY <2>2, <2>3
<1> QED
  BY <1>8 DEF Chained

LEMMA TurnChained ==
  ASSUME SInv, Chained, Turn
  PROVE  Chained'
<1>1. CASE HandleAttach
  BY <1>1, AttachChained
<1>2. CASE HandleQuit
  BY <1>2, BeginQuitChained DEF HandleQuit, userVars
<1>3. CASE HandleClientMsg
  BY <1>3, MsgChained
<1>4. CASE DropClient
  BY <1>4, DropChained DEF DropClient, userVars, taskVars
<1>5. CASE DrawSent
  BY <1>5, SentChained
<1>6. CASE DrawDisconnected
  BY <1>6, DropChained DEF DrawDisconnected, userVars, taskVars
<1>7. ASSUME NEW t \in Tabs, HandleOutput(t)
      PROVE  Chained'
  BY <1>7, DropChained DEF HandleOutput, userVars, taskVars
<1>8. ASSUME NEW t \in Tabs, HandleExit(t)
      PROVE  Chained'
  <2>1. (Leave \/ Stay) /\ UNCHANGED <<user, shown, wire, sending, conn, drawn>>
    BY <1>8 DEF HandleExit, userVars
  <2> QED
    BY <2>1, BeginQuitChained
<1>9. CASE Flushed \/ FlushTimesOut
  <2>1. UNCHANGED <<user, shown, wire, sending, outbox, conn, drawn, client, attaching>>
    BY <1>9 DEF Flushed, FlushTimesOut, userVars, taskVars
  <2> QED
    BY <2>1, DropChained
<1> QED
  BY <1>1, <1>2, <1>3, <1>4, <1>5, <1>6, <1>7, <1>8, <1>9 DEF Turn, Draw

LEMMA InitChained == Init => Chained
<1> SUFFICES ASSUME Init, NEW c \in Clients
             PROVE  Unused(c) /\ Follows(c)
  BY DEF Chained
<1>1. Unused(c)
  BY DEF Init, Unused
<1>2. ~Connected(c)
  BY DEF Init, Connected
<1> QED
  BY <1>1, <1>2 DEF Follows

LEMMA NextChained == SInv /\ Chained /\ [Next]_vars => Chained'
<1> SUFFICES ASSUME SInv, Chained, [Next]_vars
             PROVE  Chained'
  OBVIOUS
<1>1. CASE UNCHANGED vars
  BY <1>1, DropChained DEF vars, userVars, taskVars, appVars
<1> QED
  BY <1>1, ClientChained, TaskChained, TurnChained DEF Next

\* Every frame is a diff against what its reader will show by then, and nothing
\* follows a goodbye, for any number of frames in the outbox, the writer's hand
\* and the connection.
THEOREM FramesAlwaysCompose == Spec => []FramesCompose
<1>1. Init => SInv
  BY InitTypes, InitSessions DEF SInv
<1>2. SInv /\ Chained => FramesCompose
  <2> SUFFICES ASSUME SInv, Chained, NEW c \in Clients, Connected(c)
               PROVE  \A i \in DOMAIN InFlight(c) :
                        /\ InFlight(c)[i].kind = "Output" =>
                             \/ InFlight(c)[i].from = Blank
                             \/ InFlight(c)[i].from
                                  = IF i = 1 THEN shown[c] ELSE InFlight(c)[i - 1].to
                        /\ InFlight(c)[i].kind # "Output" => i = Len(InFlight(c))
    BY DEF FramesCompose
  <2>1. DOMAIN InFlight(c) = 1..Len(InFlight(c))
    <3> HIDE DEF InFlight
    <3>1. InFlight(c) \in Seq(ServerMsgs)
      BY InFlightType DEF SInv
    <3> QED
      BY <3>1
  <2>2. Composes(InFlight(c), shown[c])
    BY DEF Chained, Follows
  <2> QED
    BY <2>1, <2>2 DEF Composes
<1> QED
  BY <1>1, <1>2, InitChained, NextSessions, NextChained, PTL DEF Spec

=============================================================================
