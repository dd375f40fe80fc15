------------------------------- MODULE Input -------------------------------
(***************************************************************************)
(* What is typed into a focused process (process.rs): Process::write,      *)
(* which never waits, the queue, and the task write_input, which feeds the *)
(* PTY and applies resizes.                                                *)
(*                                                                         *)
(* One spawn of one process.  Keys are numbered as they are typed; a key   *)
(* is KeyBytes bytes, each shown by its key's number.                      *)
(***************************************************************************)
EXTENDS Naturals, Sequences, FiniteSets

CONSTANTS
  QueueSize,    \* the capacity of the input channel
  KeyBytes,     \* the length of a key
  PtySize,      \* the bytes the PTY holds until the child reads them
  MaxKeys,      \* bound: keys typed
  MaxResizes    \* bound: resizes

ASSUME InputAssumption ==
  /\ QueueSize \in Nat \ {0}
  /\ KeyBytes \in Nat \ {0}
  /\ PtySize \in Nat \ {0}
  /\ MaxKeys \in Nat /\ MaxResizes \in Nat

VARIABLES
  running,    \* whether the lifecycle is Running, and the senders exist
  typed,      \* the number of keys typed
  queue,      \* the input channel
  dropping,   \* Process::dropping_input
  lost,       \* the keys dropped for want of room
  banners,    \* how often the user was told so
  resizes,    \* the latest size, by number
  writing,    \* whether write_input runs
  pending,    \* what it has yet to write of a key
  applied,    \* the size it gave the PTY last
  pty,        \* what the PTY holds
  open,       \* whether the child has the PTY open
  got         \* what the child read

appVars == <<running, typed, queue, dropping, lost, banners, resizes>>
taskVars == <<writing, pending, applied, pty, open, got>>
vars == <<appVars, taskVars>>

Key(k) == [i \in 1..KeyBytes |-> k]

-----------------------------------------------------------------------------
(* The App *)

\* Mutant: an overflow is forgotten at once.
WriteForgetful ==
  LET key == typed + 1 IN
    IF Len(queue) = QueueSize
    THEN /\ lost' = lost \cup {key}
         /\ banners' = banners + 1
         /\ UNCHANGED <<queue, dropping>>
    ELSE /\ queue' = Append(queue, key)
         /\ UNCHANGED <<lost, banners, dropping>>

\* Mutant: the user is told only if nothing was dropped before.
WriteToldOnce ==
  LET key == typed + 1 IN
    IF (dropping /\ queue # <<>>) \/ Len(queue) = QueueSize
    THEN /\ lost' = lost \cup {key}
         /\ banners' = 1
         /\ dropping' = TRUE
         /\ UNCHANGED queue
    ELSE /\ queue' = Append(queue, key)
         /\ dropping' = FALSE
         /\ UNCHANGED <<lost, banners>>

\* After an overflow, nothing is queued until the queue has drained.
Write ==
  LET key == typed + 1 IN
    IF (dropping /\ queue # <<>>) \/ Len(queue) = QueueSize
    THEN /\ lost' = lost \cup {key}
         /\ banners' = IF dropping THEN banners ELSE banners + 1
         /\ dropping' = TRUE
         /\ UNCHANGED queue
    ELSE /\ queue' = Append(queue, key)
         /\ dropping' = FALSE
         /\ UNCHANGED <<lost, banners>>

ForwardKey ==
  /\ running /\ typed < MaxKeys
  /\ typed' = typed + 1
  /\ Write
  /\ UNCHANGED <<running, resizes, taskVars>>

Resize ==
  /\ running /\ resizes < MaxResizes
  /\ resizes' = resizes + 1
  /\ UNCHANGED <<running, typed, queue, dropping, lost, banners, taskVars>>

\* stop drops the senders.
Stop ==
  /\ running /\ running' = FALSE
  /\ UNCHANGED <<typed, queue, dropping, lost, banners, resizes, taskVars>>

-----------------------------------------------------------------------------
(* write_input *)

\* Mutant: a resize waits for its turn behind the input.
ApplyInTurn ==
  /\ writing /\ applied # resizes /\ pending = <<>> /\ queue = <<>>
  /\ applied' = resizes
  /\ UNCHANGED <<appVars, writing, pending, pty, open, got>>

ApplySize ==
  /\ writing /\ applied # resizes
  /\ applied' = resizes
  /\ UNCHANGED <<appVars, writing, pending, pty, open, got>>

\* Mutant: the next key is taken before the last one is written.
TakeEarly ==
  /\ writing /\ queue # <<>>
  /\ pending' = Key(Head(queue))
  /\ queue' = Tail(queue)
  /\ UNCHANGED <<running, typed, dropping, lost, banners, resizes, writing, applied, pty, open, got>>

TakeInput ==
  /\ writing /\ pending = <<>> /\ queue # <<>>
  /\ pending' = Key(Head(queue))
  /\ queue' = Tail(queue)
  /\ UNCHANGED <<running, typed, dropping, lost, banners, resizes, writing, applied, pty, open, got>>

\* The PTY takes some of the bytes, as many as it has room for.
WriteSome ==
  /\ writing /\ pending # <<>> /\ open
  /\ \E n \in 1..Len(pending) :
       /\ Len(pty) + n <= PtySize
       /\ pty' = pty \o SubSeq(pending, 1, n)
       /\ pending' = SubSeq(pending, n + 1, Len(pending))
  /\ UNCHANGED <<appVars, writing, applied, open, got>>

WriteFails ==
  /\ writing /\ pending # <<>> /\ ~open
  /\ pending' = <<>>
  /\ UNCHANGED <<appVars, writing, applied, pty, open, got>>

\* Mutant: the task ends only between two keys.
EndsWhenIdle ==
  /\ writing /\ ~running /\ pending = <<>> /\ queue = <<>>
  /\ writing' = FALSE
  /\ UNCHANGED <<appVars, pending, applied, pty, open, got>>

\* The closed size channel ends the task, whatever it is writing, and so does
\* the closed input channel, between two keys.
WriterEnds ==
  /\ writing /\ ~running
  /\ applied = resizes \/ (pending = <<>> /\ queue = <<>>)
  /\ writing' = FALSE
  /\ UNCHANGED <<appVars, pending, applied, pty, open, got>>

-----------------------------------------------------------------------------
(* The child *)

ChildReads ==
  /\ open /\ pty # <<>>
  /\ got' = Append(got, Head(pty))
  /\ pty' = Tail(pty)
  /\ UNCHANGED <<appVars, writing, pending, applied, open>>

ChildCloses ==
  /\ open /\ open' = FALSE
  /\ pty' = <<>>
  /\ UNCHANGED <<appVars, writing, pending, applied, got>>

-----------------------------------------------------------------------------
(* Specification *)

Init ==
  /\ running = TRUE /\ typed = 0 /\ queue = <<>>
  /\ dropping = FALSE /\ lost = {} /\ banners = 0
  /\ resizes = 0 /\ applied = 0
  /\ writing = TRUE /\ pending = <<>>
  /\ pty = <<>> /\ open = TRUE /\ got = <<>>

Writer == ApplySize \/ TakeInput \/ WriteSome \/ WriteFails \/ WriterEnds

Next ==
  \/ ForwardKey
  \/ Resize
  \/ Stop
  \/ Writer
  \/ ChildReads
  \/ ChildCloses

\* select! picks among the branches that are ready: each is taken in the end.
\* The child need not read.
Fairness ==
  /\ WF_vars(ApplySize)
  /\ WF_vars(TakeInput)
  /\ WF_vars(WriteSome)
  /\ WF_vars(WriteFails)
  /\ WF_vars(WriterEnds)

Spec == Init /\ [][Next]_vars /\ Fairness

-----------------------------------------------------------------------------
(* Properties *)

Keys == 1..MaxKeys

\* Every variable holds a value of its type, and the queue its size.
TypeOK ==
  /\ running \in BOOLEAN
  /\ typed \in 0..MaxKeys
  /\ queue \in Seq(Keys) /\ Len(queue) <= QueueSize
  /\ dropping \in BOOLEAN
  /\ lost \subseteq Keys
  /\ banners \in 0..MaxKeys
  /\ resizes \in 0..MaxResizes /\ applied \in 0..MaxResizes
  /\ writing \in BOOLEAN
  /\ pending \in Seq(Keys) /\ Len(pending) <= KeyBytes
  /\ pty \in Seq(Keys) /\ Len(pty) <= PtySize
  /\ open \in BOOLEAN
  /\ got \in Seq(Keys)

\* What waits to be written was typed in one run: an overflow never splices
\* two parts of a paste into one queue (Process::write).
QueueIsOneRun ==
  \A i \in 1..Len(queue) - 1 : queue[i + 1] = queue[i] + 1

Bytes(keys) == [i \in 1..Len(keys) * KeyBytes |-> keys[(i - 1) \div KeyBytes + 1]]

\* The keys that were not lost, in the order typed.
Accepted ==
  LET upTo[k \in 0..typed] ==
        IF k = 0 THEN <<>> ELSE IF k \in lost THEN upTo[k - 1] ELSE Append(upTo[k - 1], k)
  IN  upTo[typed]

\* What the child read, and what is on its way, are the keys accepted, each
\* byte once and in the order typed, whatever part of a key each write takes and
\* whatever resizes come between (write_input).
BytesArriveInOrder ==
  open => got \o pty \o pending \o Bytes(queue) = Bytes(Accepted)

\* The user is told of every run of keys that was lost, and once of each
\* (the banner of Process::write).
EveryLossIsTold ==
  Cardinality({k \in lost : k - 1 \notin lost}) = banners

\* When keys are lost, so are all that follow: what the child gets is the
\* paste but for its tail, as the comment in Process::write says.  It does not
\* hold: see the README.
LosesATail == open => \A k \in lost : \A j \in k..typed : j \in lost

\* A resize reaches the PTY even if the child never reads, unless the process
\* is stopped first (the size channel of write_input).
ResizeApplies == running /\ applied # resizes ~> applied = resizes \/ ~running

\* After a stop, the task ends even if the child never reads (write_input).
WriterGoes == ~running ~> ~writing

=============================================================================
