-------------------------------- MODULE Wire --------------------------------
(***************************************************************************)
(* One direction of a connection (protocol.rs): messages as frames of a    *)
(* header (a tag, a length) and a payload, on a stream that carries any    *)
(* number of bytes at a time and may be cut after each.                    *)
(*                                                                         *)
(* Byte number i of frame number k is <<k, i>>.  The reader does not know  *)
(* that: it counts bytes, and finds the end of a frame by the length in    *)
(* the header it has read.                                                 *)
(***************************************************************************)
EXTENDS Naturals, Sequences

CONSTANTS
  Messages,
  Size,         \* Size[m]: the length of the payload of m
  Odd,          \* the events that ClientMsg::read cannot decode; from the
                \* server to the client there are none
  Unexpected,   \* what read fails on: an unknown tag, a size of bad length
  HeaderLen,    \* bytes in a header
  MaxFrameLen,
  PipeSize,     \* bytes the stream holds
  MaxSent       \* bound: messages written

ASSUME WireAssumption ==
  /\ Size \in [Messages -> Nat]
  /\ HeaderLen \in Nat \ {0} /\ PipeSize \in Nat \ {0}
  /\ MaxFrameLen \in Nat /\ MaxSent \in Nat

VARIABLES
  sent,         \* the messages whose writing began
  unwritten,    \* bytes of the last one that the stream has not taken
  writer,       \* whether the writing end is open
  pipe,         \* bytes in the stream
  frame,        \* bytes of the frame that is being read
  received,     \* the frames handed on, by number
  reader        \* reading, or why not

vars == <<sent, unwritten, writer, pipe, frame, received, reader>>

Bytes(k, m) == [i \in 1..(HeaderLen + Size[m]) |-> <<k, i>>]

-----------------------------------------------------------------------------
(* The writing end *)

\* write_frame, up to its first write: the length is not checked.
Write(m) ==
  /\ writer = "Open" /\ unwritten = <<>> /\ Len(sent) < MaxSent
  /\ sent' = Append(sent, m)
  /\ unwritten' = Bytes(Len(sent) + 1, m)
  /\ UNCHANGED <<writer, pipe, frame, received, reader>>

\* write_all goes on with what the stream takes.
Push(n) ==
  /\ writer = "Open" /\ reader = "Reading"
  /\ n \in 1..Len(unwritten) /\ Len(pipe) + n <= PipeSize
  /\ pipe' = pipe \o SubSeq(unwritten, 1, n)
  /\ unwritten' = SubSeq(unwritten, n + 1, Len(unwritten))
  /\ UNCHANGED <<sent, writer, frame, received, reader>>

\* The writer is done, is aborted in the middle of a frame, dies, or finds
\* nobody at the other end.  What the stream holds can still be read.
Close ==
  /\ writer = "Open"
  /\ writer' = "Closed"
  /\ unwritten' = <<>>
  /\ UNCHANGED <<sent, pipe, frame, received, reader>>

-----------------------------------------------------------------------------
(* The reading end *)

\* The length in a header, by its last byte.  Other bytes are never read as a
\* length, as the proofs show; a mutant's reader takes them for none.
PayloadLen ==
  LET b == frame[HeaderLen] IN IF b[2] = HeaderLen THEN Size[sent[b[1]]] ELSE 0

HeaderRead == Len(frame) >= HeaderLen

TooLarge == HeaderRead /\ PayloadLen > MaxFrameLen

\* Mutant: the payload of an odd event is left in the stream.
NeededIfDecoded ==
  IF HeaderRead /\ sent[frame[HeaderLen][1]] \notin Odd THEN HeaderLen + PayloadLen ELSE HeaderLen

\* How long the frame is, as far as the reader knows: read_frame takes the tag
\* and the length, then the payload.
Needed == IF HeaderRead THEN HeaderLen + PayloadLen ELSE HeaderLen

Reading == reader = "Reading"

Pull(n) ==
  /\ Reading /\ ~TooLarge
  /\ n \in 1..Len(pipe) /\ Len(frame) + n <= Needed
  /\ frame' = frame \o SubSeq(pipe, 1, n)
  /\ pipe' = SubSeq(pipe, n + 1, Len(pipe))
  /\ UNCHANGED <<sent, unwritten, writer, received, reader>>

\* The frame as decoded: the number of a message, or none that was sent.
Decoded == IF \E k \in DOMAIN sent : frame = Bytes(k, sent[k]) THEN frame[1][1] ELSE 0

WholeFrame == HeaderRead /\ ~TooLarge /\ Len(frame) = Needed

Malformed == Decoded \in DOMAIN sent /\ sent[Decoded] \in Unexpected

\* The frame is whole.  An odd event is dropped, and nothing else.
Deliver ==
  /\ Reading /\ WholeFrame /\ ~Malformed
  /\ frame' = <<>>
  /\ received' = IF Decoded \in DOMAIN sent /\ sent[Decoded] \in Odd
                 THEN received ELSE Append(received, Decoded)
  /\ UNCHANGED <<sent, unwritten, writer, pipe, reader>>

Ends(how) ==
  /\ Reading
  /\ reader' = how
  /\ UNCHANGED <<sent, unwritten, writer, pipe, frame, received>>

Reject == (TooLarge \/ (WholeFrame /\ Malformed)) /\ Ends("Failed")

\* Mutants: the end of the stream is seen before what it holds; only between
\* two frames.
EofAtOnce == writer = "Closed" /\ Ends("Failed")

EofBetweenFrames == writer = "Closed" /\ pipe = <<>> /\ frame = <<>> /\ Ends("Failed")

\* The stream ends, between two frames or within one.
Eof ==
  /\ writer = "Closed" /\ pipe = <<>>
  /\ ~HeaderRead \/ Len(frame) < Needed
  /\ Ends("Failed")

\* Whoever reads has had enough: the client ends, the App has another client.
Stop == Ends("Stopped")

-----------------------------------------------------------------------------
(* Specification *)

Init ==
  /\ sent = <<>> /\ unwritten = <<>> /\ writer = "Open"
  /\ pipe = <<>>
  /\ frame = <<>> /\ received = <<>> /\ reader = "Reading"

SomePush == \E n \in 1..Len(unwritten) : Push(n)

SomePull == \E n \in 1..Len(pipe) : Pull(n)

Next ==
  \/ \E m \in Messages : Write(m)
  \/ SomePush
  \/ Close
  \/ SomePull
  \/ Deliver
  \/ Reject
  \/ Eof
  \/ Stop

\* Both ends go on with what they have begun.  Nobody has to write or to close.
Fairness ==
  /\ WF_vars(SomePush) /\ WF_vars(SomePull)
  /\ WF_vars(Deliver) /\ WF_vars(Reject) /\ WF_vars(Eof)

Spec == Init /\ [][Next]_vars /\ Fairness

-----------------------------------------------------------------------------
(* Properties *)

\* However bytes are split, and wherever the stream is cut, messages come out
\* whole, in order and once; an odd one costs nothing but itself (protocol.rs's
\* comments on Event and ClientMsg::read, and what module Session relies on).
Promise == INSTANCE Channel WITH over <- ~Reading

KeepsOrder == Promise!Spec

InStream(k) == \E s \in {pipe, frame} : \E i \in DOMAIN s : s[i] = <<k, HeaderLen + Size[sent[k]]>>

\* A message that the stream has taken to its end arrives, even if the writer
\* closes at once, as after a goodbye; unless the reader has had enough, or has
\* failed on it or one before it, which was too large or unexpected.
WrittenArrives ==
  \A k \in 1..MaxSent :
    (k \in DOMAIN sent /\ sent[k] \notin Odd /\ InStream(k))
      ~> \/ \E i \in DOMAIN received : received[i] = k
         \/ reader = "Stopped"
         \/ \E j \in DOMAIN sent :
              j <= k /\ (Size[sent[j]] > MaxFrameLen \/ sent[j] \in Unexpected)

\* A reader notices that the other end is gone, also within a frame: `attach`
\* ends, and the App drops its client.
EndIsNoticed == writer = "Closed" ~> ~Reading

\* A message of this build's own is read, whatever its size.  It does not hold:
\* see the README.
AllSizesArrive ==
  reader = "Failed" => writer = "Closed" \/ \E k \in DOMAIN sent : sent[k] \in Unexpected

=============================================================================
