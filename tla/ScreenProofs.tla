---------------------------- MODULE ScreenProofs ----------------------------
(***************************************************************************)
(* Proofs about the view, for any tabs, clients, keys and sizes of         *)
(* terminals: one size for what is drawn, emulated and told; dialogs that  *)
(* are the attached client's own; a full tab bar, on which a click hits    *)
(* what is drawn; and a status bar that names keys that do what it says.   *)
(***************************************************************************)
EXTENDS Screen, WellFoundedInduction, SequenceTheorems, FiniteSetTheorems, TLAPS

Dim == (1..U16) \X (2..U16)

Told == {Untold} \cup (Nat \X Nat)

Types ==
  /\ showHelp \in BOOLEAN
  /\ terminal \in Dim
  /\ size \in Nat \X Nat
  /\ state \in [Procs -> {"Running", "Stopping", "Stopped", "Failed"}]
  /\ pty \in [Procs -> Told]

ChildrenAgree ==
  ViewportRows(showHelp, terminal) > 0 => \A p \in Procs : state[p] = "Running" => pty[p] = size

\* What the App remembers of the client's terminal is the size of the client's
\* frames, and what it told and emulates is made for that.
Agree ==
  loop = "Running" /\ client # NoClient =>
    rect = terminal /\ size = TerminalSize(showHelp, terminal) /\ ChildrenAgree

SizeInv == Types /\ Agree

-----------------------------------------------------------------------------
(* Sizes *)

LEMMA RowsType ==
  ASSUME NEW help \in BOOLEAN, NEW dim \in Dim
  PROVE  /\ ViewportRows(help, dim) \in Nat
         /\ TerminalSize(help, dim) \in Nat \X Nat
         /\ TerminalSize(help, dim) = <<Larger(ViewportRows(help, dim), 1), dim[1]>>
         /\ ViewportRows(help, dim) > 0 =>
              TerminalSize(help, dim) = <<ViewportRows(help, dim), dim[1]>>
<1>1. dim[1] \in Nat /\ dim[1] >= 1 /\ dim[2] \in Nat
  <2>1. U16 \in Nat
    BY DEF U16
  <2>2. dim[1] \in 1..U16 /\ dim[2] \in 2..U16
    BY DEF Dim
  <2> QED
    BY <2>1, <2>2
<1>2. Bottom(help, dim[1]) \in Nat
  BY <1>1, ScreenAssumption DEF Bottom, HelpHeight
<1>3. ViewportRows(help, dim) \in Nat
  BY <1>1, <1>2 DEF ViewportRows, Minus, Larger
<1>4. Larger(ViewportRows(help, dim), 1) \in Nat /\ Larger(dim[1], 1) = dim[1]
  BY <1>1, <1>3 DEF Larger
<1>5. ViewportRows(help, dim) > 0 => Larger(ViewportRows(help, dim), 1) = ViewportRows(help, dim)
  BY <1>3 DEF Larger
<1> QED
  BY <1>1, <1>3, <1>4, <1>5 DEF TerminalSize

LEMMA ResizeAgrees ==
  ASSUME Types, NEW help \in BOOLEAN, NEW dim \in Dim, ResizeProcesses(help, dim)
  PROVE  /\ size' \in Nat \X Nat /\ size' = TerminalSize(help, dim)
         /\ pty' \in [Procs -> Told]
         /\ ViewportRows(help, dim) > 0 =>
              \A p \in Procs : state[p] = "Running" => pty'[p] = size'
<1>1. /\ size' = TerminalSize(help, dim)
      /\ pty' = [p \in Procs |-> IF state[p] = "Running" THEN <<ViewportRows(help, dim), dim[1]>>
                                                         ELSE Untold]
  BY DEF ResizeProcesses
<1>2. <<ViewportRows(help, dim), dim[1]>> \in Told
  BY RowsType DEF Told, Dim
<1>3. Untold \in Told
  BY DEF Told
<1> QED
  BY <1>1, <1>2, <1>3, RowsType

\* A start gives the child the size that is emulated; an exit takes it.
LEMMA SpawnAgrees ==
  ASSUME Types, ChildrenAgree, NEW p, Spawned(p), UNCHANGED <<showHelp, terminal, size>>
  PROVE  Types' /\ ChildrenAgree'
<1>1. /\ \/ state' = [state EXCEPT ![p] = "Running"] /\ pty' = [pty EXCEPT ![p] = size]
         \/ state' = [state EXCEPT ![p] = "Failed"] /\ pty' = [pty EXCEPT ![p] = Untold]
      /\ size \in Told /\ Untold \in Told
  BY DEF Spawned, Types, Told
<1>2. Types'
  BY <1>1 DEF Types
<1>3. ASSUME \A q \in Procs : state[q] = "Running" => pty[q] = size,
             NEW q \in Procs, state'[q] = "Running"
      PROVE  pty'[q] = size
  BY <1>1, <1>3 DEF Types
<1>4. ChildrenAgree'
  BY <1>3 DEF ChildrenAgree
<1> QED
  BY <1>2, <1>4

LEMMA SpawnType ==
  ASSUME Types, NEW p, Spawned(p), UNCHANGED <<showHelp, terminal, size>>
  PROVE  Types'
BY DEF Spawned, Types, Told

\* No more processes run, and those that do keep their size.
LEMMA FewerAgree ==
  ASSUME Types, UNCHANGED <<showHelp, terminal, size>>,
         state' \in [Procs -> {"Running", "Stopping", "Stopped", "Failed"}],
         pty' \in [Procs -> Told],
         \A p \in Procs : state'[p] = "Running" => state[p] = "Running" /\ pty'[p] = pty[p]
  PROVE  Types' /\ (ChildrenAgree => ChildrenAgree')
BY DEF Types, ChildrenAgree

-----------------------------------------------------------------------------
(* The size of the view, step by step *)

\* A step that changes nothing that sizes depend on, but may end the loop.
LEMMA SameSizes ==
  ASSUME SizeInv, UNCHANGED <<showHelp, rect, terminal, size, client, state, pty>>,
         loop' = "Running" => loop = "Running"
  PROVE  SizeInv'
<1>1. Types'
  BY DEF SizeInv, Types
<1>2. ChildrenAgree' <=> ChildrenAgree
  BY DEF ChildrenAgree
<1> QED
  BY <1>1, <1>2 DEF SizeInv, Agree

\* A step that resizes for the client's terminal and the help as it is then.
LEMMA Resizes ==
  ASSUME SizeInv, showHelp' \in BOOLEAN, terminal' \in Dim, rect' = terminal',
         ResizeProcesses(showHelp', terminal'), UNCHANGED state
  PROVE  SizeInv'
<1>1. /\ size' \in Nat \X Nat /\ size' = TerminalSize(showHelp', terminal')
      /\ pty' \in [Procs -> Told]
      /\ ViewportRows(showHelp', terminal') > 0 =>
           \A p \in Procs : state[p] = "Running" => pty'[p] = size'
  BY ResizeAgrees DEF SizeInv
<1>2. Types'
  BY <1>1 DEF SizeInv, Types
<1>3. ChildrenAgree'
  BY <1>1 DEF ChildrenAgree
<1>4. (size = TerminalSize(showHelp, terminal))'
  BY <1>1
<1> QED
  BY <1>2, <1>3, <1>4 DEF SizeInv, Agree

LEMMA BeginQuitSizes ==
  ASSUME SizeInv, BeginQuit, UNCHANGED <<client, rect, terminal>>, loop = "Running"
  PROVE  SizeInv'
<1>1. CASE AllStopped
  <2>1. loop' = "Exited" /\ UNCHANGED <<mode, showHelp, state, size, pty>>
    BY <1>1 DEF BeginQuit
  <2> QED
    BY <2>1, SameSizes
<1>2. CASE ~AllStopped
  <2>1. /\ showHelp' = FALSE /\ size' = TerminalSize(FALSE, terminal)
        /\ state' = Stopped /\ pty' = [p \in Procs |-> Untold] /\ UNCHANGED loop
    BY <1>2 DEF BeginQuit
  <2>2. state' \in [Procs -> {"Running", "Stopping", "Stopped", "Failed"}]
    BY <2>1 DEF Stopped, SizeInv, Types
  <2>3. \A p \in Procs : state'[p] # "Running"
    BY <2>1 DEF Stopped, SizeInv, Types
  <2>4. pty' \in [Procs -> Told]
    BY <2>1 DEF Told
  <2>5. size' \in Nat \X Nat
    BY <2>1, RowsType DEF SizeInv, Types
  <2>6. Types'
    BY <2>1, <2>2, <2>4, <2>5 DEF SizeInv, Types
  <2>7. ChildrenAgree'
    BY <2>3 DEF ChildrenAgree
  <2>8. (size = TerminalSize(showHelp, terminal))'
    BY <2>1
  <2> QED
    BY <2>1, <2>6, <2>7, <2>8 DEF SizeInv, Agree
<1> QED
  BY <1>1, <1>2

LEMMA LetGoSizes ==
  ASSUME SizeInv, LetGo
  PROVE  SizeInv'
<1>1. client' = NoClient /\ showHelp' = FALSE /\ UNCHANGED <<state, sizeVars, pty>>
  BY DEF LetGo, ResetView
<1> QED
  BY <1>1 DEF SizeInv, Types, Agree, sizeVars

LEMMA ProcessActionSizes ==
  ASSUME SizeInv, NEW action, ProcessAction(action)
  PROVE  SizeInv'
<1>1. UNCHANGED <<showHelp, rect, terminal, size, client, loop>>
  BY DEF ProcessAction, View, Alive, viewVars, sizeVars
<1>2. CASE Spawned(selected)
  <2>1. Types'
    BY <1>1, <1>2, SpawnType DEF SizeInv
  <2>2. ChildrenAgree => ChildrenAgree'
    BY <1>1, <1>2, SpawnAgrees DEF SizeInv
  <2> QED
    BY <1>1, <2>1, <2>2 DEF SizeInv, Agree
<1>3. CASE /\ state' = [state EXCEPT ![selected] = "Stopping"]
           /\ pty' = [pty EXCEPT ![selected] = Untold]
  <2>1. /\ state' \in [Procs -> {"Running", "Stopping", "Stopped", "Failed"}]
        /\ pty' \in [Procs -> Told]
        /\ \A p \in Procs : state'[p] = "Running" => state[p] = "Running" /\ pty'[p] = pty[p]
    BY <1>3 DEF SizeInv, Types, Told
  <2>2. Types' /\ (ChildrenAgree => ChildrenAgree')
    BY <1>1, <2>1, FewerAgree DEF SizeInv
  <2> QED
    BY <1>1, <2>2 DEF SizeInv, Agree
<1>4. CASE UNCHANGED <<state, pty>>
  BY <1>1, <1>4, SameSizes
<1> QED
  BY <1>2, <1>3, <1>4 DEF ProcessAction

LEMMA ExitSizes ==
  ASSUME SizeInv, NEW p \in Procs, ProcessExits(p)
  PROVE  SizeInv'
<1>1. /\ UNCHANGED <<showHelp, rect, terminal, size, client>>
      /\ loop = "Running"
      /\ \/ Spawned(p)
         \/ state' = [state EXCEPT ![p] = "Stopped"] /\ pty' = [pty EXCEPT ![p] = Untold]
  BY DEF ProcessExits, View, viewVars, sizeVars
<1>2. CASE Spawned(p)
  <2>1. Types'
    BY <1>1, <1>2, SpawnType DEF SizeInv
  <2>2. ChildrenAgree => ChildrenAgree'
    BY <1>1, <1>2, SpawnAgrees DEF SizeInv
  <2> QED
    BY <1>1, <2>1, <2>2 DEF SizeInv, Agree
<1>3. CASE state' = [state EXCEPT ![p] = "Stopped"] /\ pty' = [pty EXCEPT ![p] = Untold]
  <2>1. /\ state' \in [Procs -> {"Running", "Stopping", "Stopped", "Failed"}]
        /\ pty' \in [Procs -> Told]
        /\ \A q \in Procs : state'[q] = "Running" => state[q] = "Running" /\ pty'[q] = pty[q]
    BY <1>3 DEF SizeInv, Types, Told
  <2>2. Types' /\ (ChildrenAgree => ChildrenAgree')
    BY <1>1, <2>1, FewerAgree DEF SizeInv
  <2> QED
    BY <1>1, <2>2 DEF SizeInv, Agree
<1> QED
  BY <1>1, <1>2, <1>3

LEMMA PressSizes ==
  ASSUME SizeInv, NEW key \in AllKeys, Press(key)
  PROVE  SizeInv'
<1> DEFINE action == Resolve(key, mode, UnfocusKey[selected])
<1>1. /\ loop = "Running"
      /\ \/ SelectAction(key, action)
         \/ ModeAction(action)
         \/ ProcessAction(action)
         \/ SearchAction(action)
         \/ ToggleHelp(action)
         \/ QuitAction(action)
         \/ LetGo
         \/ OtherAction(action)
  BY DEF Press
<1> HIDE DEF action
<1>2. CASE SelectAction(key, action)
  BY <1>2, SameSizes DEF SelectAction, Select, View, Sized, Alive, viewVars, sizeVars
<1>3. CASE ModeAction(action)
  BY <1>3, SameSizes DEF ModeAction, View, Sized, Alive, viewVars, sizeVars
<1>4. CASE SearchAction(action)
  BY <1>4, SameSizes DEF SearchAction, Sized, Alive, sizeVars
<1>5. CASE OtherAction(action)
  BY <1>5, SameSizes DEF OtherAction, View, Sized, Alive, viewVars, sizeVars
<1>6. CASE ToggleHelp(action)
  <2>1. /\ showHelp' = ~showHelp /\ ResizeProcesses(showHelp', terminal)
        /\ UNCHANGED <<client, loop, state, rect, terminal>>
    BY <1>6 DEF ToggleHelp, Alive
  <2>2. showHelp' \in BOOLEAN /\ terminal \in Dim
    BY <2>1 DEF SizeInv, Types
  <2>3. CASE rect = terminal
    BY <2>1, <2>2, <2>3, Resizes
  <2>4. CASE rect # terminal
    <3>1. ~(loop = "Running" /\ client # NoClient)
      BY <2>4 DEF SizeInv, Agree
    <3>2. size' \in Nat \X Nat /\ pty' \in [Procs -> Told]
      BY <2>1, <2>2, ResizeAgrees DEF SizeInv
    <3> QED
      BY <2>1, <2>2, <3>1, <3>2 DEF SizeInv, Types, Agree
  <2> QED
    BY <2>3, <2>4
<1>7. CASE QuitAction(action)
  <2>1. CASE BeginQuit /\ UNCHANGED <<client, rect, terminal>>
    BY <1>1, <2>1, BeginQuitSizes
  <2>2. CASE /\ UNCHANGED <<showHelp, rect, terminal, size, client, state, pty>>
             /\ loop' = "Running" => loop = "Running"
    BY <2>2, SameSizes
  <2> QED
    BY <1>1, <1>7, <2>1, <2>2 DEF QuitAction, View, Sized, Alive, viewVars, sizeVars
<1> QED
  BY <1>1, <1>2, <1>3, <1>4, <1>5, <1>6, <1>7, ProcessActionSizes, LetGoSizes

\* Frames, emulated terminals and children have one size, whatever clients
\* attach, resize, show and start, and in which order.
THEOREM OneSize == Spec => []SizesAgree
<1>1. Init => SizeInv
  <2> SUFFICES ASSUME Init
               PROVE  SizeInv
    OBVIOUS
  <2>1. <<80, 24>> \in Dim /\ <<22, 80>> \in Nat \X Nat
    <3>1. 80 \in 1..U16 /\ 24 \in 2..U16
      BY DEF U16
    <3> QED
      BY <3>1 DEF Dim
  <2>2. pty \in [Procs -> Told]
    BY <2>1 DEF Init, Told
  <2>3. Types
    BY <2>1, <2>2 DEF Init, Types
  <2> QED
    BY <2>3 DEF Init, SizeInv, Agree
<1>2. SizeInv /\ [Next]_vars => SizeInv'
  <2> SUFFICES ASSUME SizeInv, [Next]_vars
               PROVE  SizeInv'
    OBVIOUS
  <2>1. ASSUME NEW dim \in Sizes, Resize(dim)
        PROVE  SizeInv'
    <3>1. dim \in Dim
      BY ScreenAssumption DEF Dim
    <3>2. /\ rect' = dim /\ terminal' = dim /\ showHelp' = showHelp /\ UNCHANGED state
          /\ ResizeProcesses(showHelp, dim)
      BY <2>1 DEF Resize, View, viewVars
    <3> QED
      BY <3>1, <3>2, Resizes DEF SizeInv, Types
  <2>2. ASSUME NEW dim \in Sizes, NEW c \in Clients, Attach(c, dim)
        PROVE  SizeInv'
    <3>1. dim \in Dim
      BY ScreenAssumption DEF Dim
    <3>2. /\ rect' = dim /\ terminal' = dim /\ showHelp' = FALSE /\ UNCHANGED state
          /\ ResizeProcesses(FALSE, dim)
      BY <2>2 DEF Attach, SetSize, ResetView
    <3> QED
      BY <3>1, <3>2, Resizes
  <2>3. CASE QuitRequest
    BY <2>3, BeginQuitSizes DEF QuitRequest
  <2>4. ASSUME NEW col, Click(col)
        PROVE  SizeInv'
    BY <2>4, SameSizes DEF Click, Select, Sized, Alive, sizeVars
  <2>5. CASE UNCHANGED vars
    BY <2>5, SameSizes DEF vars, viewVars, sizeVars
  <2>6. CASE Next
    BY <2>1, <2>2, <2>3, <2>4, <2>6, LetGoSizes, PressSizes, ExitSizes DEF Next, Step
  <2> QED
    BY <2>5, <2>6
<1>3. SizeInv => SizesAgree
  <2> SUFFICES ASSUME SizeInv, loop = "Running", client # NoClient
               PROVE  LET rows == Minus(rect[2], 1 + Bottom(showHelp, rect[1])) IN
                        /\ size = <<Larger(rows, 1), rect[1]>>
                        /\ rows > 0 => \A p \in Procs : state[p] = "Running" => pty[p] = size
    BY DEF SizesAgree
  <2>1. rect = terminal /\ size = TerminalSize(showHelp, terminal) /\ ChildrenAgree
    BY DEF SizeInv, Agree
  <2>2. size = <<Larger(ViewportRows(showHelp, terminal), 1), terminal[1]>>
    BY <2>1, RowsType DEF SizeInv, Types
  <2>3. Minus(rect[2], 1 + Bottom(showHelp, rect[1])) = ViewportRows(showHelp, terminal)
    BY <2>1 DEF ViewportRows
  <2> QED
    BY <2>1, <2>2, <2>3 DEF ChildrenAgree
<1> QED
  BY <1>1, <1>2, <1>3, PTL DEF Spec

-----------------------------------------------------------------------------
(* Modes *)

\* A key in Focused is typed, or ends it.
LEMMA FocusedKeys ==
  ASSUME NEW key, mode = "Focused"
  PROVE  Resolve(key, mode, UnfocusKey[selected]) \in {"Unfocus", "ForwardKey"}
BY DEF Resolve, ResolveFocused

\* The mode becomes Normal or Quitting, or stays what it is, for the client
\* and the tab it was entered with.
LEMMA ModeStays ==
  ASSUME ModeIsOwn,
         entered' = IF mode' = mode THEN entered
                    ELSE IF mode' \in OwnModes THEN <<client, selected>> ELSE <<NoClient, 1>>,
         \/ mode' \in {"Normal", "Quitting"}
         \/ /\ UNCHANGED <<mode, client>>
            /\ mode = "Focused" => UNCHANGED selected
  PROVE  ModeIsOwn'
BY DEF ModeIsOwn, OwnModes

\* The mode is entered by a key of the client, for the selected tab.
LEMMA ModeEntered ==
  ASSUME ModeIsOwn, client # NoClient, UNCHANGED <<client, selected>>,
         entered' = IF mode' = mode THEN entered
                    ELSE IF mode' \in OwnModes THEN <<client, selected>> ELSE <<NoClient, 1>>
  PROVE  ModeIsOwn'
BY DEF ModeIsOwn, OwnModes

\* Dialogs, prompts and focus are of the client that opened them, and focus is
\* on the tab it was given, whoever attaches, detaches, clicks and quits.
THEOREM OwnDialogs == Spec => []ModeIsOwn
<1>1. Init => ModeIsOwn
  BY DEF Init, ModeIsOwn, OwnModes
<1>2. ModeIsOwn /\ [Next]_vars => ModeIsOwn'
  <2> SUFFICES ASSUME ModeIsOwn, [Next]_vars
               PROVE  ModeIsOwn'
    OBVIOUS
  <2>1. CASE UNCHANGED vars
    BY <2>1 DEF vars, ModeIsOwn
  <2>2. CASE Next
    <3>1. entered' = IF mode' = mode THEN entered
                     ELSE IF mode' \in OwnModes THEN <<client, selected>> ELSE <<NoClient, 1>>
      BY <2>2 DEF Next
    <3>2. ASSUME NEW dim \in Sizes, Resize(dim)
          PROVE  ModeIsOwn'
      BY <3>1, <3>2, ModeStays DEF Resize, View, Alive
    <3>3. ASSUME NEW dim \in Sizes, NEW c \in Clients, Attach(c, dim)
          PROVE  ModeIsOwn'
      <4>1. mode' \in {"Normal", "Quitting"}
        BY <3>3 DEF Attach, ResetView, ModeAfterReset
      <4> QED
        BY <3>1, <4>1, ModeStays
    <3>4. CASE LetGo
      <4>1. mode' \in {"Normal", "Quitting"}
        BY <3>4 DEF LetGo, ResetView, ModeAfterReset
      <4> QED
        BY <3>1, <4>1, ModeStays
    <3>5. CASE QuitRequest
      <4>1. mode' = "Quitting" \/ UNCHANGED mode
        BY <3>5 DEF QuitRequest, BeginQuit
      <4>2. UNCHANGED <<selected, client>>
        BY <3>5 DEF QuitRequest
      <4> QED
        BY <3>1, <4>1, <4>2, ModeStays
    <3>6. ASSUME NEW key \in AllKeys, Press(key)
          PROVE  ModeIsOwn'
      <4> DEFINE action == Resolve(key, mode, UnfocusKey[selected])
      <4>1. /\ client # NoClient
            /\ \/ SelectAction(key, action)
               \/ ModeAction(action)
               \/ ProcessAction(action)
               \/ SearchAction(action)
               \/ ToggleHelp(action)
               \/ QuitAction(action)
               \/ LetGo
               \/ OtherAction(action)
        BY <3>6 DEF Press
      <4>2. mode = "Focused" => action \in {"Unfocus", "ForwardKey"}
        BY FocusedKeys
      <4> HIDE DEF action
      <4>3. CASE SelectAction(key, action)
        <5>1. UNCHANGED <<mode, client>> /\ action \in {"SelectTab", "NextTab", "PrevTab"}
          BY <4>3 DEF SelectAction, Alive
        <5>2. mode # "Focused"
          BY <4>2, <5>1
        <5> QED
          BY <3>1, <5>1, <5>2, ModeStays
      <4>4. CASE \/ ModeAction(action) \/ ProcessAction(action) \/ SearchAction(action)
                 \/ ToggleHelp(action) \/ QuitAction(action) \/ OtherAction(action)
        <5>1. CASE ModeAction(action) \/ ProcessAction(action) \/ SearchAction(action)
          <6>1. UNCHANGED <<client, selected>>
            BY <5>1 DEF ModeAction, ProcessAction, SearchAction, Alive
          <6> QED
            BY <3>1, <4>1, <6>1, ModeEntered
        <5>2. CASE ToggleHelp(action) \/ QuitAction(action) \/ OtherAction(action)
          <6>1. UNCHANGED <<client, selected>>
            BY <5>2 DEF ToggleHelp, QuitAction, OtherAction, Alive
          <6> QED
            BY <3>1, <4>1, <6>1, ModeEntered
        <5> QED
          BY <4>4, <5>1, <5>2
      <4> QED
        BY <3>4, <4>1, <4>3, <4>4
    <3>7. ASSUME NEW col, Click(col)
          PROVE  ModeIsOwn'
      <4>1. mode' = "Normal" \/ (mode # "Focused" /\ UNCHANGED <<mode, client>>)
        BY <3>7 DEF Click, Alive
      <4> QED
        BY <3>1, <4>1, ModeStays
    <3>8. ASSUME NEW p \in Procs, ProcessExits(p)
          PROVE  ModeIsOwn'
      BY <3>1, <3>8, ModeStays DEF ProcessExits
    <3> QED
      BY <2>2, <3>2, <3>3, <3>4, <3>5, <3>6, <3>7, <3>8 DEF Next, Step
  <2> QED
    BY <2>1, <2>2
<1> QED
  BY <1>1, <1>2, PTL DEF Spec

-----------------------------------------------------------------------------
(* Induction *)

LEMMA Least ==
  ASSUME NEW S \in SUBSET Nat, S # {}
  PROVE  \E x \in S : \A y \in S : x <= y
<1> DEFINE R == OpToRel(<, Nat)
<1>1. IsWellFoundedOn(R, Nat)
  BY NatLessThanWellFounded
<1>2. \A x, y \in Nat : x < y => <<x, y>> \in R
  BY DEF OpToRel
<1> HIDE DEF R
<1>3. \E x \in S : \A y \in S : ~ (<<y, x>> \in R)
  BY <1>1, WFMin
<1>4. PICK x \in S : \A y \in S : ~ (<<y, x>> \in R)
  BY <1>3
<1>5. \A y \in S : x <= y
  <2> TAKE y \in S
  <2>1. ~(y < x)
    BY <1>2, <1>4
  <2> QED
    BY <2>1
<1> QED
  BY <1>5

LEMMA Induction ==
  ASSUME NEW T, 0 \in T, \A n \in Nat : n \in T => n + 1 \in T
  PROVE  \A n \in Nat : n \in T
<1> SUFFICES ASSUME Nat \ T # {}
             PROVE  FALSE
  OBVIOUS
<1>1. PICK x \in Nat \ T : \A y \in Nat \ T : x <= y
  <2> DEFINE S == Nat \ T
  <2>1. S \in SUBSET Nat /\ S # {}
    OBVIOUS
  <2> HIDE DEF S
  <2>2. \E x \in S : \A y \in S : x <= y
    BY <2>1, Least
  <2> QED
    BY <2>2 DEF S
<1>2. x # 0
  OBVIOUS
<1>3. x - 1 \in Nat /\ ~(x <= x - 1)
  BY <1>2
<1>4. x - 1 \in T
  BY <1>1, <1>3
<1>5. (x - 1) + 1 \in T /\ (x - 1) + 1 = x
  BY <1>3, <1>4
<1> QED
  BY <1>5

-----------------------------------------------------------------------------
(* Columns *)

\* The element that the folds of the community modules take next.
Some(s) == CHOOSE x \in s : TRUE

Columns(s) == FoldFunctionOnSet(+, 0, Widths, s)

\* f adds the widths up, as the fold does.
AddsUp(f) ==
  \A s \in SUBSET Procs :
    f[s] = IF s = {} THEN 0 ELSE Widths[Some(s)] + f[s \ {Some(s)}]

LEMMA WidthsType ==
  /\ Len(Widths) \in Nat /\ Len(Widths) >= 1 /\ Procs = 1..Len(Widths)
  /\ \A p \in Procs : Widths[p] \in Nat
  /\ U16 \in Nat
<1>1. Widths \in Seq(1..U16) /\ Widths # <<>>
  BY ScreenAssumption
<1>2. U16 \in Nat
  BY DEF U16
<1> QED
  BY <1>1, <1>2 DEF Procs

LEMMA SomeIsIn ==
  ASSUME NEW s, s # {}
  PROVE  Some(s) \in s
BY DEF Some

LEMMA CountProcs ==
  ASSUME NEW s \in SUBSET Procs
  PROVE  /\ IsFiniteSet(s) /\ Cardinality(s) \in Nat
         /\ Cardinality(s) = 0 <=> s = {}
         /\ \A x \in s : s \ {x} \in SUBSET Procs /\ Cardinality(s \ {x}) = Cardinality(s) - 1
<1>1. IsFiniteSet(1..Len(Widths))
  BY WidthsType, FS_Interval
<1>2. IsFiniteSet(s)
  BY <1>1, WidthsType, FS_Subset
<1>3. \A x \in s : Cardinality(s \ {x}) = Cardinality(s) - 1
  BY <1>2, FS_RemoveElement
<1> QED
  BY <1>2, <1>3, FS_CardinalityType, FS_EmptySet

\* What holds of the empty set, and of a set if of that set without the element
\* that is taken, holds of every set of tabs.
LEMMA SetInduction ==
  ASSUME NEW T, {} \in T,
         \A s \in SUBSET Procs : s # {} /\ s \ {Some(s)} \in T => s \in T
  PROVE  \A s \in SUBSET Procs : s \in T
<1> DEFINE N == {k \in Nat : \A s \in SUBSET Procs : Cardinality(s) = k => s \in T}
<1>1. 0 \in N
  BY CountProcs
<1>2. ASSUME NEW k \in Nat, k \in N
      PROVE  k + 1 \in N
  <2> SUFFICES ASSUME NEW s \in SUBSET Procs, Cardinality(s) = k + 1
               PROVE  s \in T
    OBVIOUS
  <2>1. s # {}
    BY CountProcs
  <2>2. /\ s \ {Some(s)} \in SUBSET Procs /\ Cardinality(s \ {Some(s)}) = k
    BY <2>1, SomeIsIn, CountProcs
  <2>3. s \ {Some(s)} \in T
    BY <1>2, <2>2
  <2> QED
    BY <2>1, <2>3
<1> HIDE DEF N
<1>3. \A k \in Nat : k \in N
  BY <1>1, <1>2, Induction
<1> QED
  BY <1>3, CountProcs DEF N

LEMMA AdderExists == \E f : AddsUp(f)
<1> DEFINE step(f, s) == IF s = {} THEN 0 ELSE Widths[Some(s)] + f[s \ {Some(s)}]
           Adds(k) == \E f : \A s \in SUBSET Procs : Cardinality(s) <= k => f[s] = step(f, s)
           N == {k \in Nat : Adds(k)}
<1>1. 0 \in N
  <2> DEFINE f == [s \in SUBSET Procs |-> 0]
  <2>1. \A s \in SUBSET Procs : Cardinality(s) <= 0 => f[s] = step(f, s)
    <3> TAKE s \in SUBSET Procs
    <3>1. Cardinality(s) <= 0 => s = {}
      BY CountProcs
    <3> QED
      BY <3>1
  <2> QED
    BY <2>1
<1>2. ASSUME NEW k \in Nat, k \in N
      PROVE  k + 1 \in N
  <2>1. PICK f : \A s \in SUBSET Procs : Cardinality(s) <= k => f[s] = step(f, s)
    BY <1>2
  <2> DEFINE h == [s \in SUBSET Procs |-> IF Cardinality(s) <= k THEN f[s] ELSE step(f, s)]
  <2>2. ASSUME NEW s \in SUBSET Procs, Cardinality(s) <= k + 1
        PROVE  h[s] = step(h, s)
    <3>1. h[s] = step(f, s)
      BY <2>1
    <3>2. CASE s = {}
      BY <3>1, <3>2
    <3>3. CASE s # {}
      <4> DEFINE t == s \ {Some(s)}
      <4>1. t \in SUBSET Procs /\ Cardinality(t) <= k
        BY <2>2, <3>3, SomeIsIn, CountProcs
      <4>2. h[t] = f[t]
        BY <4>1
      <4> QED
        BY <3>1, <3>3, <4>2
    <3> QED
      BY <3>2, <3>3
  <2>3. \A s \in SUBSET Procs : Cardinality(s) <= k + 1 => h[s] = step(h, s)
    BY <2>2
  <2>4. Adds(k + 1)
    BY <2>3
  <2> HIDE DEF Adds
  <2> QED
    BY <2>4
<1> HIDE DEF N
<1>3. \A k \in Nat : k \in N
  BY <1>1, <1>2, Induction
<1>4. Cardinality(Procs) \in Nat
  BY CountProcs
<1>5. PICK f : \A s \in SUBSET Procs : Cardinality(s) <= Cardinality(Procs) => f[s] = step(f, s)
  BY <1>3, <1>4 DEF N
<1>6. \A s \in SUBSET Procs : Cardinality(s) <= Cardinality(Procs)
  BY CountProcs, FS_Subset
<1> QED
  BY <1>5, <1>6 DEF AddsUp

\* The fold of the model adds up what any such f does.
LEMMA ColumnsAdd ==
  ASSUME NEW f, AddsUp(f), NEW s \in SUBSET Procs
  PROVE  Columns(s) = f[s]
<1> DEFINE fold == CHOOSE g : g = [t \in SUBSET s |->
                     IF t = {} THEN 0 ELSE Widths[Some(t)] + g[t \ {Some(t)}]]
<1>1. Columns(s) = fold[s]
  BY DEF Columns, FoldFunctionOnSet, MapThenFoldSet, Some
<1>2. \E g : g = [t \in SUBSET s |-> IF t = {} THEN 0 ELSE Widths[Some(t)] + g[t \ {Some(t)}]]
  <2> DEFINE h == [t \in SUBSET s |-> f[t]]
  <2>1. h = [t \in SUBSET s |-> IF t = {} THEN 0 ELSE Widths[Some(t)] + h[t \ {Some(t)}]]
    BY DEF AddsUp
  <2> QED
    BY <2>1
<1>3. fold = [t \in SUBSET s |-> IF t = {} THEN 0 ELSE Widths[Some(t)] + fold[t \ {Some(t)}]]
  BY <1>2
<1> HIDE DEF fold
<1> DEFINE T == {t \in SUBSET Procs : t \subseteq s => fold[t] = f[t]}
<1>4. {} \in T
  BY <1>3 DEF AddsUp
<1>5. ASSUME NEW t \in SUBSET Procs, t # {}, t \ {Some(t)} \in T
      PROVE  t \in T
  <2> SUFFICES ASSUME t \subseteq s
               PROVE  fold[t] = f[t]
    OBVIOUS
  <2>1. fold[t \ {Some(t)}] = f[t \ {Some(t)}]
    BY <1>5
  <2> QED
    BY <1>3, <1>5, <2>1 DEF AddsUp
<1> HIDE DEF T
<1>6. s \in T
  BY <1>4, <1>5, SetInduction
<1> QED
  BY <1>1, <1>6 DEF T

LEMMA ColumnsStep ==
  /\ Columns({}) = 0
  /\ \A s \in SUBSET Procs :
       s # {} => Columns(s) = Widths[Some(s)] + Columns(s \ {Some(s)})
<1>1. PICK f : AddsUp(f)
  BY AdderExists
<1> QED
  BY <1>1, ColumnsAdd DEF AddsUp

LEMMA ColumnsType ==
  ASSUME NEW s \in SUBSET Procs
  PROVE  Columns(s) \in Nat
<1> DEFINE T == {t \in SUBSET Procs : Columns(t) \in Nat}
<1>1. {} \in T
  BY ColumnsStep
<1>2. ASSUME NEW t \in SUBSET Procs, t # {}, t \ {Some(t)} \in T
      PROVE  t \in T
  <2>1. Columns(t) = Widths[Some(t)] + Columns(t \ {Some(t)})
    BY <1>2, ColumnsStep
  <2>2. Widths[Some(t)] \in Nat
    BY <1>2, SomeIsIn, WidthsType
  <2> QED
    BY <1>2, <2>1, <2>2
<1> HIDE DEF T
<1>3. s \in T
  BY <1>1, <1>2, SetInduction
<1> QED
  BY <1>3 DEF T

\* The order of addition does not matter.
LEMMA ColumnsWithout ==
  ASSUME NEW s \in SUBSET Procs, NEW y \in s
  PROVE  Columns(s) = Widths[y] + Columns(s \ {y})
<1> DEFINE N == {k \in Nat : \A t \in SUBSET Procs : Cardinality(t) = k =>
                                \A z \in t : Columns(t) = Widths[z] + Columns(t \ {z})}
<1>1. 0 \in N
  BY CountProcs
<1>2. ASSUME NEW k \in Nat, k \in N
      PROVE  k + 1 \in N
  <2> SUFFICES ASSUME NEW t \in SUBSET Procs, Cardinality(t) = k + 1, NEW z \in t
               PROVE  Columns(t) = Widths[z] + Columns(t \ {z})
    OBVIOUS
  <2> DEFINE x == Some(t)
  <2>1. x \in t
    BY SomeIsIn
  <2>2. Columns(t) = Widths[x] + Columns(t \ {x})
    BY ColumnsStep
  <2> HIDE DEF x
  <2>3. CASE x = z
    BY <2>2, <2>3
  <2>4. CASE x # z
    <3> DEFINE a == t \ {x}
               b == t \ {z}
               c == a \ {z}
    <3>1. /\ a \in SUBSET Procs /\ Cardinality(a) = k /\ z \in a
          /\ b \in SUBSET Procs /\ Cardinality(b) = k /\ x \in b
          /\ b \ {x} = c /\ c \in SUBSET Procs
      BY <2>1, <2>4, CountProcs
    <3> HIDE DEF a, b
    <3>2. Columns(a) = Widths[z] + Columns(c)
      BY <1>2, <3>1
    <3>3. Columns(b) = Widths[x] + Columns(c)
      BY <1>2, <3>1
    <3> HIDE DEF c
    <3>4. Columns(c) \in Nat /\ Widths[x] \in Nat /\ Widths[z] \in Nat
      BY <2>1, <3>1, ColumnsType, WidthsType
    <3>5. Columns(t) = Widths[x] + Columns(a)
      BY <2>2 DEF a
    <3>6. Columns(t) = Widths[z] + Columns(b)
      BY <3>1, <3>2, <3>3, <3>4, <3>5
    <3> QED
      BY <3>6 DEF b
  <2> QED
    BY <2>3, <2>4
<1> HIDE DEF N
<1>3. \A k \in Nat : k \in N
  BY <1>1, <1>2, Induction
<1> QED
  BY <1>3, CountProcs DEF N

LEMMA ColumnsSplit ==
  ASSUME NEW s \in SUBSET Procs, NEW u \in SUBSET s
  PROVE  Columns(u) + Columns(s \ u) = Columns(s)
<1> DEFINE T == {t \in SUBSET Procs : t \subseteq s => Columns(t) + Columns(s \ t) = Columns(s)}
<1>1. {} \in T
  <2>1. s \ {} = s
    OBVIOUS
  <2> QED
    BY <2>1, ColumnsStep, ColumnsType
<1>2. ASSUME NEW t \in SUBSET Procs, t # {}, t \ {Some(t)} \in T
      PROVE  t \in T
  <2> SUFFICES ASSUME t \subseteq s
               PROVE  Columns(t) + Columns(s \ t) = Columns(s)
    OBVIOUS
  <2> DEFINE x == Some(t)
             a == t \ {x}
             b == s \ a
  <2>1. x \in t
    BY <1>2, SomeIsIn
  <2>2. /\ a \in SUBSET Procs /\ b \in SUBSET Procs /\ x \in b /\ b \ {x} = s \ t
        /\ s \ t \in SUBSET Procs
    BY <2>1
  <2>3. Columns(a) + Columns(b) = Columns(s)
    BY <1>2
  <2>4. Columns(t) = Widths[x] + Columns(a)
    BY <1>2, ColumnsStep
  <2> HIDE DEF x, a, b
  <2>5. Columns(b) = Widths[x] + Columns(s \ t)
    BY <2>2, ColumnsWithout
  <2>6. Columns(a) \in Nat /\ Columns(s \ t) \in Nat /\ Widths[x] \in Nat
    BY <2>1, <2>2, ColumnsType, WidthsType
  <2> QED
    BY <2>3, <2>4, <2>5, <2>6
<1> HIDE DEF T
<1>3. u \in T
  BY <1>1, <1>2, SetInduction
<1> QED
  BY <1>3 DEF T

LEMMA ColumnsMore ==
  ASSUME NEW s \in SUBSET Procs, NEW u \in SUBSET s
  PROVE  /\ Columns(u) <= Columns(s)
         /\ \A y \in u : Widths[y] <= Columns(s)
<1>1. u \in SUBSET Procs /\ s \ u \in SUBSET Procs
  OBVIOUS
<1>2. Columns(u) \in Nat /\ Columns(s \ u) \in Nat /\ Columns(s) \in Nat
  BY <1>1, ColumnsType
<1>3. Columns(u) <= Columns(s)
  BY <1>2, ColumnsSplit
<1>4. ASSUME NEW y \in u
      PROVE  Widths[y] <= Columns(s)
  <2>1. s \ {y} \in SUBSET Procs /\ y \in s
    OBVIOUS
  <2>2. Columns(s) = Widths[y] + Columns(s \ {y})
    BY <2>1, ColumnsWithout
  <2>3. Columns(s \ {y}) \in Nat /\ Widths[y] \in Nat
    BY <2>1, ColumnsType, WidthsType
  <2> QED
    BY <1>2, <2>2, <2>3
<1> QED
  BY <1>3, <1>4

\* The tabs from one to another.
LEMMA ColumnsOfRange ==
  ASSUME NEW a \in Procs, NEW b \in Procs, a <= b
  PROVE  /\ Columns(a..b) \in Nat
         /\ Columns(a..b) = Columns(a..(b - 1)) + Widths[b]
         /\ Columns(a..b) = Widths[a] + Columns((a + 1)..b)
         /\ Columns(a..(b - 1)) \in Nat /\ Columns((a + 1)..b) \in Nat
<1> DEFINE s == a..b
           x == a..(b - 1)
           y == (a + 1)..b
<1>1. /\ s \in SUBSET Procs /\ x \in SUBSET Procs /\ y \in SUBSET Procs
      /\ a \in s /\ b \in s /\ s \ {b} = x /\ s \ {a} = y
  BY WidthsType
<1> HIDE DEF s, x, y
<1>2. Columns(s) \in Nat /\ Columns(x) \in Nat /\ Columns(y) \in Nat
  BY <1>1, ColumnsType
<1>3. Columns(s) = Widths[b] + Columns(x) /\ Columns(s) = Widths[a] + Columns(y)
  BY <1>1, ColumnsWithout
<1>4. Widths[b] \in Nat
  BY WidthsType
<1>5. Columns(s) = Columns(x) + Widths[b]
  BY <1>2, <1>3, <1>4
<1> QED
  BY <1>2, <1>3, <1>5 DEF s, x, y

-----------------------------------------------------------------------------
(* Columns of a terminal *)

\* Sums of widths do not wrap: the tabs and the marks on both sides have less
\* columns than a u16 counts.
Narrow == Columns(Procs) + 2 * OverflowWidth < U16

\* No tab is narrower than the mark that stands for hidden ones (tab_width: four
\* columns and the name).
WideTabs == \A p \in Procs : Widths[p] >= OverflowWidth

LEMMA PlusIsPlain ==
  ASSUME NEW a \in Nat, NEW b \in Nat, a + b < U16
  PROVE  Plus(a, b) = a + b
BY DEF Plus, U16

LEMMA SpanIsColumns ==
  ASSUME Narrow, NEW r, r[1]..r[2] \in SUBSET Procs
  PROVE  Span(Widths, r) = Columns(r[1]..r[2])
<1> DEFINE s == r[1]..r[2]
           fold == CHOOSE g : g = [t \in SUBSET s |->
                     IF t = {} THEN 0 ELSE Plus(Widths[Some(t)], g[t \ {Some(t)}])]
<1>1. Span(Widths, r) = fold[s]
  BY DEF Span, FoldFunctionOnSet, MapThenFoldSet, Some
<1> HIDE DEF s
<1>2. s \in SUBSET Procs
  BY DEF s
<1>3. ASSUME NEW t \in SUBSET Procs, t # {}
      PROVE  Columns(t) = Plus(Widths[Some(t)], Columns(t \ {Some(t)}))
  <2>1. Some(t) \in Procs /\ t \ {Some(t)} \in SUBSET Procs
    BY <1>3, SomeIsIn
  <2>2. Columns(t) = Widths[Some(t)] + Columns(t \ {Some(t)})
    BY <1>3, ColumnsStep
  <2>3. /\ Columns(t) <= Columns(Procs) /\ Columns(Procs) \in Nat /\ Columns(t) \in Nat
        /\ Columns(t \ {Some(t)}) \in Nat
    BY <2>1, ColumnsMore, ColumnsType
  <2>4. Widths[Some(t)] \in Nat
    BY <2>1, WidthsType
  <2>5. Columns(t) < U16
    BY <2>3, WidthsType DEF Narrow, OverflowWidth
  <2> QED
    BY <2>2, <2>3, <2>4, <2>5, PlusIsPlain
<1>4. fold = [t \in SUBSET s |->
                IF t = {} THEN 0 ELSE Plus(Widths[Some(t)], fold[t \ {Some(t)}])]
  <2> DEFINE h == [t \in SUBSET s |-> Columns(t)]
  <2>1. h = [t \in SUBSET s |-> IF t = {} THEN 0 ELSE Plus(Widths[Some(t)], h[t \ {Some(t)}])]
    <3>1. ASSUME NEW t \in SUBSET s
          PROVE  h[t] = IF t = {} THEN 0 ELSE Plus(Widths[Some(t)], h[t \ {Some(t)}])
      <4>1. t \in SUBSET Procs /\ t \ {Some(t)} \in SUBSET s
        BY <1>2
      <4> QED
        BY <1>3, <4>1, ColumnsStep
    <3> QED
      BY <3>1
  <2> HIDE DEF h
  <2> QED
    BY <2>1
<1> HIDE DEF fold
<1> DEFINE T == {t \in SUBSET Procs : t \subseteq s => fold[t] = Columns(t)}
<1>5. {} \in T
  BY <1>4, ColumnsStep
<1>6. ASSUME NEW t \in SUBSET Procs, t # {}, t \ {Some(t)} \in T
      PROVE  t \in T
  <2> SUFFICES ASSUME t \subseteq s
               PROVE  fold[t] = Columns(t)
    OBVIOUS
  <2>1. fold[t \ {Some(t)}] = Columns(t \ {Some(t)})
    BY <1>6
  <2>2. fold[t] = Plus(Widths[Some(t)], fold[t \ {Some(t)}])
    BY <1>4, <1>6
  <2> QED
    BY <1>3, <1>6, <2>1, <2>2
<1> HIDE DEF T
<1>7. s \in T
  BY <1>2, <1>5, <1>6, SetInduction
<1> QED
  BY <1>1, <1>2, <1>7 DEF T, s

\* The columns that a range of tabs takes, with the marks for those it hides.
Needed(a, b) ==
  Columns(a..b) + (IF a > 1 THEN 2 ELSE 0) + (IF b < Len(Widths) THEN 2 ELSE 0)

LEMMA NeededType ==
  ASSUME NEW a \in Procs, NEW b \in Procs
  PROVE  Needed(a, b) \in Nat
<1>1. a..b \in SUBSET Procs
  BY WidthsType
<1>2. Columns(a..b) \in Nat
  BY <1>1, ColumnsType
<1> QED
  BY <1>2 DEF Needed

LEMMA FitsIfRoom ==
  ASSUME Narrow, NEW area \in Nat, NEW a \in Procs, NEW b \in Procs
  PROVE  Fits(Widths, area, <<a, b>>) <=> Needed(a, b) <= area
<1> DEFINE left == IF a > 1 THEN 2 ELSE 0
           right == IF b < Len(Widths) THEN 2 ELSE 0
           c == Columns(a..b)
<1>1. a..b \in SUBSET Procs
  BY WidthsType
<1>2. Span(Widths, <<a, b>>) = c
  BY <1>1, SpanIsColumns
<1>3. c \in Nat /\ c <= Columns(Procs) /\ Columns(Procs) \in Nat
  BY <1>1, ColumnsType, ColumnsMore
<1>4. /\ left \in Nat /\ right \in Nat
      /\ LeftCost(<<a, b>>) = left /\ RightCost(Widths, <<a, b>>) = right
  BY DEF LeftCost, RightCost, OverflowWidth
<1>5. Needed(a, b) = c + left + right
  BY DEF Needed
<1>6. c + 4 < U16 /\ left <= 2 /\ right <= 2
  BY <1>3, WidthsType DEF Narrow, OverflowWidth
<1> HIDE DEF c, left, right
<1>7. Plus(c, left) = c + left
  BY <1>3, <1>4, <1>6, WidthsType, PlusIsPlain
<1>8. Plus(c + left, right) = (c + left) + right
  <2>1. c + left \in Nat /\ (c + left) + right < U16
    BY <1>3, <1>4, <1>6, WidthsType
  <2> QED
    BY <1>4, <2>1, PlusIsPlain
<1> QED
  BY <1>2, <1>4, <1>5, <1>7, <1>8 DEF Fits

\* More tabs never need less room.
LEMMA MoreNeedsMore ==
  ASSUME WideTabs, NEW a \in Procs, NEW b \in Procs, NEW x \in Procs, NEW y \in Procs,
         x <= a, a <= b, b <= y
  PROVE  Needed(a, b) <= Needed(x, y)
<1> DEFINE s == a..b
           l == x..b
           w == x..y
<1>1. s \in SUBSET l /\ l \in SUBSET w /\ w \in SUBSET Procs /\ l \in SUBSET Procs
  BY WidthsType
<1>2. /\ x < a => x \in l \ s
      /\ b < y => y \in w \ l
  BY WidthsType
<1>3. /\ Columns(s) + Columns(l \ s) = Columns(l)
      /\ Columns(l) + Columns(w \ l) = Columns(w)
  BY <1>1, ColumnsSplit
<1>4. l \ s \in SUBSET Procs /\ w \ l \in SUBSET Procs
  BY <1>1
<1>5. ASSUME NEW u \in SUBSET Procs, NEW z \in u
      PROVE  Columns(u) >= 2
  <2>1. Widths[z] <= Columns(u) /\ Columns(u) \in Nat
    BY ColumnsMore, ColumnsType
  <2>2. Widths[z] \in Nat /\ Widths[z] >= 2
    BY WidthsType DEF WideTabs, OverflowWidth
  <2> QED
    BY <2>1, <2>2
<1>6. /\ x < a => Columns(l \ s) >= 2
      /\ b < y => Columns(w \ l) >= 2
  BY <1>2, <1>4, <1>5
<1>7. /\ Columns(s) \in Nat /\ Columns(l) \in Nat /\ Columns(w) \in Nat
      /\ Columns(l \ s) \in Nat /\ Columns(w \ l) \in Nat
  BY <1>1, <1>4, ColumnsType
<1>8. Len(Widths) \in Nat /\ a \in Nat /\ b \in Nat /\ x \in Nat /\ y \in Nat
      /\ x >= 1 /\ y <= Len(Widths)
  BY WidthsType
<1>9. /\ Needed(a, b) = Columns(s) + (IF a > 1 THEN 2 ELSE 0) + (IF b < Len(Widths) THEN 2 ELSE 0)
      /\ Needed(x, y) = Columns(w) + (IF x > 1 THEN 2 ELSE 0) + (IF y < Len(Widths) THEN 2 ELSE 0)
  BY DEF Needed
<1> HIDE DEF s, l, w
<1> QED
  BY SMTT(30), <1>3, <1>6, <1>7, <1>8, <1>9

-----------------------------------------------------------------------------
(* The visible range *)

Ranges == (1..Len(Widths)) \X (1..Len(Widths))

\* How much is hidden, and what the loop of visible_range uses up.
Hidden(r) == (Len(Widths) - r[2]) + r[1]

LEMMA HiddenType ==
  ASSUME NEW r \in Ranges
  PROVE  /\ Hidden(r) \in Nat
         /\ r[1] \in Procs /\ r[2] \in Procs /\ r = <<r[1], r[2]>>
BY WidthsType DEF Hidden, Ranges

\* An iteration shows more tabs, which fit, or finds that none does on either
\* side.
LEMMA ExpandIs ==
  ASSUME NEW area, NEW r \in Ranges, NEW e, e = Expand(Widths, area, r)
  PROVE  /\ e \in Ranges /\ e[1] <= r[1] /\ r[2] <= e[2]
         /\ e # r => Fits(Widths, area, e) /\ Hidden(e) < Hidden(r)
         /\ e = r => /\ r[2] < Len(Widths) => ~Fits(Widths, area, <<r[1], r[2] + 1>>)
                     /\ r[1] > 1 => ~Fits(Widths, area, <<r[1] - 1, r[2]>>)
<1> DEFINE right == <<r[1], r[2] + 1>>
           s == IF r[2] < Len(Widths) /\ Fits(Widths, area, right) THEN right ELSE r
           left == <<s[1] - 1, s[2]>>
           t == IF s[1] > 1 /\ Fits(Widths, area, left) THEN left ELSE s
<1>1. e = t
  BY DEF Expand
<1>2. /\ Len(Widths) \in Nat /\ r[1] \in 1..Len(Widths) /\ r[2] \in 1..Len(Widths)
      /\ r = <<r[1], r[2]>>
  BY WidthsType DEF Ranges
<1>3. /\ s \in Ranges /\ s[1] = r[1] /\ r[2] <= s[2]
      /\ s # r => Fits(Widths, area, s) /\ s[2] = r[2] + 1
      /\ s = r /\ r[2] < Len(Widths) => ~Fits(Widths, area, right)
  <2>1. CASE r[2] < Len(Widths) /\ Fits(Widths, area, right)
    <3>1. s = right /\ right[1] = r[1] /\ right[2] = r[2] + 1
      BY <2>1
    <3>2. right \in Ranges /\ right # r
      BY <1>2, <2>1, <3>1 DEF Ranges
    <3> HIDE DEF s, right
    <3> QED
      BY <1>2, <2>1, <3>1, <3>2
  <2>2. CASE ~(r[2] < Len(Widths) /\ Fits(Widths, area, right))
    <3>1. s = r
      BY <2>2
    <3> HIDE DEF s, right
    <3> QED
      BY <1>2, <2>2, <3>1
  <2> QED
    BY <2>1, <2>2
<1> HIDE DEF s
<1>4. s[1] \in 1..Len(Widths) /\ s[2] \in 1..Len(Widths) /\ s = <<s[1], s[2]>>
  BY <1>3 DEF Ranges
<1>5. CASE s[1] > 1 /\ Fits(Widths, area, left)
  <2>1. t = left /\ left[1] = s[1] - 1 /\ left[2] = s[2]
    BY <1>5
  <2>2. left \in Ranges /\ Fits(Widths, area, left)
    BY <1>2, <1>4, <1>5, <2>1 DEF Ranges
  <2>3. left # r
    BY <1>2, <1>3, <2>1
  <2> HIDE DEF t, left
  <2>4. Hidden(left) < Hidden(r)
    BY <1>2, <1>3, <1>4, <2>1 DEF Hidden
  <2> QED
    BY <1>1, <1>2, <1>3, <1>4, <2>1, <2>2, <2>3, <2>4
<1>6. CASE ~(s[1] > 1 /\ Fits(Widths, area, left))
  <2>1. t = s
    BY <1>6
  <2> HIDE DEF t
  <2>2. s # r => Hidden(s) < Hidden(r)
    BY <1>2, <1>3, <1>4 DEF Hidden
  <2> QED
    BY <1>1, <1>2, <1>3, <1>6, <2>1, <2>2
<1> QED
  BY <1>5, <1>6

\* f is what the loop ends with, from each range.
Expands(f, area) ==
  f = [r \in Ranges |-> IF Expand(Widths, area, r) = r THEN r ELSE f[Expand(Widths, area, r)]]

LEMMA ExpansionExists ==
  ASSUME NEW area
  PROVE  \E f : Expands(f, area)
<1> DEFINE next(r) == Expand(Widths, area, r)
           step(f, r) == IF next(r) = r THEN r ELSE f[next(r)]
           Ends(k) == \E f : \A r \in Ranges : Hidden(r) <= k => f[r] = step(f, r)
           N == {k \in Nat : Ends(k)}
<1>1. \A r \in Ranges : next(r) \in Ranges /\ (next(r) # r => Hidden(next(r)) < Hidden(r))
  BY ExpandIs
<1>2. 0 \in N
  <2> DEFINE f == [r \in Ranges |-> r]
  <2>1. ASSUME NEW r \in Ranges, Hidden(r) <= 0
        PROVE  f[r] = step(f, r)
    <3>1. next(r) = r
      BY <1>1, <2>1, HiddenType
    <3> QED
      BY <3>1
  <2>2. \A r \in Ranges : Hidden(r) <= 0 => f[r] = step(f, r)
    BY <2>1
  <2>3. Ends(0)
    BY <2>2
  <2> HIDE DEF Ends
  <2> QED
    BY <2>3
<1>3. ASSUME NEW k \in Nat, k \in N
      PROVE  k + 1 \in N
  <2>1. PICK f : \A r \in Ranges : Hidden(r) <= k => f[r] = step(f, r)
    BY <1>3
  <2> DEFINE h == [r \in Ranges |-> IF Hidden(r) <= k THEN f[r] ELSE step(f, r)]
  <2>2. ASSUME NEW r \in Ranges, Hidden(r) <= k + 1
        PROVE  h[r] = step(h, r)
    <3>1. h[r] = step(f, r)
      BY <2>1
    <3>2. CASE next(r) = r
      BY <3>1, <3>2
    <3>3. CASE next(r) # r
      <4>1. next(r) \in Ranges /\ Hidden(next(r)) <= k
        BY <1>1, <2>2, <3>3, HiddenType
      <4>2. h[next(r)] = f[next(r)]
        BY <4>1
      <4> QED
        BY <3>1, <3>3, <4>2
    <3> QED
      BY <3>2, <3>3
  <2>3. \A r \in Ranges : Hidden(r) <= k + 1 => h[r] = step(h, r)
    BY <2>2
  <2>4. Ends(k + 1)
    BY <2>3
  <2> HIDE DEF Ends
  <2> QED
    BY <2>4
<1> HIDE DEF N
<1>4. \A k \in Nat : k \in N
  BY <1>2, <1>3, Induction
<1>5. 2 * Len(Widths) \in Nat /\ \A r \in Ranges : Hidden(r) <= 2 * Len(Widths)
  BY WidthsType DEF Ranges, Hidden
<1>6. PICK f : \A r \in Ranges : Hidden(r) <= 2 * Len(Widths) => f[r] = step(f, r)
  BY <1>4, <1>5 DEF N
<1> DEFINE g == [r \in Ranges |-> f[r]]
<1>7. g = [r \in Ranges |-> step(g, r)]
  <2>1. ASSUME NEW r \in Ranges
        PROVE  g[r] = step(g, r)
    BY <1>1, <1>5, <1>6
  <2> QED
    BY <2>1
<1>8. Expands(g, area)
  BY <1>7 DEF Expands
<1> HIDE DEF g
<1> QED
  BY <1>8

\* The loop ends with a range that holds the one it began with, that cannot be
\* expanded, and that fits unless it is the one it began with.
LEMMA ExpansionIs ==
  ASSUME NEW area, NEW f, Expands(f, area), NEW r \in Ranges
  PROVE  /\ f[r] \in Ranges /\ f[r][1] <= r[1] /\ r[2] <= f[r][2]
         /\ Expand(Widths, area, f[r]) = f[r]
         /\ f[r] # r => Fits(Widths, area, f[r])
<1> DEFINE next(x) == Expand(Widths, area, x)
           Good(x) == /\ f[x] \in Ranges /\ f[x][1] <= x[1] /\ x[2] <= f[x][2]
                      /\ next(f[x]) = f[x]
                      /\ f[x] # x => Fits(Widths, area, f[x])
           N == {k \in Nat : \A x \in Ranges : Hidden(x) <= k => Good(x)}
<1>1. ASSUME NEW x \in Ranges, next(x) = x
      PROVE  Good(x)
  <2>1. f[x] = x
    BY <1>1 DEF Expands
  <2> QED
    BY <1>1, <2>1, HiddenType, WidthsType
<1>2. ASSUME NEW x \in Ranges, next(x) # x, Good(next(x))
      PROVE  Good(x)
  <2>1. f[x] = f[next(x)]
    BY <1>2 DEF Expands
  <2>2. /\ next(x) \in Ranges /\ next(x)[1] <= x[1] /\ x[2] <= next(x)[2]
        /\ Fits(Widths, area, next(x))
    BY <1>2, ExpandIs
  <2> DEFINE y == next(x)
             z == f[y]
  <2>3. /\ z \in Ranges /\ z[1] <= y[1] /\ y[2] <= z[2] /\ next(z) = z
        /\ z # y => Fits(Widths, area, z)
    BY <1>2
  <2> HIDE DEF y, z
  <2>4. /\ y \in Ranges /\ y[1] <= x[1] /\ x[2] <= y[2] /\ Fits(Widths, area, y) /\ f[x] = z
    BY <2>1, <2>2 DEF y, z
  <2>5. z[1] <= x[1] /\ x[2] <= z[2] /\ Fits(Widths, area, z)
    BY <2>3, <2>4, HiddenType, WidthsType
  <2> QED
    BY <2>3, <2>4, <2>5
<1> HIDE DEF Good
<1>3. 0 \in N
  <2>1. ASSUME NEW x \in Ranges, Hidden(x) <= 0
        PROVE  next(x) = x
    <3> DEFINE y == next(x)
    <3>1. y \in Ranges /\ (y # x => Hidden(y) < Hidden(x))
      BY ExpandIs
    <3> HIDE DEF y
    <3>2. y = x
      BY <2>1, <3>1, HiddenType
    <3> QED
      BY <3>2 DEF y
  <2> QED
    BY <1>1, <2>1
<1>4. ASSUME NEW k \in Nat, k \in N
      PROVE  k + 1 \in N
  <2>1. ASSUME NEW x \in Ranges, Hidden(x) <= k + 1
        PROVE  Good(x)
    <3>1. CASE next(x) = x
      BY <1>1, <3>1
    <3>2. CASE next(x) # x
      <4>1. next(x) \in Ranges /\ Hidden(next(x)) < Hidden(x)
        BY <3>2, ExpandIs
      <4>2. Hidden(next(x)) <= k
        BY <2>1, <4>1, HiddenType
      <4>3. Good(next(x))
        BY <1>4, <4>1, <4>2
      <4> QED
        BY <1>2, <3>2, <4>3
    <3> QED
      BY <3>1, <3>2
  <2> QED
    BY <2>1
<1> HIDE DEF N
<1>5. \A k \in Nat : k \in N
  BY <1>3, <1>4, Induction
<1>6. Good(r)
  BY <1>5, HiddenType DEF N
<1> QED
  BY <1>6 DEF Good

\* What visible_range returns: all tabs if the terminal has room for them, or
\* what the loop ends with from the selected one.
LEMMA VisibleIs ==
  ASSUME NEW sel \in Procs, NEW area, NEW r, r = VisibleRange(Widths, sel, area)
  PROVE  /\ r \in Ranges /\ r[1] <= sel /\ sel <= r[2]
         /\ \/ /\ r = <<1, Len(Widths)>> /\ Span(Widths, r) <= area
            \/ /\ Expand(Widths, area, r) = r
               /\ r # <<sel, sel>> => Fits(Widths, area, r)
<1> DEFINE all == <<1, Len(Widths)>>
<1>1. /\ sel \in Nat /\ 1 <= sel /\ sel <= Len(Widths) /\ Len(Widths) \in Nat
      /\ all \in Ranges /\ all[1] = 1 /\ all[2] = Len(Widths)
      /\ <<sel, sel>> \in Ranges /\ <<sel, sel>>[1] = sel /\ <<sel, sel>>[2] = sel
  BY WidthsType DEF Ranges
<1>2. CASE Span(Widths, all) <= area
  <2>1. r = all
    BY <1>2 DEF VisibleRange
  <2> QED
    BY <1>1, <1>2, <2>1
<1>3. CASE ~(Span(Widths, all) <= area)
  <2> DEFINE f == CHOOSE g : g = [x \in (1..Len(Widths)) \X (1..Len(Widths)) |->
                    IF Expand(Widths, area, x) = x THEN x ELSE g[Expand(Widths, area, x)]]
  <2>1. r = f[<<sel, sel>>]
    BY <1>3 DEF VisibleRange
  <2>2. Expands(f, area)
    BY ExpansionExists DEF Expands, Ranges
  <2> HIDE DEF f
  <2> DEFINE one == <<sel, sel>>
  <2>3. one \in Ranges /\ one[1] = sel /\ one[2] = sel /\ r = f[one]
    BY <1>1, <2>1
  <2> HIDE DEF one
  <2>4. /\ r \in Ranges /\ r[1] <= sel /\ sel <= r[2] /\ Expand(Widths, area, r) = r
        /\ r # one => Fits(Widths, area, r)
    BY <2>2, <2>3, ExpansionIs
  <2> QED
    BY <2>4 DEF one
<1> QED
  BY <1>2, <1>3

-----------------------------------------------------------------------------
(* What is selected *)

InBounds == selected \in Procs /\ rect \in Dim /\ terminal = rect

LEMMA ColumnHitsTab ==
  ASSUME InBounds, NEW area, NEW col, NEW p \in TabIndexAtCol(Widths, selected, area, col)
  PROVE  p \in Procs
<1> DEFINE r == VisibleRange(Widths, selected, area)
<1>1. p \in r[1]..r[2]
  BY DEF TabIndexAtCol
<1>2. r \in Ranges
  BY VisibleIs DEF InBounds
<1> HIDE DEF r
<1> QED
  BY <1>1, <1>2, WidthsType DEF Ranges

LEMMA SelectStaysInBounds ==
  ASSUME InBounds, NEW key, NEW action, SelectAction(key, action)
  PROVE  InBounds'
<1>1. UNCHANGED <<rect, terminal>>
  BY DEF SelectAction, Sized, sizeVars
<1>2. Len(Widths) \in Nat \ {0} /\ selected \in 1..Len(Widths) /\ Procs = 1..Len(Widths)
  BY WidthsType DEF InBounds
<1>3. selected' \in Procs
  <2>1. CASE action = "SelectTab"
    BY <1>2, <2>1 DEF SelectAction, Select
  <2>2. CASE action = "NextTab"
    <3>1. selected' = (selected % Len(Widths)) + 1
      BY <2>2 DEF SelectAction, Select
    <3> QED
      BY <1>2, <3>1
  <2>3. CASE action = "PrevTab"
    <3>1. selected' = ((selected + Len(Widths) - 2) % Len(Widths)) + 1
      BY <2>3 DEF SelectAction, Select
    <3>2. selected + Len(Widths) - 2 \in Int
      BY <1>2
    <3> QED
      BY <1>2, <3>1, <3>2
  <2> QED
    BY <2>1, <2>2, <2>3 DEF SelectAction
<1> QED
  BY <1>1, <1>3 DEF InBounds

LEMMA PressStaysInBounds ==
  ASSUME InBounds, NEW key, Press(key)
  PROVE  InBounds'
<1> DEFINE action == Resolve(key, mode, UnfocusKey[selected])
<1>1. \/ SelectAction(key, action)
      \/ ModeAction(action)
      \/ ProcessAction(action)
      \/ SearchAction(action)
      \/ ToggleHelp(action)
      \/ QuitAction(action)
      \/ LetGo
      \/ OtherAction(action)
  BY DEF Press
<1> HIDE DEF action
<1>2. CASE SelectAction(key, action)
  BY <1>2, SelectStaysInBounds
<1>3. CASE \/ ModeAction(action) \/ ProcessAction(action) \/ SearchAction(action)
           \/ LetGo \/ OtherAction(action)
  <2>1. UNCHANGED <<selected, rect, terminal>>
    BY <1>3 DEF ModeAction, ProcessAction, SearchAction, LetGo, OtherAction, Sized, sizeVars
  <2> QED
    BY <2>1 DEF InBounds
<1>4. CASE ToggleHelp(action) \/ QuitAction(action)
  <2>1. UNCHANGED <<selected, rect, terminal>>
    BY <1>4 DEF ToggleHelp, QuitAction, Sized, sizeVars
  <2> QED
    BY <2>1 DEF InBounds
<1> QED
  BY <1>1, <1>2, <1>3, <1>4

LEMMA NextStaysInBounds ==
  ASSUME InBounds, [Next]_vars
  PROVE  InBounds'
<1>1. ASSUME NEW dim \in Sizes, rect' = dim, terminal' = dim, UNCHANGED selected
      PROVE  InBounds'
  BY <1>1, ScreenAssumption DEF InBounds, Dim
<1>2. ASSUME UNCHANGED <<selected, rect, terminal>>
      PROVE  InBounds'
  BY <1>2 DEF InBounds
<1>3. ASSUME NEW dim \in Sizes, Resize(dim) \/ \E c \in Clients : Attach(c, dim)
      PROVE  InBounds'
  BY <1>1, <1>3 DEF Resize, Attach, SetSize
<1>4. CASE LetGo \/ QuitRequest \/ UNCHANGED vars
  BY <1>2, <1>4 DEF LetGo, QuitRequest, vars, sizeVars
<1>5. ASSUME NEW key \in AllKeys, Press(key)
      PROVE  InBounds'
  BY <1>5, PressStaysInBounds
<1>6. ASSUME NEW col, Click(col)
      PROVE  InBounds'
  <2>1. PICK p \in TabIndexAtCol(Widths, selected, terminal[1], col) : selected' = p
    BY <1>6 DEF Click, Select
  <2>2. UNCHANGED <<rect, terminal>>
    BY <1>6 DEF Click, Sized, sizeVars
  <2>3. selected' \in Procs
    BY <2>1, ColumnHitsTab
  <2> QED
    BY <2>2, <2>3 DEF InBounds
<1>7. ASSUME NEW p \in Procs, ProcessExits(p)
      PROVE  InBounds'
  BY <1>2, <1>7 DEF ProcessExits, sizeVars
<1> QED
  BY <1>3, <1>4, <1>5, <1>6, <1>7 DEF Next, Step

LEMMA AlwaysInBounds == Spec => []InBounds
<1>1. Init => InBounds
  <2>1. <<80, 24>> \in Dim
    <3>1. 80 \in 1..U16 /\ 24 \in 2..U16
      BY DEF U16
    <3> QED
      BY <3>1 DEF Dim
  <2>2. 1 \in Procs
    BY WidthsType
  <2> QED
    BY <2>1, <2>2 DEF Init, InBounds
<1> QED
  BY <1>1, NextStaysInBounds, PTL DEF Spec

\* The bar shows the selected tab, whole if there is room for it, and nothing
\* could be shown beside what it shows, whichever tabs there are, whatever was
\* selected and however wide the terminal is.
THEOREM BarShowsMost ==
  ASSUME Narrow, WideTabs
  PROVE  Spec => []BarIsFull
<1>1. InBounds => BarIsFull
  <2> SUFFICES ASSUME InBounds
               PROVE  BarIsFull
    OBVIOUS
  <2> DEFINE area == rect[1]
             n == Len(Widths)
             r == VisibleRange(Widths, selected, area)
  <2>1. area \in Nat /\ selected \in Procs
    <3>1. area \in 1..U16
      BY DEF InBounds, Dim
    <3> QED
      BY <3>1, WidthsType DEF InBounds
  <2>2. /\ r \in Ranges /\ r[1] <= selected /\ selected <= r[2]
        /\ \/ r = <<1, n>> /\ Span(Widths, r) <= area
           \/ /\ Expand(Widths, area, r) = r
              /\ r # <<selected, selected>> => Fits(Widths, area, r)
    BY <2>1, VisibleIs
  <2> HIDE DEF r, area
  <2>3. /\ r[1] \in 1..n /\ r[2] \in 1..n /\ r = <<r[1], r[2]>> /\ Procs = 1..n /\ n \in Nat
        /\ r[1] <= r[2]
    BY <2>1, <2>2, HiddenType, WidthsType
  <2>4. Span(Widths, r) = Columns(r[1]..r[2])
    <3>1. r[1]..r[2] \in SUBSET Procs
      BY <2>3
    <3> QED
      BY <3>1, SpanIsColumns
  <2>5. r # <<selected, selected>> => Needed(r[1], r[2]) <= area
    <3>1. CASE r = <<1, n>> /\ Span(Widths, r) <= area
      <4>1. r[1] = 1 /\ r[2] = n
        BY <3>1
      <4>2. Needed(r[1], r[2]) = Columns(r[1]..r[2]) + 0 + 0
        BY <2>3, <4>1 DEF Needed
      <4>3. Columns(r[1]..r[2]) \in Nat
        BY <2>3, ColumnsOfRange
      <4> QED
        BY <2>4, <3>1, <4>2, <4>3
    <3>2. CASE r # <<selected, selected>> => Fits(Widths, area, r)
      BY <2>1, <2>3, <3>2, FitsIfRoom
    <3> QED
      BY <2>2, <3>1, <3>2
  <2>6. ASSUME NEW a \in 1..r[1], NEW b \in r[2]..n, <<a, b>> # r
        PROVE  Needed(a, b) > area
    <3>1. a \in Procs /\ b \in Procs /\ (a # r[1] \/ b # r[2])
      BY <2>3, <2>6
    <3>2. ~(r[1] = 1 /\ r[2] = n)
      BY <2>3, <3>1
    <3>3. Expand(Widths, area, r) = r
      BY <2>2, <2>3, <3>2
    <3>4. /\ r[2] < n => ~Fits(Widths, area, <<r[1], r[2] + 1>>)
          /\ r[1] > 1 => ~Fits(Widths, area, <<r[1] - 1, r[2]>>)
      BY <2>2, <3>3, ExpandIs
    <3>5. CASE b # r[2]
      <4>1. r[2] + 1 \in Procs /\ r[2] < n /\ a <= r[1] /\ r[1] <= r[2] + 1 /\ r[2] + 1 <= b
        BY <2>3, <3>5
      <4>2. ~(Needed(r[1], r[2] + 1) <= area)
        BY <2>1, <2>3, <3>4, <4>1, FitsIfRoom
      <4>3. Needed(r[1], r[2] + 1) <= Needed(a, b)
        BY <2>3, <3>1, <4>1, MoreNeedsMore
      <4>4. Needed(r[1], r[2] + 1) \in Nat /\ Needed(a, b) \in Nat
        BY <2>3, <3>1, <4>1, NeededType
      <4> QED
        BY <2>1, <4>2, <4>3, <4>4
    <3>6. CASE a # r[1]
      <4>1. r[1] - 1 \in Procs /\ r[1] > 1 /\ a <= r[1] - 1 /\ r[1] - 1 <= r[2] /\ r[2] <= b
        BY <2>3, <3>6
      <4>2. ~(Needed(r[1] - 1, r[2]) <= area)
        BY <2>1, <2>3, <3>4, <4>1, FitsIfRoom
      <4>3. Needed(r[1] - 1, r[2]) <= Needed(a, b)
        BY <2>3, <3>1, <4>1, MoreNeedsMore
      <4>4. Needed(r[1] - 1, r[2]) \in Nat /\ Needed(a, b) \in Nat
        BY <2>3, <3>1, <4>1, NeededType
      <4> QED
        BY <2>1, <4>2, <4>3, <4>4
    <3> QED
      BY <3>1, <3>5, <3>6
  <2> QED
    BY <2>2, <2>5, <2>6 DEF BarIsFull, Needed, Columns, r, area
<1> QED
  BY <1>1, AlwaysInBounds, PTL

-----------------------------------------------------------------------------
(* Hints *)

LEMMA NormalKeysHinted ==
  /\ NormalKey("h") = "PrevTab" /\ NormalKey("l") = "NextTab" /\ NormalKey("/") = "EnterSearch"
  /\ NormalKey("d") = "Detach" /\ NormalKey("q") = "Quit" /\ NormalKey("?") = "ToggleHelp"
  /\ NormalKey("i") = "Focus" /\ NormalKey("x") = "StopProcess"
  /\ NormalKey("r") = "RestartProcess" /\ NormalKey("s") = "StartProcess"
  /\ NormalKey("Esc") = "SearchCancel"
  /\ CtrlKey("f") = "ScrollDown" /\ CtrlKey("b") = "ScrollUp"
<1>1. DOMAIN Digits = {"1", "2", "3", "4", "5", "6", "7", "8", "9"}
  BY DEF Digits
<1> QED
  BY <1>1 DEF NormalKey, CtrlKey

\* Where keys lead that are pressed alone, or with CONTROL.
LEMMA NormalKeysResolved ==
  ASSUME NEW code, NEW action, NEW u
  PROVE  /\ Resolve(Hint(Plain(code), action).key, "Normal", u) = NormalKey(code)
         /\ Resolve(Hint(Ctrl(code), action).key, "Normal", u) = CtrlKey(code)
         /\ Hint(Plain(code), action).action = action
         /\ Hint(Ctrl(code), action).action = action
BY DEF Resolve, ResolveNormal, Hint, Plain, Ctrl, Key

LEMMA NormalHintsHold ==
  ASSUME NEW s, NEW scrolled, NEW searching, NEW u,
         NEW h \in NormalHints(s, scrolled, searching)
  PROVE  /\ Resolve(h.key, "Normal", u) = h.action
         /\ h.action \in {"Focus", "StopProcess", "RestartProcess"} => s = "Running"
         /\ h.action = "StartProcess" => s \in {"Stopped", "Failed"}
<1>1. CASE h \in Always
  <2>1. PICK code :
          \E action \in {"PrevTab", "NextTab", "EnterSearch", "Detach", "Quit", "ToggleHelp"} :
            h = Hint(Plain(code), action) /\ NormalKey(code) = action
    BY <1>1, NormalKeysHinted DEF Always
  <2>2. PICK action \in {"PrevTab", "NextTab", "EnterSearch", "Detach", "Quit", "ToggleHelp"} :
          h = Hint(Plain(code), action) /\ NormalKey(code) = action
    BY <2>1
  <2>3. Resolve(h.key, "Normal", u) = action /\ h.action = action
    BY <2>2, NormalKeysResolved
  <2> QED
    BY <2>3
<1>2. CASE h \in WhenRunning /\ s = "Running"
  <2>1. PICK code :
          \E action \in {"Focus", "StopProcess", "RestartProcess"} :
            h = Hint(Plain(code), action) /\ NormalKey(code) = action
    BY <1>2, NormalKeysHinted DEF WhenRunning
  <2>2. PICK action \in {"Focus", "StopProcess", "RestartProcess"} :
          h = Hint(Plain(code), action) /\ NormalKey(code) = action
    BY <2>1
  <2>3. Resolve(h.key, "Normal", u) = action /\ h.action = action
    BY <2>2, NormalKeysResolved
  <2> QED
    BY <1>2, <2>3
<1>3. CASE h \in WhenStopped /\ s \in {"Stopped", "Failed"}
  BY <1>3, NormalKeysHinted, NormalKeysResolved DEF WhenStopped
<1>4. CASE h \in WhenScrolled
  BY <1>4, NormalKeysHinted, NormalKeysResolved DEF WhenScrolled
<1>5. CASE h \in Clear
  BY <1>5, NormalKeysHinted, NormalKeysResolved DEF Clear
<1> QED
  BY <1>1, <1>2, <1>3, <1>4, <1>5 DEF NormalHints

LEMMA FocusedHintsHold ==
  ASSUME NEW h \in FocusedHints
  PROVE  h.action = "Unfocus" /\ Resolve(h.key, "Focused", UnfocusEsc) = "Unfocus"
BY DEF FocusedHints, Hint, Plain, Key, Resolve, ResolveFocused, MatchesUnfocusKey, UnfocusEsc

LEMMA ConfirmHintsHold ==
  ASSUME NEW u, NEW h \in ConfirmHints
  PROVE  h.action = "Quit" /\ Resolve(h.key, "ConfirmQuit", u) = "Quit"
BY DEF ConfirmHints, Hint, Plain, Key, Resolve, ResolveConfirmQuit

\* The keys that the status bar names do what it says, in every mode and
\* whatever the selected process is doing, but for one hint of one mode: the
\* key to leave a focused process that is configured to be left by another key
\* than esc, which is written out (focused_hints).
THEOREM HintsElsewhere ==
  Spec => []((mode = "Focused" => UnfocusKey[selected] = UnfocusEsc) => HintsHold)
<1> DEFINE Left == mode = "Focused" => UnfocusKey[selected] = UnfocusEsc
<1>1. InBounds => (Left => HintsHold)
  <2> SUFFICES ASSUME InBounds, Left, NEW scrolled \in BOOLEAN,
                      NEW h \in BarHints(mode, state[selected], scrolled, query)
               PROVE  /\ Resolve(h.key, mode, UnfocusKey[selected]) = h.action
                      /\ h.action \in {"Focus", "StopProcess", "RestartProcess"} =>
                           state[selected] = "Running"
                      /\ h.action = "StartProcess" => ~Up(selected)
    BY DEF HintsHold
  <2>1. CASE mode = "Normal"
    <3>1. h \in NormalHints(state[selected], scrolled, query)
      BY <2>1 DEF BarHints
    <3> QED
      BY <2>1, <3>1, NormalHintsHold DEF Up
  <2>2. CASE mode = "Focused"
    <3>1. h \in FocusedHints
      BY <2>2 DEF BarHints
    <3> QED
      BY <2>2, <3>1, FocusedHintsHold
  <2>3. CASE mode = "ConfirmQuit"
    <3>1. h \in ConfirmHints
      BY <2>3 DEF BarHints
    <3> QED
      BY <2>3, <3>1, ConfirmHintsHold
  <2> QED
    BY <2>1, <2>2, <2>3 DEF BarHints
<1> QED
  BY <1>1, AlwaysInBounds, PTL

\* And so all of them do, always, for every configuration that keeps esc as the
\* key that ends focus, which is the default.
THEOREM HintsAreTrue ==
  ASSUME \A p \in Procs : UnfocusKey[p] = UnfocusEsc
  PROVE  Spec => []HintsHold
<1> DEFINE Left == mode = "Focused" => UnfocusKey[selected] = UnfocusEsc
<1>1. InBounds => Left
  BY DEF InBounds
<1>2. Spec => [](Left => HintsHold)
  BY HintsElsewhere
<1> HIDE DEF Left
<1> QED
  BY <1>1, <1>2, AlwaysInBounds, PTL

-----------------------------------------------------------------------------
(* What the bar shows *)

LEMMA ConcatNats ==
  ASSUME NEW s \in Seq(Nat), NEW t \in Seq(Nat)
  PROVE  /\ s \o t \in Seq(Nat) /\ Len(s \o t) = Len(s) + Len(t)
         /\ \A c \in 1..Len(s) + Len(t) :
              (s \o t)[c] = IF c <= Len(s) THEN s[c] ELSE t[c - Len(s)]
BY ConcatProperties

\* What FlattenSeq does.
Joins(g, s, n) == \A k \in 1..n : g[k] = IF k = 1 THEN s[k] ELSE g[k - 1] \o s[k]

LEMMA JoinExists ==
  ASSUME NEW s, NEW n \in Nat
  PROVE  \E g : g = [k \in 1..n |-> IF k = 1 THEN s[k] ELSE g[k - 1] \o s[k]]
<1> DEFINE Joined(m) == \E g : Joins(g, s, m)
           T == {m \in Nat : Joined(m)}
<1>1. 0 \in T
  BY DEF Joins
<1>2. ASSUME NEW m \in Nat, m \in T
      PROVE  m + 1 \in T
  <2>1. PICK g : Joins(g, s, m)
    BY <1>2
  <2> DEFINE h == [k \in 1..m + 1 |->
                     IF k <= m THEN g[k] ELSE IF k = 1 THEN s[k] ELSE g[k - 1] \o s[k]]
  <2>2. ASSUME NEW k \in 1..m + 1
        PROVE  h[k] = IF k = 1 THEN s[k] ELSE h[k - 1] \o s[k]
    <3>1. h[k] = IF k = 1 THEN s[k] ELSE g[k - 1] \o s[k]
      BY <2>1 DEF Joins
    <3>2. k # 1 => k - 1 \in 1..m + 1 /\ k - 1 <= m
      OBVIOUS
    <3>3. k # 1 => h[k - 1] = g[k - 1]
      BY <3>2
    <3> QED
      BY <3>1, <3>3
  <2>3. Joins(h, s, m + 1)
    BY <2>2 DEF Joins
  <2>4. Joined(m + 1)
    BY <2>3
  <2> HIDE DEF Joined
  <2> QED
    BY <2>4
<1> HIDE DEF T
<1>3. n \in T
  BY <1>1, <1>2, Induction
<1>4. PICK g : Joins(g, s, n)
  BY <1>3 DEF T
<1> DEFINE h == [k \in 1..n |-> g[k]]
<1>5. h = [k \in 1..n |-> IF k = 1 THEN s[k] ELSE h[k - 1] \o s[k]]
  <2>1. ASSUME NEW k \in 1..n
        PROVE  h[k] = IF k = 1 THEN s[k] ELSE h[k - 1] \o s[k]
    <3>1. h[k] = IF k = 1 THEN s[k] ELSE g[k - 1] \o s[k]
      BY <1>4 DEF Joins
    <3>2. k # 1 => k - 1 \in 1..n
      OBVIOUS
    <3> QED
      BY <3>1, <3>2
  <2> QED
    BY <2>1
<1> HIDE DEF h
<1> QED
  BY <1>5

LEMMA FlattenJoins ==
  ASSUME NEW s, NEW n \in Nat \ {0}, Len(s) = n
  PROVE  \E g : Joins(g, s, n) /\ FlattenSeq(s) = g[n]
<1> DEFINE join == CHOOSE g : g = [k \in 1..Len(s) |-> IF k = 1 THEN s[k] ELSE g[k - 1] \o s[k]]
<1>1. FlattenSeq(s) = join[Len(s)]
  BY SMTT(30) DEF FlattenSeq
<1>2. join = [k \in 1..Len(s) |-> IF k = 1 THEN s[k] ELSE join[k - 1] \o s[k]]
  <2>1. \E g : g = [k \in 1..Len(s) |-> IF k = 1 THEN s[k] ELSE g[k - 1] \o s[k]]
    BY JoinExists
  <2> QED
    BY <2>1
<1> HIDE DEF join
<1>3. Joins(join, s, n)
  BY <1>2 DEF Joins
<1> QED
  BY <1>1, <1>3

\* The cells of a tab, and of the tabs from a to b, side by side.
TabCells(i) == [c \in 1..Widths[i] |-> i]

Shows(s, a, b) ==
  /\ s \in Seq(Nat) /\ Len(s) = Columns(a..b)
  /\ \A c \in 1..Len(s) :
       /\ s[c] \in a..b
       /\ \A i \in a..b : s[c] = i <=> Columns(a..(i - 1)) < c /\ c <= Columns(a..i)

LEMMA CellsType ==
  ASSUME NEW i \in Procs
  PROVE  /\ TabCells(i) \in Seq(Nat) /\ Len(TabCells(i)) = Widths[i]
         /\ \A c \in 1..Widths[i] : TabCells(i)[c] = i
<1>1. Widths[i] \in Nat /\ i \in Nat
  BY WidthsType
<1> QED
  BY <1>1 DEF TabCells

LEMMA NoColumns ==
  ASSUME NEW a \in Procs
  PROVE  Columns(a..(a - 1)) = 0 /\ Columns(a..a) = Widths[a]
<1>1. a..(a - 1) = {}
  BY WidthsType
<1>2. Columns(a..(a - 1)) = 0
  BY <1>1, ColumnsStep
<1>3. Columns(a..a) = Columns(a..(a - 1)) + Widths[a] /\ Widths[a] \in Nat
  <2>1. a <= a
    BY WidthsType
  <2> QED
    BY <2>1, ColumnsOfRange, WidthsType
<1> QED
  BY <1>2, <1>3

LEMMA OneTabShows ==
  ASSUME NEW a \in Procs
  PROVE  Shows(TabCells(a), a, a)
<1>1. a \in Nat /\ Widths[a] \in Nat
  BY WidthsType
<1>2. a \in a..a /\ \A i \in a..a : i = a
  BY <1>1
<1>3. Columns(a..(a - 1)) = 0 /\ Columns(a..a) = Widths[a]
  BY NoColumns
<1> DEFINE s == TabCells(a)
<1>4. s \in Seq(Nat) /\ Len(s) = Widths[a] /\ \A c \in 1..Widths[a] : s[c] = a
  BY CellsType
<1> HIDE DEF s
<1>5. ASSUME NEW c \in 1..Len(s)
      PROVE  /\ s[c] \in a..a
             /\ \A i \in a..a : s[c] = i <=> Columns(a..(i - 1)) < c /\ c <= Columns(a..i)
  <2>1. s[c] = a /\ 0 < c /\ c <= Widths[a]
    BY <1>1, <1>4
  <2>2. Columns(a..(a - 1)) < c /\ c <= Columns(a..a)
    BY <1>3, <2>1
  <2> QED
    BY <1>2, <2>1, <2>2
<1> QED
  BY <1>3, <1>4, <1>5 DEF Shows, s

LEMMA NextTabShows ==
  ASSUME NEW a \in Procs, NEW b \in Procs, a <= b, b + 1 \in Procs, NEW s, Shows(s, a, b)
  PROVE  Shows(s \o TabCells(b + 1), a, b + 1)
<1> DEFINE j == b + 1
           t == TabCells(j)
           w == s \o t
<1>1. /\ a \in Nat /\ b \in Nat /\ j \in Procs /\ a <= j /\ j - 1 = b /\ j \in a..j
      /\ \A i \in a..j : i = j \/ (i \in a..b /\ i < j)
  BY WidthsType
<1>2. Columns(a..j) = Columns(a..b) + Widths[j] /\ Columns(a..b) \in Nat /\ Widths[j] \in Nat
  BY <1>1, ColumnsOfRange, WidthsType
<1>3. s \in Seq(Nat) /\ Len(s) = Columns(a..b)
  BY DEF Shows
<1>4. /\ t \in Seq(Nat) /\ Len(t) = Widths[j]
      /\ \A c \in 1..Widths[j] : t[c] = j
  BY <1>1, CellsType
<1> HIDE DEF j, t
<1>5. /\ w \in Seq(Nat) /\ Len(w) = Len(s) + Len(t)
      /\ \A c \in 1..Len(s) + Len(t) : w[c] = IF c <= Len(s) THEN s[c] ELSE t[c - Len(s)]
  BY <1>3, <1>4, ConcatNats
<1> HIDE DEF w
<1>6. ASSUME NEW c \in 1..Len(w)
      PROVE  /\ w[c] \in a..j
             /\ \A i \in a..j : w[c] = i <=> Columns(a..(i - 1)) < c /\ c <= Columns(a..i)
  <2>1. CASE c <= Len(s)
    <3>1. c \in 1..Len(s) /\ w[c] = s[c]
      BY <1>2, <1>3, <1>4, <1>5, <1>6, <2>1
    <3>2. /\ s[c] \in a..b
          /\ \A i \in a..b : s[c] = i <=> Columns(a..(i - 1)) < c /\ c <= Columns(a..i)
      BY <3>1 DEF Shows
    <3>3. w[c] \in a..j /\ w[c] # j
      BY <1>1, <3>1, <3>2
    <3>4. ~(Columns(a..(j - 1)) < c)
      BY <1>1, <1>2, <1>3, <2>1, <3>1
    <3> QED
      BY <1>1, <3>1, <3>2, <3>3, <3>4
  <2>2. CASE ~(c <= Len(s))
    <3>1. c - Len(s) \in 1..Widths[j] /\ w[c] = t[c - Len(s)]
      BY <1>2, <1>3, <1>4, <1>5, <1>6, <2>2
    <3>2. w[c] = j
      BY <1>4, <3>1
    <3>3. Columns(a..(j - 1)) < c /\ c <= Columns(a..j)
      BY <1>1, <1>2, <1>3, <1>4, <1>5, <1>6, <2>2
    <3>4. ASSUME NEW i \in a..b
          PROVE  ~(c <= Columns(a..i))
      <4>1. a..b \in SUBSET Procs /\ a..i \in SUBSET a..b /\ a..i \in SUBSET Procs
        BY <1>1, WidthsType
      <4>2. Columns(a..i) <= Columns(a..b) /\ Columns(a..i) \in Nat
        BY <4>1, ColumnsMore, ColumnsType
      <4> QED
        BY <1>2, <1>3, <1>6, <2>2, <4>2
    <3> QED
      BY <1>1, <3>2, <3>3, <3>4
  <2> QED
    BY <2>1, <2>2
<1>7. Len(w) = Columns(a..j)
  BY <1>2, <1>3, <1>4, <1>5
<1>8. Shows(w, a, j)
  BY <1>5, <1>6, <1>7 DEF Shows
<1> QED
  BY <1>8 DEF w, t, j

\* The tabs that are visible, joined.
LEMMA JoinedTabsShow ==
  ASSUME NEW a \in Procs, NEW b \in Procs, a <= b, NEW s,
         s = [k \in 1..(b - a + 1) |-> TabCells(a + k - 1)]
  PROVE  Shows(FlattenSeq(s), a, b)
<1> DEFINE n == (b - a) + 1
<1>1. /\ a \in Nat /\ b \in Nat /\ n \in Nat \ {0} /\ Len(Widths) \in Nat
      /\ b - a + 1 = n /\ a + (n - 1) = b /\ Procs = 1..Len(Widths) /\ a >= 1 /\ b <= Len(Widths)
  BY WidthsType
<1>2. Len(s) = n /\ \A k \in 1..n : s[k] = TabCells(a + (k - 1))
  BY <1>1
<1>3. PICK g : Joins(g, s, n) /\ FlattenSeq(s) = g[n]
  BY <1>1, <1>2, FlattenJoins
<1> HIDE DEF n
<1> DEFINE T == {k \in Nat : k < n => Shows(g[k + 1], a, a + k)}
<1>4. 0 \in T
  <2>1. 1 \in 1..n /\ a + (1 - 1) = a /\ 0 + 1 = 1 /\ a + 0 = a
    BY <1>1
  <2>2. g[1] = TabCells(a)
    BY <1>2, <1>3, <2>1 DEF Joins
  <2> QED
    BY <2>1, <2>2, OneTabShows
<1>5. ASSUME NEW k \in Nat, k \in T
      PROVE  k + 1 \in T
  <2> SUFFICES ASSUME k + 1 < n
               PROVE  Shows(g[(k + 1) + 1], a, a + (k + 1))
    OBVIOUS
  <2>1. /\ (k + 1) + 1 \in 1..n /\ (k + 1) + 1 # 1 /\ ((k + 1) + 1) - 1 = k + 1
        /\ a + k \in Procs /\ (a + k) + 1 \in Procs /\ a <= a + k
        /\ a + (k + 1) = (a + k) + 1 /\ k < n
    BY <1>1
  <2>2. Shows(g[k + 1], a, a + k)
    BY <1>5, <2>1
  <2>3. g[(k + 1) + 1] = g[k + 1] \o TabCells((a + k) + 1)
    <3> DEFINE m == (k + 1) + 1
    <3>1. m \in 1..n /\ m # 1 /\ m - 1 = k + 1 /\ a + (m - 1) = (a + k) + 1
      BY <2>1
    <3> HIDE DEF m
    <3>2. s[m] = TabCells((a + k) + 1)
      BY <1>2, <3>1
    <3>3. g[m] = g[k + 1] \o s[m]
      BY <1>3, <3>1 DEF Joins
    <3> QED
      BY <3>2, <3>3 DEF m
  <2> QED
    BY <2>1, <2>2, <2>3, NextTabShows
<1> HIDE DEF T
<1>6. n - 1 \in Nat /\ n - 1 < n /\ (n - 1) + 1 = n
  BY <1>1
<1>7. n - 1 \in T
  BY <1>4, <1>5, <1>6, Induction
<1>8. Shows(g[n], a, b)
  BY <1>1, <1>6, <1>7 DEF T
<1> QED
  BY <1>3, <1>8

Blank(s) == s \in Seq(Nat) /\ \A i \in 1..Len(s) : s[i] = 0

Row(pre, tabs, post, pad) == ((pre \o tabs) \o post) \o pad

\* A row of cells that is made of four parts, cut off at the last column.
LEMMA FourParts ==
  ASSUME NEW pre, NEW tabs, NEW post, NEW pad, NEW c,
         Blank(pre), tabs \in Seq(Nat), Blank(post), Blank(pad), c \in 1..Len(pad)
  PROVE  SubSeq(Row(pre, tabs, post, pad), 1, Len(pad))[c] =
           IF Len(pre) < c /\ c <= Len(pre) + Len(tabs) THEN tabs[c - Len(pre)] ELSE 0
<1> DEFINE area == Len(pad)
<1>0. /\ pre \in Seq(Nat) /\ post \in Seq(Nat) /\ pad \in Seq(Nat)
      /\ area \in Nat /\ c \in 1..area
      /\ \A i \in 1..Len(pre) : pre[i] = 0
      /\ \A i \in 1..Len(post) : post[i] = 0
      /\ \A i \in 1..area : pad[i] = 0
  BY DEF Blank
<1> DEFINE x == pre \o tabs
           y == x \o post
           z == y \o pad
           l == Len(pre)
           m == Len(tabs)
           n == Len(post)
<1>1. l \in Nat /\ m \in Nat /\ n \in Nat
  BY <1>0
<1>2. /\ x \in Seq(Nat) /\ Len(x) = l + m
      /\ \A i \in 1..l + m : x[i] = IF i <= l THEN pre[i] ELSE tabs[i - l]
  BY <1>0, ConcatNats
<1>3. /\ \A i \in 1..l : pre[i] = 0
      /\ \A i \in 1..n : post[i] = 0
  BY <1>0
<1> HIDE DEF area, x, l, m, n
<1>4. /\ y \in Seq(Nat) /\ Len(y) = (l + m) + n
      /\ \A i \in 1..(l + m) + n : y[i] = IF i <= l + m THEN x[i] ELSE post[i - (l + m)]
  <2>1. /\ y \in Seq(Nat) /\ Len(y) = Len(x) + Len(post)
        /\ \A i \in 1..Len(x) + Len(post) : y[i] = IF i <= Len(x) THEN x[i] ELSE post[i - Len(x)]
    BY <1>0, <1>2, ConcatNats
  <2>2. Len(x) = l + m /\ Len(post) = n
    BY <1>2 DEF n
  <2> HIDE DEF y
  <2> QED
    BY <2>1, <2>2
<1> HIDE DEF y
<1>5. /\ z \in Seq(Nat) /\ Len(z) = Len(y) + area
      /\ \A i \in 1..Len(y) + area : z[i] = IF i <= Len(y) THEN y[i] ELSE pad[i - Len(y)]
  <2>1. /\ z \in Seq(Nat) /\ Len(z) = Len(y) + Len(pad)
        /\ \A i \in 1..Len(y) + Len(pad) : z[i] = IF i <= Len(y) THEN y[i] ELSE pad[i - Len(y)]
    BY <1>0, <1>4, ConcatNats
  <2> HIDE DEF z
  <2> QED
    BY <2>1 DEF area
<1>6. SubSeq(z, 1, area)[c] = z[c]
  <2> HIDE DEF z
  <2>1. area <= Len(z) /\ Len(z) \in Nat
    BY <1>0, <1>1, <1>4, <1>5
  <2> QED
    BY <1>0, <1>5, <2>1
<1>7. Row(pre, tabs, post, pad) = z
  BY DEF Row, x, y
<1> HIDE DEF z
<1>8. z[c] = IF l < c /\ c <= l + m THEN tabs[c - l] ELSE 0
  <2> DEFINE q == (l + m) + n
  <2>1. /\ q \in Nat /\ Len(y) = q
        /\ z[c] = IF c <= q THEN y[c] ELSE pad[c - q]
    <3>1. Len(y) = q /\ q \in Nat
      BY <1>1, <1>4
    <3>2. c \in 1..Len(y) + area
      BY <1>0, <3>1
    <3> QED
      BY <1>5, <3>1, <3>2
  <2>2. CASE c > q
    <3>1. c - q \in 1..area /\ ~(c <= q) /\ ~(c <= l + m)
      BY <1>0, <1>1, <2>1, <2>2
    <3>2. pad[c - q] = 0
      BY <1>0, <3>1
    <3> QED
      BY <2>1, <3>1, <3>2
  <2>3. CASE c <= q /\ c > l + m
    <3>1. c - (l + m) \in 1..n /\ c \in 1..q /\ ~(c <= l + m)
      BY <1>0, <1>1, <2>1, <2>3
    <3>2. y[c] = post[c - (l + m)]
      BY <1>4, <3>1
    <3>3. post[c - (l + m)] = 0
      BY <1>3, <3>1
    <3> QED
      BY <2>1, <2>3, <3>1, <3>2, <3>3
  <2>4. CASE c <= l + m
    <3>1. c <= q /\ c \in 1..q /\ c \in 1..l + m
      BY <1>0, <1>1, <2>1, <2>4
    <3>2. z[c] = x[c]
      BY <1>4, <2>1, <2>4, <3>1
    <3>3. x[c] = IF c <= l THEN pre[c] ELSE tabs[c - l]
      BY <1>2, <3>1
    <3>4. c <= l => pre[c] = 0
      <4>1. c <= l => c \in 1..l
        BY <1>0, <1>1
      <4> QED
        BY <1>3, <4>1
    <3>5. c <= l <=> ~(l < c)
      BY <1>0, <1>1
    <3> QED
      BY <2>4, <3>2, <3>3, <3>4, <3>5
  <2>5. c > q \/ (c <= q /\ c > l + m) \/ c <= l + m
    BY <1>0, <1>1, <2>1
  <2> QED
    BY <2>2, <2>3, <2>4, <2>5
<1> QED
  BY <1>6, <1>7, <1>8 DEF area, l, m

\* The bar: the marks, the tabs between them, and nothing to their right.
LEMMA BarShows ==
  ASSUME NEW sel \in Procs, NEW area \in Nat, NEW r, r = VisibleRange(Widths, sel, area),
         NEW left, left = LeftCost(r), NEW tabs, Shows(tabs, r[1], r[2]),
         tabs = FlattenSeq([k \in 1..(r[2] - r[1] + 1) |-> TabCells(r[1] + k - 1)]),
         NEW col \in 0..(area - 1)
  PROVE  Bar(Widths, sel, area)[col + 1] =
           IF left < col + 1 /\ col + 1 <= left + Len(tabs) THEN tabs[(col + 1) - left] ELSE 0
<1> DEFINE pre == IF r[1] > 1 THEN Marker ELSE <<>>
           post == IF r[2] < Len(Widths) THEN Marker ELSE <<>>
           pad == [i \in 1..area |-> 0]
           whole == ((pre \o tabs) \o post) \o pad
<1>1. Bar(Widths, sel, area) = SubSeq(whole, 1, area)
  BY DEF Bar, TabCells
<1>2. tabs \in Seq(Nat)
  BY DEF Shows
<1>3. Blank(pre) /\ Len(pre) = left
  BY DEF LeftCost, OverflowWidth, Marker, Blank
<1>4. Blank(post)
  BY DEF Marker, Blank
<1>5. Blank(pad) /\ Len(pad) = area /\ col + 1 \in 1..area
  BY DEF Blank
<1> HIDE DEF pre, post, pad
<1>6. col + 1 \in 1..Len(pad)
  BY <1>5
<1>7. SubSeq(Row(pre, tabs, post, pad), 1, Len(pad))[col + 1] =
        IF Len(pre) < col + 1 /\ col + 1 <= Len(pre) + Len(tabs)
          THEN tabs[(col + 1) - Len(pre)] ELSE 0
  BY ONLY <1>2, <1>3, <1>4, <1>5, <1>6, FourParts
<1>8. Row(pre, tabs, post, pad) = whole
  BY DEF Row
<1> HIDE DEF whole
<1> QED
  BY ONLY <1>1, <1>3, <1>5, <1>7, <1>8

\* Where a tab starts and ends for the mouse.
LEMMA TabBounds ==
  ASSUME Narrow, NEW r \in Ranges, NEW i \in r[1]..r[2]
  PROVE  /\ LeftCost(r) \in Nat
         /\ Columns(r[1]..(i - 1)) \in Nat /\ Columns(r[1]..i) \in Nat
         /\ Columns(r[1]..i) <= Columns(r[1]..r[2]) /\ Columns(r[1]..r[2]) \in Nat
         /\ Plus(LeftCost(r), Span(Widths, <<r[1], i - 1>>)) =
              LeftCost(r) + Columns(r[1]..(i - 1))
         /\ Plus(Plus(LeftCost(r), Span(Widths, <<r[1], i - 1>>)), Widths[i]) =
              LeftCost(r) + Columns(r[1]..i)
<1> DEFINE a == r[1]
           left == LeftCost(r)
           before == Columns(a..(i - 1))
           upTo == Columns(a..i)
<1>1. /\ a \in Procs /\ i \in Procs /\ a <= i /\ r[2] \in Procs
      /\ a..(i - 1) \in SUBSET Procs /\ a..i \in SUBSET a..r[2] /\ a..r[2] \in SUBSET Procs
  BY WidthsType DEF Ranges
<1>2. left \in Nat /\ left <= 2
  BY DEF LeftCost, OverflowWidth
<1>3. /\ before \in Nat /\ upTo \in Nat /\ Columns(a..r[2]) \in Nat
      /\ upTo <= Columns(a..r[2]) /\ Columns(a..r[2]) <= Columns(Procs) /\ Columns(Procs) \in Nat
  BY <1>1, ColumnsType, ColumnsMore
<1>4. upTo = before + Widths[i] /\ Widths[i] \in Nat
  BY <1>1, ColumnsOfRange, WidthsType
<1>5. Span(Widths, <<a, i - 1>>) = before
  BY <1>1, SpanIsColumns
<1>6. upTo + 4 < U16
  BY <1>3, WidthsType DEF Narrow, OverflowWidth
<1> HIDE DEF a, left, before, upTo
<1>7. Plus(left, before) = left + before
  BY SMTT(30), <1>2, <1>3, <1>4, <1>6, WidthsType, PlusIsPlain
<1>8. Plus(left + before, Widths[i]) = (left + before) + Widths[i]
  <2>1. left + before \in Nat /\ (left + before) + Widths[i] < U16
    BY SMTT(30), <1>2, <1>3, <1>4, <1>6, WidthsType
  <2> QED
    BY <1>4, <2>1, PlusIsPlain
<1>9. (left + before) + Widths[i] = left + upTo
  BY <1>2, <1>3, <1>4
<1>10. /\ Plus(left, Span(Widths, <<a, i - 1>>)) = left + before
       /\ Plus(Plus(left, Span(Widths, <<a, i - 1>>)), Widths[i]) = left + upTo
  BY <1>5, <1>7, <1>8, <1>9
<1> QED
  BY <1>2, <1>3, <1>10 DEF a, left, before, upTo

\* A click selects the tab that is drawn under it, and nothing beside the tabs,
\* whichever tabs there are, however wide the terminal is, and wherever one
\* clicks: the two computations agree, in columns that do not wrap.
THEOREM ClicksHit ==
  ASSUME Narrow
  PROVE  Spec => []ClickHits
<1>1. InBounds => ClickHits
  <2> SUFFICES ASSUME InBounds, NEW col \in 0..(rect[1] - 1)
               PROVE  TabIndexAtCol(Widths, selected, terminal[1], col) =
                        {Bar(Widths, selected, rect[1])[col + 1]} \ {0}
    BY DEF ClickHits
  <2> DEFINE area == rect[1]
             r == VisibleRange(Widths, selected, area)
             left == LeftCost(r)
             cells == [k \in 1..(r[2] - r[1] + 1) |-> TabCells(r[1] + k - 1)]
             tabs == FlattenSeq(cells)
             cell == Bar(Widths, selected, area)[col + 1]
             hit == TabIndexAtCol(Widths, selected, area, col)
  <2>1. area \in Nat /\ selected \in Procs /\ terminal[1] = area
    <3>1. area \in 1..U16
      BY DEF InBounds, Dim
    <3> QED
      BY <3>1, WidthsType DEF InBounds
  <2>2. r \in Ranges /\ r[1] <= selected /\ selected <= r[2]
    BY <2>1, VisibleIs
  <2>3. r[1] \in Procs /\ r[2] \in Procs /\ r[1] <= r[2] /\ r[1] \in Nat \ {0} /\ r[2] \in Nat
    BY <2>1, <2>2, HiddenType, WidthsType
  <2>4. Shows(tabs, r[1], r[2])
    BY <2>3, JoinedTabsShow
  <2>5. cell = IF left < col + 1 /\ col + 1 <= left + Len(tabs) THEN tabs[(col + 1) - left] ELSE 0
    BY <2>1, <2>4, BarShows
  <2>6. hit = {i \in r[1]..r[2] :
                 /\ Plus(left, Span(Widths, <<r[1], i - 1>>)) <= col
                 /\ col < Plus(Plus(left, Span(Widths, <<r[1], i - 1>>)), Widths[i])}
    BY DEF TabIndexAtCol
  <2> HIDE DEF area, r, cells, tabs, cell, hit
  <2>7. left \in Nat
    BY DEF LeftCost, OverflowWidth
  <2>8. \A i \in r[1]..r[2] :
          i \in hit <=> left + Columns(r[1]..(i - 1)) <= col /\ col < left + Columns(r[1]..i)
    BY <2>2, <2>6, TabBounds
  <2> HIDE DEF left
  <2>9. hit \subseteq r[1]..r[2]
    BY <2>6
  <2>10. /\ Len(tabs) = Columns(r[1]..r[2]) /\ Len(tabs) \in Nat
         /\ \A c \in 1..Len(tabs) :
              /\ tabs[c] \in r[1]..r[2]
              /\ \A i \in r[1]..r[2] :
                   tabs[c] = i <=> Columns(r[1]..(i - 1)) < c /\ c <= Columns(r[1]..i)
    BY <2>4 DEF Shows
  <2>11. col \in Nat
    BY <2>1 DEF area
  <2>12. \A i \in r[1]..r[2] :
           /\ Columns(r[1]..(i - 1)) \in Nat /\ Columns(r[1]..i) \in Nat
           /\ Columns(r[1]..i) <= Len(tabs)
    <3> SUFFICES ASSUME NEW i \in r[1]..r[2]
                 PROVE  /\ Columns(r[1]..(i - 1)) \in Nat /\ Columns(r[1]..i) \in Nat
                        /\ Columns(r[1]..i) <= Len(tabs)
      OBVIOUS
    <3>1. /\ Columns(r[1]..(i - 1)) \in Nat /\ Columns(r[1]..i) \in Nat
          /\ Columns(r[1]..i) <= Columns(r[1]..r[2])
      BY <2>2, TabBounds
    <3> QED
      BY <2>10, <3>1
  <2>13. hit = {cell} \ {0}
    <3>1. CASE left < col + 1 /\ col + 1 <= left + Len(tabs)
      <4> DEFINE c == (col + 1) - left
      <4>1. c \in 1..Len(tabs) /\ cell = tabs[c] /\ col = (left + c) - 1
        BY <2>5, <2>7, <2>10, <2>11, <3>1
      <4> HIDE DEF c
      <4>2. cell \in r[1]..r[2] /\ cell # 0
        BY <2>3, <2>10, <4>1
      <4>3. \A i \in r[1]..r[2] :
              cell = i <=> Columns(r[1]..(i - 1)) < c /\ c <= Columns(r[1]..i)
        BY <2>10, <4>1
      <4>4. \A i \in r[1]..r[2] : i \in hit <=> Columns(r[1]..(i - 1)) < c /\ c <= Columns(r[1]..i)
        BY <2>7, <2>8, <2>12, <4>1
      <4> QED
        BY <2>9, <4>2, <4>3, <4>4
    <3>2. CASE ~(left < col + 1 /\ col + 1 <= left + Len(tabs))
      <4>1. cell = 0
        BY <2>5, <3>2
      <4>2. \A i \in r[1]..r[2] : i \notin hit
        BY <2>7, <2>8, <2>10, <2>11, <2>12, <3>2
      <4> QED
        BY <2>9, <4>1, <4>2
    <3> QED
      BY <3>1, <3>2
  <2> QED
    BY <2>1, <2>13 DEF hit, cell, area
<1> QED
  BY <1>1, AlwaysInBounds, PTL

=============================================================================
