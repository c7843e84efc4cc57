-------------------------- MODULE TeamCommandsProofs --------------------------
(***************************************************************************)
(* What commands keep of a team, for every value of the constants: however *)
(* many clones set up, join, leave and abandon boards, and wherever their  *)
(* commands are killed, there is one board (TeamSetup); the record of a    *)
(* worktree's work (CheckoutIdentity); the commit that the plan prepared   *)
(* for it stands on (PreparedPlan); and what the guard lets two clones do  *)
(* at once (StepGuard).  None of these is inductive as it stands: each has *)
(* an invariant of its own that its actions preserve.                      *)
(***************************************************************************)
EXTENDS MCCommands, TLAPS, FiniteSetTheorems, SequenceTheorems

-----------------------------------------------------------------------------
(* TeamSetup.  Why a board that lands late is known to somebody depends on *)
(* who sent it, and what a command may link or connect to on where it      *)
(* stands.                                                                 *)

Revision    == [board : Nat, rev : Nat]
JobNames    == {"none", "init", "join", "leave", "abandon"}
SetupPlaces == {"idle", "look", "read", "publish", "push", "reconcile", "mark", "join", "connect",
                "leave", "abandon"}

SetupTypes ==
  /\ remote \in Revision /\ sent \in SUBSET Revision
  /\ local \in [Clones -> [board : Nat, pending : Revision]]
  /\ marker \in [Clones -> Nat]
  /\ setup \in [Clones -> [job : JobNames, at : SetupPlaces, board : Nat]]
  /\ drawn \in [boards : Nat, revisions : Nat, jobs : Nat]
  /\ given \in SUBSET Nat

\* Whatever was drawn has a name.
BoardsNamed == /\ remote # Nothing => remote.board # None
               /\ \A p \in sent : p.board # None
               /\ \A k \in Clones : Pending(k) # Nothing => Pending(k).board # None

\* What a command knows where it stands.
Knows(k) ==
  /\ At(k, "look") => Pending(k) = Nothing
  /\ setup[k].at \in {"read", "publish", "push", "reconcile", "mark"} => Pending(k) # Nothing
  /\ At(k, "mark") => Pending(k).board = remote.board
  /\ setup[k].board # None => marker[k] = setup[k].board
  /\ At(k, "connect") => setup[k].board # None
SetupControl == \A k \in Clones : Knows(k)

\* Who knows of a board: its maker, unless it is abandoned, and who found it.
Traced(b) == b \in given \/ \E k \in Clones : b \in {marker[k], Pending(k).board}
BoardKnown == /\ remote # Nothing => Traced(remote.board)
              /\ remote = Nothing => \A p \in sent : Traced(p.board)

Marked    == \A k \in Clones : marker[k] # None => marker[k] = remote.board
Connected == \A k \in Clones : local[k].board # None =>
                local[k].board = remote.board /\ marker[k] = local[k].board

SetupInv == SetupTypes /\ BoardsNamed /\ SetupControl /\ BoardKnown /\ Marked /\ Connected

-----------------------------------------------------------------------------
\* What OneBoard says is part of the invariant.
LEMMA SetupImplies == SetupInv => OneBoard
  BY DEF SetupInv, BoardKnown, Traced, Marked, Connected, OneBoard, Pending

LEMMA SetupStarts == SetupInit => SetupInv
  <1> SUFFICES ASSUME SetupInit PROVE SetupInv
    OBVIOUS
  <1>1. \A k \in Clones : local[k] = Alone /\ marker[k] = None /\ setup[k] = Rest
    BY DEF SetupInit
  <1>2. SetupTypes
    BY DEF SetupInit, SetupTypes, Revision, JobNames, SetupPlaces, Nothing, None, Alone, Rest
  <1>3. BoardsNamed /\ BoardKnown /\ Marked /\ Connected
    BY <1>1 DEF SetupInit, BoardsNamed, BoardKnown, Marked, Connected, Pending, Alone, None
  <1>4. SetupControl
    BY <1>1 DEF SetupControl, Knows, At, Rest, None
  <1> QED
    BY <1>2, <1>3, <1>4 DEF SetupInv

-----------------------------------------------------------------------------
LEMMA GoesTyped ==
  ASSUME SetupTypes, NEW k \in Clones, NEW where \in SetupPlaces, GoTo(k, where)
  PROVE  /\ setup' \in [Clones -> [job : JobNames, at : SetupPlaces, board : Nat]]
         /\ setup'[k].at = where /\ setup'[k].board = setup[k].board
         /\ \A l \in Clones \ {k} : setup'[l] = setup[l]
  BY DEF SetupTypes, GoTo

LEMMA EndsTyped ==
  ASSUME SetupTypes, NEW k \in Clones, Ends(k)
  PROVE  /\ setup' \in [Clones -> [job : JobNames, at : SetupPlaces, board : Nat]]
         /\ setup'[k].at = "idle" /\ setup'[k].board = None
         /\ \A l \in Clones \ {k} : setup'[l] = setup[l]
  BY DEF SetupTypes, Ends, Rest, JobNames, SetupPlaces, None

LEMMA SavesTyped ==
  ASSUME SetupTypes, NEW k \in Clones, NEW new \in [board : Nat, pending : Revision], Saves(k, new)
  PROVE  /\ local' \in [Clones -> [board : Nat, pending : Revision]]
         /\ local'[k] = new
         /\ \A l \in Clones \ {k} : local'[l] = local[l]
  BY DEF SetupTypes, Saves

LEMMA SetupConstants == /\ Nothing \in Revision /\ Alone \in [board : Nat, pending : Revision]
                   /\ Nothing.board = None /\ None \in Nat
                   /\ Alone.board = None /\ Alone.pending = Nothing
  BY DEF Nothing, Alone, Revision, None

\* A step that moves nothing but a command disturbs only what commands know.
LEMMA OnlyCommands ==
  ASSUME SetupInv, UNCHANGED <<remote, sent, local, marker, given>>
  PROVE  (BoardsNamed /\ BoardKnown /\ Marked /\ Connected)'
  BY DEF SetupInv, BoardsNamed, BoardKnown, Traced, Marked, Connected, Pending

LEMMA BeginKeeps ==
  ASSUME SetupInv, NEW k \in Clones, NEW what \in {"init", "join", "leave", "abandon"}, Begin(k, what)
  PROVE  SetupInv'
  <1>1. SetupTypes'
    BY DEF SetupInv, SetupTypes, JobNames, SetupPlaces, Begin, Rest, None
  <1>2. SetupControl'
    BY DEF SetupInv, SetupTypes, SetupControl, Knows, Begin, At, Pending, None
  <1>3. (BoardsNamed /\ BoardKnown /\ Marked /\ Connected)'
    BY OnlyCommands DEF Begin
  <1> QED
    BY <1>1, <1>2, <1>3 DEF SetupInv

LEMMA RefusedKeeps ==
  ASSUME SetupInv, NEW k \in Clones, Refused(k)
  PROVE  SetupInv'
  <1>1. SetupTypes'
    BY EndsTyped DEF SetupInv, SetupTypes, Refused
  <1>2. SetupControl'
    BY EndsTyped DEF SetupInv, SetupControl, Knows, Refused, At, Pending
  <1>3. (BoardsNamed /\ BoardKnown /\ Marked /\ Connected)'
    BY OnlyCommands DEF Refused
  <1> QED
    BY <1>1, <1>2, <1>3 DEF SetupInv

LEMMA ReadBoardKeeps ==
  ASSUME SetupInv, NEW k \in Clones, ReadBoard(k)
  PROVE  SetupInv'
  <1>1. PICK where \in {"publish", "mark"} :
          GoTo(k, where) /\ (where = "mark" => remote.board = Pending(k).board)
    BY DEF ReadBoard
  <1>2. SetupTypes'
    BY <1>1, GoesTyped DEF SetupInv, SetupTypes, ReadBoard, SetupPlaces
  <1>3. SetupControl'
    BY <1>1, GoesTyped DEF SetupInv, SetupControl, Knows, ReadBoard, At, Pending, SetupPlaces
  <1>4. (BoardsNamed /\ BoardKnown /\ Marked /\ Connected)'
    BY OnlyCommands DEF ReadBoard
  <1> QED
    BY <1>2, <1>3, <1>4 DEF SetupInv

LEMMA ReadJoinedKeeps ==
  ASSUME SetupInv, NEW k \in Clones, ReadJoined(k)
  PROVE  SetupInv'
  <1>1. GoTo(k, "connect") /\ setup[k].board # None
    BY DEF ReadJoined
  <1>2. SetupTypes'
    BY <1>1, GoesTyped DEF SetupInv, SetupTypes, ReadJoined, SetupPlaces
  <1>3. SetupControl'
    BY <1>1, GoesTyped DEF SetupInv, SetupControl, Knows, ReadJoined, At, Pending, SetupPlaces
  <1>4. (BoardsNamed /\ BoardKnown /\ Marked /\ Connected)'
    BY OnlyCommands DEF ReadJoined
  <1> QED
    BY <1>2, <1>3, <1>4 DEF SetupInv

LEMMA ReconcileKeeps ==
  ASSUME SetupInv, NEW k \in Clones, Reconcile(k)
  PROVE  SetupInv'
  <1>1. \/ GoTo(k, "mark") /\ remote = Pending(k)
        \/ Ends(k)
    BY DEF Reconcile
  <1>2. UNCHANGED <<remote, sent, local, marker, given, drawn>>
    BY DEF Reconcile, Unconfirmed
  <1>3. SetupTypes'
    BY <1>1, <1>2, GoesTyped, EndsTyped DEF SetupInv, SetupTypes, SetupPlaces
  <1>4. SetupControl'
    <2>1. CASE GoTo(k, "mark") /\ remote = Pending(k)
      BY <1>2, <2>1, GoesTyped DEF SetupInv, SetupControl, Knows, Reconcile, At, Pending, SetupPlaces
    <2>2. CASE Ends(k)
      BY <1>2, <2>2, EndsTyped DEF SetupInv, SetupControl, Knows, At, Pending
    <2> QED
      BY <1>1, <2>1, <2>2
  <1>5. (BoardsNamed /\ BoardKnown /\ Marked /\ Connected)'
    BY <1>2, OnlyCommands
  <1> QED
    BY <1>3, <1>4, <1>5 DEF SetupInv

\* What is remembered of a board that was drawn makes it traced.
LEMMA LookForBoardKeeps ==
  ASSUME SetupInv, NEW k \in Clones, LookForBoard(k)
  PROVE  SetupInv'
  <1> DEFINE drew == [board |-> drawn.boards + 1, rev |-> 0]
             new  == [local[k] EXCEPT !.pending = drew]
  <1>1. /\ drew \in Revision /\ drew.board # None /\ drew # Nothing
        /\ new \in [board : Nat, pending : Revision]
        /\ new.board = local[k].board /\ new.pending = drew
    BY DEF SetupInv, SetupTypes, Revision, None, Nothing
  <1>2. /\ Saves(k, new) /\ GoTo(k, "read") /\ remote = Nothing
        /\ At(k, "look") /\ UNCHANGED <<remote, sent, marker, given>>
    BY DEF LookForBoard
  <1> HIDE DEF new, drew
  <1>3. /\ local' \in [Clones -> [board : Nat, pending : Revision]]
        /\ local'[k] = new /\ \A l \in Clones \ {k} : local'[l] = local[l]
    BY <1>1, <1>2, SavesTyped DEF SetupInv
  <1>4. SetupTypes'
    BY <1>2, <1>3, GoesTyped DEF SetupInv, SetupTypes, LookForBoard, SetupPlaces
  <1>5. BoardsNamed' /\ Marked' /\ Connected'
    BY <1>1, <1>2, <1>3 DEF SetupInv, BoardsNamed, Marked, Connected, Pending
  <1>6. SetupControl'
    BY <1>1, <1>2, <1>3, GoesTyped DEF SetupInv, SetupControl, Knows, At, Pending, SetupPlaces
  <1>7. BoardKnown'
    <2>1. Pending(k) = Nothing
      BY <1>2 DEF SetupInv, SetupControl, Knows
    <2>2. \A p \in sent : p.board # None /\ Traced(p.board)
      BY <1>2 DEF SetupInv, BoardsNamed, BoardKnown
    <2>3. \A p \in sent : Traced(p.board)'
      BY <1>2, <1>3, <2>1, <2>2, SetupConstants DEF Traced, Pending
    <2> QED
      BY <1>2, <2>3 DEF BoardKnown, Traced
  <1> QED
    BY <1>4, <1>5, <1>6, <1>7 DEF SetupInv

\* The revision that is retained is one of the same board.
LEMMA RememberKeeps ==
  ASSUME SetupInv, NEW k \in Clones, Remember(k)
  PROVE  SetupInv'
  <1>1. /\ At(k, "publish") /\ Pending(k) # Nothing /\ Pending(k).board # None
        /\ UNCHANGED <<remote, sent, marker, given>>
    BY DEF SetupInv, SetupControl, Knows, BoardsNamed, At, Remember
  <1>2. PICK where \in {"push", "mark"} :
          GoTo(k, where) /\ (where = "mark" => remote.board = Pending(k).board)
    BY DEF Remember
  <1>3. /\ local' \in [Clones -> [board : Nat, pending : Revision]]
        /\ local'[k].board = local[k].board /\ Pending(k)'.board = Pending(k).board
        /\ \A l \in Clones \ {k} : local'[l] = local[l]
        /\ drawn' \in [boards : Nat, revisions : Nat, jobs : Nat]
    <2>1. CASE UNCHANGED <<local, drawn>>
      BY <2>1 DEF SetupInv, SetupTypes, Pending
    <2>2. CASE /\ Saves(k, [local[k] EXCEPT !.pending.rev = drawn.revisions + 1])
               /\ drawn' = [drawn EXCEPT !.revisions = @ + 1]
      <3> DEFINE new == [local[k] EXCEPT !.pending.rev = drawn.revisions + 1]
      <3>1. /\ new \in [board : Nat, pending : Revision]
            /\ new.board = local[k].board /\ new.pending.board = Pending(k).board
        BY DEF SetupInv, SetupTypes, Revision, Pending
      <3>2. Saves(k, new)
        BY <2>2
      <3> HIDE DEF new
      <3>3. /\ local' \in [Clones -> [board : Nat, pending : Revision]]
            /\ local'[k] = new /\ \A l \in Clones \ {k} : local'[l] = local[l]
        BY <3>1, <3>2, SavesTyped DEF SetupInv
      <3> QED
        BY <2>2, <3>1, <3>3 DEF SetupInv, SetupTypes, Pending
    <2> QED
      BY <2>1, <2>2 DEF Remember
  <1>4. /\ Pending(k)' # Nothing
        /\ \A l \in Clones : /\ local'[l].board = local[l].board
                             /\ Pending(l)'.board = Pending(l).board
    BY <1>1, <1>3, SetupConstants DEF Pending
  <1>5. SetupTypes'
    BY <1>1, <1>2, <1>3, GoesTyped DEF SetupInv, SetupTypes, SetupPlaces
  <1>6. BoardsNamed' /\ Marked' /\ Connected'
    BY <1>1, <1>3, <1>4 DEF SetupInv, BoardsNamed, Marked, Connected, Pending
  <1>7. SetupControl'
    BY <1>1, <1>2, <1>3, <1>4, GoesTyped DEF SetupInv, SetupControl, Knows, At, Pending, SetupPlaces
  <1>8. BoardKnown'
    BY <1>1, <1>4 DEF SetupInv, BoardKnown, Traced
  <1> QED
    BY <1>5, <1>6, <1>7, <1>8 DEF SetupInv

\* Before a board lands there is no file and no connection, and whoever sent it
\* is known; after that nothing else can land.
LEMMA LandingKeeps ==
  ASSUME SetupInv, NEW p \in Revision, Lands(p), p.board # None,
         remote = Nothing => Traced(p.board),
         sent' \subseteq sent \cup {p}, UNCHANGED <<local, marker, given>>
  PROVE  /\ (BoardsNamed /\ BoardKnown /\ Marked /\ Connected)'
         /\ remote' \in Revision /\ sent' \in SUBSET Revision
         /\ remote # Nothing => remote' = remote
         /\ remote = Nothing => \A l \in Clones : marker[l] = None /\ local[l].board = None
  <1>1. remote = Nothing => \A l \in Clones : marker[l] = None /\ local[l].board = None
    BY SetupConstants DEF SetupInv, Marked, Connected
  <1>2. remote' = IF remote = Nothing THEN p ELSE remote
    BY DEF Lands
  <1>3. BoardsNamed' /\ remote' \in Revision /\ sent' \in SUBSET Revision
    BY <1>2 DEF SetupInv, SetupTypes, BoardsNamed, Pending
  <1>4. Marked' /\ Connected'
    BY <1>1, <1>2 DEF SetupInv, Marked, Connected
  <1>5. BoardKnown'
    <2>1. \A b : Traced(b)' <=> Traced(b)
      BY DEF Traced, Pending
    <2>2. p # Nothing
      BY SetupConstants
    <2> QED
      BY <1>2, <2>1, <2>2 DEF SetupInv, BoardKnown
  <1> QED
    BY <1>1, <1>2, <1>3, <1>4, <1>5

LEMMA PushKeeps ==
  ASSUME SetupInv, NEW k \in Clones, Push(k)
  PROVE  SetupInv'
  <1>1. /\ Pending(k) \in Revision /\ Pending(k) # Nothing /\ Pending(k).board # None
        /\ Traced(Pending(k).board) /\ UNCHANGED <<local, marker, drawn, given>>
    BY DEF SetupInv, SetupTypes, SetupControl, Knows, BoardsNamed, Traced, Pending, At, Push
  <1>2. PICK where \in {"reconcile", "mark"} :
          GoTo(k, where) /\ (where = "mark" => remote = Nothing /\ Lands(Pending(k)))
    BY DEF Push
  <1>3. \/ Lands(Pending(k)) /\ UNCHANGED sent
        \/ sent' = sent \cup {Pending(k)} /\ UNCHANGED remote
    BY DEF Push
  <1>4. /\ (BoardsNamed /\ BoardKnown /\ Marked /\ Connected)'
        /\ remote' \in Revision /\ sent' \in SUBSET Revision
        /\ remote # Nothing => remote' = remote
    <2>1. CASE Lands(Pending(k)) /\ UNCHANGED sent
      BY <1>1, <2>1, LandingKeeps
    <2>2. CASE sent' = sent \cup {Pending(k)} /\ UNCHANGED remote
      BY <1>1, <2>2 DEF SetupInv, SetupTypes, BoardsNamed, BoardKnown, Traced, Marked, Connected, Pending
    <2> QED
      BY <1>3, <2>1, <2>2
  <1>5. SetupTypes'
    BY <1>1, <1>2, <1>4, GoesTyped DEF SetupInv, SetupTypes, SetupPlaces
  <1>6. SetupControl'
    <2>1. \A l \in Clones : At(l, "mark") => remote # Nothing
      BY SetupConstants DEF SetupInv, SetupControl, Knows, BoardsNamed, At
    <2>2. where = "mark" => remote'.board = Pending(k).board
      BY <1>2 DEF Lands
    <2> QED
      BY <1>1, <1>2, <1>4, <2>1, <2>2, GoesTyped DEF SetupInv, SetupControl, Knows, At, Pending, SetupPlaces
  <1> QED
    BY <1>4, <1>5, <1>6 DEF SetupInv

LEMMA ArriveKeeps ==
  ASSUME SetupInv, Arrive
  PROVE  SetupInv'
  <1>1. PICK p \in sent : sent' = sent \ {p} /\ Lands(p)
    BY DEF Arrive
  <1>2. p \in Revision /\ p.board # None /\ (remote = Nothing => Traced(p.board))
    BY DEF SetupInv, SetupTypes, BoardsNamed, BoardKnown
  <1>3. UNCHANGED <<local, marker, setup, drawn, given>>
    BY DEF Arrive
  <1>4. /\ (BoardsNamed /\ BoardKnown /\ Marked /\ Connected)'
        /\ remote' \in Revision /\ sent' \in SUBSET Revision
        /\ remote # Nothing => remote' = remote
    BY <1>1, <1>2, <1>3, LandingKeeps
  <1>5. SetupTypes'
    BY <1>3, <1>4 DEF SetupInv, SetupTypes
  <1>6. SetupControl'
    <2>1. \A l \in Clones : At(l, "mark") => remote # Nothing
      BY SetupConstants DEF SetupInv, SetupControl, Knows, BoardsNamed, At
    <2> QED
      BY <1>3, <1>4, <2>1 DEF SetupInv, SetupControl, Knows, At, Pending
  <1> QED
    BY <1>4, <1>5, <1>6 DEF SetupInv

LEMMA WriteMarkerKeeps ==
  ASSUME SetupInv, NEW k \in Clones, WriteMarker(k)
  PROVE  SetupInv'
  <1>1. /\ Pending(k).board = remote.board /\ Pending(k).board # None
        /\ marker[k] \in {None, Pending(k).board}
        /\ marker' = [marker EXCEPT ![k] = Pending(k).board]
        /\ setup' = [setup EXCEPT ![k].at = "connect", ![k].board = Pending(k).board]
        /\ UNCHANGED <<remote, sent, local, drawn, given>>
    BY DEF SetupInv, SetupControl, Knows, BoardsNamed, At, WriteMarker
  <1>2. \A l \in Clones : marker[l] # None => marker'[l] = marker[l]
    BY <1>1 DEF SetupInv, SetupTypes
  <1>3. SetupTypes'
    BY ZenonT(30), <1>1 DEF SetupInv, SetupTypes, Revision, SetupPlaces, Pending
  <1>4. BoardsNamed' /\ Marked' /\ Connected'
    BY <1>1, <1>2 DEF SetupInv, SetupTypes, BoardsNamed, Marked, Connected, Pending
  <1>5. SetupControl'
    BY <1>1, <1>2 DEF SetupInv, SetupTypes, SetupControl, Knows, At, Pending
  <1>6. BoardKnown'
    BY <1>1, <1>2 DEF SetupInv, BoardKnown, BoardsNamed, Traced, Pending
  <1> QED
    BY <1>3, <1>4, <1>5, <1>6 DEF SetupInv

\* Whoever has the file may forget what it remembered.
LEMMA ConnectKeeps ==
  ASSUME SetupInv, NEW k \in Clones, Connect(k)
  PROVE  SetupInv'
  <1> DEFINE new == [board |-> setup[k].board, pending |-> Nothing]
  <1>1. /\ setup[k].board # None /\ marker[k] = setup[k].board /\ marker[k] = remote.board
        /\ remote # Nothing
    BY SetupConstants DEF SetupInv, SetupControl, Knows, Marked, Connect, At
  <1>2. /\ Saves(k, new) /\ Ends(k) /\ UNCHANGED <<remote, sent, marker, drawn, given>>
    BY DEF Connect
  <1>3. /\ new \in [board : Nat, pending : Revision]
        /\ new.board = setup[k].board /\ new.pending = Nothing
    BY SetupConstants DEF SetupInv, SetupTypes
  <1> HIDE DEF new
  <1>4. /\ local' \in [Clones -> [board : Nat, pending : Revision]]
        /\ local'[k] = new /\ \A l \in Clones \ {k} : local'[l] = local[l]
    BY <1>2, <1>3, SavesTyped DEF SetupInv
  <1>5. SetupTypes'
    BY <1>2, <1>4, EndsTyped DEF SetupInv, SetupTypes
  <1>6. BoardsNamed' /\ Marked' /\ Connected'
    BY <1>1, <1>2, <1>3, <1>4 DEF SetupInv, BoardsNamed, Marked, Connected, Pending
  <1>7. SetupControl'
    BY <1>2, <1>3, <1>4, EndsTyped DEF SetupInv, SetupControl, Knows, At, Pending
  <1>8. BoardKnown'
    BY <1>1, <1>2 DEF SetupInv, BoardKnown, Traced
  <1> QED
    BY <1>5, <1>6, <1>7, <1>8 DEF SetupInv

\* To leave takes that nothing is remembered; to abandon gives the board up.
LEMMA LeaveKeeps ==
  ASSUME SetupInv, NEW k \in Clones, Leave(k)
  PROVE  SetupInv'
  <1>1. /\ Saves(k, Alone) /\ Ends(k) /\ UNCHANGED <<remote, sent, marker, drawn>>
        /\ \/ Pending(k) = Nothing /\ given' = given
           \/ given' = given \cup {Pending(k).board}
    BY DEF Leave
  <1>2. /\ local' \in [Clones -> [board : Nat, pending : Revision]]
        /\ local'[k] = Alone /\ \A l \in Clones \ {k} : local'[l] = local[l]
    BY <1>1, SavesTyped, SetupConstants DEF SetupInv
  <1>3. SetupTypes'
    <2>1. Pending(k).board \in Nat
      BY DEF SetupInv, SetupTypes, Revision, Pending
    <2>2. given' \in SUBSET Nat
      BY <1>1, <2>1 DEF SetupInv, SetupTypes
    <2> QED
      BY <1>1, <1>2, <2>2, EndsTyped DEF SetupInv, SetupTypes
  <1>4. BoardsNamed' /\ Marked' /\ Connected'
    BY <1>1, <1>2, SetupConstants DEF SetupInv, BoardsNamed, Marked, Connected, Pending
  <1>5. SetupControl'
    BY <1>1, <1>2, EndsTyped DEF SetupInv, SetupControl, Knows, At, Pending
  <1>6. BoardKnown'
    <2>1. \A b : Traced(b) /\ b # None => Traced(b)'
      BY <1>1, <1>2, SetupConstants DEF Traced, Pending
    <2> QED
      BY <1>1, <2>1 DEF SetupInv, BoardKnown, BoardsNamed
  <1> QED
    BY <1>3, <1>4, <1>5, <1>6 DEF SetupInv

LEMMA ShareKeeps ==
  ASSUME SetupInv, Share
  PROVE  SetupInv'
  <1>1. PICK k \in Clones, l \in Clones :
          /\ marker[l] = None /\ marker[k] # None
          /\ marker' = [marker EXCEPT ![l] = marker[k]]
    BY DEF Share
  <1>2. UNCHANGED <<remote, sent, local, setup, drawn, given>>
    BY DEF Share
  <1>3. \A e \in Clones : marker[e] # None => marker'[e] = marker[e]
    BY <1>1 DEF SetupInv, SetupTypes
  <1>4. SetupTypes' /\ BoardsNamed'
    BY <1>1, <1>2 DEF SetupInv, SetupTypes, BoardsNamed, Pending
  <1>5. Marked' /\ Connected'
    BY <1>1, <1>2, <1>3 DEF SetupInv, SetupTypes, Marked, Connected
  <1>6. SetupControl'
    BY <1>2, <1>3 DEF SetupInv, SetupControl, Knows, At, Pending
  <1>7. BoardKnown'
    BY <1>2, <1>3, SetupConstants DEF SetupInv, BoardKnown, BoardsNamed, Traced, Pending
  <1> QED
    BY <1>4, <1>5, <1>6, <1>7 DEF SetupInv

-----------------------------------------------------------------------------
LEMMA SetupInductive == SetupInv /\ [SetupNext]_boardVars => SetupInv'
  <1> SUFFICES ASSUME SetupInv, [SetupNext]_boardVars PROVE SetupInv'
    OBVIOUS
  <1>1. CASE UNCHANGED boardVars
    BY <1>1 DEF SetupInv, SetupTypes, BoardsNamed, SetupControl, Knows, BoardKnown, Traced, Marked, Connected, At, Pending,
                boardVars
  <1>2. ASSUME NEW k \in Clones, Works(k) \/ Refused(k) PROVE SetupInv'
    BY <1>2, LookForBoardKeeps, ReadBoardKeeps, RememberKeeps, PushKeeps, ReconcileKeeps,
       WriteMarkerKeeps, ReadJoinedKeeps, ConnectKeeps, LeaveKeeps, RefusedKeeps DEF Works
  <1>3. ASSUME NEW k \in Clones, NEW what \in {"init", "join", "leave", "abandon"}, Begin(k, what)
        PROVE  SetupInv'
    BY <1>3, BeginKeeps
  <1> QED
    BY <1>1, <1>2, <1>3, ArriveKeeps, ShareKeeps DEF SetupNext

LEMMA SetupInvariant == SetupSpec => []SetupInv
  BY SetupStarts, SetupInductive, PTL DEF SetupSpec

\* Everything keeps its type, whoever sets up what and wherever it is killed.
THEOREM SetupTypeCorrect == SetupSpec => []SetupTypes
  <1>1. SetupInv => SetupTypes
    BY DEF SetupInv
  <1> QED
    BY <1>1, SetupInvariant, PTL

\* Whoever is connected, is connected to the board of the remote, and a board
\* that came to be there can be joined unless its maker gave it up.
THEOREM BoardsAreOne == SetupSpec => []OneBoard
  BY SetupImplies, SetupInvariant, PTL
-----------------------------------------------------------------------------
(* CheckoutIdentity.  A number is a worktree's, given by an older release, *)
(* or was drawn; keys and numbers of the records are then distinct, and a  *)
(* worktree that holds work reaches the record of it by its key.           *)

IsDrawn(n)   == n \in Nat /\ Worktrees < n /\ n <= numbers
IsNamed(n, w) == n = w \/ IsDrawn(n)

IsOldRecord(r) == r.key = <<1, r.id>> /\ r.id \in I!Trees
IsNewRecord(r) == /\ \E n \in Nat : r.key = <<0, n>> /\ (n \in I!Trees \/ IsDrawn(n))
                  /\ r.id \in I!Trees \/ IsDrawn(r.id)
IsRecord(r)    == /\ r = [key |-> r.key, id |-> r.id, work |-> r.work] /\ r.work \in BOOLEAN
                  /\ IsOldRecord(r) \/ IsNewRecord(r)

PlacesOK == /\ numbers \in Nat /\ Worktrees <= numbers /\ place \in Nat /\ place >= 1
            /\ trees \subseteq I!Trees
            /\ ident \in [I!Trees -> Nat] /\ holds \in [I!Trees -> Nat]
            /\ \A w \in I!Trees : ident[w] # 0 => IsNamed(ident[w], w)
            /\ \A v, w \in I!Trees : v # w /\ ident[v] # 0 => ident[v] # ident[w]
            /\ \A w \in I!Trees : w \notin trees => ident[w] = 0 /\ holds[w] = 0

RecordsOK == /\ \A r \in checkouts : IsRecord(r)
             /\ \A r, s \in checkouts : r # s => r.key # s.key /\ r.id # s.id
             /\ \A r, s \in checkouts : I!IsOlder(s) => r.key # <<0, s.id>>

FindsOwn(w, r) == IF I!IsOlder(r) THEN r.key = <<1, w>> /\ ident[w] \in {0, w}
                                 ELSE ident[w] # 0 /\ r.key = <<0, ident[w]>>
HoldsOK == \A w \in I!Trees : holds[w] # 0 =>
              \E r \in checkouts : r.id = holds[w] /\ r.work /\ FindsOwn(w, r)

\* What a command means to save: a record no other worktree has or will come by.
SavesOwn(t, n, r, saved) ==
    /\ r = [key |-> <<0, n>>, id |-> r.id, work |-> r.work] /\ r.work \in BOOLEAN
    /\ r.id \in I!Trees \/ IsDrawn(r.id)
    /\ saved \subseteq checkouts
    /\ \A s \in saved : s.key # <<0, n>> /\ s.id # r.id /\ (I!IsOlder(s) => n # s.id)
    /\ \A s \in checkouts : s.work /\ s.id # r.id => s \in saved
    /\ \A s \in checkouts : s.id = r.id =>
          IF I!IsOlder(s) THEN s.key = <<1, t>> /\ n = s.id ELSE s.key = <<0, n>>
    /\ holds[t] \in {0, r.id} /\ \A v \in I!Trees : v # t => holds[v] # r.id
NumberOK(t, n) == /\ n \in Nat /\ IsNamed(n, t) /\ ident[t] \in {0, n}
               /\ \A v \in I!Trees : v # t => ident[v] # n
WorksOn(at, t, n, r, saved) ==
    /\ command = [at |-> at, tree |-> t, key |-> <<0, n>>, record |-> {r}, saved |-> saved]
    /\ at \in {"loaded", "known"} /\ t \in trees /\ NumberOK(t, n) /\ SavesOwn(t, n, r, saved)
    /\ at = "known" => ident[t] = n
CommandOK == \/ command = I!Quiet
             \/ \E r \in command.record :
                   WorksOn(command.at, command.tree, command.key[2], r, command.saved)

IdentityInv == PlacesOK /\ RecordsOK /\ HoldsOK /\ CommandOK

LEMMA TreesAreNumbers == I!Trees \subseteq Nat \ {0} /\ \A w \in I!Trees : w <= Worktrees
  BY CommandsAssumption DEF I!Trees

\* More numbers drawn, and nothing else changed but the command.
LEMMA DrawingKeeps ==
  ASSUME IdentityInv, UNCHANGED <<place, trees, ident, checkouts, holds>>,
         numbers' \in Nat, numbers <= numbers'
  PROVE  PlacesOK' /\ RecordsOK' /\ HoldsOK'
<1>1. PlacesOK'
  BY CommandsAssumption DEF IdentityInv, PlacesOK, IsNamed, IsDrawn
<1>2. \A r \in checkouts : IsRecord(r) => IsRecord(r)'
  BY CommandsAssumption DEF IdentityInv, PlacesOK, IsRecord, IsOldRecord, IsNewRecord, IsDrawn
<1>3. RecordsOK'
  BY <1>2 DEF IdentityInv, RecordsOK, I!IsOlder
<1>4. HoldsOK'
  BY DEF IdentityInv, HoldsOK, FindsOwn, I!IsOlder
<1> QED  BY <1>1, <1>3, <1>4

\* The record a worktree finds by its key is the one it holds work in.
LEMMA OwnRecord ==
  ASSUME IdentityInv, NEW w \in I!Trees, NEW r \in checkouts, FindsOwn(w, r)
  PROVE  /\ holds[w] \in {0, r.id}
         /\ \A v \in I!Trees : v # w => holds[v] # r.id
<1>1. \A s \in checkouts : FindsOwn(w, s) => s = r
  <2> SUFFICES ASSUME NEW s \in checkouts, FindsOwn(w, s), s # r PROVE FALSE
    OBVIOUS
  <2>1. s.key # r.key
    BY DEF IdentityInv, RecordsOK
  <2>2. CASE I!IsOlder(s) /\ ~I!IsOlder(r)
    <3>1. s.key = <<1, w>> /\ ident[w] = w /\ r.key = <<0, w>>
      BY <2>2 DEF FindsOwn
    <3>2. s.id = w
      BY <2>2, <3>1 DEF IdentityInv, RecordsOK, IsRecord, IsOldRecord, IsNewRecord, I!IsOlder
    <3> QED  BY <2>2, <3>1, <3>2 DEF IdentityInv, RecordsOK
  <2>3. CASE I!IsOlder(r) /\ ~I!IsOlder(s)
    <3>1. r.key = <<1, w>> /\ ident[w] = w /\ s.key = <<0, w>>
      BY <2>3 DEF FindsOwn
    <3>2. r.id = w
      BY <2>3, <3>1 DEF IdentityInv, RecordsOK, IsRecord, IsOldRecord, IsNewRecord, I!IsOlder
    <3> QED  BY <2>3, <3>1, <3>2 DEF IdentityInv, RecordsOK
  <2> QED  BY <2>1, <2>2, <2>3 DEF FindsOwn
<1>2. \A v \in I!Trees : v # w => ~FindsOwn(v, r)
  BY DEF FindsOwn, IdentityInv, PlacesOK
<1>3. ASSUME NEW v \in I!Trees, holds[v] = r.id, v # w PROVE FALSE
  <2>1. r.id # 0
    BY CommandsAssumption, TreesAreNumbers
       DEF IdentityInv, RecordsOK, IsRecord, IsOldRecord, IsNewRecord, IsDrawn
  <2>2. PICK s \in checkouts : s.id = holds[v] /\ FindsOwn(v, s)
    BY <1>3, <2>1 DEF IdentityInv, HoldsOK
  <2>3. s = r
    BY <1>3, <2>2 DEF IdentityInv, RecordsOK
  <2> QED  BY <1>2, <1>3, <2>2, <2>3
<1>4. holds[w] \in {0, r.id}
  <2>1. ASSUME holds[w] # 0 PROVE holds[w] = r.id
    <3>1. PICK s \in checkouts : s.id = holds[w] /\ FindsOwn(w, s)
      BY <2>1 DEF IdentityInv, HoldsOK
    <3> QED  BY <1>1, <3>1
  <2> QED  BY <2>1
<1> QED  BY <1>3, <1>4

\* A command that takes the record a worktree reaches: under its key, or its first.
LEMMA FoundSaves ==
  ASSUME IdentityInv, NEW w \in I!Trees, NEW r \in checkouts, FindsOwn(w, r),
         NEW n \in Nat, NEW saved, saved \subseteq checkouts \ {r},
         \A s \in checkouts : s.work /\ s # r => s \in saved,
         IF I!IsOlder(r) THEN n = w ELSE n = ident[w],
         \A s \in checkouts : s # r => s.key # <<0, n>>
  PROVE  SavesOwn(w, n, [r EXCEPT !.key = <<0, n>>], saved)
<1> DEFINE q == [r EXCEPT !.key = <<0, n>>]
<1>1. IsRecord(r)
  BY DEF IdentityInv, RecordsOK
<1>2. q = [key |-> <<0, n>>, id |-> r.id, work |-> r.work] /\ q.id = r.id /\ q.work = r.work
  BY <1>1 DEF IsRecord
<1>3. \A s \in checkouts : s # r => s.id # r.id /\ s.key # r.key
  BY DEF IdentityInv, RecordsOK
<1>4. r.id \in I!Trees \/ IsDrawn(r.id)
  BY <1>1 DEF IsRecord, IsOldRecord, IsNewRecord
<1>5. I!IsOlder(r) => r.key = <<1, w>> /\ r.id = w
  BY <1>1 DEF IsRecord, IsOldRecord, IsNewRecord, I!IsOlder, FindsOwn
<1>6. ~I!IsOlder(r) => r.key = <<0, n>>
  BY DEF FindsOwn
<1>7. \A s \in checkouts : s # r /\ I!IsOlder(s) => n # s.id
  <2>1. CASE I!IsOlder(r)
    BY <1>3, <1>5, <2>1
  <2>2. CASE ~I!IsOlder(r)
    BY <1>6, <2>2 DEF IdentityInv, RecordsOK
  <2> QED  BY <2>1, <2>2
<1>8. holds[w] \in {0, r.id} /\ \A v \in I!Trees : v # w => holds[v] # r.id
  BY OwnRecord
<1>9. \A s \in checkouts : s.id = r.id =>
         IF I!IsOlder(s) THEN s.key = <<1, w>> /\ n = s.id ELSE s.key = <<0, n>>
  <2>1. \A s \in checkouts : s.id = r.id => s = r
    BY <1>3
  <2> QED  BY <2>1, <1>5, <1>6
<1>10. \A s \in saved : s \in checkouts /\ s # r
  OBVIOUS
<1>11. \A s \in saved : s.key # <<0, n>> /\ s.id # r.id /\ (I!IsOlder(s) => n # s.id)
  BY <1>3, <1>7, <1>10
<1>12. \A s \in checkouts : s.work /\ s.id # r.id => s \in saved
  OBVIOUS
<1>13. r.work \in BOOLEAN
  BY <1>1 DEF IsRecord
<1> HIDE DEF q
<1>14. SavesOwn(w, n, q, saved)
  BY <1>2, <1>4, <1>8, <1>9, <1>10, <1>11, <1>12, <1>13 DEF SavesOwn
<1> QED  BY <1>14 DEF q

\* A command that takes a new record: the worktree holds no work.
LEMMA NewSaves ==
  ASSUME PlacesOK, RecordsOK, NEW w \in I!Trees, NEW n \in Nat, NEW id, NEW saved,
         saved \subseteq checkouts, holds[w] = 0,
         \A s \in checkouts : s.work => s \in saved,
         IsDrawn(id), \A s \in checkouts : s.id # id,
         \A v \in I!Trees : holds[v] # id,
         \A s \in saved : s.key # <<0, n>> /\ (I!IsOlder(s) => n # s.id)
  PROVE  SavesOwn(w, n, [key |-> <<0, n>>, id |-> id, work |-> FALSE], saved)
  BY DEF SavesOwn

LEMMA LoadsOne ==
  ASSUME NEW w, NEW key, NEW r, NEW k, I!Loads(w, key, {r}, k)
  PROVE  /\ command' = [at |-> "loaded", tree |-> w, key |-> key,
                        record |-> {[r EXCEPT !.key = key]},
                        saved |-> I!Compact(IF ident[w] = 0 THEN I!Here(w) ELSE <<0, ident[w]>>)
                                     \ {r}]
         /\ numbers' = numbers + k
<1>1. {[s EXCEPT !.key = key] : s \in {r}} = {[r EXCEPT !.key = key]}
  BY Zenon
<1> QED  BY <1>1 DEF I!Loads

LEMMA Rekeyed ==
  ASSUME NEW k, NEW n, NEW id, NEW b
  PROVE  [[key |-> k, id |-> id, work |-> b] EXCEPT !.key = n] = [key |-> n, id |-> id, work |-> b]
  OBVIOUS

LEMMA LoadsNew ==
  ASSUME NEW w, NEW k, NEW key, NEW id, NEW m,
         I!Loads(w, key, {[key |-> k, id |-> id, work |-> FALSE]}, m)
  PROVE  /\ command' = [at |-> "loaded", tree |-> w, key |-> key,
                        record |-> {[key |-> key, id |-> id, work |-> FALSE]},
                        saved |-> I!Compact(IF ident[w] = 0 THEN I!Here(w) ELSE <<0, ident[w]>>)
                                     \ {[key |-> k, id |-> id, work |-> FALSE]}]
         /\ numbers' = numbers + m
<1>0. PICK b \in BOOLEAN : b = FALSE
  OBVIOUS
<1> DEFINE r == [key |-> k, id |-> id, work |-> b]
<1>1. [r EXCEPT !.key = key] = [key |-> key, id |-> id, work |-> b]
  BY Rekeyed
<1>2. I!Loads(w, key, {r}, m)
  BY <1>0
<1> HIDE DEF r
<1>3. /\ command' = [at |-> "loaded", tree |-> w, key |-> key, record |-> {[r EXCEPT !.key = key]},
                     saved |-> I!Compact(IF ident[w] = 0 THEN I!Here(w) ELSE <<0, ident[w]>>)
                                  \ {r}]
      /\ numbers' = numbers + m
  BY <1>2, LoadsOne
<1> QED  BY <1>0, <1>1, <1>3 DEF r

LEMMA NoneCounted == I!Cardinality({}) = 0
<1>1. I!Cardinality({}) = Cardinality({})
  BY Zenon DEF I!Cardinality, Cardinality, I!IsFiniteSet, IsFiniteSet
<1> QED  BY <1>1, FS_EmptySet

\* The cases of a worktree without an identity, and with one, whose key has no record.
LEMMA LoadUnknown ==
  ASSUME NEW w, I!Load(w), ident[w] = 0
  PROVE  \/ {r \in checkouts : r.key = I!Here(w)} # {}
         \/ I!Cardinality(I!Began(w)) = 1 /\ I!Loads(w, I!Here(w), I!Began(w), 0)
         \/ /\ ~\E r \in I!Compact(I!Here(w)) :
                  I!IsOlder(r) /\ r.key \notin I!Registered(I!Here(w)) /\ r.work
            /\ I!Loads(w, <<0, numbers + 1>>,
                   {[key |-> I!Here(w), id |-> numbers + 2, work |-> FALSE]}, 2)
  BY DEF I!Load

LEMMA LoadKnown ==
  ASSUME NEW w, I!Load(w), ident[w] # 0
  PROVE  \/ {r \in checkouts : r.key = <<0, ident[w]>>} # {}
         \/ I!Cardinality(I!Began(w)) = 1 /\ I!Loads(w, <<0, ident[w]>>, I!Began(w), 0)
         \/ /\ I!Began(w) = {}
            /\ I!Loads(w, <<0, ident[w]>>,
                   {[key |-> <<0, ident[w]>>, id |-> numbers + 1, work |-> FALSE]}, 1)
  BY DEF I!Load

LEMMA LoadKeeps ==
  ASSUME IdentityInv, NEW w \in I!Trees, I!Load(w)
  PROVE  IdentityInv'
<1> DEFINE key   == IF ident[w] = 0 THEN I!Here(w) ELSE <<0, ident[w]>>
           found == {r \in checkouts : r.key = key}
           compact == I!Compact(key)
<1>1. w \in trees /\ UNCHANGED <<place, trees, ident, checkouts, holds>>
  BY DEF I!Load
<1>2. compact \subseteq checkouts /\ \A r \in checkouts : r.work => r \in compact
  BY DEF I!Compact
<1>3. /\ numbers \in Nat /\ place \in Nat /\ place >= 1 /\ ident[w] \in Nat /\ w # 0
      /\ Worktrees \in Nat /\ Worktrees <= numbers
  BY TreesAreNumbers, CommandsAssumption DEF IdentityInv, PlacesOK
<1>4. \A r \in checkouts : IsRecord(r) /\ r.id # 0 /\ r.id \in Nat /\ r.id <= numbers
  BY <1>3, TreesAreNumbers
     DEF IdentityInv, RecordsOK, IsRecord, IsOldRecord, IsNewRecord, IsDrawn
<1>5. \A r, s \in checkouts : r # s => r.key # s.key /\ r.id # s.id
  BY DEF IdentityInv, RecordsOK
<1>6. \A v \in I!Trees : v # w => ident[v] # w /\ (ident[w] # 0 => ident[v] # ident[w])
  BY <1>3, TreesAreNumbers DEF IdentityInv, PlacesOK, IsNamed, IsDrawn
<1>7. ident[w] # 0 => IsNamed(ident[w], w)
  BY DEF IdentityInv, PlacesOK
<1>8. I!Here(w) = <<place, w>>
  BY DEF I!Here
<1> HIDE DEF compact
<1>9. ASSUME NEW r \in checkouts, NEW n \in Nat, NEW saved, saved = compact \ {r},
             FindsOwn(w, r), NumberOK(w, n), numbers' = numbers,
             command' = [at |-> "loaded", tree |-> w, key |-> <<0, n>>,
                         record |-> {[r EXCEPT !.key = <<0, n>>]}, saved |-> saved],
             IF I!IsOlder(r) THEN n = w ELSE n = ident[w],
             \A s \in checkouts : s # r => s.key # <<0, n>>
      PROVE  CommandOK'
  <2>1. SavesOwn(w, n, [r EXCEPT !.key = <<0, n>>], saved)
    BY <1>2, <1>9, FoundSaves
  <2> DEFINE q == [r EXCEPT !.key = <<0, n>>]
  <2>2. SavesOwn(w, n, q, saved)'
    BY <2>1, <1>1, <1>9 DEF SavesOwn, IsDrawn, I!IsOlder
  <2>3. NumberOK(w, n)'
    BY <1>1, <1>9 DEF NumberOK, IsNamed, IsDrawn
  <2>4. w \in trees'
    BY <1>1
  <2> HIDE DEF q
  <2>5. command' = [at |-> "loaded", tree |-> w, key |-> <<0, n>>, record |-> {q},
                    saved |-> saved]
    BY <1>9 DEF q
  <2>6. WorksOn("loaded", w, n, q, saved)'
    BY <2>2, <2>3, <2>4, <2>5 DEF WorksOn
  <2>7. /\ command'.at = "loaded" /\ command'.tree = w /\ command'.key[2] = n
        /\ command'.record = {q} /\ command'.saved = saved
    BY <2>5
  <2> QED  BY <2>6, <2>7 DEF CommandOK, WorksOn
<1>10. ASSUME NEW n \in Nat, NEW id, NEW saved, saved = compact,
              NumberOK(w, n)', IsDrawn(id)', holds[w] = 0, \A s \in checkouts : s.id # id,
              \A v \in I!Trees : holds[v] # id,
              \A s \in saved : s.key # <<0, n>> /\ (I!IsOlder(s) => n # s.id),
              command' = [at |-> "loaded", tree |-> w, key |-> <<0, n>>,
                          record |-> {[key |-> <<0, n>>, id |-> id, work |-> FALSE]},
                          saved |-> saved]
       PROVE  CommandOK'
  <2> DEFINE q == [key |-> <<0, n>>, id |-> id, work |-> FALSE]
  <2>1. q.id = id /\ q.work = FALSE /\ q.key = <<0, n>>
    OBVIOUS
  <2> HIDE DEF q
  <2>2. SavesOwn(w, n, q, saved)'
    BY <1>1, <1>2, <1>10, <2>1 DEF SavesOwn, I!IsOlder, q
  <2>3. command' = [at |-> "loaded", tree |-> w, key |-> <<0, n>>, record |-> {q}, saved |-> saved]
    BY <1>10 DEF q
  <2>4. w \in trees'
    BY <1>1
  <2>5. WorksOn("loaded", w, n, q, saved)'
    BY <1>10, <2>2, <2>3, <2>4 DEF WorksOn
  <2>6. /\ command'.at = "loaded" /\ command'.tree = w /\ command'.key[2] = n
        /\ command'.record = {q} /\ command'.saved = saved
    BY <2>3
  <2> QED  BY <2>5, <2>6 DEF CommandOK, WorksOn
\* Numbers not drawn yet name nothing.
<1>11. \A n \in Nat : numbers < n =>
          /\ \A s \in checkouts : s.id # n /\ s.key # <<0, n>>
          /\ \A v \in I!Trees : holds[v] # n /\ ident[v] # n
  <2> SUFFICES ASSUME NEW n \in Nat, numbers < n
               PROVE  /\ \A s \in checkouts : s.id # n /\ s.key # <<0, n>>
                      /\ \A v \in I!Trees : holds[v] # n /\ ident[v] # n
    OBVIOUS
  <2>1. \A s \in checkouts : s.id # n
    BY <1>3, <1>4
  <2>2. \A s \in checkouts : s.key # <<0, n>>
    BY <1>3, <1>4, TreesAreNumbers DEF IsRecord, IsOldRecord, IsNewRecord, IsDrawn
  <2>3. \A v \in I!Trees : holds[v] # n
    BY <1>3, <2>1 DEF IdentityInv, HoldsOK
  <2>4. \A v \in I!Trees : ident[v] # n
    BY <1>3, TreesAreNumbers DEF IdentityInv, PlacesOK, IsNamed, IsDrawn
  <2> QED  BY <2>1, <2>2, <2>3, <2>4
<1>12. CASE found # {} /\ ident[w] # 0 /\ I!Loads(w, key, found, 0)
  <2>1. PICK r \in checkouts : r.key = key
    BY <1>12
  <2>2. found = {r}
    BY <1>5, <2>1
  <2>3. key = <<0, ident[w]>>
    BY <1>12
  <2>4. ~I!IsOlder(r) /\ FindsOwn(w, r)
    BY <1>12, <2>1, <2>3 DEF I!IsOlder, FindsOwn
  <2>5. compact = I!Compact(IF ident[w] = 0 THEN I!Here(w) ELSE <<0, ident[w]>>)
    BY DEF compact
  <2> HIDE DEF key, found
  <2>6. /\ command' = [at |-> "loaded", tree |-> w, key |-> key,
                       record |-> {[r EXCEPT !.key = key]}, saved |-> compact \ {r}]
        /\ numbers' = numbers
    <3>1. I!Loads(w, key, {r}, 0)
      BY <1>12, <2>2
    <3>2. numbers' = numbers
      <4>1. numbers' = numbers + 0
        BY <3>1, LoadsOne
      <4> QED  BY <1>3, <4>1
    <3>3. command' = [at |-> "loaded", tree |-> w, key |-> key,
                      record |-> {[r EXCEPT !.key = key]}, saved |-> compact \ {r}]
      BY <2>5, <3>1, LoadsOne
    <3> QED  BY <3>2, <3>3
  <2>7. NumberOK(w, ident[w])
    BY <1>3, <1>6, <1>7, <1>12 DEF NumberOK
  <2>8. \A s \in checkouts : s # r => s.key # <<0, ident[w]>>
    BY <1>5, <2>1, <2>3
  <2>9. CommandOK'
    BY <1>3, <1>9, <2>3, <2>4, <2>6, <2>7, <2>8
  <2> QED  BY <1>1, <1>3, <2>6, <2>9, DrawingKeeps DEF IdentityInv
<1>13. ASSUME ident[w] = 0, NEW r \in found, \A s \in checkouts : s.key # <<0, r.id>>,
              I!Loads(w, <<0, r.id>>, found, 0)
       PROVE  IdentityInv'
  <2>1. r \in checkouts /\ r.key = <<place, w>>
    BY <1>8, <1>13
  <2>2. found = {r}
    BY <1>5, <1>8, <1>13
  <2>3. I!IsOlder(r) /\ r.id = w /\ r.key = <<1, w>>
    BY <1>3, <1>4, <2>1 DEF IsRecord, IsOldRecord, IsNewRecord, I!IsOlder
  <2>4. FindsOwn(w, r)
    BY <1>13, <2>3 DEF FindsOwn
  <2>5. compact = I!Compact(IF ident[w] = 0 THEN I!Here(w) ELSE <<0, ident[w]>>)
    BY DEF compact
  <2> HIDE DEF key, found
  <2>6. /\ command' = [at |-> "loaded", tree |-> w, key |-> <<0, w>>,
                       record |-> {[r EXCEPT !.key = <<0, w>>]}, saved |-> compact \ {r}]
        /\ numbers' = numbers
    <3>1. I!Loads(w, <<0, w>>, {r}, 0)
      BY <1>13, <2>2, <2>3
    <3>2. numbers' = numbers
      <4>1. numbers' = numbers + 0
        BY <3>1, LoadsOne
      <4> QED  BY <1>3, <4>1
    <3>3. command' = [at |-> "loaded", tree |-> w, key |-> <<0, w>>,
                      record |-> {[r EXCEPT !.key = <<0, w>>]}, saved |-> compact \ {r}]
      BY <2>5, <3>1, LoadsOne
    <3> QED  BY <3>2, <3>3
  <2>7. NumberOK(w, w)
    BY <1>6, <1>13, TreesAreNumbers DEF NumberOK, IsNamed
  <2>8. \A s \in checkouts : s # r => s.key # <<0, w>>
    BY <1>13, <2>3
  <2>9. CommandOK'
    BY <1>9, <2>1, <2>3, <2>4, <2>6, <2>7, <2>8, TreesAreNumbers
  <2> QED  BY <1>1, <1>3, <2>6, <2>9, DrawingKeeps DEF IdentityInv
<1>14. CASE found = {} /\ I!Cardinality(I!Began(w)) = 1 /\ I!Loads(w, key, I!Began(w), 0)
  <2>1. PICK r \in I!Began(w) : TRUE
    BY <1>14, NoneCounted
  <2>2. r \in checkouts /\ ident[w] # 0 /\ I!IsOlder(r) /\ r.id = ident[w]
    BY <2>1 DEF I!Began
  <2>3. I!Began(w) = {r}
    BY <1>5, <2>2, <2>1 DEF I!Began
  <2>4. ident[w] = w /\ r.key = <<1, w>>
    BY <1>3, <1>4, <1>7, <2>2, TreesAreNumbers
       DEF IsRecord, IsOldRecord, IsNewRecord, I!IsOlder, IsNamed, IsDrawn
  <2>5. FindsOwn(w, r)
    BY <2>2, <2>4 DEF FindsOwn
  <2>6. compact = I!Compact(IF ident[w] = 0 THEN I!Here(w) ELSE <<0, ident[w]>>) /\ key = <<0, w>>
    BY <2>2, <2>4 DEF compact
  <2>7. \A s \in checkouts : s.key # <<0, w>>
    BY <1>14, <2>6
  <2> HIDE DEF key, found
  <2>8. /\ command' = [at |-> "loaded", tree |-> w, key |-> <<0, w>>,
                       record |-> {[r EXCEPT !.key = <<0, w>>]}, saved |-> compact \ {r}]
        /\ numbers' = numbers
    <3>1. I!Loads(w, <<0, w>>, {r}, 0)
      BY <1>14, <2>3, <2>6
    <3>2. numbers' = numbers
      <4>1. numbers' = numbers + 0
        BY <3>1, LoadsOne
      <4> QED  BY <1>3, <4>1
    <3>3. command' = [at |-> "loaded", tree |-> w, key |-> <<0, w>>,
                      record |-> {[r EXCEPT !.key = <<0, w>>]}, saved |-> compact \ {r}]
      BY <2>6, <3>1, LoadsOne
    <3> QED  BY <3>2, <3>3
  <2>9. NumberOK(w, w)
    BY <1>6, <2>4, TreesAreNumbers DEF NumberOK, IsNamed
  <2>10. CommandOK'
    BY <1>9, <2>2, <2>4, <2>5, <2>7, <2>8, <2>9, TreesAreNumbers
  <2> QED  BY <1>1, <1>3, <2>8, <2>10, DrawingKeeps DEF IdentityInv
<1>15. CASE /\ found = {} /\ I!Began(w) = {} /\ ident[w] # 0
            /\ I!Loads(w, key, {[key |-> key, id |-> numbers + 1, work |-> FALSE]}, 1)
  <2>1. PICK n \in Nat, id \in Nat : n = ident[w] /\ id = numbers + 1
    BY <1>3
  <2> DEFINE q == [key |-> <<0, n>>, id |-> id, work |-> FALSE]
  <2>2. key = <<0, n>>
    BY <1>15, <2>1
  <2>3. q \notin compact
    BY <1>2, <1>3, <1>11, <2>1
  <2>4. I!Loads(w, <<0, n>>, {q}, 1)
    BY <1>15, <2>1, <2>2
  <2>6. compact = I!Compact(IF ident[w] = 0 THEN I!Here(w) ELSE <<0, ident[w]>>)
    BY DEF compact
  <2>7. \A s \in checkouts : s.key # <<0, n>> /\ (I!IsOlder(s) => n # s.id)
    BY <1>15, <2>1, <2>2 DEF I!Began
  <2> HIDE DEF key, found, q
  <2>8. /\ command' = [at |-> "loaded", tree |-> w, key |-> <<0, n>>,
                       record |-> {q}, saved |-> compact]
        /\ numbers' = numbers + 1
    <3>1. compact \ {q} = compact
      BY <2>3
    <3>2. command' = [at |-> "loaded", tree |-> w, key |-> <<0, n>>,
                      record |-> {q}, saved |-> compact \ {q}]
      BY <2>4, <2>6, LoadsNew DEF q
    <3>3. numbers' = numbers + 1
      BY <2>4, LoadsNew DEF q
    <3> QED  BY <3>1, <3>2, <3>3
  <2>9. NumberOK(w, n)' /\ IsDrawn(id)'
    <3>1. NumberOK(w, n)
      BY <1>3, <1>6, <1>7, <1>15, <2>1 DEF NumberOK
    <3>2. numbers' \in Nat
      BY <1>3, <2>8
    <3> QED  BY <1>1, <1>3, <2>1, <2>8, <3>1, <3>2 DEF NumberOK, IsNamed, IsDrawn
  <2>10. holds[w] = 0
    <3> SUFFICES ASSUME holds[w] # 0 PROVE FALSE
      OBVIOUS
    <3>1. PICK s \in checkouts : FindsOwn(w, s)
      BY DEF IdentityInv, HoldsOK
    <3>2. I!IsOlder(s) /\ s.key = <<1, w>> /\ ident[w] = w
      BY <1>15, <2>1, <2>7, <3>1 DEF FindsOwn
    <3>3. s.id = w
      BY <1>4, <3>2 DEF IsRecord, IsOldRecord, IsNewRecord, I!IsOlder
    <3> QED  BY <2>1, <2>7, <3>2, <3>3
  <2>11. (\A s \in checkouts : s.id # id) /\ \A v \in I!Trees : holds[v] # id
    BY <1>3, <1>11, <2>1
  <2>12. \A s \in compact : s.key # <<0, n>> /\ (I!IsOlder(s) => n # s.id)
    BY <1>2, <2>7
  <2>13. CommandOK'
    BY <1>10, <2>8, <2>9, <2>10, <2>11, <2>12 DEF q
  <2> QED  BY <1>1, <1>3, <2>8, <2>13, DrawingKeeps DEF IdentityInv
<1>16. CASE /\ found = {} /\ ident[w] = 0
            /\ ~\E r \in compact : I!IsOlder(r) /\ r.key \notin I!Registered(key) /\ r.work
            /\ I!Loads(w, <<0, numbers + 1>>,
                       {[key |-> key, id |-> numbers + 2, work |-> FALSE]}, 2)
  <2>1. PICK n \in Nat, id \in Nat, k \in {<<place, w>>} : n = numbers + 1 /\ id = numbers + 2
    BY <1>3
  <2> DEFINE p == [key |-> k, id |-> id, work |-> FALSE]
             q == [key |-> <<0, n>>, id |-> id, work |-> FALSE]
  <2>2. key = <<place, w>>
    BY <1>8, <1>16
  <2>3. p \notin compact
    BY <1>2, <1>3, <1>11, <2>1
  <2>4. I!Loads(w, <<0, n>>, {p}, 2)
    BY <1>16, <2>1, <2>2
  <2>6. compact = I!Compact(IF ident[w] = 0 THEN I!Here(w) ELSE <<0, ident[w]>>)
    BY DEF compact
  <2>7. holds[w] = 0
    <3> SUFFICES ASSUME holds[w] # 0 PROVE FALSE
      OBVIOUS
    <3>1. PICK s \in checkouts : s.work /\ FindsOwn(w, s)
      BY DEF IdentityInv, HoldsOK
    <3>2. I!IsOlder(s) /\ s.key = <<1, w>>
      BY <1>16, <3>1 DEF FindsOwn
    <3>3. place # 1
      BY <1>16, <2>2, <3>2
    <3>4. s.key \notin I!Registered(key)
      BY <1>3, <2>2, <3>2, <3>3 DEF I!Registered, I!Here
    <3> QED  BY <1>2, <1>16, <3>1, <3>2, <3>4
  <2> HIDE DEF key, found, p, q
  <2>8. /\ command' = [at |-> "loaded", tree |-> w, key |-> <<0, n>>,
                       record |-> {q}, saved |-> compact]
        /\ numbers' = numbers + 2
    <3>1. compact \ {p} = compact
      BY <2>3
    <3>2. command' = [at |-> "loaded", tree |-> w, key |-> <<0, n>>,
                      record |-> {q}, saved |-> compact \ {p}]
      BY <2>4, <2>6, LoadsNew DEF p, q
    <3>3. numbers' = numbers + 2
      BY <2>4, LoadsNew DEF p, q
    <3> QED  BY <3>1, <3>2, <3>3
  <2>9. NumberOK(w, n)' /\ IsDrawn(id)'
    <3>1. IsDrawn(n)' /\ IsDrawn(id)' /\ \A v \in I!Trees : ident[v] # n
      BY <1>3, <1>11, <2>1, <2>8 DEF IsDrawn
    <3> QED  BY <1>1, <1>16, <3>1 DEF NumberOK, IsNamed
  <2>10. (\A s \in checkouts : s.id # id) /\ \A v \in I!Trees : holds[v] # id
    <3>1. numbers < id
      BY <1>3, <2>1
    <3> QED  BY <1>11, <3>1
  <2>11. \A s \in compact : s.key # <<0, n>> /\ (I!IsOlder(s) => n # s.id)
    BY <1>2, <1>3, <1>4, <1>11, <2>1, TreesAreNumbers
       DEF IsRecord, IsOldRecord, IsNewRecord, I!IsOlder
  <2>12. CommandOK'
    BY <1>10, <2>7, <2>8, <2>9, <2>10, <2>11 DEF q
  <2> QED  BY <1>1, <1>3, <2>8, <2>12, DrawingKeeps DEF IdentityInv
<1>17. found # {} /\ ident[w] # 0 => I!Loads(w, key, found, 0)
  BY DEF I!Load
<1>18. found # {} /\ ident[w] = 0 =>
          \E r \in found : /\ \A s \in checkouts : s.key # <<0, r.id>>
                           /\ I!Loads(w, <<0, r.id>>, found, 0)
  BY DEF I!Load
<1>19. found = {} /\ ident[w] # 0 =>
          \/ I!Cardinality(I!Began(w)) = 1 /\ I!Loads(w, key, I!Began(w), 0)
          \/ /\ I!Began(w) = {}
             /\ I!Loads(w, key, {[key |-> key, id |-> numbers + 1, work |-> FALSE]}, 1)
  BY LoadKnown
<1>20. found = {} /\ ident[w] = 0 =>
          \/ I!Cardinality(I!Began(w)) = 1 /\ I!Loads(w, key, I!Began(w), 0)
          \/ /\ ~\E r \in compact : I!IsOlder(r) /\ r.key \notin I!Registered(key) /\ r.work
             /\ I!Loads(w, <<0, numbers + 1>>,
                        {[key |-> key, id |-> numbers + 2, work |-> FALSE]}, 2)
  BY LoadUnknown DEF compact
<1> HIDE DEF key, found
<1> QED
  BY <1>12, <1>13, <1>14, <1>15, <1>16, <1>17, <1>18, <1>19, <1>20

\* A command under way, by its parts.
LEMMA CommandParts ==
  ASSUME CommandOK, command # I!Quiet
  PROVE  \E at, t, n, r, saved : WorksOn(at, t, n, r, saved)
  BY Zenon DEF CommandOK

LEMMA WriteIdentityKeeps ==
  ASSUME IdentityInv, I!WriteIdentity
  PROVE  IdentityInv'
<1>1. command # I!Quiet /\ UNCHANGED <<place, trees, checkouts, numbers, holds>>
  BY DEF I!WriteIdentity, I!Quiet
<1>2. PICK at, t, n, r, saved : WorksOn(at, t, n, r, saved)
  BY <1>1, CommandParts DEF IdentityInv
<1>3. /\ command = [at |-> at, tree |-> t, key |-> <<0, n>>, record |-> {r}, saved |-> saved]
      /\ t \in trees /\ t \in I!Trees /\ NumberOK(t, n) /\ SavesOwn(t, n, r, saved)
  BY <1>2 DEF WorksOn, IdentityInv, PlacesOK
<1>4. /\ command.tree = t /\ command.key[2] = n /\ n \in Nat /\ n # 0
      /\ command' = [at |-> "known", tree |-> t, key |-> <<0, n>>, record |-> {r},
                     saved |-> saved]
  <2>1. command.tree = t /\ command.key = <<0, n>>
    BY <1>3
  <2>2. n \in Nat /\ n # 0
    BY <1>3, TreesAreNumbers, CommandsAssumption DEF NumberOK, IsNamed, IsDrawn
  <2>3. command' = [command EXCEPT !.at = "known"]
    BY DEF I!WriteIdentity
  <2> QED  BY <1>3, <2>1, <2>2, <2>3
<1>5. /\ ident' \in [I!Trees -> Nat] /\ ident'[t] = n
      /\ \A v \in I!Trees : v # t => ident'[v] = ident[v]
  BY <1>3, <1>4 DEF I!WriteIdentity, IdentityInv, PlacesOK
<1>6. PlacesOK'
  <2>1. \A w \in I!Trees : ident'[w] # 0 => IsNamed(ident'[w], w)
    BY <1>3, <1>5 DEF IdentityInv, PlacesOK, NumberOK
  <2>2. \A v, w \in I!Trees : v # w /\ ident'[v] # 0 => ident'[v] # ident'[w]
    BY <1>3, <1>4, <1>5 DEF IdentityInv, PlacesOK, NumberOK
  <2> QED  BY <1>1, <1>3, <1>5, <2>1, <2>2 DEF IdentityInv, PlacesOK, IsNamed, IsDrawn
<1>7. RecordsOK'
  BY <1>1 DEF IdentityInv, RecordsOK, IsRecord, IsOldRecord, IsNewRecord, IsDrawn, I!IsOlder
<1>8. HoldsOK'
  <2> SUFFICES ASSUME NEW w \in I!Trees, holds[w] # 0
               PROVE  \E s \in checkouts : s.id = holds[w] /\ s.work /\ FindsOwn(w, s)'
    BY <1>1 DEF HoldsOK
  <2>1. PICK s \in checkouts : s.id = holds[w] /\ s.work /\ FindsOwn(w, s)
    BY DEF IdentityInv, HoldsOK
  <2>2. CASE w # t
    BY <1>5, <2>1, <2>2 DEF FindsOwn, I!IsOlder
  <2>3. CASE w = t
    <3>1. s.id = r.id
      BY <1>3, <2>1, <2>3 DEF SavesOwn
    <3>2. IF I!IsOlder(s) THEN s.key = <<1, t>> /\ n = s.id ELSE s.key = <<0, n>>
      BY <1>3, <3>1 DEF SavesOwn
    <3>3. I!IsOlder(s) => s.id = t
      BY <3>2 DEF IdentityInv, RecordsOK, IsRecord, IsOldRecord, IsNewRecord, I!IsOlder
    <3> QED  BY <1>4, <1>5, <2>1, <2>3, <3>2, <3>3 DEF FindsOwn, I!IsOlder
  <2> QED  BY <2>2, <2>3
<1>9. CommandOK'
  <2>1. SavesOwn(t, n, r, saved)'
    BY <1>1, <1>3 DEF SavesOwn, IsDrawn, I!IsOlder
  <2>2. NumberOK(t, n)'
    BY <1>1, <1>3, <1>5 DEF NumberOK, IsNamed, IsDrawn
  <2>3. WorksOn("known", t, n, r, saved)'
    BY <1>1, <1>3, <1>4, <1>5, <2>1, <2>2 DEF WorksOn
  <2>4. /\ command'.at = "known" /\ command'.tree = t /\ command'.key[2] = n
        /\ command'.record = {r} /\ command'.saved = saved
    BY <1>4
  <2> QED  BY <2>3, <2>4 DEF CommandOK, WorksOn
<1> QED  BY <1>6, <1>7, <1>8, <1>9 DEF IdentityInv

LEMMA SaveKeeps ==
  ASSUME IdentityInv, NEW work \in BOOLEAN, I!Save(work)
  PROVE  IdentityInv'
<1>1. command # I!Quiet /\ command.at = "known" /\ UNCHANGED <<place, trees, ident, numbers>>
  BY DEF I!Save, I!Quiet
<1>2. PICK at, t, n, r, saved : WorksOn(at, t, n, r, saved)
  BY <1>1, CommandParts DEF IdentityInv
<1>3. /\ command = [at |-> at, tree |-> t, key |-> <<0, n>>, record |-> {r}, saved |-> saved]
      /\ t \in trees /\ t \in I!Trees /\ NumberOK(t, n) /\ SavesOwn(t, n, r, saved)
      /\ ident[t] = n
  BY <1>1, <1>2 DEF WorksOn, IdentityInv, PlacesOK
<1> DEFINE own == [key |-> <<0, n>>, id |-> r.id, work |-> work]
<1>4. {[s EXCEPT !.work = work] : s \in {r}} = {own}
  <2>1. {[s EXCEPT !.work = work] : s \in {r}} = {[r EXCEPT !.work = work]}
    BY Zenon
  <2>2. r = [key |-> <<0, n>>, id |-> r.id, work |-> r.work]
    BY <1>3 DEF SavesOwn
  <2> QED  BY <2>1, <2>2
<1>5. /\ own.key = <<0, n>> /\ own.id = r.id /\ own.work = work /\ ~I!IsOlder(own)
  BY DEF I!IsOlder
<1>6. IsRecord(own)
  <2>1. n \in Nat /\ (n \in I!Trees \/ IsDrawn(n))
    BY <1>3 DEF NumberOK, IsNamed
  <2>2. IsNewRecord(own)
    BY <1>3, <2>1 DEF IsNewRecord, SavesOwn
  <2> QED  BY <2>2 DEF IsRecord
<1>7. /\ checkouts' = saved \cup {own} /\ command' = I!Quiet
      /\ holds' = [holds EXCEPT ![t] = IF work THEN r.id ELSE 0]
  <2>1. command.record = {r} /\ command.saved = saved /\ command.tree = t
    BY <1>3
  <2>2. (CHOOSE s \in {own} : TRUE) = own
    OBVIOUS
  <2> HIDE DEF own
  <2> QED  BY <1>4, <1>5, <2>1, <2>2 DEF I!Save
<1> HIDE DEF own
<1>8. saved \subseteq checkouts /\ n \in Nat /\ n # 0 /\ r.id \in Nat
  BY <1>3, TreesAreNumbers, CommandsAssumption DEF SavesOwn, NumberOK, IsNamed, IsDrawn
<1>9. \A s \in saved : s.key # own.key /\ s.id # own.id /\ (I!IsOlder(s) => own.key # <<0, s.id>>)
  BY <1>3, <1>5 DEF SavesOwn
<1>10. PlacesOK'
  BY <1>1, <1>3, <1>7, <1>8 DEF IdentityInv, PlacesOK, IsNamed, IsDrawn
<1>11. RecordsOK'
  <2>1. \A s \in checkouts' : IsRecord(s)
    BY <1>6, <1>7, <1>8 DEF IdentityInv, RecordsOK
  <2>2. \A s \in checkouts' : IsRecord(s)'
    BY <1>1, <2>1 DEF IsRecord, IsOldRecord, IsNewRecord, IsDrawn
  <2>3. \A s, q \in checkouts' : s # q => s.key # q.key /\ s.id # q.id
    BY <1>7, <1>8, <1>9 DEF IdentityInv, RecordsOK
  <2>4. \A s, q \in checkouts' : I!IsOlder(q) => s.key # <<0, q.id>>
    BY <1>5, <1>7, <1>8, <1>9 DEF IdentityInv, RecordsOK
  <2> QED  BY <2>2, <2>3, <2>4 DEF RecordsOK, I!IsOlder
<1>12. HoldsOK'
  <2> SUFFICES ASSUME NEW w \in I!Trees, holds'[w] # 0
               PROVE  \E s \in checkouts' : s.id = holds'[w] /\ s.work /\ FindsOwn(w, s)'
    BY DEF HoldsOK
  <2>1. CASE w # t
    <3>1. holds'[w] = holds[w]
      BY <1>7, <2>1 DEF IdentityInv, PlacesOK
    <3>2. PICK s \in checkouts : s.id = holds[w] /\ s.work /\ FindsOwn(w, s)
      BY <3>1 DEF IdentityInv, HoldsOK
    <3>3. s \in saved
      BY <1>3, <2>1, <3>2 DEF SavesOwn
    <3> QED  BY <1>1, <1>7, <3>1, <3>2, <3>3 DEF FindsOwn, I!IsOlder
  <2>2. CASE w = t
    <3>1. holds'[w] = r.id /\ work
      BY <1>3, <1>7, <2>2 DEF IdentityInv, PlacesOK
    <3>2. FindsOwn(t, own)'
      BY <1>1, <1>3, <1>5, <1>8 DEF FindsOwn, I!IsOlder
    <3> QED  BY <1>5, <1>7, <2>2, <3>1, <3>2
  <2> QED  BY <2>1, <2>2
<1> QED  BY <1>7, <1>10, <1>11, <1>12 DEF IdentityInv, CommandOK, I!Quiet

\* Whatever leaves the records and the numbers alone, and only moves a clone or a tree.
LEMMA OthersKeep ==
  ASSUME IdentityInv, UNCHANGED <<checkouts, numbers>>, place' \in Nat, place' >= 1,
         trees' \subseteq I!Trees, ident' \in [I!Trees -> Nat], holds' \in [I!Trees -> Nat],
         \A w \in I!Trees : \/ ident'[w] = ident[w] /\ holds'[w] = holds[w]
                            \/ ident'[w] = 0 /\ holds'[w] = 0,
         \A w \in I!Trees : w \notin trees' => ident'[w] = 0 /\ holds'[w] = 0
  PROVE  PlacesOK' /\ RecordsOK' /\ HoldsOK'
<1>1. PlacesOK'
  BY DEF IdentityInv, PlacesOK, IsNamed, IsDrawn
<1>2. RecordsOK'
  BY DEF IdentityInv, RecordsOK, IsRecord, IsOldRecord, IsNewRecord, IsDrawn, I!IsOlder
<1>3. HoldsOK'
  <2> SUFFICES ASSUME NEW w \in I!Trees, holds'[w] # 0
               PROVE  \E s \in checkouts : s.id = holds'[w] /\ s.work /\ FindsOwn(w, s)'
    BY DEF HoldsOK
  <2>1. ident'[w] = ident[w] /\ holds'[w] = holds[w]
    OBVIOUS
  <2>2. PICK s \in checkouts : s.id = holds[w] /\ s.work /\ FindsOwn(w, s)
    BY <2>1 DEF IdentityInv, HoldsOK
  <2> QED  BY <2>1, <2>2 DEF FindsOwn, I!IsOlder
<1> QED  BY <1>1, <1>2, <1>3

LEMMA CommandGoesOn ==
  ASSUME IdentityInv, UNCHANGED <<checkouts, numbers, command>>,
         command # I!Quiet => command.tree \in trees',
         \A w \in I!Trees : \/ ident'[w] = ident[w] /\ holds'[w] = holds[w]
                            \/ ident'[w] = 0 /\ holds'[w] = 0 /\ w # command.tree
  PROVE  CommandOK'
<1>1. CASE command = I!Quiet
  BY <1>1 DEF CommandOK, I!Quiet
<1>2. CASE command # I!Quiet
  <2>1. PICK at, t, n, r, saved : WorksOn(at, t, n, r, saved)
    BY <1>2, CommandParts DEF IdentityInv
  <2>2. /\ command = [at |-> at, tree |-> t, key |-> <<0, n>>, record |-> {r}, saved |-> saved]
        /\ t \in trees' /\ t \in I!Trees /\ NumberOK(t, n) /\ SavesOwn(t, n, r, saved)
        /\ at \in {"loaded", "known"} /\ (at = "known" => ident[t] = n)
    BY <1>2, <2>1 DEF WorksOn, IdentityInv, PlacesOK
  <2>3. n # 0 /\ r.id # 0 /\ ident'[t] = ident[t] /\ holds'[t] = holds[t]
    BY <2>2, TreesAreNumbers, CommandsAssumption
       DEF SavesOwn, NumberOK, IsNamed, IsDrawn, IdentityInv, PlacesOK
  <2>4. SavesOwn(t, n, r, saved)'
    BY <2>2, <2>3 DEF SavesOwn, IsDrawn, I!IsOlder
  <2>5. NumberOK(t, n)'
    BY <2>2, <2>3 DEF NumberOK, IsNamed, IsDrawn
  <2>6. WorksOn(at, t, n, r, saved)'
    BY <2>2, <2>3, <2>4, <2>5 DEF WorksOn
  <2>7. /\ command'.at = at /\ command'.tree = t /\ command'.key[2] = n
        /\ command'.record = {r} /\ command'.saved = saved
    BY <2>2
  <2> QED  BY <2>6, <2>7 DEF CommandOK, WorksOn
<1> QED  BY <1>1, <1>2

LEMMA IdentityStep ==
  ASSUME IdentityInv, I!IdentityNext
  PROVE  IdentityInv'
<1>1. /\ place \in Nat /\ place >= 1 /\ trees \subseteq I!Trees
      /\ ident \in [I!Trees -> Nat] /\ holds \in [I!Trees -> Nat]
      /\ \A w \in I!Trees : w \notin trees => ident[w] = 0 /\ holds[w] = 0
  BY DEF IdentityInv, PlacesOK
<1>2. command # I!Quiet => command.tree \in trees
  <2> SUFFICES ASSUME command # I!Quiet PROVE command.tree \in trees
    OBVIOUS
  <2>1. PICK at, t, n, r, saved : WorksOn(at, t, n, r, saved)
    BY CommandParts DEF IdentityInv
  <2> QED  BY <2>1 DEF WorksOn
<1>3. CASE I!Stop
  <2>1. CommandOK'
    BY <1>3 DEF I!Stop, CommandOK, I!Quiet
  <2> QED  BY <1>1, <1>3, <2>1, OthersKeep DEF I!Stop, IdentityInv
<1>4. ASSUME NEW p \in 1..WhereMoved, I!MoveTo(p) PROVE IdentityInv'
  <2>1. p \in Nat /\ p >= 1
    BY CommandsAssumption
  <2> QED  BY <1>1, <1>2, <1>4, <2>1, OthersKeep, CommandGoesOn DEF I!MoveTo, IdentityInv
<1>5. ASSUME NEW w \in I!Trees, I!AddTree(w) PROVE IdentityInv'
  BY <1>1, <1>2, <1>5, OthersKeep, CommandGoesOn DEF I!AddTree, IdentityInv
<1>6. ASSUME NEW w \in I!Trees, I!RemoveTree(w) PROVE IdentityInv'
  <2>1. /\ ident' \in [I!Trees -> Nat] /\ holds' \in [I!Trees -> Nat]
        /\ \A v \in I!Trees : IF v = w THEN ident'[v] = 0 /\ holds'[v] = 0
                                       ELSE ident'[v] = ident[v] /\ holds'[v] = holds[v]
        /\ trees' = trees \ {w} /\ w # command.tree
        /\ UNCHANGED <<place, checkouts, command, numbers>>
    BY <1>1, <1>6 DEF I!RemoveTree
  <2> QED  BY <1>1, <1>2, <2>1, OthersKeep, CommandGoesOn DEF IdentityInv
<1> QED
  BY <1>3, <1>4, <1>5, <1>6, LoadKeeps, WriteIdentityKeeps, SaveKeeps DEF I!IdentityNext

LEMMA IdentityStarts == I!IdentityInit => IdentityInv
<1> SUFFICES ASSUME I!IdentityInit PROVE IdentityInv
  OBVIOUS
<1>1. PICK left \in SUBSET I!Older :
         /\ \A r, s \in left : r.key = s.key => r = s
         /\ checkouts = left /\ trees = {1} \cup {r.id : r \in left}
         /\ holds = [w \in I!Trees |-> IF \E r \in left : r.id = w /\ r.work THEN w ELSE 0]
  BY DEF I!IdentityInit
<1>2. /\ place = 1 /\ ident = [w \in I!Trees |-> 0] /\ command = I!Quiet /\ numbers = Worktrees
  BY DEF I!IdentityInit
<1>3. \A r \in checkouts :
         /\ r.id \in I!Trees /\ r.key = <<1, r.id>> /\ r.work \in BOOLEAN
         /\ r = [key |-> r.key, id |-> r.id, work |-> r.work]
  BY <1>1 DEF I!Older
<1>4. PlacesOK
  BY <1>1, <1>2, <1>3, TreesAreNumbers, CommandsAssumption DEF PlacesOK, I!Trees
<1>5. RecordsOK
  BY <1>1, <1>3 DEF RecordsOK, IsRecord, IsOldRecord, I!IsOlder
<1>6. HoldsOK
  BY <1>1, <1>2, <1>3, TreesAreNumbers DEF HoldsOK, FindsOwn, I!IsOlder
<1> QED  BY <1>2, <1>4, <1>5, <1>6 DEF IdentityInv, CommandOK

(* WorkIsKept of CheckoutIdentity, for any number of worktrees, of records and *)
(* of numbers drawn: what a worktree retains stays in the state, a command of  *)
(* the worktree gets the record with it, and no other worktree gets that one.  *)
THEOREM IdentityKeepsWork == Spec => []WorkIsKept
<1> DEFINE Inv == which = "identity" => IdentityInv
<1>1. Init => Inv
  BY IdentityStarts DEF Init
<1>2. Inv /\ [Next]_vars => Inv'
  <2> SUFFICES ASSUME Inv, [Next]_vars, which' = "identity" PROVE IdentityInv'
    OBVIOUS
  <2>1. which = "identity" /\ (UNCHANGED identityVars \/ I!IdentityNext)
    BY DEF Next, vars
  <2>2. CASE UNCHANGED identityVars
    <3>1. IdentityInv
      BY <2>1
    <3>2. PlacesOK'
      BY <2>2, <3>1 DEF identityVars, IdentityInv, PlacesOK, IsNamed, IsDrawn
    <3>3. RecordsOK'
      BY <2>2, <3>1 DEF identityVars, IdentityInv, RecordsOK, IsRecord, IsOldRecord,
                        IsNewRecord, IsDrawn, I!IsOlder
    <3>4. HoldsOK'
      BY <2>2, <3>1 DEF identityVars, IdentityInv, HoldsOK, FindsOwn, I!IsOlder
    <3>5. CommandOK'
      BY <2>2, <3>1 DEF identityVars, IdentityInv, CommandOK, WorksOn, NumberOK, SavesOwn,
                        IsNamed, IsDrawn, I!IsOlder
    <3> QED  BY <3>2, <3>3, <3>4, <3>5 DEF IdentityInv
  <2> QED  BY <2>1, <2>2, IdentityStep
<1>3. Inv => WorkIsKept
  <2> SUFFICES ASSUME IdentityInv PROVE I!WorkIsKept
    BY DEF WorkIsKept
  <2>1. \A w \in trees : holds[w] # 0 => \E r \in checkouts : r.id = holds[w] /\ r.work
    BY DEF IdentityInv, HoldsOK, PlacesOK
  <2>2. ASSUME NEW q \in command.record
        PROVE  /\ holds[command.tree] \in {0, q.id}
               /\ \A v \in trees \ {command.tree} : holds[v] # q.id
    <3>1. command # I!Quiet
      BY <2>2 DEF I!Quiet
    <3>2. PICK at, t, n, r, saved : WorksOn(at, t, n, r, saved)
      BY <3>1, CommandParts DEF IdentityInv
    <3>3. command.tree = t /\ command.record = {r} /\ SavesOwn(t, n, r, saved)
      BY <3>2 DEF WorksOn
    <3> QED  BY <2>2, <3>3 DEF SavesOwn, IdentityInv, PlacesOK
  <2> QED  BY <2>1, <2>2 DEF I!WorkIsKept
<1> QED  BY <1>1, <1>2, <1>3, PTL DEF Spec

-----------------------------------------------------------------------------
(* PreparedPlan.  What a workspace stands for never changes, what is kept   *)
(* by a ref is never pruned, and what a command has found to be so is so    *)
(* still if nobody interfered.                                              *)

PlanPlaces == {"here", "there"}
AnyContent == Contents \cup {1}
Spaces     == [place : PlanPlaces, commit : Nat, intact : BOOLEAN]
PlanStages == {"idle", "done", "tree", "index", "files", "look", "marker", "source", "recover",
               "stage", "root", "rename", "retain", "admitted"}
PlanKeys   == [at : PlanPlaces \cup {"legacy"}, content : Contents \cup {0}]
PlanJob    == [job : {"none", "prepare", "check"}, at : PlanStages, head : Nat,
               key : PlanKeys,
               step : {"none", "look", "source", "recover"}, found : Nat, quiet : BOOLEAN,
               writes : {"private", "contract"}]
PlanTypes == /\ commits \in Seq(AnyContent) /\ line \in Seq(Nat) /\ line # <<>>
             /\ \A i \in 1..Len(line) : line[i] \in 1..Len(commits)
             /\ planPlace \in PlanPlaces /\ planFiles \in AnyContent
             /\ refs \subseteq 1..Len(commits) /\ refs \cap pruned = {}
             /\ spaces \in [P!Keys -> Spaces \cup {NoPlan}]
             /\ planners \in [Commands -> PlanJob] /\ planUsed \in [jobs : Nat, edits : Nat]
SpacesOK  == \A k \in P!Keys : spaces[k] # NoPlan =>
                /\ spaces[k].commit \in 1..Len(commits)
                /\ k.at # "legacy" => /\ spaces[k].commit \in refs /\ spaces[k].place = k.at
                                      /\ commits[spaces[k].commit] = k.content

HeadHas(n)  == P!HEAD = n
Agree(text) == commits[P!HEAD] = text /\ index = text /\ planFiles = text
Headed      == {"index", "files", "look", "source", "recover", "stage", "root", "rename"}
Described(j) == /\ j.key \in P!Keys /\ spaces[j.key] # NoPlan /\ j.found = spaces[j.key].commit
                /\ commits[j.found] = j.key.content
                /\ j.quiet => /\ spaces[j.key].intact /\ j.key.at \in {planPlace, "legacy"}
                              /\ Agree(j.key.content)
PlanCame(j) ==
    /\ j.at \in Headed => /\ j.head \in 1..Len(commits) /\ commits[j.head] \in Contents
                          /\ j.quiet => P!HEAD = j.head
    /\ j.at \in Headed \ {"index"} /\ j.quiet => index = commits[j.head]
    /\ j.at \in Headed \ {"index", "files"} /\ j.quiet => planFiles = commits[j.head]
    /\ j.at = "rename" => j.head \in refs
    /\ j.at = "marker" => j.key \in P!Keys
    /\ j.at \in {"source", "recover"} => j.step = j.at
    /\ j.at \in {"tree", "index", "files"} => j.step # "none"
    /\ j.at \in {"tree", "index", "files", "source", "recover"} /\ j.step \in {"source", "recover"} =>
          /\ j.key \in P!Keys /\ spaces[j.key] # NoPlan /\ j.key.at \in {planPlace, "legacy"}
          /\ j.step = "source" => spaces[j.key].place = planPlace
          /\ j.step = "recover" => j.job = "prepare"
    /\ j.at \in {"admitted", "retain", "done"} => Described(j)
    /\ j.at = "admitted" => j.job = "check"
    /\ j.at = "done" /\ j.job = "prepare" => j.found \in refs
PlanInv == /\ PlanTypes /\ SpacesOK /\ \A k \in Commands : PlanCame(planners[k])
           /\ planUsed.edits = 0 => \A k \in P!Keys : spaces[k] # NoPlan => spaces[k].intact

LEMMA PlanFacts ==
    ASSUME PlanInv
    PROVE  /\ Len(commits) \in Nat /\ P!HEAD \in 1..Len(commits)
           /\ \A n \in 1..Len(commits) : commits[n] \in AnyContent
           /\ \A r \in Spaces : r # NoPlan
           /\ \A k \in Commands : planners[k] \in PlanJob /\ PlanCame(planners[k])
           /\ P!Keys = [at : PlanPlaces \cup {"legacy"}, content : Contents]
<1>1. /\ commits \in Seq(AnyContent) /\ line \in Seq(Nat) /\ line # <<>>
      /\ \A i \in 1..Len(line) : line[i] \in 1..Len(commits)
  BY DEF PlanInv, PlanTypes
<1>2. Len(commits) \in Nat /\ Len(line) \in Nat \ {0}
  BY <1>1, EmptySeq, LenProperties
<1>3. Len(line) \in 1..Len(line)
  BY <1>2
<1>4. P!HEAD \in 1..Len(commits)
  BY <1>1, <1>3 DEF P!HEAD
<1>5. \A n \in 1..Len(commits) : commits[n] \in AnyContent
  BY <1>1, ElementOfSeq
<1>6. \A r \in Spaces : r # NoPlan
  <2>1. Spaces = [place : {"here", "there"}, commit : Nat, intact : BOOLEAN]
    BY DEF Spaces, PlanPlaces
  <2> QED  BY <2>1, CommandsAssumption
<1>7. P!Keys = [at : PlanPlaces \cup {"legacy"}, content : Contents]
  BY DEF P!Keys, P!Legacy, PlanPlaces
<1> QED  BY <1>2, <1>4, <1>5, <1>6, <1>7 DEF PlanInv, PlanTypes

\* What a command knows it knows still when refs and workspaces have only become more.
LEMMA CameStays ==
    ASSUME NEW i, PlanCame(i), UNCHANGED <<commits, line, index, planFiles, planPlace>>,
           refs \subseteq refs', \A x \in P!Keys : spaces[x] # NoPlan => spaces'[x] = spaces[x]
    PROVE  PlanCame(i)'
<1>1. P!HEAD' = P!HEAD
  BY DEF P!HEAD
<1>2. Described(i) => Described(i)'
  BY <1>1 DEF Described, Agree
<1> QED  BY <1>1, <1>2 DEF PlanCame

\* One command goes on and leaves the workspaces alone.
LEMMA JobGoes ==
    ASSUME PlanInv, NEW k \in Commands, NEW j \in PlanJob, planners' = [planners EXCEPT ![k] = j],
           UNCHANGED <<commits, line, pruned, index, planFiles, planPlace, spaces>>,
           refs \subseteq refs', refs' \subseteq 1..Len(commits), refs' \cap pruned = {},
           planUsed' \in [jobs : Nat, edits : Nat], planUsed'.edits = planUsed.edits, PlanCame(j)'
    PROVE  PlanInv'
<1>1. PlanTypes'
  BY DEF PlanInv, PlanTypes
<1>2. SpacesOK'
  BY DEF PlanInv, SpacesOK
<1>3. ASSUME NEW l \in Commands PROVE PlanCame(planners[l])'
  <2>1. PICK i : i = planners'[l]
    OBVIOUS
  <2>2. CASE l = k
    <3>1. i = j
      BY <2>1, <2>2 DEF PlanInv, PlanTypes
    <3> QED  BY <2>1, <3>1
  <2>3. CASE l # k
    <3>1. PlanCame(i)
      BY <2>1, <2>3 DEF PlanInv, PlanTypes
    <3>2. PlanCame(i)'
      BY <3>1, CameStays
    <3> QED  BY <2>1, <3>2
  <2> QED  BY <2>2, <2>3
<1> QED  BY <1>1, <1>2, <1>3 DEF PlanInv

\* ... and the refs too.
LEMMA JobAlone ==
    ASSUME PlanInv, NEW k \in Commands, NEW j \in PlanJob, planners' = [planners EXCEPT ![k] = j],
           UNCHANGED <<commits, line, pruned, index, planFiles, planPlace, spaces, refs, planUsed>>,
           PlanCame(j)
    PROVE  PlanInv'
<1>1. /\ refs \subseteq 1..Len(commits) /\ refs \cap pruned = {}
      /\ planUsed \in [jobs : Nat, edits : Nat]
  BY DEF PlanInv, PlanTypes
<1>2. PlanCame(j)'
  BY CameStays
<1> QED  BY <1>1, <1>2, JobGoes

LEMMA IdleIs == P!Idle \in PlanJob /\ P!Idle.at = "idle" /\ PlanCame(P!Idle)
<1>1. PICK yes \in BOOLEAN, key \in PlanKeys : yes = TRUE /\ key = P!Key(P!Legacy, 0)
  BY DEF P!Key, P!Legacy, PlanKeys
<1>2. P!Idle = [job |-> "none", at |-> "idle", head |-> 0, key |-> key, step |-> "none", found |-> 0,
                quiet |-> yes, writes |-> "private"]
  BY <1>1 DEF P!Idle
<1>3. P!Idle \in PlanJob /\ P!Idle.at = "idle"
  BY <1>2 DEF PlanJob, PlanStages
<1> QED  BY <1>3 DEF PlanCame, Headed

LEMMA PlanFails ==
    ASSUME PlanInv, NEW k \in Commands, P!Fails(k),
           UNCHANGED <<commits, line, pruned, index, planFiles, planPlace, spaces, refs, planUsed>>
    PROVE  PlanInv'
<1>1. PICK j \in PlanJob : j = P!Idle /\ PlanCame(j)
  BY IdleIs
<1>2. planners' = [planners EXCEPT ![k] = j]
  BY <1>1 DEF P!Fails, P!Step
<1> QED  BY <1>1, <1>2, JobAlone

\* Only where it is changes.
LEMMA GoesTo ==
    ASSUME PlanInv, NEW k \in Commands, NEW where \in PlanStages, P!GoTo(k, where)
    PROVE  \E j \in PlanJob :
              /\ planners' = [planners EXCEPT ![k] = j]
              /\ j.at = where /\ j.job = planners[k].job /\ j.head = planners[k].head
              /\ j.key = planners[k].key /\ j.step = planners[k].step
              /\ j.found = planners[k].found /\ j.quiet = planners[k].quiet
<1>1. planners \in [Commands -> PlanJob]
  BY DEF PlanInv, PlanTypes
<1>2. PICK p \in PlanJob : p = planners[k]
  BY <1>1
<1>3. PICK j \in PlanJob : j = [p EXCEPT !.at = where]
  BY DEF PlanJob
<1>4. planners' = [planners EXCEPT ![k] = j]
  BY <1>1, <1>2, <1>3 DEF P!GoTo
<1>5. /\ j.at = where /\ j.job = p.job /\ j.head = p.head /\ j.key = p.key /\ j.step = p.step
      /\ j.found = p.found /\ j.quiet = p.quiet
  BY <1>3 DEF PlanJob
<1> QED  BY <1>2, <1>4, <1>5

LEMMA KeyIs ==
    ASSUME NEW x \in P!Keys
    PROVE  x \in PlanKeys /\ x.content \in Contents
<1>1. x \in [at : PlanPlaces \cup {"legacy"}, content : Contents]
  BY DEF P!Keys, P!Legacy, PlanPlaces
<1> QED  BY <1>1 DEF PlanKeys

LEMMA PlanBegins ==
    ASSUME PlanInv, NEW k \in Commands, P!Begin(k)
    PROVE  PlanInv'
<1>1. /\ UNCHANGED <<commits, line, pruned, index, planFiles, planPlace, refs, spaces>>
      /\ planUsed' = [planUsed EXCEPT !.jobs = @ + 1]
  BY DEF P!Begin, P!git
<1>2. /\ planUsed \in [jobs : Nat, edits : Nat] /\ refs \subseteq 1..Len(commits)
      /\ refs \cap pruned = {}
  BY DEF PlanInv, PlanTypes
<1>3. planUsed' \in [jobs : Nat, edits : Nat] /\ planUsed'.edits = planUsed.edits
  <2>1. PICK u \in [jobs : Nat, edits : Nat] : u = planUsed
    BY <1>2
  <2>2. PICK v : v = [u EXCEPT !.jobs = @ + 1]
    OBVIOUS
  <2>3. v \in [jobs : Nat, edits : Nat] /\ v.edits = u.edits
    BY <2>2
  <2> QED  BY <1>1, <2>1, <2>2, <2>3
<1>4. PICK idle \in PlanJob : idle = P!Idle
  BY IdleIs
<1>5. CASE P!Step(k, [P!Idle EXCEPT !.job = "prepare", !.at = "tree", !.step = "look"])
  <2>1. PICK j \in PlanJob : j = [idle EXCEPT !.job = "prepare", !.at = "tree", !.step = "look"]
    BY DEF PlanJob, PlanStages
  <2>2. j.at = "tree" /\ j.step = "look"
    BY <2>1 DEF PlanJob
  <2>3. PlanCame(j)
    BY <2>2 DEF PlanCame, Headed
  <2>4. planners' = [planners EXCEPT ![k] = j]
    BY <1>4, <1>5, <2>1 DEF P!Step
  <2> QED  BY <1>1, <1>2, <1>3, <2>3, <2>4, CameStays, JobGoes
<1>6. ASSUME NEW x \in P!Keys, NEW o \in P!Outputs,
             P!Step(k, [P!Idle EXCEPT !.job = "check", !.at = "marker", !.key = x, !.writes = o])
      PROVE  PlanInv'
  <2>1. x \in PlanKeys
    BY KeyIs
  <2>2. PICK j \in PlanJob :
           j = [idle EXCEPT !.job = "check", !.at = "marker", !.key = x, !.writes = o]
    <3>1. o \in {"private", "contract"}
      BY DEF P!Outputs
    <3> QED  BY <2>1, <3>1 DEF PlanJob, PlanStages
  <2>3. j.at = "marker" /\ j.key = x
    BY <2>2 DEF PlanJob
  <2>4. PlanCame(j)
    BY <2>3 DEF PlanCame, Headed
  <2>5. planners' = [planners EXCEPT ![k] = j]
    BY <1>4, <1>6, <2>2 DEF P!Step
  <2> QED  BY <1>1, <1>2, <1>3, <2>4, <2>5, CameStays, JobGoes
<1> QED  BY <1>5, <1>6 DEF P!Begin

LEMMA PlanReads ==
    ASSUME PlanInv, NEW k \in Commands, P!ReadTree(k) \/ P!ReadIndex(k) \/ P!ReadFiles(k)
    PROVE  PlanInv'
<1>1. UNCHANGED <<commits, line, pruned, index, planFiles, planPlace, refs, spaces, planUsed>>
  BY DEF P!ReadTree, P!ReadIndex, P!ReadFiles, P!git
<1>2. PICK p \in PlanJob : p = planners[k] /\ PlanCame(p)
  BY PlanFacts
<1>3. CASE P!Fails(k)
  BY <1>1, <1>3, PlanFails
<1>4. ASSUME P!ReadTree(k), ~P!Fails(k) PROVE PlanInv'
  <2>1. /\ p.at = "tree" /\ commits[P!HEAD] \in Contents
        /\ planners' = [planners EXCEPT ![k] = [p EXCEPT !.at = "index", !.head = P!HEAD]]
    BY <1>2, <1>4 DEF P!ReadTree, P!At, P!Step
  <2>2. P!HEAD \in 1..Len(commits) /\ P!HEAD \in Nat
    BY PlanFacts
  <2>3. PICK j \in PlanJob : j = [p EXCEPT !.at = "index", !.head = P!HEAD]
    BY <2>2 DEF PlanJob, PlanStages
  <2>4. /\ j.at = "index" /\ j.head = P!HEAD /\ j.step = p.step /\ j.key = p.key /\ j.job = p.job
        /\ j.quiet = p.quiet
    BY <2>3 DEF PlanJob
  <2>5. PlanCame(j)
    BY <1>2, <2>1, <2>2, <2>4 DEF PlanCame, Headed
  <2> QED  BY <1>1, <2>1, <2>3, <2>5, JobAlone
<1>5. ASSUME P!ReadIndex(k), ~P!Fails(k) PROVE PlanInv'
  <2>1. p.at = "index" /\ index = commits[p.head] /\ P!GoTo(k, "files")
    BY <1>2, <1>5 DEF P!ReadIndex, P!At, P!Content
  <2>2. PICK where \in PlanStages : where = "files"
    BY DEF PlanStages
  <2>3. PICK j \in PlanJob :
           /\ planners' = [planners EXCEPT ![k] = j] /\ j.at = "files" /\ j.job = p.job
           /\ j.head = p.head /\ j.key = p.key /\ j.step = p.step /\ j.quiet = p.quiet
    BY <1>2, <2>1, <2>2, GoesTo
  <2>4. PlanCame(j)
    BY <1>2, <2>1, <2>3 DEF PlanCame, Headed
  <2> QED  BY <1>1, <2>3, <2>4, JobAlone
<1>6. ASSUME P!ReadFiles(k), ~P!Fails(k) PROVE PlanInv'
  <2>1. p.at = "files" /\ planFiles = commits[p.head] /\ P!GoTo(k, p.step)
    BY <1>2, <1>6 DEF P!ReadFiles, P!At, P!Content
  <2>2. p.step \in {"look", "source", "recover"}
    BY <1>2, <2>1 DEF PlanJob, PlanCame
  <2>3. PICK where \in PlanStages : where = p.step
    BY <2>2 DEF PlanStages
  <2>4. PICK j \in PlanJob :
           /\ planners' = [planners EXCEPT ![k] = j] /\ j.at = p.step /\ j.job = p.job
           /\ j.head = p.head /\ j.key = p.key /\ j.step = p.step /\ j.quiet = p.quiet
    BY <1>2, <2>1, <2>3, GoesTo
  <2>5. PlanCame(j)
    BY <1>2, <2>1, <2>2, <2>4 DEF PlanCame, Headed
  <2> QED  BY <1>1, <2>4, <2>5, JobAlone
<1> QED  BY <1>3, <1>4, <1>5, <1>6

\* A command takes up a workspace by its name.
LEMMA TakesUp ==
    ASSUME PlanInv, NEW k \in Commands, NEW x \in P!Keys,
           P!Step(k, [planners[k] EXCEPT !.at = "marker", !.key = x]),
           UNCHANGED <<commits, line, pruned, index, planFiles, planPlace, refs, spaces, planUsed>>
    PROVE  PlanInv'
<1>1. PICK p \in PlanJob : p = planners[k]
  BY PlanFacts
<1>2. x \in PlanKeys
  BY KeyIs
<1>3. PICK j \in PlanJob : j = [p EXCEPT !.at = "marker", !.key = x]
  BY <1>2 DEF PlanJob, PlanStages
<1>4. j.at = "marker" /\ j.key = x
  BY <1>3 DEF PlanJob
<1>5. PlanCame(j)
  BY <1>4 DEF PlanCame, Headed
<1> QED  BY <1>1, <1>3, <1>5, JobAlone DEF P!Step

LEMMA BoundIs ==
    ASSUME PlanInv, NEW k \in Commands, planners[k].at \in Headed
    PROVE  P!Bound(k) \in P!Keys /\ P!Key("legacy", P!Content(k)) \in P!Keys
           /\ P!Bound(k).at = planPlace /\ P!Bound(k).content = commits[planners[k].head]
<1>1. commits[planners[k].head] \in Contents
  BY PlanFacts DEF PlanCame
<1>2. planPlace \in PlanPlaces
  BY DEF PlanInv, PlanTypes
<1> QED  BY <1>1, <1>2 DEF P!Bound, P!Content, P!Key, P!Keys, P!Legacy, PlanPlaces

LEMMA PlanLooks ==
    ASSUME PlanInv, NEW k \in Commands, P!Look(k)
    PROVE  PlanInv'
<1>1. UNCHANGED <<commits, line, pruned, index, planFiles, planPlace, refs, spaces, planUsed>>
  BY DEF P!Look, P!git
<1>2. PICK p \in PlanJob : p = planners[k] /\ PlanCame(p)
  BY PlanFacts
<1>3. p.at = "look"
  BY <1>2 DEF P!Look, P!At
<1>4. P!Bound(k) \in P!Keys /\ P!Key("legacy", P!Content(k)) \in P!Keys
  BY <1>2, <1>3, BoundIs DEF Headed
<1>5. PICK x \in P!Keys, y \in P!Keys : x = P!Bound(k) /\ y = P!Key(P!Legacy, P!Content(k))
  BY <1>4 DEF P!Legacy
<1>6. \/ P!Step(k, [planners[k] EXCEPT !.at = "marker", !.key = x])
      \/ P!Step(k, [planners[k] EXCEPT !.at = "marker", !.key = y])
      \/ P!GoTo(k, "stage")
  BY <1>5 DEF P!Look
<1>7. CASE P!GoTo(k, "stage")
  <2>1. PICK where \in PlanStages : where = "stage"
    BY DEF PlanStages
  <2>2. PICK j \in PlanJob :
           /\ planners' = [planners EXCEPT ![k] = j] /\ j.at = "stage" /\ j.job = p.job
           /\ j.head = p.head /\ j.key = p.key /\ j.step = p.step /\ j.quiet = p.quiet
    BY <1>2, <1>7, <2>1, GoesTo
  <2>3. PlanCame(j)
    BY <1>2, <1>3, <2>2 DEF PlanCame, Headed
  <2> QED  BY <1>1, <2>2, <2>3, JobAlone
<1> QED  BY <1>1, <1>6, <1>7, TakesUp

LEMMA PlanReadsMarker ==
    ASSUME PlanInv, NEW k \in Commands, P!ReadMarker(k)
    PROVE  PlanInv'
<1>1. UNCHANGED <<commits, line, pruned, index, planFiles, planPlace, refs, spaces, planUsed>>
  BY DEF P!ReadMarker, P!git
<1>2. PICK p \in PlanJob : p = planners[k] /\ PlanCame(p)
  BY PlanFacts
<1>3. CASE P!Fails(k)
  BY <1>1, <1>3, PlanFails
<1>4. CASE ~P!Fails(k)
  <2>1. /\ p.at = "marker" /\ spaces[p.key] # NoPlan /\ p.key.at \in {planPlace, "legacy"}
        /\ P!Relocated(p.key) => P!Recovers(k, p.key)
        /\ P!Step(k, [p EXCEPT !.at = "tree",
                               !.step = IF P!Recovers(k, p.key) THEN "recover" ELSE "source"])
    BY <1>2, <1>4 DEF P!ReadMarker, P!At, P!Legacy
  <2>2. PICK step \in {"recover", "source"} :
           step = IF P!Recovers(k, p.key) THEN "recover" ELSE "source"
    OBVIOUS
  <2>3. PICK j \in PlanJob : j = [p EXCEPT !.at = "tree", !.step = step]
    BY DEF PlanJob, PlanStages
  <2>4. j.at = "tree" /\ j.step = step /\ j.key = p.key /\ j.job = p.job /\ j.quiet = p.quiet
    BY <2>3 DEF PlanJob
  <2>5. /\ step = "source" => spaces[p.key].place = planPlace
        /\ step = "recover" => p.job = "prepare"
    BY <1>2, <2>1, <2>2 DEF P!Relocated, P!Recovers
  <2>6. PlanCame(j)
    BY <1>2, <2>1, <2>4, <2>5 DEF PlanCame, Headed
  <2>7. planners' = [planners EXCEPT ![k] = j]
    BY <2>1, <2>2, <2>3 DEF P!Step
  <2> QED  BY <1>1, <2>6, <2>7, JobAlone
<1> QED  BY <1>3, <1>4

\* The copies are compared with what HEAD holds, and the recorded source with both.
LEMMA PlanCompares ==
    ASSUME PlanInv, NEW k \in Commands, P!CompareCopies(k)
    PROVE  PlanInv'
<1>1. UNCHANGED <<commits, line, pruned, index, planFiles, planPlace, refs, spaces, planUsed>>
  BY DEF P!CompareCopies, P!git
<1>2. PICK p \in PlanJob : p = planners[k] /\ PlanCame(p)
  BY PlanFacts
<1>3. CASE P!Fails(k)
  BY <1>1, <1>3, PlanFails
<1>4. CASE ~P!Fails(k)
  <2> DEFINE missing == ~P!Exists(P!Source(k))
             found   == IF missing \/ P!Relocated(p.key) THEN 0 ELSE P!Source(k)
  <2>1. /\ p.at \in {"source", "recover"} /\ p.key.content = commits[p.head]
        /\ missing => p.at = "recover"
        /\ ~missing => commits[P!Source(k)] = commits[p.head]
        /\ spaces[p.key].intact /\ P!Admits(k, found) /\ P!Source(k) = spaces[p.key].commit
    BY <1>2, <1>4 DEF P!CompareCopies, P!At, P!Content, P!Source
  <2>2. /\ p.key \in P!Keys /\ spaces[p.key] # NoPlan /\ p.key.at \in {planPlace, "legacy"}
        /\ p.step = p.at /\ (p.step = "source" => spaces[p.key].place = planPlace)
        /\ p.step = "recover" => p.job = "prepare"
    BY <1>2, <2>1 DEF PlanCame
  <2>3. p.quiet => Agree(p.key.content)
    BY <1>2, <2>1 DEF PlanCame, Headed, Agree
  <2>4. spaces[p.key].commit \in 1..Len(commits)
    BY <2>2 DEF PlanInv, SpacesOK
  <2>5. PICK n \in Nat : n = found /\ (n # 0 => n = spaces[p.key].commit /\ commits[n] = p.key.content)
    <3>1. CASE missing \/ P!Relocated(p.key)
      BY <3>1
    <3>2. CASE ~missing /\ ~P!Relocated(p.key)
      BY <2>1, <2>4, <3>2
    <3> QED  BY <3>1, <3>2
  <2>6. p.job = "check" => n # 0
    <3> SUFFICES ASSUME p.job = "check" PROVE n # 0
      OBVIOUS
    <3>1. ~missing /\ ~P!Relocated(p.key)
      BY <2>1, <2>2 DEF P!Relocated
    <3>2. n = spaces[p.key].commit
      BY <2>1, <2>5, <3>1
    <3> QED  BY <2>4, <3>2
  <2> HIDE DEF found, missing
  <2>7. CASE p.job = "check"
    <3>1. P!Step(k, [p EXCEPT !.at = "admitted", !.found = n])
      BY <1>2, <2>1, <2>5, <2>7 DEF P!Admits
    <3>2. PICK j \in PlanJob : j = [p EXCEPT !.at = "admitted", !.found = n]
      BY DEF PlanJob, PlanStages
    <3>3. j.at = "admitted" /\ j.found = n /\ j.key = p.key /\ j.job = p.job /\ j.quiet = p.quiet
      BY <3>2 DEF PlanJob
    <3>4. PlanCame(j)
      BY <2>1, <2>2, <2>3, <2>5, <2>6, <2>7, <3>3 DEF PlanCame, Headed, Described
    <3> QED  BY <1>1, <3>1, <3>2, <3>4, JobAlone DEF P!Step
  <2>8. CASE p.job # "check" /\ n = 0
    <3>1. P!GoTo(k, "stage")
      BY <1>2, <2>1, <2>5, <2>8 DEF P!Admits
    <3>2. PICK where \in PlanStages : where = "stage"
      BY DEF PlanStages
    <3>3. PICK j \in PlanJob :
           /\ planners' = [planners EXCEPT ![k] = j] /\ j.at = "stage" /\ j.job = p.job
           /\ j.head = p.head /\ j.key = p.key /\ j.step = p.step /\ j.quiet = p.quiet
      BY <1>2, <3>1, <3>2, GoesTo
    <3>4. PlanCame(j)
      BY <1>2, <2>1, <3>3 DEF PlanCame, Headed
    <3> QED  BY <1>1, <3>3, <3>4, JobAlone
  <2>9. CASE p.job # "check" /\ n # 0
    <3>1. P!Step(k, [p EXCEPT !.at = "retain", !.found = n])
      BY <1>2, <2>1, <2>5, <2>9 DEF P!Admits
    <3>2. PICK j \in PlanJob : j = [p EXCEPT !.at = "retain", !.found = n]
      BY DEF PlanJob, PlanStages
    <3>3. j.at = "retain" /\ j.found = n /\ j.key = p.key /\ j.job = p.job /\ j.quiet = p.quiet
      BY <3>2 DEF PlanJob
    <3>4. PlanCame(j)
      BY <2>1, <2>2, <2>3, <2>5, <2>9, <3>3 DEF PlanCame, Headed, Described
    <3> QED  BY <1>1, <3>1, <3>2, <3>4, JobAlone DEF P!Step
  <2> QED  BY <2>7, <2>8, <2>9
<1> QED  BY <1>3, <1>4

LEMMA PlanStage ==
    ASSUME PlanInv, NEW k \in Commands, P!Stage(k)
    PROVE  PlanInv'
<1>1. UNCHANGED <<commits, line, pruned, index, planFiles, planPlace, refs, spaces, planUsed>>
  BY DEF P!Stage, P!git
<1>2. PICK p \in PlanJob : p = planners[k] /\ PlanCame(p)
  BY PlanFacts
<1>3. CASE P!Fails(k)
  BY <1>1, <1>3, PlanFails
<1>4. CASE ~P!Fails(k)
  <2>1. p.at = "stage" /\ P!GoTo(k, "root")
    BY <1>2, <1>4 DEF P!Stage, P!At
  <2>2. PICK where \in PlanStages : where = "root"
    BY DEF PlanStages
  <2>3. PICK j \in PlanJob :
           /\ planners' = [planners EXCEPT ![k] = j] /\ j.at = "root" /\ j.job = p.job
           /\ j.head = p.head /\ j.key = p.key /\ j.step = p.step /\ j.quiet = p.quiet
    BY <1>2, <2>1, <2>2, GoesTo
  <2>4. PlanCame(j)
    BY <1>2, <2>1, <2>3 DEF PlanCame, Headed
  <2> QED  BY <1>1, <2>3, <2>4, JobAlone
<1> QED  BY <1>3, <1>4

\* A ref is made for a commit that is there.
LEMMA RootsAre ==
    ASSUME PlanInv, NEW n \in 1..Len(commits)
    PROVE  /\ refs \subseteq P!Roots(n) /\ P!Roots(n) \subseteq 1..Len(commits)
           /\ P!Roots(n) \cap pruned = {} /\ (P!Exists(n) => n \in P!Roots(n))
BY DEF PlanInv, PlanTypes, P!Roots, P!Exists

LEMMA PlanRetains ==
    ASSUME PlanInv, NEW k \in Commands, P!RetainSource(k) \/ P!RetainDescribed(k)
    PROVE  PlanInv'
<1>1. /\ UNCHANGED <<commits, line, pruned, index, planFiles, planPlace, spaces, planUsed>>
      /\ planUsed \in [jobs : Nat, edits : Nat]
  BY DEF P!RetainSource, P!RetainDescribed, P!git, PlanInv, PlanTypes
<1>2. PICK p \in PlanJob : p = planners[k] /\ PlanCame(p)
  BY PlanFacts
<1>3. CASE P!RetainSource(k)
  <2>1. p.at = "root" /\ p.head \in 1..Len(commits)
    BY <1>2, <1>3 DEF P!RetainSource, P!At, PlanCame, Headed
  <2>2. refs' = P!Roots(p.head) /\ IF P!Exists(p.head) THEN P!GoTo(k, "rename") ELSE P!Fails(k)
    BY <1>2, <1>3 DEF P!RetainSource
  <2>3. /\ refs \subseteq refs' /\ refs' \subseteq 1..Len(commits) /\ refs' \cap pruned = {}
        /\ P!Exists(p.head) => p.head \in refs'
    BY <2>1, <2>2, RootsAre
  <2>4. CASE P!Exists(p.head)
    <3>1. PICK where \in PlanStages : where = "rename"
      BY DEF PlanStages
    <3>2. PICK j \in PlanJob :
           /\ planners' = [planners EXCEPT ![k] = j] /\ j.at = "rename" /\ j.job = p.job
           /\ j.head = p.head /\ j.key = p.key /\ j.step = p.step /\ j.quiet = p.quiet
      BY <1>2, <2>2, <2>4, <3>1, GoesTo
    <3>3. PlanCame(p)'
      BY <1>1, <1>2, <2>3, CameStays
    <3>4. PlanCame(j)'
      BY <1>1, <2>1, <2>3, <2>4, <3>2, <3>3 DEF PlanCame, Headed
    <3> QED  BY <1>1, <2>3, <3>2, <3>4, JobGoes
  <2>5. CASE ~P!Exists(p.head)
    <3>1. PICK j \in PlanJob : j = P!Idle /\ PlanCame(j)
      BY IdleIs
    <3>2. PlanCame(j)'
      BY <1>1, <2>3, <3>1, CameStays
    <3>3. planners' = [planners EXCEPT ![k] = j]
      BY <2>2, <2>5, <3>1 DEF P!Fails, P!Step
    <3> QED  BY <1>1, <2>3, <3>2, <3>3, JobGoes
  <2> QED  BY <2>4, <2>5
<1>4. CASE P!RetainDescribed(k)
  <2>1. p.at = "retain" /\ Described(p)
    BY <1>2, <1>4 DEF P!RetainDescribed, P!At, PlanCame
  <2>2. p.found \in 1..Len(commits)
    BY <2>1 DEF Described, PlanInv, SpacesOK
  <2>3. refs' = P!Roots(p.found) /\ IF P!Exists(p.found) THEN P!Answers(k) ELSE P!Fails(k)
    BY <1>2, <1>4 DEF P!RetainDescribed
  <2>4. /\ refs \subseteq refs' /\ refs' \subseteq 1..Len(commits) /\ refs' \cap pruned = {}
        /\ P!Exists(p.found) => p.found \in refs'
    BY <2>2, <2>3, RootsAre
  <2>5. CASE P!Exists(p.found)
    <3>1. PICK j \in PlanJob :
             j = [p EXCEPT !.at = "done", !.head = 0, !.step = "none", !.writes = "private"]
      BY DEF PlanJob, PlanStages
    <3>2. j.at = "done" /\ j.key = p.key /\ j.found = p.found /\ j.job = p.job /\ j.quiet = p.quiet
      BY <3>1 DEF PlanJob
    <3>3. planners' = [planners EXCEPT ![k] = j]
      BY <1>2, <2>3, <2>5, <3>1 DEF P!Answers, P!Step
    <3>4. PlanCame(p)'
      BY <1>1, <1>2, <2>4, CameStays
    <3>5. PlanCame(j)'
      BY <2>1, <2>4, <2>5, <3>2, <3>4 DEF PlanCame, Headed, Described
    <3> QED  BY <1>1, <2>4, <3>3, <3>5, JobGoes
  <2>6. CASE ~P!Exists(p.found)
    <3>1. PICK j \in PlanJob : j = P!Idle /\ PlanCame(j)
      BY IdleIs
    <3>2. PlanCame(j)'
      BY <1>1, <2>4, <3>1, CameStays
    <3>3. planners' = [planners EXCEPT ![k] = j]
      BY <2>3, <2>6, <3>1 DEF P!Fails, P!Step
    <3> QED  BY <1>1, <2>4, <3>2, <3>3, JobGoes
  <2> QED  BY <2>5, <2>6
<1> QED  BY <1>3, <1>4

\* Whoever comes second uses the workspace that is there.
LEMMA PlanPublishes ==
    ASSUME PlanInv, NEW k \in Commands, P!Publish(k)
    PROVE  PlanInv'
<1>1. UNCHANGED <<commits, line, pruned, index, planFiles, planPlace, refs, planUsed>>
  BY DEF P!Publish, P!git
<1>2. PICK p \in PlanJob : p = planners[k] /\ PlanCame(p)
  BY PlanFacts
<1>3. /\ p.at = "rename" /\ p.head \in refs /\ p.head \in 1..Len(commits)
      /\ commits[p.head] \in Contents
  BY <1>2 DEF P!Publish, P!At, PlanCame, Headed
<1>4. PICK x \in P!Keys : x = P!Bound(k) /\ x.at = planPlace /\ x.content = commits[p.head]
  BY <1>2, <1>3, BoundIs DEF Headed
<1>5. PICK s \in Spaces : s = P!Space(planPlace, p.head) /\ s.place = planPlace /\ s.commit = p.head
                          /\ s.intact
  <2>1. planPlace \in PlanPlaces /\ p.head \in Nat
    BY <1>2 DEF PlanInv, PlanTypes, PlanJob
  <2>2. PICK yes \in BOOLEAN : yes <=> TRUE
    OBVIOUS
  <2>3. PICK s \in Spaces : s = [place |-> planPlace, commit |-> p.head, intact |-> yes]
    BY <2>1 DEF Spaces
  <2>4. s.place = planPlace /\ s.commit = p.head
    BY <2>3
  <2>5. s.intact
    BY <2>2, <2>3, Zenon
  <2>6. P!Space(planPlace, p.head) = [place |-> planPlace, commit |-> p.head, intact |-> yes]
    BY <2>2, Zenon DEF P!Space
  <2>7. s = P!Space(planPlace, p.head)
    BY <2>3, <2>6
  <2> QED  BY <2>4, <2>5, <2>7
<1>6. /\ spaces' = IF spaces[x] = NoPlan THEN [spaces EXCEPT ![x] = s] ELSE spaces
      /\ P!Step(k, [p EXCEPT !.at = "marker", !.key = x, !.step = "source"])
  BY <1>2, <1>4, <1>5 DEF P!Publish, P!Recorded
<1>7. /\ spaces \in [P!Keys -> Spaces \cup {NoPlan}] /\ spaces' \in [P!Keys -> Spaces \cup {NoPlan}]
      /\ \A y \in P!Keys : spaces[y] # NoPlan => spaces'[y] = spaces[y]
      /\ \A y \in P!Keys : spaces'[y] = spaces[y] \/ (y = x /\ spaces'[y] = s)
  BY <1>6 DEF PlanInv, PlanTypes
<1>8. x \in PlanKeys
  BY KeyIs
<1>9. PICK j \in PlanJob : j = [p EXCEPT !.at = "marker", !.key = x, !.step = "source"]
  BY <1>8 DEF PlanJob, PlanStages
<1>10. j.at = "marker" /\ j.key = x
  BY <1>9 DEF PlanJob
<1>11. planners' = [planners EXCEPT ![k] = j]
  BY <1>6, <1>9 DEF P!Step
<1>12. PlanTypes'
  BY <1>1, <1>7, <1>11 DEF PlanInv, PlanTypes
<1>13. SpacesOK'
  BY <1>1, <1>3, <1>4, <1>5, <1>7 DEF PlanInv, SpacesOK
<1>14. ASSUME NEW l \in Commands PROVE PlanCame(planners[l])'
  <2>1. PICK i : i = planners'[l]
    OBVIOUS
  <2>2. CASE l = k
    <3>1. i = j
      BY <1>11, <2>1, <2>2 DEF PlanInv, PlanTypes
    <3>2. PlanCame(j)'
      BY <1>10 DEF PlanCame, Headed
    <3> QED  BY <2>1, <3>1, <3>2
  <2>3. CASE l # k
    <3>1. PlanCame(i)
      BY <1>11, <2>1, <2>3 DEF PlanInv, PlanTypes
    <3>2. PlanCame(i)'
      BY <1>1, <1>7, <3>1, CameStays
    <3> QED  BY <2>1, <3>2
  <2> QED  BY <2>2, <2>3
<1>15. planUsed'.edits = 0 => \A y \in P!Keys : spaces'[y] # NoPlan => spaces'[y].intact
  BY <1>1, <1>5, <1>7 DEF PlanInv
<1> QED  BY <1>12, <1>13, <1>14, <1>15 DEF PlanInv

LEMMA PlanGuards ==
    ASSUME PlanInv, NEW k \in Commands, P!CommandGuard(k)
    PROVE  PlanInv'
<1>1. UNCHANGED <<commits, line, pruned, index, planFiles, planPlace, refs, planUsed>>
  BY DEF P!CommandGuard, P!git
<1>2. PICK p \in PlanJob : p = planners[k] /\ PlanCame(p)
  BY PlanFacts
<1>3. p.at = "admitted" /\ Described(p) /\ p.job = "check"
  BY <1>2 DEF P!CommandGuard, P!At, PlanCame
<1>4. CASE p.writes = "contract"
  <2>1. P!Fails(k) /\ UNCHANGED spaces
    BY <1>2, <1>4 DEF P!CommandGuard, P!MutablePath
  <2> QED  BY <1>1, <2>1, PlanFails
<1>5. CASE p.writes # "contract"
  <2>1. P!Answers(k) /\ UNCHANGED spaces
    BY <1>2, <1>5 DEF P!CommandGuard, P!MutablePath
  <2>2. PICK j \in PlanJob :
           j = [p EXCEPT !.at = "done", !.head = 0, !.step = "none", !.writes = "private"]
    BY DEF PlanJob, PlanStages
  <2>3. j.at = "done" /\ j.key = p.key /\ j.found = p.found /\ j.job = p.job /\ j.quiet = p.quiet
    BY <2>2 DEF PlanJob
  <2>4. PlanCame(j)
    BY <1>3, <2>3 DEF PlanCame, Headed, Described
  <2>5. planners' = [planners EXCEPT ![k] = j]
    BY <1>2, <2>1, <2>2 DEF P!Answers, P!Step
  <2> QED  BY <1>1, <2>1, <2>4, <2>5, JobAlone
<1> QED  BY <1>4, <1>5

LEMMA PlanKilled ==
    ASSUME PlanInv, NEW k \in Commands, P!Kill(k)
    PROVE  PlanInv'
<1>1. /\ UNCHANGED <<commits, line, pruned, index, planFiles, planPlace, refs, spaces, planUsed>>
      /\ P!Fails(k)
  BY DEF P!Kill, P!Fails, P!git
<1> QED  BY <1>1, PlanFails

\* What a command knows it knows still when somebody interfered, but for what it read.
LEMMA CameDisturbed ==
    ASSUME NEW i \in PlanJob, NEW j \in PlanJob, j = [i EXCEPT !.quiet = FALSE],
           PlanTypes, SpacesOK, PlanCame(i), UNCHANGED refs, Len(commits) <= Len(commits'),
           Len(commits') \in Nat,
           \A n \in 1..Len(commits) : commits'[n] = commits[n],
           \A x \in P!Keys : spaces[x] # NoPlan =>
              spaces'[x] # NoPlan /\ spaces'[x].place = spaces[x].place
              /\ spaces'[x].commit = spaces[x].commit,
           planPlace' = planPlace \/ i.at \in {"idle", "done"}
    PROVE  PlanCame(j)'
<1>1. /\ j.job = i.job /\ j.at = i.at /\ j.head = i.head /\ j.key = i.key /\ j.step = i.step
      /\ j.found = i.found
  BY DEF PlanJob
<1>2. ~j.quiet
  BY Zenon DEF PlanJob
<1>3. Len(commits) \in Nat
  BY LenProperties DEF PlanTypes
<1>4. \A n \in 1..Len(commits) : n \in 1..Len(commits') /\ commits'[n] = commits[n]
  BY <1>3
<1>5. Described(i) => Described(j)'
  BY <1>1, <1>2, <1>4 DEF Described, SpacesOK
<1>6. j.at \in Headed => j.head \in 1..Len(commits') /\ commits'[j.head] \in Contents
  BY <1>1, <1>4 DEF PlanCame
<1>7. j.at = "rename" => j.head \in refs'
  BY <1>1 DEF PlanCame
<1>8. j.at \in {"tree", "index", "files", "source", "recover"} => planPlace' = planPlace
  BY <1>1
<1>9. /\ j.at = "marker" => j.key \in P!Keys
      /\ j.at \in {"source", "recover"} => j.step = j.at
      /\ j.at \in {"tree", "index", "files"} => j.step # "none"
      /\ j.at = "admitted" => j.job = "check"
      /\ j.at = "done" /\ j.job = "prepare" => j.found \in refs'
  BY <1>1 DEF PlanCame
<1>10. j.at \in {"tree", "index", "files", "source", "recover"} /\ j.step \in {"source", "recover"} =>
          /\ j.key \in P!Keys /\ spaces'[j.key] # NoPlan /\ j.key.at \in {planPlace', "legacy"}
          /\ j.step = "source" => spaces'[j.key].place = planPlace'
          /\ j.step = "recover" => j.job = "prepare"
  BY <1>1, <1>8 DEF PlanCame
<1>11. j.at \in {"admitted", "retain", "done"} => Described(j)'
  BY <1>1, <1>5 DEF PlanCame
<1> QED  BY <1>2, <1>6, <1>7, <1>9, <1>10, <1>11 DEF PlanCame

LEMMA PlanDisturbed ==
    ASSUME PlanInv, P!Disturbs, UNCHANGED refs,
           commits' \in Seq(AnyContent), Len(commits) <= Len(commits'),
           \A n \in 1..Len(commits) : commits'[n] = commits[n],
           line' \in Seq(Nat), line' # <<>>, \A n \in 1..Len(line') : line'[n] \in 1..Len(commits'),
           planPlace' \in PlanPlaces, planFiles' \in AnyContent, refs \cap pruned' = {},
           spaces' \in [P!Keys -> Spaces \cup {NoPlan}],
           \A x \in P!Keys : /\ spaces'[x] # NoPlan <=> spaces[x] # NoPlan
                             /\ spaces[x] # NoPlan => /\ spaces'[x].place = spaces[x].place
                                                      /\ spaces'[x].commit = spaces[x].commit,
           planPlace' = planPlace \/ \A k \in Commands : planners[k].at \in {"idle", "done"}
    PROVE  PlanInv'
<1>1. /\ planners \in [Commands -> PlanJob] /\ planUsed \in [jobs : Nat, edits : Nat]
      /\ refs \subseteq 1..Len(commits) /\ PlanTypes /\ SpacesOK
      /\ \A k \in Commands : PlanCame(planners[k])
  BY DEF PlanInv, PlanTypes
<1>2. Len(commits) \in Nat /\ Len(commits') \in Nat
  BY LenProperties DEF PlanInv, PlanTypes
<1>3. \A n \in 1..Len(commits) : n \in 1..Len(commits')
  BY <1>2
<1>4. planUsed' \in [jobs : Nat, edits : Nat] /\ planUsed'.edits # 0
  <2>1. PICK u \in [jobs : Nat, edits : Nat] : u = planUsed
    BY <1>1
  <2>2. PICK v : v = [u EXCEPT !.edits = @ + 1]
    OBVIOUS
  <2>3. v = [jobs |-> u.jobs, edits |-> u.edits + 1]
    BY <2>2
  <2>4. u.jobs \in Nat /\ u.edits + 1 \in Nat /\ u.edits + 1 # 0
    OBVIOUS
  <2>5. v \in [jobs : Nat, edits : Nat] /\ v.edits # 0
    BY <2>3, <2>4
  <2> QED  BY <2>1, <2>2, <2>5 DEF P!Disturbs
<1>5. ASSUME NEW k \in Commands PROVE planners'[k] \in PlanJob /\ PlanCame(planners[k])'
  <2>1. PICK i \in PlanJob : i = planners[k]
    BY <1>1
  <2>2. PICK j \in PlanJob : j = [i EXCEPT !.quiet = FALSE]
    BY DEF PlanJob
  <2>3. planners'[k] = j
    BY <2>1, <2>2 DEF P!Disturbs
  <2>4. PlanCame(i)
    BY <1>1, <2>1
  <2>5. planPlace' = planPlace \/ i.at \in {"idle", "done"}
    BY <2>1
  <2>6. PlanCame(j)'
    BY <1>1, <1>2, <2>2, <2>4, <2>5, CameDisturbed
  <2> QED  BY <2>3, <2>6
<1>6. planners' \in [Commands -> PlanJob]
  <2>1. planners' = [k \in Commands |-> planners'[k]]
    BY DEF P!Disturbs
  <2> QED  BY <1>5, <2>1
<1>7. PlanTypes'
  BY <1>1, <1>3, <1>4, <1>6 DEF PlanTypes
<1>8. SpacesOK'
  BY <1>1, <1>3 DEF SpacesOK
<1> QED  BY <1>4, <1>5, <1>7, <1>8 DEF PlanInv

LEMMA SpacesStay ==
    ASSUME PlanInv, UNCHANGED spaces
    PROVE  /\ spaces' \in [P!Keys -> Spaces \cup {NoPlan}]
           /\ \A x \in P!Keys : /\ spaces'[x] # NoPlan <=> spaces[x] # NoPlan
                                /\ spaces[x] # NoPlan => /\ spaces'[x].place = spaces[x].place
                                                         /\ spaces'[x].commit = spaces[x].commit
BY DEF PlanInv, PlanTypes

LEMMA PlanEdited ==
    ASSUME PlanInv, P!EditFiles \/ P!Add \/ P!Prune \/ P!Move
    PROVE  PlanInv'
<1>1. UNCHANGED <<commits, line, refs, spaces>> /\ P!Disturbs
  BY DEF P!EditFiles, P!Add, P!Prune, P!Move
<1>2. /\ commits \in Seq(AnyContent) /\ line \in Seq(Nat) /\ line # <<>>
      /\ \A i \in 1..Len(line) : line[i] \in 1..Len(commits)
      /\ planPlace \in PlanPlaces /\ planFiles \in AnyContent /\ refs \cap pruned = {}
  BY DEF PlanInv, PlanTypes
<1>3. planFiles' \in AnyContent
  BY <1>2 DEF P!EditFiles, P!Add, P!Prune, P!Move, AnyContent
<1>4. planPlace' \in PlanPlaces
  BY <1>2 DEF P!EditFiles, P!Add, P!Prune, P!Move, PlanPlaces
<1>5. refs \cap pruned' = {}
  BY <1>2 DEF P!EditFiles, P!Add, P!Prune, P!Move
<1>6. planPlace' = planPlace \/ \A k \in Commands : planners[k].at \in {"idle", "done"}
  BY DEF P!EditFiles, P!Add, P!Prune, P!Move
<1>7. Len(commits) \in Nat
  BY <1>2, LenProperties
<1> QED  BY <1>1, <1>2, <1>3, <1>4, <1>5, <1>6, <1>7, SpacesStay, PlanDisturbed

LEMMA PlanCommitted ==
    ASSUME PlanInv, P!Commit \/ P!Rewrite
    PROVE  PlanInv'
<1>1. /\ UNCHANGED <<pruned, planFiles, planPlace, refs, spaces>> /\ P!Disturbs
      /\ commits' = Append(commits, planFiles)
      /\ line' = Append(line, Len(commits) + 1) \/ line' = [line EXCEPT ![Len(line)] = Len(commits) + 1]
  BY DEF P!Commit, P!Rewrite, P!New
<1>2. /\ commits \in Seq(AnyContent) /\ line \in Seq(Nat) /\ line # <<>>
      /\ \A i \in 1..Len(line) : line[i] \in 1..Len(commits)
      /\ planPlace \in PlanPlaces /\ planFiles \in AnyContent /\ refs \cap pruned = {}
  BY DEF PlanInv, PlanTypes
<1>3. Len(commits) \in Nat /\ Len(line) \in Nat \ {0}
  BY <1>2, EmptySeq, LenProperties
<1>4. /\ commits' \in Seq(AnyContent) /\ Len(commits') = Len(commits) + 1
      /\ \A n \in 1..Len(commits) : commits'[n] = commits[n]
  BY <1>1, <1>2, AppendProperties
<1>5. PICK m \in Nat : m = Len(commits) + 1
  BY <1>3
<1>6. /\ line' \in Seq(Nat) /\ line' # <<>>
      /\ \A n \in 1..Len(line') : line'[n] \in 1..Len(commits')
  <2>1. CASE line' = Append(line, m)
    <3>1. /\ line' \in Seq(Nat) /\ line' # <<>> /\ Len(line') = Len(line) + 1
          /\ \A n \in 1..Len(line) : line'[n] = line[n]
          /\ line'[Len(line) + 1] = m
      BY <1>2, <2>1, AppendProperties
    <3>2. ASSUME NEW n \in 1..Len(line') PROVE line'[n] \in 1..Len(commits')
      <4>1. n \in 1..Len(line) \/ n = Len(line) + 1
        BY <1>3, <3>1
      <4>2. CASE n \in 1..Len(line)
        <5>1. line'[n] \in 1..Len(commits)
          BY <1>2, <3>1, <4>2
        <5> QED  BY <1>3, <1>4, <5>1
      <4>3. CASE n = Len(line) + 1
        BY <1>3, <1>4, <1>5, <3>1, <4>3
      <4> QED  BY <4>1, <4>2, <4>3
    <3> QED  BY <3>1, <3>2
  <2>2. CASE line' = [line EXCEPT ![Len(line)] = m]
    <3>1. Len(line) \in 1..Len(line)
      BY <1>3
    <3>2. /\ line' \in Seq(Nat) /\ Len(line') = Len(line)
          /\ \A n \in 1..Len(line) : line'[n] = IF n = Len(line) THEN m ELSE line[n]
      BY <1>2, <2>2, <3>1, ExceptSeq
    <3>3. line' # <<>>
      BY <1>3, <3>2, EmptySeq
    <3>4. ASSUME NEW n \in 1..Len(line') PROVE line'[n] \in 1..Len(commits')
      <4>1. line'[n] = m \/ line'[n] \in 1..Len(commits)
        BY <1>2, <3>2
      <4> QED  BY <1>3, <1>4, <1>5, <4>1
    <3> QED  BY <3>2, <3>3, <3>4
  <2> QED  BY <1>1, <1>5, <2>1, <2>2
<1>7. planFiles' \in AnyContent /\ planPlace' \in PlanPlaces /\ refs \cap pruned' = {}
  BY <1>1, <1>2
<1>8. Len(commits) <= Len(commits')
  BY <1>3, <1>4
<1> QED  BY <1>1, <1>4, <1>6, <1>7, <1>8, SpacesStay, PlanDisturbed

LEMMA PlanCopyEdited ==
    ASSUME PlanInv, P!EditCopy
    PROVE  PlanInv'
<1>1. /\ UNCHANGED <<commits, line, pruned, index, planFiles, planPlace, refs>> /\ P!Disturbs
  BY DEF P!EditCopy, P!git
<1>2. /\ commits \in Seq(AnyContent) /\ line \in Seq(Nat) /\ line # <<>>
      /\ \A i \in 1..Len(line) : line[i] \in 1..Len(commits)
      /\ planPlace \in PlanPlaces /\ planFiles \in AnyContent /\ refs \cap pruned = {}
      /\ spaces \in [P!Keys -> Spaces \cup {NoPlan}]
  BY DEF PlanInv, PlanTypes
<1>3. PICK x \in P!Keys : spaces[x] # NoPlan /\ spaces' = [spaces EXCEPT ![x].intact = ~@]
  BY DEF P!EditCopy
<1>4. PICK s \in Spaces : s = spaces[x]
  BY <1>2, <1>3
<1>5. PICK t \in Spaces : t = [s EXCEPT !.intact = ~@] /\ t.place = s.place /\ t.commit = s.commit
  <2>1. PICK r : r = [s EXCEPT !.intact = ~@]
    OBVIOUS
  <2>2. r \in Spaces
    BY <2>1, Zenon DEF Spaces
  <2>3. r.place = s.place /\ r.commit = s.commit
    BY <2>1 DEF Spaces
  <2> QED  BY <2>1, <2>2, <2>3
<1>6. t # NoPlan
  BY PlanFacts
<1>7. spaces' = [spaces EXCEPT ![x] = t]
  BY <1>3, <1>4, <1>5
<1>8. /\ spaces' \in [P!Keys -> Spaces \cup {NoPlan}]
      /\ \A y \in P!Keys : spaces'[y] = IF y = x THEN t ELSE spaces[y]
  BY <1>2, <1>7
<1>9. \A y \in P!Keys : /\ spaces'[y] # NoPlan <=> spaces[y] # NoPlan
                        /\ spaces[y] # NoPlan => /\ spaces'[y].place = spaces[y].place
                                                 /\ spaces'[y].commit = spaces[y].commit
  BY <1>3, <1>4, <1>5, <1>6, <1>8
<1>10. Len(commits) <= Len(commits')
  BY <1>1, <1>2, LenProperties
<1> QED  BY <1>1, <1>2, <1>8, <1>9, <1>10, PlanDisturbed

LEMMA PlanStarts ==
    ASSUME P!PlanInit
    PROVE  PlanInv
<1>1. /\ commits = <<1, 1>> /\ line \in {<<1, 2>>, <<2>>} /\ pruned = {} /\ planFiles = 1
      /\ planPlace \in PlanPlaces /\ refs = {} /\ planners = [k \in Commands |-> P!Idle]
      /\ planUsed = [jobs |-> 0, edits |-> 0]
  BY DEF P!PlanInit, PlanPlaces
<1>2. PICK old \in {NoPlan} \cup {P!Space(p, 1) : p \in PlanPlaces} :
         spaces = [x \in P!Keys |-> IF x = P!Key(P!Legacy, 1) THEN old ELSE NoPlan]
  BY DEF P!PlanInit, PlanPlaces
<1>3. old = NoPlan \/ (old \in Spaces /\ old.commit = 1 /\ old.intact)
  <2> SUFFICES ASSUME NEW p \in PlanPlaces, old = P!Space(p, 1)
               PROVE  old \in Spaces /\ old.commit = 1 /\ old.intact
    BY <1>2
  <2>1. PICK yes \in BOOLEAN : yes <=> TRUE
    OBVIOUS
  <2>2. PICK s \in Spaces : s = [place |-> p, commit |-> 1, intact |-> yes]
    BY DEF Spaces
  <2>3. s.commit = 1
    BY <2>2
  <2>4. s.intact
    BY <2>1, <2>2, Zenon
  <2>5. P!Space(p, 1) = [place |-> p, commit |-> 1, intact |-> yes]
    BY <2>1, Zenon DEF P!Space
  <2> QED  BY <2>2, <2>3, <2>4, <2>5
<1>4. /\ spaces \in [P!Keys -> Spaces \cup {NoPlan}]
      /\ \A x \in P!Keys : spaces[x] # NoPlan =>
            x = P!Key(P!Legacy, 1) /\ spaces[x] = old /\ old # NoPlan
  BY <1>2, <1>3
<1>5. P!Key(P!Legacy, 1).at = "legacy"
  BY DEF P!Key, P!Legacy
<1>6. Len(commits) = 2 /\ commits \in Seq(AnyContent)
  BY <1>1 DEF AnyContent
<1>7. /\ line \in Seq(Nat) /\ line # <<>>
      /\ \A i \in 1..Len(line) : line[i] \in 1..Len(commits)
  <2>1. CASE line = <<1, 2>>
    <3>1. line \in Seq(Nat) /\ line # <<>> /\ Len(line) = 2 /\ line[1] = 1 /\ line[2] = 2
      BY <2>1
    <3> QED  BY <1>6, <3>1
  <2>2. CASE line = <<2>>
    <3>1. line \in Seq(Nat) /\ line # <<>> /\ Len(line) = 1 /\ line[1] = 2
      BY <2>2
    <3> QED  BY <1>6, <3>1
  <2> QED  BY <1>1, <2>1, <2>2
<1>8. planUsed \in [jobs : Nat, edits : Nat]
  BY <1>1
<1>9. PICK idle \in PlanJob : idle = P!Idle /\ PlanCame(idle)
  BY IdleIs
<1>10. /\ planners \in [Commands -> PlanJob]
       /\ \A k \in Commands : planners[k] = idle
  BY <1>1, <1>9
<1>11. PlanTypes
  BY <1>1, <1>4, <1>6, <1>7, <1>8, <1>10 DEF PlanTypes, AnyContent
<1>12. SpacesOK
  BY <1>3, <1>4, <1>5, <1>6 DEF SpacesOK
<1>13. \A x \in P!Keys : spaces[x] # NoPlan => spaces[x].intact
  BY <1>3, <1>4
<1> QED  BY <1>9, <1>10, <1>11, <1>12, <1>13 DEF PlanInv

LEMMA PlanGoesOn ==
    ASSUME PlanInv, P!PlanNext
    PROVE  PlanInv'
<1>1. ASSUME NEW k \in Commands, P!Begin(k) \/ P!Command(k) \/ P!Kill(k) PROVE PlanInv'
  BY <1>1, PlanBegins, PlanReads, PlanLooks, PlanReadsMarker, PlanCompares, PlanStage, PlanRetains,
     PlanPublishes, PlanGuards, PlanKilled DEF P!Command
<1> QED  BY <1>1, PlanEdited, PlanCommitted, PlanCopyEdited DEF P!PlanNext

LEMMA PlanRooted ==
    ASSUME PlanInv
    PROVE  P!PreparedIsRooted
<1>1. \A n \in refs : P!Exists(n)
  BY DEF PlanInv, PlanTypes, P!Exists
<1>2. ASSUME NEW x \in P!Keys, x.at # P!Legacy, spaces[x] # NoPlan
      PROVE  /\ P!Rooted(spaces[x].commit, x.content) /\ x.content \in Contents
             /\ spaces[x].place = x.at
  BY <1>1, <1>2, KeyIs DEF PlanInv, SpacesOK, P!Rooted, P!Legacy
<1>3. ASSUME NEW k \in Commands, P!At(k, "done")
      PROVE  LET x == planners[k].key IN
             /\ spaces[x] # NoPlan /\ spaces[x].commit = planners[k].found
             /\ planners[k].job = "prepare" => P!Rooted(planners[k].found, x.content)
             /\ planners[k].quiet =>
                   /\ spaces[x].intact /\ x.at \in {planPlace, P!Legacy}
                   /\ {commits[P!HEAD], index, planFiles, commits[planners[k].found]} = {x.content}
  <2>1. PICK p \in PlanJob : p = planners[k] /\ PlanCame(p)
    BY PlanFacts
  <2>2. p.at = "done"
    BY <1>3, <2>1 DEF P!At
  <2>3. Described(p) /\ (p.job = "prepare" => p.found \in refs)
    BY <2>1, <2>2 DEF PlanCame
  <2> QED  BY <1>1, <2>1, <2>3 DEF Described, Agree, P!Rooted, P!Legacy
<1> QED  BY <1>2, <1>3 DEF P!PreparedIsRooted, PlanInv

(* PreparedIsRooted of PreparedPlan, for any contents and commands and any    *)
(* number of commits, edits, prunes and moves: the workspaces of this release *)
(* stand on a commit that a ref keeps and that holds what they are named      *)
(* after, and an answer nobody interfered with speaks of one content          *)
(* (team_plans.py, _retain_source and _validate).                             *)
THEOREM PlansStayRooted == Spec => []PreparedIsRooted
<1> DEFINE Inv == which = "plan" => PlanInv
<1>1. Init => Inv
  BY PlanStarts DEF Init
<1>2. Inv /\ [Next]_vars => Inv'
  <2> SUFFICES ASSUME Inv, [Next]_vars, which' = "plan" PROVE PlanInv'
    OBVIOUS
  <2>1. which = "plan" /\ (UNCHANGED planVars \/ P!PlanNext)
    BY DEF Next, vars
  <2>2. CASE UNCHANGED planVars
    <3>1. PlanInv
      BY <2>1
    <3>2. P!HEAD' = P!HEAD
      BY <2>2 DEF planVars, P!HEAD
    <3> QED  BY <2>2, <3>1, <3>2 DEF planVars, PlanInv, PlanTypes, SpacesOK, PlanCame, Described,
                Agree
  <2> QED  BY <2>1, <2>2, PlanGoesOn
<1>3. Inv => PreparedIsRooted
  BY PlanRooted DEF PreparedIsRooted
<1> QED  BY <1>1, <1>2, <1>3, PTL DEF Spec

-----------------------------------------------------------------------------
(* StepGuard.  The rows on the board keep apart, and what a command was let *)
(* do it was let do by a row of its own in what it had seen of the board.   *)

GuardPlaces == G!Sections \cup {0}
IsRow(r) == /\ r = [owner |-> r.owner, generation |-> r.generation, paths |-> r.paths,
                    state |-> r.state, plan |-> r.plan, reads |-> r.reads]
            /\ r # G!Gone
IsTurn(q) == q = [at |-> q.at, saw |-> q.saw, knew |-> q.knew, cleared |-> q.cleared]
BoundTo(b) == \A s \in GuardPlaces : b[s] = G!Unbound \/ b[s].task \in Tasks

\* What one command was let do: the row it relied on and the advice that came with it.
Advised(b, t, advice) == \A g \in G!Groups(b, t) : g \in advice.warnings \/ advice.omitted > 0
WasLet(k, q, x) ==
    /\ x.task \in Tasks /\ x.row = q.saw[x.task] /\ x.row # G!Gone /\ x.row.owner = k
    /\ x.scope \subseteq x.row.paths
    /\ Advised(q.saw, x.task, x.advice)

BoardOK == /\ board = [t \in Tasks |-> board[t]]
           /\ \A t \in Tasks : G!Held(t) => IsRow(board[t])
           /\ \A t, u \in Tasks : t # u /\ G!Held(t) /\ G!Held(u) =>
                 board[t].paths \cap board[u].paths = {}
BoundOK == /\ bound = [k \in Commands |-> [s \in GuardPlaces |-> bound[k][s]]]
           /\ \A k \in Commands : BoundTo(bound[k])
TurnsOK == /\ turn = [k \in Commands |-> turn[k]]
           /\ \A k \in Commands : /\ IsTurn(turn[k])
                                  /\ turn[k].at = "idle" \/ BoundTo(turn[k].knew)
                                  /\ \A x \in turn[k].cleared : WasLet(k, turn[k], x)
GuardInv == BoardOK /\ BoundOK /\ TurnsOK

\* At most MaxWarnings groups are told; the others are counted.
LEMMA AdviceCounts ==
  ASSUME NEW b, NEW t \in Tasks, NEW advice \in G!Project(b, t)
  PROVE  Advised(b, t, advice)
<1>1. IsFiniteSet(G!Groups(b, t))
  <2>1. G!Groups(b, t) \subseteq Tasks \X {"reads", "writes"}
    BY DEF G!Groups
  <2>2. IsFiniteSet(Tasks \X {"reads", "writes"})
    <3>1. IsFiniteSet({"reads"} \cup {"writes"})
      BY FS_Singleton, FS_AddElement
    <3>2. {"reads", "writes"} = {"reads"} \cup {"writes"}
      OBVIOUS
    <3> QED  BY <3>1, <3>2, CommandsAssumption, FS_Product
  <2> QED  BY <2>1, <2>2, FS_Subset
<1>2. PICK w \in SUBSET G!Groups(b, t) :
         /\ advice = [warnings |-> w,
                      omitted |-> G!Cardinality(G!Groups(b, t)) - G!Cardinality(w)]
  BY DEF G!Project
<1>3. Cardinality(w) \in Nat /\ Cardinality(G!Groups(b, t)) \in Nat
  BY <1>1, FS_Subset, FS_CardinalityType
<1>4. w # G!Groups(b, t) => Cardinality(w) < Cardinality(G!Groups(b, t))
  <2>1. /\ Cardinality(w) <= Cardinality(G!Groups(b, t))
        /\ Cardinality(G!Groups(b, t)) = Cardinality(w) => G!Groups(b, t) = w
    BY <1>1, FS_Subset
  <2> QED  BY <1>3, <2>1
<1>5. ASSUME NEW set PROVE G!Cardinality(set) = Cardinality(set)
  BY DEF G!Cardinality, Cardinality
<1> QED  BY <1>2, <1>3, <1>4, <1>5 DEF Advised

LEMMA GuardFacts ==
  ASSUME GuardInv, NEW k \in Commands
  PROVE  /\ turn[k] = [at |-> turn[k].at, saw |-> turn[k].saw, knew |-> turn[k].knew,
                       cleared |-> turn[k].cleared]
         /\ \A x \in turn[k].cleared : WasLet(k, turn[k], x)
         /\ BoundTo(bound[k]) /\ (turn[k].at = "idle" \/ BoundTo(turn[k].knew))
         /\ \A t \in Tasks : G!Held(t) => IsRow(board[t])
  BY DEF GuardInv, BoardOK, BoundOK, TurnsOK, IsTurn

\* A row that comes in keeps apart, and is a row.
LEMMA RowComes ==
  ASSUME GuardInv, NEW t \in Tasks, NEW r, board' = [board EXCEPT ![t] = r],
         \/ r = G!Gone
         \/ /\ IsRow(r)
            /\ \A u \in Tasks \ {t} : G!Held(u) => board[u].paths \cap r.paths = {}
  PROVE  BoardOK'
<1>1. board'[t] = r /\ \A u \in Tasks \ {t} : board'[u] = board[u]
  BY DEF GuardInv, BoardOK
<1>2. board' = [u \in Tasks |-> board'[u]]
  BY DEF GuardInv, BoardOK
<1>3. ASSUME NEW u \in Tasks, G!Held(u)' PROVE IsRow(board[u])'
  BY <1>1, <1>3 DEF GuardInv, BoardOK, G!Held, IsRow
<1>4. ASSUME NEW u \in Tasks, NEW v \in Tasks, u # v, G!Held(u)', G!Held(v)'
      PROVE  board'[u].paths \cap board'[v].paths = {}
  <2>1. CASE u = t
    BY <1>1, <1>4, <2>1 DEF G!Held
  <2>2. CASE v = t
    BY <1>1, <1>4, <2>2 DEF G!Held
  <2>3. CASE u # t /\ v # t
    BY <1>1, <1>4, <2>3 DEF GuardInv, BoardOK, G!Held
  <2> QED  BY <2>1, <2>2, <2>3
<1> QED  BY <1>2, <1>3, <1>4 DEF BoardOK

LEMMA BindKeeps ==
  ASSUME GuardInv, NEW k \in Commands, NEW t \in Tasks, NEW s \in GuardPlaces, G!Bind(k, t, s)
  PROVE  GuardInv'
<1>1. PICK generation, state : 
         /\ board' = [board EXCEPT ![t] =
                [owner |-> k, generation |-> generation, paths |-> G!Scope(taskPlan[k], s),
                 state |-> state, plan |-> G!Names(taskPlan[k], s),
                 reads |-> G!Declared(taskPlan[k], s)]]
         /\ bound' = [bound EXCEPT ![k][s] = [task |-> t, generation |-> generation]]
         /\ G!Apart(t, G!Scope(taskPlan[k], s)) /\ turn' = turn
  BY DEF G!Bind
<1>2. BoardOK'
  <2> DEFINE r == [owner |-> k, generation |-> generation, paths |-> G!Scope(taskPlan[k], s),
                   state |-> state, plan |-> G!Names(taskPlan[k], s),
                   reads |-> G!Declared(taskPlan[k], s)]
  <2>1. IsRow(r)
    BY DEF IsRow, G!Gone
  <2>2. \A u \in Tasks \ {t} : G!Held(u) => board[u].paths \cap r.paths = {}
    BY <1>1 DEF G!Apart
  <2>3. board' = [board EXCEPT ![t] = r]
    BY <1>1
  <2> HIDE DEF r
  <2> QED  BY <2>1, <2>2, <2>3, RowComes
<1>3. BoundOK'
  <2>1. bound = [l \in Commands |-> [p \in GuardPlaces |-> bound[l][p]]]
    BY DEF GuardInv, BoundOK
  <2>2. \A l \in Commands, p \in GuardPlaces :
           bound'[l][p] = IF l = k /\ p = s THEN [task |-> t, generation |-> generation]
                          ELSE bound[l][p]
    BY <1>1, <2>1
  <2>3. bound' = [l \in Commands |-> [p \in GuardPlaces |-> bound'[l][p]]]
    BY <1>1, <2>1
  <2>4. \A l \in Commands : BoundTo(bound'[l])
    BY <2>2 DEF GuardInv, BoundOK, BoundTo
  <2> QED  BY <2>3, <2>4 DEF BoundOK, BoundTo
<1>4. TurnsOK'
  BY <1>1 DEF GuardInv, TurnsOK
<1> QED  BY <1>2, <1>3, <1>4 DEF GuardInv

LEMMA DeclareKeeps ==
  ASSUME GuardInv, NEW k \in Commands, NEW t \in Tasks, NEW state, G!Declare(k, t, state)
  PROVE  GuardInv'
<1>1. IsRow(board[t]) /\ board' = [board EXCEPT ![t].state = state]
      /\ UNCHANGED <<bound, turn>> /\ G!Held(t)
  BY GuardFacts DEF G!Declare
<1>2. PICK r : r = [board[t] EXCEPT !.state = state]
  OBVIOUS
<1>3. r = [owner |-> board[t].owner, generation |-> board[t].generation, paths |-> board[t].paths,
           state |-> state, plan |-> board[t].plan, reads |-> board[t].reads]
  BY <1>1, <1>2 DEF IsRow
<1>4. IsRow(r)
  BY <1>3 DEF IsRow, G!Gone
<1>5. \A u \in Tasks \ {t} : G!Held(u) => board[u].paths \cap r.paths = {}
  BY <1>1, <1>3 DEF GuardInv, BoardOK
<1>6. BoardOK'
  BY <1>1, <1>2, <1>4, <1>5, RowComes
<1> QED  BY <1>1, <1>6 DEF GuardInv, BoundOK, TurnsOK

LEMMA RecoverKeeps ==
  ASSUME GuardInv, NEW k \in Commands, NEW t \in Tasks, G!Recover(k, t)
  PROVE  GuardInv'
<1>1. /\ IsRow(board[t]) /\ UNCHANGED <<bound, turn>> /\ G!Held(t)
      /\ board' = [board EXCEPT ![t].owner = k, ![t].generation = moves', ![t].state = "blocked"]
  BY GuardFacts DEF G!Recover
<1>2. PICK r : r = [board[t] EXCEPT !.owner = k, !.generation = moves', !.state = "blocked"]
  OBVIOUS
<1>3. r = [owner |-> k, generation |-> moves', paths |-> board[t].paths,
           state |-> "blocked", plan |-> board[t].plan, reads |-> board[t].reads]
  BY <1>1, <1>2 DEF IsRow
<1>4. IsRow(r)
  BY <1>3 DEF IsRow, G!Gone
<1>5. \A u \in Tasks \ {t} : G!Held(u) => board[u].paths \cap r.paths = {}
  BY <1>1, <1>3 DEF GuardInv, BoardOK
<1>6. board' = [board EXCEPT ![t] = r]
  BY <1>1, <1>2 DEF GuardInv, BoardOK
<1>7. BoardOK'
  BY <1>4, <1>5, <1>6, RowComes
<1> QED  BY <1>1, <1>7 DEF GuardInv, BoundOK, TurnsOK

LEMMA FinishKeeps ==
  ASSUME GuardInv, NEW k \in Commands, NEW t \in Tasks, G!Finish(k, t)
  PROVE  GuardInv'
<1>1. /\ board' = [board EXCEPT ![t] = G!Gone] /\ turn' = turn
      /\ bound' = [bound EXCEPT ![k] =
                       [s \in DOMAIN @ |-> IF @[s].task = t THEN G!Unbound ELSE @[s]]]
  BY DEF G!Finish
<1>2. BoardOK'
  <2>1. PICK r : r = G!Gone
    OBVIOUS
  <2> QED  BY <1>1, <2>1, RowComes
<1>3. BoundOK'
  <2>1. bound = [l \in Commands |-> [p \in GuardPlaces |-> bound[l][p]]]
    BY DEF GuardInv, BoundOK
  <2>2. \A l \in Commands : DOMAIN bound[l] = GuardPlaces
    BY <2>1
  <2>3. \A l \in Commands, p \in GuardPlaces :
           bound'[l][p] = IF l = k /\ bound[k][p].task = t THEN G!Unbound ELSE bound[l][p]
    BY <1>1, <2>1, <2>2
  <2>4. bound' = [l \in Commands |-> [p \in GuardPlaces |-> bound'[l][p]]]
    BY <1>1, <2>1, <2>2
  <2>5. \A l \in Commands : BoundTo(bound'[l])
    BY <2>3 DEF GuardInv, BoundOK, BoundTo
  <2> QED  BY <2>4, <2>5 DEF BoundOK, BoundTo
<1>4. TurnsOK'
  BY <1>1 DEF GuardInv, TurnsOK
<1> QED  BY <1>2, <1>3, <1>4 DEF GuardInv

\* What one command comes to, the board and the bindings as they were.
LEMMA TurnComes ==
  ASSUME GuardInv, NEW k \in Commands, NEW q, turn' = [turn EXCEPT ![k] = q],
         UNCHANGED <<board, bound>>,
         IsTurn(q), q.at = "idle" \/ BoundTo(q.knew), \A x \in q.cleared : WasLet(k, q, x)
  PROVE  GuardInv'
<1>1. turn'[k] = q /\ \A l \in Commands \ {k} : turn'[l] = turn[l]
  BY DEF GuardInv, TurnsOK
<1>2. turn' = [l \in Commands |-> turn'[l]]
  BY DEF GuardInv, TurnsOK
<1>3. ASSUME NEW l \in Commands
      PROVE  /\ IsTurn(turn'[l]) /\ (turn'[l].at = "idle" \/ BoundTo(turn'[l].knew))
             /\ \A x \in turn'[l].cleared : WasLet(l, turn'[l], x)
  BY <1>1 DEF GuardInv, TurnsOK
<1>4. TurnsOK'
  BY <1>2, <1>3 DEF TurnsOK, IsTurn, BoundTo, WasLet, Advised, G!Groups
<1> QED  BY <1>4 DEF GuardInv, BoardOK, BoundOK, G!Held, IsRow, BoundTo

LEMMA ObserveKeeps ==
  ASSUME GuardInv, NEW k \in Commands, G!Observe(k)
  PROVE  GuardInv'
<1> DEFINE q == [at |-> "seen", saw |-> board, knew |-> bound[k], cleared |-> {}]
<1>1. turn' = [turn EXCEPT ![k] = q] /\ UNCHANGED <<board, bound>>
  BY DEF G!Observe
<1>2. IsTurn(q) /\ q.knew = bound[k] /\ q.cleared = {}
  BY DEF IsTurn
<1> HIDE DEF q
<1>3. BoundTo(q.knew)
  BY <1>2, GuardFacts
<1> QED  BY <1>1, <1>2, <1>3, TurnComes

LEMMA EndKeeps ==
  ASSUME GuardInv, NEW k \in Commands, G!End(k)
  PROVE  GuardInv'
<1>1. PICK q : q = G!Waiting /\ turn' = [turn EXCEPT ![k] = q] /\ UNCHANGED <<board, bound>>
  BY DEF G!End
<1>2. IsTurn(q) /\ q.at = "idle" /\ q.cleared = {}
  BY <1>1 DEF IsTurn, G!Waiting
<1> QED  BY <1>1, <1>2, TurnComes

LEMMA JudgeKeeps ==
  ASSUME GuardInv, NEW k \in Commands, NEW s \in GuardPlaces, G!Judge(k, s)
  PROVE  GuardInv'
<1>1. PICK b \in GuardPlaces : b = G!Selected(k, s)
  BY DEF G!Selected, GuardPlaces
<1>2. PICK t \in Tasks : t = turn[k].knew[b].task
  <2>1. turn[k].at = "seen" /\ turn[k].knew[b] # G!Unbound
    BY <1>1 DEF G!Judge
  <2> QED  BY <2>1, GuardFacts DEF BoundTo
<1>3. PICK row : row = turn[k].saw[t]
  OBVIOUS
<1>4. /\ row # G!Gone /\ row.owner = k
      /\ G!Scope(taskPlan[k], s) \subseteq row.paths
  BY <1>1, <1>2, <1>3 DEF G!Judge, G!Mine, G!Covers
<1>5. PICK advice \in G!Project(turn[k].saw, t) :
         turn' = [turn EXCEPT ![k].cleared = @ \cup
             {[task |-> t, row |-> row, scope |-> G!Scope(taskPlan[k], s), advice |-> advice]}]
  BY <1>1, <1>2, <1>3 DEF G!Judge
<1>6. UNCHANGED <<board, bound>>
  BY DEF G!Judge
<1>7. PICK x : x = [task |-> t, row |-> row, scope |-> G!Scope(taskPlan[k], s), advice |-> advice]
  OBVIOUS
<1>8. PICK q : q = [turn[k] EXCEPT !.cleared = @ \cup {x}]
  OBVIOUS
<1>9. /\ IsTurn(q) /\ q.at = turn[k].at /\ q.saw = turn[k].saw /\ q.knew = turn[k].knew
      /\ q.cleared = turn[k].cleared \cup {x}
  <2>1. PICK at, saw, knew, cleared :
           turn[k] = [at |-> at, saw |-> saw, knew |-> knew, cleared |-> cleared]
    BY GuardFacts
  <2>2. q = [at |-> at, saw |-> saw, knew |-> knew, cleared |-> cleared \cup {x}]
    BY <1>8, <2>1
  <2> QED  BY <2>1, <2>2 DEF IsTurn
<1>10. turn' = [turn EXCEPT ![k] = q]
  BY <1>5, <1>7, <1>8 DEF GuardInv, TurnsOK
<1>11. WasLet(k, q, x)
  BY <1>3, <1>4, <1>7, <1>9, AdviceCounts DEF WasLet
<1>12. \A y \in q.cleared : WasLet(k, q, y)
  <2>1. \A y \in turn[k].cleared : WasLet(k, turn[k], y)
    BY GuardFacts
  <2>2. \A y \in turn[k].cleared : WasLet(k, q, y)
    BY <1>9, <2>1 DEF WasLet
  <2> QED  BY <1>9, <1>11, <2>2
<1>13. q.at = "idle" \/ BoundTo(q.knew)
  BY <1>9, GuardFacts
<1> QED  BY <1>6, <1>9, <1>10, <1>12, <1>13, TurnComes

LEMMA GuardStep ==
  ASSUME GuardInv, G!GuardNext
  PROVE  GuardInv'
<1>1. ASSUME NEW k \in Commands, NEW v, G!Revise(k, v) PROVE GuardInv'
  BY <1>1 DEF G!Revise, GuardInv, BoardOK, BoundOK, TurnsOK, G!Held
<1> QED
  BY <1>1, ObserveKeeps, EndKeeps, JudgeKeeps, BindKeeps, RecoverKeeps, FinishKeeps, DeclareKeeps
     DEF G!GuardNext, GuardPlaces

LEMMA GuardStarts == G!GuardInit => GuardInv
<1> SUFFICES ASSUME G!GuardInit PROVE GuardInv
  OBVIOUS
<1>1. BoardOK
  BY DEF G!GuardInit, BoardOK, G!Held
<1>2. BoundOK
  BY DEF G!GuardInit, BoundOK, BoundTo, GuardPlaces
<1>3. TurnsOK
  BY DEF G!GuardInit, TurnsOK, IsTurn, G!Waiting
<1> QED  BY <1>1, <1>2, <1>3 DEF GuardInv

(* StepsApart of StepGuard, for any clones and tasks: two clones are let work *)
(* on overlapping paths at once only if a row has changed since, and when one *)
(* board judged both, what one reads and the other writes is told or counted. *)
THEOREM StepsStayApart == Spec => []StepsApart
<1> DEFINE Inv == which = "guard" => GuardInv
<1>1. Init => Inv
  BY GuardStarts DEF Init
<1>2. Inv /\ [Next]_vars => Inv'
  <2> SUFFICES ASSUME Inv, [Next]_vars, which' = "guard" PROVE GuardInv'
    OBVIOUS
  <2>1. which = "guard" /\ (UNCHANGED guardVars \/ G!GuardNext)
    BY DEF Next, vars
  <2>2. CASE UNCHANGED guardVars
    <3>1. GuardInv
      BY <2>1
    <3> QED  BY <2>2, <3>1 DEF guardVars, GuardInv, BoardOK, BoundOK, TurnsOK, G!Held
  <2> QED  BY <2>1, <2>2, GuardStep
<1>3. Inv => StepsApart
  <2> SUFFICES ASSUME GuardInv, NEW k \in Commands, NEW l \in Commands, k # l,
                      NEW x \in turn[k].cleared, NEW y \in turn[l].cleared
               PROVE  /\ x.scope \cap y.scope # {} => board[x.task] # x.row \/ board[y.task] # y.row
                      /\ turn[k].saw = turn[l].saw /\ x.row.reads.paths \cap y.row.paths # {} =>
                            /\ <<y.task, "reads">> \in x.advice.warnings \/ x.advice.omitted > 0
                            /\ <<x.task, "writes">> \in y.advice.warnings \/ y.advice.omitted > 0
    BY DEF StepsApart, G!StepsApart
  <2>1. WasLet(k, turn[k], x) /\ WasLet(l, turn[l], y)
    BY GuardFacts
  <2>2. ASSUME board[x.task] = x.row, board[y.task] = y.row
        PROVE  x.scope \cap y.scope = {}
    <3>1. x.task # y.task /\ G!Held(x.task) /\ G!Held(y.task)
      BY <2>1, <2>2 DEF WasLet, G!Held
    <3> QED  BY <2>1, <2>2, <3>1 DEF WasLet, GuardInv, BoardOK
  <2>3. ASSUME turn[k].saw = turn[l].saw, x.row.reads.paths \cap y.row.paths # {}
        PROVE  /\ <<y.task, "reads">> \in x.advice.warnings \/ x.advice.omitted > 0
               /\ <<x.task, "writes">> \in y.advice.warnings \/ y.advice.omitted > 0
    <3>1. x.task \in Tasks /\ y.task \in Tasks /\ x.task # y.task
      BY <2>1, <2>3 DEF WasLet
    <3>2. /\ <<y.task, "reads">> \in G!Groups(turn[k].saw, x.task)
          /\ <<x.task, "writes">> \in G!Groups(turn[l].saw, y.task)
      BY <2>1, <2>3, <3>1 DEF WasLet, G!Groups
    <3> QED  BY <2>1, <3>2 DEF WasLet, Advised
  <2> QED  BY <2>2, <2>3
<1> QED  BY <1>1, <1>2, <1>3, PTL DEF Spec
=============================================================================
