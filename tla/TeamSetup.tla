------------------------------ MODULE TeamSetup ------------------------------
(***************************************************************************)
(* How a clone gets to a team board (team.py, onboard and leave): init     *)
(* remembers the identity of the board it is about to make, publishes the  *)
(* first revision where no ref exists yet, links the discovery file        *)
(* .forge/team.json and saves the connection; join needs that file.  Each  *)
(* step may be the last before a kill, a push nobody waits for may arrive  *)
(* later, and several clones may set up a board at once.                   *)
(***************************************************************************)
EXTENDS Naturals, FiniteSets, TLC

CONSTANTS Clones,
          MaxBoards, MaxRevisions, MaxSetups   \* bounds of a run

VARIABLES remote,     \* what the team ref names
          sent,       \* pushes that may still arrive
          local,      \* forge-team/state.json: connection and pending_init
          marker,     \* .forge/team.json of each clone: a board, or None
          setup,      \* the command that holds a clone's lock
          drawn,      \* board identities and revisions drawn, commands begun
          given       \* history: boards whose setup was abandoned
boardVars == <<remote, sent, local, marker, setup, drawn, given>>

None      == 0
Nothing   == [board |-> None, rev |-> 0]
Alone     == [board |-> None, pending |-> Nothing]
Rest      == [job |-> "none", at |-> "idle", board |-> None]

SetupInit == /\ remote = Nothing /\ sent = {} /\ given = {}
             /\ local = [c \in Clones |-> Alone] /\ marker = [c \in Clones |-> None]
             /\ setup = [c \in Clones |-> Rest]
             /\ drawn = [boards |-> 0, revisions |-> 0, jobs |-> 0]

At(c, place)   == setup[c].at = place
GoTo(c, place) == setup' = [setup EXCEPT ![c].at = place]
Ends(c)        == setup' = [setup EXCEPT ![c] = Rest]
Pending(c)     == local[c].pending
Saves(c, new)  == local' = [local EXCEPT ![c] = new]

-----------------------------------------------------------------------------
(* One remote, so its pin always matches.  A command holds the lock of its *)
(* clone; whatever a Git call refuses ends it with state.json as saved.    *)
Begin(c, job) ==
    /\ At(c, "idle") /\ drawn.jobs < MaxSetups /\ drawn' = [drawn EXCEPT !.jobs = @ + 1]
    /\ LET next == CASE job = "init" /\ Pending(c) # Nothing -> "read"
                     [] job = "init" /\ marker[c] = None     -> "look"
                     [] job \in {"init", "join"}             -> "join"
                     [] OTHER                                -> job
       IN setup' = [setup EXCEPT ![c] = [job |-> job, at |-> next, board |-> marker[c]]]
    /\ UNCHANGED <<remote, sent, local, marker, given>>

Refused(c) == ~At(c, "idle") /\ Ends(c) /\ UNCHANGED <<remote, sent, local, marker, drawn, given>>

\* init: no board may exist; what is about to be made is remembered first.
LookForBoard(c) ==
    /\ At(c, "look") /\ remote = Nothing /\ drawn.boards < MaxBoards
    /\ drawn' = [drawn EXCEPT !.boards = @ + 1]
    /\ Saves(c, [local[c] EXCEPT !.pending = [board |-> drawn.boards + 1, rev |-> 0]])
    /\ GoTo(c, "read")
    /\ UNCHANGED <<remote, sent, marker, given>>

ReadBoard(c) ==
    /\ At(c, "read")
    /\ \/ remote = Nothing /\ GoTo(c, "publish")
       \/ remote # Nothing /\ remote.board = Pending(c).board /\ GoTo(c, "mark")
    /\ UNCHANGED <<remote, sent, local, marker, drawn, given>>

\* GitBoard.write with remember, or retry of the revision that is retained.
Remember(c) ==
    /\ At(c, "publish")
    /\ \/ /\ Pending(c).rev = 0 /\ drawn.revisions < MaxRevisions
          /\ drawn' = [drawn EXCEPT !.revisions = @ + 1]
          /\ Saves(c, [local[c] EXCEPT !.pending.rev = drawn.revisions + 1])
          /\ GoTo(c, "push")
       \/ /\ Pending(c).rev # 0 /\ UNCHANGED <<local, drawn>>
          /\ \/ remote = Pending(c) /\ GoTo(c, "mark")
             \/ remote = Nothing /\ GoTo(c, "push")
    /\ UNCHANGED <<remote, sent, marker, given>>

\* The lease: the ref must not exist.
Lands(p) == remote' = IF remote = Nothing THEN p ELSE remote

Push(c) ==
    /\ At(c, "push")
    /\ \/ /\ Lands(Pending(c)) /\ UNCHANGED sent
          /\ \/ GoTo(c, "reconcile")
             \/ remote = Nothing /\ GoTo(c, "mark")
       \/ sent' = sent \cup {Pending(c)} /\ GoTo(c, "reconcile") /\ UNCHANGED remote
    /\ UNCHANGED <<local, marker, drawn, given>>

\* Slip: a setup whose publication is not there is forgotten.
UnconfirmedSlip(c) == Saves(c, Alone)
Unconfirmed(c)     == UNCHANGED local

\* After anything but a confirmation; what is unknown stays remembered.
Reconcile(c) ==
    /\ At(c, "reconcile")
    /\ \/ /\ remote = Pending(c) /\ GoTo(c, "mark") /\ UNCHANGED local
       \/ /\ remote # Pending(c) /\ Ends(c) /\ Unconfirmed(c)
    /\ UNCHANGED <<remote, sent, marker, drawn, given>>

\* write_marker links the file in; another marker is never replaced.
WriteMarker(c) ==
    /\ At(c, "mark") /\ marker[c] \in {None, Pending(c).board}
    /\ marker' = [marker EXCEPT ![c] = Pending(c).board]
    /\ setup' = [setup EXCEPT ![c].at = "connect", ![c].board = Pending(c).board]
    /\ UNCHANGED <<remote, sent, local, drawn, given>>

ReadJoined(c) ==
    /\ At(c, "join") /\ setup[c].board # None /\ remote.board = setup[c].board
    /\ GoTo(c, "connect")
    /\ UNCHANGED <<remote, sent, local, marker, drawn, given>>

\* One save: connected, and nothing pending any more.
Connect(c) ==
    /\ At(c, "connect")
    /\ Saves(c, [board |-> setup[c].board, pending |-> Nothing]) /\ Ends(c)
    /\ UNCHANGED <<remote, sent, marker, drawn, given>>

\* _transport: where every other command begins.
Reaches(c) == \/ local[c] = Alone /\ marker[c] = None
              \/ local[c].board # None /\ marker[c] = local[c].board /\ remote.board = marker[c]

Leave(c) ==
    /\ \/ At(c, "leave") /\ Reaches(c) /\ Pending(c) = Nothing /\ UNCHANGED given
       \/ At(c, "abandon") /\ given' = given \cup {Pending(c).board}
    /\ Saves(c, Alone) /\ Ends(c)
    /\ UNCHANGED <<remote, sent, marker, drawn>>

Works(c) == \/ LookForBoard(c) \/ ReadBoard(c) \/ Remember(c) \/ Push(c) \/ Reconcile(c)
            \/ WriteMarker(c) \/ ReadJoined(c) \/ Connect(c) \/ Leave(c)

-----------------------------------------------------------------------------
Arrive == /\ \E p \in sent : sent' = sent \ {p} /\ Lands(p)
          /\ UNCHANGED <<local, marker, setup, drawn, given>>

\* The discovery file travels with the repository's own commits.
Share  == /\ \E c, d \in Clones : /\ marker[d] = None /\ marker[c] # None
                                  /\ marker' = [marker EXCEPT ![d] = marker[c]]
          /\ UNCHANGED <<remote, sent, local, setup, drawn, given>>

SetupNext == \/ \E c \in Clones : Works(c) \/ Refused(c)
             \/ \E c \in Clones, job \in {"init", "join", "leave", "abandon"} : Begin(c, job)
             \/ Arrive \/ Share

SetupSpec == SetupInit /\ [][SetupNext]_boardVars

-----------------------------------------------------------------------------
(* team.py:352, onboard.  However setups of several clones are killed,     *)
(* retried and overtaken, all who are connected are connected to the board *)
(* of the remote, and a board that came to be there can be joined: someone *)
(* has its discovery file or still remembers making it, unless its maker   *)
(* abandoned it explicitly.                                                *)
OneBoard ==
    /\ \A c \in Clones : local[c].board # None =>
          local[c].board = remote.board /\ marker[c] = local[c].board
    /\ remote # Nothing => \/ remote.board \in given
                           \/ \E c \in Clones : remote.board \in {marker[c], Pending(c).board}
    /\ \A c \in Clones : marker[c] # None => marker[c] = remote.board
=============================================================================
