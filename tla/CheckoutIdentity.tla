-------------------------- MODULE CheckoutIdentity --------------------------
(***************************************************************************)
(* Which record of forge-team/state.json is a worktree's own               *)
(* (team_config.py, LocalTeam.checkout).  Earlier releases keyed a record  *)
(* by the place of the worktree's Git directory; now each has an identity  *)
(* file there, written before the state is saved under the new key.  The   *)
(* clone may be moved, worktrees come and go, and a command may be killed  *)
(* between the two writes.  One lock admits one command of a clone.        *)
(*                                                                         *)
(* A key is <<place, worktree>>, the older kind, or <<0, number>>.         *)
(***************************************************************************)
EXTENDS Naturals, FiniteSets

CONSTANTS MaxTrees,       \* worktrees; the first is the clone itself
          MaxPlaces,      \* bound: places the clone is moved to
          MaxCheckouts,   \* team_config.py, _MAX_CHECKOUTS
          MaxNumbers      \* bound: random numbers drawn

VARIABLES place,      \* where the clone is
          trees,      \* worktrees Git has registered
          ident,      \* forge-team-checkout.json of each, 0 for none
          checkouts,  \* the records of state.json
          command,    \* the command that holds the lock
          numbers,    \* numbers drawn so far
          holds       \* history: worktree -> the record its retained work is in
identityVars == <<place, trees, ident, checkouts, command, numbers, holds>>

Trees == 1..MaxTrees
Older == {[key |-> <<1, w>>, id |-> w, work |-> b] : w \in Trees, b \in BOOLEAN}
Quiet == [at |-> "idle", tree |-> 0, key |-> <<0, 0>>, record |-> {}, saved |-> {}]

IdentityInit ==
    /\ place = 1 /\ ident = [w \in Trees |-> 0] /\ command = Quiet /\ numbers = MaxTrees
    /\ \E left \in SUBSET Older :
         /\ \A r, s \in left : r.key = s.key => r = s
         /\ checkouts = left /\ Cardinality(left) <= MaxCheckouts
         /\ trees = {1} \cup {r.id : r \in left}
         /\ holds = [w \in Trees |-> IF \E r \in left : r.id = w /\ r.work THEN w ELSE 0]

Here(w)       == <<place, w>>
IsOlder(r)    == r.key[1] # 0
\* _registered_keys, and compact: work is never discarded.
Registered(key) == {key} \cup {Here(v) : v \in trees}
                         \cup {<<0, ident[v]>> : v \in {v \in trees : ident[v] # 0}}
Compact(key)  == {r \in checkouts : r.key \in Registered(key) \/ r.work}

\* Slip: a record that is still under its older key is not looked for.
BeganSlip(w) == {}
\* An identity written by a command that was killed before it saved.
Began(w)     == {r \in checkouts : ident[w] # 0 /\ IsOlder(r) /\ r.id = ident[w]}

Loads(w, key, record, drawn) ==
    /\ command' = [at |-> "loaded", tree |-> w, key |-> key,
                   record |-> {[r EXCEPT !.key = key] : r \in record},
                   saved |-> Compact(IF ident[w] = 0 THEN Here(w) ELSE <<0, ident[w]>>) \ record]
    /\ numbers' = numbers + drawn

Draws(n) == numbers + n <= MaxNumbers

Load(w) ==
    /\ command = Quiet /\ w \in trees
    /\ LET key   == IF ident[w] = 0 THEN Here(w) ELSE <<0, ident[w]>>
           found == {r \in checkouts : r.key = key}
       IN \/ /\ found # {} /\ ident[w] # 0 /\ Loads(w, key, found, 0)
          \/ /\ found # {} /\ ident[w] = 0
             /\ \E r \in found : /\ \A s \in checkouts : s.key # <<0, r.id>>
                                 /\ Loads(w, <<0, r.id>>, found, 0)
          \/ found = {} /\ Cardinality(Began(w)) = 1 /\ Loads(w, key, Began(w), 0)
          \/ /\ found = {} /\ Began(w) = {} /\ ident[w] # 0 /\ Draws(1)
             /\ Loads(w, key, {[key |-> key, id |-> numbers + 1, work |-> FALSE]}, 1)
          \/ /\ found = {} /\ ident[w] = 0 /\ Draws(2)
             /\ ~\E r \in Compact(key) : IsOlder(r) /\ r.key \notin Registered(key) /\ r.work
             /\ Loads(w, <<0, numbers + 1>>,
                      {[key |-> key, id |-> numbers + 2, work |-> FALSE]}, 2)
    /\ UNCHANGED <<place, trees, ident, checkouts, holds>>

WriteIdentity == /\ command.at = "loaded"
                 /\ ident' = [ident EXCEPT ![command.tree] = command.key[2]]
                 /\ command' = [command EXCEPT !.at = "known"]
                 /\ UNCHANGED <<place, trees, checkouts, numbers, holds>>

\* The command takes or keeps work, or gives it up, and saves, if there is room.
Save(work) ==
    /\ command.at = "known" /\ Cardinality(command.saved) < MaxCheckouts
    /\ LET own == {[r EXCEPT !.work = work] : r \in command.record}
       IN /\ checkouts' = command.saved \cup own
          /\ holds' = [holds EXCEPT ![command.tree] =
                         IF work THEN (CHOOSE r \in own : TRUE).id ELSE 0]
    /\ command' = Quiet
    /\ UNCHANGED <<place, trees, ident, numbers>>

\* Read, refused or killed.
Stop == command # Quiet /\ command' = Quiet /\ UNCHANGED <<place, trees, ident, checkouts, numbers, holds>>

MoveTo(p) == /\ command = Quiet /\ p # place /\ place' = p
             /\ UNCHANGED <<trees, ident, checkouts, command, numbers, holds>>

\* git worktree add and remove; the identity goes with the Git directory.
AddTree(w)    == /\ w \notin trees /\ trees' = trees \cup {w}
                 /\ UNCHANGED <<place, ident, checkouts, command, numbers, holds>>
RemoveTree(w) == /\ w # 1 /\ w \in trees /\ command.tree # w
                 /\ trees' = trees \ {w}
                 /\ ident' = [ident EXCEPT ![w] = 0] /\ holds' = [holds EXCEPT ![w] = 0]
                 /\ UNCHANGED <<place, checkouts, command, numbers>>

IdentityNext == \/ \E w \in Trees : Load(w) \/ AddTree(w) \/ RemoveTree(w)
                \/ WriteIdentity \/ Stop
                \/ \E work \in BOOLEAN : Save(work)
                \/ \E p \in 1..MaxPlaces : MoveTo(p)

-----------------------------------------------------------------------------
(* team_config.py:288, checkout.  However a clone is moved and commands    *)
(* are killed, what a worktree retains (a task, a binding, a publication   *)
(* that is not settled) stays in the state, a command of the worktree gets *)
(* the record with it or is refused, and no other worktree gets that one.  *)
WorkIsKept ==
    /\ \A w \in trees : holds[w] # 0 => \E r \in checkouts : r.id = holds[w] /\ r.work
    /\ \A r \in command.record :
          /\ holds[command.tree] \in {0, r.id}
          /\ \A v \in trees \ {command.tree} : holds[v] # r.id
=============================================================================
