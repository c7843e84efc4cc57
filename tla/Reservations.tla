---------------------------- MODULE Reservations ----------------------------
(***************************************************************************)
(* What the team board promises, without clones, pushes or retries: one    *)
(* shared table of task reservations in which every step is one task's     *)
(* atomic operation and reservations never overlap.  "issued" holds every  *)
(* generation the table ever showed; a new owner always gets a new one.    *)
(***************************************************************************)
EXTENDS Integers, FiniteSets

CONSTANTS Tasks, Generations, Owners, Paths, Under, MaxSessions

VARIABLES version, sessions, issued

Row   == [owner: Owners, gen: Generations, paths: SUBSET Paths]
NoRow == [owner |-> <<>>, gen |-> 0, paths |-> {}]

Conflict(p, q) == p = q \/ <<p, q>> \in Under \/ <<q, p>> \in Under

Disjoint(table) ==
  \A s, t \in Tasks :
    (s # t /\ table[s].paths # {} /\ table[t].paths # {}) =>
      /\ table[s].owner # table[t].owner
      /\ \A p \in table[s].paths, q \in table[t].paths : ~Conflict(p, q)

Init == version \in {1, 2} /\ sessions = [t \in Tasks |-> NoRow] /\ issued = {}

\* One row changes, and the table stays free of conflicts.
Only(t) ==
  /\ sessions' = [sessions EXCEPT ![t] = sessions'[t]]
  /\ Disjoint(sessions')
  /\ Cardinality({s \in Tasks : sessions'[s] # NoRow}) <= MaxSessions

\* A generation the table never showed becomes the row's.
Issue(t) ==
  /\ sessions'[t].gen \notin issued
  /\ issued' = issued \cup {sessions'[t].gen}

\* The protocol only ever goes up, and only with a task operation.
Protocol == version' \in {version, 2}

Start(t) ==
  /\ sessions[t] = NoRow /\ sessions'[t] \in Row
  /\ Only(t) /\ Issue(t) /\ Protocol

\* Only the paths of a row change under its owner and generation.
Update(t) ==
  /\ sessions[t] # NoRow /\ sessions'[t].paths \subseteq Paths
  /\ sessions'[t] = [sessions[t] EXCEPT !.paths = sessions'[t].paths]
  /\ Only(t) /\ Protocol
  /\ UNCHANGED issued

\* Somebody takes the row over, paths unchanged, under a new generation.
Recover(t) ==
  /\ sessions[t] # NoRow /\ sessions'[t] \in Row
  /\ sessions'[t].paths = sessions[t].paths
  /\ Only(t) /\ Issue(t)
  /\ UNCHANGED version

Finish(t) ==
  /\ sessions[t] # NoRow /\ sessions'[t] = NoRow
  /\ Only(t)
  /\ UNCHANGED <<version, issued>>

Next == \E t \in Tasks : Start(t) \/ Update(t) \/ Recover(t) \/ Finish(t)

Spec == Init /\ [][Next]_<<version, sessions, issued>>
=============================================================================
