------------------------------ MODULE StepGuard ------------------------------
(***************************************************************************)
(* The guard of a workflow step (team_workflow.py) and the advice on what  *)
(* others read and write (team_dependencies.py).  A command observes the   *)
(* board once; every step it then takes is judged by that observation, by  *)
(* the bindings of its clone and by the contract of the plan as it is now, *)
(* while others go on updating, handing off, recovering and finishing.     *)
(* TeamBoard models how one of those changes is published; each is one     *)
(* step here.                                                              *)
(*                                                                         *)
(* A plan is its version; section 0 stands for the whole plan.             *)
(***************************************************************************)
EXTENDS Naturals, FiniteSets, TLC

CONSTANTS Clones, Tasks,
          Owned,         \* Owned[v][s]: paths section s of version v owns
          Inputs,        \* Inputs[v][s]: the inputs it declares, {} if it does not
          Folder,        \* the directory of a plan in the repository
          MaxWarnings,   \* team_dependencies.py:94, 5 in the code
          MaxMoves       \* bound: changes of the board and of plans

VARIABLES board,     \* task -> its row, or Gone
          plan,      \* clone -> the version of the plan, prepared or not
          bound,     \* clone -> section -> the task and generation bound to it
          turn,      \* clone -> the command that runs there
          moves      \* changes so far
guardVars == <<board, plan, bound, turn, moves>>

Versions  == DOMAIN Owned
Sections  == DOMAIN Owned[1]
Gone      == [owner |-> "nobody"]
Unbound   == [task |-> "none", generation |-> 0]
Waiting   == [at |-> "idle", saw |-> <<>>, knew |-> <<>>, cleared |-> {}]

GuardInit == /\ board = [t \in Tasks |-> Gone] /\ moves = 0
             /\ plan \in [Clones -> [version : {1}, prepared : BOOLEAN]]
             /\ bound = [c \in Clones |-> [s \in Sections \cup {0} |-> Unbound]]
             /\ turn = [c \in Clones |-> Waiting]

\* _plan_scope: a plan that is not prepared shares its own directory as well.
Chosen(s)   == IF s = 0 THEN Sections ELSE {s}
Scope(p, s) == UNION {Owned[p.version][n] : n \in Chosen(s)} \cup IF p.prepared THEN {} ELSE {Folder}
\* _declared_dependencies: one section that declares nothing makes it incomplete.
Declared(p, s) == [paths    |-> UNION {Inputs[p.version][n] : n \in Chosen(s)},
                   complete |-> \A n \in Chosen(s) : Inputs[p.version][n] # {}]
Names(p, s) == IF p.prepared THEN <<p.version, s>> ELSE <<0, 0>>

Held(t)  == board[t] # Gone
Mine(b, c, t, generation) == /\ b[t] # Gone /\ b[t].owner = c
                             /\ b[t].generation = generation
Apart(t, paths) == \A u \in Tasks \ {t} : Held(u) => board[u].paths \cap paths = {}
Counts   == moves < MaxMoves /\ moves' = moves + 1

-----------------------------------------------------------------------------
(* What becomes of the board; a generation is new with each owner.         *)

\* start and update of a task with a plan: its row and its binding.
Bind(c, t, s) ==
    /\ Counts /\ (Held(t) => board[t].owner = c) /\ Apart(t, Scope(plan[c], s))
    /\ LET generation == IF Held(t) THEN board[t].generation ELSE moves'
           state      == IF Held(t) THEN board[t].state ELSE "working"
       IN /\ board' = [board EXCEPT ![t] =
                [owner |-> c, generation |-> generation, paths |-> Scope(plan[c], s),
                 state |-> state, plan |-> Names(plan[c], s), reads |-> Declared(plan[c], s)]]
          /\ bound' = [bound EXCEPT ![c][s] = [task |-> t, generation |-> generation]]
    /\ UNCHANGED <<plan, turn>>

Declare(c, t, state) ==
    /\ Counts /\ Held(t) /\ board[t].owner = c /\ board[t].state # state
    /\ board' = [board EXCEPT ![t].state = state]
    /\ UNCHANGED <<plan, bound, turn>>

Recover(c, t) ==
    /\ Counts /\ Held(t) /\ board[t].owner # c
    /\ board' = [board EXCEPT ![t].owner = c, ![t].generation = moves', ![t].state = "blocked"]
    /\ UNCHANGED <<plan, bound, turn>>

Finish(c, t) ==
    /\ Counts /\ Held(t) /\ board[t].owner = c
    /\ board' = [board EXCEPT ![t] = Gone]
    /\ bound' = [bound EXCEPT ![c] = [s \in DOMAIN @ |-> IF @[s].task = t THEN Unbound ELSE @[s]]]
    /\ UNCHANGED <<plan, turn>>

\* The plan is edited, or another one is prepared.
Revise(c, v) == /\ Counts /\ plan[c].version # v
                /\ plan' = [plan EXCEPT ![c].version = v]
                /\ UNCHANGED <<board, bound, turn>>

-----------------------------------------------------------------------------
\* read_context: the one observation of a command.
Observe(c) == /\ turn[c].at = "idle"
              /\ turn' = [turn EXCEPT ![c] = [at |-> "seen", saw |-> board, knew |-> bound[c], cleared |-> {}]]
              /\ UNCHANGED <<board, plan, bound, moves>>

\* _binding_scope: the section's own binding, else the one of the whole plan.
Selected(c, s) == IF turn[c].knew[s] # Unbound THEN s ELSE 0

\* Slip: a row that holds some of the paths will do.
CoversSlip(row, paths) == row.paths \cap paths # {}
Covers(row, paths)     == paths \subseteq row.paths

\* project: what the task reads and others write, and the other way round.
Groups(b, t) ==
    {<<u, "reads">> : u \in {u \in Tasks \ {t} : b[u] # Gone /\ b[t].reads.paths \cap b[u].paths # {}}}
    \cup {<<u, "writes">> : u \in {u \in Tasks \ {t} : b[u] # Gone /\ b[t].paths \cap b[u].reads.paths # {}}}
Smaller(m, n) == IF m < n THEN m ELSE n
Project(b, t) ==
    {[warnings |-> w, omitted |-> Cardinality(Groups(b, t)) - Cardinality(w)] :
        w \in {w \in SUBSET Groups(b, t) :
                 Cardinality(w) = Smaller(MaxWarnings, Cardinality(Groups(b, t)))}}

\* guard, for one section; the command may go on to judge another.
Judge(c, s) ==
    LET k == Selected(c, s)
        t == turn[c].knew[k].task
    IN /\ turn[c].at = "seen" /\ turn[c].knew[k] # Unbound
       /\ Mine(turn[c].saw, c, t, turn[c].knew[k].generation)
       /\ LET row == turn[c].saw[t]
          IN /\ row.paths # {} /\ row.state \notin {"planning", "handoff"}
             /\ Covers(row, Scope(plan[c], s))
             /\ plan[c].prepared => row.plan = Names(plan[c], k)
             /\ row.reads = Declared(plan[c], k)
             /\ \E advice \in Project(turn[c].saw, t) :
                  turn' = [turn EXCEPT ![c].cleared = @ \cup
                      {[task |-> t, row |-> row, scope |-> Scope(plan[c], s), advice |-> advice]}]
       /\ UNCHANGED <<board, plan, bound, moves>>

\* The command ends; so it does when the guard refuses.
End(c) == /\ turn[c].at = "seen" /\ turn' = [turn EXCEPT ![c] = Waiting]
          /\ UNCHANGED <<board, plan, bound, moves>>

GuardNext == \E c \in Clones :
    \/ Observe(c) \/ End(c)
    \/ \E s \in Sections \cup {0} : Judge(c, s) \/ \E t \in Tasks : Bind(c, t, s)
    \/ \E t \in Tasks : Recover(c, t) \/ Finish(c, t)
                        \/ \E state \in {"working", "handoff"} : Declare(c, t, state)
    \/ \E v \in Versions : Revise(c, v)

-----------------------------------------------------------------------------
(* team_workflow.py:142 and team_dependencies.py:47.  Two clones are let   *)
(* work on overlapping paths at once only if the row that let one of them  *)
(* in has changed since; and when both were judged by one board, what one  *)
(* reads and the other writes is told to both, or counted as left out.     *)
StepsApart ==
    \A c, d \in Clones : c # d =>
       \A x \in turn[c].cleared, y \in turn[d].cleared :
          /\ x.scope \cap y.scope # {} => board[x.task] # x.row \/ board[y.task] # y.row
          /\ turn[c].saw = turn[d].saw /\ x.row.reads.paths \cap y.row.paths # {} =>
                /\ <<y.task, "reads">> \in x.advice.warnings \/ x.advice.omitted > 0
                /\ <<x.task, "writes">> \in y.advice.warnings \/ y.advice.omitted > 0
=============================================================================
