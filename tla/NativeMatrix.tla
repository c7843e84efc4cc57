---------------------------- MODULE NativeMatrix ----------------------------
(***************************************************************************)
(* The native acceptance matrix (tools/native_workflow_trials.py): a row   *)
(* is a task one host plans, begins and is stopped in as soon as it has    *)
(* saved a red checkpoint (native_trial_session.py), and that a fresh      *)
(* session then completes.  A direct row is completed by the other host,   *)
(* or, when that host is not at hand, by its own, with the continuation by *)
(* the other host left to `resume`.  Nothing locks the matrix: commands    *)
(* may work on one row at once, and every session has a directory of its   *)
(* own that can be made only once.  An agent whose command is killed works *)
(* on alone.                                                               *)
(*                                                                         *)
(* A tree is the workspace of a row: what stage it is in, and which red    *)
(* checkpoint its progress file has.                                       *)
(***************************************************************************)
EXTENDS Naturals, FiniteSets, Sequences

CONSTANTS Testers,               \* processes of the harness
          Direct, Plain,         \* rows for both hosts; rows that are to decline the task
          Lists,                 \* the rows a matrix may be prepared with, in order
          Options,               \* what --resume-host may say; "own" is to leave it out
          MaxMoves               \* bound, for each list: commands, kills, edits of what is there

VARIABLES listed,    \* the rows of this matrix
          matrix,    \* matrix.json: the package and the tools it was made for
          on,        \* what is on disk now: versions of the package, its copies, the tools
          row,       \* the directory of each row
          tester,    \* the command of each process
          told,      \* history: the sessions of each row that did as they were told
          moves      \* how often one of the bounded things has happened
matrixVars == <<listed, matrix, on, row, tester, told, moves>>

Rows      == {listed[i] : i \in DOMAIN listed}
Home      == "codex"
Away      == "claude"
Items     == {"root", Home, Away, "tools"}
NoMatrix  == [package |-> 0, tools |-> 0]
NoResult  == [status |-> "none", sessions |-> 0, pending |-> FALSE, mark |-> 0]
Base      == [stage |-> "base", mark |-> 0]
Gone      == [stage |-> "gone", mark |-> 0]
Empty     == [result |-> NoResult, made |-> {}, work |-> Base, point |-> Gone, evidence |-> Gone,
              previous |-> FALSE, cross |-> "none", loose |-> FALSE]
Idle      == [at |-> "idle", kind |-> "none", todo |-> <<>>, host |-> "own", phase |-> "none",
              child |-> "none", stop |-> "none", clean |-> TRUE, found |-> Base,
              result |-> NoResult, good |-> FALSE, seen |-> 0]

\* Nothing is prepared yet, or everything is.
MatrixInit == /\ listed \in Lists
              /\ matrix \in {NoMatrix, [package |-> 1, tools |-> 1]}
              /\ on = [i \in Items |-> IF i \in {Home, Away} /\ matrix = NoMatrix THEN 0 ELSE 1]
              /\ row = [r \in Rows |-> Empty] /\ tester = [c \in Testers |-> Idle]
              /\ told = [r \in Rows |-> <<>>] /\ moves = 0

Counted        == moves < MaxMoves[listed] /\ moves' = moves + 1
At(c, place)   == tester[c].at = place
GoTo(c, place) == tester' = [tester EXCEPT ![c].at = place]
Stop(c)        == tester' = [tester EXCEPT ![c] = Idle]
TheRow(c)      == Head(tester[c].todo)
Here(c)        == row[TheRow(c)]
Set(c, new)    == row' = [row EXCEPT ![TheRow(c)] = new]
SetResult(c, new) == Set(c, [Here(c) EXCEPT !.result = new])
Aside          == UNCHANGED <<listed, matrix, on, told, moves>>

ResumeHost(r)  == IF r \in Direct THEN Away ELSE Home
\* --resume-host, and the row's own choice without it.
ResumedBy(c)   == IF tester[c].host = "own" THEN ResumeHost(TheRow(c)) ELSE tester[c].host
SessionHost(c) == IF tester[c].phase \in {"resume", "cross"} THEN ResumedBy(c) ELSE Home
PackageUnchanged(hosts) == \A i \in hosts \cup {"root"} : on[i] = matrix.package
ToolsUnchanged          == on["tools"] = matrix.tools
UsedHosts(c)   == IF tester[c].kind = "resume" THEN {ResumedBy(c)} ELSE {Home, ResumedBy(c)}

-----------------------------------------------------------------------------
(* prepare: the package is identified, staged for both hosts, compared, and *)
(* the matrix is written last.                                              *)

Begin(c, kind, todo, host) ==
    /\ At(c, "idle") /\ Counted
    /\ IF kind = "prepare" THEN on[Home] = 0 ELSE matrix # NoMatrix
    /\ tester' = [tester EXCEPT ![c] = [Idle EXCEPT !.kind = kind, !.todo = todo, !.host = host,
                     !.at = CASE kind = "prepare" -> "identify" [] kind = "resume" -> "read"
                              [] OTHER -> "look"]]
    /\ UNCHANGED <<listed, matrix, on, row, told>>

Identify(c) == /\ At(c, "identify")
               /\ tester' = [tester EXCEPT ![c].at = "stage", ![c].seen = on["root"]]
               /\ UNCHANGED row /\ Aside

\* The directory is made once: who finds it there has nothing to stage.
Stage(c) == /\ At(c, "stage")
            /\ IF on[Home] # 0 THEN Stop(c) /\ UNCHANGED on
               ELSE GoTo(c, "record") /\ on' = [on EXCEPT ![Home] = on["root"], ![Away] = on["root"]]
            /\ UNCHANGED <<listed, matrix, row, told, moves>>

RecordMatrix(c) ==
    /\ At(c, "record") /\ Stop(c)
    /\ matrix' = IF \E h \in {Home, Away} : on[h] # tester[c].seen THEN matrix
                 ELSE [package |-> tester[c].seen, tools |-> on["tools"]]
    /\ UNCHANGED <<listed, on, row, told, moves>>

-----------------------------------------------------------------------------
(* run: a row is claimed by its result file, which is looked at, moved      *)
(* aside when it says blocked, and written.                                 *)

Result(c)         == Here(c).result
Unattempted(res)  == res.status = "none" \/ (res.status = "blocked" /\ res.sessions = 0)
Next(c) == IF Len(tester[c].todo) = 1 THEN Stop(c)
           ELSE tester' = [tester EXCEPT ![c] = [Idle EXCEPT !.kind = "run", !.at = "look",
                              !.todo = Tail(tester[c].todo), !.host = tester[c].host]]

\* A row that is kept is passed over by `--host`, unless it failed or runs.
Look(c) == /\ At(c, "look")
           /\ LET res == Result(c) IN
              CASE Unattempted(res) -> GoTo(c, IF res.status = "none" THEN "claim" ELSE "retire")
                [] res.status \in {"failed", "running"} -> Stop(c)
                [] OTHER -> Next(c)
           /\ UNCHANGED row /\ Aside

Retire(c) == /\ At(c, "retire") /\ Aside
             /\ IF Result(c) = NoResult THEN Stop(c) /\ UNCHANGED row
                ELSE GoTo(c, "claim") /\ SetResult(c, NoResult)

Claim(c) == /\ At(c, "claim") /\ GoTo(c, "login") /\ Aside
            /\ SetResult(c, [NoResult EXCEPT !.status = "running"])

\* A host without a model or a login blocks the row, and `--host` goes no further.
SignIn(c) ==
    /\ At(c, "login") /\ Aside
    /\ \/ Stop(c) /\ SetResult(c, [NoResult EXCEPT !.status = "blocked"])
       \/ /\ tester' = [tester EXCEPT ![c].at = IF ToolsUnchanged THEN "phase" ELSE "fail",
                            ![c].phase = IF TheRow(c) \in Plain THEN "unsupported" ELSE "plan",
                            ![c].result.status = "running"]
          /\ UNCHANGED row

\* The package, and the deadline of the row.
Phase(c) == /\ At(c, "phase") /\ UNCHANGED row /\ Aside
            /\ \/ PackageUnchanged(UsedHosts(c)) /\ GoTo(c, "launch")
               \/ GoTo(c, "fail")

Fail(c) ==
    /\ At(c, "fail") /\ Aside /\ Stop(c)
    /\ IF tester[c].kind = "resume" THEN Set(c, [Here(c) EXCEPT !.cross = "failed"])
       ELSE SetResult(c, [tester[c].result EXCEPT !.status = "failed"])

-----------------------------------------------------------------------------
(* run_session                                                              *)

Destination(c) == tester[c].phase
RedEvent(c)    == Here(c).work.mark
Made(c)        == Here(c).made

Launch(c) ==
    /\ At(c, "launch") /\ Aside
    /\ IF (tester[c].phase = "implement" /\ RedEvent(c) # 0) \/ Destination(c) \in Made(c)
       THEN GoTo(c, "fail") /\ UNCHANGED row
       ELSE /\ Set(c, [Here(c) EXCEPT !.made = @ \cup {Destination(c)}])
            /\ tester' = [tester EXCEPT ![c].at = "watch", ![c].child = "alive",
                             ![c].stop = "none", ![c].clean = TRUE,
                             ![c].found = Here(c).work]

\* One turn of the loop: the checkpoint counts only while the agent lives, and
\* comes before the deadline, the output and the stream.
Poll(c) ==
    /\ At(c, "watch") /\ UNCHANGED row /\ Aside
    /\ \/ /\ tester[c].phase = "implement" /\ tester[c].child = "alive" /\ RedEvent(c) # 0
          /\ tester' = [tester EXCEPT ![c].at = "terminate", ![c].stop = "checkpoint",
                           ![c].result.mark = RedEvent(c)]
       \/ /\ tester[c].phase = "implement" => tester[c].child # "alive" \/ RedEvent(c) = 0
          /\ \/ tester' = [tester EXCEPT ![c].at = "terminate", ![c].stop = "limit"]
             \/ tester[c].child # "alive" /\ GoTo(c, "terminate")

\* The group is killed in any case; what cannot be killed is an error.
Terminate(c) ==
    /\ At(c, "terminate") /\ Aside
    /\ \/ /\ tester' = [tester EXCEPT ![c].at = "judge",
                           ![c].child = IF @ = "alive" THEN "bad" ELSE @]
          /\ UNCHANGED row
       \/ /\ tester[c].child = "alive" /\ Set(c, [Here(c) EXCEPT !.loose = TRUE])
          /\ tester' = [tester EXCEPT ![c].at = "judge", ![c].child = "bad", ![c].clean = FALSE]

SessionSuccess(c) == tester[c].child = "zero" /\ tester[c].stop = "none" /\ tester[c].clean

-----------------------------------------------------------------------------
(* What each phase must have left                                           *)

\* interrupted: stopped for its checkpoint, which still describes the tree.
Interrupted(stop, clean, code, mark, tree) ==
    /\ stop = "checkpoint" /\ clean /\ code # "zero" /\ tree = [stage |-> "red", mark |-> mark]
Completed(mark, tree) == tree = [stage |-> "done", mark |-> mark]

Contract(c) ==
    LET t == tester[c]  tree == Here(c).work IN
    CASE t.phase = "unsupported" -> SessionSuccess(c) /\ tree = Base
      [] t.phase = "plan"        -> SessionSuccess(c) /\ tree = [stage |-> "planned", mark |-> 0]
      [] t.phase = "implement"   -> Interrupted(t.stop, t.clean, t.child, t.result.mark, tree)
      [] OTHER                   -> SessionSuccess(c) /\ Completed(t.result.mark, tree)

Unmet == [phase |-> "none", host |-> "none", found |-> Gone, left |-> Gone, whole |-> FALSE]

\* The output of the session is read and the workspace judged; a good checkpoint is copied.
Judge(c) ==
    /\ At(c, "judge")
    /\ \E native \in BOOLEAN : tester' = [tester EXCEPT ![c].at = "seal", ![c].child = "none",
                                             ![c].good = native /\ Contract(c),
                                             ![c].result.sessions = @ + 1]
    /\ IF tester[c].phase = "implement" /\ Contract(c)
       THEN Set(c, [Here(c) EXCEPT !.point = Here(c).work, !.evidence = Here(c).work])
       ELSE UNCHANGED row
    /\ told' = [told EXCEPT ![TheRow(c)] = Append(@,
                  IF ~Contract(c) THEN Unmet
                  ELSE [phase |-> tester[c].phase, host |-> SessionHost(c), found |-> tester[c].found,
                        left |-> Here(c).work,
                        whole |-> PackageUnchanged({SessionHost(c)}) /\ ToolsUnchanged])]
    /\ UNCHANGED <<listed, matrix, on, moves>>

After(phase) == IF phase = "plan" THEN "implement" ELSE "resume"
LastPhase(c) == tester[c].phase \in {"unsupported", "resume"}

\* The package and the tools once more, the deadline (late), and the result is saved.
Seal(c) ==
    /\ At(c, "seal") /\ Aside
    /\ \E late \in BOOLEAN :
       LET ok == /\ tester[c].good /\ ~late /\ PackageUnchanged(UsedHosts(c)) /\ ToolsUnchanged
           res == [tester[c].result EXCEPT !.status = IF ok THEN "running" ELSE "failed"] IN
       CASE tester[c].kind = "resume" ->
              Stop(c) /\ Set(c, [Here(c) EXCEPT !.cross = IF ok THEN "passed" ELSE "failed"])
         [] tester[c].kind # "resume" /\ ~ok -> Stop(c) /\ SetResult(c, res)
         [] OTHER ->
              /\ SetResult(c, res)
              /\ IF LastPhase(c) THEN GoTo(c, "finish")
                 ELSE tester' = [tester EXCEPT ![c].at = "phase", ![c].phase = After(@)]

Finish(c) ==
    /\ At(c, "finish") /\ Aside /\ Next(c)
    /\ LET pending == TheRow(c) \notin Plain /\ ResumeHost(TheRow(c)) # ResumedBy(c) IN
       SetResult(c, [tester[c].result EXCEPT !.pending = pending,
                        !.status = IF pending THEN "partial" ELSE "passed"])

-----------------------------------------------------------------------------
(* resume: the checkpoint that was kept, by the other host, at its path     *)

Read(c) ==
    /\ At(c, "read") /\ UNCHANGED row /\ Aside
    /\ IF Result(c).pending /\ Here(c).cross = "none"
       THEN tester' = [tester EXCEPT ![c].at = "admit", ![c].result = Result(c), ![c].phase = "cross"]
       ELSE Stop(c)

\* Whoever is not signed in is told so and leaves everything as it is.
Admit(c) ==
    /\ At(c, "admit") /\ UNCHANGED row /\ Aside
    /\ \/ /\ ToolsUnchanged /\ PackageUnchanged(UsedHosts(c))
          /\ Here(c).point = Here(c).evidence /\ GoTo(c, "move")
       \/ Stop(c)

\* A directory is renamed only to a name that is free.
Move(c) == /\ At(c, "move") /\ Aside
           /\ IF Here(c).work = Gone \/ Here(c).previous THEN Stop(c) /\ UNCHANGED row
              ELSE GoTo(c, "copy") /\ Set(c, [Here(c) EXCEPT !.work = Gone, !.previous = TRUE])

Copy(c) == /\ At(c, "copy") /\ GoTo(c, "cross") /\ Aside
           /\ Set(c, [Here(c) EXCEPT !.work = Here(c).point])

WriteCross(c) == /\ At(c, "cross") /\ GoTo(c, "restored") /\ Aside
                 /\ Set(c, [Here(c) EXCEPT !.cross = "running"])

Restoration(c) ==
    /\ At(c, "restored") /\ UNCHANGED row /\ Aside
    /\ GoTo(c, IF Interrupted("checkpoint", TRUE, "bad", tester[c].result.mark, Here(c).work)
               THEN "launch" ELSE "fail")

-----------------------------------------------------------------------------
(* The agents, the user and the system                                      *)

\* An agent may make anything of its workspace; a checkpoint it loses is lost.
Trees(tree) == [stage : {"planned", "red", "other", "done"},
                mark  : {0, tree.mark} \cup (IF tree.mark = 0 THEN {1} ELSE {2})] \ {tree}
\* Nothing tells two trees apart that are not the one to be declined upon.
Spoilt      == [stage |-> "other", mark |-> 0]
Works(r) == /\ row[r].loose \/ \E c \in Testers : tester[c].child = "alive" /\ TheRow(c) = r
            /\ \E tree \in IF r \in Plain THEN {Spoilt} ELSE Trees(row[r].work) :
                  row' = [row EXCEPT ![r].work = tree]
            /\ UNCHANGED tester /\ Aside
Ends(c) == /\ tester[c].child = "alive" /\ At(c, "watch") /\ UNCHANGED row /\ Aside
           /\ \E code \in {"zero", "bad"} : tester' = [tester EXCEPT ![c].child = code]
LooseEnds(r) == row[r].loose /\ row' = [row EXCEPT ![r].loose = FALSE] /\ UNCHANGED tester /\ Aside

Kill(c) == /\ Counted /\ ~At(c, "idle") /\ Stop(c) /\ UNCHANGED <<listed, matrix, on, told>>
           /\ IF tester[c].child = "alive" THEN Set(c, [Here(c) EXCEPT !.loose = TRUE]) ELSE UNCHANGED row

Drift == /\ Counted /\ UNCHANGED <<listed, matrix, tester, told>>
         /\ \/ \E i \in Items : on[i] # 0 /\ on' = [on EXCEPT ![i] = @ + 1] /\ UNCHANGED row
            \/ \E r \in Rows : /\ row[r].point # Gone
                               /\ row' = [row EXCEPT ![r].point.stage = "other"] /\ UNCHANGED on

Commands(c) == \/ Begin(c, "prepare", <<>>, "own")
               \/ \E todo \in {listed} \cup {<<r>> : r \in Rows}, host \in Options :
                     Begin(c, "run", todo, host)
               \/ \E r \in Rows \ Plain : Begin(c, "resume", <<r>>, "own")
Steps(c) == \/ Identify(c) \/ Stage(c) \/ RecordMatrix(c)
            \/ Look(c) \/ Retire(c) \/ Claim(c) \/ SignIn(c) \/ Phase(c) \/ Fail(c)
            \/ Launch(c) \/ Poll(c) \/ Terminate(c) \/ Judge(c) \/ Seal(c) \/ Finish(c)
            \/ Read(c) \/ Admit(c) \/ Move(c) \/ Copy(c) \/ WriteCross(c) \/ Restoration(c)
MatrixNext == \/ \E c \in Testers : Commands(c) \/ Steps(c) \/ Ends(c) \/ Kill(c)
              \/ \E r \in Rows : Works(r) \/ LooseEnds(r)
              \/ Drift

-----------------------------------------------------------------------------
\* report: what the last word on a row says.
Passes(r) == IF row[r].cross # "none" THEN row[r].cross = "passed" ELSE row[r].result.status = "passed"

Went(r, phase) == {i \in DOMAIN told[r] : told[r][i].phase = phase}
Good(r, i)     == told[r][i].whole

\* A row the report passes (native_workflow_trials.py:298) went as it says, on the
\* package and the tools of the matrix, although commands and agents of killed
\* commands share its directory: planned, stopped at a red checkpoint, and
\* completed with that checkpoint by the host it was meant for; a continuation by
\* the other host began from exactly the tree the first one was stopped in.  And
\* no two agents are ever at work in one workspace (run_session's directories).
MatrixHonest ==
    /\ \A r \in Rows : Passes(r) =>
          IF r \in Plain THEN \E i \in Went(r, "unsupported") : Good(r, i)
          ELSE LET last == IF row[r].cross # "none" THEN "cross" ELSE "resume" IN
               \E i \in Went(r, "plan"), j \in Went(r, "implement"), k \in Went(r, last) :
                  /\ i < j /\ j < k /\ \A n \in {i, j, k} : Good(r, n)
                  /\ told[r][j].left.stage = "red" /\ told[r][k].found = told[r][j].left
                  /\ told[r][k].left = [stage |-> "done", mark |-> told[r][j].left.mark]
                  /\ told[r][k].host = ResumeHost(r)
    /\ \A r \in Rows : Cardinality({c \in Testers : tester[c].child = "alive" /\ TheRow(c) = r})
                          + (IF row[r].loose THEN 1 ELSE 0) <= 1
=============================================================================
