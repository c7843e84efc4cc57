----------------------------- MODULE StateFirst -----------------------------
(***************************************************************************)
(* State-first plans (state_first.py): plan.md holds the rows, status.json *)
(* what became of each section and the last full suite, and a snapshot the *)
(* tree at the last status write.  Commands take the state lock one after  *)
(* the other, except that setup decides before it whether there is a plan  *)
(* and reports are read without it.  The user edits files and rows at any  *)
(* time, checks take their time, and a command may be killed anywhere.     *)
(***************************************************************************)
EXTENDS Naturals, Sequences

CONSTANTS Writers,      \* processes of commands that change the plan
          Readers,      \* processes of commands that only report
          Sections,     \* rows plan.md can have
          Kinds,        \* what a row asks for: a subset of plain, risky, public
          Versions,     \* contents of the file of a section
          MaxJobs,      \* bound: commands started
          MaxEdits      \* bound: edits by the user

VARIABLES files,        \* the file of each section
          drafted,      \* whether there is a plan.md
          rows,         \* plan.md: what the row of a section asks for, or "none"
          inside,       \* whether the target contains the planning directory
          status,       \* status.json
          snapshot,     \* the files at the last status write
          lock,         \* the command that holds the state lock, or NoCommand
          cmd,          \* the commands
          proven,       \* history: trees on which the full suite passed undisturbed
          begun,        \* history: sections that were active or done
          used          \* jobs and edits so far
stateVars == <<files, drafted, rows, inside, status, snapshot, lock, cmd, proven, begun, used>>

NoCommand == "nobody"
Callers   == Writers \cup Readers
NoRows    == [s \in Sections |-> "none"]
NoFiles   == [s \in Sections |-> 0]
Planned   == {s \in Sections : rows[s] # "none"}
\* observe_tree: plan.md is observed if the target contains it.
Tree   == [files |-> files, rows |-> IF inside THEN rows ELSE NoRows]
NoTree == [files |-> NoFiles, rows |-> NoRows]

NoBaseline == [outcome |-> "none", at |-> 0, origin |-> 0]
NoEntry  == [state |-> "none", origin |-> 0, red |-> FALSE, baseline |-> NoBaseline,
             check |-> "none", asked |-> "none"]
NoFinal  == [outcome |-> "none", tree |-> NoTree]
NoStatus == [there |-> FALSE, sections |-> [s \in Sections |-> NoEntry], final |-> NoFinal]
Known    == {s \in Sections : status.sections[s].state # "none"}
Begun(st) == {s \in Sections : st.sections[s].state \in {"active", "done"}}

NoReport == [rows |-> {}, known |-> {}, begun |-> {}, done |-> {}, final |-> NoFinal,
             tree |-> NoTree]
Resting == [kind |-> "none", stage |-> "none", section |-> 0, at |-> "none", first |-> FALSE,
            asked |-> "none", origin |-> 0, before |-> NoTree, looks |-> <<>>,
            report |-> NoReport, complete |-> FALSE]

StateInit ==
    /\ files = [s \in Sections |-> 1]
    /\ drafted = FALSE /\ rows = NoRows
    /\ inside \in BOOLEAN
    /\ status = NoStatus /\ snapshot = NoFiles
    /\ lock = NoCommand /\ cmd = [c \in Callers |-> Resting]
    /\ proven = {} /\ begun = {}
    /\ used = [jobs |-> 0, edits |-> 0]

User   == UNCHANGED <<files, drafted, rows, inside>>
Idle(c) == cmd[c].at = "none"
At(c, at) == cmd[c].at = at
Set(c, j) == cmd' = [cmd EXCEPT ![c] = j]
\* Only what was called complete is remembered.
Ends(c, over) == /\ Set(c, over)
                 /\ lock' = IF lock = c THEN NoCommand ELSE lock

-----------------------------------------------------------------------------
\* The commands: plan-setup, implement-progress, implement-verify and the two
\* that only read, status and postflight.  All but setup need an active plan.
Stages == {"started", "red", "baseline", "done", "checked"}
Looks  == [report |-> <<"plan", "status", "tree">>, status |-> <<"status", "tree", "plan">>]

Start(c, job, at, looks) ==
    /\ Idle(c) /\ used.jobs < MaxJobs
    /\ Set(c, [job EXCEPT !.at = at, !.looks = looks, !.first = ~status.there])
    /\ used' = [used EXCEPT !.jobs = @ + 1]
    /\ User /\ UNCHANGED <<status, snapshot, lock, proven, begun>>
Begin(c) ==
    \/ /\ c \in Writers
       /\ \/ /\ status.there \/ ~drafted      \* _existing_plan
             /\ Start(c, [Resting EXCEPT !.kind = "setup"], "lock", <<>>)
          \/ /\ status.there
             /\ \E s \in Sections, stage \in Stages :
                   Start(c, [Resting EXCEPT !.kind = "progress", !.section = s,
                                            !.stage = stage], "lock", <<>>)
          \/ status.there /\ Start(c, [Resting EXCEPT !.kind = "finish"], "lock", <<>>)
    \/ /\ c \in Readers /\ status.there
       /\ \E kind \in DOMAIN Looks :
             Start(c, [Resting EXCEPT !.kind = "report"], "look", Looks[kind])

Lock(c) == /\ At(c, "lock") /\ lock = NoCommand
           /\ lock' = c /\ Set(c, [cmd[c] EXCEPT !.at = "in"])
           /\ User /\ UNCHANGED <<status, snapshot, proven, begun, used>>

\* write_status: the status, then the snapshot of the tree it was written for.
Write(c, st, j) ==
    /\ status' = st /\ begun' = begun \cup Begun(st)
    /\ Set(c, [Resting EXCEPT !.kind = j.kind, !.at = "snapshot", !.before.files = files])
    /\ User /\ UNCHANGED <<snapshot, lock, used>>

Snapshot(c) ==
    /\ At(c, "snapshot") /\ snapshot' = cmd[c].before.files
    /\ IF cmd[c].kind = "finish"
       THEN /\ Set(c, [cmd[c] EXCEPT !.at = "look", !.looks = Looks["report"]])
            /\ lock' = NoCommand
       ELSE Ends(c, Resting)
    /\ User /\ UNCHANGED <<status, proven, begun, used>>

\* A draft of plan.md has no row that would do; it is there before the status is.
Draft(c) == /\ At(c, "in") /\ cmd[c].kind = "setup" /\ ~drafted
            /\ drafted' = TRUE
            /\ UNCHANGED <<files, rows, inside, status, snapshot, lock, cmd, proven, begun, used>>

\* plan_setup under the lock, _sync: only pending sections may leave.  A new plan
\* gets its status even if the rows still need work.
Base(c)     == IF cmd[c].first THEN [NoStatus EXCEPT !.there = TRUE] ELSE status
Orphans(st) == Begun(st) \ Planned
Synced(st)  == [st EXCEPT !.sections =
                   [s \in Sections |-> IF s \notin Planned THEN NoEntry
                                       ELSE IF @[s].state = "none"
                                            THEN [NoEntry EXCEPT !.state = "pending"]
                                            ELSE @[s]]]
Setup(c) ==
    /\ At(c, "in") /\ cmd[c].kind = "setup" /\ drafted
    /\ LET old == Base(c)
           new == IF Planned = {} \/ Orphans(old) # {} THEN old ELSE Synced(old)
       IN  IF cmd[c].first \/ new # old THEN Write(c, new, cmd[c]) /\ UNCHANGED proven
           ELSE /\ Ends(c, Resting)
                /\ User /\ UNCHANGED <<status, snapshot, proven, begun, used>>

-----------------------------------------------------------------------------
Entry(c)  == status.sections[cmd[c].section]
File(c)   == files[cmd[c].section]
\* A section that is not active yet starts from the files of the last status write.
Origin(c) == IF Entry(c).state = "active" THEN Entry(c).origin
             ELSE IF snapshot = NoFiles THEN File(c) ELSE snapshot[cmd[c].section]
HasBaseline(c) == Entry(c).baseline.outcome = "passed"

\* _edited_sources
Unedited(c) == File(c) = Origin(c)

\* _evidence_gaps, for a row with a reason.
Evidence(c) == /\ cmd[c].stage = "checked"
               /\ IF rows[cmd[c].section] = "public" THEN HasBaseline(c)
                  ELSE Entry(c).red \/ HasBaseline(c)
\* _progress, up to the check; "checked" is done with a check.
Allowed(c) ==
    LET s == cmd[c].section stage == cmd[c].stage IN
    /\ s \in Planned \cap Known
    /\ stage = "baseline" => Unedited(c)
    /\ stage = "done" => ~HasBaseline(c)
    /\ stage \in {"done", "checked"} /\ rows[s] # "plain" => Evidence(c)

\* The entry e after the job j, with the result of its check if it has one.
Updated(j, e, outcome) ==
    LET active == [e EXCEPT !.origin = j.origin, !.state = "active"] IN
    CASE j.stage = "started"  -> active
      [] j.stage = "red"      -> [active EXCEPT !.red = TRUE]
      [] j.stage = "done"     -> [active EXCEPT !.state = "done", !.asked = j.asked]
      [] j.stage = "baseline" -> [active EXCEPT !.baseline =
              [outcome |-> outcome, at |-> j.before.files[j.section], origin |-> j.origin]]
      [] j.stage = "checked"  -> [active EXCEPT !.check = outcome, !.asked = j.asked,
                                     !.state = IF outcome = "passed" THEN "done" ELSE @]
Progress(c) ==
    /\ At(c, "in") /\ cmd[c].kind = "progress" /\ Allowed(c)
    /\ LET j == [cmd[c] EXCEPT !.asked = rows[cmd[c].section], !.origin = Origin(c),
                               !.before = Tree]
       IN  IF j.stage \in {"baseline", "checked"}
           THEN /\ Set(c, [j EXCEPT !.at = "run"])
                /\ User /\ UNCHANGED <<status, snapshot, lock, begun, used>>
           ELSE Write(c, [status EXCEPT !.sections[j.section] = Updated(j, Entry(c), "none")], j)
    /\ UNCHANGED proven

\* finish: the full suite
Suite(c) ==
    /\ At(c, "in") /\ cmd[c].kind = "finish"
    /\ Set(c, [cmd[c] EXCEPT !.before = Tree, !.at = "run"])
    /\ User /\ UNCHANGED <<status, snapshot, lock, proven, begun, used>>

\* capture: edits during the run fail it.
Outcome(c, passed) == IF passed /\ Tree = cmd[c].before THEN "passed" ELSE "failed"

Ran(c, passed) ==
    /\ At(c, "run")
    /\ proven' = IF passed /\ Tree = cmd[c].before /\ cmd[c].kind = "finish"
                 THEN proven \cup {Tree} ELSE proven
    /\ LET o == Outcome(c, passed) IN
       Write(c, IF cmd[c].kind = "finish"
                THEN [status EXCEPT !.final = [outcome |-> o, tree |-> cmd[c].before]]
                ELSE [status EXCEPT !.sections[cmd[c].section] =
                          Updated(cmd[c], Entry(c), o)], cmd[c])

-----------------------------------------------------------------------------
\* postflight_report and status_payload read plan, status and tree one by one.
Look(c) ==
    /\ At(c, "look") /\ cmd[c].looks # <<>>
    /\ LET r == cmd[c].report IN
       Set(c, [cmd[c] EXCEPT !.looks = Tail(@), !.report =
           CASE Head(cmd[c].looks) = "plan"   -> [r EXCEPT !.rows = Planned]
             [] Head(cmd[c].looks) = "tree"   -> [r EXCEPT !.tree = Tree]
             [] Head(cmd[c].looks) = "status" ->
                  [r EXCEPT !.known = Known, !.begun = Begun(status), !.final = status.final,
                     !.done = {s \in Sections : status.sections[s].state = "done"}]])
    /\ User /\ UNCHANGED <<status, snapshot, lock, proven, begun, used>>

\* Slip: a suite that passed is good for every later tree.
CurrentSlip(r) == r.final.outcome = "passed"
\* final_error
Current(r) == r.final.outcome = "passed" /\ r.final.tree = r.tree
Complete(r) == /\ r.rows # {} /\ r.rows \subseteq r.known
               /\ r.begun \subseteq r.rows /\ r.rows \subseteq r.done
               /\ Current(r)
Answer(c) ==
    /\ At(c, "look") /\ cmd[c].looks = <<>>
    /\ Ends(c, [Resting EXCEPT !.complete = Complete(cmd[c].report),
                               !.report = IF Complete(cmd[c].report) THEN cmd[c].report ELSE @])
    /\ User /\ UNCHANGED <<status, snapshot, proven, begun, used>>

\* A refusal, a lock that stays taken, an error of the system, or a kill.
Stop(c) == /\ ~Idle(c) /\ Ends(c, Resting)
           /\ User /\ UNCHANGED <<status, snapshot, proven, begun, used>>

\* The user edits the file of a section or the rows of the plan.
Edit ==
    /\ used.edits < MaxEdits /\ used' = [used EXCEPT !.edits = @ + 1]
    /\ \E s \in Sections :
         \/ \E v \in Versions \ {files[s]} : files' = [files EXCEPT ![s] = v] /\ UNCHANGED rows
         \/ drafted /\ \E k \in (Kinds \cup {"none"}) \ {rows[s]} :
               rows' = [rows EXCEPT ![s] = k] /\ UNCHANGED files
    /\ UNCHANGED <<drafted, inside, status, snapshot, lock, cmd, proven, begun>>

StateNext ==
    \/ \E c \in Callers :
         \/ Begin(c) \/ Lock(c) \/ Draft(c) \/ Setup(c) \/ Progress(c) \/ Suite(c) \/ Snapshot(c)
         \/ Look(c) \/ Answer(c) \/ Stop(c)
         \/ \E passed \in BOOLEAN : Ran(c, passed)
    \/ Edit

StateSpec == StateInit /\ [][StateNext]_stateVars

-----------------------------------------------------------------------------
(***************************************************************************)
(* A plan is called complete only if its full suite passed on the very     *)
(* tree that was looked at for the answer, and nothing changed while it    *)
(* ran; and a section done under a row that asks for evidence has it: its  *)
(* check passed, and for a public interface a baseline had passed on the   *)
(* files as they were before the section.  (state_first.py:310-405)        *)
(***************************************************************************)
CompleteIsTrue ==
    /\ \A c \in Callers :
         cmd[c].complete => cmd[c].report.tree \in proven
    /\ \A s \in Sections :
         LET e == status.sections[s] IN
         e.state = "done" /\ e.asked # "plain" =>
           /\ e.check = "passed"
           /\ e.red \/ e.baseline.outcome = "passed"
           /\ e.asked = "public" => /\ e.baseline.outcome = "passed"
                                    /\ e.baseline.at = e.baseline.origin

(***************************************************************************)
(* "active and done sections cannot leave the plan" (state-first.md:34;    *)
(* _sync and orphaned say the same).                                       *)
(***************************************************************************)
BegunStay == begun \subseteq Known
=============================================================================
