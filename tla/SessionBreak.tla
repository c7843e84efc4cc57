---------------------------- MODULE SessionBreak ----------------------------
(***************************************************************************)
(* Session-break trials (tools/session_break_trials.py): each attempt of a *)
(* matrix is made once, in two sessions, and while the second one runs the *)
(* rest of the matrix is kept from it by file modes.  What the modes were  *)
(* is recorded first, so that a later command can undo them after a kill.  *)
(* A lock file makes runs serial; it outlives a killed run, and the user   *)
(* deletes it when no run is active.  `report` takes no lock.              *)
(* A session is a process group of its own: it outlives a harness that is  *)
(* killed, and one that cannot be stopped outlives its deadline too.       *)
(*                                                                         *)
(* A path is an attempt's directory, what an attempt's first session left, *)
(* or the report.                                                          *)
(***************************************************************************)
EXTENDS Naturals, FiniteSets, Sequences, TLC

CONSTANTS Attempts, Runners,
          MaxCommands              \* bound: commands begun

VARIABLES attempt,   \* the evidence of each attempt
          shut,      \* paths nobody can read now
          record,    \* hidden-modes.json: "none", "torn", or the modes
          held,      \* run.lock is there
          runner,    \* the command of each process
          orphans,   \* sessions that may be at work and no command waits for
          reported,  \* report.json: "none", or whether it has all attempts ended
          launched,  \* history: sessions ever started, of each attempt
          commands   \* commands begun
breakVars == <<attempt, shut, record, held, runner, orphans, reported, launched, commands>>

Resting == [at |-> "idle", kind |-> "none", item |-> "none", ended |-> "none",
            view |-> "none"]
Fresh   == [status |-> "pending", sessions |-> <<>>, point |-> 0, judged |-> 0]
Report  == <<"report">>
First(a) == <<a, "first">>      \* SESSION_ONE
Whole(a) == <<a, "trial">>
NoRecord == [file |-> "none", modes |-> <<>>]
Disturbed == 3                  \* a workspace an orphan has written to

BreakInit == /\ attempt = [a \in Attempts |-> Fresh] /\ shut = {} /\ record = NoRecord
             /\ held = FALSE /\ runner = [r \in Runners |-> Resting] /\ reported = "none"
             /\ orphans = {}
             /\ launched = [a \in Attempts |-> <<0, 0>>] /\ commands = 0

In(r, place)   == runner[r].at = place
Move(r, place) == runner' = [runner EXCEPT ![r].at = place]
Item(r)        == runner[r].item
Quietly        == UNCHANGED <<attempt, orphans, launched, commands, reported>>

-----------------------------------------------------------------------------
Begin(r, kind) ==
    /\ In(r, "idle") /\ commands < MaxCommands /\ commands' = commands + 1
    /\ runner' = [runner EXCEPT ![r] = [Resting EXCEPT !.kind = kind,
                     !.at = IF kind = "report" THEN "rows" ELSE "lock"]]
    /\ UNCHANGED <<attempt, shut, record, held, orphans, launched, reported>>

\* locked: the file is created exclusively, or the command refuses.
Lock(r) == /\ In(r, "lock")
           /\ \/ ~held /\ held' = TRUE /\ Move(r, "undo")
              \/ held /\ UNCHANGED held /\ runner' = [runner EXCEPT ![r] = Resting]
           /\ UNCHANGED <<shut, record>> /\ Quietly

\* restore_hidden: one chmod after the other, and the record goes last.
Differs(p) == record.modes[p] # IF p \in shut THEN "shut" ELSE "open"
Chmod(r) ==
    /\ In(r, "undo") \/ In(r, "show")
    /\ record.file = "whole"
    /\ \E p \in DOMAIN record.modes :
          /\ Differs(p)
          /\ shut' = IF record.modes[p] = "shut" THEN shut \cup {p} ELSE shut \ {p}
    /\ UNCHANGED <<record, held, runner>> /\ Quietly

Restored     == record.file = "whole" => \A p \in DOMAIN record.modes : ~Differs(p)

\* Slip: a run that finds modes recorded goes on without restoring them.
UndoneSlip(r) == record.file # "torn" /\ UNCHANGED record
Undone(r)     == record.file # "torn" /\ Restored /\ record' = NoRecord

Undo(r) == /\ In(r, "undo") /\ Undone(r)
           /\ Move(r, IF runner[r].kind = "run" THEN "pick" ELSE "again")
           /\ UNCHANGED <<shut, held>> /\ Quietly

Pick(r) ==
    /\ In(r, "pick")
    /\ LET left == {a \in Attempts : attempt[a].status = "pending"}
       IN \/ /\ left = {} /\ Move(r, "unlock") /\ UNCHANGED <<attempt, launched>>
          \/ \E a \in left :
                /\ attempt' = [attempt EXCEPT ![a].status = "running"]
                /\ runner' = [runner EXCEPT ![r].at = "first", ![r].item = a]
                /\ launched' = [launched EXCEPT ![a][1] = @ + 1]
    /\ UNCHANGED <<shut, record, held, orphans, reported, commands>>

\* A session is over by itself or by its time, or it failed; its files move aside.  Of one
\* that is stuck or broken, something could not be stopped, as its result says.
Ending    == {"over", "failed", "stuck", "broken"}
Failed    == {"failed", "broken"}
Unstopped == {"broken", "stuck"}

\* A workspace is as its last session left it, unless an orphan has written to it.
Untouched(a) == \A s \in orphans : s[1] # a
Found(a)     == {Len(attempt[a].sessions)} \cup IF Untouched(a) THEN {} ELSE {Disturbed}

\* The session that r waits for.  It becomes an orphan when it cannot be stopped, or
\* when nobody is left to stop it; how long it works on is not told.
Session(r) == {s \in {Item(r)} \X {1, 2} : In(r, IF s[2] = 1 THEN "first" ELSE "second")}
Leaves(r)  == orphans' = orphans \cup Session(r)
Stops(r, how) == IF how \in Unstopped THEN Leaves(r) ELSE UNCHANGED orphans
FirstSession(r, how) ==
    /\ In(r, "first")
    /\ attempt' = [attempt EXCEPT ![Item(r)].sessions = <<how>>]
    /\ Move(r, IF how \in Failed THEN "outcome" ELSE "point") /\ Stops(r, how)
    /\ UNCHANGED <<shut, record, held, launched, commands, reported>>

Checkpoint(r) ==
    /\ In(r, "point")
    /\ \E tree \in Found(Item(r)) : attempt' = [attempt EXCEPT ![Item(r)].point = tree]
    /\ Move(r, "hide")
    /\ UNCHANGED <<shut, record, held, orphans, launched, commands, reported>>

\* hidden: everything but the attempt itself, the record and the lock.
Hidden(a) == {First(a)} \cup {Whole(b) : b \in Attempts \ {a}}
             \cup IF reported # "none" THEN {Report} ELSE {}
RecordModes(r) ==
    /\ In(r, "hide")
    /\ record' = [file |-> "whole", modes |-> [p \in Hidden(Item(r)) |->
                    IF p \in shut THEN "shut" ELSE "open"]]
    /\ Move(r, "shut")
    /\ UNCHANGED <<shut, held>> /\ Quietly

Shut(r) ==
    /\ In(r, "shut")
    /\ LET left == DOMAIN record.modes \ shut
       IN \/ /\ left # {} /\ \E p \in left : shut' = shut \cup {p}
             /\ UNCHANGED <<runner, launched>>
          \/ /\ left = {} /\ Move(r, "second") /\ UNCHANGED shut
             /\ launched' = [launched EXCEPT ![Item(r)][2] = @ + 1]
    /\ UNCHANGED <<attempt, record, held, orphans, commands, reported>>

SecondSession(r, how) ==
    /\ In(r, "second")
    /\ attempt' = [attempt EXCEPT ![Item(r)].sessions = Append(@, how)]
    /\ Move(r, "show") /\ Stops(r, how)
    /\ UNCHANGED <<shut, record, held, launched, commands, reported>>

Show(r) ==
    /\ In(r, "show") /\ Restored /\ record' = NoRecord
    /\ Move(r, IF runner[r].ended = "stopped" THEN "unlock" ELSE "outcome")
    /\ UNCHANGED <<shut, held>> /\ Quietly

\* An exception inside the attempt, the restoring included: an error.  The session is
\* terminated, whether that succeeds or not.
Raise(r) ==
    /\ \E place \in {"first", "point", "hide", "shut", "second", "show"} : In(r, place)
    /\ runner' = [runner EXCEPT ![r].ended = "error",
                     ![r].at = IF In(r, "shut") \/ In(r, "second") THEN "show" ELSE "outcome"]
    /\ Leaves(r) \/ UNCHANGED orphans
    /\ UNCHANGED <<attempt, shut, record, held, launched, commands, reported>>

\* finish_attempt and the last write of attempt.json; a bad one halts the run,
\* and a run asked for one attempt ends with it.
Outcome(r) ==
    /\ In(r, "outcome")
    /\ \E problem \in BOOLEAN, tree \in Found(Item(r)) :
         LET sessions == attempt[Item(r)].sessions
             bad      == runner[r].ended = "error" \/ (problem /\ sessions # <<>>)
             failed   == \E n \in DOMAIN sessions : sessions[n] \in Failed
         IN /\ attempt' = [attempt EXCEPT ![Item(r)].status = IF bad THEN "error" ELSE "completed",
                                          ![Item(r)].judged = IF Len(sessions) = 2 /\ ~problem THEN tree ELSE 0]
            /\ \E next \in {"pick", "unlock"} :
                  /\ bad \/ failed => next = "unlock"
                  /\ runner' = [runner EXCEPT ![r].at = next, ![r].item = "none", ![r].ended = "none"]
    /\ UNCHANGED <<shut, record, held, orphans, launched, commands, reported>>

Ended(a) == attempt[a].status \in {"completed", "error"}

\* analyze: attempts that ended, or one of them, are judged again; what fails is left.
Analyze(r) ==
    /\ In(r, "again") /\ Move(r, "unlock")
    /\ \E trees \in [Attempts -> {0, 2, Disturbed}] :
          /\ \A a \in Attempts : trees[a] # attempt[a].judged =>
                Ended(a) /\ Len(attempt[a].sessions) = 2 /\ trees[a] \in Found(a)
          /\ attempt' = [a \in Attempts |-> [attempt[a] EXCEPT !.judged = trees[a]]]
    /\ UNCHANGED <<shut, record, held, orphans, launched, commands, reported>>

Unlock(r) == /\ In(r, "unlock") /\ held' = FALSE /\ Move(r, "rows")
             /\ UNCHANGED <<shut, record>> /\ Quietly

\* report: an attempt that cannot be read counts as pending; a shut report stays.
Rows(r) ==
    /\ In(r, "rows")
    /\ runner' = [runner EXCEPT ![r].at = "write", ![r].view =
                    IF \A a \in Attempts : Whole(a) \notin shut /\ Ended(a) THEN "complete" ELSE "partial"]
    /\ UNCHANGED <<shut, record, held>> /\ Quietly
WriteReport(r) ==
    /\ In(r, "write") /\ runner' = [runner EXCEPT ![r] = Resting]
    /\ reported' = IF Report \in shut THEN reported ELSE runner[r].view
    /\ UNCHANGED <<attempt, shut, record, held, orphans, launched, commands>>

-----------------------------------------------------------------------------
Works == {"undo", "again", "pick", "first", "point", "hide", "shut", "second", "show", "outcome"}

\* A signal, or a call that fails, unwinds what is open and releases the lock.
Interrupt(r) ==
    /\ runner[r].at \in Works
    /\ runner' = [runner EXCEPT ![r].ended = "stopped",
                     ![r].at = IF In(r, "shut") \/ In(r, "second") THEN "show" ELSE "unlock"]
    /\ Leaves(r) \/ UNCHANGED orphans
    /\ UNCHANGED <<attempt, shut, record, held, launched, commands, reported>>

\* A kill leaves all as it is, the session at work and perhaps half of the record it
\* was writing.
Kill(r) ==
    /\ ~In(r, "idle") /\ runner' = [runner EXCEPT ![r] = Resting]
    /\ record' \in {record} \cup IF In(r, "hide") THEN {[NoRecord EXCEPT !.file = "torn"]} ELSE {}
    /\ Leaves(r) /\ UNCHANGED <<attempt, shut, held, launched, commands, reported>>

\* The user: a lock nobody holds is deleted, as its message says, and so is half a
\* record.  The lock names the harness only, so sessions may still be at work.
Clear == /\ \A r \in Runners : In(r, "idle")
         /\ held \/ record.file = "torn"
         /\ held' = FALSE /\ record' = IF record.file = "torn" THEN NoRecord ELSE record
         /\ UNCHANGED <<shut, runner>> /\ Quietly

RunsOn(r) == \/ Lock(r) \/ Chmod(r) \/ Undo(r) \/ Pick(r) \/ Checkpoint(r) \/ RecordModes(r)
             \/ Shut(r) \/ Show(r) \/ Raise(r) \/ Outcome(r) \/ Analyze(r) \/ Unlock(r)
             \/ Rows(r) \/ WriteReport(r)
             \/ \E how \in Ending : FirstSession(r, how) \/ SecondSession(r, how)

BreakNext == \/ \E r \in Runners : RunsOn(r) \/ Interrupt(r) \/ Kill(r)
             \/ \E r \in Runners, kind \in {"run", "analyze", "report"} : Begin(r, kind)
             \/ Clear

-----------------------------------------------------------------------------
AllStopped(a) == \A n \in DOMAIN attempt[a].sessions : attempt[a].sessions[n] \notin Unstopped

(* session_break_trials.py:273 and 290.  However runs are interrupted and  *)
(* killed, and whatever sessions outlive them: while a second session runs *)
(* under its command, no other command has one, and what other attempts    *)
(* and its own first session left is shut (a report another process writes *)
(* meanwhile is not); a path is shut only while a record says how to open  *)
(* it; no session of an attempt is ever started twice, although its orphan *)
(* works on and the lock was deleted; a report in which all attempts ended *)
(* is true of all; and an attempt that counts as completed was never       *)
(* abandoned: unless its record says that a session could not be stopped,  *)
(* no orphan is at its workspace, its checkpoint holds what the first      *)
(* session left, and only what the last one left was ever judged.          *)
BreakSound ==
    /\ \A r \in Runners : In(r, "second") =>
          /\ {First(Item(r))} \cup {Whole(b) : b \in Attempts \ {Item(r)}} \subseteq shut
          /\ \A q \in Runners \ {r} : ~In(q, "first") /\ ~In(q, "second")
    /\ \A p \in shut : record.file = "whole" /\ p \in DOMAIN record.modes /\ record.modes[p] = "open"
    /\ \A a \in Attempts :
          /\ launched[a][1] <= 1 /\ launched[a][2] <= 1
          /\ reported = "complete" => Ended(a)
          /\ attempt[a].status = "completed" =>
                /\ launched[a] = <<1, Len(attempt[a].sessions) - 1>>
                /\ AllStopped(a) =>
                      /\ Untouched(a) /\ attempt[a].judged \in {0, 2}
                      /\ Len(attempt[a].sessions) = 2 => attempt[a].point = 1
=============================================================================
