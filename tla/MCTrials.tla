------------------------------- MODULE MCTrials -------------------------------
(***************************************************************************)
(* The trials of the harness, on small instances: an attempt of a coding   *)
(* trial, the reviews that follow it, the session-break trials and the     *)
(* native matrix.  They share no state, so a behaviour is one of one of    *)
(* them: `which` says of which, and the variables of the others stay as    *)
(* they began.                                                             *)
(***************************************************************************)
EXTENDS Naturals, Sequences, FiniteSets, TLC

CONSTANTS c, d, Processes, k1, k2, BreakAttempts, BreakCommands,
          AttemptJobs, LastRow, ReviewJobs, FormEdits,
          ForBoth, Declines, ResumeOptions

\* Nobody is called as the locks are when nobody has them, a suite has a first row, and
\* --resume-host takes the names of the hosts.
ASSUME TrialsAssumption == /\ Processes \cap {"free", "left"} = {} /\ LastRow \in Nat \ {0}
                           /\ ResumeOptions \subseteq {"own", "codex", "claude"}

VARIABLES which,
          record, reserved, evidence, lock, roots, alive, inputs, receipt, packaged, proc,
          launches, candidate, jobs,
          history, folders, returned, packets, blinds, form, applications, reviewers, reviewUsed,
          attempt, shut, modes, held, runner, orphans, reported, launched, commands,
          listed, matrix, on, row, tester, told, moves

\* One row for both hosts, or two rows that are to decline, and what may happen there.
Moves == [list \in {<<1>>, <<2, 3>>} |-> IF list = <<1>> THEN 3 ELSE 2]

T == INSTANCE TrialAttempt WITH Callers <- Processes, MaxJobs <- AttemptJobs
R == INSTANCE TrialReview WITH Callers <- Processes, LastPosition <- LastRow,
         MaxReviewJobs <- ReviewJobs, MaxFormEdits <- FormEdits,
         proc <- reviewers, used <- reviewUsed
S == INSTANCE SessionBreak WITH Attempts <- BreakAttempts, Runners <- Processes,
         MaxCommands <- BreakCommands, record <- modes
M == INSTANCE NativeMatrix WITH Testers <- Processes, Direct <- ForBoth, Plain <- Declines,
         Lists <- DOMAIN Moves, Options <- ResumeOptions, MaxMoves <- Moves

attemptVars == <<record, reserved, evidence, lock, roots, alive, inputs, receipt, packaged, proc,
                 launches, candidate, jobs>>
reviewVars  == <<history, folders, returned, packets, blinds, form, applications, reviewers,
                 reviewUsed>>
breakVars   == <<attempt, shut, modes, held, runner, orphans, reported, launched, commands>>
matrixVars  == <<listed, matrix, on, row, tester, told, moves>>
vars == <<which, attemptVars, reviewVars, breakVars, matrixVars>>

\* The trials that are not looked at stay in one of their initial states.
Init == /\ which \in {"attempt", "review", "break", "matrix"}
        /\ T!AttemptInit
        /\ R!ReviewInit /\ \A p \in R!Positions : R!BehaviorOk(p)
        /\ S!BreakInit
        /\ M!MatrixInit /\ (which # "matrix" => listed = <<1>> /\ matrix = M!NoMatrix)

Next == \/ which = "attempt" /\ T!AttemptNext
           /\ UNCHANGED <<which, reviewVars, breakVars, matrixVars>>
        \/ which = "review" /\ R!ReviewNext
           /\ UNCHANGED <<which, attemptVars, breakVars, matrixVars>>
        \/ which = "break" /\ S!BreakNext
           /\ UNCHANGED <<which, attemptVars, reviewVars, matrixVars>>
        \/ which = "matrix" /\ M!MatrixNext
           /\ UNCHANGED <<which, attemptVars, reviewVars, breakVars>>

Spec == Init /\ [][Next]_vars

TrialSymmetry == Permutations({c, d}) \cup Permutations({k1, k2})

\* The trials of a suite, and the trials of sessions.
SuiteHonest    == /\ which = "attempt" => T!AttemptSound
                  /\ which = "review" => R!ReviewHonest
SessionsHonest == /\ which = "break" => S!BreakSound
                  /\ which = "matrix" => M!MatrixHonest
=============================================================================
