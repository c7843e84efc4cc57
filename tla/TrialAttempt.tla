---------------------------- MODULE TrialAttempt ----------------------------
(***************************************************************************)
(* One attempt of a native coding trial (coding_trial_suite.py,            *)
(* _run_attempt): a fresh trial is prepared and reserved, its loading      *)
(* phase runs the host once to see that it loads, the roots are restored   *)
(* and only then does the writer phase run; what it wrote is frozen.       *)
(* Phases are also open to callers of their own (coding_trial_runner.py),  *)
(* each of which may be interrupted or killed anywhere, while a container  *)
(* whose cleanup was not verified goes on writing.                         *)
(***************************************************************************)
EXTENDS Naturals, Sequences

CONSTANTS Callers,   \* processes
          MaxJobs    \* bound: jobs in a run

VARIABLES record,    \* status in trial.json; dir: the directory only
          reserved,  \* private/reservation.json is there
          evidence,  \* evidence directories that exist
          lock,      \* execution.lock: its caller, Free or Left
          roots,     \* who has written to the mutable roots since they were snapshot
          alive,     \* phases a container of which may still write
          inputs,    \* version of the frozen inputs, 1 as the study has them
          receipt,   \* what private/loading/qualification.json says
          packaged,  \* the derived suite with the loading receipt is there
          proc,      \* the callers
          launches,  \* the inputs of each start of the writer
          candidate, \* marks in the frozen candidate
          jobs       \* jobs begun
disk        == <<record, reserved, evidence, lock, receipt, packaged, candidate>>
outside     == <<roots, alive, inputs>>
attemptVars == <<disk, outside, proc, launches, jobs>>

Free == "free"
Left == "left"
Phases == {"loading", "writer"}
Study  == 1
NoCandidate == {"none"}
Idle == [job |-> "none", phase |-> "loading", at |-> "idle", base |-> Study, stage |-> 0,
         clean |-> TRUE, fine |-> TRUE]
\* Readbacks of image and versions come first, the host itself is last.
LastStage == 2

AttemptInit ==
    /\ record = "none" /\ reserved = FALSE /\ evidence = {} /\ lock = Free
    /\ roots = {} /\ alive = {} /\ inputs = Study /\ receipt = "none" /\ packaged = FALSE
    /\ proc = [c \in Callers |-> Idle] /\ launches = <<>> /\ candidate = NoCandidate /\ jobs = 0

At(c, place)    == proc[c].at = place
Step(c, new)    == proc' = [proc EXCEPT ![c] = new]
GoTo(c, place)  == proc' = [proc EXCEPT ![c].at = place]
Phase(c)        == proc[c].phase
\* What a failure leads to: the lock is given back first.
Fails(c)        == proc' = [proc EXCEPT ![c].at = IF lock = c THEN "release" ELSE "leave",
                                        ![c].fine = FALSE]
\* _check_reservation: the trial is as it was reserved.
Bound           == reserved /\ record = "running"
Guarded(c)      == Bound /\ inputs = proc[c].base

-----------------------------------------------------------------------------
(* Preparation: _prepare_attempt, which _run_attempt begins with. *)
Begin(c) ==
    /\ At(c, "idle") /\ jobs < MaxJobs /\ jobs' = jobs + 1
    /\ \/ /\ record = "none" /\ record' = "dir"
          /\ Step(c, [proc[c] EXCEPT !.job = "run", !.at = "save"])
       \/ /\ reserved /\ UNCHANGED record
          /\ \E p \in Phases :
                Step(c, [proc[c] EXCEPT !.job = p, !.phase = p, !.at = "admit"])
    /\ UNCHANGED <<reserved, evidence, lock, receipt, packaged, candidate, outside, launches>>

SaveRecord(c) ==
    /\ At(c, "save")
    /\ \/ inputs = Study /\ record' = "running" /\ GoTo(c, "reserve")
       \/ record' = "failed" /\ Step(c, Idle)
    /\ UNCHANGED <<reserved, evidence, lock, receipt, packaged, candidate, outside, launches, jobs>>

(* reserve_native: snapshots of the mutable roots and what they are bound to. *)
Reserve(c) ==
    /\ At(c, "reserve")
    /\ \/ reserved' = TRUE /\ UNCHANGED record
          /\ IF inputs = Study THEN GoTo(c, "admit") ELSE Step(c, Idle)
       \/ UNCHANGED reserved /\ record' = "failed" /\ Step(c, Idle)
    /\ UNCHANGED <<evidence, lock, receipt, packaged, candidate, outside, launches, jobs>>

-----------------------------------------------------------------------------
(* A phase: qualify_native_loading, run_native_writer. *)
\* _verify_loading_bundle, every check of the raw records included.
BundleHolds == packaged /\ receipt = "passed"

Admit(c) ==
    /\ At(c, "admit")
    /\ \/ /\ Phase(c) = "writer" => "writer" \notin evidence /\ BundleHolds
          /\ Step(c, [proc[c] EXCEPT !.at = "load", !.base = inputs, !.stage = 1, !.clean = TRUE])
       \/ Fails(c)
    /\ UNCHANGED <<disk, outside, launches, jobs>>

Later(p) == IF p = "loading" THEN Phases ELSE {"writer"}

LoadReservation(c) ==
    /\ At(c, "load")
    /\ IF Bound /\ lock = Free /\ evidence \cap Later(Phase(c)) = {} /\ roots = {}
       THEN GoTo(c, "lock") ELSE Fails(c)
    /\ UNCHANGED <<disk, outside, launches, jobs>>

(* _reserved_attempt: an exclusive lock, then a directory nobody has made. *)
Lock(c) ==
    /\ At(c, "lock")
    /\ IF lock = Free THEN lock' = c /\ GoTo(c, "evidence") ELSE Fails(c) /\ UNCHANGED lock
    /\ UNCHANGED <<record, reserved, evidence, receipt, packaged, candidate, outside, launches, jobs>>

\* Slip: a directory that is there already is taken over.
FreshSlip(c) == Bound
Fresh(c) == Bound /\ Phase(c) \notin evidence

MakeEvidence(c) ==
    /\ At(c, "evidence")
    /\ IF Fresh(c) THEN evidence' = evidence \cup {Phase(c)} /\ GoTo(c, "call")
                   ELSE Fails(c) /\ UNCHANGED evidence
    /\ UNCHANGED <<record, reserved, lock, receipt, packaged, candidate, outside, launches, jobs>>

(* _call: guard, then a container of its own (isolation before the first). *)
StartCall(c) ==
    /\ At(c, "call")
    /\ \/ /\ Guarded(c)
          /\ alive' = alive \cup {Phase(c)}
          /\ Step(c, [proc[c] EXCEPT !.at = "called", !.clean = FALSE])
          /\ launches' = IF Phase(c) = "writer" /\ proc[c].stage = LastStage
                         THEN Append(launches, proc[c].base) ELSE launches
       \/ /\ IF Phase(c) = "loading" THEN GoTo(c, "restore") ELSE Fails(c)
          /\ UNCHANGED <<alive, launches>>
    /\ UNCHANGED <<disk, roots, inputs, jobs>>

(* run_owned: a verified cleanup has removed the container (OwnedContainer), *)
(* otherwise it may be there.                                              *)
EndCall(c) ==
    /\ At(c, "called")
    /\ \E verified \in BOOLEAN :
       /\ alive' = IF verified THEN alive \ {Phase(c)} ELSE alive
       /\ IF verified /\ Guarded(c)
          THEN Step(c, [proc[c] EXCEPT !.clean = TRUE, !.stage = @ + 1,
                           !.at = IF proc[c].stage < LastStage THEN "call"
                                  ELSE IF Phase(c) = "loading" THEN "restore" ELSE "release"])
          ELSE IF Phase(c) = "loading"
               THEN Step(c, [proc[c] EXCEPT !.at = "restore", !.clean = verified]) ELSE Fails(c)
    /\ UNCHANGED <<disk, roots, inputs, launches, jobs>>

(* _restore: only when every call is over and its cleanup was verified. *)
Restore(c) ==
    /\ At(c, "restore")
    /\ \/ /\ proc[c].clean /\ Guarded(c)
          /\ roots' = {"partial"} /\ GoTo(c, "restoring") /\ UNCHANGED receipt
       \/ receipt' = "failed" /\ Fails(c) /\ UNCHANGED roots
    /\ UNCHANGED <<record, reserved, evidence, lock, packaged, candidate, alive, inputs, launches, jobs>>

(* The copies are moved in and compared with what was reserved; then the   *)
(* isolation is looked at once more and the receipt is written             *)
(* (_loading_receipt): all of its checks passed or not.                    *)
Restored(c) ==
    /\ At(c, "restoring")
    /\ \/ /\ Guarded(c) /\ roots = {"partial"} /\ roots' = {}
          /\ \/ proc[c].stage > LastStage /\ receipt' = "passed" /\ GoTo(c, "release")
             \/ receipt' = "failed" /\ Fails(c)
       \/ Fails(c) /\ receipt' = "failed" /\ UNCHANGED roots
    /\ UNCHANGED <<record, reserved, evidence, lock, packaged, candidate, alive, inputs, launches, jobs>>

Release(c) ==
    /\ At(c, "release") /\ lock = c /\ lock' = Free
    /\ GoTo(c, IF ~proc[c].fine THEN "leave"
               ELSE IF Phase(c) = "loading" THEN "package" ELSE "deliver")
    /\ UNCHANGED <<record, reserved, evidence, receipt, packaged, candidate, outside, launches, jobs>>

(* package_loading, then the writer when this is a run. *)
PackageLoading(c) ==
    /\ At(c, "package")
    /\ \/ /\ receipt = "passed" /\ ~packaged /\ packaged' = TRUE
          /\ IF proc[c].job = "run" THEN Step(c, [proc[c] EXCEPT !.phase = "writer", !.at = "admit"])
             ELSE Step(c, Idle)
       \/ UNCHANGED packaged /\ Fails(c)
    /\ UNCHANGED <<record, reserved, evidence, lock, receipt, candidate, outside, launches, jobs>>

(* The end of _run_attempt: the study is read again, *)
ReadStudy(c) ==
    /\ At(c, "deliver")
    /\ CASE proc[c].job # "run" -> Step(c, Idle)
         [] inputs = Study      -> GoTo(c, "freeze")
         [] OTHER               -> Fails(c)
    /\ UNCHANGED <<disk, outside, launches, jobs>>

(* and what was delivered is copied, compared and recorded.                *)
FreezeDelivery(c) ==
    /\ At(c, "freeze")
    /\ \/ record' = "completed" /\ candidate' = roots /\ Step(c, Idle)
       \/ Fails(c) /\ UNCHANGED <<record, candidate>>
    /\ UNCHANGED <<reserved, evidence, lock, receipt, packaged, outside, launches, jobs>>

Leave(c) ==
    /\ At(c, "leave") /\ Step(c, Idle)
    /\ record' = IF proc[c].job = "run" THEN "failed" ELSE record
    /\ UNCHANGED <<reserved, evidence, lock, receipt, packaged, candidate, outside, launches, jobs>>

-----------------------------------------------------------------------------
(* An interruption gives the lock back, a kill does not; the containers of *)
(* either may go on.                                                       *)
Stop(c) ==
    /\ ~At(c, "idle") /\ Step(c, Idle)
    /\ lock' \in (IF lock = c THEN {Free, Left} ELSE {lock})
    /\ UNCHANGED <<record, reserved, evidence, receipt, packaged, candidate, outside, launches, jobs>>

CommandWrites ==
    /\ \E p \in alive : roots' = roots \cup {p}
    /\ UNCHANGED <<disk, alive, inputs, proc, launches, jobs>>

CommandEnds ==
    /\ \E p \in alive : alive' = alive \ {p}
    /\ UNCHANGED <<disk, roots, inputs, proc, launches, jobs>>

Drift ==
    /\ inputs = Study /\ inputs' = Study + 1
    /\ UNCHANGED <<disk, roots, alive, proc, launches, jobs>>

AttemptNext ==
    \/ \E c \in Callers :
          \/ Begin(c) \/ SaveRecord(c) \/ Reserve(c) \/ Admit(c) \/ LoadReservation(c) \/ Lock(c)
          \/ MakeEvidence(c) \/ StartCall(c) \/ EndCall(c) \/ Restore(c) \/ Restored(c) \/ Release(c)
          \/ PackageLoading(c) \/ ReadStudy(c) \/ FreezeDelivery(c) \/ Leave(c) \/ Stop(c)
    \/ CommandWrites \/ CommandEnds \/ Drift

-----------------------------------------------------------------------------
Writing(c) == At(c, "called") /\ Phase(c) = "writer"

(* The writer runs at most once, alone, and never over or beside anything  *)
(* loading has left behind; a completed trial holds what that one writer   *)
(* wrote over the inputs of the study, and nobody can write any more       *)
(* (coding_trial_loading.py, coding_trial_reservation.py, _run_attempt).   *)
AttemptSound ==
    /\ Len(launches) <= 1
    /\ \A c \in Callers : Writing(c) =>
          /\ roots \subseteq {"writer"} /\ "loading" \notin alive
          /\ \A d \in Callers \ {c} : lock # d
    /\ record = "completed" =>
          /\ launches = <<Study>> /\ candidate \subseteq {"writer"} /\ alive = {}
=============================================================================
