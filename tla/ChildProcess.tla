---------------------------- MODULE ChildProcess ----------------------------
(***************************************************************************)
(* execute and _terminate (child_process.py) on POSIX: one child under a   *)
(* deadline and a cancellation event, two reader threads that end when     *)
(* nobody holds their pipe any more, and the group killed before the       *)
(* answer, whatever ended the wait.                                        *)
(***************************************************************************)
EXTENDS ProcessGroup

CONSTANT MayRefuse      \* whether the system may refuse the kill of a group

VARIABLES pc, end, reading, late, cancel, wrong, answer
caller == <<pc, end, reading, late, cancel, wrong, answer>>
childVars == <<group, caller>>

Checks == <<"enter", "stdin", "readers", "spawn">>
After(c) == Checks[1 + CHOOSE i \in 1..3 : Checks[i] = c]

Nothing == [code |-> 0, started |-> FALSE, error |-> FALSE]
Raised  == 999

ChildInit ==
    /\ NobodyYet
    /\ pc = "enter" /\ end = "none" /\ reading = {}
    /\ late = FALSE /\ cancel = FALSE /\ wrong = FALSE
    /\ answer = Nothing

(* The three looks at the event before anything has been started. *)
Proceed ==
    /\ pc \in {"enter", "stdin", "readers"} /\ ~cancel
    /\ pc' = After(pc)
    /\ UNCHANGED <<group, end, reading, late, cancel, wrong, answer>>

Unstarted ==
    /\ pc \in {"enter", "stdin", "readers"} /\ cancel
    /\ pc' = "done" /\ answer' = [Nothing EXCEPT !.code = 130]
    /\ UNCHANGED <<group, end, reading, late, cancel, wrong>>

Popen ==
    /\ pc = "spawn"
    /\ \/ Spawn /\ pc' = "loop" /\ reading' = Pipes /\ UNCHANGED answer
       \/ /\ pc' = "done" /\ answer' = [Nothing EXCEPT !.code = 127]
          /\ UNCHANGED <<group, reading>>
    /\ UNCHANGED <<end, late, cancel, wrong>>

(* _Tail.drain of one pipe: it ends at the end of file. *)
ReaderEnds(h) ==
    /\ h \in reading /\ ~Held(h)
    /\ reading' = reading \ {h}
    /\ UNCHANGED <<group, pc, end, late, cancel, wrong, answer>>

Over == Dead(Leader) /\ reading = {}

Leave(why) ==
    /\ pc' = "kill" /\ end' = why
    /\ life' = Reaped
    /\ UNCHANGED <<member, holds, doomed, exit, reading, late, cancel, wrong, answer>>

(* The deadline stays active after the leader's exit. *)
\* Slip: the deadline ends with the leader.
OverdueSlip == late /\ ~Dead(Leader)
Overdue == late

Ended     == pc = "loop" /\ Over /\ Leave("ended")
TimedOut  == pc = "loop" /\ ~Over /\ Overdue /\ Leave("late")
Cancelled == pc = "loop" /\ ~Over /\ ~Overdue /\ cancel /\ Leave("cancelled")
Interrupt == pc = "loop" /\ Leave("raised")

(* os.killpg.  No such group is no error; a refusal is, and then only the  *)
(* leader is killed.                                                       *)
\* Slip: only the leader is killed.
TargetSlip == {Leader}
Target == {p \in Procs : member[p]}

KillGroup ==
    /\ pc = "kill"
    /\ pc' = "wait"
    /\ \/ doomed' = Doomed(Target) /\ UNCHANGED wrong
       \/ MayRefuse /\ doomed' = Doomed({Leader}) /\ wrong' = TRUE
    /\ UNCHANGED <<life, member, holds, exit, end, reading, late, cancel, answer>>

(* process.wait(timeout=2) *)
WaitLeader ==
    /\ pc = "wait"
    /\ pc' = "join"
    /\ life' = Reaped
    /\ wrong' = (wrong \/ Live(Leader))
    /\ UNCHANGED <<member, holds, doomed, exit, end, reading, late, cancel, answer>>

Open(s) == s # {}
Code(bad)  == CASE end = "late"      -> 124
                [] end = "cancelled" -> 130
                [] end = "raised"    -> Raised
                [] OTHER             -> IF bad /\ exit = 0 THEN 125 ELSE exit

(* The readers get one second each; a reader alive after it is an error. *)
Answer ==
    /\ pc = "join"
    /\ LET bad == wrong \/ Open(reading)
       IN  answer' = [code |-> Code(bad), started |-> TRUE, error |-> bad]
    /\ pc' = "done"
    /\ UNCHANGED <<group, end, reading, late, cancel, wrong>>

Deadline == /\ pc = "loop" /\ ~late /\ late' = TRUE
            /\ UNCHANGED <<group, pc, end, reading, cancel, wrong, answer>>
Cancel   == /\ pc # "done" /\ ~cancel /\ cancel' = TRUE
            /\ UNCHANGED <<group, pc, end, reading, late, wrong, answer>>

Caller == \/ Proceed \/ Unstarted \/ Popen \/ Ended \/ TimedOut \/ Cancelled
          \/ KillGroup \/ WaitLeader \/ Answer

ChildNext == \/ Caller \/ Interrupt \/ Deadline \/ Cancel
             \/ \E h \in Pipes : ReaderEnds(h)
             \/ pc # "done" /\ Environment /\ UNCHANGED caller

(* The caller's thread runs and its clock advances; the child owes nothing. *)
ChildFairness == WF_childVars(Caller) /\ WF_childVars(Deadline)

ChildSpec == ChildInit /\ [][ChildNext]_childVars /\ ChildFairness

-----------------------------------------------------------------------------
(***************************************************************************)
(* What the caller may conclude from an answer.  A zero says that the      *)
(* leader itself exited with zero before deadline and cancellation; an     *)
(* answer without a termination error, whatever its code, that nothing of  *)
(* the group runs on and the output was read to its end; 124 and 130 that  *)
(* the deadline passed and that somebody cancelled.                        *)
(* (child_process.py:86-168)                                               *)
(***************************************************************************)
ChildOutcome ==
    pc = "done" =>
        /\ answer.started /\ ~answer.error => Survivors = {} /\ reading = {}
        /\ answer.code = 0 => exit = 0 /\ end = "ended" /\ ~answer.error
        /\ answer.code = 124 => late
        /\ answer.code = 130 => cancel

(* The call returns, even when descendants hold the pipes for ever and     *)
(* ignore everything they may ignore.                                      *)
ChildAnswers == <>(pc = "done")

=============================================================================
