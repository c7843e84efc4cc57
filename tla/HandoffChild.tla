---------------------------- MODULE HandoffChild ----------------------------
(***************************************************************************)
(* run_bounded_child (processes.py): a privileged child whose output is    *)
(* capped, whose group must be gone before its answer counts, and whose    *)
(* end by SIGTERM and then SIGKILL must be shown or the call says that it  *)
(* was not.  What lives in the group is read from /proc one entry at a     *)
(* time (_linux_process_group_has_live_members).                           *)
(***************************************************************************)
EXTENDS ProcessGroup

VARIABLES pc, open, late, tired, phase, listed, known, saw, unsure, outcome
probe  == <<listed, known, saw, unsure>>
caller == <<pc, open, late, tired, phase, probe, outcome>>
handoffVars == <<group, caller>>

HandoffInit ==
    /\ NobodyYet
    /\ pc = "spawn" /\ open = {} /\ late = FALSE /\ tired = FALSE
    /\ phase = "success" /\ listed = {} /\ known = {}
    /\ saw = FALSE /\ unsure = FALSE /\ outcome = "none"

Popen ==
    /\ pc = "spawn" /\ Spawn
    /\ pc' = "read" /\ open' = Pipes
    /\ UNCHANGED <<late, tired, phase, probe, outcome>>

EndOfFile(h) ==
    /\ pc = "read" /\ h \in open /\ ~Held(h)
    /\ open' = open \ {h}
    /\ UNCHANGED <<group, pc, late, tired, phase, probe, outcome>>

(* except Exception: the error is kept and the group terminated. *)
Fails ==
    /\ outcome' = "failed" /\ phase' = "before" /\ pc' = "poll"
    /\ open' = {} /\ late' = FALSE

TooMuch(h) == /\ pc = "read" /\ h \in open /\ Fails
              /\ UNCHANGED <<group, tired, probe>>
TooLate    == /\ late /\ \/ pc = "read" /\ open # {}
                         \/ pc = "wait" /\ Live(Leader)
              /\ Fails
              /\ UNCHANGED <<group, tired, probe>>
Drained    == /\ pc = "read" /\ open = {} /\ pc' = "wait"
              /\ UNCHANGED <<group, open, late, tired, phase, probe, outcome>>

Reap ==
    /\ \/ pc = "wait" /\ Dead(Leader) /\ outcome' = "success"
       \/ pc = "poll" /\ UNCHANGED outcome
    /\ life' = Reaped
    /\ pc' = "probe"
    /\ UNCHANGED <<member, holds, doomed, exit, open, late, tired, phase, probe>>

(* killpg(group, 0), then the list of /proc; a listing that fails, or hides *)
(* processes, leaves the answer open.                                       *)
Matches(p) == member[p] /\ Exists(p)
Someone == \E p \in Procs : Matches(p)

Probe ==
    /\ pc = "probe"
    /\ known' = {p \in Procs : Matches(p)}
    /\ saw' = FALSE
    /\ \/ ~Someone /\ pc' = "quiet" /\ listed' = {} /\ unsure' = FALSE
       \/ /\ Someone /\ pc' = "scan" /\ unsure' \in BOOLEAN
          /\ listed' = IF unsure' THEN {} ELSE {p \in Procs : Matches(p)}
    /\ UNCHANGED <<group, open, late, tired, phase, outcome>>

ReadEntry(p) ==
    /\ pc = "scan" /\ p \in listed
    /\ listed' = listed \ {p}
    /\ \/ Matches(p) /\ Live(p) /\ pc' = "busy" /\ UNCHANGED <<saw, unsure>>
       \/ Matches(p) /\ ~Live(p) /\ saw' = TRUE /\ UNCHANGED <<pc, unsure>>
       \/ ~Matches(p) /\ UNCHANGED <<pc, saw, unsure>>
       \/ Exists(p) /\ unsure' = TRUE /\ UNCHANGED <<pc, saw>>
    /\ UNCHANGED <<group, known, open, late, tired, phase, outcome>>

Inactive == saw /\ ~unsure

ScanEnds ==
    /\ pc = "scan" /\ listed = {}
    /\ pc' = IF Inactive THEN "quiet" ELSE "busy"
    /\ UNCHANGED <<group, open, late, tired, phase, probe, outcome>>

(* No live member: a success stands, a termination is shown once the       *)
(* leader is reaped too.                                                   *)
Quiet ==
    /\ pc = "quiet"
    /\ life' = Reaped
    /\ pc' = IF phase = "success" \/ life'[Leader] = "gone" THEN "done" ELSE "busy"
    /\ UNCHANGED <<member, holds, doomed, exit, open, late, tired, phase, probe, outcome>>

Signal(next) == phase' = next /\ tired' = FALSE /\ pc' = "poll"

Residual ==
    /\ pc = "busy" /\ phase = "success" /\ Fails
    /\ UNCHANGED <<group, tired, probe>>
Again ==
    /\ pc = "busy" /\ phase \in {"term", "kill", "refused"} /\ ~tired
    /\ pc' = "poll"
    /\ UNCHANGED <<group, open, late, tired, phase, probe, outcome>>
(* SIGTERM asks; a process may exit on it as it may at any time. *)
Term ==
    /\ pc = "busy" /\ phase = "before"
    /\ \E next \in {"term", "refused"} : Signal(next)
    /\ UNCHANGED <<group, open, late, probe, outcome>>
Kill ==
    /\ pc = "busy" /\ phase = "term" /\ tired
    /\ \/ Signal("kill") /\ doomed' = Doomed({p \in Procs : member[p]})
       \/ Signal("refused") /\ UNCHANGED doomed
    /\ UNCHANGED <<life, member, holds, exit, open, late, probe, outcome>>
Unproven ==
    /\ pc = "busy" /\ phase \in {"kill", "refused"} /\ tired
    /\ pc' = "done" /\ outcome' = "unproven"
    /\ UNCHANGED <<group, open, late, tired, phase, probe>>

Deadline == /\ pc \in {"read", "wait"} /\ ~late /\ late' = TRUE
            /\ UNCHANGED <<group, pc, open, tired, phase, probe, outcome>>
TwoSeconds == /\ phase \in {"term", "kill", "refused"} /\ pc # "done" /\ ~tired
              /\ tired' = TRUE
              /\ UNCHANGED <<group, pc, open, late, phase, probe, outcome>>

Caller == \/ Popen \/ TooLate \/ Drained \/ Reap \/ Probe \/ ScanEnds \/ Quiet
          \/ Residual \/ Again \/ Term \/ Kill \/ Unproven
          \/ \E p \in Procs : ReadEntry(p)
          \/ \E h \in Pipes : EndOfFile(h)

HandoffNext == \/ Caller \/ Deadline \/ TwoSeconds
               \/ \E h \in Pipes : TooMuch(h)
               \/ pc # "done" /\ Environment /\ UNCHANGED caller

HandoffFairness == /\ WF_handoffVars(Caller)
                   /\ WF_handoffVars(Deadline) /\ WF_handoffVars(TwoSeconds)

HandoffSpec == HandoffInit /\ [][HandoffNext]_handoffVars /\ HandoffFairness

-----------------------------------------------------------------------------
(***************************************************************************)
(* A call that returns or fails without saying that termination is         *)
(* unproven has shown the group closed: none of the processes there were   *)
(* when it looked for the last time still runs in it, and the leader is    *)
(* reaped.  (A process forked while /proc is read can escape the look.)    *)
(* (processes.py:118)                                                      *)
(***************************************************************************)
GroupClosed ==
    pc = "done" /\ outcome # "unproven" =>
        /\ \A p \in known : ~(member[p] /\ Live(p))
        /\ life[Leader] = "gone"

(* The call returns, whatever the child and its descendants do. *)
HandoffAnswers == <>(pc = "done")

=============================================================================
