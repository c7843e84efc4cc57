---------------------------- MODULE ProcessGroup ----------------------------
(***************************************************************************)
(* The operating system as the two supervisors of child processes use it:  *)
(* a leader started in a session of its own, its descendants, the group    *)
(* they share until one leaves it, and the output pipes they inherit.  A   *)
(* process that got SIGKILL is doomed: it runs no further step but may     *)
(* take its time to die.  Everything here is outside src/.                 *)
(***************************************************************************)
EXTENDS Naturals, FiniteSets

CONSTANTS Procs, Leader, Pipes

VARIABLES life, member, holds, doomed, exit
group == <<life, member, holds, doomed, exit>>

Killed == 137
ExitCodes == {0, 1, Killed}

GroupTypeOK ==
    /\ life \in [Procs -> {"unborn", "live", "zombie", "gone"}]
    /\ member \in [Procs -> BOOLEAN]
    /\ holds \in [Procs -> SUBSET Pipes]
    /\ doomed \in [Procs -> BOOLEAN]
    /\ exit \in ExitCodes

NobodyYet ==
    /\ life = [p \in Procs |-> "unborn"]
    /\ member = [p \in Procs |-> FALSE]
    /\ holds = [p \in Procs |-> {}]
    /\ doomed = [p \in Procs |-> FALSE]
    /\ exit = 0

Live(p)   == life[p] = "live"
Exists(p) == life[p] \in {"live", "zombie"}
Dead(p)   == life[p] \in {"zombie", "gone"}
Free(p)   == Live(p) /\ ~doomed[p]
Held(h)   == \E p \in Procs : Live(p) /\ h \in holds[p]

Survivors == {p \in Procs : member[p] /\ Free(p)}

Spawn ==
    /\ life' = [life EXCEPT ![Leader] = "live"]
    /\ member' = [member EXCEPT ![Leader] = TRUE]
    /\ holds' = [holds EXCEPT ![Leader] = Pipes]
    /\ UNCHANGED <<doomed, exit>>

Fork(p, q) ==
    /\ Free(p) /\ life[q] = "unborn" /\ q # Leader
    /\ life' = [life EXCEPT ![q] = "live"]
    /\ member' = [member EXCEPT ![q] = member[p]]
    /\ holds' = [holds EXCEPT ![q] = holds[p]]
    /\ UNCHANGED <<doomed, exit>>

(* setsid: the leader of a group cannot leave it. *)
Detach(p) ==
    /\ Free(p) /\ member[p] /\ p # Leader
    /\ member' = [member EXCEPT ![p] = FALSE]
    /\ UNCHANGED <<life, holds, doomed, exit>>

Close(p, h) ==
    /\ Free(p) /\ h \in holds[p]
    /\ holds' = [holds EXCEPT ![p] = @ \ {h}]
    /\ UNCHANGED <<life, member, doomed, exit>>

Die(p, code) ==
    /\ Live(p) /\ (doomed[p] <=> code = Killed)
    /\ life' = [life EXCEPT ![p] = "zombie"]
    /\ holds' = [holds EXCEPT ![p] = {}]
    /\ doomed' = [doomed EXCEPT ![p] = FALSE]
    /\ exit' = IF p = Leader THEN code ELSE exit
    /\ UNCHANGED member

(* An orphan's zombie is reaped by init; the leader's by its supervisor. *)
Bury(p) ==
    /\ life[p] = "zombie" /\ p # Leader
    /\ life' = [life EXCEPT ![p] = "gone"]
    /\ member' = [member EXCEPT ![p] = FALSE]
    /\ UNCHANGED <<holds, doomed, exit>>

Environment ==
    \/ \E p, q \in Procs : Fork(p, q)
    \/ \E p \in Procs : Detach(p) \/ Bury(p)
    \/ \E p \in Procs, h \in Pipes : Close(p, h)
    \/ \E p \in Procs, code \in ExitCodes : (p # Leader => code # 1) /\ Die(p, code)

Doomed(s) == [p \in Procs |-> doomed[p] \/ (p \in s /\ Live(p))]
Reaped    == [life EXCEPT ![Leader] = IF @ = "zombie" THEN "gone" ELSE @]
=============================================================================
