---------------------------- MODULE MCTeamBoard ----------------------------
(* Small instances of TeamBoard for TLC. *)
EXTENDS TeamBoardProps, TLC

CONSTANTS c1, c2, src, auth, docs, plan, other, one, two

MCClones   == {c1, c2}
OneClone   == {c1}
Worktrees  == {one, two}
MCPlans    == {plan, other}
PlanSymmetry == Permutations(MCPlans) \cup Permutations(Worktrees)
MCSteady   == {c1}
MCPaths    == {src, auth, docs}
MCUnder    == {<<auth, src>>}
OneScope   == {{auth}}
NoScope    == {{}}
Planned    == {{}, {src}, {auth}}
MCSymmetry == Permutations(MCClones)
=============================================================================
