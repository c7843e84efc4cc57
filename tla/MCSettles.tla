------------------------------ MODULE MCSettles ------------------------------
(***************************************************************************)
(* What must settle in the end, on small instances: the installed plugin   *)
(* and the records of a mutable plan.  They share no state, so a behaviour *)
(* is one of one of them: `which` says of which, and the variables of the  *)
(* other stay as they began.                                               *)
(***************************************************************************)
EXTENDS PluginCache, TLC

CONSTANTS manifest, runtime, helper,
          None, Attested, p1, p2, Processes, Sections, Clash, Modes, Lean, Captured,
          MaxEdits, PlanFaults

VARIABLES which, plan, state, receipts, lock, planProc, spent
planVars == <<plan, state, receipts, lock, planProc, spent>>
both     == <<which, vars, planVars>>

TwoFiles == {runtime, helper}
\* The manifest first lists one file, then both.
Growing  == <<{runtime}, {runtime, helper}>>
\* The index of the plan lists one section, or two of which one needs the other.
Two      == {(1 :> {}) @@ (2 :> {1}), 1 :> {}}

M == INSTANCE MutablePlanProps
       WITH Graphs <- Two, MaxFaults <- PlanFaults, proc <- planProc

BothInit == /\ which \in {"cache", "plan"}
            /\ Init /\ (which # "cache" => cache = source)
            /\ M!Init /\ (which # "plan" => DOMAIN plan.index = {1})

OfCache == which = "cache" /\ UNCHANGED <<which, planVars>>
OfPlan  == which = "plan" /\ UNCHANGED <<which, vars>>

BothNext == \/ OfCache /\ Next
            \/ OfPlan /\ M!Next

BothFairness ==
    /\ WF_both(OfCache /\ Step) /\ WF_both(OfCache /\ Begin)
    /\ \A p \in Processes : WF_both(OfPlan /\ M!Step(p))
    /\ \A s \in Sections :
          SF_both(OfPlan /\ \E p \in Processes : M!Start(p, s, "strict", "manual"))

BothSpec == BothInit /\ [][BothNext]_both /\ BothFairness

RetryResolves == which = "plan" => M!RetryResolves
CacheConverges == which = "cache" => Converges
=============================================================================
