----------------------------- MODULE Scheduling -----------------------------
(***************************************************************************)
(* Which sections of a plan may be worked on (sections.py, scheduling.py). *)
(* A section is a number; sorting section names is ordering numbers.  A    *)
(* graph maps every section of the manifest to the predecessors its row in *)
(* the index names, known to the manifest or not.  The loops of the code   *)
(* are recursive functions of the number of rounds they have gone.         *)
(***************************************************************************)
EXTENDS Naturals, FiniteSets, Sequences

CONSTANTS Sections,
          Clash  \* pairs of sections whose owned paths overlap

ASSUME SchedulingAssumption ==
  /\ Sections \subseteq Nat \ {0} /\ IsFiniteSet(Sections)
  /\ Clash \subseteq Sections \X Sections
  /\ \A p \in Clash : <<p[2], p[1]>> \in Clash

\* No loop goes more rounds than there are sections.
Rounds == Cardinality(Sections)

Needs(graph, s) == IF s \in DOMAIN graph THEN graph[s] ELSE {}

\* transitive_section_predecessors
Before(graph, s) ==
  LET found[i \in 0..Rounds] ==
        IF i = 0 THEN Needs(graph, s)
        ELSE LET known == found[i - 1] IN known \cup UNION {Needs(graph, t) : t \in known}
  IN  found[Rounds]

-----------------------------------------------------------------------------
(* Sections with a valid record, less those that follow one without. *)

\* (Operators called ...Slip are mistakes such code could make, none of them
\* part of the specification: each breaks a property of MutablePlanProps.)
\* Slip: one round only.
SettledSlip(graph, valid) == {s \in valid : Needs(graph, s) \subseteq valid}

Settled(graph, valid) ==
  LET kept[i \in 0..Rounds] ==
        IF i = 0 THEN valid
        ELSE LET known == kept[i - 1] IN {s \in known : Needs(graph, s) \subseteq known}
  IN  kept[Rounds]

\* ready_sections
Ready(graph, done) == {s \in DOMAIN graph \ done : Needs(graph, s) \subseteq done}

-----------------------------------------------------------------------------
(* Layers of sections that may be worked on at the same time. *)

Last == CHOOSE n \in Sections \cup {0} : \A s \in Sections : s <= n

\* Slip: what the layer already holds counts as available.
LayerSlip(graph, available, unresolved) ==
  LET taken[n \in 0..Last] ==
        IF n = 0 THEN {}
        ELSE LET layer == taken[n - 1]
             IN  IF /\ n \in unresolved /\ Needs(graph, n) \subseteq available \cup layer
                    /\ \A t \in layer : <<n, t>> \notin Clash
                 THEN layer \cup {n} ELSE layer
  IN  taken[Last]

\* The sections are offered in their order.
Layer(graph, available, unresolved) ==
  LET taken[n \in 0..Last] ==
        IF n = 0 THEN {}
        ELSE LET layer == taken[n - 1]
             IN  IF /\ n \in unresolved /\ Needs(graph, n) \subseteq available
                    /\ \A t \in layer : <<n, t>> \notin Clash
                 THEN layer \cup {n} ELSE layer
  IN  taken[Last]

\* One turn of the loop; an empty layer ends it.
Advance(graph, plan) ==
  LET layer == Layer(graph, plan.available, plan.unresolved)
  IN  IF layer = {} THEN plan
      ELSE [layers     |-> Append(plan.layers, layer),
            available  |-> plan.available \cup layer,
            unresolved |-> plan.unresolved \ layer]

\* parallel_plan
ParallelPlan(graph, done) ==
  LET turn[i \in 0..Rounds] ==
        IF i = 0 THEN [layers |-> <<>>, available |-> done, unresolved |-> DOMAIN graph \ done]
        ELSE Advance(graph, turn[i - 1])
  IN  turn[Rounds]
=============================================================================
