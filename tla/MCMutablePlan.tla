---------------------------- MODULE MCMutablePlan ----------------------------
(* Small instances of MutablePlan for TLC. *)
EXTENDS MutablePlanProps, TLC

CONSTANTS p1, p2

Chain   == (1 :> {}) @@ (2 :> {1}) @@ (3 :> {2})
Fork    == (1 :> {}) @@ (2 :> {1}) @@ (3 :> {1})
Circle  == (1 :> {}) @@ (2 :> {3}) @@ (3 :> {2})
Loose   == (1 :> {}) @@ (3 :> {2})

Pair    == (1 :> {}) @@ (2 :> {1})
Single  == (1 :> {})

Two        == {Pair, Single}
Indexes    == {Chain, Fork, Circle, Loose}
Siblings   == {<<2, 3>>, <<3, 2>>}

ProcessSymmetry == Permutations({p1, p2})
=============================================================================
