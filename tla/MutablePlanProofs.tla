------------------------- MODULE MutablePlanProofs -------------------------
(***************************************************************************)
(* TLAPS proofs about scheduling and recording sections, for any plans,    *)
(* any number of processes, edits, kills and failures.  The loops over a   *)
(* graph are reasoned about by induction on the rounds they have gone.     *)
(***************************************************************************)
EXTENDS MutablePlanProps, TLAPS, WellFoundedInduction, FiniteSetTheorems

-----------------------------------------------------------------------------
(* Induction over the natural numbers, and loops that come to rest. *)

LEMMA Least ==
  ASSUME NEW T \in SUBSET Nat, T # {}
  PROVE  \E n \in T : \A m \in T : n <= m
  <1>1. PICK n \in T : \A m \in T : <<m, n>> \notin OpToRel(<, Nat)
    BY WFMin, NatLessThanWellFounded, Zenon
  <1>2. \A m \in T : ~(m < n)
    BY <1>1, Zenon DEF OpToRel
  <1> QED
    BY <1>2

LEMMA Everywhere ==
  ASSUME NEW T, 0 \in T, \A n \in Nat : n \in T => n + 1 \in T
  PROVE  Nat \subseteq T
  <1> SUFFICES ASSUME Nat \ T # {} PROVE FALSE
    OBVIOUS
  <1>1. PICK n \in Nat \ T : \A m \in Nat \ T : n <= m
    BY Least
  <1>2. n # 0 /\ n - 1 \in Nat /\ (n - 1) + 1 = n
    BY <1>1
  <1>3. n - 1 \in T
    BY <1>1, <1>2
  <1> QED
    BY <1>2, <1>3

LEMMA Greatest ==
  ASSUME NEW S \in SUBSET Nat, IsFiniteSet(S), S # {}
  PROVE  \E n \in S : \A m \in S : m <= n
  <1> DEFINE Has(R) == \E n \in R : \A m \in R : m <= n
             T == {n \in Nat : \A R \in SUBSET Nat :
                                 IsFiniteSet(R) /\ Cardinality(R) = n /\ R # {} => Has(R)}
  <1>1. 0 \in T
    BY FS_EmptySet
  <1>2. ASSUME NEW n \in Nat, n \in T PROVE n + 1 \in T
    <2> SUFFICES ASSUME NEW R \in SUBSET Nat, IsFiniteSet(R), Cardinality(R) = n + 1, R # {}
                 PROVE  Has(R)
      OBVIOUS
    <2>1. PICK x \in R : TRUE
      OBVIOUS
    <2>2. R \ {x} \in SUBSET Nat /\ IsFiniteSet(R \ {x}) /\ Cardinality(R \ {x}) = n
      <3>1. Cardinality(R \ {x}) = (n + 1) - 1 /\ IsFiniteSet(R \ {x})
        BY <2>1, FS_RemoveElement
      <3> QED
        BY <3>1
    <2>3. R \ {x} = {} \/ Has(R \ {x})
      BY <1>2, <2>2
    <2> QED
      BY <2>1, <2>3
  <1> HIDE DEF T
  <1>3. Cardinality(S) \in T
    BY <1>1, <1>2, Everywhere, FS_CardinalityType
  <1> QED
    BY <1>3 DEF T

\* A loop of N rounds over D that begins with b; what a round makes of x is F[<<i, x>>].
IsLoop(D, F, b, N) == F \in [Nat \X D -> D] /\ b \in D /\ N \in Nat

IsRun(f, D, F, b, N) ==
  f \in [0..N -> D] /\ f[0] = b /\ \A i \in 1..N : f[i] = F[<<i, f[i - 1]>>]

LEMMA Iterates ==
  ASSUME NEW D, NEW F, NEW b, NEW N, IsLoop(D, F, b, N)
  PROVE  \E f : IsRun(f, D, F, b, N)
  <1> USE DEF IsLoop
  <1> DEFINE Good(n, f) == f \in [0..n -> D] /\ f[0] = b /\ \A i \in 1..n : f[i] = F[<<i, f[i - 1]>>]
             T == {n \in Nat : \E f : Good(n, f)}
  <1>1. 0 \in T
    <2>1. Good(0, [i \in 0..0 |-> b])
      OBVIOUS
    <2> QED
      BY <2>1
  <1>2. ASSUME NEW n \in Nat, n \in T PROVE n + 1 \in T
    <2>1. PICK f : Good(n, f)
      BY <1>2
    <2>2. PICK x \in D : x = F[<<n + 1, f[n]>>]
      BY <2>1
    <2> DEFINE g == [i \in 0..(n + 1) |-> IF i = n + 1 THEN x ELSE f[i]]
    <2>3. g \in [0..(n + 1) -> D] /\ g[0] = b
      BY <2>1
    <2>4. ASSUME NEW i \in 1..(n + 1) PROVE g[i] = F[<<i, g[i - 1]>>]
      <3>1. CASE i = n + 1
        <4>1. g[i] = x /\ i - 1 = n /\ g[i - 1] = f[n]
          BY <3>1
        <4> QED
          BY <2>2, <3>1, <4>1
      <3>2. CASE i # n + 1
        <4>1. i \in 1..n /\ i - 1 \in 0..n /\ i \in 0..n
          BY <3>2
        <4> QED
          BY <2>1, <4>1
      <3> QED
        BY <3>1, <3>2
    <2> HIDE DEF g
    <2> QED
      BY <2>3, <2>4
  <1>3. N \in T
    <2> HIDE DEF T
    <2> QED
      BY <1>1, <1>2, Everywhere
  <1>4. PICK f : Good(N, f)
    BY <1>3
  <1> QED
    BY <1>4 DEF IsRun

\* What holds at first and outlives a round holds in every round.
LEMMA Throughout ==
  ASSUME NEW G, NEW N \in Nat, NEW f, f[0] \in G,
         \A i \in 1..N : f[i - 1] \in G => f[i] \in G
  PROVE  \A i \in 0..N : f[i] \in G
  <1> DEFINE T == {n \in Nat : n <= N => f[n] \in G}
  <1>1. 0 \in T
    OBVIOUS
  <1>2. ASSUME NEW n \in Nat, n \in T PROVE n + 1 \in T
    <2>1. CASE n + 1 <= N
      <3>1. n + 1 \in 1..N /\ (n + 1) - 1 = n /\ n <= N
        BY <2>1
      <3> QED
        BY <1>2, <3>1
    <2>2. CASE ~(n + 1 <= N)
      BY <2>2
    <2> QED
      BY <2>1, <2>2
  <1> HIDE DEF T
  <1>3. Nat \subseteq T
    BY <1>1, <1>2, Everywhere
  <1> QED
    BY <1>3 DEF T

\* A loop whose rounds each change nothing or lower a measure has come to rest after
\* as many rounds as the measure was high.
Falls(D, F, m, N, f) ==
  /\ F \in [D -> D] /\ m \in [D -> Nat] /\ N \in Nat /\ f[0] \in D /\ m[f[0]] <= N
  /\ \A i \in 1..N : f[i - 1] \in D => f[i] = F[f[i - 1]]
  /\ \A x \in D : F[x] = x \/ m[F[x]] < m[x]

LEMMA Rests ==
  ASSUME NEW D, NEW F, NEW m, NEW N, NEW f, Falls(D, F, m, N, f)
  PROVE  f[N] \in D /\ F[f[N]] = f[N]
  <1> USE DEF Falls
  <1>1. \A i \in 0..N : f[i] \in D
    BY Throughout
  <1> DEFINE g == [i \in 0..N |-> <<i, f[i]>>]
             G == {z \in (0..N) \X D : F[z[2]] = z[2] \/ m[z[2]] <= N - z[1]}
  <1>2. g[0] \in G
    BY <1>1
  <1>3. ASSUME NEW i \in 1..N, g[i - 1] \in G PROVE g[i] \in G
    <2>1. i - 1 \in 0..N /\ i \in 0..N /\ f[i - 1] \in D /\ f[i] \in D /\ f[i] = F[f[i - 1]]
      BY <1>1
    <2>2. F[f[i - 1]] = f[i - 1] \/ m[f[i - 1]] <= N - (i - 1)
      BY <1>3, <2>1
    <2>3. F[f[i]] = f[i] \/ m[f[i]] <= N - i
      <3>1. m[f[i]] \in Nat /\ m[f[i - 1]] \in Nat
        BY <2>1
      <3>2. F[f[i - 1]] = f[i - 1] \/ m[f[i]] < m[f[i - 1]]
        BY <2>1
      <3> QED
        BY <2>1, <2>2, <3>1, <3>2
    <2> QED
      BY <2>1, <2>3
  <1>4. g[N] \in G
    <2> HIDE DEF g, G
    <2> QED
      BY SMTT(30), <1>2, <1>3, Throughout
  <1>5. f[N] \in D /\ (F[f[N]] = f[N] \/ m[f[N]] <= 0)
    BY <1>1, <1>4
  <1>6. F[f[N]] \in D /\ m[f[N]] \in Nat /\ m[F[f[N]]] \in Nat
    BY <1>5
  <1> QED
    BY <1>5, <1>6

-----------------------------------------------------------------------------
(* What the loops over the graph return. *)

LEMMA RoundsFact == Rounds \in Nat /\ IsFiniteSet(Sections)
  BY SchedulingAssumption, FS_CardinalityType DEF Rounds

\* Sections settle to the largest set among the valid ones that no predecessor leaves.
LEMMA SettledFacts ==
  ASSUME NEW graph, NEW valid \in SUBSET Sections
  PROVE  /\ Settled(graph, valid) \subseteq valid
         /\ \A s \in Settled(graph, valid) : Needs(graph, s) \subseteq Settled(graph, valid)
  <1> DEFINE D == SUBSET Sections
             F == [k \in D |-> {s \in k : Needs(graph, s) \subseteq k}]
             Go == [z \in Nat \X D |-> F[z[2]]]
             m == [k \in D |-> Cardinality(k)]
             N == Rounds
             kept == CHOOSE f : f = [i \in 0..N |->
                       IF i = 0 THEN valid ELSE {s \in f[i - 1] : Needs(graph, s) \subseteq f[i - 1]}]
  <1>1. Settled(graph, valid) = kept[N]
    BY Zenon DEF Settled
  <1>2. kept = [i \in 0..N |-> IF i = 0 THEN valid
                               ELSE {s \in kept[i - 1] : Needs(graph, s) \subseteq kept[i - 1]}]
    <2>1. F \in [D -> D] /\ valid \in D /\ N \in Nat
      BY RoundsFact
    <2> HIDE DEF F, D, N, m, Go, kept
    <2>2. PICK f : IsRun(f, D, Go, valid, N)
      <3>1. IsLoop(D, Go, valid, N)
        BY <2>1 DEF IsLoop, Go
      <3> QED
        BY <3>1, Iterates
    <2>3. \A i \in 0..N : i # 0 => i \in 1..N /\ f[i - 1] \in D
      BY <2>1, <2>2 DEF IsRun
    <2>4. \A i \in 0..N : f[i] = IF i = 0 THEN valid ELSE {s \in f[i - 1] : Needs(graph, s) \subseteq f[i - 1]}
      <3> TAKE i \in 0..N
      <3>1. CASE i = 0
        BY <2>2, <3>1 DEF IsRun
      <3>2. CASE i # 0
        <4>1. f[i] = Go[<<i, f[i - 1]>>] /\ i \in Nat /\ f[i - 1] \in D
          BY <2>1, <2>2, <2>3, <3>2 DEF IsRun
        <4>2. f[i] = F[f[i - 1]]
          BY <4>1 DEF Go
        <4> QED
          BY <3>2, <4>1, <4>2 DEF F
      <3> QED
        BY <3>1, <3>2
    <2>5. f = [i \in 0..N |-> IF i = 0 THEN valid ELSE {s \in f[i - 1] : Needs(graph, s) \subseteq f[i - 1]}]
      BY <2>2, <2>4 DEF IsRun
    <2> QED
      BY <2>5 DEF kept
  <1> HIDE DEF kept
  <1>3. /\ N \in Nat /\ kept[0] = valid
        /\ \A i \in 1..N : kept[i] = {s \in kept[i - 1] : Needs(graph, s) \subseteq kept[i - 1]}
    <2>1. N \in Nat /\ 0 \in 0..N /\ \A i \in 1..N : i \in 0..N /\ i # 0
      BY RoundsFact
    <2> HIDE DEF N
    <2> QED
      BY <1>2, <2>1
  <1>4. kept[N] \in SUBSET valid
    <2> DEFINE G == SUBSET valid
    <2>1. \A i \in 1..N : kept[i - 1] \in G => kept[i] \in G
      BY <1>3
    <2>2. \A i \in 0..N : kept[i] \in G
      BY <1>3, <2>1, Throughout
    <2> QED
      BY <1>3, <2>2
  <1>5. F[kept[N]] = kept[N]
    <2>1. F \in [D -> D] /\ m \in [D -> Nat] /\ m[kept[0]] <= N
      BY <1>3, RoundsFact, FS_Subset, FS_CardinalityType DEF Rounds
    <2>2. \A i \in 1..N : kept[i - 1] \in D => kept[i] = F[kept[i - 1]]
      BY <1>3
    <2>3. ASSUME NEW x \in D PROVE F[x] = x \/ m[F[x]] < m[x]
      <3>1. F[x] \subseteq x /\ F[x] \in D
        OBVIOUS
      <3>2. IsFiniteSet(F[x]) /\ IsFiniteSet(x) /\ Cardinality(F[x]) \in Nat /\ Cardinality(x) \in Nat
        BY <3>1, RoundsFact, FS_Subset, FS_CardinalityType
      <3>3. F[x] = x \/ Cardinality(F[x]) < Cardinality(x)
        BY <3>1, <3>2, FS_Subset
      <3>4. m[F[x]] = Cardinality(F[x]) /\ m[x] = Cardinality(x)
        BY <3>1
      <3> QED
        BY <3>3, <3>4
    <2>4. N \in Nat /\ kept[0] \in D
      BY <1>3
    <2> HIDE DEF F, D, m, N
    <2>5. Falls(D, F, m, N, kept)
      BY <2>1, <2>2, <2>3, <2>4 DEF Falls
    <2> QED
      BY <2>5, Rests
  <1> QED
    BY <1>1, <1>4, <1>5

\* What comes before a section is what it needs and what that needs, and no more.
LEMMA BeforeFacts ==
  ASSUME NEW graph, \A s \in DOMAIN graph : graph[s] \subseteq Sections, NEW s
  PROVE  /\ Needs(graph, s) \subseteq Before(graph, s)
         /\ Before(graph, s) \subseteq Sections
         /\ \A t \in Before(graph, s) : Needs(graph, t) \subseteq Before(graph, s)
         /\ \A K : /\ Needs(graph, s) \subseteq K
                   /\ \A t \in K : Needs(graph, t) \subseteq K
                   => Before(graph, s) \subseteq K
  <1> DEFINE D == SUBSET Sections
             Grown(k) == k \cup UNION {Needs(graph, t) : t \in k}
             F == [k \in D |-> Grown(k)]
             N == Rounds
             Go == [z \in Nat \X D |-> F[z[2]]]
             m == [k \in D |-> N - Cardinality(k)]
             found == CHOOSE f : f = [i \in 0..N |->
                        IF i = 0 THEN Needs(graph, s)
                        ELSE f[i - 1] \cup UNION {Needs(graph, t) : t \in f[i - 1]}]
  <1>1. Before(graph, s) = found[N]
    BY Zenon DEF Before
  <1>2. /\ N \in Nat /\ F \in [D -> D] /\ Needs(graph, s) \in D
        /\ \A t : Needs(graph, t) \in D
    BY RoundsFact DEF Needs
  <1>3. found = [i \in 0..N |-> IF i = 0 THEN Needs(graph, s)
                                ELSE found[i - 1] \cup UNION {Needs(graph, t) : t \in found[i - 1]}]
    <2> HIDE DEF F, D, N, m, Go, found
    <2>2. PICK f : IsRun(f, D, Go, Needs(graph, s), N)
      <3>1. IsLoop(D, Go, Needs(graph, s), N)
        BY <1>2 DEF IsLoop, Go
      <3> QED
        BY <3>1, Iterates
    <2>3. \A i \in 0..N : i # 0 => i \in 1..N /\ f[i - 1] \in D
      BY <1>2, <2>2 DEF IsRun
    <2>4. \A i \in 0..N : f[i] = IF i = 0 THEN Needs(graph, s) ELSE f[i - 1] \cup UNION {Needs(graph, t) : t \in f[i - 1]}
      <3> TAKE i \in 0..N
      <3>1. CASE i = 0
        BY <2>2, <3>1 DEF IsRun
      <3>2. CASE i # 0
        <4>1. f[i] = Go[<<i, f[i - 1]>>] /\ i \in Nat /\ f[i - 1] \in D
          BY <1>2, <2>2, <2>3, <3>2 DEF IsRun
        <4>2. f[i] = F[f[i - 1]]
          BY <4>1 DEF Go
        <4> QED
          BY <3>2, <4>1, <4>2 DEF F
      <3> QED
        BY <3>1, <3>2
    <2>5. f = [i \in 0..N |-> IF i = 0 THEN Needs(graph, s) ELSE f[i - 1] \cup UNION {Needs(graph, t) : t \in f[i - 1]}]
      BY <2>2, <2>4 DEF IsRun
    <2> QED
      BY <2>5 DEF found
  <1> HIDE DEF found
  <1>4. /\ found[0] = Needs(graph, s)
        /\ \A i \in 1..N : found[i] = Grown(found[i - 1])
    BY SMTT(30), <1>2, <1>3
  <1>5. found[N] \in D /\ F[found[N]] = found[N]
    <2>1. m \in [D -> Nat] /\ m[found[0]] <= N
      <3>1. \A k \in D : Cardinality(k) \in Nat /\ Cardinality(k) <= N
        BY RoundsFact, FS_Subset, FS_CardinalityType DEF Rounds
      <3> QED
        BY <1>2, <1>4, <3>1
    <2>2. \A i \in 1..N : found[i - 1] \in D => found[i] = F[found[i - 1]]
      BY <1>4
    <2>3. ASSUME NEW x \in D PROVE F[x] = x \/ m[F[x]] < m[x]
      <3>1. x \subseteq F[x] /\ F[x] \in D
        BY <1>2
      <3>2. IsFiniteSet(F[x]) /\ IsFiniteSet(x) /\ Cardinality(F[x]) \in Nat /\ Cardinality(x) \in Nat
        BY <3>1, RoundsFact, FS_Subset, FS_CardinalityType
      <3>3. F[x] = x \/ Cardinality(x) < Cardinality(F[x])
        BY <3>1, <3>2, FS_Subset
      <3> QED
        BY <1>2, <3>1, <3>2, <3>3
    <2>4. N \in Nat /\ found[0] \in D
      BY <1>2, <1>4
    <2> HIDE DEF F, D, m, N
    <2>5. Falls(D, F, m, N, found)
      BY <1>2, <2>1, <2>2, <2>3, <2>4 DEF Falls
    <2> QED
      BY <2>5, Rests
  <1>6. \A i \in 0..N : Needs(graph, s) \subseteq found[i]
    <2> DEFINE G == {k \in D : Needs(graph, s) \subseteq k}
    <2>1. found[0] \in G /\ \A i \in 1..N : found[i - 1] \in G => found[i] \in G
      BY <1>2, <1>4
    <2>2. \A i \in 0..N : found[i] \in G
      <3> HIDE DEF G, N
      <3> QED
        BY <1>2, <2>1, Throughout
    <2> QED
      BY <2>2
  <1>7. ASSUME NEW K, Needs(graph, s) \subseteq K, \A t \in K : Needs(graph, t) \subseteq K
        PROVE  found[N] \subseteq K
    <2> DEFINE G == SUBSET K
    <2>1. found[0] \in G /\ \A i \in 1..N : found[i - 1] \in G => found[i] \in G
      BY <1>4, <1>7
    <2>2. \A i \in 0..N : found[i] \in G
      <3> HIDE DEF G, N
      <3> QED
        BY <1>2, <2>1, Throughout
    <2> QED
      BY <1>2, <2>2
  <1>8. /\ found[N] \subseteq Sections /\ Needs(graph, s) \subseteq found[N]
        /\ \A t \in found[N] : Needs(graph, t) \subseteq found[N]
    BY <1>2, <1>5, <1>6
  <1> HIDE DEF N, F, D, Grown
  <1> QED
    BY <1>1, <1>7, <1>8

-----------------------------------------------------------------------------
(* Layers. *)

LEMMA LastFact ==
  Last \in Nat /\ \A s \in Sections : s \in 1..Last
  <1>1. IsFiniteSet(Sections \cup {0}) /\ Sections \cup {0} \in SUBSET Nat
    BY SchedulingAssumption, FS_AddElement
  <1>2. PICK n \in Sections \cup {0} : \A s \in Sections \cup {0} : s <= n
    BY <1>1, Greatest
  <1>3. Last \in Sections \cup {0} /\ \A s \in Sections : s <= Last
    BY <1>2 DEF Last
  <1> QED
    BY <1>1, <1>3, SchedulingAssumption

\* A layer takes what waits for nothing more and shares no path, and takes something if
\* there is such a section.
LEMMA LayerFacts ==
  ASSUME NEW graph, NEW available, NEW unresolved \in SUBSET Sections
  PROVE  LET layer == Layer(graph, available, unresolved)
         IN  /\ layer \subseteq unresolved
             /\ \A s \in layer : Needs(graph, s) \subseteq available
             /\ \A s \in layer : \A t \in layer \ {s} : <<s, t>> \notin Clash
             /\ \A s \in unresolved : Needs(graph, s) \subseteq available => layer # {}
  <1> DEFINE D == SUBSET Sections
             Fits(n, l) == /\ n \in unresolved /\ Needs(graph, n) \subseteq available
                           /\ \A t \in l : <<n, t>> \notin Clash
             Take(n, l) == IF Fits(n, l) THEN l \cup {n} ELSE l
             Go == [z \in Nat \X D |-> Take(z[1], z[2])]
             N == Last
             taken == CHOOSE f : f = [n \in 0..N |->
                        IF n = 0 THEN {}
                        ELSE IF /\ n \in unresolved /\ Needs(graph, n) \subseteq available
                                /\ \A t \in f[n - 1] : <<n, t>> \notin Clash
                             THEN f[n - 1] \cup {n} ELSE f[n - 1]]
  <1>1. Layer(graph, available, unresolved) = taken[N]
    BY Zenon DEF Layer
  <1>2. N \in Nat /\ Go \in [Nat \X D -> D] /\ {} \in D
    BY LastFact
  <1>3. taken = [n \in 0..N |-> IF n = 0 THEN {}
                                ELSE IF /\ n \in unresolved /\ Needs(graph, n) \subseteq available
                                        /\ \A t \in taken[n - 1] : <<n, t>> \notin Clash
                                     THEN taken[n - 1] \cup {n} ELSE taken[n - 1]]
    <2>1. PICK f : IsRun(f, D, Go, {}, N)
      <3> HIDE DEF N, Go, D, taken
      <3>1. IsLoop(D, Go, {}, N)
        BY <1>2 DEF IsLoop
      <3> QED
        BY <3>1, Iterates
    <2> HIDE DEF D, N, taken
    <2>2. \A n \in 0..N : f[n] = IF n = 0 THEN {} ELSE Take(n, f[n - 1])
      <3> TAKE n \in 0..N
      <3>1. CASE n = 0
        BY <2>1, <3>1 DEF IsRun
      <3>2. CASE n # 0
        <4>1. n \in 1..N /\ n \in Nat /\ n - 1 \in 0..N
          BY <1>2, <3>2
        <4>2. f[n] = Go[<<n, f[n - 1]>>] /\ f[n - 1] \in D
          BY <2>1, <4>1 DEF IsRun
        <4> QED
          BY <3>2, <4>1, <4>2
      <3> QED
        BY <3>1, <3>2
    <2>3. f = [n \in 0..N |-> IF n = 0 THEN {}
                              ELSE IF /\ n \in unresolved /\ Needs(graph, n) \subseteq available
                                      /\ \A t \in f[n - 1] : <<n, t>> \notin Clash
                                   THEN f[n - 1] \cup {n} ELSE f[n - 1]]
      BY <2>1, <2>2 DEF IsRun
    <2> QED
      BY <2>3 DEF taken
  <1> HIDE DEF taken, Go, N
  <1>4. taken[0] = {} /\ \A n \in 1..N : taken[n] = Take(n, taken[n - 1])
    <2>1. 0 \in 0..N /\ \A n \in 1..N : n \in 0..N /\ n # 0
      BY <1>2
    <2> QED
      BY <1>3, <2>1
  <1>5. /\ taken[N] \subseteq unresolved
        /\ \A s \in taken[N] : Needs(graph, s) \subseteq available
        /\ \A s \in taken[N] : \A t \in taken[N] \ {s} : <<s, t>> \notin Clash
    <2> DEFINE G == {l \in SUBSET unresolved :
                       /\ \A s \in l : Needs(graph, s) \subseteq available
                       /\ \A s \in l : \A t \in l \ {s} : <<s, t>> \notin Clash}
    <2>1. taken[0] \in G
      BY <1>4
    <2>2. ASSUME NEW n \in 1..N, taken[n - 1] \in G PROVE taken[n] \in G
      <3>1. \A s, t : <<s, t>> \in Clash => <<t, s>> \in Clash
        <4> SUFFICES ASSUME NEW s, NEW t, <<s, t>> \in Clash PROVE <<t, s>> \in Clash
          OBVIOUS
        <4> DEFINE p == <<s, t>>
        <4>1. <<p[2], p[1]>> \in Clash
          <5> HIDE DEF p
          <5> QED
            BY SchedulingAssumption DEF p
        <4> QED
          BY <4>1
      <3>2. CASE Fits(n, taken[n - 1])
        <4>1. taken[n] = taken[n - 1] \cup {n}
          BY <1>4, <3>2
        <4> QED
          BY <2>2, <3>1, <3>2, <4>1
      <3>3. CASE ~Fits(n, taken[n - 1])
        <4>1. taken[n] = taken[n - 1]
          BY <1>4, <3>3
        <4> QED
          BY <2>2, <4>1
      <3> QED
        BY <3>2, <3>3
    <2> HIDE DEF G
    <2>3. \A n \in 0..N : taken[n] \in G
      BY <1>2, <2>1, <2>2, Throughout
    <2>4. N \in 0..N
      BY <1>2
    <2> QED
      BY <2>3, <2>4 DEF G
  <1>6. ASSUME NEW s \in unresolved, Needs(graph, s) \subseteq available
        PROVE  taken[N] # {}
    <2>1. s \in 1..N
      BY LastFact DEF N
    <2> DEFINE g == [n \in 0..N |-> <<n, taken[n]>>]
               G == {z \in (0..N) \X {taken[n] : n \in 0..N} : z[1] >= s => z[2] # {}}
    <2>2. g[0] \in G
      BY <1>2, <2>1
    <2>3. ASSUME NEW n \in 1..N, g[n - 1] \in G PROVE g[n] \in G
      <3>1. n - 1 \in 0..N /\ n \in 0..N /\ n - 1 \in Nat /\ n \in Nat /\ s \in Nat
        BY <1>2, <2>1
      <3>2. n - 1 >= s => taken[n - 1] # {}
        BY <2>3, <3>1
      <3>3. n >= s => taken[n] # {}
        <4>1. CASE n = s /\ taken[n - 1] = {}
          <5>1. Fits(n, taken[n - 1])
            BY <1>6, <4>1
          <5> QED
            BY <1>4, <5>1
        <4>2. CASE taken[n - 1] # {}
          <5>1. taken[n - 1] \subseteq taken[n]
            BY <1>4
          <5> QED
            BY <4>2, <5>1
        <4>3. CASE n # s
          BY <1>4, <3>1, <3>2, <4>2, <4>3
        <4> QED
          BY <4>1, <4>2, <4>3
      <3> QED
        BY <3>1, <3>3
    <2>4. g[N] \in G
      <3> HIDE DEF g, G
      <3>1. \A n \in 0..N : g[n] \in G
        BY <1>2, <2>2, <2>3, Throughout
      <3> QED
        BY <1>2, <3>1
    <2> QED
      BY <1>2, <2>1, <2>4
  <1> QED
    BY <1>1, <1>5, <1>6

-----------------------------------------------------------------------------
(* The parallel plan. *)

\* What the first n layers and the sections that are done make available.
Upto(done, layers, n) == done \cup UNION {layers[j] : j \in 1..n}

Todos == [layers : Seq(SUBSET Sections), available : SUBSET Sections, unresolved : SUBSET Sections]

\* What holds after every turn.
Sound(graph, done, x) ==
  /\ x.available = Upto(done, x.layers, Len(x.layers)) /\ x.available \subseteq DOMAIN graph
  /\ x.unresolved = DOMAIN graph \ x.available
  /\ \A s \in x.available : Needs(graph, s) \subseteq x.available
  /\ \A s \in x.available \ done : s \notin Before(graph, s)
  /\ \A i \in 1..Len(x.layers) : \A s \in x.layers[i] :
       /\ Needs(graph, s) \subseteq Upto(done, x.layers, i - 1)
       /\ s \notin Upto(done, x.layers, i - 1)
       /\ \A t \in x.layers[i] \ {s} : <<s, t>> \notin Clash
  /\ Len(x.layers) > 0 => x.layers[1] \subseteq Ready(graph, done)

\* A turn adds a sound layer, if there is anything to add.
LEMMA Turning ==
  ASSUME NEW graph, DOMAIN graph \subseteq Sections, \A s \in DOMAIN graph : graph[s] \subseteq Sections,
         NEW done, NEW x \in Todos, Sound(graph, done, x)
  PROVE  Advance(graph, x) \in Todos /\ Sound(graph, done, Advance(graph, x))
  <1> DEFINE layer == Layer(graph, x.available, x.unresolved)
             old == x.layers
             new == Append(old, layer)
             n == Len(old)
             y == [layers |-> new, available |-> x.available \cup layer,
                   unresolved |-> x.unresolved \ layer]
  <1>1. /\ layer \subseteq x.unresolved
        /\ \A s \in layer : Needs(graph, s) \subseteq x.available
        /\ \A s \in layer : \A t \in layer \ {s} : <<s, t>> \notin Clash
    BY LayerFacts DEF Todos
  <1> HIDE DEF layer
  <1>2. CASE layer = {}
    BY <1>2 DEF Advance, layer
  <1>3. CASE layer # {}
    <2>1. Advance(graph, x) = y
      BY <1>3 DEF Advance, layer
    <2>2. old \in Seq(SUBSET Sections) /\ n \in Nat /\ layer \in SUBSET Sections
      BY <1>1 DEF Todos
    <2>3. /\ new \in Seq(SUBSET Sections) /\ Len(new) = n + 1 /\ new[n + 1] = layer
          /\ \A i \in 1..n : new[i] = old[i]
      BY <2>2
    <2>4. y \in Todos
      BY <2>2, <2>3 DEF Todos
    <2> HIDE DEF new, old, n
    <2>5. \A i \in 0..n : Upto(done, new, i) = Upto(done, old, i)
      BY <2>2, <2>3 DEF Upto
    <2>6. Upto(done, new, n + 1) = Upto(done, old, n) \cup layer
      <3>1. 1..(n + 1) = (1..n) \cup {n + 1}
        BY <2>2
      <3>2. {new[j] : j \in 1..(n + 1)} = {old[j] : j \in 1..n} \cup {layer}
        BY <2>2, <2>3, <3>1
      <3> QED
        BY <3>2 DEF Upto
    <2>7. x.available = Upto(done, old, n)
      BY DEF Sound, old, n
    <2>8. \A s \in layer : s \notin Before(graph, s)
      <3> SUFFICES ASSUME NEW s \in layer PROVE s \notin Before(graph, s)
        OBVIOUS
      <3>1. Before(graph, s) \subseteq x.available
        BY <1>1, BeforeFacts DEF Sound
      <3> QED
        BY <1>1, <3>1 DEF Sound
    <2>9. \A i \in 1..(n + 1) : \A s \in new[i] :
            /\ Needs(graph, s) \subseteq Upto(done, new, i - 1)
            /\ s \notin Upto(done, new, i - 1)
            /\ \A t \in new[i] \ {s} : <<s, t>> \notin Clash
      <3> TAKE i \in 1..(n + 1)
      <3>1. CASE i = n + 1
        <4>1. i - 1 = n /\ n \in 0..n /\ new[i] = layer
          BY <2>2, <2>3, <3>1
        <4>2. \A s \in layer : s \notin x.available
          BY <1>1 DEF Sound
        <4> QED
          BY <1>1, <2>5, <2>7, <4>1, <4>2
      <3>2. CASE i # n + 1
        <4>1. i \in 1..n /\ i - 1 \in 0..n
          BY <2>2, <3>2
        <4>2. new[i] = old[i] /\ Upto(done, new, i - 1) = Upto(done, old, i - 1)
          BY <2>3, <2>5, <4>1
        <4> QED
          BY <4>1, <4>2 DEF Sound, old, n
      <3> QED
        BY <3>1, <3>2
    <2>10. new[1] \subseteq Ready(graph, done)
      <3>1. CASE n = 0
        <4>1. new[1] = layer /\ Upto(done, old, n) = done
          BY <2>3, <3>1 DEF Upto
        <4> QED
          BY <1>1, <2>7, <4>1 DEF Ready, Sound
      <3>2. CASE n # 0
        <4>1. n > 0 /\ 1 \in 1..n
          BY <2>2, <3>2
        <4> QED
          BY <2>3, <4>1 DEF Sound, old, n
      <3> QED
        BY <3>1, <3>2
    <2>11. y.layers = new /\ y.available = x.available \cup layer /\ y.unresolved = x.unresolved \ layer
      OBVIOUS
    <2>12. layer \subseteq DOMAIN graph
      BY <1>1 DEF Sound
    <2> HIDE DEF y
    <2>13. y.available = Upto(done, new, n + 1) /\ y.available \subseteq DOMAIN graph
      BY <2>6, <2>7, <2>11, <2>12 DEF Sound
    <2>14. y.unresolved = DOMAIN graph \ y.available
      BY <2>11 DEF Sound
    <2>15. \A s \in y.available : Needs(graph, s) \subseteq y.available
      BY <1>1, <2>11 DEF Sound
    <2>16. \A s \in y.available \ done : s \notin Before(graph, s)
      BY <2>8, <2>11 DEF Sound
    <2>17. Sound(graph, done, y)
      BY <2>3, <2>9, <2>10, <2>11, <2>13, <2>14, <2>15, <2>16 DEF Sound
    <2> QED
      BY <2>1, <2>4, <2>17
  <1> QED
    BY <1>2, <1>3

\* The plan is sound, and nothing it leaves could be added.
LEMMA PlanFacts ==
  ASSUME NEW graph, DOMAIN graph \subseteq Sections, \A s \in DOMAIN graph : graph[s] \subseteq Sections,
         NEW done \in SUBSET DOMAIN graph, \A s \in done : Needs(graph, s) \subseteq done
  PROVE  LET x == ParallelPlan(graph, done)
         IN  /\ x \in Todos /\ Sound(graph, done, x)
             /\ \A s \in x.unresolved : ~(Needs(graph, s) \subseteq x.available)
  <1> DEFINE D == {x \in Todos : Sound(graph, done, x)}
             b == [layers |-> <<>>, available |-> done, unresolved |-> DOMAIN graph \ done]
             F == [x \in D |-> Advance(graph, x)]
             Go == [z \in Nat \X D |-> F[z[2]]]
             m == [x \in D |-> Cardinality(x.unresolved)]
             N == Rounds
             turn == CHOOSE f : f = [i \in 0..N |-> IF i = 0 THEN b ELSE Advance(graph, f[i - 1])]
  <1>1. ParallelPlan(graph, done) = turn[N]
    BY Zenon DEF ParallelPlan
  <1>2. b \in D
    <2>1. b \in Todos
      BY DEF Todos
    <2>2. b.layers = <<>> /\ b.available = done /\ b.unresolved = DOMAIN graph \ done /\ Len(b.layers) = 0
      OBVIOUS
    <2> HIDE DEF b
    <2>3. Upto(done, b.layers, 0) = done
      BY DEF Upto
    <2>4. Sound(graph, done, b)
      BY <2>2, <2>3 DEF Sound
    <2> QED
      BY <2>1, <2>4
  <1> HIDE DEF b
  <1>3. N \in Nat /\ F \in [D -> D] /\ Go \in [Nat \X D -> D]
    BY RoundsFact, Turning
  <1>4. turn = [i \in 0..N |-> IF i = 0 THEN b ELSE Advance(graph, turn[i - 1])]
    <2> HIDE DEF F, D, N, Go, m, turn
    <2>1. PICK f : IsRun(f, D, Go, b, N)
      <3>1. IsLoop(D, Go, b, N)
        BY <1>2, <1>3 DEF IsLoop
      <3> QED
        BY <3>1, Iterates
    <2>2. \A i \in 0..N : f[i] = IF i = 0 THEN b ELSE Advance(graph, f[i - 1])
      <3> TAKE i \in 0..N
      <3>1. CASE i = 0
        BY <2>1, <3>1 DEF IsRun
      <3>2. CASE i # 0
        <4>1. i \in 1..N /\ i \in Nat /\ i - 1 \in 0..N
          BY <1>3, <3>2
        <4>2. f[i] = Go[<<i, f[i - 1]>>] /\ f[i - 1] \in D
          BY <2>1, <4>1 DEF IsRun
        <4>3. f[i] = F[f[i - 1]]
          BY <4>1, <4>2 DEF Go
        <4> QED
          BY <3>2, <4>2, <4>3 DEF F
      <3> QED
        BY <3>1, <3>2
    <2>3. f = [i \in 0..N |-> IF i = 0 THEN b ELSE Advance(graph, f[i - 1])]
      BY <2>1, <2>2 DEF IsRun
    <2> QED
      BY <2>3 DEF turn
  <1> HIDE DEF turn
  <1>5. turn[0] = b /\ \A i \in 1..N : turn[i] = Advance(graph, turn[i - 1])
    <2>1. 0 \in 0..N /\ \A i \in 1..N : i \in 0..N /\ i # 0
      BY <1>3
    <2> HIDE DEF N
    <2> QED
      BY <1>4, <2>1
  <1>6. ASSUME NEW x \in D
        PROVE  /\ x \in Todos /\ Sound(graph, done, x)
               /\ \/ /\ Advance(graph, x) = x
                     /\ \A s \in x.unresolved : ~(Needs(graph, s) \subseteq x.available)
                  \/ Cardinality(Advance(graph, x).unresolved) < Cardinality(x.unresolved)
    <2> DEFINE layer == Layer(graph, x.available, x.unresolved)
    <2>1. x \in Todos /\ Sound(graph, done, x)
      OBVIOUS
    <2> HIDE DEF D
    <2>2. /\ layer \subseteq x.unresolved
          /\ \A s \in x.unresolved : Needs(graph, s) \subseteq x.available => layer # {}
      BY <2>1, LayerFacts DEF Todos
    <2>3. CASE layer = {}
      <3>1. Advance(graph, x) = x
        BY <2>3 DEF Advance
      <3> QED
        BY <2>1, <2>2, <2>3, <3>1
    <2>4. CASE layer # {}
      <3>1. Advance(graph, x).unresolved = x.unresolved \ layer
        BY <2>4 DEF Advance
      <3>2. IsFiniteSet(x.unresolved)
        BY <2>1, RoundsFact, FS_Subset DEF Todos
      <3> HIDE DEF layer
      <3> DEFINE less == x.unresolved \ layer
      <3>3. less \subseteq x.unresolved /\ less # x.unresolved
        BY <2>2, <2>4
      <3> HIDE DEF less
      <3>4. Cardinality(less) < Cardinality(x.unresolved)
        BY <3>2, <3>3, FS_Subset, FS_CardinalityType
      <3> QED
        BY <2>1, <3>1, <3>4 DEF less
    <2> QED
      BY <2>3, <2>4
  <1>7. turn[N] \in D /\ F[turn[N]] = turn[N]
    <2>1. m \in [D -> Nat] /\ m[turn[0]] <= N
      <3>1. ASSUME NEW x \in D PROVE Cardinality(x.unresolved) \in Nat /\ Cardinality(x.unresolved) <= N
        BY RoundsFact, FS_Subset, FS_CardinalityType DEF Rounds, Todos
      <3> HIDE DEF D, N
      <3> QED
        BY <1>2, <1>5, <3>1
    <2>2. \A i \in 1..N : turn[i - 1] \in D => turn[i] = F[turn[i - 1]]
      BY <1>5
    <2>3. \A x \in D : F[x] = x \/ m[F[x]] < m[x]
      <3> HIDE DEF D
      <3> QED
        BY <1>3, <1>6
    <2>4. turn[0] \in D
      BY <1>2, <1>5
    <2> HIDE DEF F, D, m, N, Go
    <2>5. Falls(D, F, m, N, turn)
      BY <1>3, <2>1, <2>2, <2>3, <2>4 DEF Falls
    <2> QED
      BY <2>5, Rests
  <1>8. Advance(graph, turn[N]) = turn[N]
    <2> HIDE DEF D
    <2> QED
      BY <1>7
  <1>9. Cardinality(turn[N].unresolved) \in Nat
    BY <1>7, RoundsFact, FS_Subset, FS_CardinalityType DEF Todos
  <1>10. \A s \in turn[N].unresolved : ~(Needs(graph, s) \subseteq turn[N].available)
    <2> HIDE DEF D
    <2> QED
      BY <1>6, <1>7, <1>8, <1>9
  <1> QED
    BY <1>1, <1>7, <1>10

\* Where every section of a set waits for another of it, one of them comes before itself:
\* of those that do not, none could have fewest before it.
LEMMA Circles ==
  ASSUME NEW graph, \A s \in DOMAIN graph : graph[s] \subseteq Sections,
         NEW C, C # {}, \A t \in C : \E w \in C : w \in Needs(graph, t)
  PROVE  \E t \in C : t \in Before(graph, t)
  <1> SUFFICES ASSUME \A t \in C : t \notin Before(graph, t) PROVE FALSE
    OBVIOUS
  <1>1. \A t : /\ IsFiniteSet(Before(graph, t)) /\ Cardinality(Before(graph, t)) \in Nat
    BY BeforeFacts, RoundsFact, FS_Subset, FS_CardinalityType
  <1>2. PICK t \in C : \A u \in C : Cardinality(Before(graph, t)) <= Cardinality(Before(graph, u))
    <2> DEFINE Sizes == {Cardinality(Before(graph, t)) : t \in C}
    <2>1. Sizes \in SUBSET Nat /\ Sizes # {}
      BY <1>1
    <2> HIDE DEF Sizes
    <2>2. PICK n \in Sizes : \A k \in Sizes : n <= k
      BY <2>1, Least
    <2> QED
      BY <2>2 DEF Sizes
  <1>3. PICK w \in C : w \in Needs(graph, t)
    OBVIOUS
  <1>4. w \in Before(graph, t) /\ Before(graph, w) \subseteq Before(graph, t)
    <2>1. w \in Before(graph, t)
      BY <1>3, BeforeFacts
    <2>2. Needs(graph, w) \subseteq Before(graph, t)
      BY <2>1, BeforeFacts
    <2>3. \A u \in Before(graph, t) : Needs(graph, u) \subseteq Before(graph, t)
      BY BeforeFacts
    <2> QED
      BY <2>1, <2>2, <2>3, BeforeFacts
  <1>5. Before(graph, w) # Before(graph, t)
    BY <1>4
  <1>6. Cardinality(Before(graph, w)) < Cardinality(Before(graph, t))
    <2> DEFINE few == Before(graph, w)
               many == Before(graph, t)
    <2>1. few \in SUBSET many /\ few # many /\ IsFiniteSet(many)
          /\ Cardinality(few) \in Nat /\ Cardinality(many) \in Nat
      BY <1>1, <1>4, <1>5
    <2> HIDE DEF few, many
    <2>2. Cardinality(few) < Cardinality(many)
      BY <2>1, FS_Subset
    <2> QED
      BY <2>2 DEF few, many
  <1> QED
    BY <1>1, <1>2, <1>6

-----------------------------------------------------------------------------
(* The type invariant. *)

Steps == {"idle", "load", "weigh", "judge", "bind", "review", "decide", "gate"}
Shows == Plans \cup {Attested}

Fields == {"pc", "sec", "mode", "evidence", "quiet", "saved", "needs", "ran", "contract"}

Commanding(c) ==
  /\ c.sec \in Sections /\ c.quiet \in BOOLEAN
  /\ c.pc \in {"bind", "review", "decide", "gate"} => c.ran \in Shows

\* A state as it is saved: a record, and who has what.
Saved(st) ==
  /\ st = [completed |-> st.completed, pending |-> st.pending]
  /\ DOMAIN st.completed \subseteq Sections /\ st.pending \subseteq Sections
  /\ \A s \in DOMAIN st.completed : st.completed[s].shown \in Shows

\* What a command knows, and that a published state is what it published.
Control ==
  /\ proc = [p \in Processes |-> proc[p]]
  /\ \A p \in Processes : DOMAIN proc[p] = Fields /\ proc[p].pc \in Steps
                           /\ proc[p] = [f \in Fields |-> proc[p][f]]
  /\ \A p \in Running : Commanding(proc[p])
  /\ \A p \in Running : proc[p].pc # "load" => Saved(proc[p].saved)
  /\ \A p \in Running : proc[p].pc = "gate" => state = HeldBack(proc[p])

IInv == TypeOK /\ Saved(state) /\ Control

-----------------------------------------------------------------------------
LEMMA InitInv == Init => IInv
  <1> SUFFICES ASSUME Init PROVE IInv
    OBVIOUS
  <1> USE MutablePlanAssumption DEF Init, Idle, Running
  <1>1. TypeOK
    BY DEF TypeOK, Plans, Texts
  <1>2. Saved(state) /\ Control
    BY DEF Saved, Control, Steps, Fields
  <1> QED
    BY <1>1, <1>2 DEF IInv

-----------------------------------------------------------------------------
(* A command that goes on with something more it knows. *)

LEMMA GoingOn ==
  ASSUME IInv, NEW p \in Processes, proc[p].pc # "idle", NEW c, NEW pc \in Steps \ {"idle"},
         DOMAIN c = Fields, c = [f \in Fields |-> c[f]],
         Commanding([c EXCEPT !.pc = pc]), GoesOn(p, c, pc),
         pc # "load" => Saved(c.saved),
         pc = "gate" => state' = HeldBack(c),
         pc # "gate" => state' = state /\ (pc # "load" => c.saved = state),
         Saved(state'), UNCHANGED <<plan, receipts, lock, spent>>
  PROVE  IInv'
  <1> DEFINE d == [c EXCEPT !.pc = pc]
  <1> USE DEF IInv, GoesOn
  <1>1. /\ proc' = [proc EXCEPT ![p] = d]
        /\ DOMAIN d = Fields /\ d = [f \in Fields |-> d[f]]
        /\ d.pc = pc /\ d.saved = c.saved /\ d.sec = c.sec
    BY DEF Fields
  <1>2. proc'[p] = d /\ \A q \in Processes \ {p} : proc'[q] = proc[q]
    BY <1>1 DEF Control
  <1>3. Running' = Running /\ p \in Running /\ Running = {p}
    BY <1>1, <1>2, MutablePlanAssumption DEF Running, Steps, TypeOK
  <1>4. Control'
    <2>1. proc' = [q \in Processes |-> proc'[q]]
      BY <1>1, <1>2 DEF Control
    <2>2. \A q \in Processes : DOMAIN proc'[q] = Fields /\ proc'[q].pc \in Steps
                               /\ proc'[q] = [f \in Fields |-> proc'[q][f]]
      <3> HIDE DEF d
      <3> QED
        BY <1>1, <1>2 DEF Control
    <2>3. HeldBack(d) = HeldBack(c)
      BY <1>1 DEF HeldBack
    <2> QED
      BY <2>1, <2>2, <2>3, <1>1, <1>2, <1>3 DEF Control
  <1>5. TypeOK'
    <2>1. \A q \in Running' : proc'[q].pc # "load" /\ proc'[q].pc # "gate" => proc'[q].saved = state'
      BY <1>1, <1>2, <1>3
    <2>2. DOMAIN state' = {"completed", "pending"}
      BY DEF Saved
    <2> QED
      BY <1>3, <2>1, <2>2 DEF TypeOK, Saved, Shows
  <1> QED
    BY <1>4, <1>5
-----------------------------------------------------------------------------
(* A command that ends, or has not begun. *)

LEMMA Ending ==
  ASSUME IInv, NEW p \in Processes, proc[p].pc # "idle", Finish(p),
         Saved(state'), UNCHANGED <<plan, receipts>>,
         spent' \in [edits : 0..MaxEdits, faults : 0..MaxFaults]
  PROVE  IInv'
  <1> USE DEF IInv, Finish
  <1>1. /\ proc' = [proc EXCEPT ![p] = Idle] /\ Idle.pc = "idle"
        /\ DOMAIN Idle = Fields /\ Idle = [f \in Fields |-> Idle[f]]
    BY DEF Idle, Fields
  <1>2. proc'[p] = Idle /\ \A q \in Processes \ {p} : proc'[q] = proc[q]
    BY <1>1 DEF Control
  <1>3. Running = {p} /\ Running' = {}
    BY <1>1, <1>2, MutablePlanAssumption DEF Running, TypeOK
  <1>4. Control'
    <2>1. proc' = [q \in Processes |-> proc'[q]]
      BY <1>1, <1>2 DEF Control
    <2>2. \A q \in Processes : DOMAIN proc'[q] = Fields /\ proc'[q].pc \in Steps
                               /\ proc'[q] = [f \in Fields |-> proc'[q][f]]
      BY <1>1, <1>2 DEF Control, Steps
    <2> QED
      BY <2>1, <2>2, <1>3 DEF Control
  <1>5. TypeOK'
    <2>1. DOMAIN state' = {"completed", "pending"}
      BY DEF Saved
    <2> QED
      BY <1>3, <2>1 DEF TypeOK, Saved, Shows
  <1> QED
    BY <1>4, <1>5

LEMMA Beginning ==
  ASSUME IInv, NEW p \in Processes, NEW s \in Sections, NEW mode \in Modes,
         NEW evidence \in {"manual", "receipt"}, Start(p, s, mode, evidence)
  PROVE  IInv'
  <1> DEFINE c == [Idle EXCEPT !.sec = s, !.mode = mode, !.evidence = evidence]
             d == [c EXCEPT !.pc = "load"]
  <1> USE DEF IInv, Start
  <1>1. /\ proc' = [proc EXCEPT ![p] = d] /\ d.pc = "load" /\ d.sec = s /\ d.quiet = TRUE
        /\ DOMAIN d = Fields /\ d = [f \in Fields |-> d[f]]
    BY DEF Idle, Fields, GoesOn
  <1> HIDE DEF d
  <1>2. proc'[p] = d /\ \A q \in Processes \ {p} : proc'[q] = proc[q]
    BY <1>1 DEF Control
  <1>3. Running = {} /\ Running' = {p} /\ lock' = p
    <2>1. lock = None /\ lock' = p
      BY DEF Locked
    <2>2. Running = {}
      BY <2>1 DEF TypeOK
    <2>3. \A q \in Processes : proc'[q].pc # "idle" <=> q = p
      BY <1>1, <1>2, <2>2 DEF Running
    <2> QED
      BY <2>1, <2>2, <2>3 DEF Running
  <1>4. Control'
    <2>1. proc' = [q \in Processes |-> proc'[q]]
      BY <1>1, <1>2 DEF Control
    <2>2. \A q \in Processes : DOMAIN proc'[q] = Fields /\ proc'[q].pc \in Steps
                               /\ proc'[q] = [f \in Fields |-> proc'[q][f]]
      BY <1>1, <1>2 DEF Control, Steps
    <2>3. Commanding(d)
      BY <1>1 DEF Commanding
    <2> QED
      BY <2>1, <2>2, <2>3, <1>1, <1>2, <1>3 DEF Control
  <1>5. TypeOK'
    <2>1. \A q \in Running' : proc'[q].pc = "load"
      BY <1>1, <1>2, <1>3
    <2>2. Running' = {lock'} \ {None}
      BY <1>3, MutablePlanAssumption
    <2> QED
      BY <2>1, <2>2 DEF TypeOK
  <1> QED
    BY <1>4, <1>5 DEF Saved

-----------------------------------------------------------------------------
(* What is written is a state again. *)

LEMMA CandidateSaved ==
  ASSUME NEW c, c.sec \in Sections, c.ran \in Shows, Saved(c.saved)
  PROVE  /\ Saved(Candidate(c))
         /\ DOMAIN Candidate(c).completed = DOMAIN c.saved.completed \cup {c.sec}
         /\ Candidate(c).pending = c.saved.pending \ {c.sec}
  <1>1. Record(c, TRUE).shown \in Shows
    BY DEF Record, Shows
  <1> QED
    BY <1>1 DEF Saved, Candidate, With

LEMMA HeldBackSaved ==
  ASSUME NEW c, c.sec \in Sections, Saved(c.saved)
  PROVE  /\ Saved(HeldBack(c))
         /\ HeldBack(c).completed = c.saved.completed
         /\ HeldBack(c).pending = c.saved.pending \cup {c.sec}
  <1> DEFINE st == c.saved
             more == st.pending \cup {c.sec}
  <1>1. HeldBack(c) = [st EXCEPT !.pending = more]
    BY DEF HeldBack
  <1>2. st = [completed |-> st.completed, pending |-> st.pending]
    BY DEF Saved
  <1> HIDE DEF more, st
  <1>3. HeldBack(c) = [completed |-> st.completed, pending |-> more]
    BY <1>1, <1>2
  <1>4. HeldBack(c).completed = st.completed /\ HeldBack(c).pending = more
    BY <1>3
  <1>5. Saved(HeldBack(c))
    BY <1>3, <1>4 DEF Saved, st, more
  <1> QED
    BY <1>4, <1>5 DEF st, more

LEMMA StepInv ==
  ASSUME IInv, NEW p \in Processes, Step(p) \/ Fail(p) \/ Die(p)
  PROVE  IInv'
  <1> DEFINE c == proc[p]
  <1>1. DOMAIN c = Fields /\ c = [f \in Fields |-> c[f]] /\ c.pc \in Steps
    BY DEF IInv, Control
  <1>2. c.pc # "idle" => /\ p \in Running /\ Commanding(c)
                         /\ c.pc # "load" => Saved(c.saved)
                         /\ c.pc # "load" /\ c.pc # "gate" => c.saved = state
                         /\ c.pc = "gate" => state = HeldBack(c)
    BY DEF IInv, Control, TypeOK, Running
  <1>3. Saved(state) /\ spent \in [edits : 0..MaxEdits, faults : 0..MaxFaults]
    BY DEF IInv, TypeOK
  <1> HIDE DEF c
  <1>4. CASE Load(p)
    <2> DEFINE d == [c EXCEPT !.saved = state, !.needs = Needs(plan.index, c.sec)]
    <2>1. /\ DOMAIN d = Fields /\ d = [f \in Fields |-> d[f]] /\ d.saved = state
          /\ Commanding([d EXCEPT !.pc = "weigh"])
      BY <1>1, <1>2, <1>4 DEF Fields, Commanding, Load, c
    <2> HIDE DEF d
    <2>2. GoesOn(p, d, "weigh") /\ c.pc = "load"
      BY <1>4 DEF Load, c, d
    <2> QED
      BY <1>3, <1>4, <2>1, <2>2, GoingOn DEF Load, Steps, c
  <1>5. CASE Weigh(p)
    <2>1. Commanding([c EXCEPT !.pc = "judge"]) /\ c.pc = "weigh" /\ GoesOn(p, c, "judge")
      BY <1>1, <1>2, <1>5 DEF Fields, Commanding, Weigh, c
    <2> QED
      BY <1>1, <1>2, <1>3, <1>5, <2>1, GoingOn DEF Weigh, Steps, c
  <1>6. CASE Judge(p)
    <2>1. PICK run \in Shows : GoesOn(p, [c EXCEPT !.ran = run], "bind")
      <3>1. receipts[c.sec] = plan => receipts[c.sec] \in Shows
        BY DEF IInv, TypeOK, Shows
      <3> QED
        BY <1>6, <3>1 DEF Judge, Shows, ReceiptHolds, c
    <2> DEFINE d == [c EXCEPT !.ran = run]
    <2>2. /\ DOMAIN d = Fields /\ d = [f \in Fields |-> d[f]] /\ d.saved = c.saved
          /\ Commanding([d EXCEPT !.pc = "bind"]) /\ c.pc = "judge"
      BY <1>1, <1>2, <1>6 DEF Fields, Commanding, Judge, c
    <2> HIDE DEF d
    <2>3. GoesOn(p, d, "bind")
      BY <2>1 DEF d
    <2> QED
      BY <1>2, <1>3, <1>6, <2>2, <2>3, GoingOn DEF Judge, Steps, c
  <1>7. CASE Bind(p)
    <2> DEFINE d == [c EXCEPT !.contract = Contract(plan, c.sec)]
    <2>1. /\ DOMAIN d = Fields /\ d = [f \in Fields |-> d[f]] /\ d.saved = c.saved
          /\ Commanding([d EXCEPT !.pc = "review"]) /\ c.pc = "bind"
      BY <1>1, <1>2, <1>7 DEF Fields, Commanding, Bind, c
    <2> HIDE DEF d
    <2>2. GoesOn(p, d, "review")
      BY <1>7 DEF Bind, c, d
    <2> QED
      BY <1>2, <1>3, <1>7, <2>1, <2>2, GoingOn DEF Bind, Steps, c
  <1>8. CASE Review(p)
    <2>1. Commanding([c EXCEPT !.pc = "decide"]) /\ c.pc = "review" /\ GoesOn(p, c, "decide")
      BY <1>1, <1>2, <1>8 DEF Fields, Commanding, Review, c
    <2> QED
      BY <1>1, <1>2, <1>3, <1>8, <2>1, GoingOn DEF Review, Steps, c
  <1>9. CASE Close(p)
    <2>1. c.pc = "decide" /\ state' = Candidate(c) /\ Finish(p) /\ UNCHANGED <<plan, receipts, spent>>
      BY <1>9 DEF Close, c
    <2>2. Saved(state')
      BY <1>2, <2>1, CandidateSaved DEF Commanding
    <2> QED
      BY <1>3, <2>1, <2>2, Ending DEF c
  <1>10. CASE Hold(p)
    <2>1. /\ c.pc = "decide" /\ state' = HeldBack(c) /\ GoesOn(p, c, "gate")
          /\ UNCHANGED <<plan, receipts, lock, spent>>
      BY <1>10 DEF Hold, c
    <2>2. Saved(state') /\ Commanding([c EXCEPT !.pc = "gate"])
      BY <1>1, <1>2, <2>1, HeldBackSaved DEF Commanding, Fields
    <2> QED
      BY <1>1, <1>2, <2>1, <2>2, GoingOn DEF Steps, c
  <1>11. CASE Pass(p)
    <2>1. c.pc = "gate" /\ state' = Candidate(c) /\ Finish(p) /\ UNCHANGED <<plan, receipts, spent>>
      BY <1>11 DEF Pass, c
    <2>2. Saved(state')
      BY <1>2, <2>1, CandidateSaved DEF Commanding
    <2> QED
      BY <1>3, <2>1, <2>2, Ending DEF c
  <1>12. CASE Fail(p)
    <2>1. /\ c.pc = "gate" /\ state' \in {Candidate(c), HeldBack(c)} /\ Finish(p)
          /\ UNCHANGED <<plan, receipts>>
      BY <1>12 DEF Fail, c
    <2>2. Saved(state')
      BY <1>2, <2>1, CandidateSaved, HeldBackSaved DEF Commanding
    <2>3. spent' \in [edits : 0..MaxEdits, faults : 0..MaxFaults]
      BY <1>3, <1>12, MutablePlanAssumption DEF Fail, Fault
    <2> QED
      BY <2>1, <2>2, <2>3, Ending DEF c
  <1>13. CASE Refuse(p)
    <2>1. c.pc # "idle"
      BY <1>13 DEF Refuse, Refuses, c
    <2> QED
      BY <1>3, <1>13, <2>1, Ending DEF Refuse, c
  <1>14. CASE Die(p)
    <2>1. spent' \in [edits : 0..MaxEdits, faults : 0..MaxFaults]
      BY <1>3, <1>14, MutablePlanAssumption DEF Die, Fault
    <2> QED
      BY <1>3, <1>14, <2>1, Ending DEF Die
  <1> QED
    BY <1>4, <1>5, <1>6, <1>7, <1>8, <1>9, <1>10, <1>11, <1>12, <1>13, <1>14 DEF Step

LEMMA EditInv ==
  ASSUME IInv, NEW new \in Plans, Edit(new)
  PROVE  IInv'
  <1> USE DEF IInv, Edit
  <1>1. \A p \in Processes :
          /\ DOMAIN proc'[p] = Fields /\ proc'[p] = [f \in Fields |-> proc'[p][f]]
          /\ proc'[p].pc = proc[p].pc
          /\ proc[p].pc # "idle" => /\ proc'[p].sec = proc[p].sec /\ proc'[p].ran = proc[p].ran
                                    /\ proc'[p].saved = proc[p].saved /\ proc'[p].quiet = FALSE
    BY DEF Control, Idle, Fields
  <1>2. Running' = Running
    BY <1>1 DEF Running
  <1>3. Control'
    <2>1. proc' = [p \in Processes |-> proc'[p]]
      OBVIOUS
    <2>2. \A p \in Running : proc[p].pc = "gate" => HeldBack(proc'[p]) = HeldBack(proc[p])
      BY <1>1 DEF HeldBack, Running
    <2>3. \A p \in Running' : Commanding(proc'[p])
      BY <1>1, <1>2 DEF Control, Commanding, Running
    <2>4. \A p \in Running' : proc'[p].pc # "load" => Saved(proc'[p].saved)
      BY <1>1, <1>2 DEF Control, Running
    <2>5. \A p \in Running' : proc'[p].pc = "gate" => state' = HeldBack(proc'[p])
      BY ZenonT(30), <1>1, <1>2, <2>2 DEF Control, Running
    <2>6. \A p \in Running' : proc'[p].pc # "load" => Saved(proc[p].saved)'
      BY <2>4 DEF Saved
    <2>7. \A p \in Processes : /\ DOMAIN proc'[p] = Fields /\ proc'[p].pc \in Steps
                               /\ proc'[p] = [f \in Fields |-> proc'[p][f]]
      BY <1>1 DEF Control
    <2> QED
      BY <2>1, <2>3, <2>5, <2>6, <2>7 DEF Control, HeldBack
  <1>4. TypeOK'
    <2>1. spent' \in [edits : 0..MaxEdits, faults : 0..MaxFaults]
      BY MutablePlanAssumption DEF TypeOK
    <2> QED
      BY SMTT(30), <1>1, <1>2, <2>1 DEF TypeOK, Running
  <1> QED
    BY <1>3, <1>4 DEF Saved

LEMMA NextInv == IInv /\ [Next]_vars => IInv'
  <1> SUFFICES ASSUME IInv, [Next]_vars PROVE IInv'
    OBVIOUS
  <1>1. ASSUME NEW p \in Processes, Step(p) \/ Fail(p) \/ Die(p) PROVE IInv'
    BY <1>1, StepInv
  <1>2. ASSUME NEW p \in Processes, NEW s \in Sections, NEW mode \in Modes,
               NEW evidence \in {"manual", "receipt"}, Start(p, s, mode, evidence)
        PROVE  IInv'
    BY <1>2, Beginning
  <1>3. ASSUME NEW s \in Sections, Verify(s) PROVE IInv'
    <2>1. receipts' \in [Sections -> Plans \cup {None}]
      BY <1>3 DEF Verify, IInv, TypeOK
    <2> QED
      BY <1>3, <2>1 DEF Verify, IInv, TypeOK, Control, Saved, Running, HeldBack, Commanding
  <1>4. ASSUME NEW s \in Sections, EditText(s) PROVE IInv'
    <2>1. [plan EXCEPT !.text[s] = spent.edits + 2] \in Plans
      BY <1>4, MutablePlanAssumption DEF EditText, Edit, IInv, TypeOK, Plans, Texts
    <2> QED
      BY <1>4, <2>1, EditInv DEF EditText
  <1>5. CASE EditIndex
    <2>1. PICK g \in Graphs : Edit([plan EXCEPT !.index = g])
      BY <1>5 DEF EditIndex
    <2>2. [plan EXCEPT !.index = g] \in Plans
      BY DEF IInv, TypeOK, Plans
    <2> QED
      BY <2>1, <2>2, EditInv
  <1>6. CASE UNCHANGED vars
    BY <1>6 DEF vars, IInv, TypeOK, Control, Saved, Running, HeldBack, Commanding
  <1> QED
    BY <1>1, <1>2, <1>3, <1>4, <1>5, <1>6 DEF Next

-----------------------------------------------------------------------------
\* Every variable keeps its type and what runs works on the state as it is saved
\* (file_lock around _mutable_record_section).
THEOREM TypeCorrect == Spec => []TypeOK
  <1>1. Spec => []IInv
    BY InitInv, NextInv, PTL DEF Spec
  <1> QED
    BY <1>1, PTL DEF IInv

-----------------------------------------------------------------------------
(* What one step does to the record, told from the state as it is saved. *)

LEMMA StepEffect ==
  ASSUME IInv, [Next]_vars
  PROVE  \/ UNCHANGED state
         \/ \E p \in Processes :
              /\ proc[p].sec \in Sections
              /\ \/ /\ proc[p].pc = "decide"
                    /\ DOMAIN state'.completed = DOMAIN state.completed \cup {proc[p].sec}
                    /\ proc[p].sec \notin state.pending
                    /\ state'.pending = state.pending
                 \/ /\ proc[p].pc = "decide"
                    /\ DOMAIN state'.completed = DOMAIN state.completed
                    /\ state'.pending = state.pending \cup {proc[p].sec}
                 \/ /\ proc[p].pc = "gate"
                    /\ proc[p].sec \in state.pending
                    /\ DOMAIN state'.completed = DOMAIN state.completed \cup {proc[p].sec}
                    /\ state'.pending = state.pending \ {proc[p].sec}
  <1>1. ASSUME NEW p \in Processes, proc[p].pc \in {"decide", "gate"}
        PROVE  /\ Saved(proc[p].saved) /\ proc[p].sec \in Sections /\ proc[p].ran \in Shows
               /\ proc[p].pc = "decide" => proc[p].saved = state
               /\ proc[p].pc = "gate" => state = HeldBack(proc[p])
    BY <1>1 DEF IInv, Control, TypeOK, Running, Commanding
  <1>2. ASSUME NEW p \in Processes, Close(p)
        PROVE  /\ proc[p].pc = "decide" /\ proc[p].sec \in Sections
               /\ DOMAIN state'.completed = DOMAIN state.completed \cup {proc[p].sec}
               /\ proc[p].sec \notin state.pending
               /\ state'.pending = state.pending
    <2> DEFINE c == proc[p]
    <2>1. c.pc = "decide" /\ ~Refused(c) /\ ~Gated(c) /\ state' = Candidate(c)
      BY <1>2 DEF Close
    <2>2. c.saved = state /\ c.sec \notin state.pending
      BY <1>1, <2>1 DEF Refused, Gated
    <2>3. state.pending \ {c.sec} = state.pending
      BY <2>2
    <2> QED
      BY <1>1, <2>1, <2>2, <2>3, CandidateSaved
  <1>3. ASSUME NEW p \in Processes, Hold(p)
        PROVE  /\ proc[p].pc = "decide" /\ proc[p].sec \in Sections
               /\ DOMAIN state'.completed = DOMAIN state.completed
               /\ state'.pending = state.pending \cup {proc[p].sec}
    BY <1>1, <1>3, HeldBackSaved DEF Hold
  <1>4. ASSUME NEW p \in Processes, Pass(p) \/ Fail(p)
        PROVE  \/ UNCHANGED state
               \/ /\ proc[p].pc = "gate" /\ proc[p].sec \in Sections
                  /\ proc[p].sec \in state.pending
                  /\ DOMAIN state'.completed = DOMAIN state.completed \cup {proc[p].sec}
                  /\ state'.pending = state.pending \ {proc[p].sec}
    <2> DEFINE c == proc[p]
    <2>1. c.pc = "gate" /\ (state' = HeldBack(c) \/ state' = Candidate(c))
      BY <1>4 DEF Pass, Fail
    <2>2. /\ state = HeldBack(c)
          /\ state.completed = c.saved.completed /\ state.pending = c.saved.pending \cup {c.sec}
      BY <1>1, <2>1, HeldBackSaved
    <2>3. c.saved.pending \ {c.sec} = state.pending \ {c.sec} /\ c.sec \in state.pending
      BY <2>2
    <2> QED
      BY <1>1, <2>1, <2>2, <2>3, CandidateSaved
  <1>5. ASSUME NEW p \in Processes,
               \/ Load(p) \/ Weigh(p) \/ Judge(p) \/ Bind(p) \/ Review(p) \/ Refuse(p) \/ Die(p)
               \/ \E s \in Sections, mode \in Modes, evidence \in {"manual", "receipt"} :
                    Start(p, s, mode, evidence)
        PROVE  UNCHANGED state
    BY <1>5 DEF Load, Weigh, Judge, Bind, Review, Refuse, Die, Start
  <1>6. ASSUME NEW s \in Sections, Verify(s) \/ EditText(s)
        PROVE  UNCHANGED state
    BY <1>6 DEF Verify, EditText, Edit
  <1>7. EditIndex \/ UNCHANGED vars => UNCHANGED state
    BY DEF EditIndex, Edit, vars
  <1> QED
    BY <1>2, <1>3, <1>4, <1>5, <1>6, <1>7 DEF Next, Step

\* A section that waits for its checks is let go only by the record command that ran
\* checks on it: no mode, restart or other command clears it (workflows.py:462).
THEOREM PendingStaysHeld == Spec => PendingWaitsForChecks
  <1>1. IInv /\ [Next]_vars =>
          [\A s \in state.pending \ state'.pending :
             \E p \in Processes : proc[p].pc = "gate" /\ proc[p].sec = s]_vars
    BY StepEffect
  <1>2. Spec => []IInv
    BY InitInv, NextInv, PTL DEF Spec
  <1> QED
    BY <1>1, <1>2, PTL DEF Spec, PendingWaitsForChecks

\* Whatever commands, edits, kills and failures do, sections are closed, held back and
\* let go as the ledger promises; no command loses what another recorded.
THEOREM RecordsImplementLedger == Spec => ImplementsLedger
  <1>1. Init => Ledger!Init
    BY DEF Init, Ledger!Init
  <1>2. IInv /\ [Next]_vars => [Ledger!Next]_<<DOMAIN state.completed, state.pending>>
    <2> SUFFICES ASSUME IInv, [Next]_vars
                 PROVE  [Ledger!Next]_<<DOMAIN state.completed, state.pending>>
      OBVIOUS
    <2>1. CASE UNCHANGED state
      BY <2>1
    <2>2. CASE ~UNCHANGED state
      BY <2>2, StepEffect DEF Ledger!Next, Ledger!Close, Ledger!Hold, Ledger!Release
    <2> QED
      BY <2>1, <2>2
  <1>3. Spec => []IInv
    BY InitInv, NextInv, PTL DEF Spec
  <1> QED
    BY <1>1, <1>2, <1>3, PTL DEF Spec, ImplementsLedger, Ledger!Spec

-----------------------------------------------------------------------------
(* What a record was made for. *)

\* What a command nobody edited under was shown is the plan as it is.
Told(c, now) ==
  c.quiet /\ c.ran # Attested =>
    /\ c.pc \in {"bind", "review", "decide", "gate"} => c.ran = now
    /\ c.pc \in {"review", "decide", "gate"} => c.contract = Contract(now, c.sec)

\* A record is decided, and keeps the contract of the plan its run was shown.
Kept(record, s) ==
  record.decided /\ (record.shown # Attested => record.contract = Contract(record.shown, s))

Recorded == \A s \in DOMAIN state.completed : Kept(state.completed[s], s)

PInv == Recorded /\ \A p \in Running : Told(proc[p], plan)

LEMMA GoingOnTold ==
  ASSUME IInv, PInv, NEW p \in Processes, NEW d, proc' = [proc EXCEPT ![p] = d], Told(d, plan'),
         state'.completed = state.completed, UNCHANGED plan
  PROVE  PInv'
  <1>1. proc'[p] = d /\ \A q \in Processes \ {p} : proc'[q] = proc[q]
    BY DEF IInv, Control
  <1>2. Recorded'
    BY DEF PInv, Recorded
  <1>3. ASSUME NEW q \in Running' PROVE Told(proc'[q], plan')
    <2>1. CASE q = p
      BY <1>1, <2>1
    <2>2. CASE q # p
      <3>1. proc'[q] = proc[q] /\ q \in Running
        BY <1>1, <1>3, <2>2 DEF Running
      <3> QED
        BY <3>1 DEF PInv, Told
    <2> QED
      BY <2>1, <2>2
  <1> QED
    BY <1>2, <1>3 DEF PInv, Told

LEMMA EndingTold ==
  ASSUME IInv, PInv, NEW p \in Processes, proc[p].pc # "idle", Finish(p), UNCHANGED plan,
         \/ state'.completed = state.completed
         \/ proc[p].pc \in {"decide", "gate"} /\ state' = Candidate(proc[p])
  PROVE  PInv'
  <1> DEFINE c == proc[p]
  <1>1. Running' = {}
    <2>1. Running = {p}
      BY MutablePlanAssumption DEF IInv, TypeOK, Running
    <2>2. proc'[p].pc = "idle" /\ \A q \in Processes \ {p} : proc'[q] = proc[q]
      BY DEF IInv, Control, Finish, Idle
    <2> QED
      BY <2>1, <2>2 DEF Running
  <1>2. Recorded'
    <2>1. CASE state'.completed = state.completed
      BY <2>1 DEF PInv, Recorded
    <2>2. CASE c.pc \in {"decide", "gate"} /\ state' = Candidate(c)
      <3>1. p \in Running /\ Told(c, plan) /\ c.sec \in Sections
        BY <2>2 DEF PInv, Running, IInv, Control, Commanding
      <3>2. c.saved.completed = state.completed
        <4>1. CASE c.pc = "decide"
          BY <3>1, <4>1 DEF IInv, TypeOK
        <4>2. CASE c.pc = "gate"
          BY <3>1, <4>2, HeldBackSaved DEF IInv, Control
        <4> QED
          BY <2>2, <4>1, <4>2
      <3>3. Kept(Record(c, TRUE), c.sec)
        <4>1. /\ Record(c, TRUE).decided = TRUE /\ Record(c, TRUE).contract = c.contract
              /\ Record(c, TRUE).shown = IF c.quiet THEN c.ran ELSE Attested
          BY DEF Record
        <4> QED
          BY <2>2, <3>1, <4>1 DEF Kept, Told
      <3>4. state'.completed = With(c, Record(c, TRUE))
        BY <2>2 DEF Candidate
      <3>5. /\ DOMAIN state'.completed = DOMAIN state.completed \cup {c.sec}
            /\ \A s \in DOMAIN state'.completed :
                 state'.completed[s] = IF s = c.sec THEN Record(c, TRUE) ELSE state.completed[s]
        BY <3>2, <3>4 DEF With
      <3> HIDE DEF c
      <3> QED
        BY <3>3, <3>5 DEF PInv, Recorded
    <2> QED
      BY <2>1, <2>2
  <1> QED
    BY <1>1, <1>2 DEF PInv

LEMMA StepTold ==
  ASSUME IInv, PInv, NEW p \in Processes, Step(p) \/ Fail(p) \/ Die(p)
  PROVE  PInv'
  <1> DEFINE c == proc[p]
  <1>1. DOMAIN c = Fields /\ c = [f \in Fields |-> c[f]]
    BY DEF IInv, Control
  <1>2. c.pc # "idle" => /\ p \in Running /\ Told(c, plan) /\ c.sec \in Sections
                         /\ c.pc # "load" => Saved(c.saved)
                         /\ c.pc # "load" /\ c.pc # "gate" => c.saved = state
                         /\ c.pc = "gate" => state = HeldBack(c)
    BY DEF IInv, Control, TypeOK, Running, Commanding, PInv
  <1> HIDE DEF c
  <1>3. ASSUME NEW d, NEW pc, GoesOn(p, d, pc), Told([d EXCEPT !.pc = pc], plan'),
               state'.completed = state.completed, UNCHANGED plan
        PROVE  PInv'
    BY <1>3, GoingOnTold DEF GoesOn
  <1>4. CASE Load(p)
    <2> DEFINE d == [c EXCEPT !.saved = state, !.needs = Needs(plan.index, c.sec)]
    <2>1. [d EXCEPT !.pc = "weigh"].pc = "weigh"
      BY <1>1 DEF Fields
    <2>2. GoesOn(p, d, "weigh") /\ UNCHANGED <<plan, state>>
      BY <1>4 DEF Load, c
    <2> HIDE DEF d
    <2> QED
      BY <1>3, <2>1, <2>2 DEF Told
  <1>5. CASE Weigh(p)
    <2>1. [c EXCEPT !.pc = "judge"].pc = "judge"
      BY <1>1 DEF Fields
    <2>2. GoesOn(p, c, "judge") /\ UNCHANGED <<plan, state>>
      BY <1>5 DEF Weigh, c
    <2> QED
      BY <1>3, <2>1, <2>2 DEF Told
  <1>6. CASE Judge(p)
    <2>1. PICK run \in {Attested, plan} : GoesOn(p, [c EXCEPT !.ran = run], "bind")
      BY <1>6 DEF Judge, ReceiptHolds, c
    <2> DEFINE d == [[c EXCEPT !.ran = run] EXCEPT !.pc = "bind"]
    <2>2. d.pc = "bind" /\ d.ran = run /\ UNCHANGED <<plan, state>>
      BY <1>1, <1>6 DEF Fields, Judge
    <2>3. Told(d, plan')
      <3> HIDE DEF d
      <3> QED
        BY <2>2 DEF Told
    <2> QED
      BY <1>3, <2>1, <2>2, <2>3
  <1>7. CASE Bind(p)
    <2> DEFINE e == [c EXCEPT !.contract = Contract(plan, c.sec)]
               d == [e EXCEPT !.pc = "review"]
    <2>1. /\ d.pc = "review" /\ d.contract = Contract(plan, c.sec)
          /\ d.ran = c.ran /\ d.quiet = c.quiet /\ d.sec = c.sec
      BY <1>1 DEF Fields
    <2>2. GoesOn(p, e, "review") /\ c.pc = "bind" /\ UNCHANGED <<plan, state>>
      BY <1>7 DEF Bind, c
    <2>3. Told(d, plan')
      <3> HIDE DEF d
      <3> QED
        BY <1>2, <2>1, <2>2 DEF Told
    <2> HIDE DEF e
    <2> QED
      BY <1>3, <2>2, <2>3
  <1>8. CASE Review(p) \/ Hold(p)
    <2>1. PICK pc \in {"decide", "gate"} : GoesOn(p, c, pc)
      BY <1>8 DEF Review, Hold, c
    <2> DEFINE d == [c EXCEPT !.pc = pc]
    <2>2. /\ d.pc = pc /\ d.contract = c.contract
          /\ d.ran = c.ran /\ d.quiet = c.quiet /\ d.sec = c.sec
      BY <1>1 DEF Fields
    <2>3. c.pc \in {"review", "decide"} /\ UNCHANGED plan /\ state'.completed = state.completed
      BY <1>2, <1>8, HeldBackSaved DEF Review, Hold, c
    <2>4. Told(d, plan)
      BY <1>2, <2>2, <2>3 DEF Told
    <2> QED
      BY <1>3, <2>1, <2>3, <2>4 DEF Told
  <1>9. CASE Close(p) \/ Pass(p) \/ Fail(p)
    <2>1. c.pc \in {"decide", "gate"} /\ Finish(p) /\ UNCHANGED plan
      BY <1>9 DEF Close, Pass, Fail, c
    <2>2. state' = Candidate(c) \/ (c.pc = "gate" /\ state' = HeldBack(c))
      BY <1>9 DEF Close, Pass, Fail, c
    <2>3. state' = Candidate(c) \/ state'.completed = state.completed
      BY <1>2, <2>2
    <2> QED
      BY <2>1, <2>3, EndingTold DEF c
  <1>10. CASE Refuse(p) \/ Die(p)
    <2>1. c.pc # "idle" /\ Finish(p) /\ UNCHANGED <<plan, state>>
      BY <1>10 DEF Refuse, Refuses, Die, c
    <2> QED
      BY <2>1, EndingTold DEF c
  <1> QED
    BY <1>4, <1>5, <1>6, <1>7, <1>8, <1>9, <1>10 DEF Step

LEMMA NextTold == IInv /\ PInv /\ [Next]_vars => PInv'
  <1> SUFFICES ASSUME IInv, PInv, [Next]_vars PROVE PInv'
    OBVIOUS
  <1>1. ASSUME NEW p \in Processes, Step(p) \/ Fail(p) \/ Die(p) PROVE PInv'
    BY <1>1, StepTold
  <1>2. ASSUME NEW p \in Processes, NEW s \in Sections, NEW mode \in Modes,
               NEW evidence \in {"manual", "receipt"}, Start(p, s, mode, evidence)
        PROVE  PInv'
    <2> DEFINE d == [[Idle EXCEPT !.sec = s, !.mode = mode, !.evidence = evidence] EXCEPT !.pc = "load"]
    <2>1. d.pc = "load"
      BY DEF Idle
    <2>2. proc' = [proc EXCEPT ![p] = d] /\ UNCHANGED <<plan, state>>
      BY <1>2 DEF Start, GoesOn
    <2> HIDE DEF d
    <2>3. Told(d, plan')
      BY <2>1 DEF Told
    <2> QED
      BY <2>2, <2>3, GoingOnTold
  <1>3. ASSUME NEW new, Edit(new) PROVE PInv'
    <2>1. \A p \in Running' : proc'[p].quiet = FALSE
      BY <1>3 DEF Edit, Running, Idle, IInv, Control, Fields
    <2>2. Recorded'
      BY <1>3 DEF Edit, PInv, Recorded
    <2> QED
      BY <2>1, <2>2 DEF PInv, Told
  <1>4. ASSUME UNCHANGED <<plan, state, proc>> PROVE PInv'
    BY <1>4 DEF PInv, Recorded, Running, Told
  <1> QED
    BY <1>1, <1>2, <1>3, <1>4 DEF Next, Verify, EditText, EditIndex, vars

LEMMA InitTold == Init => PInv
  BY DEF Init, PInv, Recorded, Running, Idle

LEMMA AlwaysTold == Spec => [](IInv /\ PInv)
  BY InitInv, NextInv, InitTold, NextTold, PTL DEF Spec

-----------------------------------------------------------------------------
(* What counts. *)

LEMMA Graphic ==
  ASSUME IInv
  PROVE  /\ \A s \in DOMAIN plan.index : plan.index[s] \subseteq Sections
         /\ DOMAIN plan.index \subseteq Sections
  BY MutablePlanAssumption DEF IInv, TypeOK, Plans

\* Sections that count are valid, and so is all that comes before them.
LEMMA Counting ==
  ASSUME IInv
  PROVE  /\ Effective(state, plan) \subseteq Valid(state, plan)
         /\ \A s \in Effective(state, plan) : Before(plan.index, s) \subseteq Effective(state, plan)
  <1>1. Valid(state, plan) \in SUBSET Sections
    BY DEF IInv, TypeOK, Valid
  <1> DEFINE done == Effective(state, plan)
  <1>2. done \subseteq Valid(state, plan) /\ \A s \in done : Needs(plan.index, s) \subseteq done
    BY <1>1, SettledFacts DEF Effective
  <1> HIDE DEF done
  <1>3. \A s \in done : Before(plan.index, s) \subseteq done
    BY <1>2, Graphic, BeforeFacts
  <1> QED
    BY <1>2, <1>3 DEF done

\* No section counts whose record is held back, waits for a retry or is undecided, or
\* that comes after such a one (workflows.py:471).
THEOREM CountingWaits == Spec => []NothingCountsEarly
  <1>1. IInv /\ PInv => NothingCountsEarly
    BY Counting DEF NothingCountsEarly, Valid, PInv, Recorded, Kept
  <1> QED
    BY <1>1, AlwaysTold, PTL

\* A section that counts by a captured run counts for the plan that run was shown
\* (receipt_error, completion_evidence_findings).
THEOREM ContractsAreSpokenFor == Spec => []RunsSpeakForContracts
  <1>1. ASSUME NEW p, NEW q, NEW s, Contract(p, s) = Contract(q, s)
        PROVE  \A t \in {s} \cup Before(q.index, s) :
                 p.text[t] = q.text[t] /\ Needs(p.index, t) = Needs(q.index, t)
    <2>1. DOMAIN Contract(p, s) = {s} \cup Before(p.index, s)
      BY DEF Contract
    <2>2. DOMAIN Contract(q, s) = {s} \cup Before(q.index, s)
      BY DEF Contract
    <2> TAKE t \in {s} \cup Before(q.index, s)
    <2>3. Contract(p, s)[t] = <<p.text[t], Needs(p.index, t)>>
      BY <1>1, <2>1, <2>2 DEF Contract
    <2>4. Contract(q, s)[t] = <<q.text[t], Needs(q.index, t)>>
      BY DEF Contract
    <2> QED
      BY <1>1, <2>3, <2>4
  <1>2. IInv /\ PInv => RunsSpeakForContracts
    <2> SUFFICES ASSUME IInv, PInv, NEW s \in Effective(state, plan),
                        state.completed[s].shown # Attested
                 PROVE  Contract(state.completed[s].shown, s) = Contract(plan, s)
      BY <1>1 DEF RunsSpeakForContracts
    <2> QED
      BY Counting DEF Valid, Fresh, PInv, Recorded, Kept
  <1> QED
    BY <1>2, AlwaysTold, PTL

\* Layers wait for the ones before them and share no path, and just the sections that go
\* round in circles or after an unknown one are in none (parallel_plan, ready_sections).
THEOREM LayersHold == Spec => []LayersAreSound
  <1> DEFINE graph == plan.index
             done == Effective(state, plan)
             todo == ParallelPlan(graph, done)
             stuck(s) == \E t \in ({s} \cup Before(graph, s)) \ done :
                           t \notin DOMAIN graph \/ t \in Before(graph, t)
  <1>1. ASSUME IInv
        PROVE  /\ DOMAIN graph \subseteq Sections /\ \A s \in DOMAIN graph : graph[s] \subseteq Sections
               /\ done \in SUBSET DOMAIN graph /\ \A s \in done : Needs(graph, s) \subseteq done
    <2>1. /\ DOMAIN graph \subseteq Sections /\ \A s \in DOMAIN graph : graph[s] \subseteq Sections
      BY <1>1, Graphic
    <2>2. done \in SUBSET DOMAIN graph
      BY <1>1, Counting DEF Valid, Fresh
    <2>3. \A s \in done : Before(graph, s) \subseteq done
      BY <1>1, Counting
    <2>4. \A s : Needs(graph, s) \subseteq Before(graph, s)
      BY <2>1, BeforeFacts
    <2> HIDE DEF graph, done
    <2> QED
      BY <2>1, <2>2, <2>3, <2>4
  <1> HIDE DEF graph, done
  <1>2. ASSUME IInv
        PROVE  /\ todo \in Todos /\ Sound(graph, done, todo)
               /\ \A s \in todo.unresolved : ~(Needs(graph, s) \subseteq todo.available)
    BY <1>1, <1>2, PlanFacts
  <1>3. ASSUME IInv
        PROVE  todo.unresolved = {s \in DOMAIN graph \ done : stuck(s)}
    <2> DEFINE A == todo.available
               U == todo.unresolved
    <2>1. /\ U = DOMAIN graph \ A /\ A \subseteq DOMAIN graph /\ done \subseteq A
          /\ \A s \in A : Needs(graph, s) \subseteq A
          /\ \A s \in A \ done : s \notin Before(graph, s)
          /\ \A s \in U : ~(Needs(graph, s) \subseteq A)
      BY <1>2, <1>3 DEF Sound, Upto
    <2>2. /\ \A s \in DOMAIN graph : graph[s] \subseteq Sections
          /\ \A s \in A : Before(graph, s) \subseteq A
      <3> HIDE DEF A, todo
      <3> QED
        BY <1>1, <1>3, <2>1, BeforeFacts
    <2> HIDE DEF A, U, todo
    <2>3. ASSUME NEW u \in U, ~stuck(u) PROVE FALSE
      <3> DEFINE C == ({u} \cup Before(graph, u)) \ A
      <3>1. u \in C
        BY <2>1
      <3>2. \A t \in C : t \in DOMAIN graph /\ t \notin Before(graph, t)
        BY <2>1, <2>3
      <3>3. \A t \in C : \E w \in C : w \in Needs(graph, t)
        <4> TAKE t \in C
        <4>1. t \in U
          BY <2>1, <3>2
        <4>2. PICK w \in Needs(graph, t) : w \notin A
          BY <2>1, <4>1
        <4>3. w \in Before(graph, u)
          BY <2>2, <4>2, BeforeFacts
        <4> QED
          BY <4>2, <4>3
      <3> HIDE DEF C
      <3> QED
        BY <2>2, <3>1, <3>2, <3>3, Circles
    <2>4. ASSUME NEW s \in A \ done PROVE ~stuck(s)
      BY <2>1, <2>2
    <2>5. \A s \in U : s \in DOMAIN graph \ done /\ stuck(s)
      BY <2>1, <2>3
    <2>6. \A s \in DOMAIN graph \ done : stuck(s) => s \in U
      BY <2>1, <2>4
    <2> HIDE DEF stuck
    <2>7. U = {s \in DOMAIN graph \ done : stuck(s)}
      BY <2>5, <2>6
    <2> QED
      BY <2>7 DEF U
  <1>4. ASSUME IInv
        PROVE  /\ DOMAIN todo.layers = 1..Len(todo.layers)
               /\ \A i \in 1..Len(todo.layers) : \A s \in todo.layers[i] :
                    /\ Needs(graph, s) \subseteq done \cup UNION {todo.layers[j] : j \in 1..(i - 1)}
                    /\ s \notin done \cup UNION {todo.layers[j] : j \in 1..(i - 1)}
                    /\ \A t \in todo.layers[i] \ {s} : <<s, t>> \notin Clash
               /\ Len(todo.layers) > 0 => todo.layers[1] \subseteq Ready(graph, done)
    <2> HIDE DEF todo
    <2>1. todo.layers \in Seq(SUBSET Sections)
      BY <1>2, <1>4 DEF Todos
    <2> QED
      BY <1>2, <1>4, <2>1 DEF Sound, Upto
  <1>5. IInv => LayersAreSound
    <2> SUFFICES ASSUME IInv PROVE LayersAreSound
      OBVIOUS
    <2> QED
      BY <1>3, <1>4, Zenon DEF LayersAreSound, graph, done
  <1>6. Spec => []IInv
    BY InitInv, NextInv, PTL DEF Spec
  <1> QED
    BY <1>5, <1>6, PTL
=============================================================================
