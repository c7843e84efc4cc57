---------------------------- MODULE TrialsProofs ----------------------------
(***************************************************************************)
(* TLAPS proofs about the trials of the harness, for any commands, rows    *)
(* and bounds: that an attempt runs its writer once, over restored roots;  *)
(* that what is said of a candidate afterwards is what was assessed; that  *)
(* attempts in two sessions and native rows went as they say.  All rest on *)
(* a claim that is made once: the lock and the directory of a phase, the   *)
(* numbered folder of an assessment, the lock of the session-break trials, *)
(* the directory of the first phase of a native row.                       *)
(***************************************************************************)
EXTENDS MCTrials, TLAPS, FiniteSetTheorems, SequenceTheorems
-----------------------------------------------------------------------------
(* TrialAttempt.  Who is in a phase holds the lock, and the directory of a  *)
(* phase is made once: so loading is over, its containers are gone and the  *)
(* roots are restored when the writer begins, and the writer begins once.   *)

TrialPhases == {"loading", "writer"}
TrialPlaces == {"idle", "save", "reserve", "admit", "load", "lock", "evidence", "call", "called",
                "restore", "restoring", "release", "package", "deliver", "freeze", "leave"}
TrialJob == [job : {"none", "run"} \cup TrialPhases, phase : TrialPhases, at : TrialPlaces,
             base : 1..2, stage : 0..3, clean : BOOLEAN, fine : BOOLEAN]
TrialTypes ==
    /\ proc \in [Processes -> TrialJob] /\ lock \in Processes \cup {T!Free, T!Left}
    /\ inputs \in 1..2 /\ evidence \subseteq TrialPhases /\ alive \subseteq evidence
Holding == {"evidence", "call", "called", "restore", "restoring", "release"}

LoadingIsOver == /\ "loading" \in evidence /\ "loading" \notin alive /\ roots \subseteq {"writer"}
                 /\ receipt = "passed"
\* Of a caller in its loading phase, and of one in its writer phase.
LoadingKnows(i) ==
    /\ i.at \in {"call", "called", "restore", "restoring"} =>
          "loading" \in evidence /\ receipt # "passed"
    /\ i.at \in {"load", "lock", "evidence", "call", "restoring"} => i.clean
    /\ i.at \in {"call", "restore", "restoring"} /\ i.clean => "loading" \notin alive
    /\ i.at \in {"load", "lock", "evidence"} => i.stage = 1
    /\ i.at \in {"call", "called"} => i.stage \in 1..2
    /\ i.at \notin {"deliver", "freeze"}
WriterKnows(i) ==
    /\ i.at \in {"load", "lock", "evidence", "call", "called", "deliver", "freeze"}
          \/ (i.at = "release" /\ i.fine) => LoadingIsOver
    /\ i.at = "call" => launches = <<>> /\ "writer" \in evidence /\ i.stage \in 1..2
    /\ i.at = "called" => /\ "writer" \in evidence /\ i.stage \in 1..2
                          /\ launches = IF i.stage = 2 THEN <<i.base>> ELSE <<>>
    /\ i.at \in {"deliver", "freeze"} \/ (i.at = "release" /\ i.fine) =>
          launches = <<i.base>> /\ alive = {} /\ "writer" \in evidence
    /\ i.at = "freeze" => i.base = 1
    /\ i.at \in {"load", "lock", "evidence"} => i.stage = 1
    /\ i.at \notin {"restore", "restoring", "package"}
TrialKnows(q, i) == /\ i.at \in Holding <=> lock = q
                    /\ i.base <= inputs
                    /\ i.phase = "loading" => LoadingKnows(i)
                    /\ i.phase = "writer" => WriterKnows(i)
TrialHolds ==
    /\ receipt = "passed" => LoadingIsOver
    /\ "writer" \in evidence => LoadingIsOver
    /\ launches = <<>> \/ ("writer" \in evidence /\ \E b \in 1..2 : launches = <<b>>)
    /\ record = "completed" => /\ LoadingIsOver /\ launches = <<1>> /\ "writer" \in evidence
                               /\ candidate \subseteq {"writer"} /\ alive = {}
TrialInv == TrialTypes /\ TrialHolds /\ \A q \in Processes : TrialKnows(q, proc[q])

LEMMA TrialLock == T!Free \notin Processes /\ T!Left \notin Processes /\ T!Free # T!Left
  BY TrialsAssumption DEF T!Free, T!Left

LEMMA TrialFacts ==
    ASSUME TrialInv, NEW k \in Processes
    PROVE  \E i \in TrialJob : i = proc[k] /\ TrialKnows(k, i)
BY DEF TrialInv, TrialTypes

\* What a caller knows stands while the others change nothing it knows of,
LEMMA KnowsStill ==
    ASSUME NEW q, NEW i \in TrialJob, TrialKnows(q, i), lock' = q <=> lock = q, inputs' = inputs,
           UNCHANGED <<evidence, alive, roots, receipt, launches>>
    PROVE  TrialKnows(q, i)'
BY DEF TrialKnows, LoadingKnows, WriterKnows, LoadingIsOver

\* and while they are in a phase that it waits for.
LEMMA KnowsWaiting ==
    ASSUME NEW q, NEW i \in TrialJob, TrialKnows(q, i), lock # q, lock' # q, inputs' = inputs,
           evidence \subseteq evidence', LoadingIsOver => LoadingIsOver',
           launches # <<>> => launches' = launches,
           LoadingIsOver /\ launches # <<>> /\ alive = {} => alive' = {}
    PROVE  TrialKnows(q, i)'
<1>1. i.at \notin Holding
  BY DEF TrialKnows
<1>2. i.phase = "loading" => LoadingKnows(i)'
  BY <1>1 DEF TrialKnows, LoadingKnows, Holding
<1>3. i.phase = "writer" => WriterKnows(i)'
  <2>1. SUFFICES ASSUME i.phase = "writer" PROVE WriterKnows(i)'
    OBVIOUS
  <2>2. WriterKnows(i)
    BY <2>1 DEF TrialKnows
  <2>3. i.at \in {"deliver", "freeze"} => launches = <<i.base>> /\ launches # <<>> /\ LoadingIsOver
    <3>1. <<i.base>> # <<>>
      OBVIOUS
    <3> QED  BY <2>2, <3>1 DEF WriterKnows
  <2> QED  BY <1>1, <2>2, <2>3 DEF WriterKnows, Holding
<1> QED  BY <1>1, <1>2, <1>3 DEF TrialKnows

\* A caller goes on; but for the lock the trial stays as it is.
LEMMA TrialGoes ==
    ASSUME TrialInv, NEW k \in Processes, NEW j \in TrialJob, proc' = [proc EXCEPT ![k] = j],
           UNCHANGED <<evidence, alive, roots, receipt, launches, inputs>>,
           lock' \in Processes \cup {T!Free, T!Left},
           \A q \in Processes \ {k} : lock' = q <=> lock = q,
           TrialHolds', TrialKnows(k, j)'
    PROVE  TrialInv'
<1>1. TrialTypes'
  BY DEF TrialInv, TrialTypes
<1>2. ASSUME NEW q \in Processes PROVE TrialKnows(q, proc[q])'
  <2>1. PICK i \in TrialJob : i = proc[q] /\ TrialKnows(q, i)
    BY TrialFacts
  <2>2. proc'[q] = IF q = k THEN j ELSE i
    BY <2>1 DEF TrialInv, TrialTypes
  <2>3. CASE q = k
    BY <2>2, <2>3
  <2>4. CASE q # k
    <3>1. TrialKnows(q, i)'
      BY <2>1, <2>4, KnowsStill
    <3> QED  BY <2>2, <2>4, <3>1
  <2> QED  BY <2>3, <2>4
<1> QED  BY <1>1, <1>2 DEF TrialInv

\* The caller that has the lock goes on, and the others wait.
LEMMA TrialGoesAlone ==
    ASSUME TrialInv, NEW k \in Processes, NEW j \in TrialJob, proc' = [proc EXCEPT ![k] = j],
           lock = k, lock' = k, inputs' = inputs, evidence \subseteq evidence',
           evidence' \subseteq TrialPhases, alive' \subseteq evidence',
           LoadingIsOver => LoadingIsOver', launches # <<>> => launches' = launches,
           LoadingIsOver /\ launches # <<>> /\ alive = {} => alive' = {},
           TrialHolds', TrialKnows(k, j)'
    PROVE  TrialInv'
<1>1. TrialTypes'
  BY DEF TrialInv, TrialTypes
<1>2. ASSUME NEW q \in Processes PROVE TrialKnows(q, proc[q])'
  <2>1. PICK i \in TrialJob : i = proc[q] /\ TrialKnows(q, i)
    BY TrialFacts
  <2>2. proc'[q] = IF q = k THEN j ELSE i
    BY <2>1 DEF TrialInv, TrialTypes
  <2>3. CASE q = k
    BY <2>2, <2>3
  <2>4. CASE q # k
    <3>1. TrialKnows(q, i)'
      BY <2>1, <2>4, KnowsWaiting
    <3> QED  BY <2>2, <2>4, <3>1
  <2> QED  BY <2>3, <2>4
<1> QED  BY <1>1, <1>2 DEF TrialInv

LEMMA HoldsStill ==
    ASSUME TrialHolds, UNCHANGED <<evidence, alive, roots, receipt, launches>>,
           UNCHANGED <<record, candidate>> \/ record' # "completed"
    PROVE  TrialHolds'
BY DEF TrialHolds, LoadingIsOver

LEMMA TrialIdle == T!Idle \in TrialJob /\ T!Idle.at = "idle" /\ T!Idle.phase = "loading"
                   /\ T!Idle.base = 1
<1>1. PICK yes \in BOOLEAN : yes = TRUE
  OBVIOUS
<1>2. PICK j \in TrialJob : j = [job |-> "none", phase |-> "loading", at |-> "idle", base |-> 1,
                                 stage |-> 0, clean |-> yes, fine |-> yes]
  <2>1. 1 \in 1..2 /\ 0 \in 0..3 /\ "idle" \in TrialPlaces /\ "loading" \in TrialPhases
    BY DEF TrialPhases, TrialPlaces
  <2>2. "none" \in {"none", "run"} \cup TrialPhases
    OBVIOUS
  <2> QED  BY <2>1, <2>2 DEF TrialJob
<1>3. j.at = "idle" /\ j.phase = "loading" /\ j.base = 1
  BY <1>2
<1>4. j = T!Idle
  BY <1>1, <1>2 DEF T!Idle, T!Study
<1> QED  BY <1>3, <1>4

\* A caller is done, or was stopped: it has no lock then.
LEMMA TrialEnds ==
    ASSUME TrialInv, NEW k \in Processes, T!Step(k, T!Idle), TrialHolds',
           UNCHANGED <<evidence, alive, roots, receipt, launches, inputs>>,
           lock' \in {lock, T!Free, T!Left}, lock' # k, lock' # lock => lock = k
    PROVE  TrialInv'
<1>1. PICK j \in TrialJob : j = T!Idle /\ j.at = "idle" /\ j.phase = "loading" /\ j.base = 1
  BY TrialIdle
<1>2. inputs \in 1..2 /\ lock \in Processes \cup {T!Free, T!Left}
  BY DEF TrialInv, TrialTypes
<1>3. TrialKnows(k, j)'
  BY <1>1, <1>2 DEF TrialKnows, LoadingKnows, Holding
<1>4. proc' = [proc EXCEPT ![k] = j]
  BY <1>1 DEF T!Step
<1>5. \A q \in Processes \ {k} : lock' = q <=> lock = q
  BY TrialLock
<1> QED  BY <1>2, <1>3, <1>4, <1>5, TrialGoes

LEMMA TrialFails ==
    ASSUME TrialInv, NEW k \in Processes, T!Fails(k), TrialHolds',
           UNCHANGED <<evidence, alive, roots, receipt, launches, inputs, lock>>
    PROVE  TrialInv'
<1>1. PICK i \in TrialJob : i = proc[k] /\ TrialKnows(k, i)
  BY TrialFacts
<1>2. PICK at : at = IF lock = k THEN "release" ELSE "leave"
  OBVIOUS
<1>3. at \in TrialPlaces /\ (at \in Holding <=> lock = k) /\ at \in {"release", "leave"}
  BY <1>2 DEF TrialPlaces, Holding
<1>4. PICK j \in TrialJob : j = [i EXCEPT !.at = at, !.fine = FALSE]
  BY <1>3 DEF TrialJob
<1>5. j.at = at /\ ~j.fine /\ j.base = i.base /\ j.phase = i.phase
  <2>1. PICK no \in BOOLEAN : no <=> FALSE
    OBVIOUS
  <2>2. j = [i EXCEPT !.at = at, !.fine = no]
    BY <1>4, <2>1, Zenon
  <2>3. (j.fine <=> no) /\ j.at = at /\ j.base = i.base /\ j.phase = i.phase
    BY <2>2 DEF TrialJob
  <2> QED  BY <2>1, <2>3
<1>6. proc' = [proc EXCEPT ![k] = j]
  BY <1>1, <1>2, <1>4 DEF T!Fails, TrialInv, TrialTypes
<1>7. TrialKnows(k, j)'
  BY <1>1, <1>3, <1>5 DEF TrialKnows, LoadingKnows, WriterKnows
<1>8. lock' \in Processes \cup {T!Free, T!Left}
  BY DEF TrialInv, TrialTypes
<1> QED  BY <1>6, <1>7, <1>8, TrialGoes

\* Only where it is changes.
LEMMA TrialGoesTo ==
    ASSUME TrialInv, NEW k \in Processes, NEW where \in TrialPlaces, T!GoTo(k, where)
    PROVE  \E j \in TrialJob :
              /\ proc' = [proc EXCEPT ![k] = j] /\ j.at = where /\ j.phase = proc[k].phase
              /\ j.base = proc[k].base /\ j.stage = proc[k].stage
              /\ (j.clean <=> proc[k].clean) /\ (j.fine <=> proc[k].fine)
<1>1. PICK i \in TrialJob : i = proc[k]
  BY TrialFacts
<1>2. PICK j \in TrialJob : j = [i EXCEPT !.at = where]
  BY DEF TrialJob
<1>3. proc' = [proc EXCEPT ![k] = j]
  BY <1>1, <1>2 DEF T!GoTo, TrialInv, TrialTypes
<1>4. /\ j.at = where /\ j.phase = i.phase /\ j.base = i.base /\ j.stage = i.stage
      /\ (j.clean <=> i.clean) /\ (j.fine <=> i.fine)
  BY <1>2 DEF TrialJob
<1> QED  BY <1>1, <1>3, <1>4

\* Where a caller has no lock and knows nothing yet.
LEMMA TrialUnknowing ==
    ASSUME NEW k \in Processes, NEW i \in TrialJob, NEW j \in TrialJob, TrialKnows(k, i),
           i.at \notin Holding, j.base = i.base,
           j.at \in {"save", "reserve", "admit", "leave"}, lock' = lock, inputs' = inputs
    PROVE  TrialKnows(k, j)'
BY DEF TrialKnows, LoadingKnows, WriterKnows, Holding

LEMMA TrialBegins ==
    ASSUME TrialInv, NEW k \in Processes, T!Begin(k)
    PROVE  TrialInv'
<1>1. PICK i \in TrialJob : i = proc[k] /\ TrialKnows(k, i)
  BY TrialFacts
<1>2. /\ i.at = "idle" /\ UNCHANGED <<evidence, alive, roots, receipt, launches, inputs, lock>>
      /\ record' = record \/ record' = "dir"
      /\ UNCHANGED candidate
  BY <1>1 DEF T!Begin, T!At, T!outside
<1>3. i.at \notin Holding
  BY <1>2 DEF Holding
<1>4. TrialHolds'
  BY <1>2, HoldsStill DEF TrialInv
<1>5. lock' \in Processes \cup {T!Free, T!Left}
  BY <1>2 DEF TrialInv, TrialTypes
<1>6. PICK j \in TrialJob : /\ T!Step(k, j) /\ j.base = i.base /\ j.at \in {"save", "admit"}
  <2>1. CASE T!Step(k, [i EXCEPT !.job = "run", !.at = "save"])
    <3>1. PICK j \in TrialJob : j = [i EXCEPT !.job = "run", !.at = "save"]
      BY DEF TrialJob, TrialPlaces
    <3>2. j.base = i.base /\ j.at = "save"
      BY <3>1 DEF TrialJob
    <3> QED  BY <2>1, <3>1, <3>2
  <2>2. ASSUME NEW p \in T!Phases,
               T!Step(k, [i EXCEPT !.job = p, !.phase = p, !.at = "admit"])
        PROVE  \E j \in TrialJob : T!Step(k, j) /\ j.base = i.base /\ j.at \in {"save", "admit"}
    <3>1. p \in TrialPhases
      BY DEF T!Phases, TrialPhases
    <3>2. PICK j \in TrialJob : j = [i EXCEPT !.job = p, !.phase = p, !.at = "admit"]
      BY <3>1 DEF TrialJob, TrialPlaces
    <3>3. j.base = i.base /\ j.at = "admit"
      BY <3>2 DEF TrialJob
    <3> QED  BY <2>2, <3>2, <3>3
  <2> QED  BY <1>1, <2>1, <2>2 DEF T!Begin
<1>7. TrialKnows(k, j)'
  BY <1>1, <1>2, <1>3, <1>6, TrialUnknowing
<1> QED  BY <1>2, <1>4, <1>5, <1>6, <1>7, TrialGoes DEF T!Step

LEMMA TrialSaves ==
    ASSUME TrialInv, NEW k \in Processes, T!SaveRecord(k) \/ T!Reserve(k)
    PROVE  TrialInv'
<1>1. PICK i \in TrialJob : i = proc[k] /\ TrialKnows(k, i)
  BY TrialFacts
<1>2. /\ i.at \in {"save", "reserve"}
      /\ UNCHANGED <<evidence, alive, roots, receipt, launches, inputs, lock>>
      /\ UNCHANGED candidate /\ (record' = record \/ record' \in {"running", "failed"})
  BY <1>1 DEF T!SaveRecord, T!Reserve, T!At, T!outside
<1>3. i.at \notin Holding
  BY <1>2 DEF Holding
<1>4. TrialHolds'
  BY <1>2, HoldsStill DEF TrialInv
<1>5. lock \in Processes \cup {T!Free, T!Left} /\ lock # k
  BY <1>1, <1>3 DEF TrialInv, TrialTypes, TrialKnows
<1>6. CASE T!Step(k, T!Idle)
  BY <1>2, <1>4, <1>5, <1>6, TrialEnds
<1>7. ASSUME NEW where \in {"reserve", "admit"}, T!GoTo(k, where) PROVE TrialInv'
  <2>1. PICK there \in TrialPlaces : there = where
    BY DEF TrialPlaces
  <2>2. PICK j \in TrialJob : /\ proc' = [proc EXCEPT ![k] = j] /\ j.at = where
                              /\ j.base = i.base
    BY <1>1, <1>7, <2>1, TrialGoesTo
  <2>3. TrialKnows(k, j)'
    BY <1>1, <1>2, <1>3, <2>2, TrialUnknowing
  <2> QED  BY <1>2, <1>4, <1>5, <2>2, <2>3, TrialGoes
<1> QED  BY <1>6, <1>7 DEF T!SaveRecord, T!Reserve

LEMMA TrialAdmits ==
    ASSUME TrialInv, NEW k \in Processes, T!Admit(k)
    PROVE  TrialInv'
<1>1. PICK i \in TrialJob : i = proc[k] /\ TrialKnows(k, i)
  BY TrialFacts
<1>2. /\ i.at = "admit" /\ UNCHANGED <<record, candidate>>
      /\ UNCHANGED <<evidence, alive, roots, receipt, launches, inputs, lock>>
  BY <1>1 DEF T!Admit, T!At, T!outside, T!disk
<1>3. TrialHolds'
  BY <1>2, HoldsStill DEF TrialInv
<1>4. CASE T!Fails(k)
  BY <1>2, <1>3, <1>4, TrialFails
<1>5. CASE ~T!Fails(k)
  <2>1. /\ i.phase = "writer" => receipt = "passed"
        /\ T!Step(k, [i EXCEPT !.at = "load", !.base = inputs, !.stage = 1, !.clean = TRUE])
    BY <1>1, <1>5 DEF T!Admit, T!Phase, T!BundleHolds
  <2>2. inputs \in 1..2 /\ lock \in Processes \cup {T!Free, T!Left}
    BY DEF TrialInv, TrialTypes
  <2>3. PICK j \in TrialJob :
           /\ j = [i EXCEPT !.at = "load", !.base = inputs, !.stage = 1, !.clean = TRUE]
           /\ j.at = "load" /\ j.base = inputs /\ j.stage = 1 /\ j.phase = i.phase /\ j.clean
    <3>1. PICK yes \in BOOLEAN : yes <=> TRUE
      OBVIOUS
    <3>2. PICK at \in TrialPlaces, one \in 0..3, b \in 1..2 : at = "load" /\ one = 1 /\ b = inputs
      BY <2>2 DEF TrialPlaces
    <3>3. PICK j \in TrialJob : j = [i EXCEPT !.at = at, !.base = b, !.stage = one, !.clean = yes]
      BY DEF TrialJob
    <3>4. j.at = at /\ j.base = b /\ j.stage = one /\ j.phase = i.phase /\ (j.clean <=> yes)
      BY <3>3 DEF TrialJob
    <3>5. j = [i EXCEPT !.at = "load", !.base = inputs, !.stage = 1, !.clean = TRUE]
      BY <3>1, <3>2, <3>3, Zenon
    <3> QED  BY <3>1, <3>2, <3>4, <3>5
  <2>5. i.phase = "writer" => LoadingIsOver
    BY <2>1 DEF TrialInv, TrialHolds
  <2>6. lock # k
    BY <1>1, <1>2 DEF TrialKnows, Holding
  <2>7. TrialKnows(k, j)
    BY <2>2, <2>3, <2>5, <2>6 DEF TrialKnows, LoadingKnows, WriterKnows, Holding
  <2>8. TrialKnows(k, j)'
    BY <1>2, <2>7, KnowsStill
  <2> QED  BY <1>2, <1>3, <2>1, <2>2, <2>3, <2>8, TrialGoes DEF T!Step
<1> QED  BY <1>4, <1>5

LEMMA TrialLoads ==
    ASSUME TrialInv, NEW k \in Processes, T!LoadReservation(k)
    PROVE  TrialInv'
<1>1. PICK i \in TrialJob : i = proc[k] /\ TrialKnows(k, i)
  BY TrialFacts
<1>2. /\ i.at = "load" /\ UNCHANGED <<record, candidate>>
      /\ UNCHANGED <<evidence, alive, roots, receipt, launches, inputs, lock>>
      /\ T!Fails(k) \/ T!GoTo(k, "lock")
  BY <1>1 DEF T!LoadReservation, T!At, T!outside, T!disk
<1>3. TrialHolds' /\ lock \in Processes \cup {T!Free, T!Left}
  BY <1>2, HoldsStill DEF TrialInv, TrialTypes
<1>4. CASE T!GoTo(k, "lock")
  <2>1. PICK there \in TrialPlaces : there = "lock"
    BY DEF TrialPlaces
  <2>2. PICK j \in TrialJob : /\ proc' = [proc EXCEPT ![k] = j] /\ j.at = "lock"
                              /\ j.base = i.base /\ j.phase = i.phase /\ j.stage = i.stage
                              /\ (j.clean <=> i.clean)
    BY <1>1, <1>4, <2>1, TrialGoesTo
  <2>3. TrialKnows(k, j)
    BY <1>1, <1>2, <2>2 DEF TrialKnows, LoadingKnows, WriterKnows, Holding
  <2>4. TrialKnows(k, j)'
    BY <1>2, <2>3, KnowsStill
  <2> QED  BY <1>2, <1>3, <2>2, <2>4, TrialGoes
<1> QED  BY <1>2, <1>3, <1>4, TrialFails

LEMMA TrialLocks ==
    ASSUME TrialInv, NEW k \in Processes, T!Lock(k)
    PROVE  TrialInv'
<1>1. PICK i \in TrialJob : i = proc[k] /\ TrialKnows(k, i)
  BY TrialFacts
<1>2. /\ i.at = "lock" /\ UNCHANGED <<record, candidate>>
      /\ UNCHANGED <<evidence, alive, roots, receipt, launches, inputs>>
      /\ \/ T!Fails(k) /\ UNCHANGED lock
         \/ T!GoTo(k, "evidence") /\ lock = T!Free /\ lock' = k
  BY <1>1 DEF T!Lock, T!At, T!outside
<1>3. TrialHolds'
  BY <1>2, HoldsStill DEF TrialInv
<1>4. CASE T!GoTo(k, "evidence") /\ lock = T!Free /\ lock' = k
  <2>1. PICK there \in TrialPlaces : there = "evidence"
    BY DEF TrialPlaces
  <2>2. PICK j \in TrialJob : /\ proc' = [proc EXCEPT ![k] = j] /\ j.at = "evidence"
                              /\ j.base = i.base /\ j.phase = i.phase /\ j.stage = i.stage
                              /\ (j.clean <=> i.clean)
    BY <1>1, <1>4, <2>1, TrialGoesTo
  <2>3. TrialKnows(k, j)'
    BY <1>1, <1>2, <1>4, <2>2 DEF TrialKnows, LoadingKnows, WriterKnows, Holding, LoadingIsOver
  <2>4. \A q \in Processes \ {k} : lock' = q <=> lock = q
    BY <1>4, TrialLock
  <2> QED  BY <1>2, <1>3, <1>4, <2>2, <2>3, <2>4, TrialGoes
<1> QED  BY <1>2, <1>3, <1>4, TrialFails

\* The writer's directory is made after loading, and no writer was started before it.
LEMMA TrialMakesEvidence ==
    ASSUME TrialInv, NEW k \in Processes, T!MakeEvidence(k)
    PROVE  TrialInv'
<1>1. PICK i \in TrialJob : i = proc[k] /\ TrialKnows(k, i)
  BY TrialFacts
<1>2. /\ i.at = "evidence" /\ UNCHANGED <<record, candidate>>
      /\ UNCHANGED <<alive, roots, receipt, launches, inputs, lock>>
      /\ \/ T!Fails(k) /\ UNCHANGED evidence
         \/ /\ T!GoTo(k, "call") /\ i.phase \notin evidence
            /\ evidence' = evidence \cup {i.phase}
  BY <1>1 DEF T!MakeEvidence, T!Fresh, T!Phase, T!At, T!outside
<1>3. CASE T!Fails(k) /\ UNCHANGED evidence
  <2>1. TrialHolds'
    BY <1>2, <1>3, HoldsStill DEF TrialInv
  <2> QED  BY <1>2, <1>3, <2>1, TrialFails
<1>4. CASE T!GoTo(k, "call") /\ i.phase \notin evidence /\ evidence' = evidence \cup {i.phase}
  <2>1. PICK there \in TrialPlaces : there = "call"
    BY DEF TrialPlaces
  <2>2. PICK j \in TrialJob : /\ proc' = [proc EXCEPT ![k] = j] /\ j.at = "call"
                              /\ j.base = i.base /\ j.phase = i.phase /\ j.stage = i.stage
                              /\ (j.clean <=> i.clean)
    BY <1>1, <1>4, <2>1, TrialGoesTo
  <2>3. i.phase \in {"loading", "writer"} /\ lock = k
    BY <1>1, <1>2 DEF TrialJob, TrialPhases, TrialKnows, Holding
  <2>4. i.phase = "writer" => LoadingIsOver /\ launches = <<>> /\ i.stage = 1
    BY <1>1, <1>2, <1>4 DEF TrialKnows, WriterKnows, TrialInv, TrialHolds
  <2>5. i.phase = "loading" => /\ ~LoadingIsOver /\ receipt # "passed" /\ "loading" \notin alive
                               /\ "writer" \notin evidence /\ i.clean
    BY <1>1, <1>2, <1>4 DEF TrialKnows, LoadingKnows, TrialInv, TrialTypes, TrialHolds, LoadingIsOver
  <2>6. evidence \subseteq evidence' /\ evidence' \subseteq TrialPhases /\ alive' \subseteq evidence'
    BY <1>2, <1>4, <2>3 DEF TrialInv, TrialTypes, TrialPhases
  <2>7. LoadingIsOver => LoadingIsOver'
    BY <1>2, <2>6 DEF LoadingIsOver
  <2>8. TrialHolds'
    BY <1>2, <1>4, <2>3, <2>4, <2>5, <2>6, <2>7 DEF TrialInv, TrialHolds, LoadingIsOver
  <2>9. TrialKnows(k, j)'
    BY <1>1, <1>2, <1>4, <2>2, <2>3, <2>4, <2>5, <2>6, <2>7
       DEF TrialKnows, LoadingKnows, WriterKnows, Holding
  <2> QED  BY <1>2, <2>2, <2>3, <2>6, <2>7, <2>8, <2>9, TrialGoesAlone
<1> QED  BY <1>2, <1>3, <1>4

LEMMA TrialStarts ==
    ASSUME TrialInv, NEW k \in Processes, T!StartCall(k)
    PROVE  TrialInv'
<1>1. PICK i \in TrialJob : i = proc[k] /\ TrialKnows(k, i)
  BY TrialFacts
<1>2. /\ i.at = "call"
      /\ UNCHANGED <<record, candidate, evidence, roots, receipt, inputs, lock>>
  BY <1>1 DEF T!StartCall, T!At, T!disk
<1>3. /\ i.phase \in {"loading", "writer"} /\ lock = k /\ evidence \subseteq TrialPhases
      /\ alive \subseteq evidence /\ lock \in Processes \cup {T!Free, T!Left}
  BY <1>1, <1>2 DEF TrialJob, TrialPhases, TrialKnows, Holding, TrialInv, TrialTypes
<1>4. i.phase = "loading" => /\ "loading" \in evidence /\ receipt # "passed" /\ ~LoadingIsOver
                             /\ i.clean /\ "loading" \notin alive
  BY <1>1, <1>2 DEF TrialKnows, LoadingKnows, LoadingIsOver
<1>5. i.phase = "writer" => /\ LoadingIsOver /\ launches = <<>> /\ "writer" \in evidence
                            /\ i.stage \in 1..2
  BY <1>1, <1>2 DEF TrialKnows, WriterKnows
<1>6. CASE /\ alive' = alive \cup {i.phase}
           /\ T!Step(k, [i EXCEPT !.at = "called", !.clean = FALSE])
           /\ launches' = IF i.phase = "writer" /\ i.stage = 2 THEN Append(launches, i.base)
                                                                ELSE launches
  <2>1. PICK j \in TrialJob : /\ j = [i EXCEPT !.at = "called", !.clean = FALSE]
                              /\ j.at = "called" /\ j.phase = i.phase /\ j.base = i.base
                              /\ j.stage = i.stage /\ ~j.clean
    <3>1. PICK no \in BOOLEAN, at \in TrialPlaces : (no <=> FALSE) /\ at = "called"
      BY DEF TrialPlaces
    <3>2. PICK j \in TrialJob : j = [i EXCEPT !.at = at, !.clean = no]
      BY DEF TrialJob
    <3>3. j.at = at /\ j.phase = i.phase /\ j.base = i.base /\ j.stage = i.stage /\ (j.clean <=> no)
      BY <3>2 DEF TrialJob
    <3>4. j = [i EXCEPT !.at = "called", !.clean = FALSE]
      BY <3>1, <3>2, Zenon
    <3> QED  BY <3>1, <3>3, <3>4
  <2>2. proc' = [proc EXCEPT ![k] = j]
    BY <1>6, <2>1 DEF T!Step
  <2>3. Append(<<>>, i.base) = <<i.base>>
    OBVIOUS
  <2>4. /\ i.phase = "writer" => launches' = IF i.stage = 2 THEN <<i.base>> ELSE <<>>
        /\ i.phase = "loading" => launches' = launches
    BY <1>5, <1>6, <2>3
  <2>5. alive' \subseteq evidence'
    BY <1>2, <1>3, <1>4, <1>5, <1>6
  <2>6. LoadingIsOver => LoadingIsOver'
    BY <1>2, <1>3, <1>4, <1>6 DEF LoadingIsOver
  <2>7. launches # <<>> => launches' = launches
    BY <1>3, <1>5, <2>4
  <2>8. ~(LoadingIsOver /\ launches # <<>>)
    BY <1>3, <1>4, <1>5
  <2>9. launches' = <<>> \/ ("writer" \in evidence' /\ \E b \in 1..2 : launches' = <<b>>)
    <3>1. CASE i.phase = "writer"
      <4>1. i.base \in 1..2
        BY DEF TrialJob
      <4> QED  BY <1>2, <1>5, <2>4, <3>1, <4>1
    <3>2. CASE i.phase = "loading"
      BY <1>2, <2>4, <3>2 DEF TrialInv, TrialHolds
    <3> QED  BY <1>3, <3>1, <3>2
  <2>10. record # "completed"
    <3>1. <<1>> # <<>>
      OBVIOUS
    <3> QED  BY <2>8, <3>1 DEF TrialInv, TrialHolds
  <2>11. TrialHolds'
    BY <1>2, <2>6, <2>9, <2>10 DEF TrialInv, TrialHolds, LoadingIsOver
  <2>12. TrialKnows(k, j)'
    BY <1>1, <1>2, <1>3, <1>4, <1>5, <2>1, <2>4, <2>6
       DEF TrialKnows, LoadingKnows, WriterKnows, Holding
  <2>13. lock' = k
    BY <1>2, <1>3
  <2> QED  BY <1>2, <1>3, <2>2, <2>5, <2>6, <2>7, <2>8, <2>11, <2>12, <2>13, TrialGoesAlone
<1>7. CASE T!GoTo(k, "restore") /\ i.phase = "loading" /\ UNCHANGED <<alive, launches>>
  <2>1. PICK there \in TrialPlaces : there = "restore"
    BY DEF TrialPlaces
  <2>2. PICK j \in TrialJob : /\ proc' = [proc EXCEPT ![k] = j] /\ j.at = "restore"
                              /\ j.base = i.base /\ j.phase = i.phase
    BY <1>1, <1>7, <2>1, TrialGoesTo
  <2>3. TrialKnows(k, j)
    BY <1>1, <1>3, <1>4, <1>7, <2>2 DEF TrialKnows, LoadingKnows, WriterKnows, Holding
  <2>4. TrialKnows(k, j)'
    BY <1>2, <1>7, <2>3, KnowsStill
  <2>5. TrialHolds'
    BY <1>2, <1>7, HoldsStill DEF TrialInv
  <2> QED  BY <1>2, <1>3, <1>7, <2>2, <2>4, <2>5, TrialGoes
<1>8. CASE T!Fails(k) /\ UNCHANGED <<alive, launches>>
  <2>1. TrialHolds'
    BY <1>2, <1>8, HoldsStill DEF TrialInv
  <2> QED  BY <1>2, <1>8, <2>1, TrialFails
<1> QED  BY <1>1, <1>3, <1>6, <1>7, <1>8 DEF T!StartCall, T!Phase, T!LastStage

\* The containers of a call that ends are gone if its cleanup was verified.
LEMMA TrialEndsCall ==
    ASSUME TrialInv, NEW k \in Processes, T!EndCall(k)
    PROVE  TrialInv'
<1>1. PICK i \in TrialJob : i = proc[k] /\ TrialKnows(k, i)
  BY TrialFacts
<1>2. /\ i.at = "called"
      /\ UNCHANGED <<record, candidate, evidence, roots, receipt, inputs, lock, launches>>
  BY <1>1 DEF T!EndCall, T!At, T!disk
<1>3. /\ i.phase \in {"loading", "writer"} /\ lock = k /\ evidence \subseteq TrialPhases
      /\ alive \subseteq evidence /\ lock \in Processes \cup {T!Free, T!Left}
      /\ i.base <= inputs /\ i.base \in 1..2 /\ i.stage \in 0..3
  BY <1>1, <1>2 DEF TrialJob, TrialPhases, TrialKnows, Holding, TrialInv, TrialTypes
<1>4. i.phase = "loading" => /\ "loading" \in evidence /\ receipt # "passed" /\ ~LoadingIsOver
  BY <1>1, <1>2 DEF TrialKnows, LoadingKnows, LoadingIsOver
<1>5. i.phase = "writer" => /\ LoadingIsOver /\ "writer" \in evidence /\ i.stage \in 1..2
                            /\ launches = IF i.stage = 2 THEN <<i.base>> ELSE <<>>
  BY <1>1, <1>2 DEF TrialKnows, WriterKnows
<1>6. PICK verified \in BOOLEAN :
         /\ alive' = IF verified THEN alive \ {i.phase} ELSE alive
         /\ IF verified /\ T!Guarded(k)
            THEN T!Step(k, [i EXCEPT !.clean = TRUE, !.stage = @ + 1,
                               !.at = IF i.stage < 2 THEN "call"
                                      ELSE IF i.phase = "loading" THEN "restore" ELSE "release"])
            ELSE IF i.phase = "loading"
                 THEN T!Step(k, [i EXCEPT !.at = "restore", !.clean = verified]) ELSE T!Fails(k)
  BY <1>1 DEF T!EndCall, T!Phase, T!LastStage
<1>7. /\ alive' \subseteq alive /\ alive' \subseteq evidence' /\ lock' = k
      /\ LoadingIsOver => LoadingIsOver'
  BY <1>2, <1>3, <1>6 DEF LoadingIsOver
<1>8. TrialHolds'
  BY <1>2, <1>7 DEF TrialInv, TrialHolds, LoadingIsOver
<1>9. ASSUME NEW j \in TrialJob, T!Step(k, j), TrialKnows(k, j)' PROVE TrialInv'
  <2>1. proc' = [proc EXCEPT ![k] = j]
    BY <1>9 DEF T!Step
  <2> QED  BY <1>2, <1>3, <1>7, <1>8, <1>9, <2>1, TrialGoesAlone
<1>10. CASE verified /\ T!Guarded(k)
  <2>1. PICK at \in TrialPlaces :
           at = IF i.stage < 2 THEN "call"
                ELSE IF i.phase = "loading" THEN "restore" ELSE "release"
    BY DEF TrialPlaces
  <2>2. i.stage \in 1..2
    BY <1>1, <1>2, <1>3, <1>5 DEF TrialKnows, LoadingKnows
  <2>3. PICK j \in TrialJob : /\ j = [i EXCEPT !.clean = TRUE, !.stage = @ + 1, !.at = at]
                              /\ j.at = at /\ j.phase = i.phase /\ j.base = i.base
                              /\ j.stage = i.stage + 1 /\ j.clean
    <3>1. PICK yes \in BOOLEAN : yes <=> TRUE
      OBVIOUS
    <3>0. PICK n \in 0..3 : n = i.stage + 1
      BY <2>2
    <3>2. PICK j \in TrialJob : j = [i EXCEPT !.clean = yes, !.stage = n, !.at = at]
      BY DEF TrialJob
    <3>3. j.at = at /\ j.phase = i.phase /\ j.base = i.base /\ j.stage = n /\ (j.clean <=> yes)
      BY <3>2 DEF TrialJob
    <3>4. j = [i EXCEPT !.clean = TRUE, !.stage = @ + 1, !.at = at]
      BY <3>0, <3>1, <3>2, Zenon
    <3> QED  BY <3>0, <3>1, <3>3, <3>4
  <2>4. T!Step(k, j)
    BY <1>6, <1>10, <2>1, <2>3
  <2>5. alive' = alive \ {i.phase}
    BY <1>6, <1>10
  <2>6. CASE i.phase = "loading"
    <3>1. /\ at \in {"call", "restore"} /\ "loading" \notin alive'
          /\ at = "call" => j.stage \in 1..2
      <4>1. at = "call" => i.stage = 1
        BY <2>1, <2>2, <2>6
      <4>2. at \in {"call", "restore"} /\ "loading" \notin alive'
        BY <2>1, <2>5, <2>6
      <4> QED  BY <2>3, <4>1, <4>2
    <3>2. LoadingKnows(j)'
      BY <1>2, <1>4, <2>3, <2>6, <3>1 DEF LoadingKnows
    <3>3. TrialKnows(k, j)'
      BY <1>2, <1>3, <2>3, <2>6, <3>1, <3>2 DEF TrialKnows, Holding
    <3> QED  BY <1>9, <2>4, <3>3
  <2>7. CASE i.phase = "writer"
    <3>1. CASE i.stage = 1
      <4>1. j.at = "call" /\ j.stage = 2 /\ launches' = <<>>
        BY <1>2, <1>5, <2>1, <2>3, <2>7, <3>1
      <4>2. WriterKnows(j)'
        BY <1>2, <1>5, <1>7, <2>7, <4>1 DEF WriterKnows
      <4>3. TrialKnows(k, j)'
        BY <1>2, <1>3, <2>3, <2>7, <4>1, <4>2 DEF TrialKnows, Holding
      <4> QED  BY <1>9, <2>4, <4>3
    <3>2. CASE i.stage = 2
      <4>1. j.at = "release" /\ launches' = <<j.base>>
        BY <1>2, <1>5, <2>1, <2>3, <2>7, <3>2
      <4>2. alive' = {}
        BY <1>3, <1>5, <2>5, <2>7 DEF LoadingIsOver, TrialPhases
      <4>3. WriterKnows(j)'
        BY <1>2, <1>5, <1>7, <2>7, <4>1, <4>2 DEF WriterKnows
      <4>4. TrialKnows(k, j)'
        BY <1>2, <1>3, <2>3, <2>7, <4>1, <4>3 DEF TrialKnows, Holding
      <4> QED  BY <1>9, <2>4, <4>4
    <3> QED  BY <1>5, <2>7, <3>1, <3>2
  <2> QED  BY <1>3, <2>6, <2>7
<1>11. CASE ~(verified /\ T!Guarded(k)) /\ i.phase = "loading"
  <2>1. T!Step(k, [i EXCEPT !.at = "restore", !.clean = verified])
    BY <1>6, <1>11
  <2>2. PICK j \in TrialJob : /\ j = [i EXCEPT !.at = "restore", !.clean = verified]
                              /\ j.at = "restore" /\ j.phase = i.phase /\ j.base = i.base
                              /\ (j.clean <=> verified)
    <3>1. PICK at \in TrialPlaces : at = "restore"
      BY DEF TrialPlaces
    <3>2. PICK j \in TrialJob : j = [i EXCEPT !.at = at, !.clean = verified]
      BY DEF TrialJob
    <3> QED  BY <3>1, <3>2 DEF TrialJob
  <2>3. j.clean => "loading" \notin alive'
    BY <1>6, <1>11, <2>2
  <2>4. LoadingKnows(j)'
    BY <1>2, <1>4, <1>11, <2>2, <2>3 DEF LoadingKnows
  <2>5. TrialKnows(k, j)'
    BY <1>2, <1>3, <1>11, <2>2, <2>4 DEF TrialKnows, Holding
  <2> QED  BY <1>9, <2>1, <2>2, <2>5
<1>12. CASE ~(verified /\ T!Guarded(k)) /\ i.phase # "loading"
  <2>1. T!Fails(k)
    BY <1>6, <1>12
  <2>2. PICK at \in TrialPlaces : at = "release"
    BY DEF TrialPlaces
  <2>3. PICK j \in TrialJob : /\ j = [i EXCEPT !.at = "release", !.fine = FALSE]
                              /\ j.at = "release" /\ j.phase = i.phase /\ j.base = i.base /\ ~j.fine
    <3>1. PICK no \in BOOLEAN : no <=> FALSE
      OBVIOUS
    <3>2. PICK j \in TrialJob : j = [i EXCEPT !.at = at, !.fine = no]
      BY DEF TrialJob
    <3>3. j.at = at /\ j.phase = i.phase /\ j.base = i.base /\ (j.fine <=> no)
      BY <3>2 DEF TrialJob
    <3>4. j = [i EXCEPT !.at = "release", !.fine = FALSE]
      BY <2>2, <3>1, <3>2, Zenon
    <3> QED  BY <2>2, <3>1, <3>3, <3>4
  <2>4. proc' = [proc EXCEPT ![k] = j]
    BY <1>1, <1>3, <2>1, <2>3 DEF T!Fails, TrialInv, TrialTypes
  <2>5. TrialKnows(k, j)'
    BY <1>2, <1>3, <1>12, <2>3 DEF TrialKnows, WriterKnows, Holding
  <2>6. T!Step(k, j)
    BY <2>4 DEF T!Step
  <2> QED  BY <1>9, <2>5, <2>6
<1> QED  BY <1>10, <1>11, <1>12

\* Whoever fails with the lock gives it back next.
LEMMA TrialFailsTo ==
    ASSUME TrialInv, NEW k \in Processes, T!Fails(k), lock = k, lock' = k, inputs' = inputs
    PROVE  \E j \in TrialJob : proc' = [proc EXCEPT ![k] = j] /\ TrialKnows(k, j)'
<1>1. PICK i \in TrialJob : i = proc[k] /\ TrialKnows(k, i)
  BY TrialFacts
<1>2. PICK at \in TrialPlaces, no \in BOOLEAN : at = "release" /\ (no <=> FALSE)
  BY DEF TrialPlaces
<1>3. PICK j \in TrialJob : j = [i EXCEPT !.at = at, !.fine = no]
  BY DEF TrialJob
<1>4. j.at = at /\ j.base = i.base /\ (j.fine <=> no)
  BY <1>3 DEF TrialJob
<1>5. j = [i EXCEPT !.at = "release", !.fine = FALSE]
  BY <1>2, <1>3, Zenon
<1>6. proc' = [proc EXCEPT ![k] = j]
  BY <1>1, <1>5 DEF T!Fails, TrialInv, TrialTypes
<1>7. TrialKnows(k, j)'
  BY <1>1, <1>2, <1>4 DEF TrialKnows, LoadingKnows, WriterKnows, Holding
<1> QED  BY <1>6, <1>7

\* The receipt passes only if the roots are as they were and no container is left.
LEMMA TrialRestores ==
    ASSUME TrialInv, NEW k \in Processes, T!Restore(k) \/ T!Restored(k)
    PROVE  TrialInv'
<1>1. PICK i \in TrialJob : i = proc[k] /\ TrialKnows(k, i)
  BY TrialFacts
<1>2. /\ i.at \in {"restore", "restoring"}
      /\ UNCHANGED <<record, candidate, evidence, alive, inputs, lock, launches>>
      /\ T!Restore(k) => i.at = "restore" /\ (T!Fails(k) \/ (i.clean /\ T!GoTo(k, "restoring")))
      /\ T!Restored(k) => i.at = "restoring" /\ (T!Fails(k) \/ T!GoTo(k, "release"))
      /\ T!Restored(k) => receipt' = "failed" \/ (receipt' = "passed" /\ roots' = {})
      /\ T!Restore(k) => receipt' \in {receipt, "failed"}
  BY <1>1 DEF T!Restore, T!Restored, T!At
<1>3. /\ i.phase = "loading" /\ LoadingKnows(i) /\ lock = k /\ lock' = k /\ evidence \subseteq TrialPhases
      /\ alive \subseteq evidence /\ lock \in Processes \cup {T!Free, T!Left}
  BY <1>1, <1>2 DEF TrialJob, TrialPhases, TrialKnows, WriterKnows, Holding, TrialInv, TrialTypes
<1>4. /\ "loading" \in evidence /\ receipt # "passed" /\ ~LoadingIsOver
      /\ i.clean => "loading" \notin alive
      /\ i.at = "restoring" => i.clean
  BY <1>2, <1>3 DEF LoadingKnows, LoadingIsOver
<1>5. receipt' = "passed" => LoadingIsOver'
  BY <1>2, <1>4 DEF LoadingIsOver
<1>6. TrialHolds'
  BY <1>2, <1>4, <1>5 DEF TrialInv, TrialHolds
<1>7. ASSUME NEW j \in TrialJob, proc' = [proc EXCEPT ![k] = j], TrialKnows(k, j)' PROVE TrialInv'
  BY <1>2, <1>3, <1>4, <1>6, <1>7, TrialGoesAlone
<1>8. CASE T!Fails(k)
  BY <1>2, <1>3, <1>7, <1>8, TrialFailsTo
<1>9. CASE T!Restore(k) /\ i.clean /\ T!GoTo(k, "restoring")
  <2>1. PICK there \in TrialPlaces : there = "restoring"
    BY DEF TrialPlaces
  <2>2. PICK j \in TrialJob : /\ proc' = [proc EXCEPT ![k] = j] /\ j.at = "restoring"
                              /\ j.base = i.base /\ j.phase = i.phase /\ (j.clean <=> i.clean)
    BY <1>1, <1>9, <2>1, TrialGoesTo
  <2>3. TrialKnows(k, j)'
    BY <1>1, <1>2, <1>3, <1>4, <1>9, <2>2 DEF TrialKnows, LoadingKnows, Holding
  <2> QED  BY <1>7, <2>2, <2>3
<1>10. CASE T!Restored(k) /\ T!GoTo(k, "release")
  <2>1. PICK there \in TrialPlaces : there = "release"
    BY DEF TrialPlaces
  <2>2. PICK j \in TrialJob : /\ proc' = [proc EXCEPT ![k] = j] /\ j.at = "release"
                              /\ j.base = i.base /\ j.phase = i.phase
    BY <1>1, <1>10, <2>1, TrialGoesTo
  <2>3. TrialKnows(k, j)'
    BY <1>1, <1>2, <1>3, <2>2 DEF TrialKnows, LoadingKnows, Holding
  <2> QED  BY <1>7, <2>2, <2>3
<1> QED  BY <1>2, <1>8, <1>9, <1>10

LEMMA TrialReleases ==
    ASSUME TrialInv, NEW k \in Processes, T!Release(k)
    PROVE  TrialInv'
<1>1. PICK i \in TrialJob : i = proc[k] /\ TrialKnows(k, i)
  BY TrialFacts
<1>2. /\ i.at = "release" /\ lock = k /\ lock' = T!Free /\ UNCHANGED <<record, candidate>>
      /\ UNCHANGED <<evidence, alive, roots, receipt, launches, inputs>>
      /\ T!GoTo(k, IF ~i.fine THEN "leave" ELSE IF i.phase = "loading" THEN "package" ELSE "deliver")
  BY <1>1 DEF T!Release, T!Phase, T!At, T!outside
<1>3. TrialHolds'
  BY <1>2, HoldsStill DEF TrialInv
<1>4. PICK at \in TrialPlaces :
         at = IF ~i.fine THEN "leave" ELSE IF i.phase = "loading" THEN "package" ELSE "deliver"
  BY DEF TrialPlaces
<1>5. PICK j \in TrialJob : /\ proc' = [proc EXCEPT ![k] = j] /\ j.at = at
                            /\ j.base = i.base /\ j.phase = i.phase
  <2>1. T!GoTo(k, at)
    BY <1>2, <1>4
  <2> QED  BY <1>1, <2>1, TrialGoesTo
<1>6. i.phase \in {"loading", "writer"} /\ j.at \in {"leave", "package", "deliver"}
  BY <1>4, <1>5 DEF TrialJob, TrialPhases
<1>7. j.phase = "loading" => LoadingKnows(j)'
  BY <1>4, <1>5, <1>6 DEF LoadingKnows
<1>8. j.phase = "writer" => WriterKnows(j)'
  BY <1>1, <1>2, <1>4, <1>5 DEF TrialKnows, WriterKnows, LoadingIsOver
<1>9. /\ lock' # k /\ lock' \in Processes \cup {T!Free, T!Left}
      /\ \A q \in Processes \ {k} : lock' = q <=> lock = q
  BY <1>2, TrialLock
<1>10. TrialKnows(k, j)'
  BY <1>1, <1>2, <1>5, <1>6, <1>7, <1>8, <1>9 DEF TrialKnows, Holding
<1> QED  BY <1>2, <1>3, <1>5, <1>9, <1>10, TrialGoes

LEMMA TrialPackages ==
    ASSUME TrialInv, NEW k \in Processes, T!PackageLoading(k)
    PROVE  TrialInv'
<1>1. PICK i \in TrialJob : i = proc[k] /\ TrialKnows(k, i)
  BY TrialFacts
<1>2. /\ i.at = "package" /\ UNCHANGED <<record, candidate>>
      /\ UNCHANGED <<evidence, alive, roots, receipt, launches, inputs, lock>>
      /\ \/ T!Step(k, [i EXCEPT !.phase = "writer", !.at = "admit"])
         \/ T!Step(k, T!Idle) \/ T!Fails(k)
  BY <1>1 DEF T!PackageLoading, T!At, T!outside
<1>3. TrialHolds'
  BY <1>2, HoldsStill DEF TrialInv
<1>4. i.at \notin Holding /\ lock # k /\ lock \in Processes \cup {T!Free, T!Left}
  BY <1>1, <1>2 DEF TrialKnows, Holding, TrialInv, TrialTypes
<1>5. CASE T!Step(k, [i EXCEPT !.phase = "writer", !.at = "admit"])
  <2>1. PICK p \in TrialPhases, at \in TrialPlaces : p = "writer" /\ at = "admit"
    BY DEF TrialPhases, TrialPlaces
  <2>2. PICK j \in TrialJob : j = [i EXCEPT !.phase = p, !.at = at]
    BY DEF TrialJob
  <2>3. j.at = "admit" /\ j.base = i.base
    BY <2>1, <2>2 DEF TrialJob
  <2>4. TrialKnows(k, j)'
    BY <1>1, <1>2, <1>4, <2>3, TrialUnknowing
  <2> QED  BY <1>2, <1>3, <1>4, <1>5, <2>1, <2>2, <2>4, TrialGoes DEF T!Step
<1> QED  BY <1>2, <1>3, <1>4, <1>5, TrialEnds, TrialFails

LEMMA TrialReads ==
    ASSUME TrialInv, NEW k \in Processes, T!ReadStudy(k)
    PROVE  TrialInv'
<1>1. PICK i \in TrialJob : i = proc[k] /\ TrialKnows(k, i)
  BY TrialFacts
<1>2. /\ i.at = "deliver" /\ UNCHANGED <<record, candidate>>
      /\ UNCHANGED <<evidence, alive, roots, receipt, launches, inputs, lock>>
      /\ \/ T!Step(k, T!Idle) \/ T!Fails(k)
         \/ inputs = 1 /\ T!GoTo(k, "freeze")
  BY <1>1 DEF T!ReadStudy, T!At, T!outside, T!disk, T!Study
<1>3. TrialHolds'
  BY <1>2, HoldsStill DEF TrialInv
<1>4. lock # k /\ lock \in Processes \cup {T!Free, T!Left}
  BY <1>1, <1>2 DEF TrialKnows, Holding, TrialInv, TrialTypes
<1>5. CASE inputs = 1 /\ T!GoTo(k, "freeze")
  <2>1. PICK there \in TrialPlaces : there = "freeze"
    BY DEF TrialPlaces
  <2>2. PICK j \in TrialJob : /\ proc' = [proc EXCEPT ![k] = j] /\ j.at = "freeze"
                              /\ j.base = i.base /\ j.phase = i.phase
    BY <1>1, <1>5, <2>1, TrialGoesTo
  <2>3. j.phase = "writer" /\ WriterKnows(i)
    BY <1>1, <1>2, <2>2 DEF TrialJob, TrialPhases, TrialKnows, LoadingKnows
  <2>4. j.base = 1
    <3>1. i.base \in 1..2 /\ i.base <= inputs
      BY <1>1 DEF TrialJob, TrialKnows
    <3> QED  BY <1>5, <2>2, <3>1
  <2>5. WriterKnows(j)
    BY <1>2, <2>2, <2>3, <2>4 DEF WriterKnows
  <2>6. TrialKnows(k, j)
    BY <1>1, <1>4, <2>2, <2>3, <2>5 DEF TrialKnows, Holding
  <2>7. TrialKnows(k, j)'
    BY <1>2, <2>6, KnowsStill
  <2> QED  BY <1>2, <1>3, <1>4, <2>2, <2>7, TrialGoes
<1> QED  BY <1>2, <1>3, <1>4, <1>5, TrialEnds, TrialFails

LEMMA TrialFreezes ==
    ASSUME TrialInv, NEW k \in Processes, T!FreezeDelivery(k)
    PROVE  TrialInv'
<1>1. PICK i \in TrialJob : i = proc[k] /\ TrialKnows(k, i)
  BY TrialFacts
<1>2. /\ i.at = "freeze"
      /\ UNCHANGED <<evidence, alive, roots, receipt, launches, inputs, lock>>
      /\ \/ record' = "completed" /\ candidate' = roots /\ T!Step(k, T!Idle)
         \/ T!Fails(k) /\ UNCHANGED <<record, candidate>>
  BY <1>1 DEF T!FreezeDelivery, T!At, T!outside
<1>3. i.phase = "writer" /\ WriterKnows(i)
  BY <1>1, <1>2 DEF TrialJob, TrialPhases, TrialKnows, LoadingKnows
<1>4. LoadingIsOver /\ launches = <<1>> /\ alive = {} /\ "writer" \in evidence
  BY <1>2, <1>3 DEF WriterKnows
<1>5. CASE record' = "completed" /\ candidate' = roots /\ T!Step(k, T!Idle)
  <2>1. TrialHolds'
    BY <1>2, <1>4, <1>5 DEF TrialInv, TrialHolds, LoadingIsOver
  <2>2. lock # k
    BY <1>1, <1>2 DEF TrialKnows, Holding
  <2> QED  BY <1>2, <1>5, <2>1, <2>2, TrialEnds
<1>6. CASE T!Fails(k) /\ UNCHANGED <<record, candidate>>
  <2>1. TrialHolds'
    BY <1>2, <1>6, HoldsStill DEF TrialInv
  <2> QED  BY <1>2, <1>6, <2>1, TrialFails
<1> QED  BY <1>2, <1>5, <1>6

LEMMA TrialLeaves ==
    ASSUME TrialInv, NEW k \in Processes, T!Leave(k) \/ T!Stop(k)
    PROVE  TrialInv'
<1>1. PICK i \in TrialJob : i = proc[k] /\ TrialKnows(k, i)
  BY TrialFacts
<1>2. /\ UNCHANGED <<evidence, alive, roots, receipt, launches, inputs, candidate>>
      /\ T!Step(k, T!Idle) /\ record' \in {record, "failed"}
      /\ T!Leave(k) => i.at = "leave" /\ lock' = lock
      /\ T!Stop(k) => lock' \in IF lock = k THEN {T!Free, T!Left} ELSE {lock}
  BY <1>1 DEF T!Leave, T!Stop, T!At, T!outside
<1>3. TrialHolds'
  BY <1>2, HoldsStill DEF TrialInv
<1>4. lock' \in {lock, T!Free, T!Left} /\ lock' # k /\ (lock' # lock => lock = k)
  <2>1. T!Leave(k) => lock # k
    BY <1>1, <1>2 DEF TrialKnows, Holding
  <2> QED  BY <1>2, <2>1, TrialLock
<1> QED  BY <1>2, <1>3, <1>4, TrialEnds

LEMMA TrialOutside ==
    ASSUME TrialInv, T!CommandWrites \/ T!CommandEnds \/ T!Drift
    PROVE  TrialInv'
<1>1. /\ UNCHANGED <<evidence, receipt, launches, proc, lock, record, candidate>>
      /\ alive' \subseteq alive
      /\ UNCHANGED roots \/ (UNCHANGED alive /\ \E p \in alive : roots' = roots \cup {p})
  BY DEF T!CommandWrites, T!CommandEnds, T!Drift, T!disk
<1>2. inputs \in 1..2 /\ alive \subseteq evidence /\ evidence \subseteq TrialPhases
  BY DEF TrialInv, TrialTypes
<1>3. inputs' \in 1..2 /\ \A b \in 1..2 : b <= inputs => b <= inputs'
  BY <1>2 DEF T!CommandWrites, T!CommandEnds, T!Drift, T!Study
<1>4. LoadingIsOver => LoadingIsOver'
  BY <1>1, <1>2 DEF LoadingIsOver, TrialPhases
<1>5. TrialTypes'
  BY <1>1, <1>2, <1>3 DEF TrialInv, TrialTypes
<1>6. alive = {} => alive' = {}
  BY <1>1
<1>7. TrialHolds'
  BY <1>1, <1>4, <1>6 DEF TrialInv, TrialHolds, LoadingIsOver
<1>8. ASSUME NEW q \in Processes PROVE TrialKnows(q, proc[q])'
  <2>1. PICK i \in TrialJob : i = proc[q] /\ TrialKnows(q, i)
    BY TrialFacts
  <2>2. i.base <= inputs'
    BY <1>3, <2>1 DEF TrialJob, TrialKnows
  <2>3. i.phase = "loading" => LoadingKnows(i)'
    BY <1>1, <2>1 DEF TrialKnows, LoadingKnows
  <2>4. i.phase = "writer" => WriterKnows(i)'
    BY <1>1, <1>4, <1>6, <2>1 DEF TrialKnows, WriterKnows
  <2>5. TrialKnows(q, i)'
    BY <1>1, <2>1, <2>2, <2>3, <2>4 DEF TrialKnows
  <2> QED  BY <1>1, <2>1, <2>5
<1> QED  BY <1>5, <1>7, <1>8 DEF TrialInv

LEMMA TrialStartsSo ==
    ASSUME T!AttemptInit
    PROVE  TrialInv
<1>1. PICK j \in TrialJob : j = T!Idle /\ j.at = "idle" /\ j.phase = "loading" /\ j.base = 1
  BY TrialIdle
<1>2. /\ record = "none" /\ evidence = {} /\ lock = T!Free /\ roots = {} /\ alive = {}
      /\ inputs = 1 /\ receipt = "none" /\ launches = <<>>
      /\ proc = [q \in Processes |-> j]
  BY <1>1 DEF T!AttemptInit, T!Study
<1>3. TrialTypes
  BY <1>2 DEF TrialTypes
<1>4. TrialHolds
  BY <1>2 DEF TrialHolds
<1>5. \A q \in Processes : TrialKnows(q, proc[q])
  BY <1>1, <1>2, TrialLock DEF TrialKnows, LoadingKnows, Holding
<1> QED  BY <1>3, <1>4, <1>5 DEF TrialInv

LEMMA TrialGoesOn ==
    ASSUME TrialInv, T!AttemptNext
    PROVE  TrialInv'
BY TrialBegins, TrialSaves, TrialAdmits, TrialLoads, TrialLocks, TrialMakesEvidence, TrialStarts,
   TrialEndsCall, TrialRestores, TrialReleases, TrialPackages, TrialReads, TrialFreezes,
   TrialLeaves, TrialOutside DEF T!AttemptNext

LEMMA TrialIsSound ==
    ASSUME TrialInv
    PROVE  T!AttemptSound
<1>1. Len(launches) <= 1
  <2>1. CASE launches = <<>>
    BY <2>1
  <2>2. ASSUME NEW b \in 1..2, launches = <<b>> PROVE Len(launches) <= 1
    BY <2>2
  <2> QED  BY <2>1, <2>2 DEF TrialInv, TrialHolds
<1>2. ASSUME NEW k \in Processes, T!Writing(k)
      PROVE  /\ roots \subseteq {"writer"} /\ "loading" \notin alive
             /\ \A q \in Processes \ {k} : lock # q
  <2>1. PICK i \in TrialJob : i = proc[k] /\ TrialKnows(k, i)
    BY TrialFacts
  <2>2. i.at = "called" /\ i.phase = "writer"
    BY <1>2, <2>1 DEF T!Writing, T!At, T!Phase
  <2> QED  BY <2>1, <2>2 DEF TrialKnows, WriterKnows, LoadingIsOver, Holding
<1> QED  BY <1>1, <1>2 DEF T!AttemptSound, TrialInv, TrialHolds, T!Study

(* AttemptSound of TrialAttempt, for any number of callers, of whom any may   *)
(* be stopped anywhere, and any number of jobs: the writer of a trial runs    *)
(* once, alone and over restored roots, and a completed trial holds what it   *)
(* wrote over the inputs of the study (coding_trial_suite.py, _run_attempt).  *)
THEOREM AttemptsStaySound == Spec => [](which = "attempt" => T!AttemptSound)
<1> DEFINE Inv == which = "attempt" => TrialInv
<1>1. Init => Inv
  BY TrialStartsSo DEF Init
<1>2. Inv /\ [Next]_vars => Inv'
  <2> SUFFICES ASSUME Inv, [Next]_vars, which' = "attempt" PROVE TrialInv'
    OBVIOUS
  <2>1. which = "attempt" /\ (UNCHANGED attemptVars \/ T!AttemptNext)
    BY DEF Next, vars
  <2>2. CASE UNCHANGED attemptVars
    <3>1. TrialInv
      BY <2>1
    <3> QED  BY <2>2, <3>1 DEF attemptVars, TrialInv, TrialTypes, TrialHolds, TrialKnows,
                LoadingKnows, WriterKnows, LoadingIsOver
  <2> QED  BY <2>1, <2>2, TrialGoesOn
<1>3. Inv => (which = "attempt" => T!AttemptSound)
  BY TrialIsSound
<1> QED  BY <1>1, <1>2, <1>3, PTL DEF Spec

-----------------------------------------------------------------------------
(* TrialReview.  A number of a history is claimed by its folder, so of the  *)
(* commands that may still link one at most has read the history as it is;  *)
(* and what is linked speaks of the behavior receipt that was the latest.   *)

TrialRows   == 1..LastRow
ReviewForms == [of : Nat, verdict : {"pass", "fail", "pending", "none"}]
Assessments == [kind : {"check", "review"}, behavior : Nat, good : BOOLEAN, form : ReviewForms,
                raised : BOOLEAN, passed : BOOLEAN]
ReviewPlaces == {"idle", "read", "folder", "assess", "link", "write", "blind", "copy", "index",
                 "apply", "note", "finish", "failed"}
ReviewJob   == [job : {"none", "check", "review", "blind", "apply"},
                at : ReviewPlaces,
                p : TrialRows, base : Seq(Assessments), form : ReviewForms,
                result : Assessments \cup {<<>>}, rows : [TrialRows -> Nat] \cup {<<>>},
                forms : [TrialRows -> {"pass", "fail", "pending"}], app : Nat]

Applying == [packets : Nat, forms : [TrialRows -> {"pass", "fail", "pending"}],
            linked : [TrialRows -> Nat], status : {"open", "completed", "failed"}]
IsPass(form1, b) == form1 = [of |-> b, verdict |-> "pass"]
\* Of entry n of a history h: what it says of the behavior receipt that was the latest.
EntrySound(h, n) ==
    /\ h[n].kind = "check" => h[n].behavior \in {0, n} /\ ~h[n].passed
    /\ h[n].kind = "review" => h[n].behavior # n
    /\ h[n].behavior # 0 => /\ h[n].behavior \in 1..n /\ h[h[n].behavior].kind = "check"
                            /\ \A k \in h[n].behavior..n : h[k].behavior = h[n].behavior
    /\ h[n].passed => /\ h[n].behavior # 0 /\ h[h[n].behavior].good
                      /\ IsPass(h[n].form, h[n].behavior)
HistorySound(h) == /\ h \in Seq(Assessments) /\ h # <<>>
                   /\ \A n \in 1..Len(h) : EntrySound(h, n)
\* What may be linked to such a history.
NextSound(h, e) ==
    /\ e \in Assessments
    /\ e.kind = "check" => e.behavior \in {0, Len(h) + 1} /\ ~e.passed
    /\ e.kind = "review" => e.behavior = h[Len(h)].behavior
    /\ e.passed => e.behavior # 0 /\ h[e.behavior].good /\ IsPass(e.form, e.behavior)

Assessing == {"assess", "link", "write"}
ReviewKnows(i) ==
    /\ i.at \in Assessing \cup {"folder"} => HistorySound(i.base)
    /\ i.at \in Assessing => Len(i.base) + 1 \in folders[i.p]
    /\ i.at \in {"link", "write"} => NextSound(i.base, i.result)
    /\ i.at = "write" => i.base = history[i.p]
    /\ i.job = "apply" /\ i.at # "apply" => i.rows \in [TrialRows -> Nat]
    /\ i.at = "note" => i.job = "apply"
ReviewTypes ==
    /\ history \in [TrialRows -> Seq(Assessments)] /\ folders \in [TrialRows -> SUBSET Nat]
    /\ form \in [TrialRows -> {"pass", "fail", "pending"}]
    /\ packets \in Seq([TrialRows -> Nat] \cup {<<>>}) /\ applications \in Seq(Applying)
    /\ reviewers \in [Processes -> ReviewJob]
\* An assessment that was reported is a row, a number of its history, and what is there.
ReturnedStands(r) ==
    \E p \in TrialRows : \E n \in 1..Len(history[p]) : r = <<p, n, history[p][n]>>
NumbersApart(i, j) == i.at \in Assessing /\ j.at \in Assessing /\ i.p = j.p =>
                         Len(i.base) # Len(j.base)
ReviewInv ==
    /\ ReviewTypes /\ \A p \in TrialRows : HistorySound(history[p])
    /\ \A q \in Processes : ReviewKnows(reviewers[q])
    /\ \A q \in Processes, s \in Processes :
          q # s => NumbersApart(reviewers[q], reviewers[s])
    /\ \A r \in returned : ReturnedStands(r)

\* An assessment that may be linked leaves a history that is sound.
LEMMA HistoryGrows ==
    ASSUME NEW h, NEW e, NEW g, HistorySound(h), NextSound(h, e), g = Append(h, e)
    PROVE  /\ HistorySound(g) /\ Len(g) = Len(h) + 1 /\ g[Len(g)] = e
           /\ \A n \in 1..Len(h) : g[n] = h[n]
<1>1. h \in Seq(Assessments) /\ h # <<>> /\ e \in Assessments
  BY DEF HistorySound, NextSound
<1>2. PICK m \in Nat \ {0} : Len(h) = m
  BY <1>1, EmptySeq
<1>3. /\ g \in Seq(Assessments) /\ g # <<>> /\ Len(g) = m + 1 /\ g[m + 1] = e
      /\ \A n \in 1..m : g[n] = h[n]
  <2>1. PICK every : every = Assessments
    OBVIOUS
  <2>2. h \in Seq(every) /\ e \in every
    BY <1>1, <2>1
  <2>3. /\ g \in Seq(every) /\ g # <<>> /\ Len(g) = Len(h) + 1 /\ g[Len(h) + 1] = e
        /\ \A n \in 1..Len(h) : g[n] = h[n]
    BY <2>2, AppendProperties
  <2> QED  BY <1>2, <2>1, <2>3
<1>4. ASSUME NEW n \in 1..m PROVE EntrySound(g, n)
  <2>1. EntrySound(h, n)
    BY <1>2 DEF HistorySound
  <2>2. g[n] = h[n] /\ n \in Nat /\ n <= m
    BY <1>3
  <2>3. PICK b : b = h[n].behavior
    OBVIOUS
  <2>4. ASSUME b # 0
        PROVE  /\ b \in 1..n /\ g[b] = h[b] /\ h[b].kind = "check"
               /\ \A k \in b..n : g[k].behavior = b
    <3>1. b \in 1..n /\ h[b].kind = "check" /\ \A k \in b..n : h[k].behavior = b
      BY <2>1, <2>3, <2>4 DEF EntrySound
    <3>2. b \in 1..m /\ \A k \in b..n : k \in 1..m
      BY <1>2, <2>2, <3>1
    <3> QED  BY <1>3, <3>1, <3>2
  <2>5. h[n].passed => b # 0 /\ h[b].good /\ IsPass(h[n].form, b)
    BY <2>1, <2>3 DEF EntrySound
  <2>6. /\ h[n].kind = "check" => b \in {0, n} /\ ~h[n].passed
        /\ h[n].kind = "review" => b # n
    BY <2>1, <2>3 DEF EntrySound
  <2>7. g[n] = h[n] /\ g[n].behavior = b
    BY <2>2, <2>3
  <2>8. b # 0 => /\ b \in 1..n /\ g[b].kind = "check" /\ \A k \in b..n : g[k].behavior = b
    BY <2>4
  <2>9. g[n].passed => b # 0 /\ g[b].good /\ IsPass(g[n].form, b)
    BY <2>4, <2>5, <2>7
  <2>a. /\ g[n].kind = "check" => b \in {0, n} /\ ~g[n].passed
        /\ g[n].kind = "review" => b # n
    BY <2>6, <2>7
  <2> QED  BY <2>7, <2>8, <2>9, <2>a, Zenon DEF EntrySound
<1>5. EntrySound(g, m + 1)
  <2>1. EntrySound(h, m) /\ m \in 1..m
    BY <1>2 DEF HistorySound
  <2>2. PICK b \in Nat : b = e.behavior
    BY <1>1 DEF Assessments
  <2>3. e.kind \in {"check", "review"}
    BY <1>1 DEF Assessments
  <2>4. CASE e.kind = "check"
    <3>1. b \in {0, m + 1} /\ ~e.passed
      BY <1>2, <2>2, <2>4 DEF NextSound
    <3>2. \A k \in (m + 1)..(m + 1) : k = m + 1
      OBVIOUS
    <3> QED  BY <1>3, <2>2, <2>4, <3>1, <3>2 DEF EntrySound
  <2>5. CASE e.kind = "review"
    <3>1. b = h[m].behavior
      BY <1>2, <2>2, <2>5 DEF NextSound
    <3>2. ASSUME b # 0
          PROVE  /\ b \in 1..m /\ g[b] = h[b] /\ h[b].kind = "check"
                 /\ \A k \in b..(m + 1) : g[k].behavior = b
      <4>1. b \in 1..m /\ h[b].kind = "check" /\ \A k \in b..m : h[k].behavior = b
        BY <2>1, <3>1, <3>2 DEF EntrySound
      <4>2. g[b] = h[b]
        BY <1>3, <4>1
      <4>3. ASSUME NEW k \in b..(m + 1) PROVE g[k].behavior = b
        <5>1. CASE k = m + 1
          BY <1>3, <2>2, <5>1
        <5>2. CASE k # m + 1
          <6>1. k \in b..m /\ k \in 1..m
            BY <4>1, <5>2
          <6> QED  BY <1>3, <4>1, <6>1
        <5> QED  BY <5>1, <5>2
      <4> QED  BY <4>1, <4>2, <4>3
    <3>3. b # m + 1
      BY <3>2
    <3>4. e.passed => b # 0 /\ h[b].good /\ IsPass(e.form, b)
      BY <2>2 DEF NextSound
    <3>5. b # 0 => b \in 1..(m + 1)
      BY <3>2
    <3> QED  BY <1>3, <2>2, <2>5, <3>2, <3>3, <3>4, <3>5 DEF EntrySound
  <2> QED  BY <2>3, <2>4, <2>5
<1>6. \A n \in 1..(m + 1) : n \in 1..m \/ n = m + 1
  OBVIOUS
<1> QED  BY <1>2, <1>3, <1>4, <1>5, <1>6 DEF HistorySound

LEMMA ReviewFacts ==
    ASSUME ReviewInv, NEW k \in Processes
    PROVE  \E i \in ReviewJob : i = reviewers[k] /\ ReviewKnows(i)
BY DEF ReviewInv, ReviewTypes

\* A command goes on, and what is assessed stays as it is.
LEMMA ReviewGoes ==
    ASSUME ReviewInv, NEW k \in Processes, NEW i \in ReviewJob, i = reviewers[k],
           NEW j \in ReviewJob, reviewers' = [reviewers EXCEPT ![k] = j],
           UNCHANGED <<history, folders, returned>>,
           packets' \in Seq([TrialRows -> Nat] \cup {<<>>}), applications' \in Seq(Applying),
           form' \in [TrialRows -> {"pass", "fail", "pending"}], ReviewKnows(j),
           j.at \in Assessing => i.at \in Assessing /\ i.p = j.p /\ i.base = j.base
    PROVE  ReviewInv'
<1>1. ReviewTypes'
  BY DEF ReviewInv, ReviewTypes
<1>2. \A q \in Processes : reviewers'[q] = IF q = k THEN j ELSE reviewers[q]
  BY DEF ReviewInv, ReviewTypes
<1>3. ASSUME NEW q \in Processes PROVE ReviewKnows(reviewers[q])'
  <2>1. PICK u \in ReviewJob : u = reviewers[q] /\ ReviewKnows(u)
    BY ReviewFacts
  <2>2. PICK v \in ReviewJob : v = reviewers'[q] /\ ReviewKnows(v)
    BY <1>2, <2>1
  <2>3. ReviewKnows(v)'
    BY <2>2 DEF ReviewKnows
  <2> QED  BY <2>2, <2>3
<1>4. ASSUME NEW q \in Processes, NEW s \in Processes, q # s
      PROVE  NumbersApart(reviewers[q], reviewers[s])'
  <2>1. NumbersApart(reviewers[q], reviewers[s]) /\ NumbersApart(reviewers[s], reviewers[q])
    BY <1>4 DEF ReviewInv
  <2>2. CASE q = k
    BY <1>2, <1>4, <2>1, <2>2 DEF NumbersApart
  <2>3. CASE s = k
    BY <1>2, <1>4, <2>1, <2>3 DEF NumbersApart
  <2>4. CASE q # k /\ s # k
    BY <1>2, <1>4, <2>1, <2>4 DEF NumbersApart
  <2> QED  BY <2>2, <2>3, <2>4
<1>5. \A r \in returned' : ReturnedStands(r)'
  BY DEF ReviewInv, ReturnedStands
<1>6. \A p \in TrialRows : HistorySound(history[p])'
  BY DEF ReviewInv
<1> QED  BY <1>1, <1>3, <1>4, <1>5, <1>6 DEF ReviewInv

\* What a command knows before it assesses, or after.
LEMMA ReviewIdles ==
    ASSUME NEW j \in ReviewJob, j.at \in {"idle", "read", "blind", "copy", "index", "apply", "finish",
                                          "failed"},
           j.job = "apply" /\ j.at # "apply" => j.rows \in [TrialRows -> Nat]
    PROVE  ReviewKnows(j) /\ j.at \notin Assessing
BY DEF ReviewKnows, Assessing

LEMMA ReviewMoves ==
    ASSUME ReviewInv, NEW k \in Processes, NEW i \in ReviewJob, i = reviewers[k],
           NEW x \in ReviewPlaces, R!GoTo(k, x)
    PROVE  \E j \in ReviewJob : /\ reviewers' = [reviewers EXCEPT ![k] = j]
                                /\ j.at = x /\ j.job = i.job /\ j.p = i.p /\ j.base = i.base
                                /\ j.rows = i.rows /\ j.result = i.result
<1>1. PICK j : j = [i EXCEPT !.at = x]
  OBVIOUS
<1>2. j \in ReviewJob
  BY <1>1 DEF ReviewJob
<1>3. /\ j.at = x /\ j.job = i.job /\ j.p = i.p /\ j.base = i.base
      /\ j.rows = i.rows /\ j.result = i.result
  BY <1>1 DEF ReviewJob
<1>4. reviewers' = [reviewers EXCEPT ![k] = j]
  BY <1>1 DEF R!GoTo, ReviewInv, ReviewTypes
<1> QED  BY <1>2, <1>3, <1>4

LEMMA ReviewIdle ==
    R!Idle \in ReviewJob /\ R!Idle.at = "idle" /\ R!Idle.job = "none"
<1>1. PICK none \in ReviewForms : none = [of |-> 0, verdict |-> "none"]
  BY DEF ReviewForms
<1>2. PICK blank \in [TrialRows -> {"pass", "fail", "pending"}] :
         blank = [p \in TrialRows |-> "pending"]
  OBVIOUS
<1>3. R!Idle = [job |-> "none", at |-> "idle", p |-> 1, base |-> <<>>, form |-> none,
                result |-> <<>>, rows |-> <<>>, forms |-> blank, app |-> 0]
  BY <1>1, <1>2, Zenon DEF R!Idle, R!NoForm, R!Blank, R!Positions, TrialRows
<1>4. 1 \in TrialRows /\ <<>> \in Seq(Assessments)
  BY TrialsAssumption, EmptySeq DEF TrialRows
<1> QED  BY <1>3, <1>4 DEF ReviewJob, ReviewPlaces

LEMMA ReviewRests ==
    ASSUME ReviewInv, NEW k \in Processes, R!Step(k, R!Idle),
           UNCHANGED <<history, folders, returned>>,
           packets' \in Seq([TrialRows -> Nat] \cup {<<>>}), applications' \in Seq(Applying),
           form' \in [TrialRows -> {"pass", "fail", "pending"}]
    PROVE  ReviewInv'
<1>1. PICK i \in ReviewJob : i = reviewers[k] /\ ReviewKnows(i)
  BY ReviewFacts
<1>2. PICK j \in ReviewJob : j = R!Idle /\ j.at = "idle" /\ j.job = "none"
  BY ReviewIdle
<1>3. ReviewKnows(j) /\ j.at \notin Assessing
  BY <1>2, ReviewIdles
<1>4. reviewers' = [reviewers EXCEPT ![k] = j]
  BY <1>2 DEF R!Step
<1> QED  BY <1>1, <1>3, <1>4, ReviewGoes

\* A command whose assessment is refused ends, or is to note that it failed.
LEMMA ReviewRefused ==
    ASSUME ReviewInv, NEW k \in Processes, R!Refused(k),
           NEW i \in ReviewJob, i = reviewers[k], ReviewKnows(i), i.at # "apply",
           UNCHANGED <<history, folders, returned, packets, applications, form>>
    PROVE  ReviewInv'
<1>1. UNCHANGED packets /\ UNCHANGED applications /\ UNCHANGED form
  OBVIOUS
<1>2. /\ packets' \in Seq([TrialRows -> Nat] \cup {<<>>}) /\ applications' \in Seq(Applying)
      /\ form' \in [TrialRows -> {"pass", "fail", "pending"}]
  BY <1>1 DEF ReviewInv, ReviewTypes
<1>3. CASE i.job = "apply"
  <2>1. R!GoTo(k, "failed") /\ "failed" \in ReviewPlaces
    BY <1>3 DEF R!Refused, ReviewPlaces
  <2>2. PICK j \in ReviewJob : /\ reviewers' = [reviewers EXCEPT ![k] = j]
                               /\ j.at = "failed" /\ j.job = i.job /\ j.rows = i.rows
    BY <2>1, ReviewMoves
  <2>3. ReviewKnows(j) /\ j.at \notin Assessing
    <3>1. i.rows \in [TrialRows -> Nat]
      BY <1>3 DEF ReviewKnows
    <3> QED  BY <2>2, <3>1, ReviewIdles
  <2> QED  BY <1>2, <2>2, <2>3, ReviewGoes
<1>4. CASE i.job # "apply"
  BY <1>2, <1>4, ReviewRests DEF R!Refused
<1> QED  BY <1>3, <1>4

\* What the histories say of the behavior receipts that are the latest.
LEMMA RowsTyped ==
    ASSUME ReviewInv
    PROVE  /\ R!Rows \in [TrialRows -> Nat] /\ \A p \in TrialRows : R!Rows[p] = R!Behavior(p)
           /\ R!Positions = TrialRows
<1>1. ASSUME NEW p \in TrialRows PROVE R!Behavior(p) \in Nat
  <2>1. PICK h \in Seq(Assessments) : h = history[p] /\ h # <<>>
    BY DEF ReviewInv, HistorySound
  <2>2. PICK n \in Nat \ {0} : n = Len(h)
    BY <2>1, EmptySeq
  <2>3. PICK e \in Assessments : e = h[n]
    BY <2>1, <2>2, ElementOfSeq
  <2> QED  BY <2>1, <2>2, <2>3 DEF R!Behavior, R!LastOf, Assessments
<1>2. R!Positions = TrialRows
  BY DEF R!Positions, TrialRows
<1> QED  BY <1>1, <1>2 DEF R!Rows

LEMMA ReviewBegins ==
    ASSUME ReviewInv, NEW k \in Processes, R!Begin(k)
    PROVE  ReviewInv'
<1>1. PICK i \in ReviewJob : i = reviewers[k] /\ ReviewKnows(i)
  BY ReviewFacts
<1>2. PICK none \in ReviewJob : none = R!Idle
  BY ReviewIdle
<1>3. UNCHANGED <<history, folders, returned, packets, applications, form>>
  BY DEF R!Begin, R!trial, R!directory
<1>4. ASSUME NEW j \in ReviewJob, R!Step(k, j), ReviewKnows(j), j.at \notin Assessing
      PROVE  ReviewInv'
  <2>1. /\ packets' \in Seq([TrialRows -> Nat] \cup {<<>>}) /\ applications' \in Seq(Applying)
        /\ form' \in [TrialRows -> {"pass", "fail", "pending"}]
    BY <1>3 DEF ReviewInv, ReviewTypes
  <2>2. reviewers' = [reviewers EXCEPT ![k] = j]
    BY <1>4 DEF R!Step
  <2> QED  BY <1>1, <1>3, <1>4, <2>1, <2>2, ReviewGoes
<1>5. PICK p \in TrialRows :
         \/ R!Step(k, [none EXCEPT !.job = "check", !.at = "read", !.p = p])
         \/ \E f \in [of : 1..Len(history[p]), verdict : R!Verdicts] :
               R!Step(k, [none EXCEPT !.job = "review", !.at = "read", !.p = p, !.form = f])
         \/ \E job \in {"blind", "apply"} : R!Step(k, [none EXCEPT !.job = job, !.at = job])
  BY <1>2, RowsTyped DEF R!Begin
<1>6. ASSUME NEW j, j = [none EXCEPT !.job = "check", !.at = "read", !.p = p], R!Step(k, j)
      PROVE  ReviewInv'
  <2>1. j \in ReviewJob /\ j.job = "check" /\ j.at = "read"
    BY <1>6 DEF ReviewJob, ReviewPlaces
  <2>2. ReviewKnows(j) /\ j.at \notin Assessing
    BY <2>1, ReviewIdles
  <2> QED  BY <1>4, <1>6, <2>1, <2>2
<1>7. ASSUME NEW f \in [of : 1..Len(history[p]), verdict : R!Verdicts], NEW j,
             j = [none EXCEPT !.job = "review", !.at = "read", !.p = p, !.form = f], R!Step(k, j)
      PROVE  ReviewInv'
  <2>1. f \in ReviewForms
    BY DEF ReviewForms, R!Verdicts
  <2>2. j \in ReviewJob /\ j.job = "review" /\ j.at = "read"
    BY <1>7, <2>1 DEF ReviewJob, ReviewPlaces
  <2>3. ReviewKnows(j) /\ j.at \notin Assessing
    BY <2>2, ReviewIdles
  <2> QED  BY <1>4, <1>7, <2>2, <2>3
<1>8. ASSUME NEW job \in {"blind", "apply"}, NEW j, j = [none EXCEPT !.job = job, !.at = job],
             R!Step(k, j)
      PROVE  ReviewInv'
  <2>1. j \in ReviewJob /\ j.job = job /\ j.at = job
    BY <1>8 DEF ReviewJob, ReviewPlaces
  <2>2. ReviewKnows(j) /\ j.at \notin Assessing
    BY <2>1, ReviewIdles
  <2> QED  BY <1>4, <1>8, <2>1, <2>2
<1> QED  BY <1>5, <1>6, <1>7, <1>8

LEMMA ReviewReads ==
    ASSUME ReviewInv, NEW k \in Processes, R!ReadAttempt(k)
    PROVE  ReviewInv'
<1>1. PICK i \in ReviewJob : i = reviewers[k] /\ ReviewKnows(i)
  BY ReviewFacts
<1>2. PICK h \in Seq(Assessments) : h = history[i.p] /\ HistorySound(h)
  BY DEF ReviewInv, HistorySound, ReviewJob
<1>3. PICK j : j = [i EXCEPT !.at = "folder", !.base = h]
  OBVIOUS
<1>4. j \in ReviewJob /\ j.at = "folder" /\ j.job = i.job /\ j.base = h /\ j.rows = i.rows
  BY <1>3 DEF ReviewJob, ReviewPlaces
<1>5. reviewers' = [reviewers EXCEPT ![k] = j] /\ i.at = "read"
  BY <1>1, <1>2, <1>3 DEF R!ReadAttempt, R!Step, R!At
<1>6. ReviewKnows(j) /\ j.at \notin Assessing
  BY <1>1, <1>2, <1>4, <1>5 DEF ReviewKnows, Assessing
<1>7. /\ UNCHANGED <<history, folders, returned>>
      /\ packets' \in Seq([TrialRows -> Nat] \cup {<<>>}) /\ applications' \in Seq(Applying)
      /\ form' \in [TrialRows -> {"pass", "fail", "pending"}]
  BY DEF R!ReadAttempt, R!trial, R!directory, ReviewInv, ReviewTypes
<1> QED  BY <1>1, <1>4, <1>5, <1>6, <1>7, ReviewGoes

\* The number of an assessment is claimed by its folder, and nobody else has it.
LEMMA ReviewMakesFolder ==
    ASSUME ReviewInv, NEW k \in Processes, R!MakeFolder(k)
    PROVE  ReviewInv'
<1>1. PICK i \in ReviewJob : i = reviewers[k] /\ ReviewKnows(i)
  BY ReviewFacts
<1>2. /\ i.at = "folder" /\ UNCHANGED <<history, returned, packets, applications, form>>
      /\ HistorySound(i.base)
  BY <1>1 DEF R!MakeFolder, R!At, R!directory, ReviewKnows
<1>3. CASE R!NewFolder(k)
  <2>1. PICK p \in TrialRows : p = i.p
    BY DEF ReviewJob
  <2>2. PICK n \in Nat : n = Len(i.base)
    BY <1>2, LenProperties DEF HistorySound
  <2>3. n + 1 \notin folders[p]
    BY <1>1, <1>3, <2>1, <2>2 DEF R!NewFolder, R!Number
  <2>4. folders' = [folders EXCEPT ![p] = @ \cup {n + 1}] /\ R!GoTo(k, "assess")
    BY <1>1, <1>3, <2>1, <2>2 DEF R!MakeFolder, R!Number
  <2>5. PICK j \in ReviewJob :
           /\ reviewers' = [reviewers EXCEPT ![k] = j] /\ j.at = "assess" /\ j.job = i.job
           /\ j.p = i.p /\ j.base = i.base /\ j.rows = i.rows /\ j.result = i.result
    BY <1>1, <2>4, ReviewMoves DEF ReviewPlaces
  <2>6. /\ folders' \in [TrialRows -> SUBSET Nat] /\ n + 1 \in folders'[p]
        /\ \A r \in TrialRows : folders[r] \subseteq folders'[r]
    BY <2>4 DEF ReviewInv, ReviewTypes
  <2>7. \A q \in Processes : reviewers'[q] = IF q = k THEN j ELSE reviewers[q]
    BY <2>5 DEF ReviewInv, ReviewTypes
  <2>8. ReviewTypes'
    <3>1. reviewers' \in [Processes -> ReviewJob]
      BY <2>5 DEF ReviewInv, ReviewTypes
    <3> QED  BY <1>2, <2>6, <3>1 DEF ReviewInv, ReviewTypes
  <2>9. ASSUME NEW q \in Processes PROVE ReviewKnows(reviewers[q])'
    <3>1. PICK u \in ReviewJob : u = reviewers[q] /\ ReviewKnows(u)
      BY ReviewFacts
    <3>2. CASE q = k
      <4>1. reviewers'[q] = j
        BY <2>7, <3>2
      <4>2. ReviewKnows(j)'
        BY <1>1, <1>2, <2>1, <2>2, <2>5, <2>6 DEF ReviewKnows, Assessing
      <4> QED  BY <4>1, <4>2
    <3>3. CASE q # k
      <4>1. reviewers'[q] = u /\ u.p \in TrialRows
        BY <2>7, <3>1, <3>3 DEF ReviewJob
      <4>2. ReviewKnows(u)'
        BY <1>2, <2>6, <3>1, <4>1 DEF ReviewKnows
      <4> QED  BY <4>1, <4>2
    <3> QED  BY <3>2, <3>3
  <2>a. ASSUME NEW u \in ReviewJob, ReviewKnows(u)
        PROVE  NumbersApart(u, j) /\ NumbersApart(j, u)
    <3>1. SUFFICES ASSUME u.at \in Assessing, u.p = j.p PROVE Len(u.base) # Len(j.base)
      BY DEF NumbersApart
    <3>2. Len(u.base) + 1 \in folders[p]
      BY <2>1, <2>5, <2>a, <3>1 DEF ReviewKnows
    <3> QED  BY <2>2, <2>3, <2>5, <3>2
  <2>b. ASSUME NEW q \in Processes, NEW s \in Processes, q # s
        PROVE  NumbersApart(reviewers[q], reviewers[s])'
    <3>1. PICK u \in ReviewJob : u = reviewers[q] /\ ReviewKnows(u)
      BY ReviewFacts
    <3>2. PICK v \in ReviewJob : v = reviewers[s] /\ ReviewKnows(v)
      BY ReviewFacts
    <3>3. NumbersApart(u, v) /\ NumbersApart(u, j) /\ NumbersApart(j, v)
      BY <2>a, <2>b, <3>1, <3>2 DEF ReviewInv
    <3>4. NumbersApart(reviewers'[q], reviewers'[s])
      BY <2>7, <2>b, <3>1, <3>2, <3>3
    <3> QED  BY <3>4 DEF NumbersApart
  <2>c. /\ \A r \in returned' : ReturnedStands(r)'
        /\ \A r \in TrialRows : HistorySound(history[r])'
    BY <1>2 DEF ReviewInv, ReturnedStands
  <2> QED  BY <2>8, <2>9, <2>b, <2>c DEF ReviewInv
<1>4. CASE ~R!NewFolder(k)
  BY <1>1, <1>2, <1>4, ReviewRefused DEF R!MakeFolder
<1> QED  BY <1>3, <1>4

\* What is assessed speaks of the behavior receipt that was the latest then.
LEMMA ReviewAssesses ==
    ASSUME ReviewInv, NEW k \in Processes, R!Assess(k)
    PROVE  ReviewInv'
<1>1. PICK i \in ReviewJob : i = reviewers[k] /\ ReviewKnows(i)
  BY ReviewFacts
<1>2. /\ i.at = "assess" /\ UNCHANGED <<history, folders, returned, packets, applications, form>>
      /\ HistorySound(i.base) /\ Len(i.base) + 1 \in folders[i.p]
  BY <1>1 DEF R!Assess, R!At, R!trial, R!directory, ReviewKnows, Assessing
<1>3. PICK base \in Seq(Assessments) : base = i.base /\ base # <<>>
  BY <1>2 DEF HistorySound
<1>4. PICK n \in Nat \ {0} : n = Len(base)
  BY <1>3, EmptySeq
<1>5. PICK f \in ReviewForms : f = i.form
  BY DEF ReviewJob
<1>6. PICK e : /\ R!Step(k, [reviewers[k] EXCEPT !.at = "link", !.result = e])
               /\ e \in IF i.job = "check" THEN R!CheckResults(k) ELSE R!ReviewResults(k)
  BY <1>1 DEF R!Assess
<1>7. NextSound(base, e)
  <2>1. CASE e \in R!CheckResults(k)
    <3>1. PICK none \in ReviewForms : none = [of |-> 0, verdict |-> "none"]
      BY DEF ReviewForms
    <3>2. PICK b \in {0, n + 1}, good \in BOOLEAN, no \in BOOLEAN :
             /\ no = FALSE
             /\ e = [kind |-> "check", behavior |-> b, good |-> good, form |-> none,
                     raised |-> no, passed |-> no]
      BY <1>1, <1>3, <1>4, <2>1, <3>1, Zenon DEF R!CheckResults, R!Check, R!NoForm, R!Number
    <3>3. e \in Assessments /\ e.kind = "check" /\ e.behavior = b /\ e.passed = no
      BY <3>2 DEF Assessments
    <3> QED  BY <1>4, <3>2, <3>3 DEF NextSound
  <2>2. CASE e \in R!ReviewResults(k)
    <3>1. PICK last \in Assessments : last = base[n]
      BY <1>3, <1>4, ElementOfSeq
    <3>2. PICK b \in Nat : b = last.behavior
      BY DEF Assessments
    <3>3. PICK raised \in BOOLEAN, passed \in BOOLEAN, no \in BOOLEAN :
             /\ no = FALSE /\ raised \in IF b # 0 /\ f.of = b THEN BOOLEAN ELSE {TRUE}
             /\ passed <=> ~raised /\ f.verdict = "pass" /\ base[b].good
             /\ e = [kind |-> "review", behavior |-> b, good |-> no, form |-> f,
                     raised |-> raised, passed |-> passed]
      <4>1. R!LastOf(base).behavior = b
        BY <1>4, <3>1, <3>2 DEF R!LastOf
      <4>2. PICK raised \in (IF b # 0 /\ f.of = b THEN BOOLEAN ELSE {TRUE}) :
               e = [kind |-> "review", behavior |-> b, good |-> FALSE, form |-> f,
                    raised |-> raised,
                    passed |-> ~raised /\ f.verdict = "pass" /\ base[b].good]
        BY <1>1, <1>3, <1>5, <2>2, <4>1, Zenon DEF R!ReviewResults
      <4>3. raised \in BOOLEAN
        OBVIOUS
      <4>4. (~raised /\ f.verdict = "pass" /\ base[b].good) \in BOOLEAN /\ FALSE \in BOOLEAN
        OBVIOUS
      <4> QED  BY <4>2, <4>3, <4>4, Zenon
    <3>4. /\ e \in Assessments /\ e.kind = "review" /\ e.behavior = b /\ e.form = f
          /\ e.passed = passed
      BY <3>3 DEF Assessments
    <3>5. passed => b # 0 /\ base[b].good /\ IsPass(f, b)
      BY <3>3 DEF IsPass, ReviewForms
    <3> QED  BY <1>4, <3>1, <3>2, <3>4, <3>5 DEF NextSound
  <2> QED  BY <1>6, <2>1, <2>2
<1>8. PICK j : j = [i EXCEPT !.at = "link", !.result = e]
  OBVIOUS
<1>9. /\ j \in ReviewJob /\ j.at = "link" /\ j.job = i.job /\ j.p = i.p /\ j.base = i.base
      /\ j.rows = i.rows /\ j.result = e
  BY <1>7, <1>8 DEF ReviewJob, ReviewPlaces, NextSound
<1>a. reviewers' = [reviewers EXCEPT ![k] = j]
  BY <1>1, <1>6, <1>8 DEF R!Step
<1>b. ReviewKnows(j) /\ i.at \in Assessing
  BY <1>1, <1>2, <1>3, <1>7, <1>9 DEF ReviewKnows, Assessing
<1>c. /\ packets' \in Seq([TrialRows -> Nat] \cup {<<>>}) /\ applications' \in Seq(Applying)
      /\ form' \in [TrialRows -> {"pass", "fail", "pending"}]
  BY <1>2 DEF ReviewInv, ReviewTypes
<1> QED  BY <1>1, <1>2, <1>9, <1>a, <1>b, <1>c, ReviewGoes

LEMMA ReviewCompares ==
    ASSUME ReviewInv, NEW k \in Processes, R!Compare(k)
    PROVE  ReviewInv'
<1>1. PICK i \in ReviewJob : i = reviewers[k] /\ ReviewKnows(i)
  BY ReviewFacts
<1>2. i.at = "link" /\ UNCHANGED <<history, folders, returned, packets, applications, form>>
  BY <1>1 DEF R!Compare, R!At, R!trial, R!directory
<1>3. CASE history[i.p] = i.base
  <2>1. R!GoTo(k, "write")
    BY <1>1, <1>3 DEF R!Compare
  <2>2. PICK j \in ReviewJob :
           /\ reviewers' = [reviewers EXCEPT ![k] = j] /\ j.at = "write" /\ j.job = i.job
           /\ j.p = i.p /\ j.base = i.base /\ j.rows = i.rows /\ j.result = i.result
    BY <1>1, <2>1, ReviewMoves DEF ReviewPlaces
  <2>3. ReviewKnows(j) /\ i.at \in Assessing
    BY <1>1, <1>2, <1>3, <2>2 DEF ReviewKnows, Assessing
  <2>4. /\ packets' \in Seq([TrialRows -> Nat] \cup {<<>>}) /\ applications' \in Seq(Applying)
        /\ form' \in [TrialRows -> {"pass", "fail", "pending"}]
    BY <1>2 DEF ReviewInv, ReviewTypes
  <2> QED  BY <1>1, <1>2, <2>2, <2>3, <2>4, ReviewGoes
<1>4. CASE history[i.p] # i.base
  BY <1>1, <1>2, <1>4, ReviewRefused DEF R!Compare
<1> QED  BY <1>3, <1>4

\* What is linked is the next entry of the history, and no command that still may
\* link one to it has read the history as it is.
LEMMA ReviewLinks ==
    ASSUME ReviewInv, NEW k \in Processes, R!Link(k)
    PROVE  ReviewInv'
<1>1. PICK i \in ReviewJob : i = reviewers[k] /\ ReviewKnows(i)
  BY ReviewFacts
<1>2. /\ i.at = "write" /\ HistorySound(i.base) /\ NextSound(i.base, i.result)
      /\ i.base = history[i.p]
  BY <1>1 DEF R!Link, R!At, ReviewKnows, Assessing
<1>3. UNCHANGED <<folders, packets, applications, form>>
  BY DEF R!Link, R!directory
<1>4. PICK p \in TrialRows : p = i.p
  BY DEF ReviewJob
<1>5. PICK h \in Seq(Assessments) : h = history[p] /\ h = i.base
  BY <1>2, <1>4 DEF HistorySound
<1>6. PICK n \in Nat : n = Len(h)
  BY LenProperties
<1>7. PICK e \in Assessments : e = i.result
  BY <1>2 DEF NextSound
<1>8. PICK g : g = Append(h, e)
  OBVIOUS
<1>9. /\ HistorySound(g) /\ Len(g) = n + 1 /\ g[n + 1] = e
      /\ \A m \in 1..n : g[m] = h[m]
  <2>1. HistorySound(h) /\ NextSound(h, e)
    BY <1>2, <1>5, <1>7
  <2>2. /\ HistorySound(g) /\ Len(g) = Len(h) + 1 /\ g[Len(g)] = e
        /\ \A m \in 1..Len(h) : g[m] = h[m]
    <3>1. HistorySound(g)
      BY <1>8, <2>1, HistoryGrows, Zenon
    <3>2. Len(g) = Len(h) + 1
      BY <1>8, <2>1, HistoryGrows, Zenon
    <3>3. g[Len(g)] = e
      BY <1>8, <2>1, HistoryGrows, Zenon
    <3>4. ASSUME NEW m \in 1..Len(h) PROVE g[m] = h[m]
      BY <1>8, <2>1, HistoryGrows
    <3> QED  BY <3>1, <3>2, <3>3, <3>4
  <2> QED  BY <1>6, <2>2
<1>10. history' = [history EXCEPT ![p] = g] /\ returned' = returned \cup {<<p, n + 1, e>>}
  BY <1>1, <1>4, <1>5, <1>6, <1>7, <1>8 DEF R!Link, R!Number
<1>11. \A r \in TrialRows : history'[r] = IF r = p THEN g ELSE history[r]
  BY <1>10 DEF ReviewInv, ReviewTypes
<1>12. PICK j \in ReviewJob : /\ reviewers' = [reviewers EXCEPT ![k] = j]
                              /\ j.at \notin Assessing /\ ReviewKnows(j)'
  <2>1. CASE i.job = "apply"
    <3>1. R!GoTo(k, "note")
      BY <1>1, <2>1 DEF R!Link
    <3>2. PICK j \in ReviewJob : /\ reviewers' = [reviewers EXCEPT ![k] = j] /\ j.at = "note"
                                 /\ j.job = i.job /\ j.rows = i.rows
      BY <1>1, <3>1, ReviewMoves DEF ReviewPlaces
    <3>3. i.rows \in [TrialRows -> Nat]
      BY <1>1, <1>2, <2>1 DEF ReviewKnows
    <3> QED  BY <2>1, <3>2, <3>3 DEF ReviewKnows, Assessing
  <2>2. CASE i.job # "apply"
    <3>1. R!Step(k, R!Idle)
      BY <1>1, <2>2 DEF R!Link
    <3>2. PICK j \in ReviewJob : j = R!Idle /\ j.at = "idle" /\ j.job = "none"
      BY ReviewIdle
    <3>3. reviewers' = [reviewers EXCEPT ![k] = j]
      BY <3>1, <3>2 DEF R!Step
    <3> QED  BY <3>2, <3>3 DEF ReviewKnows, Assessing
  <2> QED  BY <2>1, <2>2
<1>13. \A q \in Processes : reviewers'[q] = IF q = k THEN j ELSE reviewers[q]
  BY <1>12 DEF ReviewInv, ReviewTypes
<1>14. ReviewTypes'
  <2>1. reviewers' \in [Processes -> ReviewJob]
    BY <1>12 DEF ReviewInv, ReviewTypes
  <2>2. history' \in [TrialRows -> Seq(Assessments)]
    BY <1>9, <1>10 DEF ReviewInv, ReviewTypes, HistorySound
  <2> QED  BY <1>3, <2>1, <2>2 DEF ReviewInv, ReviewTypes
<1>15. \A r \in TrialRows : HistorySound(history[r])'
  <2>1. \A r \in TrialRows : HistorySound(history'[r])
    BY <1>9, <1>11 DEF ReviewInv
  <2> QED  BY <2>1 DEF HistorySound, EntrySound
<1>16. ASSUME NEW q \in Processes PROVE ReviewKnows(reviewers[q])'
  <2>1. PICK u \in ReviewJob : u = reviewers[q] /\ ReviewKnows(u)
    BY ReviewFacts
  <2>2. CASE q = k
    BY <1>12, <1>13, <2>2
  <2>3. CASE q # k
    <3>1. u.at = "write" => u.p # p
      <4>1. SUFFICES ASSUME u.at = "write", u.p = p PROVE FALSE
        OBVIOUS
      <4>2. u.base = history[p]
        BY <2>1, <4>1 DEF ReviewKnows
      <4>3. NumbersApart(u, i)
        BY <1>1, <2>1, <2>3 DEF ReviewInv
      <4> QED  BY <1>2, <1>4, <1>5, <4>1, <4>2, <4>3 DEF NumbersApart, Assessing
    <3>2. u.p \in TrialRows /\ reviewers'[q] = u
      BY <1>13, <2>1, <2>3 DEF ReviewJob
    <3>3. u.at = "write" => history'[u.p] = history[u.p]
      BY <1>11, <3>1, <3>2
    <3>4. ReviewKnows(u)'
      BY <1>3, <2>1, <3>3 DEF ReviewKnows
    <3> QED  BY <3>2, <3>4
  <2> QED  BY <2>2, <2>3
<1>17. ASSUME NEW q \in Processes, NEW s \in Processes, q # s
       PROVE  NumbersApart(reviewers[q], reviewers[s])'
  <2>1. NumbersApart(reviewers[q], reviewers[s])
    BY <1>17 DEF ReviewInv
  <2>2. NumbersApart(reviewers'[q], reviewers'[s])
    BY <1>12, <1>13, <1>17, <2>1 DEF NumbersApart
  <2> QED  BY <2>2 DEF NumbersApart
<1>18. ASSUME NEW r \in returned' PROVE ReturnedStands(r)'
  <2>1. CASE r = <<p, n + 1, e>>
    <3>1. n + 1 \in 1..Len(history'[p]) /\ history'[p][n + 1] = e
      BY <1>9, <1>11
    <3> QED  BY <2>1, <3>1 DEF ReturnedStands
  <2>2. CASE r \in returned
    <3>1. PICK t \in TrialRows : \E m \in 1..Len(history[t]) : r = <<t, m, history[t][m]>>
      BY <2>2 DEF ReviewInv, ReturnedStands
    <3>2. PICK m \in 1..Len(history[t]) : r = <<t, m, history[t][m]>>
      BY <3>1
    <3>3. m \in 1..Len(history'[t]) /\ history'[t][m] = history[t][m]
      <4>1. CASE t = p
        <5>1. m \in 1..n /\ history[t] = h /\ history'[t] = g
          BY <1>5, <1>6, <1>11, <3>2, <4>1
        <5>2. g[m] = h[m] /\ m \in 1..Len(g)
          BY <1>9, <5>1
        <5> QED  BY <5>1, <5>2
      <4>2. CASE t # p
        BY <1>11, <3>2, <4>2
      <4> QED  BY <4>1, <4>2
    <3> QED  BY <3>2, <3>3 DEF ReturnedStands
  <2> QED  BY <1>10, <2>1, <2>2
<1> QED  BY <1>14, <1>15, <1>16, <1>17, <1>18 DEF ReviewInv

\* A command that neither assesses nor is to assess goes on.
LEMMA ReviewGoesOn ==
    ASSUME ReviewInv, NEW k \in Processes, NEW j \in ReviewJob,
           reviewers' = [reviewers EXCEPT ![k] = j],
           UNCHANGED <<history, folders, returned>>,
           packets' \in Seq([TrialRows -> Nat] \cup {<<>>}), applications' \in Seq(Applying),
           form' \in [TrialRows -> {"pass", "fail", "pending"}],
           ReviewKnows(j), j.at \notin Assessing
    PROVE  ReviewInv'
<1>1. PICK i \in ReviewJob : i = reviewers[k]
  BY ReviewFacts
<1> QED  BY <1>1, ReviewGoes

LEMMA ReviewBlinds ==
    ASSUME ReviewInv, NEW k \in Processes, R!Blind(k)
    PROVE  ReviewInv'
<1>1. PICK i \in ReviewJob : i = reviewers[k] /\ ReviewKnows(i)
  BY ReviewFacts
<1>2. /\ UNCHANGED <<history, folders, returned>>
      /\ packets' \in Seq([TrialRows -> Nat] \cup {<<>>}) /\ applications' \in Seq(Applying)
      /\ form' \in [TrialRows -> {"pass", "fail", "pending"}]
  BY DEF R!Blind, R!trial, R!directory, ReviewInv, ReviewTypes
<1>3. CASE R!Step(k, R!Idle)
  BY <1>2, <1>3, ReviewRests
<1>4. CASE R!Step(k, [reviewers[k] EXCEPT !.at = "copy", !.rows = R!Rows, !.app = Len(packets)])
  <2>1. PICK rows \in [TrialRows -> Nat] : rows = R!Rows
    BY RowsTyped
  <2>2. PICK n \in Nat : n = Len(packets)
    BY LenProperties DEF ReviewInv, ReviewTypes
  <2>3. PICK j : j = [i EXCEPT !.at = "copy", !.rows = rows, !.app = n]
    OBVIOUS
  <2>4. j \in ReviewJob /\ j.at = "copy" /\ j.rows = rows
    BY <2>3 DEF ReviewJob, ReviewPlaces
  <2>5. reviewers' = [reviewers EXCEPT ![k] = j]
    BY <1>1, <1>4, <2>1, <2>2, <2>3 DEF R!Step
  <2>6. ReviewKnows(j) /\ j.at \notin Assessing
    BY <2>4, ReviewIdles
  <2> QED  BY <1>2, <2>4, <2>5, <2>6, ReviewGoesOn
<1> QED  BY <1>3, <1>4 DEF R!Blind

LEMMA ReviewMakesBlind ==
    ASSUME ReviewInv, NEW k \in Processes, R!MakeBlind(k)
    PROVE  ReviewInv'
<1>1. PICK i \in ReviewJob : i = reviewers[k] /\ ReviewKnows(i)
  BY ReviewFacts
<1>2. /\ UNCHANGED <<history, folders, returned>>
      /\ packets' \in Seq([TrialRows -> Nat] \cup {<<>>}) /\ applications' \in Seq(Applying)
      /\ form' \in [TrialRows -> {"pass", "fail", "pending"}]
  BY DEF R!MakeBlind, R!trial, ReviewInv, ReviewTypes
<1>3. CASE R!Step(k, R!Idle)
  BY <1>2, <1>3, ReviewRests
<1>4. CASE R!GoTo(k, "index")
  <2>1. PICK j \in ReviewJob : /\ reviewers' = [reviewers EXCEPT ![k] = j]
                               /\ j.at = "index" /\ j.job = i.job /\ j.rows = i.rows
    BY <1>1, <1>4, ReviewMoves DEF ReviewPlaces
  <2>2. i.at = "copy"
    BY <1>1 DEF R!MakeBlind, R!At
  <2>3. ReviewKnows(j) /\ j.at \notin Assessing
    <3>1. j.job = "apply" => j.rows \in [TrialRows -> Nat]
      BY <1>1, <2>1, <2>2 DEF ReviewKnows
    <3> QED  BY <2>1, <3>1, ReviewIdles
  <2> QED  BY <1>2, <2>1, <2>3, ReviewGoesOn
<1> QED  BY <1>3, <1>4 DEF R!MakeBlind

LEMMA ReviewSavesIndex ==
    ASSUME ReviewInv, NEW k \in Processes, R!SaveIndex(k)
    PROVE  ReviewInv'
<1>1. PICK i \in ReviewJob : i = reviewers[k]
  BY ReviewFacts
<1>2. packets' \in Seq([TrialRows -> Nat] \cup {<<>>})
  <2>1. PICK rows \in [TrialRows -> Nat] \cup {<<>>} : rows = i.rows
    BY DEF ReviewJob
  <2>2. packets' = Append(packets, rows)
    BY <1>1, <2>1 DEF R!SaveIndex
  <2>3. packets \in Seq([TrialRows -> Nat] \cup {<<>>})
    BY DEF ReviewInv, ReviewTypes
  <2> QED  BY <2>1, <2>2, <2>3, AppendProperties
<1>3. form' \in [TrialRows -> {"pass", "fail", "pending"}]
  BY RowsTyped DEF R!SaveIndex, R!Blank
<1>4. UNCHANGED <<history, folders, returned>> /\ applications' \in Seq(Applying)
  BY DEF R!SaveIndex, R!trial, ReviewInv, ReviewTypes
<1>5. R!Step(k, R!Idle)
  BY DEF R!SaveIndex
<1> QED  BY <1>2, <1>3, <1>4, <1>5, ReviewRests

LEMMA ReviewEdits ==
    ASSUME ReviewInv, R!EditForm
    PROVE  ReviewInv'
<1>1. /\ form' \in [TrialRows -> {"pass", "fail", "pending"}]
      /\ UNCHANGED <<history, folders, returned, packets, applications, reviewers>>
  BY RowsTyped DEF R!EditForm, R!Verdicts, R!trial
<1> QED  BY <1>1 DEF ReviewInv, ReviewTypes, ReviewKnows, NumbersApart, ReturnedStands

LEMMA ReviewStops ==
    ASSUME ReviewInv, NEW k \in Processes, R!Kill(k) \/ R!Interrupt(k)
    PROVE  ReviewInv'
<1>1. PICK i \in ReviewJob : i = reviewers[k] /\ ReviewKnows(i)
  BY ReviewFacts
<1>2. /\ UNCHANGED <<history, folders, returned>>
      /\ packets' \in Seq([TrialRows -> Nat] \cup {<<>>}) /\ applications' \in Seq(Applying)
      /\ form' \in [TrialRows -> {"pass", "fail", "pending"}]
  BY DEF R!Kill, R!Interrupt, R!trial, R!directory, ReviewInv, ReviewTypes
<1>3. CASE R!Kill(k)
  BY <1>2, <1>3, ReviewRests DEF R!Kill
<1>4. CASE R!Interrupt(k)
  <2>1. R!GoTo(k, "failed") /\ i.job = "apply" /\ i.at # "apply"
    BY <1>1, <1>4 DEF R!Interrupt
  <2>2. PICK j \in ReviewJob : /\ reviewers' = [reviewers EXCEPT ![k] = j]
                               /\ j.at = "failed" /\ j.job = i.job /\ j.rows = i.rows
    BY <1>1, <2>1, ReviewMoves DEF ReviewPlaces
  <2>3. ReviewKnows(j) /\ j.at \notin Assessing
    <3>1. i.rows \in [TrialRows -> Nat]
      BY <1>1, <2>1 DEF ReviewKnows
    <3> QED  BY <2>2, <3>1, ReviewIdles
  <2> QED  BY <1>2, <2>2, <2>3, ReviewGoesOn
<1> QED  BY <1>3, <1>4

LEMMA ApplicationsKept ==
    ASSUME NEW s \in Seq(Applying), NEW x, NEW v, x \in 1..Len(s) => v \in Applying,
           NEW t, t = [s EXCEPT ![x] = v]
    PROVE  t \in Seq(Applying)
<1>1. PICK n \in Nat : n = Len(s) /\ s \in [1..n -> Applying]
  BY LenProperties
<1>2. t \in [1..n -> Applying]
  <2>1. ASSUME NEW y \in 1..n PROVE t[y] \in Applying
    BY <1>1, <2>1
  <2>2. t = [y \in 1..n |-> IF y = x THEN v ELSE s[y]]
    BY <1>1
  <2>3. \A y \in 1..n : (IF y = x THEN v ELSE s[y]) \in Applying
    BY <1>1
  <2> QED  BY <2>2, <2>3, Zenon
<1> QED  BY <1>2, SeqDef

LEMMA ReviewApplies ==
    ASSUME ReviewInv, NEW k \in Processes, R!Apply(k)
    PROVE  ReviewInv'
<1>1. PICK i \in ReviewJob : i = reviewers[k] /\ ReviewKnows(i)
  BY ReviewFacts
<1>2. /\ UNCHANGED <<history, folders, returned>>
      /\ packets' \in Seq([TrialRows -> Nat] \cup {<<>>})
      /\ form' \in [TrialRows -> {"pass", "fail", "pending"}]
  BY DEF R!Apply, R!trial, ReviewInv, ReviewTypes
<1>3. CASE R!Step(k, R!Idle) /\ UNCHANGED applications
  <2>1. applications' \in Seq(Applying)
    BY <1>3 DEF ReviewInv, ReviewTypes
  <2> QED  BY <1>2, <1>3, <2>1, ReviewRests
<1>4. CASE R!LatestPackets /\ R!FormsHold
  <2>1. PICK rows \in [TrialRows -> Nat] : rows = R!Rows
    BY RowsTyped
  <2>2. PICK n \in Nat : n = Len(applications)
    BY LenProperties DEF ReviewInv, ReviewTypes
  <2>3. PICK m \in Nat : m = Len(packets)
    BY LenProperties DEF ReviewInv, ReviewTypes
  <2>4. PICK forms \in [TrialRows -> {"pass", "fail", "pending"}] : forms = form
    BY DEF ReviewInv, ReviewTypes
  <2>5. 1 \in TrialRows
    BY TrialsAssumption DEF TrialRows
  <2>6. PICK f \in ReviewForms : f = [of |-> rows[1], verdict |-> forms[1]]
    <3>1. rows[1] \in Nat /\ forms[1] \in {"pass", "fail", "pending", "none"}
      BY <2>5
    <3> QED  BY <3>1 DEF ReviewForms
  <2>7. applications' \in Seq(Applying)
    <3>1. PICK linked \in [TrialRows -> Nat] : linked = [p \in TrialRows |-> 0]
      OBVIOUS
    <3>2. PICK open \in {"open", "completed", "failed"} : open = "open"
      OBVIOUS
    <3>3. PICK a : a = [packets |-> m, forms |-> forms, linked |-> linked, status |-> open]
      OBVIOUS
    <3>4. a \in Applying
      BY <3>3 DEF Applying
    <3>5. applications' = Append(applications, a)
      <4>1. applications' = Append(applications, [packets |-> Len(packets), forms |-> form,
                  linked |-> [p \in R!Positions |-> 0], status |-> "open"])
        BY <1>4 DEF R!Apply
      <4> QED  BY <2>3, <2>4, <3>1, <3>2, <3>3, <4>1, RowsTyped, Zenon
    <3>6. applications \in Seq(Applying)
      BY DEF ReviewInv, ReviewTypes
    <3> QED  BY <3>4, <3>5, <3>6, AppendProperties
  <2>8. PICK j : j = [i EXCEPT !.forms = forms, !.rows = rows, !.app = n + 1, !.p = 1,
                        !.at = "read", !.form = f]
    OBVIOUS
  <2>9. j \in ReviewJob /\ j.at = "read" /\ j.rows = rows
    <3>1. PICK app \in Nat, one \in TrialRows : app = n + 1 /\ one = 1
      BY <2>5
    <3>2. j = [i EXCEPT !.forms = forms, !.rows = rows, !.app = app, !.p = one,
                 !.at = "read", !.form = f]
      BY <2>8, <3>1
    <3> QED  BY <3>2 DEF ReviewJob, ReviewPlaces
  <2>10. reviewers' = [reviewers EXCEPT ![k] = j]
    <3>1. R!Step(k, [reviewers[k] EXCEPT !.forms = form, !.rows = R!Rows,
                        !.app = Len(applications) + 1, !.p = 1, !.at = "read",
                        !.form = [of |-> R!Rows[1], verdict |-> form[1]]])
      BY <1>4 DEF R!Apply
    <3>2. R!Step(k, j)
      BY <1>1, <2>1, <2>2, <2>4, <2>6, <2>8, <3>1, Zenon
    <3> QED  BY <3>2 DEF R!Step
  <2>11. ReviewKnows(j) /\ j.at \notin Assessing
    BY <2>9, ReviewIdles
  <2> QED  BY <1>2, <2>7, <2>9, <2>10, <2>11, ReviewGoesOn
<1> QED  BY <1>3, <1>4 DEF R!Apply

LEMMA ReviewNotes ==
    ASSUME ReviewInv, NEW k \in Processes, R!Note(k)
    PROVE  ReviewInv'
<1>1. PICK i \in ReviewJob : i = reviewers[k] /\ ReviewKnows(i)
  BY ReviewFacts
<1>2. /\ UNCHANGED <<history, folders, returned>>
      /\ packets' \in Seq([TrialRows -> Nat] \cup {<<>>})
      /\ form' \in [TrialRows -> {"pass", "fail", "pending"}]
  BY DEF R!Note, R!trial, ReviewInv, ReviewTypes
<1>3. i.rows \in [TrialRows -> Nat]
  BY <1>1 DEF R!Note, R!At, ReviewKnows
<1>4. PICK p \in TrialRows : p = i.p
  BY DEF ReviewJob
<1>5. applications' \in Seq(Applying)
  <2>1. applications \in Seq(Applying)
    BY DEF ReviewInv, ReviewTypes
  <2>2. CASE UNCHANGED applications
    BY <2>1, <2>2
  <2>3. CASE applications' = [applications EXCEPT ![i.app].linked[p] = Len(history[p])]
    <3>1. PICK x \in Nat : x = i.app
      BY DEF ReviewJob
    <3>2. PICK n \in Nat : n = Len(history[p])
      BY LenProperties DEF ReviewInv, ReviewTypes
    <3>3. PICK v : v = [applications[x] EXCEPT !.linked[p] = n]
      OBVIOUS
    <3>4. applications' = [applications EXCEPT ![x] = v]
      BY <2>3, <3>1, <3>2, <3>3
    <3>5. ASSUME x \in 1..Len(applications) PROVE v \in Applying
      <4>1. PICK a \in Applying : a = applications[x]
        BY <2>1, <3>5, ElementOfSeq
      <4>2. PICK linked \in [TrialRows -> Nat] : linked = [a.linked EXCEPT ![p] = n]
        BY DEF Applying
      <4>3. v = [a EXCEPT !.linked = linked]
        BY <3>3, <4>1, <4>2
      <4> QED  BY <4>3 DEF Applying
    <3> QED  BY <2>1, <3>4, <3>5, ApplicationsKept
  <2> QED  BY <1>1, <1>4, <2>2, <2>3 DEF R!Note
<1>6. CASE R!GoTo(k, "failed") \/ R!GoTo(k, "finish")
  <2>1. PICK j \in ReviewJob : /\ reviewers' = [reviewers EXCEPT ![k] = j]
                               /\ j.at \in {"failed", "finish"} /\ j.rows = i.rows
    BY <1>1, <1>6, ReviewMoves DEF ReviewPlaces
  <2>2. ReviewKnows(j) /\ j.at \notin Assessing
    BY <1>3, <2>1, ReviewIdles
  <2> QED  BY <1>2, <1>5, <2>1, <2>2, ReviewGoesOn
<1>7. CASE /\ p # LastRow
           /\ R!Step(k, [i EXCEPT !.p = p + 1, !.at = "read",
                           !.form = [of |-> i.rows[p + 1], verdict |-> i.forms[p + 1]]])
  <2>1. p + 1 \in TrialRows
    BY <1>7, TrialsAssumption DEF TrialRows
  <2>2. PICK f \in ReviewForms : f = [of |-> i.rows[p + 1], verdict |-> i.forms[p + 1]]
    <3>1. i.rows[p + 1] \in Nat /\ i.forms[p + 1] \in {"pass", "fail", "pending", "none"}
      BY <1>3, <2>1 DEF ReviewJob
    <3> QED  BY <3>1 DEF ReviewForms
  <2>3. PICK j : j = [i EXCEPT !.p = p + 1, !.at = "read", !.form = f]
    OBVIOUS
  <2>4. j \in ReviewJob /\ j.at = "read" /\ j.rows = i.rows
    BY <2>1, <2>3 DEF ReviewJob, ReviewPlaces
  <2>5. reviewers' = [reviewers EXCEPT ![k] = j]
    BY <1>7, <2>2, <2>3 DEF R!Step
  <2>6. ReviewKnows(j) /\ j.at \notin Assessing
    BY <1>3, <2>4, ReviewIdles
  <2> QED  BY <1>2, <1>5, <2>4, <2>5, <2>6, ReviewGoesOn
<1> QED  BY <1>1, <1>4, <1>6, <1>7 DEF R!Note

LEMMA ReviewFinishes ==
    ASSUME ReviewInv, NEW k \in Processes, R!Finish(k)
    PROVE  ReviewInv'
<1>1. PICK i \in ReviewJob : i = reviewers[k] /\ ReviewKnows(i)
  BY ReviewFacts
<1>2. PICK status \in {"open", "completed", "failed"} :
         applications' = [applications EXCEPT ![i.app].status = status]
  BY <1>1 DEF R!Finish, R!At
<1>3. applications' \in Seq(Applying)
  <2>1. applications \in Seq(Applying)
    BY DEF ReviewInv, ReviewTypes
  <2>2. PICK x \in Nat : x = i.app
    BY DEF ReviewJob
  <2>3. PICK v : v = [applications[x] EXCEPT !.status = status]
    OBVIOUS
  <2>4. applications' = [applications EXCEPT ![x] = v]
    BY <1>2, <2>2, <2>3
  <2>5. ASSUME x \in 1..Len(applications) PROVE v \in Applying
    <3>1. PICK a \in Applying : a = applications[x]
      BY <2>1, <2>5, ElementOfSeq
    <3> QED  BY <2>3, <3>1 DEF Applying
  <2> QED  BY <2>1, <2>4, <2>5, ApplicationsKept
<1>4. /\ UNCHANGED <<history, folders, returned>> /\ R!Step(k, R!Idle)
      /\ packets' \in Seq([TrialRows -> Nat] \cup {<<>>})
      /\ form' \in [TrialRows -> {"pass", "fail", "pending"}]
  BY DEF R!Finish, R!trial, ReviewInv, ReviewTypes
<1> QED  BY <1>3, <1>4, ReviewRests

LEMMA ReviewStartsSo ==
    ASSUME R!ReviewInit
    PROVE  ReviewInv
<1>1. history \in [TrialRows -> {<<R!Check(1, good)>> : good \in BOOLEAN}]
  BY DEF R!ReviewInit, R!Positions, TrialRows
<1>2. PICK one \in TrialRows : one = 1
  BY TrialsAssumption DEF TrialRows
<1>3. ASSUME NEW p \in TrialRows PROVE HistorySound(history[p])
  <2>1. PICK good \in BOOLEAN : history[p] = <<R!Check(1, good)>>
    BY <1>1
  <2>2. PICK none \in ReviewForms : none = [of |-> 0, verdict |-> "none"]
    BY DEF ReviewForms
  <2>3. PICK no \in BOOLEAN : no = FALSE
    OBVIOUS
  <2>4. PICK e : e = R!Check(1, good)
    OBVIOUS
  <2>5. e = [kind |-> "check", behavior |-> 1, good |-> good, form |-> none,
             raised |-> no, passed |-> no]
    BY <2>2, <2>3, <2>4, Zenon DEF R!Check, R!NoForm
  <2>6. e \in Assessments /\ e.kind = "check" /\ e.behavior = 1 /\ e.passed = no
    BY <2>5 DEF Assessments
  <2>7. PICK h : h = <<e>>
    OBVIOUS
  <2>8. h \in Seq(Assessments) /\ h # <<>> /\ Len(h) = 1 /\ h[1] = e
    BY <2>6, <2>7
  <2>9. EntrySound(h, 1)
    <3>1. \A k \in 1..1 : k = 1
      OBVIOUS
    <3> QED  BY <2>3, <2>6, <2>8, <3>1 DEF EntrySound
  <2>10. \A n \in 1..Len(h) : EntrySound(h, n)
    <3>1. \A n \in 1..1 : n = 1
      OBVIOUS
    <3> QED  BY <2>8, <2>9, <3>1
  <2> QED  BY <2>1, <2>4, <2>7, <2>8, <2>10 DEF HistorySound
<1>4. PICK j \in ReviewJob : j = R!Idle /\ j.at = "idle" /\ j.job = "none"
  BY ReviewIdle
<1>5. /\ folders = [p \in TrialRows |-> {1}] /\ returned = {} /\ packets = <<>>
      /\ form = [p \in TrialRows |-> "pending"] /\ applications = <<>>
      /\ reviewers = [q \in Processes |-> j]
  BY <1>4 DEF R!ReviewInit, R!Blank, R!Positions, TrialRows
<1>6. history \in [TrialRows -> Seq(Assessments)]
  BY <1>1, <1>3 DEF HistorySound
<1>7. folders \in [TrialRows -> SUBSET Nat]
  BY <1>5
<1>8. ReviewTypes
  BY <1>5, <1>6, <1>7, EmptySeq DEF ReviewTypes
<1>9. ReviewKnows(j) /\ j.at \notin Assessing
  BY <1>4, ReviewIdles
<1> QED  BY <1>3, <1>5, <1>8, <1>9 DEF ReviewInv, NumbersApart

LEMMA ReviewGoesSo ==
    ASSUME ReviewInv, R!ReviewNext
    PROVE  ReviewInv'
BY ReviewBegins, ReviewReads, ReviewMakesFolder, ReviewAssesses, ReviewCompares, ReviewLinks,
   ReviewBlinds, ReviewMakesBlind, ReviewSavesIndex, ReviewApplies, ReviewNotes, ReviewFinishes,
   ReviewStops, ReviewEdits DEF R!ReviewNext

LEMMA ReviewIsHonest ==
    ASSUME ReviewInv
    PROVE  R!ReviewHonest
<1>1. ASSUME NEW r \in returned
      PROVE  r[2] \in 1..Len(history[r[1]]) /\ history[r[1]][r[2]] = r[3]
  <2>1. PICK p \in TrialRows : \E n \in 1..Len(history[p]) : r = <<p, n, history[p][n]>>
    BY DEF ReviewInv, ReturnedStands
  <2>2. PICK n \in 1..Len(history[p]) : r = <<p, n, history[p][n]>>
    BY <2>1
  <2>3. r[1] = p /\ r[2] = n /\ r[3] = history[p][n]
    BY <2>2
  <2> QED  BY <2>3
<1>2. ASSUME NEW p \in TrialRows
      PROVE  \E m \in Nat \ {0} : /\ m = Len(history[p])
                                  /\ \A n \in 1..m : /\ EntrySound(history[p], n)
                                                     /\ history[p][n] \in Assessments
  <2>1. PICK h \in Seq(Assessments) : h = history[p] /\ HistorySound(h)
    BY DEF ReviewInv, HistorySound
  <2>2. PICK m \in Nat \ {0} : m = Len(h)
    BY <2>1, EmptySeq DEF HistorySound
  <2> QED  BY <2>1, <2>2, ElementOfSeq DEF HistorySound
<1>3. ASSUME NEW p \in TrialRows, NEW n \in 1..Len(history[p]), history[p][n].passed,
             NEW b, b = history[p][n].behavior
      PROVE  /\ b \in 1..(n - 1) /\ history[p][b].kind = "check" /\ history[p][b].good
             /\ history[p][n].form = [of |-> b, verdict |-> "pass"]
             /\ \A k \in b..(n - 1) : history[p][k].behavior = b
  <2>1. PICK m \in Nat \ {0} : /\ m = Len(history[p])
                               /\ \A l \in 1..m : EntrySound(history[p], l)
    BY <1>2
  <2>2. EntrySound(history[p], n) /\ n \in Nat
    BY <2>1
  <2>3. /\ b # 0 /\ history[p][b].good /\ IsPass(history[p][n].form, b)
        /\ b \in 1..n /\ history[p][b].kind = "check"
        /\ \A k \in b..n : history[p][k].behavior = b
    BY <1>3, <2>2 DEF EntrySound
  <2>4. b # n
    BY <1>3, <2>2, <2>3 DEF EntrySound
  <2>5. b \in 1..(n - 1) /\ \A k \in b..(n - 1) : k \in b..n
    BY <2>2, <2>3, <2>4
  <2> QED  BY <2>3, <2>5 DEF IsPass
<1>4. ASSUME NEW p \in TrialRows, R!Passed(p)
      PROVE  \E n \in 1..Len(history[p]) :
                /\ history[p][n].passed /\ history[p][n].behavior = R!LastOf(packets)[p]
                /\ \A k \in (n + 1)..Len(history[p]) : history[p][k].kind = "review"
  <2>1. PICK m \in Nat \ {0} : /\ m = Len(history[p])
                               /\ \A l \in 1..m : /\ EntrySound(history[p], l)
                                                  /\ history[p][l] \in Assessments
    BY <1>2
  <2>2. PICK b : b = R!Behavior(p) /\ b = history[p][m].behavior /\ b # 0
    BY <1>4, <2>1 DEF R!Passed, R!Behavior, R!LastOf
  <2>3. R!Applied(p) /\ R!LastOf(packets)[p] = b /\ form[p] = "pass" /\ R!BehaviorOk(p)
    BY <1>4, <2>2, RowsTyped DEF R!Passed, R!Application, R!LatestPackets
  <2>4. PICK n \in 1..m : /\ history[p][n].kind = "review" /\ history[p][n].behavior = b
                          /\ R!Outcome(history[p][n], form[p], R!BehaviorOk(p))
    BY <2>1, <2>2, <2>3 DEF R!Applied
  <2>5. history[p][n].passed
    BY <2>3, <2>4 DEF R!Outcome
  <2>6. b \in 1..n
    BY <2>1, <2>2, <2>4 DEF EntrySound
  <2>7. ASSUME NEW k \in (n + 1)..m PROVE history[p][k].kind = "review"
    <3>1. k \in 1..m /\ k \in b..m /\ k # b /\ m \in 1..m
      BY <2>6
    <3>2. history[p][k].behavior = b
      BY <2>1, <2>2, <3>1 DEF EntrySound
    <3>3. history[p][k].kind # "check"
      BY <2>1, <2>2, <3>1, <3>2 DEF EntrySound
    <3> QED  BY <2>1, <3>1, <3>3 DEF Assessments
  <2> QED  BY <2>1, <2>3, <2>4, <2>5, <2>7
<1> QED  BY <1>1, <1>3, <1>4, RowsTyped DEF R!ReviewHonest

(* SuiteHonest of MCTrials, for any number of commands, of whom any may be    *)
(* stopped anywhere, and of rows: a writer runs once, over restored roots,    *)
(* and an assessment that was reported stays where it was reported; a review  *)
(* passes only what was assessed and good when it was linked, and the report  *)
(* passes a candidate only on an application of the forms as they are         *)
(* (coding_trial_suite.py, coding_trial_assessment.py,                        *)
(* coding_trial_suite_review.py, coding_trial_suite_matrix.py).               *)
THEOREM SuitesStayHonest == Spec => []SuiteHonest
<1> DEFINE Inv == which = "review" => ReviewInv
<1>1. Init => Inv
  BY ReviewStartsSo DEF Init
<1>2. Inv /\ [Next]_vars => Inv'
  <2> SUFFICES ASSUME Inv, [Next]_vars, which' = "review" PROVE ReviewInv'
    OBVIOUS
  <2>1. which = "review" /\ (UNCHANGED reviewVars \/ R!ReviewNext)
    BY DEF Next, vars
  <2>2. CASE UNCHANGED reviewVars
    <3>1. ReviewInv
      BY <2>1
    <3>2. UNCHANGED <<history, folders, returned, packets, applications, form, reviewers>>
      BY <2>2 DEF reviewVars
    <3> QED  BY <3>1, <3>2 DEF ReviewInv, ReviewTypes, ReviewKnows, NumbersApart, ReturnedStands
  <2> QED  BY <2>1, <2>2, ReviewGoesSo
<1>3. Inv => (which = "review" => R!ReviewHonest)
  BY ReviewIsHonest
<1>4. (which = "attempt" => T!AttemptSound) /\ (which = "review" => R!ReviewHonest) => SuiteHonest
  BY DEF SuiteHonest
<1> QED  BY <1>1, <1>2, <1>3, <1>4, AttemptsStaySound, PTL DEF Spec

-----------------------------------------------------------------------------
(* SessionBreak.  Who is between the lock and its release is the only one,  *)
(* and what it knows of the modes and of its attempt nobody else changes.   *)
(* An orphan belongs to an attempt that never ends, or that ends with an    *)
(* error or with a session that its record says could not be stopped.       *)

BreakPlaces == {"idle", "lock", "undo", "again", "pick", "first", "point", "hide", "shut", "second",
                "show", "outcome", "unlock", "rows", "write"}
Locking     == BreakPlaces \ {"idle", "lock", "rows", "write"}
Trying      == {"first", "point", "hide", "shut", "second", "show", "outcome"}
BreakJob    == [at : BreakPlaces, kind : {"none", "run", "analyze", "report"},
                item : BreakAttempts \cup {"none"}, ended : {"none", "error", "stopped"},
                view : {"none", "partial", "complete"}]
Evidence    == [status : {"pending", "running", "completed", "error"},
                sessions : Seq(S!Ending), point : Nat, judged : Nat]
Launches(k, first, second) == launched[k][1] = first /\ launched[k][2] = second
BreakTypes ==
    /\ attempt \in [BreakAttempts -> Evidence] /\ launched \in [BreakAttempts -> [1..2 -> Nat]]
    /\ runner \in [Processes -> BreakJob] /\ reported \in {"none", "partial", "complete"}
    /\ held \in BOOLEAN

\* What is shut was open, and the record that says so is there.
ShutOK == /\ modes.file \in {"none", "torn", "whole"}
          /\ modes.file = "whole" => \A p \in DOMAIN modes.modes : modes.modes[p] = "open"
          /\ \A p \in shut : modes.file = "whole" /\ p \in DOMAIN modes.modes
AllOpen == shut = {} /\ modes.file = "none"
AttemptOK(k) ==
    /\ launched[k][1] <= 1 /\ launched[k][2] <= 1
    /\ attempt[k].status = "pending" => Launches(k, 0, 0) /\ S!Untouched(k)
    /\ attempt[k].status = "completed" =>
          /\ Len(attempt[k].sessions) \in 1..2 /\ Launches(k, 1, Len(attempt[k].sessions) - 1)
          /\ S!AllStopped(k) =>
                /\ S!Untouched(k) /\ attempt[k].judged \in {0, 2}
                /\ Len(attempt[k].sessions) = 2 => attempt[k].point = 1
AllEnded == \A k \in BreakAttempts : S!Ended(k)
BreakState == /\ BreakTypes /\ ShutOK /\ \A k \in BreakAttempts : AttemptOK(k)
              /\ reported = "complete" => AllEnded

Others(k) == {S!First(k)} \cup {S!Whole(b) : b \in BreakAttempts \ {k}}
\* Of a runner: whose attempt it is at, what that has come to, and what is shut.
TryKnows(i) ==
    LET k == i.item  n == Len(attempt[i.item].sessions) IN
    /\ k \in BreakAttempts /\ attempt[k].status = "running"
    /\ i.at = "first" => Launches(k, 1, 0) /\ S!Untouched(k)
    /\ i.at # "first" /\ i.ended = "none" /\ S!AllStopped(k) => S!Untouched(k)
    /\ i.at \in {"point", "hide", "shut", "second"} => n = 1
    /\ i.at \in {"point", "hide", "shut"} => Launches(k, 1, 0)
    /\ i.at \in {"hide", "shut", "second"} /\ S!AllStopped(k) => attempt[k].point = 1
    /\ i.at = "second" => Launches(k, 1, 1)
    /\ i.at \in {"show", "outcome"} /\ i.ended = "none" =>
          n \in 1..2 /\ Launches(k, 1, n - 1) /\ (n = 2 /\ S!AllStopped(k) => attempt[k].point = 1)
BreakKnows(i) ==
    /\ i.at \in Locking => held
    /\ i.at \in Trying => TryKnows(i)
    /\ i.at \in (Locking \cup {"lock"}) \ {"show", "outcome", "unlock"} => i.ended = "none"
    /\ i.at \in {"pick", "first", "point", "hide"} => AllOpen
    /\ i.at = "outcome" => i.ended \in {"none", "error"} /\ (i.ended = "none" => AllOpen)
    /\ i.at \in {"shut", "second"} => modes.file = "whole" /\ Others(i.item) \subseteq DOMAIN modes.modes
    /\ i.at = "second" => DOMAIN modes.modes \subseteq shut
    /\ i.at = "write" /\ i.view = "complete" => AllEnded
BreakAlone == \A q \in Processes, s \in Processes :
                 q # s /\ runner[q].at \in Locking => runner[s].at \notin Locking
BreakInv == BreakState /\ BreakAlone /\ \A q \in Processes : BreakKnows(runner[q])

LEMMA BreakFacts ==
    ASSUME BreakInv, NEW k \in Processes
    PROVE  runner[k] \in BreakJob /\ BreakKnows(runner[k])
BY DEF BreakInv, BreakState, BreakTypes

\* What a command may do to the others: who is between the lock and its release may
\* do anything, who finds no lock is alone, and everyone else leaves things as they are.
LEMMA BreakGoes ==
    ASSUME BreakInv, NEW k \in Processes, NEW j \in BreakJob,
           runner' = [runner EXCEPT ![k] = j], BreakState', BreakKnows(j)',
           \A a \in BreakAttempts : S!Ended(a) => S!Ended(a)',
           \/ runner[k].at \in Locking \/ ~held
           \/ (UNCHANGED <<attempt, shut, modes, held, orphans, launched>> /\ j.at \notin Locking)
    PROVE  BreakInv'
<1>1. \A q \in Processes : runner'[q] = IF q = k THEN j ELSE runner[q]
  BY DEF BreakInv, BreakState, BreakTypes
<1>2. \A q \in Processes : runner[q].at \in Locking => held
  BY DEF BreakInv, BreakKnows
<1>3. ASSUME NEW q \in Processes, q # k, runner[q].at \in Locking
      PROVE  UNCHANGED <<attempt, shut, modes, held, orphans, launched>> /\ j.at \notin Locking
  BY <1>2, <1>3 DEF BreakInv, BreakAlone
<1>4. BreakAlone'
  BY <1>1, <1>3 DEF BreakAlone, BreakInv
<1>5. ASSUME NEW q \in Processes PROVE BreakKnows(runner[q])'
  <2>1. PICK i : i = runner[q] /\ BreakKnows(i)
    BY BreakFacts
  <2>2. CASE q = k
    <3>1. runner'[q] = j
      BY <1>1, <2>2
    <3> QED  BY <3>1
  <2>3. CASE q # k
    <3>1. runner'[q] = i
      BY <1>1, <2>1, <2>3
    <3>2. CASE i.at \in Locking
      <4>1. UNCHANGED <<attempt, shut, modes, held, orphans, launched>>
        BY <1>3, <2>1, <2>3, <3>2
      <4>2. BreakKnows(i)'
        BY <2>1, <4>1, <3>2 DEF BreakKnows, TryKnows, Launches, S!Untouched, S!AllStopped, AllOpen, Locking
      <4> QED  BY <3>1, <4>2
    <3>3. CASE i.at \notin Locking
      <4>1. AllEnded => AllEnded'
        BY DEF AllEnded
      <4>2. BreakKnows(i)'
        BY <2>1, <3>3, <4>1 DEF BreakKnows, Locking, Trying, BreakPlaces
      <4> QED  BY <3>1, <4>2
    <3> QED  BY <3>2, <3>3
  <2> QED  BY <2>2, <2>3
<1> QED  BY <1>4, <1>5 DEF BreakInv

LEMMA BreakMoves ==
    ASSUME BreakInv, NEW k \in Processes, NEW place \in BreakPlaces, S!Move(k, place)
    PROVE  \E j \in BreakJob :
              /\ runner' = [runner EXCEPT ![k] = j] /\ j.at = place /\ j.kind = runner[k].kind
              /\ j.item = runner[k].item /\ j.ended = runner[k].ended /\ j.view = runner[k].view
<1>1. PICK i \in BreakJob : i = runner[k]
  BY BreakFacts
<1>2. PICK j : j = [i EXCEPT !.at = place]
  OBVIOUS
<1>3. runner' = [runner EXCEPT ![k] = j]
  BY <1>1, <1>2 DEF S!Move
<1>4. /\ j \in BreakJob /\ j.at = place /\ j.kind = i.kind
      /\ j.item = i.item /\ j.ended = i.ended /\ j.view = i.view
  BY <1>2 DEF BreakJob
<1> QED  BY <1>1, <1>3, <1>4

LEMMA BreakRests == S!Resting \in BreakJob /\ S!Resting.at = "idle" /\ S!Resting.ended = "none"
<1>1. PICK at \in BreakPlaces, none \in {"none"} : at = "idle" /\ none = "none"
  BY DEF BreakPlaces
<1>2. PICK j : j = [at |-> at, kind |-> none, item |-> none, ended |-> none, view |-> none]
  OBVIOUS
<1>3. j \in BreakJob /\ j.at = at /\ j.ended = none
  BY <1>1, <1>2 DEF BreakJob
<1>4. S!Resting = j
  BY <1>1, <1>2, Zenon DEF S!Resting
<1> QED  BY <1>1, <1>3, <1>4

\* Nobody who is at rest, or has not taken the lock yet, knows anything.
LEMMA BreakIdles ==
    ASSUME NEW j, j.at \in {"idle", "rows"} \/ (j.at = "lock" /\ j.ended = "none")
    PROVE  BreakKnows(j) /\ BreakKnows(j)' /\ j.at \notin Locking
BY DEF BreakKnows, Locking, Trying, BreakPlaces

LEMMA BreakStateStays ==
    ASSUME BreakInv, runner' \in [Processes -> BreakJob], held' \in BOOLEAN,
           UNCHANGED <<attempt, orphans, launched, shut, modes, reported>>
    PROVE  BreakState' /\ \A a \in BreakAttempts : S!Ended(a) => S!Ended(a)'
BY DEF BreakInv, BreakState, BreakTypes, ShutOK, AttemptOK, AllEnded, Launches, S!Untouched, S!AllStopped, S!Ended

LEMMA JobStands ==
    ASSUME BreakInv, NEW k \in Processes, NEW j \in BreakJob, runner' = [runner EXCEPT ![k] = j]
    PROVE  runner' \in [Processes -> BreakJob]
BY DEF BreakInv, BreakState, BreakTypes

LEMMA BreakBegins ==
    ASSUME BreakInv, NEW k \in Processes, NEW kind \in {"run", "analyze", "report"}, S!Begin(k, kind)
    PROVE  BreakInv'
<1>1. PICK u \in BreakJob : u = S!Resting /\ u.ended = "none"
  BY BreakRests
<1>2. PICK place \in {"rows", "lock"} : place = IF kind = "report" THEN "rows" ELSE "lock"
  OBVIOUS
<1>3. PICK j : j = [u EXCEPT !.kind = kind, !.at = place]
  OBVIOUS
<1>4. /\ runner' = [runner EXCEPT ![k] = j]
      /\ UNCHANGED <<attempt, shut, modes, held, orphans, launched, reported>>
  BY <1>1, <1>2, <1>3 DEF S!Begin
<1>5. j \in BreakJob /\ j.at = place /\ j.ended = "none"
  <2>1. place \in BreakPlaces /\ kind \in {"none", "run", "analyze", "report"}
    BY <1>2 DEF BreakPlaces
  <2> QED  BY <1>1, <1>3, <2>1 DEF BreakJob
<1>6. BreakKnows(j)' /\ j.at \notin Locking
  BY <1>2, <1>5, BreakIdles
<1>7. runner' \in [Processes -> BreakJob] /\ held' \in BOOLEAN
  BY <1>4, <1>5, JobStands DEF BreakInv, BreakState, BreakTypes
<1> QED  BY <1>4, <1>5, <1>6, <1>7, BreakStateStays, BreakGoes

\* Who rests has let go of everything.
LEMMA BreakRestsSo ==
    ASSUME BreakInv, NEW k \in Processes, runner' = [runner EXCEPT ![k] = S!Resting],
           UNCHANGED <<attempt, shut, modes, held, orphans, launched, reported>>
    PROVE  BreakInv'
<1>1. PICK j \in BreakJob : j = S!Resting /\ j.at = "idle"
  BY BreakRests
<1>2. runner' = [runner EXCEPT ![k] = j]
  BY <1>1
<1>3. runner' \in [Processes -> BreakJob] /\ held' \in BOOLEAN
  BY <1>2, JobStands DEF BreakInv, BreakState, BreakTypes
<1>4. BreakKnows(j)' /\ j.at \notin Locking
  BY <1>1, BreakIdles
<1> QED  BY <1>2, <1>3, <1>4, BreakStateStays, BreakGoes

\* locked: who makes the file is the only one at work.
LEMMA BreakLocks ==
    ASSUME BreakInv, NEW k \in Processes, S!Lock(k)
    PROVE  BreakInv'
<1>1. PICK i \in BreakJob : i = runner[k] /\ BreakKnows(i) /\ i.at = "lock"
  BY BreakFacts DEF S!Lock, S!In
<1>2. UNCHANGED <<attempt, shut, modes, orphans, launched, reported>>
  BY DEF S!Lock, S!Quietly
<1>3. CASE ~held /\ held' = TRUE /\ S!Move(k, "undo")
  <2>1. PICK place \in BreakPlaces : place = "undo"
    BY DEF BreakPlaces
  <2>2. PICK j \in BreakJob : runner' = [runner EXCEPT ![k] = j] /\ j.at = place /\ j.ended = i.ended
    BY <1>1, <1>3, <2>1, BreakMoves
  <2>3. BreakKnows(j)'
    BY <1>1, <1>3, <2>1, <2>2 DEF BreakKnows, Locking, Trying, BreakPlaces
  <2>4. runner' \in [Processes -> BreakJob] /\ held' \in BOOLEAN
    BY <1>3, <2>2, JobStands
  <2> QED  BY <1>2, <1>3, <2>2, <2>3, <2>4, BreakStateStays, BreakGoes
<1>4. CASE UNCHANGED held /\ runner' = [runner EXCEPT ![k] = S!Resting]
  BY <1>2, <1>4, BreakRestsSo
<1> QED  BY <1>3, <1>4 DEF S!Lock

LEMMA BreakWorks ==
    ASSUME BreakInv, NEW k \in Processes, NEW j \in BreakJob, runner' = [runner EXCEPT ![k] = j],
           UNCHANGED <<attempt, shut, modes, orphans, launched, reported>>, held' \in BOOLEAN,
           runner[k].at \in Locking, BreakKnows(j)'
    PROVE  BreakInv'
<1>1. runner' \in [Processes -> BreakJob]
  BY JobStands
<1> QED  BY <1>1, BreakStateStays, BreakGoes

\* Modes are only changed by who is at work, and the evidence is not then.
LEMMA BreakShuts ==
    ASSUME BreakInv, NEW k \in Processes, NEW j \in BreakJob, runner' = [runner EXCEPT ![k] = j],
           UNCHANGED <<attempt, held, orphans, launched, reported>>, ShutOK',
           runner[k].at \in Locking, BreakKnows(j)'
    PROVE  BreakInv'
<1>1. runner' \in [Processes -> BreakJob]
  BY JobStands
<1>2. BreakState' /\ \A a \in BreakAttempts : S!Ended(a) => S!Ended(a)'
  BY <1>1 DEF BreakInv, BreakState, BreakTypes, AttemptOK, AllEnded, Launches, S!Untouched, S!AllStopped, S!Ended
<1> QED  BY <1>2, BreakGoes

\* The evidence of an attempt changes with its number of launches.
LEMMA BreakTakes ==
    ASSUME BreakInv, NEW k \in Processes, NEW j \in BreakJob, runner' = [runner EXCEPT ![k] = j],
           NEW a \in BreakAttempts, NEW e \in Evidence, attempt' = [attempt EXCEPT ![a] = e],
           NEW l \in [1..2 -> Nat], launched' = [launched EXCEPT ![a] = l],
           UNCHANGED <<shut, modes, held, reported>>,
           \A o \in orphans' : o \in orphans \/ o[1] = a, ~S!Ended(a), AttemptOK(a)',
           runner[k].at \in Locking, BreakKnows(j)'
    PROVE  BreakInv'
<1>1. runner' \in [Processes -> BreakJob]
  BY JobStands
<1>2. /\ attempt' \in [BreakAttempts -> Evidence] /\ launched' \in [BreakAttempts -> [1..2 -> Nat]]
      /\ \A b \in BreakAttempts : b # a => attempt'[b] = attempt[b] /\ launched'[b] = launched[b]
  BY DEF BreakInv, BreakState, BreakTypes
<1>3. \A b \in BreakAttempts : S!Ended(b) => S!Ended(b)'
  BY <1>2 DEF S!Ended
<1>4. ASSUME NEW b \in BreakAttempts PROVE AttemptOK(b)'
  BY <1>2 DEF AttemptOK, Launches, S!Untouched, S!AllStopped, BreakInv, BreakState
<1>5. BreakState'
  BY <1>1, <1>2, <1>3, <1>4 DEF BreakInv, BreakState, BreakTypes, ShutOK, AllEnded
<1> QED  BY <1>3, <1>5, BreakGoes

\* restore_hidden: what is recorded was open, so a path is opened and none is shut.
LEMMA BreakOpens ==
    ASSUME BreakInv, NEW k \in Processes, S!Chmod(k)
    PROVE  BreakInv'
<1>1. PICK j \in BreakJob : j = runner[k] /\ BreakKnows(j) /\ j.at \in {"undo", "show"}
  BY BreakFacts DEF S!Chmod, S!In
<1>2. UNCHANGED <<attempt, modes, held, orphans, launched, reported, runner>>
  BY DEF S!Chmod, S!Quietly
<1>3. PICK p \in DOMAIN modes.modes :
         shut' = IF modes.modes[p] = "shut" THEN shut \cup {p} ELSE shut \ {p}
  BY DEF S!Chmod
<1>4. modes.modes[p] = "open" /\ modes.file = "whole"
  BY DEF BreakInv, BreakState, ShutOK, S!Chmod
<1>5. shut' = shut \ {p}
  BY <1>3, <1>4
<1>6. ShutOK'
  BY <1>2, <1>4, <1>5 DEF ShutOK, BreakInv, BreakState
<1>7. runner' = [runner EXCEPT ![k] = j]
  BY <1>1, <1>2 DEF BreakInv, BreakState, BreakTypes
<1>8. BreakKnows(j)' /\ j.at \in Locking
  BY <1>1, <1>2 DEF BreakKnows, TryKnows, Launches, S!Untouched, S!AllStopped, Locking, Trying, BreakPlaces
<1> QED  BY <1>1, <1>2, <1>6, <1>7, <1>8, BreakShuts

\* When all that was recorded is as it was, nothing is shut.
LEMMA AllIsOpen ==
    ASSUME BreakInv, modes.file # "torn", S!Restored
    PROVE  shut = {}
BY DEF BreakInv, BreakState, ShutOK, S!Restored, S!Differs

LEMMA NoModes == S!NoRecord.file = "none" /\ DOMAIN S!NoRecord.modes = {}
BY DEF S!NoRecord

LEMMA BreakUndoes ==
    ASSUME BreakInv, NEW k \in Processes, S!Undo(k)
    PROVE  BreakInv'
<1>1. PICK i \in BreakJob : i = runner[k] /\ BreakKnows(i) /\ i.at = "undo"
  BY BreakFacts DEF S!Undo, S!In
<1>2. /\ UNCHANGED <<attempt, shut, held, orphans, launched, reported>> /\ modes' = S!NoRecord /\ shut = {}
  BY AllIsOpen DEF S!Undo, S!Undone, S!Quietly
<1>3. PICK place \in BreakPlaces : place \in {"pick", "again"} /\ S!Move(k, place)
  BY DEF S!Undo, BreakPlaces
<1>4. PICK j \in BreakJob : /\ runner' = [runner EXCEPT ![k] = j] /\ j.at = place
                            /\ j.ended = i.ended
  BY <1>1, <1>3, BreakMoves
<1>5. ShutOK' /\ AllOpen'
  BY <1>2, NoModes DEF ShutOK, AllOpen
<1>6. BreakKnows(j)' /\ i.at \in Locking
  BY <1>1, <1>2, <1>3, <1>4, <1>5 DEF BreakKnows, Locking, Trying, BreakPlaces
<1> QED  BY <1>1, <1>2, <1>4, <1>5, <1>6, BreakShuts

LEMMA BreakPicks ==
    ASSUME BreakInv, NEW k \in Processes, S!Pick(k)
    PROVE  BreakInv'
<1>1. PICK i \in BreakJob : i = runner[k] /\ BreakKnows(i) /\ i.at = "pick"
  BY BreakFacts DEF S!Pick, S!In
<1>2. UNCHANGED <<shut, modes, held, orphans, reported>> /\ i.at \in Locking
  BY <1>1 DEF S!Pick, Locking, BreakPlaces
<1>3. CASE S!Move(k, "unlock") /\ UNCHANGED <<attempt, launched>>
  <2>1. PICK place \in BreakPlaces : place = "unlock"
    BY DEF BreakPlaces
  <2>2. PICK j \in BreakJob : runner' = [runner EXCEPT ![k] = j] /\ j.at = place
    BY <1>3, <2>1, BreakMoves
  <2>3. BreakKnows(j)' /\ held' \in BOOLEAN
    BY <1>1, <1>2, <2>1, <2>2 DEF BreakKnows, Locking, Trying, BreakPlaces, BreakInv, BreakState,
                                  BreakTypes
  <2> QED  BY <1>1, <1>2, <1>3, <2>2, <2>3, BreakWorks
<1>4. ASSUME NEW a \in BreakAttempts, attempt[a].status = "pending",
             attempt' = [attempt EXCEPT ![a].status = "running"],
             runner' = [runner EXCEPT ![k].at = "first", ![k].item = a],
             launched' = [launched EXCEPT ![a][1] = @ + 1]
      PROVE  BreakInv'
  <2>1. PICK f \in Evidence : f = attempt[a]
    BY DEF BreakInv, BreakState, BreakTypes
  <2>2. PICK m \in [1..2 -> Nat] : m = launched[a]
    BY DEF BreakInv, BreakState, BreakTypes
  <2>3. m[1] = 0 /\ m[2] = 0
    BY <1>4, <2>2 DEF BreakInv, BreakState, AttemptOK, Launches
  <2>4. PICK e : e = [f EXCEPT !.status = "running"]
    OBVIOUS
  <2>5. e \in Evidence /\ e.status = "running"
    BY <2>1, <2>4 DEF Evidence
  <2>6. attempt' = [attempt EXCEPT ![a] = e]
    BY <1>4, <2>1, <2>4
  <2>7. PICK l : l = [m EXCEPT ![1] = @ + 1]
    OBVIOUS
  <2>8. l \in [1..2 -> Nat] /\ l[1] = 1 /\ l[2] = 0
    BY <2>3, <2>7
  <2>9. launched' = [launched EXCEPT ![a] = l]
    BY <1>4, <2>2, <2>7
  <2>10. PICK j : j = [i EXCEPT !.at = "first", !.item = a]
    OBVIOUS
  <2>11. j \in BreakJob /\ j.at = "first" /\ j.item = a /\ j.ended = i.ended
    BY <2>10 DEF BreakJob, BreakPlaces
  <2>12. runner' = [runner EXCEPT ![k] = j]
    BY <1>1, <1>4, <2>10
  <2>13. attempt'[a] = e /\ launched'[a] = l
    BY <2>6, <2>9 DEF BreakInv, BreakState, BreakTypes
  <2>14. AttemptOK(a)' /\ Launches(a, 1, 0)' /\ ~S!Ended(a)
    BY <1>4, <2>5, <2>8, <2>13 DEF AttemptOK, Launches, S!Ended
  <2>15. S!Untouched(a)'
    BY <1>2, <1>4 DEF S!Untouched, AttemptOK, BreakInv, BreakState
  <2>16. TryKnows(j)'
    BY <2>5, <2>11, <2>13, <2>14, <2>15 DEF TryKnows
  <2>17. BreakKnows(j)'
    BY <1>1, <1>2, <2>11, <2>16 DEF BreakKnows, Locking, Trying, BreakPlaces, AllOpen
  <2> QED  BY <1>1, <1>2, <2>5, <2>6, <2>8, <2>9, <2>11, <2>12, <2>14, <2>17, BreakTakes
<1> QED  BY <1>3, <1>4 DEF S!Pick

\* Of who is at an attempt: its evidence, and how often its sessions were started.
LEMMA TryFacts ==
    ASSUME BreakInv, NEW k \in Processes, runner[k].at \in Trying
    PROVE  \E a \in BreakAttempts, f \in Evidence, m \in [1..2 -> Nat] :
              /\ a = S!Item(k) /\ f = attempt[a] /\ m = launched[a] /\ f.status = "running"
              /\ launched = [launched EXCEPT ![a] = m] /\ ~S!Ended(a)
<1>1. BreakKnows(runner[k])
  BY BreakFacts
<1>2. PICK a \in BreakAttempts : a = S!Item(k) /\ attempt[a].status = "running"
  BY <1>1 DEF BreakKnows, TryKnows, S!Item
<1> QED  BY <1>2 DEF BreakInv, BreakState, BreakTypes, S!Ended

\* What is known of an attempt stays when its evidence stays.
LEMMA TryStays ==
    ASSUME NEW i, NEW j, TryKnows(i), UNCHANGED <<attempt, launched>>, j.item = i.item,
           \/ j.at \in {"show", "outcome"} /\ j.ended # "none"
           \/ /\ UNCHANGED orphans
              /\ \/ j.at = i.at /\ j.ended = i.ended
                 \/ i.at = "hide" /\ j.at = "shut" /\ j.ended = i.ended
                 \/ i.at = "show" /\ j.at = "outcome" /\ j.ended = i.ended
    PROVE  TryKnows(j)'
BY DEF TryKnows, Launches, S!Untouched, S!AllStopped

\* Only the attempt a command is at can lose a session to nobody, and only while it has one.
LEMMA LeavesItsOwn ==
    ASSUME NEW k \in Processes, S!Leaves(k) \/ UNCHANGED orphans
    PROVE  /\ \A o \in orphans' : o \in orphans \/ o[1] = S!Item(k)
           /\ runner[k].at \notin {"first", "second"} => UNCHANGED orphans
BY DEF S!Leaves, S!Session, S!In

LEMMA StopsItsOwn ==
    ASSUME NEW k \in Processes, NEW how \in S!Ending, S!Stops(k, how)
    PROVE  /\ \A o \in orphans' : o \in orphans \/ o[1] = S!Item(k)
           /\ how \notin S!Unstopped => UNCHANGED orphans
BY LeavesItsOwn DEF S!Stops

\* A workspace no orphan is at is found as its last session left it.
LEMMA FoundAsLeft ==
    ASSUME NEW a, Len(attempt[a].sessions) \in Nat, NEW tree \in S!Found(a)
    PROVE  tree \in Nat /\ (S!Untouched(a) => tree = Len(attempt[a].sessions))
<1>1. CASE S!Untouched(a)
  <2>1. S!Found(a) = {Len(attempt[a].sessions)}
    BY <1>1 DEF S!Found
  <2> QED  BY <2>1
<1>2. CASE ~S!Untouched(a)
  <2>1. S!Found(a) = {Len(attempt[a].sessions), 3}
    BY <1>2 DEF S!Found, S!Disturbed
  <2> QED  BY <1>2, <2>1
<1> QED  BY <1>1, <1>2

LEMMA BreakEndsFirst ==
    ASSUME BreakInv, NEW k \in Processes, NEW how \in S!Ending, S!FirstSession(k, how)
    PROVE  BreakInv'
<1>1. PICK i \in BreakJob : i = runner[k] /\ BreakKnows(i) /\ i.at = "first"
  BY BreakFacts DEF S!FirstSession, S!In
<1>2. /\ UNCHANGED <<shut, modes, held, launched, reported>> /\ S!Stops(k, how)
      /\ i.at \in Locking /\ i.at \in Trying
  BY <1>1 DEF S!FirstSession, Locking, Trying, BreakPlaces
<1>3. PICK a \in BreakAttempts, f \in Evidence, m \in [1..2 -> Nat] :
         /\ a = S!Item(k) /\ f = attempt[a] /\ m = launched[a] /\ f.status = "running"
         /\ launched = [launched EXCEPT ![a] = m] /\ ~S!Ended(a)
  BY <1>1, <1>2, TryFacts
<1>4. a = i.item /\ Launches(a, 1, 0) /\ S!Untouched(a) /\ AllOpen /\ held /\ i.ended = "none"
  BY <1>1, <1>2, <1>3 DEF BreakKnows, TryKnows, S!Item
<1>5. PICK one \in Seq(S!Ending) : one = <<how>> /\ Len(one) = 1
  <2>1. PICK every : every = S!Ending
    OBVIOUS
  <2>2. <<how>> \in Seq(every) /\ Len(<<how>>) = 1
    BY <2>1
  <2> QED  BY <2>1, <2>2
<1>6. PICK e : e = [f EXCEPT !.sessions = one]
  OBVIOUS
<1>7. /\ e \in Evidence /\ e.status = "running" /\ e.sessions = one
  BY <1>3, <1>6 DEF Evidence
<1>8. attempt' = [attempt EXCEPT ![a] = e]
  BY <1>3, <1>5, <1>6 DEF S!FirstSession
<1>9. PICK place \in BreakPlaces : place \in {"outcome", "point"} /\ S!Move(k, place)
  BY DEF S!FirstSession, BreakPlaces
<1>10. PICK j \in BreakJob : /\ runner' = [runner EXCEPT ![k] = j] /\ j.at = place
                             /\ j.item = i.item /\ j.ended = i.ended
  BY <1>1, <1>9, BreakMoves
<1>11. attempt'[a] = e
  BY <1>8 DEF BreakInv, BreakState, BreakTypes
<1>12. AttemptOK(a)' /\ Launches(a, 1, 0)'
  BY <1>2, <1>4, <1>7, <1>11 DEF AttemptOK, Launches, S!Untouched, S!AllStopped
<1>13. (S!AllStopped(a) => S!Untouched(a))'
  <2>1. CASE how \in S!Unstopped
    <3>1. 1 \in DOMAIN one /\ one[1] = how
      BY <1>5
    <3> QED  BY <2>1, <3>1, <1>7, <1>11 DEF S!AllStopped
  <2>2. CASE how \notin S!Unstopped
    BY <2>2, <1>2, <1>4, StopsItsOwn DEF S!Untouched
  <2> QED  BY <2>1, <2>2
<1>14. \A o \in orphans' : o \in orphans \/ o[1] = a
  BY <1>2, <1>3, StopsItsOwn
<1>15. TryKnows(j)'
  <2>1. j.item = a /\ Len(attempt'[a].sessions) = 1 /\ 1 \in 1..2 /\ 1 - 1 = 0 /\ 1 # 2
    BY <1>4, <1>5, <1>7, <1>10, <1>11
  <2> QED  BY <1>7, <1>9, <1>10, <1>11, <1>12, <1>13, <2>1 DEF TryKnows
<1>16. BreakKnows(j)'
  BY <1>2, <1>4, <1>9, <1>10, <1>15 DEF BreakKnows, Locking, Trying, BreakPlaces, AllOpen
<1> QED  BY <1>1, <1>2, <1>3, <1>7, <1>8, <1>10, <1>12, <1>16, <1>14, BreakTakes

LEMMA BreakPoints ==
    ASSUME BreakInv, NEW k \in Processes, S!Checkpoint(k)
    PROVE  BreakInv'
<1>1. PICK i \in BreakJob : i = runner[k] /\ BreakKnows(i) /\ i.at = "point"
  BY BreakFacts DEF S!Checkpoint, S!In
<1>2. /\ UNCHANGED <<shut, modes, held, orphans, launched, reported>>
      /\ i.at \in Locking /\ i.at \in Trying
  BY <1>1 DEF S!Checkpoint, Locking, Trying, BreakPlaces
<1>3. PICK a \in BreakAttempts, f \in Evidence, m \in [1..2 -> Nat] :
         /\ a = S!Item(k) /\ f = attempt[a] /\ m = launched[a] /\ f.status = "running"
         /\ launched = [launched EXCEPT ![a] = m] /\ ~S!Ended(a)
  BY <1>1, <1>2, TryFacts
<1>4. /\ a = i.item /\ Launches(a, 1, 0) /\ AllOpen /\ held /\ i.ended = "none"
      /\ Len(f.sessions) = 1 /\ (S!AllStopped(a) => S!Untouched(a))
  BY <1>1, <1>2, <1>3 DEF BreakKnows, TryKnows, S!Item
<1>5. PICK tree \in Nat : /\ attempt' = [attempt EXCEPT ![a].point = tree]
                          /\ S!Untouched(a) => tree = 1
  <2>1. PICK tree \in S!Found(a) : attempt' = [attempt EXCEPT ![a].point = tree]
    BY <1>3 DEF S!Checkpoint
  <2>2. Len(attempt[a].sessions) = 1 /\ 1 \in Nat
    BY <1>3, <1>4
  <2>3. tree \in Nat /\ (S!Untouched(a) => tree = 1)
    BY <2>1, <2>2, FoundAsLeft
  <2> QED  BY <2>1, <2>3
<1>6. PICK e : e = [f EXCEPT !.point = tree]
  OBVIOUS
<1>7. /\ e \in Evidence /\ e.status = "running" /\ e.sessions = f.sessions
      /\ Len(e.sessions) = 1 /\ e.point = tree
  BY <1>3, <1>4, <1>6 DEF Evidence
<1>8. attempt' = [attempt EXCEPT ![a] = e]
  BY <1>3, <1>5, <1>6
<1>9. PICK place \in BreakPlaces : place = "hide" /\ S!Move(k, place)
  BY DEF S!Checkpoint, BreakPlaces
<1>10. PICK j \in BreakJob : /\ runner' = [runner EXCEPT ![k] = j] /\ j.at = place
                             /\ j.item = i.item /\ j.ended = i.ended
  BY <1>1, <1>9, BreakMoves
<1>11. attempt'[a] = e
  BY <1>8 DEF BreakInv, BreakState, BreakTypes
<1>12. AttemptOK(a)' /\ Launches(a, 1, 0)'
  BY <1>2, <1>4, <1>7, <1>11 DEF AttemptOK, Launches, S!Untouched, S!AllStopped
<1>13. S!AllStopped(a)' => S!Untouched(a)' /\ tree = 1
  BY <1>2, <1>3, <1>4, <1>5, <1>7, <1>11 DEF S!AllStopped, S!Untouched
<1>14. TryKnows(j)'
  <2>1. j.item = a /\ j.at = "hide" /\ attempt'[a] = e
    BY <1>4, <1>9, <1>10, <1>11
  <2> QED  BY <1>7, <1>12, <1>13, <2>1 DEF TryKnows
<1>15. BreakKnows(j)'
  BY <1>2, <1>4, <1>9, <1>10, <1>14 DEF BreakKnows, Locking, Trying, BreakPlaces, AllOpen
<1> QED  BY <1>1, <1>2, <1>3, <1>7, <1>8, <1>10, <1>12, <1>15, BreakTakes

\* hidden: the record names all of the rest, and says that it was open.
LEMMA BreakRecords ==
    ASSUME BreakInv, NEW k \in Processes, S!RecordModes(k)
    PROVE  BreakInv'
<1>1. PICK i \in BreakJob : i = runner[k] /\ BreakKnows(i) /\ i.at = "hide"
  BY BreakFacts DEF S!RecordModes, S!In
<1>2. /\ UNCHANGED <<attempt, shut, held, orphans, launched, reported>>
      /\ i.at \in Locking /\ i.at \in Trying
  BY <1>1 DEF S!RecordModes, S!Quietly, Locking, Trying, BreakPlaces
<1>3. AllOpen /\ held /\ i.ended = "none" /\ TryKnows(i)
  BY <1>1, <1>2 DEF BreakKnows
<1>4. PICK kept : kept = [p \in S!Hidden(S!Item(k)) |-> IF p \in shut THEN "shut" ELSE "open"]
  OBVIOUS
<1>5. modes'.file = "whole" /\ modes'.modes = kept
  BY <1>4 DEF S!RecordModes
<1>6. ShutOK'
  BY <1>2, <1>3, <1>4, <1>5 DEF ShutOK, AllOpen
<1>7. Others(i.item) \subseteq DOMAIN kept
  BY <1>1, <1>4 DEF Others, S!Hidden, S!Item
<1>8. PICK place \in BreakPlaces : place = "shut" /\ S!Move(k, place)
  BY DEF S!RecordModes, BreakPlaces
<1>9. PICK j \in BreakJob : /\ runner' = [runner EXCEPT ![k] = j] /\ j.at = place
                            /\ j.item = i.item /\ j.ended = i.ended
  BY <1>1, <1>8, BreakMoves
<1>10. TryKnows(j)'
  BY <1>1, <1>2, <1>3, <1>8, <1>9, TryStays
<1>11. BreakKnows(j)'
  BY <1>2, <1>3, <1>5, <1>7, <1>8, <1>9, <1>10 DEF BreakKnows, Locking, Trying, BreakPlaces, Others
<1> QED  BY <1>1, <1>2, <1>6, <1>9, <1>11, BreakShuts

LEMMA BreakHides ==
    ASSUME BreakInv, NEW k \in Processes, S!Shut(k)
    PROVE  BreakInv'
<1>1. PICK i \in BreakJob : i = runner[k] /\ BreakKnows(i) /\ i.at = "shut"
  BY BreakFacts DEF S!Shut, S!In
<1>2. /\ UNCHANGED <<attempt, modes, held, orphans, reported>> /\ i.at \in Locking /\ i.at \in Trying
  BY <1>1 DEF S!Shut, Locking, Trying, BreakPlaces
<1>3. PICK a \in BreakAttempts, f \in Evidence, m \in [1..2 -> Nat] :
         /\ a = S!Item(k) /\ f = attempt[a] /\ m = launched[a] /\ f.status = "running"
         /\ launched = [launched EXCEPT ![a] = m] /\ ~S!Ended(a)
  BY <1>1, <1>2, TryFacts
<1>4. /\ a = i.item /\ Launches(a, 1, 0) /\ held /\ i.ended = "none" /\ TryKnows(i)
      /\ modes.file = "whole" /\ Others(i.item) \subseteq DOMAIN modes.modes
      /\ Len(f.sessions) = 1 /\ (S!AllStopped(a) => S!Untouched(a) /\ f.point = 1)
  BY <1>1, <1>2, <1>3 DEF BreakKnows, TryKnows, S!Item
<1>5. ASSUME NEW p \in DOMAIN modes.modes, shut' = shut \cup {p}, UNCHANGED <<runner, launched>>
      PROVE  BreakInv'
  <2>1. ShutOK'
    BY <1>2, <1>4, <1>5 DEF ShutOK, BreakInv, BreakState
  <2>2. runner' = [runner EXCEPT ![k] = i]
    BY <1>1, <1>5 DEF BreakInv, BreakState, BreakTypes
  <2>3. TryKnows(i)'
    BY <1>2, <1>4, <1>5, TryStays
  <2>4. BreakKnows(i)'
    BY <1>1, <1>2, <1>4, <2>3 DEF BreakKnows, Locking, Trying, BreakPlaces, Others
  <2> QED  BY <1>1, <1>2, <1>5, <2>1, <2>2, <2>4, BreakShuts
<1>6. CASE /\ DOMAIN modes.modes \ shut = {} /\ S!Move(k, "second") /\ UNCHANGED shut
           /\ launched' = [launched EXCEPT ![S!Item(k)][2] = @ + 1]
  <2>1. PICK place \in BreakPlaces : place = "second" /\ S!Move(k, place)
    BY <1>6 DEF BreakPlaces
  <2>2. PICK j \in BreakJob : /\ runner' = [runner EXCEPT ![k] = j] /\ j.at = place
                              /\ j.item = i.item /\ j.ended = i.ended
    BY <1>1, <2>1, BreakMoves
  <2>3. m[1] = 1 /\ m[2] = 0
    BY <1>3, <1>4 DEF Launches, S!Untouched, S!AllStopped
  <2>4. PICK l : l = [m EXCEPT ![2] = @ + 1]
    OBVIOUS
  <2>5. l \in [1..2 -> Nat] /\ l[1] = 1 /\ l[2] = 1
    BY <2>3, <2>4
  <2>6. launched' = [launched EXCEPT ![a] = l]
    BY <1>3, <1>6, <2>4
  <2>7. launched'[a] = l /\ attempt' = [attempt EXCEPT ![a] = f] /\ attempt'[a] = f
    BY <1>2, <1>3, <2>6 DEF BreakInv, BreakState, BreakTypes
  <2>8. AttemptOK(a)' /\ Launches(a, 1, 1)'
    BY <1>3, <2>5, <2>7 DEF AttemptOK, Launches, S!Untouched, S!AllStopped
  <2>9. S!AllStopped(a)' => S!Untouched(a)' /\ f.point = 1
    BY <1>2, <1>3, <1>4, <2>7 DEF S!AllStopped, S!Untouched
  <2>10. TryKnows(j)'
    BY <1>3, <1>4, <2>1, <2>2, <2>7, <2>8, <2>9 DEF TryKnows
  <2>11. BreakKnows(j)'
    BY <1>2, <1>4, <1>6, <2>1, <2>2, <2>10 DEF BreakKnows, Locking, Trying, BreakPlaces, Others
  <2> QED  BY <1>1, <1>2, <1>3, <1>6, <2>2, <2>5, <2>6, <2>7, <2>8, <2>11, BreakTakes
<1> QED  BY <1>5, <1>6 DEF S!Shut

LEMMA BreakEndsSecond ==
    ASSUME BreakInv, NEW k \in Processes, NEW how \in S!Ending, S!SecondSession(k, how)
    PROVE  BreakInv'
<1>1. PICK i \in BreakJob : i = runner[k] /\ BreakKnows(i) /\ i.at = "second"
  BY BreakFacts DEF S!SecondSession, S!In
<1>2. /\ UNCHANGED <<shut, modes, held, launched, reported>> /\ S!Stops(k, how)
      /\ i.at \in Locking /\ i.at \in Trying
  BY <1>1 DEF S!SecondSession, Locking, Trying, BreakPlaces
<1>3. PICK a \in BreakAttempts, f \in Evidence, m \in [1..2 -> Nat] :
         /\ a = S!Item(k) /\ f = attempt[a] /\ m = launched[a] /\ f.status = "running"
         /\ launched = [launched EXCEPT ![a] = m] /\ ~S!Ended(a)
  BY <1>1, <1>2, TryFacts
<1>4. /\ a = i.item /\ Launches(a, 1, 1) /\ held /\ i.ended = "none"
      /\ Len(f.sessions) = 1 /\ (S!AllStopped(a) => S!Untouched(a) /\ f.point = 1)
  BY <1>1, <1>2, <1>3 DEF BreakKnows, TryKnows, S!Item
<1>5. PICK s \in Seq(S!Ending) : s = f.sessions
  BY DEF Evidence
<1>6. PICK both \in Seq(S!Ending) : both = Append(s, how) /\ Len(both) = 2
  <2>1. PICK every : every = S!Ending
    OBVIOUS
  <2>2. Append(s, how) \in Seq(every) /\ Len(Append(s, how)) = Len(s) + 1
    BY <1>5, <2>1, AppendProperties
  <2>3. Len(s) = 1
    BY <1>4, <1>5
  <2>4. Append(s, how) \in Seq(S!Ending) /\ Len(Append(s, how)) = 2
    BY <2>1, <2>2, <2>3
  <2> QED  BY <2>4
<1>7. PICK e : e = [f EXCEPT !.sessions = both]
  OBVIOUS
<1>8. e \in Evidence /\ e.status = "running" /\ e.sessions = both /\ Len(e.sessions) = 2 /\ e.point = f.point
  BY <1>3, <1>4, <1>6, <1>7 DEF Evidence
<1>9. attempt' = [attempt EXCEPT ![a] = e]
  BY <1>3, <1>5, <1>6, <1>7 DEF S!SecondSession
<1>10. PICK place \in BreakPlaces : place = "show" /\ S!Move(k, place)
  BY DEF S!SecondSession, BreakPlaces
<1>11. PICK j \in BreakJob : /\ runner' = [runner EXCEPT ![k] = j] /\ j.at = place
                             /\ j.item = i.item /\ j.ended = i.ended
  BY <1>1, <1>10, BreakMoves
<1>12. attempt'[a] = e
  BY <1>9 DEF BreakInv, BreakState, BreakTypes
<1>13. AttemptOK(a)' /\ Launches(a, 1, 1)'
  BY <1>2, <1>4, <1>8, <1>12 DEF AttemptOK, Launches, S!Untouched, S!AllStopped
<1>14. S!AllStopped(a)' => S!Untouched(a)' /\ f.point = 1
  <2>1. DOMAIN both = 1..2 /\ both[1] = s[1] /\ both[2] = how /\ DOMAIN s = 1..1
    BY <1>4, <1>5, <1>6
  <2>2. S!AllStopped(a)' => how \notin S!Unstopped /\ s[1] \notin S!Unstopped
    BY <2>1, <1>8, <1>12 DEF S!AllStopped
  <2>3. s[1] \notin S!Unstopped => S!AllStopped(a)
    BY <2>1, <1>3, <1>5 DEF S!AllStopped
  <2>4. how \notin S!Unstopped => UNCHANGED orphans
    BY <1>2, StopsItsOwn
  <2> QED  BY <2>2, <2>3, <2>4, <1>4 DEF S!Untouched
<1>15. \A o \in orphans' : o \in orphans \/ o[1] = a
  BY <1>2, <1>3, StopsItsOwn
<1>16. TryKnows(j)'
  <2>1. j.item = a /\ Len(attempt'[a].sessions) = 2 /\ 2 \in 1..2 /\ 2 - 1 = 1
    BY <1>4, <1>8, <1>11, <1>12
  <2> QED  BY <1>8, <1>10, <1>11, <1>12, <1>13, <1>14, <2>1 DEF TryKnows
<1>17. BreakKnows(j)'
  BY <1>2, <1>4, <1>10, <1>11, <1>16 DEF BreakKnows, Locking, Trying, BreakPlaces
<1> QED  BY <1>1, <1>2, <1>3, <1>8, <1>9, <1>11, <1>13, <1>17, <1>15, BreakTakes

LEMMA BreakShows ==
    ASSUME BreakInv, NEW k \in Processes, S!Show(k)
    PROVE  BreakInv'
<1>1. PICK i \in BreakJob : i = runner[k] /\ BreakKnows(i) /\ i.at = "show"
  BY BreakFacts DEF S!Show, S!In
<1>2. /\ UNCHANGED <<attempt, shut, held, orphans, launched, reported>> /\ modes' = S!NoRecord
      /\ i.at \in Locking /\ i.at \in Trying /\ TryKnows(i) /\ held
  BY <1>1 DEF S!Show, S!Quietly, Locking, Trying, BreakPlaces, BreakKnows
<1>3. shut = {}
  BY DEF BreakInv, BreakState, ShutOK, S!Show, S!Restored, S!Differs
<1>4. ShutOK' /\ AllOpen'
  BY <1>2, <1>3, NoModes DEF ShutOK, AllOpen
<1>5. PICK place \in BreakPlaces : /\ place = IF i.ended = "stopped" THEN "unlock" ELSE "outcome"
                                   /\ S!Move(k, place)
  BY <1>1 DEF S!Show, BreakPlaces
<1>6. PICK j \in BreakJob : /\ runner' = [runner EXCEPT ![k] = j] /\ j.at = place
                            /\ j.item = i.item /\ j.ended = i.ended
  BY <1>1, <1>5, BreakMoves
<1>7. place = "outcome" => TryKnows(j)' /\ j.ended \in {"none", "error"}
  BY <1>1, <1>2, <1>5, <1>6, TryStays DEF BreakJob
<1>8. BreakKnows(j)'
  BY <1>2, <1>4, <1>5, <1>6, <1>7 DEF BreakKnows, Locking, Trying, BreakPlaces
<1> QED  BY <1>1, <1>2, <1>4, <1>6, <1>8, BreakShuts

\* A session that is abandoned belongs to an attempt that has not ended, and that nobody
\* else is at.
LEMMA BreakAbandons ==
    ASSUME BreakInv, NEW k \in Processes, NEW j \in BreakJob, runner' = [runner EXCEPT ![k] = j],
           UNCHANGED <<attempt, shut, modes, held, launched, reported>>,
           S!Leaves(k) \/ UNCHANGED orphans, runner[k].at \in Trying, BreakKnows(j)'
    PROVE  BreakInv'
<1>1. PICK a \in BreakAttempts, f \in Evidence, m \in [1..2 -> Nat] :
         /\ a = S!Item(k) /\ f = attempt[a] /\ m = launched[a] /\ f.status = "running"
         /\ launched = [launched EXCEPT ![a] = m] /\ ~S!Ended(a)
  BY TryFacts
<1>2. attempt' = [attempt EXCEPT ![a] = f] /\ launched' = [launched EXCEPT ![a] = m]
  BY <1>1 DEF BreakInv, BreakState, BreakTypes
<1>3. AttemptOK(a)'
  BY <1>1 DEF AttemptOK, BreakInv, BreakState
<1>4. \A o \in orphans' : o \in orphans \/ o[1] = a
  BY <1>1, LeavesItsOwn
<1>5. runner[k].at \in Locking
  BY DEF Trying, Locking, BreakPlaces
<1> QED  BY <1>1, <1>2, <1>3, <1>4, <1>5, BreakTakes

\* What goes wrong at an attempt is its error, once what was shut is open again.
LEMMA BreakRaises ==
    ASSUME BreakInv, NEW k \in Processes, S!Raise(k)
    PROVE  BreakInv'
<1>1. PICK i \in BreakJob : i = runner[k] /\ BreakKnows(i)
  BY BreakFacts
<1>2. i.at \in {"first", "point", "hide", "shut", "second", "show"}
  BY <1>1 DEF S!Raise, S!In
<1>3. /\ UNCHANGED <<attempt, shut, modes, held, launched, reported>>
      /\ S!Leaves(k) \/ UNCHANGED orphans
      /\ i.at \in Locking /\ i.at \in Trying /\ TryKnows(i) /\ held
  BY <1>1, <1>2 DEF S!Raise, Locking, Trying, BreakPlaces, BreakKnows
<1>4. PICK place \in {"show", "outcome"} :
         place = IF i.at = "shut" \/ i.at = "second" THEN "show" ELSE "outcome"
  OBVIOUS
<1>5. PICK j : j = [i EXCEPT !.ended = "error", !.at = place]
  OBVIOUS
<1>6. runner' = [runner EXCEPT ![k] = j]
  BY <1>1, <1>4, <1>5 DEF S!Raise, S!In
<1>7. j \in BreakJob /\ j.at = place /\ j.item = i.item /\ j.ended = "error"
  BY <1>4, <1>5 DEF BreakJob, BreakPlaces
<1>8. TryKnows(j)'
  BY <1>3, <1>4, <1>7, TryStays
<1>9. BreakKnows(j)'
  BY <1>3, <1>4, <1>7, <1>8 DEF BreakKnows, Locking, Trying, BreakPlaces
<1> QED  BY <1>1, <1>3, <1>6, <1>7, <1>9, BreakAbandons

LEMMA BreakDecides ==
    ASSUME BreakInv, NEW k \in Processes, S!Outcome(k)
    PROVE  BreakInv'
<1>1. PICK i \in BreakJob : i = runner[k] /\ BreakKnows(i) /\ i.at = "outcome"
  BY BreakFacts DEF S!Outcome, S!In
<1>2. /\ UNCHANGED <<shut, modes, held, orphans, launched, reported>>
      /\ i.at \in Locking /\ i.at \in Trying
  BY <1>1 DEF S!Outcome, Locking, Trying, BreakPlaces
<1>3. PICK a \in BreakAttempts, f \in Evidence, m \in [1..2 -> Nat] :
         /\ a = S!Item(k) /\ f = attempt[a] /\ m = launched[a] /\ f.status = "running"
         /\ launched = [launched EXCEPT ![a] = m] /\ ~S!Ended(a)
  BY <1>1, <1>2, TryFacts
<1>4. PICK n : n = Len(f.sessions)
  OBVIOUS
<1>5. /\ a = i.item /\ held /\ i.ended \in {"none", "error"} /\ (i.ended = "none" => AllOpen)
      /\ i.ended = "none" => n \in 1..2 /\ Launches(a, 1, n - 1) /\ (n = 2 /\ S!AllStopped(a) => f.point = 1)
      /\ i.ended = "none" /\ S!AllStopped(a) => S!Untouched(a)
      /\ launched[a][1] <= 1 /\ launched[a][2] <= 1
  BY <1>1, <1>2, <1>3, <1>4 DEF BreakKnows, TryKnows, S!Item, BreakInv, BreakState, AttemptOK
<1>6. PICK problem \in BOOLEAN, tree \in S!Found(a), next \in {"pick", "unlock"} :
         LET bad    == i.ended = "error" \/ (problem /\ f.sessions # <<>>)
             failed == \E x \in DOMAIN f.sessions : f.sessions[x] \in S!Failed
         IN /\ attempt' = [attempt EXCEPT ![a].status = IF bad THEN "error" ELSE "completed",
                                          ![a].judged = IF Len(f.sessions) = 2 /\ ~problem THEN tree ELSE 0]
            /\ bad \/ failed => next = "unlock"
            /\ runner' = [runner EXCEPT ![k].at = next, ![k].item = "none", ![k].ended = "none"]
  BY <1>1, <1>3, ZenonT(40) DEF S!Outcome
<1>7. PICK bad \in BOOLEAN : bad <=> i.ended = "error" \/ (problem /\ f.sessions # <<>>)
  OBVIOUS
<1>8. PICK seen \in Nat : /\ seen = IF Len(f.sessions) = 2 /\ ~problem THEN tree ELSE 0
                          /\ S!Untouched(a) => seen \in {0, 2}
  <2>1. Len(f.sessions) \in Nat
    BY DEF Evidence
  <2>2. tree \in Nat /\ (S!Untouched(a) => tree = Len(f.sessions))
    BY <1>3, <2>1, FoundAsLeft
  <2>3. CASE Len(f.sessions) = 2 /\ ~problem
    BY <2>2, <2>3
  <2>4. CASE ~(Len(f.sessions) = 2 /\ ~problem)
    BY <2>4
  <2> QED  BY <2>3, <2>4
<1>9. PICK status \in {"completed", "error"} : status = IF bad THEN "error" ELSE "completed"
  OBVIOUS
<1>10. PICK e : e = [f EXCEPT !.status = status, !.judged = seen]
  OBVIOUS
<1>11. /\ e \in Evidence /\ e.status = status /\ e.sessions = f.sessions /\ e.point = f.point
       /\ e.judged = seen
  BY <1>3, <1>10 DEF Evidence
<1>12. attempt' = [attempt EXCEPT ![a] = e]
  <2>1. attempt' = [attempt EXCEPT ![a].status = IF bad THEN "error" ELSE "completed",
                                   ![a].judged = seen]
    BY <1>6, <1>7, <1>8, ZenonT(40)
  <2> QED  BY <1>3, <1>9, <1>10, <2>1
<1>13. attempt'[a] = e
  BY <1>12 DEF BreakInv, BreakState, BreakTypes
<1>14. bad \/ i.ended = "none"
  BY <1>5, <1>7
<1>15. S!AllStopped(a)' => S!AllStopped(a) /\ (S!Untouched(a) => S!Untouched(a)')
  BY <1>2, <1>3, <1>11, <1>13 DEF S!AllStopped, S!Untouched
<1>16. AttemptOK(a)'
  BY <1>2, <1>4, <1>5, <1>8, <1>9, <1>11, <1>13, <1>14, <1>15 DEF AttemptOK, Launches
<1>17. PICK j : j = [i EXCEPT !.at = next, !.item = "none", !.ended = "none"]
  OBVIOUS
<1>18. runner' = [runner EXCEPT ![k] = j]
  BY <1>1, <1>6, <1>17
<1>19. j \in BreakJob /\ j.at = next /\ j.ended = "none"
  BY <1>17 DEF BreakJob, BreakPlaces
<1>20. next = "pick" => AllOpen
  BY <1>5, <1>6, <1>7, <1>14
<1>21. BreakKnows(j)'
  BY <1>2, <1>5, <1>19, <1>20 DEF BreakKnows, Locking, Trying, BreakPlaces, AllOpen
<1> QED  BY <1>1, <1>2, <1>3, <1>11, <1>12, <1>16, <1>18, <1>19, <1>21, BreakTakes

LEMMA BreakAnalyzes ==
    ASSUME BreakInv, NEW k \in Processes, S!Analyze(k)
    PROVE  BreakInv'
<1>1. PICK i \in BreakJob : i = runner[k] /\ BreakKnows(i) /\ i.at = "again"
  BY BreakFacts DEF S!Analyze, S!In
<1>2. UNCHANGED <<shut, modes, held, orphans, launched, reported>> /\ i.at \in Locking
  BY <1>1 DEF S!Analyze, Locking, BreakPlaces
<1>3. PICK place \in BreakPlaces : place = "unlock" /\ S!Move(k, place)
  BY DEF S!Analyze, BreakPlaces
<1>4. PICK j \in BreakJob : runner' = [runner EXCEPT ![k] = j] /\ j.at = place
  BY <1>1, <1>3, BreakMoves
<1>5. PICK trees \in [BreakAttempts -> {0, 2, S!Disturbed}] :
         /\ \A a \in BreakAttempts : trees[a] # attempt[a].judged =>
               S!Ended(a) /\ Len(attempt[a].sessions) = 2 /\ trees[a] \in S!Found(a)
         /\ attempt' = [a \in BreakAttempts |-> [attempt[a] EXCEPT !.judged = trees[a]]]
  BY DEF S!Analyze
<1>6. ASSUME NEW a \in BreakAttempts
      PROVE  /\ attempt'[a] \in Evidence /\ attempt'[a].status = attempt[a].status
             /\ attempt'[a].sessions = attempt[a].sessions /\ attempt'[a].point = attempt[a].point
             /\ S!Untouched(a) => attempt'[a].judged \in {attempt[a].judged, 2}
  <2>1. PICK f \in Evidence : f = attempt[a]
    BY DEF BreakInv, BreakState, BreakTypes
  <2>2. PICK tree \in Nat : tree = trees[a] /\ (S!Untouched(a) => tree \in {f.judged, 2})
    <3>1. trees[a] \in Nat
      BY <1>5 DEF S!Disturbed
    <3>2. ASSUME S!Untouched(a), trees[a] # f.judged PROVE trees[a] = 2
      BY <1>5, <2>1, <3>2 DEF S!Found
    <3> QED  BY <3>1, <3>2
  <2>3. attempt'[a] = [f EXCEPT !.judged = tree]
    BY <1>5, <2>1, <2>2
  <2> QED  BY <2>1, <2>2, <2>3 DEF Evidence
<1>7. attempt' \in [BreakAttempts -> Evidence]
  BY <1>6, <1>5
<1>8. \A a \in BreakAttempts : S!Ended(a) => S!Ended(a)'
  BY <1>6 DEF S!Ended
<1>9. runner' \in [Processes -> BreakJob]
  BY <1>4, JobStands
<1>10. \A a \in BreakAttempts : /\ S!AllStopped(a)' => S!AllStopped(a)
                                /\ S!Untouched(a) <=> S!Untouched(a)'
  BY <1>2, <1>6 DEF S!AllStopped, S!Untouched
<1>11. \A a \in BreakAttempts : AttemptOK(a)'
  BY <1>2, <1>6, <1>10 DEF AttemptOK, Launches, BreakInv, BreakState
<1>12. BreakState'
  BY <1>2, <1>7, <1>8, <1>9, <1>11 DEF BreakInv, BreakState, BreakTypes, ShutOK, AllEnded
<1>13. BreakKnows(j)'
  BY <1>1, <1>2, <1>3, <1>4 DEF BreakKnows, Locking, Trying, BreakPlaces
<1> QED  BY <1>1, <1>2, <1>4, <1>8, <1>12, <1>13, BreakGoes

LEMMA BreakUnlocks ==
    ASSUME BreakInv, NEW k \in Processes, S!Unlock(k)
    PROVE  BreakInv'
<1>1. PICK i \in BreakJob : i = runner[k] /\ i.at = "unlock"
  BY BreakFacts DEF S!Unlock, S!In
<1>2. /\ UNCHANGED <<attempt, shut, modes, orphans, launched, reported>> /\ i.at \in Locking
      /\ held' \in BOOLEAN
  BY <1>1 DEF S!Unlock, S!Quietly, Locking, BreakPlaces
<1>3. PICK place \in BreakPlaces : place = "rows" /\ S!Move(k, place)
  BY DEF S!Unlock, BreakPlaces
<1>4. PICK j \in BreakJob : runner' = [runner EXCEPT ![k] = j] /\ j.at = place
  BY <1>1, <1>3, BreakMoves
<1>5. BreakKnows(j)'
  BY <1>3, <1>4, BreakIdles
<1> QED  BY <1>1, <1>2, <1>4, <1>5, BreakWorks

\* report: what is said to have ended stays so.
LEMMA BreakReads ==
    ASSUME BreakInv, NEW k \in Processes, S!Rows(k)
    PROVE  BreakInv'
<1>1. PICK i \in BreakJob : i = runner[k] /\ i.at = "rows"
  BY BreakFacts DEF S!Rows, S!In
<1>2. UNCHANGED <<attempt, shut, modes, held, orphans, launched, reported>>
  BY DEF S!Rows, S!Quietly
<1>3. PICK seen \in {"complete", "partial"} :
         seen = IF \A a \in BreakAttempts : S!Whole(a) \notin shut /\ S!Ended(a)
                THEN "complete" ELSE "partial"
  OBVIOUS
<1>4. PICK j : j = [i EXCEPT !.at = "write", !.view = seen]
  OBVIOUS
<1>5. runner' = [runner EXCEPT ![k] = j]
  BY <1>1, <1>3, <1>4 DEF S!Rows
<1>6. j \in BreakJob /\ j.at = "write" /\ j.view = seen
  BY <1>4 DEF BreakJob, BreakPlaces
<1>7. runner' \in [Processes -> BreakJob] /\ held' \in BOOLEAN
  BY <1>2, <1>5, <1>6, JobStands DEF BreakInv, BreakState, BreakTypes
<1>8. BreakState' /\ \A a \in BreakAttempts : S!Ended(a) => S!Ended(a)'
  BY <1>2, <1>7, BreakStateStays
<1>9. seen = "complete" => AllEnded'
  BY <1>3, <1>8 DEF AllEnded
<1>10. BreakKnows(j)' /\ j.at \notin Locking
  BY <1>6, <1>9 DEF BreakKnows, Locking, Trying, BreakPlaces
<1> QED  BY <1>2, <1>5, <1>6, <1>8, <1>10, BreakGoes

LEMMA BreakWrites ==
    ASSUME BreakInv, NEW k \in Processes, S!WriteReport(k)
    PROVE  BreakInv'
<1>1. PICK i \in BreakJob : i = runner[k] /\ BreakKnows(i) /\ i.at = "write"
  BY BreakFacts DEF S!WriteReport, S!In
<1>2. UNCHANGED <<attempt, shut, modes, held, orphans, launched>>
  BY DEF S!WriteReport
<1>3. PICK j \in BreakJob : j = S!Resting /\ j.at = "idle"
  BY BreakRests
<1>4. runner' = [runner EXCEPT ![k] = j]
  BY <1>3 DEF S!WriteReport
<1>5. BreakKnows(j)' /\ j.at \notin Locking
  BY <1>3, BreakIdles
<1>6. i.view = "complete" => AllEnded
  BY <1>1 DEF BreakKnows
<1>7. runner' \in [Processes -> BreakJob]
  BY <1>4, JobStands
<1>8. \A a \in BreakAttempts : S!Ended(a) => S!Ended(a)'
  BY <1>2 DEF S!Ended
<1>9. reported' \in {reported, i.view} /\ i.view \in {"none", "partial", "complete"}
  BY <1>1 DEF S!WriteReport, BreakJob
<1>10. BreakState'
  BY <1>2, <1>6, <1>7, <1>8, <1>9 DEF BreakInv, BreakState, BreakTypes, ShutOK, AttemptOK, AllEnded,
                                      Launches, S!Untouched, S!AllStopped
<1> QED  BY <1>2, <1>4, <1>5, <1>8, <1>10, BreakGoes

LEMMA BreakInterrupts ==
    ASSUME BreakInv, NEW k \in Processes, S!Interrupt(k)
    PROVE  BreakInv'
<1>1. PICK i \in BreakJob : i = runner[k] /\ BreakKnows(i)
  BY BreakFacts
<1>2. /\ UNCHANGED <<attempt, shut, modes, held, launched, reported>>
      /\ S!Leaves(k) \/ UNCHANGED orphans
      /\ i.at \in Locking /\ held
  BY <1>1 DEF S!Interrupt, S!Works, Locking, BreakPlaces, BreakKnows
<1>3. PICK place \in {"show", "unlock"} :
         place = IF i.at = "shut" \/ i.at = "second" THEN "show" ELSE "unlock"
  OBVIOUS
<1>4. PICK j : j = [i EXCEPT !.ended = "stopped", !.at = place]
  OBVIOUS
<1>5. runner' = [runner EXCEPT ![k] = j]
  BY <1>1, <1>3, <1>4 DEF S!Interrupt, S!In
<1>6. j \in BreakJob /\ j.at = place /\ j.item = i.item /\ j.ended = "stopped"
  BY <1>3, <1>4 DEF BreakJob, BreakPlaces
<1>7. place = "show" => TryKnows(j)'
  BY <1>1, <1>2, <1>3, <1>6, TryStays DEF BreakKnows, Trying
<1>8. BreakKnows(j)' /\ held' \in BOOLEAN
  BY <1>2, <1>3, <1>6, <1>7 DEF BreakKnows, Locking, Trying, BreakPlaces, BreakInv, BreakState,
                                 BreakTypes
<1>9. CASE i.at \in Trying
  BY <1>1, <1>2, <1>5, <1>6, <1>8, <1>9, BreakAbandons
<1>10. CASE i.at \notin Trying
  <2>1. UNCHANGED orphans
    BY <1>1, <1>2, <1>10, LeavesItsOwn DEF Trying
  <2> QED  BY <1>1, <1>2, <1>5, <1>6, <1>8, <2>1, BreakWorks
<1> QED  BY <1>9, <1>10

\* A kill leaves the session at work; half a record only where nothing is shut yet.
LEMMA BreakKills ==
    ASSUME BreakInv, NEW k \in Processes, S!Kill(k)
    PROVE  BreakInv'
<1>1. PICK i \in BreakJob : i = runner[k] /\ BreakKnows(i)
  BY BreakFacts
<1>2. /\ UNCHANGED <<attempt, shut, held, launched, reported>> /\ S!Leaves(k)
      /\ runner' = [runner EXCEPT ![k] = S!Resting]
  BY DEF S!Kill
<1>3. PICK j \in BreakJob : j = S!Resting /\ BreakKnows(j)'
  BY BreakRests, BreakIdles
<1>4. CASE i.at \in {"first", "second"}
  <2>1. UNCHANGED modes /\ i.at \in Trying
    BY <1>1, <1>4 DEF S!Kill, S!In, Trying
  <2> QED  BY <1>1, <1>2, <1>3, <2>1, BreakAbandons
<1>5. CASE i.at \notin {"first", "second"} /\ UNCHANGED modes
  <2>1. UNCHANGED orphans
    BY <1>1, <1>2, <1>5, LeavesItsOwn
  <2> QED  BY <1>2, <1>5, <2>1, BreakRestsSo
<1>6. CASE i.at = "hide" /\ modes' = [S!NoRecord EXCEPT !.file = "torn"]
  <2>1. UNCHANGED orphans
    BY <1>1, <1>2, <1>6, LeavesItsOwn
  <2>2. shut = {} /\ i.at \in Locking
    BY <1>1, <1>6 DEF BreakKnows, AllOpen, Locking, BreakPlaces
  <2>3. modes'.file = "torn"
    BY <1>6 DEF S!NoRecord
  <2>4. ShutOK'
    BY <1>2, <2>2, <2>3 DEF ShutOK
  <2> QED  BY <1>1, <1>2, <1>3, <2>1, <2>2, <2>4, BreakShuts
<1> QED  BY <1>1, <1>4, <1>5, <1>6 DEF S!Kill, S!In

LEMMA BreakClears ==
    ASSUME BreakInv, S!Clear
    PROVE  BreakInv'
<1>1. /\ UNCHANGED <<attempt, shut, orphans, launched, reported, runner>> /\ held' \in BOOLEAN
      /\ \A q \in Processes : runner[q].at = "idle"
  BY DEF S!Clear, S!Quietly, S!In
<1>2. ShutOK'
  BY <1>1, NoModes DEF S!Clear, ShutOK, BreakInv, BreakState
<1>3. BreakState'
  BY <1>1, <1>2 DEF BreakInv, BreakState, BreakTypes, AttemptOK, AllEnded, Launches, S!Untouched, S!AllStopped, S!Ended
<1>4. ASSUME NEW q \in Processes PROVE BreakKnows(runner[q])' /\ runner'[q].at \notin Locking
  <2>1. PICK j : j = runner[q] /\ j.at = "idle"
    BY <1>1
  <2>2. runner'[q] = j
    BY <1>1, <2>1
  <2> QED  BY <2>1, <2>2, BreakIdles
<1> QED  BY <1>3, <1>4 DEF BreakInv, BreakAlone

LEMMA BreakStartsSo ==
    ASSUME S!BreakInit
    PROVE  BreakInv
<1>1. PICK j \in BreakJob : j = S!Resting /\ j.at = "idle"
  BY BreakRests
<1>2. PICK pending \in {"pending"}, none \in Seq(S!Ending) : pending = "pending" /\ none = << >>
  BY EmptySeq
<1>3. PICK e : e = [status |-> pending, sessions |-> none, point |-> 0, judged |-> 0]
  OBVIOUS
<1>4. e \in Evidence /\ e.status = "pending"
  BY <1>2, <1>3 DEF Evidence
<1>5. S!Fresh = e
  BY <1>2, <1>3, Zenon DEF S!Fresh
<1>6. PICK l \in [1..2 -> Nat] : l = <<0, 0>> /\ l[1] = 0 /\ l[2] = 0
  <2>1. PICK l : l = <<0, 0>>
    OBVIOUS
  <2>2. l \in Seq(Nat) /\ Len(l) = 2 /\ l[1] = 0 /\ l[2] = 0
    BY <2>1
  <2>3. l \in [1..2 -> Nat]
    BY <2>2, LenProperties
  <2> QED  BY <2>1, <2>2, <2>3
<1>7. /\ attempt = [a \in BreakAttempts |-> e] /\ shut = {} /\ modes = S!NoRecord /\ held = FALSE
      /\ runner = [q \in Processes |-> j] /\ reported = "none"
      /\ launched = [a \in BreakAttempts |-> l] /\ orphans = {}
  BY <1>1, <1>5, <1>6 DEF S!BreakInit
<1>8. BreakTypes
  BY <1>4, <1>7 DEF BreakTypes
<1>9. ShutOK
  BY <1>7, NoModes DEF ShutOK
<1>10. \A a \in BreakAttempts : AttemptOK(a)
  BY <1>4, <1>6, <1>7 DEF AttemptOK, Launches, S!Untouched
<1>11. BreakKnows(j) /\ j.at \notin Locking
  BY <1>1, BreakIdles
<1> QED  BY <1>7, <1>8, <1>9, <1>10, <1>11 DEF BreakInv, BreakState, BreakAlone

LEMMA BreakGoesSo ==
    ASSUME BreakInv, S!BreakNext
    PROVE  BreakInv'
<1>1. ASSUME NEW k \in Processes, S!RunsOn(k) PROVE BreakInv'
  BY <1>1, BreakLocks, BreakOpens, BreakUndoes, BreakPicks, BreakPoints, BreakRecords, BreakHides,
     BreakShows, BreakRaises, BreakDecides, BreakAnalyzes, BreakUnlocks, BreakReads, BreakWrites,
     BreakEndsFirst, BreakEndsSecond DEF S!RunsOn
<1> QED  BY <1>1, BreakBegins, BreakInterrupts, BreakKills, BreakClears DEF S!BreakNext

LEMMA BreakIsSound ==
    ASSUME BreakInv
    PROVE  S!BreakSound
<1>1. ASSUME NEW k \in Processes, S!In(k, "second")
      PROVE  /\ Others(S!Item(k)) \subseteq shut
             /\ \A q \in Processes \ {k} : ~S!In(q, "first") /\ ~S!In(q, "second")
  <2>1. PICK i \in BreakJob : i = runner[k] /\ BreakKnows(i) /\ i.at = "second"
    BY <1>1, BreakFacts DEF S!In
  <2>2. Others(i.item) \subseteq shut
    BY <2>1 DEF BreakKnows
  <2>3. \A q \in Processes : q # k => runner[q].at \notin Locking
    BY <2>1 DEF BreakInv, BreakAlone, Locking, BreakPlaces
  <2> QED  BY <2>1, <2>2, <2>3 DEF S!Item, S!In, Locking, BreakPlaces
<1>2. \A p \in shut : /\ modes.file = "whole" /\ p \in DOMAIN modes.modes
                      /\ modes.modes[p] = "open"
  BY DEF BreakInv, BreakState, ShutOK
<1>3. ASSUME NEW a \in BreakAttempts
      PROVE  /\ launched[a][1] <= 1 /\ launched[a][2] <= 1
             /\ reported = "complete" => S!Ended(a)
             /\ attempt[a].status = "completed" =>
                   /\ launched[a] = <<1, Len(attempt[a].sessions) - 1>>
                   /\ S!AllStopped(a) =>
                         /\ S!Untouched(a) /\ attempt[a].judged \in {0, 2}
                         /\ Len(attempt[a].sessions) = 2 => attempt[a].point = 1
  <2>1. AttemptOK(a) /\ (reported = "complete" => S!Ended(a))
    BY DEF BreakInv, BreakState, AllEnded
  <2>2. PICK l \in [1..2 -> Nat] : l = launched[a]
    BY DEF BreakInv, BreakState, BreakTypes
  <2>3. ASSUME attempt[a].status = "completed"
        PROVE  l = <<1, Len(attempt[a].sessions) - 1>>
    <3>1. PICK n \in 1..2 : n = Len(attempt[a].sessions) /\ l[1] = 1 /\ l[2] = n - 1
      BY <2>1, <2>2, <2>3 DEF AttemptOK, Launches
    <3>2. l = [x \in 1..2 |-> l[x]]
      OBVIOUS
    <3>3. l = <<l[1], l[2]>>
      BY <3>2
    <3> QED  BY <3>1, <3>3
  <2> QED  BY <2>1, <2>2, <2>3 DEF AttemptOK
<1> QED  BY <1>1, <1>2, <1>3 DEF S!BreakSound, Others

(* The trials of sessions that break, for any number of commands, of whom any *)
(* may be interrupted or killed anywhere, and for sessions that outlive them: *)
(* while a second session runs under its command no other command has one,    *)
(* and nothing else can be read; what is shut can be opened again; no session *)
(* is started twice; an attempt that counts as completed was never abandoned, *)
(* and unless its record says that a session could not be stopped, none is    *)
(* still at its workspace; and a report counts as complete only when it is    *)
(* (session_break_trials.py).                                                 *)
THEOREM BreaksStaySound == Spec => [](which = "break" => S!BreakSound)
<1> DEFINE Inv == which = "break" => BreakInv
<1>1. Init => Inv
  BY BreakStartsSo DEF Init
<1>2. Inv /\ [Next]_vars => Inv'
  <2> SUFFICES ASSUME Inv, [Next]_vars, which' = "break" PROVE BreakInv'
    OBVIOUS
  <2>1. which = "break" /\ (UNCHANGED breakVars \/ S!BreakNext)
    BY DEF Next, vars
  <2>2. CASE UNCHANGED breakVars
    <3>1. BreakInv
      BY <2>1
    <3>2. UNCHANGED <<attempt, shut, modes, held, runner, reported, orphans, launched>>
      BY <2>2 DEF breakVars
    <3> QED  BY <3>1, <3>2 DEF BreakInv, BreakState, BreakTypes, ShutOK, AllOpen, AttemptOK,
             AllEnded, Launches, S!Untouched, S!AllStopped, BreakKnows, TryKnows, BreakAlone, S!Ended
  <2> QED  BY <2>1, <2>2, BreakGoesSo
<1>3. Inv => (which = "break" => S!BreakSound)
  BY BreakIsSound
<1> QED  BY <1>1, <1>2, <1>3, PTL DEF Spec

-----------------------------------------------------------------------------
(* NativeMatrix.  A row belongs to who first made the directory of its      *)
(* first phase, and later, when that command has left it to the other host, *)
(* to who moved its workspace aside.  What a session did stays said, and    *)
(* versions only grow: what is as it was prepared now was so all along.     *)

RowPlaces   == {"look", "retire", "claim", "login", "phase", "launch", "watch", "terminate", "judge",
                "seal", "finish", "fail", "read", "admit", "move", "copy", "cross", "restored"}
AtSession   == {"watch", "terminate", "judge", "seal"}
Tree        == [stage : {"base", "gone", "planned", "red", "other", "done"}, mark : Nat]
RowResult   == [status : {"none", "running", "blocked", "failed", "partial", "passed"},
                sessions : Nat, pending : BOOLEAN, mark : Nat]
Phases      == {"none", "plan", "unsupported", "implement", "resume", "cross"}
RowState    == [result : RowResult, made : SUBSET Phases, work : Tree, point : Tree, evidence : Tree,
                previous : BOOLEAN, cross : {"none", "running", "failed", "passed"}, loose : BOOLEAN]
HostNames   == {"own", M!Home, M!Away}
TestJob     == [at : RowPlaces \cup {"idle", "identify", "stage", "record"},
                kind : {"none", "prepare", "run", "resume"}, todo : Seq(Nat), host : HostNames,
                phase : Phases, child : {"none", "alive", "zero", "bad"},
                stop : {"none", "checkpoint", "limit"}, clean : BOOLEAN, found : Tree,
                result : RowResult, good : BOOLEAN, seen : Nat]
Said        == [phase : Phases, host : HostNames \cup {"none"}, found : Tree, left : Tree, whole : BOOLEAN]
MatrixTypes ==
    /\ listed \in Seq(Nat) /\ listed # << >>
    /\ matrix \in [package : Nat, tools : Nat] /\ on \in [M!Items -> Nat]
    /\ row \in [M!Rows -> RowState] /\ told \in [M!Rows -> Seq(Said)]
    /\ tester \in [Processes -> TestJob]

\* What is on disk is never older than the matrix.
Versions == /\ on["root"] # 0 /\ (on[M!Home] = 0 => on[M!Away] = 0)
            /\ matrix # M!NoMatrix =>
                  /\ on[M!Home] # 0 /\ matrix.tools <= on["tools"]
                  /\ \A i \in {"root", M!Home, M!Away} : matrix.package <= on[i]
AsPrepared(host) == /\ \A i \in {host, "root"} : on[i] = matrix.package
                    /\ on["tools"] = matrix.tools

Row(i)      == Head(i.todo)
FirstOf(r)  == IF r \in Declines THEN "unsupported" ELSE "plan"
Claimed(r)  == FirstOf(r) \in row[r].made
\* The row is this command's: it made the first directory, or moved the workspace aside.
Owning(i)   == /\ i.kind = "run"
               /\ \/ i.phase \in {"implement", "resume"}
                  \/ i.phase \in {"plan", "unsupported"} /\ i.at \in AtSession \cup {"finish"}
Crossing(i) == /\ i.kind = "resume"
               /\ i.at \in {"copy", "cross", "restored", "launch", "fail"} \cup AtSession
AtWork(i)   == Owning(i) \/ Crossing(i)
Asking(i)   == i.kind = "resume" /\ i.at \in {"admit", "move"}

\* Among the first m of what was said of a row.
RedTree(mark)  == [stage |-> "red", mark |-> mark]
DoneTree(mark) == [stage |-> "done", mark |-> mark]
Planned(tl, m) == \E a \in 1..m : tl[a].phase = "plan" /\ tl[a].whole
Stopped(tl, m, mark) ==
    \E a \in 1..m, b \in 1..m :
       /\ a < b /\ tl[a].phase = "plan" /\ tl[a].whole
       /\ tl[b].phase = "implement" /\ tl[b].whole /\ tl[b].left = RedTree(mark)
Declined(tl)   == \E a \in 1..Len(tl) : tl[a].phase = "unsupported" /\ tl[a].whole
Completed(tl, last, host) ==
    \E a \in 1..Len(tl), b \in 1..Len(tl), e \in 1..Len(tl) :
       /\ a < b /\ tl[a].phase = "plan" /\ tl[a].whole
       /\ tl[b].phase = "implement" /\ tl[b].whole /\ tl[b].left.stage = "red"
       /\ b < e /\ tl[e].phase = last /\ tl[e].whole /\ tl[e].host = host
       /\ tl[e].found = tl[b].left /\ tl[e].left = DoneTree(tl[b].left.mark)

\* What a row says of itself is so.
RowSays(r) ==
    /\ row[r].loose => Claimed(r)
    /\ row[r].result.pending =>
          r \notin Declines /\ Stopped(told[r], Len(told[r]), row[r].result.mark)
    /\ row[r].result.status = "passed" =>
          IF r \in Declines THEN Declined(told[r])
          ELSE Completed(told[r], "resume", M!ResumeHost(r))
    /\ row[r].cross = "passed" =>
          r \notin Declines /\ Completed(told[r], "cross", M!ResumeHost(r))
\* Nobody owns the row any more, and no agent of its owner is left.
Settled(r) == /\ Claimed(r) /\ (row[r].loose => row[r].previous)
              /\ \A q \in Processes : Owning(tester[q]) => Row(tester[q]) # r
Past(r)    == \/ row[r].result.pending \/ row[r].previous
              \/ \E q \in Processes : Asking(tester[q]) /\ Row(tester[q]) = r

\* Of a command: where it is, and what it does there.
Placed(i) ==
    /\ i.at \in RowPlaces =>
          /\ matrix # M!NoMatrix /\ i.kind \in {"run", "resume"} /\ i.todo # << >>
          /\ \A n \in 1..Len(i.todo) : i.todo[n] \in M!Rows
    /\ i.at \in {"stage", "record"} => i.seen <= on["root"]
    /\ i.at = "record" => on[M!Home] # 0 /\ matrix = M!NoMatrix
    /\ i.at \notin RowPlaces => i.kind \in {"none", "prepare"}
    /\ i.child = "alive" => i.at \in {"watch", "terminate"}
    /\ i.kind = "run" => /\ ~i.result.pending /\ i.result.status \in {"none", "running"}
                         /\ i.at \in {"look", "retire", "claim", "login"} <=> i.phase = "none"
                         /\ i.at \notin {"read", "admit", "move", "copy", "cross", "restored"}
                         /\ i.at = "finish" => i.phase \in {"unsupported", "resume"}
                         /\ \/ i.phase \in {"none", FirstOf(Row(i))}
                            \/ i.phase \in {"implement", "resume"} /\ Row(i) \notin Declines
    /\ i.kind = "resume" => /\ i.host = "own" /\ Row(i) \notin Declines
                            /\ Asking(i) \/ Crossing(i) \/ i.at = "read"
                            /\ i.at # "read" => i.phase = "cross"
Resumer(i) == IF i.host = "own" THEN M!ResumeHost(Row(i)) ELSE i.host
Session(i) == IF i.phase \in {"resume", "cross"} THEN Resumer(i) ELSE M!Home
\* Of a command whose row is in state w, where tl was said: what it has come to.
Grasps(i, w, tl) ==
    LET m == Len(tl)  red == RedTree(i.result.mark) IN
    /\ Owning(i) => FirstOf(Row(i)) \in w.made
    /\ Crossing(i) => w.previous /\ FirstOf(Row(i)) \in w.made
    /\ Asking(i) => Stopped(tl, m, i.result.mark)
    /\ AtWork(i) =>
          /\ w.loose => (i.at = "judge" /\ ~i.clean) \/ (i.at = "seal" /\ ~i.good)
          /\ i.phase = "implement" => Planned(tl, m)
          /\ i.phase \in {"resume", "cross"} => Stopped(tl, m, i.result.mark)
          /\ i.phase = "resume" /\ i.at \in {"phase", "launch"} => w.work = red
          /\ i.phase = "cross" /\ i.at = "launch" => w.work = red
          /\ i.phase \in {"resume", "cross"} /\ i.at \in AtSession \ {"seal"} => i.found = red
          /\ i.at = "finish" /\ i.phase = "unsupported" => Declined(tl)
          /\ i.at = "finish" /\ i.phase = "resume" => Completed(tl, "resume", Resumer(i))
          /\ i.at = "seal" /\ i.good =>
                /\ m # 0 /\ tl[m].phase = i.phase /\ (AsPrepared(Session(i)) => tl[m].whole)
                /\ i.phase = "implement" =>
                      Planned(tl, m - 1) /\ tl[m].left = red /\ w.work = red
                /\ i.phase \in {"resume", "cross"} =>
                      /\ Stopped(tl, m - 1, i.result.mark) /\ tl[m].host = Resumer(i)
                      /\ tl[m].found = red /\ tl[m].left = DoneTree(i.result.mark)
Knows(i)   == /\ Placed(i)
              /\ i.at \in RowPlaces => Grasps(i, row[Row(i)], told[Row(i)])
Parted(i, j) == /\ AtWork(i) /\ AtWork(j) => Row(i) # Row(j)
                /\ i.at = "record" => j.at # "record"
MatrixInv ==
    /\ MatrixTypes /\ Versions
    /\ \A r \in M!Rows : RowSays(r) /\ (Past(r) => Settled(r))
    /\ \A q \in Processes : Knows(tester[q])
    /\ \A q \in Processes, s \in Processes : q # s => Parted(tester[q], tester[s])

LEMMA TesterFacts ==
    ASSUME MatrixInv, NEW k \in Processes
    PROVE  tester[k] \in TestJob /\ Knows(tester[k])
BY DEF MatrixInv, MatrixTypes

LEMMA MatrixRowFacts ==
    ASSUME MatrixInv, NEW r \in M!Rows
    PROVE  /\ row[r] \in RowState /\ told[r] \in Seq(Said)
           /\ RowSays(r) /\ (Past(r) => Settled(r))
           /\ row = [row EXCEPT ![r] = row[r]] /\ told = [told EXCEPT ![r] = told[r]]
BY DEF MatrixInv, MatrixTypes

\* What a command does, and the row it does it to.
LEMMA TesterAtRow ==
    ASSUME MatrixInv, NEW k \in Processes, tester[k].at \in RowPlaces
    PROVE  \E i \in TestJob, r \in M!Rows :
              /\ i = tester[k] /\ r = Row(i) /\ r = M!TheRow(k)
              /\ Placed(i) /\ Grasps(i, row[r], told[r]) /\ matrix # M!NoMatrix
<1>1. PICK i \in TestJob : i = tester[k] /\ Knows(i)
  BY TesterFacts
<1>2. /\ i.at \in RowPlaces /\ i.todo # << >> /\ matrix # M!NoMatrix
      /\ \A n \in 1..Len(i.todo) : i.todo[n] \in M!Rows
  BY <1>1 DEF Knows, Placed
<1>3. PICK t \in Seq(Nat) : t = i.todo
  BY DEF TestJob
<1>4. Head(t) = t[1] /\ 1 \in 1..Len(t)
  BY <1>2, <1>3, HeadTailProperties, EmptySeq
<1>5. Row(i) \in M!Rows
  BY <1>2, <1>3, <1>4 DEF Row
<1> QED  BY <1>1, <1>2, <1>5 DEF Knows, M!TheRow, Row

\* What was said of a row stays said.
LEMMA SaidStays ==
    ASSUME NEW tl \in Seq(Said), NEW e \in Said
    PROVE  /\ Append(tl, e) \in Seq(Said) /\ Len(Append(tl, e)) = Len(tl) + 1
           /\ Append(tl, e)[Len(tl) + 1] = e
           /\ \A n \in 1..Len(tl) : Append(tl, e)[n] = tl[n]
BY AppendProperties

Grown(tl, longer) == /\ Len(tl) <= Len(longer)
                     /\ \A n \in 1..Len(tl) : longer[n] = tl[n]
LEMMA StillStopped ==
    ASSUME NEW tl \in Seq(Said), NEW longer \in Seq(Said), Grown(tl, longer), NEW mark,
           NEW n \in Nat, n <= Len(tl), NEW m \in Nat, n <= m, Stopped(tl, n, mark)
    PROVE  Stopped(longer, m, mark)
<1>1. PICK a \in 1..n, b \in 1..n :
         /\ a < b /\ tl[a].phase = "plan" /\ tl[a].whole
         /\ tl[b].phase = "implement" /\ tl[b].whole /\ tl[b].left = RedTree(mark)
  BY DEF Stopped
<1>2. Len(tl) \in Nat
  BY LenProperties
<1>3. a \in 1..m /\ b \in 1..m /\ longer[a] = tl[a] /\ longer[b] = tl[b]
  BY <1>1, <1>2 DEF Grown
<1> QED  BY <1>1, <1>3 DEF Stopped

LEMMA LooksOnly ==
    ASSUME NEW j, j.kind \in {"none", "prepare"} \/ j.at \in {"look", "read", "retire", "claim", "login"},
           j.kind = "run" => j.phase \notin {"implement", "resume"}
    PROVE  ~AtWork(j) /\ ~Asking(j) /\ \A w, tl : Grasps(j, w, tl) /\ Grasps(j, w, tl)'
BY DEF AtWork, Owning, Crossing, Asking, AtSession, Grasps

Free(r) == \A q \in Processes : AtWork(tester[q]) => Row(tester[q]) # r
\* A command goes on with its row, and nobody else is the worse for it.
LEMMA MatrixSteps ==
    ASSUME MatrixInv, NEW k \in Processes, NEW i \in TestJob, i = tester[k],
           NEW r \in M!Rows, r = Row(i),
           NEW j \in TestJob, tester' = [tester EXCEPT ![k] = j],
           NEW w \in RowState, row' = [row EXCEPT ![r] = w],
           NEW tl \in Seq(Said), told' = [told EXCEPT ![r] = tl], Grown(told[r], tl),
           UNCHANGED <<listed, matrix, on>>,
           Placed(j), j.at # "record", RowSays(r)',
           (Row(j) = r /\ Grasps(j, w, tl)) \/ (\A v, tt : Grasps(j, v, tt)),
           AtWork(j) \/ Asking(j) => Row(j) = r,
           \/ AtWork(i) \/ Free(r)
           \/ /\ w.made = row[r].made /\ w.work = row[r].work /\ w.previous = row[r].previous
              /\ w.loose = row[r].loose /\ tl = told[r] /\ ~AtWork(j),
           row[r].made \subseteq w.made, row[r].previous => w.previous,
           w.loose => w.previous \/ row[r].loose \/ Owning(i),
           Owning(j) => Owning(i) \/ ~Claimed(r),
           w.result.pending \/ w.previous \/ Asking(j) =>
              Settled(r) \/ (Owning(i) /\ ~AtWork(j) /\ ~w.loose)
    PROVE  MatrixInv'
<1>1. /\ \A q \in Processes : tester'[q] = IF q = k THEN j ELSE tester[q]
      /\ \A s \in M!Rows : row'[s] = IF s = r THEN w ELSE row[s]
      /\ \A s \in M!Rows : told'[s] = IF s = r THEN tl ELSE told[s]
      /\ M!Rows' = M!Rows
  BY DEF MatrixInv, MatrixTypes, M!Rows
<1>2. MatrixTypes' /\ Versions'
  BY <1>1 DEF MatrixInv, MatrixTypes, Versions
<1>3. ASSUME NEW q \in Processes, q # k
      PROVE  /\ AtWork(tester[q]) /\ Row(tester[q]) = r =>
                /\ w.made = row[r].made /\ w.work = row[r].work /\ w.previous = row[r].previous
                /\ w.loose = row[r].loose /\ tl = told[r] /\ ~AtWork(j)
             /\ AtWork(i) /\ Row(tester[q]) = r => ~AtWork(tester[q])
  BY <1>3 DEF MatrixInv, Parted, Free
<1>4. ASSUME NEW s \in M!Rows PROVE RowSays(s)' /\ (Past(s)' => Settled(s)')
  <2>1. CASE s = r
    <3>1. ASSUME Past(r)' PROVE Settled(r)'
      <4>1. /\ w.result.pending \/ w.previous \/ Asking(j)
               \/ \E q \in Processes : q # k /\ Asking(tester[q]) /\ Row(tester[q]) = r
        BY <1>1, <3>1, SMTT(30) DEF Past
      <4>2. Settled(r) \/ (Owning(i) /\ ~AtWork(j) /\ ~w.loose)
        BY <4>1, MatrixRowFacts DEF Past
      <4>3. CASE Settled(r)
        <5>1. ~Owning(i) /\ Claimed(r) /\ ~Owning(j)
          BY <4>3 DEF Settled
        <5>2. \A q \in Processes : Owning(tester'[q]) => Row(tester'[q]) # r
          BY <1>1, <4>3, <5>1 DEF Settled
        <5>3. Claimed(r)' /\ (w.loose => w.previous)
          BY <1>1, <4>3, <5>1 DEF Settled, Claimed
        <5>4. row'[r] = w
          BY <1>1, SMTT(30)
        <5> QED  BY <5>2, <5>3, <5>4 DEF Settled, Owning, Row
      <4>4. CASE Owning(i) /\ ~AtWork(j) /\ ~w.loose
        <5>1. AtWork(i) /\ ~Owning(j)
          BY <4>4 DEF AtWork
        <5>2. \A q \in Processes : Owning(tester'[q]) => Row(tester'[q]) # r
          BY <1>1, <1>3, <5>1 DEF AtWork
        <5>3. Claimed(r)
          <6>1. i.at \in RowPlaces /\ Grasps(i, row[r], told[r])
            BY <4>4, TesterFacts DEF Knows, Placed, Owning
          <6> QED  BY <4>4, <6>1 DEF Grasps, Claimed
        <5>4. Claimed(r)'
          BY <1>1, <5>3 DEF Claimed
        <5>5. row'[r] = w
          BY <1>1
        <5> QED  BY <4>4, <5>2, <5>4, <5>5 DEF Settled, Owning, Row
      <4> QED  BY <4>2, <4>3, <4>4
    <3> QED  BY <2>1, <3>1
  <2>2. CASE s # r
    <3>1. UNCHANGED <<row[s], told[s]>> /\ RowSays(s) /\ (Past(s) => Settled(s))
      BY <1>1, <2>2, MatrixRowFacts
    <3>2. RowSays(s)'
      BY <3>1 DEF RowSays, Claimed, M!ResumeHost
    <3>3. Past(s)' => Past(s)
      BY <1>1, <2>2, <3>1 DEF Past
    <3>4. Settled(s) => Settled(s)'
      BY <1>1, <2>2, <3>1 DEF Settled, Claimed, AtWork
    <3> QED  BY <3>1, <3>2, <3>3, <3>4
  <2> QED  BY <2>1, <2>2
<1>5. ASSUME NEW q \in Processes PROVE Knows(tester[q])'
  <2>1. CASE q = k
    <3>1. tester'[q] = j /\ Placed(j)'
      BY <1>1, <2>1, SMTT(30) DEF Placed, Row, FirstOf, Asking, Crossing, M!ResumeHost
    <3>2. Grasps(j, row'[Row(j)], told'[Row(j)])
      BY <1>1, SMTT(30)
    <3>3. Grasps(j, row[Row(j)], told[Row(j)])'
      BY <3>2, ZenonT(40)
      DEF Grasps, AsPrepared, Session, Resumer, M!ResumeHost, Row, AtWork, Owning, Crossing, Asking
    <3> QED  BY <3>1, <3>3 DEF Knows, Row
  <2>2. CASE q # k
    <3>1. PICK u \in TestJob : u = tester[q] /\ Knows(u) /\ tester'[q] = u
      BY <1>1, <2>2, TesterFacts
    <3>2. Placed(u)'
      BY <1>1, <3>1 DEF Knows, Placed, Row, FirstOf, Asking, Crossing, M!ResumeHost
    <3>3. ASSUME u.at \in RowPlaces PROVE Grasps(u, row'[Row(u)], told'[Row(u)])
      <4>1. Row(u) \in M!Rows /\ Grasps(u, row[Row(u)], told[Row(u)])
        BY <3>1, <3>3, TesterAtRow
      <4>2. CASE Row(u) # r
        BY <1>1, <4>1, <4>2
      <4>3. CASE Row(u) = r /\ AtWork(u)
        <5>1. /\ w.made = row[r].made /\ w.work = row[r].work /\ w.previous = row[r].previous
              /\ w.loose = row[r].loose /\ tl = told[r]
          BY <1>3, <2>2, <3>1, <4>3
        <5>2. Grasps(u, w, tl)
          BY <4>1, <4>3, <5>1 DEF Grasps
        <5> QED  BY <1>1, <4>3, <5>2
      <4>4. CASE Row(u) = r /\ ~AtWork(u)
        <5>1. Asking(u) => Stopped(told[r], Len(told[r]), u.result.mark)
          BY <4>1, <4>4 DEF Grasps
        <5>2. told[r] \in Seq(Said) /\ Len(told[r]) \in Nat /\ Len(tl) \in Nat
          BY MatrixRowFacts, LenProperties
        <5>3. ASSUME Asking(u) PROVE Stopped(tl, Len(tl), u.result.mark)
          <6>1. PICK n \in Nat, m \in Nat : n = Len(told[r]) /\ m = Len(tl) /\ n <= m
            BY <5>2, SMTT(30) DEF Grown
          <6>2. Stopped(told[r], n, u.result.mark)
            BY <5>1, <5>3, <6>1
          <6> QED  BY <5>2, <6>1, <6>2, StillStopped
        <5>4. Grasps(u, w, tl)
          BY <4>4, <5>3, SMTT(30) DEF Grasps, AtWork
        <5> QED  BY <1>1, <4>4, <5>4
      <4> QED  BY <4>2, <4>3, <4>4
    <3>4. u.at \in RowPlaces => Grasps(u, row[Row(u)], told[Row(u)])'
      BY <3>3, ZenonT(40)
      DEF Grasps, AsPrepared, Session, Resumer, M!ResumeHost, Row, AtWork, Owning, Crossing, Asking
    <3> QED  BY <3>1, <3>2, <3>4 DEF Knows, Row
  <2> QED  BY <2>1, <2>2
<1>6. ASSUME NEW q \in Processes, NEW s \in Processes, q # s
      PROVE  Parted(tester[q], tester[s])'
  <2>1. Parted(tester[q], tester[s])
    BY <1>6 DEF MatrixInv
  <2>2. ASSUME NEW p \in Processes, p # k PROVE Parted(tester[p], j) /\ Parted(j, tester[p])
    BY <1>3, <2>2 DEF MatrixInv, Parted, Free
  <2>3. Parted(tester'[q], tester'[s])
    BY <1>1, <1>6, <2>1, <2>2
  <2> QED  BY <2>3 DEF Parted, AtWork, Owning, Crossing, Row
<1> QED  BY <1>1, <1>2, <1>4, <1>5, <1>6 DEF MatrixInv

\* A command goes on, and its row stays as it is.
LEMMA MatrixMoves ==
    ASSUME MatrixInv, NEW k \in Processes, NEW i \in TestJob, i = tester[k],
           NEW r \in M!Rows, r = Row(i),
           NEW j \in TestJob, tester' = [tester EXCEPT ![k] = j],
           UNCHANGED <<listed, matrix, on, row, told>>,
           Placed(j), j.at # "record",
           (Row(j) = r /\ Grasps(j, row[r], told[r])) \/ (\A v, tt : Grasps(j, v, tt)),
           AtWork(j) \/ Asking(j) => Row(j) = r,
           AtWork(j) => AtWork(i), Owning(j) => Owning(i), Asking(j) => Asking(i) \/ Past(r)
    PROVE  MatrixInv'
<1>1. PICK w \in RowState, tl \in Seq(Said) :
         /\ w = row[r] /\ tl = told[r] /\ row = [row EXCEPT ![r] = w] /\ told = [told EXCEPT ![r] = tl]
  BY MatrixRowFacts
<1>2. row' = [row EXCEPT ![r] = w] /\ told' = [told EXCEPT ![r] = tl] /\ Grown(told[r], tl)
  <2>1. Len(tl) \in Nat
    BY LenProperties
  <2> QED  BY <1>1, <2>1 DEF Grown
<1>3. RowSays(r)'
  BY MatrixRowFacts DEF RowSays, Claimed, M!ResumeHost
<1>4. w.result.pending \/ w.previous \/ Asking(j) => Settled(r)
  BY <1>1, MatrixRowFacts DEF Past
<1> QED  BY <1>1, <1>2, <1>3, <1>4, MatrixSteps, ZenonT(40)

\* Somebody or something else: the row changes under whoever works on it.
LEMMA MatrixChanges ==
    ASSUME MatrixInv, NEW r \in M!Rows, NEW w \in RowState, row' = [row EXCEPT ![r] = w],
           UNCHANGED <<listed, matrix, on, told, tester>>,
           w.result = row[r].result, w.made = row[r].made, w.previous = row[r].previous,
           w.cross = row[r].cross, w.loose => row[r].loose,
           \A q \in Processes : AtWork(tester[q]) /\ Row(tester[q]) = r =>
                                   Grasps(tester[q], w, told[r])
    PROVE  MatrixInv'
<1>1. /\ \A s \in M!Rows : row'[s] = IF s = r THEN w ELSE row[s]
      /\ M!Rows' = M!Rows
  BY DEF MatrixInv, MatrixTypes, M!Rows
<1>2. MatrixTypes' /\ Versions'
  BY <1>1 DEF MatrixInv, MatrixTypes, Versions
<1>3. ASSUME NEW s \in M!Rows PROVE RowSays(s)' /\ (Past(s)' => Settled(s)')
  <2>1. /\ row'[s].result = row[s].result /\ row'[s].made = row[s].made
        /\ row'[s].previous = row[s].previous /\ row'[s].cross = row[s].cross
        /\ (row'[s].loose => row[s].loose)
    BY <1>1
  <2>2. RowSays(s)'
    BY <2>1, MatrixRowFacts DEF RowSays, Claimed, M!ResumeHost
  <2>3. Past(s)' => Past(s)
    BY <2>1 DEF Past
  <2>4. Settled(s) => Settled(s)'
    BY <2>1 DEF Settled, Claimed
  <2> QED  BY <2>2, <2>3, <2>4, MatrixRowFacts
<1>4. ASSUME NEW q \in Processes PROVE Knows(tester[q])'
  <2>1. PICK u \in TestJob : u = tester[q] /\ Knows(u) /\ tester'[q] = u
    BY TesterFacts
  <2>2. Placed(u)'
    BY <1>1, <2>1 DEF Knows, Placed, Row, FirstOf, Asking, Crossing, M!ResumeHost
  <2>3. ASSUME u.at \in RowPlaces PROVE Grasps(u, row'[Row(u)], told[Row(u)])
    <3>1. Row(u) \in M!Rows /\ Grasps(u, row[Row(u)], told[Row(u)])
      BY <2>1, <2>3, TesterAtRow
    <3>2. CASE Row(u) # r
      BY <1>1, <3>1, <3>2
    <3>3. CASE Row(u) = r /\ AtWork(u)
      BY <1>1, <2>1, <3>3
    <3>4. CASE Row(u) = r /\ ~AtWork(u)
      BY <1>1, <3>1, <3>4 DEF Grasps, AtWork
    <3> QED  BY <3>2, <3>3, <3>4
  <2>4. u.at \in RowPlaces => Grasps(u, row[Row(u)], told[Row(u)])'
    BY <2>3 DEF Grasps, AsPrepared, Session, Resumer, M!ResumeHost, Row, AtWork, Owning, Crossing, Asking
  <2> QED  BY <2>1, <2>2, <2>4 DEF Knows, Row
<1>5. ASSUME NEW q \in Processes, NEW s \in Processes, q # s
      PROVE  Parted(tester[q], tester[s])'
  <2>1. Parted(tester[q], tester[s])
    BY <1>5 DEF MatrixInv
  <2> QED  BY <2>1 DEF Parted, AtWork, Owning, Crossing, Row
<1> QED  BY <1>1, <1>2, <1>3, <1>4, <1>5 DEF MatrixInv

\* Versions grow, and a matrix is made where there was none.
LEMMA MatrixGrows ==
    ASSUME MatrixInv, NEW k \in Processes, NEW j \in TestJob, tester' = [tester EXCEPT ![k] = j],
           UNCHANGED <<listed, row, told>>,
           matrix' \in [package : Nat, tools : Nat], on' \in [M!Items -> Nat], Versions',
           \A h \in M!Items : on[h] <= on'[h], on[M!Home] # 0 => on'[M!Home] # 0,
           UNCHANGED matrix \/ tester[k].at = "record",
           (j = tester[k] /\ UNCHANGED matrix)
              \/ (Placed(j)' /\ ~AtWork(j) /\ ~Asking(j)
                   /\ (j.at = "record" => on[M!Home] = 0) /\ (\A v, tt : Grasps(j, v, tt)')),
           ~AtWork(j) \/ j = tester[k]
    PROVE  MatrixInv'
<1>1. /\ \A q \in Processes : tester'[q] = IF q = k THEN j ELSE tester[q]
      /\ M!Rows' = M!Rows
  BY DEF MatrixInv, MatrixTypes, M!Rows
<1>2. MatrixTypes'
  BY <1>1 DEF MatrixInv, MatrixTypes
<1>3. ASSUME NEW r \in M!Rows PROVE RowSays(r)' /\ (Past(r)' => Settled(r)')
  <2>1. RowSays(r)'
    BY MatrixRowFacts DEF RowSays, Claimed, M!ResumeHost
  <2>2. Past(r)' => Past(r)
    BY <1>1 DEF Past
  <2>3. Settled(r) => Settled(r)'
    BY <1>1 DEF Settled, Claimed, AtWork
  <2> QED  BY <2>1, <2>2, <2>3, MatrixRowFacts
<1>4. ASSUME NEW q \in Processes, q # k \/ (j = tester[k] /\ UNCHANGED matrix)
      PROVE  Knows(tester[q])'
  <2>1. PICK u \in TestJob : u = tester[q] /\ Knows(u) /\ tester'[q] = u
    BY <1>1, <1>4, TesterFacts
  <2>2. UNCHANGED matrix \/ (matrix = M!NoMatrix /\ u.at # "record")
    <3>1. tester[k].at = "record" => matrix = M!NoMatrix
      BY TesterFacts DEF Knows, Placed
    <3>2. q # k /\ tester[k].at = "record" => u.at # "record"
      BY <2>1 DEF MatrixInv, Parted
    <3> QED  BY <1>4, <3>1, <3>2
  <2>3. on["root"] <= on'["root"] /\ on["root"] \in Nat /\ on'["root"] \in Nat
    BY DEF MatrixInv, MatrixTypes, M!Items
  <2>4. Placed(u)'
    <3>1. u.seen \in Nat
      BY DEF TestJob
    <3>2. u.seen <= on["root"] => u.seen <= on'["root"]
      BY <2>3, <3>1
    <3> QED  BY <1>1, <2>1, <2>2, <3>2 DEF Knows, Placed, Row, FirstOf, Asking, Crossing, M!ResumeHost, M!NoMatrix
  <2>5. ASSUME u.at \in RowPlaces PROVE Grasps(u, row[Row(u)], told[Row(u)])'
    <3>1. Grasps(u, row[Row(u)], told[Row(u)]) /\ matrix # M!NoMatrix
      BY <2>1, <2>5, TesterAtRow
    <3>2. UNCHANGED matrix
      BY <2>2, <3>1
    <3>3. ASSUME NEW host \in {M!Home, M!Away} PROVE AsPrepared(host)' => AsPrepared(host)
      <4>1. ASSUME NEW h \in M!Items PROVE on[h] \in Nat /\ on'[h] \in Nat /\ on[h] <= on'[h]
        BY DEF MatrixInv, MatrixTypes
      <4>2. /\ matrix.package \in Nat /\ matrix.tools \in Nat
            /\ \A h \in {"root", M!Home, M!Away} : matrix.package <= on[h]
            /\ matrix.tools <= on["tools"]
        BY <3>1 DEF MatrixInv, MatrixTypes, Versions
      <4>3. {"root", "tools", host} \subseteq M!Items
        BY DEF M!Items
      <4> QED  BY <3>2, <4>1, <4>2, <4>3 DEF AsPrepared
    <3>4. Session(u) \in {M!Home, M!Away}
      BY DEF Session, Resumer, TestJob, HostNames, M!ResumeHost
    <3>5. Session(u)' = Session(u) /\ Resumer(u)' = Resumer(u) /\ Row(u)' = Row(u)
      BY DEF Session, Resumer, M!ResumeHost, Row
    <3>6. AsPrepared(Session(u))' => AsPrepared(Session(u))
      BY <3>3, <3>4, <3>5 DEF AsPrepared
    <3>7. Grasps(u, row[Row(u)], told[Row(u)])
      BY <3>1
    <3> QED  BY <3>5, <3>6, <3>7 DEF Grasps, AtWork, Owning, Crossing, Asking
  <2> QED  BY <2>1, <2>4, <2>5 DEF Knows, Row
<1>5. ASSUME NEW q \in Processes PROVE Knows(tester[q])'
  <2>1. CASE q # k \/ (j = tester[k] /\ UNCHANGED matrix)
    BY <1>4, <2>1, SMTT(30)
  <2>2. CASE q = k /\ Placed(j)' /\ (\A v, tt : Grasps(j, v, tt)')
    <3>1. tester'[q] = j
      BY <1>1, <2>2, SMTT(30)
    <3>2. Grasps(j, row[Row(j)], told[Row(j)])'
      BY <2>2 DEF Grasps, AsPrepared, Session, Resumer, M!ResumeHost, Row, AtWork, Owning, Crossing, Asking
    <3> QED  BY <2>2, <3>1, <3>2, SMTT(30) DEF Knows, Row
  <2> QED  BY <2>1, <2>2
<1>6. ASSUME NEW q \in Processes, NEW s \in Processes, q # s
      PROVE  Parted(tester[q], tester[s])'
  <2>1. Parted(tester[q], tester[s])
    BY <1>6 DEF MatrixInv
  <2>2. ASSUME NEW p \in Processes PROVE tester[p].at = "record" => on[M!Home] # 0
    BY TesterFacts DEF Knows, Placed
  <2>3. ASSUME NEW p \in Processes, p # k PROVE Parted(tester[p], j) /\ Parted(j, tester[p])
    BY <2>2, <2>3 DEF MatrixInv, Parted
  <2>4. Parted(tester'[q], tester'[s])
    BY <1>1, <1>6, <2>1, <2>3
  <2> QED  BY <2>4 DEF Parted, AtWork, Owning, Crossing, Row
<1> QED  BY <1>1, <1>2, <1>3, <1>5, <1>6 DEF MatrixInv

LEMMA NoResultTyped ==
    M!NoResult \in RowResult /\ ~M!NoResult.pending /\ M!NoResult.status = "none" /\ M!NoResult.mark = 0
<1>1. PICK no \in BOOLEAN, none \in {"none"} : no = FALSE /\ none = "none"
  OBVIOUS
<1>2. PICK res : res = [status |-> none, sessions |-> 0, pending |-> no, mark |-> 0]
  OBVIOUS
<1>3. res \in RowResult /\ res.pending = no /\ res.status = none /\ res.mark = 0
  BY <1>1, <1>2 DEF RowResult
<1>4. M!NoResult = res
  BY <1>1, <1>2, Zenon DEF M!NoResult
<1> QED  BY <1>1, <1>3, <1>4

LEMMA TreesTyped == M!Base \in Tree /\ M!Gone \in Tree
BY DEF M!Base, M!Gone, Tree

LEMMA TesterIdle ==
    /\ M!Idle \in TestJob /\ M!Idle.at = "idle" /\ M!Idle.kind = "none" /\ M!Idle.child = "none"
    /\ M!Idle.phase = "none" /\ M!Idle.result = M!NoResult /\ M!Idle.host = "own"
<1>1. PICK idle \in {"idle"}, none \in {"none"}, own \in {"own"}, yes \in BOOLEAN, no \in BOOLEAN :
         idle = "idle" /\ none = "none" /\ own = "own" /\ yes = TRUE /\ no = FALSE
  OBVIOUS
<1>2. PICK base \in Tree, res \in RowResult, empty \in Seq(Nat) :
         base = M!Base /\ res = M!NoResult /\ empty = << >>
  BY TreesTyped, NoResultTyped, EmptySeq
<1>3. PICK j : j = [at |-> idle, kind |-> none, todo |-> empty, host |-> own, phase |-> none,
                    child |-> none, stop |-> none, clean |-> yes, found |-> base,
                    result |-> res, good |-> no, seen |-> 0]
  OBVIOUS
<1>4. /\ j \in TestJob /\ j.at = idle /\ j.kind = none /\ j.child = none /\ j.phase = none
      /\ j.result = res /\ j.host = own
  BY <1>1, <1>2, <1>3 DEF TestJob, RowPlaces, HostNames, Phases
<1>5. M!Idle = j
  BY <1>1, <1>2, <1>3, Zenon DEF M!Idle
<1> QED  BY <1>1, <1>2, <1>4, <1>5

\* Who rests has nothing at a row.
LEMMA RestsSo ==
    ASSUME NEW j, j = M!Idle
    PROVE  /\ Placed(j) /\ Placed(j)' /\ ~AtWork(j) /\ ~Asking(j) /\ ~Owning(j) /\ j.at = "idle"
           /\ \A v, tt : Grasps(j, v, tt) /\ Grasps(j, v, tt)'
<1>1. j.at = "idle" /\ j.kind = "none" /\ j.child = "none"
  BY TesterIdle
<1>2. ~AtWork(j) /\ ~Asking(j) /\ \A v, tt : Grasps(j, v, tt) /\ Grasps(j, v, tt)'
  BY <1>1, LooksOnly
<1>3. j.at \notin RowPlaces
  BY <1>1 DEF RowPlaces
<1>4. Placed(j) /\ Placed(j)'
  BY <1>1, <1>3 DEF Placed
<1> QED  BY <1>1, <1>2, <1>4 DEF AtWork

\* Who goes on with the next row only looks, and rests after the last one.
LEMMA NextRow ==
    ASSUME MatrixInv, NEW k \in Processes, tester[k].at \in RowPlaces, tester[k].kind = "run",
           M!Next(k)
    PROVE  \E j \in TestJob :
              /\ tester' = [tester EXCEPT ![k] = j] /\ Placed(j) /\ ~AtWork(j) /\ ~Asking(j)
              /\ ~Owning(j) /\ j.at \in {"idle", "look"} /\ \A v, tt : Grasps(j, v, tt)
<1>1. PICK i \in TestJob, r \in M!Rows :
         i = tester[k] /\ r = Row(i) /\ Placed(i) /\ matrix # M!NoMatrix
  BY TesterAtRow
<1>2. CASE M!Stop(k)
  BY <1>2, TesterIdle, RestsSo DEF M!Stop
<1>3. CASE Len(tester[k].todo) # 1
  <2>1. PICK t \in Seq(Nat) : t = i.todo /\ t # << >> /\ Len(t) # 1
    BY <1>1, <1>3 DEF TestJob, Placed
  <2>2. PICK n \in Nat \ {0} : n = Len(t) /\ n # 1
    BY <2>1, EmptySeq, LenProperties
  <2>3. PICK rest \in Seq(Nat) : /\ rest = Tail(t) /\ Len(rest) = n - 1
                                 /\ \A x \in 1..(n - 1) : rest[x] = t[x + 1]
    <3>1. /\ Tail(t) \in Seq(Nat) /\ Len(Tail(t)) = Len(t) - 1
          /\ \A x \in 1..Len(Tail(t)) : Tail(t)[x] = t[x + 1]
      BY <2>1, HeadTailProperties
    <3> QED  BY <2>2, <3>1
  <2>4. PICK u \in TestJob : /\ u = M!Idle /\ u.phase = "none" /\ u.child = "none"
                             /\ u.result = M!NoResult
    BY TesterIdle
  <2>5. PICK host \in HostNames : host = i.host
    BY DEF TestJob
  <2>6. PICK run \in {"run"}, look \in {"look"} : run = "run" /\ look = "look"
    OBVIOUS
  <2>7. PICK j : j = [u EXCEPT !.kind = run, !.at = look, !.todo = rest, !.host = host]
    OBVIOUS
  <2>8. tester' = [tester EXCEPT ![k] = j]
    BY <1>1, <1>3, <2>1, <2>3, <2>4, <2>5, <2>6, <2>7 DEF M!Next
  <2>9. /\ j \in TestJob /\ j.kind = "run" /\ j.at = "look" /\ j.todo = rest
        /\ j.phase = "none" /\ j.child = "none" /\ j.result = M!NoResult
    <3>1. /\ look \in RowPlaces \cup {"idle", "identify", "stage", "record"}
          /\ run \in {"none", "prepare", "run", "resume"}
      BY <2>6 DEF RowPlaces
    <3>2. j \in TestJob
      BY <2>4, <2>7, <3>1, ZenonT(40) DEF TestJob
    <3>3. /\ j.kind = run /\ j.at = look /\ j.todo = rest
          /\ j.phase = u.phase /\ j.child = u.child /\ j.result = u.result
      BY <2>4, <2>7, <3>1 DEF TestJob
    <3> QED  BY <2>4, <2>6, <3>2, <3>3
  <2>a. rest # << >> /\ \A x \in 1..Len(rest) : rest[x] \in M!Rows
    <3>1. \A x \in 1..Len(t) : t[x] \in M!Rows
      BY <1>1, <2>1 DEF Placed
    <3>2. \A x \in 1..(n - 1) : x + 1 \in 1..n
      BY <2>2
    <3>3. 1..Len(rest) = 1..(n - 1) /\ 1 \in 1..(n - 1) /\ 1..n = 1..Len(t)
      BY <2>2, <2>3
    <3>4. Len(rest) # 0
      BY <2>2, <2>3
    <3>5. rest # << >>
      BY <3>4, EmptySeq
    <3> QED  BY <2>3, <3>1, <3>2, <3>3, <3>5
  <2>b. Placed(j)
    BY <1>1, <2>9, <2>a, NoResultTyped DEF Placed, RowPlaces
  <2>c. ~AtWork(j) /\ ~Asking(j) /\ \A v, tt : Grasps(j, v, tt) /\ Grasps(j, v, tt)'
    BY <2>9, LooksOnly
  <2> QED  BY <2>8, <2>9, <2>b, <2>c DEF AtWork
<1> QED  BY <1>2, <1>3 DEF M!Next

LEMMA GoesToPlace ==
    ASSUME MatrixInv, NEW k \in Processes,
           NEW place \in RowPlaces \cup {"idle", "identify", "stage", "record"}, M!GoTo(k, place)
    PROVE  \E j \in TestJob :
              /\ tester' = [tester EXCEPT ![k] = j] /\ j.at = place
              /\ j.kind = tester[k].kind /\ j.todo = tester[k].todo /\ j.host = tester[k].host
              /\ j.phase = tester[k].phase /\ j.child = tester[k].child /\ j.stop = tester[k].stop
              /\ j.clean = tester[k].clean /\ j.found = tester[k].found
              /\ j.result = tester[k].result /\ j.good = tester[k].good /\ j.seen = tester[k].seen
<1>1. PICK i \in TestJob : i = tester[k]
  BY TesterFacts
<1>2. PICK j : j = [i EXCEPT !.at = place]
  OBVIOUS
<1>3. tester' = [tester EXCEPT ![k] = j]
  BY <1>1, <1>2 DEF M!GoTo
<1>4. /\ j \in TestJob /\ j.at = place /\ j.kind = i.kind /\ j.todo = i.todo /\ j.host = i.host
      /\ j.phase = i.phase /\ j.child = i.child /\ j.stop = i.stop /\ j.clean = i.clean
      /\ j.found = i.found /\ j.result = i.result /\ j.good = i.good /\ j.seen = i.seen
  BY <1>2 DEF TestJob
<1> QED  BY <1>1, <1>3, <1>4

\* A result that is written is all that changes of its row.
LEMMA ResultBecomes ==
    ASSUME MatrixInv, NEW k \in Processes, NEW r \in M!Rows, r = M!TheRow(k),
           NEW res \in RowResult, M!SetResult(k, res)
    PROVE  \E w \in RowState :
              /\ row' = [row EXCEPT ![r] = w] /\ w.result = res /\ row'[r] = w
              /\ w.made = row[r].made /\ w.work = row[r].work /\ w.previous = row[r].previous
              /\ w.loose = row[r].loose /\ w.cross = row[r].cross
<1>1. PICK v \in RowState : v = row[r]
  BY MatrixRowFacts
<1>2. PICK w : w = [v EXCEPT !.result = res]
  OBVIOUS
<1>3. row' = [row EXCEPT ![r] = w]
  BY <1>1, <1>2 DEF M!SetResult, M!Set, M!Here
<1>4. row'[r] = w
  BY <1>3 DEF MatrixInv, MatrixTypes
<1>5. /\ w \in RowState /\ w.result = res /\ w.made = v.made /\ w.work = v.work
      /\ w.previous = v.previous /\ w.loose = v.loose /\ w.cross = v.cross
  BY <1>2 DEF RowState
<1> QED  BY <1>1, <1>3, <1>4, <1>5

\* A result that claims nothing may be written by anyone.
LEMMA MatrixUnclaims ==
    ASSUME MatrixInv, NEW k \in Processes, NEW i \in TestJob, i = tester[k],
           NEW r \in M!Rows, r = Row(i),
           NEW j \in TestJob, tester' = [tester EXCEPT ![k] = j],
           NEW res \in RowResult, M!SetResult(k, res), ~res.pending, res.status # "passed",
           UNCHANGED <<listed, matrix, on, told>>,
           Placed(j), j.at # "record",
           (Row(j) = r /\ Grasps(j, row[r], told[r])) \/ (\A v, tt : Grasps(j, v, tt)),
           AtWork(j) \/ Asking(j) => Row(j) = r,
           AtWork(j) => AtWork(i), Owning(j) => Owning(i), ~Asking(j)
    PROVE  MatrixInv'
<1>1. r = M!TheRow(k)
  BY DEF M!TheRow, Row
<1>2. PICK w \in RowState :
         /\ row' = [row EXCEPT ![r] = w] /\ w.result = res /\ row'[r] = w
         /\ w.made = row[r].made /\ w.work = row[r].work /\ w.previous = row[r].previous
         /\ w.loose = row[r].loose /\ w.cross = row[r].cross
  BY <1>1, ResultBecomes
<1>3. PICK tl \in Seq(Said) : tl = told[r] /\ told = [told EXCEPT ![r] = tl]
  BY MatrixRowFacts
<1>4. told' = [told EXCEPT ![r] = tl] /\ Grown(told[r], tl)
  <2>1. Len(tl) \in Nat
    BY LenProperties
  <2> QED  BY <1>3, <2>1 DEF Grown
<1>5. RowSays(r)'
  BY <1>2, MatrixRowFacts DEF RowSays, Claimed, M!ResumeHost
<1>6. w.result.pending \/ w.previous \/ Asking(j) => Settled(r)
  BY <1>2, MatrixRowFacts DEF Past
<1>7. Grasps(j, row[r], told[r]) => Grasps(j, w, tl)
  BY <1>2, <1>3 DEF Grasps
<1>8. (Row(j) = r /\ Grasps(j, w, tl)) \/ (\A v, tt : Grasps(j, v, tt))
  BY <1>7
<1>9. \/ AtWork(i) \/ Free(r)
      \/ /\ w.made = row[r].made /\ w.work = row[r].work /\ w.previous = row[r].previous
         /\ w.loose = row[r].loose /\ tl = told[r] /\ ~AtWork(j)
  BY <1>2, <1>3
<1>10. /\ row[r].made \subseteq w.made /\ (row[r].previous => w.previous)
       /\ (w.loose => w.previous \/ row[r].loose \/ Owning(i))
       /\ (Owning(j) => Owning(i) \/ ~Claimed(r))
       /\ (w.result.pending \/ w.previous \/ Asking(j) =>
             Settled(r) \/ (Owning(i) /\ ~AtWork(j) /\ ~w.loose))
  BY <1>2, <1>6
<1> QED  BY <1>2, <1>4, <1>5, <1>6, <1>8, <1>9, <1>10, MatrixSteps, ZenonT(60)

\* Commands that begin, the preparation of a matrix, and whoever rests.
LEMMA OldVersions ==
    ASSUME MatrixInv, UNCHANGED on
    PROVE  /\ on' \in [M!Items -> Nat] /\ \A h \in M!Items : on[h] <= on'[h]
           /\ on[M!Home] # 0 => on'[M!Home] # 0
BY DEF MatrixInv, MatrixTypes

LEMMA MatrixRests ==
    ASSUME MatrixInv, NEW k \in Processes, M!Stop(k), UNCHANGED <<listed, matrix, on, row, told>>
    PROVE  MatrixInv'
<1>1. PICK j \in TestJob : j = M!Idle
  BY TesterIdle
<1>2. /\ Placed(j)' /\ ~AtWork(j) /\ ~Asking(j) /\ j.at = "idle"
      /\ \A v, tt : Grasps(j, v, tt)'
  BY <1>1, RestsSo
<1>3. tester' = [tester EXCEPT ![k] = j]
  BY <1>1 DEF M!Stop
<1>4. Versions' /\ matrix' \in [package : Nat, tools : Nat]
  BY DEF MatrixInv, MatrixTypes, Versions
<1> QED  BY <1>2, <1>3, <1>4, OldVersions, MatrixGrows

LEMMA MatrixBegins ==
    ASSUME MatrixInv, NEW k \in Processes, NEW kind \in {"prepare", "run", "resume"},
           NEW todo \in Seq(Nat), NEW host \in HostNames, M!Begin(k, kind, todo, host),
           kind = "prepare" \/ (todo # << >> /\ \A n \in 1..Len(todo) : todo[n] \in M!Rows),
           kind = "resume" => host = "own" /\ Head(todo) \notin Declines
    PROVE  MatrixInv'
<1>1. PICK u \in TestJob : /\ u = M!Idle /\ u.phase = "none" /\ u.child = "none"
                           /\ u.result = M!NoResult
  BY TesterIdle
<1>2. PICK place \in {"identify", "read", "look"} :
         place = CASE kind = "prepare" -> "identify" [] kind = "resume" -> "read" [] OTHER -> "look"
  OBVIOUS
<1>3. PICK j : j = [u EXCEPT !.kind = kind, !.todo = todo, !.host = host, !.at = place]
  OBVIOUS
<1>4. /\ tester' = [tester EXCEPT ![k] = j] /\ UNCHANGED <<listed, matrix, on, row, told>>
      /\ kind # "prepare" => matrix # M!NoMatrix
  BY <1>1, <1>2, <1>3 DEF M!Begin
<1>5. /\ j \in TestJob /\ j.at = place /\ j.kind = kind /\ j.todo = todo /\ j.host = host
      /\ j.phase = "none" /\ j.child = "none" /\ j.result = M!NoResult
  <2>1. /\ place \in RowPlaces \cup {"idle", "identify", "stage", "record"}
        /\ kind \in {"none", "prepare", "run", "resume"}
    BY <1>2 DEF RowPlaces
  <2> QED  BY <1>1, <1>3, <2>1, ZenonT(40) DEF TestJob
<1>6. /\ kind = "prepare" => place = "identify"
      /\ kind = "resume" => place = "read"
      /\ kind = "run" => place = "look"
  BY <1>2
<1>7. ~AtWork(j) /\ ~Asking(j) /\ \A w, tl : Grasps(j, w, tl) /\ Grasps(j, w, tl)'
  BY <1>5, <1>6, LooksOnly
<1>8. Placed(j)
  BY <1>4, <1>5, <1>6, NoResultTyped DEF Placed, RowPlaces, Row
<1>9. Placed(j)'
  BY <1>4, <1>8 DEF Placed, Row, FirstOf, Asking, Crossing, M!Rows
<1>10. Versions' /\ matrix' \in [package : Nat, tools : Nat]
  BY <1>4 DEF MatrixInv, MatrixTypes, Versions
<1> QED  BY <1>4, <1>5, <1>6, <1>7, <1>9, <1>10, OldVersions, MatrixGrows

LEMMA MatrixCommands ==
    ASSUME MatrixInv, NEW k \in Processes, M!Commands(k)
    PROVE  MatrixInv'
<1>1. PICK own \in HostNames, empty \in Seq(Nat) : own = "own" /\ empty = << >>
  BY EmptySeq DEF HostNames
<1>2. listed \in Seq(Nat) /\ listed # << >> /\ \A n \in 1..Len(listed) : listed[n] \in M!Rows
  BY DEF MatrixInv, MatrixTypes, M!Rows
<1>3. ASSUME NEW r \in M!Rows
      PROVE  /\ <<r>> \in Seq(Nat) /\ <<r>> # << >> /\ Head(<<r>>) = r
             /\ \A n \in 1..Len(<<r>>) : <<r>>[n] \in M!Rows
  <2>1. PICK m \in Nat : m = r
    BY <1>2, ElementOfSeq DEF M!Rows
  <2>2. <<m>> \in Seq(Nat) /\ Len(<<m>>) = 1 /\ <<m>>[1] = m /\ Head(<<m>>) = m
    OBVIOUS
  <2>3. <<m>> # << >>
    BY <2>2, EmptySeq
  <2>4. \A n \in 1..1 : n = 1
    OBVIOUS
  <2> QED  BY <2>1, <2>2, <2>3, <2>4
<1>4. CASE M!Begin(k, "prepare", << >>, "own")
  BY <1>1, <1>4, MatrixBegins
<1>5. ASSUME NEW todo \in {listed} \cup {<<r>> : r \in M!Rows}, NEW host \in ResumeOptions,
             M!Begin(k, "run", todo, host)
      PROVE  MatrixInv'
  <2>1. host \in HostNames
    BY TrialsAssumption DEF HostNames, M!Home, M!Away
  <2>2. todo \in Seq(Nat) /\ todo # << >> /\ \A n \in 1..Len(todo) : todo[n] \in M!Rows
    BY <1>2, <1>3
  <2> QED  BY <1>5, <2>1, <2>2, MatrixBegins
<1>6. ASSUME NEW r \in M!Rows \ Declines, M!Begin(k, "resume", <<r>>, "own")
      PROVE  MatrixInv'
  <2>1. PICK todo \in Seq(Nat) : /\ todo = <<r>> /\ todo # << >> /\ Head(todo) = r
                                 /\ \A n \in 1..Len(todo) : todo[n] \in M!Rows
    BY <1>3
  <2> QED  BY <1>1, <1>6, <2>1, MatrixBegins
<1> QED  BY <1>4, <1>5, <1>6 DEF M!Commands

LEMMA MatrixIdentifies ==
    ASSUME MatrixInv, NEW k \in Processes, M!Identify(k)
    PROVE  MatrixInv'
<1>1. PICK i \in TestJob : i = tester[k] /\ Placed(i) /\ i.at = "identify"
  BY TesterFacts DEF M!Identify, M!At, Knows
<1>2. UNCHANGED <<listed, matrix, on, row, told>>
  BY DEF M!Identify, M!Aside
<1>3. PICK n \in Nat : n = on["root"]
  BY DEF MatrixInv, MatrixTypes, M!Items
<1>4. PICK j : j = [i EXCEPT !.at = "stage", !.seen = n]
  OBVIOUS
<1>5. tester' = [tester EXCEPT ![k] = j]
  BY <1>1, <1>3, <1>4 DEF M!Identify
<1>6. /\ j \in TestJob /\ j.at = "stage" /\ j.kind = i.kind /\ j.seen = n /\ j.child = i.child
  BY <1>4 DEF TestJob
<1>7. i.kind \in {"none", "prepare"} /\ i.child # "alive"
  BY <1>1 DEF Placed, RowPlaces
<1>8. Placed(j)'
  BY <1>2, <1>3, <1>6, <1>7 DEF Placed, RowPlaces
<1>9. ~AtWork(j) /\ ~Asking(j) /\ \A w, tl : Grasps(j, w, tl) /\ Grasps(j, w, tl)'
  BY <1>6, <1>7, LooksOnly
<1>10. Versions' /\ matrix' \in [package : Nat, tools : Nat]
  BY <1>2 DEF MatrixInv, MatrixTypes, Versions
<1> QED  BY <1>2, <1>5, <1>6, <1>8, <1>9, <1>10, OldVersions, MatrixGrows

\* The directory is made once, and as long as it is not there is no matrix.
LEMMA MatrixStages ==
    ASSUME MatrixInv, NEW k \in Processes, M!Stage(k)
    PROVE  MatrixInv'
<1>1. PICK i \in TestJob : i = tester[k] /\ Placed(i) /\ i.at = "stage"
  BY TesterFacts DEF M!Stage, M!At, Knows
<1>2. UNCHANGED <<listed, matrix, row, told>>
  BY DEF M!Stage
<1>3. CASE M!Stop(k) /\ UNCHANGED on
  BY <1>2, <1>3, MatrixRests
<1>4. CASE /\ on[M!Home] = 0 /\ M!GoTo(k, "record")
           /\ on' = [on EXCEPT ![M!Home] = on["root"], ![M!Away] = on["root"]]
  <2>1. PICK j \in TestJob : /\ tester' = [tester EXCEPT ![k] = j] /\ j.at = "record"
                             /\ j.kind = i.kind /\ j.seen = i.seen /\ j.child = i.child
    BY <1>1, <1>4, GoesToPlace
  <2>2. i.kind \in {"none", "prepare"} /\ i.child # "alive" /\ i.seen <= on["root"]
    BY <1>1 DEF Placed, RowPlaces
  <2>3. matrix = M!NoMatrix /\ on[M!Away] = 0 /\ on["root"] # 0
    BY <1>4 DEF MatrixInv, Versions
  <2>4. /\ on' \in [M!Items -> Nat] /\ on'["root"] = on["root"] /\ on'[M!Home] # 0
        /\ \A h \in M!Items : on[h] <= on'[h]
    <3>1. /\ on \in [M!Items -> Nat] /\ {"root", M!Home, M!Away} \subseteq M!Items
          /\ "root" # M!Home /\ "root" # M!Away
      BY DEF MatrixInv, MatrixTypes, M!Items, M!Home, M!Away
    <3>2. PICK n \in Nat : n = on["root"] /\ n # 0
      BY <2>3, <3>1
    <3>3. ASSUME NEW h \in M!Items
          PROVE  on'[h] = IF h = M!Home \/ h = M!Away THEN n ELSE on[h]
      BY <1>4, <3>1, <3>2
    <3>4. \A h \in M!Items : on'[h] \in Nat /\ on[h] <= on'[h]
      BY <1>4, <2>3, <3>1, <3>2, <3>3
    <3>5. on' \in [M!Items -> Nat]
      BY <1>4, <3>1, <3>4
    <3> QED  BY <3>1, <3>2, <3>3, <3>4, <3>5
  <2>5. Versions' /\ matrix' \in [package : Nat, tools : Nat]
    BY <1>2, <2>3, <2>4 DEF MatrixInv, MatrixTypes, Versions, M!NoMatrix
  <2>6. Placed(j)'
    BY <1>2, <2>1, <2>2, <2>3, <2>4 DEF Placed, RowPlaces, M!NoMatrix
  <2>7. ~AtWork(j) /\ ~Asking(j) /\ \A w, tl : Grasps(j, w, tl) /\ Grasps(j, w, tl)'
    BY <2>1, <2>2, LooksOnly
  <2> QED  BY <1>2, <1>4, <2>1, <2>4, <2>5, <2>6, <2>7, MatrixGrows
<1> QED  BY <1>3, <1>4 DEF M!Stage

LEMMA MatrixRecords ==
    ASSUME MatrixInv, NEW k \in Processes, M!RecordMatrix(k)
    PROVE  MatrixInv'
<1>1. PICK i \in TestJob : i = tester[k] /\ Placed(i) /\ i.at = "record"
  BY TesterFacts DEF M!RecordMatrix, M!At, Knows
<1>2. UNCHANGED <<listed, on, row, told>> /\ M!Stop(k)
  BY DEF M!RecordMatrix
<1>3. CASE UNCHANGED matrix
  BY <1>2, <1>3, MatrixRests
<1>4. CASE /\ \A h \in {M!Home, M!Away} : on[h] = i.seen
           /\ matrix' = [package |-> i.seen, tools |-> on["tools"]]
  <2>1. PICK n \in Nat, m \in Nat : n = i.seen /\ m = on["tools"]
    BY DEF TestJob, MatrixInv, MatrixTypes, M!Items
  <2>2. /\ matrix' \in [package : Nat, tools : Nat] /\ matrix'.package = n /\ matrix'.tools = m
    BY <1>4, <2>1
  <2>3. on[M!Home] # 0 /\ n <= on["root"]
    BY <1>1, <2>1 DEF Placed
  <2>4. Versions'
    BY <1>2, <1>4, <2>1, <2>2, <2>3 DEF Versions, MatrixInv
  <2>5. PICK j \in TestJob : j = M!Idle
    BY TesterIdle
  <2>6. /\ Placed(j)' /\ ~AtWork(j) /\ ~Asking(j) /\ j.at = "idle"
        /\ \A v, tt : Grasps(j, v, tt)'
    BY <2>5, RestsSo
  <2>7. tester' = [tester EXCEPT ![k] = j]
    BY <1>2, <2>5 DEF M!Stop
  <2> QED  BY <1>1, <1>2, <2>2, <2>4, <2>6, <2>7, OldVersions, MatrixGrows
<1> QED  BY <1>1, <1>3, <1>4 DEF M!RecordMatrix

\* An agent at work has its command at its session.
LEMMA AliveHolds ==
    ASSUME MatrixInv, NEW k \in Processes, tester[k].child = "alive"
    PROVE  tester[k].at \in {"watch", "terminate"} /\ AtWork(tester[k])
<1>1. PICK i \in TestJob : i = tester[k] /\ Placed(i) /\ i.child = "alive"
  BY TesterFacts DEF Knows
<1>2. i.at \in {"watch", "terminate"} /\ i.kind \in {"run", "resume"}
  BY <1>1 DEF Placed, RowPlaces
<1>3. CASE i.kind = "run"
  <2>1. i.phase # "none" /\ i.phase \in {"none", FirstOf(Row(i)), "implement", "resume"}
    BY <1>1, <1>2, <1>3 DEF Placed
  <2> QED  BY <1>1, <1>2, <1>3, <2>1 DEF AtWork, Owning, FirstOf, AtSession
<1>4. CASE i.kind = "resume"
  BY <1>1, <1>2, <1>4 DEF AtWork, Crossing, AtSession
<1> QED  BY <1>1, <1>2, <1>3, <1>4

LEMMA MatrixKills ==
    ASSUME MatrixInv, NEW k \in Processes, M!Kill(k)
    PROVE  MatrixInv'
<1>1. UNCHANGED <<listed, matrix, on, told>> /\ M!Stop(k)
  BY DEF M!Kill
<1>2. CASE UNCHANGED row
  BY <1>1, <1>2, MatrixRests
<1>3. CASE tester[k].child = "alive" /\ M!Set(k, [M!Here(k) EXCEPT !.loose = TRUE])
  <2>1. tester[k].at \in RowPlaces /\ AtWork(tester[k])
    BY <1>3, AliveHolds DEF RowPlaces
  <2>2. PICK i \in TestJob, r \in M!Rows :
           /\ i = tester[k] /\ r = Row(i) /\ r = M!TheRow(k)
           /\ Grasps(i, row[r], told[r])
    BY <2>1, TesterAtRow
  <2>3. PICK j \in TestJob : j = M!Idle
    BY TesterIdle
  <2>4. /\ Placed(j) /\ ~AtWork(j) /\ ~Asking(j) /\ ~Owning(j) /\ j.at = "idle"
        /\ \A v, tt : Grasps(j, v, tt)
    BY <2>3, RestsSo
  <2>5. PICK v \in RowState, tl \in Seq(Said) :
           v = row[r] /\ tl = told[r] /\ told = [told EXCEPT ![r] = tl]
    BY MatrixRowFacts
  <2>6. PICK yes \in BOOLEAN : yes = TRUE
    OBVIOUS
  <2>7. PICK w : w = [v EXCEPT !.loose = yes]
    OBVIOUS
  <2>8. /\ w \in RowState /\ w.result = v.result /\ w.made = v.made /\ w.work = v.work
        /\ w.previous = v.previous /\ w.cross = v.cross
    BY <2>7 DEF RowState
  <2>9. row' = [row EXCEPT ![r] = w]
    BY <1>3, <2>2, <2>5, <2>6, <2>7 DEF M!Set, M!Here
  <2>a. row'[r] = w
    BY <2>9 DEF MatrixInv, MatrixTypes
  <2>b. /\ FirstOf(r) \in v.made /\ (Owning(i) \/ v.previous)
    BY <2>1, <2>2, <2>5 DEF Grasps, AtWork
  <2>c. told' = [told EXCEPT ![r] = tl] /\ Grown(told[r], tl)
    <3>1. Len(tl) \in Nat
      BY LenProperties
    <3> QED  BY <1>1, <2>5, <3>1 DEF Grown
  <2>d. RowSays(r)'
    BY <1>1, <2>5, <2>8, <2>a, <2>b, MatrixRowFacts DEF RowSays, Claimed, M!ResumeHost
  <2>e. w.result.pending \/ w.previous \/ Asking(j) => Settled(r)
    BY <2>4, <2>5, <2>8, MatrixRowFacts DEF Past
  <2>f. /\ row[r].made \subseteq w.made /\ (row[r].previous => w.previous)
        /\ (w.loose => w.previous \/ row[r].loose \/ Owning(i)) /\ AtWork(i)
    BY <2>1, <2>2, <2>5, <2>8, <2>b
  <2> QED  BY <1>1, <2>2, <2>3, <2>4, <2>8, <2>9, <2>c, <2>d, <2>e, <2>f, MatrixSteps DEF M!Stop
<1> QED  BY <1>2, <1>3 DEF M!Kill

-----------------------------------------------------------------------------
\* What agents, the user and the system do to rows and versions.
LEMMA MatrixEnds ==
    ASSUME MatrixInv, NEW k \in Processes, M!Ends(k)
    PROVE  MatrixInv'
<1>1. tester[k].at = "watch" /\ UNCHANGED <<listed, matrix, on, row, told>>
  BY DEF M!Ends, M!At, M!Aside
<1>2. PICK i \in TestJob, r \in M!Rows :
         i = tester[k] /\ r = Row(i) /\ Placed(i) /\ Grasps(i, row[r], told[r])
  BY <1>1, TesterAtRow DEF RowPlaces
<1>3. PICK code \in {"zero", "bad"} : tester' = [tester EXCEPT ![k].child = code]
  BY DEF M!Ends
<1>4. PICK j : j = [i EXCEPT !.child = code]
  OBVIOUS
<1>5. tester' = [tester EXCEPT ![k] = j]
  BY <1>2, <1>3, <1>4
<1>6. /\ j \in TestJob /\ j.at = i.at /\ j.kind = i.kind /\ j.todo = i.todo /\ j.host = i.host
      /\ j.phase = i.phase /\ j.child = code /\ j.clean = i.clean /\ j.found = i.found
      /\ j.result = i.result /\ j.good = i.good /\ j.seen = i.seen
  BY <1>3, <1>4 DEF TestJob
<1>7. /\ Row(j) = r /\ Owning(j) = Owning(i) /\ Crossing(j) = Crossing(i) /\ Asking(j) = Asking(i)
      /\ Resumer(j) = Resumer(i) /\ Session(j) = Session(i)
  BY <1>2, <1>6 DEF Row, Owning, Crossing, Asking, Resumer, Session
<1>8. Placed(j)
  BY <1>1, <1>2, <1>3, <1>6, <1>7 DEF Placed
<1>9. Grasps(j, row[r], told[r]) /\ (AtWork(j) => AtWork(i))
  BY <1>2, <1>6, <1>7 DEF Grasps, AtWork
<1> QED  BY <1>1, <1>2, <1>5, <1>6, <1>7, <1>8, <1>9, MatrixMoves

\* An agent changes only the tree that nobody counts on yet.
LEMMA MatrixWorks ==
    ASSUME MatrixInv, NEW r \in M!Rows, M!Works(r)
    PROVE  MatrixInv'
<1>1. UNCHANGED <<listed, matrix, on, told, tester>>
  BY DEF M!Works, M!Aside
<1>2. PICK v \in RowState : v = row[r]
  BY MatrixRowFacts
<1>3. PICK tree : /\ tree \in IF r \in Declines THEN {M!Spoilt} ELSE M!Trees(v.work)
                  /\ row' = [row EXCEPT ![r].work = tree]
  BY <1>2 DEF M!Works
<1>4. tree \in Tree
  <2>1. v.work.mark \in Nat
    BY DEF RowState, Tree
  <2>2. M!Spoilt \in Tree
    BY DEF M!Spoilt, Tree
  <2>3. M!Trees(v.work) \subseteq Tree
    BY <2>1 DEF M!Trees, Tree
  <2> QED  BY <1>3, <2>2, <2>3
<1>5. PICK w : w = [v EXCEPT !.work = tree]
  OBVIOUS
<1>6. row' = [row EXCEPT ![r] = w]
  BY <1>2, <1>3, <1>5
<1>7. /\ w \in RowState /\ w.result = v.result /\ w.made = v.made /\ w.previous = v.previous
      /\ w.cross = v.cross /\ w.loose = v.loose
  BY <1>4, <1>5 DEF RowState
<1>8. ASSUME NEW q \in Processes, AtWork(tester[q]), Row(tester[q]) = r
      PROVE  Grasps(tester[q], w, told[r])
  <2>1. PICK u \in TestJob : u = tester[q] /\ Placed(u) /\ (u.at \in RowPlaces => Grasps(u, v, told[r]))
    BY <1>2, <1>8, TesterFacts DEF Knows
  <2>2. u.at \in RowPlaces /\ Grasps(u, v, told[r])
    BY <1>8, <2>1 DEF Placed, AtWork, Owning, Crossing
  <2>3. v.loose \/ u.at \in {"watch", "terminate"}
    <3>1. ASSUME NEW s \in Processes, tester[s].child = "alive", M!TheRow(s) = r
          PROVE  u.at \in {"watch", "terminate"}
      <4>1. tester[s].at \in {"watch", "terminate"} /\ AtWork(tester[s]) /\ Row(tester[s]) = r
        BY <3>1, AliveHolds DEF M!TheRow, Row
      <4> QED  BY <1>8, <2>1, <4>1 DEF MatrixInv, Parted
    <3> QED  BY <1>2, <3>1 DEF M!Works
  <2>4. u.at \in {"watch", "terminate"} \/ (u.at = "judge" /\ ~u.clean) \/ (u.at = "seal" /\ ~u.good)
    BY <1>8, <2>1, <2>2, <2>3 DEF Grasps
  <2>5. Grasps(u, w, told[r])
    BY <1>7, <2>2, <2>4 DEF Grasps
  <2> QED  BY <2>1, <2>5
<1> QED  BY <1>1, <1>2, <1>6, <1>7, <1>8, MatrixChanges, ZenonT(60)

\* Changes of a row that nobody's knowledge is about.
LEMMA MatrixLeaves ==
    ASSUME MatrixInv, NEW r \in M!Rows, NEW w \in RowState, row' = [row EXCEPT ![r] = w],
           UNCHANGED <<listed, matrix, on, told, tester>>,
           w.result = row[r].result, w.made = row[r].made, w.previous = row[r].previous,
           w.cross = row[r].cross, w.loose => row[r].loose, w.work = row[r].work
    PROVE  MatrixInv'
<1>1. ASSUME NEW q \in Processes, AtWork(tester[q]), Row(tester[q]) = r
      PROVE  Grasps(tester[q], w, told[r])
  <2>1. PICK u \in TestJob : /\ u = tester[q] /\ Placed(u)
                             /\ u.at \in RowPlaces => Grasps(u, row[r], told[r])
    BY <1>1, TesterFacts DEF Knows
  <2>2. u.at \in RowPlaces /\ Grasps(u, row[r], told[r])
    BY <1>1, <2>1 DEF Placed, AtWork, Owning, Crossing
  <2>3. Grasps(u, w, told[r])
    BY <2>2 DEF Grasps
  <2> QED  BY <2>1, <2>3
<1> QED  BY <1>1, MatrixChanges

LEMMA MatrixLooseEnds ==
    ASSUME MatrixInv, NEW r \in M!Rows, M!LooseEnds(r)
    PROVE  MatrixInv'
<1>1. UNCHANGED <<listed, matrix, on, told, tester>>
  BY DEF M!LooseEnds, M!Aside
<1>2. PICK v \in RowState : v = row[r]
  BY MatrixRowFacts
<1>3. PICK no \in BOOLEAN : no = FALSE
  OBVIOUS
<1>4. PICK w : w = [v EXCEPT !.loose = no]
  OBVIOUS
<1>5. row' = [row EXCEPT ![r] = w]
  BY <1>2, <1>3, <1>4 DEF M!LooseEnds
<1>6. /\ w \in RowState /\ w.result = v.result /\ w.made = v.made /\ w.previous = v.previous
      /\ w.cross = v.cross /\ w.loose = no /\ w.work = v.work
  BY <1>4 DEF RowState
<1> QED  BY <1>1, <1>2, <1>3, <1>5, <1>6, MatrixLeaves

LEMMA MatrixDrifts ==
    ASSUME MatrixInv, M!Drift
    PROVE  MatrixInv'
<1>1. UNCHANGED <<listed, matrix, told, tester>>
  BY DEF M!Drift
<1>2. ASSUME NEW x \in M!Items, on[x] # 0, on' = [on EXCEPT ![x] = @ + 1], UNCHANGED row
      PROVE  MatrixInv'
  <2>1. /\ on' \in [M!Items -> Nat] /\ \A h \in M!Items : on[h] <= on'[h]
        /\ \A h \in M!Items : on[h] \in Nat /\ (on[h] = 0 <=> on'[h] = 0)
    BY <1>2 DEF MatrixInv, MatrixTypes
  <2>2. {"root", M!Home, M!Away, "tools"} \subseteq M!Items
    BY DEF M!Items
  <2>3. Versions'
    <3>1. matrix.package \in Nat /\ matrix.tools \in Nat
      BY DEF MatrixInv, MatrixTypes
    <3>2. \A h \in M!Items, n \in Nat : n <= on[h] => n <= on'[h]
      BY <2>1
    <3>3. M!NoMatrix' = M!NoMatrix
      BY DEF M!NoMatrix
    <3> QED  BY <1>1, <2>1, <2>2, <3>1, <3>2, <3>3 DEF Versions, MatrixInv
  <2>4. matrix' \in [package : Nat, tools : Nat]
    BY <1>1 DEF MatrixInv, MatrixTypes
  <2>5. CASE \E k \in Processes : TRUE
    <3>1. PICK k \in Processes : TRUE
      BY <2>5
    <3>2. PICK j \in TestJob : j = tester[k]
      BY TesterFacts
    <3>3. tester' = [tester EXCEPT ![k] = j]
      BY <1>1, <3>2 DEF MatrixInv, MatrixTypes
    <3>4. on[M!Home] # 0 => on'[M!Home] # 0
      BY <2>1, <2>2
    <3> QED  BY <1>1, <1>2, <2>1, <2>3, <2>4, <3>2, <3>3, <3>4, MatrixGrows
  <2>6. CASE Processes = {}
    <3>1. ASSUME NEW r \in M!Rows PROVE RowSays(r)' /\ (Past(r)' => Settled(r)')
      <4>1. RowSays(r)'
        BY <1>1, <1>2, MatrixRowFacts DEF RowSays, Claimed, M!ResumeHost
      <4>2. (Past(r)' => Past(r)) /\ (Settled(r) => Settled(r)')
        BY <1>1, <1>2, <2>6 DEF Past, Settled, Claimed
      <4> QED  BY <4>1, <4>2, MatrixRowFacts
    <3>2. M!Rows' = M!Rows
      BY <1>1 DEF M!Rows
    <3>3. MatrixTypes'
      BY <1>1, <1>2, <2>1, <3>2 DEF MatrixInv, MatrixTypes
    <3> QED  BY <2>3, <2>6, <3>1, <3>2, <3>3 DEF MatrixInv
  <2> QED  BY <2>5, <2>6
<1>3. ASSUME NEW r \in M!Rows, row' = [row EXCEPT ![r].point.stage = "other"], UNCHANGED on
      PROVE  MatrixInv'
  <2>1. PICK v \in RowState : v = row[r]
    BY MatrixRowFacts
  <2>2. PICK tree : tree = [v.point EXCEPT !.stage = "other"]
    OBVIOUS
  <2>3. tree \in Tree
    BY <2>2 DEF RowState, Tree
  <2>4. PICK w : w = [v EXCEPT !.point = tree]
    OBVIOUS
  <2>5. row' = [row EXCEPT ![r] = w]
    BY <1>3, <2>1, <2>2, <2>4
  <2>6. /\ w \in RowState /\ w.result = v.result /\ w.made = v.made /\ w.previous = v.previous
        /\ w.cross = v.cross /\ w.loose = v.loose /\ w.work = v.work
    BY <2>3, <2>4 DEF RowState
  <2> QED  BY <1>1, <1>3, <2>1, <2>5, <2>6, MatrixLeaves
<1> QED  BY <1>2, <1>3 DEF M!Drift

-----------------------------------------------------------------------------
\* run, as long as the row is not taken: anyone may be here, and claims nothing.
LEMMA RunFacts ==
    ASSUME MatrixInv, NEW k \in Processes, tester[k].at \in {"look", "retire", "claim", "login"}
    PROVE  \E i \in TestJob, r \in M!Rows :
              /\ i = tester[k] /\ r = Row(i) /\ r = M!TheRow(k) /\ Placed(i)
              /\ i.kind = "run" /\ i.phase = "none" /\ i.child # "alive"
              /\ ~AtWork(i) /\ ~Owning(i) /\ ~Asking(i) /\ i.at \in RowPlaces
<1>1. PICK i \in TestJob, r \in M!Rows :
         i = tester[k] /\ r = Row(i) /\ r = M!TheRow(k) /\ Placed(i)
  BY TesterAtRow DEF RowPlaces
<1>2. i.kind = "run" /\ i.phase = "none" /\ i.child # "alive" /\ i.at \in RowPlaces
  BY <1>1 DEF Placed, RowPlaces, Asking, Crossing, AtSession
<1>3. ~AtWork(i) /\ ~Asking(i)
  BY <1>1, <1>2, LooksOnly
<1> QED  BY <1>1, <1>2, <1>3 DEF AtWork

LEMMA RunGoesTo ==
    ASSUME MatrixInv, NEW k \in Processes, tester[k].at \in {"look", "retire", "claim", "login"},
           NEW place \in {"retire", "claim", "login"}, M!GoTo(k, place)
    PROVE  \E j \in TestJob :
              /\ tester' = [tester EXCEPT ![k] = j] /\ Placed(j) /\ ~AtWork(j) /\ ~Asking(j)
              /\ ~Owning(j) /\ j.at # "record" /\ \A w, tl : Grasps(j, w, tl)
<1>1. PICK i \in TestJob, r \in M!Rows :
         /\ i = tester[k] /\ r = Row(i) /\ r = M!TheRow(k) /\ Placed(i)
         /\ i.kind = "run" /\ i.phase = "none" /\ i.child # "alive" /\ i.at \in RowPlaces
  BY RunFacts
<1>2. PICK j \in TestJob : /\ tester' = [tester EXCEPT ![k] = j] /\ j.at = place
                           /\ j.kind = i.kind /\ j.todo = i.todo /\ j.host = i.host
                           /\ j.phase = i.phase /\ j.child = i.child /\ j.result = i.result
  <2>1. place \in RowPlaces \cup {"idle", "identify", "stage", "record"}
    BY DEF RowPlaces
  <2> QED  BY <1>1, <2>1, GoesToPlace
<1>3. Placed(j)
  BY <1>1, <1>2 DEF Placed, RowPlaces, Row
<1>4. ~AtWork(j) /\ ~Asking(j) /\ \A w, tl : Grasps(j, w, tl) /\ Grasps(j, w, tl)'
  BY <1>1, <1>2, LooksOnly
<1> QED  BY <1>2, <1>3, <1>4 DEF AtWork

LEMMA MatrixLooks ==
    ASSUME MatrixInv, NEW k \in Processes, M!Look(k)
    PROVE  MatrixInv'
<1>1. tester[k].at = "look" /\ UNCHANGED <<listed, matrix, on, row, told>>
  BY DEF M!Look, M!At, M!Aside
<1>2. PICK i \in TestJob, r \in M!Rows :
         i = tester[k] /\ r = Row(i) /\ i.kind = "run" /\ i.at \in RowPlaces
  BY <1>1, RunFacts
<1>3. ASSUME NEW place \in {"claim", "retire"}, M!GoTo(k, place) PROVE MatrixInv'
  <2>1. PICK j \in TestJob :
           /\ tester' = [tester EXCEPT ![k] = j] /\ Placed(j) /\ ~AtWork(j) /\ ~Asking(j)
           /\ ~Owning(j) /\ j.at # "record" /\ \A w, tl : Grasps(j, w, tl)
    BY <1>1, <1>3, RunGoesTo
  <2> QED  BY <1>1, <1>2, <2>1, MatrixMoves
<1>4. CASE M!Stop(k)
  BY <1>1, <1>4, MatrixRests
<1>5. CASE M!Next(k)
  <2>1. PICK j \in TestJob :
           /\ tester' = [tester EXCEPT ![k] = j] /\ Placed(j) /\ ~AtWork(j) /\ ~Asking(j)
           /\ ~Owning(j) /\ j.at \in {"idle", "look"} /\ \A v, tt : Grasps(j, v, tt)
    BY <1>2, <1>5, NextRow
  <2>2. j.at # "record"
    BY <2>1
  <2> QED  BY <1>1, <1>2, <2>1, <2>2, MatrixMoves
<1>6. \/ \E place \in {"claim", "retire"} : M!GoTo(k, place)
      \/ M!Stop(k) \/ M!Next(k)
  BY DEF M!Look
<1> QED  BY <1>3, <1>4, <1>5, <1>6

LEMMA MatrixRetires ==
    ASSUME MatrixInv, NEW k \in Processes, M!Retire(k)
    PROVE  MatrixInv'
<1>1. tester[k].at = "retire" /\ UNCHANGED <<listed, matrix, on, told>>
  BY DEF M!Retire, M!At, M!Aside
<1>2. PICK i \in TestJob, r \in M!Rows : i = tester[k] /\ r = Row(i)
  BY <1>1, RunFacts
<1>3. CASE M!Stop(k) /\ UNCHANGED row
  BY <1>1, <1>3, MatrixRests
<1>4. CASE M!GoTo(k, "claim") /\ M!SetResult(k, M!NoResult)
  <2>1. PICK j \in TestJob :
           /\ tester' = [tester EXCEPT ![k] = j] /\ Placed(j) /\ ~AtWork(j) /\ ~Asking(j)
           /\ ~Owning(j) /\ j.at # "record" /\ \A w, tl : Grasps(j, w, tl)
    BY <1>1, <1>4, RunGoesTo
  <2>2. PICK res \in RowResult : res = M!NoResult /\ ~res.pending /\ res.status # "passed"
    BY NoResultTyped
  <2> QED  BY <1>1, <1>2, <1>4, <2>1, <2>2, MatrixUnclaims
<1> QED  BY <1>3, <1>4 DEF M!Retire

\* A result that says of itself only how far it is.
LEMMA OtherResult ==
    ASSUME NEW res \in RowResult, ~res.pending, NEW status \in {"running", "blocked", "failed"}
    PROVE  /\ [res EXCEPT !.status = status] \in RowResult
           /\ ~[res EXCEPT !.status = status].pending
           /\ [res EXCEPT !.status = status].status # "passed"
BY DEF RowResult

LEMMA MatrixClaims ==
    ASSUME MatrixInv, NEW k \in Processes, M!Claim(k)
    PROVE  MatrixInv'
<1>1. tester[k].at = "claim" /\ UNCHANGED <<listed, matrix, on, told>>
  BY DEF M!Claim, M!At, M!Aside
<1>2. PICK i \in TestJob, r \in M!Rows : i = tester[k] /\ r = Row(i)
  BY <1>1, RunFacts
<1>3. PICK j \in TestJob :
         /\ tester' = [tester EXCEPT ![k] = j] /\ Placed(j) /\ ~AtWork(j) /\ ~Asking(j)
         /\ ~Owning(j) /\ j.at # "record" /\ \A w, tl : Grasps(j, w, tl)
  BY <1>1, RunGoesTo DEF M!Claim
<1>4. PICK res \in RowResult : /\ M!SetResult(k, res) /\ ~res.pending /\ res.status # "passed"
  BY NoResultTyped, OtherResult DEF M!Claim
<1> QED  BY <1>1, <1>2, <1>3, <1>4, MatrixUnclaims

LEMMA MatrixSignsIn ==
    ASSUME MatrixInv, NEW k \in Processes, M!SignIn(k)
    PROVE  MatrixInv'
<1>1. tester[k].at = "login" /\ UNCHANGED <<listed, matrix, on, told>>
  BY DEF M!SignIn, M!At, M!Aside
<1>2. PICK i \in TestJob, r \in M!Rows :
         /\ i = tester[k] /\ r = Row(i) /\ r = M!TheRow(k) /\ Placed(i)
         /\ i.kind = "run" /\ i.phase = "none" /\ i.child # "alive" /\ i.at \in RowPlaces
  BY <1>1, RunFacts
<1>3. CASE M!Stop(k) /\ M!SetResult(k, [M!NoResult EXCEPT !.status = "blocked"])
  <2>1. PICK res \in RowResult : /\ M!SetResult(k, res) /\ ~res.pending /\ res.status # "passed"
    BY <1>3, NoResultTyped, OtherResult
  <2>2. PICK j \in TestJob : j = M!Idle
    BY TesterIdle
  <2>3. /\ Placed(j) /\ ~AtWork(j) /\ ~Asking(j) /\ ~Owning(j) /\ j.at = "idle"
        /\ \A v, tt : Grasps(j, v, tt)
    BY <2>2, RestsSo
  <2>4. tester' = [tester EXCEPT ![k] = j]
    BY <1>3, <2>2 DEF M!Stop
  <2> QED  BY <1>1, <1>2, <2>1, <2>3, <2>4, MatrixUnclaims
<1>4. CASE /\ UNCHANGED row
           /\ tester' = [tester EXCEPT ![k].at = IF M!ToolsUnchanged THEN "phase" ELSE "fail",
                           ![k].phase = IF M!TheRow(k) \in Declines THEN "unsupported" ELSE "plan",
                           ![k].result.status = "running"]
  <2>1. PICK place \in {"phase", "fail"} : place = IF M!ToolsUnchanged THEN "phase" ELSE "fail"
    OBVIOUS
  <2>2. PICK phase \in {"unsupported", "plan"} : phase = FirstOf(r)
    BY DEF FirstOf
  <2>3. PICK old \in RowResult : old = i.result /\ ~old.pending
    BY <1>2 DEF TestJob, Placed
  <2>4. PICK res : res = [old EXCEPT !.status = "running"]
    OBVIOUS
  <2>5. res \in RowResult /\ ~res.pending /\ res.status = "running"
    BY <2>3, <2>4 DEF RowResult
  <2>6. PICK j : j = [i EXCEPT !.at = place, !.phase = phase, !.result = res]
    OBVIOUS
  <2>7. tester' = [tester EXCEPT ![k] = j]
    <3>1. tester' = [tester EXCEPT ![k].at = place, ![k].phase = phase,
                                   ![k].result.status = "running"]
      BY <1>2, <1>4, <2>1, <2>2, Zenon DEF FirstOf
    <3> QED  BY <1>2, <2>3, <2>4, <2>6, <3>1
  <2>8. /\ j \in TestJob /\ j.at = place /\ j.kind = i.kind /\ j.todo = i.todo
        /\ j.phase = phase /\ j.child = i.child /\ j.result = res
    <3>1. place \in RowPlaces \cup {"idle", "identify", "stage", "record"} /\ phase \in Phases
      BY <2>1, <2>2 DEF RowPlaces, Phases
    <3> QED  BY <2>5, <2>6, <3>1 DEF TestJob
  <2>9. Row(j) = r
    BY <1>2, <2>8 DEF Row
  <2>a. ~AtWork(j) /\ ~Asking(j) /\ ~Owning(j)
    BY <1>2, <2>1, <2>2, <2>8 DEF AtWork, Owning, Crossing, Asking, AtSession
  <2>b. Grasps(j, row[r], told[r])
    BY <2>a DEF Grasps, AtWork
  <2>c. Placed(j)
    BY <1>2, <2>1, <2>2, <2>5, <2>8, <2>9 DEF Placed, RowPlaces
  <2>d. j.at # "record"
    BY <2>1, <2>8
  <2> QED  BY <1>1, <1>2, <1>4, <2>7, <2>8, <2>9, <2>a, <2>b, <2>c, <2>d, MatrixMoves
<1> QED  BY <1>3, <1>4 DEF M!SignIn

LEMMA MatrixPhases ==
    ASSUME MatrixInv, NEW k \in Processes, M!Phase(k)
    PROVE  MatrixInv'
<1>1. tester[k].at = "phase" /\ UNCHANGED <<listed, matrix, on, row, told>>
  BY DEF M!Phase, M!At, M!Aside
<1>2. PICK i \in TestJob, r \in M!Rows :
         i = tester[k] /\ r = Row(i) /\ Placed(i) /\ Grasps(i, row[r], told[r])
  BY <1>1, TesterAtRow DEF RowPlaces
<1>3. PICK place \in {"launch", "fail"} : M!GoTo(k, place)
  BY DEF M!Phase
<1>4. PICK j \in TestJob :
         /\ tester' = [tester EXCEPT ![k] = j] /\ j.at = place
         /\ j.kind = i.kind /\ j.todo = i.todo /\ j.host = i.host /\ j.phase = i.phase
         /\ j.child = i.child /\ j.clean = i.clean /\ j.found = i.found /\ j.result = i.result
         /\ j.good = i.good /\ j.seen = i.seen
  <2>1. place \in RowPlaces \cup {"idle", "identify", "stage", "record"}
    BY DEF RowPlaces
  <2> QED  BY <1>2, <1>3, <2>1, GoesToPlace
<1>5. i.kind = "run" /\ i.phase # "none" /\ i.phase # "cross"
  BY <1>1, <1>2 DEF Placed, RowPlaces, Asking, Crossing, AtSession, FirstOf
<1>6. /\ Row(j) = r /\ Owning(j) = Owning(i) /\ ~Crossing(j) /\ ~Crossing(i) /\ ~Asking(j)
      /\ Resumer(j) = Resumer(i) /\ Session(j) = Session(i)
  BY <1>1, <1>2, <1>4, <1>5 DEF Row, Owning, Crossing, Asking, Resumer, Session, AtSession
<1>7. Placed(j)
  BY <1>1, <1>2, <1>4, <1>5, <1>6 DEF Placed, RowPlaces
<1>8. Grasps(j, row[r], told[r]) /\ (AtWork(j) => AtWork(i)) /\ j.at # "record"
  BY <1>1, <1>2, <1>4, <1>5, <1>6 DEF Grasps, AtWork, AtSession
<1> QED  BY <1>1, <1>2, <1>4, <1>6, <1>7, <1>8, MatrixMoves

LEMMA MatrixFails ==
    ASSUME MatrixInv, NEW k \in Processes, M!Fail(k)
    PROVE  MatrixInv'
<1>1. tester[k].at = "fail" /\ UNCHANGED <<listed, matrix, on, told>> /\ M!Stop(k)
  BY DEF M!Fail, M!At, M!Aside
<1>2. PICK i \in TestJob, r \in M!Rows :
         /\ i = tester[k] /\ r = Row(i) /\ r = M!TheRow(k) /\ Placed(i)
         /\ Grasps(i, row[r], told[r])
  BY <1>1, TesterAtRow DEF RowPlaces
<1>3. PICK j \in TestJob : j = M!Idle
  BY TesterIdle
<1>4. /\ Placed(j) /\ ~AtWork(j) /\ ~Asking(j) /\ ~Owning(j) /\ j.at = "idle"
      /\ \A v, tt : Grasps(j, v, tt)
  BY <1>3, RestsSo
<1>5. tester' = [tester EXCEPT ![k] = j]
  BY <1>1, <1>3 DEF M!Stop
<1>6. CASE i.kind = "run" /\ M!SetResult(k, [i.result EXCEPT !.status = "failed"])
  <2>1. i.result \in RowResult /\ ~i.result.pending
    BY <1>2, <1>6 DEF TestJob, Placed
  <2>2. PICK res \in RowResult : /\ M!SetResult(k, res) /\ ~res.pending /\ res.status # "passed"
    BY <1>6, <2>1, OtherResult
  <2> QED  BY <1>1, <1>2, <1>4, <1>5, <2>2, MatrixUnclaims
<1>7. CASE i.kind = "resume" /\ M!Set(k, [M!Here(k) EXCEPT !.cross = "failed"])
  <2>1. PICK v \in RowState, tl \in Seq(Said) :
           v = row[r] /\ tl = told[r] /\ told = [told EXCEPT ![r] = tl]
    BY MatrixRowFacts
  <2>2. PICK w : w = [v EXCEPT !.cross = "failed"]
    OBVIOUS
  <2>3. /\ w \in RowState /\ w.result = v.result /\ w.made = v.made /\ w.work = v.work
        /\ w.previous = v.previous /\ w.cross = "failed" /\ w.loose = v.loose
    BY <2>2 DEF RowState
  <2>4. row' = [row EXCEPT ![r] = w]
    BY <1>2, <1>7, <2>1, <2>2 DEF M!Set, M!Here
  <2>5. row'[r] = w
    BY <2>4 DEF MatrixInv, MatrixTypes
  <2>6. told' = [told EXCEPT ![r] = tl] /\ Grown(told[r], tl)
    <3>1. Len(tl) \in Nat
      BY LenProperties
    <3> QED  BY <1>1, <2>1, <3>1 DEF Grown
  <2>7. RowSays(r)'
    BY <1>1, <2>1, <2>3, <2>5, MatrixRowFacts DEF RowSays, Claimed, M!ResumeHost
  <2>8. w.result.pending \/ w.previous \/ Asking(j) => Settled(r)
    BY <1>4, <2>1, <2>3, MatrixRowFacts DEF Past
  <2>9. /\ row[r].made \subseteq w.made /\ (row[r].previous => w.previous)
        /\ (w.loose => row[r].loose) /\ AtWork(i)
    BY <1>1, <1>2, <1>7, <2>1, <2>3 DEF AtWork, Crossing
  <2> QED  BY <1>1, <1>2, <1>4, <1>5, <2>3, <2>4, <2>6, <2>7, <2>8, <2>9, MatrixSteps
<1>8. i.kind \in {"run", "resume"}
  BY <1>1, <1>2 DEF Placed, RowPlaces
<1> QED  BY <1>2, <1>6, <1>7, <1>8 DEF M!Fail

-----------------------------------------------------------------------------
\* resume: the checkpoint is asked for, and the workspace is moved aside once.

\* A row that is written as a whole.
LEMMA RowBecomes ==
    ASSUME MatrixInv, NEW k \in Processes, NEW r \in M!Rows, r = M!TheRow(k),
           NEW w \in RowState, M!Set(k, w)
    PROVE  row' = [row EXCEPT ![r] = w] /\ row'[r] = w
BY DEF M!Set, MatrixInv, MatrixTypes

LEMMA NothingSaid ==
    ASSUME MatrixInv, NEW r \in M!Rows, UNCHANGED told
    PROVE  \E tl \in Seq(Said) :
              tl = told[r] /\ told' = [told EXCEPT ![r] = tl] /\ Grown(told[r], tl)
<1>1. PICK tl \in Seq(Said) : tl = told[r] /\ told = [told EXCEPT ![r] = tl]
  BY MatrixRowFacts
<1>2. Len(tl) \in Nat
  BY LenProperties
<1> QED  BY <1>1, <1>2 DEF Grown

LEMMA MatrixReads ==
    ASSUME MatrixInv, NEW k \in Processes, M!Read(k)
    PROVE  MatrixInv'
<1>1. tester[k].at = "read" /\ UNCHANGED <<listed, matrix, on, row, told>>
  BY DEF M!Read, M!At, M!Aside
<1>2. PICK i \in TestJob, r \in M!Rows :
         i = tester[k] /\ r = Row(i) /\ r = M!TheRow(k) /\ Placed(i) /\ matrix # M!NoMatrix
  BY <1>1, TesterAtRow DEF RowPlaces
<1>3. i.kind = "resume" /\ i.host = "own" /\ i.child # "alive" /\ r \notin Declines
  BY <1>1, <1>2 DEF Placed, RowPlaces
<1>4. CASE M!Stop(k)
  BY <1>1, <1>4, MatrixRests
<1>5. CASE /\ row[r].result.pending
           /\ tester' = [tester EXCEPT ![k].at = "admit", ![k].result = row[r].result,
                                       ![k].phase = "cross"]
  <2>1. PICK admit \in {"admit"}, phase \in {"cross"} : admit = "admit" /\ phase = "cross"
    OBVIOUS
  <2>2. PICK res \in RowResult : res = row[r].result
    BY MatrixRowFacts DEF RowState
  <2>3. PICK j : j = [i EXCEPT !.at = admit, !.result = res, !.phase = phase]
    OBVIOUS
  <2>4. tester' = [tester EXCEPT ![k] = j]
    BY <1>2, <1>5, <2>1, <2>2, <2>3
  <2>5. /\ j \in TestJob /\ j.at = "admit" /\ j.kind = i.kind /\ j.todo = i.todo
        /\ j.phase = "cross" /\ j.child = i.child /\ j.result = res /\ j.host = i.host
    <3>1. admit \in RowPlaces \cup {"idle", "identify", "stage", "record"} /\ phase \in Phases
      BY <2>1 DEF RowPlaces, Phases
    <3>2. j \in TestJob
      BY <2>2, <2>3, <3>1 DEF TestJob
    <3>3. /\ j.at = admit /\ j.kind = i.kind /\ j.todo = i.todo
          /\ j.phase = phase /\ j.child = i.child /\ j.result = res /\ j.host = i.host
      BY <2>2, <2>3, <3>1 DEF TestJob
    <3> QED  BY <2>1, <3>2, <3>3
  <2>6. Row(j) = r /\ Asking(j) /\ ~AtWork(j) /\ ~Owning(j)
    BY <1>2, <1>3, <2>5 DEF Row, AtWork, Owning, Crossing, Asking, AtSession
  <2>7. Stopped(told[r], Len(told[r]), res.mark)
    BY <1>5, <2>2, MatrixRowFacts DEF RowSays
  <2>8. Grasps(j, row[r], told[r])
    BY <2>5, <2>6, <2>7 DEF Grasps, AtWork
  <2>9. Placed(j)
    BY <1>1, <1>2, <1>3, <2>5, <2>6 DEF Placed, RowPlaces
  <2>a. Past(r)
    BY <1>5 DEF Past
  <2> QED  BY <1>1, <1>2, <2>4, <2>5, <2>6, <2>8, <2>9, <2>a, MatrixMoves
<1> QED  BY <1>2, <1>4, <1>5 DEF M!Read, M!Result, M!Here

LEMMA MatrixAdmits ==
    ASSUME MatrixInv, NEW k \in Processes, M!Admit(k)
    PROVE  MatrixInv'
<1>1. tester[k].at = "admit" /\ UNCHANGED <<listed, matrix, on, row, told>>
  BY DEF M!Admit, M!At, M!Aside
<1>2. PICK i \in TestJob, r \in M!Rows :
         i = tester[k] /\ r = Row(i) /\ Placed(i) /\ Grasps(i, row[r], told[r])
  BY <1>1, TesterAtRow DEF RowPlaces
<1>3. /\ i.kind = "resume" /\ i.child # "alive" /\ Asking(i)
      /\ Stopped(told[r], Len(told[r]), i.result.mark)
  BY <1>1, <1>2 DEF Placed, RowPlaces, Asking, Grasps, FirstOf
<1>4. CASE M!Stop(k)
  BY <1>1, <1>4, MatrixRests
<1>5. CASE M!GoTo(k, "move")
  <2>1. PICK j \in TestJob :
           /\ tester' = [tester EXCEPT ![k] = j] /\ j.at = "move"
           /\ j.kind = i.kind /\ j.todo = i.todo /\ j.host = i.host /\ j.phase = i.phase
           /\ j.child = i.child /\ j.result = i.result
    <3>1. "move" \in RowPlaces \cup {"idle", "identify", "stage", "record"}
      BY DEF RowPlaces
    <3> QED  BY <1>2, <1>5, <3>1, GoesToPlace
  <2>2. Row(j) = r /\ Asking(j) /\ ~AtWork(j) /\ ~Owning(j)
    BY <1>2, <1>3, <2>1 DEF Row, AtWork, Owning, Crossing, Asking, AtSession
  <2>3. Grasps(j, row[r], told[r])
    BY <1>3, <2>1, <2>2 DEF Grasps, AtWork
  <2>4. Placed(j)
    BY <1>1, <1>2, <1>3, <2>1, <2>2 DEF Placed, RowPlaces
  <2> QED  BY <1>1, <1>2, <1>3, <2>1, <2>2, <2>3, <2>4, MatrixMoves
<1> QED  BY <1>4, <1>5 DEF M!Admit

\* No session of the row goes on when its workspace is moved aside.
LEMMA MatrixMovesAside ==
    ASSUME MatrixInv, NEW k \in Processes, M!Move(k)
    PROVE  MatrixInv'
<1>1. tester[k].at = "move" /\ UNCHANGED <<listed, matrix, on, told>>
  BY DEF M!Move, M!At, M!Aside
<1>2. PICK i \in TestJob, r \in M!Rows :
         /\ i = tester[k] /\ r = Row(i) /\ r = M!TheRow(k) /\ Placed(i)
         /\ Grasps(i, row[r], told[r])
  BY <1>1, TesterAtRow DEF RowPlaces
<1>3. /\ i.kind = "resume" /\ i.child # "alive" /\ Asking(i) /\ ~AtWork(i)
      /\ Stopped(told[r], Len(told[r]), i.result.mark)
  BY <1>1, <1>2 DEF Placed, RowPlaces, Asking, Grasps, FirstOf, AtWork, Owning, Crossing, AtSession
<1>4. CASE M!Stop(k) /\ UNCHANGED row
  BY <1>1, <1>4, MatrixRests
<1>5. CASE /\ ~row[r].previous /\ M!GoTo(k, "copy")
           /\ M!Set(k, [row[r] EXCEPT !.work = M!Gone, !.previous = TRUE])
  <2>1. PICK j \in TestJob :
           /\ tester' = [tester EXCEPT ![k] = j] /\ j.at = "copy"
           /\ j.kind = i.kind /\ j.todo = i.todo /\ j.host = i.host /\ j.phase = i.phase
           /\ j.child = i.child /\ j.result = i.result
    <3>1. "copy" \in RowPlaces \cup {"idle", "identify", "stage", "record"}
      BY DEF RowPlaces
    <3> QED  BY <1>2, <1>5, <3>1, GoesToPlace
  <2>2. PICK tl \in Seq(Said) :
           tl = told[r] /\ told' = [told EXCEPT ![r] = tl] /\ Grown(told[r], tl)
    BY <1>1, NothingSaid
  <2>3. PICK v \in RowState, yes \in BOOLEAN, gone \in Tree :
           v = row[r] /\ yes = TRUE /\ gone = M!Gone
    BY MatrixRowFacts, TreesTyped
  <2>4. PICK w : w = [v EXCEPT !.work = gone, !.previous = yes]
    OBVIOUS
  <2>5. /\ w \in RowState /\ w.result = v.result /\ w.made = v.made /\ w.previous
        /\ w.cross = v.cross /\ w.loose = v.loose
    BY <2>3, <2>4 DEF RowState
  <2>6. M!Set(k, w)
    BY <1>5, <2>3, <2>4
  <2>7. row' = [row EXCEPT ![r] = w] /\ row'[r] = w
    BY <1>2, <2>5, <2>6, RowBecomes
  <2>8. Past(r) /\ Settled(r)
    BY <1>2, <1>3, MatrixRowFacts DEF Past
  <2>9. ~v.loose /\ FirstOf(r) \in v.made
    BY <1>5, <2>3, <2>8 DEF Settled, Claimed
  <2>a. Free(r)
    <3>1. ASSUME NEW q \in Processes, AtWork(tester[q]), Row(tester[q]) = r PROVE FALSE
      <4>1. Crossing(tester[q])
        BY <2>8, <3>1 DEF Settled, AtWork
      <4>2. tester[q].at \in RowPlaces
        BY <4>1 DEF Crossing, RowPlaces, AtSession
      <4>3. Grasps(tester[q], row[r], told[r])
        BY <3>1, <4>2, TesterAtRow
      <4> QED  BY <1>5, <4>1, <4>3 DEF Grasps
    <3> QED  BY <3>1 DEF Free
  <2>b. /\ Row(j) = r /\ ~Asking(j) /\ AtWork(j) /\ Crossing(j) /\ ~Owning(j)
        /\ j.phase = "cross"
    BY <1>1, <1>2, <1>3, <2>1 DEF Row, AtWork, Owning, Crossing, Asking, AtSession, Placed
  <2>c. Grasps(j, w, tl)
    BY <1>3, <2>1, <2>2, <2>3, <2>5, <2>9, <2>b DEF Grasps, AtSession
  <2>d. Placed(j)
    BY <1>1, <1>2, <1>3, <2>1, <2>b DEF Placed, RowPlaces
  <2>e. RowSays(r)'
    BY <1>1, <2>2, <2>3, <2>5, <2>7, <2>9, MatrixRowFacts
    DEF RowSays, Claimed, M!ResumeHost, FirstOf
  <2>f. /\ row[r].made \subseteq w.made /\ (row[r].previous => w.previous)
        /\ (w.loose => w.previous \/ row[r].loose \/ Owning(i)) /\ j.at # "record"
        /\ (Owning(j) => Owning(i) \/ ~Claimed(r))
    BY <2>1, <2>3, <2>5, <2>b
  <2> QED  BY <1>2, <1>1, <2>1, <2>2, <2>5, <2>7, <2>8, <2>a, <2>b, <2>c, <2>d, <2>e, <2>f, MatrixSteps
<1> QED  BY <1>2, <1>4, <1>5 DEF M!Move, M!Here

\* Who took a workspace over writes in its row what is neither an answer nor a result.
LEMMA CrossWrites ==
    ASSUME MatrixInv, NEW k \in Processes, NEW i \in TestJob, i = tester[k], Crossing(i),
           NEW r \in M!Rows, r = Row(i), r = M!TheRow(k),
           NEW place \in {"cross", "restored"}, M!GoTo(k, place), i.at \in {"copy", "cross"},
           NEW w \in RowState, M!Set(k, w), w.result = row[r].result, w.made = row[r].made,
           w.previous = row[r].previous, w.loose = row[r].loose,
           w.cross = row[r].cross \/ w.cross # "passed",
           UNCHANGED <<listed, matrix, on, told>>
    PROVE  MatrixInv'
<1>1. PICK j \in TestJob :
         /\ tester' = [tester EXCEPT ![k] = j] /\ j.at = place
         /\ j.kind = i.kind /\ j.todo = i.todo /\ j.host = i.host /\ j.phase = i.phase
         /\ j.child = i.child /\ j.result = i.result
  <2>1. place \in RowPlaces \cup {"idle", "identify", "stage", "record"}
    BY DEF RowPlaces
  <2> QED  BY <2>1, GoesToPlace
<1>2. PICK tl \in Seq(Said) :
         tl = told[r] /\ told' = [told EXCEPT ![r] = tl] /\ Grown(told[r], tl)
  BY NothingSaid
<1>3. row' = [row EXCEPT ![r] = w] /\ row'[r] = w
  BY RowBecomes
<1>4. Placed(i) /\ Grasps(i, row[r], told[r])
  BY TesterAtRow DEF RowPlaces
<1>5. /\ Row(j) = r /\ ~Asking(j) /\ AtWork(j) /\ Crossing(j) /\ ~Owning(j) /\ AtWork(i)
      /\ ~Owning(i) /\ i.kind = "resume"
  BY <1>1 DEF Row, AtWork, Owning, Crossing, Asking
<1>6. Placed(j) /\ i.phase = "cross"
  BY <1>1, <1>4, <1>5 DEF Placed, RowPlaces
<1>7. Grasps(j, w, tl)
  BY <1>1, <1>2, <1>4, <1>5, <1>6 DEF Grasps, AtSession
<1>8. RowSays(r)'
  BY <1>2, <1>3, MatrixRowFacts DEF RowSays, Claimed, M!ResumeHost, FirstOf
<1>9. row[r].previous /\ Settled(r)
  BY <1>4, MatrixRowFacts DEF Grasps, Past
<1>10. /\ row[r].made \subseteq w.made /\ (row[r].previous => w.previous)
       /\ (w.loose => w.previous \/ row[r].loose \/ Owning(i)) /\ j.at # "record"
       /\ (Owning(j) => Owning(i) \/ ~Claimed(r))
  BY <1>1, <1>5
<1> QED  BY <1>1, <1>2, <1>3, <1>5, <1>6, <1>7, <1>8, <1>9, <1>10, MatrixSteps

LEMMA MatrixCopies ==
    ASSUME MatrixInv, NEW k \in Processes, M!Copy(k)
    PROVE  MatrixInv'
<1>1. tester[k].at = "copy" /\ UNCHANGED <<listed, matrix, on, told>> /\ M!GoTo(k, "cross")
  BY DEF M!Copy, M!At, M!Aside
<1>2. PICK i \in TestJob, r \in M!Rows :
         i = tester[k] /\ r = Row(i) /\ r = M!TheRow(k) /\ Placed(i)
  BY <1>1, TesterAtRow DEF RowPlaces
<1>3. Crossing(i)
  BY <1>1, <1>2 DEF Placed, RowPlaces, Crossing
<1>4. PICK v \in RowState : v = row[r]
  BY MatrixRowFacts
<1>5. PICK w : w = [v EXCEPT !.work = v.point]
  OBVIOUS
<1>6. /\ w \in RowState /\ w.result = v.result /\ w.made = v.made /\ w.previous = v.previous
      /\ w.cross = v.cross /\ w.loose = v.loose
  BY <1>5 DEF RowState
<1>7. M!Set(k, w)
  BY <1>2, <1>4, <1>5 DEF M!Copy, M!Here
<1> QED  BY <1>1, <1>2, <1>3, <1>4, <1>6, <1>7, CrossWrites

LEMMA MatrixCrosses ==
    ASSUME MatrixInv, NEW k \in Processes, M!WriteCross(k)
    PROVE  MatrixInv'
<1>1. tester[k].at = "cross" /\ UNCHANGED <<listed, matrix, on, told>> /\ M!GoTo(k, "restored")
  BY DEF M!WriteCross, M!At, M!Aside
<1>2. PICK i \in TestJob, r \in M!Rows :
         i = tester[k] /\ r = Row(i) /\ r = M!TheRow(k) /\ Placed(i)
  BY <1>1, TesterAtRow DEF RowPlaces
<1>3. Crossing(i)
  BY <1>1, <1>2 DEF Placed, RowPlaces, Crossing
<1>4. PICK v \in RowState : v = row[r]
  BY MatrixRowFacts
<1>5. PICK w : w = [v EXCEPT !.cross = "running"]
  OBVIOUS
<1>6. /\ w \in RowState /\ w.result = v.result /\ w.made = v.made /\ w.previous = v.previous
      /\ w.cross = "running" /\ w.loose = v.loose
  BY <1>5 DEF RowState
<1>7. M!Set(k, w)
  BY <1>2, <1>4, <1>5 DEF M!WriteCross, M!Here
<1> QED  BY <1>1, <1>2, <1>3, <1>4, <1>6, <1>7, CrossWrites

LEMMA MatrixRestores ==
    ASSUME MatrixInv, NEW k \in Processes, M!Restoration(k)
    PROVE  MatrixInv'
<1>1. tester[k].at = "restored" /\ UNCHANGED <<listed, matrix, on, row, told>>
  BY DEF M!Restoration, M!At, M!Aside
<1>2. PICK i \in TestJob, r \in M!Rows :
         /\ i = tester[k] /\ r = Row(i) /\ r = M!TheRow(k) /\ Placed(i)
         /\ Grasps(i, row[r], told[r])
  BY <1>1, TesterAtRow DEF RowPlaces
<1>3. Crossing(i) /\ AtWork(i) /\ ~Owning(i) /\ i.kind = "resume" /\ i.child # "alive"
  BY <1>1, <1>2 DEF Placed, RowPlaces, Crossing, AtWork, Owning
<1>4. PICK place \in {"launch", "fail"} :
         M!GoTo(k, place) /\ (place = "launch" => row[r].work = RedTree(i.result.mark))
  BY <1>2 DEF M!Restoration, M!Interrupted, M!Here, RedTree
<1>5. PICK j \in TestJob :
         /\ tester' = [tester EXCEPT ![k] = j] /\ j.at = place
         /\ j.kind = i.kind /\ j.todo = i.todo /\ j.host = i.host /\ j.phase = i.phase
         /\ j.child = i.child /\ j.result = i.result
  <2>1. place \in RowPlaces \cup {"idle", "identify", "stage", "record"}
    BY DEF RowPlaces
  <2> QED  BY <1>2, <1>4, <2>1, GoesToPlace
<1>6. Row(j) = r /\ ~Asking(j) /\ AtWork(j) /\ Crossing(j) /\ ~Owning(j)
  BY <1>2, <1>3, <1>5 DEF Row, AtWork, Owning, Crossing, Asking
<1>7. Placed(j) /\ i.phase = "cross"
  BY <1>1, <1>2, <1>3, <1>5, <1>6 DEF Placed, RowPlaces
<1>8. Grasps(j, row[r], told[r])
  BY <1>1, <1>2, <1>3, <1>4, <1>5, <1>6, <1>7 DEF Grasps, AtSession
<1> QED  BY <1>1, <1>2, <1>3, <1>5, <1>6, <1>7, <1>8, MatrixMoves

-----------------------------------------------------------------------------
\* A session, from its directory to its result.

LEMMA AtSessionHolds ==
    ASSUME NEW i, Placed(i), i.at \in AtSession \cup {"finish"}
    PROVE  /\ AtWork(i) /\ ~Asking(i) /\ (i.kind = "run" => Owning(i))
           /\ (i.kind = "resume" => Crossing(i)) /\ i.kind \in {"run", "resume"}
           /\ i.phase # "none"
<1>1. i.at \in RowPlaces /\ i.at \notin {"look", "retire", "claim", "login", "admit", "move", "read"}
  BY DEF RowPlaces, AtSession
<1>2. CASE i.kind = "run"
  BY <1>1, <1>2 DEF Placed, AtWork, Owning, Asking, FirstOf
<1>3. CASE i.kind = "resume"
  BY <1>1, <1>3 DEF Placed, AtWork, Crossing, Asking
<1> QED  BY <1>1, <1>2, <1>3 DEF Placed

LEMMA HolderClaimed ==
    ASSUME MatrixInv, NEW q \in Processes, AtWork(tester[q]), NEW r \in M!Rows, Row(tester[q]) = r
    PROVE  Claimed(r) /\ (Crossing(tester[q]) => row[r].previous)
<1>1. tester[q].at \in RowPlaces
  BY TesterFacts DEF AtWork, Owning, Crossing, RowPlaces, AtSession, Knows, Placed
<1>2. Grasps(tester[q], row[r], told[r])
  BY <1>1, TesterAtRow
<1> QED  BY <1>2 DEF Grasps, Claimed, AtWork

LEMMA MatrixLaunches ==
    ASSUME MatrixInv, NEW k \in Processes, M!Launch(k)
    PROVE  MatrixInv'
<1>1. tester[k].at = "launch" /\ UNCHANGED <<listed, matrix, on, told>>
  BY DEF M!Launch, M!At, M!Aside
<1>2. PICK i \in TestJob, r \in M!Rows :
         /\ i = tester[k] /\ r = Row(i) /\ r = M!TheRow(k) /\ Placed(i)
         /\ Grasps(i, row[r], told[r])
  BY <1>1, TesterAtRow DEF RowPlaces
<1>3. /\ i.kind \in {"run", "resume"} /\ i.phase # "none" /\ i.child # "alive" /\ ~Asking(i)
      /\ (i.kind = "resume" => Crossing(i) /\ i.phase = "cross")
      /\ (i.kind = "run" => \/ i.phase = FirstOf(r)
                            \/ i.phase \in {"implement", "resume"} /\ Owning(i))
  BY <1>1, <1>2 DEF Placed, RowPlaces, Asking, Owning
<1>4. CASE M!GoTo(k, "fail") /\ UNCHANGED row
  <2>1. PICK j \in TestJob :
           /\ tester' = [tester EXCEPT ![k] = j] /\ j.at = "fail"
           /\ j.kind = i.kind /\ j.todo = i.todo /\ j.host = i.host /\ j.phase = i.phase
           /\ j.child = i.child /\ j.result = i.result
    <3>1. "fail" \in RowPlaces \cup {"idle", "identify", "stage", "record"}
      BY DEF RowPlaces
    <3> QED  BY <1>2, <1>4, <3>1, GoesToPlace
  <2>2. Row(j) = r /\ ~Asking(j) /\ Owning(j) = Owning(i) /\ Crossing(j) = Crossing(i)
    BY <1>1, <1>2, <2>1 DEF Row, Owning, Crossing, Asking, AtSession
  <2>3. Grasps(j, row[r], told[r])
    BY <1>1, <1>2, <2>1, <2>2 DEF Grasps, AtSession, AtWork
  <2>4. Placed(j)
    BY <1>1, <1>2, <1>3, <2>1, <2>2 DEF Placed, RowPlaces
  <2> QED  BY <1>1, <1>2, <1>4, <2>1, <2>2, <2>3, <2>4, MatrixMoves DEF AtWork
<1>5. CASE /\ i.phase \notin row[r].made
           /\ M!Set(k, [row[r] EXCEPT !.made = @ \cup {i.phase}])
           /\ tester' = [tester EXCEPT ![k].at = "watch", ![k].child = "alive",
                           ![k].stop = "none", ![k].clean = TRUE, ![k].found = row[r].work]
  <2>1. PICK tl \in Seq(Said) :
           tl = told[r] /\ told' = [told EXCEPT ![r] = tl] /\ Grown(told[r], tl)
    BY <1>1, NothingSaid
  <2>2. PICK v \in RowState, phase \in Phases, tree \in Tree :
           v = row[r] /\ phase = i.phase /\ tree = v.work
    BY MatrixRowFacts DEF RowState, TestJob
  <2>3. PICK w : w = [v EXCEPT !.made = v.made \cup {phase}]
    OBVIOUS
  <2>4. /\ w \in RowState /\ w.result = v.result /\ w.made = v.made \cup {phase}
        /\ w.previous = v.previous /\ w.cross = v.cross /\ w.loose = v.loose /\ w.work = v.work
    <3>1. v.made \cup {phase} \in SUBSET Phases
      BY <2>2 DEF RowState
    <3> QED  BY <2>2, <2>3, <3>1 DEF RowState
  <2>5. M!Set(k, w)
    BY <1>5, <2>2, <2>3
  <2>6. row' = [row EXCEPT ![r] = w] /\ row'[r] = w
    BY <1>2, <2>4, <2>5, RowBecomes
  <2>7. PICK watch \in RowPlaces, living \in {"alive"}, none \in {"none"}, yes \in BOOLEAN :
           watch = "watch" /\ living = "alive" /\ none = "none" /\ yes = TRUE
    BY DEF RowPlaces
  <2>8. PICK j : j = [i EXCEPT !.at = watch, !.child = living, !.stop = none, !.clean = yes,
                               !.found = tree]
    OBVIOUS
  <2>9. tester' = [tester EXCEPT ![k] = j]
    <3>1. tester' = [tester EXCEPT ![k].at = watch, ![k].child = living, ![k].stop = none,
                                   ![k].clean = yes, ![k].found = tree]
      BY <1>5, <2>2, <2>7, Zenon
    <3> QED  BY <1>2, <2>8, <3>1
  <2>a. /\ j \in TestJob /\ j.at = "watch" /\ j.kind = i.kind /\ j.todo = i.todo
        /\ j.host = i.host /\ j.phase = i.phase /\ j.child = "alive" /\ j.found = v.work
        /\ j.result = i.result
    <3>1. /\ j \in TestJob /\ j.at = watch /\ j.kind = i.kind /\ j.todo = i.todo
          /\ j.host = i.host /\ j.phase = i.phase /\ j.child = living /\ j.found = tree
          /\ j.result = i.result
      BY <2>2, <2>7, <2>8, ZenonT(40) DEF TestJob
    <3> QED  BY <2>2, <2>7, <3>1
  <2>b. /\ Row(j) = r /\ ~Asking(j) /\ (AtWork(i) => (Owning(j) = Owning(i)))
        /\ Crossing(j) = Crossing(i)
        /\ (Owning(j) => Owning(i) \/ phase = FirstOf(r))
    BY <1>1, <1>2, <1>3, <2>2, <2>a DEF Row, AtWork, Owning, Crossing, Asking, AtSession, FirstOf
  <2>c. Placed(j)
    BY <1>1, <1>2, <1>3, <2>a, <2>b DEF Placed, RowPlaces, AtSession
  <2>d. phase = FirstOf(r) => ~Claimed(r) /\ ~v.loose /\ Free(r) /\ ~AtWork(i)
    <3> SUFFICES ASSUME phase = FirstOf(r)
                 PROVE  ~Claimed(r) /\ ~v.loose /\ Free(r) /\ ~AtWork(i)
      OBVIOUS
    <3>1. ~Claimed(r)
      BY <1>5, <2>2 DEF Claimed
    <3>2. ~v.loose
      BY <2>2, <3>1, MatrixRowFacts DEF RowSays
    <3>3. Free(r)
      BY <3>1, HolderClaimed DEF Free
    <3> QED  BY <1>2, <3>1, <3>2, <3>3 DEF Free
  <2>e. phase = FirstOf(r) \/ AtWork(i)
    BY <1>3, <2>2 DEF AtWork
  <2>f. ~w.loose
    BY <1>1, <1>2, <2>2, <2>4, <2>d, <2>e DEF Grasps
  <2>g. Grasps(j, w, tl)
    <3>1. CASE phase = FirstOf(r)
      <4>1. phase \in {"plan", "unsupported"} /\ FirstOf(r) \in w.made
        BY <2>4, <3>1 DEF FirstOf
      <4>2. ~Crossing(j)
        BY <2>b, <2>d, <3>1 DEF AtWork
      <4> QED  BY <2>2, <2>a, <2>b, <2>f, <4>1, <4>2 DEF Grasps, AtSession
    <3>2. CASE AtWork(i) /\ phase # FirstOf(r)
      <4>1. i.phase \notin {"plan", "unsupported"}
        BY <1>3, <2>2, <3>2
      <4> QED  BY <1>1, <1>2, <2>1, <2>2, <2>4, <2>a, <2>b, <2>f, <3>2, <4>1 DEF Grasps, AtSession, AtWork
    <3> QED  BY <2>e, <3>1, <3>2
  <2>h. RowSays(r)'
    BY <1>1, <2>1, <2>2, <2>4, <2>6, MatrixRowFacts, ZenonT(40)
    DEF RowSays, Claimed, M!ResumeHost, FirstOf
  <2>i. w.result.pending \/ w.previous \/ Asking(j) => Settled(r)
    BY <2>2, <2>4, <2>b, MatrixRowFacts DEF Past
  <2>j. /\ row[r].made \subseteq w.made /\ (row[r].previous => w.previous)
        /\ (w.loose => w.previous \/ row[r].loose \/ Owning(i)) /\ j.at # "record"
        /\ (Owning(j) => Owning(i) \/ ~Claimed(r)) /\ (AtWork(i) \/ Free(r))
    BY <2>2, <2>4, <2>a, <2>b, <2>d, <2>e
  <2> QED  BY <1>1, <1>2, <2>1, <2>4, <2>6, <2>9, <2>a, <2>b, <2>c, <2>g, <2>h, <2>i, <2>j, MatrixSteps, ZenonT(40)
<1> QED  BY <1>2, <1>4, <1>5 DEF M!Launch, M!Here, M!Made, M!Destination

LEMMA MatrixPolls ==
    ASSUME MatrixInv, NEW k \in Processes, M!Poll(k)
    PROVE  MatrixInv'
<1>1. tester[k].at = "watch" /\ UNCHANGED <<listed, matrix, on, row, told>>
  BY DEF M!Poll, M!At, M!Aside
<1>2. PICK i \in TestJob, r \in M!Rows :
         /\ i = tester[k] /\ r = Row(i) /\ r = M!TheRow(k) /\ Placed(i)
         /\ Grasps(i, row[r], told[r])
  BY <1>1, TesterAtRow DEF RowPlaces
<1>3. AtWork(i) /\ ~Asking(i) /\ i.phase # "none" /\ i.kind \in {"run", "resume"}
  BY <1>1, <1>2, AtSessionHolds DEF AtSession
<1>4. \E j \in TestJob :
         /\ tester' = [tester EXCEPT ![k] = j] /\ j.at = "terminate"
         /\ j.kind = i.kind /\ j.todo = i.todo /\ j.host = i.host /\ j.phase = i.phase
         /\ j.child = i.child /\ j.found = i.found
         /\ (j.result.mark = i.result.mark \/ i.phase = "implement")
         /\ j.result.pending = i.result.pending /\ j.result.status = i.result.status
  <2>1. CASE M!GoTo(k, "terminate")
    <3>1. "terminate" \in RowPlaces \cup {"idle", "identify", "stage", "record"}
      BY DEF RowPlaces
    <3> QED  BY <1>2, <2>1, <3>1, GoesToPlace
  <2>2. PICK place \in RowPlaces, limit \in {"limit"}, point \in {"checkpoint"} :
           place = "terminate" /\ limit = "limit" /\ point = "checkpoint"
    BY DEF RowPlaces
  <2>3. CASE tester' = [tester EXCEPT ![k].at = "terminate", ![k].stop = "limit"]
    <3>1. PICK j : j = [i EXCEPT !.at = place, !.stop = limit]
      OBVIOUS
    <3>2. tester' = [tester EXCEPT ![k] = j]
      <4>1. tester' = [tester EXCEPT ![k].at = place, ![k].stop = limit]
        BY <2>2, <2>3, Zenon
      <4> QED  BY <1>2, <3>1, <4>1
    <3>3. /\ j \in TestJob /\ j.at = place /\ j.kind = i.kind /\ j.todo = i.todo
          /\ j.host = i.host /\ j.phase = i.phase /\ j.child = i.child /\ j.found = i.found
          /\ j.result = i.result
      BY <3>1 DEF TestJob
    <3> QED  BY <2>2, <3>2, <3>3
  <2>4. CASE /\ i.phase = "implement"
             /\ tester' = [tester EXCEPT ![k].at = "terminate", ![k].stop = "checkpoint",
                              ![k].result.mark = row[r].work.mark]
    <3>1. PICK mark \in Nat : mark = row[r].work.mark
      BY MatrixRowFacts DEF RowState, Tree
    <3>2. PICK old \in RowResult : old = i.result
      BY DEF TestJob
    <3>3. PICK res : res = [old EXCEPT !.mark = mark]
      OBVIOUS
    <3>4. res \in RowResult /\ res.pending = old.pending /\ res.status = old.status
      BY <3>3 DEF RowResult
    <3>5. PICK j : j = [i EXCEPT !.at = place, !.stop = point, !.result = res]
      OBVIOUS
    <3>6. tester' = [tester EXCEPT ![k] = j]
      <4>1. tester' = [tester EXCEPT ![k].at = place, ![k].stop = point, ![k].result.mark = mark]
        BY <2>2, <2>4, <3>1, Zenon
      <4> QED  BY <1>2, <3>2, <3>3, <3>5, <4>1
    <3>7. /\ j \in TestJob /\ j.at = place /\ j.kind = i.kind /\ j.todo = i.todo
          /\ j.host = i.host /\ j.phase = i.phase /\ j.child = i.child /\ j.found = i.found
          /\ j.result = res
      BY <3>4, <3>5 DEF TestJob
    <3> QED  BY <2>2, <2>4, <3>2, <3>4, <3>6, <3>7
  <2> QED  BY <1>2, <2>1, <2>3, <2>4 DEF M!Poll, M!RedEvent, M!Here
<1>5. PICK j \in TestJob :
         /\ tester' = [tester EXCEPT ![k] = j] /\ j.at = "terminate"
         /\ j.kind = i.kind /\ j.todo = i.todo /\ j.host = i.host /\ j.phase = i.phase
         /\ j.child = i.child /\ j.found = i.found
         /\ (j.result.mark = i.result.mark \/ i.phase = "implement")
         /\ j.result.pending = i.result.pending /\ j.result.status = i.result.status
  BY <1>4
<1>6. Row(j) = r /\ ~Asking(j) /\ Owning(j) = Owning(i) /\ Crossing(j) = Crossing(i)
  BY <1>1, <1>2, <1>5 DEF Row, Owning, Crossing, Asking, AtSession
<1>7. Grasps(j, row[r], told[r])
  BY <1>1, <1>2, <1>5, <1>6 DEF Grasps, AtSession, AtWork
<1>8. Placed(j)
  BY <1>1, <1>2, <1>3, <1>5, <1>6 DEF Placed, RowPlaces, AtSession
<1> QED  BY <1>1, <1>2, <1>5, <1>6, <1>7, <1>8, MatrixMoves DEF AtWork

LEMMA MatrixTerminates ==
    ASSUME MatrixInv, NEW k \in Processes, M!Terminate(k)
    PROVE  MatrixInv'
<1>1. tester[k].at = "terminate" /\ UNCHANGED <<listed, matrix, on, told>>
  BY DEF M!Terminate, M!At, M!Aside
<1>2. PICK i \in TestJob, r \in M!Rows :
         /\ i = tester[k] /\ r = Row(i) /\ r = M!TheRow(k) /\ Placed(i)
         /\ Grasps(i, row[r], told[r])
  BY <1>1, TesterAtRow DEF RowPlaces
<1>3. AtWork(i) /\ ~Asking(i) /\ i.phase # "none" /\ i.kind \in {"run", "resume"}
  BY <1>1, <1>2, AtSessionHolds DEF AtSession
<1>4. PICK place \in RowPlaces, bad \in {"none", "zero", "bad"}, no \in BOOLEAN :
         /\ place = "judge" /\ no = FALSE
         /\ bad = IF i.child = "alive" THEN "bad" ELSE i.child
  BY DEF RowPlaces, TestJob
<1>5. CASE /\ UNCHANGED row
           /\ tester' = [tester EXCEPT ![k].at = "judge",
                           ![k].child = IF @ = "alive" THEN "bad" ELSE @]
  <2>1. PICK j : j = [i EXCEPT !.at = place, !.child = bad]
    OBVIOUS
  <2>2. tester' = [tester EXCEPT ![k] = j]
    <3>1. tester' = [tester EXCEPT ![k].at = place, ![k].child = bad]
      BY <1>2, <1>4, <1>5
    <3> QED  BY <1>2, <2>1, <3>1
  <2>3. /\ j \in TestJob /\ j.at = place /\ j.kind = i.kind /\ j.todo = i.todo
        /\ j.host = i.host /\ j.phase = i.phase /\ j.child = bad /\ j.found = i.found
        /\ j.result = i.result
    BY <1>4, <2>1 DEF TestJob
  <2>4. Row(j) = r /\ ~Asking(j) /\ Owning(j) = Owning(i) /\ Crossing(j) = Crossing(i)
    BY <1>1, <1>2, <1>4, <2>3 DEF Row, Owning, Crossing, Asking, AtSession
  <2>5. Grasps(j, row[r], told[r])
    BY <1>1, <1>2, <1>4, <2>3, <2>4 DEF Grasps, AtSession, AtWork
  <2>6. Placed(j)
    BY <1>1, <1>2, <1>3, <1>4, <2>3, <2>4 DEF Placed, RowPlaces, AtSession
  <2>7. j.at # "record"
    BY <1>4, <2>3
  <2> QED  BY <1>1, <1>2, <1>5, <2>2, <2>3, <2>4, <2>5, <2>6, <2>7, MatrixMoves, ZenonT(40) DEF AtWork
<1>6. CASE /\ M!Set(k, [row[r] EXCEPT !.loose = TRUE])
           /\ tester' = [tester EXCEPT ![k].at = "judge", ![k].child = "bad", ![k].clean = FALSE]
  <2>1. PICK tl \in Seq(Said) :
           tl = told[r] /\ told' = [told EXCEPT ![r] = tl] /\ Grown(told[r], tl)
    BY <1>1, NothingSaid
  <2>2. PICK v \in RowState, yes \in BOOLEAN, dead \in {"bad"} :
           v = row[r] /\ yes = TRUE /\ dead = "bad"
    BY MatrixRowFacts
  <2>3. PICK w : w = [v EXCEPT !.loose = yes]
    OBVIOUS
  <2>4. /\ w \in RowState /\ w.result = v.result /\ w.made = v.made
        /\ w.previous = v.previous /\ w.cross = v.cross /\ w.work = v.work
    BY <2>2, <2>3 DEF RowState
  <2>5. M!Set(k, w)
    BY <1>6, <2>2, <2>3
  <2>6. row' = [row EXCEPT ![r] = w] /\ row'[r] = w
    BY <1>2, <2>4, <2>5, RowBecomes
  <2>7. PICK j : j = [i EXCEPT !.at = place, !.child = dead, !.clean = no]
    OBVIOUS
  <2>8. tester' = [tester EXCEPT ![k] = j]
    <3>1. tester' = [tester EXCEPT ![k].at = place, ![k].child = dead, ![k].clean = no]
      BY <1>4, <1>6, <2>2, Zenon
    <3> QED  BY <1>2, <2>7, <3>1
  <2>9. /\ j \in TestJob /\ j.at = place /\ j.kind = i.kind /\ j.todo = i.todo
        /\ j.host = i.host /\ j.phase = i.phase /\ j.child = dead /\ j.found = i.found
        /\ j.result = i.result /\ j.clean = no
    BY <1>4, <2>2, <2>7 DEF TestJob
  <2>a. Row(j) = r /\ ~Asking(j) /\ Owning(j) = Owning(i) /\ Crossing(j) = Crossing(i)
    BY <1>1, <1>2, <1>4, <2>9 DEF Row, Owning, Crossing, Asking, AtSession
  <2>b. Grasps(j, w, tl)
    BY <1>1, <1>2, <1>4, <2>1, <2>2, <2>4, <2>9, <2>a DEF Grasps, AtSession, AtWork
  <2>c. Placed(j)
    BY <1>1, <1>2, <1>3, <1>4, <2>2, <2>9, <2>a DEF Placed, RowPlaces, AtSession
  <2>d. FirstOf(r) \in v.made /\ (Crossing(i) => v.previous)
    BY <1>2, <1>3, <2>2 DEF Grasps, AtWork
  <2>e. RowSays(r)'
    BY <1>1, <2>1, <2>2, <2>4, <2>6, <2>d, MatrixRowFacts
    DEF RowSays, Claimed, M!ResumeHost, FirstOf
  <2>f. w.result.pending \/ w.previous \/ Asking(j) => Settled(r)
    BY <2>2, <2>4, <2>a, MatrixRowFacts DEF Past
  <2>g. /\ row[r].made \subseteq w.made /\ (row[r].previous => w.previous)
        /\ (w.loose => w.previous \/ row[r].loose \/ Owning(i)) /\ j.at # "record"
        /\ (Owning(j) => Owning(i) \/ ~Claimed(r))
    BY <1>3, <1>4, <2>2, <2>4, <2>9, <2>a, <2>d DEF AtWork
  <2> QED  BY <1>1, <1>2, <1>3, <2>1, <2>4, <2>6, <2>8, <2>9, <2>a, <2>b, <2>c, <2>e, <2>f, <2>g, MatrixSteps, ZenonT(40)
<1> QED  BY <1>2, <1>5, <1>6 DEF M!Terminate, M!Here

\* What was planned, declined or completed stays so, whatever is said next.
LEMMA StillSo ==
    ASSUME NEW tl \in Seq(Said), NEW longer \in Seq(Said), Grown(tl, longer)
    PROVE  /\ \A m \in Nat : Planned(tl, Len(tl)) /\ Len(tl) <= m => Planned(longer, m)
           /\ \A mark \in Nat, m \in Nat :
                 Stopped(tl, Len(tl), mark) /\ Len(tl) <= m => Stopped(longer, m, mark)
           /\ Declined(tl) => Declined(longer)
           /\ \A last, host : Completed(tl, last, host) => Completed(longer, last, host)
<1>1. PICK n \in Nat, x \in Nat : n = Len(tl) /\ x = Len(longer) /\ n <= x
  BY LenProperties DEF Grown
<1>2. \A a \in 1..n : longer[a] = tl[a] /\ a \in 1..x
  BY <1>1 DEF Grown
<1>3. ASSUME NEW m \in Nat, Planned(tl, n), n <= m PROVE Planned(longer, m)
  <2>1. PICK a \in 1..n : tl[a].phase = "plan" /\ tl[a].whole
    BY <1>3 DEF Planned
  <2>2. a \in 1..m /\ longer[a] = tl[a]
    BY <1>2, <1>3
  <2> QED  BY <2>1, <2>2 DEF Planned
<1>4. ASSUME NEW mark, NEW m \in Nat, Stopped(tl, n, mark), n <= m PROVE Stopped(longer, m, mark)
  BY <1>1, <1>4, StillStopped
<1>5. ASSUME Declined(tl) PROVE Declined(longer)
  <2>1. PICK a \in 1..n : tl[a].phase = "unsupported" /\ tl[a].whole
    BY <1>1, <1>5 DEF Declined
  <2>2. a \in 1..Len(longer) /\ longer[a] = tl[a]
    BY <1>1, <1>2
  <2> QED  BY <2>1, <2>2 DEF Declined
<1>6. ASSUME NEW last, NEW host, Completed(tl, last, host) PROVE Completed(longer, last, host)
  <2>1. PICK a \in 1..n, b \in 1..n, e \in 1..n :
           /\ a < b /\ tl[a].phase = "plan" /\ tl[a].whole
           /\ tl[b].phase = "implement" /\ tl[b].whole /\ tl[b].left.stage = "red"
           /\ b < e /\ tl[e].phase = last /\ tl[e].whole /\ tl[e].host = host
           /\ tl[e].found = tl[b].left /\ tl[e].left = DoneTree(tl[b].left.mark)
    BY <1>1, <1>6 DEF Completed
  <2>2. /\ a \in 1..Len(longer) /\ b \in 1..Len(longer) /\ e \in 1..Len(longer)
        /\ longer[a] = tl[a] /\ longer[b] = tl[b] /\ longer[e] = tl[e]
    BY <1>1, <1>2
  <2> QED  BY <2>1, <2>2 DEF Completed
<1>7. ASSUME NEW m \in Nat, Planned(tl, Len(tl)), Len(tl) <= m PROVE Planned(longer, m)
  BY <1>1, <1>3, <1>7
<1>8. ASSUME NEW mark, NEW m \in Nat, Stopped(tl, Len(tl), mark), Len(tl) <= m
      PROVE  Stopped(longer, m, mark)
  BY <1>1, <1>4, <1>8
<1> QED  BY <1>5, <1>6, <1>7, <1>8

\* The last session of a row completes what it was stopped in.
LEMMA LastCompletes ==
    ASSUME NEW tl \in Seq(Said), NEW n \in Nat, n = Len(tl), n # 0, NEW mark \in Nat,
           Stopped(tl, n - 1, mark), tl[n].whole,
           tl[n].found = RedTree(mark), tl[n].left = DoneTree(mark)
    PROVE  Completed(tl, tl[n].phase, tl[n].host)
<1>1. PICK a \in 1..(n - 1), b \in 1..(n - 1) :
         /\ a < b /\ tl[a].phase = "plan" /\ tl[a].whole
         /\ tl[b].phase = "implement" /\ tl[b].whole /\ tl[b].left = RedTree(mark)
  BY DEF Stopped
<1>2. a \in 1..n /\ b \in 1..n /\ n \in 1..n /\ b < n
  BY <1>1
<1>3. tl[b].left.stage = "red" /\ tl[b].left.mark = mark
  BY <1>1 DEF RedTree
<1> QED  BY <1>1, <1>2, <1>3 DEF Completed

LEMMA MatrixJudges ==
    ASSUME MatrixInv, NEW k \in Processes, M!Judge(k)
    PROVE  MatrixInv'
<1>1. tester[k].at = "judge" /\ UNCHANGED <<listed, matrix, on>>
  BY DEF M!Judge, M!At
<1>2. PICK i \in TestJob, r \in M!Rows :
         /\ i = tester[k] /\ r = Row(i) /\ r = M!TheRow(k) /\ Placed(i)
         /\ Grasps(i, row[r], told[r])
  BY <1>1, TesterAtRow DEF RowPlaces
<1>3. AtWork(i) /\ ~Asking(i) /\ i.phase # "none" /\ i.kind \in {"run", "resume"}
  BY <1>1, <1>2, AtSessionHolds DEF AtSession
<1>4. PICK v \in RowState, old \in Seq(Said) : v = row[r] /\ old = told[r]
  BY MatrixRowFacts
<1>5. PICK ok \in BOOLEAN : ok = M!Contract(k)
  BY <1>2 DEF M!Contract, M!SessionSuccess, M!Interrupted, M!Completed
<1>6. PICK whole \in BOOLEAN : whole = AsPrepared(Session(i))
  BY DEF AsPrepared
<1>7. /\ M!SessionHost(k) = Session(i)
      /\ (M!PackageUnchanged({M!SessionHost(k)}) /\ M!ToolsUnchanged) = whole
  <2>1. M!SessionHost(k) = Session(i)
    BY <1>2 DEF M!SessionHost, M!ResumedBy, Session, Resumer
  <2>2. (M!PackageUnchanged({Session(i)}) /\ M!ToolsUnchanged) <=> AsPrepared(Session(i))
    BY DEF M!PackageUnchanged, M!ToolsUnchanged, AsPrepared
  <2> QED  BY <1>6, <2>1, <2>2
\* What the session is said to have been.
<1>8. PICK e \in Said :
         /\ e = IF ~M!Contract(k) THEN M!Unmet
                ELSE [phase |-> i.phase, host |-> Session(i), found |-> i.found,
                      left |-> v.work, whole |-> whole]
         /\ ok => /\ e.phase = i.phase /\ e.host = Session(i) /\ e.found = i.found
                  /\ e.left = v.work /\ e.whole = whole
  <2>1. CASE ok
    <3>1. PICK phase \in Phases, host \in HostNames, found \in Tree, left \in Tree :
             phase = i.phase /\ host = Session(i) /\ found = i.found /\ left = v.work
      BY <1>4 DEF TestJob, RowState, Session, Resumer, HostNames, M!ResumeHost
    <3>2. PICK e : e = [phase |-> phase, host |-> host, found |-> found, left |-> left,
                        whole |-> whole]
      OBVIOUS
    <3>3. /\ e \in Said /\ e.phase = phase /\ e.host = host /\ e.found = found /\ e.left = left
          /\ e.whole = whole
      BY <3>2 DEF Said
    <3>4. e = [phase |-> i.phase, host |-> Session(i), found |-> i.found,
               left |-> v.work, whole |-> whole]
      BY <3>1, <3>2, Zenon
    <3> QED  BY <1>5, <2>1, <3>1, <3>3, <3>4
  <2>2. CASE ~ok
    <3>1. PICK none \in {"none"}, gone \in Tree, no \in BOOLEAN :
             none = "none" /\ gone = M!Gone /\ no = FALSE
      BY TreesTyped
    <3>2. PICK e : e = [phase |-> none, host |-> none, found |-> gone, left |-> gone, whole |-> no]
      OBVIOUS
    <3>3. e \in Said
      BY <3>1, <3>2 DEF Said, Phases
    <3>4. e = M!Unmet
      BY <3>1, <3>2, Zenon DEF M!Unmet
    <3> QED  BY <1>5, <2>2, <3>3, <3>4
  <2> QED  BY <2>1, <2>2
<1>9. PICK tl \in Seq(Said), n \in Nat :
         /\ told' = [told EXCEPT ![r] = tl] /\ Grown(old, tl) /\ n = Len(old) /\ Len(tl) = n + 1
         /\ tl[n + 1] = e
  <2>1. told' = [told EXCEPT ![r] = Append(old, e)]
    <3>1. told' = [told EXCEPT ![r] = Append(@, e)]
      BY <1>2, <1>4, <1>7, <1>8 DEF M!Judge, M!Here
    <3> QED  BY <1>4, <3>1
  <2>2. PICK tl : tl = Append(old, e)
    OBVIOUS
  <2>3. PICK n \in Nat : n = Len(old)
    BY LenProperties
  <2>4. /\ tl \in Seq(Said) /\ Len(tl) = n + 1 /\ tl[n + 1] = e
        /\ \A a \in 1..Len(old) : tl[a] = old[a]
    BY <2>2, <2>3, SaidStays
  <2>5. Len(old) <= Len(tl) /\ told' = [told EXCEPT ![r] = tl]
    BY <2>1, <2>2, <2>3, <2>4
  <2>6. Grown(old, tl)
    BY <2>4, <2>5 DEF Grown
  <2> QED  BY <2>3, <2>4, <2>5, <2>6
\* A good checkpoint is copied, and nothing else changes of the row.
<1>10. PICK w \in RowState :
         /\ row' = [row EXCEPT ![r] = w] /\ row'[r] = w /\ w.result = v.result
         /\ w.made = v.made /\ w.previous = v.previous /\ w.cross = v.cross
         /\ w.work = v.work /\ w.loose = v.loose
  <2>1. CASE i.phase = "implement" /\ M!Contract(k)
    <3>1. PICK w : w = [v EXCEPT !.point = v.work, !.evidence = v.work]
      OBVIOUS
    <3>2. /\ w \in RowState /\ w.result = v.result /\ w.made = v.made /\ w.previous = v.previous
          /\ w.cross = v.cross /\ w.work = v.work /\ w.loose = v.loose
      BY <3>1 DEF RowState
    <3>3. M!Set(k, w)
      BY <1>2, <1>4, <2>1, <3>1 DEF M!Judge, M!Here
    <3> QED  BY <1>2, <3>2, <3>3, RowBecomes
  <2>2. CASE ~(i.phase = "implement" /\ M!Contract(k))
    <3>1. UNCHANGED row
      BY <1>2, <2>2 DEF M!Judge
    <3> QED  BY <1>4, <3>1, MatrixRowFacts
  <2> QED  BY <2>1, <2>2
<1>11. PICK j \in TestJob :
         /\ tester' = [tester EXCEPT ![k] = j] /\ j.at = "seal" /\ j.kind = i.kind
         /\ j.todo = i.todo /\ j.host = i.host /\ j.phase = i.phase /\ j.child = "none"
         /\ j.result.mark = i.result.mark /\ j.result.pending = i.result.pending
         /\ j.result.status = i.result.status /\ (j.good => ok)
  <2>1. PICK native \in BOOLEAN :
           tester' = [tester EXCEPT ![k].at = "seal", ![k].child = "none",
                                    ![k].good = native /\ M!Contract(k),
                                    ![k].result.sessions = @ + 1]
    BY DEF M!Judge
  <2>2. PICK place \in RowPlaces, none \in {"none"}, good \in BOOLEAN :
           place = "seal" /\ none = "none" /\ good = (native /\ M!Contract(k))
    BY <1>5 DEF RowPlaces
  <2>3. PICK res0 \in RowResult : res0 = i.result
    BY DEF TestJob
  <2>4. PICK number \in Nat : number = res0.sessions + 1
    BY DEF RowResult
  <2>5. PICK res : res = [res0 EXCEPT !.sessions = number]
    OBVIOUS
  <2>6. /\ res \in RowResult /\ res.mark = res0.mark /\ res.pending = res0.pending
        /\ res.status = res0.status
    BY <2>5 DEF RowResult
  <2>7. PICK j : j = [i EXCEPT !.at = place, !.child = none, !.good = good, !.result = res]
    OBVIOUS
  <2>8. tester' = [tester EXCEPT ![k] = j]
    <3>1. tester' = [tester EXCEPT ![k].at = place, ![k].child = none, ![k].good = good,
                                   ![k].result.sessions = @ + 1]
      BY <2>1, <2>2, Zenon
    <3> QED  BY <1>2, <2>3, <2>4, <2>5, <2>7, <3>1, ZenonT(40)
  <2>9. /\ j \in TestJob /\ j.at = place /\ j.kind = i.kind /\ j.todo = i.todo
        /\ j.host = i.host /\ j.phase = i.phase /\ j.child = none /\ j.result = res
        /\ j.good = good
    BY <2>2, <2>6, <2>7 DEF TestJob
  <2>a. good => ok
    BY <1>5, <2>2
  <2> QED  BY <2>2, <2>3, <2>6, <2>8, <2>9, <2>a
<1>12. /\ Row(j) = r /\ ~Asking(j) /\ Owning(j) = Owning(i) /\ Crossing(j) = Crossing(i)
       /\ Session(j) = Session(i) /\ Resumer(j) = Resumer(i)
  BY <1>1, <1>2, <1>11 DEF Row, Owning, Crossing, Asking, AtSession, Session, Resumer
<1>13. Placed(j)
  BY <1>1, <1>2, <1>3, <1>11, <1>12 DEF Placed, RowPlaces, AtSession
<1>14. ok => ~v.loose
  BY <1>1, <1>2, <1>3, <1>4, <1>5
  DEF Grasps, M!Contract, M!SessionSuccess, M!Interrupted, AtSession
<1>15. /\ i.phase = "implement" => Planned(old, n) /\ Planned(tl, n) /\ Planned(tl, n + 1)
       /\ i.phase \in {"resume", "cross"} =>
             /\ Stopped(tl, n, i.result.mark) /\ Stopped(tl, n + 1, i.result.mark)
             /\ i.found = RedTree(i.result.mark)
  <2>1. /\ i.phase = "implement" => Planned(old, Len(old))
        /\ i.phase \in {"resume", "cross"} =>
              Stopped(old, Len(old), i.result.mark) /\ i.found = RedTree(i.result.mark)
    BY <1>1, <1>2, <1>3, <1>4 DEF Grasps, AtSession
  <2>2. ASSUME NEW m \in {n, n + 1}
        PROVE  /\ Planned(old, Len(old)) => Planned(tl, m)
               /\ \A mark \in Nat : Stopped(old, Len(old), mark) => Stopped(tl, m, mark)
    <3>1. m \in Nat /\ Len(old) <= m
      BY <1>9
    <3> QED  BY <1>9, <3>1, StillSo
  <2>3. i.result.mark \in Nat
    BY DEF TestJob, RowResult
  <2> QED  BY <1>9, <2>1, <2>2, <2>3
<1>16. ASSUME ok
       PROVE  /\ i.phase = "implement" => v.work = RedTree(i.result.mark)
              /\ i.phase \in {"resume", "cross"} => v.work = DoneTree(i.result.mark)
  BY <1>2, <1>4, <1>5, <1>16
  DEF M!Contract, M!Interrupted, M!Completed, RedTree, DoneTree, M!Here
<1>17. Grasps(j, w, tl)
  <2>1. /\ Owning(j) => FirstOf(Row(j)) \in w.made
        /\ Crossing(j) => w.previous /\ FirstOf(Row(j)) \in w.made
    BY <1>2, <1>4, <1>10, <1>12 DEF Grasps
  <2>2. w.loose => ~j.good
    BY <1>10, <1>11, <1>14
  <2>3. ASSUME j.good
        PROVE  /\ n + 1 # 0 /\ tl[n + 1].phase = j.phase
               /\ (AsPrepared(Session(j)) => tl[n + 1].whole)
               /\ j.phase = "implement" =>
                     /\ Planned(tl, (n + 1) - 1) /\ tl[n + 1].left = RedTree(j.result.mark)
                     /\ w.work = RedTree(j.result.mark)
               /\ j.phase \in {"resume", "cross"} =>
                     /\ Stopped(tl, (n + 1) - 1, j.result.mark) /\ tl[n + 1].host = Resumer(j)
                     /\ tl[n + 1].found = RedTree(j.result.mark)
                     /\ tl[n + 1].left = DoneTree(j.result.mark)
    <3>1. ok /\ (n + 1) - 1 = n /\ n + 1 # 0
      BY <1>11, <2>3
    <3>2. /\ e.phase = i.phase /\ e.host = Session(i) /\ e.found = i.found
          /\ e.left = v.work /\ e.whole = whole
      BY <1>8, <3>1
    <3>3. i.phase \in {"resume", "cross"} => Session(i) = Resumer(i)
      BY DEF Session
    <3> QED  BY <1>6, <1>9, <1>10, <1>11, <1>12, <1>15, <1>16, <3>1, <3>2, <3>3
  <2> QED  BY <1>9, <1>11, <1>12, <1>15, <2>1, <2>2, <2>3 DEF Grasps, AtSession
<1>18. RowSays(r)'
  <2>1. RowSays(r)
    BY MatrixRowFacts
  <2>2. row'[r] = w /\ told'[r] = tl
    BY <1>9, <1>10 DEF MatrixInv, MatrixTypes
  <2>3. v.result.pending => Stopped(tl, Len(tl), v.result.mark)
    <3>1. v.result.pending => Stopped(old, Len(old), v.result.mark)
      BY <1>4, <2>1 DEF RowSays
    <3>2. PICK m \in Nat, mark \in Nat : m = Len(tl) /\ Len(old) <= m /\ mark = v.result.mark
      BY <1>9 DEF RowState, RowResult
    <3>3. Stopped(old, Len(old), mark) => Stopped(tl, m, mark)
      BY <1>9, <3>2, StillSo
    <3> QED  BY <3>1, <3>2, <3>3
  <2>4. /\ Declined(old) => Declined(tl)
        /\ \A last, host : Completed(old, last, host) => Completed(tl, last, host)
    BY <1>9, StillSo
  <2> QED  BY <1>1, <1>4, <1>10, <2>1, <2>2, <2>3, <2>4 DEF RowSays, Claimed, M!ResumeHost, FirstOf
<1>19. w.result.pending \/ w.previous \/ Asking(j) => Settled(r)
  BY <1>4, <1>10, <1>12, MatrixRowFacts DEF Past
<1>20. /\ row[r].made \subseteq w.made /\ (row[r].previous => w.previous)
       /\ (w.loose => w.previous \/ row[r].loose \/ Owning(i)) /\ j.at # "record"
       /\ (Owning(j) => Owning(i) \/ ~Claimed(r)) /\ Grown(told[r], tl)
  BY <1>4, <1>9, <1>10, <1>11, <1>12
<1> QED  BY <1>1, <1>2, <1>3, <1>9, <1>10, <1>11, <1>12, <1>13, <1>17, <1>18, <1>19, <1>20, MatrixSteps

LEMMA MatrixSeals ==
    ASSUME MatrixInv, NEW k \in Processes, M!Seal(k)
    PROVE  MatrixInv'
<1>1. tester[k].at = "seal" /\ UNCHANGED <<listed, matrix, on, told>>
  BY DEF M!Seal, M!At, M!Aside
<1>2. PICK i \in TestJob, r \in M!Rows :
         /\ i = tester[k] /\ r = Row(i) /\ r = M!TheRow(k) /\ Placed(i)
         /\ Grasps(i, row[r], told[r])
  BY <1>1, TesterAtRow DEF RowPlaces
<1>3. /\ AtWork(i) /\ ~Asking(i) /\ i.phase # "none" /\ i.kind \in {"run", "resume"}
      /\ (i.kind = "run" => Owning(i)) /\ (i.kind = "resume" => Crossing(i))
  BY <1>1, <1>2, AtSessionHolds DEF AtSession
<1>4. PICK v \in RowState, n \in Nat, mark \in Nat :
         v = row[r] /\ n = Len(told[r]) /\ mark = i.result.mark
  BY MatrixRowFacts, LenProperties DEF TestJob, RowResult
<1>5. PICK tl \in Seq(Said) :
         tl = told[r] /\ told' = [told EXCEPT ![r] = tl] /\ Grown(told[r], tl)
  BY <1>1, NothingSaid
<1>6. PICK ok \in BOOLEAN :
         /\ ok => i.good /\ M!PackageUnchanged(M!UsedHosts(k)) /\ M!ToolsUnchanged
         /\ \/ /\ i.kind = "resume" /\ M!Stop(k)
               /\ M!Set(k, [v EXCEPT !.cross = IF ok THEN "passed" ELSE "failed"])
            \/ /\ i.kind # "resume" /\ ~ok /\ M!Stop(k)
               /\ M!SetResult(k, [i.result EXCEPT !.status = "failed"])
            \/ /\ i.kind # "resume" /\ ok
               /\ M!SetResult(k, [i.result EXCEPT !.status = "running"])
               /\ IF M!LastPhase(k) THEN M!GoTo(k, "finish")
                  ELSE tester' = [tester EXCEPT ![k].at = "phase", ![k].phase = M!After(@)]
  <2>1. PICK late \in BOOLEAN :
           LET ok == /\ tester[k].good /\ ~late /\ M!PackageUnchanged(M!UsedHosts(k))
                     /\ M!ToolsUnchanged
               res == [tester[k].result EXCEPT !.status = IF ok THEN "running" ELSE "failed"] IN
           CASE tester[k].kind = "resume" ->
                  /\ M!Stop(k)
                  /\ M!Set(k, [M!Here(k) EXCEPT !.cross = IF ok THEN "passed" ELSE "failed"])
             [] tester[k].kind # "resume" /\ ~ok -> M!Stop(k) /\ M!SetResult(k, res)
             [] OTHER ->
                  /\ M!SetResult(k, res)
                  /\ IF M!LastPhase(k) THEN M!GoTo(k, "finish")
                     ELSE tester' = [tester EXCEPT ![k].at = "phase", ![k].phase = M!After(@)]
    BY DEF M!Seal
  <2>2. PICK ok \in BOOLEAN :
           ok = (/\ tester[k].good /\ ~late /\ M!PackageUnchanged(M!UsedHosts(k))
                 /\ M!ToolsUnchanged)
    BY DEF M!PackageUnchanged, M!ToolsUnchanged
  <2>3. LET res == [tester[k].result EXCEPT !.status = IF ok THEN "running" ELSE "failed"] IN
           CASE tester[k].kind = "resume" ->
                  /\ M!Stop(k)
                  /\ M!Set(k, [M!Here(k) EXCEPT !.cross = IF ok THEN "passed" ELSE "failed"])
             [] tester[k].kind # "resume" /\ ~ok -> M!Stop(k) /\ M!SetResult(k, res)
             [] OTHER ->
                  /\ M!SetResult(k, res)
                  /\ IF M!LastPhase(k) THEN M!GoTo(k, "finish")
                     ELSE tester' = [tester EXCEPT ![k].at = "phase", ![k].phase = M!After(@)]
    BY <2>1, <2>2, Zenon
  <2>4. M!Here(k) = v
    BY <1>2, <1>4 DEF M!Here
  <2>5. CASE tester[k].kind = "resume"
    BY <1>2, <2>2, <2>3, <2>4, <2>5
  <2>6. CASE tester[k].kind # "resume" /\ ~ok
    BY <1>2, <2>2, <2>3, <2>6
  <2>7. CASE tester[k].kind # "resume" /\ ok
    BY <1>2, <2>2, <2>3, <2>7
  <2> QED  BY <2>5, <2>6, <2>7
<1>7. ok => AsPrepared(Session(i))
  <2>1. Session(i) \in M!UsedHosts(k)
    BY <1>2, <1>3 DEF Session, Resumer, M!UsedHosts, M!ResumedBy, Placed, AtSession, Crossing, Asking, FirstOf
  <2> QED  BY <1>6, <2>1 DEF AsPrepared, M!PackageUnchanged, M!ToolsUnchanged
\* What a good session that was as prepared has shown.
<1>8. ok => /\ ~v.loose /\ n # 0 /\ tl[n].phase = i.phase /\ tl[n].whole
            /\ i.phase = "implement" =>
                  Planned(tl, n - 1) /\ tl[n].left = RedTree(mark) /\ v.work = RedTree(mark)
            /\ i.phase \in {"resume", "cross"} =>
                  /\ Stopped(tl, n - 1, mark) /\ tl[n].host = Resumer(i)
                  /\ tl[n].found = RedTree(mark) /\ tl[n].left = DoneTree(mark)
  BY <1>1, <1>2, <1>3, <1>4, <1>5, <1>6, <1>7 DEF Grasps
<1>9. ok /\ i.phase \in {"resume", "cross"} => Completed(tl, i.phase, Resumer(i))
  BY <1>4, <1>5, <1>8, LastCompletes
<1>10. PICK rest \in TestJob : rest = M!Idle
  BY TesterIdle
<1>11. /\ Placed(rest) /\ ~AtWork(rest) /\ ~Asking(rest) /\ ~Owning(rest) /\ rest.at = "idle"
       /\ \A x, y : Grasps(rest, x, y)
  BY <1>10, RestsSo
<1>12. CASE /\ i.kind = "resume" /\ M!Stop(k)
            /\ M!Set(k, [v EXCEPT !.cross = IF ok THEN "passed" ELSE "failed"])
  <2>1. PICK cross \in {"passed", "failed"} : cross = IF ok THEN "passed" ELSE "failed"
    OBVIOUS
  <2>2. PICK w : w = [v EXCEPT !.cross = cross]
    OBVIOUS
  <2>3. /\ w \in RowState /\ w.result = v.result /\ w.made = v.made /\ w.work = v.work
        /\ w.previous = v.previous /\ w.cross = cross /\ w.loose = v.loose
    BY <2>1, <2>2 DEF RowState
  <2>4. M!Set(k, w)
    BY <1>12, <2>1, <2>2, Zenon
  <2>5. row' = [row EXCEPT ![r] = w] /\ row'[r] = w
    BY <1>2, <2>3, <2>4, RowBecomes
  <2>6. tester' = [tester EXCEPT ![k] = rest]
    BY <1>10, <1>12 DEF M!Stop
  <2>7. i.phase = "cross" /\ Resumer(i) = M!ResumeHost(r) /\ r \notin Declines
    BY <1>1, <1>2, <1>12 DEF Placed, RowPlaces, Resumer
  <2>8. told'[r] = tl
    BY <1>1, <1>5
  <2>9. RowSays(r)'
    BY <1>1, <1>4, <1>5, <1>9, <2>1, <2>3, <2>5, <2>7, <2>8, MatrixRowFacts
    DEF RowSays, Claimed, M!ResumeHost, FirstOf
  <2>a. w.result.pending \/ w.previous \/ Asking(rest) => Settled(r)
    BY <1>4, <1>11, <2>3, MatrixRowFacts DEF Past
  <2>b. /\ row[r].made \subseteq w.made /\ (row[r].previous => w.previous)
        /\ (w.loose => w.previous \/ row[r].loose \/ Owning(i)) /\ rest.at # "record"
    BY <1>4, <1>11, <2>3
  <2> QED  BY <1>1, <1>2, <1>3, <1>5, <1>11, <2>3, <2>5, <2>6, <2>9, <2>a, <2>b, MatrixSteps
<1>13. CASE /\ i.kind # "resume" /\ ~ok /\ M!Stop(k)
            /\ M!SetResult(k, [i.result EXCEPT !.status = "failed"])
  <2>1. i.result \in RowResult /\ ~i.result.pending
    BY <1>2, <1>3, <1>13 DEF TestJob, Placed
  <2>2. PICK res \in RowResult : /\ M!SetResult(k, res) /\ ~res.pending /\ res.status # "passed"
    BY <1>13, <2>1, OtherResult
  <2>3. tester' = [tester EXCEPT ![k] = rest]
    BY <1>10, <1>13 DEF M!Stop
  <2> QED  BY <1>1, <1>2, <1>11, <2>2, <2>3, MatrixUnclaims
<1>14. CASE /\ i.kind # "resume" /\ ok
            /\ M!SetResult(k, [i.result EXCEPT !.status = "running"])
            /\ IF M!LastPhase(k) THEN M!GoTo(k, "finish")
               ELSE tester' = [tester EXCEPT ![k].at = "phase", ![k].phase = M!After(@)]
  <2>1. i.kind = "run" /\ Owning(i) /\ i.child # "alive" /\ ~Crossing(i)
    BY <1>1, <1>2, <1>3, <1>14 DEF Placed, Crossing
  <2>2. i.result \in RowResult /\ ~i.result.pending
    BY <1>2, <2>1 DEF TestJob, Placed
  <2>3. PICK res \in RowResult : /\ M!SetResult(k, res) /\ ~res.pending /\ res.status # "passed"
    BY <1>14, <2>2, OtherResult
  <2>4. /\ FirstOf(r) \in v.made
        /\ (i.phase \in {"resume", "cross"} => Stopped(tl, n, mark))
        /\ (i.phase = "implement" => Planned(tl, n))
    BY <1>2, <1>3, <1>4, <1>5, <2>1 DEF Grasps
  <2>5. CASE M!LastPhase(k) /\ M!GoTo(k, "finish")
    <3>1. PICK j \in TestJob :
             /\ tester' = [tester EXCEPT ![k] = j] /\ j.at = "finish"
             /\ j.kind = i.kind /\ j.todo = i.todo /\ j.host = i.host /\ j.phase = i.phase
             /\ j.child = i.child /\ j.result = i.result
      <4>1. "finish" \in RowPlaces \cup {"idle", "identify", "stage", "record"}
        BY DEF RowPlaces
      <4> QED  BY <1>2, <2>5, <4>1, GoesToPlace
    <3>2. i.phase \in {"unsupported", "resume"}
      BY <1>2, <2>5 DEF M!LastPhase
    <3>3. Row(j) = r /\ ~Asking(j) /\ Owning(j) /\ ~Crossing(j) /\ Resumer(j) = Resumer(i)
      BY <1>2, <2>1, <3>1, <3>2 DEF Row, Owning, Crossing, Asking, AtSession, Resumer
    <3>4. Placed(j)
      BY <1>1, <1>2, <2>1, <3>1, <3>2, <3>3 DEF Placed, RowPlaces, AtSession
    <3>5. i.phase = "unsupported" => Declined(tl)
      <4>1. n \in 1..Len(tl)
        BY <1>4, <1>5, <1>8, <1>14
      <4> QED  BY <1>8, <1>14, <4>1 DEF Declined
    <3>6. i.phase = "resume" => Completed(tl, "resume", Resumer(i))
      BY <1>9, <1>14
    <3>7. Grasps(j, v, tl)
      BY <1>4, <1>5, <1>8, <1>14, <2>4, <3>1, <3>2, <3>3, <3>5, <3>6 DEF Grasps, AtSession
    <3>8. Grasps(j, row[r], told[r]) /\ (AtWork(j) => AtWork(i)) /\ j.at # "record"
      BY <1>3, <1>4, <1>5, <3>1, <3>7
    <3> QED  BY <1>1, <1>2, <2>1, <2>3, <3>1, <3>3, <3>4, <3>8, MatrixUnclaims
  <2>6. CASE /\ ~M!LastPhase(k)
             /\ tester' = [tester EXCEPT ![k].at = "phase", ![k].phase = M!After(@)]
    <3>1. PICK place \in RowPlaces, phase \in Phases :
             place = "phase" /\ phase = M!After(i.phase) /\ phase \in {"implement", "resume"}
      BY DEF RowPlaces, Phases, M!After
    <3>2. PICK j : j = [i EXCEPT !.at = place, !.phase = phase]
      OBVIOUS
    <3>3. tester' = [tester EXCEPT ![k] = j]
      <4>1. tester' = [tester EXCEPT ![k].at = place, ![k].phase = phase]
        BY <1>2, <2>6, <3>1
      <4> QED  BY <1>2, <3>2, <4>1
    <3>4. /\ j \in TestJob /\ j.at = place /\ j.kind = i.kind /\ j.todo = i.todo
          /\ j.host = i.host /\ j.phase = phase /\ j.child = i.child /\ j.result = i.result
      BY <3>1, <3>2 DEF TestJob
    <3>5. Row(j) = r /\ ~Asking(j) /\ Owning(j) /\ ~Crossing(j) /\ Resumer(j) = Resumer(i)
      BY <1>2, <2>1, <3>1, <3>4 DEF Row, Owning, Crossing, Asking, AtSession, Resumer
    <3>6. \/ i.phase = "plan" /\ phase = "implement"
          \/ i.phase = "implement" /\ phase = "resume"
      BY <1>1, <1>2, <2>1, <2>6, <3>1 DEF Placed, FirstOf, M!LastPhase, M!After
    <3>7. r \notin Declines
      BY <1>2, <2>1, <3>6 DEF Placed, FirstOf
    <3>8. Placed(j)
      BY <1>1, <1>2, <2>1, <3>1, <3>4, <3>5, <3>7 DEF Placed, RowPlaces, AtSession
    <3>9. phase = "implement" => Planned(tl, n)
      <4>1. i.phase = "plan" => n \in 1..n /\ tl[n].phase = "plan" /\ tl[n].whole
        BY <1>8, <1>14
      <4> QED  BY <3>6, <4>1 DEF Planned
    <3>a. phase = "resume" => Stopped(tl, n, mark) /\ v.work = RedTree(mark)
      <4> SUFFICES ASSUME phase = "resume"
                   PROVE  Stopped(tl, n, mark) /\ v.work = RedTree(mark)
        OBVIOUS
      <4>1. /\ Planned(tl, n - 1) /\ tl[n].left = RedTree(mark) /\ v.work = RedTree(mark)
            /\ tl[n].phase = "implement" /\ tl[n].whole /\ n # 0
        BY <1>8, <1>14, <3>6
      <4>2. PICK a \in 1..(n - 1) : tl[a].phase = "plan" /\ tl[a].whole
        BY <4>1 DEF Planned
      <4>3. a \in 1..n /\ n \in 1..n /\ a < n
        BY <4>1, <4>2
      <4> QED  BY <4>1, <4>2, <4>3 DEF Stopped
    <3>b. Grasps(j, v, tl)
      BY <1>4, <1>5, <1>8, <1>14, <2>4, <3>1, <3>4, <3>5, <3>9, <3>a DEF Grasps, AtSession
    <3>c. Grasps(j, row[r], told[r]) /\ (AtWork(j) => AtWork(i)) /\ j.at # "record"
      BY <1>3, <1>4, <1>5, <3>1, <3>4, <3>b
    <3> QED  BY <1>1, <1>2, <2>1, <2>3, <3>3, <3>4, <3>5, <3>8, <3>c, MatrixUnclaims
  <2> QED  BY <1>14, <2>5, <2>6
<1> QED  BY <1>6, <1>12, <1>13, <1>14

LEMMA MatrixFinishes ==
    ASSUME MatrixInv, NEW k \in Processes, M!Finish(k)
    PROVE  MatrixInv'
<1>1. tester[k].at = "finish" /\ UNCHANGED <<listed, matrix, on, told>> /\ M!Next(k)
  BY DEF M!Finish, M!At, M!Aside
<1>2. PICK i \in TestJob, r \in M!Rows :
         /\ i = tester[k] /\ r = Row(i) /\ r = M!TheRow(k) /\ Placed(i) /\ i.at \in RowPlaces
         /\ Grasps(i, row[r], told[r])
  BY <1>1, TesterAtRow DEF RowPlaces
<1>3. i.kind = "run" /\ Owning(i) /\ AtWork(i) /\ i.phase \in {"unsupported", "resume"}
  BY <1>1, <1>2, AtSessionHolds DEF Placed, Crossing, AtSession
<1>4. PICK v \in RowState, old \in RowResult : v = row[r] /\ old = i.result
  BY MatrixRowFacts DEF TestJob
<1>5. PICK tl \in Seq(Said) :
         tl = told[r] /\ told' = [told EXCEPT ![r] = tl] /\ Grown(told[r], tl)
  BY <1>1, NothingSaid
<1>6. PICK later \in BOOLEAN : later = (r \notin Declines /\ M!ResumeHost(r) # Resumer(i))
  OBVIOUS
<1>7. PICK status \in {"partial", "passed"} : status = IF later THEN "partial" ELSE "passed"
  OBVIOUS
<1>8. PICK res : res = [old EXCEPT !.pending = later, !.status = status]
  OBVIOUS
<1>9. /\ res \in RowResult /\ res.pending = later /\ res.status = status
      /\ res.mark = old.mark
  BY <1>7, <1>8 DEF RowResult
<1>10. M!SetResult(k, res)
  <2>1. M!ResumedBy(k) = Resumer(i)
    BY <1>2 DEF M!ResumedBy, Resumer
  <2> QED  BY <1>2, <1>4, <1>6, <1>7, <1>8, <2>1 DEF M!Finish
<1>11. PICK w \in RowState :
         /\ row' = [row EXCEPT ![r] = w] /\ w.result = res /\ row'[r] = w
         /\ w.made = v.made /\ w.work = v.work /\ w.previous = v.previous
         /\ w.loose = v.loose /\ w.cross = v.cross
  BY <1>2, <1>4, <1>9, <1>10, ResultBecomes
<1>12. PICK j \in TestJob :
          /\ tester' = [tester EXCEPT ![k] = j] /\ Placed(j) /\ ~AtWork(j) /\ ~Asking(j)
          /\ ~Owning(j) /\ j.at \in {"idle", "look"} /\ \A x, y : Grasps(j, x, y)
  BY <1>1, <1>2, <1>3, NextRow
<1>13. /\ ~v.loose /\ FirstOf(r) \in v.made
       /\ (i.phase = "unsupported" => Declined(tl))
       /\ (i.phase = "resume" => /\ Completed(tl, "resume", Resumer(i))
                                 /\ Stopped(tl, Len(tl), old.mark))
  BY <1>1, <1>2, <1>3, <1>4, <1>5 DEF Grasps
<1>14. i.phase = "unsupported" <=> r \in Declines
  BY <1>2, <1>3 DEF Placed, FirstOf
<1>15. RowSays(r)'
  <2>1. told'[r] = tl
    BY <1>1, <1>5
  <2>2. later => r \notin Declines /\ Stopped(tl, Len(tl), old.mark)
    BY <1>3, <1>6, <1>13, <1>14
  <2>3. ~later => IF r \in Declines THEN Declined(tl)
                  ELSE Completed(tl, "resume", M!ResumeHost(r))
    BY <1>3, <1>6, <1>13, <1>14
  <2>4. status = "passed" => ~later
    BY <1>7
  <2>5. v.cross = "passed" => r \notin Declines /\ Completed(tl, "cross", M!ResumeHost(r))
    BY <1>4, <1>5, MatrixRowFacts DEF RowSays
  <2>6. w.loose => FirstOf(r) \in w.made
    BY <1>11, <1>13
  <2>7. M!ResumeHost(r)' = M!ResumeHost(r)
    BY DEF M!ResumeHost
  <2> QED  BY <1>9, <1>11, <2>1, <2>2, <2>3, <2>4, <2>5, <2>6, <2>7 DEF RowSays, Claimed, FirstOf
<1>16. /\ row[r].made \subseteq w.made /\ (row[r].previous => w.previous)
       /\ (w.loose => w.previous \/ row[r].loose \/ Owning(i)) /\ j.at # "record"
       /\ (w.result.pending \/ w.previous \/ Asking(j) =>
             Settled(r) \/ (Owning(i) /\ ~AtWork(j) /\ ~w.loose))
  BY <1>3, <1>4, <1>11, <1>12, <1>13
<1> QED  BY <1>1, <1>2, <1>3, <1>5, <1>11, <1>12, <1>15, <1>16, MatrixSteps

LEMMA RowEmpty ==
    /\ M!Empty \in RowState /\ ~M!Empty.loose /\ ~M!Empty.previous /\ M!Empty.cross = "none"
    /\ M!Empty.result = M!NoResult
<1>1. PICK res \in RowResult, none \in SUBSET Phases, base \in Tree, gone \in Tree,
           no \in BOOLEAN, not \in {"none"} :
         /\ res = M!NoResult /\ none = {} /\ base = M!Base /\ gone = M!Gone /\ no = FALSE
         /\ not = "none"
  BY NoResultTyped, TreesTyped
<1>2. PICK w : w = [result |-> res, made |-> none, work |-> base, point |-> gone,
                    evidence |-> gone, previous |-> no, cross |-> not, loose |-> no]
  OBVIOUS
<1>3. w \in RowState /\ w.loose = no /\ w.previous = no /\ w.cross = not /\ w.result = res
  BY <1>1, <1>2 DEF RowState
<1>4. M!Empty = w
  BY <1>1, <1>2, Zenon DEF M!Empty
<1> QED  BY <1>1, <1>3, <1>4

LEMMA MatrixStartsSo ==
    ASSUME M!MatrixInit
    PROVE  MatrixInv
<1>1. listed \in Seq(Nat) /\ listed # << >>
  <2>1. listed \in {<<1>>, <<2, 3>>}
    BY Zenon DEF M!MatrixInit, Moves
  <2>2. <<1>> \in Seq(Nat) /\ <<2, 3>> \in Seq(Nat) /\ Len(<<1>>) = 1 /\ Len(<<2, 3>>) = 2
    OBVIOUS
  <2> QED  BY <2>1, <2>2, EmptySeq
<1>2. PICK i \in TestJob : i = M!Idle
  BY TesterIdle
<1>3. PICK w \in RowState : w = M!Empty
  BY RowEmpty
<1>4. PICK tl \in Seq(Said) : tl = << >>
  BY EmptySeq
<1>5. /\ \A q \in Processes : tester[q] = i
      /\ \A r \in M!Rows : row[r] = w /\ told[r] = tl
      /\ tester \in [Processes -> TestJob] /\ row \in [M!Rows -> RowState]
      /\ told \in [M!Rows -> Seq(Said)]
  BY <1>2, <1>3, <1>4 DEF M!MatrixInit
<1>6. /\ matrix \in [package : Nat, tools : Nat] /\ on \in [M!Items -> Nat] /\ Versions
  <2>1. matrix = M!NoMatrix \/ matrix = [package |-> 1, tools |-> 1]
    BY DEF M!MatrixInit
  <2>2. /\ on \in [M!Items -> Nat] /\ on["root"] = 1 /\ on["tools"] = 1
        /\ (matrix = M!NoMatrix => on[M!Home] = 0 /\ on[M!Away] = 0)
        /\ (matrix # M!NoMatrix => on[M!Home] = 1 /\ on[M!Away] = 1)
    BY DEF M!MatrixInit, M!Items, M!Home, M!Away
  <2>3. matrix # M!NoMatrix => matrix.package = 1 /\ matrix.tools = 1
    BY <2>1
  <2>4. matrix \in [package : Nat, tools : Nat]
    BY <2>1 DEF M!NoMatrix
  <2> QED  BY <2>2, <2>3, <2>4 DEF Versions
<1>7. /\ Placed(i) /\ ~AtWork(i) /\ ~Asking(i) /\ ~Owning(i) /\ i.at = "idle"
      /\ \A x, y : Grasps(i, x, y)
  BY <1>2, RestsSo
<1>8. ASSUME NEW r \in M!Rows PROVE RowSays(r) /\ ~Past(r)
  <2>1. row[r] = w /\ ~w.loose /\ ~w.previous /\ w.cross = "none" /\ w.result = M!NoResult
    BY <1>3, <1>5, RowEmpty
  <2>2. ~w.result.pending /\ w.result.status = "none"
    BY <2>1, NoResultTyped
  <2> QED  BY <1>5, <1>7, <2>1, <2>2 DEF RowSays, Past
<1>9. \A q \in Processes : Knows(tester[q])
  BY <1>5, <1>7 DEF Knows
<1>10. \A q \in Processes, s \in Processes : q # s => Parted(tester[q], tester[s])
  BY <1>5, <1>7 DEF Parted
<1> QED  BY <1>1, <1>5, <1>6, <1>8, <1>9, <1>10 DEF MatrixInv, MatrixTypes

LEMMA MatrixGoesSo ==
    ASSUME MatrixInv, M!MatrixNext
    PROVE  MatrixInv'
<1>1. ASSUME NEW k \in Processes, M!Steps(k) PROVE MatrixInv'
  BY <1>1, MatrixIdentifies, MatrixStages, MatrixRecords, MatrixLooks, MatrixRetires,
     MatrixClaims, MatrixSignsIn, MatrixPhases, MatrixFails, MatrixLaunches, MatrixPolls,
     MatrixTerminates, MatrixJudges, MatrixSeals, MatrixFinishes, MatrixReads, MatrixAdmits,
     MatrixMovesAside, MatrixCopies, MatrixCrosses, MatrixRestores DEF M!Steps
<1> QED  BY <1>1, MatrixCommands, MatrixEnds, MatrixKills, MatrixWorks, MatrixLooseEnds,
            MatrixDrifts DEF M!MatrixNext

LEMMA MatrixIsHonest ==
    ASSUME MatrixInv
    PROVE  M!MatrixHonest
<1>1. ASSUME NEW r \in M!Rows, NEW last, Completed(told[r], last, M!ResumeHost(r))
      PROVE  \E i \in M!Went(r, "plan"), j \in M!Went(r, "implement"), k \in M!Went(r, last) :
                /\ i < j /\ j < k /\ \A n \in {i, j, k} : M!Good(r, n)
                /\ told[r][j].left.stage = "red" /\ told[r][k].found = told[r][j].left
                /\ told[r][k].left = [stage |-> "done", mark |-> told[r][j].left.mark]
                /\ told[r][k].host = M!ResumeHost(r)
  <2>1. PICK tl \in Seq(Said) : tl = told[r]
    BY MatrixRowFacts
  <2>2. PICK a \in 1..Len(tl), b \in 1..Len(tl), e \in 1..Len(tl) :
           /\ a < b /\ tl[a].phase = "plan" /\ tl[a].whole
           /\ tl[b].phase = "implement" /\ tl[b].whole /\ tl[b].left.stage = "red"
           /\ b < e /\ tl[e].phase = last /\ tl[e].whole /\ tl[e].host = M!ResumeHost(r)
           /\ tl[e].found = tl[b].left /\ tl[e].left = DoneTree(tl[b].left.mark)
    BY <1>1, <2>1 DEF Completed
  <2>3. DOMAIN tl = 1..Len(tl)
    BY LenProperties
  <2>4. a \in M!Went(r, "plan") /\ b \in M!Went(r, "implement") /\ e \in M!Went(r, last)
    BY <2>1, <2>2, <2>3 DEF M!Went
  <2>5. \A n \in {a, b, e} : M!Good(r, n)
    BY <2>1, <2>2 DEF M!Good
  <2> QED  BY <2>1, <2>2, <2>4, <2>5 DEF DoneTree
<1>2. ASSUME NEW r \in M!Rows, Declined(told[r])
      PROVE  \E i \in M!Went(r, "unsupported") : M!Good(r, i)
  <2>1. PICK tl \in Seq(Said) : tl = told[r]
    BY MatrixRowFacts
  <2>2. PICK a \in 1..Len(tl) : tl[a].phase = "unsupported" /\ tl[a].whole
    BY <1>2, <2>1 DEF Declined
  <2>3. DOMAIN tl = 1..Len(tl)
    BY LenProperties
  <2> QED  BY <2>1, <2>2, <2>3 DEF M!Went, M!Good
<1>3. ASSUME NEW r \in M!Rows, M!Passes(r)
      PROVE  IF r \in Declines THEN \E i \in M!Went(r, "unsupported") : M!Good(r, i)
             ELSE LET last == IF row[r].cross # "none" THEN "cross" ELSE "resume" IN
                  \E i \in M!Went(r, "plan"), j \in M!Went(r, "implement"),
                     k \in M!Went(r, last) :
                     /\ i < j /\ j < k /\ \A n \in {i, j, k} : M!Good(r, n)
                     /\ told[r][j].left.stage = "red" /\ told[r][k].found = told[r][j].left
                     /\ told[r][k].left = [stage |-> "done", mark |-> told[r][j].left.mark]
                     /\ told[r][k].host = M!ResumeHost(r)
  <2>1. RowSays(r)
    BY MatrixRowFacts
  <2>2. CASE row[r].cross # "none"
    <3>1. r \notin Declines /\ Completed(told[r], "cross", M!ResumeHost(r))
      BY <1>3, <2>1, <2>2 DEF M!Passes, RowSays
    <3> QED  BY <1>1, <2>2, <3>1
  <2>3. CASE row[r].cross = "none" /\ r \in Declines
    BY <1>2, <1>3, <2>1, <2>3 DEF M!Passes, RowSays
  <2>4. CASE row[r].cross = "none" /\ r \notin Declines
    <3>1. Completed(told[r], "resume", M!ResumeHost(r))
      BY <1>3, <2>1, <2>4 DEF M!Passes, RowSays
    <3> QED  BY <1>1, <2>4, <3>1
  <2> QED  BY <2>2, <2>3, <2>4
<1>4. ASSUME NEW r \in M!Rows
      PROVE  M!Cardinality({q \in Processes : tester[q].child = "alive" /\ M!TheRow(q) = r})
                + (IF row[r].loose THEN 1 ELSE 0) <= 1
  <2> DEFINE A == {q \in Processes : tester[q].child = "alive" /\ M!TheRow(q) = r}
  <2>1. \A q : q \in A <=> q \in Processes /\ tester[q].child = "alive" /\ M!TheRow(q) = r
    OBVIOUS
  <2> SUFFICES M!Cardinality(A) + (IF row[r].loose THEN 1 ELSE 0) <= 1
    OBVIOUS
  <2> HIDE DEF A
  <2>2. ASSUME NEW q \in A PROVE AtWork(tester[q]) /\ Row(tester[q]) = r /\ ~row[r].loose
    <3>1. /\ q \in Processes /\ tester[q].at \in {"watch", "terminate"} /\ AtWork(tester[q])
          /\ Row(tester[q]) = r
      BY <2>1, AliveHolds DEF M!TheRow, Row
    <3>2. Grasps(tester[q], row[r], told[r])
      BY <3>1, TesterAtRow DEF RowPlaces
    <3> QED  BY <3>1, <3>2 DEF Grasps
  <2>3. A = {} \/ \E q \in A : A = {q}
    <3>1. ASSUME NEW q \in A, NEW s \in A PROVE q = s
      BY <2>1, <2>2 DEF MatrixInv, Parted
    <3> QED  BY <3>1
  <2>4. Cardinality(A) \in {0, 1} /\ (A = {} => Cardinality(A) = 0)
    BY <2>3, FS_EmptySet, FS_Singleton
  <2>5. row[r].loose => A = {}
    BY <2>2
  <2>6. M!Cardinality(A) = Cardinality(A)
    BY DEF M!Cardinality, Cardinality
  <2> QED  BY <2>4, <2>5, <2>6
<1> QED  BY <1>3, <1>4 DEF M!MatrixHonest

(* SessionsHonest of MCTrials, for any number of commands, of whom any may be *)
(* killed anywhere, for any rows for both hosts or to decline, and any edits: *)
(* besides BreaksStaySound, a row the report passes went as it says, on the   *)
(* package and tools of the matrix, and no two agents are ever at work in one *)
(* workspace (native_workflow_trials.py, native_trial_session.py).            *)
THEOREM SessionsStayHonest == Spec => []SessionsHonest
<1> DEFINE Inv == which = "matrix" => MatrixInv
<1>1. Init => Inv
  BY MatrixStartsSo DEF Init
<1>2. Inv /\ [Next]_vars => Inv'
  <2> SUFFICES ASSUME Inv, [Next]_vars, which' = "matrix" PROVE MatrixInv'
    OBVIOUS
  <2>1. which = "matrix" /\ (UNCHANGED matrixVars \/ M!MatrixNext)
    BY DEF Next, vars
  <2>2. CASE UNCHANGED matrixVars
    <3>1. MatrixInv
      BY <2>1
    <3>2. UNCHANGED <<listed, matrix, on, row, tester, told>>
      BY <2>2 DEF matrixVars
    <3>3. M!Rows' = M!Rows
      BY <3>2 DEF M!Rows
    <3>4. MatrixTypes' /\ Versions'
      BY <3>1, <3>2, <3>3 DEF MatrixInv, MatrixTypes, Versions
    <3>5. ASSUME NEW r \in M!Rows PROVE RowSays(r)' /\ (Past(r)' => Settled(r)')
      <4>1. RowSays(r)' = RowSays(r)
        BY <3>2 DEF RowSays, Claimed, M!ResumeHost
      <4>2. Past(r)' = Past(r) /\ Settled(r)' = Settled(r)
        BY <3>2 DEF Past, Settled, Claimed
      <4> QED  BY <3>1, <4>1, <4>2, MatrixRowFacts
    <3>6. ASSUME NEW q \in Processes PROVE Knows(tester[q])'
      <4>1. PICK u \in TestJob : u = tester[q] /\ Knows(u) /\ tester'[q] = u
        BY <3>1, <3>2, TesterFacts
      <4>2. Placed(u)'
        BY <3>2, <3>3, <4>1, SMTT(30)
        DEF Knows, Placed, Row, FirstOf, Asking, Crossing, M!ResumeHost
      <4>3. u.at \in RowPlaces => Grasps(u, row[Row(u)], told[Row(u)])'
        BY <3>2, <4>1
        DEF Knows, Grasps, AsPrepared, Session, Resumer, M!ResumeHost, Row, AtWork, Owning,
            Crossing, Asking
      <4> QED  BY <4>1, <4>2, <4>3 DEF Knows, Row
    <3>7. ASSUME NEW q \in Processes, NEW s \in Processes, q # s
          PROVE  Parted(tester[q], tester[s])'
      BY <3>1, <3>2, <3>7 DEF MatrixInv, Parted, AtWork, Owning, Crossing, Row
    <3> QED  BY <3>3, <3>4, <3>5, <3>6, <3>7 DEF MatrixInv
  <2> QED  BY <2>1, <2>2, MatrixGoesSo
<1>3. Inv => (which = "matrix" => M!MatrixHonest)
  BY MatrixIsHonest
<1>4. (which = "break" => S!BreakSound) /\ (which = "matrix" => M!MatrixHonest) => SessionsHonest
  BY DEF SessionsHonest
<1> QED  BY <1>1, <1>2, <1>3, <1>4, BreaksStaySound, PTL DEF Spec
=============================================================================
