------------------------- MODULE VerificationProofs -------------------------
(***************************************************************************)
(* TLAPS proofs about the allowance, and about what receipts, stages and   *)
(* their history are worth, for any places, commands, requests, totals,    *)
(* timeouts and overruns and any number of runs, edits, kills and failures.*)
(***************************************************************************)
EXTENDS VerificationProps, TLAPS

\* What a command has and knows at each step.
Control ==
  /\ ~At("idle") => proc.kind \in Kinds /\ proc.places \in Targets /\ proc.seen \in Contents
  /\ ~At("idle") /\ ~At("reserve") => proc.before \in Contents
  /\ ~At("idle") /\ Captured => proc.command \in Commands
  /\ proc.paid \/ proc.pc \in {"launch", "run", "settle"} => Captured
  /\ At("archive") => ~Staging
  /\ proc.pc \in {"archive", "announce", "record"} /\ ~Staging => proc.left # <<>>
  /\ At("run") => proc.run # 0
  /\ ~At("idle") /\ Staging => pair \in Pairs
  /\ ~At("idle") /\ proc.kind = "candidate" => pair.baseline \in Results

\* The seconds reserved for a run that was not launched yet.
Held == IF proc.paid /\ proc.pc \in {"archive", "announce", "launch"} THEN proc.grant ELSE 0

\* Nothing was drawn before there was a ledger; what was drawn and what is held
\* is charged; and only overruns charge more than the total.
Balance ==
  /\ ledger = None => owed.spent = 0
  /\ ledger # None => /\ owed.spent + Held <= Charged(ledger)
                      /\ Charged(ledger) <= ledger.limit + owed.over

IInv == TypeOK /\ Control /\ Balance

-----------------------------------------------------------------------------
LEMMA InitInv == Init => IInv
  <1> SUFFICES ASSUME Init PROVE IInv
    OBVIOUS
  <1> USE VerificationAssumption DEF Init, Idle
  <1>1. TypeOK
    BY DEF TypeOK, Contents, Receipts, Commanding, Outcomes, Places
  <1>2. Control /\ Balance
    BY DEF Control, Balance, At, Captured, Staging, Held, Stages
  <1> QED
    BY <1>1, <1>2 DEF IInv

-----------------------------------------------------------------------------
(* Which steps change what. *)

Exits     == \E outcome \in {"passed", "failed"}, seconds \in Nat : Exit(outcome, seconds)
Judges    == \E outcome \in {"passed", "failed"} : Judge(outcome)
Begins    == \E kind \in Kinds, places \in Targets, command \in Commands : Begin(kind, places, command)
Reserves  == \E total \in Totals \cup {None}, timeout \in Timeouts : Reserve(total, timeout)
Exhausts  == \E total \in Totals \cup {None} : Exhausted(total)
Edits     == \E what \in {"code", "checks"} : Edit(what)

LEMMA Steps ==
  ASSUME TypeOK, [Next]_vars
  PROVE  \/ Activate \/ RestoreOrigin \/ Edits \/ Begins \/ Reserves \/ Exhausts \/ Attest
         \/ Archive \/ Announce \/ AnnounceStage \/ Launch \/ Exits \/ Settle \/ Judges
         \/ Record \/ RecordStage \/ Unprepared \/ Unsettled \/ Die \/ UNCHANGED vars
  <1>1. CASE \E outcome \in {"passed", "failed"} :
               \E seconds \in 0..(proc.grant + Overrun) : Exit(outcome, seconds)
    <2>1. 0..(proc.grant + Overrun) \subseteq Nat
      BY VerificationAssumption DEF TypeOK, Commanding
    <2> QED
      BY <1>1, <2>1 DEF Exits
  <1> QED
    BY <1>1 DEF Next, Step, Judges, Begins, Reserves, Exhausts, Edits

LEMMA Frame ==
  ASSUME TypeOK, [Next]_vars
  PROVE  /\ RestoreOrigin \/ Edits \/ UNCHANGED inputs
         /\ Reserves \/ Exhausts \/ Settle \/ Unprepared \/ UNCHANGED ledger
         /\ Announce \/ Record \/ UNCHANGED receipts
         /\ Archive \/ UNCHANGED archive
         /\ Activate \/ AnnounceStage \/ RecordStage \/ UNCHANGED pair
         /\ Launch \/ Exits \/ UNCHANGED runs
         /\ Launch \/ Settle \/ UNCHANGED owed
         /\ Edits \/ Begins \/ Unprepared \/ Unsettled \/ Die \/ UNCHANGED spent
         /\ Activate \/ RestoreOrigin \/ Edits => UNCHANGED proc
         /\ UNCHANGED vars => UNCHANGED <<proc, ledger>>
  BY Steps DEF vars, Activate, RestoreOrigin, Edits, Edit, Begins, Begin, Reserves, Reserve,
       Exhausts, Exhausted, Attest, Archive, Announce, AnnounceStage, Launch, Exits, Exit,
       Settle, Judges, Judge, Record, RecordStage, Unprepared, Unsettled, Die

-----------------------------------------------------------------------------
(* Opening and reserving. *)

LEMMA LedgerFacts ==
  ASSUME NEW l \in Ledgers
  PROVE  /\ l # None
         /\ {l.limit, l.measured, l.unmeasured, l.pending, Charged(l)} \subseteq Nat
  BY VerificationAssumption DEF VerificationAssumption, Ledgers, Charged

LEMMA OpenedLedger ==
  ASSUME TypeOK, NEW total \in Totals \cup {None}, ~Lowers(total)
  PROVE  /\ Opened(total) = None \/ Opened(total) \in Ledgers
         /\ ledger # None => /\ Opened(total) # None
                             /\ Charged(Opened(total)) = Charged(ledger)
                             /\ ledger.limit <= Opened(total).limit
         /\ ledger = None /\ Opened(total) # None => Charged(Opened(total)) = 0
  <1>0. VerificationAssumption /\ (ledger = None \/ ledger \in Ledgers)
    BY VerificationAssumption DEF TypeOK
  <1>1. CASE total = None
    <2>1. Opened(total) = ledger
      BY <1>1 DEF Opened
    <2>2. ledger # None => ledger.limit \in Nat
      BY <1>0, LedgerFacts
    <2> QED
      BY <1>0, <2>1, <2>2
  <1>2. CASE total # None /\ ledger = None
    <2>1. total \in Nat
      BY <1>0, <1>2 DEF VerificationAssumption
    <2>2. Opened(total) = [limit |-> total, measured |-> 0, unmeasured |-> 0, pending |-> 0]
      BY <1>2 DEF Opened
    <2> QED
      BY <1>2, <2>1, <2>2 DEF Ledgers, Charged
  <1>3. CASE total # None /\ ledger # None
    <2>1. total \in Nat /\ ledger \in Ledgers /\ ledger.limit <= total
      BY <1>0, <1>3 DEF VerificationAssumption, Lowers, Ledgers
    <2>2. Extended(ledger, total) \in Ledgers /\ Extended(ledger, total) # None
      <3>1. ledger.unmeasured + ledger.pending \in Nat
        BY <2>1, LedgerFacts
      <3>2. Extended(ledger, total) \in Ledgers
        BY <2>1, <3>1 DEF Extended, Ledgers
      <3> QED
        BY <3>2, LedgerFacts
    <2>3. /\ Charged(Extended(ledger, total)) = Charged(ledger)
          /\ Extended(ledger, total).limit = total
      BY <2>1 DEF Extended, Ledgers, Charged
    <2>4. ledger.limit \in Nat
      BY <2>1 DEF Ledgers
    <2>5. CASE total = ledger.limit
      BY <1>3, <2>1, <2>2, <2>4, <2>5 DEF Opened
    <2>6. CASE total # ledger.limit
      BY <1>3, <2>1, <2>2, <2>3, <2>4, <2>6 DEF Opened
    <2> QED
      BY <2>5, <2>6
  <1> QED
    BY <1>1, <1>2, <1>3

\* A grant is positive and no more than remains.
LEMMA Granted ==
  ASSUME NEW l \in Ledgers, NEW timeout \in Timeouts, Remaining(l) # 0
  PROVE  /\ Least(timeout, Remaining(l)) \in Nat
         /\ Charged(l) + Least(timeout, Remaining(l)) <= l.limit
  <1>1. timeout \in Nat /\ Charged(l) \in Nat /\ l.limit \in Nat
    BY VerificationAssumption DEF VerificationAssumption, Charged, Ledgers
  <1>2. Remaining(l) \in Nat /\ Charged(l) + Remaining(l) <= l.limit
    BY <1>1 DEF Remaining, Excess
  <1> QED
    BY <1>1, <1>2 DEF Least

-----------------------------------------------------------------------------
(* Every step keeps the types. *)

LEMMA IdleType == Idle \in Commanding
  BY DEF Idle, Commanding, Outcomes

LEMMA ProcType ==
  ASSUME TypeOK, Control, [Next]_vars
  PROVE  proc' \in Commanding /\ proc'.run <= Len(runs')
  <1>0. /\ proc \in Commanding /\ proc.run <= Len(runs) /\ runs \in Seq(Launched)
        /\ Len(runs) \in Nat /\ inputs \in Contents
    BY DEF TypeOK
  <1>1. CASE \/ Activate \/ RestoreOrigin \/ Edits \/ UNCHANGED vars
    BY <1>1, <1>0, Frame DEF Activate, RestoreOrigin, Edits, Edit, vars
  <1>2. CASE Begins
    <2>1. PICK kind \in Kinds, places \in Targets, command \in Commands : Begin(kind, places, command)
      BY <1>2 DEF Begins
    <2>2. /\ proc' = [Idle EXCEPT !.pc = "reserve", !.kind = kind, !.places = places,
                        !.command = IF kind = "attest" THEN None ELSE command, !.seen = inputs]
          /\ runs' = runs /\ Idle.run = 0
      BY <2>1 DEF Begin, Idle
    <2>3. (IF kind = "attest" THEN None ELSE command) \in Commands \cup {None}
      OBVIOUS
    <2>4. proc' \in Commanding
      BY ZenonT(30), <2>2, <2>3, <1>0, IdleType DEF Commanding
    <2>5. proc'.run = 0
      BY <2>2, IdleType DEF Commanding
    <2> QED
      BY <2>2, <2>4, <2>5, <1>0
  <1>3. CASE Reserves
    <2>1. PICK total \in Totals \cup {None}, timeout \in Timeouts : Reserve(total, timeout)
      BY <1>3 DEF Reserves
    <2> DEFINE l == Opened(total)
               grant == IF l = None THEN timeout ELSE Least(timeout, Remaining(l))
    <2>2. /\ proc' = [proc EXCEPT !.pc = IF Staging THEN "announce" ELSE "archive", !.before = inputs,
                          !.grant = grant, !.paid = l # None, !.left = proc.places]
          /\ runs' = runs /\ proc.places \in Targets
      BY <2>1 DEF Reserve, Control, At
    <2>3. grant \in Nat
      BY <2>1, OpenedLedger, Granted, VerificationAssumption DEF Reserve, Launchable
    <2> HIDE DEF l, grant
    <2> QED
      BY <2>2, <2>3, <1>0, VerificationAssumption DEF Commanding
  <1>4. CASE Exhausts \/ Die
    <2>1. proc' = Idle /\ runs' = runs /\ Idle.run = 0
      BY <1>4 DEF Exhausts, Exhausted, Die, End, Idle
    <2> QED
      BY <2>1, <1>0, IdleType
  <1>5. CASE Attest
    <2>1. /\ proc' = [proc EXCEPT !.pc = "archive", !.before = inputs, !.left = proc.places]
          /\ runs' = runs /\ proc.places \in Targets
      BY <1>5 DEF Attest, Control, At
    <2> QED
      BY <2>1, <1>0, VerificationAssumption DEF Commanding
  <1>6. CASE Archive \/ Announce \/ Record
    <2>1. proc.left # <<>> /\ proc.places \in Targets /\ runs' = runs
      BY <1>6 DEF Archive, Announce, Record, Control, At
    <2>2. Tail(proc.left) \in Seq(Places) /\ proc.places \in Seq(Places)
      BY <2>1, <1>0, VerificationAssumption DEF Commanding
    <2>3. PICK next \in {"announce", "launch", "judge", "record"}, after \in Seq(Places) :
            Take(next, after) \/ proc' = Idle
      <3>1. CASE Archive
        BY <3>1, <2>2 DEF Archive
      <3>2. CASE Announce
        BY <3>2, <2>2 DEF Announce
      <3>3. CASE Record
        <4>1. <<>> \in Seq(Places)
          OBVIOUS
        <4> QED
          BY <3>3, <4>1 DEF Record, End
      <3> QED
        BY <1>6, <3>1, <3>2, <3>3
    <2>4. CASE proc' = Idle
      BY <2>4, <2>1, <1>0, IdleType DEF Idle
    <2>5. CASE Take(next, after)
      BY ZenonT(30), <2>5, <2>1, <2>2, <1>0 DEF Take, Commanding
    <2> QED
      BY <2>3, <2>4, <2>5
  <1>7. CASE AnnounceStage \/ Settle
    <2>1. runs' = runs /\ \E pc \in {"launch", "judge"} : proc' = [proc EXCEPT !.pc = pc]
      BY <1>7 DEF AnnounceStage, Settle, Goto
    <2> QED
      BY <2>1, <1>0 DEF Commanding
  <1>8. CASE Launch
    <2>1. /\ proc' = [proc EXCEPT !.pc = "run", !.run = Len(runs) + 1]
          /\ Len(runs') = Len(runs) + 1
      BY <1>8, <1>0 DEF Launch
    <2>2. Len(runs) + 1 \in Nat
      BY <1>0
    <2>3. proc' \in Commanding /\ proc'.run = Len(runs) + 1
      BY <2>1, <2>2, <1>0 DEF Commanding
    <2> QED
      BY <2>1, <2>3, <1>0
  <1>9. CASE Exits
    <2>1. PICK outcome \in {"passed", "failed"}, seconds \in Nat : Exit(outcome, seconds)
      BY <1>9 DEF Exits
    <2>2. /\ proc' = [proc EXCEPT !.pc = "settle", !.outcome = outcome, !.seconds = seconds]
          /\ Len(runs') = Len(runs)
      BY <2>1, <1>0 DEF Exit
    <2> QED
      BY <2>2, <1>0 DEF Commanding, Outcomes
  <1>10. CASE Judges
    <2>1. PICK stated \in {"passed", "failed"} : Judge(stated)
      BY <1>10 DEF Judges
    <2>2. PICK outcome \in Outcomes :
            proc' = [proc EXCEPT !.pc = "record", !.left = proc.places, !.outcome = outcome]
      BY <2>1, <1>0 DEF Judge, Commanding, Outcomes
    <2>3. runs' = runs /\ proc.places \in Seq(Places)
      BY <2>1, VerificationAssumption DEF Judge, Control, At
    <2> QED
      BY <2>2, <2>3, <1>0 DEF Commanding
  <1>11. CASE RecordStage
    BY <1>11, <1>0, IdleType DEF RecordStage, End, Idle
  <1>12. CASE Unprepared \/ Unsettled
    <2>1. /\ runs' = runs
          /\ \/ proc' = Idle
             \/ \E pc \in {"judge", "record"}, outcome \in Outcomes :
                  proc' = [proc EXCEPT !.pc = pc, !.outcome = outcome]
      BY <1>12, <1>0 DEF Unprepared, Unsettled, End, Commanding, Outcomes
    <2>2. CASE proc' = Idle
      BY <2>1, <2>2, <1>0, IdleType DEF Idle
    <2>3. CASE proc' # Idle
      BY <2>1, <2>3, <1>0 DEF Commanding
    <2> QED
      BY <2>2, <2>3
  <1> QED
    BY <1>1, <1>2, <1>3, <1>4, <1>5, <1>6, <1>7, <1>8, <1>9, <1>10, <1>11, <1>12, Steps

-----------------------------------------------------------------------------
(* How a command proceeds. *)

Carry == /\ proc'.kind = proc.kind /\ proc'.places = proc.places
         /\ proc'.seen = proc.seen /\ proc'.command = proc.command
Same  == Carry /\ proc'.before = proc.before /\ proc'.paid = proc.paid /\ proc'.grant = proc.grant

\* Every step starts a command, ends it, leaves it alone, or takes it one step on.
LEMMA Flow ==
  ASSUME TypeOK, Control, [Next]_vars
  PROVE  \/ proc' = proc
         \/ proc'.pc = "idle" /\ ~proc'.paid
         \/ Begins
         \/ /\ Reserves \/ Attest
            /\ At("reserve") /\ Carry /\ proc'.before = inputs /\ proc'.left = proc.places
            /\ proc'.pc \in {"announce", "archive"} /\ (proc'.pc = "archive" <=> ~Staging)
            /\ ~Captured => ~proc'.paid
         \/ /\ Same /\ ~Staging /\ proc'.left # <<>>
            /\ \/ At("archive") /\ proc'.pc \in {"archive", "announce"}
               \/ At("announce") /\ proc'.pc = "announce"
               \/ At("announce") /\ Captured /\ proc'.pc = "launch"
               \/ At("announce") /\ ~Captured /\ proc'.pc = "judge"
               \/ At("record") /\ proc'.pc = "record"
         \/ Same /\ Staging /\ At("announce") /\ proc'.pc = "launch"
         \/ Same /\ Launch /\ At("launch") /\ proc'.pc = "run" /\ proc'.run # 0
         \/ Same /\ At("run") /\ proc'.pc = "settle"
         \/ Same /\ Settle /\ At("settle") /\ proc'.pc = "judge"
         \/ Same /\ At("judge") /\ proc'.pc = "record" /\ proc'.left = proc.places
         \/ Same /\ Staging /\ proc.pc \in {"launch", "run", "settle"} /\ proc'.pc = "record"
         \/ Same /\ ~Staging /\ At("settle") /\ proc'.pc = "judge" /\ Unsettled
  <1>0. proc \in Commanding /\ runs \in Seq(Launched) /\ Len(runs) \in Nat
    BY DEF TypeOK
  <1> DEFINE Fields == {"pc", "kind", "places", "left", "command", "before", "seen", "grant",
                        "paid", "run", "outcome", "seconds"}
  <1>1. proc = [f \in Fields |-> proc[f]]
    BY <1>0 DEF Commanding
  <1>2. Idle.pc = "idle" /\ ~Idle.paid
    BY DEF Idle
  <1>3. CASE Activate \/ RestoreOrigin \/ Edits \/ UNCHANGED vars
    BY <1>3, Frame
  <1>4. CASE Exhausts \/ Die \/ RecordStage
    BY <1>4, <1>2 DEF Exhausts, Exhausted, Die, RecordStage, End
  <1>5. CASE Reserves
    <2>1. PICK total \in Totals \cup {None}, timeout \in Timeouts : Reserve(total, timeout)
      BY <1>5 DEF Reserves
    <2>2. PICK grant, paid :
            proc' = [proc EXCEPT !.pc = IF Staging THEN "announce" ELSE "archive",
                       !.before = inputs, !.grant = grant, !.paid = paid, !.left = proc.places]
      BY <2>1 DEF Reserve
    <2>3. At("reserve") /\ Captured
      BY <2>1 DEF Reserve
    <2> QED
      BY <1>1, <1>5, <2>2, <2>3 DEF Carry, At
  <1>6. CASE Attest
    <2>1. /\ proc' = [proc EXCEPT !.pc = "archive", !.before = inputs, !.left = proc.places]
          /\ At("reserve") /\ ~Captured
      BY <1>6 DEF Attest
    <2>2. ~Staging /\ ~proc.paid
      BY <2>1 DEF Control, Captured, Staging, Stages
    <2> QED
      BY <1>1, <1>6, <2>1, <2>2 DEF Carry, At
  <1>7. CASE Archive \/ Announce \/ Record
    <2>1. /\ proc.left # <<>> /\ proc.places # <<>> /\ ~Staging
          /\ proc.left \in Seq(Places) /\ proc.places \in Seq(Places)
      BY <1>7, <1>0, VerificationAssumption
         DEF VerificationAssumption, Archive, Announce, Record, Control, At, Commanding
    <2>2. Len(proc.left) # 1 => Tail(proc.left) # <<>>
      <3>1. Len(proc.left) \in Nat /\ Len(proc.left) # 0
        BY <2>1
      <3>2. Len(Tail(proc.left)) = Len(proc.left) - 1
        BY <2>1
      <3>3. Len(<<>>) = 0
        OBVIOUS
      <3>4. Tail(proc.left) = <<>> => Len(Tail(proc.left)) = 0
        BY <3>3, Zenon
      <3> QED
        BY <3>1, <3>2, <3>4
    <2>3. CASE Archive
      BY <1>1, <2>1, <2>2, <2>3 DEF Archive, Take, Same, Carry, At
    <2>4. CASE Announce
      BY <1>1, <2>1, <2>2, <2>4 DEF Announce, Take, Same, Carry, At
    <2>5. CASE Record
      BY <1>1, <1>2, <2>1, <2>2, <2>5 DEF Record, End, Take, Same, Carry, At
    <2> QED
      BY <1>7, <2>3, <2>4, <2>5
  <1>8. CASE AnnounceStage
    BY <1>1, <1>8 DEF AnnounceStage, Goto, Same, Carry, At
  <1>9. CASE Launch
    BY <1>0, <1>1, <1>9 DEF Launch, Same, Carry, At
  <1>10. CASE Exits
    BY <1>1, <1>10 DEF Exits, Exit, Same, Carry, At
  <1>11. CASE Settle
    BY <1>1, <1>11 DEF Settle, Goto, Same, Carry, At
  <1>12. CASE Judges
    BY <1>1, <1>12 DEF Judges, Judge, Same, Carry, At
  <1>13. CASE Unprepared
    BY <1>1, <1>2, <1>13 DEF Unprepared, End, Same, Carry, At
  <1>14. CASE Unsettled
    BY <1>1, <1>2, <1>14 DEF Unsettled, End, Same, Carry, At
  <1> QED
    BY <1>3, <1>4, <1>5, <1>6, <1>7, <1>8, <1>9, <1>10, <1>11, <1>12, <1>13, <1>14, Steps

-----------------------------------------------------------------------------
(* The pair. *)

LEMMA ResultType ==
  ASSUME TypeOK, Control, ~At("idle"), ~At("reserve"), Staging, NEW outcome \in Outcomes
  PROVE  Result(outcome) \in Results
  <1>1. /\ proc.before \in Contents /\ proc.seen \in Contents /\ proc.run \in Nat
        /\ proc.kind = "candidate" => pair.baseline.run \in Nat
    BY DEF TypeOK, Control, Commanding, Results
  <1>2. proc.command \in Commands
    BY DEF Control, Captured, Staging, Stages
  <1> DEFINE base == IF proc.kind = "candidate" THEN pair.baseline.run ELSE 0
  <1>3. base \in Nat
    BY <1>1
  <1> HIDE DEF base
  <1>4. Result(outcome) = [outcome |-> outcome, before |-> proc.before, seen |-> proc.seen,
                           command |-> proc.command, base |-> base, run |-> proc.run]
    BY DEF Result, base
  <1> QED
    BY <1>1, <1>2, <1>3, <1>4 DEF Results

LEMMA PairType ==
  ASSUME TypeOK, Control, [Next]_vars
  PROVE  /\ pair' \in {None} \cup Pairs
         /\ pair \in Pairs => pair' \in Pairs
         /\ ~At("idle") /\ proc.kind = "candidate" => pair'.baseline \in Results \/ proc'.pc = "idle"
  <1>0. pair \in {None} \cup Pairs /\ inputs.code \in Nat
    BY DEF TypeOK, Contents, Stages
  <1>1. CASE UNCHANGED pair
    BY <1>0, <1>1 DEF Control
  <1>2. CASE Activate
    <2>1. pair' = [origin |-> inputs.code, baseline |-> None, candidate |-> None, prior |-> {}]
      BY <1>2 DEF Activate
    <2>2. pair' \in Pairs
      BY <1>0, <2>1 DEF Pairs
    <2> QED
      BY <1>2, <2>2 DEF Activate
  <1>3. CASE AnnounceStage
    <2> DEFINE new == Result("pending")
               candidate == IF proc.kind = "candidate" THEN new ELSE None
               baseline == IF proc.kind = "baseline" THEN new ELSE pair.baseline
               prior == pair.prior \cup Replaced
    <2>1. Staging /\ At("announce") /\ pair \in Pairs
      BY <1>3 DEF AnnounceStage, Control, At
    <2>2. new \in Results
      BY <2>1, ResultType DEF At, Outcomes
    <2>3. pair' = [pair EXCEPT !.prior = prior, !.candidate = candidate, !.baseline = baseline]
      BY <1>3 DEF AnnounceStage
    <2>4. \A t \in Stages : pair[t] # None => pair[t] \in Results
      BY <2>1 DEF Pairs, Stages
    <2>5. Replaced \subseteq [stage : Stages, result : Results]
      BY <2>4 DEF Replaced, Stages
    <2>6. prior \in SUBSET [stage : Stages, result : Results]
      BY <2>1, <2>5 DEF Pairs
    <2>7. candidate \in {None} \cup Results /\ baseline \in {None} \cup Results
      BY <2>1, <2>2 DEF Pairs
    <2>8. proc.kind = "candidate" => baseline \in Results
      BY <2>1 DEF Control, At
    <2> HIDE DEF candidate, baseline, prior
    <2>9. pair' \in Pairs /\ pair'.baseline = baseline
      BY <2>1, <2>3, <2>6, <2>7 DEF Pairs
    <2> QED
      BY <2>8, <2>9
  <1>4. CASE RecordStage
    <2>1. Staging /\ At("record") /\ pair \in Pairs
      BY <1>4 DEF RecordStage, Control, At
    <2>2. Result(proc.outcome) \in Results
      BY <2>1, ResultType DEF At, TypeOK, Commanding
    <2>3. pair' = [pair EXCEPT ![proc.kind] = Result(proc.outcome)] /\ proc.kind \in {"baseline", "candidate"}
      BY <1>4, <2>1 DEF RecordStage, Staging, Stages
    <2>4. pair' \in Pairs
      BY <2>1, <2>2, <2>3 DEF Pairs
    <2> QED
      BY <1>4, <2>4 DEF RecordStage, End, Idle
  <1> QED
    BY <1>1, <1>2, <1>3, <1>4, Frame

-----------------------------------------------------------------------------
(* Every step keeps the control. *)

LEMMA KeepsControl ==
  ASSUME TypeOK, Control, [Next]_vars
  PROVE  Control'
  <1>0. /\ inputs \in Contents /\ proc \in Commanding
        /\ \A places \in Targets : places # <<>>
        /\ "attest" \notin Stages
    BY VerificationAssumption DEF VerificationAssumption, TypeOK, Stages
  <1>1. CASE proc' = proc
    BY <1>1, PairType DEF Control, At, Captured, Staging
  <1>2. CASE proc'.pc = "idle" /\ ~proc'.paid
    BY <1>2 DEF Control, At
  <1>3. CASE Begins
    <2>1. PICK kind \in Kinds, places \in Targets, command \in Commands : Begin(kind, places, command)
      BY <1>3 DEF Begins
    <2>2. /\ proc'.pc = "reserve" /\ proc'.kind = kind /\ proc'.places = places
          /\ proc'.seen = inputs /\ ~proc'.paid
          /\ proc'.command = IF kind = "attest" THEN None ELSE command
      BY <2>1 DEF Begin, Idle
    <2>3. /\ pair' = pair
          /\ kind \in Stages => pair \in Pairs
          /\ kind = "candidate" => pair.baseline \in Results
      BY <2>1 DEF Begin, Holds, TypeOK, Pairs, Stages
    <2> QED
      BY <1>0, <2>2, <2>3 DEF Control, At, Captured, Staging
  <1>4. CASE Carry /\ ~At("idle") /\ (Reserves \/ Attest) /\ At("reserve")
             /\ proc'.before = inputs /\ proc'.left = proc.places
             /\ proc'.pc \in {"announce", "archive"} /\ (proc'.pc = "archive" <=> ~Staging)
             /\ (~Captured => ~proc'.paid)
    BY <1>0, <1>4, PairType DEF Carry, Control, At, Captured, Staging
  <1>5. CASE Same /\ ~At("idle") /\ ~At("reserve")
    <2>1. /\ proc'.kind = proc.kind /\ proc'.places = proc.places /\ proc'.seen = proc.seen
          /\ proc'.command = proc.command /\ proc'.before = proc.before /\ proc'.paid = proc.paid
      BY <1>5 DEF Same, Carry
    <2>2. Captured' = Captured /\ Staging' = Staging
      BY <2>1 DEF Captured, Staging
    <2>3. /\ proc.kind \in Kinds /\ proc.places \in Targets
          /\ proc.seen \in Contents /\ proc.before \in Contents
          /\ Captured => proc.command \in Commands
          /\ proc.paid => Captured
          /\ proc.pc \in {"launch", "run", "settle"} => Captured
          /\ Staging => pair' \in Pairs
          /\ proc.kind = "candidate" => pair'.baseline \in Results \/ proc'.pc = "idle"
          /\ Staging => Captured
          /\ At("archive") => ~Staging
      BY <1>0, <1>5, PairType DEF Control, Captured, Staging
    <2>4. /\ proc'.pc \in {"launch", "run", "settle"} => Captured
          /\ proc'.pc = "archive" => ~Staging
          /\ proc'.pc \in {"archive", "announce", "record"} /\ ~Staging => proc'.left # <<>>
          /\ proc'.pc = "run" => proc'.run # 0
      <3>1. proc.places # <<>>
        BY <1>0, <2>3
      <3>2. CASE proc' = proc
        BY <1>5, <2>3, <3>2 DEF Control, At
      <3>3. CASE proc'.pc = "idle"
        BY <3>3
      <3>4. CASE proc' # proc /\ proc'.pc # "idle"
        BY <1>5, <2>3, <3>1, <3>4, Flow DEF Begins, Begin, At
      <3> QED
        BY <3>2, <3>3, <3>4
    <2> QED
      BY <2>1, <2>2, <2>3, <2>4 DEF Control, At
  <1> QED
    BY <1>1, <1>2, <1>3, <1>4, <1>5, Flow DEF At

-----------------------------------------------------------------------------
(* Every step keeps the allowance's types and balance. *)

\* TypeOK's last conjunct: what is pending is the grant of the command that has not settled.
Pends == (proc.paid /\ proc.pc \in {"archive", "announce", "launch", "run", "settle"})
           => ledger # None /\ ledger.pending = proc.grant
Purse == ledger \in {None} \cup Ledgers /\ owed \in [spent : Int, over : Nat] /\ Pends

\* A step that moves neither the ledger nor what is owed only has to hold no more than before.
LEMMA QuietStep ==
  ASSUME Purse, Balance, UNCHANGED <<ledger, owed>>,
         proc'.paid /\ proc'.pc \in {"archive", "announce", "launch", "run", "settle"} =>
           /\ proc.paid /\ proc.pc \in {"archive", "announce", "launch", "run", "settle"}
           /\ proc'.grant = proc.grant
           /\ proc'.pc \in {"archive", "announce", "launch"} =>
                proc.pc \in {"archive", "announce", "launch"},
         proc.grant \in Nat
  PROVE  (Purse /\ Balance)'
  <1>1. Held \in Nat
    BY DEF Held
  <1>2. Held' = 0 \/ Held' = Held
    BY DEF Held
  <1>3. ledger # None => Charged(ledger) \in Nat
    BY LedgerFacts DEF Purse
  <1>4. owed.spent \in Int /\ owed.over \in Nat
    BY DEF Purse
  <1>5. Balance'
    BY <1>1, <1>2, <1>3, <1>4 DEF Balance, Charged
  <1>6. Pends'
    BY DEF Purse, Pends
  <1> QED
    BY <1>5, <1>6 DEF Purse

LEMMA ReserveStep ==
  ASSUME IInv, Reserves
  PROVE  (Purse /\ Balance)'
  <1>1. PICK total \in Totals \cup {None}, timeout \in Timeouts : Reserve(total, timeout)
    BY DEF Reserves
  <1> DEFINE l == Opened(total)
             grant == IF l = None THEN timeout ELSE Least(timeout, Remaining(l))
  <1>2. /\ ~Lowers(total) /\ Launchable(l) /\ owed' = owed /\ At("reserve")
        /\ ledger' = IF l = None THEN None ELSE [l EXCEPT !.pending = grant]
        /\ proc' = [proc EXCEPT !.pc = IF Staging THEN "announce" ELSE "archive", !.before = inputs,
                       !.grant = grant, !.paid = l # None, !.left = proc.places]
    BY <1>1 DEF Reserve
  <1>3. TypeOK /\ Balance /\ Held = 0 /\ owed \in [spent : Int, over : Nat]
    BY <1>2 DEF IInv, Held, At, TypeOK
  <1>4. /\ proc'.paid = (l # None) /\ proc'.grant = grant
        /\ proc'.pc \in {"announce", "archive"}
    BY <1>2, <1>3 DEF TypeOK, Commanding
  <1>5. CASE l = None
    <2>1. ledger' = None /\ ledger = None /\ owed.spent = 0
      BY <1>1, <1>2, <1>3, <1>5, OpenedLedger DEF Balance
    <2> QED
      BY <1>2, <1>3, <1>4, <1>5, <2>1 DEF Purse, Pends, Balance
  <1>6. CASE l # None
    <2>1. l \in Ledgers
      BY <1>1, <1>2, <1>3, <1>6, OpenedLedger
    <2>2. l.pending = 0 /\ grant \in Nat /\ Charged(l) + grant <= l.limit
      BY <1>1, <1>2, <1>6, <2>1, Granted DEF Launchable
    <2>3. owed.spent <= Charged(l)
      BY <1>1, <1>2, <1>3, <1>6, <2>1, OpenedLedger, LedgerFacts DEF Balance, TypeOK
    <2> HIDE DEF l, grant
    <2>4. /\ ledger' \in Ledgers /\ ledger' # None
          /\ ledger'.pending = grant /\ ledger'.limit = l.limit
          /\ Charged(ledger') = Charged(l) + grant
      BY <1>2, <1>6, <2>1, <2>2, LedgerFacts DEF Ledgers, Charged
    <2>5. Held' = grant
      BY <1>4, <1>6 DEF Held
    <2>6. Balance'
      BY <1>2, <1>3, <2>1, <2>2, <2>3, <2>4, <2>5, LedgerFacts DEF Balance, Charged
    <2> QED
      BY <1>2, <1>3, <1>4, <2>4, <2>6 DEF Purse, Pends
  <1> QED
    BY <1>5, <1>6

LEMMA ExhaustStep ==
  ASSUME IInv, Exhausts
  PROVE  (Purse /\ Balance)'
  <1>1. PICK total \in Totals \cup {None} : Exhausted(total)
    BY DEF Exhausts
  <1>2. TypeOK /\ Balance /\ owed \in [spent : Int, over : Nat] /\ ledger \in {None} \cup Ledgers
    BY DEF IInv, TypeOK
  <1>3. /\ proc' = Idle /\ owed' = owed /\ At("reserve")
        /\ ledger' = IF Lowers(total) THEN ledger ELSE Opened(total)
    BY <1>1 DEF Exhausted, End
  <1>4. Held = 0 /\ Held' = 0 /\ Pends'
    BY <1>3 DEF Held, At, Idle, Pends
  <1>5. CASE ledger' = ledger
    BY <1>2, <1>3, <1>4, <1>5 DEF Balance, Purse, Charged
  <1>6. CASE ~Lowers(total) /\ ledger' = Opened(total)
    <2>1. /\ ledger' \in {None} \cup Ledgers
          /\ ledger # None => ledger' # None /\ Charged(ledger') = Charged(ledger)
                              /\ ledger.limit <= ledger'.limit
          /\ ledger = None /\ ledger' # None => Charged(ledger') = 0
      BY <1>2, <1>6, OpenedLedger
    <2>2. /\ ledger # None => {ledger.limit, Charged(ledger)} \subseteq Nat
          /\ ledger' # None => {ledger'.limit, Charged(ledger')} \subseteq Nat
      BY <1>2, <2>1, LedgerFacts
    <2>3. Balance'
      BY <1>2, <1>3, <1>4, <2>1, <2>2 DEF Balance, Charged
    <2> QED
      BY <1>2, <1>3, <1>4, <2>1, <2>3 DEF Purse
  <1> QED
    BY <1>3, <1>5, <1>6

LEMMA LaunchStep ==
  ASSUME IInv, Launch
  PROVE  (Purse /\ Balance)'
  <1>1. /\ Balance /\ owed \in [spent : Int, over : Nat] /\ ledger \in {None} \cup Ledgers
        /\ proc \in Commanding /\ proc.grant \in Nat
        /\ proc.paid => ledger # None /\ ledger.pending = proc.grant
    BY DEF IInv, TypeOK, Commanding, Launch, At
  <1>2. /\ proc'.pc = "run" /\ proc'.paid = proc.paid /\ proc'.grant = proc.grant
        /\ ledger' = ledger /\ At("launch")
        /\ owed' = IF proc.paid THEN [owed EXCEPT !.spent = @ + proc.grant] ELSE owed
    BY <1>1 DEF Launch, Commanding
  <1>3. /\ Held' = 0 /\ Held = (IF proc.paid THEN proc.grant ELSE 0) /\ Pends'
    BY <1>1, <1>2 DEF Held, At, Pends
  <1>4. /\ owed' \in [spent : Int, over : Nat]
        /\ owed'.spent = owed.spent + Held /\ owed'.over = owed.over
    BY <1>1, <1>2, <1>3
  <1>5. Held \in Nat /\ (ledger # None => Charged(ledger) \in Nat)
    BY <1>1, <1>3, LedgerFacts
  <1>6. ledger = None => Held = 0
    BY <1>1, <1>3
  <1>7. Balance'
    BY <1>1, <1>2, <1>3, <1>4, <1>5, <1>6 DEF Balance, Charged
  <1> QED
    BY <1>1, <1>2, <1>3, <1>4, <1>7 DEF Purse

LEMMA SettleStep ==
  ASSUME IInv, Settle
  PROVE  (Purse /\ Balance)'
  <1>1. /\ Balance /\ owed \in [spent : Int, over : Nat] /\ ledger \in {None} \cup Ledgers
        /\ proc \in Commanding /\ proc.grant \in Nat /\ proc.seconds \in Nat
        /\ proc.paid => ledger # None /\ ledger.pending = proc.grant
    BY DEF IInv, TypeOK, Commanding, Settle, At
  <1>2. proc'.pc = "judge" /\ At("settle")
    BY <1>1 DEF Settle, Goto, Commanding
  <1>3. Held' = 0 /\ Held = 0 /\ Pends'
    BY <1>2 DEF Held, At, Pends
  <1>4. CASE ~proc.paid
    BY <1>1, <1>3, <1>4 DEF Settle, Balance, Purse, Charged
  <1>5. CASE proc.paid
    <2> DEFINE over == Excess(proc.seconds, proc.grant)
    <2>1. over \in Nat /\ proc.seconds - proc.grant <= over
      BY <1>1 DEF Excess
    <2> HIDE DEF over
    <2>2. /\ ledger' = [ledger EXCEPT !.measured = @ + proc.seconds, !.pending = 0]
          /\ owed' = [spent |-> owed.spent - proc.grant + proc.seconds, over |-> owed.over + over]
      BY <1>5 DEF Settle, over
    <2>3. ledger \in Ledgers /\ ledger.pending = proc.grant
      BY <1>1, <1>5
    <2>4. /\ ledger' \in Ledgers /\ ledger'.limit = ledger.limit
          /\ Charged(ledger') = Charged(ledger) - proc.grant + proc.seconds
      <3>1. ledger.measured + proc.seconds \in Nat
        BY <1>1, <2>3, LedgerFacts
      <3>2. /\ ledger' \in Ledgers /\ ledger'.limit = ledger.limit
            /\ ledger'.measured = ledger.measured + proc.seconds
            /\ ledger'.unmeasured = ledger.unmeasured /\ ledger'.pending = 0
        BY <2>2, <2>3, <3>1 DEF Ledgers
      <3> QED
        BY <1>1, <2>3, <3>2, LedgerFacts DEF Charged
    <2>5. /\ owed' \in [spent : Int, over : Nat]
          /\ owed'.spent = owed.spent - proc.grant + proc.seconds
          /\ owed'.over = owed.over + over
      BY <1>1, <2>1, <2>2
    <2>6. /\ owed.spent <= Charged(ledger) /\ Charged(ledger) <= ledger.limit + owed.over
          /\ {Charged(ledger), ledger.limit, Charged(ledger')} \subseteq Nat
          /\ ledger' # None
      BY <1>1, <1>3, <1>5, <2>3, <2>4, LedgerFacts DEF Balance, Charged
    <2>7. Balance'
      BY <1>1, <1>3, <2>1, <2>4, <2>5, <2>6 DEF Balance, Charged
    <2> QED
      BY <1>3, <2>4, <2>5, <2>7 DEF Purse
  <1> QED
    BY <1>4, <1>5

LEMMA ReleaseStep ==
  ASSUME IInv, Unprepared
  PROVE  (Purse /\ Balance)'
  <1>1. /\ Balance /\ owed \in [spent : Int, over : Nat] /\ ledger \in {None} \cup Ledgers
        /\ proc \in Commanding /\ proc.grant \in Nat
        /\ proc.paid => ledger # None /\ ledger.pending = proc.grant
    BY DEF IInv, TypeOK, Commanding, Unprepared
  <1>2. /\ proc'.pc \in {"idle", "record"} /\ owed' = owed
        /\ proc.pc \in {"archive", "announce", "launch"}
    <2>1. /\ proc' = Idle \/ proc' = [proc EXCEPT !.pc = "record", !.outcome = "failed"]
          /\ owed' = owed /\ proc.pc \in {"archive", "announce", "launch"}
      BY DEF Unprepared, End
    <2>2. Idle.pc = "idle"
      BY DEF Idle
    <2> QED
      BY <1>1, <2>1, <2>2 DEF Commanding
  <1>3. Held' = 0 /\ Held = (IF proc.paid THEN proc.grant ELSE 0) /\ Pends'
    BY <1>1, <1>2 DEF Held, Pends
  <1>4. CASE ledger' = ledger
    <2>1. Held \in Nat /\ (ledger # None => Charged(ledger) \in Nat)
      BY <1>1, <1>3, LedgerFacts
    <2>2. Balance'
      BY <1>1, <1>2, <1>3, <1>4, <2>1 DEF Balance, Charged
    <2> QED
      BY <1>1, <1>2, <1>3, <1>4, <2>2 DEF Purse
  <1>5. CASE proc.paid /\ ledger' = [ledger EXCEPT !.pending = 0]
    <2>1. ledger \in Ledgers /\ ledger.pending = proc.grant
      BY <1>1, <1>5
    <2>2. /\ ledger' \in Ledgers /\ ledger'.limit = ledger.limit
          /\ Charged(ledger') = Charged(ledger) - proc.grant
      BY <1>1, <1>5, <2>1, LedgerFacts DEF Ledgers, Charged
    <2>3. /\ owed.spent + proc.grant <= Charged(ledger) /\ Charged(ledger) <= ledger.limit + owed.over
          /\ {Charged(ledger), ledger.limit, Charged(ledger')} \subseteq Nat
          /\ ledger' # None
      BY <1>1, <1>3, <1>5, <2>1, <2>2, LedgerFacts DEF Balance, Charged
    <2>4. Balance'
      BY <1>1, <1>2, <1>3, <2>2, <2>3 DEF Balance, Charged
    <2> QED
      BY <1>1, <1>2, <1>3, <2>2, <2>4 DEF Purse
  <1> QED
    BY <1>4, <1>5 DEF Unprepared

LEMMA KeepsPurse ==
  ASSUME IInv, [Next]_vars
  PROVE  (Purse /\ Balance)'
  <1>1. TypeOK /\ Control /\ Purse /\ Balance /\ proc.grant \in Nat
    BY DEF IInv, TypeOK, Purse, Pends, Commanding
  <1>2. CASE Reserves \/ Exhausts \/ Launch \/ Settle \/ Unprepared
    BY <1>2, ReserveStep, ExhaustStep, LaunchStep, SettleStep, ReleaseStep
  <1>3. CASE ~(Reserves \/ Exhausts \/ Launch \/ Settle \/ Unprepared)
    <2>1. UNCHANGED <<ledger, owed>>
      BY <1>1, <1>3, Frame
    <2>2. proc'.paid /\ proc'.pc \in {"archive", "announce", "launch", "run", "settle"} =>
            /\ proc.paid /\ proc.pc \in {"archive", "announce", "launch", "run", "settle"}
            /\ proc'.grant = proc.grant
            /\ proc'.pc \in {"archive", "announce", "launch"} =>
                 proc.pc \in {"archive", "announce", "launch"}
      <3>1. CASE Begins
        BY <3>1 DEF Begins, Begin, Idle
      <3>2. CASE Attest
        <4>1. proc' = [proc EXCEPT !.pc = "archive", !.before = inputs, !.left = proc.places] /\ ~proc.paid
          BY <1>1, <3>2 DEF Attest, Control
        <4> QED
          BY <1>1, <4>1 DEF TypeOK, Commanding
      <3>3. CASE ~Begins /\ ~Attest
        BY <1>1, <1>3, <3>3, Flow DEF Same, At
      <3> QED
        BY <3>1, <3>2, <3>3
    <2> QED
      BY <1>1, <2>1, <2>2, QuietStep
  <1> QED
    BY <1>2, <1>3

-----------------------------------------------------------------------------
(* Every step keeps the other types. *)

LEMMA InputsType ==
  ASSUME TypeOK, [Next]_vars
  PROVE  /\ inputs' \in Contents
         /\ spent' \in [commands : 0..MaxCommands, edits : 0..MaxEdits, faults : 0..MaxFaults]
  <1>0. /\ inputs \in Contents /\ {MaxCommands, MaxEdits, MaxFaults} \subseteq Nat
        /\ spent \in [commands : 0..MaxCommands, edits : 0..MaxEdits, faults : 0..MaxFaults]
    BY VerificationAssumption DEF VerificationAssumption, TypeOK
  <1>1. CASE Edits
    <2>1. PICK what \in {"code", "checks"} : Edit(what)
      BY <1>1 DEF Edits
    <2>2. /\ spent.edits < MaxEdits /\ spent' = [spent EXCEPT !.edits = @ + 1]
          /\ inputs' = [inputs EXCEPT ![what] = spent.edits + 1]
      BY <2>1 DEF Edit
    <2>3. spent.edits + 1 \in 0..MaxEdits /\ spent.edits + 1 \in Nat
      BY <1>0, <2>2
    <2>4. inputs' \in Contents
      BY <1>0, <2>1, <2>2, <2>3 DEF Contents
    <2>5. spent' \in [commands : 0..MaxCommands, edits : 0..MaxEdits, faults : 0..MaxFaults]
      BY <1>0, <2>2, <2>3
    <2> QED
      BY <2>4, <2>5
  <1>2. CASE RestoreOrigin
    <2>1. pair.origin \in Nat
      BY <1>2 DEF RestoreOrigin, TypeOK, Pairs
    <2>2. inputs' = [inputs EXCEPT !.code = pair.origin] /\ spent' = spent
      BY <1>2 DEF RestoreOrigin
    <2> QED
      BY <1>0, <2>1, <2>2 DEF Contents
  <1>3. CASE Begins
    <2>1. /\ spent.commands < MaxCommands /\ spent' = [spent EXCEPT !.commands = @ + 1]
          /\ inputs' = inputs
      BY <1>3 DEF Begins, Begin
    <2>2. spent.commands + 1 \in 0..MaxCommands
      BY <1>0, <2>1
    <2> QED
      BY <1>0, <2>1, <2>2
  <1>4. CASE Unprepared \/ Unsettled \/ Die
    <2>1. /\ spent.faults < MaxFaults /\ spent' = [spent EXCEPT !.faults = @ + 1]
          /\ inputs' = inputs
      BY <1>4 DEF Unprepared, Unsettled, Die, Fault
    <2>2. spent.faults + 1 \in 0..MaxFaults
      BY <1>0, <2>1
    <2> QED
      BY <1>0, <2>1, <2>2
  <1> QED
    BY <1>0, <1>1, <1>2, <1>3, <1>4, Frame

LEMMA ReceiptsType ==
  ASSUME TypeOK, Control, [Next]_vars
  PROVE  /\ receipts' \in [Places -> {None} \cup Receipts]
         /\ archive' \subseteq [place : Places, receipt : Receipts]
  <1>0. /\ receipts \in [Places -> {None} \cup Receipts]
        /\ archive \subseteq [place : Places, receipt : Receipts]
        /\ proc.left \in Seq(Places) /\ proc.outcome \in Outcomes
    BY DEF TypeOK, Commanding
  <1>1. CASE UNCHANGED <<receipts, archive>>
    BY <1>0, <1>1
  <1>2. CASE Archive
    <2>1. receipts' = receipts /\ archive' = Kept(Head(proc.left)) /\ proc.left # <<>>
      BY <1>2 DEF Archive, Control, At
    <2>2. Head(proc.left) \in Places
      BY <1>0, <2>1
    <2>3. Kept(Head(proc.left)) \subseteq [place : Places, receipt : Receipts]
      BY <1>0, <2>2 DEF Kept
    <2> QED
      BY <1>0, <2>1, <2>3
  <1>3. CASE Announce \/ Record
    <2>1. PICK outcome \in Outcomes :
            receipts' = [receipts EXCEPT ![Head(proc.left)] = Receipt(outcome)]
      BY <1>0, <1>3 DEF Announce, Record, Announced, Outcomes
    <2>2. archive' = archive /\ proc.left # <<>> /\ proc.kind \in Kinds /\ proc.before \in Contents
      BY <1>3 DEF Announce, Record, Control, At
    <2>3. Head(proc.left) \in Places
      BY <1>0, <2>2
    <2>4. Receipt(outcome) \in Receipts
      BY <2>2 DEF Receipt, Receipts, TypeOK, Commanding
    <2> QED
      BY <1>0, <2>1, <2>2, <2>3, <2>4
  <1> QED
    BY <1>1, <1>2, <1>3, Frame DEF Archive

LEMMA RunsType ==
  ASSUME TypeOK, Control, [Next]_vars
  PROVE  runs' \in Seq(Launched)
  <1>0. /\ runs \in Seq(Launched) /\ inputs \in Contents /\ proc.run \in Nat
        /\ proc.run <= Len(runs)
    BY DEF TypeOK, Commanding
  <1>1. CASE Launch
    <2> DEFINE run == [kind |-> proc.kind, places |-> proc.places, command |-> proc.command,
                       inputs |-> inputs, after |-> inputs, exit |-> "none"]
    <2>1. runs' = Append(runs, run) /\ At("launch")
      BY <1>1 DEF Launch
    <2>2. proc.kind \in Kinds /\ proc.places \in Targets /\ proc.command \in Commands
      BY <2>1 DEF Control, At
    <2>3. run \in Launched
      BY <1>0, <2>2 DEF Launched
    <2> HIDE DEF run
    <2> QED
      BY <1>0, <2>1, <2>3
  <1>2. CASE Exits
    <2>1. PICK outcome \in {"passed", "failed"}, seconds \in Nat : Exit(outcome, seconds)
      BY <1>2 DEF Exits
    <2> DEFINE run == [runs[proc.run] EXCEPT !.exit = outcome, !.after = inputs]
    <2>2. runs' = [runs EXCEPT ![proc.run] = run] /\ proc.run # 0
      BY <2>1 DEF Exit, Control
    <2>3. runs[proc.run] \in Launched
      BY <1>0, <2>2
    <2>4. run \in Launched
      BY <1>0, <2>3 DEF Launched
    <2> HIDE DEF run
    <2> QED
      BY <1>0, <2>2, <2>4
  <1> QED
    BY <1>0, <1>1, <1>2, Frame

-----------------------------------------------------------------------------
(* The theorems. *)

LEMMA Inductive == IInv /\ [Next]_vars => IInv'
  <1> SUFFICES ASSUME IInv, [Next]_vars PROVE IInv'
    OBVIOUS
  <1>1. TypeOK /\ Control
    BY DEF IInv
  <1>2. (Purse /\ Balance)'
    BY KeepsPurse
  <1>3. TypeOK'
    BY <1>1, <1>2, ProcType, PairType, InputsType, ReceiptsType, RunsType DEF TypeOK, Purse, Pends
  <1>4. Control'
    BY <1>1, KeepsControl
  <1> QED
    BY <1>2, <1>3, <1>4 DEF IInv

LEMMA Invariant == Spec => []IInv
  BY InitInv, Inductive, PTL DEF Spec

\* Everything keeps its type, and a reservation and its pending charge stay one.
THEOREM TypeCorrect == Spec => []TypeOK
  <1>1. IInv => TypeOK
    BY DEF IInv
  <1> QED
    BY <1>1, Invariant, PTL

LEMMA Accounts ==
  ASSUME IInv, ledger # None
  PROVE  owed.spent <= Charged(ledger) /\ owed.spent <= ledger.limit + owed.over
  <1>1. /\ proc.grant \in Nat /\ owed \in [spent : Int, over : Nat]
        /\ {Charged(ledger), ledger.limit} \subseteq Nat
    BY LedgerFacts DEF IInv, TypeOK, Commanding
  <1>2. Held \in Nat
    BY <1>1 DEF Held
  <1> QED
    BY <1>1, <1>2 DEF IInv, Balance

\* No kill, failed settlement, release or extension ever loses what runs drew on
\* an allowance.
THEOREM SpendingStaysCharged == Spec => []SpendingCharged
  <1>1. IInv => SpendingCharged
    BY Accounts DEF SpendingCharged
  <1> QED
    BY <1>1, Invariant, PTL

\* All runs together draw no more than the total, but for measured overruns.
THEOREM TotalsHold == Spec => []NeverOverspent
  <1>1. IInv => NeverOverspent
    BY Accounts DEF NeverOverspent
  <1> QED
    BY <1>1, Invariant, PTL
-----------------------------------------------------------------------------
(* What passes rest on.  An edit gives a new content and nothing is        *)
(* restored while a command holds the lock, so contents only go forward    *)
(* between a command's first observation and its last; a receipt or stage  *)
(* is pending, and its last conclusion kept, before its command starts.    *)

Before(a, b) == a.code <= b.code /\ a.checks <= b.checks

\* There is a pair, as there is for every command that runs a stage of it.
Active == pair # None \/ (~At("idle") /\ Staging)

Forward ==
  /\ inputs.code <= spent.edits /\ inputs.checks <= spent.edits
  /\ Active => pair.origin <= spent.edits
  /\ ~At("idle") => Before(proc.seen, inputs)
  /\ ~At("idle") /\ ~At("reserve") => Before(proc.seen, proc.before) /\ Before(proc.before, inputs)
  /\ proc.pc \in {"run", "settle", "judge"} /\ Captured =>
       /\ Before(proc.before, runs[proc.run].inputs)
       /\ Before(runs[proc.run].inputs, runs[proc.run].after)
       /\ Before(runs[proc.run].after, inputs)

\* The run is the command's own: of its kind, its places and its check.
Own(run) ==
  /\ run = Len(runs) /\ run # 0
  /\ runs[run].kind = proc.kind /\ runs[run].places = proc.places
  /\ runs[run].command = proc.command

Running ==
  /\ proc.pc \in {"run", "settle", "judge"} /\ Captured => Own(proc.run)
  /\ At("run") => runs[proc.run].exit = "none"
  /\ proc.pc \in {"settle", "judge"} /\ Captured /\ proc.outcome = "passed"
       => runs[proc.run].exit = "passed"
  /\ At("record") /\ Captured /\ proc.outcome = "passed" =>
       Own(proc.run) /\ Ran(proc.run, proc.before) /\ (Staging => proc.seen = proc.before)
  /\ ~At("idle") /\ proc.kind = "candidate" =>
       pair.baseline.run <= Len(runs) /\ (proc.run # 0 => pair.baseline.run < proc.run)

\* Where a command writes its receipts.
Stored(p)  == receipts[p] = None \/ [place |-> p, receipt |-> receipts[p]] \in archive
Pending(p) == receipts[p].outcome = "pending"
Left(p)    == \E k \in DOMAIN proc.left : proc.left[k] = p
Ours       == {proc.places[i] : i \in DOMAIN proc.places}

Receipting ==
  ~Staging =>
    /\ proc.pc \in {"archive", "announce", "record"} => \A p : Left(p) => p \in Ours
    /\ \A p \in Ours :
         /\ At("archive") => Stored(p) \/ Left(p)
         /\ At("announce") => (Stored(p) \/ Pending(p)) /\ (Pending(p) \/ Left(p))
         /\ proc.pc \in {"launch", "run", "settle", "judge"} => Pending(p)
         /\ At("record") => Pending(p) \/ receipts[p] = Receipt(proc.outcome)
Staged ==
  proc.pc \in {"launch", "run", "settle", "judge", "record"} /\ Staging =>
     pair[proc.kind].outcome = "pending"

Passes ==
  /\ \A p \in Places : receipts[p] # None =>
       /\ receipts[p].run <= Len(runs)
       /\ receipts[p].kind # "attest" /\ receipts[p].outcome = "passed" =>
            Ran(receipts[p].run, receipts[p].inputs) /\ Later(p, receipts[p].run) = {}
  /\ Active => \A s \in Stages : pair[s] # None =>
       /\ pair[s].run <= Len(runs)
       /\ pair[s].outcome = "passed" =>
            /\ Ran(pair[s].run, pair[s].seen)
            /\ runs[pair[s].run].command = pair[s].command /\ runs[pair[s].run].kind = s
            /\ s = "candidate" => pair[s].base < pair[s].run

SInv == Forward /\ Running /\ Receipting /\ Staged /\ Passes

-----------------------------------------------------------------------------
(* One step of a command, seen through its request and its run. *)

Hold  == Carry /\ proc'.before = proc.before /\ proc'.run = proc.run
Quiet == UNCHANGED <<runs, receipts, archive, pair>>

LEMMA Course ==
  ASSUME TypeOK, Control, [Next]_vars
  PROVE  \/ proc' = proc /\ UNCHANGED <<runs, receipts, archive>> /\ (Activate \/ pair' = pair)
         \/ proc' = Idle /\ runs' = runs /\ (Record \/ RecordStage \/ Quiet)
         \/ Begins /\ Quiet /\ proc'.pc = "reserve" /\ proc'.seen = inputs /\ proc'.run = 0
         \/ /\ At("reserve") /\ Carry /\ Quiet /\ proc'.run = proc.run
            /\ proc'.before = inputs /\ proc'.left = proc.places
            /\ proc'.pc \in {"announce", "archive"} /\ (proc'.pc = "archive" <=> ~Staging)
         \/ /\ Hold /\ Archive
            /\ \/ proc'.pc = "archive" /\ proc'.left = Tail(proc.left)
               \/ Len(proc.left) = 1 /\ proc'.pc = "announce" /\ proc'.left = proc.places
         \/ /\ Hold /\ Announce
            /\ \/ proc'.pc = "announce" /\ proc'.left = Tail(proc.left)
               \/ Len(proc.left) = 1 /\ proc'.pc = (IF Captured THEN "launch" ELSE "judge")
         \/ Hold /\ AnnounceStage /\ proc'.pc = "launch"
         \/ Carry /\ proc'.before = proc.before /\ Launch /\ proc'.pc = "run" /\ proc'.run = Len(runs) + 1
         \/ Hold /\ Exits /\ proc'.pc = "settle"
         \/ Hold /\ Quiet /\ At("settle") /\ proc'.pc = "judge" /\ proc'.outcome \in {proc.outcome, "failed"}
         \/ /\ Hold /\ Quiet /\ At("judge") /\ proc'.pc = "record" /\ proc'.left = proc.places
            /\ proc'.outcome = "passed" /\ Captured => proc.outcome = "passed" /\ StoodStill
         \/ Hold /\ Record /\ proc'.pc = "record" /\ proc'.outcome = proc.outcome /\ proc'.left = Tail(proc.left)
         \/ /\ Hold /\ Quiet /\ Staging /\ proc.pc \in {"launch", "run", "settle"}
            /\ proc'.pc = "record" /\ proc'.outcome = "failed"
  <1>0. proc \in Commanding /\ runs \in Seq(Launched) /\ Len(runs) \in Nat
    BY DEF TypeOK
  <1> DEFINE Fields == {"pc", "kind", "places", "left", "command", "before", "seen", "grant",
                        "paid", "run", "outcome", "seconds"}
  <1>1. proc = [f \in Fields |-> proc[f]]
    BY <1>0 DEF Commanding
  <1>2. CASE Activate \/ RestoreOrigin \/ Edits \/ UNCHANGED vars
    BY <1>2 DEF Activate, RestoreOrigin, Edits, Edit, vars
  <1>3. CASE Exhausts \/ Die \/ RecordStage
    BY <1>3 DEF Exhausts, Exhausted, Die, RecordStage, End, Quiet
  <1>4. CASE Begins
    <2>1. PICK kind \in Kinds, places \in Targets, command \in Commands : Begin(kind, places, command)
      BY <1>4 DEF Begins
    <2>. QED BY <1>4, <2>1 DEF Begin, Idle, Quiet
  <1>5. CASE Reserves
    <2>1. PICK total \in Totals \cup {None}, timeout \in Timeouts : Reserve(total, timeout)
      BY <1>5 DEF Reserves
    <2>2. PICK grant, paid :
            proc' = [proc EXCEPT !.pc = IF Staging THEN "announce" ELSE "archive",
                       !.before = inputs, !.grant = grant, !.paid = paid, !.left = proc.places]
      BY <2>1 DEF Reserve
    <2>3. At("reserve") /\ Quiet
      BY <2>1 DEF Reserve, Quiet
    <2>. QED BY <1>1, <2>2, <2>3 DEF Carry, At
  <1>6. CASE Attest
    <2>1. /\ proc' = [proc EXCEPT !.pc = "archive", !.before = inputs, !.left = proc.places]
          /\ At("reserve") /\ ~Captured /\ Quiet
      BY <1>6 DEF Attest, Quiet
    <2>2. ~Staging
      BY <2>1 DEF Captured, Staging, Stages
    <2>. QED BY <1>1, <2>1, <2>2 DEF Carry, At
  <1>7. CASE Archive
    BY <1>1, <1>7 DEF Archive, Take, Hold, Carry, At
  <1>8. CASE Announce
    BY <1>1, <1>8 DEF Announce, Take, Hold, Carry, At
  <1>9. CASE Record
    BY <1>1, <1>9 DEF Record, Take, End, Hold, Carry, At
  <1>10. CASE AnnounceStage
    BY <1>1, <1>10 DEF AnnounceStage, Goto, Hold, Carry, At
  <1>11. CASE Launch
    BY <1>1, <1>11 DEF Launch, Carry, At
  <1>12. CASE Exits
    BY <1>1, <1>12 DEF Exits, Exit, Hold, Carry, At
  <1>13. CASE Settle
    BY <1>1, <1>13 DEF Settle, Goto, Hold, Carry, At, Quiet
  <1>14. CASE Judges
    BY <1>1, <1>14 DEF Judges, Judge, Hold, Carry, At, Quiet
  <1>15. CASE Unprepared
    BY <1>1, <1>15 DEF Unprepared, End, Hold, Carry, At, Quiet
  <1>16. CASE Unsettled
    BY <1>1, <1>16 DEF Unsettled, End, Hold, Carry, At, Quiet
  <1>. QED BY <1>2, <1>3, <1>4, <1>5, <1>6, <1>7, <1>8, <1>9, <1>10, <1>11, <1>12, <1>13,
              <1>14, <1>15, <1>16, Steps

\* What a step does to the record of runs.
LEMMA RunsStep ==
  ASSUME TypeOK, Control, [Next]_vars
  PROVE  /\ Len(runs') \in {Len(runs), Len(runs) + 1} /\ Len(runs) \in Nat
         /\ \A i \in 1..Len(runs) : (At("run") /\ Exits /\ i = proc.run) \/ runs'[i] = runs[i]
         /\ Exits => \E outcome \in {"passed", "failed"} :
              /\ proc'.outcome = outcome /\ Len(runs') = Len(runs)
              /\ runs'[proc.run] = [runs[proc.run] EXCEPT !.exit = outcome, !.after = inputs]
         /\ Launch =>
              /\ Len(runs') = Len(runs) + 1
              /\ runs'[Len(runs) + 1] = [kind |-> proc.kind, places |-> proc.places, command |-> proc.command,
                                         inputs |-> inputs, after |-> inputs, exit |-> "none"]
         /\ Launch \/ Len(runs') = Len(runs)
  <1>0. /\ runs \in Seq(Launched) /\ Len(runs) \in Nat /\ proc.run \in Nat /\ proc.run <= Len(runs)
        /\ At("run") => proc.run # 0
    BY DEF TypeOK, Commanding, Control
  <1>1. CASE Launch
    <2> DEFINE run == [kind |-> proc.kind, places |-> proc.places, command |-> proc.command,
                       inputs |-> inputs, after |-> inputs, exit |-> "none"]
    <2>1. runs' = Append(runs, run) /\ ~Exits
      BY <1>1 DEF Launch, Exits, Exit, At
    <2>. HIDE DEF run
    <2>2. Len(runs') = Len(runs) + 1 /\ runs'[Len(runs) + 1] = run /\ \A i \in 1..Len(runs) : runs'[i] = runs[i]
      BY <1>0, <2>1
    <2>. QED BY <1>0, <1>1, <2>1, <2>2 DEF run
  <1>2. CASE Exits
    <2>1. PICK outcome \in {"passed", "failed"}, seconds \in Nat : Exit(outcome, seconds)
      BY <1>2 DEF Exits
    <2> DEFINE run == [runs[proc.run] EXCEPT !.exit = outcome, !.after = inputs]
    <2>2. /\ runs' = [runs EXCEPT ![proc.run] = run] /\ At("run") /\ ~Launch
          /\ proc' = [proc EXCEPT !.pc = "settle", !.outcome = outcome, !.seconds = seconds]
      BY <2>1 DEF Exit, Launch, At
    <2>3. proc'.outcome = outcome
      BY <2>2 DEF TypeOK, Commanding
    <2>. HIDE DEF run
    <2>4. Len(runs') = Len(runs) /\ runs'[proc.run] = run /\ \A i \in 1..Len(runs) : i # proc.run => runs'[i] = runs[i]
      BY <1>0, <2>2
    <2>. QED BY <1>0, <1>2, <2>2, <2>3, <2>4 DEF run
  <1>3. CASE ~Launch /\ ~Exits
    <2>1. runs' = runs
      BY <1>3, Frame
    <2>. QED BY <1>0, <1>3, <2>1
  <1>. QED BY <1>1, <1>2, <1>3

-----------------------------------------------------------------------------
(* Contents only go forward under a command. *)

LEMMA ActiveBefore ==
  ASSUME TypeOK, Control, [Next]_vars, pair' = pair, ~Activate
  PROVE  Active' => Active
  <1>1. CASE proc' = proc \/ proc' = Idle
    BY <1>1 DEF Active, Staging, At, Idle
  <1>2. CASE Begins
    <2>1. PICK kind \in Kinds, places \in Targets, command \in Commands : Begin(kind, places, command)
      BY <1>2 DEF Begins
    <2>2. proc'.kind = kind
      BY <2>1 DEF Begin, Idle
    <2>. QED BY <2>1, <2>2 DEF Active, Begin, Staging
  <1>3. CASE Carry /\ ~At("idle")
    BY <1>3 DEF Active, Carry, Staging
  <1>. QED BY <1>1, <1>2, <1>3, Course
        DEF Hold, At, Archive, Announce, AnnounceStage, Launch, Exits, Exit, Record

LEMMA InputsForward ==
  ASSUME TypeOK, Control, Forward, [Next]_vars
  PROVE  /\ {inputs.code, inputs.checks, inputs'.code, inputs'.checks, spent.edits, spent'.edits} \subseteq Nat
         /\ inputs'.code <= spent'.edits /\ inputs'.checks <= spent'.edits
         /\ Active' => pair'.origin <= spent'.edits
         /\ ~At("idle") => Before(inputs, inputs')
  <1>0. /\ inputs \in Contents /\ inputs' \in Contents /\ pair \in {None} \cup Pairs
        /\ spent \in [commands : 0..MaxCommands, edits : 0..MaxEdits, faults : 0..MaxFaults]
        /\ spent.edits \in Nat
    BY InputsType, VerificationAssumption DEF VerificationAssumption, TypeOK
  <1>1. {inputs.code, inputs.checks, inputs'.code, inputs'.checks} \subseteq Nat
    BY <1>0 DEF Contents
  <1>2. CASE Edits
    <2>1. PICK what \in {"code", "checks"} : Edit(what)
      BY <1>2 DEF Edits
    <2>2. /\ inputs' = [inputs EXCEPT ![what] = spent.edits + 1] /\ spent' = [spent EXCEPT !.edits = @ + 1]
          /\ pair' = pair
      BY <2>1 DEF Edit
    <2>3. spent'.edits = spent.edits + 1
      BY <1>0, <2>2
    <2>4. /\ inputs'.code \in {inputs.code, spent.edits + 1}
          /\ inputs'.checks \in {inputs.checks, spent.edits + 1}
      BY <1>0, <2>2 DEF Contents
    <2>5. Active => pair.origin \in Nat
      BY <1>0 DEF Pairs, Active, Control
    <2>6. Active' = Active
      BY <2>1, <2>2 DEF Edit, Active, At, Staging
    <2>. QED BY <1>0, <1>1, <2>2, <2>3, <2>4, <2>5, <2>6 DEF Forward, Before
  <1>3. CASE RestoreOrigin
    <2>1. /\ inputs' = [inputs EXCEPT !.code = pair.origin] /\ UNCHANGED <<spent, pair>>
          /\ At("idle") /\ pair # None
      BY <1>3 DEF RestoreOrigin
    <2>2. inputs'.code = pair.origin /\ inputs'.checks = inputs.checks
      BY <1>0, <2>1 DEF Contents
    <2>3. Active' = Active
      BY <1>3 DEF RestoreOrigin, Active, At, Staging
    <2>. QED BY <1>0, <1>1, <2>1, <2>2, <2>3 DEF Forward, Active
  <1>4. CASE ~Edits /\ ~RestoreOrigin
    <2>1. inputs' = inputs
      BY <1>4, Frame
    <2>2. spent'.edits = spent.edits
      <3>1. CASE Begins
        <4>1. spent' = [spent EXCEPT !.commands = @ + 1]
          BY <3>1 DEF Begins, Begin
        <4>. QED BY <1>0, <4>1
      <3>2. CASE Unprepared \/ Unsettled \/ Die
        <4>1. spent' = [spent EXCEPT !.faults = @ + 1]
          BY <3>2 DEF Unprepared, Unsettled, Die, Fault
        <4>. QED BY <1>0, <4>1
      <3>. QED BY <1>4, <3>1, <3>2, Frame
    <2>3. Active' => pair'.origin = inputs.code \/ (Active /\ pair'.origin = pair.origin)
      <3>1. CASE Activate
        BY <3>1 DEF Activate
      <3>2. CASE AnnounceStage \/ RecordStage
        <4>1. pair \in Pairs /\ Active /\ proc.kind \in Stages
          BY <3>2 DEF AnnounceStage, RecordStage, Control, Active, At, Staging
        <4>2. pair'.origin = pair.origin
          BY <3>2, <4>1 DEF AnnounceStage, RecordStage, Pairs, Stages
        <4>. QED BY <4>1, <4>2
      <3>3. CASE pair' = pair /\ ~Activate
        <4>1. Active' => Active
          BY <3>3, ActiveBefore
        <4>. QED BY <3>3, <4>1
      <3>. QED BY <3>1, <3>2, <3>3, Frame
    <2>. QED BY <1>0, <1>1, <2>1, <2>2, <2>3 DEF Forward, Before
  <1>. QED BY <1>2, <1>3, <1>4

LEMMA BeforeTransitive ==
  ASSUME NEW a \in Contents, NEW b \in Contents, NEW c \in Contents, Before(a, b), Before(b, c)
  PROVE  Before(a, c) /\ (a = c => b = a)
  BY DEF Before, Contents

LEMMA ForwardStep ==
  ASSUME TypeOK, Control, Running, Forward, [Next]_vars
  PROVE  Forward'
  <1>0. /\ inputs \in Contents /\ inputs' \in Contents /\ proc \in Commanding
        /\ runs \in Seq(Launched) /\ Len(runs) \in Nat /\ proc.run \in Nat /\ proc.run <= Len(runs)
        /\ Idle.pc = "idle"
    BY InputsType DEF TypeOK, Commanding, Idle
  <1>1. /\ inputs'.code <= spent'.edits /\ inputs'.checks <= spent'.edits
        /\ Active' => pair'.origin <= spent'.edits
    BY InputsForward
  <1>2. /\ ~At("idle") => proc.seen \in Contents /\ Before(proc.seen, inputs) /\ Before(inputs, inputs')
        /\ ~At("idle") /\ ~At("reserve") =>
             proc.before \in Contents /\ Before(proc.seen, proc.before) /\ Before(proc.before, inputs)
    BY InputsForward DEF Forward, Control
  <1>3. /\ ~At("idle") => Before(proc.seen, inputs')
        /\ ~At("idle") /\ ~At("reserve") => Before(proc.before, inputs')
    BY <1>0, <1>2, BeforeTransitive
  <1>4. \A x \in Contents : Before(x, x)
    BY DEF Before, Contents
  <1>5. \A i \in 1..Len(runs) :
          runs[i] \in Launched /\ runs[i].inputs \in Contents /\ runs[i].after \in Contents
    <2>1. \A i \in 1..Len(runs) : runs[i] \in Launched
      BY <1>0
    <2>. QED BY <2>1 DEF Launched
  <1>. DEFINE Shown == proc.pc \in {"run", "settle", "judge"} /\ Captured
  <1>6. /\ ~At("idle")' => Before(proc'.seen, inputs')
        /\ ~At("idle")' /\ ~At("reserve")' => Before(proc'.seen, proc'.before) /\ Before(proc'.before, inputs')
    <2>1. CASE proc' = proc
      BY <1>2, <1>3, <2>1 DEF At
    <2>2. CASE proc' = Idle
      BY <1>0, <2>2 DEF At
    <2>3. CASE Begins /\ proc'.pc = "reserve" /\ proc'.seen = inputs
      BY <1>0, <1>4, <2>3 DEF Begins, Begin, At
    <2>4. CASE At("reserve") /\ Carry /\ proc'.before = inputs
      BY <1>2, <1>3, <2>4 DEF Carry, At
    <2>5. CASE Carry /\ proc'.before = proc.before /\ ~At("idle") /\ ~At("reserve")
      BY <1>2, <1>3, <2>5 DEF Carry
    <2>. QED BY <2>1, <2>2, <2>3, <2>4, <2>5, Course
          DEF Hold, Archive, Announce, AnnounceStage, Launch, Exits, Exit, Record, At
  <1>7. Shown' =>
          /\ Before(proc'.before, runs'[proc'.run].inputs)
          /\ Before(runs'[proc'.run].inputs, runs'[proc'.run].after)
          /\ Before(runs'[proc'.run].after, inputs')
    <2>1. Shown => /\ proc.run \in 1..Len(runs)
                   /\ Before(proc.before, runs[proc.run].inputs)
                   /\ Before(runs[proc.run].inputs, runs[proc.run].after)
                   /\ Before(runs[proc.run].after, inputs)
      BY <1>0 DEF Running, Own, Forward
    <2>2. Shown => Before(runs[proc.run].after, inputs')
      BY <1>0, <1>2, <1>5, <2>1, BeforeTransitive DEF At
    <2>3. CASE Shown /\ runs' = runs /\ proc'.before = proc.before /\ proc'.run = proc.run
      BY <2>1, <2>2, <2>3
    <2>4. CASE Launch /\ proc'.before = proc.before /\ proc'.run = Len(runs) + 1
      BY <1>2, <1>4, <1>0, <2>4, RunsStep DEF Launch, At
    <2>5. CASE Exits /\ Hold
      <3>1. Shown
        BY <2>5 DEF Exits, Exit, At, Control
      <3>2. runs'[proc.run].inputs = runs[proc.run].inputs /\ runs'[proc.run].after = inputs
        BY <1>5, <2>1, <2>5, <3>1, RunsStep DEF Launched
      <3>3. Before(runs[proc.run].inputs, inputs)
        BY <1>0, <1>5, <2>1, <3>1, BeforeTransitive
      <3>. QED BY <2>1, <2>5, <3>1, <3>2, <3>3, <1>2 DEF Hold, At
    <2>6. CASE proc'.pc \notin {"run", "settle", "judge"}
      BY <2>6
    <2>7. CASE Hold /\ Announce /\ proc'.pc = (IF Captured THEN "launch" ELSE "judge")
      BY <2>7 DEF Hold, Carry, Captured
    <2>. QED BY <1>0, <2>3, <2>4, <2>5, <2>6, <2>7, Course DEF Hold, Carry, Quiet, At, Captured
  <1>. QED BY <1>1, <1>6, <1>7 DEF Forward

-----------------------------------------------------------------------------
(* The run in hand is the command's own. *)

LEMMA RunningStep ==
  ASSUME TypeOK, Control, Running, Forward, Passes, [Next]_vars
  PROVE  Running'
  <1>0. /\ inputs \in Contents /\ proc \in Commanding /\ runs \in Seq(Launched) /\ Len(runs) \in Nat
        /\ proc.run \in Nat /\ proc.run <= Len(runs) /\ Idle.pc = "idle" /\ Idle.run = 0
    BY DEF TypeOK, Commanding, Idle
  <1>1. CASE proc' = proc
    <2>1. runs' = runs /\ (~At("idle") => pair' = pair)
      BY <1>0, <1>1, Course DEF Activate, Archive, Announce, AnnounceStage, Launch, Exits, Exit,
         Record, At, Quiet
    <2>. QED BY <1>1, <2>1 DEF Running, Own, Ran, At, Captured, Staging
  <1>2. CASE proc' = Idle
    BY <1>0, <1>2 DEF Running, At
  <1>3. CASE Begins /\ Quiet /\ proc'.pc = "reserve" /\ proc'.run = 0
    <2>1. PICK kind \in Kinds, places \in Targets, command \in Commands : Begin(kind, places, command)
      BY <1>3 DEF Begins
    <2>2. proc'.kind = kind
      BY <2>1 DEF Begin, Idle
    <2>3. kind = "candidate" => pair.baseline.run <= Len(runs)
      BY <2>1 DEF Begin, Holds, Passes, Active, Stages
    <2>. QED BY <1>0, <1>3, <2>2, <2>3 DEF Running, At, Quiet
  <1>4. CASE Launch /\ Carry /\ proc'.pc = "run" /\ proc'.run = Len(runs) + 1
    <2>1. Len(runs') = Len(runs) + 1 /\ pair' = pair /\ ~At("idle")
      BY <1>4, RunsStep DEF Launch, At
    <2>2. Own(proc.run)' /\ runs'[proc'.run].exit = "none"
      BY <1>0, <1>4, <2>1, RunsStep DEF Own, Carry
    <2>3. proc.kind = "candidate" => pair.baseline.run <= Len(runs) /\ pair \in Pairs /\ pair.baseline \in Results
      BY <2>1 DEF Running, Control, Staging, Stages
    <2>4. proc.kind = "candidate" => pair.baseline.run \in Nat
      BY <2>3 DEF Results
    <2>. QED BY <1>0, <1>4, <2>1, <2>2, <2>3, <2>4 DEF Running, At, Carry
  <1>5. CASE Exits /\ Hold /\ proc'.pc = "settle"
    <2>1. At("run") /\ Captured /\ pair' = pair
      BY <1>5 DEF Exits, Exit, At, Control
    <2>2. Own(proc.run) /\ proc.run \in 1..Len(runs)
      BY <1>0, <2>1 DEF Running, Own, At
    <2>3. runs[proc.run] \in Launched
      BY <1>0, <2>2
    <2>4. /\ Len(runs') = Len(runs) /\ runs'[proc.run].exit = proc'.outcome
          /\ runs'[proc.run].kind = runs[proc.run].kind /\ runs'[proc.run].places = runs[proc.run].places
          /\ runs'[proc.run].command = runs[proc.run].command
      BY <1>5, <2>3, RunsStep DEF Launched
    <2>5. Own(proc.run)'
      BY <1>5, <2>2, <2>4 DEF Own, Hold, Carry
    <2>. QED BY <1>0, <1>5, <2>1, <2>4, <2>5 DEF Running, Hold, Carry, At
  <1>6. ~At("idle") /\ Carry /\ runs' = runs /\ proc'.run = proc.run /\ proc'.kind = "candidate" =>
          pair'.baseline.run <= Len(runs') /\ (proc'.run # 0 => pair'.baseline.run < proc'.run)
    <2>. SUFFICES ASSUME ~At("idle"), Carry, runs' = runs, proc'.run = proc.run, proc'.kind = "candidate"
                  PROVE  pair'.baseline.run = pair.baseline.run
      BY DEF Running, Carry
    <2>1. CASE AnnounceStage \/ RecordStage
      <3>1. pair \in Pairs /\ proc.kind = "candidate"
        BY <2>1 DEF AnnounceStage, RecordStage, Control, At, Staging, Carry
      <3>. QED BY <2>1, <3>1 DEF AnnounceStage, RecordStage, Pairs, Stages
    <2>. QED BY <2>1, Frame DEF Activate
  <1>7. CASE Carry /\ runs' = runs /\ proc'.run = proc.run /\ ~At("idle") /\ proc'.pc \in {"archive", "announce", "launch"}
    BY <1>6, <1>7 DEF Running, At
  <1>8. CASE Hold /\ Quiet /\ At("settle") /\ proc'.pc = "judge" /\ proc'.outcome \in {proc.outcome, "failed"}
    BY <1>6, <1>8 DEF Running, Hold, Carry, Quiet, At, Captured, Own
  <1>9. CASE Hold /\ Announce /\ proc'.pc = (IF Captured THEN "launch" ELSE "judge")
    <2>1. runs' = runs /\ ~At("idle")
      BY <1>9 DEF Announce, At
    <2>. QED BY <1>6, <1>9, <2>1 DEF Running, Hold, Carry, At, Captured
  <1>10. CASE /\ Hold /\ Quiet /\ At("judge") /\ proc'.pc = "record"
              /\ proc'.outcome = "passed" /\ Captured => proc.outcome = "passed" /\ StoodStill
    <2>1. proc'.outcome = "passed" /\ Captured =>
            Own(proc.run) /\ Ran(proc.run, proc.before) /\ (Staging => proc.seen = proc.before)
      <3>. SUFFICES ASSUME proc'.outcome = "passed", Captured
                    PROVE  Own(proc.run) /\ Ran(proc.run, proc.before) /\ (Staging => proc.seen = proc.before)
        OBVIOUS
      <3>1. /\ Own(proc.run) /\ proc.run \in 1..Len(runs) /\ runs[proc.run].exit = "passed"
            /\ proc.before = inputs /\ (Staging => proc.seen = inputs)
        BY <1>0, <1>10 DEF Running, Own, At, StoodStill
      <3>2. runs[proc.run].inputs \in Contents /\ runs[proc.run].after \in Contents
        <4>1. runs[proc.run] \in Launched
          BY <1>0, <3>1
        <4>. QED BY <4>1 DEF Launched
      <3>3. /\ Before(inputs, runs[proc.run].inputs)
            /\ Before(runs[proc.run].inputs, runs[proc.run].after)
            /\ Before(runs[proc.run].after, inputs)
        BY <1>10, <3>1 DEF Forward, At
      <3>4. runs[proc.run].inputs = inputs /\ runs[proc.run].after = inputs
        BY SMTT(30), <1>0, <3>2, <3>3 DEF Before, Contents
      <3>. QED BY <3>1, <3>4 DEF Ran, Own
    <2>. QED BY <1>6, <1>10, <2>1 DEF Running, Hold, Carry, Quiet, At, Captured, Own, Ran, Staging
  <1>11. CASE Hold /\ Record /\ proc'.pc = "record" /\ proc'.outcome = proc.outcome
    <2>1. runs' = runs /\ At("record")
      BY <1>11 DEF Record
    <2>. QED BY <1>6, <1>11, <2>1 DEF Running, Hold, Carry, At, Captured, Own, Ran, Staging
  <1>12. CASE Hold /\ Quiet /\ proc.pc \in {"launch", "run", "settle"} /\ proc'.pc = "record" /\ proc'.outcome = "failed"
    BY <1>6, <1>12 DEF Running, Hold, Quiet, At
  <1>. QED BY <1>1, <1>2, <1>3, <1>4, <1>5, <1>7, <1>8, <1>9, <1>10, <1>11, <1>12, Course
        DEF Hold, Quiet, Archive, Announce, AnnounceStage, At

-----------------------------------------------------------------------------
(* Receipts and stages are pending, and their last conclusions kept, before *)
(* a command starts.                                                        *)

LEMMA HeadOrTail ==
  ASSUME TypeOK, NEW p, proc.left # <<>>, Left(p)
  PROVE  \/ p = Head(proc.left)
         \/ Len(proc.left) # 1 /\ \E k \in DOMAIN Tail(proc.left) : Tail(proc.left)[k] = p
  <1>1. proc.left \in Seq(Places) /\ Len(proc.left) \in Nat /\ Len(proc.left) # 0
    BY DEF TypeOK, Commanding
  <1>2. PICK k \in 1..Len(proc.left) : proc.left[k] = p
    BY <1>1 DEF Left
  <1>3. CASE k = 1
    BY <1>1, <1>2, <1>3
  <1>4. CASE k # 1
    <2>1. Len(Tail(proc.left)) = Len(proc.left) - 1 /\ Tail(proc.left) \in Seq(Places)
      BY <1>1
    <2>2. k - 1 \in 1..Len(Tail(proc.left)) /\ Tail(proc.left)[k - 1] = p
      BY <1>1, <1>2, <1>4, <2>1
    <2>3. DOMAIN Tail(proc.left) = 1..Len(Tail(proc.left)) /\ Len(proc.left) # 1
      BY <1>1, <1>2, <1>4, <2>1
    <2>. QED BY <2>2, <2>3
  <1>. QED BY <1>3, <1>4

LEMMA TailLeft ==
  ASSUME TypeOK, proc.left # <<>>, proc'.left = Tail(proc.left), NEW p, Left(p)'
  PROVE  Left(p)
  <1>1. proc.left \in Seq(Places) /\ Len(proc.left) \in Nat /\ Len(proc.left) # 0
    BY DEF TypeOK, Commanding
  <1>2. PICK k \in DOMAIN Tail(proc.left) : Tail(proc.left)[k] = p
    BY DEF Left
  <1>3. Len(Tail(proc.left)) = Len(proc.left) - 1 /\ Tail(proc.left) \in Seq(Places)
    BY <1>1
  <1>4. DOMAIN Tail(proc.left) = 1..Len(Tail(proc.left)) /\ DOMAIN proc.left = 1..Len(proc.left)
    BY <1>1, <1>3
  <1>5. k + 1 \in DOMAIN proc.left /\ proc.left[k + 1] = p
    BY <1>1, <1>2, <1>3, <1>4
  <1>. QED BY <1>5 DEF Left

LEMMA ReceiptingStep ==
  ASSUME TypeOK, Control, Receipting, [Next]_vars
  PROVE  Receipting'
  <1>0. /\ proc \in Commanding /\ receipts \in [Places -> {None} \cup Receipts]
        /\ Idle.pc = "idle"
    BY DEF TypeOK, Idle
  <1>9. ASSUME Carry, ~Staging, proc.pc \in {"archive", "announce", "record"}, proc.left # <<>>,
               proc'.left \in {Tail(proc.left), proc.places}
        PROVE  \A p : Left(p)' => p \in Ours'
    <2>1. ASSUME NEW p, Left(p)' PROVE p \in Ours
      BY <1>9, <2>1, TailLeft DEF Receipting, Ours, Left
    <2>. QED BY <1>9, <2>1 DEF Ours, Carry
  <1>1. CASE proc' = proc /\ UNCHANGED <<receipts, archive>>
    BY <1>1 DEF Receipting, Ours, Staging, At, Stored, Pending, Left, Receipt
  <1>2. CASE proc'.pc \in {"idle", "reserve"}
    BY <1>2 DEF Receipting, At
  <1>3. CASE /\ At("reserve") /\ Carry /\ Quiet /\ proc'.left = proc.places
             /\ proc'.pc \in {"announce", "archive"} /\ (proc'.pc = "archive" <=> ~Staging)
    BY <1>3 DEF Carry, Receipting, At, Staging, Ours, Left
  <1>4. CASE Staging /\ Carry
    BY <1>4 DEF Carry, Receipting, Staging
  <1>5. CASE /\ Hold /\ Archive
             /\ \/ proc'.pc = "archive" /\ proc'.left = Tail(proc.left)
                \/ Len(proc.left) = 1 /\ proc'.pc = "announce" /\ proc'.left = proc.places
    <2>1. /\ At("archive") /\ archive' = Kept(Head(proc.left)) /\ receipts' = receipts /\ ~Staging
          /\ proc.left # <<>>
      BY <1>5 DEF Archive, Control, At
    <2>2. Ours' = Ours
      BY <1>5 DEF Ours, Hold, Carry
    <2>. PICK head : head = Head(proc.left)
      OBVIOUS
    <2>3. Stored(head)' /\ archive \subseteq archive' /\ \A p \in Ours : Stored(p) => Stored(p)'
      BY <2>1 DEF Kept, Stored
    <2>4. ASSUME NEW p \in Ours
          PROVE  Stored(p)' \/ (proc'.pc = "archive" /\ Left(p)')
      BY <1>5, <2>1, <2>3, HeadOrTail DEF Receipting, Stored, Left
    <2>5. proc'.left = proc.places => \A p \in Ours : Left(p)'
      BY DEF Ours, Left
    <2>. QED BY <1>5, <1>9, <2>1, <2>2, <2>4, <2>5 DEF Receipting, At, Hold
  <1>6. CASE /\ Hold /\ Announce
             /\ \/ proc'.pc = "announce" /\ proc'.left = Tail(proc.left)
                \/ Len(proc.left) = 1 /\ proc'.pc = (IF Captured THEN "launch" ELSE "judge")
    <2>1. /\ At("announce") /\ receipts' = [receipts EXCEPT ![Head(proc.left)] = Receipt("pending")]
          /\ archive' = archive /\ ~Staging /\ proc.left # <<>>
      BY <1>6 DEF Announce, Announced, Control, At
    <2>2. Ours' = Ours
      BY <1>6 DEF Ours, Hold, Carry
    <2>. PICK head : head = Head(proc.left)
      OBVIOUS
    <2>3. head \in Places
      BY <1>0, <2>1 DEF Commanding
    <2>4. Pending(head)'
      BY <1>0, <2>1, <2>3 DEF Pending, Receipt
    <2>5. \A p : p # head => (Stored(p) => Stored(p)') /\ (Pending(p) => Pending(p)')
      BY <1>0, <2>1, <2>3 DEF Stored, Pending
    <2>6. ASSUME NEW p \in Ours
          PROVE  /\ Stored(p)' \/ Pending(p)'
                 /\ Pending(p)' \/ (proc'.pc = "announce" /\ Left(p)')
      <3>1. CASE p = Head(proc.left)
        BY <2>4, <3>1
      <3>2. CASE p # Head(proc.left)
        <4>1. (Stored(p) \/ Pending(p)) /\ (Pending(p) \/ Left(p))
          BY <2>1 DEF Receipting
        <4>2. Left(p) => proc'.pc = "announce" /\ Left(p)'
          BY <1>6, <2>1, <3>2, HeadOrTail DEF Left
        <4>. QED BY <2>5, <3>2, <4>1, <4>2
      <3>. QED BY <3>1, <3>2
    <2>7. proc'.pc \in {"announce", "launch", "judge"}
      BY <1>6
    <2>. QED BY <1>6, <1>9, <2>1, <2>2, <2>6, <2>7 DEF Receipting, At, Hold
  <1>7. CASE /\ Carry /\ UNCHANGED <<receipts, archive>>
             /\ proc.pc \in {"launch", "run", "settle", "judge"}
             /\ proc'.pc \in {"run", "settle", "judge", "record"} /\ (proc'.pc = "record" => At("judge") /\ proc'.left = proc.places)
    BY <1>7 DEF Receipting, Carry, Staging, Ours, Left, Pending, At
  <1>8. CASE Hold /\ Record /\ proc'.pc = "record" /\ proc'.outcome = proc.outcome /\ proc'.left = Tail(proc.left)
    <2>1. /\ At("record") /\ receipts' = [receipts EXCEPT ![Head(proc.left)] = Receipt(proc.outcome)]
          /\ ~Staging /\ proc.left # <<>>
      BY <1>8 DEF Record, Control, At
    <2>2. Ours' = Ours /\ Receipt(proc.outcome)' = Receipt(proc.outcome)
      BY <1>8 DEF Ours, Hold, Carry, Receipt
    <2>3. Head(proc.left) \in Places
      BY <1>0, <2>1 DEF Commanding
    <2>. QED BY <1>0, <1>8, <1>9, <2>1, <2>2, <2>3 DEF Receipting, At, Pending, Hold
  <1>. QED BY ZenonT(30), <1>0, <1>1, <1>2, <1>3, <1>4, <1>5, <1>6, <1>7, <1>8, Course
        DEF Hold, Quiet, AnnounceStage, Launch, Exits, Exit, At

LEMMA StagedStep ==
  ASSUME TypeOK, Control, Staged, [Next]_vars
  PROVE  Staged'
  <1>0. proc \in Commanding /\ Idle.pc = "idle"
    BY DEF TypeOK, Idle
  <1>1. CASE proc' = proc /\ (Activate \/ pair' = pair)
    BY <1>1 DEF Staged, Activate, Staging, At
  <1>2. CASE proc'.pc \in {"idle", "reserve", "archive", "announce"}
    BY <1>2 DEF Staged
  <1>3. CASE Hold /\ AnnounceStage
    <2>1. pair \in Pairs /\ Staging /\ proc.kind \in {"baseline", "candidate"}
      BY <1>3 DEF AnnounceStage, Control, At, Staging, Stages
    <2>2. pair'[proc.kind] = Result("pending")
      BY <1>3, <2>1 DEF AnnounceStage, Pairs
    <2>. QED BY <1>3, <2>1, <2>2 DEF Staged, Hold, Carry, Result
  <1>4. CASE Carry /\ pair' = pair /\ proc.pc \in {"launch", "run", "settle", "judge", "record"}
    BY <1>4 DEF Staged, Carry, Staging
  <1>5. CASE Carry /\ ~Staging
    BY <1>5 DEF Staged, Carry, Staging
  <1>. QED BY <1>0, <1>1, <1>2, <1>3, <1>4, <1>5, Course
        DEF Hold, Quiet, Announce, Launch, Exits, Exit, Record, At

-----------------------------------------------------------------------------
(* What a pass says stays true. *)

LEMMA PassedRunStays ==
  ASSUME TypeOK, Control, Running, [Next]_vars,
         NEW run \in Nat, run # 0, run <= Len(runs), runs[run].exit = "passed"
  PROVE  runs'[run] = runs[run] /\ run <= Len(runs')
  BY RunsStep DEF Running

LEMMA NoLaterRun ==
  ASSUME TypeOK, Control, [Next]_vars, NEW p, NEW run \in Nat,
         Later(p, run) = {}, ~Launch \/ Staging \/ p \notin Ours
  PROVE  Later(p, run)' = {}
  <1>0. runs \in Seq(Launched) /\ runs' \in Seq(Launched) /\ Len(runs) \in Nat
    BY RunsType DEF TypeOK
  <1>. SUFFICES ASSUME NEW j \in 1..Len(runs'), j > run, runs'[j].kind \notin Stages,
                       \E i \in DOMAIN runs'[j].places : runs'[j].places[i] = p
                PROVE  FALSE
    BY <1>0 DEF Later
  <1>1. CASE j \in 1..Len(runs)
    <2>1. runs[j] \in Launched
      BY <1>0, <1>1
    <2>2. runs'[j].kind = runs[j].kind /\ runs'[j].places = runs[j].places
      <3>1. CASE runs'[j] = runs[j]
        BY <3>1
      <3>2. CASE Exits /\ j = proc.run
        BY <2>1, <3>2, RunsStep DEF Launched
      <3>. QED BY <1>1, <3>1, <3>2, RunsStep
    <2>. QED BY <1>0, <1>1, <2>2 DEF Later
  <1>2. CASE j \notin 1..Len(runs)
    <2>1. Launch /\ j = Len(runs) + 1
      BY <1>0, <1>2, RunsStep
    <2>2. runs'[j].kind = proc.kind /\ runs'[j].places = proc.places
      BY <2>1, RunsStep
    <2>. QED BY <2>1, <2>2 DEF Ours, Staging
  <1>. QED BY <1>1, <1>2

LEMMA ReceiptsStand ==
  ASSUME TypeOK, Control, Running, Receipting, Passes, [Next]_vars, NEW p \in Places, receipts'[p] # None
  PROVE  /\ receipts'[p].run <= Len(runs')
         /\ receipts'[p].kind # "attest" /\ receipts'[p].outcome = "passed" =>
              Ran(receipts[p].run, receipts[p].inputs)' /\ Later(p, receipts[p].run)' = {}
  <1>0. /\ receipts \in [Places -> {None} \cup Receipts] /\ proc \in Commanding
        /\ Len(runs) \in Nat /\ Len(runs') \in Nat /\ Len(runs) <= Len(runs') /\ proc.run <= Len(runs)
    BY RunsStep DEF TypeOK
  <1>. PICK receipt : receipt = receipts'[p]
    OBVIOUS
  <1>. SUFFICES /\ receipt.run <= Len(runs')
                /\ receipt.kind # "attest" /\ receipt.outcome = "passed" =>
                     Ran(receipt.run, receipt.inputs)' /\ Later(p, receipt.run)' = {}
    BY DEF Ran, Later
  <1>1. CASE receipts'[p] = receipts[p]
    <2>1. receipt \in Receipts /\ receipt.run \in Nat /\ receipt.run <= Len(runs)
      BY <1>0, <1>1 DEF Receipts, Passes
    <2>2. CASE receipt.kind # "attest" /\ receipt.outcome = "passed"
      <3>1. Ran(receipt.run, receipt.inputs) /\ Later(p, receipt.run) = {}
        BY <1>1, <2>2 DEF Passes
      <3>2. runs'[receipt.run] = runs[receipt.run]
        BY <2>1, <3>1, PassedRunStays DEF Ran
      <3>3. ~Launch \/ Staging \/ p \notin Ours
        BY <1>1, <2>2 DEF Launch, At, Receipting, Pending
      <3>4. Later(p, receipt.run)' = {}
        BY <2>1, <3>1, <3>3, NoLaterRun
      <3>. QED BY <1>0, <2>1, <3>1, <3>2, <3>4 DEF Ran
    <2>. QED BY <1>0, <2>1, <2>2
  <1>2. CASE receipts'[p] # receipts[p]
    <2>1. PICK outcome \in Outcomes :
            /\ receipts' = [receipts EXCEPT ![Head(proc.left)] = Receipt(outcome)]
            /\ outcome = "pending" \/ (Record /\ outcome = proc.outcome)
      <3>1. CASE Announce
        BY <3>1 DEF Announce, Announced, Outcomes
      <3>2. CASE Record
        BY <1>0, <3>2 DEF Record, Commanding
      <3>. QED BY <1>2, <3>1, <3>2, Frame
    <2>2. receipt = Receipt(outcome) /\ runs' = runs
      BY <1>0, <1>2, <2>1, Frame DEF Announce, Record
    <2>3. /\ receipt.kind = proc.kind /\ receipt.outcome = outcome
          /\ receipt.run = proc.run /\ receipt.inputs = proc.before
      BY <2>2 DEF Receipt
    <2>4. CASE receipt.kind # "attest" /\ outcome = "passed"
      <3>1. Own(proc.run) /\ Ran(proc.run, proc.before)
        BY <2>1, <2>3, <2>4 DEF Record, Running, Captured
      <3>2. Later(p, proc.run) = {}
        BY <1>0, <3>1 DEF Own, Later
      <3>. QED BY <1>0, <2>2, <2>3, <3>1, <3>2 DEF Ran, Later
    <2>. QED BY <1>0, <2>2, <2>3, <2>4
  <1>. QED BY <1>1, <1>2

LEMMA StagesStand ==
  ASSUME TypeOK, Control, Running, Passes, [Next]_vars, Active', NEW s \in Stages, pair'[s] # None
  PROVE  /\ pair'[s].run <= Len(runs')
         /\ pair'[s].outcome = "passed" =>
              /\ Ran(pair[s].run, pair[s].seen)'
              /\ runs'[pair'[s].run].command = pair'[s].command /\ runs'[pair'[s].run].kind = s
              /\ s = "candidate" => pair'[s].base < pair'[s].run
  <1>0. /\ proc \in Commanding /\ proc.run \in Nat /\ s \in {"baseline", "candidate"}
        /\ Len(runs) \in Nat /\ Len(runs') \in Nat /\ Len(runs) <= Len(runs') /\ proc.run <= Len(runs)
    BY RunsStep DEF TypeOK, Commanding, Stages
  <1>. PICK result : result = pair'[s]
    OBVIOUS
  <1>. SUFFICES /\ result.run <= Len(runs')
                /\ result.outcome = "passed" =>
                     /\ Ran(result.run, result.seen)'
                     /\ runs'[result.run].command = result.command /\ runs'[result.run].kind = s
                     /\ s = "candidate" => result.base < result.run
    BY DEF Ran
  <1>1. CASE Active /\ result = pair[s]
    <2>1. pair \in Pairs
      BY <1>1 DEF TypeOK, Active, Control
    <2>2. result \in Results /\ result.run \in Nat /\ result.run <= Len(runs)
      BY <1>0, <1>1, <2>1 DEF Pairs, Results, Passes
    <2>3. CASE result.outcome = "passed"
      <3>1. /\ Ran(result.run, result.seen) /\ runs[result.run].command = result.command
            /\ runs[result.run].kind = s /\ (s = "candidate" => result.base < result.run)
        BY <1>1, <2>3 DEF Passes
      <3>2. runs'[result.run] = runs[result.run]
        BY <2>2, <3>1, PassedRunStays DEF Ran
      <3>. QED BY <1>0, <2>2, <3>1, <3>2 DEF Ran
    <2>. QED BY <1>0, <2>2, <2>3
  <1>2. CASE AnnounceStage \/ RecordStage
    <2>1. pair \in Pairs /\ Active /\ Staging /\ proc.kind \in {"baseline", "candidate"} /\ runs' = runs
      BY <1>2 DEF AnnounceStage, RecordStage, Control, At, Staging, Stages, Active
    <2>2. PICK outcome \in Outcomes :
            /\ result \in {None, Result(outcome), pair[s]}
            /\ result # pair[s] /\ result # None => s = proc.kind
            /\ outcome = "pending" \/ (RecordStage /\ outcome = proc.outcome)
      <3>1. CASE AnnounceStage
        <4>. DEFINE candidate == IF proc.kind = "candidate" THEN Result("pending") ELSE None
                    baseline  == IF proc.kind = "baseline" THEN Result("pending") ELSE pair.baseline
        <4>2. \E prior : pair' = [pair EXCEPT !.prior = prior, !.candidate = candidate, !.baseline = baseline]
          BY <3>1 DEF AnnounceStage
        <4>3. pair'.candidate = candidate /\ pair'.baseline = baseline
          <5>. HIDE DEF candidate, baseline
          <5>. QED BY <2>1, <4>2 DEF Pairs
        <4>1. result \in {None, Result("pending"), pair[s]} /\ (result # pair[s] /\ result # None => s = proc.kind)
          BY <1>0, <4>3
        <4>. QED BY <4>1 DEF Outcomes
      <3>2. CASE RecordStage
        <4>1. result \in {Result(proc.outcome), pair[s]} /\ (result # pair[s] => s = proc.kind)
          BY <1>0, <2>1, <3>2 DEF RecordStage, Pairs
        <4>. QED BY <1>0, <3>2, <4>1 DEF Commanding
      <3>. QED BY <1>2, <3>1, <3>2
    <2>3. CASE result = Result(outcome) /\ s = proc.kind
      <3>1. /\ result.run = proc.run /\ result.outcome = outcome /\ result.seen = proc.seen
            /\ result.command = proc.command /\ (s = "candidate" => result.base = pair.baseline.run)
        BY <2>3 DEF Result
      <3>2. CASE outcome = "passed"
        <4>1. /\ Own(proc.run) /\ Ran(proc.run, proc.seen)
              /\ s = "candidate" => pair.baseline.run < proc.run
          BY <2>1, <2>2, <2>3, <3>2 DEF RecordStage, Running, Captured, Staging, Stages, At, Own
        <4>. QED BY <1>0, <2>1, <2>3, <3>1, <4>1 DEF Own, Ran
      <3>. QED BY <1>0, <3>1, <3>2
    <2>. QED BY <1>1, <2>1, <2>2, <2>3
  <1>3. CASE Activate
    BY <1>0, <1>3 DEF Activate
  <1>4. CASE pair' = pair /\ ~Activate
    BY <1>1, <1>4, ActiveBefore
  <1>. QED BY <1>2, <1>3, <1>4, Frame

-----------------------------------------------------------------------------
(* The theorems about passes and evidence. *)

LEMMA InitStanding == Init => SInv
  <1>. SUFFICES ASSUME Init PROVE SInv
    OBVIOUS
  <1>. USE DEF Init, Idle
  <1>1. Forward
    BY DEF Forward, At, Captured, Active
  <1>2. Running /\ Receipting /\ Staged
    BY DEF Running, Receipting, Staged, At
  <1>3. Passes
    BY DEF Passes, Active, At
  <1>. QED BY <1>1, <1>2, <1>3 DEF SInv

LEMMA StandingInductive == IInv /\ SInv /\ [Next]_vars => SInv'
  <1>. SUFFICES ASSUME IInv, SInv, [Next]_vars PROVE SInv'
    OBVIOUS
  <1>1. TypeOK /\ Control /\ Forward /\ Running /\ Receipting /\ Staged /\ Passes
    BY DEF IInv, SInv
  <1>2. Forward'
    BY <1>1, ForwardStep
  <1>3. Running'
    BY <1>1, RunningStep
  <1>4. Receipting' /\ Staged'
    BY <1>1, ReceiptingStep, StagedStep
  <1>5. Passes'
    BY <1>1, ReceiptsStand, StagesStand DEF Passes
  <1>. QED BY <1>2, <1>3, <1>4, <1>5 DEF SInv

LEMMA Standing == Spec => [](IInv /\ SInv)
  BY InitInv, Inductive, InitStanding, StandingInductive, PTL DEF Spec

\* A captured receipt or a stage that says passed was earned by a run that exited
\* with zero, on the inputs it names, and no later run for that receipt started.
THEOREM PassesWereEarned == Spec => []PassesStand
  <1>1. SInv => PassesStand
    BY DEF SInv, Passes, PassesStand, Active
  <1>. QED BY <1>1, Standing, PTL

\* Whatever counts as a preserved interface has a passing baseline on the
\* original source and, after it, a passing candidate on the present source, of
\* one command and one set of checks.
THEOREM PreservationWasShown == Spec => []PreservationShown
  <1>1. IInv /\ SInv => PreservationShown
    <2>. SUFFICES ASSUME IInv, SInv, Complete PROVE PreservationShown!2
      BY DEF PreservationShown
    <2>1. /\ pair # None /\ Holds(pair, "baseline") /\ Holds(pair, "candidate")
          /\ pair.candidate.seen = inputs /\ pair \in Pairs /\ Len(runs) \in Nat /\ runs \in Seq(Launched)
      BY DEF Complete, IInv, TypeOK
    <2>. DEFINE i == pair.baseline.run
                j == pair.candidate.run
    <2>2. /\ pair.baseline \in Results /\ pair.candidate \in Results /\ i \in Nat /\ j \in Nat
          /\ pair.baseline # None /\ pair.candidate # None
          /\ pair.baseline.outcome = "passed" /\ pair.candidate.outcome = "passed"
          /\ pair.baseline.seen.code = pair.origin
          /\ pair.candidate.base = i /\ pair.candidate.command = pair.baseline.command
          /\ pair.candidate.seen.checks = pair.baseline.seen.checks
      BY <2>1 DEF Holds, SameTerms, Pairs, Results
    <2>3. /\ Ran(i, pair.baseline.seen) /\ i <= Len(runs)
          /\ runs[i].command = pair.baseline.command /\ runs[i].kind = "baseline"
      BY <2>1, <2>2 DEF SInv, Passes, Active, Stages
    <2>4. /\ Ran(j, pair.candidate.seen) /\ j <= Len(runs) /\ i < j
          /\ runs[j].command = pair.candidate.command /\ runs[j].kind = "candidate"
      BY <2>1, <2>2 DEF SInv, Passes, Active, Stages
    <2>5. i \in DOMAIN runs /\ j \in DOMAIN runs
      BY <2>1, <2>2, <2>3, <2>4 DEF Ran
    <2>. QED BY <2>1, <2>2, <2>3, <2>4, <2>5 DEF Ran
  <1>. QED BY <1>1, Standing, PTL

\* No conclusion of a receipt or a stage gives way to another before it is in the
\* archive or among the prior attempts.
THEOREM EvidenceIsKept == Spec => EvidenceKept
  <1>1. ASSUME IInv, SInv, [Next]_vars
        PROVE  /\ archive \subseteq archive'
               /\ \A p \in Places :
                    receipts[p] # None /\ receipts[p].outcome # "pending" /\ receipts'[p] # receipts[p]
                      => [place |-> p, receipt |-> receipts[p]] \in archive'
    <2>0. /\ TypeOK /\ Control /\ Receipting /\ proc.left \in Seq(Places)
          /\ receipts \in [Places -> {None} \cup Receipts]
      BY <1>1 DEF IInv, SInv, TypeOK, Commanding
    <2>1. archive \subseteq archive'
      BY <1>1, <2>0, Frame DEF Archive, Kept
    <2>2. ASSUME NEW p \in Places, receipts[p] # None, receipts[p].outcome # "pending", receipts'[p] # receipts[p]
          PROVE  [place |-> p, receipt |-> receipts[p]] \in archive'
      <3>1. PICK outcome : /\ receipts' = [receipts EXCEPT ![Head(proc.left)] = Receipt(outcome)]
                           /\ Announce \/ (Record /\ outcome = proc.outcome)
        BY <1>1, <2>0, <2>2, Frame DEF Announce, Record, Announced
      <3>2. /\ p = Head(proc.left) /\ proc.left # <<>> /\ ~Staging /\ receipts'[p] = Receipt(outcome)
            /\ archive' = archive
        BY <2>0, <2>2, <3>1 DEF Announce, Record, Control, At
      <3>3. p \in Ours
        <4>1. Left(p)
          BY <2>0, <3>2 DEF Left
        <4>. QED BY <2>0, <3>1, <3>2, <4>1 DEF Receipting, Announce, Record, At
      <3>4. CASE Announce
        BY <2>0, <2>2, <3>2, <3>3, <3>4 DEF Announce, Receipting, At, Stored, Pending
      <3>5. CASE Record /\ outcome = proc.outcome
        BY <2>0, <2>2, <3>2, <3>3, <3>5 DEF Record, Receipting, At, Pending
      <3>. QED BY <3>1, <3>4, <3>5
    <2>. QED BY <2>1, <2>2
  <1>2. ASSUME IInv, SInv, [Next]_vars, pair # None
        PROVE  /\ pair'.origin = pair.origin /\ pair.prior \subseteq pair'.prior
               /\ \A s \in Stages :
                    pair[s] # None /\ pair[s].outcome # "pending" /\ pair'[s] # pair[s]
                      => [stage |-> s, result |-> pair[s]] \in pair'.prior
    <2>0. /\ TypeOK /\ Control /\ Staged /\ pair \in Pairs /\ Stages = {"baseline", "candidate"}
      BY <1>2 DEF IInv, SInv, TypeOK, Stages
    <2>1. CASE AnnounceStage
      <3>. DEFINE candidate == IF proc.kind = "candidate" THEN Result("pending") ELSE None
                  baseline  == IF proc.kind = "baseline" THEN Result("pending") ELSE pair.baseline
      <3>1. pair' = [pair EXCEPT !.prior = @ \cup Replaced, !.candidate = candidate, !.baseline = baseline]
        BY <2>1 DEF AnnounceStage
      <3>2. /\ pair'.origin = pair.origin /\ pair'.prior = pair.prior \cup Replaced
            /\ pair'.candidate = candidate /\ pair'.baseline = baseline
        <4>. HIDE DEF candidate, baseline
        <4>. QED BY <2>0, <3>1 DEF Pairs
      <3>3. ASSUME NEW s \in Stages, pair[s] # None, pair'[s] # pair[s]
            PROVE  [stage |-> s, result |-> pair[s]] \in Replaced
        BY <2>0, <3>2, <3>3 DEF Replaced
      <3>. QED BY <3>2, <3>3
    <2>2. CASE RecordStage
      <3>1. /\ pair' = [pair EXCEPT ![proc.kind] = Result(proc.outcome)]
            /\ proc.kind \in Stages /\ pair[proc.kind].outcome = "pending"
        BY <2>0, <2>2 DEF RecordStage, Staged, At, Staging
      <3>2. /\ pair'.origin = pair.origin /\ pair'.prior = pair.prior
            /\ \A s \in Stages : s # proc.kind => pair'[s] = pair[s]
        BY <2>0, <3>1 DEF Pairs
      <3>. QED BY <3>1, <3>2
    <2>3. CASE pair' = pair
      BY <2>3
    <2>. QED BY <1>2, <2>0, <2>1, <2>2, <2>3, Frame DEF Activate
  <1>3. IInv /\ SInv /\ [Next]_vars =>
          [ /\ archive \subseteq archive'
            /\ \A p \in Places :
                 receipts[p] # None /\ receipts[p].outcome # "pending" /\ receipts'[p] # receipts[p]
                   => [place |-> p, receipt |-> receipts[p]] \in archive'
            /\ pair # None =>
                 /\ pair'.origin = pair.origin /\ pair.prior \subseteq pair'.prior
                 /\ \A s \in Stages :
                      pair[s] # None /\ pair[s].outcome # "pending" /\ pair'[s] # pair[s]
                        => [stage |-> s, result |-> pair[s]] \in pair'.prior ]_vars
    BY <1>1, <1>2
  <1>. QED BY <1>3, Standing, PTL DEF Spec, EvidenceKept
=============================================================================
