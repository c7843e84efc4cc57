---------------------------- MODULE Verification ----------------------------
(***************************************************************************)
(* Captured verification: a run of an explicit check command, its receipts *)
(* (verification.py), the pair of baseline and candidate runs that shows a *)
(* preserved interface (compatibility.py), and the allowance of seconds    *)
(* all of them draw on (verification_allowance.py).  One lock admits one   *)
(* command at a time; it may be killed between any two durable writes, a   *)
(* write may fail, and the inputs may be edited at any time.               *)
(*                                                                         *)
(* The contents of the source and of the check files are numbers; an edit  *)
(* gives a content that was never there before.                            *)
(***************************************************************************)
EXTENDS Integers, Sequences

CONSTANTS None,
          Kinds,      \* requests an instance makes: verify, attest, baseline, candidate
          Targets,    \* receipts a run is recorded in, in the order they are written
          Commands,   \* check commands
          Totals,     \* values of --allowance-seconds
          Timeouts,   \* values of --timeout
          Overrun,    \* seconds a run may last beyond its timeout
          MaxCommands, MaxEdits, MaxFaults  \* bounds

Places  == {"section", "integration"}
Stages  == {"baseline", "candidate"}
Ledgers == [limit : Nat, measured : Nat, unmeasured : Nat, pending : Nat]

ASSUME VerificationAssumption ==
  /\ Kinds \subseteq {"verify", "attest"} \cup Stages
  /\ Targets \subseteq Seq(Places) \ {<<>>}
  /\ None \notin Ledgers /\ None \notin Totals /\ Totals \subseteq Nat /\ Timeouts \subseteq Nat \ {0}
  /\ {Overrun, MaxCommands, MaxEdits, MaxFaults} \subseteq Nat

VARIABLES inputs,    \* contents of the protected source and of the check files
          ledger,    \* allowance.json, or None
          receipts,  \* the receipt at each place, or None
          archive,   \* receipts kept under history/
          pair,      \* the section's compatibility pair, or None
          proc,      \* the command that holds the lock
          runs,      \* history: every run of a command, as it was launched
          owed,      \* history: seconds runs took from the ledger, [spent, over]
          spent      \* commands, edits and faults so far

vars == <<inputs, ledger, receipts, archive, pair, proc, runs, owed, spent>>

-----------------------------------------------------------------------------
(* The allowance. *)

Least(a, b) == IF a <= b THEN a ELSE b
Excess(a, b) == IF a <= b THEN 0 ELSE a - b

Charged(l) == l.measured + l.unmeasured + l.pending

\* (Operators called ...Slip are mistakes such code could make, none of them
\* part of the specification: each breaks a property of VerificationProps.)
\* Slip: only what was measured counts.
RemainingSlip(l) == Excess(l.limit, l.measured)
Remaining(l) == Excess(l.limit, Charged(l))

\* Slip: an extension forgets the run nobody settled.
ExtendedSlip(l, total) == [l EXCEPT !.limit = total, !.pending = 0]

\* A higher total keeps what is charged; what is pending stays uncertain.
Extended(l, total) ==
  [l EXCEPT !.limit = total, !.unmeasured = @ + l.pending, !.pending = 0]

\* Allowance.__init__: what the command works with, None for unlimited.
Opened(total) ==
  IF total = None THEN ledger
  ELSE IF ledger = None
       THEN [limit |-> total, measured |-> 0, unmeasured |-> 0, pending |-> 0]
  ELSE IF total = ledger.limit THEN ledger ELSE Extended(ledger, total)

\* A total may never go down.
Lowers(total) == total # None /\ ledger # None /\ total < ledger.limit

\* No run while another is unresolved, or when nothing remains.
Launchable(l) == l # None => l.pending = 0 /\ Remaining(l) # 0

-----------------------------------------------------------------------------
Idle == [pc |-> "idle", kind |-> "verify", places |-> <<>>, left |-> <<>>, command |-> None,
         before |-> None, seen |-> None, grant |-> 0, paid |-> FALSE,
         run |-> 0, outcome |-> "pending", seconds |-> 0]

At(pc)    == proc.pc = pc
Goto(pc)  == proc' = [proc EXCEPT !.pc = pc]
End       == proc' = Idle
Staging   == proc.kind \in Stages
Captured  == proc.kind # "attest"

Init ==
  /\ inputs = [code |-> 0, checks |-> 0]
  /\ ledger = None /\ pair = None /\ archive = {}
  /\ receipts = [p \in Places |-> None]
  /\ proc = Idle
  /\ runs = <<>> /\ owed = [spent |-> 0, over |-> 0]
  /\ spent = [commands |-> 0, edits |-> 0, faults |-> 0]

\* Somebody edits the source or the checks, at any time.
Edit(what) ==
  /\ spent.edits < MaxEdits
  /\ spent' = [spent EXCEPT !.edits = @ + 1]
  /\ inputs' = [inputs EXCEPT ![what] = spent.edits + 1]
  /\ UNCHANGED <<ledger, receipts, archive, pair, proc, runs, owed>>

\* The original source is restored by hand, between commands.
RestoreOrigin ==
  /\ At("idle") /\ pair # None /\ inputs.code # pair.origin
  /\ inputs' = [inputs EXCEPT !.code = pair.origin]
  /\ UNCHANGED <<ledger, receipts, archive, pair, proc, runs, owed, spent>>

-----------------------------------------------------------------------------
(* Compatibility pairs.                                                    *)

\* A section is activated before any work on it; that fixes its origin.
Activate ==
  /\ At("idle") /\ Kinds \cap Stages # {}
  /\ pair = None /\ receipts["section"] = None
  /\ pair' = [origin |-> inputs.code, baseline |-> None, candidate |-> None, prior |-> {}]
  /\ UNCHANGED <<inputs, ledger, receipts, archive, proc, runs, owed, spent>>

\* Slip: the candidate may be run with a command of its own.
SameTermsSlip(base, command, checks) == checks = base.seen.checks
\* A candidate repeats its baseline: the same command on the same checks.
SameTerms(base, command, checks) == command = base.command /\ checks = base.seen.checks

\* _stage_error: None.
Holds(p, stage) ==
  LET result == p[stage] IN
  /\ result # None /\ result.outcome = "passed"
  /\ IF stage = "baseline" THEN result.seen.code = p.origin
     ELSE /\ p.baseline # None /\ result.base = p.baseline.run
          /\ SameTerms(p.baseline, result.command, result.seen.checks)

\* completion_evidence: the pair counts for the current source and checks.
Complete ==
  /\ pair # None /\ Holds(pair, "baseline") /\ Holds(pair, "candidate")
  /\ pair.candidate.before = inputs /\ pair.candidate.seen = inputs

-----------------------------------------------------------------------------
(* Prepare: observe, reserve, keep the old receipts, announce the run.     *)

Begin(kind, places, command) ==
  /\ At("idle") /\ spent.commands < MaxCommands
  /\ spent' = [spent EXCEPT !.commands = @ + 1]
  /\ kind \in Stages => pair # None
  /\ kind = "baseline" => inputs.code = pair.origin
  /\ kind = "candidate" =>
       Holds(pair, "baseline") /\ SameTerms(pair.baseline, command, inputs.checks)
  /\ proc' = [Idle EXCEPT !.pc = "reserve", !.kind = kind, !.places = places,
                          !.command = IF kind = "attest" THEN None ELSE command, !.seen = inputs]
  /\ UNCHANGED <<inputs, ledger, receipts, archive, pair, runs, owed>>

\* The snapshot is taken, then the timeout is reserved and saved as pending.
Reserve(total, timeout) ==
  LET l     == Opened(total)
      grant == IF l = None THEN timeout ELSE Least(timeout, Remaining(l)) IN
  /\ At("reserve") /\ Captured /\ ~Lowers(total) /\ Launchable(l)
  /\ ledger' = IF l = None THEN None ELSE [l EXCEPT !.pending = grant]
  /\ proc' = [proc EXCEPT !.pc = IF Staging THEN "announce" ELSE "archive", !.before = inputs,
                          !.grant = grant, !.paid = l # None, !.left = proc.places]
  /\ UNCHANGED <<inputs, receipts, archive, pair, runs, owed, spent>>

\* A refused launch still saves a new total.
Exhausted(total) ==
  /\ At("reserve") /\ Captured
  /\ Lowers(total) \/ ~Launchable(Opened(total))
  /\ ledger' = IF Lowers(total) THEN ledger ELSE Opened(total)
  /\ End
  /\ UNCHANGED <<inputs, receipts, archive, pair, runs, owed, spent>>

\* An attestation runs nothing and needs no allowance.
Attest ==
  /\ At("reserve") /\ ~Captured
  /\ proc' = [proc EXCEPT !.pc = "archive", !.before = inputs, !.left = proc.places]
  /\ UNCHANGED <<inputs, ledger, receipts, archive, pair, runs, owed, spent>>

Take(next, after) ==  \* the next place, then on to the following step
  proc' = [proc EXCEPT !.left = IF Len(proc.left) = 1 THEN after ELSE Tail(@),
                       !.pc = IF Len(proc.left) = 1 THEN next ELSE @]

\* Slip: the receipt a run is about to replace is not kept.
KeptSlip(p) == archive
Kept(p) == IF receipts[p] = None THEN archive ELSE archive \cup {[place |-> p, receipt |-> receipts[p]]}

Archive ==
  /\ At("archive")
  /\ archive' = Kept(Head(proc.left))
  /\ Take("announce", proc.places)
  /\ UNCHANGED <<inputs, ledger, receipts, pair, runs, owed, spent>>

Receipt(outcome) ==
  [kind |-> proc.kind, outcome |-> outcome, inputs |-> proc.before, run |-> proc.run]

\* Slip: a receipt keeps its last outcome until there is a new one.
AnnouncedSlip(p) == IF receipts[p] = None THEN Receipt("pending") ELSE receipts[p]
\* Every receipt says pending before the command starts.
Announced(p) == Receipt("pending")

Announce ==
  /\ At("announce") /\ ~Staging
  /\ receipts' = [receipts EXCEPT ![Head(proc.left)] = Announced(Head(proc.left))]
  /\ Take(IF Captured THEN "launch" ELSE "judge", proc.places)
  /\ UNCHANGED <<inputs, ledger, archive, pair, runs, owed, spent>>

Result(outcome) ==
  [outcome |-> outcome, before |-> proc.before, seen |-> proc.seen, command |-> proc.command,
   base |-> IF proc.kind = "candidate" THEN pair.baseline.run ELSE 0, run |-> proc.run]

\* A new baseline replaces both results, a new candidate its own.
Replaced ==
  {[stage |-> s, result |-> pair[s]] :
     s \in {t \in (IF proc.kind = "baseline" THEN Stages ELSE {"candidate"}) : pair[t] # None}}

AnnounceStage ==
  /\ At("announce") /\ Staging
  /\ pair' = [pair EXCEPT !.prior = @ \cup Replaced,
                          !.candidate = IF proc.kind = "candidate" THEN Result("pending") ELSE None,
                          !.baseline = IF proc.kind = "baseline" THEN Result("pending") ELSE @]
  /\ Goto("launch")
  /\ UNCHANGED <<inputs, ledger, receipts, archive, runs, owed, spent>>

-----------------------------------------------------------------------------
(* Run, settle, judge, record.                                             *)

Launch ==
  /\ At("launch")
  /\ runs' = Append(runs, [kind |-> proc.kind, places |-> proc.places, command |-> proc.command,
                           inputs |-> inputs, after |-> inputs, exit |-> "none"])
  /\ owed' = IF proc.paid THEN [owed EXCEPT !.spent = @ + proc.grant] ELSE owed
  /\ proc' = [proc EXCEPT !.pc = "run", !.run = Len(runs) + 1]
  /\ UNCHANGED <<inputs, ledger, receipts, archive, pair, spent>>

Exit(outcome, seconds) ==
  /\ At("run") /\ seconds \in (IF proc.paid THEN 0..(proc.grant + Overrun) ELSE {0})
  /\ runs' = [runs EXCEPT ![proc.run].exit = outcome, ![proc.run].after = inputs]
  /\ proc' = [proc EXCEPT !.pc = "settle", !.outcome = outcome, !.seconds = seconds]
  /\ UNCHANGED <<inputs, ledger, receipts, archive, pair, owed, spent>>

\* The measured time replaces what was pending.
Settle ==
  /\ At("settle")
  /\ IF proc.paid
     THEN /\ ledger' = [ledger EXCEPT !.measured = @ + proc.seconds, !.pending = 0]
          /\ owed' = [spent |-> owed.spent - proc.grant + proc.seconds,
                      over  |-> owed.over + Excess(proc.seconds, proc.grant)]
     ELSE UNCHANGED <<ledger, owed>>
  /\ Goto("judge")
  /\ UNCHANGED <<inputs, receipts, archive, pair, runs, spent>>

\* The inputs are what they were before the command was launched.
StoodStill == proc.before = inputs /\ (Staging => proc.seen = inputs)

\* An attestation states its own outcome; a pass needs inputs that stood still.
Judge(stated) ==
  LET said == IF Captured THEN proc.outcome ELSE stated IN
  /\ At("judge")
  /\ proc' = [proc EXCEPT !.pc = "record", !.left = proc.places,
                          !.outcome = IF said = "passed" /\ ~StoodStill THEN "failed" ELSE said]
  /\ UNCHANGED <<inputs, ledger, receipts, archive, pair, runs, owed, spent>>

Record ==
  /\ At("record") /\ ~Staging
  /\ receipts' = [receipts EXCEPT ![Head(proc.left)] = Receipt(proc.outcome)]
  /\ IF Len(proc.left) = 1 THEN End ELSE Take("record", <<>>)
  /\ UNCHANGED <<inputs, ledger, archive, pair, runs, owed, spent>>

RecordStage ==
  /\ At("record") /\ Staging
  /\ pair' = [pair EXCEPT ![proc.kind] = Result(proc.outcome)]
  /\ End
  /\ UNCHANGED <<inputs, ledger, receipts, archive, runs, owed, spent>>

-----------------------------------------------------------------------------
(* Failures and kills.                                                     *)

Fault ==
  /\ spent.faults < MaxFaults
  /\ spent' = [spent EXCEPT !.faults = @ + 1]

\* Preparation fails after the reservation: it is released, if that works.
Unprepared ==
  /\ proc.pc \in {"archive", "announce", "launch"}
  /\ Fault
  /\ IF proc.paid THEN ledger' \in {ledger, [ledger EXCEPT !.pending = 0]} ELSE UNCHANGED ledger
  /\ IF Staging /\ At("launch")
     THEN proc' = [proc EXCEPT !.pc = "record", !.outcome = "failed"] ELSE End
  /\ UNCHANGED <<inputs, receipts, archive, pair, runs, owed>>

\* The command cannot be run or its time not be saved: the allowance stays
\* pending and nothing passes.  Only an ordinary run that raised ends here.
Unsettled ==
  /\ proc.pc \in {"run", "settle"}
  /\ Fault
  /\ IF Staging THEN proc' = [proc EXCEPT !.pc = "record", !.outcome = "failed"]
     ELSE IF At("run") THEN End
     ELSE proc' = [proc EXCEPT !.pc = "judge", !.outcome = IF @ = "passed" THEN "failed" ELSE @]
  /\ UNCHANGED <<inputs, ledger, receipts, archive, pair, runs, owed>>

\* A kill, or an error that ends the command: nothing more is written.
Die ==
  /\ ~At("idle") /\ Fault /\ End
  /\ UNCHANGED <<inputs, ledger, receipts, archive, pair, runs, owed>>

Step ==
  \/ Attest \/ Archive \/ Announce \/ AnnounceStage \/ Launch \/ Settle
  \/ Record \/ RecordStage
  \/ \E total \in Totals \cup {None} :
       Exhausted(total) \/ \E timeout \in Timeouts : Reserve(total, timeout)
  \/ \E outcome \in {"passed", "failed"} :
       Judge(outcome) \/ \E seconds \in 0..(proc.grant + Overrun) : Exit(outcome, seconds)

Next ==
  \/ Activate \/ RestoreOrigin \/ Step \/ Unprepared \/ Unsettled \/ Die
  \/ \E what \in {"code", "checks"} : Edit(what)
  \/ \E kind \in Kinds, places \in Targets, command \in Commands : Begin(kind, places, command)

Spec == Init /\ [][Next]_vars
=============================================================================
