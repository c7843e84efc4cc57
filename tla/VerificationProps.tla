------------------------- MODULE VerificationProps -------------------------
(* Properties of Verification. *)
EXTENDS Verification

Contents == [code : Nat, checks : Nat]
Outcomes == {"pending", "passed", "failed"}
Receipts == [kind : Kinds, outcome : Outcomes, inputs : Contents, run : Nat]
Results  == [outcome : Outcomes, before : Contents, seen : Contents,
             command : Commands, base : Nat, run : Nat]
Pairs    == [origin : Nat, baseline : {None} \cup Results, candidate : {None} \cup Results,
             prior : SUBSET [stage : Stages, result : Results]]
Launched == [kind : Kinds, places : Targets, command : Commands,
             inputs : Contents, after : Contents, exit : {"none", "passed", "failed"}]
Commanding ==
  [pc : {"idle", "reserve", "archive", "announce", "launch", "run", "settle", "judge", "record"},
   kind : Kinds \cup {"verify"}, places : Targets \cup {<<>>}, left : Seq(Places),
   command : Commands \cup {None}, before : Contents \cup {None}, seen : Contents \cup {None},
   grant : Nat, paid : BOOLEAN, run : Nat, outcome : Outcomes, seconds : Nat]

\* Everything has its type, and a reservation and its pending charge are one:
\* whoever holds the lock before the settlement owns what is pending.
TypeOK ==
  /\ inputs \in Contents
  /\ ledger \in {None} \cup Ledgers
  /\ receipts \in [Places -> {None} \cup Receipts]
  /\ archive \subseteq [place : Places, receipt : Receipts]
  /\ pair \in {None} \cup Pairs
  /\ proc \in Commanding /\ proc.run <= Len(runs)
  /\ runs \in Seq(Launched)
  /\ owed \in [spent : Int, over : Nat]
  /\ spent \in [commands : 0..MaxCommands, edits : 0..MaxEdits, faults : 0..MaxFaults]
  /\ proc.paid /\ proc.pc \in {"archive", "announce", "launch", "run", "settle"}
       => ledger # None /\ ledger.pending = proc.grant

\* Whatever runs drew on an allowance (the measured seconds, or the whole grant
\* of a run that nobody could measure) stays charged to it: kills, failed
\* settlements, releases and extensions included.
SpendingCharged == ledger # None => owed.spent <= Charged(ledger)

\* Together the runs draw no more than the total, except for the time by which
\* some were measured to outlast their grant.
NeverOverspent == ledger # None => owed.spent <= ledger.limit + owed.over

\* A pass is worth what it says: a captured receipt or a stage that passed names
\* a run that exited with zero, and its inputs are those the run started from and
\* ended with, however they were edited meanwhile.  Nor does a pass outlive a
\* later run: once another run for the same receipt has started, an earlier pass
\* no longer stands there, even if that run was killed.  (A baseline or candidate
\* run is recorded in the pair and has no receipt.)
Ran(run, ins) ==
  /\ run # 0 /\ runs[run].exit = "passed"
  /\ runs[run].inputs = ins /\ runs[run].after = ins
Later(p, run) ==
  {j \in DOMAIN runs : /\ j > run /\ runs[j].kind \notin Stages
                        /\ \E i \in DOMAIN runs[j].places : runs[j].places[i] = p}
PassesStand ==
  /\ \A p \in Places :
       (receipts[p] # None /\ receipts[p].kind # "attest" /\ receipts[p].outcome = "passed")
         => Ran(receipts[p].run, receipts[p].inputs) /\ Later(p, receipts[p].run) = {}
  /\ pair # None => \A s \in Stages :
       pair[s] # None /\ pair[s].outcome = "passed"
         => Ran(pair[s].run, pair[s].seen) /\ runs[pair[s].run].command = pair[s].command

\* A conclusion once written is never lost: before a receipt or a stage gives
\* way to another, it is in the archive or among the prior attempts.
EvidenceKept ==
  [][ /\ archive \subseteq archive'
      /\ \A p \in Places :
           receipts[p] # None /\ receipts[p].outcome # "pending" /\ receipts'[p] # receipts[p]
             => [place |-> p, receipt |-> receipts[p]] \in archive'
      /\ pair # None =>
           /\ pair'.origin = pair.origin /\ pair.prior \subseteq pair'.prior
           /\ \A s \in Stages :
                pair[s] # None /\ pair[s].outcome # "pending" /\ pair'[s] # pair[s]
                  => [stage |-> s, result |-> pair[s]] \in pair'.prior ]_vars

\* A pair that counts as complete was really earned: a run on the original
\* source exited with zero, and later the same command on the same checks did
\* so on the source as it is now.
PreservationShown ==
  Complete =>
    \E i, j \in DOMAIN runs :
      /\ i < j /\ runs[i].exit = "passed" /\ runs[j].exit = "passed"
      /\ runs[i].kind = "baseline" /\ runs[i].inputs.code = pair.origin
      /\ runs[j].kind = "candidate" /\ runs[j].inputs = inputs
      /\ runs[i].command = runs[j].command /\ runs[i].inputs.checks = runs[j].inputs.checks
=============================================================================
