----------------------------- MODULE MutablePlan -----------------------------
(***************************************************************************)
(* Recording the sections of a mutable plan (workflows.py, state.py,       *)
(* mutable_inputs.py).  The index and the section files are edited by      *)
(* whoever holds an editor, with no lock, while record commands run under  *)
(* one.  A record keeps the contract it was made for: the text and the     *)
(* predecessors of its section and of every section before it.  It counts  *)
(* as long as that is still the contract.                                  *)
(*                                                                         *)
(* A text is a number; an edit gives a text that was never there before.   *)
(***************************************************************************)
EXTENDS Scheduling

CONSTANTS None, Attested,
          Processes,
          Graphs,    \* what the index may say
          Modes,     \* values of --flight
          Lean,      \* the plan has lean depth
          Captured,  \* sections that may be verified by a captured run
          MaxEdits, MaxFaults  \* bounds

Texts   == 1..(MaxEdits + 1)
Plans   == [index : Graphs, text : [Sections -> Texts]]

ASSUME MutablePlanAssumption ==
  /\ \A g \in Graphs : DOMAIN g \subseteq Sections /\ \A s \in DOMAIN g : g[s] \subseteq Sections
  /\ Modes \subseteq {"auto", "strict", "advisory", "off"}
  /\ Captured \subseteq Sections
  /\ Lean \in BOOLEAN
  /\ {MaxEdits, MaxFaults} \subseteq Nat
  /\ None \notin Plans /\ None \notin Processes

VARIABLES plan,      \* the index and the section files; an edit of the source makes
                     \* receipts stale as does one of a later section
          state,     \* zagrosi_implement_state.json
          receipts,  \* per section, the plan its captured pass ran on, or None
          lock,      \* the process that holds .mutable-state.lock, or None
          proc,      \* what each process does
          spent      \* edits and faults so far

vars == <<plan, state, receipts, lock, proc, spent>>

-----------------------------------------------------------------------------
(* Contracts and records. *)

\* (Operators called ...Slip are mistakes such code could make, none of them
\* part of the specification: each breaks a property of MutablePlanProps.)
\* Slip: only the section's own text is bound.
ContractSlip(p, s) == [t \in {s} |-> <<p.text[t], Needs(p.index, t)>>]

\* _contract_inputs
Contract(p, s) == [t \in {s} \cup Before(p.index, s) |-> <<p.text[t], Needs(p.index, t)>>]

\* completion_evidence_findings on the record of a section: the contract is current.
Fresh(p, s, record) == s \in DOMAIN p.index /\ record.contract = Contract(p, s)

Valid(st, p) ==
  {s \in DOMAIN st.completed \ st.pending : Fresh(p, s, st.completed[s])}

\* completed_sections
Effective(st, p) == Settled(p.index, Valid(st, p))

\* The record written for a command.  History: the plan a captured run showed it on,
\* if nobody edited it under the command, and whether its checks were decided.
Record(c, decided) == [contract |-> c.contract, decided |-> decided,
                       shown |-> IF c.quiet THEN c.ran ELSE Attested]

\* Slip: the other records are forgotten.
WithSlip(c, record) == [s \in {c.sec} |-> record]

\* The records with the one of c among them.
With(c, record) ==
  [s \in DOMAIN c.saved.completed \cup {c.sec} |->
     IF s = c.sec THEN record ELSE c.saved.completed[s]]

\* Slip: the section stays pending beside its record.
CandidateSlip(c) == [c.saved EXCEPT !.completed = With(c, Record(c, TRUE))]

\* candidate: the section is complete and not pending.
Candidate(c) == [completed |-> With(c, Record(c, TRUE)), pending |-> c.saved.pending \ {c.sec}]

\* What is published before the checks: evidence that waits for them.
HeldBack(c) == [c.saved EXCEPT !.pending = @ \cup {c.sec}]

-----------------------------------------------------------------------------
Idle == [pc |-> "idle", sec |-> None, mode |-> None, evidence |-> None, quiet |-> TRUE,
         saved |-> None, needs |-> {}, ran |-> None, contract |-> None]

Init ==
  /\ plan \in [index : Graphs, text : [Sections -> {1}]]
  /\ state = [completed |-> [s \in {} |-> None], pending |-> {}]
  /\ receipts = [s \in Sections |-> None]
  /\ lock = None
  /\ proc = [p \in Processes |-> Idle]
  /\ spent = [edits |-> 0, faults |-> 0]

\* The lock of the mutable state (file_lock); who does not get it in time does nothing.
Locked(p) == lock = None /\ lock' = p

\* Command c of process p goes on to step pc.
GoesOn(p, c, pc) == proc' = [proc EXCEPT ![p] = [c EXCEPT !.pc = pc]]

Finish(p) == proc' = [proc EXCEPT ![p] = Idle] /\ lock' = None

\* implement-record-section takes the lock before it reads anything.
Start(p, s, mode, evidence) ==
  /\ proc[p].pc = "idle"
  /\ evidence = "receipt" => s \in Captured
  /\ Locked(p)
  /\ GoesOn(p, [Idle EXCEPT !.sec = s, !.mode = mode, !.evidence = evidence], "load")
  /\ UNCHANGED <<plan, state, receipts, spent>>

\* The state and the index are read; the section and its predecessors are known.
Load(p) ==
  LET c == proc[p]
  IN  /\ c.pc = "load"
      /\ {c.sec} \cup Needs(plan.index, c.sec) \subseteq DOMAIN plan.index
      /\ GoesOn(p, [c EXCEPT !.saved = state, !.needs = Needs(plan.index, c.sec)], "weigh")
      /\ UNCHANGED <<plan, state, receipts, lock, spent>>

\* Every predecessor is complete.
Weigh(p) ==
  LET c == proc[p]
  IN  /\ c.pc = "weigh"
      /\ c.needs \subseteq Effective(c.saved, plan)
      /\ GoesOn(p, c, "judge")
      /\ UNCHANGED <<plan, state, receipts, lock, spent>>

\* receipt_error: the plan is still the one the receipt names.
ReceiptHolds(s) == receipts[s] = plan

\* section_result
Judge(p) ==
  LET c == proc[p]
  IN  /\ c.pc = "judge"
      /\ \/ c.evidence = "manual" /\ GoesOn(p, [c EXCEPT !.ran = Attested], "bind")
         \/ /\ c.evidence = "receipt" /\ ReceiptHolds(c.sec)
            /\ GoesOn(p, [c EXCEPT !.ran = receipts[c.sec]], "bind")
      /\ UNCHANGED <<plan, state, receipts, lock, spent>>

\* contract_snapshot
Bind(p) ==
  LET c == proc[p]
  IN  /\ c.pc = "bind"
      /\ c.sec \in DOMAIN plan.index
      /\ GoesOn(p, [c EXCEPT !.contract = Contract(plan, c.sec)], "review")
      /\ UNCHANGED <<plan, state, receipts, lock, spent>>

\* completion_evidence_findings on the new record.
Review(p) ==
  LET c == proc[p]
  IN  /\ c.pc = "review"
      /\ Fresh(plan, c.sec, c)
      /\ GoesOn(p, c, "decide")
      /\ UNCHANGED <<plan, state, receipts, lock, spent>>

\* Slip: a section that waits for its checks is as good as any other.
GatedSlip(c) == c.mode # "off" /\ (~Lean \/ c.mode = "strict")

\* A record waits for its checks.
Gated(c) == c.mode # "off" /\ (~Lean \/ c.mode = "strict" \/ c.sec \in c.saved.pending)

\* pending-completion
Refused(c) == c.sec \in c.saved.pending /\ c.mode = "off"

\* Recorded without checks.
Close(p) ==
  LET c == proc[p]
  IN  /\ c.pc = "decide" /\ ~Refused(c) /\ ~Gated(c)
      /\ state' = Candidate(c)
      /\ Finish(p)
      /\ UNCHANGED <<plan, receipts, spent>>

\* The evidence is published as pending, then the checks run.
Hold(p) ==
  LET c == proc[p]
  IN  /\ c.pc = "decide" /\ ~Refused(c) /\ Gated(c)
      /\ state' = HeldBack(c)
      /\ GoesOn(p, c, "gate")
      /\ UNCHANGED <<plan, receipts, lock, spent>>

Fault == /\ spent.faults < MaxFaults
         /\ spent' = [spent EXCEPT !.faults = @ + 1]

\* The checks pass: the record counts.
Pass(p) ==
  LET c == proc[p]
  IN  /\ c.pc = "gate"
      /\ state' = Candidate(c)
      /\ Finish(p)
      /\ UNCHANGED <<plan, receipts, spent>>

\* The checks fail.  The record keeps waiting, with their report; an advisory
\* postflight blocks nothing.
Fail(p) ==
  LET c == proc[p]
  IN  /\ c.pc = "gate"
      /\ Fault
      /\ state' = IF c.mode = "advisory" THEN Candidate(c) ELSE HeldBack(c)
      /\ Finish(p)
      /\ UNCHANGED <<plan, receipts>>

-----------------------------------------------------------------------------
(* What the steps refuse, and deaths. *)

Refuses(c) ==
  CASE c.pc = "load"   -> ~({c.sec} \cup Needs(plan.index, c.sec) \subseteq DOMAIN plan.index)
    [] c.pc = "weigh"  -> ~(c.needs \subseteq Effective(c.saved, plan))
    [] c.pc = "judge"  -> c.evidence = "receipt" /\ ~ReceiptHolds(c.sec)
    [] c.pc = "bind"   -> c.sec \notin DOMAIN plan.index
    [] c.pc = "review" -> ~Fresh(plan, c.sec, c)
    [] c.pc = "decide" -> Refused(c)
    [] OTHER -> FALSE

Refuse(p) ==
  /\ Refuses(proc[p])
  /\ Finish(p)
  /\ UNCHANGED <<plan, state, receipts, spent>>

\* A kill, or an error before anything more is written; the lock dies with its holder.
Die(p) ==
  /\ proc[p].pc # "idle"
  /\ Fault
  /\ Finish(p)
  /\ UNCHANGED <<plan, state, receipts>>

-----------------------------------------------------------------------------
(* Verification and editing. *)

\* implement-verify --section, when its command passes (module Verification).
Verify(s) ==
  /\ lock = None /\ s \in Captured \cap DOMAIN plan.index
  /\ receipts' = [receipts EXCEPT ![s] = plan]
  /\ UNCHANGED <<plan, state, lock, proc, spent>>

\* Somebody saves a file of the plan.
Edit(new) ==
  /\ spent.edits < MaxEdits
  /\ spent' = [spent EXCEPT !.edits = @ + 1]
  /\ plan' = new
  /\ proc' = [p \in Processes |-> IF proc[p].pc = "idle" THEN Idle
                                  ELSE [proc[p] EXCEPT !.quiet = FALSE]]
  /\ UNCHANGED <<state, receipts, lock>>

EditText(s) == Edit([plan EXCEPT !.text[s] = spent.edits + 2])

EditIndex == \E g \in Graphs \ {plan.index} : Edit([plan EXCEPT !.index = g])

Step(p) == \/ Load(p) \/ Weigh(p) \/ Judge(p) \/ Bind(p) \/ Review(p)
           \/ Close(p) \/ Hold(p) \/ Pass(p) \/ Refuse(p)

Next ==
  \/ \E p \in Processes :
       \/ \E s \in Sections, mode \in Modes, evidence \in {"manual", "receipt"} :
            Start(p, s, mode, evidence)
       \/ Step(p) \/ Fail(p) \/ Die(p)
  \/ \E s \in Sections : Verify(s) \/ EditText(s)
  \/ EditIndex

Spec == Init /\ [][Next]_vars

\* A command that holds the lock takes its steps, and whoever works on the plan
\* keeps recording every section, with its checks and by a result of their own.
Fairness ==
  /\ \A p \in Processes : WF_vars(Step(p))
  /\ \A s \in Sections : SF_vars(\E p \in Processes : Start(p, s, "strict", "manual"))

FairSpec == Spec /\ Fairness
=============================================================================
