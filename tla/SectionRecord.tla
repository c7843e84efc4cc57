--------------------------- MODULE SectionRecord ---------------------------
(***************************************************************************)
(* The journaled transaction that records a section of a detached plan and *)
(* its recovery.  A record changes two files: the section's pinner, an     *)
(* immutable content-addressed receipt, and its entry in the root state    *)
(* file.  Everything in between lives in a fixed transaction directory.    *)
(* A command may be killed at every step, also inside a write; any later   *)
(* command recovers first.  Two lifetime locks admit one command at a time.*)
(*                                                                         *)
(* Files hold the content they describe: a pinner one content, a journal   *)
(* the base and the candidate, a state file the section's entry.           *)
(***************************************************************************)
EXTENDS Naturals, FiniteSets

CONSTANTS Contents,    \* pinner contents a caller may record
          None,        \* the section has no record
          Tears,       \* files a crash may leave half written
          MaxRecords,  \* bound: records attempted
          MaxFaults,   \* bound: kills and failing calls
          MaxDrifts    \* bound: times evidence or authorities drift

ASSUME RecordAssumption ==
  /\ None \notin Contents
  /\ Tears \subseteq {"pinner.tmp", "transaction.write.tmp", "state.json"}
  /\ {MaxRecords, MaxFaults, MaxDrifts} \subseteq Nat

VARIABLES root,     \* the section's entry in zagrosi_implement_state.json
          finals,   \* contents whose final pinner file exists
          dir,      \* the transaction directory exists
          txn,      \* its members
          linked,   \* the staged pinner.json is one inode with its final
          proc,     \* the command that holds the locks
          answer,   \* what the last command reported (none, recorded, failed: undone,
            \* unproven: left to recovery, retained: undone by recovery)
          sound,    \* what verifies: the section's evidence, the authorities
          spent     \* kills and failures, records, drifts so far

files == <<root, finals, dir, txn, linked>>
vars  == <<root, finals, dir, txn, linked, proc, answer, sound, spent>>

-----------------------------------------------------------------------------
Names == {"pinner.tmp", "pinner.json", "transaction.write.tmp", "transaction.tmp",
          "transaction.json", "rollback.json", "state.json"}

File(is, base, cand) == [is |-> is, base |-> base, cand |-> cand]
Absent        == File("absent", None, None)
Torn          == File("torn", None, None)
Pinner(c)     == File("pinner", None, c)
Journal(b, c) == File("journal", b, c)
State(c)      == File("state", None, c)

Inventory == {n \in Names : txn[n] # Absent}
Forward   == txn["transaction.json"] # Absent
Back      == txn["rollback.json"] # Absent

Init ==
  /\ root = None /\ finals = {} /\ dir = FALSE /\ linked = FALSE
  /\ txn = [n \in Names |-> Absent]
  /\ proc = [pc |-> "idle", goal |-> "read", mode |-> "publish", after |-> "go",
             base |-> None, cand |-> None]
  /\ answer = "none" /\ sound = {"evidence", "authority"}
  /\ spent = [faults |-> 0, records |-> 0, drifts |-> 0]

At(pc)      == proc.pc = pc
Goto(pc)    == proc' = [proc EXCEPT !.pc = pc]
Clean(what) == proc' = [proc EXCEPT !.pc = "clean", !.after = what]
Reply(a)    == proc' = [proc EXCEPT !.pc = "idle"] /\ answer' = a
Publishing  == proc.mode = "publish"

Put(n, file)    == txn' = [txn EXCEPT ![n] = file]
Rename(from, n) == txn' = [txn EXCEPT ![from] = Absent, ![n] = txn[from]]

\* write_new_fixed_file_at: create the file, fill it, go on.
Fill(n, file, next) ==
  \/ n \in Tears /\ txn[n] = Absent /\ Put(n, Torn) /\ UNCHANGED proc
  \/ txn[n] = (IF n \in Tears THEN Torn ELSE Absent) /\ Put(n, file) /\ Goto(next)

-----------------------------------------------------------------------------
(* A command takes the locks and recovers before anything else.            *)

\* open_detached_context: refused while an authority drifts.
Open(goal) ==
  /\ At("idle") /\ "authority" \in sound
  /\ dir \/ goal = "record"
  /\ goal = "record" => spent.records < MaxRecords
  /\ proc' = [proc EXCEPT !.pc = IF dir THEN "recover" ELSE "begin", !.goal = goal]
  /\ answer' = "none"
  /\ UNCHANGED <<files, sound, spent>>

\* What section_record_pinner_relation and the stage checks make of the staged
\* pinner: linked to its final, next to an exact adopted one, or alone.
Staged(c) == txn["pinner.json"] = Pinner(c) /\ (linked => c \in finals)

\* A journal-less stage at its base: never linked, its content not recorded.
BaseStage == \E c \in Contents \ {root} : Staged(c) /\ ~linked

\* discard_unpublished: what is left before a journal was published, or after
\* it was removed.
Discardable ==
  LET staged == txn["pinner.json"]
      writing == txn["transaction.write.tmp"] IN
  \/ Inventory \subseteq {"pinner.tmp"}
  \/ /\ Inventory = {"pinner.json", "transaction.write.tmp"} /\ BaseStage
     /\ writing \in {Torn, Journal(root, staged.cand)}
  \/ /\ Inventory = {"pinner.json", "transaction.tmp"} /\ BaseStage
     /\ txn["transaction.tmp"] = Journal(root, staged.cand)
  \/ /\ Inventory = {"pinner.json"}
     /\ BaseStage \/ (Staged(root) /\ root \in finals)

\* _Recovery.rollback: a state temp must be the base against the candidate.
Resumable ==
  LET j == txn["rollback.json"] IN
  /\ Inventory \subseteq {"rollback.json", "pinner.json", "state.json"}
  /\ root \in {j.base, j.cand}
  /\ txn["state.json"] # Absent => root = j.cand /\ txn["state.json"] = State(j.base)
  /\ Staged(j.cand)

\* _Recovery.finish: a state temp must be the candidate against the base.
Finishable ==
  LET j == txn["transaction.json"] IN
  /\ Inventory \subseteq {"transaction.json", "pinner.json", "state.json"}
  /\ root \in {j.base, j.cand}
  /\ txn["state.json"] # Absent => root = j.base /\ txn["state.json"] = State(j.cand)
  /\ Staged(j.cand)

Accepts ==
  IF Back THEN ~Forward /\ Resumable
  ELSE IF Forward THEN Finishable ELSE Discardable

\* (Operators called ...Slip are mistakes such code could make, none of them
\* part of the specification: each breaks a property of this module.)
\* Where recovery enters.  (Slip: a rollback journal is finished like a forward one.)
EntrySlip == IF Back \/ Forward THEN "install" ELSE "clean"
Entry     == IF Back THEN "unlink" ELSE IF Forward THEN "install" ELSE "clean"

Recover ==
  LET j == IF Back THEN txn["rollback.json"] ELSE txn["transaction.json"] IN
  /\ At("recover")
  /\ IF ~Accepts \/ "authority" \notin sound THEN Reply("unproven")
     ELSE /\ UNCHANGED answer
          /\ proc' = [proc EXCEPT !.pc = Entry, !.after = "go", !.base = j.base, !.cand = j.cand,
                                  !.mode = IF Back THEN "resume" ELSE "finish"]
  /\ UNCHANGED <<files, sound, spent>>

-----------------------------------------------------------------------------
(* Publication: _publish_record, and from the final pinner on also the     *)
(* forward recovery.                                                       *)

\* The predecessors and artifacts verify, the record is no exact no-op, and the
\* transaction directory is made.
Begin(c) ==
  /\ At("begin") /\ proc.goal = "record"
  /\ sound = {"evidence", "authority"} /\ c # root
  /\ spent.records < MaxRecords
  /\ spent' = [spent EXCEPT !.records = @ + 1]
  /\ dir' = TRUE
  /\ proc' = [proc EXCEPT !.pc = "stage", !.mode = "publish", !.base = root, !.cand = c]
  /\ UNCHANGED <<root, finals, txn, linked, answer, sound>>

\* The command only read, or it refuses before it has written anything.
Return ==
  /\ At("begin")
  /\ Reply("none")
  /\ UNCHANGED <<files, sound, spent>>

StagePinner ==
  /\ \/ At("stage") /\ Fill("pinner.tmp", Pinner(proc.cand), "staged")
     \/ At("staged") /\ Rename("pinner.tmp", "pinner.json") /\ Goto("write")
  /\ UNCHANGED <<root, finals, dir, linked, answer, sound, spent>>

PublishJournal ==
  /\ \/ At("write") /\ Fill("transaction.write.tmp", Journal(proc.base, proc.cand), "written")
     \/ At("written") /\ Rename("transaction.write.tmp", "transaction.tmp") /\ Goto("journal")
     \/ /\ At("journal") /\ root = proc.base
        /\ Rename("transaction.tmp", "transaction.json") /\ Goto("install")
  /\ UNCHANGED <<root, finals, dir, linked, answer, sound, spent>>

\* install_staged_section_pinner: link the stage to its final name, or adopt
\* the exact file that is there.
Install ==
  /\ At("install")
  /\ linked' = (linked \/ proc.cand \notin finals)
  /\ finals' = finals \cup {proc.cand}
  /\ Goto(IF root = proc.cand THEN "reverify" ELSE "verify")
  /\ UNCHANGED <<root, dir, txn, answer, sound, spent>>

\* verify_section_record_artifact_closure, before and after the promotion.
Verify ==
  /\ \/ At("verify") /\ Goto("promote")
     \/ At("reverify") /\ Goto("commit")
  /\ sound = {"evidence", "authority"}
  /\ UNCHANGED <<files, answer, sound, spent>>

\* replace_state_from_transaction.
Promote ==
  /\ \/ /\ At("promote")
        /\ \/ txn["state.json"] = State(proc.cand) /\ Goto("replace") /\ UNCHANGED txn
           \/ Fill("state.json", State(proc.cand), "replace")
        /\ UNCHANGED root
     \/ /\ At("replace") /\ root = proc.base
        /\ root' = proc.cand
        /\ Put("state.json", Absent) /\ Goto("reverify")
  /\ UNCHANGED <<finals, dir, linked, answer, sound, spent>>

\* commit_section_record_transaction: removing the journal is the commit point.
Commit ==
  /\ At("commit")
  /\ Put("transaction.json", Absent)
  /\ Clean(IF Publishing THEN "recorded" ELSE "go")
  /\ UNCHANGED <<root, finals, dir, linked, answer, sound, spent>>

-----------------------------------------------------------------------------
(* Rollback.                                                               *)

\* A verification or a call of the publication fails.  The forward recovery
\* does not roll back for a final pinner it could not install or a journal it
\* could not remove.
Raise ==
  /\ proc.pc \in {"stage", "staged", "write", "written", "journal", "install", "verify",
                  "promote", "replace", "reverify", "commit"}
  /\ \/ proc.pc \in {"verify", "reverify"} /\ sound # {"evidence", "authority"} /\ UNCHANGED spent
     \/ spent.faults < MaxFaults /\ spent' = [spent EXCEPT !.faults = @ + 1]
  /\ IF Publishing THEN Goto("undo") /\ UNCHANGED answer
     ELSE IF proc.pc \in {"install", "commit"} THEN Reply("unproven")
     ELSE Goto("abort") /\ UNCHANGED answer
  /\ UNCHANGED <<files, sound>>

\* _rollback_failed_record: without a journal there is nothing to undo; a state
\* temp it cannot explain is retained.
Undo ==
  /\ At("undo")
  /\ IF ~Forward THEN Clean("failed") /\ UNCHANGED answer
     ELSE IF txn["state.json"] \in {Absent, State(IF root = proc.base THEN proc.cand ELSE proc.base)}
     THEN Goto("abort") /\ UNCHANGED answer
     ELSE Reply("unproven")
  /\ UNCHANGED <<files, sound, spent>>

\* publish_section_record_rollback: the durable intent to abort.
Abort ==
  /\ At("abort")
  /\ Rename("transaction.json", "rollback.json") /\ Goto("unstage")
  /\ UNCHANGED <<root, finals, dir, linked, answer, sound, spent>>

\* The candidate staged for promotion is dropped.
Unstage ==
  /\ At("unstage")
  /\ \/ txn["state.json"] = Absent /\ Goto("unlink") /\ UNCHANGED <<txn, answer>>
     \/ /\ txn["state.json"] = State(proc.cand) /\ root = proc.base
        /\ Put("state.json", Absent) /\ Goto("unlink") /\ UNCHANGED answer
     \/ /\ txn["state.json"] # Absent
        /\ ~(txn["state.json"] = State(proc.cand) /\ root = proc.base)
        /\ Reply("unproven") /\ UNCHANGED txn
  /\ UNCHANGED <<root, finals, dir, linked, sound, spent>>

\* unlink_invocation_created_section_pinner: only a final this transaction
\* linked is removed, never an adopted one.  (Slip: any exact final is.)
CreatedSlip == TRUE
Created     == linked

Unlink ==
  /\ At("unlink")
  /\ finals' = IF Created THEN finals \ {proc.cand} ELSE finals
  /\ linked' = FALSE
  /\ Goto("restore")
  /\ UNCHANGED <<root, dir, txn, answer, sound, spent>>

\* replace_state_from_rollback.
Needless == root = proc.base

Restore ==
  /\ \/ /\ At("restore") /\ Needless
        /\ IF txn["state.json"] = Absent THEN Goto("close") /\ UNCHANGED answer ELSE Reply("unproven")
        /\ UNCHANGED <<root, txn>>
     \/ /\ At("restore") /\ ~Needless
        /\ \/ txn["state.json"] = State(proc.base) /\ Goto("revert") /\ UNCHANGED txn
           \/ Fill("state.json", State(proc.base), "revert")
        /\ UNCHANGED <<root, answer>>
     \/ /\ At("revert")
        /\ root' = proc.base
        /\ Put("state.json", Absent) /\ Goto("close") /\ UNCHANGED answer
  /\ UNCHANGED <<finals, dir, linked, sound, spent>>

\* Slip: also what only the abandoned candidate needed must still verify.
BaseVerifiesSlip == sound = {"evidence", "authority"}
BaseVerifies     == "authority" \in sound

\* The base must verify before the rollback journal is removed; evidence of the
\* abandoned candidate does not matter.  The forward recovery that gave up
\* says that the artefacts are retained.
Close ==
  /\ At("close")
  /\ IF BaseVerifies
     THEN /\ Put("rollback.json", Absent) /\ UNCHANGED answer
          /\ Clean(CASE proc.mode = "publish" -> "failed"
                     [] proc.mode = "finish"  -> "retained"
                     [] OTHER                 -> "go")
     ELSE Reply("unproven") /\ UNCHANGED txn
  /\ UNCHANGED <<root, finals, dir, linked, sound, spent>>

-----------------------------------------------------------------------------
\* cleanup_section_record_transaction_after_commit: the members in a fixed
\* order, then the directory.  (Slip: the stage before the journals it proves.)
OrderSlip == <<"state.json", "pinner.json", "pinner.tmp", "transaction.write.tmp", "transaction.tmp">>
Order == <<"state.json", "transaction.write.tmp", "transaction.tmp", "pinner.tmp", "pinner.json">>

Cleanup ==
  /\ At("clean")
  /\ IF Inventory # {}
     THEN \E i \in 1..5 :
            /\ Order[i] \in Inventory /\ \A k \in 1..(i - 1) : Order[k] \notin Inventory
            /\ Put(Order[i], Absent)
            /\ linked' = (linked /\ Order[i] # "pinner.json")
            /\ UNCHANGED <<dir, proc, answer>>
     ELSE /\ dir' = FALSE
          /\ IF proc.after = "go" THEN Goto("begin") /\ UNCHANGED answer ELSE Reply(proc.after)
          /\ UNCHANGED <<txn, linked>>
  /\ UNCHANGED <<root, finals, sound, spent>>

\* A cleanup that fails leaves a committed record committed; after a rollback
\* or a recovery it is reported.
Leftover == IF proc.after = "recorded" THEN "recorded" ELSE "unproven"

CleanupFails ==
  /\ At("clean") /\ spent.faults < MaxFaults
  /\ spent' = [spent EXCEPT !.faults = @ + 1]
  /\ Reply(Leftover)
  /\ UNCHANGED <<files, sound>>

\* The process is killed, or rollback or recovery itself fails.
Die ==
  /\ ~At("idle") /\ spent.faults < MaxFaults
  /\ spent' = [spent EXCEPT !.faults = @ + 1]
  /\ Reply("unproven")
  /\ UNCHANGED <<files, sound>>

\* Reviews, evidence or the authorities change outside Forge, and are repaired.
Drift(x) ==
  /\ x \in sound /\ spent.drifts < MaxDrifts
  /\ spent' = [spent EXCEPT !.drifts = @ + 1]
  /\ sound' = sound \ {x}
  /\ UNCHANGED <<files, proc, answer>>

Repair(x) ==
  /\ x \notin sound
  /\ sound' = sound \cup {x}
  /\ UNCHANGED <<files, proc, answer, spent>>

Step == \/ Recover \/ (\E c \in Contents : Begin(c)) \/ Return
        \/ StagePinner \/ PublishJournal \/ Install \/ Verify \/ Promote \/ Commit
        \/ Raise \/ Undo \/ Abort \/ Unstage \/ Unlink \/ Restore \/ Close
        \/ Cleanup \/ CleanupFails

Next == \/ \E goal \in {"record", "read"} : Open(goal)
        \/ Step \/ Die
        \/ \E x \in {"evidence", "authority"} : Drift(x) \/ Repair(x)

Spec == Init /\ [][Next]_vars

\* A command that took the locks runs on; someone runs another command while a
\* transaction is left over; a drifted authority is repaired in the end.
Fairness ==
  WF_vars(Step) /\ WF_vars(Open("read")) /\ WF_vars(Repair("authority"))

FairSpec == Spec /\ Fairness

-----------------------------------------------------------------------------
(* Its properties. *)

Entries  == Contents \cup {None}
Journals == {Journal(b, c) : b \in Entries, c \in Contents}
Holds(n) ==
  {Absent} \cup
  CASE n = "pinner.tmp"            -> {Torn} \cup {Pinner(c) : c \in Contents}
    [] n = "pinner.json"           -> {Pinner(c) : c \in Contents}
    [] n = "transaction.write.tmp" -> {Torn} \cup Journals
    [] n = "state.json"            -> {Torn} \cup {State(c) : c \in Entries}
    [] OTHER                       -> Journals

\* Every variable has its type; only files still being written may be torn.
TypeOK ==
  /\ root \in Entries /\ finals \subseteq Contents
  /\ dir \in BOOLEAN /\ linked \in BOOLEAN
  /\ DOMAIN txn = Names /\ \A n \in Names : txn[n] \in Holds(n)
  /\ proc.mode \in {"publish", "finish", "resume"} /\ proc.goal \in {"record", "read"}
  /\ proc.base \in Entries /\ proc.cand \in Entries
  /\ answer \in {"none", "recorded", "failed", "unproven", "retained"}
  /\ sound \subseteq {"evidence", "authority"}
  /\ spent.faults <= MaxFaults /\ spent.records <= MaxRecords /\ spent.drifts <= MaxDrifts

\* Killed and recovered as often as it may be, recording a section is one atomic
\* change: entry and receipt appear together when the journal is removed, an
\* aborted record leaves no trace, and no receipt is ever lost.
Undecided == CHOOSE j \in {txn["transaction.json"], txn["rollback.json"]} : j # Absent
Store == INSTANCE SectionStore WITH
  record   <- IF Forward \/ Back THEN Undecided.base ELSE root,
  receipts <- IF (Forward \/ Back) /\ linked THEN finals \ {Undecided.cand} ELSE finals
ImplementsStore == Store!Spec

\* The states recovery refuses although a command of ours left them: the state
\* file half written, or the staged candidate under a rollback journal.
Stranded ==
  /\ At("idle")
  /\ \/ txn["state.json"] = Torn
     \/ Back /\ txn["state.json"] = State(txn["rollback.json"].cand)

\* What the command reports is so: "recorded" is committed, also when its
\* cleanup is pending; a plain failure left neither the entry nor the receipt it
\* made nor a journal behind.  And whatever it left, wherever it died, is a state
\* the next command recognises and recovers, those two apart.
HonestAnswer ==
  At("idle") =>
    /\ answer = "recorded" => root = proc.cand /\ root \in finals /\ ~Forward /\ ~Back
    /\ answer = "failed" => root = proc.base /\ ~dir /\ Inventory = {} /\ ~linked
    /\ dir => Accepts \/ Stranded

\* Once the intent to abort is durable nobody promotes the candidate or installs
\* its pinner again, whichever command finds the journal.
RollbackNeverPromotes ==
  [][Back => /\ root' # root => root' = txn["rollback.json"].base
             /\ finals' \subseteq finals]_vars

\* A left over transaction does not stay: later commands recover it, whatever
\* review or evidence drifts meanwhile.
Settles == dir ~> (~dir \/ Stranded)

\* detached-protocol.md: "A rollback journal requires its exact stage and
\* resumes only rollback."  Recovery also wants no candidate next to it, which
\* a killed rollback leaves.
RollbackResumes ==
  At("idle") /\ Back /\ Staged(txn["rollback.json"].cand)
    /\ root \in {txn["rollback.json"].base, txn["rollback.json"].cand} => Accepts
=============================================================================
