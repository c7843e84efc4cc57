------------------------------ MODULE Handoff ------------------------------
(***************************************************************************)
(* The privileged evidence handoff (handoff.py, handoff_host.py,           *)
(* handoff_wire.py): a root process answers a request with a receipt about *)
(* the protected source, an unprivileged verifier confirms it, and the     *)
(* receipt is stored once.  The same checks verify a stored receipt when   *)
(* its section is recorded.  Nothing keeps the source, the planning files  *)
(* or the evidence still meanwhile: they are looked at again and again,    *)
(* each look being several reads.  What is written here as a script of     *)
(* checks is the order of the calls in the source.                         *)
(***************************************************************************)
EXTENDS Naturals, Sequences

CONSTANTS Versions,     \* commits, and contents of the files at a commit
          MaxDrifts,    \* bound: changes by others
          MaxJobs       \* bound: commands

VARIABLES source,       \* the target directory: which one, its HEAD and its files
          sound,        \* what the commands rely on and others may break
          evidence,     \* the stored receipt, or NoReceipt
          job,          \* the command that holds the locks
          fresh,        \* history: the sources since the job began or its receipt was written
          counts        \* commands and drifts so far
handoffVars == <<source, sound, evidence, job, fresh, counts>>

NoReceipt == [echo |-> FALSE, commit |-> 0, files |-> 0]
Receipts  == [echo : BOOLEAN, commit : Versions, files : Versions]
NoLook    == [commit |-> 0, files |-> 0]

\* derive_protected_source_observation, open_handoff_target, recheck_handoff_target
Derive  == <<"status", "commit", "files">>
OpenIt  == <<"identity">> \o Derive \o <<"identity">>
Recheck == OpenIt \o <<"same", "fixed">>
Trusted == <<"authority", "ready">>

\* What the root arm answers is looked at after it, after the verifier, before
\* and after it is stored.
LastLook == Recheck

Script == [
  handoff |-> Trusted \o <<"fixed">> \o OpenIt \o <<"take">>
              \o Trusted \o Recheck \o <<"root", "match">>
              \o Derive \o <<"same">> \o Recheck \o <<"fixed", "verifier">>
              \o Derive \o <<"same">> \o Recheck
              \o Trusted \o LastLook \o <<"probe", "write", "reopen">>
              \o Trusted \o LastLook \o <<"authority", "answer">>,
  stored  |-> <<"fixed", "load">> \o OpenIt \o <<"take", "match">>
              \o Derive \o <<"same", "fixed", "verifier">>
              \o Derive \o <<"same">> \o Recheck \o <<"authority", "answer">>]

Idle == [kind |-> "none", at |-> 0, end |-> "none", dir |-> 0, look |-> NoLook,
         base |-> NoLook, receipt |-> NoReceipt, was |-> NoReceipt, mine |-> FALSE,
         disturbed |-> FALSE]

HandoffInit ==
    /\ source = [dir |-> 1, commit |-> 1, files |-> 1]
    /\ sound = [authority |-> TRUE, ready |-> TRUE, fixed |-> TRUE]
    /\ evidence = NoReceipt
    /\ job = Idle /\ fresh = {} /\ counts = [jobs |-> 0, drifts |-> 0]

Running  == job.kind # "none" /\ job.end = "none"
At(step) == Running /\ Script[job.kind][job.at] = step

Begin(kind) ==
    /\ ~Running /\ counts.jobs < MaxJobs
    /\ job' = [Idle EXCEPT !.kind = kind, !.at = 1, !.was = evidence]
    /\ fresh' = {source}
    /\ counts' = [counts EXCEPT !.jobs = @ + 1]
    /\ UNCHANGED <<source, sound, evidence>>

On(j)     == job' = [j EXCEPT !.at = @ + 1]
World     == UNCHANGED <<source, sound, evidence, fresh, counts>>

Sound(what) == At(what) /\ sound[what] /\ On(job) /\ World
\* verify_detached_authorities, verify_handoff_readiness: the section may be worked on and
\* its evidence is still wanted; require_fixed_handoff_dependencies: the root-owned files
\* are as they should be.
Authorities == Sound("authority")
Ready       == Sound("ready")
FixedThings == Sound("fixed")

Identity == /\ At("identity") /\ job.dir \in {0, source.dir}
            /\ On([job EXCEPT !.dir = source.dir]) /\ World
\* git status is empty, HEAD is a commit, the files are read: three moments.
Status   == At("status") /\ source.files = source.commit /\ On(job) /\ World
Commit   == At("commit") /\ On([job EXCEPT !.look.commit = source.commit]) /\ World
Files    == At("files") /\ On([job EXCEPT !.look.files = source.files]) /\ World
Take     == At("take") /\ On([job EXCEPT !.base = job.look]) /\ World
Same     == At("same") /\ job.look = job.base /\ On(job) /\ World

\* The root arm is external: it may answer anything.  parse_handoff_receipt
\* demands that the answer repeats the request.
Root == /\ At("root")
        /\ \E r \in Receipts : r.echo /\ On([job EXCEPT !.receipt = r])
        /\ World
Load == /\ At("load") /\ evidence.echo
        /\ On([job EXCEPT !.receipt = evidence]) /\ World
\* Slip: a receipt for the commit is good for whatever files are there.
MatchSlip == At("match") /\ job.receipt.commit = job.base.commit /\ On(job) /\ World
\* require_receipt_source_observation
Match == /\ At("match")
         /\ job.receipt.commit = job.base.commit /\ job.receipt.files = job.base.files
         /\ On(job) /\ World
Verifier == At("verifier") /\ On(job) /\ World

Own(j) == j.mine

Probe == At("probe") /\ On([job EXCEPT !.mine = evidence = NoReceipt]) /\ World
\* Created exclusively; an equal file that is there is as good.
Write == /\ At("write") /\ evidence \in {NoReceipt, job.receipt}
         /\ evidence' = job.receipt /\ fresh' = {source}
         /\ On(job) /\ UNCHANGED <<source, sound, counts>>
Reopen == At("reopen") /\ evidence = job.receipt /\ On(job) /\ World

Stop(end)  == job' = [job EXCEPT !.end = end]
Success    == /\ At("answer") /\ Stop("success") /\ World

\* Any step may fail: what it reads is not what it wants, or the system refuses.
\* From the write to the last look a failure takes back what this command
\* created, if it can; what is refused after that look leaves it stored.
Past(step) == \E i \in 1..(job.at - 1) : Script[job.kind][i] = step
Final      == job.at >= Len(Script[job.kind]) - 1
TakesBack  == Past("write") /\ ~Final /\ Own(job) /\ evidence = job.receipt
Fail == /\ Running
        /\ \/ Stop("failed") /\ evidence' = IF TakesBack THEN NoReceipt ELSE evidence
           \/ TakesBack /\ Stop("stuck") /\ UNCHANGED evidence
        /\ UNCHANGED <<source, sound, fresh, counts>>
Die  == Running /\ Stop("killed") /\ World

-----------------------------------------------------------------------------
\* Others move the directory, commit, edit, break or repair authorities and
\* fixed dependencies, and exchange or remove the evidence.
Drift(new, holds, stored) ==
    /\ counts.drifts < MaxDrifts
    /\ counts' = [counts EXCEPT !.drifts = @ + 1]
    /\ source' = new /\ sound' = holds /\ evidence' = stored
    /\ fresh' = fresh \cup {new}
    /\ job' = [job EXCEPT !.disturbed = @ \/ evidence' # evidence]

Drifts ==
    \/ Drift([source EXCEPT !.dir = 3 - @], sound, evidence)
    \/ \E v \in Versions : \/ Drift([source EXCEPT !.files = v], sound, evidence)
                           \/ Drift([source EXCEPT !.commit = v], sound, evidence)
                           \/ Drift([source EXCEPT !.commit = v, !.files = v], sound, evidence)
    \/ \E what \in DOMAIN sound : Drift(source, [sound EXCEPT ![what] = ~@], evidence)
    \/ \E r \in Receipts \cup {NoReceipt} : Drift(source, sound, r)

Step == \/ Authorities \/ Ready \/ FixedThings
        \/ Identity \/ Status \/ Commit \/ Files \/ Take \/ Same
        \/ Root \/ Load \/ Match \/ Verifier
        \/ Probe \/ Write \/ Reopen \/ Success

HandoffNext == Step \/ Fail \/ Die \/ Drifts \/ \E kind \in DOMAIN Script : Begin(kind)

HandoffSpec == HandoffInit /\ [][HandoffNext]_handoffVars

-----------------------------------------------------------------------------
(***************************************************************************)
(* A handoff that reports success stored a receipt that repeats its        *)
(* request and names a commit and files the target still had after the     *)
(* receipt was written (a verified stored receipt: since the command       *)
(* began).  A handoff that failed leaves the evidence as it found it, or,  *)
(* when only its very last check failed, a receipt of that kind, unless    *)
(* somebody else or a kill interfered.  (handoff.py:108-170)               *)
(***************************************************************************)
Current(r) == /\ \E s \in fresh : s.commit = r.commit
              /\ \E s \in fresh : s.files = r.files

HandoffHonest ==
    /\ job.end = "success" =>
         /\ job.receipt.echo /\ Current(job.receipt)
         /\ job.disturbed \/ evidence = job.receipt
    /\ job.end = "failed" /\ ~job.disturbed =>
         \/ evidence = job.was
         \/ evidence = job.receipt /\ Current(evidence)
=============================================================================
