# TLA+ models of Zagrosi Forge

Zagrosi Forge is a Python program (`src/scripts/forge`, about 24,000 lines, and a
trial harness in `src/tools`, about 12,000) that accompanies coding agents through
planning, implementing and reviewing work.  Most of it reads and renders text.
What is hard in it is the part that keeps state: a board of reservations shared
over a Git ref by clones that never talk to each other, journaled records that
must survive a kill at any instruction, budgets, caches and child processes.
The modules here model that part, TLC checks them on small instances and TLAPS
proves the central results for instances of every size.

Tools: `tlc -config X.cfg M` for a run of the table below, `tlapm M.tla` for the
proofs.  `PROJECT.json` ties each definition to the source lines it models, lists the
runs, the theorems, the hazards, and for every property a mistake in the code
that would break it.

## 1. Inventory

| Component | State it keeps | Operations | What is hard | What makes it correct |
|---|---|---|---|---|
| Team board (`team*.py`) | the board document under a Git ref; per clone `forge-team/state.json` with checkouts, receipts, task generations, plan bindings | start, update, finish, recover, status, retry, init, join, leave | clones race on one ref; a push can be rejected, time out, or arrive late; a process dies anywhere; worktrees of a clone share a file and the clone may be moved | reservations never overlap; an outcome reported is the outcome that happened; consent is for one revision; everybody is on the board of the remote; a worktree keeps its own record |
| Team workflow guard and shared plans (`team_workflow`, `team_plans`, `team_dependencies`) | the plan binding of a checkout, plan contracts on the board, private workspaces of prepared plans and refs that keep their commits | check before a workflow step, prepare, validate and recover plans, advise on overlaps | the board may change between check and step; HEAD, index and worktree are read one after the other | no two steps under one reservation; a prepared plan is what its commit holds, and the commit stays |
| Section records (`detached_record`, `transaction_io`, `transaction_state`, `pinners`, `recovery`) | the root's state file, content-addressed pinners, a fixed transaction directory | record a section, recover before any command | two files change; a kill at any step or inside a write; recovery killed too; evidence drifts in between | entry and receipt change as one, every left over state is recovered or recognised |
| Detached setup and progress (`detached_setup`, `detached_state`, `detached_progress`, `authority`) | frozen planning digest, config, slots | set up, resume a prefix, next section | a crash leaves a prefix of the slots | a completed setup names exactly one plan and target, a prefix can always be completed |
| Mutable workflow (`workflows`, `state`, `mutable_inputs`, `resume`) | implement state with completed and pending sections | record, verify, drop stale sections | plan files are edited without a lock; checks run for minutes after the evidence was published | nothing counts before its checks or after its contract changed; no record is lost; what waits for a retry can be retried |
| Verification (`verification`, `verification_allowance`, `compatibility`) | receipts and their history, baseline and candidate of a section, a budget file | run a check, attest, reserve and settle its time, activate a section | inputs edited while a check runs; dying between reservation, run, settlement and receipt | a pass was earned on the inputs it names; the budget is never overspent by what is measured, never reset |
| Plugin cache (`plugin_cache`) | the installed tree, a recovery copy, temporary trees | materialise | a kill between the renames | an installed tree exists or the next run restores it |
| State-first plans (`state_first`) | `plan.md`, `status.json`, a snapshot of the tree | setup, progress, full suite, status, report | files and rows are edited at any time, reports are made without the lock, checks take minutes | complete means that the suite passed on this tree; evidence precedes done |
| Child processes (`child_process`, `processes`) | threads and pipes of one child | run with deadline, cancel | exit, deadline, cancellation and open pipes race | the caller always gets one honest result |
| Privileged handoff (`handoff*`) | a stored receipt | exchange with a host helper, verification of what is stored | the source drifts between any two reads; partial frames, early exit | a success speaks of the source as it was after the receipt was written |
| File access, locks (`secure_io`, `locks`, `storage`) | advisory locks, atomic JSON files | lock, replace, read | lock timeout, crash in a replace | readers see old or new |
| Scheduling and sections (`scheduling`, `sections`, `ownership`) | none | layer sections, next ready ones | pure algorithms over a graph | layers respect dependencies, no two owners of a file in one layer |
| Session cache (`session`) | analyses of one command and the signatures of what they read | reuse, compute, store | files are edited while an analysis runs | a reused answer is what the files said at one moment |
| Installation, hosts (`installation`, `codex_config`, `hosts`, `doctor`) | host configuration files and their backups | install, self-update, check for updates | editing a file somebody else edits | the settings of others survive, nothing is switched on that is not there |
| Providers | none | run a model program, parse | child processes | see child processes |
| Planning artifacts, analysis, command line | documents | render, validate, score | text only | not state |
| Coding trials (`coding_trial*`) | trial record, reservation, evidence, lock, roots, containers, mailbox of the oracle, assessments, packets, forms | reserve, load, write, freeze; assess, blind, review, apply, report | a killed suite, containers that outlive their phase, a daemon that answers late | the writer runs once and alone; a verdict is about the latest candidate; no container is left unsaid |
| Session and native trials (`session_break_*`, `native_*`) | a matrix of attempts, file modes, results, checkpoints | run, resume, analyse, report | file modes that must be undone after a kill; no lock at all in the native matrix | no session is started twice; a row that passes went as it says |

How they meet: every command goes through `cli.py` and runs once, alone in its
process.  Processes meet only in files and in the Git ref, under advisory locks:
a clone's team commands under the lock of its state file, detached commands
under a global and an implementation-root lock.  Workflow commands ask the team
guard before they act; detached commands run recovery first.  So a model needs
no calls between components inside a process, but it needs every order of file
and ref operations of different processes, and every place a process can die.

## 2. Modules

| Module | Models |
|---|---|
| `TeamBoard` | publishing, reconciling, retrying, leaving (team.py, team_git.py, team_config.py, team_state.py, team_cli.py) |
| `TeamBoardProps` | its properties |
| `Reservations` | the abstract promise: one table of atomic reservations |
| `TeamBoardProofs` | inductive invariants, theorems, refinement |
| `SectionRecord` | the journaled transaction of a section record and its recovery, and its properties |
| `SectionStore` | the abstract promise: an entry and its receipt appear in one step |
| `PluginCache` | replacement of the installed plugin (plugin_cache.py), and its properties |
| `InstalledPlugin` | the abstract promise: a whole package, replaced in one step by a newer one |
| `PluginCacheProofs` | inductive invariant, theorems, refinement |
| `Verification` | verification receipts, compatibility pairs and the allowance (verification.py, compatibility.py, verification_allowance.py) |
| `VerificationProps` | its properties |
| `VerificationProofs` | inductive invariants and theorems about the allowance and the receipts |
| `Scheduling` | predecessors, settled and ready sections, parallel layers (sections.py, state.py, scheduling.py) |
| `MutablePlan` | recording sections of a mutable plan (workflows.py, state.py, mutable_inputs.py) |
| `MutablePlanProps` | its properties and those of the layers |
| `SectionLedger` | the abstract promise: sections are closed, held back and let go one at a time |
| `MutablePlanProofs` | inductive invariant, theorems, refinement |
| `ProcessGroup` | the operating system both supervisors use: a leader, its descendants, their group and pipes |
| `ChildProcess`, `HandoffChild` | the supervision of an ordinary and of a privileged child (child_process.py, processes.py) |
| `Handoff` | the privileged evidence handoff (handoff*.py) |
| `DetachedSetup` | setting up and using a detached root (detached_setup.py, detached_state.py, detached_progress.py) |
| `StateFirst` | state-first plans (state_first.py) |
| `TeamSetup` | how a clone gets to a board (team.py: onboard, leave) |
| `CheckoutIdentity` | which record of a clone is a worktree's own (team_config.py) |
| `PreparedPlan` | prepared plans (team_plans.py) |
| `StepGuard` | the guard of a workflow step and the advice on overlaps (team_workflow.py, team_dependencies.py) |
| `Installer` | installing into the host's configuration (installation.py, codex_config.py) |
| `SessionCache` | analyses reused within a command (session.py, storage.py) |
| `OwnedContainer` | one container of a coding trial (coding_trial_docker.py) |
| `OracleExchange` | the oracle of an assessment and its supervisor (coding_trial_assessment_execution.py, coding_trial_observation_client.py) |
| `TrialAttempt` | one attempt of a coding trial with its phases (coding_trial_suite.py, _reservation, _loading, _runner) |
| `TrialReview` | assessments, packets, applications and the report (coding_trial_assessment.py, coding_trial_suite_review.py, coding_trial_suite_matrix.py) |
| `SessionBreak` | session-break trials (session_break_trials.py) |
| `NativeMatrix` | the native acceptance matrix (native_workflow_trials.py, native_trial_session.py) |
| `EndingsProofs` | children, containers, the oracle and the record of a section: invariants, theorems and a refinement, on top of `MCEndings` |
| `TeamCommandsProofs` | boards, identities, prepared plans and the step guard: invariants and theorems, on top of `MCCommands` |
| `CommandsProofs` | installation, state-first plans, the detached root, the handoff and reused analyses: invariants and theorems, on top of `MCCommands` |
| `TrialsProofs` | attempts, assessments, session-break attempts and native rows: invariants and theorems, on top of `MCTrials` |
| `MC...` | small instances |

Operators called `...Slip` are mistakes such code could make (a dropped check, a
wrong order).  Nothing in a specification uses them.  Each is paired in
`PROJECT.json` with the definition it would replace and the property that then fails,
which shows that the property depends on that piece of code.

### 2.1 TeamBoard

A board is a JSON document in a commit; publishing one is `git push
--force-with-lease=ref:parent`, a compare-and-swap of the ref.  `head` is the
revision the ref names, `landed` its ancestry, `commits` what a revision holds,
`inflight` the pushes nobody waits for any more that may still arrive.  `disk` is
each clone's durable state, `proc` the command that holds its lock, with the
program counter of the steps between which the world may change:

    Begin -> (Reconcile) -> Write -> push -> Resolve -> Settle -> Reread -> ...
                                      |-> Accept

`Write` is the body of `mutate`: decide on the observed board, validate the new
one, create the commit, and save its receipt before the push.  `PushOk`,
`PushUnheard`, `PushDelayed`, `PushRejected` are what can come of a push; `Arrive`
and `Vanish` what becomes of a delayed one.  `Resolve` is the classification after
a nonzero exit; an unconfirmed push ends the command with its receipt kept.
`Settle` drops a receipt that was refused (contention always, a denied first push,
never a denied retry).  `Abort` is any error exit and the death of the process at
every program counter: nothing is written there, the lock dies with its holder.
`Accepted`, `Compact` and `Settled` are `_accept_pending` and the compaction it
ends with.  A task and its generation are both represented by the number of the
commit that introduced them, so a token of 128 random bits is a fresh number.
Paths are abstract with a relation `Under`; a reserved directory covers what is
under it.

### 2.2 SectionRecord

The transaction directory `pinners/.record-section-transaction-v1` is a function
from its seven fixed names to what they hold, and a file holds the content it
describes: a pinner one content, a journal base and candidate, a state file the
section's entry.  `root` is the entry in `zagrosi_implement_state.json`, `finals` the
final pinner files, `linked` whether the staged pinner is the same inode as its
final (created) or a file of its own (adopted).  One action stands for one
durable call, so a kill (`Die`) can fall between any two, and a file in `Tears`
takes two steps, so it can fall inside the write.

    stage -> staged -> write -> written -> journal -> install -> verify -> promote
          -> replace -> reverify -> commit -> clean                  (publish, finish)
    undo -> abort -> unstage -> unlink -> restore -> revert -> close -> clean   (rollback)

The forward recovery `_Recovery.finish` runs the same steps as the publication from
`install` on, and the resumed rollback those from `unlink` on, with other replies:
that is `proc.mode`.  `Discardable`, `Finishable` and `Resumable` are the conditions
under which the three arms of the recovery accept what they find; `Accepts` is
their dispatch.  `sound` says whether the section's evidence and the authorities
verify at the moment; both may drift at any time and be repaired.

### 2.3 PluginCache

A tree is a function from file names to revisions; 0 stands for a file that is not
there.  The manifest is one of the files, and its content decides which others
belong to the package (`Members`), so a tree can be incomplete or hold files no
manifest lists.  Reading and copying a tree takes one action per file (`Scan`,
`Copy`), removing the recovery copy too (`Remove`); `Edit` may come between any two.

    repair -> declare -> scan -> open -> copy -> retire -> publish -> drop -> done

`Repair`, `Remove` and `Sweep` are what an update does with the leavings of an earlier
one, `Declare` to `Compare` is `plugin_cache_status`, `Open` to `Check` the copy and the
second fingerprint, `Retire` and `Publish` the two renames.  `Fail` is an error inside
the update: the temporary directory is removed, and at `publish` the old tree is put
back, unless that fails too.  `Kill` leaves everything as it is.  `offered` is a
history variable with the packages the source has been since the update began.

Assumed: contents do not recur (a fingerprint that is equal means an equal file, and
no editor goes back to an old revision in the middle of an update), and files of
the source are changed or added, not deleted.  One temporary tree stands for any
number; an emptied directory is the same as none, since `os.replace` goes over both.
A source that was incomplete or inconsistent as a whole at one moment can be
installed as it was at that moment; the code promises no more.

### 2.4 Verification

`receipts` are the files of a section and of the integration, `archive` is `history/`,
`pair` the compatibility file with its origin, stages and `prior_attempts`, `ledger` is
`allowance.json`.  One command at a time holds the lock of the mutable state:

    reserve -> archive -> announce -> launch -> run -> settle -> judge -> record

with one action per file written (`Archive`, `Announce`, `Record` take the receipts one
by one).  A baseline or candidate (`Staging`) skips `archive` and writes the pair
(`AnnounceStage`, `RecordStage`); an attestation (`Attest`) runs nothing and draws on no
allowance.  `Unprepared` is an error covered by `Allowance.preparation`, which releases
the reservation if it can; `Unsettled` an error of the run or of its settlement;
`Die` a kill, or an error nothing is written after.  `runs` and `owed` are history:
what was really run on what, and what it really drew on the allowance.  Contents
of source and checks are numbers that never recur, except that the original source
may be restored between commands, as a new baseline demands.

### 2.5 MutablePlan and Scheduling

`plan` is what the index says (`index`: each section of the manifest to the predecessors its
row names, which may be unknown or go in a circle) and the text of each section file.
`state` is `zagrosi_implement_state.json`: the records of `completed_sections` and the
names in `pending_sections`.  A record holds the contract it was made for, here
the texts and predecessors of its section and of all sections before it; two history
fields say on which plan a captured run showed it and whether its checks were
decided.  One action stands for one read or write of a file another party can
change in between:

    load -> weigh -> judge -> bind -> review -> decide -> (idle | gate -> idle)

`Load` reads the state and the index, `Weigh` computes the completed sections,
`Judge` is `section_result`, `Bind` `contract_snapshot`, `Review` the findings on
the new record; `Close` writes it at once, `Hold` publishes the evidence as pending
before the postflight, `Pass` and `Fail` are its end.  An advisory postflight lets
the section go even when its checks fail, since it blocks nothing (gates.py:337);
that is what the code says of advisory, and the model keeps it.  `Refuse` is each
early return, `Die` a kill or an error before anything more is written.  `Edit`
saves a plan file at any time, without the lock.

`Scheduling` holds the pure part: `Before`, `Settled`, `Ready` and the layers are recursive
functions of the rounds they have gone, as many as there are sections, where the code
loops until nothing changes.  That a round per section is enough is part of what
`NothingCountsEarly` and `LayersAreSound` say.  `Clash` stands for overlapping owned paths.

The team guard and the plan admission before a record are checks that may only
refuse; a refusal of theirs is a `Die` here.

### 2.6 Processes: ProcessGroup, ChildProcess, HandoffChild

`ProcessGroup` is the part outside the source: processes fork, leave the group, close
or keep the pipes they inherited and die; one that got SIGKILL is doomed and
takes its time.  The supervisors add their own program counter.  `ChildProcess` is
`execute` with `_terminate`: one loop in which exit, deadline, cancellation and the
reader threads race, then the group is killed, whatever ended the wait, and the
readers are waited for only as long as their pipes may stay open.  `HandoffChild` is
`run_bounded_child`: SIGTERM, two seconds, SIGKILL, and a look through /proc taken entry
by entry, after which the call says that the end of the group is shown or that it is
not.  A process forked while /proc is read may escape that look; the property
says so.

### 2.7 Handoff and DetachedSetup

`Handoff` is written as scripts of checks in the order of the calls: `Script` lists
them for the privileged arm and for the verification of a stored receipt, and one
action is one look, since the source, the fixed authorities and the evidence may
drift between any two.  `fresh` collects what the source has been since the receipt
was written.  A process that verifies a receipt may answer or refuse; the frames it
exchanges are not modelled.

`DetachedSetup` holds the three slots config, state and progress, each absent, pending
(an object that names its inputs) or final, the directories and temporary files
around them, and the two locks as one.  `Reserve` and `Promote` are the exclusive
creations and the renames, `Agrees`, `Replayable`, `Permits` the conditions of each
step.  On some file systems the link count of a directory counts its files:
`countsFiles` is chosen at the start, as the identity of the root depends on it.

### 2.8 StateFirst

`rows` is `plan.md`, `status` is `status.json`, `snapshot` the tree of the last status write.
Setup, progress and the full suite work under the lock, with the look of
`_existing_plan` before it; reports look at plan, status and tree in the order the code
does, without the lock.  `Ran` is the end of a check or suite, minutes after its
start; `Edit` may change a file or a row at any time.  `proven` and `begun` are history.

### 2.9 The team around the board

`TeamSetup`: `init` remembers the board it is about to make, publishes its first
revision with the lease that no ref exists, links the discovery file and saves the
connection; `join` needs that file; `leave` and `abandon` end it.  `sent` holds pushes
nobody waits for any more.  There is one remote, so the pin of its address always
matches.  What happens to a board afterwards is `TeamBoard`'s.

`CheckoutIdentity`: the identity file of a worktree is written before the state that
uses it; older records are keyed by the place of the Git directory, and moving the
clone or adding and removing worktrees comes between.  `Load`, `WriteIdentity` and
`Save` are the three steps of `checkout`.

`PreparedPlan`: HEAD, index and worktree are read in separate steps; a workspace is
named by what it holds and where the checkout is, its marker names a commit, and a
ref keeps that commit from being pruned.  Workspaces of older releases have neither
a place nor a ref.  Edits of everything, commits, rewritten history, pruning and
moves come between any two steps.

`StepGuard`: `Observe` is the one read of the board by a command, `Judge` the decision on
each step by that observation, by the bindings of the clone and by the plan as it
is now; a change of the board is one step here, since `TeamBoard` shows how it is
published.  The advice is `team_dependencies`' list of warnings with the count of those
it leaves out.

### 2.10 Installer and SessionCache

`Installer`: a configuration is what others wrote to it and what it says of Forge; a
command reads it, replaces the cache (one step here, `PluginCache` shows how), stages a
new file, looks again whether the old one is as it was read, backs it up, looks
again and renames.  Codex and its user know of no lock, and the source may be
upgraded.

`SessionCache`: an analysis is a list of files to read and analyses to call.  `Compare`,
`ReadText`, `Verify`, `Store` follow `cached_analysis` and `read_text`: the signature of a file is taken
before it is read, an analysis is kept with the signatures of all it has read, those
of the nested ones included, and reused after all of them are compared, one by one.

### 2.11 Trials

`OwnedContainer` and `OracleExchange` are two protocols with a program outside: calls of
the Docker client that may be refused, lose their answer or be carried out later;
and a mailbox in which a request is written before its ready mark and a response
before its own.

`TrialAttempt`: preparation and reservation, the loading phase, the restoration of the
mutable roots, the writer phase and the freezing of what it wrote.  `alive` are
containers that outlived their phase, `roots` says who wrote to the mutable roots.
Phases may also be run by other callers, since they are commands of their own.

`TrialReview`: a history of assessments for each position, linked from its `trial.json`
after a comparison with what was read; packets, forms and applications; the report
is an operator of the disk, so it speaks of a report that nothing disturbs.

`SessionBreak`: while the second session of an attempt runs, the rest of the matrix is
shut by file modes, recorded first in `hidden-modes.json`.  Any command may be killed
between two changes of mode.  A session is a process session of its own (`execute`), so
`Kill` leaves the one the harness waited for at work, and one that cannot be stopped
outlives its deadline, its error or its interruption; both are in `orphans`, and stay there,
since nothing tells when they end.  An orphan may have written to the workspace of its
attempt whenever that is looked at (`Found`); that it writes to no other attempt is assumed,
as of every session: it is started in its own workspace and told of no other.  `Clear` is
the user who deletes the lock of a killed run, as its message says; the lock names the
harness only, so that orphans may be left (section 4 says what this means).  `judged` is what
of the workspace the verdict of an attempt speaks of.

`NativeMatrix`: there is no lock, so two commands and the agents of killed commands
share a row.  A tree is the stage the work is in and the red checkpoint it has;
`told` is history: which sessions of a row did as they were told.  The pins of models and
of their effort are left out.

## 3. Runs

| Run | Instance | Shows |
|---|---|---|
| `board_race` | two clones starting and recovering tasks on a v1 board that either may upgrade, 4 revisions, 2 attempts | `DiscardedNeverLands` and `ConsentIsExact` with late, lost and unheard pushes |
| `board_retry` | two clones, one attempt each, 3 revisions, fairness | `ExclusiveClaims`, `ReceiptSettles` |
| `board_plans` | one clone with two worktrees, a directory and a file in it, two plans, room for one binding, one leave | `BeliefWasPublished`, `LeaveIsClean`, refinement of `Reservations` with every mutation |
| `record_stranded` | one record | finding 1: a killed rollback recovery refuses |
| `settles` | cache: manifest and two files, 2 revisions of each, 3 kills or failures; plan: two sections, two processes, 2 edits, 2 faults; fairness | `SuccessIsFresh`, refinement of `InstalledPlugin`, `CacheConverges`, `RetryResolves` |
| `verification` | 3 captured or attested verifications with totals of 2 and 3, timeout 2, overrun 1, 1 edit, or 3 baselines and candidates of two commands without an allowance, 2 edits; 1 kill or failure | `SpendingCharged`, `NeverOverspent`, `PassesStand`, `PreservationShown`, `EvidenceKept` |
| `plan_records` | two commands of any mode, three sections, four indexes (chain, fork, circle, unknown predecessor), 1 edit, 2 kills or failed checks, one section with captured runs | `NothingCountsEarly`, `RunsSpeakForContracts`, `LayersAreSound`, `PendingWaitsForChecks`, refinement of `SectionLedger` |
| `plan_orphan` | two sections, 1 edit, fairness | finding 2: a pending section removed from the manifest |
| `endings` | a child with two descendants and one pipe, under either supervisor; a container; two threads of an oracle and two requests; 3 records of two contents with 3 faults and 2 drifts; fairness | `HonestOutcome`, `ExchangeIsFaithful`, `HonestAnswer`, `Answers`, `TransactionSettles`, refinement of `SectionStore`, `RollbackNeverPromotes` |
| `commands` | two commands of each of: handoff, detached root, state-first plan, board setup, checkout identity, prepared plan, step guard, installer, session cache | `HandoffHonest`, `SetupSound`, `FinalStands`, `CompleteIsTrue`, `OneBoard`, `WorkIsKept`, `PreparedIsRooted`, `StepsApart`, `InstallSound`, `ReuseIsFresh` |
| `trials` | two processes on a trial attempt, on reviews of two positions, on two session-break attempts with sessions that outlive them, on a native matrix | `SuiteHonest`, `SessionsHonest` |
| `state_first_race` | two setups of one state-first plan, 2 edits | finding 3: a begun section is forgotten |

Unions.  `MCEndings`, `MCCommands`, `MCTrials` and `MCSettles` check components that share no
state.  A behaviour is one of one of them: `which` is chosen in the initial state and
never changes, and the variables of the others keep their initial values.  So the
states of the components add up and do not multiply, no component is left out of
any interleaving it takes part in, and a property says of which component it speaks
(`HonestOutcome`, `Answers`, `SuiteHonest` and `SessionsHonest` are conjunctions over several).

Bounds.  A revision count of 4 leaves room for an initial board and three
published commits, which is what the longest board hazard needs: one commit in
flight, one that overtakes it, and one that reacts.  Two clones suffice for a race;
three only add further competitors, and the proofs remove the bound for the
safety properties they cover.  Two attempts let one automatic repetition happen.
For records, two contents give a first record, a re-record, and a re-record of an
earlier content, where the final pinner is adopted; three faults allow a kill in a
publication, one in its recovery and one in the recovery's rollback.  For the
cache, two edits of one file or one each of two are what a mixed copy needs, and
three kills reach every order of cache, recovery copy and temporary tree; the
proofs remove these bounds.  For verification, three commands are an outcome, one
that replaces it and one that meets what the second left; totals and timeouts are
chosen so that a grant can be cut to what remains, an overrun can exceed the total
and an extension can follow a kill.  For mutable plans, three sections in a chain
make the settling of stale sections take two rounds; one edit can fall into any step
of any command, and two faults are a pending section and a failed retry.  The plan is
lean, where each mode takes a different way; in others every mode but off runs the
postflight.

Two descendants are one that stays in the group and one that leaves it, or one that
forks while the other is looked at.  Two requests are the least in which one
response could go to the wrong one.  One handoff with two drifts lets something be
broken and repaired, or exchanged twice, between two looks; detached setups start from an
empty root or one set up and used before, and run three times: killed, repeated, and used; 3 state-first jobs are a setup, work and a
report, with two edits between.  Two boards and five setups let both clones begin,
one be overtaken, and each try again; identities need a worktree, a second one, a move and a
third record; four commits are an old history, a plan, its successor and a rewrite, with two
commands and two edits, three of these together.  The
step guard has a plan of two versions that move paths and inputs between sections, and
three changes: two bindings and one that takes one away.  Three installations are a
killed one, a repeated one and a check over two releases.  Two nested analyses read one
file on both sides of a call.  In the trials, three jobs are an attempt and two phases called
beside it, or an assessment, a packet and an application, and three moves of a native row are a
run, a kill and a second command.

`CHECK_DEADLOCK FALSE` is set because these systems may stop: with the bounds used up,
or nothing left to ask for, no command runs.  Clones, worktrees, commands and
processes are symmetric, and the symmetry sets are used only where no liveness
property is checked.

Fairness.  `board_retry`: every Git call has a timeout, so a command that holds the
lock runs on or dies (weak fairness); the operator of the steady clone repeats
`retry` while a receipt is unresolved, and such a retry is not cut off every
single time (strong fairness of the retry's steps).  Other clones owe nothing.
Without the strong fairness a retry may time out for ever, which the code
cannot exclude.

`endings`: the caller's thread runs and its clock advances, for both supervisors (weak
fairness of its steps, of the deadline and, for the handoff, of the two seconds
after SIGTERM); the child, its descendants, the daemon and the command in a container owe
nothing, and every call of the Docker client has a time limit.  The supervisor of the
oracle takes its steps, and the oracle has a deadline.  A command that holds the locks of a
record takes its steps (kills are bounded), some later command is run while a
transaction is left over, and drifted authorities, without which every command
refuses, are repaired in the end.  Drifted evidence is never assumed repaired.

`settles`: an update that holds the lock takes its steps (kills are bounded), and
updating is tried again; the source is assumed at rest only inside the property.
`settles` and `plan_orphan`: a command that holds the lock takes its steps, and whoever works on
the plan keeps recording each section in strict mode with a result of its own, as
`resume` asks (resume.py:34), and is not kept from the lock every time.  Edits and
faults are bounded, so in the end checks pass.

## 4. Findings

1. `record_stranded`.  A rollback that starts from the base with the candidate
   already staged renames `transaction.json` to `rollback.json` and then unlinks the
   staged `state.json` (transaction_io.py:677-691).  Killed in between, it leaves a
   rollback journal next to its exact stage, the exact base and the staged
   candidate.  `_Recovery.rollback` accepts a state temp only as the base against the
   candidate (recovery.py:73), so every later command refuses.  The protocol
   document asks for no more than the exact stage.  The tests start their
   rollbacks from a promoted candidate, when nothing is staged.
2. `plan_orphan`.  A section that is dropped from SECTION_MANIFEST while its completion
   waits for its checks stays in `pending_sections` for ever: recording it again is
   refused as `unknown-section` (workflows.py:385) and nothing else removes the entry,
   while flights.py:340 and state.py:293 keep asking for the retry and the
   integration postflight keeps failing.

3. `state_first_race`.  `setup` looks for a plan before it takes the state lock
   (state_first.py:626) and acts on that under the lock (state_first.py:642).  If
   another setup made the plan in between, its `status.json` is replaced, and a
   section that was begun meanwhile and whose row has been removed since is
   forgotten.  The skill says that active and done sections cannot leave the plan.

Observations without a run of their own.  When the forward recovery of a section record gives
up and its rollback succeeded, the error says that transaction artefacts were
retained (recovery.py:424); by then they have been removed.  And a plan edited
between the check of a receipt (workflows.py:421) and the snapshot of the contract
(workflows.py:436) is recorded with a contract its run never saw;
`RunsSpeakForContracts` leaves out edits under the recording command.

An edit of `plan.md` outside the target does not make the receipt of a full
suite stale, as only the tree of the target is compared; `CompleteIsTrue` speaks of
that tree.  A container that ends by itself between the look and the kill makes
`docker kill` fail (coding_trial_docker.py:233); the lifecycle is then `failed` and the
stopped container is left, which `CleanupIsTrue` allows because it is said.  An
assessment or a packet killed after its directory was made keeps that number, and the
next command refuses (coding_trial_assessment.py:201) until somebody removes the
directory.  A setting that is written between the last look at a configuration and
the rename is lost; `InstallSound` excludes exactly those.  A report of session-break
trials that is made while a run has shut other attempts counts those as pending;
`BreakSound` asks only that a report in which all have ended is right.

A harness that gets a SIGKILL during a second session leaves the session at work, since it
runs in a process session of its own (session_break_trials.py:319,
scripts/forge/child_process.py:120).  `run.lock` holds the pid of the harness alone
(session_break_trials.py:297), and its message lets the user delete it.  The next run restores
all modes (session_break_trials.py:305) and starts a session of the next attempt beside the
one that is left, which now can read what its first session left and every other
attempt.  The docstring of `hidden` promises that only its own paths stay readable while
session 2 runs, and that a later run restores the modes after a kill; after a kill of the
harness alone the code keeps the second promise and not the first.  The attempt that was left stays
`running` and counts nowhere, and `BreakSound` says as much: its conjunct about second
sessions speaks of those that a command waits for.  A session that could not be stopped is
checkpointed and judged like any other, since the harness does not look at
`termination_error`; it is in the stored result, and `BreakSound` speaks of what was judged
only where no session has one.

A resumption of a native row killed between moving the old workspace and copying the new
one leaves a row that no command takes up again.

`HonestAnswer` shows that finding 1 (`RollbackResumes`), and a `state.json` torn by a kill
inside its write, are the only states that our own commands leave and refuse.  The torn
file is covered by the protocol's "all other combinations retain and fail".

## 5. Proofs

Every theorem is of the form `Spec => []P`, or of a specification of steps that `P`
allows, for all values of the constants its assumption admits.  Each rests on an
inductive invariant that TLC checked on the instance of the run first.

Every safety property of a passing run is stated by a theorem.  Model-checked only: liveness
(`ReceiptSettles`, `CacheConverges`, `RetryResolves`, `Answers`, `TransactionSettles`), which is out
of the prover's reach.

### 5.1 TeamBoardProofs

For any number of clones, worktrees, paths, plans, attempts and revisions, from
`BoardAssumption` alone (the directories above a path form a chain; the bounds are
naturals):

- `TypeCorrect`: the type invariant (proved only: no run repeats it);
- `DroppedStaysOut`: a publication reported as not applied never lands;
- `ClaimsStayExclusive`: no path is ever reserved for two tasks;
- `ConsentStaysExact`: a consented change is built on the reviewed revision;
- `BeliefIsPublished`: what a checkout remembers was published;
- `LeavingIsClean`: a clone that left in order left nothing behind;
- `BoardImplementsReservations`: the refinement of `Reservations`.

The first four follow from one inductive invariant,

    IInv == TypeOK /\ History /\ Control /\ Holding /\ Verdicts /\ Dropped /\ Reviewed

`DiscardedNeverLands` is not inductive: that a dropped revision stays out depends on
why it was dropped.  `History` says that the parent of a commit was once the head
and that no landed commit hangs on the present head, so a commit overtaken once
can never pass its lease again.  `Holding` says that receipts name different
commits and that a publishing command names its own receipt.  `Verdicts` says what
a command may conclude at each program counter: contention means overtaken; a
denial on a first push means that nobody else has the commit.  `Dropped` is the
consequence for dropped revisions.  `Reviewed` says that each commit was checked
when it was written; with `History` that carries over to every board that landed.
`Control` ties the program counter to the request.  `NextInv` proves preservation
conjunct by conjunct, each split by action.

Leaving adds `LInv == Leavable /\ Accountable /\ Departures`: a clean departure is judged on a
snapshot, so every commit that would bring the clone to the board must be accounted
for, as landed, as dropped, or by a receipt the clone still has.  The refinement adds
`RInv == Traced /\ Numbered /\ Drawn /\ Unshared`: each commit differs from its parent by one
atomic reservation, and a generation it introduces was drawn by nobody before,
which is so because commits that carry it and did not land are out of reach.

### 5.2 PluginCacheProofs

For any set of files, any course of manifests and any number of edits, kills and
failures, from `CacheAssumption`:

- `TypeCorrect`: the type invariant, with the order in which leavings are dealt with;
- `UpdatesAreFresh`: success left a package the source was meanwhile, and nothing else;
- `UpdatesImplementPlugin`: the refinement of `InstalledPlugin`.

The invariant is `TypeOK /\ Places /\ (before the swap) \E s : Moment(s)`.  That the copy is a
package of one moment although it is made file by file cannot be seen from the
copy alone.  The source is read twice, hashed first and copied later, and its
revisions only grow.  Let `s` be the source at the moment the hashing ends: what was
hashed before is at most, and what is copied after at least, what `s` holds; when
`HeldStill` finds both equal, both are `s`.  `Moment(s)` says so of each step.

### 5.3 VerificationProofs

For any requests, totals, timeouts and overruns and any number of commands, edits,
kills and failures, from `VerificationAssumption`:

- `TypeCorrect`: the type invariant, and that what is pending is the grant of the
  command that has not settled it;
- `SpendingStaysCharged`: what runs drew stays charged;
- `TotalsHold`: together they draw no more than the total, but for overruns;
- `PassesWereEarned`: a pass that stands was run on the inputs it names, and its place has
  not been run since;
- `PreservationWasShown`: a pair that counts as complete had a baseline on the original
  source and later a candidate on the source as it is, by the same command and checks;
- `EvidenceIsKept`: what a run replaces is in the history.

For the allowance the invariant is `TypeOK /\ Control /\ Balance`.  `SpendingCharged` is not inductive:
a launch adds the grant to what is owed and leaves the ledger alone, so the seconds
reserved for a run that was not launched yet (`Held`) must be counted as if they were
drawn.  `Balance` says that what is owed and what is held together are charged, and that
only overruns ever charge more than the total.  `Control` says what a command knows at
each step; `Flow` lists how a step may move it, and the preservation lemmas split along it.

For the receipts it adds `SInv == Forward /\ Running /\ Receipting /\ Staged /\ Passes`.  What a command
saw, what it ran on and what it found afterwards are three moments; `Forward` orders
them, which works because contents never recur.  `Running` says that the last run is the
command's own, and `Receipting` where each receipt is while they are replaced one by one.
Writing this invariant down showed that `Later`, the runs a pass must survive, counted
runs of baselines and candidates, which write no receipt of a place; `PassesStand` now
leaves these out.

### 5.4 MutablePlanProofs

For any plans, modes and processes and any number of edits, kills and failed checks,
from `SchedulingAssumption` and `MutablePlanAssumption`:

- `TypeCorrect`: the type invariant (proved only, too), and that whoever runs is alone and
  works on the state as it is saved;
- `PendingStaysHeld`: `PendingWaitsForChecks`;
- `RecordsImplementLedger`: the refinement of `SectionLedger`, hence no lost record;
- `CountingWaits`: nothing counts that is held back, undecided, or comes after such;
- `ContractsAreSpokenFor`: a section that counts by a captured run counts for the plan
  that run was shown;
- `LayersHold`: the parallel layers are sound, and leave out just what can never be ready.

The invariant is `TypeOK /\ Saved(state) /\ Control`.  The ledger alone is not inductive, since
`Pass` writes what was computed from the state read long before: `Control` says
that at `gate` the saved state is still what the command itself published, and `TypeOK`
that before it is what the command read.  `StepEffect` then tells each step
by what it does to the state as it is saved, and both theorems read off it.  `PInv` adds
what a command was told about the plan and what each record keeps of it.

The last three theorems speak of loops.  That a loop over a graph has come to rest
after as many rounds as there are sections is proved by induction: the least round
with a counterexample (`Least`, from the well-foundedness of `<`) has one before it.  A
round that changes something adds or removes a section, so there are no more of them
than sections.  The attempt corrected `LayersAreSound`: a section in a circle that counts
as done already, because the index was edited after it was recorded, blocks nothing,
and the property had said that it does.

### 5.5 EndingsProofs

For any processes, pipes, threads and requests, from `EndingsAssumption` (the leader
is a process, no thread is called `nobody`, the number of requests is a natural):

- `OutcomesAreHonest`: `HonestOutcome`; a child said to have succeeded did, a group said to
  be gone is gone, a container said to be removed is;
- `ExchangeHolds`: `ExchangeIsFaithful`; a thread is answered only what it asked, once, and
  output without errors is complete.

`ChildInv` has that after SIGKILL every member of the group is doomed, so that none can
fork another one.  `GroupInv` is about the look through /proc: what was read by then (`known`) is
dead or gone, and stays so.  `ContainerInv` keeps what the daemon may still do apart from
what the caller was told.  `OracleInv` orders the mailbox: `AnsweredOnce`, `InOrder`,
`SavedSoFar` and `ClosedWell` relate each request to the thread that waits and to what
has been saved of it.

The second half is about `SectionRecord`; for any contents and any number of
records, kills, failures and drifts:

- `TypeCorrect`: the type invariant; no file is torn but those a crash may tear;
- `ReportsAreTrue`: `HonestAnswer`, and with it that each state a command leaves is one the
  next command accepts, finding 1 and the torn file apart;
- `AbortIsFinal`: once the intent to abort is durable nothing is promoted;
- `RecordIsAtomic`: the refinement of `SectionStore`.

The invariant is `Typed /\ Counted /\ Disk /\ Publication /\ Rollback /\ Ending`.  `HonestAnswer` speaks of
the end; a kill may come before.  `Disk` therefore lists the shapes a directory may have
whoever is at work: loose files before a journal, a published journal with the files
it speaks of, or the same with a rollback's.  `Publication` and `Rollback` say which of them a
command knows it has made, `Ending` what is left when it answers.  The refinement reads
off that only the removal of the journal changes what the root and its receipts
say to a reader.

### 5.6 TeamCommandsProofs

What clones share.  For any number of clones, setups, boards and revisions, from no
assumption, about `TeamSetup`:

- `SetupTypeCorrect`: the type invariant;
- `BoardsAreOne`: all who are connected share the board of the remote, and a board that
  came to be there can be joined unless its maker gave it up (`OneBoard`).

The invariant is `SetupInv`: `SetupTypes /\ BoardsNamed /\ SetupControl /\ BoardKnown` and what those know
who are connected or have the discovery file.  `OneBoard` speaks of
the board that is there, but a push nobody waits for decides later which one that is:
`Known` says that while there is none, whoever sent one still remembers it, which is
what `Reconcile` keeps when it cannot confirm.  `LandingKeeps` serves both ways a board lands.

And about the worktrees of a clone, prepared plans and steps of workflows, for any
worktrees, records, contents, tasks and warnings, from `CommandsAssumption`:

- `IdentityKeepsWork` (`WorkIsKept`): keys and numbers of records are distinct, but a key may
  be an older one that still has to be migrated.  `IdentityInv` says that no record under a
  new key is named like an older one that exists, and that what a killed command has
  prepared, or written of the identity, is for one worktree only (`SavesOwn`).
- `PlansStayRooted` (`PreparedIsRooted`): marker, ref and copies are three things, and HEAD,
  index and files are read one after the other.  `SpacesOK` says that a workspace stands on
  a commit that is kept and never changes what it stands for, `PlanCame` what a command has
  found to be so by each step, and which of it is so still if nobody interfered: a
  commit that was read may be rewritten and pruned until its ref is made.
- `StepsStayApart` (`StepsApart`): `BoardOK` has that held rows are disjoint, `TurnsOK` that each
  step was let go by a row of the board as its command had seen it, with advice that
  names or counts every group (`AdviceCounts`).

### 5.7 CommandsProofs

For any commands, inputs, rows, contents, releases, settings, analyses and files, from
`CommandsAssumption` (there is a first worktree and a first release, bounds are naturals,
no process is called `nobody`, tasks are finite, no part of a prepared plan's place is the
value for none).  The plan whose
sections move paths (`TwoVersions`) is part of `MCCommands` and stays as it is.

- `InstallationIsSound` (`InstallSound`): `Secured` says what a command has made sure of at each
  step whoever else is at work, `Undisturbed` what it knows while it has the files for
  itself.  `Materialize` had two guards that overlap when a dry run finds something to do;
  the attempt showed that the value was then unspecified, and it now says what
  installation.py does.
- `CompletenessIsTrue` (`CompleteIsTrue`): what a suite or a check has shown at its end speaks
  of what was read minutes before.  `Relies` says what the caller that holds the lock may
  count on meanwhile, `Earned` that an entry keeps its evidence, `Found` that a report that
  looks without the lock repeats only what was shown.
- `SetupIsSound` (`SetupSound`) and `FinalsStand` (`FinalStands`).  Of the root, `SetupInv` has that some
  one set of inputs fits every slot (`OneSet`) and that slots are filled, and become final,
  in their order, the last one being reserved before the first is final (`InOrder`).  Of
  each command it has that only the one with the lock is past the step that takes it,
  and what must hold at the step where it stands (`SetupCame`, `ProgressCame`): that is what
  lets a setup killed anywhere be finished by the next one with the same inputs.
  `HalfDone` ties the temporary file to the slot it will replace, so that a rename reaches a
  slot that is empty or pending, never a final one.
- `HandoffStaysHonest` (`HandoffHonest`): the command is a script of 67 steps, or of 28 when a
  receipt is stored already, between any of which the target may be moved, committed to or
  edited.  `HandoffCame` and `StoredCame` say from which step on each fact holds: whose receipt
  it has, what is stored, and since when the commit and the files it looks at are those
  the target had after the write.  `HandoffSteps` reads the scripts once and for all.
- `ReuseStaysFresh` (`ReuseIsFresh`): analyses nest, and what an inner one read is told to the one
  that waits for it, also when it was not run but reused.  `FrameOK` and `EntryOK` say of each
  what it read, and at which moment at the latest; `After` orders the moments down the
  stack.  A reuse compares what was read with what is there now, so some moment since the
  call has all of it at once (`Witnessed`).  `Joined` is written out as a function for these proofs.

### 5.8 TrialsProofs

For any commands, rows and bounds, from `TrialsAssumption` (no process is called as the lock
is when nobody has it, a suite has a first row, and `--resume-host` takes the names of the
two hosts, native_workflow_trials.py:345):

- `AttemptsStaySound`: the half of `SuiteHonest` about attempts;
- `SuitesStayHonest`: `SuiteHonest`;
- `BreaksStaySound`: the half of `SessionsHonest` about session-break attempts;
- `SessionsStayHonest`: `SessionsHonest`.

Of an attempt, `TrialKnows` says that whoever is in a phase has the lock, and what it knows
there.  A lock left by a kill is never taken again, and the directory of a phase is
made once; hence when the writer begins the loading is over, its containers are gone and
the roots are restored (`LoadingIsOver`), and that stays so.

Of the assessments, a number of a history is claimed by its folder: of the commands that
may still link one to it, one at most has read the history as it is (`NumbersApart`), so
whoever links appends.  `HistorySound` is about each entry: what it says of the behavior receipt
that was the latest then.  It survives `Append` for entries that were assessed against the
history they are linked to (`HistoryGrows`).  The report needs no invariant of the
applications beyond that: an entry that passed a candidate on the latest packets is followed
by reviews only, since a check would have changed the behavior it speaks of.

Of the session-break attempts, everything is under one lock, so `BreakKnows` only has to say
of each place what is done and what is still hidden; `ShutOK` is what recovery needs: what is
shut is in the record of modes, and as open there as it was.  Of orphans it is enough to
know whose they are.  Who is at an attempt and has seen no error knows that no orphan is at
its workspace, unless a session of it was recorded as one that could not be stopped: a session
becomes an orphan only by that, by an error, by an interruption or by a kill
(`BreakAbandons`), after which the attempt ends with an error or never.

Nothing locks the native matrix, and its result file is no claim: two commands may read it,
and both write it.  What claims a row is the directory of its first phase, which can be made
once.  `MatrixInv` builds on that: `Owning` is who made it, `Crossing` who moved the workspace
aside for the other host, and of those there is one at most (`Parted`).  A row is `Settled` when
nobody owns it any more; `Past`, which is what lets another host in, implies that, and so
whoever crosses finds neither a session nor an agent of the first host left.  `RowSays`
traces each result back to what was said of its sessions, in their order, and `Grasps` says
what the command at work knows of that; since versions only grow, a session that finds
the package as prepared at its end had it so from the beginning.  `MatrixSteps` shows once
that a step at one row hurts no other command, and each action is an instance of it.
The lists of rows and how much may happen to each are those of `MCTrials!Moves`; of a list
the proof uses only that it is a non-empty sequence of numbers, and of the bounds nothing.

## 6. Not modelled

Of the team board: the rule about readers of one plan, the private Git refs that
keep pending commits alive, the cached board an offline status shows, row labels,
path aliases by inode or symlink, the branch and head check of `team check`, the
capacity of the session table of a clone, rewritten history
(`team-write-unknown`), a commit object left dangling by a death before its receipt
is saved, the timeout of the clone's lock (a command that does not get it changes
nothing).  Of its setup: several remotes and the change of their addresses.  Of
prepared plans: which links belong to the closure of a plan (a content is sharable
or not), symbolic links and modes of what is copied.  Of the step guard: how paths
alias each other on disk.

Of section records: predecessors in other sections, which are only a check that
may fail; privileged evidence; states that only interference from outside can
produce (both journals, a third root state, a final pinner deleted under a
candidate), on which recovery stops; loss of power, since every durable step is
followed by an fsync and a kill is what the code distinguishes.  Of the detached
root: which section comes next, the wording of answers.  Of the handoff: the bytes
of the frames and their second implementation (`unit12_adapter`).

Of the plugin cache: the refusal of overlapping or symbolic paths, the timeout of
its lock.  Of installation: the report of the doctor, the plugin of Claude Code, the
detection of hosts, the TOML text itself.

Of verification: the parsing and validation of stored receipts, the diagnosis of
which input changed, the team guard before a run, receipts of state-first plans.

Of mutable plans: setup and preparation, the change of the target, legacy records
without a contract, code observations (reported, never refused on), review status
and compatibility evidence of a record (checks that may only refuse), traceability,
the progress event log and the resume brief, parsing of the index and of owned paths,
`unknown-section-ownership`, the timeout of the lock.  Of state-first plans: notes,
drafts and the wording of rows.

Of child processes: Windows.  Of the session cache: its capacity (an entry that is
evicted is computed again) and the capture of output.

Of the trials: the validation of manifests, evidence and events, Git audits, the
outcome tables, the resumption of an attempt, prompts and the events of hosts, blind
reviews of session-break trials, model pins, the smoke test.  Of a session-break session:
descendants that leave its process group and close its pipes, which nobody sees, and
writes outside its own attempt.

Model providers, planning artifacts and their analysis, the command line and the
release scripts: they read, render or dispatch, and keep no state whose order
matters.  Everything else is listed in `PROJECT.json` with its reason.

## 7. Plan

1. Done: the modules of section 2 and the eight proof modules.
2. Done: a theorem for every safety property of the runs.
3. The resumption of trial attempts (`coding_trial_resume`) on top of `TrialAttempt`, and
   the native preparation and qualification before it.
4. The setup of mutable plans and its redirection to detached and state-first ones
   (`workflows`), with the flights and gates that read their states.
5. The details of `secure_io`: which replacement survives which kill.

Each later module gets its own property and a place in one of the unions of section 3,
and where it keeps promises to others an abstract module it implements.
