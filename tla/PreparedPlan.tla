---------------------------- MODULE PreparedPlan ----------------------------
(***************************************************************************)
(* Prepared plans (team_plans.py): the contract of a team plan is taken    *)
(* from the commit HEAD names, held against index and worktree, and copied *)
(* into a private workspace whose name is bound to content and checkout; a *)
(* ref keeps the commit its marker names.  Every use validates it all      *)
(* again.  Users edit, commit, rewrite history, prune and move the         *)
(* checkout while commands run, and any command may be killed.             *)
(***************************************************************************)
EXTENDS Naturals, Sequences, FiniteSets

CONSTANTS Callers, Absent,
          Contents,      \* versions of the canonical plan directory
          Sharable,      \* contents whose closure _bundle accepts ...
          Reviewed,      \* ... and whose copy is a complete reviewed plan
          Places,        \* where the checkout may be
          MaxCommits, MaxPlanJobs, MaxPlanEdits,   \* bounds of a run
          MaxTogether                              \* ... and of jobs and edits together

VARIABLES commits,       \* content of each commit ever made
          line, pruned,  \* commits HEAD reaches; objects that are gone
          index, files,  \* content of index and worktree
          place,
          refs,          \* refs/forge/plan-sources
          spaces,        \* workspaces under forge-plans, by their key
          proc, planUsed
git      == <<commits, line, pruned, index, files, place>>
planVars == <<git, refs, spaces, proc, planUsed>>

Legacy == "legacy"
\* Keys: bound to the checkout, or (earlier releases) to the content alone.
Keys       == [at : Places \cup {Legacy}, content : Contents]
Key(p, d)  == [at |-> p, content |-> d]
\* A marker, and whether marker and copies are as they were published.
Space(p, n)   == [place |-> p, commit |-> n, intact |-> TRUE]
HEAD             == line[Len(line)]
Reached       == {line[i] : i \in 1..Len(line)}
Idle == [job |-> "none", at |-> "idle", head |-> 0, key |-> Key(Legacy, 0), step |-> "none",
         found |-> 0, quiet |-> TRUE, writes |-> "private"]
Outputs == {"private", "contract"}   \* where a command's output goes

(* Releases before this one named workspaces after the content alone and   *)
(* kept no ref, so what such a marker names may have been rewritten since. *)
PlanInit ==
    /\ commits = <<1, 1>> /\ line \in {<<1, 2>>, <<2>>} /\ pruned = {}
    /\ index = 1 /\ files = 1 /\ place \in Places /\ refs = {}
    /\ \E old \in {Absent} \cup {Space(p, 1) : p \in Places} :
          spaces = [k \in Keys |-> IF k = Key(Legacy, 1) THEN old ELSE Absent]
    /\ proc = [c \in Callers |-> Idle] /\ planUsed = [jobs |-> 0, edits |-> 0]

At(c, where)   == proc[c].at = where
Step(c, new)   == proc' = [proc EXCEPT ![c] = new]
GoTo(c, where) == proc' = [proc EXCEPT ![c].at = where]
Fails(c)       == Step(c, Idle)
Answers(c)     == Step(c, [proc[c] EXCEPT !.at = "done", !.head = 0, !.step = "none",
                                          !.writes = "private"])
Exists(n)      == n \notin pruned
Room           == planUsed.jobs + planUsed.edits < MaxTogether

-----------------------------------------------------------------------------
(* team prepare, or a command that is given a prepared workspace. *)
Begin(c) ==
    /\ proc[c].at \in {"idle", "done"} /\ planUsed.jobs < MaxPlanJobs /\ Room
    /\ planUsed' = [planUsed EXCEPT !.jobs = @ + 1]
    /\ \/ Step(c, [Idle EXCEPT !.job = "prepare", !.at = "tree", !.step = "look"])
       \/ \E k \in Keys : spaces[k] # Absent /\ \E o \in Outputs :
             Step(c, [Idle EXCEPT !.job = "check", !.at = "marker", !.key = k, !.writes = o])
    /\ UNCHANGED <<git, refs, spaces>>

(* _bundle: HEAD is resolved once and its tree never changes; index and    *)
(* worktree are read after it, one after the other.                        *)
ReadTree(c) ==
    /\ At(c, "tree")
    /\ IF commits[HEAD] \in Sharable THEN Step(c, [proc[c] EXCEPT !.at = "index", !.head = HEAD])
                                     ELSE Fails(c)
    /\ UNCHANGED <<git, refs, spaces, planUsed>>

Content(c)    == commits[proc[c].head]
ReadIndex(c) ==
    /\ At(c, "index")
    /\ IF index = Content(c) THEN GoTo(c, "files") ELSE Fails(c)
    /\ UNCHANGED <<git, refs, spaces, planUsed>>

ReadFiles(c) ==
    /\ At(c, "files")
    /\ IF files = Content(c) THEN GoTo(c, proc[c].step) ELSE Fails(c)
    /\ UNCHANGED <<git, refs, spaces, planUsed>>

Bound(c) == Key(place, Content(c))
Look(c) ==
    /\ At(c, "look")
    /\ LET old == Key(Legacy, Content(c)) IN
       IF spaces[Bound(c)] # Absent THEN Step(c, [proc[c] EXCEPT !.at = "marker", !.key = Bound(c)])
       ELSE IF spaces[old] # Absent THEN Step(c, [proc[c] EXCEPT !.at = "marker", !.key = old])
       ELSE GoTo(c, "stage")
    /\ UNCHANGED <<git, refs, spaces, planUsed>>

-----------------------------------------------------------------------------
(* _validate: a legacy workspace that was made elsewhere, or whose source  *)
(* is gone, is recognised by prepare only and yields no descriptor.        *)
Relocated(k) == spaces[k].place # place
Recovers(c, k) == proc[c].job = "prepare" /\ proc[c].step = "look" /\ k.at = Legacy

ReadMarker(c) ==
    /\ At(c, "marker")
    /\ LET k == proc[c].key IN
       IF /\ spaces[k] # Absent /\ spaces[k].intact /\ k.at \in {place, Legacy}
          /\ Relocated(k) => Recovers(c, k)
       THEN Step(c, [proc[c] EXCEPT !.at = "tree",
                                    !.step = IF Recovers(c, k) THEN "recover" ELSE "source"])
       ELSE Fails(c)
    /\ UNCHANGED <<git, refs, spaces, planUsed>>

Source(c)  == spaces[proc[c].key].commit
\* Where a validated descriptor (or none) leads to.
Admits(c, found) ==
    IF proc[c].job = "check" THEN Step(c, [proc[c] EXCEPT !.at = "admitted", !.found = found])
    ELSE IF found = 0 THEN GoTo(c, "stage")
    ELSE Step(c, [proc[c] EXCEPT !.at = "retain", !.found = found])

\* The digest, the recorded source, and every copy against what HEAD holds.
CompareCopies(c) ==
    /\ proc[c].at \in {"source", "recover"}
    /\ LET k       == proc[c].key
           missing == ~Exists(Source(c))
           lenient == At(c, "recover")
       IN  IF /\ k.content = Content(c) /\ (missing => lenient)
              /\ ~missing => commits[Source(c)] = Content(c)
              /\ spaces[k].intact /\ Content(c) \in Reviewed
           THEN Admits(c, IF missing \/ Relocated(k) THEN 0 ELSE Source(c))
           ELSE Fails(c)
    /\ UNCHANGED <<git, refs, spaces, planUsed>>

-----------------------------------------------------------------------------
(* A new workspace is staged aside; its source is retained before it is    *)
(* renamed into place, and whoever comes second uses what is there.        *)
Stage(c) ==
    /\ At(c, "stage")
    /\ IF Content(c) \in Reviewed THEN GoTo(c, "root") ELSE Fails(c)
    /\ UNCHANGED <<git, refs, spaces, planUsed>>

Roots(n) == IF Exists(n) THEN refs \cup {n} ELSE refs
RetainSource(c) ==
    /\ At(c, "root") /\ refs' = Roots(proc[c].head)
    /\ IF Exists(proc[c].head) THEN GoTo(c, "rename") ELSE Fails(c)
    /\ UNCHANGED <<git, spaces, planUsed>>

\* Slip: the workspace records the commit HEAD names by now.
RecordedSlip(c) == HEAD
Recorded(c)     == proc[c].head

Publish(c) ==
    /\ At(c, "rename")
    /\ spaces' = IF spaces[Bound(c)] = Absent
                 THEN [spaces EXCEPT ![Bound(c)] = Space(place, Recorded(c))] ELSE spaces
    /\ Step(c, [proc[c] EXCEPT !.at = "marker", !.key = Bound(c), !.step = "source"])
    /\ UNCHANGED <<git, refs, planUsed>>

RetainDescribed(c) ==
    /\ At(c, "retain") /\ refs' = Roots(proc[c].found)
    /\ IF Exists(proc[c].found) THEN Answers(c) ELSE Fails(c)
    /\ UNCHANGED <<git, spaces, planUsed>>

(* command_guard: authoring is refused inside a prepared workspace, and     *)
(* output goes to its private execution files only.                        *)
MutablePath(output) == output # "contract"

CommandGuard(c) ==
    /\ At(c, "admitted")
    /\ IF MutablePath(proc[c].writes)
       THEN /\ spaces' = IF proc[c].writes = "contract" /\ spaces[proc[c].key] # Absent
                         THEN [spaces EXCEPT ![proc[c].key].intact = FALSE] ELSE spaces
            /\ Answers(c)
       ELSE Fails(c) /\ UNCHANGED spaces
    /\ UNCHANGED <<git, refs, planUsed>>

Kill(c) == /\ proc[c].at \notin {"idle", "done"} /\ Step(c, Idle)
           /\ UNCHANGED <<git, refs, spaces, planUsed>>

Command(c) == \/ ReadTree(c) \/ ReadIndex(c) \/ ReadFiles(c) \/ Look(c) \/ ReadMarker(c)
              \/ CompareCopies(c) \/ Stage(c) \/ RetainSource(c) \/ Publish(c) \/ RetainDescribed(c)
              \/ CommandGuard(c)

-----------------------------------------------------------------------------
(* The people who share the repository. *)
Disturbs == /\ planUsed.edits < MaxPlanEdits /\ Room
            /\ planUsed' = [planUsed EXCEPT !.edits = @ + 1]
            /\ proc' = [c \in Callers |-> [proc[c] EXCEPT !.quiet = FALSE]]

EditFiles == /\ Disturbs /\ \E d \in Contents : d # files /\ files' = d
             /\ UNCHANGED <<commits, line, pruned, index, place, refs, spaces>>
Add       == /\ index # files /\ index' = files /\ Disturbs
             /\ UNCHANGED <<commits, line, pruned, files, place, refs, spaces>>
\* With everything that was edited, as commit -a does it.
New       == Len(commits) < MaxCommits /\ commits' = Append(commits, files) /\ index' = files
Commit    == /\ New /\ line' = Append(line, Len(commits) + 1) /\ Disturbs
             /\ UNCHANGED <<pruned, files, place, refs, spaces>>
Rewrite   == /\ New /\ line' = [line EXCEPT ![Len(line)] = Len(commits) + 1] /\ Disturbs
             /\ UNCHANGED <<pruned, files, place, refs, spaces>>
Prune     == /\ pruned' = 1..Len(commits) \ (Reached \cup refs) /\ pruned' # pruned /\ Disturbs
             /\ UNCHANGED <<commits, line, index, files, place, refs, spaces>>
\* Commands run inside the checkout: it is moved between them.
Move      == /\ \A c \in Callers : proc[c].at \in {"idle", "done"}
             /\ \E p \in Places : p # place /\ place' = p
             /\ Disturbs /\ UNCHANGED <<commits, line, pruned, index, files, refs, spaces>>
EditCopy  == /\ \E k \in Keys : /\ spaces[k] # Absent
                                /\ spaces' = [spaces EXCEPT ![k].intact = ~@]
             /\ Disturbs /\ UNCHANGED <<git, refs>>

PlanNext == \/ \E c \in Callers : Begin(c) \/ Command(c) \/ Kill(c)
            \/ EditFiles \/ Add \/ Commit \/ Rewrite \/ Prune \/ Move \/ EditCopy

-----------------------------------------------------------------------------
(* team_plans.py, _retain_source: "A marker alone is not a Git             *)
(* reachability root".  Whatever was killed, rewritten or pruned, the      *)
(* commit of every workspace of this release exists, holds the content the *)
(* workspace is named after, and is kept by a ref; so is the commit of     *)
(* every legacy workspace prepare has answered with.  And an answer speaks *)
(* of one content: if nobody interfered, HEAD, index, worktree, copies and *)
(* descriptor all agree.  No command of Forge itself changes a copy.       *)
Rooted(n, d) == n \in refs /\ Exists(n) /\ commits[n] = d
PreparedIsRooted ==
    /\ \A k \in Keys : k.at # Legacy /\ spaces[k] # Absent =>
          Rooted(spaces[k].commit, k.content) /\ k.content \in Reviewed /\ spaces[k].place = k.at
    /\ planUsed.edits = 0 => \A k \in Keys : spaces[k] # Absent => spaces[k].intact
    /\ \A c \in Callers : At(c, "done") =>
          LET k == proc[c].key IN
          /\ spaces[k] # Absent /\ spaces[k].commit = proc[c].found
          /\ proc[c].job = "prepare" => Rooted(proc[c].found, k.content)
          /\ proc[c].quiet => /\ spaces[k].intact /\ k.at \in {place, Legacy}
                              /\ {commits[HEAD], index, files, commits[proc[c].found]} = {k.content}
=============================================================================
