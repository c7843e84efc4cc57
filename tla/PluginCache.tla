---------------------------- MODULE PluginCache ----------------------------
(***************************************************************************)
(* Replacement of the installed plugin (materialize_plugin_cache).  The    *)
(* source is read file by file while it may be edited; the copy replaces   *)
(* the cache by two renames; a kill may fall between any two steps, and    *)
(* the next update first repairs what the last one left.  A lock admits    *)
(* one update at a time.                                                   *)
(*                                                                         *)
(* A tree gives each name the revision of that file it holds, 0 for none.  *)
(* The manifest is a file of the package and says which others belong to   *)
(* it; the content of manifest revision r declares Declares[r].            *)
(***************************************************************************)
EXTENDS Naturals

CONSTANTS Manifest, Files,  \* the manifest and the other names of the plugin
          Declares,         \* Declares[r]: the files manifest revision r lists
          MaxRevision,      \* bound: revisions of one file
          MaxFaults         \* bound: kills and failing calls

Names     == Files \cup {Manifest}
Revisions == 1..MaxRevision
Trees     == [Names -> 0..MaxRevision]

ASSUME CacheAssumption ==
  /\ Manifest \notin Files
  /\ MaxRevision \in Nat \ {0} /\ MaxFaults \in Nat
  /\ Declares \in [Revisions -> SUBSET Files]

VARIABLES source,     \* the plugin's source tree, which others edit
          cache,      \* the installed tree
          previous,   \* .cache.previous, the recovery copy
          temporary,  \* .cache.tmp-*, a copy in the making or left behind
          proc,       \* the update that holds the lock, or how the last one ended
          offered,    \* history: packages the source has been since it began
          faults      \* kills and failures so far

\* (Operators called ...Slip are mistakes such code could make, none of them
\* part of the specification: each breaks a property of this module.)
vars == <<source, cache, previous, temporary, proc, offered, faults>>

-----------------------------------------------------------------------------
\* A directory that is not there, or was emptied: os.replace goes over either.
NoTree == [n \in Names |-> 0]
Members(revision) == {Manifest} \cup Declares[revision]

\* What plugin_tree_fingerprint sees of a tree: the members its manifest names.
Package(tree) ==
  [n \in Names |-> IF n \in Members(tree[Manifest]) THEN tree[n] ELSE 0]

Complete(tree) == \A n \in Members(tree[Manifest]) : tree[n] # 0

Init ==
  /\ source = [n \in Names |-> IF n \in Members(1) THEN 1 ELSE 0]
  /\ cache \in {NoTree, source}
  /\ previous = NoTree /\ temporary = NoTree
  /\ proc = [pc |-> "idle", left |-> {}, seen |-> NoTree]
  /\ offered = {source} /\ faults = 0

At(pc)   == proc.pc = pc
Goto(pc) == proc' = [proc EXCEPT !.pc = pc]
Running  == ~At("idle") /\ ~At("done")

\* Somebody edits a file of the source, or adds one; contents do not recur.
Edit(n) ==
  /\ source[n] < MaxRevision
  /\ source' = [source EXCEPT ![n] = @ + 1]
  /\ offered' = offered \cup {Package(source')}
  /\ UNCHANGED <<cache, previous, temporary, proc, faults>>

-----------------------------------------------------------------------------
(* Repair what a killed update left, before looking at the source.         *)

Begin ==
  /\ ~Running
  /\ proc' = [pc |-> "repair", left |-> {}, seen |-> NoTree]
  /\ offered' = {Package(source)}
  /\ UNCHANGED <<source, cache, previous, temporary, faults>>

\* rmtree removes one file after the other, and may be cut short.
Remove(n) ==
  /\ (At("repair") /\ cache # NoTree) \/ At("drop")
  /\ previous[n] # 0
  /\ previous' = [previous EXCEPT ![n] = 0]
  /\ UNCHANGED <<source, cache, temporary, proc, offered, faults>>

\* A recovery copy without a cache takes its place again.
Restore == cache' = previous /\ previous' = NoTree

Repair ==
  /\ At("repair") /\ previous # NoTree /\ cache = NoTree
  /\ Restore
  /\ UNCHANGED <<source, temporary, proc, offered, faults>>

\* Slip: an abandoned copy, which nobody removes, stands in the way.
BlockedSlip == previous = NoTree /\ temporary = NoTree
Repaired == previous = NoTree

Sweep ==
  /\ At("repair") /\ Repaired
  /\ temporary' = NoTree
  /\ Goto("declare")
  /\ UNCHANGED <<source, cache, previous, offered, faults>>

-----------------------------------------------------------------------------
(* plugin_cache_status: compare source and cache.                          *)

\* The manifest is read by itself first; every member must be there.
Declare ==
  /\ At("declare") /\ Complete(source)
  /\ proc' = [proc EXCEPT !.pc = "scan", !.left = Members(source[Manifest])]
  /\ UNCHANGED <<source, cache, previous, temporary, offered, faults>>

Scan(n) ==
  /\ At("scan") /\ n \in proc.left
  /\ proc' = [proc EXCEPT !.left = @ \ {n}, !.seen[n] = source[n]]
  /\ UNCHANGED <<source, cache, previous, temporary, offered, faults>>

\* Equal digests and no undeclared entry in the cache.
Alike == proc.seen = cache

Compare ==
  /\ At("scan") /\ proc.left = {}
  /\ Goto(IF Alike THEN "done" ELSE "open")
  /\ UNCHANGED <<source, cache, previous, temporary, offered, faults>>

-----------------------------------------------------------------------------
(* Copy, check that the source held still, and swap the trees.             *)

\* The temporary directory is made and the manifest read again.
Open ==
  /\ At("open")
  /\ proc' = [proc EXCEPT !.pc = "copy", !.left = Members(source[Manifest])]
  /\ UNCHANGED <<source, cache, previous, temporary, offered, faults>>

\* copytree takes the allowed files that exist when it comes to them.
Copy(n) ==
  /\ At("copy") /\ n \in proc.left
  /\ temporary' = [temporary EXCEPT ![n] = source[n]]
  /\ proc' = [proc EXCEPT !.left = @ \ {n}]
  /\ UNCHANGED <<source, cache, previous, offered, faults>>

\* Slip: the copy is trusted.
HeldStillSlip == TRUE
\* The copy's own package must be the one that was compared with the cache.
HeldStill == Package(temporary) = proc.seen

Check ==
  /\ At("copy") /\ proc.left = {} /\ HeldStill
  /\ Goto("retire")
  /\ UNCHANGED <<source, cache, previous, temporary, offered, faults>>

Retire ==
  /\ At("retire")
  /\ IF cache = NoTree THEN UNCHANGED <<cache, previous>>
     ELSE previous' = cache /\ cache' = NoTree
  /\ Goto("publish")
  /\ UNCHANGED <<source, temporary, offered, faults>>

Publish ==
  /\ At("publish")
  /\ cache' = temporary /\ temporary' = NoTree
  /\ Goto("drop")
  /\ UNCHANGED <<source, previous, offered, faults>>

\* Slip: return as soon as the new tree is in place.
DroppedSlip == At("drop")
\* The recovery copy is removed last (Remove), then the update is done.
Dropped == At("drop") /\ previous = NoTree

Finish ==
  /\ Dropped /\ Goto("done")
  /\ UNCHANGED <<source, cache, previous, temporary, offered, faults>>

-----------------------------------------------------------------------------
(* Refusals, failing calls and kills.                                      *)

\* An error inside the with block removes the temporary directory.
Cleaned ==
  temporary' = IF proc.pc \in {"copy", "retire", "publish"} THEN NoTree ELSE temporary

\* The source is incomplete, or did not hold still.
Refuse ==
  /\ \/ At("declare") /\ ~Complete(source)
     \/ At("copy") /\ proc.left = {} /\ ~HeldStill
  /\ Cleaned /\ Goto("idle")
  /\ UNCHANGED <<source, cache, previous, offered, faults>>

\* A call fails.  A failed publication puts the cache back, if that works.
Fail ==
  /\ Running /\ faults < MaxFaults
  /\ \/ At("publish") /\ previous # NoTree /\ Restore
     \/ UNCHANGED <<cache, previous>>
  /\ Cleaned /\ Goto("idle")
  /\ faults' = faults + 1
  /\ UNCHANGED <<source, offered>>

Kill ==
  /\ Running /\ faults < MaxFaults
  /\ Goto("idle")
  /\ faults' = faults + 1
  /\ UNCHANGED <<source, cache, previous, temporary, offered>>

Step ==
  \/ Repair \/ Sweep \/ Declare \/ Compare \/ Open \/ Check \/ Retire \/ Publish
  \/ Finish \/ Refuse
  \/ \E n \in Names : Remove(n) \/ Scan(n) \/ Copy(n)

Next == Begin \/ Step \/ Fail \/ Kill \/ \E n \in Names : Edit(n)

Spec == Init /\ [][Next]_vars

\* An update that holds the lock takes its steps, and somebody updates again.
Fairness == WF_vars(Step) /\ WF_vars(Begin)
FairSpec == Spec /\ Fairness

-----------------------------------------------------------------------------
(* Its properties. *)

\* Trees of known names and revisions; an update looks at the source only after
\* everything an earlier one left has been dealt with.
TypeOK ==
  /\ source \in Trees /\ cache \in Trees /\ previous \in Trees /\ temporary \in Trees
  /\ proc \in [pc : {"idle", "repair", "declare", "scan", "open", "copy", "retire",
                     "publish", "drop", "done"},
               left : SUBSET Names, seen : Trees]
  /\ source[Manifest] # 0
  /\ proc.pc \in {"declare", "scan", "open"} => previous = NoTree /\ temporary = NoTree
  /\ offered \subseteq Trees /\ faults \in 0..MaxFaults

\* The tree a user has, or gets back from the next update (installed cache, else
\* its recovery copy), is at all times a package the source once was as a
\* whole, although it is copied file by file from a source that is being
\* edited; it is replaced only by a newer one that the source was during that
\* update, and no kill or failure loses it.
Installed == IF cache # NoTree THEN cache ELSE previous
Plugin == INSTANCE InstalledPlugin
            WITH Packages <- Trees, Nothing <- NoTree,
                 package <- Package(source), installed <- Installed
ImplementsPlugin == Plugin!Spec

\* An update that reports success left a package the source was while it ran,
\* and nothing beside it: neither a recovery copy nor a temporary tree.
SuccessIsFresh ==
  proc.pc = "done" => cache \in offered /\ previous = NoTree /\ temporary = NoTree

\* When the source rests in a complete state, updating it again installs it,
\* whatever killed updates left behind.
Converges == <>[]Complete(source) => <>[](cache = Package(source))
=============================================================================
