------------------------- MODULE PluginCacheProofs -------------------------
(***************************************************************************)
(* TLAPS proofs about the plugin cache, for every set of files, every      *)
(* course of manifests and any number of edits and kills.  A copy made     *)
(* file by file equals a package the source was as a whole, because the    *)
(* source is read twice: revisions only grow, so what was read before some *)
(* moment is at most, and what was copied after it at least, what the      *)
(* source held then; if both agree it held exactly that.                   *)
(***************************************************************************)
EXTENDS PluginCache, TLAPS

AtMost(t, s) == \A n \in Names : t[n] <= s[n]

\* The files of some manifest, all but left, were read one by one into t after
\* the source was s and before it became now.
Read(s, t, left, now) ==
  \E r \in Revisions :
    /\ s[Manifest] <= r /\ r <= now[Manifest]
    /\ Manifest \in left \/ r <= t[Manifest]
    /\ left \subseteq Members(r)
    /\ \A n \in Names : n \in Members(r) \ left => s[n] <= t[n] /\ t[n] <= now[n]
    /\ \A n \in Names : n \notin Members(r) \ left => t[n] = 0

\* s is a state of the source during this update, as old as what was read and
\* as new as what is installed.
Moment(s) ==
  /\ s \in Trees /\ s[Manifest] # 0
  /\ Package(s) \in offered
  /\ AtMost(s, source) /\ AtMost(cache, s) /\ AtMost(previous, s)
  /\ At("scan") => Read(s, proc.seen, proc.left, source)
  /\ At("open") \/ At("copy") => AtMost(proc.seen, s)
  /\ At("copy") => Read(s, temporary, proc.left, source)
  /\ At("retire") \/ At("publish") => temporary = Package(s)

Before == {"repair", "declare", "scan", "open", "copy", "retire", "publish"}

\* Where the trees are at each step.
Places ==
  /\ AtMost(cache, source) /\ AtMost(previous, source)
  /\ proc.pc \in {"copy", "retire", "done"} => previous = NoTree
  /\ At("repair") \/ At("declare") => proc.seen = NoTree
  /\ At("publish") => cache = NoTree
  /\ At("drop") => cache # NoTree
  /\ proc.pc \in {"drop", "done"} => cache \in offered /\ temporary = NoTree
  /\ cache = NoTree \/ cache[Manifest] # 0
  /\ cache = NoTree => previous = NoTree \/ previous[Manifest] # 0
  /\ Package(source) \in offered

IInv == TypeOK /\ Places /\ (proc.pc \in Before => \E s \in Trees : Moment(s))

-----------------------------------------------------------------------------
(* Trees. *)

LEMMA TreeFacts ==
  /\ Manifest \in Names /\ 0 \in 0..MaxRevision
  /\ NoTree \in Trees /\ \A n \in Names : NoTree[n] = 0
  /\ \A t \in Trees, n \in Names : t[n] \in 0..MaxRevision /\ t[n] \in Nat
  /\ \A t \in Trees : Package(t) \in Trees
  /\ \A t \in Trees : t[Manifest] # 0 => Package(t)[Manifest] = t[Manifest] /\ Package(t) # NoTree
  /\ \A r \in Revisions : Members(r) \subseteq Names /\ Manifest \in Members(r)
  BY CacheAssumption DEF Names, NoTree, Trees, Package, Members, Revisions

\* Trees are equal that agree on every name.
LEMMA SameTree ==
  ASSUME NEW s \in Trees, NEW t \in Trees, \A n \in Names : s[n] = t[n]
  PROVE  s = t
  BY DEF Trees

-----------------------------------------------------------------------------
(* Every step keeps the types and the source only grows. *)

LEMMA InitTypeOK == Init => TypeOK
  BY TreeFacts, CacheAssumption DEF Init, TypeOK, Trees, Members, Names, NoTree, Revisions

LEMMA NextTypeOK == TypeOK /\ [Next]_vars => TypeOK'
  <1> SUFFICES ASSUME TypeOK, [Next]_vars PROVE TypeOK'
    OBVIOUS
  <1> USE TreeFacts, CacheAssumption DEF TypeOK, Trees
  <1>1. CASE Begin
    BY <1>1 DEF Begin, Running, At
  <1>2. CASE Repair
    BY <1>2 DEF Repair, Restore, At
  <1>3. CASE Sweep
    BY <1>3 DEF Sweep, Repaired, At, Goto
  <1>4. CASE Declare
    <2>1. source[Manifest] \in Revisions
      BY DEF Revisions
    <2> QED
      BY <1>4, <2>1 DEF Declare, At
  <1>5. CASE Compare
    BY <1>5 DEF Compare, At, Goto
  <1>6. CASE Open
    <2>1. source[Manifest] \in Revisions
      BY DEF Revisions
    <2> QED
      BY <1>6, <2>1 DEF Open, At
  <1>7. CASE Check
    BY <1>7 DEF Check, At, Goto
  <1>8. CASE Retire
    BY <1>8 DEF Retire, At, Goto
  <1>9. CASE Publish
    BY <1>9 DEF Publish, At, Goto
  <1>10. CASE Finish
    BY <1>10 DEF Finish, Dropped, At, Goto
  <1>11. CASE Refuse
    BY <1>11 DEF Refuse, Cleaned, At, Goto
  <1>12. ASSUME NEW n \in Names, Remove(n) PROVE TypeOK'
    BY <1>12 DEF Remove, At
  <1>13. ASSUME NEW n \in Names, Scan(n) PROVE TypeOK'
    BY <1>13 DEF Scan, At
  <1>14. ASSUME NEW n \in Names, Copy(n) PROVE TypeOK'
    BY <1>14 DEF Copy, At
  <1>15. CASE Fail
    BY <1>15 DEF Fail, Restore, Cleaned, Running, At, Goto
  <1>16. CASE Kill
    BY <1>16 DEF Kill, Running, At, Goto
  <1>17. ASSUME NEW n \in Names, Edit(n) PROVE TypeOK'
    <2>1. source' \in Trees /\ source'[Manifest] # 0
      BY <1>17 DEF Edit
    <2>2. Package(source') \in Trees
      BY <2>1, TreeFacts
    <2> QED
      BY <1>17, <2>1, <2>2 DEF Edit
  <1>18. CASE UNCHANGED vars
    BY <1>18 DEF vars
  <1> QED
    BY <1>1, <1>2, <1>3, <1>4, <1>5, <1>6, <1>7, <1>8, <1>9, <1>10, <1>11, <1>12,
       <1>13, <1>14, <1>15, <1>16, <1>17, <1>18 DEF Next, Step

\* The trees hold known names only, each with a known revision, and no update
\* looks at the source before it has repaired what it found.
THEOREM TypeCorrect == Spec => []TypeOK
  <1>1. Init => TypeOK
    BY InitTypeOK
  <1>2. TypeOK /\ [Next]_vars => TypeOK'
    BY NextTypeOK
  <1> QED
    BY <1>1, <1>2, PTL DEF Spec

-----------------------------------------------------------------------------
(* What was read before a moment and copied after it. *)

\* Files read after s of which an older tree is the package are those of s.
LEMMA ReadIsMoment ==
  ASSUME NEW s \in Trees, s[Manifest] # 0, NEW t \in Trees, NEW now \in Trees,
         Read(s, t, {}, now), NEW u \in Trees, AtMost(u, s), Package(t) = u
  PROVE  t = Package(s)
  <1>1. PICK r \in Revisions :
          /\ s[Manifest] <= r /\ r <= t[Manifest]
          /\ \A n \in Names : n \in Members(r) => s[n] <= t[n]
          /\ \A n \in Names : n \notin Members(r) => t[n] = 0
    BY DEF Read
  <1>2. u[Manifest] = t[Manifest]
    BY <1>1, TreeFacts DEF Revisions
  <1>3. t[Manifest] = r /\ s[Manifest] = r
    BY <1>1, <1>2, TreeFacts DEF AtMost, Revisions
  <1>4. ASSUME NEW n \in Names PROVE t[n] = Package(s)[n]
    <2>1. CASE n \in Members(r)
      <3>1. u[n] = t[n]
        BY <1>3, <2>1 DEF Package
      <3>2. t[n] = s[n]
        BY <1>1, <2>1, <3>1, TreeFacts DEF AtMost
      <3> QED
        BY <1>3, <2>1, <3>2 DEF Package
    <2>2. CASE n \notin Members(r)
      BY <1>1, <1>3, <2>2 DEF Package
    <2> QED
      BY <2>1, <2>2
  <1> QED
    BY <1>4, TreeFacts, SameTree

\* Files read after s that are all as old as s are those of s.
LEMMA AlikeIsMoment ==
  ASSUME NEW s \in Trees, s[Manifest] # 0, NEW t \in Trees, NEW now \in Trees,
         Read(s, t, {}, now), AtMost(t, s)
  PROVE  t = Package(s)
  <1>1. PICK r \in Revisions :
          /\ s[Manifest] <= r /\ r <= t[Manifest]
          /\ \A n \in Names : n \in Members(r) => s[n] <= t[n]
          /\ \A n \in Names : n \notin Members(r) => t[n] = 0
    BY DEF Read
  <1>2. t[Manifest] = r /\ s[Manifest] = r
    BY <1>1, TreeFacts DEF AtMost, Revisions
  <1>3. ASSUME NEW n \in Names PROVE t[n] = Package(s)[n]
    <2>1. CASE n \in Members(r)
      <3>1. t[n] = s[n]
        BY <1>1, <2>1, TreeFacts DEF AtMost
      <3> QED
        BY <1>2, <2>1, <3>1 DEF Package
    <2>2. CASE n \notin Members(r)
      BY <1>1, <1>2, <2>2 DEF Package
    <2> QED
      BY <2>1, <2>2
  <1> QED
    BY <1>3, TreeFacts, SameTree

\* Nothing has been read when reading begins.
LEMMA ReadNothing ==
  ASSUME NEW s \in Trees, NEW now \in Trees, now[Manifest] # 0, AtMost(s, now)
  PROVE  Read(s, NoTree, Members(now[Manifest]), now)
  <1>1. now[Manifest] \in Revisions
    BY TreeFacts DEF Revisions
  <1> QED
    BY <1>1, TreeFacts DEF Read, AtMost

\* One more file is read.
LEMMA ReadOne ==
  ASSUME NEW s \in Trees, NEW now \in Trees, AtMost(s, now), NEW t \in Trees,
         NEW left \in SUBSET Names, Read(s, t, left, now), NEW n \in left
  PROVE  Read(s, [t EXCEPT ![n] = now[n]], left \ {n}, now)
  <1> DEFINE u == [t EXCEPT ![n] = now[n]]
  <1>1. PICK r \in Revisions :
          /\ s[Manifest] <= r /\ r <= now[Manifest]
          /\ Manifest \in left \/ r <= t[Manifest]
          /\ left \subseteq Members(r)
          /\ \A k \in Names : k \in Members(r) \ left => s[k] <= t[k] /\ t[k] <= now[k]
          /\ \A k \in Names : k \notin Members(r) \ left => t[k] = 0
    BY DEF Read
  <1>2. u[n] = now[n] /\ \A k \in Names : k # n => u[k] = t[k]
    BY DEF Trees
  <1>3. Manifest \in left \ {n} \/ r <= u[Manifest]
    BY <1>1, <1>2, TreeFacts
  <1>4. \A k \in Names : k \in Members(r) \ (left \ {n}) => s[k] <= u[k] /\ u[k] <= now[k]
    BY <1>1, <1>2, TreeFacts DEF AtMost
  <1>5. \A k \in Names : k \notin Members(r) \ (left \ {n}) => u[k] = 0
    BY <1>1, <1>2
  <1>6. left \ {n} \subseteq Members(r)
    BY <1>1
  <1> QED
    BY <1>1, <1>3, <1>4, <1>5, <1>6 DEF Read

\* The source only grows, so what was read stays in bounds.
LEMMA ReadLater ==
  ASSUME NEW s \in Trees, NEW t \in Trees, NEW left, NEW now \in Trees, NEW then \in Trees,
         Read(s, t, left, now), AtMost(now, then)
  PROVE  Read(s, t, left, then)
  <1>1. PICK r \in Revisions :
          /\ s[Manifest] <= r /\ r <= now[Manifest]
          /\ Manifest \in left \/ r <= t[Manifest]
          /\ left \subseteq Members(r)
          /\ \A n \in Names : n \in Members(r) \ left => s[n] <= t[n] /\ t[n] <= now[n]
          /\ \A n \in Names : n \notin Members(r) \ left => t[n] = 0
    BY DEF Read
  <1>2. r <= then[Manifest]
    BY <1>1, TreeFacts DEF AtMost, Revisions
  <1>3. \A n \in Names : n \in Members(r) \ left => s[n] <= t[n] /\ t[n] <= then[n]
    BY <1>1, TreeFacts DEF AtMost
  <1> QED
    BY <1>1, <1>2, <1>3 DEF Read

-----------------------------------------------------------------------------
(* The invariant is inductive. *)

LEMMA Bounds ==
  /\ \A s, t, u \in Trees : AtMost(s, t) /\ AtMost(t, u) => AtMost(s, u)
  /\ \A s \in Trees : AtMost(s, s) /\ AtMost(NoTree, s)
  BY TreeFacts DEF AtMost

LEMMA InitInv == Init => IInv
  <1> SUFFICES ASSUME Init PROVE IInv
    OBVIOUS
  <1>1. TypeOK
    BY InitTypeOK
  <1>2. source[Manifest] = 1 /\ Package(source) = source
    BY TreeFacts, CacheAssumption DEF Init, Members, Package
  <1>3. Places
    BY <1>1, <1>2, Bounds DEF Init, Places, TypeOK, At
  <1>4. proc.pc \notin Before
    BY DEF Init, Before
  <1> QED
    BY <1>1, <1>3, <1>4 DEF IInv

LEMMA SourceGrows ==
  ASSUME TypeOK, [Next]_vars
  PROVE  source' \in Trees /\ AtMost(source, source')
  <1>1. CASE source' = source
    BY <1>1, Bounds DEF TypeOK
  <1>2. ASSUME NEW n \in Names, Edit(n) PROVE source' \in Trees /\ AtMost(source, source')
    BY <1>2, TreeFacts, CacheAssumption DEF Edit, TypeOK, Trees, AtMost
  <1> QED
    BY <1>1, <1>2 DEF Next, Step, Begin, Repair, Sweep, Declare, Compare, Open, Check, Retire,
       Publish, Finish, Refuse, Remove, Scan, Copy, Fail, Kill, vars

LEMMA NextPlaces ==
  ASSUME IInv, [Next]_vars
  PROVE  Places'
  <1> USE DEF IInv, Places, At, Goto
  <1>0. TypeOK /\ TypeOK' /\ cache \in Trees /\ previous \in Trees /\ source \in Trees
    BY NextTypeOK DEF TypeOK
  <1>1. CASE Begin
    BY <1>1 DEF Begin, Running
  <1>2. CASE Repair
    BY <1>2, <1>0, Bounds DEF Repair, Restore, TypeOK
  <1>3. CASE Sweep
    BY <1>3 DEF Sweep, Repaired
  <1>4. CASE Declare
    BY <1>4, <1>0 DEF Declare, TypeOK
  <1>5. CASE Compare
    <2>1. PICK s \in Trees : Moment(s)
      BY <1>5 DEF Compare, Before
    <2>2. ASSUME Alike PROVE cache \in offered
      BY <1>5, <1>0, <2>1, <2>2, AlikeIsMoment DEF Compare, Alike, Moment, TypeOK
    <2>3. proc'.pc = IF Alike THEN "done" ELSE "open"
      BY <1>5, <1>0 DEF Compare, TypeOK
    <2>4. previous = NoTree /\ temporary = NoTree
      BY <1>5, <1>0 DEF Compare, TypeOK
    <2> QED
      BY <1>5, <2>2, <2>3, <2>4 DEF Compare
  <1>6. CASE Open
    BY <1>6, <1>0 DEF Open, TypeOK
  <1>7. CASE Check
    BY <1>7, <1>0 DEF Check, TypeOK
  <1>8. CASE Retire
    BY <1>8, <1>0, Bounds DEF Retire, TypeOK
  <1>9. CASE Publish
    <2>1. PICK s \in Trees : Moment(s)
      BY <1>9 DEF Publish, Before
    <2>2. temporary \in offered /\ temporary[Manifest] # 0 /\ temporary # NoTree
      BY <1>9, <2>1, TreeFacts DEF Publish, Moment
    <2>3. AtMost(temporary, source)
      BY <1>9, <2>1, TreeFacts DEF Publish, Moment, Package, AtMost
    <2> QED
      BY <1>9, <1>0, <2>2, <2>3 DEF Publish, TypeOK
  <1>10. CASE Finish
    BY <1>10, <1>0 DEF Finish, Dropped, TypeOK
  <1>11. CASE Refuse
    BY <1>11, <1>0 DEF Refuse, TypeOK
  <1>12. ASSUME NEW n \in Names, Remove(n) PROVE Places'
    <2>1. AtMost(previous', source)
      BY <1>12, <1>0, TreeFacts DEF Remove, AtMost, Trees
    <2> QED
      BY <1>12, <2>1, <1>0 DEF Remove, TypeOK
  <1>13. ASSUME NEW n \in Names, Scan(n) PROVE Places'
    BY <1>13, <1>0 DEF Scan, TypeOK
  <1>14. ASSUME NEW n \in Names, Copy(n) PROVE Places'
    BY <1>14, <1>0 DEF Copy, TypeOK
  <1>15. CASE Fail
    BY <1>15, <1>0 DEF Fail, Restore, Running, TypeOK
  <1>16. CASE Kill
    BY <1>16, <1>0 DEF Kill, Running, TypeOK
  <1>17. ASSUME NEW n \in Names, Edit(n) PROVE Places'
    BY <1>17, <1>0, SourceGrows, Bounds DEF Edit, TypeOK
  <1>18. CASE UNCHANGED vars
    BY <1>18 DEF vars
  <1> QED
    BY <1>1, <1>2, <1>3, <1>4, <1>5, <1>6, <1>7, <1>8, <1>9, <1>10, <1>11, <1>12,
       <1>13, <1>14, <1>15, <1>16, <1>17, <1>18 DEF Next, Step

\* Every step but the start of an update keeps a moment, or replaces it by now.
LEMMA NextMoment ==
  ASSUME IInv, [Next]_vars, proc'.pc \in Before
  PROVE  \E s \in Trees : Moment(s)'
  <1> USE DEF IInv, At, Goto
  <1>0. TypeOK /\ cache \in Trees /\ previous \in Trees /\ source \in Trees /\ temporary \in Trees
        /\ proc.left \in SUBSET Names /\ proc.seen \in Trees
    BY DEF TypeOK
  <1>1. CASE Begin
    <2>1. PICK s \in Trees : s = source
      BY <1>0
    <2>2. Moment(s)'
      BY <1>1, <1>0, <2>1, Bounds DEF Begin, Moment, Places, TypeOK
    <2> QED
      BY <2>2
  <1>2. CASE Repair
    <2>1. PICK s \in Trees : Moment(s)
      BY <1>2 DEF Repair, Before
    <2>2. Moment(s)'
      BY <1>2, <2>1, Bounds DEF Repair, Restore, Moment
    <2> QED
      BY <2>2
  <1>3. CASE Sweep
    <2>1. PICK s \in Trees : Moment(s)
      BY <1>3 DEF Sweep, Before
    <2>2. Moment(s)'
      BY <1>3, <2>1, <1>0 DEF Sweep, Moment, TypeOK
    <2> QED
      BY <2>2
  <1>4. CASE Declare
    <2>1. PICK s \in Trees : Moment(s)
      BY <1>4 DEF Declare, Before
    <2>2. Read(s, NoTree, Members(source[Manifest]), source)
      BY <1>0, <2>1, ReadNothing DEF Moment, TypeOK
    <2>3. proc'.pc = "scan" /\ proc'.seen = NoTree /\ proc'.left = Members(source[Manifest])
      BY <1>4, <1>0 DEF Declare, TypeOK, Places
    <2>4. Moment(s)'
      BY <1>4, <2>1, <2>2, <2>3 DEF Declare, Moment
    <2> QED
      BY <2>4
  <1>5. CASE Compare
    <2>1. PICK now \in Trees : now = source
      BY <1>0
    <2>2. Moment(now)'
      <3>1. proc'.pc = "open" /\ proc'.seen = proc.seen
        BY <1>5, <1>0 DEF Compare, TypeOK, Before
      <3>2. PICK s \in Trees : Moment(s)
        BY <1>5 DEF Compare, Before
      <3>3. AtMost(proc.seen, source)
        <4>1. PICK r \in Revisions :
                /\ \A n \in Names : n \in Members(r) \ proc.left => proc.seen[n] <= source[n]
                /\ \A n \in Names : n \notin Members(r) \ proc.left => proc.seen[n] = 0
          BY <1>5, <3>2 DEF Compare, Moment, Read
        <4> QED
          BY <4>1, <1>0, TreeFacts DEF AtMost
      <3> QED
        BY <1>5, <1>0, <2>1, <3>1, <3>3, Bounds DEF Compare, Moment, Places, TypeOK
    <2> QED
      BY <2>2
  <1>6. CASE Open
    <2>1. PICK s \in Trees : Moment(s)
      BY <1>6 DEF Open, Before
    <2>2. Read(s, NoTree, Members(source[Manifest]), source)
      BY <1>0, <2>1, ReadNothing DEF Moment, TypeOK
    <2>3. /\ proc'.pc = "copy" /\ proc'.seen = proc.seen
          /\ proc'.left = Members(source[Manifest]) /\ temporary = NoTree
      BY <1>6, <1>0 DEF Open, TypeOK
    <2>4. Moment(s)'
      BY <1>6, <2>1, <2>2, <2>3 DEF Open, Moment
    <2> QED
      BY <2>4
  <1>7. CASE Check
    <2>1. PICK s \in Trees : Moment(s)
      BY <1>7 DEF Check, Before
    <2>2. temporary = Package(s)
      BY <1>7, <1>0, <2>1, ReadIsMoment DEF Check, HeldStill, Moment
    <2>3. proc'.pc = "retire"
      BY <1>7, <1>0 DEF Check, TypeOK
    <2>4. Moment(s)'
      BY <1>7, <2>1, <2>2, <2>3 DEF Check, Moment
    <2> QED
      BY <2>4
  <1>8. CASE Retire
    <2>1. PICK s \in Trees : Moment(s)
      BY <1>8 DEF Retire, Before
    <2>2. proc'.pc = "publish"
      BY <1>8, <1>0 DEF Retire, TypeOK
    <2>3. Moment(s)'
      BY <1>8, <2>1, <2>2, Bounds DEF Retire, Moment
    <2> QED
      BY <2>3
  <1>9. CASE Publish \/ Finish \/ Refuse \/ Fail \/ Kill
    <2>1. proc'.pc \notin Before
      BY <1>9, <1>0 DEF Publish, Finish, Refuse, Fail, Kill, TypeOK, Before
    <2> QED
      BY <2>1
  <1>10. ASSUME NEW n \in Names, Remove(n) PROVE \E s \in Trees : Moment(s)'
    <2>1. PICK s \in Trees : Moment(s)
      BY <1>10 DEF Remove, Before
    <2>2. AtMost(previous', s)
      BY <1>10, <1>0, <2>1, TreeFacts DEF Remove, Moment, AtMost, Trees
    <2>3. Moment(s)'
      BY <1>10, <2>1, <2>2 DEF Remove, Moment, Before
    <2> QED
      BY <2>3
  <1>11. ASSUME NEW n \in Names, Scan(n) PROVE \E s \in Trees : Moment(s)'
    <2>1. PICK s \in Trees : Moment(s)
      BY <1>11 DEF Scan, Before
    <2>2. Read(s, [proc.seen EXCEPT ![n] = source[n]], proc.left \ {n}, source)
      BY <1>11, <1>0, <2>1, ReadOne DEF Scan, Moment
    <2>3. /\ proc'.pc = "scan" /\ proc'.left = proc.left \ {n}
          /\ proc'.seen = [proc.seen EXCEPT ![n] = source[n]]
      BY <1>11, <1>0 DEF Scan, TypeOK
    <2>4. Moment(s)'
      BY <1>11, <2>1, <2>2, <2>3 DEF Scan, Moment
    <2> QED
      BY <2>4
  <1>12. ASSUME NEW n \in Names, Copy(n) PROVE \E s \in Trees : Moment(s)'
    <2>1. PICK s \in Trees : Moment(s)
      BY <1>12 DEF Copy, Before
    <2>2. Read(s, [temporary EXCEPT ![n] = source[n]], proc.left \ {n}, source)
      BY <1>12, <1>0, <2>1, ReadOne DEF Copy, Moment
    <2>3. proc'.pc = "copy" /\ proc'.left = proc.left \ {n} /\ proc'.seen = proc.seen
      BY <1>12, <1>0 DEF Copy, TypeOK
    <2>4. Moment(s)'
      BY <1>12, <2>1, <2>2, <2>3 DEF Copy, Moment
    <2> QED
      BY <2>4
  <1>13. ASSUME NEW n \in Names, Edit(n) PROVE \E s \in Trees : Moment(s)'
    <2>1. PICK s \in Trees : Moment(s)
      BY <1>13 DEF Edit
    <2>2. source' \in Trees /\ AtMost(source, source') /\ AtMost(s, source')
      BY <1>0, <2>1, SourceGrows, Bounds DEF Moment
    <2>3. At("scan") => Read(s, proc.seen, proc.left, source')
      BY <1>0, <2>1, <2>2, ReadLater DEF Moment
    <2>4. At("copy") => Read(s, temporary, proc.left, source')
      BY <1>0, <2>1, <2>2, ReadLater DEF Moment
    <2>5. Moment(s)'
      BY <1>13, <2>1, <2>2, <2>3, <2>4 DEF Edit, Moment
    <2> QED
      BY <2>5
  <1>14. CASE UNCHANGED vars
    <2>1. PICK s \in Trees : Moment(s)
      BY <1>14 DEF vars
    <2>2. Moment(s)'
      BY <1>14, <2>1 DEF vars, Moment
    <2> QED
      BY <2>2
  <1> QED
    BY <1>1, <1>2, <1>3, <1>4, <1>5, <1>6, <1>7, <1>8, <1>9, <1>10, <1>11, <1>12,
       <1>13, <1>14 DEF Next, Step

LEMMA NextInv == IInv /\ [Next]_vars => IInv'
  BY NextTypeOK, NextPlaces, NextMoment DEF IInv

\* A successful update leaves a package the source was while it ran, and no
\* recovery copy or temporary tree.
THEOREM UpdatesAreFresh == Spec => []SuccessIsFresh
  <1>1. IInv => SuccessIsFresh
    BY DEF IInv, Places, SuccessIsFresh
  <1> QED
    BY InitInv, NextInv, <1>1, PTL DEF Spec

-----------------------------------------------------------------------------
(* Refinement of InstalledPlugin. *)

LEMMA InitRefines == Init => Plugin!Init
  <1> SUFFICES ASSUME Init PROVE Plugin!Init
    OBVIOUS
  <1>1. Package(source) = source
    BY TreeFacts, CacheAssumption DEF Init, Members, Package
  <1>2. Installed = cache
    BY DEF Init, Installed
  <1> QED
    BY <1>1, <1>2 DEF Init, Plugin!Init

LEMMA StepRefines ==
  ASSUME IInv, [Next]_vars
  PROVE  [Plugin!Edit \/ Plugin!Begin \/ Plugin!Install]_<<Package(source), offered, Installed>>
  <1> USE DEF IInv, At, Goto
  <1>0. TypeOK /\ source \in Trees /\ source' \in Trees
    BY SourceGrows DEF TypeOK
  <1> DEFINE Same == Package(source)' = Package(source) /\ offered' = offered
  <1>1. CASE Begin
    <2>1. Installed' = Installed /\ Package(source)' = Package(source)
      BY <1>1 DEF Begin, Installed, Package
    <2> QED
      BY <1>1, <2>1 DEF Begin, Plugin!Begin
  <1>2. CASE Publish
    <2>1. PICK s \in Trees : Moment(s)
      BY <1>2 DEF Publish, Before
    <2>2. temporary = Package(s) /\ temporary # NoTree /\ temporary \in offered
      BY <1>2, <2>1, TreeFacts DEF Publish, Moment
    <2>3. Installed' = temporary /\ Installed = previous
      BY <1>2, <2>2 DEF Publish, Installed, Places
    <2>4. Plugin!NotOlder(temporary, previous)
      BY <1>0, <2>1, <2>2, TreeFacts DEF Plugin!NotOlder, Moment, AtMost, Package, TypeOK
    <2>5. Same
      BY <1>2 DEF Publish, Package
    <2> QED
      BY <2>2, <2>3, <2>4, <2>5 DEF Plugin!Install
  <1>3. ASSUME NEW n \in Names, Edit(n) PROVE Plugin!Edit
    <2>1. Package(source') \in Trees
      BY <1>0, TreeFacts
    <2>2. Package(source)' = Package(source')
      BY DEF Package
    <2>3. Installed' = Installed
      BY <1>3 DEF Edit, Installed
    <2> QED
      BY <1>3, <2>1, <2>2, <2>3 DEF Edit, Plugin!Edit
  <1>4. CASE \/ Repair \/ Sweep \/ Declare \/ Compare \/ Open \/ Check \/ Retire \/ Finish
             \/ Refuse \/ Fail \/ Kill \/ UNCHANGED vars
             \/ \E n \in Names : Remove(n) \/ Scan(n) \/ Copy(n)
    <2>1. Installed' = Installed
      <3>1. CASE Repair \/ Fail
        BY <3>1 DEF Repair, Fail, Restore, Installed, Places
      <3>2. CASE Retire
        BY <3>2, <1>0 DEF Retire, Installed, TypeOK
      <3>3. CASE \E n \in Names : Remove(n)
        BY <3>3 DEF Remove, Installed, Places
      <3>4. CASE cache' = cache /\ previous' = previous
        BY <3>4 DEF Installed
      <3> QED
        BY <1>4, <3>1, <3>2, <3>3, <3>4
        DEF Sweep, Declare, Compare, Open, Check, Finish, Refuse, Kill, vars, Scan, Copy
    <2>2. source' = source /\ offered' = offered
      BY <1>4 DEF Repair, Sweep, Declare, Compare, Open, Check, Retire, Finish, Refuse, Fail,
         Kill, vars, Remove, Scan, Copy
    <2>3. Same
      BY <2>2 DEF Package
    <2> QED
      BY <2>1, <2>3
  <1> QED
    BY <1>1, <1>2, <1>3, <1>4 DEF Next, Step

\* The plugin a user has or gets back is always one whole package, replaced only
\* by a newer one that the source was during the update: renames, partial
\* copies, kills and failures never show through.
THEOREM UpdatesImplementPlugin == Spec => ImplementsPlugin
  <1>1. Init => Plugin!Init
    BY InitRefines
  <1>2. IInv /\ [Next]_vars =>
          [Plugin!Edit \/ Plugin!Begin \/ Plugin!Install]_<<Package(source), offered, Installed>>
    BY StepRefines
  <1> QED
    BY <1>1, <1>2, InitInv, NextInv, PTL DEF Spec, ImplementsPlugin, Plugin!Spec
=============================================================================
