-------------------------- MODULE TeamBoardProofs --------------------------
(***************************************************************************)
(* TLAPS proofs about the team board, for every number of clones,          *)
(* worktrees, paths, attempts and revisions.  The inductive invariant says *)
(* how the three places a publication may live in agree: the remote        *)
(* history, the receipts on disk, and the running commands.                *)
(***************************************************************************)
EXTENDS TeamBoardProps, TLAPS

Parent(r)  == commits[r].parent
Pend(c, k) == disk[c].checkouts[k].pending

\* Every commit is built on a revision that was once the head, so a commit
\* whose parent is no longer the head can never land.
History ==
  /\ landed \subseteq 1..made /\ head \in landed /\ inflight \subseteq 2..made
  /\ \A r \in Revs : Parent(r) \in landed \cup {0}
  /\ \A r \in landed : Parent(r) # head

\* What the program counter of a command says of its request.
Steered(c) ==
  LET p == proc[c] IN
  /\ p.pc # "idle" => p.snap \in landed
  /\ p.pc # "idle" /\ p.op.kind = "leave" => disk[c].life < MaxLeaves
  /\ p.op.kind \in {"update", "finish", "recover"} => p.op.id \in Revs
  /\ p.op.expect # 0 => Upgrade(p.op) \/ p.op.kind = "recover"
  /\ p.pc \in {"act", "reread"} /\ p.op.kind \in Mutations =>
       ~Upgrade(p.op) /\ p.op.kind # "recover"
  /\ p.op.kind = "mutate" => p.attempt = 0
  /\ p.pc = "reconcile" => p.op.kind \in Commands
  /\ p.pc \in {"push", "resolve", "settle"} => p.op.kind \in Mutations \cup {"retry"}
  /\ p.pc = "reread" => p.op.kind \in Mutations
  /\ p.pc = "settle" => p.out \in {"contention", "unavailable"}
Control == \A c \in Clones : Steered(c)

\* A receipt names a commit of its own, and a publishing command its receipt.
Holding ==
  /\ \A c \in Clones, k \in Checkouts :
       Pend(c, k) # NoPending => Pend(c, k).rev \in 2..made /\ Pend(c, k).id \in Revs
  /\ \A c, d \in Clones : \A k, l \in Checkouts :
       Pend(c, k).rev = Pend(d, l).rev /\ Pend(c, k).rev # 0 => c = d /\ k = l
  /\ \A c \in Clones : proc[c].pc \in {"push", "resolve", "settle", "accept"} =>
       proc[c].rev = Pend(c, proc[c].ck).rev /\ proc[c].rev \in 2..made

\* Out of reach of the head: nothing will ever put the revision there.
Overtaken(r) == r \notin landed /\ Parent(r) # head
\* Known to be nowhere but in the command that is publishing it.
Private(r)   == r \notin landed /\ r \notin inflight

\* What a command may conclude from the answers it has heard.
Verdicts ==
  \A c \in Clones :
    LET p == proc[c] IN
    /\ p.pc = "resolve" /\ p.out = "stale" => Parent(p.rev) # head
    /\ p.pc = "settle" /\ p.out = "contention" => Overtaken(p.rev)
    /\ p.op.kind \in Mutations /\
         (\/ p.pc = "push"
          \/ p.pc = "resolve" /\ p.out = "denied"
          \/ p.pc = "settle" /\ p.out = "unavailable") => Private(p.rev)

\* A dropped revision is overtaken, or nobody holds it any more.
Dropped ==
  \A r \in discarded :
    /\ r \in 2..made /\ r \notin landed
    /\ \/ Parent(r) # head
       \/ /\ r \notin inflight
          /\ \A c \in Clones, k \in Checkouts : Pend(c, k).rev # r

\* Every commit was checked when it was written.
Reviewed ==
  \A r \in 1..made :
    /\ Exclusive(commits[r].sessions)
    /\ consent[r] # 0 => Parent(r) = consent[r]

IInv == TypeOK /\ History /\ Control /\ Holding /\ Verdicts /\ Dropped /\ Reviewed

-----------------------------------------------------------------------------
(* What a caller can ask. *)

LEMMA Limits == MaxRev \in Nat /\ MaxRev >= 1 /\ MaxLeaves \in Nat /\ NoPlan \notin Plans
                /\ Scopes \subseteq SUBSET Paths
BY BoardAssumption

LEMMA RowFacts ==
  ASSUME TypeOK, NEW r \in Revs, NEW s \in Revs
  PROVE  /\ commits[r].sessions[s] \in Rows \cup {NoRow}
         /\ commits[r].sessions[s].gen \in 0..MaxRev
<1>1. commits[r].sessions \in [Revs -> Rows \cup {NoRow}]
  BY DEF TypeOK, CommitType
<1>2. \A row \in Rows \cup {NoRow} : row.gen \in 0..MaxRev
  BY Limits DEF Rows, NoRow, Revs
<1>. QED BY <1>1, <1>2

\* A request names tasks and revisions that exist; only a recovery or an
\* upgrade names a reviewed revision.
LEMMA RequestFacts ==
  ASSUME TypeOK, landed \subseteq Revs, NEW op \in Requests
  PROVE  /\ op \in OpType /\ op.kind \in Mutations
         /\ op.kind \in {"update", "finish", "recover"} => op.id \in Revs
         /\ op.expect # 0 => Upgrade(op) \/ op.kind = "recover"
<1>. DEFINE Good(o) == /\ o \in OpType /\ o.kind \in Mutations
                       /\ o.kind \in {"update", "finish", "recover"} => o.id \in Revs
                       /\ o.expect # 0 => Upgrade(o) \/ o.kind = "recover"
<1>1. \A g \in KnownTasks : g[1] \in Revs /\ g[2] \in 0..MaxRev
  <2>1. \A s \in Revs, r \in landed : commits[r].sessions[s].gen \in 0..MaxRev
    BY RowFacts
  <2>. QED BY <2>1 DEF KnownTasks, Known
<1>2. Consents \subseteq 0..MaxRev /\ landed \subseteq 0..MaxRev
  BY Limits DEF Consents, Revs
<1>4. ASSUME NEW s \in Scopes, NEW p \in Bindings, NEW e \in Consents
      PROVE  Good(Request("start", 0, 0, "set", s, p, e))
  BY <1>2, Limits DEF Request, OpType, Kinds, Mutations, Bindings, Upgrade
<1>5. ASSUME NEW g \in KnownTasks, NEW s \in Scopes, NEW p \in Bindings, NEW e \in Consents
      PROVE  Good(Request("update", g[1], g[2], "set", s, p, e))
  BY <1>1, <1>2, Limits DEF Request, OpType, Kinds, Mutations, Bindings, Upgrade, Revs
<1>3. ASSUME NEW g \in KnownTasks, NEW e \in Consents
      PROVE  Good(Request("update", g[1], g[2], "keep", {}, NoPlan, e))
  BY <1>1, <1>2, Limits DEF Request, OpType, Kinds, Mutations, Upgrade, Revs
<1>6. ASSUME NEW g \in KnownTasks
      PROVE  Good(Request("finish", g[1], g[2], "keep", {}, NoPlan, 0))
  BY <1>1, Limits DEF Request, OpType, Kinds, Mutations, Upgrade, Revs
<1>7. ASSUME NEW g \in KnownTasks, NEW r \in landed
      PROVE  Good(Request("recover", g[1], 0, "keep", {}, NoPlan, r))
  BY <1>1, <1>2, Limits DEF Request, OpType, Kinds, Mutations, Upgrade, Revs
<1>8. op \in AllRequests
  BY DEF Requests
<1>9. Good(op)
  <2>. HIDE DEF Good
  <2>1. CASE \E s \in Scopes, p \in Bindings, e \in Consents :
               op = Request("start", 0, 0, "set", s, p, e)
    BY <1>4, <2>1
  <2>2. CASE \E g \in KnownTasks, s \in Scopes, p \in Bindings, e \in Consents :
               op = Request("update", g[1], g[2], "set", s, p, e)
    BY <1>5, <2>2
  <2>3. CASE \E g \in KnownTasks, e \in Consents :
               op = Request("update", g[1], g[2], "keep", {}, NoPlan, e)
    BY <1>3, <2>3
  <2>4. CASE \E g \in KnownTasks : op = Request("finish", g[1], g[2], "keep", {}, NoPlan, 0)
    BY <1>6, <2>4
  <2>5. CASE \E g \in KnownTasks, r \in landed :
               op = Request("recover", g[1], 0, "keep", {}, NoPlan, r)
    BY <1>7, <2>5
  <2>. QED BY <1>8, <2>1, <2>2, <2>3, <2>4, <2>5 DEF AllRequests
<1>. QED BY <1>9

\* The first attempt takes the caller's request, a later one repeats it.
LEMMA AskedFacts ==
  ASSUME TypeOK, landed \subseteq Revs, Control, NEW c \in Clones, NEW p \in Asked(proc[c]),
         proc[c].op.kind \in Mutations \cup {"mutate"}
  PROVE  /\ p \in ProcType /\ p.op.kind \in Mutations
         /\ p.pc = proc[c].pc /\ p.ck = proc[c].ck /\ p.snap = proc[c].snap
         /\ p.attempt = proc[c].attempt
         /\ p.op.kind \in {"update", "finish", "recover"} => p.op.id \in Revs
         /\ p.op.expect # 0 => Upgrade(p.op) \/ p.op.kind = "recover"
         /\ p = proc[c] \/ p.attempt = 0
<1>1. proc[c] \in ProcType
  BY DEF TypeOK
<1>2. CASE proc[c].op.kind = "mutate"
  <2>1. PICK op \in Requests : p = [proc[c] EXCEPT !.op = op]
    BY <1>2 DEF Asked
  <2>. QED BY <1>1, <1>2, <2>1, RequestFacts DEF ProcType, Control, Steered
<1>3. CASE proc[c].op.kind # "mutate"
  BY <1>1, <1>3 DEF Asked, Control, Steered
<1>. QED BY <1>2, <1>3

\* Where a command goes.
LEMMA Went ==
  ASSUME TypeOK, NEW c \in Clones
  PROVE  /\ proc[c] \in ProcType
         /\ End(c) => proc'[c].pc = "idle" /\ proc'[c].ck = proc[c].ck
         /\ \A x : Go(c, x) => proc'[c] = x
BY DEF End, Go, Idle, At, TypeOK, ProcType

\* The fields of a command that changes its mind, the others are kept.
Turned(c, pc, out, snap) ==
  /\ proc'[c].pc = pc /\ proc'[c].out = out /\ proc'[c].snap = snap
  /\ proc'[c].rev = proc[c].rev /\ proc'[c].ck = proc[c].ck /\ proc'[c].op = proc[c].op
  /\ proc'[c].attempt = proc[c].attempt

LEMMA Turns ==
  ASSUME TypeOK, NEW c \in Clones, NEW pc, NEW new
  PROVE  /\ Go(c, [proc[c] EXCEPT !.pc = pc, !.snap = new]) => Turned(c, pc, proc[c].out, new)
         /\ Go(c, [proc[c] EXCEPT !.pc = pc, !.out = new]) => Turned(c, pc, new, proc[c].snap)
<1>1. proc[c] \in ProcType
  BY DEF TypeOK
<1>2. ASSUME Go(c, [proc[c] EXCEPT !.pc = pc, !.snap = new])
      PROVE  Turned(c, pc, proc[c].out, new)
  BY <1>1, <1>2 DEF Go, Turned, TypeOK, ProcType
<1>3. ASSUME Go(c, [proc[c] EXCEPT !.pc = pc, !.out = new])
      PROVE  Turned(c, pc, new, proc[c].snap)
  BY <1>1, <1>3 DEF Go, Turned, TypeOK, ProcType
<1>. QED BY <1>2, <1>3

-----------------------------------------------------------------------------
(* What one step can do to the remote, whoever takes it. *)

Published(r) == \E c \in Clones : /\ proc[c].pc = "push" /\ proc[c].rev = r
                                  /\ proc'[c].pc # "push"

\* A step either leaves the head alone, or moves it to a commit built on it
\* that a command has just pushed or that a late push carries.
Moved ==
  \/ head' = head /\ landed' = landed
  \/ \E q \in Revs : /\ Parent(q) = head /\ (q \in inflight \/ Published(q))
                     /\ head' = q /\ landed' = landed \cup {q}

\* Commits are only ever added.
Grown ==
  /\ made \in Revs /\ made' \in Revs /\ made <= made'
  /\ \A r \in 1..made : commits'[r] = commits[r] /\ consent'[r] = consent[r]
  /\ \A r \in Revs : commits'[r] = commits[r] \/ commits'[r].parent \in landed

\* A push nobody waits for was somebody's push.
Spread == \A r \in inflight' : r \in inflight \/ Published(r)

LEMMA RemoteSteps ==
  ASSUME TypeOK, Control, Holding, History, Next
  PROVE  Moved /\ Grown /\ Spread
<1>0. made \in Revs /\ MaxRev \in Nat
  BY BoardAssumption DEF TypeOK
<1>1. ASSUME UNCHANGED <<remoteVars, commitVars>> PROVE Moved /\ Grown /\ Spread
  BY <1>0, <1>1 DEF Moved, Grown, Spread, remoteVars, commitVars, Revs
<1>2. ASSUME NEW c \in Clones, Write(c) PROVE Moved /\ Grown /\ Spread
  <2>1. made' = made + 1 /\ made < MaxRev /\ UNCHANGED remoteVars
    BY <1>2 DEF Write
  <2>2. \A r \in 1..made : commits'[r] = commits[r] /\ consent'[r] = consent[r]
    BY <1>0, <1>2 DEF Write, TypeOK, Revs
  <2>3. \A r \in Revs : commits'[r] = commits[r] \/ commits'[r].parent \in landed
    <3>1. PICK p \in Asked(proc[c]) :
             \E b : commits' = [commits EXCEPT ![made + 1] =
                      [parent |-> p.snap, version |-> b.version, sessions |-> b.sessions]]
      BY <1>2 DEF Write
    <3>2. p.snap \in landed
      BY <1>2, <3>1, AskedFacts DEF Write, Control, Steered, History, TypeOK
    <3>. QED BY <3>1, <3>2 DEF TypeOK, Revs
  <2>. QED BY <1>0, <2>1, <2>2, <2>3 DEF Moved, Grown, Spread, remoteVars, Revs
<1>3. ASSUME NEW c \in Clones, PushOk(c) \/ PushUnheard(c) PROVE Moved /\ Grown /\ Spread
  <2>1. proc[c].pc = "push" /\ proc[c].rev \in Revs
    BY <1>0, <1>3 DEF PushOk, PushUnheard, Pushing, Holding, Revs
  <2>2. \/ Go(c, [proc[c] EXCEPT !.pc = "accept", !.snap = proc[c].rev])
        \/ Go(c, [proc[c] EXCEPT !.pc = "resolve", !.out = "unknown"])
    BY <1>3 DEF PushOk, PushUnheard
  <2>3. \/ Turned(c, "accept", proc[c].out, proc[c].rev)
        \/ Turned(c, "resolve", "unknown", proc[c].snap)
    BY <2>2, Turns
  <2>4. Published(proc[c].rev)
    BY <2>1, <2>3 DEF Turned, Published
  <2>. QED
    BY <1>0, <1>3, <2>1, <2>4 DEF PushOk, PushUnheard, Advance, Moved, Grown, Spread, commitVars, Revs, Parent
<1>4. ASSUME NEW c \in Clones, PushDelayed(c) PROVE Moved /\ Grown /\ Spread
  <2>1. /\ proc[c].pc = "push"
        /\ End(c) \/ Go(c, [proc[c] EXCEPT !.pc = "resolve", !.out = "unknown"])
    BY <1>4 DEF PushDelayed, Pushing
  <2>2. proc'[c].pc = "idle" \/ Turned(c, "resolve", "unknown", proc[c].snap)
    BY <2>1, Went, Turns
  <2>3. Published(proc[c].rev)
    BY <2>1, <2>2 DEF Turned, Published
  <2>. QED BY <1>0, <1>4, <2>3 DEF PushDelayed, Moved, Grown, Spread, commitVars, Revs
<1>5. ASSUME NEW r \in Revs, Arrive(r) \/ Vanish(r) PROVE Moved /\ Grown /\ Spread
  BY <1>0, <1>5 DEF Arrive, Vanish, Advance, Moved, Grown, Spread, commitVars, Revs, Parent
<1>6. ASSUME NEW c \in Clones,
             \/ \E k \in Checkouts, kind \in Commands : Begin(c, k, kind)
             \/ Reconcile(c) \/ Refuse(c) \/ PushRejected(c) \/ Resolve(c) \/ Retry(c)
             \/ Settle(c) \/ Reread(c) \/ Accept(c) \/ Leave(c)
             \/ Abort(c) \/ Join(c) \/ Abandon(c)
      PROVE UNCHANGED <<remoteVars, commitVars>>
  BY <1>6 DEF Begin, Reconcile, Refuse, PushRejected, Resolve, Retry, Settle, Reread, Accept,
              Leave, Abort, Join, Abandon, Forget
<1>. QED BY <1>1, <1>2, <1>3, <1>4, <1>5, <1>6 DEF Next, Step

LEMMA PublishedMade ==
  ASSUME Holding, NEW q, Published(q)
  PROVE  q \in 2..made
BY DEF Published, Holding

LEMMA HistoryStep ==
  ASSUME TypeOK, Control, Holding, History, Next
  PROVE  History'
<1>1. Moved /\ Grown /\ Spread
  BY RemoteSteps
<1>2. inflight' \subseteq 2..made'
  <2>1. \A q : Published(q) => q \in 2..made
    BY PublishedMade
  <2>2. 2..made \subseteq 2..made'
    BY <1>1, Limits DEF Grown, Revs
  <2>3. inflight \subseteq 2..made
    BY DEF History
  <2>. QED BY <1>1, <2>1, <2>2, <2>3 DEF Spread
<1>3. \A r \in Revs : Parent(r)' \in landed' \cup {0}
  BY <1>1 DEF Grown, Moved, History, Parent
<1>4. \A r \in landed : Parent(r)' = Parent(r) /\ r \in Revs
  BY <1>1, Limits DEF Grown, History, Parent, Revs
<1>5. CASE head' = head /\ landed' = landed
  <2>1. landed' \subseteq 1..made' /\ head' \in landed'
    BY <1>1, <1>5 DEF Grown, History, Revs
  <2>2. \A r \in landed' : Parent(r)' # head'
    BY <1>4, <1>5 DEF History
  <2>. QED BY <1>2, <1>3, <2>1, <2>2 DEF History
<1>6. ASSUME NEW q \in Revs, Parent(q) = head, q \in inflight \/ Published(q),
             head' = q, landed' = landed \cup {q}
      PROVE  History'
  <2>1. q \in 2..made /\ q \notin landed
    BY <1>6, PublishedMade DEF History
  <2>2. landed' \subseteq 1..made' /\ head' \in landed'
    BY <1>1, <1>6, <2>1 DEF Grown, History, Revs
  <2>3. Parent(q)' # q
    BY <1>1, <1>6, <2>1 DEF Grown, History, Parent, Revs
  <2>4. \A r \in landed : Parent(r)' # q
    BY <1>4, <2>1, Limits DEF History, Revs
  <2>. QED BY <1>2, <1>3, <1>6, <2>2, <2>3, <2>4 DEF History
<1>. QED BY <1>1, <1>5, <1>6 DEF Moved

\* Heads never return: an overtaken revision stays overtaken.
LEMMA StaysOvertaken ==
  ASSUME TypeOK, Control, Holding, History, Next, NEW r \in 1..made, Parent(r) # head
  PROVE  Parent(r)' # head' /\ (r \notin landed => r \notin landed')
<1>1. Moved /\ Grown
  BY RemoteSteps
<1>2. r \in Revs /\ Parent(r)' = Parent(r) /\ Parent(r) \in landed \cup {0}
  BY <1>1, Limits DEF Grown, History, Parent, Revs
<1>3. CASE head' = head /\ landed' = landed
  BY <1>2, <1>3
<1>4. ASSUME NEW q \in Revs, Parent(q) = head, head' = q, landed' = landed \cup {q}
      PROVE  Parent(r)' # head' /\ (r \notin landed => r \notin landed')
  BY <1>2, <1>4 DEF History, Revs
<1>. QED BY <1>1, <1>3, <1>4 DEF Moved

-----------------------------------------------------------------------------
(* What one step can do to the durable state and the commands of a clone.  *)

Sessions == [Revs -> Rows \cup {NoRow}]

\* Compaction touches no receipt.
LEMMA CompactFacts ==
  ASSUME NEW c \in Clones, NEW cs \in [Checkouts -> CheckoutType], NEW table \in Sessions
  PROVE  /\ Compact(c, cs, table) \in [Checkouts -> CheckoutType]
         /\ \A k \in Checkouts : Compact(c, cs, table)[k].pending = cs[k].pending
<1>. DEFINE me(k) == [clone |-> c, checkout |-> k, life |-> disk[c].life]
            ses(k) == [s \in Revs |-> IF table[s].owner = me(k) /\ table[s].gen = cs[k].sessions[s]
                                      THEN cs[k].sessions[s] ELSE 0]
            bin(k) == [p \in Plans |-> IF cs[k].bindings[p].id \in Present(table)
                                       THEN cs[k].bindings[p] ELSE NoBinding]
            new(k) == IF cs[k].pending # NoPending THEN cs[k]
                      ELSE [cs[k] EXCEPT !.sessions = ses(k), !.bindings = bin(k)]
<1>1. ASSUME NEW k \in Checkouts
      PROVE  new(k) \in CheckoutType /\ new(k).pending = cs[k].pending
  <2>1. cs[k] \in CheckoutType
    OBVIOUS
  <2>2. ses(k) \in [Revs -> 0..MaxRev] /\ bin(k) \in [Plans -> [id: 0..MaxRev, gen: 0..MaxRev]]
    BY <2>1, Limits DEF CheckoutType, NoBinding
  <2>. HIDE DEF ses, bin
  <2>. QED BY <2>1, <2>2 DEF CheckoutType
<1>2. Compact(c, cs, table) = [k \in Checkouts |-> new(k)]
  BY DEF Compact
<1>. HIDE DEF new
<1>. QED BY <1>1, <1>2

LEMMA CachedFacts ==
  ASSUME TypeOK, NEW c \in Clones, NEW r \in Revs
  PROVE  /\ Cached(c, r) \in DiskType
         /\ Cached(c, r).joined = disk[c].joined /\ Cached(c, r).life = disk[c].life
         /\ \A k \in Checkouts : Cached(c, r).checkouts[k].pending = Pend(c, k)
<1>1. /\ disk[c] \in DiskType /\ disk[c].checkouts \in [Checkouts -> CheckoutType]
      /\ commits[r].sessions \in Sessions
  BY DEF TypeOK, DiskType, CommitType, Sessions
<1>2. Cached(c, r) = [disk[c] EXCEPT !.checkouts =
                        Compact(c, disk[c].checkouts, commits[r].sessions)]
  BY DEF Cached
<1>. QED BY <1>1, <1>2, CompactFacts DEF DiskType, Pend

LEMMA SettledFacts ==
  ASSUME NEW was \in CheckoutType, NEW pend \in PendingType,
         NEW row \in Rows \cup {NoRow}, NEW me
  PROVE  /\ Settled(was, pend, row, me) \in CheckoutType
         /\ Settled(was, pend, row, me).pending = was.pending
<1>1. was.sessions \in [Revs -> 0..MaxRev] /\ 0 \in 0..MaxRev
      /\ was.bindings \in [Plans -> [id: 0..MaxRev, gen: 0..MaxRev]]
      /\ pend.id \in 0..MaxRev /\ pend.gen \in 0..MaxRev
  BY Limits DEF CheckoutType, PendingType
<1>. DEFINE s1 == [was.sessions EXCEPT ![pend.id] = 0]
            s2 == [was.sessions EXCEPT ![pend.id] = pend.gen]
            b1 == [p \in Plans |-> IF was.bindings[p].id = pend.id THEN NoBinding
                                   ELSE was.bindings[p]]
            b2 == [p \in Plans |-> IF p = pend.binding /\ Fits(was.bindings, p)
                                   THEN [id |-> pend.id, gen |-> pend.gen]
                                   ELSE was.bindings[p]]
<1>2. s1 \in [Revs -> 0..MaxRev] /\ s2 \in [Revs -> 0..MaxRev]
  BY <1>1
<1>3. b1 \in [Plans -> [id: 0..MaxRev, gen: 0..MaxRev]]
  BY <1>1 DEF NoBinding
<1>4. b2 \in [Plans -> [id: 0..MaxRev, gen: 0..MaxRev]]
  BY <1>1
<1>5. Settled(was, pend, row, me) \in
        {was, [was EXCEPT !.sessions = s1, !.bindings = b1],
              [was EXCEPT !.sessions = s2, !.bindings = b2]}
  BY DEF Settled
<1>. HIDE DEF s1, s2, b1, b2
<1>. QED BY <1>2, <1>3, <1>4, <1>5 DEF CheckoutType

\* Accepting an outcome clears the receipt of the command's worktree alone.
LEMMA AcceptedFacts ==
  ASSUME TypeOK, NEW c \in Clones, NEW r \in Revs, Pending(c).id \in Revs
  PROVE  /\ Accepted(c, r) \in DiskType
         /\ Accepted(c, r).joined = disk[c].joined /\ Accepted(c, r).life = disk[c].life
         /\ \A k \in Checkouts : Accepted(c, r).checkouts[k].pending =
              IF k = proc[c].ck THEN NoPending ELSE Pend(c, k)
<1>. DEFINE k  == proc[c].ck
            cs == [disk[c].checkouts EXCEPT ![k].pending = NoPending]
            all == Compact(c, cs, commits[r].sessions)
            row == commits[r].sessions[Pending(c).id]
            new == Settled(all[k], Pending(c), row, Owner(c))
<1>1. /\ disk[c] \in DiskType /\ k \in Checkouts
      /\ disk[c].checkouts \in [Checkouts -> CheckoutType] /\ commits[r].sessions \in Sessions
  BY DEF TypeOK, DiskType, CommitType, ProcType, Sessions
<1>2. NoPending \in PendingType /\ Pending(c) \in PendingType
  BY <1>1, Limits DEF NoPending, PendingType, Pending, CheckoutType
<1>3. /\ cs \in [Checkouts -> CheckoutType]
      /\ \A x \in Checkouts : cs[x].pending = IF x = k THEN NoPending ELSE Pend(c, x)
  BY <1>1, <1>2 DEF CheckoutType, Pend
<1>4. /\ all \in [Checkouts -> CheckoutType]
      /\ \A x \in Checkouts : all[x].pending = cs[x].pending
  <2>. HIDE DEF cs
  <2>. QED BY <1>1, <1>3, CompactFacts
<1>5. row \in Rows \cup {NoRow}
  BY RowFacts
<1>6. new \in CheckoutType /\ new.pending = all[k].pending
  <2>. HIDE DEF all, row, k
  <2>1. all[k] \in CheckoutType
    BY <1>1, <1>4
  <2>. HIDE DEF new
  <2>2. \A me : /\ Settled(all[k], Pending(c), row, me) \in CheckoutType
                /\ Settled(all[k], Pending(c), row, me).pending = all[k].pending
    BY <1>2, <1>5, <2>1, SettledFacts
  <2>. QED BY <2>2 DEF new
<1>7. Accepted(c, r) = [disk[c] EXCEPT !.checkouts = [all EXCEPT ![k] = new]]
  BY DEF Accepted, Pending
<1>. HIDE DEF cs, all, row, new, k
<1>8. [all EXCEPT ![k] = new] \in [Checkouts -> CheckoutType]
  BY <1>1, <1>4, <1>6
<1>9. \A x \in Checkouts : [all EXCEPT ![k] = new][x].pending =
                              IF x = k THEN NoPending ELSE Pend(c, x)
  BY <1>1, <1>3, <1>4, <1>6
<1>. QED BY <1>1, <1>7, <1>8, <1>9 DEF DiskType, k

\* The steps of one clone's command.
Acts(c) ==
  \/ \E k \in Checkouts, kind \in Commands : Begin(c, k, kind)
  \/ Step(c) \/ Abort(c) \/ Join(c) \/ Abandon(c)

LEMMA OnlyActor ==
  ASSUME TypeOK, Next, NEW c \in Clones
  PROVE  Acts(c) \/ (proc'[c] = proc[c] /\ disk'[c] = disk[c])
<1>1. ASSUME NEW d \in Clones, Acts(d), d # c
      PROVE  proc'[c] = proc[c] /\ disk'[c] = disk[c]
  <2>1. ASSUME \E k \in Checkouts, kind \in Commands : Begin(d, k, kind)
        PROVE  proc'[c] = proc[c] /\ disk'[c] = disk[c]
    BY <1>1, <2>1 DEF Begin, Go, TypeOK
  <2>2. ASSUME Reconcile(d) \/ Reread(d) \/ Accept(d) \/ Join(d) \/ Leave(d) \/ Abandon(d)
        PROVE  proc'[c] = proc[c] /\ disk'[c] = disk[c]
    BY <1>1, <2>2 DEF Reconcile, Reread, Accept, Join, Leave, Abandon, Forget, Go, End, TypeOK
  <2>3. ASSUME Write(d) PROVE proc'[c] = proc[c] /\ disk'[c] = disk[c]
    <3>1. \E x : proc' = [proc EXCEPT ![d] = x]
      BY <2>3 DEF Write, Go
    <3>2. \E x : disk' = [disk EXCEPT ![d] = x]
      BY <2>3 DEF Write
    <3>. QED BY <1>1, <3>1, <3>2 DEF TypeOK
  <2>4. ASSUME \/ Refuse(d) \/ PushOk(d) \/ PushUnheard(d) \/ PushDelayed(d) \/ PushRejected(d)
               \/ Resolve(d) \/ Retry(d) \/ Abort(d)
        PROVE  proc'[c] = proc[c] /\ disk'[c] = disk[c]
    BY <1>1, <2>4 DEF Refuse, PushOk, PushUnheard, PushDelayed, PushRejected, Resolve, Retry,
                      Abort, Go, End, TypeOK
  <2>5. ASSUME Settle(d) PROVE proc'[c] = proc[c] /\ disk'[c] = disk[c]
    <3>1. \E x : proc' = [proc EXCEPT ![d] = x]
      BY <2>5 DEF Settle, Go, End
    <3>2. disk' = disk \/ \E x : disk' = [disk EXCEPT ![d] = x]
      BY <2>5 DEF Settle
    <3>. QED BY <1>1, <3>1, <3>2 DEF TypeOK
  <2>. QED BY <1>1, <2>1, <2>2, <2>3, <2>4, <2>5 DEF Acts, Step
<1>2. ASSUME NEW r \in Revs, Arrive(r) \/ Vanish(r)
      PROVE  proc'[c] = proc[c] /\ disk'[c] = disk[c]
  BY <1>2 DEF Arrive, Vanish, localVars
<1>. QED BY <1>1, <1>2 DEF Next, Acts

LEMMA TokenFacts ==
  ASSUME TypeOK, NEW p \in ProcType, made < MaxRev, p.op.kind \in Mutations,
         p.op.kind \in {"update", "finish", "recover"} => p.op.id \in Revs
  PROVE  /\ Token(p) \in 0..MaxRev /\ Task(p, Token(p)) \in Revs
         /\ p.op.kind \in {"start", "recover"} => Token(p) \in Revs
<1>1. p.gen \in 0..MaxRev /\ p.op.gen \in 0..MaxRev /\ made + 1 \in Revs
  BY Limits DEF ProcType, OpType, TypeOK, Revs
<1>. QED BY <1>1, Limits DEF Token, Task, Mutations, Revs

\* One receipt is set, and nothing else on disk.
WithReceipt(c, j, x) == [disk EXCEPT ![c].checkouts[j].pending = x]

LEMMA SetReceipt ==
  ASSUME TypeOK, NEW c \in Clones, NEW j \in Checkouts, NEW x,
         disk' = WithReceipt(c, j, x)
  PROVE  /\ \A k \in Checkouts : Pend(c, k)' = IF k = j THEN x ELSE Pend(c, k)
         /\ x \in PendingType => disk' \in [Clones -> DiskType]
         /\ disk'[c].joined = disk[c].joined /\ disk'[c].life = disk[c].life
<1>1. /\ disk \in [Clones -> DiskType] /\ disk[c] \in DiskType
      /\ disk[c].checkouts \in [Checkouts -> CheckoutType] /\ disk[c].checkouts[j] \in CheckoutType
  BY DEF TypeOK, DiskType
<1>. DEFINE me  == [disk[c].checkouts[j] EXCEPT !.pending = x]
            cs  == [disk[c].checkouts EXCEPT ![j] = me]
            all == [disk[c] EXCEPT !.checkouts = cs]
<1>2. disk' = [disk EXCEPT ![c] = all]
  BY DEF WithReceipt
<1>3. me.pending = x /\ (x \in PendingType => me \in CheckoutType)
  BY <1>1 DEF CheckoutType
<1>4. /\ \A k \in Checkouts : cs[k] = IF k = j THEN me ELSE disk[c].checkouts[k]
      /\ me \in CheckoutType => cs \in [Checkouts -> CheckoutType]
  <2>. HIDE DEF me
  <2>. QED BY <1>1
<1>5. /\ all.checkouts = cs /\ all.joined = disk[c].joined /\ all.life = disk[c].life
      /\ cs \in [Checkouts -> CheckoutType] => all \in DiskType
  <2>. HIDE DEF cs
  <2>. QED BY <1>1 DEF DiskType
<1>6. disk'[c] = all
  <2>. HIDE DEF all
  <2>. QED BY <1>1, <1>2
<1>7. x \in PendingType => disk' \in [Clones -> DiskType]
  <2>. HIDE DEF all, cs, me
  <2>. QED BY <1>1, <1>2, <1>3, <1>4, <1>5
<1>8. ASSUME NEW k \in Checkouts
      PROVE  Pend(c, k)' = IF k = j THEN x ELSE Pend(c, k)
  <2>1. Pend(c, k)' = cs[k].pending
    <3>. HIDE DEF all, cs, me
    <3>. QED BY <1>5, <1>6 DEF Pend
  <2>2. cs[k].pending = IF k = j THEN x ELSE disk[c].checkouts[k].pending
    <3>. HIDE DEF cs, me
    <3>. QED BY <1>3, <1>4
  <2>. HIDE DEF cs, me
  <2>. QED BY <2>1, <2>2 DEF Pend
<1>. HIDE DEF all, cs, me
<1>. QED BY <1>5, <1>6, <1>7, <1>8

\* What a write leaves behind.
LEMMA WriteFacts ==
  ASSUME TypeOK, Control, Holding, History, NEW c \in Clones, Write(c)
  PROVE  \E p \in Asked(proc[c]) :
           /\ p \in ProcType /\ p.ck = proc[c].ck /\ p.snap = proc[c].snap
           /\ p.op.kind \in Mutations /\ Acceptable(c, p)
           /\ Token(p) \in 0..MaxRev /\ Task(p, Token(p)) \in Revs
           /\ p.op.kind \in {"start", "recover"} => Token(p) \in Revs
           /\ p.snap \in landed /\ landed \subseteq Revs
           /\ made' = made + 1 /\ made < MaxRev /\ made + 1 \in Revs
           /\ commits' = [commits EXCEPT ![made + 1] =
                [parent |-> p.snap, version |-> NewBoard(p, Token(p), Owner(c)).version,
                 sessions |-> NewBoard(p, Token(p), Owner(c)).sessions]]
           /\ consent' = [consent EXCEPT ![made + 1] = p.op.expect]
           /\ disk' = WithReceipt(c, p.ck,
                [rev |-> made + 1, kind |-> p.op.kind, id |-> Task(p, Token(p)),
                 gen |-> Token(p), binding |-> p.op.binding])
           /\ proc' = [proc EXCEPT ![c] = [p EXCEPT !.pc = "push", !.rev = made + 1,
                                                    !.gen = Token(p)]]
           /\ p.op.expect # 0 => Upgrade(p.op) \/ p.op.kind = "recover"
           /\ p.op.kind \in {"update", "finish", "recover"} => p.op.id \in Revs
           /\ p = proc[c] \/ p.attempt = 0
<1>1. /\ proc[c].op.kind \in Mutations \cup {"mutate"} /\ made < MaxRev
      /\ made' = made + 1 /\ proc[c].pc # "idle"
  BY DEF Write
<1>2. landed \subseteq Revs /\ made + 1 \in Revs /\ proc[c].snap \in landed
  BY <1>1, Limits DEF History, Control, Steered, TypeOK, Revs
<1>3. PICK p \in Asked(proc[c]) :
           /\ Acceptable(c, p)
           /\ commits' = [commits EXCEPT ![made + 1] =
                [parent |-> p.snap, version |-> NewBoard(p, Token(p), Owner(c)).version,
                 sessions |-> NewBoard(p, Token(p), Owner(c)).sessions]]
           /\ consent' = [consent EXCEPT ![made + 1] = p.op.expect]
           /\ disk' = WithReceipt(c, p.ck,
                [rev |-> made + 1, kind |-> p.op.kind, id |-> Task(p, Token(p)),
                 gen |-> Token(p), binding |-> p.op.binding])
           /\ proc' = [proc EXCEPT ![c] = [p EXCEPT !.pc = "push", !.rev = made + 1,
                                                    !.gen = Token(p)]]
  BY Zenon DEF Write, Go, WithReceipt
<1>4. /\ p \in ProcType /\ p.op.kind \in Mutations /\ p.ck = proc[c].ck
      /\ p.snap = proc[c].snap
      /\ p.op.kind \in {"update", "finish", "recover"} => p.op.id \in Revs
      /\ p.op.expect # 0 => Upgrade(p.op) \/ p.op.kind = "recover"
      /\ p = proc[c] \/ p.attempt = 0
  BY <1>1, <1>2, AskedFacts
<1>5. /\ Token(p) \in 0..MaxRev /\ Task(p, Token(p)) \in Revs
      /\ p.op.kind \in {"start", "recover"} => Token(p) \in Revs
  BY <1>1, <1>4, TokenFacts
<1>. QED BY <1>1, <1>2, <1>3, <1>4, <1>5

\* A receipt is only ever saved by a write, for the commit it has just made.
LEMMA ReceiptSteps ==
  ASSUME TypeOK, Control, Holding, History, Next, NEW c \in Clones, NEW k \in Checkouts
  PROVE  \/ Pend(c, k)' = Pend(c, k)
         \/ Pend(c, k)' = NoPending
         \/ /\ Write(c) /\ k = proc[c].ck /\ made' = made + 1
            /\ Pend(c, k)'.rev = made + 1 /\ Pend(c, k)'.id \in Revs
<1>. DEFINE Kept == Pend(c, k)' = Pend(c, k)
            Gone == Pend(c, k)' = NoPending
<1>0. /\ disk[c] \in DiskType /\ disk[c].checkouts \in [Checkouts -> CheckoutType]
      /\ proc[c] \in ProcType /\ proc[c].ck \in Checkouts /\ landed \subseteq Revs
  BY Limits DEF TypeOK, DiskType, ProcType, History, Revs
<1>1. ASSUME NEW r \in Revs, disk' = [disk EXCEPT ![c] = Cached(c, r)]
      PROVE  Kept
  BY <1>1, CachedFacts DEF Pend, TypeOK
<1>2. ASSUME NEW r \in Revs, disk' = [disk EXCEPT ![c] = Accepted(c, r)],
             Pending(c).id \in Revs
      PROVE  Kept \/ Gone
  BY <1>2, AcceptedFacts DEF Pend, TypeOK
<1>3. ASSUME NEW j \in Checkouts, NEW kind \in Commands, Begin(c, j, kind) PROVE Kept
  <2>1. head \in Revs
    BY DEF TypeOK
  <2>2. disk' = disk \/ disk' = [disk EXCEPT ![c] = Cached(c, head)]
    BY <1>3 DEF Begin
  <2>. QED BY <1>1, <2>1, <2>2 DEF Pend
<1>4. ASSUME Reconcile(c) PROVE Kept \/ Gone
  <2>1. proc[c].snap \in Revs /\ head \in Revs
    BY <1>0, <1>4 DEF Reconcile, Control, Steered, TypeOK
  <2>2. CASE Pending(c).rev \in landed
    <3>1. Pending(c) # NoPending /\ Pending(c).id \in Revs
      BY SMTT(30), <1>0, <2>2 DEF Holding, Pending, Pend, NoPending, Revs
    <3>. QED BY <1>2, <1>4, <2>1, <2>2, <3>1 DEF Reconcile
  <2>3. CASE Pending(c).rev \notin landed
    BY <1>1, <1>4, <2>1, <2>3 DEF Reconcile
  <2>. QED BY <2>2, <2>3
<1>5. ASSUME Reread(c) PROVE Kept
  BY <1>1, <1>5 DEF Reread, TypeOK
<1>6. ASSUME Accept(c) PROVE Kept \/ Gone
  <2>1. proc[c].snap \in Revs
    BY <1>0, <1>6 DEF Accept, Control, Steered
  <2>2. Pending(c) # NoPending /\ Pending(c).id \in Revs
    BY <1>0, <1>6 DEF Accept, Holding, Pending, Pend, NoPending
  <2>. QED BY <1>2, <1>6, <2>1, <2>2 DEF Accept
<1>7. ASSUME Join(c) \/ Leave(c) \/ Abandon(c) PROVE Kept \/ Gone
  <2>1. \/ disk' = disk
        \/ disk' = [disk EXCEPT ![c] = [Joined EXCEPT !.life = disk[c].life]]
        \/ disk' = [disk EXCEPT ![c] = [Joined EXCEPT !.joined = FALSE, !.life = disk[c].life + 1]]
    BY <1>7 DEF Join, Leave, Abandon, Forget
  <2>2. disk' = disk \/ disk'[c].checkouts = [j \in Checkouts |-> Blank]
    BY <2>1 DEF Joined, TypeOK
  <2>. QED BY <2>2 DEF Pend, Blank
<1>8. ASSUME Settle(c) PROVE Kept \/ Gone
  <2>1. \/ disk' = disk
        \/ disk' = WithReceipt(c, proc[c].ck, NoPending)
    BY <1>8 DEF Settle, WithReceipt
  <2>2. CASE disk' = disk
    BY <2>2 DEF Pend
  <2>3. CASE disk' = WithReceipt(c, proc[c].ck, NoPending)
    <3>1. Pend(c, k)' = IF k = proc[c].ck THEN NoPending ELSE Pend(c, k)
      BY <1>0, <2>3, SetReceipt
    <3>. QED BY <3>1
  <2>. QED BY <2>1, <2>2, <2>3
<1>9. ASSUME \/ Refuse(c) \/ PushOk(c) \/ PushUnheard(c) \/ PushDelayed(c) \/ PushRejected(c)
             \/ Resolve(c) \/ Retry(c) \/ Abort(c)
      PROVE  Kept
  BY <1>9 DEF Refuse, PushOk, PushUnheard, PushDelayed, PushRejected, Resolve, Retry, Abort, Pend
<1>10. ASSUME Write(c)
       PROVE  Kept \/ (/\ k = proc[c].ck /\ made' = made + 1
                       /\ Pend(c, k)'.rev = made + 1 /\ Pend(c, k)'.id \in Revs)
  <2>1. PICK p \in Asked(proc[c]) :
           /\ p.ck = proc[c].ck /\ made' = made + 1 /\ Task(p, Token(p)) \in Revs
           /\ disk' = WithReceipt(c, p.ck,
                [rev |-> made + 1, kind |-> p.op.kind, id |-> Task(p, Token(p)),
                 gen |-> Token(p), binding |-> p.op.binding])
    BY <1>10, WriteFacts
  <2>. DEFINE x == [rev |-> made + 1, kind |-> p.op.kind, id |-> Task(p, Token(p)),
                    gen |-> Token(p), binding |-> p.op.binding]
  <2>2. x.rev = made + 1 /\ x.id = Task(p, Token(p))
    OBVIOUS
  <2>3. Pend(c, k)' = IF k = proc[c].ck THEN x ELSE Pend(c, k)
    <3>1. disk' = WithReceipt(c, proc[c].ck, x)
      BY <2>1
    <3>. HIDE DEF x
    <3>. QED BY <1>0, <3>1, SetReceipt
  <2>. HIDE DEF x
  <2>. QED BY <2>1, <2>2, <2>3
<1>. QED BY OnlyActor, <1>3, <1>4, <1>5, <1>6, <1>7, <1>8, <1>9, <1>10 DEF Acts, Step, Pend

-----------------------------------------------------------------------------
(* The invariant is inductive, one part at a time. *)

Live(c) == proc[c].pc \in {"push", "resolve", "settle", "accept"}

\* How a command comes to be publishing: it has just written its commit, it
\* retries its saved receipt, or it was publishing that commit already.
LEMMA LiveSteps ==
  ASSUME TypeOK, Control, Holding, History, Next, NEW c \in Clones, Live(c)'
  PROVE  \/ proc'[c] = proc[c] /\ disk'[c] = disk[c] /\ Live(c)
         \/ /\ Write(c) /\ proc'[c].rev = made + 1 /\ proc'[c].ck = proc[c].ck
            /\ proc'[c].pc = "push"
         \/ /\ PushOk(c) \/ PushUnheard(c) \/ PushDelayed(c) \/ PushRejected(c) \/ Resolve(c)
            /\ Live(c) /\ disk' = disk
            /\ proc'[c].rev = proc[c].rev /\ proc'[c].ck = proc[c].ck
            /\ proc'[c].op = proc[c].op
         \/ /\ Retry(c) /\ disk' = disk
            /\ proc'[c].rev = Pending(c).rev /\ proc'[c].ck = proc[c].ck
            /\ proc'[c].op = proc[c].op
<1>0. proc[c] \in ProcType /\ proc \in [Clones -> ProcType]
  BY DEF TypeOK
<1>1. ASSUME NEW k \in Checkouts, NEW kind \in Commands, Begin(c, k, kind) PROVE FALSE
  BY <1>0, <1>1 DEF Begin, Go, At, Live, ProcType
<1>2. ASSUME Reconcile(c) \/ Refuse(c) \/ Reread(c) \/ Accept(c) \/ Abort(c)
      PROVE  FALSE
  <2>1. CASE Reconcile(c)
    <3>1. \/ End(c)
          \/ Go(c, [proc[c] EXCEPT !.pc = "act", !.snap = head])
          \/ Go(c, [proc[c] EXCEPT !.pc = "act", !.snap = proc[c].snap])
      BY <2>1 DEF Reconcile
    <3>2. proc'[c].pc \in {"idle", "act"}
      BY ZenonT(30), <3>1, Went, Turns DEF Turned
    <3>. QED BY <3>2 DEF Live
  <2>2. CASE Reread(c)
    <3>1. \/ End(c)
          \/ Go(c, [proc[c] EXCEPT !.pc = "act", !.snap = head, !.attempt = @ + 1,
                                   !.rev = 0, !.out = "none"])
      BY <2>2 DEF Reread
    <3>2. proc'[c].pc \in {"idle", "act"}
      BY <1>0, <3>1, Went DEF ProcType
    <3>. QED BY <3>2 DEF Live
  <2>3. CASE Refuse(c) \/ Accept(c) \/ Abort(c)
    BY <1>0, <2>3 DEF Refuse, Accept, Abort, End, Idle, At, Live, ProcType
  <2>. QED BY <1>2, <2>1, <2>2, <2>3
<1>3. ASSUME Settle(c) \/ Leave(c) PROVE FALSE
  BY <1>0, <1>3 DEF Settle, Leave, Forget, Go, End, Idle, At, Live, ProcType
<1>4. ASSUME Join(c) \/ Abandon(c) PROVE FALSE
  BY <1>0, <1>4 DEF Join, Abandon, Forget, End, Idle, At, Live, ProcType
<1>5. ASSUME Write(c)
      PROVE  proc'[c].rev = made + 1 /\ proc'[c].ck = proc[c].ck /\ proc'[c].pc = "push"
  <2>1. PICK p \in ProcType : p.ck = proc[c].ck
           /\ proc' = [proc EXCEPT ![c] = [p EXCEPT !.pc = "push", !.rev = made + 1,
                                                    !.gen = Token(p)]]
    BY <1>5, WriteFacts
  <2>. QED BY <1>0, <2>1 DEF ProcType
<1>6. ASSUME PushOk(c) \/ PushUnheard(c) \/ PushDelayed(c) \/ PushRejected(c) \/ Resolve(c)
      PROVE  /\ Live(c) /\ disk' = disk
             /\ proc'[c].rev = proc[c].rev /\ proc'[c].ck = proc[c].ck
             /\ proc'[c].op = proc[c].op
  <2>1. CASE PushOk(c)
    BY <1>0, <2>1 DEF PushOk, Pushing, Go, Live, ProcType
  <2>2. CASE PushUnheard(c)
    BY <1>0, <2>2 DEF PushUnheard, Pushing, Go, Live, ProcType
  <2>3. CASE PushDelayed(c)
    <3>1. /\ Live(c) /\ disk' = disk
          /\ End(c) \/ Go(c, [proc[c] EXCEPT !.pc = "resolve", !.out = "unknown"])
      BY <2>3 DEF PushDelayed, Pushing, Live
    <3>2. proc'[c].pc # "idle"
      BY DEF Live
    <3>. QED BY <3>1, <3>2, Went, Turns DEF Turned
  <2>4. CASE PushRejected(c)
    BY <1>0, <2>4 DEF PushRejected, Pushing, Go, Live, ProcType
  <2>5. CASE Resolve(c)
    <3>1. /\ Live(c) /\ disk' = disk
          /\ \/ End(c)
             \/ Go(c, [proc[c] EXCEPT !.pc = "accept", !.snap = head])
             \/ Go(c, [proc[c] EXCEPT !.pc = "settle", !.out = "contention"])
             \/ Go(c, [proc[c] EXCEPT !.pc = "settle", !.out = "unavailable"])
      BY <2>5 DEF Resolve, Live
    <3>2. proc'[c].pc # "idle"
      BY DEF Live
    <3>. QED BY <3>1, <3>2, Went, Turns DEF Turned
  <2>. QED BY <1>6, <2>1, <2>2, <2>3, <2>4, <2>5
<1>7. ASSUME Retry(c)
      PROVE  /\ disk' = disk /\ proc'[c].rev = Pending(c).rev /\ proc'[c].ck = proc[c].ck
             /\ proc'[c].op = proc[c].op
  <2>1. /\ disk' = disk
        /\ \/ Go(c, [proc[c] EXCEPT !.pc = "accept", !.rev = Pending(c).rev, !.snap = head])
           \/ Go(c, [proc[c] EXCEPT !.pc = "settle", !.rev = Pending(c).rev,
                                    !.out = "contention"])
           \/ Go(c, [proc[c] EXCEPT !.pc = "push", !.rev = Pending(c).rev])
    BY <1>7 DEF Retry
  <2>. QED BY ZenonT(30), <1>0, <2>1, Went DEF ProcType
<1>8. CASE proc'[c] = proc[c] /\ disk'[c] = disk[c]
  BY <1>8 DEF Live
<1>9. CASE Acts(c)
  BY <1>1, <1>2, <1>3, <1>4, <1>5, <1>6, <1>7, <1>9 DEF Acts, Step
<1>. QED BY <1>8, <1>9, OnlyActor

LEMMA HoldingStep ==
  ASSUME TypeOK, Control, Holding, History, Next
  PROVE  Holding'
<1>0. /\ Grown /\ made \in Nat
      /\ \A r \in 2..made : r \in 2..made'
  BY RemoteSteps, Limits DEF Grown, Revs
<1>1. ASSUME NEW c \in Clones, NEW k \in Checkouts, Pend(c, k)' # NoPending
      PROVE  Pend(c, k)'.rev \in 2..made' /\ Pend(c, k)'.id \in Revs
  <2>1. CASE Pend(c, k)' = Pend(c, k)
    BY <1>0, <1>1, <2>1 DEF Holding
  <2>2. CASE Pend(c, k)'.rev = made + 1 /\ made' = made + 1 /\ Pend(c, k)'.id \in Revs
    BY <1>0, <2>2, Limits DEF Grown, Revs
  <2>. QED BY <1>1, <2>1, <2>2, ReceiptSteps
<1>2. ASSUME NEW c \in Clones, NEW d \in Clones, NEW k \in Checkouts, NEW l \in Checkouts,
             Pend(c, k)'.rev = Pend(d, l)'.rev, Pend(c, k)'.rev # 0
      PROVE  c = d /\ k = l
  <2>1. \A e \in Clones, j \in Checkouts : Pend(e, j).rev # 0 => Pend(e, j).rev <= made
    BY <1>0 DEF Holding, NoPending
  <2>2. ASSUME NEW e \in Clones, NEW j \in Checkouts, Pend(e, j)'.rev # 0
        PROVE  \/ Pend(e, j)'.rev = Pend(e, j).rev
               \/ Write(e) /\ j = proc[e].ck /\ Pend(e, j)'.rev = made + 1
    BY <2>2, ReceiptSteps DEF NoPending
  <2>3. ASSUME Write(c), Write(d) PROVE c = d
    <3>1. \E p : proc' = [proc EXCEPT ![c] = [p EXCEPT !.pc = "push", !.rev = made + 1,
                                                    !.gen = Token(p)]]
      BY <2>3, WriteFacts
    <3>2. \E p \in ProcType :
             proc' = [proc EXCEPT ![d] = [p EXCEPT !.pc = "push", !.rev = made + 1,
                                                    !.gen = Token(p)]]
      BY <2>3, WriteFacts
    <3>3. proc[d].pc = "act"
      BY <2>3 DEF Write
    <3>4. proc'[d].pc = "push"
      BY <3>2 DEF TypeOK, ProcType
    <3>. QED BY <3>1, <3>3, <3>4 DEF TypeOK
  <2>. QED BY <1>0, <1>2, <2>1, <2>2, <2>3 DEF Holding
<1>3. ASSUME NEW c \in Clones, Live(c)'
      PROVE  /\ proc'[c].rev = disk'[c].checkouts[proc'[c].ck].pending.rev
             /\ proc'[c].rev \in 2..made'
  <2>. PICK k \in Checkouts : k = proc[c].ck
    BY DEF TypeOK, ProcType
  <2>1. k = proc[c].ck
    OBVIOUS
  <2>2. CASE Live(c) /\ disk'[c] = disk[c] /\ proc'[c].rev = proc[c].rev
             /\ proc'[c].ck = k
    <3>1. proc[c].rev = disk[c].checkouts[k].pending.rev /\ proc[c].rev \in 2..made
      BY <2>1, <2>2 DEF Live, Holding, Pend
    <3>. QED BY <1>0, <2>2, <3>1
  <2>3. CASE Write(c) /\ proc'[c].rev = made + 1 /\ proc'[c].ck = k
    <3>1. made' = made + 1 /\ disk'[c].checkouts[k].pending.rev = made + 1
      <4>1. PICK p \in ProcType :
             /\ p.ck = proc[c].ck /\ made' = made + 1
             /\ disk' = WithReceipt(c, p.ck,
                  [rev |-> made + 1, kind |-> p.op.kind, id |-> Task(p, Token(p)),
                   gen |-> Token(p), binding |-> p.op.binding])
        BY <2>3, WriteFacts
      <4>. DEFINE x == [rev |-> made + 1, kind |-> p.op.kind, id |-> Task(p, Token(p)),
                        gen |-> Token(p), binding |-> p.op.binding]
      <4>2. x.rev = made + 1
        OBVIOUS
      <4>3. Pend(c, k)' = x
        <5>1. disk' = WithReceipt(c, k, x)
          BY <2>1, <4>1
        <5>. HIDE DEF x
        <5>. QED BY <5>1, SetReceipt
      <4>. HIDE DEF x
      <4>. QED BY <4>1, <4>2, <4>3 DEF Pend
    <3>. QED BY <1>0, <2>3, <3>1, Limits DEF Grown, Revs
  <2>4. CASE Retry(c) /\ disk' = disk /\ proc'[c].rev = Pending(c).rev /\ proc'[c].ck = k
    <3>1. Pending(c) = Pend(c, k) /\ Pending(c) # NoPending
      BY <2>1, <2>4 DEF Retry, Pending, Pend
    <3>2. Pending(c).rev \in 2..made
      BY <3>1 DEF Holding
    <3>. QED BY <1>0, <2>4, <3>1, <3>2 DEF Pend
  <2>. QED BY <1>3, <2>1, <2>2, <2>3, <2>4, LiveSteps
<1>4. ASSUME NEW c \in Clones, proc'[c].pc \in {"push", "resolve", "settle", "accept"}
      PROVE  /\ proc'[c].rev = Pend(c, proc[c].ck)'.rev /\ proc'[c].rev \in 2..made'
  BY <1>3, <1>4 DEF Live, Pend
<1>. QED BY <1>1, <1>2, <1>3, <1>4 DEF Holding

\* Nobody else publishes the revision a clone is publishing.
LEMMA OwnRevision ==
  ASSUME TypeOK, Holding, NEW c \in Clones, NEW d \in Clones, Live(c), Live(d),
         proc[c].rev = proc[d].rev
  PROVE  c = d
<1>1. proc[c].ck \in Checkouts /\ proc[d].ck \in Checkouts
  BY DEF TypeOK, ProcType
<1>. QED BY <1>1 DEF Holding, Live

\* A private revision stays so while its command stands still.
LEMMA StaysPrivate ==
  ASSUME TypeOK, Control, Holding, History, Next, NEW c \in Clones, Live(c),
         proc'[c] = proc[c], Private(proc[c].rev)
  PROVE  Private(proc[c].rev)'
<1>1. Moved /\ Spread
  BY RemoteSteps
<1>2. ~Published(proc[c].rev)
  BY OwnRevision DEF Published, Live
<1>. QED BY <1>1, <1>2 DEF Moved, Spread, Private

LEMMA VerdictsStep ==
  ASSUME TypeOK, Control, Holding, History, Verdicts, Next
  PROVE  Verdicts'
<1>. SUFFICES ASSUME NEW c \in Clones
              PROVE
    /\ proc'[c].pc = "resolve" /\ proc'[c].out = "stale" => Parent(proc[c].rev)' # head'
    /\ proc'[c].pc = "settle" /\ proc'[c].out = "contention" => Overtaken(proc[c].rev)'
    /\ proc'[c].op.kind \in Mutations /\
         (\/ proc'[c].pc = "push"
          \/ proc'[c].pc = "resolve" /\ proc'[c].out = "denied"
          \/ proc'[c].pc = "settle" /\ proc'[c].out = "unavailable") => Private(proc[c].rev)'
  BY DEF Verdicts
<1>. DEFINE p == proc[c]
            Stale  == proc'[c].pc = "resolve" /\ proc'[c].out = "stale" =>
                        Parent(proc[c].rev)' # head'
            Lost   == proc'[c].pc = "settle" /\ proc'[c].out = "contention" =>
                        Overtaken(proc[c].rev)'
            Secret == proc'[c].op.kind \in Mutations /\
                        (\/ proc'[c].pc = "push"
                         \/ proc'[c].pc = "resolve" /\ proc'[c].out = "denied"
                         \/ proc'[c].pc = "settle" /\ proc'[c].out = "unavailable") =>
                      Private(proc[c].rev)'
<1>1. CASE ~Live(c)'
  BY <1>1 DEF Live
<1>2. CASE proc'[c] = proc[c] /\ Live(c)
  <2>1. p.rev \in 1..made
    BY <1>2, Limits DEF Live, Holding, TypeOK, Revs
  <2>2. Stale
    BY <1>2, <2>1, StaysOvertaken DEF Verdicts
  <2>3. Lost
    BY <1>2, <2>1, StaysOvertaken DEF Verdicts, Overtaken
  <2>4. Secret
    BY <1>2, StaysPrivate DEF Verdicts
  <2>. QED BY <2>2, <2>3, <2>4
<1>3. CASE Write(c) /\ proc'[c].rev = made + 1 /\ proc'[c].pc = "push"
  <2>1. made + 1 \notin landed /\ made + 1 \notin inflight
    BY Limits DEF History, TypeOK, Revs
  <2>2. landed' = landed /\ inflight' = inflight
    BY <1>3 DEF Write, remoteVars
  <2>. QED BY <1>3, <2>1, <2>2 DEF Private
<1>4. ASSUME PushOk(c) \/ PushUnheard(c) \/ PushDelayed(c), Live(c)'
      PROVE  Stale /\ Lost /\ Secret
  <2>1. \/ Go(c, [proc[c] EXCEPT !.pc = "accept", !.snap = proc[c].rev])
        \/ Go(c, [proc[c] EXCEPT !.pc = "resolve", !.out = "unknown"])
        \/ End(c)
    BY <1>4 DEF PushOk, PushUnheard, PushDelayed
  <2>2. \/ Turned(c, "accept", p.out, p.rev) \/ Turned(c, "resolve", "unknown", p.snap)
        \/ proc'[c].pc = "idle"
    BY <2>1, Went, Turns
  <2>. QED BY <2>2 DEF Turned
<1>5. ASSUME PushRejected(c) PROVE Stale /\ Lost /\ Secret
  <2>1. PICK why \in {"stale", "denied"} :
             /\ why = "stale" => head # commits[p.rev].parent
             /\ Go(c, [proc[c] EXCEPT !.pc = "resolve", !.out = why])
    BY <1>5 DEF PushRejected
  <2>2. Turned(c, "resolve", why, p.snap)
    BY <2>1, Turns
  <2>3. UNCHANGED <<remoteVars, commitVars>> /\ p.pc = "push"
    BY <1>5 DEF PushRejected, Pushing
  <2>. QED BY <2>1, <2>2, <2>3 DEF Turned, Verdicts, Private, Parent, remoteVars, commitVars
<1>6. ASSUME Resolve(c), Live(c)' PROVE Stale /\ Lost /\ Secret
  <2>1. /\ UNCHANGED <<remoteVars, commitVars>> /\ p.pc = "resolve"
        /\ \/ Go(c, [proc[c] EXCEPT !.pc = "accept", !.snap = head])
           \/ /\ p.rev \notin landed /\ (head # Parent(p.rev) \/ p.out = "stale")
              /\ Go(c, [proc[c] EXCEPT !.pc = "settle", !.out = "contention"])
           \/ /\ p.out = "denied"
              /\ Go(c, [proc[c] EXCEPT !.pc = "settle", !.out = "unavailable"])
           \/ End(c)
    BY <1>6 DEF Resolve, Parent
  <2>2. proc'[c].pc # "idle"
    BY <1>6 DEF Live
  <2>3. CASE Go(c, [proc[c] EXCEPT !.pc = "accept", !.snap = head])
    <3>1. Turned(c, "accept", p.out, head)
      BY <2>3, Turns
    <3>. QED BY <3>1 DEF Turned
  <2>4. CASE /\ p.rev \notin landed /\ (head # Parent(p.rev) \/ p.out = "stale")
             /\ Go(c, [proc[c] EXCEPT !.pc = "settle", !.out = "contention"])
    <3>1. Turned(c, "settle", "contention", p.snap)
      BY <2>4, Turns
    <3>. QED BY <2>1, <2>4, <3>1 DEF Turned, Verdicts, Overtaken, Parent, remoteVars, commitVars
  <2>5. CASE /\ p.out = "denied"
             /\ Go(c, [proc[c] EXCEPT !.pc = "settle", !.out = "unavailable"])
    <3>1. Turned(c, "settle", "unavailable", p.snap)
      BY <2>5, Turns
    <3>. QED BY <2>1, <2>5, <3>1 DEF Turned, Verdicts, Private, remoteVars
  <2>. QED BY <2>1, <2>2, <2>3, <2>4, <2>5, Went
<1>7. ASSUME Retry(c), proc'[c].rev = Pending(c).rev, proc'[c].op = proc[c].op
      PROVE  Stale /\ Lost /\ Secret
  <2>1. /\ proc[c].op.kind = "retry" /\ UNCHANGED <<remoteVars, commitVars>>
        /\ \/ Go(c, [proc[c] EXCEPT !.pc = "accept", !.rev = Pending(c).rev, !.snap = head])
           \/ /\ Pending(c).rev \notin landed /\ head # Parent(Pending(c).rev)
              /\ Go(c, [proc[c] EXCEPT !.pc = "settle", !.rev = Pending(c).rev,
                                       !.out = "contention"])
           \/ Go(c, [proc[c] EXCEPT !.pc = "push", !.rev = Pending(c).rev])
    BY <1>7 DEF Retry, Parent
  <2>2. \/ proc'[c].pc \in {"accept", "push"}
        \/ proc'[c].pc = "settle" /\ Pending(c).rev \notin landed
           /\ head # Parent(Pending(c).rev)
    BY <2>1, Went DEF ProcType
  <2>. QED BY <1>7, <2>1, <2>2 DEF Overtaken, Parent, Mutations, remoteVars, commitVars
<1>. QED BY <1>1, <1>2, <1>3, <1>4, <1>5, <1>6, <1>7, LiveSteps

LEMMA DroppedStep ==
  ASSUME TypeOK, Control, Holding, History, Verdicts, Dropped, Next
  PROVE  Dropped'
<1>0. Moved /\ Grown /\ Spread /\ made \in Nat
  BY RemoteSteps, Limits DEF Grown, Revs
<1>. DEFINE Unheld(r) == r \notin inflight
                         /\ \A c \in Clones, k \in Checkouts : Pend(c, k).rev # r
            Dead(r)   == r \in 2..made /\ r \notin landed /\ (Parent(r) # head \/ Unheld(r))
<1>1. \A r \in discarded : Dead(r)
  BY DEF Dropped
<1>2. ASSUME NEW r, Dead(r) PROVE Dead(r)'
  <2>1. r \in 2..made' /\ r \in 1..made
    BY <1>0, <1>2, Limits DEF Grown, Revs
  <2>2. CASE Parent(r) # head
    BY <1>2, <2>1, <2>2, StaysOvertaken
  <2>3. CASE Unheld(r)
    <3>1. ~Published(r)
      <4>1. ASSUME NEW c \in Clones, proc[c].pc = "push", proc[c].rev = r PROVE FALSE
        <5>1. proc[c].ck \in Checkouts
          BY DEF TypeOK, ProcType
        <5>. QED BY <2>3, <4>1, <5>1 DEF Holding
      <4>. QED BY <4>1 DEF Published
    <3>2. r \notin landed' /\ r \notin inflight'
      BY <1>0, <1>2, <2>3, <3>1 DEF Moved, Spread
    <3>3. \A c \in Clones, k \in Checkouts : Pend(c, k)'.rev # r
      BY <1>0, <1>2, <2>3, ReceiptSteps DEF NoPending
    <3>. QED BY <2>1, <3>2, <3>3
  <2>. QED BY <1>2, <2>2, <2>3
<1>3. ASSUME NEW c \in Clones, NEW r, r = proc[c].rev, Settle(c),
             proc[c].out = "contention" \/ proc[c].op.kind # "retry",
             disk' = WithReceipt(c, proc[c].ck, NoPending)
      PROVE  Dead(r) \/ Dead(r)'
  <2>1. /\ UNCHANGED <<remoteVars, commitVars>> /\ proc[c].pc = "settle"
        /\ r \in 2..made /\ r = Pend(c, proc[c].ck).rev
    BY <1>3 DEF Settle, Holding
  <2>2. CASE proc[c].out = "contention"
    BY <1>3, <2>1, <2>2 DEF Verdicts, Overtaken
  <2>3. CASE proc[c].out # "contention"
    <3>1. Private(r)
      BY <1>3, <2>1, <2>3 DEF Control, Steered, Verdicts
    <3>2. ASSUME NEW d \in Clones, NEW k \in Checkouts
          PROVE  Pend(d, k)'.rev # r
      <4>. PICK j \in Checkouts : j = proc[c].ck
        BY DEF TypeOK, ProcType
      <4>1. \A l \in Checkouts : Pend(c, l)' = IF l = j THEN NoPending ELSE Pend(c, l)
        BY <1>3, SetReceipt
      <4>2. \/ Pend(d, k)' = Pend(d, k) \/ Pend(d, k)' = NoPending
        BY <1>0, <2>1, ReceiptSteps DEF commitVars
      <4>3. NoPending.rev # r
        BY <2>1 DEF NoPending
      <4>4. CASE d = c /\ k = j
        BY <4>1, <4>3, <4>4
      <4>5. CASE ~(d = c /\ k = j)
        <5>1. Pend(d, k).rev # r
          BY <2>1, <4>5 DEF Holding
        <5>. QED BY <4>2, <4>3, <5>1
      <4>. QED BY <4>4, <4>5
    <3>3. r \notin landed' /\ r \notin inflight' /\ r \in 2..made'
      BY <2>1, <3>1 DEF Private, remoteVars, commitVars
    <3>. QED BY <3>2, <3>3
  <2>. QED BY <2>2, <2>3
<1>4. ASSUME NEW r \in discarded', r \notin discarded
      PROVE  \E c \in Clones : /\ r = proc[c].rev /\ Settle(c)
                               /\ proc[c].out = "contention" \/ proc[c].op.kind # "retry"
                               /\ disk' = WithReceipt(c, proc[c].ck, NoPending)
  <2>1. ASSUME NEW c \in Clones, Acts(c), ~Settle(c) PROVE discarded' = discarded
    BY <2>1 DEF Acts, Step, Begin, Reconcile, Write, Refuse, PushOk, PushUnheard, PushDelayed,
                PushRejected, Resolve, Retry, Reread, Accept, Leave, Abort, Join, Abandon,
                historyVars
  <2>2. ASSUME NEW q \in Revs, Arrive(q) \/ Vanish(q) PROVE discarded' = discarded
    BY <2>2 DEF Arrive, Vanish, historyVars
  <2>3. ASSUME NEW c \in Clones, Settle(c)
        PROVE  /\ r = proc[c].rev
               /\ proc[c].out = "contention" \/ proc[c].op.kind # "retry"
               /\ disk' = WithReceipt(c, proc[c].ck, NoPending)
    BY <1>4, <2>3 DEF Settle, Keeps, WithReceipt
  <2>4. (\E c \in Clones : Acts(c)) \/ \E q \in Revs : Arrive(q) \/ Vanish(q)
    BY DEF Next, Acts
  <2>. QED BY <1>4, <2>1, <2>2, <2>3, <2>4
<1>5. ASSUME NEW r \in discarded' PROVE Dead(r)'
  <2>1. CASE r \in discarded
    BY <1>1, <1>2, <2>1
  <2>2. CASE r \notin discarded
    <3>1. Dead(r) \/ Dead(r)'
      <4>. HIDE DEF Dead
      <4>. QED BY <1>3, <1>4, <2>2
    <3>. QED BY <1>2, <3>1
  <2>. QED BY <2>1, <2>2
<1>. QED BY <1>5 DEF Dropped

LEMMA ReviewedStep ==
  ASSUME TypeOK, Control, Holding, History, Reviewed, Next
  PROVE  Reviewed'
<1>0. Grown
  BY RemoteSteps
<1>1. CASE made' = made
  BY <1>0, <1>1 DEF Grown, Reviewed, Parent
<1>2. ASSUME NEW c \in Clones, Write(c) PROVE Reviewed'
  <2>1. PICK p \in Asked(proc[c]) :
           /\ p.snap = proc[c].snap /\ p.op.kind \in Mutations /\ Acceptable(c, p)
           /\ made' = made + 1 /\ made + 1 \in Revs
           /\ commits' = [commits EXCEPT ![made + 1] =
                [parent |-> p.snap, version |-> NewBoard(p, Token(p), Owner(c)).version,
                 sessions |-> NewBoard(p, Token(p), Owner(c)).sessions]]
           /\ consent' = [consent EXCEPT ![made + 1] = p.op.expect]
           /\ p.op.expect # 0 => Upgrade(p.op) \/ p.op.kind = "recover"
           /\ p = proc[c] \/ p.attempt = 0
    BY <1>2, WriteFacts
  <2>2. Exclusive(NewBoard(p, Token(p), Owner(c)).sessions)
    BY <2>1 DEF Acceptable, ValidBoard
  <2>3. p.op.expect # 0 => p.snap = p.op.expect
    <3>1. p = proc[c] => ~Upgrade(p.op) /\ p.op.kind # "recover"
      BY <1>2, <2>1 DEF Write, Control, Steered, Mutations
    <3>. QED BY <2>1, <3>1 DEF Acceptable, Permitted
  <2>4. /\ commits'[made + 1].parent = p.snap /\ consent'[made + 1] = p.op.expect
        /\ commits'[made + 1].sessions = NewBoard(p, Token(p), Owner(c)).sessions
    BY <2>1 DEF TypeOK
  <2>5. \A r \in 1..made' : r = made + 1 \/ r \in 1..made
    BY <1>0, <2>1, Limits DEF Grown, Revs
  <2>. QED BY <1>0, <2>1, <2>2, <2>3, <2>4, <2>5 DEF Grown, Reviewed, Parent
<1>3. ASSUME NEW c \in Clones, Acts(c), ~Write(c) PROVE made' = made
  BY <1>3 DEF Acts, Step, Begin, Reconcile, Refuse, PushOk, PushUnheard, PushDelayed,
              PushRejected, Resolve, Retry, Settle, Reread, Accept, Leave, Abort, Join, Abandon,
              commitVars
<1>4. ASSUME NEW q \in Revs, Arrive(q) \/ Vanish(q) PROVE made' = made
  BY <1>4 DEF Arrive, Vanish, commitVars
<1>. QED BY <1>1, <1>2, <1>3, <1>4 DEF Next, Acts

LEMMA ControlStep ==
  ASSUME TypeOK, Control, Holding, History, Next
  PROVE  Control'
<1>. SUFFICES ASSUME NEW c \in Clones PROVE Steered(c)'
  BY DEF Control
<1>0. /\ landed \subseteq landed' /\ landed \subseteq Revs /\ head \in landed /\ head' \in landed'
      /\ proc[c] \in ProcType /\ Steered(c)
  BY RemoteSteps, HistoryStep, Limits DEF Moved, History, TypeOK, Revs, Control
<1>1. ASSUME End(c) PROVE Steered(c)'
  <2>1. proc'[c].pc = "idle" /\ proc'[c].op = NoOp
    BY <1>1 DEF End, Idle, At, TypeOK
  <2>. QED BY <2>1 DEF Steered, NoOp, Op, Request, Mutations
<1>2. ASSUME proc'[c] = proc[c], disk'[c].life = disk[c].life PROVE Steered(c)'
  BY <1>0, <1>2 DEF Steered
<1>3. ASSUME NEW r \in Revs, disk' = [disk EXCEPT ![c] = Cached(c, r)]
      PROVE  disk'[c].life = disk[c].life
  BY <1>3, CachedFacts DEF TypeOK
<1>4. ASSUME NEW r \in Revs, disk' = [disk EXCEPT ![c] = Accepted(c, r)], Pending(c).id \in Revs
      PROVE  disk'[c].life = disk[c].life
  BY <1>4, AcceptedFacts DEF TypeOK
<1>5. ASSUME NEW k \in Checkouts, NEW kind \in Commands, Begin(c, k, kind) PROVE Steered(c)'
  <2>1. disk'[c].life = disk[c].life
    BY <1>0, <1>3, <1>5 DEF Begin
  <2>2. kind = "leave" => disk[c].life < MaxLeaves
    BY <1>5 DEF Begin
  <2>3. \/ proc'[c] = proc[c]
        \/ \E pc \in {"reconcile", "act"} : Go(c, At(k, pc, Op(kind), head))
    BY <1>5 DEF Begin
  <2>4. ASSUME NEW pc \in {"reconcile", "act"}, Go(c, At(k, pc, Op(kind), head))
        PROVE  Steered(c)'
    <3>1. proc'[c] = At(k, pc, Op(kind), head)
      BY <2>4, Went
    <3>. QED BY <1>0, <2>1, <2>2, <3>1 DEF Steered, At, Op, Request, Commands, Mutations
  <2>. QED BY <1>2, <2>1, <2>3, <2>4
<1>6. ASSUME Reconcile(c) PROVE Steered(c)'
  <2>1. /\ proc[c].pc = "reconcile" /\ proc[c].snap \in landed
        /\ \/ End(c)
           \/ Go(c, [proc[c] EXCEPT !.pc = "act", !.snap = head])
           \/ Go(c, [proc[c] EXCEPT !.pc = "act", !.snap = proc[c].snap])
    BY <1>0, <1>6 DEF Reconcile, Steered
  <2>2. disk'[c].life = disk[c].life
    <3>1. CASE Pending(c).rev \in landed
      <4>1. Pending(c).id \in Revs
        BY <1>0, <3>1 DEF Holding, Pending, Pend, NoPending, ProcType, Revs
      <4>. QED BY <1>0, <1>4, <1>6, <3>1, <4>1 DEF Reconcile
    <3>2. CASE Pending(c).rev \notin landed
      BY <1>0, <1>3, <1>6, <2>1, <3>2 DEF Reconcile
    <3>. QED BY <3>1, <3>2
  <2>3. ASSUME NEW snap \in landed, Go(c, [proc[c] EXCEPT !.pc = "act", !.snap = snap])
        PROVE  Steered(c)'
    <3>1. Turned(c, "act", proc[c].out, snap)
      BY <2>3, Turns
    <3>. QED BY <1>0, <2>1, <2>2, <3>1 DEF Turned, Steered, Commands, Mutations
  <2>. QED BY <1>0, <1>1, <2>1, <2>3
<1>7. ASSUME Write(c) PROVE Steered(c)'
  <2>1. PICK p \in ProcType :
           /\ p.snap \in landed /\ p.op.kind \in Mutations
           /\ proc' = [proc EXCEPT ![c] = [p EXCEPT !.pc = "push", !.rev = made + 1,
                                                    !.gen = Token(p)]]
           /\ p.op.expect # 0 => Upgrade(p.op) \/ p.op.kind = "recover"
           /\ p.op.kind \in {"update", "finish", "recover"} => p.op.id \in Revs
    BY <1>7, WriteFacts
  <2>2. /\ proc'[c].pc = "push" /\ proc'[c].snap = p.snap /\ proc'[c].op = p.op
    BY <2>1 DEF TypeOK, ProcType
  <2>. QED BY <1>0, <2>1, <2>2 DEF Steered, Mutations
<1>8. ASSUME PushOk(c) PROVE Steered(c)'
  <2>1. Turned(c, "accept", proc[c].out, proc[c].rev)
    BY <1>8, Turns DEF PushOk
  <2>2. proc[c].rev \in landed' /\ proc[c].pc = "push"
    BY <1>0, <1>8 DEF PushOk, Advance, Pushing
  <2>. QED BY <1>0, <1>8, <2>1, <2>2 DEF Steered, Turned, Mutations
<1>9. ASSUME PushUnheard(c) \/ PushDelayed(c) \/ PushRejected(c), ~End(c) PROVE Steered(c)'
  <2>1. \E out \in {"unknown", "stale", "denied"} : Turned(c, "resolve", out, proc[c].snap)
    BY <1>9, Turns DEF PushUnheard, PushDelayed, PushRejected
  <2>2. proc[c].pc = "push"
    BY <1>9 DEF PushUnheard, PushDelayed, PushRejected, Pushing
  <2>. QED BY <1>0, <2>1, <2>2 DEF Steered, Turned, Mutations
<1>10. ASSUME Resolve(c), ~End(c) PROVE Steered(c)'
  <2>1. \/ Turned(c, "accept", proc[c].out, head)
        \/ \E out \in {"contention", "unavailable"} : Turned(c, "settle", out, proc[c].snap)
    BY <1>10, Turns DEF Resolve
  <2>2. proc[c].pc = "resolve"
    BY <1>10 DEF Resolve
  <2>. QED BY <1>0, <2>1, <2>2 DEF Steered, Turned, Mutations
<1>11. ASSUME Retry(c) PROVE Steered(c)'
  <2>1. /\ proc[c].op.kind = "retry" /\ proc[c].pc = "act"
        /\ \/ Go(c, [proc[c] EXCEPT !.pc = "accept", !.rev = Pending(c).rev, !.snap = head])
           \/ Go(c, [proc[c] EXCEPT !.pc = "settle", !.rev = Pending(c).rev,
                                    !.out = "contention"])
           \/ Go(c, [proc[c] EXCEPT !.pc = "push", !.rev = Pending(c).rev])
    BY <1>11 DEF Retry
  <2> DEFINE Reached == /\ \/ proc'[c].pc \in {"accept", "push"}
                           \/ proc'[c].pc = "settle" /\ proc'[c].out = "contention"
                        /\ proc'[c].snap \in {head, proc[c].snap} /\ proc'[c].op = proc[c].op
  <2>3. ASSUME Go(c, [proc[c] EXCEPT !.pc = "accept", !.rev = Pending(c).rev, !.snap = head])
        PROVE  Reached
    <3>1. proc'[c] = [proc[c] EXCEPT !.pc = "accept", !.rev = Pending(c).rev, !.snap = head]
      BY <1>0, <2>3, Went
    <3>. QED BY <1>0, <3>1 DEF ProcType
  <2>4. ASSUME Go(c, [proc[c] EXCEPT !.pc = "settle", !.rev = Pending(c).rev, !.out = "contention"])
        PROVE  Reached
    <3>1. proc'[c] = [proc[c] EXCEPT !.pc = "settle", !.rev = Pending(c).rev,
                                     !.out = "contention"]
      BY <1>0, <2>4, Went
    <3>. QED BY <1>0, <3>1 DEF ProcType
  <2>5. ASSUME Go(c, [proc[c] EXCEPT !.pc = "push", !.rev = Pending(c).rev])
        PROVE  Reached
    <3>1. proc'[c] = [proc[c] EXCEPT !.pc = "push", !.rev = Pending(c).rev]
      BY <1>0, <2>5, Went
    <3>. QED BY <1>0, <3>1 DEF ProcType
  <2>2. Reached
    BY <2>1, <2>3, <2>4, <2>5
  <2>. QED BY <1>0, <2>1, <2>2 DEF Steered, Mutations
<1>12. ASSUME Settle(c), ~End(c) PROVE Steered(c)'
  <2>1. Go(c, [proc[c] EXCEPT !.pc = "reread"]) /\ MayRepeat(proc[c]) /\ proc[c].pc = "settle"
    BY <1>12 DEF Settle
  <2>2. /\ proc'[c].pc = "reread" /\ proc'[c].snap = proc[c].snap /\ proc'[c].op = proc[c].op
        /\ proc'[c].attempt = proc[c].attempt
    BY <1>0, <2>1, Went DEF ProcType
  <2>. QED BY <1>0, <2>1, <2>2 DEF Steered, MayRepeat, Mutations
<1>13. ASSUME Reread(c), ~End(c) PROVE Steered(c)'
  <2>1. /\ proc[c].pc = "reread"
        /\ Go(c, [proc[c] EXCEPT !.pc = "act", !.snap = head, !.attempt = @ + 1,
                                 !.rev = 0, !.out = "none"])
    BY <1>13 DEF Reread
  <2>2. proc'[c].pc = "act" /\ proc'[c].snap = head /\ proc'[c].op = proc[c].op
    BY <1>0, <2>1, Went DEF ProcType
  <2>. QED BY <1>0, <2>1, <2>2 DEF Steered, Mutations
<1>14. ASSUME \/ Refuse(c) \/ Accept(c) \/ Leave(c) \/ Abort(c) \/ Abandon(c)
       PROVE  End(c)
  BY <1>14 DEF Refuse, Accept, Leave, Abort, Abandon, Forget
<1>15. ASSUME Join(c) PROVE Steered(c)'
  BY <1>0, <1>15 DEF Join, Joined, TypeOK, Steered
<1>16. CASE proc'[c] = proc[c] /\ disk'[c] = disk[c]
  BY <1>2, <1>16
<1>17. CASE Acts(c)
  BY <1>1, <1>5, <1>6, <1>7, <1>8, <1>9, <1>10, <1>11, <1>12, <1>13, <1>14, <1>15, <1>17
     DEF Acts, Step
<1>. QED BY <1>16, <1>17, OnlyActor

-----------------------------------------------------------------------------
(* Types. *)

LEMMA NewBoardType ==
  ASSUME TypeOK, NEW c \in Clones, NEW p \in ProcType, p.snap \in Revs, p.ck = proc[c].ck,
         p.op.kind \in Mutations, Acceptable(c, p), Token(p) \in 0..MaxRev,
         Task(p, Token(p)) \in Revs,
         p.op.kind \in {"start", "recover"} => Token(p) \in Revs,
         p.op.kind \in {"update", "finish", "recover"} => p.op.id \in Revs
  PROVE  /\ NewBoard(p, Token(p), Owner(c)).version \in {1, 2}
         /\ NewBoard(p, Token(p), Owner(c)).sessions \in Sessions
<1>. DEFINE row == NewRow(p, Token(p), Owner(c))
            was == commits[p.snap]
<1>1. was.version \in {1, 2} /\ was.sessions \in Sessions
  BY DEF TypeOK, CommitType, Sessions
<1>2. Owner(c) \in Owners
  BY DEF Owner, Owners, TypeOK, ProcType, DiskType
<1>3. p.op.paths \in SUBSET Paths
  BY DEF ProcType, OpType
<1>4. row \in Rows \cup {NoRow}
  <2>1. CASE p.op.kind = "start"
    BY <1>2, <1>3, <2>1 DEF NewRow, Rows
  <2>2. CASE p.op.kind = "recover"
    <3>1. was.sessions[p.op.id] \in Rows
      BY <1>1, <2>2 DEF Acceptable, Permitted, Sessions
    <3>. QED BY <1>2, <2>2, <3>1 DEF NewRow, Rows
  <2>3. CASE p.op.kind = "update"
    <3>1. was.sessions[p.op.id] \in Rows
      BY <1>1, <2>3 DEF Acceptable, Permitted, Owned, Sessions
    <3>. QED BY <1>3, <2>3, <3>1 DEF NewRow, Rows
  <2>4. CASE p.op.kind = "finish"
    BY <2>4 DEF NewRow
  <2>. QED BY <2>1, <2>2, <2>3, <2>4 DEF Mutations
<1>5. [was.sessions EXCEPT ![Task(p, Token(p))] = row] \in Sessions
  <2>. HIDE DEF row
  <2>. QED BY <1>1, <1>4 DEF Sessions
<1>. QED BY <1>1, <1>5 DEF NewBoard

LEMMA CommitsType ==
  ASSUME TypeOK, Control, Holding, History, Next
  PROVE  commits' \in [Revs -> CommitType] /\ consent' \in [Revs -> 0..MaxRev]
<1>1. ASSUME NEW c \in Clones, Write(c)
      PROVE  commits' \in [Revs -> CommitType] /\ consent' \in [Revs -> 0..MaxRev]
  <2>1. PICK p \in ProcType :
           /\ p.ck = proc[c].ck /\ p.op.kind \in Mutations /\ Acceptable(c, p)
           /\ Token(p) \in 0..MaxRev /\ Task(p, Token(p)) \in Revs
           /\ p.op.kind \in {"start", "recover"} => Token(p) \in Revs
           /\ p.snap \in Revs /\ made + 1 \in Revs
           /\ commits' = [commits EXCEPT ![made + 1] =
                [parent |-> p.snap, version |-> NewBoard(p, Token(p), Owner(c)).version,
                 sessions |-> NewBoard(p, Token(p), Owner(c)).sessions]]
           /\ consent' = [consent EXCEPT ![made + 1] = p.op.expect]
           /\ p.op.kind \in {"update", "finish", "recover"} => p.op.id \in Revs
    BY <1>1, WriteFacts
  <2>2. /\ NewBoard(p, Token(p), Owner(c)).version \in {1, 2}
        /\ NewBoard(p, Token(p), Owner(c)).sessions \in Sessions
    BY <2>1, NewBoardType
  <2>3. p.op.expect \in 0..MaxRev /\ p.snap \in 0..MaxRev
    BY <2>1, Limits DEF ProcType, OpType, Revs
  <2>. QED BY <2>1, <2>2, <2>3 DEF TypeOK, CommitType, Sessions
<1>2. ASSUME NEW c \in Clones, Acts(c), ~Write(c) PROVE UNCHANGED commitVars
  BY <1>2 DEF Acts, Step, Begin, Reconcile, Refuse, PushOk, PushUnheard, PushDelayed,
              PushRejected, Resolve, Retry, Settle, Reread, Accept, Leave, Abort, Join, Abandon
<1>3. ASSUME NEW q \in Revs, Arrive(q) \/ Vanish(q) PROVE UNCHANGED commitVars
  BY <1>3 DEF Arrive, Vanish
<1>. QED BY <1>1, <1>2, <1>3 DEF Next, Acts, commitVars, TypeOK

LEMMA FarewellType ==
  ASSUME TypeOK, Next
  PROVE  farewell' \in [Clones -> {"in", "clean", "abandoned"}]
<1>1. ASSUME NEW c \in Clones, Join(c) \/ Leave(c) \/ Abandon(c)
      PROVE  farewell' \in [Clones -> {"in", "clean", "abandoned"}]
  BY <1>1 DEF Join, Leave, Abandon, TypeOK
<1>2. ASSUME NEW c \in Clones, Acts(c), ~Join(c), ~Leave(c), ~Abandon(c)
      PROVE  farewell' = farewell
  BY <1>2 DEF Acts, Step, Begin, Reconcile, Write, Refuse, PushOk, PushUnheard, PushDelayed,
              PushRejected, Resolve, Retry, Settle, Reread, Accept, Abort, historyVars
<1>3. ASSUME NEW q \in Revs, Arrive(q) \/ Vanish(q) PROVE farewell' = farewell
  BY <1>3 DEF Arrive, Vanish, historyVars
<1>. QED BY <1>1, <1>2, <1>3 DEF Next, Acts, TypeOK

LEMMA DiskTypeStep ==
  ASSUME TypeOK, Control, Holding, History, Next
  PROVE  disk' \in [Clones -> DiskType]
<1>0. landed \subseteq Revs /\ head \in Revs /\ disk \in [Clones -> DiskType]
  BY Limits DEF History, TypeOK, Revs
<1>1. NoPending \in PendingType
  BY Limits DEF NoPending, PendingType
<1>2. Blank \in CheckoutType
  BY <1>1, Limits DEF Blank, CheckoutType, NoBinding
<1>3. Joined.checkouts \in [Checkouts -> CheckoutType]
  BY <1>2 DEF Joined
<1>4. ASSUME NEW c \in Clones, NEW r \in Revs,
             \/ disk' = disk
             \/ disk' = [disk EXCEPT ![c] = Cached(c, r)]
             \/ disk' = [disk EXCEPT ![c] = Accepted(c, r)] /\ Pending(c).id \in Revs
      PROVE  disk' \in [Clones -> DiskType]
  BY <1>0, <1>4, CachedFacts, AcceptedFacts
<1>5. ASSUME NEW c \in Clones, NEW k \in Checkouts, NEW kind \in Commands, Begin(c, k, kind)
      PROVE  disk' \in [Clones -> DiskType]
  BY <1>0, <1>4, <1>5 DEF Begin
<1>6. ASSUME NEW c \in Clones, Reconcile(c) PROVE disk' \in [Clones -> DiskType]
  <2>1. proc[c].snap \in Revs
    BY <1>0, <1>6 DEF Reconcile, Control, Steered
  <2>2. Pending(c).rev \in landed => Pending(c).id \in Revs
    BY <1>0 DEF Holding, Pending, Pend, NoPending, TypeOK, ProcType, Revs
  <2>. QED BY <1>0, <1>4, <1>6, <2>1, <2>2 DEF Reconcile
<1>7. ASSUME NEW c \in Clones, Accept(c) PROVE disk' \in [Clones -> DiskType]
  <2>1. proc[c].snap \in Revs /\ proc[c].ck \in Checkouts
    BY <1>0, <1>7 DEF Accept, Control, Steered, TypeOK, ProcType
  <2>2. Pending(c).id \in Revs
    BY <1>7, <2>1 DEF Accept, Holding, Pending, Pend, NoPending
  <2>. QED BY <1>4, <1>7, <2>1, <2>2 DEF Accept
<1>8. ASSUME NEW c \in Clones, Reread(c) PROVE disk' \in [Clones -> DiskType]
  BY <1>0, <1>4, <1>8 DEF Reread
<1>9. ASSUME NEW c \in Clones, Settle(c) PROVE disk' \in [Clones -> DiskType]
  <2>1. \/ disk' = disk
        \/ disk' = WithReceipt(c, proc[c].ck, NoPending)
    BY <1>9 DEF Settle, WithReceipt
  <2>2. proc[c].ck \in Checkouts
    BY DEF TypeOK, ProcType
  <2>. QED BY <1>0, <1>1, <2>1, <2>2, SetReceipt
<1>10. ASSUME NEW c \in Clones, Write(c) PROVE disk' \in [Clones -> DiskType]
  <2>1. PICK p \in ProcType :
           /\ p.ck = proc[c].ck /\ p.op.kind \in Mutations
           /\ Token(p) \in 0..MaxRev /\ Task(p, Token(p)) \in Revs /\ made + 1 \in Revs
           /\ disk' = WithReceipt(c, p.ck,
                [rev |-> made + 1, kind |-> p.op.kind, id |-> Task(p, Token(p)),
                 gen |-> Token(p), binding |-> p.op.binding])
    BY <1>10, WriteFacts
  <2>. DEFINE x == [rev |-> made + 1, kind |-> p.op.kind, id |-> Task(p, Token(p)),
                    gen |-> Token(p), binding |-> p.op.binding]
  <2>2. x \in PendingType
    BY <2>1, Limits DEF PendingType, ProcType, OpType, Revs
  <2>3. p.ck \in Checkouts /\ disk' = WithReceipt(c, p.ck, x)
    BY <2>1 DEF ProcType
  <2>. HIDE DEF x
  <2>. QED BY <2>2, <2>3, SetReceipt
<1>11. ASSUME NEW c \in Clones, Join(c) PROVE disk' \in [Clones -> DiskType]
  <2>0. disk[c].life \in 0..MaxLeaves
    BY <1>0 DEF DiskType
  <2>1. [Joined EXCEPT !.life = disk[c].life] \in DiskType
    BY <1>3, <2>0 DEF Joined, DiskType
  <2>. QED BY <1>0, <1>11, <2>1 DEF Join
<1>12. ASSUME NEW c \in Clones, Leave(c) \/ Abandon(c) PROVE disk' \in [Clones -> DiskType]
  <2>1. \/ disk' = disk
        \/ /\ disk[c].life < MaxLeaves
           /\ disk' = [disk EXCEPT ![c] = [Joined EXCEPT !.joined = FALSE,
                                                          !.life = disk[c].life + 1]]
    BY <1>12 DEF Leave, Abandon, Forget, Control, Steered
  <2>2. CASE disk[c].life < MaxLeaves
    <3>1. disk[c].life + 1 \in 0..MaxLeaves
      <4>1. disk[c].life \in 0..MaxLeaves
        BY <1>0 DEF DiskType
      <4>. QED BY <2>2, <4>1, Limits
    <3>2. [Joined EXCEPT !.joined = FALSE, !.life = disk[c].life + 1] \in DiskType
      BY <1>3, <3>1 DEF Joined, DiskType
    <3>. QED BY <1>0, <2>1, <3>2
  <2>. QED BY <1>0, <2>1, <2>2
<1>13. ASSUME NEW c \in Clones,
              \/ Refuse(c) \/ PushOk(c) \/ PushUnheard(c) \/ PushDelayed(c)
              \/ PushRejected(c) \/ Resolve(c) \/ Retry(c) \/ Abort(c)
       PROVE  disk' = disk
  BY <1>13 DEF Refuse, PushOk, PushUnheard, PushDelayed, PushRejected, Resolve, Retry, Abort
<1>14. ASSUME NEW q \in Revs, Arrive(q) \/ Vanish(q) PROVE disk' = disk
  BY <1>14 DEF Arrive, Vanish, localVars
<1>. QED BY <1>0, <1>5, <1>6, <1>7, <1>8, <1>9, <1>10, <1>11, <1>12, <1>13, <1>14
        DEF Next, Step

LEMMA ProcTypeStep ==
  ASSUME TypeOK, Control, Holding, History, Next
  PROVE  proc' \in [Clones -> ProcType]
<1>0. /\ proc \in [Clones -> ProcType] /\ landed \subseteq Revs /\ head \in Revs
      /\ Revs \subseteq 0..MaxRev
  BY Limits DEF History, TypeOK, Revs
<1>1. \A kind \in Commands, k \in Checkouts : \A pc \in {"idle", "reconcile", "act"}, r \in 0..MaxRev :
        At(k, pc, Op(kind), r) \in ProcType
  BY Limits DEF At, Op, Request, ProcType, OpType, Kinds, Commands, Counters, Outcomes
<1>2. ASSUME NEW c \in Clones, End(c) PROVE proc' \in [Clones -> ProcType]
  <2>1. Idle(proc[c].ck) \in ProcType
    <3>1. proc[c].ck \in Checkouts /\ 0 \in 0..MaxRev /\ "status" \in Commands
      BY <1>0, Limits DEF ProcType, Commands
    <3>. HIDE <1>0
    <3>2. At(proc[c].ck, "idle", Op("status"), 0) \in ProcType
      BY <1>1, <3>1
    <3>. QED BY <3>2 DEF Idle, NoOp
  <2>. QED BY <1>0, <1>2, <2>1 DEF End
<1>3. ASSUME NEW c \in Clones, NEW x \in ProcType, Go(c, x) PROVE proc' \in [Clones -> ProcType]
  BY <1>0, <1>3 DEF Go
<1>4. ASSUME NEW c \in Clones, NEW pc \in Counters, NEW snap \in 0..MaxRev, NEW out \in Outcomes
      PROVE  /\ [proc[c] EXCEPT !.pc = pc, !.snap = snap] \in ProcType
             /\ [proc[c] EXCEPT !.pc = pc, !.out = out] \in ProcType
             /\ [proc[c] EXCEPT !.pc = pc] \in ProcType
  BY <1>0 DEF ProcType
<1>5. ASSUME NEW c \in Clones, NEW k \in Checkouts, NEW kind \in Commands, Begin(c, k, kind)
      PROVE  proc' \in [Clones -> ProcType]
  <2>1. \/ proc' = proc
        \/ \E pc \in {"reconcile", "act"} : Go(c, At(k, pc, Op(kind), head))
    BY <1>5 DEF Begin
  <2>. QED BY <1>0, <1>1, <1>3, <2>1
<1>6. ASSUME NEW c \in Clones, Reconcile(c) PROVE proc' \in [Clones -> ProcType]
  <2>1. \/ End(c)
        \/ \E snap \in {head, proc[c].snap} : Go(c, [proc[c] EXCEPT !.pc = "act", !.snap = snap])
    BY <1>6 DEF Reconcile
  <2>2. proc[c].snap \in 0..MaxRev /\ head \in 0..MaxRev /\ "act" \in Counters
    BY <1>0 DEF ProcType, Counters
  <2>3. CASE \E snap \in {head, proc[c].snap} :
                Go(c, [proc[c] EXCEPT !.pc = "act", !.snap = snap])
    <3>1. PICK snap \in 0..MaxRev : Go(c, [proc[c] EXCEPT !.pc = "act", !.snap = snap])
      BY <2>2, <2>3
    <3>2. [proc[c] EXCEPT !.pc = "act", !.snap = snap] \in ProcType
      BY <1>0, <2>2 DEF ProcType
    <3>. QED BY <1>3, <3>1, <3>2
  <2>. QED BY <1>2, <2>1, <2>3
<1>7. ASSUME NEW c \in Clones, Write(c) PROVE proc' \in [Clones -> ProcType]
  <2>1. PICK p \in ProcType :
           /\ Token(p) \in 0..MaxRev /\ made + 1 \in Revs
           /\ proc' = [proc EXCEPT ![c] = [p EXCEPT !.pc = "push", !.rev = made + 1,
                                                    !.gen = Token(p)]]
    BY <1>7, WriteFacts
  <2>2. [p EXCEPT !.pc = "push", !.rev = made + 1, !.gen = Token(p)] \in ProcType
    BY <1>0, <2>1 DEF ProcType, Counters
  <2>. QED BY <1>0, <2>1, <2>2
<1>8. ASSUME NEW c \in Clones, PushOk(c) PROVE proc' \in [Clones -> ProcType]
  <2>1. Go(c, [proc[c] EXCEPT !.pc = "accept", !.snap = proc[c].rev])
    BY <1>8 DEF PushOk
  <2>2. [proc[c] EXCEPT !.pc = "accept", !.snap = proc[c].rev] \in ProcType
    BY <1>0 DEF ProcType, Counters
  <2>. QED BY <1>3, <2>1, <2>2
<1>9. ASSUME NEW c \in Clones, PushUnheard(c) \/ PushDelayed(c) \/ PushRejected(c)
      PROVE  proc' \in [Clones -> ProcType]
  <2>1. \/ End(c)
        \/ Go(c, [proc[c] EXCEPT !.pc = "resolve", !.out = "unknown"])
        \/ \E why \in {"stale", "denied"} : Go(c, [proc[c] EXCEPT !.pc = "resolve", !.out = why])
    BY <1>9 DEF PushUnheard, PushDelayed, PushRejected
  <2>2. \A why \in {"stale", "denied", "unknown"} :
          [proc[c] EXCEPT !.pc = "resolve", !.out = why] \in ProcType
    BY <1>0 DEF ProcType, Counters, Outcomes
  <2>. QED BY <1>2, <1>3, <2>1, <2>2
<1>10. ASSUME NEW c \in Clones, Resolve(c) PROVE proc' \in [Clones -> ProcType]
  <2>1. \/ End(c)
        \/ Go(c, [proc[c] EXCEPT !.pc = "accept", !.snap = head])
        \/ Go(c, [proc[c] EXCEPT !.pc = "settle", !.out = "contention"])
        \/ Go(c, [proc[c] EXCEPT !.pc = "settle", !.out = "unavailable"])
    BY <1>10 DEF Resolve
  <2>2. /\ [proc[c] EXCEPT !.pc = "accept", !.snap = head] \in ProcType
        /\ [proc[c] EXCEPT !.pc = "settle", !.out = "contention"] \in ProcType
        /\ [proc[c] EXCEPT !.pc = "settle", !.out = "unavailable"] \in ProcType
    BY <1>0 DEF ProcType, Counters, Outcomes
  <2>. QED BY <1>2, <1>3, <2>1, <2>2
<1>11. ASSUME NEW c \in Clones, Retry(c) PROVE proc' \in [Clones -> ProcType]
  <2>1. \/ Go(c, [proc[c] EXCEPT !.pc = "accept", !.rev = Pending(c).rev, !.snap = head])
        \/ Go(c, [proc[c] EXCEPT !.pc = "settle", !.rev = Pending(c).rev, !.out = "contention"])
        \/ Go(c, [proc[c] EXCEPT !.pc = "push", !.rev = Pending(c).rev])
    BY <1>11 DEF Retry
  <2>2. Pending(c).rev \in 0..MaxRev
    BY DEF Pending, TypeOK, DiskType, CheckoutType, PendingType, ProcType
  <2>3. /\ [proc[c] EXCEPT !.pc = "accept", !.rev = Pending(c).rev, !.snap = head] \in ProcType
        /\ [proc[c] EXCEPT !.pc = "settle", !.rev = Pending(c).rev, !.out = "contention"] \in ProcType
        /\ [proc[c] EXCEPT !.pc = "push", !.rev = Pending(c).rev] \in ProcType
    BY <1>0, <2>2 DEF ProcType, Counters, Outcomes
  <2>. QED BY <1>3, <2>1, <2>3
<1>12. ASSUME NEW c \in Clones, Settle(c) PROVE proc' \in [Clones -> ProcType]
  <2>1. End(c) \/ Go(c, [proc[c] EXCEPT !.pc = "reread"])
    BY <1>12 DEF Settle
  <2>2. [proc[c] EXCEPT !.pc = "reread"] \in ProcType
    BY <1>0 DEF ProcType, Counters
  <2>. QED BY <1>2, <1>3, <2>1, <2>2
<1>13. ASSUME NEW c \in Clones, Reread(c) PROVE proc' \in [Clones -> ProcType]
  <2>1. \/ End(c)
        \/ Go(c, [proc[c] EXCEPT !.pc = "act", !.snap = head, !.attempt = @ + 1,
                                 !.rev = 0, !.out = "none"])
    BY <1>13 DEF Reread
  <2>2. [proc[c] EXCEPT !.pc = "act", !.snap = head, !.attempt = @ + 1,
                        !.rev = 0, !.out = "none"] \in ProcType
    <3>1. proc[c].attempt + 1 \in Nat /\ head \in 0..MaxRev /\ 0 \in 0..MaxRev
      BY <1>0, Limits DEF ProcType
    <3>2. ProcType = [pc: Counters, ck: Checkouts, op: OpType, snap: 0..MaxRev, rev: 0..MaxRev,
                      gen: 0..MaxRev, attempt: Nat, out: Outcomes]
      BY DEF ProcType
    <3>3. proc[c] \in ProcType /\ "act" \in Counters /\ "none" \in Outcomes
      BY <1>0 DEF Counters, Outcomes
    <3>. QED BY <3>1, <3>2, <3>3
  <2>. QED BY <1>2, <1>3, <2>1, <2>2
<1>14. ASSUME NEW c \in Clones,
              Refuse(c) \/ Accept(c) \/ Leave(c) \/ Abort(c) \/ Abandon(c)
       PROVE  End(c)
  BY <1>14 DEF Refuse, Accept, Leave, Abort, Abandon, Forget
<1>15. ASSUME NEW c \in Clones, Join(c) PROVE proc' = proc
  BY <1>15 DEF Join
<1>16. ASSUME NEW q \in Revs, Arrive(q) \/ Vanish(q) PROVE proc' = proc
  BY <1>16 DEF Arrive, Vanish, localVars
<1>. QED BY <1>0, <1>2, <1>5, <1>6, <1>7, <1>8, <1>9, <1>10, <1>11, <1>12, <1>13, <1>14,
            <1>15, <1>16 DEF Next, Step

LEMMA TypeStep ==
  ASSUME IInv, Next
  PROVE  TypeOK'
<1>1. Moved /\ Grown /\ History' /\ Dropped'
  BY RemoteSteps, HistoryStep, DroppedStep DEF IInv
<1>2. made' \in Revs
  BY <1>1 DEF Grown, IInv, TypeOK
<1>3. /\ head' \in Revs /\ landed' \subseteq Revs /\ inflight' \subseteq Revs
      /\ discarded' \subseteq Revs
  <2>1. 1..made' \subseteq Revs /\ 2..made' \subseteq Revs
    BY <1>2, Limits DEF Revs
  <2>2. /\ landed' \subseteq 1..made' /\ head' \in landed' /\ inflight' \subseteq 2..made'
        /\ \A r \in discarded' : r \in 2..made'
    BY <1>1 DEF History, Dropped
  <2>. QED BY <2>1, <2>2
<1>. QED BY <1>2, <1>3, CommitsType, DiskTypeStep, ProcTypeStep, FarewellType DEF IInv, TypeOK

\* The three conditions of an inductive invariant: it holds at first, ...
LEMMA InitInv == Init => IInv
<1>. SUFFICES ASSUME Init PROVE IInv
  OBVIOUS
<1>0. 1 \in Revs /\ Revs \subseteq 0..MaxRev /\ 0 \in 0..MaxRev
  BY Limits DEF Revs
<1>1. PICK v \in {1, 2} : commits = [r \in Revs |-> [parent |-> 0, version |-> v,
                                        sessions |-> [s \in Revs |-> NoRow]]]
  BY BoardAssumption DEF Init
<1>2. PICK at \in [Clones -> Checkouts] : proc = [c \in Clones |-> Idle(at[c])]
  <2>1. \A c \in Clones : \E k \in Checkouts : proc[c] = Idle(k)
    BY DEF Init
  <2>. DEFINE at == [c \in Clones |-> CHOOSE k \in Checkouts : proc[c] = Idle(k)]
  <2>2. at \in [Clones -> Checkouts] /\ \A c \in Clones : proc[c] = Idle(at[c])
    BY <2>1
  <2>3. proc = [c \in Clones |-> proc[c]]
    BY DEF Init
  <2>. QED BY <2>2, <2>3
<1>3. \A c \in Clones : proc[c] = Idle(at[c])
  BY <1>2
<1>4. \A c \in Clones : proc[c].pc = "idle" /\ proc[c].op = NoOp
  <2>1. \A k \in Checkouts : Idle(k).pc = "idle" /\ Idle(k).op = NoOp
    BY DEF Idle, At
  <2>. QED BY <1>3, <2>1
<1>5. \A c \in Clones, k \in Checkouts : Pend(c, k) = NoPending
  BY DEF Init, Joined, Blank, Pend
<1>6. disk \in [Clones -> DiskType]
  <2>1. Blank \in CheckoutType
    BY <1>0, Limits DEF Blank, CheckoutType, PendingType, NoPending, NoBinding
  <2>2. Joined \in DiskType
    BY <2>1, Limits DEF Joined, DiskType
  <2>. QED BY <2>2 DEF Init
<1>7. proc \in [Clones -> ProcType]
  <2>1. \A k \in Checkouts : Idle(k) \in ProcType
    BY <1>0 DEF Idle, At, NoOp, Op, Request, ProcType, OpType, Kinds, Commands, Counters, Outcomes
  <2>. QED BY <1>2, <2>1
<1>8. TypeOK
  <2>1. commits \in [Revs -> CommitType]
    BY <1>0, <1>1 DEF CommitType
  <2>. QED BY <1>0, <1>6, <1>7, <2>1 DEF Init, TypeOK
<1>9. History
  BY <1>0, <1>1 DEF Init, History, Parent
<1>10. Control
  BY <1>4 DEF Control, Steered, NoOp, Op, Request, Mutations
<1>11. Holding
  BY <1>4, <1>5 DEF Holding, NoPending
<1>12. Verdicts
  BY <1>4 DEF Verdicts
<1>13. Dropped
  BY DEF Init, Dropped
<1>14. Reviewed
  <2>1. 1..made \subseteq Revs
    BY <1>0, Limits DEF Init, Revs
  <2>2. \A r \in Revs : Exclusive(commits[r].sessions)
    BY <1>1 DEF Exclusive, NoRow
  <2>. QED BY <2>1, <2>2 DEF Init, Reviewed
<1>. QED BY <1>8, <1>9, <1>10, <1>11, <1>12, <1>13, <1>14 DEF IInv

\* ... every step preserves it, ...
LEMMA NextInv == IInv /\ [Next]_vars => IInv'
<1>1. ASSUME IInv, Next PROVE IInv'
  <2>1. History' /\ Control' /\ Holding'
    BY <1>1, HistoryStep, ControlStep, HoldingStep DEF IInv
  <2>2. Verdicts' /\ Dropped' /\ Reviewed'
    BY <1>1, VerdictsStep, DroppedStep, ReviewedStep DEF IInv
  <2>. QED BY <1>1, <2>1, <2>2, TypeStep DEF IInv
<1>2. ASSUME IInv, UNCHANGED vars PROVE IInv'
  <2>1. TypeOK' /\ History' /\ Reviewed'
    BY <1>2 DEF IInv, vars, TypeOK, History, Parent, Reviewed
  <2>2. Control' /\ Holding'
    BY <1>2 DEF IInv, vars, Control, Steered, Holding, Pend
  <2>3. Verdicts' /\ Dropped'
    BY <1>2 DEF IInv, vars, Verdicts, Dropped, Overtaken, Private, Parent, Pend
  <2>. QED BY <2>1, <2>2, <2>3 DEF IInv
<1>. QED BY <1>1, <1>2

THEOREM InvariantHolds == Spec => []IInv
<1>. QED BY InitInv, NextInv, PTL DEF Spec

-----------------------------------------------------------------------------
(* ... and it implies the properties. *)

\* Every variable keeps its type.
THEOREM TypeCorrect == Spec => []TypeOK
<1>1. IInv => TypeOK
  BY DEF IInv
<1>. QED BY <1>1, InvariantHolds, PTL

\* A publication reported as not applied, whose receipt was dropped, never
\* reaches the board afterwards.
THEOREM DroppedStaysOut == Spec => []DiscardedNeverLands
<1>1. IInv => DiscardedNeverLands
  BY DEF IInv, Dropped, DiscardedNeverLands
<1>. QED BY <1>1, InvariantHolds, PTL

\* No board that ever was the shared truth holds conflicting reservations.
THEOREM ClaimsStayExclusive == Spec => []ExclusiveClaims
<1>1. IInv => ExclusiveClaims
  <2>. SUFFICES ASSUME IInv, NEW r \in landed, NEW s \in Revs, NEW t \in Revs, s # t
                PROVE  LET a == commits[r].sessions[s]
                           b == commits[r].sessions[t] IN
                       /\ Reserved(a) \cap Reserved(b) = {}
                       /\ a.paths # {} /\ b.paths # {} => a.owner # b.owner
    BY DEF ExclusiveClaims
  <2>. DEFINE a == commits[r].sessions[s]
              b == commits[r].sessions[t]
  <2>1. Exclusive(commits[r].sessions)
    BY DEF IInv, Reviewed, History
  <2>2. a.paths # {} /\ b.paths # {} => a.owner # b.owner
    BY <2>1 DEF Exclusive
  <2>3. \A p \in a.paths, q \in b.paths : ~Overlaps(p, q)
    BY <2>1 DEF Exclusive
  <2>4. a.paths \subseteq Paths /\ b.paths \subseteq Paths
    <3>1. r \in Revs
      BY Limits DEF IInv, TypeOK, Revs
    <3>. QED BY <3>1, RowFacts DEF IInv, Rows, NoRow
  <2>. HIDE DEF a, b
  <2>5. ASSUME NEW f \in Reserved(a) \cap Reserved(b) PROVE FALSE
    <3>1. PICK p \in a.paths : f = p \/ <<f, p>> \in Under
      BY DEF Reserved
    <3>2. PICK q \in b.paths : f = q \/ <<f, q>> \in Under
      BY DEF Reserved
    <3>3. f \in Paths /\ p \in Paths /\ q \in Paths
      BY <2>4 DEF Reserved
    <3>4. Overlaps(p, q)
      BY <3>1, <3>2, <3>3, BoardAssumption DEF Overlaps
    <3>. QED BY <2>3, <3>4
  <2>. QED BY <2>2, <2>5 DEF a, b
<1>. QED BY <1>1, InvariantHolds, PTL

\* Consent is applied to the reviewed revision or not at all.
THEOREM ConsentStaysExact == Spec => []ConsentIsExact
<1>1. IInv => ConsentIsExact
  BY DEF IInv, Reviewed, History, ConsentIsExact, Parent
<1>. QED BY <1>1, InvariantHolds, PTL

-----------------------------------------------------------------------------
(* What a checkout believes of its tasks was really published.             *)

\* What one step does to the durable state of a clone: it compacts it against
\* a board that was published, adopts the outcome of its own publication from
\* such a board, sets or clears one receipt, or starts from nothing.
Compacts(c)   == \E r \in landed : disk'[c] = Cached(c, r)
Adopts(c)     == \E r \in landed : /\ Pending(c).id \in Revs /\ Pending(c) # NoPending
                                   /\ disk'[c] = Accepted(c, r)
Fitting(c, x) == x.kind # "finish" /\ x.binding # NoPlan =>
                   Fits(disk[c].checkouts[proc[c].ck].bindings, x.binding)
Receives(c)   == \E x : /\ x = NoPending \/ (Fitting(c, x) /\ Pending(c) = NoPending)
                        /\ disk' = WithReceipt(c, proc[c].ck, x)
Restarts(c)   == (Join(c) \/ Forget(c)) /\ disk'[c].checkouts = [k \in Checkouts |-> Blank]

LEMMA DiskSteps ==
  ASSUME TypeOK, Control, Holding, History, Next, NEW c \in Clones
  PROVE  disk'[c] = disk[c] \/ Compacts(c) \/ Adopts(c) \/ Receives(c) \/ Restarts(c)
<1>0. disk \in [Clones -> DiskType] /\ head \in landed
  BY DEF TypeOK, History
<1>1. ASSUME NEW j \in Checkouts, NEW kind \in Commands, Begin(c, j, kind)
      PROVE  disk'[c] = disk[c] \/ Compacts(c)
  BY <1>0, <1>1 DEF Begin, Compacts
<1>2. ASSUME Reconcile(c) PROVE Compacts(c) \/ Adopts(c)
  <2>1. proc[c].snap \in landed
    BY <1>2 DEF Reconcile, Control, Steered
  <2>2. CASE Pending(c).rev \in landed
    <3>1. Pending(c) # NoPending /\ Pending(c).id \in Revs
      BY <2>2 DEF History, Holding, Pending, Pend, NoPending, TypeOK, ProcType, Revs
    <3>. QED BY <1>0, <1>2, <2>2, <3>1 DEF Reconcile, Adopts
  <2>3. CASE Pending(c).rev \notin landed
    BY <1>0, <1>2, <2>1, <2>3 DEF Reconcile, Compacts
  <2>. QED BY <2>2, <2>3
<1>3. ASSUME Reread(c) PROVE Compacts(c)
  BY <1>0, <1>3 DEF Reread, Compacts
<1>4. ASSUME Accept(c) PROVE Adopts(c)
  <2>1. proc[c].snap \in landed
    BY <1>4 DEF Accept, Control, Steered
  <2>2. Pending(c) # NoPending /\ Pending(c).id \in Revs
    BY <1>4 DEF Accept, Holding, Pending, Pend, NoPending, TypeOK, ProcType
  <2>. QED BY <1>0, <1>4, <2>1, <2>2 DEF Accept, Adopts
<1>5. ASSUME Join(c) \/ Leave(c) \/ Abandon(c) PROVE disk'[c] = disk[c] \/ Restarts(c)
  <2>1. disk' = disk \/ Join(c) \/ Forget(c)
    BY <1>5 DEF Leave, Abandon
  <2>2. Join(c) \/ Forget(c) => disk'[c].checkouts = [k \in Checkouts |-> Blank]
    BY <1>0 DEF Join, Forget, Joined
  <2>. QED BY <2>1, <2>2 DEF Restarts
<1>6. ASSUME Settle(c) PROVE disk'[c] = disk[c] \/ Receives(c)
  BY <1>6 DEF Settle, Receives, WithReceipt
<1>7. ASSUME \/ Refuse(c) \/ PushOk(c) \/ PushUnheard(c) \/ PushDelayed(c) \/ PushRejected(c)
             \/ Resolve(c) \/ Retry(c) \/ Abort(c)
      PROVE  disk'[c] = disk[c]
  BY <1>7 DEF Refuse, PushOk, PushUnheard, PushDelayed, PushRejected, Resolve, Retry, Abort
<1>8. ASSUME Write(c) PROVE Receives(c)
  <2>1. PICK p \in Asked(proc[c]) :
           /\ p \in ProcType /\ p.ck = proc[c].ck /\ Acceptable(c, p)
           /\ disk' = WithReceipt(c, p.ck,
                [rev |-> made + 1, kind |-> p.op.kind, id |-> Task(p, Token(p)),
                 gen |-> Token(p), binding |-> p.op.binding])
    BY <1>8, WriteFacts
  <2>. DEFINE x == [rev |-> made + 1, kind |-> p.op.kind, id |-> Task(p, Token(p)),
                    gen |-> Token(p), binding |-> p.op.binding]
  <2>2. x.kind = p.op.kind /\ x.binding = p.op.binding
    OBVIOUS
  <2>3. disk' = WithReceipt(c, proc[c].ck, x)
    BY <2>1
  <2>. HIDE DEF x
  <2>4. Fitting(c, x)
    BY <2>1, <2>2 DEF Acceptable, Permitted, Room, Fitting, ProcType, OpType
  <2>5. Pending(c) = NoPending
    BY <1>8 DEF Write
  <2>. QED BY <2>3, <2>4, <2>5 DEF Receives
<1>. QED BY OnlyActor, <1>1, <1>2, <1>3, <1>4, <1>5, <1>6, <1>7, <1>8 DEF Acts, Step

\* What compaction keeps it keeps as it was, and with a receipt pending it
\* keeps everything.
LEMMA CompactKeeps ==
  ASSUME NEW c \in Clones, NEW cs \in [Checkouts -> CheckoutType], NEW table \in Sessions,
         NEW k \in Checkouts
  PROVE  /\ \A s \in Revs : Compact(c, cs, table)[k].sessions[s] \in {cs[k].sessions[s], 0}
         /\ \A p \in Plans : Compact(c, cs, table)[k].bindings[p] \in {cs[k].bindings[p], NoBinding}
         /\ cs[k].pending # NoPending => Compact(c, cs, table)[k] = cs[k]
<1>. DEFINE me  == [clone |-> c, checkout |-> k, life |-> disk[c].life]
            ses == [s \in Revs |-> IF table[s].owner = me /\ table[s].gen = cs[k].sessions[s]
                                   THEN cs[k].sessions[s] ELSE 0]
            bin == [p \in Plans |-> IF cs[k].bindings[p].id \in Present(table)
                                    THEN cs[k].bindings[p] ELSE NoBinding]
<1>1. cs[k] \in CheckoutType
  OBVIOUS
<1>2. /\ \A s \in Revs : ses[s] \in {cs[k].sessions[s], 0}
      /\ \A p \in Plans : bin[p] \in {cs[k].bindings[p], NoBinding}
  OBVIOUS
<1>3. Compact(c, cs, table)[k] = IF cs[k].pending # NoPending THEN cs[k]
                                 ELSE [cs[k] EXCEPT !.sessions = ses, !.bindings = bin]
  BY DEF Compact
<1>. HIDE DEF ses, bin
<1>. QED BY <1>1, <1>2, <1>3 DEF CheckoutType

\* The memory of a checkout names published generations only, and holds room
\* for the plan of its pending publication.
Faithful(c, k, mine) ==
  /\ \A s \in Revs : mine.sessions[s] # 0 => Gave(c, k, s, mine.sessions[s])
  /\ \A p \in Plans : mine.bindings[p] # NoBinding =>
       Gave(c, k, mine.bindings[p].id, mine.bindings[p].gen)

LEMMA SettledIsFaithful ==
  ASSUME TypeOK, History, NEW c \in Clones, NEW k \in Checkouts, NEW r \in landed,
         NEW was \in CheckoutType, Faithful(c, k, was),
         NEW pend \in PendingType, pend.id \in Revs,
         NEW me, me = [clone |-> c, checkout |-> k, life |-> disk[c].life]
  PROVE  Faithful(c, k, Settled(was, pend, commits[r].sessions[pend.id], me))
<1>. DEFINE row == commits[r].sessions[pend.id]
            b1 == [p \in Plans |-> IF was.bindings[p].id = pend.id THEN NoBinding
                                   ELSE was.bindings[p]]
            b2 == [p \in Plans |-> IF p = pend.binding /\ Fits(was.bindings, p)
                                   THEN [id |-> pend.id, gen |-> pend.gen]
                                   ELSE was.bindings[p]]
<1>1. was.sessions \in [Revs -> 0..MaxRev]
  BY DEF CheckoutType
<1>2. CASE pend.kind = "finish"
  <2>. DEFINE ses == [was.sessions EXCEPT ![pend.id] = 0]
  <2>1. Settled(was, pend, row, me) = [was EXCEPT !.sessions = ses, !.bindings = b1]
    BY <1>2 DEF Settled
  <2>2. /\ \A p \in Plans : b1[p] # NoBinding => b1[p] = was.bindings[p]
        /\ \A s \in Revs : ses[s] \in {0, was.sessions[s]}
    BY <1>1
  <2>. HIDE DEF b1, row, ses
  <2>3. /\ Settled(was, pend, row, me).sessions = ses
        /\ Settled(was, pend, row, me).bindings = b1
    BY <2>1 DEF CheckoutType
  <2>. QED BY <2>2, <2>3 DEF Faithful, row
<1>3. CASE pend.kind # "finish" /\ row.owner = me /\ row.gen = pend.gen
  <2>. DEFINE ses == [was.sessions EXCEPT ![pend.id] = pend.gen]
              new == [id |-> pend.id, gen |-> pend.gen]
  <2>1. Settled(was, pend, row, me) = [was EXCEPT !.sessions = ses, !.bindings = b2]
    BY <1>3 DEF Settled
  <2>2. /\ \A p \in Plans : b2[p] = was.bindings[p] \/ b2[p] = new
        /\ \A s \in Revs : ses[s] = IF s = pend.id THEN pend.gen ELSE was.sessions[s]
        /\ new.id = pend.id /\ new.gen = pend.gen
    BY <1>1
  <2>3. Gave(c, k, pend.id, pend.gen)
    BY <1>3 DEF Gave
  <2>. HIDE DEF b2, row, ses, new
  <2>4. /\ Settled(was, pend, row, me).sessions = ses
        /\ Settled(was, pend, row, me).bindings = b2
    BY <2>1 DEF CheckoutType
  <2>5. \A s \in Revs : ses[s] # 0 => Gave(c, k, s, ses[s])
    BY <2>2, <2>3 DEF Faithful
  <2>6. \A p \in Plans : b2[p] # NoBinding => Gave(c, k, b2[p].id, b2[p].gen)
    BY <2>2, <2>3 DEF Faithful
  <2>. QED BY <2>4, <2>5, <2>6 DEF Faithful, row
<1>4. CASE pend.kind # "finish" /\ ~(row.owner = me /\ row.gen = pend.gen)
  BY <1>4 DEF Settled
<1>. QED BY <1>2, <1>3, <1>4

\* Publications are never taken back: the landed revisions stay what they were.
LEMMA GaveStays ==
  ASSUME TypeOK, Control, Holding, History, Next, NEW c \in Clones, NEW k \in Checkouts,
         NEW s, NEW g, Gave(c, k, s, g), disk'[c].life = disk[c].life
  PROVE  Gave(c, k, s, g)'
<1>1. Moved /\ Grown
  BY RemoteSteps
<1>2. \A r \in landed : r \in landed' /\ commits'[r] = commits[r]
  BY <1>1 DEF Moved, Grown, History
<1>. QED BY <1>2 DEF Gave

Prepared(mine) == mine.pending.kind # "finish" /\ mine.pending.binding # NoPlan =>
                    Fits(mine.bindings, mine.pending.binding)

LEMMA BeliefStep ==
  ASSUME IInv, BeliefWasPublished, Next
  PROVE  BeliefWasPublished'
<1>. SUFFICES ASSUME NEW c \in Clones, NEW k \in Checkouts
              PROVE  /\ Faithful(c, k, disk[c].checkouts[k])'
                     /\ Prepared(disk[c].checkouts[k])'
  BY DEF BeliefWasPublished, Faithful, Prepared
<1>. DEFINE was == disk[c].checkouts[k]
            now == disk'[c].checkouts[k]
<1>0. /\ disk \in [Clones -> DiskType] /\ disk[c] \in DiskType
      /\ disk[c].checkouts \in [Checkouts -> CheckoutType] /\ was \in CheckoutType
      /\ proc[c].ck \in Checkouts /\ landed \subseteq Revs
  BY Limits DEF IInv, TypeOK, DiskType, ProcType, History, Revs
<1>1. Faithful(c, k, was) /\ Prepared(was)
  BY DEF BeliefWasPublished, Faithful, Prepared
<1>2. ASSUME Faithful(c, k, now), Prepared(now), disk'[c].life = disk[c].life
      PROVE  /\ Faithful(c, k, disk[c].checkouts[k])'
             /\ Prepared(disk[c].checkouts[k])'
  <2>1. ASSUME NEW s, NEW g, Gave(c, k, s, g) PROVE Gave(c, k, s, g)'
    BY <1>2, <2>1, GaveStays DEF IInv
  <2>. QED BY <1>2, <2>1 DEF Faithful, Prepared, Fits
<1>3. CASE disk'[c] = disk[c]
  BY <1>1, <1>2, <1>3
<1>4. CASE Compacts(c)
  <2>1. PICK r \in landed : disk'[c] = Cached(c, r)
    BY <1>4 DEF Compacts
  <2>2. commits[r].sessions \in Sessions
    BY <1>0 DEF IInv, TypeOK, CommitType, Sessions
  <2>. DEFINE all == Compact(c, disk[c].checkouts, commits[r].sessions)
  <2>3. disk'[c].life = disk[c].life /\ now = all[k]
    BY <1>0, <2>1 DEF Cached, DiskType
  <2>4. /\ \A s \in Revs : all[k].sessions[s] \in {was.sessions[s], 0}
        /\ \A p \in Plans : all[k].bindings[p] \in {was.bindings[p], NoBinding}
        /\ was.pending # NoPending => all[k] = was
        /\ all[k].pending = was.pending
    BY <1>0, <2>2, CompactKeeps, CompactFacts
  <2>. HIDE DEF all
  <2>5. Faithful(c, k, now)
    BY <1>1, <2>3, <2>4 DEF Faithful
  <2>6. Prepared(now)
    <3>1. CASE was.pending = NoPending
      BY <2>3, <2>4, <3>1 DEF Prepared, NoPending
    <3>2. CASE was.pending # NoPending
      BY <1>1, <2>3, <2>4, <3>2
    <3>. QED BY <3>1, <3>2
  <2>. QED BY <1>2, <2>3, <2>5, <2>6
<1>5. CASE Adopts(c)
  <2>1. PICK r \in landed : /\ Pending(c).id \in Revs /\ Pending(c) # NoPending
                            /\ disk'[c] = Accepted(c, r)
    BY <1>5 DEF Adopts
  <2>2. commits[r].sessions \in Sessions /\ r \in Revs
    BY <1>0 DEF IInv, TypeOK, CommitType, Sessions
  <2>. DEFINE j   == proc[c].ck
              cs  == [disk[c].checkouts EXCEPT ![j].pending = NoPending]
              all == Compact(c, cs, commits[r].sessions)
              new == Settled(all[j], Pending(c), commits[r].sessions[Pending(c).id], Owner(c))
  <2>3. NoPending \in PendingType /\ Pending(c) \in PendingType
    BY <1>0, Limits DEF NoPending, PendingType, Pending, CheckoutType
  <2>4. /\ cs \in [Checkouts -> CheckoutType]
        /\ cs[k].sessions = was.sessions /\ cs[k].bindings = was.bindings
        /\ cs[k].pending = IF k = j THEN NoPending ELSE was.pending
        /\ k # j => cs[k] = was
    BY <1>0, <2>3 DEF CheckoutType
  <2>5. all \in [Checkouts -> CheckoutType]
    <3>. HIDE DEF cs
    <3>. QED BY <2>2, <2>4, CompactFacts
  <2>6. /\ \A s \in Revs : all[k].sessions[s] \in {was.sessions[s], 0}
        /\ \A p \in Plans : all[k].bindings[p] \in {was.bindings[p], NoBinding}
        /\ cs[k].pending # NoPending => all[k] = cs[k]
        /\ all[k].pending = cs[k].pending
    <3>. HIDE DEF cs
    <3>1. all[k].pending = cs[k].pending
      BY <2>2, <2>4, CompactFacts
    <3>2. /\ \A s \in Revs : all[k].sessions[s] \in {cs[k].sessions[s], 0}
          /\ \A p \in Plans : all[k].bindings[p] \in {cs[k].bindings[p], NoBinding}
          /\ cs[k].pending # NoPending => all[k] = cs[k]
      BY <2>2, <2>4, CompactKeeps
    <3>. HIDE DEF all
    <3>. QED BY <2>4, <3>1, <3>2
  <2>7. disk'[c].life = disk[c].life /\ now = IF k = j THEN new ELSE all[k]
    <3>1. disk'[c] = [disk[c] EXCEPT !.checkouts = [all EXCEPT ![j] = new]]
      BY <2>1 DEF Accepted, Pending
    <3>2. j \in Checkouts
      BY <1>0
    <3>. HIDE DEF all, new, cs, j
    <3>. QED BY <1>0, <2>5, <3>1, <3>2 DEF DiskType
  <2>. HIDE DEF cs, all
  <2>8. Faithful(c, k, all[k])
    BY <1>1, <2>6 DEF Faithful
  <2>9. k = j => Faithful(c, k, new) /\ new.pending = NoPending
    <3>1. ASSUME k = j PROVE Faithful(c, k, new)
      <4>1. Owner(c) = [clone |-> c, checkout |-> k, life |-> disk[c].life]
        BY <3>1 DEF Owner
      <4>2. all[k] \in CheckoutType
        BY <2>5
      <4>. QED BY <1>0, <2>1, <2>3, <2>8, <3>1, <4>1, <4>2, SettledIsFaithful DEF IInv
    <3>2. ASSUME k = j PROVE new.pending = NoPending
      <4>1. all[j] \in CheckoutType /\ commits[r].sessions[Pending(c).id] \in Rows \cup {NoRow}
        BY <1>0, <2>1, <2>2, <2>5, RowFacts DEF IInv
      <4>2. new.pending = all[j].pending
        BY <2>3, <4>1, SettledFacts
      <4>. QED BY <2>4, <2>6, <3>2, <4>2
    <3>. QED BY <3>1, <3>2
  <2>. HIDE DEF new, j
  <2>10. Faithful(c, k, now)
    BY <2>7, <2>8, <2>9
  <2>11. Prepared(now)
    <3>1. CASE k = j
      BY <2>7, <2>9, <3>1 DEF Prepared, NoPending
    <3>2. CASE k # j /\ was.pending # NoPending
      BY <1>1, <2>4, <2>6, <2>7, <3>2
    <3>3. CASE k # j /\ was.pending = NoPending
      <4>1. now.pending = NoPending
        BY <2>4, <2>6, <2>7, <3>3
      <4>. QED BY <4>1 DEF Prepared, NoPending
    <3>. QED BY <3>1, <3>2, <3>3
  <2>. QED BY <1>2, <2>7, <2>10, <2>11
<1>6. CASE Receives(c)
  <2>1. PICK x : /\ x = NoPending \/ (Fitting(c, x) /\ Pending(c) = NoPending)
                 /\ disk' = WithReceipt(c, proc[c].ck, x)
    BY <1>6 DEF Receives
  <2>. DEFINE j  == proc[c].ck
              cs == [disk[c].checkouts EXCEPT ![j].pending = x]
  <2>2. disk'[c] = [disk[c] EXCEPT !.checkouts = cs]
    BY <1>0, <2>1 DEF WithReceipt
  <2>3. /\ cs[k].sessions = was.sessions /\ cs[k].bindings = was.bindings
        /\ cs[k].pending = IF k = j THEN x ELSE was.pending
    BY <1>0 DEF CheckoutType
  <2>4. disk'[c].life = disk[c].life /\ now = cs[k]
    <3>. HIDE DEF cs
    <3>. QED BY <1>0, <2>2 DEF DiskType
  <2>. HIDE DEF cs
  <2>5. Faithful(c, k, now)
    BY <1>1, <2>3, <2>4 DEF Faithful
  <2>6. Prepared(now)
    <3>1. CASE k # j
      BY <1>1, <2>3, <2>4, <3>1 DEF Prepared
    <3>2. CASE k = j /\ x = NoPending
      BY <2>3, <2>4, <3>2 DEF Prepared, NoPending
    <3>3. CASE k = j /\ x # NoPending
      BY <2>1, <2>3, <2>4, <3>3 DEF Prepared, Fitting
    <3>. QED BY <3>1, <3>2, <3>3
  <2>. QED BY <1>2, <2>4, <2>5, <2>6
<1>7. CASE Restarts(c)
  <2>1. now = Blank
    BY <1>7 DEF Restarts
  <2>2. /\ \A s \in Revs : now.sessions[s] = 0
        /\ \A p \in Plans : now.bindings[p] = NoBinding
        /\ now.pending.binding = NoPlan
    BY <2>1 DEF Blank, NoPending
  <2>. QED BY <2>2 DEF Faithful, Prepared
<1>. QED BY <1>3, <1>4, <1>5, <1>6, <1>7, DiskSteps DEF IInv

\* What a checkout remembers was published, and the room for the plan of its
\* pending publication, checked before the push, is still there afterwards.
THEOREM BeliefIsPublished == Spec => []BeliefWasPublished
<1>1. Init => BeliefWasPublished
  BY DEF Init, BeliefWasPublished, Joined, Blank, NoPending
<1>2. IInv /\ BeliefWasPublished /\ [Next]_vars => BeliefWasPublished'
  <2>1. ASSUME BeliefWasPublished, UNCHANGED vars PROVE BeliefWasPublished'
    <3>1. \A c, k, s, g : Gave(c, k, s, g)' = Gave(c, k, s, g)
      BY <2>1 DEF vars, Gave
    <3>. QED BY <2>1, <3>1 DEF vars, BeliefWasPublished
  <2>. QED BY <2>1, BeliefStep
<1>. QED BY <1>1, <1>2, InvariantHolds, PTL DEF Spec

-----------------------------------------------------------------------------
(* A clone that left in order leaves nothing behind.                       *)

\* A clone that has left runs nothing and holds no receipt, a command that
\* accepts an outcome has seen its commit land, one that reconciles has a
\* receipt, and a commit that would bring
\* the clone to the board is accounted for: it landed, it was dropped, or a
\* receipt names it, unless the clone abandoned the board.  What a leaving
\* command looked at tells it all it has to know.
Leavable ==
  /\ \A c \in Clones : ~disk[c].joined =>
       proc[c].pc = "idle" /\ \A k \in Checkouts : Pend(c, k) = NoPending
  /\ \A c \in Clones : proc[c].pc = "accept" => proc[c].rev \in landed
  /\ \A c \in Clones : proc[c].pc = "reconcile" => Pending(c) # NoPending
Introduces(c, r) == Holds(c, r) /\ Parent(r) # 0 /\ ~Holds(c, Parent(r))
Accounted(c, r)  == \/ farewell[c] = "abandoned" \/ r \in landed \/ r \in discarded
                    \/ \E k \in Checkouts : Pend(c, k).rev = r
Accountable == \A c \in Clones : \A r \in 2..made : Introduces(c, r) => Accounted(c, r)
Clear(c)    == Receipts(c) = {} /\ farewell[c] # "abandoned"
Leaving(c)  == proc[c].pc = "act" /\ proc[c].op.kind = "leave"
Departures  ==
  \A c \in Clones :
    /\ Leaving(c) /\ Clear(c) /\ Holds(c, head) => Holds(c, proc[c].snap)
    /\ farewell[c] = "clean" => ~disk[c].joined /\ ~Holds(c, head)

LInv == Leavable /\ Accountable /\ Departures

LEMMA HoldsStays ==
  ASSUME TypeOK, Control, Holding, History, Next, NEW c \in Clones, NEW r \in 1..made
  PROVE  Holds(c, r)' = Holds(c, r)
<1>1. commits'[r] = commits[r]
  BY RemoteSteps DEF Grown
<1>. QED BY <1>1 DEF Holds

\* How a clone comes to accept, to leave, or to be away.
LEMMA AcceptSteps ==
  ASSUME TypeOK, Control, Holding, History, Next, NEW c \in Clones, proc'[c].pc = "accept"
  PROVE  \/ proc'[c] = proc[c]
         \/ proc'[c].rev \in landed'
<1>0. proc[c] \in ProcType /\ proc \in [Clones -> ProcType]
  BY DEF TypeOK
<1>1. ASSUME NEW k \in Checkouts, NEW kind \in Commands, Begin(c, k, kind)
      PROVE  proc'[c] = proc[c]
  BY <1>0, <1>1 DEF Begin, Go, At
<1>2. ASSUME PushOk(c) PROVE proc'[c].rev \in landed'
  <2>1. proc'[c].rev = proc[c].rev
    BY <1>2, Turns DEF PushOk, Turned
  <2>. QED BY <1>2, <2>1 DEF PushOk, Advance, History
<1>3. ASSUME Resolve(c) PROVE proc'[c].rev \in landed'
  <2>1. Go(c, [proc[c] EXCEPT !.pc = "accept", !.snap = head]) => proc'[c].rev = proc[c].rev
    BY Turns DEF Turned
  <2>2. /\ End(c) => proc'[c].pc = "idle"
        /\ \A out : Go(c, [proc[c] EXCEPT !.pc = "settle", !.out = out]) => proc'[c].pc = "settle"
    BY Went, Turns DEF Turned
  <2>. QED BY <1>3, <2>1, <2>2 DEF Resolve, remoteVars
<1>4. ASSUME Retry(c) PROVE proc'[c].rev \in landed'
  BY ZenonT(30), <1>0, <1>4 DEF Retry, Go, ProcType, remoteVars
<1>5. ASSUME Write(c) PROVE FALSE
  <2>1. PICK p \in ProcType :
          proc' = [proc EXCEPT ![c] = [p EXCEPT !.pc = "push", !.rev = made + 1, !.gen = Token(p)]]
    BY <1>5, WriteFacts
  <2>. QED BY <1>0, <2>1 DEF ProcType
<1>6. ASSUME Reconcile(c) \/ Settle(c) \/ Reread(c) PROVE FALSE
  <2>1. \/ End(c)
        \/ \E snap : Go(c, [proc[c] EXCEPT !.pc = "act", !.snap = snap])
        \/ Go(c, [proc[c] EXCEPT !.pc = "reread"])
        \/ Go(c, [proc[c] EXCEPT !.pc = "act", !.snap = head, !.attempt = @ + 1,
                                 !.rev = 0, !.out = "none"])
    BY <1>6 DEF Reconcile, Settle, Reread
  <2>. QED BY <1>0, <2>1, Went DEF ProcType
<1>7. ASSUME Refuse(c) \/ Accept(c) \/ Leave(c) \/ Abort(c) \/ Abandon(c) PROVE FALSE
  BY <1>7, Went DEF Refuse, Accept, Leave, Abort, Abandon, Forget
<1>8. ASSUME PushUnheard(c) \/ PushDelayed(c) \/ PushRejected(c) PROVE FALSE
  <2>1. End(c) \/ \E out : Go(c, [proc[c] EXCEPT !.pc = "resolve", !.out = out])
    BY <1>8 DEF PushUnheard, PushDelayed, PushRejected
  <2>. QED BY <1>0, <2>1, Went DEF ProcType
<1>9. ASSUME Join(c) PROVE proc'[c] = proc[c]
  BY <1>9 DEF Join
<1>. QED BY OnlyActor, <1>1, <1>2, <1>3, <1>4, <1>5, <1>6, <1>7, <1>8, <1>9 DEF Acts, Step

LEMMA JoinedSteps ==
  ASSUME TypeOK, Control, Holding, History, Next, NEW c \in Clones
  PROVE  \/ disk'[c].joined = disk[c].joined
         \/ Join(c)
         \/ proc'[c].pc = "idle" /\ \A k \in Checkouts : Pend(c, k)' = NoPending
<1>0. landed \subseteq Revs /\ proc[c].ck \in Checkouts
  BY Limits DEF History, TypeOK, ProcType, Revs
<1>1. Compacts(c) => disk'[c].joined = disk[c].joined
  BY <1>0, CachedFacts DEF Compacts
<1>2. Adopts(c) => disk'[c].joined = disk[c].joined
  BY <1>0, AcceptedFacts DEF Adopts
<1>3. Receives(c) => disk'[c].joined = disk[c].joined
  BY <1>0, SetReceipt DEF Receives
<1>4. Restarts(c) => Join(c) \/ (proc'[c].pc = "idle" /\ \A k \in Checkouts : Pend(c, k)' = NoPending)
  BY Went DEF Restarts, Forget, Pend, Blank
<1>. QED BY <1>1, <1>2, <1>3, <1>4, DiskSteps

\* Nothing but a join happens in a clone that is away.
LEMMA AwaySteps ==
  ASSUME TypeOK, Next, NEW c \in Clones, ~disk[c].joined, proc[c].pc = "idle"
  PROVE  Join(c) \/ (proc'[c] = proc[c] /\ disk'[c] = disk[c])
BY OnlyActor DEF Acts, Step, Begin, Reconcile, Write, Refuse, PushOk, PushUnheard, PushDelayed,
                 PushRejected, Pushing, Resolve, Retry, Settle, Reread, Accept, Leave, Abort, Abandon

LEMMA FarewellSteps ==
  ASSUME TypeOK, Next, NEW c \in Clones
  PROVE  \/ farewell'[c] = farewell[c]
         \/ Abandon(c) /\ farewell'[c] = "abandoned"
         \/ Join(c) /\ farewell[c] = "clean" /\ farewell'[c] = "in"
         \/ /\ Leave(c) /\ Forget(c) /\ MayLeave(c, proc[c].snap)
            /\ farewell[c] = "in" /\ farewell'[c] = "clean"
<1>1. ASSUME NEW d \in Clones, Acts(d), ~Join(d), ~Leave(d), ~Abandon(d)
      PROVE  farewell' = farewell
  BY <1>1 DEF Acts, Step, Begin, Reconcile, Write, Refuse, PushOk, PushUnheard, PushDelayed,
              PushRejected, Resolve, Retry, Settle, Reread, Accept, Abort, historyVars
<1>2. ASSUME NEW d \in Clones, Join(d) \/ Leave(d) \/ Abandon(d), d # c
      PROVE  farewell'[c] = farewell[c]
  BY <1>2 DEF Join, Leave, Abandon, TypeOK
<1>3. ASSUME Join(c) PROVE farewell'[c] = farewell[c] \/ (farewell[c] = "clean" /\ farewell'[c] = "in")
  BY <1>3 DEF Join, TypeOK
<1>4. ASSUME Abandon(c) PROVE farewell'[c] = "abandoned"
  BY <1>4 DEF Abandon, TypeOK
<1>5. ASSUME Leave(c)
      PROVE  \/ farewell'[c] = farewell[c]
             \/ /\ Forget(c) /\ MayLeave(c, proc[c].snap)
                /\ farewell[c] = "in" /\ farewell'[c] = "clean"
  BY <1>5 DEF Leave, TypeOK
<1>6. ASSUME NEW q \in Revs, Arrive(q) \/ Vanish(q) PROVE farewell' = farewell
  BY <1>6 DEF Arrive, Vanish, historyVars
<1>. QED BY <1>1, <1>2, <1>3, <1>4, <1>5, <1>6 DEF Next, Acts

LEMMA DiscardedGrows ==
  ASSUME Next
  PROVE  discarded \subseteq discarded'
<1>1. ASSUME NEW c \in Clones, Acts(c) PROVE discarded \subseteq discarded'
  BY <1>1 DEF Acts, Step, Begin, Reconcile, Write, Refuse, PushOk, PushUnheard, PushDelayed,
              PushRejected, Resolve, Retry, Settle, Reread, Accept, Leave, Abort, Join, Abandon,
              historyVars
<1>2. ASSUME NEW q \in Revs, Arrive(q) \/ Vanish(q) PROVE discarded \subseteq discarded'
  BY <1>2 DEF Arrive, Vanish, historyVars
<1>. QED BY <1>1, <1>2 DEF Next, Acts

\* A receipt is given up for a reason: its commit landed, the revision was
\* dropped, or the clone abandons the board.
LEMMA ReceiptEnds ==
  ASSUME IInv, Leavable, Next, NEW c \in Clones, NEW k \in Checkouts,
         NEW r, Pend(c, k).rev = r, r # 0, Pend(c, k)'.rev # r
  PROVE  r \in landed \/ r \in discarded' \/ farewell'[c] = "abandoned"
<1>. USE DEF IInv
<1>0. /\ TypeOK /\ Control /\ Holding /\ History /\ Pend(c, k) # NoPending
      /\ landed \subseteq Revs /\ proc[c].ck \in Checkouts /\ head \in landed
      /\ disk \in [Clones -> DiskType]
  <2>1. TypeOK /\ Control /\ Holding /\ History
    OBVIOUS
  <2>2. Pend(c, k) # NoPending
    BY DEF NoPending
  <2>3. landed \subseteq Revs /\ head \in landed
    BY <2>1 DEF History, TypeOK
  <2>4. proc[c].ck \in Checkouts /\ disk \in [Clones -> DiskType]
    BY <2>1 DEF TypeOK, ProcType
  <2>. QED BY <2>1, <2>2, <2>3, <2>4
<1>. HIDE DEF IInv
<1>1. ASSUME NEW s \in landed, disk' = [disk EXCEPT ![c] = Cached(c, s)] PROVE FALSE
  BY <1>0, <1>1, CachedFacts DEF Pend
<1>2. ASSUME NEW s \in landed, disk' = [disk EXCEPT ![c] = Accepted(c, s)], Pending(c).id \in Revs
      PROVE  k = proc[c].ck
  BY <1>0, <1>2, AcceptedFacts DEF Pend
<1>3. disk'[c] # disk[c]
  BY DEF Pend
<1>4. ASSUME NEW j \in Checkouts, NEW kind \in Commands, Begin(c, j, kind) PROVE FALSE
  BY <1>0, <1>1, <1>3, <1>4 DEF Begin
<1>5. ASSUME Reconcile(c) PROVE r \in landed
  <2>1. proc[c].snap \in landed
    BY <1>0, <1>5 DEF Reconcile, Control, Steered
  <2>2. Pending(c).rev \in landed
    BY <1>0, <1>1, <1>5, <2>1 DEF Reconcile
  <2>3. Pending(c).id \in Revs
    BY SMTT(30), <1>0, <2>2 DEF Holding, History, Pending, Pend, NoPending, Revs
  <2>. QED BY <1>0, <1>2, <1>5, <2>2, <2>3 DEF Reconcile, Pending, Pend
<1>6. ASSUME Accept(c) PROVE r \in landed
  <2>1. proc[c].snap \in landed /\ proc[c].rev = Pend(c, proc[c].ck).rev /\ proc[c].rev \in landed
    <3>1. proc[c].pc = "accept"
      BY <1>6 DEF Accept
    <3>2. proc[c].snap \in landed
      BY <1>0, <3>1 DEF Control, Steered
    <3>3. proc[c].rev = Pend(c, proc[c].ck).rev
      BY <1>0, <3>1 DEF Holding
    <3>4. proc[c].rev \in landed
      BY <3>1 DEF Leavable
    <3>. QED BY <3>2, <3>3, <3>4
  <2>2. Pending(c).id \in Revs
    BY SMTT(30), <1>0, <2>1 DEF Holding, History, Pending, Pend, NoPending, Revs
  <2>. QED BY <1>0, <1>2, <1>6, <2>1, <2>2 DEF Accept
<1>7. ASSUME Settle(c) PROVE r \in discarded'
  <2>1. /\ disk' = WithReceipt(c, proc[c].ck, NoPending)
        /\ discarded' = discarded \cup {proc[c].rev}
    BY <1>3, <1>7 DEF Settle, WithReceipt
  <2>2. k = proc[c].ck
    BY <1>0, <2>1, SetReceipt
  <2>. QED BY <1>0, <1>7, <2>1, <2>2 DEF Settle, Holding
<1>8. ASSUME Write(c) PROVE FALSE
  <2>1. \E x : disk' = WithReceipt(c, proc[c].ck, x)
    <3>1. PICK p \in Asked(proc[c]) :
            /\ p.ck = proc[c].ck
            /\ disk' = WithReceipt(c, p.ck,
                [rev |-> made + 1, kind |-> p.op.kind, id |-> Task(p, Token(p)),
                 gen |-> Token(p), binding |-> p.op.binding])
      BY <1>0, <1>8, WriteFacts
    <3>. QED BY <3>1
  <2>2. k = proc[c].ck
    BY <1>0, <2>1, SetReceipt
  <2>. QED BY <1>0, <1>8, <2>2 DEF Write, Pending, Pend
<1>9. ASSUME Reread(c) PROVE FALSE
  BY <1>0, <1>1, <1>9 DEF Reread
<1>10. ASSUME Join(c) PROVE FALSE
  BY <1>0, <1>10 DEF Join, Leavable
<1>11. ASSUME Leave(c) PROVE FALSE
  <2>1. Receipts(c) = {}
    BY <1>3, <1>11 DEF Leave, MayLeave
  <2>2. r \in Receipts(c)
    BY DEF Receipts, Pend
  <2>. QED BY <2>1, <2>2
<1>12. ASSUME Abandon(c) PROVE farewell'[c] = "abandoned"
  BY <1>0, <1>12 DEF Abandon, TypeOK
<1>13. ASSUME \/ Refuse(c) \/ PushOk(c) \/ PushUnheard(c) \/ PushDelayed(c) \/ PushRejected(c)
              \/ Resolve(c) \/ Retry(c) \/ Abort(c)
       PROVE  FALSE
  BY <1>3, <1>13 DEF Refuse, PushOk, PushUnheard, PushDelayed, PushRejected, Resolve, Retry, Abort
<1>. QED BY <1>0, <1>3, <1>4, <1>5, <1>6, <1>7, <1>8, <1>9, <1>10, <1>11, <1>12, <1>13, OnlyActor
        DEF Acts, Step

\* Only its own publications bring a clone to the board.
LEMMA NewHolder ==
  ASSUME IInv, Next, NEW d \in Clones, Write(d), NEW c \in Clones,
         NEW r, r = made + 1, Introduces(c, r)'
  PROVE  c = d
<1>1. PICK p \in Asked(proc[d]) :
         /\ p \in ProcType /\ p.op.kind \in Mutations /\ Acceptable(d, p)
         /\ Task(p, Token(p)) \in Revs /\ p.snap \in landed /\ landed \subseteq Revs
         /\ made' = made + 1 /\ made + 1 \in Revs
         /\ commits' = [commits EXCEPT ![made + 1] =
              [parent |-> p.snap, version |-> NewBoard(p, Token(p), Owner(d)).version,
               sessions |-> NewBoard(p, Token(p), Owner(d)).sessions]]
  BY WriteFacts DEF IInv
<1>. DEFINE was == commits[p.snap].sessions
            t   == Task(p, Token(p))
            row == NewRow(p, Token(p), Owner(d))
            now == [was EXCEPT ![t] = row]
<1>2. commits'[r].parent = p.snap /\ commits'[r].sessions = now
  BY <1>1 DEF IInv, TypeOK, NewBoard
<1>3. was \in [Revs -> Rows \cup {NoRow}]
  BY <1>1 DEF IInv, TypeOK, CommitType
<1>4. p.snap \in 1..made
  BY <1>1 DEF IInv, History
<1>5. Holds(c, p.snap)' = Holds(c, p.snap)
  BY <1>4, HoldsStays DEF IInv
<1>6. ~Holds(c, p.snap) /\ Holds(c, r)'
  BY <1>2, <1>5 DEF Introduces, Parent
<1>. HIDE DEF was, row, t
<1>7. PICK s \in Revs : now[s] # NoRow /\ now[s].owner.clone = c
  BY <1>2, <1>6 DEF Holds
<1>8. \A x \in Revs : was[x] # NoRow => was[x].owner.clone # c
  BY <1>6 DEF Holds, was
<1>9. s = t /\ row # NoRow /\ row.owner.clone = c
  BY <1>1, <1>3, <1>7, <1>8 DEF t
<1>10. CASE p.op.kind \in {"start", "recover"}
  <2>1. row.owner = Owner(d)
    <3>1. CASE p.op.kind = "start"
      BY <3>1 DEF row, NewRow
    <3>2. CASE p.op.kind = "recover"
      <4>1. p.op.id \in Revs
        BY <1>1, <3>2 DEF Task
      <4>2. was[p.op.id] \in Rows
        BY <1>1, <1>3, <3>2, <4>1 DEF Acceptable, Permitted, was
      <4>. QED BY <3>2, <4>2 DEF row, NewRow, was, Rows
    <3>. QED BY <1>10, <3>1, <3>2
  <2>. QED BY <1>9, <2>1 DEF Owner
<1>11. CASE p.op.kind = "update"
  <2>1. was[p.op.id] \in Rows /\ p.op.id \in Revs
    BY <1>1, <1>3, <1>11 DEF Acceptable, Permitted, Owned, was, Task
  <2>2. row = was[p.op.id] \/ row = [was[p.op.id] EXCEPT !.paths = p.op.paths]
    BY <1>11 DEF row, NewRow, was
  <2>3. row.owner = was[p.op.id].owner
    BY <2>1, <2>2 DEF Rows
  <2>4. was[p.op.id] # NoRow
    BY <1>1, <1>11 DEF Acceptable, Permitted, Owned, was
  <2>. QED BY <1>8, <1>9, <2>1, <2>3, <2>4
<1>12. CASE p.op.kind = "finish"
  BY <1>9, <1>12 DEF row, NewRow
<1>. QED BY <1>1, <1>10, <1>11, <1>12 DEF Mutations

LEMMA AccountableStep ==
  ASSUME IInv, LInv, Next
  PROVE  Accountable'
<1>. SUFFICES ASSUME NEW c \in Clones, NEW r \in 2..made', Introduces(c, r)'
              PROVE  Accounted(c, r)'
  BY DEF Accountable
<1>0. /\ Moved /\ Grown /\ made \in Nat /\ History /\ History'
  BY RemoteSteps, HistoryStep, Limits DEF Grown, IInv, Revs
<1>1. CASE r \in 2..made
  <2>1. Parent(r)' = Parent(r) /\ Parent(r) \in landed \cup {0} /\ r \in 1..made
    BY <1>0, <1>1, Limits DEF Grown, Parent, History, Revs
  <2>2. Parent(r) # 0 => Parent(r) \in 1..made
    BY <1>0, <2>1 DEF History
  <2>3. Introduces(c, r)
    BY <2>1, <2>2, HoldsStays DEF Introduces, IInv, Parent
  <2>4. Accounted(c, r)
    BY <1>1, <2>3 DEF LInv, Accountable
  <2>5. farewell[c] = "abandoned" => farewell'[c] = "abandoned"
    BY FarewellSteps DEF IInv
  <2>6. landed \subseteq landed' /\ discarded \subseteq discarded'
    BY <1>0, DiscardedGrows DEF Moved
  <2>7. ASSUME NEW k \in Checkouts, Pend(c, k).rev = r
        PROVE  Accounted(c, r)'
    <3>1. Pend(c, k)'.rev = r \/ r \in landed \/ r \in discarded' \/ farewell'[c] = "abandoned"
      BY <1>0, <1>1, <2>7, ReceiptEnds DEF LInv
    <3>. QED BY <2>6, <3>1 DEF Accounted
  <2>. QED BY <2>4, <2>5, <2>6, <2>7 DEF Accounted
<1>2. CASE r \notin 2..made
  <2>1. \E d \in Clones : Write(d)
    <3>1. made' # made
      BY <1>2
    <3>2. ASSUME NEW d \in Clones, Acts(d), ~Write(d) PROVE made' = made
      BY <3>2 DEF Acts, Step, Begin, Reconcile, Refuse, PushOk, PushUnheard, PushDelayed,
              PushRejected, Resolve, Retry, Settle, Reread, Accept, Leave, Abort, Join, Abandon,
              commitVars
    <3>3. ASSUME NEW q \in Revs, Arrive(q) \/ Vanish(q) PROVE made' = made
      BY <3>3 DEF Arrive, Vanish, commitVars
    <3>. QED BY <3>1, <3>2, <3>3 DEF Next, Acts
  <2>2. PICK d \in Clones : Write(d)
    BY <2>1
  <2>3. r = made + 1
    BY <1>0, <1>2, <2>2 DEF Write
  <2>4. c = d
    BY <2>2, <2>3, NewHolder
  <2>5. PICK p \in ProcType :
           /\ p.ck = proc[c].ck
           /\ disk' = WithReceipt(c, p.ck,
                [rev |-> made + 1, kind |-> p.op.kind, id |-> Task(p, Token(p)),
                 gen |-> Token(p), binding |-> p.op.binding])
    BY <2>2, <2>4, WriteFacts DEF IInv
  <2>. DEFINE x == [rev |-> made + 1, kind |-> p.op.kind, id |-> Task(p, Token(p)),
                    gen |-> Token(p), binding |-> p.op.binding]
  <2>6. x.rev = made + 1
    OBVIOUS
  <2>7. Pend(c, p.ck)' = x /\ p.ck \in Checkouts
    <3>. HIDE DEF x
    <3>. QED BY <2>5, SetReceipt DEF IInv, ProcType, x
  <2>. HIDE DEF x
  <2>. QED BY <2>3, <2>6, <2>7 DEF Accounted
<1>. QED BY <1>1, <1>2

\* How a command comes to be reconciling or leaving.
LEMMA LeavingSteps ==
  ASSUME IInv, LInv, Next, NEW c \in Clones, proc'[c].pc \in {"reconcile", "act"}
  PROVE  \/ proc'[c] = proc[c] /\ disk'[c] = disk[c]
         \/ /\ proc'[c].pc = "reconcile" /\ disk' = disk
            /\ disk[c].checkouts[proc'[c].ck].pending # NoPending
         \/ /\ proc'[c].pc = "act" /\ UNCHANGED <<head, landed, commits>>
            /\ proc'[c].snap = head
         \/ /\ proc'[c].pc = "act"
            /\ \E k \in Checkouts : Pend(c, k) # NoPending /\ Pend(c, k)' = Pend(c, k)
<1>0. /\ TypeOK /\ Control /\ Holding /\ History
      /\ proc[c] \in ProcType /\ proc \in [Clones -> ProcType]
      /\ disk \in [Clones -> DiskType]
  BY DEF IInv, TypeOK
<1>1. ASSUME NEW k \in Checkouts, NEW kind \in Commands, Begin(c, k, kind)
      PROVE  \/ /\ proc'[c].pc = "reconcile" /\ disk' = disk
                /\ disk[c].checkouts[proc'[c].ck].pending # NoPending
             \/ /\ proc'[c].pc = "act" /\ UNCHANGED <<head, landed, commits>>
                /\ proc'[c].snap = head
  <2>1. \/ proc' = proc /\ proc[c].pc = "idle"
        \/ /\ Go(c, At(k, "reconcile", Op(kind), head)) /\ disk' = disk
           /\ disk[c].checkouts[k].pending # NoPending
        \/ Go(c, At(k, "act", Op(kind), head)) /\ UNCHANGED <<head, landed, commits>>
    BY <1>1 DEF Begin, remoteVars, commitVars
  <2>2. \A pc : At(k, pc, Op(kind), head).pc = pc /\ At(k, pc, Op(kind), head).ck = k
                 /\ At(k, pc, Op(kind), head).snap = head
    BY DEF At
  <2>. QED BY <1>0, <2>1, <2>2, Went
<1>2. ASSUME Reconcile(c)
      PROVE  \/ /\ proc'[c].pc = "act" /\ UNCHANGED <<head, landed, commits>>
                /\ proc'[c].snap = head
             \/ /\ proc'[c].pc = "act"
                /\ \E k \in Checkouts : Pend(c, k) # NoPending /\ Pend(c, k)' = Pend(c, k)
  <2>1. proc[c].pc = "reconcile" /\ Pending(c) # NoPending /\ proc[c].snap \in Revs
    BY <1>0, <1>2, Limits DEF Reconcile, LInv, Leavable, Control, Steered, History, TypeOK, Revs
  <2>2. ~End(c)
    BY <1>0, Went
  <2>3. CASE Pending(c).rev \in landed
    <3>1. Go(c, [proc[c] EXCEPT !.pc = "act", !.snap = head])
      BY <1>2, <2>2, <2>3 DEF Reconcile
    <3>2. Turned(c, "act", proc[c].out, head)
      BY <1>0, <3>1, Turns
    <3>. QED BY <1>2, <3>2 DEF Reconcile, Turned, remoteVars, commitVars
  <2>4. CASE Pending(c).rev \notin landed
    <3>1. /\ Go(c, [proc[c] EXCEPT !.pc = "act", !.snap = proc[c].snap])
          /\ disk' = [disk EXCEPT ![c] = Cached(c, proc[c].snap)]
      BY <1>2, <2>2, <2>4 DEF Reconcile
    <3>2. \A k \in Checkouts : Pend(c, k)' = Pend(c, k)
      BY <1>0, <2>1, <3>1, CachedFacts DEF Pend
    <3>3. PICK k \in Checkouts : k = proc[c].ck
      BY <1>0 DEF ProcType
    <3>4. proc'[c].pc = "act"
      BY <1>0, <3>1, Turns DEF Turned
    <3>. QED BY <2>1, <3>2, <3>3, <3>4 DEF Pending, Pend
  <2>. QED BY <2>3, <2>4
<1>3. ASSUME Reread(c)
      PROVE  /\ proc'[c].pc = "act" /\ UNCHANGED <<head, landed, commits>>
             /\ proc'[c].snap = head
  <2>1. ~End(c)
    BY <1>0, Went
  <2>2. Go(c, [proc[c] EXCEPT !.pc = "act", !.snap = head, !.attempt = @ + 1,
                              !.rev = 0, !.out = "none"])
    BY <1>3, <2>1 DEF Reread
  <2>3. proc'[c].pc = "act" /\ proc'[c].snap = head
    BY <1>0, <2>2, Went DEF ProcType
  <2>. QED BY <1>3, <2>3 DEF Reread, remoteVars, commitVars
<1>5. ASSUME Refuse(c) \/ Accept(c) \/ Leave(c) \/ Abort(c) \/ Abandon(c) PROVE FALSE
  BY <1>0, <1>5, Went DEF Refuse, Accept, Leave, Abort, Abandon, Forget
<1>6. ASSUME PushOk(c) \/ PushUnheard(c) \/ PushDelayed(c) \/ PushRejected(c) PROVE FALSE
  <2>1. \/ End(c)
        \/ Go(c, [proc[c] EXCEPT !.pc = "accept", !.snap = proc[c].rev])
        \/ \E out : Go(c, [proc[c] EXCEPT !.pc = "resolve", !.out = out])
    BY <1>6 DEF PushOk, PushUnheard, PushDelayed, PushRejected
  <2>. QED BY <1>0, <2>1, Went DEF ProcType
<1>7. ASSUME Resolve(c) PROVE FALSE
  <2>1. \/ End(c)
        \/ Go(c, [proc[c] EXCEPT !.pc = "accept", !.snap = head])
        \/ \E out : Go(c, [proc[c] EXCEPT !.pc = "settle", !.out = out])
    BY <1>7 DEF Resolve
  <2>. QED BY <1>0, <2>1, Went DEF ProcType
<1>8. ASSUME Retry(c) PROVE FALSE
  BY <1>0, <1>8, Went DEF Retry, ProcType
<1>9. ASSUME Write(c) PROVE FALSE
  <2>1. PICK p \in ProcType :
          proc' = [proc EXCEPT ![c] = [p EXCEPT !.pc = "push", !.rev = made + 1, !.gen = Token(p)]]
    BY <1>0, <1>9, WriteFacts
  <2>. QED BY <1>0, <2>1 DEF ProcType
<1>10. ASSUME Settle(c) PROVE FALSE
  <2>1. End(c) \/ Go(c, [proc[c] EXCEPT !.pc = "reread"])
    BY <1>10 DEF Settle
  <2>. QED BY <1>0, <2>1, Went DEF ProcType
<1>11. ASSUME Join(c) PROVE FALSE
  BY <1>11 DEF Join
<1>. QED BY <1>0, <1>1, <1>2, <1>3, <1>5, <1>6, <1>7, <1>8, <1>9, <1>10, <1>11, OnlyActor
        DEF Acts, Step

LEMMA LeavableStep ==
  ASSUME IInv, LInv, Next
  PROVE  Leavable'
<1>0. TypeOK /\ Control /\ Holding /\ History /\ Leavable
  BY DEF IInv, LInv
<1>1. ASSUME NEW c \in Clones, ~disk'[c].joined
      PROVE  proc'[c].pc = "idle" /\ \A k \in Checkouts : Pend(c, k)' = NoPending
  <2>1. CASE Join(c)
    BY <1>0, <1>1, <2>1 DEF Join, Joined, TypeOK
  <2>2. CASE ~Join(c) /\ disk[c].joined
    BY <1>0, <1>1, <2>2, JoinedSteps
  <2>3. CASE ~Join(c) /\ ~disk[c].joined
    <3>1. proc'[c] = proc[c] /\ disk'[c] = disk[c]
      BY <1>0, <2>3, AwaySteps DEF Leavable
    <3>. QED BY <1>0, <2>3, <3>1 DEF Leavable, Pend
  <2>. QED BY <2>1, <2>2, <2>3
<1>2. ASSUME NEW c \in Clones, proc'[c].pc = "accept" PROVE proc'[c].rev \in landed'
  <2>1. landed \subseteq landed'
    BY <1>0, RemoteSteps DEF Moved
  <2>2. proc'[c] = proc[c] => proc'[c].rev \in landed
    BY <1>0, <1>2 DEF Leavable
  <2>. QED BY <1>0, <1>2, <2>1, <2>2, AcceptSteps
<1>3. ASSUME NEW c \in Clones, proc'[c].pc = "reconcile"
      PROVE  disk'[c].checkouts[proc'[c].ck].pending # NoPending
  BY <1>0, <1>3, LeavingSteps DEF Leavable, Pending
<1>. QED BY <1>1, <1>2, <1>3 DEF Leavable, Pending

\* Nothing brings a clone to the board whose last receipt is gone.
LEMMA HeadSteps ==
  ASSUME IInv, LInv, Next, NEW c \in Clones, Clear(c), ~Holds(c, head)
  PROVE  ~Holds(c, head)'
<1>0. /\ TypeOK /\ Control /\ Holding /\ History /\ Dropped /\ Moved /\ Grown
  BY RemoteSteps DEF IInv
<1>1. CASE head' = head
  <2>1. head \in 1..made
    BY <1>0 DEF History
  <2>2. commits'[head] = commits[head]
    BY <1>0, <2>1 DEF Grown
  <2>. QED BY <1>1, <2>2 DEF Holds
<1>2. ASSUME NEW q \in Revs, Parent(q) = head, q \in inflight \/ Published(q), head' = q
      PROVE  ~Holds(c, head)'
  <2>1. q \in 2..made /\ q \in 1..made
    BY <1>0, <1>2, PublishedMade, Limits DEF History, Grown, Revs
  <2>2. commits'[q] = commits[q]
    BY <1>0, <2>1 DEF Grown
  <2>3. q \notin landed
    BY <1>0, <1>2 DEF History
  <2>4. q \notin discarded
    <3>1. ASSUME Published(q) PROVE \E d \in Clones, k \in Checkouts : Pend(d, k).rev = q
      BY <1>0, <3>1 DEF Published, Holding, TypeOK, ProcType
    <3>. QED BY <1>0, <1>2, <3>1 DEF Dropped
  <2>5. \A k \in Checkouts : Pend(c, k).rev # q
    BY <2>1, Limits DEF Clear, Receipts, Pend
  <2>6. ~Introduces(c, q)
    BY <2>1, <2>3, <2>4, <2>5 DEF LInv, Accountable, Accounted, Clear
  <2>7. head # 0
    BY Limits, <1>0 DEF TypeOK, Revs
  <2>8. ~Holds(c, q)
    BY <1>2, <2>6, <2>7 DEF Introduces
  <2>. QED BY <1>2, <2>2, <2>8 DEF Holds
<1>. QED BY <1>0, <1>1, <1>2 DEF Moved

LEMMA DeparturesStep ==
  ASSUME IInv, LInv, Next
  PROVE  Departures'
<1>0. /\ TypeOK /\ Control /\ Holding /\ History /\ Holding' /\ History' /\ Leavable /\ Departures
  BY HoldingStep, HistoryStep DEF IInv, LInv
<1>1. ASSUME NEW c \in Clones, Leaving(c)', Clear(c)', Holds(c, head)'
      PROVE  Holds(c, proc[c].snap)'
  <2>0. proc'[c].pc = "act" /\ proc'[c].pc # "reconcile"
    BY <1>1 DEF Leaving
  <2>1. CASE proc'[c] = proc[c] /\ disk'[c] = disk[c]
    <3>1. Leaving(c) /\ Clear(c)
      BY <1>0, <1>1, <2>1, FarewellSteps DEF Leaving, Clear, Receipts
    <3>2. Holds(c, proc[c].snap)
      BY <1>0, <1>1, <3>1, HeadSteps DEF Departures
    <3>3. proc[c].snap \in 1..made
      BY <1>0, <3>1 DEF Leaving, Control, Steered, History
    <3>4. PICK q : q = proc[c].snap
      OBVIOUS
    <3>5. Holds(c, q)'
      BY <1>0, <3>2, <3>3, <3>4, HoldsStays
    <3>. QED BY <2>1, <3>4, <3>5
  <2>2. CASE UNCHANGED <<head, landed, commits>> /\ proc'[c].snap = head
    BY <1>1, <2>2 DEF Holds
  <2>3. CASE \E k \in Checkouts : Pend(c, k) # NoPending /\ Pend(c, k)' = Pend(c, k)
    <3>1. PICK k \in Checkouts : Pend(c, k) # NoPending /\ Pend(c, k)' = Pend(c, k)
      BY <2>3
    <3>2. Pend(c, k).rev # 0
      BY <1>0, <3>1 DEF Holding
    <3>3. disk'[c].checkouts[k].pending.rev # 0
      BY <3>1, <3>2 DEF Pend
    <3>4. Receipts(c)' # {}
      BY <3>3 DEF Receipts
    <3>. QED BY <1>1, <3>4 DEF Clear
  <2>. QED BY <2>0, <2>1, <2>2, <2>3, LeavingSteps
<1>2. ASSUME NEW c \in Clones, farewell'[c] = "clean"
      PROVE  ~disk'[c].joined /\ ~Holds(c, head)'
  <2>1. CASE farewell[c] = "clean"
    <3>1. /\ ~disk[c].joined /\ ~Holds(c, head) /\ proc[c].pc = "idle"
          /\ \A k \in Checkouts : Pend(c, k) = NoPending
      BY <1>0, <2>1 DEF Departures, Leavable
    <3>2. ~Join(c)
      <4>1. Join(c) => farewell'[c] = "in"
        BY <1>0, <2>1 DEF Join, TypeOK
      <4>. QED BY <1>2, <4>1
    <3>3. disk'[c] = disk[c]
      BY <1>0, <3>1, <3>2, AwaySteps
    <3>4. Clear(c)
      BY <2>1, <3>1 DEF Clear, Receipts, Pend, NoPending
    <3>. QED BY <3>1, <3>3, <3>4, HeadSteps
  <2>2. CASE farewell[c] # "clean"
    <3>1. /\ Leave(c) /\ Forget(c) /\ MayLeave(c, proc[c].snap) /\ farewell[c] = "in"
      BY <1>0, <1>2, <2>2, FarewellSteps
    <3>2. Leaving(c) /\ Clear(c) /\ ~Holds(c, proc[c].snap)
      BY <3>1 DEF Leave, Leaving, Clear, MayLeave
    <3>3. ~Holds(c, head)
      BY <1>0, <3>2 DEF Departures
    <3>4. ~disk'[c].joined
      BY <1>0, <3>1 DEF Forget, Joined, TypeOK
    <3>5. UNCHANGED <<head, commits>>
      BY <3>1 DEF Leave, remoteVars, commitVars
    <3>. QED BY <3>3, <3>4, <3>5 DEF Holds
  <2>. QED BY <2>1, <2>2
<1>. QED BY <1>1, <1>2 DEF Departures, Leaving

\* After an ordinary leave nothing of the clone stays or appears on the board,
\* however late its pushes arrive.
THEOREM LeavingIsClean == Spec => []LeaveIsClean
<1>1. Init => LInv
  <2>. SUFFICES ASSUME Init PROVE LInv
    OBVIOUS
  <2>1. \A c \in Clones : /\ proc[c].pc = "idle" /\ disk[c].joined
                           /\ farewell[c] = "in"
    <3>1. \A k \in Checkouts : Idle(k).pc = "idle"
      BY DEF Idle, At
    <3>. QED BY <3>1 DEF Init, Joined
  <2>2. 2..made = {}
    BY DEF Init
  <2>. QED BY <2>1, <2>2 DEF LInv, Leavable, Accountable, Departures, Leaving
<1>2. IInv /\ LInv /\ [Next]_vars => LInv'
  <2>1. ASSUME LInv, UNCHANGED vars PROVE LInv'
    <3>1. /\ \A c, r : /\ Introduces(c, r)' = Introduces(c, r)
                       /\ Accounted(c, r)' = Accounted(c, r)
                       /\ Holds(c, r)' = Holds(c, r)
          /\ \A c : /\ Leaving(c)' = Leaving(c) /\ Clear(c)' = Clear(c)
                    /\ Holds(c, head)' = Holds(c, head)
                    /\ Holds(c, proc[c].snap)' = Holds(c, proc[c].snap)
                    /\ Pending(c)' = Pending(c)
      BY <2>1 DEF vars, Introduces, Accounted, Holds, Parent, Pend, Leaving, Clear, Receipts, Pending
    <3>2. Leavable' /\ Accountable' /\ Departures'
      BY <2>1, <3>1 DEF vars, LInv, Leavable, Accountable, Departures, Pend
    <3>. QED BY <3>2 DEF LInv
  <2>2. ASSUME IInv, LInv, Next PROVE LInv'
    BY <2>2, LeavableStep, AccountableStep, DeparturesStep DEF LInv
  <2>. QED BY <2>1, <2>2
<1>3. LInv => LeaveIsClean
  BY DEF LInv, Departures, LeaveIsClean
<1>. QED BY <1>1, <1>2, <1>3, InvariantHolds, PTL DEF Spec

-----------------------------------------------------------------------------
(* The board implements the table of atomic reservations.                  *)

\* How the board of a commit may differ from the board it is built on: in one
\* row, which is opened, edited, taken over or closed.
Differs(was, now, t) == now.sessions = [was.sessions EXCEPT ![t] = now.sessions[t]]
Opens(was, now, t)  == /\ was.sessions[t] = NoRow /\ now.sessions[t] \in Rows
                       /\ now.version \in {was.version, 2}
Edits(was, now, t)  == /\ was.sessions[t] # NoRow /\ now.sessions[t].paths \subseteq Paths
                       /\ now.sessions[t] = [was.sessions[t] EXCEPT !.paths = now.sessions[t].paths]
                       /\ now.version \in {was.version, 2}
Takes(was, now, t)  == /\ was.sessions[t] # NoRow /\ now.sessions[t] \in Rows
                       /\ now.sessions[t].paths = was.sessions[t].paths
                       /\ now.version = was.version
Closes(was, now, t) == /\ was.sessions[t] # NoRow /\ now.sessions[t] = NoRow
                       /\ now.version = was.version

\* A commit that can still land shows no generation that was ever shown.
Fresh(r, t)  == Parent(r) = head => commits[r].sessions[t].gen \notin Issued
Effect(r, t) ==
  LET was == commits[Parent(r)]
      now == commits[r] IN
  /\ Differs(was, now, t)
  /\ \/ (Opens(was, now, t) \/ Takes(was, now, t)) /\ Fresh(r, t)
     \/ Edits(was, now, t)
     \/ Closes(was, now, t)
Traced ==
  \A r \in 2..made :
    /\ Parent(r) # 0 /\ Cardinality(Present(commits[r].sessions)) <= MaxSessions
    /\ \E t \in Revs : Effect(r, t)

\* Why a generation is fresh: it is the number of a commit that exists, its
\* command shares it with nobody, and while that command has not published it,
\* every commit that carries it is out of reach.
Carries(r, g) == \/ commits[r].sessions[g] # NoRow
                 \/ \E s \in Revs : commits[r].sessions[s].gen = g
Numbered == \A r \in 1..made, g \in Revs : Carries(r, g) => g <= made

Starting(c) == proc[c].op.kind = "start" /\ proc[c].gen # 0
Drawn ==
  /\ \A c \in Clones : proc[c].op.kind = "mutate" => proc[c].gen = 0
  /\ \A c \in Clones : Starting(c) => proc[c].gen <= made
  /\ \A c, d \in Clones :
       c # d /\ Starting(c) /\ Starting(d) => proc[c].gen # proc[d].gen
Unshared ==
  \A c \in Clones : Starting(c) =>
    /\ proc[c].pc \in {"act", "reread"} =>
         \A r \in 1..made : Carries(r, proc[c].gen) => Overtaken(r)
    /\ proc[c].pc \in {"push", "resolve", "settle"} /\ proc[c].rev \notin landed =>
         \A r \in 1..made : Carries(r, proc[c].gen) => r = proc[c].rev \/ Overtaken(r)

RInv == Traced /\ Numbered /\ Drawn /\ Unshared

LEMMA TokenSteps ==
  ASSUME TypeOK, Control, Holding, History, Next, NEW c \in Clones
  PROVE  \/ Write(c)
         \/ proc'[c].gen = 0
         \/ /\ proc'[c].gen = proc[c].gen /\ proc'[c].op = proc[c].op
            /\ \/ proc'[c] = proc[c]
               \/ Reconcile(c) \/ Retry(c)
               \/ /\ proc[c].pc \in {"push", "resolve"} /\ proc'[c].rev = proc[c].rev
                  /\ proc'[c].pc \in {"accept", "resolve", "settle"}
               \/ /\ proc[c].pc = "settle" /\ proc[c].out = "contention"
                  /\ proc'[c].pc = "reread"
               \/ proc[c].pc = "reread" /\ proc'[c].pc = "act"
<1>0. /\ proc[c] \in ProcType /\ proc \in [Clones -> ProcType]
  BY DEF TypeOK
<1>1. ASSUME End(c) PROVE proc'[c].gen = 0
  BY <1>0, <1>1 DEF End, Idle, At
<1>2. ASSUME NEW x, Go(c, x) PROVE proc'[c] = x
  BY <1>0, <1>2 DEF Go
<1>3. ASSUME NEW k \in Checkouts, NEW kind \in Commands, Begin(c, k, kind)
      PROVE  proc'[c].gen = 0 \/ proc'[c] = proc[c]
  <2>1. \/ proc' = proc
        \/ \E pc : Go(c, At(k, pc, Op(kind), head))
    BY <1>3 DEF Begin
  <2>2. \A pc : At(k, pc, Op(kind), head).gen = 0
    BY DEF At
  <2>. QED BY <1>2, <2>1, <2>2
<1>4. ASSUME Reconcile(c)
      PROVE  proc'[c].gen = 0 \/ (proc'[c].gen = proc[c].gen /\ proc'[c].op = proc[c].op)
  <2>1. End(c) \/ \E snap : Go(c, [proc[c] EXCEPT !.pc = "act", !.snap = snap])
    BY <1>4 DEF Reconcile
  <2>. QED BY <1>0, <1>1, <1>2, <2>1 DEF ProcType
<1>5. ASSUME Retry(c) PROVE proc'[c].gen = proc[c].gen /\ proc'[c].op = proc[c].op
  BY <1>0, <1>2, <1>5 DEF Retry, ProcType
<1>6. ASSUME \/ PushOk(c) \/ PushUnheard(c) \/ PushDelayed(c) \/ PushRejected(c) \/ Resolve(c)
      PROVE  \/ proc'[c].gen = 0
             \/ /\ proc'[c].gen = proc[c].gen /\ proc'[c].op = proc[c].op
                /\ proc[c].pc \in {"push", "resolve"} /\ proc'[c].rev = proc[c].rev
                /\ proc'[c].pc \in {"accept", "resolve", "settle"}
  <2>1. /\ proc[c].pc \in {"push", "resolve"}
        /\ \/ End(c)
           \/ \E snap : Go(c, [proc[c] EXCEPT !.pc = "accept", !.snap = snap])
           \/ \E pc \in {"resolve", "settle"} : \E out : Go(c, [proc[c] EXCEPT !.pc = pc, !.out = out])
    BY <1>6 DEF PushOk, PushUnheard, PushDelayed, PushRejected, Resolve, Pushing
  <2>. QED BY <1>0, <1>1, <1>2, <2>1 DEF ProcType
<1>7. ASSUME Settle(c)
      PROVE  \/ proc'[c].gen = 0
             \/ /\ proc'[c].gen = proc[c].gen /\ proc'[c].op = proc[c].op
                /\ proc[c].pc = "settle" /\ proc[c].out = "contention"
                /\ proc'[c].pc = "reread"
  <2>1. /\ proc[c].pc = "settle"
        /\ \/ End(c)
           \/ /\ Go(c, [proc[c] EXCEPT !.pc = "reread"])
              /\ proc[c].out = "contention"
    BY <1>7 DEF Settle, MayRepeat
  <2>. QED BY <1>0, <1>1, <1>2, <2>1 DEF ProcType
<1>8. ASSUME Reread(c)
      PROVE  \/ proc'[c].gen = 0
             \/ /\ proc'[c].gen = proc[c].gen /\ proc'[c].op = proc[c].op
                /\ proc[c].pc = "reread" /\ proc'[c].pc = "act"
  <2>1. /\ proc[c].pc = "reread"
        /\ \/ End(c)
           \/ Go(c, [proc[c] EXCEPT !.pc = "act", !.snap = head, !.attempt = @ + 1,
                                    !.rev = 0, !.out = "none"])
    BY <1>8 DEF Reread
  <2>. QED BY <1>0, <1>1, <1>2, <2>1 DEF ProcType
<1>9. ASSUME Refuse(c) \/ Accept(c) \/ Leave(c) \/ Abort(c) \/ Abandon(c) PROVE End(c)
  BY <1>9 DEF Refuse, Accept, Leave, Abort, Abandon, Forget
<1>10. ASSUME Join(c) PROVE proc'[c] = proc[c]
  BY <1>10 DEF Join
<1>. QED BY <1>1, <1>3, <1>4, <1>5, <1>6, <1>7, <1>8, <1>9, <1>10, OnlyActor DEF Acts, Step

\* The token of a new row: the number of the new commit, or the one this start
\* has drawn before and nobody has seen.
Unseen(g) == \A r \in landed : ~Carries(r, g)

LEMMA FreshToken ==
  ASSUME IInv, RInv, NEW c \in Clones, Write(c), NEW p \in Asked(proc[c]), p \in ProcType,
         p.op.kind \in {"start", "recover"}
  PROVE  /\ Token(p) = made + 1 \/ (Token(p) = proc[c].gen /\ Starting(c) /\ p.op.kind = "start")
         /\ Unseen(Token(p))
<1>0. /\ proc[c] \in ProcType /\ proc[c].pc = "act" /\ made \in Revs /\ made < MaxRev
      /\ landed \subseteq 1..made
  BY DEF IInv, TypeOK, Write, History
<1>1. CASE proc[c].op.kind = "mutate"
  <2>1. p.gen = 0
    <3>1. proc[c].gen = 0
      BY <1>1 DEF RInv, Drawn
    <3>2. p.gen = proc[c].gen
      BY <1>0, <1>1 DEF Asked, ProcType
    <3>. QED BY <3>1, <3>2
  <2>2. Token(p) = made + 1
    BY <2>1 DEF Token
  <2>3. Unseen(made + 1)
    BY <1>0, Limits DEF Unseen, RInv, Numbered, Revs
  <2>. QED BY <2>2, <2>3
<1>2. CASE proc[c].op.kind # "mutate"
  <2>1. p = proc[c]
    BY <1>2 DEF Asked
  <2>2. p.op.kind = "start"
    BY <1>0, <2>1 DEF IInv, Control, Steered, Mutations
  <2>3. CASE p.gen = 0
    <3>1. Token(p) = made + 1
      BY <2>2, <2>3 DEF Token
    <3>2. Unseen(made + 1)
      BY <1>0, Limits DEF Unseen, RInv, Numbered, Revs
    <3>. QED BY <3>1, <3>2
  <2>4. CASE p.gen # 0
    <3>1. Token(p) = proc[c].gen /\ Starting(c)
      BY <2>1, <2>2, <2>4 DEF Token, Starting
    <3>2. \A r \in landed : Carries(r, proc[c].gen) => Overtaken(r)
      BY <1>0, <3>1 DEF RInv, Unshared
    <3>3. Unseen(proc[c].gen)
      BY <3>2 DEF Unseen, Overtaken
    <3>. QED BY <2>2, <3>1, <3>3
  <2>. QED BY <2>3, <2>4
<1>. QED BY <1>1, <1>2

\* A write opens a row under a fresh token, edits one, takes one over under the
\* number of the new commit, or closes one.
LEMMA WriteEffect ==
  ASSUME IInv, RInv, NEW c \in Clones, Write(c), NEW r, r = made + 1
  PROVE  \E t \in Revs, q \in landed :
           /\ made' = r /\ r \in Revs /\ UNCHANGED <<head, landed>>
           /\ commits' = [commits EXCEPT ![r] = commits'[r]] /\ commits'[r].parent = q
           /\ proc' = [proc EXCEPT ![c] = proc'[c]] /\ proc'[c].rev = r /\ proc'[c].pc = "push"
           /\ proc'[c].op.kind \in Mutations
           /\ Cardinality(Present(commits'[r].sessions)) <= MaxSessions
           /\ Differs(commits[q], commits'[r], t)
           /\ \/ /\ Opens(commits[q], commits'[r], t)
                 /\ commits'[r].sessions[t].gen = t /\ proc'[c].gen = t
                 /\ t = r \/ (t = proc[c].gen /\ Starting(c))
                 /\ Unseen(t)
              \/ /\ proc'[c].op.kind # "start"
                 /\ \/ /\ Takes(commits[q], commits'[r], t)
                       /\ commits'[r].sessions[t].gen = r /\ Unseen(r)
                    \/ Edits(commits[q], commits'[r], t)
                    \/ Closes(commits[q], commits'[r], t)
<1>1. PICK p \in Asked(proc[c]) :
         /\ p \in ProcType /\ p.ck = proc[c].ck /\ p.snap = proc[c].snap
         /\ p.op.kind \in Mutations /\ Acceptable(c, p)
         /\ Token(p) \in 0..MaxRev /\ Task(p, Token(p)) \in Revs
         /\ p.op.kind \in {"start", "recover"} => Token(p) \in Revs
         /\ p.snap \in landed /\ landed \subseteq Revs
         /\ made' = made + 1 /\ made + 1 \in Revs
         /\ commits' = [commits EXCEPT ![made + 1] =
              [parent |-> p.snap, version |-> NewBoard(p, Token(p), Owner(c)).version,
               sessions |-> NewBoard(p, Token(p), Owner(c)).sessions]]
         /\ proc' = [proc EXCEPT ![c] = [p EXCEPT !.pc = "push", !.rev = made + 1,
                                                    !.gen = Token(p)]]
         /\ p.op.kind \in {"update", "finish", "recover"} => p.op.id \in Revs
  BY WriteFacts DEF IInv
<1>. DEFINE t   == Task(p, Token(p))
            was == commits[p.snap]
            row == NewRow(p, Token(p), Owner(c))
            new == NewBoard(p, Token(p), Owner(c))
            now == [parent |-> p.snap, version |-> new.version, sessions |-> new.sessions]
<1>2. UNCHANGED <<head, landed>>
  BY DEF Write, remoteVars
<1>3. was \in CommitType /\ was.sessions \in Sessions
  BY <1>1 DEF IInv, TypeOK, CommitType, Sessions
<1>4. commits' = [commits EXCEPT ![r] = now] /\ commits'[r] = now
  BY <1>1 DEF IInv, TypeOK
<1>5. /\ now.parent = p.snap /\ now.sessions = [was.sessions EXCEPT ![t] = row]
      /\ now.version = IF Upgrade(p.op) THEN 2 ELSE was.version
  BY DEF NewBoard
<1>6. /\ proc' = [proc EXCEPT ![c] = proc'[c]] /\ proc'[c].rev = r /\ proc'[c].pc = "push"
      /\ proc'[c].op = p.op /\ proc'[c].gen = Token(p)
  BY <1>1 DEF IInv, TypeOK, ProcType
<1>7. Cardinality(Present(now.sessions)) <= MaxSessions
  BY <1>1 DEF Acceptable, ValidBoard
<1>8. NewBoard(p, Token(p), Owner(c)).sessions \in Sessions
  BY <1>1, NewBoardType DEF IInv
<1>9. row \in Rows \cup {NoRow}
  BY <1>1, <1>3, <1>8 DEF NewBoard, Sessions
<1>. HIDE DEF now, new
<1>10. Differs(was, now, t) /\ now.sessions[t] = row
  BY <1>1, <1>3, <1>5 DEF Differs, Sessions
<1>11. p.op.kind # "start" => t = p.op.id /\ t \in Revs
  BY <1>1 DEF Task
<1>12. CASE p.op.kind = "start"
  <2>1. t = Token(p) /\ row = [owner |-> Owner(c), gen |-> t, paths |-> p.op.paths]
    BY <1>12 DEF Task, NewRow
  <2>2. (t = made + 1 \/ (t = proc[c].gen /\ Starting(c))) /\ Unseen(t)
    BY <1>1, <1>12, <2>1, FreshToken
  <2>3. was.sessions[t] = NoRow
    BY <1>1, <2>2 DEF Unseen, Carries
  <2>4. row # NoRow /\ row \in Rows /\ row.gen = t
    <3>1. row.gen = t /\ t # 0 /\ NoRow.gen = 0
      BY <1>1, <2>1, Limits DEF NoRow, Revs
    <3>. QED BY <1>9, <3>1
  <2>5. Opens(was, now, t)
    BY <1>5, <1>10, <2>3, <2>4 DEF Opens
  <2>. QED BY <1>1, <1>2, <1>4, <1>5, <1>6, <1>7, <1>10, <1>12, <2>1, <2>2, <2>4, <2>5
<1>13. CASE p.op.kind # "start"
  <2>1. /\ was.sessions[t] # NoRow /\ was.sessions[t] \in Rows
        /\ was.sessions[p.op.id] = was.sessions[t]
    <3>1. was.sessions[p.op.id] # NoRow
      BY <1>1, <1>13 DEF Acceptable, Permitted, Owned, Mutations
    <3>. QED BY <1>3, <1>11, <1>13, <3>1 DEF Sessions
  <2>2. \/ /\ Takes(was, now, t) /\ now.sessions[t].gen = r /\ Unseen(r)
        \/ Edits(was, now, t)
        \/ Closes(was, now, t)
    <3>1. CASE p.op.kind = "recover"
      <4>1. row = [was.sessions[t] EXCEPT !.owner = Owner(c), !.gen = Token(p)]
        BY <1>11, <1>13, <2>1, <3>1 DEF NewRow
      <4>2. Token(p) = r /\ Unseen(r)
        BY <1>1, <3>1, FreshToken
      <4>3. row \in [owner: {Owner(c)}, gen: {r}, paths: {was.sessions[t].paths}]
        BY <2>1, <4>1, <4>2 DEF Rows
      <4>4. row \in Rows
        <5>1. row.gen = r /\ r # 0 /\ NoRow.gen = 0
          BY <1>1, <4>3, Limits DEF NoRow, Revs
        <5>. QED BY <1>9, <5>1
      <4>5. ~Upgrade(p.op)
        BY <3>1 DEF Upgrade
      <4>. QED BY <1>5, <1>10, <2>1, <4>2, <4>3, <4>4, <4>5 DEF Takes
    <3>2. CASE p.op.kind = "update"
      <4>1. row = was.sessions[t] \/ row = [was.sessions[t] EXCEPT !.paths = p.op.paths]
        BY <1>11, <1>13, <2>1, <3>2 DEF NewRow
      <4>2. row = [was.sessions[t] EXCEPT !.paths = row.paths]
        BY <2>1, <4>1 DEF Rows
      <4>3. row.paths \subseteq Paths
        BY <1>9 DEF Rows, NoRow
      <4>. QED BY <1>5, <1>10, <2>1, <4>2, <4>3 DEF Edits
    <3>3. CASE p.op.kind = "finish"
      BY <1>5, <1>10, <2>1, <3>3 DEF Closes, Upgrade, NewRow
    <3>. QED BY <1>1, <1>13, <3>1, <3>2, <3>3 DEF Mutations
  <2>. QED BY <1>1, <1>2, <1>4, <1>5, <1>6, <1>7, <1>10, <1>13, <2>2
<1>. QED BY <1>12, <1>13

\* What a new commit carries that its parent does not is its row's token.
LEMMA NewCarrier ==
  ASSUME IInv, RInv, NEW c \in Clones, Write(c), NEW r, r = made + 1,
         NEW g \in Revs, Carries(r, g)'
  PROVE  \/ \E q \in landed : Carries(q, g)
         \/ g = r
         \/ g = proc[c].gen /\ Starting(c)
<1>1. PICK t \in Revs, q \in landed :
         /\ Differs(commits[q], commits'[r], t)
         /\ \/ /\ Opens(commits[q], commits'[r], t)
               /\ commits'[r].sessions[t].gen = t
               /\ t = r \/ (t = proc[c].gen /\ Starting(c))
            \/ Takes(commits[q], commits'[r], t) /\ commits'[r].sessions[t].gen = r
            \/ Edits(commits[q], commits'[r], t)
            \/ Closes(commits[q], commits'[r], t)
  BY WriteEffect
<1>. DEFINE was == commits[q].sessions
            now == commits'[r].sessions
<1>2. was \in [Revs -> Rows \cup {NoRow}]
  BY <1>1 DEF IInv, TypeOK, CommitType, History
<1>3. now = [was EXCEPT ![t] = now[t]]
  BY <1>1 DEF Differs
<1>4. \/ now[g] # NoRow
      \/ \E s \in Revs : now[s].gen = g
  BY DEF Carries
<1>5. g # 0
  BY Limits DEF Revs
<1>6. \/ was[t] = NoRow /\ now[t].gen = t /\ (t = r \/ (t = proc[c].gen /\ Starting(c)))
      \/ was[t] # NoRow /\ (now[t].gen = r \/ now[t].gen = was[t].gen \/ now[t] = NoRow)
  <2>1. CASE Edits(commits[q], commits'[r], t)
    <3>1. was[t] \in Rows /\ now[t] = [was[t] EXCEPT !.paths = now[t].paths]
      BY <1>2, <2>1 DEF Edits
    <3>2. now[t].gen = was[t].gen
      BY <3>1 DEF Rows
    <3>. QED BY <2>1, <3>2 DEF Edits
  <2>. QED BY <1>1, <2>1 DEF Opens, Takes, Closes
<1>7. \A s \in Revs : s # t => now[s] = was[s]
  BY <1>1, <1>2, <1>3
<1>8. NoRow.gen = 0
  BY DEF NoRow
<1>. HIDE DEF was, now
<1>9. (\E s \in Revs : was[s].gen = g) \/ was[g] # NoRow => Carries(q, g)
  BY DEF Carries, was
<1>. QED BY <1>1, <1>4, <1>5, <1>6, <1>7, <1>8, <1>9

\* Only a write makes a commit.
LEMMA MadeSteps ==
  ASSUME Next
  PROVE  UNCHANGED <<made, commits>> \/ \E c \in Clones : Write(c)
<1>1. ASSUME NEW d \in Clones, Acts(d), ~Write(d) PROVE UNCHANGED <<made, commits>>
  BY <1>1 DEF Acts, Step, Begin, Reconcile, Refuse, PushOk, PushUnheard, PushDelayed,
              PushRejected, Resolve, Retry, Settle, Reread, Accept, Leave, Abort, Join, Abandon,
              commitVars
<1>2. ASSUME NEW q \in Revs, Arrive(q) \/ Vanish(q) PROVE UNCHANGED <<made, commits>>
  BY <1>2 DEF Arrive, Vanish, commitVars
<1>. QED BY <1>1, <1>2 DEF Next, Acts

LEMMA NumberedStep ==
  ASSUME IInv, RInv, Next
  PROVE  Numbered'
<1>0. Grown /\ made \in Nat /\ landed \subseteq 1..made
  BY RemoteSteps, Limits DEF IInv, Grown, History, Revs
<1>1. CASE UNCHANGED <<made, commits>>
  BY <1>1 DEF RInv, Numbered, Carries
<1>2. ASSUME NEW c \in Clones, Write(c) PROVE Numbered'
  <2>1. made' = made + 1
    BY <1>2 DEF Write
  <2>2. ASSUME NEW r \in 1..made', NEW g \in Revs, Carries(r, g)' PROVE g <= made'
    <3>1. CASE r \in 1..made
      <4>1. Carries(r, g)
        BY <1>0, <2>2, <3>1 DEF Grown, Carries
      <4>. QED BY <1>0, <2>1, <3>1, <4>1 DEF RInv, Numbered, Revs
    <3>2. CASE r = made + 1
      <4>1. \/ \E q \in landed : Carries(q, g)
            \/ g = r
            \/ g = proc[c].gen /\ Starting(c)
        BY <1>2, <2>2, <3>2, NewCarrier
      <4>. QED BY <1>0, <2>1, <3>2, <4>1 DEF RInv, Numbered, Drawn, Revs
    <3>. QED BY <1>0, <2>1, <2>2, <3>1, <3>2
  <2>. QED BY <2>2 DEF Numbered
<1>. QED BY <1>1, <1>2, MadeSteps

LEMMA DrawnStep ==
  ASSUME IInv, RInv, Next
  PROVE  Drawn'
<1>0. /\ TypeOK /\ Control /\ Holding /\ History /\ Drawn
      /\ Grown /\ made \in Nat /\ made' \in Nat /\ made <= made'
      /\ \A c \in Clones : proc[c].gen \in Nat
  BY SMTT(30), RemoteSteps, Limits DEF IInv, RInv, Grown, Revs, TypeOK, ProcType
<1>1. ASSUME NEW c \in Clones, ~Write(c), Starting(c)'
      PROVE  Starting(c) /\ proc'[c].gen = proc[c].gen
  BY <1>0, <1>1, TokenSteps DEF Starting
<1>2. ASSUME NEW c \in Clones, Write(c), Starting(c)'
      PROVE  /\ made' = made + 1
             /\ proc'[c].gen = made' \/ (Starting(c) /\ proc'[c].gen = proc[c].gen)
  BY <1>2, WriteEffect DEF Starting
<1>3. ASSUME NEW c \in Clones, proc'[c].op.kind = "mutate" PROVE proc'[c].gen = 0
  <2>1. CASE Write(c)
    BY <1>3, <2>1, WriteEffect DEF Mutations
  <2>2. CASE ~Write(c)
    BY <1>0, <1>3, <2>2, TokenSteps DEF Drawn
  <2>. QED BY <2>1, <2>2
<1>4. ASSUME NEW c \in Clones, Starting(c)' PROVE proc'[c].gen <= made'
  BY <1>0, <1>1, <1>2, <1>4 DEF Drawn
<1>5. ASSUME NEW c \in Clones, NEW d \in Clones, c # d, Starting(c)', Starting(d)'
      PROVE  proc'[c].gen # proc'[d].gen
  <2>1. ASSUME Write(c), Write(d) PROVE FALSE
    <3>1. proc' = [proc EXCEPT ![c] = proc'[c]] /\ proc'[d].pc = "push"
      BY <2>1, WriteEffect
    <3>2. proc[d].pc = "act"
      BY <2>1 DEF Write
    <3>. QED BY <1>0, <1>5, <3>1, <3>2 DEF TypeOK
  <2>2. CASE ~Write(c) /\ ~Write(d)
    BY <1>0, <1>1, <1>5, <2>2 DEF Drawn
  <2>3. CASE Write(c) /\ ~Write(d)
    BY <1>0, <1>1, <1>2, <1>5, <2>3 DEF Drawn
  <2>4. CASE ~Write(c) /\ Write(d)
    BY <1>0, <1>1, <1>2, <1>5, <2>4 DEF Drawn
  <2>. QED BY <2>1, <2>2, <2>3, <2>4
<1>. QED BY <1>3, <1>4, <1>5 DEF Drawn, Starting

\* Nobody but the command that has drawn a token makes a commit that carries it.
LEMMA CarrierSteps ==
  ASSUME IInv, RInv, Next, NEW c \in Clones, Starting(c), ~Write(c),
         NEW r \in 1..made', Carries(r, proc[c].gen)', proc'[c].gen = proc[c].gen,
         Unseen(proc[c].gen)
  PROVE  r \in 1..made /\ Carries(r, proc[c].gen)
<1>0. /\ Grown /\ made \in Nat /\ proc[c].gen \in Revs
      /\ proc[c].gen <= made
  BY SMTT(30), RemoteSteps, Limits DEF IInv, RInv, Drawn, Starting, Grown, Revs, TypeOK, ProcType
<1>. PICK g \in Revs : g = proc[c].gen
  BY <1>0
<1>1. Carries(r, g)'
  OBVIOUS
<1>2. r \in 1..made => Carries(r, g)
  BY <1>0, <1>1 DEF Grown, Carries
<1>3. ASSUME r \notin 1..made PROVE FALSE
  <2>1. PICK d \in Clones : Write(d)
    BY <1>3, MadeSteps
  <2>2. r = made + 1
    <3>1. made' = made + 1
      BY <2>1 DEF Write
    <3>. QED BY <1>0, <1>3, <3>1
  <2>3. \/ \E q \in landed : Carries(q, g)
        \/ g = r
        \/ g = proc[d].gen /\ Starting(d)
    BY <1>1, <2>1, <2>2, NewCarrier
  <2>4. c # d
    BY <2>1
  <2>. QED BY <1>0, <2>2, <2>3, <2>4 DEF Unseen, RInv, Drawn
<1>. QED BY <1>2, <1>3

LEMMA UnsharedStep ==
  ASSUME IInv, RInv, Next
  PROVE  Unshared'
<1>0. /\ TypeOK /\ Control /\ Holding /\ History /\ Verdicts /\ Unshared
      /\ Moved /\ Grown /\ made \in Nat
  BY RemoteSteps, Limits DEF IInv, RInv, Grown, Revs
<1>1. ASSUME NEW r \in 1..made, Overtaken(r) PROVE Overtaken(r)'
  BY <1>0, <1>1, StaysOvertaken DEF Overtaken
<1>. SUFFICES ASSUME NEW c \in Clones, Starting(c)'
              PROVE  /\ proc'[c].pc \in {"act", "reread"} =>
                          \A r \in 1..made' : Carries(r, proc[c].gen)' => Overtaken(r)'
                     /\ proc'[c].pc \in {"push", "resolve", "settle"} /\ proc'[c].rev \notin landed' =>
                          \A r \in 1..made' : Carries(r, proc[c].gen)' =>
                             r = proc'[c].rev \/ Overtaken(r)'
  BY DEF Unshared, Starting
<1>2. CASE Write(c)
  <2>. DEFINE g == proc'[c].gen
  <2>1. /\ made' = made + 1 /\ proc'[c].pc = "push" /\ proc'[c].rev = made + 1
        /\ g = made + 1 \/ (Starting(c) /\ g = proc[c].gen)
    BY <1>2, WriteEffect DEF Starting
  <2>2. ASSUME NEW r \in 1..made', Carries(r, proc[c].gen)', r # made + 1
        PROVE  Overtaken(r)'
    <3>1. r \in 1..made
      BY <1>0, <2>1, <2>2
    <3>2. Carries(r, g)
      BY <1>0, <2>2, <3>1 DEF Grown, Carries
    <3>3. g # made + 1
      BY <1>0, <3>1, <3>2, <2>1, Limits DEF RInv, Numbered, Starting, Drawn, Grown, Revs
    <3>4. Overtaken(r)
      BY <1>0, <1>2, <2>1, <3>1, <3>2, <3>3 DEF Unshared, Write
    <3>. QED BY <1>1, <3>1, <3>4
  <2>. QED BY <2>1, <2>2
<1>3. CASE ~Write(c)
  <2>1. /\ Starting(c) /\ proc'[c].gen = proc[c].gen
        /\ \/ proc'[c] = proc[c]
           \/ /\ proc[c].pc \in {"push", "resolve"} /\ proc'[c].rev = proc[c].rev
              /\ proc'[c].pc \in {"accept", "resolve", "settle"}
           \/ /\ proc[c].pc = "settle" /\ proc[c].out = "contention"
              /\ proc'[c].pc = "reread"
           \/ proc[c].pc = "reread" /\ proc'[c].pc = "act"
    <3>1. Reconcile(c) \/ Retry(c) => proc[c].op.kind # "start"
      BY <1>0 DEF Reconcile, Retry, Control, Steered, Commands
    <3>. QED BY <1>0, <1>3, <3>1, TokenSteps DEF Starting
  <2>. PICK g : g = proc[c].gen
    OBVIOUS
  <2>2. ASSUME \A r \in 1..made : Carries(r, g) => Overtaken(r),
               NEW r \in 1..made', Carries(r, proc[c].gen)'
        PROVE  Overtaken(r)'
    <3>1. Unseen(proc[c].gen)
      BY <1>0, <2>2 DEF Unseen, Overtaken, History
    <3>2. r \in 1..made /\ Carries(r, g)
      BY <1>3, <2>1, <2>2, <3>1, CarrierSteps
    <3>. QED BY <1>1, <2>2, <3>2
  <2>3. ASSUME proc[c].rev \notin landed,
               \A r \in 1..made : Carries(r, g) => r = proc[c].rev \/ Overtaken(r),
               NEW r \in 1..made', Carries(r, proc[c].gen)'
        PROVE  r = proc[c].rev \/ Overtaken(r)'
    <3>1. Unseen(proc[c].gen)
      BY <1>0, <2>3 DEF Unseen, Overtaken, History
    <3>2. r \in 1..made /\ Carries(r, g)
      BY <1>3, <2>1, <2>3, <3>1, CarrierSteps
    <3>. QED BY <1>1, <2>3, <3>2
  <2>4. landed \subseteq landed'
    BY <1>0 DEF Moved
  <2>5. CASE proc'[c] = proc[c]
    BY <1>0, <2>1, <2>2, <2>3, <2>4, <2>5 DEF Unshared
  <2>6. CASE /\ proc[c].pc \in {"push", "resolve"} /\ proc'[c].rev = proc[c].rev
             /\ proc'[c].pc \in {"accept", "resolve", "settle"}
    BY <1>0, <2>1, <2>3, <2>4, <2>6 DEF Unshared
  <2>7. CASE /\ proc[c].pc = "settle" /\ proc[c].out = "contention"
             /\ proc'[c].pc = "reread"
    <3>1. Overtaken(proc[c].rev)
      BY <1>0, <2>7 DEF Verdicts
    <3>2. \A r \in 1..made : Carries(r, g) => Overtaken(r)
      BY <1>0, <2>1, <2>7, <3>1 DEF Unshared, Overtaken
    <3>. QED BY <2>2, <2>7, <3>2
  <2>8. CASE proc[c].pc = "reread" /\ proc'[c].pc = "act"
    BY <1>0, <2>1, <2>2, <2>8 DEF Unshared
  <2>. QED BY <2>1, <2>5, <2>6, <2>7, <2>8
<1>. QED BY <1>2, <1>3

\* The board of a revision that landed does not change, nor do the generations
\* ever shown, until the head moves.
LEMMA IssuedStays ==
  ASSUME IInv, Next, landed' = landed
  PROVE  Issued' = Issued
<1>1. \A r \in landed : commits'[r] = commits[r]
  BY RemoteSteps DEF IInv, Grown, History
<1>. QED BY <1>1 DEF Issued

LEMMA TracedStep ==
  ASSUME IInv, RInv, Next
  PROVE  Traced'
<1>0. /\ TypeOK /\ Control /\ Holding /\ History
      /\ Moved /\ Grown /\ made \in Nat
  BY RemoteSteps, Limits DEF IInv, RInv, Grown, Revs
<1>1. ASSUME NEW r \in 2..made, NEW t \in Revs, Effect(r, t), Parent(r) # 0
      PROVE  Effect(r, t)' /\ Parent(r)' # 0
  <2>1. /\ r \in Revs /\ commits'[r] = commits[r] /\ Parent(r) \in landed
    BY <1>0, <1>1, Limits DEF Grown, History, Revs
  <2>2. commits'[Parent(r)] = commits[Parent(r)] /\ Parent(r)' = Parent(r)
    BY <1>0, <2>1 DEF Grown, History, Parent
  <2>3. Fresh(r, t) => Fresh(r, t)'
    <3>1. CASE Parent(r) # head
      BY <1>0, <2>1, <3>1, StaysOvertaken DEF Fresh
    <3>2. CASE Parent(r) = head /\ head' = head /\ landed' = landed
      BY <2>1, <2>2, <3>2, IssuedStays DEF Fresh
    <3>3. CASE Parent(r) = head /\ head' # head
      BY <2>2, <3>3 DEF Fresh
    <3>. QED BY <1>0, <3>1, <3>2, <3>3 DEF Moved, History
  <2>4. PICK q : q = Parent(r)
    OBVIOUS
  <2>. QED BY <1>1, <2>1, <2>2, <2>3, <2>4 DEF Effect, Differs, Opens, Edits, Takes, Closes
<1>2. ASSUME NEW r \in 2..made
      PROVE  /\ Parent(r)' # 0 /\ Cardinality(Present(commits'[r].sessions)) <= MaxSessions
             /\ \E t \in Revs : Effect(r, t)'
  <2>1. commits'[r] = commits[r]
    BY <1>0, Limits DEF Grown, Revs
  <2>. QED BY <1>1, <2>1 DEF RInv, Traced
<1>3. ASSUME NEW c \in Clones, Write(c), NEW r, r = made + 1
      PROVE  /\ Parent(r)' # 0 /\ Cardinality(Present(commits'[r].sessions)) <= MaxSessions
             /\ \E t \in Revs : Effect(r, t)'
  <2>1. PICK t \in Revs, q \in landed :
           /\ UNCHANGED <<head, landed>> /\ commits'[r].parent = q
           /\ Cardinality(Present(commits'[r].sessions)) <= MaxSessions
           /\ Differs(commits[q], commits'[r], t)
           /\ \/ /\ Opens(commits[q], commits'[r], t)
                 /\ commits'[r].sessions[t].gen = t /\ Unseen(t)
              \/ /\ Takes(commits[q], commits'[r], t)
                 /\ commits'[r].sessions[t].gen = r /\ Unseen(r)
              \/ Edits(commits[q], commits'[r], t)
              \/ Closes(commits[q], commits'[r], t)
    BY <1>3, WriteEffect
  <2>2. commits'[q] = commits[q] /\ q # 0 /\ Parent(r)' = q
    BY <1>0, <2>1 DEF Grown, History, Parent
  <2>3. \A g : Unseen(g) => g \notin Issued
    BY DEF Unseen, Carries, Issued
  <2>4. Issued' = Issued
    BY <2>1, IssuedStays
  <2>5. \/ /\ Opens(commits[q], commits'[r], t) \/ Takes(commits[q], commits'[r], t)
           /\ Fresh(r, t)'
        \/ Edits(commits[q], commits'[r], t)
        \/ Closes(commits[q], commits'[r], t)
    <3>1. CASE commits'[r].sessions[t].gen = t /\ Unseen(t)
      BY <2>1, <2>3, <2>4, <3>1 DEF Fresh
    <3>2. CASE commits'[r].sessions[t].gen = r /\ Unseen(r)
      BY <2>1, <2>3, <2>4, <3>2 DEF Fresh
    <3>. QED BY <2>1, <3>1, <3>2
  <2>6. Effect(r, t)'
    BY <2>1, <2>2, <2>5 DEF Effect, Differs, Opens, Edits, Takes, Closes
  <2>. QED BY <2>1, <2>2, <2>6
<1>4. ASSUME NEW r \in 2..made'
      PROVE  /\ Parent(r)' # 0 /\ Cardinality(Present(commits'[r].sessions)) <= MaxSessions
             /\ \E t \in Revs : Effect(r, t)'
  <2>1. CASE r \in 2..made
    BY <1>2, <2>1
  <2>2. CASE r \notin 2..made
    <3>1. PICK c \in Clones : Write(c)
      BY <2>2, MadeSteps
    <3>2. made' = made + 1
      BY <3>1 DEF Write
    <3>3. r = made + 1
      BY <1>0, <2>2, <3>2
    <3>. QED BY <1>3, <3>1, <3>3
  <2>. QED BY <2>1, <2>2
<1>. QED BY <1>4 DEF Traced

\* Where the head moves, the table takes one step; elsewhere it stands still.
LEMMA BoardSteps ==
  ASSUME IInv, RInv, Next
  PROVE  \/ Abstract!Next
         \/ UNCHANGED <<commits[head].version, commits[head].sessions, Issued>>
<1>0. /\ TypeOK /\ Control /\ Holding /\ History /\ Moved /\ Grown /\ made \in Nat
      /\ landed \subseteq 1..made /\ head \in landed
  BY RemoteSteps, Limits DEF IInv, RInv, Grown, History, Revs
<1>1. CASE head' = head /\ landed' = landed
  <2>1. commits'[head] = commits[head]
    BY <1>0 DEF Grown
  <2>. QED BY <1>1, <2>1, IssuedStays
<1>2. ASSUME NEW r \in Revs, Parent(r) = head, r \in inflight \/ Published(r),
             head' = r, landed' = landed \cup {r}
      PROVE  Abstract!Next
  <2>1. r \in 2..made /\ r \in 1..made
    BY <1>0, <1>2, PublishedMade, Limits DEF History, Revs
  <2>2. commits'[r] = commits[r] /\ \A q \in landed : commits'[q] = commits[q]
    BY <1>0, <2>1 DEF Grown
  <2>. DEFINE was == commits[head]
              now == commits[r]
              new == {now.sessions[s].gen : s \in Revs} \ {0}
  <2>3. PICK t \in Revs : Effect(r, t) /\ Cardinality(Present(now.sessions)) <= MaxSessions
    BY <2>1 DEF RInv, Traced
  <2>4. commits[head]' = now
    BY <1>2, <2>2
  <2>5. Issued' = Issued \cup new
    BY <1>2, <2>2 DEF Issued
  <2>6. \A s \in Revs : was.sessions[s].gen \in Issued \cup {0}
    BY <1>0 DEF Issued
  <2>7. was.sessions \in Sessions /\ now.sessions \in Sessions
    BY <1>0, <1>2 DEF TypeOK, CommitType, Sessions, History
  <2>8. now.sessions = [was.sessions EXCEPT ![t] = now.sessions[t]]
    BY <1>2, <2>3 DEF Effect, Differs
  <2>9. \A s \in Revs : s # t => now.sessions[s] = was.sessions[s]
    BY <2>7, <2>8 DEF Sessions
  <2>. HIDE DEF was, now, new
  <2>10. Abstract!Only(t)
    <3>1. Exclusive(now.sessions)
      BY <2>1 DEF IInv, Reviewed, now
    <3>2. Abstract!Disjoint(now.sessions)
      BY <3>1 DEF Exclusive, Overlaps, Abstract!Disjoint, Abstract!Conflict
    <3>3. {s \in Revs : now.sessions[s] # Abstract!NoRow} = Present(now.sessions)
      BY DEF Present, NoRow, Abstract!NoRow
    <3>4. commits[head]'.sessions = [was.sessions EXCEPT ![t] = now.sessions[t]]
      BY <2>4, <2>8
    <3>5. commits[head]'.sessions = [commits[head].sessions EXCEPT ![t] = commits[head]'.sessions[t]]
      BY <2>4, <3>4 DEF was
    <3>6. Abstract!Disjoint(commits[head]'.sessions)
      BY <2>4, <3>2
    <3>7. Cardinality({s \in Revs : commits[head]'.sessions[s] # Abstract!NoRow}) <= MaxSessions
      BY <2>3, <2>4, <3>3
    <3>8. \A S : Abstract!Cardinality(S) = Cardinality(S)
      BY DEF Abstract!Cardinality, Cardinality
    <3>. QED BY <3>5, <3>6, <3>7, <3>8 DEF Abstract!Only
  <2>11. CASE Opens(was, now, t) /\ Fresh(r, t)
    <3>1. now.sessions[t].gen \notin Issued /\ now.sessions[t].gen \in Revs
      BY <1>2, <2>11 DEF Fresh, now, Opens, Rows
    <3>2. new \subseteq Issued \cup {now.sessions[t].gen} /\ now.sessions[t].gen \in new
      BY <2>6, <2>9, <3>1, Limits DEF new, Revs
    <3>3. Issued' = Issued \cup {now.sessions[t].gen}
      BY <2>5, <3>2
    <3>4. Abstract!Issue(t)
      BY <2>4, <3>1, <3>3 DEF Abstract!Issue
    <3>5. was.sessions[t] = Abstract!NoRow /\ now.sessions[t] \in Abstract!Row
      BY <2>11 DEF Opens, NoRow, Rows, Abstract!NoRow, Abstract!Row
    <3>6. Abstract!Protocol
      BY <2>4, <2>11 DEF Opens, Abstract!Protocol, was
    <3>7. Abstract!Start(t)
      BY <2>4, <2>10, <3>4, <3>5, <3>6 DEF Abstract!Start, was
    <3>. QED BY <3>7 DEF Abstract!Next
  <2>12. CASE Takes(was, now, t) /\ Fresh(r, t)
    <3>1. now.sessions[t].gen \notin Issued /\ now.sessions[t].gen \in Revs
      BY <1>2, <2>12 DEF Fresh, now, Takes, Rows
    <3>2. new \subseteq Issued \cup {now.sessions[t].gen} /\ now.sessions[t].gen \in new
      BY <2>6, <2>9, <3>1, Limits DEF new, Revs
    <3>3. Issued' = Issued \cup {now.sessions[t].gen}
      BY <2>5, <3>2
    <3>4. Abstract!Issue(t)
      BY <2>4, <3>1, <3>3 DEF Abstract!Issue
    <3>5. was.sessions[t] # Abstract!NoRow /\ now.sessions[t] \in Abstract!Row
      BY <2>12 DEF Takes, NoRow, Rows, Abstract!NoRow, Abstract!Row
    <3>6. now.version = was.version /\ now.sessions[t].paths = was.sessions[t].paths
      BY <2>12 DEF Takes
    <3>7. Abstract!Recover(t)
      BY <2>4, <2>10, <3>4, <3>5, <3>6 DEF Abstract!Recover, was
    <3>. QED BY <3>7 DEF Abstract!Next
  <2>13. CASE Edits(was, now, t)
    <3>1. was.sessions[t] \in Rows /\ now.sessions[t].gen = was.sessions[t].gen
      <4>1. was.sessions[t] \in Rows
        BY <2>7, <2>13 DEF Edits, Sessions
      <4>. QED BY <2>13, <4>1 DEF Edits, Rows
    <3>2. new \subseteq Issued
      BY <2>6, <2>9, <3>1 DEF new
    <3>3. Issued' = Issued
      BY <2>5, <3>2
    <3>4. was.sessions[t] # Abstract!NoRow
      BY <2>13 DEF Edits, NoRow, Abstract!NoRow
    <3>5. Abstract!Protocol
      BY <2>4, <2>13 DEF Edits, Abstract!Protocol, was
    <3>6. /\ now.sessions[t].paths \subseteq Paths
          /\ now.sessions[t] = [was.sessions[t] EXCEPT !.paths = now.sessions[t].paths]
      BY <2>13 DEF Edits
    <3>7. Abstract!Update(t)
      BY <2>4, <2>10, <3>3, <3>4, <3>5, <3>6 DEF Abstract!Update, was
    <3>. QED BY <3>7 DEF Abstract!Next
  <2>14. CASE Closes(was, now, t)
    <3>1. new \subseteq Issued
      BY <2>6, <2>9, <2>14 DEF Closes, NoRow, new
    <3>2. Issued' = Issued
      BY <2>5, <3>1
    <3>3. was.sessions[t] # Abstract!NoRow /\ now.sessions[t] = Abstract!NoRow
      BY <2>14 DEF Closes, NoRow, Abstract!NoRow
    <3>4. now.version = was.version
      BY <2>14 DEF Closes
    <3>5. Abstract!Finish(t)
      BY <2>4, <2>10, <3>2, <3>3, <3>4 DEF Abstract!Finish, was
    <3>. QED BY <3>5 DEF Abstract!Next
  <2>. QED BY <1>2, <2>3, <2>11, <2>12, <2>13, <2>14 DEF Effect, was, now
<1>. QED BY <1>0, <1>1, <1>2 DEF Moved

\* The machinery of clones, receipts, pushes and retries implements one table
\* of atomic reservations, and a generation once replaced never returns.
THEOREM BoardImplementsReservations == Spec => ImplementsReservations
<1>1. Init => RInv
  <2>. SUFFICES ASSUME Init PROVE RInv
    OBVIOUS
  <2>1. \A c \in Clones : proc[c].op.kind = "status" /\ proc[c].pc = "idle"
    <3>1. \A k \in Checkouts : Idle(k).pc = "idle" /\ Idle(k).op.kind = "status"
      BY DEF Idle, At, NoOp, Op, Request
    <3>. QED BY <3>1 DEF Init
  <2>2. \A r \in Revs, s \in Revs : commits[r].sessions[s] = NoRow
    BY DEF Init
  <2>3. 2..made = {} /\ 1..made \subseteq Revs
    BY Limits DEF Init, Revs
  <2>4. \A r \in 1..made, g \in Revs : ~Carries(r, g)
    BY <2>2, <2>3, Limits DEF Carries, NoRow, Revs
  <2>. QED BY <2>1, <2>3, <2>4 DEF RInv, Traced, Numbered, Drawn, Unshared, Starting
<1>2. IInv /\ RInv /\ [Next]_vars => RInv'
  <2>1. ASSUME RInv, UNCHANGED vars PROVE RInv'
    <3>1. Issued' = Issued
      BY <2>1 DEF vars, Issued
    <3>2. \A r : /\ \A t : Effect(r, t)' = Effect(r, t) /\ Carries(r, t)' = Carries(r, t)
                /\ Parent(r)' = Parent(r) /\ Overtaken(r)' = Overtaken(r)
      BY <2>1, <3>1 DEF vars, Effect, Differs, Opens, Edits, Takes, Closes, Fresh, Parent, Carries,
                        Overtaken
    <3>3. Traced' /\ Numbered' /\ Drawn' /\ Unshared'
      BY <2>1, <3>2 DEF vars, RInv, Traced, Numbered, Drawn, Unshared, Starting
    <3>. QED BY <3>3 DEF RInv
  <2>2. ASSUME IInv, RInv, Next PROVE RInv'
    BY <2>2, TracedStep, NumberedStep, DrawnStep, UnsharedStep DEF RInv
  <2>. QED BY <2>1, <2>2
<1>3. Init => Abstract!Init
  <2>. SUFFICES ASSUME Init PROVE Abstract!Init
    OBVIOUS
  <2>1. PICK v \in {1, 2} : commits = [r \in Revs |-> [parent |-> 0, version |-> v,
                                        sessions |-> [s \in Revs |-> NoRow]]]
    BY BoardAssumption DEF Init
  <2>2. head \in Revs /\ landed \subseteq Revs
    BY Limits DEF Init, Revs
  <2>3. commits[head].version = v /\ commits[head].sessions = [s \in Revs |-> NoRow]
    BY <2>1, <2>2
  <2>4. Issued = {}
    BY <2>1, <2>2 DEF Issued, NoRow
  <2>. QED BY <2>3, <2>4 DEF Abstract!Init, NoRow, Abstract!NoRow
<1>4. IInv /\ RInv /\ [Next]_vars =>
        [Abstract!Next]_<<commits[head].version, commits[head].sessions, Issued>>
  <2>1. UNCHANGED vars => UNCHANGED <<commits[head].version, commits[head].sessions, Issued>>
    BY DEF vars, Issued
  <2>. QED BY <2>1, BoardSteps
<1>. QED BY <1>1, <1>2, <1>3, <1>4, InvariantHolds, PTL DEF Spec, ImplementsReservations, Abstract!Spec
=============================================================================
