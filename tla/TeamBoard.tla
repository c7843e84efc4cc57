----------------------------- MODULE TeamBoard -----------------------------
(***************************************************************************)
(* The team collaboration board: one Git ref (refs/heads/forge/team) that  *)
(* holds a JSON document of task reservations, changed only by pushes that *)
(* name the revision they replace (--force-with-lease), and the clones     *)
(* that publish to it.  Every clone keeps a durable state.json guarded by  *)
(* one lock, so at most one Forge command runs per clone; a command may    *)
(* die anywhere and its last push may still reach the remote later.        *)
(*                                                                         *)
(* Revisions are numbered in the order their commits are created; random   *)
(* tokens (session identities and generations) are the number of the first *)
(* commit that carries them, which is unique as a uuid4 is.                *)
(***************************************************************************)
EXTENDS Integers, FiniteSets

CONSTANTS Clones,       \* participants: one clone is one participant_id
          Steady,       \* clones whose operators keep retrying
          Checkouts,    \* worktrees of a clone
          Paths,        \* reservable paths
          Under,        \* <<p, q>> \in Under: p lies strictly below q
          Scopes,       \* the reservations a caller may ask for
          Plans, NoPlan,\* local keys a task may be bound to
          MaxSessions,  \* MAX_SESSIONS of team_state.py
          MaxBindings,  \* _MAX_BINDINGS of team_config.py
          Requested,    \* the kinds of mutation an instance exercises
          Versions,     \* the protocol versions a board may have at first
          MaxAttempts,  \* attempts of one mutation, 3 in team.py
          MaxLeaves,    \* bound: times a clone leaves
          MaxRev        \* bound: commits created

ASSUME BoardAssumption ==
  /\ Steady \subseteq Clones
  /\ Under \subseteq Paths \X Paths
  /\ \A f, p, q \in Paths :   \* the directories above a path form a chain
       <<f, p>> \in Under /\ <<f, q>> \in Under =>
         p = q \/ <<p, q>> \in Under \/ <<q, p>> \in Under
  /\ Scopes \subseteq SUBSET Paths
  /\ NoPlan \notin Plans
  /\ Versions \subseteq {1, 2}
  /\ {MaxSessions, MaxBindings, MaxAttempts, MaxLeaves, MaxRev} \subseteq Nat
  /\ MaxRev >= 1

VARIABLES head,      \* the revision the remote ref names
          landed,    \* revisions that were ever the head: the ancestors of head
          made,      \* number of commits created so far
          commits,   \* revision -> its parent and its board
          inflight,  \* pushes nobody waits for any more that may still arrive
          disk,      \* clone -> its durable forge-team/state.json
          proc,      \* clone -> the command that holds its lock
          \* History, read by the properties alone.
          discarded, \* revisions whose receipt was dropped as not applied
          consent,   \* revision -> the reviewed revision it was consented for
          farewell   \* clone -> whether it left, and how

remoteVars  == <<head, landed, inflight>>
commitVars  == <<made, commits, consent>>
localVars   == <<disk, proc>>
historyVars == <<discarded, farewell>>
vars == <<head, landed, made, commits, inflight, disk, proc,
          discarded, consent, farewell>>

-----------------------------------------------------------------------------
(* The board document. *)

Revs   == 1..MaxRev
Owners == [clone: Clones, checkout: Checkouts, life: 0..MaxLeaves]
Rows   == [owner: Owners, gen: Revs, paths: SUBSET Paths]
NoRow  == [owner |-> <<>>, gen |-> 0, paths |-> {}]
Boards == [version: {1, 2}, sessions: [Revs -> Rows \cup {NoRow}]]

\* (Operators called ...Slip are mistakes such code could make, none of them
\* part of the specification: each breaks a property of TeamBoardProps.)
UnseenSlip(p, q)   == FALSE
Overlaps(p, q) == p = q \/ <<p, q>> \in Under \/ <<q, p>> \in Under

\* _assert_claims: reservations of two tasks never overlap, and one checkout
\* holds at most one reservation.
Exclusive(sessions) ==
  \A s, t \in Revs :
    (s # t /\ sessions[s].paths # {} /\ sessions[t].paths # {}) =>
      /\ sessions[s].owner # sessions[t].owner
      /\ \A p \in sessions[s].paths, q \in sessions[t].paths : ~Overlaps(p, q)

Present(sessions) == {s \in Revs : sessions[s] # NoRow}

\* validate_board, as far as a board written by this program can fail it.
ValidBoard(b) == Exclusive(b.sessions) /\ Cardinality(Present(b.sessions)) <= MaxSessions

-----------------------------------------------------------------------------
(* The durable local state and the command that holds its lock. *)

NoPending == [rev |-> 0, kind |-> "none", id |-> 0, gen |-> 0, binding |-> NoPlan]
NoBinding == [id |-> 0, gen |-> 0]
Blank     == [pending  |-> NoPending,
              sessions |-> [s \in Revs |-> 0],
              bindings |-> [p \in Plans |-> NoBinding]]
Joined == [joined |-> TRUE, life |-> 0, checkouts |-> [k \in Checkouts |-> Blank]]

Commands  == {"mutate", "status", "retry", "leave"}
Mutations == {"start", "update", "finish", "recover"}
Kinds     == Mutations \cup Commands

\* What a caller asks for: a task and its generation, whether the paths of the
\* reservation are set or kept, a plan to bind, a revision consented to.
Request(kind, id, gen, scope, paths, binding, expect) ==
  [kind |-> kind, id |-> id, gen |-> gen, scope |-> scope, paths |-> paths,
   binding |-> binding, expect |-> expect]
Op(kind) == Request(kind, 0, 0, "keep", {}, NoPlan, 0)
NoOp     == Op("status")

\* --upgrade-protocol and the reviewed --expect revision come together.
Upgrade(op) == op.kind \in {"start", "update"} /\ op.expect # 0

\* A command of worktree k that has seen revision snap.
At(k, pc, op, snap) == [pc |-> pc, ck |-> k, op |-> op, snap |-> snap, rev |-> 0,
                        gen |-> 0, attempt |-> 0, out |-> "none"]
\* A command holding no lock.  No field of an idle record is read.
Idle(k) == At(k, "idle", NoOp, 0)

Owner(c)   == [clone |-> c, checkout |-> proc[c].ck, life |-> disk[c].life]
Pending(c) == disk[c].checkouts[proc[c].ck].pending
Go(c, p)   == proc' = [proc EXCEPT ![c] = p]
End(c)     == proc' = [proc EXCEPT ![c] = Idle(@.ck)]

\* LocalTeam.compact: checkouts without a pending publication forget task
\* generations the board no longer gives them and bindings of absent tasks.
Compact(c, checkouts, sessions) ==
  [k \in Checkouts |->
    LET me == [clone |-> c, checkout |-> k, life |-> disk[c].life]
        was == checkouts[k]
    IN IF was.pending # NoPending THEN was
       ELSE [was EXCEPT
              !.sessions = [s \in Revs |->
                 IF sessions[s].owner = me /\ sessions[s].gen = was.sessions[s]
                 THEN was.sessions[s] ELSE 0],
              !.bindings = [p \in Plans |->
                 IF was.bindings[p].id \in Present(sessions)
                 THEN was.bindings[p] ELSE NoBinding]]]

\* _cache: compact against the observed board and save.  The cached copy of the
\* board, which only an offline status shows, is left out.
Cached(c, r) == [disk[c] EXCEPT !.checkouts = Compact(c, @, commits[r].sessions)]

Fits(bindings, p) ==
  \/ bindings[p] # NoBinding
  \/ Cardinality({q \in Plans : bindings[q] # NoBinding}) < MaxBindings

\* Slip: adopt whatever generation the board shows for the task.
SettledSlip(was, pend, row, me) ==
  IF pend.kind = "finish" THEN was ELSE [was EXCEPT !.sessions[pend.id] = row.gen]

\* What one accepted publication does to its checkout's tasks and bindings.
Settled(was, pend, row, me) ==
  IF pend.kind = "finish"
  THEN [was EXCEPT !.sessions[pend.id] = 0,
                   !.bindings = [p \in Plans |->
                      IF was.bindings[p].id = pend.id THEN NoBinding ELSE was.bindings[p]]]
  ELSE IF row.owner # me \/ row.gen # pend.gen THEN was
  ELSE [was EXCEPT !.sessions[pend.id] = pend.gen,
                   !.bindings = [p \in Plans |->
                      IF p = pend.binding /\ Fits(was.bindings, p)
                      THEN [id |-> pend.id, gen |-> pend.gen] ELSE was.bindings[p]]]

\* _accept_pending: clear the receipt, compact, adopt the outcome, one save.
Accepted(c, r) ==
  LET k    == proc[c].ck
      pend == disk[c].checkouts[k].pending
      all  == Compact(c, [disk[c].checkouts EXCEPT ![k].pending = NoPending],
                      commits[r].sessions)
  IN [disk[c] EXCEPT
        !.checkouts = [all EXCEPT ![k] =
                          Settled(@, pend, commits[r].sessions[pend.id], Owner(c))]]

-----------------------------------------------------------------------------
Init ==
  /\ head = 1 /\ landed = {1} /\ made = 1 /\ inflight = {}
  /\ \E v \in Versions :
       commits = [r \in Revs |-> [parent |-> 0, version |-> v,
                                  sessions |-> [s \in Revs |-> NoRow]]]
  /\ disk = [c \in Clones |-> Joined]
  /\ proc \in [Clones -> {Idle(k) : k \in Checkouts}]
  /\ discarded = {} /\ consent = [r \in Revs |-> 0]
  /\ farewell = [c \in Clones |-> "in"]

-----------------------------------------------------------------------------
(* Commands.  Each takes the clone's lock and observes the board first. *)

\* Session identities and generations a caller can have been told.
Known == {<<s, commits[r].sessions[s].gen>> : s \in Revs, r \in landed}
KnownTasks == {g \in Known : g[2] # 0}

Consents   == {0} \cup {r \in landed : commits[r].version = 1}
Bindings   == Plans \cup {NoPlan}

AllRequests ==
       {Request("start", 0, 0, "set", s, p, e) : s \in Scopes, p \in Bindings, e \in Consents}
  \cup {Request("update", g[1], g[2], "set", s, p, e) :
            g \in KnownTasks, s \in Scopes, p \in Bindings, e \in Consents}
  \cup {Request("update", g[1], g[2], "keep", {}, NoPlan, e) : g \in KnownTasks, e \in Consents}
  \cup {Request("finish", g[1], g[2], "keep", {}, NoPlan, 0) : g \in KnownTasks}
  \cup {Request("recover", g[1], 0, "keep", {}, NoPlan, r) : g \in KnownTasks, r \in landed}

Requests == {op \in AllRequests : op.kind \in Requested}

\* A command takes the lock and reads the board (_observe, first half).  With
\* no receipt to reconcile it compacts, saves and goes on to its own action; a
\* status is then done.  Arguments are drawn where they are first used.
Begin(c, k, kind) ==
  /\ proc[c].pc = "idle" /\ disk[c].joined
  /\ kind = "leave" => disk[c].life < MaxLeaves
  /\ IF disk[c].checkouts[k].pending # NoPending
     THEN Go(c, At(k, "reconcile", Op(kind), head)) /\ UNCHANGED disk
     ELSE /\ IF kind = "status" THEN UNCHANGED proc ELSE Go(c, At(k, "act", Op(kind), head))
          /\ disk' = [disk EXCEPT ![c] = Cached(c, head)]
  /\ UNCHANGED <<remoteVars, commitVars, historyVars>>

\* A command ends without touching anything durable: an error of a Git call,
\* a refusal, or the death of the process.  The lock dies with its holder.
Abort(c) ==
  /\ proc[c].pc # "idle"
  /\ End(c)
  /\ UNCHANGED <<remoteVars, commitVars, historyVars, disk>>

\* _observe, second half: a receipt whose commit is an ancestor of the head
\* was applied.  A mutating command or a retry then only reports that outcome.
Reconcile(c) ==
  LET applied == Pending(c).rev \in landed
      done    == IF applied THEN {"status", "mutate", "retry"} ELSE {"status"}
      seen    == IF applied THEN head ELSE proc[c].snap IN
  /\ proc[c].pc = "reconcile"
  /\ disk' = [disk EXCEPT ![c] = IF applied THEN Accepted(c, head) ELSE Cached(c, seen)]
  /\ IF proc[c].op.kind \in done THEN End(c)
     ELSE Go(c, [proc[c] EXCEPT !.pc = "act", !.snap = seen])
  /\ UNCHANGED <<remoteVars, commitVars, historyVars>>

-----------------------------------------------------------------------------
(* One attempt of a mutation: decide on the observed board, save the       *)
(* receipt, push.                                                          *)

\* A task identity is drawn with the generation of the start that creates it.
Task(p, gen) == IF p.op.kind = "start" THEN gen ELSE p.op.id

NewRow(p, gen, me) ==
  LET prev == commits[p.snap].sessions[p.op.id] IN
  CASE p.op.kind = "start"   -> [owner |-> me, gen |-> gen, paths |-> p.op.paths]
    [] p.op.kind = "recover" -> [prev EXCEPT !.owner = me, !.gen = gen]
    [] p.op.kind = "update"  -> IF p.op.scope = "keep" THEN prev ELSE [prev EXCEPT !.paths = p.op.paths]
    [] OTHER                 -> NoRow

NewBoard(p, gen, me) ==
  [version  |-> IF Upgrade(p.op) THEN 2 ELSE commits[p.snap].version,
   sessions |-> [commits[p.snap].sessions EXCEPT ![Task(p, gen)] = NewRow(p, gen, me)]]

\* Slip: a recovery keeps the old generation.
RecoverSlip(p) ==
  CASE p.gen # 0              -> p.gen
    [] p.op.kind = "start"   -> made + 1
    [] p.op.kind = "recover" -> commits[p.snap].sessions[p.op.id].gen
    [] OTHER                 -> p.op.gen

\* The generation of a new row: one token per command, kept by its retries.
\* An update keeps the row's generation.
Token(p) ==
  IF p.gen # 0 THEN p.gen
  ELSE IF p.op.kind \in {"start", "recover"} THEN made + 1 ELSE p.op.gen

\* require_session: the caller owns the task and names its generation.
Owned(c, p) ==
  LET row == commits[p.snap].sessions[p.op.id] IN
  row # NoRow /\ row.owner = Owner(c) /\ row.gen = p.op.gen

\* require_capacity: the local binding must fit once the push is confirmed.
Room(c, p) ==
  p.op.kind # "finish" /\ p.op.binding \in Plans =>
    Fits(disk[c].checkouts[p.ck].bindings, p.op.binding)

\* What mutate requires of the observed board before it decides on a row.
Permitted(c, p) ==
  LET was == commits[p.snap] IN
  /\ Upgrade(p.op) /\ p.attempt = 0 => was.version = 1 /\ p.snap = p.op.expect
  /\ p.op.kind = "recover" => p.snap = p.op.expect /\ was.sessions[p.op.id] # NoRow
  /\ p.op.kind \in {"update", "finish"} => Owned(c, p)
  /\ Room(c, p)

\* The caller's request; a later attempt repeats the same one.
Asked(p) == IF p.op.kind = "mutate" THEN {[p EXCEPT !.op = op] : op \in Requests} ELSE {p}

Acceptable(c, p) == Permitted(c, p) /\ ValidBoard(NewBoard(p, Token(p), Owner(c)))

\* write: create the commit on the observed revision and save its receipt.
Write(c) ==
  /\ proc[c].pc = "act" /\ proc[c].op.kind \in Mutations \cup {"mutate"}
  /\ made < MaxRev
  /\ Pending(c) = NoPending
  /\ \E p \in Asked(proc[c]) :
       LET gen == Token(p)
           b   == NewBoard(p, gen, Owner(c))
           r   == made + 1 IN
       /\ Acceptable(c, p)
       /\ made' = r
       /\ commits' = [commits EXCEPT ![r] = [parent |-> p.snap, version |-> b.version,
                                             sessions |-> b.sessions]]
       /\ consent' = [consent EXCEPT ![r] = p.op.expect]
       /\ disk' = [disk EXCEPT ![c].checkouts[p.ck].pending =
                     [rev |-> r, kind |-> p.op.kind, id |-> Task(p, gen), gen |-> gen,
                      binding |-> p.op.binding]]
       /\ Go(c, [p EXCEPT !.pc = "push", !.rev = r, !.gen = gen])
  /\ UNCHANGED <<remoteVars, historyVars>>

\* The refusals of mutate, and a retry with nothing to retry.
Refuse(c) ==
  /\ proc[c].pc = "act"
  /\ \/ proc[c].op.kind = "retry" /\ Pending(c) = NoPending
     \/ /\ proc[c].op.kind \in Mutations \cup {"mutate"}
        /\ \/ Pending(c) # NoPending
           \/ made = MaxRev
           \/ made < MaxRev /\ \E p \in Asked(proc[c]) : ~Acceptable(c, p)
  /\ End(c)
  /\ UNCHANGED <<remoteVars, commitVars, historyVars, disk>>

-----------------------------------------------------------------------------
(* git push --force-with-lease=ref:parent.  The lease compares and swaps.  *)

Advance(r) ==
  /\ commits[r].parent = head
  /\ head' = r /\ landed' = landed \cup {r}

Pushing(c) == proc[c].pc = "push"

\* Git reports success: the push landed, or the ref already names the commit.
PushOk(c) ==
  LET r == proc[c].rev IN
  /\ Pushing(c)
  /\ \/ Advance(r)
     \/ head = r /\ UNCHANGED <<head, landed>>
  /\ Go(c, [proc[c] EXCEPT !.pc = "accept", !.snap = r])
  /\ UNCHANGED <<inflight, commitVars, historyVars, disk>>

\* The push lands but its confirmation is lost.
PushUnheard(c) ==
  /\ Pushing(c)
  /\ Advance(proc[c].rev)
  /\ Go(c, [proc[c] EXCEPT !.pc = "resolve", !.out = "unknown"])
  /\ UNCHANGED <<inflight, commitVars, historyVars, disk>>

\* The push times out, or its process dies, on its way to the remote.
PushDelayed(c) ==
  /\ Pushing(c)
  /\ inflight' = inflight \cup {proc[c].rev}
  /\ \/ Go(c, [proc[c] EXCEPT !.pc = "resolve", !.out = "unknown"])
     \/ End(c)
  /\ UNCHANGED <<head, landed, commitVars, historyVars, disk>>

\* A definite rejection: the lease is stale, or a hook or policy says no.
PushRejected(c) ==
  /\ Pushing(c)
  /\ \E why \in {"stale", "denied"} :
       /\ why = "stale" => head \notin {commits[proc[c].rev].parent, proc[c].rev}
       /\ Go(c, [proc[c] EXCEPT !.pc = "resolve", !.out = why])
  /\ UNCHANGED <<remoteVars, commitVars, historyVars, disk>>

Arrive(r) ==
  /\ r \in inflight
  /\ Advance(r)
  /\ inflight' = inflight \ {r}
  /\ UNCHANGED <<commitVars, localVars, historyVars>>

Vanish(r) ==
  /\ r \in inflight
  /\ inflight' = inflight \ {r}
  /\ UNCHANGED <<head, landed, commitVars, localVars, historyVars>>

-----------------------------------------------------------------------------
(* What a failed push meant: _publish after a nonzero exit, and retry.     *)

\* Read the board again and classify.  An unconfirmed push keeps its receipt.
Resolve(c) ==
  LET p == proc[c] IN
  /\ p.pc = "resolve"
  /\ \/ /\ p.rev \in landed
        /\ Go(c, [p EXCEPT !.pc = "accept", !.snap = head])
     \/ /\ p.rev \notin landed
        /\ \/ /\ head # commits[p.rev].parent \/ p.out = "stale"
              /\ Go(c, [p EXCEPT !.pc = "settle", !.out = "contention"])
           \/ /\ head = commits[p.rev].parent /\ p.out = "denied"
              /\ Go(c, [p EXCEPT !.pc = "settle", !.out = "unavailable"])
           \/ /\ head = commits[p.rev].parent /\ p.out = "unknown"
              /\ End(c)
  /\ UNCHANGED <<remoteVars, commitVars, historyVars, disk>>

\* GitBoard.retry: reconcile first, then push the very commit that was saved.
Retry(c) ==
  LET p == proc[c]
      r == Pending(c).rev IN
  /\ p.pc = "act" /\ p.op.kind = "retry" /\ Pending(c) # NoPending
  /\ \/ /\ r \in landed
        /\ Go(c, [p EXCEPT !.pc = "accept", !.rev = r, !.snap = head])
     \/ /\ r \notin landed /\ head # commits[r].parent
        /\ Go(c, [p EXCEPT !.pc = "settle", !.rev = r, !.out = "contention"])
     \/ /\ r \notin landed /\ head = commits[r].parent
        /\ Go(c, [p EXCEPT !.pc = "push", !.rev = r])
  /\ UNCHANGED <<remoteVars, commitVars, historyVars, disk>>

\* Slip: a consented change is tried again on whatever the board is by then.
MayRepeatSlip(p) == p.out = "contention" /\ p.op.kind \in Mutations /\ p.attempt + 1 < MaxAttempts

\* Whether mutate goes round again: contention, never a reviewed consent.
MayRepeat(p) ==
  /\ p.out = "contention" /\ p.op.kind \in Mutations
  /\ p.op.kind # "recover" /\ ~Upgrade(p.op)
  /\ p.attempt + 1 < MaxAttempts

\* Slips: a refused retry drops its receipt; a retry never drops its receipt.
KeepsSlip(p) == FALSE
RetainsSlip(p) == p.op.kind = "retry"

\* Contention drops the receipt.  So does a refused first push; a refused
\* retry keeps it, because an earlier push of the same commit may still land.
Keeps(p) == p.out # "contention" /\ p.op.kind = "retry"

Settle(c) ==
  LET p == proc[c] IN
  /\ p.pc = "settle"
  /\ IF Keeps(p)
     THEN End(c) /\ UNCHANGED <<disk, discarded>>
     ELSE /\ disk' = [disk EXCEPT ![c].checkouts[p.ck].pending = NoPending]
          /\ discarded' = discarded \cup {p.rev}
          /\ IF MayRepeat(p) THEN Go(c, [p EXCEPT !.pc = "reread"]) ELSE End(c)
  /\ UNCHANGED <<remoteVars, commitVars, farewell>>

\* The next attempt decides on a fresh board; a planned command does not
\* continue across a protocol change.
Reread(c) ==
  LET p == proc[c] IN
  /\ p.pc = "reread"
  /\ disk' = [disk EXCEPT ![c] = Cached(c, head)]
  /\ IF p.op.binding # NoPlan /\ commits[head].version # commits[p.snap].version
     THEN End(c)
     ELSE Go(c, [p EXCEPT !.pc = "act", !.snap = head, !.attempt = @ + 1,
                          !.rev = 0, !.out = "none"])
  /\ UNCHANGED <<remoteVars, commitVars, historyVars>>

Accept(c) ==
  /\ proc[c].pc = "accept"
  /\ disk' = [disk EXCEPT ![c] = Accepted(c, proc[c].snap)]
  /\ End(c)
  /\ UNCHANGED <<remoteVars, commitVars, historyVars>>

-----------------------------------------------------------------------------
(* Participation. *)

Join(c) ==
  /\ proc[c].pc = "idle" /\ ~disk[c].joined
  /\ disk' = [disk EXCEPT ![c] = [Joined EXCEPT !.life = disk[c].life]]
  /\ farewell' = [farewell EXCEPT ![c] = IF @ = "clean" THEN "in" ELSE @]
  /\ UNCHANGED <<remoteVars, commitVars, proc, discarded>>

Receipts(c) == {disk[c].checkouts[k].pending.rev : k \in Checkouts} \ {0}

\* Forget the connection and every checkout: a later join draws new checkout
\* identities, so an old reservation is then owned by nobody here.
Forget(c) ==
  /\ disk' = [disk EXCEPT ![c] = [Joined EXCEPT !.joined = FALSE,
                                                   !.life = disk[c].life + 1]]
  /\ End(c)

Holds(c, r) == \E s \in Revs : /\ commits[r].sessions[s] # NoRow
                               /\ commits[r].sessions[s].owner.clone = c

\* Slip: an unresolved receipt does not stand in the way.
MayLeaveSlip(c, r) == ~Holds(c, r)
MayLeave(c, r) == Receipts(c) = {} /\ ~Holds(c, r)

Leave(c) ==
  /\ proc[c].pc = "act" /\ proc[c].op.kind = "leave"
  /\ IF MayLeave(c, proc[c].snap)
     THEN /\ Forget(c)
          /\ farewell' = [farewell EXCEPT ![c] = IF @ = "in" THEN "clean" ELSE @]
     ELSE End(c) /\ UNCHANGED <<disk, farewell>>
  /\ UNCHANGED <<remoteVars, commitVars, discarded>>

Abandon(c) ==
  /\ proc[c].pc = "idle" /\ disk[c].joined /\ disk[c].life < MaxLeaves
  /\ Forget(c)
  /\ farewell' = [farewell EXCEPT ![c] = "abandoned"]
  /\ UNCHANGED <<remoteVars, commitVars, discarded>>

-----------------------------------------------------------------------------
Step(c) ==
  \/ Reconcile(c) \/ Write(c) \/ Refuse(c)
  \/ PushOk(c) \/ PushUnheard(c) \/ PushDelayed(c) \/ PushRejected(c)
  \/ Resolve(c) \/ Retry(c) \/ Settle(c) \/ Reread(c) \/ Accept(c)
  \/ Leave(c)

Next ==
  \/ \E c \in Clones :
       \/ \E k \in Checkouts, kind \in Commands : Begin(c, k, kind)
       \/ Step(c) \/ Abort(c) \/ Join(c) \/ Abandon(c)
  \/ \E r \in Revs : Arrive(r) \/ Vanish(r)

Spec == Init /\ [][Next]_vars

\* Every Git call has a timeout, so a command that took the lock runs on or
\* dies.  The operator of a steady clone repeats a retry as long as a receipt
\* is unresolved, and such a retry is not killed or cut off from the remote
\* every time.  The other clones owe nothing: they may stop or compete for ever.
Retrying(c) == proc[c].op.kind = "retry"

Fairness ==
  \A c \in Steady :
    /\ WF_vars(Step(c) \/ Abort(c))
    /\ \A k \in Checkouts : SF_vars(Begin(c, k, "retry"))
    /\ SF_vars(Retrying(c) /\ Reconcile(c)) /\ SF_vars(Retry(c))
    /\ SF_vars(Retrying(c) /\ PushOk(c))
    /\ SF_vars(Retrying(c) /\ Settle(c)) /\ SF_vars(Retrying(c) /\ Accept(c))

FairSpec == Spec /\ Fairness
=============================================================================
