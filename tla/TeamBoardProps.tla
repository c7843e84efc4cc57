--------------------------- MODULE TeamBoardProps ---------------------------
(* The correctness properties of the team board. *)
EXTENDS TeamBoard

PendingType == [rev: 0..MaxRev, kind: Mutations \cup {"none"}, id: 0..MaxRev,
                gen: 0..MaxRev, binding: Plans \cup {NoPlan}]
CheckoutType == [pending: PendingType, sessions: [Revs -> 0..MaxRev],
                 bindings: [Plans -> [id: 0..MaxRev, gen: 0..MaxRev]]]
DiskType == [joined: BOOLEAN, life: 0..MaxLeaves,
             checkouts: [Checkouts -> CheckoutType]]
OpType == [kind: Kinds, id: 0..MaxRev, gen: 0..MaxRev, scope: {"keep", "set"},
           paths: SUBSET Paths, binding: Plans \cup {NoPlan}, expect: 0..MaxRev]
Outcomes == {"none", "unknown", "stale", "denied", "contention", "unavailable"}
Counters == {"idle", "reconcile", "act", "push", "resolve", "settle",
             "reread", "accept"}
ProcType == [pc: Counters, ck: Checkouts, op: OpType, snap: 0..MaxRev, rev: 0..MaxRev,
             gen: 0..MaxRev, attempt: Nat, out: Outcomes]
CommitType == [parent: 0..MaxRev, version: {1, 2}, sessions: [Revs -> Rows \cup {NoRow}]]

\* Every variable has its type.
TypeOK ==
  /\ head \in Revs /\ landed \subseteq Revs /\ made \in Revs
  /\ commits \in [Revs -> CommitType]
  /\ inflight \subseteq Revs /\ discarded \subseteq Revs
  /\ disk \in [Clones -> DiskType]
  /\ proc \in [Clones -> ProcType]
  /\ consent \in [Revs -> 0..MaxRev]
  /\ farewell \in [Clones -> {"in", "clean", "abandoned"}]

\* On no board that ever was the shared truth is a path reserved for two tasks,
\* itself or through a directory above it, or does a checkout hold two
\* reservations, however pushes race.
Reserved(row) == {f \in Paths : \E p \in row.paths : f = p \/ <<f, p>> \in Under}
ExclusiveClaims ==
  \A r \in landed : \A s, t \in Revs :
    LET a == commits[r].sessions[s]
        b == commits[r].sessions[t] IN
    s # t => /\ Reserved(a) \cap Reserved(b) = {}
             /\ a.paths # {} /\ b.paths # {} => a.owner # b.owner

\* A publication reported as not applied, whose receipt was dropped, never
\* reaches the board afterwards: not by a delayed push, not by a retry.
DiscardedNeverLands == discarded \cap landed = {}

\* A recovery or a protocol upgrade is applied to the reviewed revision or not
\* at all: consent is never rebased onto a board nobody reviewed.
ConsentIsExact ==
  \A r \in landed : consent[r] # 0 => commits[r].parent = consent[r]

\* After an ordinary leave nothing of this clone stays or appears on the board,
\* although its pushes may be late (an abandoning clone gets no such promise).
LeaveIsClean ==
  \A c \in Clones : farewell[c] = "clean" => ~Holds(c, head)

\* What a checkout remembers of its tasks, and of the tasks its plans are bound
\* to, is a generation the board really gave to that checkout.  Room for a
\* binding is checked before publishing, and the binding is saved when the
\* publication is confirmed, perhaps by a later command: the room is still
\* there, so no published task loses its plan.
Gave(c, k, s, g) ==
  \E r \in landed :
    /\ commits[r].sessions[s].gen = g
    /\ commits[r].sessions[s].owner = [clone |-> c, checkout |-> k, life |-> disk[c].life]
BeliefWasPublished ==
  \A c \in Clones, k \in Checkouts :
    LET mine == disk[c].checkouts[k] IN
    /\ \A s \in Revs : mine.sessions[s] # 0 => Gave(c, k, s, mine.sessions[s])
    /\ \A p \in Plans : mine.bindings[p] # NoBinding =>
         Gave(c, k, mine.bindings[p].id, mine.bindings[p].gen)
    /\ mine.pending.kind # "finish" /\ mine.pending.binding # NoPlan =>
         Fits(mine.bindings, mine.pending.binding)

\* The whole machinery implements one table of atomic reservations: every
\* change of the remote ref is one task's complete operation on the latest
\* board, no update is lost, and a recovered generation never returns.
Issued == {commits[r].sessions[s].gen : r \in landed, s \in Revs} \ {0}
Abstract == INSTANCE Reservations WITH
  Tasks <- Revs, Generations <- Revs,
  version <- commits[head].version, sessions <- commits[head].sessions, issued <- Issued
ImplementsReservations == Abstract!Spec

\* A publication whose outcome is unknown does not stay unknown, whatever the
\* other clones do: repeated retries accept it, push it, or learn that the
\* board went on without it.
ReceiptSettles ==
  \A c \in Steady, k \in Checkouts :
    disk[c].checkouts[k].pending # NoPending ~> disk[c].checkouts[k].pending = NoPending
=============================================================================
