---------------------------- MODULE EndingsProofs ----------------------------
(***************************************************************************)
(* TLAPS proofs about what must come to an end: the children in a process  *)
(* group, the containers of the trials and the oracle of an assessment,    *)
(* for any processes, pipes, threads and requests; and about the           *)
(* transaction that records a section, for any contents and any number of  *)
(* records, kills, failures and drifts.  The inductive invariant of the    *)
(* transaction says two things: whatever is on disk has one of the shapes  *)
(* a recovery knows, and a running command knows which one.                *)
(***************************************************************************)
EXTENDS MCEndings, TLAPS

(* A child under a deadline. *)

\* Once the group was killed nothing of it runs on, however it forks meanwhile; why the
\* wait ended is remembered, and is so.
ChildInv ==
  /\ C!GroupTypeOK
  /\ pc \in {"enter", "stdin", "readers", "spawn", "loop", "kill", "wait", "join", "done"}
  /\ wrong \in BOOLEAN /\ late \in BOOLEAN /\ cancel \in BOOLEAN
  /\ pc \in {"kill", "wait", "join"} => end \in {"ended", "late", "cancelled", "raised"}
  /\ (end = "late" => late) /\ (end = "cancelled" => cancel)
  /\ pc \in {"wait", "join"} /\ ~wrong => C!Survivors = {}
  /\ C!ChildOutcome

\* A group nobody of which runs on stays one.
LEMMA GroupLives ==
  ASSUME C!GroupTypeOK, C!Environment
  PROVE  C!GroupTypeOK' /\ (C!Survivors = {} => C!Survivors' = {})
  <1> USE DEF C!GroupTypeOK, C!Survivors, C!Free, C!Live
  <1>1. ASSUME NEW p \in Procs, NEW q \in Procs, C!Fork(p, q)
        PROVE  C!GroupTypeOK' /\ (C!Survivors = {} => C!Survivors' = {})
    BY <1>1 DEF C!Fork
  <1>2. ASSUME NEW p \in Procs, C!Detach(p)
        PROVE  C!GroupTypeOK' /\ (C!Survivors = {} => C!Survivors' = {})
    BY <1>2 DEF C!Detach
  <1>3. ASSUME NEW p \in Procs, C!Bury(p)
        PROVE  C!GroupTypeOK' /\ (C!Survivors = {} => C!Survivors' = {})
    BY <1>3 DEF C!Bury
  <1>4. ASSUME NEW p \in Procs, NEW h \in Pipes, C!Close(p, h)
        PROVE  C!GroupTypeOK' /\ (C!Survivors = {} => C!Survivors' = {})
    BY <1>4 DEF C!Close
  <1>5. ASSUME NEW p \in Procs, NEW code \in C!ExitCodes, C!Die(p, code)
        PROVE  C!GroupTypeOK' /\ (C!Survivors = {} => C!Survivors' = {})
    BY <1>5 DEF C!Die
  <1> QED
    BY <1>1, <1>2, <1>3, <1>4, <1>5 DEF C!Environment

LEMMA Reaping ==
  ASSUME C!GroupTypeOK, life' = C!Reaped, UNCHANGED <<member, holds, doomed, exit>>
  PROVE  C!GroupTypeOK' /\ (C!Survivors = {} => C!Survivors' = {})
  BY DEF C!GroupTypeOK, C!Survivors, C!Free, C!Live, C!Reaped

LEMMA ChildBegins == C!ChildInit => ChildInv
  BY DEF C!ChildInit, C!NobodyYet, ChildInv, C!GroupTypeOK, C!ExitCodes, C!ChildOutcome

LEMMA ChildGoesOn ==
  ASSUME ChildInv, C!ChildNext
  PROVE  ChildInv'
  <1> USE DEF ChildInv
  <1>1. CASE C!Proceed
    <2>1. C!After(pc) \in {"stdin", "readers", "spawn"}
      <3>1. \E i \in 1..3 : C!Checks[i] = pc
        BY <1>1 DEF C!Proceed, C!Checks
      <3> QED
        BY <3>1 DEF C!After, C!Checks
    <2> QED
      BY <1>1, <2>1 DEF C!Proceed, C!GroupTypeOK, C!group, C!ChildOutcome
  <1>2. CASE C!Unstarted
    BY <1>2 DEF C!Unstarted, C!GroupTypeOK, C!group, C!ChildOutcome, C!Nothing
  <1>3. CASE C!Popen
    <2>1. C!GroupTypeOK'
      BY <1>3, EndingsAssumption DEF C!Popen, C!Spawn, C!GroupTypeOK, C!group
    <2>2. pc' = "loop" \/ (pc' = "done" /\ childAnswer' = [C!Nothing EXCEPT !.code = 127])
      BY <1>3 DEF C!Popen
    <2>3. UNCHANGED <<end, late, cancel, wrong>>
      BY <1>3 DEF C!Popen
    <2> QED
      BY <2>1, <2>2, <2>3 DEF C!ChildOutcome, C!Nothing
  <1>4. ASSUME NEW why, C!Leave(why), why \in {"ended", "late", "cancelled", "raised"},
               (why = "late" => late), (why = "cancelled" => cancel)
        PROVE  ChildInv'
    <2>1. C!GroupTypeOK'
      BY <1>4, Reaping DEF C!Leave
    <2> QED
      BY <1>4, <2>1 DEF C!Leave, C!ChildOutcome
  <1>5. CASE C!Ended \/ C!TimedOut \/ C!Cancelled \/ C!Interrupt
    BY <1>4, <1>5 DEF C!Ended, C!TimedOut, C!Cancelled, C!Interrupt, C!Overdue
  <1>6. CASE C!KillGroup
    <2>1. C!GroupTypeOK'
      BY <1>6 DEF C!KillGroup, C!GroupTypeOK, C!Doomed, C!Live
    <2>2. ~wrong' => C!Survivors' = {}
      BY <1>6 DEF C!KillGroup, C!GroupTypeOK, C!Doomed, C!Target, C!Survivors, C!Free, C!Live
    <2>3. wrong' \in BOOLEAN
      BY <1>6 DEF C!KillGroup
    <2> QED
      BY <1>6, <2>1, <2>2, <2>3 DEF C!KillGroup, C!ChildOutcome
  <1>7. CASE C!WaitLeader
    <2>1. C!GroupTypeOK' /\ (C!Survivors = {} => C!Survivors' = {})
      BY <1>7, Reaping DEF C!WaitLeader
    <2>2. wrong' \in BOOLEAN /\ (~wrong' => ~wrong)
      BY <1>7 DEF C!WaitLeader, C!Live
    <2> QED
      BY <1>7, <2>1, <2>2 DEF C!WaitLeader, C!ChildOutcome
  <1>8. CASE C!Answer
    <2> DEFINE bad == wrong \/ C!Open(reading)
    <2>1. /\ childAnswer'.error = bad /\ childAnswer'.code = C!Code(bad)
          /\ childAnswer'.error <=> bad
      BY <1>8 DEF C!Answer
    <2>2. C!GroupTypeOK' /\ C!Survivors' = C!Survivors /\ exit \in {0, 1, 137}
      BY <1>8 DEF C!Answer, C!group, C!GroupTypeOK, C!ExitCodes, C!Killed, C!Survivors, C!Free, C!Live
    <2>3. ~bad => C!Survivors = {} /\ reading = {}
      BY <1>8 DEF C!Answer, C!Open
    <2>4. /\ C!Code(bad) = 0 => exit = 0 /\ end = "ended" /\ ~bad
          /\ C!Code(bad) = 124 => end = "late"
          /\ C!Code(bad) = 130 => end = "cancelled"
      BY <1>8, <2>2 DEF C!Answer, C!Code, C!Raised
    <2> HIDE DEF bad
    <2> QED
      BY <1>8, <2>1, <2>2, <2>3, <2>4 DEF C!Answer, C!ChildOutcome, C!group
  <1>9. CASE C!Deadline \/ C!Cancel
    <2>1. /\ UNCHANGED <<life, member, holds, doomed, exit, pc, end, reading, wrong, childAnswer>>
          /\ late' \in BOOLEAN /\ cancel' \in BOOLEAN
          /\ (late => late') /\ (cancel => cancel')
      BY <1>9 DEF C!Deadline, C!Cancel, C!group
    <2>2. C!GroupTypeOK' /\ C!Survivors' = C!Survivors
      BY <2>1 DEF C!GroupTypeOK, C!Survivors, C!Free, C!Live
    <2>3. C!ChildOutcome'
      BY <2>1, <2>2 DEF C!ChildOutcome
    <2> QED
      BY <2>1, <2>2, <2>3
  <1>10. ASSUME NEW h \in Pipes, C!ReaderEnds(h)
         PROVE  ChildInv'
    BY <1>10 DEF C!ReaderEnds, C!GroupTypeOK, C!group, C!ChildOutcome, C!Survivors, C!Free, C!Live
  <1>11. CASE pc # "done" /\ C!Environment /\ UNCHANGED C!caller
    BY <1>11, GroupLives DEF C!caller, C!ChildOutcome
  <1> QED
    BY <1>1, <1>2, <1>3, <1>5, <1>6, <1>7, <1>8, <1>9, <1>10, <1>11 DEF C!ChildNext, C!Caller

-----------------------------------------------------------------------------
(* A privileged child whose group must be gone. *)

\* Nobody who was there at the last look runs on in the group.
Closed == \A p \in known : ~(member[p] /\ H!Live(p))

\* What has been read of the group is dead or has left it, and stays so; a success is
\* probed only when the leader is reaped.
GroupInv ==
  /\ H!GroupTypeOK
  /\ pc \in {"spawn", "read", "wait", "poll", "probe", "scan", "quiet", "busy", "done"}
  /\ phase \in {"success", "before", "term", "kill", "refused"}
  /\ pc = "spawn" => known = {}
  /\ known \subseteq {p \in Procs : life[p] # "unborn"}
  /\ pc = "poll" => phase # "success"
  /\ pc \in {"probe", "scan", "quiet", "busy"} /\ phase = "success" => life[Leader] = "gone"
  /\ pc = "scan" /\ ~unsure => \A p \in known \ listed : ~(member[p] /\ H!Live(p))
  /\ pc = "quiet" => Closed
  /\ H!GroupClosed

\* What is known of a process stays true of it, and who is gone stays gone.
LEMMA GroupStays ==
  ASSUME H!GroupTypeOK, H!Environment \/ (life' = H!Reaped /\ UNCHANGED <<member, holds, doomed, exit>>)
  PROVE  /\ H!GroupTypeOK'
         /\ \A p \in Procs : /\ life[p] # "unborn" => life'[p] # "unborn"
                             /\ life[p] = "gone" => life'[p] = "gone"
                             /\ life[p] # "unborn" /\ ~(member[p] /\ H!Live(p))
                                  => ~(member'[p] /\ life'[p] = "live")
  <1> DEFINE Stays == /\ H!GroupTypeOK'
                      /\ \A p \in Procs : /\ life[p] # "unborn" => life'[p] # "unborn"
                                          /\ life[p] = "gone" => life'[p] = "gone"
                                          /\ life[p] # "unborn" /\ ~(member[p] /\ H!Live(p))
                                               => ~(member'[p] /\ life'[p] = "live")
  <1> USE DEF H!GroupTypeOK, H!Free, H!Live
  <1>1. ASSUME NEW p \in Procs, NEW q \in Procs, H!Fork(p, q) PROVE Stays
    BY <1>1 DEF H!Fork
  <1>2. ASSUME NEW p \in Procs, H!Detach(p) PROVE Stays
    BY <1>2 DEF H!Detach
  <1>3. ASSUME NEW p \in Procs, H!Bury(p) PROVE Stays
    BY <1>3 DEF H!Bury
  <1>4. ASSUME NEW p \in Procs, NEW h \in Pipes, H!Close(p, h) PROVE Stays
    BY <1>4 DEF H!Close
  <1>5. ASSUME NEW p \in Procs, NEW code \in H!ExitCodes, H!Die(p, code) PROVE Stays
    BY <1>5 DEF H!Die
  <1>6. ASSUME life' = H!Reaped, UNCHANGED <<member, holds, doomed, exit>> PROVE Stays
    BY <1>6 DEF H!Reaped
  <1> QED
    BY <1>1, <1>2, <1>3, <1>4, <1>5, <1>6 DEF H!Environment

LEMMA GroupBegins == H!HandoffInit => GroupInv
  BY DEF H!HandoffInit, H!NobodyYet, GroupInv, H!GroupTypeOK, H!ExitCodes, H!GroupClosed

LEMMA GroupGoesOn ==
  ASSUME GroupInv, H!HandoffNext
  PROVE  GroupInv'
  <1> USE DEF GroupInv
  <1>1. CASE H!Popen
    <2>1. H!GroupTypeOK'
      BY <1>1, EndingsAssumption DEF H!Popen, H!Spawn, H!GroupTypeOK
    <2> QED
      BY <1>1, <2>1 DEF H!Popen, H!probe, H!GroupClosed
  <1> DEFINE Same == UNCHANGED <<life, member, holds, doomed, exit>>
  <1>2. ASSUME Same PROVE H!GroupTypeOK' /\ (\A p : H!Live(p)' <=> H!Live(p))
    BY <1>2 DEF H!GroupTypeOK, H!Live
  <1>3. CASE \/ H!Drained \/ H!Deadline \/ H!TwoSeconds \/ H!Again \/ H!Term \/ H!Unproven
             \/ \E h \in Pipes : H!EndOfFile(h)
    <2>1. Same /\ UNCHANGED <<known, listed, saw, unsure>>
      BY <1>3 DEF H!Drained, H!Deadline, H!TwoSeconds, H!Again, H!Term, H!Unproven, H!EndOfFile,
                  H!probe, H!group
    <2>2. CASE H!Drained \/ H!Deadline \/ H!TwoSeconds \/ \E h \in Pipes : H!EndOfFile(h)
      <3>1. /\ UNCHANGED <<phase, outcome>>
            /\ UNCHANGED pc \/ (pc = "read" /\ pc' = "wait")
        BY <2>2 DEF H!Drained, H!Deadline, H!TwoSeconds, H!EndOfFile
      <3> QED
        BY <1>2, <2>1, <3>1 DEF H!GroupClosed, Closed
    <2>3. CASE H!Again \/ H!Term \/ H!Unproven
      <3>1. /\ phase' \in {"success", "before", "term", "kill", "refused"} \ {"success"}
            /\ pc' = "poll" \/ (pc' = "done" /\ outcome' = "unproven")
        BY <2>3 DEF H!Again, H!Term, H!Unproven, H!Signal
      <3> QED
        BY <1>2, <2>1, <3>1 DEF H!GroupClosed, Closed
    <2> QED
      BY <1>3, <2>2, <2>3
  <1>4. CASE H!TooLate \/ H!Residual \/ \E h \in Pipes : H!TooMuch(h)
    <2>1. Same /\ UNCHANGED <<known, listed, saw, unsure>> /\ pc' = "poll" /\ phase' = "before"
      BY <1>4 DEF H!TooLate, H!Residual, H!TooMuch, H!Fails, H!probe, H!group
    <2> QED
      BY <1>2, <2>1 DEF H!GroupClosed, Closed
  <1>5. CASE H!Kill
    <2>1. H!GroupTypeOK'
      BY <1>5 DEF H!Kill, H!GroupTypeOK, H!Doomed, H!Live
    <2>2. pc' = "poll" /\ phase' \in {"kill", "refused"} /\ UNCHANGED <<life, known>>
      BY <1>5 DEF H!Kill, H!Signal, H!probe
    <2> QED
      BY <2>1, <2>2 DEF H!GroupClosed, Closed
  <1>6. CASE H!Reap
    <2>1. /\ life' = H!Reaped /\ UNCHANGED <<member, holds, doomed, exit, known, phase>>
          /\ pc' = "probe" /\ ((pc = "wait" /\ H!Dead(Leader)) \/ pc = "poll")
      BY <1>6 DEF H!Reap, H!probe
    <2>2. pc = "wait" => life'[Leader] = "gone"
      BY <2>1, EndingsAssumption DEF H!Dead, H!Reaped, H!GroupTypeOK
    <2> QED
      BY <2>1, <2>2, GroupStays DEF H!GroupClosed, Closed
  <1>7. CASE H!Probe
    <2>1. Same /\ UNCHANGED <<phase, outcome>> /\ known' = {p \in Procs : H!Matches(p)}
      BY <1>7 DEF H!Probe, H!group
    <2>2. \/ pc' = "quiet" /\ known' = {}
          \/ pc' = "scan" /\ (~unsure' => listed' = known')
      BY <1>7 DEF H!Probe, H!Someone
    <2>3. known' \subseteq {p \in Procs : life[p] # "unborn"}
      BY <2>1 DEF H!Matches, H!Exists
    <2>4. pc = "probe"
      BY <1>7 DEF H!Probe
    <2> QED
      BY <1>2, <2>1, <2>2, <2>3, <2>4 DEF H!GroupClosed, Closed
  <1>8. ASSUME NEW p \in Procs, H!ReadEntry(p) PROVE GroupInv'
    <2>1. Same /\ UNCHANGED <<known, phase, outcome>> /\ listed' = listed \ {p} /\ pc = "scan"
      BY <1>8 DEF H!ReadEntry, H!group
    <2>2. \/ pc' = "busy"
          \/ pc' = "scan" /\ unsure'
          \/ pc' = "scan" /\ unsure' = unsure /\ ~(member[p] /\ H!Live(p))
      BY <1>8 DEF H!ReadEntry, H!Matches, H!Exists, H!Live
    <2> QED
      BY <1>2, <2>1, <2>2 DEF H!GroupClosed, Closed
  <1>9. CASE H!ScanEnds
    <2>1. /\ Same /\ UNCHANGED <<known, phase, outcome, listed, unsure>>
          /\ pc = "scan" /\ listed = {}
          /\ \/ pc' = "busy"
             \/ pc' = "quiet" /\ ~unsure
      BY <1>9 DEF H!ScanEnds, H!group, H!probe, H!Inactive
    <2> QED
      BY <1>2, <2>1 DEF H!GroupClosed, Closed
  <1>10. CASE H!Quiet
    <2>1. /\ life' = H!Reaped /\ UNCHANGED <<member, holds, doomed, exit, known, phase, outcome>>
          /\ pc = "quiet"
          /\ \/ pc' = "busy"
             \/ pc' = "done" /\ (phase = "success" \/ life'[Leader] = "gone")
      BY <1>10 DEF H!Quiet, H!probe
    <2>2. H!GroupTypeOK'
      BY <2>1, GroupStays
    <2>3. known \subseteq {q \in Procs : life'[q] # "unborn"}
      BY <2>1, GroupStays
    <2>4. Closed'
      BY <2>1, GroupStays DEF Closed, H!Live
    <2>5. phase = "success" => life'[Leader] = "gone"
      BY <2>1, GroupStays, EndingsAssumption
    <2> QED
      BY <2>1, <2>2, <2>3, <2>4, <2>5 DEF H!GroupClosed, Closed
  <1>11. CASE pc # "done" /\ H!Environment /\ UNCHANGED H!caller
    <2>1. UNCHANGED <<pc, phase, known, listed, unsure, outcome>>
      BY <1>11 DEF H!caller, H!probe
    <2>2. H!GroupTypeOK' /\ known \subseteq {q \in Procs : life'[q] # "unborn"}
      BY <1>11, GroupStays
    <2>3. \A p \in known : ~(member[p] /\ H!Live(p)) => ~(member[p] /\ H!Live(p))'
      BY <1>11, GroupStays DEF H!Live
    <2>4. life[Leader] = "gone" => life'[Leader] = "gone"
      BY <1>11, GroupStays, EndingsAssumption
    <2> QED
      BY <1>11, <2>1, <2>2, <2>3, <2>4 DEF H!GroupClosed, Closed
  <1> QED
    BY <1>1, <1>3, <1>4, <1>5, <1>6, <1>7, <1>8, <1>9, <1>10, <1>11 DEF H!HandoffNext, H!Caller

-----------------------------------------------------------------------------
(* A container of the trials. *)

Results == {"ok", "refused", "lost", "interrupted"}

\* What is left for the daemon to do, and what a call that stands somewhere knows of the
\* container.
ContainerInv ==
  /\ container \in {"none", "created", "running", "stopped", "removed"}
  /\ smooth \in BOOLEAN /\ identified \in BOOLEAN
  /\ call \in {"preflight", "create"} => container = "none" /\ pending = {} /\ lifecycle = "unverified"
  /\ call = "identify" => /\ identified => container = "created" /\ pending = {}
                          /\ smooth => identified
                          /\ lifecycle = "unverified"
  /\ call \in {"inspect", "start"} => container = "created" /\ pending = {} /\ lifecycle = "unverified"
  /\ call \in {"attached", "look", "kill", "look again", "exec", "remove", "absent"} =>
       lifecycle = "unverified"
  /\ call = "absent" => container = "removed"
  /\ call = "record" => lifecycle \in {"failed", "verified"}
  /\ call = "record" /\ smooth => container = "removed"
  /\ call = "done" /\ smooth => container = "removed" \/ (container = "none" /\ pending = {})
  /\ call \in {"preflight", "create", "identify", "inspect", "start", "attached", "look", "kill",
               "look again", "exec", "remove", "absent", "record", "done"}
  /\ returned = "returned" => call = "done"
  /\ D!CleanupIsTrue

\* A call of the cleanup: the controller goes on only when it was answered.
Cleaned(a1, next) ==
  /\ UNCHANGED identified /\ smooth' \in BOOLEAN
  /\ smooth' => a1 = "ok"
  /\ \/ a1 = "ok" /\ call' = next /\ UNCHANGED <<lifecycle, returned>>
     \/ call' = "done" /\ returned' = "raised" /\ UNCHANGED lifecycle /\ a1 # "ok"
     \/ call' = "record" /\ lifecycle' = "failed" /\ UNCHANGED returned /\ a1 # "ok"

LEMMA Cleaning ==
  ASSUME smooth \in BOOLEAN, NEW a1 \in Results, NEW next,
         NEW where \in {"look", "kill", "look again", "remove"}, D!Cleans(where, a1, next)
  PROVE  Cleaned(a1, next)
  BY DEF Cleaned, D!Cleans, D!Smooth, D!Stopped, D!Watches, D!GoesTo, D!Raise

LEMMA ContainerBegins == D!ContainerInit => ContainerInv
  BY DEF D!ContainerInit, ContainerInv, D!CleanupIsTrue, D!Exists

LEMMA ContainerGoesOn ==
  ASSUME ContainerInv, D!ContainerNext
  PROVE  ContainerInv'
  <1> USE DEF ContainerInv, D!CleanupIsTrue, D!Exists
  <1>1. CASE D!Preflight
    BY <1>1 DEF D!Preflight, D!GoesTo, D!Raise, D!Daemon
  <1>2. CASE D!Create
    BY <1>2 DEF D!Create, D!GoesTo, D!GivenUp, D!Smooth, D!Stopped, D!Watches, D!Results
  <1>3. CASE D!Identify
    BY <1>3 DEF D!Identify, D!GoesTo, D!Raise, D!Daemon
  <1>4. CASE D!Inspect
    <2>1. /\ UNCHANGED <<container, pending, identified, lifecycle, returned>>
          /\ call = "inspect" /\ call' \in {"look", "start"} /\ smooth' \in BOOLEAN
      BY <1>4 DEF D!Inspect, D!GoesTo, D!Daemon, D!Smooth
    <2> QED
      BY <2>1
  <1>5. CASE D!Start
    <2>1. /\ UNCHANGED <<identified, lifecycle, returned>> /\ container' \in {container, "running"}
          /\ call = "start" /\ call' \in {"attached", "look"} /\ smooth' \in BOOLEAN
      BY <1>5 DEF D!Start, D!GoesTo, D!Smooth
    <2> QED
      BY <2>1
  <1>6. CASE D!Attached
    BY <1>6 DEF D!Attached, D!GoesTo, D!Daemon
  <1>8. CASE D!Look
    <2> DEFINE next == IF container = "running" THEN "kill" ELSE "exec"
    <2>1. PICK a1 \in Results : D!Cleans("look", a1, next)
      BY <1>8 DEF D!Look, D!Given, D!Stopped, D!Watches, D!Results, Results
    <2>2. call = "look" /\ UNCHANGED <<container, pending>> /\ next \in {"kill", "exec"}
      BY <1>8 DEF D!Look
    <2> HIDE DEF next
    <2>3. Cleaned(a1, next)
      BY <2>1, Cleaning
    <2> QED
      BY <2>2, <2>3 DEF Cleaned
  <1>9. CASE D!Kill
    <2>1. PICK a1 \in Results : /\ D!Cleans("kill", a1, "look again")
                                /\ container' \in {container, "stopped"}
                                /\ a1 = "ok" => container = "running"
                                /\ container' # container => a1 = "ok"
      BY <1>9 DEF D!Kill, D!Given, D!Stopped, D!Watches, D!Results, Results
    <2>2. call = "kill"
      BY <1>9 DEF D!Kill
    <2>3. Cleaned(a1, "look again")
      BY <2>1, Cleaning
    <2> QED
      BY <2>1, <2>2, <2>3 DEF Cleaned
  <1>10. CASE D!LookAgain
    <2>1. PICK a1 \in Results : D!Cleans("look again", a1, "exec")
      BY <1>10 DEF D!LookAgain, D!Results, Results
    <2>2. call = "look again" /\ UNCHANGED <<container, pending>>
      BY <1>10 DEF D!LookAgain
    <2>3. Cleaned(a1, "exec")
      BY <2>1, Cleaning
    <2> QED
      BY <2>2, <2>3 DEF Cleaned
  <1>11. CASE D!Exec
    <2>1. /\ call = "exec" /\ UNCHANGED <<container, pending, identified, lifecycle>> /\ smooth' \in BOOLEAN
          /\ \/ call' = "remove" /\ UNCHANGED returned
             \/ call' = "done" /\ returned' = "raised" /\ ~smooth'
      BY <1>11 DEF D!Exec, D!Smooth, D!Stopped, D!Watches, D!GoesTo, D!Raise, D!Daemon
    <2> QED
      BY <2>1
  <1>12. CASE D!Remove
    <2>1. PICK a1 \in Results : /\ D!Cleans("remove", a1, "absent")
                                /\ container' = IF a1 = "ok" THEN "removed" ELSE container
      BY <1>12 DEF D!Remove, D!Given, D!Stopped, D!Watches, D!Results, Results
    <2>2. call = "remove"
      BY <1>12 DEF D!Remove
    <2>3. Cleaned(a1, "absent")
      BY <2>1, Cleaning
    <2> QED
      BY <2>1, <2>2, <2>3 DEF Cleaned
  <1>13. CASE D!ConfirmAbsent
    <2>1. /\ call = "absent" /\ UNCHANGED <<container, pending, identified>> /\ smooth' \in BOOLEAN
          /\ \/ call' = "record" /\ lifecycle' \in {"failed", "verified"} /\ UNCHANGED returned
             \/ call' = "done" /\ returned' = "raised" /\ ~smooth' /\ UNCHANGED lifecycle
      BY <1>13 DEF D!ConfirmAbsent, D!Smooth, D!Stopped, D!Watches, D!GoesTo, D!Raise, D!Daemon
    <2> QED
      BY <2>1
  <1>14. CASE D!Record
    BY <1>14 DEF D!Record, D!Daemon
  <1>15. CASE D!CommandEnds \/ D!CallerCancels
    <2>1. /\ UNCHANGED <<call, identified, lifecycle, smooth, returned, pending>>
          /\ \/ container' = container
             \/ container = "running" /\ container' = "stopped"
      BY <1>15 DEF D!CommandEnds, D!CallerCancels, D!Aside
    <2> QED
      BY <2>1
  <1>16. CASE D!CatchesUp
    <2>1. /\ UNCHANGED <<call, identified, lifecycle, smooth, returned>> /\ pending' \subseteq pending
          /\ pending # {} /\ (container = "removed" => container' = "removed")
          /\ container' \in {"none", "created", "running", "stopped", "removed"}
          /\ container # "none" => container' # "none"
      BY <1>16 DEF D!CatchesUp, D!Later, D!Aside
    <2> QED
      BY <2>1
  <1> QED
    BY <1>1, <1>2, <1>3, <1>4, <1>5, <1>6, <1>8, <1>9, <1>10, <1>11, <1>12, <1>13, <1>14, <1>15, <1>16
       DEF D!ContainerNext, D!Controller

-----------------------------------------------------------------------------
(* The oracle and its supervisor. *)

Places == {"wait", "work", "publish", "mark", "note", "close", "done"}
Known  == Ids \cup {O!NoId}
Directory  == [request : {"none", "made", "json", "ready"}, id : Known,
           response : {"none", "json", "ready"}, says : Known]
Part   == [at : {"out", "next", "write", "mark", "wait"}, id : Known, n : 0..MaxNumber, got : Known]

ExchangeTypeOK ==
  /\ box \in [O!Numbers -> Directory]
  /\ client \in [Threads -> Part]
  /\ oracle \in {"live", "passed", "failed"}
  /\ at \in Places
  /\ number \in 1..(MaxNumber + 1)
  /\ noted \subseteq O!Numbers
  /\ errors \in BOOLEAN
  /\ told \in BOOLEAN

\* The thread that has the lock is the only one inside, and what it writes nobody reads yet.
OneInside ==
  \A k \in Threads :
    /\ client[k].at # "out" => clientLock = k
    /\ client[k].at \in {"write", "mark", "wait"} => client[k].n \in O!Numbers
    /\ client[k].at = "write" => box[client[k].n].request = "made"
    /\ client[k].at = "mark" => box[client[k].n].request = "json"

\* A response belongs to the request in its directory, which was taken once.
AnsweredOnce ==
  /\ \A n \in O!Numbers : box[n].response # "none" =>
       box[n].request = "ready" /\ box[n].id \in seen /\ box[n].says = box[n].id
  /\ \A m, n \in O!Numbers : m # n /\ box[m].response # "none" /\ box[n].response # "none"
       => box[m].id # box[n].id

\* The request at work was never answered, nor was another with its identifier.
InService ==
  at \in {"work", "publish"} =>
    /\ number \in O!Numbers
    /\ box[number].request = "ready" /\ box[number].id \in seen /\ box[number].response = "none"
    /\ \A m \in O!Numbers : box[m].response # "none" => box[m].id # box[number].id

\* The directories are made in the order of their numbers.
InOrder == \E k \in 0..MaxNumber : O!Made = 1..k

\* What was saved is all that was answered before the number that comes next.
SavedSoFar ==
  /\ at \in {"wait", "work", "publish", "mark", "note"} => noted = 1..(number - 1)
  /\ \A n \in noted : box[n].request = "ready" /\ box[n].response = "ready"
  /\ at \in {"mark", "note"} => number \in O!Numbers /\ box[number].response # "none"
  /\ at = "note" => box[number].response = "ready"

\* Output without errors is closed only when the oracle has ended and nothing is left.
ClosedWell ==
  /\ told => oracle # "live"
  /\ at \in {"close", "done"} /\ ~errors => told /\ O!Made = noted
  /\ at = "done" /\ ~errors => oracle = "passed"

OracleInv == /\ ExchangeTypeOK /\ OneInside /\ AnsweredOnce /\ InService
             /\ InOrder /\ SavedSoFar /\ ClosedWell

LEMMA OracleBegins == O!ExchangeInit => OracleInv
  <1> SUFFICES ASSUME O!ExchangeInit PROVE OracleInv
    OBVIOUS
  <1> USE EndingsAssumption DEF O!ExchangeInit
  <1>1. ExchangeTypeOK
    <2>1. O!Empty \in Directory
      BY DEF O!Empty, Directory, Known, O!NoId
    <2>2. O!Resting \in Part
      BY DEF O!Resting, Part, Known, O!NoId
    <2>3. box \in [O!Numbers -> Directory] /\ client \in [Threads -> Part]
      BY <2>1, <2>2
    <2>4. number \in 1..(MaxNumber + 1)
      OBVIOUS
    <2>5. errors \in BOOLEAN /\ told \in BOOLEAN /\ noted \subseteq O!Numbers
      OBVIOUS
    <2> QED
      BY <2>3, <2>4, <2>5 DEF ExchangeTypeOK, Places
  <1>2. O!Made = {}
    BY DEF O!Made, O!Empty, O!Numbers
  <1>3. InOrder
    <2>1. {} = 1..0 /\ 0 \in 0..MaxNumber
      OBVIOUS
    <2> QED
      BY <1>2, <2>1 DEF InOrder
  <1>4. OneInside /\ AnsweredOnce /\ InService /\ ClosedWell
    BY DEF OneInside, AnsweredOnce, InService, ClosedWell, O!Resting, O!Empty, O!Numbers
  <1>5. SavedSoFar
    BY DEF SavedSoFar
  <1> QED
    BY <1>1, <1>3, <1>4, <1>5 DEF OracleInv

\* A step that leaves the mailbox and the oracle alone, and forgets nothing it took, leaves
\* what is said of them.
LEMMA MailboxRests ==
  ASSUME OracleInv, UNCHANGED <<box, clientLock, client, oracle>>, seen \subseteq seen'
  PROVE  OneInside' /\ AnsweredOnce' /\ InOrder' /\ O!Made' = O!Made
  BY DEF OracleInv, OneInside, AnsweredOnce, InOrder, O!Made, O!Numbers

\* The steps of the supervisor that write nothing into the mailbox.
LEMMA SupervisorGoesOn ==
  ASSUME OracleInv, \/ O!Receive \/ O!RunWorker \/ O!Note \/ O!Close \/ O!Interrupted \/ O!Join
                    \/ O!Announce
  PROVE  OracleInv'
  <1> USE DEF OracleInv
  <1>0. /\ UNCHANGED <<box, clientLock, client, oracle>> /\ seen \subseteq seen'
        /\ O!Made' = O!Made
    BY MailboxRests DEF O!Receive, O!RunWorker, O!Note, O!Close, O!Interrupted, O!Join, O!Announce,
       O!mailbox
  <1>1. OneInside' /\ AnsweredOnce' /\ InOrder'
    BY <1>0, MailboxRests
  <1>2. CASE O!Receive
    <2>1. /\ at = "wait" /\ ~told /\ UNCHANGED <<number, noted, told>>
          /\ \/ at' = "close" /\ errors' = TRUE
             \/ at' = "work" /\ errors' = errors /\ seen' = seen \cup {box[number].id}
                /\ box[number].id \notin seen
          /\ number \in O!Numbers /\ box[number].request = "ready"
      BY <1>2 DEF O!Receive, O!Fails
    <2>2. ExchangeTypeOK'
      BY <1>0, <2>1 DEF ExchangeTypeOK, Places
    <2>3. InService'
      BY <1>0, <2>1 DEF InService, AnsweredOnce
    <2>4. SavedSoFar' /\ ClosedWell'
      BY <1>0, <2>1 DEF SavedSoFar, ClosedWell
    <2> QED
      BY <1>1, <2>2, <2>3, <2>4
  <1>3. CASE O!RunWorker
    <2>1. /\ at = "work" /\ UNCHANGED <<number, noted, told, seen>>
          /\ \/ at' = "close" /\ errors' = TRUE
             \/ at' = "publish" /\ errors' = errors
      BY <1>3 DEF O!RunWorker, O!Fails
    <2>2. ExchangeTypeOK'
      BY <1>0, <2>1 DEF ExchangeTypeOK, Places
    <2>3. InService' /\ SavedSoFar' /\ ClosedWell'
      BY <1>0, <2>1 DEF InService, SavedSoFar, ClosedWell
    <2> QED
      BY <1>1, <2>2, <2>3
  <1>4. CASE O!Note
    <2>1. /\ at = "note" /\ at' = "wait" /\ UNCHANGED <<seen, errors, told>>
          /\ noted' = noted \cup {number} /\ number' = number + 1
      BY <1>4 DEF O!Note
    <2>2. number \in O!Numbers /\ box[number].request = "ready" /\ box[number].response = "ready"
      BY <2>1 DEF SavedSoFar, AnsweredOnce
    <2>3. noted' = 1..(number' - 1) /\ number' \in 1..(MaxNumber + 1)
      BY <2>1, <2>2, EndingsAssumption DEF SavedSoFar, O!Numbers
    <2>4. ExchangeTypeOK'
      BY <1>0, <2>1, <2>2, <2>3 DEF ExchangeTypeOK, Places
    <2>5. SavedSoFar'
      BY <1>0, <2>1, <2>2, <2>3 DEF SavedSoFar
    <2>6. InService' /\ ClosedWell'
      BY <1>0, <2>1 DEF InService, ClosedWell
    <2> QED
      BY <1>1, <2>4, <2>5, <2>6
  <1>5. CASE O!Close
    <2>1. /\ at = "wait" /\ told /\ at' = "close" /\ UNCHANGED <<number, noted, told, seen>>
          /\ errors' \in BOOLEAN
          /\ ~errors' => ~(number \in O!Numbers /\ box[number].request # "none")
      BY <1>5 DEF O!Close, O!Unhandled, ExchangeTypeOK
    <2>2. ExchangeTypeOK'
      BY <1>0, <2>1 DEF ExchangeTypeOK, Places
    <2>3. ASSUME ~errors' PROVE O!Made = noted
      <3>1. PICK k \in 0..MaxNumber : O!Made = 1..k
        BY DEF InOrder
      <3>2. noted = 1..(number - 1) /\ number \in 1..(MaxNumber + 1)
        BY <2>1 DEF SavedSoFar, ExchangeTypeOK
      <3>3. noted \subseteq O!Made
        BY DEF SavedSoFar, O!Made, ExchangeTypeOK
      <3>4. number \notin O!Made
        BY <2>1, <2>3 DEF O!Made
      <3>5. number - 1 =< k /\ ~(number =< k)
        <4>1. number = 1 \/ number - 1 \in noted
          BY <3>2, EndingsAssumption
        <4> QED
          BY <3>1, <3>2, <3>3, <3>4, <4>1, EndingsAssumption
      <3> QED
        BY <3>1, <3>2, <3>5
    <2>4. ClosedWell'
      BY <1>0, <2>1, <2>3 DEF ClosedWell
    <2>5. InService' /\ SavedSoFar'
      BY <1>0, <2>1 DEF InService, SavedSoFar
    <2> QED
      BY <1>1, <2>2, <2>4, <2>5
  <1>6. CASE O!Interrupted
    <2>1. at' = "close" /\ errors' = TRUE /\ UNCHANGED <<number, noted, told, seen>>
      BY <1>6 DEF O!Interrupted, O!Fails
    <2> QED
      BY <1>0, <1>1, <2>1 DEF ExchangeTypeOK, Places, InService, SavedSoFar, ClosedWell
  <1>7. CASE O!Join
    <2>1. /\ at = "close" /\ told /\ at' = "done" /\ UNCHANGED <<number, noted, told, seen>>
          /\ errors' \in BOOLEAN
          /\ ~errors' => oracle = "passed" /\ ~errors
      BY <1>7 DEF O!Join
    <2>2. ExchangeTypeOK'
      BY <1>0, <2>1 DEF ExchangeTypeOK, Places
    <2> QED
      BY <1>0, <1>1, <2>1, <2>2 DEF InService, SavedSoFar, ClosedWell
  <1>8. CASE O!Announce
    <2>1. told' = TRUE /\ oracle # "live" /\ UNCHANGED <<at, number, noted, errors, seen>>
      BY <1>8 DEF O!Announce, O!Live
    <2>2. ExchangeTypeOK'
      BY <1>0, <2>1 DEF ExchangeTypeOK, Places
    <2> QED
      BY <1>0, <1>1, <2>1, <2>2 DEF InService, SavedSoFar, ClosedWell
  <1> QED
    BY <1>2, <1>3, <1>4, <1>5, <1>6, <1>7, <1>8

\* The steps of the supervisor that write into the mailbox.
LEMMA SupervisorWrites ==
  ASSUME OracleInv, O!Publish \/ O!MarkResponse
  PROVE  OracleInv'
  <1> USE DEF OracleInv
  <1>1. CASE O!Publish /\ ~(worker = box[number].id /\ ~told)
    <2>1. /\ UNCHANGED <<box, clientLock, client, oracle, number, seen, noted, told>>
          /\ at' = "close" /\ errors' = TRUE
      BY <1>1 DEF O!Publish, O!Fails
    <2>2. OneInside' /\ AnsweredOnce' /\ InOrder' /\ O!Made' = O!Made
      BY <2>1, MailboxRests
    <2> QED
      BY <2>1, <2>2 DEF ExchangeTypeOK, Places, InService, SavedSoFar, ClosedWell
  <1>2. ASSUME NEW r \in {"json", "ready"}, NEW s \in Known,
               number \in O!Numbers, box[number].request = "ready",
               box' = [box EXCEPT ![number].response = r, ![number].says = s]
        PROVE  /\ \A n \in O!Numbers : box'[n] = IF n = number
                     THEN [box[n] EXCEPT !.response = r, !.says = s] ELSE box[n]
               /\ box' \in [O!Numbers -> Directory]
               /\ O!Made' = O!Made
    <2>1. box[number] \in Directory /\ box \in [O!Numbers -> Directory]
      BY <1>2 DEF ExchangeTypeOK
    <2>2. [box[number] EXCEPT !.response = r, !.says = s] \in Directory
      BY <1>2, <2>1 DEF Directory
    <2>3. box' = [box EXCEPT ![number] = [box[number] EXCEPT !.response = r, !.says = s]]
      BY <1>2, <2>1, <2>2 DEF Directory
    <2>4. box' \in [O!Numbers -> Directory]
      BY <2>1, <2>2, <2>3
    <2>5. \A n \in O!Numbers : box'[n] = IF n = number
             THEN [box[n] EXCEPT !.response = r, !.says = s] ELSE box[n]
      BY <2>1, <2>3
    <2>6. \A n \in O!Numbers : box'[n].request = box[n].request
      BY <2>1, <2>5, ExchangeTypeOK DEF ExchangeTypeOK, Directory
    <2> QED
      BY <2>4, <2>5, <2>6 DEF O!Made
  <1>3. CASE O!Publish /\ worker = box[number].id /\ ~told
    <2> DEFINE w == box[number].id
    <2>1. /\ UNCHANGED <<clientLock, client, oracle, number, seen, noted, told, errors>>
          /\ at = "publish" /\ at' = "mark"
          /\ box' = [box EXCEPT ![number].response = "json", ![number].says = w]
      BY <1>3 DEF O!Publish
    <2>2. /\ number \in O!Numbers
          /\ box[number].request = "ready" /\ w \in seen /\ box[number].response = "none"
          /\ \A m \in O!Numbers : box[m].response # "none" => box[m].id # w
      BY <2>1 DEF InService
    <2>3. w \in Known /\ box[number] \in Directory
      BY <2>2 DEF ExchangeTypeOK, Directory
    <2> HIDE DEF w
    <2>4. /\ \A n \in O!Numbers : box'[n] = IF n = number
                     THEN [box[n] EXCEPT !.response = "json", !.says = w] ELSE box[n]
          /\ box' \in [O!Numbers -> Directory]
          /\ O!Made' = O!Made
      BY <1>2, <2>1, <2>2, <2>3
    <2>5. /\ box'[number].request = "ready" /\ box'[number].id = w
          /\ box'[number].response = "json" /\ box'[number].says = w
          /\ \A n \in O!Numbers \ {number} : box'[n] = box[n]
      BY <2>2, <2>3, <2>4 DEF w, Directory
    <2>6. ExchangeTypeOK'
      BY <2>1, <2>4 DEF ExchangeTypeOK, Places
    <2>13. UNCHANGED <<clientLock, client, seen>>
      BY <2>1
    <2>7. OneInside'
      BY <2>2, <2>5, <2>13 DEF OneInside
    <2>8. AnsweredOnce'
      BY <2>2, <2>5, <2>13 DEF AnsweredOnce
    <2>9. InOrder'
      BY <2>4 DEF InOrder
    <2>10. number \notin noted
      BY <2>2 DEF SavedSoFar
    <2>11. SavedSoFar'
      BY <2>1, <2>2, <2>5, <2>10 DEF SavedSoFar, ExchangeTypeOK
    <2>12. InService' /\ ClosedWell'
      BY <2>1 DEF InService, ClosedWell
    <2> QED
      BY <2>6, <2>7, <2>8, <2>9, <2>11, <2>12
  <1>4. CASE O!MarkResponse
    <2>1. /\ UNCHANGED <<clientLock, client, oracle, number, seen, noted, told, errors>>
          /\ at = "mark" /\ at' = "note"
          /\ box' = [box EXCEPT ![number].response = "ready"]
      BY <1>4 DEF O!MarkResponse
    <2>2. number \in O!Numbers /\ box[number].response # "none" /\ box[number].request = "ready"
      BY <2>1 DEF SavedSoFar, AnsweredOnce
    <2>3. box[number] \in Directory /\ box \in [O!Numbers -> Directory]
      BY <2>2 DEF ExchangeTypeOK
    <2>4. box' = [box EXCEPT ![number].response = "ready", ![number].says = box[number].says]
      BY <2>1, <2>2, <2>3 DEF Directory
    <2>5. /\ \A n \in O!Numbers : box'[n] = IF n = number
                     THEN [box[n] EXCEPT !.response = "ready", !.says = box[number].says] ELSE box[n]
          /\ box' \in [O!Numbers -> Directory]
          /\ O!Made' = O!Made
      BY <1>2, <2>2, <2>3, <2>4 DEF Directory
    <2>6. /\ box'[number].request = "ready" /\ box'[number].id = box[number].id
          /\ box'[number].response = "ready" /\ box'[number].says = box[number].says
          /\ \A n \in O!Numbers \ {number} : box'[n] = box[n]
      BY <2>2, <2>3, <2>5 DEF Directory
    <2>7. ExchangeTypeOK'
      BY <2>1, <2>5 DEF ExchangeTypeOK, Places
    <2>8. OneInside'
      BY <2>1, <2>2, <2>6 DEF OneInside
    <2>9. AnsweredOnce'
      BY <2>1, <2>2, <2>6 DEF AnsweredOnce
    <2>10. InOrder'
      BY <2>5 DEF InOrder
    <2>11. SavedSoFar'
      BY <2>1, <2>2, <2>6 DEF SavedSoFar, ExchangeTypeOK
    <2>12. InService' /\ ClosedWell'
      BY <2>1 DEF InService, ClosedWell
    <2> QED
      BY <2>7, <2>8, <2>9, <2>10, <2>11, <2>12
  <1> QED
    BY <1>1, <1>3, <1>4

\* Nobody else is inside.
LEMMA Alone ==
  ASSUME OracleInv, NEW j \in Threads, client[j].at # "out" \/ clientLock = O!Nobody
  PROVE  \A k \in Threads \ {j} : client[k].at = "out"
  BY EndingsAssumption DEF OracleInv, OneInside, O!Nobody

\* A step of one thread that leaves the mailbox alone.
LEMMA ThreadGoesOn ==
  ASSUME OracleInv, NEW j \in Threads, NEW x \in Part,
         client[j].at # "out" \/ clientLock = O!Nobody,
         client' = [client EXCEPT ![j] = x], x.at \in {"out", "next"},
         x.at # "out" => clientLock' = j,
         UNCHANGED <<box, oracle, at, number, seen, noted, errors, told>>
  PROVE  OracleInv'
  <1> USE DEF OracleInv
  <1>1. client \in [Threads -> Part] /\ client' \in [Threads -> Part]
    BY DEF ExchangeTypeOK
  <1>2. client'[j] = x /\ \A k \in Threads \ {j} : client'[k].at = "out"
    BY <1>1, Alone
  <1>3. ExchangeTypeOK'
    BY <1>1 DEF ExchangeTypeOK
  <1>4. OneInside'
    BY <1>2 DEF OneInside
  <1>5. O!Made' = O!Made
    BY DEF O!Made
  <1>6. AnsweredOnce' /\ InService' /\ InOrder'
    BY <1>5 DEF AnsweredOnce, InService, InOrder
  <1>7. SavedSoFar' /\ ClosedWell'
    BY <1>5 DEF SavedSoFar, ClosedWell
  <1> QED
    BY <1>3, <1>4, <1>6, <1>7

\* A step of one thread that writes into a directory which nobody has answered.
LEMMA ThreadWrites ==
  ASSUME OracleInv, NEW j \in Threads, NEW x \in Part, NEW n \in O!Numbers, NEW d \in Directory,
         client[j].at # "out", oracle = "live",
         client' = [client EXCEPT ![j] = x], box' = [box EXCEPT ![n] = d],
         UNCHANGED <<clientLock, oracle, at, number, seen, noted, errors, told>>,
         x.n = n, x.at \in {"write", "mark", "wait"},
         x.at = "write" => d.request = "made", x.at = "mark" => d.request = "json",
         box[n].request # "ready", d.response = "none", InOrder'
  PROVE  OracleInv'
  <1> USE DEF OracleInv
  <1>1. client \in [Threads -> Part] /\ client' \in [Threads -> Part]
    BY DEF ExchangeTypeOK
  <1>2. client'[j] = x /\ \A k \in Threads \ {j} : client'[k].at = "out"
    BY <1>1, Alone
  <1>3. box \in [O!Numbers -> Directory] /\ box' \in [O!Numbers -> Directory]
    BY DEF ExchangeTypeOK
  <1>4. box'[n] = d /\ \A m \in O!Numbers \ {n} : box'[m] = box[m]
    BY <1>3
  <1>5. ExchangeTypeOK'
    BY <1>1, <1>3 DEF ExchangeTypeOK
  <1>6. clientLock = j
    BY DEF OneInside
  <1>7. OneInside'
    BY <1>2, <1>4, <1>6 DEF OneInside
  <1>8. AnsweredOnce'
    BY <1>4 DEF AnsweredOnce
  <1>9. InService'
    BY <1>4 DEF InService
  <1>10. n \notin noted /\ (at \in {"mark", "note"} => number # n)
    BY DEF SavedSoFar, AnsweredOnce
  <1>11. noted \subseteq O!Numbers
    BY DEF ExchangeTypeOK
  <1>12. SavedSoFar'
    BY <1>4, <1>10, <1>11 DEF SavedSoFar
  <1>13. ClosedWell'
    BY DEF ClosedWell
  <1> QED
    BY <1>5, <1>7, <1>8, <1>9, <1>12, <1>13

\* What is made stays made, in the order of the numbers.
LEMMA DirectoriesGrow ==
  ASSUME OracleInv, NEW n \in O!Numbers, NEW d \in Directory, box' = [box EXCEPT ![n] = d],
         d.request # "none", n \in O!Made \/ \A k \in 0..MaxNumber : O!Made = 1..k => n = k + 1
  PROVE  InOrder'
  <1> USE DEF OracleInv
  <1>1. box \in [O!Numbers -> Directory]
    BY DEF ExchangeTypeOK
  <1>2. O!Made' = O!Made \cup {n}
    BY <1>1 DEF O!Made
  <1>3. PICK k \in 0..MaxNumber : O!Made = 1..k
    BY DEF InOrder
  <1>4. CASE n \in O!Made
    BY <1>2, <1>3, <1>4 DEF InOrder
  <1>5. CASE n = k + 1
    <2>1. 1..k \cup {n} = 1..n /\ n \in 0..MaxNumber
      BY <1>5, EndingsAssumption DEF O!Numbers
    <2> QED
      BY <1>2, <1>3, <2>1 DEF InOrder
  <1> QED
    BY <1>3, <1>4, <1>5

\* The steps of the threads of the oracle.
LEMMA ClientGoesOn ==
  ASSUME OracleInv, NEW j \in Threads,
         \/ O!Lock(j) \/ O!NextDirectory(j) \/ O!WriteRequest(j) \/ O!MarkRequest(j)
         \/ O!TakeResponse(j) \/ O!GiveUp(j)
  PROVE  OracleInv'
  <1> DEFINE Rests == UNCHANGED <<at, number, seen, noted, errors, told>>
  <1>0. Rests
    BY DEF O!Lock, O!NextDirectory, O!WriteRequest, O!MarkRequest, O!TakeResponse, O!GiveUp,
           O!supervisor
  <1>1. /\ client \in [Threads -> Part] /\ client[j] \in Part
        /\ box \in [O!Numbers -> Directory]
    BY DEF OracleInv, ExchangeTypeOK
  <1>2. CASE O!Lock(j)
    <2>1. PICK id \in Ids : client' = [client EXCEPT ![j] = [O!Resting EXCEPT !.at = "next", !.id = id]]
      BY <1>2 DEF O!Lock
    <2> DEFINE x == [O!Resting EXCEPT !.at = "next", !.id = id]
    <2>5. O!Resting \in Part /\ id \in Known
      BY EndingsAssumption DEF O!Resting, Part, Known, O!NoId
    <2>2. x \in Part /\ x.at = "next"
      BY <2>5 DEF Part
    <2>3. clientLock = O!Nobody /\ clientLock' = j /\ UNCHANGED <<box, oracle>>
      BY <1>2 DEF O!Lock
    <2>4. client' = [client EXCEPT ![j] = x]
      BY <2>1
    <2> HIDE DEF x
    <2> QED
      BY <1>0, <2>2, <2>3, <2>4, ThreadGoesOn
  <1>3. CASE O!NextDirectory(j)
    <2> DEFINE n == CHOOSE m \in O!Numbers \ O!Made : \A k \in 1..(m - 1) : k \in O!Made
               d == [O!Empty EXCEPT !.request = "made"]
               x == [client[j] EXCEPT !.at = "write", !.n = n]
    <2>1. /\ oracle = "live" /\ client[j].at = "next" /\ O!Made # O!Numbers
          /\ box' = [box EXCEPT ![n] = d]
          /\ client' = [client EXCEPT ![j].at = "write", ![j].n = n]
          /\ UNCHANGED <<clientLock, oracle>>
      BY <1>3 DEF O!NextDirectory, O!Live
    <2>2. PICK k \in 0..MaxNumber : O!Made = 1..k
      BY DEF OracleInv, InOrder
    <2>3. n = k + 1 /\ n \in O!Numbers /\ n \notin O!Made
      <3>1. k + 1 \in O!Numbers
        BY <2>1, <2>2, EndingsAssumption DEF O!Numbers
      <3>2. k + 1 \in O!Numbers \ O!Made /\ \A i \in 1..((k + 1) - 1) : i \in O!Made
        BY <2>2, <3>1
      <3>3. n \in O!Numbers \ O!Made /\ \A i \in 1..(n - 1) : i \in O!Made
        BY <3>2
      <3>4. n \in Nat /\ n > k /\ ~(n > k + 1)
        BY <2>2, <3>2, <3>3, EndingsAssumption DEF O!Numbers
      <3> QED
        BY <3>3, <3>4, <2>2
    <2>4. d \in Directory /\ d.request = "made" /\ d.response = "none"
      BY DEF O!Empty, Directory, Known, O!NoId
    <2> HIDE DEF n
    <2>10. n \in 0..MaxNumber
      BY <2>3, EndingsAssumption DEF O!Numbers
    <2>5. x \in Part /\ x.at = "write" /\ x.n = n
      BY <1>1, <2>10 DEF Part
    <2>6. client' = [client EXCEPT ![j] = x]
      BY <1>1, <2>1 DEF Part
    <2> HIDE DEF d, x
    <2>7. \A i \in 0..MaxNumber : O!Made = 1..i => n = i + 1
      <3> SUFFICES ASSUME NEW i \in 0..MaxNumber, 1..k = 1..i PROVE i = k
        BY <2>2, <2>3
      <3> QED
        BY EndingsAssumption
    <2>8. InOrder'
      BY <2>1, <2>3, <2>4, <2>7, DirectoriesGrow
    <2>9. box[n].request # "ready"
      BY <2>3 DEF O!Made
    <2> QED
      BY <1>0, <2>1, <2>3, <2>4, <2>5, <2>6, <2>8, <2>9, ThreadWrites
  <1>4. CASE O!WriteRequest(j)
    <2> DEFINE n == client[j].n
               d == [box[n] EXCEPT !.request = "json", !.id = client[j].id]
               x == [client[j] EXCEPT !.at = "mark"]
    <2>1. /\ oracle = "live" /\ client[j].at = "write"
          /\ box' = [box EXCEPT ![n].request = "json", ![n].id = client[j].id]
          /\ client' = [client EXCEPT ![j].at = "mark"]
          /\ UNCHANGED <<clientLock, oracle>>
      BY <1>4 DEF O!WriteRequest, O!Live
    <2>2. n \in O!Numbers /\ box[n].request = "made" /\ box[n].response = "none"
      BY <2>1 DEF OracleInv, OneInside, AnsweredOnce
    <2>3. box[n] \in Directory
      BY <1>1, <2>2
    <2>4. d \in Directory /\ d.request = "json" /\ d.response = "none"
      BY <1>1, <2>2, <2>3 DEF Directory, Part
    <2>5. x \in Part /\ x.at = "mark" /\ x.n = n
      BY <1>1 DEF Part
    <2>6. client' = [client EXCEPT ![j] = x]
      BY <1>1, <2>1 DEF Part
    <2>7. box' = [box EXCEPT ![n] = d]
      BY <1>1, <2>1, <2>2, <2>3 DEF Directory
    <2>8. n \in O!Made
      BY <2>2 DEF O!Made
    <2> HIDE DEF n, d, x
    <2>9. InOrder'
      BY <2>2, <2>4, <2>7, <2>8, DirectoriesGrow
    <2>10. /\ oracle = "live" /\ client[j].at # "out" /\ UNCHANGED <<clientLock, oracle>>
           /\ n \in O!Numbers /\ box[n].request # "ready"
      BY <2>1, <2>2
    <2>11. (x.at = "write" => d.request = "made") /\ (x.at = "mark" => d.request = "json")
      BY <2>4, <2>5
    <2> QED
      BY <1>0, <2>4, <2>5, <2>6, <2>7, <2>9, <2>10, <2>11, ThreadWrites
  <1>5. CASE O!MarkRequest(j)
    <2> DEFINE n == client[j].n
               d == [box[n] EXCEPT !.request = "ready"]
               x == [client[j] EXCEPT !.at = "wait"]
    <2>1. /\ oracle = "live" /\ client[j].at = "mark"
          /\ box' = [box EXCEPT ![n].request = "ready"]
          /\ client' = [client EXCEPT ![j].at = "wait"]
          /\ UNCHANGED <<clientLock, oracle>>
      BY <1>5 DEF O!MarkRequest, O!Live
    <2>2. n \in O!Numbers /\ box[n].request = "json" /\ box[n].response = "none"
      BY <2>1 DEF OracleInv, OneInside, AnsweredOnce
    <2>3. box[n] \in Directory
      BY <1>1, <2>2
    <2>4. d \in Directory /\ d.request = "ready" /\ d.response = "none"
      BY <2>2, <2>3 DEF Directory
    <2>5. x \in Part /\ x.at = "wait" /\ x.n = n
      BY <1>1 DEF Part
    <2>6. client' = [client EXCEPT ![j] = x]
      BY <1>1, <2>1 DEF Part
    <2>7. box' = [box EXCEPT ![n] = d]
      BY <1>1, <2>1, <2>2, <2>3 DEF Directory
    <2>8. n \in O!Made
      BY <2>2 DEF O!Made
    <2> HIDE DEF n, d, x
    <2>9. InOrder'
      BY <2>2, <2>4, <2>7, <2>8, DirectoriesGrow
    <2>10. /\ oracle = "live" /\ client[j].at # "out" /\ UNCHANGED <<clientLock, oracle>>
           /\ n \in O!Numbers /\ box[n].request # "ready"
      BY <2>1, <2>2
    <2>11. (x.at = "write" => d.request = "made") /\ (x.at = "mark" => d.request = "json")
      BY <2>4, <2>5
    <2> QED
      BY <1>0, <2>4, <2>5, <2>6, <2>7, <2>9, <2>10, <2>11, ThreadWrites
  <1>6. ASSUME NEW got \in Known, O!Leaves(j, got), client[j].at # "out", UNCHANGED <<box, oracle>>
        PROVE  OracleInv'
    <2> DEFINE x == [client[j] EXCEPT !.at = "out", !.got = got]
    <2>1. x \in Part /\ x.at = "out"
      BY <1>1 DEF Part
    <2>2. client' = [client EXCEPT ![j] = x]
      BY <1>1, <1>6 DEF O!Leaves, Part
    <2> HIDE DEF x
    <2> QED
      BY <1>0, <1>6, <2>1, <2>2, ThreadGoesOn
  <1>7. CASE O!TakeResponse(j)
    <2> DEFINE got == IF box[client[j].n].says = client[j].id THEN client[j].id ELSE O!NoId
    <2>1. got \in Known
      BY <1>1 DEF Part, Known
    <2>2. O!Leaves(j, got) /\ client[j].at # "out" /\ UNCHANGED <<box, oracle>>
      BY <1>7 DEF O!TakeResponse
    <2> HIDE DEF got
    <2> QED
      BY <1>6, <2>1, <2>2
  <1>8. CASE O!GiveUp(j)
    BY <1>6, <1>8 DEF O!GiveUp, Known
  <1> QED
    BY <1>2, <1>3, <1>4, <1>5, <1>7, <1>8

LEMMA OracleGoesOn ==
  ASSUME OracleInv, O!ExchangeNext
  PROVE  OracleInv'
  <1>1. CASE O!OracleEnds
    <2> USE DEF OracleInv
    <2>1. /\ UNCHANGED <<box, clientLock, at, number, seen, noted, errors, told>>
          /\ oracle = "live" /\ oracle' \in {"passed", "failed"}
          /\ client' = [k \in Threads |-> [client[k] EXCEPT !.at = "out"]]
      BY <1>1 DEF O!OracleEnds, O!mailbox, O!supervisor, O!Live
    <2>2. client' \in [Threads -> Part] /\ \A k \in Threads : client'[k].at = "out"
      <3>1. \A k \in Threads : client[k] \in Part
        BY DEF ExchangeTypeOK
      <3>2. \A k \in Threads : /\ [client[k] EXCEPT !.at = "out"] \in Part
                               /\ [client[k] EXCEPT !.at = "out"].at = "out"
        BY <3>1 DEF Part
      <3> QED
        BY <2>1, <3>2
    <2>3. ExchangeTypeOK'
      BY <2>1, <2>2 DEF ExchangeTypeOK
    <2>4. OneInside'
      BY <2>2 DEF OneInside
    <2>5. O!Made' = O!Made
      BY <2>1 DEF O!Made
    <2>6. AnsweredOnce' /\ InService' /\ InOrder'
      BY <2>1, <2>5 DEF AnsweredOnce, InService, InOrder
    <2>7. SavedSoFar' /\ ClosedWell'
      BY <2>1, <2>5 DEF SavedSoFar, ClosedWell
    <2> QED
      BY <2>3, <2>4, <2>6, <2>7
  <1>2. CASE \/ O!Receive \/ O!RunWorker \/ O!Note \/ O!Close \/ O!Interrupted \/ O!Join
             \/ O!Announce
    BY <1>2, SupervisorGoesOn
  <1>3. CASE O!Publish \/ O!MarkResponse
    BY <1>3, SupervisorWrites
  <1>4. ASSUME NEW j \in Threads,
               \/ O!Lock(j) \/ O!NextDirectory(j) \/ O!WriteRequest(j) \/ O!MarkRequest(j)
               \/ O!TakeResponse(j) \/ O!GiveUp(j)
        PROVE  OracleInv'
    BY <1>4, ClientGoesOn
  <1> QED
    BY <1>1, <1>2, <1>3, <1>4 DEF O!ExchangeNext, O!Supervises

LEMMA OracleIsFaithful == OracleInv => O!ExchangeIsFaithful
  <1> SUFFICES ASSUME OracleInv PROVE O!ExchangeIsFaithful
    OBVIOUS
  <1>1. \A n \in O!Numbers : box[n].response # "none" => box[n].says = box[n].id
    BY DEF OracleInv, AnsweredOnce
  <1>2. \A m, n \in O!Made : m # n /\ box[m].response # "none" /\ box[n].response # "none"
                               => box[m].says # box[n].says
    BY DEF OracleInv, AnsweredOnce, O!Made
  <1>3. at = "done" /\ ~errors => /\ oracle = "passed"
                                  /\ O!Made = noted
                                  /\ \A n \in O!Made : box[n].response = "ready"
    BY DEF OracleInv, ClosedWell, SavedSoFar
  <1> QED
    BY <1>1, <1>2, <1>3 DEF O!ExchangeIsFaithful

-----------------------------------------------------------------------------
(* The behaviours of the four. *)

EndingsInv == /\ which = "child" => ChildInv
              /\ which = "handoff" => GroupInv
              /\ which = "container" => ContainerInv
              /\ which = "oracle" => OracleInv

LEMMA EndingsBegin == AllInit => EndingsInv
  BY ChildBegins, GroupBegins, ContainerBegins, OracleBegins DEF AllInit, EndingsInv

\* What each invariant speaks of is left alone by the steps of the others.
LEMMA ChildRestsOn ==
  ASSUME ChildInv, UNCHANGED <<group, childOnly>> PROVE ChildInv'
  BY DEF ChildInv, group, childOnly, C!GroupTypeOK, C!ChildOutcome, C!Survivors, C!Free, C!Live

LEMMA EndingsGoOn == EndingsInv /\ [AllNext]_all => EndingsInv'
  <1> SUFFICES ASSUME EndingsInv, [AllNext]_all PROVE EndingsInv'
    OBVIOUS
  <1> USE DEF EndingsInv
  <1>1. CASE OfChild /\ C!ChildNext
    BY <1>1, ChildGoesOn DEF OfChild
  <1>2. CASE OfHandoff /\ H!HandoffNext
    BY <1>2, GroupGoesOn DEF OfHandoff
  <1>3. CASE OfContainer /\ D!ContainerNext
    BY <1>3, ContainerGoesOn DEF OfContainer
  <1>4. CASE OfOracle /\ O!ExchangeNext
    BY <1>4, OracleGoesOn DEF OfOracle
  <1>5. CASE OfRecord /\ Next
    BY <1>5 DEF OfRecord
  <1>6. CASE UNCHANGED all
    <2>1. UNCHANGED <<which, group, childOnly, handoffOnly, containerOnly, oracleOnly>>
      BY <1>6 DEF all
    <2>2. which' = which
      BY <2>1
    <2>3. ChildInv => ChildInv'
      BY <2>1, ChildRestsOn
    <2>4. GroupInv => GroupInv'
      BY <2>1 DEF GroupInv, group, handoffOnly, H!GroupTypeOK, H!GroupClosed, Closed, H!Live
    <2>5. ContainerInv => ContainerInv'
      BY <2>1 DEF ContainerInv, containerOnly, D!CleanupIsTrue, D!Exists
    <2>6. OracleInv => OracleInv'
      <3>1. UNCHANGED <<box, clientLock, client, oracle, at, number, seen, noted, errors, told>>
        BY <2>1 DEF oracleOnly
      <3>2. O!Made' = O!Made
        BY <3>1 DEF O!Made
      <3> QED
        BY <3>1, <3>2 DEF OracleInv, ExchangeTypeOK, OneInside, AnsweredOnce, InService, InOrder,
                          SavedSoFar, ClosedWell
    <2> QED
      BY <2>2, <2>3, <2>4, <2>5, <2>6
  <1>7. which = "record" \/ ~(OfRecord /\ Next)
    BY DEF OfRecord
  <1> QED
    BY <1>1, <1>2, <1>3, <1>4, <1>5, <1>6 DEF AllNext

LEMMA EndingsHold == AllSpec => []EndingsInv
  BY EndingsBegin, EndingsGoOn, PTL DEF AllSpec

\* A child that is said to have succeeded did, a group that is said to be gone is gone, a
\* container that is said to be removed is, however the processes fork, the signals are
\* refused and the answers of the daemon are lost (child_process.py:86, processes.py:118,
\* coding_trial_docker.py, run_owned).
THEOREM OutcomesAreHonest == AllSpec => []HonestOutcome
  <1>1. EndingsInv => HonestOutcome
    BY DEF EndingsInv, HonestOutcome, ChildInv, GroupInv, ContainerInv
  <1> QED
    BY <1>1, EndingsHold, PTL

\* A thread of the oracle is answered only what it asked, each request once, and output
\* without errors is complete (coding_trial_assessment_execution.py, _oracle).
THEOREM ExchangeHolds == AllSpec => []ExchangeIsFaithful
  <1>1. EndingsInv => ExchangeIsFaithful
    BY OracleIsFaithful DEF EndingsInv, ExchangeIsFaithful
  <1> QED
    BY <1>1, EndingsHold, PTL

-----------------------------------------------------------------------------
(* The transaction that records a section (SectionRecord). *)

Commands ==
  [pc : {"idle", "recover", "begin", "stage", "staged", "write", "written", "journal", "install",
         "verify", "promote", "replace", "reverify", "commit", "undo", "abort", "unstage", "unlink",
         "restore", "revert", "close", "clean"},
   goal : {"record", "read"}, mode : {"publish", "finish", "resume"},
   after : {"go", "recorded", "failed", "retained"}, base : Entries, cand : Entries]

Typed ==
  /\ root \in Entries /\ finals \subseteq Contents /\ dir \in BOOLEAN /\ linked \in BOOLEAN
  /\ txn = [n \in Names |-> txn[n]] /\ \A n \in Names : txn[n] \in Holds(n)

Counted ==
  /\ proc \in Commands
  /\ answer \in {"none", "recorded", "failed", "unproven", "retained"}
  /\ sound \subseteq {"evidence", "authority"}
  /\ spent \in [faults : 0..MaxFaults, records : 0..MaxRecords, drifts : 0..MaxDrifts]

Bare(ns) == \A n \in Names \ ns : txn[n] = Absent
Stage(c) == txn["pinner.json"] = Pinner(c)

\* A journal that was published: root and stage are those it speaks of.
Published(n) ==
  LET j == txn[n] IN
  /\ j \in Journals /\ j.base # j.cand /\ root \in {j.base, j.cand}
  /\ Stage(j.cand) /\ Bare({n, "pinner.json", "state.json"})

\* What is there without a journal, before one was published or after it was removed.
Loose ==
  \/ Bare({"pinner.tmp"})
  \/ \E c \in Contents \ {root} :
       /\ Stage(c) /\ ~linked
       /\ \/ /\ Bare({"pinner.json", "transaction.write.tmp"})
             /\ txn["transaction.write.tmp"] \in {Absent, Torn, Journal(root, c)}
          \/ /\ Bare({"pinner.json", "transaction.tmp"})
             /\ txn["transaction.tmp"] \in {Absent, Journal(root, c)}
  \/ Bare({"pinner.json"}) /\ Stage(root) /\ root \in finals

\* Whatever is on disk has a shape that a recovery knows, or is stranded.
Disk ==
  /\ ~dir => Bare({})
  /\ linked => \E c \in finals : Stage(c)
  /\ ~Forward \/ ~Back
  /\ Forward => LET j == txn["transaction.json"] IN
       /\ Published("transaction.json")
       /\ txn["state.json"] \in {Absent, Torn, State(j.cand)}
       /\ txn["state.json"] # Absent => root = j.base
       /\ root = j.cand => j.cand \in finals
  /\ Back => LET j == txn["rollback.json"] IN
       /\ Published("rollback.json")
       /\ txn["state.json"] \in {Absent, Torn, State(IF root = j.base THEN j.cand ELSE j.base)}
  /\ ~Forward /\ ~Back => Loose

\* The command publishes a new content, and no journal is there yet.
Private(ns) ==
  /\ Publishing /\ proc.cand \in Contents /\ proc.cand # proc.base
  /\ root = proc.base /\ ~linked /\ Bare(ns)

Doing   == proc.pc \in {"install", "verify", "promote", "replace", "reverify", "commit", "abort"}
Undoing == proc.pc \in {"unstage", "unlink", "restore", "revert", "close"}
Ours    == Journal(proc.base, proc.cand)

\* What a command knows of the disk at each step.
Publication ==
  /\ At("stage")  => Private({"pinner.tmp"}) /\ txn["pinner.tmp"] \in {Absent, Torn}
  /\ At("staged") => Private({"pinner.tmp"}) /\ txn["pinner.tmp"] = Pinner(proc.cand)
  /\ At("write") => /\ Private({"pinner.json", "transaction.write.tmp"}) /\ Stage(proc.cand)
                    /\ txn["transaction.write.tmp"] \in {Absent, Torn}
  /\ At("written") => /\ Private({"pinner.json", "transaction.write.tmp"}) /\ Stage(proc.cand)
                      /\ txn["transaction.write.tmp"] = Ours
  /\ At("journal") => /\ Private({"pinner.json", "transaction.tmp"}) /\ Stage(proc.cand)
                      /\ txn["transaction.tmp"] = Ours
  /\ Doing => txn["transaction.json"] = Ours /\ proc.mode # "resume"
  /\ proc.pc \in {"verify", "promote", "replace"} => root = proc.base /\ proc.cand \in finals
  /\ At("replace") => txn["state.json"] = State(proc.cand)
  /\ proc.pc \in {"reverify", "commit"} => root = proc.cand
  /\ At("undo") => /\ Publishing
                   /\ \/ txn["transaction.json"] = Ours
                      \/ Private(Names \ {"transaction.json", "rollback.json"})

Rollback ==
  /\ Undoing => txn["rollback.json"] = Ours
  /\ At("unlink") => txn["state.json"] \in {Absent, State(proc.base)}
  /\ proc.pc \in {"unlink", "restore", "close"} => (root = proc.base => txn["state.json"] = Absent)
  /\ proc.pc \in {"restore", "revert", "close"} => ~linked
  /\ At("revert") => root = proc.cand /\ txn["state.json"] = State(proc.base)
  /\ At("close") => root = proc.base

Ending ==
  /\ ~At("idle") => (dir <=> ~At("begin"))
  /\ At("clean") => /\ ~Forward /\ ~Back
                    /\ proc.after = "recorded" => root = proc.cand /\ root \in finals
                    /\ proc.after = "failed" => root = proc.base /\ ~linked
  /\ At("idle") => /\ answer = "recorded" => root = proc.cand /\ root \in finals /\ ~Forward /\ ~Back
                   /\ answer = "failed" => root = proc.base /\ ~dir

IInv == Typed /\ Counted /\ Disk /\ Publication /\ Rollback /\ Ending

-----------------------------------------------------------------------------
(* Files and the moves of a command. *)

LEMMA Files ==
  /\ Torn # Absent
  /\ \A c : Pinner(c) \notin {Absent, Torn} /\ Pinner(c).cand = c
  /\ \A old, new : Journal(old, new) \notin {Absent, Torn} /\ Journal(old, new).base = old /\ Journal(old, new).cand = new
  /\ \A c : State(c) \notin {Absent, Torn} /\ State(c).cand = c
  /\ Absent.base = None /\ Absent.cand = None
  BY DEF Absent, Torn, Pinner, Journal, State, File

LEMMA PutAt ==
  ASSUME Typed, NEW n \in Names, NEW file \in Holds(n), Put(n, file)
  PROVE  /\ txn' = [m \in Names |-> txn'[m]] /\ \A m \in Names : txn'[m] \in Holds(m)
         /\ txn'[n] = file /\ \A m \in Names \ {n} : txn'[m] = txn[m]
  BY DEF Typed, Put

LEMMA RenameAt ==
  ASSUME Typed, NEW from \in Names, NEW n \in Names, from # n, txn[from] \in Holds(n), Rename(from, n)
  PROVE  /\ txn' = [m \in Names |-> txn'[m]] /\ \A m \in Names : txn'[m] \in Holds(m)
         /\ txn'[n] = txn[from] /\ txn'[from] = Absent
         /\ \A m \in Names \ {n, from} : txn'[m] = txn[m]
  <1>1. Absent \in Holds(from)
    BY DEF Holds
  <1>. QED BY <1>1 DEF Typed, Rename

\* The request stays; the command is at that place next.
Moved(place) ==
  /\ proc' \in Commands /\ proc'.pc = place /\ proc'.goal = proc.goal /\ proc'.mode = proc.mode
  /\ proc'.base = proc.base /\ proc'.cand = proc.cand

LEMMA Moves ==
  ASSUME proc \in Commands
  PROVE  /\ \A place \in {"begin", "staged", "write", "written", "journal", "install", "verify", "promote", "replace",
                       "reverify", "commit", "undo", "abort", "unstage", "unlink", "restore", "revert", "close"} :
              Goto(place) => Moved(place) /\ proc'.after = proc.after
         /\ \A what \in {"go", "recorded", "failed", "retained"} :
              Clean(what) => Moved("clean") /\ proc'.after = what
         /\ \A reply : Reply(reply) => Moved("idle") /\ proc'.after = proc.after /\ answer' = reply
  <1>1. ASSUME NEW place, proc' = [proc EXCEPT !.pc = place],
               place \in {"idle", "begin", "staged", "write", "written", "journal", "install", "verify", "promote",
                      "replace", "reverify", "commit", "undo", "abort", "unstage", "unlink", "restore",
                      "revert", "close"}
        PROVE  Moved(place) /\ proc'.after = proc.after
    BY <1>1 DEF Moved, Commands
  <1>2. ASSUME NEW what \in {"go", "recorded", "failed", "retained"}, Clean(what)
        PROVE  Moved("clean") /\ proc'.after = what
    BY <1>2 DEF Clean, Moved, Commands
  <1>. QED BY <1>1, <1>2 DEF Goto, Reply

LEMMA Inventories ==
  ASSUME Typed
  PROVE  /\ \A ns : Inventory \subseteq ns <=> Bare(ns)
         /\ Discardable <=> Loose
  <1>1. \A ns : Inventory \subseteq ns <=> Bare(ns)
    BY DEF Inventory, Bare
  <1>2. Discardable => Loose
    <2>. SUFFICES ASSUME Discardable PROVE Loose
      OBVIOUS
    <2>1. CASE Inventory \subseteq {"pinner.tmp"}
      BY <1>1, <2>1 DEF Loose
    <2>2. ASSUME BaseStage
          PROVE  \E c \in Contents \ {root} : Stage(c) /\ ~linked /\ txn["pinner.json"].cand = c
      BY <2>2, Files DEF BaseStage, Staged, Stage
    <2>3. CASE /\ Inventory = {"pinner.json", "transaction.write.tmp"} /\ BaseStage
               /\ txn["transaction.write.tmp"] \in {Torn, Journal(root, txn["pinner.json"].cand)}
      BY <1>1, <2>2, <2>3 DEF Loose
    <2>4. CASE /\ Inventory = {"pinner.json", "transaction.tmp"} /\ BaseStage
               /\ txn["transaction.tmp"] = Journal(root, txn["pinner.json"].cand)
      BY <1>1, <2>2, <2>4 DEF Loose
    <2>5. CASE Inventory = {"pinner.json"} /\ BaseStage
      <3>1. Bare({"pinner.json", "transaction.tmp"}) /\ txn["transaction.tmp"] = Absent
        BY <1>1, <2>5 DEF Inventory, Names
      <3>. QED BY <2>2, <2>5, <3>1 DEF Loose
    <2>6. CASE Inventory = {"pinner.json"} /\ Staged(root) /\ root \in finals
      BY <1>1, <2>6 DEF Loose, Staged, Stage
    <2>. QED BY <2>1, <2>3, <2>4, <2>5, <2>6 DEF Discardable
  <1>3. Loose => Discardable
    <2>1. CASE Bare({"pinner.tmp"})
      BY <1>1, <2>1 DEF Discardable
    <2>2. CASE Bare({"pinner.json"}) /\ Stage(root) /\ root \in finals
      <3>1. Inventory = {"pinner.json"}
        BY <2>2, Files DEF Bare, Inventory, Names, Stage
      <3>. QED BY <2>2, <3>1 DEF Discardable, Staged, Stage
    <2>3. ASSUME NEW c \in Contents \ {root}, Stage(c), ~linked,
                 \/ /\ Bare({"pinner.json", "transaction.write.tmp"})
                    /\ txn["transaction.write.tmp"] \in {Absent, Torn, Journal(root, c)}
                 \/ /\ Bare({"pinner.json", "transaction.tmp"})
                    /\ txn["transaction.tmp"] \in {Absent, Journal(root, c)}
          PROVE  Discardable
      <3>1. BaseStage /\ txn["pinner.json"].cand = c /\ txn["pinner.json"] # Absent
        BY <2>3, Files DEF BaseStage, Staged, Stage
      <3>2. CASE Bare({"pinner.json"})
        <4>1. Inventory = {"pinner.json"}
          BY <3>1, <3>2 DEF Bare, Inventory, Names
        <4>. QED BY <3>1, <4>1 DEF Discardable
      <3>3. CASE /\ Bare({"pinner.json", "transaction.write.tmp"})
                 /\ txn["transaction.write.tmp"] \in {Torn, Journal(root, c)}
        <4>1. Inventory = {"pinner.json", "transaction.write.tmp"}
          BY <3>1, <3>3, Files DEF Bare, Inventory, Names
        <4>. QED BY <3>1, <3>3, <4>1 DEF Discardable
      <3>4. CASE /\ Bare({"pinner.json", "transaction.tmp"})
                 /\ txn["transaction.tmp"] = Journal(root, c)
        <4>1. Inventory = {"pinner.json", "transaction.tmp"}
          BY <3>1, <3>4, Files DEF Bare, Inventory, Names
        <4>. QED BY <3>1, <3>4, <4>1 DEF Discardable
      <3>. QED BY <2>3, <3>2, <3>3, <3>4 DEF Bare
    <2>. QED BY <2>1, <2>2, <2>3 DEF Loose
  <1>. QED BY <1>1, <1>2, <1>3

LEMMA InitInv == Init => IInv
  <1>. SUFFICES ASSUME Init PROVE IInv
    OBVIOUS
  <1>. USE DEF Init
  <1>1. Typed
    BY DEF Typed, Entries, Holds, Names
  <1>2. Counted
    BY RecordAssumption DEF Counted, Commands, Entries, RecordAssumption
  <1>3. Bare({}) /\ ~Forward /\ ~Back
    BY DEF Bare, Forward, Back, Names
  <1>4. Disk
    BY <1>3 DEF Disk, Loose, Bare
  <1>5. Publication /\ Rollback /\ Ending
    BY <1>3 DEF Publication, Rollback, Ending, At, Doing, Undoing
  <1>. QED BY <1>1, <1>2, <1>4, <1>5 DEF IInv

-----------------------------------------------------------------------------
(* Steps that leave the files alone. *)

LEMMA SameFiles ==
  ASSUME IInv, UNCHANGED files
  PROVE  Typed' /\ Disk'
  BY DEF IInv, files, Typed, Disk, Published, Bare, Loose, Stage, Forward, Back

LEMMA Asks ==
  ASSUME IInv, NEW goal \in {"record", "read"}, Open(goal)
  PROVE  IInv'
  <1>1. /\ proc \in Commands /\ UNCHANGED <<files, sound, spent>> /\ answer' = "none"
        /\ proc' = [proc EXCEPT !.pc = IF dir THEN "recover" ELSE "begin", !.goal = goal]
    BY DEF IInv, Counted, Open
  <1>2. proc' \in Commands /\ proc'.pc = (IF dir THEN "recover" ELSE "begin")
    BY <1>1 DEF Commands
  <1>3. Typed' /\ Disk'
    BY <1>1, SameFiles
  <1>4. Counted'
    BY <1>1, <1>2 DEF IInv, Counted
  <1>5. Publication' /\ Rollback' /\ Ending'
    BY <1>1, <1>2 DEF Publication, Rollback, Ending, At, Doing, Undoing, files
  <1>. QED BY <1>3, <1>4, <1>5 DEF IInv

\* A command that ends without a claim leaves the files as they are.
LEMMA Ends ==
  ASSUME IInv, UNCHANGED <<files, sound>>, Reply("unproven") \/ Reply("none"),
         spent' \in [faults : 0..MaxFaults, records : 0..MaxRecords, drifts : 0..MaxDrifts]
  PROVE  IInv'
  <1>1. Moved("idle") /\ answer' \in {"unproven", "none"}
    BY Moves DEF IInv, Counted
  <1>2. Typed' /\ Disk'
    BY SameFiles
  <1>3. Counted'
    BY <1>1 DEF IInv, Counted, Moved
  <1>4. Publication' /\ Rollback' /\ Ending'
    BY <1>1 DEF Publication, Rollback, Ending, At, Doing, Undoing, Moved
  <1>. QED BY <1>2, <1>3, <1>4 DEF IInv

LEMMA Faulted ==
  ASSUME Counted, spent.faults < MaxFaults, spent' = [spent EXCEPT !.faults = @ + 1]
  PROVE  spent' \in [faults : 0..MaxFaults, records : 0..MaxRecords, drifts : 0..MaxDrifts]
  <1>1. MaxFaults \in Nat /\ spent \in [faults : 0..MaxFaults, records : 0..MaxRecords, drifts : 0..MaxDrifts]
    BY RecordAssumption DEF RecordAssumption, Counted
  <1>2. spent.faults + 1 \in 0..MaxFaults
    BY <1>1
  <1>. QED BY <1>1, <1>2

LEMMA Recovers ==
  ASSUME IInv, Recover
  PROVE  IInv'
  <1>0. proc \in Commands /\ UNCHANGED <<files, sound, spent>> /\ Typed /\ Disk /\ At("recover") /\ dir
    BY DEF IInv, Counted, Recover, Ending, At
  <1>1. CASE Reply("unproven")
    BY <1>0, <1>1, Ends DEF IInv, Counted
  <1>2. CASE Accepts /\ answer' = answer /\ ~Reply("unproven")
    <2>. DEFINE j == IF Back THEN txn["rollback.json"] ELSE txn["transaction.json"]
    <2>1. proc' = [proc EXCEPT !.pc = Entry, !.after = "go", !.base = j.base, !.cand = j.cand,
                               !.mode = IF Back THEN "resume" ELSE "finish"]
      BY <1>2 DEF Recover
    <2>2. j.base \in Entries /\ j.cand \in Entries
      <3>1. CASE Back \/ Forward
        BY <1>0, <3>1, Files DEF Disk, Published, Journals, Entries
      <3>2. CASE ~Back /\ ~Forward
        BY <3>2, Files DEF Forward, Entries
      <3>. QED BY <3>1, <3>2
    <2>3. /\ proc' \in Commands /\ proc'.pc = Entry /\ proc'.after = "go" /\ proc'.base = j.base
          /\ proc'.cand = j.cand /\ proc'.mode = (IF Back THEN "resume" ELSE "finish")
      <3>. HIDE DEF j
      <3>. QED BY <1>0, <2>1, <2>2 DEF Commands, Entry
    <2>4. Typed' /\ Disk'
      BY <1>0, SameFiles
    <2>5. Counted'
      BY <1>0, <1>2, <2>3 DEF IInv, Counted
    <2>6. CASE Back
      <3>1. /\ proc'.pc = "unlink" /\ txn["rollback.json"] = Journal(proc'.base, proc'.cand)
        BY <1>0, <2>3, <2>6, Files DEF Entry, Disk, Published, Journals
      <3>2. txn["state.json"] # Absent => root = proc'.cand /\ txn["state.json"] = State(proc'.base)
        BY <1>2, <2>3, <2>6 DEF Accepts, Resumable
      <3>3. proc'.base # proc'.cand
        BY <1>0, <2>3, <2>6 DEF Disk, Published
      <3>. QED BY <1>0, <2>4, <2>5, <3>1, <3>2, <3>3
               DEF IInv, Publication, Rollback, Ending, At, Doing, Undoing, Ours, files
    <2>7. CASE ~Back /\ Forward
      <3>1. /\ proc'.pc = "install" /\ txn["transaction.json"] = Journal(proc'.base, proc'.cand)
            /\ proc'.mode = "finish"
        BY <1>0, <2>3, <2>7, Files DEF Entry, Disk, Published, Journals
      <3>. QED BY <1>0, <2>4, <2>5, <3>1
               DEF IInv, Publication, Rollback, Ending, At, Doing, Undoing, Ours, files
    <2>8. CASE ~Back /\ ~Forward
      <3>1. proc'.pc = "clean"
        BY <2>3, <2>8 DEF Entry
      <3>. QED BY <1>0, <2>3, <2>4, <2>5, <2>8, <3>1
               DEF IInv, Publication, Rollback, Ending, At, Doing, Undoing, files, Forward, Back
    <2>. QED BY <2>6, <2>7, <2>8
  <1>. QED BY <1>1, <1>2 DEF Recover

-----------------------------------------------------------------------------
(* Publication. *)

LEMMA Filled ==
  ASSUME Typed, proc \in Commands, NEW n \in {"pinner.tmp", "transaction.write.tmp", "state.json"},
         NEW file \in Holds(n), NEW next \in {"staged", "written", "replace", "revert"}, Fill(n, file, next)
  PROVE  /\ txn' = [m \in Names |-> txn'[m]] /\ \A m \in Names : txn'[m] \in Holds(m)
         /\ \A m \in Names \ {n} : txn'[m] = txn[m]
         /\ txn[n] \in {Torn, Absent}
         /\ \/ txn'[n] = Torn /\ proc' = proc
            \/ txn'[n] = file /\ Moved(next) /\ proc'.after = proc.after
  <1>1. n \in Names /\ Torn \in Holds(n)
    BY DEF Names, Holds
  <1>2. CASE txn[n] = Absent /\ Put(n, Torn) /\ proc' = proc
    BY <1>1, <1>2, PutAt
  <1>3. CASE txn[n] \in {Torn, Absent} /\ Put(n, file) /\ Goto(next)
    BY <1>1, <1>3, PutAt, Moves
  <1>. QED BY <1>2, <1>3 DEF Fill

LEMMA Begins ==
  ASSUME IInv, NEW c \in Contents, Begin(c)
  PROVE  IInv'
  <1>0. /\ proc \in Commands /\ Typed /\ Disk /\ ~dir /\ At("begin")
        /\ spent \in [faults : 0..MaxFaults, records : 0..MaxRecords, drifts : 0..MaxDrifts]
        /\ MaxRecords \in Nat
    BY RecordAssumption DEF RecordAssumption, IInv, Counted, Begin, Ending, At
  <1>1. /\ dir' = TRUE /\ UNCHANGED <<root, finals, txn, linked, answer, sound>> /\ c # root
        /\ proc' = [proc EXCEPT !.pc = "stage", !.mode = "publish", !.base = root, !.cand = c]
        /\ spent.records < MaxRecords /\ spent' = [spent EXCEPT !.records = @ + 1]
    BY DEF Begin
  <1>2. /\ proc' \in Commands /\ proc'.pc = "stage" /\ proc'.mode = "publish"
        /\ proc'.base = root /\ proc'.cand = c
    BY <1>0, <1>1 DEF Commands, Typed, Entries
  <1>3. spent' \in [faults : 0..MaxFaults, records : 0..MaxRecords, drifts : 0..MaxDrifts]
    <2>1. spent.records + 1 \in 0..MaxRecords
      BY <1>0, <1>1
    <2>. QED BY <1>0, <1>1, <2>1
  <1>4. Bare({}) /\ ~linked /\ ~Forward /\ ~Back
    BY <1>0, Files DEF Disk, Bare, Names, Forward, Back, Stage
  <1>5. Typed' /\ Counted'
    BY <1>0, <1>1, <1>2, <1>3 DEF IInv, Typed, Counted
  <1>6. Disk'
    BY <1>1, <1>4 DEF Disk, Loose, Bare, Forward, Back
  <1>7. Publication' /\ Rollback' /\ Ending'
    BY <1>1, <1>2, <1>4 DEF Publication, Rollback, Ending, At, Doing, Undoing, Private, Publishing, Bare, Names
  <1>. QED BY <1>5, <1>6, <1>7 DEF IInv

LEMMA StagesPinner ==
  ASSUME IInv, StagePinner
  PROVE  IInv'
  <1>0. /\ proc \in Commands /\ Typed /\ Disk /\ dir /\ Publication
        /\ UNCHANGED <<root, finals, dir, linked, answer, sound, spent>>
    BY DEF IInv, Counted, StagePinner, Ending, At
  <1>1. CASE At("stage") /\ Fill("pinner.tmp", Pinner(proc.cand), "staged")
    <2>1. Private({"pinner.tmp"}) /\ Pinner(proc.cand) \in Holds("pinner.tmp")
      BY <1>0, <1>1 DEF Publication, Private, Holds
    <2>2. /\ Bare({"pinner.tmp"})' /\ txn' = [m \in Names |-> txn'[m]] /\ \A m \in Names : txn'[m] \in Holds(m)
          /\ \/ txn'["pinner.tmp"] = Torn /\ proc' = proc
             \/ txn'["pinner.tmp"] = Pinner(proc.cand) /\ Moved("staged") /\ proc'.after = proc.after
      BY <1>0, <1>1, <2>1, Filled DEF Bare, Private
    <2>3. ~Forward' /\ ~Back'
      BY <2>2 DEF Bare, Names, Forward, Back
    <2>4. Disk' /\ Typed' /\ Counted'
      BY <1>0, <2>1, <2>2, <2>3 DEF IInv, Disk, Loose, Typed, Counted, Moved, Private
    <2>5. Publication' /\ Rollback' /\ Ending'
      BY <1>0, <1>1, <2>1, <2>2 DEF Publication, Rollback, Ending, At, Doing, Undoing, Private, Publishing, Moved
    <2>. QED BY <2>4, <2>5 DEF IInv
  <1>2. CASE At("staged") /\ Rename("pinner.tmp", "pinner.json") /\ Goto("write")
    <2>1. Private({"pinner.tmp"}) /\ txn["pinner.tmp"] = Pinner(proc.cand)
          /\ Pinner(proc.cand) \in Holds("pinner.json")
      BY <1>0, <1>2 DEF Publication, Private, Holds
    <2>2. /\ txn' = [m \in Names |-> txn'[m]] /\ \A m \in Names : txn'[m] \in Holds(m)
          /\ txn'["pinner.json"] = Pinner(proc.cand) /\ txn'["pinner.tmp"] = Absent
          /\ \A m \in Names \ {"pinner.json", "pinner.tmp"} : txn'[m] = txn[m]
      BY <1>0, <1>2, <2>1, RenameAt DEF Names
    <2>3. Moved("write") /\ proc'.after = proc.after
      BY <1>0, <1>2, Moves
    <2>4. /\ Bare({"pinner.json"})' /\ Bare({"pinner.json", "transaction.write.tmp"})'
          /\ txn'["transaction.write.tmp"] = Absent /\ ~Forward' /\ ~Back' /\ Stage(proc.cand)'
      BY <2>1, <2>2, <2>3 DEF Private, Bare, Names, Forward, Back, Stage, Moved
    <2>5. Disk' /\ Typed' /\ Counted'
      BY <1>0, <2>1, <2>2, <2>3, <2>4 DEF IInv, Disk, Loose, Typed, Counted, Moved, Private, Stage
    <2>6. Publication' /\ Rollback' /\ Ending'
      BY <1>0, <2>1, <2>3, <2>4 DEF Publication, Rollback, Ending, At, Doing, Undoing, Private, Publishing, Moved
    <2>. QED BY <2>5, <2>6 DEF IInv
  <1>. QED BY <1>1, <1>2 DEF StagePinner

LEMMA PublishesJournal ==
  ASSUME IInv, PublishJournal
  PROVE  IInv'
  <1>0. /\ proc \in Commands /\ Typed /\ Disk /\ dir /\ Publication
        /\ UNCHANGED <<root, finals, dir, linked, answer, sound, spent>>
    BY DEF IInv, Counted, PublishJournal, Ending, At
  <1>. PICK c : c = proc.cand
    OBVIOUS
  <1>1. CASE At("write") /\ Fill("transaction.write.tmp", Journal(proc.base, proc.cand), "written")
    <2>1. /\ Private({"pinner.json", "transaction.write.tmp"}) /\ Stage(c) /\ c \in Contents /\ c # root
          /\ Ours \in Holds("transaction.write.tmp") /\ Ours = Journal(root, c)
      BY <1>0, <1>1 DEF Publication, Private, Holds, Journals, Ours, Commands
    <2>2. /\ txn' = [m \in Names |-> txn'[m]] /\ \A m \in Names : txn'[m] \in Holds(m)
          /\ \A m \in Names \ {"transaction.write.tmp"} : txn'[m] = txn[m]
          /\ \/ txn'["transaction.write.tmp"] = Torn /\ proc' = proc
             \/ txn'["transaction.write.tmp"] = Ours /\ Moved("written") /\ proc'.after = proc.after
      BY <1>0, <1>1, <2>1, Filled DEF Ours
    <2>3. Bare({"pinner.json", "transaction.write.tmp"})' /\ Stage(c)'
      BY <2>1, <2>2 DEF Bare, Private, Names, Stage
    <2>4. Typed' /\ Counted'
      BY <1>0, <2>2 DEF IInv, Typed, Counted, Moved
    <2>5. Disk'
      <3>1. ~Forward' /\ ~Back'
        BY <2>3 DEF Bare, Names, Forward, Back
      <3>2. Loose'
        BY <1>0, <2>1, <2>2, <2>3 DEF Loose, Private
      <3>. QED BY <1>0, <2>1, <3>1, <3>2 DEF Disk, Private
    <2>6. Publication' /\ Rollback' /\ Ending'
      BY <1>0, <1>1, <2>1, <2>2, <2>3
         DEF Publication, Rollback, Ending, At, Doing, Undoing, Private, Publishing, Moved, Ours
    <2>. QED BY <2>4, <2>5, <2>6 DEF IInv
  <1>2. CASE At("written") /\ Rename("transaction.write.tmp", "transaction.tmp") /\ Goto("journal")
    <2>1. /\ Private({"pinner.json", "transaction.write.tmp"}) /\ Stage(c) /\ c \in Contents /\ c # root
          /\ txn["transaction.write.tmp"] = Ours
          /\ Ours \in Holds("transaction.tmp") /\ Ours = Journal(root, c)
      BY <1>0, <1>2 DEF Publication, Private, Holds, Journals, Ours, Commands
    <2>2. /\ txn' = [m \in Names |-> txn'[m]] /\ \A m \in Names : txn'[m] \in Holds(m)
          /\ txn'["transaction.tmp"] = Ours /\ txn'["transaction.write.tmp"] = Absent
          /\ \A m \in Names \ {"transaction.tmp", "transaction.write.tmp"} : txn'[m] = txn[m]
      BY <1>0, <1>2, <2>1, RenameAt DEF Names
    <2>3. Moved("journal") /\ proc'.after = proc.after
      BY <1>0, <1>2, Moves
    <2>4. Bare({"pinner.json", "transaction.tmp"})' /\ Stage(c)'
      BY <2>1, <2>2 DEF Bare, Private, Names, Stage
    <2>5. Typed' /\ Counted'
      BY <1>0, <2>2, <2>3 DEF IInv, Typed, Counted, Moved
    <2>6. Disk'
      <3>1. ~Forward' /\ ~Back'
        BY <2>4 DEF Bare, Names, Forward, Back
      <3>2. Loose'
        BY <1>0, <2>1, <2>2, <2>4 DEF Loose, Private
      <3>. QED BY <1>0, <2>1, <3>1, <3>2 DEF Disk, Private
    <2>7. Publication' /\ Rollback' /\ Ending'
      BY <1>0, <2>1, <2>2, <2>3, <2>4
         DEF Publication, Rollback, Ending, At, Doing, Undoing, Private, Publishing, Moved, Ours
    <2>. QED BY <2>5, <2>6, <2>7 DEF IInv
  <1>3. CASE At("journal") /\ Rename("transaction.tmp", "transaction.json") /\ Goto("install")
    <2>1. /\ Private({"pinner.json", "transaction.tmp"}) /\ Stage(c) /\ c \in Contents /\ c # root
          /\ txn["transaction.tmp"] = Ours /\ Ours \in Journals
          /\ Ours \in Holds("transaction.json") /\ Ours = Journal(root, c)
      BY <1>0, <1>3 DEF Publication, Private, Holds, Journals, Ours, Commands
    <2>2. /\ txn' = [m \in Names |-> txn'[m]] /\ \A m \in Names : txn'[m] \in Holds(m)
          /\ txn'["transaction.json"] = Ours /\ txn'["transaction.tmp"] = Absent
          /\ \A m \in Names \ {"transaction.json", "transaction.tmp"} : txn'[m] = txn[m]
      BY <1>0, <1>3, <2>1, RenameAt DEF Names
    <2>3. Moved("install") /\ proc'.after = proc.after
      BY <1>0, <1>3, Moves
    <2>4. /\ Bare({"pinner.json", "transaction.json"})' /\ Stage(c)' /\ txn'["state.json"] = Absent
          /\ Forward' /\ ~Back'
      BY <2>1, <2>2, Files DEF Bare, Private, Names, Stage, Forward, Back, Ours
    <2>5. Typed' /\ Counted'
      BY <1>0, <2>2, <2>3 DEF IInv, Typed, Counted, Moved
    <2>6. Disk'
      BY <1>0, <2>1, <2>2, <2>4, Files DEF Disk, Published, Bare, Private, Ours
    <2>7. Publication' /\ Rollback' /\ Ending'
      BY <1>0, <2>1, <2>2, <2>3
         DEF Publication, Rollback, Ending, At, Doing, Undoing, Private, Publishing, Moved, Ours
    <2>. QED BY <2>5, <2>6, <2>7 DEF IInv
  <1>. QED BY <1>1, <1>2, <1>3 DEF PublishJournal

\* What a command knows of the journal it published or found.
LEMMA Owned ==
  ASSUME IInv
  PROVE  /\ Doing => /\ Forward /\ ~Back /\ txn["transaction.json"].base = proc.base
                     /\ txn["transaction.json"].cand = proc.cand /\ Published("transaction.json")
         /\ Undoing => /\ Back /\ ~Forward /\ txn["rollback.json"].base = proc.base
                       /\ txn["rollback.json"].cand = proc.cand /\ Published("rollback.json")
         /\ Doing \/ Undoing => proc.cand \in Contents /\ proc.base \in Entries /\ proc.base # proc.cand
                                /\ Stage(proc.cand) /\ root \in {proc.base, proc.cand} /\ dir
  <1>1. /\ Doing => txn["transaction.json"] = Ours
        /\ Undoing => txn["rollback.json"] = Ours
        /\ Disk /\ (Doing \/ Undoing => dir)
    BY DEF IInv, Publication, Rollback, Ending, Doing, Undoing, At
  <1>2. Ours # Absent /\ Ours.base = proc.base /\ Ours.cand = proc.cand
    BY Files DEF Ours
  <1>3. Doing => Forward /\ ~Back /\ Published("transaction.json")
    BY <1>1, <1>2 DEF Disk, Forward
  <1>4. Undoing => Back /\ ~Forward /\ Published("rollback.json")
    BY <1>1, <1>2 DEF Disk, Back
  <1>5. \A j \in Journals : j.cand \in Contents /\ j.base \in Entries
    BY Files DEF Journals
  <1>. QED BY <1>1, <1>2, <1>3, <1>4, <1>5 DEF Published

LEMMA Installs ==
  ASSUME IInv, Install
  PROVE  IInv'
  <1>0. /\ proc \in Commands /\ Typed /\ Disk /\ dir /\ At("install") /\ Doing
        /\ UNCHANGED <<root, dir, txn, answer, sound, spent>>
        /\ linked' = (linked \/ proc.cand \notin finals) /\ finals' = finals \cup {proc.cand}
        /\ Goto(IF root = proc.cand THEN "reverify" ELSE "verify")
    BY DEF IInv, Counted, Install, Ending, At, Doing
  <1>1. /\ Forward /\ ~Back /\ txn["transaction.json"] = Ours /\ Ours.base = proc.base /\ Ours.cand = proc.cand
        /\ Published("transaction.json") /\ proc.mode # "resume"
        /\ proc.cand \in Contents /\ proc.base # proc.cand /\ Stage(proc.cand) /\ root \in {proc.base, proc.cand}
    BY <1>0, Owned, Files DEF IInv, Publication, Ours
  <1>2. Moved(IF root = proc.cand THEN "reverify" ELSE "verify") /\ proc'.after = proc.after
    BY <1>0, Moves
  <1>3. Typed' /\ Counted'
    BY <1>0, <1>1, <1>2 DEF IInv, Typed, Counted, Moved
  <1>4. linked => proc.cand \in finals
    BY <1>0, <1>1, Files DEF Disk, Stage
  <1>5. Disk'
    <2>1. Forward' /\ ~Back' /\ Published("transaction.json")'
      BY <1>0, <1>1 DEF Forward, Back, Published, Stage, Bare
    <2>2. \E c \in finals' : Stage(c)'
      BY <1>0, <1>1 DEF Stage
    <2>. QED BY <1>0, <1>1, <2>1, <2>2 DEF Disk
  <1>6. Publication' /\ Rollback' /\ Ending'
    BY <1>0, <1>1, <1>2
       DEF Publication, Rollback, Ending, At, Doing, Undoing, Private, Publishing, Moved, Ours
  <1>. QED BY <1>3, <1>5, <1>6 DEF IInv

LEMMA Verifies ==
  ASSUME IInv, Verify
  PROVE  IInv'
  <1>0. /\ proc \in Commands /\ dir /\ UNCHANGED <<files, answer, sound, spent>>
        /\ proc.pc \in {"verify", "reverify"} /\ Goto(IF At("verify") THEN "promote" ELSE "commit")
    BY DEF IInv, Counted, Verify, Ending, At
  <1>1. Moved(IF At("verify") THEN "promote" ELSE "commit") /\ proc'.after = proc.after
    BY <1>0, Moves
  <1>2. Typed' /\ Disk'
    BY <1>0, SameFiles
  <1>3. Counted'
    BY <1>0, <1>1 DEF IInv, Counted, Moved
  <1>4. Publication' /\ Rollback' /\ Ending'
    BY <1>0, <1>1
       DEF IInv, Publication, Rollback, Ending, At, Doing, Undoing, Private, Publishing, Moved, Ours, files
  <1>. QED BY <1>2, <1>3, <1>4 DEF IInv

LEMMA Promotes ==
  ASSUME IInv, Promote
  PROVE  IInv'
  <1>0. /\ proc \in Commands /\ Typed /\ Disk /\ dir /\ Doing /\ proc.pc \in {"promote", "replace"}
        /\ UNCHANGED <<finals, dir, linked, answer, sound, spent>>
    BY DEF IInv, Counted, Promote, Ending, At, Doing
  <1>1. /\ Forward /\ ~Back /\ txn["transaction.json"] = Ours /\ Ours.base = proc.base /\ Ours.cand = proc.cand
        /\ Published("transaction.json") /\ proc.mode # "resume"
        /\ proc.cand \in Contents /\ proc.base # proc.cand /\ Stage(proc.cand)
        /\ root = proc.base /\ proc.cand \in finals
    BY <1>0, Owned, Files DEF IInv, Publication, Ours
  <1>2. State(proc.cand) \in Holds("state.json") /\ Absent \in Holds("state.json") /\ Absent # Ours
        /\ proc.cand \in Entries
    BY <1>1, Files DEF Holds, Entries, Ours
  <1>. DEFINE Written ==
         /\ txn' = [m \in Names |-> txn'[m]] /\ \A m \in Names : txn'[m] \in Holds(m)
         /\ \A m \in Names \ {"state.json"} : txn'[m] = txn[m]
         /\ \/ root' = root /\ txn'["state.json"] = Torn /\ proc' = proc /\ At("promote")
            \/ root' = root /\ txn'["state.json"] = State(proc.cand) /\ Moved("replace")
            \/ root' = proc.cand /\ txn'["state.json"] = Absent /\ Moved("reverify")
  <1>3. Written
    <2>1. CASE At("promote") /\ txn["state.json"] = State(proc.cand) /\ Goto("replace") /\ UNCHANGED <<txn, root>>
      BY <1>0, <2>1, Moves DEF Typed
    <2>2. CASE At("promote") /\ Fill("state.json", State(proc.cand), "replace") /\ root' = root
      BY <1>0, <1>2, <2>2, Filled
    <2>3. CASE At("replace") /\ root' = proc.cand /\ Put("state.json", Absent) /\ Goto("reverify")
      BY <1>0, <1>2, <2>3, PutAt, Moves DEF Names
    <2>. QED BY <2>1, <2>2, <2>3 DEF Promote
  <1>4. Typed' /\ Counted'
    BY <1>0, <1>1, <1>2, <1>3 DEF IInv, Typed, Counted, Moved
  <1>5. Disk'
    <2>1. Forward' /\ ~Back' /\ Published("transaction.json")'
      BY <1>1, <1>3 DEF Forward, Back, Published, Stage, Bare, Names
    <2>2. linked' => \E c \in finals' : Stage(c)'
      BY <1>0, <1>1, <1>3 DEF Stage, Names
    <2>. QED BY <1>0, <1>1, <1>3, <2>1, <2>2 DEF Disk, Names
  <1>6. Publication' /\ Rollback' /\ Ending'
    BY <1>0, <1>1, <1>3
       DEF Publication, Rollback, Ending, At, Doing, Undoing, Private, Publishing, Moved, Ours, Names
  <1>. QED BY <1>4, <1>5, <1>6 DEF IInv

LEMMA Commits ==
  ASSUME IInv, Commit
  PROVE  IInv'
  <1>0. /\ proc \in Commands /\ Typed /\ Disk /\ dir /\ Doing /\ At("commit")
        /\ UNCHANGED <<root, finals, dir, linked, answer, sound, spent>>
        /\ Put("transaction.json", Absent) /\ Clean(IF Publishing THEN "recorded" ELSE "go")
    BY DEF IInv, Counted, Commit, Ending, At, Doing
  <1>1. /\ ~Back /\ Published("transaction.json") /\ proc.cand \in Contents /\ Stage(proc.cand)
        /\ root = proc.cand /\ proc.cand \in finals /\ txn["state.json"] = Absent
    <2>1. /\ ~Back /\ Forward /\ Published("transaction.json") /\ proc.cand \in Contents /\ Stage(proc.cand)
          /\ txn["transaction.json"].base = proc.base /\ txn["transaction.json"].cand = proc.cand
          /\ proc.base # proc.cand
      BY <1>0, Owned
    <2>2. root = proc.cand
      BY <1>0 DEF IInv, Publication, At
    <2>3. proc.cand \in finals /\ txn["state.json"] = Absent
      BY <1>0, <2>1, <2>2 DEF Disk
    <2>. QED BY <2>1, <2>2, <2>3
  <1>2. Moved("clean") /\ proc'.after = (IF Publishing THEN "recorded" ELSE "go")
    BY <1>0, Moves
  <1>3. /\ txn' = [m \in Names |-> txn'[m]] /\ \A m \in Names : txn'[m] \in Holds(m)
        /\ txn'["transaction.json"] = Absent /\ \A m \in Names \ {"transaction.json"} : txn'[m] = txn[m]
    <2>1. Absent \in Holds("transaction.json") /\ "transaction.json" \in Names
      BY DEF Holds, Names
    <2>. QED BY <1>0, <2>1, PutAt
  <1>4. Bare({"pinner.json"})' /\ Stage(proc.cand)' /\ ~Forward' /\ ~Back'
    BY <1>1, <1>2, <1>3 DEF Published, Bare, Names, Stage, Forward, Back, Moved
  <1>5. Typed' /\ Counted'
    BY <1>0, <1>2, <1>3 DEF IInv, Typed, Counted, Moved
  <1>6. Disk'
    <2>1. Loose'
      BY <1>0, <1>1, <1>2, <1>4 DEF Loose, Moved
    <2>2. linked' => \E c \in finals' : Stage(c)'
      BY <1>0, <1>1, <1>3 DEF Stage, Names
    <2>. QED BY <1>0, <1>4, <2>1, <2>2 DEF Disk
  <1>7. Publication' /\ Rollback' /\ Ending'
    BY <1>0, <1>1, <1>2, <1>4 DEF Publication, Rollback, Ending, At, Doing, Undoing, Moved
  <1>. QED BY <1>5, <1>6, <1>7 DEF IInv

-----------------------------------------------------------------------------
(* Failure and rollback. *)

LEMMA Raises ==
  ASSUME IInv, Raise
  PROVE  IInv'
  <1>0. /\ proc \in Commands /\ Publication /\ dir /\ UNCHANGED <<files, sound>>
        /\ proc.pc \in {"stage", "staged", "write", "written", "journal", "install", "verify",
                        "promote", "replace", "reverify", "commit"}
    BY DEF IInv, Counted, Raise, Ending, At
  <1>1. spent' \in [faults : 0..MaxFaults, records : 0..MaxRecords, drifts : 0..MaxDrifts]
    BY Faulted DEF IInv, Counted, Raise
  <1>2. CASE Reply("unproven")
    BY <1>0, <1>1, <1>2, Ends
  <1>3. CASE Publishing /\ Goto("undo") /\ answer' = answer
    <2>1. Moved("undo") /\ proc'.after = proc.after
      BY <1>0, <1>3, Moves
    <2>2. txn["transaction.json"] = Ours \/ Private(Names \ {"transaction.json", "rollback.json"})
      <3>1. CASE Doing
        BY <1>0, <3>1 DEF Publication
      <3>2. CASE ~Doing
        BY <1>0, <3>2 DEF Publication, Doing, At, Private, Bare, Names
      <3>. QED BY <3>1, <3>2
    <2>3. Typed' /\ Disk' /\ Counted'
      BY <1>0, <1>1, <1>3, <2>1, SameFiles DEF IInv, Counted, Moved
    <2>4. Publication' /\ Rollback' /\ Ending'
      BY <1>0, <1>3, <2>1, <2>2
         DEF Publication, Rollback, Ending, At, Doing, Undoing, Private, Publishing, Moved, Ours, files, Bare
    <2>. QED BY <2>3, <2>4 DEF IInv
  <1>4. CASE ~Publishing /\ Goto("abort") /\ answer' = answer
    <2>1. Moved("abort") /\ proc'.after = proc.after
      BY <1>0, <1>4, Moves
    <2>2. txn["transaction.json"] = Ours /\ proc.mode # "resume"
      BY <1>0, <1>4 DEF Publication, Doing, At, Private
    <2>3. Typed' /\ Disk' /\ Counted'
      BY <1>0, <1>1, <1>4, <2>1, SameFiles DEF IInv, Counted, Moved
    <2>4. Publication' /\ Rollback' /\ Ending'
      BY <1>0, <1>4, <2>1, <2>2
         DEF IInv, Publication, Rollback, Ending, At, Doing, Undoing, Moved, Ours, files
    <2>. QED BY <2>3, <2>4 DEF IInv
  <1>. QED BY <1>2, <1>3, <1>4 DEF Raise

LEMMA Undoes ==
  ASSUME IInv, Undo
  PROVE  IInv'
  <1>0. /\ proc \in Commands /\ Disk /\ dir /\ UNCHANGED <<files, sound, spent>> /\ Publishing /\ At("undo")
        /\ \/ txn["transaction.json"] = Ours
           \/ Private(Names \ {"transaction.json", "rollback.json"})
    BY DEF IInv, Counted, Undo, Ending, At, Publication
  <1>1. CASE Reply("unproven")
    BY <1>0, <1>1, Ends DEF IInv, Counted
  <1>2. CASE ~Forward /\ Clean("failed") /\ answer' = answer
    <2>1. Moved("clean") /\ proc'.after = "failed"
      BY <1>0, <1>2, Moves
    <2>2. /\ root = proc.base /\ ~linked /\ ~Back
      <3>1. Private(Names \ {"transaction.json", "rollback.json"})
        BY <1>0, <1>2, Files DEF Ours, Forward
      <3>. QED BY <3>1 DEF Private, Bare, Back, Names
    <2>3. Typed' /\ Disk' /\ Counted'
      BY <1>0, <1>2, <2>1, SameFiles DEF IInv, Counted, Moved
    <2>4. Publication' /\ Rollback' /\ Ending'
      BY <1>0, <1>2, <2>1, <2>2
         DEF Publication, Rollback, Ending, At, Doing, Undoing, Moved, files, Forward, Back
    <2>. QED BY <2>3, <2>4 DEF IInv
  <1>3. CASE Forward /\ Goto("abort") /\ answer' = answer
    <2>1. Moved("abort") /\ proc'.after = proc.after
      BY <1>0, <1>3, Moves
    <2>2. txn["transaction.json"] = Ours /\ proc.mode # "resume"
      BY <1>0, <1>3 DEF Private, Bare, Forward, Names, Publishing
    <2>3. Typed' /\ Disk' /\ Counted'
      BY <1>0, <1>3, <2>1, SameFiles DEF IInv, Counted, Moved
    <2>4. Publication' /\ Rollback' /\ Ending'
      BY <1>0, <1>3, <2>1, <2>2
         DEF Publication, Rollback, Ending, At, Doing, Undoing, Moved, Ours, files
    <2>. QED BY <2>3, <2>4 DEF IInv
  <1>. QED BY <1>1, <1>2, <1>3 DEF Undo

LEMMA Aborts ==
  ASSUME IInv, Abort
  PROVE  IInv'
  <1>0. /\ proc \in Commands /\ Typed /\ Disk /\ dir /\ Doing /\ At("abort")
        /\ UNCHANGED <<root, finals, dir, linked, answer, sound, spent>>
        /\ Rename("transaction.json", "rollback.json") /\ Goto("unstage")
    BY DEF IInv, Counted, Abort, Ending, At, Doing
  <1>1. /\ Forward /\ ~Back /\ txn["transaction.json"] = Ours /\ Ours.base = proc.base /\ Ours.cand = proc.cand
        /\ Published("transaction.json") /\ proc.base # proc.cand /\ root \in {proc.base, proc.cand}
        /\ Ours # Absent /\ Ours \in Journals /\ Stage(proc.cand)
    BY <1>0, Owned, Files DEF IInv, Publication, Ours, Published
  <1>2. /\ txn' = [m \in Names |-> txn'[m]] /\ \A m \in Names : txn'[m] \in Holds(m)
        /\ txn'["rollback.json"] = Ours /\ txn'["transaction.json"] = Absent
        /\ \A m \in Names \ {"rollback.json", "transaction.json"} : txn'[m] = txn[m]
    <2>1. Ours \in Holds("rollback.json")
      BY <1>1 DEF Holds
    <2>. QED BY <1>0, <1>1, <2>1, RenameAt DEF Names
  <1>3. Moved("unstage") /\ proc'.after = proc.after
    BY <1>0, Moves
  <1>4. Typed' /\ Counted'
    BY <1>0, <1>2, <1>3 DEF IInv, Typed, Counted, Moved
  <1>5. Disk'
    <2>1. Back' /\ ~Forward'
      BY <1>1, <1>2 DEF Forward, Back
    <2>2. Published("rollback.json")'
      BY <1>0, <1>1, <1>2 DEF Published, Bare, Stage, Names
    <2>3. linked' => \E c \in finals' : Stage(c)'
      BY <1>0, <1>2 DEF Stage, Names, Disk
    <2>4. txn'["state.json"] \in {Absent, Torn, State(IF root = proc.base THEN proc.cand ELSE proc.base)}
      BY <1>0, <1>1, <1>2 DEF Disk, Names
    <2>. QED BY <1>0, <1>1, <1>2, <2>1, <2>2, <2>3, <2>4 DEF Disk
  <1>6. Publication' /\ Rollback' /\ Ending'
    BY <1>0, <1>2, <1>3 DEF Publication, Rollback, Ending, At, Doing, Undoing, Moved, Ours
  <1>. QED BY <1>4, <1>5, <1>6 DEF IInv

\* A step of the rollback that leaves root, journal and stage alone keeps the disk's shape.
LEMMA StaysBack ==
  ASSUME IInv, Undoing, UNCHANGED <<finals, dir, linked>>,
         txn' = [m \in Names |-> txn'[m]], \A m \in Names : txn'[m] \in Holds(m),
         \A m \in Names \ {"state.json"} : txn'[m] = txn[m], root' \in {proc.base, proc.cand},
         txn'["state.json"] \in {Absent, Torn, State(IF root' = proc.base THEN proc.cand ELSE proc.base)}
  PROVE  Typed' /\ Disk' /\ Back' /\ ~Forward'
  <1>1. /\ Back /\ ~Forward /\ txn["rollback.json"].base = proc.base /\ dir
        /\ txn["rollback.json"].cand = proc.cand /\ Published("rollback.json")
        /\ proc.cand \in Contents /\ proc.base \in Entries
    BY Owned
  <1>2. Back' /\ ~Forward' /\ txn'["rollback.json"] = txn["rollback.json"]
    BY <1>1 DEF Back, Forward, Names
  <1>3. Published("rollback.json")'
    BY <1>1, <1>2 DEF Published, Bare, Stage, Names
  <1>4. linked' => \E c \in finals' : Stage(c)'
    BY DEF IInv, Disk, Stage, Names
  <1>5. Typed'
    BY <1>1 DEF IInv, Typed, Entries
  <1>. QED BY <1>1, <1>2, <1>3, <1>4, <1>5 DEF Disk

LEMMA Unstages ==
  ASSUME IInv, Unstage
  PROVE  IInv'
  <1>0. /\ proc \in Commands /\ Typed /\ Disk /\ dir /\ Undoing /\ At("unstage")
        /\ UNCHANGED <<root, finals, dir, linked, sound, spent>>
    BY DEF IInv, Counted, Unstage, Ending, At, Undoing
  <1>1. CASE Reply("unproven") /\ UNCHANGED txn
    BY <1>0, <1>1, Ends DEF IInv, Counted, files
  <1>2. CASE /\ Goto("unlink") /\ answer' = answer
             /\ \/ txn["state.json"] = Absent /\ txn' = txn
                \/ root = proc.base /\ Put("state.json", Absent)
    <2>1. Moved("unlink") /\ proc'.after = proc.after
      BY <1>0, <1>2, Moves
    <2>2. /\ txn' = [m \in Names |-> txn'[m]] /\ \A m \in Names : txn'[m] \in Holds(m)
          /\ txn'["state.json"] = Absent /\ \A m \in Names \ {"state.json"} : txn'[m] = txn[m]
      <3>1. Absent \in Holds("state.json") /\ "state.json" \in Names
        BY DEF Holds, Names
      <3>. QED BY <1>0, <1>2, <3>1, PutAt DEF Typed
    <2>3. txn["rollback.json"] = Ours /\ root \in {proc.base, proc.cand}
      BY <1>0, Owned DEF IInv, Rollback
    <2>4. Typed' /\ Disk' /\ Back' /\ ~Forward'
      BY <1>0, <2>2, <2>3, StaysBack
    <2>5. Counted'
      BY <1>0, <1>2, <2>1 DEF IInv, Counted, Moved
    <2>6. Publication' /\ Rollback' /\ Ending'
      BY <1>0, <1>2, <2>1, <2>2, <2>3 DEF Publication, Rollback, Ending, At, Doing, Undoing, Moved, Ours, Names
    <2>. QED BY <2>4, <2>5, <2>6 DEF IInv
  <1>. QED BY <1>1, <1>2 DEF Unstage

LEMMA Unlinks ==
  ASSUME IInv, Unlink
  PROVE  IInv'
  <1>0. /\ proc \in Commands /\ Typed /\ Disk /\ dir /\ Undoing /\ At("unlink")
        /\ UNCHANGED <<root, dir, txn, answer, sound, spent>> /\ linked' = FALSE
        /\ finals' \subseteq finals /\ Goto("restore")
    BY DEF IInv, Counted, Unlink, Ending, At, Undoing
  <1>1. /\ Back /\ ~Forward /\ Published("rollback.json") /\ txn["rollback.json"] = Ours
        /\ root = proc.base => txn["state.json"] = Absent
    BY <1>0, Owned DEF IInv, Rollback, At
  <1>2. Moved("restore") /\ proc'.after = proc.after
    BY <1>0, Moves
  <1>3. Typed' /\ Counted'
    BY <1>0, <1>2 DEF IInv, Typed, Counted, Moved
  <1>4. Disk'
    BY <1>0, <1>1 DEF Disk, Published, Bare, Stage, Forward, Back
  <1>5. Publication' /\ Rollback' /\ Ending'
    BY <1>0, <1>1, <1>2 DEF Publication, Rollback, Ending, At, Doing, Undoing, Moved, Ours
  <1>. QED BY <1>3, <1>4, <1>5 DEF IInv

LEMMA Restores ==
  ASSUME IInv, Restore
  PROVE  IInv'
  <1>0. /\ proc \in Commands /\ Typed /\ Disk /\ dir /\ Undoing /\ proc.pc \in {"restore", "revert"}
        /\ UNCHANGED <<finals, dir, linked, sound, spent>> /\ ~linked
    BY DEF IInv, Counted, Restore, Ending, At, Undoing, Rollback
  <1>1. /\ txn["rollback.json"] = Ours /\ root \in {proc.base, proc.cand} /\ proc.base \in Entries
        /\ proc.base # proc.cand
        /\ State(proc.base) \in Holds("state.json") /\ Absent \in Holds("state.json") /\ "state.json" \in Names
    BY <1>0, Owned DEF IInv, Rollback, Holds, Names
  <1>2. CASE Reply("unproven") /\ UNCHANGED <<root, txn>>
    BY <1>0, <1>2, Ends DEF IInv, Counted, files
  <1>. DEFINE Written ==
         /\ txn' = [m \in Names |-> txn'[m]] /\ \A m \in Names : txn'[m] \in Holds(m)
         /\ \A m \in Names \ {"state.json"} : txn'[m] = txn[m] /\ answer' = answer
         /\ \/ root' = root /\ root = proc.cand /\ txn'["state.json"] = Torn /\ proc' = proc /\ At("restore")
            \/ root' = root /\ root = proc.cand /\ txn'["state.json"] = State(proc.base) /\ Moved("revert")
            \/ root' = proc.base /\ txn'["state.json"] = Absent /\ Moved("close")
  <1>3. ASSUME Written PROVE IInv'
    <2>1. Typed' /\ Disk' /\ Back' /\ ~Forward'
      <3>1. /\ root' \in {proc.base, proc.cand}
            /\ txn'["state.json"] \in {Absent, Torn, State(IF root' = proc.base THEN proc.cand ELSE proc.base)}
        BY <1>1, <1>3
      <3>. QED BY <1>0, <1>3, <3>1, StaysBack
    <2>2. Counted' /\ answer' = answer
      BY <1>0, <1>3 DEF IInv, Counted, Moved, Names
    <2>3. txn'["rollback.json"] = Ours
      BY <1>1, <1>3 DEF Names
    <2>4. Publication' /\ Rollback' /\ Ending'
      BY <1>0, <1>1, <1>3, <2>3 DEF Publication, Rollback, Ending, At, Doing, Undoing, Moved, Ours
    <2>. QED BY <2>1, <2>2, <2>4 DEF IInv
  <1>4. CASE /\ At("restore") /\ Needless /\ txn["state.json"] = Absent /\ Goto("close") /\ answer' = answer
             /\ UNCHANGED <<root, txn>>
    <2>1. Moved("close")
      BY <1>0, <1>4, Moves
    <2>. QED BY <1>0, <1>3, <1>4, <2>1 DEF Needless, Typed
  <1>5. CASE /\ At("restore") /\ ~Needless /\ txn["state.json"] = State(proc.base) /\ Goto("revert")
             /\ UNCHANGED <<root, txn, answer>>
    <2>1. Moved("revert")
      BY <1>0, <1>5, Moves
    <2>. QED BY <1>0, <1>1, <1>3, <1>5, <2>1 DEF Needless, Typed
  <1>6. CASE /\ At("restore") /\ ~Needless /\ Fill("state.json", State(proc.base), "revert")
             /\ UNCHANGED <<root, answer>>
    <2>1. /\ txn' = [m \in Names |-> txn'[m]] /\ \A m \in Names : txn'[m] \in Holds(m)
          /\ \A m \in Names \ {"state.json"} : txn'[m] = txn[m]
          /\ \/ txn'["state.json"] = Torn /\ proc' = proc
             \/ txn'["state.json"] = State(proc.base) /\ Moved("revert")
      BY <1>0, <1>1, <1>6, Filled
    <2>. QED BY <1>1, <1>3, <1>6, <2>1 DEF Needless
  <1>7. CASE At("revert") /\ root' = proc.base /\ Put("state.json", Absent) /\ Goto("close") /\ answer' = answer
    <2>1. Moved("close")
      BY <1>0, <1>7, Moves
    <2>2. /\ txn' = [m \in Names |-> txn'[m]] /\ \A m \in Names : txn'[m] \in Holds(m)
          /\ txn'["state.json"] = Absent /\ \A m \in Names \ {"state.json"} : txn'[m] = txn[m]
      BY <1>0, <1>1, <1>7, PutAt
    <2>. QED BY <1>3, <1>7, <2>1, <2>2
  <1>. HIDE DEF Written
  <1>. QED BY <1>2, <1>4, <1>5, <1>6, <1>7 DEF Restore

LEMMA Closes ==
  ASSUME IInv, Close
  PROVE  IInv'
  <1>0. /\ proc \in Commands /\ Typed /\ Disk /\ dir /\ Undoing /\ At("close")
        /\ UNCHANGED <<root, finals, dir, linked, sound, spent>>
    BY DEF IInv, Counted, Close, Ending, At, Undoing
  <1>1. CASE Reply("unproven") /\ UNCHANGED txn
    BY <1>0, <1>1, Ends DEF IInv, Counted, files
  <1>2. CASE /\ Put("rollback.json", Absent) /\ answer' = answer
             /\ Clean(CASE proc.mode = "publish" -> "failed"
                        [] proc.mode = "finish"  -> "retained"
                        [] OTHER                 -> "go")
    <2>1. /\ Back /\ ~Forward /\ Published("rollback.json")
          /\ Stage(proc.cand) /\ proc.cand \in Contents /\ proc.cand # proc.base
          /\ root = proc.base /\ ~linked /\ txn["state.json"] = Absent
      BY <1>0, Owned DEF IInv, Rollback, At
    <2>2. Moved("clean") /\ proc'.after \in {"failed", "retained", "go"}
      <3>1. PICK next \in {"failed", "retained", "go"} : Clean(next)
        BY <1>2
      <3>. QED BY <1>0, <3>1, Moves
    <2>3. /\ txn' = [m \in Names |-> txn'[m]] /\ \A m \in Names : txn'[m] \in Holds(m)
          /\ txn'["rollback.json"] = Absent /\ \A m \in Names \ {"rollback.json"} : txn'[m] = txn[m]
      <3>1. Absent \in Holds("rollback.json") /\ "rollback.json" \in Names
        BY DEF Holds, Names
      <3>. QED BY <1>0, <1>2, <3>1, PutAt
    <2>4. PICK c : c = proc.cand
      OBVIOUS
    <2>5. /\ Bare({"pinner.json", "transaction.tmp"})' /\ txn'["transaction.tmp"] = Absent
          /\ Stage(c)' /\ ~Forward' /\ ~Back'
      BY <2>1, <2>3, <2>4 DEF Published, Bare, Names, Stage, Forward, Back
    <2>6. Typed' /\ Counted'
      BY <1>0, <1>2, <2>2, <2>3 DEF IInv, Typed, Counted, Moved
    <2>7. Disk'
      BY <1>0, <2>1, <2>4, <2>5 DEF Disk, Loose
    <2>8. Publication' /\ Rollback' /\ Ending'
      BY <1>0, <2>1, <2>2, <2>5 DEF Publication, Rollback, Ending, At, Doing, Undoing, Moved
    <2>. QED BY <2>6, <2>7, <2>8 DEF IInv
  <1>. QED BY <1>1, <1>2 DEF Close

-----------------------------------------------------------------------------
(* Cleanup, and what happens at any time. *)

LEMMA Removes ==
  ASSUME IInv, At("clean"), NEW n \in Names, txn[n] # Absent, Put(n, Absent),
         n = "pinner.json" => Bare({"pinner.json", "transaction.json", "rollback.json"}),
         linked' = (linked /\ n # "pinner.json"), UNCHANGED <<root, finals, dir, proc, answer, sound, spent>>
  PROVE  IInv'
  <1>0. /\ Typed /\ Disk /\ dir /\ ~Forward /\ ~Back /\ Loose
    BY DEF IInv, Ending, Disk, At
  <1>1. /\ txn' = [m \in Names |-> txn'[m]] /\ \A m \in Names : txn'[m] \in Holds(m)
        /\ txn'[n] = Absent /\ \A m \in Names \ {n} : txn'[m] = txn[m]
    <2>1. Absent \in Holds(n)
      BY DEF Holds
    <2>. QED BY <1>0, <2>1, PutAt
  <1>2. ~Forward' /\ ~Back'
    BY <1>0, <1>1 DEF Forward, Back, Names
  <1>3. \A ns : Bare(ns) => Bare(ns)'
    BY <1>1 DEF Bare
  <1>4. n # "pinner.json" => /\ linked' = linked
                             /\ \A c : Stage(c) => Stage(c)'
    BY <1>0, <1>1 DEF Stage, Names, Typed
  <1>5. Loose'
    <2>1. CASE n = "pinner.json"
      BY <1>0, <1>1, <1>2, <2>1 DEF Loose, Bare, Forward, Back
    <2>2. CASE n # "pinner.json" /\ Bare({"pinner.tmp"})
      BY <1>3, <2>2 DEF Loose
    <2>3. CASE n # "pinner.json" /\ Bare({"pinner.json"}) /\ Stage(root) /\ root \in finals
      BY <1>3, <1>4, <2>3 DEF Loose
    <2>4. ASSUME n # "pinner.json", NEW c \in Contents \ {root}, Stage(c), ~linked,
                 Bare({"pinner.json", "transaction.write.tmp"}),
                 txn["transaction.write.tmp"] \in {Absent, Torn, Journal(root, c)}
          PROVE  Loose'
      <3>1. txn'["transaction.write.tmp"] \in {Absent, Torn, Journal(root, c)}
        BY <1>1, <2>4 DEF Names
      <3>. QED BY <1>3, <1>4, <2>4, <3>1 DEF Loose
    <2>5. ASSUME n # "pinner.json", NEW c \in Contents \ {root}, Stage(c), ~linked,
                 Bare({"pinner.json", "transaction.tmp"}), txn["transaction.tmp"] \in {Absent, Journal(root, c)}
          PROVE  Loose'
      <3>1. txn'["transaction.tmp"] \in {Absent, Journal(root, c)}
        BY <1>1, <2>5 DEF Names
      <3>. QED BY <1>3, <1>4, <2>5, <3>1 DEF Loose
    <2>. QED BY <1>0, <2>1, <2>2, <2>3, <2>4, <2>5 DEF Loose
  <1>6. linked' => \E c \in finals' : Stage(c)'
    BY <1>0, <1>4 DEF Disk
  <1>7. Disk'
    BY <1>0, <1>2, <1>5, <1>6 DEF Disk
  <1>8. Typed' /\ Counted'
    BY <1>0, <1>1 DEF IInv, Typed, Counted
  <1>9. Publication' /\ Rollback' /\ Ending'
    BY <1>0, <1>2 DEF IInv, Publication, Rollback, Ending, At, Doing, Undoing
  <1>. QED BY <1>7, <1>8, <1>9 DEF IInv

\* A command that ends says what its cleanup was for.
LEMMA Reports ==
  ASSUME IInv, At("clean"), UNCHANGED <<root, finals, txn, linked, sound>>, Reply(proc.after), proc.after # "go",
         (dir' = dir /\ proc.after = "recorded") \/ (dir' = FALSE /\ Bare({})),
         spent' \in [faults : 0..MaxFaults, records : 0..MaxRecords, drifts : 0..MaxDrifts]
  PROVE  IInv'
  <1>1. /\ proc \in Commands /\ Typed /\ Disk /\ dir /\ ~Forward /\ ~Back
        /\ Moved("idle") /\ answer' = proc.after
    BY Moves DEF IInv, Counted, Ending, At
  <1>2. Typed'
    BY <1>1 DEF Typed
  <1>3. Disk'
    BY <1>1 DEF Disk, Loose, Bare, Stage, Forward, Back
  <1>4. Counted'
    BY <1>1 DEF IInv, Counted, Moved, Commands
  <1>5. Publication' /\ Rollback' /\ Ending'
    BY <1>1 DEF IInv, Publication, Rollback, Ending, At, Doing, Undoing, Moved, Forward, Back
  <1>. QED BY <1>2, <1>3, <1>4, <1>5 DEF IInv

LEMMA Cleans ==
  ASSUME IInv, Cleanup
  PROVE  IInv'
  <1>0. /\ proc \in Commands /\ Typed /\ Disk /\ dir /\ At("clean") /\ ~Forward /\ ~Back
        /\ UNCHANGED <<root, finals, sound, spent>>
    BY DEF IInv, Counted, Cleanup, Ending, At
  <1>1. CASE Inventory # {}
    <2>1. PICK i \in 1..5 :
            /\ Order[i] \in Inventory /\ \A k \in 1..(i - 1) : Order[k] \notin Inventory
            /\ Put(Order[i], Absent)
            /\ linked' = (linked /\ Order[i] # "pinner.json")
            /\ UNCHANGED <<dir, proc, answer>>
      BY <1>1 DEF Cleanup
    <2>2. PICK n \in Names : n = Order[i] /\ txn[n] # Absent
      BY <2>1 DEF Inventory
    <2>3. ASSUME n = "pinner.json"
          PROVE  Bare({"pinner.json", "transaction.json", "rollback.json"})
      <3>1. i = 5
        BY <2>1, <2>2, <2>3 DEF Order
      <3>2. /\ Order[1] \notin Inventory /\ Order[2] \notin Inventory
            /\ Order[3] \notin Inventory /\ Order[4] \notin Inventory
        BY <2>1, <3>1
      <3>. QED BY <3>2 DEF Order, Inventory, Bare, Names
    <2>4. Put(n, Absent) /\ linked' = (linked /\ n # "pinner.json")
      BY <2>1, <2>2
    <2>5. UNCHANGED <<root, finals, dir, proc, answer, sound, spent>>
      BY <1>0, <2>1
    <2>. QED BY <1>0, <2>2, <2>3, <2>4, <2>5, Removes
  <1>2. CASE Inventory = {}
    <2>1. Bare({}) /\ dir' = FALSE /\ UNCHANGED <<txn, linked>>
      BY <1>0, <1>2, Inventories DEF Cleanup
    <2>2. CASE proc.after = "go" /\ Goto("begin") /\ answer' = answer
      <3>1. Moved("begin") /\ proc'.after = proc.after
        BY <1>0, <2>2, Moves
      <3>2. Typed' /\ Counted'
        BY <1>0, <2>1, <2>2, <3>1 DEF IInv, Typed, Counted, Moved
      <3>3. Disk'
        BY <1>0, <2>1 DEF Disk, Loose, Bare, Stage, Forward, Back
      <3>4. Publication' /\ Rollback' /\ Ending'
        BY <2>1, <3>1 DEF Publication, Rollback, Ending, At, Doing, Undoing, Moved
      <3>. QED BY <3>2, <3>3, <3>4 DEF IInv
    <2>3. CASE proc.after # "go" /\ Reply(proc.after)
      BY <1>0, <2>1, <2>3, Reports DEF IInv, Counted
    <2>. QED BY <1>2, <2>2, <2>3 DEF Cleanup
  <1>. QED BY <1>1, <1>2

LEMMA LeavesOver ==
  ASSUME IInv, CleanupFails
  PROVE  IInv'
  <1>1. /\ UNCHANGED <<files, sound>> /\ At("clean") /\ Reply(Leftover)
        /\ spent' \in [faults : 0..MaxFaults, records : 0..MaxRecords, drifts : 0..MaxDrifts]
    BY Faulted DEF IInv, CleanupFails
  <1>2. CASE proc.after = "recorded"
    <2>1. Reply(proc.after) /\ UNCHANGED <<root, finals, txn, linked, sound>> /\ dir' = dir
      BY <1>1, <1>2 DEF Leftover, files
    <2>. QED BY <1>1, <1>2, <2>1, Reports
  <1>3. CASE proc.after # "recorded"
    BY <1>1, <1>3, Ends DEF Leftover
  <1>. QED BY <1>2, <1>3

LEMMA Stops ==
  ASSUME IInv, Die \/ Return
  PROVE  IInv'
  <1>1. CASE Die
    BY <1>1, Ends, Faulted DEF IInv, Die
  <1>2. CASE Return
    BY <1>2, Ends DEF IInv, Counted, Return
  <1>. QED BY <1>1, <1>2

\* Outside Forge, and when nothing happens.
LEMMA Outside ==
  ASSUME IInv, UNCHANGED <<files, proc, answer>>, sound' \subseteq {"evidence", "authority"},
         spent' \in [faults : 0..MaxFaults, records : 0..MaxRecords, drifts : 0..MaxDrifts]
  PROVE  IInv'
  <1>1. Typed' /\ Disk'
    BY SameFiles
  <1>2. Counted' /\ Publication' /\ Rollback' /\ Ending'
    BY DEF IInv, Counted, Publication, Rollback, Ending, At, Doing, Undoing, Private, Publishing, Ours, files,
           Bare, Stage, Forward, Back
  <1>. QED BY <1>1, <1>2 DEF IInv

LEMMA Drifts ==
  ASSUME IInv, NEW x \in {"evidence", "authority"}, Drift(x) \/ Repair(x)
  PROVE  IInv'
  <1>1. CASE Drift(x)
    <2>1. MaxDrifts \in Nat /\ spent \in [faults : 0..MaxFaults, records : 0..MaxRecords, drifts : 0..MaxDrifts]
          /\ spent.drifts < MaxDrifts /\ spent' = [spent EXCEPT !.drifts = @ + 1]
      BY <1>1, RecordAssumption DEF RecordAssumption, IInv, Counted, Drift
    <2>2. spent.drifts + 1 \in 0..MaxDrifts
      BY <2>1
    <2>3. spent' \in [faults : 0..MaxFaults, records : 0..MaxRecords, drifts : 0..MaxDrifts]
      BY <2>1, <2>2
    <2>4. UNCHANGED <<files, proc, answer>> /\ sound' \subseteq {"evidence", "authority"}
      BY <1>1 DEF IInv, Counted, Drift
    <2>. QED BY <2>3, <2>4, Outside
  <1>2. CASE Repair(x)
    <2>1. UNCHANGED <<files, proc, answer, spent>> /\ sound' \subseteq {"evidence", "authority"}
      BY <1>2 DEF IInv, Counted, Repair
    <2>2. spent' \in [faults : 0..MaxFaults, records : 0..MaxRecords, drifts : 0..MaxDrifts]
      BY <2>1 DEF IInv, Counted
    <2>. QED BY <2>1, <2>2, Outside
  <1>. QED BY <1>1, <1>2

LEMMA Inductive == IInv /\ [Next]_vars => IInv'
  <1>. SUFFICES ASSUME IInv, [Next]_vars PROVE IInv'
    OBVIOUS
  <1>1. CASE UNCHANGED vars
    BY <1>1, Outside DEF vars, files, IInv, Counted
  <1>2. ASSUME NEW goal \in {"record", "read"}, Open(goal) PROVE IInv'
    BY <1>2, Asks
  <1>3. CASE Step
    <2>1. CASE Recover
      BY <2>1, Recovers
    <2>2. ASSUME NEW c \in Contents, Begin(c) PROVE IInv'
      BY <2>2, Begins
    <2>3. CASE Return
      BY <2>3, Stops
    <2>4. CASE StagePinner
      BY <2>4, StagesPinner
    <2>5. CASE PublishJournal
      BY <2>5, PublishesJournal
    <2>6. CASE Install
      BY <2>6, Installs
    <2>7. CASE Verify
      BY <2>7, Verifies
    <2>8. CASE Promote
      BY <2>8, Promotes
    <2>9. CASE Commit
      BY <2>9, Commits
    <2>10. CASE Raise
      BY <2>10, Raises
    <2>11. CASE Undo
      BY <2>11, Undoes
    <2>12. CASE Abort
      BY <2>12, Aborts
    <2>13. CASE Unstage
      BY <2>13, Unstages
    <2>14. CASE Unlink
      BY <2>14, Unlinks
    <2>15. CASE Restore
      BY <2>15, Restores
    <2>16. CASE Close
      BY <2>16, Closes
    <2>17. CASE Cleanup
      BY <2>17, Cleans
    <2>18. CASE CleanupFails
      BY <2>18, LeavesOver
    <2>. QED BY <1>3, <2>1, <2>2, <2>3, <2>4, <2>5, <2>6, <2>7, <2>8, <2>9, <2>10, <2>11, <2>12, <2>13,
                <2>14, <2>15, <2>16, <2>17, <2>18 DEF Step
  <1>4. CASE Die
    BY <1>4, Stops
  <1>5. ASSUME NEW x \in {"evidence", "authority"}, Drift(x) \/ Repair(x) PROVE IInv'
    BY <1>5, Drifts
  <1>. QED BY <1>1, <1>2, <1>3, <1>4, <1>5 DEF Next

LEMMA Invariant == Spec => []IInv
  BY InitInv, Inductive, PTL DEF Spec

-----------------------------------------------------------------------------
(* The properties. *)

\* Every variable keeps its type, and no file is torn but those a crash may tear.
THEOREM TypeCorrect == Spec => []TypeOK
  <1>1. IInv => TypeOK
    <2>. SUFFICES ASSUME IInv PROVE TypeOK
      OBVIOUS
    <2>1. DOMAIN txn = Names
      BY DEF IInv, Typed
    <2>2. /\ root \in Entries /\ finals \subseteq Contents /\ dir \in BOOLEAN /\ linked \in BOOLEAN
          /\ \A n \in Names : txn[n] \in Holds(n)
      BY DEF IInv, Typed
    <2>3. /\ proc.mode \in {"publish", "finish", "resume"} /\ proc.goal \in {"record", "read"}
          /\ proc.base \in Entries /\ proc.cand \in Entries
      BY DEF IInv, Counted, Commands
    <2>4. spent.faults <= MaxFaults /\ spent.records <= MaxRecords /\ spent.drifts <= MaxDrifts
      <3>1. spent.faults \in 0..MaxFaults /\ spent.records \in 0..MaxRecords /\ spent.drifts \in 0..MaxDrifts
            /\ MaxFaults \in Nat /\ MaxRecords \in Nat /\ MaxDrifts \in Nat
        BY RecordAssumption DEF IInv, Counted, RecordAssumption
      <3>. QED BY <3>1
    <2>. QED BY <2>1, <2>2, <2>3, <2>4 DEF TypeOK, IInv, Counted
  <1>. QED BY <1>1, Invariant, PTL

LEMMA Recognised ==
  ASSUME IInv, At("idle")
  PROVE  Accepts \/ Stranded
  <1>0. Typed /\ Disk
    BY DEF IInv
  <1>1. ASSUME NEW c, Stage(c) PROVE Staged(c)
    BY <1>0, <1>1, Files DEF Disk, Stage, Staged
  <1>2. CASE Back
    <2>1. PICK j : j = txn["rollback.json"]
      OBVIOUS
    <2>2. /\ ~Forward /\ Bare({"rollback.json", "pinner.json", "state.json"}) /\ j.base # j.cand
          /\ root \in {j.base, j.cand} /\ Stage(j.cand)
          /\ txn["state.json"] \in {Absent, Torn, State(IF root = j.base THEN j.cand ELSE j.base)}
      BY <1>0, <1>2, <2>1 DEF Disk, Published
    <2>3. Inventory \subseteq {"rollback.json", "pinner.json", "state.json"} /\ Staged(j.cand)
      BY <1>0, <1>1, <2>2, Inventories
    <2>4. CASE txn["state.json"] = Absent \/ (root # j.base /\ txn["state.json"] = State(j.base))
      BY <1>2, <2>1, <2>2, <2>3, <2>4 DEF Accepts, Resumable
    <2>5. CASE txn["state.json"] \in {Torn, State(j.cand)}
      BY <1>2, <2>1, <2>5 DEF Stranded
    <2>. QED BY <2>2, <2>4, <2>5
  <1>3. CASE ~Back /\ Forward
    <2>1. PICK j : j = txn["transaction.json"]
      OBVIOUS
    <2>2. /\ Bare({"transaction.json", "pinner.json", "state.json"}) /\ Stage(j.cand)
          /\ root \in {j.base, j.cand}
          /\ txn["state.json"] \in {Absent, Torn, State(j.cand)}
          /\ txn["state.json"] # Absent => root = j.base
      BY <1>0, <1>3, <2>1 DEF Disk, Published
    <2>3. Inventory \subseteq {"transaction.json", "pinner.json", "state.json"} /\ Staged(j.cand)
      BY <1>0, <1>1, <2>2, Inventories
    <2>4. CASE txn["state.json"] # Torn
      BY <1>3, <2>1, <2>2, <2>3, <2>4 DEF Accepts, Finishable
    <2>. QED BY <2>4 DEF Stranded
  <1>4. CASE ~Back /\ ~Forward
    BY <1>0, <1>4, Inventories DEF Disk, Accepts
  <1>. QED BY <1>2, <1>3, <1>4

\* What a command reports is so, and whatever it leaves, wherever it died, the
\* next command recognises, the two stranded states apart.
THEOREM ReportsAreTrue == Spec => []HonestAnswer
  <1>1. IInv => HonestAnswer
    <2>. SUFFICES ASSUME IInv, At("idle")
                  PROVE  /\ answer = "recorded" => root = proc.cand /\ root \in finals /\ ~Forward /\ ~Back
                         /\ answer = "failed" => root = proc.base /\ ~dir /\ Inventory = {} /\ ~linked
                         /\ dir => Accepts \/ Stranded
      BY DEF HonestAnswer
    <2>1. answer = "recorded" => root = proc.cand /\ root \in finals /\ ~Forward /\ ~Back
      BY DEF IInv, Ending
    <2>2. ASSUME answer = "failed" PROVE root = proc.base /\ ~dir /\ Inventory = {} /\ ~linked
      <3>1. root = proc.base /\ ~dir
        BY <2>2 DEF IInv, Ending
      <3>2. Bare({})
        BY <3>1 DEF IInv, Disk
      <3>3. Inventory = {}
        BY <3>2 DEF Inventory, Bare
      <3>4. ~linked
        BY <3>2, Files DEF IInv, Disk, Stage, Bare, Names
      <3>. QED BY <3>1, <3>3, <3>4
    <2>. QED BY <2>1, <2>2, Recognised
  <1>. QED BY <1>1, Invariant, PTL

\* The journals stay as they are.
Kept == /\ txn'["transaction.json"] = txn["transaction.json"]
        /\ txn'["rollback.json"] = txn["rollback.json"]

LEMMA Keeps ==
  ASSUME Typed, NEW n \in Names \ {"transaction.json", "rollback.json"}
  PROVE  /\ \A file : Put(n, file) => Kept
         /\ \A file, next : Fill(n, file, next) => Kept
         /\ \A m \in Names \ {"transaction.json", "rollback.json"} : Rename(n, m) => Kept
  <1>1. txn = [m \in Names |-> txn[m]] /\ "transaction.json" \in Names /\ "rollback.json" \in Names
    BY DEF Typed, Names
  <1>2. \A file : Put(n, file) => Kept
    BY <1>1 DEF Put, Kept
  <1>3. ASSUME NEW m \in Names \ {"transaction.json", "rollback.json"}, Rename(n, m) PROVE Kept
    BY <1>1, <1>3 DEF Rename, Kept
  <1>. QED BY <1>2, <1>3 DEF Fill

\* Where a step of a command touches the entry, a receipt or a published journal.
Telling == {"journal", "install", "replace", "commit", "abort", "unlink", "revert", "close"}

\* The steps that touch neither the entry, nor a receipt, nor a journal.
LEMMA Quiet ==
  ASSUME IInv, Next, ~\E c \in Telling : At(c)
  PROVE  UNCHANGED <<root, finals>> /\ Kept /\ (linked' = linked \/ (At("clean") /\ Cleanup))
  <1>. USE DEF Telling
  <1>0. Typed /\ \A c \in Telling : proc.pc # c
    BY DEF IInv, At
  <1>1. ASSUME NEW goal \in {"record", "read"}, Open(goal)
        PROVE  UNCHANGED <<root, finals, linked>> /\ Kept
    BY <1>1 DEF Open, files, Kept
  <1>2. CASE Recover \/ Return \/ Verify \/ Raise \/ Undo \/ CleanupFails \/ Die
    BY <1>2 DEF Recover, Return, Verify, Raise, Undo, CleanupFails, Die, files, Kept
  <1>3. ASSUME NEW c \in Contents, Begin(c)
        PROVE  UNCHANGED <<root, finals, linked>> /\ Kept
    BY <1>3 DEF Begin, Kept
  <1>4. CASE StagePinner
    <2>1. Kept
      BY <1>0, <1>4, Keeps DEF StagePinner, Names
    <2>. QED BY <1>4, <2>1 DEF StagePinner
  <1>5. CASE PublishJournal
    <2>1. Kept
      BY <1>0, <1>5, Keeps DEF PublishJournal, Names, At
    <2>. QED BY <1>5, <2>1 DEF PublishJournal
  <1>6. CASE Promote
    <2>1. "state.json" \in Names \ {"transaction.json", "rollback.json"}
      BY DEF Names
    <2>2. Kept /\ root' = root
      BY <1>0, <1>6, <2>1, Keeps DEF Promote, At, Kept
    <2>. QED BY <1>6, <2>2 DEF Promote
  <1>7. CASE Unstage
    <2>1. "state.json" \in Names \ {"transaction.json", "rollback.json"}
      BY DEF Names
    <2>2. Kept
      BY <1>0, <1>7, <2>1, Keeps DEF Unstage, Kept
    <2>. QED BY <1>7, <2>2 DEF Unstage
  <1>8. CASE Restore
    <2>1. "state.json" \in Names \ {"transaction.json", "rollback.json"}
      BY DEF Names
    <2>2. Kept /\ root' = root
      BY <1>0, <1>8, <2>1, Keeps DEF Restore, At, Kept
    <2>. QED BY <1>8, <2>2 DEF Restore
  <1>9. CASE Cleanup
    <2>1. \A i \in 1..5 : Order[i] \in Names \ {"transaction.json", "rollback.json"}
      BY DEF Order, Names
    <2>2. Kept
      BY <1>0, <1>9, <2>1, Keeps DEF Cleanup, Kept
    <2>. QED BY <1>9, <2>2 DEF Cleanup
  <1>10. ~(Install \/ Commit \/ Abort \/ Unlink \/ Close)
    BY <1>0 DEF Install, Commit, Abort, Unlink, Close, At
  <1>11. ASSUME NEW x \in {"evidence", "authority"}, Drift(x) \/ Repair(x)
         PROVE  UNCHANGED <<root, finals, linked>> /\ Kept
    BY <1>11 DEF Drift, Repair, files, Kept
  <1>. QED BY <1>1, <1>2, <1>3, <1>4, <1>5, <1>6, <1>7, <1>8, <1>9, <1>10, <1>11 DEF Next, Step

\* At those places a command takes its step, fails or dies.
LEMMA Loud ==
  ASSUME IInv, Next, NEW place \in Telling, At(place)
  PROVE  \/ UNCHANGED <<root, finals, linked, txn>>
         \/ /\ place = "journal" /\ Rename("transaction.tmp", "transaction.json") /\ UNCHANGED <<root, finals, linked>>
         \/ place = "install" /\ Install
         \/ place = "replace" /\ root' = proc.cand /\ Put("state.json", Absent) /\ UNCHANGED <<finals, linked>>
         \/ place = "commit" /\ Commit
         \/ place = "abort" /\ Abort
         \/ place = "unlink" /\ Unlink
         \/ place = "revert" /\ root' = proc.base /\ Put("state.json", Absent) /\ UNCHANGED <<finals, linked>>
         \/ place = "close" /\ Put("rollback.json", Absent) /\ UNCHANGED <<root, finals, linked>>
  <1>. USE DEF At, Telling
  <1>1. CASE Die \/ Raise
    BY <1>1 DEF Die, Raise, files
  <1>2. ASSUME NEW x \in {"evidence", "authority"}, Drift(x) \/ Repair(x)
        PROVE  UNCHANGED <<root, finals, linked, txn>>
    BY <1>2 DEF Drift, Repair, files
  <1>3. CASE PublishJournal
    BY <1>3 DEF PublishJournal
  <1>4. CASE Promote
    BY <1>4 DEF Promote
  <1>5. CASE Restore
    BY <1>5 DEF Restore
  <1>6. CASE Close
    BY <1>6 DEF Close
  <1>7. CASE Install
    BY <1>7 DEF Install
  <1>8. CASE Commit
    BY <1>8 DEF Commit
  <1>9. CASE Abort
    BY <1>9 DEF Abort
  <1>10. CASE Unlink
    BY <1>10 DEF Unlink
  <1>11. ~(Recover \/ Return \/ StagePinner \/ Verify \/ Undo \/ Unstage \/ Cleanup \/ CleanupFails)
    BY DEF Recover, Return, StagePinner, Verify, Undo, Unstage, Cleanup, CleanupFails
  <1>12. ~\E c \in Contents : Begin(c)
    BY DEF Begin
  <1>13. ~\E goal \in {"record", "read"} : Open(goal)
    BY DEF Open
  <1>. QED BY <1>1, <1>2, <1>3, <1>4, <1>5, <1>6, <1>7, <1>8, <1>9, <1>10, <1>11, <1>12, <1>13 DEF Next, Step

\* Once the intent to abort is durable, no command promotes the candidate or
\* installs its pinner again.
THEOREM AbortIsFinal == Spec => RollbackNeverPromotes
  <1>1. IInv /\ [Next]_vars => [Back => /\ root' # root => root' = txn["rollback.json"].base
                                        /\ finals' \subseteq finals]_vars
    <2>. SUFFICES ASSUME IInv, Next, Back
                  PROVE  /\ root' # root => root' = txn["rollback.json"].base
                         /\ finals' \subseteq finals
      OBVIOUS
    <2>. USE DEF Telling
    <2>0. ~Doing
      BY Owned
    <2>1. CASE \E c \in Telling : At(c)
      <3>1. PICK place \in Telling : At(place)
        BY <2>1
      <3>2. place \in {"journal", "unlink", "revert", "close"}
        BY <2>0, <3>1 DEF Doing, At
      <3>3. CASE place = "revert"
        <4>1. txn["rollback.json"].base = proc.base
          BY <3>1, <3>3, Owned DEF Undoing, At
        <4>. QED BY <3>1, <3>3, <4>1, Loud
      <3>4. CASE place = "unlink"
        <4>1. UNCHANGED <<root, finals>> \/ Unlink
          BY <3>1, <3>4, Loud
        <4>. QED BY <4>1 DEF Unlink
      <3>. QED BY <3>1, <3>2, <3>3, <3>4, Loud
    <2>2. CASE ~\E c \in Telling : At(c)
      BY <2>2, Quiet
    <2>. QED BY <2>1, <2>2
  <1>. QED BY <1>1, Invariant, PTL DEF Spec, RollbackNeverPromotes

-----------------------------------------------------------------------------
(* The transaction implements the atomic store. *)

Record   == IF Forward \/ Back THEN Undecided.base ELSE root
Receipts == IF (Forward \/ Back) /\ linked THEN finals \ {Undecided.cand} ELSE finals

\* The one journal there is decides.
Deciding == /\ Forward => ~Back /\ Undecided = txn["transaction.json"]
            /\ Back => ~Forward /\ Undecided = txn["rollback.json"]

LEMMA Decides == IInv => Deciding
  BY DEF IInv, Disk, Deciding, Undecided, Forward, Back

LEMMA Decided == IInv' => Deciding'
  BY Decides, PTL

LEMMA StoreStep ==
  ASSUME IInv, IInv', Next
  PROVE  UNCHANGED <<Record, Receipts>> \/ \E c \in Contents : Store!Commit(c)
  <1>. USE DEF Telling
  <1>0. /\ Forward' => ~Back' /\ Undecided' = txn'["transaction.json"]
        /\ Back' => ~Forward' /\ Undecided' = txn'["rollback.json"]
    BY Decided DEF Deciding
  <1>1. ASSUME UNCHANGED <<root, finals>>, Kept, linked' = linked \/ (~Forward /\ ~Back)
        PROVE  UNCHANGED <<Record, Receipts>>
    <2>1. Forward' = Forward /\ Back' = Back /\ Undecided' = Undecided
      BY <1>1 DEF Kept, Forward, Back, Undecided
    <2>. QED BY <1>1, <2>1 DEF Record, Receipts
  <1>2. CASE ~\E c \in Telling : At(c)
    <2>1. At("clean") => ~Forward /\ ~Back
      BY DEF IInv, Ending
    <2>. QED BY <1>1, <1>2, <2>1, Quiet
  <1>3. CASE \E c \in Telling : At(c)
    <2>1. PICK place \in Telling : At(place)
      BY <1>3
    <2>0. Typed /\ Disk
      BY DEF IInv
    <2>2. CASE UNCHANGED <<root, finals, linked, txn>>
      BY <1>1, <2>2 DEF Kept
    <2>3. CASE place = "journal" /\ Rename("transaction.tmp", "transaction.json") /\ UNCHANGED <<root, finals, linked>>
      <3>1. /\ Private({"pinner.json", "transaction.tmp"}) /\ txn["transaction.tmp"] = Ours
        BY <2>1, <2>3 DEF IInv, Publication
      <3>2. root = proc.base /\ ~linked /\ ~Forward /\ ~Back /\ Ours.base = proc.base /\ Ours # Absent
        BY <3>1, Files DEF Private, Bare, Names, Forward, Back, Ours
      <3>3. txn'["transaction.json"] = Ours
        BY <2>0, <2>3, <3>1 DEF Rename, Typed, Names
      <3>4. Forward' /\ Undecided' = Ours
        BY <1>0, <3>2, <3>3 DEF Forward
      <3>. QED BY <2>3, <3>2, <3>4 DEF Record, Receipts
    <2>4. CASE place = "install" /\ Install
      <3>1. /\ Forward /\ proc.cand = Undecided.cand /\ Stage(proc.cand) /\ (linked => proc.cand \in finals)
        <4>1. Forward /\ txn["transaction.json"].cand = proc.cand /\ Stage(proc.cand)
          BY <2>1, <2>4, Owned DEF Doing, At
        <4>2. linked => proc.cand \in finals
          BY <2>0, <4>1, Files DEF Disk, Stage
        <4>. QED BY <4>1, <4>2, Decides DEF Deciding
      <3>2. Forward' = Forward /\ Back' = Back /\ Undecided' = Undecided
        BY <2>4 DEF Install, Forward, Back, Undecided
      <3>3. /\ root' = root /\ linked' = (linked \/ proc.cand \notin finals)
            /\ finals' = finals \cup {proc.cand}
        BY <2>4 DEF Install
      <3>4. PICK f : f = proc.cand
        OBVIOUS
      <3>5. Receipts = (IF linked THEN finals \ {f} ELSE finals)
            /\ Receipts' = (IF linked' THEN finals' \ {f} ELSE finals')
        BY <3>1, <3>2, <3>4 DEF Receipts
      <3>6. Receipts' = Receipts
        BY <3>1, <3>3, <3>4, <3>5
      <3>. QED BY <3>1, <3>2, <3>6 DEF Record
    <2>5. CASE /\ place \in {"replace", "revert"} /\ Put("state.json", Absent) /\ UNCHANGED <<finals, linked>>
      <3>1. Kept
        BY <2>0, <2>5, Keeps DEF Names
      <3>2. Forward \/ Back
        BY <2>1, <2>5, Owned DEF Doing, Undoing, At
      <3>3. Forward' = Forward /\ Back' = Back /\ Undecided' = Undecided
        BY <3>1 DEF Kept, Forward, Back, Undecided
      <3>. QED BY <2>5, <3>2, <3>3 DEF Record, Receipts
    <2>6. CASE place = "commit" /\ Commit
      <3>1. /\ Forward /\ ~Back /\ Undecided.cand = proc.cand /\ Undecided.base = proc.base
            /\ proc.cand \in Contents /\ proc.base # proc.cand
        BY <2>1, <2>6, Owned, Decides DEF Deciding, Doing, At
      <3>2. root = proc.cand
        BY <2>1, <2>6 DEF IInv, Publication, At
      <3>3. proc.cand \in finals
        BY <2>0, <2>1, <2>6, <3>1, <3>2, Decides DEF Deciding, Disk
      <3>4. ~Forward' /\ ~Back' /\ UNCHANGED <<root, finals>>
        <4>1. txn = [n \in Names |-> txn[n]] /\ txn' = [txn EXCEPT !["transaction.json"] = Absent]
              /\ "transaction.json" \in Names /\ "rollback.json" \in Names /\ UNCHANGED <<root, finals>>
          BY <2>0, <2>6 DEF Typed, Commit, Put, Names
        <4>2. txn'["transaction.json"] = Absent /\ txn'["rollback.json"] = txn["rollback.json"]
          BY <4>1
        <4>. QED BY <3>1, <4>1, <4>2 DEF Forward, Back
      <3>5. PICK f : f = proc.cand
        OBVIOUS
      <3>6. f # Record /\ Record' = f /\ f \in Contents
        BY <3>1, <3>2, <3>4, <3>5 DEF Record
      <3>7. Receipts' = Receipts \cup {f}
        BY <3>1, <3>3, <3>4, <3>5 DEF Receipts
      <3>8. Store!Commit(f)
        BY <3>6, <3>7 DEF Store!Commit, Record, Receipts
      <3>. QED BY <3>6, <3>8
    <2>7. CASE place = "abort" /\ Abort
      <3>1. Forward /\ ~Back /\ Undecided = txn["transaction.json"]
        BY <2>1, <2>7, Owned, Decides DEF Deciding, Doing, At
      <3>2. txn'["rollback.json"] = txn["transaction.json"]
        BY <2>0, <2>7 DEF Abort, Rename, Typed, Names
      <3>3. Back' /\ Undecided' = Undecided
        BY <1>0, <3>1, <3>2 DEF Forward, Back
      <3>. QED BY <2>7, <3>1, <3>3 DEF Abort, Record, Receipts
    <2>8. CASE place = "unlink" /\ Unlink
      <3>1. Back /\ Undecided.cand = proc.cand
        BY <2>1, <2>8, Owned, Decides DEF Deciding, Undoing, At
      <3>2. Forward' = Forward /\ Back' = Back /\ Undecided' = Undecided
        BY <2>8 DEF Unlink, Forward, Back, Undecided
      <3>3. /\ root' = root /\ ~linked'
            /\ finals' = IF linked THEN finals \ {proc.cand} ELSE finals
        BY <2>8 DEF Unlink, Created
      <3>. QED BY <3>1, <3>2, <3>3 DEF Record, Receipts
    <2>9. CASE place = "close" /\ Put("rollback.json", Absent) /\ UNCHANGED <<root, finals, linked>>
      <3>1. Back /\ ~Forward /\ Undecided.base = proc.base
        BY <2>1, <2>9, Owned, Decides DEF Deciding, Undoing, At
      <3>2. root = proc.base /\ ~linked
        BY <2>1, <2>9 DEF IInv, Rollback, At
      <3>3. ~Forward' /\ ~Back'
        <4>1. txn = [n \in Names |-> txn[n]] /\ txn' = [txn EXCEPT !["rollback.json"] = Absent]
              /\ "transaction.json" \in Names /\ "rollback.json" \in Names
          BY <2>0, <2>9 DEF Typed, Put, Names
        <4>2. txn'["rollback.json"] = Absent /\ txn'["transaction.json"] = txn["transaction.json"]
          BY <4>1
        <4>. QED BY <3>1, <4>2 DEF Forward, Back
      <3>. QED BY <2>9, <3>1, <3>2, <3>3 DEF Record, Receipts
    <2>. QED BY <2>1, <2>2, <2>3, <2>4, <2>5, <2>6, <2>7, <2>8, <2>9, Loud
  <1>. QED BY <1>2, <1>3

\* Killed and recovered as often as it may be, recording a section is one atomic
\* change of entry and receipt: the removal of the journal, and nothing else.
THEOREM RecordIsAtomic == Spec => ImplementsStore
  <1>1. Init => Store!Init
    <2>. SUFFICES ASSUME Init PROVE Store!Init
      OBVIOUS
    <2>1. ~Forward /\ ~Back
      BY DEF Init, Forward, Back, Names
    <2>. QED BY <2>1 DEF Init, Store!Init
  <1>2. IInv /\ IInv' /\ [Next]_vars => [Store!Next]_<<Record, Receipts>>
    <2>. SUFFICES ASSUME IInv, IInv', [Next]_vars PROVE [Store!Next]_<<Record, Receipts>>
      OBVIOUS
    <2>1. CASE Next
      BY <2>1, StoreStep DEF Store!Next
    <2>2. CASE UNCHANGED vars
      BY <2>2 DEF vars, Record, Receipts, Undecided, Forward, Back
    <2>. QED BY <2>1, <2>2
  <1>. QED BY <1>1, <1>2, Invariant, PTL DEF Spec, ImplementsStore, Store!Spec, Record, Receipts
=============================================================================
