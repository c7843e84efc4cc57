------------------------------ MODULE MCEndings ------------------------------
(***************************************************************************)
(* What must come to an end, on small instances: children in a process     *)
(* group (two ways), containers of the trials, the oracle of an            *)
(* assessment, and the transaction that records a section.  They share     *)
(* nothing but the system they run on, so a behaviour is one of one of     *)
(* them: `which` says of which, and the variables of the others stay as    *)
(* they are.                                                               *)
(***************************************************************************)
EXTENDS SectionRecord, TLC

CONSTANTS one, two, Procs, Leader, Pipes, MayRefuse, L, a, b, out, Threads, Ids, MaxNumber, t, u

\* The leader is one of the processes; no thread of the oracle is called what says that
\* nobody has the lock.
ASSUME EndingsAssumption == /\ Leader \in Procs
                            /\ "nobody" \notin Threads
                            /\ MaxNumber \in Nat

Two     == {one, two}
AnyTear == {"pinner.tmp", "transaction.write.tmp", "state.json"}

VARIABLES which, life, member, holds, doomed, exit, pc, late,
          end, reading, cancel, wrong, childAnswer,
          open, tired, phase, listed, known, saw, unsure, outcome,
          call, container, granted, pending, identified, failed, denied, lifecycle, abandon,
          smooth, returned,
          box, clientLock, client, oracle, at, number, seen, worker, noted, errors, told
group         == <<life, member, holds, doomed, exit, pc, late>>
childOnly     == <<end, reading, cancel, wrong, childAnswer>>
handoffOnly   == <<open, tired, phase, listed, known, saw, unsure, outcome>>
containerOnly == <<call, container, granted, pending, identified, failed, denied, lifecycle,
                   abandon, smooth, returned>>
oracleOnly    == <<box, clientLock, client, oracle, at, number, seen, worker, noted, errors, told>>
all == <<which, vars, group, childOnly, handoffOnly, containerOnly, oracleOnly>>

C == INSTANCE ChildProcess WITH answer <- childAnswer
H == INSTANCE HandoffChild
D == INSTANCE OwnedContainer WITH at <- call, known <- identified, cancel <- abandon,
                                  answer <- returned
O == INSTANCE OracleExchange WITH done <- told

ChildRests   == /\ end = "none" /\ reading = {} /\ cancel = FALSE /\ wrong = FALSE
                /\ childAnswer = C!Nothing
HandoffRests == /\ open = {} /\ tired = FALSE /\ phase = "success" /\ listed = {} /\ known = {}
                /\ saw = FALSE /\ unsure = FALSE /\ outcome = "none"

AllInit == /\ D!ContainerInit /\ O!ExchangeInit /\ Init
           /\ \/ which \in {"child", "container", "oracle", "record"} /\ C!ChildInit /\ HandoffRests
              \/ which = "handoff" /\ H!HandoffInit /\ ChildRests

OfChild     == which = "child" /\ UNCHANGED <<which, vars, handoffOnly, containerOnly, oracleOnly>>
OfHandoff   == which = "handoff" /\ UNCHANGED <<which, vars, childOnly, containerOnly, oracleOnly>>
OfContainer == which = "container" /\ UNCHANGED <<which, vars, group, childOnly, handoffOnly, oracleOnly>>
OfOracle    == which = "oracle" /\ UNCHANGED <<which, vars, group, childOnly, handoffOnly, containerOnly>>
OfRecord    == which = "record" /\ UNCHANGED <<which, group, childOnly, handoffOnly, containerOnly, oracleOnly>>

AllNext == \/ OfChild /\ C!ChildNext
           \/ OfHandoff /\ H!HandoffNext
           \/ OfContainer /\ D!ContainerNext
           \/ OfOracle /\ O!ExchangeNext
           \/ OfRecord /\ Next

\* The fairness of each, over the behaviours that are its own.
AllFairness ==
    /\ WF_all(OfChild /\ C!Caller) /\ WF_all(OfChild /\ C!Deadline)
    /\ WF_all(OfHandoff /\ H!Caller) /\ WF_all(OfHandoff /\ H!Deadline)
    /\ WF_all(OfHandoff /\ H!TwoSeconds)
    /\ WF_all(OfContainer /\ D!Controller)
    /\ WF_all(OfOracle /\ O!Supervises) /\ WF_all(OfOracle /\ O!OracleEnds)
    /\ WF_all(OfOracle /\ O!Announce)
    /\ WF_all(OfRecord /\ Step) /\ WF_all(OfRecord /\ Open("read"))
    /\ WF_all(OfRecord /\ Repair("authority"))

AllSpec == AllInit /\ [][AllNext]_all /\ AllFairness

HonestOutcome == /\ which = "child" => C!ChildOutcome
                 /\ which = "handoff" => H!GroupClosed
                 /\ which = "container" => D!CleanupIsTrue
ExchangeIsFaithful == which = "oracle" => O!ExchangeIsFaithful

Answers == <>(CASE which = "container" -> call = "done"
                [] which = "oracle"    -> at = "done"
                [] which = "record"    -> TRUE
                [] OTHER               -> pc = "done")
\* The transaction of a record is settled by later commands.
TransactionSettles == which = "record" => Settles
=============================================================================
