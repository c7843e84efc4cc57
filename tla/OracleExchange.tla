--------------------------- MODULE OracleExchange ---------------------------
(***************************************************************************)
(* The private oracle of an assessment and its supervisor                  *)
(* (coding_trial_assessment_execution.py, _oracle; the oracle's side is    *)
(* coding_trial_observation_client.py).  The oracle asks for observations  *)
(* of the candidate through files in a mailbox: a directory per request,   *)
(* written before its ready mark; the supervisor runs a worker for each    *)
(* and writes the response before its ready mark.  Either may fail at any  *)
(* step; the oracle runs under a deadline and may use several threads.     *)
(***************************************************************************)
EXTENDS Naturals

CONSTANTS Threads,     \* threads of the oracle that observe
          Ids,         \* identifiers of requests
          MaxNumber    \* bound: directories of the mailbox

VARIABLES box,        \* the directories of the mailbox
          clientLock, \* client.lock: the thread that made it, or Nobody
          client,     \* the threads of the oracle
          oracle,     \* live, passed, failed
          at,         \* where the supervisor stands
          number,     \* the observation it waits for
          seen,       \* identifiers it has taken
          worker,     \* what the worker said last: an identifier
          noted,      \* observations it has saved with a response
          errors,     \* whether its output has errors
          done        \* the event that says the oracle has ended
mailbox    == <<box, clientLock>>
theOracle  == <<clientLock, client, oracle>>
supervisor == <<at, number, seen, worker, noted, errors, done>>
exchangeVars == <<mailbox, client, oracle, supervisor>>

Nobody  == "nobody"
NoId    == 0
Numbers == 1..MaxNumber
Empty   == [request |-> "none", id |-> NoId, response |-> "none", says |-> NoId]
Resting == [at |-> "out", id |-> NoId, n |-> 0, got |-> NoId]
Made    == {n \in Numbers : box[n].request # "none"}
Live    == oracle = "live"

ExchangeInit ==
    /\ box = [n \in Numbers |-> Empty] /\ clientLock = Nobody
    /\ client = [t \in Threads |-> Resting] /\ oracle = "live"
    /\ at = "wait" /\ number = 1 /\ seen = {} /\ worker = NoId
    /\ noted = {} /\ errors = FALSE /\ done = FALSE

-----------------------------------------------------------------------------
(* observe, in a thread of the oracle. *)
Leaves(t, got) == /\ client' = [client EXCEPT ![t].at = "out", ![t].got = got]
                  /\ clientLock' = Nobody

Lock(t) ==
    /\ Live /\ client[t].at = "out" /\ clientLock = Nobody
    /\ clientLock' = t
    /\ \E id \in Ids : client' = [client EXCEPT ![t] = [Resting EXCEPT !.at = "next", !.id = id]]
    /\ UNCHANGED <<box, oracle, supervisor>>

(* _next_directory: every earlier observation is complete. *)
NextDirectory(t) ==
    /\ Live /\ client[t].at = "next" /\ Made # Numbers
    /\ \A n \in Made : box[n].request = "ready" /\ box[n].response = "ready"
    /\ LET n == CHOOSE m \in Numbers \ Made : \A k \in 1..(m - 1) : k \in Made IN
       /\ box' = [box EXCEPT ![n] = [Empty EXCEPT !.request = "made"]]
       /\ client' = [client EXCEPT ![t].at = "write", ![t].n = n]
    /\ UNCHANGED <<clientLock, oracle, supervisor>>

WriteRequest(t) ==
    /\ Live /\ client[t].at = "write"
    /\ box' = [box EXCEPT ![client[t].n].request = "json", ![client[t].n].id = client[t].id]
    /\ client' = [client EXCEPT ![t].at = "mark"]
    /\ UNCHANGED <<clientLock, oracle, supervisor>>

MarkRequest(t) ==
    /\ Live /\ client[t].at = "mark"
    /\ box' = [box EXCEPT ![client[t].n].request = "ready"]
    /\ client' = [client EXCEPT ![t].at = "wait"]
    /\ UNCHANGED <<clientLock, oracle, supervisor>>

(* _response: the identity of the response is looked at once more. *)
TakeResponse(t) ==
    /\ Live /\ client[t].at = "wait" /\ box[client[t].n].response = "ready"
    /\ Leaves(t, IF box[client[t].n].says = client[t].id THEN client[t].id ELSE NoId)
    /\ UNCHANGED <<box, oracle, supervisor>>

(* Whatever raises inside observe, a mailbox that is not in order included. *)
GiveUp(t) ==
    /\ Live /\ client[t].at # "out"
    /\ Leaves(t, NoId)
    /\ UNCHANGED <<box, oracle, supervisor>>

(* The process ends by itself, at its deadline or cancelled, which its own *)
(* end may outrun; its threads go with it, the lock file stays.            *)
OracleEnds ==
    /\ Live
    /\ oracle' \in {"passed", "failed"}
    /\ client' = [t \in Threads |-> [client[t] EXCEPT !.at = "out"]]
    /\ UNCHANGED <<mailbox, supervisor>>

(* invoke, the thread of the supervisor that has waited for it. *)
Announce ==
    /\ ~Live /\ ~done /\ done' = TRUE
    /\ UNCHANGED <<mailbox, client, oracle, at, number, seen, worker, noted, errors>>

-----------------------------------------------------------------------------
(* _oracle, the supervisor. *)
Fails == errors' = TRUE /\ at' = "close"

(* The loop: an observation whose request is marked, or the oracle's end. *)
Receive ==
    /\ at = "wait" /\ ~done /\ number \in Numbers /\ box[number].request = "ready"
    /\ IF box[number].id \in seen
       THEN Fails /\ UNCHANGED seen
       ELSE seen' = seen \cup {box[number].id} /\ at' = "work" /\ UNCHANGED errors
    /\ UNCHANGED <<mailbox, client, oracle, number, worker, noted, done>>

(* _isolated: the worker answers something, or the run or its cleanup fails. *)
RunWorker ==
    /\ at = "work"
    /\ \/ Fails /\ UNCHANGED worker
       \/ \E id \in Ids : worker' = id /\ at' = "publish" /\ UNCHANGED errors
    /\ UNCHANGED <<mailbox, client, oracle, number, seen, noted, done>>

Publish ==
    /\ at = "publish"
    /\ IF worker = box[number].id /\ ~done
       THEN /\ box' = [box EXCEPT ![number].response = "json", ![number].says = worker]
            /\ at' = "mark" /\ UNCHANGED errors
       ELSE Fails /\ UNCHANGED box
    /\ UNCHANGED <<clientLock, client, oracle, number, seen, worker, noted, done>>

MarkResponse ==
    /\ at = "mark"
    /\ box' = [box EXCEPT ![number].response = "ready"]
    /\ at' = "note"
    /\ UNCHANGED <<clientLock, client, oracle, number, seen, worker, noted, errors, done>>

(* observation-N.json *)
Note ==
    /\ at = "note" /\ at' = "wait"
    /\ noted' = noted \cup {number} /\ number' = number + 1
    /\ UNCHANGED <<mailbox, client, oracle, seen, worker, errors, done>>

\* Slip: only a request that is marked counts as left behind.
UnhandledSlip == number \in Numbers /\ box[number].request = "ready"
Unhandled == number \in Numbers /\ box[number].request # "none"

Close ==
    /\ at = "wait" /\ done /\ at' = "close"
    /\ errors' = (errors \/ Unhandled)
    /\ UNCHANGED <<mailbox, client, oracle, number, seen, worker, noted, done>>

(* An interruption of the supervisor, or files of the mailbox that changed. *)
Interrupted ==
    /\ at \in {"wait", "work", "publish", "mark", "note"} /\ Fails
    /\ UNCHANGED <<mailbox, client, oracle, number, seen, worker, noted, done>>

(* thread.join, then the result of the process and the receipt. *)
Join ==
    /\ at = "close" /\ done /\ at' = "done"
    /\ errors' \in (IF oracle = "passed" /\ ~errors THEN BOOLEAN ELSE {TRUE})
    /\ UNCHANGED <<mailbox, client, oracle, number, seen, worker, noted, done>>

-----------------------------------------------------------------------------
Supervises == \/ Receive \/ RunWorker \/ Publish \/ MarkResponse \/ Note \/ Close \/ Interrupted
              \/ Join

ExchangeNext ==
    \/ Supervises \/ OracleEnds \/ Announce
    \/ \E t \in Threads : \/ Lock(t) \/ NextDirectory(t) \/ WriteRequest(t) \/ MarkRequest(t)
                          \/ TakeResponse(t) \/ GiveUp(t)

(* A thread of the oracle gets the answer to its own request, to which no  *)
(* other one is ever sent, and output without errors means that the oracle *)
(* passed and every observation it began was answered and saved (_oracle,  *)
(* observe).                                                               *)
ExchangeIsFaithful ==
    /\ \A n \in Numbers : box[n].response # "none" => box[n].says = box[n].id
    /\ \A m, n \in Made : m # n /\ box[m].response # "none" /\ box[n].response # "none"
                             => box[m].says # box[n].says
    /\ at = "done" /\ ~errors => /\ oracle = "passed"
                                 /\ Made = noted
                                 /\ \A n \in Made : box[n].response = "ready"
=============================================================================
