-------------------------- MODULE MutablePlanProps --------------------------
(* Properties of MutablePlan. *)
EXTENDS MutablePlan

Running == {p \in Processes : proc[p].pc # "idle"}

\* Every variable keeps its type, and what runs holds the lock and works on the
\* state as it is saved (file_lock around _mutable_record_section).
TypeOK ==
  /\ plan \in Plans
  /\ DOMAIN state = {"completed", "pending"}
  /\ DOMAIN state.completed \cup state.pending \subseteq Sections
  /\ \A s \in DOMAIN state.completed : state.completed[s].shown \in Plans \cup {Attested}
  /\ receipts \in [Sections -> Plans \cup {None}]
  /\ Running = {lock} \ {None}
  /\ \A p \in Running : proc[p].pc # "load" /\ proc[p].pc # "gate" => proc[p].saved = state
  /\ spent \in [edits : 0..MaxEdits, faults : 0..MaxFaults]

\* Interrupted or unfinished checks unlock nothing: no section counts whose record was
\* published and not yet decided on, or that waits for a retry, or that comes after
\* such a one ("Publish evidence as pending first", workflows.py:471).
NothingCountsEarly ==
  LET done == Effective(state, plan)
  IN  \A s \in done : /\ state.completed[s].decided
                      /\ ({s} \cup Before(plan.index, s)) \cap state.pending = {}
                      /\ Before(plan.index, s) \subseteq done

\* A section that waits for its checks is let go only when they were run on it, or
\* by an advisory postflight, which blocks nothing ("its checks have not passed",
\* workflows.py:467).
PendingWaitsForChecks ==
  [][\A s \in state.pending \ state'.pending :
       \E p \in Processes : proc[p].pc = "gate" /\ proc[p].sec = s]_vars

\* A receipt speaks for the contract that counts: nothing of a section that counts by
\* a captured run, or of those before it, has changed since that run, unless while the
\* very command recorded it (receipt_error, completion_evidence_findings).
RunsSpeakForContracts ==
  \A s \in Effective(state, plan) :
    LET shown == state.completed[s].shown
    IN  shown # Attested =>
          \A t \in {s} \cup Before(plan.index, s) :
            shown.text[t] = plan.text[t] /\ Needs(shown.index, t) = Needs(plan.index, t)

\* Every layer of the parallel plan waits for the ones before it and has one owner of
\* each path; what is in no layer goes round in circles or after a section the manifest
\* does not have, or after one of those, unless these count already (parallel_plan,
\* ready_sections).
LayersAreSound ==
  LET graph  == plan.index
      done   == Effective(state, plan)
      todo   == ParallelPlan(graph, done)
      layers == todo.layers
      early(i) == done \cup UNION {layers[j] : j \in 1..(i - 1)}
      stuck(s) == \E t \in ({s} \cup Before(graph, s)) \ done :
                    t \notin DOMAIN graph \/ t \in Before(graph, t)
  IN  /\ \A i \in DOMAIN layers : \A s \in layers[i] :
           /\ Needs(graph, s) \subseteq early(i)
           /\ s \notin early(i)
           /\ \A t \in layers[i] \ {s} : <<s, t>> \notin Clash
      /\ Len(layers) > 0 => layers[1] \subseteq Ready(graph, done)
      /\ todo.unresolved = {s \in DOMAIN graph \ done : stuck(s)}

\* Sections are closed, held back and let go as the ledger says, one at a time: no
\* record is lost to another command, and whoever was let go was closed.
Ledger == INSTANCE SectionLedger WITH
  closed <- DOMAIN state.completed,
  held <- state.pending
ImplementsLedger == Ledger!Spec

-----------------------------------------------------------------------------
\* The manifest has every predecessor and no circle.
WellFormed(graph) ==
  \A s \in DOMAIN graph : Before(graph, s) \subseteq DOMAIN graph \ {s}

\* "Retry completion recording to resolve pending or failed postflight checks"
\* (flights.py:340): whoever keeps recording gets a pending section resolved, as long as it
\* and a sound index stay in the plan.
RetryResolves ==
  \A s \in Sections :
    <>[](WellFormed(plan.index) /\ s \in DOMAIN plan.index) => []<>(s \notin state.pending)

\* The same as the message has it, for any pending section.
EveryRetryResolves ==
  \A s \in Sections : <>[]WellFormed(plan.index) => []<>(s \notin state.pending)
=============================================================================
