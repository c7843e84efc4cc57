--------------------------- MODULE DetachedSetup ---------------------------
(***************************************************************************)
(* The detached setup (detached_setup.py, detached_state.py) and the       *)
(* progress command (detached_progress.py, detached_context.py): commands  *)
(* on one implementation root take the global lock one after the other     *)
(* (locks.py).  The setup reserves config, state and progress with pending *)
(* objects that name its inputs, then promotes them in that order.  It may *)
(* be killed at every step, its calls may fail, and the inputs (planning   *)
(* tree, admission pinner, sources, target) may change under it.           *)
(***************************************************************************)
EXTENDS Naturals, Sequences, FiniteSets

CONSTANTS Commands,     \* command processes
          Plans,        \* what the inputs of a setup can be
          MaxJobs,      \* bound: commands started
          MaxDrifts     \* bound: changes of the inputs

VARIABLES plan,         \* the inputs as they are now
          root,         \* the implementation root
          countsFiles,  \* whether this file system counts files as links of a directory
          lock,         \* the command that holds the locks, or NoCommand
          cmd,          \* the commands
          used          \* jobs and drifts so far
setupVars == <<plan, root, countsFiles, lock, cmd, used>>

NoCommand == "nobody"
Slots == {"config", "state", "progress"}
Dirs  == {"code_review", "evidence", "pinners"}
\* DETACHED_ROOT_RECOVERABLE_TEMPS: of a reservation, and of a write.
Temps == {"setup", "write"} \X Slots

Absent       == [kind |-> "absent", of |-> 0, links |-> 0, events |-> 0]
Pending(p)   == [Absent EXCEPT !.kind = "pending", !.of = p]
Final(s, p, n) == [Absent EXCEPT !.kind = "final", !.of = p,
                                 !.links = IF s = "progress" THEN 0 ELSE n]

Links == Cardinality(root.dirs)
         + IF countsFiles THEN Cardinality(root.temps)
                               + Cardinality({s \in Slots : root.slot[s] # Absent})
                          ELSE 0
\* require_detached_root_identity_through_recoverable_temps
SameRoot(n) == n \in {Links, Links - Cardinality(root.temps)}

\* load_detached_config, load_detached_state, load_detached_progress
BoundTo(s, p) == /\ root.slot[s].kind = "final" /\ root.slot[s].of = p
                 /\ s = "state" => root.slot[s].links = root.slot["config"].links
IsPending(s, p) == root.slot[s] = Pending(p)

Files == {s \in Slots : root.slot[s] # Absent}
\* _validate_setup_replay
Fresh == Files = {}
PrefixOf(p) == /\ IsPending("config", p)
               /\ root.dirs = Dirs /\ root.marker
               /\ Files \in {{"config"}, {"config", "state"}, Slots}
               /\ \A s \in Files : IsPending(s, p)
CompleteOf(p) == /\ BoundTo("config", p) /\ SameRoot(root.slot["config"].links)
                 /\ root.dirs = Dirs /\ Files = Slots /\ root.marker
                 /\ \A s \in Slots : IsPending(s, p) \/ BoundTo(s, p)
                 /\ IsPending("state", p) => IsPending("progress", p)
\* Slip: only the whole pending set may be adopted.
ReplayableSlip(p) == Fresh \/ (PrefixOf(p) /\ Files = Slots) \/ CompleteOf(p)
Replayable(p) == Fresh \/ PrefixOf(p) \/ CompleteOf(p)

Reserving == [config |-> "reserve_config", state |-> "reserve_state",
              progress |-> "reserve_progress"]
Promoting == [config |-> "promote_config", state |-> "promote_state",
              progress |-> "promote_progress"]

\* The order of the calls; "agree" is verify_detached_authorities and the like.
Script == [
  setup    |-> <<"look", "lock", "agree", "replay", "sweep", "pinners", "marker",
                 "code_review", "evidence", Reserving["config"], Reserving["state"],
                 Reserving["progress"], "identify", Promoting["config"],
                 Promoting["state"], Promoting["progress"], "agree", "answer">>,
  progress |-> <<"lock", "look", "open", "sweep", "unmoved", "add", "agree", "answer">>]

Step(c)    == IF cmd[c].kind = "none" THEN "none" ELSE Script[cmd[c].kind][cmd[c].at]
Running(c) == cmd[c].kind # "none"
Resting    == [kind |-> "none", at |-> 0, look |-> 0, links |-> 0, temp |-> {}]

\* A root that is not set up, or was set up and used on an earlier day.
Empty       == [dirs |-> {}, marker |-> FALSE, temps |-> {}, slot |-> [s \in Slots |-> Absent]]
Complete(p) == LET links == Cardinality(Dirs) + IF countsFiles THEN Cardinality(Slots) ELSE 0
               IN [dirs |-> Dirs, marker |-> TRUE, temps |-> {},
                   slot |-> [s \in Slots |-> [Final(s, p, links) EXCEPT
                                !.events = IF s = "progress" THEN 1 ELSE 0]]]

SetupInit ==
    /\ plan \in Plans /\ countsFiles \in BOOLEAN
    /\ root \in {Empty} \cup {Complete(p) : p \in Plans}
    /\ lock = NoCommand
    /\ cmd = [c \in Commands |-> Resting]
    /\ used = [jobs |-> 0, drifts |-> 0]

-----------------------------------------------------------------------------
\* What the step a command stands at demands.
\* verify_unchanged, reopen_admission_pinner, verify_implementation_sources and the target
SameInputs(c) == plan = cmd[c].look
\* verify_detached_authorities
Agrees(c) == /\ SameInputs(c)
             /\ cmd[c].at > 3 =>    \* before, the setup has no config yet
                  BoundTo("config", plan) /\ root.slot["config"].links = Links

Permits(c) ==
    LET s == Step(c) p == cmd[c].look IN
    CASE s = "agree"   -> Agrees(c)
      [] s = "replay"  -> Replayable(p)
      [] s = "open"    -> /\ SameInputs(c) /\ \A t \in Slots : BoundTo(t, p)
                          /\ SameRoot(root.slot["config"].links)
                          /\ root.dirs = Dirs /\ root.marker
      [] s = "unmoved" -> root.slot["config"].links = Links
      [] s = Promoting["config"] ->
            \/ BoundTo("config", p) /\ root.slot["config"].links = cmd[c].links
            \/ \A t \in Slots : IsPending(t, p)
      [] s = Promoting["state"] ->
            IF IsPending("state", p) THEN IsPending("progress", p) ELSE BoundTo("state", p)
      [] s = Promoting["progress"] -> IsPending("progress", p) \/ BoundTo("progress", p)
      [] OTHER -> TRUE

Goes(c) == cmd' = [cmd EXCEPT ![c].at = @ + 1, ![c].temp = {}]
Go(c)   == Permits(c) /\ Goes(c)

Begin(c, kind) ==
    /\ ~Running(c) /\ used.jobs < MaxJobs
    /\ cmd' = [cmd EXCEPT ![c] = [Resting EXCEPT !.kind = kind, !.at = 1]]
    /\ used' = [used EXCEPT !.jobs = @ + 1]
    /\ UNCHANGED <<plan, root, countsFiles, lock>>

\* FrozenPlanningTree.open, the admission pinner and the sources
Look(c) == /\ Step(c) = "look"
           /\ cmd' = [cmd EXCEPT ![c].look = plan, ![c].at = @ + 1]
           /\ UNCHANGED <<plan, root, countsFiles, lock, used>>

Lock(c) == /\ Step(c) = "lock" /\ lock = NoCommand
           /\ lock' = c /\ Go(c)
           /\ UNCHANGED <<plan, root, countsFiles, used>>

Check(c) == /\ Step(c) \in {"agree", "replay", "open", "unmoved"} /\ Go(c)
            /\ UNCHANGED <<plan, root, countsFiles, lock, used>>

Changes(r) == root' = r /\ UNCHANGED <<plan, countsFiles, lock, used>>

\* recover_detached_root_temps_locked
Sweep(c) == /\ Step(c) = "sweep"
            /\ \/ /\ \E t \in root.temps : Changes([root EXCEPT !.temps = @ \ {t}])
                  /\ UNCHANGED cmd
               \/ root.temps = {} /\ Go(c) /\ Changes(root)

MakeDirectory(c) == /\ Step(c) \in Dirs /\ Go(c)
                    /\ Changes([root EXCEPT !.dirs = @ \cup {Step(c)}])
Marker(c) == /\ Step(c) = "marker" /\ Go(c) /\ Changes([root EXCEPT !.marker = TRUE])

Identify(c) == /\ Step(c) = "identify"
               /\ cmd' = [cmd EXCEPT ![c].links = Links, ![c].at = @ + 1]
               /\ UNCHANGED <<plan, root, countsFiles, lock, used>>

\* A temporary file that must not be there yet, then a rename.
Temp(c, t) == /\ Permits(c) /\ cmd[c].temp = {} /\ t \notin root.temps
              /\ cmd' = [cmd EXCEPT ![c].temp = {t}]
              /\ Changes([root EXCEPT !.temps = @ \cup {t}])
Rename(c, t, payload) == /\ cmd[c].temp = {t} /\ Goes(c)
                         /\ Changes([root EXCEPT !.temps = @ \ {t},
                                                 !.slot[t[2]] = payload])

\* ensure_detached_root_file_slot
Reserve(c, s) ==
    /\ Step(c) = Reserving[s]
    /\ IF root.slot[s] # Absent THEN Go(c) /\ Changes(root)
       ELSE \/ Temp(c, <<"setup", s>>)
            \/ Rename(c, <<"setup", s>>, Pending(cmd[c].look))

\* Slip: the promotion writes over what is there.
KeepsSlip(c, s) == FALSE
Keeps(c, s) == ~IsPending(s, cmd[c].look)

\* _publish_setup: what is still pending gets its first final content.
Promote(c, s) ==
    /\ Step(c) = Promoting[s]
    /\ IF Keeps(c, s) THEN Go(c) /\ Changes(root)
       ELSE \/ Temp(c, <<"write", s>>)
            \/ Rename(c, <<"write", s>>, Final(s, cmd[c].look, cmd[c].links))

\* detached_implement_progress
AppendEvent(c) ==
    /\ Step(c) = "add"
    /\ \/ Temp(c, <<"write", "progress">>)
       \/ Rename(c, <<"write", "progress">>, [root.slot["progress"] EXCEPT !.events = @ + 1])

Ends(c, r) == /\ cmd' = [cmd EXCEPT ![c] = Resting]
              /\ lock' = IF lock = c THEN NoCommand ELSE lock
              /\ root' = r /\ UNCHANGED <<plan, countsFiles, used>>

Answer(c) == Step(c) = "answer" /\ Ends(c, root)
\* A refusal or an error of the system; only a write takes its temporary file back.
Fail(c) == /\ Running(c)
           /\ Ends(c, [root EXCEPT !.temps = @ \ {t \in cmd[c].temp : t[1] = "write"}])
Kill(c) == Running(c) /\ Ends(c, root)

Drift == /\ used.drifts < MaxDrifts
         /\ plan' \in Plans \ {plan}
         /\ used' = [used EXCEPT !.drifts = @ + 1]
         /\ UNCHANGED <<root, countsFiles, lock, cmd>>

SetupNext ==
    \/ \E c \in Commands :
         \/ Look(c) \/ Lock(c) \/ Check(c) \/ Sweep(c) \/ MakeDirectory(c) \/ Marker(c)
         \/ Identify(c) \/ AppendEvent(c) \/ Answer(c) \/ Fail(c) \/ Kill(c)
         \/ \E kind \in DOMAIN Script : Begin(c, kind)
         \/ \E s \in Slots : Reserve(c, s) \/ Promote(c, s)
    \/ Drift

SetupSpec == SetupInit /\ [][SetupNext]_setupVars

-----------------------------------------------------------------------------
(***************************************************************************)
(* Whatever was killed or failed before, a root is bound to one set of     *)
(* inputs, a state is final only after the config and progress only after  *)
(* the state; a setup that reports success left all three final; and a     *)
(* command that holds the locks, whose inputs are the root's and did not   *)
(* change, is refused at no step.  (detached_setup.py:32-221)              *)
(***************************************************************************)
Mine(c) == plan = cmd[c].look /\ \A s \in Files : root.slot[s].of = plan
Free(c) == \A s \in Slots :
              /\ Step(c) = Reserving[s] => root.temps \subseteq cmd[c].temp
              /\ Step(c) = Promoting[s] => root.temps \subseteq cmd[c].temp

SetupSound ==
    /\ \A s, t \in Files : root.slot[s].of = root.slot[t].of
    /\ root.slot["state"].kind = "final" => root.slot["config"].kind = "final"
    /\ root.slot["progress"].kind = "final" => root.slot["state"].kind = "final"
    /\ \A c \in Commands :
         /\ Step(c) = "answer" => \A s \in Slots : root.slot[s].kind = "final"
         /\ lock = c /\ cmd[c].kind = "setup" /\ Step(c) # "lock" /\ Mine(c) =>
              Permits(c) /\ Free(c)

(***************************************************************************)
(* A final slot is never written over: the config and the state stay, and  *)
(* no event of the progress is lost, replays of the setup by whomever      *)
(* included.  (detached_setup.py:119, detached-protocol.md:133)            *)
(***************************************************************************)
FinalStands ==
    [][\A s \in Slots : root.slot[s].kind = "final" =>
          \E n \in {0, 1} : root'.slot[s] = [root.slot[s] EXCEPT !.events = @ + n]]_setupVars
=============================================================================
