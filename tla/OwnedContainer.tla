--------------------------- MODULE OwnedContainer ---------------------------
(***************************************************************************)
(* run_owned (coding_trial_docker.py): one container of a coding trial is  *)
(* created, inspected, started, killed when it still runs and removed, by  *)
(* calls of the Docker client.  A call may be refused, lose its answer     *)
(* (its time is up, its output is cut: the daemon may still do it later)   *)
(* or be interrupted; the caller may be cancelled; the command inside runs *)
(* as long as it likes.  The daemon is outside src/.                       *)
(***************************************************************************)

VARIABLES at,         \* the call the controller stands at
          container,  \* what the daemon has: none, created, running, stopped, removed
          granted,    \* whether it was created with the grants that were asked for
          pending,    \* calls given up that the daemon may still carry out
          known,      \* the exact identifier is known
          failed,     \* something went wrong before the cleanup
          denied,     \* the stopped container denied execution
          lifecycle,  \* unverified, failed, verified
          cancel,     \* the event of the caller
          smooth,     \* every call was answered as it should be
          answer      \* none, returned, raised
containerVars == <<at, container, granted, pending, known, failed, denied, lifecycle, cancel,
                   smooth, answer>>

Results == {"ok", "refused", "lost", "interrupted"}
Exists  == container \in {"created", "running", "stopped"}
Daemon  == <<container, granted, pending>>

ContainerInit ==
    /\ at = "preflight" /\ container = "none" /\ granted = TRUE /\ pending = {}
    /\ known = FALSE /\ failed = FALSE /\ denied = TRUE /\ lifecycle = "unverified"
    /\ cancel = FALSE /\ smooth = TRUE /\ answer = "none"

(* The calls that look at the caller's event: creation and cleanup do not. *)
Watches(call) == call \in {"preflight", "inspect", "start"}
Stopped(call) == cancel /\ Watches(call)

Smooth(call, a) == smooth' = (smooth /\ (a = "ok" \/ Stopped(call)))
GoesTo(place) == at' = place /\ UNCHANGED answer
Raise         == at' = "done" /\ answer' = "raised"
Given(call)   == IF Stopped(call) THEN {"refused"} ELSE Results
GivenUp(call, a) == pending' = IF a \in {"lost", "interrupted"} THEN pending \cup {call} ELSE pending

(* Reading only, nothing of the container exists yet. *)
Preflight ==
    /\ at = "preflight"
    /\ \/ ~Stopped("preflight") /\ GoesTo("create")
       \/ Raise
    /\ UNCHANGED <<Daemon, known, failed, denied, lifecycle, cancel, smooth>>

(* The client writes the cidfile when the daemon has answered. *)
Create ==
    /\ at = "create" /\ GoesTo("identify")
    /\ \E a \in Results, made \in BOOLEAN :
          /\ a = "ok" => made
          /\ a = "refused" => ~made
          /\ container' = IF made THEN "created" ELSE "none"
          /\ granted' \in (IF made THEN BOOLEAN ELSE {TRUE})
          /\ IF made THEN UNCHANGED pending ELSE GivenUp("create", a)
          /\ known' \in (IF a = "ok" THEN {TRUE} ELSE {FALSE, made})
          /\ failed' = (a # "ok")
          /\ Smooth("create", a)
    /\ UNCHANGED <<denied, lifecycle, cancel>>

(* Without an exact identifier nothing may be touched. *)
Identify ==
    /\ at = "identify"
    /\ IF known THEN GoesTo("inspect") ELSE Raise
    /\ UNCHANGED <<Daemon, known, failed, denied, lifecycle, cancel, smooth>>

(* _inspect, _owned, _grants *)
Inspect ==
    /\ at = "inspect"
    /\ \E a \in Results :
          /\ Smooth("inspect", a)
          /\ failed' = (failed \/ a # "ok" \/ ~granted \/ Stopped("inspect"))
          /\ GoesTo(IF failed' THEN "look" ELSE "start")
    /\ UNCHANGED <<Daemon, known, denied, lifecycle, cancel>>

(* A refused start may be a result like any other (coding_trial_docker.py, *)
(* the special case for the image's interpreter).                          *)
Start ==
    /\ at = "start"
    /\ \E a \in Given("start"), begun \in BOOLEAN :
          /\ a = "ok" => begun
          /\ a = "refused" => ~begun
          /\ container' = IF begun THEN "running" ELSE container
          /\ IF begun THEN UNCHANGED pending ELSE GivenUp("start", a)
          /\ GoesTo(IF a = "ok" THEN "attached" ELSE "look")
          /\ failed' \in (CASE a = "interrupted" \/ Stopped("start") -> {TRUE}
                            [] a = "refused" -> BOOLEAN
                            [] OTHER -> {FALSE})
          /\ Smooth("start", a)
    /\ UNCHANGED <<granted, known, denied, lifecycle, cancel>>

(* execute returns when the command has ended, its time is up or the event *)
(* is set, which takes away the client only; or it is interrupted.         *)
Attached ==
    /\ at = "attached" /\ GoesTo("look")
    /\ failed' \in BOOLEAN
    /\ smooth' = (smooth /\ ~failed')
    /\ UNCHANGED <<Daemon, known, denied, lifecycle, cancel>>

(* In the cleanup a call that fails is an outcome, an interruption is not  *)
(* caught.                                                                 *)
Cleans(call, a, next) ==
    /\ Smooth(call, a)
    /\ CASE a = "ok" -> GoesTo(next) /\ UNCHANGED lifecycle
         [] a = "interrupted" -> Raise /\ UNCHANGED lifecycle
         [] OTHER -> GoesTo("record") /\ lifecycle' = "failed"
    /\ UNCHANGED <<granted, known, failed, denied, cancel>>

Look ==
    /\ at = "look"
    /\ \E a \in Given("look") : Cleans("look", a, IF container = "running" THEN "kill" ELSE "exec")
    /\ UNCHANGED <<container, pending>>

(* A container that has ended meanwhile cannot be killed. *)
Kill ==
    /\ at = "kill"
    /\ \E a \in Given("kill") :
          /\ a = "ok" => container = "running"
          /\ Cleans("kill", a, "look again")
          /\ container' = IF a = "ok" THEN "stopped" ELSE container
          /\ GivenUp("kill", a)

LookAgain ==
    /\ at = "look again"
    /\ \E a \in Results : /\ a = "ok" => container # "running"
                          /\ Cleans("look again", a, "exec")
    /\ UNCHANGED <<container, pending>>

(* A diagnostic: the stopped container must deny execution. *)
Exec ==
    /\ at = "exec"
    /\ \E a \in Results :
          /\ Smooth("exec", a)
          /\ IF a = "interrupted" THEN Raise ELSE GoesTo("remove")
          /\ denied' = (a = "ok" /\ container # "running")
    /\ UNCHANGED <<Daemon, known, failed, lifecycle, cancel>>

(* docker rm without force *)
Remove ==
    /\ at = "remove"
    /\ \E a \in Given("remove") :
          /\ a = "ok" => container # "running"
          /\ Cleans("remove", a, "absent")
          /\ container' = IF a = "ok" THEN "removed" ELSE container
          /\ GivenUp("remove", a)

ConfirmAbsent ==
    /\ at = "absent"
    /\ \E a \in Results :
          /\ Smooth("absent", a)
          /\ IF a = "interrupted" THEN Raise /\ UNCHANGED lifecycle
             ELSE /\ GoesTo("record")
                  /\ lifecycle' = IF a = "ok" /\ ~Exists /\ denied THEN "verified" ELSE "failed"
    /\ UNCHANGED <<Daemon, known, failed, denied, cancel>>

Record ==
    /\ at = "record" /\ at' = "done"
    /\ answer' = IF failed THEN "raised" ELSE "returned"
    /\ UNCHANGED <<Daemon, known, failed, denied, lifecycle, cancel, smooth>>

-----------------------------------------------------------------------------
Controller == \/ Preflight \/ Create \/ Identify \/ Inspect \/ Start \/ Attached \/ Look \/ Kill
              \/ LookAgain \/ Exec \/ Remove \/ ConfirmAbsent \/ Record

Aside == UNCHANGED <<at, granted, known, failed, denied, lifecycle, smooth, answer>>

(* The command inside ends. *)
CommandEnds == container = "running" /\ container' = "stopped" /\ Aside /\ UNCHANGED <<pending, cancel>>

(* The daemon gets to a call its client has given up, or never will. *)
Later(call) == CASE call = "create" /\ container = "none" -> "created"
                 [] call = "start" /\ container = "created" -> "running"
                 [] call = "kill" /\ container = "running" -> "stopped"
                 [] call = "remove" /\ container \in {"created", "stopped"} -> "removed"
                 [] OTHER -> container
CatchesUp ==
    \E call \in pending : /\ pending' = pending \ {call}
                          /\ container' \in {container, Later(call)}
                          /\ Aside /\ UNCHANGED cancel

CallerCancels == ~cancel /\ at # "done" /\ cancel' = TRUE /\ Aside /\ UNCHANGED <<container, pending>>

ContainerNext == Controller \/ CommandEnds \/ CatchesUp \/ CallerCancels

-----------------------------------------------------------------------------
(* What the lifecycle says of the container is true: a cleanup that is     *)
(* verified left none and none will come back, a call that returns says    *)
(* how its cleanup went, and a cancellation or a deadline alone never      *)
(* leaves a container behind (run_owned).                                  *)
CleanupIsTrue ==
    /\ lifecycle = "verified" => container = "removed"
    /\ answer = "returned" => lifecycle # "unverified"
    /\ at = "done" /\ smooth => ~Exists
=============================================================================
