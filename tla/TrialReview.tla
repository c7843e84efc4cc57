----------------------------- MODULE TrialReview -----------------------------
(***************************************************************************)
(* What is said of the candidates of a trial suite after they were frozen: *)
(* each position has a history of assessments, linked from its trial.json  *)
(* (coding_trial_assessment.py); a blind packet per generation carries a   *)
(* form for a reviewer, and the forms are applied as reviews, one position *)
(* after the other (coding_trial_suite_review.py); the report says which   *)
(* candidates passed (coding_trial_suite_matrix.py).  Commands of several  *)
(* processes interleave and any of them may be killed.                     *)
(***************************************************************************)
EXTENDS Naturals, Sequences

CONSTANTS Callers,        \* processes
          LastPosition,   \* positions of the schedule, one block
          MaxReviewJobs,  \* bound: commands in a run
          MaxFormEdits    \* bound: edits of the form in a run

VARIABLES history,       \* linked assessments of each position
          folders,       \* numbered assessment directories of each position
          returned,      \* assessments whose command said it was done
          packets, blinds,   \* packet indexes; blind directories
          form,          \* verdicts in the latest form
          applications,  \* review-history/applications
          proc, used
trial      == <<history, folders, returned>>
directory  == <<packets, blinds, form, applications>>
reviewVars == <<trial, directory, proc, used>>

Positions == 1..LastPosition
Verdicts  == {"pass", "fail"}
Blank     == [p \in Positions |-> "pending"]
NoForm    == [of |-> 0, verdict |-> "none"]
Check(n, good) == [kind |-> "check", behavior |-> n, good |-> good, form |-> NoForm,
                   raised |-> FALSE, passed |-> FALSE]
Idle == [job |-> "none", at |-> "idle", p |-> 1, base |-> <<>>, form |-> NoForm, result |-> <<>>,
         rows |-> <<>>, forms |-> Blank, app |-> 0]

\* Every position was assessed once when the reviews begin.
ReviewInit ==
    /\ history \in [Positions -> {<<Check(1, good)>> : good \in BOOLEAN}]
    /\ folders = [p \in Positions |-> {1}] /\ returned = {}
    /\ packets = <<>> /\ blinds = 0 /\ form = Blank /\ applications = <<>>
    /\ proc = [c \in Callers |-> Idle] /\ used = [jobs |-> 0, edits |-> 0]

At(c, place)   == proc[c].at = place
Step(c, new)   == proc' = [proc EXCEPT ![c] = new]
GoTo(c, place) == proc' = [proc EXCEPT ![c].at = place]

LastOf(assessments) == assessments[Len(assessments)]
\* 0: the last assessment has no behavior receipt
Behavior(p)         == LastOf(history[p]).behavior
BehaviorOk(p)       == history[p][Behavior(p)].good
Rows                == [p \in Positions |-> Behavior(p)]

-----------------------------------------------------------------------------
(* A check, or a review by hand with any form the reviewer may have got.   *)
Begin(c) ==
    /\ At(c, "idle") /\ used.jobs < MaxReviewJobs /\ used' = [used EXCEPT !.jobs = @ + 1]
    /\ \E p \in Positions :
       \/ Step(c, [Idle EXCEPT !.job = "check", !.at = "read", !.p = p])
       \/ \E f \in [of : 1..Len(history[p]), verdict : Verdicts] :
             Step(c, [Idle EXCEPT !.job = "review", !.at = "read", !.p = p, !.form = f])
       \/ p = 1 /\ \E job \in {"blind", "apply"} : Step(c, [Idle EXCEPT !.job = job, !.at = job])
    /\ UNCHANGED <<trial, directory>>

\* What an assessment that is refused leads to: an application notes it.
Refused(c) == IF proc[c].job = "apply" THEN GoTo(c, "failed") ELSE Step(c, Idle)

ReadAttempt(c) ==
    /\ At(c, "read") /\ Step(c, [proc[c] EXCEPT !.at = "folder", !.base = history[proc[c].p]])
    /\ UNCHANGED <<trial, directory, used>>

Number(c) == Len(proc[c].base) + 1
NewFolder(c) == Number(c) \notin folders[proc[c].p]

MakeFolder(c) ==
    /\ At(c, "folder")
    /\ IF NewFolder(c)
       THEN /\ folders' = [folders EXCEPT ![proc[c].p] = @ \cup {Number(c)}] /\ GoTo(c, "assess")
       ELSE Refused(c) /\ UNCHANGED folders
    /\ UNCHANGED <<history, returned, directory, used>>

(* The checks run, or the form is held against the last behavior receipt   *)
(* (_review); anything else that fails fails the assessment too.           *)
CheckResults(c) == {Check(0, FALSE), Check(Number(c), TRUE), Check(Number(c), FALSE)}
ReviewResults(c) ==
    LET base == proc[c].base
        f    == proc[c].form
        b    == LastOf(base).behavior
        Of(raised) == [kind |-> "review", behavior |-> b, good |-> FALSE, form |-> f, raised |-> raised,
                       passed |-> ~raised /\ f.verdict = "pass" /\ base[b].good]
    IN  {Of(raised) : raised \in IF b # 0 /\ f.of = b THEN BOOLEAN ELSE {TRUE}}

Assess(c) ==
    /\ At(c, "assess")
    /\ \E result \in (IF proc[c].job = "check" THEN CheckResults(c) ELSE ReviewResults(c)) :
          Step(c, [proc[c] EXCEPT !.at = "link", !.result = result])
    /\ UNCHANGED <<trial, directory, used>>

Compare(c) ==
    /\ At(c, "link")
    /\ IF history[proc[c].p] = proc[c].base THEN GoTo(c, "write") ELSE Refused(c)
    /\ UNCHANGED <<trial, directory, used>>

Link(c) ==
    /\ At(c, "write")
    /\ history' = [history EXCEPT ![proc[c].p] = Append(proc[c].base, proc[c].result)]
    /\ returned' = returned \cup {<<proc[c].p, Number(c), proc[c].result>>}
    /\ IF proc[c].job = "apply" THEN GoTo(c, "note") ELSE Step(c, Idle)
    /\ UNCHANGED <<folders, directory, used>>

-----------------------------------------------------------------------------
(* make_packets: what each position has is read, a directory is made for   *)
(* the generation and filled, and last its index is saved.                 *)
Reviewable == \A p \in Positions : Behavior(p) # 0
Contiguous == blinds = Len(packets)

Blind(c) ==
    /\ At(c, "blind")
    /\ IF Reviewable /\ Contiguous
       THEN Step(c, [proc[c] EXCEPT !.at = "copy", !.rows = Rows, !.app = Len(packets)]) ELSE Step(c, Idle)
    /\ UNCHANGED <<trial, directory, used>>

MakeBlind(c) ==
    /\ At(c, "copy")
    /\ IF blinds = proc[c].app THEN blinds' = blinds + 1 /\ GoTo(c, "index")
                               ELSE Step(c, Idle) /\ UNCHANGED blinds
    /\ UNCHANGED <<trial, packets, form, applications, used>>

SaveIndex(c) ==
    /\ At(c, "index")
    /\ packets' = Append(packets, proc[c].rows) /\ form' = Blank
    /\ Step(c, Idle) /\ UNCHANGED <<trial, blinds, applications, used>>

(* The reviewer fills in the latest form, and may change it afterwards.    *)
EditForm ==
    /\ packets # <<>> /\ used.edits < MaxFormEdits /\ used' = [used EXCEPT !.edits = @ + 1]
    /\ \E f \in [Positions -> Verdicts] : f # form /\ form' = f
    /\ UNCHANGED <<trial, packets, blinds, applications, proc>>

-----------------------------------------------------------------------------
(* apply_reviews: every row is valid before the first review is written.   *)
LatestPackets == Contiguous /\ packets # <<>> /\ Reviewable /\ LastOf(packets) = Rows
FormsHold     == \A p \in Positions : form[p] \in Verdicts

Apply(c) ==
    /\ At(c, "apply")
    /\ IF LatestPackets /\ FormsHold
       THEN /\ applications' = Append(applications, [packets |-> Len(packets), forms |-> form,
                  linked |-> [p \in Positions |-> 0], status |-> "open"])
            /\ Step(c, [proc[c] EXCEPT !.forms = form, !.rows = Rows, !.app = Len(applications) + 1,
                           !.p = 1, !.at = "read", !.form = [of |-> Rows[1], verdict |-> form[1]]])
       ELSE Step(c, Idle) /\ UNCHANGED applications
    /\ UNCHANGED <<trial, packets, blinds, form, used>>

(* _review_outcome: the decision is the one the form calls for.            *)
Outcome(assessment, verdict, good) ==
    ~assessment.raised /\ assessment.passed = (verdict = "pass" /\ good)

Note(c) ==
    LET p == proc[c].p
        good == history[p][proc[c].rows[p]].good
    IN
    /\ At(c, "note")
    /\ IF /\ LastOf(history[p]) = proc[c].result
          /\ Outcome(proc[c].result, proc[c].forms[p], good)
       THEN /\ applications' = [applications EXCEPT ![proc[c].app].linked[p] = Len(history[p])]
            /\ IF p = LastPosition THEN GoTo(c, "finish")
               ELSE Step(c, [proc[c] EXCEPT !.p = p + 1, !.at = "read",
                       !.form = [of |-> proc[c].rows[p + 1], verdict |-> proc[c].forms[p + 1]]])
       ELSE GoTo(c, "failed") /\ UNCHANGED applications
    /\ UNCHANGED <<trial, packets, blinds, form, used>>

Finish(c) ==
    /\ proc[c].at \in {"finish", "failed"} /\ Step(c, Idle)
    /\ applications' = [applications EXCEPT
          ![proc[c].app].status = IF At(c, "finish") THEN "completed" ELSE "failed"]
    /\ UNCHANGED <<trial, packets, blinds, form, used>>

(* A kill leaves everything as it is, an interrupted application says so.  *)
Kill(c) == ~At(c, "idle") /\ Step(c, Idle) /\ UNCHANGED <<trial, directory, used>>
Interrupt(c) == /\ proc[c].job = "apply" /\ proc[c].at \notin {"apply", "failed"}
                /\ GoTo(c, "failed") /\ UNCHANGED <<trial, directory, used>>

ReviewNext ==
    \/ \E c \in Callers :
          \/ Begin(c) \/ ReadAttempt(c) \/ MakeFolder(c) \/ Assess(c) \/ Compare(c) \/ Link(c)
          \/ Blind(c) \/ MakeBlind(c) \/ SaveIndex(c) \/ Apply(c) \/ Note(c) \/ Finish(c)
          \/ Kill(c) \/ Interrupt(c)
    \/ EditForm

-----------------------------------------------------------------------------
(* _application and report_suite, for a report nobody disturbs.            *)
Applied(p) ==
    LET a == LastOf(applications)
        n == a.linked[p]
    IN  /\ n \in 1..Len(history[p])
        /\ history[p][n].kind = "review" /\ history[p][n].behavior = Behavior(p)
        /\ history[p][n].form = [of |-> Behavior(p), verdict |-> form[p]]
        /\ Outcome(history[p][n], form[p], BehaviorOk(p))

Application ==
    /\ LatestPackets /\ FormsHold /\ applications # <<>>
    /\ LET a == LastOf(applications) IN
          a.status = "completed" /\ a.packets = Len(packets) /\ a.forms = form
    /\ \A p \in Positions : Applied(p)

Passed(p) == Behavior(p) # 0 /\ BehaviorOk(p) /\ Application /\ form[p] = "pass"

(* An assessment once reported stays at its number of the history, whoever *)
(* assesses at the same time; a review that passed is an independent form  *)
(* about the behavior that was the latest, and good, when it was linked;   *)
(* and a candidate the report passes is one whose latest behavior is good, *)
(* was in the latest packets, and was passed in a completed application of *)
(* the forms as they are (assess_suite, apply_reviews, report_suite).      *)
ReviewHonest ==
    /\ \A r \in returned : r[2] \in 1..Len(history[r[1]]) /\ history[r[1]][r[2]] = r[3]
    /\ \A p \in Positions : \A n \in 1..Len(history[p]) : history[p][n].passed =>
          LET b == history[p][n].behavior IN
          /\ b \in 1..(n - 1) /\ history[p][b].kind = "check" /\ history[p][b].good
          /\ history[p][n].form = [of |-> b, verdict |-> "pass"]
          /\ \A k \in b..(n - 1) : history[p][k].behavior = b
    /\ \A p \in Positions : Passed(p) =>
          \E n \in 1..Len(history[p]) :
             /\ history[p][n].passed /\ history[p][n].behavior = LastOf(packets)[p]
             /\ \A k \in (n + 1)..Len(history[p]) : history[p][k].kind = "review"
=============================================================================
