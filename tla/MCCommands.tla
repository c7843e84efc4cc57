------------------------------ MODULE MCCommands ------------------------------
(***************************************************************************)
(* The commands of Forge beside each other, beside the user and beside     *)
(* their own kills, on small instances: what they keep of an               *)
(* implementation (the privileged handoff, the detached root, the          *)
(* state-first plan), how they come by the team board (its setup, the      *)
(* identity of a checkout, the plan prepared for it, the guard of a step), *)
(* the host's configuration they install into, and what one of them keeps  *)
(* of the files it has read.  These share no state, so a behaviour is one  *)
(* of one of them: `which` says of which, and the variables of the others  *)
(* stay as they began.  The setup of a board is TeamSetup as it stands.    *)
(***************************************************************************)
EXTENDS TeamSetup, Sequences

CONSTANTS c, d, Commands, Parts,
          SourceVersions, HandoffJobs, HandoffDrifts,
          Plans, SetupJobs, SetupDrifts,
          Writers, Readers, FileVersions, Rows, Kinds, StateJobs, StateEdits,
          NoPlan,
          Worktrees, WhereMoved, Records, Drawn,
          Contents, Commits, PlanJobs, PlanEdits, PlanMoves,
          Tasks, Warnings, GuardMoves,
          SettingsWritten, LastRelease, Installations,
          Edited, Calls

\* There is a first worktree and a first release, the other bounds are numbers; nobody is called
\* "nobody", which the locks and owners of the components use for no process; tasks can be counted;
\* what stands for no workspace is none.
ASSUME CommandsAssumption ==
    /\ Worktrees \in Nat \ {0} /\ WhereMoved \in Nat
    /\ LastRelease \in Nat \ {0} /\ SettingsWritten \in Nat
    /\ "nobody" \notin Writers \cup Readers \cup Commands
    /\ IsFiniteSet(Tasks)
    /\ NoPlan \notin [place : {"here", "there"}, commit : Nat, intact : BOOLEAN]

VARIABLES which,
          source, sound, evidence, job, fresh, counts,
          plan, root, countsFiles, lock, cmd, used,
          files, drafted, rows, inside, status, snapshot, stateLock, stateCmd, proven, begun, stateUsed,
          place, trees, ident, checkouts, command, numbers, holds,
          commits, line, pruned, index, planFiles, planPlace, refs, spaces, planners, planUsed,
          board, taskPlan, bound, turn, moves,
          config, backups, release, caches, installing, wrote, late, installs,
          read, texts, kept, stack, answer, past, calls

\* A plan of two sections whose second version moves paths and inputs from one to another.
TwoVersions == <<<<{"a"}, {"b"}>>, <<{"a", "b"}, {"c"}>>>>
TwoInputs   == <<<<{"b"}, {"a"}>>, <<{"b"}, {}>>>>
\* An analysis that reads a file before and after it calls another one.
Nested      == "outer" :> <<"x", "inner", "x">> @@ "inner" :> <<"y">>

H == INSTANCE Handoff WITH Versions <- SourceVersions, MaxDrifts <- HandoffDrifts,
         MaxJobs <- HandoffJobs
D == INSTANCE DetachedSetup WITH MaxDrifts <- SetupDrifts, MaxJobs <- SetupJobs
F == INSTANCE StateFirst WITH Sections <- Rows, Versions <- FileVersions, MaxJobs <- StateJobs,
         MaxEdits <- StateEdits, lock <- stateLock, cmd <- stateCmd, used <- stateUsed
I == INSTANCE CheckoutIdentity WITH MaxTrees <- Worktrees, MaxPlaces <- WhereMoved,
         MaxCheckouts <- Records, MaxNumbers <- Drawn
P == INSTANCE PreparedPlan WITH Callers <- Commands, Absent <- NoPlan, Sharable <- Contents,
         Reviewed <- Contents, Places <- {"here", "there"}, MaxCommits <- Commits,
         MaxPlanJobs <- PlanJobs, MaxPlanEdits <- PlanEdits, MaxTogether <- PlanMoves,
         files <- planFiles, place <- planPlace, proc <- planners
G == INSTANCE StepGuard WITH Clones <- Commands, Owned <- TwoVersions, Inputs <- TwoInputs,
         Folder <- "plan", MaxWarnings <- Warnings, MaxMoves <- GuardMoves, plan <- taskPlan
N == INSTANCE Installer WITH Installers <- Commands, MaxSettings <- SettingsWritten,
         MaxRelease <- LastRelease, MaxInstalls <- Installations,
         job <- installing, begun <- installs
S == INSTANCE SessionCache WITH Analyses <- {"outer", "inner"}, Steps <- Nested,
         Inputs <- {"x", "y"}, MaxEdited <- Edited, MaxCalls <- Calls,
         files <- read, cache <- kept

handoffVars  == <<source, sound, evidence, job, fresh, counts>>
rootVars     == <<plan, root, countsFiles, lock, cmd, used>>
stateVars    == <<files, drafted, rows, inside, status, snapshot, stateLock, stateCmd, proven,
                  begun, stateUsed>>
identityVars == <<place, trees, ident, checkouts, command, numbers, holds>>
planVars     == <<commits, line, pruned, index, planFiles, planPlace, refs, spaces, planners,
                  planUsed>>
guardVars    == <<board, taskPlan, bound, turn, moves>>
installVars  == <<config, backups, release, caches, installing, wrote, late, installs>>
cacheVars    == <<read, texts, kept, stack, answer, past, calls>>
vars == <<which, handoffVars, rootVars, stateVars, boardVars, identityVars, planVars, guardVars,
          installVars, cacheVars>>

\* The components that are not looked at stay in one of their initial states.
Init == /\ which \in Parts
        /\ H!HandoffInit
        /\ D!SetupInit /\ (which # "setup" => plan = 1 /\ countsFiles /\ root = D!Empty)
        /\ F!StateInit /\ (which # "state" => inside)
        /\ SetupInit
        /\ I!IdentityInit /\ (which # "identity" => checkouts = {})
        /\ P!PlanInit /\ (which # "plan" => /\ line = <<1, 2>> /\ planPlace = "here"
                                            /\ \A k \in DOMAIN spaces : spaces[k] = NoPlan)
        /\ G!GuardInit /\ (which # "guard" => \A k \in Commands : taskPlan[k].prepared)
        /\ N!InstallInit
        /\ S!SessionInit

Next == \/ which = "handoff" /\ H!HandoffNext
           /\ UNCHANGED <<which, rootVars, stateVars, boardVars, identityVars, planVars, guardVars,
                          installVars, cacheVars>>
        \/ which = "setup" /\ D!SetupNext
           /\ UNCHANGED <<which, handoffVars, stateVars, boardVars, identityVars, planVars,
                          guardVars, installVars, cacheVars>>
        \/ which = "state" /\ F!StateNext
           /\ UNCHANGED <<which, handoffVars, rootVars, boardVars, identityVars, planVars,
                          guardVars, installVars, cacheVars>>
        \/ which = "board" /\ SetupNext
           /\ UNCHANGED <<which, handoffVars, rootVars, stateVars, identityVars, planVars,
                          guardVars, installVars, cacheVars>>
        \/ which = "identity" /\ I!IdentityNext
           /\ UNCHANGED <<which, handoffVars, rootVars, stateVars, boardVars, planVars, guardVars,
                          installVars, cacheVars>>
        \/ which = "plan" /\ P!PlanNext
           /\ UNCHANGED <<which, handoffVars, rootVars, stateVars, boardVars, identityVars,
                          guardVars, installVars, cacheVars>>
        \/ which = "guard" /\ G!GuardNext
           /\ UNCHANGED <<which, handoffVars, rootVars, stateVars, boardVars, identityVars,
                          planVars, installVars, cacheVars>>
        \/ which = "install" /\ N!InstallNext
           /\ UNCHANGED <<which, handoffVars, rootVars, stateVars, boardVars, identityVars,
                          planVars, guardVars, cacheVars>>
        \/ which = "cache" /\ S!SessionNext
           /\ UNCHANGED <<which, handoffVars, rootVars, stateVars, boardVars, identityVars,
                          planVars, guardVars, installVars>>

Spec == Init /\ [][Next]_vars

CommandSymmetry == Permutations({c, d})

HandoffHonest    == which = "handoff" => H!HandoffHonest
SetupSound       == which = "setup" => D!SetupSound
FinalStands      == D!FinalStands
CompleteIsTrue   == which = "state" => F!CompleteIsTrue
BegunStay        == F!BegunStay
WorkIsKept       == which = "identity" => I!WorkIsKept
PreparedIsRooted == which = "plan" => P!PreparedIsRooted
StepsApart       == which = "guard" => G!StepsApart
InstallSound     == which = "install" => N!InstallSound
ReuseIsFresh     == which = "cache" => S!ReuseIsFresh
=============================================================================
