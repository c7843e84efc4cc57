------------------------------ MODULE Installer ------------------------------
(***************************************************************************)
(* install-codex, self-update and update-check (installation.py) with the  *)
(* edit of the Codex configuration (codex_config.py): the plugin's cache   *)
(* first, then the settings, by a rename over the file that was read.      *)
(* Codex and its user edit the same file and know of no lock, the plugin's *)
(* source may be upgraded meanwhile, and a command may be killed.          *)
(*                                                                         *)
(* A configuration is the settings others wrote, each once, and what it    *)
(* says of Forge.  The source is its release; PluginCache, which shows how *)
(* one cache directory is replaced, is one step here.                      *)
(***************************************************************************)
EXTENDS Naturals, FiniteSets, TLC

CONSTANTS Installers,
          MaxSettings, MaxRelease, MaxInstalls   \* bounds of a run

VARIABLES config,    \* config.toml
          backups,   \* config.toml.bak-*
          release,   \* the release the source holds
          caches,    \* release a cache directory is named for -> the one in it
          job,       \* the command of each installer
          wrote,     \* history: settings others wrote
          late,      \* history: those written after a last look at the file
          begun      \* commands begun
installVars == <<config, backups, release, caches, job, wrote, late, begun>>

Releases == 1..MaxRelease
Absent   == [settings |-> {}, forge |-> "none"]
Free     == [kind |-> "none", at |-> "idle", read |-> Absent, named |-> 0,
             changed |-> FALSE, current |-> FALSE, ok |-> FALSE, alone |-> FALSE]

InstallInit == /\ config = Absent /\ backups = {} /\ release = 1
               /\ caches = [r \in Releases |-> 0] /\ job = [i \in Installers |-> Free]
               /\ wrote = {} /\ late = {} /\ begun = 0

Is(i, place)    == job[i].at = place
Turn(i, place)  == job' = [job EXCEPT ![i].at = place]
Ends(i, ok)     == job' = [job EXCEPT ![i] =
                      IF ok THEN [@ EXCEPT !.at = "idle", !.ok = TRUE, !.named = 0, !.read = Absent]
                            ELSE Free]
Keep            == UNCHANGED <<release, wrote, late, begun>>
\* Whoever else is between begin and end no longer has the files for itself.
Seen(jobs)      == [i \in Installers |-> [jobs[i] EXCEPT !.alone = FALSE]]

\* expected_codex_config: nothing of the others is touched.
Expected(file)  == [file EXCEPT !.forge = "on"]

-----------------------------------------------------------------------------
Begin(i, kind) ==
    /\ Is(i, "idle") /\ begun < MaxInstalls /\ begun' = begun + 1
    /\ job' = [Seen(job) EXCEPT ![i] = [Free EXCEPT !.kind = kind, !.named = release, !.alone =
                  \A j \in Installers \ {i} : Is(j, "idle"),
                  !.at = IF kind = "check" THEN "look" ELSE "doctor"]]
    /\ UNCHANGED <<config, backups, release, caches, wrote, late>>

\* The doctor, in a child, and then the manifest, which names the directory.
Doctor(i) ==
    /\ Is(i, "doctor")
    /\ job' = [job EXCEPT ![i].at = IF job[i].kind = "dry" THEN "read" ELSE "lock",
                          ![i].named = release]
    /\ UNCHANGED <<config, backups, caches>> /\ Keep

Holding == {i \in Installers : job[i].kind \in {"install", "bare"}
               /\ job[i].at \in {"read", "cache", "stage", "backup", "again", "replace"}}
Lock(i) == /\ Is(i, "lock") /\ Holding = {} /\ Turn(i, "read")
           /\ UNCHANGED <<config, backups, caches>> /\ Keep

ReadConfig(i) ==
    /\ Is(i, "read") /\ job' = [job EXCEPT ![i].read = config, ![i].at = "cache"]
    /\ UNCHANGED <<config, backups, caches>> /\ Keep

ToPublish(i) == Expected(job[i].read) # job[i].read

Materialize(i) ==
    /\ Is(i, "cache")
    /\ LET stale == caches[job[i].named] # release
           dry   == job[i].kind = "dry"
       IN /\ caches' = IF dry THEN caches ELSE [caches EXCEPT ![job[i].named] = release]
          /\ job' = [job EXCEPT ![i].changed = stale \/ ToPublish(i),
                                ![i].at = IF dry \/ ~ToPublish(i) THEN "verify" ELSE "stage"]
    /\ UNCHANGED <<config, backups>> /\ Keep

\* Slip: the file is looked at once, before the backup.
UnchangedSlip(i) == Is(i, "again") \/ config = job[i].read
Unchanged(i)     == config = job[i].read

\* A new file beside the old; is the old one as it was read?
Stage(i) ==
    /\ Is(i, "stage") /\ Unchanged(i)
    /\ Turn(i, IF job[i].read # Absent /\ job[i].kind = "install" THEN "backup" ELSE "again")
    /\ UNCHANGED <<config, backups, caches>> /\ Keep

Backup(i) ==
    /\ Is(i, "backup") /\ backups' = backups \cup {job[i].read} /\ Turn(i, "again")
    /\ UNCHANGED <<config, caches>> /\ Keep

LookAgain(i) ==
    /\ Is(i, "again") /\ Unchanged(i) /\ Turn(i, "replace")
    /\ UNCHANGED <<config, backups, caches>> /\ Keep

Replace(i) ==
    /\ Is(i, "replace") /\ config' = Expected(job[i].read) /\ Turn(i, "verify")
    /\ UNCHANGED <<backups, caches>> /\ Keep

\* Codex itself may be asked for the skills, and may not know them.
Verify(i) ==
    /\ Is(i, "verify")
    /\ Ends(i, TRUE) \/ (job[i].kind # "dry" /\ Ends(i, FALSE))
    /\ UNCHANGED <<config, backups, caches>> /\ Keep

\* A failing check, call or lock, or a kill: what is done stays done.
Stop(i) == /\ ~Is(i, "idle") /\ Ends(i, FALSE)
           /\ UNCHANGED <<config, backups, caches>> /\ Keep

-----------------------------------------------------------------------------
(* update-check looks at the cache, then at the file, and takes no lock.   *)
LookAtCache(i) ==
    /\ Is(i, "look")
    /\ job' = [job EXCEPT ![i].at = "settings", ![i].current = caches[job[i].named] = release]
    /\ UNCHANGED <<config, backups, caches>> /\ Keep

LookAtConfig(i) ==
    /\ Is(i, "settings")
    /\ job' = [job EXCEPT ![i].at = "idle", ![i].ok = TRUE,
                          ![i].current = @ /\ config = Expected(config)]
    /\ UNCHANGED <<config, backups, caches>> /\ Keep

Installs(i) == \/ Doctor(i) \/ Lock(i) \/ ReadConfig(i) \/ Materialize(i) \/ Stage(i) \/ Backup(i)
               \/ LookAgain(i) \/ Replace(i) \/ Verify(i) \/ LookAtCache(i) \/ LookAtConfig(i)

-----------------------------------------------------------------------------
\* Others save the file with a setting of theirs, or switch the plugin off.
Write(s, off) ==
    /\ s \notin wrote /\ wrote' = wrote \cup {s}
    /\ config' = [settings |-> config.settings \cup {s},
                  forge |-> IF off /\ config.forge = "on" THEN "off" ELSE config.forge]
    /\ late' = late \cup IF \E i \in Installers : Is(i, "replace") THEN {s} ELSE {}
    /\ job' = Seen(job)
    /\ UNCHANGED <<backups, release, caches, begun>>

Upgrade == /\ release < MaxRelease /\ release' = release + 1 /\ job' = Seen(job)
           /\ UNCHANGED <<config, backups, caches, wrote, late, begun>>

InstallNext == \/ \E i \in Installers : Installs(i) \/ Stop(i)
               \/ \E i \in Installers, kind \in {"install", "bare", "dry", "check"} : Begin(i, kind)
               \/ \E s \in 1..MaxSettings, off \in BOOLEAN : Write(s, off)
               \/ Upgrade

-----------------------------------------------------------------------------
(* codex_config.py:161 and installation.py:330.  A setting somebody else   *)
(* wrote is lost only if it was written in the instant between the last    *)
(* look and the rename, and whatever a backed-up rename replaced exists    *)
(* still; the plugin is switched on only once a cache of it is there, also *)
(* when the command is killed; and a command that had the files for itself *)
(* and reports success leaves, or found, both as the release wants them.   *)
InstallSound ==
    /\ wrote \ config.settings \subseteq late
    /\ \A i \in Installers : Is(i, "verify") /\ job[i].kind = "install" /\ ToPublish(i) =>
          job[i].read \in backups \cup {Absent}
    /\ config.forge = "on" => \E r \in Releases : caches[r] # 0
    /\ \A i \in Installers : Is(i, "idle") /\ job[i].ok /\ job[i].alone =>
          LET good == caches[release] = release /\ config.forge = "on"
          IN CASE job[i].kind \in {"install", "bare"} -> good
               [] job[i].kind = "check"               -> job[i].current = good
               [] job[i].kind = "dry"                 -> job[i].changed = ~good
=============================================================================
