--------------------------- MODULE CommandsProofs ---------------------------
(***************************************************************************)
(* What the commands keep of an implementation, for every value of the     *)
(* constants: the configuration an installation leaves (Installer), what a *)
(* state-first plan calls complete (StateFirst), how far a detached root   *)
(* is set up (DetachedSetup), what a privileged handoff stores (Handoff)   *)
(* and how fresh a reused analysis is (SessionCache).  A behaviour is one  *)
(* of one component; for each there is an invariant of its own that its    *)
(* actions preserve, and steps of the others leave its variables.          *)
(***************************************************************************)
EXTENDS MCCommands, TLAPS, FiniteSetTheorems, SequenceTheorems


-----------------------------------------------------------------------------
(* Installer.  Where a command of a kind can be, what it has secured by    *)
(* then, and what one that has the files for itself has made of them.      *)

Configs     == [settings : SUBSET Nat, forge : {"none", "on", "off"}]
InstallKind == {"install", "bare"}
Publishing  == {"stage", "backup", "again", "replace"}
InstallJobs == [kind : {"none", "install", "bare", "dry", "check"},
                at : {"idle", "doctor", "lock", "read", "cache", "verify", "look", "settings"}
                        \cup Publishing,
                read : Configs, named : Nat, changed : BOOLEAN, current : BOOLEAN, ok : BOOLEAN,
                alone : BOOLEAN]

FilesOK == /\ config \in Configs /\ release \in N!Releases /\ caches \in [N!Releases -> Nat]
           /\ wrote \subseteq Nat /\ installing \in [Commands -> InstallJobs]
           /\ wrote \ config.settings \subseteq late
           /\ config.forge = "on" => \E r \in N!Releases : caches[r] # 0

\* What a command has secured, whoever else is at work.
Secured(j) ==
    /\ j.at \in Publishing => j.kind \in InstallKind /\ \E r \in N!Releases : caches[r] # 0
    /\ j.at = "verify" => j.kind \in {"install", "bare", "dry"}
    /\ j.at \in {"look", "settings"} => j.kind = "check"
    /\ j.at \in {"lock"} => j.kind \in InstallKind
    /\ j.at \in {"doctor", "read", "cache"} => j.kind \in {"install", "bare", "dry"}
    /\ j.at # "idle" => j.named \in N!Releases
    /\ j.at = "replace" => wrote \ j.read.settings \subseteq late
    /\ j.at \in {"again", "replace", "verify"} /\ j.kind = "install"
          /\ N!Expected(j.read) # j.read => j.read \in backups \cup {N!Absent}

\* What it knows while it has the files for itself.
Undisturbed(j) ==
    LET cached == caches[release] = release
        good   == cached /\ config.forge = "on"
    IN /\ j.kind # "none"
       /\ j.at \notin {"idle", "doctor"} => j.named = release
       /\ j.at = "cache" => j.read = config
       /\ j.at \in Publishing => cached
       /\ j.at = "settings" => j.current = cached
       /\ j.at = "verify" => IF j.kind = "dry" THEN j.changed = ~good ELSE good
       /\ j.at = "idle" /\ j.ok => CASE j.kind \in InstallKind -> good
                                     [] j.kind = "check"       -> j.current = good
                                     [] j.kind = "dry"         -> j.changed = ~good
                                     [] OTHER                  -> TRUE

InstallInv == /\ FilesOK
              /\ \A i \in Commands : Secured(installing[i])
              /\ \A i \in Commands : installing[i].alone =>
                    /\ Undisturbed(installing[i])
                    /\ \A j \in Commands \ {i} : installing[j].at = "idle"

\* A command that is under way takes a step, and is then what j says.
LEMMA OneActs ==
  ASSUME InstallInv, NEW i \in Commands, installing[i].at # "idle", FilesOK',
         NEW j \in InstallJobs, installing' = [installing EXCEPT ![i] = j],
         UNCHANGED <<release, wrote, late>>, backups \subseteq backups',
         \A r \in N!Releases : caches[r] # 0 => caches'[r] # 0,
         Secured(j)', j.alone => installing[i].alone, j.alone => Undisturbed(j)'
  PROVE  InstallInv'
<1>1. installing'[i] = j /\ \A k \in Commands \ {i} : installing'[k] = installing[k]
  BY DEF InstallInv, FilesOK
<1>2. ASSUME NEW k \in Commands PROVE Secured(installing[k])'
  <2>1. CASE k = i
    BY <1>1, <2>1 DEF Secured
  <2>2. CASE k # i
    <3>1. installing'[k] = installing[k] /\ Secured(installing[k])
      BY <1>1, <2>2 DEF InstallInv
    <3> QED  BY <3>1 DEF Secured, N!Expected, N!Absent
  <2> QED  BY <2>1, <2>2
<1>3. ASSUME NEW k \in Commands, installing'[k].alone
      PROVE  /\ Undisturbed(installing[k])'
             /\ \A l \in Commands \ {k} : installing'[l].at = "idle"
  <2>1. k = i
    BY <1>1, <1>3 DEF InstallInv
  <2>2. Undisturbed(installing[k])'
    BY <1>1, <1>3, <2>1 DEF Undisturbed
  <2> QED  BY <1>1, <1>3, <2>1, <2>2 DEF InstallInv
<1> QED  BY <1>2, <1>3 DEF InstallInv

LEMMA InstallFacts ==
  ASSUME InstallInv, NEW i \in Commands
  PROVE  /\ installing[i] \in InstallJobs /\ Secured(installing[i])
         /\ installing[i].alone => Undisturbed(installing[i])
         /\ config \in Configs /\ release \in N!Releases /\ release \in Nat /\ release # 0
         /\ caches \in [N!Releases -> Nat]
  BY CommandsAssumption DEF InstallInv, FilesOK, N!Releases

\* The files are as they were.
LEMMA OnlyTurns ==
  ASSUME InstallInv, UNCHANGED <<config, backups, caches, release, wrote, late>>,
         NEW i \in Commands, installing[i].at # "idle",
         NEW j \in InstallJobs, installing' = [installing EXCEPT ![i] = j],
         Secured(j), j.alone => installing[i].alone, j.alone => Undisturbed(j)
  PROVE  InstallInv'
<1>1. FilesOK'
  BY DEF InstallInv, FilesOK
<1>2. Secured(j)'
  BY DEF Secured, N!Expected, N!Absent
<1>3. j.alone => Undisturbed(j)'
  BY DEF Undisturbed
<1> QED  BY <1>1, <1>2, <1>3, OneActs

LEMMA EndsBadly ==
  ASSUME InstallInv, NEW i \in Commands, installing[i].at # "idle", N!Ends(i, FALSE),
         UNCHANGED <<config, backups, caches, release, wrote, late>>
  PROVE  InstallInv'
<1>1. PICK j \in InstallJobs : j = N!Free
  BY DEF InstallJobs, Configs, N!Free, N!Absent
<1>2. installing' = [installing EXCEPT ![i] = j]
  BY <1>1 DEF N!Ends
<1>3. j.at = "idle" /\ ~j.alone
  BY <1>1 DEF N!Free
<1>4. Secured(j)
  BY <1>3 DEF Secured, Publishing
<1> QED  BY <1>2, <1>3, <1>4, OnlyTurns

LEMMA DoctorKeeps ==
  ASSUME InstallInv, NEW i \in Commands, N!Doctor(i) PROVE InstallInv'
<1>1. installing[i].at = "doctor" /\ UNCHANGED <<config, backups, caches, release, wrote, late>>
  BY DEF N!Doctor, N!Is, N!Keep
<1>2. PICK o \in InstallJobs : o = installing[i] /\ Secured(o) /\ release \in N!Releases
  BY InstallFacts
<1>3. PICK j \in InstallJobs :
         j = [o EXCEPT !.at = IF o.kind = "dry" THEN "read" ELSE "lock", !.named = release]
  BY <1>2, InstallFacts DEF InstallJobs
<1>4. installing' = [installing EXCEPT ![i] = j]
  BY <1>2, <1>3 DEF N!Doctor
<1>5. /\ j.kind = o.kind /\ j.alone = o.alone /\ j.named = release
      /\ j.at = IF o.kind = "dry" THEN "read" ELSE "lock"
  BY <1>3 DEF InstallJobs
<1>6. o.kind \in {"install", "bare", "dry"}
  BY <1>1, <1>2 DEF Secured
<1>7. Secured(j)
  BY <1>2, <1>5, <1>6 DEF Secured, InstallKind, Publishing
<1>8. Undisturbed(j)
  BY <1>5, <1>6 DEF Undisturbed, Publishing
<1> QED  BY <1>1, <1>2, <1>4, <1>5, <1>7, <1>8, OnlyTurns

LEMMA LockKeeps ==
  ASSUME InstallInv, NEW i \in Commands, N!Lock(i) PROVE InstallInv'
<1>1. installing[i].at = "lock" /\ UNCHANGED <<config, backups, caches, release, wrote, late>>
  BY DEF N!Lock, N!Is, N!Keep
<1>2. PICK o \in InstallJobs :
         o = installing[i] /\ Secured(o) /\ (o.alone => Undisturbed(o))
  BY InstallFacts
<1>3. PICK j \in InstallJobs : j = [o EXCEPT !.at = "read"]
  BY <1>2 DEF InstallJobs
<1>4. installing' = [installing EXCEPT ![i] = j]
  BY <1>2, <1>3 DEF N!Lock, N!Turn
<1>5. j.kind = o.kind /\ j.alone = o.alone /\ j.named = o.named /\ j.at = "read"
  BY <1>3 DEF InstallJobs
<1>6. Secured(j)
  BY <1>1, <1>2, <1>5 DEF Secured, InstallKind, Publishing
<1>7. j.alone => Undisturbed(j)
  BY <1>1, <1>2, <1>5 DEF Undisturbed, Publishing
<1> QED  BY <1>1, <1>2, <1>4, <1>5, <1>6, <1>7, OnlyTurns

LEMMA ReadConfigKeeps ==
  ASSUME InstallInv, NEW i \in Commands, N!ReadConfig(i) PROVE InstallInv'
<1>1. installing[i].at = "read" /\ UNCHANGED <<config, backups, caches, release, wrote, late>>
  BY DEF N!ReadConfig, N!Is, N!Keep
<1>2. PICK o \in InstallJobs :
         o = installing[i] /\ Secured(o) /\ (o.alone => Undisturbed(o))
  BY InstallFacts
<1>3. PICK j \in InstallJobs : j = [o EXCEPT !.read = config, !.at = "cache"]
  BY <1>2, InstallFacts DEF InstallJobs
<1>4. installing' = [installing EXCEPT ![i] = j]
  BY <1>2, <1>3 DEF N!ReadConfig
<1>5. /\ j.kind = o.kind /\ j.alone = o.alone /\ j.named = o.named /\ j.at = "cache"
      /\ j.read = config
  BY <1>3 DEF InstallJobs
<1>6. Secured(j)
  BY <1>1, <1>2, <1>5 DEF Secured, Publishing
<1>7. j.alone => Undisturbed(j)
  BY <1>1, <1>2, <1>5 DEF Undisturbed, Publishing
<1> QED  BY <1>1, <1>2, <1>4, <1>5, <1>6, <1>7, OnlyTurns

LEMMA MaterializeKeeps ==
  ASSUME InstallInv, NEW i \in Commands, N!Materialize(i) PROVE InstallInv'
<1>1. installing[i].at = "cache" /\ UNCHANGED <<config, backups, release, wrote, late>>
  BY DEF N!Materialize, N!Is, N!Keep
<1>2. PICK o \in InstallJobs :
         /\ o = installing[i] /\ Secured(o) /\ (o.alone => Undisturbed(o))
  BY InstallFacts
<1>0. PICK pub \in BOOLEAN : pub = N!ToPublish(i)
  BY DEF N!ToPublish
<1>3. PICK place1 \in {"verify", "stage"} :
         place1 = IF o.kind = "dry" \/ ~pub THEN "verify" ELSE "stage"
  OBVIOUS
<1>4. PICK news \in BOOLEAN : news = (caches[o.named] # release \/ pub)
  OBVIOUS
<1>5. PICK j \in InstallJobs : j = [o EXCEPT !.changed = news, !.at = place1]
  BY <1>3 DEF InstallJobs, Publishing
<1>6. installing' = [installing EXCEPT ![i] = j]
  BY <1>0, <1>2, <1>3, <1>4, <1>5 DEF N!Materialize
<1>7. /\ j.kind = o.kind /\ j.alone = o.alone /\ j.named = o.named /\ j.at = place1
      /\ j.read = o.read /\ j.changed = news
  BY <1>5 DEF InstallJobs
<1>8. /\ o.named \in N!Releases /\ o.kind \in {"install", "bare", "dry"}
      /\ pub = (N!Expected(o.read) # o.read)
  BY <1>0, <1>1, <1>2 DEF Secured, N!ToPublish
<1>9. /\ caches' \in [N!Releases -> Nat]
      /\ \A r \in N!Releases : caches[r] # 0 => caches'[r] # 0
      /\ o.kind = "dry" => caches' = caches
      /\ o.kind # "dry" => caches'[o.named] = release
      /\ \A r \in N!Releases : r # o.named => caches'[r] = caches[r]
  BY <1>2, <1>8, InstallFacts DEF N!Materialize
<1>10. FilesOK'
  <2>1. installing' \in [Commands -> InstallJobs]
    BY <1>6 DEF InstallInv, FilesOK
  <2> QED  BY <1>1, <1>9, <2>1 DEF InstallInv, FilesOK
<1>11. Secured(j)'
  <2>1. /\ place1 = "stage" => o.kind \in InstallKind /\ \E r \in N!Releases : caches'[r] # 0
        /\ place1 = "verify" => o.kind # "install" \/ ~pub
    <3>1. release # 0
      BY InstallFacts
    <3> QED  BY <1>3, <1>8, <1>9, <3>1 DEF InstallKind
  <2>2. place1 \in {"stage", "verify"} /\ o.kind \in {"install", "bare", "dry"}
    BY <1>3, <1>8
  <2> QED  BY <1>7, <1>8, <2>1, <2>2 DEF Secured, InstallKind, Publishing
<1>12. j.alone => Undisturbed(j)'
  <2> SUFFICES ASSUME o.alone PROVE Undisturbed(j)'
    BY <1>7
  <2>1. o.named = release /\ o.read = config
    BY <1>1, <1>2 DEF Undisturbed
  <2>2. pub = (config.forge # "on")
    BY <1>8, <2>1, InstallFacts DEF N!Expected, Configs
  <2>3. CASE o.kind = "dry"
    <3>1. place1 = "verify" /\ j.changed = ~(caches[release] = release /\ config.forge = "on")
      BY <1>3, <1>4, <1>7, <2>1, <2>2, <2>3
    <3>2. UNCHANGED <<caches, release, config>>
      BY <1>1, <1>9, <2>3
    <3> QED  BY <1>7, <2>1, <2>3, <3>1, <3>2 DEF Undisturbed, Publishing
  <2>4. CASE o.kind # "dry"
    BY <1>1, <1>3, <1>8, <1>7, <1>9, <2>1, <2>2, <2>4 DEF Undisturbed, Publishing
  <2> QED  BY <2>3, <2>4
<1> QED  BY <1>1, <1>2, <1>6, <1>7, <1>9, <1>10, <1>11, <1>12, OneActs

LEMMA StageKeeps ==
  ASSUME InstallInv, NEW i \in Commands, N!Stage(i) PROVE InstallInv'
<1>1. /\ installing[i].at = "stage" /\ UNCHANGED <<config, backups, caches, release, wrote, late>>
      /\ N!Unchanged(i)
  BY DEF N!Stage, N!Is, N!Keep
<1>2. PICK o \in InstallJobs :
         o = installing[i] /\ Secured(o) /\ (o.alone => Undisturbed(o))
  BY InstallFacts
<1>3. PICK place1 \in {"backup", "again"} :
         place1 = IF o.read # N!Absent /\ o.kind = "install" THEN "backup" ELSE "again"
  OBVIOUS
<1>4. PICK j \in InstallJobs : j = [o EXCEPT !.at = place1]
  BY <1>3 DEF InstallJobs, Publishing
<1>5. installing' = [installing EXCEPT ![i] = j]
  BY <1>2, <1>3, <1>4 DEF N!Stage, N!Turn
<1>6. /\ j.kind = o.kind /\ j.alone = o.alone /\ j.named = o.named /\ j.at = place1
      /\ j.read = o.read
  BY <1>4 DEF InstallJobs
<1>7. Secured(j)
  BY <1>1, <1>2, <1>3, <1>6 DEF Secured, InstallKind, Publishing
<1>8. j.alone => Undisturbed(j)
  BY <1>1, <1>2, <1>3, <1>6 DEF Undisturbed, Publishing
<1> QED  BY <1>1, <1>2, <1>5, <1>6, <1>7, <1>8, OnlyTurns

LEMMA BackupKeeps ==
  ASSUME InstallInv, NEW i \in Commands, N!Backup(i) PROVE InstallInv'
<1>1. /\ installing[i].at = "backup" /\ UNCHANGED <<config, caches, release, wrote, late>>
      /\ backups' = backups \cup {installing[i].read}
  BY DEF N!Backup, N!Is, N!Keep
<1>2. PICK o \in InstallJobs :
         o = installing[i] /\ Secured(o) /\ (o.alone => Undisturbed(o))
  BY InstallFacts
<1>3. PICK j \in InstallJobs : j = [o EXCEPT !.at = "again"]
  BY DEF InstallJobs, Publishing
<1>4. installing' = [installing EXCEPT ![i] = j]
  BY <1>2, <1>3 DEF N!Backup, N!Turn
<1>5. /\ j.kind = o.kind /\ j.alone = o.alone /\ j.named = o.named /\ j.at = "again"
      /\ j.read = o.read
  BY <1>3 DEF InstallJobs
<1>6. Secured(j)'
  BY <1>1, <1>2, <1>5 DEF Secured, InstallKind, Publishing
<1>7. j.alone => Undisturbed(j)'
  BY <1>1, <1>2, <1>5 DEF Undisturbed, Publishing
<1>8. FilesOK'
  BY <1>1, <1>4 DEF InstallInv, FilesOK
<1> QED  BY <1>1, <1>2, <1>4, <1>5, <1>6, <1>7, <1>8, OneActs

LEMMA LookAgainKeeps ==
  ASSUME InstallInv, NEW i \in Commands, N!LookAgain(i) PROVE InstallInv'
<1>1. /\ installing[i].at = "again" /\ UNCHANGED <<config, backups, caches, release, wrote, late>>
      /\ config = installing[i].read /\ wrote \ config.settings \subseteq late
  BY DEF N!LookAgain, N!Is, N!Keep, N!Unchanged, InstallInv, FilesOK
<1>2. PICK o \in InstallJobs :
         o = installing[i] /\ Secured(o) /\ (o.alone => Undisturbed(o))
  BY InstallFacts
<1>3. PICK j \in InstallJobs : j = [o EXCEPT !.at = "replace"]
  BY DEF InstallJobs, Publishing
<1>4. installing' = [installing EXCEPT ![i] = j]
  BY <1>2, <1>3 DEF N!LookAgain, N!Turn
<1>5. /\ j.kind = o.kind /\ j.alone = o.alone /\ j.named = o.named /\ j.at = "replace"
      /\ j.read = o.read
  BY <1>3 DEF InstallJobs
<1>6. Secured(j)
  BY <1>1, <1>2, <1>5 DEF Secured, InstallKind, Publishing
<1>7. j.alone => Undisturbed(j)
  BY <1>1, <1>2, <1>5 DEF Undisturbed, Publishing
<1> QED  BY <1>1, <1>2, <1>4, <1>5, <1>6, <1>7, OnlyTurns

LEMMA ReplaceKeeps ==
  ASSUME InstallInv, NEW i \in Commands, N!Replace(i) PROVE InstallInv'
<1>1. /\ installing[i].at = "replace" /\ UNCHANGED <<backups, caches, release, wrote, late>>
      /\ config' = N!Expected(installing[i].read)
  BY DEF N!Replace, N!Is, N!Keep
<1>2. PICK o \in InstallJobs :
         o = installing[i] /\ Secured(o) /\ (o.alone => Undisturbed(o))
  BY InstallFacts
<1>3. PICK j \in InstallJobs : j = [o EXCEPT !.at = "verify"]
  BY DEF InstallJobs
<1>4. installing' = [installing EXCEPT ![i] = j]
  BY <1>2, <1>3 DEF N!Replace, N!Turn
<1>5. /\ j.kind = o.kind /\ j.alone = o.alone /\ j.named = o.named /\ j.at = "verify"
      /\ j.read = o.read
  BY <1>3 DEF InstallJobs
<1>6. config' \in Configs /\ config'.settings = o.read.settings /\ config'.forge = "on"
  BY <1>1, <1>2 DEF N!Expected, Configs, InstallJobs
<1>7. FilesOK'
  BY <1>1, <1>2, <1>4, <1>6 DEF InstallInv, FilesOK, Secured, Publishing
<1>8. Secured(j)'
  BY <1>1, <1>2, <1>5 DEF Secured, InstallKind, Publishing
<1>9. j.alone => Undisturbed(j)'
  BY <1>1, <1>2, <1>5, <1>6 DEF Undisturbed, Secured, InstallKind, Publishing
<1> QED  BY <1>1, <1>2, <1>4, <1>5, <1>7, <1>8, <1>9, OneActs

LEMMA VerifyKeeps ==
  ASSUME InstallInv, NEW i \in Commands, N!Verify(i) PROVE InstallInv'
<1>1. installing[i].at = "verify" /\ UNCHANGED <<config, backups, caches, release, wrote, late>>
  BY DEF N!Verify, N!Is, N!Keep
<1>2. CASE N!Ends(i, FALSE)
  BY <1>1, <1>2, EndsBadly
<1>3. CASE N!Ends(i, TRUE)
  <2>1. PICK o \in InstallJobs :
           o = installing[i] /\ Secured(o) /\ (o.alone => Undisturbed(o))
    BY InstallFacts
  <2>2. PICK j \in InstallJobs :
           j = [o EXCEPT !.at = "idle", !.ok = TRUE, !.named = 0, !.read = N!Absent]
    BY DEF InstallJobs, Configs, N!Absent
  <2>3. installing' = [installing EXCEPT ![i] = j]
    BY <1>3, <2>1, <2>2 DEF N!Ends
  <2>4. j.kind = o.kind /\ j.alone = o.alone /\ j.at = "idle" /\ j.changed = o.changed
    BY <2>2 DEF InstallJobs
  <2>5. Secured(j)
    BY <2>4 DEF Secured, Publishing
  <2>6. j.alone => Undisturbed(j)
    BY <1>1, <2>1, <2>4 DEF Undisturbed, Secured, InstallKind, Publishing
  <2> QED  BY <1>1, <2>1, <2>3, <2>4, <2>5, <2>6, OnlyTurns
<1> QED  BY <1>2, <1>3 DEF N!Verify

LEMMA LooksKeep ==
  ASSUME InstallInv, NEW i \in Commands, N!LookAtCache(i) \/ N!LookAtConfig(i) PROVE InstallInv'
<1>1. /\ installing[i].at \in {"look", "settings"}
      /\ UNCHANGED <<config, backups, caches, release, wrote, late>>
  BY DEF N!LookAtCache, N!LookAtConfig, N!Is, N!Keep
<1>2. PICK o \in InstallJobs :
         o = installing[i] /\ Secured(o) /\ (o.alone => Undisturbed(o))
  BY InstallFacts
<1>3. CASE N!LookAtCache(i)
  <2>1. PICK b \in BOOLEAN : b = (caches[o.named] = release)
    OBVIOUS
  <2>2. PICK j \in InstallJobs : j = [o EXCEPT !.at = "settings", !.current = b]
    BY DEF InstallJobs
  <2>3. installing' = [installing EXCEPT ![i] = j]
    BY <1>2, <1>3, <2>1, <2>2 DEF N!LookAtCache
  <2>4. /\ j.kind = o.kind /\ j.alone = o.alone /\ j.named = o.named /\ j.at = "settings"
        /\ j.current = b
    BY <2>2 DEF InstallJobs
  <2>5. installing[i].at = "look"
    BY <1>3 DEF N!LookAtCache, N!Is
  <2>6. Secured(j)
    BY <1>2, <2>4, <2>5 DEF Secured, Publishing
  <2>7. j.alone => Undisturbed(j)
    BY <1>2, <2>1, <2>4, <2>5 DEF Undisturbed, Publishing
  <2> QED  BY <1>1, <1>2, <2>3, <2>4, <2>6, <2>7, OnlyTurns
<1>4. CASE N!LookAtConfig(i)
  <2>1. PICK b \in BOOLEAN : b = (o.current /\ config = N!Expected(config))
    OBVIOUS
  <2>2. PICK j \in InstallJobs : j = [o EXCEPT !.at = "idle", !.ok = TRUE, !.current = b]
    BY DEF InstallJobs
  <2>3. installing' = [installing EXCEPT ![i] = j]
    BY <1>2, <1>4, <2>1, <2>2 DEF N!LookAtConfig
  <2>4. j.kind = o.kind /\ j.alone = o.alone /\ j.at = "idle" /\ j.current = b
    BY <2>2 DEF InstallJobs
  <2>5. installing[i].at = "settings"
    BY <1>4 DEF N!LookAtConfig, N!Is
  <2>6. Secured(j)
    BY <2>4 DEF Secured, Publishing
  <2>7. (config = N!Expected(config)) = (config.forge = "on")
    BY InstallFacts DEF N!Expected, Configs
  <2>8. o.kind = "check"
    BY <1>2, <2>5 DEF Secured
  <2>9. j.alone => Undisturbed(j)
    BY <1>2, <2>1, <2>4, <2>5, <2>7, <2>8 DEF Undisturbed, InstallKind, Publishing
  <2> QED  BY <1>1, <1>2, <2>3, <2>4, <2>6, <2>9, OnlyTurns
<1> QED  BY <1>3, <1>4

\* Somebody else touches the files: no command has them for itself any more.
LEMMA SeenBySomebody ==
  ASSUME InstallInv
  PROVE  /\ N!Seen(installing) \in [Commands -> InstallJobs]
         /\ \A i \in Commands :
               LET k == N!Seen(installing)[i] IN
               /\ k.kind = installing[i].kind /\ k.at = installing[i].at /\ k.alone = FALSE
               /\ k.read = installing[i].read /\ k.named = installing[i].named
<1>1. ASSUME NEW i \in Commands
      PROVE  LET k == [installing[i] EXCEPT !.alone = FALSE] IN
             /\ k \in InstallJobs
             /\ k.kind = installing[i].kind /\ k.at = installing[i].at /\ k.alone = FALSE
             /\ k.read = installing[i].read /\ k.named = installing[i].named
  <2>1. PICK o \in InstallJobs : o = installing[i]
    BY InstallFacts
  <2> QED  BY <2>1 DEF InstallJobs
<1> QED  BY <1>1 DEF N!Seen

LEMMA BeginKeeps ==
  ASSUME InstallInv, NEW i \in Commands, NEW kind \in {"install", "bare", "dry", "check"},
         N!Begin(i, kind)
  PROVE  InstallInv'
<1>1. UNCHANGED <<config, backups, caches, release, wrote, late>> /\ installing[i].at = "idle"
  BY DEF N!Begin, N!Is
<1>2. PICK apart \in BOOLEAN : apart = \A k \in Commands \ {i} : installing[k].at = "idle"
  OBVIOUS
<1>3. PICK first \in {"look", "doctor"} : first = IF kind = "check" THEN "look" ELSE "doctor"
  OBVIOUS
<1>4. PICK j \in InstallJobs :
         j = [N!Free EXCEPT !.kind = kind, !.named = release, !.alone = apart, !.at = first]
  <2>1. PICK z \in InstallJobs : z = N!Free
    BY DEF InstallJobs, Configs, N!Free, N!Absent
  <2>2. release \in Nat
    BY InstallFacts
  <2>3. [z EXCEPT !.kind = kind, !.named = release, !.alone = apart, !.at = first] \in InstallJobs
    BY <2>2 DEF InstallJobs
  <2> QED  BY <2>1, <2>3
<1>5. installing' = [N!Seen(installing) EXCEPT ![i] = j]
  BY <1>2, <1>3, <1>4 DEF N!Begin, N!Is
<1>6. j.kind = kind /\ j.named = release /\ j.alone = apart /\ j.at = first
  BY <1>4 DEF N!Free
<1>7. /\ installing' \in [Commands -> InstallJobs] /\ installing'[i] = j
      /\ \A k \in Commands \ {i} : installing'[k] = N!Seen(installing)[k]
  BY <1>5, SeenBySomebody
<1>8. FilesOK'
  BY <1>1, <1>7 DEF InstallInv, FilesOK
<1>9. ASSUME NEW k \in Commands PROVE Secured(installing[k])'
  <2>1. CASE k = i
    BY <1>3, <1>6, <1>7, <2>1, InstallFacts DEF Secured, Publishing
  <2>2. CASE k # i
    <3>1. PICK q : q = N!Seen(installing)[k]
      OBVIOUS
    <3>2. /\ q.kind = installing[k].kind /\ q.at = installing[k].at
          /\ q.read = installing[k].read /\ q.named = installing[k].named
      BY <3>1, SeenBySomebody
    <3>3. Secured(q)
      BY <3>2, InstallFacts DEF Secured
    <3>4. installing'[k] = q
      BY <1>7, <2>2, <3>1
    <3> QED  BY <1>1, <3>3, <3>4 DEF Secured, N!Expected, N!Absent
  <2> QED  BY <2>1, <2>2
<1>10. ASSUME NEW k \in Commands, installing'[k].alone
       PROVE  /\ Undisturbed(installing[k])'
              /\ \A l \in Commands \ {k} : installing'[l].at = "idle"
  <2>1. k = i
    BY <1>7, <1>10, SeenBySomebody
  <2>2. \A l \in Commands \ {k} : installing'[l].at = "idle"
    <3>1. \A l \in Commands \ {i} : installing[l].at = "idle"
      BY <1>2, <1>6, <1>7, <1>10, <2>1
    <3> QED  BY <1>7, <2>1, <3>1, SeenBySomebody
  <2>3. Undisturbed(installing[k])'
    BY <1>1, <1>3, <1>6, <1>7, <2>1 DEF Undisturbed, Publishing
  <2> QED  BY <2>2, <2>3
<1> QED  BY <1>8, <1>9, <1>10 DEF InstallInv

LEMMA WriteKeeps ==
  ASSUME InstallInv, NEW s \in 1..SettingsWritten, NEW off \in BOOLEAN, N!Write(s, off)
  PROVE  InstallInv'
<1>1. /\ UNCHANGED <<backups, caches, release>> /\ installing' = N!Seen(installing)
      /\ wrote' = wrote \cup {s} /\ late \subseteq late' /\ s \in Nat
      /\ (\E i \in Commands : installing[i].at = "replace") => s \in late'
  BY CommandsAssumption DEF N!Write, N!Is
<1>2. /\ config' \in Configs /\ config'.settings = config.settings \cup {s}
      /\ config'.forge = "on" => config.forge = "on"
  <2>1. config \in Configs
    BY DEF InstallInv, FilesOK
  <2>2. PICK f \in {"none", "on", "off"} :
           f = IF off /\ config.forge = "on" THEN "off" ELSE config.forge
    BY <2>1 DEF Configs
  <2>3. config' = [settings |-> config.settings \cup {s}, forge |-> f]
    BY <2>2 DEF N!Write
  <2> QED  BY <1>1, <2>1, <2>2, <2>3 DEF Configs
<1>3. FilesOK'
  BY <1>1, <1>2, SeenBySomebody DEF InstallInv, FilesOK
<1>4. ASSUME NEW k \in Commands PROVE Secured(installing[k])' /\ ~installing'[k].alone
  BY <1>1, InstallFacts, SeenBySomebody DEF Secured, N!Expected, N!Absent
<1> QED  BY <1>3, <1>4 DEF InstallInv

LEMMA UpgradeKeeps ==
  ASSUME InstallInv, N!Upgrade PROVE InstallInv'
<1>1. /\ UNCHANGED <<config, backups, caches, wrote, late>> /\ installing' = N!Seen(installing)
      /\ release' \in N!Releases
  BY CommandsAssumption DEF N!Upgrade, InstallInv, FilesOK, N!Releases
<1>2. FilesOK'
  BY <1>1, SeenBySomebody DEF InstallInv, FilesOK
<1>3. ASSUME NEW k \in Commands PROVE Secured(installing[k])' /\ ~installing'[k].alone
  BY <1>1, InstallFacts, SeenBySomebody DEF Secured, N!Expected, N!Absent
<1> QED  BY <1>2, <1>3 DEF InstallInv

LEMMA InstallStep == InstallInv /\ N!InstallNext => InstallInv'
<1> SUFFICES ASSUME InstallInv, N!InstallNext PROVE InstallInv'
  OBVIOUS
<1>1. ASSUME NEW i \in Commands, N!Stop(i) PROVE InstallInv'
  BY <1>1, EndsBadly DEF N!Stop, N!Is, N!Keep
<1>2. ASSUME NEW i \in Commands, N!Installs(i) PROVE InstallInv'
  BY <1>2, DoctorKeeps, LockKeeps, ReadConfigKeeps, MaterializeKeeps, StageKeeps, BackupKeeps,
     LookAgainKeeps, ReplaceKeeps, VerifyKeeps, LooksKeep DEF N!Installs
<1> QED  BY <1>1, <1>2, BeginKeeps, WriteKeeps, UpgradeKeeps DEF N!InstallNext

LEMMA InstallStarts == N!InstallInit => InstallInv
<1> SUFFICES ASSUME N!InstallInit PROVE InstallInv
  OBVIOUS
<1>1. N!Free \in InstallJobs /\ N!Absent \in Configs /\ N!Absent.forge = "none"
  BY DEF InstallJobs, Configs, N!Free, N!Absent
<1>2. \A i \in Commands : installing[i] = N!Free
  BY DEF N!InstallInit
<1>3. FilesOK
  BY <1>1, CommandsAssumption DEF N!InstallInit, FilesOK, N!Releases
<1>4. N!Free.at = "idle" /\ ~N!Free.alone
  BY DEF N!Free
<1> QED  BY <1>2, <1>3, <1>4 DEF InstallInv, Secured, Publishing

(* InstallSound of Installer, for any number of installers, releases and edits *)
(* of others: no setting is lost but one written in the instant before the     *)
(* rename, what was replaced is backed up, the plugin is on only over a cache, *)
(* and an undisturbed command that reports success says what is so.            *)
THEOREM InstallationIsSound == Spec => []InstallSound
<1> DEFINE Inv == which = "install" => InstallInv
<1>1. Init => Inv
  BY InstallStarts DEF Init
<1>2. Inv /\ [Next]_vars => Inv'
  <2> SUFFICES ASSUME Inv, [Next]_vars, which' = "install" PROVE InstallInv'
    OBVIOUS
  <2>1. which = "install" /\ (UNCHANGED installVars \/ N!InstallNext)
    BY DEF Next, vars
  <2>2. CASE UNCHANGED installVars
    <3>1. InstallInv
      BY <2>1
    <3> QED  BY <2>2, <3>1 DEF installVars, InstallInv, FilesOK, Secured, Undisturbed
  <2> QED  BY <2>1, <2>2, InstallStep
<1>3. Inv => InstallSound
  <2> SUFFICES ASSUME InstallInv PROVE N!InstallSound
    BY DEF InstallSound
  <2>1. /\ wrote \ config.settings \subseteq late
        /\ config.forge = "on" => \E r \in N!Releases : caches[r] # 0
    BY DEF InstallInv, FilesOK
  <2>2. ASSUME NEW i \in Commands, N!Is(i, "verify"), installing[i].kind = "install", N!ToPublish(i)
        PROVE  installing[i].read \in backups \cup {N!Absent}
    BY <2>2, InstallFacts DEF N!Is, N!ToPublish, Secured
  <2>3. ASSUME NEW i \in Commands, N!Is(i, "idle"), installing[i].ok, installing[i].alone
        PROVE  LET good == caches[release] = release /\ config.forge = "on"
               IN CASE installing[i].kind \in {"install", "bare"} -> good
                    [] installing[i].kind = "check"               -> installing[i].current = good
                    [] installing[i].kind = "dry"                 -> installing[i].changed = ~good
    <3>1. PICK o \in InstallJobs : o = installing[i] /\ Undisturbed(o) /\ o.at = "idle" /\ o.ok
      BY <2>3, InstallFacts DEF N!Is
    <3>2. o.kind \in {"install", "bare", "check", "dry"}
      BY <3>1 DEF Undisturbed, InstallJobs
    <3>3. CASE o.kind \in {"install", "bare"}
      BY <3>1, <3>3 DEF Undisturbed, InstallKind
    <3>4. CASE o.kind = "check"
      BY <3>1, <3>4 DEF Undisturbed, InstallKind
    <3>5. CASE o.kind = "dry"
      BY <3>1, <3>5 DEF Undisturbed, InstallKind
    <3> QED  BY <3>1, <3>2, <3>3, <3>4, <3>5
  <2> QED  BY <2>1, <2>2, <2>3 DEF N!InstallSound
<1> QED  BY <1>1, <1>2, <1>3, PTL DEF Spec

-----------------------------------------------------------------------------
(* StateFirst.  What stands in status.json and in a report was earned, and *)
(* what a check was allowed on is still so when its result is written,     *)
(* because the lock is held from the one to the other.                     *)

Files1    == [Rows -> FileVersions \cup {0, 1}]
Asks      == Kinds \cup {"none"}
Trees1    == [files : Files1, rows : [Rows -> Asks]]
Outcomes  == {"none", "passed", "failed"}
Baselines == [outcome : Outcomes, at : FileVersions \cup {0, 1}, origin : FileVersions \cup {0, 1}]
Entries   == [state : {"none", "pending", "active", "done"}, origin : FileVersions \cup {0, 1},
              red : BOOLEAN, baseline : Baselines, check : Outcomes, asked : Asks]
Finals    == [outcome : Outcomes, tree : Trees1]
Statuses  == [there : BOOLEAN, sections : [Rows -> Entries], final : Finals]
Reports   == [rows : SUBSET Rows, known : SUBSET Rows, begun : SUBSET Rows, done : SUBSET Rows,
              final : Finals, tree : Trees1]
LooksOf   == Seq({"plan", "status", "tree"})
StateJobs1 == [kind : {"none", "setup", "progress", "finish", "report"},
               stage : F!Stages \cup {"none"}, section : Rows \cup {0},
               at : {"none", "lock", "in", "run", "snapshot", "look"}, first : BOOLEAN,
               asked : Asks, origin : FileVersions \cup {0, 1}, before : Trees1,
               looks : LooksOf, report : Reports, complete : BOOLEAN]

StateTypes == /\ files \in Files1 /\ snapshot \in Files1 /\ rows \in [Rows -> Asks]
              /\ status \in Statuses /\ stateCmd \in [F!Callers -> StateJobs1]

Shown(final) == final.outcome = "passed" => final.tree \in proven
HasEvidence(e, asked) == /\ e.red \/ e.baseline.outcome = "passed"
                         /\ asked = "public" => e.baseline.outcome = "passed"
Earned(e) == /\ e.baseline.at = e.baseline.origin
             /\ e.state = "done" /\ e.asked # "plain" =>
                   e.check = "passed" /\ HasEvidence(e, e.asked)
StatusOK  == Shown(status.final) /\ \A s \in Rows : Earned(status.sections[s])

\* What a caller relies on while it has the lock, and what it has found.
Relies(c1, j) ==
    /\ j.at \in {"in", "run", "snapshot"} => stateLock = c1
    /\ j.at = "run" /\ j.kind # "finish" =>
          /\ j.section \in Rows /\ j.stage \in {"baseline", "checked"}
          /\ j.stage = "baseline" => j.before.files[j.section] = j.origin
          /\ j.stage = "checked" /\ j.asked # "plain" =>
                HasEvidence(status.sections[j.section], j.asked)
Found(j) == /\ Shown(j.report.final)
            /\ j.complete => j.at = "none" /\ j.report.tree \in proven
            /\ j.kind = "progress" /\ j.at # "snapshot" => j.stage \in F!Stages

StateInv == /\ StateTypes /\ StatusOK
            /\ \A c1 \in F!Callers : Relies(c1, stateCmd[c1]) /\ Found(stateCmd[c1])

LEMMA CallerSteps ==
  ASSUME StateInv, NEW k \in F!Callers, NEW j \in StateJobs1,
         stateCmd' = [stateCmd EXCEPT ![k] = j], StateTypes', StatusOK', proven \subseteq proven',
         UNCHANGED status \/ stateLock = k,
         \A l \in F!Callers : l # k /\ stateLock = l => stateLock' = l,
         Relies(k, j)', Found(j)'
  PROVE  StateInv'
<1>1. stateCmd'[k] = j /\ \A l \in F!Callers \ {k} : stateCmd'[l] = stateCmd[l]
  BY DEF StateInv, StateTypes
<1>2. ASSUME NEW l \in F!Callers PROVE Relies(l, stateCmd[l])' /\ Found(stateCmd[l])'
  <2>1. CASE l = k
    BY <1>1, <2>1 DEF Relies, Found
  <2>2. CASE l # k
    <3>1. PICK q \in StateJobs1 : q = stateCmd[l] /\ Relies(l, q) /\ Found(q)
      BY DEF StateInv, StateTypes
    <3>2. stateCmd'[l] = q
      BY <1>1, <2>2, <3>1
    <3>3. q.at \in {"in", "run", "snapshot"} => stateLock = l /\ stateLock' = l
      BY <2>2, <3>1 DEF Relies
    <3>4. Relies(l, q)'
      BY <2>2, <3>1, <3>3 DEF Relies, HasEvidence
    <3>5. Found(q)'
      BY <3>1 DEF Found, Shown
    <3> QED  BY <3>2, <3>4, <3>5 DEF Relies, Found
  <2> QED  BY <2>1, <2>2
<1> QED  BY <1>2 DEF StateInv

LEMMA StateFacts ==
  ASSUME StateInv, NEW k \in F!Callers
  PROVE  /\ stateCmd[k] \in StateJobs1 /\ Relies(k, stateCmd[k]) /\ Found(stateCmd[k])
         /\ files \in Files1 /\ snapshot \in Files1 /\ rows \in [Rows -> Asks]
         /\ status \in Statuses /\ Shown(status.final) /\ k # "nobody"
         /\ \A s \in Rows : Earned(status.sections[s])
  BY CommandsAssumption DEF StateInv, StateTypes, StatusOK, F!Callers

\* What a caller does to its own job only.
LEMMA OnlyCaller ==
  ASSUME StateInv, NEW k \in F!Callers, NEW j \in StateJobs1,
         stateCmd' = [stateCmd EXCEPT ![k] = j],
         UNCHANGED <<files, rows, status, proven>>, snapshot' \in Files1,
         \A l \in F!Callers : l # k /\ stateLock = l => stateLock' = l,
         j.at \in {"in", "run", "snapshot"} => stateLock' = k,
         j.at # "run" \/ Relies(k, j), Found(j)
  PROVE  StateInv'
<1>1. StateTypes'
  BY DEF StateInv, StateTypes
<1>2. StatusOK'
  BY DEF StateInv, StatusOK, Shown, Earned, HasEvidence
<1>3. Relies(k, j)'
  BY DEF Relies, HasEvidence
<1>4. Found(j)'
  BY DEF Found, Shown
<1> QED  BY <1>1, <1>2, <1>3, <1>4, CallerSteps

LEMMA NothingYet ==
  /\ F!NoFiles \in Files1 /\ F!NoTree \in Trees1 /\ F!NoFinal \in Finals
  /\ F!NoEntry \in Entries /\ F!NoStatus \in Statuses /\ F!NoReport \in Reports
  /\ F!Resting \in StateJobs1 /\ Found(F!Resting) /\ F!Resting.at = "none"
  /\ F!Resting.kind = "none" /\ F!Resting.complete = FALSE
  /\ Earned(F!NoEntry) /\ F!NoFinal.outcome = "none"
<1>1. F!NoFiles \in Files1 /\ F!NoTree \in Trees1
  BY DEF F!NoFiles, F!NoTree, F!NoRows, Files1, Trees1, Asks
<1>2. F!NoFinal \in Finals /\ F!NoFinal.outcome = "none"
  BY <1>1 DEF F!NoFinal, Finals, Outcomes
<1>3. F!NoBaseline \in Baselines /\ F!NoBaseline.at = F!NoBaseline.origin
  BY DEF F!NoBaseline, Baselines, Outcomes
<1>4. F!NoEntry \in Entries
  BY <1>3 DEF F!NoEntry, Entries, Outcomes, Asks
<1>5. Earned(F!NoEntry)
  BY <1>3 DEF F!NoEntry, Earned
<1>6. F!NoStatus \in Statuses
  BY <1>2, <1>4 DEF F!NoStatus, Statuses
<1>7. F!NoReport \in Reports /\ F!NoReport.final = F!NoFinal
  BY <1>1, <1>2 DEF F!NoReport, Reports
<1>8. /\ F!Resting \in StateJobs1 /\ F!Resting.report = F!NoReport /\ F!Resting.complete = FALSE
      /\ F!Resting.at = "none" /\ F!Resting.kind = "none"
  BY <1>1, <1>7 DEF F!Resting, StateJobs1, LooksOf, Asks
<1>9. Found(F!Resting)
  BY <1>2, <1>7, <1>8 DEF Found, Shown
<1> QED  BY <1>1, <1>2, <1>4, <1>5, <1>6, <1>7, <1>8, <1>9

LEMMA StartKeeps ==
  ASSUME StateInv, NEW k \in F!Callers, NEW q \in StateJobs1, Found(q), q.at = "none", ~q.complete,
         NEW at \in {"lock", "look"}, NEW looks \in LooksOf, F!Start(k, q, at, looks)
  PROVE  StateInv'
<1>1. PICK b \in BOOLEAN : b = ~status.there
  OBVIOUS
<1>2. PICK j \in StateJobs1 : j = [q EXCEPT !.at = at, !.looks = looks, !.first = b]
  BY DEF StateJobs1
<1>3. /\ stateCmd' = [stateCmd EXCEPT ![k] = j]
      /\ UNCHANGED <<files, rows, status, snapshot, stateLock, proven>>
  BY <1>1, <1>2 DEF F!Start, F!Set, F!User
<1>4. /\ j.at = at /\ j.report = q.report /\ j.complete = q.complete
      /\ j.kind = q.kind /\ j.stage = q.stage
  BY <1>2 DEF StateJobs1
<1>5. Found(j)
  BY <1>4 DEF Found
<1>6. snapshot' \in Files1
  BY <1>3, StateFacts
<1> QED  BY <1>3, <1>4, <1>5, <1>6, OnlyCaller

LEMMA BeginJobs ==
  ASSUME StateInv, NEW k \in F!Callers, F!Begin(k)
  PROVE  StateInv'
<1>1. ASSUME NEW kind \in {"setup", "finish", "report"}
      PROVE  LET q == [F!Resting EXCEPT !.kind = kind]
             IN  q \in StateJobs1 /\ Found(q) /\ q.at = "none" /\ ~q.complete
  BY NothingYet DEF StateJobs1, Found
<1>2. ASSUME NEW s \in Rows, NEW stage \in F!Stages
      PROVE  LET q == [F!Resting EXCEPT !.kind = "progress", !.section = s, !.stage = stage]
             IN  q \in StateJobs1 /\ Found(q) /\ q.at = "none" /\ ~q.complete
  BY NothingYet DEF StateJobs1, Found
<1>3. <<>> \in LooksOf /\ \A kind \in DOMAIN F!Looks : F!Looks[kind] \in LooksOf
  <2>1. DOMAIN F!Looks = {"report", "status"}
    BY DEF F!Looks
  <2>2. <<>> \in LooksOf
    BY DEF LooksOf
  <2>3. F!Looks["report"] \in LooksOf
    BY DEF LooksOf, F!Looks
  <2>4. F!Looks["status"] \in LooksOf
    BY DEF LooksOf, F!Looks
  <2> QED  BY <2>1, <2>2, <2>3, <2>4
<1>4. DOMAIN F!Looks = {"report", "status"}
  BY DEF F!Looks
<1>5. CASE F!Start(k, [F!Resting EXCEPT !.kind = "setup"], "lock", <<>>)
  <2>1. PICK q \in StateJobs1 : /\ q = [F!Resting EXCEPT !.kind = "setup"]
                               /\ Found(q) /\ q.at = "none" /\ ~q.complete
    BY <1>1
  <2> QED  BY <1>3, <1>5, <2>1, StartKeeps
<1>6. CASE F!Start(k, [F!Resting EXCEPT !.kind = "finish"], "lock", <<>>)
  <2>1. PICK q \in StateJobs1 : /\ q = [F!Resting EXCEPT !.kind = "finish"]
                               /\ Found(q) /\ q.at = "none" /\ ~q.complete
    BY <1>1
  <2> QED  BY <1>3, <1>6, <2>1, StartKeeps
<1>7. ASSUME NEW s \in Rows, NEW stage \in F!Stages,
             F!Start(k, [F!Resting EXCEPT !.kind = "progress", !.section = s, !.stage = stage],
                     "lock", <<>>)
      PROVE  StateInv'
  <2>1. PICK q \in StateJobs1 :
           /\ q = [F!Resting EXCEPT !.kind = "progress", !.section = s, !.stage = stage]
           /\ Found(q) /\ q.at = "none" /\ ~q.complete
    BY <1>2
  <2> QED  BY <1>3, <1>7, <2>1, StartKeeps
<1>8. ASSUME NEW kind \in DOMAIN F!Looks,
             F!Start(k, [F!Resting EXCEPT !.kind = "report"], "look", F!Looks[kind])
      PROVE  StateInv'
  <2>1. PICK q \in StateJobs1 : /\ q = [F!Resting EXCEPT !.kind = "report"]
                               /\ Found(q) /\ q.at = "none" /\ ~q.complete
    BY <1>1
  <2> QED  BY <1>3, <1>8, <2>1, StartKeeps
<1> QED  BY <1>5, <1>6, <1>7, <1>8 DEF F!Begin

LEMMA StateLockKeeps ==
  ASSUME StateInv, NEW k \in F!Callers, F!Lock(k)
  PROVE  StateInv'
<1>1. PICK q \in StateJobs1 : q = stateCmd[k] /\ Found(q) /\ q.at = "lock"
  BY StateFacts DEF F!Lock, F!At
<1>2. PICK j \in StateJobs1 : j = [q EXCEPT !.at = "in"]
  BY DEF StateJobs1
<1>3. /\ stateCmd' = [stateCmd EXCEPT ![k] = j]
      /\ UNCHANGED <<files, rows, status, snapshot, proven>>
      /\ stateLock = "nobody" /\ stateLock' = k
  BY <1>1, <1>2 DEF F!Lock, F!Set, F!User, F!NoCommand
<1>4. /\ j.at = "in" /\ j.report = q.report /\ j.complete = q.complete
      /\ j.kind = q.kind /\ j.stage = q.stage
  BY <1>2 DEF StateJobs1
<1>5. Found(j) /\ snapshot' \in Files1 /\ \A l \in F!Callers : l # "nobody"
  BY <1>1, <1>3, <1>4, StateFacts DEF Found
<1> QED  BY <1>3, <1>4, <1>5, OnlyCaller

LEMMA EndsKeep ==
  ASSUME StateInv, NEW k \in F!Callers, NEW j \in StateJobs1, F!Ends(k, j), j.at = "none", Found(j),
         UNCHANGED <<files, rows, status, proven>>, snapshot' \in Files1
  PROVE  StateInv'
<1>1. /\ stateCmd' = [stateCmd EXCEPT ![k] = j]
      /\ \A l \in F!Callers : l # k /\ stateLock = l => stateLock' = l
  BY DEF F!Ends, F!Set
<1> QED  BY <1>1, OnlyCaller

LEMMA SnapshotKeeps ==
  ASSUME StateInv, NEW k \in F!Callers, F!Snapshot(k)
  PROVE  StateInv'
<1>1. PICK q \in StateJobs1 : q = stateCmd[k] /\ Found(q) /\ Relies(k, q)
  BY StateFacts
<1>2. /\ q.at = "snapshot" /\ snapshot' = q.before.files
      /\ UNCHANGED <<files, rows, status, proven>>
  BY <1>1 DEF F!Snapshot, F!At, F!User
<1>3. snapshot' \in Files1 /\ stateLock = k
  BY <1>1, <1>2 DEF StateJobs1, Trees1, Relies
<1>4. CASE q.kind = "finish"
  <2>1. F!Looks["report"] \in LooksOf
    BY DEF LooksOf, F!Looks
  <2>2. PICK j \in StateJobs1 : j = [q EXCEPT !.at = "look", !.looks = F!Looks["report"]]
    BY <2>1 DEF StateJobs1
  <2>3. stateCmd' = [stateCmd EXCEPT ![k] = j]
    BY <1>1, <1>4, <2>2 DEF F!Snapshot, F!Set
  <2>4. j.at = "look" /\ j.report = q.report /\ j.complete = q.complete /\ j.kind = q.kind
    BY <2>2 DEF StateJobs1
  <2>5. Found(j)
    BY <1>1, <1>2, <1>4, <2>4 DEF Found
  <2> QED  BY <1>2, <1>3, <2>3, <2>4, <2>5, OnlyCaller
<1>5. CASE q.kind # "finish"
  <2>1. F!Ends(k, F!Resting)
    BY <1>1, <1>5 DEF F!Snapshot
  <2>2. PICK j \in StateJobs1 : j = F!Resting /\ Found(j) /\ j.at = "none"
    BY NothingYet
  <2> QED  BY <1>2, <1>3, <2>1, <2>2, EndsKeep
<1> QED  BY <1>4, <1>5

LEMMA SectionSet ==
  ASSUME NEW st \in Statuses, NEW s \in Rows, NEW e \in Entries
  PROVE  LET new == [st EXCEPT !.sections[s] = e] IN
         /\ new \in Statuses /\ new.final = st.final
         /\ \A x \in Rows : new.sections[x] = IF x = s THEN e ELSE st.sections[x]
  BY DEF Statuses

\* The status is written under the lock, and says what was earned.
LEMMA StateWriteKeeps ==
  ASSUME StateInv, NEW k \in F!Callers, NEW st \in Statuses, NEW q \in StateJobs1,
         F!Write(k, st, q), stateLock = k, proven \subseteq proven',
         st.final.outcome = "passed" => st.final.tree \in proven',
         \A s \in Rows : Earned(st.sections[s])
  PROVE  StateInv'
<1>1. PICK j \in StateJobs1 :
         j = [F!Resting EXCEPT !.kind = q.kind, !.at = "snapshot", !.before.files = files]
  <2>1. PICK r \in StateJobs1, t \in Trees1 : r = F!Resting /\ t = [r.before EXCEPT !.files = files]
    <3>1. PICK r \in StateJobs1 : r = F!Resting
      BY NothingYet
    <3>2. r.before \in Trees1 /\ files \in Files1
      BY StateFacts DEF StateJobs1
    <3>3. [r.before EXCEPT !.files = files] \in Trees1
      BY <3>2 DEF Trees1
    <3> QED  BY <3>1, <3>3
  <2>2. [r EXCEPT !.kind = q.kind, !.at = "snapshot", !.before = t] \in StateJobs1
    BY DEF StateJobs1
  <2>3. [r EXCEPT !.kind = q.kind, !.at = "snapshot", !.before.files = files]
           = [r EXCEPT !.kind = q.kind, !.at = "snapshot", !.before = t]
    BY <2>1
  <2> QED  BY <2>1, <2>2, <2>3
<1>2. /\ stateCmd' = [stateCmd EXCEPT ![k] = j] /\ status' = st
      /\ UNCHANGED <<files, rows, snapshot, stateLock>>
  BY <1>1 DEF F!Write, F!Set, F!User
<1>3. j.at = "snapshot" /\ j.report = F!Resting.report /\ j.complete = F!Resting.complete
  BY <1>1, NothingYet DEF StateJobs1
<1>4. StateTypes'
  BY <1>2 DEF StateInv, StateTypes
<1>5. StatusOK'
  BY <1>2 DEF StatusOK, Shown, Earned, HasEvidence
<1>6. Relies(k, j)'
  BY <1>2, <1>3 DEF Relies
<1>7. Found(j)'
  <2>1. Found(j)
    BY <1>3, NothingYet DEF Found
  <2> QED  BY <2>1 DEF Found, Shown
<1> QED  BY <1>2, <1>4, <1>5, <1>6, <1>7, CallerSteps

LEMMA SetupKeeps ==
  ASSUME StateInv, NEW k \in F!Callers, F!Setup(k)
  PROVE  StateInv'
<1>1. PICK q \in StateJobs1 : q = stateCmd[k] /\ Found(q) /\ Relies(k, q)
  BY StateFacts
<1>2. q.at = "in" /\ stateLock = k
  BY <1>1 DEF F!Setup, F!At, Relies
<1>3. PICK old \in Statuses : /\ old = F!Base(k) /\ Shown(old.final)
                              /\ \A s \in Rows : Earned(old.sections[s])
  <2>1. LET new == [F!NoStatus EXCEPT !.there = TRUE] IN
        /\ new \in Statuses /\ new.final = F!NoFinal
        /\ \A s \in Rows : new.sections[s] = F!NoEntry
    <3>1. F!NoStatus \in Statuses
      BY NothingYet
    <3> QED  BY <3>1, NothingYet DEF Statuses, F!NoStatus
  <2> QED  BY <2>1, NothingYet, StateFacts DEF F!Base, Shown
<1>4. PICK new \in Statuses :
         /\ new = F!Synced(old) /\ new.final = old.final
         /\ \A s \in Rows : Earned(new.sections[s])
  <2> DEFINE Part(s) == IF s \notin F!Planned THEN F!NoEntry
                        ELSE IF old.sections[s].state = "none"
                             THEN [F!NoEntry EXCEPT !.state = "pending"] ELSE old.sections[s]
  <2>1. LET e == [F!NoEntry EXCEPT !.state = "pending"] IN e \in Entries /\ Earned(e)
    BY NothingYet DEF Entries, Earned
  <2>2. \A s \in Rows : Part(s) \in Entries /\ Earned(Part(s))
    BY <1>3, <2>1, NothingYet DEF Statuses
  <2>3. F!Synced(old) = [old EXCEPT !.sections = [s \in Rows |-> Part(s)]]
    BY DEF F!Synced
  <2> HIDE DEF Part
  <2>4. LET n == [old EXCEPT !.sections = [s \in Rows |-> Part(s)]] IN
        n \in Statuses /\ n.final = old.final /\ \A s \in Rows : n.sections[s] = Part(s)
    BY <2>2 DEF Statuses
  <2> QED  BY <2>2, <2>3, <2>4
<1>5. PICK st \in Statuses :
         /\ st = IF F!Planned = {} \/ F!Orphans(old) # {} THEN old ELSE new
         /\ Shown(st.final) /\ \A s \in Rows : Earned(st.sections[s])
  BY <1>3, <1>4
<1>6. CASE F!Write(k, st, stateCmd[k]) /\ UNCHANGED proven
  BY <1>1, <1>2, <1>5, <1>6, StateWriteKeeps DEF Shown
<1>7. CASE F!Ends(k, F!Resting) /\ F!User /\ UNCHANGED <<status, snapshot, proven>>
  <2>1. PICK j \in StateJobs1 : j = F!Resting /\ Found(j) /\ j.at = "none"
    BY NothingYet
  <2>2. snapshot' \in Files1
    BY <1>7, StateFacts
  <2> QED  BY <1>7, <2>1, <2>2, EndsKeep DEF F!User
<1>8. \/ F!Write(k, st, stateCmd[k]) /\ UNCHANGED proven
      \/ F!Ends(k, F!Resting) /\ F!User /\ UNCHANGED <<status, snapshot, proven>>
  BY <1>3, <1>4, <1>5 DEF F!Setup
<1> QED  BY <1>6, <1>7, <1>8

\* What an entry becomes is an entry, and has been earned if the step was allowed.
LEMMA UpdatedEarned ==
  ASSUME NEW j \in StateJobs1, NEW e \in Entries, NEW outcome \in Outcomes, Earned(e),
         j.section \in Rows, j.stage \in F!Stages,
         j.stage = "baseline" => j.before.files[j.section] = j.origin,
         j.stage = "done" => j.asked = "plain",
         j.stage = "checked" /\ j.asked # "plain" => HasEvidence(e, j.asked)
  PROVE  F!Updated(j, e, outcome) \in Entries /\ Earned(F!Updated(j, e, outcome))
<1>1. PICK u \in Entries : u = [e EXCEPT !.origin = j.origin, !.state = "active"]
  BY DEF Entries, StateJobs1
<1>2. /\ u.state = "active" /\ u.red = e.red /\ u.baseline = e.baseline /\ u.check = e.check
      /\ u.asked = e.asked
  BY <1>1 DEF Entries
<1>0. /\ j.origin \in FileVersions \cup {0, 1} /\ j.asked \in Asks
      /\ j.before.files[j.section] \in FileVersions \cup {0, 1}
  <2>1. j.before \in Trees1 /\ j.origin \in FileVersions \cup {0, 1} /\ j.asked \in Asks
    BY DEF StateJobs1
  <2> QED  BY <2>1 DEF Trees1, Files1
<1>3. CASE j.stage = "started"
  <2>1. F!Updated(j, e, outcome) = u
    BY <1>1, <1>3 DEF F!Updated
  <2> QED  BY <1>2, <2>1 DEF Earned
<1>4. CASE j.stage = "red"
  <2>1. F!Updated(j, e, outcome) = [u EXCEPT !.red = TRUE]
    BY <1>1, <1>4 DEF F!Updated
  <2>2. LET x == [u EXCEPT !.red = TRUE] IN
        x \in Entries /\ x.state = u.state /\ x.baseline = u.baseline
    BY DEF Entries
  <2> QED  BY <1>2, <2>1, <2>2 DEF Earned
<1>5. CASE j.stage = "done"
  <2>1. F!Updated(j, e, outcome) = [u EXCEPT !.state = "done", !.asked = j.asked]
    BY <1>1, <1>5 DEF F!Updated
  <2>2. LET x == [u EXCEPT !.state = "done", !.asked = j.asked] IN
        x \in Entries /\ x.asked = j.asked /\ x.baseline = u.baseline
    BY <1>0 DEF Entries
  <2> QED  BY <1>2, <1>5, <2>1, <2>2 DEF Earned
<1>6. CASE j.stage = "baseline"
  <2> DEFINE b == [outcome |-> outcome, at |-> j.before.files[j.section], origin |-> j.origin]
  <2>1. b \in Baselines /\ b.at = b.origin
    BY <1>0, <1>6 DEF Baselines
  <2> HIDE DEF b
  <2>2. F!Updated(j, e, outcome) = [u EXCEPT !.baseline = b]
    BY <1>1, <1>6 DEF F!Updated, b
  <2> QED  BY <1>2, <2>1, <2>2 DEF Earned, Entries
<1>7. CASE j.stage = "checked"
  <2>1. PICK st \in {"done", "active"} : st = IF outcome = "passed" THEN "done" ELSE u.state
    BY <1>2
  <2>2. F!Updated(j, e, outcome) = [u EXCEPT !.check = outcome, !.asked = j.asked, !.state = st]
    BY <1>1, <1>7, <2>1 DEF F!Updated
  <2> DEFINE x == [u EXCEPT !.check = outcome, !.asked = j.asked, !.state = st]
  <2>3. /\ x \in Entries /\ x.check = outcome /\ x.asked = j.asked /\ x.state = st
        /\ x.red = u.red /\ x.baseline = u.baseline
    BY <1>0 DEF Entries
  <2> HIDE DEF x
  <2>4. Earned(x)
    BY <1>2, <1>7, <2>1, <2>3 DEF Earned, HasEvidence
  <2> QED  BY <2>2, <2>3, <2>4 DEF x
<1> QED  BY <1>3, <1>4, <1>5, <1>6, <1>7 DEF F!Stages

LEMMA ProgressKeeps ==
  ASSUME StateInv, NEW k \in F!Callers, F!Progress(k)
  PROVE  StateInv'
<1>1. PICK q \in StateJobs1 : q = stateCmd[k] /\ Found(q) /\ Relies(k, q)
  BY StateFacts
<1>2. q.at = "in" /\ stateLock = k /\ q.kind = "progress"
  BY <1>1 DEF F!Progress, F!At, Relies
<1>3. /\ q.section \in Rows /\ rows[q.section] \in Asks
      /\ status.sections[q.section] \in Entries /\ Earned(status.sections[q.section])
  <2>1. q.section \in Rows
    BY <1>1 DEF F!Progress, F!Allowed, F!Planned
  <2>2. rows \in [Rows -> Asks] /\ status.sections \in [Rows -> Entries]
    BY StateFacts DEF Statuses
  <2> QED  BY <2>1, <2>2, StateFacts
<1>4. PICK from \in FileVersions \cup {0, 1} : from = F!Origin(k)
  <2>1. files[q.section] \in FileVersions \cup {0, 1}
    BY <1>3, StateFacts DEF Files1
  <2>2. snapshot[q.section] \in FileVersions \cup {0, 1}
    BY <1>3, StateFacts DEF Files1
  <2>3. status.sections[q.section].origin \in FileVersions \cup {0, 1}
    BY <1>3 DEF Entries
  <2> QED  BY <1>1, <2>1, <2>2, <2>3 DEF F!Origin, F!Entry, F!File
<1>5. PICK tree \in Trees1 : tree = F!Tree /\ tree.files = files
  <2>1. files \in Files1 /\ rows \in [Rows -> Asks] /\ F!NoRows \in [Rows -> Asks]
    BY StateFacts DEF F!NoRows, Asks
  <2>2. PICK seen \in [Rows -> Asks] : seen = IF inside THEN rows ELSE F!NoRows
    BY <2>1
  <2>3. F!Tree = [files |-> files, rows |-> seen]
    BY <2>2 DEF F!Tree
  <2> QED  BY <2>1, <2>3 DEF Trees1
<1>6. PICK asked \in Asks : asked = rows[q.section]
  BY <1>3
<1>7. PICK j \in StateJobs1 : j = [q EXCEPT !.asked = asked, !.origin = from, !.before = tree]
  BY DEF StateJobs1
<1>8. /\ j.asked = asked /\ j.origin = from /\ j.before = tree /\ j.stage = q.stage
      /\ j.section = q.section /\ j.kind = q.kind /\ j.report = q.report
      /\ j.complete = q.complete
  BY <1>7 DEF StateJobs1
<1>9. /\ j.stage = "baseline" => j.before.files[j.section] = j.origin
      /\ j.stage = "done" => j.asked = "plain"
      /\ j.stage = "checked" /\ j.asked # "plain" =>
            HasEvidence(status.sections[j.section], j.asked)
  <2>1. F!Allowed(k) /\ F!Entry(k) = status.sections[q.section] /\ F!File(k) = files[q.section]
    BY <1>1 DEF F!Progress, F!Entry, F!File
  <2>2. j.stage = "baseline" => j.before.files[j.section] = j.origin
    BY <1>1, <1>4, <1>5, <1>8, <2>1 DEF F!Allowed, F!Unedited
  <2>3. j.stage = "done" => j.asked = "plain"
    BY <1>1, <1>6, <1>8, <2>1 DEF F!Allowed, F!Evidence
  <2>4. j.stage = "checked" /\ j.asked # "plain" =>
            HasEvidence(status.sections[j.section], j.asked)
    BY <1>1, <1>6, <1>8, <2>1 DEF F!Allowed, F!Evidence, F!HasBaseline, HasEvidence
  <2> QED  BY <2>2, <2>3, <2>4
<1>10. j = [stateCmd[k] EXCEPT !.asked = rows[stateCmd[k].section], !.origin = F!Origin(k),
                               !.before = F!Tree]
  BY <1>1, <1>4, <1>5, <1>6, <1>7
<1>11. CASE /\ j.stage \in {"baseline", "checked"} /\ F!Set(k, [j EXCEPT !.at = "run"])
            /\ F!User /\ UNCHANGED <<status, snapshot, stateLock, begun, stateUsed>>
            /\ UNCHANGED proven
  <2>1. PICK x \in StateJobs1 : x = [j EXCEPT !.at = "run"]
    BY DEF StateJobs1
  <2>2. /\ x.at = "run" /\ x.stage = j.stage /\ x.section = j.section /\ x.asked = j.asked
        /\ x.origin = j.origin /\ x.before = j.before /\ x.report = j.report
        /\ x.complete = j.complete /\ x.kind = j.kind
    BY <2>1 DEF StateJobs1
  <2>3. Relies(k, x)
    BY <1>2, <1>3, <1>8, <1>9, <1>11, <2>2 DEF Relies
  <2>4. Found(x)
    BY <1>1, <1>2, <1>8, <2>2 DEF Found
  <2>5. snapshot' \in Files1 /\ stateCmd' = [stateCmd EXCEPT ![k] = x]
    BY <1>11, <2>1, StateFacts DEF F!Set
  <2> QED  BY <1>2, <1>11, <2>3, <2>4, <2>5, OnlyCaller DEF F!User
<1>12. CASE /\ j.stage \notin {"baseline", "checked"} /\ UNCHANGED proven
            /\ F!Write(k, [status EXCEPT !.sections[j.section] =
                                 F!Updated(j, F!Entry(k), "none")], j)
  <2>1. F!Entry(k) = status.sections[j.section] /\ j.stage \in F!Stages /\ j.section \in Rows
    BY <1>1, <1>2, <1>3, <1>8 DEF F!Entry, Found
  <2>2. PICK e \in Entries : e = F!Updated(j, F!Entry(k), "none") /\ Earned(e)
    BY <1>3, <1>8, <1>9, <2>1, UpdatedEarned DEF Outcomes
  <2>3. /\ status \in Statuses /\ Shown(status.final)
        /\ \A s \in Rows : Earned(status.sections[s])
    BY StateFacts
  <2> DEFINE st == [status EXCEPT !.sections[j.section] = e]
  <2>4. /\ st \in Statuses /\ st.final = status.final
        /\ \A s \in Rows : st.sections[s] = IF s = j.section THEN e ELSE status.sections[s]
    BY <2>1, <2>3, SectionSet
  <2>5. F!Write(k, st, j)
    BY <1>12, <2>2
  <2> HIDE DEF st
  <2>6. \A s \in Rows : Earned(st.sections[s])
    BY <2>2, <2>3, <2>4
  <2>7. st.final.outcome = "passed" => st.final.tree \in proven'
    BY <1>12, <2>3, <2>4 DEF Shown
  <2>8. PICK new \in Statuses : new = st
    BY <2>4
  <2> QED  BY <1>2, <1>12, <2>5, <2>6, <2>7, <2>8, StateWriteKeeps
<1>13. \/ /\ j.stage \in {"baseline", "checked"} /\ F!Set(k, [j EXCEPT !.at = "run"])
          /\ F!User /\ UNCHANGED <<status, snapshot, stateLock, begun, stateUsed>>
          /\ UNCHANGED proven
       \/ /\ j.stage \notin {"baseline", "checked"} /\ UNCHANGED proven
          /\ F!Write(k, [status EXCEPT !.sections[j.section] =
                               F!Updated(j, F!Entry(k), "none")], j)
  BY <1>10 DEF F!Progress
<1> QED  BY <1>11, <1>12, <1>13

LEMMA SuiteKeeps ==
  ASSUME StateInv, NEW k \in F!Callers, F!Suite(k)
  PROVE  StateInv'
<1>1. PICK q \in StateJobs1 : q = stateCmd[k] /\ Found(q) /\ Relies(k, q)
  BY StateFacts
<1>2. q.at = "in" /\ stateLock = k /\ q.kind = "finish"
  BY <1>1 DEF F!Suite, F!At, Relies
<1>3. F!Tree \in Trees1
  <2>1. files \in Files1 /\ rows \in [Rows -> Asks] /\ F!NoRows \in [Rows -> Asks]
    BY StateFacts DEF F!NoRows, Asks
  <2>2. PICK seen \in [Rows -> Asks] : seen = IF inside THEN rows ELSE F!NoRows
    BY <2>1
  <2>3. F!Tree = [files |-> files, rows |-> seen]
    BY <2>2 DEF F!Tree
  <2> QED  BY <2>1, <2>3 DEF Trees1
<1>4. PICK j \in StateJobs1 : j = [q EXCEPT !.before = F!Tree, !.at = "run"]
  BY <1>3 DEF StateJobs1
<1>5. /\ stateCmd' = [stateCmd EXCEPT ![k] = j]
      /\ UNCHANGED <<files, rows, status, snapshot, stateLock, proven>>
  BY <1>1, <1>4 DEF F!Suite, F!Set, F!User
<1>6. j.at = "run" /\ j.kind = "finish" /\ j.report = q.report /\ j.complete = q.complete
  BY <1>2, <1>4 DEF StateJobs1
<1>7. Found(j) /\ Relies(k, j) /\ snapshot' \in Files1
  BY <1>1, <1>2, <1>5, <1>6, StateFacts DEF Found, Relies
<1> QED  BY <1>2, <1>5, <1>7, OnlyCaller

LEMMA RanKeeps ==
  ASSUME StateInv, NEW k \in F!Callers, NEW passed \in BOOLEAN, F!Ran(k, passed)
  PROVE  StateInv'
<1>1. PICK q \in StateJobs1 : q = stateCmd[k] /\ Found(q) /\ Relies(k, q)
  BY StateFacts
<1>2. q.at = "run" /\ stateLock = k /\ q.before \in Trees1
  BY <1>1 DEF F!Ran, F!At, Relies, StateJobs1
<1>3. PICK o \in Outcomes : o = F!Outcome(k, passed)
  BY DEF F!Outcome, Outcomes
<1>4. /\ status \in Statuses /\ Shown(status.final)
      /\ \A s \in Rows : Earned(status.sections[s])
  BY StateFacts
<1>5. /\ proven \subseteq proven'
      /\ q.kind = "finish" /\ o = "passed" => q.before \in proven'
  BY <1>1, <1>3 DEF F!Ran, F!Outcome
<1>6. CASE q.kind = "finish"
  <2>1. PICK f \in Finals : f = [outcome |-> o, tree |-> q.before]
    BY <1>2 DEF Finals
  <2> DEFINE st == [status EXCEPT !.final = f]
  <2>2. st \in Statuses /\ st.final = f /\ st.sections = status.sections
    BY <1>4 DEF Statuses
  <2>3. F!Write(k, st, q)
    BY <1>1, <1>3, <1>6, <2>1 DEF F!Ran
  <2> HIDE DEF st
  <2>4. st.final.outcome = "passed" => st.final.tree \in proven'
    BY <1>5, <1>6, <2>1, <2>2
  <2>5. PICK new \in Statuses : new = st
    BY <2>2
  <2> QED  BY <1>2, <1>4, <1>5, <2>2, <2>3, <2>4, <2>5, StateWriteKeeps
<1>7. CASE q.kind # "finish"
  <2>1. /\ q.section \in Rows /\ q.stage \in F!Stages
        /\ q.stage = "baseline" => q.before.files[q.section] = q.origin
        /\ q.stage = "done" => q.asked = "plain"
        /\ q.stage = "checked" /\ q.asked # "plain" =>
              HasEvidence(status.sections[q.section], q.asked)
    BY <1>1, <1>2, <1>7 DEF Relies, F!Stages
  <2>2. status.sections[q.section] \in Entries /\ Earned(status.sections[q.section])
    BY <1>4, <2>1 DEF Statuses
  <2>3. PICK e \in Entries : e = F!Updated(q, status.sections[q.section], o) /\ Earned(e)
    BY <2>1, <2>2, UpdatedEarned
  <2> DEFINE st == [status EXCEPT !.sections[q.section] = e]
  <2>4. /\ st \in Statuses /\ st.final = status.final
        /\ \A s \in Rows : st.sections[s] = IF s = q.section THEN e ELSE status.sections[s]
    BY <1>4, <2>1, SectionSet
  <2>5. F!Write(k, st, q)
    BY <1>1, <1>3, <1>7, <2>3 DEF F!Ran, F!Entry
  <2> HIDE DEF st
  <2>6. \A s \in Rows : Earned(st.sections[s])
    BY <1>4, <2>3, <2>4
  <2>7. st.final.outcome = "passed" => st.final.tree \in proven'
    BY <1>4, <1>5, <2>4 DEF Shown
  <2>8. PICK new \in Statuses : new = st
    BY <2>4
  <2> QED  BY <1>2, <1>5, <2>5, <2>6, <2>7, <2>8, StateWriteKeeps
<1> QED  BY <1>6, <1>7

LEMMA LookKeeps ==
  ASSUME StateInv, NEW k \in F!Callers, F!Look(k)
  PROVE  StateInv'
<1>1. PICK q \in StateJobs1 : q = stateCmd[k] /\ Found(q)
  BY StateFacts
<1>2. /\ q.at = "look" /\ q.looks \in LooksOf /\ q.looks # <<>> /\ q.report \in Reports
      /\ UNCHANGED <<files, rows, status, snapshot, stateLock, proven>>
  BY <1>1 DEF F!Look, F!At, F!User, StateJobs1
<1>3. Tail(q.looks) \in LooksOf /\ Head(q.looks) \in {"plan", "status", "tree"}
  BY <1>2 DEF LooksOf
<1>4. F!Tree \in Trees1
  <2>1. files \in Files1 /\ rows \in [Rows -> Asks] /\ F!NoRows \in [Rows -> Asks]
    BY StateFacts DEF F!NoRows, Asks
  <2>2. PICK seen \in [Rows -> Asks] : seen = IF inside THEN rows ELSE F!NoRows
    BY <2>1
  <2>3. F!Tree = [files |-> files, rows |-> seen]
    BY <2>2 DEF F!Tree
  <2> QED  BY <2>1, <2>3 DEF Trees1
<1>5. PICK r \in Reports :
         /\ r = CASE Head(q.looks) = "plan"   -> [q.report EXCEPT !.rows = F!Planned]
                  [] Head(q.looks) = "tree"   -> [q.report EXCEPT !.tree = F!Tree]
                  [] Head(q.looks) = "status" ->
                       [q.report EXCEPT !.known = F!Known, !.begun = F!Begun(status),
                          !.final = status.final,
                          !.done = {s \in Rows : status.sections[s].state = "done"}]
         /\ Shown(r.final)
  <2>1. CASE Head(q.looks) = "plan"
    <3>1. LET r == [q.report EXCEPT !.rows = F!Planned] IN
          r \in Reports /\ r.final = q.report.final
      BY <1>2 DEF Reports, F!Planned
    <3> QED  BY <1>1, <2>1, <3>1 DEF Found
  <2>2. CASE Head(q.looks) = "tree"
    <3>1. LET r == [q.report EXCEPT !.tree = F!Tree] IN
          r \in Reports /\ r.final = q.report.final
      BY <1>2, <1>4 DEF Reports
    <3> QED  BY <1>1, <2>2, <3>1 DEF Found
  <2>3. CASE Head(q.looks) = "status"
    <3>1. status.final \in Finals /\ Shown(status.final)
      BY StateFacts DEF Statuses
    <3>2. LET r == [q.report EXCEPT !.known = F!Known, !.begun = F!Begun(status),
                          !.final = status.final,
                          !.done = {s \in Rows : status.sections[s].state = "done"}] IN
          r \in Reports /\ r.final = status.final
      BY <1>2, <3>1 DEF Reports, F!Known, F!Begun
    <3> QED  BY <2>3, <3>1, <3>2
  <2> QED  BY <1>3, <2>1, <2>2, <2>3
<1>6. PICK j \in StateJobs1 : j = [q EXCEPT !.looks = Tail(q.looks), !.report = r]
  BY <1>3 DEF StateJobs1
<1>7. stateCmd' = [stateCmd EXCEPT ![k] = j]
  BY <1>1, <1>5, <1>6 DEF F!Look, F!Set
<1>8. /\ j.at = "look" /\ j.report = r /\ j.complete = q.complete /\ j.kind = q.kind
      /\ j.stage = q.stage
  BY <1>2, <1>6 DEF StateJobs1
<1>9. Found(j) /\ snapshot' \in Files1
  BY <1>1, <1>2, <1>5, <1>8, StateFacts DEF Found, Shown
<1> QED  BY <1>2, <1>7, <1>8, <1>9, OnlyCaller

LEMMA AnswerKeeps ==
  ASSUME StateInv, NEW k \in F!Callers, F!Answer(k)
  PROVE  StateInv'
<1>1. PICK q \in StateJobs1 : q = stateCmd[k] /\ Found(q)
  BY StateFacts
<1>2. PICK b \in BOOLEAN : b = F!Complete(q.report) /\ (b => q.report.tree \in proven)
  BY <1>1 DEF F!Complete, F!Current, Found, Shown
<1>3. PICK r \in StateJobs1 : /\ r = F!Resting /\ Found(r) /\ r.at = "none"
                              /\ r.kind = "none" /\ ~r.complete
  BY NothingYet
<1>4. PICK j \in StateJobs1 :
         j = [r EXCEPT !.complete = b, !.report = IF b THEN q.report ELSE @]
  <2>1. PICK told \in Reports : told = IF b THEN q.report ELSE r.report
    BY DEF StateJobs1
  <2>2. [r EXCEPT !.complete = b, !.report = told] \in StateJobs1
    BY DEF StateJobs1
  <2> QED  BY <2>1, <2>2
<1>5. F!Ends(k, j) /\ UNCHANGED <<files, rows, status, snapshot, proven>>
  BY <1>1, <1>2, <1>3, <1>4 DEF F!Answer, F!User
<1>6. /\ j.at = "none" /\ j.kind = "none" /\ j.complete = b
      /\ j.report = IF b THEN q.report ELSE r.report
  BY <1>3, <1>4 DEF StateJobs1
<1>7. Found(j) /\ snapshot' \in Files1
  BY <1>1, <1>2, <1>3, <1>5, <1>6, StateFacts DEF Found
<1> QED  BY <1>5, <1>6, <1>7, EndsKeep

LEMMA StateStopKeeps ==
  ASSUME StateInv, NEW k \in F!Callers, F!Stop(k)
  PROVE  StateInv'
<1>1. PICK j \in StateJobs1 : j = F!Resting /\ Found(j) /\ j.at = "none"
  BY NothingYet
<1>2. F!Ends(k, j) /\ UNCHANGED <<files, rows, status, snapshot, proven>>
  BY <1>1 DEF F!Stop, F!User
<1>3. snapshot' \in Files1
  BY <1>2, StateFacts
<1> QED  BY <1>1, <1>2, <1>3, EndsKeep

\* What the user edits, or a draft of the plan, is not what anybody relies on.
LEMMA UserKeeps ==
  ASSUME StateInv, files' \in Files1, rows' \in [Rows -> Asks],
         UNCHANGED <<status, snapshot, stateLock, stateCmd, proven>>
  PROVE  StateInv'
  BY DEF StateInv, StateTypes, StatusOK, Relies, Found, Shown, Earned, HasEvidence

LEMMA StateStep ==
  ASSUME StateInv, F!StateNext
  PROVE  StateInv'
<1>1. files \in Files1 /\ rows \in [Rows -> Asks]
  BY DEF StateInv, StateTypes
<1>2. CASE F!Edit
  <2>1. ASSUME NEW s \in Rows, NEW v \in FileVersions \ {files[s]},
               files' = [files EXCEPT ![s] = v] /\ UNCHANGED rows
        PROVE  files' \in Files1 /\ rows' \in [Rows -> Asks]
    BY <1>1, <2>1 DEF Files1
  <2>2. ASSUME NEW s \in Rows, NEW a \in (Kinds \cup {"none"}) \ {rows[s]},
               rows' = [rows EXCEPT ![s] = a] /\ UNCHANGED files
        PROVE  files' \in Files1 /\ rows' \in [Rows -> Asks]
    BY <1>1, <2>2 DEF Asks
  <2> QED  BY <1>2, <2>1, <2>2, UserKeeps DEF F!Edit
<1>3. ASSUME NEW k \in F!Callers, F!Draft(k) PROVE StateInv'
  BY <1>1, <1>3, UserKeeps DEF F!Draft
<1> QED
  BY <1>2, <1>3, BeginJobs, StateLockKeeps, SetupKeeps, ProgressKeeps, SuiteKeeps, SnapshotKeeps,
     LookKeeps, AnswerKeeps, StateStopKeeps, RanKeeps DEF F!StateNext

LEMMA StateStarts == F!StateInit => StateInv
<1> SUFFICES ASSUME F!StateInit PROVE StateInv
  OBVIOUS
<1>1. files = [s \in Rows |-> 1] /\ rows = F!NoRows /\ status = F!NoStatus
      /\ snapshot = F!NoFiles /\ stateCmd = [k \in F!Callers |-> F!Resting]
  BY DEF F!StateInit
<1>2. StateTypes
  BY <1>1, NothingYet DEF StateTypes, Files1, Asks, F!NoRows
<1>3. StatusOK
  BY <1>1, NothingYet DEF StatusOK, Shown, F!NoStatus
<1>4. ASSUME NEW k \in F!Callers PROVE Relies(k, stateCmd[k]) /\ Found(stateCmd[k])
  BY <1>1, NothingYet DEF Relies
<1> QED  BY <1>2, <1>3, <1>4 DEF StateInv

(* CompleteIsTrue of StateFirst, for any rows, files, writers and readers: a  *)
(* plan is called complete only if its suite passed on the tree looked at,    *)
(* and a section done under a row that asks for evidence has that evidence.   *)
THEOREM CompletenessIsTrue == Spec => []CompleteIsTrue
<1> DEFINE Inv == which = "state" => StateInv
<1>1. Init => Inv
  BY StateStarts DEF Init
<1>2. Inv /\ [Next]_vars => Inv'
  <2> SUFFICES ASSUME Inv, [Next]_vars, which' = "state" PROVE StateInv'
    OBVIOUS
  <2>1. which = "state" /\ (UNCHANGED stateVars \/ F!StateNext)
    BY DEF Next, vars
  <2>2. CASE UNCHANGED stateVars
    <3>1. StateInv
      BY <2>1
    <3> QED  BY <2>2, <3>1
           DEF stateVars, StateInv, StateTypes, StatusOK, Relies, Found, Shown, Earned, HasEvidence
  <2> QED  BY <2>1, <2>2, StateStep
<1>3. Inv => CompleteIsTrue
  <2> SUFFICES ASSUME StateInv PROVE F!CompleteIsTrue
    BY DEF CompleteIsTrue
  <2>1. \A k \in F!Callers : stateCmd[k].complete => stateCmd[k].report.tree \in proven
    BY DEF StateInv, Found
  <2>2. \A s \in Rows : Earned(status.sections[s])
    BY DEF StateInv, StatusOK
  <2> QED  BY <2>1, <2>2 DEF F!CompleteIsTrue, Earned, HasEvidence
<1> QED  BY <1>1, <1>2, <1>3, PTL DEF Spec

-----------------------------------------------------------------------------
(* DetachedSetup.  A root is bound to one set of inputs, its slots fill and *)
(* become final in their order, and who has the lock knows how far it came. *)

AllLinks == D!Cardinality(D!Dirs) + IF countsFiles THEN D!Cardinality(D!Slots) ELSE 0
IsFinal(s, v, p) ==
    /\ v = [kind |-> "final", of |-> p, links |-> IF s = "progress" THEN 0 ELSE AllLinks,
            events |-> v.events]
    /\ v.events \in Nat
OneOf(s, v, p) == v = D!Absent \/ v = D!Pending(p) \/ IsFinal(s, v, p)
Has(s)       == root.slot[s] # D!Absent
FinalIs(s)   == root.slot[s].kind = "final"

RootShape == /\ root = [dirs |-> root.dirs, marker |-> root.marker, temps |-> root.temps,
                        slot |-> root.slot]
             /\ root.slot = [s \in D!Slots |-> root.slot[s]]
             /\ root.dirs \subseteq D!Dirs /\ root.marker \in BOOLEAN
             /\ root.temps \subseteq D!Temps
OneSet    == \E p \in Plans : \A s \in D!Slots : OneOf(s, root.slot[s], p)
InOrder   == /\ Has("progress") => Has("state")
             /\ Has("state") => Has("config")
             /\ Has("config") => root.dirs = D!Dirs /\ root.marker
             /\ FinalIs("progress") => FinalIs("state")
             /\ FinalIs("state") => FinalIs("config")
             /\ FinalIs("config") => Has("progress")
RootOK    == RootShape /\ OneSet /\ InOrder

RootJobs == [kind : {"none", "setup", "progress"}, at : 0..18, look : Plans \cup {0},
             links : {0, AllLinks}, temp : SUBSET D!Temps]
IsJob(j) == /\ j \in RootJobs
            /\ \/ j.kind = "none"
               \/ j.kind = "setup" /\ j.at \in 1..18 /\ (j.at >= 2 => j.look \in Plans)
               \/ j.kind = "progress" /\ j.at \in 1..8 /\ (j.at >= 3 => j.look \in Plans)
Holds(j) == \/ j.kind = "setup" /\ j.at >= 3
            \/ j.kind = "progress" /\ j.at >= 2

\* The step of a job that reserves, or promotes, a slot.
ReserveAt == [config |-> 10, state |-> 11, progress |-> 12]
PromoteAt == [config |-> 14, state |-> 15, progress |-> 16]
HalfDone(j) ==
    \/ j.temp = {}
    \/ /\ j.kind = "setup"
       /\ \E s \in D!Slots :
             \/ j.at = ReserveAt[s] /\ j.temp = {<<"setup", s>>} /\ ~Has(s)
             \/ /\ j.at = PromoteAt[s] /\ j.temp = {<<"write", s>>}
                /\ root.slot[s] = D!Pending(j.look)
    \/ j.kind = "progress" /\ j.at = 6 /\ j.temp = {<<"write", "progress">>}
SetupCame(j) ==
    /\ j.at >= 5 => \A s \in D!Slots : Has(s) => root.slot[s].of = j.look
    /\ j.at >= 6 => root.temps = j.temp
    /\ j.at >= 7 => "pinners" \in root.dirs
    /\ j.at >= 8 => root.marker
    /\ j.at >= 9 => "code_review" \in root.dirs
    /\ j.at >= 10 => "evidence" \in root.dirs
    /\ \A s \in D!Slots : (j.at > ReserveAt[s] => Has(s)) /\ (j.at > PromoteAt[s] => FinalIs(s))
    /\ j.at >= 14 => j.links = AllLinks
ProgressCame(j) ==
    /\ j.at >= 4 => \A s \in D!Slots : FinalIs(s)
    /\ j.at >= 5 => root.temps = j.temp
JobIs(k, j) == /\ IsJob(j)
               /\ Holds(j) => lock = k
               /\ ~Holds(j) => j.temp = {}
               /\ HalfDone(j)
               /\ j.kind = "setup" => SetupCame(j)
               /\ j.kind = "progress" => ProgressCame(j)
JobsOK == /\ cmd \in [Commands -> RootJobs]
          /\ \A k \in Commands : JobIs(k, cmd[k])
SetupInv == /\ RootOK /\ JobsOK
            /\ plan \in Plans /\ countsFiles \in BOOLEAN

LEMMA SetupSteps ==
  ASSUME NEW n \in 1..18
  PROVE  LET s == D!Script["setup"][n] IN
         /\ s = "look" <=> n = 1
         /\ s = "lock" <=> n = 2
         /\ s = "agree" <=> n \in {3, 17}
         /\ s = "replay" <=> n = 4
         /\ s = "sweep" <=> n = 5
         /\ s = "pinners" <=> n = 6
         /\ s = "marker" <=> n = 7
         /\ s = "code_review" <=> n = 8
         /\ s = "evidence" <=> n = 9
         /\ s = "identify" <=> n = 13
         /\ s = "answer" <=> n = 18
         /\ s \notin {"open", "unmoved", "add"}
         /\ \A t \in D!Slots : /\ s = D!Reserving[t] <=> n = ReserveAt[t]
                               /\ s = D!Promoting[t] <=> n = PromoteAt[t]
<1>1. /\ D!Reserving["config"] = "reserve_config"
      /\ D!Reserving["state"] = "reserve_state"
      /\ D!Reserving["progress"] = "reserve_progress"
      /\ D!Promoting["config"] = "promote_config"
      /\ D!Promoting["state"] = "promote_state"
      /\ D!Promoting["progress"] = "promote_progress"
  BY DEF D!Reserving, D!Promoting
<1>2. PICK all : all = D!Script["setup"]
  OBVIOUS
<1>3. all = <<"look", "lock", "agree", "replay", "sweep", "pinners", "marker",
         "code_review", "evidence", "reserve_config", "reserve_state", "reserve_progress",
         "identify", "promote_config", "promote_state", "promote_progress", "agree", "answer">>
  BY <1>1, <1>2 DEF D!Script
<1>4. /\ all[1] = "look" /\ all[2] = "lock" /\ all[3] = "agree" /\ all[4] = "replay"
      /\ all[5] = "sweep" /\ all[6] = "pinners" /\ all[7] = "marker"
      /\ all[8] = "code_review" /\ all[9] = "evidence"
  BY <1>3
<1>5. /\ all[10] = "reserve_config" /\ all[11] = "reserve_state" /\ all[12] = "reserve_progress"
      /\ all[13] = "identify" /\ all[14] = "promote_config" /\ all[15] = "promote_state"
      /\ all[16] = "promote_progress" /\ all[17] = "agree" /\ all[18] = "answer"
  BY <1>3
<1>6. /\ ReserveAt["config"] = 10 /\ ReserveAt["state"] = 11 /\ ReserveAt["progress"] = 12
      /\ PromoteAt["config"] = 14 /\ PromoteAt["state"] = 15 /\ PromoteAt["progress"] = 16
  BY DEF ReserveAt, PromoteAt
<1>7. PICK s : s = all[n]
  OBVIOUS
<1>8. \/ n = 1 /\ s = "look"
      \/ n = 2 /\ s = "lock"
      \/ n = 3 /\ s = "agree"
      \/ n = 4 /\ s = "replay"
      \/ n = 5 /\ s = "sweep"
      \/ n = 6 /\ s = "pinners"
      \/ n = 7 /\ s = "marker"
      \/ n = 8 /\ s = "code_review"
      \/ n = 9 /\ s = "evidence"
      \/ n = 10 /\ s = "reserve_config"
      \/ n = 11 /\ s = "reserve_state"
      \/ n = 12 /\ s = "reserve_progress"
      \/ n = 13 /\ s = "identify"
      \/ n = 14 /\ s = "promote_config"
      \/ n = 15 /\ s = "promote_state"
      \/ n = 16 /\ s = "promote_progress"
      \/ n = 17 /\ s = "agree"
      \/ n = 18 /\ s = "answer"
  <2>1. \/ n = 1 \/ n = 2 \/ n = 3 \/ n = 4 \/ n = 5 \/ n = 6 \/ n = 7 \/ n = 8 \/ n = 9
        \/ n = 10 \/ n = 11 \/ n = 12 \/ n = 13 \/ n = 14 \/ n = 15 \/ n = 16 \/ n = 17 \/ n = 18
    OBVIOUS
  <2> QED  BY <1>4, <1>5, <1>7, <2>1
<1>9. /\ s = "look" <=> n = 1
      /\ s = "lock" <=> n = 2
      /\ s = "agree" <=> n \in {3, 17}
      /\ s = "replay" <=> n = 4
      /\ s = "sweep" <=> n = 5
      /\ s = "pinners" <=> n = 6
      /\ s = "marker" <=> n = 7
      /\ s = "code_review" <=> n = 8
      /\ s = "evidence" <=> n = 9
      /\ s = "identify" <=> n = 13
      /\ s = "answer" <=> n = 18
      /\ s \notin {"open", "unmoved", "add"}
  BY <1>8
<1>10. /\ s = "reserve_config" <=> n = 10
       /\ s = "reserve_state" <=> n = 11
       /\ s = "reserve_progress" <=> n = 12
       /\ s = "promote_config" <=> n = 14
       /\ s = "promote_state" <=> n = 15
       /\ s = "promote_progress" <=> n = 16
  BY <1>8
<1>11. \A t \in D!Slots : /\ s = D!Reserving[t] <=> n = ReserveAt[t]
                          /\ s = D!Promoting[t] <=> n = PromoteAt[t]
  <2> SUFFICES ASSUME NEW t \in D!Slots
               PROVE  /\ s = D!Reserving[t] <=> n = ReserveAt[t]
                      /\ s = D!Promoting[t] <=> n = PromoteAt[t]
    OBVIOUS
  <2>1. CASE t = "config"
    BY <1>1, <1>6, <1>10, <2>1
  <2>2. CASE t = "state"
    BY <1>1, <1>6, <1>10, <2>2
  <2>3. CASE t = "progress"
    BY <1>1, <1>6, <1>10, <2>3
  <2> QED  BY <2>1, <2>2, <2>3 DEF D!Slots
<1> QED  BY <1>2, <1>7, <1>9, <1>11

LEMMA ProgressSteps ==
  ASSUME NEW n \in 1..8
  PROVE  LET s == D!Script["progress"][n] IN
         /\ s = "lock" <=> n = 1
         /\ s = "look" <=> n = 2
         /\ s = "open" <=> n = 3
         /\ s = "sweep" <=> n = 4
         /\ s = "unmoved" <=> n = 5
         /\ s = "add" <=> n = 6
         /\ s = "agree" <=> n = 7
         /\ s = "answer" <=> n = 8
         /\ s \notin {"replay", "marker", "identify"} \cup D!Dirs
         /\ \A t \in D!Slots : s # D!Reserving[t] /\ s # D!Promoting[t]
<1>1. /\ D!Reserving["config"] = "reserve_config"
      /\ D!Reserving["state"] = "reserve_state"
      /\ D!Reserving["progress"] = "reserve_progress"
      /\ D!Promoting["config"] = "promote_config"
      /\ D!Promoting["state"] = "promote_state"
      /\ D!Promoting["progress"] = "promote_progress"
  BY DEF D!Reserving, D!Promoting
<1>2. PICK all : all = D!Script["progress"]
  OBVIOUS
<1>3. all = <<"lock", "look", "open", "sweep", "unmoved", "add", "agree", "answer">>
  BY <1>2 DEF D!Script
<1>4. /\ all[1] = "lock" /\ all[2] = "look" /\ all[3] = "open" /\ all[4] = "sweep"
      /\ all[5] = "unmoved" /\ all[6] = "add" /\ all[7] = "agree" /\ all[8] = "answer"
  BY <1>3
<1>5. PICK s : s = all[n]
  OBVIOUS
<1>6. /\ s = "lock" <=> n = 1
      /\ s = "look" <=> n = 2
      /\ s = "open" <=> n = 3
      /\ s = "sweep" <=> n = 4
      /\ s = "unmoved" <=> n = 5
      /\ s = "add" <=> n = 6
      /\ s = "agree" <=> n = 7
      /\ s = "answer" <=> n = 8
  BY <1>4, <1>5
<1>7. s \in {"lock", "look", "open", "sweep", "unmoved", "add", "agree", "answer"}
  BY <1>4, <1>5
<1>8. s \notin {"replay", "marker", "identify"} \cup D!Dirs
  BY <1>7 DEF D!Dirs
<1>9. ASSUME NEW t \in D!Slots PROVE s # D!Reserving[t] /\ s # D!Promoting[t]
  <2>1. t \in {"config", "state", "progress"}
    BY DEF D!Slots
  <2>2. /\ D!Reserving[t] \in {"reserve_config", "reserve_state", "reserve_progress"}
        /\ D!Promoting[t] \in {"promote_config", "promote_state", "promote_progress"}
    BY <1>1, <2>1
  <2> QED  BY <1>7, <2>2
<1> QED  BY <1>2, <1>5, <1>6, <1>8, <1>9

\* Where a command stands.
SetupStands(k, n) == cmd[k].kind = "setup" /\ cmd[k].at = n
ProgressStands(k, n) == cmd[k].kind = "progress" /\ cmd[k].at = n
LEMMA Stands ==
  ASSUME SetupInv, NEW k \in Commands
  PROVE  LET s == D!Step(k)
             On(a, b) == SetupStands(k, a) \/ ProgressStands(k, b)
         IN  /\ s = "look" <=> On(1, 2)
             /\ s = "lock" <=> On(2, 1)
             /\ s = "agree" <=> On(3, 7) \/ SetupStands(k, 17)
             /\ s = "sweep" <=> On(5, 4)
             /\ s = "answer" <=> On(18, 8)
             /\ s = "replay" <=> SetupStands(k, 4)
             /\ s = "pinners" <=> SetupStands(k, 6)
             /\ s = "marker" <=> SetupStands(k, 7)
             /\ s = "code_review" <=> SetupStands(k, 8)
             /\ s = "evidence" <=> SetupStands(k, 9)
             /\ s = "identify" <=> SetupStands(k, 13)
             /\ s = "open" <=> ProgressStands(k, 3)
             /\ s = "unmoved" <=> ProgressStands(k, 5)
             /\ s = "add" <=> ProgressStands(k, 6)
             /\ \A t \in D!Slots : /\ s = D!Reserving[t] <=> SetupStands(k, ReserveAt[t])
                                   /\ s = D!Promoting[t] <=> SetupStands(k, PromoteAt[t])
<1>1. PICK j : j = cmd[k] /\ IsJob(j)
  BY DEF SetupInv, JobsOK, JobIs
<1>2. PICK s : s = D!Step(k)
  OBVIOUS
<1>3. CASE j.kind = "none"
  <2>1. s = "none"
    BY <1>1, <1>2, <1>3 DEF D!Step
  <2> QED  BY <1>1, <1>2, <1>3, <2>1
           DEF SetupStands, ProgressStands, D!Reserving, D!Promoting, D!Slots
<1>4. CASE j.kind = "setup"
  <2>1. s = D!Script["setup"][j.at] /\ j.at \in 1..18
    BY <1>1, <1>2, <1>4 DEF D!Step, IsJob
  <2>2. /\ s = "look" <=> j.at = 1
        /\ s = "lock" <=> j.at = 2
        /\ s = "agree" <=> j.at \in {3, 17}
        /\ s = "replay" <=> j.at = 4
        /\ s = "sweep" <=> j.at = 5
        /\ s = "pinners" <=> j.at = 6
        /\ s = "marker" <=> j.at = 7
        /\ s = "code_review" <=> j.at = 8
        /\ s = "evidence" <=> j.at = 9
        /\ s = "identify" <=> j.at = 13
        /\ s = "answer" <=> j.at = 18
        /\ s \notin {"open", "unmoved", "add"}
        /\ \A t \in D!Slots : /\ s = D!Reserving[t] <=> j.at = ReserveAt[t]
                              /\ s = D!Promoting[t] <=> j.at = PromoteAt[t]
    BY <2>1, SetupSteps
  <2> QED  BY <1>1, <1>2, <1>4, <2>2 DEF SetupStands, ProgressStands
<1>5. CASE j.kind = "progress"
  <2>1. s = D!Script["progress"][j.at] /\ j.at \in 1..8
    BY <1>1, <1>2, <1>5 DEF D!Step, IsJob
  <2>2. /\ s = "lock" <=> j.at = 1
        /\ s = "look" <=> j.at = 2
        /\ s = "open" <=> j.at = 3
        /\ s = "sweep" <=> j.at = 4
        /\ s = "unmoved" <=> j.at = 5
        /\ s = "add" <=> j.at = 6
        /\ s = "agree" <=> j.at = 7
        /\ s = "answer" <=> j.at = 8
        /\ s \notin {"replay", "marker", "identify"} \cup D!Dirs
        /\ \A t \in D!Slots : s # D!Reserving[t] /\ s # D!Promoting[t]
    BY <2>1, ProgressSteps
  <2> QED  BY <1>1, <1>2, <1>5, <2>2 DEF SetupStands, ProgressStands, D!Dirs
<1> QED  BY <1>1, <1>3, <1>4, <1>5 DEF IsJob

LEMMA SlotKinds ==
  /\ D!Absent.kind = "absent"
  /\ \A p : /\ D!Pending(p).kind = "pending" /\ D!Pending(p).of = p
            /\ D!Pending(p) # D!Absent
<1>1. ASSUME NEW a, a = [kind |-> "absent", of |-> 0, links |-> 0, events |-> 0], NEW p
      PROVE  /\ [a EXCEPT !.kind = "pending", !.of = p].kind = "pending"
             /\ [a EXCEPT !.kind = "pending", !.of = p].of = p
  BY <1>1
<1>2. D!Absent.kind = "absent"
  BY DEF D!Absent
<1>3. ASSUME NEW p PROVE D!Pending(p).kind = "pending" /\ D!Pending(p).of = p
  <2>1. PICK a : a = D!Absent
    OBVIOUS
  <2>2. a = [kind |-> "absent", of |-> 0, links |-> 0, events |-> 0]
    BY <2>1 DEF D!Absent
  <2>3. D!Pending(p) = [a EXCEPT !.kind = "pending", !.of = p]
    BY <2>1 DEF D!Pending
  <2> QED  BY <1>1, <2>2, <2>3
<1> QED  BY <1>2, <1>3

LEMMA NoJob == \E none \in RootJobs : none = D!Resting /\ none.kind = "none" /\ none.temp = {}
<1>1. PICK t \in SUBSET D!Temps : t = {}
  OBVIOUS
<1>2. PICK n \in 0..18, p \in Plans \cup {0}, l \in {0, AllLinks} : n = 0 /\ p = 0 /\ l = 0
  OBVIOUS
<1>3. PICK what \in {"none", "setup", "progress"} : what = "none"
  OBVIOUS
<1>4. PICK r \in RootJobs : r = [kind |-> what, at |-> n, look |-> p, links |-> l, temp |-> t]
  BY DEF RootJobs
<1>5. r.kind = "none" /\ r.temp = {}
  BY <1>1, <1>3, <1>4
<1>6. r = D!Resting
  BY <1>1, <1>2, <1>3, <1>4 DEF D!Resting
<1> QED  BY <1>5, <1>6

LEMMA ShapeOf ==
  ASSUME NEW ds, ds \subseteq D!Dirs, NEW m, m \in BOOLEAN, NEW T, T \subseteq D!Temps,
         NEW sl, sl = [s \in D!Slots |-> sl[s]],
         root = [dirs |-> ds, marker |-> m, temps |-> T, slot |-> sl]
  PROVE  RootShape /\ root.dirs = ds /\ root.marker = m /\ root.temps = T /\ root.slot = sl
<1>1. root.dirs = ds /\ root.marker = m /\ root.temps = T /\ root.slot = sl
  OBVIOUS
<1>2. root = [dirs |-> root.dirs, marker |-> root.marker, temps |-> root.temps,
              slot |-> root.slot]
  BY <1>1
<1> QED  BY <1>1, <1>2 DEF RootShape

LEMMA JobFacts ==
  ASSUME SetupInv, NEW k \in Commands
  PROVE  /\ JobIs(k, cmd[k]) /\ IsJob(cmd[k]) /\ RootShape /\ OneSet /\ InOrder /\ plan \in Plans
         /\ k # "nobody"
  BY CommandsAssumption DEF SetupInv, RootOK, JobsOK, JobIs

\* One command does something: with the lock to the root, or to itself only.
LEMMA JobActs ==
  ASSUME SetupInv, NEW k \in Commands, NEW j, cmd' = [cmd EXCEPT ![k] = j],
         RootOK', JobIs(k, j)', UNCHANGED <<plan, countsFiles>>, lock = k \/ UNCHANGED root,
         \A l \in Commands : l # k /\ lock = l => lock' = l
  PROVE  SetupInv'
<1>0. RootJobs' = RootJobs
  BY DEF RootJobs, AllLinks
<1>1. /\ cmd' \in [Commands -> RootJobs]' /\ cmd'[k] = j
      /\ \A l \in Commands \ {k} : cmd'[l] = cmd[l]
  BY <1>0 DEF SetupInv, JobsOK, JobIs, IsJob
<1>2. ASSUME NEW l \in Commands \ {k} PROVE JobIs(l, cmd[l])'
  <2>1. PICK q : q = cmd[l] /\ JobIs(l, q)
    BY JobFacts
  <2>2. CASE Holds(q)
    <3>1. lock = l /\ lock' = l /\ UNCHANGED root
      BY <2>1, <2>2 DEF JobIs
    <3>2. JobIs(l, q)'
      BY <1>0, <2>1, <3>1
         DEF JobIs, IsJob, HalfDone, SetupCame, ProgressCame, Has, FinalIs, AllLinks
    <3> QED  BY <1>1, <2>1, <3>2 DEF JobIs
  <2>3. CASE ~Holds(q)
    <3>1. q.temp = {} /\ IsJob(q)
      BY <2>1, <2>3 DEF JobIs
    <3>2. q.kind = "setup" => SetupCame(q)'
      BY <2>3, <3>1 DEF SetupCame, Holds, IsJob, ReserveAt, PromoteAt, D!Slots
    <3>3. q.kind = "progress" => ProgressCame(q)'
      BY <2>3, <3>1 DEF ProgressCame, Holds, IsJob
    <3>4. JobIs(l, q)'
      BY <1>0, <2>3, <3>1, <3>2, <3>3 DEF JobIs, IsJob, HalfDone
    <3> QED  BY <1>1, <2>1, <3>4 DEF JobIs
  <2> QED  BY <2>2, <2>3
<1>3. JobsOK'
  BY <1>1, <1>2 DEF JobsOK, JobIs
<1> QED  BY <1>3 DEF SetupInv

\* A job goes on to its next step.
LEMMA GoesOnward ==
  ASSUME SetupInv, NEW k \in Commands, NEW q, q = cmd[k], D!Goes(k),
         \/ q.kind = "setup" /\ q.at \in 2..17
         \/ q.kind = "progress" /\ q.at \in (1..7) \ {2}
  PROVE  \E j : /\ cmd' = [cmd EXCEPT ![k] = j] /\ IsJob(j) /\ Holds(j)
                /\ j.kind = q.kind /\ j.at = q.at + 1 /\ j.look = q.look
                /\ j.links = q.links /\ j.temp = {}
<1>1. q \in RootJobs /\ IsJob(q)
  BY JobFacts DEF IsJob
<1>2. PICK n \in 0..18 : n = q.at + 1
  OBVIOUS
<1>3. PICK none \in SUBSET D!Temps : none = {}
  OBVIOUS
<1>4. PICK j \in RootJobs : j = [q EXCEPT !.at = n, !.temp = none]
  BY <1>1 DEF RootJobs
<1>5. cmd' = [cmd EXCEPT ![k] = j]
  BY <1>1, <1>2, <1>3, <1>4 DEF D!Goes, SetupInv, JobsOK
<1>6. /\ j.kind = q.kind /\ j.at = q.at + 1 /\ j.look = q.look /\ j.links = q.links
      /\ j.temp = {}
  BY <1>1, <1>2, <1>3, <1>4 DEF RootJobs
<1>7. IsJob(j) /\ Holds(j)
  <2>1. CASE q.kind = "setup" /\ q.at \in 2..17
    BY <1>1, <1>6, <2>1 DEF IsJob, Holds
  <2>2. CASE q.kind = "progress" /\ q.at \in (1..7) \ {2}
    BY <1>1, <1>6, <2>2 DEF IsJob, Holds
  <2> QED  BY <2>1, <2>2
<1> QED  BY <1>5, <1>6, <1>7

LEMMA RootSame ==
  ASSUME RootOK, UNCHANGED <<root, countsFiles>>
  PROVE  RootOK'
  BY DEF RootOK, RootShape, OneSet, OneOf, IsFinal, InOrder, Has, FinalIs, AllLinks

LEMMA RootTemps ==
  ASSUME RootOK, NEW T, T \subseteq D!Temps, root' = [root EXCEPT !.temps = T],
         UNCHANGED countsFiles
  PROVE  /\ RootOK' /\ root'.temps = T
         /\ root'.dirs = root.dirs /\ root'.marker = root.marker /\ root'.slot = root.slot
<1>1. PICK r : /\ r = [dirs |-> root.dirs, marker |-> root.marker, temps |-> T, slot |-> root.slot]
               /\ root' = r
  BY DEF RootOK, RootShape
<1>2. /\ root'.temps = T /\ root'.dirs = root.dirs
      /\ root'.marker = root.marker /\ root'.slot = root.slot
  BY <1>1
<1>3. RootShape'
  BY <1>1, <1>2 DEF RootOK, RootShape
<1>4. OneSet' /\ InOrder'
  BY <1>2 DEF RootOK, OneSet, OneOf, IsFinal, InOrder, Has, FinalIs, AllLinks
<1> QED  BY <1>2, <1>3, <1>4 DEF RootOK

SlotSet(T, s, v) == root' = [root EXCEPT !.temps = T, !.slot[s] = v]
LEMMA RootSlot ==
  ASSUME RootShape, NEW T \in SUBSET D!Temps, NEW s \in D!Slots, NEW v, SlotSet(T, s, v)
  PROVE  /\ RootShape' /\ root'.temps = T /\ root'.dirs = root.dirs /\ root'.marker = root.marker
         /\ \A t \in D!Slots : root'.slot[t] = IF t = s THEN v ELSE root.slot[t]
<1>1. PICK all : /\ all = [root.slot EXCEPT ![s] = v]
                 /\ root' = [dirs |-> root.dirs, marker |-> root.marker, temps |-> T, slot |-> all]
  BY DEF RootShape, SlotSet
<1>2. /\ all = [t \in D!Slots |-> all[t]]
      /\ \A t \in D!Slots : all[t] = IF t = s THEN v ELSE root.slot[t]
  BY <1>1 DEF RootShape
<1> QED  BY <1>1, <1>2 DEF RootShape

LEMMA LinksAre ==
  ASSUME root.dirs = D!Dirs, \A s \in D!Slots : Has(s), countsFiles \in BOOLEAN
  PROVE  /\ root.temps = {} => D!Links = AllLinks
         /\ IsFiniteSet(root.temps) => AllLinks \in {D!Links, D!Links - D!Cardinality(root.temps)}
<1>1. ASSUME NEW set PROVE D!Cardinality(set) = Cardinality(set)
  BY DEF D!Cardinality, Cardinality
<1>2. {s \in D!Slots : root.slot[s] # D!Absent} = D!Slots
  BY DEF Has
<1>3. Cardinality(D!Dirs) \in Nat /\ Cardinality(D!Slots) \in Nat
  <2>1. IsFiniteSet({"config"} \cup {"state"} \cup {"progress"})
    BY FS_Singleton, FS_AddElement
  <2>2. IsFiniteSet({"code_review"} \cup {"evidence"} \cup {"pinners"})
    BY FS_Singleton, FS_AddElement
  <2>3. /\ D!Slots = {"config"} \cup {"state"} \cup {"progress"}
        /\ D!Dirs = {"code_review"} \cup {"evidence"} \cup {"pinners"}
    BY DEF D!Slots, D!Dirs
  <2> QED  BY <2>1, <2>2, <2>3, FS_CardinalityType
<1>4. PICK d1, d2, n : /\ d1 = D!Cardinality(D!Dirs) /\ d2 = D!Cardinality(D!Slots)
                       /\ n = D!Cardinality(root.temps) /\ d1 \in Nat /\ d2 \in Nat
  BY <1>1, <1>3
<1>5. /\ D!Links = d1 + IF countsFiles THEN n + d2 ELSE 0
      /\ AllLinks = d1 + IF countsFiles THEN d2 ELSE 0
  BY <1>2, <1>4 DEF D!Links, AllLinks
<1>6. root.temps = {} => n = 0
  BY <1>1, <1>4, FS_EmptySet
<1>7. IsFiniteSet(root.temps) => n \in Nat
  BY <1>1, <1>4, FS_CardinalityType
<1>8. root.temps = {} => D!Links = AllLinks
  BY <1>4, <1>5, <1>6
<1>9. IsFiniteSet(root.temps) => AllLinks \in {D!Links, D!Links - n}
  BY <1>4, <1>5, <1>7
<1> QED  BY <1>4, <1>8, <1>9

\* A step that only the job of the command shows.
LEMMA JobOnly ==
  ASSUME SetupInv, NEW k \in Commands, NEW j, cmd' = [cmd EXCEPT ![k] = j], JobIs(k, j),
         UNCHANGED <<plan, root, countsFiles, lock>>
  PROVE  SetupInv'
<1>1. JobIs(k, j)'
  BY DEF JobIs, IsJob, RootJobs, HalfDone, SetupCame, ProgressCame, Has, FinalIs, AllLinks
<1>2. RootOK'
  BY RootSame DEF SetupInv
<1> QED  BY <1>1, <1>2, JobActs

LEMMA BeginKeepsRoot ==
  ASSUME SetupInv, NEW k \in Commands, NEW kind \in DOMAIN D!Script, D!Begin(k, kind)
  PROVE  SetupInv'
<1>1. kind \in {"setup", "progress"}
  BY DEF D!Script
<1>2. PICK r \in RootJobs : r = D!Resting /\ r.temp = {}
  BY NoJob
<1>3. PICK j \in RootJobs : j = [r EXCEPT !.kind = kind, !.at = 1]
  <2>1. PICK one \in 0..18 : one = 1
    OBVIOUS
  <2>2. PICK what \in {"none", "setup", "progress"} : what = kind
    BY <1>1
  <2>3. PICK j \in RootJobs : j = [r EXCEPT !.kind = what, !.at = one]
    BY DEF RootJobs
  <2> QED  BY <2>1, <2>2, <2>3
<1>4. cmd' = [cmd EXCEPT ![k] = j] /\ UNCHANGED <<plan, root, countsFiles, lock>>
  BY <1>2, <1>3 DEF D!Begin
<1>5. IsJob(j) /\ ~Holds(j) /\ j.temp = {} /\ j.at = 1
  <2>2. j.kind = kind /\ j.at = 1 /\ j.temp = {}
    BY <1>2, <1>3 DEF RootJobs
  <2> QED  BY <1>1, <2>2 DEF IsJob, Holds
<1>6. SetupCame(j) /\ ProgressCame(j)
  BY <1>5 DEF SetupCame, ProgressCame, ReserveAt, PromoteAt, D!Slots
<1> QED  BY <1>4, <1>5, <1>6, JobOnly DEF JobIs, HalfDone

LEMMA LookKeepsRoot ==
  ASSUME SetupInv, NEW k \in Commands, D!Look(k)
  PROVE  SetupInv'
<1>1. PICK q : q = cmd[k] /\ JobIs(k, q) /\ IsJob(q)
  BY JobFacts
<1>2. \/ q.kind = "setup" /\ q.at = 1
      \/ q.kind = "progress" /\ q.at = 2
  BY <1>1, Stands DEF D!Look, SetupStands, ProgressStands
<1>3. q.temp = {}
  BY <1>1, <1>2 DEF JobIs, HalfDone, ReserveAt, PromoteAt, D!Slots
<1>4. PICK n \in 0..18 : n = q.at + 1
  BY <1>2
<1>5. PICK j \in RootJobs : j = [q EXCEPT !.look = plan, !.at = n]
  BY <1>1, JobFacts DEF IsJob, RootJobs
<1>6. cmd' = [cmd EXCEPT ![k] = j] /\ UNCHANGED <<plan, root, countsFiles, lock>>
  BY <1>1, <1>4, <1>5 DEF D!Look, SetupInv, JobsOK
<1>7. j.kind = q.kind /\ j.at = q.at + 1 /\ j.look \in Plans /\ j.temp = {}
  BY <1>1, <1>3, <1>4, <1>5, JobFacts DEF IsJob, RootJobs
<1>8. IsJob(j)
  BY <1>2, <1>7 DEF IsJob
<1>9. SetupCame(j) \/ j.kind # "setup"
  BY <1>2, <1>7 DEF SetupCame, ReserveAt, PromoteAt, D!Slots
<1>10. ProgressCame(j) \/ j.kind # "progress"
  BY <1>2, <1>7 DEF ProgressCame
<1>11. Holds(j) => lock = k
  BY <1>1, <1>2, <1>7 DEF Holds, JobIs
<1> QED  BY <1>6, <1>7, <1>8, <1>9, <1>10, <1>11, JobOnly DEF JobIs, HalfDone

LEMMA LockKeepsRoot ==
  ASSUME SetupInv, NEW k \in Commands, D!Lock(k)
  PROVE  SetupInv'
<1>1. PICK q : q = cmd[k] /\ JobIs(k, q) /\ IsJob(q)
  BY JobFacts
<1>2. \/ q.kind = "setup" /\ q.at = 2
      \/ q.kind = "progress" /\ q.at = 1
  BY <1>1, Stands DEF D!Lock, SetupStands, ProgressStands
<1>3. PICK j : /\ cmd' = [cmd EXCEPT ![k] = j] /\ IsJob(j)
               /\ j.kind = q.kind /\ j.at = q.at + 1 /\ j.temp = {}
  BY <1>1, <1>2, GoesOnward DEF D!Lock, D!Go
<1>5. lock = "nobody" /\ lock' = k /\ UNCHANGED <<plan, root, countsFiles>>
  BY DEF D!Lock, D!NoCommand
<1>6. /\ SetupCame(j)' \/ j.kind # "setup"
      /\ ProgressCame(j)' \/ j.kind # "progress"
  BY <1>2, <1>3 DEF SetupCame, ProgressCame, ReserveAt, PromoteAt, D!Slots
<1>7. JobIs(k, j)'
  BY <1>3, <1>5, <1>6 DEF JobIs, HalfDone, IsJob, RootJobs, AllLinks
<1>8. RootOK' /\ \A l \in Commands : lock # l
  BY <1>5, RootSame, CommandsAssumption DEF SetupInv
<1> QED  BY <1>3, <1>5, <1>7, <1>8, JobActs

LEMMA ReplayedIs ==
  ASSUME NEW p, D!Replayable(p)
  PROVE  \A s \in D!Slots : Has(s) => root.slot[s].of = p
<1>1. ASSUME NEW s \in D!Slots, Has(s) PROVE D!IsPending(s, p) \/ D!BoundTo(s, p)
  <2>1. s \in D!Files
    BY <1>1 DEF D!Files, Has
  <2> QED  BY <1>1, <2>1 DEF D!Replayable, D!Fresh, D!PrefixOf, D!CompleteOf
<1> QED  BY <1>1, SlotKinds DEF D!IsPending, D!BoundTo

LEMMA CheckKeepsRoot ==
  ASSUME SetupInv, NEW k \in Commands, D!Check(k)
  PROVE  SetupInv'
<1>1. PICK q : q = cmd[k] /\ JobIs(k, q) /\ IsJob(q)
  BY JobFacts
<1>2. \/ q.kind = "setup" /\ q.at \in {3, 4, 17}
      \/ q.kind = "progress" /\ q.at \in {3, 5, 7}
  BY <1>1, Stands DEF D!Check, SetupStands, ProgressStands
<1>3. D!Goes(k)
  BY DEF D!Check, D!Go
<1>4. PICK j : /\ cmd' = [cmd EXCEPT ![k] = j] /\ IsJob(j)
               /\ j.kind = q.kind /\ j.at = q.at + 1 /\ j.look = q.look
               /\ j.links = q.links /\ j.temp = {}
  BY <1>1, <1>2, <1>3, GoesOnward
<1>5. lock = k /\ q.temp = {}
  BY <1>1, <1>2 DEF JobIs, HalfDone, Holds, ReserveAt, PromoteAt, D!Slots
<1>6. q.kind = "setup" /\ q.at = 4 => \A s \in D!Slots : Has(s) => root.slot[s].of = q.look
  <2> SUFFICES ASSUME q.kind = "setup", q.at = 4 PROVE D!Replayable(q.look)
    BY ReplayedIs
  <2>1. D!Step(k) = "replay"
    BY <1>1, Stands DEF SetupStands
  <2>2. D!Permits(k)
    BY DEF D!Check, D!Go
  <2> QED  BY <1>1, <2>1, <2>2 DEF D!Permits, D!Promoting
<1>7. q.kind = "progress" /\ q.at = 3 => \A s \in D!Slots : FinalIs(s)
  <2> SUFFICES ASSUME q.kind = "progress", q.at = 3 PROVE \A s \in D!Slots : FinalIs(s)
    OBVIOUS
  <2>1. D!Step(k) = "open"
    BY <1>1, Stands DEF ProgressStands
  <2>2. D!Permits(k)
    BY DEF D!Check, D!Go
  <2> QED  BY <1>1, <2>1, <2>2 DEF D!Permits, D!Promoting, D!BoundTo, FinalIs
<1>8. SetupCame(j) \/ j.kind # "setup"
  BY <1>1, <1>2, <1>4, <1>5, <1>6 DEF JobIs, SetupCame, ReserveAt, PromoteAt, D!Slots
<1>9. ProgressCame(j) \/ j.kind # "progress"
  BY <1>1, <1>2, <1>4, <1>5, <1>7 DEF JobIs, ProgressCame
<1>10. JobIs(k, j)
  BY <1>4, <1>5, <1>8, <1>9 DEF JobIs, HalfDone
<1> QED  BY <1>4, <1>10, JobOnly DEF D!Check

LEMMA SweepKeepsRoot ==
  ASSUME SetupInv, NEW k \in Commands, D!Sweep(k)
  PROVE  SetupInv'
<1>1. PICK q : q = cmd[k] /\ JobIs(k, q) /\ IsJob(q)
  BY JobFacts
<1>2. \/ q.kind = "setup" /\ q.at = 5
      \/ q.kind = "progress" /\ q.at = 4
  BY <1>1, Stands DEF D!Sweep, SetupStands, ProgressStands
<1>3. lock = k /\ q.temp = {}
  BY <1>1, <1>2 DEF JobIs, HalfDone, Holds, ReserveAt, PromoteAt, D!Slots
<1>4. ASSUME NEW t \in root.temps, root' = [root EXCEPT !.temps = @ \ {t}],
             UNCHANGED <<plan, countsFiles, lock, cmd>>
      PROVE  SetupInv'
  <2>1. PICK T \in SUBSET D!Temps : T = root.temps \ {t}
    BY JobFacts DEF RootShape
  <2>2. RootOK' /\ root'.slot = root.slot
    <3>1. root' = [root EXCEPT !.temps = T]
      BY <1>4, <2>1
    <3> QED  BY <1>4, <3>1, RootTemps DEF SetupInv
  <2>3. JobIs(k, q)'
    BY <1>1, <1>2, <1>3, <1>4, <2>2
       DEF JobIs, IsJob, RootJobs, AllLinks, HalfDone, SetupCame, ProgressCame, Has, FinalIs,
           ReserveAt, PromoteAt, D!Slots
  <2>4. cmd' = [cmd EXCEPT ![k] = q]
    BY <1>1, <1>4 DEF SetupInv, JobsOK
  <2> QED  BY <1>3, <1>4, <2>2, <2>3, <2>4, JobActs
<1>5. ASSUME root.temps = {}, D!Goes(k), UNCHANGED <<plan, root, countsFiles, lock>>
      PROVE  SetupInv'
  <2>1. PICK j : /\ cmd' = [cmd EXCEPT ![k] = j] /\ IsJob(j)
                 /\ j.kind = q.kind /\ j.at = q.at + 1 /\ j.look = q.look /\ j.temp = {}
    BY <1>1, <1>2, <1>5, GoesOnward
  <2>2. SetupCame(j) \/ j.kind # "setup"
    BY <1>1, <1>2, <1>5, <2>1 DEF JobIs, SetupCame, ReserveAt, PromoteAt, D!Slots
  <2>3. ProgressCame(j) \/ j.kind # "progress"
    BY <1>1, <1>2, <1>5, <2>1 DEF JobIs, ProgressCame
  <2>4. JobIs(k, j)
    BY <1>3, <2>1, <2>2, <2>3 DEF JobIs, HalfDone
  <2> QED  BY <1>5, <2>1, <2>4, JobOnly
<1> QED  BY <1>4, <1>5 DEF D!Sweep, D!Changes, D!Go

LEMMA RootMade ==
  ASSUME RootOK, NEW ds, ds \subseteq D!Dirs, root.dirs \subseteq ds,
         NEW m \in BOOLEAN, root.marker => m, UNCHANGED countsFiles,
         root' = [dirs |-> ds, marker |-> m, temps |-> root.temps, slot |-> root.slot]
  PROVE  /\ RootOK' /\ root'.dirs = ds /\ root'.marker = m
         /\ root'.temps = root.temps /\ root'.slot = root.slot
<1>1. RootShape'
  BY DEF RootOK, RootShape
<1>2. OneSet' /\ InOrder'
  BY DEF RootOK, RootShape, OneSet, OneOf, IsFinal, InOrder, Has, FinalIs, AllLinks
<1> QED  BY <1>1, <1>2 DEF RootOK

LEMMA MakingKeepsRoot ==
  ASSUME SetupInv, NEW k \in Commands, D!MakeDirectory(k) \/ D!Marker(k)
  PROVE  SetupInv'
<1>1. PICK q : q = cmd[k] /\ JobIs(k, q) /\ IsJob(q)
  BY JobFacts
<1>2. q.kind = "setup" /\ q.at \in {6, 7, 8, 9}
  BY <1>1, Stands DEF D!MakeDirectory, D!Marker, D!Dirs, SetupStands, ProgressStands
<1>3. lock = k /\ q.temp = {} /\ SetupCame(q)
  BY <1>1, <1>2 DEF JobIs, HalfDone, Holds, ReserveAt, PromoteAt, D!Slots
<1>4. PICK j : /\ cmd' = [cmd EXCEPT ![k] = j] /\ IsJob(j)
               /\ j.kind = q.kind /\ j.at = q.at + 1 /\ j.look = q.look /\ j.temp = {}
  BY <1>1, <1>2, GoesOnward DEF D!MakeDirectory, D!Marker, D!Go
<1>5. UNCHANGED <<plan, countsFiles, lock>>
  BY DEF D!MakeDirectory, D!Marker, D!Changes
<1>6. PICK ds, m : /\ ds \subseteq D!Dirs /\ root.dirs \subseteq ds
                   /\ m \in BOOLEAN /\ (root.marker => m)
                   /\ root' = [dirs |-> ds, marker |-> m, temps |-> root.temps,
                               slot |-> root.slot]
                   /\ q.at = 6 => "pinners" \in ds
                   /\ q.at = 7 => m
                   /\ q.at = 8 => "code_review" \in ds
                   /\ q.at = 9 => "evidence" \in ds
  <2>1. PICK s : s = D!Step(k)
    OBVIOUS
  <2>2. /\ s = "marker" <=> q.at = 7
        /\ q.at = 6 => s = "pinners"
        /\ q.at = 8 => s = "code_review"
        /\ q.at = 9 => s = "evidence"
    BY <1>1, <1>2, <2>1, Stands DEF SetupStands, ProgressStands
  <2>3. RootShape
    BY JobFacts
  <2>4. CASE D!Marker(k)
    <3>1. root' = [dirs |-> root.dirs, marker |-> TRUE, temps |-> root.temps, slot |-> root.slot]
      BY <2>3, <2>4 DEF D!Marker, D!Changes, RootShape
    <3>2. q.at = 7
      BY <2>1, <2>2, <2>4 DEF D!Marker
    <3>3. PICK ds, m : ds = root.dirs /\ m = TRUE
      OBVIOUS
    <3>4. root' = [dirs |-> ds, marker |-> m, temps |-> root.temps, slot |-> root.slot]
      BY <3>1, <3>3
    <3>5. /\ ds \subseteq D!Dirs /\ root.dirs \subseteq ds /\ m \in BOOLEAN /\ m
          /\ q.at # 6 /\ q.at # 8 /\ q.at # 9
      BY <2>3, <3>2, <3>3 DEF RootShape
    <3> QED  BY <3>4, <3>5, Zenon
  <2>5. CASE D!MakeDirectory(k)
    <3>1. /\ root' = [dirs |-> root.dirs \cup {s}, marker |-> root.marker, temps |-> root.temps,
                      slot |-> root.slot]
          /\ s \in D!Dirs
      BY <2>1, <2>3, <2>5 DEF D!MakeDirectory, D!Changes, RootShape
    <3>2. q.at # 7
      BY <2>2, <3>1 DEF D!Dirs
    <3>3. PICK ds, m : ds = root.dirs \cup {s} /\ m = root.marker
      OBVIOUS
    <3>4. root' = [dirs |-> ds, marker |-> m, temps |-> root.temps, slot |-> root.slot]
      BY <3>1, <3>3
    <3>5. /\ ds \subseteq D!Dirs /\ root.dirs \subseteq ds /\ m \in BOOLEAN /\ (root.marker => m)
          /\ q.at = 6 => "pinners" \in ds
          /\ q.at = 8 => "code_review" \in ds
          /\ q.at = 9 => "evidence" \in ds
      BY <2>2, <2>3, <3>1, <3>3 DEF RootShape
    <3> QED  BY <3>2, <3>4, <3>5, Zenon
  <2> QED  BY <2>4, <2>5
<1>7. /\ RootOK' /\ root'.dirs = ds /\ root'.marker = m
      /\ root'.temps = root.temps /\ root'.slot = root.slot
  BY <1>5, <1>6, RootMade DEF SetupInv
<1>8. SetupCame(j)'
  BY <1>2, <1>3, <1>4, <1>6, <1>7 DEF SetupCame, Has, FinalIs, ReserveAt, PromoteAt, D!Slots
<1>9. JobIs(k, j)'
  BY <1>2, <1>3, <1>4, <1>5, <1>8 DEF JobIs, HalfDone, IsJob, RootJobs, AllLinks
<1> QED  BY <1>3, <1>4, <1>5, <1>7, <1>9, JobActs

LEMMA IdentifyKeepsRoot ==
  ASSUME SetupInv, NEW k \in Commands, D!Identify(k)
  PROVE  SetupInv'
<1>1. PICK q : q = cmd[k] /\ JobIs(k, q) /\ IsJob(q)
  BY JobFacts
<1>2. q.kind = "setup" /\ q.at = 13
  BY <1>1, Stands DEF D!Identify, SetupStands, ProgressStands
<1>3. lock = k /\ q.temp = {} /\ SetupCame(q)
  BY <1>1, <1>2 DEF JobIs, HalfDone, Holds, ReserveAt, PromoteAt, D!Slots
<1>4. \A s \in D!Slots : Has(s)
  BY <1>2, <1>3 DEF SetupCame, ReserveAt, D!Slots
<1>5. D!Links = AllLinks
  <2>1. root.temps = {} /\ root.dirs = D!Dirs /\ countsFiles \in BOOLEAN
    BY <1>2, <1>3, <1>4, JobFacts DEF SetupCame, InOrder, D!Slots, SetupInv
  <2> QED  BY <1>4, <2>1, LinksAre
<1>6. PICK n \in 0..18 : n = q.at + 1
  BY <1>2
<1>7. PICK all \in {0, AllLinks} : all = AllLinks
  OBVIOUS
<1>8. PICK j \in RootJobs : j = [q EXCEPT !.links = all, !.at = n]
  BY <1>1 DEF IsJob, RootJobs
<1>9. cmd' = [cmd EXCEPT ![k] = j] /\ UNCHANGED <<plan, root, countsFiles, lock>>
  BY <1>1, <1>5, <1>6, <1>7, <1>8 DEF D!Identify, SetupInv, JobsOK
<1>10. /\ j.kind = q.kind /\ j.at = 14 /\ j.look = q.look /\ j.temp = q.temp
       /\ j.links = AllLinks
  BY <1>1, <1>2, <1>6, <1>7, <1>8 DEF IsJob, RootJobs
<1>11. IsJob(j) /\ SetupCame(j)
  BY <1>1, <1>2, <1>3, <1>10 DEF IsJob, SetupCame, ReserveAt, PromoteAt, D!Slots
<1>12. JobIs(k, j)
  BY <1>2, <1>3, <1>10, <1>11 DEF JobIs, HalfDone
<1> QED  BY <1>9, <1>12, JobOnly

\* What a command may hold in a temporary file where it stands.
Half(q, t) ==
    \/ /\ q.kind = "setup"
       /\ \E s \in D!Slots :
             \/ q.at = ReserveAt[s] /\ t = <<"setup", s>> /\ ~Has(s)
             \/ /\ q.at = PromoteAt[s] /\ t = <<"write", s>>
                /\ root.slot[s] = D!Pending(q.look)
    \/ q.kind = "progress" /\ q.at = 6 /\ t = <<"write", "progress">>

LEMMA TempKeepsRoot ==
  ASSUME SetupInv, NEW k \in Commands, NEW q, q = cmd[k], NEW t \in D!Temps, D!Temp(k, t),
         Half(q, t)
  PROVE  SetupInv'
<1>1. JobIs(k, q) /\ IsJob(q)
  BY JobFacts
<1>2. \/ q.kind = "setup" /\ q.at \in {10, 11, 12, 14, 15, 16}
      \/ q.kind = "progress" /\ q.at = 6
  BY DEF Half, ReserveAt, PromoteAt, D!Slots
<1>3. lock = k /\ q.temp = {} /\ root.temps = {}
  <2>1. q.temp = {}
    BY DEF D!Temp
  <2> QED  BY <1>1, <1>2, <2>1 DEF JobIs, Holds, SetupCame, ProgressCame
<1>4. PICK T \in SUBSET D!Temps : T = {t}
  OBVIOUS
<1>5. RootOK' /\ root'.temps = T /\ root'.slot = root.slot /\ root'.dirs = root.dirs
      /\ root'.marker = root.marker
  <2>1. root' = [root EXCEPT !.temps = T] /\ UNCHANGED countsFiles
    BY <1>3, <1>4 DEF D!Temp, D!Changes
  <2> QED  BY <2>1, RootTemps DEF SetupInv
<1>6. PICK j \in RootJobs : j = [q EXCEPT !.temp = T]
  BY <1>1 DEF IsJob, RootJobs
<1>7. /\ j.kind = q.kind /\ j.at = q.at /\ j.look = q.look /\ j.links = q.links /\ j.temp = T
      /\ cmd' = [cmd EXCEPT ![k] = j] /\ UNCHANGED <<plan, countsFiles, lock>>
  BY <1>1, <1>4, <1>6 DEF D!Temp, D!Changes, IsJob, RootJobs, SetupInv, JobsOK
<1>8. IsJob(j)'
  BY <1>1, <1>6, <1>7 DEF IsJob, RootJobs, AllLinks
<1>9. HalfDone(j)'
  BY <1>4, <1>5, <1>7 DEF HalfDone, Half, Has
<1>10. j.kind = "setup" => SetupCame(j)'
  BY <1>1, <1>5, <1>7, <1>2 DEF JobIs, SetupCame, Has, FinalIs, AllLinks
<1>11. j.kind = "progress" => ProgressCame(j)'
  BY <1>1, <1>5, <1>7, <1>2 DEF JobIs, ProgressCame, FinalIs
<1>12. Holds(j)
  BY <1>2, <1>7 DEF Holds
<1>13. JobIs(k, j)'
  BY <1>3, <1>7, <1>8, <1>9, <1>10, <1>11, <1>12 DEF JobIs, Holds
<1> QED  BY <1>3, <1>5, <1>7, <1>13, JobActs

\* The inputs that a slot names.
LEMMA OfIs ==
  ASSUME NEW s, NEW v, NEW p, OneOf(s, v, p), v # D!Absent
  PROVE  v.of = p
<1>1. CASE v = D!Pending(p)
  BY <1>1, SlotKinds
<1>2. CASE IsFinal(s, v, p)
  <2>1. PICK n : n = IF s = "progress" THEN 0 ELSE AllLinks
    OBVIOUS
  <2>2. PICK e : e = v.events
    OBVIOUS
  <2>3. v = [kind |-> "final", of |-> p, links |-> n, events |-> e]
    BY <1>2, <2>1, <2>2 DEF IsFinal
  <2> QED  BY <2>3
<1> QED  BY <1>1, <1>2 DEF OneOf

\* Once it has found the root to be its own, a setup can name the inputs of all slots.
LEMMA OwnSet ==
  ASSUME SetupInv, NEW k \in Commands, NEW q, q = cmd[k], q.kind = "setup", q.at >= 5
  PROVE  q.look \in Plans /\ \A s \in D!Slots : OneOf(s, root.slot[s], q.look)
<1>1. JobIs(k, q) /\ IsJob(q) /\ OneSet
  BY JobFacts
<1>2. PICK p \in Plans : \A s \in D!Slots : OneOf(s, root.slot[s], p)
  BY <1>1 DEF OneSet
<1>3. q.look \in Plans /\ q.at \in 1..18
  BY <1>1 DEF IsJob
<1>4. ASSUME NEW s \in D!Slots PROVE OneOf(s, root.slot[s], q.look)
  <2>1. CASE root.slot[s] = D!Absent
    BY <2>1 DEF OneOf
  <2>2. CASE root.slot[s] # D!Absent
    <3>1. root.slot[s].of = p
      BY <1>2, <2>2, OfIs
    <3>2. root.slot[s].of = q.look
      BY <1>1, <1>3, <2>2 DEF JobIs, SetupCame, Has
    <3> QED  BY <1>2, <3>1, <3>2
  <2> QED  BY <2>1, <2>2
<1> QED  BY <1>3, <1>4

\* A setup renames its file to a slot, and goes on.
LEMMA RenameKeepsRoot ==
  ASSUME SetupInv, NEW k \in Commands, NEW q, q = cmd[k], q.kind = "setup", NEW s \in D!Slots,
         NEW t, \/ D!Rename(k, <<t, s>>, D!Pending(q.look)) /\ q.at = ReserveAt[s]
                \/ D!Rename(k, <<t, s>>, D!Final(s, q.look, q.links)) /\ q.at = PromoteAt[s]
  PROVE  SetupInv'
<1>1. JobIs(k, q) /\ IsJob(q) /\ RootShape /\ InOrder
  BY JobFacts
<1>2. /\ ReserveAt["config"] = 10 /\ ReserveAt["state"] = 11 /\ ReserveAt["progress"] = 12
      /\ PromoteAt["config"] = 14 /\ PromoteAt["state"] = 15 /\ PromoteAt["progress"] = 16
  BY DEF ReserveAt, PromoteAt
<1>3. q.at \in {10, 11, 12, 14, 15, 16} /\ s \in {"config", "state", "progress"}
  BY <1>2 DEF D!Slots
<1>4. SetupCame(q) /\ lock = k /\ UNCHANGED <<plan, countsFiles, lock>>
  BY <1>1, <1>3 DEF JobIs, Holds, D!Rename, D!Changes
<1>5. /\ q.temp = {<<t, s>>} /\ root.temps = {<<t, s>>}
      /\ q.at = ReserveAt[s] => ~Has(s)
      /\ q.at = PromoteAt[s] => root.slot[s] = D!Pending(q.look)
  <2>1. q.temp = {<<t, s>>}
    BY DEF D!Rename
  <2>2. root.temps = {<<t, s>>}
    BY <1>3, <1>4, <2>1 DEF SetupCame
  <2>3. PICK u \in D!Slots :
           \/ q.at = ReserveAt[u] /\ q.temp = {<<"setup", u>>} /\ ~Has(u)
           \/ q.at = PromoteAt[u] /\ q.temp = {<<"write", u>>} /\ root.slot[u] = D!Pending(q.look)
    BY <1>1, <2>1 DEF JobIs, HalfDone
  <2>4. u = s
    BY <2>1, <2>3
  <2> QED  BY <1>2, <1>3, <2>1, <2>2, <2>3, <2>4
<1>6. PICK v : /\ D!Rename(k, <<t, s>>, v)
               /\ q.at = ReserveAt[s] => v = D!Pending(q.look)
               /\ q.at = PromoteAt[s] => v = D!Final(s, q.look, q.links)
  BY <1>2, <1>3
<1>7. OneOf(s, v, q.look) /\ v # D!Absent /\ v.of = q.look
      /\ (q.at = ReserveAt[s] => v.kind = "pending") /\ (q.at = PromoteAt[s] => v.kind = "final")
  <2>1. CASE q.at = ReserveAt[s]
    <3>1. q.at # PromoteAt[s]
      BY <1>2, <1>3, <2>1
    <3>2. v = D!Pending(q.look)
      BY <1>6, <2>1
    <3> QED  BY <2>1, <3>1, <3>2, SlotKinds DEF OneOf
  <2>2. CASE q.at = PromoteAt[s]
    <3>1. q.at # ReserveAt[s] /\ q.links = AllLinks
      BY <1>2, <1>3, <1>4, <2>2 DEF SetupCame
    <3>2. v = [kind |-> "final", of |-> q.look,
               links |-> IF s = "progress" THEN 0 ELSE AllLinks, events |-> 0]
      BY <1>6, <2>2, <3>1 DEF D!Final, D!Absent
    <3> QED  BY <2>2, <3>1, <3>2 DEF OneOf, IsFinal, D!Absent
  <2> QED  BY <2>1, <2>2
<1>8. PICK T \in SUBSET D!Temps : T = {}
  OBVIOUS
<1>9. /\ RootShape' /\ root'.temps = T /\ root'.dirs = root.dirs /\ root'.marker = root.marker
      /\ \A u \in D!Slots : root'.slot[u] = IF u = s THEN v ELSE root.slot[u]
  <2>1. SlotSet(T, s, v)
    BY <1>5, <1>6, <1>8 DEF SlotSet, D!Rename, D!Changes
  <2> QED  BY <1>1, <2>1, RootSlot
<1>10. OneSet'
  <2>1. q.look \in Plans /\ \A u \in D!Slots : OneOf(u, root.slot[u], q.look)
    <3>1. q.at >= 5
      BY <1>3
    <3> QED  BY <3>1, OwnSet
  <2>2. \A u \in D!Slots : OneOf(u, root.slot[u], q.look)'
    BY <1>4, <1>7, <1>9, <2>1 DEF OneOf, IsFinal, AllLinks
  <2> QED  BY <2>1, <2>2 DEF OneSet
<1>11. /\ \A u \in D!Slots : Has(u)' <=> Has(u) \/ u = s
       /\ \A u \in D!Slots : FinalIs(u)' <=> FinalIs(u) \/ (u = s /\ q.at = PromoteAt[s])
  BY <1>3, <1>5, <1>7, <1>9 DEF Has, FinalIs, D!Absent, D!Pending
<1>12. /\ \A u \in D!Slots : (q.at > ReserveAt[u] => Has(u)) /\ (q.at > PromoteAt[u] => FinalIs(u))
       /\ root.dirs = D!Dirs /\ root.marker
  <2>1. \A u \in D!Slots : (q.at > ReserveAt[u] => Has(u)) /\ (q.at > PromoteAt[u] => FinalIs(u))
    BY <1>4 DEF SetupCame
  <2>2. root.marker /\ {"pinners", "code_review", "evidence"} \subseteq root.dirs
    BY <1>3, <1>4 DEF SetupCame
  <2> QED  BY <1>1, <2>1, <2>2 DEF D!Dirs, RootShape
<1>13. InOrder'
  <2>1. "config" \in D!Slots /\ "state" \in D!Slots /\ "progress" \in D!Slots
    BY DEF D!Slots
  <2>2. CASE q.at = 10
    <3>1. s = "config" /\ q.at # PromoteAt[s]
      BY <1>2, <1>3, <2>2
    <3> QED  BY <1>1, <1>9, <1>11, <1>12, <2>1, <3>1 DEF InOrder
  <2>3. CASE q.at = 11
    <3>1. s = "state" /\ q.at # PromoteAt[s] /\ Has("config")
      BY <1>2, <1>3, <1>12, <2>1, <2>3
    <3> QED  BY <1>1, <1>9, <1>11, <1>12, <2>1, <3>1 DEF InOrder
  <2>4. CASE q.at = 12
    <3>1. s = "progress" /\ q.at # PromoteAt[s] /\ Has("config") /\ Has("state")
      BY <1>2, <1>3, <1>12, <2>1, <2>4
    <3> QED  BY <1>1, <1>9, <1>11, <1>12, <2>1, <3>1 DEF InOrder
  <2>5. CASE q.at \in {14, 15, 16}
    <3>1. /\ \A u \in D!Slots : Has(u)
          /\ s = "state" => FinalIs("config")
          /\ s = "progress" => FinalIs("state") /\ FinalIs("config")
      BY <1>2, <1>3, <1>12, <2>1, <2>5 DEF D!Slots
    <3> QED  BY <1>1, <1>9, <1>11, <1>12, <2>1, <3>1 DEF InOrder
  <2> QED  BY <1>3, <2>2, <2>3, <2>4, <2>5
<1>14. PICK j : /\ cmd' = [cmd EXCEPT ![k] = j] /\ IsJob(j)
                /\ j.kind = q.kind /\ j.at = q.at + 1 /\ j.look = q.look
                /\ j.links = q.links /\ j.temp = {}
  BY <1>1, <1>3, GoesOnward DEF D!Rename
<1>15. SetupCame(j)'
  <2>1. ASSUME NEW u \in D!Slots, Has(u)' PROVE root'.slot[u].of = j.look
    BY <1>3, <1>4, <1>7, <1>9, <1>11, <1>14, <2>1 DEF SetupCame
  <2>2. ASSUME NEW u \in D!Slots
        PROVE  (j.at > ReserveAt[u] => Has(u)') /\ (j.at > PromoteAt[u] => FinalIs(u)')
    <3>1. u \in {"config", "state", "progress"}
      BY DEF D!Slots
    <3>2. j.at > ReserveAt[u] => q.at > ReserveAt[u] \/ u = s
      BY <1>2, <1>3, <1>14, <3>1
    <3>3. j.at > PromoteAt[u] => q.at > PromoteAt[u] \/ (u = s /\ q.at = PromoteAt[s])
      BY <1>2, <1>3, <1>14, <3>1
    <3> QED  BY <1>11, <1>12, <3>2, <3>3
  <2>3. j.at >= 14 => j.links = AllLinks'
    <3>1. CASE q.at \in {10, 11, 12}
      BY <1>14, <3>1
    <3>2. CASE q.at \in {14, 15, 16}
      BY <1>4, <1>14, <3>2 DEF SetupCame, AllLinks
    <3> QED  BY <1>3, <3>1, <3>2
  <2> QED  BY <1>3, <1>8, <1>9, <1>12, <1>14, <2>1, <2>2, <2>3
           DEF SetupCame, D!Dirs, ReserveAt, PromoteAt
<1>16. JobIs(k, j)'
  <2>1. IsJob(j)'
    BY <1>4, <1>14 DEF IsJob, RootJobs, AllLinks
  <2>2. lock' = k
    BY <1>4
  <2> QED  BY <1>14, <1>15, <2>1, <2>2 DEF JobIs, HalfDone
<1> QED  BY <1>4, <1>9, <1>10, <1>13, <1>14, <1>16, JobActs DEF RootOK

LEMMA ReserveKeepsRoot ==
  ASSUME SetupInv, NEW k \in Commands, NEW s \in D!Slots, D!Reserve(k, s)
  PROVE  SetupInv'
<1>1. PICK q : q = cmd[k] /\ JobIs(k, q) /\ IsJob(q)
  BY JobFacts
<1>2. q.kind = "setup" /\ q.at = ReserveAt[s] /\ q.at \in {10, 11, 12}
  BY <1>1, Stands DEF D!Reserve, SetupStands, ProgressStands, ReserveAt, D!Slots
<1>3. CASE Has(s)
  <2>1. D!Goes(k) /\ UNCHANGED <<plan, root, countsFiles, lock>>
    BY <1>3 DEF D!Reserve, D!Go, D!Changes, Has
  <2>2. PICK j : /\ cmd' = [cmd EXCEPT ![k] = j] /\ IsJob(j)
                 /\ j.kind = q.kind /\ j.at = q.at + 1 /\ j.look = q.look
                 /\ j.links = q.links /\ j.temp = {}
    BY <1>1, <1>2, <2>1, GoesOnward
  <2>3. q.temp = {} /\ lock = k /\ SetupCame(q)
    BY <1>1, <1>2, <1>3 DEF JobIs, HalfDone, Holds, ReserveAt, PromoteAt, D!Slots
  <2>4. SetupCame(j)
    BY <1>2, <1>3, <2>2, <2>3 DEF SetupCame, ReserveAt, PromoteAt, D!Slots
  <2>5. JobIs(k, j)
    BY <1>2, <2>2, <2>3, <2>4 DEF JobIs, HalfDone
  <2> QED  BY <2>1, <2>2, <2>5, JobOnly
<1>4. ASSUME ~Has(s), D!Temp(k, <<"setup", s>>) PROVE SetupInv'
  <2>1. Half(q, <<"setup", s>>) /\ <<"setup", s>> \in D!Temps
    BY <1>2, <1>4 DEF Half, D!Temps
  <2> QED  BY <1>1, <1>4, <2>1, TempKeepsRoot
<1>5. ASSUME D!Rename(k, <<"setup", s>>, D!Pending(q.look)) PROVE SetupInv'
  BY <1>1, <1>2, <1>5, RenameKeepsRoot
<1> QED  BY <1>1, <1>3, <1>4, <1>5 DEF D!Reserve, Has

LEMMA PromoteKeepsRoot ==
  ASSUME SetupInv, NEW k \in Commands, NEW s \in D!Slots, D!Promote(k, s)
  PROVE  SetupInv'
<1>1. PICK q : q = cmd[k] /\ JobIs(k, q) /\ IsJob(q)
  BY JobFacts
<1>2. q.kind = "setup" /\ q.at = PromoteAt[s] /\ q.at \in {14, 15, 16}
  BY <1>1, Stands DEF D!Promote, SetupStands, ProgressStands, PromoteAt, D!Slots
<1>3. ASSUME root.slot[s] # D!Pending(q.look), D!Goes(k),
             UNCHANGED <<plan, root, countsFiles, lock>>
      PROVE  SetupInv'
  <2>2. PICK j : /\ cmd' = [cmd EXCEPT ![k] = j] /\ IsJob(j)
                 /\ j.kind = q.kind /\ j.at = q.at + 1 /\ j.look = q.look
                 /\ j.links = q.links /\ j.temp = {}
    BY <1>1, <1>2, <1>3, GoesOnward
  <2>3. q.temp = {} /\ lock = k /\ SetupCame(q)
    BY <1>1, <1>2, <1>3 DEF JobIs, HalfDone, Holds, ReserveAt, PromoteAt, D!Slots
  <2>4. FinalIs(s)
    <3>1. Has(s)
      BY <1>2, <2>3 DEF SetupCame, ReserveAt, D!Slots
    <3>2. OneOf(s, root.slot[s], q.look)
      BY <1>1, <1>2, OwnSet
    <3> QED  BY <1>3, <3>1, <3>2 DEF OneOf, Has, FinalIs, IsFinal
  <2>5. SetupCame(j)
    BY <1>2, <2>2, <2>3, <2>4 DEF SetupCame, ReserveAt, PromoteAt, D!Slots
  <2>6. JobIs(k, j)
    BY <1>2, <2>2, <2>3, <2>5 DEF JobIs, HalfDone
  <2> QED  BY <1>3, <2>2, <2>6, JobOnly
<1>4. ASSUME root.slot[s] = D!Pending(q.look), D!Temp(k, <<"write", s>>) PROVE SetupInv'
  <2>1. Half(q, <<"write", s>>) /\ <<"write", s>> \in D!Temps
    BY <1>2, <1>4 DEF Half, D!Temps
  <2> QED  BY <1>1, <1>4, <2>1, TempKeepsRoot
<1>5. ASSUME D!Rename(k, <<"write", s>>, D!Final(s, q.look, q.links)) PROVE SetupInv'
  BY <1>1, <1>2, <1>5, RenameKeepsRoot
<1> QED  BY <1>1, <1>3, <1>4, <1>5
         DEF D!Promote, D!Keeps, D!IsPending, D!Go, D!Changes

LEMMA AppendKeepsRoot ==
  ASSUME SetupInv, NEW k \in Commands, D!AppendEvent(k)
  PROVE  SetupInv'
<1>1. PICK q : q = cmd[k] /\ JobIs(k, q) /\ IsJob(q)
  BY JobFacts
<1>2. q.kind = "progress" /\ q.at = 6
  BY <1>1, Stands DEF D!AppendEvent, SetupStands, ProgressStands
<1>3. CASE D!Temp(k, <<"write", "progress">>)
  <2>1. Half(q, <<"write", "progress">>) /\ <<"write", "progress">> \in D!Temps
    BY <1>2 DEF Half, D!Temps, D!Slots
  <2> QED  BY <1>1, <1>3, <2>1, TempKeepsRoot
<1>4. CASE D!Rename(k, <<"write", "progress">>, [root.slot["progress"] EXCEPT !.events = @ + 1])
  <2>1. /\ lock = k /\ ProgressCame(q) /\ UNCHANGED <<plan, countsFiles, lock>>
        /\ root.temps = {<<"write", "progress">>} /\ RootShape /\ InOrder
    <3>1. q.temp = {<<"write", "progress">>}
      BY <1>1, <1>4 DEF D!Rename
    <3> QED  BY <1>1, <1>2, <1>4, <3>1, JobFacts DEF JobIs, Holds, ProgressCame, D!Rename, D!Changes
  <2>2. PICK p \in Plans : \A s \in D!Slots : OneOf(s, root.slot[s], p)
    BY JobFacts DEF OneSet
  <2>3. PICK was : was = root.slot["progress"]
    OBVIOUS
  <2>4. was.kind = "final" /\ IsFinal("progress", was, p)
    <3>1. FinalIs("progress") /\ OneOf("progress", was, p)
      BY <1>2, <2>1, <2>2, <2>3 DEF ProgressCame, D!Slots
    <3> QED  BY <2>3, <3>1, SlotKinds DEF FinalIs, OneOf
  <2>5. PICK v : v = [was EXCEPT !.events = @ + 1]
    OBVIOUS
  <2>6. v = [kind |-> "final", of |-> p, links |-> 0, events |-> was.events + 1]
    BY <2>4, <2>5 DEF IsFinal
  <2>7. IsFinal("progress", v, p)
    BY <2>4, <2>6 DEF IsFinal
  <2>8. PICK T \in SUBSET D!Temps : T = {}
    OBVIOUS
  <2>9. /\ RootShape' /\ root'.temps = T /\ root'.dirs = root.dirs /\ root'.marker = root.marker
        /\ \A u \in D!Slots : root'.slot[u] = IF u = "progress" THEN v ELSE root.slot[u]
    <3>1. SlotSet(T, "progress", v)
      BY <1>4, <2>1, <2>3, <2>5, <2>8 DEF SlotSet, D!Rename, D!Changes
    <3>2. "progress" \in D!Slots
      BY DEF D!Slots
    <3> QED  BY <2>1, <3>1, <3>2, RootSlot
  <2>10. OneSet'
    BY <2>1, <2>2, <2>7, <2>9 DEF OneSet, OneOf, IsFinal, AllLinks
  <2>11. \A u \in D!Slots : FinalIs(u)' /\ Has(u)'
    BY <1>2, <2>1, <2>6, <2>9 DEF ProgressCame, FinalIs, Has, D!Absent
  <2>12. InOrder'
    <3>1. Has("config")
      BY <1>2, <2>1 DEF ProgressCame, FinalIs, Has, D!Absent, D!Slots
    <3> QED  BY <2>1, <2>9, <2>11, <3>1 DEF InOrder, D!Slots
  <2>13. PICK j : /\ cmd' = [cmd EXCEPT ![k] = j] /\ IsJob(j)
                  /\ j.kind = q.kind /\ j.at = q.at + 1 /\ j.look = q.look /\ j.temp = {}
    BY <1>1, <1>2, <1>4, GoesOnward DEF D!Rename
  <2>14. JobIs(k, j)'
    <3>1. IsJob(j)'
      BY <2>1, <2>13 DEF IsJob, RootJobs, AllLinks
    <3>2. ProgressCame(j)'
      BY <2>8, <2>9, <2>11, <2>13 DEF ProgressCame
    <3> QED  BY <1>2, <2>1, <2>13, <3>1, <3>2 DEF JobIs, HalfDone
  <2> QED  BY <2>1, <2>9, <2>10, <2>12, <2>13, <2>14, JobActs DEF RootOK
<1> QED  BY <1>3, <1>4 DEF D!AppendEvent

LEMMA NoJobIs ==
  ASSUME NEW k
  PROVE  \E none \in RootJobs : none = D!Resting /\ JobIs(k, none)
<1>1. PICK r \in RootJobs : r = D!Resting /\ r.kind = "none" /\ r.temp = {}
  BY NoJob
<1>2. JobIs(k, r)
  BY <1>1 DEF JobIs, IsJob, Holds, HalfDone
<1> QED  BY <1>1, <1>2

\* A command ends; what it leaves of its temporary files does not matter.
LEMMA EndKeepsRoot ==
  ASSUME SetupInv, NEW k \in Commands, D!Answer(k) \/ D!Fail(k) \/ D!Kill(k)
  PROVE  SetupInv'
<1>1. PICK q : q = cmd[k] /\ JobIs(k, q) /\ RootShape
  BY JobFacts
<1>2. PICK T : /\ T \subseteq D!Temps /\ root' = [root EXCEPT !.temps = T]
               /\ lock = k \/ T = root.temps
  <2>1. CASE D!Answer(k) \/ D!Kill(k)
    <3>1. root' = [root EXCEPT !.temps = root.temps]
      BY <1>1, <2>1 DEF D!Answer, D!Kill, D!Ends, RootShape
    <3> QED  BY <1>1, <3>1 DEF RootShape
  <2>2. CASE D!Fail(k)
    <3>1. PICK back : back = {t \in q.temp : t[1] = "write"}
      OBVIOUS
    <3>2. root' = [root EXCEPT !.temps = root.temps \ back]
      BY <1>1, <2>2, <3>1 DEF D!Fail, D!Ends
    <3>3. lock # k => root.temps \ back = root.temps
      BY <1>1, <3>1 DEF JobIs
    <3>4. PICK rest : rest = root.temps \ back
      OBVIOUS
    <3>5. rest \subseteq D!Temps
      BY <1>1, <3>4 DEF RootShape
    <3> QED  BY <3>2, <3>3, <3>4, <3>5
  <2> QED  BY <2>1, <2>2
<1>3. RootOK' /\ (lock = k \/ UNCHANGED root)
  <2>1. UNCHANGED countsFiles
    BY DEF D!Answer, D!Fail, D!Kill, D!Ends
  <2>2. RootOK'
    BY <1>2, <2>1, RootTemps DEF SetupInv
  <2>3. T = root.temps => root' = root
    BY <1>1, <1>2 DEF RootShape
  <2> QED  BY <1>2, <2>2, <2>3
<1>4. PICK r \in RootJobs : r = D!Resting /\ r.kind = "none" /\ r.temp = {}
  BY NoJob
<1>5. /\ cmd' = [cmd EXCEPT ![k] = r] /\ UNCHANGED <<plan, countsFiles>>
      /\ \A l \in Commands : l # k /\ lock = l => lock' = l
  BY <1>4 DEF D!Answer, D!Fail, D!Kill, D!Ends
<1>6. JobIs(k, r)'
  BY <1>4, <1>5 DEF JobIs, IsJob, RootJobs, AllLinks, Holds, HalfDone
<1> QED  BY <1>3, <1>5, <1>6, JobActs

LEMMA DriftKeepsRoot ==
  ASSUME SetupInv, D!Drift
  PROVE  SetupInv'
<1>1. plan' \in Plans /\ UNCHANGED <<root, countsFiles, lock, cmd>>
  BY DEF D!Drift
<1>2. ASSUME NEW k \in Commands PROVE JobIs(k, cmd[k])'
  <2>1. JobIs(k, cmd[k])
    BY JobFacts
  <2> QED  BY <1>1, <2>1
           DEF JobIs, IsJob, RootJobs, AllLinks, HalfDone, SetupCame, ProgressCame, Has, FinalIs
<1>3. RootOK' /\ RootJobs' = RootJobs
  BY <1>1, RootSame DEF SetupInv, RootJobs, AllLinks
<1> QED  BY <1>1, <1>2, <1>3 DEF SetupInv, JobsOK

LEMMA RootStep ==
  ASSUME SetupInv, D!SetupNext
  PROVE  SetupInv'
  BY BeginKeepsRoot, LookKeepsRoot, LockKeepsRoot, CheckKeepsRoot, SweepKeepsRoot,
     MakingKeepsRoot, IdentifyKeepsRoot, ReserveKeepsRoot, PromoteKeepsRoot, AppendKeepsRoot,
     EndKeepsRoot, DriftKeepsRoot DEF D!SetupNext

LEMMA RootStarts ==
  ASSUME D!SetupInit
  PROVE  SetupInv
<1>1. plan \in Plans /\ countsFiles \in BOOLEAN /\ cmd = [k \in Commands |-> D!Resting]
  BY DEF D!SetupInit
<1>2. JobsOK
  BY <1>1, NoJobIs DEF JobsOK
<1>3. PICK none \in SUBSET D!Temps : none = {}
  OBVIOUS
<1>4. CASE root = D!Empty
  <2>1. PICK sl : sl = [s \in D!Slots |-> D!Absent]
    OBVIOUS
  <2>2. PICK ds, m : ds = {} /\ m = FALSE
    OBVIOUS
  <2>3. RootShape /\ root.slot = sl
    <3>1. root = [dirs |-> ds, marker |-> m, temps |-> none, slot |-> sl]
      BY <1>3, <1>4, <2>1, <2>2 DEF D!Empty
    <3>2. ds \subseteq D!Dirs /\ m \in BOOLEAN /\ sl = [s \in D!Slots |-> sl[s]]
      BY <2>1, <2>2
    <3> QED  BY <3>1, <3>2, ShapeOf
  <2>5. \A s \in D!Slots : root.slot[s] = D!Absent
    BY <2>1, <2>3
  <2>4. OneSet /\ InOrder
    BY <1>1, <2>5 DEF OneSet, OneOf, InOrder, Has, FinalIs, D!Absent, D!Slots
  <2> QED  BY <1>1, <1>2, <2>3, <2>4 DEF SetupInv, RootOK
<1>5. ASSUME NEW p \in Plans, root = D!Complete(p) PROVE SetupInv
  <2>1. PICK sl : sl = [s \in D!Slots |-> [D!Final(s, p, AllLinks) EXCEPT
                                            !.events = IF s = "progress" THEN 1 ELSE 0]]
    OBVIOUS
  <2>2. PICK ds, m : ds = D!Dirs /\ m = TRUE
    OBVIOUS
  <2>3. RootShape /\ root.slot = sl /\ root.dirs = D!Dirs /\ root.marker
    <3>1. root = [dirs |-> ds, marker |-> m, temps |-> none, slot |-> sl]
      BY <1>3, <1>5, <2>1, <2>2 DEF D!Complete, AllLinks
    <3>2. ds \subseteq D!Dirs /\ m \in BOOLEAN /\ sl = [s \in D!Slots |-> sl[s]]
      BY <2>1, <2>2
    <3>3. RootShape /\ root.slot = sl /\ root.dirs = ds /\ root.marker = m
      BY <3>1, <3>2, ShapeOf
    <3> QED  BY <2>2, <3>3
  <2>4. ASSUME NEW s \in D!Slots PROVE IsFinal(s, root.slot[s], p) /\ FinalIs(s) /\ Has(s)
    <3>1. PICK n, e : n = (IF s = "progress" THEN 0 ELSE AllLinks)
                      /\ e = (IF s = "progress" THEN 1 ELSE 0)
      OBVIOUS
    <3>2. root.slot[s] = [kind |-> "final", of |-> p, links |-> n, events |-> e]
      <4>1. PICK f : f = D!Final(s, p, AllLinks)
        OBVIOUS
      <4>2. f = [kind |-> "final", of |-> p, links |-> n, events |-> 0]
        BY <3>1, <4>1 DEF D!Final, D!Absent
      <4>3. root.slot[s] = [f EXCEPT !.events = e]
        BY <2>1, <2>3, <3>1, <4>1
      <4> QED  BY <4>2, <4>3
    <3>3. e \in Nat /\ root.slot[s].kind = "final" /\ root.slot[s].events = e
      BY <3>1, <3>2
    <3> QED  BY <3>1, <3>2, <3>3, SlotKinds DEF IsFinal, FinalIs, Has
  <2>5. OneSet /\ InOrder
    BY <2>3, <2>4 DEF OneSet, OneOf, InOrder, D!Slots
  <2> QED  BY <1>1, <1>2, <2>3, <2>5 DEF SetupInv, RootOK
<1> QED  BY <1>4, <1>5 DEF D!SetupInit

LEMMA RootStays ==
  ASSUME SetupInv, UNCHANGED rootVars
  PROVE  SetupInv'
<1>1. UNCHANGED <<plan, root, countsFiles, lock, cmd>>
  BY DEF rootVars
<1>2. ASSUME NEW k \in Commands PROVE JobIs(k, cmd[k])'
  <2>1. JobIs(k, cmd[k])
    BY JobFacts
  <2> QED  BY <1>1, <2>1
           DEF JobIs, IsJob, RootJobs, AllLinks, HalfDone, SetupCame, ProgressCame, Has, FinalIs
<1>3. RootOK' /\ RootJobs' = RootJobs
  BY <1>1, RootSame DEF SetupInv, RootJobs, AllLinks
<1> QED  BY <1>1, <1>2, <1>3 DEF SetupInv, JobsOK

LEMMA RootAlways == Spec => []SetupInv
<1>1. Init => SetupInv
  BY RootStarts DEF Init
<1>2. SetupInv /\ [Next]_vars => SetupInv'
  <2>1. [Next]_vars => D!SetupNext \/ UNCHANGED rootVars
    BY DEF Next, vars
  <2> QED  BY <2>1, RootStep, RootStays
<1> QED  BY <1>1, <1>2, PTL DEF Spec

\* A setup of the inputs the root is bound to finds all it asks for.
LEMMA AllHave ==
  ASSUME SetupInv, Has("progress") \/ FinalIs("config")
  PROVE  root.dirs = D!Dirs /\ root.marker /\ \A s \in D!Slots : Has(s)
<1>1. InOrder
  BY DEF SetupInv, RootOK
<1> QED  BY <1>1 DEF InOrder, D!Slots

LEMMA TempsAreFew ==
  ASSUME SetupInv
  PROVE  IsFiniteSet(root.temps)
<1>1. /\ IsFiniteSet({"setup"} \cup {"write"})
      /\ IsFiniteSet({"config"} \cup {"state"} \cup {"progress"})
  BY FS_Singleton, FS_AddElement
<1>2. /\ {"setup"} \cup {"write"} = {"setup", "write"}
      /\ {"config"} \cup {"state"} \cup {"progress"} = D!Slots
  BY DEF D!Slots
<1>3. IsFiniteSet({"setup", "write"} \X D!Slots)
  BY <1>1, <1>2, FS_Product
<1> QED  BY <1>3, FS_Subset DEF SetupInv, RootOK, RootShape, D!Temps

LEMMA OwnSlots ==
  ASSUME SetupInv, NEW p \in Plans, \A s \in D!Files : root.slot[s].of = p
  PROVE  \A s \in D!Slots : OneOf(s, root.slot[s], p)
<1>1. PICK x \in Plans : \A s \in D!Slots : OneOf(s, root.slot[s], x)
  BY DEF SetupInv, RootOK, OneSet
<1>2. ASSUME NEW s \in D!Slots PROVE OneOf(s, root.slot[s], p)
  <2>1. CASE root.slot[s] = D!Absent
    BY <2>1 DEF OneOf
  <2>2. CASE root.slot[s] # D!Absent
    <3>1. root.slot[s].of = p
      BY <2>2 DEF D!Files
    <3>2. root.slot[s].of = x
      BY <1>1, <2>2, OfIs
    <3> QED  BY <1>1, <3>1, <3>2
  <2> QED  BY <2>1, <2>2
<1> QED  BY <1>2

\* What OneOf says of a slot that is there.
LEMMA SlotIs ==
  ASSUME NEW s, NEW p, OneOf(s, root.slot[s], p)
  PROVE  /\ Has(s) => D!IsPending(s, p) \/ FinalIs(s)
         /\ FinalIs(s) => /\ Has(s) /\ ~D!IsPending(s, p) /\ root.slot[s].of = p
                          /\ root.slot[s].links = IF s = "progress" THEN 0 ELSE AllLinks
         /\ D!IsPending(s, p) => Has(s)
  BY SlotKinds DEF OneOf, IsFinal, Has, FinalIs, D!IsPending

LEMMA BindsTo ==
  ASSUME NEW s \in D!Slots, NEW p, \A u \in D!Slots : OneOf(u, root.slot[u], p),
         FinalIs(s), s = "state" => FinalIs("config")
  PROVE  D!BoundTo(s, p)
<1>1. root.slot[s].of = p /\ root.slot[s].links = IF s = "progress" THEN 0 ELSE AllLinks
  BY SlotIs
<1>2. s = "state" => root.slot["config"].links = AllLinks
  BY SlotIs DEF D!Slots
<1> QED  BY <1>1, <1>2 DEF D!BoundTo, FinalIs

LEMMA Replays ==
  ASSUME SetupInv, NEW p \in Plans, \A s \in D!Slots : OneOf(s, root.slot[s], p)
  PROVE  D!Replayable(p)
<1>1. /\ InOrder /\ "config" \in D!Slots /\ "state" \in D!Slots /\ "progress" \in D!Slots
      /\ \A s \in D!Slots : s \in {"config", "state", "progress"}
  BY DEF SetupInv, RootOK, D!Slots
<1>2. \A s \in D!Slots : s \in D!Files <=> Has(s)
  BY DEF D!Files, Has
<1>3. CASE ~Has("config")
  BY <1>1, <1>2, <1>3 DEF InOrder, D!Replayable, D!Fresh, D!Files
<1>4. CASE Has("config") /\ ~FinalIs("config")
  <2>1. \A s \in D!Slots : ~FinalIs(s)
    BY <1>1, <1>4 DEF InOrder
  <2>2. \A s \in D!Files : D!IsPending(s, p)
    BY <1>2, <2>1, SlotIs DEF D!Files
  <2>3. D!Files \in {{"config"}, {"config", "state"}, D!Slots}
    BY <1>1, <1>2, <1>4 DEF InOrder, D!Files, D!Slots
  <2>4. root.dirs = D!Dirs /\ root.marker /\ "config" \in D!Files
    BY <1>1, <1>2, <1>4 DEF InOrder
  <2> QED  BY <2>2, <2>3, <2>4 DEF D!Replayable, D!PrefixOf
<1>5. CASE FinalIs("config")
  <2>1. root.dirs = D!Dirs /\ root.marker /\ \A s \in D!Slots : Has(s)
    BY <1>5, AllHave
  <2>2. D!Files = D!Slots
    BY <1>2, <2>1 DEF D!Files
  <2>3. ASSUME NEW s \in D!Slots PROVE D!IsPending(s, p) \/ D!BoundTo(s, p)
    BY <1>5, <2>1, SlotIs, BindsTo
  <2>4. D!BoundTo("config", p) /\ root.slot["config"].links = AllLinks
    BY <1>1, <1>5, SlotIs, BindsTo
  <2>5. D!SameRoot(AllLinks)
    BY <2>1, LinksAre, TempsAreFew DEF D!SameRoot, SetupInv
  <2>6. D!IsPending("state", p) => D!IsPending("progress", p)
    BY <1>1, <2>1, SlotIs DEF InOrder
  <2> QED  BY <2>1, <2>2, <2>3, <2>4, <2>5, <2>6 DEF D!Replayable, D!CompleteOf
<1> QED  BY <1>3, <1>4, <1>5

LEMMA NothingRefused ==
  ASSUME SetupInv, NEW k \in Commands, cmd[k].kind = "setup", D!Step(k) # "lock", D!Mine(k)
  PROVE  D!Permits(k) /\ D!Free(k)
<1>1. PICK q : q = cmd[k] /\ JobIs(k, q) /\ IsJob(q) /\ InOrder
  BY JobFacts
<1>2. PICK p \in Plans : p = plan
  BY JobFacts
<1>3. q.kind = "setup" /\ SetupCame(q) /\ q.look = p /\ q.at \in 1..18
  BY <1>1, <1>2 DEF JobIs, IsJob, D!Mine
<1>4. \A s \in D!Slots : OneOf(s, root.slot[s], p)
  BY <1>2, OwnSlots DEF D!Mine
<1>5. /\ ReserveAt["config"] = 10 /\ ReserveAt["state"] = 11 /\ ReserveAt["progress"] = 12
      /\ PromoteAt["config"] = 14 /\ PromoteAt["state"] = 15 /\ PromoteAt["progress"] = 16
      /\ "config" \in D!Slots /\ "state" \in D!Slots /\ "progress" \in D!Slots
  BY DEF ReserveAt, PromoteAt, D!Slots
<1>15. \A t \in D!Slots : D!Step(k) = D!Promoting[t] => q.at = PromoteAt[t]
  BY <1>1, Stands DEF SetupStands
<1>6. \A s \in D!Slots : (q.at > 12 => Has(s)) /\ (q.at > PromoteAt[s] => FinalIs(s))
  <2>1. \A s \in D!Slots : ReserveAt[s] <= 12
    BY <1>5 DEF D!Slots, ReserveAt
  <2> QED  BY <1>3, <2>1 DEF SetupCame, ReserveAt, D!Slots
<1>7. PICK s : s = D!Step(k)
  OBVIOUS
<1>8. CASE s = "agree"
  <2>1. q.at \in {3, 17}
    BY <1>1, <1>3, <1>7, <1>8, Stands DEF SetupStands, ProgressStands
  <2>2. ASSUME q.at = 17 PROVE D!BoundTo("config", p) /\ root.slot["config"].links = D!Links
    <3>1. FinalIs("config") /\ root.temps = {}
      BY <1>1, <1>3, <1>5, <1>6, <2>2
         DEF JobIs, HalfDone, SetupCame, ReserveAt, PromoteAt, D!Slots
    <3>2. D!BoundTo("config", p) /\ root.slot["config"].links = AllLinks
      BY <1>4, <1>5, <3>1, SlotIs, BindsTo
    <3>3. D!Links = AllLinks
      BY <3>1, AllHave, LinksAre DEF SetupInv
    <3> QED  BY <3>2, <3>3
  <2>3. D!Agrees(k)
    BY <1>1, <1>2, <1>3, <2>1, <2>2 DEF D!Agrees, D!SameInputs
  <2> QED  BY <1>7, <1>8, <2>3 DEF D!Permits, D!Free, D!Reserving, D!Promoting, D!Slots
<1>9. CASE s = "replay"
  <2>1. D!Replayable(p)
    BY <1>4, Replays
  <2> QED  BY <1>1, <1>3, <1>7, <1>9, <2>1
           DEF D!Permits, D!Free, D!Reserving, D!Promoting, D!Slots
<1>10. D!Free(k)
  <2> SUFFICES ASSUME NEW u \in D!Slots, s = D!Reserving[u] \/ s = D!Promoting[u]
               PROVE  root.temps \subseteq q.temp
    BY <1>1, <1>7 DEF D!Free
  <2>1. q.at \in {ReserveAt[u], PromoteAt[u]}
    BY <1>1, <1>7, Stands DEF SetupStands
  <2>2. q.at >= 6
    BY <1>5, <2>1 DEF D!Slots
  <2> QED  BY <1>3, <2>2 DEF SetupCame
<1>11. CASE s = D!Promoting["config"]
  <2>1. q.at = 14 /\ q.links = AllLinks
    BY <1>3, <1>5, <1>7, <1>11, <1>15 DEF SetupCame
  <2>2. \/ D!BoundTo("config", p) /\ root.slot["config"].links = q.links
        \/ \A t \in D!Slots : D!IsPending(t, p)
    <3>1. CASE FinalIs("config")
      BY <1>4, <1>5, <2>1, <3>1, SlotIs, BindsTo
    <3>2. CASE ~FinalIs("config")
      <4>1. \A t \in D!Slots : ~FinalIs(t)
        BY <1>1, <3>2 DEF InOrder, D!Slots
      <4> QED  BY <1>4, <1>6, <2>1, <4>1, SlotIs
    <3> QED  BY <3>1, <3>2
  <2> QED  BY <1>1, <1>3, <1>7, <1>10, <1>11, <2>2 DEF D!Permits, D!Promoting
<1>12. CASE s = D!Promoting["state"]
  <2>1. q.at = 15
    BY <1>5, <1>7, <1>12, <1>15
  <2>2. FinalIs("config") /\ Has("state") /\ Has("progress")
    BY <1>5, <1>6, <2>1
  <2>3. IF D!IsPending("state", p) THEN D!IsPending("progress", p) ELSE D!BoundTo("state", p)
    <3>1. CASE D!IsPending("state", p)
      BY <1>1, <1>4, <1>5, <2>2, <3>1, SlotIs DEF InOrder
    <3>2. CASE ~D!IsPending("state", p)
      BY <1>4, <1>5, <2>2, <3>2, SlotIs, BindsTo
    <3> QED  BY <3>1, <3>2
  <2> QED  BY <1>1, <1>3, <1>7, <1>10, <1>12, <2>3 DEF D!Permits, D!Promoting
<1>13. CASE s = D!Promoting["progress"]
  <2>1. q.at = 16
    BY <1>5, <1>7, <1>13, <1>15
  <2>2. D!IsPending("progress", p) \/ D!BoundTo("progress", p)
    <3>1. Has("progress")
      BY <1>5, <1>6, <2>1
    <3> QED  BY <1>4, <1>5, <3>1, SlotIs, BindsTo
  <2> QED  BY <1>1, <1>3, <1>7, <1>10, <1>13, <2>2 DEF D!Permits, D!Promoting
<1>14. CASE s \notin {"agree", "replay", D!Promoting["config"], D!Promoting["state"],
                      D!Promoting["progress"]}
  <2>1. s # "open" /\ s # "unmoved"
    BY <1>1, <1>3, <1>7, Stands DEF SetupStands, ProgressStands
  <2>2. D!Permits(k)
    BY <1>7, <1>14, <2>1 DEF D!Permits
  <2> QED  BY <1>10, <2>2
<1> QED  BY <1>8, <1>9, <1>11, <1>12, <1>13, <1>14

(* SetupSound of DetachedSetup, for any commands and inputs and any number of *)
(* setups, kills and changes: a root is bound to one set of inputs, its slots *)
(* become final in their order, a success left all three final, and a setup   *)
(* whose inputs are the root's is refused at no step.                         *)
THEOREM SetupIsSound == Spec => []SetupSound
<1>1. SetupInv => SetupSound
  <2> SUFFICES ASSUME SetupInv PROVE D!SetupSound
    BY DEF SetupSound
  <2>1. \A s, t \in D!Files : root.slot[s].of = root.slot[t].of
    <3>1. PICK p \in Plans : \A s \in D!Slots : OneOf(s, root.slot[s], p)
      BY DEF SetupInv, RootOK, OneSet
    <3>2. \A s \in D!Files : root.slot[s].of = p
      BY <3>1, OfIs DEF D!Files
    <3> QED  BY <3>2
  <2>2. /\ root.slot["state"].kind = "final" => root.slot["config"].kind = "final"
        /\ root.slot["progress"].kind = "final" => root.slot["state"].kind = "final"
    BY DEF SetupInv, RootOK, InOrder, FinalIs
  <2>3. ASSUME NEW k \in Commands, D!Step(k) = "answer"
        PROVE  \A s \in D!Slots : root.slot[s].kind = "final"
    <3>1. PICK q : q = cmd[k] /\ JobIs(k, q)
      BY JobFacts
    <3>2. \/ q.kind = "setup" /\ q.at = 18
          \/ q.kind = "progress" /\ q.at = 8
      BY <2>3, <3>1, Stands DEF SetupStands, ProgressStands
    <3> QED  BY <3>1, <3>2 DEF JobIs, SetupCame, ProgressCame, FinalIs, PromoteAt, D!Slots
  <2> QED  BY <2>1, <2>2, <2>3, NothingRefused DEF D!SetupSound
<1> QED  BY <1>1, RootAlways, PTL

\* What a step may do to the slots.
Stands1(s) == \E n \in {0, 1} : root'.slot[s] = [root.slot[s] EXCEPT !.events = @ + n]

LEMMA SlotKept ==
  ASSUME SetupInv, NEW s \in D!Slots, FinalIs(s), root'.slot[s] = root.slot[s]
  PROVE  Stands1(s)
<1>1. PICK p \in Plans : OneOf(s, root.slot[s], p)
  BY DEF SetupInv, RootOK, OneSet
<1>2. PICK v : v = root.slot[s] /\ v.kind = "final" /\ IsFinal(s, v, p)
  BY <1>1, SlotKinds DEF OneOf, FinalIs
<1>3. v.events \in Nat /\ v = [v EXCEPT !.events = v.events]
  BY <1>2 DEF IsFinal
<1>4. v = [v EXCEPT !.events = @ + 0]
  BY <1>3
<1> QED  BY <1>2, <1>4 DEF Stands1

LEMMA SlotsStand ==
  ASSUME SetupInv, D!SetupNext \/ UNCHANGED rootVars, NEW s \in D!Slots, FinalIs(s)
  PROVE  Stands1(s)
<1>1. RootShape
  BY DEF SetupInv, RootOK
<1>2. CASE root'.slot = root.slot
  BY <1>2, SlotKept
<1>3. UNCHANGED rootVars => root'.slot = root.slot
  BY DEF rootVars
<1>4. D!Drift => root'.slot = root.slot
  BY DEF D!Drift
<1>5. ASSUME NEW k \in Commands, NEW kind, D!Begin(k, kind) PROVE root'.slot = root.slot
  BY <1>5 DEF D!Begin
<1>6. ASSUME NEW k \in Commands,
             \/ D!Look(k) \/ D!Lock(k) \/ D!Check(k) \/ D!Sweep(k) \/ D!MakeDirectory(k)
             \/ D!Marker(k) \/ D!Identify(k) \/ D!Answer(k) \/ D!Fail(k) \/ D!Kill(k)
      PROVE  root'.slot = root.slot
  BY <1>1, <1>6 DEF RootShape, D!Look, D!Lock, D!Check, D!Sweep, D!MakeDirectory, D!Marker,
     D!Identify, D!Answer, D!Fail, D!Kill, D!Ends, D!Changes
<1>7. ASSUME NEW k \in Commands, NEW u \in D!Slots, D!Reserve(k, u) \/ D!Promote(k, u)
      PROVE  root'.slot[s] = root.slot[s]
  <2>1. PICK q : q = cmd[k] /\ JobIs(k, q)
    BY JobFacts
  <2>2. q.kind = "setup" /\ (D!Reserve(k, u) => q.at = ReserveAt[u])
                         /\ (D!Promote(k, u) => q.at = PromoteAt[u])
    BY <1>7, <2>1, Stands DEF D!Reserve, D!Promote, SetupStands
  <2>3. ASSUME NEW t, NEW v, D!Rename(k, <<t, u>>, v) PROVE u # s /\ root'.slot[s] = root.slot[s]
    <3>1. q.temp = {<<t, u>>}
      BY <2>1, <2>3 DEF D!Rename
    <3>2. PICK w \in D!Slots : \/ q.temp = {<<"setup", w>>} /\ ~Has(w)
                               \/ q.temp = {<<"write", w>>} /\ root.slot[w] = D!Pending(q.look)
      BY <2>1, <2>2, <3>1 DEF JobIs, HalfDone
    <3>3. w = u
      <4>1. <<t, u>> = <<"setup", w>> \/ <<t, u>> = <<"write", w>>
        BY <3>1, <3>2
      <4> QED  BY <4>1
    <3>4. ~FinalIs(w)
      BY <3>2, SlotKinds DEF Has, FinalIs
    <3> QED  BY <1>1, <2>3, <3>3, <3>4 DEF D!Rename, D!Changes, RootShape
  <2>4. ASSUME NEW t, D!Temp(k, t) \/ D!Changes(root) PROVE root'.slot[s] = root.slot[s]
    BY <1>1, <2>4 DEF D!Temp, D!Changes, RootShape
  <2> QED  BY <1>7, <2>3, <2>4 DEF D!Reserve, D!Promote
<1>8. ASSUME NEW k \in Commands, D!AppendEvent(k) PROVE Stands1(s)
  <2>1. CASE D!Temp(k, <<"write", "progress">>)
    <3>1. root'.slot = root.slot
      BY <1>1, <2>1 DEF D!Temp, D!Changes, RootShape
    <3> QED  BY <1>2, <3>1
  <2>2. CASE D!Rename(k, <<"write", "progress">>, [root.slot["progress"] EXCEPT !.events = @ + 1])
    <3>1. PICK v : v = [root.slot["progress"] EXCEPT !.events = @ + 1]
      OBVIOUS
    <3>2. root'.slot[s] = IF s = "progress" THEN v ELSE root.slot[s]
      BY <1>1, <2>2, <3>1 DEF D!Rename, D!Changes, RootShape
    <3>3. CASE s = "progress"
      BY <3>1, <3>2, <3>3 DEF Stands1
    <3>4. CASE s # "progress"
      BY <3>2, <3>4, SlotKept
    <3> QED  BY <3>3, <3>4
  <2> QED  BY <1>8, <2>1, <2>2 DEF D!AppendEvent
<1>9. \/ root'.slot = root.slot \/ root'.slot[s] = root.slot[s] \/ Stands1(s)
  BY <1>3, <1>4, <1>5, <1>6, <1>7, <1>8 DEF D!SetupNext
<1> QED  BY <1>2, <1>9, SlotKept

(* FinalStands of DetachedSetup, for any commands, setups, kills and changes: *)
(* a final slot is never written over, and no event of the progress is lost.  *)
THEOREM FinalsStand == Spec => FinalStands
<1>1. SetupInv /\ [Next]_vars =>
         [\A s \in D!Slots : root.slot[s].kind = "final" =>
             \E n \in {0, 1} : root'.slot[s] = [root.slot[s] EXCEPT !.events = @ + n]]_(D!setupVars)
  <2> SUFFICES ASSUME SetupInv, [Next]_vars, NEW s \in D!Slots, FinalIs(s) PROVE Stands1(s)
    BY DEF FinalIs, Stands1
  <2>1. D!SetupNext \/ UNCHANGED rootVars
    BY DEF Next, vars
  <2> QED  BY <2>1, SlotsStand
<1> QED  BY <1>1, RootAlways, PTL DEF Spec, FinalStands, D!FinalStands
-----------------------------------------------------------------------------
(* Handoff.  Where in its script a command is says what it knows: whose     *)
(* receipt it holds, what is stored, and since when its look is current.     *)

SeenVersions == SourceVersions \cup {0, 1}
Sources   == [dir : {1, 2}, commit : SeenVersions, files : SeenVersions]
Looks     == [commit : SeenVersions, files : SeenVersions]
Answered  == [echo : BOOLEAN, commit : SeenVersions, files : SeenVersions]
HandoffJob == [kind : {"none", "handoff", "stored"}, at : Nat,
               end : {"none", "success", "failed", "stuck", "killed"}, dir : {0, 1, 2},
               look : Looks, base : Looks, receipt : Answered, was : Answered,
               mine : BOOLEAN, disturbed : BOOLEAN]
LastStep == [handoff |-> 67, stored |-> 28]
HandoffTypes == /\ source \in Sources /\ evidence \in Answered /\ job \in HandoffJob
                /\ fresh \subseteq Sources
                /\ job.kind # "none" => job.at \in 1..LastStep[job.kind]

Repeats(r, look)  == r.commit = look.commit /\ r.files = look.files
CommitSeen(look)  == \E s \in fresh : s.commit = look.commit
FilesSeen(look)   == \E s \in fresh : s.files = look.files
HandoffCame ==
    /\ job.at >= 20 => job.receipt.echo
    /\ job.at >= 21 => Repeats(job.receipt, job.base)
    /\ job.at <= 55 => job.disturbed \/ evidence = job.was
    /\ job.at >= 55 => \/ job.disturbed
                       \/ job.mine /\ job.was = H!NoReceipt
                       \/ ~job.mine /\ job.was # H!NoReceipt
    /\ job.at >= 56 => \/ job.disturbed
                       \/ evidence = job.receipt /\ job.was \in {H!NoReceipt, job.receipt}
    /\ job.at >= 62 => CommitSeen(job.look)
    /\ job.at >= 63 => FilesSeen(job.look)
    /\ job.at >= 65 => job.look = job.base
StoredCame ==
    /\ job.disturbed \/ evidence = job.was
    /\ job.at >= 3 => job.receipt.echo /\ (job.disturbed \/ evidence = job.receipt)
    /\ job.at >= 6 => CommitSeen(job.look)
    /\ job.at >= 7 => FilesSeen(job.look)
    /\ job.at >= 9 => CommitSeen(job.base) /\ FilesSeen(job.base)
    /\ job.at >= 10 => Repeats(job.receipt, job.base)
HandoffInv == /\ HandoffTypes
              /\ H!Running => source \in fresh
              /\ H!Running /\ job.kind = "handoff" => HandoffCame
              /\ H!Running /\ job.kind = "stored" => StoredCame
              /\ H!HandoffHonest

LEMMA HandoffSteps ==
    ASSUME NEW n \in 1..67
    PROVE  LET s == H!Script["handoff"][n] IN
           /\ s # "load" /\ (s = "take" <=> n = 9) /\ (s = "root" <=> n = 19)
           /\ (s = "match" <=> n = 20) /\ (s = "probe" <=> n = 54) /\ (s = "write" <=> n = 55)
           /\ (s = "answer" <=> n = 67)
           /\ (s = "commit" => n <= 61) /\ (n = 61 => s = "commit")
           /\ (s = "files" => n <= 62) /\ (n = 62 => s = "files") /\ (n = 64 => s = "same")
           /\ Len(H!Script["handoff"]) = 67
<1>1. /\ H!Script["handoff"][n] # "load"
      /\ (H!Script["handoff"][n] = "take" <=> n = 9)
  BY DEF H!Script, H!Derive, H!OpenIt, H!Recheck, H!Trusted, H!LastLook
<1>2. /\ (H!Script["handoff"][n] = "root" <=> n = 19)
      /\ (H!Script["handoff"][n] = "match" <=> n = 20)
  BY DEF H!Script, H!Derive, H!OpenIt, H!Recheck, H!Trusted, H!LastLook
<1>3. /\ (H!Script["handoff"][n] = "probe" <=> n = 54)
      /\ (H!Script["handoff"][n] = "write" <=> n = 55)
  BY DEF H!Script, H!Derive, H!OpenIt, H!Recheck, H!Trusted, H!LastLook
<1>4. H!Script["handoff"][n] = "answer" <=> n = 67
  BY DEF H!Script, H!Derive, H!OpenIt, H!Recheck, H!Trusted, H!LastLook
<1>5. /\ (H!Script["handoff"][n] = "commit" => n <= 61)
      /\ (n = 61 => H!Script["handoff"][n] = "commit")
  BY DEF H!Script, H!Derive, H!OpenIt, H!Recheck, H!Trusted, H!LastLook
<1>6. /\ (H!Script["handoff"][n] = "files" => n <= 62)
      /\ (n = 62 => H!Script["handoff"][n] = "files")
  BY DEF H!Script, H!Derive, H!OpenIt, H!Recheck, H!Trusted, H!LastLook
<1>7. /\ (n = 64 => H!Script["handoff"][n] = "same")
      /\ Len(H!Script["handoff"]) = 67
  BY DEF H!Script, H!Derive, H!OpenIt, H!Recheck, H!Trusted, H!LastLook
<1> QED  BY <1>1, <1>2, <1>3, <1>4, <1>5, <1>6, <1>7

LEMMA StoredSteps ==
    ASSUME NEW n \in 1..28
    PROVE  LET s == H!Script["stored"][n] IN
           /\ s \notin {"root", "probe", "write"} /\ (s = "load" <=> n = 2) /\ (s = "take" <=> n = 8)
           /\ (s = "match" <=> n = 9) /\ (s = "answer" <=> n = 28)
           /\ (n = 5 => s = "commit") /\ (n = 6 => s = "files")
           /\ Len(H!Script["stored"]) = 28
<1>1. H!Script["stored"][n] \notin {"root", "probe", "write"}
  BY DEF H!Script, H!Derive, H!OpenIt, H!Recheck, H!Trusted, H!LastLook
<1>2. /\ (H!Script["stored"][n] = "load" <=> n = 2)
      /\ (H!Script["stored"][n] = "take" <=> n = 8)
  BY DEF H!Script, H!Derive, H!OpenIt, H!Recheck, H!Trusted, H!LastLook
<1>3. /\ (H!Script["stored"][n] = "match" <=> n = 9)
      /\ (H!Script["stored"][n] = "answer" <=> n = 28)
  BY DEF H!Script, H!Derive, H!OpenIt, H!Recheck, H!Trusted, H!LastLook
<1>4. /\ (n = 5 => H!Script["stored"][n] = "commit")
      /\ (n = 6 => H!Script["stored"][n] = "files")
      /\ Len(H!Script["stored"]) = 28
  BY DEF H!Script, H!Derive, H!OpenIt, H!Recheck, H!Trusted, H!LastLook
<1> QED  BY <1>1, <1>2, <1>3, <1>4

HandoffStep(what) == H!Running /\ H!Script[job.kind][job.at] = what
\* The next step of the script, whatever it is, but for the one that stores and the last one.
Moves(s) ==
    /\ HandoffStep(s) /\ s \notin {"answer", "write"} /\ H!World
    /\ job' \in HandoffJob /\ job'.at = job.at + 1 /\ job'.kind = job.kind /\ job'.end = job.end
    /\ job'.was = job.was /\ job'.disturbed = job.disturbed
    /\ s = "root" => job'.receipt.echo
    /\ s = "load" => evidence.echo /\ job'.receipt = evidence
    /\ s \notin {"root", "load"} => job'.receipt = job.receipt
    /\ s = "take" => job'.base = job.look
    /\ s # "take" => job'.base = job.base
    /\ s = "commit" => job'.look.commit = source.commit /\ job'.look.files = job.look.files
    /\ s = "files" => job'.look.files = source.files /\ job'.look.commit = job.look.commit
    /\ s \notin {"commit", "files"} => job'.look = job.look
    /\ s = "same" => job.look = job.base
    /\ s = "match" => Repeats(job.receipt, job.base)
    /\ s = "probe" => (job'.mine <=> evidence = H!NoReceipt)
    /\ s # "probe" => (job'.mine <=> job.mine)

LEMMA HandoffJobIs ==
    ASSUME HandoffInv, H!Running
    PROVE  /\ job \in HandoffJob /\ source \in Sources /\ evidence \in Answered /\ source \in fresh
           /\ \/ job.kind = "handoff" /\ job.at \in 1..67
              \/ job.kind = "stored" /\ job.at \in 1..28
<1>1. job.kind \in {"none", "handoff", "stored"}
  BY DEF HandoffInv, HandoffTypes, HandoffJob
<1> QED  BY <1>1 DEF HandoffInv, HandoffTypes, H!Running, LastStep

LEMMA StepMoves ==
    ASSUME HandoffInv, H!Step, ~H!Write, ~H!Success
    PROVE  \E s : Moves(s)
<1>1. H!Running
  BY DEF H!Step, H!Authorities, H!Ready, H!FixedThings, H!Sound, H!Identity, H!Status, H!Commit,
         H!Files, H!Take, H!Same, H!Root, H!Load, H!Match, H!Verifier, H!Probe, H!Reopen, H!At
<1>2. job \in HandoffJob /\ source \in Sources /\ evidence \in Answered /\ job.at + 1 \in Nat
  BY <1>1, HandoffJobIs DEF HandoffJob
<1>3. ASSUME NEW s, s \in {"authority", "ready", "fixed", "status", "verifier", "reopen"},
             HandoffStep(s), H!On(job), H!World
      PROVE  \E step : Moves(step)
  <2>1. job' = [job EXCEPT !.at = @ + 1]
    BY <1>3 DEF H!On
  <2>2. job' \in HandoffJob
    BY <1>2, <2>1 DEF HandoffJob
  <2>3. Moves(s)
    BY <1>2, <1>3, <2>1, <2>2 DEF Moves, HandoffJob
  <2> QED  BY <2>3
<1>4. ASSUME H!Identity PROVE Moves("identity")
  <2>1. HandoffStep("identity") /\ H!World /\ job' = [[job EXCEPT !.dir = source.dir] EXCEPT !.at = @ + 1]
    BY <1>4 DEF H!Identity, H!At, HandoffStep, H!On
  <2>2. source.dir \in {0, 1, 2}
    BY <1>2 DEF Sources
  <2>3. PICK dir \in {0, 1, 2} : dir = source.dir
    BY <2>2
  <2>4. job' = [[job EXCEPT !.dir = dir] EXCEPT !.at = @ + 1]
    BY <2>1, <2>3
  <2>5. job' \in HandoffJob
    BY <1>2, <2>4 DEF HandoffJob
  <2> QED  BY <1>2, <2>1, <2>4, <2>5 DEF Moves, HandoffJob
<1>5. ASSUME H!Commit PROVE Moves("commit")
  <2>1. HandoffStep("commit") /\ H!World
        /\ job' = [[job EXCEPT !.look.commit = source.commit] EXCEPT !.at = @ + 1]
    BY <1>5 DEF H!Commit, H!At, HandoffStep, H!On
  <2>2. source.commit \in SeenVersions /\ job.look \in Looks
    BY <1>2 DEF Sources, HandoffJob
  <2>3. PICK v \in SeenVersions, l \in Looks : v = source.commit /\ l = job.look
    BY <2>2
  <2>4. PICK look : look = [l EXCEPT !.commit = v]
    OBVIOUS
  <2>5. look \in Looks /\ look.commit = v /\ look.files = l.files
    BY <2>4 DEF Looks
  <2>6. job' = [[job EXCEPT !.look = look] EXCEPT !.at = @ + 1]
    BY <1>2, <2>1, <2>3, <2>4 DEF HandoffJob
  <2>7. job' \in HandoffJob /\ job'.look = look
    BY <1>2, <2>5, <2>6 DEF HandoffJob
  <2> QED  BY <1>2, <2>1, <2>3, <2>5, <2>6, <2>7 DEF Moves, HandoffJob
<1>6. ASSUME H!Files PROVE Moves("files")
  <2>1. HandoffStep("files") /\ H!World
        /\ job' = [[job EXCEPT !.look.files = source.files] EXCEPT !.at = @ + 1]
    BY <1>6 DEF H!Files, H!At, HandoffStep, H!On
  <2>2. source.files \in SeenVersions /\ job.look \in Looks
    BY <1>2 DEF Sources, HandoffJob
  <2>3. PICK v \in SeenVersions, l \in Looks : v = source.files /\ l = job.look
    BY <2>2
  <2>4. PICK look : look = [l EXCEPT !.files = v]
    OBVIOUS
  <2>5. look \in Looks /\ look.files = v /\ look.commit = l.commit
    BY <2>4 DEF Looks
  <2>6. job' = [[job EXCEPT !.look = look] EXCEPT !.at = @ + 1]
    BY <1>2, <2>1, <2>3, <2>4 DEF HandoffJob
  <2>7. job' \in HandoffJob /\ job'.look = look
    BY <1>2, <2>5, <2>6 DEF HandoffJob
  <2> QED  BY <1>2, <2>1, <2>3, <2>5, <2>6, <2>7 DEF Moves, HandoffJob
<1>7. ASSUME H!Take PROVE Moves("take")
  <2>1. HandoffStep("take") /\ H!World
        /\ job' = [[job EXCEPT !.base = job.look] EXCEPT !.at = @ + 1]
    BY <1>7 DEF H!Take, H!At, HandoffStep, H!On
  <2>2. job' \in HandoffJob
    BY <1>2, <2>1 DEF HandoffJob
  <2> QED  BY <1>2, <2>1, <2>2 DEF Moves, HandoffJob
<1>8. ASSUME H!Same PROVE Moves("same")
  <2>1. HandoffStep("same") /\ H!World /\ job.look = job.base /\ job' = [job EXCEPT !.at = @ + 1]
    BY <1>8 DEF H!Same, H!At, HandoffStep, H!On
  <2>2. job' \in HandoffJob
    BY <1>2, <2>1 DEF HandoffJob
  <2> QED  BY <1>2, <2>1, <2>2 DEF Moves, HandoffJob
<1>9. ASSUME H!Root PROVE Moves("root")
  <2>1. PICK r \in H!Receipts :
           /\ HandoffStep("root") /\ H!World /\ r.echo
           /\ job' = [[job EXCEPT !.receipt = r] EXCEPT !.at = @ + 1]
    BY <1>9 DEF H!Root, H!At, HandoffStep, H!On
  <2>2. r \in Answered
    BY DEF H!Receipts, Answered, SeenVersions
  <2>3. job' \in HandoffJob /\ job'.receipt = r
    BY <1>2, <2>1, <2>2 DEF HandoffJob
  <2> QED  BY <1>2, <2>1, <2>3 DEF Moves, HandoffJob
<1>10. ASSUME H!Load PROVE Moves("load")
  <2>1. /\ HandoffStep("load") /\ H!World /\ evidence.echo
        /\ job' = [[job EXCEPT !.receipt = evidence] EXCEPT !.at = @ + 1]
    BY <1>10 DEF H!Load, H!At, HandoffStep, H!On
  <2>2. PICK r \in Answered : r = evidence
    BY <1>2
  <2>3. job' = [[job EXCEPT !.receipt = r] EXCEPT !.at = @ + 1]
    BY <2>1, <2>2
  <2>4. job' \in HandoffJob /\ job'.receipt = r
    BY <1>2, <2>2, <2>3 DEF HandoffJob
  <2> QED  BY <1>2, <2>1, <2>2, <2>3, <2>4 DEF Moves, HandoffJob
<1>11. ASSUME H!Match PROVE Moves("match")
  <2>1. HandoffStep("match") /\ H!World /\ Repeats(job.receipt, job.base)
        /\ job' = [job EXCEPT !.at = @ + 1]
    BY <1>11 DEF H!Match, H!At, HandoffStep, H!On, Repeats
  <2>2. job' \in HandoffJob
    BY <1>2, <2>1 DEF HandoffJob
  <2> QED  BY <1>2, <2>1, <2>2 DEF Moves, HandoffJob
<1>12. ASSUME H!Probe PROVE Moves("probe")
  <2>1. PICK mine \in BOOLEAN : mine = (evidence = H!NoReceipt)
    OBVIOUS
  <2>2. HandoffStep("probe") /\ H!World /\ job' = [[job EXCEPT !.mine = mine] EXCEPT !.at = @ + 1]
    BY <1>12, <2>1 DEF H!Probe, H!At, HandoffStep, H!On
  <2>3. job' \in HandoffJob /\ job'.mine = mine
    BY <1>2, <2>2 DEF HandoffJob
  <2>4. mine <=> evidence = H!NoReceipt
    BY <2>1
  <2>5. job'.mine <=> evidence = H!NoReceipt
    BY <2>3, <2>4
  <2> QED  BY <1>2, <2>2, <2>3, <2>5 DEF Moves, HandoffJob
<1>13. ASSUME H!Authorities PROVE \E s : Moves(s)
  <2>1. HandoffStep("authority") /\ H!On(job) /\ H!World
    BY <1>13 DEF H!Authorities, H!Sound, H!At, HandoffStep
  <2>2. PICK s : s = "authority"
    OBVIOUS
  <2> QED  BY <1>3, <2>1, <2>2
<1>14. ASSUME H!Ready PROVE \E s : Moves(s)
  <2>1. HandoffStep("ready") /\ H!On(job) /\ H!World
    BY <1>14 DEF H!Ready, H!Sound, H!At, HandoffStep
  <2>2. PICK s : s = "ready"
    OBVIOUS
  <2> QED  BY <1>3, <2>1, <2>2
<1>15. ASSUME H!FixedThings PROVE \E s : Moves(s)
  <2>1. HandoffStep("fixed") /\ H!On(job) /\ H!World
    BY <1>15 DEF H!FixedThings, H!Sound, H!At, HandoffStep
  <2>2. PICK s : s = "fixed"
    OBVIOUS
  <2> QED  BY <1>3, <2>1, <2>2
<1>16. ASSUME H!Status PROVE \E s : Moves(s)
  <2>1. HandoffStep("status") /\ H!On(job) /\ H!World
    BY <1>16 DEF H!Status, H!At, HandoffStep
  <2>2. PICK s : s = "status"
    OBVIOUS
  <2> QED  BY <1>3, <2>1, <2>2
<1>17. ASSUME H!Verifier PROVE \E s : Moves(s)
  <2>1. HandoffStep("verifier") /\ H!On(job) /\ H!World
    BY <1>17 DEF H!Verifier, H!At, HandoffStep
  <2>2. PICK s : s = "verifier"
    OBVIOUS
  <2> QED  BY <1>3, <2>1, <2>2
<1>18. ASSUME H!Reopen PROVE \E s : Moves(s)
  <2>1. HandoffStep("reopen") /\ H!On(job) /\ H!World
    BY <1>18 DEF H!Reopen, H!At, HandoffStep
  <2>2. PICK s : s = "reopen"
    OBVIOUS
  <2> QED  BY <1>3, <2>1, <2>2
<1> QED  BY <1>4, <1>5, <1>6, <1>7, <1>8, <1>9, <1>10, <1>11, <1>12, <1>13, <1>14, <1>15, <1>16,
            <1>17, <1>18 DEF H!Step

LEMMA HandoffMovesOn ==
    ASSUME HandoffInv, NEW s, Moves(s), job.kind = "handoff"
    PROVE  HandoffInv'
<1>1. /\ job.at \in 1..67 /\ source \in fresh /\ HandoffCame /\ H!Running /\ job.end = "none"
      /\ s = H!Script["handoff"][job.at] /\ s # "answer" /\ s # "write"
      /\ job \in HandoffJob /\ evidence \in Answered /\ HandoffTypes
  BY HandoffJobIs DEF Moves, HandoffStep, HandoffInv, H!Running
<1>2. UNCHANGED <<source, sound, evidence, fresh>>
  BY DEF Moves, H!World
<1>3. PICK n \in 1..67 : n = job.at
  BY <1>1
<1>4. /\ s # "load" /\ (s = "take" <=> n = 9) /\ (s = "root" <=> n = 19) /\ (s = "match" <=> n = 20)
      /\ (s = "probe" <=> n = 54) /\ n # 55 /\ n # 67 /\ (s = "commit" => n <= 61)
      /\ (n = 61 => s = "commit") /\ (s = "files" => n <= 62) /\ (n = 62 => s = "files")
      /\ (n = 64 => s = "same")
  BY <1>1, <1>3, HandoffSteps
<1>5. /\ job' \in HandoffJob /\ job'.at = n + 1 /\ job'.kind = "handoff" /\ job'.end = "none"
      /\ job'.was = job.was /\ job'.disturbed = job.disturbed
  BY <1>1, <1>3 DEF Moves
<1>6. job'.at >= 20 => job'.receipt.echo
  BY <1>1, <1>3, <1>4, <1>5 DEF Moves, HandoffCame
<1>7. job'.at >= 21 => Repeats(job'.receipt, job'.base)
  <2>1. CASE n = 20
    BY <1>4, <1>5, <2>1 DEF Moves, Repeats
  <2>2. CASE n > 20
    BY <1>1, <1>3, <1>4, <1>5, <2>2 DEF Moves, HandoffCame
  <2> QED  BY <1>5, <2>1, <2>2
<1>8. job'.at <= 55 => job'.disturbed \/ evidence' = job'.was
  BY <1>1, <1>2, <1>3, <1>5 DEF HandoffCame
<1>9. job'.at >= 55 => \/ job'.disturbed
                       \/ job'.mine /\ job'.was = H!NoReceipt
                       \/ ~job'.mine /\ job'.was # H!NoReceipt
  <2>1. CASE n = 54
    <3>1. job'.mine <=> evidence = H!NoReceipt
      BY <1>4, <2>1 DEF Moves
    <3>2. job.disturbed \/ evidence = job.was
      BY <1>1, <1>3, <2>1 DEF HandoffCame
    <3> QED  BY <1>5, <3>1, <3>2
  <2>2. CASE n > 54
    <3>1. job'.mine <=> job.mine
      BY <1>4, <2>2 DEF Moves
    <3> QED  BY <1>1, <1>3, <1>5, <2>2, <3>1 DEF HandoffCame
  <2> QED  BY <1>5, <2>1, <2>2
<1>10. job'.at >= 56 => \/ job'.disturbed
                        \/ evidence' = job'.receipt /\ job'.was \in {H!NoReceipt, job'.receipt}
  <2>1. CASE n >= 56
    <3>1. job'.receipt = job.receipt
      BY <1>4, <2>1 DEF Moves
    <3> QED  BY <1>1, <1>2, <1>3, <1>5, <2>1, <3>1 DEF HandoffCame
  <2> QED  BY <1>4, <1>5, <2>1
<1>11. job'.at >= 62 => CommitSeen(job.look)'
  <2>1. CASE n = 61
    BY <1>1, <1>2, <1>4, <2>1 DEF Moves, CommitSeen
  <2>2. CASE n > 61
    <3>1. job'.look.commit = job.look.commit /\ CommitSeen(job.look)
      BY <1>1, <1>3, <1>4, <2>2 DEF Moves, HandoffCame
    <3> QED  BY <1>2, <3>1 DEF CommitSeen
  <2> QED  BY <1>5, <2>1, <2>2
<1>12. job'.at >= 63 => FilesSeen(job.look)'
  <2>1. CASE n = 62
    BY <1>1, <1>2, <1>4, <2>1 DEF Moves, FilesSeen
  <2>2. CASE n > 62
    <3>1. job'.look = job.look /\ FilesSeen(job.look)
      BY <1>1, <1>3, <1>4, <2>2 DEF Moves, HandoffCame
    <3> QED  BY <1>2, <3>1 DEF FilesSeen
  <2> QED  BY <1>5, <2>1, <2>2
<1>13. job'.at >= 65 => job'.look = job'.base
  <2>1. CASE n >= 64
    <3>1. job'.look = job.look /\ job'.base = job.base
      BY <1>4, <2>1 DEF Moves
    <3>2. job.look = job.base
      BY <1>1, <1>3, <1>4, <2>1 DEF Moves, HandoffCame
    <3> QED  BY <3>1, <3>2
  <2> QED  BY <1>5, <2>1
<1>14. HandoffCame'
  BY <1>6, <1>7, <1>8, <1>9, <1>10, <1>11, <1>12, <1>13 DEF HandoffCame, Repeats
<1>15. HandoffTypes'
  BY <1>1, <1>2, <1>4, <1>5 DEF HandoffTypes, LastStep
<1>16. H!HandoffHonest'
  BY <1>5 DEF H!HandoffHonest
<1> QED  BY <1>1, <1>2, <1>5, <1>14, <1>15, <1>16 DEF HandoffInv, H!Running

LEMMA StoredMovesOn ==
    ASSUME HandoffInv, NEW s, Moves(s), job.kind = "stored"
    PROVE  HandoffInv'
<1>1. /\ job.at \in 1..28 /\ source \in fresh /\ StoredCame /\ H!Running /\ job.end = "none"
      /\ s = H!Script["stored"][job.at] /\ s # "answer" /\ s # "write"
      /\ job \in HandoffJob /\ evidence \in Answered /\ HandoffTypes
  BY HandoffJobIs DEF Moves, HandoffStep, HandoffInv, H!Running
<1>2. UNCHANGED <<source, sound, evidence, fresh>>
  BY DEF Moves, H!World
<1>3. PICK n \in 1..28 : n = job.at
  BY <1>1
<1>4. /\ s # "root" /\ (s = "load" <=> n = 2) /\ (s = "take" <=> n = 8) /\ (s = "match" <=> n = 9)
      /\ n # 28 /\ (n = 5 => s = "commit") /\ (n = 6 => s = "files")
  BY <1>1, <1>3, StoredSteps
<1>5. /\ job' \in HandoffJob /\ job'.at = n + 1 /\ job'.kind = "stored" /\ job'.end = "none"
      /\ job'.was = job.was /\ job'.disturbed = job.disturbed
  BY <1>1, <1>3 DEF Moves
<1>6. job'.disturbed \/ evidence' = job'.was
  BY <1>1, <1>2, <1>5 DEF StoredCame
<1>7. job'.at >= 3 => job'.receipt.echo /\ (job'.disturbed \/ evidence' = job'.receipt)
  <2>1. CASE n = 2
    BY <1>2, <1>4, <2>1 DEF Moves
  <2>2. CASE n > 2
    <3>1. job'.receipt = job.receipt
      BY <1>4, <2>2 DEF Moves
    <3> QED  BY <1>1, <1>2, <1>3, <1>5, <2>2, <3>1 DEF StoredCame
  <2> QED  BY <1>5, <2>1, <2>2
<1>8. job'.at >= 6 => CommitSeen(job.look)'
  <2>1. CASE s = "commit"
    BY <1>1, <1>2, <2>1 DEF Moves, CommitSeen
  <2>2. CASE s # "commit" /\ n >= 6
    <3>1. job'.look.commit = job.look.commit /\ CommitSeen(job.look)
      BY <1>1, <1>3, <2>2 DEF Moves, StoredCame
    <3> QED  BY <1>2, <3>1 DEF CommitSeen
  <2> QED  BY <1>4, <1>5, <2>1, <2>2
<1>9. job'.at >= 7 => FilesSeen(job.look)'
  <2>1. CASE s = "files"
    BY <1>1, <1>2, <2>1 DEF Moves, FilesSeen
  <2>2. CASE s # "files" /\ n >= 7
    <3>1. job'.look.files = job.look.files /\ FilesSeen(job.look)
      BY <1>1, <1>3, <2>2 DEF Moves, StoredCame
    <3> QED  BY <1>2, <3>1 DEF FilesSeen
  <2> QED  BY <1>4, <1>5, <2>1, <2>2
<1>10. job'.at >= 9 => CommitSeen(job.base)' /\ FilesSeen(job.base)'
  <2>1. CASE n = 8
    <3>1. job'.base = job.look /\ CommitSeen(job.look) /\ FilesSeen(job.look)
      BY <1>1, <1>3, <1>4, <2>1 DEF Moves, StoredCame
    <3> QED  BY <1>2, <3>1 DEF CommitSeen, FilesSeen
  <2>2. CASE n > 8
    <3>1. job'.base = job.base /\ CommitSeen(job.base) /\ FilesSeen(job.base)
      BY <1>1, <1>3, <1>4, <2>2 DEF Moves, StoredCame
    <3> QED  BY <1>2, <3>1 DEF CommitSeen, FilesSeen
  <2> QED  BY <1>5, <2>1, <2>2
<1>11. job'.at >= 10 => Repeats(job'.receipt, job'.base)
  <2>1. CASE n = 9
    BY <1>4, <2>1 DEF Moves, Repeats
  <2>2. CASE n > 9
    BY <1>1, <1>3, <1>4, <1>5, <2>2 DEF Moves, StoredCame
  <2> QED  BY <1>5, <2>1, <2>2
<1>12. StoredCame'
  BY <1>6, <1>7, <1>8, <1>9, <1>10, <1>11 DEF StoredCame, Repeats
<1>13. HandoffTypes'
  BY <1>1, <1>2, <1>4, <1>5 DEF HandoffTypes, LastStep
<1>14. H!HandoffHonest'
  BY <1>5 DEF H!HandoffHonest
<1> QED  BY <1>1, <1>2, <1>5, <1>12, <1>13, <1>14 DEF HandoffInv, H!Running

\* What is written is the receipt, and whatever the source was before no longer counts.
LEMMA HandoffWrites ==
    ASSUME HandoffInv, H!Write
    PROVE  HandoffInv'
<1>1. /\ HandoffStep("write") /\ H!Running /\ evidence \in {H!NoReceipt, job.receipt}
      /\ evidence' = job.receipt /\ fresh' = {source} /\ job' = [job EXCEPT !.at = @ + 1]
      /\ UNCHANGED <<source, sound>>
  BY DEF H!Write, H!At, H!On, HandoffStep
<1>2. job.kind = "handoff" /\ job.at = 55
  <2>1. H!Script[job.kind][job.at] = "write"
    BY <1>1 DEF HandoffStep
  <2>2. CASE job.kind = "handoff" /\ job.at \in 1..67
    BY <2>1, <2>2, HandoffSteps
  <2>3. CASE job.kind = "stored" /\ job.at \in 1..28
    BY <2>1, <2>3, StoredSteps
  <2> QED  BY <1>1, <2>2, <2>3, HandoffJobIs
<1>3. job \in HandoffJob /\ source \in Sources /\ HandoffCame /\ HandoffTypes
  BY <1>1, <1>2 DEF HandoffInv, HandoffTypes
<1>4. /\ job' \in HandoffJob /\ job'.at = 56 /\ job'.kind = "handoff" /\ job'.end = job.end
      /\ job'.was = job.was /\ job'.disturbed = job.disturbed /\ job'.receipt = job.receipt
      /\ job'.base = job.base /\ job'.mine = job.mine
  BY <1>1, <1>2, <1>3 DEF HandoffJob
<1>5. job.end = "none" /\ job.receipt \in Answered
  BY <1>1, <1>3 DEF H!Running, HandoffJob
<1>6. HandoffTypes'
  BY <1>1, <1>3, <1>4, <1>5 DEF HandoffTypes, LastStep
<1>7. /\ job.receipt.echo /\ Repeats(job.receipt, job.base)
      /\ job.disturbed \/ evidence = job.was
      /\ \/ job.disturbed
         \/ job.mine /\ job.was = H!NoReceipt
         \/ ~job.mine /\ job.was # H!NoReceipt
  BY <1>2, <1>3 DEF HandoffCame
<1>8. HandoffCame'
  BY <1>1, <1>4, <1>7 DEF HandoffCame, Repeats
<1>9. H!HandoffHonest'
  BY <1>4, <1>5 DEF H!HandoffHonest
<1> QED  BY <1>1, <1>4, <1>5, <1>6, <1>8, <1>9 DEF HandoffInv, H!Running

LEMMA NoReceiptIs == H!NoReceipt \in Answered
<1>1. PICK no \in BOOLEAN, z \in SeenVersions : no = FALSE /\ z = 0
  BY DEF SeenVersions
<1>2. H!NoReceipt = [echo |-> no, commit |-> z, files |-> z]
  BY <1>1 DEF H!NoReceipt
<1> QED  BY <1>2 DEF Answered

\* What stops a command changes nothing else of it.
LEMMA Stopped ==
    ASSUME HandoffInv, H!Running, NEW end \in {"success", "failed", "stuck", "killed"}, H!Stop(end),
           UNCHANGED <<source, sound, fresh>>, evidence' \in Answered, H!HandoffHonest'
    PROVE  HandoffInv'
<1>1. job \in HandoffJob /\ job.kind # "none" /\ job.at \in 1..LastStep[job.kind]
  BY DEF HandoffInv, HandoffTypes, H!Running
<1>2. job' = [job EXCEPT !.end = end]
  BY DEF H!Stop
<1>3. job' \in HandoffJob /\ job'.end = end /\ job'.kind = job.kind /\ job'.at = job.at
  BY <1>1, <1>2 DEF HandoffJob
<1>4. HandoffTypes'
  BY <1>1, <1>3 DEF HandoffInv, HandoffTypes
<1>5. end # "none"
  OBVIOUS
<1> QED  BY <1>3, <1>4, <1>5 DEF HandoffInv, H!Running

LEMMA HandoffSucceeds ==
    ASSUME HandoffInv, H!Success
    PROVE  HandoffInv'
<1>1. HandoffStep("answer") /\ H!Running /\ H!Stop("success") /\ H!World
  BY DEF H!Success, H!At, HandoffStep
<1>2. job \in HandoffJob /\ evidence \in Answered
  BY <1>1, HandoffJobIs
<1>3. /\ job.receipt.echo /\ H!Current(job.receipt)
      /\ job.disturbed \/ evidence = job.receipt
  <2>1. CASE job.kind = "handoff"
    <3>1. job.at = 67 /\ HandoffCame
      BY <1>1, <2>1, HandoffJobIs, HandoffSteps DEF HandoffStep, HandoffInv
    <3> QED  BY <3>1 DEF HandoffCame, H!Current, Repeats, CommitSeen, FilesSeen
  <2>2. CASE job.kind = "stored"
    <3>1. job.at = 28 /\ StoredCame
      BY <1>1, <2>2, HandoffJobIs, StoredSteps DEF HandoffStep, HandoffInv
    <3> QED  BY <3>1 DEF StoredCame, H!Current, Repeats, CommitSeen, FilesSeen
  <2> QED  BY <1>1, <2>1, <2>2, HandoffJobIs
<1>4. UNCHANGED <<source, sound, evidence, fresh>>
  BY <1>1 DEF H!World
<1>5. job' = [job EXCEPT !.end = "success"]
  BY <1>1 DEF H!Stop
<1>6. job'.end = "success" /\ job'.receipt = job.receipt /\ job'.disturbed = job.disturbed
  BY <1>2, <1>5 DEF HandoffJob
<1>7. H!HandoffHonest'
  BY <1>3, <1>4, <1>6 DEF H!HandoffHonest, H!Current
<1>8. PICK end \in {"success", "failed", "stuck", "killed"} : end = "success"
  OBVIOUS
<1> QED  BY <1>1, <1>2, <1>4, <1>7, <1>8, Stopped

\* A failure leaves the evidence as it was, takes back what the command made, or, once the last
\* look is over, leaves a receipt that is as good as that of a success.
LEMMA HandoffFails ==
    ASSUME HandoffInv, H!Fail
    PROVE  HandoffInv'
<1>1. H!Running /\ UNCHANGED <<source, sound, fresh>>
  BY DEF H!Fail
<1>2. job \in HandoffJob /\ evidence \in Answered
  BY <1>1, HandoffJobIs
<1>3. CASE H!Stop("failed") /\ evidence' = IF H!TakesBack THEN H!NoReceipt ELSE evidence
  <2>1. job' = [job EXCEPT !.end = "failed"]
    BY <1>3 DEF H!Stop
  <2>2. /\ job'.end = "failed" /\ job'.receipt = job.receipt /\ job'.disturbed = job.disturbed
        /\ job'.was = job.was
    BY <1>2, <2>1 DEF HandoffJob
  <2>3. ASSUME ~job.disturbed
        PROVE  \/ evidence' = job.was
               \/ evidence' = job.receipt /\ H!Current(job.receipt)
    <3>1. CASE job.kind = "stored"
      <4>1. job.at \in 1..28 /\ StoredCame
        BY <1>1, <3>1, HandoffJobIs DEF HandoffInv
      <4>2. ASSUME NEW i \in 1..(job.at - 1) PROVE H!Script["stored"][i] # "write"
        <5>1. i \in 1..28
          BY <4>1
        <5> QED  BY <5>1, StoredSteps
      <4>3. ~H!TakesBack
        <5>1. ~H!Past("write")
          BY <3>1, <4>2, Zenon DEF H!Past
        <5> QED  BY <5>1, Zenon DEF H!TakesBack
      <4> QED  BY <1>3, <2>3, <4>1, <4>3 DEF StoredCame
    <3>2. CASE job.kind = "handoff" /\ job.at <= 55
      <4>1. job.at \in 1..67 /\ HandoffCame
        BY <1>1, <3>2, HandoffJobIs DEF HandoffInv
      <4>2. ASSUME NEW i \in 1..(job.at - 1) PROVE H!Script["handoff"][i] # "write"
        <5>1. i \in 1..67 /\ i # 55
          BY <3>2, <4>1
        <5> QED  BY <5>1, HandoffSteps
      <4>3. ~H!TakesBack
        <5>1. ~H!Past("write")
          BY <3>2, <4>2, Zenon DEF H!Past
        <5> QED  BY <5>1, Zenon DEF H!TakesBack
      <4> QED  BY <1>3, <2>3, <3>2, <4>1, <4>3 DEF HandoffCame
    <3>3. CASE job.kind = "handoff" /\ job.at > 55
      <4>1. job.at \in 1..67 /\ HandoffCame
        BY <1>1, <3>3, HandoffJobIs DEF HandoffInv
      <4>2. 55 \in 1..(job.at - 1) /\ 55 \in 1..67
        BY <3>3, <4>1
      <4>3. H!Past("write") /\ Len(H!Script["handoff"]) = 67
        BY <3>3, <4>2, HandoffSteps DEF H!Past
      <4>4. /\ job.disturbed \/ (evidence = job.receipt /\ job.was \in {H!NoReceipt, job.receipt})
            /\ \/ job.disturbed
               \/ job.mine /\ job.was = H!NoReceipt
               \/ ~job.mine /\ job.was # H!NoReceipt
        BY <3>3, <4>1 DEF HandoffCame
      <4>5. CASE job.at >= 66
        <5>1. H!Final /\ ~H!TakesBack
          BY <3>3, <4>3, <4>5 DEF H!Final, H!TakesBack
        <5>2. H!Current(job.receipt)
          BY <4>1, <4>5 DEF HandoffCame, H!Current, Repeats, CommitSeen, FilesSeen
        <5> QED  BY <1>3, <2>3, <4>4, <5>1, <5>2, Zenon
      <4>6. CASE job.at < 66 /\ job.mine
        <5>1. H!TakesBack
          BY <2>3, <3>3, <4>1, <4>3, <4>4, <4>6 DEF H!Final, H!TakesBack, H!Own
        <5>2. job.was = H!NoReceipt
          BY <2>3, <4>4, <4>6, Zenon
        <5> QED  BY <1>3, <5>1, <5>2
      <4>7. CASE job.at < 66 /\ ~job.mine
        <5>1. ~H!TakesBack
          BY <4>7 DEF H!TakesBack, H!Own
        <5>2. job.was = job.receipt
          BY <2>3, <4>4, <4>7, Zenon
        <5> QED  BY <1>3, <2>3, <4>4, <5>1, <5>2, Zenon
      <4> QED  BY <4>1, <4>5, <4>6, <4>7
    <3> QED  BY <1>1, <3>1, <3>2, <3>3, HandoffJobIs
  <2>4. H!HandoffHonest'
    <3>1. H!Current(job.receipt) => H!Current(job.receipt)'
      BY <1>1, <2>2 DEF H!Current
    <3>2. ~job.disturbed /\ evidence' # job.was => evidence' = job.receipt /\ H!Current(job.receipt)'
      BY <2>3, <3>1
    <3>3. evidence' = job'.receipt => (H!Current(evidence)' <=> H!Current(job.receipt)')
      BY DEF H!Current
    <3> QED  BY <2>2, <3>2, <3>3 DEF H!HandoffHonest
  <2>5. evidence' \in Answered
    BY <1>2, <1>3, NoReceiptIs
  <2>6. PICK end \in {"success", "failed", "stuck", "killed"} : end = "failed"
    OBVIOUS
  <2> QED  BY <1>1, <1>3, <2>4, <2>5, <2>6, Stopped
<1>4. CASE H!Stop("stuck") /\ UNCHANGED evidence
  <2>1. job' = [job EXCEPT !.end = "stuck"]
    BY <1>4 DEF H!Stop
  <2>2. job'.end = "stuck"
    BY <1>2, <2>1 DEF HandoffJob
  <2>3. PICK end \in {"success", "failed", "stuck", "killed"} : end = "stuck"
    OBVIOUS
  <2> QED  BY <1>1, <1>2, <1>4, <2>2, <2>3, Stopped DEF H!HandoffHonest
<1> QED  BY <1>3, <1>4 DEF H!Fail

LEMMA HandoffDies ==
    ASSUME HandoffInv, H!Die
    PROVE  HandoffInv'
<1>1. H!Running /\ H!Stop("killed") /\ UNCHANGED <<source, sound, evidence, fresh>>
  BY DEF H!Die, H!World
<1>2. job \in HandoffJob /\ evidence \in Answered /\ job' = [job EXCEPT !.end = "killed"]
  BY <1>1, HandoffJobIs DEF H!Stop
<1>3. job'.end = "killed"
  BY <1>2 DEF HandoffJob
<1>4. PICK end \in {"success", "failed", "stuck", "killed"} : end = "killed"
  OBVIOUS
<1> QED  BY <1>1, <1>2, <1>3, <1>4, Stopped DEF H!HandoffHonest

\* Others may do what they like: the sources a command may refer to only become more.
LEMMA HandoffMoved ==
    ASSUME HandoffInv, NEW new \in Sources, NEW things, NEW stored \in Answered,
           H!Drift(new, things, stored)
    PROVE  HandoffInv'
<1>1. /\ source' = new /\ sound' = things /\ evidence' = stored /\ fresh' = fresh \cup {new}
      /\ job' = [job EXCEPT !.disturbed = @ \/ evidence' # evidence]
  BY DEF H!Drift
<1>2. job \in HandoffJob /\ HandoffTypes
  BY DEF HandoffInv, HandoffTypes
<1>3. PICK b \in BOOLEAN : b = (job.disturbed \/ evidence' # evidence)
  OBVIOUS
<1>4. job' = [job EXCEPT !.disturbed = b]
  BY <1>1, <1>3
<1>5. /\ job' \in HandoffJob /\ job'.kind = job.kind /\ job'.at = job.at /\ job'.end = job.end
      /\ job'.look = job.look /\ job'.base = job.base /\ job'.receipt = job.receipt
      /\ job'.was = job.was /\ job'.mine = job.mine /\ job'.disturbed = b
  BY <1>2, <1>4 DEF HandoffJob
<1>6. job'.disturbed \/ (evidence' = evidence /\ ~job.disturbed)
  BY <1>3, <1>5
<1>7. HandoffTypes'
  BY <1>1, <1>2, <1>5 DEF HandoffTypes
<1>8. \A look : (CommitSeen(look) => CommitSeen(look)') /\ (FilesSeen(look) => FilesSeen(look)')
  BY <1>1 DEF CommitSeen, FilesSeen
<1>9. H!Running /\ job.kind = "handoff" => HandoffCame'
  <2> SUFFICES ASSUME HandoffCame PROVE HandoffCame'
    BY DEF HandoffInv
  <2>1. PICK look : look = job.look /\ look = job'.look
    BY <1>5
  <2>2. (CommitSeen(job.look) => CommitSeen(job.look)') /\ (FilesSeen(job.look) => FilesSeen(job.look)')
    BY <1>1, <1>5 DEF CommitSeen, FilesSeen
  <2> QED  BY <1>5, <1>6, <2>2 DEF HandoffCame, Repeats
<1>10. H!Running /\ job.kind = "stored" => StoredCame'
  <2> SUFFICES ASSUME StoredCame PROVE StoredCame'
    BY DEF HandoffInv
  <2>1. /\ (CommitSeen(job.look) => CommitSeen(job.look)') /\ (FilesSeen(job.look) => FilesSeen(job.look)')
        /\ (CommitSeen(job.base) => CommitSeen(job.base)') /\ (FilesSeen(job.base) => FilesSeen(job.base)')
    BY <1>1, <1>5 DEF CommitSeen, FilesSeen
  <2> QED  BY <1>5, <1>6, <2>1 DEF StoredCame, Repeats
<1>11. H!HandoffHonest'
  <2>1. /\ H!Current(job.receipt) => H!Current(job.receipt)'
        /\ evidence' = evidence /\ H!Current(evidence) => H!Current(evidence)'
    BY <1>1, <1>5 DEF H!Current
  <2> QED  BY <1>5, <1>6, <2>1 DEF HandoffInv, H!HandoffHonest
<1>12. H!Running' = H!Running /\ source' \in fresh'
  BY <1>1, <1>5 DEF H!Running
<1> QED  BY <1>5, <1>7, <1>9, <1>10, <1>11, <1>12 DEF HandoffInv

LEMMA HandoffBegins ==
    ASSUME HandoffInv, NEW kind \in {"handoff", "stored"}, H!Begin(kind)
    PROVE  HandoffInv'
<1>1. /\ job' = [H!Idle EXCEPT !.kind = kind, !.at = 1, !.was = evidence]
      /\ fresh' = {source} /\ UNCHANGED <<source, sound, evidence>>
  BY DEF H!Begin
<1>2. HandoffTypes /\ evidence \in Answered /\ source \in Sources
  BY DEF HandoffInv, HandoffTypes
<1>3. PICK look \in Looks, r \in Answered, no \in BOOLEAN :
         look = H!NoLook /\ r = H!NoReceipt /\ no = FALSE
  <2>1. PICK z \in SeenVersions : z = 0
    BY DEF SeenVersions
  <2>2. H!NoLook = [commit |-> z, files |-> z]
    BY <2>1 DEF H!NoLook
  <2>3. H!NoLook \in Looks
    BY <2>2 DEF Looks
  <2> QED  BY <2>3, NoReceiptIs
<1>4. job' = [kind |-> kind, at |-> 1, end |-> "none", dir |-> 0, look |-> look, base |-> look,
              receipt |-> r, was |-> evidence, mine |-> no, disturbed |-> no]
  BY <1>1, <1>3 DEF H!Idle
<1>5. job' \in HandoffJob /\ job'.kind = kind /\ job'.at = 1 /\ job'.end = "none" /\ job'.was = evidence
  BY <1>2, <1>4 DEF HandoffJob
<1>6. HandoffTypes'
  BY <1>1, <1>2, <1>5 DEF HandoffTypes, LastStep
<1>7. HandoffCame' /\ StoredCame'
  BY <1>1, <1>5 DEF HandoffCame, StoredCame
<1>8. H!HandoffHonest'
  BY <1>5 DEF H!HandoffHonest
<1> QED  BY <1>1, <1>6, <1>7, <1>8 DEF HandoffInv

LEMMA HandoffStarts == H!HandoffInit => HandoffInv
<1> SUFFICES ASSUME H!HandoffInit PROVE HandoffInv
  OBVIOUS
<1>1. /\ source = [dir |-> 1, commit |-> 1, files |-> 1] /\ evidence = H!NoReceipt
      /\ sound = [authority |-> TRUE, ready |-> TRUE, fixed |-> TRUE]
      /\ job = H!Idle /\ fresh = {}
  BY DEF H!HandoffInit
<1>2. PICK look \in Looks, r \in Answered, no \in BOOLEAN :
         look = H!NoLook /\ r = H!NoReceipt /\ no = FALSE
  <2>1. PICK z \in SeenVersions : z = 0
    BY DEF SeenVersions
  <2>2. H!NoLook = [commit |-> z, files |-> z]
    BY <2>1 DEF H!NoLook
  <2>3. H!NoLook \in Looks
    BY <2>2 DEF Looks
  <2> QED  BY <2>3, NoReceiptIs
<1>3. job = [kind |-> "none", at |-> 0, end |-> "none", dir |-> 0, look |-> look, base |-> look,
             receipt |-> r, was |-> r, mine |-> no, disturbed |-> no]
  BY <1>1, <1>2 DEF H!Idle
<1>4. job \in HandoffJob /\ job.kind = "none" /\ job.end = "none"
  BY <1>3 DEF HandoffJob
<1>5. PICK one \in SeenVersions : one = 1
  BY DEF SeenVersions
<1>6. source \in Sources
  BY <1>1, <1>5 DEF Sources
<1>7. HandoffTypes
  BY <1>1, <1>4, <1>6, NoReceiptIs DEF HandoffTypes
<1> QED  BY <1>4, <1>7 DEF HandoffInv, H!HandoffHonest, H!Running

LEMMA HandoffDrifted ==
    ASSUME HandoffInv, H!Drifts
    PROVE  HandoffInv'
<1>1. source \in Sources /\ evidence \in Answered
  BY DEF HandoffInv, HandoffTypes
<1>2. ASSUME H!Drift([source EXCEPT !.dir = 3 - @], sound, evidence)
      PROVE  HandoffInv'
  <2>1. 3 - source.dir \in {1, 2}
    BY <1>1 DEF Sources
  <2>2. PICK new \in Sources : new = [source EXCEPT !.dir = 3 - @]
    BY <1>1, <2>1 DEF Sources
  <2> QED  BY <1>1, <1>2, <2>2, HandoffMoved
<1>3. ASSUME NEW v \in SourceVersions,
             \/ H!Drift([source EXCEPT !.files = v], sound, evidence)
             \/ H!Drift([source EXCEPT !.commit = v], sound, evidence)
             \/ H!Drift([source EXCEPT !.commit = v, !.files = v], sound, evidence)
      PROVE  HandoffInv'
  <2>1. v \in SeenVersions
    BY DEF SeenVersions
  <2>2. PICK a \in Sources, b \in Sources, ab \in Sources :
           /\ a = [source EXCEPT !.files = v] /\ b = [source EXCEPT !.commit = v]
           /\ ab = [source EXCEPT !.commit = v, !.files = v]
    BY <1>1, <2>1 DEF Sources
  <2> QED  BY <1>1, <1>3, <2>2, HandoffMoved
<1>4. ASSUME NEW what \in DOMAIN sound, H!Drift(source, [sound EXCEPT ![what] = ~@], evidence)
      PROVE  HandoffInv'
  BY <1>1, <1>4, HandoffMoved
<1>5. ASSUME NEW r \in H!Receipts \cup {H!NoReceipt}, H!Drift(source, sound, r)
      PROVE  HandoffInv'
  <2>1. r \in Answered
    BY NoReceiptIs DEF H!Receipts, Answered, SeenVersions
  <2> QED  BY <1>1, <1>5, <2>1, HandoffMoved
<1> QED  BY <1>2, <1>3, <1>4, <1>5 DEF H!Drifts

LEMMA HandoffGoesOn ==
    ASSUME HandoffInv, H!HandoffNext
    PROVE  HandoffInv'
<1>1. ASSUME H!Step PROVE HandoffInv'
  <2>1. CASE H!Write \/ H!Success
    BY <2>1, HandoffWrites, HandoffSucceeds
  <2>2. CASE ~H!Write /\ ~H!Success
    <3>1. PICK s : Moves(s)
      BY <1>1, <2>2, StepMoves
    <3>2. job.kind \in {"handoff", "stored"}
      BY <3>1, HandoffJobIs DEF Moves, HandoffStep
    <3> QED  BY <3>1, <3>2, HandoffMovesOn, StoredMovesOn
  <2> QED  BY <2>1, <2>2
<1>2. ASSUME NEW kind \in DOMAIN H!Script, H!Begin(kind) PROVE HandoffInv'
  <2>1. kind \in {"handoff", "stored"}
    BY DEF H!Script
  <2> QED  BY <1>2, <2>1, HandoffBegins
<1> QED  BY <1>1, <1>2, HandoffFails, HandoffDies, HandoffDrifted DEF H!HandoffNext

(* HandoffHonest of Handoff, for any commits, contents and number of commands *)
(* and drifts: a handoff that succeeds stored a receipt that was still true   *)
(* after it was written, and one that fails leaves the evidence as it was, or *)
(* a receipt as good as that (detached_implement_evidence_handoff).           *)
THEOREM HandoffStaysHonest == Spec => []HandoffHonest
<1> DEFINE Inv == which = "handoff" => HandoffInv
<1>1. Init => Inv
  BY HandoffStarts DEF Init
<1>2. Inv /\ [Next]_vars => Inv'
  <2> SUFFICES ASSUME Inv, [Next]_vars, which' = "handoff" PROVE HandoffInv'
    OBVIOUS
  <2>1. which = "handoff" /\ (UNCHANGED handoffVars \/ H!HandoffNext)
    BY DEF Next, vars
  <2>2. CASE UNCHANGED handoffVars
    <3>1. HandoffInv
      BY <2>1
    <3> QED  BY <2>2, <3>1 DEF handoffVars, HandoffInv, HandoffTypes, HandoffCame, StoredCame,
                Repeats, CommitSeen, FilesSeen, H!Running, H!HandoffHonest, H!Current
  <2> QED  BY <2>1, <2>2, HandoffGoesOn
<1>3. Inv => HandoffHonest
  BY DEF HandoffHonest, HandoffInv
<1> QED  BY <1>1, <1>2, <1>3, PTL DEF Spec

-----------------------------------------------------------------------------
(* SessionCache.  Revisions only grow, so what a reused analysis stands on   *)
(* was there when the call began if it is there when the file is compared.   *)

CacheFiles    == {"x", "y"}
CacheAnalyses == {"outer", "inner"}
Observations  == UNION {[some -> Nat] : some \in SUBSET CacheFiles}
Frames  == [of : CacheAnalyses, at : {"compare", "run", "stat", "read", "verify"}, next : Nat,
            left : SUBSET CacheFiles, seen : Observations, value : Observations]
KeptEntries == [kept : BOOLEAN, seen : Observations, value : Observations]
CacheTypes == /\ read \in [CacheFiles -> Nat]
              /\ texts \in [CacheFiles -> [sig : Nat, text : Nat]]
              /\ kept \in [CacheAnalyses -> KeptEntries]
              /\ stack \in Seq(Frames)
              /\ answer \in [of : CacheAnalyses \cup {"none"}, value : Observations,
                             reused : BOOLEAN]
              /\ past \subseteq [CacheFiles -> Nat] /\ read \in past

AtMostRead(seen) == \A f \in DOMAIN seen : seen[f] <= read[f]
TopFrame    == stack[Len(stack)]
NextOf(fr)  == Nested[fr.of][fr.next]
ReadingNow(f) == stack # <<>> /\ TopFrame.at = "read" /\ NextOf(TopFrame) = f
TextsOK == \A f \in CacheFiles :
              /\ texts[f].sig <= read[f] /\ read[f] # 0
              /\ ReadingNow(f) \/ (texts[f].sig <= texts[f].text /\ texts[f].text <= read[f])
EntryOK(e) == /\ DOMAIN e.value \subseteq DOMAIN e.seen
              /\ \A f \in DOMAIN e.value : e.value[f] = e.seen[f]
              /\ AtMostRead(e.seen)
FrameOK(fr) == /\ DOMAIN fr.value \subseteq DOMAIN fr.seen
               /\ AtMostRead(fr.seen) /\ AtMostRead(fr.value)
               /\ \A f \in DOMAIN fr.value : fr.seen[f] <= fr.value[f]
               /\ fr.at \in {"stat", "read"} =>
                     NextOf(fr) \in CacheFiles /\ NextOf(fr) \in DOMAIN fr.seen
               /\ fr.at = "verify" =>
                     \A f \in DOMAIN fr.value \ fr.left : fr.value[f] = fr.seen[f]
               /\ fr.at = "compare" => kept[fr.of].kept
\* What a frame may know of a file, it saw no earlier than the frame that called it.
After(fr, old) ==
    \A f \in DOMAIN old.seen :
       /\ f \in DOMAIN fr.seen => old.seen[f] <= fr.seen[f]
       /\ fr.at = "compare" /\ f \in DOMAIN kept[fr.of].seen \ fr.left =>
             old.seen[f] <= kept[fr.of].seen[f]
StackOK == /\ \A i \in 1..Len(stack) : FrameOK(stack[i])
           /\ \A i, j \in 1..Len(stack) :
                 i < j => After(stack[j], stack[i]) /\ stack[i].at = "run"
\* The files when the call began.
Witnessed == Len(stack) = 1 /\ TopFrame.at = "compare" =>
    \E p \in past : \A f \in DOMAIN kept[TopFrame.of].seen :
       /\ kept[TopFrame.of].seen[f] <= p[f] /\ p[f] <= read[f]
       /\ f \notin TopFrame.left => p[f] = kept[TopFrame.of].seen[f]
CacheInv == /\ CacheTypes /\ TextsOK /\ StackOK /\ Witnessed
            /\ \A a \in CacheAnalyses : EntryOK(kept[a])
            /\ S!ReuseIsFresh

\* The sequence s with its last element replaced by e.
TopSet(s, e) == Append(SubSeq(s, 1, Len(s) - 1), e)

LEMMA TopSetSeq ==
    ASSUME NEW T, NEW s \in Seq(T), s # <<>>, NEW e \in T
    PROVE  /\ TopSet(s, e) \in Seq(T) /\ Len(TopSet(s, e)) = Len(s) /\ Len(s) \in Nat \ {0}
           /\ TopSet(s, e)[Len(s)] = e /\ TopSet(s, e) # <<>>
           /\ \A i \in 1..Len(s) : i # Len(s) => TopSet(s, e)[i] = s[i]
<1> DEFINE below == SubSeq(s, 1, Len(s) - 1)
<1>1. Len(s) \in Nat \ {0} /\ \A i \in 1..Len(s) : s[i] \in T
  BY EmptySeq, ElementOfSeq
<1>2. /\ below \in Seq(T) /\ Len(below) = Len(s) - 1
      /\ \A i \in 1..(Len(s) - 1) : below[i] = s[i]
  <2>1. \A i \in 1..(Len(s) - 1) : s[i] \in T
    BY <1>1
  <2>2. PICK n \in Nat : n = Len(s) - 1
    BY <1>1
  <2>3. /\ SubSeq(s, 1, n) \in Seq(T) /\ Len(SubSeq(s, 1, n)) = IF 1 <= n THEN n - 1 + 1 ELSE 0
        /\ \A i \in 1..(n - 1 + 1) : SubSeq(s, 1, n)[i] = s[1 + i - 1]
    BY <2>1, <2>2, SubSeqProperties
  <2>4. n - 1 + 1 = n /\ \A i \in 1..n : 1 + i - 1 = i
    BY <2>2
  <2>5. Len(SubSeq(s, 1, n)) = n /\ \A i \in 1..n : SubSeq(s, 1, n)[i] = s[i]
    BY <2>2, <2>3, <2>4
  <2> QED  BY <2>2, <2>3, <2>5
<1> HIDE DEF below
<1>3. /\ Append(below, e) \in Seq(T) /\ Len(Append(below, e)) = Len(below) + 1
      /\ \A i \in 1..Len(below) : Append(below, e)[i] = below[i]
      /\ Append(below, e)[Len(below) + 1] = e /\ Append(below, e) # <<>>
  BY <1>2, AppendProperties
<1>4. PICK top : top = Append(below, e) /\ top = TopSet(s, e)
  BY DEF TopSet, below
<1>5. top \in Seq(T) /\ top # <<>>
  BY <1>3, <1>4
<1>6. PICK n \in Nat \ {0} : n = Len(s)
  BY <1>1
<1>7. Len(below) = n - 1 /\ Len(below) + 1 = n
  BY <1>2, <1>6
<1>8. Len(top) = n /\ top[n] = e
  BY <1>3, <1>4, <1>7
<1>9. ASSUME NEW i \in 1..n, i # n PROVE top[i] = s[i]
  <2>1. i \in 1..Len(below) /\ i \in 1..(Len(s) - 1)
    BY <1>6, <1>7, <1>9
  <2> QED  BY <1>2, <1>3, <1>4, <2>1
<1> QED  BY <1>4, <1>5, <1>6, <1>8, <1>9

LEMMA BelowSeq ==
    ASSUME NEW T, NEW s \in Seq(T), s # <<>>
    PROVE  LET below == SubSeq(s, 1, Len(s) - 1)
           IN /\ below \in Seq(T) /\ Len(below) = Len(s) - 1 /\ Len(s) \in Nat \ {0}
              /\ \A i \in 1..(Len(s) - 1) : below[i] = s[i]
              /\ below = <<>> <=> Len(s) = 1
<1> DEFINE below == SubSeq(s, 1, Len(s) - 1)
<1>1. Len(s) \in Nat \ {0} /\ \A i \in 1..Len(s) : s[i] \in T
  BY EmptySeq, ElementOfSeq
<1>2. /\ below \in Seq(T) /\ Len(below) = Len(s) - 1
      /\ \A i \in 1..(Len(s) - 1) : below[i] = s[i]
  <2>1. \A i \in 1..(Len(s) - 1) : s[i] \in T
    BY <1>1
  <2>2. PICK n \in Nat : n = Len(s) - 1
    BY <1>1
  <2>3. /\ SubSeq(s, 1, n) \in Seq(T) /\ Len(SubSeq(s, 1, n)) = IF 1 <= n THEN n - 1 + 1 ELSE 0
        /\ \A i \in 1..(n - 1 + 1) : SubSeq(s, 1, n)[i] = s[1 + i - 1]
    BY <2>1, <2>2, SubSeqProperties
  <2>4. n - 1 + 1 = n /\ \A i \in 1..n : 1 + i - 1 = i
    BY <2>2
  <2>5. Len(SubSeq(s, 1, n)) = n /\ \A i \in 1..n : SubSeq(s, 1, n)[i] = s[i]
    BY <2>2, <2>3, <2>4
  <2> QED  BY <2>2, <2>3, <2>5
<1> HIDE DEF below
<1>3. below = <<>> <=> Len(below) = 0
  BY <1>2, EmptySeq
<1>4. /\ below \in Seq(T) /\ Len(below) = Len(s) - 1 /\ Len(s) \in Nat \ {0}
      /\ \A i \in 1..(Len(s) - 1) : below[i] = s[i]
      /\ below = <<>> <=> Len(s) = 1
  BY <1>1, <1>2, <1>3
<1> QED  BY <1>4 DEF below

\* What is observed of the files: the first observation counts where two are joined.
LEMMA ObservationsJoin ==
    ASSUME NEW s \in Observations, NEW t \in Observations
    PROVE  /\ S!Joined(s, t) \in Observations /\ DOMAIN S!Joined(s, t) = DOMAIN s \cup DOMAIN t
           /\ \A f \in DOMAIN s : S!Joined(s, t)[f] = s[f]
           /\ \A f \in DOMAIN t : f \notin DOMAIN s => S!Joined(s, t)[f] = t[f]
<1>1. PICK ds \in SUBSET CacheFiles, dt \in SUBSET CacheFiles : s \in [ds -> Nat] /\ t \in [dt -> Nat]
  BY DEF Observations
<1>2. S!Joined(s, t) \in [ds \cup dt -> Nat] /\ ds \cup dt \in SUBSET CacheFiles
  BY <1>1 DEF S!Joined
<1>3. S!Joined(s, t) \in Observations
  BY <1>2 DEF Observations
<1> QED  BY <1>1, <1>2, <1>3 DEF S!Joined

LEMMA OneObserved ==
    ASSUME NEW f \in CacheFiles, NEW n \in Nat
    PROVE  /\ [g \in {f} |-> n] \in Observations /\ DOMAIN [g \in {f} |-> n] = {f}
           /\ [g \in {f} |-> n][f] = n
<1>1. [g \in {f} |-> n] \in [{f} -> Nat] /\ {f} \in SUBSET CacheFiles
  OBVIOUS
<1> QED  BY <1>1 DEF Observations

LEMMA ObservedOf ==
    ASSUME NEW s \in Observations
    PROVE  DOMAIN s \subseteq CacheFiles /\ \A f \in DOMAIN s : s[f] \in Nat
BY DEF Observations

LEMMA NothingObserved == S!Nothing \in Observations /\ DOMAIN S!Nothing = {}
<1>1. DOMAIN <<>> = {}
  OBVIOUS
<1>2. <<>> = [f \in {} |-> 0]
  OBVIOUS
<1>3. [f \in {} |-> 0] \in [{} -> Nat]
  OBVIOUS
<1> QED  BY <1>1, <1>2, <1>3 DEF S!Nothing, Observations

\* The innermost analysis, and what holds of the ones that wait for it.
LEMMA TopIs ==
    ASSUME CacheInv, stack # <<>>
    PROVE  /\ Len(stack) \in Nat \ {0} /\ TopFrame \in Frames /\ FrameOK(TopFrame)
           /\ S!Top = TopFrame /\ S!Todo = NextOf(TopFrame) /\ kept[TopFrame.of] \in KeptEntries
           /\ EntryOK(kept[TopFrame.of])
           /\ \A i \in 1..(Len(stack) - 1) :
                 /\ stack[i] \in Frames /\ FrameOK(stack[i]) /\ stack[i].at = "run"
                 /\ After(TopFrame, stack[i])
<1>1. Len(stack) \in Nat \ {0} /\ \A i \in 1..Len(stack) : stack[i] \in Frames
  BY EmptySeq, ElementOfSeq DEF CacheInv, CacheTypes
<1>2. Len(stack) \in 1..Len(stack) /\ \A i \in 1..(Len(stack) - 1) : i \in 1..Len(stack) /\ i < Len(stack)
  BY <1>1
<1>3. TopFrame \in Frames /\ FrameOK(TopFrame)
  BY <1>1, <1>2 DEF CacheInv, StackOK, TopFrame
<1>4. \A i \in 1..(Len(stack) - 1) : stack[i] \in Frames /\ FrameOK(stack[i])
  BY <1>1, <1>2 DEF CacheInv, StackOK
<1>5. \A i \in 1..(Len(stack) - 1) : stack[i].at = "run" /\ After(TopFrame, stack[i])
  BY <1>1, <1>2 DEF CacheInv, StackOK, TopFrame
<1>6. TopFrame.of \in CacheAnalyses
  BY <1>3 DEF Frames
<1>7. kept[TopFrame.of] \in KeptEntries /\ EntryOK(kept[TopFrame.of])
  BY <1>6 DEF CacheInv, CacheTypes
<1> QED  BY <1>1, <1>3, <1>4, <1>5, <1>7 DEF S!Top, S!Todo, TopFrame, NextOf

\* The innermost analysis goes on: the ones that wait stay as they are.
LEMMA TopSwapped ==
    ASSUME CacheInv, stack # <<>>, NEW fr \in Frames, S!Puts(fr), read' = read, kept' = kept,
           FrameOK(fr), \A i \in 1..(Len(stack) - 1) : After(fr, stack[i])
    PROVE  stack' \in Seq(Frames) /\ StackOK' /\ Len(stack') = Len(stack) /\ TopFrame' = fr
           /\ stack' # <<>>
<1>1. stack' = TopSet(stack, fr)
  BY DEF S!Puts, S!Below, TopSet
<1>2. stack \in Seq(Frames)
  BY DEF CacheInv, CacheTypes
<1>3. /\ stack' \in Seq(Frames) /\ Len(stack') = Len(stack) /\ Len(stack) \in Nat \ {0}
      /\ stack'[Len(stack)] = fr /\ stack' # <<>>
      /\ \A i \in 1..Len(stack) : i # Len(stack) => stack'[i] = stack[i]
  <2>1. /\ TopSet(stack, fr) \in Seq(Frames) /\ Len(TopSet(stack, fr)) = Len(stack)
        /\ Len(stack) \in Nat \ {0} /\ TopSet(stack, fr)[Len(stack)] = fr
        /\ TopSet(stack, fr) # <<>>
        /\ \A i \in 1..Len(stack) : i # Len(stack) => TopSet(stack, fr)[i] = stack[i]
    <3>1. stack # <<>> /\ fr \in Frames
      OBVIOUS
    <3> QED  BY <1>2, <3>1, TopSetSeq, SMT
  <2> QED  BY <1>1, <2>1
<1>4. \A i \in 1..(Len(stack) - 1) : FrameOK(stack[i]) /\ stack[i].at = "run"
  BY TopIs
<1>5. ASSUME NEW i \in 1..Len(stack') PROVE FrameOK(stack[i])'
  <2>1. PICK g : g = stack'[i]
    OBVIOUS
  <2>2. FrameOK(g)
    <3>1. CASE i = Len(stack)
      BY <1>3, <2>1, <3>1
    <3>2. CASE i # Len(stack)
      BY <1>3, <1>4, <2>1, <3>2
    <3> QED  BY <3>1, <3>2
  <2>3. FrameOK(g)'
    BY <2>2 DEF FrameOK, AtMostRead
  <2> QED  BY <2>1, <2>3
<1>6. ASSUME NEW i \in 1..Len(stack'), NEW j \in 1..Len(stack'), i < j
      PROVE  After(stack[j], stack[i])' /\ stack'[i].at = "run"
  <2>1. i # Len(stack) /\ stack'[i] = stack[i] /\ i \in 1..(Len(stack) - 1)
    BY <1>3, <1>6
  <2>2. PICK g, h : g = stack'[j] /\ h = stack'[i]
    OBVIOUS
  <2>3. After(g, h)
    <3>1. CASE j = Len(stack)
      BY <1>3, <2>1, <2>2, <3>1
    <3>2. CASE j # Len(stack)
      BY <1>3, <2>1, <2>2, <3>2, <1>6 DEF CacheInv, StackOK
    <3> QED  BY <3>1, <3>2
  <2>4. After(g, h)'
    BY <2>3 DEF After
  <2> QED  BY <1>4, <2>1, <2>2, <2>4
<1>7. StackOK'
  BY <1>5, <1>6 DEF StackOK
<1> QED  BY <1>3, <1>7 DEF TopFrame

\* What is left to show when only the stack moves.
LEMMA QuietRest ==
    ASSUME CacheInv, UNCHANGED <<read, texts, kept, answer, past>>, stack' \in Seq(Frames), StackOK',
           \A f \in CacheFiles : ~ReadingNow(f), Witnessed'
    PROVE  CacheInv'
<1>1. CacheTypes'
  BY DEF CacheInv, CacheTypes
<1>2. TextsOK'
  BY DEF CacheInv, TextsOK
<1>3. \A a \in CacheAnalyses : EntryOK(kept[a])'
  BY DEF CacheInv, EntryOK, AtMostRead
<1>4. S!ReuseIsFresh'
  BY DEF CacheInv, S!ReuseIsFresh
<1> QED  BY <1>1, <1>2, <1>3, <1>4 DEF CacheInv

LEMMA CompareStep ==
    ASSUME CacheInv, NEW f \in CacheFiles, S!Compare(f)
    PROVE  CacheInv'
<1> DEFINE e == kept[TopFrame.of]
<1>1. /\ stack # <<>> /\ TopFrame.at = "compare" /\ f \in TopFrame.left
      /\ UNCHANGED <<read, texts, kept, answer, past>>
      /\ S!Puts(IF read[f] = e.seen[f] THEN [TopFrame EXCEPT !.left = @ \ {f}]
                                       ELSE [TopFrame EXCEPT !.at = "run", !.left = {}])
  BY DEF S!Compare, S!Top, TopFrame
<1>2. \A g \in CacheFiles : ~ReadingNow(g)
  BY <1>1 DEF ReadingNow
<1>3. /\ TopFrame \in Frames /\ FrameOK(TopFrame) /\ e \in KeptEntries /\ EntryOK(e)
      /\ \A i \in 1..(Len(stack) - 1) :
            /\ stack[i] \in Frames /\ FrameOK(stack[i]) /\ stack[i].at = "run"
            /\ After(TopFrame, stack[i])
  BY <1>1, TopIs
<1>4. CASE read[f] = e.seen[f]
  <2>1. PICK fr \in Frames : fr = [TopFrame EXCEPT !.left = @ \ {f}]
    BY <1>3 DEF Frames
  <2>2. /\ fr.of = TopFrame.of /\ fr.at = "compare" /\ fr.left = TopFrame.left \ {f}
        /\ fr.seen = TopFrame.seen /\ fr.value = TopFrame.value
    BY <1>1, <1>3, <2>1 DEF Frames
  <2>3. FrameOK(fr)
    BY <1>1, <1>3, <2>2 DEF FrameOK
  <2>4. \A i \in 1..(Len(stack) - 1) : After(fr, stack[i])
    <3> SUFFICES ASSUME NEW i \in 1..(Len(stack) - 1) PROVE After(fr, stack[i])
      OBVIOUS
    <3>1. After(TopFrame, stack[i]) /\ AtMostRead(stack[i].seen)
      BY <1>3 DEF FrameOK
    <3> QED  BY <1>1, <1>4, <2>2, <3>1 DEF After, AtMostRead
  <2>5. stack' \in Seq(Frames) /\ StackOK' /\ Len(stack') = Len(stack) /\ TopFrame' = fr
    BY <1>1, <1>4, <2>1, <2>3, <2>4, TopSwapped
  <2>6. Witnessed'
    <3> SUFFICES ASSUME Len(stack) = 1
                 PROVE  \E p \in past : \A g \in DOMAIN e.seen :
                           /\ e.seen[g] <= p[g] /\ p[g] <= read[g]
                           /\ g \notin fr.left => p[g] = e.seen[g]
      BY <1>1, <2>2, <2>5 DEF Witnessed
    <3>1. PICK p \in past : \A g \in DOMAIN e.seen :
                               /\ e.seen[g] <= p[g] /\ p[g] <= read[g]
                               /\ g \notin TopFrame.left => p[g] = e.seen[g]
      BY <1>1 DEF CacheInv, Witnessed
    <3>2. p[f] \in Nat /\ read[f] \in Nat
      BY DEF CacheInv, CacheTypes
    <3> QED  BY <1>4, <2>2, <3>1, <3>2
  <2> QED  BY <1>1, <1>2, <2>5, <2>6, QuietRest
<1>5. CASE read[f] # e.seen[f]
  <2>1. PICK fr \in Frames : fr = [TopFrame EXCEPT !.at = "run", !.left = {}]
    BY <1>3 DEF Frames
  <2>2. fr.at = "run" /\ fr.seen = TopFrame.seen /\ fr.value = TopFrame.value
    BY <1>3, <2>1 DEF Frames
  <2>3. FrameOK(fr)
    BY <1>3, <2>2 DEF FrameOK
  <2>4. \A i \in 1..(Len(stack) - 1) : After(fr, stack[i])
    BY <1>3, <2>2 DEF After
  <2>5. stack' \in Seq(Frames) /\ StackOK' /\ Len(stack') = Len(stack) /\ TopFrame' = fr
    BY <1>1, <1>5, <2>1, <2>3, <2>4, TopSwapped
  <2> QED  BY <1>1, <1>2, <2>2, <2>5, QuietRest DEF Witnessed
<1> QED  BY <1>4, <1>5

LEMMA FrameIs ==
    ASSUME CacheInv, NEW a \in CacheAnalyses
    PROVE  /\ S!Frame(a) \in Frames /\ S!Frame(a).of = a
           /\ S!Frame(a).at = IF kept[a].kept THEN "compare" ELSE "run"
           /\ S!Frame(a).left = DOMAIN kept[a].seen
           /\ DOMAIN S!Frame(a).seen = {} /\ DOMAIN S!Frame(a).value = {}
           /\ FrameOK(S!Frame(a))
<1>1. kept[a] \in KeptEntries
  BY DEF CacheInv, CacheTypes
<1>2. kept[a].seen \in Observations
  BY <1>1 DEF KeptEntries
<1>3. DOMAIN kept[a].seen \in SUBSET CacheFiles
  BY <1>2, ObservedOf
<1>4. PICK none \in Observations : none = S!Nothing /\ DOMAIN none = {}
  BY NothingObserved
<1>5. PICK at \in {"compare", "run"} : at = IF kept[a].kept THEN "compare" ELSE "run"
  OBVIOUS
<1>6. S!Frame(a) = [of |-> a, at |-> at, next |-> 1, left |-> DOMAIN kept[a].seen,
                    seen |-> none, value |-> none]
  BY <1>4, <1>5 DEF S!Frame
<1>7. S!Frame(a) \in Frames
  BY <1>3, <1>6 DEF Frames
<1>8. FrameOK(S!Frame(a))
  BY <1>4, <1>5, <1>6 DEF FrameOK, AtMostRead
<1> QED  BY <1>4, <1>5, <1>6, <1>7, <1>8

LEMMA NestedStep ==
    ASSUME CacheInv, S!Nested
    PROVE  CacheInv'
<1>1. /\ stack # <<>> /\ TopFrame.at = "run" /\ S!Todo \in CacheAnalyses
      /\ stack' = Append(stack, S!Frame(S!Todo)) /\ UNCHANGED <<read, texts, kept, answer, past>>
  BY DEF S!Nested, S!Runs, S!Top, TopFrame, CacheAnalyses
<1>2. PICK a \in CacheAnalyses : a = S!Todo
  BY <1>1
<1>3. PICK fr \in Frames :
         /\ fr = S!Frame(a) /\ fr.of = a /\ fr.at = IF kept[a].kept THEN "compare" ELSE "run"
         /\ fr.left = DOMAIN kept[a].seen /\ DOMAIN fr.seen = {} /\ FrameOK(fr)
  BY FrameIs
<1>4. stack \in Seq(Frames) /\ Len(stack) \in Nat \ {0} /\ FrameOK(TopFrame)
  BY <1>1, TopIs DEF CacheInv, CacheTypes
<1>5. /\ stack' \in Seq(Frames) /\ Len(stack') = Len(stack) + 1
      /\ \A i \in 1..Len(stack) : stack'[i] = stack[i]
      /\ stack'[Len(stack) + 1] = fr
  BY <1>1, <1>2, <1>3, <1>4, AppendProperties
<1>6. \A i \in 1..Len(stack) : FrameOK(stack[i]) /\ stack[i].at = "run"
  BY <1>1, <1>4, TopIs DEF CacheInv, StackOK, TopFrame
<1>7. ASSUME NEW i \in 1..Len(stack') PROVE FrameOK(stack[i])'
  <2>1. PICK g : g = stack'[i]
    OBVIOUS
  <2>2. FrameOK(g)
    BY <1>3, <1>4, <1>5, <1>6, <2>1
  <2>3. FrameOK(g)'
    BY <1>1, <2>2 DEF FrameOK, AtMostRead
  <2> QED  BY <2>1, <2>3
<1>8. ASSUME NEW i \in 1..Len(stack'), NEW j \in 1..Len(stack'), i < j
      PROVE  After(stack[j], stack[i])' /\ stack'[i].at = "run"
  <2>1. i \in 1..Len(stack) /\ stack'[i] = stack[i]
    BY <1>4, <1>5, <1>8
  <2>2. PICK g, h : g = stack'[j] /\ h = stack'[i]
    OBVIOUS
  <2>3. After(g, h)
    <3>1. CASE j = Len(stack) + 1
      BY <1>3, <1>5, <2>2, <3>1 DEF After
    <3>2. CASE j # Len(stack) + 1
      BY <1>4, <1>5, <2>1, <2>2, <3>2, <1>8 DEF CacheInv, StackOK
    <3> QED  BY <3>1, <3>2
  <2>4. After(g, h)'
    BY <1>1, <2>3 DEF After
  <2> QED  BY <1>6, <2>1, <2>2, <2>4
<1>9. StackOK' /\ Witnessed'
  BY <1>4, <1>5, <1>7, <1>8 DEF StackOK, Witnessed
<1>10. \A f \in CacheFiles : ~ReadingNow(f)
  BY <1>1 DEF ReadingNow
<1> QED  BY <1>1, <1>5, <1>9, <1>10, QuietRest

LEMMA ObserveStep ==
    ASSUME CacheInv, S!ObservePath
    PROVE  CacheInv'
<1>1. /\ stack # <<>> /\ TopFrame.at = "run" /\ S!Todo \in CacheFiles
      /\ UNCHANGED <<read, texts, kept, answer, past>>
      /\ S!Puts([TopFrame EXCEPT !.seen = S!Observed(@, S!Todo, read[S!Todo]), !.at = "stat"])
  BY DEF S!ObservePath, S!Runs, S!Top, TopFrame, CacheFiles
<1>2. /\ TopFrame \in Frames /\ FrameOK(TopFrame) /\ S!Todo = NextOf(TopFrame)
      /\ \A i \in 1..(Len(stack) - 1) :
            stack[i] \in Frames /\ FrameOK(stack[i]) /\ After(TopFrame, stack[i])
  BY <1>1, TopIs
<1>3. PICK f \in CacheFiles : f = S!Todo
  BY <1>1
<1>4. PICK one \in Observations : one = [g \in {f} |-> read[f]] /\ DOMAIN one = {f} /\ one[f] = read[f]
  <2>1. read[f] \in Nat
    BY DEF CacheInv, CacheTypes
  <2> QED  BY <2>1, OneObserved
<1>5. TopFrame.seen \in Observations
  BY <1>2 DEF Frames
<1>6. PICK seen \in Observations :
         /\ seen = S!Observed(TopFrame.seen, f, read[f]) /\ DOMAIN seen = DOMAIN TopFrame.seen \cup {f}
         /\ \A g \in DOMAIN TopFrame.seen : seen[g] = TopFrame.seen[g]
         /\ f \notin DOMAIN TopFrame.seen => seen[f] = read[f]
  <2>1. PICK seen : seen = S!Joined(TopFrame.seen, one)
    OBVIOUS
  <2>2. /\ seen \in Observations /\ DOMAIN seen = DOMAIN TopFrame.seen \cup {f}
        /\ \A g \in DOMAIN TopFrame.seen : seen[g] = TopFrame.seen[g]
        /\ f \notin DOMAIN TopFrame.seen => seen[f] = read[f]
    BY <1>4, <1>5, <2>1, ObservationsJoin
  <2> QED  BY <1>4, <2>1, <2>2 DEF S!Observed
<1>7. PICK fr \in Frames : fr = [TopFrame EXCEPT !.seen = seen, !.at = "stat"]
  BY <1>2 DEF Frames
<1>8. /\ fr.of = TopFrame.of /\ fr.at = "stat" /\ fr.seen = seen /\ fr.value = TopFrame.value
      /\ fr.next = TopFrame.next
  BY <1>2, <1>7 DEF Frames
<1>9. S!Puts(fr)
  BY <1>1, <1>3, <1>6, <1>7
<1>10. FrameOK(fr)
  <2>1. read[f] \in Nat /\ NextOf(fr) = f
    BY <1>2, <1>3, <1>8 DEF CacheInv, CacheTypes, NextOf
  <2> QED  BY <1>2, <1>6, <1>8, <2>1 DEF FrameOK, AtMostRead
<1>11. \A i \in 1..(Len(stack) - 1) : After(fr, stack[i])
  <2> SUFFICES ASSUME NEW i \in 1..(Len(stack) - 1) PROVE After(fr, stack[i])
    OBVIOUS
  <2>1. After(TopFrame, stack[i]) /\ AtMostRead(stack[i].seen)
    BY <1>2 DEF FrameOK
  <2> QED  BY <1>6, <1>8, <2>1 DEF After, AtMostRead
<1>12. stack' \in Seq(Frames) /\ StackOK' /\ Len(stack') = Len(stack) /\ TopFrame' = fr
  BY <1>1, <1>9, <1>10, <1>11, TopSwapped
<1>13. \A g \in CacheFiles : ~ReadingNow(g)
  BY <1>1 DEF ReadingNow
<1> QED  BY <1>1, <1>8, <1>12, <1>13, QuietRest DEF Witnessed

LEMMA VerifyStep ==
    ASSUME CacheInv, S!Verify
    PROVE  CacheInv'
<1>1. /\ stack # <<>> /\ TopFrame.at = "run" /\ UNCHANGED <<read, texts, kept, answer, past>>
      /\ S!Puts([TopFrame EXCEPT !.at = "verify", !.left = DOMAIN TopFrame.seen])
  BY DEF S!Verify, S!Top, TopFrame
<1>2. /\ TopFrame \in Frames /\ FrameOK(TopFrame)
      /\ \A i \in 1..(Len(stack) - 1) : After(TopFrame, stack[i])
  BY <1>1, TopIs
<1>3. DOMAIN TopFrame.seen \in SUBSET CacheFiles
  BY <1>2, ObservedOf DEF Frames
<1>4. PICK fr \in Frames : fr = [TopFrame EXCEPT !.at = "verify", !.left = DOMAIN TopFrame.seen]
  BY <1>2, <1>3 DEF Frames
<1>5. /\ fr.at = "verify" /\ fr.left = DOMAIN TopFrame.seen /\ fr.seen = TopFrame.seen
      /\ fr.value = TopFrame.value
  BY <1>2, <1>4 DEF Frames
<1>6. FrameOK(fr) /\ \A i \in 1..(Len(stack) - 1) : After(fr, stack[i])
  BY <1>2, <1>5 DEF FrameOK, After
<1>7. stack' \in Seq(Frames) /\ StackOK' /\ Len(stack') = Len(stack) /\ TopFrame' = fr
  BY <1>1, <1>4, <1>6, TopSwapped
<1>8. \A g \in CacheFiles : ~ReadingNow(g)
  BY <1>1 DEF ReadingNow
<1> QED  BY <1>1, <1>5, <1>7, <1>8, QuietRest DEF Witnessed

\* The innermost analysis has its text: what it says of the file is what the file is now.
LEMMA TextGot ==
    ASSUME CacheInv, stack # <<>>, TopFrame.at \in {"stat", "read"}, S!Todo \in CacheFiles,
           S!GotText(read[S!Todo]), UNCHANGED <<read, kept>>
    PROVE  stack' \in Seq(Frames) /\ StackOK' /\ Witnessed' /\ \A f \in CacheFiles : ~ReadingNow(f)'
<1>1. /\ TopFrame \in Frames /\ FrameOK(TopFrame) /\ S!Todo = NextOf(TopFrame) /\ S!Top = TopFrame
      /\ \A i \in 1..(Len(stack) - 1) : After(TopFrame, stack[i])
  BY TopIs
<1>2. PICK f \in CacheFiles : f = S!Todo
  OBVIOUS
<1>3. PICK one \in Observations : one = [g \in {f} |-> read[f]] /\ DOMAIN one = {f} /\ one[f] = read[f]
  <2>1. read[f] \in Nat
    BY DEF CacheInv, CacheTypes
  <2> QED  BY <2>1, OneObserved
<1>4. TopFrame.value \in Observations /\ TopFrame.next + 1 \in Nat
  BY <1>1 DEF Frames
<1>5. PICK value : value = S!Joined(one, TopFrame.value)
  OBVIOUS
<1>6. /\ value \in Observations /\ DOMAIN value = DOMAIN TopFrame.value \cup {f}
      /\ \A g \in DOMAIN TopFrame.value : g # f => value[g] = TopFrame.value[g]
      /\ value[f] = read[f]
  <2>1. /\ value \in Observations /\ DOMAIN value = DOMAIN one \cup DOMAIN TopFrame.value
        /\ \A g \in DOMAIN one : value[g] = one[g]
        /\ \A g \in DOMAIN TopFrame.value : g \notin DOMAIN one => value[g] = TopFrame.value[g]
    BY <1>4, <1>5, ObservationsJoin
  <2> QED  BY <1>3, <2>1
<1>7. PICK fr \in Frames : fr = [TopFrame EXCEPT !.value = value, !.at = "run", !.next = @ + 1]
  BY <1>1, <1>4, <1>6 DEF Frames
<1>8. fr.at = "run" /\ fr.seen = TopFrame.seen /\ fr.value = value
  BY <1>1, <1>7 DEF Frames
<1>9. S!Puts(fr)
  BY <1>1, <1>2, <1>3, <1>5, <1>7 DEF S!GotText
<1>10. FrameOK(fr)
  <2>1. f \in DOMAIN TopFrame.seen /\ TopFrame.seen[f] <= read[f] /\ read[f] \in Nat
    BY <1>1, <1>2 DEF FrameOK, AtMostRead, CacheInv, CacheTypes
  <2> QED  BY <1>1, <1>6, <1>8, <2>1 DEF FrameOK, AtMostRead
<1>11. \A i \in 1..(Len(stack) - 1) : After(fr, stack[i])
  BY <1>1, <1>8 DEF After
<1>12. stack' \in Seq(Frames) /\ StackOK' /\ Len(stack') = Len(stack) /\ TopFrame' = fr
  BY <1>9, <1>10, <1>11, TopSwapped
<1> QED  BY <1>8, <1>12 DEF Witnessed, ReadingNow

LEMMA TextIs ==
    ASSUME CacheInv, stack # <<>>, TopFrame.at \in {"stat", "read"}
    PROVE  S!Todo \in CacheFiles /\ S!Todo = NextOf(TopFrame)
BY TopIs DEF FrameOK

LEMMA StatStep ==
    ASSUME CacheInv, S!Stat
    PROVE  CacheInv'
<1>1. stack # <<>> /\ TopFrame.at = "stat" /\ UNCHANGED <<read, kept, answer, past>>
  BY DEF S!Stat, S!Top, TopFrame
<1>2. PICK f \in CacheFiles : f = S!Todo /\ f = NextOf(TopFrame)
  BY <1>1, TextIs
<1>3. /\ texts[f] \in [sig : Nat, text : Nat] /\ read[f] \in Nat /\ read[f] # 0
      /\ texts \in [CacheFiles -> [sig : Nat, text : Nat]]
      /\ \A g \in CacheFiles : ~ReadingNow(g)
      /\ \A g \in CacheFiles :
            /\ texts[g].sig <= texts[g].text /\ texts[g].text <= read[g] /\ read[g] # 0
            /\ texts[g].sig <= read[g]
  BY <1>1 DEF CacheInv, CacheTypes, TextsOK, ReadingNow
<1>4. S!ReuseIsFresh' /\ \A a \in CacheAnalyses : EntryOK(kept[a])'
  BY <1>1 DEF CacheInv, S!ReuseIsFresh, EntryOK, AtMostRead
<1>5. CASE texts[f].sig = read[f]
  <2>1. S!GotText(texts[f].text) /\ UNCHANGED texts
    BY <1>2, <1>5 DEF S!Stat
  <2>2. texts[f].text = read[f]
    BY <1>3, <1>5
  <2>3. stack' \in Seq(Frames) /\ StackOK' /\ Witnessed'
    BY <1>1, <1>2, <2>1, <2>2, TextGot
  <2>4. CacheTypes' /\ TextsOK'
    BY <1>1, <1>3, <2>1, <2>3 DEF CacheInv, CacheTypes, TextsOK
  <2> QED  BY <1>4, <2>3, <2>4 DEF CacheInv
<1>6. CASE texts[f].sig # read[f]
  <2>1. /\ texts' = [texts EXCEPT ![f] = [sig |-> read[f], text |-> 0]]
        /\ S!Puts([TopFrame EXCEPT !.at = "read"])
    BY <1>2, <1>6 DEF S!Stat, S!Top, TopFrame
  <2>2. /\ TopFrame \in Frames /\ FrameOK(TopFrame)
        /\ \A i \in 1..(Len(stack) - 1) : After(TopFrame, stack[i])
    BY <1>1, TopIs
  <2>3. PICK fr \in Frames : fr = [TopFrame EXCEPT !.at = "read"]
    BY <2>2 DEF Frames
  <2>4. /\ fr.at = "read" /\ fr.seen = TopFrame.seen /\ fr.value = TopFrame.value
        /\ fr.of = TopFrame.of /\ fr.next = TopFrame.next
    BY <2>2, <2>3 DEF Frames
  <2>5. FrameOK(fr) /\ \A i \in 1..(Len(stack) - 1) : After(fr, stack[i])
    BY <1>1, <2>2, <2>4 DEF FrameOK, After, NextOf
  <2>6. stack' \in Seq(Frames) /\ StackOK' /\ stack' # <<>> /\ TopFrame' = fr
    BY <1>1, <2>1, <2>3, <2>5, TopSwapped
  <2>7. ReadingNow(f)' /\ Witnessed'
    BY <1>2, <2>4, <2>6 DEF ReadingNow, NextOf, Witnessed
  <2>8. PICK t \in [sig : Nat, text : Nat] : t = [sig |-> read[f], text |-> 0] /\ t.sig = read[f]
    <3>1. 0 \in Nat
      OBVIOUS
    <3>2. PICK n \in Nat, z \in Nat : n = read[f] /\ z = 0
      BY <1>3, <3>1
    <3>3. [sig |-> n, text |-> z] \in [sig : Nat, text : Nat] /\ [sig |-> n, text |-> z].sig = n
      OBVIOUS
    <3> QED  BY <3>2, <3>3
  <2>9. /\ texts' \in [CacheFiles -> [sig : Nat, text : Nat]] /\ texts'[f].sig = read[f]
        /\ \A g \in CacheFiles : g # f => texts'[g] = texts[g]
    BY <1>3, <2>1, <2>8
  <2>10. CacheTypes'
    BY <1>1, <2>6, <2>9 DEF CacheInv, CacheTypes
  <2>11. TextsOK'
    BY <1>1, <1>3, <2>7, <2>9 DEF TextsOK
  <2> QED  BY <1>4, <2>6, <2>7, <2>10, <2>11 DEF CacheInv
<1> QED  BY <1>5, <1>6

LEMMA ReadStep ==
    ASSUME CacheInv, S!ReadText
    PROVE  CacheInv'
<1>1. stack # <<>> /\ TopFrame.at = "read" /\ UNCHANGED <<read, kept, answer, past>>
  BY DEF S!ReadText, S!Top, TopFrame
<1>2. PICK f \in CacheFiles : f = S!Todo /\ f = NextOf(TopFrame)
  BY <1>1, TextIs
<1>3. texts' = [texts EXCEPT ![f].text = read[f]] /\ S!GotText(read[f])
  BY <1>2 DEF S!ReadText
<1>4. stack' \in Seq(Frames) /\ StackOK' /\ Witnessed'
  BY <1>1, <1>2, <1>3, TextGot
<1>5. /\ texts \in [CacheFiles -> [sig : Nat, text : Nat]] /\ read[f] \in Nat
      /\ \A g \in CacheFiles : texts[g].sig <= read[g] /\ read[g] # 0
      /\ \A g \in CacheFiles : g # f => texts[g].sig <= texts[g].text /\ texts[g].text <= read[g]
  BY <1>2 DEF CacheInv, CacheTypes, TextsOK, ReadingNow
<1>6. PICK t \in [sig : Nat, text : Nat] :
         t = [texts[f] EXCEPT !.text = read[f]] /\ t.sig = texts[f].sig /\ t.text = read[f]
  <2>1. PICK u \in [sig : Nat, text : Nat], n \in Nat : u = texts[f] /\ n = read[f]
    BY <1>5
  <2>2. PICK t : t = [u EXCEPT !.text = n]
    OBVIOUS
  <2>3. t \in [sig : Nat, text : Nat] /\ t.sig = u.sig /\ t.text = n
    BY <2>2
  <2> QED  BY <2>1, <2>2, <2>3
<1>7. texts' = [texts EXCEPT ![f] = t]
  BY <1>3, <1>5, <1>6
<1>8. /\ texts' \in [CacheFiles -> [sig : Nat, text : Nat]] /\ texts'[f] = t
      /\ \A g \in CacheFiles : g # f => texts'[g] = texts[g]
  BY <1>5, <1>7
<1>9. CacheTypes' /\ TextsOK'
  <2>1. CacheTypes'
    BY <1>1, <1>4, <1>8 DEF CacheInv, CacheTypes
  <2>2. \A g \in CacheFiles :
           /\ texts'[g].sig <= read[g] /\ read[g] # 0
           /\ texts'[g].sig <= texts'[g].text /\ texts'[g].text <= read[g]
    BY <1>5, <1>6, <1>8
  <2> QED  BY <1>1, <2>1, <2>2 DEF TextsOK
<1>10. S!ReuseIsFresh' /\ \A a \in CacheAnalyses : EntryOK(kept[a])'
  BY <1>1 DEF CacheInv, S!ReuseIsFresh, EntryOK, AtMostRead
<1> QED  BY <1>4, <1>9, <1>10 DEF CacheInv

\* The innermost analysis is over: the one that called it goes on with what it found.
LEMMA Returned ==
    ASSUME CacheInv, stack # <<>>, NEW value \in Observations, NEW seen \in Observations,
           NEW reused \in BOOLEAN, S!Return(value, seen, reused), read' = read,
           DOMAIN value \subseteq DOMAIN seen, AtMostRead(value), AtMostRead(seen),
           \A f \in DOMAIN value : seen[f] <= value[f],
           \A i \in 1..(Len(stack) - 1) : \A f \in DOMAIN stack[i].seen :
              f \in DOMAIN seen => stack[i].seen[f] <= seen[f]
    PROVE  /\ stack' \in Seq(Frames) /\ StackOK' /\ Witnessed'
           /\ \A f \in CacheFiles : ~ReadingNow(f)'
           /\ \/ /\ Len(stack) = 1
                 /\ answer' = [of |-> TopFrame.of, value |-> value, reused |-> reused]
              \/ answer' = answer
<1>1. /\ S!Top = TopFrame /\ Len(stack) \in Nat \ {0} /\ stack \in Seq(Frames)
      /\ \A i \in 1..(Len(stack) - 1) :
            stack[i] \in Frames /\ FrameOK(stack[i]) /\ stack[i].at = "run"
  BY TopIs DEF CacheInv, CacheTypes
<1>2. PICK below : below = S!Below
  OBVIOUS
<1>3. /\ below \in Seq(Frames) /\ Len(below) = Len(stack) - 1
      /\ \A i \in 1..(Len(stack) - 1) : below[i] = stack[i]
      /\ below = <<>> <=> Len(stack) = 1
  BY <1>1, <1>2, BelowSeq DEF S!Below
<1>4. CASE below = <<>>
  <2>1. stack' = <<>> /\ answer' = [of |-> TopFrame.of, value |-> value, reused |-> reused]
    BY <1>1, <1>2, <1>4 DEF S!Return
  <2>2. stack' \in Seq(Frames) /\ Len(stack') = 0
    BY <2>1, EmptySeq
  <2> QED  BY <1>3, <1>4, <2>1, <2>2 DEF StackOK, Witnessed, ReadingNow
<1>5. CASE below # <<>>
  <2>1. PICK n \in 1..(Len(stack) - 1) : n = Len(below) /\ n = Len(stack) - 1
    BY <1>1, <1>3, <1>5
  <2>2. PICK old \in Frames : old = below[n] /\ old = stack[n] /\ FrameOK(old) /\ old.at = "run"
    BY <1>1, <1>3, <2>1
  <2>3. /\ stack' = [below EXCEPT ![n].next = @ + 1, ![n].value = S!Joined(value, @),
                       ![n].seen = IF reused THEN S!Tells(@, seen) ELSE S!Joined(@, seen)]
        /\ answer' = answer
    BY <1>2, <1>5, <2>1 DEF S!Return
  <2>4. PICK told, found : told = S!Joined(old.seen, seen) /\ found = S!Joined(value, old.value)
    OBVIOUS
  <2>5. old.seen \in Observations /\ old.value \in Observations /\ old.next + 1 \in Nat
    BY <2>2 DEF Frames
  <2>6. /\ told \in Observations /\ DOMAIN told = DOMAIN old.seen \cup DOMAIN seen
        /\ \A f \in DOMAIN old.seen : told[f] = old.seen[f]
        /\ \A f \in DOMAIN seen : f \notin DOMAIN old.seen => told[f] = seen[f]
    <3>1. PICK first \in Observations : first = old.seen
      BY <2>5
    <3>2. /\ told \in Observations /\ DOMAIN told = DOMAIN first \cup DOMAIN seen
          /\ \A f \in DOMAIN first : told[f] = first[f]
          /\ \A f \in DOMAIN seen : f \notin DOMAIN first => told[f] = seen[f]
      <4>1. PICK both : both = S!Joined(first, seen)
        OBVIOUS
      <4>2. /\ both \in Observations /\ DOMAIN both = DOMAIN first \cup DOMAIN seen
            /\ \A f \in DOMAIN first : both[f] = first[f]
            /\ \A f \in DOMAIN seen : f \notin DOMAIN first => both[f] = seen[f]
        BY <4>1, ObservationsJoin
      <4>3. told = both
        BY <2>4, <3>1, <4>1
      <4> QED  BY <4>2, <4>3
    <3> QED  BY <3>1, <3>2
  <2>7. /\ found \in Observations /\ DOMAIN found = DOMAIN value \cup DOMAIN old.value
        /\ \A f \in DOMAIN value : found[f] = value[f]
        /\ \A f \in DOMAIN old.value : f \notin DOMAIN value => found[f] = old.value[f]
    <3>1. PICK first \in Observations : first = old.value
      BY <2>5
    <3>2. PICK both : both = S!Joined(value, first)
      OBVIOUS
    <3>3. /\ both \in Observations /\ DOMAIN both = DOMAIN value \cup DOMAIN first
          /\ \A f \in DOMAIN value : both[f] = value[f]
          /\ \A f \in DOMAIN first : f \notin DOMAIN value => both[f] = first[f]
      BY <3>2, ObservationsJoin
    <3>4. found = both
      BY <2>4, <3>1, <3>2
    <3> QED  BY <3>1, <3>3, <3>4
  <2>8. PICK fr \in Frames : fr = [old EXCEPT !.next = @ + 1, !.value = found, !.seen = told]
    BY <2>2, <2>5, <2>6, <2>7 DEF Frames
  <2>9. fr.at = "run" /\ fr.seen = told /\ fr.value = found
    BY <2>2, <2>8 DEF Frames
  <2>10. stack' = [below EXCEPT ![n] = fr]
    <3>1. below \in [1..n -> Frames]
      BY <1>3, <2>1, LenProperties
    <3>2. stack' = [below EXCEPT ![n] = [old EXCEPT !.next = @ + 1, !.value = found, !.seen = told]]
      BY <2>1, <2>2, <2>3, <2>4, <3>1 DEF S!Tells
    <3> QED  BY <2>8, <3>2
  <2>11. /\ stack' \in Seq(Frames) /\ Len(stack') = n /\ stack'[n] = fr /\ stack' # <<>>
         /\ \A i \in 1..n : i # n => stack'[i] = stack[i]
    <3>1. n \in 1..Len(below)
      BY <2>1
    <3>2. [below EXCEPT ![n] = fr] \in Seq(Frames) /\ Len([below EXCEPT ![n] = fr]) = Len(below)
          /\ \A i \in 1..Len(below) : [below EXCEPT ![n] = fr][i] = IF i = n THEN fr ELSE below[i]
      BY <1>3, <3>1, ExceptSeq
    <3>3. stack' \in Seq(Frames) /\ Len(stack') = n
          /\ \A i \in 1..n : stack'[i] = IF i = n THEN fr ELSE below[i]
      BY <2>1, <2>10, <3>2
    <3> QED  BY <1>3, <2>1, <3>3, EmptySeq
  <2>12. ASSUME NEW f \in DOMAIN found PROVE told[f] <= found[f] /\ found[f] <= read[f]
    <3>1. CASE f \in DOMAIN value
      <4>1. f \in DOMAIN seen /\ seen[f] <= value[f] /\ value[f] <= read[f] /\ found[f] = value[f]
        BY <2>7, <3>1 DEF AtMostRead
      <4>2. f \in DOMAIN old.seen => told[f] = old.seen[f] /\ old.seen[f] <= seen[f]
        BY <2>1, <2>2, <2>6, <4>1
      <4>3. f \notin DOMAIN old.seen => told[f] = seen[f]
        BY <2>6, <4>1
      <4>4. /\ seen[f] \in Nat /\ value[f] \in Nat
            /\ f \in DOMAIN old.seen => old.seen[f] \in Nat
        BY <2>5, <3>1, <4>1, ObservedOf
      <4> QED  BY <4>1, <4>2, <4>3, <4>4
    <3>2. CASE f \notin DOMAIN value
      BY <2>2, <2>6, <2>7, <3>2 DEF FrameOK, AtMostRead
    <3> QED  BY <3>1, <3>2
  <2>13. FrameOK(fr)
    <3>1. DOMAIN found \subseteq DOMAIN told
      BY <2>2, <2>6, <2>7 DEF FrameOK
    <3>2. AtMostRead(told)
      BY <2>2, <2>6 DEF FrameOK, AtMostRead
    <3> QED  BY <2>9, <2>12, <3>1, <3>2 DEF FrameOK, AtMostRead
  <2>14. ASSUME NEW i \in 1..(n - 1) PROVE After(fr, stack[i]) /\ i \in 1..(Len(stack) - 1)
    <3>1. i \in 1..Len(stack) /\ n \in 1..Len(stack) /\ i < n /\ i \in 1..(Len(stack) - 1)
      BY <1>1, <2>1
    <3>2. After(old, stack[i])
      BY <2>2, <3>1 DEF CacheInv, StackOK
    <3> QED  BY <2>6, <2>9, <3>1, <3>2 DEF After
  <2>15. ASSUME NEW i \in 1..n PROVE FrameOK(stack[i])'
    <3>1. PICK g : g = stack'[i]
      OBVIOUS
    <3>2. FrameOK(g) /\ g.at = "run"
      <4>1. CASE i = n
        BY <2>9, <2>11, <2>13, <3>1, <4>1
      <4>2. CASE i # n
        BY <1>1, <2>1, <2>11, <3>1, <4>2
      <4> QED  BY <4>1, <4>2
    <3>3. FrameOK(g)'
      BY <3>2 DEF FrameOK, AtMostRead
    <3> QED  BY <3>1, <3>3
  <2>16. ASSUME NEW i \in 1..n, NEW j \in 1..n, i < j
         PROVE  After(stack[j], stack[i])' /\ stack'[i].at = "run"
    <3>1. PICK g, h : g = stack'[j] /\ h = stack'[i]
      OBVIOUS
    <3>2. i \in 1..(n - 1) /\ h = stack[i] /\ i \in 1..(Len(stack) - 1)
      BY <1>1, <2>1, <2>11, <2>16, <3>1
    <3>3. After(g, h) /\ g.at = "run" /\ h.at = "run"
      <4>1. CASE j = n
        BY <1>1, <2>9, <2>11, <2>14, <3>1, <3>2, <4>1
      <4>2. CASE j # n
        <5>1. j \in 1..(Len(stack) - 1) /\ g = stack[j] /\ i \in 1..Len(stack) /\ j \in 1..Len(stack)
          BY <1>1, <2>1, <2>11, <3>1, <4>2
        <5> QED  BY <1>1, <2>16, <3>2, <5>1 DEF CacheInv, StackOK
      <4> QED  BY <4>1, <4>2
    <3>4. After(g, h)'
      BY <3>3 DEF After
    <3> QED  BY <3>1, <3>3, <3>4
  <2>17. StackOK'
    BY <2>11, <2>15, <2>16 DEF StackOK
  <2> QED  BY <2>3, <2>9, <2>11, <2>17 DEF Witnessed, ReadingNow, TopFrame
<1> QED  BY <1>4, <1>5

LEMMA ReuseStep ==
    ASSUME CacheInv, S!Reuse
    PROVE  CacheInv'
<1> DEFINE e == kept[TopFrame.of]
<1>1. /\ stack # <<>> /\ TopFrame.at = "compare" /\ TopFrame.left = {}
      /\ S!Return(e.value, e.seen, TRUE) /\ UNCHANGED <<read, texts, kept, past>>
  BY DEF S!Reuse, S!Top, TopFrame
<1>2. /\ Len(stack) \in Nat \ {0} /\ TopFrame \in Frames /\ FrameOK(TopFrame)
      /\ e \in KeptEntries /\ EntryOK(e)
      /\ \A i \in 1..(Len(stack) - 1) : After(TopFrame, stack[i])
  BY <1>1, TopIs
<1>3. PICK value \in Observations, seen \in Observations, yes \in BOOLEAN :
         value = e.value /\ seen = e.seen /\ yes = TRUE
  BY <1>2 DEF KeptEntries
<1>4. /\ DOMAIN value \subseteq DOMAIN seen /\ \A f \in DOMAIN value : value[f] = seen[f]
      /\ AtMostRead(seen)
  BY <1>2, <1>3 DEF EntryOK
<1>5. AtMostRead(value) /\ \A f \in DOMAIN value : seen[f] <= value[f]
  <2>1. \A f \in DOMAIN value : seen[f] \in Nat
    BY <1>4, ObservedOf
  <2> QED  BY <1>4, <2>1 DEF AtMostRead
<1>6. \A i \in 1..(Len(stack) - 1) : \A f \in DOMAIN stack[i].seen :
         f \in DOMAIN seen => stack[i].seen[f] <= seen[f]
  BY <1>1, <1>2, <1>3 DEF After
<1>7. /\ stack' \in Seq(Frames) /\ StackOK' /\ Witnessed' /\ \A f \in CacheFiles : ~ReadingNow(f)'
      /\ \/ /\ Len(stack) = 1
            /\ answer' = [of |-> TopFrame.of, value |-> value, reused |-> yes]
         \/ answer' = answer
  <2>1. S!Return(value, seen, yes)
    BY <1>1, <1>3
  <2> QED  BY <1>1, <1>4, <1>5, <1>6, <2>1, Returned
<1>8. answer' \in [of : CacheAnalyses \cup {"none"}, value : Observations, reused : BOOLEAN]
  BY <1>2, <1>7 DEF Frames, CacheInv, CacheTypes
<1>9. CacheTypes'
  BY <1>1, <1>7, <1>8 DEF CacheInv, CacheTypes
<1>10. TextsOK'
  BY <1>1, <1>7 DEF CacheInv, TextsOK, ReadingNow
<1>11. S!ReuseIsFresh'
  <2>1. CASE answer' = answer
    BY <1>1, <2>1 DEF CacheInv, S!ReuseIsFresh
  <2>2. CASE Len(stack) = 1 /\ answer' = [of |-> TopFrame.of, value |-> value, reused |-> yes]
    <3>1. PICK p \in past : \A f \in DOMAIN seen :
             e.seen[f] <= p[f] /\ p[f] <= read[f] /\ (f \notin TopFrame.left => p[f] = e.seen[f])
      BY <1>1, <1>3, <2>2 DEF CacheInv, Witnessed
    <3>2. \A f \in DOMAIN value : value[f] = p[f]
      BY <1>1, <1>3, <1>4, <3>1
    <3>3. answer'.value = value /\ past' = past
      BY <1>1, <2>2
    <3> QED  BY <3>2, <3>3 DEF S!ReuseIsFresh
  <2> QED  BY <1>7, <2>1, <2>2
<1>12. \A a \in CacheAnalyses : EntryOK(kept[a])'
  BY <1>1 DEF CacheInv, EntryOK, AtMostRead
<1> QED  BY <1>7, <1>9, <1>10, <1>11, <1>12 DEF CacheInv

\* An analysis that has done its reading returns it, kept or not.
LEMMA DoneReturns ==
    ASSUME CacheInv, stack # <<>>, TopFrame.at = "verify",
           S!Return(TopFrame.value, TopFrame.seen, FALSE), UNCHANGED <<read, texts, past>>,
           kept' \in [CacheAnalyses -> KeptEntries], \A a \in CacheAnalyses : EntryOK(kept[a])'
    PROVE  CacheInv'
<1>1. /\ Len(stack) \in Nat \ {0} /\ TopFrame \in Frames /\ FrameOK(TopFrame)
      /\ \A i \in 1..(Len(stack) - 1) : After(TopFrame, stack[i])
  BY TopIs
<1>2. PICK value \in Observations, seen \in Observations, no \in BOOLEAN :
         value = TopFrame.value /\ seen = TopFrame.seen /\ no = FALSE
  BY <1>1 DEF Frames
<1>3. /\ DOMAIN value \subseteq DOMAIN seen /\ AtMostRead(value) /\ AtMostRead(seen)
      /\ \A f \in DOMAIN value : seen[f] <= value[f]
  BY <1>1, <1>2 DEF FrameOK
<1>4. \A i \in 1..(Len(stack) - 1) : \A f \in DOMAIN stack[i].seen :
         f \in DOMAIN seen => stack[i].seen[f] <= seen[f]
  BY <1>1, <1>2 DEF After
<1>5. S!Return(value, seen, no)
  BY <1>2
<1>6. /\ stack' \in Seq(Frames) /\ StackOK' /\ Witnessed' /\ \A f \in CacheFiles : ~ReadingNow(f)'
      /\ \/ /\ Len(stack) = 1
            /\ answer' = [of |-> TopFrame.of, value |-> value, reused |-> no]
         \/ answer' = answer
  BY <1>3, <1>4, <1>5, Returned
<1>7. answer' \in [of : CacheAnalyses \cup {"none"}, value : Observations, reused : BOOLEAN]
  BY <1>1, <1>6 DEF Frames, CacheInv, CacheTypes
<1>8. CacheTypes'
  BY <1>6, <1>7 DEF CacheInv, CacheTypes
<1>9. TextsOK'
  <2>1. \A f \in CacheFiles : ~ReadingNow(f)
    BY DEF ReadingNow
  <2> QED  BY <2>1 DEF CacheInv, TextsOK
<1>10. S!ReuseIsFresh'
  <2>1. CASE answer' = answer
    BY <2>1 DEF CacheInv, S!ReuseIsFresh
  <2>2. CASE answer' = [of |-> TopFrame.of, value |-> value, reused |-> no]
    <3>1. answer'.reused = no
      BY <2>2
    <3> QED  BY <1>2, <3>1 DEF S!ReuseIsFresh
  <2> QED  BY <1>6, <2>1, <2>2
<1> QED  BY <1>6, <1>8, <1>9, <1>10 DEF CacheInv

LEMMA ConfirmStep ==
    ASSUME CacheInv, NEW f \in CacheFiles, S!Confirm(f)
    PROVE  CacheInv'
<1>1. /\ stack # <<>> /\ TopFrame.at = "verify" /\ f \in TopFrame.left
      /\ UNCHANGED <<read, texts, kept, past>>
  BY DEF S!Confirm, S!Top, TopFrame
<1>2. CASE read[f] = TopFrame.seen[f]
  <2>1. S!Puts([TopFrame EXCEPT !.left = @ \ {f}]) /\ answer' = answer
    BY <1>2 DEF S!Confirm, S!Top, TopFrame
  <2>2. /\ TopFrame \in Frames /\ FrameOK(TopFrame)
        /\ \A i \in 1..(Len(stack) - 1) : After(TopFrame, stack[i])
    BY <1>1, TopIs
  <2>3. PICK fr \in Frames : fr = [TopFrame EXCEPT !.left = @ \ {f}]
    BY <2>2 DEF Frames
  <2>4. /\ fr.at = "verify" /\ fr.left = TopFrame.left \ {f} /\ fr.seen = TopFrame.seen
        /\ fr.value = TopFrame.value
    BY <1>1, <2>2, <2>3 DEF Frames
  <2>5. f \in DOMAIN fr.value => fr.value[f] = fr.seen[f]
    <3> SUFFICES ASSUME f \in DOMAIN fr.value PROVE fr.value[f] = fr.seen[f]
      OBVIOUS
    <3>1. fr.seen[f] <= fr.value[f] /\ fr.value[f] <= read[f] /\ read[f] = fr.seen[f]
      BY <1>2, <2>2, <2>4 DEF FrameOK, AtMostRead
    <3>2. fr.value \in Observations /\ read[f] \in Nat
      BY <2>3 DEF Frames, CacheInv, CacheTypes
    <3>3. fr.value[f] \in Nat
      BY <3>2, ObservedOf
    <3> QED  BY <3>1, <3>2, <3>3
  <2>6. FrameOK(fr)
    BY <1>1, <2>2, <2>4, <2>5 DEF FrameOK
  <2>7. \A i \in 1..(Len(stack) - 1) : After(fr, stack[i])
    BY <2>2, <2>4 DEF After
  <2>8. stack' \in Seq(Frames) /\ StackOK' /\ Len(stack') = Len(stack) /\ TopFrame' = fr
    BY <1>1, <2>1, <2>3, <2>6, <2>7, TopSwapped
  <2>9. \A g \in CacheFiles : ~ReadingNow(g)
    BY <1>1 DEF ReadingNow
  <2> QED  BY <1>1, <2>1, <2>4, <2>8, <2>9, QuietRest DEF Witnessed
<1>3. CASE read[f] # TopFrame.seen[f]
  <2>1. S!Return(TopFrame.value, TopFrame.seen, FALSE)
    BY <1>3 DEF S!Confirm, S!Top, TopFrame
  <2>2. kept' \in [CacheAnalyses -> KeptEntries] /\ \A a \in CacheAnalyses : EntryOK(kept[a])'
    BY <1>1 DEF CacheInv, CacheTypes, EntryOK, AtMostRead
  <2> QED  BY <1>1, <2>1, <2>2, DoneReturns
<1> QED  BY <1>2, <1>3

LEMMA StoreStep ==
    ASSUME CacheInv, S!Store
    PROVE  CacheInv'
<1>1. /\ stack # <<>> /\ TopFrame.at = "verify" /\ TopFrame.left = {}
      /\ kept' = [kept EXCEPT ![TopFrame.of] = [kept |-> TRUE, seen |-> TopFrame.seen,
                                                value |-> TopFrame.value]]
      /\ S!Return(TopFrame.value, TopFrame.seen, FALSE) /\ UNCHANGED <<read, texts, past>>
  BY DEF S!Store, S!Top, TopFrame
<1>2. TopFrame \in Frames /\ FrameOK(TopFrame)
  BY <1>1, TopIs
<1>3. PICK yes \in BOOLEAN : yes = TRUE
  OBVIOUS
<1>4. PICK e \in KeptEntries : e = [kept |-> yes, seen |-> TopFrame.seen, value |-> TopFrame.value]
  BY <1>2 DEF Frames, KeptEntries
<1>5. e.seen = TopFrame.seen /\ e.value = TopFrame.value
  BY <1>4
<1>6. EntryOK(e)
  BY <1>1, <1>2, <1>5 DEF FrameOK, EntryOK
<1>7. PICK a \in CacheAnalyses : a = TopFrame.of
  BY <1>2 DEF Frames
<1>8. kept' = [kept EXCEPT ![a] = e] /\ kept \in [CacheAnalyses -> KeptEntries]
  BY <1>1, <1>3, <1>4, <1>7 DEF CacheInv, CacheTypes
<1>9. kept' \in [CacheAnalyses -> KeptEntries] /\ \A b \in CacheAnalyses : EntryOK(kept[b])'
  <2>1. kept' \in [CacheAnalyses -> KeptEntries]
    BY <1>8
  <2>2. ASSUME NEW b \in CacheAnalyses PROVE EntryOK(kept[b])'
    <3>1. PICK g : g = kept'[b]
      OBVIOUS
    <3>2. EntryOK(g)
      BY <1>6, <1>8, <3>1 DEF CacheInv
    <3> QED  BY <1>1, <3>1, <3>2 DEF EntryOK, AtMostRead
  <2> QED  BY <2>1, <2>2
<1> QED  BY <1>1, <1>9, DoneReturns

LEMMA CallStep ==
    ASSUME CacheInv, NEW a \in CacheAnalyses, S!Call(a)
    PROVE  CacheInv'
<1>1. /\ stack = <<>> /\ stack' = <<S!Frame(a)>> /\ past' = {read} /\ answer' = S!Unanswered
      /\ UNCHANGED <<read, texts, kept>>
  BY DEF S!Call
<1>2. PICK fr \in Frames :
         /\ fr = S!Frame(a) /\ fr.of = a /\ fr.at = IF kept[a].kept THEN "compare" ELSE "run"
         /\ fr.left = DOMAIN kept[a].seen /\ DOMAIN fr.seen = {} /\ FrameOK(fr)
  BY FrameIs
<1>3. stack' = <<fr>> /\ stack' \in Seq(Frames) /\ Len(stack') = 1 /\ stack'[1] = fr
  BY <1>1, <1>2
<1>4. FrameOK(fr)'
  BY <1>1, <1>2 DEF FrameOK, AtMostRead
<1>5. StackOK'
  BY <1>3, <1>4 DEF StackOK
<1>6. kept[a] \in KeptEntries /\ AtMostRead(kept[a].seen) /\ kept[a].seen \in Observations
  BY DEF CacheInv, CacheTypes, EntryOK, KeptEntries
<1>7. \A f \in DOMAIN kept[a].seen : kept[a].seen[f] <= read[f] /\ read[f] <= read[f]
  BY <1>6, ObservedOf DEF AtMostRead, CacheInv, CacheTypes
<1>8. Witnessed'
  <2>1. TopFrame' = fr
    BY <1>3 DEF TopFrame
  <2> QED  BY <1>1, <1>2, <1>7, <2>1 DEF Witnessed
<1>9. answer' \in [of : CacheAnalyses \cup {"none"}, value : Observations, reused : BOOLEAN]
  <2>1. PICK none \in Observations, no \in BOOLEAN : none = S!Nothing /\ no = FALSE
    BY NothingObserved
  <2>2. answer' = [of |-> "none", value |-> none, reused |-> no]
    BY <1>1, <2>1 DEF S!Unanswered
  <2> QED  BY <2>2
<1>10. CacheTypes'
  BY <1>1, <1>3, <1>9 DEF CacheInv, CacheTypes
<1>11. TextsOK'
  BY <1>1 DEF CacheInv, TextsOK, ReadingNow
<1>12. \A b \in CacheAnalyses : EntryOK(kept[b])'
  BY <1>1 DEF CacheInv, EntryOK, AtMostRead
<1>13. S!ReuseIsFresh'
  <2>1. answer'.reused = FALSE
    BY <1>1 DEF S!Unanswered
  <2> QED  BY <2>1 DEF S!ReuseIsFresh
<1> QED  BY <1>5, <1>8, <1>10, <1>11, <1>12, <1>13 DEF CacheInv

LEMMA UnkeptIs == S!Unkept \in KeptEntries /\ EntryOK(S!Unkept)
<1>1. PICK none \in Observations, no \in BOOLEAN : none = S!Nothing /\ no = FALSE /\ DOMAIN none = {}
  BY NothingObserved
<1>2. S!Unkept = [kept |-> no, seen |-> none, value |-> none]
  BY <1>1 DEF S!Unkept
<1> QED  BY <1>1, <1>2 DEF KeptEntries, EntryOK, AtMostRead

LEMMA NoTextIs == S!NoText \in [sig : Nat, text : Nat] /\ S!NoText.sig = 0 /\ S!NoText.text = 0
<1>1. PICK z \in Nat : z = 0
  OBVIOUS
<1>2. S!NoText = [sig |-> z, text |-> z]
  BY <1>1 DEF S!NoText
<1>3. [sig |-> z, text |-> z] \in [sig : Nat, text : Nat]
  OBVIOUS
<1> QED  BY <1>1, <1>2, <1>3

LEMMA PhaseStep ==
    ASSUME CacheInv, S!Phase
    PROVE  CacheInv'
<1>1. /\ stack = <<>> /\ kept' = [a \in CacheAnalyses |-> S!Unkept]
      /\ texts' = [f \in CacheFiles |-> S!NoText] /\ UNCHANGED <<read, stack, answer, past>>
  BY DEF S!Phase, CacheAnalyses, CacheFiles
<1>2. CacheTypes'
  BY <1>1, UnkeptIs, NoTextIs DEF CacheInv, CacheTypes
<1>3. TextsOK'
  <2>1. \A f \in CacheFiles : read[f] \in Nat /\ read[f] # 0
    BY DEF CacheInv, CacheTypes, TextsOK
  <2>2. \A f \in CacheFiles : texts'[f].sig = 0 /\ texts'[f].text = 0
    BY <1>1, NoTextIs
  <2> QED  BY <1>1, <2>1, <2>2 DEF TextsOK
<1>4. Len(stack) = 0
  BY <1>1
<1>5. StackOK' /\ Witnessed'
  BY <1>1, <1>4 DEF StackOK, Witnessed
<1>6. \A a \in CacheAnalyses : EntryOK(kept[a])'
  <2>1. PICK e : e = S!Unkept /\ EntryOK(e)
    BY UnkeptIs
  <2>2. EntryOK(e)'
    BY <1>1, <2>1 DEF EntryOK, AtMostRead
  <2> QED  BY <1>1, <2>1, <2>2
<1>7. S!ReuseIsFresh'
  BY <1>1 DEF CacheInv, S!ReuseIsFresh
<1> QED  BY <1>2, <1>3, <1>5, <1>6, <1>7 DEF CacheInv

\* An edit gives a file a revision it never had.
LEMMA EditStep ==
    ASSUME CacheInv, NEW f \in CacheFiles, S!EditFile(f)
    PROVE  CacheInv'
<1>1. /\ read' = [read EXCEPT ![f] = @ + 1] /\ past' = past \cup {read'}
      /\ UNCHANGED <<texts, kept, stack, answer>>
  BY DEF S!EditFile
<1>2. /\ read \in [CacheFiles -> Nat] /\ read' \in [CacheFiles -> Nat]
      /\ \A g \in CacheFiles : read[g] <= read'[g]
  BY <1>1 DEF CacheInv, CacheTypes
<1>3. ASSUME NEW seen \in Observations, AtMostRead(seen) PROVE AtMostRead(seen)'
  <2>1. \A g \in DOMAIN seen : g \in CacheFiles /\ seen[g] \in Nat
    BY ObservedOf
  <2> QED  BY <1>2, <1>3, <2>1 DEF AtMostRead
<1>4. CacheTypes'
  BY <1>1, <1>2 DEF CacheInv, CacheTypes
<1>5. TextsOK'
  <2>1. \A g \in CacheFiles : texts[g].sig \in Nat /\ texts[g].text \in Nat
    BY DEF CacheInv, CacheTypes
  <2>2. \A g \in CacheFiles : /\ texts[g].sig <= read'[g] /\ read'[g] # 0
                              /\ texts[g].text <= read[g] => texts[g].text <= read'[g]
    BY <1>2, <2>1 DEF CacheInv, TextsOK
  <2>3. \A g \in CacheFiles : ReadingNow(g)' = ReadingNow(g)
    BY <1>1 DEF ReadingNow, TopFrame
  <2> QED  BY <1>1, <2>2, <2>3 DEF CacheInv, TextsOK
<1>6. \A i \in 1..Len(stack) : stack[i] \in Frames
  BY ElementOfSeq DEF CacheInv, CacheTypes
<1>7. ASSUME NEW i \in 1..Len(stack) PROVE FrameOK(stack[i])'
  <2>1. PICK g \in Frames : g = stack[i] /\ FrameOK(g)
    BY <1>6 DEF CacheInv, StackOK
  <2>2. g.seen \in Observations /\ g.value \in Observations
    BY DEF Frames
  <2>3. PICK s \in Observations, v \in Observations : s = g.seen /\ v = g.value
    BY <2>2
  <2>4. AtMostRead(s)' /\ AtMostRead(v)'
    BY <1>3, <2>1, <2>3 DEF FrameOK
  <2>5. FrameOK(g)'
    BY <1>1, <2>1, <2>3, <2>4 DEF FrameOK, AtMostRead
  <2> QED  BY <1>1, <2>1, <2>5
<1>8. ASSUME NEW i \in 1..Len(stack), NEW j \in 1..Len(stack), i < j
      PROVE  After(stack[j], stack[i])' /\ stack[i].at = "run"
  BY <1>1, <1>8 DEF CacheInv, StackOK, After
<1>9. StackOK'
  BY <1>1, <1>7, <1>8 DEF StackOK
<1>10. Witnessed'
  <2> SUFFICES ASSUME Len(stack) = 1, TopFrame.at = "compare"
               PROVE  \E p \in past' : \A g \in DOMAIN kept[TopFrame.of].seen :
                         /\ kept[TopFrame.of].seen[g] <= p[g] /\ p[g] <= read'[g]
                         /\ g \notin TopFrame.left => p[g] = kept[TopFrame.of].seen[g]
    BY <1>1 DEF Witnessed, TopFrame
  <2>1. PICK p \in past : \A g \in DOMAIN kept[TopFrame.of].seen :
                         /\ kept[TopFrame.of].seen[g] <= p[g] /\ p[g] <= read[g]
                         /\ g \notin TopFrame.left => p[g] = kept[TopFrame.of].seen[g]
    BY DEF CacheInv, Witnessed
  <2>2. \A g \in DOMAIN kept[TopFrame.of].seen : g \in CacheFiles
    <3>1. TopFrame.of \in CacheAnalyses
      BY <1>6 DEF TopFrame, Frames
    <3>2. kept[TopFrame.of].seen \in Observations
      BY <3>1 DEF CacheInv, CacheTypes, KeptEntries
    <3> QED  BY <3>2, ObservedOf
  <2>3. p \in [CacheFiles -> Nat]
    BY DEF CacheInv, CacheTypes
  <2>4. \A g \in DOMAIN kept[TopFrame.of].seen : p[g] <= read'[g]
    BY <1>2, <2>1, <2>2, <2>3
  <2> QED  BY <1>1, <2>1, <2>4
<1>11. ASSUME NEW a \in CacheAnalyses PROVE EntryOK(kept[a])'
  <2>1. PICK e \in KeptEntries : e = kept[a] /\ EntryOK(e)
    BY DEF CacheInv, CacheTypes
  <2>2. PICK s \in Observations : s = e.seen
    BY DEF KeptEntries
  <2>3. AtMostRead(s)'
    BY <1>3, <2>1, <2>2 DEF EntryOK
  <2>4. EntryOK(e)'
    BY <2>1, <2>2, <2>3 DEF EntryOK, AtMostRead
  <2> QED  BY <1>1, <2>1, <2>4
<1>12. S!ReuseIsFresh'
  BY <1>1 DEF CacheInv, S!ReuseIsFresh
<1> QED  BY <1>4, <1>5, <1>9, <1>10, <1>11, <1>12 DEF CacheInv

LEMMA CacheStarts == S!SessionInit => CacheInv
<1> SUFFICES ASSUME S!SessionInit PROVE CacheInv
  OBVIOUS
<1>1. /\ read = [f \in CacheFiles |-> 1] /\ texts = [f \in CacheFiles |-> S!NoText]
      /\ kept = [a \in CacheAnalyses |-> S!Unkept] /\ stack = <<>> /\ past = {read}
      /\ answer = S!Unanswered
  BY DEF S!SessionInit, CacheFiles, CacheAnalyses
<1>2. stack \in Seq(Frames) /\ Len(stack) = 0
  BY <1>1, EmptySeq
<1>3. PICK none \in Observations, no \in BOOLEAN : none = S!Nothing /\ no = FALSE
  BY NothingObserved
<1>4. answer = [of |-> "none", value |-> none, reused |-> no]
  BY <1>1, <1>3 DEF S!Unanswered
<1>5. answer \in [of : CacheAnalyses \cup {"none"}, value : Observations, reused : BOOLEAN]
  BY <1>4
<1>6. CacheTypes
  BY <1>1, <1>2, <1>5, UnkeptIs, NoTextIs DEF CacheTypes
<1>7. TextsOK
  BY <1>1, NoTextIs DEF TextsOK
<1>8. StackOK /\ Witnessed
  BY <1>2 DEF StackOK, Witnessed
<1>9. \A a \in CacheAnalyses : EntryOK(kept[a])
  BY <1>1, UnkeptIs
<1>10. S!ReuseIsFresh
  <2>1. answer.reused = no
    BY <1>4
  <2> QED  BY <1>3, <2>1 DEF S!ReuseIsFresh
<1> QED  BY <1>6, <1>7, <1>8, <1>9, <1>10 DEF CacheInv

LEMMA CacheStep ==
    ASSUME CacheInv, S!SessionNext
    PROVE  CacheInv'
<1>1. \/ \E a \in CacheAnalyses : S!Call(a)
      \/ \E f \in CacheFiles : S!Compare(f) \/ S!Confirm(f) \/ S!EditFile(f)
      \/ S!Reuse \/ S!Nested \/ S!ObservePath \/ S!Stat \/ S!ReadText \/ S!Verify \/ S!Store
      \/ S!Phase
  BY DEF S!SessionNext, CacheAnalyses, CacheFiles
<1>2. ASSUME NEW a \in CacheAnalyses, S!Call(a) PROVE CacheInv'
  BY <1>2, CallStep
<1>3. ASSUME NEW f \in CacheFiles, S!Compare(f) \/ S!Confirm(f) \/ S!EditFile(f) PROVE CacheInv'
  BY <1>3, CompareStep, ConfirmStep, EditStep
<1> QED  BY <1>1, <1>2, <1>3, ReuseStep, NestedStep, ObserveStep, StatStep, ReadStep, VerifyStep,
            StoreStep, PhaseStep

(* ReuseIsFresh of SessionCache, for any number of calls and edits: however   *)
(* the files are edited while the analyses run, a reused answer is what they *)
(* said, all together, at a moment since it was asked for (session.py,       *)
(* cached_analysis).                                                         *)
THEOREM ReuseStaysFresh == Spec => []ReuseIsFresh
<1> DEFINE Inv == which = "cache" => CacheInv
<1>1. Init => Inv
  BY CacheStarts DEF Init
<1>2. Inv /\ [Next]_vars => Inv'
  <2> SUFFICES ASSUME Inv, [Next]_vars, which' = "cache" PROVE CacheInv'
    OBVIOUS
  <2>1. which = "cache" /\ (UNCHANGED cacheVars \/ S!SessionNext)
    BY DEF Next, vars
  <2>2. CASE UNCHANGED cacheVars
    <3>1. CacheInv
      BY <2>1
    <3> QED  BY <2>2, <3>1 DEF cacheVars, CacheInv, CacheTypes, TextsOK, StackOK, Witnessed,
                              FrameOK, AtMostRead, After, EntryOK, ReadingNow, TopFrame, S!ReuseIsFresh
  <2> QED  BY <2>1, <2>2, CacheStep
<1>3. Inv => ReuseIsFresh
  BY DEF ReuseIsFresh, CacheInv
<1> QED  BY <1>1, <1>2, <1>3, PTL DEF Spec
=============================================================================
