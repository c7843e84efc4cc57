-------------------------- MODULE InstalledPlugin --------------------------
(***************************************************************************)
(* What updating promises, without renames, copies or kills: at every      *)
(* moment one whole package is installed, or can be restored; it changes   *)
(* only to one the source has been since the update began, none of whose   *)
(* files is older.                                                         *)
(***************************************************************************)
EXTENDS Naturals

CONSTANTS Names, Packages, Nothing
VARIABLES package,    \* what the source offers now
          offered,    \* what it has offered since an update began
          installed

NotOlder(p, q) == \A n \in Names : p[n] # 0 /\ q[n] # 0 => q[n] <= p[n]

Init == offered = {package} /\ installed \in {Nothing, package}

Edit ==
  /\ package' \in Packages
  /\ offered' = offered \cup {package'}
  /\ UNCHANGED installed

Begin == offered' = {package} /\ UNCHANGED <<package, installed>>

Install ==
  /\ installed' \in offered /\ NotOlder(installed', installed)
  /\ UNCHANGED <<package, offered>>

Spec == Init /\ [][Edit \/ Begin \/ Install]_<<package, offered, installed>>
=============================================================================
