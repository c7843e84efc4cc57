-------------------------- MODULE MCVerification --------------------------
(***************************************************************************)
(* Small instances of Verification for TLC: `scope` says whether the       *)
(* commands of a behaviour are about receipts and the allowance or about   *)
(* the pair of a compatibility section, so that each can be explored       *)
(* further than both together.                                             *)
(***************************************************************************)
EXTENDS VerificationProps, TLC

CONSTANTS test, other
VARIABLE scope

OneOrBoth == {<<"section">>, <<"section", "integration">>}

MCInit == Init /\ scope \in {"receipts", "pair"}

Asked ==
  \/ /\ scope = "receipts"
     /\ \E kind \in {"verify", "attest"}, places \in Targets : Begin(kind, places, test)
  \/ /\ scope = "pair"
     /\ \E kind \in Stages, command \in Commands : Begin(kind, <<"section">>, command)

Goes ==
  /\ RestoreOrigin \/ Step \/ Unprepared \/ Unsettled \/ Die
  /\ scope = "pair" => ledger' = None /\ proc'.seconds <= 1

MCNext ==
  /\ UNCHANGED scope
  /\ \/ Asked \/ Goes
     \/ scope = "pair" /\ Activate
     \/ /\ scope = "receipts" => spent.edits = 0
        /\ \E what \in {"code", "checks"} : Edit(what)

MCSpec == MCInit /\ [][MCNext]_<<vars, scope>>
=============================================================================
