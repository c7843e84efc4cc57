---------------------------- MODULE SectionStore ----------------------------
(***************************************************************************)
(* What recording a section promises, without journals, crashes or         *)
(* recovery: the section's record changes in one step, its receipt (the    *)
(* pinner file) is there from that step on, and receipts never go away.    *)
(***************************************************************************)
CONSTANTS Contents, None
VARIABLES record, receipts

Init == record = None /\ receipts = {}

Commit(c) == c # record /\ record' = c /\ receipts' = receipts \cup {c}

Next == \E c \in Contents : Commit(c)

Spec == Init /\ [][Next]_<<record, receipts>>
=============================================================================
