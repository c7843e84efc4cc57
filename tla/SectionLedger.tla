---------------------------- MODULE SectionLedger ----------------------------
(***************************************************************************)
(* What the record of a mutable plan promises: a section is closed by a    *)
(* record of its own, may be held back at any time, and a section held     *)
(* back is let go only by being closed.  One section changes at a time.    *)
(***************************************************************************)
CONSTANT Sections

VARIABLES closed,  \* sections that were recorded complete
          held     \* sections whose completion waits for its checks

Init == closed = {} /\ held = {}

Close(s) == s \notin held /\ closed' = closed \cup {s} /\ UNCHANGED held

Hold(s) == held' = held \cup {s} /\ UNCHANGED closed

Release(s) == s \in held /\ held' = held \ {s} /\ closed' = closed \cup {s}

Next == \E s \in Sections : Close(s) \/ Hold(s) \/ Release(s)

Spec == Init /\ [][Next]_<<closed, held>>
=============================================================================
