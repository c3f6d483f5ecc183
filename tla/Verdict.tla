------------------------------ MODULE Verdict ------------------------------
(***************************************************************************)
(* What is promised of a stage that waits for people, with no row, lock,   *)
(* request or pass in it.  It waits once.  Only while it waits do answers  *)
(* count, only out of the wait does it turn green, and one rejection ends  *)
(* it; what lies behind begins after the wait, on enough approvals, or when *)
(* the stage is waived and has asked nobody.                               *)
(***************************************************************************)
EXTENDS Naturals, FiniteSets

CONSTANTS User, Required,
          May        \* those whose approval counts

VARIABLES
    said,      \* the answers that were given
    wait,      \* "before", "now", "over"
    green,     \* it stands as passed
    begun,     \* what lies behind it has begun
    barred,    \* something before it failed
    waived     \* nobody is to be asked this time

Enough   == Cardinality({u \in User : <<u, "approve">> \in said}) >= Required
Rejected == \E u \in User : <<u, "reject">> \in said
Passed   == Enough /\ ~Rejected

Init ==
    /\ said = {} /\ wait = "before"
    /\ green = FALSE /\ begun = FALSE /\ barred \in BOOLEAN /\ waived \in BOOLEAN

Ask ==
    /\ wait = "before" /\ ~barred /\ ~waived
    /\ wait' = "now"
    /\ UNCHANGED <<said, green, begun, barred, waived>>

Answer(u, d) ==
    /\ wait = "now" /\ (d = "approve" => u \in May)
    /\ said' = said \cup {<<u, d>>}
    /\ wait' \in {"now", "over"} /\ (d = "reject" => wait' = "over")
    /\ green' = FALSE \/ (green' = TRUE /\ wait' = "over" /\ Passed')
    /\ UNCHANGED <<begun, barred, waived>>

\* It is over, or is said to be over for another reason.
End ==
    /\ wait' = "over"
    /\ green' = FALSE \/ (green' = TRUE /\ (green \/ (wait = "now" /\ Passed)))
    /\ UNCHANGED <<said, begun, barred, waived>>

Begin ==
    /\ wait = "over" /\ ~barred /\ (Passed \/ (waived /\ said = {}))
    /\ begun' = TRUE
    /\ UNCHANGED <<said, wait, green, barred, waived>>

Next ==
    \/ Ask \/ End \/ Begin
    \/ \E u \in User, d \in {"approve", "reject"} : Answer(u, d)

vars == <<said, wait, green, begun, barred, waived>>
Spec == Init /\ [][Next]_vars
=============================================================================
