--------------------------- MODULE ExclusivePass ---------------------------
(***************************************************************************)
(* What the guard around a CI pass promises, with no lock in it: passes    *)
(* run one at a time, and one never turns into another without the first   *)
(* being over.                                                             *)
(***************************************************************************)
CONSTANT Thread
VARIABLE inPass     \* the threads inside a guarded pass

Init == inPass = {}

Begin(t) == inPass = {} /\ inPass' = {t}
End      == inPass # {} /\ inPass' = {}

Next == End \/ \E t \in Thread : Begin(t)

Spec == Init /\ [][Next]_inPass
============================================================================
