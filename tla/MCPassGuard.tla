---------------------------- MODULE MCPassGuard ----------------------------
(* Two processes, each with its ticker: the first answers an approval, the *)
(* second, which may be forked from it, takes an agent's result.           *)
EXTENDS PassGuard
CONSTANTS p1, p2, k1, k2, r2, d1

MCHome == [t \in Thread |-> IF t \in {k1, d1} THEN p1 ELSE p2]
============================================================================
