------------------------------ MODULE Rollout ------------------------------
(***************************************************************************)
(* What is promised of a bundle of changes, with no row, tick, claim or    *)
(* worker in it.  Nothing is applied before the window opens and enough    *)
(* have approved, or one whose approval is enough; items are applied in    *)
(* order, each once, none behind one that failed if that stops it, and     *)
(* none once the bundle is closed.                                         *)
(*                                                                         *)
(* A bundle that an answer was written over too late is excused from all   *)
(* of this but the first.                                                  *)
(***************************************************************************)
EXTENDS Naturals, FiniteSets

CONSTANTS Voter, Required, Item

VARIABLES
    approvals, \* those who approved
    sole,      \* those whose approval alone is enough, which does not change
    open,      \* the window has opened
    applied,   \* how often each item was applied
    spoiled,   \* the items known to have failed, where that stops the rest
    over,      \* it is closed for good
    excused

Init ==
    /\ approvals = {} /\ sole \in SUBSET Voter /\ spoiled = {}
    /\ open = FALSE /\ over = FALSE /\ excused = FALSE
    /\ applied = [i \in Item |-> 0]

\* What is known to have failed has nothing applied behind it; what is closed
\* is not opened again.
Settled ==
    /\ spoiled' \in SUBSET Item /\ over' \in BOOLEAN /\ excused' \in {excused, TRUE}
    /\ excused' \/ /\ over => over'
                   /\ \A i \in spoiled', j \in Item : i < j => applied[j] = 0

Settle == Settled /\ UNCHANGED <<approvals, sole, open, applied>>

\* An approval may settle the bundle too.
Approve(u) ==
    /\ approvals' = approvals \cup {u}
    /\ Settled /\ UNCHANGED <<sole, open, applied>>

Open ==
    /\ open' = TRUE
    /\ UNCHANGED <<approvals, sole, applied, spoiled, over, excused>>

Enough == Cardinality(approvals) >= Required \/ approvals \cap sole # {}

Apply(i) ==
    /\ open /\ Enough
    /\ excused \/ /\ ~over
                  /\ \A j \in Item : j >= i => applied[j] = 0
                  /\ \A j \in spoiled : j >= i
    /\ applied' = [applied EXCEPT ![i] = @ + 1]
    /\ UNCHANGED <<approvals, sole, open, spoiled, over, excused>>

Next ==
    \/ Open \/ Settle
    \/ \E u \in Voter : Approve(u)
    \/ \E i \in Item : Apply(i)

vars == <<approvals, sole, open, applied, spoiled, over, excused>>
Spec == Init /\ [][Next]_vars
=============================================================================
