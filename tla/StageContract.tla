---------------------------- MODULE StageContract ----------------------------
(***************************************************************************)
(* What is promised of the stages that are handed to agents, with no       *)
(* engine, task row, claim request or token in it.  A stage is offered     *)
(* before it has a verdict, and taken up once at most; whoever took it may *)
(* earn it; and it gets one verdict, which is green only if it was earned. *)
(* Any number of stages may get theirs at once.                            *)
(*                                                                         *)
(* It is not promised that a stage with a verdict is left alone: it may    *)
(* still be taken up, and earned, by an agent that nobody told.            *)
(***************************************************************************)
EXTENDS Naturals

CONSTANT Stage

VARIABLES
    offered,  \* the stages that were handed out, ever
    takes,    \* how often an agent took each up
    earned,   \* those an agent brought to exit 0
    verdict   \* how each was closed, "none" before

Init ==
    /\ offered = {} /\ earned = {}
    /\ takes = [s \in Stage |-> 0]
    /\ verdict = [s \in Stage |-> "none"]

Offer(s) ==
    /\ s \notin offered /\ verdict[s] = "none"
    /\ offered' = offered \cup {s}
    /\ UNCHANGED <<takes, earned, verdict>>

Take(s) ==
    /\ s \in offered /\ takes[s] = 0
    /\ takes' = [takes EXCEPT ![s] = 1]
    /\ UNCHANGED <<offered, earned, verdict>>

Earn(s) ==
    /\ takes[s] = 1
    /\ earned' = earned \cup {s}
    /\ UNCHANGED <<offered, takes, verdict>>

Close ==
    /\ verdict' \in [Stage -> {"none", "green", "other"}]
    /\ \A s \in Stage : verdict'[s] # verdict[s] =>
          verdict[s] = "none" /\ (verdict'[s] = "green" => s \in earned)
    /\ UNCHANGED <<offered, takes, earned>>

Next == Close \/ \E s \in Stage : Offer(s) \/ Take(s) \/ Earn(s)

vars == <<offered, takes, earned, verdict>>
Spec == Init /\ [][Next]_vars
==============================================================================
