----------------------------- MODULE BuildQueue -----------------------------
(***************************************************************************)
(* What is promised to whoever queues a build, with no pass, stage, runner *)
(* or lock in it.  A build waits, is let in when its service has room, and *)
(* ends, once; it may be withdrawn while it waits, and then never runs.    *)
(*                                                                         *)
(* A build whose cancellation crossed its dispatch is excused from that,   *)
(* but not from waiting for room.  Nothing is promised of the order in     *)
(* which builds are let in.                                                *)
(***************************************************************************)
EXTENDS Naturals, FiniteSets

CONSTANTS Build, Service, ServiceCap

VARIABLES
    place,    \* where a build is: "none", "queued", "running", or how it ended
    excused   \* the builds whose cancellation crossed their dispatch

Ended == {"success", "failed", "timeout", "cancelled"}

Room(b) ==
    Cardinality({c \in Build : place[c] = "running" /\ Service[c] = Service[b]})
        < ServiceCap[Service[b]]

Init == place = [b \in Build |-> "none"] /\ excused = {}

Moves(b, to) == place' = [place EXCEPT ![b] = to] /\ UNCHANGED excused

Ask(b)      == place[b] = "none" /\ Moves(b, "queued")
LetIn(b)    == place[b] = "queued" /\ Room(b) /\ Moves(b, "running")
Withdraw(b) == place[b] = "queued" /\ Moves(b, "cancelled")
End(b)      == place[b] = "running" /\ \E out \in Ended : Moves(b, out)

\* The cancellation is written over a build that was let in, or the build is
\* let in although it was withdrawn.
Cross(b) ==
    /\ place[b] \notin {"none", "queued"}
    /\ excused' = excused \cup {b}
    /\ \/ place' = [place EXCEPT ![b] = "cancelled"]
       \/ place[b] = "cancelled" /\ Room(b) /\ place' = [place EXCEPT ![b] = "running"]

\* What such a build may still do.
Stray(b) ==
    /\ b \in excused
    /\ \/ \E out \in Ended : Moves(b, out)
       \/ Room(b) /\ Moves(b, "running")

Next == \E b \in Build :
    Ask(b) \/ LetIn(b) \/ Withdraw(b) \/ End(b) \/ Cross(b) \/ Stray(b)

vars == <<place, excused>>
Spec == Init /\ [][Next]_vars
=============================================================================
