------------------------------ MODULE Delivery ------------------------------
(***************************************************************************)
(* What is promised of the notifications of a build, with no row, pass,    *)
(* pool or clock in it.  It is decided once which are asked for.  Each of  *)
(* those may be taken up, by one process at a time; whoever holds one      *)
(* sends it once at most before letting go of it; and one that was lost    *)
(* with its holder is never taken up again.                                *)
(*                                                                         *)
(* One that was let go of may be taken up again, to be retried: how often  *)
(* is not promised here.                                                   *)
(***************************************************************************)
EXTENDS Naturals

CONSTANTS Message, Proc

VARIABLES
    asked,    \* the messages asked for
    holders,  \* holders[m]: the processes m is in the hands of
    underWay, \* those their holder has begun to send
    sends,    \* sends[m]: how often m was sent
    gone      \* those lost with their holder

Init ==
    /\ asked = {} /\ underWay = {} /\ gone = {}
    /\ holders = [m \in Message |-> {}]
    /\ sends = [m \in Message |-> 0]

Decide ==
    /\ asked = {} /\ asked' \in SUBSET Message
    /\ UNCHANGED <<holders, underWay, sends, gone>>

Take(m, p) ==
    /\ m \in asked \ gone /\ holders[m] = {}
    /\ holders' = [holders EXCEPT ![m] = {p}]
    /\ UNCHANGED <<asked, underWay, sends, gone>>

Send(m) ==
    /\ holders[m] # {} /\ m \notin underWay
    /\ underWay' = underWay \cup {m}
    /\ sends' = [sends EXCEPT ![m] = @ + 1]
    /\ UNCHANGED <<asked, holders, gone>>

\* A process lets go of one message, of known or unknown outcome...
LetGo(m, p) ==
    /\ holders[m] = {p}
    /\ holders' = [holders EXCEPT ![m] = {}]
    /\ underWay' = underWay \ {m}
    /\ gone' \in {gone, gone \cup {m}}
    /\ UNCHANGED <<asked, sends>>

\* ...or dies, and what it held is lost.
Die(p) ==
    /\ holders' = [m \in Message |-> holders[m] \ {p}]
    /\ underWay' = {m \in underWay : holders[m] # {p}}
    /\ gone' = gone \cup {m \in Message : holders[m] = {p}}
    /\ UNCHANGED <<asked, sends>>

Next ==
    \/ Decide
    \/ \E p \in Proc : Die(p) \/ \E m \in Message : Take(m, p) \/ LetGo(m, p)
    \/ \E m \in Message : Send(m)

vars == <<asked, holders, underWay, sends, gone>>
Spec == Init /\ [][Next]_vars
=============================================================================
