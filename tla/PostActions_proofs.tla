------------------------- MODULE PostActions_proofs -------------------------
(***************************************************************************)
(* What PostActions.tla promises of a notification's way from the claim to *)
(* the recorded outcome, for any processes, rows, limits and faults: types *)
(* first, then PostInv action by action, what follows from it, how often a *)
(* notification is tried (TriesInv), and last that every step is one of    *)
(* Delivery's.                                                             *)
(***************************************************************************)
EXTENDS PostActions, TLAPS

USE RowAssumption, WorldAssumption, LimitAssumption

---------------------------------------------------------------------------
(* Types                                                                   *)

Statuses == {"pending", "running"} \cup Final
Phases == {"waiting", "queued", "sending", "running", "done"}

\* What a pass reads of a well-typed row is well typed.
LEMMA ViewType ==
    ASSUME NEW r \in Messages,
           status \in [Row -> Statuses], phase \in [Row -> Phases], attempts \in [Row -> Nat],
           due \in [Row -> BOOLEAN], old \in [Row -> BOOLEAN]
    PROVE  View(r) \in Seen /\ View(r).row = r
BY DEF View, Seen, Statuses, Phases, Row

\* Before it looks at a row, a pass has read nothing.
LEMMA NothingType == Nothing \in Seen /\ Nothing.status = "pending" /\ Nothing.phase = "waiting"
<1>1. (CHOOSE r \in Messages : TRUE) \in Messages
  OBVIOUS
<1> QED
  BY <1>1 DEF Nothing, Seen

\* Closing rows keeps their types.
LEMMA ClosedType ==
    ASSUME TypeOK, NEW rows, NEW how \in Final, Closed(rows, how)
    PROVE  status' \in [Row -> Statuses] /\ phase' \in [Row -> Phases]
BY DEF TypeOK, Closed, Statuses, Phases

\* So does settling them.
LEMMA SettleType ==
    ASSUME TypeOK, NEW rows, NEW result, Settle(rows, result)
    PROVE  /\ status' \in [Row -> Statuses] /\ phase' \in [Row -> Phases]
           /\ attempts' \in [Row -> Nat] /\ due' \in [Row -> BOOLEAN]
<1> DEFINE waiting == {r \in rows : status[r] = "pending" /\ (r \in Messages => phase[r] = "waiting")}
           told == {r \in waiting \cap Messages : Told(r, result)}
           stopped == {r \in rows \cap Cleanups : status[r] = "running"}
<1>1. /\ status' = [r \in Row |-> IF r \in waiting \ told THEN "skipped"
                                  ELSE IF r \in stopped THEN "cancelled" ELSE status[r]]
      /\ phase' = [r \in Row |-> IF r \in told THEN "queued"
                                 ELSE IF r \in waiting \cup stopped THEN "done" ELSE phase[r]]
      /\ attempts' = [r \in Row |-> IF r \in told THEN 0 ELSE attempts[r]]
      /\ due' = [r \in Row |-> due[r] \/ r \in told]
  BY Zenon DEF Settle
<1> HIDE DEF waiting, told, stopped
<1>2. status' \in [Row -> Statuses]
  BY <1>1 DEF TypeOK, Statuses, Final
<1>3. phase' \in [Row -> Phases]
  BY <1>1 DEF TypeOK, Phases
<1>4. attempts' \in [Row -> Nat]
  BY <1>1 DEF TypeOK
<1>5. due' \in [Row -> BOOLEAN]
  BY <1>1 DEF TypeOK
<1> QED
  BY <1>2, <1>3, <1>4, <1>5

\* The rows keep their types.
LEMMA RowTypes ==
    ASSUME TypeOK, [Next]_vars
    PROVE  /\ status' \in [Row -> Statuses] /\ phase' \in [Row -> Phases]
           /\ attempts' \in [Row -> Nat] /\ due' \in [Row -> BOOLEAN] /\ old' \in [Row -> BOOLEAN]
<1> DEFINE Goal == /\ status' \in [Row -> Statuses] /\ phase' \in [Row -> Phases]
                   /\ attempts' \in [Row -> Nat] /\ due' \in [Row -> BOOLEAN] /\ old' \in [Row -> BOOLEAN]
<1> USE DEF TypeOK, Statuses, Phases
<1>1. ASSUME UNCHANGED rowVars PROVE Goal
  BY <1>1 DEF rowVars
<1>2. ASSUME BuildNext PROVE Goal
  <2>1. ASSUME Start \/ StagesOver PROVE Goal
    BY <2>1, <1>1 DEF Start, StagesOver
  <2>2. ASSUME CloseCleanups PROVE Goal
    BY <2>2, ClosedType DEF CloseCleanups, CleanupFrame, Final
  <2>3. ASSUME NEW r \in Cleanups, SkipCleanup(r) \/ StartCleanup(r) \/ PollCleanup(r) PROVE Goal
    <3>1. CASE SkipCleanup(r)
      BY <3>1, ClosedType DEF SkipCleanup, CleanupFrame, Final
    <3>2. CASE StartCleanup(r)
      BY <3>2, ClosedType DEF StartCleanup, CleanupFrame, Final, Row
    <3>3. CASE PollCleanup(r)
      BY <3>3, ClosedType DEF PollCleanup, CleanupFrame
    <3> QED
      BY <2>3, <3>1, <3>2, <3>3
  <2>4. ASSUME NEW result \in Ended, FinishBuild(result) PROVE Goal
    <3>1. PICK rows : Settle(rows, result)
      BY <2>4 DEF FinishBuild
    <3>2. UNCHANGED old
      BY <2>4 DEF FinishBuild
    <3> QED
      BY <3>1, <3>2, SettleType
  <2> QED
    BY <1>2, <2>1, <2>2, <2>3, <2>4 DEF BuildNext
<1>3. ASSUME NEW p \in Proc, PassNext(p) PROVE Goal
  <2>1. seen[p].row \in Messages /\ seen[p].attempts \in Nat
    BY DEF Seen
  <2>2. ASSUME \/ \E r \in Messages : Look(p, r)
               \/ PassBy(p) \/ Submit(p)
        PROVE  Goal
    BY <2>2, <1>1 DEF Look, PassBy, Submit
  <2>3. CASE Reap(p)
    BY <2>3, ClosedType DEF Reap, Final
  <2>4. CASE SettleLate(p)
    <3>1. PICK r \in Messages :
            /\ \/ /\ phase' = [phase EXCEPT ![r] = "queued"]
                  /\ attempts' = [attempts EXCEPT ![r] = 0]
                  /\ due' = [due EXCEPT ![r] = TRUE]
                  /\ UNCHANGED status
               \/ Closed({r}, "skipped") /\ UNCHANGED <<attempts, due>>
            /\ UNCHANGED old
      BY <2>4, Zenon DEF SettleLate
    <3>2. CASE Closed({r}, "skipped") /\ UNCHANGED <<attempts, due>>
      <4>1. status' \in [Row -> Statuses] /\ phase' \in [Row -> Phases]
        BY <3>2, ClosedType DEF Final
      <4> QED
        BY <3>1, <3>2, <4>1
    <3>3. CASE /\ phase' = [phase EXCEPT ![r] = "queued"]
               /\ attempts' = [attempts EXCEPT ![r] = 0]
               /\ due' = [due EXCEPT ![r] = TRUE]
               /\ UNCHANGED status
      BY <3>1, <3>3 DEF Row
    <3> QED
      BY <3>1, <3>2, <3>3
  <2>5. CASE Claim(p)
    BY <2>5, <2>1 DEF Claim, NextAttempt, Row
  <2> QED
    BY <1>3, <2>2, <2>3, <2>4, <2>5 DEF PassNext, Act
<1>4. ASSUME NEW p \in Proc, Work(p) PROVE Goal
  <2>1. ASSUME NEW r \in Messages, BeginSend(p, r) PROVE Goal
    BY <2>1, <1>1 DEF BeginSend
  <2>2. ASSUME NEW s \in sending[p], EndSend(p, s) \/ Retry(p, s) PROVE Goal
    <3>1. s.row \in Row /\ s.attempt \in Nat
      BY DEF Row
    <3>2. CASE EndSend(p, s)
      BY <3>1, <3>2, ClosedType DEF EndSend, Leave, Final
    <3>3. CASE Retry(p, s)
      BY <3>1, <3>3 DEF Retry, Leave
    <3> QED
      BY <2>2, <3>2, <3>3
  <2> QED
    BY <1>4, <2>1, <2>2 DEF Work
<1>5. ASSUME NEW p \in Proc, Crash(p) \/ \E s \in sending[p] : SaveFails(p, s) PROVE Goal
  BY <1>5 DEF Crash, SaveFails, Leave, rowVars
<1>6. ASSUME NEW r \in Messages, Backoff(r) \/ ClaimAges(r) PROVE Goal
  BY <1>6 DEF Backoff, ClaimAges, Row
<1> QED
  BY <1>1, <1>2, <1>3, <1>4, <1>5, <1>6 DEF Next, vars

\* Everything else keeps its types.
LEMMA OtherTypes ==
    ASSUME TypeOK, [Next]_vars
    PROVE  /\ build' \in {"queued", "running"} \cup Ended
           /\ started' \in BOOLEAN
           /\ stages' \in {"open", "success", "failure"}
           /\ world' = world
           /\ at' \in [Proc -> {"idle", "looked", "claimed"}]
           /\ inFlight' \in [Proc -> SUBSET Messages]
           /\ sending' \in [Proc -> SUBSET [row: Messages, attempt: Nat]]
           /\ sends' \in [Row -> Nat]
           /\ lost' \in [Row -> BOOLEAN]
           /\ unsettled' \in BOOLEAN
           /\ faults' \in Nat
<1> DEFINE Goal == /\ build' \in {"queued", "running"} \cup Ended
                   /\ started' \in BOOLEAN
                   /\ stages' \in {"open", "success", "failure"}
                   /\ world' = world
                   /\ at' \in [Proc -> {"idle", "looked", "claimed"}]
                   /\ inFlight' \in [Proc -> SUBSET Messages]
                   /\ sending' \in [Proc -> SUBSET [row: Messages, attempt: Nat]]
                   /\ sends' \in [Row -> Nat]
                   /\ lost' \in [Row -> BOOLEAN]
                   /\ unsettled' \in BOOLEAN
                   /\ faults' \in Nat
<1> USE DEF TypeOK
<1>1. ASSUME UNCHANGED <<buildVars, world, at, senderVars, lost, unsettled, faults>> PROVE Goal
  BY <1>1 DEF buildVars, senderVars
<1>2. ASSUME BuildNext PROVE Goal
  <2>1. ASSUME Start \/ StagesOver PROVE Goal
    BY <2>1 DEF Start, StagesOver, passVars, senderVars
  <2>2. ASSUME \/ CloseCleanups
               \/ \E r \in Cleanups : SkipCleanup(r) \/ StartCleanup(r) \/ PollCleanup(r)
        PROVE  Goal
    <3>1. CleanupFrame
      BY <2>2, Zenon DEF CloseCleanups, SkipCleanup, StartCleanup, PollCleanup
    <3> QED
      BY <3>1, <1>1 DEF CleanupFrame, passVars
  <2>3. ASSUME NEW result \in Ended, FinishBuild(result) PROVE Goal
    <3>1. build' = result
      BY <2>3, Zenon DEF FinishBuild
    <3>2. UNCHANGED <<started, stages, world, old, passVars, senderVars, lost>>
      BY <2>3, Zenon DEF FinishBuild
    <3>3. UNCHANGED <<faults, unsettled>> \/ (faults' = faults + 1 /\ unsettled' = TRUE)
      BY <2>3, Zenon DEF FinishBuild
    <3>4. faults' \in Nat /\ unsettled' \in BOOLEAN
      <4>1. faults' \in Nat
        BY <3>3
      <4>2. unsettled' \in BOOLEAN
        BY <3>3, Zenon
      <4> QED
        BY <4>1, <4>2
    <3> QED
      BY <3>1, <3>2, <3>4 DEF passVars, senderVars
  <2> QED
    BY <1>2, <2>1, <2>2, <2>3 DEF BuildNext
<1>3. ASSUME NEW p \in Proc, PassNext(p) PROVE Goal
  <2>1. seen[p].row \in Messages
    BY DEF Seen
  <2>2. ASSUME NEW r \in Messages, Look(p, r) PROVE Goal
    BY <2>2 DEF Look, PassFrame, buildVars, senderVars
  <2>3. CASE Reap(p) \/ PassBy(p)
    BY <2>3 DEF Reap, PassBy, PassGoesOn, PassFrame, buildVars, senderVars
  <2>4. CASE SettleLate(p)
    <3>1. UNCHANGED <<at, senderVars, lost, faults>> /\ PassFrame
      BY <2>4, Zenon DEF SettleLate
    <3> QED
      BY <3>1, <1>1 DEF PassFrame
  <2>5. CASE Claim(p)
    BY <2>5 DEF Claim, PassFrame, buildVars, senderVars
  <2>6. CASE Submit(p)
    BY <2>6, <2>1 DEF Submit, PassGoesOn, PassFrame, buildVars
  <2> QED
    BY <1>3, <2>2, <2>3, <2>4, <2>5, <2>6 DEF PassNext, Act
<1>4. ASSUME NEW p \in Proc, Work(p) PROVE Goal
  <2>1. ASSUME NEW r \in Messages, BeginSend(p, r) PROVE Goal
    <3>1. /\ inFlight' \in [Proc -> SUBSET Messages]
          /\ sending' \in [Proc -> SUBSET [row: Messages, attempt: Nat]]
          /\ sends' \in [Row -> Nat]
      BY <2>1 DEF BeginSend, Row
    <3> QED
      BY <2>1, <3>1 DEF BeginSend, SenderFrame, buildVars, passVars
  <2>2. ASSUME NEW s \in sending[p], EndSend(p, s) \/ Retry(p, s) PROVE Goal
    <3>1. Leave(p, s) /\ UNCHANGED <<lost, faults>>
      BY <2>2 DEF EndSend, Retry
    <3> QED
      BY <3>1 DEF Leave, SenderFrame, buildVars, passVars
  <2> QED
    BY <1>4, <2>1, <2>2 DEF Work
<1>5. ASSUME NEW p \in Proc, NEW s \in sending[p], SaveFails(p, s) PROVE Goal
  BY <1>5 DEF SaveFails, Leave, SenderFrame, buildVars, passVars, Row
<1>6. ASSUME NEW p \in Proc, Crash(p) PROVE Goal
  <2>1. \A r \in Row : Holds(p, r) \in BOOLEAN
    BY DEF Holds
  <2> QED
    BY <1>6, <2>1 DEF Crash, PassGoesOn, PassFrame, buildVars
<1>7. ASSUME NEW r \in Messages, Backoff(r) \/ ClaimAges(r) PROVE Goal
  BY <1>7, <1>1 DEF Backoff, ClaimAges, passVars
<1> QED
  BY <1>1, <1>2, <1>3, <1>4, <1>5, <1>6, <1>7 DEF Next, vars, passVars

\* And so does what each pass has read.
LEMMA SeenType ==
    ASSUME TypeOK, [Next]_vars
    PROVE  seen' \in [Proc -> Seen]
<1> USE DEF TypeOK
<1>1. ASSUME UNCHANGED seen PROVE seen' \in [Proc -> Seen]
  BY <1>1
<1>2. ASSUME NEW p \in Proc, PassGoesOn(p) PROVE seen' \in [Proc -> Seen]
  BY <1>2, NothingType DEF PassGoesOn
<1>3. ASSUME NEW p \in Proc, NEW r \in Messages, Look(p, r) PROVE seen' \in [Proc -> Seen]
  <2>1. View(r) \in Seen
    BY ViewType DEF Statuses, Phases
  <2> QED
    BY <1>3, <2>1 DEF Look
<1>4. ASSUME NEW p \in Proc, SettleLate(p) PROVE seen' \in [Proc -> Seen]
  <2>1. PICK r \in Messages : seen' = [seen EXCEPT ![p] = View(r)']
    BY <1>4, Zenon DEF SettleLate
  <2>2. View(r)' \in Seen
    BY RowTypes DEF View, Seen, Statuses, Phases, Row
  <2> QED
    BY <2>1, <2>2
<1>5. ASSUME BuildNext PROVE UNCHANGED seen
  BY <1>5 DEF BuildNext, Start, StagesOver, CloseCleanups, SkipCleanup, StartCleanup, PollCleanup,
              CleanupFrame, FinishBuild, passVars
<1>6. ASSUME NEW p \in Proc, Reap(p) \/ PassBy(p) \/ Submit(p) \/ Crash(p) PROVE PassGoesOn(p)
  BY <1>6 DEF Reap, PassBy, Submit, Crash
<1>7. ASSUME NEW p \in Proc, Work(p) \/ (\E s \in sending[p] : SaveFails(p, s)) PROVE UNCHANGED seen
  BY <1>7 DEF Work, BeginSend, EndSend, Retry, SaveFails, Leave, SenderFrame, passVars
<1>8. ASSUME NEW p \in Proc, Claim(p) PROVE UNCHANGED seen
  BY <1>8 DEF Claim
<1>9. ASSUME NEW r \in Messages, Backoff(r) \/ ClaimAges(r) PROVE UNCHANGED seen
  BY <1>9 DEF Backoff, ClaimAges, passVars
<1> QED
  BY <1>1, <1>2, <1>3, <1>4, <1>5, <1>6, <1>7, <1>8, <1>9 DEF Next, PassNext, Act, vars, passVars

\* A build with nothing decided is well typed.
LEMMA InitTypes == Init => TypeOK
<1> SUFFICES ASSUME Init PROVE TypeOK
  OBVIOUS
<1>1. seen \in [Proc -> Seen]
  BY NothingType DEF Init
<1> QED
  BY <1>1 DEF Init, TypeOK, Ended, Final

---------------------------------------------------------------------------
(* The inductive invariant                                                 *)

\* A row in hand is not pending, and in one process's hands: so a claim, which
\* asks for "pending", gives a row to nobody twice.
HeldInv ==
    /\ OneHolder
    /\ \A p \in Proc, r \in Messages : Holds(p, r) => status[r] # "pending"
    /\ \A p \in Proc : at[p] = "claimed" => seen[p].row \notin inFlight[p]

\* What a worker sends is in flight, and sent by one worker.
SendInv ==
    \A p \in Proc : \A s \in sending[p] :
        s.row \in inFlight[p] /\ \A t \in sending[p] : t.row = s.row => t = s

\* Whatever is queued, in hand, seen as such by a pass, or settled other than as
\* skipped, is something the ended build asked for.
StoryInv ==
    /\ \A p \in Proc : at[p] # "idle" => build \in Ended
    /\ \A r \in Messages :
         phase[r] = "queued" \/ status[r] \notin {"pending", "skipped"} => Asked(r)
    /\ \A p \in Proc, r \in Messages :
         at[p] = "looked" /\ seen[p].row = r /\ (seen[p].phase = "queued" \/ seen[p].status = "running")
             => Asked(r)
    /\ \A p \in Proc, r \in Messages : Holds(p, r) => Asked(r)

\* Ending the build closed the cleanups, unless it raised half-way.
CleanInv == build \in Ended => OpenCleanups = {} \/ unsettled

\* A row whose holder is gone is never in hand again, nor pending.
LostInv ==
    \A r \in Messages : lost[r] => status[r] # "pending" /\ \A p \in Proc : ~Holds(p, r)

\* If no send outlasts its claim, a row in hand is running with a fresh claim, and
\* what a pass has seen to be interrupted is in nobody's hands.
AgeInv == ~world.slow =>
    /\ \A p \in Proc, r \in Messages : Holds(p, r) => status[r] = "running" /\ ~old[r]
    /\ \A p \in Proc, r \in Messages :
         at[p] = "looked" /\ seen[p].row = r /\ seen[p].status = "running" /\ seen[p].old =>
         /\ status[r] \in {"running", "failed"}
         /\ \A q \in Proc : ~Holds(q, r)

PostInv == TypeOK /\ HeldInv /\ SendInv /\ StoryInv /\ CleanInv /\ LostInv /\ AgeInv

---------------------------------------------------------------------------
(* The build, up to its end                                                *)

\* Until the build has ended no pass looks at its rows and none is in hand.
LEMMA NothingBeforeTheEnd ==
    ASSUME StoryInv, build \notin Ended
    PROVE  \A p \in Proc : at[p] = "idle" /\ \A r \in Messages : ~Holds(p, r)
BY DEF StoryInv, Asked

\* A row's place in the hands of the processes depends on these three alone.
LEMMA SameHolders ==
    ASSUME UNCHANGED <<at, seen, inFlight>>, NEW p \in Proc, NEW r \in Messages
    PROVE  Holds(p, r)' <=> Holds(p, r)
BY DEF Holds

\* What the build does with a notification before it ends: nothing, and at its
\* end it is queued for a result that triggers it, or skipped.
KeptOrDecided(r) ==
    \/ status'[r] = status[r] /\ phase'[r] = phase[r]
    \/ build' \in Ended /\ status'[r] = "skipped" /\ phase'[r] # "queued"
    \/ build' \in Ended /\ status'[r] = status[r] /\ Told(r, build')

\* Closing cleanups leaves every notification alone.
LEMMA ClosedKeeps ==
    ASSUME TypeOK, NEW rows \in SUBSET Cleanups, NEW how, Closed(rows, how), NEW r \in Messages
    PROVE  status'[r] = status[r] /\ phase'[r] = phase[r]
<1>1. r \in Row /\ r \notin rows
  BY DEF Row
<1> QED
  BY <1>1 DEF Closed

\* Settling the rows decides the notifications among them, and closes every
\* cleanup among them.
LEMMA SettleDecides ==
    ASSUME TypeOK, NEW rows, NEW result \in Ended, Settle(rows, result), build' = result
    PROVE  /\ \A r \in Messages : KeptOrDecided(r)
           /\ \A r \in Cleanups : r \in rows => status'[r] \notin {"pending", "running"}
<1> DEFINE waiting == {r \in rows : status[r] = "pending" /\ (r \in Messages => phase[r] = "waiting")}
           told == {r \in waiting \cap Messages : Told(r, result)}
           stopped == {r \in rows \cap Cleanups : status[r] = "running"}
<1>1. /\ status' = [r \in Row |-> IF r \in waiting \ told THEN "skipped"
                                  ELSE IF r \in stopped THEN "cancelled" ELSE status[r]]
      /\ phase' = [r \in Row |-> IF r \in told THEN "queued"
                                 ELSE IF r \in waiting \cup stopped THEN "done" ELSE phase[r]]
  BY Zenon DEF Settle
<1>2. ASSUME NEW r \in Messages PROVE KeptOrDecided(r)
  <2>1. r \in Row /\ r \notin stopped
    BY DEF Row
  <2>2. CASE r \in told
    <3>1. Told(r, result)
      BY <2>2
    <3>2. status'[r] = status[r]
      BY <1>1, <2>1, <2>2
    <3> QED
      BY <3>1, <3>2 DEF KeptOrDecided
  <2>3. CASE r \in waiting \ told
    <3> HIDE DEF waiting, told, stopped
    <3>1. status'[r] = "skipped" /\ phase'[r] = "done"
      BY <1>1, <2>1, <2>3
    <3> QED
      BY <3>1 DEF KeptOrDecided
  <2>4. CASE r \notin waiting
    <3>1. r \notin told
      BY <2>4
    <3> HIDE DEF waiting, told, stopped
    <3> QED
      BY <1>1, <2>1, <2>4, <3>1 DEF KeptOrDecided
  <2> QED
    BY <2>2, <2>3, <2>4
<1>3. ASSUME NEW r \in Cleanups, r \in rows PROVE status'[r] \notin {"pending", "running"}
  <2>1. r \in Row /\ r \notin told /\ r \notin Messages
    BY DEF Row
  <2>2. CASE status[r] = "pending"
    <3>1. r \in waiting \ told
      BY <1>3, <2>1, <2>2
    <3> HIDE DEF waiting, told, stopped
    <3> QED
      BY <1>1, <2>1, <3>1
  <2>3. CASE status[r] # "pending"
    <3>1. r \notin waiting /\ (status[r] = "running" => r \in stopped)
      BY <1>3, <2>1, <2>3
    <3> HIDE DEF waiting, told, stopped
    <3> QED
      BY <1>1, <2>1, <2>3, <3>1
  <2> QED
    BY <2>2, <2>3
<1> QED
  BY <1>2, <1>3

\* A step of the build, seen from its notifications.
LEMMA BuildSteps ==
    ASSUME TypeOK, BuildNext
    PROVE  /\ build \notin Ended
           /\ UNCHANGED <<world, at, seen, inFlight, sending, sends, lost>>
           /\ \A r \in Messages : KeptOrDecided(r)
           /\ CleanInv'
<1> DEFINE Goal == /\ build \notin Ended
                   /\ UNCHANGED <<world, at, seen, inFlight, sending, sends, lost>>
                   /\ \A r \in Messages : KeptOrDecided(r)
                   /\ CleanInv'
<1>1. ASSUME Start \/ StagesOver PROVE Goal
  BY <1>1 DEF Start, StagesOver, passVars, senderVars, rowVars, KeptOrDecided, CleanInv, Ended
<1>2. ASSUME Holding, CleanupFrame, \A r \in Messages : status'[r] = status[r] /\ phase'[r] = phase[r]
      PROVE  Goal
  BY <1>2 DEF Holding, CleanupFrame, passVars, senderVars, buildVars, KeptOrDecided, CleanInv, Ended
<1>3. CASE CloseCleanups
  <2>1. OpenCleanups \in SUBSET Cleanups
    BY DEF OpenCleanups
  <2> QED
    BY <1>2, <1>3, <2>1, ClosedKeeps DEF CloseCleanups
<1>4. ASSUME NEW r \in Cleanups, SkipCleanup(r) \/ StartCleanup(r) \/ PollCleanup(r) PROVE Goal
  <2>1. {r} \in SUBSET Cleanups
    OBVIOUS
  <2>2. Holding /\ CleanupFrame
    BY <1>4, Zenon DEF SkipCleanup, StartCleanup, PollCleanup
  <2>3. \/ \E how : Closed({r}, how)
        \/ status' = [status EXCEPT ![r] = "running"] /\ phase' = [phase EXCEPT ![r] = "running"]
    BY <1>4, Zenon DEF SkipCleanup, StartCleanup, PollCleanup
  <2>4. \A x \in Messages : status'[x] = status[x] /\ phase'[x] = phase[x]
    BY <2>1, <2>3, ClosedKeeps DEF TypeOK, Row
  <2> QED
    BY <1>2, <2>2, <2>4
<1>5. ASSUME NEW result \in Ended, FinishBuild(result) PROVE Goal
  <2>1. build \notin Ended
    BY <1>5 DEF FinishBuild, Decided, CutShort, Ended
  <2>2. /\ build' = result
        /\ UNCHANGED <<stages, world, old, passVars, senderVars, lost>>
        /\ Settle(Row, result) \/ (unsettled' = TRUE /\ \E rows \in SUBSET Row : Settle(rows, result))
    BY <1>5, Zenon DEF FinishBuild
  <2>3. \A r \in Messages : KeptOrDecided(r)
    BY <2>2, SettleDecides, Zenon
  <2>4. CleanInv'
    <3>1. CASE Settle(Row, result)
      <4>1. \A r \in Cleanups : status'[r] \notin {"pending", "running"}
        BY <2>2, <3>1, SettleDecides, Zenon DEF Row
      <4> QED
        BY <4>1 DEF CleanInv, OpenCleanups
    <3>2. CASE unsettled' = TRUE
      BY <3>2, Zenon DEF CleanInv
    <3> QED
      BY <2>2, <3>1, <3>2
  <2> QED
    BY <2>1, <2>2, <2>3, <2>4 DEF passVars, senderVars
<1> QED
  BY <1>1, <1>3, <1>4, <1>5 DEF BuildNext

\* The invariant but for its types: what each step is shown to keep.
Kept == HeldInv /\ SendInv /\ StoryInv /\ LostInv /\ AgeInv

\* The build's steps keep it: nothing is in hand yet.
LEMMA BuildKeeps ==
    ASSUME PostInv, TypeOK', BuildNext
    PROVE  Kept' /\ CleanInv'
<1>1. build \notin Ended /\ UNCHANGED <<world, at, seen, inFlight, sending, sends, lost>>
  BY BuildSteps DEF PostInv
<1>2. \A r \in Messages : KeptOrDecided(r)
  BY BuildSteps DEF PostInv
<1>3. \A p \in Proc : at[p] = "idle" /\ \A r \in Messages : ~Holds(p, r)
  BY <1>1, NothingBeforeTheEnd DEF PostInv
<1>4. \A p \in Proc : at'[p] = "idle" /\ \A r \in Messages : ~Holds(p, r)'
  BY <1>1, <1>3, SameHolders
<1>5. HeldInv'
  BY <1>4 DEF HeldInv, OneHolder
<1>6. SendInv'
  BY <1>1 DEF PostInv, SendInv
<1>7. StoryInv'
  <2>1. ASSUME NEW r \in Messages, phase'[r] = "queued" \/ status'[r] \notin {"pending", "skipped"}
        PROVE  build' \in Ended /\ Told(r, build')
    BY <1>1, <1>2, <2>1 DEF KeptOrDecided, PostInv, StoryInv, Asked
  <2>2. build' \in Ended => started' = started
    BY <1>1 DEF BuildNext, Start, StagesOver, CleanupFrame, CloseCleanups, SkipCleanup, StartCleanup,
                PollCleanup, FinishBuild, buildVars, Ended
  <2>3. build' \in Ended => \A r \in Messages : Told(r, build') <=> Told(r, build)'
    BY <1>1, <2>2 DEF Told, Triggered
  <2> QED
    BY <1>4, <2>1, <2>3 DEF StoryInv, Asked
<1>8. LostInv'
  BY <1>1, <1>2, <1>4 DEF PostInv, LostInv, KeptOrDecided
<1>9. AgeInv'
  BY <1>4 DEF AgeInv
<1> QED
  BY <1>5, <1>6, <1>7, <1>8, <1>9, BuildSteps DEF Kept, PostInv

---------------------------------------------------------------------------
(* Passes and workers, once the build has ended                            *)

\* Everything else leaves the build and its cleanups alone.
LEMMA OtherSteps ==
    ASSUME TypeOK, NEW p \in Proc,
           \/ PassNext(p) \/ Work(p) \/ Crash(p) \/ (\E s \in sending[p] : SaveFails(p, s))
           \/ \E r \in Messages : Backoff(r) \/ ClaimAges(r)
    PROVE  UNCHANGED <<build, started, stages, world, unsettled>> /\ \A r \in Cleanups : status'[r] = status[r]
<1> DEFINE Goal == UNCHANGED <<build, started, stages, world, unsettled>> /\ \A r \in Cleanups : status'[r] = status[r]
<1> USE DEF PassFrame, SenderFrame, buildVars, rowVars
<1>1. \A r \in Cleanups : r \in Row /\ r \notin Messages
  BY DEF Row
<1>2. ASSUME NEW x \in Messages, NEW how, Closed({x}, how) PROVE \A r \in Cleanups : status'[r] = status[r]
  BY <1>1, <1>2 DEF Closed
<1>3. ASSUME NEW x \in Messages, NEW how, status' = [status EXCEPT ![x] = how]
      PROVE  \A r \in Cleanups : status'[r] = status[r]
  BY <1>1, <1>3 DEF TypeOK
<1>4. seen[p].row \in Messages /\ \A s \in sending[p] : s.row \in Messages
  BY DEF TypeOK, Seen
<1>5. CASE PassNext(p)
  <2>1. ASSUME NEW r \in Messages, Look(p, r) PROVE Goal
    BY <2>1 DEF Look
  <2>2. CASE Reap(p)
    BY <1>2, <1>4, <2>2 DEF Reap
  <2>3. CASE SettleLate(p)
    <3>1. PassFrame /\ \E x \in Messages : UNCHANGED status \/ Closed({x}, "skipped")
      BY <2>3, Zenon DEF SettleLate
    <3> QED
      BY <1>2, <3>1
  <2>4. CASE Claim(p)
    BY <1>3, <2>4 DEF Claim
  <2>5. CASE PassBy(p) \/ Submit(p)
    BY <2>5 DEF PassBy, Submit
  <2> QED
    BY <1>5, <2>1, <2>2, <2>3, <2>4, <2>5 DEF PassNext, Act
<1>6. ASSUME NEW r \in Messages, BeginSend(p, r) PROVE Goal
  BY <1>6 DEF BeginSend
<1>7. ASSUME NEW s \in sending[p], EndSend(p, s) \/ Retry(p, s) \/ SaveFails(p, s) PROVE Goal
  <2>1. Leave(p, s)
    BY <1>7 DEF EndSend, Retry, SaveFails
  <2>2. \A r \in Cleanups : status'[r] = status[r]
    BY <1>2, <1>3, <1>4, <1>7 DEF EndSend, Retry, SaveFails
  <2> QED
    BY <2>1, <2>2 DEF Leave
<1>8. ASSUME Crash(p) \/ \E r \in Messages : Backoff(r) \/ ClaimAges(r) PROVE Goal
  BY <1>8 DEF Crash, Backoff, ClaimAges
<1> QED
  BY <1>5, <1>6, <1>7, <1>8 DEF Work

\* So what the build asked for stays what it asked for, and its cleanups closed.
LEMMA SameBuild ==
    ASSUME UNCHANGED <<build, started, stages, world, unsettled>>, \A r \in Cleanups : status'[r] = status[r]
    PROVE  (\A r \in Messages : Asked(r)' <=> Asked(r)) /\ (CleanInv => CleanInv')
BY DEF Asked, Told, Triggered, CleanInv, OpenCleanups

\* A pass reads a row.
LEMMA LookKeeps ==
    ASSUME PostInv, NEW p \in Proc, NEW r \in Messages, Look(p, r), build' = build, world' = world,
           \A x \in Messages : Asked(x)' <=> Asked(x)
    PROVE  Kept'
<1>1. /\ at[p] = "idle" /\ build \in Ended /\ status[r] \in {"pending", "running"}
      /\ at' = [at EXCEPT ![p] = "looked"]
      /\ seen' = [seen EXCEPT ![p] = View(r)]
      /\ UNCHANGED <<status, phase, old, inFlight, sending, lost>>
  BY DEF Look, rowVars, senderVars
<1>2. at \in [Proc -> {"idle", "looked", "claimed"}] /\ seen \in [Proc -> Seen]
  BY DEF PostInv, TypeOK
<1>3. seen'[p].row = r /\ seen'[p].status = status[r] /\ seen'[p].phase = phase[r] /\ seen'[p].old = old[r]
  BY <1>1, <1>2 DEF View
<1>4. \A q \in Proc : q # p => at'[q] = at[q] /\ seen'[q] = seen[q]
  BY <1>1, <1>2
<1>5. \A q \in Proc, x \in Messages : Holds(q, x)' <=> Holds(q, x)
  BY <1>1, <1>2, <1>4 DEF Holds
<1>6. at'[p] = "looked"
  BY <1>1, <1>2
<1>7. HeldInv'
  BY <1>1, <1>4, <1>5, <1>6 DEF PostInv, HeldInv, OneHolder
<1>8. SendInv'
  BY <1>1 DEF PostInv, SendInv
<1>9. StoryInv'
  <2>1. \A q \in Proc : at'[q] # "idle" => build' \in Ended
    BY <1>1
  <2>2. \A x \in Messages :
          phase'[x] = "queued" \/ status'[x] \notin {"pending", "skipped"} => Asked(x)'
    BY <1>1 DEF PostInv, StoryInv
  <2>3. ASSUME NEW q \in Proc, NEW x \in Messages, at'[q] = "looked", seen'[q].row = x,
               seen'[q].phase = "queued" \/ seen'[q].status = "running"
        PROVE  Asked(x)'
    <3>1. CASE q = p
      BY <1>3, <1>1, <2>2, <2>3, <3>1
    <3>2. CASE q # p
      BY <1>4, <2>3, <3>2 DEF PostInv, StoryInv
    <3> QED
      BY <3>1, <3>2
  <2> QED
    BY <1>5, <2>1, <2>2, <2>3 DEF PostInv, StoryInv
<1>10. LostInv'
  BY <1>1, <1>5 DEF PostInv, LostInv
<1>11. AgeInv'
  <2> SUFFICES ASSUME ~world.slow PROVE AgeInv'
    BY DEF AgeInv
  <2>1. \A q \in Proc, x \in Messages : Holds(q, x)' => status'[x] = "running" /\ ~old'[x]
    BY <1>1, <1>5 DEF PostInv, AgeInv
  <2>2. ASSUME NEW q \in Proc, NEW x \in Messages, at'[q] = "looked", seen'[q].row = x,
               seen'[q].status = "running", seen'[q].old
        PROVE  status'[x] \in {"running", "failed"} /\ \A o \in Proc : ~Holds(o, x)'
    <3>1. CASE q = p
      BY <1>1, <1>3, <2>1, <2>2, <3>1
    <3>2. CASE q # p
      <4>1. status[x] \in {"running", "failed"} /\ \A o \in Proc : ~Holds(o, x)
        BY <1>4, <2>2, <3>2 DEF PostInv, AgeInv
      <4> QED
        BY <1>1, <1>5, <4>1
    <3> QED
      BY <3>1, <3>2
  <2> QED
    BY <2>1, <2>2 DEF AgeInv
<1> QED
  BY <1>7, <1>8, <1>9, <1>10, <1>11 DEF Kept

\* A pass that goes on to the next row is done with this one.
LEMMA PassedOn ==
    ASSUME TypeOK, NEW p \in Proc, PassGoesOn(p)
    PROVE  at'[p] = "idle" /\ \A q \in Proc : q # p => at'[q] = at[q] /\ seen'[q] = seen[q]
BY DEF TypeOK, PassGoesOn

\* A pass has nothing to do for the row it read.
LEMMA PassByKeeps ==
    ASSUME PostInv, NEW p \in Proc, PassBy(p), build' = build, world' = world,
           \A x \in Messages : Asked(x)' <=> Asked(x)
    PROVE  Kept'
<1>1. at[p] = "looked" /\ UNCHANGED <<status, phase, old, inFlight, sending, lost>>
  BY DEF PassBy, rowVars, senderVars
<1>2. at'[p] = "idle" /\ \A q \in Proc : q # p => at'[q] = at[q] /\ seen'[q] = seen[q]
  BY PassedOn DEF PassBy, PostInv
<1>3. \A q \in Proc, x \in Messages : Holds(q, x)' <=> Holds(q, x)
  BY <1>1, <1>2 DEF Holds
<1>4. HeldInv'
  BY <1>1, <1>2, <1>3 DEF PostInv, HeldInv, OneHolder
<1>5. SendInv'
  BY <1>1 DEF PostInv, SendInv
<1>6. StoryInv'
  BY <1>1, <1>2, <1>3 DEF PostInv, StoryInv
<1>7. LostInv'
  BY <1>1, <1>3 DEF PostInv, LostInv
<1>8. AgeInv'
  BY <1>1, <1>2, <1>3 DEF PostInv, AgeInv
<1> QED
  BY <1>4, <1>5, <1>6, <1>7, <1>8 DEF Kept

\* A pass hands what it claimed to a worker thread: still in its hands.
LEMMA SubmitKeeps ==
    ASSUME PostInv, NEW p \in Proc, Submit(p), build' = build, world' = world,
           \A x \in Messages : Asked(x)' <=> Asked(x)
    PROVE  Kept'
<1>1. /\ at[p] = "claimed" /\ inFlight' = [inFlight EXCEPT ![p] = @ \cup {seen[p].row}]
      /\ UNCHANGED <<status, phase, old, sending, lost>>
  BY DEF Submit, rowVars
<1>2. at'[p] = "idle" /\ \A q \in Proc : q # p => at'[q] = at[q] /\ seen'[q] = seen[q]
  BY PassedOn DEF Submit, PostInv
<1>3. /\ inFlight'[p] = inFlight[p] \cup {seen[p].row}
      /\ \A q \in Proc : q # p => inFlight'[q] = inFlight[q]
  BY <1>1 DEF PostInv, TypeOK
<1>4. \A q \in Proc, x \in Messages : Holds(q, x)' <=> Holds(q, x)
  BY <1>1, <1>2, <1>3 DEF Holds
<1>5. HeldInv'
  BY <1>1, <1>2, <1>3, <1>4 DEF PostInv, HeldInv, OneHolder
<1>6. SendInv'
  BY <1>1, <1>3 DEF PostInv, SendInv
<1>7. StoryInv'
  BY <1>1, <1>2, <1>4 DEF PostInv, StoryInv
<1>8. LostInv'
  BY <1>1, <1>4 DEF PostInv, LostInv
<1>9. AgeInv'
  BY <1>1, <1>2, <1>4 DEF PostInv, AgeInv
<1> QED
  BY <1>5, <1>6, <1>7, <1>8, <1>9 DEF Kept

\* A pass closes a row as interrupted: unless a send can outlast its claim, one
\* that nobody holds.
LEMMA ReapKeeps ==
    ASSUME PostInv, NEW p \in Proc, Reap(p), build' = build, world' = world,
           \A x \in Messages : Asked(x)' <=> Asked(x)
    PROVE  Kept'
<1>1. /\ at[p] = "looked" /\ seen[p].status = "running" /\ seen[p].old
      /\ UNCHANGED <<old, inFlight, sending, lost>>
  BY DEF Reap, Interrupted, senderVars
<1>2. at'[p] = "idle" /\ \A q \in Proc : q # p => at'[q] = at[q] /\ seen'[q] = seen[q]
  BY PassedOn DEF Reap, PostInv
<1>3. PICK r \in Messages : r = seen[p].row
  BY DEF PostInv, TypeOK, Seen
<1>4. /\ status'[r] = "failed" /\ phase'[r] = "done"
      /\ \A x \in Messages : x # r => status'[x] = status[x] /\ phase'[x] = phase[x]
  BY <1>3 DEF Reap, Closed, Row
<1>5. \A q \in Proc, x \in Messages : Holds(q, x)' <=> Holds(q, x)
  BY <1>1, <1>2 DEF Holds
<1>6. Asked(r)
  BY <1>1, <1>3 DEF PostInv, StoryInv
<1>7. HeldInv'
  BY <1>1, <1>2, <1>4, <1>5 DEF PostInv, HeldInv, OneHolder
<1>8. SendInv'
  BY <1>1 DEF PostInv, SendInv
<1>9. StoryInv'
  BY <1>2, <1>4, <1>5, <1>6 DEF PostInv, StoryInv
<1>10. LostInv'
  BY <1>1, <1>4, <1>5 DEF PostInv, LostInv
<1>11. AgeInv'
  <2> SUFFICES ASSUME ~world.slow PROVE AgeInv'
    BY DEF AgeInv
  <2>1. \A q \in Proc : ~Holds(q, r)
    BY <1>1, <1>3 DEF PostInv, AgeInv
  <2> QED
    BY <1>1, <1>2, <1>4, <1>5, <2>1 DEF PostInv, AgeInv
<1> QED
  BY <1>7, <1>8, <1>9, <1>10, <1>11 DEF Kept

\* A pass decides a row the end of the build left undecided.
LEMMA SettleLateKeeps ==
    ASSUME PostInv, NEW p \in Proc, SettleLate(p), build' = build, world' = world,
           \A x \in Messages : Asked(x)' <=> Asked(x)
    PROVE  Kept'
<1>1. UNCHANGED <<at, inFlight, sending, lost>>
  BY Zenon DEF SettleLate, senderVars
<1>2. PICK r \in Messages :
        /\ at[p] = "looked" /\ r = seen[p].row
        /\ \/ Told(r, build) /\ phase' = [phase EXCEPT ![r] = "queued"] /\ UNCHANGED status
           \/ ~Told(r, build) /\ Closed({r}, "skipped")
        /\ UNCHANGED old
        /\ seen' = [seen EXCEPT ![p] = View(r)']
  BY Zenon DEF SettleLate
<1>3. \A x \in Messages : x # r => status'[x] = status[x] /\ phase'[x] = phase[x]
  BY <1>2 DEF PostInv, TypeOK, Closed, Row
<1>4. \/ Told(r, build) /\ status'[r] = status[r]
      \/ ~Told(r, build) /\ status'[r] = "skipped" /\ phase'[r] = "done"
  BY <1>2 DEF PostInv, TypeOK, Closed, Row
<1>5. seen'[p].row = r /\ seen'[p].status = status'[r] /\ seen'[p].phase = phase'[r] /\ seen'[p].old = old'[r]
  BY <1>2 DEF PostInv, TypeOK, View
<1>6. \A q \in Proc : q # p => seen'[q] = seen[q]
  BY <1>2 DEF PostInv, TypeOK
<1>7. \A q \in Proc, x \in Messages : Holds(q, x)' <=> Holds(q, x)
  BY <1>1, <1>2, <1>6 DEF Holds
<1>8. Asked(r) <=> Told(r, build)
  BY <1>2 DEF PostInv, StoryInv, Asked
<1>9. HeldInv'
  BY <1>1, <1>2, <1>3, <1>4, <1>6, <1>7 DEF PostInv, HeldInv, OneHolder
<1>10. SendInv'
  BY <1>1 DEF PostInv, SendInv
<1>11. StoryInv'
  <2>1. \A q \in Proc : at'[q] # "idle" => build' \in Ended
    BY <1>1 DEF PostInv, StoryInv
  <2>2. \A x \in Messages :
          phase'[x] = "queued" \/ status'[x] \notin {"pending", "skipped"} => Asked(x)'
    BY <1>3, <1>4, <1>8 DEF PostInv, StoryInv
  <2>3. \A q \in Proc, x \in Messages :
          at'[q] = "looked" /\ seen'[q].row = x /\ (seen'[q].phase = "queued" \/ seen'[q].status = "running")
            => Asked(x)'
    BY <1>1, <1>5, <1>6, <2>2 DEF PostInv, StoryInv
  <2> QED
    BY <1>7, <2>1, <2>2, <2>3 DEF PostInv, StoryInv
<1>12. LostInv'
  BY <1>1, <1>3, <1>4, <1>7 DEF PostInv, LostInv
<1>13. AgeInv'
  <2> SUFFICES ASSUME ~world.slow PROVE AgeInv'
    BY DEF AgeInv
  <2>1. \A q \in Proc, x \in Messages : Holds(q, x)' => status'[x] = "running" /\ ~old'[x]
    BY <1>2, <1>3, <1>4, <1>7, <1>8 DEF PostInv, AgeInv, StoryInv
  <2>2. ASSUME NEW q \in Proc, NEW x \in Messages, at'[q] = "looked", seen'[q].row = x,
               seen'[q].status = "running", seen'[q].old
        PROVE  status'[x] \in {"running", "failed"} /\ \A o \in Proc : ~Holds(o, x)'
    <3>1. CASE q = p
      BY <1>5, <2>1, <2>2, <3>1
    <3>2. CASE q # p
      <4>1. Asked(x) /\ status[x] \in {"running", "failed"} /\ \A o \in Proc : ~Holds(o, x)
        BY <1>1, <1>6, <2>2, <3>2 DEF PostInv, AgeInv, StoryInv
      <4> QED
        BY <1>3, <1>4, <1>7, <1>8, <4>1
    <3> QED
      BY <3>1, <3>2
  <2> QED
    BY <2>1, <2>2 DEF AgeInv
<1> QED
  BY <1>9, <1>10, <1>11, <1>12, <1>13 DEF Kept

\* A pass claims a row that is pending: one that nobody holds, nor ever lost.
LEMMA ClaimKeeps ==
    ASSUME PostInv, NEW p \in Proc, Claim(p), build' = build, world' = world,
           \A x \in Messages : Asked(x)' <=> Asked(x)
    PROVE  Kept'
<1>1. UNCHANGED <<seen, inFlight, sending, lost>>
  BY DEF Claim, senderVars
<1>2. PICK r \in Messages :
        /\ at[p] = "looked" /\ r = seen[p].row /\ seen[p].phase = "queued" /\ status[r] = "pending"
        /\ status' = [status EXCEPT ![r] = "running"]
        /\ phase' = [phase EXCEPT ![r] = "sending"]
        /\ old' = [old EXCEPT ![r] = FALSE]
        /\ at' = [at EXCEPT ![p] = "claimed"]
  BY DEF Claim, Claimable, MayClaim
<1>3. at'[p] = "claimed" /\ \A q \in Proc : q # p => at'[q] = at[q]
  BY <1>2 DEF PostInv, TypeOK
<1>4. /\ status'[r] = "running" /\ phase'[r] = "sending" /\ ~old'[r]
      /\ \A x \in Messages : x # r => status'[x] = status[x] /\ phase'[x] = phase[x] /\ old'[x] = old[x]
  BY <1>2 DEF PostInv, TypeOK, Row
<1>5. (\A q \in Proc : ~Holds(q, r)) /\ ~lost[r]
  BY <1>2 DEF PostInv, HeldInv, LostInv
<1>6. \A q \in Proc, x \in Messages : Holds(q, x)' <=> Holds(q, x) \/ (q = p /\ x = r)
  BY <1>1, <1>2, <1>3 DEF Holds
<1>7. Asked(r)
  BY <1>2 DEF PostInv, StoryInv
<1>8. HeldInv'
  <2>1. OneHolder'
    BY <1>5, <1>6 DEF PostInv, HeldInv, OneHolder
  <2>2. r \notin inFlight[p]
    BY <1>5 DEF Holds
  <2> QED
    BY <1>1, <1>2, <1>3, <1>4, <1>6, <2>1, <2>2 DEF PostInv, HeldInv
<1>9. SendInv'
  BY <1>1 DEF PostInv, SendInv
<1>10. StoryInv'
  BY <1>1, <1>3, <1>4, <1>6, <1>7 DEF PostInv, StoryInv, Asked
<1>11. LostInv'
  BY <1>1, <1>4, <1>5, <1>6 DEF PostInv, LostInv
<1>12. AgeInv'
  <2> SUFFICES ASSUME ~world.slow PROVE AgeInv'
    BY DEF AgeInv
  <2>1. \A q \in Proc, x \in Messages : Holds(q, x)' => status'[x] = "running" /\ ~old'[x]
    BY <1>4, <1>6 DEF PostInv, AgeInv
  <2>2. ASSUME NEW q \in Proc, NEW x \in Messages, at'[q] = "looked", seen'[q].row = x,
               seen'[q].status = "running", seen'[q].old
        PROVE  status'[x] \in {"running", "failed"} /\ \A o \in Proc : ~Holds(o, x)'
    <3>1. at[q] = "looked"
      BY <1>3, <2>2
    <3>2. status[x] \in {"running", "failed"} /\ \A o \in Proc : ~Holds(o, x)
      BY <1>1, <2>2, <3>1 DEF PostInv, AgeInv
    <3>3. x # r
      BY <1>2, <3>2
    <3> QED
      BY <1>4, <1>6, <3>2, <3>3
  <2> QED
    BY <2>1, <2>2 DEF AgeInv
<1> QED
  BY <1>8, <1>9, <1>10, <1>11, <1>12 DEF Kept

\* A process lets go of some rows without touching any row: they are in nobody's
\* hands then.
LEMMA LetGoKeeps ==
    ASSUME PostInv, build' = build, world' = world, UNCHANGED <<status, phase, old>>,
           \A x \in Messages : Asked(x)' <=> Asked(x),
           NEW p \in Proc, NEW gone \in SUBSET Messages,
           \A x \in gone : Holds(p, x),
           \A q \in Proc : (at'[q] = at[q] \/ at'[q] = "idle") /\ (at'[q] # "idle" => seen'[q] = seen[q]),
           \A q \in Proc : inFlight'[q] \subseteq inFlight[q],
           \A q \in Proc, x \in Messages : Holds(q, x)' <=> Holds(q, x) /\ ~(q = p /\ x \in gone),
           \A x \in Messages : lost'[x] => lost[x] \/ x \in gone,
           SendInv'
    PROVE  Kept'
<1>1. HeldInv'
  BY DEF PostInv, HeldInv, OneHolder
<1>2. StoryInv'
  BY DEF PostInv, StoryInv
<1>3. LostInv'
  <2> SUFFICES ASSUME NEW x \in Messages, lost'[x] PROVE status'[x] # "pending" /\ \A q \in Proc : ~Holds(q, x)'
    BY DEF LostInv
  <2>1. CASE lost[x]
    BY <2>1 DEF PostInv, LostInv
  <2>2. CASE x \in gone
    BY <2>2 DEF PostInv, HeldInv, OneHolder
  <2> QED
    BY <2>1, <2>2
<1>4. AgeInv'
  BY DEF PostInv, AgeInv
<1> QED
  BY <1>1, <1>2, <1>3, <1>4 DEF Kept

\* A worker thread takes up a row, or finds it is not running any more.
LEMMA BeginSendKeeps ==
    ASSUME PostInv, NEW p \in Proc, NEW r \in Messages, BeginSend(p, r), build' = build, world' = world,
           \A x \in Messages : Asked(x)' <=> Asked(x)
    PROVE  Kept'
<1>1. /\ r \in inFlight[p] /\ \A s \in sending[p] : s.row # r
      /\ UNCHANGED <<status, phase, old, at, seen, lost>>
  BY DEF BeginSend, SenderFrame, passVars, rowVars
<1>2. CASE sending' = [sending EXCEPT ![p] = @ \cup {[row |-> r, attempt |-> attempts[r]]}] /\ UNCHANGED inFlight
  <2>1. /\ sending'[p] = sending[p] \cup {[row |-> r, attempt |-> attempts[r]]}
        /\ \A q \in Proc : q # p => sending'[q] = sending[q]
    BY <1>2 DEF PostInv, TypeOK
  <2>2. SendInv'
    BY <1>1, <1>2, <2>1 DEF PostInv, SendInv
  <2>3. \A q \in Proc, x \in Messages : Holds(q, x)' <=> Holds(q, x)
    BY <1>1, <1>2 DEF Holds
  <2> QED
    BY <1>1, <1>2, <2>2, <2>3, LetGoKeeps
<1>3. CASE inFlight' = [inFlight EXCEPT ![p] = @ \ {r}] /\ UNCHANGED sending
  <2>1. inFlight'[p] = inFlight[p] \ {r} /\ \A q \in Proc : q # p => inFlight'[q] = inFlight[q]
    BY <1>3 DEF PostInv, TypeOK
  <2>2. SendInv'
    BY <1>1, <1>3, <2>1 DEF PostInv, SendInv
  <2>3. Holds(p, r) /\ ~(at[p] = "claimed" /\ seen[p].row = r)
    BY <1>1 DEF Holds, PostInv, HeldInv
  <2>4. \A q \in Proc, x \in Messages : Holds(q, x)' <=> Holds(q, x) /\ ~(q = p /\ x \in {r})
    BY <1>1, <2>1, <2>3 DEF Holds
  <2>5. /\ {r} \in SUBSET Messages /\ \A x \in {r} : Holds(p, x)
        /\ \A q \in Proc : (at'[q] = at[q] \/ at'[q] = "idle") /\ (at'[q] # "idle" => seen'[q] = seen[q])
        /\ \A q \in Proc : inFlight'[q] \subseteq inFlight[q]
        /\ \A x \in Messages : lost'[x] => lost[x] \/ x \in {r}
    BY <1>1, <2>1, <2>3
  <2> QED
    BY <1>1, <2>2, <2>4, <2>5, LetGoKeeps
<1> QED
  BY <1>2, <1>3 DEF BeginSend

\* A sender that leaves takes its row out of its process's hands, and its only.
LEMMA LeaveLetsGo ==
    ASSUME PostInv, NEW p \in Proc, NEW s \in sending[p], Leave(p, s), NEW r \in Messages, r = s.row
    PROVE  /\ Holds(p, r)
           /\ UNCHANGED <<at, seen, old>> /\ SendInv'
           /\ \A q \in Proc : inFlight'[q] \subseteq inFlight[q]
           /\ \A q \in Proc, x \in Messages : Holds(q, x)' <=> Holds(q, x) /\ ~(q = p /\ x = r)
           /\ \A q \in Proc : ~Holds(q, r)'
<1>1. UNCHANGED <<at, seen, old>>
  BY DEF Leave, SenderFrame, passVars
<1>2. r \in inFlight[p]
  BY DEF PostInv, TypeOK, SendInv
<1>3. /\ inFlight'[p] = inFlight[p] \ {r} /\ sending'[p] = sending[p] \ {s}
      /\ \A q \in Proc : q # p => inFlight'[q] = inFlight[q] /\ sending'[q] = sending[q]
  BY DEF PostInv, TypeOK, Leave
<1>4. SendInv'
  <2> SUFFICES ASSUME NEW q \in Proc, NEW t \in sending'[q]
               PROVE  t.row \in inFlight'[q] /\ \A u \in sending'[q] : u.row = t.row => u = t
    BY DEF SendInv
  <2>1. t \in sending[q] /\ (q = p => t # s)
    BY <1>3
  <2> QED
    BY <1>3, <2>1 DEF PostInv, SendInv
<1>5. Holds(p, r) /\ ~(at[p] = "claimed" /\ seen[p].row = r)
  BY <1>2 DEF Holds, PostInv, HeldInv
<1>6. \A q \in Proc, x \in Messages : Holds(q, x)' <=> Holds(q, x) /\ ~(q = p /\ x = r)
  BY <1>1, <1>3, <1>5 DEF Holds
<1>7. \A q \in Proc : ~Holds(q, r)'
  BY <1>5, <1>6 DEF PostInv, HeldInv, OneHolder
<1> QED
  BY <1>1, <1>2, <1>3, <1>4, <1>5, <1>6, <1>7

\* A sender that records an outcome, or the next attempt, for its row.
LEMMA RecordKeeps ==
    ASSUME PostInv, NEW p \in Proc, NEW s \in sending[p], EndSend(p, s) \/ Retry(p, s),
           build' = build, world' = world, \A x \in Messages : Asked(x)' <=> Asked(x)
    PROVE  Kept'
<1>1. PICK r \in Messages : r = s.row
  BY DEF PostInv, TypeOK
<1>2. Leave(p, s) /\ UNCHANGED lost
  BY DEF EndSend, Retry
<1>3. \A x \in Messages : x # r => status'[x] = status[x] /\ phase'[x] = phase[x]
  BY <1>1 DEF EndSend, Retry, Closed, PostInv, TypeOK, Row
<1>4. /\ Holds(p, r) /\ UNCHANGED <<at, seen, old>> /\ SendInv'
      /\ \A q \in Proc : inFlight'[q] \subseteq inFlight[q]
      /\ \A q \in Proc, x \in Messages : Holds(q, x)' <=> Holds(q, x) /\ ~(q = p /\ x = r)
      /\ \A q \in Proc : ~Holds(q, r)'
  BY <1>1, <1>2, LeaveLetsGo
<1>5. Asked(r) /\ ~lost[r]
  BY <1>4 DEF PostInv, StoryInv, LostInv
<1>6. HeldInv'
  BY <1>3, <1>4 DEF PostInv, HeldInv, OneHolder
<1>7. StoryInv'
  BY <1>3, <1>4, <1>5 DEF PostInv, StoryInv
<1>8. LostInv'
  BY <1>2, <1>3, <1>4, <1>5 DEF PostInv, LostInv
<1>9. AgeInv'
  <2> SUFFICES ASSUME ~world.slow PROVE AgeInv'
    BY DEF AgeInv
  <2>1. \A q \in Proc, x \in Messages : Holds(q, x)' => status'[x] = "running" /\ ~old'[x]
    BY <1>3, <1>4 DEF PostInv, AgeInv
  <2>2. ASSUME NEW q \in Proc, NEW x \in Messages, at'[q] = "looked", seen'[q].row = x,
               seen'[q].status = "running", seen'[q].old
        PROVE  status'[x] \in {"running", "failed"} /\ \A o \in Proc : ~Holds(o, x)'
    <3>1. status[x] \in {"running", "failed"} /\ \A o \in Proc : ~Holds(o, x)
      BY <1>4, <2>2 DEF PostInv, AgeInv
    <3> QED
      BY <1>3, <1>4, <3>1
  <2> QED
    BY <2>1, <2>2 DEF AgeInv
<1> QED
  BY <1>4, <1>6, <1>7, <1>8, <1>9 DEF Kept

\* A sender that cannot record its outcome.
LEMMA SaveFailsKeeps ==
    ASSUME PostInv, NEW p \in Proc, NEW s \in sending[p], SaveFails(p, s),
           build' = build, world' = world, \A x \in Messages : Asked(x)' <=> Asked(x)
    PROVE  Kept'
<1>1. PICK r \in Messages : r = s.row
  BY DEF PostInv, TypeOK
<1>2. Leave(p, s) /\ UNCHANGED <<status, phase>>
  BY DEF SaveFails
<1>3. \A x \in Messages : lost'[x] => lost[x] \/ x \in {r}
  BY <1>1 DEF SaveFails, PostInv, TypeOK, Row
<1>4. /\ Holds(p, r) /\ UNCHANGED <<at, seen, old>> /\ SendInv'
      /\ \A q \in Proc : inFlight'[q] \subseteq inFlight[q]
      /\ \A q \in Proc, x \in Messages : Holds(q, x)' <=> Holds(q, x) /\ ~(q = p /\ x \in {r})
  BY <1>1, <1>2, LeaveLetsGo
<1>5. /\ {r} \in SUBSET Messages /\ \A x \in {r} : Holds(p, x)
      /\ \A q \in Proc : (at'[q] = at[q] \/ at'[q] = "idle") /\ (at'[q] # "idle" => seen'[q] = seen[q])
  BY <1>4
<1> QED
  BY <1>2, <1>3, <1>4, <1>5, LetGoKeeps

\* A process dies: what it had in hand is lost.
LEMMA CrashKeeps ==
    ASSUME PostInv, NEW p \in Proc, Crash(p), build' = build, world' = world,
           \A x \in Messages : Asked(x)' <=> Asked(x)
    PROVE  Kept'
<1> DEFINE gone == {x \in Messages : Holds(p, x)}
<1>1. UNCHANGED <<status, phase, old>>
  BY DEF Crash, rowVars
<1>2. at'[p] = "idle" /\ \A q \in Proc : q # p => at'[q] = at[q] /\ seen'[q] = seen[q]
  BY PassedOn DEF Crash, PostInv
<1>3. /\ inFlight'[p] = {} /\ sending'[p] = {}
      /\ \A q \in Proc : q # p => inFlight'[q] = inFlight[q] /\ sending'[q] = sending[q]
  BY DEF Crash, PostInv, TypeOK
<1>4. \A x \in Messages : lost'[x] => lost[x] \/ x \in gone
  <2>1. lost' = [x \in Row |-> lost[x] \/ Holds(p, x)]
    BY DEF Crash
  <2>2. \A x \in Messages : x \in Row
    BY DEF Row
  <2> QED
    BY <2>1, <2>2, Zenon
<1>5. \A q \in Proc, x \in Messages : Holds(q, x)' <=> Holds(q, x) /\ ~(q = p /\ x \in gone)
  BY <1>2, <1>3 DEF Holds
<1>6. SendInv'
  BY <1>3 DEF PostInv, SendInv
<1>7. gone \in SUBSET Messages /\ \A x \in gone : Holds(p, x)
  OBVIOUS
<1> HIDE DEF gone
<1> QED
  BY <1>1, <1>2, <1>3, <1>4, <1>5, <1>6, <1>7, LetGoKeeps

\* Time passes: a claim ages in somebody's hands only where sends may be slow.
LEMMA TimeKeeps ==
    ASSUME PostInv, NEW r \in Messages, Backoff(r) \/ ClaimAges(r), build' = build, world' = world,
           \A x \in Messages : Asked(x)' <=> Asked(x)
    PROVE  Kept'
<1>1. UNCHANGED <<status, phase, at, seen, inFlight, sending, lost>>
  BY DEF Backoff, ClaimAges, passVars, senderVars
<1>2. \A q \in Proc, x \in Messages : Holds(q, x)' <=> Holds(q, x)
  BY <1>1, SameHolders
<1>3. ASSUME ~world.slow, NEW q \in Proc, NEW x \in Messages, Holds(q, x) PROVE old'[x] <=> old[x]
  <2>1. CASE Backoff(r)
    BY <2>1 DEF Backoff
  <2>2. CASE ClaimAges(r)
    <3>1. r # x /\ old' = [old EXCEPT ![r] = TRUE]
      BY <1>3, <2>2, Zenon DEF ClaimAges
    <3>2. old'[x] = old[x]
      BY <3>1 DEF PostInv, TypeOK, Row
    <3> QED
      BY <3>2
  <2> QED
    BY <2>1, <2>2
<1>4. HeldInv'
  BY <1>1, <1>2 DEF PostInv, HeldInv, OneHolder
<1>5. SendInv'
  BY <1>1 DEF PostInv, SendInv
<1>6. StoryInv'
  BY <1>1, <1>2 DEF PostInv, StoryInv
<1>7. LostInv'
  BY <1>1, <1>2 DEF PostInv, LostInv
<1>8. AgeInv'
  <2> SUFFICES ASSUME ~world.slow PROVE AgeInv'
    BY DEF AgeInv
  <2>1. \A q \in Proc, x \in Messages : Holds(q, x)' => status'[x] = "running" /\ ~old'[x]
    BY <1>1, <1>2, <1>3 DEF PostInv, AgeInv
  <2> QED
    BY <1>1, <1>2, <2>1 DEF PostInv, AgeInv
<1> QED
  BY <1>4, <1>5, <1>6, <1>7, <1>8 DEF Kept

---------------------------------------------------------------------------
(* The theorems                                                            *)

\* At the start nothing is in hand.
LEMMA InitHolds == Init => PostInv
<1> SUFFICES ASSUME Init PROVE PostInv
  OBVIOUS
<1>1. \A p \in Proc : at[p] = "idle" /\ sending[p] = {} /\ \A r \in Messages : ~Holds(p, r)
  BY DEF Init, Holds
<1>2. build \notin Ended /\ \A r \in Messages : status[r] = "pending" /\ phase[r] = "waiting" /\ ~lost[r]
  BY DEF Init, Ended, Row
<1>3. HeldInv /\ SendInv /\ AgeInv
  BY <1>1 DEF HeldInv, OneHolder, SendInv, AgeInv
<1>4. StoryInv /\ CleanInv /\ LostInv
  BY <1>1, <1>2 DEF StoryInv, CleanInv, LostInv
<1> QED
  BY <1>3, <1>4, InitTypes DEF PostInv

\* Every step keeps the types.
LEMMA StepTypes == TypeOK /\ [Next]_vars => TypeOK'
<1> SUFFICES ASSUME TypeOK, [Next]_vars PROVE TypeOK'
  OBVIOUS
<1>1. world' \in World
  BY OtherTypes DEF TypeOK
<1>2. status' \in [Row -> {"pending", "running"} \cup Final]
  BY RowTypes DEF Statuses
<1>3. phase' \in [Row -> {"waiting", "queued", "sending", "running", "done"}]
  BY RowTypes DEF Phases
<1> QED
  BY <1>1, <1>2, <1>3, OtherTypes, RowTypes, SeenType, Zenon DEF TypeOK

\* Every step keeps the invariant.
LEMMA StepHolds == PostInv /\ [Next]_vars => PostInv'
<1> SUFFICES ASSUME PostInv, [Next]_vars PROVE PostInv'
  OBVIOUS
<1>1. TypeOK'
  BY StepTypes DEF PostInv
<1> SUFFICES Kept' /\ CleanInv'
  BY <1>1 DEF PostInv, Kept
<1>2. CASE UNCHANGED vars
  <2>1. UNCHANGED <<build, started, world, status, phase, old, at, seen, inFlight, sending, lost, unsettled>>
    BY <1>2 DEF vars, buildVars, rowVars, passVars, senderVars
  <2>2. \A q \in Proc, x \in Messages : Holds(q, x)' <=> Holds(q, x)
    BY <2>1, SameHolders
  <2>3. \A x \in Messages : Asked(x)' <=> Asked(x)
    BY <2>1 DEF Asked, Told, Triggered
  <2>4. HeldInv' /\ SendInv' /\ LostInv'
    BY <2>1, <2>2 DEF PostInv, HeldInv, OneHolder, SendInv, LostInv
  <2>5. StoryInv'
    BY <2>1, <2>2, <2>3 DEF PostInv, StoryInv
  <2>6. AgeInv'
    BY <2>1, <2>2 DEF PostInv, AgeInv
  <2>7. CleanInv'
    BY <2>1 DEF PostInv, CleanInv, OpenCleanups
  <2> QED
    BY <2>4, <2>5, <2>6, <2>7 DEF Kept
<1>3. CASE BuildNext
  BY <1>1, <1>3, BuildKeeps
<1>4. ASSUME NEW p \in Proc, PassNext(p) \/ Work(p) \/ Crash(p) \/ (\E s \in sending[p] : SaveFails(p, s))
      PROVE  Kept' /\ CleanInv'
  <2>1. UNCHANGED <<build, started, stages, world, unsettled>> /\ \A r \in Cleanups : status'[r] = status[r]
    BY <1>4, OtherSteps DEF PostInv
  <2>2. (\A x \in Messages : Asked(x)' <=> Asked(x)) /\ CleanInv'
    BY <2>1, SameBuild DEF PostInv
  <2>3. build' = build /\ world' = world
    BY <2>1
  <2>4. CASE PassNext(p)
    BY <2>2, <2>3, <2>4, LookKeeps, ReapKeeps, SettleLateKeeps, ClaimKeeps, PassByKeeps, SubmitKeeps
       DEF PassNext, Act
  <2>5. CASE Work(p)
    BY <2>2, <2>3, <2>5, BeginSendKeeps, RecordKeeps DEF Work
  <2>6. CASE Crash(p)
    BY <2>2, <2>3, <2>6, CrashKeeps
  <2>7. CASE \E s \in sending[p] : SaveFails(p, s)
    BY <2>2, <2>3, <2>7, SaveFailsKeeps
  <2> QED
    BY <1>4, <2>4, <2>5, <2>6, <2>7
<1>5. ASSUME NEW r \in Messages, Backoff(r) \/ ClaimAges(r) PROVE Kept' /\ CleanInv'
  <2>1. UNCHANGED <<build, started, stages, world, unsettled>> /\ UNCHANGED status
    BY <1>5 DEF Backoff, ClaimAges, buildVars
  <2>2. (\A x \in Messages : Asked(x)' <=> Asked(x)) /\ CleanInv'
    BY <2>1, SameBuild DEF PostInv
  <2> QED
    BY <1>5, <2>1, <2>2, TimeKeeps
<1> QED
  BY <1>2, <1>3, <1>4, <1>5 DEF Next

\* Every state is well typed, whatever fails.
THEOREM TypeCorrectness == Spec => []TypeOK
BY InitTypes, StepTypes, PTL DEF Spec

\* The inductive invariant, of any processes, rows, surroundings and faults.
THEOREM Invariance == Spec => []PostInv
BY InitHolds, StepHolds, PTL DEF Spec

\* "Two passes (or two processes) can never send the same row".
THEOREM ExclusiveDelivery == Spec => []OneHolder
<1>1. PostInv => OneHolder
  BY DEF PostInv, HeldInv
<1> QED
  BY <1>1, Invariance, PTL

\* Nothing is sent that the result of the build did not ask for, nor before the
\* build and its cleanups are over.
THEOREM SentOnlyAfterTheResult == Spec => []SentForTheResult
<1>1. PostInv => SentForTheResult
  BY DEF PostInv, StoryInv, CleanInv, SentForTheResult, Asked, Told
<1> QED
  BY <1>1, Invariance, PTL

\* Only taking a row up counts as a send, and only by who has it in hand.
LEMMA SendsByHolders ==
    ASSUME TypeOK, [Next]_vars, NEW r \in Messages, sends'[r] # sends[r]
    PROVE  \E p \in Proc : Holds(p, r)
<1> DEFINE Quiet == UNCHANGED sends
<1>1. ASSUME BuildNext PROVE Quiet
  BY <1>1, BuildSteps
<1>2. ASSUME NEW p \in Proc, PassNext(p) PROVE Quiet
  BY <1>2 DEF PassNext, Act, Look, Reap, SettleLate, Claim, PassBy, Submit, senderVars
<1>3. ASSUME NEW p \in Proc, NEW s \in sending[p], EndSend(p, s) \/ Retry(p, s) \/ SaveFails(p, s) PROVE Quiet
  BY <1>3 DEF EndSend, Retry, SaveFails, Leave
<1>4. ASSUME NEW p \in Proc, Crash(p) PROVE Quiet
  BY <1>4 DEF Crash
<1>5. ASSUME NEW x \in Messages, Backoff(x) \/ ClaimAges(x) PROVE Quiet
  BY <1>5 DEF Backoff, ClaimAges, senderVars
<1>6. ASSUME NEW p \in Proc, NEW x \in Messages, BeginSend(p, x) PROVE Holds(p, r)
  BY <1>6 DEF BeginSend, Holds, TypeOK, Row
<1>7. ASSUME UNCHANGED vars PROVE Quiet
  BY <1>7 DEF vars, senderVars
<1> QED
  BY <1>1, <1>2, <1>3, <1>4, <1>5, <1>6, <1>7 DEF Next, Work

\* A notification whose holder is gone is never sent again.
THEOREM NoRepeats == Spec => NeverRepeated
<1>1. PostInv /\ [Next]_vars => [\A r \in Messages : lost[r] => sends'[r] = sends[r]]_vars
  <2> SUFFICES ASSUME PostInv, [Next]_vars, NEW r \in Messages, lost[r] PROVE sends'[r] = sends[r]
    OBVIOUS
  <2> QED
    BY SendsByHolders DEF PostInv, LostInv
<1> QED
  BY <1>1, Invariance, PTL DEF Spec, NeverRepeated

\* If no send outlasts its claim, what became of a notification stays.
THEOREM OutcomesStay == Spec => FinalIsFinal
<1>1. ASSUME PostInv, [Next]_vars, NEW r \in Messages, ~world.slow, status[r] \in Final
      PROVE  status'[r] = status[r]
  <2> DEFINE Goal == status'[r] = status[r]
  <2>1. CASE BuildNext
    <3>1. build \notin Ended /\ KeptOrDecided(r)
      BY <1>1, <2>1, BuildSteps DEF PostInv
    <3>2. status[r] = "skipped"
      BY <1>1, <3>1 DEF PostInv, StoryInv, Asked, Final
    <3> QED
      BY <3>1, <3>2 DEF KeptOrDecided
  <2>2. \A q \in Proc : ~Holds(q, r)
    BY <1>1 DEF PostInv, AgeInv, Final
  <2>3. ASSUME NEW p \in Proc, PassNext(p) PROVE Goal
    <3>1. ASSUME NEW x \in Messages, Look(p, x) PROVE Goal
      BY <3>1 DEF Look, rowVars
    <3>2. CASE PassBy(p) \/ Submit(p)
      BY <3>2 DEF PassBy, Submit, rowVars
    <3>3. CASE Reap(p)
      <4>1. PICK x \in Messages : x = seen[p].row
        BY <1>1 DEF PostInv, TypeOK, Seen
      <4>2. status[x] \in {"running", "failed"}
        BY <1>1, <3>3, <4>1 DEF PostInv, AgeInv, Reap, Interrupted
      <4> QED
        BY <1>1, <3>3, <4>1, <4>2 DEF Reap, Closed, Row, Final
    <3>4. CASE SettleLate(p)
      <4>1. PICK x \in Messages :
              /\ at[p] = "looked"
              /\ UNCHANGED status \/ (~Told(x, build) /\ Closed({x}, "skipped"))
        BY <3>4, Zenon DEF SettleLate
      <4>2. ~Told(x, build) => status[x] \in {"pending", "skipped"}
        BY <1>1, <4>1 DEF PostInv, StoryInv, Asked
      <4>3. r \in Row
        BY DEF Row
      <4> QED
        BY <1>1, <4>1, <4>2, <4>3 DEF Closed, Final
    <3>5. CASE Claim(p)
      BY <1>1, <3>5 DEF Claim, MayClaim, PostInv, TypeOK, Final, Row
    <3> QED
      BY <2>3, <3>1, <3>2, <3>3, <3>4, <3>5 DEF PassNext, Act
  <2>4. ASSUME NEW p \in Proc, NEW s \in sending[p], EndSend(p, s) \/ Retry(p, s) PROVE Goal
    <3>1. PICK x \in Messages : x = s.row
      BY <1>1 DEF PostInv, TypeOK
    <3>2. Leave(p, s)
      BY <2>4 DEF EndSend, Retry
    <3>3. x # r
      BY <1>1, <2>2, <3>1, <3>2, LeaveLetsGo
    <3> QED
      BY <1>1, <2>4, <3>1, <3>3 DEF EndSend, Retry, Closed, PostInv, TypeOK, Row
  <2>5. ASSUME NEW p \in Proc, \/ \E x \in Messages : BeginSend(p, x)
                               \/ Crash(p) \/ \E s \in sending[p] : SaveFails(p, s)
        PROVE  Goal
    BY <2>5 DEF BeginSend, Crash, SaveFails, rowVars
  <2>6. ASSUME NEW x \in Messages, Backoff(x) \/ ClaimAges(x) PROVE Goal
    BY <2>6 DEF Backoff, ClaimAges
  <2>7. CASE UNCHANGED vars
    BY <2>7 DEF vars, rowVars
  <2> QED
    BY <1>1, <2>1, <2>3, <2>4, <2>5, <2>6, <2>7 DEF Next, Work
<1>2. PostInv /\ [Next]_vars
        => [\A r \in Messages : ~world.slow /\ status[r] \in Final => status'[r] = status[r]]_vars
  BY <1>1
<1> QED
  BY <1>2, Invariance, PTL DEF Spec, FinalIsFinal

---------------------------------------------------------------------------
(* How often a notification is tried                                       *)

\* While passes exclude each other, what a pass has read of a pending row is
\* still so, and every send was counted in the row before it began: so attempts
\* bound the sends.
TriesInv == ~world.overlap =>
    /\ \A p, q \in Proc : at[p] # "idle" /\ at[q] # "idle" => p = q
    /\ \A p \in Proc, r \in Messages :
         at[p] = "looked" /\ seen[p].row = r /\ seen[p].status = "pending" =>
         status[r] = "pending" /\ phase[r] = seen[p].phase /\ attempts[r] = seen[p].attempts
    /\ \A r \in Messages : phase[r] = "waiting" => sends[r] = 0
    /\ \A r \in Messages :
         status[r] = "pending" /\ phase[r] = "queued" => sends[r] <= attempts[r] /\ attempts[r] < MaxAttempts
    /\ \A p \in Proc, r \in Messages : Holds(p, r) =>
         /\ phase[r] # "waiting" /\ attempts[r] <= MaxAttempts
         /\ sends[r] < attempts[r] \/ \E s \in sending[p] : s.row = r
    /\ \A p \in Proc : \A s \in sending[p] : sends[s.row] <= s.attempt /\ s.attempt <= MaxAttempts
    /\ \A r \in Messages : sends[r] <= MaxAttempts

\* The end of a build queues a notification only anew, with no attempt made.
LEMMA BuildCounts ==
    ASSUME TypeOK, BuildNext, NEW r \in Messages
    PROVE  \/ status'[r] = status[r] /\ phase'[r] = phase[r] /\ attempts'[r] = attempts[r]
           \/ /\ phase[r] = "waiting" /\ phase'[r] # "waiting"
              /\ phase'[r] = "queued" => attempts'[r] = 0
<1> DEFINE Goal == \/ status'[r] = status[r] /\ phase'[r] = phase[r] /\ attempts'[r] = attempts[r]
                   \/ /\ phase[r] = "waiting" /\ phase'[r] # "waiting"
                      /\ phase'[r] = "queued" => attempts'[r] = 0
<1>1. ASSUME Start \/ StagesOver PROVE Goal
  BY <1>1 DEF Start, StagesOver, rowVars
<1>2. CASE CloseCleanups
  <2>1. OpenCleanups \in SUBSET Cleanups
    BY DEF OpenCleanups
  <2> QED
    BY <1>2, <2>1, ClosedKeeps DEF CloseCleanups, CleanupFrame
<1>3. ASSUME NEW x \in Cleanups, SkipCleanup(x) \/ StartCleanup(x) \/ PollCleanup(x) PROVE Goal
  <2>1. UNCHANGED attempts
    BY <1>3, Zenon DEF SkipCleanup, StartCleanup, PollCleanup, CleanupFrame
  <2>2. \/ \E how : Closed({x}, how)
        \/ status' = [status EXCEPT ![x] = "running"] /\ phase' = [phase EXCEPT ![x] = "running"]
    BY <1>3, Zenon DEF SkipCleanup, StartCleanup, PollCleanup
  <2>3. status'[r] = status[r] /\ phase'[r] = phase[r]
    BY <2>2, ClosedKeeps, RowAssumption DEF TypeOK, Row
  <2> QED
    BY <2>1, <2>3
<1>4. ASSUME NEW rows, NEW result \in Ended, Settle(rows, result) PROVE Goal
  <2> DEFINE waiting == {x \in rows : status[x] = "pending" /\ (x \in Messages => phase[x] = "waiting")}
             told == {x \in waiting \cap Messages : Told(x, result)}
             stopped == {x \in rows \cap Cleanups : status[x] = "running"}
  <2>1. r \in Row /\ r \notin stopped
    BY RowAssumption DEF Row
  <2>2. /\ status'[r] = IF r \in waiting \ told THEN "skipped"
                       ELSE IF r \in stopped THEN "cancelled" ELSE status[r]
        /\ phase'[r] = IF r \in told THEN "queued"
                       ELSE IF r \in waiting \cup stopped THEN "done" ELSE phase[r]
        /\ attempts'[r] = IF r \in told THEN 0 ELSE attempts[r]
    BY <1>4, <2>1, Zenon DEF Settle
  <2>3. CASE r \in waiting
    <3>1. phase[r] = "waiting"
      BY <2>3
    <3> QED
      BY <2>1, <2>2, <2>3, <3>1
  <2>4. CASE r \notin waiting
    BY <2>1, <2>2, <2>4
  <2> QED
    BY <2>3, <2>4
<1>5. ASSUME NEW result \in Ended, FinishBuild(result) PROVE Goal
  <2>1. \E rows : Settle(rows, result)
    BY <1>5, Zenon DEF FinishBuild
  <2> QED
    BY <1>4, <2>1
<1> QED
  BY <1>1, <1>2, <1>3, <1>5 DEF BuildNext

\* The end of the build comes before any pass and any send.
LEMMA BuildTries ==
    ASSUME PostInv, TriesInv, BuildNext
    PROVE  TriesInv'
<1> SUFFICES ASSUME ~world.overlap PROVE TriesInv'
  BY BuildSteps DEF TriesInv, PostInv
<1>1. build \notin Ended /\ UNCHANGED <<world, at, seen, inFlight, sending, sends, lost>>
  BY BuildSteps DEF PostInv
<1>2. \A p \in Proc : at[p] = "idle" /\ \A r \in Messages : ~Holds(p, r) /\ ~Holds(p, r)'
  BY <1>1, NothingBeforeTheEnd, SameHolders DEF PostInv
<1>3. ASSUME NEW r \in Messages
      PROVE  /\ phase'[r] = "waiting" => sends[r] = 0
             /\ status'[r] = "pending" /\ phase'[r] = "queued"
                  => sends[r] <= attempts'[r] /\ attempts'[r] < MaxAttempts
  BY BuildCounts, LimitAssumption DEF PostInv, TriesInv
<1> QED
  BY <1>1, <1>2, <1>3 DEF TriesInv

\* A pass that looks at a row, and whatever acts on it, but for the claim.
LEMMA PassTries ==
    ASSUME PostInv, TriesInv, NEW p \in Proc,
           (\E r \in Messages : Look(p, r)) \/ Reap(p) \/ SettleLate(p) \/ PassBy(p) \/ Submit(p)
    PROVE  TriesInv'
<1> SUFFICES ASSUME ~world.overlap PROVE TriesInv'
  BY DEF TriesInv, PassFrame, Look, Reap, SettleLate, PassBy, Submit
<1>1. CASE \E r \in Messages : Look(p, r)
  <2>1. PICK r \in Messages : Look(p, r)
    BY <1>1
  <2>2. /\ at' = [at EXCEPT ![p] = "looked"] /\ seen' = [seen EXCEPT ![p] = View(r)]
        /\ \A q \in Proc : at[q] = "idle"
        /\ UNCHANGED <<rowVars, senderVars>>
    BY <2>1 DEF Look
  <2>3. /\ at'[p] = "looked" /\ seen'[p] = View(r)
        /\ \A q \in Proc : q # p => at'[q] = "idle"
    BY <2>2 DEF PostInv, TypeOK
  <2>4. \A q \in Proc, x \in Messages : Holds(q, x)' <=> Holds(q, x)
    BY <2>2, <2>3 DEF Holds, senderVars
  <2>5. View(r).row = r /\ View(r).status = status[r] /\ View(r).phase = phase[r] /\ View(r).attempts = attempts[r]
    BY DEF View
  <2> QED
    BY <2>2, <2>3, <2>4, <2>5 DEF TriesInv, rowVars, senderVars
<1>2. CASE Reap(p)
  <2>1. PICK r \in Messages : r = seen[p].row
    BY DEF PostInv, TypeOK, Seen
  <2>2. /\ at[p] = "looked" /\ Closed({r}, "failed") /\ PassGoesOn(p)
        /\ UNCHANGED <<attempts, due, old, senderVars>>
    BY <1>2, <2>1 DEF Reap
  <2>3. at'[p] = "idle" /\ \A q \in Proc : q # p => at'[q] = at[q] /\ seen'[q] = seen[q]
    BY <2>2, PassedOn DEF PostInv
  <2>4. /\ status'[r] = "failed" /\ phase'[r] = "done"
        /\ \A x \in Messages : x # r => status'[x] = status[x] /\ phase'[x] = phase[x]
    BY <2>2 DEF Closed, Row
  <2>5. \A q \in Proc, x \in Messages : Holds(q, x)' => Holds(q, x)
    BY <2>2, <2>3 DEF Holds, senderVars
  <2>6. \A q \in Proc : at'[q] # "looked"
    BY <2>2, <2>3 DEF TriesInv
  <2> QED
    BY <2>2, <2>3, <2>4, <2>5, <2>6 DEF TriesInv, senderVars
<1>3. CASE SettleLate(p)
  <2>1. PICK r \in Messages :
          /\ at[p] = "looked" /\ r = seen[p].row /\ Undecided(p)
          /\ \/ /\ phase' = [phase EXCEPT ![r] = "queued"]
                /\ attempts' = [attempts EXCEPT ![r] = 0] /\ UNCHANGED status
             \/ Closed({r}, "skipped") /\ UNCHANGED attempts
          /\ seen' = [seen EXCEPT ![p] = View(r)']
    BY <1>3, Zenon DEF SettleLate
  <2>2. UNCHANGED <<at, senderVars>>
    BY <1>3, Zenon DEF SettleLate
  <2>3. status[r] = "pending" /\ phase[r] = "waiting" /\ sends[r] = 0
    BY <2>1 DEF TriesInv, Undecided
  <2>4. /\ \A x \in Messages : x # r =>
              status'[x] = status[x] /\ phase'[x] = phase[x] /\ attempts'[x] = attempts[x]
        /\ \/ status'[r] = "pending" /\ phase'[r] = "queued" /\ attempts'[r] = 0
           \/ status'[r] = "skipped" /\ phase'[r] = "done"
    <3>1. CASE /\ phase' = [phase EXCEPT ![r] = "queued"]
               /\ attempts' = [attempts EXCEPT ![r] = 0] /\ UNCHANGED status
      BY <2>3, <3>1 DEF PostInv, TypeOK, Row
    <3>2. CASE Closed({r}, "skipped") /\ UNCHANGED attempts
      BY <3>2 DEF Closed, Row
    <3> QED
      BY <2>1, <3>1, <3>2
  <2>5. seen'[p] = View(r)' /\ \A q \in Proc : q # p => seen'[q] = seen[q] /\ at[q] = "idle"
    BY <2>1 DEF PostInv, TypeOK, TriesInv
  <2>6. /\ seen'[p].row = r /\ seen'[p].status = status'[r] /\ seen'[p].phase = phase'[r]
        /\ seen'[p].attempts = attempts'[r]
    BY <2>5 DEF View
  <2>7. \A q \in Proc, x \in Messages : Holds(q, x)' <=> Holds(q, x)
    BY <2>1, <2>2, <2>5 DEF Holds, senderVars
  <2>8. \A q \in Proc : ~Holds(q, r)
    BY <2>3 DEF PostInv, HeldInv
  <2>9. r \in Messages /\ \A q \in Proc : \A s \in sending[q] : s.row \in Messages
    BY DEF PostInv, TypeOK
  <2> QED
    BY <2>1, <2>2, <2>3, <2>4, <2>5, <2>6, <2>7, <2>8, <2>9, LimitAssumption DEF TriesInv, senderVars
<1>4. CASE PassBy(p)
  <2>1. PassGoesOn(p) /\ UNCHANGED <<rowVars, senderVars>> /\ at[p] = "looked"
    BY <1>4 DEF PassBy
  <2>2. at'[p] = "idle" /\ \A q \in Proc : q # p => at'[q] = at[q] /\ seen'[q] = seen[q]
    BY <2>1, PassedOn DEF PostInv
  <2>3. \A q \in Proc, x \in Messages : Holds(q, x)' => Holds(q, x)
    BY <2>1, <2>2 DEF Holds, senderVars
  <2>4. \A q \in Proc : at'[q] # "looked"
    BY <2>1, <2>2 DEF TriesInv
  <2> QED
    BY <2>1, <2>2, <2>3, <2>4 DEF TriesInv, senderVars, rowVars
<1>5. CASE Submit(p)
  <2>1. PICK r \in Messages : r = seen[p].row
    BY DEF PostInv, TypeOK, Seen
  <2>2. /\ at[p] = "claimed" /\ PassGoesOn(p)
        /\ inFlight' = [inFlight EXCEPT ![p] = @ \cup {r}]
        /\ UNCHANGED <<rowVars, sending, sends>>
    BY <1>5, <2>1 DEF Submit
  <2>3. at'[p] = "idle" /\ \A q \in Proc : q # p => at'[q] = at[q] /\ seen'[q] = seen[q]
    BY <2>2, PassedOn DEF PostInv
  <2>4. inFlight'[p] = inFlight[p] \cup {r} /\ \A q \in Proc : q # p => inFlight'[q] = inFlight[q]
    BY <2>2 DEF PostInv, TypeOK
  <2>5. \A q \in Proc, x \in Messages : Holds(q, x)' <=> Holds(q, x)
    BY <2>1, <2>2, <2>3, <2>4 DEF Holds
  <2>6. \A q \in Proc : at'[q] # "looked"
    BY <2>2, <2>3 DEF TriesInv
  <2> QED
    BY <2>2, <2>3, <2>5, <2>6 DEF TriesInv, rowVars
<1> QED
  BY <1>1, <1>2, <1>3, <1>4, <1>5

\* A claim counts one attempt more than were made.
LEMMA ClaimTries ==
    ASSUME PostInv, TriesInv, NEW p \in Proc, Claim(p)
    PROVE  TriesInv'
<1> SUFFICES ASSUME ~world.overlap PROVE TriesInv'
  BY DEF TriesInv, PassFrame, Claim
<1>1. PICK r \in Messages :
        /\ at[p] = "looked" /\ r = seen[p].row /\ seen[p].phase = "queued" /\ status[r] = "pending"
        /\ seen[p].status = "pending"
        /\ status' = [status EXCEPT ![r] = "running"]
        /\ phase' = [phase EXCEPT ![r] = "sending"]
        /\ attempts' = [attempts EXCEPT ![r] = seen[p].attempts + 1]
        /\ at' = [at EXCEPT ![p] = "claimed"]
  BY DEF Claim, Claimable, MayClaim, NextAttempt
<1>2. UNCHANGED <<seen, senderVars>>
  BY DEF Claim
<1>3. at'[p] = "claimed" /\ \A q \in Proc : q # p => at'[q] = "idle"
  BY <1>1 DEF PostInv, TypeOK, TriesInv
<1>4. phase[r] = "queued" /\ attempts[r] = seen[p].attempts
  BY <1>1 DEF TriesInv
<1>5. /\ status'[r] = "running" /\ phase'[r] = "sending" /\ attempts'[r] = attempts[r] + 1
      /\ \A x \in Messages : x # r =>
            status'[x] = status[x] /\ phase'[x] = phase[x] /\ attempts'[x] = attempts[x]
  BY <1>1, <1>4 DEF PostInv, TypeOK, Row
<1>6. \A q \in Proc, x \in Messages : Holds(q, x)' <=> Holds(q, x) \/ (q = p /\ x = r)
  BY <1>1, <1>2, <1>3 DEF Holds, senderVars, TriesInv
<1>7. sends[r] <= attempts[r] /\ attempts[r] < MaxAttempts /\ sends[r] \in Nat /\ attempts[r] \in Nat
  BY <1>1, <1>4 DEF TriesInv, PostInv, TypeOK, Row
<1>8. sends[r] < attempts'[r] /\ attempts'[r] <= MaxAttempts
  BY <1>5, <1>7, LimitAssumption
<1> QED
  BY <1>2, <1>3, <1>5, <1>6, <1>8 DEF TriesInv, senderVars

\* A send was counted before it begins, and is begun once.
LEMMA BeginTries ==
    ASSUME PostInv, TriesInv, NEW p \in Proc, NEW r \in Messages, BeginSend(p, r)
    PROVE  TriesInv'
<1> SUFFICES ASSUME ~world.overlap PROVE TriesInv'
  BY DEF TriesInv, SenderFrame, BeginSend
<1>1. /\ r \in inFlight[p] /\ \A s \in sending[p] : s.row # r
      /\ UNCHANGED <<status, phase, attempts, at, seen>>
  BY DEF BeginSend, SenderFrame, passVars, rowVars
<1>2. Holds(p, r) /\ \A q \in Proc : q # p => ~Holds(q, r)
  BY <1>1 DEF Holds, PostInv, HeldInv, OneHolder
<1>3. sends[r] \in Nat /\ attempts[r] \in Nat /\ sends[r] < attempts[r] /\ attempts[r] <= MaxAttempts
  BY <1>1, <1>2 DEF TriesInv, PostInv, TypeOK, Row
<1>4. \A q \in Proc : \A s \in sending[q] : s.row \in Messages /\ s.row # r
  BY <1>1, <1>2 DEF PostInv, TypeOK, SendInv, Holds
<1>5. CASE /\ sending' = [sending EXCEPT ![p] = @ \cup {[row |-> r, attempt |-> attempts[r]]}]
           /\ sends' = [sends EXCEPT ![r] = @ + 1] /\ UNCHANGED inFlight
  <2>1. /\ sending'[p] = sending[p] \cup {[row |-> r, attempt |-> attempts[r]]}
        /\ \A q \in Proc : q # p => sending'[q] = sending[q]
    BY <1>5 DEF PostInv, TypeOK
  <2>2. sends'[r] = sends[r] + 1 /\ \A x \in Messages : x # r => sends'[x] = sends[x]
    BY <1>5 DEF PostInv, TypeOK, Row
  <2>3. sends'[r] <= attempts[r] /\ sends'[r] <= MaxAttempts
    BY <1>3, <2>2, LimitAssumption
  <2>4. \A q \in Proc, x \in Messages : Holds(q, x)' <=> Holds(q, x)
    BY <1>1, <1>5 DEF Holds
  <2>5. phase[r] # "waiting" /\ status[r] # "pending"
    BY <1>2 DEF TriesInv, PostInv, HeldInv
  <2>6. \A q \in Proc, x \in Messages : Holds(q, x)' =>
          /\ phase'[x] # "waiting" /\ attempts'[x] <= MaxAttempts
          /\ sends'[x] < attempts'[x] \/ \E s \in sending'[q] : s.row = x
    <3> SUFFICES ASSUME NEW q \in Proc, NEW x \in Messages, Holds(q, x)
                 PROVE  /\ phase[x] # "waiting" /\ attempts[x] <= MaxAttempts
                        /\ sends'[x] < attempts[x] \/ \E s \in sending'[q] : s.row = x
      BY <1>1, <2>4
    <3>1. CASE x # r
      BY <2>1, <2>2, <3>1 DEF TriesInv
    <3>2. CASE x = r
      <4>1. q = p
        BY <1>2, <3>2
      <4>2. [row |-> r, attempt |-> attempts[r]] \in sending'[q] /\ [row |-> r, attempt |-> attempts[r]].row = x
        BY <2>1, <3>2, <4>1
      <4> QED
        BY <1>3, <2>5, <3>2, <4>2
    <3> QED
      BY <3>1, <3>2
  <2>7. \A q \in Proc : \A s \in sending'[q] : sends'[s.row] <= s.attempt /\ s.attempt <= MaxAttempts
    <3> SUFFICES ASSUME NEW q \in Proc, NEW s \in sending'[q]
                 PROVE  sends'[s.row] <= s.attempt /\ s.attempt <= MaxAttempts
      OBVIOUS
    <3>1. CASE s \in sending[q]
      BY <1>4, <2>2, <3>1 DEF TriesInv
    <3>2. CASE s = [row |-> r, attempt |-> attempts[r]]
      BY <1>3, <2>3, <3>2
    <3> QED
      BY <2>1, <3>1, <3>2
  <2> QED
    BY <1>1, <2>2, <2>3, <2>5, <2>6, <2>7 DEF TriesInv
<1>6. CASE inFlight' = [inFlight EXCEPT ![p] = @ \ {r}] /\ UNCHANGED <<sending, sends>>
  <2>1. inFlight'[p] = inFlight[p] \ {r} /\ \A q \in Proc : q # p => inFlight'[q] = inFlight[q]
    BY <1>6 DEF PostInv, TypeOK
  <2>2. \A q \in Proc, x \in Messages : Holds(q, x)' => Holds(q, x)
    BY <1>1, <2>1 DEF Holds
  <2> QED
    BY <1>1, <1>6, <2>2 DEF TriesInv
<1> QED
  BY <1>5, <1>6 DEF BeginSend

\* What a sender records is the attempt it made; it asks for another only if
\* there is one left.
LEMMA RecordTries ==
    ASSUME PostInv, TriesInv, NEW p \in Proc, NEW s \in sending[p],
           EndSend(p, s) \/ Retry(p, s) \/ SaveFails(p, s)
    PROVE  TriesInv'
<1>1. Leave(p, s)
  BY DEF EndSend, Retry, SaveFails
<1> SUFFICES ASSUME ~world.overlap PROVE TriesInv'
  BY <1>1 DEF TriesInv, SenderFrame, Leave
<1>2. PICK r \in Messages : r = s.row
  BY DEF PostInv, TypeOK
<1>3. /\ Holds(p, r) /\ UNCHANGED <<at, seen, sends>>
      /\ \A q \in Proc, x \in Messages : Holds(q, x)' <=> Holds(q, x) /\ ~(q = p /\ x = r)
      /\ \A q \in Proc : ~Holds(q, r)'
  BY <1>1, <1>2, LeaveLetsGo, Zenon DEF Leave
<1>4. sending'[p] = sending[p] \ {s} /\ \A q \in Proc : q # p => sending'[q] = sending[q]
  BY <1>1 DEF Leave, PostInv, TypeOK
<1>5. sends[r] <= s.attempt /\ s.attempt <= MaxAttempts /\ s.attempt \in Nat
  BY <1>2 DEF TriesInv, PostInv, TypeOK
<1>6. \A x \in Messages : x # r =>
        status'[x] = status[x] /\ phase'[x] = phase[x] /\ attempts'[x] = attempts[x]
  BY <1>2 DEF EndSend, Retry, SaveFails, Closed, PostInv, TypeOK, Row
<1>7. \/ UNCHANGED <<status, phase, attempts>>
      \/ phase'[r] = "done"
      \/ phase'[r] = "queued" /\ attempts'[r] = s.attempt /\ s.attempt < MaxAttempts
  BY <1>2 DEF EndSend, Retry, SaveFails, Closed, PostInv, TypeOK, Row
<1>8. status[r] # "pending" /\ phase[r] # "waiting"
  BY <1>3 DEF PostInv, HeldInv, TriesInv
<1>9. ASSUME NEW q \in Proc, NEW x \in Messages, Holds(q, x)'
      PROVE  /\ phase'[x] # "waiting" /\ attempts'[x] <= MaxAttempts
             /\ sends'[x] < attempts'[x] \/ \E t \in sending'[q] : t.row = x
  <2>1. x # r /\ Holds(q, x)
    BY <1>3, <1>9
  <2>2. /\ phase[x] # "waiting" /\ attempts[x] <= MaxAttempts
        /\ sends[x] < attempts[x] \/ \E t \in sending[q] : t.row = x
    BY <2>1 DEF TriesInv
  <2> QED
    BY <1>2, <1>3, <1>4, <1>6, <2>1, <2>2
<1>10. \A q \in Proc : \A t \in sending'[q] : sends'[t.row] <= t.attempt /\ t.attempt <= MaxAttempts
  BY <1>3, <1>4 DEF TriesInv
<1>11. \A q \in Proc, x \in Messages :
         at'[q] = "looked" /\ seen'[q].row = x /\ seen'[q].status = "pending" =>
         status'[x] = "pending" /\ phase'[x] = seen'[q].phase /\ attempts'[x] = seen'[q].attempts
  BY <1>3, <1>6, <1>8 DEF TriesInv
<1> QED
  BY <1>3, <1>5, <1>6, <1>7, <1>8, <1>9, <1>10, <1>11 DEF TriesInv

\* Time counts nothing, and a process that dies leaves less to count.
LEMMA OtherTries ==
    ASSUME PostInv, TriesInv,
           \/ \E p \in Proc : Crash(p)
           \/ \E r \in Messages : Backoff(r) \/ ClaimAges(r)
           \/ UNCHANGED vars
    PROVE  TriesInv'
<1>1. ASSUME NEW p \in Proc, Crash(p) PROVE TriesInv'
  <2>1. /\ UNCHANGED <<world, rowVars, sends>> /\ PassGoesOn(p)
        /\ inFlight' = [inFlight EXCEPT ![p] = {}] /\ sending' = [sending EXCEPT ![p] = {}]
    BY <1>1 DEF Crash, PassFrame
  <2>2. at'[p] = "idle" /\ \A q \in Proc : q # p => at'[q] = at[q] /\ seen'[q] = seen[q]
    BY <2>1, PassedOn DEF PostInv
  <2>3. /\ inFlight'[p] = {} /\ sending'[p] = {}
        /\ \A q \in Proc : q # p => inFlight'[q] = inFlight[q] /\ sending'[q] = sending[q]
    BY <2>1 DEF PostInv, TypeOK
  <2>4. \A q \in Proc, x \in Messages : Holds(q, x)' => Holds(q, x) /\ q # p
    BY <2>2, <2>3 DEF Holds
  <2> QED
    BY <2>1, <2>2, <2>3, <2>4 DEF TriesInv, rowVars
<1>2. ASSUME NEW r \in Messages, Backoff(r) \/ ClaimAges(r) PROVE TriesInv'
  <2>1. UNCHANGED <<world, status, phase, attempts, at, seen, inFlight, sending, sends>>
    BY <1>2 DEF Backoff, ClaimAges, passVars, senderVars
  <2>2. \A q \in Proc, x \in Messages : Holds(q, x)' <=> Holds(q, x)
    BY <2>1, SameHolders
  <2> QED
    BY <2>1, <2>2 DEF TriesInv
<1>3. CASE UNCHANGED vars
  <2>1. UNCHANGED <<world, status, phase, attempts, at, seen, inFlight, sending, sends>>
    BY <1>3 DEF vars, rowVars, passVars, senderVars
  <2>2. \A q \in Proc, x \in Messages : Holds(q, x)' <=> Holds(q, x)
    BY <2>1, SameHolders
  <2> QED
    BY <2>1, <2>2 DEF TriesInv
<1> QED
  BY <1>1, <1>2, <1>3

\* A notification is sent MAX_ATTEMPTS times at most, while passes exclude each
\* other, whatever is lost and retried.
THEOREM BoundedAttempts == Spec => []AttemptsBounded
<1>1. Init => TriesInv
  <2> SUFFICES ASSUME Init PROVE TriesInv
    OBVIOUS
  <2>1. \A p \in Proc, r \in Messages : ~Holds(p, r)
    BY DEF Init, Holds
  <2> QED
    BY <2>1, LimitAssumption DEF Init, TriesInv, Row
<1>2. PostInv /\ TriesInv /\ [Next]_vars => TriesInv'
  BY BuildTries, PassTries, ClaimTries, BeginTries, RecordTries, OtherTries DEF Next, PassNext, Act, Work
<1>3. TriesInv => AttemptsBounded
  BY DEF TriesInv, AttemptsBounded
<1> QED
  BY <1>1, <1>2, <1>3, Invariance, PTL DEF Spec

---------------------------------------------------------------------------
(* The refinement of Delivery                                              *)

\* Delivery sees no more of a step than who holds what, what is under way, sent
\* and lost, and what was asked for.
LEMMA SameAsked ==
    ASSUME \A x \in Messages : Asked(x)' <=> Asked(x)
    PROVE  {x \in Messages : Asked(x)}' = {x \in Messages : Asked(x)}
OBVIOUS

LEMMA SameHands ==
    ASSUME \A q \in Proc, x \in Messages : Holds(q, x)' <=> Holds(q, x)
    PROVE  [x \in Messages |-> Holders(x)]' = [x \in Messages |-> Holders(x)]
<1>1. \A x \in Messages : Holders(x)' = Holders(x)
  BY DEF Holders
<1> QED
  BY <1>1

LEMMA SameSenders ==
    ASSUME UNCHANGED sending
    PROVE  {x \in Messages : UnderWay(x)}' = {x \in Messages : UnderWay(x)}
BY DEF UnderWay

LEMMA SameSent ==
    ASSUME UNCHANGED sends
    PROVE  [x \in Messages |-> sends[x]]' = [x \in Messages |-> sends[x]]
OBVIOUS

LEMMA SameLost ==
    ASSUME \A x \in Messages : lost'[x] <=> lost[x]
    PROVE  {x \in Messages : lost[x]}' = {x \in Messages : lost[x]}
OBVIOUS

\* A step that leaves all of it alone is none of Delivery's.
LEMMA Unseen ==
    ASSUME \A x \in Messages : Asked(x)' <=> Asked(x),
           \A q \in Proc, x \in Messages : Holds(q, x)' <=> Holds(q, x),
           UNCHANGED <<sending, sends, lost>>
    PROVE  UNCHANGED Contract!vars
BY SameAsked, SameHands, SameSenders, SameSent, SameLost, Zenon DEF Contract!vars

\* The build's steps take no part in the delivery, but for the one that ends it:
\* that one decides what is asked for.
LEMMA BuildDelivers ==
    ASSUME PostInv, BuildNext
    PROVE  Contract!Decide
<1>1. build \notin Ended /\ UNCHANGED <<at, seen, inFlight, sending, sends, lost>>
  BY BuildSteps DEF PostInv
<1>2. {x \in Messages : Asked(x)} = {}
  BY <1>1 DEF Asked
<1>3. {x \in Messages : Asked(x)}' \in SUBSET Messages
  OBVIOUS
<1>4. \A q \in Proc, x \in Messages : Holds(q, x)' <=> Holds(q, x)
  BY <1>1, SameHolders
<1>5. \A x \in Messages : lost'[x] <=> lost[x]
  BY <1>1
<1>6. UNCHANGED sending /\ UNCHANGED sends
  BY <1>1
<1> QED
  BY <1>2, <1>3, <1>4, <1>5, <1>6, SameHands, SameSenders, SameSent, SameLost, Zenon DEF Contract!Decide

\* What a pass does between claims changes nothing that is seen of it.
LEMMA PassUnseen ==
    ASSUME PostInv, NEW p \in Proc, \A x \in Messages : Asked(x)' <=> Asked(x),
           (\E r \in Messages : Look(p, r)) \/ Reap(p) \/ SettleLate(p) \/ PassBy(p) \/ Submit(p)
    PROVE  UNCHANGED Contract!vars
<1> SUFFICES /\ \A q \in Proc, x \in Messages : Holds(q, x)' <=> Holds(q, x)
             /\ UNCHANGED <<sending, sends, lost>>
  BY Unseen, Zenon
<1>1. UNCHANGED <<sending, sends, lost>>
  <2>1. CASE SettleLate(p)
    BY <2>1, Zenon DEF SettleLate, senderVars
  <2>2. CASE (\E r \in Messages : Look(p, r)) \/ Reap(p) \/ PassBy(p) \/ Submit(p)
    BY <2>2 DEF Look, Reap, PassBy, Submit, senderVars
  <2> QED
    BY <2>1, <2>2
<1>2. CASE \E r \in Messages : Look(p, r)
  <2>1. PICK r \in Messages : Look(p, r)
    BY <1>2
  <2>2. /\ at[p] = "idle" /\ at' = [at EXCEPT ![p] = "looked"] /\ seen' = [seen EXCEPT ![p] = View(r)]
        /\ UNCHANGED inFlight
    BY <2>1 DEF Look, senderVars
  <2>3. at'[p] = "looked" /\ \A q \in Proc : q # p => at'[q] = at[q] /\ seen'[q] = seen[q]
    BY <2>2 DEF PostInv, TypeOK
  <2> QED
    BY <1>1, <2>2, <2>3 DEF Holds
<1>3. CASE Reap(p) \/ PassBy(p)
  <2>1. at[p] = "looked" /\ PassGoesOn(p) /\ UNCHANGED inFlight
    BY <1>3 DEF Reap, PassBy, senderVars
  <2>2. at'[p] = "idle" /\ \A q \in Proc : q # p => at'[q] = at[q] /\ seen'[q] = seen[q]
    BY <2>1, PassedOn DEF PostInv
  <2> QED
    BY <1>1, <2>1, <2>2 DEF Holds
<1>4. CASE SettleLate(p)
  <2>1. /\ at[p] = "looked" /\ UNCHANGED <<at, inFlight>>
        /\ \E v : seen' = [seen EXCEPT ![p] = v]
    BY <1>4, Zenon DEF SettleLate, senderVars
  <2>2. \A q \in Proc : q # p => seen'[q] = seen[q]
    BY <2>1 DEF PostInv, TypeOK
  <2> QED
    BY <1>1, <2>1, <2>2 DEF Holds
<1>5. CASE Submit(p)
  <2>1. at[p] = "claimed" /\ PassGoesOn(p) /\ inFlight' = [inFlight EXCEPT ![p] = @ \cup {seen[p].row}]
    BY <1>5 DEF Submit
  <2>2. at'[p] = "idle" /\ \A q \in Proc : q # p => at'[q] = at[q] /\ seen'[q] = seen[q]
    BY <2>1, PassedOn DEF PostInv
  <2>3. /\ inFlight'[p] = inFlight[p] \cup {seen[p].row}
        /\ \A q \in Proc : q # p => inFlight'[q] = inFlight[q]
    BY <2>1 DEF PostInv, TypeOK
  <2> QED
    BY <1>1, <2>1, <2>2, <2>3 DEF Holds
<1> QED
  BY <1>2, <1>3, <1>4, <1>5

\* A claim takes up a message nobody has, that was asked for and never lost.
LEMMA ClaimTakes ==
    ASSUME PostInv, NEW p \in Proc, \A x \in Messages : Asked(x)' <=> Asked(x), Claim(p)
    PROVE  \E r \in Messages : Contract!Take(r, p)
<1>1. UNCHANGED <<seen, inFlight, sending, sends, lost>>
  BY DEF Claim, senderVars
<1>2. PICK r \in Messages :
        /\ at[p] = "looked" /\ r = seen[p].row /\ seen[p].phase = "queued" /\ status[r] = "pending"
        /\ at' = [at EXCEPT ![p] = "claimed"]
  BY DEF Claim, Claimable, MayClaim
<1>3. at'[p] = "claimed" /\ \A q \in Proc : q # p => at'[q] = at[q]
  BY <1>2 DEF PostInv, TypeOK
<1>4. (\A q \in Proc : ~Holds(q, r)) /\ ~lost[r]
  BY <1>2 DEF PostInv, HeldInv, LostInv
<1>5. \A q \in Proc, x \in Messages : Holds(q, x)' <=> Holds(q, x) \/ (q = p /\ x = r)
  BY <1>1, <1>2, <1>3 DEF Holds
<1>6. Asked(r)
  BY <1>2 DEF PostInv, StoryInv
<1>7. r \in {x \in Messages : Asked(x)} \ {x \in Messages : lost[x]}
  BY <1>4, <1>6
<1>8. [x \in Messages |-> Holders(x)][r] = {}
  BY <1>4 DEF Holders
<1>9. [x \in Messages |-> Holders(x)]' = [[x \in Messages |-> Holders(x)] EXCEPT ![r] = {p}]
  <2>1. \A x \in Messages : Holders(x)' = IF x = r THEN {p} ELSE Holders(x)
    BY <1>4, <1>5 DEF Holders
  <2> QED
    BY <2>1
<1>10. UNCHANGED sending /\ UNCHANGED sends /\ \A x \in Messages : lost'[x] <=> lost[x]
  BY <1>1
<1> QED
  BY <1>7, <1>8, <1>9, <1>10, SameAsked, SameSenders, SameSent, SameLost, Zenon DEF Contract!Take

\* A process that lets go of a message, lost or not, with what it was sending.
LEMMA LettingGo ==
    ASSUME PostInv, NEW p \in Proc, NEW r \in Messages, Holds(p, r),
           \A x \in Messages : Asked(x)' <=> Asked(x),
           \A q \in Proc, x \in Messages : Holds(q, x)' <=> Holds(q, x) /\ ~(q = p /\ x = r),
           \A x \in Messages : UnderWay(x)' <=> UnderWay(x) /\ x # r,
           UNCHANGED sends,
           \/ \A x \in Messages : lost'[x] <=> lost[x]
           \/ \A x \in Messages : lost'[x] <=> lost[x] \/ x = r
    PROVE  Contract!LetGo(r, p)
<1>1. \A q \in Proc : Holds(q, r) => q = p
  BY DEF PostInv, HeldInv, OneHolder
<1>2. [x \in Messages |-> Holders(x)][r] = {p}
  BY <1>1 DEF Holders
<1>3. [x \in Messages |-> Holders(x)]' = [[x \in Messages |-> Holders(x)] EXCEPT ![r] = {}]
  <2>1. \A x \in Messages : Holders(x)' = IF x = r THEN {} ELSE Holders(x)
    BY <1>1 DEF Holders
  <2> QED
    BY <2>1
<1>4. {x \in Messages : UnderWay(x)}' = {x \in Messages : UnderWay(x)} \ {r}
  OBVIOUS
<1>5. {x \in Messages : lost[x]}' \in {{x \in Messages : lost[x]}, {x \in Messages : lost[x]} \cup {r}}
  OBVIOUS
<1> QED
  BY <1>2, <1>3, <1>4, <1>5, SameAsked, SameSent, Zenon DEF Contract!LetGo

\* A worker sends what its process holds and has not begun to send, or lets go of
\* it unsent.
LEMMA BeginDelivers ==
    ASSUME PostInv, NEW p \in Proc, NEW r \in Messages, BeginSend(p, r),
           \A x \in Messages : Asked(x)' <=> Asked(x)
    PROVE  Contract!Send(r) \/ Contract!LetGo(r, p)
<1>1. /\ r \in inFlight[p] /\ \A s \in sending[p] : s.row # r
      /\ UNCHANGED <<at, seen, lost>>
  BY DEF BeginSend, SenderFrame, passVars
<1>2. Holds(p, r) /\ ~(at[p] = "claimed" /\ seen[p].row = r) /\ \A q \in Proc : Holds(q, r) => q = p
  BY <1>1 DEF Holds, PostInv, HeldInv, OneHolder
<1>3. ~UnderWay(r)
  <2> SUFFICES ASSUME NEW q \in Proc, NEW s \in sending[q], s.row = r PROVE FALSE
    BY DEF UnderWay
  <2>1. Holds(q, r)
    BY DEF PostInv, SendInv, Holds
  <2> QED
    BY <1>1, <1>2, <2>1
<1>4. CASE /\ sending' = [sending EXCEPT ![p] = @ \cup {[row |-> r, attempt |-> attempts[r]]}]
           /\ sends' = [sends EXCEPT ![r] = @ + 1] /\ UNCHANGED inFlight
  <2>1. /\ sending'[p] = sending[p] \cup {[row |-> r, attempt |-> attempts[r]]}
        /\ \A q \in Proc : q # p => sending'[q] = sending[q]
    BY <1>4 DEF PostInv, TypeOK
  <2>2. \A x \in Messages : UnderWay(x)' <=> UnderWay(x) \/ x = r
    <3>1. UnderWay(r)'
      <4>1. [row |-> r, attempt |-> attempts[r]] \in sending'[p] /\ [row |-> r, attempt |-> attempts[r]].row = r
        BY <2>1
      <4> QED
        BY <4>1 DEF UnderWay
    <3>2. ASSUME NEW x \in Messages, x # r PROVE UnderWay(x)' <=> UnderWay(x)
      <4>1. \A q \in Proc : \A s : s.row = x => (s \in sending'[q] <=> s \in sending[q])
        BY <2>1, <3>2
      <4> QED
        BY <4>1 DEF UnderWay
    <3> QED
      BY <3>1, <3>2
  <2>3. {x \in Messages : UnderWay(x)}' = {x \in Messages : UnderWay(x)} \cup {r}
    BY <2>2
  <2>4. [x \in Messages |-> sends[x]]' = [[x \in Messages |-> sends[x]] EXCEPT ![r] = @ + 1]
    BY <1>4 DEF PostInv, TypeOK, Row
  <2>5. [x \in Messages |-> Holders(x)][r] # {}
    BY <1>2 DEF Holders
  <2>6. r \notin {x \in Messages : UnderWay(x)}
    BY <1>3
  <2>7. \A q \in Proc, x \in Messages : Holds(q, x)' <=> Holds(q, x)
    BY <1>1, <1>4, SameHolders
  <2>8. \A x \in Messages : lost'[x] <=> lost[x]
    BY <1>1
  <2> QED
    BY <2>3, <2>4, <2>5, <2>6, <2>7, <2>8, SameAsked, SameHands, SameLost, Zenon DEF Contract!Send
<1>5. CASE inFlight' = [inFlight EXCEPT ![p] = @ \ {r}] /\ UNCHANGED <<sending, sends>>
  <2>1. inFlight'[p] = inFlight[p] \ {r} /\ \A q \in Proc : q # p => inFlight'[q] = inFlight[q]
    BY <1>5 DEF PostInv, TypeOK
  <2>2. \A q \in Proc, x \in Messages : Holds(q, x)' <=> Holds(q, x) /\ ~(q = p /\ x = r)
    BY <1>1, <1>2, <2>1 DEF Holds
  <2>3. \A x \in Messages : UnderWay(x)' <=> UnderWay(x) /\ x # r
    BY <1>3, <1>5 DEF UnderWay
  <2>4. \A x \in Messages : lost'[x] <=> lost[x]
    BY <1>1
  <2> QED
    BY <1>2, <1>5, <2>2, <2>3, <2>4, LettingGo
<1> QED
  BY <1>4, <1>5 DEF BeginSend

\* A sender that is done lets go of its message, with the outcome or without.
LEMMA LeaveDelivers ==
    ASSUME PostInv, NEW p \in Proc, NEW s \in sending[p], EndSend(p, s) \/ Retry(p, s) \/ SaveFails(p, s),
           \A x \in Messages : Asked(x)' <=> Asked(x)
    PROVE  \E r \in Messages : Contract!LetGo(r, p)
<1>1. PICK r \in Messages : r = s.row
  BY DEF PostInv, TypeOK
<1>2. Leave(p, s) /\ UNCHANGED sends
  BY DEF EndSend, Retry, SaveFails, Leave
<1>3. /\ Holds(p, r)
      /\ \A q \in Proc, x \in Messages : Holds(q, x)' <=> Holds(q, x) /\ ~(q = p /\ x = r)
  BY <1>1, <1>2, LeaveLetsGo, Zenon
<1>4. sending'[p] = sending[p] \ {s} /\ \A q \in Proc : q # p => sending'[q] = sending[q]
  BY <1>2 DEF PostInv, TypeOK, Leave
<1>5. \A q \in Proc : \A t \in sending[q] : t.row = r => q = p /\ t = s
  <2> SUFFICES ASSUME NEW q \in Proc, NEW t \in sending[q], t.row = r PROVE q = p /\ t = s
    OBVIOUS
  <2>1. Holds(q, r)
    BY DEF PostInv, SendInv, Holds
  <2>2. q = p
    BY <1>3, <2>1 DEF PostInv, HeldInv, OneHolder
  <2> QED
    BY <1>1, <2>2 DEF PostInv, SendInv
<1>6. ASSUME NEW x \in Messages PROVE UnderWay(x)' <=> UnderWay(x) /\ x # r
  <2>1. ~UnderWay(r)'
    <3> SUFFICES ASSUME NEW q \in Proc, NEW t \in sending'[q], t.row = r PROVE FALSE
      BY DEF UnderWay
    <3> QED
      BY <1>4, <1>5
  <2>2. ASSUME x # r PROVE UnderWay(x)' <=> UnderWay(x)
    <3>1. \A q \in Proc : \A t : t.row = x => (t \in sending'[q] <=> t \in sending[q])
      BY <1>1, <1>4, <2>2
    <3> QED
      BY <3>1 DEF UnderWay
  <2> QED
    BY <2>1, <2>2
<1>7. \/ \A x \in Messages : lost'[x] <=> lost[x]
      \/ \A x \in Messages : lost'[x] <=> lost[x] \/ x = r
  <2>1. CASE EndSend(p, s) \/ Retry(p, s)
    BY <2>1 DEF EndSend, Retry
  <2>2. CASE SaveFails(p, s)
    BY <1>1, <2>2 DEF SaveFails, PostInv, TypeOK, Row
  <2> QED
    BY <2>1, <2>2
<1>8. Contract!LetGo(r, p)
  BY <1>2, <1>3, <1>6, <1>7, LettingGo
<1> QED
  BY <1>8

\* A process dies, and all it held is lost.
LEMMA CrashDelivers ==
    ASSUME PostInv, NEW p \in Proc, Crash(p), \A x \in Messages : Asked(x)' <=> Asked(x)
    PROVE  Contract!Die(p)
<1>1. at'[p] = "idle" /\ \A q \in Proc : q # p => at'[q] = at[q] /\ seen'[q] = seen[q]
  BY PassedOn DEF Crash, PostInv
<1>2. /\ inFlight'[p] = {} /\ sending'[p] = {}
      /\ \A q \in Proc : q # p => inFlight'[q] = inFlight[q] /\ sending'[q] = sending[q]
  BY DEF Crash, PostInv, TypeOK
<1>3. UNCHANGED sends
  BY DEF Crash
<1>4. \A q \in Proc, x \in Messages : Holds(q, x)' <=> Holds(q, x) /\ q # p
  BY <1>1, <1>2 DEF Holds
<1>5. ASSUME NEW x \in Messages PROVE Holders(x) = {p} <=> Holds(p, x)
  BY DEF Holders, PostInv, HeldInv, OneHolder
<1>6. ASSUME NEW x \in Messages PROVE UnderWay(x)' <=> UnderWay(x) /\ ~Holds(p, x)
  <2>1. \A q \in Proc : \A s \in sending[q] : s.row = x => Holds(q, x)
    BY DEF PostInv, SendInv, Holds
  <2>2. \A q \in Proc : Holds(p, x) /\ Holds(q, x) => p = q
    BY DEF PostInv, HeldInv, OneHolder
  <2> QED
    BY <1>2, <2>1, <2>2 DEF UnderWay
<1>7. \A x \in Messages : lost'[x] <=> lost[x] \/ Holds(p, x)
  <2>1. lost' = [x \in Row |-> lost[x] \/ Holds(p, x)] /\ \A x \in Messages : x \in Row
    BY DEF Crash, Row
  <2> QED
    BY <2>1, Zenon
<1>8. [x \in Messages |-> Holders(x)]' = [m \in Messages |-> [x \in Messages |-> Holders(x)][m] \ {p}]
  <2>1. \A x \in Messages : Holders(x)' = Holders(x) \ {p}
    BY <1>4 DEF Holders
  <2> QED
    BY <2>1
<1>9. {x \in Messages : UnderWay(x)}'
        = {m \in {x \in Messages : UnderWay(x)} : [x \in Messages |-> Holders(x)][m] # {p}}
  BY <1>5, <1>6
<1>10. {x \in Messages : lost[x]}'
         = {x \in Messages : lost[x]} \cup {m \in Messages : [x \in Messages |-> Holders(x)][m] = {p}}
  BY <1>5, <1>7
<1> QED
  BY <1>3, <1>8, <1>9, <1>10, SameAsked, SameSent, Zenon DEF Contract!Die

\* Every step of the program is one of Delivery's, or nothing to it.
LEMMA StepDelivers == PostInv /\ [Next]_vars => [Contract!Next]_(Contract!vars)
<1> SUFFICES ASSUME PostInv, [Next]_vars PROVE Contract!Next \/ UNCHANGED Contract!vars
  BY Zenon
<1>1. CASE UNCHANGED vars
  <2>1. UNCHANGED <<build, started, world, at, seen, inFlight, sending, sends, lost>>
    BY <1>1 DEF vars, buildVars, passVars, senderVars
  <2>2. \A x \in Messages : Asked(x)' <=> Asked(x)
    BY <2>1 DEF Asked, Told, Triggered
  <2>3. \A q \in Proc, x \in Messages : Holds(q, x)' <=> Holds(q, x)
    BY <2>1, SameHolders
  <2> QED
    BY <2>1, <2>2, <2>3, Unseen, Zenon
<1>2. CASE BuildNext
  BY <1>2, BuildDelivers, Zenon DEF Contract!Next
<1>3. ASSUME NEW p \in Proc, PassNext(p) \/ Work(p) \/ Crash(p) \/ (\E s \in sending[p] : SaveFails(p, s))
      PROVE  Contract!Next \/ UNCHANGED Contract!vars
  <2>1. UNCHANGED <<build, started, stages, world, unsettled>> /\ \A x \in Cleanups : status'[x] = status[x]
    BY <1>3, OtherSteps DEF PostInv
  <2>2. \A x \in Messages : Asked(x)' <=> Asked(x)
    BY <2>1, SameBuild
  <2>3. CASE Claim(p)
    <3>1. \E r \in Messages : Contract!Take(r, p)
      BY <2>2, <2>3, ClaimTakes, Zenon
    <3> QED
      BY <3>1, Zenon DEF Contract!Next
  <2>4. CASE PassNext(p) /\ ~Claim(p)
    BY <2>2, <2>4, PassUnseen, Zenon DEF PassNext, Act
  <2>5. ASSUME NEW r \in Messages, BeginSend(p, r) PROVE Contract!Next
    <3>1. Contract!Send(r) \/ Contract!LetGo(r, p)
      BY <2>2, <2>5, BeginDelivers, Zenon
    <3> QED
      BY <3>1, Zenon DEF Contract!Next
  <2>6. ASSUME NEW s \in sending[p], EndSend(p, s) \/ Retry(p, s) \/ SaveFails(p, s) PROVE Contract!Next
    <3>1. \E r \in Messages : Contract!LetGo(r, p)
      BY <2>2, <2>6, LeaveDelivers, Zenon
    <3> QED
      BY <3>1, Zenon DEF Contract!Next
  <2>7. CASE Crash(p)
    <3>1. Contract!Die(p)
      BY <2>2, <2>7, CrashDelivers, Zenon
    <3> QED
      BY <3>1, Zenon DEF Contract!Next
  <2> QED
    BY <1>3, <2>3, <2>4, <2>5, <2>6, <2>7, Zenon DEF Work
<1>4. ASSUME NEW r \in Messages, Backoff(r) \/ ClaimAges(r) PROVE UNCHANGED Contract!vars
  <2>1. UNCHANGED <<build, started, stages, world, unsettled, status, at, seen, inFlight, sending, sends, lost>>
    BY <1>4 DEF Backoff, ClaimAges, buildVars, passVars, senderVars
  <2>2. \A x \in Messages : Asked(x)' <=> Asked(x)
    BY <2>1 DEF Asked, Told, Triggered
  <2>3. \A q \in Proc, x \in Messages : Holds(q, x)' <=> Holds(q, x)
    BY <2>1, SameHolders
  <2> QED
    BY <2>1, <2>2, <2>3, Unseen, Zenon
<1> QED
  BY <1>1, <1>2, <1>3, <1>4, Zenon DEF Next

\* At the start nothing is asked for, in hand, sent or lost.
LEMMA InitDelivers == Init => Contract!Init
<1> SUFFICES ASSUME Init PROVE Contract!Init
  OBVIOUS
<1>1. {x \in Messages : Asked(x)} = {}
  BY DEF Init, Asked, Ended
<1>2. {x \in Messages : UnderWay(x)} = {}
  BY DEF Init, UnderWay
<1>3. {x \in Messages : lost[x]} = {}
  BY DEF Init, Row
<1>4. [x \in Messages |-> Holders(x)] = [m \in Messages |-> {}]
  <2>1. \A x \in Messages : Holders(x) = {}
    BY DEF Init, Holders, Holds
  <2> QED
    BY <2>1
<1>5. [x \in Messages |-> sends[x]] = [m \in Messages |-> 0]
  BY DEF Init, Row
<1> QED
  BY <1>1, <1>2, <1>3, <1>4, <1>5, Zenon DEF Contract!Init

\* Notifications are delivered as Delivery promises, whichever processes die and
\* whatever cannot be recorded, also when passes overlap and sends are slow.
THEOREM DeliveryKept == Spec => ImplementsDelivery
BY InitDelivers, StepDelivers, Invariance, PTL DEF Spec, ImplementsDelivery, Contract!Spec

=============================================================================
