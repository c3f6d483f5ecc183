-------------------------- MODULE Approval_proofs --------------------------
(***************************************************************************)
(* That the gate of Approval.tla holds, for any approvers, processes and   *)
(* number of faults: types, then GateInv action by action, then what       *)
(* follows from it.  Most writes preserve GateInv for one reason, stated   *)
(* once as WriteStep: they take nothing back that anyone has already read. *)
(* Last, that the stage keeps what Verdict.tla promises.                   *)
(***************************************************************************)
EXTENDS Approval, FiniteSetTheorems, TLAPS

USE ApprovalAssumption
USE DEF fixed

---------------------------------------------------------------------------
\* A set of decisions that is part of another has no more approvers.
LEMMA MoreApprovers ==
    ASSUME NEW A, NEW B, A \subseteq B
    PROVE  /\ Cardinality(Approvers(A)) <= Cardinality(Approvers(B))
           /\ Cardinality(Approvers(A)) \in Nat
           /\ Cardinality(Approvers(B)) \in Nat
<1>1. Approvers(A) \subseteq Approvers(B) /\ Approvers(B) \subseteq User
  BY DEF Approvers
<1>2. IsFiniteSet(Approvers(B)) /\ IsFiniteSet(Approvers(A))
  BY <1>1, FS_Subset
<1> QED
  BY <1>1, <1>2, FS_Subset, FS_CardinalityType

\* Before anybody has answered there are no approvals, and some are needed.
LEMMA NobodyYet == Cardinality(Approvers({})) = 0 /\ 0 < Required
<1>1. Approvers({}) = {}
  BY DEF Approvers
<1>2. Cardinality(Approvers({})) = 0
  BY <1>1, FS_EmptySet
<1>3. Cardinality(User) \in Nat
  BY FS_CardinalityType
<1> QED
  BY <1>2, <1>3

\* The build starts with everything in its place.
THEOREM InitInv == Init => TypeOK /\ GateInv
<1> SUFFICES ASSUME Init PROVE TypeOK /\ GateInv
  OBVIOUS
<1>1. Waiting \in Gate /\ Nothing \in Rows
  BY DEF Waiting, Nothing, Gate, Rows, StageStatus, Open, Decision
<1>2. TypeOK
  <2>1. /\ req \in [User -> {"idle", "loaded", "locked", "nudge"}]
        /\ act \in [User -> {"approve", "reject"}]
        /\ at \in [Actor -> {"idle", "look", "again", "write"}]
        /\ job \in [Actor -> {"reap", "cancel", "advance"}]
        /\ saw \in [Actor -> Rows]
    BY <1>1 DEF Init
  <2>2. starts \in 0..2 /\ faults \in 0..MaxFaults
    BY DEF Init
  <2> QED
    BY <1>1, <2>1, <2>2, Zenon DEF Init, TypeOK, StageStatus, Open
<1>3. GateInv
  <2>1. ViewInv(gate, next)
    BY DEF Init, ViewInv, Waiting
  <2>2. \A x \in Actor : at[x] # "write"
    BY DEF Init
  <2>3. NudgeInv
    BY DEF Init, NudgeInv, Actor
  <2>4. LockInv
    BY DEF Init, LockInv
  <2>5. StoryInv
    <3>1. given = {} /\ ~(starts > 0) /\ build = "running" /\ gate.status = "pending"
      BY DEF Init, Waiting
    <3> QED
      BY <3>1, Zenon DEF StoryInv, Approvers, Rejected
  <2> QED
    BY <2>1, <2>2, <2>3, <2>4, <2>5 DEF GateInv
<1> QED
  BY <1>2, <1>3

---------------------------------------------------------------------------
(* Types                                                                   *)

\* The bookkeeping of advancers keeps its types.
LEMMA AdvTypes ==
    ASSUME TypeOK, NEW x \in Actor,
           NextJob(x) \/ Again(x)
    PROVE  /\ at' \in [Actor -> {"idle", "look", "again", "write"}]
           /\ job' \in [Actor -> {"reap", "cancel", "advance"}]
           /\ saw' \in [Actor -> Rows]
           /\ site' \in Site \cup {NoSite}
<1>1. Nothing \in Rows
  BY DEF Waiting, Nothing, Gate, Rows, StageStatus, Open, Decision
<1>2. CASE NextJob(x)
  BY <1>1, <1>2 DEF NextJob, TypeOK
<1>3. CASE Again(x)
  BY <1>1, <1>3 DEF Again, TypeOK
<1> QED
  BY <1>2, <1>3

\* Every step keeps the types.
LEMMA TypeStep == TypeOK /\ [Next]_vars => TypeOK'
<1> SUFFICES ASSUME TypeOK, [Next]_vars PROVE TypeOK'
  OBVIOUS
<1> USE DEF rowVars, reqVars, advVars
<1>1. ASSUME NEW u \in User, LoadRequest(u) PROVE TypeOK'
  BY <1>1 DEF LoadRequest, TypeOK
<1>2. ASSUME NEW u \in User, LockRow(u) PROVE TypeOK'
  BY <1>2 DEF LockRow, TypeOK, Done
<1>3. ASSUME NEW u \in User, CommitDecision(u) PROVE TypeOK'
  <2>1. <<u, act[u]>> \in Decision
    BY <1>3 DEF TypeOK, Decision
  <2>2. gate' \in Gate /\ given' \in SUBSET Decision
    BY <1>3, <2>1 DEF CommitDecision, Decided, TypeOK, Gate, Closed, StageStatus, Bad
  <2>3. /\ req' \in [User -> {"idle", "loaded", "locked", "nudge"}]
        /\ act' \in [User -> {"approve", "reject"}]
        /\ warned' \in SUBSET User
    BY <1>3 DEF CommitDecision, TypeOK, Done
  <2> QED
    BY <1>3, <2>2, <2>3 DEF CommitDecision, TypeOK
<1>4. ASSUME NEW u \in User, Nudge(u) PROVE TypeOK'
  BY <1>4 DEF Nudge, TypeOK, Done, Actor
<1>5. ASSUME NEW s \in Site, BeginPass(s) PROVE TypeOK'
  BY <1>5 DEF BeginPass, TypeOK, Actor
<1>6. ASSUME NEW x \in Actor, Look(x) PROVE TypeOK'
  <2>1. CASE Wanted(x)
    <3>1. [gate |-> gate, next |-> next] \in Rows
      BY DEF Rows, TypeOK
    <3>2. /\ at' \in [Actor -> {"idle", "look", "again", "write"}]
          /\ saw' \in [Actor -> Rows]
          /\ UNCHANGED <<job, site>>
      BY <1>6, <2>1, <3>1 DEF Look, TypeOK
    <3> QED
      BY <1>6, <3>2, Zenon DEF Look, TypeOK
  <2>2. CASE ~Wanted(x)
    BY <1>6, <2>2, AdvTypes DEF Look, TypeOK
  <2> QED
    BY <2>1, <2>2
<1>7. ASSUME NEW x \in Actor, ReapBuild(x) PROVE TypeOK'
  <2>1. gate' \in Gate /\ next' \in StageStatus
    BY <1>7 DEF ReapBuild, TypeOK, Gate, StageStatus, Open, Bad
  <2> QED
    BY <1>7, <2>1, AdvTypes DEF ReapBuild, TypeOK, Bad
<1>8. ASSUME NEW x \in Actor, CancelBuild(x) PROVE TypeOK'
  <2>1. saw[x].gate \in Gate
    BY DEF TypeOK, Rows
  <2>2. gate' \in Gate
    BY <1>8, <2>1 DEF CancelBuild, Closed, TypeOK, Gate, StageStatus, Bad
  <2>3. next' \in StageStatus
    BY <1>8 DEF CancelBuild, TypeOK, StageStatus, Bad
  <2> QED
    BY <1>8, <2>2, <2>3, AdvTypes DEF CancelBuild, TypeOK, Bad
<1>9. ASSUME NEW x \in Actor, StartWait(x) PROVE TypeOK'
  <2>1. gate' \in Gate
    BY <1>9 DEF StartWait, AskApprovers, HeldForCleanup, TypeOK, Gate, StageStatus, Open
  <2> QED
    BY <1>9, <2>1, AdvTypes DEF StartWait, AskApprovers, HeldForCleanup, TypeOK
<1>10. ASSUME NEW x \in Actor, Watch(x) PROVE TypeOK'
  <2>1. saw[x].gate \in Gate
    BY DEF TypeOK, Rows
  <2>2. gate' \in Gate
    BY <1>10, <2>1 DEF Watch, TypeOK, Gate, Closed, StageStatus, Bad
  <2> QED
    BY <1>10, <2>2, AdvTypes DEF Watch, TypeOK
<1>11. ASSUME NEW x \in Actor, StartNext(x) PROVE TypeOK'
  <2>1. next' \in StageStatus /\ starts' \in 0..2
    BY <1>11 DEF StartNext, HeldForCleanup, TypeOK, StageStatus, Open, Bad
  <2>2. NextJob(x) \/ Again(x)
    BY <1>11 DEF StartNext, HeldForCleanup
  <2> QED
    BY <1>11, <2>1, <2>2, AdvTypes, Zenon DEF StartNext, TypeOK
<1>12. ASSUME NEW x \in Actor, WatchNext(x) PROVE TypeOK'
  BY <1>12, AdvTypes DEF WatchNext, TypeOK, StageStatus, Bad
<1>13. ASSUME NEW x \in Actor, Finalize(x) PROVE TypeOK'
  BY <1>13, AdvTypes DEF Finalize, TypeOK, Bad
<1>14. ASSUME NEW x \in Actor, StageRaises(x) PROVE TypeOK'
  <2>1. gate' \in Gate
    BY <1>14 DEF StageRaises, TypeOK, Gate, StageStatus, Bad
  <2>2. faults' \in 0..MaxFaults
    BY <1>14 DEF StageRaises, TypeOK, Fault
  <2> QED
    BY <1>14, <2>1, <2>2, AdvTypes, Zenon DEF StageRaises, TypeOK
<1>15. ASSUME NEW s \in Site, Crash(s) PROVE TypeOK'
  <2>1. Nothing \in Rows
    BY DEF Waiting, Nothing, Gate, Rows, StageStatus, Open, Decision
  <2>2. /\ at' \in [Actor -> {"idle", "look", "again", "write"}]
        /\ job' \in [Actor -> {"reap", "cancel", "advance"}]
        /\ saw' \in [Actor -> Rows]
    BY <1>15, <2>1 DEF Crash, TypeOK
  <2>3. /\ req' \in [User -> {"idle", "loaded", "locked", "nudge"}]
        /\ act' \in [User -> {"approve", "reject"}]
        /\ warned' \in SUBSET User
        /\ lock' \in User \cup {NoUser}
    BY <1>15 DEF Crash, TypeOK
  <2>4. faults' \in 0..MaxFaults /\ site' \in Site \cup {NoSite}
    BY <1>15 DEF Crash, TypeOK, Fault
  <2> QED
    BY <1>15, <2>2, <2>3, <2>4, Zenon DEF Crash, TypeOK
<1>16. CASE RequestCancel
  BY <1>16 DEF RequestCancel, TypeOK
<1>17. CASE TimePasses
  BY <1>17 DEF TimePasses, TypeOK
<1>18. CASE UNCHANGED vars
  BY <1>18 DEF vars, TypeOK
<1> QED
  BY <1>1, <1>2, <1>3, <1>4, <1>5, <1>6, <1>7, <1>8, <1>9, <1>10, <1>11, <1>12,
     <1>13, <1>14, <1>15, <1>16, <1>17, <1>18 DEF Next, Answer, Advance

---------------------------------------------------------------------------
(* The gate                                                                *)

\* While the stage has not started only the pass advances the build.
LEMMA OnlyThePass ==
    ASSUME TypeOK, GateInv, gate.status = "pending", NEW x \in Actor, at[x] # "idle"
    PROVE  x = Pass
  BY DEF TypeOK, GateInv, NudgeInv, Open, Actor

\* An advancer that is done with what it read: its look is over, everyone
\* else's goes on.
LEMMA Rests ==
    ASSUME TypeOK, NEW x \in Actor, NextJob(x) \/ Again(x)
    PROVE  /\ at'[x] # "write"
           /\ \A y \in Actor \ {x} : at'[y] = at[y] /\ saw'[y] = saw[y]
  BY DEF TypeOK, NextJob, Again

\* What a write has to respect for the invariant to survive it.
LEMMA WriteStep ==
    ASSUME TypeOK, GateInv, NEW x \in Actor, at[x] = "write",
           NextJob(x) \/ Again(x),
           UNCHANGED <<given, fixed, reqVars>>,
           gate' = gate \/ lock = NoUser,
           gate.status # "pending" => gate'.status # "pending",
           gate.status \notin Open => gate'.status \notin Open,
           next # "pending" => next' # "pending",
           ViewInv(gate, next)', StoryInv'
    PROVE  GateInv'
<1> USE DEF reqVars
<1>1. ASSUME NEW y \in Actor, at'[y] = "write"
      PROVE  ViewInv(saw[y].gate, saw[y].next)' /\ AgeInv(y)'
  <2>1. y # x /\ at[y] = "write" /\ saw'[y] = saw[y]
    BY <1>1, Rests
  <2>2. ViewInv(saw[y].gate, saw[y].next) /\ AgeInv(y)
    BY <2>1 DEF GateInv
  <2>3. gate.status # "pending"
    BY <2>1, OnlyThePass
  <2> QED
    BY <2>1, <2>2, <2>3 DEF ViewInv, AgeInv, Granted, Rejected
<1>2. NudgeInv'
  <2> SUFFICES ASSUME NEW u \in User, at'[u] # "idle" \/ req'[u] = "nudge"
               PROVE  gate'.status \notin Open
    BY DEF NudgeInv, Open
  <2>1. at[u] # "idle" \/ req[u] = "nudge"
    BY Rests DEF Actor
  <2> QED
    BY <2>1 DEF GateInv, NudgeInv
<1>3. LockInv'
  BY DEF GateInv, LockInv
<1> QED
  BY <1>1, <1>2, <1>3 DEF GateInv

\* A step that leaves the rows and the advancers alone leaves the views alone.
LEMMA SameViews ==
    ASSUME GateInv, UNCHANGED <<rowVars, fixed, advVars, given>>
    PROVE  /\ ViewInv(gate, next)'
           /\ \A x \in Actor : at'[x] = "write" =>
                 ViewInv(saw[x].gate, saw[x].next)' /\ AgeInv(x)'
  BY DEF GateInv, ViewInv, AgeInv, Granted, Rejected, rowVars, advVars

\* A decision is committed only into a stage that waits: it cannot contradict
\* what anyone has read.
LEMMA CommitStep ==
    ASSUME TypeOK, GateInv, NEW u \in User, CommitDecision(u)
    PROVE  GateInv'
<1> USE DEF advVars
<1> DEFINE d == <<u, act[u]>>
<1>1. /\ gate.status = "running" /\ lock = u
      /\ gate.decisions \subseteq given
      /\ given' = given \cup {d}
      /\ ~Rejected
      /\ UNCHANGED <<next, fixed, starts, build, at, saw>>
  BY DEF CommitDecision, GateInv, LockInv, StoryInv, ViewInv
<1>2. gate'.decisions = gate.decisions \cup {d} /\ gate'.decisions \subseteq given'
  BY <1>1 DEF CommitDecision, Decided, Closed, TypeOK, Gate
<1>3. \/ gate'.status = "failed"
      \/ /\ act[u] # "reject"
         /\ gate'.status = "success"
         /\ Cardinality(Approvers(gate'.decisions)) >= Required
      \/ /\ act[u] # "reject"
         /\ gate'.status = "running"
         /\ ~(Cardinality(Approvers(gate'.decisions)) >= Required)
  BY <1>1, <1>2 DEF CommitDecision, Decided, Closed, TypeOK, Gate
<1>4. act[u] # "reject" => ~Rejected'
  BY <1>1 DEF Rejected
<1>5. Cardinality(Approvers(gate'.decisions)) \in Nat
  BY MoreApprovers
<1>6. Cardinality(Approvers(gate'.decisions)) >= Required => Granted'
  <2>1. /\ Cardinality(Approvers(gate'.decisions)) <= Cardinality(Approvers(given'))
        /\ Cardinality(Approvers(given')) \in Nat
    BY <1>2, MoreApprovers
  <2>2. Required \in Nat
    BY FS_CardinalityType
  <2> QED
    BY <1>5, <2>1, <2>2 DEF Granted, Approvers
<1>7. ViewInv(gate, next)'
  <2>1. Required \in Nat
    BY FS_CardinalityType
  <2>2. gate'.status = "running" => Cardinality(Approvers(gate'.decisions)) < Required
    BY <1>3, <1>5, <2>1
  <2>3. gate'.status = "success" => Granted' /\ ~Rejected'
    BY <1>3, <1>4, <1>6
  <2> QED
    BY <1>2, <1>3, <2>2, <2>3 DEF ViewInv, Approvers
<1>8. ASSUME NEW y \in Actor, at'[y] = "write"
      PROVE  ViewInv(saw[y].gate, saw[y].next)' /\ AgeInv(y)'
  <2>1. ViewInv(saw[y].gate, saw[y].next) /\ AgeInv(y)
    BY <1>1, <1>8 DEF GateInv
  <2>2. /\ saw[y].gate.decisions \subseteq given'
        /\ saw[y].gate.status = "running" =>
              Cardinality(Approvers(saw[y].gate.decisions)) < Required
    BY <1>1, <2>1 DEF ViewInv
  <2>3. saw[y].gate.status \notin {"success", "skipped"}
    BY <1>1, <2>1 DEF AgeInv, Open
  <2>4. gate'.status # "pending"
    BY <1>3
  <2> QED
    BY <1>1, <2>1, <2>2, <2>3, <2>4 DEF ViewInv, AgeInv, Approvers, Open
<1>9. NudgeInv'
  <2> SUFFICES ASSUME NEW v \in User, at'[v] # "idle" \/ req'[v] = "nudge"
               PROVE  gate'.status \notin Open
    BY DEF NudgeInv, Open
  <2>1. ~(at[v] # "idle" \/ req[v] = "nudge")
    BY <1>1 DEF GateInv, NudgeInv, Open
  <2>2. gate'.status # "running"
    BY <1>1, <2>1 DEF CommitDecision, Done, TypeOK
  <2> QED
    BY <1>3, <2>2 DEF Open
<1>10. LockInv'
  <2>1. ASSUME NEW v \in User PROVE req'[v] # "locked"
    BY <1>1 DEF CommitDecision, Done, GateInv, LockInv, TypeOK
  <2> QED
    BY <2>1 DEF LockInv
<1>11. StoryInv'
  <2>1. starts' = 0
    BY <1>1 DEF GateInv, StoryInv, TypeOK, Open
  <2>2. build' # "success"
    BY <1>1 DEF GateInv, StoryInv, Open
  <2>3. gate'.status # "pending" /\ (gate'.status = "running" => ~Rejected')
    BY <1>3, <1>4
  <2>4. AllowSelf \/ Requester \notin Approvers(given)'
    BY <1>1 DEF GateInv, StoryInv, LockInv, CommitDecision, Approvers
  <2>5. ~unmet
    BY <1>1 DEF GateInv, StoryInv
  <2> QED
    BY <1>1, <2>1, <2>2, <2>3, <2>4, <2>5 DEF StoryInv
<1> QED
  BY <1>7, <1>8, <1>9, <1>10, <1>11 DEF GateInv

\* Every step keeps the row, the views of it and the acknowledged decisions
\* telling one story.
LEMMA GateStep == TypeOK /\ GateInv /\ [Next]_vars => GateInv'
<1> SUFFICES ASSUME TypeOK, GateInv, [Next]_vars PROVE GateInv'
  OBVIOUS
<1> USE DEF rowVars, reqVars, advVars
<1>v. ViewInv(gate, next) /\ NudgeInv /\ LockInv /\ StoryInv
  BY DEF GateInv
<1>w. ASSUME NEW x \in Actor, at[x] = "write"
      PROVE  ViewInv(saw[x].gate, saw[x].next) /\ AgeInv(x)
  BY <1>w DEF GateInv
<1>1. ASSUME NEW u \in User, LoadRequest(u) PROVE GateInv'
  <2>1. NudgeInv' /\ LockInv' /\ StoryInv'
    BY <1>v, <1>1 DEF LoadRequest, TypeOK, NudgeInv, LockInv, StoryInv, Granted, Rejected
  <2> QED
    BY <1>1, <2>1, SameViews DEF LoadRequest, GateInv
<1>2. ASSUME NEW u \in User, LockRow(u) PROVE GateInv'
  <2>1. NudgeInv' /\ StoryInv'
    BY <1>v, <1>2 DEF LockRow, Done, TypeOK, NudgeInv, StoryInv, Granted, Rejected
  <2>2. LockInv'
    BY <1>v, <1>2 DEF LockRow, Done, Eligible, TypeOK, LockInv
  <2> QED
    BY <1>2, <2>1, <2>2, SameViews DEF LockRow, GateInv
<1>3. ASSUME NEW u \in User, CommitDecision(u) PROVE GateInv'
  BY <1>3, CommitStep
<1>4. ASSUME NEW u \in User, Nudge(u) PROVE GateInv'
  <2>1. ASSUME NEW x \in Actor, at'[x] = "write" PROVE at[x] = "write"
    BY <1>4, <2>1 DEF Nudge, TypeOK, Actor
  <2>2. NudgeInv'
    BY <1>v, <1>4 DEF Nudge, Done, TypeOK, NudgeInv, Actor
  <2>3. LockInv' /\ StoryInv'
    BY <1>v, <1>4 DEF Nudge, Done, TypeOK, LockInv, StoryInv, Granted, Rejected
  <2>4. ViewInv(gate, next)'
    BY <1>v, <1>4 DEF Nudge, ViewInv, Granted, Rejected
  <2>5. ASSUME NEW x \in Actor, at'[x] = "write"
        PROVE  ViewInv(saw[x].gate, saw[x].next)' /\ AgeInv(x)'
    BY <1>4, <1>w, <2>1, <2>5 DEF Nudge, ViewInv, AgeInv, Granted, Rejected
  <2> QED
    BY <2>2, <2>3, <2>4, <2>5 DEF GateInv
<1>5. ASSUME NEW s \in Site, BeginPass(s) PROVE GateInv'
  <2>1. ASSUME NEW x \in Actor, at'[x] = "write" PROVE at[x] = "write"
    BY <1>5, <2>1 DEF BeginPass, TypeOK, Actor
  <2>2. NudgeInv'
    BY <1>v, <1>5 DEF BeginPass, TypeOK, NudgeInv, Actor
  <2>3. LockInv' /\ StoryInv'
    BY <1>v, <1>5 DEF BeginPass, LockInv, StoryInv, Granted, Rejected
  <2>4. ViewInv(gate, next)'
    BY <1>v, <1>5 DEF BeginPass, ViewInv, Granted, Rejected
  <2>5. ASSUME NEW x \in Actor, at'[x] = "write"
        PROVE  ViewInv(saw[x].gate, saw[x].next)' /\ AgeInv(x)'
    BY <1>5, <1>w, <2>1, <2>5 DEF BeginPass, ViewInv, AgeInv, Granted, Rejected
  <2> QED
    BY <2>2, <2>3, <2>4, <2>5 DEF GateInv
<1>6. ASSUME NEW x \in Actor, Look(x) PROVE GateInv'
  <2>1. UNCHANGED <<rowVars, fixed, reqVars, given, starts>>
    BY <1>6 DEF Look
  <2>2. at[x] # "idle"
    BY <1>6 DEF Look
  <2>3. LockInv' /\ StoryInv' /\ ViewInv(gate, next)'
    BY <1>v, <2>1 DEF LockInv, StoryInv, ViewInv, Granted, Rejected
  <2>4. \A y \in Actor \ {x} : at'[y] = at[y] /\ saw'[y] = saw[y]
    BY <1>6 DEF Look, NextJob, TypeOK
  <2>5. at'[x] = "write" => saw'[x] = [gate |-> gate, next |-> next]
    BY <1>6 DEF Look, NextJob, TypeOK
  <2>6. NudgeInv'
    BY <1>v, <2>1, <2>2, <2>4 DEF NudgeInv, Actor
  <2>7. ASSUME NEW y \in Actor, at'[y] = "write"
        PROVE  ViewInv(saw[y].gate, saw[y].next)' /\ AgeInv(y)'
    <3>1. CASE y = x
      <4>1. saw'[x].gate = gate' /\ saw'[x].next = next'
        BY <2>1, <2>5, <2>7, <3>1
      <4> QED
        BY <2>3, <3>1, <4>1 DEF ViewInv, AgeInv
    <3>2. CASE y # x
      BY <1>w, <2>1, <2>4, <2>7, <3>2 DEF ViewInv, AgeInv, Granted, Rejected
    <3> QED
      BY <3>1, <3>2
  <2> QED
    BY <2>3, <2>6, <2>7 DEF GateInv
<1>7. ASSUME NEW x \in Actor, ReapBuild(x) PROVE GateInv'
  <2>1. at[x] = "write" /\ UNCHANGED <<given, fixed, reqVars, starts>> /\ build' = "timeout"
    BY <1>7 DEF ReapBuild, Writing
  <2>2. /\ gate' = gate \/ lock = NoUser
        /\ \/ gate' = gate /\ gate.status \notin Open
           \/ gate' = [gate EXCEPT !.status = "timeout"]
        /\ next' = next \/ next' \in {"timeout", "skipped"}
    BY <1>7, <1>w, <2>1 DEF ReapBuild, AgeInv
  <2>3. gate'.decisions = gate.decisions /\ (gate' = gate \/ gate'.status = "timeout")
    BY <2>2 DEF TypeOK, Gate
  <2>4. ViewInv(gate, next)' /\ StoryInv'
    BY <1>v, <2>1, <2>2, <2>3 DEF ViewInv, StoryInv, Granted, Rejected, Open
  <2> QED
    BY <1>7, <2>1, <2>2, <2>3, <2>4, WriteStep DEF ReapBuild, Open
<1>8. ASSUME NEW x \in Actor, CancelBuild(x) PROVE GateInv'
  <2>1. at[x] = "write" /\ UNCHANGED <<given, fixed, reqVars, starts>> /\ build' = "cancelled"
    BY <1>8 DEF CancelBuild, Writing
  <2>2. ViewInv(saw[x].gate, saw[x].next) /\ AgeInv(x)
    BY <1>w, <2>1
  <2>3. gate' = gate \/ lock = NoUser
    BY <1>8 DEF CancelBuild, Open
  <2>4. /\ gate'.decisions \subseteq given
        /\ \/ gate' = gate /\ gate.status # "pending"
           \/ gate'.status = "cancelled" /\ gate.status # "pending"
           \/ gate'.status = "skipped" /\ gate.status = "pending"
    BY <1>8, <2>2, <1>v DEF CancelBuild, Closed, TypeOK, Gate, Rows, ViewInv, AgeInv, StageStatus, Open
  <2>5. next' # "pending"
    BY <1>8, <2>2 DEF CancelBuild, AgeInv, Open
  <2>6. ViewInv(gate, next)' /\ StoryInv'
    BY <1>v, <2>1, <2>4, <2>5 DEF ViewInv, StoryInv, Granted, Rejected, Open
  <2> QED
    BY <1>8, <2>1, <2>3, <2>4, <2>5, <2>6, WriteStep DEF CancelBuild, Open
<1>9. ASSUME NEW x \in Actor, StartWait(x) PROVE GateInv'
  <2>1. /\ at[x] = "write" /\ lock = NoUser
        /\ UNCHANGED <<given, fixed, reqVars, starts, build, next>>
        /\ NextJob(x) \/ Again(x)
    BY <1>9 DEF StartWait, AskApprovers, Writing, HeldForCleanup
  <2>2. gate.status = "pending" /\ given = {}
    BY <1>9, <1>v, <1>w, <2>1 DEF StartWait, AskApprovers, AgeInv, StoryInv, Writing
  <2>3. gate.decisions = {}
    BY <1>v, <2>2 DEF ViewInv
  <2>4. \/ gate' = gate
        \/ /\ gate'.decisions = {}
           /\ \/ gate'.status = "running" /\ ~unmet
              \/ gate'.status = "skipped" /\ (earlier \/ unmet)
    BY <1>9, <2>3 DEF StartWait, AskApprovers, HeldForCleanup, TypeOK, Gate
  <2>5. ViewInv(gate, next)'
    BY <1>v, <2>1, <2>2, <2>4, NobodyYet DEF ViewInv, Approvers, Granted, Rejected
  <2>6. StoryInv'
    BY <1>v, <2>1, <2>2, <2>4 DEF StoryInv, Granted, Rejected, Open
  <2> QED
    BY <2>1, <2>2, <2>4, <2>5, <2>6, WriteStep DEF Open
<1>10. ASSUME NEW x \in Actor, Watch(x) PROVE GateInv'
  <2> DEFINE g == saw[x].gate
  <2>1. /\ at[x] = "write"
        /\ UNCHANGED <<given, fixed, reqVars, starts, build, next>>
        /\ g.status = "running"
    BY <1>10 DEF Watch, Writing
  <2>2. ViewInv(g, saw[x].next) /\ AgeInv(x)
    BY <1>w, <2>1
  <2>3. ~(Cardinality(Approvers(g.decisions)) >= Required)
    <3>1. Cardinality(Approvers(g.decisions)) < Required
      BY <2>1, <2>2 DEF ViewInv
    <3>2. Cardinality(Approvers(g.decisions)) \in Nat /\ Required \in Nat
      BY MoreApprovers, FS_CardinalityType
    <3> QED
      BY <3>1, <3>2
  <2>4. /\ gate' = gate \/ lock = NoUser
        /\ \/ gate' = gate
           \/ gate' = Closed(g, "failed") \/ gate' = Closed(g, "timeout")
           \/ gate' = [g EXCEPT !.status = gate.status]
    BY <1>10, <2>3 DEF Watch
  <2>5. g \in Gate
    BY DEF TypeOK, Rows
  <2>6. \/ gate' = gate
        \/ gate'.decisions = g.decisions /\ gate'.status \in {"failed", "timeout", gate.status}
    BY <2>4, <2>5 DEF Closed, Gate
  <2>7. gate.status # "pending"
    BY <2>1, <2>2 DEF AgeInv
  <2>8. ViewInv(gate, next)'
    BY <1>v, <2>1, <2>2, <2>6 DEF ViewInv, Granted, Rejected
  <2>9. StoryInv'
    BY <1>v, <2>1, <2>6, <2>7 DEF StoryInv, Granted, Rejected, Open
  <2> QED
    BY <1>10, <2>1, <2>4, <2>6, <2>7, <2>8, <2>9, WriteStep DEF Watch, Open
<1>11. ASSUME NEW x \in Actor, StartNext(x) PROVE GateInv'
  <2> DEFINE v == saw[x]
  <2>1. /\ at[x] = "write"
        /\ UNCHANGED <<given, fixed, reqVars, build, gate>>
        /\ v.gate.status \notin Open /\ v.next = "pending"
        /\ next' = next \/ next' # "pending"
        /\ NextJob(x) \/ Again(x)
    BY <1>11 DEF StartNext, Writing, HeldForCleanup
  <2>2. ViewInv(v.gate, v.next) /\ AgeInv(x)
    BY <1>w, <2>1
  <2>3. gate.status \notin Open
    BY <2>1, <2>2 DEF AgeInv
  <2>4. starts' = starts \/ (~earlier /\ (unmet \/ Granted) /\ ~Rejected)
    <3>1. starts' = starts \/ ~HeldBack(v)
      BY <1>11 DEF StartNext, HeldForCleanup
    <3>2. ~HeldBack(v) => ~earlier /\ v.gate.status \in {"success", "skipped"}
      BY <2>1 DEF HeldBack, TypeOK, Rows, Gate, StageStatus
    <3> QED
      BY <2>1, <2>2, <3>1, <3>2 DEF ViewInv, Rejected
  <2>5. ViewInv(gate, next)' /\ StoryInv'
    BY <1>v, <2>1, <2>3, <2>4 DEF ViewInv, StoryInv, Granted, Rejected
  <2> QED
    BY <2>1, <2>5, WriteStep
<1>12. ASSUME NEW x \in Actor, WatchNext(x) PROVE GateInv'
  <2>1. /\ at[x] = "write"
        /\ UNCHANGED <<given, fixed, reqVars, build, gate, starts>>
        /\ next' = next \/ next' # "pending"
    BY <1>12 DEF WatchNext, Writing
  <2>2. ViewInv(gate, next)' /\ StoryInv'
    BY <1>v, <2>1 DEF ViewInv, StoryInv, Granted, Rejected
  <2> QED
    BY <1>12, <2>1, <2>2, WriteStep DEF WatchNext
<1>13. ASSUME NEW x \in Actor, Finalize(x) PROVE GateInv'
  <2>1. /\ at[x] = "write"
        /\ UNCHANGED <<given, fixed, reqVars, next, gate, starts>>
    BY <1>13 DEF Finalize, Writing
  <2>2. ViewInv(saw[x].gate, saw[x].next) /\ AgeInv(x)
    BY <1>w, <2>1
  <2>3. build' = build \/ (build' = "success" => saw[x].gate.status \in {"success", "skipped"})
    BY <1>13 DEF Finalize, TypeOK, Rows, Gate, StageStatus, Bad, Open
  <2>4. build' = build \/ (build' = "success" => ~Rejected /\ gate.status \notin Open)
    BY <2>2, <2>3 DEF ViewInv, AgeInv, Open, Rejected
  <2>5. ViewInv(gate, next)' /\ StoryInv'
    BY <1>v, <2>1, <2>4 DEF ViewInv, StoryInv, Granted, Rejected
  <2> QED
    BY <1>13, <2>1, <2>5, WriteStep DEF Finalize
<1>14. ASSUME NEW x \in Actor, StageRaises(x) PROVE GateInv'
  <2>1. /\ at[x] = "write" /\ lock = NoUser
        /\ UNCHANGED <<given, fixed, reqVars, build, next, starts>>
    BY <1>14 DEF StageRaises, Writing
  <2>2. gate'.status = "failed" /\ gate'.decisions = gate.decisions
    BY <1>14 DEF StageRaises, TypeOK, Gate
  <2>3. ViewInv(gate, next)' /\ StoryInv'
    BY <1>v, <2>1, <2>2 DEF ViewInv, StoryInv, Granted, Rejected, Open
  <2> QED
    BY <1>14, <2>1, <2>2, <2>3, WriteStep DEF StageRaises, Open
<1>15. ASSUME NEW s \in Site, Crash(s) PROVE GateInv'
  <2>1. UNCHANGED <<rowVars, fixed, given, starts>>
    BY <1>15 DEF Crash
  <2>2. ASSUME NEW x \in Actor, at'[x] # "idle"
        PROVE  at'[x] = at[x] /\ saw'[x] = saw[x]
    BY <1>15, <2>2 DEF Crash
  <2>3. ViewInv(gate, next)' /\ StoryInv'
    BY <1>v, <2>1 DEF ViewInv, StoryInv, Granted, Rejected
  <2>4. ASSUME NEW x \in Actor, at'[x] = "write"
        PROVE  ViewInv(saw[x].gate, saw[x].next)' /\ AgeInv(x)'
    BY <1>w, <2>1, <2>2, <2>4 DEF ViewInv, AgeInv, Granted, Rejected
  <2>5. NudgeInv'
    BY <1>v, <1>15, <2>1, <2>2 DEF Crash, NudgeInv, Actor
  <2>6. LockInv'
    BY <1>v, <1>15, <2>1 DEF Crash, LockInv
  <2> QED
    BY <2>3, <2>4, <2>5, <2>6 DEF GateInv
<1>16. CASE RequestCancel
  BY <1>v, <1>16, SameViews DEF RequestCancel, GateInv, NudgeInv, LockInv, StoryInv, Granted, Rejected
<1>17. CASE TimePasses
  BY <1>v, <1>17, SameViews DEF TimePasses, GateInv, NudgeInv, LockInv, StoryInv, Granted, Rejected
<1>18. CASE UNCHANGED vars
  BY <1>v, <1>18, SameViews DEF vars, GateInv, NudgeInv, LockInv, StoryInv, Granted, Rejected
<1> QED
  BY <1>1, <1>2, <1>3, <1>4, <1>5, <1>6, <1>7, <1>8, <1>9, <1>10, <1>11, <1>12,
     <1>13, <1>14, <1>15, <1>16, <1>17, <1>18 DEF Next, Answer, Advance

---------------------------------------------------------------------------
(* The theorems                                                            *)

\* Every reachable state has the types and tells one story.
THEOREM Invariance == Spec => [](TypeOK /\ GateInv)
<1>1. TypeOK /\ GateInv /\ [Next]_vars => (TypeOK /\ GateInv)'
  BY TypeStep, GateStep
<1> QED
  BY InitInv, <1>1, PTL DEF Spec

\* Type correctness.
THEOREM TypeCorrectness == Spec => []TypeOK
  BY Invariance, PTL

\* Nothing behind the gate starts without the approvals the stage asks for, but
\* where the gate's own run condition has waived it unasked.
THEOREM GateHolds == Spec => []NothingPastTheGate
<1>1. TypeOK /\ GateInv => NothingPastTheGate
  BY DEF GateInv, StoryInv, NothingPastTheGate, Granted
<1> QED
  BY <1>1, Invariance, PTL

\* A rejection that was acknowledged is never undone.
THEOREM RejectionHolds == Spec => []RejectionStands
<1>1. TypeOK /\ GateInv => RejectionStands
  <2> SUFFICES ASSUME TypeOK, GateInv, Rejected
               PROVE  gate.status # "success" /\ starts = 0 /\ build # "success"
    BY DEF RejectionStands, Rejected
  <2>1. gate.status # "success" /\ build # "success"
    BY DEF GateInv, ViewInv, StoryInv
  <2>2. ~(starts > 0)
    BY DEF GateInv, StoryInv
  <2> QED
    BY <2>1, <2>2 DEF TypeOK
<1> QED
  BY <1>1, Invariance, PTL

---------------------------------------------------------------------------
(* The stage keeps what Verdict promises.                                  *)

\* What was promised to be enough is what GateInv calls granted.
LEMMA PassedIsGranted ==
    /\ Promise!Passed <=> Granted /\ ~Rejected
    /\ Promise!Passed' <=> (Granted /\ ~Rejected)'
BY Zenon DEF Promise!Passed, Promise!Enough, Promise!Rejected, Promise!Cardinality, Granted, Rejected,
   Approvers, Cardinality

\* Where the row's status, the answers and what is behind stay, so does all of it.
LEMMA VerdictStays ==
    ASSUME gate'.status = gate.status, UNCHANGED <<given, starts, fixed>>
    PROVE  UNCHANGED Promise!vars
BY DEF Promise!vars, Phase

\* A stage that is closed, or closed again, other than as passed, is over.
LEMMA VerdictEnds ==
    ASSUME gate'.status \notin Open \cup {"success"}, UNCHANGED <<given, starts, fixed>>
    PROVE  Promise!End
BY DEF Promise!End, Phase, Open

\* An answer counts while the stage waits.
LEMMA AnswerIsHeard ==
    ASSUME TypeOK, GateInv, GateInv', NEW u \in User, CommitDecision(u)
    PROVE  Promise!Next
<1> DEFINE d == act[u]
<1>1. gate.status = "running" /\ (d = "approve" => u \in Allowed)
  BY DEF CommitDecision, GateInv, LockInv, Allowed
<1>2. given' = given \cup {<<u, d>>} /\ UNCHANGED <<starts, fixed>> /\ d \in {"approve", "reject"}
  BY DEF CommitDecision, TypeOK
<1>3. gate'.status \in {"failed", "success", "running"} /\ (d = "reject" => gate'.status = "failed")
  BY <1>1 DEF CommitDecision, Decided, Closed, TypeOK, Gate
<1>4. gate'.status = "success" => Promise!Passed'
  BY PassedIsGranted DEF GateInv, ViewInv
<1>5. /\ Phase = "now" /\ Phase' \in {"now", "over"} /\ (d = "reject" => Phase' = "over")
      /\ gate'.status = "success" => Phase' = "over"
  BY <1>1, <1>3 DEF Phase
<1>6. Promise!Answer(u, d)
  BY <1>1, <1>2, <1>4, <1>5, Zenon DEF Promise!Answer
<1> QED
  BY <1>2, <1>6, Zenon DEF Promise!Next

\* Whoever advances the build ends the wait, or has what is behind begin, as promised.
LEMMA AdvanceKeepsVerdict ==
    ASSUME TypeOK, GateInv, GateInv', NEW x \in Actor, Advance(x)
    PROVE  [Promise!Next]_(Promise!vars)
<1>e. Promise!End \/ Promise!Ask \/ Promise!Begin => Promise!Next
  BY Zenon DEF Promise!Next
<1>w. ASSUME at[x] = "write" PROVE ViewInv(saw[x].gate, saw[x].next) /\ AgeInv(x)
  BY <1>w DEF GateInv
<1>v. saw[x].gate \in Gate
  BY DEF TypeOK, Rows
<1>1. CASE Look(x) \/ WatchNext(x) \/ Finalize(x)
  <2>1. UNCHANGED <<gate, given, starts, fixed>>
    BY <1>1 DEF Look, WatchNext, Finalize, rowVars
  <2> QED
    BY <2>1, VerdictStays
<1>2. CASE ReapBuild(x)
  <2>1. UNCHANGED <<given, starts, fixed>> /\ (gate' = gate \/ gate'.status = "timeout")
    BY <1>2 DEF ReapBuild, TypeOK, Gate
  <2> QED
    BY <1>e, <2>1, VerdictStays, VerdictEnds DEF Open
<1>3. CASE CancelBuild(x)
  <2>1. UNCHANGED <<given, starts, fixed>> /\ (gate' = gate \/ gate'.status \in {"cancelled", "skipped"})
    BY <1>3, <1>v DEF CancelBuild, Closed, TypeOK, Gate
  <2> QED
    BY <1>e, <2>1, VerdictStays, VerdictEnds DEF Open
<1>4. CASE StartWait(x)
  <2>1. /\ gate.status = "pending" /\ UNCHANGED <<given, starts, fixed>>
        /\ \/ gate' = gate \/ gate'.status = "skipped"
           \/ gate'.status = "running" /\ ~earlier /\ ~unmet
    BY <1>4, <1>w DEF StartWait, AskApprovers, HeldForCleanup, Writing, AgeInv, TypeOK, Gate
  <2>2. gate'.status = "running" => Promise!Ask
    BY <2>1 DEF Promise!Ask, Phase
  <2> QED
    BY <1>e, <2>1, <2>2, VerdictStays, VerdictEnds DEF Open
<1>5. CASE Watch(x)
  <2> DEFINE g == saw[x].gate
  <2>1. UNCHANGED <<given, starts, fixed>> /\ at[x] = "write" /\ g.status = "running"
    BY <1>5 DEF Watch, Writing
  <2>2. ~(Cardinality(Approvers(g.decisions)) >= Required)
    <3>1. Cardinality(Approvers(g.decisions)) < Required
      BY <1>w, <2>1 DEF ViewInv
    <3>2. Cardinality(Approvers(g.decisions)) \in Nat /\ Required \in Nat
      BY MoreApprovers, FS_CardinalityType
    <3> QED
      BY <3>1, <3>2
  <2>3. gate'.status \in {"failed", "timeout", gate.status}
    BY <1>5, <1>v, <2>2 DEF Watch, Closed, Gate
  <2> QED
    BY <1>e, <2>1, <2>3, VerdictStays, VerdictEnds DEF Open
<1>6. CASE StartNext(x)
  <2>1. UNCHANGED <<gate, given, fixed>> /\ (starts' = starts \/ starts' > 0)
    BY <1>6 DEF StartNext, HeldForCleanup, TypeOK
  <2>2. CASE starts' = starts
    BY <2>1, <2>2, VerdictStays
  <2>3. CASE starts' > 0
    <3>1. /\ (~earlier /\ (unmet \/ Granted) /\ ~Rejected /\ gate.status \notin Open)'
          /\ (unmet => given = {})'
      BY <2>3 DEF GateInv, StoryInv
    <3>2. /\ ~earlier /\ (unmet \/ Granted) /\ ~Rejected /\ gate.status \notin Open
          /\ unmet => given = {}
      BY <2>1, <3>1 DEF Granted, Rejected
    <3>3. /\ Promise!Passed \/ (unmet /\ given = {})
          /\ Phase = "over" /\ Phase' = Phase
      BY <2>1, <3>2, PassedIsGranted DEF Phase, Open
    <3>4. Promise!Begin
      BY <2>1, <2>3, <3>2, <3>3 DEF Promise!Begin
    <3> QED
      BY <1>e, <3>4
  <2> QED
    BY <2>1, <2>2, <2>3
<1>7. CASE StageRaises(x)
  <2>1. UNCHANGED <<given, starts, fixed>> /\ gate'.status = "failed"
    BY <1>7 DEF StageRaises, TypeOK, Gate
  <2> QED
    BY <1>e, <2>1, VerdictEnds DEF Open
<1> QED
  BY <1>1, <1>2, <1>3, <1>4, <1>5, <1>6, <1>7 DEF Advance

\* Every step is one that was promised, or nothing of it is seen.
LEMMA VerdictStep ==
    TypeOK /\ GateInv /\ GateInv' /\ [Next]_vars => [Promise!Next]_(Promise!vars)
<1> SUFFICES ASSUME TypeOK, GateInv, GateInv', [Next]_vars PROVE [Promise!Next]_(Promise!vars)
  OBVIOUS
<1>1. ASSUME NEW u \in User, Answer(u) PROVE [Promise!Next]_(Promise!vars)
  <2>1. CASE CommitDecision(u)
    BY <2>1, AnswerIsHeard
  <2>2. CASE ~CommitDecision(u)
    <3>1. UNCHANGED <<gate, given, starts, fixed>>
      BY <1>1, <2>2 DEF Answer, LoadRequest, LockRow, Nudge, rowVars
    <3> QED
      BY <3>1, VerdictStays
  <2> QED
    BY <2>1, <2>2
<1>2. ASSUME NEW x \in Actor, Advance(x) PROVE [Promise!Next]_(Promise!vars)
  BY <1>2, AdvanceKeepsVerdict
<1>3. CASE (\E s \in Site : BeginPass(s) \/ Crash(s)) \/ RequestCancel \/ TimePasses \/ UNCHANGED vars
  <2>1. UNCHANGED <<gate, given, starts, fixed>>
    BY <1>3 DEF BeginPass, Crash, RequestCancel, TimePasses, rowVars, vars
  <2> QED
    BY <2>1, VerdictStays
<1> QED
  BY <1>1, <1>2, <1>3 DEF Next

\* The stage keeps its promise, for any approvers, processes and faults: answers
\* count while it waits, it turns green out of the wait only, and nothing behind
\* it begins but after the wait, on enough of them or on a waiver that asked nobody.
THEOREM VerdictKept == Spec => ImplementsVerdict
<1>1. Init => Promise!Init
  BY DEF Init, Waiting, Promise!Init, Phase
<1>2. TypeOK /\ GateInv /\ (TypeOK /\ GateInv)' /\ [Next]_vars => [Promise!Next]_(Promise!vars)
  BY VerdictStep
<1> QED
  BY <1>1, <1>2, Invariance, PTL DEF Spec, ImplementsVerdict, Promise!Spec
===========================================================================
