------------------------- MODULE PassGuard_proofs -------------------------
(***************************************************************************)
(* That the guard of PassGuard.tla keeps CI passes one at a time, for any  *)
(* number of processes, threads, forks, crashes and lost connections.      *)
(***************************************************************************)
EXTENDS PassGuard, TLAPS

USE SessionNames, ThreadAssumption

---------------------------------------------------------------------------
(* What one step may do to the pair (threads in the guard, the lock).      *)

\* A step that moves no guarded thread into or out of the guard, and touches
\* neither a mutex nor the lock, keeps the invariant.
LEMMA QuietStep ==
    ASSUME TypeOK, GuardInv,
           UNCHANGED <<lockVars, up, mutex>>,
           pc' \in [Thread -> Phases],
           \A t \in Guarded : /\ pc'[t] \in InGuard <=> pc[t] \in InGuard
                              /\ pc'[t] \in {"mutexed", "unmutex"}
                                    => pc[t] \in {"mutexed", "unmutex"},
           \A t \in Decider : pc'[t] \in {"off", "ready", "engine", "done"},
           \A t \in Thread : pc[t] = "off" => pc'[t] = "off"
    PROVE  GuardInv'
<1>1. MutexInv'
  BY DEF GuardInv, MutexInv
<1>2. DeciderInv'
  BY DEF DeciderInv
<1>3. DownInv' /\ ForkInv'
  BY DEF GuardInv, DownInv, ForkInv, lockVars
<1>4. BeliefInv'
  BY DEF GuardInv, BeliefInv, Believes, lockVars
<1> QED
  BY <1>1, <1>2, <1>3, <1>4 DEF GuardInv

---------------------------------------------------------------------------
\* Before any process has started nobody holds the lock or the mutexes: the
\* types and the inductive invariant hold.
THEOREM InitInv == Init => TypeOK /\ GuardInv
BY DEF Init, LockInit, TypeOK, LockTypeOK, Phases, InGuard, GuardInv, MutexInv,
       DeciderInv, DownInv, ForkInv, BeliefInv, Believes, Guarded

\* The calls on the lock object keep its types.
LEMMA LockTypes ==
    ASSUME LockTypeOK, NEW p \in Proc,
           ReVerify(p) \/ TakeLock(p) \/ CheckFails(p)
    PROVE  LockTypeOK'
<1> USE DEF LockTypeOK, AfterEnd
<1>1. CASE ReVerify(p)
  BY <1>1 DEF ReVerify, lockVars
<1>2. CASE TakeLock(p)
  BY <1>2 DEF TakeLock
<1>3. CASE CheckFails(p)
  <2>1. conn' \in [Proc -> Proc \cup {NoProc}] /\ held' \in [Proc -> BOOLEAN]
    BY <1>3 DEF CheckFails
  <2>2. live' \in SUBSET Proc /\ owner' \in Proc \cup {NoProc, Orphan}
    BY <1>3 DEF CheckFails
  <2> QED
    BY <2>1, <2>2
<1> QED
  BY <1>1, <1>2, <1>3

\* Every step keeps the types.
LEMMA TypeStep == TypeOK /\ [Next]_vars => TypeOK'
<1> SUFFICES ASSUME TypeOK, [Next]_vars PROVE TypeOK'
  OBVIOUS
<1> USE DEF TypeOK, LockTypeOK, Phases, InGuard, Rest, Goto, Nap, Fault, loopVars, lockVars
<1>1. ASSUME NEW t \in Thread, EnterGuard(t) PROVE TypeOK'
  BY <1>1 DEF EnterGuard, Guarded
<1>2. ASSUME NEW t \in Thread, Acquire(t) PROVE TypeOK'
  <2>1. LockTypeOK'
    BY <1>2, LockTypes DEF Acquire
  <2>2. faults' \in 0..MaxFaults
    BY <1>2 DEF Acquire
  <2> QED
    BY <1>2, <2>1, <2>2 DEF Acquire
<1>3. ASSUME NEW t \in Thread, NothingActive(t) PROVE TypeOK'
  BY <1>3 DEF NothingActive
<1>4. ASSUME NEW t \in Thread, StartPass(t) PROVE TypeOK'
  BY <1>4 DEF StartPass
<1>5. ASSUME NEW t \in Thread, PassBusy(t) PROVE TypeOK'
  BY <1>5 DEF PassBusy
<1>6. ASSUME NEW t \in Thread, EndPass(t) PROVE TypeOK'
  BY <1>6 DEF EndPass
<1>7. ASSUME NEW t \in Thread, ReleaseLock(t) PROVE TypeOK'
  BY <1>7 DEF ReleaseLock, Release, AfterEnd
<1>8. ASSUME NEW t \in Thread, LeaveGuard(t) PROVE TypeOK'
  BY <1>8 DEF LeaveGuard
<1>9. ASSUME NEW t \in Thread, WaitReturns(t) PROVE TypeOK'
  BY <1>9 DEF WaitReturns
<1>10. ASSUME NEW t \in Thread, ClearWake(t) PROVE TypeOK'
  BY <1>10 DEF ClearWake
<1>11. ASSUME NEW t \in Thread, PassRaises(t) PROVE TypeOK'
  BY <1>11 DEF PassRaises
<1>12. ASSUME NEW p \in Proc, CommitWork(p) PROVE TypeOK'
  BY <1>12 DEF CommitWork
<1>13. ASSUME NEW p \in Proc, Wake(p) PROVE TypeOK'
  BY <1>13 DEF Wake
<1>14. ASSUME NEW p \in Proc, Start(p) PROVE TypeOK'
  BY <1>14 DEF Start
<1>15. ASSUME NEW p \in Proc, Fork(p) PROVE TypeOK'
  BY <1>15 DEF Fork, Inherit
<1>16. ASSUME NEW p \in Proc, Crash(p) PROVE TypeOK'
  BY <1>16 DEF Crash, ProcessGone, SessionEnds, AfterEnd
<1>17. ASSUME NEW p \in Proc, Disconnect(p) PROVE TypeOK'
  BY <1>17 DEF Disconnect, SessionDrops, SessionEnds, AfterEnd
<1>18. CASE Expire
  BY <1>18 DEF Expire, KeepaliveExpires
<1>19. CASE UNCHANGED vars
  BY <1>19 DEF vars
<1> QED
  BY <1>1, <1>2, <1>3, <1>4, <1>5, <1>6, <1>7, <1>8, <1>9, <1>10, <1>11, <1>12,
     <1>13, <1>14, <1>15, <1>16, <1>17, <1>18, <1>19 DEF Next, Step

\* An acquisition that succeeds found the lock free, and nobody in the guard.
LEMMA AcquireTakes ==
    ASSUME TypeOK, GuardInv, NEW t \in Thread, Acquire(t)
    PROVE  /\ t \in Guarded
           /\ \A u \in Guarded : Home[u] = Home[t] => pc[u] \notin InGuard
           /\ ~Believes(Home[t])
           /\ owner # Home[t]
           /\ TakeLock(Home[t]) \/ CheckFails(Home[t])
           /\ held'[Home[t]] => /\ owner = NoProc
                                /\ owner' = Home[t]
<1> DEFINE p == Home[t]
<1>1. t \in Guarded
  BY DEF GuardInv, DeciderInv, Acquire, Guarded
<1>2. \A u \in Guarded : Home[u] = p => pc[u] \notin InGuard
  BY <1>1 DEF GuardInv, MutexInv, Acquire, InGuard
<1>3. ~Believes(p) /\ owner # p
  BY <1>2 DEF GuardInv, BeliefInv
<1>4. TakeLock(p) \/ CheckFails(p)
  BY <1>3 DEF Acquire, ReVerify, VerifiedHeld
<1>5. held'[p] => owner = NoProc /\ owner' = p
  BY <1>3, <1>4 DEF TakeLock, CheckFails, Believes, TypeOK, LockTypeOK, AfterEnd
<1> QED
  BY <1>1, <1>2, <1>3, <1>4, <1>5

\* Every step of a thread, of a process or of the server keeps the inductive
\* invariant; the proof has one step per action.
LEMMA GuardStep == TypeOK /\ GuardInv /\ [Next]_vars => GuardInv'
<1> SUFFICES ASSUME TypeOK, GuardInv, [Next]_vars PROVE GuardInv'
  OBVIOUS
<1>0. TypeOK'
  BY TypeStep
<1> USE <1>0 DEF InGuard
<1>1. ASSUME NEW t \in Thread, EnterGuard(t) PROVE GuardInv'
  <2> DEFINE p == Home[t]
  <2>1. MutexInv'
    BY <1>1 DEF EnterGuard, GuardInv, MutexInv, TypeOK, Goto, Rest, Guarded
  <2>2. DeciderInv' /\ DownInv' /\ ForkInv'
    BY <1>1 DEF EnterGuard, GuardInv, DeciderInv, DownInv, ForkInv, TypeOK,
                Goto, Guarded, lockVars
  <2>3. BeliefInv'
    BY <1>1 DEF EnterGuard, GuardInv, BeliefInv, Believes, TypeOK, Goto, Rest,
                Guarded, lockVars
  <2> QED
    BY <2>1, <2>2, <2>3 DEF GuardInv
<1>2. ASSUME NEW t \in Thread, Acquire(t) PROVE GuardInv'
  <2> DEFINE p == Home[t]
  <2>1. /\ t \in Guarded
        /\ \A u \in Guarded : Home[u] = p => pc[u] \notin InGuard
        /\ ~Believes(p)
        /\ owner # p
        /\ TakeLock(p) \/ CheckFails(p)
        /\ held'[p] => owner = NoProc /\ owner' = p
    BY <1>2, AcquireTakes
  <2>2. MutexInv' /\ DeciderInv' /\ DownInv'
    BY <1>2, <2>1 DEF Acquire, GuardInv, MutexInv, DeciderInv, DownInv, TypeOK,
                      Goto, Guarded
  <2>3. ForkInv'
    BY <2>1 DEF TakeLock, CheckFails, GuardInv, ForkInv, TypeOK, LockTypeOK
  <2>4. /\ held'[p] => Believes(p)' /\ p \in live'
        /\ \A q \in Proc \ {p} : /\ Believes(q)' <=> Believes(q)
                                 /\ q \in live' <=> q \in live
    BY <2>1 DEF TakeLock, CheckFails, Believes, TypeOK, LockTypeOK
  <2>5. ~held'[p] => owner' = owner
    BY <2>1 DEF TakeLock, CheckFails, AfterEnd, TypeOK, LockTypeOK
  <2>6. /\ pc'[t] = IF held'[p] THEN "work" ELSE "unmutex"
        /\ \A u \in Thread \ {t} : pc'[u] = pc[u]
    BY <1>2 DEF Acquire, Goto, TypeOK
  <2>7. BeliefInv'
    <3>1. \A u \in Guarded : pc'[u] \in InGuard => Believes(Home[u])'
      BY <2>1, <2>4, <2>6 DEF GuardInv, BeliefInv, Guarded
    <3>2. \A q \in Proc : Believes(q)' =>
             \E u \in Guarded : Home[u] = q /\ pc'[u] \in InGuard
      <4> SUFFICES ASSUME NEW q \in Proc, Believes(q)'
                   PROVE  \E u \in Guarded : Home[u] = q /\ pc'[u] \in InGuard
        OBVIOUS
      <4>1. CASE q = p
        BY <4>1, <2>1, <2>6 DEF Believes
      <4>2. CASE q # p
        <5>1. PICK u \in Guarded : Home[u] = q /\ pc[u] \in InGuard
          BY <4>2, <2>4 DEF GuardInv, BeliefInv
        <5> QED
          BY <4>2, <5>1, <2>6 DEF Guarded
      <4> QED
        BY <4>1, <4>2
    <3>3. \A q \in Proc : q \in live' /\ Believes(q)' <=> owner' = q
      BY <2>1, <2>4, <2>5 DEF GuardInv, BeliefInv, Believes
    <3> QED
      BY <3>1, <3>2, <3>3 DEF BeliefInv, Guarded
  <2> QED
    BY <2>2, <2>3, <2>7 DEF GuardInv
<1>3. ASSUME NEW t \in Thread, NothingActive(t) PROVE GuardInv'
  BY <1>3, QuietStep DEF NothingActive, TypeOK, Goto, Guarded, GuardInv, DeciderInv
<1>4. ASSUME NEW t \in Thread, StartPass(t) PROVE GuardInv'
  BY <1>4, QuietStep DEF StartPass, AtEngine, TypeOK, Goto, Guarded, GuardInv, DeciderInv
<1>5. ASSUME NEW t \in Thread, PassBusy(t) PROVE GuardInv'
  BY <1>5, QuietStep DEF PassBusy, AtEngine, TypeOK, Goto, Guarded, GuardInv, DeciderInv
<1>6. ASSUME NEW t \in Thread, EndPass(t) PROVE GuardInv'
  BY <1>6, QuietStep DEF EndPass, TypeOK, Goto, Guarded, GuardInv, DeciderInv
<1>7. ASSUME NEW t \in Thread, ReleaseLock(t) PROVE GuardInv'
  <2> DEFINE p == Home[t]
  <2>1. /\ t \in Guarded
        /\ \A u \in Guarded \ {t} : Home[u] = p => pc[u] \notin InGuard
    BY <1>7 DEF ReleaseLock, GuardInv, MutexInv, DeciderInv, Guarded
  <2>2. /\ ~Believes(p)'
        /\ owner' # p
        /\ live' = live
        /\ \A q \in Proc \ {p} : /\ Believes(q)' <=> Believes(q)
                                 /\ owner' = q <=> owner = q
    BY <1>7 DEF ReleaseLock, Release, AfterEnd, Believes, GuardInv, BeliefInv,
                TypeOK, LockTypeOK
  <2>3. MutexInv' /\ DeciderInv' /\ DownInv'
    BY <1>7, <2>1 DEF ReleaseLock, GuardInv, MutexInv, DeciderInv, DownInv,
                      TypeOK, Goto, Guarded
  <2>4. ForkInv'
    BY <1>7 DEF ReleaseLock, Release, GuardInv, ForkInv, TypeOK, LockTypeOK
  <2>5. /\ pc'[t] = "unmutex"
        /\ \A u \in Thread \ {t} : pc'[u] = pc[u]
    BY <1>7 DEF ReleaseLock, Goto, TypeOK
  <2>6. BeliefInv'
    <3>1. \A u \in Guarded : pc'[u] \in InGuard => Believes(Home[u])'
      BY <2>1, <2>2, <2>5 DEF GuardInv, BeliefInv, Guarded
    <3>2. \A q \in Proc : Believes(q)' =>
             \E u \in Guarded : Home[u] = q /\ pc'[u] \in InGuard
      BY <2>1, <2>2, <2>5 DEF GuardInv, BeliefInv, Guarded
    <3>3. \A q \in Proc : q \in live' /\ Believes(q)' <=> owner' = q
      BY <2>2 DEF GuardInv, BeliefInv
    <3> QED
      BY <3>1, <3>2, <3>3 DEF BeliefInv, Guarded
  <2> QED
    BY <2>3, <2>4, <2>6 DEF GuardInv
<1>8. ASSUME NEW t \in Thread, LeaveGuard(t) PROVE GuardInv'
  <2>1. MutexInv'
    BY <1>8 DEF LeaveGuard, GuardInv, MutexInv, DeciderInv, TypeOK, Goto, Rest, Guarded
  <2>2. DeciderInv' /\ DownInv' /\ ForkInv'
    BY <1>8 DEF LeaveGuard, GuardInv, DeciderInv, DownInv, ForkInv, TypeOK,
                Goto, Guarded, lockVars
  <2>3. BeliefInv'
    BY <1>8 DEF LeaveGuard, GuardInv, BeliefInv, Believes, TypeOK, Goto, Rest,
                Guarded, lockVars
  <2> QED
    BY <2>1, <2>2, <2>3 DEF GuardInv
<1>9. ASSUME NEW t \in Thread, WaitReturns(t) PROVE GuardInv'
  BY <1>9, QuietStep DEF WaitReturns, TypeOK, Goto, Guarded, GuardInv, DeciderInv
<1>10. ASSUME NEW t \in Thread, ClearWake(t) PROVE GuardInv'
  BY <1>10, QuietStep DEF ClearWake, TypeOK, Goto, Guarded, GuardInv, DeciderInv
<1>11. ASSUME NEW t \in Thread, PassRaises(t) PROVE GuardInv'
  BY <1>11, QuietStep DEF PassRaises, TypeOK, Goto, Guarded, GuardInv, DeciderInv
<1>12. ASSUME NEW p \in Proc, CommitWork(p) PROVE GuardInv'
  BY <1>12, QuietStep DEF CommitWork, TypeOK, GuardInv, DeciderInv
<1>13. ASSUME NEW p \in Proc, Wake(p) PROVE GuardInv'
  BY <1>13, QuietStep DEF Wake, TypeOK, GuardInv, DeciderInv
<1>14. ASSUME NEW p \in Proc, Start(p) PROVE GuardInv'
  <2>1. \A t \in Thread : pc'[t] = IF Home[t] = p THEN "ready" ELSE pc[t]
    BY <1>14 DEF Start
  <2>2. \A t \in Thread : Home[t] = p => pc[t] = "off"
    BY <1>14 DEF Start, GuardInv, DownInv
  <2>3. MutexInv' /\ DeciderInv'
    BY <1>14, <2>1 DEF Start, GuardInv, MutexInv, DeciderInv, Guarded
  <2>4. DownInv' /\ ForkInv'
    BY <1>14, <2>1 DEF Start, GuardInv, DownInv, ForkInv, lockVars
  <2>5. BeliefInv'
    BY <1>14, <2>1, <2>2 DEF Start, GuardInv, BeliefInv, Believes, Guarded, lockVars
  <2> QED
    BY <2>3, <2>4, <2>5 DEF GuardInv
<1>15. ASSUME NEW q \in Proc, Fork(q) PROVE GuardInv'
  <2>1. \A t \in Thread :
            pc'[t] = IF Home[t] = q /\ t \notin Ticker THEN "ready" ELSE pc[t]
    BY <1>15 DEF Fork
  <2>2. /\ Master \in Proc /\ Master # q
        /\ \A t \in Thread : Home[t] = q => pc[t] = "off"
    BY <1>15 DEF Fork, GuardInv, DownInv, TypeOK
  <2>3. MutexInv' /\ DeciderInv'
    BY <1>15, <2>1, <2>2 DEF Fork, GuardInv, MutexInv, DeciderInv, Guarded, TypeOK
  <2>4. DownInv'
    BY <1>15, <2>1 DEF Fork, GuardInv, DownInv
  <2>5. ForkInv'
    BY <1>15, <2>2 DEF Fork, Inherit, GuardInv, ForkInv, TypeOK, LockTypeOK
  <2>6. /\ ~Believes(q) /\ ~Believes(q)'
        /\ owner' = owner /\ live' = live
        /\ \A p \in Proc \ {q} : Believes(p)' <=> Believes(p)
    <3>1. ~Believes(q)
      BY <2>2 DEF GuardInv, BeliefInv, Guarded
    <3>2. conn'[q] # q
      BY <1>15, <2>2 DEF Fork, Inherit, GuardInv, ForkInv, TypeOK, LockTypeOK
    <3> QED
      BY <1>15, <3>1, <3>2 DEF Fork, Inherit, Believes, TypeOK, LockTypeOK
  <2>7. BeliefInv'
    <3>1. \A u \in Guarded : pc'[u] \in InGuard => Believes(Home[u])'
      BY <2>1, <2>2, <2>6 DEF GuardInv, BeliefInv, Guarded
    <3>2. \A p \in Proc : Believes(p)' =>
             \E u \in Guarded : Home[u] = p /\ pc'[u] \in InGuard
      BY <2>1, <2>2, <2>6 DEF GuardInv, BeliefInv, Guarded
    <3>3. \A p \in Proc : p \in live' /\ Believes(p)' <=> owner' = p
      BY <2>6 DEF GuardInv, BeliefInv
    <3> QED
      BY <3>1, <3>2, <3>3 DEF BeliefInv, Guarded
  <2> QED
    BY <2>3, <2>4, <2>5, <2>7 DEF GuardInv
<1>16. ASSUME NEW p \in Proc, Crash(p) PROVE GuardInv'
  <2>1. \A t \in Thread : pc'[t] = IF Home[t] = p THEN "off" ELSE pc[t]
    BY <1>16 DEF Crash
  <2>2. MutexInv' /\ DeciderInv'
    BY <1>16, <2>1 DEF Crash, GuardInv, MutexInv, DeciderInv, Guarded, TypeOK
  <2>3. DownInv'
    BY <1>16, <2>1 DEF Crash, GuardInv, DownInv, TypeOK
  <2>4. ForkInv'
    BY <1>16 DEF Crash, ProcessGone, GuardInv, ForkInv, TypeOK, LockTypeOK
  <2>5. /\ ~Believes(p)' /\ owner' # p
        /\ \A q \in Proc \ {p} : /\ Believes(q)' <=> Believes(q)
                                 /\ q \in live' <=> q \in live
                                 /\ owner' = q <=> owner = q
    BY <1>16 DEF Crash, ProcessGone, SessionEnds, AfterEnd, Believes, TypeOK, LockTypeOK
  <2>6. BeliefInv'
    <3>1. \A u \in Guarded : pc'[u] \in InGuard => Believes(Home[u])'
      BY <2>1, <2>5 DEF GuardInv, BeliefInv, Guarded
    <3>2. \A q \in Proc : Believes(q)' =>
             \E u \in Guarded : Home[u] = q /\ pc'[u] \in InGuard
      BY <2>1, <2>5 DEF GuardInv, BeliefInv, Guarded
    <3>3. \A q \in Proc : q \in live' /\ Believes(q)' <=> owner' = q
      BY <2>5 DEF GuardInv, BeliefInv
    <3> QED
      BY <3>1, <3>2, <3>3 DEF BeliefInv, Guarded
  <2> QED
    BY <2>2, <2>3, <2>4, <2>6 DEF GuardInv
<1>17. ASSUME NEW p \in Proc, Disconnect(p) PROVE GuardInv'
  <2>1. MutexInv' /\ DeciderInv' /\ DownInv' /\ ForkInv'
    BY <1>17 DEF Disconnect, SessionDrops, GuardInv, MutexInv, DeciderInv, DownInv, ForkInv
  <2>2. BeliefInv'
    BY <1>17 DEF Disconnect, SessionDrops, SessionEnds, AfterEnd, GuardInv,
                 BeliefInv, Believes, Guarded, TypeOK, LockTypeOK
  <2> QED
    BY <2>1, <2>2 DEF GuardInv
<1>18. CASE Expire
  <2>1. MutexInv' /\ DeciderInv' /\ DownInv' /\ ForkInv'
    BY <1>18 DEF Expire, KeepaliveExpires, GuardInv, MutexInv, DeciderInv, DownInv, ForkInv
  <2>2. BeliefInv'
    BY <1>18 DEF Expire, KeepaliveExpires, GuardInv, BeliefInv, Believes, Guarded
  <2> QED
    BY <2>1, <2>2 DEF GuardInv
<1>19. CASE UNCHANGED vars
  BY <1>19, QuietStep DEF vars, TypeOK, GuardInv, DeciderInv
<1> QED
  BY <1>1, <1>2, <1>3, <1>4, <1>5, <1>6, <1>7, <1>8, <1>9, <1>10, <1>11, <1>12,
     <1>13, <1>14, <1>15, <1>16, <1>17, <1>18, <1>19 DEF Next, Step

\* The mutexes, the lock objects, the server's lock table and the program
\* counters of ticker._guarded agree in every reachable state.
THEOREM Invariance == Spec => [](TypeOK /\ GuardInv)
<1>1. TypeOK /\ GuardInv /\ [Next]_vars => (TypeOK /\ GuardInv)'
  BY TypeStep, GuardStep
<1> QED
  BY InitInv, <1>1, PTL DEF Spec

---------------------------------------------------------------------------
(* What the invariant says of passes.                                      *)

\* In a state where they agree, two guarded passes with live sessions are one
\* pass, and the owner of the lock is inside one.
LEMMA PassesAgree == TypeOK /\ GuardInv => OnePassPerSession /\ LockImpliesPass
<1> SUFFICES ASSUME TypeOK, GuardInv PROVE OnePassPerSession /\ LockImpliesPass
  OBVIOUS
<1>1. OnePassPerSession
  <2> SUFFICES ASSUME NEW t \in LivePasses, NEW u \in LivePasses PROVE t = u
    BY DEF OnePassPerSession
  <2>1. owner = Home[t] /\ owner = Home[u]
    BY DEF LivePasses, GuardInv, BeliefInv, Guarded
  <2> QED
    BY <2>1 DEF LivePasses, GuardInv, MutexInv
<1>2. LockImpliesPass
  BY DEF LockImpliesPass, GuardInv, BeliefInv
<1> QED
  BY <1>1, <1>2

\* Every variable of the guard keeps its type, in every instance.
THEOREM TypesHold == Spec => []TypeOK
BY Invariance, PTL

\* Two guarded passes never run at once on sessions that are alive, whatever
\* the number of processes, threads, forks, crashes and dropped connections.
THEOREM OnePass == Spec => []OnePassPerSession
BY Invariance, PassesAgree, PTL

\* The lock is never left behind by a pass that is over, skipped or failed:
\* whoever Postgres says holds it has a thread inside ticker._guarded.
THEOREM LockMeansPass == Spec => []LockImpliesPass
BY Invariance, PassesAgree, PTL

---------------------------------------------------------------------------
(* The guard implements ExclusivePass.                                     *)

\* A pass joins only when there is none: a step either takes passes away or
\* finds the cluster empty.
LEMMA JoinsWhenEmpty ==
    TypeOK /\ GuardInv /\ [Next]_vars => LivePasses' \subseteq LivePasses \/ LivePasses = {}
<1> SUFFICES ASSUME TypeOK, GuardInv, [Next]_vars, LivePasses # {}
             PROVE  LivePasses' \subseteq LivePasses
  OBVIOUS
<1> USE DEF TypeOK, LivePasses, InGuard, Goto, Rest, Guarded
<1>0. PICK v \in Guarded : pc[v] \in InGuard /\ Home[v] \in live /\ owner = Home[v]
  BY DEF GuardInv, BeliefInv
<1>1. ASSUME NEW t \in Thread, EnterGuard(t) PROVE LivePasses' \subseteq LivePasses
  BY <1>1 DEF EnterGuard, lockVars
<1>2. ASSUME NEW t \in Thread, Acquire(t) PROVE LivePasses' \subseteq LivePasses
  <2> DEFINE p == Home[t]
  <2>1. /\ \A u \in Guarded : Home[u] = p => pc[u] \notin InGuard
        /\ owner # NoProc
        /\ TakeLock(p) \/ CheckFails(p)
        /\ held'[p] => owner = NoProc
    BY <1>0, <1>2, AcquireTakes
  <2>2. live' \subseteq live \cup {p}
    BY <2>1 DEF TakeLock, CheckFails
  <2>3. pc'[t] = "unmutex" /\ \A u \in Thread \ {t} : pc'[u] = pc[u]
    BY <1>2, <2>1 DEF Acquire
  <2> QED
    BY <2>1, <2>2, <2>3
<1>3. ASSUME NEW t \in Thread, NothingActive(t) PROVE LivePasses' \subseteq LivePasses
  BY <1>3 DEF NothingActive, lockVars
<1>4. ASSUME NEW t \in Thread, StartPass(t) PROVE LivePasses' \subseteq LivePasses
  BY <1>4 DEF StartPass, AtEngine, lockVars
<1>5. ASSUME NEW t \in Thread, PassBusy(t) PROVE LivePasses' \subseteq LivePasses
  BY <1>5 DEF PassBusy, AtEngine, lockVars
<1>6. ASSUME NEW t \in Thread, EndPass(t) PROVE LivePasses' \subseteq LivePasses
  BY <1>6 DEF EndPass, lockVars
<1>7. ASSUME NEW t \in Thread, ReleaseLock(t) PROVE LivePasses' \subseteq LivePasses
  BY <1>7 DEF ReleaseLock, Release
<1>8. ASSUME NEW t \in Thread, LeaveGuard(t) PROVE LivePasses' \subseteq LivePasses
  BY <1>8 DEF LeaveGuard, lockVars
<1>9. ASSUME NEW t \in Thread, WaitReturns(t) PROVE LivePasses' \subseteq LivePasses
  BY <1>9 DEF WaitReturns, lockVars
<1>10. ASSUME NEW t \in Thread, ClearWake(t) PROVE LivePasses' \subseteq LivePasses
  BY <1>10 DEF ClearWake, lockVars
<1>11. ASSUME NEW t \in Thread, PassRaises(t) PROVE LivePasses' \subseteq LivePasses
  BY <1>11 DEF PassRaises, lockVars
<1>12. ASSUME NEW p \in Proc, CommitWork(p) \/ Wake(p) PROVE LivePasses' \subseteq LivePasses
  BY <1>12 DEF CommitWork, Wake, lockVars
<1>13. ASSUME NEW p \in Proc, Start(p) PROVE LivePasses' \subseteq LivePasses
  BY <1>13 DEF Start, lockVars
<1>14. ASSUME NEW p \in Proc, Fork(p) PROVE LivePasses' \subseteq LivePasses
  BY <1>14 DEF Fork, Inherit
<1>15. ASSUME NEW p \in Proc, Crash(p) PROVE LivePasses' \subseteq LivePasses
  BY <1>15 DEF Crash, ProcessGone, SessionEnds
<1>16. ASSUME NEW p \in Proc, Disconnect(p) PROVE LivePasses' \subseteq LivePasses
  BY <1>16 DEF Disconnect, SessionDrops, SessionEnds
<1>17. CASE Expire
  BY <1>17 DEF Expire, KeepaliveExpires
<1>18. CASE UNCHANGED vars
  BY <1>18 DEF vars, lockVars
<1> QED
  BY <1>1, <1>2, <1>3, <1>4, <1>5, <1>6, <1>7, <1>8, <1>9, <1>10, <1>11, <1>12,
     <1>13, <1>14, <1>15, <1>16, <1>17, <1>18 DEF Next, Step

\* The guard of ticker.py implements ExclusivePass, passes one at a time, in
\* every instance.
THEOREM GuardImplements == Spec => ImplementsExclusivePass
<1>1. Init => EP!Init
  BY DEF Init, LockInit, EP!Init, LivePasses, InGuard, Guarded
<1>2. ASSUME TypeOK, GuardInv, OnePassPerSession, OnePassPerSession', [Next]_vars
      PROVE  [EP!Next]_LivePasses
  <2>1. \A t, u \in LivePasses : t = u
    BY <1>2 DEF OnePassPerSession
  <2>2. \A t, u \in LivePasses' : t = u
    BY <1>2 DEF OnePassPerSession
  <2>3. CASE LivePasses' \subseteq LivePasses
    <3>1. LivePasses' = LivePasses \/ (LivePasses' = {} /\ LivePasses # {})
      BY <2>1, <2>3
    <3> QED
      BY <3>1 DEF EP!Next, EP!End
  <2>4. CASE LivePasses = {} /\ LivePasses' # {}
    <3>1. PICK t \in Thread : t \in LivePasses'
      BY <2>4 DEF LivePasses, Guarded
    <3>2. LivePasses' = {t}
      BY <2>2, <3>1
    <3> QED
      BY <2>4, <3>2 DEF EP!Next, EP!Begin
  <2> QED
    BY <1>2, <2>3, <2>4, JoinsWhenEmpty
<1> QED
  BY Invariance, OnePass, <1>1, <1>2, PTL DEF Spec, ImplementsExclusivePass, EP!Spec

---------------------------------------------------------------------------
(* No wake-up is lost.                                                     *)

\* Work of t's process nobody will tell t about any more.
Missed(t) ==
    /\ Home[t] \in fresh \ announcing
    /\ ~flag[Home[t]]
    /\ t \notin raised

\* Only a ticker waits on the event, so only a ticker clears it.
OnlyTickersSleep == \A u \in Thread \ Ticker : pc[u] \notin {"sleep", "woken"}

\* From the start of its pass on, a ticker that is going to sleep for long has
\* missed nothing.
WakeInv == \A t \in Ticker :
    \/ pc[t] = "engine"
    \/ pc[t] \in {"unlock", "unmutex", "sleep"} /\ nap[t] = "idle"
    => ~Missed(t)

\* The request threads of ticker._guarded are over when their call returns;
\* they never wait on the event.
LEMMA SleepStep == TypeOK /\ OnlyTickersSleep /\ [Next]_vars => OnlyTickersSleep'
<1> SUFFICES ASSUME TypeOK, OnlyTickersSleep, [Next]_vars PROVE OnlyTickersSleep'
  OBVIOUS
<1> USE DEF TypeOK, OnlyTickersSleep, Goto, Rest, loopVars
<1>1. ASSUME NEW u \in Thread, Step(u) \/ PassRaises(u) PROVE OnlyTickersSleep'
  <2>1. ASSUME NEW v \in Thread \ Ticker, pc'[v] \in {"sleep", "woken"} PROVE FALSE
    BY <1>1, <2>1 DEF Step, EnterGuard, Acquire, NothingActive, StartPass, PassBusy,
       EndPass, ReleaseLock, LeaveGuard, WaitReturns, ClearWake, PassRaises
  <2> QED
    BY <2>1
<1>2. ASSUME NEW p \in Proc, CommitWork(p) \/ Wake(p) \/ Disconnect(p)
      PROVE  OnlyTickersSleep'
  BY <1>2 DEF CommitWork, Wake, Disconnect
<1>3. ASSUME NEW p \in Proc, Start(p) \/ Fork(p) \/ Crash(p) PROVE OnlyTickersSleep'
  BY <1>3 DEF Start, Fork, Crash
<1>4. CASE Expire \/ UNCHANGED vars
  BY <1>4 DEF Expire, vars
<1> QED
  BY <1>1, <1>2, <1>3, <1>4 DEF Next

\* Every step keeps it: a pass starts with nothing missed, and what is
\* committed later is announced, or sets the event that only t clears.
LEMMA WakeStep ==
    TypeOK /\ GuardInv /\ OnlyTickersSleep /\ WakeInv /\ [Next]_vars => WakeInv'
<1> SUFFICES ASSUME TypeOK, GuardInv, OnlyTickersSleep, WakeInv, [Next]_vars,
                    NEW t \in Ticker
             PROVE  \/ pc'[t] = "engine"
                    \/ pc'[t] \in {"unlock", "unmutex", "sleep"} /\ nap'[t] = "idle"
                    => ~Missed(t)'
  BY DEF WakeInv, Missed
<1> DEFINE Fine == \/ pc'[t] = "engine"
                   \/ pc'[t] \in {"unlock", "unmutex", "sleep"} /\ nap'[t] = "idle"
                   => ~Missed(t)'
<1> USE DEF TypeOK, Goto, Nap, Missed
<1>0. /\ t \in Thread /\ t \notin Decider
      /\ \/ pc[t] = "engine"
         \/ pc[t] \in {"unlock", "unmutex", "sleep"} /\ nap[t] = "idle"
         => ~Missed(t)
  BY DEF WakeInv
<1>1. ASSUME NEW u \in Thread, EnterGuard(u) PROVE Fine
  BY <1>0, <1>1 DEF EnterGuard, Rest
<1>2. ASSUME NEW u \in Thread, Acquire(u) PROVE Fine
  BY <1>0, <1>2 DEF Acquire
<1>3. ASSUME NEW u \in Thread, NothingActive(u) PROVE Fine
  BY <1>3 DEF NothingActive
<1>4. ASSUME NEW u \in Thread, StartPass(u) PROVE Fine
  <2>1. CASE u \in Ticker
    BY <1>4, <2>1 DEF StartPass
  <2>2. CASE u \notin Ticker
    BY <1>0, <1>4, <2>2 DEF StartPass, loopVars
  <2> QED
    BY <2>1, <2>2
<1>5. ASSUME NEW u \in Thread, PassBusy(u) PROVE Fine
  BY <1>0, <1>5 DEF PassBusy
<1>6. ASSUME NEW u \in Thread, EndPass(u) PROVE Fine
  BY <1>0, <1>6 DEF EndPass
<1>7. ASSUME NEW u \in Thread, ReleaseLock(u) PROVE Fine
  BY <1>0, <1>7 DEF ReleaseLock, loopVars
<1>8. ASSUME NEW u \in Thread, LeaveGuard(u) PROVE Fine
  BY <1>0, <1>8 DEF LeaveGuard, Rest, loopVars
<1>9. ASSUME NEW u \in Thread, WaitReturns(u) PROVE Fine
  BY <1>0, <1>9 DEF WaitReturns, loopVars
<1>10. ASSUME NEW u \in Thread, ClearWake(u) PROVE Fine
  <2>1. CASE u = t
    BY <1>0, <1>10, <2>1 DEF ClearWake
  <2>2. CASE u # t /\ u \in Ticker
    <3>1. Home[u] # Home[t]
      BY <2>2
    <3> QED
      BY <1>0, <1>10, <2>2, <3>1 DEF ClearWake
  <2> QED
    BY <1>10, <2>1, <2>2 DEF ClearWake, OnlyTickersSleep
<1>11. ASSUME NEW u \in Thread, PassRaises(u) PROVE Fine
  BY <1>0, <1>11 DEF PassRaises
<1>12. ASSUME NEW p \in Proc, CommitWork(p) PROVE Fine
  BY <1>0, <1>12 DEF CommitWork
<1>13. ASSUME NEW p \in Proc, Wake(p) PROVE Fine
  BY <1>0, <1>13 DEF Wake
<1>14. ASSUME NEW p \in Proc, Start(p) PROVE Fine
  BY <1>0, <1>14 DEF Start, loopVars
<1>15. ASSUME NEW p \in Proc, Fork(p) PROVE Fine
  <2>1. CASE Home[t] = p
    BY <1>0, <1>15, <2>1 DEF Fork, GuardInv, DownInv
  <2>2. CASE Home[t] # p
    BY <1>0, <1>15, <2>2 DEF Fork
  <2> QED
    BY <2>1, <2>2
<1>16. ASSUME NEW p \in Proc, Crash(p) PROVE Fine
  BY <1>0, <1>16 DEF Crash
<1>17. ASSUME NEW p \in Proc, Disconnect(p) PROVE Fine
  BY <1>0, <1>17 DEF Disconnect, loopVars
<1>18. CASE Expire \/ UNCHANGED vars
  BY <1>0, <1>18 DEF Expire, vars, loopVars
<1> QED
  BY <1>1, <1>2, <1>3, <1>4, <1>5, <1>6, <1>7, <1>8, <1>9, <1>10, <1>11, <1>12,
     <1>13, <1>14, <1>15, <1>16, <1>17, <1>18 DEF Next, Step

\* No ticker sleeps its long interval over work its process has committed and
\* announced (ticker.wake, and the order of wait and clear in the loop), in any
\* instance.
THEOREM NoLostWakeup == Spec => []SleepMissesNothing
<1>1. Init => OnlyTickersSleep /\ WakeInv
  BY DEF Init, OnlyTickersSleep, WakeInv
<1>2. TypeOK /\ GuardInv /\ OnlyTickersSleep /\ WakeInv /\ [Next]_vars
      => OnlyTickersSleep' /\ WakeInv'
  BY SleepStep, WakeStep
<1>3. WakeInv => SleepMissesNothing
  BY DEF WakeInv, Missed, SleepMissesNothing
<1> QED
  BY Invariance, <1>1, <1>2, <1>3, PTL DEF Spec
===========================================================================
