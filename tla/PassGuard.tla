----------------------------- MODULE PassGuard -----------------------------
(***************************************************************************)
(* Who may be inside the CI engine: services/ci/ticker.py (_guarded,       *)
(* guarded_pass, guarded_advance_build_now, the ticker loop and wake) over *)
(* the advisory lock of AdvisoryLock.tla, and the engine's own in-process  *)
(* _pass_lock (engine.advance_ci_builds, engine.advance_build_now).        *)
(*                                                                         *)
(* Three kinds of thread reach the engine: the ticker of each process, the *)
(* request threads that guard themselves (an agent's result), and the      *)
(* request threads of an approval decision, which call                     *)
(* engine.advance_build_now directly.                                      *)
(***************************************************************************)
EXTENDS AdvisoryLock, Naturals

CONSTANTS Thread,      \* the threads that may advance builds
          Ticker,      \* those that are a process's CI clock
          Decider,     \* those that answer an approval (no guard)
          Home,        \* Home[t]: the process of thread t
          Serving,     \* the processes whose requests commit work
          NoThread,
          Master,      \* the process workers are forked from, NoProc without preloading
          MaxFaults    \* bound on crashes, dropped connections, database errors

ASSUME ThreadAssumption == /\ Ticker \subseteq Thread
                           /\ Decider \subseteq Thread \ Ticker
                           /\ Home \in [Thread -> Proc]
                           /\ \A t, u \in Ticker : Home[t] = Home[u] => t = u
                           /\ Serving \subseteq Proc
                           /\ NoThread \notin Thread
                           /\ Master \in Proc \cup {NoProc}
                           /\ MaxFaults \in Nat

VARIABLES up,          \* the processes that are running
          mutex,       \* mutex[p]: the thread holding ticker._pass_mutex
          passLock,    \* passLock[p]: the thread holding engine._pass_lock
          pc,          \* where each thread is
          nap,         \* nap[t]: the interval ticker t waits after its pass
          flag,        \* flag[p]: the ticker's _wake event
          fresh,       \* processes that committed work no pass has started since
          announcing,  \* processes between that commit and their wake()
          raised,      \* tickers whose last pass ended in an exception
          faults       \* faults so far (bounds the state space)

loopVars == <<nap, flag, fresh, announcing, raised>>
vars == <<lockVars, up, mutex, passLock, pc, loopVars, faults>>

Guarded == Thread \ Decider
InGuard == {"work", "engine", "unlock"}
Phases  == InGuard \cup {"off", "ready", "mutexed", "unmutex", "sleep", "woken", "done"}

TypeOK ==
    /\ LockTypeOK
    /\ up \in SUBSET Proc
    /\ mutex \in [Proc -> Thread \cup {NoThread}]
    /\ passLock \in [Proc -> Thread \cup {NoThread}]
    /\ pc \in [Thread -> Phases]
    /\ nap \in [Thread -> {"fast", "idle"}]
    /\ flag \in [Proc -> BOOLEAN]
    /\ fresh \in SUBSET Proc
    /\ announcing \in SUBSET Proc
    /\ raised \in SUBSET Thread
    /\ faults \in 0..MaxFaults

Init ==
    /\ LockInit
    /\ up = {}
    /\ mutex = [p \in Proc |-> NoThread]
    /\ passLock = [p \in Proc |-> NoThread]
    /\ pc = [t \in Thread |-> "off"]
    /\ nap = [t \in Thread |-> "idle"]
    /\ flag = [p \in Proc |-> FALSE]
    /\ fresh = {}
    /\ announcing = {}
    /\ raised = {}
    /\ faults = 0

Goto(t, phase) == pc' = [pc EXCEPT ![t] = phase]

\* What a thread does when its guarded call has returned: a ticker waits, a
\* request is over.
Rest(t) == IF t \in Ticker THEN "sleep" ELSE "done"

\* How long t waits after its call; only a ticker waits.
Nap(t, n) == nap' = IF t \in Ticker THEN [nap EXCEPT ![t] = n] ELSE nap

Fault == faults < MaxFaults /\ faults' = faults + 1

---------------------------------------------------------------------------
(* _guarded                                                                *)

\* Mutant of EnterGuard: no per-process mutex.
EnterUnguarded(t) ==
    /\ t \in Guarded
    /\ pc[t] = "ready"
    /\ Goto(t, "mutexed")
    /\ UNCHANGED <<lockVars, up, mutex, passLock, loopVars, faults>>

\* The process's own mutex, never waited for: taken, or the call returns None.
EnterGuard(t) ==
    LET p == Home[t] IN
    /\ t \in Guarded
    /\ pc[t] = "ready"
    /\ \/ /\ mutex[p] = NoThread
          /\ mutex' = [mutex EXCEPT ![p] = t]
          /\ Goto(t, "mutexed")
          /\ UNCHANGED nap
       \/ /\ mutex[p] # NoThread
          /\ Goto(t, Rest(t))
          /\ Nap(t, "fast")
          /\ UNCHANGED mutex
    /\ UNCHANGED <<lockVars, up, passLock, flag, fresh, announcing, raised, faults>>

\* Mutant of Acquire: None, the pass held elsewhere, is taken for "not busy".
AcquireNotBusy(t) ==
    LET p == Home[t] IN
    /\ pc[t] = "mutexed"
    /\ \/ ReVerify(p) /\ UNCHANGED faults
       \/ TakeLock(p) /\ UNCHANGED faults
       \/ CheckFails(p) /\ Fault
    /\ Goto(t, IF held'[p] THEN "work" ELSE "unmutex")
    /\ Nap(t, IF held'[p] THEN nap[t] ELSE "idle")
    /\ UNCHANGED <<up, mutex, passLock, flag, fresh, announcing, raised>>

\* lock.try_acquire(): True enters the work, False leaves with None.
Acquire(t) ==
    LET p == Home[t] IN
    /\ pc[t] = "mutexed"
    /\ \/ ReVerify(p) /\ UNCHANGED faults
       \/ TakeLock(p) /\ UNCHANGED faults
       \/ /\ CheckFails(p)
          /\ \/ Fault
             \/ /\ conn[p] = p /\ ~held[p] /\ p \notin live
                /\ UNCHANGED faults
    /\ Goto(t, IF held'[p] THEN "work" ELSE "unmutex")
    /\ Nap(t, IF held'[p] THEN nap[t] ELSE "fast")
    /\ UNCHANGED <<up, mutex, passLock, flag, fresh, announcing, raised>>

\* The finally blocks, innermost first.
ReleaseLock(t) ==
    /\ pc[t] = "unlock"
    /\ Release(Home[t])
    /\ Goto(t, "unmutex")
    /\ UNCHANGED <<up, mutex, passLock, loopVars, faults>>

\* Mutant of LeaveGuard: one way out of the call forgets the mutex.
LeaveLocked(t) ==
    /\ pc[t] = "unmutex"
    /\ Goto(t, Rest(t))
    /\ UNCHANGED <<lockVars, up, mutex, passLock, loopVars, faults>>

LeaveGuard(t) ==
    /\ pc[t] = "unmutex"
    /\ mutex' = [mutex EXCEPT ![Home[t]] = NoThread]
    /\ Goto(t, Rest(t))
    /\ UNCHANGED <<lockVars, up, passLock, loopVars, faults>>

---------------------------------------------------------------------------
(* The work: advance_ci_builds for a ticker, advance_build_now otherwise.  *)

\* Nothing queued and nothing running: the pass is over without the engine's
\* lock.  It still reports work when a delivery was due.
NothingActive(t) ==
    /\ t \in Ticker
    /\ pc[t] = "work"
    /\ fresh = {}
    /\ \E n \in {"fast", "idle"} : Nap(t, n)
    /\ Goto(t, "unlock")
    /\ UNCHANGED <<lockVars, up, mutex, passLock, flag, fresh, announcing, raised, faults>>

\* The count itself fails: the exception reaches the loop, which waits the
\* idle interval.
PassRaises(t) ==
    /\ t \in Ticker
    /\ pc[t] = "work"
    /\ Fault
    /\ raised' = raised \cup {t}
    /\ Goto(t, "unlock")
    /\ UNCHANGED <<lockVars, up, mutex, passLock, nap, flag, fresh, announcing>>

\* Whether t may ask for the engine's lock: inside the guard, or an approval
\* decision that has been committed.
AtEngine(t) == IF t \in Decider THEN pc[t] = "ready" ELSE pc[t] = "work"

StartPass(t) ==
    LET p == Home[t] IN
    /\ AtEngine(t)
    /\ passLock[p] = NoThread
    /\ passLock' = [passLock EXCEPT ![p] = t]
    /\ Goto(t, "engine")
    /\ fresh' = IF t \in Ticker THEN {} ELSE fresh
    /\ UNCHANGED <<lockVars, up, mutex, nap, flag, announcing, raised, faults>>

PassBusy(t) ==
    /\ AtEngine(t)
    /\ passLock[Home[t]] # NoThread
    /\ Goto(t, IF t \in Decider THEN "done" ELSE "unlock")
    /\ Nap(t, "fast")
    /\ UNCHANGED <<lockVars, up, mutex, passLock, flag, fresh, announcing, raised, faults>>

EndPass(t) ==
    /\ pc[t] = "engine"
    /\ passLock' = [passLock EXCEPT ![Home[t]] = NoThread]
    /\ Goto(t, IF t \in Decider THEN "done" ELSE "unlock")
    /\ \E n \in {"fast", "idle"} : Nap(t, n)
    /\ UNCHANGED <<lockVars, up, mutex, flag, fresh, announcing, raised, faults>>

---------------------------------------------------------------------------
(* The ticker's loop and wake                                              *)

\* _wake.wait(...) returns: the event is set, or the interval is over.
WaitReturns(t) ==
    /\ pc[t] = "sleep"
    /\ Goto(t, "woken")
    /\ UNCHANGED <<lockVars, up, mutex, passLock, loopVars, faults>>

\* The event is cleared, and the next round starts as "not busy".
ClearWake(t) ==
    /\ pc[t] = "woken"
    /\ flag' = [flag EXCEPT ![Home[t]] = FALSE]
    /\ Goto(t, "ready")
    /\ Nap(t, "idle")
    /\ raised' = raised \ {t}
    /\ UNCHANGED <<lockVars, up, mutex, passLock, fresh, announcing, faults>>

\* A request of process p commits work (a triggered build, a cancellation,
\* a decision) and only then wakes the ticker.
CommitWork(p) ==
    /\ p \in (up \cap Serving) \ announcing
    /\ fresh' = fresh \cup {p}
    /\ announcing' = announcing \cup {p}
    /\ UNCHANGED <<lockVars, up, mutex, passLock, pc, nap, flag, raised, faults>>

Wake(p) ==
    /\ p \in announcing
    /\ flag' = [flag EXCEPT ![p] = TRUE]
    /\ announcing' = announcing \ {p}
    /\ UNCHANGED <<lockVars, up, mutex, passLock, pc, nap, fresh, raised, faults>>

---------------------------------------------------------------------------
(* Processes and connections                                               *)

Start(p) ==
    /\ p \notin up
    /\ up' = up \cup {p}
    /\ pc' = [t \in Thread |-> IF Home[t] = p THEN "ready" ELSE pc[t]]
    /\ UNCHANGED <<lockVars, mutex, passLock, loopVars, faults>>

\* fork() from a master that already loaded the application (gunicorn
\* --preload): the objects come along as they were, a lock taken by a thread
\* of the master stays taken, and the ticker thread does not exist in the
\* child (_started is already True there).
Fork(q) ==
    /\ Master \in up
    /\ q \notin up
    /\ up' = up \cup {q}
    /\ Inherit(Master, q)
    /\ mutex' = [mutex EXCEPT ![q] = mutex[Master]]
    /\ passLock' = [passLock EXCEPT ![q] = passLock[Master]]
    /\ flag' = [flag EXCEPT ![q] = flag[Master]]
    /\ pc' = [t \in Thread |-> IF Home[t] = q /\ t \notin Ticker THEN "ready" ELSE pc[t]]
    /\ UNCHANGED <<nap, fresh, announcing, raised, faults>>

Crash(p) ==
    /\ p \in up
    /\ Fault
    /\ up' = up \ {p}
    /\ ProcessGone(p)
    /\ mutex' = [mutex EXCEPT ![p] = NoThread]
    /\ passLock' = [passLock EXCEPT ![p] = NoThread]
    /\ flag' = [flag EXCEPT ![p] = FALSE]
    /\ pc' = [t \in Thread |-> IF Home[t] = p THEN "off" ELSE pc[t]]
    /\ nap' = [t \in Thread |-> IF Home[t] = p THEN "idle" ELSE nap[t]]
    /\ raised' = {t \in raised : Home[t] # p}
    /\ announcing' = announcing \ {p}
    /\ UNCHANGED fresh

Disconnect(p) ==
    /\ Fault
    /\ SessionDrops(p)
    /\ UNCHANGED <<up, mutex, passLock, pc, loopVars>>

Expire ==
    /\ KeepaliveExpires
    /\ UNCHANGED <<up, mutex, passLock, pc, loopVars, faults>>

---------------------------------------------------------------------------
Step(t) ==
    \/ EnterGuard(t)
    \/ Acquire(t)
    \/ NothingActive(t)
    \/ StartPass(t)
    \/ PassBusy(t)
    \/ EndPass(t)
    \/ ReleaseLock(t)
    \/ LeaveGuard(t)
    \/ WaitReturns(t)
    \/ ClearWake(t)

Next ==
    \/ \E t \in Thread : Step(t) \/ PassRaises(t)
    \/ \E p \in Proc : CommitWork(p) \/ Wake(p)
    \/ \E p \in Proc : Start(p) \/ Fork(p) \/ Crash(p) \/ Disconnect(p)
    \/ Expire

Spec == Init /\ [][Next]_vars

\* Threads keep running, a stopped process is restarted, and the server's
\* keepalives end a dead session.
FairSpec ==
    /\ Spec
    /\ \A t \in Thread : WF_vars(Step(t))
    /\ \A p \in Proc : WF_vars(Start(p)) /\ WF_vars(Wake(p))
    /\ WF_vars(Expire)

---------------------------------------------------------------------------
(* The inductive invariant                                                 *)

\* Threads of one process are told apart by its mutex.
MutexInv == \A t \in Guarded :
    pc[t] \in InGuard \cup {"mutexed", "unmutex"} => mutex[Home[t]] = t

\* An approval decision goes straight to the engine.
DeciderInv == \A t \in Decider : pc[t] \in {"off", "ready", "engine", "done"}

DownInv == \A t \in Thread : Home[t] \notin up => pc[t] = "off"

\* Only the master's connection is ever inherited.
ForkInv == \A p \in Proc : conn[p] \in {p, Master, NoProc}

\* A process's object says "held" exactly while one of its threads is in the
\* guard, and the server agrees as long as the session lives.
BeliefInv ==
    /\ \A t \in Guarded : pc[t] \in InGuard => Believes(Home[t])
    /\ \A p \in Proc : Believes(p) =>
          \E t \in Guarded : Home[t] = p /\ pc[t] \in InGuard
    /\ \A p \in Proc : p \in live /\ Believes(p) <=> owner = p

\* What every step of the guard preserves: mutex, object, server and program
\* counters tell one story, through forks, crashes and lost connections.
GuardInv == MutexInv /\ DeciderInv /\ DownInv /\ ForkInv /\ BeliefInv

---------------------------------------------------------------------------
(* Properties                                                              *)

\* The threads inside a guarded pass whose process still has the session it
\* took the lock with.
LivePasses == {t \in Guarded : pc[t] \in InGuard /\ Home[t] \in live}

\* Passes run one at a time in the whole cluster: two guarded passes are never
\* both under way while the sessions they took the lock with are alive.  Read
\* with ticker._guarded and AdvisoryLock.try_acquire; the exception is a
\* session that died under a running pass, which nothing re-checks before the
\* pass ends.
OnePassPerSession == \A t, u \in LivePasses : t = u

\* The lock never outlives the pass: while Postgres says process p holds it,
\* some thread of p is inside _guarded, so a finished, skipped or failed call
\* cannot leave every other process locked out.
LockImpliesPass ==
    \A p \in Proc : owner = p =>
        \E t \in Guarded : Home[t] = p /\ pc[t] \in InGuard

\* No lost wake-up: a ticker sleeps the long interval with its event clear
\* only if every piece of work committed in its process has had a pass start
\* after it, or its wake() is still to come, or the ticker's own pass failed.
SleepMissesNothing ==
    \A t \in Ticker :
        /\ pc[t] = "sleep" /\ nap[t] = "idle" /\ ~flag[Home[t]]
        /\ Home[t] \in fresh \ announcing
        => t \in raised

\* Every guarded pass is a pass of ExclusivePass: the guard implements it,
\* with the passes that lost their session counted as over.
EP == INSTANCE ExclusivePass WITH inPass <- LivePasses
ImplementsExclusivePass == EP!Spec

\* Work that was committed is eventually looked at by a pass that started
\* after it, whichever processes crash and whatever lock a dead one left.
WorkIsLookedAt == \A p \in Proc : p \in fresh ~> p \notin fresh
===========================================================================
