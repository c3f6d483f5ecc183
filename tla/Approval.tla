----------------------------- MODULE Approval -----------------------------
(***************************************************************************)
(* The Approval stage (services/ci/approval_stage.py) of one running build *)
(* and the server stage behind it: people answer in request threads, under *)
(* a row lock, while the engine's pass looks at the same rows without one. *)
(*                                                                         *)
(* Whoever advances the build, the pass or the request of the last         *)
(* approval, reads the rows, works on what it read, and commits the        *)
(* columns it changed: two steps here, with anything in between.           *)
(***************************************************************************)
EXTENDS Integers, FiniteSets

CONSTANTS User,        \* those the stage names as approvers
          Requester,   \* who started the build
          AllowSelf,   \* allowSelfApproval
          Required,    \* minApprovals
          Site,        \* the backend processes
          HomeOf,      \* HomeOf[u]: the process that serves u's requests
          NoUser, NoSite, Pass,
          MaxFaults    \* bound on raised exceptions and crashes

ASSUME ApprovalAssumption ==
    /\ IsFiniteSet(User) /\ NoUser \notin User /\ Pass \notin User
    /\ NoSite \notin Site
    /\ HomeOf \in [User -> Site]
    /\ Required \in 1..Cardinality(User)
    /\ AllowSelf \in BOOLEAN
    /\ MaxFaults \in Nat

VARIABLES
    build,     \* status of the build
    cancel,    \* cancel_requested
    earlier,   \* a stage before this one failed and was allowed to
    unmet,     \* the gate's own run condition is not met in this build
    gate,      \* the approval stage's row: status, phase and decisions
    next,      \* status of the stage behind it
    clock,     \* "inTime", past the stage's timeout, past the build's limits
    lock,      \* who holds the stage row FOR UPDATE
    req,       \* req[u]: where u's request is
    act,       \* act[u]: what it wants
    warned,    \* those whose request has loaded a build that is being cancelled
    at,        \* at[x]: what advancer x is doing
    job,       \* job[x]: for which job
    saw,       \* saw[x]: the rows as it has read them
    site,      \* the process the pass runs in
    given,     \* decisions that were committed and acknowledged (history)
    starts,    \* how often the stage behind was started (history, up to 2)
    faults

rowVars == <<build, gate, next>>
fixed == <<earlier, unmet>>
reqVars == <<lock, req, act, warned>>
advVars == <<at, job, saw, site>>
vars == <<rowVars, cancel, fixed, clock, reqVars, advVars, given, starts, faults>>

Open == {"pending", "running"}
Bad  == {"failed", "timeout", "cancelled"}
StageStatus == Open \cup Bad \cup {"success", "skipped"}
Actor == User \cup {Pass}
Decision == User \X {"approve", "reject"}
Gate == [status : StageStatus, phase : {"none", "waiting", "done"}, decisions : SUBSET Decision]
Rows == [gate : Gate, next : StageStatus]

TypeOK ==
    /\ build \in Bad \cup {"running", "success"}
    /\ cancel \in BOOLEAN /\ earlier \in BOOLEAN /\ unmet \in BOOLEAN
    /\ gate \in Gate
    /\ next \in StageStatus
    /\ clock \in {"inTime", "stageOver", "buildOver"}
    /\ lock \in User \cup {NoUser}
    /\ req \in [User -> {"idle", "loaded", "locked", "nudge"}]
    /\ act \in [User -> {"approve", "reject"}]
    /\ warned \in SUBSET User
    /\ at \in [Actor -> {"idle", "look", "again", "write"}]
    /\ job \in [Actor -> {"reap", "cancel", "advance"}]
    /\ saw \in [Actor -> Rows]
    /\ site \in Site \cup {NoSite}
    /\ given \in SUBSET Decision /\ starts \in 0..2
    /\ faults \in 0..MaxFaults

\* The rows as they start, and what an advancer between two looks knows.
Waiting == [status |-> "pending", phase |-> "none", decisions |-> {}]
Nothing == [gate |-> Waiting, next |-> "pending"]

Init ==
    /\ build = "running" /\ cancel = FALSE
    /\ earlier \in BOOLEAN /\ unmet \in BOOLEAN
    /\ gate = Waiting /\ next = "pending"
    /\ clock = "inTime"
    /\ lock = NoUser
    /\ req = [u \in User |-> "idle"]
    /\ act = [u \in User |-> "approve"]
    /\ warned = {}
    /\ at = [x \in Actor |-> "idle"]
    /\ job = [x \in Actor |-> "advance"]
    /\ saw = [x \in Actor |-> Nothing]
    /\ site = NoSite
    /\ given = {} /\ starts = 0
    /\ faults = 0

Fault == faults < MaxFaults /\ faults' = faults + 1

Approvers(ds) == {u \in User : <<u, "approve">> \in ds}

\* base.finish, on the state as g has it.
Closed(g, st) == [g EXCEPT !.status = st, !.phase = "done"]

---------------------------------------------------------------------------
(* Answering                                                               *)

\* A request is over.
Done(u) ==
    /\ req' = [req EXCEPT ![u] = "idle"]
    /\ act' = [act EXCEPT ![u] = "approve"]
    /\ warned' = warned \ {u}

\* The route loads the build; its cancel_requested is not read again.  (A
\* request that comes after the stage is over is refused and changes nothing:
\* it is left out.)
LoadRequest(u) ==
    /\ req[u] = "idle" /\ at[u] = "idle"
    /\ gate.status \in Open
    /\ req' = [req EXCEPT ![u] = "loaded"]
    /\ \E a \in {"approve", "reject"} : act' = [act EXCEPT ![u] = a]
    /\ warned' = IF cancel THEN warned \cup {u} ELSE warned
    /\ UNCHANGED <<rowVars, cancel, fixed, clock, lock, advVars, given, starts, faults>>

\* Mutant of Eligible: what matters is that the person may answer.
EligibleByName(u) ==
    /\ u \notin warned
    /\ act[u] = "approve" => (AllowSelf \/ u # Requester) /\ <<u, "approve">> \notin gate.decisions

\* eligibility, on the locked row.
Eligible(u) ==
    /\ gate.status = "running" /\ gate.phase = "waiting"
    /\ u \notin warned
    /\ act[u] = "approve" => (AllowSelf \/ u # Requester) /\ <<u, "approve">> \notin gate.decisions

\* decide takes the row and checks; a refusal is rolled back at once.
LockRow(u) ==
    /\ req[u] = "loaded" /\ lock = NoUser
    /\ IF Eligible(u) /\ clock = "inTime"
       THEN lock' = u /\ req' = [req EXCEPT ![u] = "locked"] /\ UNCHANGED <<act, warned>>
       ELSE Done(u) /\ UNCHANGED lock
    /\ UNCHANGED <<rowVars, cancel, fixed, clock, advVars, given, starts, faults>>

\* The row with one more decision, and what that decides.
Decided(d) ==
    LET g == [gate EXCEPT !.decisions = @ \cup {d}] IN
    IF d[2] = "reject" THEN Closed(g, "failed")
    ELSE IF Cardinality(Approvers(g.decisions)) >= Required THEN Closed(g, "success")
    ELSE g

\* All of it is one commit.
CommitDecision(u) ==
    /\ req[u] = "locked"
    /\ gate' = Decided(<<u, act[u]>>)
    /\ given' = given \cup {<<u, act[u]>>}
    /\ lock' = NoUser
    /\ IF gate'.status = "running"
       THEN Done(u)
       ELSE req' = [req EXCEPT ![u] = "nudge"] /\ UNCHANGED <<act, warned>>
    /\ UNCHANGED <<build, next, cancel, fixed, clock, advVars, starts, faults>>

\* advance_build_now: not while this process's engine lock is taken.
Nudge(u) ==
    LET busy == site = HomeOf[u] \/ \E v \in User : HomeOf[v] = HomeOf[u] /\ at[v] # "idle"
    IN
    /\ req[u] = "nudge"
    /\ Done(u)
    /\ at' = IF busy THEN at ELSE [at EXCEPT ![u] = "look"]
    /\ UNCHANGED <<rowVars, cancel, fixed, clock, lock, job, saw, site, given, starts, faults>>

---------------------------------------------------------------------------
(* Advancing the build                                                     *)

\* One pass at a time (PassGuard.tla), and not in a process that is nudging.
BeginPass(s) ==
    /\ site = NoSite /\ build = "running"
    /\ \A u \in User : HomeOf[u] = s => at[u] = "idle"
    /\ site' = s
    /\ at' = [at EXCEPT ![Pass] = "look"]
    /\ job' = [job EXCEPT ![Pass] = "reap"]
    /\ UNCHANGED <<rowVars, cancel, fixed, clock, reqVars, saw, given, starts, faults>>

\* x is done with its job: the pass goes on to its next one.
NextJob(x) ==
    /\ at' = [at EXCEPT ![x] = IF job[x] = "advance" THEN "idle" ELSE "look"]
    /\ job' = [job EXCEPT ![x] = IF @ = "reap" THEN "cancel" ELSE "advance"]
    /\ saw' = [saw EXCEPT ![x] = Nothing]
    /\ site' = IF job[x] = "advance" /\ x = Pass THEN NoSite ELSE site

\* A stage is over: look at once for what follows.
Again(x) ==
    /\ at' = [at EXCEPT ![x] = "again"]
    /\ saw' = [saw EXCEPT ![x] = Nothing]
    /\ UNCHANGED <<job, site>>

\* Reap, cancel or advance: is there anything to do on what is read?  Behind a
\* stage that has just ended a running one is left alone, and a build with no
\* open stage is decided even when somebody else has ended it by now.
Wanted(x) ==
    CASE job[x] = "reap"    -> build = "running" /\ clock = "buildOver"
      [] job[x] = "cancel"  -> build = "running" /\ cancel
      [] job[x] = "advance" ->
           IF at[x] = "look" THEN build = "running"
           ELSE \/ gate.status \notin Open /\ next \notin Open
                \/ /\ build = "running"
                   /\ \/ gate.status = "pending"
                      \/ gate.status \notin Open /\ next = "pending"

Look(x) ==
    /\ at[x] \in {"look", "again"}
    /\ \/ /\ Wanted(x)
          /\ at' = [at EXCEPT ![x] = "write"]
          /\ saw' = [saw EXCEPT ![x] = [gate |-> gate, next |-> next]]
          /\ UNCHANGED <<job, site>>
       \/ ~Wanted(x) /\ NextJob(x)
    /\ UNCHANGED <<rowVars, cancel, fixed, clock, reqVars, given, starts, faults>>

Writing(x, j) == at[x] = "write" /\ job[x] = j

\* _reap_stale_builds: every open stage is closed.  Columns that do not change
\* are not written.
ReapBuild(x) ==
    LET g == saw[x].gate.status
        n == saw[x].next
    IN
    /\ Writing(x, "reap")
    /\ g \in Open => lock = NoUser
    /\ gate' = IF g \in Open THEN [gate EXCEPT !.status = "timeout"] ELSE gate
    /\ next' = IF n \notin Open THEN next
               ELSE IF n = "running" \/ g \notin Open THEN "timeout" ELSE "skipped"
    /\ build' = "timeout"
    /\ NextJob(x)
    /\ UNCHANGED <<cancel, fixed, clock, reqVars, given, starts, faults>>

\* _process_cancellations
CancelBuild(x) ==
    LET v == saw[x]
        Stopped(st) == IF st = "running" THEN "cancelled" ELSE "skipped"
    IN
    /\ Writing(x, "cancel")
    /\ v.gate.status \in Open => lock = NoUser
    /\ gate' = IF v.gate.status = "running" THEN Closed(v.gate, "cancelled")
               ELSE IF v.gate.status = "pending" THEN [gate EXCEPT !.status = "skipped"]
               ELSE gate
    /\ next' = IF v.next \in Open THEN Stopped(v.next) ELSE next
    /\ build' = "cancelled"
    /\ NextJob(x)
    /\ UNCHANGED <<cancel, fixed, clock, reqVars, given, starts, faults>>

\* _start_server_stage: cleanup commands that still run hold every server stage
\* back, and the pass is done with this build.
HeldForCleanup(x) == NextJob(x) /\ UNCHANGED <<gate, next, starts>>

\* approval_stage.start waits, or skips behind a failure.
AskApprovers(x) ==
    \/ /\ earlier
       /\ gate' = [status |-> "skipped", phase |-> "done", decisions |-> {}]
       /\ Again(x)
    \/ /\ ~earlier
       /\ gate' = [status |-> "running", phase |-> "waiting", decisions |-> {}]
       /\ NextJob(x)

\* _start_server_stage of the gate: its own run condition comes first, and if
\* that is not met nobody is asked.
StartWait(x) ==
    /\ Writing(x, "advance") /\ saw[x].gate.status = "pending"
    /\ lock = NoUser
    /\ \/ HeldForCleanup(x)
       \/ /\ unmet
          /\ gate' = [gate EXCEPT !.status = "skipped"]
          /\ Again(x)
       \/ ~unmet /\ AskApprovers(x)
    /\ UNCHANGED <<build, next, cancel, fixed, clock, reqVars, given, starts, faults>>

\* approval_stage.advance.  The heartbeat, when it is due, saves the state as
\* it was read; closing the stage saves that and the status.
Watch(x) ==
    LET g == saw[x].gate
        enough == Cardinality(Approvers(g.decisions)) >= Required
        over == clock # "inTime"
    IN
    /\ Writing(x, "advance") /\ g.status = "running"
    /\ \/ /\ g.phase # "waiting" \/ enough \/ over
          /\ lock = NoUser
          /\ gate' = Closed(g, IF g.phase # "waiting" THEN "failed"
                               ELSE IF enough THEN "success" ELSE "timeout")
          /\ Again(x)
       \/ /\ g.phase = "waiting" /\ ~enough /\ ~over
          /\ \/ UNCHANGED gate
             \/ /\ lock = NoUser
                /\ gate' = [g EXCEPT !.status = gate.status]
          /\ NextJob(x)
    /\ UNCHANGED <<build, next, cancel, fixed, clock, reqVars, given, starts, faults>>

\* Mutant of HeldBack: only the stages of the runner are looked at.
HeldBackByRunner(v) == earlier

\* earlier_failure, for the stage behind.
HeldBack(v) == earlier \/ v.gate.status \in Bad

\* _start_server_stage of the stage behind: skipped by a run condition of its
\* own or because it is held back, else it starts, which may fail.
StartNext(x) ==
    LET v == saw[x] IN
    /\ Writing(x, "advance") /\ v.gate.status \notin Open /\ v.next = "pending"
    /\ \/ HeldForCleanup(x)
       \/ /\ next' = "skipped" /\ Again(x)
          /\ UNCHANGED starts
       \/ /\ ~HeldBack(v)
          /\ starts' = IF starts = 2 THEN 2 ELSE starts + 1
          /\ \/ next' = "running" /\ NextJob(x)
             \/ next' = "failed" /\ Again(x)
    /\ UNCHANGED <<build, gate, cancel, fixed, clock, reqVars, given, faults>>

\* The stage behind goes its own way (its timeout is a failure here).
WatchNext(x) ==
    LET v == saw[x] IN
    /\ Writing(x, "advance") /\ v.gate.status \notin Open /\ v.next = "running"
    /\ \/ NextJob(x) /\ UNCHANGED next
       \/ next' \in {"success", "failed"} /\ Again(x)
    /\ UNCHANGED <<build, gate, cancel, fixed, clock, reqVars, given, starts, faults>>

\* _finalize, of what was read, unless cleanup commands still run.
Finalize(x) ==
    LET seen == {saw[x].gate.status, saw[x].next} \cup IF earlier THEN {"failed"} ELSE {}
    IN
    /\ Writing(x, "advance") /\ seen \cap Open = {}
    /\ \/ UNCHANGED build
       \/ build' = IF "cancelled" \in seen THEN "cancelled"
                   ELSE IF "timeout" \in seen THEN "timeout"
                   ELSE IF "failed" \in seen THEN "failed" ELSE "success"
    /\ NextJob(x)
    /\ UNCHANGED <<gate, next, cancel, fixed, clock, reqVars, given, starts, faults>>

---------------------------------------------------------------------------
(* The rest of the world                                                   *)

RequestCancel ==
    /\ build = "running" /\ ~cancel
    /\ cancel' = TRUE
    /\ UNCHANGED <<rowVars, fixed, clock, reqVars, advVars, given, starts, faults>>

\* The stage's timeout passes; later, or after a long time without an engine,
\* the build's own limits.
TimePasses ==
    /\ gate.status # "pending"
    /\ \/ clock = "inTime" /\ clock' \in {"stageOver", "buildOver"}
       \/ clock = "stageOver" /\ clock' = "buildOver"
    /\ UNCHANGED <<rowVars, cancel, fixed, reqVars, advVars, given, starts, faults>>

\* start or advance raised: what it did is rolled back and the stage is closed
\* without another look.
StageRaises(x) ==
    /\ Writing(x, "advance") /\ saw[x].gate.status \in Open
    /\ Fault
    /\ lock = NoUser
    /\ gate' = [gate EXCEPT !.status = "failed"]
    /\ Again(x)
    /\ UNCHANGED <<build, next, cancel, fixed, clock, reqVars, given, starts>>

\* A process stops: with it its pass, its requests and their locks.
Crash(s) ==
    LET gone == {u \in User : HomeOf[u] = s}
        quiet == gone \cup IF site = s THEN {Pass} ELSE {}
    IN
    /\ Fault
    /\ at' = [x \in Actor |-> IF x \in quiet THEN "idle" ELSE at[x]]
    /\ job' = [x \in Actor |-> IF x \in quiet THEN "advance" ELSE job[x]]
    /\ saw' = [x \in Actor |-> IF x \in quiet THEN Nothing ELSE saw[x]]
    /\ req' = [u \in User |-> IF u \in gone THEN "idle" ELSE req[u]]
    /\ act' = [u \in User |-> IF u \in gone THEN "approve" ELSE act[u]]
    /\ warned' = warned \ gone
    /\ lock' = IF lock \in gone THEN NoUser ELSE lock
    /\ site' = IF site = s THEN NoSite ELSE site
    /\ UNCHANGED <<rowVars, cancel, fixed, clock, given, starts>>

---------------------------------------------------------------------------
Answer(u) == LoadRequest(u) \/ LockRow(u) \/ CommitDecision(u) \/ Nudge(u)

Advance(x) ==
    \/ Look(x)
    \/ ReapBuild(x)
    \/ CancelBuild(x)
    \/ StartWait(x)
    \/ Watch(x)
    \/ StartNext(x)
    \/ WatchNext(x)
    \/ Finalize(x)
    \/ StageRaises(x)

Next ==
    \/ \E u \in User : Answer(u)
    \/ \E x \in Actor : Advance(x)
    \/ \E s \in Site : BeginPass(s) \/ Crash(s)
    \/ RequestCancel
    \/ TimePasses

Spec == Init /\ [][Next]_vars

---------------------------------------------------------------------------
(* The inductive invariant                                                 *)

Granted  == Cardinality(Approvers(given)) >= Required
Rejected == \E u \in User : <<u, "reject">> \in given

\* What holds of the rows as they are, and as any advancer has read them.
ViewInv(g, n) ==
    /\ g.decisions \subseteq given
    /\ g.status = "running" => Cardinality(Approvers(g.decisions)) < Required
    /\ g.status = "success" => Granted /\ ~Rejected
    /\ g.status = "skipped" => given = {} /\ (n = "pending" => earlier \/ unmet)

\* How old a view can be: a stage that was seen started, over or passed on
\* is that still.
AgeInv(x) ==
    LET v == saw[x] IN
    /\ v.gate.status = "pending" <=> gate.status = "pending"
    /\ v.gate.status \notin Open => gate.status \notin Open
    /\ v.next # "pending" => next # "pending"

\* A request advances the build only after its answer has ended the wait.
NudgeInv == \A u \in User :
    at[u] # "idle" \/ req[u] = "nudge" => gate.status \notin Open

\* While the row is locked it waits, and the answer about to be committed is
\* one the person may give.
LockInv == \A u \in User : req[u] = "locked" =>
    /\ lock = u
    /\ gate.status = "running"
    /\ act[u] = "approve" => AllowSelf \/ u # Requester

\* What the row's status says of everything that happened.
StoryInv ==
    /\ gate.status = "pending" => given = {}
    /\ gate.status = "running" => ~Rejected
    /\ unmet => gate.status # "running" /\ given = {}
    /\ starts > 0 => ~earlier /\ (unmet \/ Granted) /\ ~Rejected /\ gate.status \notin Open
    /\ build = "success" => ~Rejected /\ gate.status \notin Open
    /\ AllowSelf \/ Requester \notin Approvers(given)

\* What every answer, look, write, cancel, exception and crash preserves: the
\* row, the views of it and the acknowledged decisions tell one story.
GateInv ==
    /\ ViewInv(gate, next)
    /\ \A x \in Actor : at[x] = "write" => ViewInv(saw[x].gate, saw[x].next) /\ AgeInv(x)
    /\ NudgeInv
    /\ LockInv
    /\ StoryInv

---------------------------------------------------------------------------
(* Properties                                                              *)

\* Nothing behind the gate ever starts unless nothing before it failed and as
\* many people as the stage asks for have approved, none of them the requester
\* when that is not allowed; or the gate's own run condition is not met, and then
\* nobody's answer was ever taken.  However the answers, the pass, a timeout, a
\* cancel and a crash interleave.
NothingPastTheGate == starts > 0 =>
    /\ ~earlier
    /\ IF unmet THEN given = {} ELSE Cardinality(Approvers(given)) >= Required
    /\ AllowSelf \/ Requester \notin Approvers(given)

\* "One rejection fails the stage, and so the build": after an acknowledged
\* rejection the stage is never passed, nothing behind it starts and the build
\* is never green, whatever is written over the row.
RejectionStands == (\E u \in User : <<u, "reject">> \in given) =>
    gate.status # "success" /\ starts = 0 /\ build # "success"

\* The stage keeps what Verdict promises: it waits once, answers count while it
\* waits, it turns green out of the wait and then on the answers that were given,
\* and what is behind begins after it, or after it was waived unasked because its
\* run condition is not met; no late answer and no late pass turns a stage that is
\* over green.
Phase == CASE gate.status = "pending" -> "before"
           [] gate.status = "running" -> "now"
           [] OTHER -> "over"
Allowed == {u \in User : AllowSelf \/ u # Requester}

Promise == INSTANCE Verdict WITH
    May <- Allowed, said <- given, wait <- Phase, green <- gate.status = "success",
    begun <- starts > 0, barred <- earlier, waived <- unmet

ImplementsVerdict == Promise!Spec

\* Every acknowledged decision is still on the row, as decide's comment has it:
\* "two approvers answering at once (or the engine timing the
\* stage out at that moment) cannot lose a decision between them".
NoDecisionLost == given \subseteq gate.decisions
===========================================================================
