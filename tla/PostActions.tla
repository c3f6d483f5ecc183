---------------------------- MODULE PostActions ----------------------------
(***************************************************************************)
(* What happens when a build ends (services/ci/post_actions.py): cleanup   *)
(* commands, run after the runner stages and before the build is decided,  *)
(* and notifications, decided when it ends, then claimed by engine passes  *)
(* and sent by worker threads, in whichever process the pass ran.          *)
(*                                                                         *)
(* One build and its post rows.  A row is a ci_build_stages row: status,   *)
(* and in server_state phase and attempts; due[r] is nextAttemptAt <= now, *)
(* old[r] that claimedAt is more than STALE_CLAIM_SECONDS ago.             *)
(***************************************************************************)
EXTENDS Naturals, FiniteSets

CONSTANTS
    Proc,          \* server processes, each with its own sender threads
    Cleanups,      \* rows of kind "commands"
    Messages,      \* rows of kind "email" or "webhook"
    WhenOf,        \* each row's "when"
    Worlds,        \* the surroundings considered, see world
    MaxAttempts,   \* MAX_ATTEMPTS
    MaxInFlight,   \* MAX_IN_FLIGHT
    Workers,       \* max_workers of the pool
    MaxFaults      \* bound: crashes, failed settlements, failed saves

Row == Cleanups \cup Messages

ASSUME RowAssumption ==
    /\ Cleanups \cap Messages = {} /\ Messages # {}
    /\ WhenOf \in [Row -> {"always", "success", "failure", "fixed"}]
World == [whole: BOOLEAN, fixed: BOOLEAN, overlap: BOOLEAN, slow: BOOLEAN]

ASSUME WorldAssumption == Worlds \subseteq World
ASSUME LimitAssumption ==
    MaxAttempts \in Nat \ {0} /\ MaxInFlight \in Nat /\ Workers \in Nat /\ MaxFaults \in Nat

VARIABLES
    build,     \* the build's status
    started,   \* started_at is set
    stages,    \* the runner stages: "open", or runner_outcome once they are over
    world,     \* the surroundings, which do not change:
               \*   whole: the runner takes the whole build as one Job
               \*   fixed: the previous build of this branch failed (_is_fixed)
               \*   overlap: passes of two processes may overlap (a lost session)
               \*   slow: a send may outlast STALE_CLAIM_SECONDS
    status, phase, attempts, due, old,      \* the rows
    at,        \* a process's pass: "idle", or "looked" at or "claimed" seen[p]
    seen,      \* the row a pass is at, as the pass read it
    inFlight,  \* _in_flight of each process: claimed here, its sender not done
    sending,   \* the rows a worker has read and is sending, with the attempt
    sends,     \* history: how often each row was sent
    lost,      \* history: its holder died, or could not record the outcome
    unsettled, \* history: on_build_finished raised half-way
    faults

buildVars == <<build, started, stages>>
rowVars == <<status, phase, attempts, due, old>>
passVars == <<at, seen>>
senderVars == <<inFlight, sending, sends>>
vars == <<buildVars, world, rowVars, passVars, senderVars, lost, unsettled, faults>>

\* A timeout counts as failed: nothing here tells them apart.
Ended == {"success", "failed", "cancelled"}
Final == {"success", "failed", "cancelled", "skipped"}

Seen == [row: Messages, status: {"pending", "running"} \cup Final, phase: {"waiting", "queued", "sending", "running", "done"},
         attempts: Nat, due: BOOLEAN, old: BOOLEAN]
View(r) == [row |-> r, status |-> status[r], phase |-> phase[r],
            attempts |-> attempts[r], due |-> due[r], old |-> old[r]]
Nothing == [row |-> CHOOSE r \in Messages : TRUE, status |-> "pending", phase |-> "waiting",
            attempts |-> 0, due |-> FALSE, old |-> FALSE]

TypeOK ==
    /\ build \in {"queued", "running"} \cup Ended
    /\ started \in BOOLEAN
    /\ stages \in {"open", "success", "failure"}
    /\ world \in World
    /\ status \in [Row -> {"pending", "running"} \cup Final]
    /\ phase \in [Row -> {"waiting", "queued", "sending", "running", "done"}]
    /\ attempts \in [Row -> Nat]
    /\ due \in [Row -> BOOLEAN] /\ old \in [Row -> BOOLEAN]
    /\ at \in [Proc -> {"idle", "looked", "claimed"}]
    /\ seen \in [Proc -> Seen]
    /\ inFlight \in [Proc -> SUBSET Messages]
    /\ sending \in [Proc -> SUBSET [row: Messages, attempt: Nat]]
    /\ sends \in [Row -> Nat]
    /\ lost \in [Row -> BOOLEAN]
    /\ unsettled \in BOOLEAN
    /\ faults \in Nat

Init ==
    /\ build = "queued" /\ started = FALSE /\ stages = "open"
    /\ world \in Worlds
    /\ status = [r \in Row |-> "pending"]
    /\ phase = [r \in Row |-> "waiting"]
    /\ attempts = [r \in Row |-> 0]
    /\ due = [r \in Row |-> FALSE]
    /\ old = [r \in Row |-> FALSE]
    /\ at = [p \in Proc |-> "idle"]
    /\ seen = [p \in Proc |-> Nothing]
    /\ inFlight = [p \in Proc |-> {}]
    /\ sending = [p \in Proc |-> {}]
    /\ sends = [r \in Row |-> 0]
    /\ lost = [r \in Row |-> FALSE]
    /\ unsettled = FALSE /\ faults = 0

(***************************************************************************)
(* The build, as the engine reports it here.                               *)
(***************************************************************************)
OpenCleanups == {r \in Cleanups : status[r] \in {"pending", "running"}}

Start ==
    /\ build = "queued"
    /\ build' = "running" /\ started' = TRUE
    /\ UNCHANGED <<stages, world, rowVars, passVars, senderVars, lost, unsettled, faults>>

StagesOver ==
    /\ build = "running" /\ stages = "open"
    /\ stages' \in {"success", "failure"}
    /\ UNCHANGED <<build, started, world, rowVars, passVars, senderVars, lost, unsettled, faults>>

(***************************************************************************)
(* hold_for_cleanup: one outstanding cleanup at a time.                    *)
(***************************************************************************)
Closed(rows, how) ==
    /\ status' = [r \in Row |-> IF r \in rows THEN how ELSE status[r]]
    /\ phase' = [r \in Row |-> IF r \in rows THEN "done" ELSE phase[r]]

Holding == build = "running" /\ stages # "open" /\ OpenCleanups # {}
CleanupFrame ==
    UNCHANGED <<buildVars, world, attempts, due, old, passVars, senderVars, lost, unsettled, faults>>

\* No stage ran on a runner, so there is no workspace: skipped.  No runner any
\* more, or an exception: failed.
CloseCleanups ==
    /\ Holding
    /\ \E how \in {"skipped", "failed"} : Closed(OpenCleanups, how)
    /\ CleanupFrame

NoneRunning == \A r \in Cleanups : status[r] # "running"

CleanupMatches(r) == WhenOf[r] = "always" \/ WhenOf[r] = stages

SkipCleanup(r) ==
    /\ Holding /\ status[r] = "pending" /\ NoneRunning
    /\ ~world.whole /\ ~CleanupMatches(r)
    /\ Closed({r}, "skipped")
    /\ CleanupFrame

StartCleanup(r) ==
    /\ Holding /\ status[r] = "pending" /\ NoneRunning
    /\ world.whole \/ CleanupMatches(r)
    /\ \/ /\ status' = [status EXCEPT ![r] = "running"]
          /\ phase' = [phase EXCEPT ![r] = "running"]
       \/ Closed({r}, "failed")
    /\ CleanupFrame

PollCleanup(r) ==
    /\ Holding /\ status[r] = "running"
    /\ \E how \in Final : Closed({r}, how)
    /\ CleanupFrame

(***************************************************************************)
(* _finish_build, then _settle_on_finish: a cleanup that is not over is    *)
(* closed, a notification is queued or closed as not triggered.            *)
(***************************************************************************)
Triggered(r, result) ==
    \/ WhenOf[r] = "always"
    \/ WhenOf[r] = "success" /\ result = "success"
    \/ WhenOf[r] = "failure" /\ result = "failed"
    \/ WhenOf[r] = "fixed" /\ result = "success" /\ world.fixed

\* Mutant of Told: nobody asks whether the build ever started.
ToldAnyway(r, result) == Triggered(r, result)

\* Of a build that never started there is nothing to report.
Told(r, result) == started /\ Triggered(r, result)

\* Mutant of Settle: a cleanup still running is left to itself.
SettleLeavesRunning(rows, result) ==
    LET waiting == {r \in rows : status[r] = "pending" /\ (r \in Messages => phase[r] = "waiting")}
        told == {r \in waiting \cap Messages : Told(r, result)}
    IN  /\ status' = [r \in Row |-> IF r \in waiting \ told THEN "skipped" ELSE status[r]]
        /\ phase' = [r \in Row |-> IF r \in told THEN "queued" ELSE phase[r]]
        /\ attempts' = [r \in Row |-> IF r \in told THEN 0 ELSE attempts[r]]
        /\ due' = [r \in Row |-> due[r] \/ r \in told]

Settle(rows, result) ==
    LET waiting == {r \in rows : status[r] = "pending" /\ (r \in Messages => phase[r] = "waiting")}
        told == {r \in waiting \cap Messages : Told(r, result)}
        stopped == {r \in rows \cap Cleanups : status[r] = "running"}
    IN  /\ status' = [r \in Row |-> IF r \in waiting \ told THEN "skipped"
                                    ELSE IF r \in stopped THEN "cancelled" ELSE status[r]]
        /\ phase' = [r \in Row |-> IF r \in told THEN "queued"
                                   ELSE IF r \in waiting \cup stopped THEN "done" ELSE phase[r]]
        /\ attempts' = [r \in Row |-> IF r \in told THEN 0 ELSE attempts[r]]
        /\ due' = [r \in Row |-> due[r] \/ r \in told]

\* The outcome _finalize reads off the stages; a server stage behind the
\* cleanups may still fail, or be cancelled, when the runner stages passed.
Decided(result) ==
    /\ build = "running" /\ stages # "open" /\ OpenCleanups = {}
    /\ stages = "failure" => result # "success"

\* A cancel request, or the reaper, which does not wait for cleanups.
CutShort(result) ==
    \/ build \in {"queued", "running"} /\ result = "cancelled"
    \/ build = "running" /\ result = "failed"

FinishBuild(result) ==
    /\ Decided(result) \/ CutShort(result)
    /\ build' = result
    /\ \/ Settle(Row, result) /\ UNCHANGED <<faults, unsettled>>
       \/ /\ faults < MaxFaults /\ faults' = faults + 1
          /\ \E rows \in SUBSET Row : rows # Row /\ Settle(rows, result)
          /\ unsettled' = TRUE
    /\ UNCHANGED <<started, stages, world, old, passVars, senderVars, lost>>

(***************************************************************************)
(* deliver_due, on a pass of process p: it reads a row, then acts on what  *)
(* it read.                                                                *)
(***************************************************************************)
PassFrame == UNCHANGED <<buildVars, world, unsettled>>
PassGoesOn(p) ==
    /\ at' = [at EXCEPT ![p] = "idle"]
    /\ seen' = [seen EXCEPT ![p] = Nothing]

Look(p, r) ==
    /\ at[p] = "idle"
    /\ world.overlap \/ \A q \in Proc : at[q] = "idle"
    /\ build \in Ended /\ status[r] \in {"pending", "running"}
    /\ at' = [at EXCEPT ![p] = "looked"]
    /\ seen' = [seen EXCEPT ![p] = View(r)]
    /\ UNCHANGED <<rowVars, senderVars, lost, faults>> /\ PassFrame

\* Mutants of Interrupted: a claim is given up without waiting for its age;
\* only this process's own claims are given up.
InterruptedAtOnce(p) == seen[p].status = "running" /\ seen[p].row \notin inFlight[p]
InterruptedHereOnly(p) ==
    seen[p].status = "running" /\ seen[p].row \in inFlight[p] /\ seen[p].old

\* _reap_interrupted
Interrupted(p) ==
    seen[p].status = "running" /\ seen[p].row \notin inFlight[p] /\ seen[p].old

\* Mutant of Reap: what was interrupted is sent again.
ReapRequeues(p) ==
    /\ at[p] = "looked" /\ Interrupted(p)
    /\ status' = [status EXCEPT ![seen[p].row] = "pending"]
    /\ phase' = [phase EXCEPT ![seen[p].row] = "queued"]
    /\ PassGoesOn(p)
    /\ UNCHANGED <<attempts, due, old, senderVars, lost, faults>> /\ PassFrame

Reap(p) ==
    /\ at[p] = "looked" /\ Interrupted(p)
    /\ Closed({seen[p].row}, "failed")
    /\ PassGoesOn(p)
    /\ UNCHANGED <<attempts, due, old, senderVars, lost, faults>> /\ PassFrame

\* The build ended without this row being decided.  What this pass does not
\* know changed is not written: a row read "pending" keeps its status.
Undecided(p) == seen[p].status = "pending" /\ seen[p].phase = "waiting"

SettleLate(p) ==
    \E r \in Messages :
        /\ at[p] = "looked" /\ r = seen[p].row /\ Undecided(p)
        /\ \/ /\ Told(r, build)
              /\ phase' = [phase EXCEPT ![r] = "queued"]
              /\ attempts' = [attempts EXCEPT ![r] = 0]
              /\ due' = [due EXCEPT ![r] = TRUE]
              /\ UNCHANGED status
           \/ /\ ~Told(r, build)
              /\ Closed({r}, "skipped")
              /\ UNCHANGED <<attempts, due>>
        /\ UNCHANGED old
        /\ seen' = [seen EXCEPT ![p] = View(r)']
    /\ UNCHANGED <<at, senderVars, lost, faults>> /\ PassFrame

\* The conditional UPDATE is judged against the row, the rest is written over
\* it from what the pass read.
\* Mutant of MayClaim: the UPDATE has no WHERE on the status.
ClaimUnconditional(r) == status[r] # "waiting"
MayClaim(r) == status[r] = "pending"
\* Mutant of NextAttempt: a claim does not count.
SameAttempt(v) == v.attempts
NextAttempt(v) == v.attempts + 1

Claimable(p) ==
    /\ seen[p].status = "pending" /\ seen[p].phase = "queued" /\ seen[p].due
    /\ Cardinality(inFlight[p]) < MaxInFlight

Claim(p) ==
    \E r \in Messages :
        /\ at[p] = "looked" /\ r = seen[p].row /\ Claimable(p) /\ MayClaim(r)
        /\ status' = [status EXCEPT ![r] = "running"]
        /\ phase' = [phase EXCEPT ![r] = "sending"]
        /\ attempts' = [attempts EXCEPT ![r] = NextAttempt(seen[p])]
        /\ old' = [old EXCEPT ![r] = FALSE]
        /\ at' = [at EXCEPT ![p] = "claimed"]
    /\ UNCHANGED <<due, seen, senderVars, lost, faults>> /\ PassFrame

\* Every other row: nothing to do for it, not due, no room, or lost to another.
PassBy(p) ==
    /\ at[p] = "looked"
    /\ ~Interrupted(p) /\ ~Undecided(p) /\ ~(Claimable(p) /\ MayClaim(seen[p].row))
    /\ PassGoesOn(p)
    /\ UNCHANGED <<rowVars, senderVars, lost, faults>> /\ PassFrame

Submit(p) ==
    /\ at[p] = "claimed"
    /\ inFlight' = [inFlight EXCEPT ![p] = @ \cup {seen[p].row}]
    /\ PassGoesOn(p)
    /\ UNCHANGED <<rowVars, sending, sends, lost, faults>> /\ PassFrame

(***************************************************************************)
(* The worker threads: deliver reads the claimed row, sends, and records   *)
(* the outcome with the server_state it had read.                          *)
(***************************************************************************)
SenderFrame == UNCHANGED <<buildVars, world, passVars, unsettled>>

BeginSend(p, r) ==
    /\ r \in inFlight[p] /\ \A s \in sending[p] : s.row # r
    /\ Cardinality(sending[p]) < Workers
    /\ \/ /\ status[r] = "running"
          /\ sending' = [sending EXCEPT ![p] = @ \cup {[row |-> r, attempt |-> attempts[r]]}]
          /\ sends' = [sends EXCEPT ![r] = @ + 1]
          /\ UNCHANGED inFlight
       \/ /\ status[r] # "running"
          /\ inFlight' = [inFlight EXCEPT ![p] = @ \ {r}]
          /\ UNCHANGED <<sending, sends>>
    /\ UNCHANGED <<rowVars, lost, faults>> /\ SenderFrame

Leave(p, s) ==
    /\ sending' = [sending EXCEPT ![p] = @ \ {s}]
    /\ inFlight' = [inFlight EXCEPT ![p] = @ \ {s.row}]
    /\ UNCHANGED <<sends, old>> /\ SenderFrame

\* Delivered, or failed for good.
EndSend(p, s) ==
    /\ s \in sending[p]
    /\ \E how \in {"success", "failed"} : Closed({s.row}, how)
    /\ attempts' = [attempts EXCEPT ![s.row] = s.attempt]
    /\ Leave(p, s) /\ UNCHANGED <<due, lost, faults>>

Retry(p, s) ==
    /\ s \in sending[p] /\ s.attempt < MaxAttempts
    /\ status' = [status EXCEPT ![s.row] = "pending"]
    /\ phase' = [phase EXCEPT ![s.row] = "queued"]
    /\ attempts' = [attempts EXCEPT ![s.row] = s.attempt]
    /\ due' = [due EXCEPT ![s.row] = FALSE]
    /\ Leave(p, s) /\ UNCHANGED <<lost, faults>>

\* The outcome cannot be recorded: rolled back, whatever was sent.
SaveFails(p, s) ==
    /\ s \in sending[p] /\ faults < MaxFaults
    /\ faults' = faults + 1
    /\ lost' = [lost EXCEPT ![s.row] = TRUE]
    /\ Leave(p, s) /\ UNCHANGED <<status, phase, attempts, due>>

(***************************************************************************)
(* Time, and the end of a process.                                         *)
(***************************************************************************)
Holds(p, r) == r \in inFlight[p] \/ (at[p] = "claimed" /\ seen[p].row = r)

Backoff(r) ==
    /\ status[r] = "pending" /\ phase[r] = "queued" /\ ~due[r]
    /\ due' = [due EXCEPT ![r] = TRUE]
    /\ UNCHANGED <<buildVars, world, status, phase, attempts, old, passVars, senderVars, lost, unsettled, faults>>

\* "a send is bounded by its timeouts, far below this": unless slow.
ClaimAges(r) ==
    /\ status[r] = "running" /\ ~old[r]
    /\ world.slow \/ \A p \in Proc : ~Holds(p, r)
    /\ old' = [old EXCEPT ![r] = TRUE]
    /\ UNCHANGED <<buildVars, world, status, phase, attempts, due, passVars, senderVars, lost, unsettled, faults>>

Crash(p) ==
    /\ faults < MaxFaults /\ faults' = faults + 1
    /\ lost' = [r \in Row |-> lost[r] \/ Holds(p, r)]
    /\ PassGoesOn(p)
    /\ inFlight' = [inFlight EXCEPT ![p] = {}]
    /\ sending' = [sending EXCEPT ![p] = {}]
    /\ UNCHANGED <<rowVars, sends>> /\ PassFrame

BuildNext ==
    \/ Start \/ StagesOver \/ CloseCleanups
    \/ \E r \in Cleanups : SkipCleanup(r) \/ StartCleanup(r) \/ PollCleanup(r)
    \/ \E result \in Ended : FinishBuild(result)

Act(p) == Reap(p) \/ SettleLate(p) \/ Claim(p) \/ PassBy(p) \/ Submit(p)
PassNext(p) == (\E r \in Messages : Look(p, r)) \/ Act(p)

Work(p) ==
    \/ \E r \in Messages : BeginSend(p, r)
    \/ \E s \in sending[p] : EndSend(p, s) \/ Retry(p, s)

Next ==
    \/ BuildNext
    \/ \E p \in Proc : PassNext(p) \/ Work(p) \/ Crash(p) \/ (\E s \in sending[p] : SaveFails(p, s))
    \/ \E r \in Messages : Backoff(r) \/ ClaimAges(r)

Spec == Init /\ [][Next]_vars

\* Passes go on and reach every row again and again, worker threads run,
\* time passes.  Nothing is asked of faults, nor of the build.
FairSpec ==
    /\ Spec
    /\ \A p \in Proc : WF_vars(Act(p)) /\ WF_vars(Work(p))
    /\ \A r \in Messages :
        /\ SF_vars(\E p \in Proc : Look(p, r))
        /\ WF_vars(Backoff(r)) /\ WF_vars(ClaimAges(r))

(***************************************************************************)
(* What it promises.                                                       *)
(***************************************************************************)

\* "Two passes (or two processes) can never send the same row": from the claim
\* to the recorded outcome a row is in the hands of one process, also when
\* passes overlap, a send is slow, or a settlement was lost.
OneHolder ==
    \A r \in Messages, p, q \in Proc : Holds(p, r) /\ Holds(q, r) => p = q

\* A notification goes out only for a build that started and ended, for a result
\* it is triggered by, and not beside a cleanup still open (unless deciding what
\* happens at the end of the build raised half-way; also then a build that was
\* cancelled while queued reports nothing).
SentForTheResult ==
    \A r \in Messages, p \in Proc : Holds(p, r) =>
        /\ build \in Ended /\ started /\ Triggered(r, build)
        /\ OpenCleanups = {} \/ unsettled

\* A notification is tried MAX_ATTEMPTS times at most, whatever is lost and
\* retried, as long as passes exclude each other.
AttemptsBounded == ~world.overlap => \A r \in Messages : sends[r] <= MaxAttempts

\* "A claim that never recorded a result is not retried": once its holder is
\* gone, a notification is not sent again.
NeverRepeated == [][\A r \in Messages : lost[r] => sends'[r] = sends[r]]_vars

\* What became of a notification is settled once, if no send outlasts its claim.
FinalIsFinal ==
    [][\A r \in Messages : ~world.slow /\ status[r] \in Final => status'[r] = status[r]]_vars

\* Notifications are delivered as Delivery promises: in the hands of one process
\* at a time, sent once per claim, only when asked for, and never again once
\* their holder is gone; also when passes overlap and sends outlast their claim.
Asked(r) == build \in Ended /\ Told(r, build)
Holders(r) == {p \in Proc : Holds(p, r)}
UnderWay(r) == \E p \in Proc : \E s \in sending[p] : s.row = r

Contract == INSTANCE Delivery WITH
    Message <- Messages,
    asked <- {r \in Messages : Asked(r)},
    holders <- [r \in Messages |-> Holders(r)],
    underWay <- {r \in Messages : UnderWay(r)},
    sends <- [r \in Messages |-> sends[r]],
    gone <- {r \in Messages : lost[r]}

ImplementsDelivery == Contract!Spec

\* The notifications of a build that ended all come to an end.
EveryMessageEnds ==
    \A r \in Messages : build \in Ended ~> status[r] \in Final

=============================================================================
