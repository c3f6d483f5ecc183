# Verification of KubeSight

TLA+ models of what runs by itself in this repository: the continuous-integration
engine (`src/backend/api/services/ci/`), the leader election it uses, its agents
(`src/agent/`), its approvals and notifications, and the change bundles that are
applied to clusters (`src/backend/api/services/change_bundle_*.py`); TLC runs that
check them on small instances, and TLAPS proofs of what matters most for every
instance. Paths below are relative to the repository.

Run a model with `tlc -config X.cfg M`, a proof with `tlapm M_proofs.tla`.

## 1. The system

KubeSight is a Flask backend (several gunicorn workers, possibly several
replicas, one PostgreSQL database), a React frontend, and agents on build
machines. Nearly everything is request/response over database rows. What runs
by itself, and is hard, is:

| Part | State it keeps | Operations | Meets |
|---|---|---|---|
| **Advisory lock** (`services/leader_election.py`) | per process: connection, `_held`, pid; at the server: who holds the lock | `try_acquire`, re-verification, `release`, fork detection | Postgres sessions that die unnoticed |
| **CI ticker and pass guard** (`ci/ticker.py`) | `_pass_mutex`, `_wake` event, the loop's `busy` | the loop, `wake`, `guarded_pass`, `guarded_advance_build_now` | every process's ticker, agents' results, forks |
| **Build engine** (`ci/engine.py`) | `CiBuild` and `CiBuildStage` rows, `_pass_lock`, the two bookkeeping intervals | `trigger_build`, `cancel_build`, the pass (recompute, reap, cancel, advance, dispatch), `advance_build_now` | requests that commit between its transactions |
| **Queue** (`ci/queue.py`) | build rows locked by a claim | `claim_next`, `requeue` | cancel requests |
| **Runner scheduler** (`ci/scheduler.py`) | `current_load` of runners | select, acquire, release, recompute | every way a build can end |
| **Parallel groups** (`ci/parallel_groups.py`) | none (pure) | groups, fail-fast, member failure | the engine's walk |
| **Agents** (`ci/agents.py`, `ci/runners/agent.py`, `agent/kubesight-agent.py`) | tasks, claim tokens, heartbeats | claim, report, cancel, lapse | late and missing answers |
| **Approval stage** (`ci/approval_stage.py`, `server_stage_base.py`, `routes/ci.py`) | the stage's `server_state` JSON | start, decide, advance (timeout, heartbeat), cancel | people who answer at once, an engine that takes no row lock |
| **Post actions** (`ci/post_actions.py`) | `ci_build_stages` rows with phase, attempts, claim; `_in_flight` and a pool of sender threads per process | cleanups before the build is decided, decision at its end, claim, deliver, retry, reap | several processes' passes, sends that outlast their claim, crashes after a send |
| **Change bundles** (`change_bundle_service.py`, `change_bundle_executor.py`) | bundle, items, votes, rollout watches; `_running` and one worker thread per process | submit, vote, quorum, expire, claim, apply, recover by age, watch and roll back | people who answer at once, the ticks of two leaders, a worker taken for dead |
| Other server stages (Deploy, Store upload) | `server_state` | start, advance, cancel | |
| Schedules, webhooks, merge checks, deploy automation, alert/monitoring scheduler, provisioning and upgrade jobs | rows with claims and heartbeats | claim, run, recover | several processes doing the same round |
| Catalogues, secrets, artifacts, logs, access control, Kubernetes views, the frontend | data | CRUD | not control logic |

`PROJECT.json` lists all of them with what is and is not modelled, and the
hazards, each at its line with the properties that would catch it.

How they meet: a ticker thread per process calls `guarded_pass`, which takes the
process's mutex, then the database-wide advisory lock, then runs the engine's
pass; an agent's result calls `guarded_advance_build_now` the same way; an
approval decision calls `engine.advance_build_now` directly, so with only the
per-process `_pass_lock`. The pass works in many small transactions, and
requests and agents commit in between.

What is hard, then:

* **Exclusion.** An in-process mutex around an advisory lock that a forked
  worker inherits, a session can lose, and a dead process can leave behind.
  *Correct:* one pass at a time, no lock left over, no committed work slept over.
* **Transactions in sequence.** A pass reads, commits, reads again; it can stop
  after any commit. *Correct:* steps are barriers, a failure ends the build,
  slots are given back, outcomes are final, every build ends.
* **Decisions on stale reads.** A cancel decides on a status it read earlier, a
  heartbeat saves a JSON document it read earlier, a vote's outcome is written over
  whatever was decided since. *Correct:* a cancelled build stops, a decision stays,
  a rejection is never overturned.
* **Claims without locks.** A stage handed to an agent, a notification, a bundle:
  each is taken with a conditional update, or with none, by whoever polls; replies
  are lost, holders die, a slow one is taken for a dead one. *Correct:* what has an
  effect outside (a stage run, a message sent, an item applied) happens once, what
  is recorded about it is true, and nothing claimed is left for ever.

## 2. The modules

| Module | Models |
|---|---|
| `AdvisoryLock` | the lock object and the server's lock table |
| `ExclusivePass` | what the guard promises: passes, one at a time (abstract) |
| `PassGuard` | EXTENDS `AdvisoryLock`: ticker loop, guard, engine lock, wake, forks, crashes |
| `PassGuard_proofs` | its theorems |
| `CiEngine` | engine, queue, slots, groups, agent tasks |
| `BuildQueue` | what whoever queues a build is promised: waiting, let in, withdrawn, over (abstract) |
| `StageContract` | what is promised of a stage handed to an agent: offered, taken, earned, closed (abstract) |
| `CiEngine_proofs` | its inductive invariant and types |
| `CiBuilds_proofs` | EXTENDS it: theorems about builds, slots and outcomes |
| `CiStages_proofs` | EXTENDS that: theorems about the stages and tasks of a build |
| `Approval` | the Approval stage of one build, the stage behind it, the engine's unlocked pass |
| `Verdict` | what is promised of a stage that waits for people: it waits once, and what counts is said in the wait (abstract) |
| `Approval_proofs` | its theorems |
| `AgentTasks` | the task rows of one runner, its overlapping claim requests, the agent's loop, the engine's look at a task |
| `AgentTasks_proofs` | its theorems |
| `PostActions` | the cleanups and notifications of one build, passes and sender threads of several processes |
| `Delivery` | what is promised of a notification: asked for, in one process's hands, sent, let go of or lost (abstract) |
| `PostActions_proofs` | its theorems |
| `ChangeBundle` | one change bundle: votes, ticks, the worker, recovery, rollout watches |
| `Rollout` | what is promised of a bundle: by consent, in order, each item once, nothing after the end (abstract) |
| `ChangeBundle_proofs` | its theorems |
| `MCPassGuard`, `MCCiEngine`, `MCApproval`, `MCAgentTasks`, `MCPostActions`, `MCChangeBundle` | instances for TLC |

`PassGuard` justifies what `CiEngine` takes as given, one engine. `Approval`
drops exactly that: there, the pass and a decision's own advance run side by
side, as the code lets them. `AgentTasks` opens up what is one step in `CiEngine`, a
claim: there it is three, and several may overlap. Both implement the same
`StageContract`, which is what makes the coarser model an account of the finer one:
whatever the engine may conclude from the contract holds of the real protocol too.
`PostActions` takes over where
`CiEngine` ends, from the last stage to the last notification, and allows for the
overlapping passes of `PassGuard`'s lost session (`world.overlap`). `ChangeBundle`
stands alone.

The last three have a variable `world` that is chosen at the start and never
changes: which of the things that may be otherwise (a lost session, a slow send, a
lost reply) are so in this behaviour. A property that needs one of them excluded
says so.

### AdvisoryLock and PassGuard

`conn`, `held`, `live`, `owner` are the connection an object keeps (by the
process that opened it), its flag, the sessions the server still serves, and
`pg_locks`. One call of `try_acquire` or `release` is one step: the object's own
mutex spans it. Three outcomes of `try_acquire` are three definitions:
`ReVerify`, `TakeLock`, `CheckFails`. A session may end silently; its lock then
belongs to `Orphan` until the server's keepalive notices.

A thread of `PassGuard` walks through `pc`: `ready`, `mutexed`, `work`,
`engine`, `unlock`, `unmutex`, then `sleep` and `woken` (a ticker) or `done` (a
request). Each label is a place where another thread may run; the `finally`
blocks of `_guarded` are `ReleaseLock` and `LeaveGuard`. `Decider` threads go
from `ready` to `engine` without the guard, as `approval_stage.decide` does.
`fresh`, `announcing` and `flag` follow a commit, its `wake()` and the event.
`Fork` copies the master's objects, held locks included, and no ticker.

Abstractions: what a pass does is `CiEngine`'s; how long the idle wait is (the
code shortens it to the next schedule) is a wait that may return at any time; a
decider and an agent's request run once per life of their process.

### CiEngine

One transaction is one action. `phase` is the step of the pass, `todo` the
builds it still has to look at, `cur`/`at`/`rows` where in
`_advance_one`/`_start_stage`/`_advance_group` it is. The history variables
`raced`, `skewed`, `loose` mark the builds and runners the findings of section 5
are about, so that the invariants can say what holds of all the others.

| Actions | Code |
|---|---|
| `Trigger`, `CancelRead`, `CancelCommit` | `trigger_build`, `cancel_build` (read, then commit) |
| `StartPass`, `NextPhase`, `Reap`, `CancelStage`, `ProcessCancel` | `_run_pass` and its steps |
| `BeginAdvance`, `Decide`, `BeginStep`, `StartRow`, `RowsStarted` | `_advance_one`, `_start_stage`, `_start_server_stage` |
| `PollStage`, `PollGroup`, `StopGroup`, `CloseGroup` | `_advance_one`'s poll, `_advance_group`, `_stop_group_after_failure` |
| `TakeClaimed`, `Dispatch` | `_dispatch_claimed`, `queue.claim_next`, `scheduler.acquire_slot` |
| `Claim`, `Report` | `agents.claim_next`, `report_result` |
| `AdvanceRaises`, `StepRaises`, `Crash` | the two exception paths, the end of the process |

Abstractions, all of them choices of *when* something is committed or of data no
property reads:

* Time: a stage may be past its timeout whenever it is polled; a running build
  becomes overdue (deadline, or `CI_STALE_BUILD_MINUTES`) at some point.
* `adapter.poll` marking a silent task, and the adapter's own commit in a
  timeout or in `_stop_group_after_failure`, are part of the step that calls
  them. `PollGroup` closes the members that ended in one commit.
* An agent's claim and a cancel of the same queued task are atomic to each
  other. (The missing row lock of `claim_next` is a hazard of its own, planned.)
* Every runner is eligible for every build: labels and runner types are out.
  Any queued task may be claimed, not only the oldest.
* Only per-stage runners. The Kubernetes runner, which runs a whole build as
  one Job, is planned as a second adapter. No runner is deleted while it has a
  build: the branch that closes a stage because "the runner for this stage is no
  longer available" (`engine.py:981-985`, and 1230-1232 in a group) is left out.

### Approval

One running build with an Approval stage (`gate`) and one stage behind it
(`next`). `req[u]` is where u's request is: `LoadRequest` (the route loads the
build, whose `cancel_requested` is not read again), `LockRow` (`SELECT ... FOR
UPDATE` and `eligibility`), `CommitDecision`, `Nudge` (`advance_build_now`).
Whoever advances the build is an advancer x: `at[x]`, `job[x]` (reap, cancel,
advance) and `saw[x]`, the rows as it read them. `Look` reads; one of
`ReapBuild`, `CancelBuild`, `StartWait`, `Watch`, `StartNext`, `WatchNext`,
`Finalize`, `StageRaises` commits what follows from `saw`, not from the rows,
and only the columns that change. An engine write of the gate's row waits for
the row lock, but works on what it had read before.

`StartWait` is `_start_server_stage` of the gate, in its order: cleanup commands that
still run hold it back (`HeldForCleanup`), then the gate's own `when` and
`runCondition` are asked, and only if they are met is anyone asked (`AskApprovers`). A
gate whose condition is not met (`unmet`, chosen at the start: it depends on the
build's branch and parameters) is closed "skipped", which holds nothing back: what is
behind it starts with no approval at all. `NothingPastTheGate` and `Verdict` say so,
and that then nobody's answer was taken. `StartNext` has the same two checks for the
stage behind.

Abstractions: a read is one view of both rows; a write is one commit; emails,
comments and who holds which permission are out (`User` are those the stage
accepts); a request that arrives when the stage is over is refused and changes
nothing, so it is left out; stages before are one bit, `earlier` (one failed and was allowed to);
the timeout of the stage behind counts as a failure; the branch for a stage
without a configuration is left out, since saving a pipeline rejects it.

### AgentTasks

A task is named by its id, and belongs to one stage. `Offer` is
`AgentAdapter.start`; `Look` is the read with which `poll` begins, and `Lapse`,
`Judge`, `StillRunning`, `Cut` what follows from the view it read (`look`), written
over the row as it is by then. A claim request (`reqAt`, `pick`) counts what is
claimed (`CountClaimed`), reads the oldest queued task (`ReadOldest`) and commits
(`Claim`): `agents.claim_next` takes no row lock, so a second request may be
anywhere in between. The reply reaches the agent only while it listens
(`asked`). `ShipLines`, `Finish` are the agent's, guarded by the claim token as
`authorize_task` is.

Abstractions: the runner is enabled, not draining, and its own heartbeat is left
out, as is the branch for a task whose build row is gone, enrolment and artifacts;
authorising a report and committing it is one step; a stage's timeout is past
whenever it is looked at; several claims may overlap only where the agent's patience
ends before the server's answer (`world.slow`).

### PostActions

`Start`, `StagesOver` are the engine's; the cleanup actions are the branches of
`hold_for_cleanup`; `FinishBuild` is `_finish_build` with `on_build_finished`
(`Settle`), which may raise half-way. A pass of process p (`at`, `seen`) reads a row
and then takes one branch of `deliver_due` on what it read: `Reap`, `SettleLate`,
`Claim` and `Submit`, or `PassBy`. Both ways of deciding a message ask `Told`: of a
build that never started (`started`, the row's `started_at`) nothing is reported, also
when the decision at its end had raised and is made up for later. A sender thread is a member of `sending[p]`, from
`BeginSend`, which reads the row, to `EndSend`, `Retry` or `SaveFails`.

Abstractions: recipients, texts and URLs; how long a retry waits; a rejected
`_submit` (it raises only when the pool shuts down); `_is_fixed` and the whole-build
runner are choices of `world`.

### ChangeBundle

A voter's request is three steps: `Check` (status and window), `CommitVote`,
`Conclude` (the quorum, a manager's rejection, or "expired" for an answer that found
the window over). A manager whose account has no email address (`world.unnamed`;
`User.email` defaults to "") has no vote to commit: an approval goes from `Check` to
`Conclude` and approves the bundle alone (`AloneApproves`), whatever the quorum.
`AppliedByConsent` counts that as consent, because the code does. A tick is `FindOver`
then `MarkExpired`, `FindDue` then `Claim` (the conditional update) or `Taken`,
`FindStale`, `ReadStale` and `CloseStale`, and the pass over rollout watches. Who may
tick is `Leads`: one process, unless a session was lost (`world.overlap`).
The worker's steps are those of `_run_claimed`; what is done to the cluster (`Apply`)
and what is committed about it (`Record`) are two.

Closing a bundle that will not finish (`_abandon`) is two steps as well, for a recovery
(`ReadStale`, `CloseStale`) and after an exception (`Raises`, `CloseRaised`): `left` is
the items as they were read, and `CloseLeft` commits what follows from them over the
items as they are. In between a slow worker may have recorded its item and gone on;
`overruled` are the items then called failed over what was recorded, and
`StopsAtFailure` leaves them, and nothing else, out. What follows the undoing of a
rollout may raise (`UndoFails`): it is rolled back, and the next tick undoes once more.

Abstractions: a draft is not edited; a requester's refused answer to an own bundle
changes nothing and is left out; an item touches the cluster in one step; an exception
after an item's outcome is committed leads to `Raises` (the handler at
`change_bundle_executor.py:425-431`, which may count such an item twice, is left out); a process
works on this bundle with one thread, and no other bundle keeps it busy; a rollout
watch is not reused; "scheduled" is treated like "approved", as the code does.

## 3. The runs

| Run | Instance | Shows |
|---|---|---|
| `guard` | 2 processes (the second may be forked), 2 tickers, 1 agent request, 1 approval decision, 1 fault | `OnePassPerSession`, `LockImpliesPass`, `SleepMissesNothing`, the invariant `GuardInv`, refinement of `ExclusivePass`, `WorkIsLookedAt` |
| `stages` | 1 build of any of 4 pipelines, both modes, 2 faults | barriers, honest outcomes, tasks and stages agree, nothing starts after a failure, refinement of `StageContract` |
| `queue` | 3 builds, 2 services (one takes one build at a time), 1 runner with 2 slots | slots, service limits and final outcomes while requests cancel under the dispatcher, refinement of `BuildQueue` |
| `builds_end` | 2 builds, 1 slot, 1 fault, fairness | every queued build ends |
| `approval` | 3 people (the requester among them), 2 approvals needed, the gate's own condition met or not, pass in the same process or another, 1 fault | the gate holds, rejections stand, `GateInv`, refinement of `Verdict` |
| `notify` | 1 cleanup and 2 notifications with different triggers, 2 processes, 2 attempts, 1 sender and 1 claim in flight each, 4 surroundings, 1 fault | refinement of `Delivery` (one holder per message, one send per claim), the right messages for the result, bounded attempts, no repetition after a loss, final outcomes, every message ends |
| `agents` | 2 tasks (one of a group), 2 claim requests, a runner that takes one task, 3 surroundings, 1 loss | a stage is run once, green is earned, claims fit, refinement of `StageContract`, claims end, tasks are taken |
| `bundles` | 2 items (one watched), 2 voters (one a manager) who must both approve, 2 processes, 3 surroundings, 1 fault; 178 000 states | consent first, stops at a failure, outcomes and watches true, refinement of `Rollout` (in order, each item once, none after the end), bundles and watches end |
| `cancel_race`, `failed_start`, `lost_decision`, `rejected` | small | the findings of section 5 |

Why the bounds are enough. *guard*: every pair of actor kinds meets in one
process and across two; a third process adds no new kind of meeting, and the
proofs cover any number. One fault is enough to lose a lock, a session or a
process at each label; deeper sequences are covered by the proofs too. *stages*:
the four pipelines hold a fail-fast group with a stage after it, a tolerant
group before a server stage, a line with a stage that goes on after failure and
one that cannot run, and a server stage; two faults allow a crash during the
recovery from an exception. *queue*: three builds are the fewest for two that
compete for a service and a third that competes for the runner only. *approval*:
two approvals of three people give a first, a deciding and a refused one; all
three are served by one process, the only case in which nudges exclude each
other, and the pass runs there or elsewhere; the proof is for any assignment. *notify*: two
messages and one place make them wait for each other; two attempts give a first and
a last. *agents*: two tasks and one place make the second wait; two requests are the
fewest that overlap. *bundles*: two items give one before a failure and one behind
it, two processes an executor and one that recovers or watches; the three surroundings
are the usual one, one where managers have no address and failures do not stop the rest,
and one with two leaders, a slow item and no address. The safety part of
each is proved for any numbers; the instances are for the liveness and for the
history properties that are only checked.

Every type invariant is proved, and none is run: the theorems hold for all constants,
and the invariants that are run lean on them.

Deadlock is checked in `guard` and not in the others: there a finished build,
bundle or set of builds is a state in which nothing more has to happen.

### Fairness

`PassGuard!FairSpec`: threads keep running (`WF` of each thread's step), a
stopped process is started again (gunicorn and Kubernetes restart it), a
committed request goes on to its `wake()`, and TCP keepalives end a dead session
(`AdvisoryLock` sets them on its connection). Nothing is asked of faults, and
weak fairness is enough: a guarded call never waits for a lock.

`CiEngine!FairSpec`: the engine finishes what it began, a next pass comes (the
ticker), the reaper's and the bookkeeping's intervals come round (strong
fairness: each is taken again and again, not on every pass), and the clock runs,
so that a build does become overdue. Nothing is asked of agents: a queued build
must end although no agent ever answers. Crashes are bounded by `MaxFaults`; a
backend that crashes for ever ends nothing, in the code as in the model.

`Approval` states safety only.

`AgentTasks!FairSpec`: the engine comes back to every open stage (strong: it looks
at one at a time), the server answers a claim, the agent asks and finishes what it
runs (a crashed one is started again by its service manager), and a claim nobody
works on falls silent in the end. Nothing makes a task finish whose agent is gone:
that is `Lapse`, and `ClaimsEnd` depends on it.

`PostActions!FairSpec`: passes reach every row again and again (strong: a pass that
looks at one row does not look at another), sender threads run, backoffs and claim
ages run out. Nothing is asked of the build.

`ChangeBundle!FairSpec`: some process leads and its tick comes round (strong, as
ticks alternate), workers run, windows open and end, a bundle nobody works on goes
quiet, and a rollout that does not come up is some day past its time. Voters owe
nothing: `EveryBundleEnds` begins at "approved".

## 4. What is proved

Proofs are for every set of processes, threads, approvers, builds and runners,
every pipeline and every number of faults.

**PassGuard_proofs.** Assumptions: `SessionNames` and `ThreadAssumption` (names
are distinct, tickers and deciders are different threads, a process has one ticker). The properties are
not inductive: that two threads are not both inside says nothing about why. The
strengthening is `GuardInv`, in five parts: the mutex tells threads of one
process apart (`MutexInv`), deciders never enter the guard (`DeciderInv`), a
process that is down has no threads (`DownInv`), only the master's connection
is ever inherited (`ForkInv`), and an object believes it holds the lock exactly
while a thread of its process is inside, with the server agreeing while the
session lives (`BeliefInv`). From it: `TypesHold`, `OnePass`, `LockMeansPass`,
and `GuardImplements`, that every step is a step or a stutter of
`ExclusivePass` with `inPass` the passes whose session is alive. `NoLostWakeup` has an
invariant of its own, `WakeInv`: from the start of a pass to the long sleep after it
the ticker has missed nothing, because what is committed meanwhile is announced or
sets the event, and only that ticker clears it (`OnlyTickersSleep`, one per process).

**CiEngine_proofs, CiBuilds_proofs, CiStages_proofs.** Assumption:
`EngineAssumption` (finitely many numbered builds and runners, positive limits, valid
pipelines). Twelve kinds of work write a build, so the argument is made once about
their shape: each moves the rows of one build (`Moves`: what is over stays over,
nothing waits again, no task is forgotten, what starts was waiting in the rows in
hand), and each leaves the engine where it was, moves it on within that build, or
lets go of it (`WorkShape`, `TurnShape`). `CoreInv` says where the engine may be:
`EngineInv` ties `phase`, `cur`, `at` and `rows`; `RunnerInv` that a running build
has the runner whose slot it gives back; `FreshInv` that nothing of a build starts
before its dispatch has committed, though requests may cancel it in between;
`CancelInv` and `KindInv` what holds between two commits of a cancellation or a
group. From it: `TypeCorrect`, `NothingRunsOn`, `CapRespected`, and, by counting,
`SlotsAreAccounted`. `FinalOutcomes` needs in addition that the lists of the pass
stay true until it comes to each build (`TodoInv`), which in turn holds because a
second cancel request finds the flag (`AskInv`). Barriers rest on `StepInv`, that the
rows in hand are one step with everything before it over, and on groups having no
gaps; honest outcomes on `HonestInv`, that a cancelled stage has its reason, a request
or a failure of its group; tasks on `QueuedInv`, which leaves out only what is named
in the property: builds timed out or failed as a whole, after the engine let go of
them. The exceptions `raced`, `skewed` and `loose` of the properties are in the
theorems too: they are the findings of section 5.

`FailureStopsTheBuild` needs to know where a failure may still be without its
consequence. `SkipInv` says: outside `loose`, a step that failed and was not allowed
to, with something behind it still waiting, exists only while the engine is cancelling
that build, or has that very step in hand between the commit that closed it and the one
that skips (`WillSkip`). What each kind of work leaves behind is a lemma of its own
(`PollStage`, `PollGroup`, `StopGroup` and `CloseGroup` skip or keep the step in hand;
`StartRow` may fail a stage, which is `loose`), and a start behind a failure would need
a state that `SkipInv` excludes.

`EngineKeepsQueue`: `CiEngine` implements `BuildQueue`. The mapping is `Place`: a
build's status, except that a build the engine has already decided, but is still at,
counts as running until it lets go; so that what a handler commits twice (the stage,
then the build) is one step outside. `PlaceInv` ties the two. A dispatch is `LetIn` with
the room counted (`RoomCounted`: what the claim counted under the row locks is an upper
bound of what runs), a cancel of a waiting build `Withdraw`; only a build a stale read
was written over (`raced`) takes the steps `Cross` and `Stray`, and even those need
room. Nothing is said of the order in which builds are let in.

`EngineKeepsContract`: each agent stage of each build is a stage of `StageContract`.
The engine's step is a `Close` (any number of stages get a verdict at once), `Offer` a
start, and the agents' steps are `Take` and `Earn`; that a verdict is green only if
earned is the clause of `StageContract` that the barriers and outcomes do not give.

**Approval_proofs.** Assumption: `ApprovalAssumption` (finitely many approvers,
at least as many as approvals are needed). What makes the gate hold is not the
row lock alone, since the engine does not take it: a stale view is harmless
because it is never *more* permissive than the row. `GateInv` says so: `ViewInv`
holds of the rows and of whatever an advancer has read; `AgeInv` says how old
that can be (a stage seen started, over or passed on still is); `NudgeInv` that
a request advances the build only after the wait is over, so that before it only
the pass writes; `LockInv` that a locked row waits; `StoryInv` what follows for
acknowledged decisions. Nearly all writes preserve it for one reason, stated
once as the lemma `WriteStep`. From it: `TypeCorrectness`, `GateHolds`,
`RejectionHolds`. `VerdictKept` is the refinement of `Verdict`: a start is `Ask`, a
commit `Answer`, whatever closes the stage, or closes it once more from what it read
before, `End`, and a start of the stage behind `Begin`, which needs the approvals unless the
stage is waived and nobody has said anything. What `Verdict` rules out is
what an unlocked write could do to a stage that is over: let it wait again, or turn
it green. It does allow a stage that passed to be closed as cancelled or timed out,
and what is behind it to begin all the same, because the code does that.

**AgentTasks_proofs.** Assumptions: task ids and request numbers are numbers, the
limits at least one. `RunAtMostOnce` is not inductive: the second claim of a task is
harmless because nothing turns a claimed or finished task back into a queued one, and
because a reply reaches the agent only if it is the one it waits for. `AgentInv` adds
that (`Rows`, `RunInv`), and for `SuccessIsEarned` that exit 0 in a row, or in what
the engine read of it, was earned (`EarnInv`). `ClaimedWithinCapacity` needs `CapInv`:
without overlapping requests the count still holds when the claim is committed. Types
say "at most one" without `Cardinality` and lead to `TypeOK` by a lemma.
`AgentsKeepContract` maps task rows to the same `StageContract`: a task is offered when
it has a row, taken once an agent has its claim's answer in hand, earned when it
recorded exit 0. What an overlapping second claim, a late result or a stale look of
the engine writes is then either the stutter of one of these, or a verdict on what is
already earned.

**PostActions_proofs.** Assumptions: cleanups and messages are different rows, the
limits are numbers. `OneHolder` rests on one fact: a row in hand is not "pending", and
a claim asks for "pending" (`HeldInv`); `SendInv` ties senders to claims.
`StoryInv`/`CleanInv` say why a row is queued, in hand or seen as such, and that a
build which never started has none (also not one decided late);
`LostInv` that a row whose holder is gone is neither pending nor in hand; `AgeInv`
that without slow sends an old claim is in nobody's hands. `TriesInv` is the second
invariant: while passes exclude each other, what a pass has read of a pending row is
still so, and every send was counted before it began. From them: `ExclusiveDelivery`,
`SentOnlyAfterTheResult`, `NoRepeats`, `OutcomesStay`, `BoundedAttempts`.
`DeliveryKept` is the refinement of `Delivery`, and needs no more than `PostInv`: a claim
is a `Take` (the row is pending, so nobody holds it and it was never lost), a worker's
beginning a `Send` (in its process's hands, and under way nowhere, since a sender
elsewhere would hold it too), an outcome, a retry, or one that cannot be recorded a
`LetGo`, a crash a `Die`, the end of the build the one `Decide`; a pass's reading,
settling late and reaping are stutters. It holds with overlapping passes and slow sends.

**ChangeBundle_proofs.** Assumptions: finitely many voters, no more approvals
required than there are recipients. `ConsentInv` follows consent from votes to the
status, the claim, the worker and the cluster, and does not care who races; consent is
enough approvals, or a manager's who has no address.
`OnceInv` and `StopInv` are about a worker among recoveries: before the claim nothing
is applied; after it one worker goes through the items, nothing ahead of it was
applied, and a recovery, which may read and commit beside a slow worker, only closes.
What it calls failed was at work when it read; if its worker has gone on since, it is
in `overruled`, else the worker is still at it and nothing behind it was applied. Both are
conditional on no answer having been written over a status it had not seen
(`raced`), which is the finding `rejected`. From them: `ConsentFirst`, `NeverTwice`,
`FailureStops`. `WatchInv` says that watches are opened once, by the last step of the
only worker, and that an undone rollout is either recorded or in the hands of the tick
that undid it, unless that tick died or raised (`torn`): `WatchesAreTrue`. `OutInv` follows the worker's own count (`Counted`):
what is behind it is as it counted, what is ahead waits, and nobody closes a bundle it
is at, since without slow items a quiet bundle has no worker: `OutcomesAreTrue`.
`RolloutKept` is the refinement of `Rollout`, for which the invariants are enough
together: `ConsentInv` that an item is applied by consent, `OnceInv` in order and
once, `StopInv` behind no failure, `OutInv` not after the end. What is excused
(`raced`) still needs its consent. All other steps of votes, ticks and workers are one
`Settle`, because a closed bundle stays closed (`OverStays`) and because what is
called failed later, by a recovery, has nothing applied behind it.

**Model-checked only.** The liveness properties (`WorkIsLookedAt`, `EveryBuildEnds`,
`EveryMessageEnds`, `ClaimsEnd`, `EveryTaskIsTaken`, `EveryBundleEnds`,
`EveryWatchEnds`): liveness under fairness is beyond the prover. Every safety
property, action property and refinement of the passing runs is a theorem.

## 5. Where code and text disagree

| Run | What |
|---|---|
| `lost_decision` | `decide` says its row lock keeps a decision from being lost to the engine; the engine's heartbeat saves the state it had read and the approval is gone. `RejectionStands` and `NothingPastTheGate` hold nevertheless: what is lost is an approval that has to be given again, or the record of one |
| `cancel_race` | a cancel that read "queued" finishes a build dispatched in between, whose stage keeps running |
| `failed_start` | a stage that fails in starting does not end the build: the next stage starts |
| `rejected` | a manager's rejection is promised to stop a deploy at once; a vote committed before it writes "approved" over it, and the bundle is applied |

Seen while modelling, without a run of their own; the models contain each of them
and the properties are stated around it:

* An approval decision advances its build outside the guard, beside another
  process's pass (`approval_stage.py:282`), though the ticker speaks of one process
  inside a pass. `Approval` is the model of that.
* A build whose last stage fails in starting is finished twice and gives its slot
  back twice; its runner is over-committed until loads are recomputed (`skewed`).
* A claimed task whose agent is gone *and* whose stage was cut short or reaped is
  never looked at again: it stays "claimed" and counts against `max_concurrent` for
  ever. `ClaimsEnd` leaves this case out by name (`Spared`).
* A live agent whose stage prints nothing for `CLAIM_TIMEOUT_MINUTES` is taken for
  lost (`runners/agent.py:142`): output is its only sign of life.
* A process that dies between undoing a rollout and saying so leaves a watch that
  undoes it again, and so does an exception there, which is caught and retried on the
  next tick (`torn`; `change_bundle_executor.py:628`).
* A recovery closes what it read: an item a slow worker has recorded as succeeded
  meanwhile is called failed, and the one behind it may be applied (`overruled`;
  `change_bundle_executor.py:927-947`).
* A manager without an email address approves a bundle alone
  (`change_bundle_service.py:1243`), though `decide_bundle` says that approvals go
  through the normal quorum (1268-1270).
* An Approval stage whose own run condition is not met is skipped, and what is behind
  it starts without approvals (`engine.py:1715-1720`); nothing promises otherwise.

## 6. Not modelled

* The whole-build (Kubernetes) runner's Job and its barrier; retry of a build (a new
  trigger); the texts of `queue_reason`.
* A runner deleted under its running builds, whose stages are then closed unpolled.
* An unlock that fails, after which the code closes the session (`leader_election.py:212`).
* Agents' enrolment, the runner's heartbeat and draining, log contents, artifacts.
* The state of a Deploy or Store upload stage: in `CiEngine` and `Approval` it
  starts, runs, ends.
* Schedules, webhooks, merge checks, deploy automation, monitoring rounds,
  provisioning and upgrades: see the plan.
* Of change bundles: editing a draft, `approvals_service`, emails, what an item does.
* Catalogues, definitions, secrets, artifacts, access control, the frontend:
  data and I/O. What the engine relies on of a saved pipeline is
  `CiEngine!Valid`, an assumption.

Most of this repository's lines are of those kinds: views over Kubernetes and other
services, forms, and their storage, whose operations are a request and a commit and
which have no interleaving, retry or recovery for a model checker to explore.

## 7. Plan

In this order, most important first:

1. Done: `AdvisoryLock`, `PassGuard`, `CiEngine`, `Approval`, `AgentTasks`,
   `PostActions`, `ChangeBundle`, and the proofs of section 4.
2. `OnceOnly`: the conditional claims of schedules, webhooks and merge checks,
   with several processes and a clock. Property: a due minute fires once.
3. Deploy automation's check before insert, and how it hands over to a bundle.
4. `SchedulerLeadership`: composes `AdvisoryLock` for the monitoring lanes;
   upgrade jobs' heartbeats.
5. The Kubernetes runner as a second adapter of `CiEngine`; the state of a Deploy
   stage, which two advancers of one build may start twice.

Runs are kept to one per question.
