----------------------------- MODULE AgentTasks -----------------------------
(***************************************************************************)
(* Stages handed to an external agent (services/ci/agents.py, its routes,  *)
(* services/ci/runners/agent.py) and the agent itself                      *)
(* (agent/kubesight-agent.py): one runner, its task rows, the one process  *)
(* that asks for work and runs it, its claim requests as the server runs   *)
(* them, and the engine, which polls what it has read.                     *)
(*                                                                         *)
(* A task belongs to one stage and is named by its id: older is smaller.   *)
(***************************************************************************)
EXTENDS Naturals, FiniteSets

CONSTANTS
    Task,          \* task ids
    Grouped,       \* those of parallel groups, timed from the claim
    Request,       \* claim requests the server may be running at once, numbered
    MaxConcurrent, \* max_concurrent of the runner
    Worlds,        \* the surroundings considered, see world
    MaxFaults      \* bound on crashes and lost messages

World == [cuts: BOOLEAN, losses: BOOLEAN, slow: BOOLEAN]

ASSUME TaskAssumption == Task \subseteq Nat \ {0} /\ Grouped \subseteq Task /\ Request \subseteq Nat
ASSUME LimitAssumption == MaxConcurrent \in Nat \ {0} /\ MaxFaults \in Nat
ASSUME WorldAssumption == Worlds \subseteq World

VARIABLES
    stage,     \* the stage of each task, as the engine has it
    state, token, exit, \* the task row; tokens are numbers, 0 is none
    called,    \* its error says "cancelled"
    silent,    \* last_heartbeat_at is more than CLAIM_TIMEOUT_MINUTES ago
    reqAt, pick,   \* each claim request, and the task it read
    asked,     \* the request whose reply the agent waits for, if any
    job,       \* the task the agent runs, with its claim token, if any
    look,      \* what the engine has read, if it is at a task
    issued,    \* how many claim tokens there have been
    world,     \* the surroundings, which do not change:
               \*   cuts: stages may be cancelled, timed out or reaped
               \*   losses: replies, results, processes may be lost
               \*   slow: a claim may outlast the agent's patience
    runs, earned,  \* history: how often a task was run, whether to exit 0
    faults

rowVars == <<state, token, exit, called, silent>>
requestVars == <<reqAt, pick, asked>>
agentVars == <<job, runs, earned>>
vars == <<stage, rowVars, requestVars, agentVars, look, issued, world, faults>>

Closed == {"success", "failed", "timeout", "cancelled"}

View(t) == [task |-> t, state |-> state[t], exit |-> exit[t], called |-> called[t],
            silent |-> silent[t]]
Seen == [task: Task, state: {"queued", "claimed", "done"}, exit: {"none", "zero", "other"},
         called: BOOLEAN, silent: BOOLEAN]

TypeOK ==
    /\ stage \in [Task -> {"waiting", "open"} \cup Closed]
    /\ state \in [Task -> {"none", "queued", "claimed", "done"}]
    /\ token \in [Task -> 0..issued] /\ issued \in Nat
    /\ exit \in [Task -> {"none", "zero", "other"}]
    /\ called \in [Task -> BOOLEAN] /\ silent \in [Task -> BOOLEAN]
    /\ reqAt \in [Request -> {"idle", "new", "counted", "picked"}]
    /\ pick \in [Request -> Task \cup {0}]
    /\ asked \in SUBSET Request /\ Cardinality(asked) <= 1
    /\ job \in SUBSET [task: Task, token: 1..issued] /\ Cardinality(job) <= 1
    /\ look \in SUBSET Seen /\ Cardinality(look) <= 1
    /\ world \in World
    /\ runs \in [Task -> Nat] /\ earned \in [Task -> BOOLEAN]
    /\ faults \in 0..MaxFaults
    /\ \A t \in Task : stage[t] = "waiting" <=> state[t] = "none"
    /\ \A q \in Request : reqAt[q] = "picked" <=> pick[q] # 0

Init ==
    /\ stage = [t \in Task |-> "waiting"]
    /\ state = [t \in Task |-> "none"]
    /\ token = [t \in Task |-> 0]
    /\ exit = [t \in Task |-> "none"]
    /\ called = [t \in Task |-> FALSE] /\ silent = [t \in Task |-> FALSE]
    /\ reqAt = [q \in Request |-> "idle"] /\ pick = [q \in Request |-> 0]
    /\ asked = {} /\ job = {} /\ look = {}
    /\ issued = 0 /\ world \in Worlds
    /\ runs = [t \in Task |-> 0] /\ earned = [t \in Task |-> FALSE]
    /\ faults = 0

Fault == world.losses /\ faults < MaxFaults /\ faults' = faults + 1

(***************************************************************************)
(* The engine.  start offers a stage; a later pass reads its task, and     *)
(* then cancels, times out or judges it by what it read, writing the       *)
(* columns that differ from that.  Reaping a build touches no task.        *)
(***************************************************************************)
EngineFrame == UNCHANGED <<token, silent, requestVars, agentVars, issued, world>>

Offer(t) ==
    /\ stage[t] = "waiting" /\ \A u \in Task : u < t => stage[u] # "waiting"
    /\ stage' = [stage EXCEPT ![t] = "open"]
    /\ state' = [state EXCEPT ![t] = "queued"]
    /\ UNCHANGED <<exit, called, look, faults>> /\ EngineFrame

\* Mutant of Look: a stage that is over is polled again.
LookAtAny(t) ==
    /\ look = {} /\ state[t] # "none"
    /\ look' = {View(t)}
    /\ UNCHANGED <<stage, state, exit, called, faults>> /\ EngineFrame

Look(t) ==
    /\ look = {} /\ stage[t] = "open"
    /\ look' = {View(t)}
    /\ UNCHANGED <<stage, state, exit, called, faults>> /\ EngineFrame

\* The adapter has committed its task; the engine closes the stage, unless it
\* ends in between.
CloseStage(t, how) ==
    /\ look' = {}
    /\ \/ stage' = [stage EXCEPT ![t] = how] /\ UNCHANGED faults
       \/ Fault /\ UNCHANGED stage

\* AgentAdapter.cancel
CancelTask(v) ==
    LET t == v.task IN
    /\ called' = [called EXCEPT ![t] = @ \/ v.state # "done"]
    /\ state' = [state EXCEPT ![t] = IF v.state = "queued" THEN "done" ELSE @]
    /\ exit' = [exit EXCEPT ![t] = IF v.state = "queued" THEN "other" ELSE @]

\* A member of a group that no agent has claimed is not timed (running_since).
Timed(v) == v.task \in Grouped => v.state # "queued"

\* A cancel request, or the stage's timeout, whenever that is.
Cut(v) ==
    /\ world.cuts
    /\ CancelTask(v)
    /\ CloseStage(v.task, "cancelled") \/ (Timed(v) /\ CloseStage(v.task, "timeout"))
    /\ EngineFrame

\* Mutant of GaveUp: a lapsed task without an exit code gets 0.
GaveUpAsZero(v) == IF v.exit = "none" THEN "zero" ELSE v.exit
GaveUp(v) == IF v.exit = "none" THEN "other" ELSE v.exit

\* AgentAdapter.poll: a silent claim.
\* Mutants of Lapse: a task given up is offered again; only its stage is closed.
LapseRequeues(v) ==
    /\ v.state = "claimed" /\ v.silent
    /\ state' = [state EXCEPT ![v.task] = "queued"]
    /\ look' = {} /\ UNCHANGED <<stage, exit, called, faults>>
    /\ EngineFrame

LapseKeepsClaim(v) ==
    /\ v.state = "claimed" /\ v.silent
    /\ called' = [called EXCEPT ![v.task] = FALSE]
    /\ exit' = [exit EXCEPT ![v.task] = GaveUp(v)]
    /\ CloseStage(v.task, "failed")
    /\ UNCHANGED state /\ EngineFrame

Lapse(v) ==
    /\ v.state = "claimed" /\ v.silent
    /\ state' = [state EXCEPT ![v.task] = "done"]
    /\ called' = [called EXCEPT ![v.task] = FALSE]
    /\ exit' = [exit EXCEPT ![v.task] = GaveUp(v)]
    /\ CloseStage(v.task, "failed")
    /\ EngineFrame

Verdict(v) ==
    IF v.exit = "zero" THEN "success"
    ELSE IF v.called THEN "cancelled" ELSE "failed"

Judge(v) ==
    /\ v.state = "done"
    /\ CloseStage(v.task, Verdict(v))
    /\ UNCHANGED <<state, exit, called>> /\ EngineFrame

StillRunning(v) ==
    /\ v.state = "queued" \/ (v.state = "claimed" /\ ~v.silent)
    /\ look' = {}
    /\ UNCHANGED <<stage, state, exit, called, faults>> /\ EngineFrame

Act == \E v \in look : Lapse(v) \/ Judge(v) \/ StillRunning(v)

\* _reap_stale_builds, or an exception: the stage is closed, its task is not.
Reap(t) ==
    /\ world.cuts /\ look = {} /\ stage[t] = "open"
    /\ stage' = [stage EXCEPT ![t] = "failed"]
    /\ UNCHANGED <<state, exit, called, look, faults>> /\ EngineFrame

(***************************************************************************)
(* A claim request: it counts what is claimed, reads the oldest queued     *)
(* task, and commits the claim.  No row is locked.                         *)
(***************************************************************************)
RequestFrame == UNCHANGED <<stage, exit, called, look, earned, world>>

Ask(q) ==
    /\ job = {} /\ asked = {} /\ reqAt[q] = "idle"
    /\ \A r \in Request : r < q => reqAt[r] # "idle"
    /\ world.slow \/ \A r \in Request : reqAt[r] = "idle"
    /\ reqAt' = [reqAt EXCEPT ![q] = "new"]
    /\ asked' = {q}
    /\ UNCHANGED <<state, token, silent, pick, job, runs, issued, faults>> /\ RequestFrame

ClaimedTasks == {t \in Task : state[t] = "claimed"}
Queued == {t \in Task : state[t] = "queued"}

\* Mutants of HasRoom: what is claimed is not counted; what is queued is counted.
HasRoomAlways(q) == reqAt[q] = "new"
HasRoomForAll(q) ==
    reqAt[q] = "new" /\ Cardinality(ClaimedTasks \cup Queued) < MaxConcurrent
HasRoom(q) == reqAt[q] = "new" /\ Cardinality(ClaimedTasks) < MaxConcurrent

CountClaimed(q) ==
    /\ HasRoom(q)
    /\ reqAt' = [reqAt EXCEPT ![q] = "counted"]
    /\ UNCHANGED <<state, token, silent, pick, asked, job, runs, issued, faults>> /\ RequestFrame

ReadOldest(q) ==
    /\ reqAt[q] = "counted"
    /\ \E t \in Queued :
        /\ \A u \in Queued : t <= u
        /\ pick' = [pick EXCEPT ![q] = t]
    /\ reqAt' = [reqAt EXCEPT ![q] = "picked"]
    /\ UNCHANGED <<state, token, silent, asked, job, runs, issued, faults>> /\ RequestFrame

Answered(q) ==
    /\ reqAt' = [reqAt EXCEPT ![q] = "idle"]
    /\ pick' = [pick EXCEPT ![q] = 0]
    /\ asked' = asked \ {q}

NothingForYou(q) ==
    /\ \/ reqAt[q] = "new" /\ ~HasRoom(q)
       \/ reqAt[q] = "counted" /\ Queued = {}
    /\ Answered(q)
    /\ UNCHANGED <<state, token, silent, job, runs, issued, faults>> /\ RequestFrame

\* The reply is read by the agent that asked, if it still listens, or is lost.
Claim(q) ==
    \E t \in Task :
        /\ reqAt[q] = "picked" /\ pick[q] = t
        /\ state' = [state EXCEPT ![t] = "claimed"]
        /\ token' = [token EXCEPT ![t] = issued + 1]
        /\ issued' = issued + 1
        /\ silent' = [silent EXCEPT ![t] = FALSE]
        /\ Answered(q)
        /\ \/ /\ q \in asked
              /\ job' = {[task |-> t, token |-> issued + 1]}
              /\ runs' = [runs EXCEPT ![t] = @ + 1]
              /\ UNCHANGED faults
           \/ /\ q \notin asked /\ UNCHANGED <<job, runs, faults>>
           \/ /\ q \in asked /\ Fault /\ UNCHANGED <<job, runs>>
        /\ RequestFrame

(***************************************************************************)
(* The agent: one thread.  It reports a result once and never asks again   *)
(* whether its task is still wanted.                                       *)
(***************************************************************************)
AgentFrame == UNCHANGED <<stage, reqAt, pick, look, issued, world>>

GiveUpAsking ==
    /\ world.slow /\ asked # {} /\ asked' = {}
    /\ UNCHANGED <<rowVars, agentVars, faults>> /\ AgentFrame

Authorised(j) == token[j.task] = j.token

\* append_logs: output is the only sign of life a task gives.
ShipLines(j) ==
    /\ Authorised(j) /\ silent[j.task]
    /\ silent' = [silent EXCEPT ![j.task] = FALSE]
    /\ UNCHANGED <<state, token, exit, called, asked, agentVars, faults>> /\ AgentFrame

Recorded(j, code) ==
    /\ state' = [state EXCEPT ![j.task] = "done"]
    /\ exit' = [exit EXCEPT ![j.task] = code]
    /\ called' = [called EXCEPT ![j.task] = FALSE]
    /\ silent' = [silent EXCEPT ![j.task] = FALSE]

\* run_task, report_result; a result that is refused or lost is only printed.
Finish(j, code) ==
    /\ job' = {}
    /\ earned' = [earned EXCEPT ![j.task] = @ \/ code = "zero"]
    /\ \/ Authorised(j) /\ Recorded(j, code) /\ UNCHANGED faults
       \/ ~Authorised(j) /\ UNCHANGED <<state, exit, called, silent, faults>>
       \/ Authorised(j) /\ Fault /\ UNCHANGED <<state, exit, called, silent>>
    /\ UNCHANGED <<token, asked, runs>> /\ AgentFrame

AgentCrash ==
    /\ Fault
    /\ job' = {} /\ asked' = {}
    /\ UNCHANGED <<rowVars, runs, earned>> /\ AgentFrame

(***************************************************************************)
(* Time.                                                                   *)
(***************************************************************************)
AtWork(t) == \E j \in job : j.task = t /\ Authorised(j)

GoesSilent(t) ==
    /\ state[t] = "claimed" /\ ~silent[t]
    /\ silent' = [silent EXCEPT ![t] = TRUE]
    /\ UNCHANGED <<stage, state, token, exit, called, requestVars, agentVars, look, issued, world, faults>>

Serve(q) == CountClaimed(q) \/ ReadOldest(q) \/ NothingForYou(q) \/ Claim(q)
Work == \E j \in job : \E code \in {"zero", "other"} : Finish(j, code)

Next ==
    \/ \E t \in Task : Offer(t) \/ Look(t) \/ Reap(t) \/ GoesSilent(t)
    \/ Act \/ (\E v \in look : Cut(v))
    \/ \E q \in Request : Ask(q) \/ Serve(q)
    \/ GiveUpAsking \/ Work \/ AgentCrash
    \/ \E j \in job : ShipLines(j)

Spec == Init /\ [][Next]_vars

\* The engine comes back to every open stage, a claim is answered, the agent
\* (started again after a crash) asks and finishes what it runs, and a claim
\* nobody works on falls silent.
FairSpec ==
    /\ Spec
    /\ WF_vars(Act \/ \E v \in look : Cut(v)) /\ \A t \in Task : SF_vars(Look(t))
    /\ WF_vars(\E q \in Request : Ask(q)) /\ \A q \in Request : WF_vars(Serve(q))
    /\ WF_vars(Work)
    /\ \A t \in Task : WF_vars(~AtWork(t) /\ GoesSilent(t))

(***************************************************************************)
(* What it promises.                                                       *)
(***************************************************************************)

\* However requests overlap, claims lapse and processes die, a stage is run by
\* an agent at most once: a task given up is not handed out again.
RunAtMostOnce == \A t \in Task : runs[t] <= 1

\* A stage is green only when an agent ran it to exit 0.
SuccessIsEarned == \A t \in Task : stage[t] = "success" => earned[t]

\* Claims that do not overlap never exceed what the runner takes at once.
ClaimedWithinCapacity ==
    ~world.slow => Cardinality(ClaimedTasks) <= MaxConcurrent

\* Without overlapping requests, and unless a stage was cut short while its
\* agent was lost, a claim comes to an end and every task is taken or given up.
Spared == ~world.slow /\ ~(world.cuts /\ world.losses)
ClaimsEnd == \A t \in Task : Spared /\ state[t] = "claimed" ~> state[t] = "done"
EveryTaskIsTaken == \A t \in Task : Spared /\ state[t] = "queued" ~> state[t] # "queued"

\* Requests, replies, silence and the engine's stale reads between them keep the
\* contract on stages: a verdict, once given, is never given again, and a stage
\* is on offer before it has one.
Contract == INSTANCE StageContract WITH
    Stage <- Task,
    offered <- {t \in Task : state[t] # "none"},
    takes <- runs,
    earned <- {t \in Task : earned[t]},
    verdict <- [t \in Task |-> IF stage[t] = "success" THEN "green"
                               ELSE IF stage[t] \in Closed THEN "other" ELSE "none"]

KeepsContract == Contract!Spec

=============================================================================
