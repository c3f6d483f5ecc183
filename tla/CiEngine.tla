------------------------------ MODULE CiEngine ------------------------------
(***************************************************************************)
(* The CI build engine, services/ci/engine.py, with the queue, the runner  *)
(* slots and the agent adapter it drives: builds are triggered, claimed    *)
(* from the queue, given a runner slot, walked stage by stage (or group by *)
(* group), and finished, timed out or cancelled.                           *)
(*                                                                         *)
(* There is one engine: PassGuard.tla is about why.  What runs beside it   *)
(* are the request handlers (trigger, cancel) and the agents.  A step of   *)
(* the engine is one database transaction; between two of them anything    *)
(* else may commit, and the engine's process may stop.                     *)
(*                                                                         *)
(* The runners are per-stage agents (runners/agent.py).  Time is two       *)
(* choices: a stage may be past its timeout whenever it is polled, and a   *)
(* running build becomes overdue at some point.                            *)
(***************************************************************************)
EXTENDS Integers, FiniteSets, Sequences

CONSTANTS Build,       \* build ids, numbered in the order they are queued
          Service,     \* Service[b]: what build b builds
          ServiceCap,  \* ServiceCap[v]: max_concurrent_builds of service v
          Runner,
          Capacity,    \* Capacity[r]: max_concurrent of runner r
          Plans,       \* Plans[b]: the pipelines the trigger of b may snapshot
          Modes,       \* how groups may run: "parallel", "sequential"
          NoBuild, NoRunner,
          MaxFaults    \* bound on engine crashes and raised exceptions

\* A stage of a pipeline: what runs it, the parallel group it is in (0 for
\* none), failFast of that group, and continueOnFailure.
StageDef == [kind : {"agent", "server", "unsupported"}, group : Nat,
             failFast : BOOLEAN, goOn : BOOLEAN]

\* What saving a pipeline makes sure of: a group's members are consecutive,
\* none of them is the server's and they agree on failFast; only server stages
\* follow a server stage.
Valid(pl) == \A i, j \in 1..Len(pl) : i < j =>
    /\ (pl[i].group # 0 /\ pl[i].group = pl[j].group) =>
        \A k \in i..j : /\ pl[k].group = pl[i].group
                        /\ pl[k].kind # "server"
                        /\ pl[k].failFast = pl[i].failFast
    /\ pl[i].kind = "server" => pl[j].kind = "server"

ASSUME EngineAssumption ==
    /\ Build \subseteq Nat /\ IsFiniteSet(Build)
    /\ NoBuild \notin Build /\ NoRunner \notin Runner
    /\ IsFiniteSet(Runner)
    /\ Capacity \in [Runner -> Nat \ {0}]
    /\ \A b \in Build : ServiceCap[Service[b]] \in Nat \ {0}
    /\ \A b \in Build : \A pl \in Plans[b] : pl \in Seq(StageDef) /\ Len(pl) > 0 /\ Valid(pl)
    /\ Modes \subseteq {"parallel", "sequential"} /\ Modes # {}
    /\ MaxFaults \in Nat

VARIABLES
    plan,      \* pipeline_snapshot of each build, <<>> before its trigger
    status,    \* the build row: "none" before the trigger
    cancel,    \* cancel_requested
    overdue,   \* builds past their deadline, or silent for too long
    runner,    \* runner_id
    mode,      \* pipeline_snapshot["parallel"], "none" until decided
    stage,     \* stage[b][s]: the status of the stage row
    task,      \* task[b][s]: the agent's task of that stage
    load,      \* load[r]: current_load
    asking,    \* asking[b]: the status a cancel request has read, "no" without one
    phase,     \* the step of the pass the engine is in
    todo,      \* the builds that step still has to look at
    cur,       \* the build being worked on
    at,        \* and how far that is
    rows,      \* the stages being started
    locked,    \* build rows locked by the queue claim
    raced,     \* builds a stale read was written over (history)
    skewed,    \* runners whose load lost count since it was last rebuilt (history)
    loose,     \* builds with a failure that did not skip what follows (history)
    faults

buildVars  == <<plan, status, cancel, runner, mode>>
stageVars  == <<stage, task>>
engineVars == <<phase, todo, cur, at, rows, locked>>
history    == <<raced, skewed, loose>>
vars == <<buildVars, stageVars, overdue, load, asking, engineVars, history, faults>>

Terminal == {"success", "failed", "timeout", "cancelled"}
StageOver == Terminal \cup {"skipped"}
TaskState == {"none", "queued", "claimed", "lapsed", "ok", "bad", "cancelled"}

TypeOK ==
    /\ \A b \in Build : plan[b] \in Plans[b] \cup {<<>>}
    /\ status \in [Build -> Terminal \cup {"none", "queued", "running"}]
    /\ cancel \in [Build -> BOOLEAN]
    /\ overdue \in SUBSET Build
    /\ runner \in [Build -> Runner \cup {NoRunner}]
    /\ mode \in [Build -> Modes \cup {"none"}]
    /\ \A b \in Build :
          /\ stage[b] \in [1..Len(plan[b]) -> StageOver \cup {"pending", "running"}]
          /\ task[b] \in [1..Len(plan[b]) -> TaskState]
    /\ load \in [Runner -> Nat]
    /\ asking \in [Build -> {"no", "queued", "running"}]
    /\ phase \in {"idle", "reap", "cancel", "advance", "dispatch", "nudge"}
    /\ todo \in SUBSET Build /\ locked \in SUBSET Build
    /\ cur \in Build \cup {NoBuild}
    /\ at \in {"idle", "look", "walk", "join", "launch", "poll", "stop", "close", "follow", "claim",
              "cancel"}
    /\ raced \in SUBSET Build /\ skewed \in SUBSET Runner /\ loose \in SUBSET Build
    /\ faults \in 0..MaxFaults

Init ==
    /\ plan = [b \in Build |-> <<>>]
    /\ status = [b \in Build |-> "none"]
    /\ cancel = [b \in Build |-> FALSE]
    /\ overdue = {}
    /\ runner = [b \in Build |-> NoRunner]
    /\ mode = [b \in Build |-> "none"]
    /\ stage = [b \in Build |-> <<>>]
    /\ task = [b \in Build |-> <<>>]
    /\ load = [r \in Runner |-> 0]
    /\ asking = [b \in Build |-> "no"]
    /\ phase = "idle" /\ todo = {} /\ cur = NoBuild /\ at = "idle"
    /\ rows = {} /\ locked = {}
    /\ raced = {} /\ skewed = {} /\ loose = {}
    /\ faults = 0

Fault == faults < MaxFaults /\ faults' = faults + 1

---------------------------------------------------------------------------
(* Reading a build                                                         *)

Stages(b) == 1..Len(plan[b])
Open(st)  == {s \in DOMAIN st : st[s] \in {"pending", "running"}}
First(S)  == CHOOSE s \in S : \A x \in S : s <= x

\* The first stage not yet in a terminal state, 0 when there is none.
Current(st) == IF Open(st) = {} THEN 0 ELSE First(Open(st))

\* The positions of the group of s, or s alone.
GroupOf(pl, s) ==
    {i \in 1..Len(pl) : i = s \/ (pl[s].group # 0 /\ pl[i].group = pl[s].group)}

StopsFast(pl, g) == Cardinality(g) > 1 /\ \E s \in g : pl[s].failFast

\* Mutant of StepRows: the groups of a sequential build start side by side.
RowsOfGroup(b, s) == GroupOf(plan[b], s)

\* The stages that advance together with s.
StepRows(b, s) == IF mode[b] = "parallel" THEN GroupOf(plan[b], s) ELSE {s}

MemberFailed(pl, st, s) == st[s] \in {"failed", "timeout", "cancelled"} /\ ~pl[s].goOn

\* A member of g whose failure stops the others.
HasTrigger(pl, st, g) == \E s \in g : st[s] # "cancelled" /\ MemberFailed(pl, st, s)

EarlierFailure(st, s) == \E i \in 1..(s - 1) : st[i] \in {"failed", "timeout", "cancelled"}

RunningOn(r) == {b \in Build : status[b] = "running" /\ runner[b] = r}

\* Mutant of RunningFor: a build being cancelled no longer counts.
RunningUncancelled(v) == {b \in Build : status[b] = "running" /\ Service[b] = v /\ ~cancel[b]}

RunningFor(v) == {b \in Build : status[b] = "running" /\ Service[b] = v}

---------------------------------------------------------------------------
(* Closing stages, deciding and finishing a build                          *)

\* Mutant of SkipPending: what follows a failure is left to the engine's next look.
SkipNothing(st, spared) == st

SkipPending(st, spared) ==
    [s \in DOMAIN st |-> IF st[s] = "pending" /\ s \notin spared THEN "skipped" ELSE st[s]]

\* Mutants of FailStages: the other members of a parallel group are forgotten;
\* what is over is written over.
FailAll(st, as) == [s \in DOMAIN st |-> IF st[s] = "pending" THEN "skipped" ELSE as]

FailCurrent(st, as) ==
    [s \in DOMAIN st |-> IF s = Current(st) THEN as
                         ELSE IF st[s] = "pending" THEN "skipped" ELSE st[s]]

\* _fail_current_stage
FailStages(st, as) ==
    [s \in DOMAIN st |-> IF s = Current(st) \/ st[s] = "running" THEN as
                         ELSE IF st[s] = "pending" THEN "skipped" ELSE st[s]]

\* _stopped_by_fail_fast
StoppedByFailFast(pl, st, s) ==
    LET g == GroupOf(pl, s)
    IN  StopsFast(pl, g) /\ HasTrigger(pl, st, g \ {s})

\* Mutant of Outcome: a group stopped by fail-fast counts as cancelled.
OutcomeAsSeen(pl, st) ==
    LET seen == {st[s] : s \in DOMAIN st}
    IN  CASE "cancelled" \in seen -> "cancelled"
          [] "cancelled" \notin seen /\ "timeout" \in seen -> "timeout"
          [] seen \cap {"cancelled", "timeout"} = {} /\ "failed" \in seen -> "failed"
          [] OTHER -> "success"

\* What _finalize decides once every stage is over.
Outcome(pl, st) ==
    LET stopped == {s \in DOMAIN st : st[s] = "cancelled"}
        blame   == \A s \in stopped : StoppedByFailFast(pl, st, s)
        seen    == {st[s] : s \in IF blame THEN DOMAIN st \ stopped ELSE DOMAIN st}
    IN  CASE "cancelled" \in seen -> "cancelled"
          [] "cancelled" \notin seen /\ "timeout" \in seen -> "timeout"
          [] seen \cap {"cancelled", "timeout"} = {} /\ "failed" \in seen -> "failed"
          [] OTHER -> "success"

\* Mutant of Released: the slot is never given back.
SlotKept(r) == load

\* release_slot: floor 0, nothing for a build that has no runner.
Released(r) == IF r = NoRunner THEN load ELSE [load EXCEPT ![r] = IF @ > 0 THEN @ - 1 ELSE 0]

\* _finish_build.  A build that was over already gives its slot back again.
Finish(b, out) ==
    /\ status' = [status EXCEPT ![b] = out]
    /\ load' = Released(runner[b])
    /\ skewed' = IF status[b] \in Terminal /\ runner[b] # NoRunner
                 THEN skewed \cup {runner[b]} ELSE skewed

\* _finalize, on the stages as this transaction leaves them.
Finalize(b, st) ==
    IF Open(st) = {} THEN Finish(b, Outcome(plan[b], st))
                     ELSE UNCHANGED <<status, load, skewed>>

---------------------------------------------------------------------------
(* The agent adapter                                                       *)

\* Mutant of CancelTask: every cancelled task is left for the agent to find out.
CancelLater(t) == t

\* adapter.cancel: a task nobody claimed is over, a claimed one runs on.
CancelTask(t) == IF t = "queued" THEN "cancelled" ELSE t

\* What poll may say of a stage and what it leaves in the task.  A claimed
\* task may have been silent for too long.
Polled(t) ==
    CASE t = "queued"              -> {<<"running", t>>}
      [] t = "claimed"             -> {<<"running", t>>, <<"failed", "lapsed">>}
      [] t = "ok"                  -> {<<"success", t>>}
      [] t = "cancelled"           -> {<<"cancelled", t>>}
      [] t \in {"bad", "lapsed"}   -> {<<"failed", t>>}

TimedOut(t) == <<"timeout", CancelTask(t)>>

\* The tasks runner r is working on.
Claimed(r) == UNION {{<<b, s>> : s \in {i \in Stages(b) : task[b][i] = "claimed"}} :
                     b \in {x \in Build : runner[x] = r}}

\* claim_next.  The code takes the oldest queued task; here it is any of them.
Claim(b, s) ==
    /\ task[b][s] = "queued"
    /\ Cardinality(Claimed(runner[b])) < Capacity[runner[b]]
    /\ task' = [task EXCEPT ![b][s] = "claimed"]
    /\ UNCHANGED <<buildVars, stage, overdue, load, asking, engineVars, history, faults>>

\* report_result: accepted from whoever holds the claim token, even over a
\* verdict the engine has given in the meantime.
Report(b, s) ==
    /\ task[b][s] \in {"claimed", "lapsed"}
    /\ \E v \in {"ok", "bad"} : task' = [task EXCEPT ![b][s] = v]
    /\ UNCHANGED <<buildVars, stage, overdue, load, asking, engineVars, history, faults>>

---------------------------------------------------------------------------
(* The request handlers, and time                                          *)

Trigger(b) ==
    /\ status[b] = "none"
    /\ \A c \in Build : c < b => status[c] # "none"
    /\ \E pl \in Plans[b] :
          /\ plan' = [plan EXCEPT ![b] = pl]
          /\ stage' = [stage EXCEPT ![b] = [s \in 1..Len(pl) |-> "pending"]]
          /\ task' = [task EXCEPT ![b] = [s \in 1..Len(pl) |-> "none"]]
    /\ status' = [status EXCEPT ![b] = "queued"]
    /\ UNCHANGED <<cancel, runner, mode, overdue, load, asking, engineVars, history, faults>>

\* cancel_build reads the status...  (One request per build: a second only
\* sets the flag again.)
CancelRead(b) ==
    /\ status[b] \in {"queued", "running"}
    /\ asking[b] = "no" /\ ~cancel[b]
    /\ asking' = [asking EXCEPT ![b] = status[b]]
    /\ UNCHANGED <<buildVars, stageVars, overdue, load, engineVars, history, faults>>

\* ...and commits.  A build read as queued is finished here, whatever it is
\* by now; only the queue claim's row lock makes the commit wait.
CancelCommit(b) ==
    /\ asking[b] # "no"
    /\ b \notin locked
    /\ cancel' = [cancel EXCEPT ![b] = TRUE]
    /\ asking' = [asking EXCEPT ![b] = "no"]
    /\ IF asking[b] = "queued"
       THEN /\ status' = [status EXCEPT ![b] = "cancelled"]
            /\ raced' = IF status[b] # "queued" THEN raced \cup {b} ELSE raced
            /\ skewed' = IF status[b] = "running" THEN skewed \cup {runner[b]} ELSE skewed
       ELSE UNCHANGED <<status, raced, skewed>>
    /\ UNCHANGED <<plan, runner, mode, stageVars, overdue, load, engineVars, loose, faults>>

\* A running build passes its deadline, or nothing has been heard of it for
\* CI_STALE_BUILD_MINUTES.
TimePasses(b) ==
    /\ status[b] = "running"
    /\ b \notin overdue
    /\ overdue' = overdue \cup {b}
    /\ UNCHANGED <<buildVars, stageVars, load, asking, engineVars, history, faults>>

---------------------------------------------------------------------------
(* The pass                                                                *)

\* Where the engine goes when it is done with the current build.
Leave ==
    /\ cur' = NoBuild /\ at' = "idle" /\ rows' = {}
    /\ phase' = IF phase = "nudge" THEN "idle" ELSE phase

Goto(x, S) == at' = x /\ rows' = S /\ UNCHANGED <<cur, phase>>

Active == {b \in Build : status[b] \in {"queued", "running"}}

\* Mutants of Stale: builds that are over are reaped again; none is ever found.
StaleOfAnyStatus == overdue
NeverStale == {}

\* The running builds that are past their deadline or have gone silent.
Stale == {b \in overdue : status[b] = "running"}

\* recompute_loads, and the reaper's list, each only when its interval is over.
StartPass(book, reap) ==
    /\ phase = "idle" /\ Active # {}
    /\ phase' = "reap"
    /\ todo' = IF reap THEN Stale ELSE {}
    /\ load' = IF book THEN [r \in Runner |-> Cardinality(RunningOn(r))] ELSE load
    /\ skewed' = IF book THEN {} ELSE skewed
    /\ UNCHANGED <<buildVars, stageVars, overdue, asking, cur, at, rows, locked,
                   raced, loose, faults>>

\* claim_next: the builds their service has room for, counting those queued
\* ahead of them.
Startable ==
    LET queued == {b \in Build : status[b] = "queued"}
        place(b) == Cardinality({c \in queued : Service[c] = Service[b] /\ c <= b})
    IN  {b \in queued : place(b) + Cardinality(RunningFor(Service[b]))
                           <= ServiceCap[Service[b]]}

NextPhase ==
    /\ cur = NoBuild /\ todo = {}
    /\ \/ /\ phase = "reap" /\ phase' = "cancel"
          /\ todo' = {b \in Active : cancel[b]}
          /\ UNCHANGED locked
       \/ /\ phase = "cancel" /\ phase' = "advance"
          /\ todo' = {b \in Build : status[b] = "running"}
          /\ UNCHANGED locked
       \/ /\ phase = "advance" /\ phase' = "dispatch"
          /\ todo' = Startable
          /\ locked' = Startable
       \/ /\ phase = "dispatch" /\ phase' = "idle"
          /\ todo' = {}
          /\ locked' = {}
    /\ UNCHANGED <<buildVars, stageVars, overdue, load, asking, cur, at, rows, history, faults>>

\* _reap_stale_builds: the runner is not told.
Reap(b) ==
    /\ phase = "reap" /\ b \in todo
    /\ todo' = todo \ {b}
    /\ stage' = [stage EXCEPT ![b] = FailStages(@, "timeout")]
    /\ Finish(b, "timeout")
    /\ UNCHANGED <<plan, cancel, runner, mode, task, overdue, asking, phase, cur, at,
                   rows, locked, raced, loose, faults>>

\* _process_cancellations.  adapter.cancel commits each task by itself, and
\* with it the stages closed so far...
CancelStage(b) ==
    /\ phase = "cancel"
    /\ \/ cur = NoBuild /\ b \in todo
       \/ cur = b
    /\ \E s \in Stages(b) \ rows :
          /\ stage[b][s] = "running" /\ task[b][s] \in {"queued", "claimed"}
          /\ \A i \in Stages(b) \ rows : i < s => stage[b][i] # "running"
          /\ task' = [task EXCEPT ![b][s] = CancelTask(@)]
          /\ stage' = [stage EXCEPT ![b] =
                [i \in Stages(b) |-> IF i \in rows THEN "cancelled" ELSE @[i]]]
          /\ rows' = {s}
    /\ cur' = b /\ at' = "cancel"
    /\ UNCHANGED <<buildVars, overdue, load, asking, phase, todo, locked, history, faults>>

\* ...and the rest of the build is closed in one commit.
ProcessCancel(b) ==
    /\ phase = "cancel" /\ b \in todo /\ cur \in {NoBuild, b}
    /\ \A s \in Stages(b) \ rows :
          stage[b][s] = "running" => task[b][s] \notin {"queued", "claimed"}
    /\ todo' = todo \ {b}
    /\ stage' = [stage EXCEPT ![b] =
          [s \in Stages(b) |-> CASE @[s] = "running" -> "cancelled"
                                 [] @[s] = "pending" -> "skipped"
                                 [] OTHER -> @[s]]]
    /\ Finish(b, "cancelled")
    /\ Leave
    /\ UNCHANGED <<plan, cancel, runner, mode, task, overdue, asking, locked, raced, loose, faults>>

---------------------------------------------------------------------------
(* _advance_one                                                            *)

BeginAdvance(b) ==
    /\ phase = "advance" /\ cur = NoBuild /\ b \in todo
    /\ todo' = todo \ {b}
    /\ cur' = b /\ at' = "look"
    /\ UNCHANGED <<buildVars, stageVars, overdue, load, asking, phase, rows, locked, history, faults>>

\* advance_build_now: an agent's result, or a vote on an approval, moves its
\* build on between two passes.
Nudge(b) ==
    /\ phase = "idle" /\ status[b] = "running"
    /\ \E s \in Stages(b) : \/ task[b][s] \in {"ok", "bad"}
                             \/ (plan[b][s].kind = "server" /\ stage[b][s] = "running")
    /\ phase' = "nudge" /\ cur' = b /\ at' = "look"
    /\ UNCHANGED <<buildVars, stageVars, overdue, load, asking, todo, rows, locked, history, faults>>

\* Every stage is over.
Decide(b) ==
    /\ cur = b /\ at \in {"look", "follow"} /\ Current(stage[b]) = 0
    /\ Finalize(b, stage[b])
    /\ Leave
    /\ UNCHANGED <<plan, cancel, runner, mode, stageVars, overdue, asking, todo, locked,
                   raced, loose, faults>>

\* The next step starts, at the head of a pass or right behind the last one.
BeginStep(b) ==
    LET s == Current(stage[b]) IN
    /\ cur = b /\ at \in {"look", "follow"} /\ s # 0
    /\ \/ /\ stage[b][s] = "pending"
          /\ at = "look" \/ status[b] = "running"
          /\ Goto("walk", StepRows(b, s))
       \/ /\ at = "look"
          /\ stage[b][s] = "running" /\ plan[b][s].kind # "server"
          /\ \E i \in StepRows(b, s) : stage[b][i] = "pending"
          /\ Goto("join", StepRows(b, s))
       \/ /\ at = "follow"
          /\ stage[b][s] = "running" \/ status[b] # "running"
          /\ Leave
    /\ UNCHANGED <<buildVars, stageVars, overdue, load, asking, todo, locked, history, faults>>

---------------------------------------------------------------------------
(* Starting the stages of a step                                           *)

\* _siblings_still_to_run
Spared(b, s) ==
    LET g == GroupOf(plan[b], s)
    IN  IF Cardinality(g) > 1 /\ ~StopsFast(plan[b], g) THEN {i \in g : i > s} ELSE {}

\* A step is over with a failure, and what comes after it still waits to start.
Unskipped(b, st) == \E s \in Stages(b) :
    /\ MemberFailed(plan[b], st, s) /\ plan[b][s].kind # "server"
    /\ \A i \in StepRows(b, s) : st[i] \in StageOver
    /\ \E j \in Stages(b) \ Spared(b, s) : j > s /\ st[j] = "pending"

Starting == at \in {"walk", "join", "launch"}

\* _start_stage, one row and one commit at a time.  An agent stage may fail to
\* start (no secret, no adapter), and then the build is decided if nothing is
\* left of it.
StartRow(b) ==
    LET waiting == {i \in rows : stage[b][i] = "pending"}
        s    == First(waiting)
        def  == plan[b][s]
        stopped == StopsFast(plan[b], rows) /\ HasTrigger(plan[b], stage[b], rows)
        into(x) == [stage[b] EXCEPT ![s] = x]
        Loosened(st) == IF at # "join" /\ Unskipped(b, st) THEN loose \cup {b} ELSE loose
    IN
    /\ cur = b /\ Starting
    /\ waiting # {} /\ status[b] = "running"
    /\ \/ /\ stopped \/ def.kind = "unsupported"
          /\ stage' = [stage EXCEPT ![b] = into("skipped")]
          /\ loose' = Loosened(into("skipped"))
          /\ UNCHANGED <<task, status, load, skewed, faults>>
       \/ /\ ~stopped /\ def.kind = "server"
          /\ \E x \in IF EarlierFailure(stage[b], s) THEN {"skipped"}
                        ELSE {"running", "failed", "skipped"} :
                stage' = [stage EXCEPT ![b] = into(x)]
          /\ UNCHANGED <<task, status, load, skewed, loose, faults>>
       \/ /\ ~stopped /\ def.kind = "agent"
          /\ stage' = [stage EXCEPT ![b] = into("running")]
          /\ task' = [task EXCEPT ![b][s] = "queued"]
          /\ UNCHANGED <<status, load, skewed, loose, faults>>
       \/ /\ ~stopped /\ def.kind = "agent"
          /\ Fault
          /\ stage' = [stage EXCEPT ![b] = into("failed")]
          /\ Finalize(b, into("failed"))
          /\ loose' = Loosened(into("failed"))
          /\ UNCHANGED task
    /\ UNCHANGED <<plan, cancel, runner, mode, overdue, asking, engineVars, raced>>

\* The step has been started: walk on past stages that were over at once.
RowsStarted(b) ==
    LET s == Current(stage[b]) IN
    /\ cur = b /\ Starting
    /\ status[b] # "running" \/ \A i \in rows : stage[b][i] # "pending"
    /\ \/ /\ at = "walk" /\ s = 0
          /\ Finalize(b, stage[b])
          /\ Leave
       \/ /\ at = "walk" /\ s # 0
          /\ IF s \notin rows /\ stage[b][s] = "pending"
             THEN Goto("walk", StepRows(b, s))
             ELSE Leave
          /\ UNCHANGED <<status, load, skewed>>
       \/ /\ at = "join"
          /\ IF \E i \in rows : stage[b][i] = "running" THEN Leave ELSE Goto("poll", rows)
          /\ UNCHANGED <<status, load, skewed>>
       \/ /\ at = "launch"
          /\ IF status[b] = "running" /\ (s = 0 \/ stage[b][s] = "pending")
             THEN Goto("look", {}) ELSE Leave
          /\ UNCHANGED <<status, load, skewed>>
    /\ UNCHANGED <<plan, cancel, runner, mode, stageVars, overdue, asking, todo, locked,
                   raced, loose, faults>>

---------------------------------------------------------------------------
(* Polling what runs                                                       *)

\* A stage on its own: an agent's, or one the server executes.  (A build whose
\* runner was deleted under it has nothing to poll: that branch is left out, as no
\* runner is removed here.)
PollStage(b) ==
    LET s == Current(stage[b]) IN
    /\ cur = b /\ at = "look" /\ s # 0
    /\ stage[b][s] = "running" /\ StepRows(b, s) = {s}
    /\ \E res \in IF plan[b][s].kind = "server"
                  THEN {"running", "success", "failed", "timeout"} \X {task[b][s]}
                  ELSE Polled(task[b][s]) \cup {TimedOut(task[b][s])} :
         LET ended == [stage[b] EXCEPT ![s] = res[1]]
             fails == plan[b][s].kind # "server" /\ MemberFailed(plan[b], ended, s)
         IN  /\ task' = [task EXCEPT ![b][s] = res[2]]
             /\ stage' = [stage EXCEPT ![b] = IF fails THEN SkipPending(ended, Spared(b, s)) ELSE ended]
             /\ IF res[1] = "running" THEN Leave ELSE Goto("follow", {})
    /\ UNCHANGED <<buildVars, overdue, load, asking, todo, locked, history, faults>>

\* What a member may be found to be: its timeout counts from its claim.
MemberPoll(t) == Polled(t) \cup IF t \in {"queued", "cancelled"} THEN {} ELSE {TimedOut(t)}

\* _advance_group: every running member is polled, and those that ended are
\* closed in one commit.
PollGroup(b) ==
    LET s == Current(stage[b])
        g == IF at = "poll" THEN rows ELSE StepRows(b, s)
        running == {i \in g : stage[b][i] = "running"}
        seen == UNION {MemberPoll(task[b][i]) : i \in running}
    IN
    /\ cur = b
    /\ \/ at = "poll"
       \/ /\ at = "look" /\ s # 0
          /\ stage[b][s] = "running" /\ Cardinality(g) > 1
          /\ \A i \in g : stage[b][i] # "pending"
    /\ \E res \in [running -> seen] :
          /\ \A i \in running : res[i] \in MemberPoll(task[b][i])
          /\ stage' = [stage EXCEPT ![b] = [i \in Stages(b) |->
                          IF i \in running THEN res[i][1] ELSE @[i]]]
          /\ task' = [task EXCEPT ![b] = [i \in Stages(b) |->
                          IF i \in running THEN res[i][2] ELSE @[i]]]
    /\ Goto(IF StopsFast(plan[b], g) THEN "stop" ELSE "close", g)
    /\ UNCHANGED <<buildVars, overdue, load, asking, todo, locked, history, faults>>

\* _stop_group_after_failure
StopGroup(b) ==
    /\ cur = b /\ at = "stop"
    /\ IF HasTrigger(plan[b], stage[b], rows)
       THEN /\ stage' = [stage EXCEPT ![b] = [i \in Stages(b) |->
                  CASE i \in rows /\ @[i] = "pending" -> "skipped"
                    [] i \in rows /\ @[i] = "running" -> "cancelled"
                    [] OTHER -> @[i]]]
            /\ task' = [task EXCEPT ![b] = [i \in Stages(b) |->
                  IF i \in rows /\ stage[b][i] = "running" THEN CancelTask(@[i]) ELSE @[i]]]
       ELSE UNCHANGED stageVars
    /\ Goto("close", rows)
    /\ UNCHANGED <<buildVars, overdue, load, asking, todo, locked, history, faults>>

\* The group is over once every member is, and a failed one ends the rest.
CloseGroup(b) ==
    /\ cur = b /\ at = "close"
    /\ IF \E i \in rows : stage[b][i] \in {"pending", "running"}
       THEN Leave /\ UNCHANGED stage
       ELSE /\ Goto("follow", {})
            /\ stage' = IF \E i \in rows : MemberFailed(plan[b], stage[b], i)
                        THEN [stage EXCEPT ![b] = SkipPending(@, {})]
                        ELSE stage
    /\ UNCHANGED <<buildVars, task, overdue, load, asking, todo, locked, history, faults>>

---------------------------------------------------------------------------
(* _dispatch_queued                                                        *)

\* The status is read again, oldest build first.
TakeClaimed ==
    /\ phase = "dispatch" /\ cur = NoBuild /\ todo # {}
    /\ LET b == First(todo) IN
         /\ todo' = todo \ {b}
         /\ IF status[b] = "queued" THEN cur' = b /\ at' = "claim"
                                    ELSE UNCHANGED <<cur, at>>
    /\ UNCHANGED <<buildVars, stageVars, overdue, load, asking, phase, rows, locked, history, faults>>

\* select_runner: the least loaded of the runners with room.
Free == {r \in Runner : load[r] < Capacity[r]}
Selected == {r \in Free : \A x \in Free : load[r] * Capacity[x] <= load[x] * Capacity[r]}

\* The build is put back, or gets its runner and its slot.  Either commit ends
\* the claim, and with it every row lock.
Dispatch(b) ==
    LET room == Free # {} /\ Cardinality(RunningFor(Service[b])) < ServiceCap[Service[b]] IN
    /\ cur = b /\ at = "claim"
    /\ locked' = {}
    /\ \/ /\ ~room
          /\ Leave
          /\ UNCHANGED <<status, runner, mode, load, raced>>
       \/ /\ room
          /\ \E r \in Selected, m \in Modes :
               /\ runner' = [runner EXCEPT ![b] = r]
               /\ load' = [load EXCEPT ![r] = @ + 1]
               /\ mode' = [mode EXCEPT ![b] = m]
               /\ Goto("launch", IF m = "parallel" THEN GroupOf(plan[b], 1) ELSE {1})
          /\ status' = [status EXCEPT ![b] = "running"]
          /\ raced' = IF status[b] # "queued" THEN raced \cup {b} ELSE raced
    /\ UNCHANGED <<plan, cancel, stageVars, overdue, asking, todo, skewed, loose, faults>>

---------------------------------------------------------------------------
(* What goes wrong                                                         *)

\* Advancing a build raised: the pass fails that build.
AdvanceRaises(b) ==
    /\ phase = "advance" /\ cur = b
    /\ Fault
    /\ stage' = [stage EXCEPT ![b] = FailStages(@, "failed")]
    /\ Finish(b, "failed")
    /\ Leave
    /\ UNCHANGED <<plan, cancel, runner, mode, task, overdue, asking, todo, locked, raced, loose>>

\* Any other step raised: it is rolled back and left to the next pass.
StepRaises ==
    /\ phase \in {"reap", "cancel", "dispatch", "nudge"}
    /\ Fault
    /\ Leave
    /\ todo' = {} /\ locked' = {}
    /\ loose' = loose \cup {b \in Build : Unskipped(b, stage[b])}
    /\ UNCHANGED <<buildVars, stageVars, overdue, load, asking, raced, skewed>>

\* The backend stops: what was not committed is gone, with the requests it
\* was serving.
Crash ==
    /\ phase # "idle"
    /\ Fault
    /\ phase' = "idle" /\ cur' = NoBuild /\ at' = "idle"
    /\ rows' = {} /\ todo' = {} /\ locked' = {}
    /\ asking' = [b \in Build |-> "no"]
    /\ loose' = loose \cup {b \in Build : Unskipped(b, stage[b])}
    /\ UNCHANGED <<buildVars, stageVars, overdue, load, raced, skewed>>

---------------------------------------------------------------------------
Advance(b) ==
    \/ BeginAdvance(b)
    \/ Decide(b)
    \/ BeginStep(b)
    \/ StartRow(b)
    \/ RowsStarted(b)
    \/ PollStage(b)
    \/ PollGroup(b)
    \/ StopGroup(b)
    \/ CloseGroup(b)
    \/ Dispatch(b)

Engine ==
    \/ NextPhase
    \/ TakeClaimed
    \/ \E b \in Build : Reap(b) \/ CancelStage(b) \/ ProcessCancel(b) \/ Advance(b)

Handlers(b) == Trigger(b) \/ CancelRead(b) \/ CancelCommit(b) \/ TimePasses(b)

Agent(b) == \E s \in Stages(b) : Claim(b, s) \/ Report(b, s)

Next ==
    \/ Engine
    \/ \E book, reap \in BOOLEAN : StartPass(book, reap)
    \/ \E b \in Build : Handlers(b) \/ Agent(b) \/ Nudge(b) \/ AdvanceRaises(b)
    \/ StepRaises
    \/ Crash

Spec == Init /\ [][Next]_vars

\* The engine keeps passing, its two intervals come round, and the clock runs.
\* Nothing is asked of the agents: they may never answer.
FairSpec ==
    /\ Spec
    /\ WF_vars(Engine)
    /\ WF_vars(\E book, reap \in BOOLEAN : StartPass(book, reap))
    /\ SF_vars(\E reap \in BOOLEAN : StartPass(TRUE, reap))
    /\ SF_vars(\E book \in BOOLEAN : StartPass(book, TRUE))
    /\ \A b \in Build : WF_vars(TimePasses(b))

---------------------------------------------------------------------------
(* Properties                                                              *)

\* A build that ends leaves no stage behind it still saying "running"
\* (_fail_current_stage), unless a cancel request wrote over it unseen.
NothingLeftRunning == \A b \in Build \ raced :
    status[b] \in Terminal => \A s \in Stages(b) : stage[b][s] # "running"

\* The same with no exception, as _fail_current_stage's comment has it: "a
\* build that ends must not leave any stage behind it still saying running".
NoStageOutlivesBuild == \A b \in Build :
    status[b] \in Terminal => \A s \in Stages(b) : stage[b][s] # "running"

\* current_load counts the builds running on a runner at every commit, except
\* on runners that lost count (a slot given back twice, a build cancelled
\* under its dispatch), until recompute_loads has run.
SlotsAccounted == \A r \in Runner \ skewed : load[r] = Cardinality(RunningOn(r))

\* Per-service concurrency holds at every commit, though requests cancel builds
\* under the dispatcher and a build can come back from a cancel.
ServiceCapRespected == \A b \in Build :
    Cardinality({c \in Build : status[c] = "running" /\ Service[c] = Service[b]})
        <= ServiceCap[Service[b]]

\* A step is a barrier: stages run side by side only as members of one group
\* of a build in parallel mode, and nothing runs while an earlier step is open.
StepsAreBarriers == \A b \in Build : \A s \in Stages(b) :
    stage[b][s] = "running" =>
        \A i \in 1..(s - 1) : \/ stage[b][i] \in StageOver
                             \/ (mode[b] = "parallel" /\ i \in GroupOf(plan[b], s))

\* No build reports green with a red stage in it, and none is called cancelled
\* unless somebody asked for that: a group stopped by fail-fast has failed.
OutcomeIsHonest == \A b \in Build :
    /\ status[b] = "success" => \A s \in Stages(b) : stage[b][s] \in {"success", "skipped"}
    /\ status[b] = "cancelled" => cancel[b]

\* The stage rows and the agents' tasks agree across every commit, crash and
\* restart: a stage that says it runs has its task (a restart neither loses nor
\* repeats it), and a stage that is over has left none for an agent to pick up,
\* unless the build was timed out or failed as a whole: those two paths do not
\* tell the runner.
TasksMatchStages == \A b \in Build \ raced : \A s \in Stages(b) :
    plan[b][s].kind = "agent" =>
        /\ stage[b][s] = "running" => task[b][s] # "none"
        /\ task[b][s] = "queued" => \/ stage[b][s] = "running"
                                  \/ status[b] \in {"timeout", "failed"}

\* Once a step failed without continueOnFailure nothing after it starts.  The
\* builds left aside: their failed stage failed in starting, or the engine
\* stopped between closing a group and skipping what follows.
NothingStartsAfterFailure == [][\A b \in Build \ loose' : \A s \in Stages(b) :
    stage[b][s] = "pending" /\ stage'[b][s] = "running" =>
        \A i \in 1..(s - 1) : MemberFailed(plan[b], stage[b], i) => s \in Spared(b, i) \cup StepRows(b, i)]_vars

\* The same for every build: "on a per-stage runner nothing after it may run
\* once a member that does not continue on failure has failed".
FailureEndsBuild == [][\A b \in Build : \A s \in Stages(b) :
    stage[b][s] = "pending" /\ stage'[b][s] = "running" =>
        \A i \in 1..(s - 1) : MemberFailed(plan[b], stage[b], i) => s \in Spared(b, i) \cup StepRows(b, i)]_vars

\* An outcome is final once the engine has left the build: no later pass,
\* reaper, cancellation or nudge changes it.  (While it is still at it, a build
\* decided inside a failing start is decided again by the caller, and an
\* exception there writes "failed" over the outcome.)
OutcomeIsFinal == [][\A b \in Build \ raced' :
    status[b] \in Terminal /\ b # cur => status'[b] = status[b]]_vars

\* The engine keeps the contract on the stages it hands to agents: through
\* polls, groups, cancels, crashes and restarts a stage is offered once, never
\* claimed twice, green only on an agent's word, and its verdict stands.
Slot == UNION {{b} \X UNION {1..Len(pl) : pl \in Plans[b]} : b \in Build}
Handed(x) == x[2] \in Stages(x[1]) /\ plan[x[1]][x[2]].kind = "agent"
TaskOf(x) == IF Handed(x) THEN task[x[1]][x[2]] ELSE "none"
Taken == {"claimed", "lapsed", "ok", "bad"}
VerdictOf(x) ==
    IF ~Handed(x) \/ stage[x[1]][x[2]] \notin StageOver THEN "none"
    ELSE IF stage[x[1]][x[2]] = "success" THEN "green" ELSE "other"

Contract == INSTANCE StageContract WITH
    Stage <- Slot,
    offered <- {x \in Slot : TaskOf(x) # "none"},
    takes <- [x \in Slot |-> IF TaskOf(x) \in Taken THEN 1 ELSE 0],
    earned <- {x \in Slot : TaskOf(x) = "ok"},
    verdict <- [x \in Slot |-> VerdictOf(x)]

KeepsContract == Contract!Spec

\* The engine keeps the promise of its queue: a build is let in when its service
\* has room, ends once, and never runs when it was withdrawn, through requests
\* that cancel it under the dispatcher, passes cut short, and builds decided
\* twice by a failing start.  A build counts as running while the engine is
\* still at it, whatever it was called meanwhile.
Place(b) == IF b = cur /\ at # "claim" /\ b \notin raced /\ status[b] \in Terminal
            THEN "running" ELSE status[b]

Where == [b \in Build |-> Place(b)]

Queue == INSTANCE BuildQueue WITH place <- Where, excused <- raced

KeepsTheQueue == Queue!Spec

\* Every build that was queued ends, though agents never answer and the engine
\* crashes: the reaper takes what is left, and the slots come back.
EveryBuildEnds == \A b \in Build : status[b] = "queued" ~> status[b] \in Terminal
============================================================================
