------------------------- MODULE CiEngine_proofs --------------------------
(***************************************************************************)
(* The inductive invariant of CiEngine.tla: types, where the engine may be,*)
(* and how each step may move the rows of a build.  It holds for any number*)
(* of builds, runners, services and pipelines, any bound on the faults, and*)
(* any interleaving of requests, agents and crashes.                       *)
(***************************************************************************)
EXTENDS CiEngine, FiniteSetTheorems, TLAPS

NotYet == {"none", "queued"}
StageState == StageOver \cup {"pending", "running"}
Status == Terminal \cup {"none", "queued", "running"}
Phases == {"idle", "reap", "cancel", "advance", "dispatch", "nudge"}
Places == {"idle", "look", "walk", "join", "launch", "poll", "stop", "close", "follow", "claim",
           "cancel"}

\* The build rows, one snapshot among those its trigger may take.
BuildTypes ==
    /\ plan = [b \in Build |-> plan[b]]
    /\ \A b \in Build : plan[b] \in Plans[b] \cup {<<>>}
    /\ cancel \in [Build -> BOOLEAN]
    /\ runner \in [Build -> Runner \cup {NoRunner}]
    /\ mode \in [Build -> Modes \cup {"none"}]

\* The status column, which most steps leave alone, on its own.
StatusTypes == status \in [Build -> Status]

\* The stage rows and the tasks.
RowTypes ==
    /\ stage = [b \in Build |-> stage[b]] /\ task = [b \in Build |-> task[b]]
    /\ \A b \in Build : /\ stage[b] \in [Stages(b) -> StageState]
                        /\ task[b] \in [Stages(b) -> TaskState]

\* The slot counters.
CountTypes == load \in [Runner -> Nat] /\ skewed \in SUBSET Runner

\* The requests, the lists of the pass and the histories.
RestTypes ==
    /\ overdue \in SUBSET Build
    /\ asking \in [Build -> {"no", "queued", "running"}]
    /\ todo \in SUBSET Build /\ locked \in SUBSET Build
    /\ raced \in SUBSET Build /\ loose \in SUBSET Build
    /\ faults \in 0..MaxFaults

\* The variables of the engine agree: it is somewhere only in a build, in rows of
\* that build, and every build it has in hand or on its list was triggered.
EngineInv ==
    /\ phase \in Phases /\ at \in Places
    /\ cur \in Build \cup {NoBuild}
    /\ cur = NoBuild <=> at = "idle"
    /\ cur = NoBuild => rows = {}
    /\ phase \in {"idle", "reap"} => cur = NoBuild
    /\ at = "cancel" => phase = "cancel"
    /\ phase = "cancel" => at \in {"idle", "cancel"}
    /\ cur \in Build => rows \subseteq Stages(cur) /\ status[cur] # "none"
    /\ \A b \in todo : status[b] # "none"

\* A triggered build has a pipeline, and only such a build is being cancelled.
SnapshotInv == \A b \in Build :
    /\ status[b] # "none" => plan[b] \in Plans[b]
    /\ asking[b] # "no" => status[b] # "none"

\* A build has a runner once it was dispatched: what releasing its slot needs.
RunnerInv == \A b \in Build :
    /\ status[b] \in NotYet => runner[b] = NoRunner
    /\ status[b] = "running" => runner[b] \in Runner

\* The dispatcher holds no running build, so counting it again is right.
ClaimInv == at = "claim" => status[cur] # "running"

\* Nothing of a build starts before its dispatch has committed, even when it was
\* cancelled in between.
FreshInv == \A b \in Build :
    status[b] \in NotYet \/ (at = "claim" /\ cur = b) =>
        \A s \in Stages(b) : stage[b][s] = "pending" /\ task[b][s] = "none"

\* A stage runs only where something runs it.
SupportedInv == \A b \in Build : \A s \in Stages(b) : stage[b][s] = "running" =>
    /\ plan[b][s].kind # "unsupported"
    /\ plan[b][s].kind = "agent" => task[b][s] # "none"

\* Between two commits of a cancellation its stages wait to be closed.
CancelInv == at = "cancel" => \A i \in rows : stage[cur][i] = "running"

\* A group is joined and polled without server stages, which have no task.
KindInv == at \in {"join", "poll"} => \A i \in rows : plan[cur][i].kind # "server"

---------------------------------------------------------------------------
\* What the assumption on the constants gives, in the form the proofs cite.
LEMMA Constants ==
    /\ Build \subseteq Nat /\ IsFiniteSet(Build) /\ NoBuild \notin Build
    /\ NoRunner \notin Runner /\ IsFiniteSet(Runner)
    /\ Modes \subseteq {"parallel", "sequential"}
    /\ MaxFaults \in Nat
BY EngineAssumption

\* A snapshot is a sequence of stages whose groups are valid together.
LEMMA PlanFacts ==
    ASSUME BuildTypes, NEW b \in Build
    PROVE  /\ Len(plan[b]) \in Nat
           /\ Stages(b) \subseteq Nat \ {0}
           /\ \A s \in Stages(b) : plan[b][s] \in StageDef
           /\ Valid(plan[b])
<1>1. plan[b] \in Seq(StageDef) /\ Valid(plan[b])
  <2>1. CASE plan[b] = <<>>
    BY <2>1 DEF Valid
  <2>2. CASE plan[b] \in Plans[b]
    BY <2>2, EngineAssumption
  <2> QED
    BY <2>1, <2>2 DEF BuildTypes
<1> QED
  BY <1>1 DEF Stages

\* A nonempty set of numbers has a first one: First finds it.
LEMMA FirstIn ==
    ASSUME NEW S \in SUBSET Nat, S # {}
    PROVE  First(S) \in S /\ \A x \in S : First(S) <= x
<1>0. PICK n \in S : TRUE
  OBVIOUS
<1> DEFINE T == {0..x : x \in {y \in S : y <= n}}
<1>1. IsWellFoundedOn(StrictSubsetOrdering(0..n), SUBSET (0..n))
  <2>1. IsFiniteSet(0..n)
    BY FS_Interval
  <2>2. FiniteSubsetsOf(0..n) = SUBSET (0..n)
    BY <2>1, FS_FiniteSubsetsOfFinite
  <2> QED
    BY <2>2, FS_StrictSubsetOrderingWellFounded
<1>2. T \subseteq SUBSET (0..n) /\ T # {}
  <2>1. \A x \in {y \in S : y <= n} : 0..x \subseteq 0..n
    OBVIOUS
  <2>2. 0..n \in T
    OBVIOUS
  <2> QED
    BY <2>1, <2>2, Zenon
<1>3. PICK I \in T : \A J \in T : <<J, I>> \notin StrictSubsetOrdering(0..n)
  BY <1>1, <1>2, WFMin, Zenon
<1>4. PICK m \in S : m <= n /\ I = 0..m
  BY <1>3
<1>5. ASSUME NEW x \in S PROVE m <= x
  <2> SUFFICES ASSUME x < m PROVE FALSE
    OBVIOUS
  <2>1. 0..x \in T /\ 0..x \in SUBSET (0..n) /\ I \in SUBSET (0..n)
    BY <1>2, <1>3, <1>4
  <2>2. 0..x \subseteq I /\ 0..x # I
    BY <1>4, <1>5
  <2> QED
    BY <1>3, <2>1, <2>2 DEF StrictSubsetOrdering
<1> QED
  BY <1>5 DEF First

\* The current stage is open and every stage before it is over; without one
\* the whole build is over.
LEMMA CurrentFacts ==
    ASSUME BuildTypes, RowTypes, NEW b \in Build
    PROVE  /\ Current(stage[b]) \in Stages(b) \cup {0}
           /\ Current(stage[b]) = 0 => \A s \in Stages(b) : stage[b][s] \in StageOver
           /\ Current(stage[b]) # 0 =>
                 /\ stage[b][Current(stage[b])] \in {"pending", "running"}
                 /\ \A i \in Stages(b) : i < Current(stage[b]) => stage[b][i] \in StageOver
<1> DEFINE st == stage[b]
<1>1. DOMAIN st = Stages(b) /\ Stages(b) \subseteq Nat \ {0} /\ Open(st) \subseteq Stages(b)
  BY PlanFacts DEF RowTypes, Open
<1>2. \A s \in Stages(b) : s \notin Open(st) => st[s] \in StageOver
  BY <1>1 DEF RowTypes, Open, StageState
<1>3. CASE Open(st) = {}
  BY <1>2, <1>3 DEF Current
<1>4. CASE Open(st) # {}
  <2>1. Current(st) = First(Open(st)) /\ First(Open(st)) \in Open(st)
         /\ \A x \in Open(st) : First(Open(st)) <= x
    BY <1>1, <1>4, FirstIn DEF Current
  <2> QED
    BY <1>1, <1>2, <2>1 DEF Open
<1> QED
  BY <1>3, <1>4

\* Whatever the stages say, _finalize decides for a terminal status.
LEMMA OutcomeIn == \A pl, st : Outcome(pl, st) \in Terminal
BY DEF Outcome, Terminal

\* _finish_build writes the status of one build and keeps the slot counters
\* numbers.
LEMMA FinishFacts ==
    ASSUME StatusTypes, CountTypes, BuildTypes, NEW b \in Build, NEW out \in Terminal, Finish(b, out)
    PROVE  /\ StatusTypes' /\ CountTypes'
           /\ status'[b] = out /\ \A c \in Build \ {b} : status'[c] = status[c]
BY DEF StatusTypes, CountTypes, BuildTypes, Finish, Released, Status

\* _finalize finishes one build or leaves every status alone.
LEMMA FinalizeFacts ==
    ASSUME StatusTypes, CountTypes, BuildTypes, NEW b \in Build, NEW st, Finalize(b, st)
    PROVE  /\ StatusTypes' /\ CountTypes'
           /\ status'[b] # status[b] => status'[b] \in Terminal
           /\ \A c \in Build \ {b} : status'[c] = status[c]
<1>1. CASE Open(st) = {}
  BY <1>1, OutcomeIn, FinishFacts DEF Finalize
<1>2. CASE Open(st) # {}
  BY <1>2 DEF Finalize, StatusTypes, CountTypes
<1> QED
  BY <1>1, <1>2

---------------------------------------------------------------------------
\* The rows of one build, before and after: what is over stays so, nothing
\* waits again, no task is forgotten, and what starts was waiting in a step.
RowMoves(b, st, tk) ==
    /\ st \in [Stages(b) -> StageState] /\ tk \in [Stages(b) -> TaskState]
    /\ \A s \in Stages(b) :
          /\ stage[b][s] \in StageOver => st[s] = stage[b][s]
          /\ st[s] = "pending" => stage[b][s] = "pending"
          /\ tk[s] = "none" => task[b][s] = "none"
          /\ st[s] = "running" /\ stage[b][s] # "running" =>
                /\ status[b] = "running" /\ at \in {"walk", "join", "launch"} /\ cur = b
                /\ s \in rows
                /\ plan[b][s].kind # "unsupported"
                /\ plan[b][s].kind = "agent" => tk[s] # "none"

\* A step that moves the rows of b and of no other build.
Moves(b) ==
    /\ plan' = plan
    /\ RowMoves(b, stage'[b], task'[b])
    /\ stage' = [c \in Build |-> IF c = b THEN stage'[b] ELSE stage[c]]
    /\ task' = [c \in Build |-> IF c = b THEN task'[b] ELSE task[c]]

\* A handler that writes the rows of one build, with or without its tasks,
\* moves that build.
LEMMA MovesBy ==
    ASSUME RowTypes, NEW b \in Build, NEW st, NEW tk,
           UNCHANGED plan, RowMoves(b, st, tk),
           stage' = [stage EXCEPT ![b] = st],
           task' = [task EXCEPT ![b] = tk] \/ (UNCHANGED task /\ tk = task[b])
    PROVE  Moves(b) /\ stage'[b] = st /\ task'[b] = tk
BY DEF Moves, RowTypes

\* One that writes only tasks moves the build too.
LEMMA MovesTasks ==
    ASSUME RowTypes, NEW b \in Build, NEW tk,
           UNCHANGED <<plan, stage>>, RowMoves(b, stage[b], tk),
           task' = [task EXCEPT ![b] = tk]
    PROVE  Moves(b) /\ task'[b] = tk
BY DEF Moves, RowTypes

\* Leaving every row alone is a move of any build.
LEMMA MovesStay ==
    ASSUME RowTypes, NEW b \in Build, UNCHANGED <<plan, stage, task>>
    PROVE  Moves(b)
<1>1. RowMoves(b, stage[b], task[b])
  BY DEF RowMoves, RowTypes
<1> QED
  BY <1>1 DEF Moves, RowTypes

\* A move keeps the rows well typed.
LEMMA MovesTypes ==
    ASSUME RowTypes, NEW b \in Build, Moves(b)
    PROVE  RowTypes'
BY DEF RowTypes, Moves, RowMoves, Stages

\* A move starts no unsupported stage, and no agent stage without its task.
LEMMA MovesSupported ==
    ASSUME RowTypes, SupportedInv, NEW b \in Build, Moves(b)
    PROVE  SupportedInv'
<1> SUFFICES ASSUME NEW c \in Build, NEW s \in Stages(c), stage'[c][s] = "running"
             PROVE  /\ plan[c][s].kind # "unsupported"
                    /\ plan[c][s].kind = "agent" => task'[c][s] # "none"
  BY DEF SupportedInv, Moves, Stages
<1>1. CASE c = b
  BY <1>1 DEF SupportedInv, Moves, RowMoves
<1>2. CASE c # b
  BY <1>2 DEF SupportedInv, Moves
<1> QED
  BY <1>1, <1>2

\* All of the types together.
CoreTypes == BuildTypes /\ StatusTypes /\ RowTypes /\ CountTypes /\ RestTypes

\* _fail_current_stage ends every stage of the build.
LEMMA ReapMoves ==
    ASSUME CoreTypes, NEW b \in Build, NEW as \in Terminal,
           UNCHANGED <<plan, task>>,
           stage' = [stage EXCEPT ![b] = FailStages(@, as)]
    PROVE  Moves(b) /\ \A s \in Stages(b) : stage'[b][s] \in StageOver
<1> DEFINE st == FailStages(stage[b], as)
<1>1. DOMAIN stage[b] = Stages(b) /\ Current(stage[b]) \in Stages(b) \cup {0}
       /\ (Current(stage[b]) # 0 => stage[b][Current(stage[b])] \in {"pending", "running"})
       /\ 0 \notin Stages(b)
  BY CurrentFacts, PlanFacts DEF CoreTypes, RowTypes
<1>2. RowMoves(b, st, task[b]) /\ \A s \in Stages(b) : st[s] \in StageOver
  BY <1>1 DEF RowMoves, CoreTypes, RowTypes, FailStages, StageState, StageOver, Terminal
<1>3. stage' = [stage EXCEPT ![b] = st]
  BY DEF CoreTypes, RowTypes
<1> HIDE DEF st
<1> QED
  BY <1>2, <1>3, MovesBy DEF CoreTypes

\* Cancelling one task closes the stages cancelled before it.
LEMMA CancelStageMoves ==
    ASSUME CoreTypes, EngineInv, CancelInv, NEW b \in Build, CancelStage(b)
    PROVE  Moves(b)
<1>1. PICK s \in Stages(b) \ rows :
          /\ stage[b][s] = "running" /\ task[b][s] \in {"queued", "claimed"}
          /\ task' = [task EXCEPT ![b][s] = CancelTask(@)]
          /\ stage' = [stage EXCEPT ![b] = [i \in Stages(b) |-> IF i \in rows THEN "cancelled" ELSE @[i]]]
  BY DEF CancelStage
<1> DEFINE st == [i \in Stages(b) |-> IF i \in rows THEN "cancelled" ELSE stage[b][i]]
           tk == [task[b] EXCEPT ![s] = CancelTask(@)]
<1>2. \A i \in rows : stage[b][i] = "running"
  BY Constants DEF CancelStage, EngineInv, CancelInv
<1>3. RowMoves(b, st, tk)
  BY <1>1, <1>2 DEF RowMoves, CoreTypes, RowTypes, StageState, StageOver, Terminal, TaskState, CancelTask
<1>4. stage' = [stage EXCEPT ![b] = st] /\ task' = [task EXCEPT ![b] = tk] /\ UNCHANGED plan
  BY <1>1 DEF CoreTypes, RowTypes, CancelStage, buildVars
<1> HIDE DEF st, tk
<1> QED
  BY <1>3, <1>4, MovesBy DEF CoreTypes

\* The last commit of a cancellation ends every stage of the build.
LEMMA ProcessCancelMoves ==
    ASSUME CoreTypes, NEW b \in Build, ProcessCancel(b)
    PROVE  Moves(b) /\ \A s \in Stages(b) : stage'[b][s] \in StageOver
<1> DEFINE st == [s \in Stages(b) |-> CASE stage[b][s] = "running" -> "cancelled"
                                 [] stage[b][s] = "pending" -> "skipped"
                                 [] OTHER -> stage[b][s]]
<1>1. RowMoves(b, st, task[b]) /\ \A s \in Stages(b) : st[s] \in StageOver
  BY DEF RowMoves, CoreTypes, RowTypes, StageState, StageOver, Terminal
<1>2. stage' = [stage EXCEPT ![b] = st] /\ UNCHANGED <<plan, task>>
  BY DEF CoreTypes, RowTypes, ProcessCancel
<1> HIDE DEF st
<1> QED
  BY <1>1, <1>2, MovesBy DEF CoreTypes

\* _start_stage takes one waiting row of the step and touches no other; it
\* queues a task only for an agent's stage that it starts.
LEMMA StartRowMoves ==
    ASSUME CoreTypes, EngineInv, NEW b \in Build, StartRow(b)
    PROVE  Moves(b) /\ \E s \in rows : /\ s \in Stages(b) /\ stage[b][s] = "pending"
                                       /\ stage'[b][s] # "pending"
                                       /\ \A i \in Stages(b) \ {s} : stage'[b][i] = stage[b][i] /\ task'[b][i] = task[b][i]
                                       /\ task'[b][s] \in {task[b][s], "queued"}
                                       /\ stage'[b][s] \in {"running", "skipped", "failed"}
                                       /\ \/ task'[b][s] = task[b][s]
                                          \/ plan[b][s].kind = "agent" /\ stage'[b][s] = "running"
<1> DEFINE waiting == {i \in rows : stage[b][i] = "pending"}
           s == First(waiting)
<1>1. cur = b /\ at \in {"walk", "join", "launch"} /\ waiting # {} /\ status[b] = "running"
      /\ UNCHANGED plan
  BY DEF StartRow, Starting
<1>2. rows \subseteq Stages(b) /\ Stages(b) \subseteq Nat
  BY <1>1, PlanFacts DEF EngineInv, CoreTypes
<1>3. s \in waiting /\ s \in rows /\ s \in Stages(b) /\ stage[b][s] = "pending"
  <2>1. s \in waiting
    BY <1>1, <1>2, FirstIn
  <2> QED
    BY <1>2, <2>1
<1>4. /\ plan[b][s].kind \in {"agent", "server", "unsupported"}
      /\ \E x \in {"running", "failed", "skipped"} :
            /\ stage' = [stage EXCEPT ![b] = [stage[b] EXCEPT ![s] = x]]
            /\ \/ UNCHANGED task /\ (x = "running" => plan[b][s].kind = "server")
               \/ /\ x = "running" /\ plan[b][s].kind = "agent"
                  /\ task' = [task EXCEPT ![b][s] = "queued"]
  <2>1. plan[b][s].kind \in {"agent", "server", "unsupported"}
    BY <1>3, PlanFacts DEF CoreTypes, StageDef
  <2> HIDE DEF s
  <2> QED
    BY <2>1 DEF StartRow, s
<1> HIDE DEF s
<1>5. PICK x \in {"running", "failed", "skipped"} :
            /\ stage' = [stage EXCEPT ![b] = [stage[b] EXCEPT ![s] = x]]
            /\ \/ UNCHANGED task /\ (x = "running" => plan[b][s].kind = "server")
               \/ /\ x = "running" /\ plan[b][s].kind = "agent"
                  /\ task' = [task EXCEPT ![b][s] = "queued"]
  BY <1>4
<1> DEFINE st == [stage[b] EXCEPT ![s] = x]
<1>6. CASE UNCHANGED task /\ (x = "running" => plan[b][s].kind = "server")
  <2>1. RowMoves(b, st, task[b])
    BY <1>1, <1>3, <1>6 DEF RowMoves, CoreTypes, RowTypes, StageState, StageOver, Terminal
  <2>2. Moves(b) /\ stage'[b] = st /\ task'[b] = task[b]
    BY <1>1, <1>5, <1>6, <2>1, MovesBy DEF CoreTypes
  <2> QED
    BY <1>3, <2>2 DEF CoreTypes, RowTypes
<1>7. CASE x = "running" /\ plan[b][s].kind = "agent" /\ task' = [task EXCEPT ![b][s] = "queued"]
  <2> DEFINE tk == [task[b] EXCEPT ![s] = "queued"]
  <2>1. RowMoves(b, st, tk)
    BY <1>1, <1>3, <1>7 DEF RowMoves, CoreTypes, RowTypes, StageState, StageOver, Terminal, TaskState
  <2>2. task' = [task EXCEPT ![b] = tk]
    BY <1>7 DEF CoreTypes, RowTypes
  <2>3. RowTypes /\ UNCHANGED plan /\ stage' = [stage EXCEPT ![b] = st]
    BY <1>1, <1>5 DEF CoreTypes
  <2> HIDE DEF st, tk
  <2>4. Moves(b) /\ stage'[b] = st /\ task'[b] = tk
    BY <2>1, <2>2, <2>3, MovesBy
  <2> QED
    BY <1>3, <1>7, <2>4 DEF CoreTypes, RowTypes, st, tk
<1> QED
  BY <1>5, <1>6, <1>7

\* claim_next and report_result write one task and nothing else.
LEMMA AgentMoves ==
    ASSUME CoreTypes, NEW b \in Build, NEW s \in Stages(b), Claim(b, s) \/ Report(b, s)
    PROVE  Moves(b) /\ UNCHANGED <<buildVars, stage, overdue, load, asking, engineVars, history, faults>>
<1>1. PICK v \in {"claimed", "ok", "bad"} : task' = [task EXCEPT ![b][s] = v]
  BY DEF Claim, Report
<1> DEFINE tk == [task[b] EXCEPT ![s] = v]
<1>2. RowMoves(b, stage[b], tk)
  BY DEF RowMoves, CoreTypes, RowTypes, TaskState
<1>3. task' = [task EXCEPT ![b] = tk] /\ UNCHANGED <<buildVars, stage>>
  BY <1>1 DEF CoreTypes, RowTypes, Claim, Report
<1> QED
  BY <1>2, <1>3, MovesTasks DEF CoreTypes, Claim, Report, buildVars

\* A poll answers with a status of a started stage and never forgets the task.
LEMMA PolledFacts ==
    ASSUME NEW t \in TaskState \ {"none"}, NEW res \in Polled(t) \cup {TimedOut(t)}
    PROVE  /\ res[1] \in {"running", "success", "failed", "cancelled", "timeout"}
           /\ res[2] \in TaskState \ {"none"}
BY DEF TaskState, Polled, TimedOut, CancelTask

\* What a member of a group may be found to be, a stage on its own may be.
LEMMA MemberPolled == ASSUME NEW t PROVE MemberPoll(t) \subseteq Polled(t) \cup {TimedOut(t)}
BY DEF MemberPoll

\* Skipping what waits changes rows only from pending to skipped.
LEMMA SkipFacts ==
    ASSUME NEW st, NEW spared
    PROVE  /\ DOMAIN SkipPending(st, spared) = DOMAIN st
           /\ \A s \in DOMAIN st : \/ SkipPending(st, spared)[s] = st[s]
                                   \/ st[s] = "pending" /\ SkipPending(st, spared)[s] = "skipped"
           /\ SkipPending(st, spared) = [s \in DOMAIN st |-> SkipPending(st, spared)[s]]
BY DEF SkipPending

\* Skipping what waits, after a move, is still a move.
LEMMA SkipRows ==
    ASSUME NEW b \in Build, NEW st, NEW tk, RowMoves(b, st, tk), NEW spared
    PROVE  RowMoves(b, SkipPending(st, spared), tk)
BY SkipFacts DEF RowMoves, StageState, StageOver, Terminal

\* Polling a stage on its own writes that stage from the answer, and beyond it
\* only skips.
LEMMA PollStageMoves ==
    ASSUME CoreTypes, SupportedInv, NEW b \in Build, PollStage(b)
    PROVE  /\ Moves(b)
           /\ LET s == Current(stage[b]) IN
              /\ s \in Stages(b) /\ stage[b][s] = "running" /\ StepRows(b, s) = {s}
              /\ \A i \in Stages(b) \ {s} : /\ task'[b][i] = task[b][i]
                                            /\ \/ stage'[b][i] = stage[b][i]
                                               \/ stage[b][i] = "pending" /\ stage'[b][i] = "skipped"
              /\ \/ plan[b][s].kind = "server" /\ task'[b][s] = task[b][s]
                    /\ stage'[b][s] \in {"running", "success", "failed", "timeout"}
                 \/ plan[b][s].kind = "agent" /\
                    <<stage'[b][s], task'[b][s]>> \in Polled(task[b][s]) \cup {TimedOut(task[b][s])}
<1> DEFINE s == Current(stage[b])
<1>1. s \in Stages(b) /\ stage[b][s] = "running" /\ UNCHANGED plan /\ StepRows(b, s) = {s}
  BY CurrentFacts DEF PollStage, CoreTypes, buildVars
<1>2. plan[b][s].kind \in {"agent", "server"} /\ (plan[b][s].kind = "agent" => task[b][s] # "none")
  BY <1>1, PlanFacts DEF SupportedInv, CoreTypes, StageDef
<1>3. PICK res \in IF plan[b][s].kind = "server"
                  THEN {"running", "success", "failed", "timeout"} \X {task[b][s]}
                  ELSE Polled(task[b][s]) \cup {TimedOut(task[b][s])} :
         LET ended == [stage[b] EXCEPT ![s] = res[1]]
             fails == plan[b][s].kind # "server" /\ MemberFailed(plan[b], ended, s)
         IN  /\ task' = [task EXCEPT ![b][s] = res[2]]
             /\ stage' = [stage EXCEPT ![b] = IF fails THEN SkipPending(ended, Spared(b, s)) ELSE ended]
  BY DEF PollStage
<1> HIDE DEF s
<1> DEFINE ended == [stage[b] EXCEPT ![s] = res[1]]
           fails == plan[b][s].kind # "server" /\ MemberFailed(plan[b], ended, s)
           st == IF fails THEN SkipPending(ended, Spared(b, s)) ELSE ended
           tk == [task[b] EXCEPT ![s] = res[2]]
<1>4. task[b][s] \in TaskState
  BY <1>1 DEF CoreTypes, RowTypes
<1>5. /\ res[1] \in {"running", "success", "failed", "cancelled", "timeout"}
      /\ res[2] \in TaskState /\ (res[2] = "none" => task[b][s] = "none")
      /\ plan[b][s].kind = "agent" => res[2] # "none"
  <2>1. CASE plan[b][s].kind = "server"
    BY <1>3, <1>4, <2>1
  <2>2. CASE plan[b][s].kind = "agent"
    BY <1>2, <1>3, <1>4, <2>2, PolledFacts
  <2> QED
    BY <1>2, <2>1, <2>2
<1>6. RowMoves(b, ended, tk)
  BY <1>1, <1>2, <1>5 DEF RowMoves, CoreTypes, RowTypes, StageState, StageOver, Terminal
<1>7. RowMoves(b, st, tk)
  BY <1>6, SkipRows
<1>8. stage' = [stage EXCEPT ![b] = st] /\ task' = [task EXCEPT ![b] = tk]
  BY <1>3 DEF CoreTypes, RowTypes
<1>9. /\ DOMAIN ended = Stages(b) /\ ended[s] = res[1] /\ tk[s] = res[2]
      /\ \A i \in Stages(b) \ {s} : ended[i] = stage[b][i] /\ tk[i] = task[b][i]
  BY <1>1 DEF CoreTypes, RowTypes
<1>10. \A i \in Stages(b) : st[i] = ended[i] \/ (ended[i] = "pending" /\ st[i] = "skipped")
  BY <1>9, SkipFacts
<1>11. st[s] = res[1]
  BY <1>1, <1>5, <1>9, <1>10
<1> HIDE DEF st, tk, ended, fails
<1>12. Moves(b) /\ stage'[b] = st /\ task'[b] = tk
  BY <1>1, <1>7, <1>8, MovesBy DEF CoreTypes
<1>13. \/ plan[b][s].kind = "server" /\ res[2] = task[b][s]
          /\ res[1] \in {"running", "success", "failed", "timeout"}
       \/ plan[b][s].kind = "agent" /\ <<res[1], res[2]>> \in Polled(task[b][s]) \cup {TimedOut(task[b][s])}
  <2>1. CASE plan[b][s].kind = "server"
    BY <1>3, <2>1
  <2>2. CASE plan[b][s].kind = "agent"
    <3>1. res \in Polled(task[b][s]) \cup {TimedOut(task[b][s])}
      BY <1>3, <2>2
    <3>2. res = <<res[1], res[2]>>
      BY <1>2, <1>4, <2>2, <3>1 DEF Polled, TimedOut, TaskState
    <3> QED
      BY <2>2, <3>1, <3>2
  <2> QED
    BY <1>2, <2>1, <2>2
<1> QED
  BY <1>1, <1>9, <1>10, <1>11, <1>12, <1>13 DEF s

\* A step of several stages has none of the server's.
LEMMA GroupsHaveNoServer ==
    ASSUME BuildTypes, NEW b \in Build, NEW s \in Stages(b), NEW g \in {StepRows(b, s), GroupOf(plan[b], s)},
           NEW i \in g, NEW j \in g, i # j
    PROVE  \A k \in g : plan[b][k].kind # "server"
<1>1. g = GroupOf(plan[b], s)
  BY DEF StepRows
<1>2. \A x \in Stages(b) : x \in Nat
  BY PlanFacts
<1>3. \A x, y \in g : x # y => /\ x \in Stages(b) /\ y \in Stages(b)
                               /\ plan[b][x].group # 0 /\ plan[b][x].group = plan[b][y].group
  BY <1>1 DEF GroupOf, Stages
<1>4. \A x, y \in g : x < y => plan[b][x].kind # "server" /\ plan[b][y].kind # "server"
  BY <1>2, <1>3, PlanFacts DEF Valid, Stages
<1> SUFFICES ASSUME NEW k \in g PROVE plan[b][k].kind # "server"
  OBVIOUS
<1>5. PICK x \in g : x # k
  OBVIOUS
<1>6. x < k \/ k < x
  BY <1>2, <1>3, <1>5
<1> QED
  BY <1>4, <1>6

\* A step holds the stage it was made for, and is finite.
LEMMA StepFacts ==
    ASSUME BuildTypes, NEW b \in Build, NEW s \in Stages(b),
           NEW g \in {StepRows(b, s), GroupOf(plan[b], s)}
    PROVE  /\ s \in g /\ g \subseteq Stages(b) /\ IsFiniteSet(g)
           /\ Cardinality(g) > 1 => \A i \in g : \E j \in g : i # j
<1>1. s \in g /\ g \subseteq Stages(b)
  BY DEF StepRows, GroupOf, Stages
<1>2. IsFiniteSet(g)
  <2>1. IsFiniteSet(Stages(b))
    BY PlanFacts, FS_Interval DEF Stages
  <2> QED
    BY <1>1, <2>1, FS_Subset
<1>3. ASSUME Cardinality(g) > 1, NEW i \in g PROVE \E j \in g : i # j
  <2>1. g # {i}
    BY <1>3, FS_Singleton
  <2> QED
    BY <2>1
<1> QED
  BY <1>1, <1>2, <1>3

\* Polling a group writes the members that run, each from its own answer.
LEMMA PollGroupMoves ==
    ASSUME CoreTypes, EngineInv, SupportedInv, KindInv, NEW b \in Build, PollGroup(b)
    PROVE  /\ Moves(b)
           /\ \A i \in Stages(b) :
                 \/ stage'[b][i] = stage[b][i] /\ task'[b][i] = task[b][i]
                 \/ /\ stage[b][i] = "running" /\ <<stage'[b][i], task'[b][i]>> \in MemberPoll(task[b][i])
                    /\ plan[b][i].kind = "agent" /\ task[b][i] # "none"
<1> DEFINE s == Current(stage[b])
           g == IF at = "poll" THEN rows ELSE StepRows(b, s)
           running == {i \in g : stage[b][i] = "running"}
           seen == UNION {MemberPoll(task[b][i]) : i \in running}
<1>1. /\ cur = b /\ UNCHANGED plan
      /\ at = "poll" \/ (s # 0 /\ Cardinality(StepRows(b, s)) > 1)
  BY DEF PollGroup, buildVars
<1>2. \E res \in [running -> seen] :
          /\ \A i \in running : res[i] \in MemberPoll(task[b][i])
          /\ stage' = [stage EXCEPT ![b] = [i \in Stages(b) |->
                          IF i \in running THEN res[i][1] ELSE @[i]]]
          /\ task' = [task EXCEPT ![b] = [i \in Stages(b) |->
                          IF i \in running THEN res[i][2] ELSE @[i]]]
  BY DEF PollGroup
<1>3. g \subseteq Stages(b) /\ \A i \in g : plan[b][i].kind # "server"
  <2>1. CASE at = "poll"
    BY <1>1, <2>1 DEF EngineInv, KindInv
  <2>2. CASE at # "poll" /\ s # 0 /\ Cardinality(StepRows(b, s)) > 1
    <3>1. s \in Stages(b)
      BY <2>2, CurrentFacts DEF CoreTypes
    <3>2. g = StepRows(b, s)
      BY <2>2
    <3> HIDE DEF g
    <3>3. s \in g /\ g \subseteq Stages(b) /\ \E j \in g : s # j
      BY <2>2, <3>1, <3>2, StepFacts DEF CoreTypes
    <3>4. \A i \in g : plan[b][i].kind # "server"
      BY <3>1, <3>2, <3>3, GroupsHaveNoServer DEF CoreTypes
    <3> QED
      BY <3>3, <3>4
  <2> QED
    BY <1>1, <2>1, <2>2
<1>4. running \subseteq Stages(b) /\ \A i \in running :
        /\ stage[b][i] = "running" /\ task[b][i] \in TaskState \ {"none"} /\ plan[b][i].kind = "agent"
  BY <1>3, PlanFacts DEF SupportedInv, CoreTypes, RowTypes, StageDef
<1> HIDE DEF g, s
<1>5. PICK res \in [running -> seen] :
          /\ \A i \in running : res[i] \in MemberPoll(task[b][i])
          /\ stage' = [stage EXCEPT ![b] = [i \in Stages(b) |->
                          IF i \in running THEN res[i][1] ELSE @[i]]]
          /\ task' = [task EXCEPT ![b] = [i \in Stages(b) |->
                          IF i \in running THEN res[i][2] ELSE @[i]]]
  BY <1>2
<1> HIDE DEF running, seen
<1>6. \A i \in running :
        /\ res[i][1] \in {"running", "success", "failed", "cancelled", "timeout"}
        /\ res[i][2] \in TaskState \ {"none"}
        /\ res[i] = <<res[i][1], res[i][2]>>
  <2> SUFFICES ASSUME NEW i \in running
               PROVE  /\ res[i][1] \in {"running", "success", "failed", "cancelled", "timeout"}
                      /\ res[i][2] \in TaskState \ {"none"}
                      /\ res[i] = <<res[i][1], res[i][2]>>
    OBVIOUS
  <2>1. res[i] \in Polled(task[b][i]) \cup {TimedOut(task[b][i])} /\ task[b][i] \in TaskState \ {"none"}
    BY <1>4, <1>5, MemberPolled
  <2>2. res[i] = <<res[i][1], res[i][2]>>
    BY <2>1 DEF Polled, TimedOut, TaskState
  <2> QED
    BY <2>1, <2>2, PolledFacts
<1> DEFINE st == [i \in Stages(b) |-> IF i \in running THEN res[i][1] ELSE stage[b][i]]
           tk == [i \in Stages(b) |-> IF i \in running THEN res[i][2] ELSE task[b][i]]
<1>7. RowMoves(b, st, tk)
  BY <1>4, <1>6 DEF RowMoves, CoreTypes, RowTypes, StageState, StageOver, Terminal
<1>8. stage' = [stage EXCEPT ![b] = st] /\ task' = [task EXCEPT ![b] = tk]
  BY <1>5 DEF CoreTypes, RowTypes
<1>9. \A i \in Stages(b) : \/ st[i] = stage[b][i] /\ tk[i] = task[b][i]
                           \/ /\ stage[b][i] = "running" /\ <<st[i], tk[i]>> \in MemberPoll(task[b][i])
                              /\ plan[b][i].kind = "agent" /\ task[b][i] # "none"
  BY <1>4, <1>5, <1>6
<1> HIDE DEF st, tk
<1>10. Moves(b) /\ stage'[b] = st /\ task'[b] = tk
  BY <1>1, <1>7, <1>8, MovesBy DEF CoreTypes
<1> QED
  BY <1>9, <1>10

\* Fail-fast closes the members still open and cancels the tasks of those that
\* ran.
LEMMA StopGroupMoves ==
    ASSUME CoreTypes, EngineInv, NEW b \in Build, StopGroup(b)
    PROVE  /\ Moves(b)
           /\ \A i \in Stages(b) :
                 \/ stage'[b][i] = stage[b][i] /\ task'[b][i] = task[b][i]
                 \/ /\ i \in rows /\ HasTrigger(plan[b], stage[b], rows)
                    /\ stage[b][i] = "pending" /\ stage'[b][i] = "skipped" /\ task'[b][i] = task[b][i]
                 \/ /\ i \in rows /\ HasTrigger(plan[b], stage[b], rows)
                    /\ stage[b][i] = "running" /\ stage'[b][i] = "cancelled"
                    /\ task'[b][i] = CancelTask(task[b][i])
<1> DEFINE st == [i \in Stages(b) |-> CASE i \in rows /\ stage[b][i] = "pending" -> "skipped"
                                        [] i \in rows /\ stage[b][i] = "running" -> "cancelled"
                                        [] OTHER -> stage[b][i]]
           tk == [i \in Stages(b) |-> IF i \in rows /\ stage[b][i] = "running"
                                      THEN CancelTask(task[b][i]) ELSE task[b][i]]
<1>1. UNCHANGED plan
  BY DEF StopGroup, buildVars
<1>2. CASE ~HasTrigger(plan[b], stage[b], rows)
  BY <1>1, <1>2, MovesStay DEF StopGroup, stageVars, CoreTypes
<1>3. CASE HasTrigger(plan[b], stage[b], rows)
  <2>1. stage' = [stage EXCEPT ![b] = st] /\ task' = [task EXCEPT ![b] = tk]
    BY <1>3 DEF CoreTypes, RowTypes, StopGroup
  <2>2. RowMoves(b, st, tk)
    BY DEF RowMoves, CoreTypes, RowTypes, StageState, StageOver, Terminal, TaskState, CancelTask
  <2>3. \A i \in Stages(b) :
           \/ st[i] = stage[b][i] /\ tk[i] = task[b][i]
           \/ i \in rows /\ stage[b][i] = "pending" /\ st[i] = "skipped" /\ tk[i] = task[b][i]
           \/ i \in rows /\ stage[b][i] = "running" /\ st[i] = "cancelled" /\ tk[i] = CancelTask(task[b][i])
    OBVIOUS
  <2> HIDE DEF st, tk
  <2>4. Moves(b) /\ stage'[b] = st /\ task'[b] = tk
    BY <1>1, <2>1, <2>2, MovesBy DEF CoreTypes
  <2> QED
    BY <1>3, <2>3, <2>4
<1> QED
  BY <1>2, <1>3

\* Closing a group at most skips what waits behind it.
LEMMA CloseGroupMoves ==
    ASSUME CoreTypes, NEW b \in Build, CloseGroup(b)
    PROVE  /\ Moves(b) /\ UNCHANGED task
           /\ \A i \in Stages(b) : \/ stage'[b][i] = stage[b][i]
                                   \/ stage[b][i] = "pending" /\ stage'[b][i] = "skipped"
<1>1. UNCHANGED <<plan, task>>
  BY DEF CloseGroup, buildVars
<1>2. CASE stage' = stage
  BY <1>1, <1>2, MovesStay DEF CoreTypes
<1>3. CASE stage' # stage
  <2> DEFINE st == SkipPending(stage[b], {})
  <2>1. stage' = [stage EXCEPT ![b] = st]
    BY <1>3 DEF CoreTypes, RowTypes, CloseGroup
  <2>2. RowMoves(b, stage[b], task[b]) /\ DOMAIN stage[b] = Stages(b)
    BY DEF RowMoves, CoreTypes, RowTypes
  <2>3. RowMoves(b, st, task[b])
    BY <2>2, SkipRows
  <2>4. \A i \in Stages(b) : st[i] = stage[b][i] \/ (stage[b][i] = "pending" /\ st[i] = "skipped")
    BY <2>2, SkipFacts
  <2> HIDE DEF st
  <2>5. Moves(b) /\ stage'[b] = st
    BY <1>1, <2>1, <2>3, MovesBy DEF CoreTypes
  <2> QED
    BY <1>1, <2>4, <2>5
<1> QED
  BY <1>2, <1>3

---------------------------------------------------------------------------
\* The inductive invariant.
CoreInv ==
    /\ CoreTypes
    /\ EngineInv /\ SnapshotInv /\ RunnerInv /\ ClaimInv /\ FreshInv
    /\ SupportedInv /\ CancelInv /\ KindInv

\* Steps of the pass as a whole, steps that only move the engine along, and
\* steps that write a build.
Turns == NextPhase \/ TakeClaimed \/ StepRaises \/ Crash \/ \E book, reap \in BOOLEAN : StartPass(book, reap)

Walks(b) == BeginAdvance(b) \/ BeginStep(b) \/ Nudge(b)

Works(b) ==
    \/ Reap(b) \/ CancelStage(b) \/ ProcessCancel(b)
    \/ Decide(b) \/ StartRow(b) \/ RowsStarted(b)
    \/ PollStage(b) \/ PollGroup(b) \/ StopGroup(b) \/ CloseGroup(b)
    \/ Dispatch(b) \/ AdvanceRaises(b)

\* Every step of the system is of one of these kinds.
LEMMA StepKinds ==
    ASSUME [Next]_vars
    PROVE  \/ UNCHANGED vars
           \/ Turns
           \/ \E b \in Build : Walks(b) \/ Works(b) \/ Handlers(b) \/ Agent(b)
BY Zenon DEF Next, Engine, Advance, Turns, Walks, Works

\* A turn of the pass and a walk of the engine leave every build alone.
LEMMA TurnsFrame ==
    ASSUME Turns \/ \E b \in Build : Walks(b)
    PROVE  UNCHANGED <<plan, status, cancel, runner, mode, stage, task, overdue, raced>>
<1>1. CASE Turns
  BY <1>1 DEF Turns, NextPhase, TakeClaimed, StepRaises, Crash, StartPass, buildVars, stageVars, history
<1>2. CASE \E b \in Build : Walks(b)
  BY <1>2 DEF Walks, BeginAdvance, BeginStep, Nudge, buildVars, stageVars, history
<1> QED
  BY <1>1, <1>2

\* A request and an agent leave the engine, the runners and the slots alone.
LEMMA HandlersFrame ==
    ASSUME NEW b \in Build, Handlers(b) \/ Agent(b)
    PROVE  UNCHANGED <<engineVars, runner, mode, load>>
BY DEF Handlers, Agent, Trigger, CancelRead, CancelCommit, TimePasses, Claim, Report, buildVars

\* The engine's works change neither snapshots nor requests.
LEMMA WorksFrame ==
    ASSUME NEW b \in Build, Works(b)
    PROVE  UNCHANGED <<plan, cancel, overdue, asking>>
BY DEF Works, Reap, CancelStage, ProcessCancel, Decide, StartRow, RowsStarted, PollStage, PollGroup,
       StopGroup, CloseGroup, Dispatch, AdvanceRaises, buildVars

\* Each work of the engine moves the rows of one build.
LEMMA WorksMove ==
    ASSUME CoreInv, NEW b \in Build, Works(b)
    PROVE  Moves(b)
<1> USE DEF CoreInv
<1>1. CASE Reap(b)
  BY <1>1, ReapMoves DEF Reap, Terminal
<1>2. CASE CancelStage(b)
  BY <1>2, CancelStageMoves
<1>3. CASE ProcessCancel(b)
  BY <1>3, ProcessCancelMoves
<1>4. CASE Decide(b) \/ RowsStarted(b) \/ Dispatch(b)
  BY <1>4, MovesStay DEF Decide, RowsStarted, Dispatch, stageVars, CoreTypes
<1>5. CASE StartRow(b)
  BY <1>5, StartRowMoves
<1>6. CASE PollStage(b) \/ PollGroup(b)
  BY <1>6, PollStageMoves, PollGroupMoves
<1>7. CASE StopGroup(b) \/ CloseGroup(b)
  BY <1>7, StopGroupMoves, CloseGroupMoves
<1>8. CASE AdvanceRaises(b)
  BY <1>8, ReapMoves DEF AdvanceRaises, Terminal
<1> QED
  BY <1>1, <1>2, <1>3, <1>4, <1>5, <1>6, <1>7, <1>8 DEF Works

\* A trigger creates the rows of one build that was not there before.
LEMMA TriggerMoves ==
    ASSUME CoreTypes, NEW b \in Build, Trigger(b)
    PROVE  /\ status[b] = "none" /\ status' = [status EXCEPT ![b] = "queued"]
           /\ plan' = [c \in Build |-> IF c = b THEN plan'[b] ELSE plan[c]] /\ plan'[b] \in Plans[b]
           /\ stage' = [c \in Build |-> IF c = b THEN stage'[b] ELSE stage[c]]
           /\ task' = [c \in Build |-> IF c = b THEN task'[b] ELSE task[c]]
           /\ stage'[b] = [s \in 1..Len(plan'[b]) |-> "pending"]
           /\ task'[b] = [s \in 1..Len(plan'[b]) |-> "none"]
           /\ UNCHANGED <<cancel, runner, mode, overdue, load, asking, engineVars, history, faults>>
BY DEF Trigger, CoreTypes, BuildTypes, RowTypes

\* Over any step, at most one build has its rows moved or created.
LEMMA RowsMove ==
    ASSUME CoreInv, [Next]_vars
    PROVE  UNCHANGED <<plan, stage, task>> \/ \E b \in Build : Moves(b) \/ Trigger(b)
<1>1. CASE UNCHANGED vars
  BY <1>1 DEF vars, buildVars, stageVars
<1>2. CASE Turns \/ \E b \in Build : Walks(b)
  BY <1>2, TurnsFrame
<1>3. CASE \E b \in Build : Works(b)
  BY <1>3, WorksMove
<1>4. CASE \E b \in Build : Handlers(b)
  BY <1>4 DEF Handlers, CancelRead, CancelCommit, TimePasses, buildVars, stageVars
<1>5. CASE \E b \in Build : Agent(b)
  BY <1>5, AgentMoves DEF Agent, CoreInv
<1> QED
  BY <1>1, <1>2, <1>3, <1>4, <1>5, StepKinds

\* The engine works only on builds that were triggered.
LEMMA WorksLive ==
    ASSUME CoreInv, NEW b \in Build, Works(b)
    PROVE  status[b] # "none"
<1>1. cur = b \/ b \in todo
  BY DEF Works, Reap, CancelStage, ProcessCancel, Decide, StartRow, RowsStarted, PollStage, PollGroup,
       StopGroup, CloseGroup, Dispatch, AdvanceRaises
<1> QED
  BY <1>1 DEF CoreInv, EngineInv

\* A work changes the status of its own build only, to a terminal one or, when
\* it is the dispatch, to running.
LEMMA WorksStatus ==
    ASSUME CoreTypes, NEW b \in Build, Works(b)
    PROVE  /\ StatusTypes' /\ CountTypes'
           /\ \A c \in Build \ {b} : status'[c] = status[c]
           /\ status'[b] = status[b] \/ status'[b] \in Terminal \/ (status'[b] = "running" /\ Dispatch(b))
<1> USE DEF CoreTypes
<1>1. CASE Reap(b) \/ ProcessCancel(b) \/ AdvanceRaises(b)
  BY <1>1, FinishFacts DEF Reap, ProcessCancel, AdvanceRaises, Terminal
<1>2. CASE CancelStage(b) \/ PollStage(b) \/ PollGroup(b) \/ StopGroup(b) \/ CloseGroup(b)
  BY <1>2 DEF CancelStage, PollStage, PollGroup, StopGroup, CloseGroup, buildVars, history,
              StatusTypes, CountTypes
<1>3. CASE Decide(b)
  BY <1>3, FinalizeFacts DEF Decide
<1>4. CASE StartRow(b)
  <2>1. (\E st : Finalize(b, st)) \/ UNCHANGED <<status, load, skewed>>
    BY <1>4, Zenon DEF StartRow
  <2> QED
    BY <2>1, FinalizeFacts DEF StatusTypes, CountTypes
<1>5. CASE RowsStarted(b)
  <2>1. Finalize(b, stage[b]) \/ UNCHANGED <<status, load, skewed>>
    BY <1>5, Zenon DEF RowsStarted
  <2> QED
    BY <2>1, FinalizeFacts DEF StatusTypes, CountTypes
<1>6. CASE Dispatch(b)
  BY <1>6 DEF Dispatch, StatusTypes, CountTypes, Status, Selected, Free
<1> QED
  BY <1>1, <1>2, <1>3, <1>4, <1>5, <1>6 DEF Works

\* How the status of any build may change over a step.
LEMMA StatusMoves ==
    ASSUME CoreInv, [Next]_vars
    PROVE  /\ StatusTypes' /\ CountTypes'
           /\ \A c \in Build :
                 \/ status'[c] = status[c]
                 \/ status[c] # "none" /\ status'[c] \in Terminal
                 \/ status[c] # "none" /\ status'[c] = "running" /\ Dispatch(c)
                 \/ status'[c] = "queued" /\ Trigger(c)
<1> USE DEF CoreInv, CoreTypes
<1>1. CASE UNCHANGED vars
  BY <1>1 DEF vars, buildVars, history, StatusTypes, CountTypes
<1>2. CASE Turns
  <2>1. \A r \in Runner : Cardinality(RunningOn(r)) \in Nat
    BY Constants, FS_Subset, FS_CardinalityType DEF RunningOn
  <2> QED
    BY <1>2, <2>1, TurnsFrame DEF Turns, NextPhase, TakeClaimed, StepRaises, Crash, StartPass,
       history, StatusTypes, CountTypes
<1>3. CASE \E b \in Build : Walks(b)
  BY <1>3, TurnsFrame DEF Walks, BeginAdvance, BeginStep, Nudge, history, StatusTypes, CountTypes
<1>4. CASE \E b \in Build : Works(b)
  BY <1>4, WorksStatus, WorksLive
<1>5. ASSUME NEW b \in Build, Handlers(b)
      PROVE  /\ StatusTypes' /\ CountTypes'
             /\ \A c \in Build : \/ status'[c] = status[c]
                                 \/ status[c] # "none" /\ status'[c] \in Terminal
                                 \/ status'[c] = "queued" /\ Trigger(c)
  <2>1. CASE Trigger(b)
    BY <2>1 DEF Trigger, history, StatusTypes, CountTypes, Status
  <2>2. CASE CancelCommit(b)
    BY <2>2 DEF CancelCommit, RunnerInv, SnapshotInv, StatusTypes, CountTypes, Status, Terminal
  <2>3. CASE CancelRead(b) \/ TimePasses(b)
    BY <2>3 DEF CancelRead, TimePasses, buildVars, history, StatusTypes, CountTypes
  <2> QED
    BY <1>5, <2>1, <2>2, <2>3 DEF Handlers
<1>6. CASE \E b \in Build : Agent(b)
  BY <1>6 DEF Agent, Claim, Report, buildVars, history, StatusTypes, CountTypes
<1> QED
  BY <1>1, <1>2, <1>3, <1>4, <1>5, <1>6, StepKinds

\* A build that was triggered stays, with the snapshot it was triggered with.
LEMMA LiveStays ==
    ASSUME CoreInv, [Next]_vars, NEW c \in Build, status[c] # "none"
    PROVE  status'[c] # "none" /\ plan'[c] = plan[c]
<1>1. status'[c] # "none"
  BY StatusMoves DEF Terminal, CoreInv
<1>2. ASSUME NEW b \in Build, Trigger(b) PROVE plan'[c] = plan[c]
  <2>1. status[b] = "none" /\ plan' = [d \in Build |-> IF d = b THEN plan'[b] ELSE plan[d]]
    BY <1>2, TriggerMoves DEF CoreInv
  <2> QED
    BY <2>1
<1>3. plan'[c] = plan[c]
  BY <1>2, RowsMove DEF Moves
<1> QED
  BY <1>1, <1>3

\* A triggered build keeps having a pipeline it may have.
LEMMA SnapshotStep == CoreInv /\ [Next]_vars => SnapshotInv'
<1> SUFFICES ASSUME CoreInv, [Next]_vars, NEW c \in Build
             PROVE  /\ status'[c] # "none" => plan'[c] \in Plans[c]
                    /\ asking'[c] # "no" => status'[c] # "none"
  BY DEF SnapshotInv
<1>1. CASE status[c] # "none"
  BY <1>1, LiveStays DEF CoreInv, SnapshotInv
<1>2. CASE status[c] = "none"
  <2>1. status'[c] # "none" => Trigger(c)
    BY <1>2, StatusMoves
  <2>2. Trigger(c) => plan'[c] \in Plans[c]
    BY TriggerMoves DEF CoreInv
  <2>3. ASSUME asking'[c] # "no" PROVE status'[c] # "none"
    <3>1. asking[c] = "no"
      BY <1>2 DEF SnapshotInv, CoreInv
    <3>2. asking[c] = asking'[c] \/ \E b \in Build : CancelRead(b) /\ b = c
      <4>1. ASSUME NEW b \in Build, Handlers(b) PROVE asking[c] = asking'[c] \/ (CancelRead(b) /\ b = c)
        BY <3>1, <4>1, <2>3 DEF Handlers, Trigger, CancelRead, CancelCommit, TimePasses, CoreInv, CoreTypes, RestTypes
      <4>2. CASE \E b \in Build : Agent(b) \/ Walks(b)
        BY <4>2 DEF Agent, Claim, Report, Walks, BeginAdvance, BeginStep, Nudge
      <4>3. CASE Turns
        BY <2>3, <3>1, <4>3 DEF Turns, NextPhase, TakeClaimed, StepRaises, Crash, StartPass
      <4> QED
        BY <4>1, <4>2, <4>3, StepKinds, WorksFrame DEF vars
    <3> QED
      BY <1>2, <2>3, <3>1, <3>2 DEF CancelRead
  <2> QED
    BY <2>1, <2>2, <2>3
<1> QED
  BY <1>1, <1>2

\* The build rows stay well typed.
LEMMA BuildTypesStep == CoreInv /\ [Next]_vars => BuildTypes'
<1> SUFFICES ASSUME CoreInv, [Next]_vars PROVE BuildTypes'
  OBVIOUS
<1> USE DEF CoreInv, CoreTypes
<1>1. plan' = [b \in Build |-> plan'[b]] /\ \A b \in Build : plan'[b] \in Plans[b] \cup {<<>>}
  <2>1. ASSUME NEW b \in Build, Trigger(b)
        PROVE  plan' = [c \in Build |-> plan'[c]] /\ \A c \in Build : plan'[c] \in Plans[c] \cup {<<>>}
    <3>1. plan' = [c \in Build |-> IF c = b THEN plan'[b] ELSE plan[c]] /\ plan'[b] \in Plans[b]
      BY <2>1, TriggerMoves
    <3> QED
      BY <3>1 DEF BuildTypes
  <2> QED
    BY <2>1, RowsMove DEF Moves, BuildTypes
<1>2. cancel' \in [Build -> BOOLEAN]
  <2>1. UNCHANGED cancel \/ \E b \in Build : cancel' = [cancel EXCEPT ![b] = TRUE]
    BY StepKinds, TurnsFrame, WorksFrame
       DEF vars, buildVars, Handlers, Agent, Trigger, CancelRead, CancelCommit, TimePasses, Claim, Report
  <2> QED
    BY <2>1 DEF BuildTypes
<1>3. runner' \in [Build -> Runner \cup {NoRunner}] /\ mode' \in [Build -> Modes \cup {"none"}]
  <2>1. CASE \E b \in Build : Dispatch(b)
    BY <2>1 DEF Dispatch, BuildTypes, Selected, Free
  <2>2. CASE ~ \E b \in Build : Dispatch(b)
    <3>1. UNCHANGED <<runner, mode>>
      <4>1. ASSUME NEW b \in Build, Works(b) PROVE UNCHANGED <<runner, mode>>
        BY <2>2, <4>1 DEF Works, Reap, CancelStage, ProcessCancel, Decide, StartRow, RowsStarted, PollStage, PollGroup,
           StopGroup, CloseGroup, AdvanceRaises, buildVars
      <4> QED
        BY <4>1, StepKinds, TurnsFrame, HandlersFrame DEF vars, buildVars
    <3> QED
      BY <3>1 DEF BuildTypes
  <2> QED
    BY <2>1, <2>2
<1> QED
  BY <1>1, <1>2, <1>3 DEF BuildTypes

\* The stage rows and tasks stay well typed, and what runs stays supported.
LEMMA RowTypesStep == CoreInv /\ [Next]_vars => RowTypes' /\ SupportedInv'
<1> SUFFICES ASSUME CoreInv, [Next]_vars PROVE RowTypes' /\ SupportedInv'
  OBVIOUS
<1> USE DEF CoreInv, CoreTypes
<1>1. CASE UNCHANGED <<plan, stage, task>>
  BY <1>1 DEF RowTypes, SupportedInv, Stages
<1>2. CASE \E b \in Build : Moves(b)
  BY <1>2, MovesTypes, MovesSupported
<1>3. ASSUME NEW b \in Build, Trigger(b) PROVE RowTypes' /\ SupportedInv'
  <2>1. /\ plan' = [c \in Build |-> IF c = b THEN plan'[b] ELSE plan[c]]
        /\ stage' = [c \in Build |-> IF c = b THEN stage'[b] ELSE stage[c]]
        /\ task' = [c \in Build |-> IF c = b THEN task'[b] ELSE task[c]]
        /\ stage'[b] = [s \in 1..Len(plan'[b]) |-> "pending"]
        /\ task'[b] = [s \in 1..Len(plan'[b]) |-> "none"]
    BY <1>3, TriggerMoves
  <2>2. \A c \in Build \ {b} : stage'[c] = stage[c] /\ task'[c] = task[c] /\ plan'[c] = plan[c]
    BY <2>1
  <2>3. \A c \in Build : IF c = b THEN \A s \in 1..Len(plan'[c]) : stage'[c][s] = "pending"
                                  ELSE stage'[c] = stage[c] /\ task'[c] = task[c] /\ plan'[c] = plan[c]
    BY <2>1, <2>2
  <2>4. RowTypes'
    <3>1. stage' = [c \in Build |-> stage'[c]] /\ task' = [c \in Build |-> task'[c]]
      BY <2>1
    <3>2. \A c \in Build \ {b} : /\ stage'[c] \in [1..Len(plan'[c]) -> StageState]
                               /\ task'[c] \in [1..Len(plan'[c]) -> TaskState]
      BY <2>2 DEF RowTypes, Stages
    <3>3. stage'[b] \in [1..Len(plan'[b]) -> StageState] /\ task'[b] \in [1..Len(plan'[b]) -> TaskState]
      BY <2>1 DEF StageState, TaskState
    <3> QED
      BY <3>1, <3>2, <3>3 DEF RowTypes, Stages
  <2>5. SupportedInv'
    BY <2>3 DEF SupportedInv, Stages
  <2> QED
    BY <2>4, <2>5
<1> QED
  BY <1>1, <1>2, <1>3, RowsMove

\* The requests, the lists of the pass and the histories stay well typed.
LEMMA RestTypesStep == CoreInv /\ [Next]_vars => RestTypes'
<1> SUFFICES ASSUME CoreInv, [Next]_vars PROVE RestTypes'
  OBVIOUS
<1> USE DEF CoreInv, CoreTypes
<1>1. CASE UNCHANGED vars
  BY <1>1 DEF vars, engineVars, history, RestTypes
<1>2. CASE Turns
  <2>1. CASE NextPhase
    BY <2>1 DEF NextPhase, Active, Startable, history, RestTypes
  <2>2. CASE TakeClaimed
    BY <2>2, Zenon DEF TakeClaimed, history, RestTypes
  <2>3. CASE StepRaises \/ Crash
    <3>1. faults' \in 0..MaxFaults
      BY <2>3, Constants DEF StepRaises, Crash, Fault, RestTypes
    <3>2. UNCHANGED <<overdue, raced>> /\ todo' = {} /\ locked' = {}
      BY <2>3 DEF StepRaises, Crash
    <3>3. asking' = asking \/ asking' = [b \in Build |-> "no"]
      BY <2>3 DEF StepRaises, Crash
    <3>4. loose' \in SUBSET Build
      BY <2>3 DEF StepRaises, Crash, RestTypes
    <3> QED
      BY <3>1, <3>2, <3>3, <3>4 DEF RestTypes
  <2>4. CASE \E book, reap \in BOOLEAN : StartPass(book, reap)
    BY <2>4 DEF StartPass, Stale, RestTypes
  <2> QED
    BY <1>2, <2>1, <2>2, <2>3, <2>4 DEF Turns
<1>3. CASE \E b \in Build : Walks(b)
  BY <1>3 DEF Walks, BeginAdvance, BeginStep, Nudge, history, RestTypes
<1>4. ASSUME NEW b \in Build, Works(b) PROVE RestTypes'
  <2>1. overdue' = overdue /\ asking' = asking
    BY <1>4, WorksFrame
  <2>2. todo' \in {todo, todo \ {b}} /\ locked' \in {locked, {}}
    BY <1>4 DEF Works, Reap, CancelStage, ProcessCancel, Decide, StartRow, RowsStarted, PollStage, PollGroup,
           StopGroup, CloseGroup, Dispatch, AdvanceRaises, engineVars
  <2>3. raced' \in {raced, raced \cup {b}} /\ loose' \in {loose, loose \cup {b}}
    BY <1>4 DEF Works, Reap, CancelStage, ProcessCancel, Decide, StartRow, RowsStarted, PollStage, PollGroup,
           StopGroup, CloseGroup, Dispatch, AdvanceRaises, history
  <2>4. faults' = faults \/ Fault
    BY <1>4 DEF Works, Reap, CancelStage, ProcessCancel, Decide, StartRow, RowsStarted, PollStage, PollGroup,
           StopGroup, CloseGroup, Dispatch, AdvanceRaises
  <2>5. faults' \in 0..MaxFaults
    BY <2>4, Constants DEF Fault, RestTypes
  <2> QED
    BY <2>1, <2>2, <2>3, <2>5 DEF RestTypes
<1>5. ASSUME NEW b \in Build, Handlers(b) \/ Agent(b) PROVE RestTypes'
  BY <1>5 DEF Handlers, Agent, Trigger, CancelRead, CancelCommit, TimePasses, Claim, Report, engineVars, history, RestTypes
<1> QED
  BY <1>1, <1>2, <1>3, <1>4, <1>5, StepKinds

\* A build has a runner from its dispatch on and not before.
LEMMA RunnerStep == CoreInv /\ [Next]_vars => RunnerInv'
<1> SUFFICES ASSUME CoreInv, [Next]_vars, NEW c \in Build
             PROVE  /\ status'[c] \in NotYet => runner'[c] = NoRunner
                    /\ status'[c] = "running" => runner'[c] \in Runner
  BY DEF RunnerInv
<1> USE DEF CoreInv, CoreTypes
<1>1. ASSUME NEW b \in Build, Dispatch(b), c = b
      PROVE  /\ status'[c] \in NotYet => runner'[c] = NoRunner
             /\ status'[c] = "running" => runner'[c] \in Runner
  BY <1>1 DEF Dispatch, RunnerInv, NotYet, StatusTypes, BuildTypes, Selected, Free
<1>2. ASSUME ~Dispatch(c) PROVE runner'[c] = runner[c]
  <2>1. ASSUME NEW b \in Build, Works(b) PROVE runner'[c] = runner[c]
    BY <1>2, <2>1 DEF Works, Reap, CancelStage, ProcessCancel, Decide, StartRow, RowsStarted, PollStage, PollGroup,
       StopGroup, CloseGroup, Dispatch, AdvanceRaises, buildVars, BuildTypes
  <2> QED
    BY <2>1, StepKinds, TurnsFrame, HandlersFrame DEF vars, buildVars
<1> QED
  BY <1>1, <1>2, StatusMoves DEF RunnerInv, NotYet, Terminal, Trigger

\* How a work may leave the engine.
WorkShape(b) ==
    \/ UNCHANGED <<phase, cur, at, rows>>
    \/ Leave
    \/ /\ cur = b /\ UNCHANGED <<cur, phase>>
       /\ at \notin {"idle", "cancel"}
       /\ at' \in {"look", "walk", "launch", "poll", "stop", "close", "follow"}
       /\ rows' \subseteq Stages(b)
       /\ at' = "poll" => at = "join" /\ rows' = rows
    \/ /\ phase = "cancel" /\ UNCHANGED phase
       /\ cur' = b /\ at' = "cancel" /\ rows' \subseteq Stages(b)

\* A work leaves the engine where it was, moves it on inside the same build, or
\* lets go of the build.
LEMMA WorksShape ==
    ASSUME CoreInv, NEW b \in Build, Works(b)
    PROVE  WorkShape(b) /\ todo' \subseteq todo
<1> USE DEF CoreInv, CoreTypes
<1>0. cur = b => rows \subseteq Stages(b)
  BY DEF EngineInv
<1>1. CASE Reap(b)
  BY <1>1 DEF Reap, WorkShape
<1>2. CASE CancelStage(b)
  <2>1. \E s \in Stages(b) : rows' = {s}
    BY <1>2 DEF CancelStage
  <2> QED
    BY <1>2, <2>1 DEF CancelStage, WorkShape
<1>3. CASE ProcessCancel(b)
  BY <1>3 DEF ProcessCancel, WorkShape
<1>4. CASE Decide(b)
  BY <1>4 DEF Decide, WorkShape
<1>5. CASE StartRow(b)
  BY <1>5 DEF StartRow, WorkShape, engineVars
<1>6. CASE RowsStarted(b)
  <2>1. Current(stage[b]) # 0 => StepRows(b, Current(stage[b])) \subseteq Stages(b)
    BY CurrentFacts, StepFacts
  <2> DEFINE s == Current(stage[b])
  <2>2. /\ cur = b /\ at \in {"walk", "join", "launch"} /\ UNCHANGED todo
        /\ \/ Leave
           \/ at = "walk" /\ s # 0 /\ Goto("walk", StepRows(b, s))
           \/ at = "join" /\ Goto("poll", rows)
           \/ Goto("look", {})
    BY <1>6 DEF RowsStarted, Starting
  <2> HIDE DEF s
  <2>3. s # 0 => StepRows(b, s) \subseteq Stages(b)
    BY <2>1 DEF s
  <2> QED
    BY <1>0, <2>2, <2>3 DEF WorkShape, Goto
<1>7. CASE PollStage(b)
  <2>1. cur = b /\ at = "look" /\ UNCHANGED todo /\ (Leave \/ Goto("follow", {}))
    BY <1>7 DEF PollStage
  <2> QED
    BY <2>1 DEF WorkShape, Goto
<1>8. CASE PollGroup(b)
  <2> DEFINE s == Current(stage[b])
             g == IF at = "poll" THEN rows ELSE StepRows(b, s)
  <2>1. /\ cur = b /\ UNCHANGED todo /\ (at = "poll" \/ (at = "look" /\ s # 0))
        /\ Goto(IF StopsFast(plan[b], g) THEN "stop" ELSE "close", g)
    BY <1>8 DEF PollGroup
  <2>2. g \subseteq Stages(b)
    BY <1>0, <2>1, CurrentFacts, StepFacts
  <2> HIDE DEF s, g
  <2> QED
    BY <2>1, <2>2 DEF WorkShape, Goto
<1>9. CASE StopGroup(b) \/ CloseGroup(b)
  <2>1. cur = b /\ at \in {"stop", "close"} /\ UNCHANGED todo /\ (Leave \/ Goto("close", rows) \/ Goto("follow", {}))
    BY <1>9 DEF StopGroup, CloseGroup
  <2> QED
    BY <1>0, <2>1 DEF WorkShape, Goto
<1>10. CASE Dispatch(b)
  <2>1. /\ cur = b /\ at = "claim" /\ UNCHANGED todo
        /\ \/ Leave
           \/ \E m \in Modes : Goto("launch", IF m = "parallel" THEN GroupOf(plan[b], 1) ELSE {1})
    BY <1>10 DEF Dispatch
  <2>2. 1 \in Stages(b)
    <3>1. plan[b] \in Plans[b]
      BY <2>1 DEF EngineInv, SnapshotInv
    <3>2. Len(plan[b]) > 0 /\ Len(plan[b]) \in Nat
      BY <3>1, PlanFacts, EngineAssumption
    <3> QED
      BY <3>2 DEF Stages
  <2>3. GroupOf(plan[b], 1) \subseteq Stages(b)
    BY DEF GroupOf, Stages
  <2> QED
    BY <2>1, <2>2, <2>3 DEF WorkShape, Goto
<1>11. CASE AdvanceRaises(b)
  BY <1>11 DEF AdvanceRaises, WorkShape
<1> QED
  BY <1>1, <1>2, <1>3, <1>4, <1>5, <1>6, <1>7, <1>8, <1>9, <1>10, <1>11 DEF Works

\* How a turn or a walk may leave it.
TurnShape ==
    \/ UNCHANGED <<phase, cur, at, rows>>
    \/ cur = NoBuild /\ UNCHANGED <<cur, at, rows>> /\ phase' \in Phases \ {"nudge"}
    \/ Leave
    \/ phase' = "idle" /\ cur' = NoBuild /\ at' = "idle" /\ rows' = {}
    \/ /\ cur = NoBuild /\ cur' \in Build /\ rows' = rows
       /\ \/ phase = "advance" /\ UNCHANGED phase /\ at' = "look" /\ cur' \in todo
          \/ phase = "idle" /\ phase' = "nudge" /\ at' = "look" /\ status[cur'] = "running"
          \/ phase = "dispatch" /\ UNCHANGED phase /\ at' = "claim" /\ status[cur'] = "queued"
    \/ /\ cur \in Build /\ UNCHANGED <<cur, phase>> /\ at \in {"look", "follow"}
       /\ at' \in {"walk", "join"} /\ rows' \subseteq Stages(cur)

\* A turn or walk takes up a build only when none is being worked on.
LEMMA TurnsShape ==
    ASSUME CoreInv, Turns \/ \E b \in Build : Walks(b)
    PROVE  TurnShape /\ \A b \in todo' : status[b] # "none"
<1> USE DEF CoreInv, CoreTypes
<1>1. CASE NextPhase
  BY <1>1 DEF NextPhase, TurnShape, Phases, Active, Startable, EngineInv
<1>2. CASE TakeClaimed
  <2> DEFINE f == First(todo)
  <2>1. /\ phase = "dispatch" /\ cur = NoBuild /\ todo # {} /\ todo' = todo \ {f}
        /\ UNCHANGED <<phase, rows>>
        /\ \/ status[f] = "queued" /\ cur' = f /\ at' = "claim"
           \/ UNCHANGED <<cur, at>>
    BY <1>2 DEF TakeClaimed
  <2>2. f \in todo /\ f \in Build
    BY <2>1, FirstIn, Constants DEF RestTypes
  <2> HIDE DEF f
  <2> QED
    BY <2>1, <2>2 DEF TurnShape, EngineInv
<1>3. CASE StepRaises
  BY <1>3 DEF StepRaises, TurnShape
<1>4. CASE Crash
  BY <1>4 DEF Crash, TurnShape
<1>5. CASE \E book, reap \in BOOLEAN : StartPass(book, reap)
  BY <1>5 DEF StartPass, TurnShape, Phases, Stale, EngineInv
<1>6. ASSUME NEW b \in Build, BeginAdvance(b) PROVE TurnShape /\ \A c \in todo' : status[c] # "none"
  BY <1>6 DEF BeginAdvance, TurnShape, EngineInv
<1>7. ASSUME NEW b \in Build, BeginStep(b) PROVE TurnShape /\ \A c \in todo' : status[c] # "none"
  <2> DEFINE s == Current(stage[b])
  <2>1. /\ cur = b /\ at \in {"look", "follow"} /\ s # 0 /\ UNCHANGED todo
        /\ Goto("walk", StepRows(b, s)) \/ Goto("join", StepRows(b, s)) \/ Leave
    BY <1>7 DEF BeginStep
  <2>2. StepRows(b, s) \subseteq Stages(b)
    BY <2>1, CurrentFacts, StepFacts
  <2> HIDE DEF s
  <2> QED
    BY <2>1, <2>2 DEF TurnShape, Goto, EngineInv
<1>8. ASSUME NEW b \in Build, Nudge(b) PROVE TurnShape /\ \A c \in todo' : status[c] # "none"
  BY <1>8 DEF Nudge, TurnShape, EngineInv
<1> QED
  BY <1>1, <1>2, <1>3, <1>4, <1>5, <1>6, <1>7, <1>8 DEF Turns, Walks

\* The engine's own variables stay consistent with each other.
LEMMA EngineStep == CoreInv /\ [Next]_vars => EngineInv'
<1> SUFFICES ASSUME CoreInv, [Next]_vars PROVE EngineInv'
  OBVIOUS
<1> USE DEF CoreInv, CoreTypes
<1>1. \A c \in Build : status[c] # "none" => status'[c] # "none" /\ plan'[c] = plan[c] /\ Stages(c)' = Stages(c)
  BY LiveStays DEF Stages
<1>2. CASE UNCHANGED engineVars
  BY <1>1, <1>2 DEF EngineInv, engineVars, RestTypes
<1>3. CASE Turns \/ \E b \in Build : Walks(b)
  <2>1. TurnShape /\ \A b \in todo' : status[b] # "none"
    BY <1>3, TurnsShape
  <2>2. UNCHANGED <<plan, status>> /\ Build \subseteq Nat /\ NoBuild \notin Build
    BY <1>3, TurnsFrame, Constants
  <2>3. Stages(cur)' = IF cur' = cur THEN Stages(cur) ELSE Stages(cur)'
    BY <2>2 DEF Stages
  <2>4. CASE UNCHANGED <<phase, cur, at, rows>>
    BY <2>1, <2>2, <2>3, <2>4 DEF EngineInv
  <2>5. CASE cur = NoBuild /\ UNCHANGED <<cur, at, rows>> /\ phase' \in Phases \ {"nudge"}
    BY <2>1, <2>2, <2>5 DEF EngineInv
  <2>6. CASE Leave \/ (phase' = "idle" /\ cur' = NoBuild /\ at' = "idle" /\ rows' = {})
    BY <2>1, <2>2, <2>6 DEF EngineInv, Leave, Phases, Places
  <2>7. CASE /\ cur = NoBuild /\ cur' \in Build /\ rows' = rows
             /\ \/ phase = "advance" /\ UNCHANGED phase /\ at' = "look" /\ cur' \in todo
                \/ phase = "idle" /\ phase' = "nudge" /\ at' = "look" /\ status[cur'] = "running"
                \/ phase = "dispatch" /\ UNCHANGED phase /\ at' = "claim" /\ status[cur'] = "queued"
    <3>1. rows' = {} /\ status'[cur'] # "none" /\ phase' \in Phases \ {"idle", "reap", "cancel"}
          /\ at' \in Places \ {"idle", "cancel"}
      BY <2>2, <2>7 DEF EngineInv, Phases, Places
    <3> QED
      BY <2>1, <2>2, <2>7, <3>1 DEF EngineInv
  <2>8. CASE /\ cur \in Build /\ UNCHANGED <<cur, phase>> /\ at \in {"look", "follow"}
             /\ at' \in {"walk", "join"} /\ rows' \subseteq Stages(cur)
    BY <2>1, <2>2, <2>3, <2>8 DEF EngineInv, Places
  <2> QED
    BY <2>1, <2>4, <2>5, <2>6, <2>7, <2>8 DEF TurnShape
<1>4. ASSUME NEW b \in Build, Works(b) PROVE EngineInv'
  <2>1. WorkShape(b) /\ todo' \subseteq todo /\ status[b] # "none"
    BY <1>4, WorksShape, WorksLive
  <2>2. status'[b] # "none" /\ Stages(b)' = Stages(b) /\ NoBuild \notin Build /\ todo \subseteq Build
    BY <1>1, <2>1, Constants DEF RestTypes
  <2> QED
    BY <1>1, <2>1, <2>2 DEF WorkShape, EngineInv, Leave, Phases, Places
<1> QED
  BY <1>2, <1>3, <1>4, StepKinds, HandlersFrame DEF vars

\* The build about to be dispatched does not run yet, though requests may
\* cancel it meanwhile.
LEMMA ClaimStep == CoreInv /\ [Next]_vars => ClaimInv'
<1> SUFFICES ASSUME CoreInv, [Next]_vars, at' = "claim" PROVE status'[cur'] # "running"
  BY DEF ClaimInv
<1> USE DEF CoreInv
<1>1. cur' \in Build
  BY EngineStep DEF EngineInv
<1>2. CASE UNCHANGED engineVars \/ \E b \in Build : Works(b)
  <2>1. at = "claim" /\ cur' = cur /\ ~ \E c \in Build : Dispatch(c)
    BY <1>2, WorksShape DEF engineVars, WorkShape, Leave, Dispatch, Goto
  <2> QED
    BY <1>1, <2>1, StatusMoves DEF ClaimInv, Terminal
<1>3. CASE Turns \/ \E b \in Build : Walks(b)
  BY <1>1, <1>3, TurnsShape, TurnsFrame DEF TurnShape, ClaimInv, Leave
<1> QED
  BY <1>2, <1>3, StepKinds, HandlersFrame DEF vars

\* A build that is queued, or claimed for dispatch, has nothing started.
LEMMA FreshStep == CoreInv /\ [Next]_vars => FreshInv'
<1> SUFFICES ASSUME CoreInv, [Next]_vars, NEW c \in Build,
                    status'[c] \in NotYet \/ (at' = "claim" /\ cur' = c)
             PROVE  \A s \in Stages(c)' : stage'[c][s] = "pending" /\ task'[c][s] = "none"
  BY DEF FreshInv
<1> USE DEF CoreInv, CoreTypes
<1>1. CASE Trigger(c)
  BY <1>1, TriggerMoves DEF Stages
<1>2. CASE ~Trigger(c)
  <2>1. status[c] \in NotYet \/ (at = "claim" /\ cur = c)
    <3>1. CASE status'[c] \in NotYet
      BY <1>2, <3>1, StatusMoves DEF NotYet, Terminal
    <3>2. CASE at' = "claim" /\ cur' = c
      BY <3>2, StepKinds, HandlersFrame, WorksShape, TurnsShape
         DEF vars, engineVars, WorkShape, TurnShape, Leave, NotYet
    <3> QED
      BY <3>1, <3>2
  <2>2. \A s \in Stages(c) : stage[c][s] = "pending" /\ task[c][s] = "none"
    BY <2>1 DEF FreshInv
  <2>3. plan'[c] = plan[c] /\ stage'[c] = stage[c] /\ task'[c] = task[c]
        => \A s \in Stages(c)' : stage'[c][s] = "pending" /\ task'[c][s] = "none"
    BY <2>2 DEF Stages
  <2>4. CASE UNCHANGED vars \/ Turns \/ \E b \in Build : Walks(b)
    BY <2>3, <2>4, TurnsFrame DEF vars, buildVars, stageVars
  <2>5. ASSUME NEW b \in Build, Handlers(b)
        PROVE plan'[c] = plan[c] /\ stage'[c] = stage[c] /\ task'[c] = task[c]
    <3>1. CASE Trigger(b)
      <4>1. /\ plan' = [d \in Build |-> IF d = b THEN plan'[b] ELSE plan[d]]
            /\ stage' = [d \in Build |-> IF d = b THEN stage'[b] ELSE stage[d]]
            /\ task' = [d \in Build |-> IF d = b THEN task'[b] ELSE task[d]]
        BY <3>1, TriggerMoves
      <4> QED
        BY <1>2, <3>1, <4>1
    <3> QED
      BY <2>5, <3>1 DEF Handlers, CancelRead, CancelCommit, TimePasses, buildVars, stageVars
  <2>6. ASSUME NEW b \in Build, Agent(b)
        PROVE plan'[c] = plan[c] /\ stage'[c] = stage[c] /\ task'[c] = task[c]
    <3>1. PICK s \in Stages(b) : Claim(b, s) \/ Report(b, s)
      BY <2>6 DEF Agent
    <3>2. Moves(b) /\ UNCHANGED stage
      BY <3>1, AgentMoves
    <3>3. b # c
      BY <2>2, <3>1 DEF Claim, Report
    <3> QED
      BY <3>2, <3>3 DEF Moves
  <2>7. ASSUME NEW b \in Build, Works(b), b # c
        PROVE plan'[c] = plan[c] /\ stage'[c] = stage[c] /\ task'[c] = task[c]
    BY <2>7, WorksMove DEF Moves
  <2>8. ASSUME Works(c)
        PROVE plan'[c] = plan[c] /\ stage'[c] = stage[c] /\ task'[c] = task[c]
    <3>0. Moves(c) /\ Current(stage[c]) \in Stages(c) \cup {0} /\ (cur = c => rows \subseteq Stages(c))
      BY <2>8, WorksMove, CurrentFacts DEF EngineInv
    <3>1. CASE Reap(c)
      <4>1. status'[c] = "timeout"
        BY <3>1, FinishFacts DEF Reap, Terminal
      <4>2. at = "idle" /\ UNCHANGED at
        BY <3>1 DEF Reap, EngineInv
      <4> QED
        BY <4>1, <4>2 DEF NotYet
    <3>2. CASE ProcessCancel(c) \/ AdvanceRaises(c)
      <4>1. status'[c] \in {"cancelled", "failed"}
        BY <3>2, FinishFacts DEF ProcessCancel, AdvanceRaises, Terminal
      <4>2. at' = "idle"
        BY <3>2 DEF ProcessCancel, AdvanceRaises, Leave
      <4> QED
        BY <4>1, <4>2 DEF NotYet
    <3>3. CASE CancelStage(c)
      BY <2>2, <3>3 DEF CancelStage
    <3>4. CASE Decide(c) \/ RowsStarted(c) \/ Dispatch(c)
      BY <3>4 DEF Decide, RowsStarted, Dispatch, stageVars
    <3>5. CASE StartRow(c)
      BY <2>1, <3>5 DEF StartRow, Starting, NotYet
    <3>6. CASE PollStage(c)
      BY <2>2, <3>0, <3>6 DEF PollStage
    <3>7. CASE PollGroup(c)
      <4>1. \A i \in Stages(c) : stage'[c][i] = stage[c][i] /\ task'[c][i] = task[c][i]
        BY <2>2, <3>7, PollGroupMoves
      <4> QED
        BY <3>0, <4>1 DEF Moves, RowMoves, RowTypes
    <3>8. CASE StopGroup(c)
      <4>1. cur = c
        BY <3>8 DEF StopGroup
      <4>2. ~HasTrigger(plan[c], stage[c], rows)
        BY <2>2, <3>0, <4>1 DEF HasTrigger, MemberFailed
      <4> QED
        BY <3>8, <4>2 DEF StopGroup, stageVars, buildVars
    <3>9. CASE CloseGroup(c)
      <4>1. cur = c
        BY <3>9 DEF CloseGroup
      <4>2. \A i \in rows : ~MemberFailed(plan[c], stage[c], i)
        BY <2>2, <3>0, <4>1 DEF MemberFailed
      <4> QED
        BY <3>9, <4>2 DEF CloseGroup, buildVars
    <3> QED
      BY <2>8, <3>1, <3>2, <3>3, <3>4, <3>5, <3>6, <3>7, <3>8, <3>9 DEF Works
  <2> QED
    BY <2>3, <2>4, <2>5, <2>6, <2>7, <2>8, StepKinds
<1> QED
  BY <1>1, <1>2

\* The stages a cancellation has told the runner of still say running until
\* its next commit.
LEMMA CancelStep == CoreInv /\ [Next]_vars => CancelInv'
<1> SUFFICES ASSUME CoreInv, [Next]_vars, at' = "cancel", NEW i \in rows'
             PROVE  stage'[cur'][i] = "running"
  BY DEF CancelInv
<1> USE DEF CoreInv, CoreTypes
<1>1. CASE at = "cancel" /\ UNCHANGED <<cur, rows>> /\ stage'[cur] = stage[cur]
  BY <1>1 DEF CancelInv
<1>2. CASE UNCHANGED vars \/ Turns \/ \E b \in Build : Walks(b)
  <2>1. at = "cancel" /\ UNCHANGED <<cur, rows>>
    BY <1>2, TurnsShape DEF vars, engineVars, TurnShape, Leave, EngineInv
  <2>2. UNCHANGED stage
    BY <1>2, TurnsFrame DEF vars, stageVars
  <2> QED
    BY <1>1, <2>1, <2>2
<1>3. ASSUME NEW b \in Build, Handlers(b) \/ Agent(b) PROVE stage'[cur'][i] = "running"
  <2>1. at = "cancel" /\ UNCHANGED <<cur, rows>> /\ cur \in Build /\ status[cur] # "none"
    BY <1>3, HandlersFrame DEF engineVars, EngineInv
  <2>2. stage'[cur] = stage[cur]
    <3>1. CASE Trigger(b)
      <4>1. stage' = [d \in Build |-> IF d = b THEN stage'[b] ELSE stage[d]] /\ status[b] = "none"
        BY <3>1, TriggerMoves
      <4> QED
        BY <2>1, <4>1
    <3> QED
      BY <1>3, <3>1 DEF Handlers, Agent, Claim, Report, CancelRead, CancelCommit, TimePasses, stageVars
  <2> QED
    BY <1>1, <2>1, <2>2
<1>4. ASSUME NEW b \in Build, CancelStage(b) PROVE stage'[cur'][i] = "running"
  <2>1. PICK s \in Stages(b) \ rows :
          /\ stage[b][s] = "running" /\ rows' = {s}
          /\ stage' = [stage EXCEPT ![b] = [j \in Stages(b) |-> IF j \in rows THEN "cancelled" ELSE @[j]]]
    BY <1>4 DEF CancelStage
  <2>2. cur' = b /\ stage'[b][s] = stage[b][s]
    BY <1>4, <2>1 DEF CancelStage, RowTypes
  <2> QED
    BY <2>1, <2>2
<1>5. ASSUME NEW b \in Build, Works(b), ~CancelStage(b) PROVE stage'[cur'][i] = "running"
  <2>1. CASE phase = "cancel"
    <3>1. at \in {"idle", "cancel"}
      BY <2>1 DEF EngineInv
    <3>2. ProcessCancel(b)
      BY <1>5, <3>1, <2>1 DEF Works, Reap, Decide, StartRow, RowsStarted, Starting, PollStage, PollGroup,
         StopGroup, CloseGroup, Dispatch, AdvanceRaises
    <3> QED
      BY <3>2 DEF ProcessCancel, Leave
  <2>2. CASE phase # "cancel"
    BY <1>5, <2>2, WorksShape DEF WorkShape, EngineInv, Leave
  <2> QED
    BY <2>1, <2>2
<1> QED
  BY <1>2, <1>3, <1>4, <1>5, StepKinds

\* The members a group is joined or polled with are never the server's.
LEMMA KindStep == CoreInv /\ [Next]_vars => KindInv'
<1> SUFFICES ASSUME CoreInv, [Next]_vars, at' \in {"join", "poll"}, NEW i \in rows'
             PROVE  plan'[cur'][i].kind # "server"
  BY DEF KindInv
<1> USE DEF CoreInv, CoreTypes
<1>1. CASE at \in {"join", "poll"} /\ UNCHANGED <<cur, rows>>
  <2>1. cur \in Build /\ status[cur] # "none"
    BY <1>1, Constants DEF EngineInv
  <2>2. plan'[cur] = plan[cur]
    BY <2>1, LiveStays
  <2> QED
    BY <1>1, <2>2 DEF KindInv
<1>2. CASE UNCHANGED engineVars
  BY <1>1, <1>2 DEF engineVars
<1>3. CASE \E b \in Build : Works(b)
  <2>1. at \in {"join", "poll"} /\ UNCHANGED <<cur, rows>>
    BY <1>3, WorksShape DEF WorkShape, Leave
  <2> QED
    BY <1>1, <2>1
<1>4. ASSUME NEW b \in Build, BeginStep(b) PROVE plan'[cur'][i].kind # "server"
  <2> DEFINE s == Current(stage[b])
  <2>1. /\ cur = b /\ UNCHANGED <<plan, cur>> /\ s # 0
        /\ rows' = StepRows(b, s) /\ stage[b][s] = "running"
        /\ plan[b][s].kind # "server"
        /\ \E j \in StepRows(b, s) : stage[b][j] = "pending"
    BY <1>4 DEF BeginStep, Goto, Leave, buildVars
  <2>2. s \in Stages(b)
    BY <2>1, CurrentFacts
  <2>3. s \in rows' /\ \E j \in rows' : j # s
    BY <2>1, <2>2, StepFacts
  <2> HIDE DEF s
  <2>4. plan[b][i].kind # "server"
    BY <2>1, <2>2, <2>3, GroupsHaveNoServer
  <2> QED
    BY <2>1, <2>4
<1>5. CASE Turns \/ \E b \in Build : BeginAdvance(b) \/ Nudge(b)
  <2>1. at \in {"join", "poll"} /\ UNCHANGED <<cur, rows>>
    BY <1>5 DEF Turns, NextPhase, TakeClaimed, StepRaises, Crash, StartPass, BeginAdvance, Nudge, Leave
  <2> QED
    BY <1>1, <2>1
<1> QED
  BY <1>2, <1>3, <1>4, <1>5, StepKinds, HandlersFrame DEF vars, Walks

\* The invariant holds before the first trigger.
LEMMA InitCore == Init => CoreInv
<1> SUFFICES ASSUME Init PROVE CoreInv
  OBVIOUS
<1>1. BuildTypes /\ StatusTypes /\ CountTypes
  BY DEF Init, BuildTypes, StatusTypes, CountTypes, Status
<1>2. RowTypes
  BY DEF Init, RowTypes, Stages
<1>3. RestTypes
  BY Constants DEF Init, RestTypes
<1>4. EngineInv /\ ClaimInv /\ CancelInv /\ KindInv
  BY Constants DEF Init, EngineInv, ClaimInv, CancelInv, KindInv, Phases, Places
<1>5. SnapshotInv /\ RunnerInv
  BY DEF Init, SnapshotInv, RunnerInv
<1>6. FreshInv /\ SupportedInv
  BY DEF Init, FreshInv, SupportedInv, Stages
<1> QED
  BY <1>1, <1>2, <1>3, <1>4, <1>5, <1>6 DEF CoreInv, CoreTypes

\* CoreInv is inductive.
LEMMA CoreHolds == Spec => []CoreInv
<1>1. CoreInv /\ [Next]_vars => CoreInv'
  <2> SUFFICES ASSUME CoreInv, [Next]_vars PROVE CoreInv'
    OBVIOUS
  <2>1. StatusTypes' /\ CountTypes'
    BY StatusMoves
  <2>2. CoreTypes'
    BY <2>1, BuildTypesStep, RowTypesStep, RestTypesStep DEF CoreTypes
  <2> QED
    BY <2>2, EngineStep, SnapshotStep, RunnerStep, ClaimStep, FreshStep, RowTypesStep, CancelStep, KindStep
       DEF CoreInv
<1> QED
  BY <1>1, InitCore, PTL DEF Spec

\* Every variable of the engine stays in its type, for all builds, runners and
\* pipelines.
THEOREM TypeCorrect == Spec => []TypeOK
<1>1. CoreInv => TypeOK
  <2> SUFFICES ASSUME CoreInv PROVE TypeOK
    OBVIOUS
  <2>1. BuildTypes /\ StatusTypes /\ RowTypes /\ CountTypes /\ RestTypes /\ EngineInv
    BY DEF CoreInv, CoreTypes
  <2>2. \A b \in Build : /\ stage[b] \in [1..Len(plan[b]) -> StageOver \cup {"pending", "running"}]
                         /\ task[b] \in [1..Len(plan[b]) -> TaskState]
    BY <2>1 DEF RowTypes, Stages, StageState
  <2>3. phase \in Phases /\ at \in Places /\ cur \in Build \cup {NoBuild}
    BY <2>1 DEF EngineInv
  <2> QED
    BY <2>1, <2>2, <2>3 DEF TypeOK, BuildTypes, StatusTypes, CountTypes, RestTypes, Status, Phases, Places
<1> QED
  BY <1>1, CoreHolds, PTL
===========================================================================
