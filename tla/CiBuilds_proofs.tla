------------------------- MODULE CiBuilds_proofs --------------------------
(***************************************************************************)
(* What CiEngine.tla promises of whole builds: nothing runs on in an ended *)
(* one, services keep to their cap, slots are accounted for, outcomes are  *)
(* final: it implements BuildQueue.tla.                                   *)
(***************************************************************************)
EXTENDS CiEngine_proofs

\* The work that ends a build ends every stage of it.
LEMMA FinishedClean ==
    ASSUME CoreInv, NEW b \in Build, Works(b), status[b] \notin Terminal, status'[b] \in Terminal
    PROVE  \A s \in Stages(b) : stage'[b][s] \in StageOver
<1> USE DEF CoreInv, CoreTypes
<1>0. ASSUME NEW st \in [Stages(b) -> StageState], Open(st) = {}
      PROVE  \A s \in Stages(b) : st[s] \in StageOver
  BY <1>0 DEF Open, StageState
<1>1. CASE Reap(b)
  BY <1>1, ReapMoves DEF Reap, Terminal
<1>2. CASE ProcessCancel(b)
  BY <1>2, ProcessCancelMoves
<1>3. CASE AdvanceRaises(b)
  BY <1>3, ReapMoves DEF AdvanceRaises, Terminal
<1>4. CASE Decide(b)
  <2>1. Finalize(b, stage[b]) /\ UNCHANGED stage
    BY <1>4 DEF Decide, stageVars
  <2>2. Open(stage[b]) = {}
    BY <2>1 DEF Finalize
  <2> QED
    BY <1>0, <2>1, <2>2 DEF RowTypes
<1>5. CASE RowsStarted(b)
  <2>1. (Finalize(b, stage[b]) \/ UNCHANGED status) /\ UNCHANGED stage
    BY <1>5, Zenon DEF RowsStarted, stageVars
  <2>2. Open(stage[b]) = {}
    BY <2>1 DEF Finalize
  <2> QED
    BY <1>0, <2>1, <2>2 DEF RowTypes
<1>6. CASE StartRow(b)
  <2> DEFINE into == [stage[b] EXCEPT ![First({i \in rows : stage[b][i] = "pending"})] = "failed"]
  <2>1. (stage' = [stage EXCEPT ![b] = into] /\ Finalize(b, into)) \/ UNCHANGED status
    BY <1>6, Zenon DEF StartRow
  <2> HIDE DEF into
  <2>2. Moves(b) /\ stage'[b] \in [Stages(b) -> StageState]
    BY <1>6, StartRowMoves DEF Moves, RowMoves
  <2>3. stage' = [stage EXCEPT ![b] = into] /\ Open(into) = {}
    BY <2>1 DEF Finalize
  <2>4. stage'[b] = into
    BY <2>3 DEF RowTypes
  <2> QED
    BY <1>0, <2>2, <2>3, <2>4
<1>7. CASE CancelStage(b) \/ PollStage(b) \/ PollGroup(b) \/ StopGroup(b) \/ CloseGroup(b) \/ Dispatch(b)
  <2>1. status' = status \/ (Dispatch(b) /\ status'[b] \in {status[b], "running"})
    BY <1>7 DEF CancelStage, PollStage, PollGroup, StopGroup, CloseGroup, Dispatch, buildVars, StatusTypes
  <2> QED
    BY <2>1 DEF Terminal
<1> QED
  BY <1>1, <1>2, <1>3, <1>4, <1>5, <1>6, <1>7 DEF Works

\* What was raced stays marked as raced.
LEMMA RacedGrows == ASSUME [Next]_vars PROVE raced \subseteq raced'
<1>1. ASSUME NEW b \in Build, Works(b) PROVE raced \subseteq raced'
  BY <1>1 DEF Works, Reap, CancelStage, ProcessCancel, Decide, StartRow, RowsStarted, PollStage, PollGroup,
           StopGroup, CloseGroup, Dispatch, AdvanceRaises, history
<1>2. ASSUME NEW b \in Build, Handlers(b) \/ Agent(b) PROVE raced \subseteq raced'
  BY <1>2 DEF Handlers, Agent, Trigger, CancelRead, CancelCommit, TimePasses, Claim, Report, history
<1> QED
  BY <1>1, <1>2, StepKinds, TurnsFrame DEF vars, history

\* A request or an agent changes the status of a triggered build only by the
\* commit of a cancel that had read it as queued.
LEMMA HandlersOnBuild ==
    ASSUME CoreInv, NEW b \in Build, Handlers(b) \/ Agent(b), NEW c \in Build, ~(Trigger(b) /\ b = c)
    PROVE  /\ plan'[c] = plan[c] /\ stage'[c] = stage[c]
           /\ status'[c] = status[c] \/
                 (CancelCommit(b) /\ b = c /\ asking[c] = "queued" /\ status'[c] = "cancelled" /\ cancel'[c]
                  /\ (c \in raced' \/ status[c] = "queued"))
<1> USE DEF CoreInv, CoreTypes
<1>1. CASE Trigger(b)
  <2>1. /\ plan' = [d \in Build |-> IF d = b THEN plan'[b] ELSE plan[d]]
        /\ stage' = [d \in Build |-> IF d = b THEN stage'[b] ELSE stage[d]]
        /\ status' = [status EXCEPT ![b] = "queued"]
    BY <1>1, TriggerMoves
  <2> QED
    BY <1>1, <2>1 DEF StatusTypes
<1>2. CASE CancelCommit(b)
  BY <1>2 DEF CancelCommit, stageVars, StatusTypes, BuildTypes
<1>3. CASE CancelRead(b) \/ TimePasses(b) \/ Agent(b)
  BY <1>3 DEF CancelRead, TimePasses, Agent, Claim, Report, buildVars, stageVars
<1> QED
  BY <1>1, <1>2, <1>3 DEF Handlers

\* No step leaves a running stage in an ended build.
LEMMA RunningStep == CoreInv /\ NothingLeftRunning /\ [Next]_vars => NothingLeftRunning'
<1> SUFFICES ASSUME CoreInv, NothingLeftRunning, [Next]_vars,
                    NEW c \in Build \ raced', status'[c] \in Terminal, NEW s \in Stages(c)',
                    stage'[c][s] = "running"
             PROVE  FALSE
  BY DEF NothingLeftRunning
<1>1. c \notin raced
  BY RacedGrows
<1>2. CASE plan'[c] = plan[c] /\ stage'[c] = stage[c] /\ status'[c] = status[c]
  BY <1>1, <1>2 DEF NothingLeftRunning, Stages
<1>3. CASE UNCHANGED vars \/ Turns \/ \E b \in Build : Walks(b)
  BY <1>2, <1>3, TurnsFrame DEF vars, buildVars, stageVars
<1>4. ASSUME NEW b \in Build, Handlers(b) \/ Agent(b) PROVE FALSE
  <2>1. CASE Trigger(b) /\ b = c
    <3>1. status' = [status EXCEPT ![c] = "queued"]
      BY <2>1, TriggerMoves DEF CoreInv
    <3> QED
      BY <3>1 DEF CoreInv, CoreTypes, StatusTypes, Terminal
  <2>2. CASE ~(Trigger(b) /\ b = c) /\ status'[c] # status[c]
    <3>1. plan'[c] = plan[c] /\ stage'[c] = stage[c] /\ status[c] = "queued"
      BY <1>4, <2>2, HandlersOnBuild
    <3> QED
      BY <3>1 DEF CoreInv, FreshInv, NotYet, Stages
  <2>3. CASE ~(Trigger(b) /\ b = c) /\ status'[c] = status[c]
    BY <1>2, <1>4, <2>3, HandlersOnBuild
  <2> QED
    BY <2>1, <2>2, <2>3
<1>5. ASSUME NEW b \in Build, Works(b) PROVE FALSE
  <2>0. Moves(b)
    BY <1>5, WorksMove
  <2>1. CASE b # c
    <3>1. status'[c] = status[c]
      BY <1>5, <2>1, WorksStatus DEF CoreInv
    <3> QED
      BY <1>2, <2>0, <2>1, <3>1 DEF Moves
  <2>2. CASE b = c /\ status[c] \in Terminal
    <3>1. Stages(c)' = Stages(c) /\ stage[c][s] # "running"
      BY <1>1, <2>0, <2>2 DEF NothingLeftRunning, Moves, Stages
    <3> QED
      BY <2>0, <2>2, <3>1 DEF Moves, RowMoves, Terminal
  <2>3. CASE b = c /\ status[c] \notin Terminal
    BY <1>5, <2>0, <2>3, FinishedClean DEF Moves, Stages, StageOver, Terminal
  <2> QED
    BY <2>1, <2>2, <2>3
<1> QED
  BY <1>3, <1>4, <1>5, StepKinds

\* A build that has ended says of none of its stages that it runs
\* (_fail_current_stage, _finish_build), whatever crashed or was cancelled when,
\* unless a cancel request wrote over a running build.
THEOREM NothingRunsOn == Spec => []NothingLeftRunning
<1>1. Init => NothingLeftRunning
  BY DEF Init, NothingLeftRunning, Terminal
<1> QED
  BY <1>1, RunningStep, CoreHolds, PTL DEF Spec

---------------------------------------------------------------------------
\* A dispatch is the only step that adds a running build, and it counts first.
LEMMA CapStep == CoreInv /\ ServiceCapRespected /\ [Next]_vars => ServiceCapRespected'
<1> SUFFICES ASSUME CoreInv, ServiceCapRespected, [Next]_vars, NEW b \in Build
             PROVE  Cardinality({c \in Build : status'[c] = "running" /\ Service[c] = Service[b]})
                      <= ServiceCap[Service[b]]
  BY DEF ServiceCapRespected
<1> DEFINE R == {c \in Build : status[c] = "running" /\ Service[c] = Service[b]}
           N == {c \in Build : status'[c] = "running" /\ Service[c] = Service[b]}
<1>1. /\ IsFiniteSet(R) /\ IsFiniteSet(N) /\ Cardinality(R) \in Nat /\ Cardinality(N) \in Nat
      /\ ServiceCap[Service[b]] \in Nat
  BY FS_Subset, FS_CardinalityType, EngineAssumption
<1>2. Cardinality(R) <= ServiceCap[Service[b]]
  BY DEF ServiceCapRespected
<1>3. CASE \E d \in Build : Dispatch(d) /\ Service[d] = Service[b]
  <2>1. PICK d \in Build : Dispatch(d) /\ Service[d] = Service[b]
    BY <1>3
  <2>2. CASE status' = status
    BY <1>2, <2>2
  <2>3. CASE status' # status
    <3>1. Cardinality(RunningFor(Service[d])) < ServiceCap[Service[d]] /\ status' = [status EXCEPT ![d] = "running"]
      BY <2>1, <2>3 DEF Dispatch
    <3>2. RunningFor(Service[d]) = R
      BY <2>1 DEF RunningFor
    <3>3. N \subseteq R \cup {d}
      BY <3>1 DEF CoreInv, CoreTypes, StatusTypes
    <3>4. IsFiniteSet(R \cup {d}) /\ Cardinality(R \cup {d}) <= Cardinality(R) + 1
      BY <1>1, FS_AddElement
    <3>5. Cardinality(N) <= Cardinality(R \cup {d}) /\ Cardinality(R \cup {d}) \in Nat
      BY <3>3, <3>4, FS_Subset, FS_CardinalityType
    <3> HIDE DEF R, N
    <3>6. Cardinality(R) < ServiceCap[Service[b]]
      BY <2>1, <3>1, <3>2
    <3>7. Cardinality(N) <= ServiceCap[Service[b]]
      BY <1>1, <3>4, <3>5, <3>6
    <3> QED
      BY <3>7 DEF N
  <2> QED
    BY <2>2, <2>3
<1>4. CASE ~ \E d \in Build : Dispatch(d) /\ Service[d] = Service[b]
  <2>1. N \subseteq R
    BY <1>4, StatusMoves DEF Terminal
  <2>2. Cardinality(N) <= Cardinality(R)
    BY <1>1, <2>1, FS_Subset
  <2> HIDE DEF R, N
  <2>3. Cardinality(N) <= ServiceCap[Service[b]]
    BY <1>1, <1>2, <2>2
  <2> QED
    BY <2>3 DEF N
<1> QED
  BY <1>3, <1>4

\* max_concurrent_builds of a service holds at every commit (_dispatch_queued),
\* however many builds, requests and crashes there are.
THEOREM CapRespected == Spec => []ServiceCapRespected
<1>1. Init => ServiceCapRespected
  <2> SUFFICES ASSUME Init, NEW b \in Build
               PROVE  Cardinality({c \in Build : status[c] = "running" /\ Service[c] = Service[b]})
                        <= ServiceCap[Service[b]]
    BY DEF ServiceCapRespected
  <2>1. {c \in Build : status[c] = "running" /\ Service[c] = Service[b]} = {}
    BY DEF Init
  <2>2. Cardinality({}) = 0 /\ ServiceCap[Service[b]] \in Nat
    BY FS_EmptySet, EngineAssumption
  <2> QED
    BY <2>1, <2>2
<1> QED
  BY <1>1, CapStep, CoreHolds, PTL DEF Spec

---------------------------------------------------------------------------
\* A finished build gives back the slot it had.
LEMMA FinishSlots ==
    ASSUME CoreInv, SlotsAccounted, NEW b \in Build, NEW out \in Terminal, Finish(b, out),
           UNCHANGED runner
    PROVE  SlotsAccounted'
<1> USE DEF CoreInv, CoreTypes
<1> SUFFICES ASSUME NEW r \in Runner \ skewed' PROVE load'[r] = Cardinality(RunningOn(r)')
  BY DEF SlotsAccounted
<1>1. r \notin skewed /\ skewed' = IF status[b] \in Terminal /\ runner[b] # NoRunner
                                 THEN skewed \cup {runner[b]} ELSE skewed
  BY DEF Finish
<1>2. load[r] = Cardinality(RunningOn(r)) /\ IsFiniteSet(RunningOn(r)) /\ load[r] \in Nat
  <2>1. IsFiniteSet(RunningOn(r))
    BY Constants, FS_Subset DEF RunningOn
  <2> QED
    BY <1>1, <2>1 DEF SlotsAccounted, CountTypes
<1>3. status' = [status EXCEPT ![b] = out] /\ load' = Released(runner[b])
  BY DEF Finish
<1>4. \A c \in Build : status'[c] = IF c = b THEN out ELSE status[c]
  BY <1>3 DEF StatusTypes
<1>5. RunningOn(r)' = RunningOn(r) \ {b}
  BY <1>4 DEF RunningOn, Terminal
<1>6. CASE runner[b] # r
  <2>1. RunningOn(r)' = RunningOn(r)
    BY <1>5, <1>6 DEF RunningOn
  <2>2. load'[r] = load[r]
    BY <1>3, <1>6 DEF Released, CountTypes
  <2> QED
    BY <1>2, <2>1, <2>2
<1>7. CASE runner[b] = r
  <2>1. r # NoRunner /\ status[b] \notin Terminal
    BY <1>1, <1>7, Constants
  <2>2. status[b] = "running" /\ b \in RunningOn(r)
    BY <1>7, <2>1 DEF RunnerInv, NotYet, StatusTypes, Status, RunningOn
  <2>3. load[r] > 0 /\ Cardinality(RunningOn(r)') = load[r] - 1
    <3>1. Cardinality(RunningOn(r) \ {b}) = load[r] - 1 /\ RunningOn(r) # {}
      BY <1>2, <2>2, FS_RemoveElement
    <3>2. load[r] # 0
      BY <1>2, <3>1, FS_EmptySet
    <3> QED
      BY <1>2, <1>5, <3>1, <3>2
  <2>4. load'[r] = load[r] - 1
    BY <1>3, <1>7, <2>1, <2>3 DEF Released, CountTypes
  <2> QED
    BY <2>3, <2>4
<1> QED
  BY <1>6, <1>7

\* Slots stay accounted for when neither the counters nor the running builds
\* of a runner change.
LEMMA SlotsSame ==
    ASSUME SlotsAccounted, skewed \subseteq skewed', UNCHANGED load,
           \A r \in Runner \ skewed' : RunningOn(r)' = RunningOn(r)
    PROVE  SlotsAccounted'
BY DEF SlotsAccounted

\* Every step moves current_load with the builds that run, or marks the runner
\* as having lost count.
LEMMA SlotsStep == CoreInv /\ SlotsAccounted /\ [Next]_vars => SlotsAccounted'
<1> SUFFICES ASSUME CoreInv, SlotsAccounted, [Next]_vars PROVE SlotsAccounted'
  OBVIOUS
<1> USE DEF CoreInv, CoreTypes
<1>1. CASE UNCHANGED <<status, runner, load, skewed>>
  <2>1. \A r \in Runner : RunningOn(r)' = RunningOn(r)
    BY <1>1 DEF RunningOn
  <2> QED
    BY <1>1, <2>1, SlotsSame
<1>2. CASE UNCHANGED vars
  BY <1>1, <1>2 DEF vars, buildVars, history
<1>3. ASSUME NEW book \in BOOLEAN, NEW reap \in BOOLEAN, StartPass(book, reap) PROVE SlotsAccounted'
  <2>1. UNCHANGED <<status, runner>> /\ \A r \in Runner : RunningOn(r)' = RunningOn(r)
    BY <1>3 DEF StartPass, buildVars, RunningOn
  <2>2. CASE book
    BY <1>3, <2>1, <2>2 DEF StartPass, SlotsAccounted
  <2>3. CASE ~book
    BY <1>1, <1>3, <2>1, <2>3 DEF StartPass
  <2> QED
    BY <2>2, <2>3
<1>4. CASE NextPhase \/ TakeClaimed \/ StepRaises \/ Crash \/ \E b \in Build : Walks(b)
  BY <1>1, <1>4 DEF NextPhase, TakeClaimed, StepRaises, Crash, Walks, BeginAdvance, BeginStep, Nudge,
     buildVars, history
<1>5. ASSUME NEW b \in Build, Handlers(b) \/ Agent(b) PROVE SlotsAccounted'
  <2>0. UNCHANGED <<runner, load>>
    BY <1>5, HandlersFrame
  <2>1. CASE Trigger(b)
    <3>1. \A c \in Build : status'[c] = "running" <=> status[c] = "running"
      BY <2>1 DEF Trigger, StatusTypes
    <3>2. \A r \in Runner : RunningOn(r)' = RunningOn(r)
      BY <2>0, <3>1 DEF RunningOn
    <3> QED
      BY <2>0, <2>1, <3>2, SlotsSame DEF Trigger, history
  <2>2. CASE CancelCommit(b)
    <3>1. \/ status' = status /\ skewed' = skewed
          \/ /\ status' = [status EXCEPT ![b] = "cancelled"]
             /\ skewed' = IF status[b] = "running" THEN skewed \cup {runner[b]} ELSE skewed
      BY <2>2 DEF CancelCommit
    <3>2. \A r \in Runner \ skewed' : RunningOn(r)' = RunningOn(r)
      BY <2>0, <3>1 DEF RunningOn, StatusTypes
    <3> QED
      BY <2>0, <3>1, <3>2, SlotsSame
  <2>3. CASE CancelRead(b) \/ TimePasses(b) \/ Agent(b)
    BY <1>1, <2>3 DEF CancelRead, TimePasses, Agent, Claim, Report, buildVars, history
  <2> QED
    BY <1>5, <2>1, <2>2, <2>3 DEF Handlers
<1>6. ASSUME NEW b \in Build, Reap(b) \/ ProcessCancel(b) \/ AdvanceRaises(b) PROVE SlotsAccounted'
  BY <1>6, FinishSlots DEF Reap, ProcessCancel, AdvanceRaises, Terminal
<1>7. ASSUME NEW b \in Build, NEW st, Finalize(b, st), UNCHANGED runner PROVE SlotsAccounted'
  BY <1>1, <1>7, OutcomeIn, FinishSlots DEF Finalize
<1>8. ASSUME NEW b \in Build, Decide(b) PROVE SlotsAccounted'
  BY <1>7, <1>8 DEF Decide
<1>9. ASSUME NEW b \in Build, RowsStarted(b) \/ StartRow(b) PROVE SlotsAccounted'
  <2>1. UNCHANGED runner
    BY <1>9 DEF RowsStarted, StartRow
  <2>2. (\E st : Finalize(b, st)) \/ UNCHANGED <<status, load, skewed>>
    BY <1>9, Zenon DEF RowsStarted, StartRow
  <2> QED
    BY <1>1, <1>7, <2>1, <2>2
<1>10. ASSUME NEW b \in Build, CancelStage(b) \/ PollStage(b) \/ PollGroup(b) \/ StopGroup(b) \/ CloseGroup(b)
       PROVE SlotsAccounted'
  BY <1>1, <1>10 DEF CancelStage, PollStage, PollGroup, StopGroup, CloseGroup, buildVars, history
<1>11. ASSUME NEW b \in Build, Dispatch(b) PROVE SlotsAccounted'
  <2>1. CASE UNCHANGED <<status, runner, load>>
    BY <1>1, <1>11, <2>1 DEF Dispatch
  <2>2. CASE ~UNCHANGED <<status, runner, load>>
    <3>1. PICK q \in Selected : /\ runner' = [runner EXCEPT ![b] = q]
                                /\ load' = [load EXCEPT ![q] = @ + 1]
      BY <1>11, <2>2 DEF Dispatch
    <3>2. status' = [status EXCEPT ![b] = "running"] /\ UNCHANGED skewed /\ status[b] # "running"
      BY <1>11, <2>2 DEF Dispatch, ClaimInv
    <3>3. SUFFICES ASSUME NEW r \in Runner \ skewed PROVE load'[r] = Cardinality(RunningOn(r)')
      BY <3>2 DEF SlotsAccounted
    <3>4. load[r] = Cardinality(RunningOn(r)) /\ IsFiniteSet(RunningOn(r)) /\ b \notin RunningOn(r)
      BY <3>2, Constants, FS_Subset DEF RunningOn, SlotsAccounted
    <3>5. RunningOn(r)' = IF r = q THEN RunningOn(r) \cup {b} ELSE RunningOn(r)
      BY <3>1, <3>2 DEF RunningOn, StatusTypes, BuildTypes
    <3>6. Cardinality(RunningOn(r) \cup {b}) = load[r] + 1
      BY <3>4, FS_AddElement
    <3>7. load'[r] = IF r = q THEN load[r] + 1 ELSE load[r]
      BY <3>1 DEF CountTypes
    <3> QED
      BY <3>4, <3>5, <3>6, <3>7
  <2> QED
    BY <2>1, <2>2
<1> QED
  BY <1>2, <1>3, <1>4, <1>5, <1>6, <1>8, <1>9, <1>10, <1>11, StepKinds DEF Turns, Works

\* current_load is the number of builds running on the runner at every commit
\* (select_runner, release_slot), on every runner that has not lost count since
\* recompute_loads last ran.
THEOREM SlotsAreAccounted == Spec => []SlotsAccounted
<1>1. Init => SlotsAccounted
  <2> SUFFICES ASSUME Init, NEW r \in Runner PROVE load[r] = Cardinality(RunningOn(r))
    BY DEF SlotsAccounted
  <2>1. RunningOn(r) = {} /\ load[r] = 0
    BY DEF Init, RunningOn
  <2> QED
    BY <2>1, FS_EmptySet
<1> QED
  BY <1>1, SlotsStep, CoreHolds, PTL DEF Spec

---------------------------------------------------------------------------
\* A second request for the same build finds the flag and does not read.
AskInv == \A b \in Build : asking[b] # "no" => ~cancel[b]

\* What the pass read into its list is still so when it comes to the build.
TodoInv ==
    /\ phase = "reap" => \A b \in todo \ raced : status[b] = "running"
    /\ phase = "cancel" => \A b \in todo : cancel[b] /\ (b \notin raced => status[b] \in {"queued", "running"})
    /\ at = "cancel" => cur \in todo
    /\ phase = "advance" => \A b \in todo : b # cur /\ (b \notin raced => status[b] = "running")

\* A cancel request between its read and its commit has not set the flag.
LEMMA AskStep == CoreInv /\ AskInv /\ [Next]_vars => AskInv'
<1> SUFFICES ASSUME CoreInv, AskInv, [Next]_vars, NEW c \in Build, asking'[c] # "no" PROVE ~cancel'[c]
  BY DEF AskInv
<1> USE DEF CoreInv, CoreTypes
<1>1. CASE UNCHANGED <<asking, cancel>>
  BY <1>1 DEF AskInv
<1>2. CASE UNCHANGED vars \/ \E b \in Build : Works(b)
  BY <1>1, <1>2, WorksFrame DEF vars, buildVars
<1>3. ASSUME NEW b \in Build, Handlers(b) PROVE ~cancel'[c]
  BY <1>3 DEF Handlers, Trigger, CancelRead, CancelCommit, TimePasses, AskInv, buildVars, RestTypes, BuildTypes
<1>4. CASE \E b \in Build : Agent(b) \/ Walks(b)
  BY <1>1, <1>4 DEF Agent, Claim, Report, Walks, BeginAdvance, BeginStep, Nudge, buildVars
<1>5. CASE Turns
  BY <1>1, <1>5 DEF Turns, NextPhase, TakeClaimed, StepRaises, Crash, StartPass, buildVars
<1> QED
  BY <1>2, <1>3, <1>4, <1>5, StepKinds

\* Apart from the reaper and the cancellations, a work is on the current build
\* and leaves the lists of the pass alone.
LEMMA WorksOnCur ==
    ASSUME CoreInv, NEW b \in Build, Works(b), ~Reap(b), ~CancelStage(b), ~ProcessCancel(b)
    PROVE  /\ cur = b /\ phase \notin {"idle", "reap", "cancel"} /\ at \notin {"idle", "cancel"}
           /\ todo' = todo
           /\ phase' = phase \/ (phase = "nudge" /\ phase' = "idle")
           /\ cur' \in {cur, NoBuild} /\ at' # "cancel"
<1> USE DEF CoreInv
<1>1. cur = b /\ at # "cancel" /\ todo' = todo
  BY DEF Works, Decide, StartRow, RowsStarted, Starting, PollStage, PollGroup, StopGroup, CloseGroup, Dispatch, AdvanceRaises,
         engineVars, EngineInv
<1>2. cur # NoBuild
  BY <1>1, Constants
<1>3. phase \notin {"idle", "reap", "cancel"} /\ at \notin {"idle", "cancel"}
  BY <1>1, <1>2 DEF EngineInv
<1> QED
  BY <1>1, <1>2, <1>3, WorksShape DEF WorkShape, Leave

\* The lists the pass has read stay true of the builds not yet looked at,
\* unless a cancel request raced with them.
LEMMA TodoStep == CoreInv /\ AskInv /\ TodoInv /\ [Next]_vars => TodoInv'
<1> SUFFICES ASSUME CoreInv, AskInv, TodoInv, [Next]_vars PROVE TodoInv'
  OBVIOUS
<1> USE DEF CoreInv, CoreTypes
<1>0. raced \subseteq raced' /\ todo \subseteq Build /\ NoBuild \notin Build
  BY RacedGrows, Constants DEF RestTypes
<1>1. CASE UNCHANGED vars
  BY <1>1 DEF vars, buildVars, engineVars, history, TodoInv
<1>2. ASSUME NEW b \in Build, Handlers(b) \/ Agent(b) PROVE TodoInv'
  <2>1. UNCHANGED <<phase, todo, cur, at>>
    BY <1>2, HandlersFrame DEF engineVars
  <2>2. ASSUME NEW c \in todo PROVE cancel[c] => cancel'[c]
    BY <1>0, <1>2, <2>2 DEF Handlers, Agent, Trigger, CancelRead, CancelCommit, TimePasses, Claim, Report, buildVars, BuildTypes
  <2>3. ASSUME NEW c \in todo \ raced', phase \in {"reap", "advance"} PROVE status'[c] = "running"
    <3>1. status[c] = "running" /\ c \in Build
      BY <1>0, <2>3 DEF TodoInv
    <3>2. ~(Trigger(b) /\ b = c)
      BY <3>1 DEF Trigger
    <3> QED
      BY <1>2, <2>3, <3>1, <3>2, HandlersOnBuild
  <2>4. ASSUME NEW c \in todo \ raced', phase = "cancel" PROVE status'[c] \in {"queued", "running"}
    <3>1. status[c] \in {"queued", "running"} /\ c \in Build /\ cancel[c]
      BY <1>0, <2>4 DEF TodoInv
    <3>2. ~(Trigger(b) /\ b = c) /\ asking[c] # "queued"
      BY <3>1 DEF Trigger, AskInv
    <3> QED
      BY <1>2, <2>4, <3>1, <3>2, HandlersOnBuild
  <2> QED
    BY <2>1, <2>2, <2>3, <2>4 DEF TodoInv
<1>3. CASE Turns
  <2>0. UNCHANGED <<status, cancel, raced>>
    BY <1>3, TurnsFrame
  <2>1. CASE NextPhase
    BY <1>0, <2>0, <2>1 DEF NextPhase, TodoInv, Active, EngineInv
  <2>2. CASE TakeClaimed
    BY <2>0, <2>2, Zenon DEF TakeClaimed, TodoInv, EngineInv
  <2>3. CASE StepRaises \/ Crash
    BY <2>0, <2>3 DEF StepRaises, Crash, Leave, TodoInv
  <2>4. CASE \E book, reap \in BOOLEAN : StartPass(book, reap)
    BY <2>0, <2>4 DEF StartPass, Stale, TodoInv, EngineInv
  <2> QED
    BY <1>3, <2>1, <2>2, <2>3, <2>4 DEF Turns
<1>4. ASSUME NEW b \in Build, Walks(b) PROVE TodoInv'
  <2>0. UNCHANGED <<status, cancel, raced>>
    BY <1>4, TurnsFrame
  <2>1. CASE BeginAdvance(b)
    BY <2>0, <2>1 DEF BeginAdvance, TodoInv
  <2>2. CASE BeginStep(b)
    <3>1. /\ cur = b /\ cur' \in {cur, NoBuild} /\ todo' = todo /\ at' # "cancel" /\ at \in {"look", "follow"}
          /\ phase' = phase \/ phase' = "idle"
      BY <2>2 DEF BeginStep, Goto, Leave
    <3>2. phase \notin {"reap", "cancel"}
      BY <3>1, <1>0 DEF EngineInv
    <3> QED
      BY <1>0, <2>0, <3>1, <3>2 DEF TodoInv
  <2>3. CASE Nudge(b)
    BY <2>0, <2>3 DEF Nudge, TodoInv
  <2> QED
    BY <1>4, <2>1, <2>2, <2>3 DEF Walks
<1>5. ASSUME NEW b \in Build, Works(b) PROVE TodoInv'
  <2>0. /\ UNCHANGED cancel
        /\ \A c \in Build \ {b} : status'[c] = status[c]
    BY <1>5, WorksFrame, WorksStatus
  <2>1. CASE Reap(b)
    <3>1. /\ phase = "reap" /\ phase' = "reap" /\ todo' = todo \ {b} /\ at' = at /\ at = "idle"
      BY <2>1 DEF Reap, EngineInv
    <3> QED
      BY <1>0, <2>0, <3>1 DEF TodoInv
  <2>2. CASE CancelStage(b)
    <3>1. /\ phase = "cancel" /\ phase' = "cancel" /\ todo' = todo /\ cur' = b /\ at' = "cancel"
          /\ UNCHANGED status /\ (b \in todo \/ cur = b)
      BY <2>2 DEF CancelStage, buildVars
    <3>2. b \in todo
      BY <1>0, <3>1 DEF EngineInv, TodoInv
    <3> QED
      BY <1>0, <2>0, <3>1, <3>2 DEF TodoInv
  <2>3. CASE ProcessCancel(b)
    <3>1. phase = "cancel" /\ phase' = "cancel" /\ todo' = todo \ {b} /\ at' = "idle"
      BY <2>3 DEF ProcessCancel, Leave
    <3> QED
      BY <1>0, <2>0, <3>1 DEF TodoInv
  <2>4. CASE ~Reap(b) /\ ~CancelStage(b) /\ ~ProcessCancel(b)
    <3>1. /\ cur = b /\ phase \notin {"idle", "reap", "cancel"} /\ todo' = todo
          /\ phase' = phase \/ phase' = "idle"
          /\ cur' \in {cur, NoBuild} /\ at' # "cancel"
      BY <1>5, <2>4, WorksOnCur
    <3> QED
      BY <1>0, <2>0, <3>1 DEF TodoInv
  <2> QED
    BY <2>1, <2>2, <2>3, <2>4
<1> QED
  BY <1>1, <1>2, <1>3, <1>4, <1>5, StepKinds

\* The invariant the outcomes rest on.
EngineSafe == CoreInv /\ AskInv /\ TodoInv

\* The invariant of the engine and of its lists holds in every behaviour.
LEMMA EngineSafeHolds == Spec => []EngineSafe
<1>1. Init => AskInv /\ TodoInv
  BY DEF Init, AskInv, TodoInv
<1> QED
  BY <1>1, AskStep, TodoStep, CoreHolds, PTL DEF Spec, EngineSafe

\* No step changes the status of an ended build the engine has left.
LEMMA FinalStep ==
    ASSUME EngineSafe, [Next]_vars, NEW b \in Build \ raced', status[b] \in Terminal, b # cur
    PROVE  status'[b] = status[b]
<1> USE DEF EngineSafe, CoreInv, CoreTypes
<1>1. CASE UNCHANGED vars \/ Turns \/ \E c \in Build : Walks(c)
  BY <1>1, TurnsFrame DEF vars, buildVars
<1>2. ASSUME NEW c \in Build, Handlers(c) \/ Agent(c) PROVE status'[b] = status[b]
  <2>1. ~(Trigger(c) /\ b = c)
    BY DEF Trigger, Terminal
  <2> QED
    BY <1>2, <2>1, HandlersOnBuild DEF Terminal
<1>3. ASSUME NEW c \in Build, Works(c), c # b PROVE status'[b] = status[b]
  BY <1>3, WorksStatus
<1>4. ASSUME Works(b) PROVE status'[b] = status[b]
  <2>0. b \notin raced
    BY RacedGrows
  <2>1. CASE Reap(b)
    BY <2>0, <2>1 DEF Reap, TodoInv, Terminal
  <2>2. CASE CancelStage(b)
    BY <2>2 DEF CancelStage, buildVars
  <2>3. CASE ProcessCancel(b)
    BY <2>0, <2>3 DEF ProcessCancel, TodoInv, Terminal
  <2> QED
    BY <1>4, <2>1, <2>2, <2>3, WorksOnCur
<1> QED
  BY <1>1, <1>2, <1>3, <1>4, StepKinds

\* Once a build has ended and the engine has left it, its outcome stays: no
\* later pass, reaper, cancellation or nudge decides it again (_finish_build),
\* unless a cancel request wrote over it.
THEOREM FinalOutcomes == Spec => OutcomeIsFinal
<1>1. EngineSafe /\ [Next]_vars =>
        [\A b \in Build \ raced' : status[b] \in Terminal /\ b # cur => status'[b] = status[b]]_vars
  BY FinalStep
<1> QED
  BY <1>1, EngineSafeHolds, PTL DEF Spec, OutcomeIsFinal

---------------------------------------------------------------------------
(* The engine keeps the promise of its queue.                              *)

\* What the engine has in hand was let in and may have been decided, or is being
\* claimed and may have been withdrawn, unless a cancel request raced with it.
PlaceInv ==
    /\ at = "claim" => phase = "dispatch"
    /\ cur \in Build \ raced /\ at = "claim" => status[cur] \in {"queued", "cancelled"}
    /\ cur \in Build \ raced /\ at \notin {"claim", "cancel"} =>
          status[cur] = "running" \/ status[cur] \in Terminal

\* No step takes up a build that was not let in, nor sends one back to wait.
LEMMA PlaceInvStep == EngineSafe /\ PlaceInv /\ [Next]_vars => PlaceInv'
<1> SUFFICES ASSUME EngineSafe, PlaceInv, [Next]_vars PROVE PlaceInv'
  OBVIOUS
<1> USE DEF EngineSafe, CoreInv, CoreTypes
<1>0. raced \subseteq raced' /\ NoBuild \notin Build
  BY RacedGrows, Constants
<1>1. CASE UNCHANGED vars
  BY <1>1 DEF vars, buildVars, engineVars, history, PlaceInv
<1>2. ASSUME NEW b \in Build, Handlers(b) \/ Agent(b) PROVE PlaceInv'
  <2>1. UNCHANGED <<phase, cur, at>>
    BY <1>2, HandlersFrame DEF engineVars
  <2>2. CASE cur \in Build
    <3>1. ~(Trigger(b) /\ b = cur)
      BY <2>2 DEF EngineInv, Trigger
    <3>2. status'[cur] = status[cur] \/ status'[cur] = "cancelled"
      BY <1>2, <2>2, <3>1, HandlersOnBuild
    <3> QED
      BY <1>0, <2>1, <3>2 DEF PlaceInv, Terminal
  <2> QED
    BY <2>1, <2>2 DEF PlaceInv
<1>3. CASE Turns \/ \E b \in Build : Walks(b)
  <2>1. TurnShape /\ UNCHANGED <<status, raced>>
    BY <1>3, TurnsShape, TurnsFrame
  <2>2. at = "claim" => cur # NoBuild
    BY DEF EngineInv
  <2> QED
    BY <1>0, <2>1, <2>2 DEF TurnShape, Leave, PlaceInv, TodoInv
<1>4. ASSUME NEW b \in Build, Works(b) PROVE PlaceInv'
  <2>1. WorkShape(b) /\ status'[b] \in Status
    BY <1>4, WorksShape, WorksStatus DEF StatusTypes
  <2>2. \A c \in Build \ {b} : status'[c] = status[c]
    BY <1>4, WorksStatus
  <2>3. status'[b] = status[b] \/ status'[b] \in Terminal \/ status'[b] = "running"
    BY <1>4, WorksStatus
  <2>4. CASE Reap(b)
    BY <1>0, <2>4 DEF Reap, EngineInv, PlaceInv
  <2>5. CASE CancelStage(b) \/ ProcessCancel(b)
    BY <1>0, <2>5 DEF CancelStage, ProcessCancel, Leave, PlaceInv
  <2>6. CASE Dispatch(b)
    <3>1. at' = "idle" \/ (at' = "launch" /\ status'[b] = "running" /\ cur' = b)
      BY <2>6 DEF Dispatch, Leave, Goto, StatusTypes
    <3> QED
      BY <1>0, <3>1, EngineStep DEF PlaceInv, EngineInv
  <2>7. CASE ~Reap(b) /\ ~CancelStage(b) /\ ~ProcessCancel(b) /\ ~Dispatch(b)
    <3>1. cur = b /\ cur' \in {cur, NoBuild} /\ at # "cancel" /\ at' # "cancel"
      BY <1>4, <2>7, WorksOnCur
    <3>2. at' # "claim"
      BY <1>4, <2>7 DEF Works, Decide, StartRow, Starting, RowsStarted, PollStage, PollGroup, StopGroup, CloseGroup,
                   AdvanceRaises, Leave, Goto, engineVars
    <3>3. at = "claim" => cur' = NoBuild
      BY <2>7, <1>4 DEF Works, Decide, StartRow, Starting, RowsStarted, PollStage, PollGroup, StopGroup, CloseGroup,
                   AdvanceRaises, Leave, PlaceInv
    <3> QED
      BY <1>0, <2>3, <3>1, <3>2, <3>3 DEF PlaceInv
  <2> QED
    BY <2>4, <2>5, <2>6, <2>7
<1> QED
  BY <1>1, <1>2, <1>3, <1>4, StepKinds

\* A step that moves one build from its place, or none, is a step of the queue
\* when that move is.
LEMMA OneMoves ==
    ASSUME NEW b \in Build, \A c \in Build \ {b} : Place(c)' = Place(c)
    PROVE  /\ Where' = [Where EXCEPT ![b] = Place(b)']
           /\ Place(b)' = Place(b) => Where' = Where
BY DEF Where

\* The moves the queue knows.
LEMMA QueueMoves ==
    ASSUME NEW b \in Build, \A c \in Build \ {b} : Place(c)' = Place(c)
    PROVE  /\ Place(b)' = Place(b) /\ raced' = raced => UNCHANGED Queue!vars
           /\ Place(b) = "none" /\ Place(b)' = "queued" /\ raced' = raced => Queue!Next
           /\ Place(b) = "queued" /\ Place(b)' = "cancelled" /\ raced' = raced => Queue!Next
           /\ Place(b) = "queued" /\ Place(b)' = "running" /\ raced' = raced /\ Queue!Room(b) => Queue!Next
           /\ Place(b) = "running" /\ Place(b)' \in Terminal /\ raced' = raced => Queue!Next
           /\ Place(b) \notin {"none", "queued"} /\ Place(b)' = "cancelled" /\ raced' = raced \cup {b} => Queue!Next
           /\ Place(b) = "cancelled" /\ Place(b)' = "running" /\ Queue!Room(b) /\ raced' = raced \cup {b} => Queue!Next
           /\ b \in raced /\ Place(b)' \in Terminal /\ raced' = raced => Queue!Next
           /\ b \in raced /\ Place(b)' = "running" /\ raced' = raced /\ Queue!Room(b) => Queue!Next
<1>1. Where' = [Where EXCEPT ![b] = Place(b)'] /\ Where[b] = Place(b)
      /\ (Place(b)' = Place(b) => Where' = Where)
  BY OneMoves DEF Where
<1>2. Terminal = Queue!Ended
  BY DEF Terminal, Queue!Ended
<1> QED
  BY <1>1, <1>2 DEF Queue!Next, Queue!Ask, Queue!LetIn, Queue!Withdraw, Queue!End, Queue!Cross, Queue!Stray, Queue!Moves,
     Queue!vars, Where

\* Where the engine has nothing in hand, or is claiming, builds are where their
\* status says, and the room it counts is the room there is.
LEMMA RoomCounted ==
    ASSUME NEW b \in Build, cur = NoBuild \/ at = "claim",
           Cardinality(RunningFor(Service[b])) < ServiceCap[Service[b]]
    PROVE  Queue!Room(b)
<1>1. \A c \in Build : Where[c] = status[c]
  BY Constants DEF Where, Place
<1>2. {c \in Build : Where[c] = "running" /\ Service[c] = Service[b]} = RunningFor(Service[b])
  BY <1>1 DEF RunningFor
<1> QED
  BY <1>2, Zenon DEF Queue!Room, Queue!Cardinality, Cardinality

\* Builds other than the one a step is about, with the engine at that one or at
\* none, or not moving, stay where they are.
LEMMA OthersStay ==
    ASSUME NEW b \in Build, \A c \in Build \ {b} : status'[c] = status[c] /\ (c \in raced <=> c \in raced'),
           (cur \in {NoBuild, b} /\ cur' \in {NoBuild, b}) \/ UNCHANGED <<cur, at>>
    PROVE  \A c \in Build \ {b} : Place(c)' = Place(c)
BY Constants DEF Place

\* A request, or an agent, moves a build in the queue only by asking for it or by
\* cancelling it.
LEMMA HandlersInQueue ==
    ASSUME EngineSafe, PlaceInv, NEW b \in Build, Handlers(b) \/ Agent(b)
    PROVE  Queue!Next \/ UNCHANGED Queue!vars
<1> USE DEF EngineSafe, CoreInv, CoreTypes
<1>1. UNCHANGED <<phase, cur, at>>
  BY HandlersFrame DEF engineVars
<1>2. CASE Trigger(b)
  <2>1. status[b] = "none" /\ status' = [status EXCEPT ![b] = "queued"] /\ raced' = raced
    BY <1>2, TriggerMoves DEF history
  <2>2. b # cur
    BY <2>1 DEF EngineInv
  <2>3. \A c \in Build \ {b} : Place(c)' = Place(c)
    BY <1>1, <2>1, OthersStay DEF StatusTypes
  <2>4. Place(b) = "none" /\ Place(b)' = "queued"
    BY <1>1, <2>1, <2>2 DEF Place, StatusTypes
  <2> QED
    BY <2>1, <2>3, <2>4, QueueMoves
<1>3. CASE CancelCommit(b) /\ asking[b] = "queued"
  <2>1. /\ status' = [status EXCEPT ![b] = "cancelled"] /\ status[b] # "none" /\ ~cancel[b]
        /\ raced' = IF status[b] # "queued" THEN raced \cup {b} ELSE raced
    BY <1>3 DEF CancelCommit, SnapshotInv, AskInv
  <2>2. \A c \in Build \ {b} : Place(c)' = Place(c)
    BY <1>1, <2>1, OthersStay DEF StatusTypes
  <2>3. at = "cancel" => b # cur
    BY <2>1 DEF TodoInv, EngineInv
  <2>4. CASE status[b] = "queued"
    <3>1. Place(b) = "queued" /\ Place(b)' = "cancelled"
      BY <1>1, <2>1, <2>3, <2>4 DEF Place, PlaceInv, StatusTypes, Terminal
    <3> QED
      BY <2>1, <2>2, <2>4, <3>1, QueueMoves
  <2>5. CASE status[b] # "queued"
    <3>1. Place(b) \notin {"none", "queued"} /\ Place(b)' = "cancelled"
      BY <1>1, <2>1, <2>5 DEF Place, StatusTypes
    <3> QED
      BY <2>1, <2>2, <2>5, <3>1, QueueMoves
  <2> QED
    BY <2>4, <2>5
<1>4. CASE CancelRead(b) \/ TimePasses(b) \/ Agent(b) \/ (CancelCommit(b) /\ asking[b] # "queued")
  <2>1. UNCHANGED <<status, raced>>
    BY <1>4 DEF CancelRead, TimePasses, Agent, Claim, Report, CancelCommit, buildVars, history
  <2>2. \A c \in Build : Place(c)' = Place(c)
    BY <1>1, <2>1 DEF Place
  <2> QED
    BY <2>1, <2>2, QueueMoves
<1> QED
  BY <1>2, <1>3, <1>4 DEF Handlers

\* A turn of the pass, and a walk, move a build only by leaving one that was decided.
LEMMA TurnsInQueue ==
    ASSUME EngineSafe, PlaceInv, Turns \/ \E b \in Build : Walks(b)
    PROVE  Queue!Next \/ UNCHANGED Queue!vars
<1> USE DEF EngineSafe, CoreInv, CoreTypes
<1>1. TurnShape /\ UNCHANGED <<status, raced>>
  BY TurnsShape, TurnsFrame
<1>2. CASE cur = NoBuild
  <2>1. ASSUME NEW c \in Build PROVE Place(c)' = Place(c)
    BY <1>1, <1>2, Constants DEF TurnShape, Leave, Place, TodoInv, Terminal
  <2> QED
    BY <1>1, <2>1, QueueMoves DEF Where, Queue!vars
<1>3. CASE cur \in Build /\ cur' = NoBuild
  <2>0. PICK b \in Build : b = cur
    BY <1>3
  <2>1. \A c \in Build \ {b} : Place(c)' = Place(c)
    BY <1>1, <1>3, <2>0, OthersStay
  <2>2. Place(b)' = Place(b) \/ (Place(b) = "running" /\ Place(b)' \in Terminal)
    BY <1>1, <1>3, <2>0, Constants DEF Place
  <2> QED
    BY <1>1, <2>1, <2>2, QueueMoves
<1>4. CASE cur \in Build /\ cur' # NoBuild
  <2>1. UNCHANGED cur /\ (at' = at \/ (at # "claim" /\ at' # "claim"))
    BY <1>1, <1>4, Constants DEF TurnShape, Leave
  <2>2. \A c \in Build : Place(c)' = Place(c)
    BY <1>1, <2>1 DEF Place
  <2> QED
    BY <1>1, <2>2 DEF Where, Queue!vars
<1> QED
  BY <1>2, <1>3, <1>4 DEF EngineInv

\* A dispatch lets a build in when there is room, or puts it back.
LEMMA DispatchInQueue ==
    ASSUME EngineSafe, PlaceInv, NEW b \in Build, Dispatch(b)
    PROVE  Queue!Next \/ UNCHANGED Queue!vars
<1> USE DEF EngineSafe, CoreInv, CoreTypes
<1>1. cur = b /\ at = "claim" /\ Place(b) = status[b]
  BY DEF Dispatch, Place
<1>2. CASE UNCHANGED <<status, raced>> /\ cur' = NoBuild
  <2>1. \A c \in Build : Place(c)' = Place(c)
    BY <1>1, <1>2, Constants DEF Place
  <2> QED
    BY <1>2, <2>1 DEF Where, Queue!vars
<1>3. CASE ~(UNCHANGED <<status, raced>> /\ cur' = NoBuild)
  <2>1. /\ Cardinality(RunningFor(Service[b])) < ServiceCap[Service[b]]
        /\ status' = [status EXCEPT ![b] = "running"] /\ UNCHANGED cur
        /\ raced' = IF status[b] # "queued" THEN raced \cup {b} ELSE raced
    BY <1>3 DEF Dispatch, Leave, Goto
  <2>2. \A c \in Build \ {b} : Place(c)' = Place(c)
    BY <1>1, <2>1, OthersStay DEF StatusTypes
  <2>3. Queue!Room(b) /\ Place(b)' = "running"
    BY <1>1, <2>1, RoomCounted DEF Place, StatusTypes, Terminal
  <2>4. status[b] \in {"queued", "cancelled"} \/ b \in raced
    BY <1>1 DEF PlaceInv
  <2> QED
    BY <1>1, <2>1, <2>2, <2>3, <2>4, QueueMoves
<1> QED
  BY <1>2, <1>3

\* Every other work moves at most its own build, from running to its end or, when
\* it cancels, from the queue.
LEMMA WorksInQueue ==
    ASSUME EngineSafe, PlaceInv, NEW b \in Build, Works(b), ~Dispatch(b)
    PROVE  Queue!Next \/ UNCHANGED Queue!vars
<1> USE DEF EngineSafe, CoreInv, CoreTypes
<1>1. raced' = raced
  BY DEF Works, Reap, CancelStage, ProcessCancel, Decide, StartRow, RowsStarted, PollStage, PollGroup,
     StopGroup, CloseGroup, AdvanceRaises, history
<1>2. /\ \A c \in Build \ {b} : status'[c] = status[c]
      /\ status'[b] = status[b] \/ status'[b] \in Terminal
  BY WorksStatus
<1>3. cur \in {NoBuild, b} /\ cur' \in {NoBuild, b}
  <2>1. CASE Reap(b)
    BY <2>1 DEF Reap, EngineInv
  <2>2. CASE CancelStage(b) \/ ProcessCancel(b)
    BY <2>2 DEF CancelStage, ProcessCancel, Leave
  <2> QED
    BY <2>1, <2>2, WorksOnCur
<1>4. \A c \in Build \ {b} : Place(c)' = Place(c)
  BY <1>1, <1>2, <1>3, OthersStay
<1>5. CASE b \in raced
  <2>1. Place(b) = status[b] /\ Place(b)' = status'[b]
    BY <1>1, <1>5 DEF Place
  <2> QED
    BY <1>1, <1>2, <1>4, <1>5, <2>1, QueueMoves
<1>6. CASE b \notin raced /\ (Reap(b) \/ ProcessCancel(b))
  <2>1. b # NoBuild /\ status[b] \in {"queued", "running"} /\ cur' = NoBuild
    BY <1>6, Constants DEF Reap, ProcessCancel, TodoInv, EngineInv, Leave
  <2>2. Place(b) = status[b] /\ Place(b)' = status'[b]
    BY <2>1 DEF Place, Terminal
  <2>3. \/ status[b] = "running" /\ status'[b] \in Terminal
        \/ status'[b] = "cancelled"
    BY <1>6 DEF Reap, ProcessCancel, Finish, TodoInv, StatusTypes, Terminal
  <2> QED
    BY <1>1, <1>4, <2>1, <2>2, <2>3, QueueMoves DEF Terminal
<1>7. CASE b \notin raced /\ CancelStage(b)
  <2>1. b \in todo /\ UNCHANGED status
    BY <1>7, Constants DEF CancelStage, TodoInv, EngineInv, buildVars
  <2>2. Place(b) = status[b] /\ Place(b)' = status'[b]
    BY <1>7, <2>1 DEF Place, Terminal, TodoInv, CancelStage
  <2> QED
    BY <1>1, <1>4, <2>1, <2>2, QueueMoves
<1>8. CASE b \notin raced /\ ~Reap(b) /\ ~ProcessCancel(b) /\ ~CancelStage(b)
  <2>1. cur = b /\ at \notin {"idle", "cancel"}
    BY <1>8, WorksOnCur
  <2>2. at # "claim"
    BY <1>8 DEF Works, Decide, StartRow, Starting, RowsStarted, PollStage, PollGroup, StopGroup, CloseGroup,
       AdvanceRaises, PlaceInv
  <2>3. Place(b) = "running"
    BY <1>8, <2>1, <2>2 DEF Place, PlaceInv
  <2>4. Place(b)' = "running" \/ Place(b)' \in Terminal
    BY <1>2, <1>8, <2>1, <2>2 DEF Place, PlaceInv
  <2> QED
    BY <1>1, <1>4, <2>3, <2>4, QueueMoves
<1> QED
  BY <1>5, <1>6, <1>7, <1>8

\* A build is let in when its service has room, ends once, and never runs when it
\* was withdrawn (claim_next, _dispatch_queued, _finish_build, cancel_build), unless
\* its cancel crossed its dispatch: CiEngine implements BuildQueue.
THEOREM EngineKeepsQueue == Spec => KeepsTheQueue
<1>1. Init => PlaceInv /\ Queue!Init
  BY Constants DEF Init, PlaceInv, Queue!Init, Where, Place, Terminal
<1>2. EngineSafe /\ PlaceInv /\ [Next]_vars => [Queue!Next]_(Queue!vars)
  <2> SUFFICES ASSUME EngineSafe, PlaceInv, [Next]_vars PROVE Queue!Next \/ UNCHANGED Queue!vars
    OBVIOUS
  <2>1. CASE UNCHANGED vars
    BY <2>1 DEF vars, buildVars, engineVars, history, Queue!vars, Where, Place
  <2> QED
    BY <2>1, StepKinds, TurnsInQueue, HandlersInQueue, DispatchInQueue, WorksInQueue
<1> QED
  BY <1>1, <1>2, PlaceInvStep, EngineSafeHolds, PTL DEF Spec, KeepsTheQueue, Queue!Spec
===============================================================================
