------------------------- MODULE CiStages_proofs --------------------------
(***************************************************************************)
(* What CiEngine.tla promises of the stages inside a build: steps are      *)
(* barriers, outcomes say what the stages say, the tasks of the agents     *)
(* match the stages they belong to, nothing starts behind a failed step,   *)
(* and every agent's stage keeps StageContract.                            *)
(***************************************************************************)
EXTENDS CiBuilds_proofs

\* The rows in hand are a step, with everything before it over when it starts.
StepInv ==
    /\ at \in {"walk", "join", "launch", "poll", "stop", "close"} =>
          \E s \in Stages(cur) : rows = StepRows(cur, s)
    /\ at = "stop" => StopsFast(plan[cur], rows)
    /\ Starting => \A s \in rows : \A i \in 1..(s - 1) : stage[cur][i] \in StageOver \/ i \in rows

\* Only stages of agents that were started have tasks.
TaskInv == \A b \in Build : \A s \in Stages(b) :
    task[b][s] # "none" => stage[b][s] # "pending" /\ plan[b][s].kind = "agent"

\* Whatever is cancelled has its reason: a request, or a failure of its group.
HonestInv == \A b \in Build : \A s \in Stages(b) :
    /\ stage[b][s] = "cancelled" => cancel[b] \/ StoppedByFailFast(plan[b], stage[b], s)
    /\ stage[b][s] = "running" /\ task[b][s] = "cancelled" => cancel[b]

\* A task waits for an agent only behind a running stage, or in a build that was
\* timed out or failed and that the engine has let go of.
QueuedInv ==
    /\ \A b \in Build \ raced : \A s \in Stages(b) :
          task[b][s] = "queued" => stage[b][s] = "running" \/ status[b] \in {"timeout", "failed"}
    /\ cur \in Build \ raced =>
          \A s \in Stages(cur) : task[cur][s] = "queued" => stage[cur][s] = "running"
    /\ at = "cancel" => \A s \in rows : task[cur][s] # "queued"

---------------------------------------------------------------------------
\* A stage that is over stays as it is.
LEMMA OverStays ==
    ASSUME CoreInv, [Next]_vars, NEW c \in Build, status[c] # "none"
    PROVE  \A s \in Stages(c) : stage[c][s] \in StageOver => stage'[c][s] = stage[c][s]
<1>1. ASSUME NEW b \in Build, Trigger(b) PROVE stage'[c] = stage[c]
  <2>1. stage' = [d \in Build |-> IF d = b THEN stage'[b] ELSE stage[d]] /\ status[b] = "none"
    BY <1>1, TriggerMoves DEF CoreInv
  <2> QED
    BY <2>1
<1> QED
  BY <1>1, RowsMove DEF Moves, RowMoves

\* Only its dispatch decides how the groups of a build run.
LEMMA ModeStays ==
    ASSUME CoreInv, [Next]_vars, NEW c \in Build, ~Dispatch(c)
    PROVE  mode'[c] = mode[c]
<1>1. ASSUME NEW b \in Build, Works(b) PROVE mode'[c] = mode[c]
  BY <1>1 DEF Works, Reap, CancelStage, ProcessCancel, Decide, StartRow, RowsStarted, PollStage, PollGroup,
     StopGroup, CloseGroup, Dispatch, AdvanceRaises, buildVars, CoreInv, CoreTypes, BuildTypes
<1> QED
  BY <1>1, StepKinds, TurnsFrame, HandlersFrame DEF vars, buildVars

\* Every member of a group has that group.
LEMMA SameGroup ==
    ASSUME BuildTypes, NEW b \in Build, NEW s \in Stages(b), NEW i \in GroupOf(plan[b], s)
    PROVE  GroupOf(plan[b], i) = GroupOf(plan[b], s)
BY DEF GroupOf, Stages

\* A group has no gaps: what a valid pipeline promises of it.
LEMMA GroupConvex ==
    ASSUME BuildTypes, NEW b \in Build, NEW s \in Stages(b), NEW j \in GroupOf(plan[b], s),
           NEW i \in Stages(b), s <= i, i <= j
    PROVE  i \in GroupOf(plan[b], s)
<1>1. s \in Nat /\ i \in Nat /\ j \in Nat /\ j \in Stages(b)
  BY PlanFacts DEF GroupOf, Stages
<1>2. CASE j = s
  BY <1>1, <1>2 DEF GroupOf, Stages
<1>3. CASE j # s
  <2>1. plan[b][s].group # 0 /\ plan[b][j].group = plan[b][s].group /\ s < j
    BY <1>1, <1>3 DEF GroupOf
  <2>2. plan[b][i].group = plan[b][s].group
    BY <1>1, <2>1, PlanFacts DEF Valid, Stages
  <2> QED
    BY <2>1, <2>2 DEF GroupOf, Stages
<1> QED
  BY <1>2, <1>3

\* Before the step of the current stage everything is over.
LEMMA StepIsClear ==
    ASSUME BuildTypes, RowTypes, NEW b \in Build, Current(stage[b]) # 0,
           NEW j \in StepRows(b, Current(stage[b])), NEW i \in 1..(j - 1)
    PROVE  stage[b][i] \in StageOver \/ i \in StepRows(b, Current(stage[b]))
<1> DEFINE s == Current(stage[b])
<1>1. s \in Stages(b) /\ \A x \in Stages(b) : x < s => stage[b][x] \in StageOver
  BY CurrentFacts
<1> HIDE DEF s
<1>2. StepRows(b, s) \subseteq Stages(b) /\ j \in StepRows(b, s)
  BY <1>1, StepFacts DEF s
<1>3. s \in Nat /\ j \in Nat /\ j \in Stages(b) /\ i \in Stages(b) /\ i \in Nat /\ i < j
  BY <1>1, <1>2, PlanFacts DEF Stages
<1>4. CASE i < s
  BY <1>1, <1>3, <1>4
<1>5. CASE s <= i
  <2>1. j # s
    BY <1>3, <1>5
  <2>2. StepRows(b, s) = GroupOf(plan[b], s)
    BY <1>2, <2>1 DEF StepRows
  <2>3. i \in GroupOf(plan[b], s)
    BY <1>1, <1>2, <1>3, <1>5, <2>2, GroupConvex
  <2> QED
    BY <2>2, <2>3 DEF s
<1> QED
  BY <1>3, <1>4, <1>5

\* A step being started stays clear while the engine stays at it.
LEMMA StepSame ==
    ASSUME CoreInv, StepInv, [Next]_vars, at' = at, cur' = cur, rows' = rows, \A c \in Build : ~Dispatch(c)
    PROVE  StepInv'
<1>1. CASE cur \notin Build
  <2>1. at = "idle"
    BY <1>1 DEF CoreInv, EngineInv
  <2> QED
    BY <2>1 DEF StepInv, Starting
<1>2. CASE cur \in Build
  <2>1. status[cur] # "none" /\ rows \subseteq Stages(cur)
    BY <1>2 DEF CoreInv, EngineInv
  <2>2. plan'[cur] = plan[cur] /\ mode'[cur] = mode[cur]
        /\ \A s \in Stages(cur) : stage[cur][s] \in StageOver => stage'[cur][s] = stage[cur][s]
    BY <1>2, <2>1, LiveStays, OverStays, ModeStays
  <2>3. \A s \in rows : \A i \in 1..(s - 1) : i \in Stages(cur)
    BY <1>2, <2>1, PlanFacts DEF CoreInv, CoreTypes, Stages
  <2>4. Stages(cur)' = Stages(cur) /\ \A s : StepRows(cur, s)' = StepRows(cur, s)
    BY <2>2 DEF Stages, StepRows
  <2>5. StopsFast(plan[cur], rows)' = StopsFast(plan[cur], rows)
    BY <2>2 DEF StopsFast
  <2> QED
    BY <2>2, <2>3, <2>4, <2>5 DEF StepInv, Starting
<1> QED
  BY <1>1, <1>2

\* The engine moves from step to step and from row to row of a step, and never
\* starts rows behind an open one.
LEMMA StepInvStep == CoreInv /\ StepInv /\ [Next]_vars => StepInv'
<1> SUFFICES ASSUME CoreInv, StepInv, [Next]_vars PROVE StepInv'
  OBVIOUS
<1> USE DEF CoreInv, CoreTypes
<1>1. CASE at' \in {"idle", "look", "follow", "claim", "cancel"}
  BY <1>1 DEF StepInv, Starting
<1>2. CASE UNCHANGED engineVars /\ \A c \in Build : ~Dispatch(c)
  BY <1>2, StepSame DEF engineVars
<1>3. ASSUME NEW b \in Build, Handlers(b) \/ Agent(b) PROVE StepInv'
  <2>1. CASE at = "claim"
    BY <1>1, <1>3, <2>1, HandlersFrame DEF engineVars
  <2>2. CASE at # "claim"
    BY <1>2, <1>3, <2>2, HandlersFrame DEF Dispatch
  <2> QED
    BY <2>1, <2>2
<1>4. ASSUME NEW b \in Build, BeginStep(b), at' \in {"walk", "join"} PROVE StepInv'
  <2> DEFINE s == Current(stage[b])
  <2>1. /\ cur = b /\ cur' = b /\ s # 0 /\ rows' = StepRows(b, s)
        /\ UNCHANGED <<plan, mode, stage>>
    BY <1>4 DEF BeginStep, Goto, Leave, buildVars, stageVars
  <2>2. s \in Stages(b)
    BY <2>1, CurrentFacts
  <2>3. \A j \in rows' : \A i \in 1..(j - 1) : stage[b][i] \in StageOver \/ i \in rows'
    BY <2>1, StepIsClear
  <2> HIDE DEF s
  <2>4. \E x \in Stages(b)' : rows' = StepRows(b, x)'
    BY <2>1, <2>2 DEF Stages, StepRows
  <2> QED
    BY <1>4, <2>1, <2>3, <2>4 DEF StepInv, Starting
<1>5. CASE Turns \/ \E b \in Build : BeginAdvance(b) \/ Nudge(b)
  <2>1. at' \in {"idle", "look", "claim"} \/ (UNCHANGED <<at, cur, rows>> /\ at' = "idle")
    BY <1>5 DEF Turns, NextPhase, TakeClaimed, StepRaises, Crash, StartPass, BeginAdvance, Nudge, Leave, EngineInv
  <2> QED
    BY <1>1, <2>1
<1>6. ASSUME NEW b \in Build, RowsStarted(b) PROVE StepInv'
  <2> DEFINE s == Current(stage[b])
  <2>1. /\ cur = b /\ UNCHANGED <<plan, mode, stage>>
        /\ \/ Leave
           \/ s # 0 /\ Goto("walk", StepRows(b, s))
           \/ at = "join" /\ Goto("poll", rows)
           \/ Goto("look", {})
    BY <1>6 DEF RowsStarted, stageVars
  <2>2. CASE Leave \/ Goto("look", {})
    BY <1>1, <2>2 DEF Leave, Goto
  <2>3. CASE at = "join" /\ Goto("poll", rows)
    BY <2>1, <2>3 DEF StepInv, Goto, Starting, Stages, StepRows
  <2>4. CASE s # 0 /\ Goto("walk", StepRows(b, s))
    <3>1. s \in Stages(b) /\ rows' = StepRows(b, s) /\ cur' = b /\ at' = "walk"
      BY <2>1, <2>4, CurrentFacts DEF Goto
    <3>2. \A j \in rows' : \A i \in 1..(j - 1) : stage[b][i] \in StageOver \/ i \in rows'
      BY <2>4, <3>1, StepIsClear
    <3> HIDE DEF s
    <3>3. \E x \in Stages(b)' : rows' = StepRows(b, x)'
      BY <2>1, <3>1 DEF Stages, StepRows
    <3> QED
      BY <2>1, <3>1, <3>2, <3>3 DEF StepInv, Starting
  <2> QED
    BY <2>1, <2>2, <2>3, <2>4
<1>7. ASSUME NEW b \in Build, PollGroup(b) PROVE StepInv'
  <2> DEFINE s == Current(stage[b])
             g == IF at = "poll" THEN rows ELSE StepRows(b, s)
  <2>1. /\ cur = b /\ (at = "poll" \/ (at = "look" /\ s # 0)) /\ UNCHANGED <<plan, mode>>
        /\ Goto(IF StopsFast(plan[b], g) THEN "stop" ELSE "close", g)
    BY <1>7 DEF PollGroup, buildVars
  <2>2. \E x \in Stages(b) : g = StepRows(b, x)
    BY <2>1, CurrentFacts DEF StepInv
  <2> HIDE DEF g
  <2>3. rows' = g /\ cur' = b /\ at' = IF StopsFast(plan[b], g) THEN "stop" ELSE "close"
    BY <2>1 DEF Goto
  <2>4. \E x \in Stages(b)' : rows' = StepRows(b, x)'
    BY <2>1, <2>2, <2>3 DEF Stages, StepRows
  <2>5. at' \in {"stop", "close"} /\ (at' = "stop" => StopsFast(plan[b], g))
    BY <2>3
  <2>6. at' = "stop" => StopsFast(plan[b], rows)'
    BY <2>1, <2>3, <2>5 DEF StopsFast
  <2> QED
    BY <2>1, <2>3, <2>4, <2>5, <2>6 DEF StepInv, Starting
<1>8. ASSUME NEW b \in Build, StopGroup(b) PROVE StepInv'
  <2>1. cur = b /\ at = "stop" /\ cur' = b /\ at' = "close" /\ rows' = rows /\ UNCHANGED <<plan, mode>>
    BY <1>8 DEF StopGroup, Goto, buildVars
  <2> QED
    BY <2>1 DEF StepInv, Starting, Stages, StepRows
<1>9. ASSUME NEW b \in Build, Dispatch(b), at' = "launch" PROVE StepInv'
  <2>1. PICK m \in Modes : /\ mode' = [mode EXCEPT ![b] = m] /\ cur = b /\ cur' = b /\ UNCHANGED plan
                           /\ rows' = IF m = "parallel" THEN GroupOf(plan[b], 1) ELSE {1}
    BY <1>9 DEF Dispatch, Goto, Leave
  <2>2. 1 \in Stages(b)
    <3>1. plan[b] \in Plans[b]
      BY <2>1 DEF EngineInv, SnapshotInv
    <3>2. Len(plan[b]) > 0 /\ Len(plan[b]) \in Nat
      BY <3>1, PlanFacts, EngineAssumption
    <3> QED
      BY <3>2 DEF Stages
  <2>3. mode'[b] = m
    BY <2>1 DEF BuildTypes
  <2>4. 1 \in Stages(b)' /\ rows' = StepRows(b, 1)'
    BY <2>1, <2>2, <2>3 DEF Stages, StepRows
  <2>5. \A j \in rows' : \A i \in 1..(j - 1) : i \in rows'
    <3> SUFFICES ASSUME NEW j \in rows', NEW i \in 1..(j - 1) PROVE i \in rows'
      OBVIOUS
    <3>1. CASE m = "parallel"
      <4>1. j \in GroupOf(plan[b], 1) /\ j \in Stages(b) /\ j \in Nat
        BY <2>1, <3>1, PlanFacts DEF GroupOf, Stages
      <4>2. i \in Stages(b) /\ 1 <= i /\ i <= j
        BY <4>1, PlanFacts DEF Stages
      <4>3. i \in GroupOf(plan[b], 1)
        BY <2>2, <4>1, <4>2, GroupConvex
      <4> QED
        BY <2>1, <3>1, <4>3
    <3>2. CASE m # "parallel"
      BY <2>1, <3>2
    <3> QED
      BY <3>1, <3>2
  <2> QED
    BY <1>9, <2>1, <2>4, <2>5 DEF StepInv, Starting
<1>10. ASSUME NEW b \in Build, Reap(b) \/ StartRow(b) PROVE StepInv'
  <2>1. UNCHANGED <<at, cur, rows>> /\ at # "claim"
    BY <1>10 DEF Reap, StartRow, Starting, engineVars, EngineInv
  <2> QED
    BY <2>1, StepSame DEF Dispatch
<1>11. ASSUME NEW b \in Build, CancelStage(b) \/ ProcessCancel(b) \/ Decide(b) \/ PollStage(b) \/ CloseGroup(b)
              \/ AdvanceRaises(b) \/ (Dispatch(b) /\ at' # "launch")
       PROVE StepInv'
  <2>1. at' \in {"idle", "follow", "cancel"}
    BY <1>11 DEF CancelStage, ProcessCancel, Decide, PollStage, CloseGroup, AdvanceRaises, Dispatch, Leave, Goto
  <2> QED
    BY <1>1, <2>1
<1>12. ASSUME NEW b \in Build, BeginStep(b), at' \notin {"walk", "join"} PROVE StepInv'
  BY <1>1, <1>12 DEF BeginStep, Goto, Leave
<1>13. CASE UNCHANGED vars
  <2>1. CASE at = "claim"
    BY <1>1, <1>13, <2>1 DEF vars, engineVars
  <2>2. CASE at # "claim"
    BY <1>2, <1>13, <2>2 DEF Dispatch, vars
  <2> QED
    BY <2>1, <2>2
<1> QED
  BY <1>3, <1>4, <1>5, <1>6, <1>7, <1>8, <1>9, <1>10, <1>11, <1>12, <1>13, StepKinds DEF Walks, Works

---------------------------------------------------------------------------
\* A row starts only behind rows that are over, or beside members of its group.
LEMMA BarrierStep == CoreInv /\ StepInv /\ StepsAreBarriers /\ [Next]_vars => StepsAreBarriers'
<1> SUFFICES ASSUME CoreInv, StepInv, StepsAreBarriers, [Next]_vars,
                    NEW c \in Build, NEW s \in Stages(c)', stage'[c][s] = "running", NEW i \in 1..(s - 1)
             PROVE  stage'[c][i] \in StageOver \/ (mode'[c] = "parallel" /\ i \in GroupOf(plan'[c], s))
  BY DEF StepsAreBarriers, GroupOf
<1> USE DEF CoreInv, CoreTypes
<1>1. CASE Trigger(c)
  <2>1. stage'[c] = [x \in 1..Len(plan'[c]) |-> "pending"]
    BY <1>1, TriggerMoves
  <2> QED
    BY <2>1 DEF Stages
<1>2. CASE ~Trigger(c) /\ status[c] = "none"
  <2>1. status'[c] = "none"
    BY <1>2, StatusMoves
  <2> QED
    BY <2>1, FreshStep DEF FreshInv, NotYet
<1>3. CASE status[c] # "none"
  <2>1. plan'[c] = plan[c] /\ Stages(c)' = Stages(c)
        /\ \A x \in Stages(c) : stage[c][x] \in StageOver => stage'[c][x] = stage[c][x]
    BY <1>3, LiveStays, OverStays DEF Stages
  <2>2. s \in Stages(c) /\ i \in Stages(c)
    BY <2>1, PlanFacts DEF Stages
  <2>3. CASE stage[c][s] = "running"
    <3>1. ~Dispatch(c)
      BY <2>2, <2>3 DEF Dispatch, FreshInv
    <3>2. mode'[c] = mode[c]
      BY <3>1, ModeStays
    <3>3. stage[c][i] \in StageOver \/ (mode[c] = "parallel" /\ i \in GroupOf(plan[c], s))
      BY <2>2, <2>3 DEF StepsAreBarriers
    <3> QED
      BY <2>1, <2>2, <3>2, <3>3
  <2>4. CASE stage[c][s] # "running"
    <3>1. Moves(c)
      <4>1. ASSUME NEW b \in Build, Trigger(b) PROVE stage'[c] = stage[c]
        <5>1. stage' = [d \in Build |-> IF d = b THEN stage'[b] ELSE stage[d]] /\ status[b] = "none"
          BY <4>1, TriggerMoves
        <5> QED
          BY <1>3, <5>1
      <4> QED
        BY <2>4, <4>1, RowsMove DEF Moves
    <3>2. at \in {"walk", "join", "launch"} /\ cur = c /\ s \in rows
      BY <2>2, <2>4, <3>1 DEF Moves, RowMoves
    <3>3. mode'[c] = mode[c]
      BY <3>2, ModeStays DEF Dispatch
    <3>4. stage[c][i] \in StageOver \/ i \in rows
      BY <3>2 DEF StepInv, Starting
    <3>5. CASE i \in rows
      <4>1. PICK x \in Stages(c) : rows = StepRows(c, x)
        BY <3>2 DEF StepInv
      <4>2. i # s
        BY <2>2, PlanFacts DEF Stages
      <4>3. mode[c] = "parallel" /\ rows = GroupOf(plan[c], x)
        BY <3>2, <3>5, <4>1, <4>2 DEF StepRows
      <4>4. GroupOf(plan[c], s) = GroupOf(plan[c], x)
        BY <3>2, <4>1, <4>3, SameGroup
      <4> QED
        BY <2>1, <3>3, <3>5, <4>3, <4>4
    <3> QED
      BY <2>1, <2>2, <3>4, <3>5
  <2> QED
    BY <2>3, <2>4
<1> QED
  BY <1>1, <1>2, <1>3

\* Nothing runs while an earlier step is open (_advance_one, _step_rows), and
\* stages run side by side only as members of one group of a parallel build, in
\* every pipeline, through crashes, cancels and failing starts.
THEOREM BarriersHold == Spec => []StepsAreBarriers
<1>1. Init => StepInv /\ StepsAreBarriers
  BY DEF Init, StepInv, Starting, StepsAreBarriers, Stages
<1> QED
  BY <1>1, StepInvStep, BarrierStep, CoreHolds, PTL DEF Spec

---------------------------------------------------------------------------
\* A task comes only from starting an agent's stage.
LEMMA TasksFrom ==
    ASSUME CoreInv, NEW b \in Build, Works(b), NEW s \in Stages(b), task'[b][s] # task[b][s]
    PROVE  \/ task[b][s] # "none"
           \/ plan[b][s].kind = "agent" /\ stage'[b][s] = "running"
<1> USE DEF CoreInv, CoreTypes
<1>1. CASE UNCHANGED task
  BY <1>1
<1>2. CASE Reap(b) \/ ProcessCancel(b) \/ Decide(b) \/ RowsStarted(b) \/ Dispatch(b) \/ AdvanceRaises(b) \/ CloseGroup(b)
  BY <1>1, <1>2 DEF Reap, ProcessCancel, Decide, RowsStarted, Dispatch, AdvanceRaises, CloseGroup, stageVars
<1>3. CASE CancelStage(b)
  <2>1. PICK x \in Stages(b) : task[b][x] # "none" /\ task' = [task EXCEPT ![b][x] = CancelTask(@)]
    BY <1>3 DEF CancelStage
  <2>2. x = s
    BY <2>1 DEF RowTypes
  <2> QED
    BY <2>1, <2>2
<1>4. CASE StartRow(b)
  BY <1>4, StartRowMoves
<1>5. CASE PollStage(b)
  <2> DEFINE x == Current(stage[b])
  <2>1. x \in Stages(b) /\ stage[b][x] = "running" /\ (x # s => task'[b][s] = task[b][s])
        /\ (plan[b][x].kind = "agent" \/ task'[b][x] = task[b][x])
    BY <1>5, PollStageMoves
  <2> HIDE DEF x
  <2>2. x = s /\ plan[b][s].kind = "agent"
    BY <2>1
  <2> QED
    BY <2>1, <2>2 DEF SupportedInv
<1>6. CASE PollGroup(b)
  BY <1>6, PollGroupMoves
<1>7. CASE StopGroup(b)
  BY <1>7, StopGroupMoves DEF CancelTask
<1> QED
  BY <1>2, <1>3, <1>4, <1>5, <1>6, <1>7 DEF Works

\* Only agents' stages that were started have tasks.
LEMMA TaskStep == CoreInv /\ TaskInv /\ [Next]_vars => TaskInv'
<1> SUFFICES ASSUME CoreInv, TaskInv, [Next]_vars,
                    NEW c \in Build, NEW s \in Stages(c)', task'[c][s] # "none"
             PROVE  stage'[c][s] # "pending" /\ plan'[c][s].kind = "agent"
  BY DEF TaskInv
<1> USE DEF CoreInv, CoreTypes
<1>0. ASSUME plan'[c] = plan[c], Moves(c) \/ stage'[c] = stage[c], task[c][s] # "none"
      PROVE  stage'[c][s] # "pending" /\ plan'[c][s].kind = "agent"
  BY <1>0 DEF TaskInv, Moves, RowMoves, Stages
<1>1. ASSUME NEW b \in Build, Handlers(b), ~(Trigger(b) /\ b = c) PROVE plan'[c] = plan[c] /\ stage'[c] = stage[c] /\ task'[c] = task[c]
  <2>1. CASE Trigger(b)
    <3>1. task' = [d \in Build |-> IF d = b THEN task'[b] ELSE task[d]]
      BY <2>1, TriggerMoves
    <3> QED
      BY <1>1, <2>1, <3>1, HandlersOnBuild
  <2> QED
    BY <1>1, <2>1, HandlersOnBuild DEF Handlers, CancelRead, CancelCommit, TimePasses, stageVars
<1>2. CASE Trigger(c)
  <2>1. task'[c] = [x \in 1..Len(plan'[c]) |-> "none"]
    BY <1>2, TriggerMoves
  <2> QED
    BY <2>1 DEF Stages
<1>3. CASE UNCHANGED vars \/ Turns \/ (\E b \in Build : Walks(b)) \/ (\E b \in Build : Handlers(b) /\ ~(Trigger(b) /\ b = c))
  <2>1. plan'[c] = plan[c] /\ stage'[c] = stage[c] /\ task'[c] = task[c]
    BY <1>1, <1>3, TurnsFrame DEF vars, buildVars, stageVars
  <2> QED
    BY <1>0, <2>1
<1>4. ASSUME NEW b \in Build, Agent(b) PROVE stage'[c][s] # "pending" /\ plan'[c][s].kind = "agent"
  <2>1. PICK x \in Stages(b) : Claim(b, x) \/ Report(b, x)
    BY <1>4 DEF Agent
  <2>2. UNCHANGED <<plan, stage>> /\ task[b][x] # "none" /\ Moves(b)
        /\ \E v \in {"claimed", "ok", "bad"} : task' = [task EXCEPT ![b][x] = v]
    BY <2>1, AgentMoves DEF Claim, Report, buildVars
  <2>3. task[c][s] # "none"
    BY <2>2 DEF RowTypes, Stages
  <2> QED
    BY <1>0, <2>2, <2>3
<1>5. ASSUME NEW b \in Build, Works(b) PROVE stage'[c][s] # "pending" /\ plan'[c][s].kind = "agent"
  <2>1. Moves(b) /\ plan' = plan /\ s \in Stages(c)
    BY <1>5, WorksMove DEF Moves, Stages
  <2>2. CASE b # c \/ task[c][s] # "none"
    BY <1>0, <2>1, <2>2 DEF Moves
  <2>3. CASE b = c /\ task[c][s] = "none"
    BY <1>5, <2>1, <2>3, TasksFrom
  <2> QED
    BY <2>2, <2>3
<1> QED
  BY <1>2, <1>3, <1>4, <1>5, StepKinds

---------------------------------------------------------------------------
\* A stage stopped by fail-fast stays blamed on the failure that stopped it.
LEMMA StoppedStays ==
    ASSUME NEW pl, NEW st, NEW st2, NEW s, StoppedByFailFast(pl, st, s),
           \A i \in 1..Len(pl) : st[i] \in {"failed", "timeout"} => st2[i] = st[i]
    PROVE  StoppedByFailFast(pl, st2, s)
<1> DEFINE g == GroupOf(pl, s)
<1>1. StopsFast(pl, g) /\ HasTrigger(pl, st, g \ {s}) /\ g \subseteq 1..Len(pl)
  BY DEF StoppedByFailFast, GroupOf
<1> HIDE DEF g
<1>2. HasTrigger(pl, st2, g \ {s})
  BY <1>1 DEF HasTrigger, MemberFailed
<1> QED
  BY <1>1, <1>2 DEF StoppedByFailFast, g

\* cancel_requested is never taken back.
LEMMA CancelKept ==
    ASSUME CoreInv, [Next]_vars, NEW c \in Build, cancel[c]
    PROVE  cancel'[c]
<1>1. ASSUME NEW b \in Build, Handlers(b) \/ Agent(b) PROVE cancel'[c]
  BY <1>1 DEF Handlers, Agent, Trigger, CancelRead, CancelCommit, TimePasses, Claim, Report, buildVars,
     CoreInv, CoreTypes, BuildTypes
<1> QED
  BY <1>1, StepKinds, TurnsFrame, WorksFrame DEF vars, buildVars

\* A poll says cancelled only of a task that was, and leaves a task in the
\* queue only while its stage runs.
LEMMA PolledCancelled ==
    ASSUME NEW t \in TaskState \ {"none"}, NEW x, NEW u, <<x, u>> \in Polled(t) \cup {TimedOut(t)}
    PROVE  /\ x = "cancelled" => t = "cancelled"
           /\ x = "running" /\ u = "cancelled" => t = "cancelled"
           /\ u = "queued" => t = "queued" /\ x = "running"
BY DEF TaskState, Polled, TimedOut, CancelTask

\* The engine cancels a stage only for a request or for a failure of its group.
LEMMA WorksHonest ==
    ASSUME EngineSafe, StepInv, TaskInv, HonestInv, NEW b \in Build, Works(b), NEW s \in Stages(b)
    PROVE  /\ stage'[b][s] = "cancelled" /\ stage[b][s] # "cancelled" =>
                 cancel[b] \/ StoppedByFailFast(plan[b], stage'[b], s)
           /\ stage'[b][s] = "running" /\ task'[b][s] = "cancelled" => cancel[b]
<1> DEFINE Good == /\ stage'[b][s] = "cancelled" /\ stage[b][s] # "cancelled" =>
                         cancel[b] \/ StoppedByFailFast(plan[b], stage'[b], s)
                   /\ stage'[b][s] = "running" /\ task'[b][s] = "cancelled" => cancel[b]
<1> USE DEF EngineSafe, CoreInv, CoreTypes
<1>0. /\ stage[b][s] = "running" /\ task[b][s] = "cancelled" => cancel[b]
      /\ stage[b][s] \in StageState /\ task[b][s] \in TaskState
  BY DEF HonestInv, RowTypes
<1>1. CASE Reap(b) \/ AdvanceRaises(b)
  <2>1. PICK as \in {"timeout", "failed"} : stage' = [stage EXCEPT ![b] = FailStages(@, as)]
    BY <1>1 DEF Reap, AdvanceRaises
  <2>2. stage'[b][s] # "running" /\ (stage'[b][s] = "cancelled" => stage[b][s] = "cancelled")
    BY <2>1 DEF RowTypes, FailStages
  <2> QED
    BY <2>2
<1>2. CASE CancelStage(b) \/ ProcessCancel(b)
  <2>1. b \in todo /\ phase = "cancel"
    BY <1>2, Constants DEF CancelStage, ProcessCancel, EngineInv, TodoInv
  <2> QED
    BY <2>1 DEF TodoInv
<1>3. CASE Decide(b) \/ RowsStarted(b) \/ Dispatch(b)
  BY <1>0, <1>3 DEF Decide, RowsStarted, Dispatch, stageVars
<1>4. CASE StartRow(b)
  <2>1. PICK x \in rows : /\ x \in Stages(b) /\ stage[b][x] = "pending"
                          /\ \A i \in Stages(b) \ {x} : stage'[b][i] = stage[b][i] /\ task'[b][i] = task[b][i]
                          /\ task'[b][x] \in {task[b][x], "queued"}
                          /\ stage'[b][x] \in {"running", "skipped", "failed"}
    BY <1>4, StartRowMoves
  <2>2. CASE s # x
    BY <1>0, <2>1, <2>2
  <2>3. CASE s = x
    <3>1. task[b][s] = "none"
      BY <2>1, <2>3 DEF TaskInv
    <3> QED
      BY <2>1, <2>3, <3>1
  <2> QED
    BY <2>2, <2>3
<1>5. CASE PollStage(b)
  <2> DEFINE x == Current(stage[b])
  <2>1. /\ x \in Stages(b) /\ stage[b][x] = "running"
        /\ \A i \in Stages(b) \ {x} : /\ task'[b][i] = task[b][i]
                                      /\ stage'[b][i] = stage[b][i] \/ stage'[b][i] = "skipped"
        /\ \/ /\ plan[b][x].kind = "server" /\ task'[b][x] = task[b][x]
              /\ stage'[b][x] \in {"running", "success", "failed", "timeout"}
           \/ /\ plan[b][x].kind = "agent"
              /\ <<stage'[b][x], task'[b][x]>> \in Polled(task[b][x]) \cup {TimedOut(task[b][x])}
    BY <1>5, PollStageMoves
  <2> HIDE DEF x
  <2>2. CASE s # x
    BY <1>0, <2>1, <2>2
  <2>3. CASE s = x /\ plan[b][x].kind = "server"
    BY <1>0, <2>1, <2>3
  <2>4. CASE s = x /\ plan[b][x].kind = "agent"
    <3>1. task[b][s] # "none"
      BY <2>1, <2>4 DEF SupportedInv
    <3>2. <<stage'[b][s], task'[b][s]>> \in Polled(task[b][s]) \cup {TimedOut(task[b][s])}
      BY <2>1, <2>4
    <3> QED
      BY <1>0, <2>1, <2>4, <3>1, <3>2, PolledCancelled
  <2> QED
    BY <2>1, <2>2, <2>3, <2>4
<1>6. CASE PollGroup(b)
  <2>1. \/ stage'[b][s] = stage[b][s] /\ task'[b][s] = task[b][s]
        \/ /\ stage[b][s] = "running" /\ task[b][s] # "none"
           /\ <<stage'[b][s], task'[b][s]>> \in Polled(task[b][s]) \cup {TimedOut(task[b][s])}
    BY <1>6, PollGroupMoves, MemberPolled
  <2> QED
    BY <1>0, <2>1, PolledCancelled
<1>7. CASE StopGroup(b)
  <2>0. Moves(b) /\ cur = b /\ at = "stop"
    BY <1>7, StopGroupMoves DEF StopGroup
  <2>1. \/ stage'[b][s] = stage[b][s] /\ task'[b][s] = task[b][s]
        \/ stage'[b][s] = "skipped"
        \/ s \in rows /\ HasTrigger(plan[b], stage[b], rows) /\ stage[b][s] = "running" /\ stage'[b][s] = "cancelled"
    BY <1>7, StopGroupMoves
  <2>2. ASSUME s \in rows, HasTrigger(plan[b], stage[b], rows), stage[b][s] = "running"
        PROVE  StoppedByFailFast(plan[b], stage'[b], s)
    <3>1. PICK x \in Stages(b) : rows = StepRows(b, x)
      BY <2>0 DEF StepInv
    <3>2. StopsFast(plan[b], rows) /\ rows \subseteq Stages(b)
      BY <2>0, <3>1, StepFacts DEF StepInv
    <3>3. rows = GroupOf(plan[b], x)
      <4>1. Cardinality(rows) > 1
        BY <3>2 DEF StopsFast
      <4>2. \E j \in rows : x # j
        BY <3>1, <4>1, StepFacts
      <4> QED
        BY <3>1, <4>2 DEF StepRows
    <3>4. GroupOf(plan[b], s) = rows
      BY <2>2, <3>1, <3>3, SameGroup
    <3>5. PICK t \in rows : stage[b][t] # "cancelled" /\ MemberFailed(plan[b], stage[b], t)
      BY <2>2 DEF HasTrigger
    <3>6. t # s /\ stage'[b][t] = stage[b][t]
      BY <2>0, <2>2, <3>2, <3>5 DEF MemberFailed, Moves, RowMoves, StageOver, Terminal
    <3>7. HasTrigger(plan[b], stage'[b], rows \ {s})
      BY <3>5, <3>6 DEF HasTrigger, MemberFailed
    <3> QED
      BY <3>2, <3>4, <3>7 DEF StoppedByFailFast
  <2> QED
    BY <1>0, <2>1, <2>2
<1>8. CASE CloseGroup(b)
  <2>1. task'[b][s] = task[b][s] /\ (stage'[b][s] = stage[b][s] \/ stage'[b][s] = "skipped")
    BY <1>8, CloseGroupMoves
  <2> QED
    BY <1>0, <2>1
<1> QED
  BY <1>1, <1>2, <1>3, <1>4, <1>5, <1>6, <1>7, <1>8 DEF Works

\* Every cancelled stage keeps having its reason.
LEMMA HonestStep == EngineSafe /\ StepInv /\ TaskInv /\ HonestInv /\ [Next]_vars => HonestInv'
<1> SUFFICES ASSUME EngineSafe, StepInv, TaskInv, HonestInv, [Next]_vars, NEW c \in Build, NEW s \in Stages(c)'
             PROVE  /\ stage'[c][s] = "cancelled" => cancel'[c] \/ StoppedByFailFast(plan'[c], stage'[c], s)
                    /\ stage'[c][s] = "running" /\ task'[c][s] = "cancelled" => cancel'[c]
  BY DEF HonestInv, StoppedByFailFast, StopsFast, HasTrigger, MemberFailed, GroupOf
<1> USE DEF EngineSafe, CoreInv, CoreTypes
<1>1. CASE status'[c] = "none" \/ Trigger(c)
  <2>1. status'[c] \in NotYet
    BY <1>1, TriggerMoves DEF NotYet, StatusTypes
  <2> QED
    BY <2>1, FreshStep DEF FreshInv
<1>2. CASE status[c] # "none"
  <2>0. plan'[c] = plan[c] /\ s \in Stages(c) /\ (cancel[c] => cancel'[c])
    BY <1>2, LiveStays, CancelKept DEF Stages
  <2>1. ASSUME stage[c][s] = "cancelled" PROVE cancel'[c] \/ StoppedByFailFast(plan'[c], stage'[c], s)
    <3>1. \A i \in 1..Len(plan[c]) : stage[c][i] \in {"failed", "timeout"} => stage'[c][i] = stage[c][i]
      BY <1>2, OverStays DEF StageOver, Terminal, Stages
    <3>2. cancel[c] \/ StoppedByFailFast(plan[c], stage[c], s)
      BY <2>0, <2>1 DEF HonestInv
    <3> QED
      BY <2>0, <3>1, <3>2, StoppedStays
  <2>2. CASE stage'[c] = stage[c] /\ (task'[c][s] = task[c][s] \/ task'[c][s] # "cancelled")
    BY <2>0, <2>1, <2>2 DEF HonestInv
  <2>3. CASE UNCHANGED vars \/ Turns \/ (\E b \in Build : Walks(b))
    BY <2>2, <2>3, TurnsFrame DEF vars, stageVars
  <2>4. ASSUME NEW b \in Build, Handlers(b) PROVE stage'[c] = stage[c] /\ task'[c] = task[c]
    <3>1. CASE Trigger(b)
      <4>1. task' = [d \in Build |-> IF d = b THEN task'[b] ELSE task[d]]
            /\ stage' = [d \in Build |-> IF d = b THEN stage'[b] ELSE stage[d]] /\ status[b] = "none"
        BY <3>1, TriggerMoves
      <4> QED
        BY <1>2, <4>1
    <3> QED
      BY <2>4, <3>1 DEF Handlers, CancelRead, CancelCommit, TimePasses, stageVars
  <2>5. ASSUME NEW b \in Build, Agent(b)
        PROVE  stage'[c] = stage[c] /\ (task'[c][s] = task[c][s] \/ task'[c][s] # "cancelled")
    <3>1. PICK x \in Stages(b) : \E v \in {"claimed", "ok", "bad"} : task' = [task EXCEPT ![b][x] = v] /\ UNCHANGED stage
      BY <2>5 DEF Agent, Claim, Report
    <3> QED
      BY <2>0, <3>1 DEF RowTypes
  <2>6. ASSUME NEW b \in Build, Works(b), b # c PROVE stage'[c] = stage[c] /\ task'[c] = task[c]
    BY <2>6, WorksMove DEF Moves
  <2>7. CASE Works(c)
    BY <2>0, <2>1, <2>7, WorksHonest
  <2> QED
    BY <2>2, <2>3, <2>4, <2>5, <2>6, <2>7, StepKinds
<1> QED
  BY <1>1, <1>2, StatusMoves

---------------------------------------------------------------------------
\* _finalize decides for success only over stages that succeeded or were skipped.
LEMMA SuccessMeans ==
    ASSUME NEW pl, NEW st, DOMAIN st = 1..Len(pl), \A s \in DOMAIN st : st[s] \in StageOver,
           Outcome(pl, st) = "success"
    PROVE  \A s \in DOMAIN st : st[s] \in {"success", "skipped"}
<1> DEFINE stopped == {s \in DOMAIN st : st[s] = "cancelled"}
           blame == \A s \in stopped : StoppedByFailFast(pl, st, s)
           seen == {st[s] : s \in IF blame THEN DOMAIN st \ stopped ELSE DOMAIN st}
<1>1. "cancelled" \notin seen /\ "timeout" \notin seen /\ "failed" \notin seen
  BY DEF Outcome
<1>2. CASE stopped = {}
  <2>1. \A s \in DOMAIN st : st[s] \in seen
    BY <1>2
  <2> HIDE DEF seen, stopped, blame
  <2> QED
    BY <1>1, <2>1 DEF StageOver, Terminal
<1>3. CASE stopped # {}
  <2>1. PICK s \in stopped : TRUE
    BY <1>3
  <2>2. blame
    BY <1>1, <2>1
  <2>3. HasTrigger(pl, st, GroupOf(pl, s) \ {s})
    BY <2>1, <2>2 DEF StoppedByFailFast
  <2>4. PICK t \in GroupOf(pl, s) : st[t] # "cancelled" /\ MemberFailed(pl, st, t)
    BY <2>3 DEF HasTrigger
  <2>5. t \in DOMAIN st \ stopped /\ st[t] \in {"failed", "timeout"}
    BY <2>4 DEF GroupOf, MemberFailed
  <2> QED
    BY <1>1, <2>2, <2>5
<1> QED
  BY <1>2, <1>3

\* _finalize decides for cancelled only over a stage that fail-fast did not
\* stop.
LEMMA CancelledMeans ==
    ASSUME NEW pl, NEW st, Outcome(pl, st) = "cancelled"
    PROVE  \E s \in DOMAIN st : st[s] = "cancelled" /\ ~StoppedByFailFast(pl, st, s)
<1> DEFINE stopped == {s \in DOMAIN st : st[s] = "cancelled"}
           blame == \A s \in stopped : StoppedByFailFast(pl, st, s)
           seen == {st[s] : s \in IF blame THEN DOMAIN st \ stopped ELSE DOMAIN st}
<1>1. "cancelled" \in seen
  BY DEF Outcome
<1> QED
  BY <1>1

\* A work that ends a build well, or as cancelled, does so by _finalize over
\* its last stages or as the end of a cancellation.
LEMMA WorksDecide ==
    ASSUME CoreInv, NEW b \in Build, Works(b), status'[b] # status[b], status'[b] \in {"success", "cancelled"}
    PROVE  \/ ProcessCancel(b)
           \/ Open(stage'[b]) = {} /\ status'[b] = Outcome(plan[b], stage'[b])
<1> USE DEF CoreInv, CoreTypes
<1>0. ASSUME NEW st, Finalize(b, st)
      PROVE  status'[b] = status[b] \/ (Open(st) = {} /\ status'[b] = Outcome(plan[b], st))
  BY <1>0 DEF Finalize, Finish, StatusTypes
<1>1. CASE Reap(b) \/ AdvanceRaises(b)
  BY <1>1, FinishFacts DEF Reap, AdvanceRaises, Terminal
<1>2. CASE CancelStage(b) \/ PollStage(b) \/ PollGroup(b) \/ StopGroup(b) \/ CloseGroup(b)
  BY <1>2 DEF CancelStage, PollStage, PollGroup, StopGroup, CloseGroup, buildVars
<1>3. CASE Decide(b)
  <2>1. Finalize(b, stage[b]) /\ UNCHANGED stage
    BY <1>3 DEF Decide, stageVars
  <2> QED
    BY <1>0, <2>1
<1>4. CASE RowsStarted(b)
  <2>1. (Finalize(b, stage[b]) \/ UNCHANGED status) /\ UNCHANGED stage
    BY <1>4, Zenon DEF RowsStarted, stageVars
  <2> QED
    BY <1>0, <2>1
<1>5. CASE StartRow(b)
  <2> DEFINE into == [stage[b] EXCEPT ![First({i \in rows : stage[b][i] = "pending"})] = "failed"]
  <2>1. (stage' = [stage EXCEPT ![b] = into] /\ Finalize(b, into)) \/ UNCHANGED status
    BY <1>5, Zenon DEF StartRow
  <2> HIDE DEF into
  <2>2. stage'[b] = into /\ Finalize(b, into)
    BY <2>1 DEF RowTypes
  <2> QED
    BY <1>0, <2>2
<1>6. CASE Dispatch(b)
  BY <1>6 DEF Dispatch, StatusTypes
<1> QED
  BY <1>1, <1>2, <1>3, <1>4, <1>5, <1>6 DEF Works

\* No step gives a build an outcome its stages belie.
LEMMA OutcomeStep ==
    EngineSafe /\ HonestInv' /\ OutcomeIsHonest /\ [Next]_vars => OutcomeIsHonest'
<1> SUFFICES ASSUME EngineSafe, HonestInv', OutcomeIsHonest, [Next]_vars, NEW c \in Build
             PROVE  /\ status'[c] = "success" => \A s \in Stages(c)' : stage'[c][s] \in {"success", "skipped"}
                    /\ status'[c] = "cancelled" => cancel'[c]
  BY DEF OutcomeIsHonest
<1> USE DEF EngineSafe, CoreInv, CoreTypes
<1>1. CASE status'[c] = status[c]
  <2>1. cancel[c] => cancel'[c]
    BY CancelKept
  <2>2. ASSUME status[c] = "success" PROVE \A s \in Stages(c)' : stage'[c][s] \in {"success", "skipped"}
    <3>1. Stages(c)' = Stages(c) /\ \A s \in Stages(c) : stage[c][s] \in StageOver => stage'[c][s] = stage[c][s]
      BY <2>2, LiveStays, OverStays DEF Stages
    <3>2. \A s \in Stages(c) : stage[c][s] \in {"success", "skipped"}
      BY <2>2 DEF OutcomeIsHonest
    <3> QED
      BY <3>1, <3>2 DEF StageOver, Terminal
  <2> QED
    BY <1>1, <2>1, <2>2 DEF OutcomeIsHonest
<1>2. CASE status'[c] # status[c] /\ status'[c] \in {"success", "cancelled"}
  <2>1. CASE Works(c)
    <3>1. CASE ProcessCancel(c)
      <4>1. status'[c] = "cancelled" /\ c \in todo /\ phase = "cancel" /\ UNCHANGED cancel
        BY <3>1, FinishFacts DEF ProcessCancel, Terminal
      <4> QED
        BY <4>1 DEF TodoInv
    <3>2. CASE Open(stage'[c]) = {} /\ status'[c] = Outcome(plan[c], stage'[c])
      <4>1. Moves(c) /\ Stages(c)' = Stages(c) /\ plan' = plan
        BY <2>1, WorksMove DEF Moves, Stages
      <4>2. DOMAIN stage'[c] = Stages(c) /\ \A s \in Stages(c) : stage'[c][s] \in StageOver
        BY <3>2, <4>1 DEF Moves, RowMoves, Open, StageState
      <4>3. CASE status'[c] = "success"
        BY <3>2, <4>1, <4>2, <4>3, SuccessMeans DEF Stages
      <4>4. CASE status'[c] = "cancelled"
        <5>1. PICK s \in Stages(c) : stage'[c][s] = "cancelled" /\ ~StoppedByFailFast(plan[c], stage'[c], s)
          BY <3>2, <4>2, <4>4, CancelledMeans
        <5>2. cancel'[c] \/ StoppedByFailFast(plan[c], stage'[c], s)
          BY <4>1, <5>1 DEF HonestInv, StoppedByFailFast, StopsFast, HasTrigger, MemberFailed, GroupOf
        <5> QED
          BY <4>4, <5>1, <5>2
      <4> QED
        BY <1>2, <4>3, <4>4
    <3> QED
      BY <1>2, <2>1, <3>1, <3>2, WorksDecide
  <2>2. ASSUME NEW b \in Build, Works(b), b # c PROVE FALSE
    BY <1>2, <2>2, WorksStatus
  <2>3. ASSUME NEW b \in Build, Handlers(b) \/ Agent(b) PROVE cancel'[c] /\ status'[c] = "cancelled"
    <3>1. CASE Trigger(b) /\ b = c
      BY <1>2, <3>1, TriggerMoves DEF StatusTypes
    <3>2. CASE ~(Trigger(b) /\ b = c)
      BY <1>2, <2>3, <3>2, HandlersOnBuild
    <3> QED
      BY <3>1, <3>2
  <2>4. CASE UNCHANGED vars \/ Turns \/ (\E b \in Build : Walks(b))
    BY <1>2, <2>4, TurnsFrame DEF vars, buildVars
  <2> QED
    BY <2>1, <2>2, <2>3, <2>4, StepKinds
<1> QED
  BY <1>1, <1>2

\* The invariant the outcomes and the tasks rest on.
StagesSafe == StepInv /\ TaskInv /\ HonestInv

\* The invariants about steps, tasks and reasons hold in every behaviour.
LEMMA StagesSafeHolds == Spec => [](EngineSafe /\ StagesSafe)
<1>1. Init => StagesSafe
  BY DEF Init, StagesSafe, StepInv, TaskInv, HonestInv, Starting, Stages
<1>2. EngineSafe /\ StagesSafe /\ [Next]_vars => StagesSafe'
  BY StepInvStep, TaskStep, HonestStep DEF StagesSafe, EngineSafe
<1> QED
  BY <1>1, <1>2, EngineSafeHolds, PTL DEF Spec

\* No build reports green with a red stage in it, and none is called cancelled
\* unless somebody asked for that (_finalize, _stopped_by_fail_fast), for every
\* pipeline and every order of failures, stops and requests.
THEOREM OutcomesAreHonest == Spec => []OutcomeIsHonest
<1>1. Init => OutcomeIsHonest
  BY DEF Init, OutcomeIsHonest
<1>2. EngineSafe /\ EngineSafe' /\ StagesSafe' /\ OutcomeIsHonest /\ [Next]_vars => OutcomeIsHonest'
  BY OutcomeStep DEF StagesSafe
<1> QED
  BY <1>1, <1>2, StagesSafeHolds, PTL DEF Spec

---------------------------------------------------------------------------
\* A build about to be cancelled has no task waiting behind a stage that is over.
LEMMA CancelQueued ==
    ASSUME EngineSafe, QueuedInv, NEW b \in Build \ raced, b \in todo, phase = "cancel",
           NEW s \in Stages(b), task[b][s] = "queued"
    PROVE  stage[b][s] = "running"
BY DEF EngineSafe, TodoInv, QueuedInv

\* A work leaves a task in the queue only with its stage running, or with the
\* build timed out or failed and let go of.
LEMMA WorksQueued ==
    ASSUME EngineSafe, TaskInv, QueuedInv, NEW b \in Build \ raced, Works(b), NEW s \in Stages(b),
           task'[b][s] = "queued"
    PROVE  \/ stage'[b][s] = "running"
           \/ status'[b] \in {"timeout", "failed"} /\ cur' # b
<1> USE DEF EngineSafe, CoreInv, CoreTypes
<1>0. NoBuild # b /\ (cur = b /\ task[b][s] = "queued" => stage[b][s] = "running")
  BY Constants DEF QueuedInv
<1>1. CASE Reap(b)
  <2>1. status'[b] = "timeout"
    BY <1>1, FinishFacts DEF Reap, Terminal
  <2> QED
    BY <1>0, <1>1, <2>1 DEF Reap, EngineInv
<1>2. CASE AdvanceRaises(b)
  <2>1. status'[b] = "failed"
    BY <1>2, FinishFacts DEF AdvanceRaises, Terminal
  <2> QED
    BY <1>0, <1>2, <2>1 DEF AdvanceRaises, Leave
<1>3. CASE CancelStage(b)
  <2>1. PICK x \in Stages(b) \ rows :
          /\ task' = [task EXCEPT ![b][x] = CancelTask(@)]
          /\ stage' = [stage EXCEPT ![b] = [i \in Stages(b) |-> IF i \in rows THEN "cancelled" ELSE @[i]]]
    BY <1>3 DEF CancelStage
  <2>2. s # x /\ task[b][s] = "queued"
    BY <2>1 DEF RowTypes, CancelTask
  <2>3. b \in todo /\ phase = "cancel" /\ (rows # {} => at = "cancel" /\ cur = b)
    BY <1>0, <1>3 DEF CancelStage, EngineInv, TodoInv
  <2>4. s \notin rows
    BY <2>2, <2>3 DEF QueuedInv
  <2>5. stage[b][s] = "running"
    BY <2>2, <2>3, CancelQueued
  <2> QED
    BY <2>1, <2>4, <2>5 DEF RowTypes
<1>4. CASE ProcessCancel(b)
  <2>1. task[b][s] = "queued" /\ b \in todo /\ phase = "cancel" /\ (rows # {} => at = "cancel" /\ cur = b)
    BY <1>0, <1>4 DEF ProcessCancel, EngineInv
  <2>2. stage[b][s] = "running" /\ s \notin rows
    BY <2>1, CancelQueued DEF QueuedInv
  <2> QED
    BY <1>4, <2>1, <2>2 DEF ProcessCancel
<1>5. CASE Decide(b) \/ RowsStarted(b) \/ Dispatch(b)
  BY <1>0, <1>5 DEF Decide, RowsStarted, Dispatch, stageVars
<1>6. CASE StartRow(b)
  <2>1. PICK x \in rows : /\ x \in Stages(b) /\ stage[b][x] = "pending"
                          /\ \A i \in Stages(b) \ {x} : stage'[b][i] = stage[b][i] /\ task'[b][i] = task[b][i]
                          /\ task'[b][x] = task[b][x] \/ stage'[b][x] = "running"
    BY <1>6, StartRowMoves
  <2>2. cur = b /\ task[b][x] = "none"
    BY <1>6, <2>1 DEF StartRow, TaskInv
  <2> QED
    BY <1>0, <2>1, <2>2
<1>7. CASE PollStage(b)
  <2> DEFINE x == Current(stage[b])
  <2>0. cur = b
    BY <1>7 DEF PollStage
  <2>1. /\ x \in Stages(b) /\ stage[b][x] = "running"
        /\ \A i \in Stages(b) \ {x} : /\ task'[b][i] = task[b][i]
                                      /\ stage'[b][i] = stage[b][i] \/ stage[b][i] = "pending"
        /\ \/ plan[b][x].kind = "server" /\ task'[b][x] = task[b][x]
           \/ /\ plan[b][x].kind = "agent"
              /\ <<stage'[b][x], task'[b][x]>> \in Polled(task[b][x]) \cup {TimedOut(task[b][x])}
    BY <1>7, PollStageMoves
  <2> HIDE DEF x
  <2>2. CASE s # x
    BY <1>0, <2>0, <2>1, <2>2
  <2>3. CASE s = x /\ plan[b][x].kind = "server"
    BY <2>1, <2>3 DEF TaskInv
  <2>4. CASE s = x /\ plan[b][x].kind = "agent"
    <3>1. task[b][s] \in TaskState \ {"none"}
      BY <2>1, <2>4 DEF SupportedInv, RowTypes
    <3>2. <<stage'[b][s], task'[b][s]>> \in Polled(task[b][s]) \cup {TimedOut(task[b][s])}
      BY <2>1, <2>4
    <3> QED
      BY <3>1, <3>2, PolledCancelled
  <2> QED
    BY <2>1, <2>2, <2>3, <2>4
<1>8. CASE PollGroup(b)
  <2>1. \/ stage'[b][s] = stage[b][s] /\ task'[b][s] = task[b][s]
        \/ /\ stage[b][s] = "running" /\ task[b][s] # "none"
           /\ <<stage'[b][s], task'[b][s]>> \in Polled(task[b][s]) \cup {TimedOut(task[b][s])}
    BY <1>8, PollGroupMoves, MemberPolled
  <2>2. cur = b /\ task[b][s] \in TaskState
    BY <1>8 DEF PollGroup, RowTypes
  <2> QED
    BY <1>0, <2>1, <2>2, PolledCancelled
<1>9. CASE StopGroup(b)
  <2>1. cur = b
    BY <1>9 DEF StopGroup
  <2> QED
    BY <1>0, <1>9, <2>1, StopGroupMoves DEF CancelTask, TaskInv
<1>10. CASE CloseGroup(b)
  <2>1. cur = b
    BY <1>10 DEF CloseGroup
  <2> QED
    BY <1>0, <1>10, <2>1, CloseGroupMoves DEF TaskInv
<1> QED
  BY <1>1, <1>2, <1>3, <1>4, <1>5, <1>6, <1>7, <1>8, <1>9, <1>10 DEF Works

\* The engine takes up no build with a task waiting behind a stage that is over.
LEMMA TurnsQueued ==
    ASSUME EngineSafe, QueuedInv, Turns \/ \E b \in Build : Walks(b),
           NEW c \in Build \ raced, NEW s \in Stages(c), task[c][s] = "queued"
    PROVE  /\ stage[c][s] = "running" \/ status[c] \in {"timeout", "failed"}
           /\ cur' = c => stage[c][s] = "running"
<1> USE DEF EngineSafe, CoreInv, CoreTypes
<1>1. stage[c][s] = "running" \/ status[c] \in {"timeout", "failed"}
  BY DEF QueuedInv
<1>2. CASE cur' = cur
  BY <1>1, <1>2 DEF QueuedInv
<1>3. CASE cur' = c /\ cur' # cur
  <2>1. \/ phase = "advance" /\ c \in todo
        \/ status[c] = "running"
        \/ status[c] = "queued"
    BY <1>3, TurnsShape, Constants DEF TurnShape, Leave
  <2>2. status[c] \in {"running", "queued"}
    BY <2>1 DEF TodoInv
  <2> QED
    BY <1>1, <2>2
<1> QED
  BY <1>1, <1>2, <1>3

\* A request or an agent puts no task into the queue, and a build cancelled
\* while queued has none in it.
LEMMA HandlersQueued ==
    ASSUME EngineSafe, QueuedInv, NEW b \in Build, Handlers(b) \/ Agent(b),
           NEW c \in Build, NEW s \in Stages(c)', task'[c][s] = "queued"
    PROVE  /\ s \in Stages(c) /\ task[c][s] = "queued"
           /\ stage'[c] = stage[c] /\ cur' = cur
           /\ status'[c] = status[c] \/ c \in raced'
<1> USE DEF EngineSafe, CoreInv, CoreTypes
<1>1. ~(Trigger(b) /\ b = c)
  <2> SUFFICES ASSUME Trigger(c), task'[c] = [x \in 1..Len(plan'[c]) |-> "none"] PROVE FALSE
    BY TriggerMoves
  <2> QED
    BY DEF Stages
<1>2. /\ plan'[c] = plan[c] /\ stage'[c] = stage[c] /\ cur' = cur
      /\ status'[c] = status[c] \/ c \in raced' \/ status[c] = "queued"
  BY <1>1, HandlersOnBuild, HandlersFrame DEF engineVars
<1>3. s \in Stages(c)
  BY <1>2 DEF Stages
<1>4. task[c][s] = "queued"
  <2>1. CASE Trigger(b)
    <3>1. task' = [d \in Build |-> IF d = b THEN task'[b] ELSE task[d]]
      BY <2>1, TriggerMoves
    <3> QED
      BY <1>1, <2>1, <3>1
  <2>2. CASE Agent(b)
    <3>1. PICK x \in Stages(b) : \E v \in {"claimed", "ok", "bad"} : task' = [task EXCEPT ![b][x] = v]
      BY <2>2 DEF Agent, Claim, Report
    <3> QED
      BY <1>3, <3>1 DEF RowTypes
  <2> QED
    BY <2>1, <2>2 DEF Handlers, CancelRead, CancelCommit, TimePasses, stageVars
<1> QED
  BY <1>2, <1>3, <1>4 DEF FreshInv, NotYet

\* A task the runner was told to cancel is not waiting any more.
LEMMA CancelledQueued ==
    ASSUME EngineSafe, QueuedInv, [Next]_vars, at' = "cancel", NEW s \in rows'
    PROVE  task'[cur'][s] # "queued"
<1> USE DEF EngineSafe, CoreInv, CoreTypes
<1>1. CASE at = "cancel" /\ UNCHANGED <<cur, rows>> /\ task'[cur] = task[cur]
  BY <1>1 DEF QueuedInv
<1>2. CASE UNCHANGED vars \/ Turns \/ \E b \in Build : Walks(b)
  <2>1. at = "cancel" /\ UNCHANGED <<cur, rows>>
    BY <1>2, TurnsShape DEF vars, engineVars, TurnShape, Leave, EngineInv
  <2>2. UNCHANGED task
    BY <1>2, TurnsFrame DEF vars, stageVars
  <2> QED
    BY <1>1, <2>1, <2>2
<1>3. ASSUME NEW b \in Build, Handlers(b) \/ Agent(b), task'[cur'][s] = "queued" PROVE FALSE
  <2>1. at = "cancel" /\ UNCHANGED <<cur, rows>> /\ cur \in Build /\ status[cur] # "none" /\ s \in Stages(cur)
    BY <1>3, HandlersFrame DEF engineVars, EngineInv
  <2>2. s \in Stages(cur)'
    <3>1. plan'[cur] = plan[cur]
      BY <2>1, LiveStays
    <3> QED
      BY <2>1, <3>1 DEF Stages
  <2>3. task[cur][s] = "queued"
    BY <1>3, <2>1, <2>2, HandlersQueued
  <2> QED
    BY <2>1, <2>3 DEF QueuedInv
<1>4. ASSUME NEW b \in Build, CancelStage(b) PROVE task'[cur'][s] # "queued"
  <2>1. PICK x \in Stages(b) \ rows : /\ rows' = {x}
                                      /\ task' = [task EXCEPT ![b][x] = CancelTask(@)]
    BY <1>4 DEF CancelStage
  <2>2. cur' = b /\ task'[b][x] = CancelTask(task[b][x])
    BY <1>4, <2>1 DEF CancelStage, RowTypes
  <2> QED
    BY <2>1, <2>2 DEF CancelTask
<1>5. ASSUME NEW b \in Build, Works(b), ~CancelStage(b) PROVE FALSE
  <2>1. CASE Reap(b)
    BY <2>1 DEF Reap, EngineInv
  <2>2. CASE ProcessCancel(b)
    BY <2>2 DEF ProcessCancel, Leave
  <2> QED
    BY <1>5, <2>1, <2>2, WorksOnCur
<1> QED
  BY <1>2, <1>3, <1>4, <1>5, StepKinds

\* Every step keeps the tasks waiting for agents behind running stages.
LEMMA QueuedStep == EngineSafe /\ TaskInv /\ QueuedInv /\ [Next]_vars => QueuedInv'
<1> SUFFICES ASSUME EngineSafe, TaskInv, QueuedInv, [Next]_vars PROVE QueuedInv'
  OBVIOUS
<1> USE DEF EngineSafe, CoreInv, CoreTypes
<1>0. raced \subseteq raced' /\ NoBuild \notin Build
  BY RacedGrows, Constants
<1>1. ASSUME NEW c \in Build \ raced', NEW s \in Stages(c)', task'[c][s] = "queued"
      PROVE  /\ stage'[c][s] = "running" \/ status'[c] \in {"timeout", "failed"}
             /\ cur' = c => stage'[c][s] = "running"
  <2>0. c \in Build \ raced
    BY <1>0
  <2>1. CASE UNCHANGED vars
    <3>1. UNCHANGED <<plan, stage, task, status, cur>>
      BY <2>1 DEF vars, buildVars, stageVars, engineVars
    <3>2. s \in Stages(c) /\ task[c][s] = "queued"
      BY <1>1, <3>1 DEF Stages
    <3> QED
      BY <2>0, <3>1, <3>2 DEF QueuedInv
  <2>2. CASE Turns \/ \E b \in Build : Walks(b)
    <3>1. UNCHANGED <<plan, stage, task, status>>
      BY <2>2, TurnsFrame
    <3>2. s \in Stages(c) /\ task[c][s] = "queued"
      BY <1>1, <3>1 DEF Stages
    <3> QED
      BY <2>0, <2>2, <3>1, <3>2, TurnsQueued
  <2>3. ASSUME NEW b \in Build, Handlers(b) \/ Agent(b)
        PROVE  /\ stage'[c][s] = "running" \/ status'[c] \in {"timeout", "failed"}
               /\ cur' = c => stage'[c][s] = "running"
    <3>1. /\ s \in Stages(c) /\ task[c][s] = "queued"
          /\ stage'[c] = stage[c] /\ cur' = cur /\ status'[c] = status[c]
      BY <1>1, <2>3, HandlersQueued
    <3> QED
      BY <2>0, <3>1 DEF QueuedInv
  <2>4. ASSUME NEW b \in Build, Works(b), b # c
        PROVE  /\ stage'[c][s] = "running" \/ status'[c] \in {"timeout", "failed"}
               /\ cur' = c => stage'[c][s] = "running"
    <3>1. /\ s \in Stages(c) /\ task[c][s] = "queued"
          /\ stage'[c] = stage[c] /\ status'[c] = status[c]
      BY <1>1, <2>4, WorksMove, WorksStatus DEF Moves, Stages
    <3>2. cur' # c
      <4>1. CASE Reap(b)
        BY <1>0, <4>1 DEF Reap, EngineInv
      <4>2. CASE CancelStage(b) \/ ProcessCancel(b)
        BY <1>0, <2>4, <4>2 DEF CancelStage, ProcessCancel, Leave
      <4> QED
        BY <1>0, <2>4, <4>1, <4>2, WorksOnCur
    <3> QED
      BY <2>0, <3>1, <3>2 DEF QueuedInv
  <2>5. CASE Works(c)
    <3>1. s \in Stages(c)
      BY <2>5, WorksMove DEF Moves, Stages
    <3> QED
      BY <1>1, <2>0, <2>5, <3>1, WorksQueued
  <2> QED
    BY <2>1, <2>2, <2>3, <2>4, <2>5, StepKinds
<1> QED
  BY <1>1, CancelledQueued DEF QueuedInv

\* At every commit a stage that says it runs on an agent has its task, and a
\* task still waiting for claim_next has its stage running, unless the build was
\* timed out or failed as a whole (_reap_stale_builds, _advance_running): those do not
\* tell the runner.
THEOREM TasksMatch == Spec => []TasksMatchStages
<1>1. Init => QueuedInv
  BY Constants DEF Init, QueuedInv, Stages
<1>2. EngineSafe /\ StagesSafe /\ QueuedInv /\ [Next]_vars => QueuedInv'
  BY QueuedStep DEF StagesSafe
<1>3. EngineSafe /\ QueuedInv => TasksMatchStages
  BY DEF EngineSafe, CoreInv, SupportedInv, QueuedInv, TasksMatchStages
<1> QED
  BY <1>1, <1>2, <1>3, StagesSafeHolds, PTL DEF Spec

---------------------------------------------------------------------------
\* Stage i of b has failed for good with its whole step over, and a stage that
\* should have been skipped then still waits: what Unskipped finds.
LeftOver(b, st, i) ==
    /\ MemberFailed(plan[b], st, i) /\ plan[b][i].kind # "server"
    /\ \A x \in StepRows(b, i) : st[x] \in StageOver
    /\ \E j \in Stages(b) \ Spared(b, i) : j > i /\ st[j] = "pending"

\* The engine is about to skip what stage i of b has left over: it is cancelling
\* the build, or has the step of i in hand and will close it.
WillSkip(b, i) ==
    /\ cur = b
    /\ at = "cancel" \/ (at \in {"join", "poll", "stop", "close"} /\ i \in rows)

\* Nothing is left waiting behind a failed step that the engine has let go of.
SkipInv == \A b \in Build \ loose : \A i \in Stages(b) : LeftOver(b, stage[b], i) => WillSkip(b, i)

\* Unskipped is about stages left over.
LEMMA UnskippedIs ==
    ASSUME NEW b \in Build, NEW st
    PROVE  Unskipped(b, st) <=> \E i \in Stages(b) : LeftOver(b, st, i)
BY DEF Unskipped, LeftOver

\* The builds left aside stay aside.
LEMMA LooseGrows == ASSUME [Next]_vars PROVE loose \subseteq loose'
<1>1. ASSUME NEW b \in Build, StartRow(b) PROVE loose \subseteq loose'
  BY <1>1, Zenon DEF StartRow
<1>2. ASSUME NEW b \in Build, Works(b), ~StartRow(b) PROVE loose \subseteq loose'
  BY <1>2 DEF Works, Reap, CancelStage, ProcessCancel, Decide, RowsStarted, PollStage, PollGroup,
           StopGroup, CloseGroup, Dispatch, AdvanceRaises, history
<1>3. ASSUME NEW b \in Build, Handlers(b) \/ Agent(b) PROVE loose \subseteq loose'
  BY <1>3 DEF Handlers, Agent, Trigger, CancelRead, CancelCommit, TimePasses, Claim, Report, history
<1>4. CASE Turns \/ \E b \in Build : Walks(b)
  BY <1>4 DEF Turns, NextPhase, TakeClaimed, StepRaises, Crash, StartPass, Walks, BeginAdvance, BeginStep, Nudge, history
<1> QED
  BY <1>1, <1>2, <1>3, <1>4, StepKinds DEF vars, history

\* The members of a step share that step.
LEMMA StepShared ==
    ASSUME BuildTypes, NEW b \in Build, NEW s \in Stages(b), NEW i \in StepRows(b, s)
    PROVE  i \in Stages(b) /\ StepRows(b, i) = StepRows(b, s)
<1>1. CASE mode[b] = "parallel"
  BY <1>1, SameGroup DEF StepRows, GroupOf, Stages
<1>2. CASE mode[b] # "parallel"
  BY <1>2 DEF StepRows
<1> QED
  BY <1>1, <1>2

\* What is left over is read off the snapshot, the mode and the rows alone.
LEMMA LeftOverSame ==
    ASSUME NEW b \in Build, NEW i, plan'[b] = plan[b], mode'[b] = mode[b]
    PROVE  /\ Stages(b)' = Stages(b)
           /\ LeftOver(b, stage[b], i)' => LeftOver(b, stage'[b], i)
<1>1. Stages(b)' = Stages(b)
  BY DEF Stages
<1>2. StepRows(b, i)' = StepRows(b, i) /\ Spared(b, i)' = Spared(b, i)
  BY DEF StepRows, Spared, GroupOf, StopsFast
<1> QED
  BY <1>1, <1>2 DEF LeftOver, MemberFailed

\* A stage comes to leave others over only by a change inside its own step.
LEMMA LeftOverFrom ==
    ASSUME BuildTypes, NEW b \in Build, NEW i \in Stages(b), RowMoves(b, stage'[b], task'[b]),
           LeftOver(b, stage'[b], i), ~LeftOver(b, stage[b], i)
    PROVE  \E x \in StepRows(b, i) : stage'[b][x] # stage[b][x]
<1> SUFFICES ASSUME \A x \in StepRows(b, i) : stage'[b][x] = stage[b][x] PROVE FALSE
  OBVIOUS
<1>1. i \in StepRows(b, i)
  BY StepFacts
<1>2. \A j \in Stages(b) : stage'[b][j] = "pending" => stage[b][j] = "pending"
  BY DEF RowMoves
<1> QED
  BY <1>1, <1>2 DEF LeftOver, MemberFailed

\* Where everything is over nothing is left over.
LEMMA OverLeavesNothing ==
    ASSUME NEW b \in Build, \A s \in Stages(b) : stage'[b][s] \in StageOver, NEW i
    PROVE  ~LeftOver(b, stage'[b], i)
BY DEF LeftOver, StageOver, Terminal

\* A change inside the step in hand leaves stages over only behind that step.
LEMMA LeftOverInHand ==
    ASSUME BuildTypes, NEW b \in Build, NEW i \in Stages(b), RowMoves(b, stage'[b], task'[b]),
           LeftOver(b, stage'[b], i), ~LeftOver(b, stage[b], i),
           NEW y \in Stages(b), \A x \in Stages(b) \ StepRows(b, y) : stage'[b][x] = stage[b][x]
    PROVE  i \in StepRows(b, y)
<1>1. PICK x \in StepRows(b, i) : stage'[b][x] # stage[b][x]
  BY LeftOverFrom
<1>2. x \in Stages(b) /\ StepRows(b, x) = StepRows(b, i) /\ i \in StepRows(b, i)
  BY <1>1, StepShared, StepFacts
<1>3. x \in StepRows(b, y)
  BY <1>1, <1>2
<1> QED
  BY <1>2, <1>3, StepShared

---------------------------------------------------------------------------
\* _start_stage notes a build whose failed start left stages over, but for the
\* server's stages and for the groups it will poll and close; it starts no server stage
\* behind a failure.
LEMMA StartRowLoose ==
    ASSUME CoreTypes, EngineInv, NEW b \in Build, StartRow(b)
    PROVE  \E s \in rows :
              /\ s \in Stages(b) /\ stage[b][s] = "pending"
              /\ \A i \in Stages(b) \ {s} : stage'[b][i] = stage[b][i]
              /\ \/ stage'[b][s] = "running"
                 \/ plan[b][s].kind = "server"
                 \/ at = "join"
                 \/ Unskipped(b, stage'[b]) => b \in loose'
              /\ plan[b][s].kind = "server" /\ EarlierFailure(stage[b], s) => stage'[b][s] # "running"
<1> DEFINE waiting == {i \in rows : stage[b][i] = "pending"}
           s == First(waiting)
<1>1. cur = b /\ waiting # {}
  BY DEF StartRow
<1>2. rows \subseteq Stages(b) /\ Stages(b) \subseteq Nat
  BY <1>1, PlanFacts DEF EngineInv, CoreTypes
<1>3. s \in rows /\ s \in Stages(b) /\ stage[b][s] = "pending"
  <2>1. s \in waiting
    BY <1>1, <1>2, FirstIn
  <2> QED
    BY <1>2, <2>1
<1>4. \E x \in {"running", "failed", "skipped"} :
        /\ stage' = [stage EXCEPT ![b] = [stage[b] EXCEPT ![s] = x]]
        /\ \/ x = "running" /\ plan[b][s].kind = "agent"
           \/ plan[b][s].kind = "server" /\ (EarlierFailure(stage[b], s) => x = "skipped")
           \/ /\ x # "running"
              /\ loose' = IF at # "join" /\ Unskipped(b, [stage[b] EXCEPT ![s] = x]) THEN loose \cup {b} ELSE loose
  <2> HIDE DEF s
  <2> QED
    BY DEF StartRow, s
<1> HIDE DEF s
<1>5. PICK x \in {"running", "failed", "skipped"} :
        /\ stage' = [stage EXCEPT ![b] = [stage[b] EXCEPT ![s] = x]]
        /\ \/ x = "running" /\ plan[b][s].kind = "agent"
           \/ plan[b][s].kind = "server" /\ (EarlierFailure(stage[b], s) => x = "skipped")
           \/ /\ x # "running"
              /\ loose' = IF at # "join" /\ Unskipped(b, [stage[b] EXCEPT ![s] = x]) THEN loose \cup {b} ELSE loose
  BY <1>4
<1> DEFINE st == [stage[b] EXCEPT ![s] = x]
<1>6. stage'[b] = st /\ st[s] = x /\ \A i \in Stages(b) \ {s} : st[i] = stage[b][i]
  BY <1>3, <1>5 DEF CoreTypes, RowTypes
<1>7. \/ x = "running" /\ plan[b][s].kind = "agent"
      \/ plan[b][s].kind = "server" /\ (EarlierFailure(stage[b], s) => x = "skipped")
      \/ x # "running" /\ (at = "join" \/ (Unskipped(b, st) => b \in loose'))
  BY <1>5
<1> HIDE DEF st
<1> QED
  BY <1>3, <1>6, <1>7

\* Starting a row leaves stages over only where the engine will close the group,
\* or the build is noted.
LEMMA StartRowSkips ==
    ASSUME CoreInv, StepInv, SkipInv, NEW c \in Build \ loose', loose \subseteq loose', StartRow(c), NEW i \in Stages(c),
           LeftOver(c, stage'[c], i)
    PROVE  cur' = c /\ at' = "join" /\ i \in rows'
<1> USE DEF CoreInv, CoreTypes
<1>1. /\ cur = c /\ at \in {"walk", "join", "launch"} /\ UNCHANGED <<cur, at, rows>> /\ c \notin loose
  BY DEF StartRow, Starting, engineVars
<1>2. CASE LeftOver(c, stage[c], i)
  BY <1>1, <1>2 DEF SkipInv, WillSkip
<1>3. CASE ~LeftOver(c, stage[c], i)
  <2>1. PICK s \in rows :
              /\ s \in Stages(c) /\ stage[c][s] = "pending"
              /\ \A x \in Stages(c) \ {s} : stage'[c][x] = stage[c][x]
              /\ \/ stage'[c][s] = "running"
                 \/ plan[c][s].kind = "server"
                 \/ at = "join"
                 \/ Unskipped(c, stage'[c]) => c \in loose'
    BY StartRowLoose
  <2>2. RowMoves(c, stage'[c], task'[c])
    BY StartRowMoves DEF Moves
  <2>3. PICK x \in StepRows(c, i) : stage'[c][x] # stage[c][x]
    BY <1>3, <2>2, LeftOverFrom
  <2>4. x \in Stages(c) /\ i \in StepRows(c, i)
    BY <2>3, StepShared, StepFacts
  <2>5. x = s
    BY <2>1, <2>3, <2>4
  <2>6. stage'[c][s] # "running"
    BY <2>3, <2>5 DEF LeftOver, StageOver, Terminal
  <2>7. plan[c][s].kind # "server"
    <3>1. CASE s = i
      BY <3>1 DEF LeftOver
    <3>2. CASE s # i
      BY <2>3, <2>4, <2>5, <3>2, GroupsHaveNoServer
    <3> QED
      BY <3>1, <3>2
  <2>8. at = "join"
    BY <2>1, <2>6, <2>7, UnskippedIs
  <2>9. i \in rows
    <3>1. PICK y \in Stages(c) : rows = StepRows(c, y)
      BY <1>1 DEF StepInv
    <3>2. StepRows(c, s) = rows /\ StepRows(c, s) = StepRows(c, i)
      BY <2>1, <2>3, <2>5, <3>1, StepShared
    <3> QED
      BY <2>4, <3>2
  <2> QED
    BY <1>1, <2>8, <2>9
<1> QED
  BY <1>2, <1>3

\* A stage that failed on its own skips what comes after it in the same commit.
LEMMA PollStageSkips ==
    ASSUME CoreInv, SkipInv, NEW c \in Build \ loose, PollStage(c), NEW i \in Stages(c)
    PROVE  ~LeftOver(c, stage'[c], i)
<1> USE DEF CoreInv, CoreTypes
<1> SUFFICES ASSUME LeftOver(c, stage'[c], i) PROVE FALSE
  OBVIOUS
<1> DEFINE s == Current(stage[c])
<1>1. /\ s \in Stages(c) /\ stage[c][s] = "running" /\ StepRows(c, s) = {s}
      /\ RowMoves(c, stage'[c], task'[c])
      /\ \A x \in Stages(c) \ {s} : stage'[c][x] = stage[c][x] \/ stage'[c][x] = "skipped"
  BY PollStageMoves DEF Moves
<1>2. cur = c /\ at = "look"
  BY DEF PollStage
<1>3. ~LeftOver(c, stage[c], i)
  BY <1>2 DEF SkipInv, WillSkip
<1>4. \E res : LET ended == [stage[c] EXCEPT ![s] = res[1]] IN
        stage' = [stage EXCEPT ![c] = IF plan[c][s].kind # "server" /\ MemberFailed(plan[c], ended, s)
                                      THEN SkipPending(ended, Spared(c, s)) ELSE ended]
  BY DEF PollStage
<1> HIDE DEF s
<1>5. PICK v : stage'[c] = IF plan[c][s].kind # "server" /\ MemberFailed(plan[c], [stage[c] EXCEPT ![s] = v], s)
                           THEN SkipPending([stage[c] EXCEPT ![s] = v], Spared(c, s)) ELSE [stage[c] EXCEPT ![s] = v]
  BY <1>4 DEF RowTypes
<1> DEFINE ended == [stage[c] EXCEPT ![s] = v]
<1>6. DOMAIN ended = Stages(c) /\ \A x \in Stages(c) \ {s} : ended[x] = stage[c][x]
  BY DEF RowTypes
<1> HIDE DEF ended
<1>7. CASE plan[c][s].kind # "server" /\ MemberFailed(plan[c], ended, s)
  <2>1. stage'[c] = SkipPending(ended, Spared(c, s))
    BY <1>5, <1>7 DEF ended
  <2>2. PICK j \in Stages(c) \ Spared(c, i) : j > i /\ stage'[c][j] = "pending"
    BY DEF LeftOver
  <2>3. j \in Spared(c, s)
    BY <1>6, <2>1, <2>2 DEF SkipPending
  <2>4. i # s
    BY <2>2, <2>3
  <2>5. stage'[c][i] = stage[c][i]
    BY <1>1, <2>4 DEF LeftOver, MemberFailed
  <2>6. StepRows(c, i) = {i}
    <3>1. mode[c] # "parallel"
      <4>1. Cardinality(GroupOf(plan[c], s)) > 1
        BY <2>3 DEF Spared
      <4>2. \E x \in GroupOf(plan[c], s) : x # s
        BY <1>1, <4>1, StepFacts
      <4> QED
        BY <1>1, <4>2 DEF StepRows
    <3> QED
      BY <3>1 DEF StepRows
  <2>7. \E x \in StepRows(c, i) : stage'[c][x] # stage[c][x]
    BY <1>1, <1>3, LeftOverFrom
  <2> QED
    BY <2>5, <2>6, <2>7
<1>8. CASE ~(plan[c][s].kind # "server" /\ MemberFailed(plan[c], ended, s))
  <2>1. stage'[c] = ended
    BY <1>5, <1>8 DEF ended
  <2>2. i \in StepRows(c, s)
    BY <1>1, <1>3, <1>6, <2>1, LeftOverInHand
  <2> QED
    BY <1>1, <1>8, <2>1, <2>2 DEF LeftOver
<1> QED
  BY <1>7, <1>8

\* Polling a group leaves stages over only behind the group in hand.
LEMMA PollGroupSkips ==
    ASSUME CoreInv, StepInv, SkipInv, NEW c \in Build \ loose, PollGroup(c), NEW i \in Stages(c),
           LeftOver(c, stage'[c], i)
    PROVE  cur' = c /\ at' \in {"stop", "close"} /\ i \in rows'
<1> USE DEF CoreInv, CoreTypes
<1> DEFINE s == Current(stage[c])
           g == IF at = "poll" THEN rows ELSE StepRows(c, s)
           running == {x \in g : stage[c][x] = "running"}
<1>1. /\ cur = c /\ (at = "poll" \/ (at = "look" /\ s # 0))
      /\ Goto(IF StopsFast(plan[c], g) THEN "stop" ELSE "close", g)
      /\ RowMoves(c, stage'[c], task'[c])
  BY PollGroupMoves DEF PollGroup, Moves
<1>2. \E y \in Stages(c) : g = StepRows(c, y)
  BY <1>1, CurrentFacts DEF StepInv
<1>3. \A x \in Stages(c) \ g : stage'[c][x] = stage[c][x]
  <2>1. \E res : stage' = [stage EXCEPT ![c] = [x \in Stages(c) |-> IF x \in running THEN res[x][1] ELSE stage[c][x]]]
    BY DEF PollGroup
  <2> HIDE DEF g
  <2>2. PICK res : stage' = [stage EXCEPT ![c] = [x \in Stages(c) |-> IF x \in running THEN res[x][1] ELSE stage[c][x]]]
    BY <2>1
  <2> QED
    BY <2>2 DEF RowTypes
<1> HIDE DEF g, s
<1>4. cur' = c /\ at' \in {"stop", "close"} /\ rows' = g
  BY <1>1 DEF Goto
<1>5. CASE LeftOver(c, stage[c], i)
  <2>1. at = "poll" /\ i \in rows
    BY <1>1, <1>5 DEF SkipInv, WillSkip
  <2> QED
    BY <1>4, <2>1 DEF g
<1>6. CASE ~LeftOver(c, stage[c], i)
  BY <1>1, <1>2, <1>3, <1>4, <1>6, LeftOverInHand
<1> QED
  BY <1>5, <1>6

\* Stopping a group changes nothing outside the group in hand.
LEMMA StopGroupSkips ==
    ASSUME CoreInv, StepInv, SkipInv, NEW c \in Build \ loose, StopGroup(c), NEW i \in Stages(c),
           LeftOver(c, stage'[c], i)
    PROVE  cur' = c /\ at' = "close" /\ i \in rows'
<1> USE DEF CoreInv, CoreTypes
<1>1. /\ cur = c /\ at = "stop" /\ cur' = c /\ at' = "close" /\ rows' = rows
  BY DEF StopGroup, Goto
<1>2. /\ RowMoves(c, stage'[c], task'[c])
      /\ \A x \in Stages(c) \ rows : stage'[c][x] = stage[c][x]
  BY StopGroupMoves DEF Moves
<1>3. \E y \in Stages(c) : rows = StepRows(c, y)
  BY <1>1 DEF StepInv
<1>4. CASE LeftOver(c, stage[c], i)
  BY <1>1, <1>4 DEF SkipInv, WillSkip
<1>5. CASE ~LeftOver(c, stage[c], i)
  BY <1>1, <1>2, <1>3, <1>5, LeftOverInHand
<1> QED
  BY <1>4, <1>5

\* Closing a group that failed skips everything after it.
LEMMA CloseGroupSkips ==
    ASSUME CoreInv, StepInv, SkipInv, NEW c \in Build \ loose, CloseGroup(c), NEW i \in Stages(c)
    PROVE  ~LeftOver(c, stage'[c], i)
<1> USE DEF CoreInv, CoreTypes
<1> SUFFICES ASSUME LeftOver(c, stage'[c], i) PROVE FALSE
  OBVIOUS
<1>1. cur = c /\ at = "close"
  BY DEF CloseGroup
<1>2. CASE UNCHANGED stage /\ ((\E x \in rows : stage[c][x] \in {"pending", "running"})
                               \/ ~\E x \in rows : MemberFailed(plan[c], stage[c], x))
  <2>1. i \in rows
    BY <1>1, <1>2 DEF SkipInv, WillSkip
  <2>2. StepRows(c, i) = rows
    <3>1. PICK y \in Stages(c) : rows = StepRows(c, y)
      BY <1>1 DEF StepInv
    <3> QED
      BY <2>1, <3>1, StepShared
  <2> QED
    BY <1>2, <2>1, <2>2 DEF LeftOver, StageOver, Terminal
<1>3. CASE stage' = [stage EXCEPT ![c] = SkipPending(@, {})]
  <2>1. stage'[c] = SkipPending(stage[c], {}) /\ DOMAIN stage[c] = Stages(c)
    BY <1>3 DEF RowTypes
  <2>2. \A j \in Stages(c) : stage'[c][j] # "pending"
    BY <2>1 DEF SkipPending
  <2> QED
    BY <2>2 DEF LeftOver
<1> QED
  BY <1>2, <1>3 DEF CloseGroup

\* A work leaves stages over only where the engine will skip them.
LEMMA WorksSkip ==
    ASSUME CoreInv, StepInv, SkipInv, NEW c \in Build \ loose', loose \subseteq loose', Works(c), ~Dispatch(c),
           NEW i \in Stages(c), LeftOver(c, stage'[c], i)
    PROVE  /\ cur' = c
           /\ at' = "cancel" \/ (at' \in {"join", "poll", "stop", "close"} /\ i \in rows')
<1> USE DEF CoreInv, CoreTypes
<1>0. c \in Build \ loose
  OBVIOUS
<1>1. CASE Reap(c) \/ AdvanceRaises(c)
  <2>1. \A s \in Stages(c) : stage'[c][s] \in StageOver
    BY <1>1, ReapMoves DEF Reap, AdvanceRaises, Terminal
  <2> QED
    BY <2>1, OverLeavesNothing
<1>2. CASE CancelStage(c)
  BY <1>2 DEF CancelStage
<1>3. CASE ProcessCancel(c)
  BY <1>3, ProcessCancelMoves, OverLeavesNothing
<1>4. CASE Decide(c)
  <2>1. cur = c /\ at \in {"look", "follow"} /\ UNCHANGED stage
    BY <1>4 DEF Decide, stageVars
  <2> QED
    BY <1>0, <2>1 DEF SkipInv, WillSkip
<1>5. CASE StartRow(c)
  BY <1>5, StartRowSkips
<1>6. CASE RowsStarted(c)
  <2>1. cur = c /\ Starting /\ UNCHANGED stage
    BY <1>6 DEF RowsStarted, stageVars
  <2>2. at = "join" /\ i \in rows
    BY <1>0, <2>1 DEF SkipInv, WillSkip, Starting
  <2>3. \A x \in rows : stage[c][x] # "running"
    <3>1. PICK y \in Stages(c) : rows = StepRows(c, y)
      BY <2>1, <2>2 DEF StepInv
    <3>2. rows = StepRows(c, i)
      BY <2>2, <3>1, StepShared
    <3> QED
      BY <2>1, <3>2 DEF LeftOver, StageOver, Terminal
  <2>4. Goto("poll", rows)
    BY <1>6, <2>2, <2>3 DEF RowsStarted
  <2> QED
    BY <2>1, <2>2, <2>4 DEF Goto
<1>7. CASE PollStage(c)
  BY <1>0, <1>7, PollStageSkips
<1>8. CASE PollGroup(c)
  BY <1>0, <1>8, PollGroupSkips
<1>9. CASE StopGroup(c)
  BY <1>0, <1>9, StopGroupSkips
<1>10. CASE CloseGroup(c)
  BY <1>0, <1>10, CloseGroupSkips
<1> QED
  BY <1>1, <1>2, <1>3, <1>4, <1>5, <1>6, <1>7, <1>8, <1>9, <1>10 DEF Works

\* Every step keeps the failed steps skipped, or the engine at skipping them.
LEMMA SkipStep == CoreInv /\ StepInv /\ SkipInv /\ [Next]_vars => SkipInv'
<1> SUFFICES ASSUME CoreInv, StepInv, SkipInv, [Next]_vars,
                    NEW c \in Build \ loose', NEW i \in Stages(c)', LeftOver(c, stage[c], i)'
             PROVE  WillSkip(c, i)'
  BY DEF SkipInv
<1> USE DEF CoreInv, CoreTypes
<1>0. loose \subseteq loose' /\ NoBuild \notin Build
  BY LooseGrows, Constants
<1>1. status[c] # "none" /\ ~Trigger(c)
  <2>1. CASE Trigger(c)
    <3>1. stage'[c] = [x \in 1..Len(plan'[c]) |-> "pending"]
      BY <2>1, TriggerMoves
    <3> QED
      BY <3>1 DEF LeftOver, MemberFailed, Stages
  <2>2. CASE ~Trigger(c) /\ status[c] = "none"
    <3>1. status'[c] = "none"
      BY <2>2, StatusMoves
    <3> QED
      BY <3>1, FreshStep DEF FreshInv, NotYet, LeftOver, MemberFailed
  <2> QED
    BY <2>1, <2>2
<1>2. plan'[c] = plan[c]
  BY <1>1, LiveStays
<1>3. CASE Dispatch(c)
  <2>1. \A s \in Stages(c) : stage'[c][s] = "pending"
    BY <1>3 DEF Dispatch, stageVars, FreshInv
  <2> QED
    BY <1>2, <2>1 DEF LeftOver, MemberFailed, Stages
<1>4. CASE ~Dispatch(c)
  <2>1. mode'[c] = mode[c]
    BY <1>4, ModeStays
  <2>2. i \in Stages(c) /\ LeftOver(c, stage'[c], i)
    BY <1>2, <2>1, LeftOverSame
  <2>3. ASSUME stage'[c] = stage[c] PROVE WillSkip(c, i)
    BY <1>0, <2>2, <2>3 DEF SkipInv
  <2>4. ASSUME NEW b \in Build, Handlers(b) \/ Agent(b) PROVE WillSkip(c, i)'
    <3>1. stage'[c] = stage[c]
      BY <1>1, <2>4, HandlersOnBuild
    <3> QED
      BY <2>3, <2>4, <3>1, HandlersFrame DEF engineVars, WillSkip
  <2>5. CASE UNCHANGED vars
    BY <2>3, <2>5 DEF vars, stageVars, engineVars, WillSkip
  <2>6. ASSUME Turns \/ \E b \in Build : Walks(b) PROVE FALSE
    <3>1. stage'[c] = stage[c]
      BY <2>6, TurnsFrame
    <3>2. cur = c /\ cur \in Build /\ at \notin {"look", "follow"}
      BY <2>3, <3>1 DEF WillSkip
    <3>3. phase \notin {"idle", "reap"}
      BY <1>0, <3>2 DEF EngineInv
    <3>4. Unskipped(c, stage[c])
      BY <2>2, <3>1, UnskippedIs
    <3> QED
      BY <1>0, <2>6, <3>2, <3>3, <3>4 DEF Turns, NextPhase, TakeClaimed, StepRaises, Crash, StartPass,
         Walks, BeginAdvance, BeginStep, Nudge
  <2>7. ASSUME NEW b \in Build, Works(b), b # c PROVE FALSE
    <3>1. stage'[c] = stage[c]
      BY <2>7, WorksMove DEF Moves
    <3>2. cur = c
      BY <2>3, <3>1 DEF WillSkip
    <3> QED
      BY <1>0, <2>7, <3>2, WorksOnCur DEF Reap, CancelStage, ProcessCancel, EngineInv
  <2>8. CASE Works(c)
    BY <1>0, <1>4, <2>2, <2>8, WorksSkip DEF WillSkip
  <2> QED
    BY <2>4, <2>5, <2>6, <2>7, <2>8, StepKinds
<1> QED
  BY <1>3, <1>4

\* Behind the step in hand, a failed stage of an earlier step has left this row
\* over.
LEMMA BehindFailure ==
    ASSUME CoreInv, StepInv, NEW c \in Build, cur = c, Starting, NEW s \in rows, s \in Stages(c), stage[c][s] = "pending",
           NEW i \in 1..(s - 1), MemberFailed(plan[c], stage[c], i), plan[c][i].kind # "server",
           s \notin Spared(c, i) \cup StepRows(c, i)
    PROVE  i \in Stages(c) /\ i \notin rows /\ LeftOver(c, stage[c], i)
<1> USE DEF CoreInv, CoreTypes
<1>1. PICK y \in Stages(c) : rows = StepRows(c, y)
  BY DEF StepInv, Starting
<1>2. i \in Stages(c) /\ i < s /\ s \in Nat /\ i \in Nat
  BY PlanFacts DEF Stages
<1>3. i \notin rows
  BY <1>1, StepShared
<1>4. ASSUME NEW x \in StepRows(c, i) PROVE stage[c][x] \in StageOver
  <2>1. x \in Stages(c) /\ StepRows(c, x) = StepRows(c, i) /\ i \in StepRows(c, i)
    BY <1>2, <1>4, StepShared, StepFacts
  <2>2. x \notin rows
    BY <1>1, <1>3, <2>1, StepShared
  <2>3. x < s
    <3>1. CASE x = i
      BY <1>2, <3>1
    <3>2. CASE x # i /\ s <= x
      <4>1. StepRows(c, i) = GroupOf(plan[c], i)
        BY <1>4, <3>2 DEF StepRows
      <4>2. s \in GroupOf(plan[c], i)
        BY <1>2, <1>4, <2>1, <3>2, <4>1, GroupConvex
      <4> QED
        BY <4>1, <4>2
    <3> QED
      BY <1>2, <2>1, <3>1, <3>2, PlanFacts
  <2>4. x \in 1..(s - 1)
    BY <1>2, <2>1, <2>3, PlanFacts
  <2> QED
    BY <2>2, <2>4 DEF StepInv
<1> QED
  BY <1>2, <1>3, <1>4 DEF LeftOver

\* No row starts behind a failed step, but in the builds left aside.
LEMMA FailureStep ==
    ASSUME CoreInv, StepInv, SkipInv, [Next]_vars, NEW c \in Build \ loose', NEW s \in Stages(c),
           stage[c][s] = "pending", stage'[c][s] = "running",
           NEW i \in 1..(s - 1), MemberFailed(plan[c], stage[c], i)
    PROVE  s \in Spared(c, i) \cup StepRows(c, i)
<1> USE DEF CoreInv, CoreTypes
<1> SUFFICES ASSUME s \notin Spared(c, i) \cup StepRows(c, i) PROVE FALSE
  OBVIOUS
<1>0. c \notin loose
  BY LooseGrows
<1>1. Works(c) /\ cur = c /\ at \in {"walk", "join", "launch"} /\ s \in rows
  <2>1. ASSUME NEW b \in Build, Handlers(b) \/ Agent(b) PROVE FALSE
    <3>1. ~(Trigger(b) /\ b = c)
      <4> SUFFICES ASSUME Trigger(c) PROVE FALSE
        OBVIOUS
      <4>1. stage'[c] = [x \in 1..Len(plan'[c]) |-> "pending"] /\ status[c] = "none"
        BY TriggerMoves
      <4>2. CASE s \in 1..Len(plan'[c])
        BY <4>1, <4>2
      <4>3. CASE s \notin 1..Len(plan'[c])
        BY <4>1, <4>3 DEF FreshInv, NotYet, MemberFailed, Stages
      <4> QED
        BY <4>2, <4>3
    <3> QED
      BY <2>1, <3>1, HandlersOnBuild
  <2>2. ~UNCHANGED stage
    OBVIOUS
  <2>3. PICK b \in Build : Works(b)
    BY <2>1, <2>2, StepKinds, TurnsFrame DEF vars, stageVars
  <2>4. b = c
    BY <2>3, WorksMove DEF Moves
  <2> QED
    BY <2>3, <2>4, WorksMove DEF Moves, RowMoves
<1>2. StartRow(c)
  <2>1. ~Dispatch(c)
    BY <1>1 DEF Dispatch
  <2>2. ~RowsStarted(c) /\ ~Decide(c) /\ ~PollStage(c)
    BY <1>1 DEF RowsStarted, Decide, PollStage, stageVars
  <2>3. ~PollGroup(c) /\ ~StopGroup(c) /\ ~CloseGroup(c)
    BY <1>1 DEF PollGroup, StopGroup, CloseGroup
  <2>4. ~Reap(c) /\ ~CancelStage(c) /\ ~ProcessCancel(c)
    BY <1>1 DEF Reap, CancelStage, ProcessCancel, EngineInv
  <2>5. ~AdvanceRaises(c)
    <3> SUFFICES ASSUME AdvanceRaises(c) PROVE FALSE
      OBVIOUS
    <3>1. \A x \in Stages(c) : stage'[c][x] \in StageOver
      BY ReapMoves DEF AdvanceRaises, Terminal
    <3> QED
      BY <3>1 DEF StageOver, Terminal
  <2> QED
    BY <1>1, <2>1, <2>2, <2>3, <2>4, <2>5 DEF Works
<1>3. i \in Stages(c) /\ i < s
  BY PlanFacts DEF Stages
<1>4. CASE plan[c][i].kind = "server"
  <2>1. plan[c][s].kind = "server"
    BY <1>3, <1>4, PlanFacts DEF Valid, Stages
  <2>2. EarlierFailure(stage[c], s)
    BY DEF EarlierFailure, MemberFailed
  <2> QED
    BY <1>2, <2>1, <2>2, StartRowLoose
<1>5. CASE plan[c][i].kind # "server"
  <2>1. i \notin rows /\ LeftOver(c, stage[c], i)
    BY <1>1, <1>5, BehindFailure DEF Starting
  <2> QED
    BY <1>0, <1>1, <1>3, <2>1 DEF SkipInv, WillSkip
<1> QED
  BY <1>4, <1>5

\* Once a step failed without continueOnFailure nothing after it starts
\* (_skip_after_failure, _close_group): in every pipeline, parallel or sequential, through
\* cancels, crashes and restarts, in every build whose failure skipped what
\* follows or was not cut short.
THEOREM FailureStopsTheBuild == Spec => NothingStartsAfterFailure
<1>1. Init => StepInv /\ SkipInv
  BY DEF Init, StepInv, Starting, SkipInv, Stages
<1>2. CoreInv /\ StepInv /\ SkipInv /\ [Next]_vars =>
        [\A b \in Build \ loose' : \A s \in Stages(b) :
            stage[b][s] = "pending" /\ stage'[b][s] = "running" =>
                \A i \in 1..(s - 1) : MemberFailed(plan[b], stage[b], i) => s \in Spared(b, i) \cup StepRows(b, i)]_vars
  BY FailureStep
<1> QED
  BY <1>1, <1>2, StepInvStep, SkipStep, CoreHolds, PTL DEF Spec, NothingStartsAfterFailure

---------------------------------------------------------------------------
(* The contract on the stages of agents                                    *)

\* Two states of a task the contract cannot tell apart.
Alike(t, u) == (u = "none" <=> t = "none") /\ (u \in Taken <=> t \in Taken) /\ (u = "ok" <=> t = "ok")

\* A poll says success of what an agent brought to exit 0, and otherwise settles
\* the task.
LEMMA PolledSettles ==
    ASSUME NEW t \in TaskState \ {"none"}, NEW x, NEW u, <<x, u>> \in Polled(t) \cup {TimedOut(t)}
    PROVE  Alike(t, u) /\ (x = "success" => t = "ok")
BY DEF TaskState, Polled, TimedOut, CancelTask, Alike, Taken

\* Starting a row aside, the engine settles tasks and calls no agent's stage a
\* success but on the word of an agent.
LEMMA WorksSettle ==
    ASSUME CoreInv, NEW b \in Build, Works(b), ~StartRow(b), NEW s \in Stages(b)
    PROVE  /\ Alike(task[b][s], task'[b][s])
           /\ plan[b][s].kind = "agent" /\ stage'[b][s] = "success" /\ stage[b][s] # "success" =>
                 task[b][s] = "ok"
<1> USE DEF CoreInv, CoreTypes
<1> DEFINE Good == /\ Alike(task[b][s], task'[b][s])
                   /\ plan[b][s].kind = "agent" /\ stage'[b][s] = "success" /\ stage[b][s] # "success" =>
                         task[b][s] = "ok"
<1>0. task[b][s] \in TaskState /\ stage[b][s] \in StageState
  BY DEF RowTypes
<1>1. CASE Reap(b) \/ AdvanceRaises(b)
  <2>1. PICK as \in {"timeout", "failed"} : stage' = [stage EXCEPT ![b] = FailStages(@, as)]
    BY <1>1 DEF Reap, AdvanceRaises
  <2>2. stage'[b][s] = "success" => stage[b][s] = "success"
    BY <2>1 DEF RowTypes, FailStages
  <2>3. UNCHANGED task
    BY <1>1 DEF Reap, AdvanceRaises
  <2> QED
    BY <2>2, <2>3 DEF Alike
<1>2. CASE CancelStage(b)
  <2>1. PICK x \in Stages(b) : task' = [task EXCEPT ![b][x] = CancelTask(@)]
    BY <1>2 DEF CancelStage
  <2>2. Alike(task[b][s], task'[b][s])
    BY <2>1 DEF RowTypes, CancelTask, Alike, Taken
  <2>3. stage'[b][s] = "success" => stage[b][s] = "success"
    BY <1>2 DEF CancelStage, RowTypes
  <2> QED
    BY <2>2, <2>3
<1>3. CASE ProcessCancel(b)
  <2>1. stage'[b] = [i \in Stages(b) |-> CASE stage[b][i] = "running" -> "cancelled"
                                           [] stage[b][i] = "pending" -> "skipped"
                                           [] OTHER -> stage[b][i]]
    BY <1>3 DEF ProcessCancel, RowTypes
  <2>2. stage'[b][s] = "success" => stage[b][s] = "success"
    BY <2>1
  <2> QED
    BY <1>3, <2>2 DEF ProcessCancel, Alike
<1>4. CASE Decide(b) \/ RowsStarted(b) \/ Dispatch(b)
  BY <1>4 DEF Decide, RowsStarted, Dispatch, stageVars, Alike
<1>5. CASE PollStage(b)
  <2> DEFINE x == Current(stage[b])
  <2>1. /\ x \in Stages(b) /\ stage[b][x] = "running"
        /\ x # s => /\ task'[b][s] = task[b][s]
                    /\ stage'[b][s] = stage[b][s] \/ stage'[b][s] = "skipped"
        /\ \/ plan[b][x].kind = "server" /\ task'[b][x] = task[b][x]
           \/ plan[b][x].kind = "agent" /\
              <<stage'[b][x], task'[b][x]>> \in Polled(task[b][x]) \cup {TimedOut(task[b][x])}
    BY <1>5, PollStageMoves
  <2> HIDE DEF x
  <2>2. CASE x # s
    BY <2>1, <2>2 DEF Alike
  <2>3. CASE x = s /\ plan[b][s].kind = "server"
    BY <2>1, <2>3 DEF Alike
  <2>4. CASE x = s /\ plan[b][s].kind # "server"
    <3>1. task[b][s] # "none"
      BY <2>1, <2>4 DEF SupportedInv
    <3> QED
      BY <1>0, <2>1, <2>4, <3>1, PolledSettles
  <2> QED
    BY <2>2, <2>3, <2>4
<1>6. CASE PollGroup(b)
  <2>1. \/ stage'[b][s] = stage[b][s] /\ task'[b][s] = task[b][s]
        \/ <<stage'[b][s], task'[b][s]>> \in MemberPoll(task[b][s]) /\ task[b][s] # "none"
    BY <1>6, PollGroupMoves
  <2>2. CASE <<stage'[b][s], task'[b][s]>> \in MemberPoll(task[b][s]) /\ task[b][s] # "none"
    BY <1>0, <2>2, MemberPolled, PolledSettles
  <2> QED
    BY <2>1, <2>2 DEF Alike
<1>7. CASE StopGroup(b)
  <2>1. \/ stage'[b][s] = stage[b][s] /\ task'[b][s] = task[b][s]
        \/ stage'[b][s] = "skipped" /\ task'[b][s] = task[b][s]
        \/ stage'[b][s] = "cancelled" /\ task'[b][s] = CancelTask(task[b][s])
    BY <1>7, StopGroupMoves
  <2> QED
    BY <2>1 DEF CancelTask, Alike, Taken
<1>8. CASE CloseGroup(b)
  BY <1>8, CloseGroupMoves DEF Alike
<1> QED
  BY <1>1, <1>2, <1>3, <1>4, <1>5, <1>6, <1>7, <1>8 DEF Works

\* A slot is a build and a position, and every stage of a triggered build has one.
LEMMA Slots ==
    /\ \A x \in Slot : x = <<x[1], x[2]>> /\ x[1] \in Build
    /\ BuildTypes /\ SnapshotInv => \A b \in Build : status[b] # "none" => \A s \in Stages(b) : <<b, s>> \in Slot
<1>1. \A x \in Slot : x = <<x[1], x[2]>> /\ x[1] \in Build
  BY DEF Slot
<1>2. ASSUME BuildTypes, SnapshotInv, NEW b \in Build, status[b] # "none", NEW s \in Stages(b)
      PROVE  <<b, s>> \in Slot
  <2>1. plan[b] \in Plans[b]
    BY <1>2 DEF SnapshotInv
  <2>2. s \in UNION {1..Len(pl) : pl \in Plans[b]}
    BY <1>2, <2>1 DEF Stages
  <2> QED
    BY <2>2 DEF Slot
<1> QED
  BY <1>1, <1>2

\* What a step does to a slot that the contract takes for a verdict or nothing.
Quiet(x) ==
    /\ Alike(TaskOf(x), TaskOf(x)')
    /\ VerdictOf(x)' # VerdictOf(x) =>
          VerdictOf(x) = "none" /\ (VerdictOf(x)' = "green" => TaskOf(x) = "ok")

\* A verdict stands.
LEMMA VerdictStays ==
    ASSUME CoreInv, [Next]_vars, NEW x \in Slot, VerdictOf(x) # "none"
    PROVE  VerdictOf(x)' = VerdictOf(x)
<1> DEFINE c == x[1]
           s == x[2]
<1>1. c \in Build /\ s \in Stages(c) /\ plan[c][s].kind = "agent" /\ stage[c][s] \in StageOver
  BY Slots DEF VerdictOf, Handed
<1> HIDE DEF c, s
<1>2. status[c] # "none"
  BY <1>1 DEF CoreInv, FreshInv, NotYet, StageOver, Terminal
<1>3. plan'[c] = plan[c] /\ stage'[c][s] = stage[c][s]
  BY <1>1, <1>2, LiveStays, OverStays
<1> QED
  BY <1>3 DEF VerdictOf, Handed, Stages, c, s

\* A slot whose task stays alike, and turns green only on the agent's word.
LEMMA QuietSlot ==
    ASSUME CoreInv, [Next]_vars, NEW x \in Slot, plan'[x[1]] = plan[x[1]],
           \A s \in Stages(x[1]) :
              /\ Alike(task[x[1]][s], task'[x[1]][s])
              /\ plan[x[1]][s].kind = "agent" /\ stage'[x[1]][s] = "success" /\ stage[x[1]][s] # "success" =>
                    task[x[1]][s] = "ok"
    PROVE  Quiet(x)
<1>1. Alike(TaskOf(x), TaskOf(x)')
  BY DEF TaskOf, Handed, Stages, Alike
<1>2. ASSUME VerdictOf(x)' # VerdictOf(x), VerdictOf(x)' = "green" PROVE TaskOf(x) = "ok"
  <2>1. VerdictOf(x) = "none"
    BY <1>2, VerdictStays
  <2>2. Handed(x) /\ stage'[x[1]][x[2]] = "success" /\ stage[x[1]][x[2]] # "success"
    BY <1>2, <2>1 DEF VerdictOf, Handed, Stages, StageOver, Terminal
  <2> QED
    BY <2>2 DEF TaskOf, Handed
<1> QED
  BY <1>1, <1>2, VerdictStays DEF Quiet

\* A step that leaves the rows of x's build alone is quiet at x.
LEMMA QuietBuild ==
    ASSUME CoreInv, [Next]_vars, NEW x \in Slot,
           plan'[x[1]] = plan[x[1]], stage'[x[1]] = stage[x[1]], task'[x[1]] = task[x[1]]
    PROVE  Quiet(x)
BY QuietSlot DEF Alike

\* The contract's view of a step that is quiet at every slot: verdicts.
LEMMA QuietCloses == ASSUME \A x \in Slot : Quiet(x) PROVE Contract!Close
<1>1. [x \in Slot |-> VerdictOf(x)]' \in [Slot -> {"none", "green", "other"}]
  BY DEF VerdictOf
<1>2. \A x \in Slot : [y \in Slot |-> VerdictOf(y)]'[x] # [y \in Slot |-> VerdictOf(y)][x] =>
         /\ [y \in Slot |-> VerdictOf(y)][x] = "none"
         /\ [y \in Slot |-> VerdictOf(y)]'[x] = "green" => x \in {y \in Slot : TaskOf(y) = "ok"}
  BY DEF Quiet
<1>3. /\ {x \in Slot : TaskOf(x) # "none"}' = {x \in Slot : TaskOf(x) # "none"}
      /\ {x \in Slot : TaskOf(x) = "ok"}' = {x \in Slot : TaskOf(x) = "ok"}
      /\ [x \in Slot |-> IF TaskOf(x) \in Taken THEN 1 ELSE 0]'
           = [x \in Slot |-> IF TaskOf(x) \in Taken THEN 1 ELSE 0]
  BY DEF Quiet, Alike
<1> QED
  BY <1>1, <1>2, <1>3 DEF Contract!Close

\* Starting a row offers its slot, or is quiet.
LEMMA StartOffers ==
    ASSUME CoreInv, TaskInv, [Next]_vars, NEW b \in Build, StartRow(b)
    PROVE  Contract!Close \/ \E x \in Slot : Contract!Offer(x)
<1> USE DEF CoreInv, CoreTypes
<1>1. Moves(b) /\ plan' = plan
  BY StartRowMoves DEF Moves
<1>2. PICK s \in Stages(b) :
         /\ stage[b][s] = "pending" /\ stage'[b][s] \in {"running", "skipped", "failed"}
         /\ \A i \in Stages(b) \ {s} : stage'[b][i] = stage[b][i] /\ task'[b][i] = task[b][i]
         /\ task'[b][s] \in {task[b][s], "queued"}
         /\ \/ task'[b][s] = task[b][s]
            \/ plan[b][s].kind = "agent" /\ stage'[b][s] = "running"
  BY StartRowMoves
<1>3. status[b] # "none" /\ <<b, s>> \in Slot
  BY Slots DEF StartRow
<1>4. ASSUME NEW x \in Slot, x[1] # b PROVE Quiet(x)
  BY <1>1, <1>4, Slots, QuietBuild DEF Moves
<1>5. CASE task'[b][s] = task[b][s]
  <2>1. ASSUME NEW x \in Slot, x[1] = b PROVE Quiet(x)
    BY <1>1, <1>2, <1>5, <2>1, QuietSlot DEF Alike
  <2> QED
    BY <1>4, <2>1, QuietCloses
<1>6. CASE task'[b][s] # task[b][s]
  <2>1. /\ task[b][s] = "none" /\ task'[b][s] = "queued" /\ stage'[b][s] = "running"
        /\ plan[b][s].kind = "agent"
    BY <1>2, <1>6 DEF TaskInv
  <2>2. ASSUME NEW x \in Slot, x # <<b, s>>
        PROVE  TaskOf(x)' = TaskOf(x) /\ VerdictOf(x)' = VerdictOf(x)
    <3>1. CASE x[1] = b
      <4>1. x[2] # s
        BY <2>2, <3>1, Slots
      <4> QED
        BY <1>1, <1>2, <3>1, <4>1 DEF TaskOf, VerdictOf, Handed, Stages
    <3>2. CASE x[1] # b
      <4>1. stage'[x[1]] = stage[x[1]] /\ task'[x[1]] = task[x[1]]
        BY <1>1, <3>2, Slots DEF Moves
      <4> QED
        BY <1>1, <4>1 DEF TaskOf, VerdictOf, Handed, Stages
    <3> QED
      BY <3>1, <3>2
  <2>3. /\ TaskOf(<<b, s>>) = "none" /\ TaskOf(<<b, s>>)' = "queued"
        /\ VerdictOf(<<b, s>>) = "none" /\ VerdictOf(<<b, s>>)' = "none"
    BY <1>1, <1>2, <2>1 DEF TaskOf, VerdictOf, Handed, Stages, StageOver, Terminal
  <2>4. {x \in Slot : TaskOf(x) # "none"}' = {x \in Slot : TaskOf(x) # "none"} \cup {<<b, s>>}
    BY <1>3, <2>2, <2>3
  <2>5. /\ {x \in Slot : TaskOf(x) = "ok"}' = {x \in Slot : TaskOf(x) = "ok"}
        /\ [x \in Slot |-> IF TaskOf(x) \in Taken THEN 1 ELSE 0]'
             = [x \in Slot |-> IF TaskOf(x) \in Taken THEN 1 ELSE 0]
        /\ [x \in Slot |-> VerdictOf(x)]' = [x \in Slot |-> VerdictOf(x)]
    BY <2>2, <2>3 DEF Taken
  <2>6. <<b, s>> \notin {x \in Slot : TaskOf(x) # "none"} /\ [x \in Slot |-> VerdictOf(x)][<<b, s>>] = "none"
    BY <1>3, <2>3
  <2>7. Contract!Offer(<<b, s>>)
    BY <2>4, <2>5, <2>6 DEF Contract!Offer
  <2> QED
    BY <1>3, <2>7
<1> QED
  BY <1>5, <1>6

\* An agent takes up a slot, earns it, or fails at it.
LEMMA AgentTakes ==
    ASSUME CoreInv, TaskInv, [Next]_vars, NEW b \in Build, Agent(b)
    PROVE  Contract!Close \/ \E x \in Slot : Contract!Take(x) \/ Contract!Earn(x)
<1> USE DEF CoreInv, CoreTypes
<1>1. PICK s \in Stages(b) : Claim(b, s) \/ Report(b, s)
  BY DEF Agent
<1>2. PICK v \in {"claimed", "ok", "bad"} :
        /\ task' = [task EXCEPT ![b][s] = v] /\ UNCHANGED <<plan, stage>>
        /\ \/ task[b][s] = "queued" /\ v = "claimed"
           \/ task[b][s] \in {"claimed", "lapsed"} /\ v \in {"ok", "bad"}
  BY <1>1 DEF Claim, Report, buildVars
<1>3. status[b] # "none" /\ plan[b][s].kind = "agent"
  BY <1>2 DEF FreshInv, NotYet, TaskInv
<1>4. <<b, s>> \in Slot
  BY <1>3, Slots
<1>5. ASSUME NEW x \in Slot, x # <<b, s>> PROVE TaskOf(x)' = TaskOf(x)
  <2>1. x[1] \in Build /\ (x[1] # b \/ x[2] # s)
    BY <1>5, Slots
  <2>2. x[2] \in Stages(x[1]) => task'[x[1]][x[2]] = task[x[1]][x[2]]
    BY <1>2, <2>1 DEF RowTypes
  <2> QED
    BY <1>2, <2>2 DEF TaskOf, Handed, Stages
<1>6. TaskOf(<<b, s>>) = task[b][s] /\ TaskOf(<<b, s>>)' = v
  <2>1. task'[b][s] = v
    BY <1>2 DEF RowTypes
  <2> QED
    BY <1>2, <1>3, <2>1 DEF TaskOf, Handed, Stages
<1>7. [x \in Slot |-> VerdictOf(x)]' = [x \in Slot |-> VerdictOf(x)]
  BY <1>2 DEF VerdictOf, Handed, Stages
<1>8. {x \in Slot : TaskOf(x) # "none"}' = {x \in Slot : TaskOf(x) # "none"}
  BY <1>2, <1>5, <1>6
<1>9. CASE v = "claimed"
  <2>1. {x \in Slot : TaskOf(x) = "ok"}' = {x \in Slot : TaskOf(x) = "ok"}
    BY <1>2, <1>5, <1>6, <1>9
  <2>2. /\ [x \in Slot |-> IF TaskOf(x) \in Taken THEN 1 ELSE 0]'
             = [[x \in Slot |-> IF TaskOf(x) \in Taken THEN 1 ELSE 0] EXCEPT ![<<b, s>>] = 1]
        /\ [x \in Slot |-> IF TaskOf(x) \in Taken THEN 1 ELSE 0][<<b, s>>] = 0
    BY <1>2, <1>4, <1>5, <1>6, <1>9 DEF Taken
  <2>3. <<b, s>> \in {x \in Slot : TaskOf(x) # "none"}
    BY <1>2, <1>4, <1>6, <1>9
  <2> QED
    BY <1>4, <1>7, <1>8, <2>1, <2>2, <2>3 DEF Contract!Take
<1>10. CASE v = "ok"
  <2>1. {x \in Slot : TaskOf(x) = "ok"}' = {x \in Slot : TaskOf(x) = "ok"} \cup {<<b, s>>}
    BY <1>4, <1>5, <1>6, <1>10
  <2>2. /\ [x \in Slot |-> IF TaskOf(x) \in Taken THEN 1 ELSE 0]'
             = [x \in Slot |-> IF TaskOf(x) \in Taken THEN 1 ELSE 0]
        /\ [x \in Slot |-> IF TaskOf(x) \in Taken THEN 1 ELSE 0][<<b, s>>] = 1
    BY <1>2, <1>4, <1>5, <1>6, <1>10 DEF Taken
  <2> QED
    BY <1>4, <1>7, <1>8, <2>1, <2>2 DEF Contract!Earn
<1>11. CASE v = "bad"
  <2>1. ASSUME NEW x \in Slot PROVE Quiet(x)
    <3>1. Alike(TaskOf(x), TaskOf(x)')
      BY <1>2, <1>5, <1>6, <1>11 DEF Alike, Taken
    <3>2. VerdictOf(x)' = VerdictOf(x)
      BY <1>2 DEF VerdictOf, Handed, Stages
    <3> QED
      BY <3>1, <3>2 DEF Quiet
  <2> QED
    BY <2>1, QuietCloses
<1> QED
  BY <1>9, <1>10, <1>11

\* A trigger makes slots real that nobody has heard of; other requests touch none.
LEMMA HandlersQuiet ==
    ASSUME CoreInv, CoreInv', [Next]_vars, NEW b \in Build, Handlers(b)
    PROVE  Contract!Close
<1> USE DEF CoreInv, CoreTypes
<1>1. CASE ~Trigger(b)
  <2>1. UNCHANGED <<plan, stage, task>>
    BY <1>1 DEF Handlers, CancelRead, CancelCommit, TimePasses, buildVars, stageVars
  <2> QED
    BY <2>1, QuietBuild, QuietCloses
<1>2. CASE Trigger(b)
  <2>0. /\ status[b] = "none"
        /\ plan' = [c \in Build |-> IF c = b THEN plan'[b] ELSE plan[c]]
        /\ stage' = [c \in Build |-> IF c = b THEN stage'[b] ELSE stage[c]]
        /\ task' = [c \in Build |-> IF c = b THEN task'[b] ELSE task[c]]
        /\ stage'[b] = [s \in 1..Len(plan'[b]) |-> "pending"]
        /\ task'[b] = [s \in 1..Len(plan'[b]) |-> "none"]
    BY <1>2, TriggerMoves
  <2>1. ASSUME NEW x \in Slot, x[1] # b PROVE Quiet(x)
    <3>1. x[1] \in Build
      BY Slots
    <3>2. plan'[x[1]] = plan[x[1]] /\ stage'[x[1]] = stage[x[1]] /\ task'[x[1]] = task[x[1]]
      BY <2>0, <2>1, <3>1
    <3> QED
      BY <3>2, QuietBuild
  <2>2. ASSUME NEW x \in Slot, x[1] = b PROVE Quiet(x)
    <3>1. /\ \A s \in Stages(b) : stage[b][s] = "pending" /\ task[b][s] = "none"
          /\ \A s \in Stages(b)' : stage'[b][s] = "pending" /\ task'[b][s] = "none"
      BY <2>0 DEF FreshInv, NotYet, Stages
    <3>2. TaskOf(x) = "none" /\ VerdictOf(x) = "none"
      BY <2>2, <3>1 DEF TaskOf, VerdictOf, Handed, StageOver, Terminal
    <3>3. TaskOf(x)' = "none" /\ VerdictOf(x)' = "none"
      BY <2>2, <3>1 DEF TaskOf, VerdictOf, Handed, StageOver, Terminal
    <3> QED
      BY <3>2, <3>3 DEF Quiet, Alike
  <2> QED
    BY <2>1, <2>2, QuietCloses
<1> QED
  BY <1>1, <1>2

\* Every step of the engine, of a request and of an agent is one of the contract.
LEMMA ContractStep == CoreInv /\ CoreInv' /\ TaskInv /\ [Next]_vars => [Contract!Next]_(Contract!vars)
<1> SUFFICES ASSUME CoreInv, CoreInv', TaskInv, [Next]_vars PROVE Contract!Next
  OBVIOUS
<1>1. CASE UNCHANGED vars \/ Turns \/ \E b \in Build : Walks(b)
  <2>1. UNCHANGED <<plan, stage, task>>
    BY <1>1, TurnsFrame DEF vars, buildVars, stageVars
  <2> QED
    BY <2>1, QuietBuild, QuietCloses DEF Contract!Next
<1>2. ASSUME NEW b \in Build, Works(b), ~StartRow(b) PROVE Contract!Next
  <2>1. Moves(b)
    BY <1>2, WorksMove
  <2>2. ASSUME NEW x \in Slot PROVE Quiet(x)
    <3>1. CASE x[1] = b
      BY <1>2, <2>1, <3>1, WorksSettle, QuietSlot DEF Moves
    <3>2. CASE x[1] # b
      BY <2>1, <3>2, Slots, QuietBuild DEF Moves
    <3> QED
      BY <3>1, <3>2
  <2> QED
    BY <2>2, QuietCloses DEF Contract!Next
<1>3. ASSUME NEW b \in Build, StartRow(b) PROVE Contract!Next
  BY <1>3, StartOffers DEF Contract!Next
<1>4. ASSUME NEW b \in Build, Handlers(b) PROVE Contract!Next
  BY <1>4, HandlersQuiet DEF Contract!Next
<1>5. ASSUME NEW b \in Build, Agent(b) PROVE Contract!Next
  BY <1>5, AgentTakes DEF Contract!Next
<1> QED
  BY <1>1, <1>2, <1>3, <1>4, <1>5, StepKinds

\* A stage handed to an agent is offered once, never claimed twice, green only if
\* its agent said 0, and its verdict stands, in every pipeline and through every
\* cancel, reaping, crash and restart: CiEngine implements StageContract.
THEOREM EngineKeepsContract == Spec => KeepsContract
<1>1. Init => TaskInv /\ Contract!Init
  <2> SUFFICES ASSUME Init PROVE TaskInv /\ Contract!Init
    OBVIOUS
  <2>1. \A b \in Build : Stages(b) = {}
    BY DEF Init, Stages
  <2>2. \A x \in Slot : TaskOf(x) = "none" /\ VerdictOf(x) = "none"
    BY <2>1, Slots DEF TaskOf, VerdictOf, Handed
  <2> QED
    BY <2>1, <2>2 DEF TaskInv, Contract!Init, Taken
<1> QED
  BY <1>1, ContractStep, TaskStep, CoreHolds, PTL DEF Spec, KeepsContract, Contract!Spec
=============================================================================
