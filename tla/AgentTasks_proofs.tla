------------------------- MODULE AgentTasks_proofs -------------------------
(***************************************************************************)
(* A stage handed to an agent is run once at most and is green only if it  *)
(* was run to exit 0, for any tasks, any number of overlapping claim       *)
(* requests, any limits and faults, and whatever is lost or slow; and      *)
(* every step is one StageContract allows.                                 *)
(***************************************************************************)
EXTENDS AgentTasks, FiniteSetTheorems, TLAPS

USE TaskAssumption, LimitAssumption, WorldAssumption

---------------------------------------------------------------------------
(* Types                                                                   *)

\* One reply is waited for, one task run, one row judged at a time: written
\* without Cardinality, which says nothing of a set not known to be finite.
AtMostOne(S) == \A x, y \in S : x = y

Shapes ==
    /\ stage \in [Task -> {"waiting", "open"} \cup Closed]
    /\ state \in [Task -> {"none", "queued", "claimed", "done"}]
    /\ token \in [Task -> 0..issued] /\ issued \in Nat
    /\ exit \in [Task -> {"none", "zero", "other"}]
    /\ called \in [Task -> BOOLEAN] /\ silent \in [Task -> BOOLEAN]
    /\ reqAt \in [Request -> {"idle", "new", "counted", "picked"}]
    /\ pick \in [Request -> Task \cup {0}]
    /\ asked \in SUBSET Request /\ AtMostOne(asked)
    /\ job \in SUBSET [task: Task, token: 1..issued] /\ AtMostOne(job)
    /\ look \in SUBSET Seen /\ AtMostOne(look)
    /\ world \in World
    /\ runs \in [Task -> Nat] /\ earned \in [Task -> BOOLEAN]
    /\ faults \in 0..MaxFaults

\* A stage that waits has no task row, and a request has read a task exactly
\* when it is about to claim it.
Pairs ==
    /\ \A t \in Task : stage[t] = "waiting" <=> state[t] = "none"
    /\ \A q \in Request : reqAt[q] = "picked" <=> pick[q] # 0

TypeInv == Shapes /\ Pairs

\* A set whose members are all the same has one member at most.
LEMMA OneAtMost ==
    ASSUME NEW S, AtMostOne(S)
    PROVE  IsFiniteSet(S) /\ Cardinality(S) <= 1
<1>1. CASE S = {}
  BY <1>1, FS_EmptySet
<1>2. CASE S # {}
  <2>1. PICK x : S = {x}
    <3>1. PICK x : x \in S
      BY <1>2
    <3>2. S = {x}
      BY <3>1 DEF AtMostOne
    <3> QED
      BY <3>2
  <2>2. IsFiniteSet({x}) /\ Cardinality({x}) = 1
    BY FS_Singleton
  <2> QED
    BY <2>1, <2>2
<1> QED
  BY <1>1, <1>2

\* What the runs check follows from what is proved.
LEMMA TypesSuffice == TypeInv => TypeOK
BY OneAtMost DEF TypeInv, Shapes, Pairs, TypeOK

\* Nothing is wrong to begin with.
LEMMA InitTypes == Init => TypeInv
BY DEF Init, TypeInv, Shapes, Pairs, AtMostOne, Closed

\* What the engine reads of a task that has a row.
LEMMA ViewType ==
    ASSUME TypeInv, NEW t \in Task, state[t] # "none"
    PROVE  View(t) \in Seen
BY DEF TypeInv, Shapes, View, Seen

\* What the engine or a claim request has read, or an agent was given, has a row:
\* none is ever taken away.
Rows ==
    /\ \A v \in look : state[v.task] # "none" /\ stage[v.task] # "waiting"
    /\ \A q \in Request : pick[q] # 0 => state[pick[q]] # "none"
    /\ \A t \in Task : token[t] # 0 => state[t] # "none"

\* A step of the engine at what it has read keeps the types.
LEMMA CloseStageTypes ==
    ASSUME TypeInv, NEW t \in Task, NEW how \in Closed, CloseStage(t, how)
    PROVE  /\ stage' \in [Task -> {"waiting", "open"} \cup Closed]
           /\ look' = {} /\ faults' \in 0..MaxFaults
           /\ \A u \in Task : u # t => stage'[u] = stage[u]
           /\ stage'[t] \in {stage[t], how}
BY DEF TypeInv, Shapes, CloseStage, Fault

\* Every step of the engine keeps them.
LEMMA EngineTypes ==
    ASSUME TypeInv, Rows,
           \/ \E t \in Task : Offer(t) \/ Look(t) \/ Reap(t)
           \/ Act \/ (\E v \in look : Cut(v))
    PROVE  TypeInv' /\ Rows'
<1> USE DEF EngineFrame, requestVars, agentVars
<1>1. UNCHANGED <<token, silent, reqAt, pick, asked, job, runs, earned, issued, world>>
  BY DEF Offer, Look, Reap, Act, Lapse, Judge, StillRunning, Cut
<1>2. \A v \in look : v \in Seen /\ v.task \in Task
  BY DEF TypeInv, Shapes, Seen
<1>3. SUFFICES ASSUME /\ stage' \in [Task -> {"waiting", "open"} \cup Closed]
                      /\ state' \in [Task -> {"none", "queued", "claimed", "done"}]
                      /\ exit' \in [Task -> {"none", "zero", "other"}]
                      /\ called' \in [Task -> BOOLEAN]
                      /\ faults' \in 0..MaxFaults
                      /\ look' \in SUBSET Seen /\ AtMostOne(look')
                      /\ \A t \in Task : stage'[t] = "waiting" <=> state'[t] = "none"
                      /\ \A v \in look' : stage'[v.task] # "waiting"
                      /\ \A t \in Task : state[t] # "none" => state'[t] # "none"
               PROVE  TypeInv' /\ Rows'
  <2> DEFINE Good == /\ stage' \in [Task -> {"waiting", "open"} \cup Closed]
                     /\ state' \in [Task -> {"none", "queued", "claimed", "done"}]
                     /\ exit' \in [Task -> {"none", "zero", "other"}]
                     /\ called' \in [Task -> BOOLEAN]
                     /\ faults' \in 0..MaxFaults
                     /\ look' \in SUBSET Seen /\ AtMostOne(look')
                     /\ \A t \in Task : stage'[t] = "waiting" <=> state'[t] = "none"
                     /\ \A v \in look' : stage'[v.task] # "waiting"
                     /\ \A t \in Task : state[t] # "none" => state'[t] # "none"
  <2> USE DEF TypeInv, Shapes, Pairs, Rows
  <2>1. ASSUME NEW t \in Task, Offer(t) PROVE Good
    BY <2>1, <1>2 DEF Offer
  <2>2. ASSUME NEW t \in Task, Look(t) PROVE Good
    <3>1. View(t) \in Seen /\ View(t).task = t
      BY <2>2, ViewType DEF Look, View
    <3> QED
      BY <2>2, <3>1 DEF Look, AtMostOne
  <2>3. ASSUME NEW t \in Task, Reap(t) PROVE Good
    BY <2>3, <1>2 DEF Reap, Closed, AtMostOne
  <2>8. ASSUME NEW t \in Task, NEW how \in Closed, CloseStage(t, how), stage[t] # "waiting",
               state' \in [Task -> {"none", "queued", "claimed", "done"}],
               exit' \in [Task -> {"none", "zero", "other"}], called' \in [Task -> BOOLEAN],
               \A u \in Task : state'[u] = "none" <=> state[u] = "none"
        PROVE  Good
    <3>1. /\ stage' \in [Task -> {"waiting", "open"} \cup Closed]
          /\ look' = {} /\ faults' \in 0..MaxFaults
          /\ \A u \in Task : u # t => stage'[u] = stage[u]
          /\ stage'[t] \in {stage[t], how}
      BY <2>8, CloseStageTypes
    <3>2. how # "waiting"
      BY DEF Closed
    <3>3. \A u \in Task : stage'[u] = "waiting" <=> stage[u] = "waiting"
      BY <2>8, <3>1, <3>2
    <3>4. \A u \in Task : stage'[u] = "waiting" <=> state'[u] = "none"
      BY <2>8, <3>3
    <3> QED
      BY <2>8, <3>1, <3>4 DEF AtMostOne
  <2>4. ASSUME NEW v \in look, Lapse(v) PROVE Good
    <3>1. v.task \in Task /\ v.exit \in {"none", "zero", "other"} /\ stage[v.task] # "waiting"
      BY <1>2 DEF Seen
    <3>2. CloseStage(v.task, "failed") /\ "failed" \in Closed
      BY <2>4 DEF Lapse, Closed
    <3>3. /\ state' \in [Task -> {"none", "queued", "claimed", "done"}]
          /\ \A u \in Task : state'[u] = "none" <=> state[u] = "none"
      BY <2>4, <3>1 DEF Lapse
    <3>4. exit' \in [Task -> {"none", "zero", "other"}]
      BY <2>4, <3>1 DEF Lapse, GaveUp
    <3>5. called' \in [Task -> BOOLEAN]
      BY <2>4, <3>1 DEF Lapse
    <3> QED
      BY <2>8, <3>1, <3>2, <3>3, <3>4, <3>5
  <2>5. ASSUME NEW v \in look, Judge(v) PROVE Good
    <3>1. v.task \in Task /\ Verdict(v) \in Closed /\ stage[v.task] # "waiting"
      BY <1>2 DEF Verdict, Closed
    <3>2. CloseStage(v.task, Verdict(v)) /\ UNCHANGED <<state, exit, called>>
      BY <2>5 DEF Judge
    <3> QED
      BY <2>8, <3>1, <3>2
  <2>6. ASSUME NEW v \in look, StillRunning(v) PROVE Good
    BY <2>6 DEF StillRunning, AtMostOne
  <2>7. ASSUME NEW v \in look, Cut(v) PROVE Good
    <3>1. v.task \in Task /\ state[v.task] # "none" /\ stage[v.task] # "waiting"
      BY <1>2
    <3>2. PICK how \in {"cancelled", "timeout"} : CloseStage(v.task, how)
      BY <2>7 DEF Cut
    <3>3. how \in Closed
      BY DEF Closed
    <3>4. PICK said \in BOOLEAN : called' = [called EXCEPT ![v.task] = said]
      <4>1. called' = [called EXCEPT ![v.task] = called[v.task] \/ v.state # "done"]
        BY <2>7, Zenon DEF Cut, CancelTask
      <4>2. (called[v.task] \/ v.state # "done") \in BOOLEAN
        OBVIOUS
      <4> QED
        BY <4>1, <4>2, Zenon
    <3>5. called' \in [Task -> BOOLEAN]
      BY <3>1, <3>4
    <3>6. /\ state' \in [Task -> {"none", "queued", "claimed", "done"}]
          /\ \A u \in Task : state'[u] = "none" <=> state[u] = "none"
      <4>1. state' = [state EXCEPT ![v.task] = IF v.state = "queued" THEN "done" ELSE @]
        BY <2>7, Zenon DEF Cut, CancelTask
      <4>2. state'[v.task] \in {"done", state[v.task]} /\ \A u \in Task : u # v.task => state'[u] = state[u]
        BY <3>1, <4>1
      <4>3. state' \in [Task -> {"none", "queued", "claimed", "done"}]
        BY <3>1, <4>1
      <4> QED
        BY <3>1, <4>2, <4>3
    <3>7. exit' \in [Task -> {"none", "zero", "other"}]
      <4>1. exit' = [exit EXCEPT ![v.task] = IF v.state = "queued" THEN "other" ELSE @]
        BY <2>7, Zenon DEF Cut, CancelTask
      <4> QED
        BY <3>1, <4>1
    <3> QED
      BY <2>8, <3>1, <3>2, <3>3, <3>5, <3>6, <3>7
  <2> QED
    BY <2>1, <2>2, <2>3, <2>4, <2>5, <2>6, <2>7 DEF Act
<1>4. \A v \in look' : v.task \in Task
  BY <1>3 DEF Seen
<1>5. \A q \in Request : pick[q] # 0 => pick[q] \in Task /\ state[pick[q]] # "none"
  BY DEF TypeInv, Shapes, Rows
<1>6. Rows'
  <2>1. \A v \in look' : state'[v.task] # "none" /\ stage'[v.task] # "waiting"
    BY <1>3, <1>4
  <2>2. \A q \in Request : pick'[q] # 0 => state'[pick'[q]] # "none"
    BY <1>1, <1>3, <1>5
  <2>3. \A t \in Task : token'[t] # 0 => state'[t] # "none"
    BY <1>1, <1>3 DEF Rows
  <2> QED
    BY <2>1, <2>2, <2>3 DEF Rows
<1>7. Pairs'
  BY <1>1, <1>3 DEF TypeInv, Pairs
<1>8. Shapes'
  BY <1>1, <1>3 DEF TypeInv, Shapes
<1> QED
  BY <1>6, <1>7, <1>8 DEF TypeInv

\* Every step of a claim request keeps them.
LEMMA RequestTypes ==
    ASSUME TypeInv, Rows, NEW q \in Request, Ask(q) \/ Serve(q)
    PROVE  TypeInv' /\ Rows'
<1> USE DEF TypeInv, Shapes, Pairs, Rows, RequestFrame
<1>1. ASSUME Ask(q) PROVE TypeInv' /\ Rows'
  BY <1>1 DEF Ask, AtMostOne
<1>2. ASSUME CountClaimed(q) PROVE TypeInv' /\ Rows'
  BY <1>2 DEF CountClaimed, HasRoom, AtMostOne
<1>3. ASSUME ReadOldest(q) PROVE TypeInv' /\ Rows'
  <2>1. PICK t \in Task : pick' = [pick EXCEPT ![q] = t] /\ state[t] = "queued"
    BY <1>3 DEF ReadOldest, Queued
  <2>2. t # 0
    OBVIOUS
  <2>3. /\ reqAt' = [reqAt EXCEPT ![q] = "picked"]
        /\ UNCHANGED <<stage, state, token, exit, called, silent, asked, job, look, issued, world, runs, earned, faults>>
    BY <1>3 DEF ReadOldest
  <2>4. Shapes'
    BY <2>1, <2>3
  <2>5. Pairs'
    BY <2>1, <2>2, <2>3
  <2>6. Rows'
    BY <2>1, <2>3
  <2> QED
    BY <2>4, <2>5, <2>6
<1>4. ASSUME NothingForYou(q) PROVE TypeInv' /\ Rows'
  BY <1>4 DEF NothingForYou, Answered, AtMostOne
<1>5. ASSUME Claim(q) PROVE TypeInv' /\ Rows'
  <2>1. PICK t \in Task :
          /\ pick[q] = t
          /\ state' = [state EXCEPT ![t] = "claimed"]
          /\ token' = [token EXCEPT ![t] = issued + 1]
          /\ issued' = issued + 1
          /\ silent' = [silent EXCEPT ![t] = FALSE]
          /\ Answered(q)
          /\ RequestFrame
          /\ \/ /\ job' = {[task |-> t, token |-> issued + 1]}
                /\ runs' = [runs EXCEPT ![t] = @ + 1]
                /\ UNCHANGED faults
             \/ UNCHANGED <<job, runs, faults>>
             \/ Fault /\ UNCHANGED <<job, runs>>
    BY <1>5, Zenon DEF Claim
  <2>6. faults' \in 0..MaxFaults /\ runs' \in [Task -> Nat]
    BY <2>1 DEF Fault
  <2>2. token' \in [Task -> 0..issued'] /\ issued' \in Nat
    BY <2>1
  <2>3. job' \in SUBSET [task: Task, token: 1..issued'] /\ AtMostOne(job')
    BY <2>1 DEF AtMostOne
  <2>4. /\ reqAt' \in [Request -> {"idle", "new", "counted", "picked"}]
        /\ pick' \in [Request -> Task \cup {0}]
        /\ asked' \in SUBSET Request /\ AtMostOne(asked')
        /\ \A r \in Request : reqAt'[r] = "picked" <=> pick'[r] # 0
    BY <2>1 DEF Answered, AtMostOne
  <2>5. state[t] # "none" /\ t # 0
    BY <2>1
  <2>7. /\ state' \in [Task -> {"none", "queued", "claimed", "done"}]
        /\ \A u \in Task : state'[u] = "none" <=> state[u] = "none"
    BY <2>1, <2>5
  <2>8. silent' \in [Task -> BOOLEAN] /\ UNCHANGED <<stage, exit, called, look, earned, world>>
    BY <2>1
  <2>9. Shapes'
    BY <2>2, <2>3, <2>4, <2>6, <2>7, <2>8
  <2>10. Pairs'
    BY <2>4, <2>7, <2>8
  <2>11. Rows'
    <3>1. \A r \in Request : pick'[r] # 0 => pick'[r] = pick[r]
      BY <2>1 DEF Answered
    <3>2. \A r \in Request : pick'[r] # 0 => pick[r] \in Task /\ state[pick[r]] # "none"
      BY <3>1
    <3>3. \A v \in look' : v \in look /\ v.task \in Task
      BY <2>8 DEF Seen
    <3>4. \A u \in Task : token'[u] # 0 => state[u] # "none"
      BY <2>1, <2>5
    <3> QED
      BY <2>7, <2>8, <3>1, <3>2, <3>3, <3>4
  <2> QED
    BY <2>9, <2>10, <2>11
<1> QED
  BY <1>1, <1>2, <1>3, <1>4, <1>5 DEF Serve

\* And every step of the agent, and of time.
LEMMA AgentTypes ==
    ASSUME TypeInv, Rows,
           \/ GiveUpAsking \/ Work \/ AgentCrash
           \/ \E j \in job : ShipLines(j)
           \/ \E t \in Task : GoesSilent(t)
    PROVE  TypeInv' /\ Rows'
<1> USE DEF TypeInv, Shapes, Pairs, Rows, AgentFrame
<1>1. CASE GiveUpAsking
  BY <1>1 DEF GiveUpAsking, rowVars, agentVars, AtMostOne
<1>2. ASSUME NEW j \in job, NEW code \in {"zero", "other"}, Finish(j, code) PROVE TypeInv' /\ Rows'
  <2>1. j.task \in Task
    OBVIOUS
  <2>2. PICK well \in BOOLEAN : earned' = [earned EXCEPT ![j.task] = well]
    <3>1. earned' = [earned EXCEPT ![j.task] = earned[j.task] \/ code = "zero"]
      BY <1>2, Zenon DEF Finish
    <3>2. (earned[j.task] \/ code = "zero") \in BOOLEAN
      OBVIOUS
    <3> QED
      BY <3>1, <3>2, Zenon
  <2>3. /\ job' = {} /\ UNCHANGED <<token, asked, runs, stage, reqAt, pick, look, issued, world>>
        /\ \/ Authorised(j) /\ Recorded(j, code) /\ UNCHANGED faults
           \/ ~Authorised(j) /\ UNCHANGED <<state, exit, called, silent, faults>>
           \/ Authorised(j) /\ Fault /\ UNCHANGED <<state, exit, called, silent>>
    BY <1>2, Zenon DEF Finish
  <2>4. faults' \in 0..MaxFaults
    BY <2>3 DEF Fault
  <2>5. CASE Authorised(j) /\ Recorded(j, code)
    <3>1. token[j.task] # 0
      BY <2>5 DEF Authorised
    <3>2. /\ state' = [state EXCEPT ![j.task] = "done"] /\ exit' = [exit EXCEPT ![j.task] = code]
          /\ called' = [called EXCEPT ![j.task] = FALSE] /\ silent' = [silent EXCEPT ![j.task] = FALSE]
      BY <2>5 DEF Recorded
    <3>3. state[j.task] # "none"
      BY <3>1
    <3> QED
      BY <2>1, <2>2, <2>3, <2>4, <3>2, <3>3 DEF AtMostOne
  <2>6. CASE UNCHANGED <<state, exit, called, silent>>
    BY <2>1, <2>2, <2>3, <2>4, <2>6 DEF AtMostOne
  <2> QED
    BY <2>3, <2>5, <2>6
<1>3. CASE AgentCrash
  BY <1>3 DEF AgentCrash, Fault, rowVars, AtMostOne
<1>4. ASSUME NEW j \in job, ShipLines(j) PROVE TypeInv' /\ Rows'
  BY <1>4 DEF ShipLines, agentVars
<1>5. ASSUME NEW t \in Task, GoesSilent(t) PROVE TypeInv' /\ Rows'
  BY <1>5 DEF GoesSilent, requestVars, agentVars
<1> QED
  BY <1>1, <1>2, <1>3, <1>4, <1>5 DEF Work

---------------------------------------------------------------------------
(* The invariant                                                           *)

\* A task an agent was given is not to be had any more, and the request whose
\* reply the agent waits for has not read it.
RunInv ==
    \A t \in Task : runs[t] # 0 =>
        /\ runs[t] = 1
        /\ state[t] \notin {"none", "queued"}
        /\ \A q \in asked : pick[q] # t

\* An exit code of 0, recorded or read, was reported by an agent that ran the
\* task to it.
EarnInv ==
    /\ \A t \in Task : exit[t] = "zero" => earned[t]
    /\ \A v \in look : v.exit = "zero" => earned[v.task]
    /\ SuccessIsEarned

AgentInv == TypeInv /\ Rows /\ RunInv /\ EarnInv

\* No step of the engine offers a task again or has an agent run one, nor does it
\* invent an exit code of 0.
LEMMA EngineKeeps ==
    ASSUME AgentInv,
           \/ \E t \in Task : Offer(t) \/ Look(t) \/ Reap(t)
           \/ Act \/ (\E v \in look : Cut(v))
    PROVE  RunInv' /\ EarnInv'
<1> USE DEF EngineFrame, requestVars, agentVars
<1>1. UNCHANGED <<pick, asked, runs, earned>>
  BY DEF Offer, Look, Reap, Act, Lapse, Judge, StillRunning, Cut
<1>2. \A v \in look : v \in Seen /\ v.task \in Task
  BY DEF AgentInv, TypeInv, Shapes, Seen
<1> DEFINE Good == /\ \A t \in Task : state[t] \notin {"none", "queued"} => state'[t] \notin {"none", "queued"}
                   /\ EarnInv'
<1> USE DEF AgentInv, TypeInv, Shapes
<1>3. ASSUME NEW t \in Task, Offer(t) PROVE Good
  <2>1. state[t] = "none"
    BY <1>3 DEF Offer, Pairs
  <2> QED
    BY <1>1, <1>2, <1>3, <2>1 DEF Offer, EarnInv, SuccessIsEarned
<1>4. ASSUME NEW t \in Task, Look(t) PROVE Good
  <2>1. look' = {View(t)} /\ View(t).task = t /\ View(t).exit = exit[t] /\ UNCHANGED <<state, stage, exit>>
    BY <1>4 DEF Look, View
  <2> QED
    BY <1>1, <2>1 DEF EarnInv, SuccessIsEarned
<1>5. ASSUME NEW t \in Task, Reap(t) PROVE Good
  BY <1>1, <1>2, <1>5 DEF Reap, EarnInv, SuccessIsEarned
<1>6. ASSUME NEW t \in Task, NEW how \in Closed, CloseStage(t, how), how = "success" => earned[t],
             exit' \in [Task -> {"none", "zero", "other"}],
             \A u \in Task : exit'[u] = "zero" => earned[u]
      PROVE  EarnInv'
  <2>1. /\ look' = {} /\ \A u \in Task : u # t => stage'[u] = stage[u]
        /\ stage'[t] \in {stage[t], how}
    BY <1>6, CloseStageTypes
  <2> QED
    BY <1>1, <1>6, <2>1 DEF EarnInv, SuccessIsEarned
<1>7. ASSUME NEW v \in look, Lapse(v) PROVE Good
  <2>1. v.task \in Task /\ v.exit \in {"none", "zero", "other"} /\ (v.exit = "zero" => earned[v.task])
    BY <1>2 DEF Seen, EarnInv
  <2>2. CloseStage(v.task, "failed") /\ "failed" \in Closed
    BY <1>7 DEF Lapse, Closed
  <2>3. exit' = [exit EXCEPT ![v.task] = GaveUp(v)] /\ GaveUp(v) \in {"zero", "other"} /\ (GaveUp(v) = "zero" => v.exit = "zero")
    BY <1>7, <2>1 DEF Lapse, GaveUp
  <2>4. exit' \in [Task -> {"none", "zero", "other"}] /\ \A u \in Task : exit'[u] = "zero" => earned[u]
    BY <2>1, <2>3 DEF EarnInv
  <2>5. EarnInv'
    BY <1>6, <2>1, <2>2, <2>4
  <2>6. \A t \in Task : state[t] \notin {"none", "queued"} => state'[t] \notin {"none", "queued"}
    BY <1>7, <2>1 DEF Lapse
  <2> QED
    BY <2>5, <2>6
<1>8. ASSUME NEW v \in look, Judge(v) PROVE Good
  <2>1. v.task \in Task /\ Verdict(v) \in Closed /\ (Verdict(v) = "success" => earned[v.task])
    BY <1>2 DEF Verdict, Closed, EarnInv
  <2>2. CloseStage(v.task, Verdict(v)) /\ UNCHANGED <<state, exit>>
    BY <1>8 DEF Judge
  <2>3. EarnInv'
    BY <1>6, <2>1, <2>2 DEF EarnInv
  <2> QED
    BY <2>2, <2>3
<1>9. ASSUME NEW v \in look, StillRunning(v) PROVE Good
  BY <1>1, <1>9 DEF StillRunning, EarnInv, SuccessIsEarned
<1>10. ASSUME NEW v \in look, Cut(v) PROVE Good
  <2>1. v.task \in Task
    BY <1>2
  <2>2. PICK how \in {"cancelled", "timeout"} : CloseStage(v.task, how)
    BY <1>10 DEF Cut
  <2>3. how \in Closed /\ how # "success"
    BY DEF Closed
  <2>4. /\ state' = [state EXCEPT ![v.task] = IF v.state = "queued" THEN "done" ELSE @]
        /\ exit' = [exit EXCEPT ![v.task] = IF v.state = "queued" THEN "other" ELSE @]
    BY <1>10, Zenon DEF Cut, CancelTask
  <2>5. exit' \in [Task -> {"none", "zero", "other"}] /\ \A u \in Task : exit'[u] = "zero" => earned[u]
    BY <2>1, <2>4 DEF EarnInv
  <2>6. EarnInv'
    BY <1>6, <2>1, <2>2, <2>3, <2>5
  <2>7. \A t \in Task : state[t] \notin {"none", "queued"} => state'[t] \notin {"none", "queued"}
    BY <2>1, <2>4
  <2> QED
    BY <2>6, <2>7
<1>11. Good
  BY <1>3, <1>4, <1>5, <1>7, <1>8, <1>9, <1>10 DEF Act
<1>12. RunInv'
  BY <1>1, <1>11 DEF RunInv
<1> QED
  BY <1>11, <1>12

\* A claim request hands a task over only if it was read when queued, and it is
\* queued no more.
LEMMA RequestKeeps ==
    ASSUME AgentInv, NEW q \in Request, Ask(q) \/ Serve(q)
    PROVE  RunInv' /\ EarnInv'
<1> USE DEF AgentInv, TypeInv, Shapes, RequestFrame
<1>1. EarnInv'
  BY DEF Ask, Serve, CountClaimed, ReadOldest, NothingForYou, Claim, EarnInv, SuccessIsEarned
<1>2. ASSUME Ask(q) PROVE RunInv'
  <2>1. pick[q] = 0 /\ asked' = {q} /\ UNCHANGED <<state, pick, runs>>
    BY <1>2 DEF Ask, Pairs
  <2> QED
    BY <2>1 DEF RunInv
<1>3. ASSUME CountClaimed(q) PROVE RunInv'
  BY <1>3 DEF CountClaimed, RunInv
<1>4. ASSUME ReadOldest(q) PROVE RunInv'
  <2>1. PICK t \in Task : pick' = [pick EXCEPT ![q] = t] /\ state[t] = "queued"
    BY <1>4 DEF ReadOldest, Queued
  <2>2. UNCHANGED <<state, asked, runs>>
    BY <1>4 DEF ReadOldest
  <2> QED
    BY <2>1, <2>2 DEF RunInv
<1>5. ASSUME NothingForYou(q) PROVE RunInv'
  <2>1. UNCHANGED <<state, runs>> /\ pick' = [pick EXCEPT ![q] = 0] /\ asked' = asked \ {q}
    BY <1>5 DEF NothingForYou, Answered
  <2> QED
    BY <2>1 DEF RunInv
<1>6. ASSUME Claim(q) PROVE RunInv'
  <2>1. PICK t \in Task :
          /\ pick[q] = t /\ state' = [state EXCEPT ![t] = "claimed"] /\ Answered(q)
          /\ UNCHANGED runs \/ (q \in asked /\ runs' = [runs EXCEPT ![t] = @ + 1])
    BY <1>6, Zenon DEF Claim
  <2>2. asked' = asked \ {q}
    BY <2>1 DEF Answered
  <2>3. \A r \in asked' : pick'[r] = pick[r]
    BY <2>1, <2>2 DEF Answered
  <2>4. state'[t] = "claimed" /\ \A u \in Task : u # t => state'[u] = state[u]
    BY <2>1
  <2>5. CASE UNCHANGED runs
    <3> SUFFICES ASSUME NEW u \in Task, runs[u] # 0
                 PROVE  runs[u] = 1 /\ state'[u] \notin {"none", "queued"} /\ \A r \in asked' : pick'[r] # u
      BY <2>5 DEF RunInv
    <3> QED
      BY <2>2, <2>3, <2>4 DEF RunInv
  <2>6. CASE q \in asked /\ runs' = [runs EXCEPT ![t] = @ + 1]
    <3>1. runs[t] = 0
      BY <2>1, <2>6 DEF RunInv
    <3>2. asked' = {}
      BY <2>2, <2>6 DEF AtMostOne
    <3> QED
      BY <2>4, <2>6, <3>1, <3>2 DEF RunInv
  <2> QED
    BY <2>1, <2>5, <2>6
<1> QED
  BY <1>1, <1>2, <1>3, <1>4, <1>5, <1>6 DEF Serve

\* The agent ends what it runs: with 0 only if it came to that.
LEMMA AgentKeeps ==
    ASSUME AgentInv,
           \/ GiveUpAsking \/ Work \/ AgentCrash
           \/ \E j \in job : ShipLines(j)
           \/ \E t \in Task : GoesSilent(t)
    PROVE  RunInv' /\ EarnInv'
<1> USE DEF AgentInv, TypeInv, Shapes, AgentFrame
<1>1. CASE GiveUpAsking \/ AgentCrash
  BY <1>1 DEF GiveUpAsking, AgentCrash, rowVars, agentVars, RunInv, EarnInv, SuccessIsEarned
<1>2. ASSUME NEW j \in job, NEW code \in {"zero", "other"}, Finish(j, code) PROVE RunInv' /\ EarnInv'
  <2>1. j.task \in Task
    OBVIOUS
  <2>2. /\ earned' = [earned EXCEPT ![j.task] = earned[j.task] \/ code = "zero"]
        /\ UNCHANGED <<asked, runs, stage, pick, look>>
        /\ Recorded(j, code) \/ UNCHANGED <<state, exit>>
    BY <1>2, Zenon DEF Finish
  <2>3. \A u \in Task : earned[u] => earned'[u]
    BY <2>1, <2>2
  <2>4. code = "zero" => earned'[j.task]
    BY <2>1, <2>2
  <2>5. \/ /\ state' = [state EXCEPT ![j.task] = "done"]
           /\ exit' = [exit EXCEPT ![j.task] = code]
        \/ UNCHANGED <<state, exit>>
    BY <2>2 DEF Recorded
  <2>6. RunInv'
    BY <2>1, <2>2, <2>5 DEF RunInv
  <2>7. \A u \in Task : exit'[u] = "zero" => earned'[u]
    BY <2>1, <2>3, <2>4, <2>5 DEF EarnInv
  <2>8. \A v \in look : v.task \in Task
    BY DEF Seen
  <2>9. EarnInv'
    BY <2>2, <2>3, <2>7, <2>8 DEF EarnInv, SuccessIsEarned
  <2> QED
    BY <2>6, <2>9
<1>3. ASSUME NEW j \in job, ShipLines(j) PROVE RunInv' /\ EarnInv'
  BY <1>3 DEF ShipLines, agentVars, RunInv, EarnInv, SuccessIsEarned
<1>4. ASSUME NEW t \in Task, GoesSilent(t) PROVE RunInv' /\ EarnInv'
  BY <1>4 DEF GoesSilent, requestVars, agentVars, RunInv, EarnInv, SuccessIsEarned
<1> QED
  BY <1>1, <1>2, <1>3, <1>4 DEF Work

---------------------------------------------------------------------------
(* The theorems                                                            *)

\* The inductive invariant, whatever is lost, slow or cut short.
THEOREM Invariance == Spec => []AgentInv
<1>1. Init => AgentInv
  <2> SUFFICES ASSUME Init PROVE AgentInv
    OBVIOUS
  <2>1. Rows /\ RunInv /\ EarnInv
    BY DEF Init, Rows, RunInv, EarnInv, SuccessIsEarned
  <2> QED
    BY <2>1, InitTypes DEF AgentInv
<1>2. AgentInv /\ [Next]_vars => AgentInv'
  <2> SUFFICES ASSUME AgentInv, [Next]_vars PROVE AgentInv'
    OBVIOUS
  <2>1. TypeInv /\ Rows
    BY DEF AgentInv
  <2>2. CASE \/ \E t \in Task : Offer(t) \/ Look(t) \/ Reap(t)
             \/ Act \/ (\E v \in look : Cut(v))
    BY <2>1, <2>2, EngineTypes, EngineKeeps DEF AgentInv
  <2>3. CASE \E q \in Request : Ask(q) \/ Serve(q)
    BY <2>1, <2>3, RequestTypes, RequestKeeps DEF AgentInv
  <2>4. CASE \/ GiveUpAsking \/ Work \/ AgentCrash
             \/ \E j \in job : ShipLines(j)
             \/ \E t \in Task : GoesSilent(t)
    BY <2>1, <2>4, AgentTypes, AgentKeeps DEF AgentInv
  <2>5. CASE UNCHANGED vars
    BY <2>5 DEF vars, rowVars, requestVars, agentVars, AgentInv, TypeInv, Shapes, Pairs, Rows,
                RunInv, EarnInv, SuccessIsEarned
  <2> QED
    BY <2>2, <2>3, <2>4, <2>5 DEF Next
<1> QED
  BY <1>1, <1>2, PTL DEF Spec

\* Every state is well typed.
THEOREM TypeCorrectness == Spec => []TypeOK
<1>1. AgentInv => TypeOK
  BY TypesSuffice DEF AgentInv
<1> QED
  BY <1>1, Invariance, PTL

\* A stage is run by an agent once at most: however many claim requests overlap,
\* and whatever becomes of their replies.
THEOREM NoSecondRun == Spec => []RunAtMostOnce
<1>1. AgentInv => RunAtMostOnce
  BY DEF AgentInv, RunInv, RunAtMostOnce
<1> QED
  BY <1>1, Invariance, PTL

\* A green stage was run to exit 0, whatever else was reported, cancelled or
\* given up meanwhile.
THEOREM GreenIsEarned == Spec => []SuccessIsEarned
<1>1. AgentInv => SuccessIsEarned
  BY DEF AgentInv, EarnInv
<1> QED
  BY <1>1, Invariance, PTL

---------------------------------------------------------------------------
(* Capacity                                                                *)

\* Where requests do not overlap, the one at work knows how many tasks are
\* claimed: nobody else adds to them.
CapInv ==
    /\ IsFiniteSet(ClaimedTasks)
    /\ ~world.slow =>
         /\ \A q, r \in Request : reqAt[q] # "idle" /\ reqAt[r] # "idle" => q = r
         /\ Cardinality(ClaimedTasks) <= MaxConcurrent
         /\ \A q \in Request :
              reqAt[q] \in {"counted", "picked"} => Cardinality(ClaimedTasks) < MaxConcurrent

\* A step that claims nothing and moves no request keeps it.
LEMMA FewerClaimed ==
    ASSUME CapInv, UNCHANGED world, ClaimedTasks' \subseteq ClaimedTasks, UNCHANGED reqAt
    PROVE  CapInv'
<1>1. IsFiniteSet(ClaimedTasks') /\ Cardinality(ClaimedTasks') <= Cardinality(ClaimedTasks)
      /\ Cardinality(ClaimedTasks') \in Nat /\ Cardinality(ClaimedTasks) \in Nat
  BY FS_Subset, FS_CardinalityType DEF CapInv
<1> QED
  BY <1>1 DEF CapInv

\* Only a claim adds to what is claimed, and only a request moves a request.
LEMMA QuietSteps ==
    ASSUME AgentInv,
           \/ \E t \in Task : Offer(t) \/ Look(t) \/ Reap(t) \/ GoesSilent(t)
           \/ Act \/ (\E v \in look : Cut(v))
           \/ GiveUpAsking \/ Work \/ AgentCrash \/ (\E j \in job : ShipLines(j))
    PROVE  UNCHANGED <<world, reqAt>> /\ ClaimedTasks' \subseteq ClaimedTasks
<1> DEFINE Good == UNCHANGED <<world, reqAt>> /\ ClaimedTasks' \subseteq ClaimedTasks
<1> USE DEF AgentInv, TypeInv, Shapes, EngineFrame, AgentFrame, requestVars, agentVars, rowVars
<1>1. \A v \in look : v \in Seen /\ v.task \in Task
  BY DEF Seen
<1>2. ASSUME UNCHANGED state PROVE ClaimedTasks' \subseteq ClaimedTasks
  BY <1>2 DEF ClaimedTasks
<1>3. ASSUME NEW t \in Task, NEW now \in {"none", "queued", "done"}, state' = [state EXCEPT ![t] = now]
      PROVE  ClaimedTasks' \subseteq ClaimedTasks
  BY <1>3 DEF ClaimedTasks
<1>4. ASSUME NEW t \in Task, Offer(t) \/ Look(t) \/ Reap(t) \/ GoesSilent(t) PROVE Good
  BY <1>2, <1>3, <1>4 DEF Offer, Look, Reap, GoesSilent
<1>5. ASSUME NEW v \in look, Lapse(v) \/ Judge(v) \/ StillRunning(v) PROVE Good
  BY <1>1, <1>2, <1>3, <1>5 DEF Lapse, Judge, StillRunning
<1>6. ASSUME NEW v \in look, Cut(v) PROVE Good
  <2>1. EngineFrame /\ state' = [state EXCEPT ![v.task] = IF v.state = "queued" THEN "done" ELSE @]
    BY <1>6, Zenon DEF Cut, CancelTask
  <2> QED
    BY <1>1, <2>1 DEF ClaimedTasks
<1>7. ASSUME GiveUpAsking \/ AgentCrash \/ \E j \in job : ShipLines(j) PROVE Good
  BY <1>2, <1>7 DEF GiveUpAsking, AgentCrash, ShipLines
<1>8. ASSUME NEW j \in job, NEW code \in {"zero", "other"}, Finish(j, code) PROVE Good
  <2>1. AgentFrame /\ (Recorded(j, code) \/ UNCHANGED state)
    BY <1>8, Zenon DEF Finish
  <2>2. j.task \in Task
    OBVIOUS
  <2> QED
    BY <1>2, <1>3, <2>1, <2>2 DEF Recorded
<1> QED
  BY <1>4, <1>5, <1>6, <1>7, <1>8 DEF Act, Work

\* The steps of a request.
LEMMA RequestCapacity ==
    ASSUME AgentInv, CapInv, NEW q \in Request, Ask(q) \/ Serve(q)
    PROVE  CapInv'
<1> USE DEF RequestFrame
<1>1. UNCHANGED world
  BY DEF Ask, Serve, CountClaimed, ReadOldest, NothingForYou, Claim
<1>2. reqAt \in [Request -> {"idle", "new", "counted", "picked"}]
  BY DEF AgentInv, TypeInv, Shapes
<1>3. Cardinality(ClaimedTasks) \in Nat
  BY FS_CardinalityType DEF CapInv
<1>4. CASE Ask(q)
  <2>1. /\ ClaimedTasks' = ClaimedTasks /\ reqAt' = [reqAt EXCEPT ![q] = "new"]
        /\ ~world.slow => \A r \in Request : reqAt[r] = "idle"
    BY <1>4 DEF Ask, ClaimedTasks
  <2> QED
    BY <1>1, <1>2, <2>1 DEF CapInv
<1>5. CASE CountClaimed(q)
  <2>1. /\ ClaimedTasks' = ClaimedTasks /\ reqAt' = [reqAt EXCEPT ![q] = "counted"]
        /\ reqAt[q] = "new" /\ Cardinality(ClaimedTasks) < MaxConcurrent
    BY <1>5 DEF CountClaimed, HasRoom, ClaimedTasks
  <2> QED
    BY <1>1, <1>2, <1>3, <2>1 DEF CapInv
<1>6. CASE ReadOldest(q)
  <2>1. /\ ClaimedTasks' = ClaimedTasks /\ reqAt' = [reqAt EXCEPT ![q] = "picked"]
        /\ reqAt[q] = "counted"
    BY <1>6 DEF ReadOldest, ClaimedTasks
  <2> QED
    BY <1>1, <1>2, <1>3, <2>1 DEF CapInv
<1>7. CASE NothingForYou(q)
  <2>1. /\ ClaimedTasks' = ClaimedTasks /\ reqAt' = [reqAt EXCEPT ![q] = "idle"]
    BY <1>7 DEF NothingForYou, Answered, ClaimedTasks
  <2> QED
    BY <1>1, <1>2, <1>3, <2>1 DEF CapInv
<1>8. CASE Claim(q)
  <2>1. PICK t \in Task :
          reqAt[q] = "picked" /\ state' = [state EXCEPT ![t] = "claimed"] /\ Answered(q)
    BY <1>8, Zenon DEF Claim
  <2>2. reqAt' = [reqAt EXCEPT ![q] = "idle"]
    BY <2>1 DEF Answered
  <2>3. ClaimedTasks' \subseteq ClaimedTasks \cup {t}
    BY <2>1 DEF ClaimedTasks, AgentInv, TypeInv, Shapes
  <2>4. /\ IsFiniteSet(ClaimedTasks \cup {t})
        /\ Cardinality(ClaimedTasks \cup {t}) \in Nat
        /\ Cardinality(ClaimedTasks \cup {t}) <= Cardinality(ClaimedTasks) + 1
    <3>1. IsFiniteSet(ClaimedTasks)
      BY DEF CapInv
    <3>2. /\ IsFiniteSet(ClaimedTasks \cup {t})
          /\ Cardinality(ClaimedTasks \cup {t})
               = IF t \in ClaimedTasks THEN Cardinality(ClaimedTasks) ELSE Cardinality(ClaimedTasks) + 1
      BY <3>1, FS_AddElement, Zenon
    <3> QED
      BY <1>3, <3>2
  <2>5. /\ IsFiniteSet(ClaimedTasks') /\ Cardinality(ClaimedTasks') \in Nat
        /\ Cardinality(ClaimedTasks') <= Cardinality(ClaimedTasks \cup {t})
    BY <2>3, <2>4, FS_Subset, FS_CardinalityType
  <2>6. ~world.slow => \A r \in Request : reqAt'[r] = "idle"
    BY <1>2, <2>1, <2>2 DEF CapInv
  <2>7. ~world.slow => Cardinality(ClaimedTasks') <= MaxConcurrent
    BY <1>3, <2>1, <2>4, <2>5 DEF CapInv
  <2> QED
    BY <1>1, <2>5, <2>6, <2>7 DEF CapInv
<1> QED
  BY <1>4, <1>5, <1>6, <1>7, <1>8 DEF Serve

\* As long as claims do not overlap, a runner is never given more than it takes.
THEOREM NeverTooMany == Spec => []ClaimedWithinCapacity
<1>1. Init => CapInv
  <2> SUFFICES ASSUME Init PROVE CapInv
    OBVIOUS
  <2>1. ClaimedTasks = {} /\ \A q \in Request : reqAt[q] = "idle"
    BY DEF Init, ClaimedTasks
  <2>2. IsFiniteSet({}) /\ Cardinality({}) = 0
    BY FS_EmptySet
  <2> QED
    BY <2>1, <2>2 DEF CapInv
<1>2. AgentInv /\ CapInv /\ [Next]_vars => CapInv'
  <2> SUFFICES ASSUME AgentInv, CapInv, [Next]_vars PROVE CapInv'
    OBVIOUS
  <2>1. CASE \E q \in Request : Ask(q) \/ Serve(q)
    BY <2>1, RequestCapacity
  <2>2. CASE \/ \E t \in Task : Offer(t) \/ Look(t) \/ Reap(t) \/ GoesSilent(t)
             \/ Act \/ (\E v \in look : Cut(v))
             \/ GiveUpAsking \/ Work \/ AgentCrash \/ (\E j \in job : ShipLines(j))
    BY <2>2, QuietSteps, FewerClaimed
  <2>3. CASE UNCHANGED vars
    BY <2>3, FewerClaimed DEF vars, rowVars, requestVars, ClaimedTasks
  <2> QED
    BY <2>1, <2>2, <2>3 DEF Next
<1>3. CapInv => ClaimedWithinCapacity
  BY DEF CapInv, ClaimedWithinCapacity
<1> QED
  BY <1>1, <1>2, <1>3, Invariance, PTL DEF Spec

---------------------------------------------------------------------------
(* The contract on stages                                                  *)

\* The engine has read a task only of a stage that is open, and the agent has
\* run the task it runs once.
HandInv ==
    /\ \A v \in look : stage[v.task] = "open"
    /\ \A j \in job : runs[j.task] = 1

\* A stage gets its verdict while it is open, and a good one is earned by then.
Judged == \A t \in Task : stage'[t] # stage[t] =>
    stage[t] = "open" /\ stage'[t] \in Closed /\ (stage'[t] = "success" => earned[t])

\* No task appears, and none that is there goes.
SameRows == \A t \in Task : state'[t] = "none" <=> state[t] = "none"

\* The engine opens one stage and makes its row, or gives verdicts.
LEMMA EngineHands ==
    ASSUME AgentInv, HandInv,
           \/ \E t \in Task : Offer(t) \/ Look(t) \/ Reap(t)
           \/ Act \/ (\E v \in look : Cut(v))
    PROVE  /\ HandInv' /\ UNCHANGED <<runs, earned>>
           /\ \/ \E t \in Task : Offer(t)
              \/ Judged /\ SameRows
<1> USE DEF EngineFrame, requestVars, agentVars
<1> USE DEF AgentInv, TypeInv, Shapes
<1>1. UNCHANGED <<job, runs, earned>>
  BY DEF Offer, Look, Reap, Act, Lapse, Judge, StillRunning, Cut
<1>2. \A v \in look : v \in Seen /\ v.task \in Task /\ state[v.task] # "none"
  BY DEF Seen, Rows
<1> DEFINE Good == HandInv' /\ ((\E t \in Task : Offer(t)) \/ (Judged /\ SameRows))
<1>3. ASSUME NEW t \in Task, Offer(t) PROVE Good
  BY <1>1, <1>2, <1>3 DEF Offer, HandInv
<1>4. ASSUME NEW t \in Task, Look(t) PROVE Good
  <2>1. look' = {View(t)} /\ View(t).task = t /\ stage[t] = "open" /\ UNCHANGED <<state, stage>>
    BY <1>4 DEF Look, View
  <2> QED
    BY <1>1, <2>1 DEF HandInv, Judged, SameRows
<1>5. ASSUME NEW t \in Task, Reap(t) PROVE Good
  BY <1>1, <1>5 DEF Reap, HandInv, Judged, SameRows, Closed
<1>6. ASSUME NEW v \in look, NEW how \in Closed, CloseStage(v.task, how),
             how = "success" => earned[v.task], SameRows
      PROVE  Good
  <2>1. v.task \in Task /\ stage[v.task] = "open"
    BY <1>2 DEF HandInv
  <2>2. /\ look' = {} /\ \A u \in Task : u # v.task => stage'[u] = stage[u]
        /\ stage'[v.task] \in {stage[v.task], how}
    BY <1>6, <2>1, CloseStageTypes
  <2>3. Judged
    BY <1>6, <2>1, <2>2 DEF Judged
  <2> QED
    BY <1>1, <1>6, <2>2, <2>3 DEF HandInv
<1>7. ASSUME NEW v \in look, Lapse(v) PROVE Good
  <2>1. SameRows
    BY <1>2, <1>7 DEF Lapse, SameRows
  <2>2. CloseStage(v.task, "failed") /\ "failed" \in Closed
    BY <1>7 DEF Lapse, Closed
  <2> QED
    BY <1>6, <2>1, <2>2
<1>8. ASSUME NEW v \in look, Judge(v) PROVE Good
  <2>1. Verdict(v) \in Closed /\ (Verdict(v) = "success" => earned[v.task])
    BY DEF Verdict, Closed, EarnInv
  <2>2. CloseStage(v.task, Verdict(v)) /\ SameRows
    BY <1>8 DEF Judge, SameRows
  <2> QED
    BY <1>6, <2>1, <2>2
<1>9. ASSUME NEW v \in look, StillRunning(v) PROVE Good
  BY <1>1, <1>9 DEF StillRunning, HandInv, Judged, SameRows
<1>10. ASSUME NEW v \in look, Cut(v) PROVE Good
  <2>1. PICK how \in {"cancelled", "timeout"} : CloseStage(v.task, how)
    BY <1>10 DEF Cut
  <2>2. how \in Closed /\ how # "success"
    BY DEF Closed
  <2>3. state' = [state EXCEPT ![v.task] = IF v.state = "queued" THEN "done" ELSE @]
    BY <1>10, Zenon DEF Cut, CancelTask
  <2>4. SameRows
    BY <1>2, <2>3 DEF SameRows
  <2> QED
    BY <1>6, <2>1, <2>2, <2>4
<1> QED
  BY <1>1, <1>3, <1>4, <1>5, <1>7, <1>8, <1>9, <1>10 DEF Act

\* A claim request gives the agent a task nobody has run, or nothing.
LEMMA RequestHands ==
    ASSUME AgentInv, HandInv, NEW q \in Request, Ask(q) \/ Serve(q)
    PROVE  /\ HandInv' /\ SameRows /\ UNCHANGED <<stage, earned>>
           /\ \/ UNCHANGED runs
              \/ \E t \in Task : /\ state[t] # "none" /\ runs[t] = 0
                                 /\ runs' = [runs EXCEPT ![t] = 1]
<1> USE DEF AgentInv, TypeInv, Shapes, RequestFrame
<1>1. CASE Ask(q) \/ CountClaimed(q) \/ ReadOldest(q) \/ NothingForYou(q)
  BY <1>1 DEF Ask, CountClaimed, ReadOldest, NothingForYou, HandInv, SameRows
<1>2. CASE Claim(q)
  <2>1. PICK t \in Task :
          /\ pick[q] = t /\ state' = [state EXCEPT ![t] = "claimed"]
          /\ RequestFrame
          /\ \/ /\ q \in asked
                /\ job' = {[task |-> t, token |-> issued + 1]}
                /\ runs' = [runs EXCEPT ![t] = @ + 1]
             \/ UNCHANGED <<job, runs>>
    BY <1>2, Zenon DEF Claim
  <2>2. state[t] # "none"
    <3>1. t # 0
      OBVIOUS
    <3> QED
      BY <2>1, <3>1 DEF Rows
  <2>3. SameRows /\ UNCHANGED <<stage, earned, look>>
    BY <2>1, <2>2 DEF SameRows
  <2>4. CASE UNCHANGED <<job, runs>>
    BY <2>3, <2>4 DEF HandInv
  <2>5. CASE /\ q \in asked
             /\ job' = {[task |-> t, token |-> issued + 1]}
             /\ runs' = [runs EXCEPT ![t] = @ + 1]
    <3>1. runs[t] = 0
      BY <2>1, <2>5 DEF RunInv
    <3>2. runs' = [runs EXCEPT ![t] = 1]
      BY <2>5, <3>1
    <3>3. HandInv'
      BY <2>3, <2>5, <3>2 DEF HandInv
    <3> QED
      BY <2>2, <2>3, <3>1, <3>2, <3>3
  <2> QED
    BY <2>1, <2>4, <2>5
<1> QED
  BY <1>1, <1>2 DEF Serve

\* The agent earns the stage it has run once, or nothing.
LEMMA AgentHands ==
    ASSUME AgentInv, HandInv,
           \/ GiveUpAsking \/ Work \/ AgentCrash
           \/ \E j \in job : ShipLines(j)
           \/ \E t \in Task : GoesSilent(t)
    PROVE  /\ HandInv' /\ SameRows /\ UNCHANGED <<stage, runs>>
           /\ \/ UNCHANGED earned
              \/ \E t \in Task : runs[t] = 1 /\ earned' = [earned EXCEPT ![t] = TRUE]
<1> USE DEF AgentInv, TypeInv, Shapes, AgentFrame
<1>1. CASE GiveUpAsking \/ AgentCrash
  BY <1>1 DEF GiveUpAsking, AgentCrash, rowVars, agentVars, HandInv, SameRows
<1>2. ASSUME NEW j \in job, NEW code \in {"zero", "other"}, Finish(j, code)
      PROVE  /\ HandInv' /\ SameRows /\ UNCHANGED <<stage, runs>>
             /\ \/ UNCHANGED earned
                \/ \E t \in Task : runs[t] = 1 /\ earned' = [earned EXCEPT ![t] = TRUE]
  <2>1. j.task \in Task /\ runs[j.task] = 1
    BY DEF HandInv
  <2>2. /\ earned' = [earned EXCEPT ![j.task] = earned[j.task] \/ code = "zero"]
        /\ job' = {} /\ UNCHANGED <<runs, stage, look>>
        /\ (Authorised(j) /\ Recorded(j, code)) \/ UNCHANGED state
    BY <1>2, Zenon DEF Finish
  <2>3. UNCHANGED earned \/ earned' = [earned EXCEPT ![j.task] = TRUE]
    <3>1. CASE code = "zero"
      BY <2>2, <3>1, Zenon
    <3>2. CASE code # "zero"
      <4>1. (earned[j.task] \/ code = "zero") = earned[j.task]
        BY <2>1, <3>2
      <4>2. earned' = [earned EXCEPT ![j.task] = earned[j.task]]
        BY <2>2, <4>1, Zenon
      <4> QED
        BY <2>1, <4>2
    <3> QED
      BY <3>1, <3>2
  <2>4. SameRows
    <3>1. CASE Authorised(j) /\ Recorded(j, code)
      <4>1. token[j.task] # 0 /\ state' = [state EXCEPT ![j.task] = "done"]
        BY <3>1 DEF Authorised, Recorded
      <4>2. state[j.task] # "none"
        BY <2>1, <4>1 DEF Rows
      <4> QED
        BY <2>1, <4>1, <4>2 DEF SameRows
    <3> QED
      BY <2>2, <3>1 DEF SameRows
  <2> QED
    BY <2>1, <2>2, <2>3, <2>4 DEF HandInv
<1>3. ASSUME NEW j \in job, ShipLines(j) PROVE HandInv' /\ SameRows /\ UNCHANGED <<stage, runs, earned>>
  BY <1>3 DEF ShipLines, agentVars, HandInv, SameRows
<1>4. ASSUME NEW t \in Task, GoesSilent(t) PROVE HandInv' /\ SameRows /\ UNCHANGED <<stage, runs, earned>>
  BY <1>4 DEF GoesSilent, requestVars, agentVars, HandInv, SameRows
<1> QED
  BY <1>1, <1>2, <1>3, <1>4 DEF Work

\* Every step of the system is one the contract allows, or none to it.
LEMMA ContractStep == AgentInv /\ AgentInv' /\ HandInv /\ [Next]_vars => HandInv' /\ [Contract!Next]_(Contract!vars)
<1> SUFFICES ASSUME AgentInv, AgentInv', HandInv, [Next]_vars PROVE HandInv' /\ [Contract!Next]_(Contract!vars)
  OBVIOUS
<1> DEFINE Offered == {t \in Task : state[t] # "none"}
           Earned == {t \in Task : earned[t]}
           Given == [t \in Task |-> IF stage[t] = "success" THEN "green"
                                    ELSE IF stage[t] \in Closed THEN "other" ELSE "none"]
<1>0. /\ runs \in [Task -> Nat] /\ earned \in [Task -> BOOLEAN]
      /\ stage \in [Task -> {"waiting", "open"} \cup Closed]
      /\ stage' \in [Task -> {"waiting", "open"} \cup Closed]
      /\ \A t \in Task : stage[t] = "waiting" <=> state[t] = "none"
  BY DEF AgentInv, TypeInv, Shapes, Pairs
<1>1. ASSUME Judged, SameRows, UNCHANGED <<runs, earned>> PROVE [Contract!Next]_(Contract!vars)
  <2>1. Offered' = Offered /\ Earned' = Earned
    BY <1>1 DEF SameRows
  <2>2. Given' \in [Task -> {"none", "green", "other"}]
    OBVIOUS
  <2>3. \A t \in Task : Given'[t] # Given[t] =>
           Given[t] = "none" /\ (Given'[t] = "green" => t \in Earned)
    BY <1>0, <1>1 DEF Judged, Closed
  <2>4. Contract!Close
    BY <1>1, <2>1, <2>2, <2>3 DEF Contract!Close
  <2> QED
    BY <2>4 DEF Contract!Next
<1>2. ASSUME NEW t \in Task, Offer(t), UNCHANGED <<runs, earned>> PROVE [Contract!Next]_(Contract!vars)
  <2>1. /\ stage[t] = "waiting" /\ stage' = [stage EXCEPT ![t] = "open"]
        /\ state' = [state EXCEPT ![t] = "queued"]
    BY <1>2 DEF Offer
  <2>2. Offered' = Offered \cup {t} /\ t \notin Offered
    BY <1>0, <2>1 DEF AgentInv, TypeInv, Shapes
  <2>3. Given' = Given /\ Given[t] = "none"
    BY <1>0, <2>1 DEF Closed
  <2>4. Contract!Offer(t)
    BY <1>2, <2>2, <2>3 DEF Contract!Offer
  <2> QED
    BY <2>4 DEF Contract!Next
<1>3. CASE \/ \E t \in Task : Offer(t) \/ Look(t) \/ Reap(t)
           \/ Act \/ (\E v \in look : Cut(v))
  BY <1>1, <1>2, <1>3, EngineHands
<1>4. CASE \E q \in Request : Ask(q) \/ Serve(q)
  <2>1. /\ HandInv' /\ SameRows /\ UNCHANGED <<stage, earned>>
        /\ \/ UNCHANGED runs
           \/ \E t \in Task : /\ state[t] # "none" /\ runs[t] = 0
                              /\ runs' = [runs EXCEPT ![t] = 1]
    BY <1>4, RequestHands
  <2>2. ASSUME NEW t \in Task, state[t] # "none", runs[t] = 0, runs' = [runs EXCEPT ![t] = 1]
        PROVE  Contract!Take(t)
    <3>1. Offered' = Offered /\ t \in Offered /\ Earned' = Earned /\ Given' = Given
      BY <2>1, <2>2 DEF SameRows
    <3> QED
      BY <2>2, <3>1 DEF Contract!Take
  <2>3. CASE UNCHANGED runs
    BY <1>1, <2>1, <2>3 DEF Judged
  <2> QED
    BY <2>1, <2>2, <2>3 DEF Contract!Next
<1>5. CASE \/ GiveUpAsking \/ Work \/ AgentCrash
           \/ \E j \in job : ShipLines(j)
           \/ \E t \in Task : GoesSilent(t)
  <2>1. /\ HandInv' /\ SameRows /\ UNCHANGED <<stage, runs>>
        /\ \/ UNCHANGED earned
           \/ \E t \in Task : runs[t] = 1 /\ earned' = [earned EXCEPT ![t] = TRUE]
    BY <1>5, AgentHands
  <2>2. ASSUME NEW t \in Task, runs[t] = 1, earned' = [earned EXCEPT ![t] = TRUE]
        PROVE  Contract!Earn(t)
    <3>1. Offered' = Offered /\ Given' = Given
      BY <2>1 DEF SameRows
    <3>2. Earned' = Earned \cup {t}
      BY <1>0, <2>2
    <3> QED
      BY <2>1, <2>2, <3>1, <3>2 DEF Contract!Earn
  <2>3. CASE UNCHANGED earned
    BY <1>1, <2>1, <2>3 DEF Judged
  <2> QED
    BY <2>1, <2>2, <2>3 DEF Contract!Next
<1>6. CASE UNCHANGED vars
  <2>1. Judged /\ SameRows /\ UNCHANGED <<runs, earned>> /\ HandInv'
    BY <1>6 DEF vars, rowVars, agentVars, Judged, SameRows, HandInv
  <2> QED
    BY <1>1, <2>1
<1> QED
  BY <1>3, <1>4, <1>5, <1>6 DEF Next

\* Behind overlapping requests, lost replies, silence and stale reads, a stage is
\* offered once, taken up once at most, and given one verdict, green if it was
\* earned: AgentTasks implements StageContract.
THEOREM AgentsKeepContract == Spec => KeepsContract
<1>1. Init => HandInv /\ Contract!Init
  BY DEF Init, HandInv, Contract!Init, Closed
<1> QED
  BY <1>1, ContractStep, Invariance, PTL DEF Spec, KeepsContract, Contract!Spec
=============================================================================
