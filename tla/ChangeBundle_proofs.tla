------------------------- MODULE ChangeBundle_proofs -------------------------
(***************************************************************************)
(* What ChangeBundle.tla promises of approval, of applying once, of what   *)
(* the bundle says of itself and of its watches, and that it is rolled out *)
(* as Rollout.tla promises, for any voters, processes, items, surroundings *)
(* and faults.                                                             *)
(***************************************************************************)
EXTENDS ChangeBundle, FiniteSetTheorems, TLAPS

USE VoterAssumption, CountAssumption, WorldAssumption

\* The steps of a worker that has not raised.
Steps(p) ==
    \/ Begin(p) \/ StartItem(p) \/ Refuse(p) \/ Apply(p) \/ Record(p)
    \/ Close(p) \/ StartWatches(p)

\* The steps in which a bundle is given up: a tick's recovery, and a worker that
\* raised.
Closes(p) == ReadStale(p) \/ CloseStale(p) \/ Raises(p) \/ CloseRaised(p)

\* A tick's other steps on the bundle.
Ticks(p) == Look(p) \/ MarkExpired(p) \/ Claim(p) \/ Taken(p)

\* Its steps on the watches.
Watches(p) ==
    \/ ReadWatches(p) \/ FinishFailed(p) \/ UndoFails(p)
    \/ \E i \in Watched : Decide(p, i) \/ KeepWaiting(p, i)

\* Time, and nothing.
Rests == WindowOpens \/ WindowEnds \/ GoesQuiet \/ UNCHANGED vars

\* Every step is one of these.
LEMMA AllSteps ==
    ASSUME [Next]_vars
    PROVE  \/ Submit \/ \E u \in Voter : Answer(u)
           \/ \E p \in Proc : Ticks(p) \/ Watches(p) \/ Steps(p) \/ Closes(p) \/ Crash(p)
           \/ Rests
BY Zenon DEF Next, Act, Work, Steps, Closes, Ticks, Watches, Rests

\* A step on the watches leaves the bundle, the answers and the workers alone.
LEMMA WatchesFrame ==
    ASSUME NEW p \in Proc, Watches(p)
    PROVE  UNCHANGED <<bundleVars, voteVars, workVars, world>>
<1>1. CASE UndoFails(p)
  BY <1>1 DEF UndoFails
<1>2. CASE ReadWatches(p) \/ FinishFailed(p) \/ \E i \in Watched : Decide(p, i) \/ KeepWaiting(p, i)
  <2>1. WatchFrame
    BY <1>2, Zenon DEF ReadWatches, FinishFailed, Decide, KeepWaiting, FinishHealthy, UndoRollout, GiveUp
  <2> QED
    BY <2>1 DEF WatchFrame
<1> QED
  BY <1>1, <1>2 DEF Watches

\* Giving up a bundle leaves the answers, what was applied and the watches alone.
LEMMA ClosesFrame ==
    ASSUME NEW p \in Proc, Closes(p)
    PROVE  ClosingFrame
BY Zenon DEF Closes, ReadStale, CloseStale, Raises, CloseRaised

---------------------------------------------------------------------------
(* Types, by the part of the state they are about                          *)

Statuses == {"draft", "pending_approval", "approved", "deploying"} \cup Over

BundleTypes ==
    /\ status \in Statuses
    /\ window \in {"before", "open", "over"}
    /\ item \in [Item -> ItemStatus]
    /\ quiet \in BOOLEAN

VoteTypes ==
    /\ vote \in [Voter -> {"none", "approve", "decline"}]
    /\ asks \in [Voter -> {"idle", "checked", "voted", "late"}]
    /\ says \in [Voter -> {"approve", "decline", "reject"}]
    /\ consent \in SUBSET Voter
    /\ refused \in BOOLEAN /\ raced \in BOOLEAN

WorkTypes ==
    /\ worker \in [Proc -> {"none", "begin", "next", "apply", "record", "watch", "closing"}]
    /\ pos \in [Proc -> 1..Items + 1]
    /\ good \in [Proc -> SUBSET Item] /\ bad \in [Proc -> SUBSET Item]
    /\ applied \in [Item -> Nat]
    /\ left \in [Proc -> [Item -> ItemStatus]] /\ overruled \in SUBSET Item
    /\ \A p \in Proc : worker[p] \in {"apply", "record"} => pos[p] \in Item

WatchTypes ==
    /\ tick \in [Proc -> {"idle", "due", "over", "stale", "closing", "watches", "undone"}]
    /\ watch \in [Item -> {"none", "watching", "healthy", "failed"}]
    /\ seen \in [Proc -> SUBSET Item]
    /\ \A p \in Proc : tick[p] \in {"watches", "undone"} <=> seen[p] # {}
    /\ undone \in [Item -> Nat] /\ torn \in BOOLEAN

TypeInv ==
    BundleTypes /\ VoteTypes /\ WorkTypes /\ WatchTypes /\ world \in World /\ faults \in 0..MaxFaults

\* The parts make up the whole.
LEMMA TypesSuffice == TypeInv => TypeOK
<1> SUFFICES ASSUME TypeInv PROVE TypeOK
  OBVIOUS
<1> USE DEF TypeInv
<1>1. BundleTypes /\ VoteTypes /\ WorkTypes /\ WatchTypes /\ world \in World /\ faults \in 0..MaxFaults
  OBVIOUS
<1> QED
  BY <1>1, Zenon DEF BundleTypes, VoteTypes, WorkTypes, WatchTypes, Statuses, TypeOK

\* A draft is well typed.
LEMMA InitTypes == Init => TypeInv
<1> SUFFICES ASSUME Init PROVE TypeInv
  OBVIOUS
<1>1. BundleTypes /\ VoteTypes
  BY DEF Init, Untouched, ItemStatus, BundleTypes, VoteTypes, Statuses
<1>2. WorkTypes
  BY DEF Init, Untouched, ItemStatus, WorkTypes, Item
<1>3. WatchTypes
  BY DEF Init, WatchTypes
<1>4. world \in World /\ faults \in 0..MaxFaults
  BY DEF Init
<1> QED
  BY <1>1, <1>2, <1>3, <1>4 DEF TypeInv

\* A part of the state that a step leaves alone keeps its types.
LEMMA BundleSame == BundleTypes /\ UNCHANGED bundleVars => BundleTypes'
BY DEF BundleTypes, bundleVars

\* As above, for the votes.
LEMMA VoteSame == VoteTypes /\ UNCHANGED voteVars => VoteTypes'
BY DEF VoteTypes, voteVars

\* As above, for the workers.
LEMMA WorkSame == WorkTypes /\ UNCHANGED workVars => WorkTypes'
BY DEF WorkTypes, workVars

\* As above, for the ticks and the watches.
LEMMA WatchSame == WatchTypes /\ UNCHANGED <<tick, watchVars>> => WatchTypes'
BY DEF WatchTypes, watchVars

\* Submitting and answering.
LEMMA AnswerTypes ==
    ASSUME TypeInv, Submit \/ \E u \in Voter : Answer(u)
    PROVE  TypeInv'
<1>1. AnswerFrame /\ UNCHANGED item
  BY Zenon DEF Submit, Answer, Check, CommitVote, Conclude, AnswerFrame, voteVars
<1>2. WorkTypes' /\ WatchTypes' /\ world' \in World /\ faults' \in 0..MaxFaults
  BY <1>1, WorkSame, WatchSame DEF AnswerFrame, TypeInv
<1> USE DEF TypeInv, BundleTypes, VoteTypes, Statuses, Over, Executed
<1>3. ASSUME Submit PROVE BundleTypes' /\ VoteTypes'
  BY <1>1, <1>3 DEF Submit, AnswerFrame, voteVars
<1>4. ASSUME NEW u \in Voter, Check(u, "approve") \/ Check(u, "decline") \/ Check(u, "reject")
      PROVE  BundleTypes' /\ VoteTypes'
  BY <1>1, <1>4 DEF Check, AnswerFrame
<1>5. ASSUME NEW u \in Voter, CommitVote(u) PROVE BundleTypes' /\ VoteTypes'
  BY <1>1, <1>5 DEF CommitVote, AnswerFrame
<1>6. ASSUME NEW u \in Voter, Conclude(u) PROVE BundleTypes' /\ VoteTypes'
  <2>1. /\ asks' = [asks EXCEPT ![u] = "idle"] /\ says' = [says EXCEPT ![u] = "approve"]
        /\ UNCHANGED <<item, vote, window>>
    BY <1>6 DEF Conclude, AnswerFrame
  <2>2. Outcome(u) \subseteq {"approved", "rejected", "expired"}
    BY DEF Outcome
  <2>3. \/ UNCHANGED <<status, quiet, refused, raced>>
        \/ /\ status' \in Outcome(u) /\ quiet' = FALSE
           /\ raced' = (raced \/ status \notin {"pending_approval", status'})
           /\ refused' = (refused \/ (says[u] = "reject" /\ status = "pending_approval"))
    BY <1>6, Zenon DEF Conclude
  <2>4. status' \in Statuses /\ quiet' \in BOOLEAN
    BY <2>2, <2>3
  <2>5. refused' \in BOOLEAN /\ raced' \in BOOLEAN
    BY <2>3, Zenon
  <2>6. consent' \in SUBSET Voter
    BY <1>6 DEF Conclude
  <2> QED
    BY <2>1, <2>4, <2>5, <2>6
<1> QED
  BY <1>2, <1>3, <1>4, <1>5, <1>6 DEF Answer

\* A tick that claims or expires the bundle, or looks for one left behind.
LEMMA TickTypes ==
    ASSUME TypeInv, NEW p \in Proc, Ticks(p)
    PROVE  TypeInv'
<1>1. TickFrame
  BY Zenon DEF Ticks, Look, FindOver, FindDue, FindStale, MarkExpired, Claim, Taken
<1>2. VoteTypes' /\ world' \in World /\ faults' \in 0..MaxFaults
  BY <1>1, VoteSame DEF TickFrame, TypeInv
<1>3. BundleTypes'
  <2> USE DEF TypeInv, Statuses, Over, Executed, TickFrame
  <2>2. ASSUME MarkExpired(p) PROVE BundleTypes'
    BY <2>2 DEF MarkExpired, BundleTypes, ItemStatus
  <2>3. ASSUME FindOver(p) \/ FindDue(p) \/ FindStale(p) \/ Claim(p) \/ Taken(p) PROVE BundleTypes'
    BY <2>3 DEF FindOver, FindDue, FindStale, Claim, Taken, BundleTypes
  <2> QED
    BY <2>2, <2>3 DEF Ticks, Look
<1>4. WorkTypes'
  <2>1. UNCHANGED <<pos, good, bad, applied, left, overruled>>
    BY <1>1 DEF TickFrame
  <2>2. UNCHANGED worker \/ worker' = [worker EXCEPT ![p] = "begin"]
    BY Zenon DEF Ticks, Look, FindOver, FindDue, FindStale, MarkExpired, Claim, Taken
  <2> QED
    BY <2>1, <2>2 DEF TypeInv, WorkTypes
<1>5. WatchTypes'
  <2>1. UNCHANGED <<watch, seen, undone, torn>>
    BY <1>1 DEF TickFrame, watchVars
  <2>2. tick[p] \notin {"watches", "undone"}
        /\ (UNCHANGED tick \/ \E now \in {"over", "idle", "due", "stale"} : tick' = [tick EXCEPT ![p] = now])
    BY DEF Ticks, Look, Leads, FindOver, FindDue, FindStale, MarkExpired, Claim, Taken
  <2> QED
    BY <2>1, <2>2 DEF TypeInv, WatchTypes
<1> QED
  BY <1>2, <1>3, <1>4, <1>5 DEF TypeInv

\* A tick at the watches.
LEMMA WatchStepTypes ==
    ASSUME TypeInv, NEW p \in Proc, Watches(p)
    PROVE  TypeInv'
<1>1. UNCHANGED <<bundleVars, voteVars, workVars, world>>
  BY WatchesFrame
<1>2. /\ BundleTypes' /\ VoteTypes' /\ WorkTypes' /\ world' \in World
  BY <1>1, BundleSame, VoteSame, WorkSame DEF TypeInv
<1>5. faults' \in 0..MaxFaults
  <2>1. UNCHANGED faults \/ (faults < MaxFaults /\ faults' = faults + 1)
    BY Zenon DEF Watches, UndoFails, WatchFrame, ReadWatches, FinishFailed, Decide, KeepWaiting,
       FinishHealthy, UndoRollout, GiveUp
  <2> QED
    BY <2>1 DEF TypeInv
<1>3. ASSUME NEW rest \in SUBSET Item, Passed(p, rest) PROVE
        /\ tick' \in [Proc -> {"idle", "due", "over", "stale", "closing", "watches", "undone"}]
        /\ seen' \in [Proc -> SUBSET Item]
        /\ \A q \in Proc : tick'[q] \in {"watches", "undone"} <=> seen'[q] # {}
  BY <1>3 DEF Passed, TypeInv, WatchTypes
<1>4. WatchTypes'
  <2> USE DEF TypeInv, WatchTypes
  <2>1. ASSUME ReadWatches(p) PROVE WatchTypes'
    BY <2>1 DEF ReadWatches, Leads
  <2>2. ASSUME FinishFailed(p) PROVE WatchTypes'
    BY <1>3, <2>2 DEF FinishFailed, Closed
  <2>3. ASSUME NEW i \in Watched, FinishHealthy(p, i) \/ GiveUp(p, i) \/ KeepWaiting(p, i) PROVE WatchTypes'
    <3>1. Passed(p, seen[p] \ {i}) /\ UNCHANGED <<undone, torn>>
      BY <2>3 DEF FinishHealthy, GiveUp, KeepWaiting
    <3>2. seen[p] \ {i} \in SUBSET Item
      OBVIOUS
    <3>3. watch' \in [Item -> {"none", "watching", "healthy", "failed"}]
      BY <2>3 DEF FinishHealthy, GiveUp, KeepWaiting
    <3> QED
      BY <1>3, <3>1, <3>2, <3>3
  <2>4. ASSUME NEW i \in Watched, UndoRollout(p, i) PROVE WatchTypes'
    BY <2>4 DEF UndoRollout
  <2>5. ASSUME UndoFails(p) PROVE WatchTypes'
    <3>1. Passed(p, {}) /\ torn' = TRUE /\ UNCHANGED <<watch, undone>>
      BY <2>5 DEF UndoFails
    <3> QED
      BY <1>3, <3>1
  <2> QED
    BY <2>1, <2>2, <2>3, <2>4, <2>5 DEF Decide, Watches
<1> QED
  BY <1>2, <1>4, <1>5 DEF TypeInv

\* A worker's step.
LEMMA WorkStepTypes ==
    ASSUME TypeInv, NEW p \in Proc, Steps(p)
    PROVE  TypeInv'
<1>1. WorkFrame
  BY Zenon DEF Steps, Begin, StartItem, Refuse, Apply, Record, Close, StartWatches
<1>2. VoteTypes' /\ world' \in World
  BY <1>1, VoteSame DEF WorkFrame, TypeInv
<1>3. Items \in Nat /\ Item = 1..Items
  BY DEF Item
<1>4. faults' \in 0..MaxFaults /\ UNCHANGED <<left, overruled>>
  BY <1>1 DEF Steps, Begin, StartItem, Refuse, Apply, Record, Close, StartWatches, WorkFrame, TypeInv
<1>5. ASSUME NEW how \in {"succeeded", "failed"}, Recorded(p, how), pos[p] \in Item, UNCHANGED applied
      PROVE  /\ item' \in [Item -> ItemStatus]
             /\ WorkTypes'
  <2>1. item' \in [Item -> ItemStatus]
    BY <1>5 DEF ItemStatus, Recorded, TypeInv, BundleTypes
  <2>2. good' \in [Proc -> SUBSET Item] /\ bad' \in [Proc -> SUBSET Item]
    <3>1. good \in [Proc -> SUBSET Item] /\ bad \in [Proc -> SUBSET Item]
      BY DEF TypeInv, WorkTypes
    <3>2. \/ good' = [good EXCEPT ![p] = @ \cup {pos[p]}] /\ UNCHANGED bad
          \/ bad' = [bad EXCEPT ![p] = @ \cup {pos[p]}] /\ UNCHANGED good
      BY <1>5, Zenon DEF Recorded
    <3> QED
      BY <1>5, <3>1, <3>2
  <2>3. pos[p] + 1 \in 1..Items + 1
    BY <1>3, <1>5
  <2>4. pos' = [pos EXCEPT ![p] = pos[p] + 1] /\ worker' = [worker EXCEPT ![p] = "next"]
    BY <1>5, Zenon DEF Recorded
  <2>5. pos' \in [Proc -> 1..Items + 1]
    BY <2>3, <2>4 DEF TypeInv, WorkTypes
  <2>6. /\ worker' \in [Proc -> {"none", "begin", "next", "apply", "record", "watch", "closing"}]
        /\ \A q \in Proc : worker'[q] \in {"apply", "record"} => pos'[q] \in Item
    BY <2>4 DEF TypeInv, WorkTypes
  <2> QED
    BY <1>4, <1>5, <2>1, <2>2, <2>5, <2>6 DEF TypeInv, WorkTypes
<1>6. ASSUME Begin(p) PROVE BundleTypes' /\ WorkTypes' /\ UNCHANGED watch
  <2>1. BundleTypes'
    BY <1>1, <1>6 DEF Begin, WorkFrame, TypeInv, BundleTypes
  <2>2. 1 \in 1..Items + 1
    BY <1>3
  <2>3. WorkTypes'
    BY <1>4, <1>6, <2>2 DEF Begin, TypeInv, WorkTypes
  <2> QED
    BY <1>6, <2>1, <2>3 DEF Begin
<1>7. ASSUME StartItem(p) PROVE BundleTypes' /\ WorkTypes' /\ UNCHANGED watch
  BY <1>1, <1>4, <1>7 DEF ItemStatus, StartItem, WorkFrame, TypeInv, BundleTypes, WorkTypes
<1>8. ASSUME Refuse(p) \/ Record(p) PROVE BundleTypes' /\ WorkTypes' /\ UNCHANGED watch
  <2>1. PICK how \in {"succeeded", "failed"} : Recorded(p, how)
    BY <1>8 DEF Refuse, Record
  <2>2. pos[p] \in Item /\ UNCHANGED <<status, quiet, applied, watch>>
    BY <1>8 DEF Refuse, Record, TypeInv, WorkTypes
  <2> QED
    BY <1>1, <1>5, <2>1, <2>2 DEF WorkFrame, TypeInv, BundleTypes
<1>9. ASSUME Apply(p) PROVE BundleTypes' /\ WorkTypes' /\ UNCHANGED watch
  <2>1. BundleTypes' /\ pos[p] \in Item
    BY <1>1, <1>9 DEF Apply, WorkFrame, TypeInv, BundleTypes, WorkTypes
  <2>2. applied' \in [Item -> Nat]
    BY <1>9, <2>1 DEF Apply, TypeInv, WorkTypes
  <2> QED
    BY <1>4, <1>9, <2>1, <2>2 DEF Apply, TypeInv, WorkTypes
<1>10. ASSUME Close(p) PROVE BundleTypes' /\ WorkTypes' /\ UNCHANGED watch
  <2>1. Final(p) \in Statuses
    BY DEF Final, Statuses, Over, Executed
  <2>2. BundleTypes'
    BY <1>1, <1>10, <2>1 DEF ItemStatus, Close, WorkFrame, TypeInv, BundleTypes
  <2> QED
    BY <1>4, <1>10, <2>2 DEF Close, TypeInv, WorkTypes
<1>11. ASSUME StartWatches(p)
       PROVE  BundleTypes' /\ WorkTypes' /\ watch' \in [Item -> {"none", "watching", "healthy", "failed"}]
  <2>1. BundleTypes' /\ WorkTypes'
    BY <1>1, <1>11 DEF StartWatches, WorkFrame, TypeInv, BundleTypes, WorkTypes
  <2> QED
    BY <1>11, <2>1 DEF StartWatches, TypeInv, WatchTypes
<1>13. BundleTypes' /\ WorkTypes' /\ watch' \in [Item -> {"none", "watching", "healthy", "failed"}]
  <2>1. watch \in [Item -> {"none", "watching", "healthy", "failed"}]
    BY DEF TypeInv, WatchTypes
  <2> QED
    BY <1>6, <1>7, <1>8, <1>9, <1>10, <1>11, <2>1 DEF Steps
<1>14. WatchTypes'
  BY <1>1, <1>13 DEF WorkFrame, TypeInv, WatchTypes
<1> QED
  BY <1>2, <1>4, <1>13, <1>14 DEF TypeInv

\* What is left behind is closed with types.
LEMMA ClosingTypes ==
    ASSUME TypeInv, NEW p \in Proc, Closes(p)
    PROVE  TypeInv'
<1>1. VoteTypes' /\ world' \in World /\ UNCHANGED <<window, pos, good, bad, applied, watchVars>>
  BY ClosesFrame, VoteSame DEF ClosingFrame, TypeInv
<1>2. Untouched \in [Item -> ItemStatus]
  BY DEF Untouched, ItemStatus
<1>3. ASSUME ReadLeft(p) PROVE UNCHANGED <<status, item, quiet, overruled>> /\ left' \in [Proc -> [Item -> ItemStatus]]
  BY <1>3 DEF ReadLeft, TypeInv, BundleTypes, WorkTypes
<1>4. ASSUME CloseLeft(p)
      PROVE  /\ status' \in Statuses /\ item' \in [Item -> ItemStatus] /\ quiet' \in BOOLEAN
             /\ left' \in [Proc -> [Item -> ItemStatus]] /\ overruled' \in SUBSET Item
  <2>1. status' \in Statuses /\ quiet' \in BOOLEAN
    BY <1>4 DEF CloseLeft, Statuses, Over, Executed
  <2>2. item' \in [Item -> ItemStatus]
    BY <1>4 DEF CloseLeft, ItemStatus, TypeInv, BundleTypes
  <2>3. left' \in [Proc -> [Item -> ItemStatus]] /\ overruled' \in SUBSET Item
    BY <1>2, <1>4 DEF CloseLeft, TypeInv, WorkTypes
  <2> QED
    BY <2>1, <2>2, <2>3
<1>5. /\ status' \in Statuses /\ item' \in [Item -> ItemStatus] /\ quiet' \in BOOLEAN
      /\ left' \in [Proc -> [Item -> ItemStatus]] /\ overruled' \in SUBSET Item
  <2>1. CASE ReadStale(p)
    BY <1>3, <2>1 DEF ReadStale, TypeInv, BundleTypes, WorkTypes
  <2>2. CASE CloseStale(p) \/ CloseRaised(p)
    BY <1>4, <2>2 DEF CloseStale, CloseRaised
  <2>3. CASE Raises(p)
    BY <1>2, <1>3, <2>3 DEF Raises, TypeInv, BundleTypes, WorkTypes
  <2> QED
    BY <2>1, <2>2, <2>3 DEF Closes
<1>6. BundleTypes'
  BY <1>1, <1>5 DEF BundleTypes, TypeInv
<1>7. WorkTypes'
  <2>1. UNCHANGED worker \/ \E now \in {"none", "closing"} : worker' = [worker EXCEPT ![p] = now]
    BY DEF Closes, ReadStale, CloseStale, Raises, CloseRaised
  <2> QED
    BY <1>1, <1>5, <2>1 DEF TypeInv, WorkTypes
<1>8. WatchTypes'
  <2>1. UNCHANGED tick \/ \E now \in {"idle", "closing"} : tick[p] \in {"stale", "closing"} /\ tick' = [tick EXCEPT ![p] = now]
    BY DEF Closes, ReadStale, CloseStale, Raises, CloseRaised
  <2> QED
    BY <1>1, <2>1 DEF TypeInv, WatchTypes, watchVars
<1>9. faults' \in 0..MaxFaults
  <2>1. UNCHANGED faults \/ (faults < MaxFaults /\ faults' = faults + 1)
    BY Zenon DEF Closes, ReadStale, CloseStale, Raises, CloseRaised
  <2> QED
    BY <2>1 DEF TypeInv
<1> QED
  BY <1>1, <1>6, <1>7, <1>8, <1>9 DEF TypeInv

\* A crash, and time.
LEMMA RestTypes ==
    ASSUME TypeInv, (\E p \in Proc : Crash(p)) \/ Rests
    PROVE  TypeInv'
<1>1. ASSUME NEW p \in Proc, Crash(p) PROVE TypeInv'
  <2>1. BundleTypes' /\ VoteTypes' /\ world' \in World
    BY <1>1, BundleSame, VoteSame DEF Crash, TypeInv
  <2>2. WorkTypes'
    BY <1>1 DEF Crash, TypeInv, WorkTypes, Untouched, ItemStatus
  <2>3. WatchTypes'
    <3>1. torn' \in BOOLEAN
      <4>1. torn' = (torn \/ tick[p] = "undone")
        BY <1>1, Zenon DEF Crash
      <4> QED
        BY <4>1, Zenon
    <3> QED
      BY <1>1, <3>1 DEF Crash, TypeInv, WatchTypes
  <2>4. faults' \in 0..MaxFaults
    BY <1>1 DEF Crash, TypeInv
  <2> QED
    BY <2>1, <2>2, <2>3, <2>4 DEF TypeInv
<1>2. ASSUME WindowOpens \/ WindowEnds \/ GoesQuiet PROVE TypeInv'
  <2>1. UNCHANGED <<voteVars, tick, workVars, watchVars, world, faults>>
    BY <1>2 DEF WindowOpens, WindowEnds, GoesQuiet
  <2>2. BundleTypes'
    BY <1>2 DEF WindowOpens, WindowEnds, GoesQuiet, TypeInv, BundleTypes
  <2> QED
    BY <2>1, <2>2, VoteSame, WorkSame, WatchSame DEF TypeInv
<1>3. ASSUME UNCHANGED vars PROVE TypeInv'
  BY <1>3, BundleSame, VoteSame, WorkSame, WatchSame DEF vars, TypeInv
<1> QED
  BY <1>1, <1>2, <1>3 DEF Rests

\* Every step keeps the types.
LEMMA StepTypes == TypeInv /\ [Next]_vars => TypeInv'
BY AllSteps, AnswerTypes, TickTypes, WatchStepTypes, WorkStepTypes, ClosingTypes, RestTypes

---------------------------------------------------------------------------
(* The inductive invariants                                                *)

Consented == window # "before" /\ Agreed

\* Approval, and everything that follows from it, has the approvals it needs; a
\* tick claims only what it found in its window.
ConsentInv ==
    /\ \A u \in Voter : vote[u] = "approve" => u \in consent
    /\ status = "approved" => Agreed
    /\ \A p \in Proc : tick[p] = "due" => window # "before"
    /\ \A p \in Proc : worker[p] # "none" => Consented
    /\ \A i \in Item : applied[i] # 0 => Consented

Unclaimed == {"draft", "pending_approval", "approved"}
Busy == {"next", "apply", "record"}

\* Before the claim nothing is applied; after it one worker goes through the
\* items, and what is ahead of it was not applied.
OnceInv == ~raced =>
    /\ status \in Unclaimed => \A p \in Proc : worker[p] = "none"
    /\ status \in Unclaimed => \A i \in Item : applied[i] = 0
    /\ \A p, q \in Proc : worker[p] # "none" /\ worker[q] # "none" => p = q
    /\ \A p \in Proc : worker[p] = "begin" => \A i \in Item : applied[i] = 0
    /\ \A p \in Proc : worker[p] \in Busy =>
         \A i \in Item : i > pos[p] \/ (i = pos[p] /\ worker[p] # "record") => applied[i] = 0
    /\ \A i \in Item : applied[i] <= 1

\* What failed, or may be called failed by a recovery before more is known of it,
\* is the last that was applied; a worker remembers each failure behind it that no
\* recovery made up, and goes on past none.
Ends(i) == item[i] \in {"failed", "applying"} /\ i \notin overruled

StopInv == ~raced /\ world.stop =>
    /\ \A i, j \in Item : i < j /\ Ends(i) => applied[j] = 0
    /\ \A p \in Proc : worker[p] \in Busy => \A i \in Item : i < pos[p] =>
         item[i] # "applying" /\ (item[i] = "failed" => i \in bad[p] \/ i \in overruled)
    /\ \A p \in Proc : worker[p] \in {"apply", "record"} => bad[p] = {}

\* More answers, a later window: what had its approvals has them still.
LEMMA ConsentGrows ==
    ASSUME TypeInv, consent \subseteq consent', consent' \subseteq Voter, UNCHANGED world,
           window # "before" => window' # "before"
    PROVE  (Agreed => Agreed') /\ (Consented => Consented')
<1>1. IsFiniteSet(consent') /\ IsFiniteSet(consent)
  BY FS_Subset DEF TypeInv, VoteTypes
<1>2. Cardinality(consent) \in Nat /\ Cardinality(consent') \in Nat
  BY <1>1, FS_CardinalityType
<1>3. Cardinality(consent) <= Cardinality(consent')
  BY <1>1, FS_Subset
<1>4. Cardinality(consent) >= Required => Cardinality(consent') >= Required
  BY <1>2, <1>3
<1>5. consent \cap world.unnamed # {} => consent' \cap world'.unnamed # {}
  OBVIOUS
<1> QED
  BY <1>4, <1>5 DEF Consented, Agreed

\* A step that claims and applies nothing keeps ConsentInv if what it approves
\* has the approvals.
LEMMA ConsentKept ==
    ASSUME TypeInv, ConsentInv, consent \subseteq consent', consent' \subseteq Voter, UNCHANGED world,
           window # "before" => window' # "before",
           \A u \in Voter : vote'[u] = "approve" => u \in consent',
           status' = "approved" => Agreed',
           \A p \in Proc : tick'[p] = "due" => window # "before",
           \A p \in Proc : worker'[p] # "none" => worker[p] # "none",
           UNCHANGED applied
    PROVE  ConsentInv'
BY ConsentGrows DEF ConsentInv

\* Items that a step may only leave, skip, or call failed where they were at work
\* or where it overrules what is known of them.
OnlyCloses == overruled \subseteq overruled' /\ \A i \in Item :
    \/ item'[i] = item[i] \/ item'[i] = "skipped"
    \/ item'[i] = "failed" /\ (item[i] = "applying" \/ i \in overruled')

\* A step in which no worker starts, goes on or applies keeps the other two,
\* whatever it closes.
LEMMA QuietKeeps ==
    ASSUME TypeInv, OnceInv, StopInv, UNCHANGED <<applied, world>>, OnlyCloses,
           raced => raced',
           raced' \/ (status' \in Unclaimed => status \in Unclaimed),
           \A p \in Proc : \/ worker'[p] = worker[p] /\ pos'[p] = pos[p] /\ bad'[p] = bad[p]
                           \/ worker'[p] \in {"none", "watch", "closing"} /\ worker[p] # "none"
    PROVE  OnceInv' /\ StopInv'
<1>1. CASE raced'
  BY <1>1 DEF OnceInv, StopInv
<1>2. CASE ~raced'
  <2> USE DEF Busy
  <2>1. ~raced
    BY <1>2
  <2>2. \A p \in Proc : worker'[p] # "none" => worker[p] # "none"
    OBVIOUS
  <2>3. \A p \in Proc : worker'[p] \in {"begin"} \cup Busy => worker'[p] = worker[p] /\ pos'[p] = pos[p] /\ bad'[p] = bad[p]
    OBVIOUS
  <2>4. OnceInv'
    <3>1. status' \in Unclaimed => (\A p \in Proc : worker'[p] = "none") /\ \A i \in Item : applied'[i] = 0
      BY <1>2, <2>1, <2>2 DEF OnceInv
    <3>2. \A p, q \in Proc : worker'[p] # "none" /\ worker'[q] # "none" => p = q
      BY <2>1, <2>2 DEF OnceInv
    <3>3. \A p \in Proc : worker'[p] = "begin" => \A i \in Item : applied'[i] = 0
      BY <2>1, <2>3 DEF OnceInv
    <3>4. \A p \in Proc : worker'[p] \in Busy =>
            \A i \in Item : i > pos'[p] \/ (i = pos'[p] /\ worker'[p] # "record") => applied'[i] = 0
      BY <2>1, <2>3 DEF OnceInv
    <3>5. \A i \in Item : applied'[i] <= 1
      BY <2>1 DEF OnceInv
    <3> QED
      BY <3>1, <3>2, <3>3, <3>4, <3>5 DEF OnceInv
  <2>5. StopInv'
    <3> SUFFICES ASSUME world.stop PROVE StopInv'
      BY DEF StopInv
    <3>1. ASSUME NEW i \in Item, Ends(i)' PROVE Ends(i)
      BY <3>1 DEF Ends, OnlyCloses
    <3>2. \A i, j \in Item : i < j /\ Ends(i)' => applied'[j] = 0
      BY <2>1, <3>1 DEF StopInv
    <3>3. ASSUME NEW p \in Proc, worker'[p] \in Busy, NEW i \in Item, i < pos'[p]
          PROVE  item'[i] # "applying" /\ (item'[i] = "failed" => i \in bad'[p] \/ i \in overruled')
      <4>1. item[i] # "applying" /\ (item[i] = "failed" => i \in bad[p] \/ i \in overruled)
        BY <2>1, <2>3, <3>3 DEF StopInv
      <4> QED
        BY <2>3, <3>3, <4>1 DEF OnlyCloses
    <3>4. \A p \in Proc : worker'[p] \in {"apply", "record"} => bad'[p] = {}
      BY <2>1, <2>3 DEF StopInv
    <3> QED
      BY <3>2, <3>3, <3>4 DEF StopInv
  <2> QED
    BY <2>4, <2>5
<1> QED
  BY <1>1, <1>2

BundleInv == TypeInv /\ ConsentInv /\ OnceInv /\ StopInv

\* Submitting and answering: a quorum is counted from votes that were cast.
LEMMA AnswerKeeps ==
    ASSUME BundleInv, Submit \/ \E u \in Voter : Answer(u)
    PROVE  ConsentInv' /\ OnceInv' /\ StopInv'
<1> USE DEF BundleInv
<1>1. UNCHANGED <<window, tick, worker, pos, bad, applied, overruled, item, world>>
  BY Zenon DEF Submit, Answer, Check, CommitVote, Conclude, AnswerFrame, voteVars, workVars
<1>2. ASSUME raced => raced', raced' \/ (status' \in Unclaimed => status \in Unclaimed)
      PROVE  OnceInv' /\ StopInv'
  BY <1>1, <1>2, QuietKeeps DEF OnlyCloses
<1>3. ASSUME consent \subseteq consent', consent' \subseteq Voter,
             \A u \in Voter : vote'[u] = "approve" => u \in consent',
             status' = "approved" => Agreed \/ Agreed'
      PROVE  ConsentInv'
  BY <1>1, <1>3, ConsentGrows, ConsentKept DEF ConsentInv
<1>4. ASSUME Submit PROVE ConsentInv' /\ OnceInv' /\ StopInv'
  <2>1. UNCHANGED <<vote, consent, raced>> /\ (status' \in Unclaimed => status \in Unclaimed)
    BY <1>4 DEF Submit, voteVars, Unclaimed
  <2>2. Cardinality(consent) \in Nat
    BY FS_Subset, FS_CardinalityType DEF TypeInv, VoteTypes
  <2>3. status' = "approved" => Agreed
    BY <1>4, <2>2 DEF Submit, Agreed
  <2> QED
    BY <1>2, <1>3, <2>1, <2>3 DEF ConsentInv, TypeInv, VoteTypes
<1>5. ASSUME NEW u \in Voter, NEW answer, Check(u, answer) PROVE ConsentInv' /\ OnceInv' /\ StopInv'
  BY <1>2, <1>3, <1>5 DEF Check, ConsentInv, TypeInv, VoteTypes
<1>6. ASSUME NEW u \in Voter, CommitVote(u) PROVE ConsentInv' /\ OnceInv' /\ StopInv'
  <2>1. UNCHANGED <<status, raced>>
    BY <1>6 DEF CommitVote
  <2>2. consent \subseteq consent' /\ consent' \subseteq Voter
    BY <1>6 DEF CommitVote, TypeInv, VoteTypes
  <2>3. \A x \in Voter : vote'[x] = "approve" => x \in consent'
    BY <1>6 DEF CommitVote, ConsentInv, TypeInv, VoteTypes
  <2> QED
    BY <1>2, <1>3, <2>1, <2>2, <2>3 DEF ConsentInv
<1>7. ASSUME NEW u \in Voter, Conclude(u) PROVE ConsentInv' /\ OnceInv' /\ StopInv'
  <2>1. /\ UNCHANGED vote
        /\ consent' = IF AloneApproves(u) THEN consent \cup {u} ELSE consent
    BY <1>7 DEF Conclude
  <2>2. \/ UNCHANGED <<status, raced>>
        \/ /\ status' \in Outcome(u)
           /\ raced' = (raced \/ status \notin {"pending_approval", status'})
    BY <1>7, Zenon DEF Conclude
  <2>3. raced => raced'
    BY <2>2, Zenon
  <2>4. raced' \/ status \in {"pending_approval", status'}
    BY <2>2, Zenon
  <2>5. Granted => Agreed
    <3> DEFINE Yes == {v \in Voter : vote[v] = "approve"}
    <3>1. Yes \subseteq consent /\ IsFiniteSet(consent)
      BY FS_Subset DEF ConsentInv, TypeInv, VoteTypes
    <3>2. Cardinality(Yes) <= Cardinality(consent) /\ IsFiniteSet(Yes)
      BY <3>1, FS_Subset
    <3>3. Cardinality(Yes) \in Nat /\ Cardinality(consent) \in Nat
      BY <3>1, <3>2, FS_CardinalityType
    <3>4. Granted => Cardinality(Yes) >= Required
      BY DEF Granted, Tally
    <3> QED
      BY <3>2, <3>3, <3>4 DEF Agreed
  <2>6. AloneApproves(u) => Agreed'
    BY <1>1, <2>1 DEF AloneApproves, Agreed
  <2>7. status' = "approved" => Agreed \/ Agreed'
    BY <2>2, <2>5, <2>6 DEF Outcome, ConsentInv
  <2>8. ConsentInv'
    BY <1>3, <2>1, <2>7 DEF ConsentInv, TypeInv, VoteTypes
  <2>9. raced' \/ (status' \in Unclaimed => status \in Unclaimed)
    BY <2>4 DEF Unclaimed
  <2> QED
    BY <1>2, <2>3, <2>8, <2>9
<1> QED
  BY <1>4, <1>5, <1>6, <1>7 DEF Answer

\* What a recovery, or a worker that raises, does to the bundle: it closes items,
\* never starts one, and calls failed only what was at work or what it overrules.
LEMMA GivingUp ==
    ASSUME TypeInv, NEW p \in Proc, Closes(p)
    PROVE  /\ OnlyCloses
           /\ status' = status \/ status' \in {"failed", "partially_failed"}
           /\ \A q \in Proc : \/ worker'[q] = worker[q]
                              \/ worker'[q] \in {"none", "closing"} /\ worker[q] # "none"
           /\ \A q \in Proc : tick'[q] = tick[q] \/ tick'[q] \in {"idle", "closing"}
<1>1. ASSUME ReadLeft(p) \/ UNCHANGED <<status, item, overruled>>
      PROVE  OnlyCloses /\ UNCHANGED status
  BY <1>1 DEF ReadLeft, OnlyCloses
<1>2. ASSUME CloseLeft(p)
      PROVE  OnlyCloses /\ status' \in {"failed", "partially_failed"}
  <2>1. status' \in {"failed", "partially_failed"} /\ overruled \subseteq overruled'
    BY <1>2 DEF CloseLeft
  <2>2. \A i \in Item : \/ item'[i] = item[i] \/ item'[i] = "skipped"
                        \/ item'[i] = "failed" /\ (item[i] \in {"applying", "failed"} \/ i \in overruled')
    BY <1>2 DEF CloseLeft
  <2>3. OnlyCloses
    BY <2>1, <2>2 DEF OnlyCloses
  <2> QED
    BY <2>1, <2>3
<1>3. OnlyCloses /\ (status' = status \/ status' \in {"failed", "partially_failed"})
  BY <1>1, <1>2 DEF Closes, ReadStale, CloseStale, Raises, CloseRaised
<1>4. \A q \in Proc : \/ worker'[q] = worker[q]
                      \/ worker'[q] \in {"none", "closing"} /\ worker[q] # "none"
  BY DEF Closes, ReadStale, CloseStale, Raises, CloseRaised, TypeInv, WorkTypes
<1>5. \A q \in Proc : tick'[q] = tick[q] \/ tick'[q] \in {"idle", "closing"}
  BY DEF Closes, ReadStale, CloseStale, Raises, CloseRaised, TypeInv, WatchTypes
<1> QED
  BY <1>3, <1>4, <1>5

\* Giving up a bundle claims and applies nothing.
LEMMA ClosingKeeps ==
    ASSUME BundleInv, NEW p \in Proc, Closes(p)
    PROVE  ConsentInv' /\ OnceInv' /\ StopInv'
<1> USE DEF BundleInv
<1>1. UNCHANGED <<window, vote, consent, raced, pos, bad, applied, world>>
  BY ClosesFrame DEF ClosingFrame, voteVars
<1>2. ConsentInv'
  <2>1. status' = "approved" => Agreed'
    BY <1>1, GivingUp DEF ConsentInv, Agreed
  <2>2. \A q \in Proc : (tick'[q] = "due" => window # "before") /\ (worker'[q] # "none" => worker[q] # "none")
    BY GivingUp DEF ConsentInv
  <2> QED
    BY <1>1, <2>1, <2>2, ConsentKept DEF ConsentInv, TypeInv, VoteTypes
<1>3. OnceInv' /\ StopInv'
  <2>1. status' \in Unclaimed => status \in Unclaimed
    BY GivingUp DEF Unclaimed
  <2>2. \A q \in Proc : \/ worker'[q] = worker[q] /\ pos'[q] = pos[q] /\ bad'[q] = bad[q]
                        \/ worker'[q] \in {"none", "watch", "closing"} /\ worker[q] # "none"
    BY <1>1, GivingUp
  <2> QED
    BY <1>1, <2>1, <2>2, GivingUp, QuietKeeps
<1> QED
  BY <1>2, <1>3

\* A tick: the conditional claim lets one worker start, on an approved bundle that
\* it found in its window.
LEMMA TickKeeps ==
    ASSUME BundleInv, NEW p \in Proc, Ticks(p)
    PROVE  ConsentInv' /\ OnceInv' /\ StopInv'
<1> USE DEF BundleInv
<1>1. UNCHANGED <<window, vote, consent, raced, pos, bad, applied, overruled, world>>
  BY Zenon DEF Ticks, Look, FindOver, FindDue, FindStale, MarkExpired, Claim, Taken, TickFrame, voteVars
<1>2. ASSUME UNCHANGED worker, status' = "approved" => status = "approved",
             status' \in Unclaimed => status \in Unclaimed,
             \A q \in Proc : tick'[q] = "due" => window # "before",
             \A i \in Item : item'[i] = item[i] \/ item'[i] = "skipped"
      PROVE  ConsentInv' /\ OnceInv' /\ StopInv'
  <2>1. ConsentInv'
    BY <1>1, <1>2, ConsentKept DEF ConsentInv, Agreed, TypeInv, VoteTypes
  <2>2. OnceInv' /\ StopInv'
    BY <1>1, <1>2, QuietKeeps DEF OnlyCloses
  <2> QED
    BY <2>1, <2>2
<1>3. CASE FindOver(p) \/ FindDue(p) \/ FindStale(p) \/ Taken(p)
  <2>1. UNCHANGED <<worker, status, item>>
    BY <1>3 DEF FindOver, FindDue, FindStale, Taken
  <2>2. \A q \in Proc : tick'[q] = "due" => window # "before"
    BY <1>3 DEF FindOver, FindDue, FindStale, Taken, ConsentInv, TypeInv, WatchTypes
  <2> QED
    BY <1>2, <2>1, <2>2
<1>5. CASE MarkExpired(p)
  <2>1. UNCHANGED worker /\ status' = "expired" /\ tick' = [tick EXCEPT ![p] = "idle"]
        /\ \A i \in Item : item'[i] = item[i] \/ item'[i] = "skipped"
    BY <1>5 DEF MarkExpired
  <2>2. \A q \in Proc : tick'[q] = "due" => window # "before"
    BY <2>1 DEF ConsentInv, TypeInv, WatchTypes
  <2> QED
    BY <1>2, <2>1, <2>2 DEF Unclaimed
<1>6. CASE Claim(p)
  <2>1. /\ tick[p] = "due" /\ status = "approved" /\ status' = "deploying"
        /\ worker' = [worker EXCEPT ![p] = "begin"] /\ tick' = [tick EXCEPT ![p] = "idle"]
        /\ UNCHANGED item
    BY <1>6 DEF Claim, MayClaim
  <2>2. Consented
    BY <2>1 DEF Consented, ConsentInv
  <2>3. Consented'
    BY <1>1, <2>2 DEF Consented, Agreed
  <2>4. ConsentInv'
    BY <1>1, <2>1, <2>2, <2>3 DEF ConsentInv, TypeInv, WatchTypes, WorkTypes
  <2>5. \A q \in Proc : q # p => worker'[q] = worker[q]
    BY <2>1 DEF TypeInv, WorkTypes
  <2>6. worker'[p] = "begin"
    BY <2>1 DEF TypeInv, WorkTypes
  <2>7. ~raced => (\A q \in Proc : q # p => worker'[q] = "none") /\ \A i \in Item : applied'[i] = 0
    BY <1>1, <2>1, <2>5 DEF OnceInv, Unclaimed
  <2>8. OnceInv'
    BY <1>1, <2>1, <2>6, <2>7 DEF OnceInv, Unclaimed, Busy
  <2>9. StopInv'
    BY <1>1, <2>1, <2>6, <2>7 DEF StopInv, Busy
  <2> QED
    BY <2>4, <2>8, <2>9
<1> QED
  BY <1>3, <1>5, <1>6 DEF Ticks, Look

\* The watches, crashes and time.
LEMMA OtherKeeps ==
    ASSUME BundleInv,
           (\E p \in Proc : Watches(p) \/ Crash(p)) \/ Rests
    PROVE  ConsentInv' /\ OnceInv' /\ StopInv'
<1> USE DEF BundleInv
<1>1. ASSUME UNCHANGED <<vote, consent, raced, status, item, pos, bad, applied, overruled, world>>,
             window # "before" => window' # "before",
             \A q \in Proc : tick'[q] = "due" => tick[q] = "due",
             \A q \in Proc : worker'[q] \in {worker[q], "none"}
      PROVE  ConsentInv' /\ OnceInv' /\ StopInv'
  <2>1. ConsentInv'
    BY <1>1, ConsentKept, ConsentGrows DEF ConsentInv, TypeInv, VoteTypes
  <2>2. OnceInv' /\ StopInv'
    BY <1>1, QuietKeeps DEF OnlyCloses
  <2> QED
    BY <2>1, <2>2
<1>2. ASSUME NEW p \in Proc, Watches(p)
      PROVE  ConsentInv' /\ OnceInv' /\ StopInv'
  <2>1. UNCHANGED <<bundleVars, voteVars, workVars, world>>
    BY <1>2, WatchesFrame
  <2>2. UNCHANGED <<vote, consent, raced, status, item, pos, bad, applied, overruled, world, window, worker>>
    BY <2>1 DEF bundleVars, voteVars, workVars
  <2>3. UNCHANGED tick \/ \E now \in {"watches", "idle", "undone"} : tick' = [tick EXCEPT ![p] = now]
    BY <1>2 DEF Watches, UndoFails, ReadWatches, FinishFailed, Decide, KeepWaiting, FinishHealthy, UndoRollout, GiveUp, Passed
  <2>4. \A q \in Proc : tick'[q] = "due" => tick[q] = "due"
    BY <2>3 DEF TypeInv, WatchTypes
  <2> QED
    BY <1>1, <2>2, <2>4
<1>3. ASSUME NEW p \in Proc, Crash(p) PROVE ConsentInv' /\ OnceInv' /\ StopInv'
  <2>1. UNCHANGED <<vote, consent, raced, status, item, pos, bad, applied, overruled, world, window>>
    BY <1>3 DEF Crash, bundleVars, voteVars
  <2>2. \A q \in Proc : (tick'[q] = "due" => tick[q] = "due") /\ worker'[q] \in {worker[q], "none"}
    BY <1>3 DEF Crash, TypeInv, WatchTypes, WorkTypes
  <2> QED
    BY <1>1, <2>1, <2>2
<1>4. ASSUME Rests PROVE ConsentInv' /\ OnceInv' /\ StopInv'
  <2>1. UNCHANGED <<vote, consent, raced, status, item, pos, bad, applied, overruled, world, tick, worker>>
        /\ (window # "before" => window' # "before")
    BY <1>4 DEF Rests, WindowOpens, WindowEnds, GoesQuiet, vars, bundleVars, voteVars, workVars
  <2> QED
    BY <1>1, <2>1
<1> QED
  BY <1>2, <1>3, <1>4

\* A worker alone: with the bundle claimed, and no other at it.
LEMMA Alone ==
    ASSUME OnceInv, ~raced, NEW p \in Proc, worker[p] # "none"
    PROVE  status \notin Unclaimed /\ \A q \in Proc : q # p => worker[q] = "none"
BY DEF OnceInv

\* A worker's steps: each item is applied as the worker comes to it, none behind a
\* failure if that stops it.
LEMMA WorkKeeps ==
    ASSUME BundleInv, NEW p \in Proc, Steps(p)
    PROVE  ConsentInv' /\ OnceInv' /\ StopInv'
<1> USE DEF BundleInv
<1>1. UNCHANGED <<window, vote, consent, raced, tick, overruled, world>> /\ worker[p] # "none"
  BY DEF Steps, Begin, StartItem, Refuse, Apply, Record, Close, StartWatches, WorkFrame, voteVars
<1>2. /\ worker \in [Proc -> {"none", "begin", "next", "apply", "record", "watch", "closing"}]
      /\ pos \in [Proc -> 1..Items + 1] /\ bad \in [Proc -> SUBSET Item]
      /\ applied \in [Item -> Nat] /\ Item = 1..Items /\ Items \in Nat
      /\ item \in [Item -> ItemStatus]
  BY DEF TypeInv, WorkTypes, BundleTypes, Item
<1>3. Consented
  BY <1>1 DEF ConsentInv
<1>4. \A q \in Proc : q # p => worker'[q] = worker[q]
  BY <1>2 DEF Steps, Begin, StartItem, Refuse, Apply, Record, Close, StartWatches, Recorded
<1>5. ASSUME status' = status \/ status' \notin Unclaimed PROVE ConsentInv'
  <2>1. Consented'
    BY <1>1, <1>3 DEF Consented, Agreed
  <2>2. status' = "approved" => status = "approved"
    BY <1>5 DEF Unclaimed
  <2> QED
    BY <1>1, <2>1, <2>2 DEF ConsentInv, Agreed
<1>6. ASSUME worker' \in [Proc -> {"none", "begin", "next", "apply", "record", "watch", "closing"}],
             worker'[p] \in {"none", "watch"}, UNCHANGED applied,
             \A q \in Proc : q # p => pos'[q] = pos[q] /\ bad'[q] = bad[q],
             status' = status \/ status' \notin Unclaimed,
             \A i \in Item : item'[i] = item[i] \/ item'[i] = "skipped"
      PROVE  ConsentInv' /\ OnceInv' /\ StopInv'
  <2>1. \A q \in Proc : \/ worker'[q] = worker[q] /\ pos'[q] = pos[q] /\ bad'[q] = bad[q]
                        \/ worker'[q] \in {"none", "watch"} /\ worker[q] # "none"
    BY <1>1, <1>4, <1>6
  <2>2. status' \in Unclaimed => status \in Unclaimed
    BY <1>6
  <2> QED
    BY <1>1, <1>5, <1>6, <2>1, <2>2, QuietKeeps DEF OnlyCloses
\* For the steps of a worker that goes on: what is to be shown of it, alone.
<1>7. ASSUME worker'[p] \in Busy, status' = status,
             ~raced => /\ \A i \in Item : i > pos'[p] \/ (i = pos'[p] /\ worker'[p] # "record") => applied'[i] = 0
                       /\ \A i \in Item : applied'[i] <= 1,
             ~raced /\ world.stop =>
                /\ \A i, j \in Item : i < j /\ Ends(i)' => applied'[j] = 0
                /\ \A i \in Item : i < pos'[p] => item'[i] # "applying" /\ (item'[i] = "failed" => i \in bad'[p] \/ i \in overruled')
                /\ worker'[p] \in {"apply", "record"} => bad'[p] = {}
      PROVE  OnceInv' /\ StopInv'
  <2>1. ~raced => status' \notin Unclaimed /\ \A q \in Proc : q # p => worker'[q] = "none"
    BY <1>1, <1>4, <1>7, Alone
  <2>2. OnceInv'
    BY <1>1, <1>7, <2>1 DEF OnceInv, Busy
  <2>3. StopInv'
    BY <1>1, <1>7, <2>1 DEF StopInv, Busy
  <2> QED
    BY <2>2, <2>3
<1>8. CASE Begin(p)
  <2>1. /\ UNCHANGED <<status, item, applied>> /\ worker[p] = "begin"
        /\ pos' = [pos EXCEPT ![p] = 1] /\ bad' = [bad EXCEPT ![p] = {}]
        /\ worker' = [worker EXCEPT ![p] = "next"] \/ worker' = [worker EXCEPT ![p] = "none"]
    BY <1>8 DEF Begin
  <2>2. pos'[p] = 1 /\ \A q \in Proc : q # p => pos'[q] = pos[q] /\ bad'[q] = bad[q]
    BY <1>2, <2>1
  <2>3. CASE worker' = [worker EXCEPT ![p] = "none"]
    BY <1>2, <1>6, <2>1, <2>2, <2>3
  <2>4. CASE worker' = [worker EXCEPT ![p] = "next"]
    <3>1. worker'[p] = "next"
      BY <1>2, <2>4
    <3>2. ~raced => \A i \in Item : applied'[i] = 0
      BY <2>1 DEF OnceInv
    <3>3. \A i \in Item : ~(i < pos'[p])
      BY <1>2, <2>2
    <3> QED
      BY <1>5, <1>7, <2>1, <3>1, <3>2, <3>3 DEF Busy
  <2> QED
    BY <2>1, <2>3, <2>4
<1>9. CASE StartItem(p)
  <2>1. /\ UNCHANGED <<status, pos, bad, applied>> /\ worker[p] = "next" /\ pos[p] \in Item
        /\ world.stop => bad[p] = {}
        /\ item' = [item EXCEPT ![pos[p]] = "applying"] /\ worker' = [worker EXCEPT ![p] = "apply"]
    BY <1>9 DEF StartItem, Stopped
  <2>2. worker'[p] = "apply" /\ item'[pos[p]] = "applying" /\ \A i \in Item : i # pos[p] => item'[i] = item[i]
    BY <1>2, <2>1
  <2>3. ~raced => \A i \in Item : (i > pos[p] \/ i = pos[p] => applied[i] = 0) /\ applied[i] <= 1
    BY <2>1 DEF OnceInv, Busy
  <2>4. ~raced /\ world.stop =>
          /\ \A i, j \in Item : i < j /\ Ends(i) => applied[j] = 0
          /\ \A i \in Item : i < pos[p] => item[i] # "applying" /\ (item[i] = "failed" => i \in bad[p] \/ i \in overruled)
    BY <2>1 DEF StopInv, Busy
  <2>5. ~raced /\ world.stop =>
          \A i, j \in Item : i < j /\ Ends(i)' => applied'[j] = 0
    BY <1>1, <1>2, <2>1, <2>2, <2>3, <2>4 DEF Ends
  <2>6. ~raced /\ world.stop =>
          \A i \in Item : i < pos'[p] => item'[i] # "applying" /\ (item'[i] = "failed" => i \in bad'[p] \/ i \in overruled')
    BY <1>1, <1>2, <2>1, <2>2, <2>4
  <2> QED
    BY <1>5, <1>7, <2>1, <2>2, <2>3, <2>5, <2>6 DEF Busy
<1>10. CASE Refuse(p) \/ Record(p)
  <2>1. PICK how \in {"succeeded", "failed"} : Recorded(p, how)
    BY <1>10 DEF Refuse, Record
  <2>2. UNCHANGED <<status, applied>> /\ worker[p] \in {"apply", "record"} /\ pos[p] \in Item
    BY <1>10 DEF Refuse, Record, TypeInv, WorkTypes
  <2>3. /\ worker'[p] = "next" /\ pos'[p] = pos[p] + 1
        /\ item'[pos[p]] = how /\ \A i \in Item : i # pos[p] => item'[i] = item[i]
    BY <1>2, <2>1, <2>2 DEF Recorded
  <2>4. bad[p] \subseteq bad'[p] /\ (how = "failed" => pos[p] \in bad'[p])
    BY <1>2, <2>1, <2>2 DEF Recorded
  <2>5. ~raced => \A i \in Item : (i > pos[p] => applied[i] = 0) /\ applied[i] <= 1
    BY <2>2 DEF OnceInv, Busy
  <2>6. ~raced /\ world.stop =>
          /\ \A i, j \in Item : i < j /\ Ends(i) => applied[j] = 0
          /\ \A i \in Item : i < pos[p] => item[i] # "applying" /\ (item[i] = "failed" => i \in bad[p] \/ i \in overruled)
    BY <2>2 DEF StopInv, Busy
  <2>7. ~raced /\ world.stop =>
          \A i, j \in Item : i < j /\ Ends(i)' => applied'[j] = 0
    BY <1>1, <1>2, <2>2, <2>3, <2>5, <2>6 DEF Ends
  <2>8. ~raced /\ world.stop =>
          \A i \in Item : i < pos'[p] => item'[i] # "applying" /\ (item'[i] = "failed" => i \in bad'[p] \/ i \in overruled')
    <3> SUFFICES ASSUME ~raced, world.stop, NEW i \in Item, i < pos'[p]
                 PROVE  item'[i] # "applying" /\ (item'[i] = "failed" => i \in bad'[p] \/ i \in overruled')
      OBVIOUS
    <3>1. CASE i = pos[p]
      BY <2>3, <2>4, <3>1
    <3>2. CASE i # pos[p]
      <4>1. i < pos[p]
        BY <1>2, <2>2, <2>3, <3>2
      <4> QED
        BY <1>1, <2>3, <2>4, <2>6, <3>2, <4>1
    <3> QED
      BY <3>1, <3>2
  <2>9. ~raced => \A i \in Item : i > pos'[p] \/ (i = pos'[p] /\ worker'[p] # "record") => applied'[i] = 0
    BY <1>2, <2>2, <2>3, <2>5
  <2>10. ~raced => \A i \in Item : applied'[i] <= 1
    BY <2>2, <2>5
  <2> QED
    BY <1>5, <1>7, <2>2, <2>3, <2>7, <2>8, <2>9, <2>10 DEF Busy
<1>11. CASE Apply(p)
  <2>1. /\ UNCHANGED <<status, item, pos, bad>> /\ worker[p] = "apply" /\ pos[p] \in Item
        /\ applied' = [applied EXCEPT ![pos[p]] = @ + 1] /\ worker' = [worker EXCEPT ![p] = "record"]
    BY <1>11 DEF Apply, TypeInv, WorkTypes
  <2>2. /\ worker'[p] = "record" /\ applied'[pos[p]] = applied[pos[p]] + 1
        /\ \A i \in Item : i # pos[p] => applied'[i] = applied[i]
    BY <1>2, <2>1
  <2>3. ~raced => \A i \in Item : (i > pos[p] \/ i = pos[p] => applied[i] = 0) /\ applied[i] <= 1
    BY <2>1 DEF OnceInv, Busy
  <2>4. ~raced /\ world.stop =>
          /\ \A i, j \in Item : i < j /\ Ends(i) => applied[j] = 0
          /\ \A i \in Item : i < pos[p] => item[i] # "applying" /\ (item[i] = "failed" => i \in bad[p] \/ i \in overruled)
          /\ bad[p] = {}
    BY <2>1 DEF StopInv, Busy
  <2>5. ~raced /\ world.stop =>
          \A i, j \in Item : i < j /\ Ends(i)' => applied'[j] = 0
    <3> SUFFICES ASSUME ~raced, world.stop, NEW i \in Item, NEW j \in Item,
                        i < j, Ends(i)
                 PROVE  applied'[j] = 0
      BY <1>1, <2>1 DEF Ends
    <3>1. applied[j] = 0 /\ ~(i < pos[p])
      BY <2>4 DEF Ends
    <3>2. j # pos[p]
      BY <1>2, <3>1
    <3> QED
      BY <2>2, <3>1, <3>2
  <2>6. ~raced => \A i \in Item : (i > pos[p] => applied'[i] = 0) /\ applied'[i] <= 1
    BY <1>2, <2>1, <2>2, <2>3
  <2> QED
    BY <1>1, <1>5, <1>7, <2>1, <2>2, <2>4, <2>5, <2>6 DEF Busy
<1>12. CASE Close(p)
  <2>1. /\ status' = Final(p) /\ UNCHANGED <<pos, bad, applied>> /\ worker' = [worker EXCEPT ![p] = "watch"]
        /\ \A i \in Item : item'[i] = item[i] \/ item'[i] = "skipped"
    BY <1>12 DEF Close
  <2>2. Final(p) \notin Unclaimed
    BY DEF Final, Unclaimed
  <2> QED
    BY <1>2, <1>6, <2>1, <2>2
<1>13. CASE StartWatches(p)
  BY <1>2, <1>6, <1>13 DEF StartWatches
<1> QED
  BY <1>8, <1>9, <1>10, <1>11, <1>12, <1>13 DEF Steps

---------------------------------------------------------------------------
(* The theorems                                                            *)

\* The inductive invariant, whatever dies, raises, overlaps or takes long.
THEOREM Invariance == Spec => []BundleInv
<1>1. Init => BundleInv
  <2> SUFFICES ASSUME Init PROVE BundleInv
    OBVIOUS
  <2>1. /\ status = "draft" /\ consent = {} /\ \A u \in Voter : vote[u] # "approve"
        /\ \A p \in Proc : tick[p] = "idle" /\ worker[p] = "none"
        /\ \A i \in Item : applied[i] = 0 /\ item[i] = "pending"
    BY DEF Init, Untouched
  <2>2. ConsentInv /\ OnceInv /\ StopInv
    BY <2>1 DEF ConsentInv, OnceInv, StopInv, Ends, Busy
  <2> QED
    BY <2>2, InitTypes DEF BundleInv
<1>2. BundleInv /\ [Next]_vars => BundleInv'
  <2> SUFFICES ASSUME BundleInv, [Next]_vars PROVE BundleInv'
    OBVIOUS
  <2>1. TypeInv'
    BY StepTypes DEF BundleInv
  <2>2. ConsentInv' /\ OnceInv' /\ StopInv'
    BY AllSteps, AnswerKeeps, TickKeeps, WorkKeeps, ClosingKeeps, OtherKeeps
  <2> QED
    BY <2>1, <2>2 DEF BundleInv
<1> QED
  BY <1>1, <1>2, PTL DEF Spec

\* Every state is well typed.
THEOREM TypeCorrectness == Spec => []TypeOK
<1>1. BundleInv => TypeOK
  BY TypesSuffice DEF BundleInv
<1> QED
  BY <1>1, Invariance, PTL

\* Nothing reaches the cluster before its window or without its approvals, or that of
\* a manager who needs no other, though no row is locked: not even where an answer
\* is written over a later status.
THEOREM ConsentFirst == Spec => []AppliedByConsent
<1>1. BundleInv => AppliedByConsent
  BY DEF BundleInv, TypeInv, WorkTypes, ConsentInv, Consented, AppliedByConsent
<1> QED
  BY <1>1, Invariance, PTL

\* No item is applied twice, though a bundle may be recovered under a slow worker
\* and ticks may overlap.
THEOREM NeverTwice == Spec => []AppliedOnce
<1>1. BundleInv => AppliedOnce
  BY DEF BundleInv, OnceInv, AppliedOnce
<1> QED
  BY <1>1, Invariance, PTL

\* What stop_on_failure asks for, also when a recovery calls an item failed that a
\* slow worker is still at; what a recovery calls failed over a later outcome is
\* no failure the worker could have known of.
THEOREM FailureStops == Spec => []StopsAtFailure
<1>1. BundleInv => StopsAtFailure
  BY DEF BundleInv, StopInv, Ends, StopsAtFailure, Spoiled
<1> QED
  BY <1>1, Invariance, PTL

---------------------------------------------------------------------------
(* What a rollout watch says.                                              *)

\* Ticks do not overlap.
OneTick == \A p, q \in Proc : tick[p] # "idle" /\ tick[q] # "idle" => p = q

\* While one process at a time leads and none dies or raises between undoing and saying so:
\* a watch is opened once, by the last step of the worker, and an undone rollout is
\* either said to be undone or in the hands of the tick that undid it.
WatchInv == ~raced /\ ~world.overlap /\ ~torn =>
    /\ OneTick
    /\ status \in Unclaimed \/ (\E p \in Proc : worker[p] # "none") =>
         \A i \in Item : watch[i] = "none"
    /\ \A p \in Proc : \A i \in seen[p] : watch[i] = "watching"
    /\ \A i \in Item : watch[i] \in {"none", "healthy"} => undone[i] = 0
    /\ \A i \in Item : watch[i] = "watching" =>
         undone[i] = 0 \/ \E p \in Proc : tick[p] = "undone" /\ i \in seen[p]
    /\ \A i \in Item : undone[i] <= 1

\* A step that leaves the watches alone keeps it, if it neither unclaims the bundle
\* nor lets two processes lead.
LEMMA WatchKept ==
    ASSUME WatchInv, UNCHANGED <<watchVars, world>>, raced => raced',
           ~raced' /\ status' \in Unclaimed => status \in Unclaimed,
           ~raced' /\ (\E p \in Proc : worker'[p] # "none")
              => status \in Unclaimed \/ \E p \in Proc : worker[p] # "none",
           ~world.overlap /\ OneTick => OneTick',
           \A p \in Proc : tick[p] = "undone" => tick'[p] = "undone"
    PROVE  WatchInv'
<1> SUFFICES ASSUME ~raced', ~world'.overlap, ~torn' PROVE WatchInv'
  BY DEF WatchInv
<1> USE DEF watchVars
<1>1. ~raced /\ ~world.overlap /\ ~torn
  OBVIOUS
<1>2. OneTick'
  BY <1>1 DEF WatchInv
<1>3. status' \in Unclaimed \/ (\E p \in Proc : worker'[p] # "none") => \A i \in Item : watch'[i] = "none"
  BY <1>1 DEF WatchInv
<1>4. \A i \in Item : watch'[i] = "watching" =>
         undone'[i] = 0 \/ \E p \in Proc : tick'[p] = "undone" /\ i \in seen'[p]
  BY <1>1 DEF WatchInv
<1> QED
  BY <1>1, <1>2, <1>3, <1>4 DEF WatchInv

\* The steps of a tick over the watches.
LEMMA WatchStepKeeps ==
    ASSUME BundleInv, WatchInv, NEW p \in Proc, Watches(p)
    PROVE  WatchInv'
<1> SUFFICES ASSUME ~raced', ~world'.overlap, ~torn' PROVE WatchInv'
  BY DEF WatchInv
<1> USE DEF BundleInv, TypeInv, WatchTypes, OneTick
<1>1. UNCHANGED torn \/ UndoFails(p)
  BY Zenon DEF Watches, ReadWatches, FinishFailed, Decide, KeepWaiting, FinishHealthy, UndoRollout, GiveUp
<1>2. UNCHANGED <<status, worker, raced, world>>
  BY WatchesFrame DEF bundleVars, voteVars, workVars
<1>3. ~raced /\ ~world.overlap /\ ~torn /\ ~UndoFails(p)
  BY <1>1, <1>2 DEF UndoFails
<1>4. ASSUME ReadWatches(p) PROVE WatchInv'
  <2>1. /\ \A q \in Proc : tick[q] = "idle"
        /\ tick' = [tick EXCEPT ![p] = "watches"]
        /\ UNCHANGED <<watch, undone>>
        /\ seen' = [seen EXCEPT ![p] = {i \in Item : watch[i] = "watching"}]
    BY <1>3, <1>4 DEF ReadWatches, Leads
  <2>2. OneTick' /\ \A q \in Proc : \A i \in seen'[q] : watch'[i] = "watching"
    BY <1>3, <2>1 DEF WatchInv
  <2>3. \A i \in Item : watch'[i] = "watching" => undone'[i] = 0
    BY <1>3, <2>1 DEF WatchInv
  <2> QED
    BY <1>2, <1>3, <2>1, <2>2, <2>3 DEF WatchInv
<1> DEFINE Turned ==
             /\ tick[p] # "idle" /\ \A q \in Proc : q # p => tick'[q] = tick[q]
             /\ \A q \in Proc : q # p => seen'[q] = {}
             /\ \A i \in seen'[p] : i \in seen[p] /\ watch'[i] = watch[i]
             /\ \A i \in Item : watch'[i] # watch[i] => i \in seen[p]
             /\ \A i \in Item : watch'[i] \in {"none", "healthy"} => undone'[i] = 0
             /\ \A i \in Item : watch'[i] = "watching" => undone'[i] = 0 \/ (tick'[p] = "undone" /\ i \in seen'[p])
             /\ \A i \in Item : undone'[i] <= 1
<1>5. ASSUME Turned
      PROVE  WatchInv'
  <2>1. OneTick'
    BY <1>3, <1>5 DEF WatchInv
  <2>2. status' \in Unclaimed \/ (\E q \in Proc : worker'[q] # "none") => \A i \in Item : watch'[i] = "none"
    BY <1>2, <1>3, <1>5 DEF WatchInv
  <2>3. \A q \in Proc : \A i \in seen'[q] : watch'[i] = "watching"
    BY <1>3, <1>5 DEF WatchInv
  <2> QED
    BY <1>5, <2>1, <2>2, <2>3 DEF WatchInv
<1>6. ASSUME tick[p] # "idle" PROVE \A q \in Proc : q # p => seen[q] = {}
  BY <1>3, <1>6 DEF WatchInv
<1>7. ASSUME tick[p] = "watches", NEW i \in Item, watch[i] = "watching" PROVE undone[i] = 0
  BY <1>3, <1>7 DEF WatchInv
<1>8. ASSUME FinishFailed(p) PROVE WatchInv'
  <2>1. /\ tick[p] = "undone" /\ tick' = [tick EXCEPT ![p] = "idle"]
        /\ seen' = [seen EXCEPT ![p] = {}] /\ UNCHANGED undone
        /\ watch' = [i \in Item |-> IF i \in seen[p] THEN "failed" ELSE watch[i]]
    BY <1>8 DEF FinishFailed, Passed, Closed
  <2>2. \A i \in Item : watch'[i] = "watching" => undone'[i] = 0
    BY <1>3, <2>1 DEF WatchInv
  <2>3. /\ \A i \in Item : watch'[i] \in {"none", "healthy"} => undone'[i] = 0
        /\ \A i \in Item : undone'[i] <= 1
    BY <1>3, <2>1 DEF WatchInv
  <2>4. tick[p] # "idle" /\ (\A q \in Proc : q # p => tick'[q] = tick[q])
        /\ (\A q \in Proc : q # p => seen'[q] = {}) /\ seen'[p] = {}
        /\ (\A i \in seen'[p] : i \in seen[p] /\ watch'[i] = watch[i])
        /\ \A i \in Item : watch'[i] # watch[i] => i \in seen[p]
    BY <1>6, <2>1
  <2> QED
    <3>1. Turned
      BY <2>2, <2>3, <2>4
    <3> QED
      BY <1>5, <3>1
<1>9. ASSUME NEW i \in Watched, KeepWaiting(p, i) \/ FinishHealthy(p, i) \/ GiveUp(p, i)
      PROVE  WatchInv'
  <2>1. /\ tick[p] = "watches" /\ i \in seen[p] /\ UNCHANGED undone
        /\ \A q \in Proc : q # p => tick'[q] = tick[q]
        /\ seen' = [seen EXCEPT ![p] = seen[p] \ {i}]
        /\ \E now \in {watch[i], "healthy", "failed"} : watch' = [watch EXCEPT ![i] = now]
    BY <1>9 DEF KeepWaiting, FinishHealthy, GiveUp, Passed
  <2>2. watch[i] = "watching" /\ i \in Item
    BY <1>3, <2>1 DEF WatchInv
  <2>3. undone[i] = 0
    BY <1>7, <2>1, <2>2
  <2>4. /\ \A j \in Item : watch'[j] \in {"none", "healthy"} => undone'[j] = 0
        /\ \A j \in Item : watch'[j] = "watching" => undone'[j] = 0
        /\ \A j \in Item : undone'[j] <= 1
    BY <1>3, <1>7, <2>1, <2>2, <2>3 DEF WatchInv
  <2>5. tick[p] # "idle" /\ (\A q \in Proc : q # p => seen'[q] = {})
        /\ (\A j \in seen'[p] : j \in seen[p] /\ watch'[j] = watch[j])
        /\ \A j \in Item : watch'[j] # watch[j] => j \in seen[p]
    BY <1>6, <2>1
  <2> QED
    <3>1. Turned
      BY <2>1, <2>4, <2>5
    <3> QED
      BY <1>5, <3>1
<1>10. ASSUME NEW i \in Watched, UndoRollout(p, i) PROVE WatchInv'
  <2>1. /\ tick[p] = "watches" /\ i \in seen[p] /\ undone' = [undone EXCEPT ![i] = @ + 1]
        /\ tick' = [tick EXCEPT ![p] = "undone"]
        /\ seen' = [seen EXCEPT ![p] = {i}] /\ UNCHANGED watch
    BY <1>10 DEF UndoRollout
  <2>2. watch[i] = "watching" /\ i \in Item
    BY <1>3, <2>1 DEF WatchInv
  <2>3. undone[i] = 0
    BY <1>7, <2>1, <2>2
  <2>4. undone'[i] = 1 /\ \A j \in Item : j # i => undone'[j] = undone[j]
    BY <2>1, <2>2, <2>3
  <2>5. /\ \A j \in Item : watch'[j] \in {"none", "healthy"} => undone'[j] = 0
        /\ \A j \in Item : watch'[j] = "watching" => undone'[j] = 0 \/ (tick'[p] = "undone" /\ j \in seen'[p])
        /\ \A j \in Item : undone'[j] <= 1
    BY <1>3, <1>7, <2>1, <2>2, <2>4 DEF WatchInv
  <2>6. tick[p] # "idle" /\ (\A q \in Proc : q # p => tick'[q] = tick[q])
        /\ (\A q \in Proc : q # p => seen'[q] = {})
        /\ (\A j \in seen'[p] : j \in seen[p] /\ watch'[j] = watch[j])
        /\ \A j \in Item : watch'[j] # watch[j] => j \in seen[p]
    BY <1>6, <2>1
  <2> QED
    <3>1. Turned
      BY <2>5, <2>6
    <3> QED
      BY <1>5, <3>1
<1> QED
  BY <1>3, <1>4, <1>8, <1>9, <1>10 DEF Decide, Watches

\* Every step keeps it.
LEMMA WatchKeeps == BundleInv /\ WatchInv /\ [Next]_vars => WatchInv'
<1> SUFFICES ASSUME BundleInv, WatchInv, [Next]_vars PROVE WatchInv'
  OBVIOUS
<1> USE DEF BundleInv, TypeInv, WatchTypes, OneTick
<1>1. CASE Submit \/ \E u \in Voter : Answer(u)
  <2>1. AnswerFrame
    BY <1>1, Zenon DEF Submit, Answer, Check, CommitVote, Conclude
  <2>2. ~raced' => ~raced /\ (status' \in Unclaimed => status \in Unclaimed)
    <3>1. CASE Submit
      BY <3>1 DEF Submit, Unclaimed, voteVars
    <3>2. ASSUME NEW u \in Voter, Answer(u) PROVE ~raced' => ~raced /\ (status' \in Unclaimed => status \in Unclaimed)
      BY <3>2 DEF Answer, Check, CommitVote, Conclude, Outcome, Unclaimed
    <3> QED
      BY <1>1, <3>1, <3>2
  <2> QED
    BY <2>1, <2>2, WatchKept DEF AnswerFrame, workVars
<1>2. ASSUME NEW p \in Proc, Ticks(p) PROVE WatchInv'
  <2>1. UNCHANGED <<raced, watchVars, world>>
    BY <1>2, Zenon DEF Ticks, Look, FindOver, FindDue, FindStale, MarkExpired, Claim, Taken, TickFrame, voteVars
  <2>2. status' \in Unclaimed => status \in Unclaimed
    BY <1>2 DEF Ticks, Look, FindOver, FindDue, FindStale, MarkExpired, Claim, Taken, Unclaimed
  <2>3. status \in Unclaimed \/ UNCHANGED worker
    BY <1>2 DEF Ticks, Look, FindOver, FindDue, FindStale, MarkExpired, Claim, MayClaim, Taken, Unclaimed
  <2>4. (~world.overlap /\ OneTick => OneTick') /\ \A q \in Proc : tick[q] = "undone" => tick'[q] = "undone"
    BY <1>2 DEF Ticks, Look, FindOver, FindDue, FindStale, MarkExpired, Claim, Taken, Leads
  <2> QED
    BY <2>1, <2>2, <2>3, <2>4, WatchKept
<1>3. ASSUME NEW p \in Proc, Watches(p)
      PROVE  WatchInv'
  BY <1>3, WatchStepKeeps
<1>7. ASSUME NEW p \in Proc, Closes(p) PROVE WatchInv'
  <2>1. UNCHANGED <<raced, watchVars, world>> /\ (status' \in Unclaimed => status \in Unclaimed)
    BY <1>7, ClosesFrame, GivingUp DEF ClosingFrame, voteVars, Unclaimed
  <2>2. \A q \in Proc : worker'[q] # "none" => worker[q] # "none"
    BY <1>7, GivingUp
  <2>3. \A q \in Proc : (tick'[q] # "idle" => tick[q] # "idle") /\ (tick[q] = "undone" => tick'[q] = "undone")
    BY <1>7 DEF Closes, ReadStale, CloseStale, Raises, CloseRaised
  <2> QED
    BY <2>1, <2>2, <2>3, WatchKept
<1>4. ASSUME NEW p \in Proc, Steps(p) PROVE WatchInv'
  <2>1. UNCHANGED <<raced, tick, seen, undone, torn, world>> /\ worker[p] # "none"
        /\ (status' \in Unclaimed => status \in Unclaimed)
    <3>1. WorkFrame /\ worker[p] # "none"
      BY <1>4, Zenon DEF Steps, Begin, StartItem, Refuse, Apply, Record, Close, StartWatches
    <3>2. status' \in Unclaimed => status \in Unclaimed
      BY <1>4 DEF Steps, Begin, StartItem, Refuse, Apply, Record, Close, StartWatches, Final, Unclaimed
    <3> QED
      BY <3>1, <3>2 DEF WorkFrame, voteVars
  <2>2. CASE StartWatches(p)
    <3> SUFFICES ASSUME ~raced', ~world'.overlap, ~torn' PROVE WatchInv'
      BY DEF WatchInv
    <3>1. ~raced /\ ~world.overlap /\ ~torn
      BY <2>1
    <3>2. /\ \A i \in Item : watch[i] = "none" /\ undone[i] = 0
          /\ \A q \in Proc : seen[q] = {}
      BY <2>1, <3>1 DEF WatchInv
    <3>3. status' \notin Unclaimed /\ \A q \in Proc : worker'[q] = "none"
      <4>1. status \notin Unclaimed /\ \A q \in Proc : q # p => worker[q] = "none"
        BY <2>1, <3>1, Alone
      <4>2. worker' = [worker EXCEPT ![p] = "none"]
        BY <2>2 DEF StartWatches
      <4> QED
        BY <2>1, <4>1, <4>2 DEF WorkTypes
    <3> QED
      BY <2>1, <3>1, <3>2, <3>3 DEF WatchInv
  <2>3. CASE UNCHANGED watch
    BY <2>1, <2>3, WatchKept DEF watchVars
  <2> QED
    BY <1>4, <2>2, <2>3 DEF Steps, Begin, StartItem, Refuse, Apply, Record, Close
<1>5. ASSUME NEW p \in Proc, Crash(p) PROVE WatchInv'
  <2> SUFFICES ASSUME ~raced', ~world'.overlap, ~torn' PROVE WatchInv'
    BY DEF WatchInv
  <2>1. /\ UNCHANGED <<status, raced, world, watch, undone>> /\ tick[p] # "undone" /\ ~torn
        /\ worker' = [worker EXCEPT ![p] = "none"] /\ tick' = [tick EXCEPT ![p] = "idle"]
        /\ seen' = [seen EXCEPT ![p] = {}]
    BY <1>5 DEF Crash, bundleVars, voteVars
  <2>2. \A q \in Proc : worker'[q] # "none" => worker[q] # "none"
    BY <2>1 DEF WorkTypes
  <2>3. OneTick' /\ \A q \in Proc : \A i \in seen'[q] : watch'[i] = "watching"
    BY <2>1 DEF WatchInv
  <2>4. \A q \in Proc : tick[q] = "undone" => tick'[q] = "undone" /\ seen'[q] = seen[q]
    BY <2>1
  <2>5. \A i \in Item : watch'[i] = "watching" =>
           undone'[i] = 0 \/ \E q \in Proc : tick'[q] = "undone" /\ i \in seen'[q]
    BY <2>1, <2>4 DEF WatchInv
  <2> QED
    BY <2>1, <2>2, <2>3, <2>5 DEF WatchInv
<1>6. CASE Rests
  <2>1. UNCHANGED <<raced, status, worker, tick, watchVars, world>>
    BY <1>6 DEF Rests, WindowOpens, WindowEnds, GoesQuiet, vars, bundleVars, voteVars, workVars
  <2> QED
    BY <2>1, WatchKept DEF watchVars
<1> QED
  BY <1>1, <1>2, <1>3, <1>4, <1>5, <1>6, <1>7, AllSteps

\* What a rollout watch says is true, whichever processes die or raise while no pass
\* is in the middle of an undo.
THEOREM WatchesAreTrue == Spec => []WatchIsTrue
<1>1. Init => WatchInv
  BY DEF Init, WatchInv, OneTick
<1>2. WatchInv => WatchIsTrue
  BY DEF WatchInv, WatchIsTrue
<1> QED
  BY <1>1, <1>2, WatchKeeps, Invariance, PTL DEF Spec

---------------------------------------------------------------------------
(* What an executed bundle says.                                           *)

\* What an executed bundle says of its items.
Truth ==
    /\ Unfinished = {}
    /\ status = "completed" => \A i \in Item : item[i] = "succeeded"
    /\ status = "failed" <=> \A i \in Item : item[i] # "succeeded"

\* The items behind a worker are as it counted them; those ahead wait.
Counted(p) ==
    /\ worker[p] \in {"begin"} \cup Busy => status = "deploying"
    /\ worker[p] = "begin" => \A i \in Item : item[i] = "pending"
    /\ worker[p] \in Busy => \A i \in Item :
         /\ i < pos[p] => \/ item[i] = "succeeded" /\ i \in good[p] /\ i \notin bad[p]
                          \/ item[i] = "failed" /\ i \notin good[p] /\ i \in bad[p]
         /\ i >= pos[p] => i \notin good[p] /\ i \notin bad[p]
         /\ i > pos[p] => item[i] = "pending"
         /\ i = pos[p] => item[i] = IF worker[p] = "next" THEN "pending" ELSE "applying"
         /\ i = pos[p] /\ worker[p] = "record" => applied[i] # 0

\* Who gives up the bundle holds it as it is, and no worker goes on with it.
ClosedAsRead ==
    /\ \A p \in Proc : tick[p] \in {"stale", "closing"} => \A q \in Proc : worker[q] = "none"
    /\ \A p \in Proc : tick[p] = "closing" \/ worker[p] = "closing" =>
         status = "deploying" /\ left[p] = item

\* While no answer is late, one process leads, and no worker is taken for dead.
OutInv == Trusted =>
    /\ OneTick
    /\ \A p \in Proc : tick[p] = "over" =>
         status \in {"pending_approval", "approved", "rejected", "expired"}
    /\ status = "deploying" /\ quiet => \A p \in Proc : worker[p] = "none"
    /\ status \in Unclaimed => \A i \in Item : item[i] = "pending"
    /\ ClosedAsRead
    /\ \A p \in Proc : Counted(p)
    /\ \A i \in Item : item[i] = "succeeded" => applied[i] # 0
    /\ status \in Executed => Truth

\* A step outside the items keeps it, if it starts no worker and no bundle, and
\* gives the bundle up only as it is.
LEMMA OutKept ==
    ASSUME OutInv, UNCHANGED <<item, applied, good, bad, pos, world>>, raced => raced',
           Trusted' => ClosedAsRead',
           Trusted' /\ status' # status =>
             /\ status' \notin Executed \cup {"deploying"}
             /\ status' \in Unclaimed => status \in Unclaimed
             /\ \A p \in Proc : worker[p] = "none",
           Trusted' /\ status' = "deploying" /\ quiet' => quiet \/ \A p \in Proc : worker[p] = "none",
           \A p \in Proc : \/ worker'[p] = worker[p] \/ worker'[p] = "none"
                           \/ worker'[p] = "closing" /\ worker[p] # "none",
           Trusted' /\ OneTick => OneTick',
           Trusted' => \A p \in Proc : tick'[p] = "over" =>
             status' \in {"pending_approval", "approved", "rejected", "expired"}
    PROVE  OutInv'
<1> SUFFICES ASSUME Trusted' PROVE OutInv'
  BY DEF OutInv
<1>1. Trusted
  BY DEF Trusted
<1>2. ASSUME NEW p \in Proc PROVE Counted(p)'
  BY <1>1, <1>2 DEF OutInv, Counted, Busy
<1>3. status' \in Executed => Truth'
  BY <1>1 DEF OutInv, Truth, Unfinished
<1>4. status' = "deploying" /\ quiet' => \A p \in Proc : worker'[p] = "none"
  BY <1>1 DEF OutInv
<1> QED
  BY <1>1, <1>2, <1>3, <1>4 DEF OutInv

\* A step in which nobody looks for or gives up the bundle, and its status is not
\* changed while it is deploying, leaves the readings as they are.
LEMMA ReadingKept ==
    ASSUME ClosedAsRead, UNCHANGED item, status' = status \/ status # "deploying",
           \A p \in Proc : tick'[p] = tick[p] \/ tick'[p] \notin {"stale", "closing"},
           \A p \in Proc : worker'[p] = worker[p] \/ worker'[p] = "none",
           \A p \in Proc : left'[p] = left[p] \/ (tick'[p] # "closing" /\ worker'[p] # "closing")
    PROVE  ClosedAsRead'
BY DEF ClosedAsRead

\* What is left behind is closed truthfully, when nobody is at it.
LEMMA CloseOut ==
    ASSUME TypeInv, OutInv, Trusted, NEW p \in Proc, CloseLeft(p), left[p] = item,
           UNCHANGED <<applied, raced, world>>, OneTick',
           \A q \in Proc : tick'[q] \notin {"over", "stale", "closing"},
           \A q \in Proc : worker'[q] = "none"
    PROVE  OutInv'
<1> USE DEF TypeInv, BundleTypes, ItemStatus
<1>1. /\ item' = [i \in Item |-> IF item[i] = "applying" THEN "failed"
                                ELSE IF item[i] = "pending" THEN "skipped" ELSE item[i]]
      /\ status' = IF \E i \in Item : item[i] = "succeeded" THEN "partially_failed" ELSE "failed"
  BY DEF CloseLeft
<1>2. \A i \in Item : item'[i] = "succeeded" <=> item[i] = "succeeded"
  BY <1>1
<1>3. \A i \in Item : item'[i] \notin {"pending", "applying"}
  BY <1>1
<1>4. \/ status' = "failed" /\ \A i \in Item : item[i] # "succeeded"
      \/ status' = "partially_failed" /\ ~(\A i \in Item : item[i] # "succeeded")
  BY <1>1
<1>5. Truth' /\ status' \notin Unclaimed
  BY <1>2, <1>3, <1>4 DEF Truth, Unfinished, Unclaimed
<1>6. (\A q \in Proc : Counted(q)') /\ ClosedAsRead'
  BY DEF Counted, Busy, ClosedAsRead
<1> QED
  BY <1>2, <1>5, <1>6 DEF OutInv, Trusted, Unclaimed

\* Ticks on the bundle.
LEMMA TickOut ==
    ASSUME BundleInv, TypeInv', OutInv, NEW p \in Proc,
           Ticks(p)
    PROVE  OutInv'
<1> SUFFICES ASSUME Trusted' PROVE OutInv'
  BY DEF OutInv
<1>1. UNCHANGED <<raced, pos, good, bad, applied, left, world>>
  BY Zenon DEF Ticks, Look, FindOver, FindDue, FindStale, MarkExpired, Claim, Taken, TickFrame, voteVars
<1>2. Trusted /\ ~raced /\ ~world.overlap /\ ~world.slow
  BY <1>1 DEF Trusted
<1>3. /\ tick \in [Proc -> {"idle", "due", "over", "stale", "closing", "watches", "undone"}]
      /\ worker \in [Proc -> {"none", "begin", "next", "apply", "record", "watch", "closing"}]
      /\ item \in [Item -> ItemStatus]
  BY DEF BundleInv, TypeInv, WatchTypes, WorkTypes, BundleTypes
<1>4. OneTick' /\ OneTick /\ ClosedAsRead
  <2>1. OneTick /\ ClosedAsRead
    BY <1>2 DEF OutInv
  <2>2. /\ \A q \in Proc : q # p => tick'[q] = tick[q]
        /\ tick[p] # "idle" \/ \A q \in Proc : tick[q] = "idle"
    BY <1>2, <1>3 DEF Ticks, Look, FindOver, FindDue, FindStale, MarkExpired, Claim, Taken, Leads
  <2> QED
    BY <2>1, <2>2 DEF OneTick
<1>5. CASE FindOver(p) \/ FindDue(p) \/ FindStale(p) \/ Taken(p)
  <2>1. UNCHANGED <<status, item, quiet, worker>>
    BY <1>5 DEF FindOver, FindDue, FindStale, Taken
  <2>2. \A q \in Proc : tick'[q] = "over" => tick[q] = "over" \/ status \in {"approved", "pending_approval"}
    BY <1>3, <1>5 DEF FindOver, FindDue, FindStale, Taken
  <2>3. \A q \in Proc : tick'[q] = "over" => status' \in {"pending_approval", "approved", "rejected", "expired"}
    BY <1>2, <2>1, <2>2 DEF OutInv
  <2>4. FindStale(p) => \A q \in Proc : worker[q] = "none" /\ tick[q] = "idle"
    BY <1>2 DEF FindStale, Leads, OutInv
  <2>5. \A q \in Proc : tick'[q] \notin {"stale", "closing"} \/ tick'[q] = tick[q]
                       \/ (FindStale(p) /\ tick'[q] = "stale")
    BY <1>3, <1>5 DEF FindOver, FindDue, FindStale, Taken
  <2>6. ClosedAsRead'
    BY <1>1, <1>4, <2>1, <2>4, <2>5 DEF ClosedAsRead
  <2> QED
    BY <1>1, <1>4, <2>1, <2>3, <2>6, OutKept
<1>7. CASE MarkExpired(p)
  <2>1. /\ tick[p] = "over" /\ status' = "expired" /\ quiet' = FALSE
        /\ item' = [i \in Item |-> IF i \in Unfinished THEN "skipped" ELSE item[i]]
        /\ UNCHANGED worker /\ tick' = [tick EXCEPT ![p] = "idle"]
    BY <1>7 DEF MarkExpired
  <2>2. status \notin {"deploying"} \cup Executed
    BY <1>2, <2>1 DEF OutInv, Executed
  <2>3. \A q \in Proc : Counted(q)'
    BY <1>2, <2>1, <2>2 DEF OutInv, Counted, Busy
  <2>4. \A i \in Item : item'[i] = "succeeded" => item[i] = "succeeded"
    BY <2>1
  <2>5. \A q \in Proc : tick'[q] = "over" => status' = "expired"
    BY <2>1
  <2>6. \A q \in Proc : tick'[q] \notin {"stale", "closing"} /\ worker'[q] # "closing"
    BY <1>3, <1>4, <2>1, <2>2 DEF OneTick, ClosedAsRead, MarkExpired
  <2>7. ClosedAsRead'
    BY <2>6 DEF ClosedAsRead
  <2> QED
    BY <1>1, <1>2, <1>4, <2>1, <2>3, <2>4, <2>5, <2>7 DEF OutInv, Unclaimed, Executed
<1>8. CASE Claim(p)
  <2>1. /\ tick[p] = "due" /\ status = "approved" /\ status' = "deploying" /\ quiet' = FALSE
        /\ worker' = [worker EXCEPT ![p] = "begin"] /\ tick' = [tick EXCEPT ![p] = "idle"]
        /\ UNCHANGED item
    BY <1>8 DEF Claim, MayClaim
  <2>2. \A q \in Proc : tick'[q] = "idle"
    BY <1>3, <1>4, <2>1 DEF OneTick
  <2>3. \A i \in Item : item'[i] = "pending"
    BY <1>2, <2>1 DEF OutInv, Unclaimed
  <2>4. \A q \in Proc : worker'[q] \in {"none", "begin"}
    BY <1>2, <1>3, <2>1 DEF BundleInv, OnceInv, Unclaimed
  <2>5. \A q \in Proc : Counted(q)'
    BY <2>1, <2>3, <2>4 DEF Counted, Busy
  <2>6. ClosedAsRead'
    BY <2>2, <2>4 DEF ClosedAsRead
  <2> QED
    BY <1>1, <1>2, <1>4, <2>1, <2>2, <2>3, <2>5, <2>6 DEF OutInv, Unclaimed, Executed
<1> QED
  BY <1>5, <1>7, <1>8 DEF Ticks, Look

\* The worker's own steps.
LEMMA WorkOut ==
    ASSUME BundleInv, TypeInv', OnceInv', OutInv, NEW p \in Proc, Steps(p)
    PROVE  OutInv'
<1> SUFFICES ASSUME Trusted' PROVE OutInv'
  BY DEF OutInv
<1>1. UNCHANGED <<raced, tick, world>> /\ worker[p] # "none"
  BY DEF Steps, Begin, StartItem, Refuse, Apply, Record, Close, StartWatches, WorkFrame, voteVars
<1>2. Trusted /\ ~raced /\ OneTick' /\ OneTick
  BY <1>1 DEF Trusted, OutInv, OneTick
<1>3. /\ worker \in [Proc -> {"none", "begin", "next", "apply", "record", "watch", "closing"}]
      /\ pos \in [Proc -> 1..Items + 1] /\ applied \in [Item -> Nat]
      /\ good \in [Proc -> SUBSET Item] /\ bad \in [Proc -> SUBSET Item]
      /\ item \in [Item -> ItemStatus]
      /\ Item = 1..Items /\ Items \in Nat \ {0}
      /\ (worker[p] \in {"apply", "record"} => pos[p] \in Item)
  BY DEF BundleInv, TypeInv, WorkTypes, BundleTypes, Item
<1>4. status \notin Unclaimed /\ \A q \in Proc : q # p => worker[q] = "none" /\ worker'[q] = "none"
  <2>1. status \notin Unclaimed /\ \A q \in Proc : q # p => worker[q] = "none"
    BY <1>1, <1>2, Alone DEF BundleInv
  <2>2. \A q \in Proc : q # p => worker'[q] = worker[q]
    BY <1>3 DEF Steps, Begin, StartItem, Refuse, Apply, Record, Close, StartWatches, Recorded
  <2> QED
    BY <2>1, <2>2
<1>5. Counted(p) /\ \A i \in Item : item[i] = "succeeded" => applied[i] # 0
  BY <1>2 DEF OutInv
<1>6. (\A q \in Proc : tick[q] # "over") \/ status \in {"pending_approval", "approved", "rejected", "expired"}
  BY <1>2 DEF OutInv
\* No tick is giving the bundle up.
<1>16. ASSUME \A q \in Proc : worker'[q] # "closing" PROVE ClosedAsRead'
  BY <1>1, <1>2, <1>16 DEF OutInv, ClosedAsRead
\* For a worker that goes on.
<1>7. ASSUME worker'[p] \in Busy, status' = status, status = "deploying", quiet' => quiet, Counted(p)',
             \A i \in Item : item'[i] = "succeeded" => applied'[i] # 0
      PROVE  OutInv'
  <2>1. \A q \in Proc : Counted(q)'
    BY <1>4, <1>7 DEF Counted, Busy
  <2>2. ~quiet'
    BY <1>1, <1>2, <1>7 DEF OutInv
  <2>3. \A q \in Proc : tick'[q] # "over"
    BY <1>1, <1>6, <1>7
  <2>4. ClosedAsRead'
    BY <1>4, <1>7, <1>16 DEF Busy
  <2> QED
    BY <1>2, <1>7, <2>1, <2>2, <2>3, <2>4 DEF OutInv, Unclaimed, Executed
<1>8. CASE Begin(p)
  <2>1. status = "deploying" => worker[p] = "begin"
    BY <1>8 DEF Begin
  <2>2. status = "deploying"
    BY <1>5, <1>8 DEF Begin, Counted
  <2>3. /\ worker' = [worker EXCEPT ![p] = "next"] /\ quiet' = FALSE
        /\ pos' = [pos EXCEPT ![p] = 1]
        /\ good' = [good EXCEPT ![p] = {}] /\ bad' = [bad EXCEPT ![p] = {}]
        /\ UNCHANGED <<status, item, applied>>
    BY <1>8, <2>2 DEF Begin
  <2>4. \A i \in Item : item[i] = "pending"
    BY <1>5, <1>8 DEF Begin, Counted
  <2>5. worker'[p] = "next" /\ pos'[p] = 1 /\ good'[p] = {} /\ bad'[p] = {}
    BY <1>3, <2>3
  <2>6. Counted(p)'
    BY <1>3, <2>2, <2>3, <2>4, <2>5 DEF Counted, Busy
  <2> QED
    BY <1>5, <1>7, <2>2, <2>3, <2>5, <2>6 DEF Busy
<1>9. CASE StartItem(p)
  <2>1. /\ worker[p] = "next" /\ pos[p] \in Item /\ quiet' = FALSE
        /\ item' = [item EXCEPT ![pos[p]] = "applying"]
        /\ worker' = [worker EXCEPT ![p] = "apply"]
        /\ UNCHANGED <<status, pos, good, bad, applied>>
    BY <1>9 DEF StartItem
  <2>2. worker'[p] = "apply" /\ item'[pos[p]] = "applying" /\ \A i \in Item : i # pos[p] => item'[i] = item[i]
    BY <1>3, <2>1
  <2>3. status = "deploying" /\ Counted(p)'
    BY <1>3, <1>5, <2>1, <2>2 DEF Counted, Busy
  <2> QED
    BY <1>5, <1>7, <2>1, <2>2, <2>3 DEF Busy
<1>10. CASE Apply(p)
  <2>1. /\ worker[p] = "apply" /\ applied' = [applied EXCEPT ![pos[p]] = @ + 1]
        /\ worker' = [worker EXCEPT ![p] = "record"]
        /\ UNCHANGED <<status, item, quiet, pos, good, bad>>
    BY <1>10 DEF Apply
  <2>2. worker'[p] = "record" /\ applied'[pos[p]] # 0
        /\ \A i \in Item : applied[i] # 0 => applied'[i] # 0
    BY <1>3, <2>1
  <2>3. status = "deploying" /\ Counted(p)'
    BY <1>3, <1>5, <2>1, <2>2 DEF Counted, Busy
  <2> QED
    BY <1>5, <1>7, <2>1, <2>2, <2>3 DEF Busy
<1>11. ASSUME NEW how \in {"succeeded", "failed"}, Recorded(p, how), worker[p] \in {"apply", "record"},
              how = "succeeded" => worker[p] = "record",
              UNCHANGED <<status, quiet, applied>>
       PROVE  OutInv'
  <2>1. /\ item' = [item EXCEPT ![pos[p]] = how]
        /\ pos' = [pos EXCEPT ![p] = @ + 1]
        /\ worker' = [worker EXCEPT ![p] = "next"]
    BY <1>11 DEF Recorded
  <2>2. \/ how = "succeeded" /\ good'[p] = good[p] \cup {pos[p]} /\ bad'[p] = bad[p]
        \/ how = "failed" /\ bad'[p] = bad[p] \cup {pos[p]} /\ good'[p] = good[p]
    BY <1>3, <1>11 DEF Recorded
  <2>3. /\ worker'[p] = "next" /\ pos'[p] = pos[p] + 1 /\ pos[p] \in Item /\ pos[p] \in Nat
        /\ item'[pos[p]] = how /\ \A i \in Item : i # pos[p] => item'[i] = item[i]
    BY <1>3, <1>11, <2>1
  <2>4. status = "deploying"
    BY <1>5, <1>11 DEF Counted, Busy
  <2>5. Counted(p)'
    <3>1. ASSUME NEW i \in Item, i < pos[p]
          PROVE  \/ item'[i] = "succeeded" /\ i \in good'[p] /\ i \notin bad'[p]
                 \/ item'[i] = "failed" /\ i \notin good'[p] /\ i \in bad'[p]
      BY <1>3, <1>5, <1>11, <2>2, <2>3, <3>1 DEF Counted, Busy
    <3>2. \/ item'[pos[p]] = "succeeded" /\ pos[p] \in good'[p] /\ pos[p] \notin bad'[p]
          \/ item'[pos[p]] = "failed" /\ pos[p] \notin good'[p] /\ pos[p] \in bad'[p]
      BY <1>3, <1>5, <1>11, <2>2, <2>3 DEF Counted, Busy
    <3>3. ASSUME NEW i \in Item, i > pos[p]
          PROVE  i \notin good'[p] /\ i \notin bad'[p] /\ item'[i] = "pending"
      BY <1>3, <1>5, <1>11, <2>2, <2>3, <3>3 DEF Counted, Busy
    <3>4. \A i \in Item : /\ i < pos'[p] <=> i < pos[p] \/ i = pos[p]
                          /\ i >= pos'[p] <=> i > pos[p]
      BY <1>3, <2>3
    <3>5. \A i \in Item : i > pos'[p] => i > pos[p]
      BY <1>3, <2>3
    <3>6. \A i \in Item : i = pos'[p] => i > pos[p]
      BY <1>3, <2>3
    <3>7. ASSUME NEW i \in Item, i < pos'[p]
          PROVE  \/ item'[i] = "succeeded" /\ i \in good'[p] /\ i \notin bad'[p]
                 \/ item'[i] = "failed" /\ i \notin good'[p] /\ i \in bad'[p]
      BY <3>1, <3>2, <3>4, <3>7
    <3> QED
      BY <1>11, <2>3, <2>4, <3>3, <3>4, <3>5, <3>6, <3>7 DEF Counted, Busy
  <2>6. \A i \in Item : item'[i] = "succeeded" => applied'[i] # 0
    BY <1>5, <1>11, <2>3 DEF Counted, Busy
  <2> QED
    BY <1>7, <1>11, <2>3, <2>4, <2>5, <2>6 DEF Busy
<1>12. CASE Close(p)
  <2>1. /\ worker[p] = "next" /\ (pos[p] \notin Item \/ bad[p] # {})
        /\ status' = Final(p) /\ UNCHANGED applied
        /\ item' = [i \in Item |-> IF i >= pos[p] THEN "skipped" ELSE item[i]]
        /\ worker' = [worker EXCEPT ![p] = "watch"]
    BY <1>12 DEF Close, Stopped
  <2>2. status = "deploying"
    BY <1>5, <2>1 DEF Counted, Busy
  <2>3. \A i \in Item : \/ i >= pos[p] /\ item'[i] = "skipped" /\ i \notin good[p] /\ i \notin bad[p]
                        \/ i < pos[p] /\ item'[i] = "succeeded" /\ i \in good[p] /\ i \notin bad[p]
                        \/ i < pos[p] /\ item'[i] = "failed" /\ i \notin good[p] /\ i \in bad[p]
    BY <1>3, <1>5, <2>1 DEF Counted, Busy
  <2>4. \A i \in Item : item'[i] = "succeeded" <=> i \in good[p]
    BY <2>3
  <2>5. bad[p] = {} => \A i \in Item : item'[i] = "succeeded"
    BY <1>3, <2>1, <2>3
  <2>6. good[p] \subseteq Item
    BY <1>3
  <2>7. Unfinished' = {}
    BY <2>3 DEF Unfinished
  <2>8. status' = "completed" => \A i \in Item : item'[i] = "succeeded"
    BY <2>1, <2>5 DEF Final
  <2>9. status' = "failed" <=> \A i \in Item : item'[i] # "succeeded"
    <3>1. CASE bad[p] = {}
      BY <1>3, <2>1, <2>5, <3>1 DEF Final
    <3>2. CASE bad[p] # {}
      BY <2>1, <2>4, <2>6, <3>2 DEF Final
    <3> QED
      BY <3>1, <3>2
  <2>10. status' \notin Unclaimed /\ status' # "deploying"
    BY <2>1 DEF Final, Unclaimed
  <2>11. \A q \in Proc : worker'[q] \in {"none", "watch"}
    BY <1>3, <1>4, <2>1
  <2>12. \A q \in Proc : Counted(q)'
    BY <2>11 DEF Counted, Busy
  <2>13. \A q \in Proc : tick'[q] # "over"
    BY <1>1, <1>6, <2>2
  <2>14. \A i \in Item : item'[i] = "succeeded" => applied'[i] # 0
    BY <1>5, <2>1, <2>3
  <2>15. ClosedAsRead'
    BY <1>16, <2>11
  <2> QED
    BY <1>2, <2>7, <2>8, <2>9, <2>10, <2>12, <2>13, <2>14, <2>15 DEF OutInv, Truth
<1>13. CASE StartWatches(p)
  <2>1. /\ worker' = [worker EXCEPT ![p] = "none"]
        /\ UNCHANGED <<status, item, quiet, pos, good, bad, applied>>
    BY <1>13 DEF StartWatches
  <2>2. \A q \in Proc : worker'[q] = worker[q] \/ worker'[q] = "none"
    BY <1>3, <2>1
  <2>3. \A q \in Proc : tick'[q] = "over" => status' \in {"pending_approval", "approved", "rejected", "expired"}
    BY <1>1, <1>6, <2>1
  <2>4. ClosedAsRead'
    BY <1>3, <1>4, <1>16, <2>1
  <2> QED
    BY <1>1, <1>2, <2>1, <2>2, <2>3, <2>4, OutKept
<1>15. ASSUME Refuse(p) \/ Record(p) PROVE OutInv'
  BY <1>11, <1>15 DEF Refuse, Record
<1> QED
  BY <1>8, <1>9, <1>10, <1>12, <1>13, <1>15 DEF Steps

\* A bundle is given up as it is, and closed truthfully.
LEMMA ClosingOut ==
    ASSUME BundleInv, OutInv, NEW p \in Proc, Closes(p)
    PROVE  OutInv'
<1> SUFFICES ASSUME Trusted' PROVE OutInv'
  BY DEF OutInv
<1>1. UNCHANGED <<raced, pos, good, bad, applied, world>>
  BY ClosesFrame DEF ClosingFrame, voteVars
<1>2. Trusted /\ ~raced /\ OneTick /\ ClosedAsRead /\ ~(status = "deploying" /\ quiet /\ worker[p] # "none")
  BY <1>1 DEF Trusted, OutInv
<1>3. /\ tick \in [Proc -> {"idle", "due", "over", "stale", "closing", "watches", "undone"}]
      /\ worker \in [Proc -> {"none", "begin", "next", "apply", "record", "watch", "closing"}]
      /\ left \in [Proc -> [Item -> ItemStatus]]
  BY DEF BundleInv, TypeInv, WatchTypes, WorkTypes
<1>4. \A q \in Proc : (tick'[q] # "idle" => tick[q] # "idle") /\ (tick'[q] = "over" => tick[q] = "over")
  BY DEF BundleInv, TypeInv, WatchTypes, Closes, ReadStale, CloseStale, Raises, CloseRaised
<1>5. OneTick'
  BY <1>2, <1>4 DEF OneTick
<1>6. \A q \in Proc : tick[q] = "over" => status \in {"pending_approval", "approved", "rejected", "expired"}
  BY <1>2 DEF OutInv
\* Where the bundle is looked at, or let go.
<1>7. ASSUME UNCHANGED <<status, item, quiet>>, ClosedAsRead' PROVE OutInv'
  <2>1. \A q \in Proc : \/ worker'[q] = worker[q] \/ worker'[q] = "none"
                        \/ worker'[q] = "closing" /\ worker[q] # "none"
    BY GivingUp DEF BundleInv
  <2>2. \A q \in Proc : tick'[q] = "over" => status' \in {"pending_approval", "approved", "rejected", "expired"}
    BY <1>4, <1>6, <1>7
  <2> QED
    BY <1>1, <1>5, <1>7, <2>1, <2>2, OutKept
<1>8. CASE ReadStale(p)
  <2>1. /\ tick[p] = "stale" /\ UNCHANGED <<status, item, quiet, worker>>
        /\ \/ status = "deploying" /\ left' = [left EXCEPT ![p] = item] /\ tick' = [tick EXCEPT ![p] = "closing"]
           \/ UNCHANGED left /\ tick' = [tick EXCEPT ![p] = "idle"]
    BY <1>8 DEF ReadStale, ReadLeft
  <2>2. ClosedAsRead'
    BY <1>2, <1>3, <2>1 DEF ClosedAsRead
  <2> QED
    BY <1>7, <2>1, <2>2
<1>9. CASE Raises(p)
  <2>1. /\ worker[p] # "none" /\ UNCHANGED <<status, item, quiet, tick>>
        /\ \/ status = "deploying" /\ left' = [left EXCEPT ![p] = item] /\ worker' = [worker EXCEPT ![p] = "closing"]
           \/ left' = [left EXCEPT ![p] = Untouched] /\ worker' = [worker EXCEPT ![p] = "none"]
    BY <1>9 DEF Raises, ReadLeft
  <2>2. \A q \in Proc : tick[q] \notin {"stale", "closing"}
    BY <1>2, <2>1 DEF ClosedAsRead
  <2>3. ClosedAsRead'
    BY <1>2, <1>3, <2>1, <2>2 DEF ClosedAsRead
  <2> QED
    BY <1>7, <2>1, <2>3
\* Where it is closed.
<1>10. CASE CloseStale(p)
  <2>1. /\ tick[p] = "closing" /\ CloseLeft(p) /\ UNCHANGED worker
        /\ tick' = [tick EXCEPT ![p] = "idle"]
    BY <1>10 DEF CloseStale
  <2>2. left[p] = item /\ \A q \in Proc : worker'[q] = "none"
    BY <1>2, <2>1 DEF ClosedAsRead
  <2>3. \A q \in Proc : tick'[q] = "idle"
    BY <1>2, <1>3, <2>1 DEF OneTick
  <2> QED
    BY <1>1, <1>2, <1>5, <2>1, <2>2, <2>3, CloseOut DEF BundleInv
<1>11. CASE CloseRaised(p)
  <2>1. /\ worker[p] = "closing" /\ CloseLeft(p) /\ UNCHANGED tick
        /\ worker' = [worker EXCEPT ![p] = "none"]
    BY <1>11 DEF CloseRaised
  <2>2. left[p] = item /\ status = "deploying"
    BY <1>2, <2>1 DEF ClosedAsRead
  <2>3. \A q \in Proc : worker'[q] = "none"
    BY <1>2, <1>3, <2>1, Alone DEF BundleInv
  <2>4. \A q \in Proc : tick'[q] \notin {"over", "stale", "closing"}
    BY <1>2, <1>6, <2>1, <2>2 DEF ClosedAsRead
  <2> QED
    BY <1>1, <1>2, <1>5, <2>1, <2>2, <2>3, <2>4, CloseOut DEF BundleInv
<1> QED
  BY <1>8, <1>9, <1>10, <1>11 DEF Closes

\* Every step keeps it.
LEMMA OutStep == BundleInv /\ BundleInv' /\ OutInv /\ [Next]_vars => OutInv'
<1> SUFFICES ASSUME BundleInv, BundleInv', OutInv, [Next]_vars PROVE OutInv'
  OBVIOUS
<1>0. TypeInv' /\ OnceInv'
  BY DEF BundleInv
<1>1. CASE Submit \/ \E u \in Voter : Answer(u)
  <2>1. AnswerFrame /\ UNCHANGED item
    BY <1>1, Zenon DEF Submit, Answer, Check, CommitVote, Conclude, AnswerFrame, voteVars
  <2>2. raced => raced'
    BY <1>1 DEF Submit, Answer, Check, CommitVote, Conclude, voteVars
  <2>3. Trusted' /\ status' # status =>
          status \in {"draft", "pending_approval"} /\ status' \in {"pending_approval", "approved", "rejected", "expired"}
    <3>1. CASE Submit
      BY <3>1 DEF Submit
    <3>2. ASSUME NEW u \in Voter, Answer(u), Trusted', status' # status
          PROVE  status = "pending_approval" /\ status' \in {"approved", "rejected", "expired"}
      BY <3>2 DEF Answer, Check, CommitVote, Conclude, Outcome, Trusted
    <3> QED
      BY <1>1, <3>1, <3>2
  <2>4. Trusted' => Trusted /\ ~raced
    BY <2>1, <2>2 DEF Trusted, AnswerFrame
  <2>5. Trusted' /\ status' # status =>
          /\ status' \notin Executed \cup {"deploying"}
          /\ status' \in Unclaimed => status \in Unclaimed
          /\ \A p \in Proc : worker[p] = "none"
    BY <2>3, <2>4 DEF BundleInv, OnceInv, Unclaimed, Executed
  <2>6. Trusted' /\ status' = "deploying" /\ quiet' => quiet
    <3>1. status' = status => quiet' = quiet \/ quiet' = FALSE
      BY <1>1 DEF Submit, Answer, Check, CommitVote, Conclude, AnswerFrame
    <3> QED
      BY <2>3, <3>1
  <2>7. Trusted' => \A p \in Proc : tick'[p] = "over" =>
          status' \in {"pending_approval", "approved", "rejected", "expired"}
    BY <2>1, <2>3, <2>4 DEF OutInv, AnswerFrame
  <2>8. Trusted' => ClosedAsRead'
    BY <2>1, <2>3, <2>4, ReadingKept DEF OutInv, AnswerFrame, workVars
  <2> QED
    BY <2>1, <2>2, <2>5, <2>6, <2>7, <2>8, OutKept DEF AnswerFrame, workVars, OneTick
<1>2. ASSUME NEW p \in Proc, Ticks(p) PROVE OutInv'
  BY <1>0, <1>2, TickOut
<1>3. ASSUME NEW p \in Proc, Steps(p) PROVE OutInv'
  BY <1>0, <1>3, WorkOut
<1>9. ASSUME NEW p \in Proc, Closes(p) PROVE OutInv'
  BY <1>9, ClosingOut
\* What is neither the bundle nor its worker.
<1>4. ASSUME UNCHANGED <<status, item, applied, good, bad, pos, world, raced, quiet>>,
             \A p \in Proc : worker'[p] = worker[p] \/ worker'[p] = "none",
             Trusted /\ OneTick => OneTick',
             \A p \in Proc : tick'[p] = tick[p] \/ tick'[p] \notin {"over", "stale", "closing"},
             \A p \in Proc : left'[p] = left[p] \/ (tick'[p] # "closing" /\ worker'[p] # "closing")
      PROVE  OutInv'
  <2>1. Trusted' => Trusted /\ ClosedAsRead'
    BY <1>4, ReadingKept DEF OutInv, Trusted
  <2> QED
    BY <1>4, <2>1, OutKept DEF OutInv, Trusted
<1>5. ASSUME NEW p \in Proc, Watches(p)
      PROVE  OutInv'
  <2>1. UNCHANGED <<bundleVars, voteVars, workVars, world>>
    BY <1>5, WatchesFrame
  <2>2. UNCHANGED <<status, item, applied, good, bad, pos, left, world, raced, quiet, worker>>
    BY <2>1 DEF bundleVars, voteVars, workVars
  <2>3. /\ \A q \in Proc : q # p => tick'[q] = tick[q]
        /\ tick'[p] \notin {"over", "stale", "closing"}
        /\ tick[p] # "idle" \/ (~world.overlap => \A q \in Proc : tick[q] = "idle")
    BY <1>5 DEF BundleInv, TypeInv, WatchTypes, Watches, UndoFails, ReadWatches, FinishFailed, Decide, KeepWaiting,
       FinishHealthy, UndoRollout, GiveUp, Passed, Leads
  <2> QED
    BY <1>4, <2>2, <2>3 DEF OneTick, Trusted
<1>6. ASSUME NEW p \in Proc, Crash(p) PROVE OutInv'
  <2>1. UNCHANGED <<status, item, applied, good, bad, pos, world, raced, quiet>>
    BY <1>6 DEF Crash, bundleVars, voteVars
  <2>2. /\ \A q \in Proc : worker'[q] = worker[q] \/ worker'[q] = "none"
        /\ \A q \in Proc : tick'[q] = tick[q] \/ tick'[q] = "idle"
        /\ \A q \in Proc : left'[q] = left[q] \/ (tick'[q] # "closing" /\ worker'[q] # "closing")
    BY <1>6 DEF Crash, BundleInv, TypeInv, WatchTypes, WorkTypes
  <2> QED
    BY <1>4, <2>1, <2>2 DEF OneTick
<1>7. CASE WindowOpens \/ WindowEnds \/ UNCHANGED vars
  <2>1. UNCHANGED <<status, item, applied, good, bad, pos, world, raced, quiet, worker, tick, left>>
    BY <1>7 DEF WindowOpens, WindowEnds, vars, bundleVars, voteVars, workVars
  <2> QED
    BY <1>4, <2>1 DEF OneTick
<1>8. CASE GoesQuiet
  <2>1. UNCHANGED <<status, item, applied, good, bad, pos, world, raced, worker, tick, left, status>>
        /\ (world.slow \/ \A p \in Proc : worker[p] = "none")
    BY <1>8 DEF GoesQuiet, voteVars, workVars
  <2>2. Trusted' => Trusted /\ \A p \in Proc : worker[p] = "none"
    BY <2>1 DEF Trusted
  <2>3. Trusted' => \A p \in Proc : tick'[p] = "over" =>
          status' \in {"pending_approval", "approved", "rejected", "expired"}
    BY <2>1, <2>2 DEF OutInv
  <2>4. Trusted' => ClosedAsRead'
    BY <2>1, <2>2, ReadingKept DEF OutInv
  <2> QED
    BY <2>1, <2>2, <2>3, <2>4, OutKept DEF OneTick
<1> QED
  BY <1>1, <1>2, <1>3, <1>5, <1>6, <1>7, <1>8, <1>9, AllSteps DEF Rests

\* What an executed bundle says of its items is true of them, and of the cluster,
\* when no worker was taken for dead.
THEOREM OutcomesAreTrue == Spec => []OutcomeIsTrue
<1>1. Init => OutInv
  BY DEF Init, Untouched, OutInv, ClosedAsRead, OneTick, Counted, Busy, Unclaimed, Executed
<1>2. BundleInv /\ OutInv => OutcomeIsTrue
  <2> SUFFICES ASSUME BundleInv, OutInv, Trusted, status \in Executed PROVE OutcomeIsTrue
    BY DEF OutcomeIsTrue
  <2>1. Truth /\ \A i \in Item : item[i] = "succeeded" => applied[i] # 0
    BY DEF OutInv
  <2>2. \A i \in Item : applied[i] <= 1 /\ applied[i] \in Nat
    BY DEF BundleInv, OnceInv, Trusted, TypeInv, WorkTypes
  <2>3. \A i \in Item : item[i] = "succeeded" => applied[i] = 1
    BY <2>1, <2>2
  <2> QED
    BY <2>1, <2>3 DEF Truth, OutcomeIsTrue
<1> QED
  BY <1>1, <1>2, OutStep, Invariance, PTL DEF Spec

---------------------------------------------------------------------------
(* A bundle is rolled out as Rollout promises.                             *)

\* The surroundings stay, and so does a late answer.
LEMMA RolloutFrame ==
    ASSUME [Next]_vars
    PROVE  UNCHANGED world /\ (raced => raced')
<1>1. CASE Submit \/ \E u \in Voter : Answer(u)
  <2>1. AnswerFrame
    BY <1>1, Zenon DEF Submit, Answer, Check, CommitVote, Conclude, voteVars
  <2>2. ASSUME Submit PROVE raced => raced'
    BY <2>2 DEF Submit, voteVars
  <2>3. ASSUME NEW u \in Voter, Answer(u) PROVE raced => raced'
    <3>1. CASE Conclude(u)
      BY <3>1, Zenon DEF Conclude
    <3> QED
      BY <2>3, <3>1 DEF Answer, Check, CommitVote
  <2> QED
    BY <1>1, <2>1, <2>2, <2>3 DEF AnswerFrame
<1>2. ASSUME NEW p \in Proc, Ticks(p)
      PROVE  UNCHANGED world /\ (raced => raced')
  <2>1. TickFrame
    BY <1>2, Zenon DEF Ticks, Look, FindOver, FindDue, FindStale, MarkExpired, Claim, Taken
  <2> QED
    BY <2>1 DEF TickFrame, voteVars
<1>3. ASSUME NEW p \in Proc, Watches(p)
      PROVE  UNCHANGED world /\ (raced => raced')
  BY <1>3, WatchesFrame DEF voteVars
<1>4. ASSUME NEW p \in Proc, Steps(p) PROVE UNCHANGED world /\ (raced => raced')
  <2>1. WorkFrame
    BY <1>4, Zenon DEF Steps, Begin, StartItem, Refuse, Apply, Record, Close, StartWatches
  <2> QED
    BY <2>1 DEF WorkFrame, voteVars
<1>5. ASSUME NEW p \in Proc, Closes(p) PROVE UNCHANGED world /\ (raced => raced')
  BY <1>5, ClosesFrame DEF ClosingFrame, voteVars
<1>6. ASSUME NEW p \in Proc, Crash(p) PROVE UNCHANGED world /\ (raced => raced')
  BY <1>6 DEF Crash, voteVars
<1>7. CASE Rests
  BY <1>7 DEF Rests, WindowOpens, WindowEnds, GoesQuiet, vars, voteVars
<1> QED
  BY <1>1, <1>2, <1>3, <1>4, <1>5, <1>6, <1>7, AllSteps

\* A bundle that is closed is not opened again, by anything but a late answer.
LEMMA OverStays ==
    ASSUME [Next]_vars, status \in Over, ~raced'
    PROVE  status' \in Over
<1> USE DEF Over, Executed
<1>1. CASE Submit
  BY <1>1 DEF Submit
<1>2. ASSUME NEW u \in Voter, Answer(u) PROVE status' \in Over
  BY <1>2 DEF Answer, Check, CommitVote, Conclude
<1>3. ASSUME NEW p \in Proc, Ticks(p) PROVE status' \in Over
  BY <1>3 DEF Ticks, Look, FindOver, FindDue, FindStale, MarkExpired, Claim, MayClaim, Taken
<1>4. ASSUME NEW p \in Proc, Watches(p) PROVE status' \in Over
  BY <1>4, WatchesFrame DEF bundleVars
<1>5. ASSUME NEW p \in Proc, Steps(p) PROVE status' \in Over
  <2>1. UNCHANGED status \/ status' = Final(p) \/ status = "deploying"
    BY <1>5, Zenon DEF Steps, Begin, StartItem, Refuse, Apply, Record, Close, StartWatches
  <2> QED
    BY <2>1 DEF Final
<1>6. ASSUME NEW p \in Proc, Closes(p) PROVE status' \in Over
  BY <1>6 DEF Closes, ReadStale, CloseStale, Raises, CloseRaised, ReadLeft, CloseLeft
<1>7. ASSUME NEW p \in Proc, Crash(p) PROVE status' \in Over
  BY <1>7 DEF Crash, bundleVars
<1>8. CASE Rests
  BY <1>8 DEF Rests, WindowOpens, WindowEnds, GoesQuiet, vars, bundleVars
<1> QED
  BY <1>1, <1>2, <1>3, <1>4, <1>5, <1>6, <1>7, <1>8, AllSteps

\* A step that applies nothing has nothing applied behind what it knows to have
\* failed, and opens nothing that is closed.
LEMMA Settles ==
    ASSUME BundleInv, BundleInv', [Next]_vars, UNCHANGED applied
    PROVE  Promise!Settled
<1>1. Spoiled' \in SUBSET Item /\ ForGood' \in BOOLEAN
  BY DEF Spoiled, ForGood, Item
<1>2. raced \in BOOLEAN /\ raced' \in BOOLEAN
  BY DEF BundleInv, TypeInv, VoteTypes
<1>3. raced' \in {raced, TRUE}
  BY <1>2, RolloutFrame
<1>4. ASSUME ~raced' PROVE ForGood => ForGood'
  BY <1>4, OverStays, RolloutFrame DEF ForGood, Trusted
<1>5. ASSUME ~raced', NEW i \in Spoiled', NEW j \in Item, i < j PROVE applied[j] = 0
  <2>1. i \in Item /\ world'.stop /\ Ends(i)'
    BY <1>5 DEF Spoiled, Ends
  <2> QED
    BY <1>5, <2>1 DEF BundleInv, StopInv
<1> QED
  BY <1>1, <1>3, <1>4, <1>5, Zenon DEF Promise!Settled

\* If it takes no approval and opens no window either, that is all it does.
LEMMA OnlySettles ==
    ASSUME BundleInv, BundleInv', [Next]_vars, UNCHANGED <<applied, consent>>, Begun' = Begun
    PROVE  Promise!Next
<1>1. UNCHANGED world.unnamed
  BY RolloutFrame
<1>2. Promise!Settle
  BY <1>1, Settles, Zenon DEF Promise!Settle
<1> QED
  BY <1>2, Zenon DEF Promise!Next

\* An answer is an approval, or settles the bundle, or both.
LEMMA AnswerRolls ==
    ASSUME BundleInv, BundleInv', [Next]_vars, Submit \/ \E u \in Voter : Answer(u)
    PROVE  Promise!Next
<1>1. UNCHANGED applied /\ Begun' = Begun
  BY DEF Submit, Answer, Check, CommitVote, Conclude, AnswerFrame, workVars, Begun
<1>2. CASE UNCHANGED consent
  BY <1>1, <1>2, OnlySettles
<1>3. ASSUME NEW u \in Voter, Answer(u), ~UNCHANGED consent PROVE Promise!Next
  <2>1. consent' = consent \cup {u}
    BY <1>3, Zenon DEF Answer, Check, CommitVote, Conclude
  <2>2. UNCHANGED world.unnamed
    BY RolloutFrame
  <2>3. Promise!Approve(u)
    BY <1>1, <2>1, <2>2, Settles, Zenon DEF Promise!Approve
  <2> QED
    BY <2>3, Zenon DEF Promise!Next
<1>4. Submit => UNCHANGED consent
  BY DEF Submit, voteVars
<1> QED
  BY <1>2, <1>3, <1>4

\* An item is applied as promised, whatever else goes on.
LEMMA ApplyRolls ==
    ASSUME BundleInv, OutInv, NEW p \in Proc, Apply(p)
    PROVE  Promise!Apply(pos[p]) /\ pos[p] \in Item
<1>1. worker[p] = "apply" /\ applied' = [applied EXCEPT ![pos[p]] = @ + 1]
      /\ UNCHANGED <<status, window, item, world, consent, raced, overruled>>
  BY DEF Apply, WorkFrame, voteVars
<1>2. pos[p] \in Item /\ Item \subseteq Nat
  BY <1>1 DEF BundleInv, TypeInv, WorkTypes, Item
<1>3. Consented
  BY <1>1 DEF BundleInv, ConsentInv
<1>4. Begun /\ Promise!Enough
  BY <1>3, Zenon DEF Consented, Agreed, Begun, Promise!Enough, Promise!Cardinality, Cardinality
<1>5. ASSUME ~raced PROVE ~ForGood
  BY <1>1, <1>5 DEF OutInv, ForGood, Counted, Busy, Over, Executed
<1>6. ASSUME ~raced, NEW j \in Item, j >= pos[p] PROVE applied[j] = 0
  <2>1. j \in Nat /\ pos[p] \in Nat
    BY <1>2, <1>6
  <2>2. j > pos[p] \/ j = pos[p]
    BY <1>6, <2>1
  <2>3. worker[p] \in Busy /\ worker[p] # "record"
    BY <1>1 DEF Busy
  <2> QED
    BY <1>6, <2>2, <2>3 DEF BundleInv, OnceInv
<1>7. ASSUME ~raced, NEW j \in Spoiled PROVE j >= pos[p]
  <2>1. j \in Item /\ world.stop /\ item[j] = "failed" /\ j \notin overruled
    BY <1>7 DEF Spoiled
  <2>2. j \in Nat /\ pos[p] \in Nat
    BY <1>2, <2>1
  <2>3. bad[p] = {} /\ (j < pos[p] => j \in bad[p])
    BY <1>1, <1>7, <2>1 DEF BundleInv, StopInv, Busy
  <2> QED
    BY <2>2, <2>3
<1>8. UNCHANGED <<Begun, Spoiled, ForGood>>
  BY <1>1 DEF Begun, Spoiled, ForGood, Trusted
<1>9. UNCHANGED world.unnamed
  BY <1>1
<1> QED
  BY <1>1, <1>2, <1>4, <1>5, <1>6, <1>7, <1>8, <1>9, Zenon DEF Promise!Apply

\* A worker applies an item or settles what it knows.
LEMMA WorkRolls ==
    ASSUME BundleInv, BundleInv', OutInv, [Next]_vars, NEW p \in Proc, Steps(p)
    PROVE  Promise!Next
<1>1. CASE Apply(p)
  BY <1>1, ApplyRolls, Zenon DEF Promise!Next
<1>2. CASE ~Apply(p)
  <2>1. UNCHANGED <<applied, window, consent>>
    BY <1>2 DEF Steps, Begin, StartItem, Refuse, Record, Close, StartWatches, WorkFrame, voteVars
  <2> QED
    BY <2>1, OnlySettles DEF Begun
<1> QED
  BY <1>1, <1>2

\* Every step is one that was promised.
LEMMA StepRolls ==
    BundleInv /\ BundleInv' /\ OutInv /\ [Next]_vars => [Promise!Next]_(Promise!vars)
<1> SUFFICES ASSUME BundleInv, BundleInv', OutInv, [Next]_vars PROVE Promise!Next
  OBVIOUS
<1>1. CASE Submit \/ \E u \in Voter : Answer(u)
  BY <1>1, AnswerRolls
<1>2. ASSUME NEW p \in Proc, Steps(p) PROVE Promise!Next
  BY <1>2, WorkRolls
<1>3. ASSUME UNCHANGED <<applied, consent, window>> PROVE Promise!Next
  BY <1>3, OnlySettles DEF Begun
<1>4. ASSUME NEW p \in Proc, Ticks(p) PROVE Promise!Next
  BY <1>3, <1>4 DEF Ticks, Look, FindOver, FindDue, FindStale, MarkExpired, Claim, Taken, TickFrame, voteVars
<1>5. ASSUME NEW p \in Proc, Watches(p) PROVE Promise!Next
  BY <1>3, <1>5, WatchesFrame DEF bundleVars, voteVars, workVars
<1>6. ASSUME NEW p \in Proc, Closes(p) PROVE Promise!Next
  BY <1>3, <1>6, ClosesFrame DEF ClosingFrame, voteVars
<1>7. ASSUME NEW p \in Proc, Crash(p) PROVE Promise!Next
  BY <1>3, <1>7 DEF Crash, bundleVars, voteVars
<1>8. CASE WindowOpens
  <2>1. window = "before" /\ window' = "open"
        /\ UNCHANGED <<status, item, applied, consent, raced, world, overruled>>
    BY <1>8 DEF WindowOpens, voteVars, workVars
  <2>2. UNCHANGED <<Spoiled, ForGood>> /\ Begun' = TRUE
    BY <2>1 DEF Spoiled, ForGood, Trusted, Begun
  <2>3. UNCHANGED world.unnamed
    BY <2>1
  <2>4. Promise!Open
    BY <2>1, <2>2, <2>3, Zenon DEF Promise!Open
  <2> QED
    BY <2>4, Zenon DEF Promise!Next
<1>9. CASE WindowEnds
  <2>1. Begun' = Begun /\ UNCHANGED <<applied, consent>>
    BY <1>9 DEF WindowEnds, Begun, voteVars, workVars
  <2> QED
    BY <2>1, OnlySettles
<1>10. CASE GoesQuiet \/ UNCHANGED vars
  BY <1>3, <1>10 DEF GoesQuiet, vars, bundleVars, voteVars, workVars
<1> QED
  BY <1>1, <1>2, <1>4, <1>5, <1>6, <1>7, <1>8, <1>9, <1>10, AllSteps DEF Rests

\* A bundle is rolled out as promised, by any approvers, processes and workers:
\* by consent, in order, each item once, none behind a failure that stops it and
\* none once it is closed, whatever crashes, raises or is recovered.
THEOREM RolloutKept == Spec => ImplementsRollout
<1>1. Init => OutInv /\ Promise!Init
  <2> SUFFICES ASSUME Init PROVE OutInv /\ Promise!Init
    OBVIOUS
  <2>1. OutInv
    BY DEF Init, Untouched, OutInv, ClosedAsRead, OneTick, Counted, Busy, Unclaimed, Executed
  <2>2. /\ consent = {} /\ Spoiled = {} /\ Begun = FALSE /\ ForGood = FALSE /\ raced = FALSE
        /\ applied = [i \in Item |-> 0]
    BY DEF Init, Untouched, Spoiled, Begun, ForGood, Over, Executed
  <2>3. world.unnamed \in SUBSET Voter
    BY DEF Init, World
  <2> QED
    BY <2>1, <2>2, <2>3, Zenon DEF Promise!Init
<1> QED
  BY <1>1, OutStep, StepRolls, Invariance, PTL DEF Spec, ImplementsRollout, Promise!Spec
=============================================================================
