---------------------------- MODULE ChangeBundle ----------------------------
(***************************************************************************)
(* One change bundle, from its submission to its end: approvers vote on it *)
(* (services/change_bundle_service.py), a scheduler's tick claims it in    *)
(* its window and a worker thread applies its items in order; a bundle     *)
(* left behind is closed by its age, and what was applied is watched, and  *)
(* rolled back if it does not come up (services/change_bundle_executor.py).*)
(*                                                                         *)
(* One commit is one step.  No row is locked: votes, ticks and workers     *)
(* write over what others committed since they looked.                     *)
(***************************************************************************)
EXTENDS Naturals, FiniteSets

CONSTANTS
    Voter,         \* who may answer: recipients of the request, and managers
    Manager,       \* those who may reject in the application
    Recipients,    \* total_recipients, or Required if that is more
    Required,      \* required_approvals
    Items,         \* how many items the bundle has, applied in order
    Watched,       \* those that apply a Deployment no other part watches
    Proc,          \* server processes
    Worlds,        \* the surroundings considered, see world
    MaxFaults      \* bound: processes that die, workers that raise

Item == 1..Items
World == [stop: BOOLEAN, overlap: BOOLEAN, slow: BOOLEAN, unnamed: SUBSET Manager]

ASSUME VoterAssumption == IsFiniteSet(Voter) /\ Manager \subseteq Voter
ASSUME CountAssumption ==
    /\ Recipients \in Nat /\ Required \in Nat /\ Required <= Recipients
    /\ Items \in Nat \ {0} /\ Watched \subseteq Item /\ MaxFaults \in Nat
ASSUME WorldAssumption == Worlds \subseteq World

VARIABLES
    status,    \* the bundle's ("scheduled" is treated as "approved" is)
    window,    \* the requested window: "before", "open", "over"
    vote,      \* each voter's row, or "none"
    asks,      \* where each voter's request is: "idle", "checked", "voted", or
               \* "late", which has found the window over
    says,      \* and what it says; "reject" is a manager's in-app decline
    item,      \* the items' statuses
    quiet,     \* updated_at is older than CHANGE_BUNDLE_STALE_MINUTES
    watch,     \* each item's rollout watch, if there is one
    tick,      \* a process's tick: "idle", has found the bundle "due", "over" or
               \* "stale", is "closing" it, has read the "watches", or has just
               \* "undone" a rollout
    seen,      \* the watches it read; then the one it undid
    worker,    \* its worker: "none", the step of _run_claimed it is at, or
               \* "closing" the bundle after an exception
    left,      \* the items as whoever is "closing" in a process read them
    pos,       \* the item its worker is at
    good, bad, \* the items its worker counts as succeeded and failed
    world,     \* the surroundings, which do not change:
               \*   stop: stop_on_failure
               \*   overlap: ticks of two processes may overlap (a lost session)
               \*   slow: an item may take longer than the stale limit
               \*   unnamed: the managers whose account has no email address
    applied,   \* history: how often each item was applied to the cluster
    undone,    \* history: how often its rollout was undone
    torn,      \* history: a process died, or raised, between undoing and saying so
    overruled, \* history: items called failed over what was recorded meanwhile
    consent,   \* history: who approved
    refused,   \* history: a manager rejected it while it was pending
    raced,     \* history: an answer was written over a status it had not seen
    faults

bundleVars == <<status, window, item, quiet>>
voteVars == <<vote, asks, says, consent, refused, raced>>
workVars == <<worker, pos, good, bad, applied, left, overruled>>
watchVars == <<watch, seen, undone, torn>>
vars == <<bundleVars, voteVars, tick, workVars, watchVars, world, faults>>

Executed == {"completed", "failed", "partially_failed"}
Over == Executed \cup {"rejected", "expired"}

ItemStatus == {"pending", "applying", "succeeded", "failed", "skipped"}
Untouched == [i \in Item |-> "pending"]

TypeOK ==
    /\ status \in {"draft", "pending_approval", "approved", "deploying"} \cup Over
    /\ window \in {"before", "open", "over"}
    /\ vote \in [Voter -> {"none", "approve", "decline"}]
    /\ asks \in [Voter -> {"idle", "checked", "voted", "late"}]
    /\ says \in [Voter -> {"approve", "decline", "reject"}]
    /\ item \in [Item -> ItemStatus] /\ quiet \in BOOLEAN
    /\ tick \in [Proc -> {"idle", "due", "over", "stale", "closing", "watches", "undone"}]
    /\ watch \in [Item -> {"none", "watching", "healthy", "failed"}]
    /\ seen \in [Proc -> SUBSET Item]
    /\ \A p \in Proc : tick[p] \in {"watches", "undone"} <=> seen[p] # {}
    /\ undone \in [Item -> Nat] /\ torn \in BOOLEAN
    /\ worker \in [Proc -> {"none", "begin", "next", "apply", "record", "watch", "closing"}]
    /\ left \in [Proc -> [Item -> ItemStatus]] /\ overruled \in SUBSET Item
    /\ pos \in [Proc -> 1..Items + 1]
    /\ good \in [Proc -> SUBSET Item] /\ bad \in [Proc -> SUBSET Item]
    /\ world \in World
    /\ applied \in [Item -> Nat]
    /\ consent \in SUBSET Voter
    /\ refused \in BOOLEAN /\ raced \in BOOLEAN
    /\ faults \in 0..MaxFaults

Init ==
    /\ status = "draft" /\ window = "before"
    /\ vote = [u \in Voter |-> "none"]
    /\ asks = [u \in Voter |-> "idle"] /\ says = [u \in Voter |-> "approve"]
    /\ item = Untouched /\ quiet = FALSE
    /\ tick = [p \in Proc |-> "idle"]
    /\ worker = [p \in Proc |-> "none"] /\ pos = [p \in Proc |-> 1]
    /\ good = [p \in Proc |-> {}] /\ bad = [p \in Proc |-> {}]
    /\ left = [p \in Proc |-> Untouched] /\ overruled = {}
    /\ world \in Worlds
    /\ watch = [i \in Item |-> "none"] /\ seen = [p \in Proc |-> {}]
    /\ applied = [i \in Item |-> 0]
    /\ undone = [i \in Item |-> 0] /\ torn = FALSE
    /\ consent = {} /\ refused = FALSE /\ raced = FALSE /\ faults = 0

(***************************************************************************)
(* Submitting, and answering.                                              *)
(***************************************************************************)
AnswerFrame == UNCHANGED <<window, tick, workVars, watchVars, world, faults>>

Submit ==
    /\ status = "draft" /\ window = "before"
    /\ status' = IF Required = 0 THEN "approved" ELSE "pending_approval"
    /\ UNCHANGED <<item, quiet, voteVars>> /\ AnswerFrame

\* record_vote and decide_bundle read the status, and the window.  Without an
\* address, which only an answer in the application can lack, there is no vote.
Check(u, answer) ==
    /\ asks[u] = "idle" /\ status = "pending_approval"
    /\ answer = "reject" => u \in Manager
    /\ u \in world.unnamed => answer # "decline"
    /\ asks' = [asks EXCEPT ![u] = IF window = "over" /\ answer # "reject" THEN "late"
                                   ELSE IF u \in world.unnamed THEN "voted" ELSE "checked"]
    /\ says' = [says EXCEPT ![u] = answer]
    /\ UNCHANGED <<status, item, quiet, vote, consent, refused, raced>> /\ AnswerFrame

CommitVote(u) ==
    /\ asks[u] = "checked"
    /\ vote' = [vote EXCEPT ![u] = IF says[u] = "approve" THEN "approve" ELSE "decline"]
    /\ consent' = IF says[u] = "approve" THEN consent \cup {u} ELSE consent
    /\ asks' = [asks EXCEPT ![u] = "voted"]
    /\ UNCHANGED <<status, item, quiet, says, refused, raced>> /\ AnswerFrame

Tally(decision) == Cardinality({u \in Voter : vote[u] = decision})

\* Mutant of Granted: one approval is enough.
GrantedByOne == Tally("approve") >= 1
Granted == Tally("approve") >= Required

\* _evaluate_quorum, a manager's rejection, an approval without an address, or
\* an answer after the window (the items stay as they are).  The status is not
\* looked at again.
AloneApproves(u) == asks[u] = "voted" /\ u \in world.unnamed /\ says[u] = "approve"

Outcome(u) ==
    IF asks[u] = "late" THEN {"expired"}
    ELSE IF says[u] = "reject" THEN {"rejected"}
    ELSE IF AloneApproves(u) \/ Granted THEN {"approved"}
    ELSE IF Tally("decline") + Required > Recipients THEN {"rejected"} ELSE {}

Conclude(u) ==
    /\ asks[u] \in {"voted", "late"}
    /\ asks' = [asks EXCEPT ![u] = "idle"] /\ says' = [says EXCEPT ![u] = "approve"]
    /\ consent' = IF AloneApproves(u) THEN consent \cup {u} ELSE consent
    /\ \/ /\ Outcome(u) = {} /\ UNCHANGED <<status, quiet, refused, raced>>
       \/ /\ status' \in Outcome(u)
          /\ quiet' = FALSE
          /\ raced' = (raced \/ status \notin {"pending_approval", status'})
          /\ refused' = (refused \/ (says[u] = "reject" /\ status = "pending_approval"))
    /\ UNCHANGED <<item, vote>> /\ AnswerFrame

(***************************************************************************)
(* The scheduler's tick, in a process that leads.                          *)
(***************************************************************************)
TickFrame ==
    UNCHANGED <<window, voteVars, pos, good, bad, applied, left, overruled, watchVars, world, faults>>

Leads(p) == tick[p] = "idle" /\ (world.overlap \/ \A q \in Proc : tick[q] = "idle")

FindOver(p) ==
    /\ Leads(p) /\ window = "over" /\ status \in {"approved", "pending_approval"}
    /\ tick' = [tick EXCEPT ![p] = "over"]
    /\ UNCHANGED <<status, item, quiet, worker>> /\ TickFrame

Unfinished == {i \in Item : item[i] \in {"pending", "applying"}}

MarkExpired(p) ==
    /\ tick[p] = "over"
    /\ status' = "expired"
    /\ item' = [i \in Item |-> IF i \in Unfinished THEN "skipped" ELSE item[i]]
    /\ quiet' = FALSE
    /\ tick' = [tick EXCEPT ![p] = "idle"]
    /\ UNCHANGED worker /\ TickFrame

\* process_due_bundles and _claim read the status and the window.
FindDue(p) ==
    /\ Leads(p) /\ window = "open" /\ status = "approved"
    /\ worker[p] = "none"
    /\ tick' = [tick EXCEPT ![p] = "due"]
    /\ UNCHANGED <<status, item, quiet, worker>> /\ TickFrame

\* The conditional UPDATE.  Its mutant has no condition.
ClaimAnyway == status # "draft"
MayClaim == status = "approved"

Claim(p) ==
    /\ tick[p] = "due" /\ MayClaim
    /\ status' = "deploying" /\ quiet' = FALSE
    /\ worker' = [worker EXCEPT ![p] = "begin"]
    /\ tick' = [tick EXCEPT ![p] = "idle"]
    /\ UNCHANGED item /\ TickFrame

Taken(p) ==
    /\ tick[p] = "due" /\ ~MayClaim
    /\ tick' = [tick EXCEPT ![p] = "idle"]
    /\ UNCHANGED <<status, item, quiet, worker>> /\ TickFrame

\* _recover_stale looks for a bundle nobody has advanced.  Mutant: for one with
\* an item at work.
FindStaleApplying(p) ==
    /\ Leads(p) /\ status = "deploying" /\ quiet /\ worker[p] = "none"
    /\ \E i \in Item : item[i] = "applying"
    /\ tick' = [tick EXCEPT ![p] = "stale"]
    /\ UNCHANGED <<status, item, quiet, worker>> /\ TickFrame

FindStale(p) ==
    /\ Leads(p) /\ status = "deploying" /\ quiet /\ worker[p] = "none"
    /\ tick' = [tick EXCEPT ![p] = "stale"]
    /\ UNCHANGED <<status, item, quiet, worker>> /\ TickFrame

(***************************************************************************)
(* _abandon, for a stale bundle and after an exception: it reads the       *)
(* bundle with its items, then commits over whatever they are by then.     *)
(***************************************************************************)
ClosingFrame == UNCHANGED <<window, voteVars, pos, good, bad, applied, watchVars, world>>

ReadLeft(p) ==
    /\ left' = [left EXCEPT ![p] = item]
    /\ UNCHANGED <<status, item, quiet, overruled>>

\* Unfinished items are closed, never applied again.
CloseLeft(p) ==
    /\ item' = [i \in Item |-> IF left[p][i] = "applying" THEN "failed"
                              ELSE IF left[p][i] = "pending" THEN "skipped" ELSE item[i]]
    /\ status' = IF \E i \in Item : left[p][i] = "succeeded" THEN "partially_failed" ELSE "failed"
    /\ quiet' = FALSE
    /\ overruled' = overruled \cup {i \in Item : left[p][i] = "applying" /\ item[i] \notin {"applying", "failed"}}
    /\ left' = [left EXCEPT ![p] = Untouched]

ReadStale(p) ==
    /\ tick[p] = "stale"
    /\ \/ /\ status = "deploying" /\ ReadLeft(p)
          /\ tick' = [tick EXCEPT ![p] = "closing"]
       \/ /\ status # "deploying" /\ UNCHANGED <<status, item, quiet, left, overruled>>
          /\ tick' = [tick EXCEPT ![p] = "idle"]
    /\ UNCHANGED <<worker, faults>> /\ ClosingFrame

CloseStale(p) ==
    /\ tick[p] = "closing" /\ CloseLeft(p)
    /\ tick' = [tick EXCEPT ![p] = "idle"]
    /\ UNCHANGED <<worker, faults>> /\ ClosingFrame

\* An exception nobody expected: _run_in_app rolls back and closes the bundle,
\* or leaves it if closing it is what raised.
Raises(p) ==
    /\ worker[p] # "none" /\ faults < MaxFaults /\ faults' = faults + 1
    /\ \/ /\ status = "deploying" /\ worker[p] # "closing" /\ ReadLeft(p)
          /\ worker' = [worker EXCEPT ![p] = "closing"]
       \/ /\ status # "deploying" \/ worker[p] = "closing"
          /\ UNCHANGED <<status, item, quiet, overruled>>
          /\ left' = [left EXCEPT ![p] = Untouched]
          /\ worker' = [worker EXCEPT ![p] = "none"]
    /\ UNCHANGED tick /\ ClosingFrame

CloseRaised(p) ==
    /\ worker[p] = "closing" /\ CloseLeft(p)
    /\ worker' = [worker EXCEPT ![p] = "none"]
    /\ UNCHANGED <<tick, faults>> /\ ClosingFrame

(***************************************************************************)
(* watch_bundle_rollouts, on the same tick: the watches are read once,     *)
(* then each is closed when its pods are up, or, after its time, when its  *)
(* rollout was undone (or was not to be, or could not be).                 *)
(***************************************************************************)
WatchFrame == UNCHANGED <<bundleVars, voteVars, workVars, world, faults>>

ReadWatches(p) ==
    /\ Leads(p)
    /\ \E rows \in {{i \in Item : watch[i] = "watching"}} :
        rows # {} /\ seen' = [seen EXCEPT ![p] = rows]
    /\ tick' = [tick EXCEPT ![p] = "watches"]
    /\ UNCHANGED <<watch, undone, torn>> /\ WatchFrame

\* Mutant of Passed: the pass does not end.
PassedOn(p, rest) ==
    /\ seen' = [seen EXCEPT ![p] = rest]
    /\ UNCHANGED tick

Passed(p, rest) ==
    /\ seen' = [seen EXCEPT ![p] = rest]
    /\ tick' = [tick EXCEPT ![p] = IF rest = {} THEN "idle" ELSE "watches"]

FinishHealthy(p, i) ==
    /\ tick[p] = "watches" /\ i \in seen[p]
    /\ watch' = [watch EXCEPT ![i] = "healthy"]
    /\ Passed(p, seen[p] \ {i})
    /\ UNCHANGED <<undone, torn>> /\ WatchFrame

KeepWaiting(p, i) ==
    /\ tick[p] = "watches" /\ i \in seen[p]
    /\ Passed(p, seen[p] \ {i})
    /\ UNCHANGED <<watch, undone, torn>> /\ WatchFrame

\* The rest of the pass is left for the next one.
UndoRollout(p, i) ==
    /\ tick[p] = "watches" /\ i \in seen[p]
    /\ undone' = [undone EXCEPT ![i] = @ + 1]
    /\ tick' = [tick EXCEPT ![p] = "undone"]
    /\ seen' = [seen EXCEPT ![p] = {i}]
    /\ UNCHANGED <<watch, torn>> /\ WatchFrame

\* Mutant of Closed: the watch of an undone rollout is not closed.
StillWatched(p) == watch
Closed(p) == [i \in Item |-> IF i \in seen[p] THEN "failed" ELSE watch[i]]

FinishFailed(p) ==
    /\ tick[p] = "undone"
    /\ watch' = Closed(p)
    /\ Passed(p, {})
    /\ UNCHANGED <<undone, torn>> /\ WatchFrame

\* What follows the undo raises: it is rolled back, and the next tick retries.
UndoFails(p) ==
    /\ tick[p] = "undone" /\ faults < MaxFaults /\ faults' = faults + 1
    /\ torn' = TRUE
    /\ Passed(p, {})
    /\ UNCHANGED <<watch, undone, bundleVars, voteVars, workVars, world>>

GiveUp(p, i) ==
    /\ tick[p] = "watches" /\ i \in seen[p]
    /\ watch' = [watch EXCEPT ![i] = "failed"]
    /\ Passed(p, seen[p] \ {i})
    /\ UNCHANGED <<undone, torn>> /\ WatchFrame

(***************************************************************************)
(* The worker thread: _run_claimed.  What it does to the cluster and what  *)
(* it commits about it are two steps.                                      *)
(***************************************************************************)
WorkFrame == UNCHANGED <<window, voteVars, tick, left, overruled, seen, undone, torn, world>>

Begin(p) ==
    /\ worker[p] = "begin"
    /\ \/ /\ status = "deploying"
          /\ worker' = [worker EXCEPT ![p] = "next"]
          /\ quiet' = FALSE
       \/ /\ status # "deploying"
          /\ worker' = [worker EXCEPT ![p] = "none"]
          /\ UNCHANGED quiet
    /\ pos' = [pos EXCEPT ![p] = 1]
    /\ good' = [good EXCEPT ![p] = {}] /\ bad' = [bad EXCEPT ![p] = {}]
    /\ UNCHANGED <<status, item, applied, watch, faults>> /\ WorkFrame

\* Mutant of Stopped: stop_on_failure is not looked at.
NeverStopped(p) == pos[p] > Items + 1
Stopped(p) == world.stop /\ bad[p] # {}

StartItem(p) ==
    /\ worker[p] = "next" /\ pos[p] \in Item /\ ~Stopped(p)
    /\ item' = [item EXCEPT ![pos[p]] = "applying"]
    /\ quiet' = FALSE
    /\ worker' = [worker EXCEPT ![p] = "apply"]
    /\ UNCHANGED <<status, pos, good, bad, applied, watch, faults>> /\ WorkFrame

\* The item's outcome is committed and the worker goes on to the next.
Recorded(p, how) ==
    /\ item' = [item EXCEPT ![pos[p]] = how]
    /\ IF how = "succeeded" THEN good' = [good EXCEPT ![p] = @ \cup {pos[p]}] /\ UNCHANGED bad
       ELSE bad' = [bad EXCEPT ![p] = @ \cup {pos[p]}] /\ UNCHANGED good
    /\ pos' = [pos EXCEPT ![p] = @ + 1]
    /\ worker' = [worker EXCEPT ![p] = "next"]

\* _revalidate finds that it may not be applied any more.
Refuse(p) ==
    /\ worker[p] = "apply"
    /\ Recorded(p, "failed")
    /\ UNCHANGED <<status, quiet, applied, watch, faults>> /\ WorkFrame

Apply(p) ==
    /\ worker[p] = "apply"
    /\ applied' = [applied EXCEPT ![pos[p]] = @ + 1]
    /\ worker' = [worker EXCEPT ![p] = "record"]
    /\ UNCHANGED <<status, item, quiet, pos, good, bad, watch, faults>> /\ WorkFrame

Record(p) ==
    /\ worker[p] = "record"
    /\ \E how \in {"succeeded", "failed"} : Recorded(p, how)
    /\ UNCHANGED <<status, quiet, applied, watch, faults>> /\ WorkFrame

\* Mutant of Final: any success will do.
FinalOfSome(p) == IF good[p] # {} THEN "completed" ELSE "failed"
Final(p) == IF bad[p] = {} THEN "completed"
            ELSE IF good[p] = {} THEN "failed" ELSE "partially_failed"

Close(p) ==
    /\ worker[p] = "next" /\ (pos[p] \notin Item \/ Stopped(p))
    /\ status' = Final(p)
    /\ item' = [i \in Item |-> IF i >= pos[p] THEN "skipped" ELSE item[i]]
    /\ quiet' = FALSE
    /\ worker' = [worker EXCEPT ![p] = "watch"]
    /\ UNCHANGED <<pos, good, bad, applied, watch, faults>> /\ WorkFrame

\* _start_rollout_watches, which may fail without disturbing anything.
StartWatches(p) ==
    /\ worker[p] = "watch"
    /\ worker' = [worker EXCEPT ![p] = "none"]
    /\ \/ watch' = [i \in Item |-> IF i \in Watched /\ item[i] = "succeeded" THEN "watching" ELSE watch[i]]
       \/ UNCHANGED watch
    /\ UNCHANGED <<status, item, quiet, pos, good, bad, applied, faults>> /\ WorkFrame

Crash(p) ==
    /\ faults < MaxFaults /\ faults' = faults + 1
    /\ worker' = [worker EXCEPT ![p] = "none"]
    /\ tick' = [tick EXCEPT ![p] = "idle"]
    /\ seen' = [seen EXCEPT ![p] = {}]
    /\ torn' = (torn \/ tick[p] = "undone")
    /\ left' = [left EXCEPT ![p] = Untouched]
    /\ UNCHANGED <<bundleVars, voteVars, pos, good, bad, applied, overruled, watch, undone, world>>

(***************************************************************************)
(* Time.                                                                   *)
(***************************************************************************)
WindowOpens ==
    /\ window = "before" /\ window' = "open"
    /\ UNCHANGED <<status, item, quiet, voteVars, tick, workVars, watchVars, world, faults>>

WindowEnds ==
    /\ window = "open" /\ window' = "over"
    /\ UNCHANGED <<status, item, quiet, voteVars, tick, workVars, watchVars, world, faults>>

\* "Longer than any single item can take", unless slow.
GoesQuiet ==
    /\ status = "deploying" /\ ~quiet
    /\ world.slow \/ \A p \in Proc : worker[p] = "none"
    /\ quiet' = TRUE
    /\ UNCHANGED <<status, window, item, voteVars, tick, workVars, watchVars, world, faults>>

Answer(u) ==
    \/ \E answer \in {"approve", "decline", "reject"} : Check(u, answer)
    \/ CommitVote(u) \/ Conclude(u)

Look(p) == FindOver(p) \/ FindDue(p) \/ FindStale(p)
Decide(p, i) == FinishHealthy(p, i) \/ UndoRollout(p, i) \/ GiveUp(p, i)
Act(p) ==
    \/ MarkExpired(p) \/ Claim(p) \/ Taken(p) \/ ReadStale(p) \/ CloseStale(p)
    \/ FinishFailed(p)
    \/ \E i \in Watched : Decide(p, i) \/ KeepWaiting(p, i)
Work(p) ==
    \/ Begin(p) \/ StartItem(p) \/ Refuse(p) \/ Apply(p) \/ Record(p)
    \/ Close(p) \/ StartWatches(p) \/ CloseRaised(p)

Next ==
    \/ Submit \/ \E u \in Voter : Answer(u)
    \/ \E p \in Proc : Look(p) \/ ReadWatches(p) \/ Act(p) \/ Work(p)
    \/ \E p \in Proc : Raises(p) \/ UndoFails(p) \/ Crash(p)
    \/ WindowOpens \/ WindowEnds \/ GoesQuiet

Spec == Init /\ [][Next]_vars

\* Some process leads and its tick comes round, worker threads run, windows
\* open and end, a bundle nobody works on goes quiet, and a rollout that does
\* not come up is one day past its time.
FairSpec ==
    /\ Spec
    /\ SF_vars(\E p \in Proc : Look(p)) /\ SF_vars(\E p \in Proc : ReadWatches(p))
    /\ \A i \in Watched : SF_vars(\E p \in Proc : Decide(p, i))
    /\ \A p \in Proc : WF_vars(Act(p)) /\ WF_vars(Work(p))
    /\ WF_vars(WindowOpens \/ WindowEnds) /\ WF_vars(GoesQuiet)

(***************************************************************************)
(* What it promises.                                                       *)
(***************************************************************************)

\* No item is applied to the cluster twice: not by two ticks, not after a
\* crash, not after a recovery that took a slow worker for a dead one; unless
\* an answer was written over a status it had not seen.
AppliedOnce == ~raced => \A i \in Item : applied[i] <= 1

\* Nothing reaches the cluster before its window, nor without as many approvals
\* as the bundle needs, or that of one manager who has no address to vote with.
Agreed == Cardinality(consent) >= Required \/ consent \cap world.unnamed # {}
AppliedByConsent == (\E i \in Item : applied[i] > 0) => window # "before" /\ Agreed

\* With stop_on_failure nothing is applied after an item that failed; but for
\* one that a recovery called failed over what had been recorded of it since the
\* recovery looked.
Spoiled == {i \in Item : world.stop /\ item[i] = "failed" /\ i \notin overruled}
StopsAtFailure == ~raced => \A i \in Spoiled, j \in Item : i < j => applied[j] = 0

\* What an executed bundle says of itself is true of its items, when no worker
\* was taken for dead.
Trusted == ~raced /\ ~world.slow /\ ~world.overlap
OutcomeIsTrue ==
    Trusted /\ status \in Executed =>
        /\ Unfinished = {}
        /\ status = "completed" => \A i \in Item : item[i] = "succeeded"
        /\ status = "failed" <=> \A i \in Item : item[i] # "succeeded"
        /\ \A i \in Item : item[i] = "succeeded" => applied[i] = 1

\* What a rollout watch says is true: a rollout is undone once at most, and not
\* one that is recorded as healthy; unless two processes led, or one died or
\* raised between undoing and saying so.
WatchIsTrue ==
    ~raced /\ ~world.overlap /\ ~torn =>
        \A i \in Item : undone[i] <= 1 /\ (watch[i] = "healthy" => undone[i] = 0)

\* A bundle is rolled out as Rollout promises: by consent, in order, each item
\* once, none behind a failure that stops it, and none once it is closed; but for
\* the last, also where a worker is taken for dead or two processes lead.
Begun == window # "before"
ForGood == Trusted /\ status \in Over

Promise == INSTANCE Rollout WITH
    approvals <- consent, sole <- world.unnamed, open <- Begun, spoiled <- Spoiled, over <- ForGood, excused <- raced

ImplementsRollout == Promise!Spec

\* Every watch comes to an end.
EveryWatchEnds == \A i \in Watched : watch[i] = "watching" ~> watch[i] \in {"healthy", "failed"}

\* An approved bundle comes to an end, whatever dies on the way.
EveryBundleEnds == status = "approved" ~> status \in Over

\* "one change_bundles:manage user declining stops the deploy immediately"
RejectedIsNotApplied == [][refused => applied' = applied]_vars

=============================================================================
