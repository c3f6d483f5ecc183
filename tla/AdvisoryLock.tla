--------------------------- MODULE AdvisoryLock ---------------------------
(***************************************************************************)
(* The PostgreSQL session-level advisory lock of                           *)
(* services/leader_election.py: one AdvisoryLock object per process and    *)
(* lock name, over one dedicated connection, and the lock table of the     *)
(* server.  A call of try_acquire or release is one step here: it holds    *)
(* the object's own mutex from its first to its last round trip, and the   *)
(* environment's actions may fall on either side of it.                    *)
(***************************************************************************)
CONSTANTS Proc,     \* the backend processes (gunicorn workers, replicas)
          NoProc,   \* no process, no connection, nobody holds the lock
          Orphan    \* a session whose client is gone, not yet noticed by Postgres

ASSUME SessionNames == /\ NoProc \notin Proc
                       /\ Orphan \notin Proc
                       /\ NoProc # Orphan

VARIABLES conn,    \* conn[p]: the process that opened the connection p's object keeps
          held,    \* held[p]: the object's _held flag
          live,    \* the processes whose own session the server still serves
          owner    \* who the server's lock table says holds the lock

lockVars == <<conn, held, live, owner>>

LockTypeOK ==
    /\ conn \in [Proc -> Proc \cup {NoProc}]
    /\ held \in [Proc -> BOOLEAN]
    /\ live \in SUBSET Proc
    /\ owner \in Proc \cup {NoProc, Orphan}

LockInit ==
    /\ conn = [p \in Proc |-> NoProc]
    /\ held = [p \in Proc |-> FALSE]
    /\ live = {}
    /\ owner = NoProc

---------------------------------------------------------------------------
\* Mutant of Believes: the pid is not compared, a forked copy counts.
BelievesCopied(p) == held[p]

\* What p's object believes once _forget_if_forked has run: a flag that came
\* through a fork together with the parent's connection does not count.
Believes(p) == held[p] /\ conn[p] = p

\* The pg_locks query, asked over the connection the object keeps.
StillGranted(p) == conn[p] \in live /\ owner = conn[p]

VerifiedHeld(p) == Believes(p) /\ StillGranted(p)

\* Who holds the lock once session s has ended.
AfterEnd(s) == IF owner = s THEN NoProc ELSE owner

---------------------------------------------------------------------------
\* try_acquire, the object holds the lock and Postgres agrees: True.
ReVerify(p) ==
    /\ VerifiedHeld(p)
    /\ UNCHANGED lockVars

\* Mutant of TakeLock: the answer of pg_try_advisory_lock is not looked at.
TakeLockUnasked(p) ==
    /\ ~VerifiedHeld(p)
    /\ conn' = [conn EXCEPT ![p] = p]
    /\ held' = [held EXCEPT ![p] = TRUE]
    /\ live' = live \cup {p}
    /\ owner' = p

\* try_acquire, pg_try_advisory_lock answers.  The object keeps its idle
\* connection if that still works; otherwise (none yet, the parent's, or a
\* lost lock whose connection was just dropped) it opens one.  The answer is
\* held'[p].
TakeLock(p) ==
    LET idle == conn[p] = p /\ ~held[p]
        seen == IF conn[p] = p /\ held[p] THEN AfterEnd(p) ELSE owner
        got  == seen \in {NoProc, p}
    IN  /\ ~VerifiedHeld(p)
        /\ idle => p \in live
        /\ conn' = [conn EXCEPT ![p] = p]
        /\ held' = [held EXCEPT ![p] = got]
        /\ live' = live \cup {p}
        /\ owner' = IF got THEN p ELSE seen

\* try_acquire, the database cannot be asked: "not leader" is the safe
\* answer, and the connection is dropped.
CheckFails(p) ==
    /\ ~VerifiedHeld(p)
    /\ conn' = [conn EXCEPT ![p] = NoProc]
    /\ held' = [held EXCEPT ![p] = FALSE]
    /\ live' = IF conn[p] = p THEN live \ {p} ELSE live
    /\ owner' = IF conn[p] = p THEN AfterEnd(p) ELSE owner

\* Mutant of Release: the flag goes, the unlock is never sent.
ReleaseFlagOnly(p) ==
    /\ held' = [held EXCEPT ![p] = FALSE]
    /\ UNCHANGED <<conn, live, owner>>

\* release: nothing when the object holds nothing (an inherited connection is
\* forgotten on the way), an unlock over a working session, and otherwise the
\* connection is dropped.
Release(p) ==
    \/ /\ ~Believes(p)
       /\ conn' = [conn EXCEPT ![p] = IF @ = p THEN p ELSE NoProc]
       /\ held' = [held EXCEPT ![p] = FALSE]
       /\ UNCHANGED <<live, owner>>
    \/ /\ Believes(p)
       /\ p \in live
       /\ owner' = AfterEnd(p)
       /\ held' = [held EXCEPT ![p] = FALSE]
       /\ UNCHANGED <<conn, live>>
    \/ /\ Believes(p)
       /\ p \notin live
       /\ conn' = [conn EXCEPT ![p] = NoProc]
       /\ held' = [held EXCEPT ![p] = FALSE]
       /\ UNCHANGED <<live, owner>>

---------------------------------------------------------------------------
(* The environment: the server, the network and the process table.         *)

\* Session p ends on the server.  Postgres frees its lock at once when it
\* sees the socket close, and only after the TCP keepalives when it does not.
SessionEnds(p) ==
    /\ live' = live \ {p}
    /\ \/ owner' = AfterEnd(p)
       \/ /\ owner = p
          /\ owner' = Orphan

SessionDrops(p) ==
    /\ p \in live
    /\ SessionEnds(p)
    /\ UNCHANGED <<conn, held>>

KeepaliveExpires ==
    /\ owner = Orphan
    /\ owner' = NoProc
    /\ UNCHANGED <<conn, held, live>>

ProcessGone(p) ==
    /\ conn' = [conn EXCEPT ![p] = NoProc]
    /\ held' = [held EXCEPT ![p] = FALSE]
    /\ SessionEnds(p)

\* fork(): the child q gets a copy of m's object, connection included.
Inherit(m, q) ==
    /\ conn' = [conn EXCEPT ![q] = conn[m]]
    /\ held' = [held EXCEPT ![q] = held[m]]
    /\ UNCHANGED <<live, owner>>
===========================================================================
