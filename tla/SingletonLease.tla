--------------------------- MODULE SingletonLease ---------------------------
(***************************************************************************)
(* Leased singleton background loops (internal/cluster/singleton.go over   *)
(* internal/cluster/pglease).  Every replica runs a Coordinator: it tries  *)
(* a session-scoped PostgreSQL advisory lock, advances the persistent      *)
(* epoch, runs all registered tasks for that term, renews on a ticker, and *)
(* on any trouble cancels the tasks, waits for them, and releases.  A      *)
(* guarded task opens its transactions through tenancy.InTenant /          *)
(* InProvider, which first run pglease.Guard: SELECT ... FOR SHARE on the  *)
(* lease row.                                                              *)
(*                                                                         *)
(* A session can die on the server while the replica still believes in it, *)
(* and a crashed replica's session and open transactions outlive it until  *)
(* the server notices: the two sides are separate variables.               *)
(***************************************************************************)
EXTENDS Naturals

CONSTANTS Nodes,        \* control-plane replicas
          NoNode,       \* not a replica
          Tasks,        \* registered singleton tasks
          Guarded,      \* the tasks registered with tenancy.WithTxGuard
          MaxEpoch,     \* bound on leadership terms
          MaxFaults     \* bound on crashes, lost sessions and lost replies

ASSUME LeaseConstants ==
    /\ NoNode \notin Nodes
    /\ Guarded \subseteq Tasks
    /\ MaxEpoch \in Nat
    /\ MaxFaults \in Nat

VARIABLES row,          \* the lease row: epoch, holder_id, released_at
          lock,         \* replica whose server session owns the advisory lock
          session,      \* Lease.conn as the replica's server session sees it
          pc,           \* where the replica's Coordinator.Run loop is
          token,        \* epoch of the LeaseToken the tasks of the replica's
                        \* latest term were started with, 0 before any
          running,      \* tasks of the replica that have not returned
          tx,           \* epoch a task's open guarded transaction verified, or 0
          table,        \* term under which each task's table was last written
          faults        \* faults so far

vars == <<row, lock, session, pc, token, running, tx, table, faults>>

TypeOK ==
    /\ row \in [epoch : Nat, holder : Nodes \cup {NoNode}, released : BOOLEAN]
    /\ lock \in Nodes \cup {NoNode}
    /\ session \in [Nodes -> {"none", "live", "lost"}]
    /\ pc \in [Nodes -> {"standby", "locked", "term", "ending", "down"}]
    /\ token \in [Nodes -> Nat]
    /\ running \in [Nodes -> SUBSET Tasks]
    /\ tx \in [Nodes -> [Tasks -> Nat]]
    /\ table \in [Tasks -> Nat]
    /\ faults \in Nat

\* Before any acquisition there is no row: epoch 0, nobody's, not usable.
Init ==
    /\ row = [epoch |-> 0, holder |-> NoNode, released |-> TRUE]
    /\ lock = NoNode
    /\ session = [n \in Nodes |-> "none"]
    /\ pc = [n \in Nodes |-> "standby"]
    /\ token = [n \in Nodes |-> 0]
    /\ running = [n \in Nodes |-> {}]
    /\ tx = [n \in Nodes |-> [t \in Tasks |-> 0]]
    /\ table = [t \in Tasks |-> 0]
    /\ faults = 0

\* The WHERE clause shared by Guard, Renew and Release.
RowMatches(n) == row.epoch = token[n] /\ row.holder = n /\ ~row.released

\* FOR SHARE locks on the lease row, held until their transactions end.
RowShared == \E n \in Nodes, t \in Tasks : tx[n][t] # 0

Fault == faults < MaxFaults /\ faults' = faults + 1

-----------------------------------------------------------------------------
(* Acquire *)

\* ErrAlreadyHeld, or pg_try_advisory_lock answered false: the replica stays a
\* hot standby until the next interval.
StandBy(n) ==
    /\ pc[n] = "standby"
    /\ ~(session[n] = "none" /\ lock = NoNode)
    /\ UNCHANGED vars

\* pg_try_advisory_lock answered true.
TryLock(n) ==
    /\ pc[n] = "standby"
    /\ session[n] = "none"
    /\ lock = NoNode
    /\ lock' = n
    /\ pc' = [pc EXCEPT ![n] = "locked"]
    /\ UNCHANGED <<row, session, token, running, tx, table, faults>>

\* The server took the lock but the query failed: the replica stands by, and
\* the abandoned session keeps the lock until the server reaps it.
TryLockFails(n) ==
    /\ pc[n] = "standby"
    /\ session[n] = "none"
    /\ lock = NoNode
    /\ Fault
    /\ lock' = n
    /\ UNCHANGED <<row, session, pc, token, running, tx, table>>

\* Mutation: the guard reads the row without FOR SHARE, so nothing holds the
\* upsert back.
NextTermUnblocked(n) ==
    /\ row.epoch < MaxEpoch
    /\ row' = [epoch |-> row.epoch + 1, holder |-> n, released |-> FALSE]

NextTerm(n) ==
    /\ row.epoch < MaxEpoch
    /\ ~RowShared
    /\ row' = [epoch |-> row.epoch + 1, holder |-> n, released |-> FALSE]

\* The upsert returned the new epoch: Run stores the token and holdTerm
\* starts every task.
AdvanceEpoch(n) ==
    /\ pc[n] = "locked"
    /\ lock = n
    /\ NextTerm(n)
    /\ token' = [token EXCEPT ![n] = row.epoch + 1]
    /\ session' = [session EXCEPT ![n] = "live"]
    /\ pc' = [pc EXCEPT ![n] = "term"]
    /\ running' = [running EXCEPT ![n] = Tasks]
    /\ UNCHANGED <<lock, tx, table, faults>>

\* The upsert failed, whether or not the server applied it; discardLockedConn
\* unlocks, or closes a connection whose session the server may still hold.
AdvanceEpochFails(n) ==
    /\ pc[n] = "locked"
    /\ IF lock = n THEN Fault ELSE UNCHANGED faults
    /\ \/ lock = n /\ NextTerm(n)
       \/ UNCHANGED row
    /\ lock' \in {lock} \cup (IF lock = n THEN {NoNode} ELSE {})
    /\ pc' = [pc EXCEPT ![n] = "standby"]
    /\ UNCHANGED <<session, token, running, tx, table>>

-----------------------------------------------------------------------------
(* The term *)

\* pglease.Guard at the start of a guarded task's transaction found the row and
\* share-locked it.
BeginGuarded(n, t) ==
    /\ pc[n] = "term"
    /\ t \in running[n] \cap Guarded
    /\ tx[n][t] = 0
    /\ RowMatches(n)
    /\ tx' = [tx EXCEPT ![n][t] = token[n]]
    /\ UNCHANGED <<row, lock, session, pc, token, running, table, faults>>

\* The guard found no row: ErrFenced, and the transaction rolls back.
GuardFences(n, t) ==
    /\ pc[n] = "term"
    /\ t \in running[n] \cap Guarded
    /\ tx[n][t] = 0
    /\ ~RowMatches(n)
    /\ UNCHANGED vars

\* The server commits the transaction; the replica that sent COMMIT may be
\* winding down or gone by now.
Commit(n, t) ==
    /\ tx[n][t] # 0
    /\ table' = [table EXCEPT ![t] = tx[n][t]]
    /\ tx' = [tx EXCEPT ![n][t] = 0]
    /\ UNCHANGED <<row, lock, session, pc, token, running, faults>>

\* The transaction fails, is cancelled, or loses its connection.
Rollback(n, t) ==
    /\ tx[n][t] # 0
    /\ tx' = [tx EXCEPT ![n][t] = 0]
    /\ UNCHANGED <<row, lock, session, pc, token, running, table, faults>>

\* Mutation: a fenced loop is registered without the guard.
UnguardedWriteAnyTask(n, t) ==
    /\ pc[n] = "term"
    /\ t \in running[n]
    /\ table' = [table EXCEPT ![t] = token[n]]
    /\ UNCHANGED <<row, lock, session, pc, token, running, tx, faults>>

\* A write of a task that was registered without the guard.
UnguardedWrite(n, t) ==
    /\ pc[n] = "term"
    /\ t \in running[n] \ Guarded
    /\ table' = [table EXCEPT ![t] = token[n]]
    /\ UNCHANGED <<row, lock, session, pc, token, running, tx, faults>>

\* A renew that succeeds only moves renewed_at.
Renew(n) ==
    /\ pc[n] = "term"
    /\ session[n] = "live"
    /\ RowMatches(n) /\ ~RowShared
    /\ UNCHANGED vars

\* Mutation: the ticker renews only over a connection it still has.
RenewFailsLiveOnly(n) ==
    /\ pc[n] = "term"
    /\ session[n] = "live" /\ Fault
    /\ session' = [session EXCEPT ![n] = "lost"]
    /\ pc' = [pc EXCEPT ![n] = "ending"]
    /\ UNCHANGED <<row, lock, token, running, tx, table>>

\* The renew tick ends the term: the session is gone, or Renew timed out (its
\* UPDATE waits behind the term's own FOR SHARE locks) and the connection is
\* closed.  That the UPDATE finds no row over a live session is excluded by
\* LiveSessionOwnsTerm.
RenewFails(n) ==
    /\ pc[n] = "term"
    /\ \/ session[n] = "lost" /\ UNCHANGED faults
       \/ session[n] = "live" /\ Fault
    /\ session' = [session EXCEPT ![n] = "lost"]
    /\ pc' = [pc EXCEPT ![n] = "ending"]
    /\ UNCHANGED <<row, lock, token, running, tx, table>>

\* The process is asked to stop: parent.Done, then cancelWork.
Shutdown(n) ==
    /\ pc[n] = "term"
    /\ pc' = [pc EXCEPT ![n] = "ending"]
    /\ UNCHANGED <<row, lock, session, token, running, tx, table, faults>>

\* A forever-loop returned while its context was live, or after cancelWork;
\* the first return cancels the others (errgroup) and ends the term.
TaskReturns(n, t) ==
    /\ pc[n] \in {"term", "ending"}
    /\ t \in running[n]
    /\ running' = [running EXCEPT ![n] = @ \ {t}]
    /\ pc' = [pc EXCEPT ![n] = "ending"]
    /\ UNCHANGED <<row, lock, session, token, tx, table, faults>>

-----------------------------------------------------------------------------
(* Release *)

\* Mutation: Release does not wait for runSingletonTasks.
EndTermEarly(n) ==
    /\ pc[n] = "ending"
    /\ session' = [session EXCEPT ![n] = "none"]
    /\ pc' = [pc EXCEPT ![n] = "standby"]
    /\ UNCHANGED <<token, running, tx, table>>

\* Mutation: Release keeps the connection of a lost session, so every later
\* Acquire answers ErrAlreadyHeld.
EndTermKeepsConn(n) ==
    /\ pc[n] = "ending"
    /\ running[n] = {}
    /\ session' = [session EXCEPT ![n] = IF @ = "lost" THEN @ ELSE "none"]
    /\ pc' = [pc EXCEPT ![n] = "standby"]
    /\ UNCHANGED <<token, running, tx, table>>

\* holdTerm waits for every task before it lets go of the lease handle.  The
\* token is an argument of the tasks: nothing takes it back.
EndTerm(n) ==
    /\ pc[n] = "ending"
    /\ running[n] = {}
    /\ session' = [session EXCEPT ![n] = "none"]
    /\ pc' = [pc EXCEPT ![n] = "standby"]
    /\ UNCHANGED <<token, running, tx, table>>

\* The UPDATE that sets released_at waits for the FOR SHARE locks.
MarkReleased(n) ==
    /\ ~RowShared
    /\ row' = IF RowMatches(n) THEN [row EXCEPT !.released = TRUE] ELSE row

\* released_at is set and the session unlocked.
Release(n) ==
    /\ EndTerm(n)
    /\ session[n] = "live"
    /\ MarkReleased(n)
    /\ lock' = IF lock = n THEN NoNode ELSE lock
    /\ UNCHANGED faults

\* The session is gone, or goes while releasing: CloseTainted.  The server may
\* have applied the UPDATE, and may still hold the lock for a while.
ReleaseFails(n) ==
    /\ EndTerm(n)
    /\ \/ session[n] = "lost" /\ UNCHANGED <<row, faults>>
       \/ /\ session[n] = "live" /\ Fault
          /\ MarkReleased(n) \/ UNCHANGED row
    /\ UNCHANGED lock

-----------------------------------------------------------------------------
(* The environment *)

\* The server drops a session it considers dead, and the advisory lock with it.
SessionDies(n) ==
    /\ lock = n
    /\ lock' = NoNode
    /\ IF session[n] = "live" \/ pc[n] = "locked" THEN Fault ELSE UNCHANGED faults
    /\ session' = [session EXCEPT ![n] = IF @ = "live" THEN "lost" ELSE @]
    /\ UNCHANGED <<row, pc, token, running, tx, table>>

\* The process dies: its memory is gone, its server session and transactions
\* are not.
Crash(n) ==
    /\ pc[n] # "down"
    /\ Fault
    /\ pc' = [pc EXCEPT ![n] = "down"]
    /\ session' = [session EXCEPT ![n] = "none"]
    /\ token' = [token EXCEPT ![n] = 0]
    /\ running' = [running EXCEPT ![n] = {}]
    /\ UNCHANGED <<row, lock, tx, table>>

Restart(n) ==
    /\ pc[n] = "down"
    /\ pc' = [pc EXCEPT ![n] = "standby"]
    /\ UNCHANGED <<row, lock, session, token, running, tx, table, faults>>

Next ==
    \/ \E n \in Nodes :
         \/ StandBy(n) \/ TryLock(n) \/ TryLockFails(n)
         \/ AdvanceEpoch(n) \/ AdvanceEpochFails(n)
         \/ Renew(n) \/ RenewFails(n) \/ Shutdown(n)
         \/ Release(n) \/ ReleaseFails(n)
         \/ SessionDies(n) \/ Crash(n) \/ Restart(n)
    \/ \E n \in Nodes, t \in Tasks :
         \/ BeginGuarded(n, t) \/ GuardFences(n, t) \/ Commit(n, t) \/ Rollback(n, t)
         \/ UnguardedWrite(n, t) \/ TaskReturns(n, t)

Spec == Init /\ [][Next]_vars

\* What keeps happening once faults stop: every loop is woken by its ticker, a
\* cancelled task returns, and the server ends the transactions and sessions
\* whose client is gone.  A healthy term may last forever.
Fairness ==
    /\ \A n \in Nodes :
         /\ WF_vars(TryLock(n))
         /\ WF_vars(AdvanceEpoch(n))
         /\ WF_vars(lock # n /\ AdvanceEpochFails(n))
         /\ WF_vars(session[n] = "lost" /\ RenewFails(n))
         /\ WF_vars(Release(n) \/ (session[n] = "lost" /\ ReleaseFails(n)))
         /\ WF_vars(session[n] # "live" /\ pc[n] # "locked" /\ SessionDies(n))
         /\ WF_vars(Restart(n))
    /\ \A n \in Nodes, t \in Tasks :
         /\ WF_vars(Commit(n, t) \/ Rollback(n, t))
         /\ WF_vars(pc[n] = "ending" /\ TaskReturns(n, t))

FairSpec == Spec /\ Fairness

-----------------------------------------------------------------------------
(* Properties *)

\* An open guarded transaction always belongs to the current, unreleased term:
\* pglease.Guard's FOR SHARE lock holds promotion and release back until it ends.
OpenTxIsCurrent ==
    \A n \in Nodes, t \in Tasks :
        tx[n][t] # 0 => /\ tx[n][t] = row.epoch
                       /\ row.holder = n
                       /\ ~row.released

\* While the server session of a term is alive, its replica owns the advisory
\* lock and the lease row carries its token: two replicas are never both
\* unfenced holders.
LiveSessionOwnsTerm ==
    \A n \in Nodes : session[n] = "live" => lock = n /\ RowMatches(n)

\* No two replicas carry the same fencing token, and nobody's token is ahead of
\* the row.
TokensAreDistinct ==
    \A n \in Nodes :
        /\ token[n] <= row.epoch
        /\ token[n] # 0 /\ token[n] = row.epoch => row.holder = n
        /\ \A m \in Nodes \ {n} : token[n] # 0 => token[m] # token[n]

\* Once released_at is set, no task started with that term's token is running, at
\* the releasing replica or later: holdTerm waits for runSingletonTasks before
\* Release, so a standby that sees a released row takes over from a quiet
\* predecessor.
ReleasedTermIsQuiet ==
    row.released /\ row.epoch # 0 =>
        \A n \in Nodes : token[n] = row.epoch => running[n] = {}

\* A replica outside a term holds no lease connection and runs no task.
IdleIsClean ==
    \A n \in Nodes :
        pc[n] \in {"standby", "locked", "down"} =>
            session[n] = "none" /\ running[n] = {}

\* The inductive invariant behind the safety theorems.
LeaseInv ==
    /\ TypeOK
    /\ IdleIsClean
    /\ OpenTxIsCurrent
    /\ LiveSessionOwnsTerm
    /\ TokensAreDistinct
    /\ ReleasedTermIsQuiet

\* The fenced tables are written only by the newest open term.
Terms == INSTANCE FencedTerms WITH
            Tables <- Guarded,
            term <- row.epoch, owner <- row.holder, open <- ~row.released,
            table <- [t \in Guarded |-> table[t]]

ImplementsFencedTerms == Terms!AbsSpec

\* A replica whose lease session is gone stops its tasks: the next renew tick
\* notices and cancels them.
StaleHolderStops ==
    \A n \in Nodes :
        (pc[n] = "term" /\ session[n] = "lost") ~> (running[n] = {})

\* Somebody always leads again: with no term running, a standby, or a replica
\* that restarts, eventually starts one (unless the bound on terms is reached).
Failover ==
    (\A n \in Nodes : pc[n] # "term")
        ~> (row.epoch = MaxEpoch \/ \E n \in Nodes : pc[n] = "term")
=============================================================================
