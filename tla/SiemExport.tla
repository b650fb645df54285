---------------------------- MODULE SiemExport ----------------------------
(***************************************************************************)
(* The tenant audit stream and its export to the operator's SIEM: appends  *)
(* under the stream lock, the SIEM poller of every control-plane replica,  *)
(* and the retention runner that deletes exported rows.                    *)
(*                                                                         *)
(* The poller and the retention runner are singletons, but a replica that  *)
(* lost the lease keeps running until it notices.  The retention runner is *)
(* fenced by the lease epoch in each of its transactions.  The poller is   *)
(* not: what keeps two pollers apart is the export claim in siem_delivery, *)
(* a lease row that outlives the transaction and can expire while its      *)
(* owner is still sending.                                                 *)
(*                                                                         *)
(* One tenant is modelled.  Pages are delivered with no transaction open,  *)
(* so every step below that touches the database is one transaction and    *)
(* everything may happen between two of them.                              *)
(***************************************************************************)
EXTENDS AuditStream

CONSTANTS Replicas,   \* control-plane replicas; each has one poller
          None,       \* no claim owner, no leader
          Gone,       \* the owner id of a poller whose process ended
          PageSize,   \* events per page
          MaxTerms    \* bound on the number of lease acquisitions

ASSUME SiemAssumption ==
    /\ {None, Gone} \cap Replicas = {} /\ None # Gone
    /\ PageSize \in Nat \ {0}

VARIABLES cursor,     \* siem_delivery.last_seq
          claim,      \* siem_delivery.claim_owner
          expired,    \* claim_until < now()
          siem,       \* seq of the events the SIEM has received
          pc,         \* where the poller of each replica is in drainPage
          from,       \* drainPage: cursor read with the claim
          to,         \* drainPage: last seq of the page
          lapsed,     \* history: the claim taken for this page has expired
          wm,         \* retention: watermark read before the prune, or -1
          leader,     \* owner of the newest lease epoch
          running,    \* replicas whose singleton tasks are not cancelled
          term        \* lease epoch

claimVars  == <<cursor, claim, expired>>
pollVars   == <<pc, from, to, lapsed>>
leaseVars  == <<leader, running, term>>
siemVars == <<streamVars, claimVars, siem, pollVars, wm, leaseVars>>

Page(r) == from[r] + 1 .. to[r]

\* drainPage returns; its locals are gone.
Return(r) ==
    /\ pc' = [pc EXCEPT ![r] = "idle"]
    /\ from' = [from EXCEPT ![r] = 0]
    /\ to' = [to EXCEPT ![r] = 0]
    /\ lapsed' = [lapsed EXCEPT ![r] = FALSE]

SiemInit ==
    /\ StreamInit
    /\ cursor = 0 /\ claim = None /\ expired = FALSE
    /\ siem = {}
    /\ pc = [r \in Replicas |-> "idle"]
    /\ from = [r \in Replicas |-> 0]
    /\ to = [r \in Replicas |-> 0]
    /\ lapsed = [r \in Replicas |-> FALSE]
    /\ wm = [r \in Replicas |-> -1]
    /\ leader = None /\ running = {} /\ term = 0
-----------------------------------------------------------------------------
\* An audited write of the tenant.
TenantAppend ==
    /\ StreamAccepts(cursor)
    /\ AppendLocked
    /\ UNCHANGED <<claimVars, siem, pollVars, wm, leaseVars>>
-----------------------------------------------------------------------------
(* The lease, as these tasks see it (SingletonLease models it). *)

Elect(r) ==
    /\ r \notin running /\ pc[r] = "idle" /\ wm[r] = -1
    /\ term < MaxTerms
    /\ leader' = r
    /\ running' = running \cup {r}
    /\ term' = term + 1
    /\ UNCHANGED <<streamVars, claimVars, siem, pollVars, wm>>

\* The context of the replica's tasks is cancelled: it shut down, or noticed
\* that the lease is lost.  A step in flight still runs to its next database
\* or network call.
Cancel(r) ==
    /\ r \in running
    /\ r # leader \/ term < MaxTerms
    /\ running' = running \ {r}
    /\ UNCHANGED <<streamVars, claimVars, siem, pollVars, wm, leader, term>>

\* The process ends.  Its successor's poller draws a new owner id, so the claim
\* it leaves in the row is nobody's and has to expire.
Crash(r) ==
    /\ r # leader \/ term < MaxTerms
    /\ running' = running \ {r}
    /\ Return(r)
    /\ claim' = IF claim = r THEN Gone ELSE claim
    /\ wm' = [wm EXCEPT ![r] = -1]
    /\ UNCHANGED <<streamVars, cursor, expired, siem, leader, term>>
-----------------------------------------------------------------------------
(* SIEMAuditPoller.drainPage. *)

\* Mutation: a claim is taken only when it is free.
ClaimPageFree(r) ==
    /\ r \in running /\ pc[r] = "idle"
    /\ claim = None \/ claim = r
    /\ cursor \in pruned .. head
    /\ claim' = r
    /\ expired' = FALSE
    /\ from' = [from EXCEPT ![r] = cursor]
    /\ to' = [to EXCEPT ![r] = PageEnd(cursor, PageSize)]
    /\ lapsed' = [lapsed EXCEPT ![r] = FALSE]
    /\ pc' = [pc EXCEPT ![r] = IF head = cursor THEN "release" ELSE "post"]
    /\ UNCHANGED <<streamVars, cursor, siem, wm, leaseVars>>

\* The read transaction: take the claim, then map the next page into memory.
\* Drain refuses a cursor outside the stream and a gap after the cursor, and
\* the transaction then rolls the claim back.
ClaimPage(r) ==
    /\ r \in running /\ pc[r] = "idle"
    /\ claim = None \/ claim = r \/ expired
    /\ cursor \in pruned .. head
    /\ head > cursor => cursor + 1 \in rows
    /\ claim' = r
    /\ expired' = FALSE
    /\ from' = [from EXCEPT ![r] = cursor]
    /\ to' = [to EXCEPT ![r] = PageEnd(cursor, PageSize)]
    /\ lapsed' = [lapsed EXCEPT ![r] = FALSE]
    /\ pc' = [pc EXCEPT ![r] = IF head = cursor THEN "release" ELSE "post"]
    /\ UNCHANGED <<streamVars, cursor, siem, wm, leaseVars>>

\* DeliverBatch returns nil.
PostOK(r) ==
    /\ pc[r] = "post"
    /\ siem' = siem \cup Page(r)
    /\ pc' = [pc EXCEPT ![r] = "commit"]
    /\ UNCHANGED <<streamVars, claimVars, from, to, lapsed, wm, leaseVars>>

\* The SIEM took the batch but the answer was lost; DeliverBatch sends it again.
PostUnanswered(r) ==
    /\ pc[r] = "post"
    /\ siem' = siem \cup Page(r)
    /\ UNCHANGED <<streamVars, claimVars, pollVars, wm, leaseVars>>

\* Mutation: the error of DeliverBatch is not looked at.
PostFailsUnnoticed(r) ==
    /\ pc[r] = "post"
    /\ pc' = [pc EXCEPT ![r] = "commit"]
    /\ UNCHANGED <<streamVars, claimVars, siem, from, to, lapsed, wm, leaseVars>>

\* The post timed out, or the context was cancelled.
PostFails(r) ==
    /\ pc[r] = "post"
    /\ pc' = [pc EXCEPT ![r] = "release"]
    /\ UNCHANGED <<streamVars, claimVars, siem, from, to, lapsed, wm, leaseVars>>

\* Mutation: the cursor is set whatever became of the claim and the cursor.
CommitCursorBlindly(r) ==
    /\ pc[r] = "commit" /\ r \in running
    /\ cursor' = to[r]
    /\ IF claim = r
         THEN claim' = None /\ expired' = FALSE
         ELSE UNCHANGED <<claim, expired>>
    /\ Return(r)
    /\ UNCHANGED <<streamVars, siem, wm, leaseVars>>

\* The commit transaction.  It does nothing when the claim was stolen or the
\* cursor moved.
CommitCursor(r) ==
    /\ pc[r] = "commit" /\ r \in running
    /\ IF claim = r /\ cursor = from[r]
         THEN cursor' = to[r] /\ claim' = None /\ expired' = FALSE
         ELSE UNCHANGED claimVars
    /\ Return(r)
    /\ UNCHANGED <<streamVars, siem, wm, leaseVars>>

\* The release transaction: nothing to send, or the post failed.
ReleaseClaim(r) ==
    /\ pc[r] = "release" /\ r \in running
    /\ IF claim = r
         THEN claim' = None /\ expired' = FALSE
         ELSE UNCHANGED <<claim, expired>>
    /\ Return(r)
    /\ UNCHANGED <<streamVars, cursor, siem, wm, leaseVars>>

\* The second transaction of drainPage fails: its context is cancelled or the
\* database does not answer.  The claim stays in the row.
SecondTxFails(r) ==
    /\ pc[r] \in {"commit", "release"}
    /\ Return(r)
    /\ UNCHANGED <<streamVars, claimVars, siem, wm, leaseVars>>

\* siemClaimLease passes.
ClaimExpires ==
    /\ claim # None /\ ~expired
    /\ expired' = TRUE
    /\ lapsed' = [r \in Replicas |-> lapsed[r] \/ r = claim]
    /\ UNCHANGED <<streamVars, cursor, claim, siem, pc, from, to, wm, leaseVars>>
-----------------------------------------------------------------------------
(* RetentionRunner.Tick, for the tenant. *)

\* tenantSIEMWatermark, in a transaction of its own.
ReadWatermark(r) ==
    /\ r \in running /\ r = leader /\ wm[r] = -1
    /\ wm' = [wm EXCEPT ![r] = cursor]
    /\ UNCHANGED <<streamVars, claimVars, siem, pollVars, leaseVars>>

\* PruneTenant: one guarded transaction that deletes a prefix of aged rows up
\* to the watermark, moves the anchor and appends the receipt.
PruneTenant(r) ==
    /\ wm[r] > 0 /\ r \in running /\ r = leader
    /\ StreamAccepts(wm[r])
    /\ \E cut \in pruned + 1 .. wm[r] : PruneLocked(cut)
    /\ wm' = [wm EXCEPT ![r] = -1]
    /\ UNCHANGED <<claimVars, siem, pollVars, leaseVars>>

\* Nothing was old enough, or the watermark, the guard or the context refused.
PruneSkipped(r) ==
    /\ wm[r] # -1
    /\ wm' = [wm EXCEPT ![r] = -1]
    /\ UNCHANGED <<streamVars, claimVars, siem, pollVars, leaseVars>>
-----------------------------------------------------------------------------
SiemNext ==
    \/ TenantAppend \/ ClaimExpires
    \/ \E r \in Replicas :
         \/ Elect(r) \/ Cancel(r) \/ Crash(r)
         \/ ClaimPage(r) \/ CommitCursor(r) \/ ReleaseClaim(r)
         \/ PostOK(r) \/ PostUnanswered(r) \/ PostFails(r)
         \/ SecondTxFails(r)
         \/ ReadWatermark(r) \/ PruneTenant(r) \/ PruneSkipped(r)

SiemSpec == SiemInit /\ [][SiemNext]_siemVars

\* What a cancelled or deposed replica still does before it is quiet.
WindDown(r) ==
    \/ r # leader /\ Cancel(r)
    \/ r \notin running /\ (PostFails(r) \/ SecondTxFails(r) \/ PruneSkipped(r))

\* The standbys retry the lease for ever, a cancelled loop returns, the leader's
\* next tick comes, the claim's lease runs out, and neither the SIEM nor the
\* database fails for ever: DeliverBatch and the next tick retry.
SiemFairness ==
    /\ WF_siemVars(ClaimExpires)
    /\ WF_siemVars(running = {} /\ \E r \in Replicas : Elect(r))
    /\ WF_siemVars(\E r \in Replicas : WindDown(r))
    /\ WF_siemVars(\E r \in {leader} \cap Replicas : ClaimPage(r) \/ ReleaseClaim(r))
    /\ SF_siemVars(\E r \in {leader} \cap Replicas : PostOK(r))
    /\ SF_siemVars(\E r \in {leader} \cap Replicas : CommitCursor(r))

SiemFairSpec == SiemSpec /\ SiemFairness
-----------------------------------------------------------------------------
\* The types the proofs need; rows and siem are bounded by StreamBounds below.
SiemTypeOK ==
    /\ head \in Nat /\ pruned \in Nat /\ cursor \in Nat
    /\ claim \in Replicas \cup {None, Gone} /\ expired \in BOOLEAN
    /\ pc \in [Replicas -> {"idle", "post", "commit", "release"}]
    /\ from \in [Replicas -> Nat] /\ to \in [Replicas -> Nat]
    /\ lapsed \in [Replicas -> BOOLEAN]
    /\ wm \in [Replicas -> Int]

\* The export cursor covers only events the SIEM has received, whichever
\* pollers overlapped, crashed or lost their claim on the way: the cursor is
\* what lets retention delete the only local copy (CommitCursor, PruneTenant).
CursorIsDelivered == 1 .. cursor \subseteq siem

\* The cursor never leaves the stream.  If it did, Drain would refuse every
\* page and every audited write of the tenant would fail closed in
\* ensureTenantStreamHead.
StreamNeverRefuses == StreamAccepts(cursor)

\* A poller forwards a page only while it holds the export claim, unless that
\* claim's lease ran out under it: without an expiry no two replicas send the
\* same page, whatever the failover (ClaimPage, ReleaseClaim).
SendsUnderClaim ==
    \A r \in Replicas : pc[r] = "post" /\ ~lapsed[r] => claim = r

\* The cursor lies in the stream, the rows have no gap, and the SIEM holds
\* every event up to the cursor and none that was never appended.
StreamBounds ==
    /\ pruned <= cursor /\ cursor <= head
    /\ rows = pruned + 1 .. head
    /\ 1 .. cursor \subseteq siem /\ siem \subseteq 1 .. head

\* A page in hand starts at or before the cursor, which never moves back, and
\* one that is to be committed was delivered; a watermark that was read is
\* still covered by the cursor.
PagesAreStale ==
    \A r \in Replicas :
        /\ from[r] <= to[r] /\ to[r] <= head /\ from[r] <= cursor
        /\ pc[r] = "commit" => Page(r) \subseteq siem
        /\ wm[r] <= cursor

\* A claim that expired is known to have lapsed as long as its page is sent.
ExpiryIsSeen ==
    \A r \in Replicas : claim = r /\ expired /\ pc[r] = "post" => lapsed[r]

\* The inductive invariant.
SiemInv ==
    /\ SiemTypeOK /\ StreamBounds /\ PagesAreStale
    /\ ExpiryIsSeen /\ SendsUnderClaim

\* The stream together with the SIEM keeps every event readable: pruning is
\* the only way out of the database and it waits for delivery.
Trail == INSTANCE AuditTrail WITH archive <- siem
ImplementsAuditTrail == Trail!TrailSpec

\* The export catches up with the stream again and again, although pollers are
\* cancelled or crash while holding the claim (ClaimPage takes an expired one)
\* and every prune appends a receipt that must be exported in turn.
EverythingDelivered == []<>(cursor = head)
=============================================================================
