--------------------------- MODULE TenantErasure ---------------------------
(***************************************************************************)
(* Full erasure of one tenant: internal/tenantlife's Erase, the writer     *)
(* leases of internal/tenancy/writefence.go that the control plane's store *)
(* writes hold, the triggers that fence PostgreSQL writers, the browser    *)
(* agents that write to the object store with neither, and the provider's  *)
(* status changes.  An erasure deletes from many stores that share no      *)
(* transaction; the fence has to keep writers out of all of them from      *)
(* before the first delete until long after the attestation.               *)
(*                                                                         *)
(* "flows" stands for the shared stores that only leased writers reach     *)
(* (flows, endpoint events, series, paths, OTLP, eBPF), which Erase treats *)
(* alike; "objects" is the object store, which agents write too; a         *)
(* replica's name stands for the topology graph in its memory.             *)
(***************************************************************************)
EXTENDS Naturals, FiniteSets

CONSTANTS Replicas,     \* each may run one call of Erase
          Writers,      \* one store write each
          Jobs,         \* the targets the writers may have
          MaxFaults,    \* failed steps, crashes and lost sessions
          MaxEvidence   \* attribution records staged for the tenant

\* A leased store, a topology graph, a PostgreSQL row with its audit event,
\* written at READ COMMITTED or, for a tag import, in one REPEATABLE READ snapshot,
\* or a browser agent's artifact.
Kinds == {"flows", "objects", "row", "snapshot", "artifact"} \cup Replicas

ASSUME ErasureAssumption ==
    /\ {"flows", "objects", "postgres", "audit", "row", "snapshot", "artifact"} \cap Replicas = {}
    /\ {MaxFaults, MaxEvidence} \subseteq Nat
    /\ Jobs \subseteq [Writers -> Kinds]

VARIABLES
    status, fenced,      \* the tenant's registry row
    data,                \* per place, the writes it holds
    kind, wpc, leases,   \* per writer: its target and step; who holds the shared lock
    stale,               \* snapshots older than the registry row
    pc, complete,        \* per call of Erase: its step and att.Complete
    composed,            \* the provider plane (attribution keys) is attached
    plan, evidence,      \* IR key ledger; records planned for and staged
    irKey,
    attested,            \* replicas whose attestation says complete
    late,                \* writes whose lease ended before they did
    unlisted,            \* artifacts put after a call had listed the object store
    faults

registry == <<status, fenced>>
writerVars == <<wpc, leases, stale, late, unlisted>>
irVars == <<plan, evidence, irKey>>
vars == <<status, fenced, data, kind, wpc, leases, stale, pc, complete,
          composed, plan, evidence, irKey, attested, late, unlisted, faults>>

Places == {"flows", "objects", "postgres", "audit"} \cup Replicas
NoPlan == [state |-> "none", records |-> 0]

Init ==
    /\ status = "active" /\ fenced = FALSE
    /\ data = [p \in Places |-> {}]
    /\ kind \in Jobs
    /\ wpc = [w \in Writers |-> "idle"] /\ leases = {} /\ stale = {}
    /\ pc = [r \in Replicas |-> "idle"]
    /\ complete = [r \in Replicas |-> TRUE]
    /\ composed \in BOOLEAN
    /\ plan = NoPlan /\ irKey = TRUE
    /\ evidence \in 0 .. MaxEvidence   \* an earlier deployment may have left some
    /\ attested = {} /\ late = {} /\ unlisted = {} /\ faults = 0

Fault == faults < MaxFaults /\ faults' = faults + 1

\* An update of the registry row under FOR UPDATE makes older snapshots stale.
Outdate == stale' = {w \in Writers : wpc[w] \in {"snap", "writing"} /\ kind[w] = "snapshot"}

-----------------------------------------------------------------------------
(* Provider console: guarded status changes, without the writer lock.  A plain
   UPDATE leaves the row's key alone, and a snapshot may still lock it. *)

SetStatus(from, to) ==
    /\ status \in from
    /\ fenced => to \in {"offboarding", "deleted"}
    /\ status' = to
    /\ UNCHANGED <<fenced, data, kind, writerVars, pc, complete, composed,
                   irVars, attested, faults>>

Suspend == SetStatus({"active"}, "suspended")
Resume == SetStatus({"suspended"}, "active")
Offboard == SetStatus({"active", "suspended"}, "offboarding")

-----------------------------------------------------------------------------
(* Writers. *)

Eligible == ~ fenced /\ status \in {"active", "suspended"}

\* A request for the shared lock queues behind an erasure that waits for the
\* exclusive one.
LockFree == \A r \in Replicas : pc[r] # "fence"

\* WithTenantWrites, and the trigger on ordinary tables: the lock, then the row.
Admit(w) ==
    /\ wpc[w] = "idle" /\ kind[w] \notin {"snapshot", "artifact"}
    /\ LockFree
    /\ Eligible
    /\ leases' = leases \cup {w}
    /\ wpc' = [wpc EXCEPT ![w] = "writing"]
    /\ UNCHANGED <<registry, data, kind, stale, pc, complete, composed,
                   irVars, attested, late, unlisted, faults>>

\* InTenantWriteSnapshot begins: the trigger will read this state of the row.
TakeSnapshot(w) ==
    /\ wpc[w] = "idle" /\ kind[w] = "snapshot"
    /\ Eligible
    /\ wpc' = [wpc EXCEPT ![w] = "snap"]
    /\ UNCHANGED <<registry, data, kind, leases, stale, pc, complete, composed,
                   irVars, attested, late, unlisted, faults>>

\* Its row write takes the lock; the snapshot it reads is still eligible.
AdmitSnapshot(w) ==
    /\ wpc[w] = "snap"
    /\ LockFree
    /\ leases' = leases \cup {w}
    /\ wpc' = [wpc EXCEPT ![w] = "writing"]
    /\ UNCHANGED <<registry, data, kind, stale, pc, complete, composed,
                   irVars, attested, late, unlisted, faults>>

Targets(w) == IF kind[w] \in {"row", "snapshot"} THEN {"postgres", "audit"} ELSE {kind[w]}

\* The trigger on the audit tables locks the registry row and looks again.  A
\* snapshot gets an error for a row outdated since, and else its old values.
Refused(w) == w \in stale \/ (kind[w] = "row" /\ ~ Eligible)

\* The write takes effect and the lease transaction ends.
Store(w) ==
    /\ data' = [p \in Places |-> IF p \in Targets(w) THEN data[p] \cup {w} ELSE data[p]]
    /\ wpc' = [wpc EXCEPT ![w] = "done"]
    /\ leases' = leases \ {w}
    /\ UNCHANGED <<registry, kind, stale, pc, complete, composed, irVars,
                   attested, late, unlisted, faults>>

Land(w) == wpc[w] \in {"writing", "late"} /\ ~ Refused(w) /\ Store(w)

Abort(w) ==
    /\ wpc[w] = "writing" /\ Refused(w)
    /\ wpc' = [wpc EXCEPT ![w] = "done"]
    /\ leases' = leases \ {w}
    /\ UNCHANGED <<registry, data, kind, stale, pc, complete, composed, irVars,
                   attested, late, unlisted, faults>>

\* The lease's database session is lost: the lock is gone.  A PostgreSQL write
\* rolls back with it; a write to another store goes on.
LoseLease(w) ==
    /\ w \in leases /\ Fault
    /\ leases' = leases \ {w}
    /\ IF "postgres" \in Targets(w)
       THEN wpc' = [wpc EXCEPT ![w] = "done"] /\ UNCHANGED late
       ELSE wpc' = [wpc EXCEPT ![w] = "late"] /\ late' = late \cup {w}
    /\ UNCHANGED <<registry, data, kind, stale, pc, complete, composed, irVars, attested, unlisted>>

\* The steps of a call after it listed the object store.
AfterList == {"graph", "rows", "verify", "audit", "keys", "shred", "tombstone", "finalize"}

\* A call has listed the object store, or an erasure is over.
Listed == (\E r \in Replicas : pc[r] \in AfterList) \/ attested # {} \/ ~ irKey

\* storeArtifact, in an agent: no lease, no registry row.
AgentPut(w) ==
    /\ wpc[w] = "idle" /\ kind[w] = "artifact"
    /\ data' = [data EXCEPT !["objects"] = @ \cup {w}]
    /\ wpc' = [wpc EXCEPT ![w] = "done"]
    /\ unlisted' = IF Listed THEN unlisted \cup {w} ELSE unlisted
    /\ UNCHANGED <<registry, kind, leases, stale, pc, complete, composed, irVars,
                   attested, late, faults>>

\* Mutation: staging does not look at the ledger.
StageUnfrozen ==
    /\ composed /\ evidence < MaxEvidence
    /\ evidence' = evidence + 1
    /\ UNCHANGED <<registry, data, kind, writerVars, pc, complete, composed,
                   plan, irKey, attested, faults>>

\* Attribution evidence is staged until a destruction plan freezes the ledger.
StageEvidence ==
    /\ composed /\ plan.state = "none" /\ evidence < MaxEvidence
    /\ evidence' = evidence + 1
    /\ UNCHANGED <<registry, data, kind, writerVars, pc, complete, composed,
                   plan, irKey, attested, faults>>

-----------------------------------------------------------------------------
(* One call of Erase, up to its first delete. *)

\* prepareErasure: the signed key-destruction plan is committed, or found, before
\* the fence.  Without the provider plane, retained evidence refuses the call.
Prepare(r) ==
    /\ pc[r] = "idle"
    /\ composed \/ evidence = 0
    /\ plan' = IF composed /\ plan.state = "none"
               THEN [state |-> "planned", records |-> evidence]
               ELSE plan
    /\ pc' = [pc EXCEPT ![r] = "fence"]
    /\ UNCHANGED <<registry, data, kind, writerVars, complete, composed,
                   evidence, irKey, attested, faults>>

\* fenceTenantAuditWrites: one transaction under the exclusive writer lock.
FenceRow(r) ==
    /\ pc[r] = "fence"
    /\ IF status = "deleted"
       THEN pc' = [pc EXCEPT ![r] = "idle"] /\ UNCHANGED <<registry, stale, complete>>
       ELSE /\ status' = "offboarding" /\ fenced' = TRUE
            /\ Outdate
            /\ complete' = [complete EXCEPT ![r] = TRUE]
            /\ pc' = [pc EXCEPT ![r] = "flows"]
    /\ UNCHANGED <<data, kind, wpc, leases, composed, irVars, attested, late, unlisted, faults>>

\* Mutation: the exclusive lock is not taken.
FenceUnlocked(r) == FenceRow(r)

Fence(r) == leases = {} /\ FenceRow(r)

-----------------------------------------------------------------------------
(* The stores in turn; a failure is recorded and the next store is tried. *)

Step(r, next) ==
    /\ pc' = [pc EXCEPT ![r] = next]
    /\ UNCHANGED <<registry, kind, writerVars, composed, attested>>

\* The step succeeds; ok says whether the store was verified empty.
Record(r, ok) == complete' = [complete EXCEPT ![r] = @ /\ ok]

DeleteFlows(r) ==
    /\ pc[r] = "flows" /\ Step(r, "count")
    /\ data' = [data EXCEPT !["flows"] = {}]
    /\ UNCHANGED <<complete, irVars, faults>>

CountFlows(r) ==
    /\ pc[r] = "count" /\ Step(r, "objects")
    /\ Record(r, data["flows"] = {})
    /\ UNCHANGED <<data, irVars, faults>>

DeleteObjects(r) ==
    /\ pc[r] = "objects" /\ Step(r, "list")
    /\ data' = [data EXCEPT !["objects"] = {}]
    /\ UNCHANGED <<complete, irVars, faults>>

ListObjects(r) ==
    /\ pc[r] = "list" /\ Step(r, "graph")
    /\ Record(r, data["objects"] = {})
    /\ UNCHANGED <<data, irVars, faults>>

\* Mutation: the graph store lost its lifecycle methods and is passed over.
PassGraph(r) ==
    /\ pc[r] = "graph" /\ Step(r, "rows")
    /\ UNCHANGED <<data, complete, irVars, faults>>

\* The graph in this replica's memory; the others are not reached.
DeleteGraph(r) ==
    /\ pc[r] = "graph" /\ Step(r, "rows")
    /\ data' = [data EXCEPT ![r] = {}]
    /\ UNCHANGED <<complete, irVars, faults>>

\* erasePostgres: deletes table by table, then counts, then the audit tables.
DeleteRows(r) ==
    /\ pc[r] = "rows" /\ Step(r, "verify")
    /\ data' = [data EXCEPT !["postgres"] = {}]
    /\ UNCHANGED <<complete, irVars, faults>>

\* A delete that keeps failing is only noticed by the count.
SkipRows(r) ==
    /\ pc[r] = "rows" /\ Fault /\ Step(r, "verify")
    /\ UNCHANGED <<data, complete, irVars>>

VerifyRows(r) ==
    /\ pc[r] = "verify"
    /\ Step(r, IF data["postgres"] = {} THEN "audit" ELSE "keys")
    /\ Record(r, data["postgres"] = {})
    /\ UNCHANGED <<data, irVars, faults>>

DeleteAudit(r) ==
    /\ pc[r] = "audit" /\ Step(r, "keys")
    /\ Record(r, fenced /\ status # "deleted")
    /\ data' = [data EXCEPT !["audit"] = IF fenced /\ status # "deleted" THEN {} ELSE @]
    /\ UNCHANGED <<irVars, faults>>

DestroyKeys(r) ==
    /\ pc[r] = "keys" /\ Step(r, "shred")
    /\ UNCHANGED <<data, complete, irVars, faults>>

\* Delete, count or key calls that fail; the delete may have taken effect.
FailStore(r) ==
    /\ Fault
    /\ \/ /\ pc[r] \in {"flows", "count"} /\ Step(r, "objects")
          /\ data' \in {data, [data EXCEPT !["flows"] = {}]}
       \/ /\ pc[r] \in {"objects", "list"} /\ Step(r, "graph")
          /\ data' \in {data, [data EXCEPT !["objects"] = {}]}
       \/ pc[r] \in {"verify", "audit"} /\ Step(r, "keys") /\ UNCHANGED data
       \/ pc[r] = "keys" /\ Step(r, "shred") /\ UNCHANGED data
    /\ Record(r, FALSE)
    /\ UNCHANGED irVars

-----------------------------------------------------------------------------
(* finalizeIRAttribution and finalizeSuccessfulErasure. *)

ExecutePlan(r) ==
    IF composed /\ evidence # plan.records
    THEN Step(r, "idle") /\ UNCHANGED irKey
    ELSE IF ~ composed \/ plan.state = "tombstone"
    THEN Step(r, "finalize") /\ UNCHANGED irKey
    ELSE Step(r, "tombstone") /\ irKey' = FALSE

\* Mutation: an incomplete call executes the plan too.
ShredAnyway(r) ==
    /\ pc[r] = "shred"
    /\ ExecutePlan(r)
    /\ UNCHANGED <<data, complete, plan, evidence, faults>>

\* Execute runs only for a call that found every store empty.
Shred(r) ==
    /\ pc[r] = "shred"
    /\ IF complete[r] THEN ExecutePlan(r) ELSE Step(r, "idle") /\ UNCHANGED irKey
    /\ UNCHANGED <<data, complete, plan, evidence, faults>>

Tombstone(r) ==
    /\ pc[r] = "tombstone" /\ Step(r, "finalize")
    /\ plan' = [plan EXCEPT !.state = "tombstone"]
    /\ UNCHANGED <<data, complete, evidence, irKey, faults>>

\* Tombstone of the registry row and complete attestation, in one transaction.
Finalize(r) ==
    /\ pc[r] = "finalize"
    /\ IF fenced /\ status = "offboarding" /\ data["audit"] = {}
       THEN status' = "deleted" /\ attested' = attested \cup {r} /\ Outdate
       ELSE UNCHANGED <<status, attested, stale>>
    /\ pc' = [pc EXCEPT ![r] = "idle"]
    /\ UNCHANGED <<fenced, data, kind, wpc, leases, complete, composed, irVars,
                   late, unlisted, faults>>

\* The call ends early: a refused plan or transaction, or the incomplete attestation.
FailCall(r) ==
    /\ pc[r] \in {"fence", "shred", "tombstone", "finalize"} /\ Fault
    /\ Step(r, "idle")
    /\ irKey' \in (IF pc[r] = "shred" /\ complete[r] /\ plan.state = "planned"
                    THEN {irKey, FALSE} ELSE {irKey})
    /\ UNCHANGED <<data, complete, plan, evidence>>

\* The replica dies: its call, its graph and the writes to that graph.
Crash(r) ==
    /\ Fault
    /\ pc' = [pc EXCEPT ![r] = "idle"]
    /\ data' = [data EXCEPT ![r] = {}]
    /\ wpc' = [w \in Writers |-> IF kind[w] = r /\ wpc[w] # "idle" THEN "done" ELSE wpc[w]]
    /\ leases' = {w \in leases : kind[w] # r}
    /\ UNCHANGED <<registry, kind, stale, complete, composed, irVars, attested,
                   late, unlisted>>

-----------------------------------------------------------------------------
WriterStep(w) == Admit(w) \/ TakeSnapshot(w) \/ AdmitSnapshot(w) \/ Land(w) \/ Abort(w)

\* What a call does when nothing fails.
EraseStep(r) ==
    \/ Prepare(r) \/ Fence(r) \/ DeleteFlows(r) \/ CountFlows(r) \/ DeleteObjects(r)
    \/ ListObjects(r) \/ DeleteGraph(r) \/ DeleteRows(r) \/ VerifyRows(r) \/ DeleteAudit(r) \/ DestroyKeys(r)
    \/ Shred(r) \/ Tombstone(r) \/ Finalize(r)

Next ==
    \/ Suspend \/ Resume \/ Offboard \/ StageEvidence
    \/ \E w \in Writers : WriterStep(w) \/ LoseLease(w) \/ AgentPut(w)
    \/ \E r \in Replicas : EraseStep(r) \/ SkipRows(r) \/ FailStore(r) \/ FailCall(r) \/ Crash(r)

Spec == Init /\ [][Next]_vars

\* A write in flight ends, a call goes on, and an operator repeats an erasure that
\* did not complete (the runbook's procedure).
Fairness ==
    /\ \A w \in Writers : WF_vars(Land(w) \/ Abort(w))
    /\ \A r \in Replicas : WF_vars(EraseStep(r))

FairSpec == Spec /\ Fairness

-----------------------------------------------------------------------------
\* The writes to a place that hold no lease and no transaction.
Unfenced(p) == IF p = "objects" THEN {w \in Writers : kind[w] = "artifact"} ELSE {}

(* Erase promises "every store verified zero"; the attestation is what the
   customer is given.  Once one says complete, the shared stores hold nothing
   of the tenant, then or later, and neither does the graph of the replica
   that attested.  Two kinds of writes escape, and only they: one that outlived
   its lease (LoseLease), which nothing refuses, and in the object store an
   artifact that an agent put after a call had listed it, as the offboarding
   runbook warns. *)
AttestedIsEmpty ==
    attested # {} =>
        /\ data["flows"] \subseteq late /\ data["objects"] \subseteq late \cup unlisted
        /\ data["postgres"] = {} /\ data["audit"] = {}
        /\ \A r \in attested : data[r] \subseteq late

(* The tenant's IR key is destroyed only after the data was: whatever calls
   failed, crashed or ran at the same time, a tenant whose key is gone has
   nothing left in the shared stores but such writes. *)
ShredFollowsErasure ==
    ~ irKey => /\ data["flows"] \subseteq late /\ data["objects"] \subseteq late \cup unlisted
               /\ data["postgres"] = {} /\ data["audit"] = {}

(* The fence is committed under the exclusive lock: from that step on no store
   gains a write of the control plane, not even from a transaction whose
   snapshot predates the fence, unless the write had lost its lease.  What the
   fence does not cover is the agents' own path into the object store. *)
FencedStoresOnlyShrink ==
    [][fenced => \A p \in Places : data'[p] \ data[p] \subseteq late \cup Unfenced(p)]_vars

(* A fenced tenant does not stay half erased: with repeated calls and finitely
   many failures the erasure completes, also when a call died between the key
   destruction and its receipt, or before the tombstone. *)
EraseCompletes == fenced ~> status = "deleted"

-----------------------------------------------------------------------------
(* Why they hold: the inductive invariant. *)

Steps == {"idle", "fence", "flows", "count", "objects", "list", "graph", "rows", "verify",
          "audit", "keys", "shred", "tombstone", "finalize"}

\* The variables of the erasure keep their types.
TypeOK ==
    /\ status \in {"active", "suspended", "offboarding", "deleted"} /\ fenced \in BOOLEAN
    /\ data \in [Places -> SUBSET Writers]
    /\ kind \in [Writers -> Kinds]
    /\ wpc \in [Writers -> {"idle", "snap", "writing", "late", "done"}]
    /\ leases \subseteq Writers /\ stale \subseteq Writers
    /\ late \subseteq Writers /\ unlisted \subseteq Writers
    /\ pc \in [Replicas -> Steps]
    /\ complete \in [Replicas -> BOOLEAN]
    /\ composed \in BOOLEAN /\ irKey \in BOOLEAN
    /\ plan \in [state : {"none", "planned", "tombstone"}, records : 0 .. MaxEvidence]
    /\ evidence \in 0 .. MaxEvidence
    /\ attested \subseteq Replicas
    /\ faults \in 0 .. MaxFaults

\* A write in flight holds its lease; behind the fence only snapshots that the
\* registry row has outdated are left in flight.
WritersFenced ==
    \A w \in Writers :
        /\ wpc[w] = "snap" => kind[w] = "snapshot"
        /\ wpc[w] = "writing" => w \in leases
        /\ wpc[w] = "late" => w \in late /\ kind[w] \notin {"row", "snapshot"}
        /\ fenced /\ wpc[w] \in {"snap", "writing"} => w \in stale /\ kind[w] = "snapshot"

\* The steps of Erase that follow a given one.
AfterAudit == {"keys", "shred", "tombstone", "finalize"}
AfterVerify == {"audit"} \cup AfterAudit
AfterGraph == {"rows", "verify"} \cup AfterVerify
AfterCount == {"objects", "list"} \cup AfterList
AfterFence == {"flows", "count"} \cup AfterCount

\* What a call has verified so far stays so, unless it recorded a failure.
CallsVerified ==
    \A r \in Replicas :
        /\ pc[r] \in AfterFence => fenced
        /\ pc[r] \in AfterCount /\ complete[r] => data["flows"] \subseteq late
        /\ pc[r] \in AfterList /\ complete[r] => data["objects"] \subseteq late \cup unlisted
        /\ pc[r] \in AfterGraph => data[r] \subseteq late
        /\ pc[r] \in AfterVerify /\ complete[r] => data["postgres"] = {}
        /\ pc[r] \in AfterAudit /\ complete[r] => data["audit"] = {}
        /\ pc[r] \in {"tombstone", "finalize"} => complete[r]

\* An attestation, and the destruction of the IR key, find the tenant erased.
ErasedFirst ==
    /\ attested # {} \/ ~ irKey =>
          /\ fenced
          /\ data["flows"] \subseteq late /\ data["objects"] \subseteq late \cup unlisted
          /\ data["postgres"] = {} /\ data["audit"] = {}
    /\ \A r \in attested : data[r] \subseteq late

EraseInv == TypeOK /\ WritersFenced /\ CallsVerified /\ ErasedFirst
=============================================================================
