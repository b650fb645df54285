------------------------ MODULE TenantErasureProofs ------------------------
(***************************************************************************)
(* What an erasure promises, for any number of replicas that erase, of     *)
(* writers, of failures and of retained records.                           *)
(***************************************************************************)
EXTENDS TenantErasure, TLAPS

\* A call's record of a step is a Boolean, and its other calls' are untouched.
LEMMA RecordTypes ==
    ASSUME TypeOK, NEW r \in Replicas, NEW ok \in BOOLEAN, Record(r, ok)
    PROVE  complete' \in [Replicas -> BOOLEAN]
<1>1. (complete[r] /\ ok) \in BOOLEAN
  BY Zenon
<1> QED
  BY <1>1, Zenon DEF TypeOK, Record

\* The count of failures stays within its bound.
LEMMA FaultTypes ==
    ASSUME ErasureAssumption, TypeOK, Fault
    PROVE  faults' \in 0 .. MaxFaults
BY DEF TypeOK, Fault, ErasureAssumption

\* Every step keeps the variables in their types.
LEMMA TypeStep ==
    ASSUME ErasureAssumption, TypeOK, [Next]_vars
    PROVE  TypeOK'
<1>1. CASE Suspend \/ Resume \/ Offboard
  BY <1>1 DEF Suspend, Resume, Offboard, SetStatus, irVars, writerVars, TypeOK
<1>2. CASE StageEvidence
  BY <1>2 DEF StageEvidence, registry, writerVars, TypeOK, ErasureAssumption
<1>3. ASSUME NEW w \in Writers, Admit(w) \/ TakeSnapshot(w) \/ AdmitSnapshot(w) \/ Abort(w)
      PROVE  TypeOK'
  BY <1>3 DEF Admit, TakeSnapshot, AdmitSnapshot, Abort, registry, irVars, TypeOK
<1>4. ASSUME NEW w \in Writers, Land(w)
      PROVE  TypeOK'
  <2>1. data' \in [Places -> SUBSET Writers]
    BY <1>4 DEF Land, Store, TypeOK
  <2> QED
    BY <1>4, <2>1 DEF Land, Store, registry, irVars, TypeOK
<1>5. ASSUME NEW w \in Writers, LoseLease(w)
      PROVE  TypeOK'
  BY <1>5, FaultTypes DEF LoseLease, registry, irVars, TypeOK
<1>6. ASSUME NEW r \in Replicas, Prepare(r)
      PROVE  TypeOK'
  BY <1>6 DEF Prepare, registry, writerVars, Steps, TypeOK
<1>7. ASSUME NEW r \in Replicas, Fence(r)
      PROVE  TypeOK'
  BY <1>7, Zenon DEF Fence, FenceRow, Outdate, registry, irVars, Steps, TypeOK
<1>8. ASSUME NEW r \in Replicas, \/ DeleteFlows(r) \/ DeleteObjects(r) \/ DeleteGraph(r)
                                 \/ DeleteRows(r) \/ DestroyKeys(r)
      PROVE  TypeOK'
  BY <1>8 DEF DeleteFlows, DeleteObjects, DeleteGraph, DeleteRows, DestroyKeys, Step,
              registry, writerVars, irVars, Steps, TypeOK
<1>9. ASSUME NEW r \in Replicas, CountFlows(r) \/ ListObjects(r) \/ VerifyRows(r)
      PROVE  TypeOK'
  <2>1. complete' \in [Replicas -> BOOLEAN]
    BY <1>9, RecordTypes, Zenon DEF CountFlows, ListObjects, VerifyRows
  <2> QED
    BY <1>9, <2>1 DEF CountFlows, ListObjects, VerifyRows, Step, registry, writerVars, irVars, Steps, TypeOK
<1>10. ASSUME NEW r \in Replicas, DeleteAudit(r)
      PROVE  TypeOK'
  <2>1. complete' \in [Replicas -> BOOLEAN]
    BY <1>10, RecordTypes, Zenon DEF DeleteAudit, TypeOK
  <2>2. data' \in [Places -> SUBSET Writers]
    BY <1>10, Zenon DEF DeleteAudit, TypeOK
  <2> QED
    BY <1>10, <2>1, <2>2, Zenon DEF DeleteAudit, Step, registry, writerVars, irVars, Steps, TypeOK
<1>11. ASSUME NEW r \in Replicas, SkipRows(r)
      PROVE  TypeOK'
  BY <1>11, FaultTypes DEF SkipRows, Step, registry, writerVars, irVars, Steps, TypeOK
<1>12. ASSUME NEW r \in Replicas, FailStore(r)
      PROVE  TypeOK'
  <2>1. complete' \in [Replicas -> BOOLEAN]
    BY <1>12, RecordTypes, Zenon DEF FailStore
  <2>2. data' \in [Places -> SUBSET Writers]
    BY <1>12 DEF FailStore, TypeOK
  <2>3. \E next \in Steps : Step(r, next)
    BY <1>12 DEF FailStore, Steps
  <2> QED
    BY <1>12, <2>1, <2>2, <2>3, FaultTypes DEF FailStore, Step, registry, writerVars, irVars, TypeOK
<1>13. ASSUME NEW r \in Replicas, Shred(r)
      PROVE  TypeOK'
  <2>1. \E next \in Steps : Step(r, next)
    BY <1>13 DEF Shred, ExecutePlan, Steps
  <2>2. irKey' \in BOOLEAN
    BY <1>13, Zenon DEF Shred, ExecutePlan, TypeOK
  <2> QED
    BY <1>13, <2>1, <2>2 DEF Shred, Step, registry, writerVars, irVars, TypeOK
<1>14. ASSUME NEW r \in Replicas, Tombstone(r)
      PROVE  TypeOK'
  BY <1>14 DEF Tombstone, Step, registry, writerVars, irVars, Steps, TypeOK
<1>15. ASSUME NEW r \in Replicas, Finalize(r)
      PROVE  TypeOK'
  BY <1>15 DEF Finalize, Outdate, irVars, Steps, TypeOK
<1>16. ASSUME NEW r \in Replicas, FailCall(r)
      PROVE  TypeOK'
  BY <1>16, FaultTypes, Zenon DEF FailCall, Step, registry, writerVars, irVars, Steps, TypeOK
<1>17. ASSUME NEW r \in Replicas, Crash(r)
      PROVE  TypeOK'
  BY <1>17, FaultTypes, Zenon DEF Crash, registry, irVars, Steps, TypeOK
<1>18. CASE UNCHANGED vars
  BY <1>18 DEF vars, TypeOK
<1>19. ASSUME NEW w \in Writers, AgentPut(w)
      PROVE  TypeOK'
  BY <1>19, Zenon DEF AgentPut, registry, irVars, TypeOK
<1> QED
  BY <1>1, <1>2, <1>3, <1>4, <1>5, <1>6, <1>7, <1>8, <1>9, <1>10, <1>11, <1>12, <1>13, <1>14, <1>15,
     <1>16, <1>17, <1>18, <1>19
  DEF Next, WriterStep, EraseStep

\* A step keeps a write in flight behind its lease, and outdates the snapshots
\* that the fence overtook.
LEMMA WritersStep ==
    ASSUME ErasureAssumption, EraseInv, TypeOK', [Next]_vars
    PROVE  WritersFenced'
<1> USE DEF EraseInv
<1>1. ASSUME NEW w \in Writers, AgentPut(w)
      PROVE  WritersFenced'
  BY <1>1 DEF AgentPut, registry, WritersFenced, TypeOK
<1>2. ASSUME NEW w \in Writers, Admit(w) \/ TakeSnapshot(w) \/ AdmitSnapshot(w)
      PROVE  WritersFenced'
  BY <1>2 DEF Admit, TakeSnapshot, AdmitSnapshot, Eligible, registry, WritersFenced, TypeOK
<1>3. ASSUME NEW w \in Writers, Land(w) \/ Abort(w)
      PROVE  WritersFenced'
  BY <1>3 DEF Land, Store, Abort, registry, WritersFenced, TypeOK
<1>4. ASSUME NEW w \in Writers, LoseLease(w)
      PROVE  WritersFenced'
  BY <1>4 DEF LoseLease, Targets, registry, WritersFenced, TypeOK
<1>5. ASSUME NEW r \in Replicas, Fence(r)
      PROVE  WritersFenced'
  BY <1>5 DEF Fence, FenceRow, Outdate, registry, WritersFenced, TypeOK
<1>6. ASSUME NEW r \in Replicas, Finalize(r)
      PROVE  WritersFenced'
  BY <1>6 DEF Finalize, Outdate, WritersFenced, TypeOK
<1>7. ASSUME NEW r \in Replicas, Crash(r)
      PROVE  WritersFenced'
  BY <1>7 DEF Crash, registry, WritersFenced, TypeOK
<1>8. CASE UNCHANGED <<fenced, kind, wpc, leases, stale, late>>
  BY <1>8 DEF WritersFenced
<1>9. ASSUME NEW r \in Replicas, (EraseStep(r) /\ ~ Fence(r) /\ ~ Finalize(r)) \/ SkipRows(r) \/ FailStore(r) \/ FailCall(r)
      PROVE  UNCHANGED <<fenced, kind, wpc, leases, stale, late>>
  BY <1>9, ZenonT(30) DEF EraseStep, Prepare, DeleteFlows, CountFlows, DeleteObjects, ListObjects,
              DeleteGraph, DeleteRows, VerifyRows, DeleteAudit, DestroyKeys, Shred, ExecutePlan, Tombstone, SkipRows, FailStore, FailCall,
              Step, registry, writerVars
<1>10. Suspend \/ Resume \/ Offboard \/ StageEvidence \/ UNCHANGED vars
         => UNCHANGED <<fenced, kind, wpc, leases, stale, late>>
  BY Zenon DEF Suspend, Resume, Offboard, SetStatus, StageEvidence, registry, writerVars, vars
<1> QED
  BY <1>1, <1>2, <1>3, <1>4, <1>5, <1>6, <1>7, <1>8, <1>9, <1>10 DEF Next, WriterStep

\* Behind the fence a store gains only writes that had lost their lease and the
\* object store what agents put there, counted as unlisted when a call has
\* listed it or is over; PostgreSQL gains none.  The fence stays, and the late
\* and the unlisted writes are not forgotten.
LEMMA FencedShrinks ==
    ASSUME ErasureAssumption, EraseInv, [Next]_vars, fenced
    PROVE  /\ fenced' /\ late \subseteq late' /\ unlisted \subseteq unlisted'
           /\ \A p \in Places : data'[p] \ data[p] \subseteq late \cup Unfenced(p)
           /\ Listed => data'["objects"] \ data["objects"] \subseteq late \cup unlisted'
           /\ data'["postgres"] \subseteq data["postgres"]
           /\ data'["audit"] \subseteq data["audit"]
<1> USE DEF EraseInv
<1>0. {"flows", "objects", "postgres", "audit"} \subseteq Places /\ Replicas \subseteq Places
  BY DEF Places
<1>1. ASSUME NEW w \in Writers, Land(w)
      PROVE  /\ \A p \in Places : data'[p] \ data[p] \subseteq late
             /\ data'["postgres"] \subseteq data["postgres"]
             /\ data'["audit"] \subseteq data["audit"]
  <2>1. w \in late /\ kind[w] \notin {"row", "snapshot"}
    BY <1>1, ZenonT(30) DEF Land, Refused, WritersFenced
  <2>2. Targets(w) = {kind[w]} /\ "postgres" \notin Targets(w) /\ "audit" \notin Targets(w)
    BY <2>1 DEF Targets, TypeOK, Kinds, ErasureAssumption
  <2>3. \A p \in Places : data'[p] = IF p \in Targets(w) THEN data[p] \cup {w} ELSE data[p]
    BY <1>1 DEF Land, Store
  <2>4. \A p \in Places : data'[p] \subseteq data[p] \cup {w}
    BY <2>3, Zenon
  <2>5. data'["postgres"] = data["postgres"] /\ data'["audit"] = data["audit"]
    BY <1>0, <2>2, <2>3, Zenon
  <2> QED
    BY <2>1, <2>4, <2>5
<1>2. ASSUME ~ \E w \in Writers : Land(w) \/ AgentPut(w)
      PROVE  \A p \in Places : data'[p] \subseteq data[p]
  <2>1. CASE UNCHANGED data
    BY <2>1
  <2>2. ASSUME NEW p \in Places, data' = [data EXCEPT ![p] = {}]
        PROVE  \A q \in Places : data'[q] \subseteq data[q]
    BY <2>2 DEF TypeOK
  <2>3. ASSUME NEW r \in Replicas, EraseStep(r) \/ SkipRows(r) \/ FailStore(r) \/ Crash(r)
        PROVE  data' = data \/ \E p \in Places : data' = [data EXCEPT ![p] = {}]
    <3>1. CASE DeleteAudit(r)
      <4>1. data' = [data EXCEPT !["audit"] = {}] \/ data' = data
        BY <3>1, Zenon DEF DeleteAudit, TypeOK
      <4> QED
        BY <1>0, <4>1
    <3>2. CASE FailStore(r)
      BY <1>0, <3>2 DEF FailStore
    <3> QED
      BY <1>0, <2>3, <3>1, <3>2, Zenon
      DEF EraseStep, Prepare, Fence, FenceRow, DeleteFlows, CountFlows, DeleteGraph, DeleteRows,
          VerifyRows, DestroyKeys, Shred, Tombstone, Finalize, SkipRows, Crash,
          DeleteObjects, ListObjects
  <2>4. CASE \E r \in Replicas : FailCall(r)
    BY <2>4 DEF FailCall
  <2>5. CASE Suspend \/ Resume \/ Offboard \/ StageEvidence \/ UNCHANGED vars
    BY <2>5, Zenon DEF Suspend, Resume, Offboard, SetStatus, StageEvidence, vars
  <2>6. CASE \E w \in Writers : (WriterStep(w) /\ ~ Land(w)) \/ LoseLease(w)
    BY <2>6 DEF WriterStep, Admit, TakeSnapshot, AdmitSnapshot, Abort, LoseLease
  <2> QED
    BY <1>2, <2>1, <2>2, <2>3, <2>4, <2>5, <2>6 DEF Next
<1>3. fenced' /\ late \subseteq late' /\ unlisted \subseteq unlisted'
  <2>1. CASE Suspend \/ Resume \/ Offboard \/ StageEvidence \/ UNCHANGED vars
    BY <2>1, Zenon DEF Suspend, Resume, Offboard, SetStatus, StageEvidence, registry, writerVars, vars
  <2>2. CASE \E w \in Writers : WriterStep(w) \/ LoseLease(w) \/ AgentPut(w)
    BY <2>2, Zenon DEF AgentPut, WriterStep, Admit, TakeSnapshot, AdmitSnapshot, Land, Store, Abort, LoseLease, registry
  <2>3. CASE \E r \in Replicas : EraseStep(r) \/ SkipRows(r) \/ FailStore(r) \/ FailCall(r) \/ Crash(r)
    BY <2>3, ZenonT(30)
    DEF EraseStep, Prepare, Fence, FenceRow, DeleteFlows, CountFlows, DeleteGraph, DeleteRows,
        VerifyRows, DeleteAudit, DestroyKeys, Shred, ExecutePlan, Tombstone, Finalize, SkipRows,
        FailStore, FailCall, Crash, Step, registry, writerVars, DeleteObjects, ListObjects
  <2> QED
    BY <2>1, <2>2, <2>3 DEF Next
<1>4. ASSUME NEW w \in Writers, AgentPut(w)
      PROVE  /\ data'["objects"] \subseteq data["objects"] \cup {w}
             /\ w \in Unfenced("objects")
             /\ Listed => w \in unlisted'
             /\ \A p \in Places \ {"objects"} : data'[p] = data[p]
  BY <1>0, <1>4 DEF AgentPut, Unfenced, Listed, TypeOK
<1>5. CASE \E w \in Writers : Land(w)
  BY <1>0, <1>1, <1>3, <1>5
<1>6. CASE \E w \in Writers : AgentPut(w)
  <2>1. PICK w \in Writers : AgentPut(w)
    BY <1>6
  <2>2. \A p \in Places : data'[p] \ data[p] \subseteq Unfenced(p)
    BY <1>0, <1>4, <2>1
  <2>3. "postgres" \in Places \ {"objects"} /\ "audit" \in Places \ {"objects"}
    BY <1>0
  <2> QED
    BY <1>3, <1>4, <2>1, <2>2, <2>3
<1> QED
  BY <1>0, <1>2, <1>3, <1>5, <1>6

\* What a step behind the fence may do to the places that a call looks at.
FencedMoves(r) ==
    /\ fenced' /\ late \subseteq late' /\ unlisted \subseteq unlisted'
    /\ data'["flows"] \ data["flows"] \subseteq late /\ data'[r] \ data[r] \subseteq late
    /\ Listed => data'["objects"] \ data["objects"] \subseteq late \cup unlisted'
    /\ data'["postgres"] \subseteq data["postgres"]
    /\ data'["audit"] \subseteq data["audit"]

\* Every step behind the fence is such a step.
LEMMA FencedMove ==
    ASSUME ErasureAssumption, EraseInv, [Next]_vars, fenced, NEW r \in Replicas
    PROVE  FencedMoves(r)
<1>1. "flows" \in Places /\ r \in Places /\ Unfenced("flows") = {} /\ Unfenced(r) = {}
  BY DEF Places, Unfenced, ErasureAssumption
<1> QED
  BY <1>1, FencedShrinks DEF FencedMoves

\* What the steps of other calls, of the writers and of the provider leave of
\* a call's findings.
LEMMA CallKept ==
    ASSUME ErasureAssumption, EraseInv, [Next]_vars,
           NEW r \in Replicas, pc'[r] = pc[r], complete'[r] = complete[r]
    PROVE  /\ pc'[r] \in AfterFence => fenced'
           /\ pc'[r] \in AfterCount /\ complete'[r] => data'["flows"] \subseteq late'
           /\ pc'[r] \in AfterList /\ complete'[r] => data'["objects"] \subseteq late' \cup unlisted'
           /\ pc'[r] \in AfterGraph => data'[r] \subseteq late'
           /\ pc'[r] \in AfterVerify /\ complete'[r] => data'["postgres"] = {}
           /\ pc'[r] \in AfterAudit /\ complete'[r] => data'["audit"] = {}
           /\ pc'[r] \in {"tombstone", "finalize"} => complete'[r]
<1>0. pc[r] \in AfterList => Listed
  BY DEF Listed
<1>1. CASE pc[r] \notin AfterFence
  BY <1>1 DEF AfterFence, AfterCount, AfterList, AfterGraph, AfterVerify, AfterAudit
<1>2. CASE pc[r] \in AfterFence
  <2>1. fenced
    BY <1>2 DEF EraseInv, CallsVerified
  <2>2. FencedMoves(r)
    BY <2>1, FencedMove
  <2> QED
    BY <1>0, <2>2 DEF FencedMoves, EraseInv, CallsVerified
<1> QED
  BY <1>1, <1>2

\* A call's own step records what it found.
LEMMA CallsStep ==
    ASSUME ErasureAssumption, EraseInv, TypeOK', [Next]_vars
    PROVE  CallsVerified'
<1> USE DEF AfterFence, AfterCount, AfterList, AfterGraph, AfterVerify, AfterAudit
<1>0. ASSUME NEW r \in Replicas, pc[r] \in AfterList
      PROVE  Listed
  BY <1>0 DEF Listed
<1>1. CASE UNCHANGED <<pc, complete>>
  BY <1>1, CallKept DEF CallsVerified
<1>2. (\E w \in Writers : WriterStep(w) \/ LoseLease(w) \/ AgentPut(w)) \/ Suspend \/ Resume \/ Offboard
         \/ StageEvidence \/ UNCHANGED vars
      => UNCHANGED <<pc, complete>>
  BY DEF WriterStep, Admit, TakeSnapshot, AdmitSnapshot, Land, Store, Abort, LoseLease, AgentPut,
         Suspend, Resume, Offboard, SetStatus, StageEvidence, vars
<1>3. ASSUME NEW r \in Replicas, EraseStep(r) \/ SkipRows(r) \/ FailStore(r) \/ FailCall(r) \/ Crash(r)
      PROVE  CallsVerified'
  <2>0. \A q \in Replicas : q # r => pc'[q] = pc[q] /\ complete'[q] = complete[q]
    <3>1. ASSUME NEW ok, Record(r, ok)
          PROVE  \A q \in Replicas : q # r => complete'[q] = complete[q]
      BY <3>1, Zenon DEF Record, EraseInv, TypeOK
    <3>2. CASE CountFlows(r) \/ ListObjects(r) \/ VerifyRows(r) \/ DeleteAudit(r) \/ FailStore(r)
      <4>1. \A q \in Replicas : q # r => complete'[q] = complete[q]
        BY <3>1, <3>2, Zenon DEF CountFlows, ListObjects, VerifyRows, DeleteAudit, FailStore
      <4> QED
        BY <3>2, <4>1, ZenonT(30) DEF CountFlows, ListObjects, VerifyRows, DeleteAudit, FailStore, Step, EraseInv, TypeOK
    <3>3. CASE Fence(r) \/ Finalize(r) \/ Crash(r) \/ Prepare(r)
      BY <3>3, ZenonT(30) DEF Fence, FenceRow, Finalize, Crash, Prepare, EraseInv, TypeOK
    <3>4. ASSUME NEW next, Step(r, next), UNCHANGED complete
          PROVE  \A q \in Replicas : q # r => pc'[q] = pc[q] /\ complete'[q] = complete[q]
      BY <3>4 DEF Step, EraseInv, TypeOK
    <3>5. CASE \/ DeleteFlows(r) \/ DeleteObjects(r) \/ DeleteGraph(r) \/ DeleteRows(r) \/ DestroyKeys(r)
               \/ Tombstone(r) \/ SkipRows(r) \/ FailCall(r) \/ Shred(r)
      BY <3>4, <3>5, ZenonT(30) DEF DeleteFlows, DeleteObjects, DeleteGraph, DeleteRows, DestroyKeys, Tombstone, SkipRows,
                        FailCall, Shred, ExecutePlan
    <3> QED
      BY <1>3, <3>2, <3>3, <3>5 DEF EraseStep
  <2> DEFINE Found ==
        /\ pc'[r] \in AfterFence => fenced'
        /\ pc'[r] \in AfterCount /\ complete'[r] => data'["flows"] \subseteq late'
        /\ pc'[r] \in AfterList /\ complete'[r] => data'["objects"] \subseteq late' \cup unlisted'
        /\ pc'[r] \in AfterGraph => data'[r] \subseteq late'
        /\ pc'[r] \in AfterVerify /\ complete'[r] => data'["postgres"] = {}
        /\ pc'[r] \in AfterAudit /\ complete'[r] => data'["audit"] = {}
        /\ pc'[r] \in {"tombstone", "finalize"} => complete'[r]
  <2> SUFFICES Found
    BY <2>0, CallKept DEF CallsVerified
  <2>1. {"flows", "objects", "postgres", "audit", r} \subseteq Places
        /\ r \notin {"flows", "objects", "postgres", "audit"}
    BY DEF Places, ErasureAssumption
  <2>2. pc[r] \in AfterFence => fenced /\ FencedMoves(r)
    BY FencedMove DEF EraseInv, CallsVerified
  <2> USE DEF EraseInv, TypeOK, CallsVerified, FencedMoves
  <2>3. CASE pc'[r] \in {"idle", "fence"}
    BY <2>3
  <2>4. CASE Fence(r)
    BY <2>4 DEF Fence, FenceRow
  <2>5. CASE DeleteFlows(r)
    BY <2>2, <2>5 DEF DeleteFlows, Step
  <2>6. CASE CountFlows(r)
    <3>1. pc'[r] = "objects" /\ complete'[r] = (complete[r] /\ data["flows"] = {}) /\ data' = data
          /\ pc[r] = "count"
      BY <2>6, Zenon DEF CountFlows, Step, Record
    <3> QED
      BY <1>0, <2>2, <3>1
  <2>7. CASE DeleteGraph(r)
    <3>1. pc'[r] = "rows" /\ complete'[r] = complete[r] /\ data'[r] = {} /\ pc[r] = "graph"
      BY <2>1, <2>7 DEF DeleteGraph, Step
    <3> QED
      BY <1>0, <2>2, <3>1
  <2>8. CASE DeleteRows(r) \/ SkipRows(r)
    <3>1. pc'[r] = "verify" /\ complete'[r] = complete[r] /\ pc[r] = "rows"
      BY <2>8 DEF DeleteRows, SkipRows, Step
    <3> QED
      BY <1>0, <2>2, <3>1
  <2>9. CASE VerifyRows(r)
    <3>1. pc'[r] = (IF data["postgres"] = {} THEN "audit" ELSE "keys") /\ data' = data
          /\ complete'[r] = (complete[r] /\ data["postgres"] = {}) /\ pc[r] = "verify"
      BY <2>9, Zenon DEF VerifyRows, Step, Record
    <3> QED
      BY <1>0, <2>2, <3>1
  <2>10. CASE DeleteAudit(r)
    <3>1. pc'[r] = "keys" /\ pc[r] = "audit"
          /\ complete'[r] = (complete[r] /\ (fenced /\ status # "deleted"))
      BY <2>10, Zenon DEF DeleteAudit, Step, Record
    <3>2. complete'[r] => data'["audit"] = {} /\ complete[r]
      BY <2>1, <2>10, <3>1 DEF DeleteAudit
    <3> QED
      BY <1>0, <2>2, <3>1, <3>2
  <2>11. CASE DestroyKeys(r)
    <3>1. pc'[r] = "shred" /\ complete'[r] = complete[r] /\ pc[r] = "keys"
      BY <2>11 DEF DestroyKeys, Step
    <3> QED
      BY <1>0, <2>2, <3>1
  <2>12. CASE FailStore(r)
    <3>1. ~ complete'[r]
      BY <2>12, Zenon DEF FailStore, Record
    <3>2. \/ pc[r] \in {"flows", "count"} /\ pc'[r] = "objects"
          \/ pc[r] \in {"objects", "list"} /\ pc'[r] = "graph"
          \/ pc[r] \in {"verify", "audit"} /\ pc'[r] = "keys"
          \/ pc[r] = "keys" /\ pc'[r] = "shred"
      BY <2>12 DEF FailStore, Step
    <3> QED
      BY <1>0, <2>2, <3>1, <3>2
  <2>13. CASE Shred(r)
    <3>1. pc[r] = "shred" /\ complete'[r] = complete[r]
          /\ (pc'[r] = "idle" \/ (complete[r] /\ pc'[r] \in {"idle", "tombstone", "finalize"}))
      BY <2>13 DEF Shred, ExecutePlan, Step
    <3> QED
      BY <1>0, <2>2, <3>1
  <2>14. CASE Tombstone(r)
    <3>1. pc'[r] = "finalize" /\ complete'[r] = complete[r] /\ pc[r] = "tombstone"
      BY <2>14 DEF Tombstone, Step
    <3> QED
      BY <1>0, <2>2, <3>1
  <2>15. CASE DeleteObjects(r)
    <3>1. pc'[r] = "list" /\ complete'[r] = complete[r] /\ pc[r] = "objects"
      BY <2>15 DEF DeleteObjects, Step
    <3> QED
      BY <1>0, <2>2, <3>1
  <2>16. CASE ListObjects(r)
    <3>1. pc'[r] = "graph" /\ complete'[r] = (complete[r] /\ data["objects"] = {}) /\ data' = data
          /\ pc[r] = "list"
      BY <2>16, Zenon DEF ListObjects, Step, Record
    <3> QED
      BY <1>0, <2>2, <3>1
  <2>17. Prepare(r) \/ Finalize(r) \/ FailCall(r) \/ Crash(r) => pc'[r] \in {"idle", "fence"}
    BY Zenon DEF Prepare, Finalize, FailCall, Crash, Step
  <2> QED
    BY <1>3, <2>3, <2>4, <2>5, <2>6, <2>7, <2>8, <2>9, <2>10, <2>11, <2>12, <2>13, <2>14, <2>15, <2>16, <2>17, ZenonT(30)
    DEF EraseStep
<1> QED
  BY <1>1, <1>2, <1>3 DEF Next

\* Only a call that found every store empty attests or destroys the IR key.
LEMMA ErasedStep ==
    ASSUME ErasureAssumption, EraseInv, TypeOK', [Next]_vars
    PROVE  ErasedFirst'
<1> DEFINE Erased == /\ data["flows"] \subseteq late /\ data["objects"] \subseteq late \cup unlisted
                     /\ data["postgres"] = {} /\ data["audit"] = {}
<1>1. fenced /\ Erased /\ Listed => fenced' /\ Erased'
  <2>1. "flows" \in Places /\ Unfenced("flows") = {}
    BY DEF Places, Unfenced
  <2> QED
    BY <2>1, FencedShrinks
<1>2. ASSUME NEW r \in Replicas, fenced, data[r] \subseteq late
      PROVE  data'[r] \subseteq late'
  BY <1>2, FencedMove DEF FencedMoves
<1>3. ASSUME NEW r \in Replicas, pc[r] \in AfterAudit, complete[r]
      PROVE  fenced /\ Erased /\ Listed /\ data[r] \subseteq late
  BY <1>3 DEF EraseInv, CallsVerified, Listed, AfterFence, AfterCount, AfterList, AfterGraph,
              AfterVerify, AfterAudit
<1>4. CASE UNCHANGED <<attested, irKey>>
  BY <1>1, <1>2, <1>4 DEF EraseInv, TypeOK, ErasedFirst, Listed
<1>5. ASSUME NEW r \in Replicas, Finalize(r)
      PROVE  ErasedFirst'
  <2>1. pc[r] \in AfterAudit /\ complete[r]
    BY <1>5 DEF Finalize, AfterAudit, EraseInv, CallsVerified
  <2>2. fenced /\ Erased /\ Listed /\ data[r] \subseteq late
    BY <1>3, <2>1
  <2>3. attested' \subseteq attested \cup {r} /\ irKey' = irKey
    BY <1>5 DEF Finalize, irVars
  <2> QED
    BY <1>1, <1>2, <2>2, <2>3 DEF EraseInv, TypeOK, ErasedFirst
<1>6. ASSUME NEW r \in Replicas, Shred(r) \/ FailCall(r)
      PROVE  ErasedFirst'
  <2>1. attested' = attested
    BY <1>6, Zenon DEF Shred, ExecutePlan, FailCall, Step
  <2>2. irKey' = irKey \/ (pc[r] \in AfterAudit /\ complete[r])
    BY <1>6, Zenon DEF Shred, ExecutePlan, FailCall, AfterAudit
  <2> QED
    BY <1>1, <1>2, <1>3, <1>4, <2>1, <2>2 DEF EraseInv, TypeOK, ErasedFirst
<1>7. ASSUME NEW r \in Replicas, (EraseStep(r) /\ ~ Finalize(r) /\ ~ Shred(r))
                                   \/ SkipRows(r) \/ FailStore(r) \/ Crash(r)
      PROVE  UNCHANGED <<attested, irKey>>
  BY <1>7, Zenon
  DEF EraseStep, Prepare, Fence, FenceRow, DeleteFlows, CountFlows, DeleteGraph, DeleteRows,
      VerifyRows, DeleteAudit, DestroyKeys, Tombstone, SkipRows, FailStore, Crash, Step, irVars,
      DeleteObjects, ListObjects
<1>8. (\E w \in Writers : WriterStep(w) \/ LoseLease(w) \/ AgentPut(w)) \/ Suspend \/ Resume \/ Offboard
         \/ StageEvidence \/ UNCHANGED vars
      => UNCHANGED <<attested, irKey>>
  BY DEF WriterStep, Admit, TakeSnapshot, AdmitSnapshot, Land, Store, Abort, LoseLease, AgentPut,
         Suspend, Resume, Offboard, SetStatus, StageEvidence, irVars, vars
<1> QED
  BY <1>4, <1>5, <1>6, <1>7, <1>8 DEF Next

\* The inductive invariant of the erasure: leases and outdated snapshots keep
\* writers out, and every call knows what it has verified.
THEOREM ErasureInvariant == Spec => []EraseInv
<1>1. Init => EraseInv
  <2> SUFFICES ASSUME Init PROVE EraseInv
    OBVIOUS
  <2>1. kind \in [Writers -> Kinds] /\ MaxEvidence \in Nat /\ MaxFaults \in Nat
    BY ErasureAssumption DEF Init, ErasureAssumption
  <2>2. plan \in [state : {"none", "planned", "tombstone"}, records : 0 .. MaxEvidence]
    BY <2>1 DEF Init, NoPlan
  <2>3. complete \in [Replicas -> BOOLEAN] /\ fenced \in BOOLEAN /\ irKey \in BOOLEAN
    BY Zenon DEF Init
  <2>4. TypeOK
    BY <2>1, <2>2, <2>3 DEF Init, TypeOK, Steps
  <2> QED
    BY <2>4 DEF Init, EraseInv, WritersFenced, CallsVerified, ErasedFirst, AfterFence, AfterCount,
                AfterList, AfterGraph, AfterVerify, AfterAudit
<1>2. EraseInv /\ [Next]_vars => EraseInv'
  <2> SUFFICES ASSUME EraseInv, [Next]_vars PROVE EraseInv'
    OBVIOUS
  <2>1. TypeOK'
    BY ErasureAssumption, TypeStep DEF EraseInv
  <2>2. WritersFenced'
    BY <2>1, ErasureAssumption, WritersStep
  <2>3. CallsVerified'
    BY <2>1, ErasureAssumption, CallsStep
  <2>4. ErasedFirst'
    BY <2>1, ErasureAssumption, ErasedStep
  <2> QED
    BY <2>1, <2>2, <2>3, <2>4 DEF EraseInv
<1> QED
  BY <1>1, <1>2, PTL DEF Spec

\* A complete attestation of Erase is true when it is given and stays true, but
\* for a write whose lease was lost and, in the object store, an artifact that an
\* agent put there after a call of Erase had listed it.
THEOREM AttestationHolds == Spec => []AttestedIsEmpty
<1>1. EraseInv => AttestedIsEmpty
  BY DEF EraseInv, ErasedFirst, AttestedIsEmpty
<1> QED
  BY <1>1, ErasureInvariant, PTL

\* finalizeIRAttribution destroys the IR key of a tenant only when its data is
\* gone from the shared stores.
THEOREM ShredIsLast == Spec => []ShredFollowsErasure
<1>1. EraseInv => ShredFollowsErasure
  BY DEF EraseInv, ErasedFirst, ShredFollowsErasure
<1> QED
  BY <1>1, ErasureInvariant, PTL

\* After fenceTenantAuditWrites no step adds to a store, but for a write whose
\* lease was lost and an agent's own put into the object store.
THEOREM FenceHolds == Spec => FencedStoresOnlyShrink
<1>1. EraseInv /\ [Next]_vars =>
        [fenced => \A p \in Places : data'[p] \ data[p] \subseteq late \cup Unfenced(p)]_vars
  BY ErasureAssumption, FencedShrinks
<1> QED
  BY <1>1, ErasureInvariant, PTL DEF Spec, FencedStoresOnlyShrink
=============================================================================
