------------------------ MODULE ResultPipelineProofs ------------------------
(***************************************************************************)
(* Results on the bus.  The agent's call is acknowledged only when none of *)
(* its records is in the producer's memory.  No session of a consumer      *)
(* group ever commits past a record that has not been handled, whatever    *)
(* the number of sessions and records; the result pipeline is an instance  *)
(* of the consumer group and commits no record it has not accounted for;   *)
(* and the breaker in front of the stores lets one probe through at a      *)
(* time.                                                                   *)
(***************************************************************************)
EXTENDS ResultPipeline, ResultStream, Breaker, WellFoundedInduction, TLAPS

-----------------------------------------------------------------------------
(* The consumer group. *)

\* A set of naturals has a least member.
LEMMA LeastMember ==
    ASSUME NEW T \in SUBSET Nat, T # {}
    PROVE  \E m \in T : \A g \in T : m <= g
<1>1. PICK m \in T : \A g \in T : ~(<<g, m>> \in OpToRel(<, Nat))
  BY WFMin, NatLessThanWellFounded, Zenon
<1>2. \A g \in T : ~(g < m)
  BY <1>1, Zenon DEF OpToRel
<1> QED
  BY <1>2

\* A bounded set of naturals has a greatest member.
LEMMA GreatestMember ==
    ASSUME NEW n \in Nat, NEW T \in SUBSET (0..n), T # {}
    PROVE  \E h \in T : \A o \in T : h >= o
<1> DEFINE D == {d \in 0..n : n - d \in T}
<1>1. D \in SUBSET Nat /\ D # {}
  <2>1. PICK t \in T : TRUE
    BY Zenon
  <2>2. t \in 0..n /\ n - t \in 0..n /\ n - (n - t) = t
    BY <2>1
  <2>3. n - t \in D
    BY <2>1, <2>2
  <2> QED
    BY <2>3
<1>2. PICK d \in D : \A g \in D : d <= g
  BY <1>1, LeastMember, Zenon
<1>3. \A o \in T : n - o \in D
  <2> TAKE o \in T
  <2>1. o \in 0..n /\ n - o \in 0..n /\ n - (n - o) = o
    OBVIOUS
  <2> QED
    BY <2>1
<1>4. \A o \in T : n - d >= o
  BY <1>2, <1>3
<1> QED
  BY <1>2, <1>4

\* The session's ceiling is at or below its failures and never above the old one.
LEMMA CeilingBounds ==
    ASSUME GroupConstants, GroupTypeOK, NEW s \in Sessions
    PROVE  /\ Ceiling(s) \in {firstFail[s]} \cup failed[s]
           /\ Ceiling(s) \in 1..(N + 1)
           /\ \A g \in {firstFail[s]} \cup failed[s] : Ceiling(s) <= g
<1> DEFINE T == {firstFail[s]} \cup failed[s]
<1>1. T \in SUBSET Nat /\ T # {} /\ T \subseteq 1..(N + 1)
  BY DEF GroupConstants, GroupTypeOK, Offsets
<1>2. \E m \in T : \A g \in T : m <= g
  <2> HIDE DEF T
  <2> QED
    BY <1>1, LeastMember
<1>3. Ceiling(s) \in T /\ \A g \in T : Ceiling(s) <= g
  BY <1>2 DEF Ceiling
<1> QED
  BY <1>1, <1>3

\* The marked head is one of the candidates.
LEMMA MarkedHeadIsMember ==
    ASSUME N \in Nat, NEW old \in 0..N, NEW marks \in SUBSET Offsets
    PROVE  MarkedHead(old, marks) \in {old} \cup marks
<1> DEFINE T == {old} \cup marks
<1>1. T \in SUBSET (0..N) /\ T # {}
  BY DEF Offsets
<1>2. \E h \in T : \A o \in T : h >= o
  <2> HIDE DEF T
  <2> QED
    BY <1>1, GreatestMember, Zenon
<1> QED
  BY <1>2 DEF MarkedHead

\* A fresh group has committed nothing.
LEMMA GroupInitInv ==
    ASSUME GroupConstants, GroupInit
    PROVE  GroupInv
  BY DEF GroupConstants, GroupInit, GroupInv, GroupTypeOK, CommittedIsSettled,
         MarkedIsSettled, OutcomesAreOfBatch, ReachedIsCovered, Offsets

\* Every step keeps what a session has passed settled, in hand, or at its ceiling.
LEMMA GroupNextInv ==
    ASSUME GroupConstants, GroupInv, [GroupNext]_groupVars
    PROVE  GroupInv'
<1> USE DEF GroupInv
<1>1. ASSUME NEW s \in Sessions, NEW k \in Offsets, Poll(s, k)
      PROVE  GroupInv'
  <2>1. GroupTypeOK'
    BY <1>1 DEF Poll, GroupTypeOK, Offsets, GroupConstants
  <2>2. CommittedIsSettled' /\ MarkedIsSettled'
    BY <1>1 DEF Poll, CommittedIsSettled, MarkedIsSettled
  <2>3. OutcomesAreOfBatch'
    BY <1>1 DEF Poll, OutcomesAreOfBatch, GroupTypeOK
  <2>4. ReachedIsCovered'
    BY <1>1 DEF Poll, ReachedIsCovered, GroupTypeOK, Offsets, GroupConstants
  <2> QED
    BY <2>1, <2>2, <2>3, <2>4
<1>2. ASSUME NEW s \in Sessions, NEW o \in Offsets, HandlerOk(s, o)
      PROVE  GroupInv'
  BY <1>2 DEF HandlerOk, Pending, GroupTypeOK, CommittedIsSettled, MarkedIsSettled,
              OutcomesAreOfBatch, ReachedIsCovered
<1>3. ASSUME NEW s \in Sessions, NEW o \in Offsets, HandlerFailed(s, o)
      PROVE  GroupInv'
  BY <1>3 DEF HandlerFailed, Pending, GroupTypeOK, CommittedIsSettled, MarkedIsSettled,
              OutcomesAreOfBatch, ReachedIsCovered
<1>4. ASSUME NEW s \in Sessions, MarkBatch(s)
      PROVE  GroupInv'
  <2> DEFINE marks == {o \in okay[s] : o < Ceiling(s)}
             head == MarkedHead(marked[s], marks)
  <2>1. /\ Ceiling(s) \in {firstFail[s]} \cup failed[s]
        /\ Ceiling(s) \in 1..(N + 1)
        /\ \A g \in {firstFail[s]} \cup failed[s] : Ceiling(s) <= g
    BY CeilingBounds
  <2>2. marked[s] \in 0..N /\ marks \in SUBSET Offsets
    BY DEF GroupTypeOK
  <2>3. head \in {marked[s]} \cup marks
    BY <2>2, MarkedHeadIsMember DEF GroupConstants
  <2>4. batch[s] = okay[s] \cup failed[s]
    BY <1>4 DEF MarkBatch, Pending, OutcomesAreOfBatch
  <2>5. \A o \in Offsets : (o <= pos[s] \/ \E b \in batch[s] : o <= b)
                               => o \in settled \/ Ceiling(s) <= o
    BY <2>1, <2>4 DEF ReachedIsCovered, OutcomesAreOfBatch, GroupTypeOK, Offsets, GroupConstants
  <2>6. head \in 0..N /\ 1..head \subseteq settled
    <3>1. CASE head = marked[s]
      BY <3>1, <2>2 DEF MarkedIsSettled
    <3>2. CASE head \in marks
      <4>1. head \in batch[s] /\ head < Ceiling(s) /\ head \in Offsets
        BY <3>2, <2>2, <2>4
      <4> HIDE DEF head
      <4>2. ASSUME NEW o \in 1..head PROVE o \in settled
        <5>1. o \in Offsets /\ o <= head /\ ~(Ceiling(s) <= o)
          BY <4>1, <4>2, <2>1 DEF Offsets, GroupConstants
        <5> QED
          BY <5>1, <4>1, <2>5
      <4> QED
        BY <4>1, <4>2 DEF Offsets, GroupConstants
    <3> QED
      BY <2>3, <3>1, <3>2
  <2>7. marked' = [marked EXCEPT ![s] = head] \/ marked' = marked
    BY <1>4 DEF MarkBatch
  <2>8. /\ firstFail' = [firstFail EXCEPT ![s] = Ceiling(s)]
        /\ batch' = [batch EXCEPT ![s] = {}]
        /\ okay' = [okay EXCEPT ![s] = {}]
        /\ failed' = [failed EXCEPT ![s] = {}]
        /\ UNCHANGED <<committed, owner, up, pos, settled>>
    BY <1>4 DEF MarkBatch, DropBatch
  <2> HIDE DEF marks, head
  <2>9. GroupTypeOK'
    BY <2>1, <2>6, <2>7, <2>8 DEF GroupTypeOK
  <2>10. CommittedIsSettled' /\ MarkedIsSettled'
    BY <2>6, <2>7, <2>8 DEF CommittedIsSettled, MarkedIsSettled, GroupTypeOK
  <2>11. OutcomesAreOfBatch'
    BY <2>8 DEF OutcomesAreOfBatch, GroupTypeOK
  <2>12. ReachedIsCovered'
    BY <2>5, <2>8 DEF ReachedIsCovered, GroupTypeOK
  <2> QED
    BY <2>9, <2>10, <2>11, <2>12
<1>5. ASSUME NEW s \in Sessions, CommitMarks(s)
      PROVE  GroupInv'
  BY <1>5 DEF CommitMarks, GroupTypeOK, CommittedIsSettled, MarkedIsSettled,
              OutcomesAreOfBatch, ReachedIsCovered, GroupConstants
<1>6. ASSUME NEW s \in Sessions, Rebalance(s)
      PROVE  GroupInv'
  <2>1. GroupTypeOK'
    BY <1>6 DEF Rebalance, GroupTypeOK, GroupConstants
  <2>2. CommittedIsSettled' /\ MarkedIsSettled' /\ OutcomesAreOfBatch'
    BY <1>6 DEF Rebalance, GroupTypeOK, CommittedIsSettled, MarkedIsSettled, OutcomesAreOfBatch
  <2>3. ReachedIsCovered'
    BY <1>6 DEF Rebalance, GroupTypeOK, CommittedIsSettled, ReachedIsCovered, Offsets, GroupConstants
  <2> QED
    BY <2>1, <2>2, <2>3
<1>7. ASSUME NEW s \in Sessions, Leave(s)
      PROVE  GroupInv'
  <2>1. GroupTypeOK'
    BY <1>7 DEF Leave, DropBatch, GroupTypeOK, GroupConstants
  <2>2. CommittedIsSettled' /\ MarkedIsSettled' /\ OutcomesAreOfBatch'
    BY <1>7 DEF Leave, DropBatch, GroupTypeOK, CommittedIsSettled, MarkedIsSettled, OutcomesAreOfBatch
  <2>3. ReachedIsCovered'
    BY <1>7 DEF Leave, DropBatch, GroupTypeOK, ReachedIsCovered, Offsets, GroupConstants
  <2> QED
    BY <2>1, <2>2, <2>3
<1>8. ASSUME NEW s \in Sessions, Join(s)
      PROVE  GroupInv'
  BY <1>8 DEF Join, GroupTypeOK, CommittedIsSettled, MarkedIsSettled,
              OutcomesAreOfBatch, ReachedIsCovered
<1>9. CASE UNCHANGED groupVars
  BY <1>9 DEF groupVars, GroupTypeOK, CommittedIsSettled, MarkedIsSettled,
              OutcomesAreOfBatch, ReachedIsCovered, Offsets
<1> QED
  BY <1>1, <1>2, <1>3, <1>4, <1>5, <1>6, <1>7, <1>8, <1>9 DEF GroupNext

\* The inductive invariant holds in every reachable state.
THEOREM GroupInvariant == GroupSpec => []GroupInv
<1>1. GroupInit => GroupInv
  BY GroupConstants, GroupInitInv
<1>2. GroupInv /\ [GroupNext]_groupVars => GroupInv'
  BY GroupConstants, GroupNextInv
<1> QED
  BY <1>1, <1>2, PTL DEF GroupSpec

\* Every value of every variable is of its type.
THEOREM GroupTypeCorrect == GroupSpec => []GroupTypeOK
<1>1. GroupInv => GroupTypeOK
  BY DEF GroupInv
<1> QED
  BY <1>1, GroupInvariant, PTL

\* The committed offset never passes an unhandled record, for any number of
\* consumers and records (markable's contract, kafka.go).
THEOREM CommitSafety == GroupSpec => []CommittedIsSettled
<1>1. GroupInv => CommittedIsSettled
  BY DEF GroupInv
<1> QED
  BY <1>1, GroupInvariant, PTL

-----------------------------------------------------------------------------
(* The result pipeline. *)

\* The types the accounting needs.
StageTypeOK == /\ stage \in [Sessions -> [Offsets -> {"idle", "queued"} \cup AtWorker]]
               /\ sawDrop \in [Sessions -> SUBSET Offsets]

\* The inductive invariant.
PipeInv == GroupInv /\ StageTypeOK /\ SettledIsAccounted

\* Every step of the pipeline is a step of the consumer group, or none of its
\* business.
LEMMA PipeStepIsGroupStep ==
    ASSUME [PipeNext]_pipeVars
    PROVE  [GroupNext]_groupVars
<1> USE DEF GroupNext
<1>1. ASSUME NEW s \in Sessions, GroupStep(s) \/ Unsubscribe(s) \/ Crash(s) \/ Start(s)
      PROVE  GroupNext
  BY <1>1 DEF GroupStep, Unsubscribe, Crash, Start
<1>2. ASSUME NEW s \in Sessions, Stop(s)
      PROVE  UNCHANGED groupVars
  BY <1>2 DEF Stop
<1>3. ASSUME NEW s \in Sessions, NEW o \in Offsets,
             PollBatch(s, o) \/ Refuse(s, o) \/ Hold(s, o) \/ GiveUp(s, o)
      PROVE  GroupNext
  BY <1>3 DEF PollBatch, Refuse, Hold, GiveUp
<1>4. ASSUME NEW s \in Sessions, NEW o \in Offsets,
             Enqueue(s, o) \/ TakeItem(s, o) \/ DlqDelivered(s, o)
      PROVE  UNCHANGED groupVars
  BY <1>4 DEF Enqueue, TakeItem, DlqDelivered
<1>5. ASSUME NEW s \in Sessions, NEW o \in Offsets, WriteStep(s, o)
      PROVE  [GroupNext]_groupVars
  <2>1. ASSUME NEW ok \in BOOLEAN, Answer(s, o, ok)
        PROVE  [GroupNext]_groupVars
    BY <2>1 DEF Answer
  <2> QED
    BY <1>5, <2>1, Zenon DEF WriteStep, WriteOk, WriteUnknown, WriteRejected, WritePanics,
                      ParkFails, ParkAccepted, CompareDropped
<1>6. CASE UNCHANGED pipeVars
  BY <1>6 DEF pipeVars
<1> QED
  BY <1>1, <1>2, <1>3, <1>4, <1>5, <1>6 DEF PipeNext

\* An answer settles a record only when it says so, and forgets the item.
LEMMA AnswerAccounts ==
    ASSUME PipeInv, NEW s \in Sessions, NEW o \in Offsets, NEW ok \in BOOLEAN,
           Answer(s, o, ok)
    PROVE  /\ settled' \subseteq settled \cup (IF ok THEN {o} ELSE {})
           /\ stage' = [stage EXCEPT ![s][o] = "idle"]
           /\ sawDrop' = [sawDrop EXCEPT ![s] = @ \ {o}]
           /\ StageTypeOK'
           /\ \A t \in Sessions, p \in Offsets :
                 /\ stage'[t][p] = "accepted" => p \in parked
                 /\ stage'[t][p] = "lost" => p \in sawDrop'[t]
<1>1. stage' = [stage EXCEPT ![s][o] = "idle"] /\ sawDrop' = [sawDrop EXCEPT ![s] = @ \ {o}]
  BY DEF Answer, Enter
<1>2. settled' \subseteq settled \cup (IF ok THEN {o} ELSE {})
  BY DEF Answer, HandlerOk, HandlerFailed, groupVars
<1>3. StageTypeOK'
  BY <1>1 DEF AtWorker, StageTypeOK, PipeInv
<1>4. ASSUME NEW t \in Sessions, NEW p \in Offsets
      PROVE  /\ stage'[t][p] = "accepted" => p \in parked
             /\ stage'[t][p] = "lost" => p \in sawDrop'[t]
  BY <1>1 DEF PipeInv, AtWorker, StageTypeOK, SettledIsAccounted
<1> QED
  BY <1>1, <1>2, <1>3, <1>4

\* Every step keeps the accounting.
LEMMA PipeNextAccounts ==
    ASSUME GroupConstants, PipeInv, [PipeNext]_pipeVars
    PROVE  StageTypeOK' /\ SettledIsAccounted'
<1> USE DEF PipeInv
<1>1. ASSUME NEW s \in Sessions, GroupStep(s) \/ Unsubscribe(s) \/ Stop(s) \/ Start(s)
      PROVE  StageTypeOK' /\ SettledIsAccounted'
  BY <1>1 DEF GroupStep, Unsubscribe, Stop, Start, MarkBatch, CommitMarks, Rebalance, Leave,
              Join, groupVars, stageVars, outcomeVars, AtWorker, StageTypeOK, SettledIsAccounted
<1>2. ASSUME NEW s \in Sessions, Crash(s)
      PROVE  StageTypeOK' /\ SettledIsAccounted'
  BY <1>2 DEF Crash, Leave, DropBatch, AtWorker, StageTypeOK, SettledIsAccounted
<1>3. ASSUME NEW s \in Sessions, NEW o \in Offsets,
             PollBatch(s, o) \/ Refuse(s, o) \/ Hold(s, o) \/ GiveUp(s, o)
      PROVE  StageTypeOK' /\ SettledIsAccounted'
  BY <1>3 DEF PollBatch, Refuse, Hold, GiveUp, Poll, HandlerOk, HandlerFailed,
              stageVars, outcomeVars, AtWorker, StageTypeOK, SettledIsAccounted
<1>4. ASSUME NEW s \in Sessions, NEW o \in Offsets,
             Enqueue(s, o) \/ TakeItem(s, o) \/ DlqDelivered(s, o)
      PROVE  StageTypeOK' /\ SettledIsAccounted'
  <2>1. CASE Enqueue(s, o)
    BY <2>1 DEF Enqueue, Enter, groupVars, outcomeVars, AtWorker, StageTypeOK, SettledIsAccounted
  <2>2. CASE TakeItem(s, o)
    BY <2>2 DEF TakeItem, Enter, groupVars, outcomeVars, AtWorker, StageTypeOK, SettledIsAccounted
  <2>3. CASE DlqDelivered(s, o)
    BY <2>3 DEF DlqDelivered, groupVars, stageVars, AtWorker, StageTypeOK, SettledIsAccounted
  <2> QED
    BY <1>4, <2>1, <2>2, <2>3
<1>5. ASSUME NEW s \in Sessions, NEW o \in Offsets, WriteStep(s, o)
      PROVE  StageTypeOK' /\ SettledIsAccounted'
  <2>1. CASE WriteOk(s, o) \/ WriteRejected(s, o)
    BY <2>1, AnswerAccounts, Zenon DEF WriteOk, WriteRejected, SettledIsAccounted
  <2>2. CASE WriteUnknown(s, o) \/ WritePanics(s, o)
    BY <2>2, AnswerAccounts, Zenon DEF WriteUnknown, WritePanics, SettledIsAccounted
  <2>3. CASE ParkFails(s, o)
    BY <2>3 DEF ParkFails, Enter, InStage, groupVars, AtWorker, StageTypeOK, SettledIsAccounted
  <2>4. CASE ParkAccepted(s, o)
    BY <2>4 DEF ParkAccepted, Enter, groupVars, AtWorker, StageTypeOK, SettledIsAccounted
  <2>5. CASE CompareDropped(s, o)
    <3>1. o \notin sawDrop[s] => o \in parked
      BY <2>5 DEF CompareDropped, SettledIsAccounted
    <3> QED
      BY <2>5, <3>1, AnswerAccounts, ZenonT(30)
         DEF CompareDropped, outcomeVars, SettledIsAccounted
  <2> QED
    BY <1>5, <2>1, <2>2, <2>3, <2>4, <2>5 DEF WriteStep
<1>6. CASE UNCHANGED pipeVars
  BY <1>6 DEF pipeVars, groupVars, stageVars, outcomeVars, AtWorker, StageTypeOK, SettledIsAccounted
<1> QED
  BY <1>1, <1>2, <1>3, <1>4, <1>5, <1>6, ZenonT(30) DEF PipeNext

\* The inductive invariant holds in every reachable state.
THEOREM PipeInvariant == PipeSpec => []PipeInv
<1>1. PipeInit => PipeInv
  <2> SUFFICES ASSUME PipeInit PROVE PipeInv
    OBVIOUS
  <2>1. GroupInv
    BY GroupConstants, GroupInitInv DEF PipeInit
  <2>2. StageTypeOK /\ SettledIsAccounted
    BY DEF PipeInit, GroupInit, AtWorker, StageTypeOK, SettledIsAccounted
  <2> QED
    BY <2>1, <2>2 DEF PipeInv
<1>2. PipeInv /\ [PipeNext]_pipeVars => PipeInv'
  <2> SUFFICES ASSUME PipeInv, [PipeNext]_pipeVars PROVE PipeInv'
    OBVIOUS
  <2>1. GroupInv'
    BY GroupConstants, PipeStepIsGroupStep, GroupNextInv DEF PipeInv
  <2> QED
    BY <2>1, GroupConstants, PipeNextAccounts DEF PipeInv
<1> QED
  BY <1>1, <1>2, PTL DEF PipeSpec

\* No offset is committed before its record is stored, refused and counted, or
\* accepted as a dead letter: for any number of processes, records and workers.
THEOREM CommitAccounts == PipeSpec => []CommittedIsAccounted
<1>1. PipeInv => CommittedIsAccounted
  BY DEF PipeInv, GroupInv, CommittedIsSettled, SettledIsAccounted, CommittedIsAccounted
<1> QED
  BY <1>1, PipeInvariant, PTL

-----------------------------------------------------------------------------
(* The circuit breaker. *)

\* Every step keeps the invariant.
LEMMA BreakerNextInv ==
    ASSUME BreakerConstants, BreakerInv, [Next]_vars
    PROVE  BreakerInv'
<1> USE DEF BreakerInv, TypeOK, OneProbe, OpenIsEarned
<1>1. ASSUME NEW c \in Callers, Call(c) PROVE BreakerInv'
  BY <1>1 DEF Call
<1>2. ASSUME NEW c \in Callers, Probe(c) PROVE BreakerInv'
  BY <1>2 DEF Probe
<1>3. ASSUME NEW c \in Callers, Return(c), UNCHANGED abandoned
      PROVE  OneProbe' /\ probing' \in BOOLEAN /\ call' \in [Callers -> {"idle", "calling", "probe"}]
  BY <1>3, Zenon DEF Return
<1>4. ASSUME NEW c \in Callers, Neutral(c) PROVE BreakerInv'
  BY <1>4, <1>3 DEF Neutral
<1>5. ASSUME NEW c \in Callers, Failure(c) PROVE BreakerInv'
  <2>1. OneProbe' /\ probing' \in BOOLEAN /\ call' \in [Callers -> {"idle", "calling", "probe"}]
    BY <1>5, <1>3 DEF Failure
  <2>2. consec' \in 0..Threshold /\ (consec = Threshold => consec' = Threshold)
    BY <1>5 DEF Failure, BreakerConstants
  <2>3. open' \in BOOLEAN /\ cooling' \in BOOLEAN /\ down' \in BOOLEAN /\ abandoned' \in BOOLEAN
    BY <1>5 DEF Failure
  <2>4. (open' => open \/ consec' >= Threshold) /\ (cooling' => cooling \/ open') /\ (open => open')
    BY <1>5 DEF Failure
  <2>5. OpenIsEarned'
    BY <2>2, <2>4 DEF BreakerConstants
  <2> QED
    BY <2>1, <2>2, <2>3, <2>5
<1>6. ASSUME NEW c \in Callers, Success(c) PROVE BreakerInv'
  <2>1. OneProbe' /\ probing' \in BOOLEAN /\ call' \in [Callers -> {"idle", "calling", "probe"}]
    BY <1>6, <1>3 DEF Success
  <2>2. consec' \in 0..Threshold
    BY <1>6 DEF Success, BreakerConstants
  <2>3. open' = FALSE /\ cooling' = FALSE /\ down' \in BOOLEAN /\ abandoned' \in BOOLEAN
    BY <1>6 DEF Success
  <2> QED
    BY <2>1, <2>2, <2>3, Zenon
<1>7. CASE CooldownEnds
  BY <1>7, Zenon DEF CooldownEnds
<1>8. CASE Upstream
  BY <1>8 DEF Upstream
<1>9. CASE UNCHANGED vars
  BY <1>9 DEF vars
<1>10. ASSUME NEW c \in Callers, Panic(c) PROVE BreakerInv'
  BY <1>10, Zenon DEF Panic
<1> QED
  BY <1>1, <1>2, <1>4, <1>5, <1>6, <1>7, <1>8, <1>9, <1>10, ZenonT(30) DEF Next

\* The inductive invariant holds in every reachable state.
THEOREM BreakerInvariant == Spec => []BreakerInv
<1>1. Init => BreakerInv
  <2> SUFFICES ASSUME Init PROVE BreakerInv
    OBVIOUS
  <2>1. consec \in 0..Threshold
    BY BreakerConstants DEF BreakerConstants, Init
  <2>2. OneProbe /\ OpenIsEarned
    BY DEF Init, OneProbe, OpenIsEarned
  <2> QED
    BY <2>1, <2>2, Zenon DEF Init, BreakerInv, TypeOK
<1>2. BreakerInv /\ [Next]_vars => BreakerInv'
  BY BreakerConstants, BreakerNextInv
<1> QED
  BY <1>1, <1>2, PTL DEF Spec

\* RESIL-007: exactly one probe after the cooldown, for any number of callers.
THEOREM SingleFlight == Spec => []OneProbe
<1>1. BreakerInv => OneProbe
  BY DEF BreakerInv
<1> QED
  BY <1>1, BreakerInvariant, PTL
-----------------------------------------------------------------------------
(* The ack barrier of the result stream. *)

\* A step that only hands on the result a call is at keeps the invariant: used for
\* a result that is dropped, buffered or turned away.
LEMMA AdvanceInv ==
    ASSUME StreamConstants, StreamInv, NEW st \in Streams,
           accepted[st] < PerStream,
           phase[st] \in {"receiving", "publishing"},
           NEW fate \in {"malformed", "buffered", "turned"},
           record' = [record EXCEPT ![Current(st)] = fate],
           accepted' = [accepted EXCEPT ![st] = @ + 1],
           phase' = [phase EXCEPT ![st] = "receiving"],
           UNCHANGED moved
    PROVE  StreamInv'
<1> USE DEF StreamConstants, Results, Running, Current
<1>1. Current(st) \in Results
  BY DEF StreamInv, StreamTypes
<1>2. StreamTypes'
  BY <1>1 DEF StreamInv, StreamTypes
<1>3. \A t \in Streams : phase'[t] = "publishing" => accepted'[t] < PerStream
  BY DEF StreamInv, StreamTypes
<1>4. ASSUME NEW t \in Streams, phase'[t] \in Running \cup {"acked"}, NEW r \in Of(t)'
      PROVE  /\ record'[r] \notin {"unsent", "gone"}
             /\ phase'[t] = "acked" => record'[r] # "buffered"
             /\ phase'[t] # "acked" /\ t \notin moved' =>
                   record'[r] \in {"buffered", "durable", "malformed", "turned"}
  <2>1. r \in Results /\ r[1] = t /\ r[2] <= accepted'[t]
    BY <1>4 DEF Of
  <2>2. CASE r = Current(st)
    <3>1. t = st
      BY <2>1, <2>2
    <3>2. record'[r] = fate /\ phase'[t] = "receiving"
      BY <2>2, <3>1, <1>1 DEF StreamInv, StreamTypes
    <3> QED
      BY <3>2
  <2>3. CASE r # Current(st)
    <3>1. record'[r] = record[r]
      BY <2>1, <2>3 DEF StreamInv, StreamTypes
    <3>2. r \in Of(t)
      <4>1. CASE t = st
        <5>1. r[2] \in Nat /\ r[2] <= accepted[st] + 1 /\ accepted[st] \in Nat
          BY <2>1, <4>1 DEF StreamInv, StreamTypes
        <5>2. r[2] # accepted[st] + 1
          BY <2>1, <2>3, <4>1
        <5> QED
          BY <5>1, <5>2, <2>1, <4>1 DEF Of
      <4>2. CASE t # st
        BY <2>1, <4>2 DEF Of, StreamInv, StreamTypes
      <4> QED
        BY <4>1, <4>2
    <3>3. phase[t] \in Running \cup {"acked"} /\ (phase'[t] = "acked" <=> phase[t] = "acked")
      BY <1>4 DEF StreamInv, StreamTypes
    <3> QED
      BY <3>1, <3>2, <3>3 DEF StreamInv
  <2> QED
    BY <2>2, <2>3
<1> QED
  BY <1>2, <1>3, <1>4 DEF StreamInv

\* A step that changes no call's accepted results keeps the invariant when no record
\* of a live call becomes worse than it may.
LEMMA SettleInv ==
    ASSUME StreamConstants, StreamInv, StreamTypes', accepted' = accepted,
           \A t \in Streams : phase'[t] = "publishing" => accepted[t] < PerStream,
           \A t \in Streams : phase'[t] \in Running \cup {"acked"} =>
              /\ phase[t] \in Running \cup {"acked"}
              /\ phase[t] = "acked" => phase'[t] = "acked"
              /\ t \notin moved' => t \notin moved
              /\ \A r \in Of(t) :
                    /\ record'[r] \notin {"unsent", "gone"} \/ record'[r] = record[r]
                    /\ phase'[t] = "acked" => record'[r] # "buffered"
                    /\ phase'[t] # "acked" /\ t \notin moved' => record'[r] \in {record[r], "durable"}
    PROVE  StreamInv'
<1>1. \A t \in Streams : Of(t)' = Of(t)
  BY DEF Of, Results
<1> QED
  BY <1>1 DEF StreamInv

\* Every step keeps the invariant.
LEMMA StreamNextInv ==
    ASSUME StreamConstants, StreamInv, [StreamNext]_streamVars
    PROVE  StreamInv'
<1> USE DEF Running
<1>1. ASSUME NEW st \in Streams, DropMalformed(st) PROVE StreamInv'
  BY <1>1, AdvanceInv, ZenonT(30) DEF DropMalformed, StreamInv, StreamTypes
<1>2. ASSUME NEW st \in Streams, TryProduce(st) PROVE StreamInv'
  BY <1>2, AdvanceInv, Zenon DEF TryProduce, StreamInv
<1>3. ASSUME NEW st \in Streams, RefuseCall(st) \/ FlushTimesOut(st) PROVE StreamInv'
  <2>1. /\ phase' = [phase EXCEPT ![st] = "refused"]
        /\ UNCHANGED <<accepted, record, moved>>
    BY <1>3 DEF RefuseCall, FlushTimesOut
  <2> QED
    BY <2>1, SettleInv DEF StreamInv, StreamTypes
<1>4. ASSUME NEW st \in Streams, PublishSheds(st) PROVE StreamInv'
  <2>1. /\ phase' = [phase EXCEPT ![st] = "refused"]
        /\ record' = [record EXCEPT ![Current(st)] = "shed"]
        /\ moved \subseteq moved' /\ moved' \subseteq Streams
        /\ accepted' = accepted
    BY <1>4 DEF PublishSheds, CountFailure, StreamInv, StreamTypes
  <2>2. StreamTypes'
    BY <2>1, Zenon DEF StreamInv, StreamTypes
  <2>3. ASSUME NEW t \in Streams, t # st, NEW r \in Of(t) PROVE record'[r] = record[r]
    BY <2>1, <2>3 DEF Of, Current, StreamInv, StreamTypes
  <2>4. ASSUME NEW t \in Streams, phase'[t] \in Running \cup {"acked"}
        PROVE  t # st /\ phase'[t] = phase[t]
    BY <2>1, <2>4 DEF StreamInv, StreamTypes
  <2>5. \A t \in Streams : phase'[t] = "publishing" => accepted[t] < PerStream
    BY <2>4 DEF StreamInv
  <2> QED
    BY <2>1, <2>2, <2>3, <2>4, <2>5, SettleInv DEF StreamInv
<1>5. ASSUME NEW st \in Streams, PublishStarts(st) PROVE StreamInv'
  <2>1. /\ phase' = [phase EXCEPT ![st] = "publishing"]
        /\ phase[st] = "receiving" /\ accepted[st] < PerStream
        /\ UNCHANGED <<accepted, record, moved>>
    BY <1>5 DEF PublishStarts
  <2> QED
    BY <2>1, SettleInv DEF StreamInv, StreamTypes
<1>6. ASSUME NEW st \in Streams, EndOfStream(st) PROVE StreamInv'
  <2>1. CASE accepted[st] > 0
    BY <1>6, <2>1, SettleInv DEF EndOfStream, StreamInv, StreamTypes
  <2>2. CASE ~(accepted[st] > 0)
    <3>1. Of(st) = {}
      BY <2>2 DEF Of, Results, StreamInv, StreamTypes, StreamConstants
    <3> QED
      BY <1>6, <2>2, <3>1, SettleInv DEF EndOfStream, StreamInv, StreamTypes
  <2> QED
    BY <2>1, <2>2
<1>7. ASSUME NEW st \in Streams, FlushReturns(st) PROVE StreamInv'
  <2>1. \A t \in Streams : \A r \in Of(t) : record[r] # "buffered"
    BY <1>7 DEF FlushReturns, Buffered, Of
  <2> QED
    BY <1>7, <2>1, SettleInv DEF FlushReturns, StreamInv, StreamTypes
<1>8. ASSUME NEW r \in Results, Delivered(r) PROVE StreamInv'
  <2>1. StreamTypes'
    BY <1>8 DEF Delivered, StreamInv, StreamTypes
  <2>2. \A q \in Results : record'[q] = record[q] \/ (record[q] = "buffered" /\ record'[q] = "durable")
    BY <1>8 DEF Delivered, StreamInv, StreamTypes
  <2> QED
    BY <1>8, <2>1, <2>2, SettleInv DEF Delivered, StreamInv, Of
<1>9. ASSUME NEW r \in Results, DeliveryFails(r) \/ CallbackSheds(r) PROVE StreamInv'
  <2>1. StreamTypes'
    BY <1>9 DEF DeliveryFails, CallbackSheds, CountFailure, StreamInv, StreamTypes
  <2>2. \A q \in Results : record'[q] = record[q] \/ record'[q] \in {"failed", "shed"}
    BY <1>9 DEF DeliveryFails, CallbackSheds, StreamInv, StreamTypes
  <2>3. /\ accepted' = accepted /\ phase' = phase
        /\ moved' = moved \cup {t \in Streams : phase[t] \in Running}
    BY <1>9 DEF DeliveryFails, CallbackSheds, CountFailure
  <2>4. \A t \in Streams : t \notin moved' /\ phase[t] \in Running \cup {"acked"}
            => phase[t] = "acked"
    BY <2>3
  <2>5. \A t \in Streams : phase[t] = "acked" => \A q \in Of(t) : record'[q] # "buffered"
    BY <2>2, ZenonT(30) DEF StreamInv, Of
  <2> QED
    BY <2>1, <2>2, <2>3, <2>4, <2>5, SettleInv DEF StreamInv, Of
<1>10. CASE ProcessDies
  <2>1. StreamTypes'
    BY <1>10 DEF ProcessDies, StreamInv, StreamTypes
  <2>2. /\ accepted' = accepted /\ moved' = moved
        /\ \A t \in Streams : phase'[t] \in Running \cup {"acked"} => phase'[t] = "acked" /\ phase[t] = "acked"
    BY <1>10 DEF ProcessDies, StreamInv, StreamTypes
  <2>3. \A q \in Results : record[q] # "buffered" => record'[q] \in {record[q], "shed"}
    BY <1>10 DEF ProcessDies
  <2>4. \A t \in Streams : phase[t] = "acked" =>
            \A q \in Of(t) : /\ record'[q] \notin {"unsent", "gone"} \/ record'[q] = record[q]
                            /\ record'[q] # "buffered"
    BY <2>3 DEF StreamInv, Of
  <2> QED
    BY <2>1, <2>2, <2>4, SettleInv DEF StreamInv
<1>11. CASE UNCHANGED streamVars \/ Finished
  BY <1>11 DEF streamVars, Finished, StreamInv, StreamTypes, Of
<1> QED
  BY <1>1, <1>2, <1>3, <1>4, <1>5, <1>6, <1>7, <1>8, <1>9, <1>10, <1>11 DEF StreamNext

\* The inductive invariant holds in every reachable state.
THEOREM StreamInvariant == StreamSpec => []StreamInv
<1>1. StreamInit => StreamInv
  BY StreamConstants DEF StreamConstants, StreamInit, StreamInv, StreamTypes, Of, Results, Running
<1>2. StreamInv /\ [StreamNext]_streamVars => StreamInv'
  BY StreamConstants, StreamNextInv
<1> QED
  BY <1>1, <1>2, PTL DEF StreamSpec

\* StreamResults acknowledges no call with a record still in the producer's memory.
THEOREM AckBarrier == StreamSpec => []AckedIsOutOfMemory
<1>1. StreamInv => AckedIsOutOfMemory
  BY DEF StreamInv, AckedIsOutOfMemory
<1> QED
  BY <1>1, StreamInvariant, PTL

\* The step in which Flush returns nil and the call is acknowledged: with
\* PublishFailures unchanged, what the call published is delivered, or was turned
\* away at the last slot with its callback still to come.
LEMMA CleanFlushStep ==
    ASSUME StreamInv, [StreamNext]_streamVars, NEW st \in Streams,
           phase[st] = "flushing", phase'[st] = "acked", st \notin moved
    PROVE  \A r \in Of(st) : record[r] \in {"durable", "malformed", "turned"}
<1>1. \A r \in Of(st) : record[r] \in {"buffered", "durable", "malformed", "turned"}
  BY DEF StreamInv, Running
<1>2. Buffered = {}
  <2>1. ASSUME NEW t \in Streams,
               \/ DropMalformed(t) \/ RefuseCall(t) \/ PublishSheds(t) \/ PublishStarts(t)
               \/ TryProduce(t) \/ EndOfStream(t) \/ FlushTimesOut(t)
        PROVE  phase'[st] # "acked"
    BY <2>1 DEF DropMalformed, RefuseCall, PublishSheds, PublishStarts, TryProduce,
                EndOfStream, FlushTimesOut, StreamInv, StreamTypes
  <2>2. ASSUME \/ \E r \in Results : CallbackSheds(r) \/ Delivered(r) \/ DeliveryFails(r)
               \/ ProcessDies \/ Finished \/ UNCHANGED streamVars
        PROVE  phase'[st] # "acked"
    BY <2>2 DEF CallbackSheds, Delivered, DeliveryFails, ProcessDies, Finished, streamVars, Running
  <2> QED
    BY <2>1, <2>2 DEF StreamNext, FlushReturns
<1> QED
  BY <1>1, <1>2 DEF Buffered, Of

\* What flushing and finding PublishFailures unchanged means, for any number of
\* calls and any buffer size.
THEOREM CleanFlush == StreamSpec => CleanFlushHidesOnlyRaces
<1>1. StreamInv /\ [StreamNext]_streamVars =>
        [\A st \in Streams :
            phase[st] = "flushing" /\ phase'[st] = "acked" /\ st \notin moved =>
                \A r \in Of(st) : record[r] \in {"durable", "malformed", "turned"}]_streamVars
  BY CleanFlushStep
<1> QED
  BY <1>1, StreamInvariant, PTL DEF StreamSpec, CleanFlushHidesOnlyRaces
=============================================================================
