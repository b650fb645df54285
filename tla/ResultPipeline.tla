--------------------------- MODULE ResultPipeline ---------------------------
(***************************************************************************)
(* The result pipeline (internal/pipeline/consumer.go) on a Kafka          *)
(* partition: the handler of every polled record decodes it, hands it to   *)
(* the bounded write stage of its process and waits for the outcome, which *)
(* decides whether the offset may be committed.  A session of KafkaGroup   *)
(* is the subscription of one control-plane process.  Dead letters leave   *)
(* through that process's asynchronous Kafka producer.                     *)
(***************************************************************************)
EXTENDS KafkaGroup

CONSTANTS WriteWorkers,     \* goroutines of a write stage
          WriteQueueDepth   \* capacity of writeCh

ASSUME PipeConstants == WriteWorkers \in Nat \ {0} /\ WriteQueueDepth \in Nat \ {0}

VARIABLES stopping,     \* processes whose context is cancelled
          stage,        \* where the write stage has a record
          sawDrop,      \* records in deadLetter whose c.dropped has moved on
          stored,       \* records the TSDB holds
          rejected,     \* records refused or terminally rejected, and counted
          parked,       \* records a dead-letter Publish returned nil for
          dlqBuffer,    \* dead letters in each process's producer
          dlq           \* dead letters the broker has

stageVars == <<stopping, stage, sawDrop>>
outcomeVars == <<stored, rejected, parked, dlqBuffer, dlq>>
pipeVars == <<groupVars, stageVars, outcomeVars>>

\* Parts of the write stage that hold a worker: writing, or back from deadLetter
\* with the publish accepted or not.
AtWorker == {"writing", "accepted", "lost"}

PipeTypeOK ==
    /\ GroupTypeOK
    /\ stopping \subseteq Sessions
    /\ stage \in [Sessions -> [Offsets -> {"idle", "queued"} \cup AtWorker]]
    /\ sawDrop \in [Sessions -> SUBSET Offsets]
    /\ dlqBuffer \in [Sessions -> SUBSET Offsets]
    /\ stored \cup rejected \cup parked \cup dlq \subseteq Offsets
    /\ \A s \in Sessions : /\ Cardinality({o \in Offsets : stage[s][o] = "queued"}) <= WriteQueueDepth
                           /\ Cardinality({o \in Offsets : stage[s][o] \in AtWorker}) <= WriteWorkers

PipeInit ==
    /\ GroupInit
    /\ stopping = {}
    /\ stage = [s \in Sessions |-> [o \in Offsets |-> "idle"]]
    /\ sawDrop = [s \in Sessions |-> {}]
    /\ stored = {} /\ rejected = {} /\ parked = {} /\ dlq = {}
    /\ dlqBuffer = [s \in Sessions |-> {}]

InStage(s, where) == {o \in Offsets : stage[s][o] \in where}

\* The record enters part "where" of the write stage.
Enter(s, o, where) == stage' = [stage EXCEPT ![s][o] = where]

\* The consumer loop polls as long as its context lives.
PollBatch(s, k) ==
    /\ s \notin stopping
    /\ Poll(s, k)
    /\ UNCHANGED <<stageVars, outcomeVars>>

\* handleLane settles a record without storing it: refused lane or tenant,
\* malformed, shed by fairness, nothing left after the cardinality caps.
Refuse(s, o) ==
    /\ stage[s][o] = "idle"
    /\ HandlerOk(s, o)
    /\ rejected' = rejected \cup {o}
    /\ UNCHANGED <<stageVars, stored, parked, dlqBuffer, dlq>>

\* A quarantined tenant's lane holds the record.
Hold(s, o) ==
    /\ stage[s][o] = "idle"
    /\ HandlerFailed(s, o)
    /\ UNCHANGED <<stageVars, outcomeVars>>

\* The handler puts the record on writeCh, when it has room.
Enqueue(s, o) ==
    /\ o \in Pending(s)
    /\ stage[s][o] = "idle"
    /\ Cardinality(InStage(s, {"queued"})) < WriteQueueDepth
    /\ Enter(s, o, "queued")
    /\ UNCHANGED <<groupVars, stopping, sawDrop, outcomeVars>>

\* A worker takes a record off writeCh.
TakeItem(s, o) ==
    /\ stage[s][o] = "queued"
    /\ Cardinality(InStage(s, AtWorker)) < WriteWorkers
    /\ Enter(s, o, "writing")
    /\ UNCHANGED <<groupVars, stopping, sawDrop, outcomeVars>>

\* The worker answers on the item's done channel, and the handler, unless it has
\* given up, returns what it received.
Answer(s, o, settledOk) ==
    /\ Enter(s, o, "idle")
    /\ sawDrop' = [sawDrop EXCEPT ![s] = @ \ {o}]
    /\ IF o \notin Pending(s) THEN UNCHANGED groupVars
       ELSE IF settledOk THEN HandlerOk(s, o) ELSE HandlerFailed(s, o)
    /\ UNCHANGED stopping

\* The write is durable.
WriteOk(s, o) ==
    /\ stage[s][o] = "writing"
    /\ stored' = stored \cup {o}
    /\ Answer(s, o, TRUE)
    /\ UNCHANGED <<rejected, parked, dlqBuffer, dlq>>

\* unknownWriteOutcome: the context ended during the write, which may have landed.
WriteUnknown(s, o) ==
    /\ stage[s][o] = "writing"
    /\ stored' \in {stored, stored \cup {o}}
    /\ Answer(s, o, FALSE)
    /\ UNCHANGED <<rejected, parked, dlqBuffer, dlq>>

\* terminalReject: the store will never accept the record.
WriteRejected(s, o) ==
    /\ stage[s][o] = "writing"
    /\ s \notin stopping
    /\ rejected' = rejected \cup {o}
    /\ Answer(s, o, TRUE)
    /\ UNCHANGED <<stored, parked, dlqBuffer, dlq>>

\* Mutation: a record whose write panicked is tried again, for ever.
WritePanicsRetried(s, o) ==
    /\ stage[s][o] = "writing"
    /\ Enter(s, o, "idle")
    /\ UNCHANGED <<groupVars, stopping, sawDrop, outcomeVars>>

\* writeOneRecovered: a panic in the write path is answered as a failure.
WritePanics(s, o) ==
    /\ stage[s][o] = "writing"
    /\ stored' \in {stored, stored \cup {o}}
    /\ Answer(s, o, FALSE)
    /\ UNCHANGED <<rejected, parked, dlqBuffer, dlq>>

\* The retries are exhausted and deadLetter publishes the original message.  The
\* Publish is refused, and c.dropped grows for every worker comparing it, ...
ParkFails(s, o) ==
    /\ stage[s][o] = "writing"
    /\ stored' \in {stored, stored \cup {o}}
    /\ Enter(s, o, "lost")
    /\ sawDrop' = [sawDrop EXCEPT ![s] = InStage(s, {"accepted", "lost"}) \cup {o}]
    /\ UNCHANGED <<groupVars, stopping, rejected, parked, dlqBuffer, dlq>>

\* ... or it is accepted into the producer's buffer.
ParkAccepted(s, o) ==
    /\ stage[s][o] = "writing"
    /\ s \notin stopping
    /\ stored' \in {stored, stored \cup {o}}
    /\ Enter(s, o, "accepted")
    /\ parked' = parked \cup {o}
    /\ dlqBuffer' = [dlqBuffer EXCEPT ![s] = @ \cup {o}]
    /\ UNCHANGED <<groupVars, stopping, sawDrop, rejected, dlq>>

\* Mutation: the outcome of the dead-letter publish is not looked at.
CompareDroppedAlwaysOk(s, o) ==
    /\ stage[s][o] \in {"accepted", "lost"}
    /\ Answer(s, o, TRUE)
    /\ UNCHANGED outcomeVars

\* writeOne compares c.dropped with what it read before deadLetter.
CompareDropped(s, o) ==
    /\ stage[s][o] \in {"accepted", "lost"}
    /\ Answer(s, o, o \notin sawDrop[s])
    /\ UNCHANGED outcomeVars

\* The producer's delivery callback: durable, or failed and counted.
DlqDelivered(s, o) ==
    /\ o \in dlqBuffer[s]
    /\ dlqBuffer' = [dlqBuffer EXCEPT ![s] = @ \ {o}]
    /\ dlq' \in {dlq, dlq \cup {o}}
    /\ UNCHANGED <<groupVars, stageVars, stored, rejected, parked>>

\* The process is told to stop.
Stop(s) ==
    /\ s \in up \ stopping
    /\ stopping' = stopping \cup {s}
    /\ UNCHANGED <<groupVars, stage, sawDrop, outcomeVars>>

\* A waiting handler sees the cancelled context first; its item, if queued,
\* stays with the write stage.
GiveUp(s, o) ==
    /\ s \in stopping
    /\ HandlerFailed(s, o)
    /\ UNCHANGED <<stageVars, outcomeVars>>

\* Mutation: the subscription leaves once all it has fetched is committed.
UnsubscribeCommitted(s) ==
    /\ s \in stopping
    /\ batch[s] = {}
    /\ committed = pos[s]
    /\ Leave(s)
    /\ UNCHANGED <<stageVars, outcomeVars>>

\* Subscribe returns after the batch in hand.
Unsubscribe(s) ==
    /\ s \in stopping
    /\ batch[s] = {}
    /\ Leave(s)
    /\ UNCHANGED <<stageVars, outcomeVars>>

\* The process dies with everything it holds in memory.
Crash(s) ==
    /\ Leave(s)
    /\ stopping' = stopping \ {s}
    /\ stage' = [stage EXCEPT ![s] = [o \in Offsets |-> "idle"]]
    /\ sawDrop' = [sawDrop EXCEPT ![s] = {}]
    /\ dlqBuffer' = [dlqBuffer EXCEPT ![s] = {}]
    /\ UNCHANGED <<stored, rejected, parked, dlq>>

\* A new Run starts once the write stage of the last one has drained.
Start(s) ==
    /\ InStage(s, {"queued"} \cup AtWorker) = {}
    /\ Join(s)
    /\ stopping' = stopping \ {s}
    /\ UNCHANGED <<stage, sawDrop, outcomeVars>>

\* Steps the consumer group takes by itself.
GroupStep(s) ==
    /\ MarkBatch(s) \/ CommitMarks(s) \/ Rebalance(s)
    /\ UNCHANGED <<stageVars, outcomeVars>>

\* One step of the write stage for a record.
WriteStep(s, o) ==
    \/ WriteOk(s, o) \/ WriteUnknown(s, o) \/ WriteRejected(s, o) \/ WritePanics(s, o)
    \/ ParkFails(s, o) \/ ParkAccepted(s, o) \/ CompareDropped(s, o)

PipeNext ==
    \E s \in Sessions :
        \/ GroupStep(s) \/ Stop(s) \/ Unsubscribe(s) \/ Crash(s) \/ Start(s)
        \/ \E o \in Offsets :
             \/ PollBatch(s, o) \/ Refuse(s, o) \/ Hold(s, o) \/ Enqueue(s, o)
             \/ TakeItem(s, o) \/ WriteStep(s, o) \/ GiveUp(s, o) \/ DlqDelivered(s, o)

PipeSpec == PipeInit /\ [][PipeNext]_pipeVars

\* The goroutines run: handlers hand over, workers take and answer, a finished
\* batch is marked, a cancelled subscription returns.
PipeFairness ==
    \A s \in Sessions :
        /\ WF_pipeVars(MarkBatch(s) /\ UNCHANGED <<stageVars, outcomeVars>>)
        /\ WF_pipeVars(Unsubscribe(s))
        /\ \A o \in Offsets : /\ WF_pipeVars(Enqueue(s, o))
                              /\ WF_pipeVars(TakeItem(s, o))
                              /\ WF_pipeVars(WriteStep(s, o))
                              /\ WF_pipeVars(GiveUp(s, o))

FairPipeSpec == PipeSpec /\ PipeFairness

-----------------------------------------------------------------------------
(* Properties *)

\* A committed record is accounted for: stored, refused and counted, or handed
\* to a dead-letter Publish that returned nil (CORRECT-001).
CommittedIsAccounted == 1..committed \subseteq stored \cup rejected \cup parked

\* What the handlers and workers know when they answer: a settled record is
\* accounted for, an accepted dead letter is parked, and a refused one is seen.
SettledIsAccounted ==
    /\ settled \subseteq stored \cup rejected \cup parked
    /\ \A s \in Sessions, o \in Offsets :
          /\ stage[s][o] = "accepted" => o \in parked
          /\ stage[s][o] = "lost" => o \in sawDrop[s]

\* Every batch is decided: the write stage answers each record, through panics,
\* full queues and cancellation.
BatchIsDecided ==
    \A s \in Sessions : batch[s] # {} ~> batch[s] = {}

\* A cancelled subscription returns.
StopCompletes ==
    \A s \in Sessions : (s \in stopping /\ s \in up) ~> (s \notin up)
=============================================================================
