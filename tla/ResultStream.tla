---------------------------- MODULE ResultStream ----------------------------
(***************************************************************************)
(* The ack barrier of the agent transport (StreamResults and ingest in     *)
(* internal/agenttransport/service.go) over the asynchronous Kafka         *)
(* producer (Publish and Flush in internal/bus/kafka.go).  Each call of    *)
(* StreamResults carries up to PerStream results, publishes them one by one into *)
(* the bounded buffer all calls share, flushes the producer and only then  *)
(* acknowledges; the agent keeps what is not acknowledged.                 *)
(***************************************************************************)
EXTENDS Naturals, FiniteSets

CONSTANTS Streams,       \* calls of StreamResults
          PerStream,     \* most results sent on a call
          MaxBuffered    \* maxBuffered: the bound of the producer's buffer

ASSUME StreamConstants == PerStream \in Nat /\ MaxBuffered \in Nat \ {0}

VARIABLES phase,      \* where each call is
          accepted,   \* its count of accepted results
          record,     \* what became of each result
          moved       \* running calls that began before PublishFailures last grew

streamVars == <<phase, accepted, record, moved>>

Results == Streams \X (1..PerStream)
Buffered == {r \in Results : record[r] = "buffered"}
Running == {"receiving", "publishing", "flushing"}

StreamTypes ==
    /\ phase \in [Streams -> Running \cup {"acked", "refused"}]
    /\ accepted \in [Streams -> 0..PerStream]
    /\ record \in [Results -> {"unsent", "malformed", "buffered", "durable", "failed",
                              "turned", "shed", "gone"}]
    /\ moved \subseteq Streams

StreamInit ==
    /\ phase = [st \in Streams |-> "receiving"]
    /\ accepted = [st \in Streams |-> 0]
    /\ record = [r \in Results |-> "unsent"]
    /\ moved = {}

\* The result a call is at.
Current(st) == <<st, accepted[st] + 1>>

\* One of the counters behind PublishFailures grows.
CountFailure == moved' = moved \cup {st \in Streams : phase[st] \in Running}

\* ingest drops a malformed payload and counts it as accepted.
DropMalformed(st) ==
    /\ phase[st] = "receiving"
    /\ accepted[st] < PerStream
    /\ record' = [record EXCEPT ![Current(st)] = "malformed"]
    /\ accepted' = [accepted EXCEPT ![st] = @ + 1]
    /\ UNCHANGED <<phase, moved>>

\* The call ends with an error: its context is cancelled, the lane cannot be
\* resolved, or the agent breaks the stream.
RefuseCall(st) ==
    /\ phase[st] \in {"receiving", "flushing"}
    /\ phase' = [phase EXCEPT ![st] = "refused"]
    /\ UNCHANGED <<accepted, record, moved>>

\* Publish looks at the buffer before producing: it sheds, and ingest fails ...
PublishSheds(st) ==
    /\ phase[st] = "receiving"
    /\ accepted[st] < PerStream
    /\ Cardinality(Buffered) >= MaxBuffered
    /\ record' = [record EXCEPT ![Current(st)] = "shed"]
    /\ CountFailure
    /\ phase' = [phase EXCEPT ![st] = "refused"]
    /\ UNCHANGED accepted

\* ... or it goes on,
PublishStarts(st) ==
    /\ phase[st] = "receiving"
    /\ accepted[st] < PerStream
    /\ Cardinality(Buffered) < MaxBuffered
    /\ phase' = [phase EXCEPT ![st] = "publishing"]
    /\ UNCHANGED <<accepted, record, moved>>

\* and TryProduce buffers the record, or finds the last slot taken and turns it
\* away, which only its callback will learn.  Publish returns nil either way.
TryProduce(st) ==
    /\ phase[st] = "publishing"
    /\ record' = [record EXCEPT ![Current(st)] =
                      IF Cardinality(Buffered) < MaxBuffered THEN "buffered" ELSE "turned"]
    /\ accepted' = [accepted EXCEPT ![st] = @ + 1]
    /\ phase' = [phase EXCEPT ![st] = "receiving"]
    /\ UNCHANGED moved

\* Mutation: a record that lost the race for the last slot is not counted.
CallbackShedsUncounted(r) ==
    /\ record[r] = "turned"
    /\ record' = [record EXCEPT ![r] = "shed"]
    /\ UNCHANGED <<phase, accepted, moved>>

\* The callback of a record that was turned away counts the shed.  The record was
\* never in the buffer, so no flush waits for this.
CallbackSheds(r) ==
    /\ record[r] = "turned"
    /\ record' = [record EXCEPT ![r] = "shed"]
    /\ CountFailure
    /\ UNCHANGED <<phase, accepted>>

\* The broker acknowledged a record.
Delivered(r) ==
    /\ record[r] = "buffered"
    /\ record' = [record EXCEPT ![r] = "durable"]
    /\ UNCHANGED <<phase, accepted, moved>>

\* The client gave a record up after its retries; the callback counts it.
DeliveryFails(r) ==
    /\ record[r] = "buffered"
    /\ record' = [record EXCEPT ![r] = "failed"]
    /\ CountFailure
    /\ UNCHANGED <<phase, accepted>>

\* The agent has closed its side: the call flushes what it has accepted, or has
\* nothing to flush.
EndOfStream(st) ==
    /\ phase[st] = "receiving"
    /\ phase' = [phase EXCEPT ![st] = IF accepted[st] > 0 THEN "flushing" ELSE "acked"]
    /\ UNCHANGED <<accepted, record, moved>>

\* Mutation: the barrier is left when the buffer has room again.
FlushReturnsEarly(st) ==
    /\ phase[st] = "flushing"
    /\ Cardinality(Buffered) < MaxBuffered
    /\ phase' = [phase EXCEPT ![st] = "acked"]
    /\ UNCHANGED <<accepted, record, moved>>

\* Flush returns nil: the producer's buffer, which is shared by all calls, is
\* empty; the call is acknowledged.
FlushReturns(st) ==
    /\ phase[st] = "flushing"
    /\ Buffered = {}
    /\ phase' = [phase EXCEPT ![st] = "acked"]
    /\ UNCHANGED <<accepted, record, moved>>

\* Mutation: the deadline is looked at when the buffer is empty.
FlushTimesOutLate(st) ==
    /\ phase[st] = "flushing"
    /\ Buffered = {}
    /\ phase' = [phase EXCEPT ![st] = "refused"]
    /\ UNCHANGED <<accepted, record, moved>>

\* The ten seconds are over first.
FlushTimesOut(st) ==
    /\ phase[st] = "flushing"
    /\ Buffered # {}
    /\ phase' = [phase EXCEPT ![st] = "refused"]
    /\ UNCHANGED <<accepted, record, moved>>

\* The control plane dies with its buffer, its counters and the callbacks that
\* have not run.
ProcessDies ==
    /\ \E st \in Streams : phase[st] \in Running
    /\ phase' = [st \in Streams |-> IF phase[st] \in Running THEN "refused" ELSE phase[st]]
    /\ record' = [r \in Results |-> CASE record[r] = "buffered" -> "gone"
                                    [] record[r] = "turned" -> "shed"
                                    [] OTHER -> record[r]]
    /\ UNCHANGED <<accepted, moved>>

\* Nothing is left to do.
Finished == /\ \A st \in Streams : phase[st] \in {"acked", "refused"}
            /\ Buffered = {}
            /\ UNCHANGED streamVars

StreamNext ==
    \/ \E st \in Streams :
         \/ DropMalformed(st) \/ RefuseCall(st) \/ PublishSheds(st) \/ PublishStarts(st)
         \/ TryProduce(st) \/ EndOfStream(st) \/ FlushReturns(st) \/ FlushTimesOut(st)
    \/ \E r \in Results : CallbackSheds(r) \/ Delivered(r) \/ DeliveryFails(r)
    \/ ProcessDies
    \/ Finished

StreamSpec == StreamInit /\ [][StreamNext]_streamVars

\* The call's goroutine runs, and its flush has a deadline.  The broker is not
\* assumed to answer.
StreamFairness ==
    \A st \in Streams :
        /\ WF_streamVars(DropMalformed(st) \/ PublishSheds(st) \/ PublishStarts(st) \/ TryProduce(st) \/ EndOfStream(st))
        /\ WF_streamVars(FlushReturns(st) \/ FlushTimesOut(st))

StreamFairSpec == StreamSpec /\ StreamFairness

-----------------------------------------------------------------------------
(* Properties *)

\* The results a call has accepted.
Of(st) == {r \in Results : r[1] = st /\ r[2] <= accepted[st]}

\* The barrier: no record of an acknowledged call is still in the producer's
\* memory, or died there (CORRECT-004, "never acked-then-lost in the in-flight
\* buffer if the process dies").
AckedIsOutOfMemory ==
    \A st \in Streams : phase[st] = "acked" =>
        \A r \in Of(st) : record[r] \notin {"unsent", "buffered", "gone"}

\* What the recipe of PublishFailureReporter (DPR-071: flush, then read the failure
\* counters) is worth.  When the counters have not moved since the call began,
\* everything the call published is on the broker, except a record that lost the
\* race for the last slot and whose callback is still to come: the one loss that
\* Publish, Flush and the counters all miss.
CleanFlushHidesOnlyRaces ==
    [][\A st \in Streams :
          phase[st] = "flushing" /\ phase'[st] = "acked" /\ st \notin moved =>
              \A r \in Of(st) : record[r] \in {"durable", "malformed", "turned"}]_streamVars

\* Every call ends, whatever the broker does.
StreamEnds == \A st \in Streams : <>(phase[st] \in {"acked", "refused"})

\* The inductive invariant: what a call has accepted is out of its hands as long as
\* the process lives, and while the call runs, lost without a count only when it
\* was turned away.
StreamInv ==
    /\ StreamTypes
    /\ \A st \in Streams : phase[st] = "publishing" => accepted[st] < PerStream
    /\ \A st \in Streams : phase[st] \in Running \cup {"acked"} =>
          \A r \in Of(st) :
              /\ record[r] \notin {"unsent", "gone"}
              /\ phase[st] = "acked" => record[r] # "buffered"
              /\ phase[st] # "acked" /\ st \notin moved =>
                    record[r] \in {"buffered", "durable", "malformed", "turned"}
=============================================================================
