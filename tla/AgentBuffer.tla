---------------------------- MODULE AgentBuffer ----------------------------
(***************************************************************************)
(* The agent's disk buffer (internal/agent/buffer.go) and the loop that    *)
(* drains it to the control plane (drainOnce in internal/agent/agent.go).  *)
(* The file is a sequence of cells: a length header, which one write call  *)
(* writes whole, and the payload's cells.  Reading at a payload cell finds *)
(* JSON text where a length should be, which is above maxFrameLen, so the  *)
(* readable log ends there.                                                *)
(***************************************************************************)
EXTENDS Naturals, Sequences, Functions

CONSTANTS Results,      \* probe results, each enqueued once
          Size,         \* payload cells of each result
          Undecodable,  \* results whose payload does not decode
          Future,       \* results of a newer envelope version
          MaxRecords, MaxBytes,              \* caps of the buffer
          DrainMaxRecords, DrainMaxBytes,    \* caps of one drained chunk
          MaxFaults     \* bound on failures and crashes

ASSUME BufferConstants ==
    /\ Size \in [Results -> Nat \ {0}]
    /\ Undecodable \subseteq Results
    /\ Future \subseteq Results \ Undecodable
    /\ {MaxRecords, MaxBytes, DrainMaxRecords, DrainMaxBytes} \subseteq Nat \ {0}
    /\ MaxFaults \in Nat

VARIABLES file,         \* cells of buffer.log
          sidecar,      \* frames in the quarantine file
          count, bytes, \* Buffer.count and Buffer.bytes
          phase,        \* where drainOnce is; "down" while the agent is not running
          chunk,        \* the frames it converted and sends
          offered,      \* results the probes handed to Enqueue
          accepted,     \* those it returned nil for, in order
          stored,       \* results the control plane has put on its bus
          faults,
          behind        \* history: results appended behind a torn frame

vars == <<file, sidecar, count, bytes, phase, chunk, offered, accepted, stored, faults, behind>>

Payload(r) == [i \in 1..Size[r] |-> <<"data", r, i>>]

Frame(p) == <<<<"len", Len(p)>>>> \o p

\* readFrame fails at cell i: the end of the file, no header, or a short payload.
NoFrame(cells, i) ==
    i > Len(cells) \/ cells[i][1] # "len" \/ i + cells[i][2] > Len(cells)

\* readAll, from each cell: the payloads up to the first torn or impossible
\* frame, and the cell where that one begins.
ReadFrom(cells) ==
    LET from[i \in 1..Len(cells) + 1] ==
          IF NoFrame(cells, i)
          THEN [frames |-> <<>>, stop |-> i]
          ELSE LET rest == from[i + cells[i][2] + 1]
               IN [frames |-> <<SubSeq(cells, i + 1, i + cells[i][2])>> \o rest.frames,
                   stop |-> rest.stop]
    IN from

Readable(cells) == ReadFrom(cells)[1].frames

\* The file does not end with a whole frame.
Torn == ReadFrom(file)[1].stop <= Len(file)

\* What rewriteLocked writes for the first n frames.
WriteUpTo(frames) ==
    LET upto[n \in 0..Len(frames)] ==
          IF n = 0 THEN <<>> ELSE upto[n - 1] \o Frame(frames[n])
    IN upto

Written(frames) == WriteUpTo(frames)[Len(frames)]

IsFuture(p) == \E r \in Future : p = Payload(r)

Decodes(p) == \E r \in Results \ (Undecodable \cup Future) : p = Payload(r)

\* The results that a set of payloads holds.
Held(payloads) == {r \in Results : Payload(r) \in payloads}

Init ==
    /\ file = <<>> /\ sidecar = <<>>
    /\ count = 0 /\ bytes = 0
    /\ phase = "idle" /\ chunk = <<>>
    /\ offered = {} /\ accepted = <<>> /\ stored = {}
    /\ faults = 0 /\ behind = {}

Fault == faults < MaxFaults /\ faults' = faults + 1

\* rewriteLocked: write a temporary file, rename it, recount.
Rewrite(frames) ==
    /\ file' = Written(frames)
    /\ count' = Len(frames)
    /\ bytes' = Len(Written(frames))

-----------------------------------------------------------------------------
(* Enqueue *)

FrameSize(r) == 1 + Size[r]

Full(r) == count >= MaxRecords \/ bytes + FrameSize(r) > MaxBytes

EnqueueFull(r) ==
    /\ phase # "down" /\ r \notin offered
    /\ Full(r)
    /\ offered' = offered \cup {r}
    /\ UNCHANGED <<file, sidecar, count, bytes, phase, chunk, accepted, stored, faults, behind>>

\* Enqueue appends at the end of the file, without looking for a frame that an
\* earlier, failed append left unfinished there.
Appended(r) == behind' = IF Torn THEN behind \cup {r} ELSE behind

Enqueue(r) ==
    /\ phase # "down" /\ r \notin offered
    /\ ~Full(r)
    /\ file' = file \o Frame(Payload(r))
    /\ count' = count + 1
    /\ bytes' = bytes + FrameSize(r)
    /\ offered' = offered \cup {r}
    /\ accepted' = Append(accepted, r)
    /\ Appended(r)
    /\ UNCHANGED <<sidecar, phase, chunk, stored, faults>>

\* The first n cells of the frame reach the file before the append breaks off.
AppendPart(r, n) ==
    /\ ~Full(r)
    /\ Fault
    /\ file' = file \o SubSeq(Frame(Payload(r)), 1, n)
    /\ offered' = offered \cup {r}
    /\ Appended(r)
    /\ UNCHANGED <<sidecar, accepted, stored>>

\* Enqueue returns an error: nothing was written, or only the sync failed, or
\* the disk filled up in the middle of the frame.
EnqueueFails(r, n) ==
    /\ phase # "down" /\ r \notin offered
    /\ AppendPart(r, n)
    /\ UNCHANGED <<count, bytes, phase, chunk>>

Down ==
    /\ phase' = "down"
    /\ chunk' = <<>>
    /\ count' = 0 /\ bytes' = 0

\* The agent dies while it appends.
CrashInEnqueue(r, n) ==
    /\ phase # "down" /\ r \notin offered
    /\ AppendPart(r, n)
    /\ Down

Crash ==
    /\ phase # "down"
    /\ Fault
    /\ Down
    /\ UNCHANGED <<file, sidecar, offered, accepted, stored, behind>>

\* OpenBufferWithBytes compacts the file, which discards a torn tail.
Restart ==
    /\ phase = "down"
    /\ phase' = "idle"
    /\ Rewrite(Readable(file))
    /\ UNCHANGED <<sidecar, chunk, offered, accepted, stored, faults, behind>>

-----------------------------------------------------------------------------
(* drainOnce *)

\* Mutation: a first frame above the byte cap is not returned either.
PeekBatchStrict ==
    LET frames == Readable(file)
        fits(n) == n <= DrainMaxRecords
                   /\ Len(WriteUpTo(frames)[n]) <= DrainMaxBytes
    IN SubSeq(frames, 1, CHOOSE n \in 0..Len(frames) :
                fits(n) /\ \A k \in 0..Len(frames) : fits(k) => k <= n)

\* The prefix that both caps allow, at least one frame if there is one.
PeekBatch ==
    LET frames == Readable(file)
        fits(n) == n <= DrainMaxRecords
                   /\ (n <= 1 \/ Len(WriteUpTo(frames)[n]) <= DrainMaxBytes)
    IN SubSeq(frames, 1, CHOOSE n \in 0..Len(frames) :
                fits(n) /\ \A k \in 0..Len(frames) : fits(k) => k <= n)

\* frameRequestsPrefix: the frames before the first that does not convert.
Convert(frames) ==
    SubSeq(frames, 1, CHOOSE n \in 0..Len(frames) :
             /\ \A i \in 1..n : Decodes(frames[i])
             /\ n = Len(frames) \/ ~Decodes(frames[n + 1]))

\* The chunk is streamed to the control plane.
SendChunk ==
    /\ phase = "idle"
    /\ chunk' = Convert(PeekBatch)
    /\ chunk' # <<>>
    /\ phase' = "sent"
    /\ UNCHANGED <<file, sidecar, count, bytes, offered, accepted, stored, faults, behind>>

\* Mutation: any head that does not convert is quarantined.
PoisonHeadAnyVersion ==
    /\ phase = "idle"
    /\ PeekBatch # <<>> /\ Convert(PeekBatch) = <<>>

\* An undecodable head; a frame of a newer version is retained.
PoisonHead ==
    /\ phase = "idle"
    /\ PeekBatch # <<>> /\ Convert(PeekBatch) = <<>>
    /\ ~IsFuture(Head(PeekBatch))

\* Mutation: the head is dropped first, and the copy may fail.
QuarantineHeadDropFirst ==
    /\ PoisonHead
    /\ Rewrite(Tail(Readable(file)))
    /\ \/ sidecar' = Append(sidecar, Head(Readable(file))) /\ UNCHANGED faults
       \/ Fault /\ UNCHANGED sidecar
    /\ UNCHANGED <<phase, chunk, offered, accepted, stored, behind>>

\* The head is copied to the sidecar, then dropped, unless the rewrite fails.
QuarantineHead ==
    /\ PoisonHead
    /\ sidecar' = Append(sidecar, Head(Readable(file)))
    /\ \/ Rewrite(Tail(Readable(file))) /\ UNCHANGED faults
       \/ Fault /\ UNCHANGED <<file, count, bytes>>
    /\ UNCHANGED <<phase, chunk, offered, accepted, stored, behind>>

\* The copy fails, perhaps in the middle of the frame: the head stays, and what
\* reached the sidecar is no whole frame.  Nothing reads the sidecar back; the
\* bytes of later frames are there for inspection all the same.
QuarantineFails ==
    /\ PoisonHead
    /\ Fault
    /\ UNCHANGED <<file, sidecar, count, bytes, phase, chunk, offered, accepted, stored, behind>>

\* StreamResults published n results of the chunk; then the stream broke, or
\* the flush failed, or the acknowledgement was lost.
StreamFails(n) ==
    /\ phase = "sent"
    /\ n <= Len(chunk)
    /\ Fault
    /\ stored' = stored \cup Held(Range(SubSeq(chunk, 1, n)))
    /\ phase' = "idle"
    /\ chunk' = <<>>
    /\ UNCHANGED <<file, sidecar, count, bytes, offered, accepted, behind>>

StreamAcks ==
    /\ phase = "sent"
    /\ stored' = stored \cup Held(Range(chunk))
    /\ phase' = "acked"
    /\ UNCHANGED <<file, sidecar, count, bytes, chunk, offered, accepted, faults, behind>>

\* Remove(acked); a failing rewrite leaves the file for the next round.
RemoveAcked(ok) ==
    /\ phase = "acked"
    /\ IF ok THEN /\ Rewrite(SubSeq(Readable(file), Len(chunk) + 1, Len(Readable(file))))
                  /\ UNCHANGED faults
             ELSE Fault /\ UNCHANGED <<file, count, bytes>>
    /\ phase' = "idle" /\ chunk' = <<>>
    /\ UNCHANGED <<sidecar, offered, accepted, stored, behind>>

Next ==
    \/ \E r \in Results :
         \/ EnqueueFull(r) \/ Enqueue(r)
         \/ \E n \in 0..FrameSize(r) : EnqueueFails(r, n) \/ CrashInEnqueue(r, n)
    \/ Crash \/ Restart
    \/ SendChunk \/ QuarantineHead \/ QuarantineFails \/ StreamAcks
    \/ \E n \in 0..DrainMaxRecords : StreamFails(n)
    \/ \E ok \in BOOLEAN : RemoveAcked(ok)

Spec == Init /\ [][Next]_vars

\* The agent is restarted, its session keeps draining, and the control plane
\* answers: whatever fails does so finitely often.
FairSpec ==
    /\ Spec
    /\ WF_vars(Restart)
    /\ WF_vars(SendChunk \/ QuarantineHead \/ StreamAcks \/ RemoveAcked(TRUE))

-----------------------------------------------------------------------------
(* Properties *)

OnDisk == Held(Range(Readable(file)))

SetAside == Held(Range(sidecar))

\* buffer.go: "The on-disk file holds exactly the undrained records".  A result
\* whose Enqueue returned nil can be read back until the control plane has it or
\* the sidecar has it, through crashes, failed appends and removals, and broken
\* streams.  Known exception: a result appended behind a frame that an append
\* which failed in the middle left unfinished.
AcceptedIsKept ==
    Range(accepted) \subseteq stored \cup SetAside \cup OnDisk \cup behind

\* The cells there are, and s being how t begins.
Cells == ({"len"} \X Nat) \cup ({"data"} \X Results \X Nat)

Begins(s, t) == Len(s) <= Len(t) /\ \A i \in 1..Len(s) : t[i] = s[i]

\* AcceptedIsKept, made inductive: while a chunk is on its way the readable log
\* begins with it, so what Remove drops is what the control plane has.
BufferInv ==
    /\ file \in Seq(Cells) /\ {sidecar, chunk} \subseteq Seq(Seq(Cells))
    /\ accepted \in Seq(Results)
    /\ phase \in {"sent", "acked"} => Begins(chunk, Readable(file))
    /\ phase = "acked" => Held(Range(chunk)) \subseteq stored
    /\ AcceptedIsKept

\* The result that a payload holds; what was read across a torn frame holds none.
ResultIn(p) ==
    LET held == Held({p})
    IN IF held = {} THEN <<>> ELSE <<CHOOSE r \in held : TRUE>>

\* The results that the first n frames hold, oldest first.
ResultsUpTo(frames) ==
    LET upto[n \in 0..Len(frames)] ==
          IF n = 0 THEN <<>> ELSE upto[n - 1] \o ResultIn(frames[n])
    IN upto

ResultsOf(frames) == ResultsUpTo(frames)[Len(frames)]

QueueOnDisk == ResultsOf(Readable(file))

\* The file, read back, is the queue that AgentQueue promises: at-least-once, in
\* the order of acceptance, except for results behind a torn frame.
Queue == INSTANCE AgentQueue WITH
            queue <- QueueOnDisk, accepted <- Range(accepted) \ behind,
            stored <- stored, aside <- SetAside

ImplementsAgentQueue == Queue!AbsSpec

\* The mapping is exact: only offered results are anywhere, and a result behind
\* a torn frame is nowhere.  What is on its way decodes.
QueueInv ==
    /\ BufferInv
    /\ offered \subseteq Results
    /\ Range(accepted) \cup behind \cup stored \cup SetAside \cup OnDisk \subseteq offered
    /\ behind \cap (stored \cup SetAside \cup OnDisk) = {}
    /\ phase \in {"sent", "acked"} =>
          chunk # <<>> /\ \A i \in 1..Len(chunk) : Decodes(chunk[i])

\* Draining makes progress past an undecodable head and past a frame above the
\* chunk's byte cap: every accepted result reaches the control plane or the
\* sidecar, unless a frame of a newer version is retained in front of it.
EverythingDrains ==
    \A r \in Results :
        (r \in Range(accepted)) ~>
            (r \in stored \cup SetAside \cup behind \/ OnDisk \cap Future # {})
=============================================================================
