----------------------------- MODULE AgentQueue -----------------------------
(***************************************************************************)
(* What the agent's store-and-forward buffer promises: an at-least-once    *)
(* FIFO.  A result leaves the queue only at its head, and only after the   *)
(* control plane has it or, when it can never be decoded, after it was     *)
(* set aside.                                                              *)
(***************************************************************************)
EXTENDS Naturals, Sequences

CONSTANTS Results,      \* probe results
          Undecodable   \* the results whose frames the agent cannot decode

VARIABLES queue,        \* results on disk, oldest first
          accepted,     \* results whose Enqueue returned nil
          stored,       \* results the control plane has acknowledged to its bus
          aside         \* results moved to the quarantine sidecar

absVars == <<queue, accepted, stored, aside>>

AbsInit ==
    /\ queue = <<>>
    /\ accepted = {}
    /\ stored = {}
    /\ aside = {}

\* A result becomes durable; the producer may or may not be told so.
Put(r) ==
    /\ queue' = Append(queue, r)
    /\ accepted' \in {accepted, accepted \cup {r}}
    /\ UNCHANGED <<stored, aside>>

\* The control plane takes some of the oldest k results.
Ingest(k) ==
    /\ stored' = stored \cup {queue[i] : i \in 1..k}
    /\ UNCHANGED <<queue, accepted, aside>>

\* The oldest k results are acknowledged and leave the queue.
Retire(k) ==
    /\ \A i \in 1..k : queue[i] \in stored
    /\ queue' = SubSeq(queue, k + 1, Len(queue))
    /\ UNCHANGED <<accepted, stored, aside>>

\* The head is copied to the sidecar.
SetAside ==
    /\ queue # <<>>
    /\ Head(queue) \in Undecodable
    /\ aside' = aside \cup {Head(queue)}
    /\ queue' \in {queue, Tail(queue)}
    /\ UNCHANGED <<accepted, stored>>

AbsNext ==
    \/ \E r \in Results : Put(r)
    \/ \E k \in 1..Len(queue) : Ingest(k) \/ Retire(k)
    \/ SetAside

AbsSpec == AbsInit /\ [][AbsNext]_absVars

-----------------------------------------------------------------------------

QueueTypeOK ==
    /\ queue \in Seq(Results)
    /\ accepted \subseteq Results
    /\ stored \subseteq Results
    /\ aside \subseteq Results

\* No result that the buffer accepted is ever gone: it is queued, with the
\* control plane, or in the sidecar.
NothingLost ==
    \A r \in accepted :
        r \in stored \cup aside \/ \E i \in 1..Len(queue) : queue[i] = r
=============================================================================
