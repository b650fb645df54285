----------------------------- MODULE KafkaGroup -----------------------------
(***************************************************************************)
(* A consumer group on one partition (Kafka.Subscribe and markable in      *)
(* internal/bus/kafka.go).  A session is one Subscribe call: it polls a    *)
(* batch, runs the handlers of its records concurrently, and after the     *)
(* whole batch marks what may be committed; the client commits marks in    *)
(* the background.  The group moves the partition between sessions at any  *)
(* time, also while a batch is being handled.  Offsets count from 1;       *)
(* committed is the last committed one.                                    *)
(***************************************************************************)
EXTENDS Naturals, FiniteSets

CONSTANTS Sessions,     \* consumers of the group
          NoSession,    \* not a consumer
          N             \* records in the partition

ASSUME GroupConstants ==
    /\ NoSession \notin Sessions
    /\ N \in Nat

VARIABLES committed,    \* the group's committed offset on the broker
          owner,        \* session the partition is assigned to
          up,           \* sessions whose Subscribe call is running
          pos,          \* last offset each session has fetched
          batch,        \* offsets of the batch in hand
          okay,         \* those whose handler returned nil
          failed,       \* those whose handler returned an error or panicked
          firstFail,    \* the session's commit ceiling, N + 1 without one
          marked,       \* the client's marked head not committed yet, or 0
          settled       \* offsets some handler has returned nil for

groupVars == <<committed, owner, up, pos, batch, okay, failed, firstFail, marked, settled>>

Offsets == 1..N

GroupTypeOK ==
    /\ committed \in 0..N
    /\ owner \in Sessions \cup {NoSession}
    /\ up \subseteq Sessions
    /\ pos \in [Sessions -> 0..N]
    /\ batch \in [Sessions -> SUBSET Offsets]
    /\ okay \in [Sessions -> SUBSET Offsets]
    /\ failed \in [Sessions -> SUBSET Offsets]
    /\ firstFail \in [Sessions -> 1..(N + 1)]
    /\ marked \in [Sessions -> 0..N]
    /\ settled \subseteq Offsets

GroupInit ==
    /\ committed = 0
    /\ owner = NoSession
    /\ up = Sessions
    /\ pos = [s \in Sessions |-> 0]
    /\ batch = [s \in Sessions |-> {}]
    /\ okay = [s \in Sessions |-> {}]
    /\ failed = [s \in Sessions |-> {}]
    /\ firstFail = [s \in Sessions |-> N + 1]
    /\ marked = [s \in Sessions |-> 0]
    /\ settled = {}

\* PollFetches returned the records up to offset k.
Poll(s, k) ==
    /\ s \in up
    /\ owner = s
    /\ batch[s] = {}
    /\ k > pos[s]
    /\ batch' = [batch EXCEPT ![s] = (pos[s] + 1)..k]
    /\ pos' = [pos EXCEPT ![s] = k]
    /\ UNCHANGED <<committed, owner, up, okay, failed, firstFail, marked, settled>>

Pending(s) == batch[s] \ (okay[s] \cup failed[s])

\* A handler returned nil.
HandlerOk(s, o) ==
    /\ o \in Pending(s)
    /\ okay' = [okay EXCEPT ![s] = @ \cup {o}]
    /\ settled' = settled \cup {o}
    /\ UNCHANGED <<committed, owner, up, pos, batch, failed, firstFail, marked>>

\* A handler returned an error or panicked.
HandlerFailed(s, o) ==
    /\ o \in Pending(s)
    /\ failed' = [failed EXCEPT ![s] = @ \cup {o}]
    /\ UNCHANGED <<committed, owner, up, pos, batch, okay, firstFail, marked, settled>>

\* The first failure of the session, this batch included.
Ceiling(s) ==
    CHOOSE f \in {firstFail[s]} \cup failed[s] :
        \A g \in {firstFail[s]} \cup failed[s] : f <= g

\* The head after marking: the client keeps the largest offset.
MarkedHead(old, marks) ==
    CHOOSE h \in {old} \cup marks : \A o \in {old} \cup marks : h >= o

\* The batch is done with.
DropBatch(s) ==
    /\ batch' = [batch EXCEPT ![s] = {}]
    /\ okay' = [okay EXCEPT ![s] = {}]
    /\ failed' = [failed EXCEPT ![s] = {}]

\* Mutation: every success is marked, later ones than a failure too.
MarkBatchPastFailure(s) ==
    /\ batch[s] # {} /\ Pending(s) = {}
    /\ firstFail' = [firstFail EXCEPT ![s] = Ceiling(s)]
    /\ marked' = [marked EXCEPT ![s] = MarkedHead(@, okay[s])]
    /\ DropBatch(s)
    /\ UNCHANGED <<committed, owner, up, pos, settled>>

\* markable and MarkCommitRecords.  Marks for a partition that has been taken
\* away since the poll are kept by the client or ignored.
MarkBatch(s) ==
    /\ batch[s] # {} /\ Pending(s) = {}
    /\ firstFail' = [firstFail EXCEPT ![s] = Ceiling(s)]
    /\ \/ marked' = [marked EXCEPT ![s] = MarkedHead(@, {o \in okay[s] : o < Ceiling(s)})]
       \/ owner # s /\ UNCHANGED marked
    /\ DropBatch(s)
    /\ UNCHANGED <<committed, owner, up, pos, settled>>

\* The client commits its marked head: from the background flusher, while it
\* gives the partition up, or on leaving.  A mark left over from an earlier
\* assignment may even take the committed offset back.
CommitMarks(s) ==
    /\ marked[s] # 0
    /\ committed' = marked[s]
    /\ marked' = [marked EXCEPT ![s] = 0]
    /\ UNCHANGED <<owner, up, pos, batch, okay, failed, firstFail, settled>>

\* The group gives the partition to t, which resumes at the committed offset;
\* the session that had it drops its marks.
Rebalance(t) ==
    /\ t \in up
    /\ owner # t
    /\ owner' = t
    /\ pos' = [pos EXCEPT ![t] = committed]
    /\ marked' = [s \in Sessions |-> IF s = owner THEN 0 ELSE marked[s]]
    /\ UNCHANGED <<committed, up, batch, okay, failed, firstFail, settled>>

\* Subscribe ends: by a crash at any point, or by cancellation once the batch in
\* hand has been marked.
Leave(s) ==
    /\ s \in up
    /\ up' = up \ {s}
    /\ owner' = IF owner = s THEN NoSession ELSE owner
    /\ pos' = [pos EXCEPT ![s] = 0]
    /\ DropBatch(s)
    /\ firstFail' = [firstFail EXCEPT ![s] = N + 1]
    /\ marked' = [marked EXCEPT ![s] = 0]
    /\ UNCHANGED <<committed, settled>>

\* A new Subscribe call joins the group.
Join(s) ==
    /\ s \notin up
    /\ up' = up \cup {s}
    /\ UNCHANGED <<committed, owner, pos, batch, okay, failed, firstFail, marked, settled>>

GroupNext ==
    \/ \E s \in Sessions :
         \/ MarkBatch(s) \/ CommitMarks(s) \/ Rebalance(s) \/ Leave(s) \/ Join(s)
         \/ \E o \in Offsets : Poll(s, o) \/ HandlerOk(s, o) \/ HandlerFailed(s, o)

GroupSpec == GroupInit /\ [][GroupNext]_groupVars

-----------------------------------------------------------------------------
(* Properties *)

\* The committed offset never passes a record that no handler has returned nil
\* for: a batch's marks stop at the session's first failure, over batches,
\* rebalances and restarts.
CommittedIsSettled == 1..committed \subseteq settled

\* The same for the marks a client may commit at any moment.
MarkedIsSettled == \A s \in Sessions : 1..marked[s] \subseteq settled

\* Everything a session has passed is settled, still pending, or at or above its
\* ceiling.
ReachedIsCovered ==
    \A s \in Sessions, o \in Offsets :
        (o <= pos[s] \/ \E b \in batch[s] : o <= b)
            => o \in settled \/ o \in batch[s] \/ firstFail[s] <= o

\* What a handler answered is about the batch in hand.
OutcomesAreOfBatch ==
    \A s \in Sessions : /\ okay[s] \subseteq batch[s] \cap settled
                        /\ failed[s] \subseteq batch[s]

\* The inductive invariant.
GroupInv ==
    /\ GroupTypeOK
    /\ CommittedIsSettled
    /\ MarkedIsSettled
    /\ OutcomesAreOfBatch
    /\ ReachedIsCovered
=============================================================================
