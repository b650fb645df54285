---------------------------- MODULE AuditStream ----------------------------
(***************************************************************************)
(* One hash-chained audit stream in the database: the rows, and the head   *)
(* row that remembers the newest and the last pruned position.  Tenant     *)
(* streams and the provider stream have the same shape.  Every operation   *)
(* here runs in one transaction under the stream's advisory lock.          *)
(*                                                                         *)
(* Hashes are not modelled: a row is its sequence number, and a broken     *)
(* chain is a gap in the numbers.                                          *)
(***************************************************************************)
EXTENDS Integers

CONSTANT MaxSeq       \* bound on the number of events of the stream

VARIABLES head,       \* head_seq: the newest event
          pruned,     \* pruned_seq: the last event retention deleted
          rows        \* seq of the rows still in the table

streamVars == <<head, pruned, rows>>

StreamInit == head = 0 /\ pruned = 0 /\ rows = {}

\* The checks every append, export and prune makes before it trusts the
\* stream: the retained rows reach from the prune anchor to the head, and the
\* caller's export position lies between the two.
StreamAccepts(pos) ==
    /\ pos \in pruned .. head
    /\ rows = pruned + 1 .. head

\* Insert the row after the head and advance the head over it.
AppendLocked ==
    /\ head < MaxSeq
    /\ head' = head + 1
    /\ rows' = rows \cup {head + 1}
    /\ UNCHANGED pruned

\* Mutation: the prune leaves no receipt.
PruneLockedSilent(cut) ==
    /\ UNCHANGED head
    /\ rows' = { s \in rows : s > cut }
    /\ pruned' = cut

\* Delete the rows up to cut, move the prune anchor there and append the
\* receipt.
PruneLocked(cut) ==
    /\ head < MaxSeq
    /\ head' = head + 1
    /\ rows' = { s \in rows : s > cut } \cup {head + 1}
    /\ pruned' = cut

\* The events after pos, at most n of them.
PageEnd(pos, n) == IF pos + n < head THEN pos + n ELSE head
=============================================================================
