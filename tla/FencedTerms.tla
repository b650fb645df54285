---------------------------- MODULE FencedTerms ----------------------------
(***************************************************************************)
(* What the cluster singleton lease promises to the tables its tasks       *)
(* write: leadership is a sequence of numbered terms, and a fenced table   *)
(* is written only by the owner of the newest term, while that term is     *)
(* open.  SingletonLease implements this specification.                    *)
(***************************************************************************)
EXTENDS Naturals

CONSTANTS Nodes,      \* control-plane replicas
          NoNode,     \* no replica has ever acquired the lease
          Tables      \* what the fenced singleton tasks write

VARIABLES term,       \* number of the newest leadership term
          owner,      \* the replica that owns it
          open,       \* FALSE once the owner has released it
          table       \* term under which each table was last written

absVars == <<term, owner, open, table>>

AbsInit ==
    /\ term = 0
    /\ owner = NoNode
    /\ open = FALSE
    /\ table = [t \in Tables |-> 0]

\* A replica starts the next term; whatever the previous owner still runs is
\* fenced from here on.
Promote(n) ==
    /\ term' = term + 1
    /\ owner' = n
    /\ open' = TRUE
    /\ UNCHANGED table

\* The owner gives its term back.
Close ==
    /\ open
    /\ open' = FALSE
    /\ UNCHANGED <<term, owner, table>>

\* A write of the newest term.
Write(t) ==
    /\ open
    /\ table' = [table EXCEPT ![t] = term]
    /\ UNCHANGED <<term, owner, open>>

AbsNext ==
    \/ \E n \in Nodes : Promote(n)
    \/ Close
    \/ \E t \in Tables : Write(t)

AbsSpec == AbsInit /\ [][AbsNext]_absVars

\* No table was written under a term that has not begun.
WrittenByPastTerms ==
    /\ term \in Nat
    /\ \A t \in Tables : table[t] \in 0 .. term

\* A write never lands on top of the write of a later term.
KeepsLaterWrites == \A t \in Tables : table[t] <= table'[t]

\* The tables see the terms in their order, whoever still runs.
WritesInTermOrder == [][KeepsLaterWrites]_absVars
=============================================================================
