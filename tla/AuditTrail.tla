---------------------------- MODULE AuditTrail ----------------------------
(***************************************************************************)
(* What an audit stream promises to whoever has to account for the past:   *)
(* every event ever appended can still be read, either from the database   *)
(* or from the copy kept outside it.  A row leaves the database only once  *)
(* that copy exists, and the copy never loses an event.  SiemExport (the   *)
(* tenant streams) implements it; WormExport (the provider stream) does,   *)
(* the segments written by a deposed exporter excepted.                    *)
(***************************************************************************)
EXTENDS Naturals

VARIABLES head,       \* sequence number of the newest event
          rows,       \* events the database still holds
          archive     \* events the outside copy holds

trailVars == <<head, rows, archive>>

\* A stream starts empty, or with a history that lives in the archive only.
TrailInit ==
    /\ head \in Nat
    /\ rows = {}
    /\ archive = 1 .. head

Append ==
    /\ head' = head + 1
    /\ rows' = rows \cup {head + 1}
    /\ UNCHANGED archive

\* Events are copied out; nothing already copied is lost.
Archive ==
    /\ archive \subseteq archive'
    /\ archive' \subseteq archive \cup rows
    /\ UNCHANGED <<head, rows>>

\* Rows that were copied out are deleted, and the deletion is itself recorded.
Prune ==
    /\ rows \ archive \subseteq rows'
    /\ rows' \subseteq rows \cup {head + 1}
    /\ head + 1 \in rows'
    /\ head' = head + 1
    /\ UNCHANGED archive

TrailNext == Append \/ Archive \/ Prune

TrailSpec == TrailInit /\ [][TrailNext]_trailVars

\* Every event is readable somewhere.
NothingLost == 1..head \subseteq rows \cup archive

\* The same, of a head that is a number.
Accounted == head \in Nat /\ NothingLost
=============================================================================
