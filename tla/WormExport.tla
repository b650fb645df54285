---------------------------- MODULE WormExport ----------------------------
(***************************************************************************)
(* The provider audit stream and its signed copy on the WORM volume: the   *)
(* exporter that turns pages of the stream into segment objects, the scan  *)
(* that verifies them, the retention runner that deletes verified rows,    *)
(* and the reconciliation every control-plane replica runs at boot.        *)
(*                                                                         *)
(* A segment is two objects, the JSON and its signature, written by two    *)
(* Puts.  FSStore.Put is a plain file write followed by a .meta file, so a *)
(* failure inside it can leave an object no reader accepts ("torn").  Two  *)
(* exporters never write the same bytes, since a segment carries the time  *)
(* it was exported: an object's content is the replica that produced it.   *)
(*                                                                         *)
(* The exporter and the retention runner are singletons.  Their database   *)
(* transactions are fenced by the lease epoch; their Puts are not: a       *)
(* replica that lost its lease still finishes the page it has in hand,     *)
(* next to its successor.  The history variable stray keeps the names of   *)
(* the segments written that way; no action looks at it.                   *)
(*                                                                         *)
(* The incident-response companion objects are not modelled.               *)
(***************************************************************************)
EXTENDS AuditStream

CONSTANTS Replicas,     \* control-plane replicas
          None,         \* no object, no leader
          Torn,         \* an object that does not decode
          PageSize,     \* events per segment
          Legacy,       \* length of the history that predates the head row
          MaxTerms      \* bound on the number of lease acquisitions

ASSUME WormAssumption ==
    /\ {None, Torn} \cap Replicas = {} /\ None # Torn
    /\ Replicas # {}
    /\ MaxSeq \in Nat /\ PageSize \in Nat \ {0}
    /\ Legacy \in Nat /\ Legacy <= PageSize /\ Legacy <= MaxSeq

\* Segment names: the first and the last seq.
Keys == { k \in (1 .. MaxSeq) \X (1 .. MaxSeq) :
            k[1] <= k[2] /\ k[2] < k[1] + PageSize }

VARIABLES json,     \* segment-<from>-<to>.json, by name
          sig,      \* segment-<from>-<to>.json.sig: the bytes it signs
          pub,      \* signing.pub: None, Torn or "key"
          up,       \* replicas that passed the boot reconciliation
          pc,       \* where the exporter of each replica is in its cycle
          last,     \* exporter: last exported seq
          key,      \* exporter: segment being written or repaired
          bytes,    \* exporter: content of that segment
          wm,       \* end of the volume a boot or retention scan found, or -1
          leader,   \* owner of the newest lease epoch
          running,  \* replicas whose singleton tasks are not cancelled
          term,     \* lease epoch
          stray     \* history: segments Put by an exporter that was not the leader

objVars   == <<json, sig, pub>>
expVars   == <<pc, last, key, bytes>>
leaseVars == <<leader, running, term>>
vars == <<streamVars, objVars, up, expVars, wm, leaseVars, stray>>

NoKey == <<0, 0>>
-----------------------------------------------------------------------------
(* The scan of the volume. *)

Listed == { k \in Keys : json[k] # None \/ sig[k] # None }

\* VerifyEd25519 on an object and its signature.
Verifies(k) == json[k] \in Replicas /\ sig[k] = json[k]

\* A JSON without a signature.
Unsigned(k) == json[k] # None /\ sig[k] = None

\* The segments follow one another from 1 without gap or overlap.
Contiguous(S) ==
    /\ \A k \in S : k[1] = 1 \/ \E j \in S : j[2] + 1 = k[1]
    /\ \A j, k \in S : j[1] = k[1] => j = k
    /\ \A j, k \in S : j[1] < k[1] => j[2] < k[1]

\* The last seq of a set of segments.
Top(S) == IF S = {} THEN 0
          ELSE CHOOSE n \in 0 .. MaxSeq :
                 /\ \E k \in S : k[2] = n
                 /\ \A k \in S : k[2] <= n

\* scanWORMChainWithOptions with the configured key: every segment is signed.
AllVerify == \A k \in Listed : Verifies(k)

\* scanWORMChain without allowances: verification, retention and export.
StrictScan ==
    /\ AllVerify
    /\ Contiguous(Listed)
    /\ pub = "key" \/ Listed = {}

\* The one unsigned segment an exporter may find: the last one listed.
Tail(k) == Unsigned(k) /\ \A j \in Listed : j[1] <= k[1]

Archived == UNION { k[1] .. k[2] : k \in { j \in Keys : Verifies(j) } }
-----------------------------------------------------------------------------
Init ==
    /\ StreamInit
    /\ \E n \in {0, Legacy}, r \in Replicas :
         LET seg == [k \in Keys |-> IF k = <<1, n>> THEN r ELSE None]
         IN  json = seg /\ sig = seg /\ pub \in IF n > 0 THEN {"key", None} ELSE {None}
    /\ up = {}
    /\ pc = [r \in Replicas |-> "idle"]
    /\ last = [r \in Replicas |-> 0]
    /\ key = [r \in Replicas |-> NoKey]
    /\ bytes = [r \in Replicas |-> None]
    /\ wm = [r \in Replicas |-> -1]
    /\ leader = None /\ running = {} /\ term = 0
    /\ stray = {}

\* The export cycle ends; its locals are gone.
EndCycle(r) ==
    /\ pc' = [pc EXCEPT ![r] = "idle"]
    /\ last' = [last EXCEPT ![r] = 0]
    /\ key' = [key EXCEPT ![r] = NoKey]
    /\ bytes' = [bytes EXCEPT ![r] = None]

ProviderAppend ==
    /\ up # {}
    /\ StreamAccepts(pruned)
    /\ AppendLocked
    /\ UNCHANGED <<objVars, up, expVars, wm, leaseVars, stray>>
-----------------------------------------------------------------------------
(* Replicas. *)

\* ReconcileProviderHead scans the volume strictly, a missing signing.pub
\* excepted: that is written first.
BootScan(r) ==
    /\ r \notin up /\ wm[r] = -1
    /\ AllVerify /\ Contiguous(Listed) /\ pub # Torn
    /\ pub' = "key"
    /\ wm' = [wm EXCEPT ![r] = Top(Listed)]
    /\ UNCHANGED <<streamVars, json, sig, up, expVars, leaseVars, stray>>

\* Its transaction admits the replica when the head row agrees with the scan.  A
\* head row that was never written, beside a volume that has segments, is
\* rebuilt as a fully pruned stream, and the rebuild is recorded.
BootAdmit(r) ==
    /\ r \notin up /\ wm[r] # -1
    /\ IF head = 0 /\ wm[r] > 0
         THEN /\ wm[r] < MaxSeq
              /\ head' = wm[r] + 1 /\ pruned' = wm[r] /\ rows' = {wm[r] + 1}
         ELSE StreamAccepts(wm[r]) /\ UNCHANGED streamVars
    /\ up' = up \cup {r}
    /\ wm' = [wm EXCEPT ![r] = -1]
    /\ UNCHANGED <<objVars, expVars, leaseVars, stray>>

\* It refuses: the stream was pruned past the scan, or the database failed.
BootRefused(r) ==
    /\ r \notin up /\ wm[r] # -1
    /\ wm' = [wm EXCEPT ![r] = -1]
    /\ UNCHANGED <<streamVars, objVars, up, expVars, leaseVars, stray>>

\* The boot dies while it writes signing.pub.
BootCrash(r) ==
    /\ r \notin up /\ wm[r] = -1
    /\ AllVerify /\ Contiguous(Listed) /\ pub = None
    /\ pub' = Torn
    /\ UNCHANGED <<streamVars, json, sig, up, expVars, wm, leaseVars, stray>>

\* The lease is free, or its session died unnoticed by the holder.
Elect(r) ==
    /\ r \in up \ running /\ pc[r] = "idle" /\ wm[r] = -1
    /\ term < MaxTerms
    /\ leader' = r
    /\ running' = running \cup {r}
    /\ term' = term + 1
    /\ UNCHANGED <<streamVars, objVars, up, expVars, wm, stray>>

\* The lease is lost or given back, and the tasks' context is cancelled.
Cancel(r) ==
    /\ r \in running
    /\ r # leader \/ term < MaxTerms
    /\ running' = running \ {r}
    /\ UNCHANGED <<streamVars, objVars, up, expVars, wm, leader, term, stray>>

Putting(r) == pc[r] \in {"json", "sig", "sign"}

\* The object r is writing, if any, becomes v.  A Put of a replica that is not
\* the leader is recorded.
Put(r, v) ==
    /\ json' = IF pc[r] = "json" THEN [json EXCEPT ![key[r]] = v] ELSE json
    /\ sig' = IF pc[r] \in {"sig", "sign"} THEN [sig EXCEPT ![key[r]] = v] ELSE sig
    /\ stray' = IF Putting(r) /\ r # leader THEN stray \cup {key[r]} ELSE stray

\* The process dies, between two steps or inside a Put.
Crash(r) ==
    /\ r \in up
    /\ r # leader \/ r \notin running \/ term < MaxTerms
    /\ up' = up \ {r}
    /\ running' = running \ {r}
    /\ Put(r, Torn) \/ UNCHANGED <<json, sig, stray>>
    /\ EndCycle(r)
    /\ wm' = [wm EXCEPT ![r] = -1]
    /\ UNCHANGED <<streamVars, pub, leader, term>>
-----------------------------------------------------------------------------
(* WormExporter.runCycle. *)

\* Mutation: the exporter goes on behind an unsigned tail.
ScanPastTail(r) ==
    /\ r \in running /\ pc[r] = "idle"
    /\ \A k \in Listed : Verifies(k) \/ Tail(k)
    /\ Contiguous(Listed)
    /\ last' = [last EXCEPT ![r] = Top(Listed)]
    /\ pc' = [pc EXCEPT ![r] = "source"]
    /\ UNCHANGED <<streamVars, objVars, up, key, bytes, wm, leaseVars, stray>>

\* lastExportedHead on a complete volume.
Scan(r) ==
    /\ r \in running /\ pc[r] = "idle"
    /\ StrictScan
    /\ last' = [last EXCEPT ![r] = Top(Listed)]
    /\ pc' = [pc EXCEPT ![r] = "source"]
    /\ UNCHANGED <<streamVars, objVars, up, key, bytes, wm, leaseVars, stray>>

\* Mutation: an exporter repairs only the tail it wrote itself.
ScanOwnTail(r) ==
    /\ r \in running /\ pc[r] = "idle"
    /\ \E k \in Listed :
         /\ Tail(k) /\ json[k] = r
         /\ \A j \in Listed \ {k} : Verifies(j)
         /\ Contiguous(Listed)
         /\ r = leader /\ StreamAccepts(k[1] - 1) /\ k[2] <= head
         /\ key' = [key EXCEPT ![r] = k]
         /\ bytes' = [bytes EXCEPT ![r] = json[k]]
    /\ pc' = [pc EXCEPT ![r] = "sign"]
    /\ UNCHANGED <<streamVars, objVars, up, last, wm, leaseVars, stray>>

\* lastExportedHead finds an unsigned tail: it reads the same events from the
\* stream and signs the stored bytes.
ScanTail(r) ==
    /\ r \in running /\ pc[r] = "idle"
    /\ \E k \in Listed :
         /\ Tail(k) /\ json[k] \in Replicas
         /\ \A j \in Listed \ {k} : Verifies(j)
         /\ Contiguous(Listed)
         /\ r = leader /\ StreamAccepts(k[1] - 1) /\ k[2] <= head
         /\ key' = [key EXCEPT ![r] = k]
         /\ bytes' = [bytes EXCEPT ![r] = json[k]]
    /\ pc' = [pc EXCEPT ![r] = "sign"]
    /\ UNCHANGED <<streamVars, objVars, up, last, wm, leaseVars, stray>>

\* exportPage reads the next page in a guarded transaction.
ReadSource(r) ==
    /\ pc[r] = "source" /\ r \in running /\ r = leader
    /\ StreamAccepts(last[r]) /\ pub = "key"
    /\ IF head = last[r]
         THEN EndCycle(r)
         ELSE /\ key' = [key EXCEPT ![r] =
                          <<last[r] + 1, PageEnd(last[r], PageSize)>>]
              /\ bytes' = [bytes EXCEPT ![r] = r]
              /\ pc' = [pc EXCEPT ![r] = "json"]
              /\ UNCHANGED last
    /\ UNCHANGED <<streamVars, objVars, up, wm, leaseVars, stray>>

\* The read is refused: fenced, cancelled, or the stream does not follow on.
SourceFails(r) ==
    /\ pc[r] = "source"
    /\ EndCycle(r)
    /\ UNCHANGED <<streamVars, objVars, up, wm, leaseVars, stray>>

PutJSON(r) ==
    /\ pc[r] = "json"
    /\ Put(r, bytes[r])
    /\ pc' = [pc EXCEPT ![r] = "sig"]
    /\ UNCHANGED <<streamVars, pub, up, last, key, bytes, wm, leaseVars>>

\* The signature of a page just written, or of a repaired tail.  The cycle goes
\* on with the next page, or ends at its page limit.
PutSig(r) ==
    /\ pc[r] \in {"sig", "sign"}
    /\ Put(r, bytes[r])
    /\ \/ /\ last' = [last EXCEPT ![r] = key[r][2]]
          /\ key' = [key EXCEPT ![r] = NoKey]
          /\ bytes' = [bytes EXCEPT ![r] = None]
          /\ pc' = [pc EXCEPT ![r] = "source"]
       \/ EndCycle(r)
    /\ UNCHANGED <<streamVars, pub, up, wm, leaseVars>>

\* A Put returns an error: nothing was written, or the volume filled up half
\* way.
PutFails(r) ==
    /\ Putting(r)
    /\ Put(r, Torn) \/ UNCHANGED <<json, sig, stray>>
    /\ EndCycle(r)
    /\ UNCHANGED <<streamVars, pub, up, wm, leaseVars>>
-----------------------------------------------------------------------------
(* RetentionRunner.Tick, for the provider stream. *)

\* Mutation: the watermark counts an unsigned tail.
RetentionProofUnsigned(r) ==
    /\ r \in running /\ wm[r] = -1
    /\ \A k \in Listed : Verifies(k) \/ Tail(k)
    /\ Contiguous(Listed)
    /\ wm' = [wm EXCEPT ![r] = Top(Listed)]
    /\ UNCHANGED <<streamVars, objVars, up, expVars, leaseVars, stray>>

\* RetentionWatermark: the strict scan, before the prune's transaction.
RetentionProof(r) ==
    /\ r \in running /\ wm[r] = -1
    /\ StrictScan
    /\ wm' = [wm EXCEPT ![r] = Top(Listed)]
    /\ UNCHANGED <<streamVars, objVars, up, expVars, leaseVars, stray>>

PruneProvider(r) ==
    /\ r \in running /\ r = leader /\ wm[r] > 0
    /\ StreamAccepts(wm[r])
    /\ \E cut \in pruned + 1 .. wm[r] : PruneLocked(cut)
    /\ wm' = [wm EXCEPT ![r] = -1]
    /\ UNCHANGED <<objVars, up, expVars, leaseVars, stray>>

\* Nothing was old enough, or the guard or the watermark check refused.
PruneSkipped(r) ==
    /\ r \in up /\ wm[r] # -1
    /\ wm' = [wm EXCEPT ![r] = -1]
    /\ UNCHANGED <<streamVars, objVars, up, expVars, leaseVars, stray>>
-----------------------------------------------------------------------------
Next ==
    \/ ProviderAppend
    \/ \E r \in Replicas :
         \/ BootScan(r) \/ BootAdmit(r) \/ BootRefused(r) \/ BootCrash(r)
         \/ Elect(r) \/ Cancel(r) \/ Crash(r)
         \/ Scan(r) \/ ScanTail(r) \/ ReadSource(r) \/ SourceFails(r)
         \/ PutJSON(r) \/ PutSig(r) \/ PutFails(r)
         \/ RetentionProof(r) \/ PruneProvider(r) \/ PruneSkipped(r)

Spec == Init /\ [][Next]_vars

\* What a replica that is cancelled or deposed still does before it is quiet.
WindDown(r) ==
    /\ r # leader \/ r \notin running
    /\ Cancel(r) \/ SourceFails(r) \/ PutJSON(r) \/ PutSig(r) \/ PruneSkipped(r)

Leading == {leader} \cap running

\* A process that died is started again, the standbys retry the lease, a
\* cancelled cycle returns, the leader's next cycle comes, and neither the
\* database nor the volume refuses for ever.
Fairness ==
    /\ WF_vars(\E r \in Replicas : BootScan(r))
    /\ SF_vars(\E r \in Replicas : BootAdmit(r))
    /\ SF_vars(running = {} /\ \E r \in Replicas : Elect(r))
    /\ WF_vars(\E r \in Replicas : WindDown(r))
    /\ WF_vars(\E r \in Leading : Scan(r) \/ ScanTail(r))
    /\ WF_vars(\E r \in Leading : ReadSource(r) \/ SourceFails(r))
    /\ SF_vars(\E r \in Leading : ReadSource(r))
    /\ SF_vars(\E r \in Leading : PutJSON(r) \/ PutSig(r))

FairSpec == Spec /\ Fairness
-----------------------------------------------------------------------------
\* The types the proofs need.
TypeOK ==
    /\ head \in Nat /\ pruned \in Nat
    /\ json \in [Keys -> Replicas \cup {None, Torn}]
    /\ sig \in [Keys -> Replicas \cup {None, Torn}]
    /\ pc \in [Replicas -> {"idle", "source", "json", "sig", "sign"}]
    /\ last \in [Replicas -> Nat]
    /\ key \in [Replicas -> Keys \cup {NoKey}]
    /\ bytes \in [Replicas -> Replicas \cup {None}]
    /\ wm \in [Replicas -> Int]
    /\ stray \subseteq Keys

\* What retention deletes lives on in the signed segments, as the comment on the
\* retention design says: with no export in hand, every deleted event verifies on
\* the volume.
PrunedLivesOn ==
    (\A r \in Replicas : pc[r] = "idle") => 1 .. pruned \subseteq Archived

\* The events archived, and those of the segments a deposed exporter wrote.
Kept == Archived \cup UNION { k[1] .. k[2] : k \in stray }

\* Whatever retention has deleted can still be read from the volume under a valid
\* signature: the watermark is read before the prune and outside its transaction,
\* and no crash, torn Put, repair or failover in between or later spoils a
\* segment (RetentionWatermark, PruneProvider, exportPage).  The one exception is
\* an event whose segment a deposed exporter wrote.
PrunedIsArchived == 1 .. pruned \subseteq Kept

Own == Listed \ stray

\* The volume never has a gap.  Among the segments written under the lease, a
\* crash or a failed Put leaves at most one loose end, the last one: the others
\* verify, and no two overlap.  This is the shape the repair in lastExportedHead
\* relies on; anything else stops the export for good.
OneLooseEnd ==
    /\ \A k \in Listed : \A s \in 1 .. k[2] : \E j \in Listed : s \in j[1] .. j[2]
    /\ \A j, k \in Own : j = k \/ j[2] < k[1] \/ k[2] < j[1]
    /\ \A k \in Own : Verifies(k) \/ \A j \in Own : j[1] <= k[1]

\* The retained rows reach from the prune anchor to the head.
RowsFollow == pruned <= head /\ head <= MaxSeq /\ rows = pruned + 1 .. head

\* The segments listed cover 1 .. n ...
Covered(n) == \A s \in 1 .. n : \E k \in Listed : s \in k[1] .. k[2]

\* ... and nothing beyond.
EndsAt(n) == Covered(n) /\ \A k \in Listed : k[2] <= n

\* The segments written under the lease, but for one, verify and end before n.
OwnBefore(n, except) == \A k \in Own \ {except} : Verifies(k) /\ k[2] < n

\* What an exporter knows of the volume: any, that there is no gap before its
\* page; the leader, that only stray segments are at or beyond its page.
Exporting(r) ==
    /\ pc[r] = "source" => Covered(last[r])
    /\ pc[r] = "source" /\ r = leader => OwnBefore(last[r] + 1, NoKey)
    /\ Putting(r) =>
         /\ key[r] \in Keys /\ key[r][2] <= head /\ bytes[r] \in Replicas
         /\ Covered(key[r][1] - 1)
    /\ pc[r] = "json" /\ r = leader => OwnBefore(key[r][1], NoKey)
    /\ pc[r] \in {"sig", "sign"} => key[r] \in Listed
    /\ pc[r] \in {"sig", "sign"} /\ r = leader =>
         /\ OwnBefore(key[r][1], key[r])
         /\ key[r] \in stray \/ (json[key[r]] = bytes[r] /\ sig[key[r]] = None)

\* The inductive invariant.
WormInv ==
    /\ TypeOK /\ RowsFollow /\ OneLooseEnd /\ PrunedIsArchived
    /\ \E n \in 0 .. MaxSeq : EndsAt(n)
    /\ \A r \in Replicas : Exporting(r)
    /\ \A r \in Replicas : 1 .. wm[r] \subseteq Kept
    /\ head = 0 => /\ up # {} => Listed = {}
                   /\ \A r \in Replicas : wm[r] \in {-1, Top(Listed)}

\* The provider stream together with the volume keeps every event readable, an
\* event whose segment a deposed exporter wrote excepted: that one is counted as
\* archived.
Trail == INSTANCE AuditTrail
           WITH head <- IF head = 0 THEN Top(Listed) ELSE head,
                archive <- Kept
ImplementsAuditTrail == Trail!TrailSpec

\* The states in which the export has stopped for good: an object that does
\* not decode, every replica down while the last segment is unsigned (the boot
\* scan refuses the tail that only a running exporter may repair), or a segment of
\* a deposed exporter that does not verify or overlaps another.
Halted ==
    \/ pub = Torn \/ \E k \in Keys : json[k] = Torn \/ sig[k] = Torn
    \/ up = {} /\ \E k \in Keys : Unsigned(k)
    \/ \E k \in stray :
         ~Verifies(k) \/ \E j \in Listed \ {k} : j[1] <= k[2] /\ k[1] <= j[2]

\* The signed copy catches up with the stream again and again across crashes,
\* failed Puts and failovers, unless one of the known dead ends is reached.
ExportCatchesUp == []<>(1 .. head \subseteq Archived) \/ <>[]Halted
=============================================================================
