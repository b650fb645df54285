------------------------- MODULE WormExportProofs -------------------------
(***************************************************************************)
(* For every set of replicas, page size and length of the stream: WormInv  *)
(* is inductive, what retention deleted stays on the volume under a valid  *)
(* signature unless a deposed exporter wrote its segment, and, with that   *)
(* exception, the provider stream together with the volume implements      *)
(* AuditTrail.  Nothing is assumed of how many exporters write at a time.  *)
(***************************************************************************)
EXTENDS WormExport, TLAPS

\* A segment name is a range of the stream.
LEMMA KeyRange ==
  ASSUME NEW k \in Keys
  PROVE  /\ k[1] \in Nat /\ k[2] \in Nat /\ 1 <= k[1] /\ k[1] <= k[2] /\ k[2] <= MaxSeq
         /\ k # NoKey
  BY WormAssumption DEF Keys, NoKey

\* The page after seq n is a segment name.
LEMMA PageIsKey ==
  ASSUME NEW n \in Nat, head \in Nat, head <= MaxSeq, n < head
  PROVE  /\ <<n + 1, PageEnd(n, PageSize)>> \in Keys
         /\ PageEnd(n, PageSize) <= head
  BY WormAssumption DEF Keys, PageEnd

\* The events of the segments that verify or are stray.
LEMMA KeptIs ==
  ASSUME stray \subseteq Keys, NEW s
  PROVE  s \in Kept <=> \E k \in Keys : (Verifies(k) \/ k \in stray) /\ s \in k[1] .. k[2]
<1>1. s \in Archived <=> \E k \in Keys : Verifies(k) /\ s \in k[1] .. k[2]
  BY Zenon DEF Archived
<1>2. s \in UNION { k[1] .. k[2] : k \in stray } <=> \E k \in stray : s \in k[1] .. k[2]
  BY Zenon
<1> QED
  BY <1>1, <1>2, Zenon DEF Kept

LEMMA KeptIsNext ==
  ASSUME stray' \subseteq Keys, NEW s
  PROVE  s \in Kept' <=> \E k \in Keys : (Verifies(k)' \/ k \in stray') /\ s \in k[1] .. k[2]
<1>1. s \in Archived' <=> \E k \in Keys : Verifies(k)' /\ s \in k[1] .. k[2]
  BY Zenon DEF Archived
<1>2. s \in UNION { k[1] .. k[2] : k \in stray' } <=> \E k \in stray' : s \in k[1] .. k[2]
  BY Zenon
<1> QED
  BY <1>1, <1>2, Zenon DEF Kept

\* Only segments that are listed verify.
LEMMA VerifiedIsListed ==
  ASSUME NEW k \in Keys, Verifies(k) PROVE k \in Listed
  BY WormAssumption DEF Verifies, Listed

\* Top computes where the segments end.
LEMMA TopIs ==
  ASSUME NEW n \in 0 .. MaxSeq, EndsAt(n) PROVE Top(Listed) = n
<1> USE WormAssumption
<1>1. CASE Listed = {}
  BY <1>1 DEF EndsAt, Covered, Top
<1>2. CASE Listed # {}
  <2> DEFINE P(m) == (\E k \in Listed : k[2] = m) /\ \A k \in Listed : k[2] <= m
  <2>1. n > 0
    BY <1>2, KeyRange DEF EndsAt, Listed
  <2>2. PICK k \in Listed : n \in k[1] .. k[2]
    BY <2>1 DEF EndsAt, Covered
  <2>3. k[2] = n
    BY <2>2, KeyRange DEF EndsAt, Listed
  <2>4. P(n)
    BY <2>2, <2>3 DEF EndsAt
  <2>5. \A m \in 0 .. MaxSeq : P(m) => m = n
    BY <2>4, KeyRange DEF Listed
  <2>6. P(CHOOSE m \in 0 .. MaxSeq : P(m)) /\ (CHOOSE m \in 0 .. MaxSeq : P(m)) \in 0 .. MaxSeq
    <3> HIDE DEF P
    <3> QED
      BY <2>4, Zenon
  <2>7. (CHOOSE m \in 0 .. MaxSeq : P(m)) = n
    BY <2>5, <2>6, Zenon
  <2> QED
    BY <1>2, <2>7 DEF Top
<1> QED
  BY <1>1, <1>2

\* A scan of a volume that verifies finds its end, and all of it is kept.
LEMMA ScanProves ==
  ASSUME WormInv, AllVerify
  PROVE  /\ Top(Listed) \in 0 .. MaxSeq /\ EndsAt(Top(Listed))
         /\ 1 .. Top(Listed) \subseteq Kept
<1>1. PICK n \in 0 .. MaxSeq : EndsAt(n)
  BY DEF WormInv
<1>2. Top(Listed) = n
  BY <1>1, TopIs
<1>3. ASSUME NEW s \in 1 .. n PROVE s \in Kept
  <2>1. PICK k \in Listed : s \in k[1] .. k[2]
    BY <1>1 DEF EndsAt, Covered
  <2>2. k \in Keys /\ Verifies(k) /\ stray \subseteq Keys
    BY DEF AllVerify, Listed, WormInv, TypeOK
  <2> QED
    BY <2>1, <2>2, KeptIs
<1> QED
  BY <1>1, <1>2, <1>3

\* A step that writes nothing leaves everything said of the volume alone.
LEMMA VolumeFrame ==
  ASSUME UNCHANGED <<json, sig, stray>>
  PROVE  /\ Listed' = Listed /\ Kept' = Kept /\ Own' = Own
         /\ \A k : Verifies(k)' <=> Verifies(k)
         /\ \A n : Covered(n)' <=> Covered(n)
         /\ \A n : EndsAt(n)' <=> EndsAt(n)
         /\ \A n, e : OwnBefore(n, e)' <=> OwnBefore(n, e)
         /\ OneLooseEnd' <=> OneLooseEnd
         /\ Top(Listed)' = Top(Listed)
<1>1. Listed' = Listed
  BY DEF Listed
<1>2. \A k : Verifies(k)' <=> Verifies(k)
  BY DEF Verifies
<1>3. Archived' = Archived
  BY DEF Archived, Verifies
<1>4. Own' = Own
  BY <1>1 DEF Own
<1>5. Kept' = Kept
  BY <1>3, Zenon DEF Kept
<1>6. \A n : Covered(n)' <=> Covered(n)
  BY <1>1, Zenon DEF Covered
<1>7. \A n : EndsAt(n)' <=> EndsAt(n)
  BY <1>1, <1>6, Zenon DEF EndsAt
<1>8. \A n, e : OwnBefore(n, e)' <=> OwnBefore(n, e)
  BY <1>2, <1>4, Zenon DEF OwnBefore
<1>9. OneLooseEnd' <=> OneLooseEnd
  BY <1>1, <1>2, <1>4, Zenon DEF OneLooseEnd
<1>10. Top(Listed)' = Top(Listed)
  BY <1>1 DEF Top
<1> QED
  BY <1>1, <1>2, <1>4, <1>5, <1>6, <1>7, <1>8, <1>9, <1>10

\* One Put touches one segment.
LEMMA PutTouches ==
  ASSUME TypeOK, NEW r \in Replicas, Putting(r), NEW k \in Keys, k = key[r],
         NEW v \in Replicas \cup {Torn}, Put(r, v), Exporting(r)
  PROVE  /\ json' \in [Keys -> Replicas \cup {None, Torn}]
         /\ sig' \in [Keys -> Replicas \cup {None, Torn}]
         /\ stray \subseteq stray' /\ stray' \subseteq Keys
         /\ stray' = IF r = leader THEN stray ELSE stray \cup {k}
         /\ \A j \in Keys \ {k} : json'[j] = json[j] /\ sig'[j] = sig[j]
         /\ \A j \in Keys \ {k} : Verifies(j)' <=> Verifies(j)
         /\ Listed' = Listed \cup {k}
<1> USE WormAssumption
<1>1. \/ pc[r] = "json" /\ json' = [json EXCEPT ![k] = v] /\ sig' = sig
      \/ pc[r] \in {"sig", "sign"} /\ sig' = [sig EXCEPT ![k] = v] /\ json' = json
  BY DEF Put, Putting
<1>2. /\ json' \in [Keys -> Replicas \cup {None, Torn}]
      /\ sig' \in [Keys -> Replicas \cup {None, Torn}]
  BY <1>1 DEF TypeOK
<1>3. \A j \in Keys \ {k} : json'[j] = json[j] /\ sig'[j] = sig[j]
  BY <1>1 DEF TypeOK
<1>4. json'[k] = v \/ sig'[k] = v
  BY <1>1 DEF TypeOK
<1>5. Listed' = Listed \cup {k}
  <2>1. \A j \in Keys \ {k} : j \in Listed' <=> j \in Listed
    BY <1>3 DEF Listed
  <2>2. k \in Listed'
    BY <1>4 DEF Listed
  <2>3. Listed \subseteq Keys /\ Listed' \subseteq Keys
    BY DEF Listed
  <2> QED
    BY <2>1, <2>2, <2>3
<1>6. stray' = IF r = leader THEN stray ELSE stray \cup {k}
  BY DEF Put
<1>7. \A j \in Keys \ {k} : Verifies(j)' <=> Verifies(j)
  BY <1>3 DEF Verifies
<1>8. stray \subseteq stray' /\ stray' \subseteq Keys
  BY <1>6 DEF TypeOK
<1> QED
  BY <1>2, <1>3, <1>5, <1>6, <1>7, <1>8

\* More segments cover at least as much.
LEMMA CoveredGrows ==
  ASSUME Listed \subseteq Listed', NEW n, Covered(n) PROVE Covered(n)'
  BY DEF Covered

\* A segment that starts where the cover ends extends it.
LEMMA CoveredExtends ==
  ASSUME NEW k \in Listed, k \in Keys, Covered(k[1] - 1) PROVE Covered(k[2])
<1> SUFFICES ASSUME NEW s \in 1 .. k[2] PROVE \E j \in Listed : s \in j[1] .. j[2]
  BY DEF Covered
<1>1. k[1] \in Nat /\ k[2] \in Nat
  BY KeyRange
<1>2. CASE s < k[1]
  BY <1>1, <1>2 DEF Covered
<1>3. CASE s >= k[1]
  BY <1>1, <1>3
<1> QED
  BY <1>1, <1>2, <1>3

LEMMA CoveredExtendsNext ==
  ASSUME NEW k \in Listed', k \in Keys, Covered(k[1] - 1)' PROVE Covered(k[2])'
<1> SUFFICES ASSUME NEW s \in 1 .. k[2] PROVE \E j \in Listed' : s \in j[1] .. j[2]
  BY DEF Covered
<1>1. k[1] \in Nat /\ k[2] \in Nat
  BY KeyRange
<1>2. CASE s < k[1]
  BY <1>1, <1>2 DEF Covered
<1>3. CASE s >= k[1]
  BY <1>1, <1>3
<1> QED
  BY <1>1, <1>2, <1>3

\* A Put leaves no gap, since there was none before the page.
LEMMA PutEnds ==
  ASSUME WormInv, NEW k \in Keys, Listed' = Listed \cup {k}, Covered(k[1] - 1)
  PROVE  Covered(k[2])' /\ \E n \in 0 .. MaxSeq : EndsAt(n)'
<1> USE WormAssumption
<1>1. PICK n \in 0 .. MaxSeq : EndsAt(n)
  BY DEF WormInv
<1>2. k[2] \in 0 .. MaxSeq
  BY KeyRange
<1>3. Covered(n)' /\ Covered(k[1] - 1)'
  BY <1>1, CoveredGrows DEF EndsAt
<1>4. Covered(k[2])'
  BY <1>3, CoveredExtendsNext
<1>5. \A j \in Listed : j[2] \in Nat /\ j[2] <= n
  BY <1>1, KeyRange DEF EndsAt, Listed
<1>6. CASE k[2] <= n
  <2>1. EndsAt(n)'
    BY <1>3, <1>5, <1>6 DEF EndsAt
  <2> QED
    BY <1>4, <2>1
<1>7. CASE n < k[2]
  <2>1. \A j \in Listed' : j[2] <= k[2]
    BY <1>2, <1>5, <1>7
  <2>2. EndsAt(k[2])'
    BY <1>4, <2>1 DEF EndsAt
  <2> QED
    BY <1>2, <1>4, <2>2
<1> QED
  BY <1>1, <1>2, <1>6, <1>7

\* Where the segments end, there is no gap.
LEMMA NoGapNext ==
  ASSUME NEW n \in 0 .. MaxSeq, EndsAt(n)'
  PROVE  \A k \in Listed' : \A s \in 1 .. k[2] : \E j \in Listed' : s \in j[1] .. j[2]
<1> SUFFICES ASSUME NEW k \in Listed', NEW s \in 1 .. k[2]
             PROVE  \E j \in Listed' : s \in j[1] .. j[2]
  OBVIOUS
<1>1. k[2] <= n /\ k \in Keys
  BY DEF EndsAt, Listed
<1>2. s \in 1 .. n
  BY <1>1, KeyRange
<1> QED
  BY <1>2 DEF EndsAt, Covered

\* After a Put of the leader, the other segments written under the lease still
\* verify and end before its page; if its own is not stray, its signature was
\* missing.
LEMMA LeaderPut ==
  ASSUME WormInv, NEW r \in Replicas, r = leader, Putting(r), NEW k \in Keys, k = key[r],
         stray' = stray, Listed' = Listed \cup {k},
         \A j \in Keys \ {k} : Verifies(j)' <=> Verifies(j)
  PROVE  OwnBefore(k[1], k)' /\ (k \notin stray => sig[k] = None)
<1> USE WormAssumption
<1>0. Exporting(r) /\ stray \subseteq Keys
  BY DEF WormInv, TypeOK
<1>1. \A j \in Own : j \in Keys /\ j # NoKey
  BY KeyRange DEF Own, Listed
<1>2. Own' \subseteq Own \cup {k}
  BY DEF Own
<1>3. \A j \in Own \ {k} : Verifies(j) /\ j[2] < k[1]
  BY <1>0, <1>1, Zenon DEF Exporting, Putting, OwnBefore
<1>4. OwnBefore(k[1], k)'
  BY <1>1, <1>2, <1>3, Zenon DEF OwnBefore
<1>5. ASSUME k \notin stray PROVE sig[k] = None
  <2>1. CASE pc[r] = "json"
    <3>1. k \in Own => k[2] < k[1]
      BY <1>0, <1>1, <2>1, Zenon DEF Exporting, OwnBefore
    <3>2. k \notin Listed
      BY <1>5, <3>1, KeyRange DEF Own
    <3> QED
      BY <3>2 DEF Listed
  <2>2. CASE pc[r] \in {"sig", "sign"}
    BY <1>0, <1>5, <2>2, Zenon DEF Exporting
  <2> QED
    BY <2>1, <2>2 DEF Putting
<1> QED
  BY <1>4, <1>5

\* A Put leaves at most one loose end among the segments written under the lease.
LEMMA PutLoose ==
  ASSUME WormInv, NEW r \in Replicas, Putting(r), NEW k \in Keys, k = key[r],
         stray' = IF r = leader THEN stray ELSE stray \cup {k},
         Listed' = Listed \cup {k},
         \A j \in Keys \ {k} : Verifies(j)' <=> Verifies(j),
         \E n \in 0 .. MaxSeq : EndsAt(n)'
  PROVE  OneLooseEnd'
<1>1. \A i \in Listed' : \A s \in 1 .. i[2] : \E j \in Listed' : s \in j[1] .. j[2]
  BY NoGapNext
<1>2. SUFFICES /\ \A i, j \in Own' : i = j \/ i[2] < j[1] \/ j[2] < i[1]
               /\ \A i \in Own' : Verifies(i)' \/ \A j \in Own' : j[1] <= i[1]
  BY <1>1 DEF OneLooseEnd
<1>3. CASE r = leader
  <2>1. \A j \in Own' \ {k} : Verifies(j)' /\ j[2] < k[1]
    BY <1>3, LeaderPut DEF OwnBefore
  <2>2. \A j \in Own' : j \in Keys /\ j[1] \in Nat /\ j[2] \in Nat /\ j[1] <= j[2]
    BY KeyRange DEF Own, Listed
  <2>3. \A i, j \in Own \ {k} : i = j \/ i[2] < j[1] \/ j[2] < i[1]
    BY DEF WormInv, OneLooseEnd
  <2>4. Own' \ {k} \subseteq Own \ {k}
    BY <1>3 DEF Own
  <2>5. k[1] \in Nat /\ k[2] \in Nat
    BY KeyRange
  <2>6. \A i, j \in Own' : i = j \/ i[2] < j[1] \/ j[2] < i[1]
    BY <2>1, <2>3, <2>4
  <2>7. \A i \in Own' : Verifies(i)' \/ \A j \in Own' : j[1] <= i[1]
    BY <2>1, <2>2, <2>5
  <2> QED
    BY <2>6, <2>7
<1>4. CASE r # leader
  <2>1. Own' = Own \ {k}
    BY <1>4 DEF Own
  <2>2. \A j \in Own' : Verifies(j)' <=> Verifies(j)
    BY <2>1 DEF Own, Listed
  <2>3. /\ \A i, j \in Own : i = j \/ i[2] < j[1] \/ j[2] < i[1]
        /\ \A i \in Own : Verifies(i) \/ \A j \in Own : j[1] <= i[1]
    BY DEF WormInv, OneLooseEnd
  <2> QED
    BY <2>1, <2>2, <2>3
<1> QED
  BY <1>3, <1>4

\* A Put loses nothing that was kept, and adds only events of the stream.
LEMMA PutKept ==
  ASSUME WormInv, NEW r \in Replicas, Putting(r), NEW k \in Keys, k = key[r],
         stray' = IF r = leader THEN stray ELSE stray \cup {k},
         Listed' = Listed \cup {k},
         \A j \in Keys \ {k} : Verifies(j)' <=> Verifies(j)
  PROVE  Kept \subseteq Kept' /\ Kept' \subseteq Kept \cup rows
<1> USE WormAssumption
<1>0. TypeOK /\ RowsFollow /\ PrunedIsArchived /\ Exporting(r)
  BY DEF WormInv
<1>1. stray \subseteq Keys /\ stray \subseteq stray' /\ stray' \subseteq Keys
  BY <1>0 DEF TypeOK
<1>2. Verifies(k) => k \in stray'
  <2>1. CASE r = leader
    BY <2>1, LeaderPut DEF Verifies
  <2>2. CASE r # leader
    BY <2>2
  <2> QED
    BY <2>1, <2>2
<1>3. ASSUME NEW s \in Kept PROVE s \in Kept'
  <2>1. PICK j \in Keys : (Verifies(j) \/ j \in stray) /\ s \in j[1] .. j[2]
    BY <1>1, KeptIs
  <2>2. Verifies(j)' \/ j \in stray'
    BY <1>1, <1>2, <2>1
  <2> QED
    BY <1>1, <2>1, <2>2, KeptIsNext
<1>4. ASSUME NEW s \in Kept' PROVE s \in Kept \cup rows
  <2>1. PICK j \in Keys : (Verifies(j)' \/ j \in stray') /\ s \in j[1] .. j[2]
    BY <1>1, KeptIsNext
  <2>2. CASE j # k
    <3>1. Verifies(j) \/ j \in stray
      BY <2>1, <2>2
    <3> QED
      BY <1>1, <2>1, <3>1, KeptIs
  <2>3. CASE j = k
    <3>1. k[2] <= head
      BY <1>0 DEF Exporting
    <3>2. s \in Nat /\ 1 <= s /\ s <= head /\ head \in Nat /\ pruned \in Nat
      BY <1>0, <2>1, <2>3, <3>1, KeyRange DEF TypeOK
    <3>3. s \in 1 .. pruned \/ s \in pruned + 1 .. head
      BY <3>2
    <3> QED
      BY <1>0, <3>3 DEF PrunedIsArchived, RowsFollow
  <2> QED
    BY <2>2, <2>3
<1> QED
  BY <1>3, <1>4

\* What another exporter knows survives a Put: the leader loses a segment only to
\* stray, and everyone else relies on the list alone.
LEMMA PutOthers ==
  ASSUME WormInv, NEW r \in Replicas, Putting(r), NEW k \in Keys, k = key[r],
         stray' = IF r = leader THEN stray ELSE stray \cup {k},
         Listed' = Listed \cup {k},
         \A j \in Keys \ {k} : json'[j] = json[j] /\ sig'[j] = sig[j],
         \A j \in Keys \ {k} : Verifies(j)' <=> Verifies(j),
         UNCHANGED <<leader, head>>,
         NEW q \in Replicas \ {r},
         pc'[q] = pc[q], last'[q] = last[q], key'[q] = key[q], bytes'[q] = bytes[q]
  PROVE  Exporting(q)'
<1>0. Exporting(q)
  BY DEF WormInv
<1>1. \A n : Covered(n) => Covered(n)'
  BY CoveredGrows
<1>2. /\ pc'[q] = "source" => Covered(last[q])'
      /\ Putting(q)' => Covered(key[q][1] - 1)'
  <2>1. pc[q] = "source" => Covered(last[q])
    BY <1>0 DEF Exporting
  <2>2. Putting(q) => Covered(key[q][1] - 1)
    BY <1>0 DEF Exporting
  <2>3. Covered(last[q]) => Covered(last[q])'
    BY DEF Covered
  <2>4. Covered(key[q][1] - 1) => Covered(key[q][1] - 1)'
    BY DEF Covered
  <2> QED
    BY <2>1, <2>2, <2>3, <2>4 DEF Putting
<1>3. ASSUME q = leader
      PROVE  /\ OwnBefore(last[q] + 1, NoKey) => OwnBefore(last[q] + 1, NoKey)'
             /\ OwnBefore(key[q][1], NoKey) => OwnBefore(key[q][1], NoKey)'
             /\ OwnBefore(key[q][1], key[q]) => OwnBefore(key[q][1], key[q])'
  <2>1. Own' = Own \ {k}
    BY <1>3 DEF Own
  <2>2. \A j \in Own' : Verifies(j)' <=> Verifies(j)
    BY <2>1 DEF Own, Listed
  <2> QED
    BY <1>3, <2>1, <2>2 DEF OwnBefore
<1>4. ASSUME q = leader, key[q] \in Keys,
             key[q] \in stray \/ (json[key[q]] = bytes[q] /\ sig[key[q]] = None)
      PROVE  key'[q] \in stray' \/ (json'[key'[q]] = bytes'[q] /\ sig'[key'[q]] = None)
  <2>1. CASE key[q] = k
    BY <1>4, <2>1
  <2>2. CASE key[q] # k
    BY <1>4, <2>2
  <2> QED
    BY <2>1, <2>2
<1>5. pc'[q] = "source" /\ q = leader' => OwnBefore(last[q] + 1, NoKey)'
  BY <1>0, <1>3 DEF Exporting
<1>6. Putting(q)' => key'[q] \in Keys /\ key'[q][2] <= head' /\ bytes'[q] \in Replicas
  BY <1>0 DEF Exporting, Putting
<1>7. pc'[q] = "json" /\ q = leader' => OwnBefore(key[q][1], NoKey)'
  BY <1>0, <1>3 DEF Exporting
<1>8. pc'[q] \in {"sig", "sign"} => key'[q] \in Listed'
  BY <1>0 DEF Exporting
<1>9. ASSUME pc'[q] \in {"sig", "sign"}, q = leader'
      PROVE  /\ OwnBefore(key[q][1], key[q])'
             /\ key'[q] \in stray' \/ (json'[key'[q]] = bytes'[q] /\ sig'[key'[q]] = None)
  <2>1. /\ OwnBefore(key[q][1], key[q]) /\ key[q] \in Keys
        /\ key[q] \in stray \/ (json[key[q]] = bytes[q] /\ sig[key[q]] = None)
    BY <1>0, <1>9 DEF Exporting, Putting
  <2> QED
    BY <1>3, <1>4, <1>9, <2>1
<1> QED
  BY <1>2, <1>5, <1>6, <1>7, <1>8, <1>9 DEF Exporting

\* The locals of a replica that takes no step keep their meaning as long as
\* nothing is written, the lease stays and the stream only grows.
LEMMA ExporterFrame ==
  ASSUME NEW q \in Replicas, TypeOK, Exporting(q), UNCHANGED <<json, sig, stray>>,
         q = leader' => q = leader,
         head' \in Nat, head <= head',
         pc'[q] = pc[q], last'[q] = last[q], key'[q] = key[q], bytes'[q] = bytes[q]
  PROVE  Exporting(q)'
<1>1. /\ Listed' = Listed /\ Own' = Own
      /\ \A k : Verifies(k)' <=> Verifies(k)
  BY VolumeFrame
<1>2. /\ Covered(last[q])' <=> Covered(last[q])
      /\ Covered(key[q][1] - 1)' <=> Covered(key[q][1] - 1)
  BY <1>1 DEF Covered
<1>3. /\ OwnBefore(last[q] + 1, NoKey)' <=> OwnBefore(last[q] + 1, NoKey)
      /\ OwnBefore(key[q][1], NoKey)' <=> OwnBefore(key[q][1], NoKey)
      /\ OwnBefore(key[q][1], key[q])' <=> OwnBefore(key[q][1], key[q])
  BY <1>1 DEF OwnBefore
<1>4. key[q] \in Keys /\ key[q][2] <= head => key[q][2] <= head'
  BY KeyRange DEF TypeOK
<1>5. Putting(q)' <=> Putting(q)
  BY DEF Putting
<1> QED
  BY <1>1, <1>2, <1>3, <1>4, <1>5 DEF Exporting

\* An idle exporter knows nothing.
LEMMA IdleExporter ==
  ASSUME NEW r \in Replicas, pc[r] = "idle" PROVE Exporting(r)
  BY DEF Exporting, Putting

LEMMA IdleExporterNext ==
  ASSUME NEW r \in Replicas, pc'[r] = "idle" PROVE Exporting(r)'
  BY DEF Exporting, Putting

\* EndCycle resets one replica's locals.
LEMMA EndCycleTypes ==
  ASSUME TypeOK, NEW r \in Replicas, EndCycle(r)
  PROVE  /\ pc' \in [Replicas -> {"idle", "source", "json", "sig", "sign"}]
         /\ last' \in [Replicas -> Nat]
         /\ key' \in [Replicas -> Keys \cup {NoKey}]
         /\ bytes' \in [Replicas -> Replicas \cup {None}]
         /\ pc'[r] = "idle"
         /\ \A q \in Replicas \ {r} : /\ pc'[q] = pc[q] /\ last'[q] = last[q]
                                      /\ key'[q] = key[q] /\ bytes'[q] = bytes[q]
  BY DEF TypeOK, EndCycle

\* What is left to show of a step that writes nothing.
LEMMA FrameKeeps ==
  ASSUME WormInv, UNCHANGED <<json, sig, stray>>,
         TypeOK', RowsFollow', 1 .. pruned' \subseteq Kept,
         \A q \in Replicas : Exporting(q)',
         \A q \in Replicas : 1 .. wm'[q] \subseteq Kept,
         head' = 0 => /\ up' # {} => Listed = {}
                      /\ \A r \in Replicas : wm'[r] \in {-1, Top(Listed)}
  PROVE  WormInv'
<1>1. /\ Listed' = Listed /\ Kept' = Kept /\ Top(Listed)' = Top(Listed)
      /\ OneLooseEnd' <=> OneLooseEnd
      /\ \A n : EndsAt(n)' <=> EndsAt(n)
  BY VolumeFrame
<1>2. PrunedIsArchived'
  BY <1>1 DEF PrunedIsArchived
<1>3. OneLooseEnd' /\ \E n \in 0 .. MaxSeq : EndsAt(n)'
  BY <1>1 DEF WormInv
<1> QED
  BY <1>1, <1>2, <1>3 DEF WormInv

\* A Put, whole or torn, whoever makes it: what it does to the volume ...
LEMMA PutVolume ==
  ASSUME WormInv, NEW r \in Replicas, Putting(r), NEW v \in Replicas \cup {Torn}, Put(r, v)
  PROVE  /\ json' \in [Keys -> Replicas \cup {None, Torn}]
         /\ sig' \in [Keys -> Replicas \cup {None, Torn}]
         /\ stray' \subseteq Keys
         /\ OneLooseEnd' /\ \E n \in 0 .. MaxSeq : EndsAt(n)'
         /\ Kept \subseteq Kept' /\ Kept' \subseteq Kept \cup rows
         /\ head # 0
<1> USE WormAssumption
<1>0. TypeOK /\ Exporting(r)
  BY DEF WormInv
<1>1. PICK k \in Keys : k = key[r]
  BY <1>0 DEF Exporting
<1>2. Covered(k[1] - 1) /\ k[2] <= head
  BY <1>0, <1>1 DEF Exporting
<1>3. /\ json' \in [Keys -> Replicas \cup {None, Torn}]
      /\ sig' \in [Keys -> Replicas \cup {None, Torn}]
      /\ stray' \subseteq Keys
      /\ stray' = IF r = leader THEN stray ELSE stray \cup {k}
      /\ \A j \in Keys \ {k} : Verifies(j)' <=> Verifies(j)
      /\ Listed' = Listed \cup {k}
  BY <1>0, <1>1, PutTouches
<1>4. \E n \in 0 .. MaxSeq : EndsAt(n)'
  BY <1>2, <1>3, PutEnds
<1>5. OneLooseEnd'
  BY <1>1, <1>3, <1>4, PutLoose
<1>6. Kept \subseteq Kept' /\ Kept' \subseteq Kept \cup rows
  BY <1>1, <1>3, PutKept
<1>7. head # 0
  BY <1>0, <1>2, KeyRange DEF TypeOK
<1> QED
  BY <1>3, <1>4, <1>5, <1>6, <1>7

\* ... and what is left to show of the step.
LEMMA PutStep ==
  ASSUME WormInv, NEW r \in Replicas, Putting(r), NEW v \in Replicas \cup {Torn}, Put(r, v),
         UNCHANGED <<leader, head, pruned, rows>>,
         pc' \in [Replicas -> {"idle", "source", "json", "sig", "sign"}],
         last' \in [Replicas -> Nat],
         key' \in [Replicas -> Keys \cup {NoKey}],
         bytes' \in [Replicas -> Replicas \cup {None}],
         \A q \in Replicas \ {r} : /\ pc'[q] = pc[q] /\ last'[q] = last[q]
                                   /\ key'[q] = key[q] /\ bytes'[q] = bytes[q],
         Exporting(r)',
         wm' \in [Replicas -> Int],
         \A q \in Replicas : 1 .. wm'[q] \subseteq Kept
  PROVE  WormInv'
<1>0. TypeOK /\ RowsFollow /\ Exporting(r)
  BY DEF WormInv
<1>1. /\ json' \in [Keys -> Replicas \cup {None, Torn}]
      /\ sig' \in [Keys -> Replicas \cup {None, Torn}]
      /\ stray' \subseteq Keys
      /\ OneLooseEnd' /\ \E n \in 0 .. MaxSeq : EndsAt(n)'
      /\ Kept \subseteq Kept' /\ head # 0
  BY PutVolume
<1>2. TypeOK' /\ RowsFollow'
  BY <1>0, <1>1 DEF TypeOK, RowsFollow
<1>3. PICK k \in Keys : k = key[r]
  BY <1>0 DEF Exporting
<1>4. ASSUME NEW q \in Replicas PROVE Exporting(q)'
  <2>1. CASE q = r
    BY <2>1
  <2>2. CASE q # r
    <3>1. /\ stray' = IF r = leader THEN stray ELSE stray \cup {k}
          /\ \A j \in Keys \ {k} : json'[j] = json[j] /\ sig'[j] = sig[j]
          /\ \A j \in Keys \ {k} : Verifies(j)' <=> Verifies(j)
          /\ Listed' = Listed \cup {k}
      BY <1>0, <1>3, PutTouches
    <3> QED
      BY <1>3, <2>2, <3>1, PutOthers, ZenonT(30)
  <2> QED
    BY <2>1, <2>2
<1>5. PrunedIsArchived'
  BY <1>1 DEF WormInv, PrunedIsArchived
<1>6. \A q \in Replicas : 1 .. wm'[q] \subseteq Kept'
  BY <1>1
<1> QED
  BY <1>1, <1>2, <1>4, <1>5, <1>6 DEF WormInv

LEMMA AppendPreserves == ASSUME WormInv, ProviderAppend PROVE WormInv'
<1> USE WormAssumption
<1>0. TypeOK /\ RowsFollow
  BY DEF WormInv
<1>1. /\ UNCHANGED <<json, sig, stray, up, pc, last, key, bytes, wm, leader, pruned>>
      /\ head' = head + 1 /\ rows' = rows \cup {head + 1} /\ head < MaxSeq
  BY DEF ProviderAppend, AppendLocked, objVars, expVars, leaseVars
<1>2. TypeOK'
  BY <1>0, <1>1 DEF TypeOK
<1>3. RowsFollow'
  BY <1>0, <1>1 DEF RowsFollow, TypeOK
<1>4. head' \in Nat /\ head <= head' /\ head' # 0
  BY <1>0, <1>1 DEF TypeOK
<1>5. \A q \in Replicas : Exporting(q)'
  BY <1>0, <1>1, <1>4, ExporterFrame DEF WormInv
<1> QED
  BY <1>1, <1>2, <1>3, <1>4, <1>5, FrameKeeps DEF WormInv, PrunedIsArchived

\* Steps that change no segment, no local of an exporter and no row.
LEMMA QuietPreserves ==
  ASSUME WormInv,
         UNCHANGED <<json, sig, stray, pc, last, key, bytes, leader, head, pruned, rows>>,
         up' # {} => up # {}, wm' \in [Replicas -> Int],
         \A q \in Replicas : 1 .. wm'[q] \subseteq Kept,
         \A q \in Replicas : wm'[q] \in {wm[q], -1, Top(Listed)}
  PROVE  WormInv'
<1>0. TypeOK /\ RowsFollow
  BY DEF WormInv
<1>1. TypeOK' /\ RowsFollow'
  BY <1>0 DEF TypeOK, RowsFollow
<1>2. head' \in Nat /\ head <= head'
  BY <1>0 DEF TypeOK
<1>3. \A q \in Replicas : Exporting(q)'
  BY <1>0, <1>2, ExporterFrame DEF WormInv
<1>4. head' = 0 => /\ up' # {} => Listed = {}
                   /\ \A q \in Replicas : wm'[q] \in {-1, Top(Listed)}
  BY DEF WormInv
<1> QED
  BY <1>1, <1>3, <1>4, FrameKeeps DEF WormInv, PrunedIsArchived

\* A watermark that is dropped proves nothing and need not.
LEMMA DropWatermark ==
  ASSUME WormInv, NEW r \in Replicas, wm' = [wm EXCEPT ![r] = -1]
  PROVE  /\ wm' \in [Replicas -> Int]
         /\ \A q \in Replicas : 1 .. wm'[q] \subseteq Kept
         /\ \A q \in Replicas : wm'[q] \in {wm[q], -1}
<1>1. wm \in [Replicas -> Int]
  BY DEF WormInv, TypeOK
<1>2. wm' \in [Replicas -> Int] /\ wm'[r] = -1 /\ \A q \in Replicas \ {r} : wm'[q] = wm[q]
  BY <1>1
<1>3. 1 .. -1 = {}
  OBVIOUS
<1> QED
  BY <1>2, <1>3 DEF WormInv

\* The boot's scan and the retention watermark: the end of a volume that verifies.
LEMMA WatermarkPreserves ==
  ASSUME WormInv, AllVerify, NEW r \in Replicas, wm' = [wm EXCEPT ![r] = Top(Listed)],
         UNCHANGED <<json, sig, stray, pc, last, key, bytes, leader, head, pruned, rows, up>>
  PROVE  WormInv'
<1>0. wm \in [Replicas -> Int] /\ \A q \in Replicas : 1 .. wm[q] \subseteq Kept
  BY DEF WormInv, TypeOK
<1>1. Top(Listed) \in Int /\ 1 .. Top(Listed) \subseteq Kept
  BY ScanProves
<1>2. wm' \in [Replicas -> Int] /\ wm'[r] = Top(Listed)
      /\ \A q \in Replicas \ {r} : wm'[q] = wm[q]
  BY <1>0, <1>1
<1> QED
  BY <1>0, <1>1, <1>2, QuietPreserves

\* A replica is admitted: while the head row is missing, its scan is the volume.
LEMMA AdmitPreserves == ASSUME WormInv, NEW r \in Replicas, BootAdmit(r) PROVE WormInv'
<1> USE WormAssumption
<1>0. TypeOK /\ RowsFollow
  BY DEF WormInv
<1>1. /\ UNCHANGED <<json, sig, stray, pc, last, key, bytes, leader>>
      /\ wm' = [wm EXCEPT ![r] = -1]
  BY DEF BootAdmit, objVars, expVars, leaseVars
<1>2. PICK w \in Int : w = wm[r]
  BY <1>0 DEF TypeOK
<1>3. w # -1 /\ 1 .. w \subseteq Kept /\ (head = 0 => w = Top(Listed))
  BY <1>2 DEF BootAdmit, WormInv
<1>4. \/ /\ head = 0 /\ w > 0 /\ w < MaxSeq
         /\ head' = w + 1 /\ pruned' = w /\ rows' = {w + 1}
      \/ /\ ~(head = 0 /\ w > 0) /\ w \in pruned .. head
         /\ UNCHANGED <<head, pruned, rows>>
  BY <1>2 DEF BootAdmit, streamVars, StreamAccepts
<1>5. head' \in Nat /\ pruned' \in Nat /\ head <= head' /\ RowsFollow'
  <2>1. CASE head = 0 /\ w > 0 /\ head' = w + 1 /\ pruned' = w /\ rows' = {w + 1} /\ w < MaxSeq
    <3>1. {w + 1} = w + 1 .. w + 1
      OBVIOUS
    <3> QED
      BY <1>0, <2>1, <3>1 DEF TypeOK, RowsFollow
  <2>2. CASE UNCHANGED <<head, pruned, rows>>
    BY <1>0, <2>2 DEF TypeOK, RowsFollow
  <2> QED
    BY <1>4, <2>1, <2>2
<1>6. /\ wm' \in [Replicas -> Int]
      /\ \A q \in Replicas : 1 .. wm'[q] \subseteq Kept
      /\ \A q \in Replicas : wm'[q] \in {wm[q], -1}
  BY <1>1, DropWatermark, Zenon
<1>7. TypeOK'
  BY <1>0, <1>1, <1>5, <1>6 DEF TypeOK
<1>8. \A q \in Replicas : Exporting(q)'
  BY <1>0, <1>1, <1>5, ExporterFrame DEF WormInv
<1>9. 1 .. pruned' \subseteq Kept
  BY <1>3, <1>4 DEF WormInv, PrunedIsArchived
<1>10. ASSUME head' = 0
       PROVE  Listed = {} /\ \A q \in Replicas : wm'[q] \in {-1, Top(Listed)}
  <2>1. head = 0 /\ w = 0
    BY <1>0, <1>4, <1>10 DEF TypeOK
  <2>2. PICK n \in 0 .. MaxSeq : EndsAt(n)
    BY DEF WormInv
  <2>3. EndsAt(0)
    BY <1>3, <2>1, <2>2, TopIs
  <2>4. Listed = {}
    BY <2>3, KeyRange DEF EndsAt, Listed
  <2> QED
    BY <1>6, <2>1, <2>4 DEF WormInv
<1> QED
  BY <1>1, <1>5, <1>6, <1>7, <1>8, <1>9, <1>10, FrameKeeps

\* The new leader has nothing in hand; a deposed one knows less.
LEMMA ElectPreserves == ASSUME WormInv, NEW r \in Replicas, Elect(r) PROVE WormInv'
<1>0. TypeOK /\ RowsFollow
  BY DEF WormInv
<1>1. /\ UNCHANGED <<json, sig, stray, pc, last, key, bytes, wm, up, head, pruned, rows>>
      /\ leader' = r /\ pc[r] = "idle"
  BY DEF Elect, objVars, expVars, streamVars
<1>2. TypeOK' /\ RowsFollow'
  BY <1>0, <1>1 DEF TypeOK, RowsFollow
<1>3. head' \in Nat /\ head <= head'
  BY <1>0, <1>1 DEF TypeOK
<1>4. ASSUME NEW q \in Replicas PROVE Exporting(q)'
  <2>1. CASE q = r
    BY <1>1, <2>1, IdleExporterNext
  <2>2. CASE q # r
    BY <1>0, <1>1, <1>3, <2>2, ExporterFrame DEF WormInv
  <2> QED
    BY <2>1, <2>2
<1> QED
  BY <1>1, <1>2, <1>4, FrameKeeps DEF WormInv, PrunedIsArchived

\* A cycle that ends, with or without a half-written object left behind.
LEMMA CycleEndPreserves ==
  ASSUME WormInv, NEW r \in Replicas, EndCycle(r),
         Put(r, Torn) \/ UNCHANGED <<json, sig, stray>>,
         UNCHANGED <<head, pruned, rows, leader>>, up' # {} => up # {},
         wm' \in [Replicas -> Int],
         \A q \in Replicas : 1 .. wm'[q] \subseteq Kept,
         \A q \in Replicas : wm'[q] \in {wm[q], -1}
  PROVE  WormInv'
<1>0. TypeOK /\ RowsFollow
  BY DEF WormInv
<1>1. /\ pc' \in [Replicas -> {"idle", "source", "json", "sig", "sign"}]
      /\ last' \in [Replicas -> Nat]
      /\ key' \in [Replicas -> Keys \cup {NoKey}]
      /\ bytes' \in [Replicas -> Replicas \cup {None}]
      /\ pc'[r] = "idle"
      /\ \A q \in Replicas \ {r} : /\ pc'[q] = pc[q] /\ last'[q] = last[q]
                                   /\ key'[q] = key[q] /\ bytes'[q] = bytes[q]
  BY <1>0, EndCycleTypes
<1>2. Exporting(r)'
  BY <1>1, IdleExporterNext
<1>3. CASE Putting(r) /\ Put(r, Torn)
  BY <1>1, <1>2, <1>3, PutStep
<1>4. CASE UNCHANGED <<json, sig, stray>>
  <2>1. TypeOK' /\ RowsFollow'
    BY <1>0, <1>1, <1>4 DEF TypeOK, RowsFollow
  <2>2. head' \in Nat /\ head <= head'
    BY <1>0 DEF TypeOK
  <2>3. ASSUME NEW q \in Replicas \ {r} PROVE Exporting(q)'
    BY <1>0, <1>1, <1>4, <2>2, ExporterFrame, ZenonT(30) DEF WormInv
  <2>4. head' = 0 => /\ up' # {} => Listed = {}
                     /\ \A q \in Replicas : wm'[q] \in {-1, Top(Listed)}
    BY DEF WormInv
  <2> QED
    BY <1>2, <1>4, <2>1, <2>3, <2>4, FrameKeeps DEF WormInv, PrunedIsArchived
<1>5. CASE ~Putting(r) /\ Put(r, Torn)
  BY <1>4, <1>5 DEF Put, Putting
<1> QED
  BY <1>3, <1>4, <1>5

LEMMA ScanPreserves == ASSUME WormInv, NEW r \in Replicas, Scan(r) PROVE WormInv'
<1>0. TypeOK /\ RowsFollow /\ AllVerify
  BY DEF WormInv, Scan, StrictScan
<1>1. UNCHANGED <<json, sig, stray, key, bytes, wm, up, leader, head, pruned, rows>>
  BY DEF Scan, objVars, leaseVars, streamVars
<1>2. PICK n \in 0 .. MaxSeq : n = Top(Listed)
  BY <1>0, ScanProves
<1>3. EndsAt(n)
  BY <1>0, <1>2, ScanProves
<1>4. /\ pc' = [pc EXCEPT ![r] = "source"]
      /\ last' = [last EXCEPT ![r] = n]
  BY <1>2 DEF Scan
<1>5. TypeOK' /\ RowsFollow'
  BY <1>0, <1>1, <1>4 DEF TypeOK, RowsFollow
<1>6. ASSUME NEW q \in Replicas PROVE Exporting(q)'
  <2>1. CASE q = r
    <3>1. pc'[q] = "source" /\ last'[q] = n
      BY <1>0, <1>4, <2>1 DEF TypeOK
    <3>2. Covered(last[q])'
      BY <1>1, <1>3, <3>1, VolumeFrame DEF EndsAt, Covered
    <3>3. \A k \in Own : Verifies(k) /\ k[2] < n + 1
      BY <1>0, <1>3, KeyRange DEF EndsAt, AllVerify, Own, Listed
    <3>4. OwnBefore(last[q] + 1, NoKey)'
      BY <1>1, <3>1, <3>3, VolumeFrame DEF OwnBefore
    <3> QED
      BY <3>1, <3>2, <3>4 DEF Exporting, Putting
  <2>2. CASE q # r
    <3>1. head' \in Nat /\ head <= head'
      BY <1>0, <1>1 DEF TypeOK
    <3>2. pc'[q] = pc[q] /\ last'[q] = last[q] /\ key'[q] = key[q] /\ bytes'[q] = bytes[q]
      BY <1>0, <1>1, <1>4, <2>2 DEF TypeOK
    <3> QED
      BY <1>0, <1>1, <3>1, <3>2, ExporterFrame DEF WormInv
  <2> QED
    BY <2>1, <2>2
<1> QED
  BY <1>1, <1>5, <1>6, FrameKeeps DEF WormInv, PrunedIsArchived

LEMMA ScanTailPreserves == ASSUME WormInv, NEW r \in Replicas, ScanTail(r) PROVE WormInv'
<1> USE WormAssumption
<1>0. TypeOK /\ RowsFollow
  BY Zenon DEF WormInv
<1>1. UNCHANGED <<json, sig, stray, last, wm, up, leader, head, pruned, rows>>
  BY DEF ScanTail, objVars, leaseVars, streamVars
<1>2. PICK k \in Listed :
         /\ Tail(k) /\ json[k] \in Replicas
         /\ \A j \in Listed \ {k} : Verifies(j)
         /\ Contiguous(Listed)
         /\ r = leader /\ k[2] <= head
         /\ key' = [key EXCEPT ![r] = k]
         /\ bytes' = [bytes EXCEPT ![r] = json[k]]
  BY Zenon DEF ScanTail
<1>3. k \in Keys /\ sig[k] = None
  BY <1>2 DEF Tail, Unsigned, Listed
<1>4. Covered(k[1] - 1)
  <2>1. \A s \in 1 .. k[2] : \E j \in Listed : s \in j[1] .. j[2]
    BY DEF WormInv, OneLooseEnd
  <2> QED
    BY <1>3, <2>1, KeyRange DEF Covered
<1>5. \A j \in Own \ {k} : Verifies(j) /\ j[2] < k[1]
  <2> SUFFICES ASSUME NEW j \in Listed \ {k} PROVE Verifies(j) /\ j[2] < k[1]
    BY DEF Own
  <2>1. j[1] <= k[1] /\ j[1] \in Nat /\ k[1] \in Nat
    BY <1>2, <1>3, KeyRange DEF Tail, Listed
  <2>2. j[1] # k[1] /\ (j[1] < k[1] => j[2] < k[1])
    BY <1>2 DEF Contiguous
  <2> QED
    BY <1>2, <2>1, <2>2
<1>6. pc' = [pc EXCEPT ![r] = "sign"]
  BY DEF ScanTail
<1>7. TypeOK' /\ RowsFollow'
  BY <1>0, <1>1, <1>2, <1>3, <1>6 DEF TypeOK, RowsFollow
<1>8. ASSUME NEW q \in Replicas PROVE Exporting(q)'
  <2>1. CASE q = r
    <3>1. pc'[q] = "sign" /\ key'[q] = k /\ bytes'[q] = json[k]
      BY <1>0, <1>2, <1>6, <2>1 DEF TypeOK
    <3>2. Covered(key[q][1] - 1)'
      BY <1>1, <1>4, <3>1, VolumeFrame, ZenonT(30) DEF Covered
    <3>3. OwnBefore(key[q][1], key[q])'
      BY <1>1, <1>5, <3>1, VolumeFrame DEF OwnBefore
    <3>4. key'[q] \in Listed' /\ key'[q] \in Keys /\ key'[q][2] <= head'
          /\ bytes'[q] \in Replicas /\ json'[key'[q]] = bytes'[q] /\ sig'[key'[q]] = None
      BY <1>1, <1>2, <1>3, <3>1, VolumeFrame
    <3> QED
      BY <3>1, <3>2, <3>3, <3>4 DEF Exporting, Putting
  <2>2. CASE q # r
    <3>1. head' \in Nat /\ head <= head'
      BY <1>0, <1>1 DEF TypeOK
    <3>2. pc'[q] = pc[q] /\ last'[q] = last[q] /\ key'[q] = key[q] /\ bytes'[q] = bytes[q]
      BY <1>0, <1>1, <1>2, <1>6, <2>2 DEF TypeOK
    <3> QED
      BY <1>0, <1>1, <3>1, <3>2, ExporterFrame DEF WormInv
  <2> QED
    BY <2>1, <2>2
<1> QED
  BY <1>1, <1>7, <1>8, FrameKeeps DEF WormInv, PrunedIsArchived

LEMMA ReadSourcePreserves ==
  ASSUME WormInv, NEW r \in Replicas, ReadSource(r) PROVE WormInv'
<1> USE WormAssumption
<1>0. TypeOK /\ RowsFollow /\ Exporting(r)
  BY DEF WormInv
<1>1. UNCHANGED <<json, sig, stray, wm, up, leader, head, pruned, rows>>
  BY DEF ReadSource, objVars, leaseVars, streamVars
<1>2. CASE EndCycle(r)
  <2>1. /\ wm' \in [Replicas -> Int]
        /\ \A q \in Replicas : 1 .. wm'[q] \subseteq Kept
    BY <1>1 DEF WormInv, TypeOK
  <2> QED
    BY <1>1, <1>2, <2>1, CycleEndPreserves
<1>3. CASE ~EndCycle(r)
  <2>1. PICK n \in Nat : n = last[r]
    BY <1>0 DEF TypeOK
  <2>2. n < head /\ head \in Nat /\ head <= MaxSeq
    BY <1>0, <1>3, <2>1 DEF ReadSource, StreamAccepts, TypeOK, RowsFollow
  <2>3. PICK k \in Keys : k = <<n + 1, PageEnd(n, PageSize)>>
    BY <2>2, PageIsKey, Zenon
  <2>4. k[1] = n + 1 /\ k[1] - 1 = n /\ k[2] <= head
    BY <2>2, <2>3, PageIsKey
  <2>5. Covered(n) /\ OwnBefore(n + 1, NoKey) /\ r = leader
    BY <1>0, <2>1 DEF Exporting, ReadSource
  <2>6. /\ key' = [key EXCEPT ![r] = k] /\ bytes' = [bytes EXCEPT ![r] = r]
        /\ pc' = [pc EXCEPT ![r] = "json"] /\ last' = last
    BY <1>3, <2>1, <2>3 DEF ReadSource
  <2>7. TypeOK' /\ RowsFollow'
    BY <1>0, <1>1, <2>6 DEF TypeOK, RowsFollow
  <2>8. ASSUME NEW q \in Replicas PROVE Exporting(q)'
    <3>1. CASE q = r
      <4>1. pc'[q] = "json" /\ key'[q] = k /\ bytes'[q] = r
        BY <1>0, <2>6, <3>1 DEF TypeOK
      <4>2. Covered(key[q][1] - 1)'
        BY <1>1, <2>4, <2>5, <4>1, VolumeFrame DEF Covered
      <4>3. OwnBefore(key[q][1], NoKey)'
        BY <1>1, <2>4, <2>5, <4>1, VolumeFrame DEF OwnBefore
      <4> QED
        BY <1>1, <2>4, <4>1, <4>2, <4>3 DEF Exporting, Putting
    <3>2. CASE q # r
      <4>1. head' \in Nat /\ head <= head'
        BY <1>0, <1>1 DEF TypeOK
      <4>2. pc'[q] = pc[q] /\ last'[q] = last[q] /\ key'[q] = key[q] /\ bytes'[q] = bytes[q]
        BY <1>0, <2>6, <3>2 DEF TypeOK
      <4> QED
        BY <1>0, <1>1, <4>1, <4>2, ExporterFrame DEF WormInv
    <3> QED
      BY <3>1, <3>2
  <2> QED
    BY <1>1, <2>7, <2>8, FrameKeeps DEF WormInv, PrunedIsArchived
<1> QED
  BY <1>2, <1>3

LEMMA PutJSONPreserves ==
  ASSUME WormInv, NEW r \in Replicas, PutJSON(r) PROVE WormInv'
<1> USE WormAssumption
<1>0. TypeOK /\ Exporting(r) /\ pc[r] = "json" /\ Putting(r)
  BY DEF WormInv, PutJSON, Putting
<1>1. UNCHANGED <<last, key, bytes, wm, leader, head, pruned, rows>>
  BY DEF PutJSON, leaseVars, streamVars
<1>2. PICK k \in Keys : k = key[r]
  BY <1>0 DEF Exporting
<1>3. PICK v \in Replicas : v = bytes[r]
  BY <1>0 DEF Exporting
<1>4. Covered(k[1] - 1) /\ k[2] <= head
  BY <1>0, <1>2 DEF Exporting
<1>5. Put(r, v) /\ pc' = [pc EXCEPT ![r] = "sig"]
  BY <1>3 DEF PutJSON
<1>6. /\ stray' = IF r = leader THEN stray ELSE stray \cup {k}
      /\ \A j \in Keys \ {k} : Verifies(j)' <=> Verifies(j)
      /\ Listed' = Listed \cup {k}
  BY <1>0, <1>2, <1>5, PutTouches
<1>7. json'[k] = v /\ sig' = sig
  BY <1>0, <1>2, <1>5 DEF Put, TypeOK
<1>8. /\ pc' \in [Replicas -> {"idle", "source", "json", "sig", "sign"}]
      /\ pc'[r] = "sig" /\ \A q \in Replicas \ {r} : pc'[q] = pc[q]
  BY <1>0, <1>5 DEF TypeOK
<1>9. Exporting(r)'
  <2>1. Covered(k[1] - 1)'
    BY <1>4, <1>6, CoveredGrows
  <2>2. Covered(key[r][1] - 1)'
    BY <1>1, <1>2, <2>1 DEF Covered
  <2>3. ASSUME r = leader'
        PROVE  /\ OwnBefore(key[r][1], key[r])'
               /\ k \in stray' \/ (json'[k] = v /\ sig'[k] = None)
    <3>1. OwnBefore(k[1], k)' /\ (k \notin stray => sig[k] = None) /\ stray' = stray
      BY <1>0, <1>1, <1>2, <1>6, <2>3, LeaderPut
    <3> QED
      BY <1>1, <1>2, <1>7, <3>1 DEF OwnBefore
  <2>4. /\ key'[r] \in Keys /\ key'[r][2] <= head' /\ bytes'[r] \in Replicas
        /\ key'[r] \in Listed'
    BY <1>1, <1>2, <1>3, <1>4, <1>6
  <2> QED
    BY <1>1, <1>2, <1>3, <1>8, <2>2, <2>3, <2>4 DEF Exporting, Putting
<1>10. /\ last' \in [Replicas -> Nat] /\ key' \in [Replicas -> Keys \cup {NoKey}]
       /\ bytes' \in [Replicas -> Replicas \cup {None}] /\ wm' \in [Replicas -> Int]
       /\ \A q \in Replicas : 1 .. wm'[q] \subseteq Kept
  BY <1>0, <1>1 DEF TypeOK, WormInv
<1> QED
  BY <1>0, <1>1, <1>5, <1>8, <1>9, <1>10, PutStep

LEMMA PutSigPreserves ==
  ASSUME WormInv, NEW r \in Replicas, PutSig(r) PROVE WormInv'
<1> USE WormAssumption
<1>0. TypeOK /\ Exporting(r) /\ pc[r] \in {"sig", "sign"} /\ Putting(r)
  BY ZenonT(30) DEF WormInv, PutSig, Putting
<1>1. UNCHANGED <<wm, leader, head, pruned, rows>>
  BY DEF PutSig, leaseVars, streamVars
<1>2. PICK k \in Keys : k = key[r]
  BY <1>0 DEF Exporting
<1>3. PICK v \in Replicas : v = bytes[r]
  BY <1>0 DEF Exporting
<1>4. Covered(k[1] - 1) /\ k[2] \in Nat /\ k[1] \in Nat /\ k[1] <= k[2]
  BY <1>0, <1>2, KeyRange DEF Exporting
<1>5. Put(r, v)
  BY <1>3 DEF PutSig
<1>6. /\ stray' = IF r = leader THEN stray ELSE stray \cup {k}
      /\ \A j \in Keys \ {k} : Verifies(j)' <=> Verifies(j)
      /\ Listed' = Listed \cup {k}
  BY <1>0, <1>2, <1>5, PutTouches
<1>7. sig'[k] = v /\ json' = json
  BY <1>0, <1>2, <1>5 DEF Put, TypeOK
<1>8. /\ pc' \in [Replicas -> {"idle", "source", "json", "sig", "sign"}]
      /\ last' \in [Replicas -> Nat]
      /\ key' \in [Replicas -> Keys \cup {NoKey}]
      /\ bytes' \in [Replicas -> Replicas \cup {None}]
      /\ pc'[r] = "idle" \/ (pc'[r] = "source" /\ last'[r] = k[2])
      /\ \A q \in Replicas \ {r} : /\ pc'[q] = pc[q] /\ last'[q] = last[q]
                                   /\ key'[q] = key[q] /\ bytes'[q] = bytes[q]
  <2>1. CASE EndCycle(r)
    BY <1>0, <2>1, EndCycleTypes, Zenon
  <2>2. CASE ~EndCycle(r)
    BY <1>0, <1>2, <1>4, <2>2 DEF PutSig, TypeOK
  <2> QED
    BY <2>1, <2>2
<1>9. Exporting(r)'
  <2>1. CASE pc'[r] = "idle"
    BY <2>1, IdleExporterNext
  <2>2. CASE pc'[r] = "source" /\ last'[r] = k[2]
    <3>1. Covered(k[2])'
      BY <1>4, <1>6, PutEnds
    <3>2. Covered(last[r])'
      BY <2>2, <3>1 DEF Covered
    <3>3. ASSUME r = leader PROVE OwnBefore(last[r] + 1, NoKey)'
      <4>1. OwnBefore(k[1], k)' /\ stray' = stray
        BY <1>0, <1>2, <1>6, <3>3, LeaderPut
      <4>2. k \notin stray => Verifies(k)'
        <5>1. k \notin stray => json[k] = v
          BY <1>0, <1>2, <1>3, <3>3 DEF Exporting
        <5> QED
          BY <1>7, <5>1 DEF Verifies
      <4>3. \A j \in Own' : j \in Keys /\ j[2] \in Nat
        BY KeyRange DEF Own, Listed
      <4>4. \A j \in Own' : Verifies(j)' /\ j[2] < k[2] + 1
        BY <1>4, <4>1, <4>2, <4>3 DEF OwnBefore, Own
      <4> QED
        BY <2>2, <4>4 DEF OwnBefore
    <3> QED
      BY <1>1, <2>2, <3>2, <3>3 DEF Exporting, Putting
  <2> QED
    BY <1>8, <2>1, <2>2
<1>10. wm' \in [Replicas -> Int] /\ \A q \in Replicas : 1 .. wm'[q] \subseteq Kept
  BY <1>0, <1>1 DEF TypeOK, WormInv
<1> QED
  BY <1>0, <1>1, <1>5, <1>8, <1>9, <1>10, PutStep

LEMMA PrunePreserves ==
  ASSUME WormInv, NEW r \in Replicas, PruneProvider(r) PROVE WormInv'
<1> USE WormAssumption
<1>0. TypeOK /\ RowsFollow
  BY DEF WormInv
<1>1. /\ UNCHANGED <<json, sig, stray, pc, last, key, bytes, up, leader>>
      /\ wm' = [wm EXCEPT ![r] = -1]
  BY DEF PruneProvider, objVars, expVars, leaseVars
<1>2. PICK cut \in pruned + 1 .. wm[r] : PruneLocked(cut)
  BY DEF PruneProvider
<1>3. wm[r] \in Int /\ wm[r] <= head /\ cut \in Nat /\ cut <= wm[r] /\ pruned < cut
  BY <1>0, <1>2 DEF PruneProvider, StreamAccepts, TypeOK
<1>4. /\ head < MaxSeq /\ head' = head + 1 /\ pruned' = cut
      /\ rows' = { s \in rows : s > cut } \cup {head + 1}
  BY <1>2 DEF PruneLocked
<1>5. RowsFollow'
  <2>1. rows = pruned + 1 .. head /\ head \in Nat /\ pruned \in Nat /\ cut <= head
    BY <1>0, <1>3 DEF RowsFollow, TypeOK
  <2>2. \A s : s \in rows' <=> s \in cut + 1 .. head + 1
    BY <1>3, <1>4, <2>1
  <2>3. rows' = cut + 1 .. head + 1
    BY <2>2, Zenon
  <2> QED
    BY <1>3, <1>4, <2>1, <2>3 DEF RowsFollow
<1>6. wm' \in [Replicas -> Int] /\ \A q \in Replicas : 1 .. wm'[q] \subseteq Kept
  BY <1>1, DropWatermark, Zenon
<1>7. head' \in Nat /\ head <= head' /\ head' # 0
  BY <1>0, <1>4 DEF TypeOK
<1>8. TypeOK'
  BY <1>0, <1>1, <1>3, <1>4, <1>6, <1>7 DEF TypeOK
<1>9. \A q \in Replicas : Exporting(q)'
  BY <1>0, <1>1, <1>7, ExporterFrame, Zenon DEF WormInv
<1>10. 1 .. pruned' \subseteq Kept
  <2>1. 1 .. cut \subseteq 1 .. wm[r]
    BY <1>3
  <2> QED
    BY <1>4, <2>1 DEF WormInv
<1> QED
  BY <1>1, <1>5, <1>6, <1>7, <1>8, <1>9, <1>10, FrameKeeps

\* The initial volume: empty, or one signed segment of history.
LEMMA WormInitEstablishes ==
  ASSUME Init PROVE WormInv /\ AllVerify
<1> USE WormAssumption
<1>1. PICK n \in {0, Legacy}, o \in Replicas :
         LET seg == [k \in Keys |-> IF k = <<1, n>> THEN o ELSE None]
         IN  json = seg /\ sig = seg
  BY DEF Init
<1>2. /\ head = 0 /\ pruned = 0 /\ rows = {} /\ up = {} /\ stray = {}
      /\ pc = [r \in Replicas |-> "idle"] /\ last = [r \in Replicas |-> 0]
      /\ key = [r \in Replicas |-> NoKey] /\ bytes = [r \in Replicas |-> None]
      /\ wm = [r \in Replicas |-> -1]
  BY DEF Init, StreamInit
<1>3. TypeOK
  BY <1>1, <1>2 DEF TypeOK
<1>4. RowsFollow
  BY <1>2 DEF RowsFollow
<1>5. \A k \in Keys : /\ k = <<1, n>> => k \in Listed /\ Verifies(k)
                      /\ k # <<1, n>> => k \notin Listed
  BY <1>1 DEF Listed, Verifies
<1>6. Listed \subseteq {<<1, n>>} /\ n \in 0 .. MaxSeq
  BY <1>5 DEF Listed
<1>7. n > 0 => <<1, n>> \in Keys
  BY DEF Keys
<1>8. AllVerify
  BY <1>5 DEF AllVerify, Listed
<1>9. EndsAt(n)
  <2>1. \A k \in Listed : k[2] <= n
    BY <1>6
  <2>2. ASSUME NEW s \in 1 .. n PROVE \E k \in Listed : s \in k[1] .. k[2]
    <3>1. <<1, n>> \in Listed
      BY <1>5, <1>6, <1>7, <2>2
    <3> QED
      BY <3>1
  <2> QED
    BY <2>1, <2>2 DEF EndsAt, Covered
<1>10. OneLooseEnd
  <2>1. \A k \in Listed : \A s \in 1 .. k[2] : \E j \in Listed : s \in j[1] .. j[2]
    BY <1>6
  <2>2. \A j, k \in Own : j = k
    BY <1>6 DEF Own
  <2> QED
    BY <1>8, <2>1, <2>2 DEF OneLooseEnd, AllVerify, Own
<1>11. PrunedIsArchived /\ \A r \in Replicas : 1 .. wm[r] \subseteq Kept
  BY <1>2 DEF PrunedIsArchived
<1>12. \A r \in Replicas : Exporting(r)
  BY <1>2, IdleExporter
<1> QED
  BY <1>2, <1>3, <1>4, <1>6, <1>8, <1>9, <1>10, <1>11, <1>12 DEF WormInv

\* Every step keeps the invariant.
LEMMA WormStepPreserves == WormInv /\ [Next]_vars => WormInv'
<1> SUFFICES ASSUME WormInv, [Next]_vars PROVE WormInv'
  OBVIOUS
<1> USE WormAssumption
<1>0. wm \in [Replicas -> Int] /\ \A q \in Replicas : 1 .. wm[q] \subseteq Kept
  BY DEF WormInv, TypeOK
<1>1. CASE UNCHANGED vars
  BY <1>0, <1>1, QuietPreserves DEF vars, streamVars, objVars, expVars, leaseVars
<1>2. CASE ProviderAppend
  BY <1>2, AppendPreserves
<1>3. ASSUME NEW r \in Replicas, BootCrash(r) \/ Cancel(r) PROVE WormInv'
  <2>1. UNCHANGED <<json, sig, stray, pc, last, key, bytes, leader, head, pruned, rows, up, wm>>
    BY <1>3 DEF BootCrash, Cancel, streamVars, objVars, expVars, leaseVars
  <2> QED
    BY <1>0, <2>1, QuietPreserves
<1>4. ASSUME NEW r \in Replicas, Crash(r) PROVE WormInv'
  <2>1. /\ UNCHANGED <<head, pruned, rows, leader>> /\ up' = up \ {r}
        /\ wm' = [wm EXCEPT ![r] = -1]
    BY <1>4 DEF Crash, streamVars
  <2>2. /\ wm' \in [Replicas -> Int] /\ \A q \in Replicas : 1 .. wm'[q] \subseteq Kept
        /\ \A q \in Replicas : wm'[q] \in {wm[q], -1}
    BY <2>1, DropWatermark, Zenon
  <2>3. EndCycle(r) /\ (Put(r, Torn) \/ UNCHANGED <<json, sig, stray>>)
    BY <1>4 DEF Crash
  <2> QED
    BY <2>1, <2>2, <2>3, CycleEndPreserves
<1>5. ASSUME NEW r \in Replicas, SourceFails(r) \/ PutFails(r) PROVE WormInv'
  <2>1. /\ EndCycle(r)
        /\ Put(r, Torn) \/ UNCHANGED <<json, sig, stray>>
        /\ UNCHANGED <<head, pruned, rows, leader, up, wm>>
    BY <1>5 DEF SourceFails, PutFails, streamVars, objVars, leaseVars
  <2> QED
    BY <1>0, <2>1, CycleEndPreserves
<1>6. ASSUME NEW r \in Replicas, BootScan(r) \/ RetentionProof(r) PROVE WormInv'
  <2>1. /\ UNCHANGED <<json, sig, stray, pc, last, key, bytes, leader, head, pruned, rows, up>>
        /\ wm' = [wm EXCEPT ![r] = Top(Listed)] /\ AllVerify
    BY <1>6 DEF BootScan, RetentionProof, StrictScan, streamVars, objVars, expVars, leaseVars
  <2> QED
    BY <2>1, WatermarkPreserves, Zenon
<1>7. ASSUME NEW r \in Replicas, BootRefused(r) \/ PruneSkipped(r) PROVE WormInv'
  <2>1. /\ UNCHANGED <<json, sig, stray, pc, last, key, bytes, leader, head, pruned, rows, up>>
        /\ wm' = [wm EXCEPT ![r] = -1]
    BY <1>7 DEF BootRefused, PruneSkipped, streamVars, objVars, expVars, leaseVars
  <2>2. /\ wm' \in [Replicas -> Int] /\ \A q \in Replicas : 1 .. wm'[q] \subseteq Kept
        /\ \A q \in Replicas : wm'[q] \in {wm[q], -1}
    BY <2>1, DropWatermark, Zenon
  <2> QED
    BY <2>1, <2>2, QuietPreserves
<1> QED
  BY <1>1, <1>2, <1>3, <1>4, <1>5, <1>6, <1>7, AdmitPreserves, ElectPreserves,
     ScanPreserves, ScanTailPreserves, ReadSourcePreserves, PutJSONPreserves,
     PutSigPreserves, PrunePreserves DEF Next

\* The export invariant holds in every reachable state, however the pages of the
\* lease holders overlap.
THEOREM WormInvHolds == Spec => []WormInv
<1>1. Init => WormInv
  BY WormInitEstablishes
<1> QED
  BY <1>1, WormStepPreserves, PTL DEF Spec

\* The volume has no gap, and crashes, failed Puts and failovers leave at most one
\* loose end among the segments written under the lease, the last one (exportPage
\* writes the JSON, then the signature), for any number of replicas and any page
\* size.
THEOREM AtMostOneLooseEnd == Spec => []OneLooseEnd
<1>1. WormInv => OneLooseEnd
  BY DEF WormInv
<1> QED
  BY <1>1, WormInvHolds, PTL

\* Retention deletes only what the volume holds under a valid signature
\* (RetentionWatermark, PruneProvider), and only a Put of a deposed exporter
\* (exportPage, unfenced) can take it away again.
THEOREM RetentionKeepsArchive == Spec => []PrunedIsArchived
<1>1. WormInv => PrunedIsArchived
  BY DEF WormInv
<1> QED
  BY <1>1, WormInvHolds, PTL

\* The history found on the volume is the trail that existed before.
LEMMA TrailInitRefines == Init => Trail!TrailInit
<1> SUFFICES ASSUME Init PROVE Trail!TrailInit
  OBVIOUS
<1> USE WormAssumption
<1>1. WormInv /\ AllVerify /\ stray = {}
  BY WormInitEstablishes DEF Init
<1>2. PICK n \in 0 .. MaxSeq : n = Top(Listed)
  BY <1>1, ScanProves
<1>3. EndsAt(n) /\ 1 .. n \subseteq Kept
  BY <1>1, <1>2, ScanProves
<1>4. ASSUME NEW s \in Kept PROVE s \in 1 .. n
  <2>1. PICK k \in Keys : Verifies(k) /\ s \in k[1] .. k[2]
    BY <1>1, <1>4, KeptIs
  <2>2. k[2] <= n
    BY <1>3, <2>1, VerifiedIsListed DEF EndsAt
  <2> QED
    BY <2>1, <2>2, KeyRange
<1>5. Kept = 1 .. n
  BY <1>3, <1>4, Zenon
<1>6. head = 0 /\ rows = {} /\ n \in Nat
  BY DEF Init, StreamInit
<1> QED
  BY <1>2, <1>5, <1>6 DEF Trail!TrailInit

\* A Put, whole or torn, archives events or leaves the trail alone.
LEMMA PutArchives ==
  ASSUME WormInv, NEW r \in Replicas, Putting(r), NEW v \in Replicas \cup {Torn}, Put(r, v),
         UNCHANGED <<head, rows>>
  PROVE  Trail!Archive
<1>1. Kept \subseteq Kept' /\ Kept' \subseteq Kept \cup rows /\ head # 0
  BY PutVolume
<1> QED
  BY <1>1 DEF Trail!Archive

\* Every step maps to a step of the trail or leaves it alone.
LEMMA TrailStepRefines ==
  WormInv /\ [Next]_vars => [Trail!TrailNext]_(Trail!trailVars)
<1> SUFFICES ASSUME WormInv, [Next]_vars
             PROVE  Trail!TrailNext \/ UNCHANGED Trail!trailVars
  OBVIOUS
<1> USE WormAssumption DEF Trail!trailVars
<1>0. TypeOK /\ RowsFollow /\ PrunedIsArchived
  BY DEF WormInv
<1>1. ASSUME UNCHANGED <<head, rows, json, sig, stray>> PROVE UNCHANGED Trail!trailVars
  BY <1>1, VolumeFrame
<1>2. CASE ProviderAppend
  <2>1. /\ UNCHANGED <<json, sig, stray>> /\ up # {}
        /\ head' = head + 1 /\ rows' = rows \cup {head + 1}
    BY <1>2 DEF ProviderAppend, AppendLocked, objVars
  <2>2. head = 0 => Top(Listed) = 0
    BY <2>1 DEF WormInv, Top
  <2>3. Kept' = Kept
    BY <2>1, VolumeFrame
  <2>4. head' # 0 /\ (IF head = 0 THEN Top(Listed) ELSE head) = head
    BY <1>0, <2>1, <2>2 DEF TypeOK
  <2>5. Trail!Append
    BY <2>1, <2>3, <2>4 DEF Trail!Append
  <2> QED
    BY <2>5 DEF Trail!TrailNext
<1>3. ASSUME NEW r \in Replicas, BootAdmit(r)
      PROVE  Trail!TrailNext \/ UNCHANGED Trail!trailVars
  <2>1. UNCHANGED <<json, sig, stray>>
    BY <1>3 DEF BootAdmit, objVars
  <2>2. PICK w \in Int : w = wm[r]
    BY <1>0 DEF TypeOK
  <2>3. CASE head = 0 /\ w > 0
    <3>1. head' = w + 1 /\ rows' = {w + 1}
      BY <1>3, <2>2, <2>3 DEF BootAdmit
    <3>2. rows = {}
      BY <1>0, <2>3 DEF RowsFollow, TypeOK
    <3>3. Kept' = Kept
      BY <2>1, VolumeFrame
    <3>4. head' # 0 /\ rows' = rows \cup {w + 1}
      BY <2>3, <3>1, <3>2
    <3>5. w = Top(Listed)
      BY <2>2, <2>3 DEF WormInv
    <3>6. Trail!Append
      BY <2>3, <3>1, <3>3, <3>4, <3>5 DEF Trail!Append
    <3> QED
      BY <3>6 DEF Trail!TrailNext
  <2>4. CASE ~(head = 0 /\ w > 0)
    BY <1>1, <1>3, <2>1, <2>2, <2>4 DEF BootAdmit, streamVars
  <2> QED
    BY <2>3, <2>4
<1>4. ASSUME NEW r \in Replicas, PutJSON(r) \/ PutSig(r) \/ PutFails(r) \/ Crash(r)
      PROVE  Trail!TrailNext \/ UNCHANGED Trail!trailVars
  <2>1. UNCHANGED <<head, rows>>
    BY <1>4, Zenon DEF PutJSON, PutSig, PutFails, Crash, streamVars
  <2>2. CASE UNCHANGED <<json, sig, stray>>
    BY <1>1, <2>1, <2>2
  <2>3. ASSUME NEW v \in Replicas \cup {Torn}, Put(r, v), Putting(r) PROVE Trail!TrailNext
    BY <2>1, <2>3, PutArchives DEF Trail!TrailNext
  <2>4. ASSUME Put(r, Torn), ~Putting(r) PROVE UNCHANGED <<json, sig, stray>>
    BY <2>4 DEF Put, Putting
  <2>5. Putting(r) => bytes[r] \in Replicas
    BY DEF WormInv, Exporting
  <2>6. \/ Putting(r) /\ Put(r, bytes[r])
        \/ Put(r, Torn)
        \/ UNCHANGED <<json, sig, stray>>
    BY <1>4, Zenon DEF PutJSON, PutSig, PutFails, Crash, Putting
  <2> QED
    BY <2>2, <2>3, <2>4, <2>5, <2>6
<1>5. ASSUME NEW r \in Replicas, PruneProvider(r) PROVE Trail!TrailNext
  <2>1. PICK cut \in pruned + 1 .. wm[r] : PruneLocked(cut)
    BY <1>5 DEF PruneProvider
  <2>2. UNCHANGED <<json, sig, stray>> /\ wm[r] \in Int /\ wm[r] > 0 /\ wm[r] <= head
    BY <1>0, <1>5 DEF PruneProvider, objVars, StreamAccepts, TypeOK
  <2>3. /\ head' = head + 1 /\ head # 0 /\ head' # 0
        /\ rows' = { s \in rows : s > cut } \cup {head + 1}
    BY <1>0, <2>1, <2>2 DEF PruneLocked, TypeOK
  <2>4. ASSUME NEW s \in rows \ Kept PROVE s \in rows'
    <3>1. s \in Nat /\ 1 <= s /\ cut \in Int /\ cut <= wm[r]
      BY <1>0, <2>1, <2>2, <2>4 DEF RowsFollow, TypeOK
    <3>2. 1 .. wm[r] \subseteq Kept
      BY DEF WormInv
    <3>3. s > cut
      BY <2>2, <2>4, <3>1, <3>2
    <3> QED
      BY <2>3, <2>4, <3>3
  <2>5. Kept' = Kept
    BY <2>2, VolumeFrame
  <2>6. Trail!Prune
    BY <2>3, <2>4, <2>5 DEF Trail!Prune
  <2> QED
    BY <2>6 DEF Trail!TrailNext
<1>6. ASSUME NEW r \in Replicas,
             \/ BootScan(r) \/ BootRefused(r) \/ BootCrash(r) \/ Elect(r) \/ Cancel(r)
             \/ Scan(r) \/ ScanTail(r) \/ ReadSource(r) \/ SourceFails(r)
             \/ RetentionProof(r) \/ PruneSkipped(r)
      PROVE  UNCHANGED Trail!trailVars
  <2>1. UNCHANGED <<head, rows, json, sig, stray>>
    BY <1>6, Zenon DEF BootScan, BootRefused, BootCrash, Elect, Cancel, Scan, ScanTail,
                ReadSource, SourceFails, RetentionProof, PruneSkipped, streamVars, objVars
  <2> QED
    BY <1>1, <2>1
<1>7. CASE UNCHANGED vars
  BY <1>1, <1>7 DEF vars, streamVars, objVars
<1> QED
  BY <1>2, <1>3, <1>4, <1>5, <1>6, <1>7, Zenon DEF Next

\* The provider stream together with the volume implements AuditTrail: across
\* crashes, torn Puts, failovers, overlapping lease holders, the rebuilt head row
\* and retention, every event stays readable from the database or under a valid
\* signature, or a deposed exporter wrote its segment.
THEOREM WormImplementsAuditTrail == Spec => ImplementsAuditTrail
  BY TrailInitRefines, TrailStepRefines, WormInvHolds, PTL
     DEF Spec, ImplementsAuditTrail, Trail!TrailSpec

\* Copying keeps the copy and pruning keeps what was not copied.
LEMMA TrailKeeps ==
  ASSUME Trail!Accounted, [Trail!TrailNext]_(Trail!trailVars)
  PROVE  Trail!Accounted'
<1> DEFINE newest == IF head = 0 THEN Top(Listed) ELSE head
<1>1. newest \in Nat /\ 1 .. newest \subseteq rows \cup Kept
  BY Zenon DEF Trail!Accounted, Trail!NothingLost
<1>2. SUFFICES newest' \in Nat /\ 1 .. newest' \subseteq rows' \cup Kept'
  BY Zenon DEF Trail!Accounted, Trail!NothingLost
<1>3. CASE Trail!Append
  <2>1. newest' = newest + 1 /\ rows' = rows \cup {newest + 1} /\ Kept' = Kept
    BY <1>3, Zenon DEF Trail!Append
  <2> HIDE DEF newest
  <2> QED
    BY <1>1, <2>1
<1>4. CASE Trail!Archive
  <2>1. newest' = newest /\ rows' = rows /\ Kept \subseteq Kept'
    BY <1>4, Zenon DEF Trail!Archive
  <2> HIDE DEF newest
  <2> QED
    BY <1>1, <2>1
<1>5. CASE Trail!Prune
  <2>1. /\ newest' = newest + 1 /\ newest + 1 \in rows'
        /\ rows \ Kept \subseteq rows' /\ Kept' = Kept
    BY <1>5, Zenon DEF Trail!Prune
  <2> HIDE DEF newest
  <2> QED
    BY <1>1, <2>1
<1>6. CASE UNCHANGED Trail!trailVars
  <2>1. newest' = newest /\ rows' = rows /\ Kept' = Kept
    BY <1>6, Zenon DEF Trail!trailVars
  <2> HIDE DEF newest
  <2> QED
    BY <1>1, <2>1
<1> QED
  BY <1>3, <1>4, <1>5, <1>6, Zenon DEF Trail!TrailNext

\* Every provider event ever appended can be read, from the database or under a
\* valid signature on the volume, unless a deposed exporter wrote its segment.
THEOREM ProviderEventsKept == Spec => []Trail!NothingLost
<1>1. Trail!TrailInit => Trail!Accounted
  BY DEF Trail!TrailInit, Trail!Accounted, Trail!NothingLost
<1>2. Trail!Accounted /\ [Trail!TrailNext]_(Trail!trailVars) => Trail!Accounted'
  BY TrailKeeps
<1>3. Trail!Accounted => Trail!NothingLost
  BY Zenon DEF Trail!Accounted
<1> QED
  BY <1>1, <1>2, <1>3, WormImplementsAuditTrail, PTL DEF ImplementsAuditTrail, Trail!TrailSpec
=============================================================================
