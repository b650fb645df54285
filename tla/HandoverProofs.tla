--------------------------- MODULE HandoverProofs ---------------------------
(***************************************************************************)
(* Two kinds of work that pass from one leader to the next.  What an       *)
(* acknowledged write says of the node it was written to, for any set of   *)
(* nodes and any number of promotions.  And the SIEM export: SiemInv is    *)
(* inductive for every set of replicas, page size and length of the        *)
(* stream; the export promises follow, and the tenant stream together with *)
(* the SIEM implements AuditTrail.                                         *)
(***************************************************************************)
EXTENDS ClusterFence, SiemExport, TLAPS

-----------------------------------------------------------------------------
(* The fence of the cluster. *)

\* Every node's probe is a probe, and tells its epoch and its timeline or none.
LEMMA ProbeTells ==
    ASSUME FenceConstants, TypeOK, NEW n \in Nodes, NEW p \in ProbesOf(n)
    PROVE  /\ p \in Probe
           /\ p.ok => p.epoch = epoch[n]
           /\ p.timeline \in {0, timeline[n]}
<1>1. CASE p = Unreached
  BY <1>1 DEF FenceConstants, Probe, Unreached, Epochs, Timelines
<1>2. CASE p # Unreached
  <2>1. PICK t \in {0, timeline[n]} :
           p = [ok |-> TRUE, recovery |-> IF n \in recovery THEN TRUE ELSE FALSE,
                epoch |-> epoch[n], timeline |-> t]
    BY <1>2 DEF ProbesOf
  <2>2. t \in Timelines /\ epoch[n] \in Epochs
    BY DEF FenceConstants, TypeOK, Timelines
  <2> QED
    BY <2>1, <2>2 DEF Probe
<1> QED
  BY <1>1, <1>2

\* A probe never lowers the marks, and they cover it.
LEMMA RaiseCovers ==
    ASSUME FenceConstants, NEW marks \in Marks, NEW p \in Probe
    PROVE  /\ Raise(marks, p) \in Marks
           /\ Raise(marks, p).epoch >= marks.epoch
           /\ Raise(marks, p).timeline >= marks.timeline
           /\ p.ok => Raise(marks, p).timeline >= p.timeline
BY DEF FenceConstants, Raise, Marks, Probe, Epochs, Timelines

\* A step of the nodes that leaves the request alone or drops it, raises no
\* node above the primary and changes only nodes that end level with the
\* replica or above it.
LEMMA NodeStep ==
    ASSUME FenceConstants, FenceInv, TypeOK',
           request' \in {request, NoRequest},
           \A n \in Nodes : timeline'[n] <= timeline'[primary'],
           timeline'[Reader] >= timeline[Reader],
           \A n \in Nodes : \/ timeline'[n] = timeline[n] /\ epoch'[n] = epoch[n]
                            \/ timeline'[n] >= timeline'[Reader]
    PROVE  FenceInv'
<1>1. CASE request' = NoRequest
  BY <1>1 DEF FenceInv, NoRequest
<1>2. CASE request' = request
  <2> DEFINE q == request.probed
  <2>1. q \in Nodes /\ request.seen \in Nat /\ timeline[Reader] \in Nat /\ timeline'[Reader] \in Nat
        /\ timeline'[q] \in Nat
    BY DEF FenceInv, TypeOK, Request, Timelines, FenceConstants
  <2>2. request.pc # "none" => request.seen <= timeline'[Reader]
    BY <2>1 DEF FenceInv
  <2>3. request.pc # "none" /\ timeline'[q] < request.seen =>
           timeline'[q] = timeline[q] /\ epoch'[q] = epoch[q]
    BY <2>1, <2>2
  <2>4. request.pc = "probed" /\ request.wp.ok /\ timeline'[q] < request.seen =>
          /\ request.wp.epoch = epoch'[q]
          /\ request.wp.timeline \in {0, timeline'[q]}
    BY <2>3 DEF FenceInv
  <2>5. request.pc \in {"admitted", "open", "acked"} /\ timeline'[q] < request.seen =>
          /\ epoch'[q] >= request.marks.epoch
          /\ \/ request.wblind
             \/ request.rblind /\ timeline'[q] >= request.marks.timeline
    BY <2>3 DEF FenceInv
  <2> QED
    BY <1>2, <2>2, <2>4, <2>5 DEF FenceInv
<1> QED
  BY <1>1, <1>2

\* The verdict of WriterUsableNow on a node behind the replica.
LEMMA DecideInv ==
    ASSUME FenceConstants, FenceInv, TypeOK', Decide
    PROVE  FenceInv'
<1> DEFINE q == request.probed
<1>0. UNCHANGED nodeVars /\ request.pc = "probed" /\ q \in Nodes /\ Reader \in Nodes
      /\ request.marks \in Marks /\ request.wp \in Probe
  BY DEF Decide, FenceInv, TypeOK, Request, FenceConstants
<1>1. PICK p \in ProbesOf(Reader) :
         request' = IF RoleUnder(request.wp, Raise(Raise(request.marks, p), request.wp)) = "writer"
                    THEN [request EXCEPT !.pc = "admitted", !.wp = Unreached,
                             !.wblind = IF request.wp.timeline = 0 THEN TRUE ELSE FALSE,
                             !.rblind = IF p.timeline = 0 THEN TRUE ELSE FALSE]
                    ELSE NoRequest
  BY Zenon DEF Decide
<1> DEFINE first == Raise(request.marks, p)
           last == Raise(first, request.wp)
<1>2. p \in Probe /\ p.timeline \in {0, timeline[Reader]}
  BY <1>0, ProbeTells DEF FenceInv
<1>3. CASE RoleUnder(request.wp, last) # "writer"
  <2>1. request' = NoRequest
    BY <1>1, <1>3
  <2> QED
    BY <2>1, <1>0 DEF FenceInv, NoRequest, nodeVars
<1>4. CASE RoleUnder(request.wp, last) = "writer"
  <2>1. request.wp.ok /\ ~Superseded(request.wp, last)
    BY <1>4 DEF RoleUnder
  <2>2. /\ first \in Marks /\ last \in Marks
        /\ first.epoch >= request.marks.epoch /\ last.epoch >= first.epoch
        /\ first.timeline >= request.marks.timeline /\ last.timeline >= first.timeline
        /\ p.ok => first.timeline >= p.timeline
        /\ last.timeline >= request.wp.timeline
    BY <1>0, <1>2, <2>1, RaiseCovers
  <2>3. ~p.ok => p.timeline = 0
    BY <1>1 DEF ProbesOf, Unreached
  <2>4. ASSUME timeline[q] < request.seen
        PROVE  /\ epoch[q] >= request.marks.epoch
               /\ \/ request.wp.timeline = 0
                  \/ p.timeline = 0 /\ timeline[q] >= request.marks.timeline
    <3>1. request.wp.epoch = epoch[q] /\ request.wp.timeline \in {0, timeline[q]}
          /\ request.seen <= timeline[Reader]
      BY <1>0, <2>1, <2>4 DEF FenceInv
    <3>2. /\ request.wp.epoch \in Nat /\ last.epoch \in Nat /\ first.epoch \in Nat /\ request.marks.epoch \in Nat
          /\ request.wp.timeline \in Nat /\ last.timeline \in Nat /\ first.timeline \in Nat
          /\ request.marks.timeline \in Nat /\ request.seen \in Nat /\ timeline[Reader] \in Nat
          /\ timeline[q] \in Nat /\ p.timeline \in Nat
      BY <1>0, <1>2, <2>2 DEF FenceInv, TypeOK, Request, Marks, Probe, Epochs, Timelines, FenceConstants
    <3>3. request.wp.epoch >= last.epoch
      BY <2>1, <3>2 DEF Superseded
    <3>4. request.wp.timeline # 0 => request.wp.timeline >= last.timeline
      BY <2>1, <2>2, <3>2 DEF Superseded
    <3>5. request.wp.timeline # 0 => p.timeline = 0
      BY <1>2, <2>2, <2>3, <2>4, <3>1, <3>2, <3>4
    <3> QED
      BY <2>2, <3>1, <3>2, <3>3, <3>4, <3>5
  <2>5. /\ request'.pc = "admitted" /\ request'.probed = q /\ request'.seen = request.seen
        /\ request'.marks = request.marks
        /\ request.wp.timeline = 0 => request'.wblind
        /\ p.timeline = 0 => request'.rblind
    BY <1>1, <1>4 DEF FenceInv, TypeOK, Request
  <2> QED
    BY <1>0, <2>4, <2>5 DEF FenceInv, nodeVars
<1> QED
  BY <1>3, <1>4

\* Every step keeps the variables in their types.
LEMMA TypeStep ==
    ASSUME FenceConstants, TypeOK, [Next]_vars
    PROVE  TypeOK'
<1> USE DEF FenceConstants, Epochs, Timelines
<1>1. NoRequest \in Request /\ Unreached \in Probe /\ NoMarks \in Marks
  BY DEF NoRequest, Request, NoMarks, Marks, Unreached, Probe
<1>2. CASE \E n \in Nodes : Promote(n) \/ MoveEndpoint(n)
  BY <1>2 DEF TypeOK, Promote, MoveEndpoint, managerVars
<1>3. CASE \E n \in Nodes : Follow(n)
  BY <1>1, <1>3 DEF TypeOK, Follow, managerVars
<1>4. CASE ClusterPromote
  BY <1>4 DEF TypeOK, ClusterPromote, managerVars
<1>5. CASE RefreshWriter
  BY <1>5, ProbeTells DEF TypeOK, RefreshWriter, nodeVars
<1>6. CASE RefreshReader
  <2>1. highest' \in Marks
    BY <1>6, ProbeTells, RaiseCovers DEF TypeOK, RefreshReader
  <2>2. role' \in Roles
    BY <1>6 DEF RefreshReader, RoleUnder, Roles
  <2>3. poolFenced' \in BOOLEAN
    BY <1>6 DEF RefreshReader
  <2> QED
    BY <1>1, <1>6, <2>1, <2>2, <2>3 DEF TypeOK, RefreshReader, nodeVars
<1>7. CASE BeginWrite
  BY <1>1, <1>7, Zenon DEF TypeOK, BeginWrite, Request, NoRequest, nodeVars, managerVars
<1>8. CASE ProbeWriter
  <2>1. PICK p \in ProbesOf(endpoint) :
           request' = [request EXCEPT !.pc = "probed", !.probed = endpoint, !.wp = p]
    BY <1>8, Zenon DEF ProbeWriter
  <2>2. p \in Probe /\ endpoint \in Nodes
    BY ProbeTells DEF TypeOK
  <2>3. request' \in Request
    BY <2>1, <2>2, Zenon DEF TypeOK, Request
  <2> QED
    BY <1>8, <2>3 DEF TypeOK, ProbeWriter, nodeVars, managerVars
<1>9. CASE Decide
  <2>1. \/ request' = NoRequest
        \/ \E w, r \in BOOLEAN :
              request' = [request EXCEPT !.pc = "admitted", !.wp = Unreached,
                                         !.wblind = w, !.rblind = r]
    <3>1. PICK p \in ProbesOf(Reader) :
            \/ request' = NoRequest
            \/ request' = [request EXCEPT !.pc = "admitted", !.wp = Unreached,
                             !.wblind = IF request.wp.timeline = 0 THEN TRUE ELSE FALSE,
                             !.rblind = IF p.timeline = 0 THEN TRUE ELSE FALSE]
      BY <1>9, Zenon DEF Decide
    <3> QED
      BY <3>1, Zenon
  <2>2. request' \in Request
    BY <1>1, <2>1, ZenonT(60) DEF TypeOK, Request
  <2> QED
    BY <1>9, <2>2 DEF TypeOK, Decide, nodeVars, managerVars
<1>10. CASE OpenSession \/ Commit \/ EndWrite
  <2>1. request' \in Request
    BY <1>1, <1>10, ZenonT(60) DEF TypeOK, OpenSession, Commit, EndWrite, Request
  <2> QED
    BY <1>10, <2>1 DEF TypeOK, OpenSession, Commit, EndWrite, nodeVars, managerVars
<1>11. CASE UNCHANGED vars
  BY <1>11 DEF TypeOK, vars, nodeVars, managerVars
<1>12. CASE Calm
  BY <1>12, Zenon DEF TypeOK, Calm, managerVars
<1> QED
  BY <1>2, <1>3, <1>4, <1>5, <1>6, <1>7, <1>8, <1>9, <1>10, <1>11, <1>12
  DEF Next, Database, Refresh, ApiWrite

\* The invariant is inductive: one step per group of actions.
LEMMA FenceStep ==
    ASSUME FenceConstants, FenceInv, [Next]_vars
    PROVE  FenceInv'
<1>0. TypeOK'
  BY TypeStep DEF FenceInv
<1>t. \A n \in Nodes : timeline[n] \in Nat /\ timeline'[n] \in Nat
  BY <1>0 DEF FenceInv, TypeOK, Timelines, FenceConstants
<1>1. ASSUME NEW n \in Nodes, Promote(n)
      PROVE  FenceInv'
  <2>1. \A k \in Nodes : timeline'[k] = IF k = n THEN timeline[primary] + 1 ELSE timeline[k]
    BY <1>1 DEF Promote, FenceInv, TypeOK
  <2>2. \A k \in Nodes : timeline[k] <= timeline[primary]
    BY DEF FenceInv
  <2>3. primary' = n /\ primary \in Nodes /\ Reader \in Nodes /\ request' = request /\ epoch' = epoch
    BY <1>1 DEF Promote, FenceInv, TypeOK, FenceConstants
  <2>4. \A k \in Nodes : timeline'[k] <= timeline'[primary']
    BY <1>t, <2>1, <2>2, <2>3
  <2>5. timeline'[Reader] >= timeline[Reader]
    BY <1>t, <2>1, <2>2, <2>3
  <2>6. \A k \in Nodes : \/ timeline'[k] = timeline[k] /\ epoch'[k] = epoch[k]
                         \/ timeline'[k] >= timeline'[Reader]
    BY <1>t, <2>1, <2>3, <2>4
  <2> QED
    BY <1>0, <2>3, <2>4, <2>5, <2>6, NodeStep
<1>2. ASSUME NEW n \in Nodes, Follow(n)
      PROVE  FenceInv'
  <2>1. \A k \in Nodes : timeline'[k] = IF k = n THEN timeline[primary] ELSE timeline[k]
    BY <1>2 DEF Follow, FenceInv, TypeOK
  <2>2. \A k \in Nodes : timeline[k] <= timeline[primary]
    BY DEF FenceInv
  <2>3. primary' = primary /\ primary \in Nodes /\ Reader \in Nodes /\ request' \in {request, NoRequest}
    BY <1>2 DEF Follow, FenceInv, TypeOK, FenceConstants
  <2>4. \A k \in Nodes : k # n => epoch'[k] = epoch[k]
    BY <1>2 DEF Follow, FenceInv, TypeOK
  <2>5. \A k \in Nodes : timeline'[k] <= timeline'[primary']
    BY <1>t, <2>1, <2>2, <2>3
  <2>6. timeline'[Reader] >= timeline[Reader]
    BY <1>t, <2>1, <2>2, <2>3
  <2>7. \A k \in Nodes : \/ timeline'[k] = timeline[k] /\ epoch'[k] = epoch[k]
                         \/ timeline'[k] >= timeline'[Reader]
    BY <1>t, <2>1, <2>2, <2>3, <2>4
  <2> QED
    BY <1>0, <2>3, <2>5, <2>6, <2>7, NodeStep
<1>3. CASE ClusterPromote
  <2>1. timeline' = timeline /\ primary' = primary /\ request' = request /\ Reader \in Nodes
    BY <1>3 DEF ClusterPromote, FenceConstants
  <2>2. \A k \in Nodes : k # primary => epoch'[k] = epoch[k]
    BY <1>3 DEF ClusterPromote, FenceInv, TypeOK
  <2>3. \A k \in Nodes : timeline[k] <= timeline[primary]
    BY DEF FenceInv
  <2> QED
    BY <1>0, <1>t, <2>1, <2>2, <2>3, NodeStep
<1>4. CASE (\E n \in Nodes : MoveEndpoint(n)) \/ Calm \/ Refresh \/ UNCHANGED vars
  <2>1. UNCHANGED <<primary, timeline, epoch, request>>
    BY <1>4 DEF MoveEndpoint, Calm, Refresh, RefreshWriter, RefreshReader, vars, nodeVars
  <2> QED
    BY <1>0, <2>1 DEF FenceInv
<1>5. CASE BeginWrite
  <2>1. request'.pc = "begun" /\ request'.seen = timeline[Reader] /\ UNCHANGED <<primary, timeline, epoch>>
    BY <1>5 DEF BeginWrite, NoRequest, nodeVars
  <2> QED
    BY <1>0, <1>t, <2>1 DEF FenceInv, FenceConstants
<1>6. CASE ProbeWriter
  <2>1. PICK p \in ProbesOf(endpoint) :
           request' = [request EXCEPT !.pc = "probed", !.probed = endpoint, !.wp = p]
    BY <1>6, Zenon DEF ProbeWriter
  <2>2. UNCHANGED <<primary, timeline, epoch>> /\ request.pc = "begun" /\ endpoint \in Nodes
    BY <1>6 DEF ProbeWriter, nodeVars, FenceInv, TypeOK
  <2>3. (p.ok => p.epoch = epoch[endpoint]) /\ p.timeline \in {0, timeline[endpoint]}
    BY <2>2, ProbeTells DEF FenceInv
  <2>4. request'.pc = "probed" /\ request'.probed = endpoint /\ request'.wp = p
        /\ request'.seen = request.seen
    BY <2>1 DEF FenceInv, TypeOK, Request
  <2> QED
    BY <1>0, <2>2, <2>3, <2>4 DEF FenceInv
<1>7. CASE Decide
  BY <1>0, <1>7, DecideInv
<1>8. CASE OpenSession \/ Commit \/ EndWrite
  <2>1. UNCHANGED <<primary, timeline, epoch>>
    BY <1>8 DEF OpenSession, Commit, EndWrite, nodeVars
  <2>2. \/ request' = NoRequest
        \/ /\ request.pc \in {"admitted", "open"} /\ request'.pc \in {"open", "acked"}
           /\ request'.probed = request.probed /\ request'.seen = request.seen
           /\ request'.marks = request.marks /\ request'.wblind = request.wblind
           /\ request'.rblind = request.rblind
    BY <1>8, ZenonT(30) DEF OpenSession, Commit, EndWrite, FenceInv, TypeOK, Request
  <2>3. CASE request' = NoRequest
    BY <1>0, <2>1, <2>3 DEF FenceInv, NoRequest
  <2>4. CASE request' # NoRequest
    BY <1>0, <2>1, <2>2, <2>4 DEF FenceInv
  <2> QED
    BY <2>3, <2>4
<1> QED
  BY <1>1, <1>2, <1>3, <1>4, <1>5, <1>6, <1>7, <1>8 DEF Next, Database, ApiWrite

\* The inductive invariant of the fence.
THEOREM FenceInvariant == Spec => []FenceInv
<1>1. Init => FenceInv
  <2> SUFFICES ASSUME Init PROVE FenceInv
    OBVIOUS
  <2> USE FenceConstants DEF FenceConstants, Epochs, Timelines
  <2>1. NoMarks \in Marks /\ Unreached \in Probe
    BY DEF NoMarks, Marks, Unreached, Probe
  <2>2. NoRequest \in Request /\ NoRequest.pc = "none"
    BY <2>1 DEF NoRequest, Request
  <2>3. refresh \in [busy : BOOLEAN, wp : Probe]
    BY <2>1 DEF Init
  <2>4. epoch \in [Nodes -> 0..MaxEpoch] /\ timeline \in [Nodes -> 0..MaxTimeline]
    BY DEF Init
  <2>5. lossy \in BOOLEAN /\ poolFenced \in BOOLEAN
    BY Zenon DEF Init
  <2>6. primary \in Nodes /\ endpoint \in Nodes /\ recovery \subseteq Nodes /\ role \in Roles
    BY DEF Init, Roles
  <2>7. TypeOK
    BY <2>1, <2>2, <2>3, <2>4, <2>5, <2>6, Zenon DEF Init, TypeOK, Epochs, Timelines
  <2> QED
    BY <2>2, <2>7 DEF Init, FenceInv
<1>2. FenceInv /\ [Next]_vars => FenceInv'
  BY FenceConstants, FenceStep
<1> QED
  BY <1>1, <1>2, PTL DEF Spec

\* The fence of the API write path: WriterUsableNow lets a write through to a
\* superseded node it probed only when the timelines could not be compared.
THEOREM AckFenceHolds == Spec => []AckIsFenced
<1>1. FenceInv => AckIsFenced
  BY DEF FenceInv, AckIsFenced
<1> QED
  BY <1>1, FenceInvariant, PTL

\* Only the second half of Refresh ends a refresh; it judges the writer's probe
\* by marks that are at or above the ones the manager had.
LEMMA RefreshKeepsMarks ==
    ASSUME FenceConstants, FenceInv, [Next]_vars,
           role' = "writer", refresh.busy, ~refresh'.busy
    PROVE  ~Superseded(refresh.wp, highest)
<1>1. RefreshReader
  BY Zenon DEF Next, Database, Promote, Follow, MoveEndpoint, ClusterPromote, Calm, Refresh, RefreshWriter,
         ApiWrite, BeginWrite, ProbeWriter, Decide, OpenSession, Commit, EndWrite, managerVars, vars
<1>2. PICK p \in ProbesOf(Reader) : highest' = Raise(Raise(highest, p), refresh.wp)
  BY <1>1 DEF RefreshReader
<1>3. p \in Probe /\ refresh.wp \in Probe /\ highest \in Marks
  BY ProbeTells DEF FenceInv, TypeOK, FenceConstants
<1>4. /\ highest' \in Marks
      /\ highest'.epoch >= highest.epoch /\ highest'.timeline >= highest.timeline
  <2> DEFINE first == Raise(highest, p)
  <2>1. first \in Marks /\ first.epoch >= highest.epoch /\ first.timeline >= highest.timeline
    BY <1>3, RaiseCovers
  <2>2. highest' \in Marks /\ highest'.epoch >= first.epoch /\ highest'.timeline >= first.timeline
    BY <1>2, <1>3, <2>1, RaiseCovers
  <2> QED
    BY <1>3, <2>1, <2>2 DEF Marks, Epochs, Timelines, FenceConstants
<1>5. ~Superseded(refresh.wp, highest')
  BY <1>1 DEF RefreshReader, RoleUnder
<1> QED
  BY <1>3, <1>4, <1>5 DEF Superseded, Marks, Probe, Epochs, Timelines, FenceConstants

\* Refresh never takes a node for the writer that is behind a promotion an
\* earlier Refresh saw, whatever the probes of this round answered.
THEOREM PromotionHolds == Spec => PromotionIsKept
<1>1. FenceInv /\ [Next]_vars =>
        [role' = "writer" /\ refresh.busy /\ ~refresh'.busy =>
            ~Superseded(refresh.wp, highest)]_vars
  BY FenceConstants, RefreshKeepsMarks
<1> QED
  BY <1>1, FenceInvariant, PTL DEF Spec, PromotionIsKept

-----------------------------------------------------------------------------
(* The SIEM export. *)

\* An empty stream, no claim, no page in hand.
LEMMA SiemInitEstablishes == SiemInit => SiemInv
<1> SUFFICES ASSUME SiemInit PROVE SiemInv
  OBVIOUS
<1> USE DEF SiemInit, StreamInit
<1>1. SiemTypeOK
  <2>1. /\ head \in Nat /\ pruned \in Nat /\ cursor \in Nat
        /\ from \in [Replicas -> Nat] /\ to \in [Replicas -> Nat]
        /\ wm \in [Replicas -> Int]
    OBVIOUS
  <2>2. /\ claim \in Replicas \cup {None, Gone} /\ expired \in BOOLEAN
        /\ pc \in [Replicas -> {"idle", "post", "commit", "release"}]
        /\ lapsed \in [Replicas -> BOOLEAN]
    BY Zenon
  <2> QED
    BY <2>1, <2>2, Zenon DEF SiemTypeOK
<1>2. StreamBounds
  BY DEF StreamBounds
<1>3. PagesAreStale
  BY DEF PagesAreStale, Page
<1>4. ExpiryIsSeen /\ SendsUnderClaim
  BY DEF ExpiryIsSeen, SendsUnderClaim
<1> QED
  BY <1>1, <1>2, <1>3, <1>4 DEF SiemInv

\* A step that changes nothing SiemInv speaks of keeps it.
LEMMA SiemFrame ==
  ASSUME SiemInv,
         UNCHANGED <<head, pruned, rows, cursor, claim, expired, siem,
                     pc, from, to, lapsed, wm>>
  PROVE  SiemInv'
<1>1. SiemTypeOK'
  BY DEF SiemInv, SiemTypeOK
<1>2. StreamBounds'
  BY DEF SiemInv, StreamBounds
<1>3. PagesAreStale'
  BY DEF SiemInv, PagesAreStale, Page
<1>4. ExpiryIsSeen'
  BY DEF SiemInv, ExpiryIsSeen
<1>5. SendsUnderClaim'
  BY DEF SiemInv, SendsUnderClaim
<1> QED
  BY <1>1, <1>2, <1>3, <1>4, <1>5 DEF SiemInv

\* Returning from drainPage keeps what SiemInv says of the replicas.
LEMMA ReturnKeepsPages ==
  ASSUME SiemInv, NEW r \in Replicas, Return(r),
         cursor <= cursor', cursor' \in Nat, UNCHANGED <<head, siem>>,
         wm' \in [Replicas -> Int], \A q \in Replicas : wm'[q] = wm[q] \/ wm'[q] = -1
  PROVE  /\ PagesAreStale'
         /\ pc' \in [Replicas -> {"idle", "post", "commit", "release"}]
         /\ from' \in [Replicas -> Nat] /\ to' \in [Replicas -> Nat]
         /\ lapsed' \in [Replicas -> BOOLEAN]
         /\ pc'[r] = "idle"
         /\ \A q \in Replicas \ {r} : pc'[q] = pc[q] /\ lapsed'[q] = lapsed[q]
<1>1. /\ pc' \in [Replicas -> {"idle", "post", "commit", "release"}]
      /\ from' \in [Replicas -> Nat] /\ to' \in [Replicas -> Nat]
      /\ pc'[r] = "idle" /\ from'[r] = 0 /\ to'[r] = 0
      /\ \A q \in Replicas \ {r} :
           pc'[q] = pc[q] /\ from'[q] = from[q] /\ to'[q] = to[q]
  BY DEF SiemInv, SiemTypeOK, Return
<1>2. /\ lapsed' \in [Replicas -> BOOLEAN]
      /\ \A q \in Replicas \ {r} : lapsed'[q] = lapsed[q]
  BY DEF SiemInv, SiemTypeOK, Return
<1>3. ASSUME NEW q \in Replicas
      PROVE  /\ from'[q] <= to'[q] /\ to'[q] <= head' /\ from'[q] <= cursor'
             /\ pc'[q] = "commit" => from'[q] + 1 .. to'[q] \subseteq siem'
             /\ wm'[q] <= cursor'
  BY <1>1 DEF SiemInv, SiemTypeOK, PagesAreStale, Page
<1> QED
  BY <1>1, <1>2, <1>3 DEF PagesAreStale, Page

\* Every audited write, every step of a poller or of retention, every failover,
\* crash and expiry keeps the export invariant.
LEMMA SiemStepPreserves == SiemInv /\ [SiemNext]_siemVars => SiemInv'
<1> SUFFICES ASSUME SiemInv, [SiemNext]_siemVars PROVE SiemInv'
  OBVIOUS
<1> USE SiemAssumption DEF streamVars, claimVars, pollVars, leaseVars
<1>1. CASE TenantAppend
  <2>1. StreamBounds'
    <3>1. /\ head \in Nat /\ pruned \in Nat /\ cursor \in Nat
          /\ pruned <= cursor /\ cursor <= head /\ rows = pruned + 1 .. head
          /\ 1 .. cursor \subseteq siem /\ siem \subseteq 1 .. head
      BY DEF SiemInv, SiemTypeOK, StreamBounds
    <3>2. head' = head + 1 /\ rows' = rows \cup {head + 1} /\ UNCHANGED <<pruned, cursor, siem>>
      BY <1>1 DEF TenantAppend, AppendLocked
    <3>3. (pruned + 1 .. head) \cup {head + 1} = pruned + 1 .. head + 1
      BY <3>1
    <3>4. 1 .. head \subseteq 1 .. head + 1 /\ cursor <= head + 1
      BY <3>1
    <3> QED
      BY <3>1, <3>2, <3>3, <3>4 DEF StreamBounds
  <2>2. head' = head + 1 /\ UNCHANGED <<pruned, cursor, claim, expired, siem, pc, from, to, lapsed, wm>>
    BY <1>1 DEF TenantAppend, AppendLocked
  <2>3. SiemTypeOK' /\ ExpiryIsSeen' /\ SendsUnderClaim'
    BY <2>2 DEF SiemInv, SiemTypeOK, ExpiryIsSeen, SendsUnderClaim
  <2>4. PagesAreStale'
    BY <2>2 DEF SiemInv, SiemTypeOK, PagesAreStale, Page
  <2> QED
    BY <2>1, <2>3, <2>4 DEF SiemInv
<1>2. CASE ClaimExpires
  BY <1>2, Zenon DEF ClaimExpires, SiemInv, SiemTypeOK, StreamBounds,
              PagesAreStale, ExpiryIsSeen, SendsUnderClaim, Page
<1>3. ASSUME NEW r \in Replicas, Elect(r) \/ Cancel(r) PROVE SiemInv'
  BY <1>3, SiemFrame, ZenonT(30) DEF Elect, Cancel
<1>4. ASSUME NEW r \in Replicas, Crash(r) PROVE SiemInv'
  <2>1. /\ PagesAreStale'
        /\ pc' \in [Replicas -> {"idle", "post", "commit", "release"}]
        /\ from' \in [Replicas -> Nat] /\ to' \in [Replicas -> Nat]
        /\ lapsed' \in [Replicas -> BOOLEAN]
        /\ pc'[r] = "idle"
        /\ \A q \in Replicas \ {r} : pc'[q] = pc[q] /\ lapsed'[q] = lapsed[q]
    BY <1>4, ReturnKeepsPages DEF Crash, SiemInv, SiemTypeOK
  <2> QED
    <3>1. SiemTypeOK'
      <4>1. wm' \in [Replicas -> Int]
        BY <1>4 DEF Crash, SiemInv, SiemTypeOK
      <4>2. expired' \in BOOLEAN /\ claim' \in Replicas \cup {None, Gone}
        BY <1>4 DEF Crash, SiemInv, SiemTypeOK
      <4>3. head' \in Nat /\ pruned' \in Nat /\ cursor' \in Nat
        BY <1>4 DEF Crash, SiemInv, SiemTypeOK
      <4> QED
        BY <2>1, <4>1, <4>2, <4>3, Zenon DEF SiemTypeOK
    <3>2. StreamBounds'
      BY <1>4 DEF Crash, SiemInv, StreamBounds
    <3>3. ExpiryIsSeen' /\ SendsUnderClaim'
      BY <1>4, <2>1 DEF Crash, SiemInv, ExpiryIsSeen, SendsUnderClaim
    <3> QED
      BY <2>1, <3>1, <3>2, <3>3 DEF SiemInv
<1>5. ASSUME NEW r \in Replicas, ClaimPage(r) PROVE SiemInv'
  <2>1. PageEnd(cursor, PageSize) \in cursor .. head
    BY DEF PageEnd, SiemInv, SiemTypeOK, StreamBounds
  <2>2. SiemTypeOK' /\ StreamBounds'
    <3>1. SiemTypeOK'
      <4>1. /\ head' \in Nat /\ pruned' \in Nat /\ cursor' \in Nat
            /\ from' \in [Replicas -> Nat] /\ to' \in [Replicas -> Nat]
            /\ wm' \in [Replicas -> Int]
        BY <1>5, <2>1 DEF ClaimPage, SiemInv, SiemTypeOK
      <4>2. /\ pc' \in [Replicas -> {"idle", "post", "commit", "release"}]
            /\ claim' \in Replicas \cup {None, Gone}
        BY <1>5 DEF ClaimPage, SiemInv, SiemTypeOK
      <4>3. expired' \in BOOLEAN /\ lapsed' \in [Replicas -> BOOLEAN]
        BY <1>5, Zenon DEF ClaimPage, SiemInv, SiemTypeOK
      <4> QED
        BY <4>1, <4>2, <4>3, Zenon DEF SiemTypeOK
    <3>2. StreamBounds'
      BY <1>5 DEF ClaimPage, SiemInv, StreamBounds
    <3> QED
      BY <3>1, <3>2
  <2>3. PagesAreStale'
    BY <1>5, <2>1 DEF ClaimPage, SiemInv, SiemTypeOK, StreamBounds, PagesAreStale, Page
  <2>4. ExpiryIsSeen' /\ SendsUnderClaim'
    BY <1>5 DEF ClaimPage, SiemInv, SiemTypeOK, ExpiryIsSeen, SendsUnderClaim
  <2> QED
    BY <2>2, <2>3, <2>4 DEF SiemInv
<1>6. ASSUME NEW r \in Replicas, CommitCursor(r) PROVE SiemInv'
  <2>1. /\ cursor <= cursor' /\ cursor' \in Nat /\ cursor' <= head
        /\ 1 .. cursor' \subseteq siem
    BY <1>6 DEF CommitCursor, SiemInv, SiemTypeOK, StreamBounds, PagesAreStale, Page
  <2>2. /\ PagesAreStale'
        /\ pc' \in [Replicas -> {"idle", "post", "commit", "release"}]
        /\ from' \in [Replicas -> Nat] /\ to' \in [Replicas -> Nat]
        /\ lapsed' \in [Replicas -> BOOLEAN]
        /\ pc'[r] = "idle"
        /\ \A q \in Replicas \ {r} : pc'[q] = pc[q] /\ lapsed'[q] = lapsed[q]
    BY <1>6, <2>1, ReturnKeepsPages DEF CommitCursor, SiemInv, SiemTypeOK
  <2>3. SiemTypeOK' /\ StreamBounds'
    <3>1. SiemTypeOK'
      BY <1>6, <2>1, <2>2, ZenonT(30) DEF CommitCursor, SiemInv, SiemTypeOK
    <3>2. StreamBounds'
      BY <1>6, <2>1 DEF CommitCursor, SiemInv, SiemTypeOK, StreamBounds
    <3> QED
      BY <3>1, <3>2
  <2>4. ExpiryIsSeen' /\ SendsUnderClaim'
    BY <1>6, <2>2 DEF CommitCursor, SiemInv, ExpiryIsSeen, SendsUnderClaim
  <2> QED
    BY <2>2, <2>3, <2>4 DEF SiemInv
<1>7. ASSUME NEW r \in Replicas, ReleaseClaim(r) \/ SecondTxFails(r) PROVE SiemInv'
  <2>1. /\ PagesAreStale'
        /\ pc' \in [Replicas -> {"idle", "post", "commit", "release"}]
        /\ from' \in [Replicas -> Nat] /\ to' \in [Replicas -> Nat]
        /\ lapsed' \in [Replicas -> BOOLEAN]
        /\ pc'[r] = "idle"
        /\ \A q \in Replicas \ {r} : pc'[q] = pc[q] /\ lapsed'[q] = lapsed[q]
    BY <1>7, ReturnKeepsPages DEF ReleaseClaim, SecondTxFails, SiemInv, SiemTypeOK
  <2>2. SiemTypeOK' /\ StreamBounds'
    BY <1>7, <2>1, ZenonT(30) DEF ReleaseClaim, SecondTxFails, SiemInv, SiemTypeOK, StreamBounds
  <2>3. ExpiryIsSeen' /\ SendsUnderClaim'
    BY <1>7, <2>1 DEF ReleaseClaim, SecondTxFails, SiemInv, ExpiryIsSeen, SendsUnderClaim
  <2> QED
    BY <2>1, <2>2, <2>3 DEF SiemInv
<1>8. ASSUME NEW r \in Replicas, PostOK(r) \/ PostUnanswered(r) \/ PostFails(r)
      PROVE  SiemInv'
  <2>1. Page(r) \subseteq 1 .. head
    BY DEF Page, SiemInv, SiemTypeOK, PagesAreStale
  <2>2. SiemTypeOK' /\ StreamBounds'
    BY <1>8, <2>1, ZenonT(30) DEF PostOK, PostUnanswered, PostFails, SiemInv, SiemTypeOK, StreamBounds
  <2>3. PagesAreStale'
    BY <1>8 DEF PostOK, PostUnanswered, PostFails, SiemInv, SiemTypeOK, PagesAreStale, Page
  <2>4. ExpiryIsSeen' /\ SendsUnderClaim'
    BY <1>8 DEF PostOK, PostUnanswered, PostFails, SiemInv, SiemTypeOK,
                ExpiryIsSeen, SendsUnderClaim
  <2> QED
    BY <2>2, <2>3, <2>4 DEF SiemInv
<1>9. ASSUME NEW r \in Replicas, ReadWatermark(r) \/ PruneSkipped(r) PROVE SiemInv'
  <2> USE <1>9 DEF ReadWatermark, PruneSkipped
  <2>1. SiemTypeOK'
    BY DEF SiemInv, SiemTypeOK
  <2>2. StreamBounds'
    BY Zenon DEF SiemInv, StreamBounds
  <2>3. PagesAreStale'
    BY DEF SiemInv, SiemTypeOK, PagesAreStale, Page
  <2>4. ExpiryIsSeen' /\ SendsUnderClaim'
    BY DEF SiemInv, ExpiryIsSeen, SendsUnderClaim
  <2> QED
    BY <2>1, <2>2, <2>3, <2>4 DEF SiemInv
<1>10. ASSUME NEW r \in Replicas, PruneTenant(r) PROVE SiemInv'
  <2>1. PICK cut \in pruned + 1 .. wm[r] : PruneLocked(cut)
    BY <1>10 DEF PruneTenant
  <2>2. cut \in Nat /\ cut <= cursor
    BY <2>1 DEF SiemInv, SiemTypeOK, PagesAreStale
  <2>3. SiemTypeOK'
    BY <1>10, <2>1, <2>2 DEF PruneTenant, PruneLocked, SiemInv, SiemTypeOK
  <2>4. StreamBounds'
    <3>1. rows' = cut + 1 .. head + 1
      <4>1. ASSUME NEW s \in rows' PROVE s \in cut + 1 .. head + 1
        BY <2>1, <2>2, <4>1 DEF PruneLocked, SiemInv, SiemTypeOK, StreamBounds
      <4>2. ASSUME NEW s \in cut + 1 .. head + 1 PROVE s \in rows'
        BY <2>1, <2>2, <4>2 DEF PruneLocked, SiemInv, SiemTypeOK, StreamBounds
      <4> QED
        BY <4>1, <4>2, Zenon
    <3> QED
      BY <1>10, <2>1, <2>2, <3>1
         DEF PruneTenant, PruneLocked, SiemInv, SiemTypeOK, StreamBounds
  <2>5. PagesAreStale' /\ ExpiryIsSeen' /\ SendsUnderClaim'
    BY <1>10, <2>1 DEF PruneTenant, PruneLocked, SiemInv, SiemTypeOK,
                       PagesAreStale, ExpiryIsSeen, SendsUnderClaim, Page
  <2> QED
    BY <2>3, <2>4, <2>5 DEF SiemInv
<1>11. CASE UNCHANGED siemVars
  BY <1>11, SiemFrame DEF siemVars
<1> QED
  BY <1>1, <1>2, <1>3, <1>4, <1>5, <1>6, <1>7, <1>8, <1>9, <1>10, <1>11 DEF SiemNext

\* The export invariant holds in every reachable state.
THEOREM SiemInvHolds == SiemSpec => []SiemInv
  BY SiemInitEstablishes, SiemStepPreserves, PTL DEF SiemSpec

\* The cursor covers only events the SIEM has received (CommitCursor), for any
\* number of pollers that overlap, crash or lose their claim.
THEOREM CursorCoversDelivered == SiemSpec => []CursorIsDelivered
<1>1. SiemInv => CursorIsDelivered
  BY DEF SiemInv, StreamBounds, CursorIsDelivered
<1> QED
  BY <1>1, SiemInvHolds, PTL

\* Neither an append nor an export nor a prune ever finds the cursor outside
\* the stream (validateTenantCursorAgainstHead), whatever retention deleted.
THEOREM AppendsNeverFailClosed == SiemSpec => []StreamNeverRefuses
<1>1. SiemInv => StreamNeverRefuses
  BY DEF SiemInv, SiemTypeOK, StreamBounds, StreamNeverRefuses, StreamAccepts
<1> QED
  BY <1>1, SiemInvHolds, PTL

\* A page is forwarded under the export claim unless the claim's lease ran out
\* under its owner (ClaimPage, ReleaseClaim).
THEOREM ClaimGuardsSending == SiemSpec => []SendsUnderClaim
<1>1. SiemInv => SendsUnderClaim
  BY DEF SiemInv
<1> QED
  BY <1>1, SiemInvHolds, PTL

\* Every event ever appended can be read, from the database or from the SIEM.
THEOREM NoEventIsLost == SiemSpec => []Trail!NothingLost
<1>1. SiemInv => Trail!NothingLost
  BY DEF SiemInv, SiemTypeOK, StreamBounds, Trail!NothingLost
<1> QED
  BY <1>1, SiemInvHolds, PTL

\* The empty stream is an empty trail.
LEMMA TrailInitRefines == SiemInit => Trail!TrailInit
<1>1. 1 .. 0 = {}
  OBVIOUS
<1> QED
  BY <1>1 DEF SiemInit, StreamInit, Trail!TrailInit

\* An audited write appends, a POST archives, a prune deletes archived rows and
\* records itself; every other step leaves the trail alone.
LEMMA TrailStepRefines ==
  SiemInv /\ [SiemNext]_siemVars => [Trail!TrailNext]_(Trail!trailVars)
<1> SUFFICES ASSUME SiemInv, [SiemNext]_siemVars
             PROVE  Trail!TrailNext \/ UNCHANGED Trail!trailVars
  OBVIOUS
<1> USE DEF Trail!trailVars, streamVars
<1>1. CASE TenantAppend
  BY <1>1 DEF TenantAppend, AppendLocked, Trail!TrailNext, Trail!Append
<1>2. ASSUME NEW r \in Replicas, PostOK(r) \/ PostUnanswered(r)
      PROVE  Trail!TrailNext
  <2>1. Page(r) \subseteq siem \cup rows
    BY DEF Page, SiemInv, SiemTypeOK, StreamBounds, PagesAreStale
  <2>2. Trail!Archive
    BY <1>2, <2>1 DEF PostOK, PostUnanswered, Trail!Archive
  <2> QED
    BY <2>2 DEF Trail!TrailNext
<1>3. ASSUME NEW r \in Replicas, PruneTenant(r) PROVE Trail!TrailNext
  <2>1. PICK cut \in pruned + 1 .. wm[r] : PruneLocked(cut)
    BY <1>3 DEF PruneTenant
  <2>2. ASSUME NEW s \in rows \ siem PROVE s \in rows'
    <3>1. s \in Nat /\ s > cursor /\ cut <= cursor /\ cut \in Int
      BY <2>1, <2>2 DEF SiemInv, SiemTypeOK, StreamBounds, PagesAreStale
    <3> QED
      BY <2>1, <2>2, <3>1 DEF PruneLocked, SiemInv, SiemTypeOK
  <2>3. Trail!Prune
    BY <1>3, <2>1, <2>2 DEF PruneTenant, PruneLocked, Trail!Prune
  <2> QED
    BY <2>3 DEF Trail!TrailNext
<1>4. CASE UNCHANGED <<head, rows, siem>>
  BY <1>4
<1> QED
  BY <1>1, <1>2, <1>3, <1>4
     DEF SiemNext, siemVars, ClaimExpires, Elect, Cancel, Crash, ClaimPage, CommitCursor,
         ReleaseClaim, PostFails, SecondTxFails, ReadWatermark, PruneSkipped

\* The tenant stream together with the SIEM implements AuditTrail: no event is
\* ever lost to retention, for every page size and number of replicas.
THEOREM SiemImplementsAuditTrail == SiemSpec => ImplementsAuditTrail
  BY TrailInitRefines, TrailStepRefines, SiemInvHolds, PTL
     DEF SiemSpec, ImplementsAuditTrail, Trail!TrailSpec
=============================================================================
