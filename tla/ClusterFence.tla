---------------------------- MODULE ClusterFence ----------------------------
(***************************************************************************)
(* The split-brain write fence (internal/cluster/cluster.go, pgprober.go). *)
(* The manager of a control-plane replica probes the writer endpoint and a *)
(* read replica, keeps the highest promotion epoch and WAL timeline it has *)
(* seen, and fences a primary that is behind them.  Refresh, on a ticker,  *)
(* closes and opens the writer pool, which every background writer uses;   *)
(* an API write re-probes first (WriterUsableNow).                         *)
(*                                                                         *)
(* The Postgres nodes, their promotion and the endpoint are external: the  *)
(* runbook's steps in any order.  `endpoint' is the node the pool's next   *)
(* use lands on, so a pooled session that outlives a re-pointed endpoint   *)
(* is an endpoint that flaps back.  A deployment without a read replica    *)
(* behaves like one whose replica never answers.                           *)
(***************************************************************************)
EXTENDS Naturals

CONSTANTS Nodes,          \* the Postgres nodes
          First,          \* the primary at the start
          Reader,         \* the node of the read replica's endpoint
          MaxTimeline,    \* bound on promotions
          MaxEpoch        \* bound on calls of cluster_promote()

ASSUME FenceConstants == /\ First \in Nodes /\ Reader \in Nodes
                         /\ MaxTimeline \in Nat \ {0} /\ MaxEpoch \in Nat

VARIABLES primary,      \* the node promoted last
          recovery,     \* nodes in recovery (standbys)
          epoch,        \* cluster_state.writer_epoch on each node
          timeline,     \* WAL timeline of each node
          lossy,        \* the network may lose a probe or a session
          endpoint,     \* node behind the writer endpoint
          highest,      \* highestEpoch and highestTimeline
          role,         \* writerState.Role, "none" until started
          poolFenced,   \* new sessions of the writer pool are read-only
          refresh,      \* the Refresh in progress and its writer probe
          request       \* the API write in progress

nodeVars == <<primary, recovery, epoch, timeline, lossy, endpoint>>
managerVars == <<highest, role, poolFenced, refresh>>
vars == <<nodeVars, managerVars, request>>

Timelines == 0..MaxTimeline
Epochs == 0..MaxEpoch
Marks == [epoch : Epochs, timeline : Timelines]
NoMarks == [epoch |-> 0, timeline |-> 0]

Probe == [ok : BOOLEAN, recovery : BOOLEAN, epoch : Epochs, timeline : Timelines]
Unreached == [ok |-> FALSE, recovery |-> FALSE, epoch |-> 0, timeline |-> 0]

\* What a bounded probe of a node can report.  Its three queries are taken for one
\* observation.  The timeline is read on a best-effort basis: 0 when that query
\* failed.
ProbesOf(n) ==
    {[ok |-> TRUE, recovery |-> IF n \in recovery THEN TRUE ELSE FALSE,
      epoch |-> epoch[n], timeline |-> t] : t \in {0, timeline[n]}}
    \cup (IF lossy THEN {Unreached} ELSE {})

\* The high-water marks after a probe.
Raise(marks, p) ==
    [epoch |-> IF p.ok /\ p.epoch > marks.epoch THEN p.epoch ELSE marks.epoch,
     timeline |-> IF p.ok /\ p.timeline > marks.timeline THEN p.timeline ELSE marks.timeline]

\* A primary behind a promotion: on an older epoch, or on an older timeline
\* when both are known.
Superseded(p, marks) ==
    \/ p.epoch < marks.epoch
    \/ p.timeline > 0 /\ marks.timeline > 0 /\ p.timeline < marks.timeline

\* The role of the node a probe reports.
RoleUnder(p, marks) ==
    CASE ~p.ok -> "unknown"
      [] p.ok /\ p.recovery -> "reader"
      [] p.ok /\ ~p.recovery /\ Superseded(p, marks) -> "stale"
      [] OTHER -> "writer"

\* The API write in progress: where it is in WriterUsableNow and in its handler
\* (pc), the marks it took, the node it probed and the probe, the node of its
\* database session.  History: the timeline the replica had when it began
\* (seen), and whether the writer's or the replica's timeline stayed unknown.
Request == [pc : {"none", "begun", "probed", "admitted", "open", "acked"},
            marks : Marks, seen : Timelines, probed : Nodes, wp : Probe,
            node : Nodes, wblind : BOOLEAN, rblind : BOOLEAN]
NoRequest == [pc |-> "none", marks |-> NoMarks, seen |-> 0, probed |-> First,
              wp |-> Unreached, node |-> First, wblind |-> FALSE, rblind |-> FALSE]

Roles == {"none", "unknown", "reader", "stale", "writer"}

\* The variables of the fence keep their types.
TypeOK ==
    /\ primary \in Nodes /\ endpoint \in Nodes
    /\ recovery \subseteq Nodes /\ lossy \in BOOLEAN
    /\ epoch \in [Nodes -> Epochs]
    /\ timeline \in [Nodes -> Timelines]
    /\ highest \in Marks
    /\ role \in Roles
    /\ poolFenced \in BOOLEAN
    /\ refresh \in [busy : BOOLEAN, wp : Probe]
    /\ request \in Request

Init ==
    /\ primary = First /\ endpoint = First
    /\ recovery = Nodes \ {First} /\ lossy = TRUE
    /\ epoch = [n \in Nodes |-> 0] /\ timeline = [n \in Nodes |-> 1]
    /\ highest = NoMarks
    /\ role = "none"
    /\ poolFenced = FALSE
    /\ refresh = [busy |-> FALSE, wp |-> Unreached]
    /\ request = NoRequest

-----------------------------------------------------------------------------
(* The database nodes and the endpoint *)

\* A standby is promoted onto a new timeline; the old primary, if it is alive,
\* still takes itself for one.
Promote(n) ==
    /\ n \in recovery /\ n # primary
    /\ timeline[primary] < MaxTimeline
    /\ primary' = n
    /\ recovery' = recovery \ {n}
    /\ timeline' = [timeline EXCEPT ![n] = timeline[primary] + 1]
    /\ UNCHANGED <<epoch, lossy, endpoint, managerVars, request>>

\* The operator runs cluster_promote() on the promoted primary.
ClusterPromote ==
    /\ epoch[primary] < MaxEpoch
    /\ epoch' = [epoch EXCEPT ![primary] = @ + 1]
    /\ UNCHANGED <<primary, recovery, timeline, lossy, endpoint, managerVars, request>>

\* A standby replays up to the primary; an ex-primary is rebuilt as a standby,
\* which ends the sessions it had.
Follow(n) ==
    /\ n # primary
    /\ recovery' = recovery \cup {n}
    /\ epoch' = [epoch EXCEPT ![n] = epoch[primary]]
    /\ timeline' = [timeline EXCEPT ![n] = timeline[primary]]
    /\ request' = IF n \notin recovery /\ request.pc = "open" /\ request.node = n
                  THEN NoRequest ELSE request
    /\ UNCHANGED <<primary, lossy, endpoint, managerVars>>

\* The endpoint is re-pointed, or flaps back.
MoveEndpoint(n) ==
    /\ endpoint' = n
    /\ UNCHANGED <<primary, recovery, epoch, timeline, lossy, managerVars, request>>

\* The network settles.
Calm ==
    /\ lossy
    /\ lossy' = FALSE
    /\ UNCHANGED <<primary, recovery, epoch, timeline, endpoint, managerVars, request>>

-----------------------------------------------------------------------------
(* Refresh *)

\* Refresh probes the writer endpoint first.
RefreshWriter ==
    /\ ~refresh.busy
    /\ \E p \in ProbesOf(endpoint) : refresh' = [busy |-> TRUE, wp |-> p]
    /\ UNCHANGED <<nodeVars, highest, role, poolFenced, request>>

\* Mutation: the marks are those of this round only.
RefreshForgets ==
    /\ refresh.busy
    /\ \E p \in ProbesOf(Reader) : highest' = Raise(Raise(NoMarks, p), refresh.wp)
    /\ role' = RoleUnder(refresh.wp, highest')
    /\ poolFenced' = (role' = "stale")
    /\ refresh' = [busy |-> FALSE, wp |-> Unreached]
    /\ UNCHANGED <<nodeVars, request>>

\* Mutation: the role is reported, the pool is left as it is.
RefreshReports ==
    /\ refresh.busy
    /\ \E p \in ProbesOf(Reader) : highest' = Raise(Raise(highest, p), refresh.wp)
    /\ role' = RoleUnder(refresh.wp, highest')
    /\ refresh' = [busy |-> FALSE, wp |-> Unreached]
    /\ UNCHANGED <<nodeVars, poolFenced, request>>

\* Mutation: the pool is fenced but never released.
RefreshSticks ==
    /\ refresh.busy
    /\ \E p \in ProbesOf(Reader) : highest' = Raise(Raise(highest, p), refresh.wp)
    /\ role' = RoleUnder(refresh.wp, highest')
    /\ poolFenced' = (poolFenced \/ role' = "stale")
    /\ refresh' = [busy |-> FALSE, wp |-> Unreached]
    /\ UNCHANGED <<nodeVars, request>>

\* Then it probes the replica, raises the marks, classifies the writer and
\* sets the pool's fence.
RefreshReader ==
    /\ refresh.busy
    /\ \E p \in ProbesOf(Reader) : highest' = Raise(Raise(highest, p), refresh.wp)
    /\ role' = RoleUnder(refresh.wp, highest')
    /\ poolFenced' = (role' = "stale")
    /\ refresh' = [busy |-> FALSE, wp |-> Unreached]
    /\ UNCHANGED <<nodeVars, request>>

-----------------------------------------------------------------------------
(* A mutating API request *)

\* WriterUsableNow refuses before the first Refresh, and copies the marks.
BeginWrite ==
    /\ request.pc = "none"
    /\ role # "none"
    /\ request' = [NoRequest EXCEPT !.pc = "begun", !.marks = highest, !.seen = timeline[Reader]]
    /\ UNCHANGED <<nodeVars, managerVars>>

\* It probes the writer endpoint,
ProbeWriter ==
    /\ request.pc = "begun"
    /\ \E p \in ProbesOf(endpoint) :
         request' = [request EXCEPT !.pc = "probed", !.probed = endpoint, !.wp = p]
    /\ UNCHANGED <<nodeVars, managerVars>>

\* Mutation: the replica's answer does not raise the marks.
DecideAlone ==
    /\ request.pc = "probed"
    /\ \E p \in ProbesOf(Reader) :
         request' = IF RoleUnder(request.wp, Raise(request.marks, request.wp)) = "writer"
                    THEN [request EXCEPT !.pc = "admitted", !.wp = Unreached,
                             !.wblind = IF request.wp.timeline = 0 THEN TRUE ELSE FALSE,
                             !.rblind = IF p.timeline = 0 THEN TRUE ELSE FALSE]
                    ELSE NoRequest
    /\ UNCHANGED <<nodeVars, managerVars>>

\* then the replica, and decides; an error of the replica's probe is ignored.
Decide ==
    /\ request.pc = "probed"
    /\ \E p \in ProbesOf(Reader) :
         request' = IF RoleUnder(request.wp, Raise(Raise(request.marks, p), request.wp)) = "writer"
                    THEN [request EXCEPT !.pc = "admitted", !.wp = Unreached,
                             !.wblind = IF request.wp.timeline = 0 THEN TRUE ELSE FALSE,
                             !.rblind = IF p.timeline = 0 THEN TRUE ELSE FALSE]
                    ELSE NoRequest
    /\ UNCHANGED <<nodeVars, managerVars>>

\* The handler takes a session of the writer pool; a fenced pool's session is
\* read-only, and so is a standby's.
OpenSession ==
    /\ request.pc = "admitted"
    /\ \/ ~poolFenced /\ request' = [request EXCEPT !.pc = "open", !.node = endpoint]
       \/ (poolFenced \/ lossy) /\ request' = NoRequest
    /\ UNCHANGED <<nodeVars, managerVars>>

\* The write commits and is acknowledged, or fails.
Commit ==
    /\ request.pc = "open"
    /\ \/ request.node \notin recovery /\ request' = [request EXCEPT !.pc = "acked"]
       \/ (request.node \in recovery \/ lossy) /\ request' = NoRequest
    /\ UNCHANGED <<nodeVars, managerVars>>

\* The next request.
EndWrite ==
    /\ request.pc = "acked"
    /\ request' = NoRequest
    /\ UNCHANGED <<nodeVars, managerVars>>

Refresh == RefreshWriter \/ RefreshReader
ApiWrite == BeginWrite \/ ProbeWriter \/ Decide \/ OpenSession \/ Commit \/ EndWrite

Database ==
    \/ \E n \in Nodes : Promote(n) \/ Follow(n) \/ MoveEndpoint(n)
    \/ ClusterPromote \/ Calm

Next == Database \/ Refresh \/ ApiWrite

Spec == Init /\ [][Next]_vars

\* Run refreshes on a ticker for as long as the control-plane replica lives.
FairSpec == Spec /\ WF_vars(RefreshWriter) /\ WF_vars(RefreshReader)

-----------------------------------------------------------------------------
(* Properties *)

\* A write that was acknowledged by the node WriterUsableNow probed, when that
\* node had been superseded, and the replica had followed the new primary,
\* before the request began: the timelines could not be compared, neither with
\* the replica's nor with the marks, and the epoch was no help.
AckIsFenced ==
    request.pc = "acked" /\ request.node = request.probed
        /\ timeline[request.node] < request.seen
    => /\ epoch[request.node] >= request.marks.epoch
       /\ \/ request.wblind
          \/ request.rblind /\ timeline[request.node] >= request.marks.timeline

\* A request remembers no timeline the replica has not had.  While the node it
\* probed is behind that timeline nobody promotes or rebuilds it, so its probe
\* stays true, and the verdict on it too.
FenceInv ==
    /\ TypeOK
    /\ \A n \in Nodes : timeline[n] <= timeline[primary]
    /\ request.pc # "none" => request.seen <= timeline[Reader]
    /\ request.pc = "probed" /\ request.wp.ok /\ timeline[request.probed] < request.seen =>
          /\ request.wp.epoch = epoch[request.probed]
          /\ request.wp.timeline \in {0, timeline[request.probed]}
    /\ request.pc \in {"admitted", "open", "acked"} /\ timeline[request.probed] < request.seen =>
          /\ epoch[request.probed] >= request.marks.epoch
          /\ \/ request.wblind
             \/ request.rblind /\ timeline[request.probed] >= request.marks.timeline

\* A promotion is never forgotten: whatever the replica answers, or if it does
\* not, Refresh does not take a node for the writer that is behind a promotion
\* an earlier Refresh saw.
PromotionIsKept ==
    [][role' = "writer" /\ refresh.busy /\ ~refresh'.busy =>
          ~Superseded(refresh.wp, highest)]_vars

\* A replica that keeps answering from a newer epoch than the node behind the
\* writer endpoint gets the writer pool fenced, for as long as that lasts.
StalePrimaryIsFenced ==
    <>[](/\ endpoint \notin recovery /\ ~lossy
         /\ epoch[endpoint] < epoch[Reader])
    => <>[](poolFenced /\ role = "stale")

\* Writes resume: once the endpoint stays on a reachable primary whose epoch
\* is not behind the marks, the manager takes it for the writer and the pool
\* is open again.
WritesResume ==
    <>[](/\ endpoint = primary /\ ~lossy
         /\ epoch[primary] >= highest.epoch)
    => <>[](role = "writer" /\ ~poolFenced)
=============================================================================
