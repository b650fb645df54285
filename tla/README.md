# probectl in TLA+

Models of the parts of probectl whose correctness depends on the order in
which things happen: the way of a probe result from the agent's disk to the
stores, the rules by which several control-plane replicas share one database,
and three jobs those replicas do together: exporting the audit trail, paging
for alerts, and erasing a tenant. Everything else in the repository is listed
in `PROJECT.json` with the reason why it is not here.

Contents: [the system](#the-system), [what is hard about it](#what-is-hard-about-it),
[modules](#modules-and-the-code), [runs](#runs), [bounds](#bounds),
[fairness](#fairness), [proofs](#proofs), [known exceptions](#known-exceptions),
[where code and documents differ](#where-code-and-documents-differ), [what is
not modelled](#what-is-not-modelled).

## The system

    probes -> agent buffer -> StreamResults -> bus -> consumers -> stores
              (disk)          (gRPC, ack)      memory | Kafka | NATS
                                                       |
                                                  dead letters

    control-plane replicas -- one PostgreSQL -- lease row, cluster_state
       |-- audit stream -> SIEM        |-- alert_notifications -> receiver
       |-- audit stream -> WORM volume |-- tenant registry -> all stores

| Part | State | Operations | Module |
|---|---|---|---|
| Agent buffer (`internal/agent`) | the log file, its counters, the quarantine sidecar | enqueue, peek, remove, rewrite, open, quarantine | `AgentBuffer` |
| Result stream (`internal/agenttransport`) and Kafka producer | accepted count of a call, producer buffer, failure counters | receive, publish, flush, acknowledge | `ResultStream` |
| In-process bus (`internal/bus/memory.go`) | members and rotation of each group, channels, in-flight count | publish, subscribe, leave, flush, close | `MemoryBus` |
| Kafka consumer group (`internal/bus/kafka.go`) | position, marks and commit ceiling of a session | poll, mark, commit, rebalance | `KafkaGroup` |
| Result pipeline (`internal/pipeline`) | write queue, workers, drop counters | decode, enqueue, write, dead-letter, stop | `ResultPipeline` |
| Circuit breaker (`internal/breaker`) | failure count, open-until, probing flag | call, outcome | `Breaker` |
| Singleton loops (`internal/cluster/singleton.go`, `pglease`) | lease row, advisory lock, token, running tasks | acquire, renew, release, guarded transaction | `SingletonLease` |
| Write fence (`internal/cluster/cluster.go`) | high-water marks, role of the writer, pool fence | refresh, WriterUsableNow | `ClusterFence` |
| Tenant audit stream (`internal/audit`, `internal/control/siem.go`) | rows, head row, export cursor and claim | append, drain a page, prune | `SiemExport` |
| Provider audit stream (`internal/audit/worm.go`) | rows, head row, segment objects | append, export, repair, scan, prune, reconcile at boot | `WormExport` |
| Alert evaluator (`internal/alert`, `internal/control/alerteval.go`) | engines in memory, notification rows | evaluate, deliver, persist, resolve | `AlertFailover` |
| Tenant erasure (`internal/tenantlife`, `internal/tenancy`) | registry row, writer leases, stores, key ledger | write, suspend, resume, offboard, erase | `TenantErasure` |

What the system promises, in one line each: a result the agent accepted is
kept until the control plane has it; an acknowledged call has left no result
in memory; an offset is committed only when every record up to it has an
outcome; a guarded write is never of an old term; a write is not
acknowledged by a superseded primary as long as there is evidence of the
switch; an audit event leaves the database only when a copy exists outside; an
alert pages once per episode; a tenant attested as erased is gone, and stays
gone. Each holds up to the exceptions [below](#known-exceptions).

## What is hard about it

`PROJECT.json` lists the hazards with the line where each one bites. The
themes:

* decisions taken on a value read before an unlock or in an earlier
  transaction: the channels `Publish` picked, the marks `WriterUsableNow`
  copied, the drop counter the write workers compare, the watermark
  retention prunes up to;
* two parties with different beliefs about one thing: the lease session on
  the server and in the replica, the partition and its former owner, an
  export claim that ran out under its owner, the engine a replica kept from
  an earlier term;
* asynchronous success: a Kafka `Publish` that returned nil has only reached
  the producer's buffer;
* crashes between two writes of one operation: a torn frame, an epoch bumped
  without its reply, a segment without its signature, a page that was sent
  and not recorded, a key destroyed without its receipt;
* many stores and no common transaction: an erasure in which one store fails,
  a writer that was admitted before the fence;
* waiting on one another: handlers on write workers, `Flush` on handlers,
  publishers on a full channel, the half-open probe nobody else may make.

Some hazards have no property. For most of them the code lets the thing happen,
and a property of some run names it as its exception, so that the run shows that
nothing else goes wrong; these are under [known exceptions](#known-exceptions).
Two are outside the models. The commit ceiling of a Kafka session is never
lifted while the session lasts (`kafka.go:482`), so a single failing record
stops all commits of its partition until the subscription is restarted;
handled records are then read a second time, nothing is lost, and the code
documents at-least-once delivery. The agent renames a rewritten buffer file
without syncing the directory (`buffer.go:378`); the model takes it for granted
that the rename survives a power cut.

## Modules and the code

Each module's header names the files it models, and `PROJECT.json` gives the
lines of every definition. Mutated forms of an operation, used to show that
a property notices a mistake in it, are marked "Mutation".

**`FencedTerms`, `SingletonLease`** (`singleton.go`, `pglease.go`,
`tenancy/txguard.go`). A replica walks through standby, lock held, epoch
advanced, running, ending. `session` is the server's side of the connection
and `pc`/`token` the replica's, so a session can die unnoticed. `tx` is the
term under which an open guarded transaction passed `pglease.Guard`; its
FOR SHARE row lock blocks the next term's UPDATE (`RowShared`). Tasks without
the guard (`UnguardedWrite`) write when they like. `Release` marks the row as
released before it gives the lock back, and a running task keeps the token it
was started with, so "the released term" can be compared with what runs. `FencedTerms` is the
promise: tables are written only by the newest open term, and terms change
hands one at a time.

**`MemoryBus`** (`memory.go`). One topic. A `Publish` call first selects under the
lock (`Select`), then sends to each selected channel in its own step
(`Offer`), may wait or drop by the overflow policy, and may be followed by a
`Flush`. A subscription takes, handles, retries up to `MaxRedeliver`, leaves
and drains. A `Flush` waits on the `flushWait` channel of its moment and looks
again when the count has returned to zero.

**`AgentQueue`, `AgentBuffer`** (`agent/buffer.go`, `drainOnce` in
`agent/agent.go`). The file is a sequence of cells, a length header and the
payload's cells, so torn frames can be written and read back the way
`readAll` does. A frame that does not decode is copied to the sidecar and then
dropped; the copy may fail, and then nothing is dropped (`QuarantineFails`).
`AgentQueue` is the promise, an at-least-once FIFO.

**`ResultStream`** (`StreamResults`, `Kafka.Publish`, `Kafka.Flush`). Calls
share the producer's bounded buffer. The failure counters are abstracted to
`moved`: the running calls that began before the counters last grew, which
is exactly what a comparison before and after would tell. A record that loses
the race for the last slot is `turned` away when `Publish` has already gone on;
its callback counts it in a step of its own (`CallbackSheds`).

**`KafkaGroup`** (`Kafka.Subscribe`, `markable`). One partition; a session
polls, runs the handlers concurrently, marks up to its ceiling, and the
client commits marks in the background. The client library is outside the
repository: after a rebalance its marks for the lost partition may be kept
or ignored, and a late mark may take the committed offset back.

**`ResultPipeline`** extends `KafkaGroup` with `pipeline/consumer.go`: the
handler of a record hands it to the write stage of its process and waits for
the answer. A record in the stage survives its handler (`GiveUp`) and its
session (`Rebalance`). Outcomes are sets: `stored`, `rejected`, `parked`
(a dead-letter `Publish` returned nil), `dlq` (the broker has it).

**`Breaker`** (`breaker.go`). Concurrent callers; the outcome of a call is
applied when it returns, whatever has happened since; a callback that panics
does not return. The cooldown is an event, the upstream goes down and comes
back.

**`ClusterFence`** (`cluster.go`, `pgprober.go`, the `writeFence` middleware,
`store.FenceWrites`). PostgreSQL nodes promote, replicate and get rebuilt in
any order the failover runbook allows; the network is lossy until it calms
down (`Calm`); the endpoint moves to any node, which
also stands for a pooled session that outlives the move. `Refresh` is its
writer probe and then everything after it; a request is `WriterUsableNow` in
three steps, then the handler's session and commit. Any probe may be lost
and any timeline may be unreadable, which is what the best-effort query in
`PGProber.Probe` can do. The three queries of one probe are taken for one
observation of one node; a promotion between two of them, or an endpoint that
moves between them, would make a mixed answer, which the model does not have.

**`AuditTrail`, `AuditStream`, `SiemExport`** (`audit/audit.go`, `audit/export.go`,
`audit/retention.go`, `store/siem.go`, `control/siem.go`). `AuditStream` is an audit
stream under its lock: the rows, the head row and the prune anchor, an append,
a page, a prune that records itself. `SiemExport` adds the poller: `drainPage`
is a claim transaction, a POST outside any transaction whose answer may be
lost, and a commit that moves the cursor only for the claim's owner. The
claim can expire in between and be taken by another replica. A process that
ends leaves its claim behind under an owner id nobody has any more (`Gone`):
the restarted one draws a new id and waits for the expiry. Retention reads
its watermark in one step and prunes in another. `AuditTrail` is the promise:
a row is deleted only when the outside copy has it.

**`WormExport`** (`audit/worm.go`, `objectstore/fs.go`, the provider part of
`audit/retention.go`). A segment is a JSON object and a signature object, each
written by a `Put` that can stop half way. The content of an object is the
replica that produced it, because two exporters never write equal bytes. The
strict scan (retention, boot) and the exporter's scan, which may repair one
unsigned tail, are predicates over the objects. The reconciliation at boot scans
in one step (`BootScan`) and compares with the head row in a later transaction
(`BootAdmit`, `BootRefused`). Reads and prunes are guarded by the lease epoch; a
`Put` is not, so a deposed exporter writes the page it has in hand beside its
successor. The history variable `stray` keeps the names of the segments that
were written that way, and no action reads it.

**`AlertFailover`** (`alert/engine.go`, `alert/notifier.go`,
`control/alerteval.go`, `store/alertnotify.go`). One series of a
notify-once rule. Engines are per replica and outlive a term; the
notification row is shared. The evaluation decides under the engine's lock,
delivery and the write of the row come after it, and the row is deleted by a
goroutine. Episodes are numbered where the code stores timestamps. The
variables `upset` and `orphans` record which episodes a fault or an overlap of
two leaders disturbed; nothing in an action reads them.

**`TenantErasure`** (`tenantlife/tenantlife.go`, `tenancy/writefence.go`,
`tenancy/tenancy.go`, `audit/ir_key_shred.go`, the fence triggers of the
migrations). Each replica may run a call of `Erase`: plan the key destruction,
fence the tenant under the exclusive lock, delete and count store after
store, destroy the attribution key, tombstone. A writer of the control plane
holds the shared lock (`leases`) around its write; a tag import writes in one
REPEATABLE READ snapshot, so the trigger sees the status of its beginning, and
the row lock of its audit append is what refuses it (`Refused`). The fence and
`Finalize` outdate such a snapshot; a status change of the provider console does
not, because it takes the weaker row lock that a key share does not conflict
with. A browser agent puts its artifacts into the object store itself, with no
lease and no trigger (`AgentPut`, `internal/browser/fleet.go`). "flows" stands for
all stores that only leased writers reach, "objects" for the object store, and
each replica has its own topology graph. The history variable `unlisted` keeps
the artifacts put after some call had listed the object store.

## Runs

Passing runs, with the number of distinct states TLC visits:

| Run | Shows | States |
|---|---|---|
| `lease` | transactions of guarded tasks are of the current term; a released term is quiet; `SingletonLease` implements `FencedTerms`; a holder that lost its session stops, and some replica leads again | 123 k |
| `membus` | the in-flight count is exact; nil from `Publish` means every group has the message; every `Flush` returns | 650 k |
| `buffer` | accepted results are kept; `AgentBuffer` implements `AgentQueue`; everything accepted drains unless a newer-version frame is at the head | 26 k |
| `stream` | an acknowledged call has no record in the producer; a flush with unchanged failure counters means delivered, but for records that lost the last slot; every call ends, also when the broker never answers | 19 k |
| `pipeline` | nothing is committed past an unhandled record; a committed record is stored, refused or parked; every batch is decided, a stopping subscription returns | 0.25 M |
| `breaker` | one half-open probe; it closes after recovery and is probed again and again until then | 624 |
| `fence` | a write acknowledged by a superseded node it probed means that the timelines could not be compared; no promotion is forgotten; a stale writer gets the pool fenced, the right one gets it released | 1.3 M |
| `siem` | the cursor covers only what the SIEM has; the stream never refuses an append because of it; `SiemExport` implements `AuditTrail`; the export catches up again and again | 197 k |
| `worm` | what retention deleted is on the volume under a valid signature, unless a deposed exporter wrote its segment; the volume has no gap, and the lease holders' segments at most one loose end, at the end; `WormExport` implements `AuditTrail`; the export catches up unless it is `Halted` | 255 k |
| `alert` | one page per episode over failovers; no old last-notified time mutes a new episode; the receiver agrees with the condition again and again | 874 k |
| `erase` | once attested complete the stores are empty and stay empty; the key is destroyed only after the data; behind the fence stores only shrink; a fenced tenant ends deleted; the first three up to writes that lost their lease and artifacts of agents that still run | 545 k |

The twelfth, `worm_stale`, ends in a violation on purpose; see [where code
and documents differ](#where-code-and-documents-differ).

Deadlock is checked in the runs whose system always has a next step. It is
switched off where the model comes to rest: the bus after `Close`, the agent
once every result has been offered and drained, and the audit, alert and
erasure models when their bounds (events, terms, episodes, faults) are used up
and all work is done. In these, the liveness properties say that they come to
rest in the right place.

## Bounds

Bounds are named constants. They are chosen so that the interesting cases
happen, and no larger than TLC finishes in a few minutes.

* `lease`: two replicas, because a third only repeats the second; three
  terms, so that a replica can meet its own earlier term; three faults, so that
  a lost reply, a lost session and a crash meet in one behaviour.
* `membus`: two groups that the two subscriptions join as they like, so that
  rotation, fan-out and leaving matter; channels of one message, so that two
  publishers fill one; one publisher flushes and one subscription may leave.
* `buffer`: an ordinary result, one above the chunk's byte cap, an undecodable
  one and one of a newer version; buffer caps below the sum of the four.
* `stream`: more results than buffer slots, and two calls, so that one call's
  failure happens during the other one's flush.
* `pipeline`: one process with two write workers, two records and a queue of
  one; a session that is restarted meets the partition again. Two processes
  with two records are out of TLC's reach; the theorem covers all sizes.
* `breaker`: one caller more than the threshold.
* `fence`: two nodes, so that the replica is the node promoted, and an epoch
  bump that may come before or after any probe. The theorem covers more nodes
  and further promotions.
* `siem`: two replicas, two terms, pages of two events in a stream of three: a
  claim can be stolen, a commit can come late, a prune can fall between two
  pages, and the record of a prune must be exported in turn.
* `worm`: pages of two events in a stream of three, with or without a segment
  that predates the head row, and two terms: a page can grow between two reads of
  it, a deposed exporter and its successor write at the same time, and an export,
  a repair and a prune fit into one behaviour.
* `alert`: two episodes, so that state of the first can spoil the second;
  three terms, so that a replica leads, loses the lease and leads again; a
  debounce of two samples, which a failover can interrupt.
* `erase`: two replicas may erase at the same time, beside two writers in five
  pairs of kinds (`MCPairs`): a leased store with a snapshot transaction and with
  a graph, a row with a leased object and with a snapshot transaction, an
  agent's artifact with a leased object. So every kind of write meets every step
  of an erasure, and the kinds that end in the same place meet each other. Two
  faults let a call fail and its repetition crash. One attribution record is
  enough to tell a plan that counted it from one that did not.

The bound on terms in `siem`, `worm` and `alert` also ends the failures: the
last leader is not cancelled and does not crash. That is the "once faults
stop" of their liveness properties, and the guards that say so are the ones
with `term < MaxTerms`.

## Fairness

* Goroutines that are ready to run do run: weak fairness on handlers,
  workers, drain loops, coordinator steps, evaluator and poller ticks and
  `Refresh`, which is a ticker loop.
* Timers fire: the renew tick, the flush deadline, the cooldown, the lease of
  an export claim. The broker is never assumed to answer.
* A process that crashed is restarted (lease, agent, WORM export): the
  deployment restarts it. Standbys retry the lease for ever.
* The server notices a dead session in the end (TCP keepalive); the number of
  faults is bounded, which is what "once faults stop" means in `lease`,
  `buffer` and `erase`.
* `SiemExport` and `WormExport`: neither the SIEM, the database nor the volume
  fails for ever. A POST, a commit, a read, a Put or a boot transaction that is
  tried again and again succeeds at some time (strong fairness), since each may
  also fail when it is tried.
* `Breaker` assumes that a healthy upstream answers a probe with success
  again and again (strong fairness on `Success`), since a call may also end
  in a neutral way, by its own cancellation. Panics are not excluded by
  fairness but named in the properties (`abandoned`).
* `MemoryBus` assumes nothing of the handler's answer: failing for ever is
  allowed, the redelivery bound ends it.
* `ClusterFence` assumes nothing of the network or the operator: its liveness
  properties have the stable situation as their premise.
* `TenantErasure` assumes that an operator repeats an erasure that did not
  complete, which is the procedure of `docs/runbooks/tenant-offboarding.md`, and
  that a write in flight ends. Nothing restarts an erasure by itself.

## Proofs

TLAPS proves these for every value of the constants, under the named
assumptions in the modules (`LeaseConstants`, `BusConstants`,
`BufferConstants`, `StreamConstants`, `GroupConstants`, `PipeConstants`,
`BreakerConstants`, `FenceConstants`, `SiemAssumption`, `WormAssumption`,
`AlertAssumption`, `NoEngine`, `ErasureAssumption`). They only say that bounds
are natural numbers, that "no node" is not a node and "no engine" not an engine,
and the like. Every inductive invariant was checked by TLC on the instance of
its run before it was proved.

Eight modules hold the proofs. Where components are proved together they share
a theme, not a state.

`ResultPipelineProofs`, the way of a result behind the agent:

* `CommitSafety` of the consumer group. `CommittedIsSettled` alone is not
  inductive, since a mark becomes a commit later and a batch becomes a mark;
  `GroupInv` adds that marks are settled, that outcomes belong to the batch,
  and `ReachedIsCovered`: every offset a session has passed is settled, in
  its batch, or at or above its ceiling.
* `CommitAccounts` of the pipeline, from `GroupInv` and `SettledIsAccounted`;
  every step of the pipeline is a step of the group or leaves the group alone.
* `AckBarrier` and `CleanFlush` of the result stream, from `StreamInv`, which
  follows each accepted result of a running call: while the counters have not
  moved it is buffered, on the broker, malformed, or turned away and still to be
  counted. The empty buffer takes the first of these away.
* `SingleFlight` of the breaker, with the flag `probing` equal to the existence
  of a probing caller or of one that panicked.

`MemoryBusProofs`, the in-process bus: `InFlightHolds` and `NilIsHonest`.
`BusInv` adds `ComesOnce`, a message comes to a channel at most once and is in
one place of it, without which a decrement could not be matched with an
increment; and `PublishCovers`, a `Publish` that has lost nothing has sent to
every channel it has finished with. The count is a sum of cardinalities of
sets of places, and each step moves one place from one set to another.

`AgentBufferProofs`, the agent's disk: `NothingAcceptedIsLost`. The work is in
the lemmas on the file: `RoundTrip`, what `rewriteLocked` wrote is what `readAll`
reads; `ReadResumes`, reading a file with cells appended to it reads what was
readable before and goes on at the cell where it stopped; `AppendReads`, a frame
appended to an untorn file is read back, and one appended to a torn file adds
at most one frame, which holds no result (`ReadsAcrossTorn`: it mixes cells of
two results, or is a header with the wrong length). The recursions are recursive
functions, so the lemmas first show that the functions exist (`Accumulator`,
`ReadFromDefined`), then go by induction over the file, stated with sets
(`Induction`, `Backwards`) and derived from the well-foundedness of `<`.
`BufferInv` adds that the readable log begins with the chunk that is on its way:
probes append and append may fail meanwhile, and still what `Remove` drops is
what was acknowledged.

The same module has the refinement `BufferImplementsQueue` and from it
`QueueLosesNothing`. The mapping reads the file back into results
(`QueueOnDisk`); frames that hold none, which only torn appends produce, count
for nothing. `ResultsJoined` says that the results of two logs one after the other
are the results of the first and then those of the second, so that an append of
the buffer is a `Put`, a removal of a decoded chunk of k frames a `Retire` of
exactly k results, and a quarantine of a frame without a result a stutter.
`QueueInv` (`QueueInvariant`) makes the mapping exact: only offered results are
anywhere, a result appended behind a torn frame is neither on disk nor with the
control plane nor in the sidecar, and every frame on its way decodes. Without
the second part a late appearance of such a result would be no step of the queue.

`SingletonLeaseProofs` and `AlertFailoverProofs`, leased work: the lease itself and
the alert evaluator:

* `FencedTransactions`, `ExclusiveLiveSession`, `QuietHandover` and the
  refinement `LeaseImplementsFencedTerms`. The inductive invariant `LeaseInv`
  joins the invariants proved with `TokensAreDistinct` (no two replicas hold
  a token of the same epoch) and `IdleIsClean` (a replica outside a term has
  neither lease handle nor task; the token is not taken back, which is what
  makes `QuietHandover` a statement about the tasks). The point of the argument: a guarded transaction
  holds the row share lock, so the row it verified cannot change before it ends.
  From the refinement follows `GuardedWritesInTermOrder`: a table never goes back
  to an earlier term, whatever an old leader still runs.
* `PagesOnce`. `OnceInv` needs `NotifiedIsKnown`: an undisturbed episode that was
  paged is noted in the leader's engine, or in the row that the next engine
  restores, or the leader is about to write that row. `EpisodesOrdered` keeps
  the asynchronous erasures of the row to earlier episodes.
* `NextIsHeard`. `CleanInv` says that neither the leader's engine nor the row
  holds an undisturbed episode of which a leader has seen the end, unless the
  erasure of the row is pending, and that a leader's engine knows the row it
  will have to erase.

`HandoverProofs`, the write fence and the SIEM export, where one party acts on
what it read before another took over:

* `AckFenceHolds`. `FenceInv` adds that no timeline is above the primary's and
  that a node behind the timeline the replica had when the request began is
  neither promoted nor rebuilt while it stays behind, so what the probe said of
  it is still true at the commit. `PromotionHolds` is an action property: the
  marks only rise, and a decision is taken with them.
* `CursorCoversDelivered`, `AppendsNeverFailClosed`, `ClaimGuardsSending`,
  `NoEventIsLost` and the refinement `SiemImplementsAuditTrail`. In
  `SiemInv`, `PagesAreStale` carries the argument: the cursor never moves back,
  so a page or a watermark that was read earlier is at worst behind it, and a
  page that is to be committed was delivered.

`WormExportProofs`: `AtMostOneLooseEnd`, `RetentionKeepsArchive`, the refinement
`WormImplementsAuditTrail` and from it `ProviderEventsKept` (every event is in the
database, verifies on the volume, or is in a segment that a deposed exporter
wrote). Nothing is assumed of who writes when. `WormInv` says what an exporter in
the middle of a page knows of the volume (`Exporting`): any exporter, that there
is no gap in front of its page; the lease holder, that among the segments not in
`stray` everything in front of its page verifies and nothing lies behind it. The
proof about the loose end uses that a lease holder's new segment starts where
the listed ones end, so a failed Put can only spoil the last one. What a deposed
exporter can do to a segment is not bounded, and `worm_stale` shows that it
cannot be.

`TenantErasureProofs`: `AttestationHolds`, `ShredIsLast` and the action property
`FenceHolds`. In `EraseInv`, `WritersFenced` says who can still write behind the
fence (a snapshot transaction that the registry row has outdated, which its
audit append will refuse, and a write that lost its lease; an agent's put needs
no standing), and `CallsVerified` that what a call has verified at each of its
steps stays so, whatever the other replicas' calls do.

Only model-checked: all liveness, which this prover does not reach. Every
invariant, action property and refinement of a passing run has a theorem.

## Known exceptions

These properties hold with an exception that the model names, because the code
behaves that way in a rare order of events. Each is spelled out in the
property's comment.

* `AcceptedIsKept`, `ImplementsAgentQueue` (`behind`): an append that fails in
  the middle leaves a torn frame (`buffer.go:124`). `readAll` takes the next
  frame for the rest of it, so a result accepted behind it is not read back.
* `CleanFlushHidesOnlyRaces`: a delivery that fails after `Publish` returned nil is
  counted, `Flush` returns nil all the same and the call is acknowledged
  (`service.go:373`); only a comparison of the failure counters would tell, and
  the property has it as its condition. Even that misses one case (`turned`): two
  calls see room for one more record, the second is turned away by the client,
  and the flush, which waits for the buffer only, returns before the callback has
  counted it. The comment on `PublishFailureReporter` (`bus.go:263`) says that a
  producer that wants to know "flushes and then reads these counters".
* `CommittedIsAccounted` (`parked`): the comment on `writeOne` calls a dead-lettered
  record "replayable, so the offset may advance" (`consumer.go:438`). `writeOne`
  waits for the dead-letter `Publish`, which for Kafka returns before the broker
  has the record. The run of events: the store write fails, `Publish` returns nil,
  the offset is marked and committed, the process dies with the producer's
  buffer; the record is neither stored nor in the dead-letter topic.
* `FlushCompletes` (`Orphaned`): `Publish` picks a channel under the lock and
  sends after unlocking (`memory.go:231`). A send that lands after a leaving
  `Subscribe` has drained its channel stays in flight for ever, and no later
  `Flush` returns.
* `OneProbe`, `ReProbes`, `ClosesAgain` (`abandoned`): a panic in the half-open
  probe leaves the flag set, and the breaker open, for good.
* `AckIsFenced`: the comment on `WriterUsableNow` says that "any probe error
  fails closed"; an error of the replica's probe is ignored, and a timeline
  that was not read is no evidence, so a write to the superseded node can be
  acknowledged in those two cases.
* `PrunedIsArchived`, `ImplementsAuditTrail` of `WormExport`, `OneLooseEnd`
  (`stray`): what a deposed exporter writes, see
  [below](#where-code-and-documents-differ).
* `ExportCatchesUp` (`Halted`): an object that a Put left half written; an
  unsigned tail when every replica is down at once, since the scan at boot is
  strict and only a running exporter repairs the tail; a deposed exporter's
  segment that does not verify or overlaps another. They need an operator.
* `PagedOnce`, `StartsClean`, `ReceiverSettles` (`upset`, `orphans`): a failed
  delivery is recorded like a successful one; a leader that dies or is deposed
  between the delivery and the row makes its successor page again; a replica that
  leads again uses its engine of the earlier term; a deposed replica goes on
  evaluating until it notices; a late resolve hook deletes the row of the next
  episode; and a metric episode whose end only an engine that restored it has
  seen keeps its row. The last one contradicts a comment: "a stale persisted
  timestamp can never suppress a genuinely new episode" (`engine.go:640-641`). The
  run of events: a metric rule fires, pages and writes its row; the lease moves,
  and the new leader's engine restores the row; the value recovers before that
  engine has fired, so its `transition` takes the branch of a series that was
  not firing, which clears neither the restored time nor the row (traps have
  `resolveRestoredTraps`, metrics nothing like it); the value breaches again, the
  first firing takes the restored time for this episode's, and a notify-once
  rule stays silent. `StartsClean` shows that these, and no others, are the ways
  in which an old time mutes a new episode.
* `AttestedIsEmpty`, `ShredFollowsErasure`, `FencedStoresOnlyShrink`: two kinds of
  writes. First (`late`), when the database session behind a writer's lease dies,
  the write to another store goes on, the erasure no longer waits for it, and it
  can land after the store was verified empty. The runbook says that "a delayed
  record cannot refill a store after it was verified empty"
  (`docs/runbooks/tenant-offboarding.md:191`); that holds for writes that keep
  their lease. Second (`unlisted`, `Unfenced`), a browser agent that still runs can
  put an artifact after the object store was listed, as the runbook says
  (`tenant-offboarding.md:129-133`), which is why it tells the operator to stop
  the agents first. With no agent running the second exception is empty.
  `AttestedIsEmpty` speaks of the topology graph of the attesting replica only:
  `Erase` does not reach the graphs in the memory of the others.

Some differences can be read off an action: `Drain` of `MemoryBus` settles
messages that no handler saw, so a `Flush` returns nil for them;
`CompareDropped` takes another worker's drop for its own and redelivers a
record that was parked; `SessionDies` leaves the loops of the old holder
running beside the new holder's until the next renew tick, which guarded
transactions survive; `RefreshReader` opens a fenced pool when the writer's
probe failed.

## Where code and documents differ

`worm_stale` checks `PrunedLivesOn`, the sentence of `internal/audit/retention.go:32`
that "the pruned history lives on in the signed WORM segments", in the model
the `worm` run uses, and TLC violates it. `docs/ha.md:103` says "The lease makes
WORM export single-writer". The exporter's transactions are fenced by the lease
epoch, but its Puts are not (`worm.go:510`), and `FSStore.Put` ignores its
context. A replica reads a page, loses the lease and has its Puts still to come;
its successor writes or repairs and signs the segment of the same name, and
retention deletes the rows; then the late Put replaces the JSON, and when it
fails half way, or the process dies before it has replaced the signature too,
the deleted events verify nowhere. The property speaks only of states in which
no export is in hand, so the moment between two Puts of one pair is not
counted against it. A volume that refuses to overwrite an object turns the late
Put into a failed one; `FSStore` does not refuse.

## What is not modelled

* Payloads, tenants' identities and wire formats: a record is its offset or
  a model value. Decoding is a yes or a no. Hash chains are sequence numbers,
  a signature is the content it signs.
* Time as a number: intervals, TTLs and deadlines are events that may happen
  whenever they are armed.
* PostgreSQL and Kafka themselves; their behaviour is what the code relies
  on, marked external in `PROJECT.json`.
* In the agent transport: registration, heartbeat and coordination. In the
  Kafka bus: topic creation and group deletion. In the pipeline: the lanes,
  the quarantine guard, the misrouted-record path and the cardinality limit
  are one outcome, refused and counted.
* In the audit trail: the first head row of an old tenant stream, listing and
  verification on request, break-glass records. In the WORM export: rotation
  of the signing key and the incident-response companions of a segment.
* In the alert engine: intervals after which an alert is sent again, silences,
  acknowledgements, maintenance windows, quarantine, baselines and the
  selection of series by tags.
* In the tenant lifecycle: provisioning, export, subject requests, retention
  sweeps, and the erasure of a tenant with a database of its own. The
  quarantine is a refusal before anything is touched.
* The components listed as `not_modelled` in `PROJECT.json`, each with its
  reason: SQL repositories, API handlers, collectors and decoders, analysis,
  the web front end, cryptography, build tools. They make up by far the
  largest part of the repository. Most of it is sequential per request or a
  computation over data. Parts with shared state of their own that are left
  out are the NATS bus, the incident correlator, the agent-to-agent broker,
  the heartbeat batcher and the fairness buckets.
