--------------------------- MODULE AlertFailover ---------------------------
(***************************************************************************)
(* Alert notification across leader failover: the evaluator loop of every  *)
(* control-plane replica, its in-memory engine, and the                    *)
(* alert_notifications row that carries an episode over a failover.        *)
(*                                                                         *)
(* One series of one "notify once" rule (renotify 0) is modelled.  An      *)
(* episode is a stretch during which the condition holds; episodes are     *)
(* numbered, and the number stands for the timestamps the code stores: the *)
(* row and the engine's last-notified time are the number of the episode   *)
(* they were written for, 0 when absent or zero.  The code tests only for  *)
(* zero; the number is read by the properties.                             *)
(*                                                                         *)
(* The evaluator is a lease singleton that ignores its token, so a deposed *)
(* replica evaluates until it notices.  Its engine stays in the            *)
(* supervisor's map after the loop has returned.                           *)
(***************************************************************************)
EXTENDS Naturals

CONSTANTS Replicas,     \* control-plane replicas
          None,         \* no leader, no engine
          Rules,        \* kinds of rule to choose from: "trap", "metric"
          ForN,         \* consecutive breaches before the series fires
          MaxEpisodes,  \* bound on the number of episodes
          MaxTerms      \* bound on the number of lease acquisitions

ASSUME AlertAssumption ==
    /\ None \notin Replicas
    /\ Rules \subseteq {"trap", "metric"}
    /\ ForN \in Nat \ {0}

ASSUME NoEngine == None \notin [firing : BOOLEAN, count : Nat, told : Nat, row : Nat]

VARIABLES rule,     \* the kind of the rule
          cond,     \* the condition holds now
          ep,       \* number of the newest episode
          note,     \* alert_notifications row
          eng,      \* engine of each replica, or None
          stage,    \* where the replica is in its evaluation pass
          at,       \* episode of the notification the pass is delivering
          hooks,    \* resolve hooks running in goroutines, by episode
          pager,    \* episode the receiver believes to be firing, 0 when none
          leader,   \* owner of the newest lease epoch
          active,   \* replicas whose evaluator context is not cancelled
          term      \* lease epoch

\* History, read by the properties only.
VARIABLES sent,     \* undisturbed episodes the receiver was notified of
          again,    \* episodes the receiver was notified of more than once
          quiet,    \* episodes after which the leader evaluated a good sample
          upset,    \* episodes whose bookkeeping a fault or an overlap disturbed
          orphans   \* metric episodes whose end was seen only by an engine
                    \* that had restored them

world == <<rule, cond, ep>>
pass  == <<stage, at>>
lease == <<leader, active, term>>
past  == <<sent, again, quiet, upset, orphans>>
alertVars == <<world, note, eng, pass, hooks, pager, lease, past>>

\* An engine as NewEngine builds it, restored from notification row n.
Engine(n) == [firing |-> FALSE, count |-> 0, told |-> 0, row |-> n]

\* Replica r moves on in its pass, delivering for episode e (0: nothing).
Goto(r, label, e) ==
    /\ stage' = [stage EXCEPT ![r] = label]
    /\ at' = [at EXCEPT ![r] = e]

\* The episodes that a deposed replica disturbs when it acts on es.
Overlap(r, es) == IF r = leader THEN {} ELSE es

\* The episodes a replica takes up with the engine of an earlier term: Sync finds
\* it in the map and does not restore the row again.
Rejoined(r) == IF eng[r] = None THEN {} ELSE {eng[r].told, eng[r].row, note} \ {0}

\* A resolve that was decided has not erased the row yet.
ErasePending ==
    \E r \in Replicas :
        \/ \E e \in hooks[r] : e >= note
        \/ stage[r] \in {"trapped", "cleanup"} /\ at[r] >= note

AlertInit ==
    /\ rule \in Rules /\ cond = FALSE /\ ep = 0
    /\ note = 0
    /\ eng = [r \in Replicas |-> None]
    /\ stage = [r \in Replicas |-> "idle"] /\ at = [r \in Replicas |-> 0]
    /\ hooks = [r \in Replicas |-> {}]
    /\ pager = 0
    /\ leader = None /\ active = {} /\ term = 0
    /\ sent = {} /\ again = {} /\ quiet = {} /\ upset = {} /\ orphans = {}
-----------------------------------------------------------------------------
(* The world. *)

Breach ==
    /\ ~cond /\ ep < MaxEpisodes
    /\ cond' = TRUE /\ ep' = ep + 1
    /\ UNCHANGED <<rule, note, eng, pass, hooks, pager, lease, past>>

Recover ==
    /\ cond
    /\ cond' = FALSE
    /\ UNCHANGED <<rule, ep, note, eng, pass, hooks, pager, lease, past>>
-----------------------------------------------------------------------------
(* The lease, as the evaluator sees it (SingletonLease models it). *)

\* Another replica may still be running, in the middle of a delivery.
Elect(r) ==
    /\ r \notin active /\ stage[r] = "idle"
    /\ term < MaxTerms
    /\ leader' = r
    /\ active' = active \cup {r}
    /\ term' = term + 1
    /\ upset' = upset \cup Rejoined(r)
                      \cup {at[s] : s \in {s \in Replicas : stage[s] \in {"send", "persist"}}}
    /\ sent' = sent \ upset'
    /\ UNCHANGED <<world, note, eng, pass, hooks, pager, again, quiet, orphans>>

\* The context is cancelled: shut down, or the replica noticed that the lease
\* is lost.  The pass in flight goes on; the hooks use a context of their own.
Cancel(r) ==
    /\ r \in active
    /\ r # leader \/ term < MaxTerms
    /\ active' = active \ {r}
    /\ UNCHANGED <<world, note, eng, pass, hooks, pager, leader, term, past>>

\* The process ends, and with it the engine and the hooks still running.
ProcessEnds(r) ==
    /\ eng[r] # None
    /\ term < MaxTerms
    /\ active' = active \ {r}
    /\ eng' = [eng EXCEPT ![r] = None]
    /\ Goto(r, "idle", 0)
    /\ hooks' = [hooks EXCEPT ![r] = {}]
    /\ upset' = upset \cup (IF stage[r] \in {"persist", "resolved"} THEN {at[r]} ELSE {})
                      \cup (IF hooks[r] # {} \/ stage[r] \in {"trapped", "cleanup"}
                              THEN {note} \ {0} ELSE {})
    /\ sent' = sent \ upset'
    /\ UNCHANGED <<world, note, pager, leader, term, again, quiet, orphans>>
-----------------------------------------------------------------------------
(* AlertEvaluatorSupervisor.Run: Sync, then one pass per tick. *)

\* Mutation: the engine starts without the row.
BuildFresh(r) ==
    /\ r \in active /\ stage[r] = "idle" /\ eng[r] = None
    /\ eng' = [eng EXCEPT ![r] = Engine(0)]
    /\ UNCHANGED <<world, note, pass, hooks, pager, lease, past>>

\* Sync builds the engine only when the map has none, and restores the row.  A
\* restore that fails is logged; the engine then starts without it.
Build(r) ==
    /\ r \in active /\ stage[r] = "idle" /\ eng[r] = None
    /\ \/ /\ eng' = [eng EXCEPT ![r] = Engine(note)]
          /\ upset' = IF ErasePending THEN upset \cup ({note} \ {0}) ELSE upset
       \/ /\ eng' = [eng EXCEPT ![r] = Engine(0)]
          /\ upset' = upset \cup ({note} \ {0})
    /\ sent' = sent \ upset'
    /\ UNCHANGED <<world, note, pass, hooks, pager, lease, again, quiet, orphans>>

\* The engine's pass may start: the context is not cancelled.
Evaluating(r) == r \in active /\ stage[r] = "idle" /\ eng[r] # None

\* Engine.Evaluate on a breaching sample: debounce, fire, rehydrate on the first
\* firing, decide to notify.
EvalBreached(r) ==
    LET s     == eng[r]
        n     == IF s.count < ForN THEN s.count + 1 ELSE ForN
        first == ~s.firing
        told  == IF first /\ s.row # 0 THEN s.row ELSE s.told
    IN
    /\ Evaluating(r) /\ cond
    /\ IF n < ForN
         THEN /\ eng' = [eng EXCEPT ![r].count = n]
              /\ UNCHANGED pass
         ELSE /\ eng' = [eng EXCEPT ![r] =
                   [firing |-> TRUE, count |-> n,
                    told |-> IF told = 0 THEN ep ELSE told,
                    row |-> IF first THEN 0 ELSE s.row]]
              /\ IF told = 0 THEN Goto(r, "send", ep) ELSE UNCHANGED pass
    /\ upset' = upset \cup Overlap(r, {ep})
    /\ UNCHANGED <<world, note, hooks, pager, lease, sent, again, quiet, orphans>>

\* Mutation: the last-notified time outlives the episode.
EvalResolvedKeepsTold(r) ==
    /\ Evaluating(r) /\ ~cond /\ eng[r].firing
    /\ eng' = [eng EXCEPT ![r].firing = FALSE, ![r].count = 0]
    /\ hooks' = [hooks EXCEPT ![r] = @ \cup {ep}]
    /\ Goto(r, "resolved", ep)
    /\ quiet' = IF r = leader THEN quiet \cup {ep} ELSE quiet
    /\ upset' = upset \cup Overlap(r, {ep})
    /\ UNCHANGED <<world, note, pager, lease, sent, again, orphans>>

\* A good sample, and the series was firing: the episode is over.  The row is
\* deleted by a goroutine.
EvalResolved(r) ==
    /\ Evaluating(r) /\ ~cond /\ eng[r].firing
    /\ eng' = [eng EXCEPT ![r] = Engine(@.row)]
    /\ hooks' = [hooks EXCEPT ![r] = @ \cup {ep}]
    /\ Goto(r, "resolved", ep)
    /\ quiet' = IF r = leader THEN quiet \cup {ep} ELSE quiet
    /\ upset' = upset \cup Overlap(r, {ep})
    /\ UNCHANGED <<world, note, pager, lease, sent, again, orphans>>

\* Mutation: the restored trap is cleaned up but not delivered.
DropRestoredTrap(r) ==
    /\ rule = "trap" /\ eng[r].row # 0
    /\ eng' = [eng EXCEPT ![r] = Engine(0)]
    /\ Goto(r, "cleanup", ep)

\* resolveRestoredTraps: a restored trap episode that is neither firing nor in
\* debounce is resolved.  Only trap rules have it.
ResolveRestoredTrap(r) ==
    /\ rule = "trap" /\ eng[r].row # 0
    /\ eng' = [eng EXCEPT ![r] = Engine(0)]
    /\ Goto(r, "trapped", ep)

\* A good sample, and the series was not firing.
EvalNormal(r) ==
    /\ Evaluating(r) /\ ~cond /\ ~eng[r].firing
    /\ quiet' = IF r = leader THEN quiet \cup ({ep} \ {0}) ELSE quiet
    /\ \/ ResolveRestoredTrap(r) /\ UNCHANGED orphans
       \/ /\ rule = "metric" \/ eng[r].row = 0
          /\ eng' = [eng EXCEPT ![r].count = 0]
          /\ orphans' = orphans \cup ({eng[r].row} \ {0})
          /\ UNCHANGED pass
    /\ UNCHANGED <<world, note, hooks, pager, lease, sent, again, upset>>

\* No samples came back.  A trap series past its read window is still resolved.
EvalNoData(r) ==
    /\ Evaluating(r) /\ ~cond /\ ~eng[r].firing /\ eng[r].count = 0
    /\ ResolveRestoredTrap(r)
    /\ UNCHANGED <<world, note, hooks, pager, lease, past>>
-----------------------------------------------------------------------------
(* Delivery, outside the lock, and the writes that follow it. *)

\* Deliver skips a channel that fails, and its caller does not look: a firing
\* notification is persisted whether or not it reached the receiver.
Deliver(r) ==
    /\ \/ stage[r] = "send" /\ Goto(r, "persist", at[r])
       \/ stage[r] = "resolved" /\ Goto(r, "idle", 0)
       \/ stage[r] = "trapped" /\ Goto(r, "cleanup", at[r])
    /\ \/ /\ r \in active
          /\ upset' = upset \cup Overlap(r, {at[r], ep})
          /\ pager' = IF stage[r] = "send" THEN at[r] ELSE 0
          /\ sent' = IF stage[r] = "send" THEN (sent \cup {at[r]}) \ upset' ELSE sent \ upset'
          /\ again' = IF stage[r] = "send" THEN again \cup ((sent \cap {at[r]}) \ upset') ELSE again
       \/ /\ upset' = upset \cup {at[r]}
          /\ UNCHANGED <<pager, sent, again>>
    /\ UNCHANGED <<world, note, eng, hooks, lease, quiet, orphans>>

\* onNotify upserts the notification row; a failure is logged.
Persist(r) ==
    /\ stage[r] = "persist"
    /\ Goto(r, "idle", 0)
    /\ \/ note' = at[r] /\ upset' = upset \cup Overlap(r, {note} \ {0})
       \/ note' = note /\ upset' = upset \cup {at[r]}
    /\ UNCHANGED <<world, eng, hooks, pager, lease, sent, again, quiet, orphans>>

\* The resolve hook for episode e deletes the row, whichever episode it is of.
\* A failure is logged.
Erase(e) ==
    \/ note' = 0 /\ upset' = upset \cup {n \in {note} : n > e}
    \/ note' = note /\ upset' = upset \cup ({note} \ {0})

\* go onResolve(key), some time after the transition.
ResolveHook(r) ==
    \E e \in hooks[r] :
        /\ Erase(e)
        /\ hooks' = [hooks EXCEPT ![r] = @ \ {e}]
        /\ UNCHANGED <<world, eng, pass, pager, lease, sent, again, quiet, orphans>>

\* onResolve(key) in the pass itself, for a restored trap.
Cleanup(r) ==
    /\ stage[r] = "cleanup"
    /\ Erase(at[r])
    /\ Goto(r, "idle", 0)
    /\ UNCHANGED <<world, eng, hooks, pager, lease, sent, again, quiet, orphans>>
-----------------------------------------------------------------------------
AlertNext ==
    \/ Breach \/ Recover
    \/ \E r \in Replicas :
         \/ Elect(r) \/ Cancel(r) \/ ProcessEnds(r) \/ Build(r)
         \/ EvalBreached(r) \/ EvalResolved(r) \/ EvalNormal(r) \/ EvalNoData(r)
         \/ Deliver(r) \/ Persist(r) \/ ResolveHook(r) \/ Cleanup(r)

AlertSpec == AlertInit /\ [][AlertNext]_alertVars

\* What goes on without a leader's evaluator: a standby takes the free lease, a
\* cancelled or deposed replica becomes quiet, a hook runs.
Background(r) ==
    \/ active = {} /\ Elect(r)
    \/ r # leader /\ Cancel(r)
    \/ r \notin active /\ (Deliver(r) \/ Persist(r) \/ Cleanup(r))
    \/ ResolveHook(r)

\* One step of the evaluator loop.
Step(r) ==
    \/ Build(r)
    \/ EvalBreached(r) \/ EvalResolved(r) \/ EvalNormal(r)
    \/ Deliver(r) \/ Persist(r) \/ Cleanup(r)

\* The standbys retry the lease for ever, a cancelled loop returns, hooks have a
\* deadline, and the leader's ticker ticks; a rule whose samples cannot be read
\* is evaluated again at the next tick.
AlertFairness ==
    /\ WF_alertVars(\E r \in Replicas : Background(r))
    /\ WF_alertVars(\E r \in {leader} \cap active : Step(r))

AlertFairSpec == AlertSpec /\ AlertFairness
-----------------------------------------------------------------------------
\* A "notify once" alert pages once per episode, whatever replicas hand over to
\* each other while it fires (RestoreNotifications, transition), except in an
\* episode touched by a failed delivery or write, a lost process, two leaders
\* at once, or a replica that leads again with the engine of an earlier term.
PagedOnce == again \subseteq upset

\* Notification state of episode e in an engine that is firing now, although
\* the leader has seen the condition clear since.
Outlived(r, e) ==
    /\ eng[r] # None /\ eng[r].firing /\ eng[r].told = e
    /\ quiet \cap e .. ep - 1 # {}

\* The last-notified time of an ended episode never mutes the next one: the
\* leader that is firing was told of this episode, or no evaluation saw the
\* gap.  Known exceptions: PagedOnce's, and a metric episode that ended while
\* no engine that saw it fire was evaluating.
StartsClean ==
    \A r \in {leader} \cap Replicas : \A e \in 1 .. ep - 1 :
        Outlived(r, e) => e \in upset \cup orphans

\* What the receiver last heard agrees with the condition again and again, so
\* that in the end it is told of the last episode and of its end, across
\* failovers (resolveRestoredTraps).
Misled ==
    \/ {ep, pager} \cap (upset \cup orphans) # {}
    \/ \E r \in {leader} \cap Replicas :
          eng[r] # None /\ {eng[r].told, eng[r].row} \cap (upset \cup orphans) # {}
ReceiverSettles == []<>((pager # 0) = cond \/ Misled)
-----------------------------------------------------------------------------
(* Why the two invariants hold. *)

Engines(n) == [firing : BOOLEAN, count : 0 .. ForN, told : 0 .. n, row : 0 .. n]

\* The variables keep their types; every episode number is one that has begun.
AlertTypeOK ==
    /\ rule \in {"trap", "metric"} /\ cond \in BOOLEAN /\ ep \in Nat
    /\ note \in 0 .. ep /\ pager \in 0 .. ep
    /\ eng \in [Replicas -> Engines(ep) \cup {None}]
    /\ stage \in [Replicas -> {"idle", "send", "persist", "resolved", "trapped", "cleanup"}]
    /\ at \in [Replicas -> 0 .. ep]
    /\ hooks \in [Replicas -> SUBSET (0 .. ep)]
    /\ leader \in Replicas \cup {None} /\ active \subseteq Replicas /\ term \in Nat
    /\ \A es \in {sent, again, quiet, upset, orphans} : es \subseteq 0 .. ep

\* The row of an engine is spent when it fires and its last-notified time is
\* cleared when it resolves.  A pass that notifies does so for what its engine
\* notes as told, and a deposed replica's notification is an overlap.
EnginesSane ==
    \A r \in Replicas :
        /\ eng[r] # None => IF eng[r].firing THEN eng[r].row = 0 ELSE eng[r].told = 0
        /\ stage[r] \in {"send", "persist"} =>
              /\ eng[r] \in Engines(ep) /\ eng[r].firing
              /\ eng[r].told = at[r] /\ at[r] # 0
              /\ r = leader \/ at[r] \in upset

\* While the condition holds, all that waits to erase the row is of an earlier
\* episode, and no leader has seen this episode end.
EpisodesOrdered ==
    cond => /\ ep # 0 /\ ep \notin quiet
            /\ \A r \in Replicas : /\ ep \notin hooks[r]
                                   /\ stage[r] \in {"trapped", "cleanup"} => at[r] # ep

\* An undisturbed episode that was notified is known to whoever leads, or will
\* be restored by it.
NotifiedIsKnown ==
    cond /\ ep \in sent \ upset =>
        /\ leader \in Replicas
        /\ \/ stage[leader] = "persist" /\ at[leader] = ep
           \/ /\ stage[leader] = "idle" /\ note = ep
              /\ eng[leader] = None \/ eng[leader].told # 0 \/ eng[leader].row # 0

OnceInv ==
    /\ AlertTypeOK /\ EnginesSane /\ EpisodesOrdered /\ NotifiedIsKnown
    /\ \A r \in Replicas : r = leader /\ stage[r] = "send" => at[r] \notin sent \ upset
    /\ PagedOnce

\* An undisturbed episode of which a leader has seen the end.
SeenOver(e) == e \notin {0} \cup upset \cup orphans /\ quiet \cap e .. ep # {}

\* The engine of r holds no state of such an episode, and it knows the episode
\* of the row unless the row is about to be erased.
EngineClean(r) ==
    eng[r] # None =>
        /\ ~SeenOver(eng[r].told) /\ ~SeenOver(eng[r].row)
        /\ note \in {0, eng[r].told, eng[r].row} \cup upset \cup orphans \/ ErasePending

CleanInv ==
    /\ AlertTypeOK /\ EnginesSane /\ EpisodesOrdered
    /\ SeenOver(note) => ErasePending
    /\ \A r \in Replicas : r = leader => EngineClean(r)
=============================================================================
