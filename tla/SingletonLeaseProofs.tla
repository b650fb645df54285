------------------------ MODULE SingletonLeaseProofs ------------------------
(***************************************************************************)
(* The lease, and a task that runs under it.  LeaseInv is inductive for    *)
(* every set of replicas and tasks, and the lease implements FencedTerms.  *)
(* In the alert evaluator the state of an ended episode never mutes the    *)
(* next one, for any set of replicas and any number of episodes and terms. *)
(***************************************************************************)
EXTENDS SingletonLease, AlertFailoverProofs

-----------------------------------------------------------------------------
(* The lease. *)

\* Nothing is held, running or written in the initial state.
LEMMA InitEstablishes == Init => LeaseInv
  BY LeaseConstants DEF Init, LeaseInv, TypeOK, IdleIsClean, OpenTxIsCurrent,
     LiveSessionOwnsTerm, RowMatches, TokensAreDistinct, ReleasedTermIsQuiet

\* The UPDATE of a release changes released_at and nothing else of the row, and
\* finds no guarded transaction open.
LEMMA MarkedRow ==
  ASSUME NEW n \in Nodes,
         row \in [epoch : Nat, holder : Nodes \cup {NoNode}, released : BOOLEAN],
         MarkReleased(n), RowMatches(n)
  PROVE  /\ row'.epoch = row.epoch /\ row'.holder = row.holder /\ row'.released
         /\ row' \in [epoch : Nat, holder : Nodes \cup {NoNode}, released : BOOLEAN]
         /\ row.epoch = token[n] /\ ~row.released
         /\ \A m \in Nodes, t \in Tasks : tx[m][t] = 0
<1>1. row' = [row EXCEPT !.released = TRUE]
  BY DEF MarkReleased
<1>2. /\ row'.epoch = row.epoch /\ row'.holder = row.holder /\ row'.released
      /\ row' \in [epoch : Nat, holder : Nodes \cup {NoNode}, released : BOOLEAN]
  BY <1>1, Zenon
<1>3. \A m \in Nodes, t \in Tasks : tx[m][t] = 0
  BY DEF MarkReleased, RowShared
<1> QED
  BY <1>2, <1>3 DEF RowMatches

\* Every operation of a replica, and everything that can happen to it, keeps
\* the lease invariant.
LEMMA StepPreserves == LeaseInv /\ [Next]_vars => LeaseInv'
<1> SUFFICES ASSUME LeaseInv, [Next]_vars PROVE LeaseInv'
  OBVIOUS
<1> USE LeaseConstants DEF LeaseInv, TypeOK, IdleIsClean, OpenTxIsCurrent,
        LiveSessionOwnsTerm, RowMatches, TokensAreDistinct, ReleasedTermIsQuiet
<1>1. ASSUME NEW n \in Nodes, TryLock(n) PROVE LeaseInv'
  BY <1>1 DEF TryLock
<1>2. ASSUME NEW n \in Nodes, TryLockFails(n) PROVE LeaseInv'
  BY <1>2 DEF TryLockFails, Fault
<1>3. ASSUME NEW n \in Nodes, AdvanceEpoch(n) PROVE LeaseInv'
  BY <1>3 DEF AdvanceEpoch, NextTerm, RowShared
<1>4. ASSUME NEW n \in Nodes, AdvanceEpochFails(n) PROVE LeaseInv'
  <2> USE DEF AdvanceEpochFails, Fault
  <2>1. /\ session[n] = "none" /\ \A m \in Nodes \ {n} : lock = n => session[m] # "live"
        /\ faults' \in Nat /\ lock' \in Nodes \cup {NoNode}
    BY <1>4
  <2>2. CASE lock = n /\ NextTerm(n)
    BY <1>4, <2>1, <2>2 DEF NextTerm, RowShared
  <2>3. CASE UNCHANGED row
    BY <1>4, <2>1, <2>3
  <2> QED
    BY <1>4, <2>2, <2>3
<1>5. ASSUME NEW n \in Nodes, RenewFails(n) PROVE LeaseInv'
  BY <1>5 DEF RenewFails, Fault
<1>6. ASSUME NEW n \in Nodes, Shutdown(n) PROVE LeaseInv'
  BY <1>6 DEF Shutdown
<1>7. ASSUME NEW n \in Nodes, Release(n) PROVE LeaseInv'
  <2> USE DEF Release, EndTerm
  <2>1. /\ token[n] = row.epoch => \A m \in Nodes \ {n} : token[m] # row.epoch \/ row.epoch = 0
        /\ session[n] = "live" => \A m \in Nodes \ {n} : session[m] # "live"
        /\ running[n] = {}
    BY <1>7
  <2>2. CASE MarkReleased(n) /\ RowMatches(n)
    <3>1. /\ row'.epoch = row.epoch /\ row'.holder = row.holder /\ row'.released
          /\ row' \in [epoch : Nat, holder : Nodes \cup {NoNode}, released : BOOLEAN]
          /\ row.epoch = token[n] /\ ~row.released
          /\ \A m \in Nodes, t \in Tasks : tx[m][t] = 0
      <4> HIDE DEF RowMatches
      <4> QED BY <2>2, MarkedRow DEF LeaseInv, TypeOK
    <3>2. TypeOK' /\ IdleIsClean' /\ OpenTxIsCurrent' /\ TokensAreDistinct'
      BY <1>7, <2>1, <3>1
    <3>3. LiveSessionOwnsTerm'
      BY <1>7, <2>1, <3>1
    <3>4. ReleasedTermIsQuiet'
      BY <1>7, <2>1, <3>1
    <3> QED
      BY <3>2, <3>3, <3>4
  <2>3. CASE UNCHANGED row
    BY <1>7, <2>1, <2>3
  <2> QED
    BY <1>7, <2>2, <2>3 DEF MarkReleased
<1>8. ASSUME NEW n \in Nodes, ReleaseFails(n) PROVE LeaseInv'
  <2> USE DEF ReleaseFails, Fault, EndTerm
  <2>1. /\ token[n] = row.epoch => \A m \in Nodes \ {n} : token[m] # row.epoch \/ row.epoch = 0
        /\ session[n] = "live" => \A m \in Nodes \ {n} : session[m] # "live"
        /\ running[n] = {}
    BY <1>8
  <2>2. CASE MarkReleased(n) /\ RowMatches(n)
    <3>1. /\ row'.epoch = row.epoch /\ row'.holder = row.holder /\ row'.released
          /\ row' \in [epoch : Nat, holder : Nodes \cup {NoNode}, released : BOOLEAN]
          /\ row.epoch = token[n] /\ ~row.released
          /\ \A m \in Nodes, t \in Tasks : tx[m][t] = 0
      <4> HIDE DEF RowMatches
      <4> QED BY <2>2, MarkedRow DEF LeaseInv, TypeOK
    <3>2. TypeOK' /\ IdleIsClean' /\ OpenTxIsCurrent' /\ TokensAreDistinct'
      BY <1>8, <2>1, <3>1
    <3>3. LiveSessionOwnsTerm'
      BY <1>8, <2>1, <3>1
    <3>4. ReleasedTermIsQuiet'
      BY <1>8, <2>1, <3>1
    <3> QED
      BY <3>2, <3>3, <3>4
  <2>3. CASE UNCHANGED row
    BY <1>8, <2>1, <2>3
  <2> QED
    BY <1>8, <2>2, <2>3 DEF MarkReleased
<1>9. ASSUME NEW n \in Nodes, SessionDies(n) PROVE LeaseInv'
  BY <1>9 DEF SessionDies, Fault
<1>10. ASSUME NEW n \in Nodes, Crash(n) PROVE LeaseInv'
  BY <1>10 DEF Crash, Fault
<1>11. ASSUME NEW n \in Nodes, Restart(n) PROVE LeaseInv'
  BY <1>11 DEF Restart
<1>12. ASSUME NEW n \in Nodes, NEW t \in Tasks, BeginGuarded(n, t) PROVE LeaseInv'
  BY <1>12 DEF BeginGuarded
<1>13. ASSUME NEW n \in Nodes, NEW t \in Tasks, Commit(n, t) PROVE LeaseInv'
  BY <1>13 DEF Commit
<1>14. ASSUME NEW n \in Nodes, NEW t \in Tasks, Rollback(n, t) PROVE LeaseInv'
  BY <1>14 DEF Rollback
<1>15. ASSUME NEW n \in Nodes, NEW t \in Tasks, UnguardedWrite(n, t) PROVE LeaseInv'
  BY <1>15 DEF UnguardedWrite
<1>16. ASSUME NEW n \in Nodes, NEW t \in Tasks, TaskReturns(n, t) PROVE LeaseInv'
  BY <1>16 DEF TaskReturns
<1>17. CASE UNCHANGED vars
  BY <1>17 DEF vars
<1> QED
  BY <1>1, <1>2, <1>3, <1>4, <1>5, <1>6, <1>7, <1>8, <1>9, <1>10, <1>11, <1>12,
     <1>13, <1>14, <1>15, <1>16, <1>17, ZenonT(30)
     DEF Next, StandBy, GuardFences, Renew

\* The lease invariant holds in every reachable state: types, the fence on open
\* transactions, the exclusive live session, the unique tokens and the quiet
\* handover.
THEOREM LeaseInvHolds == Spec => []LeaseInv
  BY InitEstablishes, StepPreserves, PTL DEF Spec

\* No replica ever has an open guarded transaction of a superseded or released
\* term, so a demoted leader cannot commit one (pglease.Guard).
THEOREM FencedTransactions == Spec => []OpenTxIsCurrent
<1>1. LeaseInv => OpenTxIsCurrent
  BY DEF LeaseInv
<1> QED
  BY <1>1, LeaseInvHolds, PTL

\* At most one replica has a live lease session, and it owns the row.
THEOREM ExclusiveLiveSession == Spec => []LiveSessionOwnsTerm
<1>1. LeaseInv => LiveSessionOwnsTerm
  BY DEF LeaseInv
<1> QED
  BY <1>1, LeaseInvHolds, PTL

\* released_at is only ever set for a term whose tasks have all returned.
THEOREM QuietHandover == Spec => []ReleasedTermIsQuiet
<1>1. LeaseInv => ReleasedTermIsQuiet
  BY DEF LeaseInv
<1> QED
  BY <1>1, LeaseInvHolds, PTL

\* The initial state maps to the initial state of the abstract terms.
LEMMA InitRefines == Init => Terms!AbsInit
  BY LeaseConstants DEF Init, Terms!AbsInit

\* Promotion is the epoch upsert, Close the released_at update, Write the commit
\* of a guarded transaction; every other step changes nothing the tables see.
LEMMA StepRefines == LeaseInv /\ [Next]_vars => [Terms!AbsNext]_(Terms!absVars)
<1> SUFFICES ASSUME LeaseInv, [Next]_vars
             PROVE  Terms!AbsNext \/ UNCHANGED Terms!absVars
  OBVIOUS
<1> USE LeaseConstants DEF Terms!absVars
<1>1. ASSUME NEW n \in Nodes, NextTerm(n), UNCHANGED table PROVE Terms!AbsNext
  BY <1>1 DEF NextTerm, Terms!AbsNext, Terms!Promote, LeaseInv, TypeOK
<1>2. ASSUME NEW n \in Nodes, MarkReleased(n), UNCHANGED table
      PROVE  Terms!AbsNext \/ UNCHANGED Terms!absVars
  BY <1>2 DEF MarkReleased, RowMatches, Terms!AbsNext, Terms!Close, LeaseInv, TypeOK
<1>3. ASSUME NEW n \in Nodes, NEW t \in Tasks, Commit(n, t)
      PROVE  Terms!AbsNext \/ UNCHANGED Terms!absVars
  <2>1. CASE t \in Guarded
    <3>1. Terms!Write(t)
      BY <1>3, <2>1, ZenonT(30) DEF Commit, Terms!Write, LeaseInv, TypeOK, OpenTxIsCurrent
    <3> QED
      BY <2>1, <3>1 DEF Terms!AbsNext
  <2>2. CASE t \notin Guarded
    BY <1>3, <2>2 DEF Commit, LeaseInv, TypeOK
  <2> QED
    BY <2>1, <2>2
<1>4. ASSUME NEW n \in Nodes, NEW t \in Tasks, UnguardedWrite(n, t)
      PROVE  UNCHANGED Terms!absVars
  BY <1>4 DEF UnguardedWrite, LeaseInv, TypeOK
<1>5. CASE UNCHANGED <<row, table>>
  BY <1>5
<1> QED
  BY <1>1, <1>2, <1>3, <1>4, <1>5, ZenonT(30)
     DEF Next, vars, StandBy, TryLock, TryLockFails, AdvanceEpoch, AdvanceEpochFails,
         Renew, RenewFails, Shutdown, Release, ReleaseFails, EndTerm, SessionDies,
         Crash, Restart, BeginGuarded, GuardFences, Rollback, TaskReturns

\* The lease implements FencedTerms: the guarded tables are written only by the
\* newest term, while it is open, whatever crashes and sessions lost.
THEOREM LeaseImplementsFencedTerms == Spec => ImplementsFencedTerms
  BY InitRefines, StepRefines, LeaseInvHolds, PTL
     DEF Spec, ImplementsFencedTerms, Terms!AbsSpec

\* A write is of the newest term, so it is of no earlier term than any before it.
LEMMA TermsInOrder ==
  ASSUME Terms!WrittenByPastTerms, [Terms!AbsNext]_(Terms!absVars)
  PROVE  Terms!WrittenByPastTerms' /\ Terms!KeepsLaterWrites
<1> USE DEF Terms!WrittenByPastTerms, Terms!KeepsLaterWrites
<1>1. ASSUME NEW n \in Nodes, Terms!Promote(n)
      PROVE  Terms!WrittenByPastTerms' /\ Terms!KeepsLaterWrites
  BY <1>1 DEF Terms!Promote
<1>2. CASE Terms!Close
  BY <1>2 DEF Terms!Close
<1>3. ASSUME NEW t \in Guarded, Terms!Write(t)
      PROVE  Terms!WrittenByPastTerms' /\ Terms!KeepsLaterWrites
  <2> DEFINE seen == [u \in Guarded |-> table[u]]
  <2>1. seen' = [seen EXCEPT ![t] = row.epoch] /\ row'.epoch = row.epoch
    BY <1>3, Zenon DEF Terms!Write
  <2>2. row.epoch \in Nat /\ \A u \in Guarded : seen[u] \in 0 .. row.epoch
    BY Zenon
  <2>3. DOMAIN seen = Guarded
    BY Zenon
  <2>4. \A u \in Guarded : seen'[u] \in 0 .. row.epoch /\ seen[u] <= seen'[u]
    <3> HIDE DEF seen
    <3> QED
      BY <2>1, <2>2, <2>3
  <2> QED
    BY <2>1, <2>2, <2>4, Zenon
<1>4. CASE UNCHANGED Terms!absVars
  BY <1>4 DEF Terms!absVars
<1> QED
  BY <1>1, <1>2, <1>3, <1>4 DEF Terms!AbsNext

\* What the fence is for: whatever crashes, sessions lost and tasks still at work,
\* no guarded write commits on top of the write of a later leadership term.
THEOREM GuardedWritesInTermOrder == Spec => Terms!WritesInTermOrder
<1>1. Terms!AbsInit => Terms!WrittenByPastTerms
  BY DEF Terms!AbsInit, Terms!WrittenByPastTerms
<1>2. Terms!WrittenByPastTerms /\ [Terms!AbsNext]_(Terms!absVars)
      => Terms!WrittenByPastTerms' /\ [Terms!KeepsLaterWrites]_(Terms!absVars)
  BY TermsInOrder
<1> QED
  BY <1>1, <1>2, LeaseImplementsFencedTerms, PTL
     DEF ImplementsFencedTerms, Terms!AbsSpec, Terms!WritesInTermOrder

-----------------------------------------------------------------------------
(* The episodes of the alert evaluator. *)

\* Outside an evaluation of a good sample, no more episodes are seen over.
LEMMA OverKept ==
    ASSUME AlertTypeOK, [AlertNext]_alertVars, quiet' = quiet
    PROVE  \A e : e \notin {0} \cup upset' \cup orphans' /\ quiet' \cap e .. ep' # {} => SeenOver(e)
<1>0. upset \subseteq upset' /\ orphans \subseteq orphans'
  BY ExceptionsGrow
<1>1. quiet \subseteq 0 .. ep /\ ep \in Nat
  BY DEF AlertTypeOK
<1>2. ep' \in {ep, ep + 1}
  BY ZenonT(30) DEF AlertNext, alertVars, world, Breach, Recover, Elect, Cancel, ProcessEnds, Build, EvalBreached,
         EvalResolved, EvalNormal, EvalNoData, Deliver, Persist, ResolveHook, Cleanup
<1>3. \A e : quiet \cap e .. ep' \subseteq quiet \cap e .. ep
  BY <1>1, <1>2
<1> QED
  BY <1>0, <1>3 DEF SeenOver

\* A step that leaves the row and an engine alone keeps them clean, if it leaves
\* what was pending, or disturbs the episode of the row.
LEMMA Carried ==
    ASSUME CleanInv, [AlertNext]_alertVars, quiet' = quiet, note' = note,
           ErasePending => ErasePending' \/ note \in {0} \cup upset' \cup orphans'
    PROVE  /\ (SeenOver(note) => ErasePending)'
           /\ \A r \in Replicas : EngineClean(r) /\ eng'[r] = eng[r] => EngineClean(r)'
<1>0. /\ upset \subseteq upset' /\ orphans \subseteq orphans'
      /\ \A e : e \notin {0} \cup upset' \cup orphans' /\ quiet' \cap e .. ep' # {} => SeenOver(e)
  BY ExceptionsGrow, OverKept DEF CleanInv
<1>1. (SeenOver(note) => ErasePending)'
  BY <1>0 DEF CleanInv, SeenOver
<1>2. ASSUME NEW r \in Replicas, EngineClean(r), eng'[r] = eng[r]
      PROVE  EngineClean(r)'
  BY <1>0, <1>2 DEF EngineClean, SeenOver
<1> QED
  BY <1>1, <1>2

\* A resolve just decided is pending.
LEMMA NowPending ==
    ASSUME AlertTypeOK', NEW r \in Replicas, ep' >= note',
           ep' \in hooks'[r] \/ (stage'[r] = "trapped" /\ at'[r] = ep')
    PROVE  ErasePending'
BY DEF ErasePending

\* The steps that evaluate a good sample.
LEMMA CleanGood ==
    ASSUME AlertAssumption, CleanInv, [AlertNext]_alertVars, AlertTypeOK', NEW r \in Replicas,
           EvalResolved(r) \/ EvalNormal(r) \/ EvalNoData(r)
    PROVE  /\ (SeenOver(note) => ErasePending)'
           /\ \A s \in Replicas : s = leader' => EngineClean(s)'
<1> USE DEF world, pass, lease, past
<1>0. /\ upset \subseteq upset' /\ orphans \subseteq orphans' /\ AlertTypeOK /\ EnginesSane
      /\ UNCHANGED <<ep, note, leader>> /\ eng[r] # None /\ stage[r] = "idle"
  BY ExceptionsGrow DEF CleanInv, EvalResolved, EvalNormal, EvalNoData, Evaluating
<1>1. \A s \in Replicas \ {r} : eng'[s] = eng[s]
  BY <1>0 DEF EvalResolved, EvalNormal, EvalNoData, ResolveRestoredTrap, AlertTypeOK
<1>2. ep' >= note'
  BY DEF AlertTypeOK
<1>3. ASSUME ErasePending', eng'[r].told = 0, eng'[r].row = 0
      PROVE  \A s \in Replicas : s = leader' => EngineClean(s)'
  <2>1. CASE r = leader
    BY <1>0, <1>3, <2>1 DEF EngineClean, SeenOver
  <2>2. CASE r # leader
    <3>1. quiet' = quiet
      BY <2>2 DEF EvalResolved, EvalNormal, EvalNoData
    <3> QED
      BY <1>0, <1>1, <1>3, <2>2, <3>1, Carried DEF CleanInv
  <2> QED
    BY <2>1, <2>2
<1>4. CASE EvalResolved(r)
  <2>1. eng'[r] = Engine(eng[r].row) /\ ep' \in hooks'[r] /\ eng[r].firing
    BY <1>0, <1>4 DEF EvalResolved, AlertTypeOK
  <2>2. eng'[r].told = 0 /\ eng'[r].row = 0
    BY <1>0, <2>1 DEF EnginesSane, Engine
  <2>3. ErasePending'
    BY <1>2, <2>1, NowPending, ZenonT(30)
  <2> QED
    BY <1>3, <2>2, <2>3
<1>5. CASE (EvalNormal(r) \/ EvalNoData(r)) /\ ResolveRestoredTrap(r)
  <2>1. eng'[r] = Engine(0) /\ stage'[r] = "trapped" /\ at'[r] = ep'
    BY <1>0, <1>5 DEF ResolveRestoredTrap, Goto, AlertTypeOK
  <2>2. eng'[r].told = 0 /\ eng'[r].row = 0
    BY <2>1 DEF Engine
  <2>3. ErasePending'
    BY <1>2, <2>1, NowPending
  <2> QED
    BY <1>3, <2>2, <2>3
<1>6. CASE EvalNormal(r) /\ ~ ResolveRestoredTrap(r)
  <2>1. /\ eng' = [eng EXCEPT ![r].count = 0] /\ orphans' = orphans \cup ({eng[r].row} \ {0})
        /\ UNCHANGED <<stage, at, hooks, upset>> /\ ~ eng[r].firing
    BY <1>6 DEF EvalNormal
  <2>2. eng[r] \in Engines(ep) /\ eng'[r] = [eng[r] EXCEPT !.count = 0]
    BY <1>0, <2>1 DEF AlertTypeOK
  <2>3. eng'[r].told = 0 /\ eng'[r].row = eng[r].row /\ eng'[r].row \in {0} \cup orphans' /\ eng[r].told = 0
    BY <1>0, <2>1, <2>2 DEF Engines, EnginesSane
  <2>4. ErasePending' = ErasePending
    BY <1>0, <2>1 DEF ErasePending
  <2>5. CASE r = leader
    <3>1. ErasePending' \/ note' \in {0} \cup upset' \cup orphans'
      BY <1>0, <2>1, <2>3, <2>4, <2>5 DEF CleanInv, EngineClean
    <3>2. ~SeenOver(eng[r].told)' /\ ~SeenOver(eng[r].row)'
      BY <2>3 DEF SeenOver
    <3>3. EngineClean(r)'
      BY <3>1, <3>2 DEF EngineClean
    <3>4. (SeenOver(note) => ErasePending)'
      BY <3>1 DEF SeenOver
    <3> QED
      BY <1>0, <2>5, <3>3, <3>4
  <2>6. CASE r # leader
    <3>1. quiet' = quiet
      BY <1>6, <2>6 DEF EvalNormal
    <3> QED
      BY <1>0, <1>1, <2>4, <2>6, <3>1, Carried DEF CleanInv
  <2> QED
    BY <2>5, <2>6
<1> QED
  BY <1>4, <1>5, <1>6, Zenon DEF EvalNoData

\* Every step keeps the state of an ended episode out of the leader's engine.
LEMMA CleanStep ==
    ASSUME AlertAssumption, CleanInv, [AlertNext]_alertVars, AlertTypeOK'
    PROVE  /\ (SeenOver(note) => ErasePending)'
           /\ \A s \in Replicas : s = leader' => EngineClean(s)'
<1> USE DEF world, pass, lease, past
<1> DEFINE Goal == /\ (SeenOver(note) => ErasePending)'
                   /\ \A s \in Replicas : s = leader' => EngineClean(s)'
           Excused(e) == e \in {0} \cup upset' \cup orphans'
<1>0. /\ upset \subseteq upset' /\ orphans \subseteq orphans' /\ AlertTypeOK /\ EnginesSane
      /\ EpisodesOrdered /\ ep \in Nat
      /\ \A s \in Replicas : s = leader => EngineClean(s)
  BY ExceptionsGrow DEF CleanInv, AlertTypeOK
<1>1. CASE UNCHANGED alertVars \/ Breach \/ Recover \/ \E r \in Replicas : Cancel(r)
  <2>1. UNCHANGED <<note, quiet, eng, stage, at, hooks, leader>>
    BY <1>1 DEF alertVars, Breach, Recover, Cancel
  <2>2. ErasePending' = ErasePending
    BY <2>1 DEF ErasePending
  <2> QED
    BY <1>0, <2>1, <2>2, Carried
<1>2. ASSUME NEW r \in Replicas, Elect(r) PROVE Goal
  <2>1. UNCHANGED <<note, quiet, eng, stage, at, hooks>> /\ leader' = r
    BY <1>2, Zenon DEF Elect
  <2>2. ErasePending' = ErasePending
    BY <2>1 DEF ErasePending
  <2>3. eng[r] # None => {eng[r].told, eng[r].row, note} \subseteq {0} \cup upset'
    BY <1>2 DEF Elect, Rejoined
  <2>4. EngineClean(r)'
    BY <2>1, <2>3 DEF EngineClean, SeenOver
  <2> QED
    BY <2>1, <2>2, <2>4, Carried
<1>3. ASSUME NEW r \in Replicas, ProcessEnds(r) PROVE Goal
  <2>1. /\ UNCHANGED <<note, quiet, leader>> /\ eng'[r] = None
        /\ \A s \in Replicas \ {r} : /\ eng'[s] = eng[s] /\ hooks'[s] = hooks[s]
                                     /\ stage'[s] = stage[s] /\ at'[s] = at[s]
    BY <1>0, <1>3 DEF ProcessEnds, Goto, AlertTypeOK
  <2>2. hooks[r] # {} \/ stage[r] \in {"trapped", "cleanup"} => note \in {0} \cup upset'
    BY <1>3, ZenonT(30) DEF ProcessEnds
  <2>3. ErasePending => ErasePending' \/ note \in {0} \cup upset' \cup orphans'
    BY <2>1, <2>2, ZenonT(30) DEF ErasePending
  <2>4. EngineClean(r)'
    BY <2>1 DEF EngineClean
  <2> QED
    BY <1>0, <2>1, <2>3, <2>4, Carried
<1>4. ASSUME NEW r \in Replicas, Build(r) PROVE Goal
  <2>1. /\ UNCHANGED <<note, quiet, leader, stage, at, hooks, orphans>>
        /\ \A s \in Replicas \ {r} : eng'[s] = eng[s]
    BY <1>0, <1>4 DEF Build, AlertTypeOK
  <2>2. ErasePending' = ErasePending
    BY <2>1 DEF ErasePending
  <2>3. /\ (SeenOver(note) => ErasePending)'
        /\ \A s \in Replicas \ {r} : s = leader' => EngineClean(s)'
    BY <1>0, <2>1, <2>2, Carried
  <2>4. \/ eng'[r] = Engine(note) /\ (ErasePending => note \in {0} \cup upset')
        \/ eng'[r] = Engine(0) /\ note \in {0} \cup upset'
    BY <1>0, <1>4 DEF Build, AlertTypeOK
  <2>5. ~SeenOver(0)'
    BY DEF SeenOver
  <2>6. CASE eng'[r] = Engine(note) /\ (ErasePending => note \in {0} \cup upset')
    <3>1. eng'[r].told = 0 /\ eng'[r].row = note'
      BY <2>1, <2>6 DEF Engine
    <3>2. ~SeenOver(note)'
      BY <2>1, <2>2, <2>3, <2>6 DEF SeenOver
    <3>3. EngineClean(r)'
      BY <2>5, <3>1, <3>2 DEF EngineClean, SeenOver
    <3> QED
      BY <2>3, <3>3
  <2>7. CASE eng'[r] = Engine(0) /\ note \in {0} \cup upset'
    <3>1. eng'[r].told = 0 /\ eng'[r].row = 0
      BY <2>7 DEF Engine
    <3>2. EngineClean(r)'
      BY <2>1, <2>5, <2>7, <3>1 DEF EngineClean, SeenOver
    <3> QED
      BY <2>3, <3>2
  <2> QED
    BY <2>4, <2>6, <2>7
<1>5. ASSUME NEW r \in Replicas, EvalBreached(r) PROVE Goal
  <2>1. UNCHANGED <<ep, note, quiet, leader, hooks>> /\ \A s \in Replicas \ {r} : eng'[s] = eng[s]
    BY <1>0, <1>5, BreachedEngine DEF EvalBreached
  <2>2. /\ stage[r] = "idle" /\ eng[r] # None /\ cond
        /\ \/ /\ UNCHANGED pass
              /\ eng'[r].told \in {eng[r].told, eng[r].row} /\ eng'[r].row \in {0, eng[r].row}
              /\ {eng[r].told, eng[r].row} \subseteq {0, eng'[r].told, eng'[r].row}
           \/ /\ Goto(r, "send", ep) /\ eng[r].told = 0 /\ eng[r].row = 0
              /\ eng'[r].told = ep /\ eng'[r].row = 0
    BY <1>0, <1>5, BreachedEngine, ZenonT(30)
  <2>3. ErasePending => ErasePending'
    BY <1>0, <2>1, <2>2, ZenonT(30) DEF ErasePending, Goto, AlertTypeOK
  <2>4. /\ (SeenOver(note) => ErasePending)'
        /\ \A s \in Replicas \ {r} : s = leader' => EngineClean(s)'
    BY <1>0, <2>1, <2>3, Carried, ZenonT(30)
  <2>5. \A e : e \notin {0} \cup upset' \cup orphans' /\ quiet' \cap e .. ep' # {} => SeenOver(e)
    BY <1>0, <2>1, OverKept
  <2>6. ~SeenOver(ep)
    <3>1. quiet \cap ep .. ep = {}
      BY <1>0, <2>2 DEF EpisodesOrdered
    <3> QED
      BY <3>1 DEF SeenOver
  <2>7. CASE r = leader
    <3>1. ~SeenOver(eng[r].told) /\ ~SeenOver(eng[r].row) /\ ~SeenOver(0)
          /\ (note \in {0, eng[r].told, eng[r].row} \cup upset \cup orphans \/ ErasePending)
      BY <1>0, <2>2, <2>7 DEF EngineClean, SeenOver
    <3>2. ~SeenOver(eng'[r].told) /\ ~SeenOver(eng'[r].row)
      BY <2>2, <2>6, <3>1
    <3>3. ~SeenOver(eng[r].told)' /\ ~SeenOver(eng[r].row)'
      BY <2>5, <3>2 DEF SeenOver
    <3>4. note' \in {0, eng'[r].told, eng'[r].row} \cup upset' \cup orphans' \/ ErasePending'
      BY <1>0, <2>1, <2>2, <2>3, <3>1
    <3>5. EngineClean(r)'
      BY <3>3, <3>4 DEF EngineClean
    <3> QED
      BY <2>4, <3>5
  <2> QED
    BY <2>1, <2>4, <2>7
<1>6. ASSUME NEW r \in Replicas, Deliver(r) PROVE Goal
  <2>1. UNCHANGED <<note, quiet, leader, hooks, eng>>
    BY <1>6, ZenonT(30) DEF Deliver
  <2>2. /\ stage[r] \in {"trapped", "cleanup"} => stage'[r] \in {"trapped", "cleanup"} /\ at'[r] = at[r]
        /\ \A s \in Replicas \ {r} : stage'[s] = stage[s] /\ at'[s] = at[s]
    BY <1>0, <1>6, ZenonT(30) DEF Deliver, Goto, AlertTypeOK
  <2>3. ErasePending => ErasePending'
    BY <2>1, <2>2 DEF ErasePending
  <2> QED
    BY <1>0, <2>1, <2>3, Carried
<1>7. ASSUME NEW r \in Replicas, Persist(r) PROVE Goal
  <2>1. UNCHANGED <<quiet, leader, hooks, eng>> /\ stage[r] = "persist"
    BY <1>7, Zenon DEF Persist
  <2>2. CASE note' = note
    <3>1. \A s \in Replicas \ {r} : stage'[s] = stage[s] /\ at'[s] = at[s]
      BY <1>0, <1>7 DEF Persist, Goto, AlertTypeOK
    <3>2. ErasePending => ErasePending'
      BY <2>1, <2>2, <3>1 DEF ErasePending
    <3> QED
      BY <1>0, <2>1, <2>2, <3>2, Carried
  <2>3. CASE note' = at[r]
    <3>0. eng[r] \in Engines(ep) /\ eng[r].told = at[r] /\ (r = leader \/ at[r] \in upset)
      BY <1>0, <2>1 DEF EnginesSane
    <3>1. /\ \A e : e \notin {0} \cup upset' \cup orphans' /\ quiet' \cap e .. ep' # {} => SeenOver(e)
          /\ eng[r] # None /\ eng[r].told = at[r] /\ (r = leader \/ at[r] \in upset)
      <4>1. eng[r] # None
        BY <1>0, <3>0, NoneIsNoEngine
      <4> QED
        BY <1>0, <2>1, <3>0, <4>1, OverKept
    <3>2. ASSUME NEW s \in Replicas, s = leader PROVE EngineClean(s)'
      <4>1. eng[s] # None => ~SeenOver(eng[s].told) /\ ~SeenOver(eng[s].row)
        BY <1>0, <3>2 DEF EngineClean
      <4>2. note' \in {eng[s].told} \cup upset'
        BY <1>0, <2>3, <3>1, <3>2
      <4> QED
        BY <2>1, <3>1, <4>1, <4>2 DEF EngineClean, SeenOver
    <3>3. ~SeenOver(note)'
      <4>1. CASE r = leader
        <5>1. ~SeenOver(at[r])
          BY <1>0, <3>1, <4>1 DEF EngineClean
        <5> QED
          BY <2>3, <3>1, <5>1 DEF SeenOver
      <4>2. CASE at[r] \in upset
        BY <1>0, <2>3, <4>2 DEF SeenOver
      <4> QED
        BY <3>1, <4>1, <4>2
    <3> QED
      BY <2>1, <3>2, <3>3, ZenonT(30)
  <2> QED
    BY <1>7, <2>2, <2>3, ZenonT(30) DEF Persist
<1>8. ASSUME NEW r \in Replicas, ResolveHook(r) \/ Cleanup(r) PROVE Goal
  <2>1. UNCHANGED <<quiet, leader, eng>> /\ Excused(note')
    BY <1>8 DEF ResolveHook, Cleanup, Erase
  <2>2. \A e : e \notin {0} \cup upset' \cup orphans' /\ quiet' \cap e .. ep' # {} => SeenOver(e)
    BY <1>0, <2>1, OverKept
  <2>3. ASSUME NEW s \in Replicas, s = leader PROVE EngineClean(s)'
    BY <1>0, <2>1, <2>2, <2>3 DEF EngineClean, SeenOver
  <2> QED
    BY <2>1, <2>3 DEF SeenOver
<1>9. CASE \E r \in Replicas : EvalResolved(r) \/ EvalNormal(r) \/ EvalNoData(r)
  BY <1>9, CleanGood
<1> QED
  BY <1>1, <1>2, <1>3, <1>4, <1>5, <1>6, <1>7, <1>8, <1>9 DEF AlertNext

\* The leader's engine holds no state of an episode it has seen end.
THEOREM CleanInvariant == AlertSpec => []CleanInv
<1>1. AlertInit => CleanInv
  BY AlertAssumption, AlertStarts, ZenonT(30) DEF AlertInit, CleanInv, SeenOver, AlertAssumption
<1>2. CleanInv /\ [AlertNext]_alertVars => CleanInv'
  <2> SUFFICES ASSUME CleanInv, [AlertNext]_alertVars PROVE CleanInv'
    OBVIOUS
  <2>1. AlertTypeOK /\ EnginesSane /\ EpisodesOrdered
    BY DEF CleanInv
  <2>2. AlertTypeOK' /\ EnginesSane' /\ EpisodesOrdered'
    BY <2>1, AlertAssumption, AlertTypeStep, SaneStep, OrderedStep
  <2> QED
    BY <2>2, AlertAssumption, CleanStep DEF CleanInv
<1> QED
  BY <1>1, <1>2, PTL DEF AlertSpec

\* The last-notified time of an ended episode never mutes the next one.
THEOREM NextIsHeard == AlertSpec => []StartsClean
<1>1. CleanInv => StartsClean
  <2> SUFFICES ASSUME CleanInv, NEW r \in {leader} \cap Replicas, NEW e \in 1 .. ep - 1, Outlived(r, e)
               PROVE  e \in upset \cup orphans
    BY DEF StartsClean
  <2>1. eng[r] # None /\ eng[r].told = e /\ quiet \cap e .. ep - 1 # {} /\ ep \in Nat
    BY DEF Outlived, CleanInv, AlertTypeOK
  <2>2. quiet \cap e .. ep # {} /\ e # 0
    BY <2>1
  <2>3. ~SeenOver(e)
    BY <2>1 DEF CleanInv, EngineClean
  <2> QED
    BY <2>2, <2>3 DEF SeenOver
<1> QED
  BY <1>1, CleanInvariant, PTL
=============================================================================
