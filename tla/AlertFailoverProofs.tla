------------------------ MODULE AlertFailoverProofs ------------------------
(***************************************************************************)
(* The alert evaluator, for any set of replicas and any number of episodes *)
(* and lease terms: types, the consistency of engines and passes, and one  *)
(* page per undisturbed episode.                                           *)
(***************************************************************************)
EXTENDS AlertFailover, TLAPS

\* What a step of one replica leaves of the others, and the types of its pass.
LEMMA GotoTypes ==
    ASSUME AlertTypeOK, NEW r \in Replicas, NEW e \in 0 .. ep,
           NEW label \in {"idle", "send", "persist", "resolved", "trapped", "cleanup"},
           Goto(r, label, e)
    PROVE  /\ stage' \in [Replicas -> {"idle", "send", "persist", "resolved", "trapped", "cleanup"}]
           /\ at' \in [Replicas -> 0 .. ep]
           /\ stage'[r] = label /\ at'[r] = e
           /\ \A s \in Replicas \ {r} : stage'[s] = stage[s] /\ at'[s] = at[s]
BY DEF AlertTypeOK, Goto

\* The engine that Build makes, or that a resolve leaves.
LEMMA EngineTypes ==
    ASSUME AlertAssumption, NEW n \in Nat, NEW e \in 0 .. n
    PROVE  /\ Engine(e) \in Engines(n)
           /\ ~ Engine(e).firing /\ Engine(e).told = 0 /\ Engine(e).row = e
BY DEF AlertAssumption, Engine, Engines

LEMMA NoneIsNoEngine ==
    ASSUME AlertAssumption, NEW n \in Nat
    PROVE  None \notin Engines(n)
<1>1. Engines(n) \subseteq [firing : BOOLEAN, count : Nat, told : Nat, row : Nat]
  BY DEF Engines, AlertAssumption
<1> QED
  BY <1>1, NoEngine

\* What a breaching sample makes of the engine.
LEMMA BreachedEngine ==
    ASSUME AlertAssumption, AlertTypeOK, EnginesSane, EpisodesOrdered, NEW r \in Replicas, EvalBreached(r)
    PROVE  /\ cond /\ stage[r] = "idle" /\ eng[r] # None /\ eng[r] \in Engines(ep)
           /\ eng'[r] \in Engines(ep)
           /\ IF eng'[r].firing THEN eng'[r].row = 0 ELSE eng'[r].told = 0
           /\ \/ /\ UNCHANGED pass
                 /\ eng'[r].told \in {eng[r].told, eng[r].row} /\ eng'[r].row \in {0, eng[r].row}
                 /\ eng[r].told # 0 \/ eng[r].row # 0 => eng'[r].told # 0 \/ eng'[r].row # 0
                 /\ {eng[r].told, eng[r].row} \subseteq {0, eng'[r].told, eng'[r].row}
              \/ /\ Goto(r, "send", ep) /\ eng[r].told = 0 /\ eng[r].row = 0
                 /\ eng'[r].told = ep /\ eng'[r].row = 0 /\ eng'[r].firing
           /\ \A s \in Replicas \ {r} : eng'[s] = eng[s]
           /\ upset' = upset \cup (IF r = leader THEN {} ELSE {ep})
<1> DEFINE s == eng[r]
           n == IF s.count < ForN THEN s.count + 1 ELSE ForN
           told == IF ~s.firing /\ s.row # 0 THEN s.row ELSE s.told
           fired == [firing |-> TRUE, count |-> n, told |-> IF told = 0 THEN ep ELSE told,
                     row |-> IF ~s.firing THEN 0 ELSE s.row]
<1>1. /\ cond /\ stage[r] = "idle" /\ s # None /\ s \in Engines(ep) /\ ForN \in Nat \ {0}
      /\ ep \in Nat \ {0}
      /\ IF s.firing THEN s.row = 0 ELSE s.told = 0
  BY DEF EvalBreached, Evaluating, AlertTypeOK, EnginesSane, EpisodesOrdered, AlertAssumption
<1>2. /\ n \in 0 .. ForN /\ s.firing \in BOOLEAN /\ s.told \in 0 .. ep /\ s.row \in 0 .. ep
      /\ told \in 0 .. ep
  BY <1>1 DEF Engines
<1>3. /\ upset' = upset \cup (IF r = leader THEN {} ELSE {ep})
  BY DEF EvalBreached, Overlap
<1>4. CASE n < ForN
  <2>1. eng' = [eng EXCEPT ![r].count = n] /\ UNCHANGED pass
    BY <1>4 DEF EvalBreached
  <2>2. eng'[r] = [s EXCEPT !.count = n] /\ \A t \in Replicas \ {r} : eng'[t] = eng[t]
    BY <2>1 DEF AlertTypeOK
  <2>3. /\ eng'[r] \in Engines(ep) /\ eng'[r].firing = s.firing /\ eng'[r].told = s.told
        /\ eng'[r].row = s.row
    BY <1>1, <1>2, <2>2 DEF Engines
  <2> QED
    BY <1>1, <1>3, <2>1, <2>2, <2>3
<1>5. CASE ~ (n < ForN)
  <2>1. /\ eng' = [eng EXCEPT ![r] = fired]
        /\ IF told = 0 THEN Goto(r, "send", ep) ELSE UNCHANGED pass
    BY <1>5 DEF EvalBreached
  <2>2. eng'[r] = fired /\ \A t \in Replicas \ {r} : eng'[t] = eng[t]
    BY <2>1 DEF AlertTypeOK
  <2>3. fired \in Engines(ep)
    BY <1>1, <1>2 DEF Engines
  <2>4. /\ fired.firing /\ fired.told = (IF told = 0 THEN ep ELSE told) /\ fired.row = 0
    BY <1>1
  <2>5. CASE told = 0
    <3>1. s.told = 0 /\ s.row = 0
      BY <1>1, <2>5
    <3> QED
      BY <1>1, <1>3, <2>1, <2>2, <2>3, <2>4, <2>5, <3>1
  <2>6. CASE told # 0
    <3>1. told \in {s.told, s.row} /\ {s.told, s.row} \subseteq {0, told}
      BY <1>1
    <3> QED
      BY <1>1, <1>3, <2>1, <2>2, <2>3, <2>4, <2>6, <3>1, Zenon
  <2> QED
    BY <2>5, <2>6
<1> QED
  BY <1>4, <1>5

\* Every step keeps the variables in their types.
LEMMA AlertTypeStep ==
    ASSUME AlertAssumption, AlertTypeOK, EnginesSane, EpisodesOrdered, [AlertNext]_alertVars
    PROVE  AlertTypeOK'
<1> USE DEF world, pass, lease, past
<1>0. /\ ep \in Nat /\ sent \subseteq 0 .. ep /\ again \subseteq 0 .. ep /\ quiet \subseteq 0 .. ep
      /\ upset \subseteq 0 .. ep /\ orphans \subseteq 0 .. ep
      /\ \A r \in Replicas : at[r] \in 0 .. ep
  BY DEF AlertTypeOK
<1>1. CASE Breach
  <2>1. ep' = ep + 1 /\ ep' \in Nat /\ 0 .. ep \subseteq 0 .. ep' /\ cond' \in BOOLEAN
    BY <1>0, <1>1 DEF Breach
  <2>2. Engines(ep) \subseteq Engines(ep')
    BY <2>1 DEF Engines
  <2>3. eng' \in [Replicas -> Engines(ep') \cup {None}]
    BY <1>1, <2>2 DEF Breach, AlertTypeOK
  <2>4. at' \in [Replicas -> 0 .. ep'] /\ hooks' \in [Replicas -> SUBSET (0 .. ep')]
    BY <1>1, <2>1 DEF Breach, AlertTypeOK
  <2> QED
    BY <1>1, <2>1, <2>3, <2>4 DEF Breach, AlertTypeOK, Engines
<1>2. CASE Recover
  BY <1>2, Zenon DEF Recover, AlertTypeOK, Engines
<1>3. ASSUME NEW r \in Replicas, Elect(r) \/ Cancel(r)
      PROVE  AlertTypeOK'
  <2>1. CASE Elect(r)
    <3>1. Rejoined(r) \subseteq 0 .. ep
      BY DEF Rejoined, AlertTypeOK, Engines
    <3>2. upset' \subseteq 0 .. ep /\ sent' \subseteq 0 .. ep
      BY <1>0, <2>1, <3>1, Zenon DEF Elect
    <3> QED
      BY <2>1, <3>2 DEF Elect, AlertTypeOK, Engines
  <2>2. CASE Cancel(r)
    BY <2>2 DEF Cancel, AlertTypeOK, Engines
  <2> QED
    BY <1>3, <2>1, <2>2
<1>4. ASSUME NEW r \in Replicas, ProcessEnds(r)
      PROVE  AlertTypeOK'
  <2>1. 0 \in 0 .. ep /\ note \in 0 .. ep
    BY <1>0 DEF AlertTypeOK
  <2>2. upset' \subseteq 0 .. ep /\ sent' \subseteq 0 .. ep
    BY <1>0, <1>4, <2>1, Zenon DEF ProcessEnds
  <2>3. stage' \in [Replicas -> {"idle", "send", "persist", "resolved", "trapped", "cleanup"}]
        /\ at' \in [Replicas -> 0 .. ep]
    BY <1>4, <2>1, GotoTypes DEF ProcessEnds
  <2>4. eng' \in [Replicas -> Engines(ep) \cup {None}] /\ hooks' \in [Replicas -> SUBSET (0 .. ep)]
    BY <1>4 DEF ProcessEnds, AlertTypeOK
  <2>5. active' \subseteq Replicas
    BY <1>4 DEF ProcessEnds, AlertTypeOK
  <2>6. UNCHANGED <<rule, cond, ep, note, pager, leader, term, again, quiet, orphans>>
    BY <1>4 DEF ProcessEnds
  <2> QED
    BY <2>2, <2>3, <2>4, <2>5, <2>6 DEF AlertTypeOK, Engines
<1>5. ASSUME NEW r \in Replicas, Build(r)
      PROVE  AlertTypeOK'
  <2>1. Engine(note) \in Engines(ep) /\ Engine(0) \in Engines(ep)
    BY <1>0, EngineTypes DEF AlertTypeOK
  <2>2. eng' \in [Replicas -> Engines(ep) \cup {None}]
    BY <1>5, <2>1 DEF Build, AlertTypeOK
  <2>3. upset' \subseteq 0 .. ep /\ sent' \subseteq 0 .. ep
    BY <1>0, <1>5, Zenon DEF Build, AlertTypeOK
  <2> QED
    BY <1>5, <2>2, <2>3 DEF Build, AlertTypeOK, Engines
<1>6. ASSUME NEW r \in Replicas, EvalBreached(r)
      PROVE  AlertTypeOK'
  <2>1. eng'[r] \in Engines(ep) /\ (UNCHANGED pass \/ Goto(r, "send", ep))
        /\ (\A t \in Replicas \ {r} : eng'[t] = eng[t])
        /\ upset' = upset \cup (IF r = leader THEN {} ELSE {ep})
    BY <1>6, BreachedEngine
  <2>4. upset' \subseteq 0 .. ep
    BY <1>0, <2>1
  <2>2. eng' \in [Replicas -> Engines(ep) \cup {None}]
    <3>1. eng' = [eng EXCEPT ![r] = eng'[r]]
      BY <1>6 DEF EvalBreached, AlertTypeOK
    <3> QED
      BY <2>1, <3>1 DEF AlertTypeOK
  <2>3. stage' \in [Replicas -> {"idle", "send", "persist", "resolved", "trapped", "cleanup"}]
        /\ at' \in [Replicas -> 0 .. ep]
    BY <1>0, <2>1, GotoTypes DEF AlertTypeOK
  <2> QED
    <3>1. UNCHANGED <<rule, cond, ep, note, pager, hooks, leader, active, term, sent, again, quiet, orphans>>
      BY <1>6 DEF EvalBreached
    <3> QED
      BY <2>2, <2>3, <2>4, <3>1 DEF AlertTypeOK, Engines
<1>7. ASSUME NEW r \in Replicas, EvalResolved(r)
      PROVE  AlertTypeOK'
  <2>1. eng[r] \in Engines(ep) /\ eng[r].row \in 0 .. ep
    BY <1>7 DEF EvalResolved, Evaluating, AlertTypeOK, Engines
  <2>2. eng' \in [Replicas -> Engines(ep) \cup {None}]
    BY <1>0, <1>7, <2>1, EngineTypes DEF EvalResolved, AlertTypeOK
  <2>3. stage' \in [Replicas -> {"idle", "send", "persist", "resolved", "trapped", "cleanup"}]
        /\ at' \in [Replicas -> 0 .. ep]
    BY <1>0, <1>7, GotoTypes DEF EvalResolved
  <2>4. hooks' \in [Replicas -> SUBSET (0 .. ep)]
    BY <1>0, <1>7 DEF EvalResolved, AlertTypeOK
  <2>5. upset' \subseteq 0 .. ep /\ quiet' \subseteq 0 .. ep
    BY <1>0, <1>7 DEF EvalResolved, Overlap
  <2> QED
    <3>1. UNCHANGED <<rule, cond, ep, note, pager, leader, active, term, sent, again, orphans>>
      BY <1>7 DEF EvalResolved
    <3> QED
      BY <2>2, <2>3, <2>4, <2>5, <3>1 DEF AlertTypeOK, Engines
<1>8. ASSUME NEW r \in Replicas, EvalNormal(r) \/ EvalNoData(r)
      PROVE  AlertTypeOK'
  <2>1. eng[r] \in Engines(ep) /\ eng[r].row \in 0 .. ep
    BY <1>8 DEF EvalNormal, EvalNoData, Evaluating, AlertTypeOK, Engines
  <2>2. CASE ResolveRestoredTrap(r)
    <3>1. eng' \in [Replicas -> Engines(ep) \cup {None}]
      BY <1>0, <2>2, EngineTypes DEF ResolveRestoredTrap, AlertTypeOK
    <3>2. stage' \in [Replicas -> {"idle", "send", "persist", "resolved", "trapped", "cleanup"}]
          /\ at' \in [Replicas -> 0 .. ep]
      BY <1>0, <2>2, GotoTypes DEF ResolveRestoredTrap
    <3>3. quiet' \subseteq 0 .. ep /\ orphans' \subseteq 0 .. ep
      BY <1>0, <1>8, <2>1 DEF EvalNormal, EvalNoData
    <3> QED
      BY <1>8, <3>1, <3>2, <3>3 DEF EvalNormal, EvalNoData, AlertTypeOK, Engines
  <2>3. CASE EvalNormal(r) /\ ~ ResolveRestoredTrap(r)
    <3>1. eng' = [eng EXCEPT ![r].count = 0] /\ UNCHANGED pass
      BY <2>3 DEF EvalNormal
    <3>2. eng' \in [Replicas -> Engines(ep) \cup {None}]
      BY <2>1, <3>1 DEF AlertTypeOK, Engines, AlertAssumption
    <3>3. quiet' \subseteq 0 .. ep /\ orphans' \subseteq 0 .. ep
      BY <1>0, <2>1, <2>3 DEF EvalNormal
    <3> QED
      BY <2>3, <3>1, <3>2, <3>3 DEF EvalNormal, AlertTypeOK, Engines
  <2> QED
    BY <1>8, <2>2, <2>3 DEF EvalNoData
<1>9. ASSUME NEW r \in Replicas, Deliver(r)
      PROVE  AlertTypeOK'
  <2>1. stage' \in [Replicas -> {"idle", "send", "persist", "resolved", "trapped", "cleanup"}]
        /\ at' \in [Replicas -> 0 .. ep]
    BY <1>0, <1>9, GotoTypes DEF Deliver
  <2>2. upset' \subseteq 0 .. ep /\ pager' \in 0 .. ep
    <3>1. at[r] \in 0 .. ep /\ ep \in 0 .. ep /\ 0 \in 0 .. ep /\ pager \in 0 .. ep
      BY <1>0 DEF AlertTypeOK
    <3>2. upset' \subseteq upset \cup {at[r], ep} /\ pager' \in {at[r], 0, pager}
      BY <1>9 DEF Deliver, Overlap
    <3> QED
      BY <1>0, <3>1, <3>2
  <2>3. sent' \subseteq 0 .. ep /\ again' \subseteq 0 .. ep
    BY <1>0, <1>9, Zenon DEF Deliver
  <2> QED
    BY <1>9, <2>1, <2>2, <2>3 DEF Deliver, AlertTypeOK, Engines
<1>10. ASSUME NEW r \in Replicas, Persist(r) \/ Cleanup(r)
      PROVE  AlertTypeOK'
  <2>1. stage' \in [Replicas -> {"idle", "send", "persist", "resolved", "trapped", "cleanup"}]
        /\ at' \in [Replicas -> 0 .. ep]
    BY <1>0, <1>10, GotoTypes DEF Persist, Cleanup
  <2>2. upset' \subseteq 0 .. ep /\ note' \in 0 .. ep
    <3>1. at[r] \in 0 .. ep /\ 0 \in 0 .. ep /\ note \in 0 .. ep
      BY <1>0 DEF AlertTypeOK
    <3>2. upset' \subseteq upset \cup {at[r], note} /\ note' \in {at[r], 0, note}
      BY <1>10 DEF Persist, Cleanup, Erase, Overlap
    <3> QED
      BY <1>0, <3>1, <3>2
  <2> QED
    BY <1>10, <2>1, <2>2 DEF Persist, Cleanup, AlertTypeOK, Engines
<1>11. ASSUME NEW r \in Replicas, ResolveHook(r)
      PROVE  AlertTypeOK'
  <2>1. upset' \subseteq 0 .. ep /\ note' \in 0 .. ep
    <3>1. 0 \in 0 .. ep /\ note \in 0 .. ep
      BY <1>0 DEF AlertTypeOK
    <3>2. upset' \subseteq upset \cup {note} /\ note' \in {0, note}
      BY <1>11 DEF ResolveHook, Erase
    <3> QED
      BY <1>0, <3>1, <3>2
  <2>2. hooks' \in [Replicas -> SUBSET (0 .. ep)]
    BY <1>11 DEF ResolveHook, AlertTypeOK
  <2> QED
    BY <1>11, <2>1, <2>2 DEF ResolveHook, AlertTypeOK, Engines
<1>12. CASE UNCHANGED alertVars
  BY <1>12 DEF alertVars, AlertTypeOK, Engines
<1> QED
  BY <1>1, <1>2, <1>3, <1>4, <1>5, <1>6, <1>7, <1>8, <1>9, <1>10, <1>11, <1>12 DEF AlertNext

\* The exceptions are not taken back.
LEMMA ExceptionsGrow ==
    ASSUME [AlertNext]_alertVars
    PROVE  upset \subseteq upset' /\ orphans \subseteq orphans'
<1> USE DEF past
<1>1. CASE Breach \/ Recover \/ UNCHANGED alertVars
  BY <1>1 DEF Breach, Recover, alertVars
<1>2. ASSUME NEW r \in Replicas,
             Elect(r) \/ Cancel(r) \/ ProcessEnds(r) \/ Build(r) \/ EvalBreached(r) \/ EvalResolved(r)
      PROVE  upset \subseteq upset' /\ orphans \subseteq orphans'
  BY <1>2 DEF Elect, Cancel, ProcessEnds, Build, EvalBreached, EvalResolved
<1>3. ASSUME NEW r \in Replicas,
             EvalNormal(r) \/ EvalNoData(r) \/ Deliver(r) \/ Persist(r) \/ ResolveHook(r) \/ Cleanup(r)
      PROVE  upset \subseteq upset' /\ orphans \subseteq orphans'
  BY <1>3 DEF EvalNormal, EvalNoData, Deliver, Persist, ResolveHook, Cleanup, Erase
<1> QED
  BY <1>1, <1>2, <1>3 DEF AlertNext

\* Every step keeps the engines and the passes consistent.
LEMMA SaneStep ==
    ASSUME AlertAssumption, AlertTypeOK, EnginesSane, EpisodesOrdered, AlertTypeOK', [AlertNext]_alertVars
    PROVE  EnginesSane'
<1> USE DEF world, pass, lease, past
<1>0. upset \subseteq upset' /\ ep \in Nat
  BY ExceptionsGrow DEF AlertTypeOK
<1> DEFINE Sane(t) ==
        /\ eng'[t] # None => IF eng'[t].firing THEN eng'[t].row = 0 ELSE eng'[t].told = 0
        /\ stage'[t] \in {"send", "persist"} =>
              /\ eng'[t] \in Engines(ep') /\ eng'[t].firing
              /\ eng'[t].told = at'[t] /\ at'[t] # 0
              /\ t = leader' \/ at'[t] \in upset'
<1>s. SUFFICES \A t \in Replicas : Sane(t)
  BY DEF EnginesSane, Engines
<1>a. ASSUME NEW t \in Replicas, eng'[t] = eng[t], stage'[t] = stage[t], at'[t] = at[t], leader' = leader, ep' = ep
      PROVE  Sane(t)
  BY <1>0, <1>a DEF EnginesSane
<1>b. ASSUME NEW t \in Replicas, stage'[t] \notin {"send", "persist"}, NEW e \in 0 .. ep, eng'[t] = Engine(e)
      PROVE  Sane(t)
  BY <1>0, <1>b, EngineTypes
<1>1. CASE Breach
  <2>1. Engines(ep) \subseteq Engines(ep')
    BY <1>0, <1>1 DEF Breach, Engines
  <2> QED
    BY <1>1, <2>1 DEF Breach, EnginesSane
<1>2. CASE Recover \/ UNCHANGED alertVars
  BY <1>2, <1>a DEF Recover, alertVars
<1>3. ASSUME NEW r \in Replicas, Cancel(r) \/ ResolveHook(r)
      PROVE  \A t \in Replicas : Sane(t)
  BY <1>3, <1>a DEF Cancel, ResolveHook
<1>4. ASSUME NEW r \in Replicas, Elect(r)
      PROVE  \A t \in Replicas : Sane(t)
  <2>1. UNCHANGED <<eng, stage, at, ep>> /\ leader' = r /\ stage[r] = "idle"
    BY <1>4 DEF Elect
  <2>2. \A t \in Replicas : stage[t] \in {"send", "persist"} => at[t] \in upset'
    BY <1>4 DEF Elect
  <2> QED
    BY <2>1, <2>2 DEF EnginesSane
<1>5. ASSUME NEW r \in Replicas, ProcessEnds(r)
      PROVE  \A t \in Replicas : Sane(t)
  <2>1. eng'[r] = None /\ stage'[r] = "idle" /\ leader' = leader /\ ep' = ep
        /\ \A t \in Replicas \ {r} : eng'[t] = eng[t] /\ stage'[t] = stage[t] /\ at'[t] = at[t]
    BY <1>5 DEF ProcessEnds, Goto, AlertTypeOK
  <2> QED
    BY <1>a, <2>1
<1>6. ASSUME NEW r \in Replicas, Build(r)
      PROVE  \A t \in Replicas : Sane(t)
  <2>1. UNCHANGED <<stage, at, leader, ep>> /\ stage[r] = "idle"
        /\ (eng'[r] = Engine(note) \/ eng'[r] = Engine(0)) /\ note \in 0 .. ep /\ 0 \in 0 .. ep
        /\ \A t \in Replicas \ {r} : eng'[t] = eng[t]
    BY <1>0, <1>6 DEF Build, AlertTypeOK
  <2> QED
    BY <1>a, <1>b, <2>1
<1>7. ASSUME NEW r \in Replicas, EvalBreached(r)
      PROVE  \A t \in Replicas : Sane(t)
  <2>1. /\ eng'[r] \in Engines(ep)
        /\ IF eng'[r].firing THEN eng'[r].row = 0 ELSE eng'[r].told = 0
        /\ stage[r] = "idle" /\ ep # 0
        /\ \/ UNCHANGED pass
           \/ Goto(r, "send", ep) /\ eng'[r].told = ep /\ eng'[r].firing
        /\ \A t \in Replicas \ {r} : eng'[t] = eng[t]
        /\ r = leader \/ ep \in upset'
    BY <1>7, BreachedEngine DEF EpisodesOrdered
  <2>2. leader' = leader /\ ep' = ep
    BY <1>7 DEF EvalBreached
  <2>3. \A t \in Replicas \ {r} : stage'[t] = stage[t] /\ at'[t] = at[t]
    BY <2>1 DEF Goto, AlertTypeOK
  <2>4. stage'[r] = "idle" \/ (stage'[r] = "send" /\ at'[r] = ep /\ eng'[r].told = ep /\ eng'[r].firing)
    BY <2>1 DEF Goto, AlertTypeOK
  <2>5. Sane(r)
    BY <2>1, <2>2, <2>4
  <2> QED
    BY <1>a, <2>1, <2>2, <2>3, <2>5
<1>8. ASSUME NEW r \in Replicas, EvalResolved(r) \/ EvalNormal(r) \/ EvalNoData(r)
      PROVE  \A t \in Replicas : Sane(t)
  <2>1. /\ leader' = leader /\ ep' = ep /\ stage[r] = "idle" /\ eng[r] \in Engines(ep) /\ eng[r] # None
        /\ eng[r].row \in 0 .. ep
    BY <1>8 DEF EvalResolved, EvalNormal, EvalNoData, Evaluating, AlertTypeOK, Engines
  <2>2. \A t \in Replicas \ {r} : eng'[t] = eng[t] /\ stage'[t] = stage[t] /\ at'[t] = at[t]
    BY <1>8 DEF EvalResolved, EvalNormal, EvalNoData, ResolveRestoredTrap, Goto, AlertTypeOK
  <2>3. \/ /\ stage'[r] \in {"resolved", "trapped"}
           /\ eng'[r] = Engine(eng[r].row) \/ eng'[r] = Engine(0)
        \/ stage'[r] = "idle" /\ eng'[r] = [eng[r] EXCEPT !.count = 0]
    BY <1>8, <2>1 DEF EvalResolved, EvalNormal, EvalNoData, ResolveRestoredTrap, Goto, AlertTypeOK
  <2>4. [eng[r] EXCEPT !.count = 0].firing = eng[r].firing /\ [eng[r] EXCEPT !.count = 0].told = eng[r].told
        /\ [eng[r] EXCEPT !.count = 0].row = eng[r].row
    BY <2>1 DEF Engines
  <2>5. 0 \in 0 .. ep
    BY <1>0
  <2>6. Sane(r)
    BY <1>b, <2>1, <2>3, <2>4, <2>5, ZenonT(30) DEF EnginesSane
  <2> QED
    BY <1>a, <2>1, <2>2, <2>6
<1>9. ASSUME NEW r \in Replicas, Deliver(r) \/ Persist(r) \/ Cleanup(r)
      PROVE  \A t \in Replicas : Sane(t)
  <2>1. UNCHANGED <<eng, leader, ep>>
    BY <1>9 DEF Deliver, Persist, Cleanup
  <2>2. \A t \in Replicas \ {r} : stage'[t] = stage[t] /\ at'[t] = at[t]
    BY <1>9 DEF Deliver, Persist, Cleanup, Goto, AlertTypeOK
  <2>3. stage'[r] \in {"idle", "cleanup"} \/ (stage[r] = "send" /\ stage'[r] = "persist" /\ at'[r] = at[r])
    BY <1>9 DEF Deliver, Persist, Cleanup, Goto, AlertTypeOK
  <2>4. Sane(r)
    BY <1>0, <2>1, <2>3 DEF EnginesSane
  <2> QED
    BY <1>a, <2>1, <2>2, <2>4
<1> QED
  BY <1>1, <1>2, <1>3, <1>4, <1>5, <1>6, <1>7, <1>8, <1>9, Zenon DEF AlertNext

\* Every step keeps what waits to erase the row behind the episode.
LEMMA OrderedStep ==
    ASSUME AlertTypeOK, EpisodesOrdered, [AlertNext]_alertVars
    PROVE  EpisodesOrdered'
<1> USE DEF world, pass, lease, past
<1>1. CASE Breach
  <2>1. ep' = ep + 1 /\ ep \in Nat /\ UNCHANGED <<quiet, hooks, stage, at>>
    BY <1>1 DEF Breach, AlertTypeOK
  <2>2. ep + 1 \notin 0 .. ep /\ ep + 1 # 0
    BY <2>1
  <2>3. quiet \subseteq 0 .. ep /\ \A r \in Replicas : hooks[r] \subseteq 0 .. ep /\ at[r] \in 0 .. ep
    BY DEF AlertTypeOK
  <2> QED
    BY <2>1, <2>2, <2>3 DEF EpisodesOrdered
<1>2. CASE Recover \/ \E r \in Replicas : EvalResolved(r) \/ EvalNormal(r) \/ EvalNoData(r)
  BY <1>2, Zenon DEF Recover, EvalResolved, EvalNormal, EvalNoData, EpisodesOrdered
<1>3. CASE UNCHANGED alertVars \/ \E r \in Replicas : Elect(r) \/ Cancel(r) \/ Build(r)
  <2>1. UNCHANGED <<cond, ep, quiet, hooks, stage, at>>
    BY <1>3 DEF alertVars, Elect, Cancel, Build
  <2> QED
    BY <2>1 DEF EpisodesOrdered
<1>4. ASSUME NEW r \in Replicas, ProcessEnds(r) \/ ResolveHook(r)
      PROVE  EpisodesOrdered'
  <2>1. UNCHANGED <<cond, ep, quiet>>
    BY <1>4 DEF ProcessEnds, ResolveHook
  <2>2. \A t \in Replicas : hooks'[t] \subseteq hooks[t]
    BY <1>4 DEF ProcessEnds, ResolveHook, AlertTypeOK
  <2>3. \A t \in Replicas : stage'[t] = "idle" \/ (stage'[t] = stage[t] /\ at'[t] = at[t])
    BY <1>4 DEF ProcessEnds, ResolveHook, Goto, AlertTypeOK
  <2> QED
    BY <2>1, <2>2, <2>3 DEF EpisodesOrdered
<1>5. ASSUME NEW r \in Replicas, EvalBreached(r)
      PROVE  EpisodesOrdered'
  <2>1. UNCHANGED <<cond, ep, quiet, hooks>> /\ (UNCHANGED pass \/ Goto(r, "send", ep))
    BY <1>5 DEF EvalBreached
  <2> QED
    BY <2>1 DEF Goto, AlertTypeOK, EpisodesOrdered
<1>6. ASSUME NEW r \in Replicas, Deliver(r) \/ Persist(r) \/ Cleanup(r)
      PROVE  EpisodesOrdered'
  <2>1. UNCHANGED <<cond, ep, quiet, hooks>>
    BY <1>6 DEF Deliver, Persist, Cleanup
  <2>2. \A t \in Replicas : \/ stage'[t] \in {"idle", "persist"}
                            \/ stage'[t] = stage[t] /\ at'[t] = at[t]
                            \/ stage[t] = "trapped" /\ stage'[t] = "cleanup" /\ at'[t] = at[t]
    BY <1>6 DEF Deliver, Persist, Cleanup, Goto, AlertTypeOK
  <2> QED
    BY <2>1, <2>2 DEF EpisodesOrdered
<1> QED
  BY <1>1, <1>2, <1>3, <1>4, <1>5, <1>6 DEF AlertNext

\* Only the leader's delivery adds an undisturbed episode to those notified.
LEMMA SentKept ==
    ASSUME [AlertNext]_alertVars,
           ~ \E r \in Replicas : r = leader /\ stage[r] = "send" /\ Deliver(r)
    PROVE  sent' \ upset' \subseteq sent \ upset
<1> USE DEF past
<1>0. upset \subseteq upset'
  BY ExceptionsGrow
<1>1. CASE \E r \in Replicas : Elect(r) \/ ProcessEnds(r) \/ Build(r)
  BY <1>0, <1>1, Zenon DEF Elect, ProcessEnds, Build
<1>2. ASSUME NEW r \in Replicas, Deliver(r)
      PROVE  sent' \ upset' \subseteq sent \ upset
  <2>1. CASE stage[r] # "send"
    BY <1>0, <1>2, <2>1 DEF Deliver
  <2>2. CASE stage[r] = "send"
    <3>1. r # leader
      BY <1>2, <2>2
    <3> QED
      BY <1>0, <1>2, <3>1 DEF Deliver, Overlap
  <2> QED
    BY <2>1, <2>2
<1>3. CASE UNCHANGED alertVars \/ Breach \/ Recover
  BY <1>0, <1>3 DEF alertVars, Breach, Recover
<1>4. CASE \E r \in Replicas : Cancel(r) \/ EvalBreached(r) \/ EvalResolved(r) \/ EvalNormal(r)
             \/ EvalNoData(r) \/ Persist(r) \/ ResolveHook(r) \/ Cleanup(r)
  BY <1>0, <1>4 DEF Cancel, EvalBreached, EvalResolved, EvalNormal, EvalNoData, Persist, ResolveHook,
                    Cleanup
<1> QED
  BY <1>1, <1>2, <1>3, <1>4 DEF AlertNext

\* No step notifies an undisturbed episode again.
LEMMA PagedStep ==
    ASSUME OnceInv, [AlertNext]_alertVars
    PROVE  PagedOnce'
<1>0. upset \subseteq upset' /\ again \subseteq upset
  BY ExceptionsGrow DEF OnceInv, PagedOnce
<1>1. ASSUME NEW r \in Replicas, Deliver(r)
      PROVE  again' \subseteq upset'
  <2>1. CASE r = leader
    <3>1. stage[r] = "send" => at[r] \notin sent \ upset
      BY <2>1 DEF OnceInv
    <3>2. again' \subseteq again \cup (IF stage[r] = "send" THEN (sent \cap {at[r]}) \ upset' ELSE {})
      BY <1>1 DEF Deliver
    <3> QED
      BY <1>0, <3>1, <3>2
  <2>2. CASE r # leader
    <3>1. again' \subseteq again \cup ((sent \cap {at[r]}) \ upset')
      BY <1>1 DEF Deliver
    <3>2. at[r] \in upset' \/ again' = again
      BY <1>1, <2>2 DEF Deliver, Overlap
    <3> QED
      BY <1>0, <3>1, <3>2
  <2> QED
    BY <2>1, <2>2
<1>2. CASE ~ \E r \in Replicas : Deliver(r)
  <2>1. again' = again
    BY <1>2 DEF AlertNext, alertVars, past, Breach, Recover, Elect, Cancel, ProcessEnds, Build, EvalBreached,
                EvalResolved, EvalNormal, EvalNoData, Persist, ResolveHook, Cleanup
  <2> QED
    BY <1>0, <2>1 DEF PagedOnce
<1> QED
  BY <1>1, <1>2 DEF PagedOnce

\* The leader that is about to notify an undisturbed episode is the first to.
LEMMA FirstStep ==
    ASSUME AlertAssumption, OnceInv, [AlertNext]_alertVars, NEW r \in Replicas, r = leader', stage'[r] = "send"
    PROVE  at'[r] \notin sent' \ upset'
<1> USE DEF world, pass, lease, past
<1> USE DEF OnceInv
<1>1. CASE EvalBreached(r)
  <2>1. leader' = leader /\ ep' = ep /\ UNCHANGED sent /\ upset \subseteq upset' /\ r = leader
    BY <1>1, ExceptionsGrow DEF EvalBreached
  <2>2. /\ cond /\ stage[r] = "idle" /\ eng[r] # None
        /\ UNCHANGED pass \/ (Goto(r, "send", ep) /\ eng[r].told = 0 /\ eng[r].row = 0)
    BY <1>1, BreachedEngine
  <2>3. Goto(r, "send", ep) /\ eng[r].told = 0 /\ eng[r].row = 0
    BY <2>2
  <2>4. ep \notin sent \ upset
    BY <2>1, <2>2, <2>3 DEF NotifiedIsKnown
  <2>5. at'[r] = ep
    BY <2>3 DEF Goto, AlertTypeOK
  <2> QED
    BY <2>1, <2>4, <2>5
<1>2. CASE ~ EvalBreached(r)
  <2>1. stage[r] = "send" /\ at'[r] = at[r] /\ leader' = leader
    <3>1. CASE \E s \in Replicas : Elect(s)
      BY <3>1 DEF Elect
    <3>2. CASE \E s \in Replicas : EvalBreached(s) \/ EvalResolved(s) \/ EvalNormal(s) \/ EvalNoData(s)
      <4>1. PICK s \in Replicas : EvalBreached(s) \/ EvalResolved(s) \/ EvalNormal(s) \/ EvalNoData(s)
        BY <3>2
      <4>2. leader' = leader
        BY <4>1 DEF EvalBreached, EvalResolved, EvalNormal, EvalNoData
      <4>3. CASE s = r
        BY <1>2, <4>1, <4>3 DEF EvalResolved, EvalNormal, EvalNoData, ResolveRestoredTrap, Goto, Evaluating,
                                AlertTypeOK
      <4>4. CASE s # r
        BY <4>1, <4>2, <4>4 DEF EvalBreached, EvalResolved, EvalNormal, EvalNoData, ResolveRestoredTrap,
                                Goto, AlertTypeOK
      <4> QED
        BY <4>3, <4>4
    <3>3. CASE \E s \in Replicas : Deliver(s) \/ Persist(s) \/ Cleanup(s) \/ ProcessEnds(s)
      BY <3>3 DEF Deliver, Persist, Cleanup, ProcessEnds, Goto, AlertTypeOK
    <3>4. CASE \E s \in Replicas : Cancel(s) \/ Build(s) \/ ResolveHook(s)
      BY <3>4, ZenonT(30) DEF Cancel, Build, ResolveHook
    <3>5. CASE UNCHANGED alertVars \/ Breach \/ Recover
      BY <3>5, ZenonT(30) DEF alertVars, Breach, Recover
    <3> QED
      BY <3>1, <3>2, <3>3, <3>4, <3>5, ZenonT(30) DEF AlertNext
  <2>2. at[r] \notin sent \ upset
    BY <2>1
  <2>3. ~ \E s \in Replicas : s = leader /\ stage[s] = "send" /\ Deliver(s)
    BY <2>1, ZenonT(30) DEF Deliver, Goto, AlertTypeOK
  <2> QED
    BY <2>1, <2>2, <2>3, SentKept
<1> QED
  BY <1>1, <1>2

\* An undisturbed episode that was notified stays known to whoever leads.
LEMMA KnownStep ==
    ASSUME AlertAssumption, OnceInv, [AlertNext]_alertVars
    PROVE  NotifiedIsKnown'
<1> USE DEF world, pass, lease, past
<1> SUFFICES ASSUME cond', ep' \in sent' \ upset'
             PROVE  /\ leader' \in Replicas
                    /\ \/ stage'[leader'] = "persist" /\ at'[leader'] = ep'
                       \/ /\ stage'[leader'] = "idle" /\ note' = ep'
                          /\ eng'[leader'] = None \/ eng'[leader'].told # 0 \/ eng'[leader'].row # 0
  BY DEF NotifiedIsKnown
<1>0. /\ upset \subseteq upset' /\ AlertTypeOK /\ EnginesSane /\ EpisodesOrdered /\ ep \in Nat
      /\ sent \subseteq 0 .. ep /\ None \notin Replicas
  BY ExceptionsGrow DEF OnceInv, AlertTypeOK, AlertAssumption
<1> DEFINE Known == cond /\ ep \in sent \ upset
<1>a. Known => /\ leader \in Replicas
               /\ \/ stage[leader] = "persist" /\ at[leader] = ep
                  \/ /\ stage[leader] = "idle" /\ note = ep
                     /\ eng[leader] = None \/ eng[leader].told # 0 \/ eng[leader].row # 0
  BY DEF OnceInv, NotifiedIsKnown
<1>b. ASSUME UNCHANGED <<cond, ep>>, sent' \ upset' \subseteq sent \ upset PROVE Known
  BY <1>b
<1>1. CASE Breach
  <2>1. ep' = ep + 1 /\ sent' = sent
    BY <1>1 DEF Breach
  <2> QED
    BY <1>0, <2>1
<1>2. CASE Recover \/ \E r \in Replicas : EvalResolved(r) \/ EvalNormal(r) \/ EvalNoData(r)
  BY <1>2, Zenon DEF Recover, EvalResolved, EvalNormal, EvalNoData
<1>3. ASSUME NEW r \in Replicas, Elect(r) PROVE NotifiedIsKnown'
  <2>1. UNCHANGED <<cond, ep, note, eng, stage, at>> /\ leader' = r /\ stage[r] = "idle"
    BY <1>3, Zenon DEF Elect
  <2>2. Known
    BY <1>0, <1>3, <2>1 DEF Elect
  <2>3. \A s \in Replicas : stage[s] \in {"send", "persist"} => at[s] \in upset'
    BY <1>3 DEF Elect
  <2>4. note = ep
    BY <1>a, <2>1, <2>2, <2>3
  <2>5. ep # 0
    BY <1>0, <2>2 DEF EpisodesOrdered
  <2>6. eng[r] = None
    BY <1>3, <2>1, <2>4, <2>5 DEF Elect, Rejoined
  <2> QED
    BY <2>1, <2>4, <2>6 DEF NotifiedIsKnown
<1>4. ASSUME NEW r \in Replicas, ProcessEnds(r) PROVE NotifiedIsKnown'
  <2>1. UNCHANGED <<cond, ep, note, leader>> /\ sent' \ upset' \subseteq sent \ upset
    BY <1>0, <1>4, ZenonT(30) DEF ProcessEnds
  <2>2. Known
    BY <1>b, <2>1
  <2>3. eng'[r] = None /\ stage'[r] = "idle" /\ at'[r] = 0
        /\ \A s \in Replicas \ {r} : eng'[s] = eng[s] /\ stage'[s] = stage[s] /\ at'[s] = at[s]
    BY <1>0, <1>4 DEF ProcessEnds, Goto, AlertTypeOK
  <2>4. stage[r] = "persist" => at[r] \in upset'
    BY <1>4 DEF ProcessEnds
  <2> QED
    BY <1>a, <2>1, <2>2, <2>3, <2>4 DEF NotifiedIsKnown
<1>5. ASSUME NEW r \in Replicas, Build(r) PROVE NotifiedIsKnown'
  <2>1. /\ UNCHANGED <<cond, ep, note, leader, stage, at>> /\ sent' \ upset' \subseteq sent \ upset
        /\ eng[r] = None /\ stage[r] = "idle"
    BY <1>0, <1>5, Zenon DEF Build
  <2>2. Known
    BY <1>b, <2>1
  <2>3. ep # 0
    BY <1>0, <2>2 DEF EpisodesOrdered
  <2>4. \A s \in Replicas \ {r} : eng'[s] = eng[s]
    BY <1>0, <1>5 DEF Build, AlertTypeOK
  <2>5. eng'[r] = Engine(note) \/ note \in upset' \cup {0}
    BY <1>0, <1>5 DEF Build, AlertTypeOK
  <2>6. Engine(note).row = note
    BY DEF Engine
  <2> QED
    BY <1>a, <2>1, <2>2, <2>3, <2>4, <2>5, <2>6 DEF NotifiedIsKnown
<1>6. ASSUME NEW r \in Replicas, EvalBreached(r) PROVE NotifiedIsKnown'
  <2>1. UNCHANGED <<cond, ep, note, leader, sent>>
    BY <1>6 DEF EvalBreached
  <2>2. Known
    BY <1>0, <1>b, <2>1
  <2>3. r = leader
    BY <1>0, <1>6, <2>1, BreachedEngine
  <2>4. stage[r] = "idle" /\ eng[r] # None
    BY <1>0, <1>6, BreachedEngine
  <2>5. note = ep /\ (eng[r].told # 0 \/ eng[r].row # 0)
    BY <1>a, <2>2, <2>3, <2>4
  <2>6. UNCHANGED pass /\ (eng'[r].told # 0 \/ eng'[r].row # 0)
    BY <1>0, <1>6, <2>5, BreachedEngine
  <2> QED
    BY <2>1, <2>3, <2>4, <2>5, <2>6 DEF NotifiedIsKnown
<1>7. ASSUME NEW r \in Replicas, Deliver(r) PROVE NotifiedIsKnown'
  <2>1. UNCHANGED <<cond, ep, note, leader, eng>>
    BY <1>7, ZenonT(30) DEF Deliver
  <2>2. \A s \in Replicas \ {r} : stage'[s] = stage[s] /\ at'[s] = at[s]
    BY <1>0, <1>7 DEF Deliver, Goto, AlertTypeOK
  <2>3. stage[r] = "send" => stage'[r] = "persist" /\ at'[r] = at[r]
    BY <1>0, <1>7 DEF Deliver, Goto, AlertTypeOK
  <2>4. CASE ep \in sent \ upset
    <3>1. Known
      BY <2>1, <2>4
    <3>2. stage[r] \notin {"persist", "idle"}
      BY <1>7 DEF Deliver
    <3> QED
      BY <1>a, <2>1, <2>2, <3>1, <3>2 DEF NotifiedIsKnown
  <2>5. CASE ep \notin sent \ upset
    <3>1. ~ (sent' \ upset' \subseteq sent \ upset)
      BY <2>1, <2>5
    <3>2. r = leader /\ stage[r] = "send"
      <4>1. PICK s \in Replicas : s = leader /\ stage[s] = "send" /\ Deliver(s)
        BY <3>1, SentKept
      <4>2. stage'[s] = "persist"
        BY <1>0, <4>1 DEF Deliver, Goto, AlertTypeOK
      <4>3. s = r
        BY <2>2, <4>1, <4>2
      <4> QED
        BY <4>1, <4>3
    <3>3. ep = at[r]
      BY <1>0, <1>7, <2>1, <2>5, <3>2 DEF Deliver
    <3> QED
      BY <2>1, <2>3, <3>2, <3>3 DEF NotifiedIsKnown
  <2> QED
    BY <2>4, <2>5
<1>8. ASSUME NEW r \in Replicas, Persist(r) PROVE NotifiedIsKnown'
  <2>1. UNCHANGED <<cond, ep, leader, eng, sent>> /\ stage[r] = "persist"
    BY <1>8, Zenon DEF Persist
  <2>2. Known
    BY <1>0, <1>b, <2>1
  <2>3. stage'[r] = "idle" /\ \A s \in Replicas \ {r} : stage'[s] = stage[s] /\ at'[s] = at[s]
    BY <1>0, <1>8 DEF Persist, Goto, AlertTypeOK
  <2>4. ep # 0 /\ eng[r].told = at[r] /\ at[r] # 0 /\ (r = leader \/ at[r] \in upset)
    BY <1>0, <2>1, <2>2 DEF EpisodesOrdered, EnginesSane
  <2>5. CASE r = leader
    <3>1. at[r] = ep
      BY <1>a, <2>1, <2>2, <2>5
    <3>2. note' = ep
      BY <1>8, <2>1, <3>1 DEF Persist
    <3> QED
      BY <2>1, <2>3, <2>4, <2>5, <3>2 DEF NotifiedIsKnown
  <2>6. CASE r # leader
    <3>1. note # ep \/ note' = note
      BY <1>8, <2>1, <2>4, <2>6 DEF Persist, Overlap
    <3> QED
      BY <1>a, <2>1, <2>2, <2>3, <2>6, <3>1 DEF NotifiedIsKnown
  <2> QED
    BY <2>5, <2>6
<1>9. ASSUME NEW r \in Replicas, ResolveHook(r) \/ Cleanup(r) PROVE NotifiedIsKnown'
  <2>1. UNCHANGED <<cond, ep, leader, eng, sent>>
    BY <1>9, ZenonT(30) DEF ResolveHook, Cleanup
  <2>2. Known
    BY <1>0, <1>b, <2>1
  <2>3. PICK e \in 0 .. ep : Erase(e) /\ e # ep
    BY <1>0, <1>9, <2>2 DEF ResolveHook, Cleanup, AlertTypeOK, EpisodesOrdered
  <2>4. note # ep
    <3>1. ep # 0 /\ ep > e
      BY <1>0, <2>2, <2>3 DEF EpisodesOrdered
    <3> QED
      BY <2>1, <2>3, <3>1 DEF Erase
  <2>5. stage[leader] = "persist" /\ at[leader] = ep /\ leader \in Replicas
    BY <1>a, <2>2, <2>4
  <2>6. stage'[leader] = stage[leader] /\ at'[leader] = at[leader]
    BY <1>0, <1>9, <2>5, ZenonT(30) DEF ResolveHook, Cleanup, Goto, AlertTypeOK
  <2> QED
    BY <2>1, <2>5, <2>6 DEF NotifiedIsKnown
<1>10. CASE UNCHANGED alertVars \/ \E r \in Replicas : Cancel(r)
  BY <1>10, <1>a, Zenon DEF alertVars, Cancel
<1> QED
  BY <1>1, <1>2, <1>3, <1>4, <1>5, <1>6, <1>7, <1>8, <1>9, <1>10, Zenon DEF AlertNext, NotifiedIsKnown

\* Nothing has been notified at the start.
LEMMA AlertStarts ==
    ASSUME AlertAssumption, AlertInit
    PROVE  AlertTypeOK /\ EnginesSane /\ EpisodesOrdered
<1>1. EnginesSane /\ EpisodesOrdered
  BY DEF AlertInit, EnginesSane, EpisodesOrdered
<1>2. /\ eng \in [Replicas -> Engines(ep) \cup {None}]
      /\ stage \in [Replicas -> {"idle", "send", "persist", "resolved", "trapped", "cleanup"}]
      /\ at \in [Replicas -> 0 .. ep] /\ hooks \in [Replicas -> SUBSET (0 .. ep)]
  BY DEF AlertInit
<1>3. rule \in {"trap", "metric"}
  BY DEF AlertInit, AlertAssumption
<1>4. /\ note \in 0 .. ep /\ pager \in 0 .. ep /\ ep \in Nat
      /\ \A es \in {sent, again, quiet, upset, orphans} : es \subseteq 0 .. ep
  BY DEF AlertInit
<1>5. cond \in BOOLEAN
  BY Zenon DEF AlertInit
<1>6. leader \in Replicas \cup {None} /\ active \subseteq Replicas /\ term \in Nat
  BY DEF AlertInit
<1> QED
  BY <1>1, <1>2, <1>3, <1>4, <1>5, <1>6 DEF AlertTypeOK

\* The notification state is in order, and an undisturbed episode is known.
THEOREM OnceInvariant == AlertSpec => []OnceInv
<1>1. AlertInit => OnceInv
  BY AlertAssumption, AlertStarts, ZenonT(30) DEF AlertInit, OnceInv, NotifiedIsKnown, PagedOnce
<1>2. OnceInv /\ [AlertNext]_alertVars => OnceInv'
  <2> SUFFICES ASSUME OnceInv, [AlertNext]_alertVars PROVE OnceInv'
    OBVIOUS
  <2>1. AlertTypeOK /\ EnginesSane /\ EpisodesOrdered
    BY DEF OnceInv
  <2>2. AlertTypeOK' /\ EnginesSane' /\ EpisodesOrdered'
    BY <2>1, AlertAssumption, AlertTypeStep, SaneStep, OrderedStep
  <2>3. NotifiedIsKnown' /\ PagedOnce'
    BY AlertAssumption, KnownStep, PagedStep
  <2>4. \A r \in Replicas : r = leader' /\ stage'[r] = "send" => at'[r] \notin sent' \ upset'
    BY AlertAssumption, FirstStep
  <2> QED
    BY <2>2, <2>3, <2>4 DEF OnceInv
<1> QED
  BY <1>1, <1>2, PTL DEF AlertSpec

\* A "notify once" alert pages once per episode across failovers.
THEOREM PagesOnce == AlertSpec => []PagedOnce
BY OnceInvariant, PTL DEF OnceInv
=============================================================================
