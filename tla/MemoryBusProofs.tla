--------------------------- MODULE MemoryBusProofs ---------------------------
(***************************************************************************)
(* The in-process bus loses count of no message and reports every one it   *)
(* drops, for any number of publishers, subscriptions, groups and workers  *)
(* and any buffer.                                                         *)
(***************************************************************************)
EXTENDS MemoryBus, FiniteSetTheorems, TLAPS

\* A finite set gains an element.
LEMMA Gains ==
    ASSUME NEW S, IsFiniteSet(S), NEW x, x \notin S, NEW T, T = S \cup {x}
    PROVE  IsFiniteSet(T) /\ Cardinality(S) \in Nat /\ Cardinality(T) = Cardinality(S) + 1
BY FS_AddElement, FS_CardinalityType

\* A finite set loses an element.
LEMMA Loses ==
    ASSUME NEW S, IsFiniteSet(S), NEW x \in S, NEW T, T = S \ {x}
    PROVE  /\ IsFiniteSet(T) /\ Cardinality(T) \in Nat /\ Cardinality(S) \in Nat
           /\ Cardinality(S) = Cardinality(T) + 1
<1>1. IsFiniteSet(T) /\ Cardinality(T) = Cardinality(S) - 1
  BY FS_RemoveElement
<1>2. Cardinality(T) \in Nat /\ Cardinality(S) \in Nat
  BY <1>1, FS_CardinalityType
<1> QED
  BY <1>1, <1>2

\* What a channel holds after a send.
LEMMA AppendHolds ==
    ASSUME NEW c \in Seq(Msgs), NEW p \in Msgs
    PROVE  \A q : (\E i \in 1..Len(Append(c, p)) : Append(c, p)[i] = q)
                  <=> (\E i \in 1..Len(c) : c[i] = q) \/ q = p
<1> DEFINE d == Append(c, p)
<1>1. /\ Len(c) \in Nat /\ Len(d) = Len(c) + 1 /\ d[Len(c) + 1] = p
      /\ \A i \in 1..Len(c) : d[i] = c[i]
  OBVIOUS
<1> HIDE DEF d
<1>2. ASSUME NEW q, NEW i \in 1..Len(d), d[i] = q
      PROVE  (\E j \in 1..Len(c) : c[j] = q) \/ q = p
  <2>1. i \in 1..Len(c) \/ i = Len(c) + 1
    BY <1>1
  <2> QED
    BY <1>1, <1>2, <2>1
<1>3. ASSUME NEW q, (\E j \in 1..Len(c) : c[j] = q) \/ q = p
      PROVE  \E i \in 1..Len(d) : d[i] = q
  <2>1. 1..Len(c) \subseteq 1..Len(d) /\ Len(c) + 1 \in 1..Len(d)
    BY <1>1
  <2> QED
    BY <1>1, <1>3, <2>1
<1> QED
  BY <1>2, <1>3 DEF d

\* A send of a message that is not in the channel repeats none.
LEMMA AppendDistinct ==
    ASSUME NEW c \in Seq(Msgs), NEW p \in Msgs,
           \A i, j \in 1..Len(c) : c[i] = c[j] => i = j,
           ~ \E i \in 1..Len(c) : c[i] = p
    PROVE  \A i, j \in 1..Len(Append(c, p)) : Append(c, p)[i] = Append(c, p)[j] => i = j
<1>1. /\ Len(c) \in Nat /\ Len(Append(c, p)) = Len(c) + 1
      /\ Append(c, p)[Len(c) + 1] = p
      /\ \A i \in 1..Len(c) : Append(c, p)[i] = c[i]
  OBVIOUS
<1>2. \A i \in 1..Len(c) + 1 : i \in 1..Len(c) \/ i = Len(c) + 1
  BY <1>1
<1> QED
  BY <1>1, <1>2

\* What a channel of distinct messages holds after a receive.
LEMMA TailHolds ==
    ASSUME NEW c \in Seq(Msgs), c # <<>>,
           \A i, j \in 1..Len(c) : c[i] = c[j] => i = j
    PROVE  /\ Head(c) \in Msgs /\ Tail(c) \in Seq(Msgs)
           /\ \E i \in 1..Len(c) : c[i] = Head(c)
           /\ \A i, j \in 1..Len(Tail(c)) : Tail(c)[i] = Tail(c)[j] => i = j
           /\ \A q : (\E i \in 1..Len(Tail(c)) : Tail(c)[i] = q)
                     <=> (\E i \in 1..Len(c) : c[i] = q) /\ q # Head(c)
<1> DEFINE t == Tail(c)
<1>1. /\ Len(c) \in Nat /\ Len(c) > 0 /\ c[1] = Head(c) /\ Head(c) \in Msgs
      /\ t \in Seq(Msgs) /\ Len(t) = Len(c) - 1
      /\ \A i \in 1..Len(t) : t[i] = c[i + 1]
  OBVIOUS
<1> HIDE DEF t
<1>2. \A i, j \in 1..Len(t) : t[i] = t[j] => i = j
  <2>1. \A i \in 1..Len(t) : i + 1 \in 1..Len(c)
    BY <1>1
  <2> QED
    BY <1>1, <2>1
<1>3. ASSUME NEW q, NEW i \in 1..Len(t), t[i] = q
      PROVE  (\E j \in 1..Len(c) : c[j] = q) /\ q # Head(c)
  <2>1. i + 1 \in 1..Len(c) /\ 1 \in 1..Len(c) /\ i + 1 # 1 /\ c[i + 1] = q
    BY <1>1, <1>3
  <2> QED
    BY <1>1, <2>1
<1>4. ASSUME NEW q, NEW j \in 1..Len(c), c[j] = q, q # Head(c)
      PROVE  \E i \in 1..Len(t) : t[i] = q
  <2>1. j - 1 \in 1..Len(t) /\ (j - 1) + 1 = j
    BY <1>1, <1>4
  <2> QED
    BY <1>1, <1>4, <2>1, Zenon
<1>5. 1 \in 1..Len(c)
  BY <1>1
<1> QED
  BY <1>1, <1>2, <1>3, <1>4, <1>5 DEF t

\* Steps that move no message.
LEMMA StillInv ==
    ASSUME BusInv, UNCHANGED <<chan, busy, fate, pub, chans, todo, offer, inFlight>>
    PROVE  BusInv'
BY DEF BusInv, BusTypeOK, ComesOnce, PublishCovers, Fresh, Queued, InChannel, InHandler, InSend,
       InFlightIsExact

\* The picked channels are all still to be sent to.
LEMMA SelectInv ==
    ASSUME BusConstants, BusInv, NEW p \in Msgs, Select(p)
    PROVE  BusInv'
<1>1. /\ UNCHANGED <<chan, busy, fate, offer, inFlight>> /\ pub[p] = "idle"
      /\ DOMAIN chans' = Msgs /\ DOMAIN todo' = Msgs /\ todo'[p] = chans'[p]
      /\ \A q \in Msgs \ {p} : todo'[q] = todo[q] /\ chans'[q] = chans[q] /\ pub'[q] = pub[q]
  BY DEF Select, subVars, flightVars, BusInv, BusTypeOK
<1>2. pub'[p] \in {"closed", "noSub", "sending"}
  BY DEF Select, BusInv, BusTypeOK
<1>3. pub' \in [Msgs -> {"idle", "closed", "noSub", "sending", "lossy", "dropped", "nil", "canceled"}]
  BY <1>2 DEF Select, BusInv, BusTypeOK
<1>4. \A s, q : Fresh(s, q)' <=> Fresh(s, q)
  BY <1>1 DEF Fresh, Queued
<1>5. BusTypeOK'
  BY <1>1, <1>3 DEF BusInv, BusTypeOK
<1>6. offer[p] = NoSub
  BY <1>1 DEF BusInv, PublishCovers
<1>7. ComesOnce'
  <2>1. \A s \in Subs, q \in Msgs : s \in todo'[q] \/ offer'[q] = s \/ pub'[q] = "idle" => Fresh(s, q)
    BY <1>1, <1>2 DEF BusInv, ComesOnce
  <2>2. \A s \in Subs, q \in Msgs : s \in todo'[q] => offer'[q] # s
    BY <1>1, <1>6 DEF BusInv, ComesOnce, BusConstants
  <2>3. \A s \in Subs, q \in Msgs : Queued(s, q)' => q \notin busy'[s]
    BY <1>1 DEF BusInv, ComesOnce, Queued
  <2> QED
    BY <1>1, <1>4, <2>1, <2>2, <2>3 DEF BusInv, ComesOnce
<1>8. PublishCovers'
  BY <1>1, <1>2, <1>4, <1>6 DEF BusInv, PublishCovers
<1> QED
  BY <1>1, <1>5, <1>7, <1>8 DEF BusInv, InChannel, InHandler, InSend, InFlightIsExact, Queued

\* addInFlight counts the message that is about to be sent.
LEMMA OfferInv ==
    ASSUME BusConstants, BusInv, NEW p \in Msgs, NEW s \in Subs, Offer(p, s)
    PROVE  BusInv'
<1>1. /\ UNCHANGED <<chan, busy, fate, pub, chans>> /\ inFlight' = inFlight + 1
      /\ pub[p] \in {"sending", "lossy"} /\ offer[p] = NoSub /\ s \in todo[p] /\ s # NoSub
      /\ offer' \in [Msgs -> Subs \cup {NoSub}] /\ offer'[p] = s
      /\ DOMAIN todo' = Msgs /\ todo'[p] = todo[p] \ {s}
      /\ \A q \in Msgs \ {p} : todo'[q] = todo[q] /\ offer'[q] = offer[q]
  BY DEF Offer, AddInFlight, subVars, BusInv, BusTypeOK, BusConstants
<1>2. \A t, q : Fresh(t, q)' <=> Fresh(t, q)
  BY <1>1 DEF Fresh, Queued
<1>3. BusTypeOK'
  BY <1>1 DEF BusInv, BusTypeOK
<1>4. ComesOnce'
  <2>1. \A t \in Subs, q \in Msgs : t \in todo'[q] \/ offer'[q] = t \/ pub'[q] = "idle" => Fresh(t, q)
    BY <1>1 DEF BusInv, ComesOnce
  <2>2. \A t \in Subs, q \in Msgs : t \in todo'[q] => offer'[q] # t
    BY <1>1 DEF BusInv, ComesOnce
  <2>3. \A t \in Subs, q \in Msgs : Queued(t, q)' => q \notin busy'[t]
    BY <1>1 DEF BusInv, ComesOnce, Queued
  <2> QED
    BY <1>1, <1>2, <2>1, <2>2, <2>3 DEF BusInv, ComesOnce
<1>5. PublishCovers'
  BY <1>1, <1>2 DEF BusInv, PublishCovers
<1>6. InSend' = InSend \cup {p} /\ p \notin InSend
  BY <1>1 DEF InSend
<1>7. IsFiniteSet(InSend)' /\ Cardinality(InSend) \in Nat /\ Cardinality(InSend') = Cardinality(InSend) + 1
  BY <1>6, Gains DEF BusInv
<1>8. InChannel' = InChannel /\ InHandler' = InHandler
  BY <1>1 DEF InChannel, InHandler, Queued
<1>9. InFlightIsExact'
  <2>1. Cardinality(InChannel) \in Nat /\ Cardinality(InHandler) \in Nat
    BY FS_CardinalityType DEF BusInv
  <2>2. inFlight = Cardinality(InChannel) + Cardinality(InHandler) + Cardinality(InSend)
    BY DEF BusInv, InFlightIsExact, InChannel, InHandler, InSend
  <2>3. inFlight' = Cardinality(InChannel') + Cardinality(InHandler') + Cardinality(InSend')
    BY <1>1, <1>7, <1>8, <2>1, <2>2
  <2> QED
    BY <2>3 DEF InFlightIsExact, InChannel, InHandler, InSend
<1> QED
  BY <1>3, <1>4, <1>5, <1>7, <1>8, <1>9 DEF BusInv

\* The count, by the places a message can be in.
LEMMA Counted ==
    ASSUME BusInv
    PROVE  /\ Cardinality(InChannel) \in Nat /\ Cardinality(InHandler) \in Nat
           /\ Cardinality(InSend) \in Nat
           /\ inFlight = Cardinality(InChannel) + Cardinality(InHandler) + Cardinality(InSend)
<1>1. Cardinality(InChannel) \in Nat /\ Cardinality(InHandler) \in Nat /\ Cardinality(InSend) \in Nat
  BY FS_CardinalityType DEF BusInv
<1> QED
  BY <1>1 DEF BusInv, InFlightIsExact, InChannel, InHandler, InSend

\* doneInFlight is called when one message left one of these places.
LEMMA DoneCounts ==
    ASSUME BusInv, DoneInFlight,
           \/ /\ InHandler' = InHandler /\ InSend' = InSend
              /\ \E x \in InChannel : InChannel' = InChannel \ {x}
           \/ /\ InChannel' = InChannel /\ InSend' = InSend
              /\ \E x \in InHandler : InHandler' = InHandler \ {x}
           \/ /\ InChannel' = InChannel /\ InHandler' = InHandler
              /\ \E x \in InSend : InSend' = InSend \ {x}
    PROVE  /\ IsFiniteSet(InChannel)' /\ IsFiniteSet(InHandler)' /\ IsFiniteSet(InSend)'
           /\ InFlightIsExact'
<1>1. /\ IsFiniteSet(InChannel') /\ IsFiniteSet(InHandler') /\ IsFiniteSet(InSend')
      /\ Cardinality(InChannel') \in Nat /\ Cardinality(InHandler') \in Nat /\ Cardinality(InSend') \in Nat
      /\ Cardinality(InChannel) + Cardinality(InHandler) + Cardinality(InSend)
           = Cardinality(InChannel') + Cardinality(InHandler') + Cardinality(InSend') + 1
  <2>0. IsFiniteSet(InChannel) /\ IsFiniteSet(InHandler) /\ IsFiniteSet(InSend)
    BY DEF BusInv
  <2>1. CASE /\ InHandler' = InHandler /\ InSend' = InSend
             /\ \E x \in InChannel : InChannel' = InChannel \ {x}
    <3>1. IsFiniteSet(InChannel') /\ Cardinality(InChannel') \in Nat
          /\ Cardinality(InChannel) = Cardinality(InChannel') + 1
      BY <2>0, <2>1, Loses
    <3> QED
      BY <2>0, <2>1, <3>1, Counted
  <2>2. CASE /\ InChannel' = InChannel /\ InSend' = InSend
             /\ \E x \in InHandler : InHandler' = InHandler \ {x}
    <3>1. IsFiniteSet(InHandler') /\ Cardinality(InHandler') \in Nat
          /\ Cardinality(InHandler) = Cardinality(InHandler') + 1
      BY <2>0, <2>2, Loses
    <3> QED
      BY <2>0, <2>2, <3>1, Counted
  <2>3. CASE /\ InChannel' = InChannel /\ InHandler' = InHandler
             /\ \E x \in InSend : InSend' = InSend \ {x}
    <3>1. IsFiniteSet(InSend') /\ Cardinality(InSend') \in Nat
          /\ Cardinality(InSend) = Cardinality(InSend') + 1
      BY <2>0, <2>3, Loses
    <3> QED
      BY <2>0, <2>3, <3>1, Counted
  <2> QED
    BY <2>1, <2>2, <2>3
<1>2. inFlight = Cardinality(InChannel) + Cardinality(InHandler) + Cardinality(InSend)
  BY Counted
<1>3. inFlight' = inFlight - 1
  BY <1>1, <1>2 DEF DoneInFlight
<1>4. inFlight' = Cardinality(InChannel') + Cardinality(InHandler') + Cardinality(InSend')
  BY <1>1, <1>2, <1>3
<1> QED
  BY <1>1, <1>4 DEF InFlightIsExact, InChannel, InHandler, InSend

\* A message that moves on from one of the places to the next stays counted.
LEMMA MoveCounts ==
    ASSUME BusInv, inFlight' = inFlight,
           \/ /\ InHandler' = InHandler
              /\ \E x \in InSend : InSend' = InSend \ {x}
              /\ \E y : y \notin InChannel /\ InChannel' = InChannel \cup {y}
           \/ /\ InSend' = InSend
              /\ \E x \in InChannel : InChannel' = InChannel \ {x}
              /\ \E y : y \notin InHandler /\ InHandler' = InHandler \cup {y}
    PROVE  /\ IsFiniteSet(InChannel)' /\ IsFiniteSet(InHandler)' /\ IsFiniteSet(InSend)'
           /\ InFlightIsExact'
<1>0. IsFiniteSet(InChannel) /\ IsFiniteSet(InHandler) /\ IsFiniteSet(InSend)
  BY DEF BusInv
<1>1. /\ IsFiniteSet(InChannel') /\ IsFiniteSet(InHandler') /\ IsFiniteSet(InSend')
      /\ Cardinality(InChannel) + Cardinality(InHandler) + Cardinality(InSend)
           = Cardinality(InChannel') + Cardinality(InHandler') + Cardinality(InSend')
  <2>1. CASE /\ InHandler' = InHandler
             /\ \E x \in InSend : InSend' = InSend \ {x}
             /\ \E y : y \notin InChannel /\ InChannel' = InChannel \cup {y}
    <3>1. IsFiniteSet(InSend') /\ Cardinality(InSend') \in Nat
          /\ Cardinality(InSend) = Cardinality(InSend') + 1
      BY <1>0, <2>1, Loses
    <3>2. IsFiniteSet(InChannel') /\ Cardinality(InChannel') = Cardinality(InChannel) + 1
      BY <1>0, <2>1, Gains
    <3> QED
      BY <1>0, <2>1, <3>1, <3>2, Counted
  <2>2. CASE /\ InSend' = InSend
             /\ \E x \in InChannel : InChannel' = InChannel \ {x}
             /\ \E y : y \notin InHandler /\ InHandler' = InHandler \cup {y}
    <3>1. IsFiniteSet(InChannel') /\ Cardinality(InChannel') \in Nat
          /\ Cardinality(InChannel) = Cardinality(InChannel') + 1
      BY <1>0, <2>2, Loses
    <3>2. IsFiniteSet(InHandler') /\ Cardinality(InHandler') = Cardinality(InHandler) + 1
      BY <1>0, <2>2, Gains
    <3> QED
      BY <1>0, <2>2, <3>1, <3>2, Counted
  <2> QED
    BY <2>1, <2>2
<1>2. inFlight' = Cardinality(InChannel') + Cardinality(InHandler') + Cardinality(InSend')
  BY <1>1, Counted
<1> QED
  BY <1>1, <1>2 DEF InFlightIsExact, InChannel, InHandler, InSend

\* ch <- msg: the message comes to the subscription, for the first time.
LEMMA SendInv ==
    ASSUME BusConstants, BusInv, NEW p \in Msgs, Send(p)
    PROVE  BusInv'
<1>0. PICK s \in Subs : s = offer[p]
  BY DEF Send, BusInv, BusTypeOK
<1>1. /\ UNCHANGED <<busy, fate, chans, todo, inFlight>>
      /\ offer[p] = s /\ s # NoSub /\ pub[p] \in {"sending", "lossy"} /\ Fresh(s, p)
      /\ offer' \in [Msgs -> Subs \cup {NoSub}] /\ offer'[p] = NoSub
      /\ \A q \in Msgs \ {p} : offer'[q] = offer[q] /\ pub'[q] = pub[q]
      /\ chan[s] \in Seq(Msgs) /\ chan'[s] = Append(chan[s], p)
      /\ \A t \in Subs \ {s} : chan'[t] = chan[t]
      /\ chan' \in [Subs -> Seq(Msgs)]
  BY <1>0 DEF Send, flightVars, BusInv, BusTypeOK, ComesOnce, PublishCovers
<1>2. pub'[p] = IF todo[p] # {} THEN (IF pub[p] = "lossy" THEN "lossy" ELSE "sending")
                                ELSE (IF pub[p] = "lossy" THEN "dropped" ELSE "nil")
  BY DEF Send, After, BusInv, BusTypeOK
<1>3. pub' \in [Msgs -> {"idle", "closed", "noSub", "sending", "lossy", "dropped", "nil", "canceled"}]
  BY <1>2 DEF Send, BusInv, BusTypeOK
<1>4. BusTypeOK'
  BY <1>1, <1>3 DEF BusInv, BusTypeOK
<1>5. \A t \in Subs, q \in Msgs : Queued(t, q)' <=> Queued(t, q) \/ (t = s /\ q = p)
  <2>1. \A q : Queued(s, q)' <=> Queued(s, q) \/ q = p
    <3>1. \A q : (\E i \in 1..Len(Append(chan[s], p)) : Append(chan[s], p)[i] = q)
                 <=> (\E i \in 1..Len(chan[s]) : chan[s][i] = q) \/ q = p
      <4>1. chan[s] \in Seq(Msgs)
        BY <1>1
      <4> QED
        BY <4>1, AppendHolds, Zenon
    <3>2. chan'[s] = Append(chan[s], p)
      BY <1>1
    <3> QED
      BY <3>1, <3>2, Zenon DEF Queued
  <2>2. \A t \in Subs \ {s}, q \in Msgs : Queued(t, q)' <=> Queued(t, q)
    BY <1>1 DEF Queued
  <2> QED
    BY <2>1, <2>2
<1>6. \A t \in Subs : \A i, j \in 1..Len(chan'[t]) : chan'[t][i] = chan'[t][j] => i = j
  <2>1. \A i, j \in 1..Len(chan[s]) : chan[s][i] = chan[s][j] => i = j
    BY <1>1 DEF BusInv, ComesOnce
  <2>2. ~ \E i \in 1..Len(chan[s]) : chan[s][i] = p
    BY <1>1 DEF Fresh, Queued
  <2>3. \A i, j \in 1..Len(chan'[s]) : chan'[s][i] = chan'[s][j] => i = j
    BY <1>1, <2>1, <2>2, AppendDistinct
  <2> QED
    <3>1. \A t \in Subs \ {s} : \A i, j \in 1..Len(chan'[t]) : chan'[t][i] = chan'[t][j] => i = j
      BY <1>1, ZenonT(30) DEF BusInv, ComesOnce
    <3> QED
      BY <2>3, <3>1
<1>7. \A t \in Subs, q \in Msgs : Fresh(t, q)' <=> Fresh(t, q) /\ ~ (t = s /\ q = p)
  BY <1>1, <1>5 DEF Fresh
<1>8. ComesOnce'
  <2>1. \A t \in Subs, q \in Msgs : t \in todo'[q] \/ offer'[q] = t \/ pub'[q] = "idle" => Fresh(t, q)'
    BY <1>1, <1>2, <1>7 DEF BusInv, ComesOnce, BusConstants
  <2>2. \A t \in Subs, q \in Msgs : t \in todo'[q] => offer'[q] # t
    BY <1>1 DEF BusInv, ComesOnce, BusConstants
  <2>3. \A t \in Subs, q \in Msgs : Queued(t, q)' => q \notin busy'[t]
    BY <1>1, <1>5 DEF BusInv, ComesOnce, Fresh
  <2> QED
    BY <1>6, <2>1, <2>2, <2>3 DEF ComesOnce
<1>9. PublishCovers'
  <2>1. ASSUME NEW q \in Msgs, pub'[q] \in {"sending", "nil"}, NEW t \in chans[q] \ todo[q]
        PROVE  t \in Subs /\ (offer'[q] = t \/ ~ Fresh(t, q)')
    <3>1. pub[q] \in {"sending", "nil"}
      BY <1>1, <1>2, <2>1
    <3>2. t \in Subs /\ (offer[q] = t \/ ~ Fresh(t, q))
      BY <2>1, <3>1 DEF BusInv, PublishCovers
    <3> QED
      BY <1>1, <1>7, <3>2
  <2>2. \A q \in Msgs : /\ pub'[q] \in {"idle", "nil"} => todo[q] = {}
                        /\ offer'[q] # NoSub => pub'[q] \in {"sending", "lossy"}
    BY <1>1, <1>2 DEF BusInv, PublishCovers
  <2> QED
    BY <1>1, <2>1, <2>2 DEF PublishCovers
<1>10. /\ InHandler' = InHandler
       /\ p \in InSend /\ InSend' = InSend \ {p}
       /\ <<s, p>> \notin InChannel /\ InChannel' = InChannel \cup {<<s, p>>}
  <2>1. InHandler' = InHandler
    BY <1>1 DEF InHandler
  <2>2. p \in InSend /\ InSend' = InSend \ {p}
    BY <1>1 DEF InSend
  <2>3. <<s, p>> \notin InChannel
    BY <1>1 DEF InChannel, Fresh
  <2>4. InChannel' = InChannel \cup {<<s, p>>}
    BY <1>1, <1>5 DEF InChannel
  <2> QED
    BY <2>1, <2>2, <2>3, <2>4
<1>11. IsFiniteSet(InChannel)' /\ IsFiniteSet(InHandler)' /\ IsFiniteSet(InSend)' /\ InFlightIsExact'
  BY <1>1, <1>10, MoveCounts
<1> QED
  BY <1>4, <1>8, <1>9, <1>11 DEF BusInv

\* A send that is given up is taken out of the count, and Publish will not
\* answer nil.
LEMMA GiveUpInv ==
    ASSUME BusConstants, BusInv, NEW p \in Msgs, Drop(p) \/ CancelSend(p)
    PROVE  BusInv'
<1>1. /\ UNCHANGED <<chan, busy, fate, chans>> /\ DoneInFlight
      /\ offer[p] # NoSub /\ pub[p] \in {"sending", "lossy"}
      /\ offer' \in [Msgs -> Subs \cup {NoSub}] /\ offer'[p] = NoSub
      /\ DOMAIN todo' = Msgs /\ todo'[p] \subseteq todo[p]
      /\ \A q \in Msgs \ {p} : offer'[q] = offer[q] /\ pub'[q] = pub[q] /\ todo'[q] = todo[q]
  BY ZenonT(30) DEF Drop, CancelSend, subVars, BusInv, BusTypeOK, PublishCovers
<1>2. pub'[p] \in {"lossy", "dropped", "canceled"}
  BY DEF Drop, CancelSend, After, BusInv, BusTypeOK
<1>3. pub' \in [Msgs -> {"idle", "closed", "noSub", "sending", "lossy", "dropped", "nil", "canceled"}]
  BY <1>2, Zenon DEF Drop, CancelSend, BusInv, BusTypeOK
<1>4. BusTypeOK'
  BY <1>1, <1>3 DEF BusInv, BusTypeOK
<1>5. \A t, q : Fresh(t, q)' <=> Fresh(t, q)
  BY <1>1 DEF Fresh, Queued
<1>6. ComesOnce'
  <2>1. \A t \in Subs, q \in Msgs : t \in todo'[q] \/ offer'[q] = t \/ pub'[q] = "idle" => Fresh(t, q)
    BY <1>1, <1>2 DEF BusInv, ComesOnce, BusConstants
  <2>2. \A t \in Subs, q \in Msgs : t \in todo'[q] => offer'[q] # t
    BY <1>1 DEF BusInv, ComesOnce, BusConstants
  <2>3. \A t \in Subs, q \in Msgs : Queued(t, q)' => q \notin busy'[t]
    BY <1>1 DEF BusInv, ComesOnce, Queued
  <2> QED
    BY <1>1, <1>5, <2>1, <2>2, <2>3 DEF BusInv, ComesOnce
<1>7. PublishCovers'
  BY <1>1, <1>2, <1>5 DEF BusInv, PublishCovers
<1>8. InChannel' = InChannel /\ InHandler' = InHandler /\ p \in InSend /\ InSend' = InSend \ {p}
  BY <1>1 DEF InChannel, InHandler, InSend, Queued
<1>9. IsFiniteSet(InChannel)' /\ IsFiniteSet(InHandler)' /\ IsFiniteSet(InSend)' /\ InFlightIsExact'
  BY <1>1, <1>8, DoneCounts
<1> QED
  BY <1>4, <1>6, <1>7, <1>9 DEF BusInv

\* A message that has come to a subscription goes on there.
LEMMA Onward ==
    ASSUME BusInv, BusTypeOK', UNCHANGED <<pub, chans, todo, offer>>,
           NEW s \in Subs, NEW p \in Msgs, ~ Fresh(s, p), ~ Fresh(s, p)',
           Queued(s, p)' => p \notin busy'[s],
           \A t \in Subs, q \in Msgs : ~ (t = s /\ q = p) =>
               /\ Queued(t, q)' <=> Queued(t, q)
               /\ q \in busy'[t] <=> q \in busy[t]
               /\ fate'[t][q] = fate[t][q],
           \A t \in Subs : \A i, j \in 1..Len(chan'[t]) : chan'[t][i] = chan'[t][j] => i = j
    PROVE  ComesOnce' /\ PublishCovers'
<1>1. \A t \in Subs, q \in Msgs : Fresh(t, q)' <=> Fresh(t, q)
  BY DEF Fresh
<1>2. ComesOnce'
  <2>1. \A t \in Subs, q \in Msgs : t \in todo'[q] \/ offer'[q] = t \/ pub'[q] = "idle" => Fresh(t, q)'
    BY <1>1 DEF BusInv, ComesOnce
  <2>2. \A t \in Subs, q \in Msgs : t \in todo'[q] => offer'[q] # t
    BY DEF BusInv, ComesOnce
  <2>3. \A t \in Subs, q \in Msgs : Queued(t, q)' => q \notin busy'[t]
    BY DEF BusInv, ComesOnce
  <2> QED
    BY <2>1, <2>2, <2>3 DEF ComesOnce
<1>3. PublishCovers'
  BY <1>1 DEF BusInv, PublishCovers
<1> QED
  BY <1>2, <1>3

\* The channel after a receive: its head is gone, the rest is still there.
LEMMA ReceiveInv ==
    ASSUME BusInv, NEW s \in Subs, chan[s] # <<>>, chan' = [chan EXCEPT ![s] = Tail(@)]
    PROVE  /\ chan' \in [Subs -> Seq(Msgs)]
           /\ Head(chan[s]) \in Msgs /\ Queued(s, Head(chan[s]))
           /\ \A t \in Subs, q \in Msgs :
                 Queued(t, q)' <=> Queued(t, q) /\ ~ (t = s /\ q = Head(chan[s]))
           /\ \A t \in Subs : \A i, j \in 1..Len(chan'[t]) : chan'[t][i] = chan'[t][j] => i = j
           /\ <<s, Head(chan[s])>> \in InChannel
           /\ InChannel' = InChannel \ {<<s, Head(chan[s])>>}
<1> DEFINE c == chan[s]
<1>1. /\ c \in Seq(Msgs) /\ c # <<>>
      /\ \A i, j \in 1..Len(c) : c[i] = c[j] => i = j
  BY DEF BusInv, BusTypeOK, ComesOnce
<1>2. /\ Head(c) \in Msgs /\ Tail(c) \in Seq(Msgs)
      /\ \E i \in 1..Len(c) : c[i] = Head(c)
      /\ \A i, j \in 1..Len(Tail(c)) : Tail(c)[i] = Tail(c)[j] => i = j
      /\ \A q : (\E i \in 1..Len(Tail(c)) : Tail(c)[i] = q)
                <=> (\E i \in 1..Len(c) : c[i] = q) /\ q # Head(c)
  BY <1>1, TailHolds, Zenon
<1>3. /\ chan' \in [Subs -> Seq(Msgs)] /\ chan'[s] = Tail(c)
      /\ \A t \in Subs \ {s} : chan'[t] = chan[t]
  BY <1>2 DEF BusInv, BusTypeOK
<1>4. Queued(s, Head(c))
  BY <1>2 DEF Queued
<1>5. \A t \in Subs, q \in Msgs : Queued(t, q)' <=> Queued(t, q) /\ ~ (t = s /\ q = Head(c))
  <2>1. \A q : Queued(s, q)' <=> Queued(s, q) /\ q # Head(c)
    BY <1>2, <1>3, Zenon DEF Queued
  <2>2. \A t \in Subs \ {s}, q \in Msgs : Queued(t, q)' <=> Queued(t, q)
    BY <1>3 DEF Queued
  <2> QED
    BY <2>1, <2>2
<1>6. \A t \in Subs : \A i, j \in 1..Len(chan'[t]) : chan'[t][i] = chan'[t][j] => i = j
  BY <1>2, <1>3 DEF BusInv, ComesOnce
<1>7. <<s, Head(c)>> \in InChannel /\ InChannel' = InChannel \ {<<s, Head(c)>>}
  BY <1>2, <1>4, <1>5 DEF InChannel
<1> QED
  BY <1>2, <1>3, <1>4, <1>5, <1>6, <1>7

\* A worker takes a message out of the channel.
LEMMA TakeInv ==
    ASSUME BusInv, NEW s \in Subs, Take(s)
    PROVE  BusInv'
<1>0. PICK p : p = Head(chan[s])
  OBVIOUS
<1>1. /\ chan[s] # <<>> /\ chan' = [chan EXCEPT ![s] = Tail(@)]
      /\ UNCHANGED <<fate, pub, chans, todo, offer, inFlight>>
  BY DEF Take, pubVars, flightVars
<1>2. /\ chan' \in [Subs -> Seq(Msgs)]
      /\ p \in Msgs /\ Queued(s, p)
      /\ \A t \in Subs, q \in Msgs : Queued(t, q)' <=> Queued(t, q) /\ ~ (t = s /\ q = p)
      /\ \A t \in Subs : \A i, j \in 1..Len(chan'[t]) : chan'[t][i] = chan'[t][j] => i = j
      /\ <<s, p>> \in InChannel /\ InChannel' = InChannel \ {<<s, p>>}
  BY <1>0, <1>1, ReceiveInv, ZenonT(30)
<1>3. /\ busy' \in [Subs -> SUBSET Msgs]
      /\ \A t \in Subs, q \in Msgs : q \in busy'[t] <=> q \in busy[t] \/ (t = s /\ q = p)
  BY <1>0, <1>2 DEF Take, BusInv, BusTypeOK
<1>4. BusTypeOK'
  BY <1>1, <1>2, <1>3 DEF BusInv, BusTypeOK
<1>5. ~ Fresh(s, p) /\ ~ Fresh(s, p)' /\ ~ Queued(s, p)' /\ p \notin busy[s]
  BY <1>2, <1>3 DEF Fresh, BusInv, ComesOnce
<1>6. ComesOnce' /\ PublishCovers'
  <2>1. \A t \in Subs, q \in Msgs : ~ (t = s /\ q = p) =>
          /\ Queued(t, q)' <=> Queued(t, q)
          /\ q \in busy'[t] <=> q \in busy[t]
          /\ fate'[t][q] = fate[t][q]
    BY <1>1, <1>2, <1>3
  <2>2. /\ UNCHANGED <<pub, chans, todo, offer>> /\ p \in Msgs
        /\ \A t \in Subs : \A i, j \in 1..Len(chan'[t]) : chan'[t][i] = chan'[t][j] => i = j
    BY <1>1, <1>2, Zenon
  <2> QED
    BY <1>4, <1>5, <2>1, <2>2, Onward
<1>7. InSend' = InSend /\ <<s, p>> \notin InHandler /\ InHandler' = InHandler \cup {<<s, p>>}
  <2>1. InSend' = InSend
    BY <1>1 DEF InSend
  <2>2. <<s, p>> \notin InHandler /\ InHandler' = InHandler \cup {<<s, p>>}
    BY <1>2, <1>3, <1>5 DEF InHandler
  <2> QED
    BY <2>1, <2>2
<1>8. IsFiniteSet(InChannel)' /\ IsFiniteSet(InHandler)' /\ IsFiniteSet(InSend)' /\ InFlightIsExact'
  BY <1>1, <1>2, <1>7, MoveCounts
<1> QED
  BY <1>4, <1>6, <1>8 DEF BusInv

\* deliver is done with a message.
LEMMA SettleInv ==
    ASSUME BusInv, NEW s \in Subs, NEW p \in busy[s], NEW how \in {"handled", "lost"},
           Settle(s, p, how), UNCHANGED <<chan, pub, chans, todo, offer>>
    PROVE  BusInv'
<1>1. /\ p \in Msgs /\ busy' \in [Subs -> SUBSET Msgs]
      /\ \A t \in Subs, q \in Msgs : q \in busy'[t] <=> q \in busy[t] /\ ~ (t = s /\ q = p)
  BY DEF Settle, BusInv, BusTypeOK
<1>2. /\ fate' \in [Subs -> [Msgs -> {"none", "handled", "lost", "drained"}]]
      /\ fate'[s][p] = how
      /\ \A t \in Subs, q \in Msgs : ~ (t = s /\ q = p) => fate'[t][q] = fate[t][q]
  BY <1>1 DEF Settle, BusInv, BusTypeOK
<1>3. BusTypeOK'
  BY <1>1, <1>2 DEF BusInv, BusTypeOK
<1>4. \A t, q : Queued(t, q)' <=> Queued(t, q)
  BY DEF Queued
<1>5. ~ Fresh(s, p) /\ ~ Fresh(s, p)' /\ (Queued(s, p)' => p \notin busy'[s])
  BY <1>1, <1>2 DEF Fresh
<1>6. ComesOnce' /\ PublishCovers'
  <2>1. \A t \in Subs : \A i, j \in 1..Len(chan'[t]) : chan'[t][i] = chan'[t][j] => i = j
    BY DEF BusInv, ComesOnce
  <2> QED
    BY <1>1, <1>2, <1>3, <1>4, <1>5, <2>1, Onward
<1>7. /\ InChannel' = InChannel /\ InSend' = InSend
      /\ <<s, p>> \in InHandler /\ InHandler' = InHandler \ {<<s, p>>}
  <2>1. InChannel' = InChannel /\ InSend' = InSend
    BY <1>4 DEF InChannel, InSend
  <2>2. <<s, p>> \in InHandler /\ InHandler' = InHandler \ {<<s, p>>}
    BY <1>1 DEF InHandler
  <2> QED
    BY <2>1, <2>2
<1>8. IsFiniteSet(InChannel)' /\ IsFiniteSet(InHandler)' /\ IsFiniteSet(InSend)' /\ InFlightIsExact'
  BY <1>7, DoneCounts DEF Settle
<1> QED
  BY <1>3, <1>6, <1>8 DEF BusInv

\* The deferred loop throws a message away.
LEMMA DrainInv ==
    ASSUME BusInv, NEW s \in Subs, Drain(s), chan[s] # <<>>
    PROVE  BusInv'
<1>0. PICK p : p = Head(chan[s])
  OBVIOUS
<1>1. /\ chan' = [chan EXCEPT ![s] = Tail(@)] /\ DoneInFlight
      /\ fate' = [fate EXCEPT ![s][p] = "drained"]
      /\ UNCHANGED <<busy, pub, chans, todo, offer>>
  BY <1>0 DEF Drain, pubVars
<1>2. /\ chan' \in [Subs -> Seq(Msgs)]
      /\ p \in Msgs /\ Queued(s, p)
      /\ \A t \in Subs, q \in Msgs : Queued(t, q)' <=> Queued(t, q) /\ ~ (t = s /\ q = p)
      /\ \A t \in Subs : \A i, j \in 1..Len(chan'[t]) : chan'[t][i] = chan'[t][j] => i = j
      /\ <<s, p>> \in InChannel /\ InChannel' = InChannel \ {<<s, p>>}
  BY <1>0, <1>1, ReceiveInv, Zenon
<1>3. /\ fate' \in [Subs -> [Msgs -> {"none", "handled", "lost", "drained"}]]
      /\ fate'[s][p] = "drained"
      /\ \A t \in Subs, q \in Msgs : ~ (t = s /\ q = p) => fate'[t][q] = fate[t][q]
  BY <1>1, <1>2 DEF BusInv, BusTypeOK
<1>4. BusTypeOK'
  BY <1>1, <1>2, <1>3 DEF BusInv, BusTypeOK
<1>5. ~ Fresh(s, p) /\ ~ Fresh(s, p)' /\ ~ Queued(s, p)'
  BY <1>2, <1>3 DEF Fresh
<1>6. ComesOnce' /\ PublishCovers'
  <2>1. \A t \in Subs, q \in Msgs : ~ (t = s /\ q = p) =>
          /\ Queued(t, q)' <=> Queued(t, q)
          /\ q \in busy'[t] <=> q \in busy[t]
          /\ fate'[t][q] = fate[t][q]
    BY <1>1, <1>2, <1>3
  <2>2. /\ UNCHANGED <<pub, chans, todo, offer>> /\ p \in Msgs
        /\ \A t \in Subs : \A i, j \in 1..Len(chan'[t]) : chan'[t][i] = chan'[t][j] => i = j
    BY <1>1, <1>2
  <2> QED
    BY <1>4, <1>5, <2>1, <2>2, Onward
<1>7. InSend' = InSend /\ InHandler' = InHandler
  BY <1>1 DEF InSend, InHandler
<1>8. IsFiniteSet(InChannel)' /\ IsFiniteSet(InHandler)' /\ IsFiniteSet(InSend)' /\ InFlightIsExact'
  BY <1>1, <1>2, <1>7, DoneCounts
<1> QED
  BY <1>4, <1>6, <1>8 DEF BusInv

\* The inductive invariant of the in-process bus.
THEOREM BusInvariant == Spec => []BusInv
<1>1. Init => BusInv
  <2> SUFFICES ASSUME Init PROVE BusInv
    OBVIOUS
  <2>1. BusTypeOK
    BY DEF Init, BusTypeOK
  <2>2. \A s \in Subs, p \in Msgs : ~ Queued(s, p) /\ Fresh(s, p)
    BY DEF Init, Queued, Fresh
  <2>3. ComesOnce
    BY <2>2, BusConstants DEF Init, ComesOnce, BusConstants
  <2>4. PublishCovers
    BY DEF Init, PublishCovers
  <2>5. InChannel = {} /\ InHandler = {} /\ InSend = {}
    BY <2>2 DEF Init, InChannel, InHandler, InSend
  <2>6. IsFiniteSet({}) /\ Cardinality({}) = 0
    BY FS_EmptySet
  <2>7. inFlight = Cardinality(InChannel) + Cardinality(InHandler) + Cardinality(InSend)
    BY <2>5, <2>6 DEF Init
  <2> QED
    BY <2>1, <2>3, <2>4, <2>5, <2>6, <2>7 DEF BusInv, InFlightIsExact, InChannel, InHandler, InSend
<1>2. BusInv /\ [Next]_vars => BusInv'
  <2> SUFFICES ASSUME BusInv, [Next]_vars PROVE BusInv'
    OBVIOUS
  <2> USE BusConstants
  <2>1. ASSUME NEW p \in Msgs, PublisherNext(p) PROVE BusInv'
    <3>1. FlushLooks(p) \/ FlushTimesOut(p) =>
            UNCHANGED <<chan, busy, fate, pub, chans, todo, offer, inFlight>>
      BY DEF FlushLooks, FlushTimesOut, subVars, pubVars
    <3> QED
      BY <2>1, <3>1, StillInv, SelectInv, OfferInv, SendInv, GiveUpInv DEF PublisherNext
  <2>2. ASSUME NEW s \in Subs, SubscriberNext(s) PROVE BusInv'
    <3>1. CASE (\E g \in Groups : Join(s, g)) \/ CancelSub(s) \/ Leave(s)
      <4>1. UNCHANGED <<chan, busy, fate, pub, chans, todo, offer, inFlight>>
        BY <3>1, ZenonT(30) DEF Join, CancelSub, Leave, pubVars, flightVars
      <4> QED
        BY <4>1, StillInv
    <3>2. CASE Take(s)
      BY <3>2, TakeInv
    <3>3. CASE Drain(s)
      <4>1. CASE chan[s] = <<>>
        <5>1. UNCHANGED <<chan, busy, fate, pub, chans, todo, offer, inFlight>>
          BY <3>3, <4>1 DEF Drain, pubVars, flightVars
        <5> QED
          BY <5>1, StillInv
      <4>2. CASE chan[s] # <<>>
        BY <3>3, <4>2, DrainInv
      <4> QED
        BY <4>1, <4>2
    <3>4. ASSUME NEW p \in Msgs, HandlerSucceeds(s, p) PROVE BusInv'
      <4>1. p \in busy[s] /\ Settle(s, p, "handled") /\ UNCHANGED <<chan, pub, chans, todo, offer>>
        BY <3>4 DEF HandlerSucceeds, pubVars
      <4> QED
        BY <4>1, SettleInv
    <3>5. ASSUME NEW p \in Msgs, HandlerFails(s, p) PROVE BusInv'
      <4>1. p \in busy[s] /\ UNCHANGED <<chan, pub, chans, todo, offer>>
        BY <3>5 DEF HandlerFails, pubVars
      <4>2. Settle(s, p, "lost") \/ UNCHANGED <<busy, fate, inFlight>>
        BY <3>5 DEF HandlerFails, flightVars
      <4> QED
        BY <4>1, <4>2, SettleInv, StillInv
    <3> QED
      BY <2>2, <3>1, <3>2, <3>3, <3>4, <3>5 DEF SubscriberNext
  <2>3. Close \/ UNCHANGED vars => UNCHANGED <<chan, busy, fate, pub, chans, todo, offer, inFlight>>
    BY DEF Close, vars, subVars, pubVars, flightVars
  <2> QED
    BY <2>1, <2>2, <2>3, StillInv DEF Next
<1> QED
  BY <1>1, <1>2, PTL DEF Spec

\* The in-flight count of Memory is exact at every step.
THEOREM InFlightHolds == Spec => []InFlightIsExact
<1>1. BusInv => InFlightIsExact
  BY DEF BusInv
<1> QED
  BY <1>1, BusInvariant, PTL

\* A nil from Publish means that the message came to every picked member.
THEOREM NilIsHonest == Spec => []NilMeansEveryGroup
<1>1. BusInv => NilMeansEveryGroup
  BY BusConstants DEF BusInv, PublishCovers, NilMeansEveryGroup, Fresh, BusConstants
<1> QED
  BY <1>1, BusInvariant, PTL
=============================================================================
