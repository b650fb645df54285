----------------------------- MODULE MemoryBus -----------------------------
(***************************************************************************)
(* The in-process bus (internal/bus/memory.go), one topic of it.  Publish  *)
(* picks one member of every consumer group under the lock and sends to    *)
(* the picked channels after unlocking; Subscribe hands its channel's      *)
(* messages to worker goroutines until it is cancelled, then leaves its    *)
(* group and empties the channel; Flush waits for the in-flight count to   *)
(* reach zero.  A message stands for one Publish call and the Flush that   *)
(* may follow it, a subscription for one Subscribe call.                   *)
(***************************************************************************)
EXTENDS Naturals, Sequences, FiniteSets

CONSTANTS Msgs,         \* Publish calls
          Flushers,     \* those that are followed by a Flush
          Subs,         \* Subscribe calls
          NoSub,        \* not a subscription
          Groups,       \* consumer groups
          Leavers,      \* subscriptions whose context may be cancelled
          BufSize,      \* capacity of a delivery channel
          Workers,      \* handler goroutines of a subscription
          MaxRedeliver  \* memoryMaxRedeliver

ASSUME BusConstants ==
    /\ NoSub \notin Subs
    /\ Flushers \subseteq Msgs
    /\ Leavers \subseteq Subs
    /\ BufSize \in Nat \ {0} /\ Workers \in Nat \ {0} /\ MaxRedeliver \in Nat

VARIABLES dropOn,       \* the overflow policy the bus was built with
          closed,       \* Memory.closed
          members,      \* memoryGroup.members of every group
          next,         \* memoryGroup.next of every group
          sub,          \* where each Subscribe call is
          chan,         \* its delivery channel
          busy,         \* messages its workers have in the handler
          tries,        \* handler errors of a message at a subscription
          fate,         \* how a message ended at a subscription
          pub,          \* where each Publish call is, or what it returned
          chans,        \* the channels it selected
          todo,         \* selected channels it has not sent to yet
          offer,        \* the channel it is sending to, counted in flight
          inFlight,     \* Memory.inFlight
          flush         \* where the Flush after a Publish is

busVars == <<closed, members, next>>
subVars == <<sub, chan, busy, tries, fate>>
pubVars == <<pub, chans, todo, offer>>
flightVars == <<inFlight, flush>>
vars == <<dropOn, busVars, subVars, pubVars, flightVars>>

Init ==
    /\ dropOn \in BOOLEAN
    /\ closed = FALSE
    /\ members = [g \in Groups |-> <<>>]
    /\ next = [g \in Groups |-> 0]
    /\ sub = [s \in Subs |-> "out"]
    /\ chan = [s \in Subs |-> <<>>]
    /\ busy = [s \in Subs |-> {}]
    /\ tries = [s \in Subs |-> [p \in Msgs |-> 0]]
    /\ fate = [s \in Subs |-> [p \in Msgs |-> "none"]]
    /\ pub = [p \in Msgs |-> "idle"]
    /\ chans = [p \in Msgs |-> {}]
    /\ todo = [p \in Msgs |-> {}]
    /\ offer = [p \in Msgs |-> NoSub]
    /\ inFlight = 0
    /\ flush = [p \in Msgs |-> "looking"]

-----------------------------------------------------------------------------
(* In-flight accounting *)

\* Mutation: every message replaces the flushWait channel, also one that Flush
\* calls wait on.
AddInFlightFreshWait ==
    /\ inFlight' = inFlight + 1
    /\ flush' = [p \in Msgs |-> IF flush[p] = "waiting" THEN "stranded" ELSE flush[p]]

\* The first message in flight makes a new flushWait channel; nobody waits on
\* the old one, which was closed.
AddInFlight ==
    /\ inFlight' = inFlight + 1
    /\ UNCHANGED flush

\* The last one closes flushWait: every waiter looks again.
DoneInFlight ==
    /\ inFlight' = IF inFlight = 0 THEN 0 ELSE inFlight - 1
    /\ flush' = [p \in Msgs |-> IF inFlight = 1 /\ flush[p] = "waiting"
                                THEN "looking" ELSE flush[p]]

-----------------------------------------------------------------------------
(* Publish *)

Chosen(g) == members[g][(next[g] % Len(members[g])) + 1]

Populated == {g \in Groups : members[g] # <<>>}

\* Under the lock: one member of every group that has one.
Select(p) ==
    /\ pub[p] = "idle"
    /\ chans' = [chans EXCEPT ![p] = IF closed THEN {} ELSE {Chosen(g) : g \in Populated}]
    /\ todo' = [todo EXCEPT ![p] = chans'[p]]
    /\ next' = [g \in Groups |-> IF ~closed /\ g \in Populated
                                 THEN (next[g] + 1) % Len(members[g]) ELSE next[g]]
    /\ pub' = [pub EXCEPT ![p] = CASE closed -> "closed"
                                   [] ~closed /\ Populated = {} -> "noSub"
                                   [] OTHER -> "sending"]
    /\ UNCHANGED <<dropOn, closed, members, subVars, offer, flightVars>>

\* addInFlight before the send.
Offer(p, s) ==
    /\ pub[p] \in {"sending", "lossy"}
    /\ offer[p] = NoSub
    /\ s \in todo[p]
    /\ offer' = [offer EXCEPT ![p] = s]
    /\ todo' = [todo EXCEPT ![p] = @ \ {s}]
    /\ AddInFlight
    /\ UNCHANGED <<dropOn, busVars, subVars, pub, chans>>

\* What Publish is at, or answers, after the channel it was sending to.
After(p, lossy) ==
    IF todo[p] # {} THEN (IF lossy THEN "lossy" ELSE "sending")
                    ELSE (IF lossy THEN "dropped" ELSE "nil")

\* ch <- msg, also when the subscription behind ch has gone meanwhile.
Send(p) ==
    /\ offer[p] # NoSub
    /\ Len(chan[offer[p]]) < BufSize
    /\ chan' = [chan EXCEPT ![offer[p]] = Append(@, p)]
    /\ offer' = [offer EXCEPT ![p] = NoSub]
    /\ pub' = [pub EXCEPT ![p] = After(p, @ = "lossy")]
    /\ UNCHANGED <<dropOn, busVars, sub, busy, tries, fate, chans, todo, flightVars>>

\* Mutation: the drop is counted but not reported to the publisher.
DropSilently(p) ==
    /\ dropOn
    /\ offer[p] # NoSub
    /\ Len(chan[offer[p]]) >= BufSize
    /\ offer' = [offer EXCEPT ![p] = NoSub]
    /\ pub' = [pub EXCEPT ![p] = After(p, FALSE)]
    /\ DoneInFlight
    /\ UNCHANGED <<dropOn, busVars, subVars, chans, todo>>

\* Drop policy, buffer full.
Drop(p) ==
    /\ dropOn
    /\ offer[p] # NoSub
    /\ Len(chan[offer[p]]) >= BufSize
    /\ offer' = [offer EXCEPT ![p] = NoSub]
    /\ pub' = [pub EXCEPT ![p] = After(p, TRUE)]
    /\ DoneInFlight
    /\ UNCHANGED <<dropOn, busVars, subVars, chans, todo>>

\* Mutation: the cancelled send stays counted.
CancelSendLeaks(p) ==
    /\ ~dropOn
    /\ offer[p] # NoSub
    /\ offer' = [offer EXCEPT ![p] = NoSub]
    /\ todo' = [todo EXCEPT ![p] = {}]
    /\ pub' = [pub EXCEPT ![p] = "canceled"]
    /\ UNCHANGED <<dropOn, busVars, subVars, chans, flightVars>>

\* Block policy: the publisher's context ends before the channel takes it.
CancelSend(p) ==
    /\ ~dropOn
    /\ offer[p] # NoSub
    /\ offer' = [offer EXCEPT ![p] = NoSub]
    /\ todo' = [todo EXCEPT ![p] = {}]
    /\ pub' = [pub EXCEPT ![p] = "canceled"]
    /\ DoneInFlight
    /\ UNCHANGED <<dropOn, busVars, subVars, chans>>

-----------------------------------------------------------------------------
(* Subscribe *)

\* Subscribe to the topic in group g.
Join(s, g) ==
    /\ sub[s] = "out"
    /\ sub' = [sub EXCEPT ![s] = IF closed THEN "refused" ELSE "in"]
    /\ members' = IF closed THEN members ELSE [members EXCEPT ![g] = Append(@, s)]
    /\ UNCHANGED <<dropOn, closed, next, chan, busy, tries, fate, pubVars, flightVars>>

\* A worker takes a message; select may still do so after the cancellation.
Take(s) ==
    /\ sub[s] \in {"in", "stopping"}
    /\ Cardinality(busy[s]) < Workers
    /\ chan[s] # <<>>
    /\ busy' = [busy EXCEPT ![s] = @ \cup {Head(chan[s])}]
    /\ chan' = [chan EXCEPT ![s] = Tail(@)]
    /\ UNCHANGED <<dropOn, busVars, sub, tries, fate, pubVars, flightVars>>

Settle(s, p, how) ==
    /\ busy' = [busy EXCEPT ![s] = @ \ {p}]
    /\ fate' = [fate EXCEPT ![s][p] = how]
    /\ DoneInFlight

HandlerSucceeds(s, p) ==
    /\ p \in busy[s]
    /\ Settle(s, p, "handled")
    /\ UNCHANGED <<dropOn, busVars, sub, chan, tries, pubVars>>

\* The handler returned an error or panicked.
HandlerFails(s, p) ==
    /\ p \in busy[s]
    /\ IF tries[s][p] >= MaxRedeliver \/ sub[s] = "stopping"
       THEN Settle(s, p, "lost") /\ UNCHANGED tries
       ELSE /\ tries' = [tries EXCEPT ![s][p] = @ + 1]
            /\ UNCHANGED <<busy, fate, flightVars>>
    /\ UNCHANGED <<dropOn, busVars, sub, chan, pubVars>>

CancelSub(s) ==
    /\ s \in Leavers
    /\ sub[s] = "in"
    /\ sub' = [sub EXCEPT ![s] = "stopping"]
    /\ UNCHANGED <<dropOn, busVars, chan, busy, tries, fate, pubVars, flightVars>>

\* The workers are gone: removeSub, which forgets an emptied group.
Leave(s) ==
    /\ sub[s] = "stopping"
    /\ busy[s] = {}
    /\ sub' = [sub EXCEPT ![s] = "draining"]
    /\ members' = [g \in Groups |-> SelectSeq(members[g], LAMBDA t : t # s)]
    /\ next' = [g \in Groups |-> IF members'[g] = <<>> THEN 0 ELSE next[g]]
    /\ UNCHANGED <<dropOn, closed, chan, busy, tries, fate, pubVars, flightVars>>

\* The deferred loop empties the channel, one message at a time, and returns at
\* the first moment it finds the channel empty.
Drain(s) ==
    /\ sub[s] = "draining"
    /\ IF chan[s] = <<>>
       THEN /\ sub' = [sub EXCEPT ![s] = "done"]
            /\ UNCHANGED <<chan, fate, flightVars>>
       ELSE /\ chan' = [chan EXCEPT ![s] = Tail(@)]
            /\ fate' = [fate EXCEPT ![s][Head(chan[s])] = "drained"]
            /\ DoneInFlight
            /\ UNCHANGED sub
    /\ UNCHANGED <<dropOn, busVars, busy, tries, pubVars>>

Close ==
    /\ ~closed
    /\ closed' = TRUE
    /\ UNCHANGED <<dropOn, members, next, subVars, pubVars, flightVars>>

-----------------------------------------------------------------------------
(* Flush *)

\* Under flushMu: return, or wait for the flushWait channel of the moment.
FlushLooks(p) ==
    /\ p \in Flushers /\ pub[p] \in {"nil", "noSub"}
    /\ flush[p] = "looking"
    /\ flush' = [flush EXCEPT ![p] = IF inFlight = 0 THEN "ok" ELSE "waiting"]
    /\ UNCHANGED <<dropOn, busVars, subVars, pubVars, inFlight>>

FlushTimesOut(p) ==
    /\ flush[p] = "waiting"
    /\ flush' = [flush EXCEPT ![p] = "timeout"]
    /\ UNCHANGED <<dropOn, busVars, subVars, pubVars, inFlight>>

PublisherNext(p) ==
    \/ Select(p) \/ Send(p) \/ Drop(p) \/ CancelSend(p)
    \/ FlushLooks(p) \/ FlushTimesOut(p)
    \/ \E s \in Subs : Offer(p, s)

SubscriberNext(s) ==
    \/ (\E g \in Groups : Join(s, g)) \/ Take(s) \/ CancelSub(s) \/ Leave(s) \/ Drain(s)
    \/ \E p \in Msgs : HandlerSucceeds(s, p) \/ HandlerFails(s, p)

Next == Close \/ (\E p \in Msgs : PublisherNext(p)) \/ (\E s \in Subs : SubscriberNext(s))

Spec == Init /\ [][Next]_vars

\* Goroutines that can run do: each publisher, each Subscribe call and its
\* workers; handlers return.  Nobody is obliged to publish, to cancel, to close
\* the bus or to give up waiting.
Fairness ==
    /\ \A p \in Msgs :
         WF_vars(Send(p) \/ Drop(p) \/ FlushLooks(p) \/ \E s \in Subs : Offer(p, s))
    /\ \A s \in Subs :
         /\ WF_vars(Take(s))
         /\ WF_vars(Leave(s) \/ Drain(s))
         /\ \A p \in Msgs : WF_vars(HandlerSucceeds(s, p) \/ HandlerFails(s, p))

FairSpec == Spec /\ Fairness

-----------------------------------------------------------------------------
(* Properties *)

Queued(s, p) == \E i \in 1..Len(chan[s]) : chan[s][i] = p

\* Memory.inFlight is exactly the messages that sit in a channel, run in a
\* handler or are being sent: no path of Publish, deliver or the deferred drain
\* counts one twice or forgets one.
InFlightIsExact ==
    inFlight = Cardinality({x \in Subs \X Msgs : Queued(x[1], x[2])})
             + Cardinality({x \in Subs \X Msgs : x[2] \in busy[x[1]]})
             + Cardinality({p \in Msgs : offer[p] # NoSub})

\* Publish answers nil only for a message that every selected group got: a drop
\* at a full buffer or a cancelled send is reported to the publisher.
NilMeansEveryGroup ==
    \A p \in Msgs : pub[p] = "nil" =>
        \A s \in chans[p] : Queued(s, p) \/ p \in busy[s] \/ fate[s][p] # "none"

\* A message sent to a channel after its subscription returned: Subscribe has
\* drained the channel, nobody reads it again.
Orphaned == \E s \in Subs : sub[s] = "done" /\ chan[s] # <<>>

\* Every Flush returns, a waiter that saw an older flushWait channel too, and
\* also when a handler keeps failing (it gives up after memoryMaxRedeliver
\* attempts): the one thing that keeps it waiting is a message sent to a
\* subscription that has returned, which stays counted in flight.
FlushCompletes ==
    \A p \in Flushers : (pub[p] = "nil") ~> (flush[p] \in {"ok", "timeout"} \/ Orphaned)

-----------------------------------------------------------------------------
(* Why the first two hold: the inductive invariant. *)

InChannel == {x \in Subs \X Msgs : Queued(x[1], x[2])}
InHandler == {x \in Subs \X Msgs : x[2] \in busy[x[1]]}
InSend == {p \in Msgs : offer[p] # NoSub}

\* The variables that carry messages keep their types.
BusTypeOK ==
    /\ chan \in [Subs -> Seq(Msgs)]
    /\ busy \in [Subs -> SUBSET Msgs]
    /\ fate \in [Subs -> [Msgs -> {"none", "handled", "lost", "drained"}]]
    /\ pub \in [Msgs -> {"idle", "closed", "noSub", "sending", "lossy", "dropped", "nil", "canceled"}]
    /\ DOMAIN chans = Msgs /\ DOMAIN todo = Msgs
    /\ offer \in [Msgs -> Subs \cup {NoSub}]

\* The message has not come to the subscription.
Fresh(s, p) == ~Queued(s, p) /\ p \notin busy[s] /\ fate[s][p] = "none"

\* A message is in one place of a subscription at most, and comes to it once.
ComesOnce ==
    /\ \A s \in Subs : \A i, j \in 1..Len(chan[s]) : chan[s][i] = chan[s][j] => i = j
    /\ \A s \in Subs, p \in Msgs :
         /\ Queued(s, p) => p \notin busy[s]
         /\ s \in todo[p] \/ offer[p] = s \/ pub[p] = "idle" => Fresh(s, p)
         /\ s \in todo[p] => offer[p] # s

\* While nothing was dropped, Publish has sent to, is sending to or will send
\* to every channel it selected.
PublishCovers ==
    \A p \in Msgs :
        /\ pub[p] = "idle" => todo[p] = {}
        /\ pub[p] = "nil" => todo[p] = {}
        /\ offer[p] # NoSub => pub[p] \in {"sending", "lossy"}
        /\ pub[p] \in {"sending", "nil"} =>
              \A s \in chans[p] \ todo[p] : s \in Subs /\ (offer[p] = s \/ ~Fresh(s, p))

BusInv ==
    /\ BusTypeOK /\ ComesOnce /\ PublishCovers
    /\ IsFiniteSet(InChannel) /\ IsFiniteSet(InHandler) /\ IsFiniteSet(InSend)
    /\ InFlightIsExact
=============================================================================
