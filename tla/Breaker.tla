------------------------------ MODULE Breaker -------------------------------
(***************************************************************************)
(* The circuit breaker in front of a store (internal/breaker/breaker.go):  *)
(* concurrent callers of DoWithOutcome, an upstream that goes down and     *)
(* comes back, and the cooldown as an event.  A call is let through when   *)
(* the breaker is closed or as the one probe after the cooldown; its       *)
(* outcome is applied when it returns, whatever has happened since.        *)
(***************************************************************************)
EXTENDS Integers

CONSTANTS Callers,
          Threshold     \* consecutive failures that open the breaker

ASSUME BreakerConstants == Threshold \in Nat \ {0}

VARIABLES consec,     \* consecutive failures, counted up to Threshold
          open,       \* the breaker is open
          cooling,    \* openUntil is in the future
          probing,    \* a half-open probe is in flight
          call,       \* where each caller is
          down,       \* the upstream fails
          abandoned   \* a probe has panicked (history)

vars == <<consec, open, cooling, probing, call, down, abandoned>>

TypeOK ==
    /\ consec \in 0..Threshold
    /\ open \in BOOLEAN /\ cooling \in BOOLEAN /\ probing \in BOOLEAN /\ down \in BOOLEAN
    /\ abandoned \in BOOLEAN
    /\ call \in [Callers -> {"idle", "calling", "probe"}]

Init ==
    /\ consec = 0
    /\ open = FALSE /\ cooling = FALSE /\ probing = FALSE /\ down = FALSE
    /\ abandoned = FALSE
    /\ call = [c \in Callers |-> "idle"]

\* DoWithOutcome lets the call through: the breaker is closed ...
Call(c) ==
    /\ call[c] = "idle"
    /\ ~open
    /\ call' = [call EXCEPT ![c] = "calling"]
    /\ UNCHANGED <<consec, open, cooling, probing, down, abandoned>>

\* Mutation: every caller after the cooldown is let through.
ProbeAnyone(c) ==
    /\ call[c] = "idle"
    /\ open /\ ~cooling
    /\ probing' = TRUE
    /\ call' = [call EXCEPT ![c] = "probe"]
    /\ UNCHANGED <<consec, open, cooling, down, abandoned>>

\* ... or the cooldown is over and no probe is in flight.
Probe(c) ==
    /\ call[c] = "idle"
    /\ open /\ ~cooling /\ ~probing
    /\ probing' = TRUE
    /\ call' = [call EXCEPT ![c] = "probe"]
    /\ UNCHANGED <<consec, open, cooling, down, abandoned>>

\* The callback returned; only the one that owns the probe releases it.
Return(c) ==
    /\ call[c] # "idle"
    /\ probing' = IF call[c] = "probe" THEN FALSE ELSE probing
    /\ call' = [call EXCEPT ![c] = "idle"]

\* OutcomeNeutral.
Neutral(c) ==
    /\ Return(c)
    /\ UNCHANGED <<consec, open, cooling, down, abandoned>>

\* OutcomeFailure, also of a value that is no outcome: count, open at the
\* threshold, and arm the cooldown again when open.
Failure(c) ==
    /\ down
    /\ Return(c)
    /\ consec' = IF consec < Threshold THEN consec + 1 ELSE consec
    /\ open' = (open \/ consec' >= Threshold)
    /\ cooling' = (cooling \/ open')
    /\ UNCHANGED <<down, abandoned>>

\* Mutation: while the breaker is open a success is taken for neutral.
SuccessKeepsOpen(c) ==
    /\ ~down
    /\ Return(c)
    /\ consec' = IF open THEN consec ELSE 0
    /\ UNCHANGED <<open, cooling, down, abandoned>>

\* OutcomeSuccess closes the breaker, also when a slow call from before the trip
\* brings it.
Success(c) ==
    /\ ~down
    /\ Return(c)
    /\ consec' = 0 /\ open' = FALSE /\ cooling' = FALSE
    /\ UNCHANGED <<down, abandoned>>

\* The callback panics, and a recover above it ends the panic: the second half
\* of DoWithOutcome does not run, which leaves the flag of a probe set.
Panic(c) ==
    /\ call[c] # "idle"
    /\ call' = [call EXCEPT ![c] = "idle"]
    /\ abandoned' = IF call[c] = "probe" THEN TRUE ELSE abandoned
    /\ UNCHANGED <<consec, open, cooling, probing, down>>

\* Mutation: callers that are refused arm the cooldown again.
CooldownRearmed ==
    /\ cooling
    /\ UNCHANGED vars

\* openUntil passes.
CooldownEnds ==
    /\ cooling
    /\ cooling' = FALSE
    /\ UNCHANGED <<consec, open, probing, call, down, abandoned>>

\* The upstream goes down or comes back.
Upstream ==
    /\ down' = ~down
    /\ UNCHANGED <<consec, open, cooling, probing, call, abandoned>>

Next ==
    \/ \E c \in Callers :
         Call(c) \/ Probe(c) \/ Neutral(c) \/ Failure(c) \/ Success(c) \/ Panic(c)
    \/ CooldownEnds
    \/ Upstream

Spec == Init /\ [][Next]_vars

\* Time passes; callers keep calling, and calls return.  A caller of a healthy
\* upstream sometimes learns that it is.
Fairness ==
    /\ WF_vars(CooldownEnds)
    /\ WF_vars(\E c \in Callers : Probe(c))
    /\ \A c \in Callers : /\ WF_vars(Neutral(c) \/ Failure(c) \/ Success(c))
                          /\ SF_vars(Success(c))

FairSpec == Spec /\ Fairness

-----------------------------------------------------------------------------
(* Properties *)

\* RESIL-007: never two half-open probes at once, and the flag that keeps the
\* others out is set exactly while one is in flight, or for good once a probe
\* has panicked.
OneProbe ==
    /\ \A c, d \in Callers : call[c] = "probe" /\ call[d] = "probe" => c = d
    /\ probing <=> abandoned \/ \E c \in Callers : call[c] = "probe"
    /\ abandoned => \A c \in Callers : call[c] # "probe"

\* The breaker is open only after Threshold failures without a success between
\* them, and armed only when open.
OpenIsEarned ==
    /\ open => consec = Threshold
    /\ cooling => open

\* The inductive invariant.
BreakerInv == TypeOK /\ OneProbe /\ OpenIsEarned

\* Once the upstream stays healthy, the breaker does not stay open, unless a
\* probe has panicked.
ClosesAgain == <>[](~down) => []<>(~open) \/ <>abandoned

\* The breaker "re-probes after a cooldown": while it is open, a caller gets to
\* probe again and again.  A probe that panicked is the one exception: it was
\* the last.
ReProbes == (<>[]open) => []<>(\E c \in Callers : call[c] = "probe") \/ <>abandoned
=============================================================================
