-------------------------- MODULE BreakerContract --------------------------
(***************************************************************************)
(* What the circuit breaker promises its callers, as README.md:60 and the  *)
(* state machine of analysis/graceful-degradation-contract.md:7-12 put it: *)
(* Threshold consecutive failures open it, a cooldown without traffic      *)
(* half-opens it, and one probe decides between CLOSED and OPEN.           *)
(***************************************************************************)
EXTENDS Integers

CONSTANTS Threshold, Cooldown

VARIABLES
    phase,  \* "CLOSED", "OPEN" or "HALF_OPEN"
    streak, \* failures since the last success
    since,  \* when it last opened
    clock   \* the time

vars == <<phase, streak, since, clock>>

Init == phase = "CLOSED" /\ streak = 0 /\ since = 0 /\ clock = 0

\* Time passes.
Wait == clock' > clock /\ UNCHANGED <<phase, streak, since>>

\* A call fails: the breaker opens on a long enough streak or a failed probe.
Failure ==
    /\ phase \in {"CLOSED", "HALF_OPEN"}
    /\ streak' = streak + 1
    /\ IF phase = "HALF_OPEN" \/ streak' >= Threshold
         THEN phase' = "OPEN" /\ since' = clock
         ELSE UNCHANGED <<phase, since>>
    /\ UNCHANGED clock

\* A call or the probe succeeds.
Success ==
    /\ phase \in {"CLOSED", "HALF_OPEN"}
    /\ phase' = "CLOSED"
    /\ streak' = 0
    /\ UNCHANGED <<since, clock>>

\* The cooldown is over.
HalfOpen ==
    /\ phase = "OPEN"
    /\ clock - since >= Cooldown
    /\ phase' = "HALF_OPEN"
    /\ UNCHANGED <<streak, since, clock>>

Next == Wait \/ Failure \/ Success \/ HalfOpen

Spec == Init /\ [][Next]_vars

=============================================================================
