--------------------------- MODULE CircuitBreaker ---------------------------
(***************************************************************************)
(* The circuit breaker in front of every request of MastraClient, class    *)
(* CircuitBreaker of circuit_breaker.py.  call(fn, fallback) admits the    *)
(* call under the lock, runs fn without the lock, and records the outcome  *)
(* under the lock again; the two workers of the async runner and the host  *)
(* thread (tool handlers) are all inside call() at once.                   *)
(*                                                                         *)
(* A request may take longer than the cooldown: a read timeout of 15 s     *)
(* (client.py:31) and up to three attempts (client.py:76) against a        *)
(* default cooldown of 5 s.  So an outcome may be recorded in a state that *)
(* has nothing to do with the one the call was admitted in.                *)
(***************************************************************************)
EXTENDS Integers, FiniteSets

CONSTANTS
    Callers,       \* threads that go through call()
    Interruptible, \* those whose fn may raise a BaseException (KeyboardInterrupt)
    Threshold,     \* self.threshold = max(1, int(threshold))
    Cooldown,      \* self.cooldown_seconds = max(0.0, float(cooldown_seconds))
    MaxTime        \* bound on the clock

ASSUME BreakerAssumption ==
    /\ IsFiniteSet(Callers)
    /\ Interruptible \subseteq Callers
    /\ Threshold \in Nat \ {0}
    /\ Cooldown \in Nat
    /\ MaxTime \in Nat

VARIABLES
    state,    \* self._state
    failures, \* self._failures
    openedAt, \* self._opened_at
    trial,    \* self._trial
    now,      \* self._now()
    running,  \* callers that were admitted and are inside fn()
    probes,   \* callers admitted since the breaker last turned HALF_OPEN
    lost      \* callers whose last admitted call ended without a recorded outcome

breakerVars == <<state, failures, openedAt, trial>>
callVars == <<running, probes, lost>>
vars == <<breakerVars, now, callVars>>

Init ==
    /\ state = "CLOSED"
    /\ failures = 0
    /\ openedAt = 0
    /\ trial = FALSE
    /\ now = 0
    /\ running = {}
    /\ probes = {}
    /\ lost = {}

\* Faulty variant: the breaker half-opens without waiting for the cooldown.
CooledDownAtOnce == state = "OPEN"

\* The condition of _advance().
CooledDown == state = "OPEN" /\ now - openedAt >= Cooldown

\* _advance(): an OPEN breaker becomes HALF_OPEN with no probe admitted.
Advanced == IF CooledDown THEN "HALF_OPEN" ELSE state
TrialAdvanced == trial /\ ~CooledDown
ProbesAdvanced == IF CooledDown THEN {} ELSE probes

Tick ==
    /\ now < MaxTime
    /\ now' = now + 1
    /\ UNCHANGED <<breakerVars, callVars>>

\* The state property (_breaker_open in provider_lifecycle.py reads it).
ReadState ==
    /\ CooledDown
    /\ state' = Advanced
    /\ trial' = TrialAdvanced
    /\ probes' = ProbesAdvanced
    /\ UNCHANGED <<failures, openedAt, now, running, lost>>

\* Faulty variant: a half-open breaker forgets that it already has a probe.
AdmitAnyProbe(c) ==
    /\ c \notin running
    /\ Advanced # "OPEN"
    /\ state' = Advanced
    /\ trial' = (TrialAdvanced \/ Advanced = "HALF_OPEN")
    /\ probes' = IF Advanced = "HALF_OPEN" THEN ProbesAdvanced \cup {c} ELSE probes
    /\ running' = running \cup {c}
    /\ lost' = lost \ {c}
    /\ UNCHANGED <<failures, openedAt, now>>

\* Faulty variant: a half-open breaker refuses its probe like an open one.
AdmitClosedOnly(c) ==
    /\ c \notin running
    /\ Advanced = "CLOSED"
    /\ running' = running \cup {c}
    /\ lost' = lost \ {c}
    /\ UNCHANGED <<breakerVars, now, probes>>

\* _admit() returns True; call() goes on to run fn.
Admit(c) ==
    /\ c \notin running
    /\ Advanced # "OPEN"
    /\ ~(Advanced = "HALF_OPEN" /\ TrialAdvanced)
    /\ state' = Advanced
    /\ trial' = (TrialAdvanced \/ Advanced = "HALF_OPEN")
    /\ probes' = IF Advanced = "HALF_OPEN" THEN ProbesAdvanced \cup {c} ELSE probes
    /\ running' = running \cup {c}
    /\ lost' = lost \ {c}
    /\ UNCHANGED <<failures, openedAt, now>>

\* fn raises an Exception (a request that failed): _record_failure().
Fail(c) ==
    /\ c \in running
    /\ failures' = failures + 1
    /\ IF state = "HALF_OPEN" \/ failures' >= Threshold
         THEN state' = "OPEN" /\ openedAt' = now /\ trial' = FALSE
         ELSE UNCHANGED <<state, openedAt, trial>>
    /\ running' = running \ {c}
    /\ UNCHANGED <<now, probes, lost>>

\* Faulty variant: success closes the breaker but keeps the failure count.
SucceedKeepsCount(c) ==
    /\ c \in running
    /\ state' = "CLOSED"
    /\ trial' = FALSE
    /\ running' = running \ {c}
    /\ UNCHANGED <<failures, openedAt, now, probes, lost>>

\* fn returns: _record_success(), whatever the state is by now.
Succeed(c) ==
    /\ c \in running
    /\ state' = "CLOSED"
    /\ failures' = 0
    /\ trial' = FALSE
    /\ running' = running \ {c}
    /\ UNCHANGED <<openedAt, now, probes, lost>>

\* fn raises a BaseException that is no Exception: nothing is recorded.
Interrupted(c) ==
    /\ c \in running \cap Interruptible
    /\ running' = running \ {c}
    /\ lost' = lost \cup {c}
    /\ UNCHANGED <<breakerVars, now, probes>>

Next ==
    \/ Tick
    \/ ReadState
    \/ \E c \in Callers : Admit(c) \/ Fail(c) \/ Succeed(c) \/ Interrupted(c)

Spec == Init /\ [][Next]_vars

(***************************************************************************)
(* Time passes, and an admitted request ends: httpx gives every request    *)
(* connect, read, write and pool timeouts and _request() makes at most     *)
(* three attempts.  Somebody calls again when the breaker admits a call:   *)
(* the hook sync_turn sends a request after every turn, whatever the       *)
(* breaker's state (provider_lifecycle.py:157-166).                        *)
(***************************************************************************)
Fairness ==
    /\ WF_vars(Tick)
    /\ \A c \in Callers : WF_vars(Fail(c) \/ Succeed(c))
    /\ WF_vars(\E c \in Callers : Admit(c))

FairSpec == Spec /\ Fairness

-----------------------------------------------------------------------------
(* Properties.                                                             *)

TypeOK ==
    /\ state \in {"CLOSED", "OPEN", "HALF_OPEN"}
    /\ failures \in Nat
    /\ openedAt \in 0..now
    /\ trial \in BOOLEAN
    /\ now \in Nat
    /\ running \subseteq Callers
    /\ probes \subseteq Callers
    /\ lost \subseteq Callers

\* The breaker is CLOSED exactly while fewer than Threshold failures were
\* recorded since the last success, however late outcomes interleave: a late
\* failure never leaves it CLOSED with the count at the threshold, and a late
\* success never leaves it open with the count reset.
ClosedBelowThreshold == state = "CLOSED" <=> failures < Threshold

\* A half-open breaker lets one probe through, also when several threads ask
\* at once and when outcomes of older calls arrive meanwhile; and it knows
\* whether it did.
SingleProbe ==
    /\ state = "HALF_OPEN" => Cardinality(probes) = (IF trial THEN 1 ELSE 0)
    /\ trial => state = "HALF_OPEN"

\* A half-open breaker gets the outcome of its probe and leaves HALF_OPEN
\* (graceful-degradation-contract.md:11-12, 35), unless the probe was ended by a
\* BaseException: then its trial is never given back.
ProbeLost == probes # {} /\ probes \subseteq lost
ProbeDecides == (state = "HALF_OPEN") ~> (state # "HALF_OPEN" \/ ProbeLost)

\* Apart from outcomes recorded while it is OPEN, which belong to calls admitted
\* before it opened, everything the breaker does with any number of callers is a
\* step of its documented state machine.
Contract == INSTANCE BreakerContract
              WITH phase <- state, streak <- failures, since <- openedAt, clock <- now
LateOutcome == state = "OPEN" /\ running' \subseteq running /\ running' # running
ContractButForLateOutcomes ==
    [][LateOutcome \/ [Contract!Next]_(Contract!vars)]_vars

\* With one call at a time there is no late outcome and the breaker implements
\* its contract.
ContractSpec == Contract!Spec

=============================================================================
