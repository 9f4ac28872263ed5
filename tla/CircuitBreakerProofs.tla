------------------------ MODULE CircuitBreakerProofs ------------------------
(***************************************************************************)
(* Proofs about CircuitBreaker, for any set of callers, threshold and      *)
(* cooldown.                                                               *)
(***************************************************************************)
EXTENDS CircuitBreaker, FiniteSetTheorems, TLAPS

BreakerInv == TypeOK /\ ClosedBelowThreshold /\ SingleProbe

\* Every step preserves the three parts of the invariant together.
LEMMA BreakerStep == BreakerInv /\ [Next]_vars => BreakerInv'
<1> SUFFICES ASSUME BreakerInv, [Next]_vars PROVE BreakerInv'
  OBVIOUS
<1> USE BreakerAssumption DEF BreakerInv, TypeOK, ClosedBelowThreshold, breakerVars, callVars
<1>1. /\ CooledDown \in BOOLEAN
      /\ CooledDown => state = "OPEN" /\ ~trial
      /\ Advanced = (IF CooledDown THEN "HALF_OPEN" ELSE state)
      /\ TrialAdvanced = trial
  BY DEF CooledDown, Advanced, TrialAdvanced, SingleProbe
<1>2. CASE Tick
  <2>1. TypeOK' /\ ClosedBelowThreshold'
    BY <1>2 DEF Tick
  <2>2. SingleProbe'
    BY <1>2 DEF Tick, SingleProbe
  <2>3. QED
    BY <2>1, <2>2
<1>3. CASE ReadState
  <2>1. TypeOK' /\ ClosedBelowThreshold'
    BY <1>1, <1>3 DEF ReadState, ProbesAdvanced
  <2>2. SingleProbe'
    BY <1>1, <1>3, FS_EmptySet DEF ReadState, SingleProbe, ProbesAdvanced
  <2>3. QED
    BY <2>1, <2>2
<1>4. ASSUME NEW c \in Callers, Admit(c)
      PROVE  BreakerInv'
  <2>1. TypeOK' /\ ClosedBelowThreshold'
    BY <1>1, <1>4 DEF Admit, ProbesAdvanced
  <2>2. CASE Advanced = "HALF_OPEN"
    <3>1. state' = "HALF_OPEN" /\ trial' = TRUE /\ probes' = ProbesAdvanced \cup {c} /\ ~trial
      BY <1>1, <1>4, <2>2 DEF Admit
    <3>2. ProbesAdvanced = {}
      <4>1. CASE CooledDown
        BY <4>1 DEF ProbesAdvanced
      <4>2. CASE ~CooledDown
        <5>1. Cardinality(probes) = 0
          BY <4>2, <3>1, <1>1, <2>2 DEF SingleProbe
        <5>2. IsFiniteSet(probes)
          BY FS_Subset
        <5>3. QED
          BY <4>2, <5>1, <5>2, FS_EmptySet DEF ProbesAdvanced
      <4>3. QED
        BY <4>1, <4>2
    <3>3. Cardinality({} \cup {c}) = 1
      <4>1. IsFiniteSet({}) /\ Cardinality({}) = 0
        BY FS_EmptySet
      <4>2. Cardinality({} \cup {c}) = IF c \in {} THEN Cardinality({}) ELSE Cardinality({}) + 1
        BY <4>1, FS_AddElement
      <4>3. QED
        BY <4>1, <4>2
    <3>4. Cardinality(probes') = 1
      BY <3>1, <3>2, <3>3
    <3>5. QED
      BY <2>1, <3>1, <3>4 DEF SingleProbe
  <2>3. CASE Advanced # "HALF_OPEN"
    <3>1. state' = state /\ state # "HALF_OPEN" /\ trial' = trial /\ probes' = probes
      BY <1>1, <1>4, <2>3 DEF Admit
    <3>2. QED
      BY <2>1, <3>1 DEF SingleProbe
  <2>4. QED
    BY <2>2, <2>3
<1>5. ASSUME NEW c \in Callers, Fail(c)
      PROVE  BreakerInv'
  <2>1. TypeOK' /\ ClosedBelowThreshold'
    <3>1. CASE state = "HALF_OPEN" \/ failures + 1 >= Threshold
      <4>1. /\ state' = "OPEN" /\ openedAt' = now /\ trial' = FALSE
            /\ failures' = failures + 1 /\ now' = now /\ probes' = probes
            /\ running' = running \ {c} /\ lost' = lost
        BY <1>5, <3>1 DEF Fail
      <4>2. failures' \in Nat /\ openedAt' \in 0..now' /\ failures' >= Threshold
        BY <4>1, <3>1
      <4>3. TypeOK'
        <5>1. trial' \in BOOLEAN /\ running' \subseteq Callers /\ probes' \subseteq Callers
             /\ lost' \subseteq Callers
          BY <4>1
        <5>2. state' \in {"CLOSED", "OPEN", "HALF_OPEN"} /\ now' \in Nat
          BY <4>1
        <5>3. QED
          BY <4>2, <5>1, <5>2
      <4>4. ClosedBelowThreshold'
        BY <4>1, <4>2
      <4>5. QED
        BY <4>3, <4>4
    <3>2. CASE ~(state = "HALF_OPEN" \/ failures + 1 >= Threshold)
      BY <1>5, <3>2 DEF Fail
    <3>3. QED
      BY <3>1, <3>2
  <2>2. SingleProbe'
    BY <1>5 DEF Fail, SingleProbe
  <2>3. QED
    BY <2>1, <2>2
<1>6. ASSUME NEW c \in Callers, Succeed(c)
      PROVE  BreakerInv'
  <2>1. TypeOK' /\ ClosedBelowThreshold'
    <3>1. /\ state' = "CLOSED" /\ failures' = 0 /\ trial' = FALSE
          /\ openedAt' = openedAt /\ now' = now /\ probes' = probes
          /\ running' = running \ {c} /\ lost' = lost
      BY <1>6 DEF Succeed
    <3>2. trial' \in BOOLEAN /\ running' \subseteq Callers /\ probes' \subseteq Callers
             /\ lost' \subseteq Callers
      BY <3>1
    <3>3. state' \in {"CLOSED", "OPEN", "HALF_OPEN"} /\ failures' \in Nat
          /\ openedAt' \in 0..now' /\ now' \in Nat
      BY <3>1
    <3>4. TypeOK'
      BY <3>2, <3>3
    <3>5. ClosedBelowThreshold'
      BY <3>1
    <3>6. QED
      BY <3>4, <3>5
  <2>2. SingleProbe'
    BY <1>6 DEF Succeed, SingleProbe
  <2>3. QED
    BY <2>1, <2>2
<1>7. ASSUME NEW c \in Callers, Interrupted(c)
      PROVE  BreakerInv'
  BY <1>7 DEF Interrupted, SingleProbe
<1>8. CASE UNCHANGED vars
  BY <1>8 DEF vars, SingleProbe
<1>9. QED
  BY <1>2, <1>3, <1>4, <1>5, <1>6, <1>7, <1>8 DEF Next

\* The inductive invariant holds in every reachable state.
THEOREM BreakerInvariant == Spec => []BreakerInv
<1>1. Init => BreakerInv
  <2> SUFFICES ASSUME Init PROVE BreakerInv
    OBVIOUS
  <2>1. TypeOK
    <3>1. openedAt \in 0..now /\ now \in Nat /\ failures \in Nat
      BY DEF Init
    <3>2. running \subseteq Callers /\ probes \subseteq Callers /\ lost \subseteq Callers
      BY DEF Init
    <3>3. state \in {"CLOSED", "OPEN", "HALF_OPEN"} /\ trial \in BOOLEAN
      BY DEF Init
    <3>4. QED
      BY <3>1, <3>2, <3>3 DEF TypeOK
  <2>2. ClosedBelowThreshold
    BY BreakerAssumption DEF Init, ClosedBelowThreshold
  <2>3. SingleProbe
    BY DEF Init, SingleProbe
  <2>4. QED
    BY <2>1, <2>2, <2>3 DEF BreakerInv
<1>2. QED
  BY <1>1, BreakerStep, PTL DEF Spec

\* CLOSED means fewer than Threshold failures since the last success, for any
\* number of threads whose outcomes arrive in any order.
THEOREM BreakerClosedBelowThreshold == Spec => []ClosedBelowThreshold
<1>1. BreakerInv => ClosedBelowThreshold
  BY DEF BreakerInv
<1>2. QED
  BY <1>1, BreakerInvariant, PTL

\* A half-open breaker has at most one probe, for any number of threads.
THEOREM BreakerSingleProbe == Spec => []SingleProbe
<1>1. BreakerInv => SingleProbe
  BY DEF BreakerInv
<1>2. QED
  BY <1>1, BreakerInvariant, PTL

-----------------------------------------------------------------------------
(* The contract, for one call at a time.                                   *)

OneCaller == \A c, d \in Callers : c = d

\* A call that is under way was admitted in the state the breaker is still in.
CallNotOpen == running # {} => state # "OPEN"

\* With one caller no outcome arrives while the breaker is OPEN.
LEMMA NoLateOutcome ==
    ASSUME OneCaller
    PROVE  Spec => [](BreakerInv /\ CallNotOpen)
<1>1. Init => CallNotOpen
  BY DEF Init, CallNotOpen
<1>2. BreakerInv /\ CallNotOpen /\ [Next]_vars => CallNotOpen'
  <2> SUFFICES ASSUME BreakerInv, CallNotOpen, [Next]_vars PROVE CallNotOpen'
    OBVIOUS
  <2> USE DEF CallNotOpen, breakerVars, callVars
  <2>1. CASE Tick \/ UNCHANGED vars
    BY <2>1 DEF Tick, vars
  <2>2. CASE ReadState
    BY <2>2 DEF ReadState, Advanced
  <2>3. ASSUME NEW c \in Callers, Admit(c) PROVE CallNotOpen'
    BY <2>3 DEF Admit
  <2>4. ASSUME NEW c \in Callers, Fail(c) \/ Succeed(c) \/ Interrupted(c)
        PROVE  CallNotOpen'
    <3>1. running' = {}
      BY <2>4 DEF OneCaller, Fail, Succeed, Interrupted, BreakerInv, TypeOK
    <3>2. QED
      BY <3>1
  <2>5. QED
    BY <2>1, <2>2, <2>3, <2>4 DEF Next
<1>3. QED
  BY <1>1, <1>2, BreakerInvariant, PTL DEF Spec

\* Every step of the breaker is a step of its contract, leaves it unchanged, or
\* records the outcome of a call while it is OPEN.
LEMMA ContractStep ==
    ASSUME BreakerInv, [Next]_vars
    PROVE  LateOutcome \/ [Contract!Next]_(Contract!vars)
<1> USE BreakerAssumption
        DEF BreakerInv, TypeOK, breakerVars, callVars, Contract!vars, Contract!Next
<1>1. CASE Tick
  BY <1>1 DEF Tick, Contract!Wait
<1>2. CASE ReadState
  BY <1>2 DEF ReadState, Advanced, CooledDown, Contract!HalfOpen
<1>3. ASSUME NEW c \in Callers, Admit(c)
      PROVE  [Contract!Next]_(Contract!vars)
  <2>1. CASE CooledDown
    BY <1>3, <2>1 DEF Admit, Advanced, CooledDown, Contract!HalfOpen
  <2>2. CASE ~CooledDown
    BY <1>3, <2>2 DEF Admit, Advanced
  <2>3. QED
    BY <2>1, <2>2
<1>4. ASSUME NEW c \in Callers, Fail(c), ~LateOutcome
      PROVE  [Contract!Next]_(Contract!vars)
  <2>1. state # "OPEN"
    BY <1>4 DEF Fail, LateOutcome
  <2>2. QED
    BY <1>4, <2>1 DEF Fail, Contract!Failure
<1>5. ASSUME NEW c \in Callers, Succeed(c), ~LateOutcome
      PROVE  [Contract!Next]_(Contract!vars)
  <2>1. state # "OPEN"
    BY <1>5 DEF Succeed, LateOutcome
  <2>2. QED
    BY <1>5, <2>1 DEF Succeed, Contract!Success
<1>6. ASSUME NEW c \in Callers, Interrupted(c)
      PROVE  [Contract!Next]_(Contract!vars)
  BY <1>6 DEF Interrupted
<1>7. CASE UNCHANGED vars
  BY <1>7 DEF vars
<1>8. QED
  BY <1>1, <1>2, <1>3, <1>4, <1>5, <1>6, <1>7 DEF Next

\* With any number of callers only outcomes recorded while the breaker is OPEN
\* depart from its documented state machine.
THEOREM BreakerKeepsContract == Spec => ContractButForLateOutcomes
<1>1. BreakerInv /\ [Next]_vars => [LateOutcome \/ [Contract!Next]_(Contract!vars)]_vars
  BY ContractStep
<1>2. QED
  BY <1>1, BreakerInvariant, PTL DEF Spec, ContractButForLateOutcomes

\* With one call at a time the breaker implements its documented state machine.
THEOREM BreakerImplementsContract ==
    ASSUME OneCaller
    PROVE  Spec => ContractSpec
<1>1. Init => Contract!Init
  BY DEF Init, Contract!Init
<1>2. BreakerInv /\ CallNotOpen /\ [Next]_vars => [Contract!Next]_(Contract!vars)
  BY ContractStep DEF LateOutcome, CallNotOpen, BreakerInv, TypeOK
<1>3. QED
  BY <1>1, <1>2, NoLateOutcome, PTL DEF Spec, Contract!Spec, ContractSpec

=============================================================================
