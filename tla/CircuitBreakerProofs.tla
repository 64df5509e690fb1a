------------------------ MODULE CircuitBreakerProofs ------------------------
(* What TLAPS proves of CircuitBreaker, for any set of calls, any positive  *)
(* threshold and any timeout.                                              *)
EXTENDS CircuitBreaker, TLAPS

\* A tripped breaker has a full failure count, so that one more failure
\* reopens it, unless a call admitted before the trip succeeded after it.
TripKeepsCount ==
  state # "closed" => failureCount = FailureThreshold \/ streak = "lost"

\* The safety invariants of the module and that one: they are inductive.
IInv ==
  /\ TypeOK
  /\ ClosedBelowThreshold
  /\ TripKeepsCount
  /\ ProbeAfterQuietPeriod

\* The saturating counters stay within their range, and reach the bound
\* exactly when the counted number does.
LEMMA AtMostBounds ==
  ASSUME NEW n \in Nat, NEW bound \in Nat
  PROVE  /\ AtMost(n, bound) \in 0..bound
         /\ AtMost(n, bound) >= bound <=> AtMost(n, bound) = bound
  BY DEF AtMost

\* A breaker that is created, in app/circuit_breaker.py's __init__.
LEMMA InitIInv == Init => IInv
  BY ThresholdAssumption, TimeoutAssumption
  DEF Init, IInv, TypeOK, ClosedBelowThreshold, TripKeepsCount,
      ProbeAfterQuietPeriod, States

\* Every method of the breaker, at whatever point it is called, keeps the
\* safety invariants.
LEMMA NextIInv == IInv /\ [Next]_vars => IInv'
  <1> SUFFICES ASSUME IInv, [Next]_vars PROVE IInv'
    OBVIOUS
  <1> USE ThresholdAssumption, TimeoutAssumption
      DEF IInv, TypeOK, ClosedBelowThreshold, TripKeepsCount,
          ProbeAfterQuietPeriod, States
  <1>1. CASE ReadState
    BY <1>1 DEF ReadState, Current
  <1>2. ASSUME NEW c \in Calls, Admit(c) PROVE IInv'
    BY <1>2 DEF Admit, Current
  <1>3. ASSUME NEW c \in Calls, Reject(c) PROVE IInv'
    BY <1>3 DEF Reject, vars
  <1>4. ASSUME NEW c \in Calls, Succeed(c) PROVE IInv'
    BY <1>4 DEF Succeed
  <1>5. ASSUME NEW c \in Calls, Fail(c) PROVE IInv'
    <2> DEFINE count == AtMost(failureCount + 1, FailureThreshold)
    <2>1. count \in 0..FailureThreshold /\ (count >= FailureThreshold <=> count = FailureThreshold)
      BY AtMostBounds
    <2>2. /\ failureCount' = count /\ elapsed' = 0 /\ inFlight' = inFlight \ {c}
          /\ state' = IF count >= FailureThreshold THEN "open" ELSE state
          /\ streak' = IF count >= FailureThreshold THEN "kept" ELSE streak
      BY <1>5 DEF Fail
    <2> HIDE DEF count
    <2>3. CASE count = FailureThreshold
      BY <2>1, <2>2, <2>3
    <2>4. CASE count < FailureThreshold
      <3>1. state = "closed" \/ streak = "lost"
        BY <2>4, SMT DEF AtMost, count
      <3>2. state # "half_open" \/ streak = "lost"
        BY <3>1
      <3>3. QED
        BY <2>1, <2>2, <2>4, <3>1, <3>2
    <2>5. QED
      BY <2>1, <2>3, <2>4
  <1>6. ASSUME NEW c \in Calls, Abandon(c) PROVE IInv'
    BY <1>6 DEF Abandon
  <1>7. CASE Tick
    BY <1>7 DEF Tick
  <1>8. CASE UNCHANGED vars
    BY <1>8 DEF vars
  <1>9. QED
    BY <1>1, <1>2, <1>3, <1>4, <1>5, <1>6, <1>7, <1>8 DEF Next, Finish

\* A CLOSED breaker is below its threshold in every reachable state.
THEOREM ClosedIsBelowThreshold == Spec => []ClosedBelowThreshold
  <1>1. IInv => ClosedBelowThreshold
    BY DEF IInv
  <1>2. QED
    BY <1>1, InitIInv, NextIInv, PTL DEF Spec

\* A breaker probes only after a quiet timeout, late successes aside.
THEOREM ProbesAreLate == Spec => []ProbeAfterQuietPeriod
  <1>1. IInv => ProbeAfterQuietPeriod
    BY DEF IInv
  <1>2. QED
    BY <1>1, InitIInv, NextIInv, PTL DEF Spec

\* The state moves only along the diagram of the module's header.
THEOREM FollowsDiagram == Spec => TransitionDiagram
  <1>1. [Next]_vars
          => [/\ state = "closed" => state' = "open"
              /\ state = "open" => state' = "half_open"]_state
    BY DEF Next, Finish, vars, ReadState, Admit, Reject, Succeed, Fail, Abandon,
           Tick, Current
  <1>2. QED
    BY <1>1, PTL DEF Spec, TransitionDiagram

\* While the breaker is tripped, a call is admitted only when the recovery
\* timeout has passed since the last failure, late successes aside.
THEOREM NoEarlyProbe == Spec => QuarantineRespected
  <1>1. IInv /\ [Next]_vars
          => [inFlight' \subseteq inFlight \/ state = "closed" \/ streak = "lost"
                \/ elapsed = RecoveryTimeout]_vars
    BY ThresholdAssumption, TimeoutAssumption
    DEF IInv, TypeOK, TripKeepsCount, ProbeAfterQuietPeriod, States,
        Next, Finish, vars, ReadState, Admit, Reject, Succeed, Fail, Abandon,
        Tick, Current
  <1>2. QED
    BY <1>1, InitIInv, NextIInv, PTL DEF Spec, QuarantineRespected

\* A failure while the breaker probes reopens it, whichever call reports it:
\* a tripped breaker keeps the count that tripped it, so that one more is
\* enough, unless a late success has reset it.
THEOREM ProbeFailureReopens == Spec => FailedProbeReopens
  <1>1. ASSUME IInv, NEW c \in Calls, Fail(c), state = "half_open"
        PROVE  state' = "open" \/ streak = "lost"
    <2>1. failureCount = FailureThreshold \/ streak = "lost"
      BY <1>1 DEF IInv, TripKeepsCount
    <2>2. AtMost(FailureThreshold + 1, FailureThreshold) = FailureThreshold
      BY ThresholdAssumption DEF AtMost
    <2>3. QED
      BY <1>1, <2>1, <2>2, ThresholdAssumption DEF Fail
  <1>2. IInv => [state = "half_open" /\ (\E c \in Calls : Fail(c))
                   => state' = "open" \/ streak = "lost"]_vars
    BY <1>1
  <1>3. QED
    BY <1>2, InitIInv, NextIInv, PTL DEF Spec, FailedProbeReopens
=============================================================================
