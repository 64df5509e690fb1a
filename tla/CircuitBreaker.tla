--------------------------- MODULE CircuitBreaker ---------------------------
(***************************************************************************)
(* The circuit breaker of app/circuit_breaker.py, shared by the calls of   *)
(* one asyncio process.  Nothing in the breaker awaits, so each of its     *)
(* methods is one atomic step; the guarded call itself awaits, so any      *)
(* number of calls are in flight between their admission (is_open) and     *)
(* their outcome (record_success / record_failure).                        *)
(*                                                                         *)
(* Two quantities are kept only as far as the code compares them:          *)
(*   elapsed       time.monotonic() - _last_failure_time, which saturates  *)
(*                 at RecoveryTimeout (it is only tested with >=);         *)
(*   failureCount  _failure_count, which saturates at FailureThreshold.    *)
(***************************************************************************)
EXTENDS Integers

CONSTANTS
  Calls,            \* slots for calls in flight through the breaker
  FailureThreshold, \* failure_threshold
  RecoveryTimeout   \* recovery_timeout, in ticks of the model's clock

ASSUME ThresholdAssumption == FailureThreshold \in Nat \ {0}
ASSUME TimeoutAssumption == RecoveryTimeout \in Nat

VARIABLES
  state,        \* _state
  failureCount, \* _failure_count, saturated
  elapsed,      \* time since _last_failure_time, saturated
  inFlight,     \* the calls admitted and not finished
  streak        \* auxiliary: "lost" once a call has succeeded while the
                \* breaker was OPEN, since it last tripped; else "kept"

vars == <<state, failureCount, elapsed, inFlight, streak>>

States == {"closed", "open", "half_open"}

AtMost(n, bound) == IF n < bound THEN n ELSE bound

-----------------------------------------------------------------------------

\* _last_failure_time starts at 0.0 and the monotonic clock anywhere.
Init ==
  /\ state = "closed"
  /\ failureCount = 0
  /\ elapsed \in 0..RecoveryTimeout
  /\ inFlight = {}
  /\ streak = "kept"

\* Mutant of Current: the timeout closes the breaker outright.
CurrentClosesOnTimeout ==
  IF state = "open" /\ elapsed >= RecoveryTimeout THEN "closed" ELSE state

\* Mutant of Current: the timeout is not looked at.
CurrentIgnoresTimeout == IF state = "open" THEN "half_open" ELSE state

\* The state property: reading it moves an OPEN breaker whose recovery
\* timeout has passed to HALF_OPEN.
Current ==
  IF state = "open" /\ elapsed >= RecoveryTimeout THEN "half_open" ELSE state

\* Mutant of ReadState: HALF_OPEN starts counting failures afresh.
ReadStateStartsAfresh ==
  /\ state' = Current
  /\ failureCount' = IF Current = state THEN failureCount ELSE 0
  /\ UNCHANGED <<elapsed, inFlight, streak>>

\* Anything that reads breaker.state, such as a dashboard or a test.
ReadState ==
  /\ state' = Current
  /\ UNCHANGED <<failureCount, elapsed, inFlight, streak>>

\* Mutant of Admit: it tests _state instead of the state property.
AdmitReadsField(c) ==
  /\ c \notin inFlight
  /\ state # "open"
  /\ inFlight' = inFlight \union {c}
  /\ UNCHANGED <<state, failureCount, elapsed, streak>>

\* The wrapper, or the with statement, before the call: is_open() is false.
Admit(c) ==
  /\ c \notin inFlight
  /\ Current # "open"
  /\ state' = Current
  /\ inFlight' = inFlight \union {c}
  /\ UNCHANGED <<failureCount, elapsed, streak>>

\* is_open() is true: CircuitBreakerOpenError, and the call is never made.
Reject(c) ==
  /\ c \notin inFlight
  /\ Current = "open"
  /\ UNCHANGED vars

\* Mutant of Succeed: _failure_count is not reset.
SucceedKeepsCount(c) ==
  /\ c \in inFlight
  /\ inFlight' = inFlight \ {c}
  /\ state' = IF state = "half_open" THEN "closed" ELSE state
  /\ streak' = IF state = "open" THEN "lost" ELSE "kept"
  /\ UNCHANGED <<failureCount, elapsed>>

\* record_success.  It tests _state, not the state property.
Succeed(c) ==
  /\ c \in inFlight
  /\ inFlight' = inFlight \ {c}
  /\ state' = IF state = "half_open" THEN "closed" ELSE state
  /\ failureCount' = 0
  /\ streak' = IF state = "open" THEN "lost" ELSE "kept"
  /\ UNCHANGED elapsed

\* Mutant of Fail: only a CLOSED breaker trips.
FailTripsOnlyClosed(c) ==
  LET count == AtMost(failureCount + 1, FailureThreshold) IN
  /\ c \in inFlight
  /\ inFlight' = inFlight \ {c}
  /\ failureCount' = count
  /\ elapsed' = 0
  /\ state' = IF count >= FailureThreshold /\ state = "closed" THEN "open" ELSE state
  /\ streak' = IF count >= FailureThreshold THEN "kept" ELSE streak

\* record_failure, on any exception but CircuitBreakerOpenError (and, for
\* the decorator, but asyncio.CancelledError, which is no Exception).
Fail(c) ==
  LET count == AtMost(failureCount + 1, FailureThreshold) IN
  /\ c \in inFlight
  /\ inFlight' = inFlight \ {c}
  /\ failureCount' = count
  /\ elapsed' = 0
  /\ state' = IF count >= FailureThreshold THEN "open" ELSE state
  /\ streak' = IF count >= FailureThreshold THEN "kept" ELSE streak

\* A nested breaker's CircuitBreakerOpenError, or the cancellation of a
\* decorated call: the outcome is not recorded.
Abandon(c) ==
  /\ c \in inFlight
  /\ inFlight' = inFlight \ {c}
  /\ UNCHANGED <<state, failureCount, elapsed, streak>>

Tick ==
  /\ elapsed < RecoveryTimeout
  /\ elapsed' = elapsed + 1
  /\ UNCHANGED <<state, failureCount, inFlight, streak>>

Finish(c) == Succeed(c) \/ Fail(c) \/ Abandon(c)

Next ==
  \/ ReadState
  \/ \E c \in Calls : Admit(c) \/ Reject(c) \/ Finish(c)
  \/ Tick

Spec == Init /\ [][Next]_vars

\* Time passes, a call in flight ends (the guarded calls have timeouts), and
\* clients keep calling.
Fairness ==
  /\ WF_vars(Tick)
  /\ \A c \in Calls : WF_vars(Finish(c)) /\ WF_vars(Admit(c))

FairSpec == Spec /\ Fairness

-----------------------------------------------------------------------------

\* The values of the variables.  The bounds are those the model saturates at,
\* which the code has not, so the proofs use this and no run checks it.
TypeOK ==
  /\ state \in States
  /\ failureCount \in 0..FailureThreshold
  /\ elapsed \in 0..RecoveryTimeout
  /\ inFlight \subseteq Calls
  /\ streak \in {"kept", "lost"}

\* A CLOSED breaker has always seen fewer consecutive failures than its
\* threshold, whatever calls admitted in its earlier states report.
ClosedBelowThreshold == state = "closed" => failureCount < FailureThreshold

\* Probes go out only after a full recovery timeout without a failure,
\* unless a call admitted before the trip succeeded after it.
ProbeAfterQuietPeriod ==
  state = "half_open" => elapsed = RecoveryTimeout \/ streak = "lost"

\* The breaker moves only along the transitions its header draws: an OPEN
\* breaker never closes without having been HALF_OPEN.
TransitionDiagram ==
  [][/\ state = "closed" => state' = "open"
     /\ state = "open" => state' = "half_open"]_state

\* No call is admitted before RecoveryTimeout has passed since the last
\* recorded failure of a breaker that tripped and took no late success.
QuarantineRespected ==
  [][inFlight' \subseteq inFlight \/ state = "closed" \/ streak = "lost"
       \/ elapsed = RecoveryTimeout]_vars

\* "HALF_OPEN -> OPEN: on next failure": the first failure that is recorded
\* while the breaker probes reopens it, whether it is the probe's or that of a
\* call admitted long before.  After a success that came while the breaker was
\* OPEN, which resets the count and leaves it OPEN, one failure is too few.
FailedProbeReopens ==
  [][state = "half_open" /\ (\E c \in Calls : Fail(c))
       => state' = "open" \/ streak = "lost"]_vars

\* An OPEN breaker does not stay OPEN for ever: it probes again, even when
\* late failures keep restarting its recovery timeout.
EventuallyProbes == state = "open" ~> state = "half_open"
=============================================================================
