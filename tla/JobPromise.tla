----------------------------- MODULE JobPromise ------------------------------
(***************************************************************************)
(* What a review job promises to whoever enqueued it, without its steps,   *)
(* its workspace and its findings: it is attempted MaxAttempts times at    *)
(* most, each attempt creates one review at most, it is done only when its *)
(* last attempt created one, and failed only when no attempt is left.      *)
(* ReviewJob implements it; PullRequest is built on it.                    *)
(***************************************************************************)
EXTENDS Integers

CONSTANT MaxAttempts     \* at least one

VARIABLES
  state,      \* "waiting", "running", "done" or "failed"
  attempts,   \* attempts started
  reviews,    \* reviews created
  last        \* the attempt that created the last of them, or 0

vars == <<state, attempts, reviews, last>>

Init == state = "waiting" /\ attempts = 0 /\ reviews = 0 /\ last = 0

Start ==
  /\ state = "waiting" /\ attempts < MaxAttempts
  /\ state' = "running" /\ attempts' = attempts + 1
  /\ UNCHANGED <<reviews, last>>

Post ==
  /\ state = "running" /\ last # attempts
  /\ reviews' = reviews + 1 /\ last' = attempts
  /\ UNCHANGED <<state, attempts>>

Finish ==
  /\ state = "running" /\ last = attempts
  /\ state' = "done"
  /\ UNCHANGED <<attempts, reviews, last>>

\* The attempt failed, whether it had created its review or not.
Fail ==
  /\ state = "running"
  /\ state' = IF attempts < MaxAttempts THEN "waiting" ELSE "failed"
  /\ UNCHANGED <<attempts, reviews, last>>

Next == Start \/ Post \/ Finish \/ Fail

Spec == Init /\ [][Next]_vars

\* No job creates more reviews than it had attempts, nor more attempts than
\* it is allowed.
ReviewsBounded == reviews <= attempts /\ attempts <= MaxAttempts
=============================================================================
