--------------------------- MODULE MCWebhookRetry ---------------------------
(* Small instances of WebhookRetry for TLC.                                *)
EXTENDS WebhookRetry, TLC

CONSTANTS d1, d2, j1, j2, k1, k2

\* All deliveries are for one head commit, or d1 is for another one.
OneKey == [d \in Deliveries |-> k1]
TwoKeys == [d \in Deliveries |-> IF d = d1 THEN k2 ELSE k1]

Symmetry == Permutations(Apis) \union Permutations(Workers)
FreshSymmetry == Symmetry \union Permutations(JobIds \ {j1, j2})
FullSymmetry == Symmetry \union Permutations(Deliveries) \union Permutations(JobIds)

(* A later state to start from: d1 is in the DLQ, put there by job j1, and *)
(* job j2 for d2 is queued for the last of its (two) attempts.             *)
DeadLetterInit ==
  /\ lock = [k \in Keys |-> "free"]
  /\ reviewQ = <<>> /\ retryQ = <<j2>>
  /\ jobState = [j \in JobIds |-> IF j = j1 THEN "done"
                                  ELSE IF j = j2 THEN "queued" ELSE "none"]
  /\ jobEvent = [j \in JobIds |-> IF j = j1 THEN d1
                                  ELSE IF j = j2 THEN d2 ELSE NoEvent]
  /\ attempt = [j \in JobIds |-> IF j = j1 THEN 2 ELSE IF j = j2 THEN 1 ELSE 0]
  /\ retriesLeft = [j \in JobIds |-> 0]
  /\ dlq = <<[id |-> 0, event |-> d1]>>
  /\ movesTotal = 1 /\ movesByRepo = 1 /\ pushes = 1
  /\ pushed = [j \in JobIds |-> IF j = j1 THEN 1 ELSE 0]
  /\ pc = [p \in Procs |-> "idle"]
  /\ role = [p \in Procs |-> "none"]
  /\ event = [p \in Procs |-> NoEvent]
  /\ status = [p \in Procs |-> "none"]
  /\ job = [p \in Procs |-> NoJob]
  /\ plan = [p \in Procs |-> <<>>]
  /\ counted = [p \in Procs |-> 0]
  /\ resp = [d \in Deliveries |-> IF d \in {d1, d2} THEN "retrying" ELSE "none"]
  /\ enqueued = [k \in Keys |-> 0]
  /\ lapses = [k \in Keys |-> 0]
  /\ lostReplies = [k \in Keys |-> 0]
  /\ presumed = {} /\ cleared = {}
  /\ faults = 0

DeadLetterSpec == DeadLetterInit /\ [][Next]_vars /\ Fairness
=============================================================================
