-------------------------- MODULE ReviewAdmission ---------------------------
(***************************************************************************)
(* What the review lock of app/services/queue.py promises to whoever       *)
(* enqueues reviews, with no processes, no Redis and no retry queue: a     *)
(* head commit is admitted to review once, and once more for each excuse.  *)
(* An excuse is a lapse of the lock's TTL, or an enqueue whose reply was   *)
(* lost.  WebhookRetry implements it.                                      *)
(***************************************************************************)
EXTENDS Integers

CONSTANT Keys      \* head commits: repo + head SHA

VARIABLES
  reviews,         \* review jobs created for each head commit
  excuses          \* excuses for another one

vars == <<reviews, excuses>>

Init ==
  /\ reviews = [k \in Keys |-> 0]
  /\ excuses = [k \in Keys |-> 0]

\* A review job is created: the commit is new, or has an excuse left.
Admit(k) ==
  /\ reviews[k] <= excuses[k]
  /\ reviews' = [reviews EXCEPT ![k] = @ + 1]
  /\ UNCHANGED excuses

\* The review job is created, and its creator believes that it is not.
AdmitUnseen(k) ==
  /\ reviews[k] <= excuses[k]
  /\ reviews' = [reviews EXCEPT ![k] = @ + 1]
  /\ excuses' = [excuses EXCEPT ![k] = @ + 1]

\* The lock of the commit lapses.
Lapse(k) ==
  /\ excuses' = [excuses EXCEPT ![k] = @ + 1]
  /\ UNCHANGED reviews

Next == \E k \in Keys : Admit(k) \/ AdmitUnseen(k) \/ Lapse(k)

Spec == Init /\ [][Next]_vars

\* No head commit has more reviews than its first one and its excuses.
ReviewsExcused == \A k \in Keys : reviews[k] <= 1 + excuses[k]
=============================================================================
