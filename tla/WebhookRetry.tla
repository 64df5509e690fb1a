---------------------------- MODULE WebhookRetry ----------------------------
(***************************************************************************)
(* How AegisAI turns a pull request webhook into exactly one review job:   *)
(* app/services/webhook_retry.py over the review lock of                   *)
(* app/services/queue.py, driven by the webhook handler and the DLQ admin  *)
(* routes of app/main.py (the Apis) and by the RQ worker of worker.py (the *)
(* Workers).                                                               *)
(*                                                                         *)
(* All shared state is in Redis and every Redis command is one step; what  *)
(* a process has read stays in its frame while the others move.  A command *)
(* can raise, applied or not (the reply was lost), and a process can die   *)
(* between two commands.  The handlers are async functions that never      *)
(* await once they have the body, so one API process runs one at a time.   *)
(*                                                                         *)
(* RQ is external: a job that raises is rescheduled while it has retries   *)
(* left and otherwise goes to the FailedJobRegistry; scheduled jobs are    *)
(* put back on their queue by RQ's scheduler, if a worker runs it.         *)
(***************************************************************************)
EXTENDS Integers, Sequences, FiniteSets

CONSTANTS
  Apis, Workers,   \* API processes, RQ worker processes
  Deliveries,      \* webhook events GitHub delivers
  Keys, KeyOf,     \* repo + head SHA of a review lock, and that of an event
  JobIds,          \* ids of retry jobs
  MaxAttempts,     \* settings.webhook_retry_max_attempts
  ReplayLimit,     \* the 1000 of replay_dlq
  WithScheduler,   \* does a worker run RQ's scheduler?
  MaxFaults,       \* bound on failed commands and crashes
  MaxLapses,       \* bound on lock expirations, per key
  NoEvent, NoJob

ASSUME KeyOfAssumption == KeyOf \in [Deliveries -> Keys]
ASSUME ProcessAssumption == Apis \cap Workers = {}
ASSUME FiniteProcesses == IsFiniteSet(Apis \union Workers)
ASSUME NoneAssumption == NoEvent \notin Deliveries /\ NoJob \notin JobIds
\* RQ's Retry(max=webhook_retry_max_attempts - 1) refuses a max below 1.
ASSUME AttemptsAssumption == MaxAttempts \in Nat /\ MaxAttempts >= 2
ASSUME LimitAssumption == ReplayLimit \in Nat \ {0}
ASSUME BoundAssumption == MaxFaults \in Nat /\ MaxLapses \in Nat

Procs == Apis \union Workers

VARIABLES
  \* Redis
  lock,        \* review_lock:<key>: "free", "bare" (no TTL yet) or "ttl"
  reviewQ,     \* the default queue: the events to review
  jobState,    \* retry jobs: where RQ keeps each one
  jobEvent,    \* the event a retry job carries
  attempt,     \* its meta["attempt"]
  retriesLeft, \* its RQ retries_left
  retryQ,      \* the webhook-retry queue
  dlq,         \* webhook:dlq
  movesTotal,  \* webhook:dlq:moves_total
  movesByRepo, \* webhook:dlq:moves_by_repo, of the one repository modelled
  \* each process: what it runs, for which event, and what it remembers
  pc, role, event, status, job, plan, counted,
  \* GitHub: the answer to each delivery
  resp,
  \* auxiliary
  enqueued,    \* review jobs put on the default queue, per key
  lapses,      \* lock expirations, per key
  lostReplies, \* enqueues that were applied but raised, per key
  presumed,    \* keys found locked before any review job of theirs existed
  cleared,     \* keys whose events an operator cleared from the DLQ
  pushes,      \* dead-letter entries ever pushed
  pushed,      \* the same, per retry job
  faults

lockVars == <<lock, lapses>>
reviewVars == <<reviewQ, enqueued, lostReplies, presumed>>
jobVars == <<jobState, jobEvent, attempt, retriesLeft, retryQ>>
dlqVars == <<dlq, movesTotal, movesByRepo, pushes, pushed, cleared>>
frame == <<role, event, job, plan, counted>>
procVars == <<pc, status, frame>>
vars == <<lockVars, reviewVars, jobVars, dlqVars, procVars, resp, faults>>

\* Mutant of Accepted: a replay that failed to persist counts as accepted.
AcceptedOrFailed == {"queued", "deduplicated", "retrying", "failed"}

Accepted == {"queued", "deduplicated", "retrying"}

\* KeyOf of no event is of no interest: a process without one has no key.
Key(p) == KeyOf[event[p]]

\* The id of an entry is fresh.
Entry(j) == [id |-> pushes, event |-> jobEvent[j]]

-----------------------------------------------------------------------------
Init ==
  /\ lock = [k \in Keys |-> "free"]
  /\ reviewQ = <<>> /\ retryQ = <<>> /\ dlq = <<>>
  /\ jobState = [j \in JobIds |-> "none"]
  /\ jobEvent = [j \in JobIds |-> NoEvent]
  /\ attempt = [j \in JobIds |-> 0]
  /\ retriesLeft = [j \in JobIds |-> 0]
  /\ movesTotal = 0 /\ movesByRepo = 0
  /\ pc = [p \in Procs |-> "idle"]
  /\ role = [p \in Procs |-> "none"]
  /\ event = [p \in Procs |-> NoEvent]
  /\ status = [p \in Procs |-> "none"]
  /\ job = [p \in Procs |-> NoJob]
  /\ plan = [p \in Procs |-> <<>>]
  /\ counted = [p \in Procs |-> 0]
  /\ resp = [d \in Deliveries |-> "none"]
  /\ enqueued = [k \in Keys |-> 0]
  /\ lapses = [k \in Keys |-> 0]
  /\ lostReplies = [k \in Keys |-> 0]
  /\ presumed = {} /\ cleared = {}
  /\ pushes = 0
  /\ pushed = [j \in JobIds |-> 0]
  /\ faults = 0

\* Control of a process: the next command, a call that returns, the end.
Goto(p, label) ==
  /\ pc' = [pc EXCEPT ![p] = label]
  /\ UNCHANGED <<status, frame>>

Return(p, result) ==
  /\ pc' = [pc EXCEPT ![p] = "return"]
  /\ status' = [status EXCEPT ![p] = result]
  /\ UNCHANGED frame

Rest(p) ==
  /\ pc' = [pc EXCEPT ![p] = "idle"]
  /\ status' = [status EXCEPT ![p] = "none"]
  /\ role' = [role EXCEPT ![p] = "none"]
  /\ event' = [event EXCEPT ![p] = NoEvent]
  /\ job' = [job EXCEPT ![p] = NoJob]
  /\ plan' = [plan EXCEPT ![p] = <<>>]
  /\ counted' = [counted EXCEPT ![p] = 0]

Fault == faults < MaxFaults /\ faults' = faults + 1
NoFault == UNCHANGED faults

-----------------------------------------------------------------------------
(* _enqueue_review_once: SETNX, EXPIRE, the enqueue, and DEL if it failed.  *)

\* Mutant of Acquire: SET in the place of SETNX.
AcquireAnyway(p) ==
  /\ pc[p] = "setnx"
  /\ lock' = [lock EXCEPT ![Key(p)] = "bare"]
  /\ Goto(p, "expire")
  /\ NoFault
  /\ UNCHANGED <<lapses, reviewVars, jobVars, dlqVars, resp>>

Acquire(p) ==
  /\ pc[p] = "setnx"
  /\ lock[Key(p)] = "free"
  /\ lock' = [lock EXCEPT ![Key(p)] = "bare"]
  /\ Goto(p, "expire")
  /\ NoFault
  /\ UNCHANGED <<lapses, reviewVars, jobVars, dlqVars, resp>>

\* Mutant of Deduplicate: the result of acquire_review_lock is not looked at.
DeduplicateIgnored(p) ==
  /\ pc[p] = "setnx"
  /\ lock[Key(p)] # "free"
  /\ Goto(p, "enqueue")
  /\ NoFault
  /\ UNCHANGED <<reviewVars, lockVars, jobVars, dlqVars, resp>>

Deduplicate(p) ==
  /\ pc[p] = "setnx"
  /\ lock[Key(p)] # "free"
  /\ Return(p, "deduplicated")
  /\ presumed' = IF enqueued[Key(p)] = 0 THEN presumed \union {Key(p)} ELSE presumed
  /\ NoFault
  /\ UNCHANGED <<reviewQ, enqueued, lostReplies, lockVars, jobVars, dlqVars, resp>>

\* acquire_review_lock is called outside the try block: an error of SETNX or
\* of EXPIRE leaves enqueue_review_event too, and the lock as it is.
AcquireFails(p) ==
  /\ pc[p] = "setnx"
  /\ Fault
  /\ Return(p, "raised")
  /\ \/ UNCHANGED lock
     \/ lock[Key(p)] = "free" /\ lock' = [lock EXCEPT ![Key(p)] = "bare"]
  /\ UNCHANGED <<lapses, reviewVars, jobVars, dlqVars, resp>>

\* EXPIRE of a key that is gone does nothing.
WithExpiry(k) ==
  [lock EXCEPT ![k] = IF lock[k] = "free" THEN "free" ELSE "ttl"]

SetExpiry(p) ==
  /\ pc[p] = "expire"
  /\ lock' = WithExpiry(Key(p))
  /\ Goto(p, "enqueue")
  /\ NoFault
  /\ UNCHANGED <<lapses, reviewVars, jobVars, dlqVars, resp>>

SetExpiryFails(p) ==
  /\ pc[p] = "expire"
  /\ Fault
  /\ Return(p, "raised")
  /\ lock' \in {lock, WithExpiry(Key(p))}
  /\ UNCHANGED <<lapses, reviewVars, jobVars, dlqVars, resp>>

\* Mutant of Enqueue: the lock is released after the enqueue, as in a finally.
EnqueueThenRelease(p) ==
  /\ pc[p] = "enqueue"
  /\ reviewQ' = Append(reviewQ, event[p])
  /\ enqueued' = [enqueued EXCEPT ![Key(p)] = @ + 1]
  /\ lock' = [lock EXCEPT ![Key(p)] = "free"]
  /\ Return(p, "queued")
  /\ NoFault
  /\ UNCHANGED <<lostReplies, presumed, lapses, jobVars, dlqVars, resp>>

Enqueue(p) ==
  /\ pc[p] = "enqueue"
  /\ reviewQ' = Append(reviewQ, event[p])
  /\ enqueued' = [enqueued EXCEPT ![Key(p)] = @ + 1]
  /\ Return(p, "queued")
  /\ NoFault
  /\ UNCHANGED <<lostReplies, presumed, lockVars, jobVars, dlqVars, resp>>

EnqueueFails(p) ==
  /\ pc[p] = "enqueue"
  /\ Fault
  /\ Goto(p, "release")
  /\ \/ UNCHANGED reviewVars
     \/ /\ reviewQ' = Append(reviewQ, event[p])
        /\ enqueued' = [enqueued EXCEPT ![Key(p)] = @ + 1]
        /\ lostReplies' = [lostReplies EXCEPT ![Key(p)] = @ + 1]
        /\ UNCHANGED presumed
  /\ UNCHANGED <<lockVars, jobVars, dlqVars, resp>>

\* DEL, whoever holds the lock by now.  A failed attempt of an API falls
\* back to persist_webhook_event, that of a retry job returns.
Release(p) ==
  /\ pc[p] = "release"
  /\ lock' = [lock EXCEPT ![Key(p)] = "free"]
  /\ pc' = [pc EXCEPT ![p] = IF p \in Apis THEN "persist" ELSE "return"]
  /\ status' = [status EXCEPT ![p] = "failed"]
  /\ NoFault
  /\ UNCHANGED <<frame, lapses, reviewVars, jobVars, dlqVars, resp>>

ReleaseFails(p) ==
  /\ pc[p] = "release"
  /\ Fault
  /\ Return(p, "raised")
  /\ lock' \in {lock, [lock EXCEPT ![Key(p)] = "free"]}
  /\ UNCHANGED <<lapses, reviewVars, jobVars, dlqVars, resp>>

-----------------------------------------------------------------------------
(* The webhook handler.                                                    *)

\* GitHub delivers an event, or again one that was answered with an error.
ReceiveWebhook(p, d) ==
  /\ pc[p] = "idle"
  /\ resp[d] \in {"none", "500", "503", "lost"}
  /\ \A q \in Apis : ~(role[q] = "webhook" /\ event[q] = d)
  /\ pc' = [pc EXCEPT ![p] = "setnx"]
  /\ role' = [role EXCEPT ![p] = "webhook"]
  /\ event' = [event EXCEPT ![p] = d]
  /\ NoFault
  /\ UNCHANGED <<status, job, plan, counted, lockVars, reviewVars,
                 jobVars, dlqVars, resp>>

\* Mutant of NewJob: Retry(max=webhook_retry_max_attempts), one too many.
NewJobOneMoreRetry(j, d) ==
  /\ jobState' = [jobState EXCEPT ![j] = "queued"]
  /\ jobEvent' = [jobEvent EXCEPT ![j] = d]
  /\ retriesLeft' = [retriesLeft EXCEPT ![j] = MaxAttempts]
  /\ retryQ' = Append(retryQ, j)
  /\ UNCHANGED attempt

NewJob(j, d) ==
  /\ jobState' = [jobState EXCEPT ![j] = "queued"]
  /\ jobEvent' = [jobEvent EXCEPT ![j] = d]
  /\ retriesLeft' = [retriesLeft EXCEPT ![j] = MaxAttempts - 1]
  /\ retryQ' = Append(retryQ, j)
  /\ UNCHANGED attempt

\* enqueue_review_event after a failed attempt: persist_webhook_event.
Persist(p, j) ==
  /\ pc[p] = "persist"
  /\ jobState[j] = "none"
  /\ NewJob(j, event[p])
  /\ Return(p, "retrying")
  /\ NoFault
  /\ UNCHANGED <<lockVars, reviewVars, dlqVars, resp>>

\* Mutant of PersistFails: the error is swallowed, the answer is "retrying".
PersistFailsQuietly(p, j) ==
  /\ pc[p] = "persist"
  /\ jobState[j] = "none"
  /\ Fault
  /\ Return(p, "retrying")
  /\ NewJob(j, event[p]) \/ UNCHANGED jobVars
  /\ UNCHANGED <<lockVars, reviewVars, dlqVars, resp>>

PersistFails(p, j) ==
  /\ pc[p] = "persist"
  /\ jobState[j] = "none"
  /\ Fault
  /\ Return(p, "failed")
  /\ NewJob(j, event[p]) \/ UNCHANGED jobVars
  /\ UNCHANGED <<lockVars, reviewVars, dlqVars, resp>>

Answer(result) ==
  CASE result = "queued"   -> "received"
    [] result = "failed"   -> "503"
    [] result = "raised"   -> "500"
    [] OTHER               -> result

Reply(p) ==
  /\ pc[p] = "return" /\ role[p] = "webhook"
  /\ resp' = [resp EXCEPT ![event[p]] = Answer(status[p])]
  /\ Rest(p)
  /\ NoFault
  /\ UNCHANGED <<lockVars, reviewVars, jobVars, dlqVars>>

-----------------------------------------------------------------------------
(* The dead-letter admin API: replay_dlq and clear_dlq.                    *)

Listed == SubSeq(dlq, 1, IF Len(dlq) < ReplayLimit THEN Len(dlq) ELSE ReplayLimit)

\* All the entries listed, or the one an operator picks by its index.
StartReplay(p) ==
  /\ pc[p] = "idle"
  /\ dlq # <<>>
  /\ \E selected \in {Listed} \union {<<Listed[i]>> : i \in DOMAIN Listed} :
       /\ plan' = [plan EXCEPT ![p] = selected]
       /\ event' = [event EXCEPT ![p] = Head(selected).event]
  /\ pc' = [pc EXCEPT ![p] = "setnx"]
  /\ role' = [role EXCEPT ![p] = "replay"]
  /\ NoFault
  /\ UNCHANGED <<status, job, counted, lockVars, reviewVars, jobVars,
                 dlqVars, resp>>

\* The for loop goes on to the next entry of its snapshot.
NextEntry(p) ==
  IF Len(plan[p]) = 1 THEN Rest(p)
  ELSE /\ plan' = [plan EXCEPT ![p] = Tail(@)]
       /\ event' = [event EXCEPT ![p] = plan[p][2].event]
       /\ pc' = [pc EXCEPT ![p] = "setnx"]
       /\ status' = [status EXCEPT ![p] = "none"]
       /\ UNCHANGED <<role, job, counted>>

Without(i) == SubSeq(dlq, 1, i - 1) \o SubSeq(dlq, i + 1, Len(dlq))

\* _remove_dlq_entry_by_id: LREM takes the entry by value, wherever it is by
\* now, and does nothing when another replay or a clear has taken it.
Remove(entry) ==
  \/ \E i \in DOMAIN dlq : dlq[i].id = entry.id /\ dlq' = Without(i)
  \/ (\A i \in DOMAIN dlq : dlq[i].id # entry.id) /\ UNCHANGED dlq

RemoveReplayed(p) ==
  /\ pc[p] = "return" /\ role[p] = "replay"
  /\ status[p] \in Accepted
  /\ Remove(Head(plan[p]))
  /\ NextEntry(p)
  /\ NoFault
  /\ UNCHANGED <<movesTotal, movesByRepo, pushes, pushed, cleared, lockVars,
                 reviewVars, jobVars, resp>>

KeepFailed(p) ==
  /\ pc[p] = "return" /\ role[p] = "replay"
  /\ status[p] = "failed"
  /\ NextEntry(p)
  /\ NoFault
  /\ UNCHANGED <<lockVars, reviewVars, jobVars, dlqVars, resp>>

\* An exception of enqueue_review_event ends the request, with a 500.
ReplayAborts(p) ==
  /\ pc[p] = "return" /\ role[p] = "replay"
  /\ status[p] = "raised"
  /\ Rest(p)
  /\ NoFault
  /\ UNCHANGED <<lockVars, reviewVars, jobVars, dlqVars, resp>>

RemoveFails(p) ==
  /\ pc[p] = "return" /\ role[p] = "replay"
  /\ status[p] \in Accepted
  /\ Fault
  /\ Remove(Head(plan[p])) \/ UNCHANGED dlq
  /\ Rest(p)
  /\ UNCHANGED <<movesTotal, movesByRepo, pushes, pushed, cleared, lockVars,
                 reviewVars, jobVars, resp>>

\* LLEN; with no entry clear_dlq returns at once.
StartClear(p) ==
  /\ pc[p] = "idle"
  /\ dlq # <<>>
  /\ pc' = [pc EXCEPT ![p] = "delete"]
  /\ role' = [role EXCEPT ![p] = "clear"]
  /\ counted' = [counted EXCEPT ![p] = Len(dlq)]
  /\ NoFault
  /\ UNCHANGED <<status, event, job, plan, lockVars, reviewVars,
                 jobVars, dlqVars, resp>>

DeleteAll ==
  /\ dlq' = <<>>
  /\ cleared' = cleared \union {KeyOf[dlq[i].event] : i \in DOMAIN dlq}

DeleteDlq(p) ==
  /\ pc[p] = "delete"
  /\ DeleteAll
  /\ Rest(p)
  /\ NoFault
  /\ UNCHANGED <<movesTotal, movesByRepo, pushes, pushed, lockVars, reviewVars,
                 jobVars, resp>>

DeleteFails(p) ==
  /\ pc[p] = "delete"
  /\ Fault
  /\ DeleteAll \/ UNCHANGED <<dlq, cleared>>
  /\ Rest(p)
  /\ UNCHANGED <<movesTotal, movesByRepo, pushes, pushed, lockVars, reviewVars,
                 jobVars, resp>>

-----------------------------------------------------------------------------
(* The worker: the default queue first, then webhook-retry.                *)

StartReview(w) ==
  /\ pc[w] = "idle"
  /\ reviewQ # <<>>
  /\ reviewQ' = Tail(reviewQ)
  /\ pc' = [pc EXCEPT ![w] = "review"]
  /\ role' = [role EXCEPT ![w] = "review"]
  /\ event' = [event EXCEPT ![w] = Head(reviewQ)]
  /\ NoFault
  /\ UNCHANGED <<status, job, plan, counted, enqueued, lostReplies, presumed, lockVars,
                 jobVars, dlqVars, resp>>

\* run_review_job, which does not touch the lock, ends.
EndReview(w) ==
  /\ pc[w] = "review"
  /\ Rest(w)
  /\ NoFault
  /\ UNCHANGED <<lockVars, reviewVars, jobVars, dlqVars, resp>>

StartRetry(w) ==
  /\ pc[w] = "idle"
  /\ reviewQ = <<>> /\ retryQ # <<>>
  /\ LET j == Head(retryQ) IN
       /\ jobState' = [jobState EXCEPT ![j] = "started"]
       /\ job' = [job EXCEPT ![w] = j]
       /\ event' = [event EXCEPT ![w] = jobEvent[j]]
  /\ retryQ' = Tail(retryQ)
  /\ pc' = [pc EXCEPT ![w] = "meta"]
  /\ role' = [role EXCEPT ![w] = "retry"]
  /\ NoFault
  /\ UNCHANGED <<status, plan, counted, jobEvent, attempt, retriesLeft,
                 lockVars, reviewVars, dlqVars, resp>>

SaveAttempt(w) ==
  /\ pc[w] = "meta"
  /\ attempt' = [attempt EXCEPT ![job[w]] = @ + 1]
  /\ Goto(w, "setnx")
  /\ NoFault
  /\ UNCHANGED <<jobState, jobEvent, retriesLeft, retryQ, lockVars,
                 reviewVars, dlqVars, resp>>

\* RQ when the job of w raises or its work horse dies: Retry(interval=...)
\* schedules it again, and out of retries it is left in the failed registry.
JobFails(w) ==
  LET j == job[w]
      again == retriesLeft[j] > 0 IN
  /\ jobState' = [jobState EXCEPT ![j] = IF again THEN "scheduled" ELSE "failed"]
  /\ retriesLeft' = [retriesLeft EXCEPT ![j] = IF again THEN @ - 1 ELSE 0]
  /\ Rest(w)
  /\ UNCHANGED <<jobEvent, retryQ>>

JobDone(w) ==
  /\ jobState' = [jobState EXCEPT ![job[w]] = "done"]
  /\ Rest(w)
  /\ UNCHANGED <<jobEvent, attempt, retriesLeft, retryQ>>

\* job.meta is set before save_meta, and RQ saves the job it reschedules:
\* the attempt counts even when save_meta raised.
SaveAttemptFails(w) ==
  /\ pc[w] = "meta"
  /\ Fault
  /\ attempt' = [attempt EXCEPT ![job[w]] = @ + 1]
  /\ JobFails(w)
  /\ UNCHANGED <<lockVars, reviewVars, dlqVars, resp>>

RetryReturns(w) == pc[w] = "return" /\ role[w] = "retry"

\* Mutant of Exhausted: off by one.
ExhaustedEarly(w) == attempt[job[w]] >= MaxAttempts - 1

Exhausted(w) == attempt[job[w]] >= MaxAttempts

RetryDone(w) ==
  /\ RetryReturns(w)
  /\ status[w] \in {"queued", "deduplicated"}
  /\ JobDone(w)
  /\ NoFault
  /\ UNCHANGED <<lockVars, reviewVars, dlqVars, resp>>

\* Mutant of RetryRaises: a failed attempt does not raise, RQ takes it as done.
RetryReturnsAnyway(w) ==
  /\ RetryReturns(w)
  /\ status[w] = "raised" \/ (status[w] = "failed" /\ ~Exhausted(w))
  /\ JobDone(w)
  /\ NoFault
  /\ UNCHANGED <<lockVars, reviewVars, dlqVars, resp>>

RetryRaises(w) ==
  /\ RetryReturns(w)
  /\ status[w] = "raised" \/ (status[w] = "failed" /\ ~Exhausted(w))
  /\ JobFails(w)
  /\ NoFault
  /\ UNCHANGED <<attempt, lockVars, reviewVars, dlqVars, resp>>

\* move_to_dlq, one command at a time: RPUSH, INCR, HINCRBY.
Push(w) ==
  /\ dlq' = Append(dlq, Entry(job[w]))
  /\ pushes' = pushes + 1
  /\ pushed' = [pushed EXCEPT ![job[w]] = @ + 1]

DeadLetter(w) ==
  /\ RetryReturns(w)
  /\ status[w] = "failed" /\ Exhausted(w)
  /\ Push(w)
  /\ Goto(w, "incr")
  /\ NoFault
  /\ UNCHANGED <<movesTotal, movesByRepo, cleared, lockVars,
                 reviewVars, jobVars, resp>>

DeadLetterFails(w) ==
  /\ RetryReturns(w)
  /\ status[w] = "failed" /\ Exhausted(w)
  /\ Fault
  /\ Push(w) \/ UNCHANGED <<dlq, pushes, pushed>>
  /\ JobFails(w)
  /\ UNCHANGED <<attempt, movesTotal, movesByRepo, cleared, lockVars,
                 reviewVars, resp>>

\* Mutant of CountMove: the counter of the repository goes first.
CountRepoFirst(w) ==
  /\ pc[w] = "incr"
  /\ movesByRepo' = movesByRepo + 1
  /\ Goto(w, "hincrby")
  /\ NoFault
  /\ UNCHANGED <<dlq, movesTotal, pushes, pushed, cleared, lockVars,
                 reviewVars, jobVars, resp>>

CountMove(w) ==
  /\ pc[w] = "incr"
  /\ movesTotal' = movesTotal + 1
  /\ Goto(w, "hincrby")
  /\ NoFault
  /\ UNCHANGED <<dlq, movesByRepo, pushes, pushed, cleared, lockVars,
                 reviewVars, jobVars, resp>>

\* The alert that follows never raises.
CountRepoMove(w) ==
  /\ pc[w] = "hincrby"
  /\ movesByRepo' = movesByRepo + 1
  /\ JobDone(w)
  /\ NoFault
  /\ UNCHANGED <<dlq, movesTotal, pushes, pushed, cleared, lockVars,
                 reviewVars, resp>>

CountFails(w) ==
  /\ Fault
  /\ \/ /\ pc[w] = "incr"
        /\ movesTotal' \in {movesTotal, movesTotal + 1} /\ UNCHANGED movesByRepo
     \/ /\ pc[w] = "hincrby"
        /\ movesByRepo' \in {movesByRepo, movesByRepo + 1} /\ UNCHANGED movesTotal
  /\ JobFails(w)
  /\ UNCHANGED <<attempt, dlq, pushes, pushed, cleared, lockVars, reviewVars, resp>>

-----------------------------------------------------------------------------
(* What happens around the processes.                                      *)

\* RQ's scheduler moves a job whose backoff is over to its queue.
Requeue(j) ==
  /\ WithScheduler
  /\ jobState[j] = "scheduled"
  /\ jobState' = [jobState EXCEPT ![j] = "queued"]
  /\ retryQ' = Append(retryQ, j)
  /\ NoFault
  /\ UNCHANGED <<jobEvent, attempt, retriesLeft, lockVars, reviewVars,
                 dlqVars, procVars, resp>>

Lapse(k) ==
  /\ lock[k] = "ttl"
  /\ lapses[k] < MaxLapses
  /\ lock' = [lock EXCEPT ![k] = "free"]
  /\ lapses' = [lapses EXCEPT ![k] = @ + 1]
  /\ NoFault
  /\ UNCHANGED <<reviewVars, jobVars, dlqVars, procVars, resp>>

\* The API process dies; GitHub's request ends without an answer.
ApiCrash(p) ==
  /\ pc[p] # "idle"
  /\ Fault
  /\ resp' = IF role[p] = "webhook" THEN [resp EXCEPT ![event[p]] = "lost"] ELSE resp
  /\ Rest(p)
  /\ UNCHANGED <<lockVars, reviewVars, jobVars, dlqVars>>

\* The work horse dies in a retry job.  The worker handles the failure with
\* the job it read before the fork, so a saved attempt may be overwritten.
WorkhorseCrash(w) ==
  /\ role[w] = "retry"
  /\ Fault
  /\ \/ UNCHANGED attempt
     \/ pc[w] # "meta" /\ attempt' = [attempt EXCEPT ![job[w]] = @ - 1]
  /\ JobFails(w)
  /\ UNCHANGED <<lockVars, reviewVars, dlqVars, resp>>

-----------------------------------------------------------------------------

Once(p) == Acquire(p) \/ Deduplicate(p) \/ SetExpiry(p) \/ Enqueue(p) \/ Release(p)

OnceFails(p) ==
  AcquireFails(p) \/ SetExpiryFails(p) \/ EnqueueFails(p) \/ ReleaseFails(p)

ApiStep(p) ==
  \/ Once(p) \/ Reply(p)
  \/ \E j \in JobIds : Persist(p, j)
  \/ RemoveReplayed(p) \/ KeepFailed(p) \/ ReplayAborts(p) \/ DeleteDlq(p)

ApiFault(p) ==
  \/ OnceFails(p) \/ RemoveFails(p) \/ DeleteFails(p) \/ ApiCrash(p)
  \/ \E j \in JobIds : PersistFails(p, j)

ApiStart(p) ==
  StartReplay(p) \/ StartClear(p) \/ \E d \in Deliveries : ReceiveWebhook(p, d)

WorkerStep(w) ==
  \/ StartReview(w) \/ EndReview(w) \/ StartRetry(w) \/ SaveAttempt(w)
  \/ Once(w) \/ RetryDone(w) \/ RetryRaises(w)
  \/ DeadLetter(w) \/ CountMove(w) \/ CountRepoMove(w)

WorkerFault(w) ==
  \/ OnceFails(w) \/ SaveAttemptFails(w) \/ DeadLetterFails(w) \/ CountFails(w)
  \/ WorkhorseCrash(w)

Next ==
  \/ \E p \in Apis : ApiStart(p) \/ ApiStep(p) \/ ApiFault(p)
  \/ \E w \in Workers : WorkerStep(w) \/ WorkerFault(w)
  \/ \E j \in JobIds : Requeue(j)
  \/ \E k \in Keys : Lapse(k)

Spec == Init /\ [][Next]_vars

\* A running process goes on, and RQ's scheduler, where there is one, does
\* its work.  Faults, lapses and requests need not happen.
Fairness ==
  /\ \A p \in Apis : WF_vars(ApiStep(p))
  /\ \A w \in Workers : WF_vars(WorkerStep(w))
  /\ \A j \in JobIds : WF_vars(Requeue(j))

FairSpec == Spec /\ Fairness

-----------------------------------------------------------------------------
PcLabels == {"idle", "setnx", "expire", "enqueue", "release", "persist",
             "return", "delete", "review", "meta", "incr", "hincrby"}
Roles == {"none", "webhook", "replay", "clear", "review", "retry"}
Results == {"none", "queued", "deduplicated", "retrying", "failed", "raised"}
Entries == [id : Nat, event : Deliveries]

LockType ==
  /\ lock \in [Keys -> {"free", "bare", "ttl"}]
  /\ lapses \in [Keys -> 0..MaxLapses]

ReviewType ==
  /\ reviewQ \in Seq(Deliveries)
  /\ enqueued \in [Keys -> Nat]
  /\ lostReplies \in [Keys -> Nat]
  /\ presumed \subseteq Keys

JobType ==
  /\ jobState \in [JobIds -> {"none", "queued", "started", "scheduled",
                              "done", "failed"}]
  /\ jobEvent \in [JobIds -> Deliveries \union {NoEvent}]
  /\ attempt \in [JobIds -> 0..MaxAttempts]
  /\ retriesLeft \in [JobIds -> 0..MaxAttempts - 1]
  /\ retryQ \in Seq(JobIds)

DlqType ==
  /\ dlq \in Seq(Entries)
  /\ movesTotal \in Nat /\ movesByRepo \in Nat
  /\ pushes \in Nat
  /\ pushed \in [JobIds -> Nat]
  /\ cleared \subseteq Keys

ProcType ==
  /\ pc \in [Procs -> PcLabels]
  /\ status \in [Procs -> Results]
  /\ role \in [Procs -> Roles]
  /\ event \in [Procs -> Deliveries \union {NoEvent}]
  /\ job \in [Procs -> JobIds \union {NoJob}]
  /\ plan \in [Procs -> Seq(Entries)]
  /\ counted \in [Procs -> Nat]

\* Every variable has a value the code can give it: in particular a job is
\* attempted at most MaxAttempts times, whatever fails while it runs.
TypeOK ==
  /\ LockType /\ ReviewType /\ JobType /\ DlqType /\ ProcType
  /\ resp \in [Deliveries -> {"none", "received", "deduplicated", "retrying",
                              "500", "503", "lost"}]
  /\ faults \in 0..MaxFaults

\* Between a successful SETNX and the outcome of the enqueue.
Holding(p) == pc[p] \in {"expire", "enqueue", "release"}

HoldersOf(k) == {p \in Procs : Holding(p) /\ Key(p) = k}

\* A head commit gets one review job, and one more only for each time its
\* lock lapsed or an enqueue that raised had been applied.  Errors, crashes,
\* releases of another holder's lock and DLQ replays buy no extra review.
DuplicatesAreExcused ==
  \A k \in Keys : enqueued[k] <= 1 + lapses[k] + lostReplies[k]

\* Two processes are never between SETNX and the outcome of the enqueue for
\* the same head commit, unless its lock lapsed under one of them.
ExclusiveAdmission ==
  \A p, q \in Procs :
    p # q /\ Holding(p) /\ Holding(q) /\ Key(p) = Key(q) => lapses[Key(p)] > 0

\* A retry job never writes a second DLQ entry, however it is re-run after
\* a crash inside move_to_dlq.
DeadLetteredOnce == \A j \in JobIds : pushed[j] <= 1

\* A job whose event is in the DLQ is never run again by RQ, which would
\* review an event an operator may have cleared.
DeadLetterIsFinal ==
  \A j \in JobIds : pushed[j] > 0 => jobState[j] \notin {"queued", "scheduled"}

\* The dead-letter counters never run ahead: per repository <= total <=
\* entries ever pushed, through errors and crashes between the commands.
CountersBracketed == movesByRepo <= movesTotal /\ movesTotal <= pushes

Alive == {"queued", "started", "scheduled"}

JobFor(k, states) ==
  \E j \in JobIds : jobState[j] \in states /\ KeyOf[jobEvent[j]] = k

DeadLettered(k) == \E i \in DOMAIN dlq : KeyOf[dlq[i].event] = k

Acknowledged(d) == resp[d] \in {"received", "deduplicated", "retrying"}

\* An event answered with a 200 is never lost on the way to its review: its
\* head commit has a review job, a retry job that is alive or in RQ's failed
\* registry, or a DLQ entry, through retries, replays and faults.  What is
\* excepted is a DLQ cleared on purpose, and a "deduplicated" that believed a
\* lock with no review job behind it.
AcknowledgedEventsAreCarried ==
  \A d \in Deliveries : LET k == KeyOf[d] IN
    Acknowledged(d) => \/ enqueued[k] > 0
                       \/ JobFor(k, Alive \union {"failed"})
                       \/ DeadLettered(k)
                       \/ k \in cleared \/ k \in presumed

\* Every event persisted for retry comes to an end: it is queued for review,
\* dead-lettered or in RQ's failed registry, or its head commit was taken to
\* be in review already.
RetriesSettle ==
  \A j \in JobIds :
    jobState[j] = "queued"
      ~> \/ pushed[j] > 0 \/ jobState[j] = "failed"
         \/ /\ jobEvent[j] # NoEvent
            /\ enqueued[KeyOf[jobEvent[j]]] > 0 \/ KeyOf[jobEvent[j]] \in presumed

Admission == INSTANCE ReviewAdmission WITH
  reviews <- enqueued, excuses <- [k \in Keys |-> lapses[k] + lostReplies[k]]

\* The whole protocol does what the review lock promises.
ImplementsAdmission == Admission!Spec

-----------------------------------------------------------------------------
(* What the documentation says and the code does not do.                   *)

\* "entries that still fail to persist are kept for another attempt"
\* (app/services/webhook_retry.py:287), unless an operator cleared the DLQ.
ReplayKeepsFailed ==
  [][\A p \in Apis : KeepFailed(p) =>
       \/ \E i \in DOMAIN dlq : dlq[i] = Head(plan[p])
       \/ Key(p) \in cleared]_vars
=============================================================================
