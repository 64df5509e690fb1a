---------------------------- MODULE PullRequest ------------------------------
(***************************************************************************)
(* The life of pull requests: heads are pushed, each push is an event,     *)
(* events are admitted to review under the lock of their head commit, and  *)
(* the review jobs post to the pull request, which has moved on meanwhile. *)
(*                                                                         *)
(* This composes what the other modules detail.  An event is handled in    *)
(* one step, with the outcomes WebhookRetry gives it, and an attempt of a  *)
(* job is its start, its review and its end, as ReviewJob implements       *)
(* JobPromise.  Several workers take the jobs from one queue, and a job    *)
(* whose attempt failed goes to its end again.                             *)
(***************************************************************************)
EXTENDS Integers, Sequences, FiniteSets, SequencesExt

CONSTANTS
  PRs,          \* pull requests of one repository
  Commits,
  Pushes,       \* the head commits pushed to each pull request, in order
  NumWorkers,   \* RQ worker processes
  MaxAttempts,  \* of a review job: review_job_max_retries + 1
  MaxFaults     \* bound on failures, lapses, and events that come again

ASSUME CommitsAssumption == IsFiniteSet(Commits)
ASSUME PushesAssumption == Pushes \in [PRs -> Seq(Commits)]
ASSUME WorkersAssumption == NumWorkers \in Nat \ {0}
ASSUME AttemptsAssumption == MaxAttempts \in Nat \ {0}
ASSUME FaultsAssumption == MaxFaults \in Nat

\* An event of pull request pr says that its n-th head was pushed.
Events == UNION {{[pr |-> p, n |-> n] : n \in DOMAIN Pushes[p]} : p \in PRs}

CommitOf(e) == Pushes[e.pr][e.n]

VARIABLES
  head,      \* per pull request: heads pushed so far
  events,    \* per event: where it is on the way to review
  locked,    \* the commits whose review lock is held
  jobs,      \* the review jobs, in the order they were enqueued
  queue,     \* the default queue: jobs by number
  reviews,   \* per pull request: its reviews, in the order they were posted
  excuses,   \* auxiliary: lapses and lost replies, per commit
  orphans,   \* auxiliary: commits locked at a time for no job
  faults

vars == <<head, events, locked, jobs, queue, reviews, excuses, orphans, faults>>

JobIds == 1..Len(jobs)

Init ==
  /\ head = [p \in PRs |-> 0]
  /\ events = [e \in Events |-> "unsent"]
  /\ locked = {} /\ jobs = <<>> /\ queue = <<>>
  /\ reviews = [p \in PRs |-> <<>>]
  /\ excuses = [c \in Commits |-> 0] /\ orphans = {} /\ faults = 0

Fault == faults < MaxFaults /\ faults' = faults + 1

-----------------------------------------------------------------------------
(* Heads and their events.                                                 *)

\* A pull request is opened or synchronized.
Push(p) ==
  /\ head[p] < Len(Pushes[p])
  /\ head' = [head EXCEPT ![p] = @ + 1]
  /\ events' = [events EXCEPT ![[pr |-> p, n |-> head'[p]]] = "sent"]
  /\ UNCHANGED <<locked, jobs, queue, reviews, excuses, orphans, faults>>

\* Sent to the API, persisted as a retry job that waits on its queue for its
\* first attempt, or postponed by an attempt of that job which failed.
Offered(e) == events[e] \in {"sent", "retrying", "postponed"}

NewJob(e) ==
  /\ jobs' = Append(jobs, [event |-> e, state |-> "waiting", attempts |-> 0,
                           reviews |-> 0, last |-> 0, beside |-> {}])
  /\ queue' = Append(queue, Len(jobs) + 1)

\* Mutant of Admit: the lock is not looked at.
AdmitLocked(e) ==
  /\ Offered(e)
  /\ NewJob(e)
  /\ locked' = locked \union {CommitOf(e)}
  /\ events' = [events EXCEPT ![e] = "admitted"]
  /\ UNCHANGED <<head, reviews, excuses, orphans, faults>>

Admit(e) ==
  /\ Offered(e) /\ CommitOf(e) \notin locked
  /\ NewJob(e)
  /\ locked' = locked \union {CommitOf(e)}
  /\ events' = [events EXCEPT ![e] = "admitted"]
  /\ UNCHANGED <<head, reviews, excuses, orphans, faults>>

\* Mutant of Deduplicate: one lock for all heads of a pull request.
DeduplicateByPR(e) ==
  /\ Offered(e) /\ \E f \in Events : f.pr = e.pr /\ CommitOf(f) \in locked
  /\ events' = [events EXCEPT ![e] = "deduplicated"]
  /\ UNCHANGED <<head, locked, jobs, queue, reviews, excuses, orphans, faults>>

Deduplicate(e) ==
  /\ Offered(e) /\ CommitOf(e) \in locked
  /\ events' = [events EXCEPT ![e] = "deduplicated"]
  /\ UNCHANGED <<head, locked, jobs, queue, reviews, excuses, orphans, faults>>

\* Who could not admit it leaves it for later or gives it up: the API persists
\* a retry job or answers with an error, and the retry job has its backoff, in
\* RQ's scheduled registry, or goes to the dead-letter queue.
NextTime(e) ==
  LET later == IF events[e] = "sent" THEN "retrying" ELSE "postponed"
  IN  events' \in {[events EXCEPT ![e] = s] : s \in {later, "lost"}}

\* The job is enqueued and the reply lost; the lock is released, unless that
\* fails too.
AdmitUnseen(e) ==
  /\ Offered(e) /\ CommitOf(e) \notin locked
  /\ Fault
  /\ NewJob(e)
  /\ locked' \in {locked, locked \union {CommitOf(e)}}
  /\ excuses' = [excuses EXCEPT ![CommitOf(e)] = @ + 1]
  /\ NextTime(e)
  /\ UNCHANGED <<head, reviews, orphans>>

\* A command fails and no job is enqueued; the lock may be left behind.
NotAdmitted(e) ==
  /\ Offered(e) /\ Fault
  /\ \/ UNCHANGED <<locked, orphans>>
     \/ /\ CommitOf(e) \notin locked
        /\ locked' = locked \union {CommitOf(e)}
        /\ orphans' = orphans \union {CommitOf(e)}
  /\ NextTime(e)
  /\ UNCHANGED <<head, jobs, queue, reviews, excuses>>

\* An event that was handled comes again: GitHub delivers it once more, the
\* pull request is reopened, or an operator replays a dead letter.
Again(e) ==
  /\ events[e] \in {"admitted", "deduplicated", "lost"} /\ Fault
  /\ events' = [events EXCEPT ![e] = "sent"]
  /\ UNCHANGED <<head, locked, jobs, queue, reviews, excuses, orphans>>

Lapse(c) ==
  /\ c \in locked /\ Fault
  /\ locked' = locked \ {c}
  /\ excuses' = [excuses EXCEPT ![c] = @ + 1]
  /\ UNCHANGED <<head, events, jobs, queue, reviews, orphans>>

-----------------------------------------------------------------------------
(* Workers, and the attempts of a job.                                     *)

Running == {j \in JobIds : jobs[j].state = "running"}

Begin(j) ==
  jobs' = [jobs EXCEPT ![j].state = "running", ![j].attempts = @ + 1,
                       ![j].beside = @ \union Running]

\* Mutant of StartJob: a job is put at the front of the queue.
StartNewest ==
  /\ queue # <<>> /\ Cardinality(Running) < NumWorkers
  /\ Begin(Last(queue))
  /\ queue' = Front(queue)
  /\ UNCHANGED <<head, events, locked, reviews, excuses, orphans, faults>>

\* A worker that has no job takes the first of the queue.
StartJob ==
  /\ queue # <<>> /\ Cardinality(Running) < NumWorkers
  /\ Begin(Head(queue))
  /\ queue' = Tail(queue)
  /\ UNCHANGED <<head, events, locked, reviews, excuses, orphans, faults>>

\* Mutant of MayPost: a second post follows any failure of the first.
MayPostAgain(j) == j \in Running

\* The attempt that runs has created no review yet.
MayPost(j) == j \in Running /\ jobs[j].last # jobs[j].attempts

\* post_review names the pull request, which may have a newer head by now.
Post(j) ==
  /\ MayPost(j)
  /\ LET e == jobs[j].event IN
       reviews' = [reviews EXCEPT ![e.pr] =
                     Append(@, [of |-> e.n, job |-> j, attempt |-> jobs[j].attempts])]
  /\ jobs' = [jobs EXCEPT ![j].reviews = @ + 1, ![j].last = jobs[j].attempts]
  /\ UNCHANGED <<head, events, locked, queue, excuses, orphans, faults>>

EndsAs(j, state) ==
  /\ jobs' = [jobs EXCEPT ![j].state = state]
  /\ UNCHANGED <<head, events, locked, queue, reviews, excuses, orphans>>

Finish(j) ==
  /\ j \in Running /\ ~MayPost(j)
  /\ EndsAs(j, "done")
  /\ UNCHANGED faults

\* Mutant of Fail: a job that failed is never tried again.
FailForGood(j) ==
  /\ j \in Running /\ Fault
  /\ EndsAs(j, "failed")

Fail(j) ==
  /\ j \in Running /\ Fault
  /\ EndsAs(j, IF jobs[j].attempts < MaxAttempts THEN "scheduled" ELSE "failed")

\* The backoff of a job is over, and a scheduler of RQ is there to see it.
Requeue(j) ==
  /\ jobs[j].state = "scheduled"
  /\ jobs' = [jobs EXCEPT ![j].state = "waiting"]
  /\ queue' = Append(queue, j)
  /\ UNCHANGED <<head, events, locked, reviews, excuses, orphans, faults>>

-----------------------------------------------------------------------------
Handle(e) == Admit(e) \/ Deduplicate(e)

Work(j) == Post(j) \/ Finish(j)

Next ==
  \/ \E p \in PRs : Push(p)
  \/ \E e \in Events : Handle(e) \/ AdmitUnseen(e) \/ NotAdmitted(e) \/ Again(e)
  \/ \E c \in Commits : Lapse(c)
  \/ StartJob
  \/ \E j \in JobIds : Work(j) \/ Fail(j) \/ Requeue(j)

Spec == Init /\ [][Next]_vars

\* The lock lets no more jobs be created than this.
MaxJobs == Cardinality(Commits) + MaxFaults

\* An event that was sent or persisted is handled, and a worker takes the next
\* job and comes to the end of its attempt.  Nothing has to fail.  What waits
\* in the scheduled registry, a postponed event or a job that failed, need not
\* come back: worker.py:40 calls work() without with_scheduler.
Fairness ==
  /\ \A e \in Events : WF_vars(events[e] # "postponed" /\ Handle(e))
  /\ WF_vars(StartJob)
  /\ \A j \in 1..MaxJobs : WF_vars(j \in JobIds /\ Work(j))

FairSpec == Spec /\ Fairness

-----------------------------------------------------------------------------
EventStates ==
  {"unsent", "sent", "retrying", "postponed", "admitted", "deduplicated", "lost"}

JobStates == {"waiting", "running", "scheduled", "done", "failed"}

Jobs ==
  [event : Events, state : JobStates, attempts : 0..MaxAttempts,
   reviews : 0..MaxAttempts, last : 0..MaxAttempts, beside : SUBSET Nat]

Reviews == [of : Nat, job : JobIds, attempt : 1..MaxAttempts]

HeadType ==
  /\ head \in [PRs -> Nat] /\ \A p \in PRs : head[p] <= Len(Pushes[p])
  /\ events \in [Events -> EventStates]

LockType ==
  /\ locked \subseteq Commits /\ orphans \subseteq Commits
  /\ excuses \in [Commits -> Nat] /\ \A c \in Commits : excuses[c] <= faults
  /\ faults \in 0..MaxFaults

JobType ==
  /\ jobs \in Seq(Jobs)
  /\ \A j \in JobIds : jobs[j].last <= jobs[j].attempts /\ jobs[j].reviews <= jobs[j].attempts
  /\ queue \in Seq(JobIds)
  /\ Cardinality(Running) <= NumWorkers

ReviewType ==
  /\ reviews \in [PRs -> Seq(Reviews)]
  /\ \A p \in PRs : \A i \in DOMAIN reviews[p] :
       LET r == reviews[p][i]
       IN  r.of \in 1..head[p] /\ jobs[r.job].event = [pr |-> p, n |-> r.of]

\* Every variable has a value the code can give it: in particular no more jobs
\* run than there are workers, and a review is of a head that has been pushed,
\* by a job that was enqueued for it.
TypeOK == HeadType /\ LockType /\ JobType /\ ReviewType

JobsOf(c) == {j \in JobIds : CommitOf(jobs[j].event) = c}

ReviewsOf(c) ==
  UNION {{<<p, i>> : i \in {n \in DOMAIN reviews[p] : Pushes[p][reviews[p][n].of] = c}} : p \in PRs}

\* However often its event is delivered, tried again or replayed and its jobs
\* fail, a head commit gets no more reviews than its admissions pay for:
\* MaxAttempts for the first, and as many for each excuse.
ReviewBudget ==
  \A c \in Commits : Cardinality(ReviewsOf(c)) <= MaxAttempts * (1 + excuses[c])

\* The review of an older head follows that of a newer one only if the older
\* job was enqueued after the newer, had failed before, or was running when
\* the newer one started: one worker and no failure keep the order.
LateReviewIsExcused ==
  \A p \in PRs : \A i, k \in DOMAIN reviews[p] :
    LET newer == reviews[p][i].job
        older == reviews[p][k].job
    IN  i < k /\ reviews[p][i].of > reviews[p][k].of
          => older > newer \/ jobs[older].attempts > 1 \/ older \in jobs[newer].beside

Reviewed(e) == \E i \in DOMAIN reviews[e.pr] : reviews[e.pr][i].of = e.n

Gone(e) == events[e] = "lost" \/ \E j \in JobIds : jobs[j].event = e /\ jobs[j].state = "failed"

\* Its commit was locked by a process that enqueued nothing, or is the head
\* of another pull request too, since the lock does not tell them apart.
Mistaken(e) ==
  CommitOf(e) \in orphans \/ \E j \in JobsOf(CommitOf(e)) : jobs[j].event # e

\* An attempt failed, of its review job or of the job that retries its event,
\* and the next is left to a scheduler that worker.py:40 does not start.
Stranded(e) ==
  \/ events[e] = "postponed"
  \/ \E j \in JobIds : jobs[j].event = e /\ jobs[j].state = "scheduled"

\* A head that is pushed gets its review on its pull request, unless it was
\* given up or taken for another, or waits for good in the scheduled registry
\* after a failed attempt: a later push does not cancel it, and an event that
\* has only been persisted is not lost on the way.
HeadsAreReviewed ==
  \A e \in Events :
    events[e] = "sent" ~> Reviewed(e) \/ Gone(e) \/ Mistaken(e) \/ []Stranded(e)

Admission == INSTANCE ReviewAdmission WITH
  Keys <- Commits, reviews <- [c \in Commits |-> Cardinality(JobsOf(c))]

\* Commits are admitted to review as ReviewAdmission says, as WebhookRetry
\* does it step by step.
AdmitsAsPromised == Admission!Spec

Known(j) == j \in JobIds

Phase(j) == IF Known(j) /\ jobs[j].state # "scheduled" THEN jobs[j].state ELSE "waiting"

Promise(j) == INSTANCE JobPromise WITH
  state <- Phase(j),
  attempts <- IF Known(j) THEN jobs[j].attempts ELSE 0,
  reviews <- IF Known(j) THEN jobs[j].reviews ELSE 0,
  last <- IF Known(j) THEN jobs[j].last ELSE 0

\* Each job does what JobPromise says, as ReviewJob does it step by step.
JobsKeepPromise ==
  /\ \A j \in 1..MaxJobs : Promise(j)!Init
  /\ [][\A j \in 1..MaxJobs : Promise(j)!Next \/ UNCHANGED Promise(j)!vars]_vars
=============================================================================
