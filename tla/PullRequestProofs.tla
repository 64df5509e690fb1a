------------------------- MODULE PullRequestProofs --------------------------
(***************************************************************************)
(* What TLAPS proves of PullRequest, for any number of pull requests, heads *)
(* pushed to them, workers, attempts and faults.                           *)
(*                                                                         *)
(* The steps are grouped by what they do to jobs, queue and reviews; the   *)
(* invariants of later sections need only these groups.  The last section  *)
(* bounds the jobs and the work that is left for them.                     *)
(***************************************************************************)
EXTENDS PullRequest, SequenceTheorems, FiniteSetTheorems, TLAPS

\* An event that was sent is of a head that was pushed.
EventsPushed == \A e \in Events : events[e] # "unsent" => e.n <= head[e.pr]

\* The counts of a job fit its state.
JobOK(j) ==
  /\ jobs[j].last <= jobs[j].attempts /\ jobs[j].reviews <= jobs[j].attempts
  /\ jobs[j].event.n <= head[jobs[j].event.pr]
  /\ jobs[j].state \in {"waiting", "scheduled"} => jobs[j].attempts < MaxAttempts
  /\ jobs[j].state \in {"running", "scheduled"} => jobs[j].attempts > 0
  /\ jobs[j].last # jobs[j].attempts => jobs[j].reviews < jobs[j].attempts

JobCounts == \A j \in JobIds : JobOK(j)

\* The queue holds waiting jobs, each of them once.
QueueWaits ==
  /\ \A i \in DOMAIN queue : jobs[queue[i]].state = "waiting"
  /\ \A i, k \in DOMAIN queue : queue[i] = queue[k] => i = k

Shape == EventsPushed /\ JobCounts /\ QueueWaits

-----------------------------------------------------------------------------
(* What the steps do to the jobs.                                          *)

\* An event names a pull request and one of the heads pushed to it.
LEMMA EventFields ==
  ASSUME NEW e \in Events
  PROVE  /\ e.pr \in PRs /\ e.n \in 1..Len(Pushes[e.pr]) /\ e.n \in Nat
         /\ e = [pr |-> e.pr, n |-> e.n]
         /\ CommitOf(e) \in Commits
  <1>1. PICK p \in PRs : e \in {[pr |-> p, n |-> n] : n \in DOMAIN Pushes[p]}
    BY DEF Events
  <1>2. PICK n \in DOMAIN Pushes[p] : e = [pr |-> p, n |-> n]
    BY <1>1
  <1>3. Pushes[p] \in Seq(Commits)
    BY PushesAssumption
  <1>4. Len(Pushes[p]) \in Nat /\ DOMAIN Pushes[p] = 1..Len(Pushes[p])
    BY <1>3
  <1>5. Pushes[p][n] \in Commits
    BY <1>3, <1>4
  <1>6. e.pr = p /\ e.n = n
    BY <1>2
  <1>7. QED
    BY <1>2, <1>4, <1>5, <1>6 DEF CommitOf

\* The job that is created for an event.
JobFor(e) ==
  [event |-> e, state |-> "waiting", attempts |-> 0, reviews |-> 0, last |-> 0, beside |-> {}]

\* A new job comes after the others, which stay as they are.
LEMMA NewJobAppends ==
  ASSUME jobs \in Seq(Jobs), queue \in Seq(JobIds), NEW e \in Events, NewJob(e)
  PROVE  LET new == Len(jobs) + 1 IN
         /\ Len(jobs) \in Nat /\ Len(jobs') = new
         /\ jobs' \in Seq(Jobs)
         /\ JobIds' = JobIds \union {new}
         /\ \A j \in JobIds : jobs'[j] = jobs[j]
         /\ jobs'[new] = JobFor(e)
         /\ queue' \in Seq(JobIds')
         /\ Len(queue') = Len(queue) + 1 /\ Len(queue) \in Nat
         /\ \A i \in 1..Len(queue) : queue'[i] = queue[i]
         /\ queue'[Len(queue) + 1] = new
  <1> DEFINE new == Len(jobs) + 1
  <1>1. JobFor(e) \in Jobs
    BY AttemptsAssumption DEF JobFor, Jobs, JobStates
  <1>2. jobs' = Append(jobs, JobFor(e)) /\ queue' = Append(queue, new)
    BY DEF NewJob, JobFor
  <1>3. Len(jobs) \in Nat
    OBVIOUS
  <1>4. /\ jobs' \in Seq(Jobs) /\ Len(jobs') = new
        /\ \A j \in 1..Len(jobs) : jobs'[j] = jobs[j]
        /\ jobs'[new] = JobFor(e)
    BY <1>1, <1>2
  <1>5. JobIds' = JobIds \union {new}
    BY <1>3, <1>4 DEF JobIds
  <1>6. queue \in Seq(JobIds')
    BY <1>5, SeqMonotonic
  <1>7. /\ queue' \in Seq(JobIds') /\ Len(queue') = Len(queue) + 1 /\ Len(queue) \in Nat
        /\ \A i \in 1..Len(queue) : queue'[i] = queue[i]
        /\ queue'[Len(queue) + 1] = new
    BY <1>2, <1>5, <1>6
  <1>8. QED
    BY <1>3, <1>4, <1>5, <1>7 DEF JobIds

\* One job changes, the others stay as they are.
LEMMA OneJobChanges ==
  ASSUME jobs \in Seq(Jobs), NEW j \in JobIds, NEW job \in Jobs,
         jobs' = [jobs EXCEPT ![j] = job]
  PROVE  /\ jobs' \in Seq(Jobs) /\ Len(jobs') = Len(jobs) /\ JobIds' = JobIds
         /\ jobs'[j] = job
         /\ \A k \in JobIds : k # j => jobs'[k] = jobs[k]
  <1>1. /\ jobs' \in Seq(Jobs) /\ Len(jobs') = Len(jobs)
        /\ \A k \in 1..Len(jobs) : jobs'[k] = IF k = j THEN job ELSE jobs[k]
    BY ExceptSeq DEF JobIds
  <1>2. QED
    BY <1>1 DEF JobIds

LEMMA JobFields ==
  ASSUME jobs \in Seq(Jobs), NEW j \in JobIds
  PROVE  /\ jobs[j] \in Jobs /\ jobs[j].event \in Events /\ jobs[j].state \in JobStates
         /\ jobs[j].attempts \in 0..MaxAttempts /\ jobs[j].reviews \in 0..MaxAttempts
         /\ jobs[j].last \in 0..MaxAttempts /\ jobs[j].beside \in SUBSET Nat
         /\ DOMAIN jobs = JobIds /\ JobIds \subseteq Nat
  <1>1. jobs[j] \in Jobs /\ DOMAIN jobs = JobIds /\ JobIds \subseteq Nat
    BY DEF JobIds
  <1>2. QED
    BY <1>1 DEF Jobs

\* What a step makes of the job it changes.
LEMMA BeginChanges ==
  ASSUME jobs \in Seq(Jobs), NEW j \in JobIds, jobs[j].attempts < MaxAttempts, Begin(j)
  PROVE  /\ jobs' \in Seq(Jobs) /\ Len(jobs') = Len(jobs) /\ JobIds' = JobIds
         /\ jobs'[j] = [jobs[j] EXCEPT !.state = "running", !.attempts = @ + 1,
                                      !.beside = @ \union Running]
         /\ \A k \in JobIds : k # j => jobs'[k] = jobs[k]
  <1> DEFINE job == [jobs[j] EXCEPT !.state = "running", !.attempts = @ + 1,
                                    !.beside = @ \union Running]
  <1>1. jobs[j].attempts + 1 \in 0..MaxAttempts
    BY JobFields, AttemptsAssumption
  <1>2. jobs[j].beside \union Running \in SUBSET Nat
    BY JobFields DEF Running
  <1>3. job \in Jobs
    BY <1>1, <1>2, JobFields DEF Jobs, JobStates
  <1>4. jobs' = [jobs EXCEPT ![j] = job]
    BY JobFields DEF Begin
  <1> HIDE DEF job
  <1>5. QED
    BY <1>3, <1>4, OneJobChanges DEF job

LEMMA PostChanges ==
  ASSUME jobs \in Seq(Jobs), NEW j \in JobIds, Post(j),
         jobs[j].reviews < jobs[j].attempts
  PROVE  /\ jobs' \in Seq(Jobs) /\ Len(jobs') = Len(jobs) /\ JobIds' = JobIds
         /\ jobs'[j] = [jobs[j] EXCEPT !.reviews = @ + 1, !.last = jobs[j].attempts]
         /\ \A k \in JobIds : k # j => jobs'[k] = jobs[k]
  <1> DEFINE job == [jobs[j] EXCEPT !.reviews = @ + 1, !.last = jobs[j].attempts]
  <1>1. jobs[j].reviews + 1 \in 0..MaxAttempts
    BY JobFields, AttemptsAssumption
  <1>2. job \in Jobs
    BY <1>1, JobFields DEF Jobs
  <1>3. jobs' = [jobs EXCEPT ![j] = job]
    BY JobFields DEF Post
  <1> HIDE DEF job
  <1>4. QED
    BY <1>2, <1>3, OneJobChanges DEF job

LEMMA StateChanges ==
  ASSUME jobs \in Seq(Jobs), NEW j \in JobIds, NEW state \in JobStates,
         jobs' = [jobs EXCEPT ![j].state = state]
  PROVE  /\ jobs' \in Seq(Jobs) /\ Len(jobs') = Len(jobs) /\ JobIds' = JobIds
         /\ jobs'[j] = [jobs[j] EXCEPT !.state = state]
         /\ \A k \in JobIds : k # j => jobs'[k] = jobs[k]
  <1> DEFINE job == [jobs[j] EXCEPT !.state = state]
  <1>1. job \in Jobs
    BY JobFields DEF Jobs
  <1>2. jobs' = [jobs EXCEPT ![j] = job]
    BY JobFields
  <1> HIDE DEF job
  <1>3. QED
    BY <1>1, <1>2, OneJobChanges DEF job

-----------------------------------------------------------------------------
(* The groups of steps.                                                    *)

\* No job is created or changes, and no review is posted.
Still == UNCHANGED <<jobs, queue, reviews>>

Created ==
  \E e \in Events : events[e] # "unsent" /\ NewJob(e) /\ UNCHANGED reviews

\* An attempt ends, with its review posted or with a failure.
Ended ==
  \E j \in Running, state \in {"done", "failed", "scheduled"} :
    /\ jobs' = [jobs EXCEPT ![j].state = state]
    /\ state = "scheduled" => jobs[j].attempts < MaxAttempts
    /\ UNCHANGED <<queue, reviews>>

\* Every step is in one of the groups.
LEMMA Grouped ==
  ASSUME [Next]_vars
  PROVE  \/ Still \/ Created \/ StartJob \/ Ended
         \/ \E j \in JobIds : Post(j) \/ Requeue(j)
  <1>1. ASSUME NEW p \in PRs, Push(p) PROVE Still
    BY <1>1 DEF Push, Still
  <1>2. ASSUME NEW e \in Events, Admit(e) \/ AdmitUnseen(e) PROVE Created
    BY <1>2 DEF Admit, AdmitUnseen, Offered, Created
  <1>3. ASSUME NEW e \in Events, Deduplicate(e) \/ NotAdmitted(e) \/ Again(e) PROVE Still
    BY <1>3 DEF Deduplicate, NotAdmitted, Again, Still
  <1>4. ASSUME NEW c \in Commits, Lapse(c) PROVE Still
    BY <1>4 DEF Lapse, Still
  <1>5. ASSUME NEW j \in JobIds, Finish(j) PROVE Ended
    BY <1>5 DEF Finish, EndsAs, Ended
  <1>6. ASSUME NEW j \in JobIds, Fail(j) PROVE Ended
    <2> DEFINE state == IF jobs[j].attempts < MaxAttempts THEN "scheduled" ELSE "failed"
    <2>1. state \in {"done", "failed", "scheduled"} /\ (state = "scheduled" => jobs[j].attempts < MaxAttempts)
      OBVIOUS
    <2>2. j \in Running /\ jobs' = [jobs EXCEPT ![j].state = state] /\ UNCHANGED <<queue, reviews>>
      BY <1>6 DEF Fail, EndsAs
    <2> HIDE DEF state
    <2>3. QED
      BY <2>1, <2>2 DEF Ended
  <1>7. CASE UNCHANGED vars
    BY <1>7 DEF vars, Still
  <1>8. QED
    BY <1>1, <1>2, <1>3, <1>4, <1>5, <1>6, <1>7 DEF Next, Handle, Work

\* Heads only grow, and an event is sent only of a head that was pushed.
LEMMA HeadStep ==
  ASSUME HeadType, EventsPushed, [Next]_vars
  PROVE  HeadType' /\ EventsPushed' /\ \A p \in PRs : head[p] <= head'[p]
  <1> USE DEF HeadType, EventsPushed, EventStates
  <1>1. ASSUME NEW p \in PRs, Push(p)
        PROVE  HeadType' /\ EventsPushed' /\ \A q \in PRs : head[q] <= head'[q]
    <2> DEFINE pushed == [pr |-> p, n |-> head'[p]]
    <2>1. Pushes[p] \in Seq(Commits)
      BY PushesAssumption
    <2>2. /\ head' = [head EXCEPT ![p] = @ + 1] /\ head[p] < Len(Pushes[p])
          /\ events' = [events EXCEPT ![pushed] = "sent"]
      BY <1>1 DEF Push
    <2>3. /\ head' \in [PRs -> Nat] /\ head'[p] = head[p] + 1
          /\ \A q \in PRs : head'[q] <= Len(Pushes[q]) /\ head[q] <= head'[q]
      BY <2>1, <2>2
    <2>4. events' \in [Events -> EventStates]
      BY <2>2
    <2>5. ASSUME NEW e \in Events, events'[e] # "unsent" PROVE e.n <= head'[e.pr]
      <3>1. CASE e = pushed
        BY <2>3, <3>1
      <3>2. CASE e # pushed
        <4>1. events'[e] = events[e]
          BY <2>2, <3>2
        <4>2. e.n <= head[e.pr]
          BY <2>5, <4>1
        <4>3. QED
          BY <2>3, <4>2, EventFields
      <3>3. QED
        BY <3>1, <3>2
    <2>6. QED
      BY <2>3, <2>4, <2>5
  <1>2. ASSUME NEW e \in Events, events[e] # "unsent", UNCHANGED head,
               NEW state \in EventStates, events' = [events EXCEPT ![e] = state]
        PROVE  HeadType' /\ EventsPushed' /\ \A q \in PRs : head[q] <= head'[q]
    BY <1>2
  <1>3. ASSUME NEW e \in Events, Handle(e) \/ AdmitUnseen(e) \/ NotAdmitted(e) \/ Again(e)
        PROVE  /\ events[e] # "unsent" /\ UNCHANGED head
               /\ \E state \in EventStates : events' = [events EXCEPT ![e] = state]
    BY <1>3 DEF Handle, Admit, Deduplicate, AdmitUnseen, NotAdmitted, Again, Offered, NextTime
  <1>4. ASSUME UNCHANGED <<head, events>>
        PROVE  HeadType' /\ EventsPushed' /\ \A q \in PRs : head[q] <= head'[q]
    BY <1>4
  <1>5. ASSUME \/ \E c \in Commits : Lapse(c)
               \/ StartJob
               \/ \E j \in JobIds : Work(j) \/ Fail(j) \/ Requeue(j)
               \/ UNCHANGED vars
        PROVE  UNCHANGED <<head, events>>
    BY <1>5 DEF Lapse, StartJob, Work, Post, Finish, Fail, EndsAs, Requeue, vars
  <1>6. QED
    BY <1>1, <1>2, <1>3, <1>4, <1>5 DEF Next

LEMMA LockStep ==
  ASSUME LockType, [Next]_vars
  PROVE  LockType'
  <1> USE DEF LockType, Fault
  <1>1. ASSUME UNCHANGED <<locked, orphans, excuses, faults>> PROVE LockType'
    BY <1>1
  <1>2. ASSUME NEW e \in Events, Admit(e) PROVE LockType'
    BY <1>2, EventFields DEF Admit
  <1>3. ASSUME NEW e \in Events, AdmitUnseen(e) PROVE LockType'
    BY <1>3, EventFields, FaultsAssumption DEF AdmitUnseen
  <1>4. ASSUME NEW e \in Events, NotAdmitted(e) PROVE LockType'
    BY <1>4, EventFields, FaultsAssumption DEF NotAdmitted
  <1>5. ASSUME NEW e \in Events, Again(e) PROVE LockType'
    BY <1>5, FaultsAssumption DEF Again
  <1>6. ASSUME NEW c \in Commits, Lapse(c) PROVE LockType'
    BY <1>6, FaultsAssumption DEF Lapse
  <1>7. ASSUME NEW j \in JobIds, Fail(j) PROVE LockType'
    BY <1>7, FaultsAssumption DEF Fail, EndsAs
  <1>8. ASSUME \/ \E p \in PRs : Push(p)
               \/ \E e \in Events : Deduplicate(e)
               \/ StartJob
               \/ \E j \in JobIds : Work(j) \/ Requeue(j)
               \/ UNCHANGED vars
        PROVE  UNCHANGED <<locked, orphans, excuses, faults>>
    BY <1>8 DEF Push, Deduplicate, StartJob, Work, Post, Finish, EndsAs, Requeue, vars
  <1>9. QED
    BY <1>1, <1>2, <1>3, <1>4, <1>5, <1>6, <1>7, <1>8 DEF Next, Handle

LEMMA RunningIsFinite ==
  ASSUME jobs \in Seq(Jobs)
  PROVE  IsFiniteSet(Running) /\ Cardinality(Running) \in Nat
  <1>1. Len(jobs) \in Nat
    OBVIOUS
  <1>2. IsFiniteSet(JobIds)
    BY <1>1, FS_Interval DEF JobIds
  <1>3. QED
    BY <1>2, FS_Subset, FS_CardinalityType DEF Running

\* What is known of the jobs and the queue before a step, and after it.
JobInv == JobType /\ JobCounts /\ QueueWaits

HeadsGrow == \A p \in PRs : head[p] \in Nat /\ head'[p] \in Nat /\ head[p] <= head'[p]

\* A job that is left as it is keeps its counts, whatever heads are pushed.
LEMMA OthersKeepCounts ==
  ASSUME JobInv, HeadsGrow, NEW j \in JobIds, jobs'[j] = jobs[j]
  PROVE  JobOK(j)'
  <1>1. jobs[j].event.pr \in PRs /\ jobs[j].event.n \in Nat
    BY JobFields, EventFields DEF JobInv, JobType
  <1>2. QED
    BY <1>1 DEF JobInv, JobCounts, HeadsGrow, JobOK

LEMMA CreatedKeepsJobInv ==
  ASSUME JobInv, HeadsGrow, EventsPushed, Created
  PROVE  JobInv'
  <1>1. PICK e \in Events : events[e] # "unsent" /\ NewJob(e)
    BY DEF Created
  <1> DEFINE new == Len(jobs) + 1
  <1>2. jobs \in Seq(Jobs) /\ queue \in Seq(JobIds)
    BY DEF JobInv, JobType
  <1>3. /\ Len(jobs) \in Nat /\ jobs' \in Seq(Jobs) /\ JobIds' = JobIds \union {new}
        /\ \A j \in JobIds : jobs'[j] = jobs[j]
        /\ jobs'[new] = JobFor(e)
        /\ queue' \in Seq(JobIds') /\ Len(queue') = Len(queue) + 1 /\ Len(queue) \in Nat
        /\ \A i \in 1..Len(queue) : queue'[i] = queue[i]
        /\ queue'[Len(queue) + 1] = new
    BY <1>1, <1>2, NewJobAppends
  <1>4. new \notin JobIds
    BY <1>3 DEF JobIds
  <1>5. Running' = Running
    BY <1>3, <1>4 DEF Running, JobFor
  <1>6. e.n <= head'[e.pr]
    BY <1>1, EventFields DEF EventsPushed, HeadsGrow
  <1>7. ASSUME NEW j \in JobIds' PROVE JobOK(j)'
    <2>1. CASE j \in JobIds
      BY <1>3, <2>1, OthersKeepCounts
    <2>2. CASE j = new
      BY <1>3, <1>6, <2>2, AttemptsAssumption DEF JobFor, JobOK
    <2>3. QED
      BY <1>3, <2>1, <2>2
  <1>8. QueueWaits'
    <2>1. DOMAIN queue' = 1..Len(queue) + 1 /\ DOMAIN queue = 1..Len(queue)
      BY <1>2, <1>3
    <2>2. \A i \in 1..Len(queue) : queue[i] \in JobIds
      BY <1>2
    <2>3. \A i \in 1..Len(queue) + 1 : jobs'[queue'[i]].state = "waiting"
      <3> SUFFICES ASSUME NEW i \in 1..Len(queue) + 1 PROVE jobs'[queue'[i]].state = "waiting"
        OBVIOUS
      <3>1. CASE i \in 1..Len(queue)
        <4>1. jobs'[queue'[i]] = jobs[queue[i]]
          BY <1>3, <2>2, <3>1
        <4>2. QED
          BY <2>1, <3>1, <4>1 DEF JobInv, QueueWaits
      <3>2. CASE i = Len(queue) + 1
        BY <1>3, <3>2 DEF JobFor
      <3>3. QED
        BY <1>3, <3>1, <3>2
    <2>4. \A i, k \in 1..Len(queue) + 1 : queue'[i] = queue'[k] => i = k
      <3>1. \A i, k \in 1..Len(queue) : queue[i] = queue[k] => i = k
        BY <2>1 DEF JobInv, QueueWaits
      <3>2. \A i \in 1..Len(queue) : queue'[i] = queue[i] /\ queue'[i] # new
        BY <1>3, <1>4, <2>2
      <3> HIDE DEF new
      <3>3. QED
        BY <1>3, <3>1, <3>2
    <2>5. QED
      BY <2>1, <2>3, <2>4 DEF QueueWaits
  <1>9. JobType'
    <2>1. \A j \in JobIds' : jobs'[j].last <= jobs'[j].attempts /\ jobs'[j].reviews <= jobs'[j].attempts
      BY <1>7 DEF JobOK
    <2>2. Cardinality(Running') <= NumWorkers
      BY <1>5 DEF JobInv, JobType
    <2>3. QED
      BY <1>3, <2>1, <2>2 DEF JobType
  <1>10. QED
    BY <1>7, <1>8, <1>9 DEF JobInv, JobCounts

\* Only the job at the head of the queue changes when a worker takes it.
LEMMA StartTakesHead ==
  ASSUME JobInv, StartJob
  PROVE  LET j == Head(queue) IN
         /\ j \in JobIds /\ jobs[j].state = "waiting" /\ Begin(j)
         /\ jobs' \in Seq(Jobs) /\ Len(jobs') = Len(jobs) /\ JobIds' = JobIds
         /\ jobs'[j] = [jobs[j] EXCEPT !.state = "running", !.attempts = @ + 1,
                                      !.beside = @ \union Running]
         /\ \A k \in JobIds : k # j => jobs'[k] = jobs[k]
         /\ queue # <<>> /\ queue[1] = j /\ queue' \in Seq(JobIds)
         /\ Len(queue) \in Nat /\ Len(queue') = Len(queue) - 1
         /\ \A i \in 1..Len(queue') : queue'[i] = queue[i + 1]
         /\ Cardinality(Running) < NumWorkers
  <1> DEFINE j == Head(queue)
  <1>1. jobs \in Seq(Jobs) /\ queue \in Seq(JobIds)
    BY DEF JobInv, JobType
  <1>2. queue # <<>> /\ queue' = Tail(queue) /\ Begin(j) /\ Cardinality(Running) < NumWorkers
    BY DEF StartJob
  <1>3. j \in JobIds /\ queue[1] = j /\ Len(queue) \in Nat /\ 1 \in DOMAIN queue
    BY <1>1, <1>2
  <1>4. jobs[j].state = "waiting" /\ jobs[j].attempts < MaxAttempts
    BY <1>3 DEF JobInv, QueueWaits, JobCounts, JobOK
  <1>5. /\ jobs' \in Seq(Jobs) /\ Len(jobs') = Len(jobs) /\ JobIds' = JobIds
        /\ jobs'[j] = [jobs[j] EXCEPT !.state = "running", !.attempts = @ + 1,
                                     !.beside = @ \union Running]
        /\ \A k \in JobIds : k # j => jobs'[k] = jobs[k]
    BY <1>1, <1>2, <1>3, <1>4, BeginChanges
  <1>6. /\ queue' \in Seq(JobIds) /\ Len(queue') = Len(queue) - 1
        /\ \A i \in 1..Len(queue') : queue'[i] = queue[i + 1]
    BY <1>1, <1>2, HeadTailProperties
  <1>7. QED
    BY <1>2, <1>3, <1>4, <1>5, <1>6

LEMMA StartKeepsJobInv ==
  ASSUME JobInv, HeadsGrow, StartJob
  PROVE  JobInv'
  <1> DEFINE j == Head(queue)
  <1>1. /\ j \in JobIds /\ jobs[j].state = "waiting"
        /\ jobs' \in Seq(Jobs) /\ JobIds' = JobIds
        /\ jobs'[j] = [jobs[j] EXCEPT !.state = "running", !.attempts = @ + 1,
                                     !.beside = @ \union Running]
        /\ \A k \in JobIds : k # j => jobs'[k] = jobs[k]
    BY StartTakesHead
  <1>2. /\ queue # <<>> /\ queue[1] = j /\ queue' \in Seq(JobIds)
        /\ Len(queue) \in Nat /\ Len(queue') = Len(queue) - 1
        /\ \A i \in 1..Len(queue') : queue'[i] = queue[i + 1]
        /\ Cardinality(Running) < NumWorkers
    BY StartTakesHead
  <1>3. jobs \in Seq(Jobs) /\ queue \in Seq(JobIds)
    BY DEF JobInv, JobType
  <1> HIDE DEF j
  <1>4. Cardinality(Running') <= NumWorkers
    <2>1. jobs'[j].state = "running" /\ j \notin Running
      BY <1>1, <1>3, JobFields DEF Jobs, Running
    <2>2. Running' = Running \union {j}
      BY <1>1, <2>1 DEF Running
    <2>3. IsFiniteSet(Running) /\ Cardinality(Running) \in Nat
      BY <1>3, RunningIsFinite
    <2>4. Cardinality(Running \union {j}) = Cardinality(Running) + 1
      BY <2>1, <2>3, FS_AddElement
    <2>5. QED
      BY <1>2, <2>2, <2>3, <2>4, WorkersAssumption
  <1>5. ASSUME NEW k \in JobIds PROVE JobOK(k)'
    <2>1. CASE k # j
      BY <1>1, <2>1, OthersKeepCounts
    <2>2. CASE k = j
      <3>1. /\ jobs[j].attempts \in Nat /\ jobs[j].reviews \in Nat /\ jobs[j].last \in Nat
            /\ jobs[j].event.pr \in PRs /\ jobs[j].event.n \in Nat
        BY <1>1, <1>3, JobFields, EventFields
      <3>2. /\ jobs'[j].event = jobs[j].event /\ jobs'[j].state = "running"
            /\ jobs'[j].attempts = jobs[j].attempts + 1
            /\ jobs'[j].reviews = jobs[j].reviews /\ jobs'[j].last = jobs[j].last
        BY <1>1, <1>3, JobFields DEF Jobs
      <3>3. JobOK(j)
        BY <1>1 DEF JobInv, JobCounts
      <3>4. QED
        BY <2>2, <3>1, <3>2, <3>3 DEF JobOK, HeadsGrow
    <2>3. QED
      BY <2>1, <2>2
  <1>6. QueueWaits'
    <2>1. DOMAIN queue' = 1..Len(queue) - 1 /\ DOMAIN queue = 1..Len(queue)
      BY <1>2, <1>3
    <2>2. ASSUME NEW i \in 1..Len(queue) - 1
          PROVE  i + 1 \in DOMAIN queue /\ queue'[i] = queue[i + 1] /\ queue'[i] \in JobIds
                   /\ queue'[i] # j
      <3>1. 1 \in DOMAIN queue /\ i + 1 \in DOMAIN queue /\ i + 1 # 1
        BY <1>2, <2>1
      <3>2. queue'[i] = queue[i + 1] /\ queue[i + 1] \in JobIds
        BY <1>2, <1>3, <3>1
      <3>3. queue[i + 1] # queue[1]
        BY <3>1 DEF JobInv, QueueWaits
      <3>4. QED
        BY <1>2, <3>1, <3>2, <3>3
    <2>3. \A i \in DOMAIN queue' : jobs'[queue'[i]].state = "waiting"
      BY <1>1, <2>1, <2>2 DEF JobInv, QueueWaits
    <2>4. ASSUME NEW i \in 1..Len(queue) - 1, NEW k \in 1..Len(queue) - 1, queue'[i] = queue'[k]
          PROVE  i = k
      <3>1. i + 1 = k + 1
        BY <2>2, <2>4 DEF JobInv, QueueWaits
      <3>2. QED
        BY <3>1
    <2>5. QED
      BY <2>1, <2>3, <2>4 DEF QueueWaits
  <1>7. QED
    BY <1>1, <1>2, <1>4, <1>5, <1>6 DEF JobInv, JobType, JobCounts, JobOK

\* An attempt that ends leaves the workers one job less.
LEMMA EndedChanges ==
  ASSUME JobInv, NEW j \in Running, NEW state \in {"done", "failed", "scheduled"},
         jobs' = [jobs EXCEPT ![j].state = state]
  PROVE  /\ j \in JobIds /\ jobs[j].state = "running"
         /\ jobs' \in Seq(Jobs) /\ Len(jobs') = Len(jobs) /\ JobIds' = JobIds
         /\ jobs'[j] = [jobs[j] EXCEPT !.state = state]
         /\ \A k \in JobIds : k # j => jobs'[k] = jobs[k]
         /\ jobs'[j].state = state /\ Running' = Running \ {j}
  <1>1. j \in JobIds /\ jobs[j].state = "running" /\ jobs \in Seq(Jobs)
    BY DEF Running, JobInv, JobType
  <1>2. /\ jobs' \in Seq(Jobs) /\ Len(jobs') = Len(jobs) /\ JobIds' = JobIds
        /\ jobs'[j] = [jobs[j] EXCEPT !.state = state]
        /\ \A k \in JobIds : k # j => jobs'[k] = jobs[k]
    BY <1>1, StateChanges DEF JobStates
  <1>3. jobs'[j].state = state
    BY <1>1, <1>2, JobFields DEF Jobs
  <1>4. Running' = Running \ {j}
    BY <1>2, <1>3 DEF Running
  <1>5. QED
    BY <1>1, <1>2, <1>3, <1>4

LEMMA EndedKeepsJobInv ==
  ASSUME JobInv, HeadsGrow, Ended
  PROVE  JobInv'
  <1>1. PICK j \in Running, state \in {"done", "failed", "scheduled"} :
          /\ jobs' = [jobs EXCEPT ![j].state = state]
          /\ state = "scheduled" => jobs[j].attempts < MaxAttempts
          /\ UNCHANGED <<queue, reviews>>
    BY DEF Ended
  <1>2. /\ j \in JobIds /\ jobs[j].state = "running"
        /\ jobs' \in Seq(Jobs) /\ JobIds' = JobIds
        /\ jobs'[j] = [jobs[j] EXCEPT !.state = state]
        /\ \A k \in JobIds : k # j => jobs'[k] = jobs[k]
        /\ jobs'[j].state = state /\ Running' = Running \ {j}
    BY <1>1, EndedChanges
  <1>3. jobs \in Seq(Jobs) /\ queue \in Seq(JobIds) /\ Cardinality(Running) <= NumWorkers
    BY DEF JobInv, JobType
  <1>4. Cardinality(Running') <= NumWorkers
    <2>1. /\ IsFiniteSet(Running) /\ Cardinality(Running) \in Nat
          /\ Cardinality(Running') \in Nat /\ Cardinality(Running') <= Cardinality(Running)
      BY <1>2, <1>3, RunningIsFinite, FS_Subset, FS_CardinalityType
    <2>2. QED
      BY <1>3, <2>1, WorkersAssumption
  <1>5. ASSUME NEW k \in JobIds PROVE JobOK(k)'
    <2>1. CASE k # j
      BY <1>2, <2>1, OthersKeepCounts
    <2>2. CASE k = j
      <3>1. /\ jobs[j].event.pr \in PRs /\ jobs[j].event.n \in Nat
        BY <1>2, <1>3, JobFields, EventFields
      <3>2. /\ jobs'[j].event = jobs[j].event /\ jobs'[j].state = state
            /\ jobs'[j].attempts = jobs[j].attempts
            /\ jobs'[j].reviews = jobs[j].reviews /\ jobs'[j].last = jobs[j].last
        BY <1>2, <1>3, JobFields DEF Jobs
      <3>3. JobOK(j)
        BY <1>2 DEF JobInv, JobCounts
      <3>4. jobs[j].attempts > 0
        BY <1>2, <3>3 DEF JobOK
      <3>5. jobs[j].event.n <= head'[jobs[j].event.pr]
        BY <3>1, <3>3 DEF JobOK, HeadsGrow
      <3>6. /\ jobs[j].last <= jobs[j].attempts /\ jobs[j].reviews <= jobs[j].attempts
            /\ jobs[j].last # jobs[j].attempts => jobs[j].reviews < jobs[j].attempts
        BY <3>3 DEF JobOK
      <3>7. QED
        BY <1>1, <2>2, <3>2, <3>4, <3>5, <3>6 DEF JobOK
    <2>3. QED
      BY <2>1, <2>2
  <1>6. QueueWaits'
    <2>1. \A i \in DOMAIN queue : queue[i] \in JobIds /\ queue[i] # j
      BY <1>2, <1>3 DEF JobInv, QueueWaits
    <2>2. QED
      BY <1>1, <1>2, <2>1 DEF JobInv, QueueWaits
  <1>7. QED
    BY <1>1, <1>2, <1>3, <1>4, <1>5, <1>6 DEF JobInv, JobType, JobCounts, JobOK

\* A review is counted with the job, and by the attempt that posts it.
LEMMA PostedChanges ==
  ASSUME JobInv, NEW j \in JobIds, Post(j)
  PROVE  /\ jobs[j].state = "running" /\ jobs[j].attempts \in 1..MaxAttempts
         /\ jobs[j].last < jobs[j].attempts /\ jobs[j].last \in Nat
         /\ jobs[j].event.pr \in PRs /\ jobs[j].event.n \in Nat
         /\ jobs' \in Seq(Jobs) /\ Len(jobs') = Len(jobs) /\ JobIds' = JobIds
         /\ \A k \in JobIds : k # j => jobs'[k] = jobs[k]
         /\ jobs'[j].event = jobs[j].event /\ jobs'[j].state = "running"
         /\ jobs'[j].attempts = jobs[j].attempts /\ jobs'[j].last = jobs[j].attempts
         /\ jobs'[j].reviews = jobs[j].reviews + 1 /\ jobs[j].reviews \in Nat
         /\ jobs[j].reviews < jobs[j].attempts /\ jobs'[j].beside = jobs[j].beside
  <1>1. jobs \in Seq(Jobs) /\ JobOK(j)
    BY DEF JobInv, JobType, JobCounts
  <1>2. jobs[j].state = "running" /\ jobs[j].last # jobs[j].attempts
    BY DEF Post, MayPost, Running
  <1>3. /\ jobs[j].attempts \in 0..MaxAttempts /\ jobs[j].reviews \in 0..MaxAttempts
        /\ jobs[j].last \in 0..MaxAttempts
        /\ jobs[j].event.pr \in PRs /\ jobs[j].event.n \in Nat
    BY <1>1, JobFields, EventFields
  <1>4. /\ jobs[j].attempts \in 1..MaxAttempts /\ jobs[j].last < jobs[j].attempts
        /\ jobs[j].reviews < jobs[j].attempts
        /\ jobs[j].last \in Nat /\ jobs[j].reviews \in Nat
    BY <1>1, <1>2, <1>3, AttemptsAssumption DEF JobOK
  <1>5. /\ jobs' \in Seq(Jobs) /\ Len(jobs') = Len(jobs) /\ JobIds' = JobIds
        /\ jobs'[j] = [jobs[j] EXCEPT !.reviews = @ + 1, !.last = jobs[j].attempts]
        /\ \A k \in JobIds : k # j => jobs'[k] = jobs[k]
    BY <1>1, <1>4, PostChanges
  <1>6. /\ jobs'[j].event = jobs[j].event /\ jobs'[j].state = jobs[j].state
        /\ jobs'[j].attempts = jobs[j].attempts /\ jobs'[j].last = jobs[j].attempts
        /\ jobs'[j].reviews = jobs[j].reviews + 1 /\ jobs'[j].beside = jobs[j].beside
    BY <1>1, <1>5, JobFields DEF Jobs
  <1>7. QED
    BY <1>2, <1>3, <1>4, <1>5, <1>6

LEMMA PostKeepsJobInv ==
  ASSUME JobInv, HeadsGrow, NEW j \in JobIds, Post(j)
  PROVE  JobInv'
  <1>1. /\ jobs[j].state = "running" /\ jobs[j].attempts \in 1..MaxAttempts
        /\ jobs[j].event.pr \in PRs /\ jobs[j].event.n \in Nat
        /\ jobs' \in Seq(Jobs) /\ JobIds' = JobIds
        /\ \A k \in JobIds : k # j => jobs'[k] = jobs[k]
        /\ jobs'[j].event = jobs[j].event /\ jobs'[j].state = "running"
        /\ jobs'[j].attempts = jobs[j].attempts /\ jobs'[j].last = jobs[j].attempts
        /\ jobs'[j].reviews = jobs[j].reviews + 1 /\ jobs[j].reviews \in Nat
        /\ jobs[j].reviews < jobs[j].attempts
    BY PostedChanges
  <1>2. jobs \in Seq(Jobs) /\ queue \in Seq(JobIds) /\ Cardinality(Running) <= NumWorkers
    BY DEF JobInv, JobType
  <1>3. Running' = Running
    BY <1>1 DEF Running
  <1>4. queue' = queue
    BY DEF Post
  <1>5. ASSUME NEW k \in JobIds PROVE JobOK(k)'
    <2>1. CASE k # j
      BY <1>1, <2>1, OthersKeepCounts
    <2>2. CASE k = j
      <3>1. JobOK(j)
        BY DEF JobInv, JobCounts
      <3>2. jobs'[j].event.n <= head'[jobs'[j].event.pr]
        BY <1>1, <3>1 DEF JobOK, HeadsGrow
      <3>3. jobs'[j].attempts > 0 /\ jobs'[j].reviews <= jobs'[j].attempts
        BY <1>1, AttemptsAssumption
      <3>4. QED
        BY <1>1, <2>2, <3>2, <3>3, AttemptsAssumption DEF JobOK
    <2>3. QED
      BY <2>1, <2>2
  <1>6. QueueWaits'
    <2>1. \A i \in DOMAIN queue : queue[i] \in JobIds /\ queue[i] # j
      BY <1>1, <1>2 DEF JobInv, QueueWaits
    <2>2. QED
      BY <1>1, <1>4, <2>1 DEF JobInv, QueueWaits
  <1>7. QED
    BY <1>1, <1>2, <1>3, <1>4, <1>5, <1>6 DEF JobInv, JobType, JobCounts, JobOK

\* A job whose backoff is over goes to the end of the queue.
LEMMA RequeueAppends ==
  ASSUME JobInv, NEW j \in JobIds, Requeue(j)
  PROVE  /\ jobs[j].state = "scheduled"
         /\ jobs' \in Seq(Jobs) /\ Len(jobs') = Len(jobs) /\ JobIds' = JobIds
         /\ \A k \in JobIds : k # j => jobs'[k] = jobs[k]
         /\ jobs'[j].event = jobs[j].event /\ jobs'[j].state = "waiting"
         /\ jobs'[j].attempts = jobs[j].attempts /\ jobs'[j].last = jobs[j].last
         /\ jobs'[j].reviews = jobs[j].reviews /\ jobs'[j].beside = jobs[j].beside
         /\ queue' \in Seq(JobIds) /\ Len(queue) \in Nat /\ Len(queue') = Len(queue) + 1
         /\ \A i \in 1..Len(queue) : queue'[i] = queue[i] /\ queue[i] \in JobIds /\ queue[i] # j
         /\ queue'[Len(queue) + 1] = j
  <1>1. jobs \in Seq(Jobs) /\ queue \in Seq(JobIds)
    BY DEF JobInv, JobType
  <1>2. /\ jobs[j].state = "scheduled" /\ jobs' = [jobs EXCEPT ![j].state = "waiting"]
        /\ queue' = Append(queue, j)
    BY DEF Requeue
  <1>3. /\ jobs' \in Seq(Jobs) /\ Len(jobs') = Len(jobs) /\ JobIds' = JobIds
        /\ jobs'[j] = [jobs[j] EXCEPT !.state = "waiting"]
        /\ \A k \in JobIds : k # j => jobs'[k] = jobs[k]
    BY <1>1, <1>2, StateChanges DEF JobStates
  <1>4. /\ jobs'[j].event = jobs[j].event /\ jobs'[j].state = "waiting"
        /\ jobs'[j].attempts = jobs[j].attempts /\ jobs'[j].last = jobs[j].last
        /\ jobs'[j].reviews = jobs[j].reviews /\ jobs'[j].beside = jobs[j].beside
    BY <1>1, <1>3, JobFields DEF Jobs
  <1>5. /\ queue' \in Seq(JobIds) /\ Len(queue) \in Nat /\ Len(queue') = Len(queue) + 1
        /\ \A i \in 1..Len(queue) : queue'[i] = queue[i] /\ queue[i] \in JobIds
        /\ queue'[Len(queue) + 1] = j
    BY <1>1, <1>2
  <1>6. \A i \in 1..Len(queue) : queue[i] # j
    BY <1>1, <1>2 DEF JobInv, QueueWaits
  <1>7. QED
    BY <1>2, <1>3, <1>4, <1>5, <1>6

LEMMA RequeueKeepsJobInv ==
  ASSUME JobInv, HeadsGrow, NEW j \in JobIds, Requeue(j)
  PROVE  JobInv'
  <1>1. /\ jobs[j].state = "scheduled"
        /\ jobs' \in Seq(Jobs) /\ JobIds' = JobIds
        /\ \A k \in JobIds : k # j => jobs'[k] = jobs[k]
        /\ jobs'[j].event = jobs[j].event /\ jobs'[j].state = "waiting"
        /\ jobs'[j].attempts = jobs[j].attempts /\ jobs'[j].last = jobs[j].last
        /\ jobs'[j].reviews = jobs[j].reviews
    BY RequeueAppends
  <1>2. /\ queue' \in Seq(JobIds) /\ Len(queue) \in Nat /\ Len(queue') = Len(queue) + 1
        /\ \A i \in 1..Len(queue) : queue'[i] = queue[i] /\ queue[i] \in JobIds /\ queue[i] # j
        /\ queue'[Len(queue) + 1] = j
    BY RequeueAppends
  <1>3. jobs \in Seq(Jobs) /\ queue \in Seq(JobIds) /\ Cardinality(Running) <= NumWorkers
    BY DEF JobInv, JobType
  <1>4. Running' = Running
    BY <1>1 DEF Running
  <1>5. ASSUME NEW k \in JobIds PROVE JobOK(k)'
    <2>1. CASE k # j
      BY <1>1, <2>1, OthersKeepCounts
    <2>2. CASE k = j
      <3>1. /\ jobs[j].event.pr \in PRs /\ jobs[j].event.n \in Nat
        BY <1>3, JobFields, EventFields
      <3>2. JobOK(j)
        BY DEF JobInv, JobCounts
      <3>3. QED
        BY <1>1, <2>2, <3>1, <3>2 DEF JobOK, HeadsGrow
    <2>3. QED
      BY <2>1, <2>2
  <1>6. QueueWaits'
    <2>1. DOMAIN queue' = 1..Len(queue) + 1 /\ DOMAIN queue = 1..Len(queue)
      BY <1>2, <1>3
    <2>2. \A i \in 1..Len(queue) : jobs'[queue'[i]].state = "waiting"
      BY <1>1, <1>2, <2>1 DEF JobInv, QueueWaits
    <2>3. \A i \in 1..Len(queue) + 1 : jobs'[queue'[i]].state = "waiting"
      BY <1>1, <1>2, <2>2
    <2>4. \A i, k \in 1..Len(queue) + 1 : queue'[i] = queue'[k] => i = k
      BY <1>2, <2>1 DEF JobInv, QueueWaits
    <2>5. QED
      BY <2>1, <2>3, <2>4 DEF QueueWaits
  <1>7. QED
    BY <1>1, <1>2, <1>3, <1>4, <1>5, <1>6 DEF JobInv, JobType, JobCounts, JobOK

\* A step keeps what is known of the jobs and the queue.
LEMMA JobStep ==
  ASSUME JobInv, HeadsGrow, EventsPushed, [Next]_vars
  PROVE  JobInv'
  <1>1. CASE Still
    <2>1. \A j \in JobIds : JobOK(j)'
      BY <1>1, OthersKeepCounts DEF Still
    <2>2. QED
      BY <1>1, <2>1 DEF Still, JobInv, JobType, JobCounts, JobOK, QueueWaits, JobIds, Running
  <1>2. QED
    BY <1>1, Grouped, CreatedKeepsJobInv, StartKeepsJobInv, EndedKeepsJobInv, PostKeepsJobInv,
       RequeueKeepsJobInv

\* A job stays that of its event, and its attempts only become more.
LEMMA JobsStay ==
  ASSUME JobInv, [Next]_vars, NEW j \in JobIds
  PROVE  /\ j \in JobIds' /\ jobs'[j].event = jobs[j].event
         /\ jobs[j].last \in Nat /\ jobs'[j].last \in Nat /\ jobs[j].last <= jobs'[j].last
  <1>1. jobs \in Seq(Jobs) /\ queue \in Seq(JobIds)
    BY DEF JobInv, JobType
  <1>2. jobs[j].last \in Nat /\ jobs[j].attempts \in Nat
    BY <1>1, JobFields
  <1>3. CASE Still
    BY <1>2, <1>3 DEF Still, JobIds
  <1>4. CASE Created
    <2>1. PICK e \in Events : NewJob(e)
      BY <1>4 DEF Created
    <2>2. jobs'[j] = jobs[j] /\ j \in JobIds'
      BY <1>1, <2>1, NewJobAppends
    <2>3. QED
      BY <1>2, <2>2
  <1>5. CASE StartJob
    <2>1. JobIds' = JobIds /\ (j # Head(queue) => jobs'[j] = jobs[j])
      BY <1>5, StartTakesHead
    <2>2. CASE j = Head(queue)
      <3>1. jobs'[j] = [jobs[j] EXCEPT !.state = "running", !.attempts = @ + 1,
                                       !.beside = @ \union Running]
        BY <1>5, <2>2, StartTakesHead
      <3>2. jobs'[j].event = jobs[j].event /\ jobs'[j].last = jobs[j].last
        BY <1>1, <3>1, JobFields DEF Jobs
      <3>3. QED
        BY <1>2, <2>1, <3>2
    <2>3. QED
      BY <1>2, <2>1, <2>2
  <1>6. CASE Ended
    <2>1. PICK i \in Running, state \in {"done", "failed", "scheduled"} :
            jobs' = [jobs EXCEPT ![i].state = state]
      BY <1>6 DEF Ended
    <2>2. /\ JobIds' = JobIds /\ (j # i => jobs'[j] = jobs[j])
          /\ jobs'[i] = [jobs[i] EXCEPT !.state = state]
      BY <2>1, EndedChanges
    <2>3. jobs'[j].event = jobs[j].event /\ jobs'[j].last = jobs[j].last
      BY <1>1, <2>2, JobFields DEF Jobs
    <2>4. QED
      BY <1>2, <2>2, <2>3
  <1>7. ASSUME NEW i \in JobIds, Post(i)
        PROVE  j \in JobIds' /\ jobs'[j].event = jobs[j].event
                 /\ jobs'[j].last \in Nat /\ jobs[j].last <= jobs'[j].last
    <2>1. /\ JobIds' = JobIds /\ (j # i => jobs'[j] = jobs[j])
          /\ jobs'[i].event = jobs[i].event /\ jobs'[i].last = jobs[i].attempts
          /\ jobs[i].last < jobs[i].attempts
      BY <1>7, PostedChanges
    <2>2. QED
      BY <1>2, <2>1
  <1>8. ASSUME NEW i \in JobIds, Requeue(i)
        PROVE  j \in JobIds' /\ jobs'[j].event = jobs[j].event /\ jobs'[j].last = jobs[j].last
    <2>1. /\ JobIds' = JobIds /\ (j # i => jobs'[j] = jobs[j])
          /\ jobs'[i].event = jobs[i].event /\ jobs'[i].last = jobs[i].last
      BY <1>8, RequeueAppends
    <2>2. QED
      BY <2>1
  <1>9. QED
    BY <1>2, <1>3, <1>4, <1>5, <1>6, <1>7, <1>8, Grouped

-----------------------------------------------------------------------------
(* Reviews: each is of a head that was pushed, by a job of its event, and  *)
(* by an attempt of that job which posted no other.                        *)

PostedBy(p) ==
  /\ \A i \in DOMAIN reviews[p] : reviews[p][i].attempt \in 1..jobs[reviews[p][i].job].last
  /\ \A i, k \in DOMAIN reviews[p] :
       reviews[p][i].job = reviews[p][k].job /\ reviews[p][i].attempt = reviews[p][k].attempt
         => i = k

Posted == \A p \in PRs : PostedBy(p)

ReviewInv == ReviewType /\ Posted

LEMMA ReviewFields ==
  ASSUME JobInv, ReviewInv, NEW p \in PRs
  PROVE  /\ reviews[p] \in Seq(Reviews) /\ Len(reviews[p]) \in Nat
         /\ DOMAIN reviews[p] = 1..Len(reviews[p])
         /\ \A i \in DOMAIN reviews[p] :
              LET r == reviews[p][i] IN
              /\ r \in Reviews /\ r.job \in JobIds /\ r.of \in 1..head[p] /\ r.of \in Nat
              /\ r.attempt \in 1..jobs[r.job].last
              /\ jobs[r.job].event = [pr |-> p, n |-> r.of]
  <1>1. reviews[p] \in Seq(Reviews)
    BY DEF ReviewInv, ReviewType
  <1>2. Len(reviews[p]) \in Nat /\ DOMAIN reviews[p] = 1..Len(reviews[p])
    BY <1>1
  <1>3. \A i \in DOMAIN reviews[p] :
          /\ reviews[p][i] \in Reviews
          /\ reviews[p][i].job \in JobIds /\ reviews[p][i].of \in Nat
    <2>1. \A i \in DOMAIN reviews[p] : reviews[p][i] \in Reviews
      BY <1>1, <1>2
    <2>2. \A r \in Reviews : r.job \in JobIds /\ r.of \in Nat
      BY DEF Reviews
    <2>3. QED
      BY <2>1, <2>2
  <1>4. QED
    BY <1>1, <1>2, <1>3 DEF ReviewInv, ReviewType, Posted, PostedBy

\* What was said of the reviews of a pull request that gets no new one.
LEMMA OldReviewsStay ==
  ASSUME JobInv, HeadsGrow, ReviewInv, [Next]_vars, NEW p \in PRs, reviews'[p] = reviews[p]
  PROVE  /\ reviews'[p] \in Seq(Reviews')
         /\ \A i \in DOMAIN reviews'[p] :
              LET r == reviews'[p][i]
              IN  r.of \in 1..head'[p] /\ jobs'[r.job].event = [pr |-> p, n |-> r.of]
         /\ PostedBy(p)'
  <1>1. Reviews \subseteq Reviews'
    BY JobsStay DEF Reviews
  <1>2. reviews[p] \in Seq(Reviews')
    BY <1>1, ReviewFields, SeqMonotonic
  <1>3. \A i \in DOMAIN reviews[p] :
          LET r == reviews[p][i] IN
          /\ r.of \in 1..head'[p] /\ jobs'[r.job].event = [pr |-> p, n |-> r.of]
          /\ r.attempt \in 1..jobs'[r.job].last
    <2> SUFFICES ASSUME NEW i \in DOMAIN reviews[p]
                 PROVE  LET r == reviews[p][i] IN
                        /\ r.of \in 1..head'[p] /\ jobs'[r.job].event = [pr |-> p, n |-> r.of]
                        /\ r.attempt \in 1..jobs'[r.job].last
      OBVIOUS
    <2> DEFINE r == reviews[p][i]
    <2>1. /\ r.job \in JobIds /\ r.of \in 1..head[p] /\ r.attempt \in 1..jobs[r.job].last
          /\ jobs[r.job].event = [pr |-> p, n |-> r.of]
      BY ReviewFields
    <2>2. /\ jobs'[r.job].event = jobs[r.job].event /\ jobs[r.job].last \in Nat
          /\ jobs'[r.job].last \in Nat /\ jobs[r.job].last <= jobs'[r.job].last
      BY <2>1, JobsStay
    <2>3. head[p] \in Nat /\ head'[p] \in Nat /\ head[p] <= head'[p]
      BY DEF HeadsGrow
    <2> HIDE DEF r
    <2>4. r.of \in 1..head'[p] /\ r.attempt \in 1..jobs'[r.job].last
      BY <2>1, <2>2, <2>3
    <2>5. QED
      BY <2>1, <2>2, <2>4 DEF r
  <1>4. QED
    BY <1>2, <1>3 DEF ReviewInv, Posted, PostedBy

\* The review that is posted is a new one of its job's pull request.
LEMMA PostAppends ==
  ASSUME JobInv, ReviewInv, NEW j \in JobIds, Post(j)
  PROVE  LET p == jobs[j].event.pr
             new == [of |-> jobs[j].event.n, job |-> j, attempt |-> jobs[j].attempts]
         IN  /\ p \in PRs /\ reviews' \in [PRs -> Seq(Reviews)]
             /\ \A q \in PRs : q # p => reviews'[q] = reviews[q]
             /\ reviews'[p] = Append(reviews[p], new) /\ new \in Reviews
             /\ Len(reviews'[p]) = Len(reviews[p]) + 1
             /\ \A i \in 1..Len(reviews[p]) : reviews'[p][i] = reviews[p][i]
             /\ reviews'[p][Len(reviews[p]) + 1] = new
  <1> DEFINE p == jobs[j].event.pr
             new == [of |-> jobs[j].event.n, job |-> j, attempt |-> jobs[j].attempts]
  <1>1. p \in PRs /\ new \in Reviews
    BY PostedChanges DEF Reviews
  <1>2. reviews \in [PRs -> Seq(Reviews)]
    BY DEF ReviewInv, ReviewType
  <1>3. reviews' = [reviews EXCEPT ![p] = Append(reviews[p], new)]
    BY DEF Post
  <1> HIDE DEF p, new
  <1>4. /\ reviews[p] \in Seq(Reviews) /\ Append(reviews[p], new) \in Seq(Reviews)
        /\ Len(Append(reviews[p], new)) = Len(reviews[p]) + 1
        /\ \A i \in 1..Len(reviews[p]) : Append(reviews[p], new)[i] = reviews[p][i]
        /\ Append(reviews[p], new)[Len(reviews[p]) + 1] = new
    BY <1>1, <1>2
  <1>5. /\ reviews' \in [PRs -> Seq(Reviews)] /\ reviews'[p] = Append(reviews[p], new)
        /\ \A q \in PRs : q # p => reviews'[q] = reviews[q]
    BY <1>1, <1>2, <1>3, <1>4
  <1>6. QED
    BY <1>1, <1>4, <1>5 DEF p, new

LEMMA ReviewStep ==
  ASSUME JobInv, JobInv', HeadsGrow, ReviewInv, [Next]_vars
  PROVE  ReviewInv'
  <1>1. CASE UNCHANGED reviews
    <2>1. \A p \in PRs :
            /\ reviews'[p] \in Seq(Reviews')
            /\ \A i \in DOMAIN reviews'[p] :
                 LET r == reviews'[p][i]
                 IN  r.of \in 1..head'[p] /\ jobs'[r.job].event = [pr |-> p, n |-> r.of]
            /\ PostedBy(p)'
      BY <1>1, OldReviewsStay
    <2>2. reviews' \in [PRs -> Seq(Reviews')]
      BY <1>1, <2>1 DEF ReviewInv, ReviewType
    <2>3. QED
      BY <2>1, <2>2 DEF ReviewInv, ReviewType, Posted
  <1>2. ASSUME NEW j \in JobIds, Post(j) PROVE ReviewInv'
    <2> DEFINE new == [of |-> jobs[j].event.n, job |-> j, attempt |-> jobs[j].attempts]
    <2>0. PICK p \in PRs : p = jobs[j].event.pr
      BY <1>2, PostedChanges
    <2>1. /\ p \in PRs /\ reviews' \in [PRs -> Seq(Reviews)]
          /\ \A q \in PRs : q # p => reviews'[q] = reviews[q]
          /\ reviews'[p] = Append(reviews[p], new) /\ new \in Reviews
          /\ Len(reviews'[p]) = Len(reviews[p]) + 1
          /\ \A i \in 1..Len(reviews[p]) : reviews'[p][i] = reviews[p][i]
          /\ reviews'[p][Len(reviews[p]) + 1] = new
      BY <1>2, <2>0, PostAppends
    <2>2. /\ JobIds' = JobIds
          /\ jobs'[j].event = jobs[j].event /\ jobs'[j].last = jobs[j].attempts
          /\ jobs[j].attempts \in 1..MaxAttempts
          /\ jobs[j].last < jobs[j].attempts /\ jobs[j].last \in Nat
      BY <1>2, PostedChanges
    <2>3. jobs[j].event \in Events /\ jobs[j].event.n <= head'[p]
      BY <1>2, <2>0, <2>2, JobFields DEF JobInv, JobType, JobCounts, JobOK
    <2>4. /\ new.of \in 1..head'[p] /\ jobs'[new.job].event = [pr |-> p, n |-> new.of]
          /\ new.attempt \in 1..jobs'[new.job].last
      <3>1. jobs[j].event.n \in 1..Len(Pushes[p]) /\ jobs[j].event = [pr |-> p, n |-> jobs[j].event.n]
        BY <2>0, <2>3, EventFields
      <3>2. Len(Pushes[p]) \in Nat /\ head'[p] \in Nat
        BY <2>1, PushesAssumption DEF HeadsGrow
      <3>3. jobs[j].event.n \in 1..head'[p]
        BY <2>3, <3>1, <3>2
      <3>4. QED
        BY <2>2, <3>1, <3>3, AttemptsAssumption
    <2> HIDE DEF new
    <2>5. /\ reviews[p] \in Seq(Reviews) /\ Len(reviews[p]) \in Nat
          /\ DOMAIN reviews[p] = 1..Len(reviews[p]) /\ DOMAIN reviews'[p] = 1..Len(reviews[p]) + 1
      BY <2>1, ReviewFields
    <2>6. \A i \in 1..Len(reviews[p]) :
            LET r == reviews[p][i] IN
            /\ r.job \in JobIds /\ r.of \in 1..head'[p] /\ jobs'[r.job].event = [pr |-> p, n |-> r.of]
            /\ r.attempt \in 1..jobs'[r.job].last
            /\ ~(r.job = new.job /\ r.attempt = new.attempt)
      <3> SUFFICES ASSUME NEW i \in 1..Len(reviews[p])
                   PROVE  LET r == reviews[p][i] IN
                          /\ r.job \in JobIds /\ r.of \in 1..head'[p]
                          /\ jobs'[r.job].event = [pr |-> p, n |-> r.of]
                          /\ r.attempt \in 1..jobs'[r.job].last
                          /\ ~(r.job = new.job /\ r.attempt = new.attempt)
        OBVIOUS
      <3> DEFINE r == reviews[p][i]
      <3>1. /\ r.job \in JobIds /\ r.of \in 1..head[p] /\ r.attempt \in 1..jobs[r.job].last
            /\ jobs[r.job].event = [pr |-> p, n |-> r.of]
        BY <2>1, <2>5, ReviewFields
      <3>2. /\ jobs'[r.job].event = jobs[r.job].event /\ jobs[r.job].last \in Nat
            /\ jobs'[r.job].last \in Nat /\ jobs[r.job].last <= jobs'[r.job].last
        BY <3>1, JobsStay
      <3>3. head[p] \in Nat /\ head'[p] \in Nat /\ head[p] <= head'[p]
        BY <2>1 DEF HeadsGrow
      <3> HIDE DEF r
      <3>4. r.of \in 1..head'[p] /\ r.attempt \in 1..jobs'[r.job].last
        BY <3>1, <3>2, <3>3
      <3>5. ~(r.job = new.job /\ r.attempt = new.attempt)
        <4>1. new.job = j /\ new.attempt = jobs[j].attempts
          BY DEF new
        <4>2. r.job = j => r.attempt <= jobs[j].last
          BY <2>2, <3>1
        <4>3. QED
          BY <2>2, <3>1, <4>1, <4>2
      <3>6. QED
        BY <3>1, <3>2, <3>4, <3>5 DEF r
    <2>7. reviews' \in [PRs -> Seq(Reviews')]
      BY <2>1, <2>2 DEF Reviews
    <2>8. \A i \in DOMAIN reviews'[p] :
            LET r == reviews'[p][i]
            IN  /\ r.of \in 1..head'[p] /\ jobs'[r.job].event = [pr |-> p, n |-> r.of]
                /\ r.attempt \in 1..jobs'[r.job].last
      BY <2>1, <2>4, <2>5, <2>6
    <2>9. PostedBy(p)'
      <3>1. \A i, k \in 1..Len(reviews[p]) :
              reviews[p][i].job = reviews[p][k].job /\ reviews[p][i].attempt = reviews[p][k].attempt
                => i = k
        BY <2>1, <2>5 DEF ReviewInv, Posted, PostedBy
      <3>2. \A i, k \in 1..Len(reviews[p]) + 1 :
              reviews'[p][i].job = reviews'[p][k].job
                /\ reviews'[p][i].attempt = reviews'[p][k].attempt => i = k
        <4> SUFFICES ASSUME NEW i \in 1..Len(reviews[p]) + 1, NEW k \in 1..Len(reviews[p]) + 1,
                            reviews'[p][i].job = reviews'[p][k].job,
                            reviews'[p][i].attempt = reviews'[p][k].attempt
                     PROVE  i = k
          OBVIOUS
        <4>1. CASE i \in 1..Len(reviews[p]) /\ k \in 1..Len(reviews[p])
          BY <2>1, <3>1, <4>1
        <4>2. CASE i \in 1..Len(reviews[p]) /\ k = Len(reviews[p]) + 1
          BY <2>1, <2>6, <4>2
        <4>3. CASE k \in 1..Len(reviews[p]) /\ i = Len(reviews[p]) + 1
          BY <2>1, <2>6, <4>3
        <4>4. QED
          BY <2>5, <4>1, <4>2, <4>3
      <3>3. QED
        BY <2>5, <2>8, <3>2 DEF PostedBy
    <2>10. \A q \in PRs : q # p =>
             /\ \A i \in DOMAIN reviews'[q] :
                  LET r == reviews'[q][i]
                  IN  r.of \in 1..head'[q] /\ jobs'[r.job].event = [pr |-> q, n |-> r.of]
             /\ PostedBy(q)'
      BY <2>1, OldReviewsStay
    <2>11. QED
      BY <2>7, <2>8, <2>9, <2>10 DEF ReviewInv, ReviewType, Posted
  <1>3. ASSUME Created \/ StartJob \/ Ended \/ \E j \in JobIds : Requeue(j) PROVE UNCHANGED reviews
    BY <1>3 DEF Created, StartJob, Ended, Requeue
  <1>4. QED
    BY <1>1, <1>2, <1>3, Grouped DEF Still

-----------------------------------------------------------------------------
(* The inductive invariant, and type correctness.                          *)

IInv == HeadType /\ EventsPushed /\ LockType /\ JobInv /\ ReviewInv

LEMMA InitIInv == Init => IInv
  <1> SUFFICES ASSUME Init PROVE IInv
    OBVIOUS
  <1>1. HeadType /\ EventsPushed
    <2>1. \A p \in PRs : Len(Pushes[p]) \in Nat
      BY PushesAssumption
    <2>2. QED
      BY <2>1 DEF Init, HeadType, EventsPushed, EventStates
  <1>2. LockType
    BY FaultsAssumption DEF Init, LockType
  <1>3. JobIds = {} /\ jobs = <<>> /\ queue = <<>>
    BY DEF Init, JobIds
  <1>4. Running = {}
    BY <1>3 DEF Running
  <1>5. Cardinality(Running) <= NumWorkers
    BY <1>4, FS_EmptySet, WorkersAssumption
  <1>6. JobInv
    BY <1>3, <1>5 DEF JobInv, JobType, JobCounts, QueueWaits
  <1>7. ReviewInv
    <2>1. \A p \in PRs : reviews[p] = <<>>
      BY DEF Init
    <2>2. reviews \in [PRs -> Seq(Reviews)]
      BY DEF Init
    <2>3. \A p \in PRs : DOMAIN reviews[p] = {}
      BY <2>1
    <2>4. QED
      BY <2>2, <2>3 DEF ReviewInv, ReviewType, Posted, PostedBy
  <1>8. QED
    BY <1>1, <1>2, <1>6, <1>7 DEF IInv

LEMMA IInvStep == IInv /\ [Next]_vars => IInv' /\ HeadsGrow
  <1> SUFFICES ASSUME IInv, [Next]_vars PROVE IInv' /\ HeadsGrow
    OBVIOUS
  <1>1. HeadType' /\ EventsPushed' /\ \A p \in PRs : head[p] <= head'[p]
    BY HeadStep DEF IInv
  <1>2. HeadsGrow
    BY <1>1 DEF IInv, HeadType, HeadsGrow
  <1>3. LockType'
    BY LockStep DEF IInv
  <1>4. JobInv'
    BY <1>2, JobStep DEF IInv
  <1>5. ReviewInv'
    BY <1>2, <1>4, ReviewStep DEF IInv
  <1>6. QED
    BY <1>1, <1>2, <1>3, <1>4, <1>5 DEF IInv

LEMMA Invariance == Spec => []IInv
  <1>1. IInv /\ [Next]_vars => IInv'
    BY IInvStep
  <1>2. QED
    BY InitIInv, <1>1, PTL DEF Spec

\* In every behaviour the variables have the values the code can give them: no
\* more jobs run than there are workers, and a review is of a head that was
\* pushed, by a job that was enqueued for it.
THEOREM PullRequestTypeCorrect == Spec => []TypeOK
  <1>1. IInv => TypeOK
    BY DEF IInv, JobInv, ReviewInv, TypeOK
  <1>2. QED
    BY Invariance, <1>1, PTL

-----------------------------------------------------------------------------
(* Admission: jobs are created for a commit only as its lock allows.       *)

JobCount(c) == Cardinality(JobsOf(c))

\* Every job of a commit but the one that its lock stands for is paid for.
Covered ==
  \A c \in Commits : JobCount(c) <= excuses[c] + (IF c \in locked THEN 1 ELSE 0)

LEMMA JobsOfIsFinite ==
  ASSUME JobInv, NEW c \in Commits
  PROVE  IsFiniteSet(JobsOf(c)) /\ JobCount(c) \in Nat
  <1>1. Len(jobs) \in Nat
    BY DEF JobInv, JobType
  <1>2. IsFiniteSet(JobIds)
    BY <1>1, FS_Interval DEF JobIds
  <1>3. QED
    BY <1>2, FS_Subset, FS_CardinalityType DEF JobsOf, JobCount

LEMMA NewJobCounts ==
  ASSUME JobInv, NEW e \in Events, NewJob(e), NEW c \in Commits
  PROVE  JobCount(c)' = IF c = CommitOf(e) THEN JobCount(c) + 1 ELSE JobCount(c)
  <1> DEFINE new == Len(jobs) + 1
  <1>1. jobs \in Seq(Jobs) /\ queue \in Seq(JobIds)
    BY DEF JobInv, JobType
  <1>2. /\ Len(jobs) \in Nat /\ JobIds' = JobIds \union {new} /\ jobs'[new].event = e
        /\ \A j \in JobIds : jobs'[j] = jobs[j]
    <2>1. JobFor(e).event = e
      BY DEF JobFor
    <2>2. QED
      BY <1>1, <2>1, NewJobAppends
  <1>3. new \notin JobIds
    BY <1>2 DEF JobIds
  <1>4. CASE c = CommitOf(e)
    <2>1. JobsOf(c)' = JobsOf(c) \union {new} /\ new \notin JobsOf(c)
      BY <1>2, <1>3, <1>4 DEF JobsOf
    <2>2. QED
      BY <1>4, <2>1, JobsOfIsFinite, FS_AddElement DEF JobCount
  <1>5. CASE c # CommitOf(e)
    <2>1. JobsOf(c)' = JobsOf(c)
      BY <1>2, <1>3, <1>5 DEF JobsOf
    <2>2. QED
      BY <1>5, <2>1 DEF JobCount
  <1>6. QED
    BY <1>4, <1>5

\* No other step adds a job to a commit.
LEMMA NoNewJobCounts ==
  ASSUME JobInv, [Next]_vars, ~Created, NEW c \in Commits
  PROVE  JobCount(c)' = JobCount(c)
  <1>1. CASE Still
    BY <1>1 DEF Still, JobCount, JobsOf, JobIds
  <1>2. ASSUME StartJob \/ Ended \/ \E j \in JobIds : Post(j) \/ Requeue(j)
        PROVE  JobIds' = JobIds
    BY <1>2, StartTakesHead, EndedChanges, PostedChanges, RequeueAppends DEF Ended
  <1>3. CASE JobIds' = JobIds
    <2>1. JobsOf(c)' = JobsOf(c)
      BY <1>3, JobsStay DEF JobsOf
    <2>2. QED
      BY <2>1 DEF JobCount
  <1>4. QED
    BY <1>1, <1>2, <1>3, Grouped

\* A step creates a job under a lock that was free, a lock lapses, or the jobs
\* of the commits and what they are excused for stay and no lock is given up.
LEMMA LockSteps ==
  ASSUME JobInv, [Next]_vars
  PROVE  \/ \E e \in Events : Admit(e) \/ AdmitUnseen(e)
         \/ \E c \in Commits : Lapse(c)
         \/ /\ \A c \in Commits : JobCount(c)' = JobCount(c)
            /\ UNCHANGED excuses /\ locked \subseteq locked'
  <1>1. CASE \/ \E e \in Events : Admit(e) \/ AdmitUnseen(e)
             \/ \E c \in Commits : Lapse(c)
    BY <1>1
  <1>2. CASE ~ \/ \E e \in Events : Admit(e) \/ AdmitUnseen(e)
               \/ \E c \in Commits : Lapse(c)
    <2>1. \/ \E p \in PRs : Push(p)
          \/ \E e \in Events : Deduplicate(e) \/ NotAdmitted(e) \/ Again(e)
          \/ StartJob
          \/ \E j \in JobIds : Post(j) \/ Finish(j) \/ Fail(j) \/ Requeue(j)
          \/ UNCHANGED vars
      BY <1>2 DEF Next, Handle, Work
    <2>2. UNCHANGED excuses /\ locked \subseteq locked'
      BY <2>1 DEF Push, Deduplicate, NotAdmitted, Again, StartJob, Post, Finish, Fail, EndsAs,
         Requeue, vars
    <2>3. Still \/ StartJob \/ Ended \/ \E j \in JobIds : Post(j) \/ Requeue(j) \/ Finish(j) \/ Fail(j)
      BY <2>1 DEF Push, Deduplicate, NotAdmitted, Again, Still, vars
    <2>4. ~Created
      <3>1. jobs \in Seq(Jobs) /\ queue \in Seq(JobIds)
        BY DEF JobInv, JobType
      <3>2. ASSUME Created PROVE Len(jobs') = Len(jobs) + 1 /\ Len(jobs) \in Nat
        BY <3>1, <3>2, NewJobAppends DEF Created
      <3>3. Len(jobs') = Len(jobs)
        <4>1. ASSUME NEW j \in JobIds, NEW state \in JobStates,
                     jobs' = [jobs EXCEPT ![j].state = state]
              PROVE  Len(jobs') = Len(jobs)
          BY <3>1, <4>1, StateChanges
        <4>2. ASSUME NEW j \in JobIds, Finish(j) \/ Fail(j) PROVE Len(jobs') = Len(jobs)
          BY <4>1, <4>2 DEF Finish, Fail, EndsAs, JobStates
        <4>3. ASSUME Ended PROVE Len(jobs') = Len(jobs)
          BY <4>1, <4>3 DEF Ended, Running, JobStates
        <4>4. QED
          BY <2>3, <4>2, <4>3, StartTakesHead, PostedChanges, RequeueAppends DEF Still
      <3>4. QED
        BY <3>2, <3>3
    <2>5. QED
      BY <2>2, <2>4, NoNewJobCounts
  <1>3. QED
    BY <1>1, <1>2

\* The number of jobs of a commit is what ReviewAdmission counts.
LEMMA StepAdmits ==
  ASSUME LockType, JobInv, Covered, [Next]_vars
  PROVE  /\ Covered'
         /\ \/ \E k \in Commits : /\ JobCount(k) <= excuses[k]
                                  /\ \A c \in Commits :
                                       JobCount(c)' = IF c = k THEN JobCount(c) + 1 ELSE JobCount(c)
                                  /\ excuses' \in {excuses, [excuses EXCEPT ![k] = @ + 1]}
            \/ \E k \in Commits : /\ \A c \in Commits : JobCount(c)' = JobCount(c)
                                  /\ excuses' = [excuses EXCEPT ![k] = @ + 1]
            \/ /\ \A c \in Commits : JobCount(c)' = JobCount(c)
               /\ UNCHANGED excuses
  <1>1. /\ \A c \in Commits : JobCount(c) \in Nat /\ excuses[c] \in Nat
        /\ excuses \in [Commits -> Nat] /\ locked \subseteq Commits
    BY JobsOfIsFinite DEF LockType
  <1>2. ASSUME NEW e \in Events, Admit(e) \/ AdmitUnseen(e)
        PROVE  /\ Covered'
               /\ \E k \in Commits : /\ JobCount(k) <= excuses[k]
                                     /\ \A c \in Commits :
                                          JobCount(c)' = IF c = k THEN JobCount(c) + 1 ELSE JobCount(c)
                                     /\ excuses' \in {excuses, [excuses EXCEPT ![k] = @ + 1]}
    <2>1. PICK k \in Commits : k = CommitOf(e)
      BY EventFields
    <2>2. /\ NewJob(e) /\ k \notin locked
          /\ excuses' \in {excuses, [excuses EXCEPT ![k] = @ + 1]}
          /\ \/ locked' = locked \union {k}
             \/ locked' = locked /\ excuses' = [excuses EXCEPT ![k] = @ + 1]
      <3>1. CASE Admit(e)
        BY <2>1, <3>1 DEF Admit
      <3>2. CASE AdmitUnseen(e)
        BY <2>1, <3>2 DEF AdmitUnseen
      <3>3. QED
        BY <1>2, <3>1, <3>2
    <2>3. \A c \in Commits : JobCount(c)' = IF c = k THEN JobCount(c) + 1 ELSE JobCount(c)
      BY <2>1, <2>2, NewJobCounts
    <2>4. JobCount(k) <= excuses[k]
      BY <1>1, <2>2 DEF Covered
    <2>5. ASSUME NEW c \in Commits
          PROVE  JobCount(c)' <= excuses'[c] + (IF c \in locked' THEN 1 ELSE 0)
      <3>1. JobCount(c) <= excuses[c] + (IF c \in locked THEN 1 ELSE 0)
        BY DEF Covered
      <3>2. CASE c = k
        BY <1>1, <2>2, <2>3, <2>4, <3>2
      <3>3. CASE c # k
        BY <1>1, <2>2, <2>3, <3>1, <3>3
      <3>4. QED
        BY <3>2, <3>3
    <2>6. QED
      BY <2>2, <2>3, <2>4, <2>5 DEF Covered
  <1>3. ASSUME NEW k \in Commits, Lapse(k)
        PROVE  /\ Covered'
               /\ \A c \in Commits : JobCount(c)' = JobCount(c)
               /\ excuses' = [excuses EXCEPT ![k] = @ + 1]
    <2>1. /\ k \in locked /\ locked' = locked \ {k} /\ excuses' = [excuses EXCEPT ![k] = @ + 1]
          /\ UNCHANGED jobs
      BY <1>3 DEF Lapse
    <2>2. \A c \in Commits : JobCount(c)' = JobCount(c)
      BY <2>1 DEF JobCount, JobsOf, JobIds
    <2>3. ASSUME NEW c \in Commits
          PROVE  JobCount(c)' <= excuses'[c] + (IF c \in locked' THEN 1 ELSE 0)
      <3>1. JobCount(c) <= excuses[c] + (IF c \in locked THEN 1 ELSE 0)
        BY DEF Covered
      <3>2. QED
        BY <1>1, <2>1, <2>2, <3>1
    <2>4. QED
      BY <2>1, <2>2, <2>3 DEF Covered
  <1>4. ASSUME \A c \in Commits : JobCount(c)' = JobCount(c),
               UNCHANGED excuses, locked \subseteq locked'
        PROVE  Covered'
    BY <1>1, <1>4 DEF Covered
  <1>5. QED
    BY <1>2, <1>3, <1>4, LockSteps

LEMMA InitCovered == Init => Covered
  <1> SUFFICES ASSUME Init, NEW c \in Commits
               PROVE  JobCount(c) <= excuses[c] + (IF c \in locked THEN 1 ELSE 0)
    BY DEF Covered
  <1>1. JobsOf(c) = {}
    BY DEF Init, JobsOf, JobIds
  <1>2. QED
    BY <1>1, FS_EmptySet DEF Init, JobCount

LEMMA CoveredInvariance == Spec => [](IInv /\ Covered)
  <1>1. IInv /\ Covered /\ [Next]_vars => IInv' /\ Covered'
    BY IInvStep, StepAdmits DEF IInv
  <1>2. QED
    BY InitIInv, InitCovered, <1>1, PTL DEF Spec

\* For any pull requests, however heads are shared between them: commits are
\* admitted to review as ReviewAdmission says, which WebhookRetry implements.
THEOREM AdmissionAsPromised == Spec => AdmitsAsPromised
  <1> DEFINE counts == [c \in Commits |-> Cardinality(JobsOf(c))]
  <1>1. Init => Admission!Init
    <2> SUFFICES ASSUME Init PROVE Admission!Init
      OBVIOUS
    <2>1. \A c \in Commits : JobsOf(c) = {}
      BY DEF Init, JobsOf, JobIds
    <2>2. \A c \in Commits : Cardinality(JobsOf(c)) = 0
      BY <2>1, FS_EmptySet
    <2>3. QED
      BY <2>2 DEF Init, Admission!Init
  <1>2. IInv /\ Covered /\ [Next]_vars => [Admission!Next]_(Admission!vars)
    <2> SUFFICES ASSUME IInv, Covered, [Next]_vars
                 PROVE  Admission!Next \/ UNCHANGED <<counts, excuses>>
      BY DEF Admission!vars
    <2>1. \A c \in Commits : counts[c] = JobCount(c) /\ counts'[c] = JobCount(c)'
      BY DEF JobCount
    <2>2. counts = [c \in Commits |-> counts[c]] /\ counts' = [c \in Commits |-> counts'[c]]
      OBVIOUS
    <2> HIDE DEF counts
    <2>3. ASSUME NEW k \in Commits, JobCount(k) <= excuses[k],
                 \A c \in Commits : JobCount(c)' = IF c = k THEN JobCount(c) + 1 ELSE JobCount(c)
          PROVE  counts[k] <= excuses[k] /\ counts' = [counts EXCEPT ![k] = @ + 1]
      BY <2>1, <2>2, <2>3
    <2>4. ASSUME \A c \in Commits : JobCount(c)' = JobCount(c)
          PROVE  counts' = counts
      BY <2>1, <2>2, <2>4
    <2> USE DEF counts
    <2>5. QED
      BY <2>3, <2>4, StepAdmits
         DEF IInv, Admission!Next, Admission!Admit, Admission!AdmitUnseen, Admission!Lapse
  <1>3. QED
    BY <1>1, <1>2, CoveredInvariance, PTL DEF Spec, AdmitsAsPromised, Admission!Spec

-----------------------------------------------------------------------------
(* The budget: each review has its job and attempt for itself, and the     *)
(* jobs of a commit are paid for.                                          *)

LEMMA BudgetFollows ==
  ASSUME IInv, Covered
  PROVE  ReviewBudget
  <1> SUFFICES ASSUME NEW c \in Commits
               PROVE  Cardinality(ReviewsOf(c)) <= MaxAttempts * (1 + excuses[c])
    BY DEF ReviewBudget
  <1> DEFINE Slots == JobsOf(c) \X (1..MaxAttempts)
             slot == [x \in ReviewsOf(c) |->
                        <<reviews[x[1]][x[2]].job, reviews[x[1]][x[2]].attempt>>]
  <1>1. ASSUME NEW x \in ReviewsOf(c)
        PROVE  /\ x = <<x[1], x[2]>> /\ x[1] \in PRs /\ x[2] \in DOMAIN reviews[x[1]]
               /\ Pushes[x[1]][reviews[x[1]][x[2]].of] = c
    BY DEF ReviewsOf
  <1>2. ASSUME NEW x \in ReviewsOf(c)
        PROVE  LET r == reviews[x[1]][x[2]] IN
               /\ r.job \in JobsOf(c) /\ r.attempt \in 1..MaxAttempts
               /\ jobs[r.job].event.pr = x[1]
    <2> DEFINE r == reviews[x[1]][x[2]]
    <2>1. r \in Reviews /\ r.job \in JobIds /\ jobs[r.job].event = [pr |-> x[1], n |-> r.of]
      BY <1>1, ReviewFields DEF IInv
    <2>2. r.attempt \in 1..MaxAttempts
      BY <2>1 DEF Reviews
    <2>3. CommitOf(jobs[r.job].event) = c /\ jobs[r.job].event.pr = x[1]
      BY <1>1, <2>1 DEF CommitOf
    <2>4. QED
      BY <2>1, <2>2, <2>3 DEF JobsOf
  <1>3. slot \in [ReviewsOf(c) -> Slots]
    BY <1>2
  <1>4. ASSUME NEW x \in ReviewsOf(c), NEW y \in ReviewsOf(c), slot[x] = slot[y]
        PROVE  x = y
    <2>1. /\ reviews[x[1]][x[2]].job = reviews[y[1]][y[2]].job
          /\ reviews[x[1]][x[2]].attempt = reviews[y[1]][y[2]].attempt
      BY <1>4
    <2>2. x[1] = y[1]
      <3>1. /\ jobs[reviews[x[1]][x[2]].job].event.pr = x[1]
            /\ jobs[reviews[y[1]][y[2]].job].event.pr = y[1]
        BY <1>2
      <3>2. QED
        BY <2>1, <3>1
    <2>3. x[2] = y[2]
      <3>1. /\ x[1] \in PRs /\ x[2] \in DOMAIN reviews[x[1]] /\ y[2] \in DOMAIN reviews[x[1]]
            /\ reviews[x[1]][x[2]].job = reviews[x[1]][y[2]].job
            /\ reviews[x[1]][x[2]].attempt = reviews[x[1]][y[2]].attempt
        BY <1>1, <2>1, <2>2
      <3>2. PostedBy(x[1])
        BY <3>1 DEF IInv, ReviewInv, Posted
      <3>3. QED
        BY <3>1, <3>2 DEF PostedBy
    <2>4. QED
      BY <1>1, <2>2, <2>3
  <1>5. slot \in Injection(ReviewsOf(c), Slots)
    BY <1>3, <1>4 DEF Injection, IsInjective
  <1>6. IsFiniteSet(Slots) /\ Cardinality(Slots) = JobCount(c) * MaxAttempts
    <2>1. IsFiniteSet(JobsOf(c)) /\ JobCount(c) = Cardinality(JobsOf(c))
      BY JobsOfIsFinite DEF IInv, JobCount
    <2>2. IsFiniteSet(1..MaxAttempts) /\ Cardinality(1..MaxAttempts) = MaxAttempts
      BY AttemptsAssumption, FS_Interval
    <2>3. /\ IsFiniteSet(JobsOf(c) \X (1..MaxAttempts))
          /\ Cardinality(JobsOf(c) \X (1..MaxAttempts)) =
               Cardinality(JobsOf(c)) * Cardinality(1..MaxAttempts)
      BY <2>1, <2>2, FS_Product, Zenon
    <2>4. QED
      BY <2>1, <2>2, <2>3
  <1>7. Cardinality(ReviewsOf(c)) <= JobCount(c) * MaxAttempts
    <2> HIDE DEF slot, Slots
    <2>1. Cardinality(ReviewsOf(c)) <= Cardinality(Slots)
      BY <1>5, <1>6, FS_Injection
    <2>2. QED
      BY <1>6, <2>1
  <1>8. /\ JobCount(c) \in Nat /\ excuses[c] \in Nat /\ JobCount(c) <= 1 + excuses[c]
        /\ MaxAttempts \in Nat
    BY JobsOfIsFinite, AttemptsAssumption DEF IInv, LockType, Covered
  <1>9. JobCount(c) * MaxAttempts <= MaxAttempts * (1 + excuses[c])
    <2>1. \A a, b, m \in Nat : a <= b => a * m <= m * b
      OBVIOUS
    <2>2. QED
      BY <1>8, <2>1
  <1>10. Cardinality(ReviewsOf(c)) \in Nat
    BY <1>5, <1>6, FS_Injection, FS_CardinalityType
  <1>11. JobCount(c) * MaxAttempts \in Nat /\ MaxAttempts * (1 + excuses[c]) \in Nat
    BY <1>8
  <1>12. QED
    BY <1>7, <1>9, <1>10, <1>11

\* However often its events are delivered, tried again or replayed and its jobs
\* fail, a head commit gets no more reviews than its admissions pay for.
THEOREM ReviewsStayInBudget == Spec => []ReviewBudget
  BY CoveredInvariance, BudgetFollows, PTL

-----------------------------------------------------------------------------
(* The order of reviews.                                                   *)

Started(j) == jobs[j].attempts > 0

\* A job that was never started is in the queue, ahead of the later ones.
InQueue == \A j \in JobIds : ~Started(j) => \E i \in DOMAIN queue : queue[i] = j

QueueInOrder ==
  \A i, k \in DOMAIN queue :
    i < k /\ ~Started(queue[i]) /\ ~Started(queue[k]) => queue[i] < queue[k]

StartedInOrder == \A a, b \in JobIds : Started(a) /\ b < a => Started(b)

\* The first attempt of a job is over when a later job starts, unless it is
\* noted that it runs beside that job.
Ahead ==
  \A a, b \in JobIds :
    b < a /\ Started(a) /\ b \notin jobs[a].beside /\ jobs[b].attempts = 1
      => jobs[b].state # "running"

OrderInv == InQueue /\ QueueInOrder /\ StartedInOrder /\ Ahead

\* What a step that starts no attempt leaves of the jobs.
OldJobsRest ==
  \A j \in JobIds :
    /\ j \in JobIds' /\ jobs'[j].attempts = jobs[j].attempts /\ jobs'[j].beside = jobs[j].beside
    /\ jobs'[j].state = "running" => jobs[j].state = "running"

LEMMA RestingSteps ==
  ASSUME JobInv
  PROVE  /\ Still => OldJobsRest /\ JobIds' = JobIds /\ UNCHANGED queue
         /\ Ended => OldJobsRest /\ JobIds' = JobIds /\ UNCHANGED queue
         /\ \A j \in JobIds : Post(j) => OldJobsRest /\ JobIds' = JobIds /\ UNCHANGED queue
         /\ \A j \in JobIds : Requeue(j) => OldJobsRest
         /\ Created => OldJobsRest
  <1>1. jobs \in Seq(Jobs) /\ queue \in Seq(JobIds)
    BY DEF JobInv, JobType
  <1>2. Still => OldJobsRest /\ JobIds' = JobIds /\ UNCHANGED queue
    BY DEF Still, OldJobsRest, JobIds
  <1>3. ASSUME Ended PROVE OldJobsRest /\ JobIds' = JobIds /\ UNCHANGED queue
    <2>1. PICK i \in Running, state \in {"done", "failed", "scheduled"} :
            jobs' = [jobs EXCEPT ![i].state = state] /\ UNCHANGED queue
      BY <1>3 DEF Ended
    <2>2. /\ JobIds' = JobIds /\ jobs'[i] = [jobs[i] EXCEPT !.state = state]
          /\ i \in JobIds /\ \A j \in JobIds : j # i => jobs'[j] = jobs[j]
          /\ jobs'[i].state = state
      BY <2>1, EndedChanges
    <2>3. jobs'[i].attempts = jobs[i].attempts /\ jobs'[i].beside = jobs[i].beside
      BY <1>1, <2>2, JobFields DEF Jobs
    <2>4. QED
      BY <2>1, <2>2, <2>3 DEF OldJobsRest
  <1>4. ASSUME NEW j \in JobIds, Post(j) PROVE OldJobsRest /\ JobIds' = JobIds /\ UNCHANGED queue
    <2>1. UNCHANGED queue
      BY <1>4 DEF Post
    <2>2. QED
      BY <1>4, <2>1, PostedChanges DEF OldJobsRest
  <1>5. ASSUME NEW j \in JobIds, Requeue(j) PROVE OldJobsRest
    BY <1>5, RequeueAppends DEF OldJobsRest
  <1>6. ASSUME Created PROVE OldJobsRest
    BY <1>1, <1>6, NewJobAppends DEF Created, OldJobsRest
  <1>7. QED
    BY <1>2, <1>3, <1>4, <1>5, <1>6

LEMMA RestKeepsOrder ==
  ASSUME OrderInv, OldJobsRest, JobIds' = JobIds, UNCHANGED queue, queue \in Seq(JobIds)
  PROVE  OrderInv'
  <1>1. \A i \in DOMAIN queue : queue[i] \in JobIds
    OBVIOUS
  <1>2. InQueue' /\ QueueInOrder'
    BY <1>1 DEF OrderInv, InQueue, QueueInOrder, OldJobsRest, Started
  <1>3. StartedInOrder'
    BY DEF OrderInv, StartedInOrder, OldJobsRest, Started
  <1>4. Ahead'
    BY DEF OrderInv, Ahead, OldJobsRest, Started
  <1>5. QED
    BY <1>2, <1>3, <1>4 DEF OrderInv

LEMMA RequeueKeepsOrder ==
  ASSUME JobInv, OrderInv, NEW j \in JobIds, Requeue(j)
  PROVE  OrderInv'
  <1>1. jobs \in Seq(Jobs) /\ queue \in Seq(JobIds)
    BY DEF JobInv, JobType
  <1>2. /\ jobs[j].state = "scheduled" /\ JobIds' = JobIds
        /\ queue' \in Seq(JobIds) /\ Len(queue) \in Nat /\ Len(queue') = Len(queue) + 1
        /\ \A i \in 1..Len(queue) : queue'[i] = queue[i] /\ queue[i] \in JobIds
        /\ queue'[Len(queue) + 1] = j
    BY RequeueAppends
  <1>3. OldJobsRest
    BY RestingSteps
  <1>4. DOMAIN queue = 1..Len(queue) /\ DOMAIN queue' = 1..Len(queue) + 1
    BY <1>1, <1>2
  <1>5. Started(j)
    BY <1>2, <1>4 DEF OrderInv, InQueue, JobInv, QueueWaits
  <1>6. \A k \in JobIds : Started(k)' <=> Started(k)
    BY <1>3 DEF OldJobsRest, Started
  <1>7. InQueue'
    BY <1>2, <1>4, <1>6 DEF OrderInv, InQueue
  <1>8. QueueInOrder'
    <2>1. \A i \in DOMAIN queue' : ~Started(queue[i])' => i \in DOMAIN queue
      BY <1>2, <1>4, <1>5, <1>6
    <2>2. QED
      BY <1>2, <1>4, <1>6, <2>1 DEF OrderInv, QueueInOrder
  <1>9. StartedInOrder'
    BY <1>2, <1>6 DEF OrderInv, StartedInOrder
  <1>10. Ahead'
    BY <1>2, <1>3, <1>6 DEF OrderInv, Ahead, OldJobsRest
  <1>11. QED
    BY <1>7, <1>8, <1>9, <1>10 DEF OrderInv

LEMMA CreatedKeepsOrder ==
  ASSUME JobInv, OrderInv, Created
  PROVE  OrderInv'
  <1> DEFINE new == Len(jobs) + 1
  <1>1. jobs \in Seq(Jobs) /\ queue \in Seq(JobIds)
    BY DEF JobInv, JobType
  <1>2. /\ Len(jobs) \in Nat /\ JobIds' = JobIds \union {new}
        /\ \E e \in Events : jobs'[new] = JobFor(e)
        /\ queue' \in Seq(JobIds') /\ Len(queue') = Len(queue) + 1 /\ Len(queue) \in Nat
        /\ \A i \in 1..Len(queue) : queue'[i] = queue[i]
        /\ queue'[Len(queue) + 1] = new
    BY <1>1, NewJobAppends DEF Created
  <1>3. jobs'[new].attempts = 0
    BY <1>2 DEF JobFor
  <1>4. OldJobsRest
    BY RestingSteps
  <1>5. /\ DOMAIN queue = 1..Len(queue) /\ DOMAIN queue' = 1..Len(queue) + 1
        /\ \A i \in 1..Len(queue) : queue[i] \in JobIds
    BY <1>1, <1>2
  <1>6. \A j \in JobIds : j < new /\ j # new
    BY <1>2 DEF JobIds
  <1>7. /\ \A k \in JobIds : Started(k)' <=> Started(k)
        /\ ~(jobs'[new].attempts > 0)
    BY <1>3, <1>4 DEF OldJobsRest, Started
  <1>8. InQueue'
    <2>1. ASSUME NEW j \in JobIds', ~Started(j)' PROVE \E i \in DOMAIN queue' : queue'[i] = j
      <3>1. CASE j \in JobIds
        BY <1>2, <1>5, <1>7, <2>1, <3>1 DEF OrderInv, InQueue
      <3>2. CASE j = new
        BY <1>2, <1>5, <3>2
      <3>3. QED
        BY <1>2, <3>1, <3>2
    <2>2. QED
      BY <2>1 DEF InQueue
  <1>9. QueueInOrder'
    <2>1. ASSUME NEW i \in DOMAIN queue', NEW k \in DOMAIN queue', i < k,
                 ~Started(queue[i])', ~Started(queue[k])'
          PROVE  queue'[i] < queue'[k]
      <3>1. i \in 1..Len(queue) /\ queue'[i] = queue[i] /\ queue[i] \in JobIds
        BY <1>2, <1>5, <2>1
      <3>2. CASE k \in 1..Len(queue)
        BY <1>2, <1>5, <1>7, <2>1, <3>1, <3>2 DEF OrderInv, QueueInOrder
      <3>3. CASE k = Len(queue) + 1
        BY <1>2, <1>6, <3>1, <3>3
      <3>4. QED
        BY <1>2, <1>5, <3>2, <3>3
    <2>2. QED
      BY <2>1 DEF QueueInOrder
  <1>10. StartedInOrder'
    <2>1. ASSUME NEW a \in JobIds', NEW b \in JobIds', Started(a)', b < a
          PROVE  Started(b)'
      <3>1. a \in JobIds
        BY <1>2, <1>7, <2>1 DEF Started
      <3>2. b \in JobIds
        BY <1>2, <1>6, <2>1, <3>1 DEF JobIds
      <3>3. QED
        BY <1>7, <2>1, <3>1, <3>2 DEF OrderInv, StartedInOrder
    <2>2. QED
      BY <2>1 DEF StartedInOrder
  <1>11. Ahead'
    <2>1. ASSUME NEW a \in JobIds', NEW b \in JobIds', b < a, Started(a)',
                 b \notin jobs'[a].beside, jobs'[b].attempts = 1
          PROVE  jobs'[b].state # "running"
      <3>1. a \in JobIds /\ b \in JobIds
        BY <1>2, <1>3, <1>7, <2>1 DEF Started
      <3>2. QED
        BY <1>4, <1>7, <2>1, <3>1 DEF OrderInv, Ahead, OldJobsRest
    <2>2. QED
      BY <2>1 DEF Ahead
  <1>12. QED
    BY <1>8, <1>9, <1>10, <1>11 DEF OrderInv

LEMMA StartKeepsOrder ==
  ASSUME JobInv, OrderInv, StartJob
  PROVE  OrderInv'
  <1> DEFINE j == Head(queue)
  <1>1. jobs \in Seq(Jobs) /\ queue \in Seq(JobIds)
    BY DEF JobInv, JobType
  <1>2. /\ j \in JobIds /\ jobs[j].state = "waiting" /\ JobIds' = JobIds
        /\ jobs'[j] = [jobs[j] EXCEPT !.state = "running", !.attempts = @ + 1,
                                     !.beside = @ \union Running]
        /\ \A k \in JobIds : k # j => jobs'[k] = jobs[k]
    BY StartTakesHead
  <1>3. /\ queue # <<>> /\ queue[1] = j /\ queue' \in Seq(JobIds)
        /\ Len(queue) \in Nat /\ Len(queue') = Len(queue) - 1
        /\ \A i \in 1..Len(queue') : queue'[i] = queue[i + 1]
    BY StartTakesHead
  <1> HIDE DEF j
  <1>4. /\ jobs'[j].attempts = jobs[j].attempts + 1 /\ jobs[j].attempts \in Nat
        /\ jobs'[j].beside = jobs[j].beside \union Running
    BY <1>1, <1>2, JobFields DEF Jobs
  <1>5. /\ DOMAIN queue = 1..Len(queue) /\ DOMAIN queue' = 1..Len(queue) - 1
        /\ 1 \in DOMAIN queue /\ \A i \in DOMAIN queue : queue[i] \in JobIds
    BY <1>1, <1>3
  <1>6. \A k \in JobIds : Started(k)' <=> Started(k) \/ k = j
    <2>1. jobs'[j].attempts > 0
      BY <1>4
    <2>2. \A k \in JobIds : k # j => (Started(k)' <=> Started(k))
      BY <1>2 DEF Started
    <2>3. QED
      BY <1>2, <2>1, <2>2 DEF Started
  <1>7. InQueue'
    <2>1. ASSUME NEW k \in JobIds, ~Started(k)' PROVE \E i \in DOMAIN queue' : queue'[i] = k
      <3>1. ~Started(k) /\ k # j
        BY <1>6, <2>1
      <3>2. PICK i \in DOMAIN queue : queue[i] = k
        BY <3>1 DEF OrderInv, InQueue
      <3>3. i - 1 \in 1..Len(queue) - 1 /\ (i - 1) + 1 = i
        BY <1>3, <1>5, <3>1, <3>2
      <3>4. queue'[i - 1] = k
        BY <1>3, <3>2, <3>3
      <3>5. QED
        BY <1>5, <3>3, <3>4
    <2>2. QED
      BY <1>2, <2>1 DEF InQueue
  <1>8. QueueInOrder'
    <2>1. ASSUME NEW i \in 1..Len(queue) - 1, NEW k \in 1..Len(queue) - 1, i < k,
                 ~Started(queue[i])', ~Started(queue[k])'
          PROVE  queue'[i] < queue'[k]
      <3>1. /\ i + 1 \in DOMAIN queue /\ k + 1 \in DOMAIN queue /\ i + 1 < k + 1
            /\ queue'[i] = queue[i + 1] /\ queue'[k] = queue[k + 1]
        BY <1>3, <1>5, <2>1
      <3>2. ~Started(queue[i + 1]) /\ ~Started(queue[k + 1])
        BY <1>5, <1>6, <2>1, <3>1
      <3>3. QED
        BY <3>1, <3>2 DEF OrderInv, QueueInOrder
    <2>2. QED
      BY <1>5, <2>1 DEF QueueInOrder
  <1>9. StartedInOrder'
    <2>1. ASSUME NEW a \in JobIds, NEW b \in JobIds, Started(a)', b < a PROVE Started(b)'
      <3>1. CASE Started(a)
        BY <1>6, <2>1, <3>1 DEF OrderInv, StartedInOrder
      <3>2. CASE a = j /\ ~Started(j) /\ ~Started(b)
        <4>1. PICK i \in DOMAIN queue : queue[i] = b
          BY <3>2 DEF OrderInv, InQueue
        <4>2. i # 1 /\ 1 < i
          <5>1. b \in Nat /\ a \in Nat /\ b # j
            BY <1>1, <2>1, <3>2, JobFields
          <5>2. QED
            BY <1>3, <1>5, <4>1, <5>1
        <4>3. j < b
          BY <1>3, <1>5, <3>2, <4>1, <4>2 DEF OrderInv, QueueInOrder
        <4>4. QED
          BY <1>1, <1>2, <2>1, <3>2, <4>3, JobFields
      <3>3. QED
        BY <1>6, <2>1, <3>1, <3>2
    <2>2. QED
      BY <1>2, <2>1 DEF StartedInOrder
  <1>10. Ahead'
    <2>1. ASSUME NEW a \in JobIds, NEW b \in JobIds, b < a, Started(a)',
                 b \notin jobs'[a].beside, jobs'[b].attempts = 1
          PROVE  jobs'[b].state # "running"
      <3>1. CASE a = j
        <4>1. b # j /\ b \notin Running
          BY <1>1, <1>4, <2>1, <3>1, JobFields
        <4>2. QED
          BY <1>2, <4>1 DEF Running
      <3>2. CASE a # j /\ b = j
        <4>1. Started(b)
          BY <1>6, <2>1, <3>2 DEF OrderInv, StartedInOrder
        <4>2. QED
          BY <1>4, <2>1, <3>2, <4>1 DEF Started
      <3>3. CASE a # j /\ b # j
        BY <1>2, <1>6, <2>1, <3>3 DEF OrderInv, Ahead
      <3>4. QED
        BY <3>1, <3>2, <3>3
    <2>2. QED
      BY <1>2, <2>1 DEF Ahead
  <1>11. QED
    BY <1>7, <1>8, <1>9, <1>10 DEF OrderInv

LEMMA OrderStep ==
  ASSUME JobInv, OrderInv, [Next]_vars
  PROVE  OrderInv'
  <1>1. queue \in Seq(JobIds)
    BY DEF JobInv, JobType
  <1>2. QED
    BY <1>1, Grouped, RestingSteps, RestKeepsOrder, RequeueKeepsOrder, CreatedKeepsOrder,
       StartKeepsOrder

LEMMA InitOrder == Init => OrderInv
  <1> SUFFICES ASSUME Init PROVE OrderInv
    OBVIOUS
  <1>1. JobIds = {} /\ DOMAIN queue = {}
    BY DEF Init, JobIds
  <1>2. QED
    BY <1>1 DEF OrderInv, InQueue, QueueInOrder, StartedInOrder, Ahead

\* The jobs whose numbers the order is about keep what excuses them.
LEMMA ExcusesStay ==
  ASSUME JobInv, [Next]_vars, NEW j \in JobIds
  PROVE  /\ j \in JobIds' /\ jobs[j].beside \subseteq jobs'[j].beside
         /\ jobs[j].attempts > 1 => jobs'[j].attempts > 1
  <1>1. CASE OldJobsRest
    BY <1>1 DEF OldJobsRest
  <1>2. CASE StartJob
    <2>1. jobs \in Seq(Jobs)
      BY DEF JobInv, JobType
    <2>2. /\ JobIds' = JobIds /\ (j # Head(queue) => jobs'[j] = jobs[j])
          /\ j = Head(queue) =>
               jobs'[j] = [jobs[j] EXCEPT !.state = "running", !.attempts = @ + 1,
                                          !.beside = @ \union Running]
      BY <1>2, StartTakesHead
    <2>3. CASE j = Head(queue)
      <3>0. jobs'[j] = [jobs[j] EXCEPT !.state = "running", !.attempts = @ + 1,
                                       !.beside = @ \union Running]
        BY <2>2, <2>3
      <3>1. /\ jobs'[j].attempts = jobs[j].attempts + 1 /\ jobs[j].attempts \in Nat
            /\ jobs'[j].beside = jobs[j].beside \union Running
        BY <2>1, <3>0, JobFields DEF Jobs
      <3>2. QED
        BY <2>2, <3>1
    <2>4. QED
      BY <2>2, <2>3
  <1>3. QED
    BY <1>1, <1>2, Grouped, RestingSteps

LEMMA LateStep ==
  ASSUME JobInv, ReviewInv, OrderInv, LateReviewIsExcused, [Next]_vars
  PROVE  LateReviewIsExcused'
  <1>1. ASSUME NEW p \in PRs, NEW i \in DOMAIN reviews[p], NEW k \in DOMAIN reviews[p],
               i < k, reviews[p][i].of > reviews[p][k].of
        PROVE  LET newer == reviews[p][i].job
                   older == reviews[p][k].job
               IN  older > newer \/ jobs'[older].attempts > 1 \/ older \in jobs'[newer].beside
    <2>1. reviews[p][i].job \in JobIds /\ reviews[p][k].job \in JobIds
      BY ReviewFields
    <2>2. QED
      BY <1>1, <2>1, ExcusesStay DEF LateReviewIsExcused
  <1>2. CASE UNCHANGED reviews
    BY <1>1, <1>2 DEF LateReviewIsExcused
  <1>3. ASSUME NEW j \in JobIds, Post(j) PROVE LateReviewIsExcused'
    <2> DEFINE new == [of |-> jobs[j].event.n, job |-> j, attempt |-> jobs[j].attempts]
    <2>1. PICK p \in PRs : p = jobs[j].event.pr
      BY <1>3, PostedChanges
    <2>2. /\ \A q \in PRs : q # p => reviews'[q] = reviews[q]
          /\ Len(reviews'[p]) = Len(reviews[p]) + 1
          /\ \A i \in 1..Len(reviews[p]) : reviews'[p][i] = reviews[p][i]
          /\ reviews'[p][Len(reviews[p]) + 1] = new
          /\ reviews' \in [PRs -> Seq(Reviews)]
      BY <1>3, <2>1, PostAppends
    <2>3. /\ Len(reviews[p]) \in Nat /\ DOMAIN reviews[p] = 1..Len(reviews[p])
          /\ DOMAIN reviews'[p] = 1..Len(reviews[p]) + 1
      BY <2>2, ReviewFields
    <2>4. ASSUME NEW i \in 1..Len(reviews[p]), reviews[p][i].of > jobs[j].event.n
          PROVE  LET newer == reviews[p][i].job
                 IN  j > newer \/ jobs'[j].attempts > 1 \/ j \in jobs'[newer].beside
      <3> DEFINE newer == reviews[p][i].job
      <3>1. /\ newer \in JobIds /\ jobs[newer].event = [pr |-> p, n |-> reviews[p][i].of]
            /\ reviews[p][i].attempt \in 1..jobs[newer].last
        BY <2>3, ReviewFields
      <3>2. jobs[newer].last \in Nat /\ jobs[newer].attempts \in Nat
            /\ jobs[newer].last <= jobs[newer].attempts
        BY <3>1, JobFields DEF JobInv, JobType
      <3>3. Started(newer)
        BY <3>1, <3>2 DEF Started
      <3>4. newer # j
        <4>1. jobs[newer].event.n = reviews[p][i].of
          BY <3>1
        <4>2. jobs[j].event.n \in Nat
          BY <1>3, PostedChanges
        <4>3. QED
          BY <2>4, <4>1, <4>2
      <3>5. /\ jobs[j].state = "running" /\ jobs[j].attempts \in 1..MaxAttempts
            /\ jobs'[j].attempts = jobs[j].attempts
        BY <1>3, PostedChanges
      <3>6. newer \in Nat /\ j \in Nat
        BY <3>1, JobFields DEF JobInv, JobType
      <3>7. jobs[newer].beside \subseteq jobs'[newer].beside
        BY <3>1, ExcusesStay
      <3> HIDE DEF newer
      <3>8. j < newer /\ jobs[j].attempts = 1 => j \in jobs[newer].beside
        BY <3>1, <3>3, <3>5 DEF OrderInv, Ahead
      <3>9. j > newer \/ jobs'[j].attempts > 1 \/ j \in jobs'[newer].beside
        BY <3>4, <3>5, <3>6, <3>7, <3>8, AttemptsAssumption
      <3>10. QED
        BY <3>9 DEF newer
    <2>5. ASSUME NEW i \in DOMAIN reviews'[p], NEW k \in DOMAIN reviews'[p],
                 i < k, reviews'[p][i].of > reviews'[p][k].of
          PROVE  LET newer == reviews'[p][i].job
                     older == reviews'[p][k].job
                 IN  older > newer \/ jobs'[older].attempts > 1 \/ older \in jobs'[newer].beside
      <3>1. i \in 1..Len(reviews[p]) /\ reviews'[p][i] = reviews[p][i]
        BY <2>2, <2>3, <2>5
      <3>2. CASE k = Len(reviews[p]) + 1
        <4>1. reviews'[p][k].of = jobs[j].event.n /\ reviews'[p][k].job = j
          BY <2>2, <3>2
        <4>2. QED
          BY <2>4, <2>5, <3>1, <4>1
      <3>3. CASE k \in 1..Len(reviews[p])
        <4>1. reviews'[p][k] = reviews[p][k]
          BY <2>2, <3>3
        <4>2. LET newer == reviews[p][i].job
                  older == reviews[p][k].job
              IN  older > newer \/ jobs'[older].attempts > 1 \/ older \in jobs'[newer].beside
          BY <1>1, <2>3, <2>5, <3>1, <3>3, <4>1
        <4>3. QED
          BY <3>1, <4>1, <4>2
      <3>4. QED
        BY <2>3, <3>2, <3>3
    <2>6. ASSUME NEW q \in PRs, q # p, NEW i \in DOMAIN reviews'[q], NEW k \in DOMAIN reviews'[q],
                 i < k, reviews'[q][i].of > reviews'[q][k].of
          PROVE  LET newer == reviews'[q][i].job
                     older == reviews'[q][k].job
                 IN  older > newer \/ jobs'[older].attempts > 1 \/ older \in jobs'[newer].beside
      <3>1. reviews'[q] = reviews[q]
        BY <2>2, <2>6
      <3>2. QED
        BY <1>1, <2>6, <3>1
    <2>7. QED
      BY <2>5, <2>6 DEF LateReviewIsExcused
  <1>4. ASSUME Created \/ StartJob \/ Ended \/ \E j \in JobIds : Requeue(j) PROVE UNCHANGED reviews
    BY <1>4 DEF Created, StartJob, Ended, Requeue
  <1>5. QED
    BY <1>2, <1>3, <1>4, Grouped DEF Still

\* The review of an older head follows that of a newer one only if its job was
\* enqueued later, had failed before, or ran when the newer one started: for
\* any number of workers the queue keeps the order of the pushes otherwise.
THEOREM LateReviewsAreExcused == Spec => []LateReviewIsExcused
  <1>1. Init => LateReviewIsExcused
    BY DEF Init, LateReviewIsExcused
  <1>2. IInv /\ OrderInv /\ LateReviewIsExcused /\ [Next]_vars
          => IInv' /\ OrderInv' /\ LateReviewIsExcused'
    BY IInvStep, OrderStep, LateStep DEF IInv
  <1>3. QED
    BY InitIInv, InitOrder, <1>1, <1>2, PTL DEF Spec

-----------------------------------------------------------------------------
(* Each job does what JobPromise says.                                     *)

\* A job that is known, before and after a step that changes its entry.
LEMMA KnownMoves ==
  ASSUME JobInv, JobInv', NEW j \in JobIds, j \in JobIds',
         \/ UNCHANGED <<jobs[j].attempts, jobs[j].reviews, jobs[j].last, Phase(j)>>
         \/ /\ jobs[j].state = "waiting" /\ jobs'[j].state = "running"
            /\ jobs'[j].attempts = jobs[j].attempts + 1
            /\ UNCHANGED <<jobs[j].reviews, jobs[j].last>>
         \/ /\ jobs[j].state = "running" /\ jobs'[j].state = "running"
            /\ jobs[j].last # jobs[j].attempts
            /\ jobs'[j].reviews = jobs[j].reviews + 1 /\ jobs'[j].last = jobs[j].attempts
            /\ jobs'[j].attempts = jobs[j].attempts
         \/ /\ jobs[j].state = "running" /\ jobs'[j].state = "done"
            /\ jobs[j].last = jobs[j].attempts
            /\ UNCHANGED <<jobs[j].attempts, jobs[j].reviews, jobs[j].last>>
         \/ /\ jobs[j].state = "running"
            /\ jobs'[j].state = IF jobs[j].attempts < MaxAttempts THEN "scheduled" ELSE "failed"
            /\ UNCHANGED <<jobs[j].attempts, jobs[j].reviews, jobs[j].last>>
  PROVE  Promise(j)!Next \/ UNCHANGED Promise(j)!vars
  <1>1. Known(j) /\ Known(j)'
    BY DEF Known
  <1>2. jobs[j].state = "waiting" => jobs[j].attempts < MaxAttempts
    BY DEF JobInv, JobCounts, JobOK
  <1>3. CASE UNCHANGED <<jobs[j].attempts, jobs[j].reviews, jobs[j].last, Phase(j)>>
    BY <1>1, <1>3 DEF Promise!vars
  <1>4. CASE /\ jobs[j].state = "waiting" /\ jobs'[j].state = "running"
             /\ jobs'[j].attempts = jobs[j].attempts + 1
             /\ UNCHANGED <<jobs[j].reviews, jobs[j].last>>
    BY <1>1, <1>2, <1>4 DEF Promise!Next, Promise!Start, Phase
  <1>5. CASE /\ jobs[j].state = "running" /\ jobs'[j].state = "running"
             /\ jobs[j].last # jobs[j].attempts
             /\ jobs'[j].reviews = jobs[j].reviews + 1 /\ jobs'[j].last = jobs[j].attempts
             /\ jobs'[j].attempts = jobs[j].attempts
    BY <1>1, <1>5 DEF Promise!Next, Promise!Post, Phase
  <1>6. CASE /\ jobs[j].state = "running" /\ jobs'[j].state = "done"
             /\ jobs[j].last = jobs[j].attempts
             /\ UNCHANGED <<jobs[j].attempts, jobs[j].reviews, jobs[j].last>>
    BY <1>1, <1>6 DEF Promise!Next, Promise!Finish, Phase
  <1>7. CASE /\ jobs[j].state = "running"
             /\ jobs'[j].state = IF jobs[j].attempts < MaxAttempts THEN "scheduled" ELSE "failed"
             /\ UNCHANGED <<jobs[j].attempts, jobs[j].reviews, jobs[j].last>>
    BY <1>1, <1>7 DEF Promise!Next, Promise!Fail, Phase
  <1>8. QED
    BY <1>3, <1>4, <1>5, <1>6, <1>7

\* The attempt of a job ends with its review, or fails and is tried again
\* while attempts are left.
LEMMA EndMoves ==
  ASSUME JobInv, NEW j \in JobIds, Finish(j) \/ Fail(j)
  PROVE  /\ JobIds' = JobIds /\ \A k \in JobIds : k # j => jobs'[k] = jobs[k]
         /\ jobs[j].state = "running"
         /\ UNCHANGED <<jobs[j].attempts, jobs[j].reviews, jobs[j].last>>
         /\ \/ jobs'[j].state = "done" /\ jobs[j].last = jobs[j].attempts
            \/ jobs'[j].state = IF jobs[j].attempts < MaxAttempts THEN "scheduled" ELSE "failed"
  <1>1. PICK state \in {"done", "failed", "scheduled"} :
          /\ jobs' = [jobs EXCEPT ![j].state = state]
          /\ \/ state = "done" /\ jobs[j].last = jobs[j].attempts
             \/ state = IF jobs[j].attempts < MaxAttempts THEN "scheduled" ELSE "failed"
    BY DEF Finish, Fail, EndsAs, MayPost
  <1>2. j \in Running
    BY DEF Finish, Fail
  <1>3. /\ jobs[j].state = "running" /\ JobIds' = JobIds
        /\ jobs'[j] = [jobs[j] EXCEPT !.state = state]
        /\ \A k \in JobIds : k # j => jobs'[k] = jobs[k]
        /\ jobs'[j].state = state
    BY <1>1, <1>2, EndedChanges
  <1>4. UNCHANGED <<jobs[j].attempts, jobs[j].reviews, jobs[j].last>>
    BY <1>3, JobFields DEF Jobs, JobInv, JobType
  <1>5. QED
    BY <1>1, <1>3, <1>4

\* What a step does to a job that was enqueued before.
LEMMA JobMoves ==
  ASSUME JobInv, JobInv', [Next]_vars, NEW j \in JobIds
  PROVE  j \in JobIds' /\ (Promise(j)!Next \/ UNCHANGED Promise(j)!vars)
  <1>1. jobs \in Seq(Jobs) /\ queue \in Seq(JobIds) /\ j \in JobIds'
    BY JobsStay DEF JobInv, JobType
  <1>2. CASE jobs'[j] = jobs[j]
    <2>1. UNCHANGED <<jobs[j].attempts, jobs[j].reviews, jobs[j].last, Phase(j)>>
      BY <1>1, <1>2 DEF Phase, Known
    <2>2. QED
      BY <1>1, <2>1, KnownMoves
  <1>3. CASE Created
    BY <1>1, <1>2, <1>3, NewJobAppends DEF Created
  <1>4. CASE StartJob
    <2>1. CASE j = Head(queue)
      <3>1. /\ jobs[j].state = "waiting"
            /\ jobs'[j] = [jobs[j] EXCEPT !.state = "running", !.attempts = @ + 1,
                                         !.beside = @ \union Running]
        BY <1>4, <2>1, StartTakesHead
      <3>2. /\ jobs'[j].state = "running" /\ jobs'[j].attempts = jobs[j].attempts + 1
            /\ UNCHANGED <<jobs[j].reviews, jobs[j].last>>
        BY <1>1, <3>1, JobFields DEF Jobs
      <3>3. QED
        BY <1>1, <3>1, <3>2, KnownMoves
    <2>2. CASE j # Head(queue)
      BY <1>2, <1>4, <2>2, StartTakesHead
    <2>3. QED
      BY <2>1, <2>2
  <1>5. ASSUME NEW i \in JobIds, Post(i) PROVE Promise(j)!Next \/ UNCHANGED Promise(j)!vars
    <2>1. CASE j = i
      <3>1. jobs[j].last # jobs[j].attempts
        BY <1>5, <2>1 DEF Post, MayPost
      <3>2. QED
        BY <1>1, <1>5, <2>1, <3>1, PostedChanges, KnownMoves
    <2>2. CASE j # i
      BY <1>2, <1>5, <2>2, PostedChanges
    <2>3. QED
      BY <2>1, <2>2
  <1>6. ASSUME NEW i \in JobIds, Finish(i) \/ Fail(i)
        PROVE  Promise(j)!Next \/ UNCHANGED Promise(j)!vars
    <2>1. CASE j = i
      BY <1>1, <1>6, <2>1, EndMoves, KnownMoves
    <2>2. CASE j # i
      BY <1>2, <1>6, <2>2, EndMoves
    <2>3. QED
      BY <2>1, <2>2
  <1>7. ASSUME NEW i \in JobIds, Requeue(i)
        PROVE  Promise(j)!Next \/ UNCHANGED Promise(j)!vars
    <2>1. CASE j = i
      <3>1. UNCHANGED <<jobs[j].attempts, jobs[j].reviews, jobs[j].last>>
              /\ jobs[j].state = "scheduled" /\ jobs'[j].state = "waiting"
        BY <1>7, <2>1, RequeueAppends
      <3>2. UNCHANGED Phase(j)
        BY <1>1, <3>1 DEF Phase, Known
      <3>3. QED
        BY <1>1, <3>1, <3>2, KnownMoves
    <2>2. CASE j # i
      BY <1>2, <1>7, <2>2, RequeueAppends
    <2>3. QED
      BY <2>1, <2>2
  <1>8. CASE UNCHANGED jobs
    BY <1>2, <1>8
  <1>9. ASSUME ~ \/ Created \/ StartJob \/ UNCHANGED jobs
                 \/ \E i \in JobIds : Post(i) \/ Finish(i) \/ Fail(i) \/ Requeue(i)
        PROVE  FALSE
    <2>1. \/ \E p \in PRs : Push(p)
          \/ \E e \in Events : Deduplicate(e) \/ NotAdmitted(e) \/ Again(e)
          \/ \E e \in Events : Admit(e) \/ AdmitUnseen(e)
          \/ \E c \in Commits : Lapse(c)
          \/ UNCHANGED vars
      BY <1>9 DEF Next, Handle, Work
    <2>2. UNCHANGED jobs \/ \E e \in Events : Admit(e) \/ AdmitUnseen(e)
      BY <2>1 DEF Push, Deduplicate, NotAdmitted, Again, Lapse, vars
    <2>3. ASSUME NEW e \in Events, Admit(e) \/ AdmitUnseen(e) PROVE Created
      BY <2>3 DEF Admit, AdmitUnseen, Offered, Created
    <2>4. QED
      BY <1>9, <2>2, <2>3
  <1>10. QED
    BY <1>1, <1>3, <1>4, <1>5, <1>6, <1>7, <1>8, <1>9

\* A job that is not yet enqueued has not moved, nor has it when it is.
LEMMA UnknownStays ==
  ASSUME JobInv, JobInv', [Next]_vars, NEW j \in Nat, j \notin JobIds
  PROVE  UNCHANGED Promise(j)!vars
  <1>1. ~Known(j)
    BY DEF Known
  <1>2. CASE j \notin JobIds'
    BY <1>1, <1>2 DEF Known, Phase, Promise!vars
  <1>3. CASE j \in JobIds'
    <2>1. jobs \in Seq(Jobs) /\ queue \in Seq(JobIds)
      BY DEF JobInv, JobType
    <2>2. Created
      <3>1. ASSUME Still PROVE JobIds' = JobIds
        BY <3>1 DEF Still, JobIds
      <3>2. QED
        BY <1>3, <3>1, Grouped, StartTakesHead, EndedChanges, PostedChanges, RequeueAppends
           DEF Ended
    <2>3. PICK e \in Events : NewJob(e)
      BY <2>2 DEF Created
    <2>4. jobs'[j] = JobFor(e)
      BY <1>3, <2>1, <2>3, NewJobAppends
    <2>5. /\ jobs'[j].state = "waiting" /\ jobs'[j].attempts = 0 /\ jobs'[j].reviews = 0
          /\ jobs'[j].last = 0
      BY <2>4 DEF JobFor
    <2>6. QED
      BY <1>1, <1>3, <2>5 DEF Known, Phase, Promise!vars
  <1>4. QED
    BY <1>2, <1>3

\* Whatever the other jobs and workers do, each job does what JobPromise says,
\* which ReviewJob implements: it is attempted MaxAttempts times at most, and
\* ends as done only with a review of its last attempt.
THEOREM JobsKeepTheirPromise == Spec => JobsKeepPromise
  <1>1. 1..MaxJobs \subseteq Nat
    OBVIOUS
  <1>2. Init => \A j \in 1..MaxJobs : Promise(j)!Init
    <2> SUFFICES ASSUME Init, NEW j \in 1..MaxJobs PROVE Promise(j)!Init
      OBVIOUS
    <2>1. ~Known(j)
      BY DEF Init, Known, JobIds
    <2>2. QED
      BY <2>1 DEF Promise!Init, Phase
  <1>3. IInv /\ [Next]_vars => [\A j \in 1..MaxJobs : Promise(j)!Next \/ UNCHANGED Promise(j)!vars]_vars
    <2> SUFFICES ASSUME IInv, [Next]_vars, NEW j \in 1..MaxJobs
                 PROVE  Promise(j)!Next \/ UNCHANGED Promise(j)!vars
      OBVIOUS
    <2>1. JobInv /\ JobInv'
      BY IInvStep DEF IInv
    <2>2. QED
      BY <1>1, <2>1, JobMoves, UnknownStays
  <1>4. QED
    BY <1>2, <1>3, Invariance, PTL DEF Spec, JobsKeepPromise
-----------------------------------------------------------------------------
(* The jobs are not too many, and the work in front of them runs out.      *)

\* Every job but as many as there are locks held is paid for by a fault.
Paid == Len(jobs) <= Cardinality(locked) + faults

\* The lock lets no more jobs be created than MaxJobs says.
JobsAreFew == JobIds \subseteq 1..MaxJobs

LEMMA LockedIsFinite ==
  ASSUME LockType
  PROVE  /\ IsFiniteSet(locked) /\ Cardinality(locked) \in Nat
         /\ Cardinality(locked) <= Cardinality(Commits) /\ Cardinality(Commits) \in Nat
  BY CommitsAssumption, FS_Subset, FS_CardinalityType DEF LockType

\* A commit that was not locked makes one more.
LEMMA OneMoreLocked ==
  ASSUME LockType, NEW c \in Commits, c \notin locked
  PROVE  Cardinality(locked \union {c}) = Cardinality(locked) + 1
  BY LockedIsFinite, FS_AddElement

LEMMA PaidStep ==
  ASSUME IInv, Paid, [Next]_vars
  PROVE  Paid'
  <1> USE DEF Paid
  <1>1. /\ LockType /\ faults \in Nat /\ Len(jobs) \in Nat
        /\ jobs \in Seq(Jobs) /\ queue \in Seq(JobIds)
    BY DEF IInv, LockType, JobInv, JobType
  <1>2. IsFiniteSet(locked) /\ Cardinality(locked) \in Nat
    BY <1>1, LockedIsFinite
  <1>3. ASSUME NEW e \in Events, NewJob(e) PROVE Len(jobs') = Len(jobs) + 1
    BY <1>1, <1>3, NewJobAppends
  <1>4. ASSUME NEW e \in Events, Admit(e) PROVE Paid'
    <2>1. CommitOf(e) \in Commits
      BY EventFields
    <2>2. Cardinality(locked') = Cardinality(locked) + 1
      BY <1>1, <1>4, <2>1, OneMoreLocked DEF Admit
    <2> QED
      BY <1>1, <1>2, <1>3, <1>4, <2>2 DEF Admit
  <1>5. ASSUME NEW e \in Events, AdmitUnseen(e) PROVE Paid'
    <2>1. CommitOf(e) \in Commits
      BY EventFields
    <2>2. Cardinality(locked') \in {Cardinality(locked), Cardinality(locked) + 1}
      BY <1>1, <1>5, <2>1, OneMoreLocked DEF AdmitUnseen
    <2> QED
      BY <1>1, <1>2, <1>3, <1>5, <2>2 DEF AdmitUnseen, Fault
  <1>6. ASSUME NEW e \in Events, NotAdmitted(e) PROVE Paid'
    <2>1. CommitOf(e) \in Commits
      BY EventFields
    <2>2. Cardinality(locked') \in {Cardinality(locked), Cardinality(locked) + 1}
      BY <1>1, <1>6, <2>1, OneMoreLocked DEF NotAdmitted
    <2> QED
      BY <1>1, <1>2, <1>6, <2>2 DEF NotAdmitted, Fault
  <1>7. ASSUME NEW c \in Commits, Lapse(c) PROVE Paid'
    <2>1. Cardinality(locked') = Cardinality(locked) - 1
      BY <1>2, <1>7, FS_RemoveElement DEF Lapse
    <2> QED
      BY <1>1, <1>2, <1>7, <2>1 DEF Lapse, Fault
  <1>8. CASE /\ Len(jobs') = Len(jobs) /\ UNCHANGED locked
             /\ faults' \in Nat /\ faults <= faults'
    BY <1>1, <1>2, <1>8
  <1>9. ASSUME NEW p \in PRs, Push(p) PROVE Paid'
    BY <1>9 DEF Push
  <1>10. ASSUME NEW e \in Events, Deduplicate(e) \/ Again(e) PROVE Paid'
    BY <1>1, <1>8, <1>10 DEF Deduplicate, Again, Fault
  <1>11. ASSUME StartJob PROVE Paid'
    BY <1>1, <1>8, <1>11, StartTakesHead DEF StartJob, IInv
  <1>12. ASSUME NEW j \in JobIds, Post(j) PROVE Paid'
    BY <1>1, <1>8, <1>12, PostedChanges DEF Post, IInv
  <1>13. ASSUME NEW j \in JobIds, NEW state \in JobStates, EndsAs(j, state) PROVE Len(jobs') = Len(jobs)
    BY <1>1, <1>13, StateChanges DEF EndsAs
  <1>14. ASSUME NEW j \in JobIds, Finish(j) \/ Fail(j) PROVE Paid'
    <2>1. Len(jobs') = Len(jobs)
      BY <1>13, <1>14 DEF Finish, Fail, JobStates
    <2> QED
      BY <1>1, <1>8, <1>14, <2>1 DEF Finish, Fail, EndsAs, Fault
  <1>15. ASSUME NEW j \in JobIds, Requeue(j) PROVE Paid'
    BY <1>1, <1>8, <1>15, RequeueAppends DEF Requeue, IInv
  <1>16. CASE UNCHANGED vars
    BY <1>16 DEF vars
  <1> QED
    BY <1>4, <1>5, <1>6, <1>7, <1>9, <1>10, <1>11, <1>12, <1>14, <1>15, <1>16 DEF Next, Handle, Work

\* However events are handled, delivered again and replayed, no more review
\* jobs are created than there are commits and faults: the jobs fairness and
\* JobsKeepPromise speak of are all.
THEOREM JobsAreBounded == Spec => []JobsAreFew
  <1>1. Init => Paid
    BY LockedIsFinite, InitIInv, FS_EmptySet DEF Init, Paid, IInv
  <1>2. IInv /\ Paid /\ [Next]_vars => Paid'
    BY PaidStep
  <1>3. IInv /\ Paid => JobsAreFew
    <2> SUFFICES ASSUME IInv, Paid PROVE JobsAreFew
      OBVIOUS
    <2>1. /\ LockType /\ faults \in 0..MaxFaults /\ Len(jobs) \in Nat
      BY DEF IInv, LockType, JobInv, JobType
    <2> QED
      BY <2>1, LockedIsFinite, FaultsAssumption DEF Paid, JobsAreFew, JobIds, MaxJobs
  <1> QED
    BY <1>1, <1>2, <1>3, Invariance, PTL DEF Spec

\* The moves an event has in front of it: to be sent, and to be handled.
EventLeft(e) ==
  CASE events[e] = "unsent" -> 2
    [] Offered(e)           -> 1
    [] OTHER                -> 0

\* The moves of a job, four for each attempt.
JobLeft(j) ==
  LET later == 4 * (MaxAttempts - jobs[j].attempts) IN
  CASE jobs[j].state = "waiting"   -> later
    [] jobs[j].state = "scheduled" -> later + 1
    [] jobs[j].state = "running"   -> later + (IF MayPost(j) THEN 3 ELSE 2)
    [] OTHER                       -> 0

WorkCounted ==
  /\ \A e \in Events : EventLeft(e) \in 0..2
  /\ \A j \in JobIds : JobLeft(j) \in 0..4 * MaxAttempts

\* A fault, one event that moves, or one job, while all others stay.
Advances ==
  \/ faults' = faults + 1
  \/ /\ UNCHANGED faults
     /\ \E e \in Events :
          /\ EventLeft(e)' < EventLeft(e)
          /\ \A f \in Events \ {e} : EventLeft(f)' = EventLeft(f)
  \/ /\ UNCHANGED <<faults, events, JobIds>>
     /\ \E j \in JobIds :
          /\ JobLeft(j)' < JobLeft(j)
          /\ \A k \in JobIds \ {j} : JobLeft(k)' = JobLeft(k)

LEMMA WorkIsCounted == IInv => WorkCounted
  <1> SUFFICES ASSUME IInv PROVE WorkCounted
    OBVIOUS
  <1>1. \A e \in Events : EventLeft(e) \in 0..2
    BY DEF EventLeft, Offered
  <1>2. ASSUME NEW j \in JobIds PROVE JobLeft(j) \in 0..4 * MaxAttempts
    <2>1. jobs \in Seq(Jobs) /\ JobOK(j)
      BY DEF IInv, JobInv, JobType, JobCounts
    <2>2. jobs[j].attempts \in 0..MaxAttempts /\ MaxAttempts \in Nat
      BY <2>1, JobFields, AttemptsAssumption
    <2>3. /\ jobs[j].state = "scheduled" => jobs[j].attempts < MaxAttempts
          /\ jobs[j].state \in {"running", "scheduled"} => jobs[j].attempts > 0
      BY <2>1 DEF JobOK
    <2> DEFINE later == 4 * (MaxAttempts - jobs[j].attempts)
    <2>4. CASE jobs[j].state = "running"
      <3>1. JobLeft(j) \in {later + 2, later + 3}
        BY <2>4 DEF JobLeft
      <3> QED
        BY <2>2, <2>3, <2>4, <3>1
    <2>5. CASE jobs[j].state = "scheduled"
      <3>1. JobLeft(j) = later + 1
        BY <2>5 DEF JobLeft
      <3> QED
        BY <2>2, <2>3, <2>5, <3>1
    <2>6. CASE jobs[j].state = "waiting"
      <3>1. JobLeft(j) = later
        BY <2>6 DEF JobLeft
      <3> QED
        BY <2>2, <3>1
    <2>7. CASE jobs[j].state \notin {"running", "scheduled", "waiting"}
      <3>1. JobLeft(j) = 0
        BY <2>7 DEF JobLeft
      <3> QED
        BY <2>2, <3>1
    <2> QED
      BY <2>4, <2>5, <2>6, <2>7
  <1> QED
    BY <1>1, <1>2 DEF WorkCounted

\* A job that a step does not touch has as much in front of it as before.
LEMMA OthersStay ==
  ASSUME JobIds' = JobIds, NEW k \in JobIds, jobs'[k] = jobs[k]
  PROVE  JobLeft(k)' = JobLeft(k)
  BY DEF JobLeft, MayPost, Running

\* The moves of the one that a step touches.
LEMMA OneJobAdvances ==
  ASSUME IInv, IInv', NEW j \in JobIds, JobIds' = JobIds, UNCHANGED <<faults, events>>,
         \A k \in JobIds : k # j => jobs'[k] = jobs[k],
         \/ /\ jobs[j].state = "waiting" /\ jobs'[j].state = "running"
            /\ jobs'[j].attempts = jobs[j].attempts + 1
         \/ /\ jobs[j].state = "running" /\ jobs'[j].state = "running"
            /\ jobs'[j].attempts = jobs[j].attempts
            /\ jobs[j].last # jobs[j].attempts /\ jobs'[j].last = jobs[j].attempts
         \/ jobs[j].state = "running" /\ jobs'[j].state = "done"
         \/ /\ jobs[j].state = "scheduled" /\ jobs'[j].state = "waiting"
            /\ jobs'[j].attempts = jobs[j].attempts
  PROVE  Advances
  <1>1. /\ jobs[j].attempts \in 0..MaxAttempts /\ jobs'[j].attempts \in 0..MaxAttempts
        /\ MaxAttempts \in Nat
    <2>1. jobs \in Seq(Jobs) /\ jobs' \in Seq(Jobs) /\ j \in DOMAIN jobs'
      BY DEF IInv, JobInv, JobType, JobIds
    <2>2. jobs'[j] \in Jobs
      BY <2>1
    <2> QED
      BY <2>1, <2>2, JobFields, AttemptsAssumption DEF Jobs
  <1>2. JobLeft(j)' < JobLeft(j)
    <2>1. MayPost(j)' => jobs'[j].state = "running" /\ jobs'[j].last # jobs'[j].attempts
      BY DEF MayPost, Running
    <2>2. jobs[j].state = "running" /\ jobs[j].last # jobs[j].attempts => MayPost(j)
      BY DEF MayPost, Running
    <2> QED
      BY <1>1, <2>1, <2>2 DEF JobLeft
  <1>3. \A k \in JobIds \ {j} : JobLeft(k)' = JobLeft(k)
    BY OthersStay
  <1> QED
    BY <1>2, <1>3 DEF Advances

LEMMA StepAdvances ==
  ASSUME IInv, IInv', Next
  PROVE  Advances
  <1>1. /\ jobs \in Seq(Jobs) /\ queue \in Seq(JobIds) /\ JobInv
        /\ events \in [Events -> EventStates] /\ EventsPushed /\ HeadType
    BY DEF IInv, JobInv, JobType, HeadType
  <1>2. ASSUME NEW e \in Events, NEW s, UNCHANGED faults,
               events' = [events EXCEPT ![e] = s],
               \/ events[e] = "unsent" /\ s = "sent"
               \/ Offered(e) /\ s \in {"admitted", "deduplicated"}
        PROVE  Advances
    <2>1. events'[e] = s /\ \A f \in Events \ {e} : events'[f] = events[f]
      BY <1>1, <1>2
    <2>2. EventLeft(e)' < EventLeft(e) /\ \A f \in Events \ {e} : EventLeft(f)' = EventLeft(f)
      BY <1>2, <2>1 DEF EventLeft, Offered
    <2> QED
      BY <1>2, <2>2 DEF Advances
  <1>3. ASSUME NEW p \in PRs, Push(p) PROVE Advances
    <2> DEFINE pushed == [pr |-> p, n |-> head'[p]]
    <2>1. Pushes[p] \in Seq(Commits)
      BY PushesAssumption
    <2>2. head'[p] = head[p] + 1 /\ head[p] \in Nat /\ head'[p] \in DOMAIN Pushes[p]
      BY <1>1, <1>3, <2>1 DEF Push, HeadType
    <2>3. pushed \in Events /\ pushed.pr = p /\ pushed.n = head'[p]
      BY <2>2 DEF Events
    <2>4. events[pushed] = "unsent"
      BY <1>1, <2>2, <2>3 DEF EventsPushed
    <2> QED
      BY <1>2, <1>3, <2>3, <2>4 DEF Push
  <1>4. ASSUME NEW e \in Events, Handle(e) PROVE Advances
    BY <1>2, <1>4 DEF Handle, Admit, Deduplicate
  <1>5. ASSUME NEW e \in Events, AdmitUnseen(e) \/ NotAdmitted(e) \/ Again(e) PROVE Advances
    BY <1>5 DEF AdmitUnseen, NotAdmitted, Again, Fault, Advances
  <1>6. ASSUME NEW c \in Commits, Lapse(c) PROVE Advances
    BY <1>6 DEF Lapse, Fault, Advances
  <1>7. ASSUME StartJob PROVE Advances
    <2> DEFINE j == Head(queue)
    <2>1. /\ j \in JobIds /\ jobs[j].state = "waiting" /\ JobIds' = JobIds
          /\ jobs'[j] = [jobs[j] EXCEPT !.state = "running", !.attempts = @ + 1,
                                       !.beside = @ \union Running]
          /\ \A k \in JobIds : k # j => jobs'[k] = jobs[k]
      BY <1>1, <1>7, StartTakesHead
    <2>2. jobs'[j].state = "running" /\ jobs'[j].attempts = jobs[j].attempts + 1
      BY <1>1, <2>1, JobFields DEF Jobs
    <2>3. UNCHANGED <<faults, events>>
      BY <1>7 DEF StartJob
    <2> HIDE DEF j
    <2> QED
      BY <2>1, <2>2, <2>3, OneJobAdvances
  <1>8. ASSUME NEW j \in JobIds, Post(j) PROVE Advances
    <2>1. jobs[j].last # jobs[j].attempts /\ UNCHANGED <<faults, events>>
      BY <1>8 DEF Post, MayPost
    <2> QED
      BY <1>1, <1>8, <2>1, PostedChanges, OneJobAdvances
  <1>9. ASSUME NEW j \in JobIds, Finish(j) PROVE Advances
    <2>1. jobs'[j].state = "done" /\ UNCHANGED <<faults, events>>
      BY <1>9, <1>1, EndedChanges DEF Finish, EndsAs
    <2> QED
      BY <1>1, <1>9, <2>1, EndMoves, OneJobAdvances
  <1>10. ASSUME NEW j \in JobIds, Fail(j) PROVE Advances
    BY <1>10 DEF Fail, Fault, Advances
  <1>11. ASSUME NEW j \in JobIds, Requeue(j) PROVE Advances
    <2>1. UNCHANGED <<faults, events>>
      BY <1>11 DEF Requeue
    <2> QED
      BY <1>1, <1>11, <2>1, RequeueAppends, OneJobAdvances
  <1> QED
    BY <1>3, <1>4, <1>5, <1>6, <1>7, <1>8, <1>9, <1>10, <1>11 DEF Next, Work

\* Nothing goes round in circles: every step is one of boundedly many faults,
\* or moves one event or one job towards its end and none of the others away
\* from it.  Heads, and the jobs of JobsAreBounded, are finitely many, so what
\* HeadsAreReviewed needs besides is only that the steps are taken.
THEOREM WorkRunsOut == Spec => []WorkCounted /\ [][Advances]_vars
  <1>1. IInv /\ [Next]_vars => IInv'
    BY IInvStep
  <1>2. IInv /\ IInv' /\ [Next]_vars => [Advances]_vars
    BY StepAdvances
  <1> QED
    BY <1>1, <1>2, Invariance, WorkIsCounted, PTL DEF Spec
=============================================================================
