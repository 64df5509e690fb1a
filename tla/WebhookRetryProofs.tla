------------------------- MODULE WebhookRetryProofs -------------------------
(***************************************************************************)
(* The type invariant of WebhookRetry, that a commit is reviewed once per  *)
(* excuse and admitted by one process at a time, and its refinement of     *)
(* ReviewAdmission, for any number of processes, deliveries, keys and      *)
(* retry jobs.                                                             *)
(*                                                                         *)
(* The type invariant is not inductive by itself: that attempt stays in    *)
(* 0..MaxAttempts depends on what RQ has left to give the job, and that    *)
(* the frame of a process holds an event where one is read depends on what *)
(* it runs.  Shape adds                                                    *)
(*   FrameOK   which labels, event and job go with each role;              *)
(*   JobOK     attempts made plus retries left stay below MaxAttempts      *)
(*             while a job waits, and a job is queued at most once;        *)
(*   RunOK     a job is run by one worker, and its attempt is counted once.*)
(***************************************************************************)
EXTENDS WebhookRetry, FiniteSetTheorems, SequenceTheorems, TLAPS

\* The labels of a process inside enqueue_review_event.
OnceLabels == {"setnx", "expire", "enqueue", "release", "return"}

\* Each role of a process goes with its labels, and with an event or a job.
FrameOK ==
  \A p \in Procs :
    /\ role[p] = "none" => pc[p] = "idle"
    /\ role[p] \in {"webhook", "replay"}
         => p \in Apis /\ event[p] \in Deliveries /\ pc[p] \in OnceLabels \union {"persist"}
    /\ role[p] = "replay" => plan[p] # <<>>
    /\ role[p] = "clear" => p \in Apis /\ pc[p] = "delete"
    /\ role[p] = "review" => p \in Workers /\ pc[p] = "review"
    /\ role[p] = "retry"
         => p \in Workers /\ event[p] \in Deliveries /\ job[p] \in JobIds
              /\ pc[p] \in OnceLabels \union {"meta", "incr", "hincrby"}

\* A job that waits, queued or scheduled, has an attempt left, and the retry
\* queue holds a job at most once.
JobOK ==
  /\ \A j \in JobIds :
       /\ jobState[j] = "none" => attempt[j] = 0
       /\ jobState[j] # "none" => jobEvent[j] \in Deliveries
       /\ jobState[j] \in {"queued", "scheduled"} => attempt[j] + retriesLeft[j] < MaxAttempts
  /\ \A i \in 1..Len(retryQ) : jobState[retryQ[i]] = "queued"
  /\ \A i, n \in 1..Len(retryQ) : retryQ[i] = retryQ[n] => i = n

\* One worker at a time runs a job; once SaveAttempt is done its attempt is
\* counted.
RunOK ==
  /\ \A w \in Procs : role[w] = "retry" =>
       LET j == job[w] IN
         /\ jobState[j] = "started"
         /\ pc[w] = "meta" => attempt[j] + retriesLeft[j] < MaxAttempts
         /\ pc[w] # "meta" => attempt[j] > 0 /\ attempt[j] + retriesLeft[j] <= MaxAttempts
  /\ \A v, w \in Procs :
       role[v] = "retry" /\ role[w] = "retry" /\ job[v] = job[w] => v = w

\* The inductive invariant.
Shape == TypeOK /\ FrameOK /\ JobOK /\ RunOK

\* The first state has it.
LEMMA InitShape == Init => Shape
  <1> SUFFICES ASSUME Init PROVE Shape
    OBVIOUS
  <1> USE KeyOfAssumption, AttemptsAssumption, BoundAssumption DEF Init
  <1>1. TypeOK
    BY DEF TypeOK, LockType, ReviewType, JobType, DlqType, ProcType,
           PcLabels, Roles, Results
  <1>2. FrameOK
    BY DEF FrameOK
  <1>3. JobOK
    BY DEF JobOK
  <1>4. RunOK
    BY DEF RunOK
  <1>5. QED
    BY <1>1, <1>2, <1>3, <1>4 DEF Shape

\* What a step leaves alone keeps its type.
LEMMA SameTypes ==
  /\ UNCHANGED lockVars /\ LockType => LockType'
  /\ UNCHANGED reviewVars /\ ReviewType => ReviewType'
  /\ UNCHANGED jobVars /\ JobType => JobType'
  /\ UNCHANGED dlqVars /\ DlqType => DlqType'
  /\ UNCHANGED procVars /\ ProcType => ProcType'
  BY DEF lockVars, reviewVars, jobVars, dlqVars, procVars, frame,
         LockType, ReviewType, JobType, DlqType, ProcType

\* The three ways a process moves keep the types of its frame: to its next
\* command,
LEMMA GotoType ==
  ASSUME NEW p \in Procs, NEW l \in PcLabels, ProcType, Goto(p, l)
  PROVE  ProcType'
  BY DEF ProcType, Goto, frame

\* out of a call with a result,
LEMMA ReturnType ==
  ASSUME NEW p \in Procs, NEW r \in Results, ProcType, Return(p, r)
  PROVE  ProcType'
  BY DEF ProcType, Return, frame, PcLabels

\* and back to idle.
LEMMA RestType ==
  ASSUME NEW p \in Procs, ProcType, Rest(p)
  PROVE  ProcType'
  BY DEF ProcType, Rest, PcLabels, Results, Roles

\* A process inside enqueue_review_event has an event, and so a lock to take.
LEMMA CallKey ==
  ASSUME Shape, NEW p \in Procs,
         pc[p] \in {"setnx", "expire", "enqueue", "release", "persist", "return"}
  PROVE  /\ event[p] \in Deliveries /\ Key(p) \in Keys
         /\ role[p] \in {"webhook", "replay", "retry"}
  BY KeyOfAssumption DEF Shape, TypeOK, ProcType, Roles, FrameOK, Key

\* A step inside enqueue_review_event keeps roles and jobs as they are.
LEMMA CallStep ==
  ASSUME Shape, NEW p \in Procs, role[p] \in {"webhook", "replay", "retry"},
         pc[p] # "meta", UNCHANGED <<frame, jobVars>>,
         NEW l \in OnceLabels \union {"persist"}, l = "persist" => p \in Apis,
         pc' = [pc EXCEPT ![p] = l]
  PROVE  FrameOK' /\ JobOK' /\ RunOK'
  <1> USE DEF Shape, TypeOK, ProcType, frame, jobVars, Procs
  <1>1. FrameOK'
    BY ProcessAssumption DEF FrameOK, OnceLabels
  <1>2. JobOK'
    BY DEF JobOK
  <1>3. RunOK'
    BY DEF RunOK, OnceLabels
  <1>4. QED
    BY <1>1, <1>2, <1>3

\* A process that ends what it runs disturbs no other.
LEMMA RestStep ==
  ASSUME Shape, NEW p \in Procs, Rest(p)
  PROVE  FrameOK' /\ (UNCHANGED jobVars => JobOK' /\ RunOK')
  <1> USE DEF Shape, TypeOK, ProcType, Rest, jobVars
  <1>1. FrameOK'
    BY DEF FrameOK
  <1>2. UNCHANGED jobVars => JobOK'
    BY DEF JobOK
  <1>3. UNCHANGED jobVars => RunOK'
    BY DEF RunOK
  <1>4. QED
    BY <1>1, <1>2, <1>3

\* A process that begins a request or a review disturbs no retry job.
LEMMA StartStep ==
  ASSUME Shape, NEW p \in Procs, UNCHANGED jobVars, UNCHANGED <<status, job>>,
         NEW r \in {"webhook", "replay", "clear", "review"}, role' = [role EXCEPT ![p] = r],
         ProcType', pc[p] = "idle",
         \A q \in Procs \ {p} : pc'[q] = pc[q] /\ event'[q] = event[q] /\ plan'[q] = plan[q]
  PROVE  JobOK' /\ RunOK'
  <1> USE DEF Shape, TypeOK, ProcType, jobVars
  <1>1. JobOK'
    BY DEF JobOK
  <1>2. RunOK'
    BY DEF RunOK
  <1>3. QED
    BY <1>1, <1>2

\* A retry job that returns is out of the way of every other.
LEMMA JobDoneStep ==
  ASSUME Shape, NEW w \in Procs, role[w] = "retry", JobDone(w)
  PROVE  JobType' /\ ProcType' /\ FrameOK' /\ JobOK' /\ RunOK'
  <1> USE DEF Shape, TypeOK, JobDone
  <1>1. FrameOK' /\ ProcType'
    BY RestStep, RestType
  <1>2. JobType'
    BY DEF JobType
  <1>3. job[w] \in JobIds /\ jobState[job[w]] = "started"
    BY DEF FrameOK, RunOK
  <1>4. JobOK'
    BY <1>3 DEF JobOK, JobType
  <1>5. RunOK'
    BY <1>3 DEF RunOK, FrameOK, JobType, ProcType, Rest
  <1>6. QED
    BY <1>1, <1>2, <1>4, <1>5

\* A retry job that raises, or whose work horse dies, gives RQ one of its
\* retries back for the attempt it made: the sum of both does not grow.
LEMMA JobFailsStep ==
  ASSUME Shape, NEW w \in Procs, role[w] = "retry", JobFails(w),
         \/ attempt' = attempt
         \/ pc[w] = "meta" /\ attempt' = [attempt EXCEPT ![job[w]] = @ + 1]
         \/ pc[w] # "meta" /\ attempt' = [attempt EXCEPT ![job[w]] = @ - 1]
  PROVE  JobType' /\ ProcType' /\ FrameOK' /\ JobOK' /\ RunOK'
  <1> USE AttemptsAssumption DEF Shape, TypeOK, JobFails
  <1>1. FrameOK' /\ ProcType'
    BY RestStep, RestType
  <1>2. job[w] \in JobIds /\ jobState[job[w]] = "started"
    BY DEF FrameOK, RunOK
  <1>3. /\ pc[w] = "meta" => attempt[job[w]] + retriesLeft[job[w]] < MaxAttempts
        /\ pc[w] # "meta" => /\ attempt[job[w]] > 0
                             /\ attempt[job[w]] + retriesLeft[job[w]] <= MaxAttempts
    BY DEF RunOK
  <1>4. JobType'
    <2>1. attempt[job[w]] \in 0..MaxAttempts /\ retriesLeft[job[w]] \in 0..MaxAttempts - 1
      BY <1>2 DEF JobType
    <2>2. attempt' \in [JobIds -> 0..MaxAttempts]
      <3>1. attempt \in [JobIds -> 0..MaxAttempts]
        BY DEF JobType
      <3>2. pc[w] = "meta" => attempt[job[w]] + 1 \in 0..MaxAttempts
        BY <1>3, <2>1
      <3>3. pc[w] # "meta" => attempt[job[w]] - 1 \in 0..MaxAttempts
        BY <1>3, <2>1
      <3> HIDE DEF Shape, TypeOK, JobFails
      <3>4. QED
        BY <1>2, <3>1, <3>2, <3>3
    <2>3. retriesLeft' \in [JobIds -> 0..MaxAttempts - 1]
      <3>1. CASE retriesLeft[job[w]] > 0
        BY <1>2, <2>1, <3>1 DEF JobType
      <3>2. CASE ~(retriesLeft[job[w]] > 0)
        BY <1>2, <2>1, <3>2 DEF JobType
      <3>3. QED
        BY <3>1, <3>2
    <2>4. QED
      BY <1>2, <2>2, <2>3 DEF JobType
  <1>5. \A j \in JobIds \ {job[w]} :
          attempt'[j] = attempt[j] /\ retriesLeft'[j] = retriesLeft[j] /\ jobState'[j] = jobState[j]
    BY DEF JobType
  <1>6. /\ jobState'[job[w]] \in {"scheduled", "failed"}
        /\ jobState'[job[w]] = "scheduled" => attempt'[job[w]] + retriesLeft'[job[w]] < MaxAttempts
    BY <1>2, <1>3 DEF JobType
  <1>7. JobOK'
    <2>1. \A i \in 1..Len(retryQ) : retryQ[i] \in JobIds \ {job[w]}
      BY <1>2, ElementOfSeq DEF JobOK, JobType
    <2>2. \A i \in 1..Len(retryQ) : jobState'[retryQ[i]] = "queued"
      BY <1>5, <2>1 DEF JobOK
    <2>3. \A j \in JobIds :
            /\ jobState'[j] = "none" => attempt'[j] = 0
            /\ jobState'[j] # "none" => jobEvent[j] \in Deliveries
            /\ jobState'[j] \in {"queued", "scheduled"}
                 => attempt'[j] + retriesLeft'[j] < MaxAttempts
      <3>1. ASSUME NEW j \in JobIds, j = job[w]
            PROVE  /\ jobState'[j] \in {"scheduled", "failed"} /\ jobEvent[j] \in Deliveries
                   /\ jobState'[j] = "scheduled" => attempt'[j] + retriesLeft'[j] < MaxAttempts
        BY <1>2, <1>6, <3>1 DEF JobOK
      <3>2. QED
        BY <1>5, <3>1 DEF JobOK
    <2>4. QED
      BY <2>2, <2>3 DEF JobOK
  <1>8. RunOK'
    BY <1>2, <1>5 DEF RunOK, FrameOK, ProcType, Rest
  <1>9. QED
    BY <1>1, <1>4, <1>7, <1>8

\* The steps of _enqueue_review_once and their faults, of any process.
LEMMA OnceShape ==
  ASSUME Shape, NEW p \in Procs, Once(p) \/ OnceFails(p)
  PROVE  Shape'
  <1> USE BoundAssumption DEF NoFault, Fault, OnceLabels
  <1>1. ASSUME LockType', ReviewType', ProcType', UNCHANGED <<frame, jobVars, dlqVars, resp>>,
               faults' \in 0..MaxFaults, pc[p] \in {"setnx", "expire", "enqueue", "release"},
               NEW l \in OnceLabels \union {"persist"}, l = "persist" => p \in Apis,
               pc' = [pc EXCEPT ![p] = l]
        PROVE  Shape'
    <2>1. role[p] \in {"webhook", "replay", "retry"}
      BY <1>1, CallKey
    <2>2. FrameOK' /\ JobOK' /\ RunOK'
      BY <1>1, <2>1, CallStep
    <2>3. TypeOK'
      BY <1>1, SameTypes DEF TypeOK, Shape
    <2>4. QED
      BY <2>2, <2>3 DEF Shape
  <1>2. CASE Acquire(p)
    <2>1. /\ pc[p] \in {"setnx", "expire", "enqueue", "release"}
          /\ Key(p) \in Keys /\ event[p] \in Deliveries
      BY <1>2, CallKey DEF Acquire
    <2>2. LockType'
      BY <1>2, <2>1 DEF Acquire, Shape, TypeOK, LockType
    <2>3. ReviewType'
      BY <1>2, SameTypes DEF Acquire, Shape, TypeOK, lockVars
    <2>4. ProcType'
      BY <1>2, GotoType DEF Acquire, Shape, TypeOK, PcLabels
    <2>5. QED
      BY <1>1, <1>2, <2>1, <2>2, <2>3, <2>4 DEF Acquire, Goto, Shape, TypeOK
  <1>3. CASE Deduplicate(p)
    <2>1. /\ pc[p] \in {"setnx", "expire", "enqueue", "release"}
          /\ Key(p) \in Keys /\ event[p] \in Deliveries
      BY <1>3, CallKey DEF Deduplicate
    <2>2. ReviewType'
      BY <1>3, <2>1 DEF Deduplicate, Shape, TypeOK, ReviewType
    <2>3. LockType'
      BY <1>3, SameTypes DEF Deduplicate, Shape, TypeOK, lockVars
    <2>4. ProcType'
      BY <1>3, ReturnType DEF Deduplicate, Shape, TypeOK, Results
    <2>5. QED
      BY <1>1, <1>3, <2>1, <2>2, <2>3, <2>4 DEF Deduplicate, Return, Shape, TypeOK
  <1>4. CASE AcquireFails(p)
    <2>1. /\ pc[p] \in {"setnx", "expire", "enqueue", "release"}
          /\ Key(p) \in Keys /\ event[p] \in Deliveries
      BY <1>4, CallKey DEF AcquireFails
    <2>2. LockType'
      BY <1>4, <2>1 DEF AcquireFails, Shape, TypeOK, LockType
    <2>3. ReviewType'
      BY <1>4, SameTypes DEF AcquireFails, Shape, TypeOK, lockVars
    <2>4. ProcType'
      BY <1>4, ReturnType DEF AcquireFails, Shape, TypeOK, Results
    <2>5. QED
      BY <1>1, <1>4, <2>1, <2>2, <2>3, <2>4 DEF AcquireFails, Return, Shape, TypeOK
  <1>5. CASE SetExpiry(p)
    <2>1. /\ pc[p] \in {"setnx", "expire", "enqueue", "release"}
          /\ Key(p) \in Keys /\ event[p] \in Deliveries
      BY <1>5, CallKey DEF SetExpiry
    <2>2. LockType'
      BY <1>5, <2>1 DEF SetExpiry, Shape, TypeOK, LockType, WithExpiry
    <2>3. ReviewType'
      BY <1>5, SameTypes DEF SetExpiry, Shape, TypeOK, lockVars
    <2>4. ProcType'
      BY <1>5, GotoType DEF SetExpiry, Shape, TypeOK, PcLabels
    <2>5. QED
      BY <1>1, <1>5, <2>1, <2>2, <2>3, <2>4 DEF SetExpiry, Goto, Shape, TypeOK
  <1>6. CASE SetExpiryFails(p)
    <2>1. /\ pc[p] \in {"setnx", "expire", "enqueue", "release"}
          /\ Key(p) \in Keys /\ event[p] \in Deliveries
      BY <1>6, CallKey DEF SetExpiryFails
    <2>2. LockType'
      BY <1>6, <2>1 DEF SetExpiryFails, Shape, TypeOK, LockType, WithExpiry
    <2>3. ReviewType'
      BY <1>6, SameTypes DEF SetExpiryFails, Shape, TypeOK, lockVars
    <2>4. ProcType'
      BY <1>6, ReturnType DEF SetExpiryFails, Shape, TypeOK, Results
    <2>5. QED
      BY <1>1, <1>6, <2>1, <2>2, <2>3, <2>4 DEF SetExpiryFails, Return, Shape, TypeOK
  <1>7. CASE Enqueue(p)
    <2>1. /\ pc[p] \in {"setnx", "expire", "enqueue", "release"}
          /\ Key(p) \in Keys /\ event[p] \in Deliveries
      BY <1>7, CallKey DEF Enqueue
    <2>2. ReviewType'
      BY <1>7, <2>1 DEF Enqueue, Shape, TypeOK, ReviewType
    <2>3. LockType'
      BY <1>7, SameTypes DEF Enqueue, Shape, TypeOK, lockVars
    <2>4. ProcType'
      BY <1>7, ReturnType DEF Enqueue, Shape, TypeOK, Results
    <2>5. QED
      BY <1>1, <1>7, <2>1, <2>2, <2>3, <2>4 DEF Enqueue, Return, Shape, TypeOK
  <1>8. CASE EnqueueFails(p)
    <2>1. /\ pc[p] \in {"setnx", "expire", "enqueue", "release"}
          /\ Key(p) \in Keys /\ event[p] \in Deliveries
      BY <1>8, CallKey DEF EnqueueFails
    <2>2. ReviewType'
      <3>1. CASE UNCHANGED reviewVars
        BY <3>1, SameTypes DEF Shape, TypeOK
      <3>2. CASE ~UNCHANGED reviewVars
        <4>1. /\ reviewQ' = Append(reviewQ, event[p]) /\ presumed' = presumed
              /\ enqueued' = [enqueued EXCEPT ![Key(p)] = @ + 1]
              /\ lostReplies' = [lostReplies EXCEPT ![Key(p)] = @ + 1]
          BY <1>8, <3>2 DEF EnqueueFails
        <4>2. QED
          BY <2>1, <4>1 DEF Shape, TypeOK, ReviewType
      <3>3. QED
        BY <3>1, <3>2
    <2>3. LockType'
      BY <1>8, SameTypes DEF EnqueueFails, Shape, TypeOK, lockVars
    <2>4. ProcType'
      BY <1>8, GotoType DEF EnqueueFails, Shape, TypeOK, PcLabels
    <2>5. QED
      BY <1>1, <1>8, <2>1, <2>2, <2>3, <2>4 DEF EnqueueFails, Goto, Shape, TypeOK
  <1>9. CASE Release(p)
    <2>1. /\ pc[p] \in {"setnx", "expire", "enqueue", "release"}
          /\ Key(p) \in Keys /\ event[p] \in Deliveries
      BY <1>9, CallKey DEF Release
    <2>2. LockType'
      BY <1>9, <2>1 DEF Release, Shape, TypeOK, LockType
    <2>3. ReviewType'
      BY <1>9, SameTypes DEF Release, Shape, TypeOK, lockVars
    <2>4. ProcType'
      BY <1>9 DEF Release, Shape, TypeOK, ProcType, PcLabels, Results, frame
    <2>5. QED
      BY <1>1, <1>9, <2>1, <2>2, <2>3, <2>4 DEF Release, Shape, TypeOK
  <1>10. CASE ReleaseFails(p)
    <2>1. /\ pc[p] \in {"setnx", "expire", "enqueue", "release"}
          /\ Key(p) \in Keys /\ event[p] \in Deliveries
      BY <1>10, CallKey DEF ReleaseFails
    <2>2. LockType'
      BY <1>10, <2>1 DEF ReleaseFails, Shape, TypeOK, LockType
    <2>3. ReviewType'
      BY <1>10, SameTypes DEF ReleaseFails, Shape, TypeOK, lockVars
    <2>4. ProcType'
      BY <1>10, ReturnType DEF ReleaseFails, Shape, TypeOK, Results
    <2>5. QED
      BY <1>1, <1>10, <2>1, <2>2, <2>3, <2>4 DEF ReleaseFails, Return, Shape, TypeOK
  <1>11. QED
    BY <1>2, <1>3, <1>4, <1>5, <1>6, <1>7, <1>8, <1>9, <1>10 DEF Once, OnceFails

\* The snapshot of a replay that goes on to its next entry.
LEMMA LongTail ==
  ASSUME NEW S, NEW s \in Seq(S), s # <<>>, Len(s) # 1
  PROVE  Tail(s) \in Seq(S) /\ Tail(s) # <<>> /\ s[2] \in S
  <1>1. Len(s) \in Nat \ {0} /\ Len(<<>>) = 0
    BY EmptySeq
  <1>2. Len(Tail(s)) = Len(s) - 1 /\ Tail(s) \in Seq(S)
    BY HeadTailProperties
  <1>3. Len(Tail(s)) # 0
    BY <1>1, <1>2
  <1>4. Tail(s) # <<>>
    BY <1>1, <1>3
  <1>5. s[2] \in S
    <2> DEFINE n == Len(s)
    <2>1. n \in Nat /\ n # 0 /\ n # 1
      BY <1>1
    <2> HIDE DEF n
    <2>2. 2 \in 1..n
      BY <2>1
    <2>3. QED
      BY <2>2, ElementOfSeq DEF n
  <1>6. QED
    BY <1>2, <1>4, <1>5

\* Taking the head of a queue without duplicates.
LEMMA DistinctTail ==
  ASSUME NEW S, NEW s \in Seq(S), s # <<>>,
         \A i, n \in 1..Len(s) : s[i] = s[n] => i = n
  PROVE  /\ Head(s) \in S /\ Head(s) = s[1] /\ 1 \in 1..Len(s) /\ Tail(s) \in Seq(S)
         /\ \A i \in 1..Len(Tail(s)) :
              i + 1 \in 1..Len(s) /\ Tail(s)[i] = s[i + 1] /\ s[i + 1] # Head(s)
         /\ \A i, n \in 1..Len(Tail(s)) : Tail(s)[i] = Tail(s)[n] => i = n
  <1>1. Len(s) \in Nat \ {0}
    BY EmptySeq
  <1>2. /\ Head(s) \in S /\ Head(s) = s[1] /\ Tail(s) \in Seq(S)
        /\ Len(Tail(s)) = Len(s) - 1
        /\ \A i \in 1..Len(Tail(s)) : Tail(s)[i] = s[i + 1]
    BY HeadTailProperties
  <1>3. ASSUME NEW i \in 1..Len(Tail(s))
        PROVE  i + 1 \in 1..Len(s) /\ Tail(s)[i] = s[i + 1] /\ s[i + 1] # Head(s)
    BY <1>1, <1>2
  <1>4. ASSUME NEW i \in 1..Len(Tail(s)), NEW n \in 1..Len(Tail(s)), Tail(s)[i] = Tail(s)[n]
        PROVE  i = n
    <2>1. i + 1 = n + 1
      BY <1>3, <1>4
    <2>2. QED
      BY <1>1, <1>2, <2>1
  <1>5. QED
    BY <1>1, <1>2, <1>3, <1>4

\* The steps of an API process.
LEMMA ApiShape ==
  ASSUME Shape, NEW p \in Apis, ApiStart(p) \/ ApiStep(p) \/ ApiFault(p)
  PROVE  Shape'
  <1> p \in Procs
    BY DEF Procs
  <1> USE BoundAssumption DEF NoFault, Fault
  <1>1. ASSUME NEW d \in Deliveries, ReceiveWebhook(p, d) PROVE Shape'
    <2>1. ProcType'
      BY <1>1 DEF ReceiveWebhook, Shape, TypeOK, ProcType, PcLabels, Roles
    <2>2. FrameOK'
      BY <1>1 DEF ReceiveWebhook, Shape, TypeOK, ProcType, FrameOK, OnceLabels
    <2>3. JobOK' /\ RunOK'
      BY <1>1, <2>1, StartStep DEF ReceiveWebhook, Shape, TypeOK, ProcType
    <2>4. QED
      BY <1>1, <2>1, <2>2, <2>3, SameTypes DEF ReceiveWebhook, Shape, TypeOK
  <1>2. ASSUME NEW j \in JobIds, Persist(p, j) \/ PersistFails(p, j) PROVE Shape'
    <2>1. pc[p] = "persist" /\ jobState[j] = "none" /\ event[p] \in Deliveries
          /\ role[p] \in {"webhook", "replay", "retry"}
      BY <1>2, CallKey DEF Persist, PersistFails
    <2>2. /\ FrameOK'
          /\ pc' = [pc EXCEPT ![p] = "return"] /\ UNCHANGED frame
      BY <1>2, <2>1 DEF Persist, PersistFails, Return, frame, Shape, TypeOK, ProcType,
                        FrameOK, OnceLabels
    <2>3. TypeOK' /\ ProcType'
      <3>1. ProcType'
        BY <1>2, ReturnType DEF Persist, PersistFails, Shape, TypeOK, Results
      <3>2. JobType'
        <4>1. CASE NewJob(j, event[p])
          BY <2>1, <4>1, AttemptsAssumption DEF NewJob, Shape, TypeOK, JobType
        <4>2. CASE UNCHANGED jobVars
          BY <4>2, SameTypes DEF Shape, TypeOK
        <4>3. QED
          BY <1>2, <4>1, <4>2 DEF Persist, PersistFails
      <3>3. QED
        BY <1>2, <3>1, <3>2, SameTypes DEF Persist, PersistFails, Shape, TypeOK
    <2>4. CASE NewJob(j, event[p])
      <3>1. JobOK'
        <4>1. retryQ' = Append(retryQ, j) /\ retryQ \in Seq(JobIds)
          BY <2>4 DEF NewJob, Shape, TypeOK, JobType
        <4>2. \A i \in 1..Len(retryQ) : retryQ[i] # j
          BY <2>1 DEF Shape, JobOK
        <4>3. \A i \in 1..Len(retryQ') : jobState'[retryQ'[i]] = "queued"
          BY <2>4, <4>1, <4>2 DEF NewJob, Shape, TypeOK, JobType, JobOK
        <4>4. \A i, n \in 1..Len(retryQ') : retryQ'[i] = retryQ'[n] => i = n
          BY <4>1, <4>2 DEF Shape, JobOK
        <4>5. ASSUME NEW i \in JobIds
              PROVE  /\ jobState'[i] = "none" => attempt'[i] = 0
                     /\ jobState'[i] # "none" => jobEvent'[i] \in Deliveries
                     /\ jobState'[i] \in {"queued", "scheduled"}
                          => attempt'[i] + retriesLeft'[i] < MaxAttempts
          <5>1. CASE i = j
            BY <2>1, <2>4, <5>1, AttemptsAssumption DEF NewJob, Shape, TypeOK, JobType, JobOK
          <5>2. CASE i # j
            BY <2>4, <5>2 DEF NewJob, Shape, TypeOK, JobType, JobOK
          <5>3. QED
            BY <5>1, <5>2
        <4>6. QED
          BY <4>3, <4>4, <4>5 DEF JobOK
      <3>2. RunOK'
        BY <2>1, <2>2, <2>4 DEF NewJob, Shape, TypeOK, JobType, ProcType, FrameOK, RunOK, frame
      <3>3. QED
        BY <2>2, <2>3, <3>1, <3>2 DEF Shape
    <2>5. CASE UNCHANGED jobVars
      BY <2>1, <2>2, <2>3, <2>5, CallStep DEF Shape, OnceLabels
    <2>6. QED
      BY <1>2, <2>4, <2>5 DEF Persist, PersistFails
  <1>3. ASSUME Rest(p), UNCHANGED <<lockVars, reviewVars, jobVars>>, DlqType',
               resp' \in [Deliveries -> {"none", "received", "deduplicated", "retrying",
                                         "500", "503", "lost"}],
               faults' \in 0..MaxFaults
        PROVE  Shape'
    BY <1>3, RestType, RestStep, SameTypes DEF Shape, TypeOK
  <1>4. CASE Reply(p)
    <2>1. Answer(status[p]) \in {"none", "received", "deduplicated", "retrying",
                                 "500", "503", "lost"}
      BY DEF Answer, Shape, TypeOK, ProcType, Results
    <2>2. QED
      BY <1>3, <1>4, <2>1, SameTypes DEF Reply, Shape, TypeOK
  <1>5. CASE ApiCrash(p)
    <2>1. resp' = resp \/ resp' = [resp EXCEPT ![event[p]] = "lost"]
      BY <1>5 DEF ApiCrash
    <2>2. resp' \in [Deliveries -> {"none", "received", "deduplicated", "retrying",
                                     "500", "503", "lost"}]
      BY <2>1 DEF Shape, TypeOK
    <2>3. DlqType'
      BY <1>5, SameTypes DEF ApiCrash, Shape, TypeOK
    <2>4. QED
      BY <1>3, <1>5, <2>2, <2>3 DEF ApiCrash, Shape, TypeOK
  <1>6. CASE ReplayAborts(p)
    BY <1>3, <1>6, SameTypes DEF dlqVars, ReplayAborts, Shape, TypeOK
  <1>7. ASSUME NEW entry, Remove(entry) PROVE dlq' \in Seq(Entries)
    <2>1. \A i \in DOMAIN dlq : Without(i) \in Seq(Entries)
      <3>1. dlq \in Seq(Entries) /\ Len(dlq) \in Nat /\ DOMAIN dlq = 1..Len(dlq)
        BY DEF Shape, TypeOK, DlqType
      <3>2. \A n \in 1..Len(dlq) : dlq[n] \in Entries
        BY <3>1
      <3>3. ASSUME NEW i \in 1..Len(dlq) PROVE Without(i) \in Seq(Entries)
        <4>1. SubSeq(dlq, 1, i - 1) \in Seq(Entries)
          BY <3>1, <3>2, SubSeqProperties
        <4>2. SubSeq(dlq, i + 1, Len(dlq)) \in Seq(Entries)
          BY <3>1, <3>2, SubSeqProperties
        <4>3. QED
          BY <4>1, <4>2 DEF Without
      <3>4. QED
        BY <3>1, <3>3
    <2>2. QED
      BY <1>7, <2>1 DEF Remove, Shape, TypeOK, DlqType
  <1>8. CASE RemoveFails(p)
    BY <1>3, <1>7, <1>8 DEF RemoveFails, Shape, TypeOK, DlqType
  <1>9. ASSUME DeleteAll, UNCHANGED <<movesTotal, movesByRepo, pushes, pushed>>
        PROVE  DlqType'
    <2>1. \A i \in DOMAIN dlq : dlq[i] \in Entries
      BY DEF Shape, TypeOK, DlqType
    <2>2. \A i \in DOMAIN dlq : KeyOf[dlq[i].event] \in Keys
      BY <2>1, KeyOfAssumption DEF Entries
    <2>3. cleared' \subseteq Keys
      BY <1>9, <2>2 DEF DeleteAll, Shape, TypeOK, DlqType
    <2>4. dlq' \in Seq(Entries)
      BY <1>9 DEF DeleteAll
    <2>5. QED
      BY <1>9, <2>3, <2>4 DEF Shape, TypeOK, DlqType
  <1>10. CASE DeleteDlq(p)
    BY <1>3, <1>9, <1>10 DEF DeleteDlq, Shape, TypeOK
  <1>11. CASE DeleteFails(p)
    BY <1>3, <1>9, <1>11 DEF DeleteFails, Shape, TypeOK, DlqType
  <1>12. CASE RemoveReplayed(p) \/ KeepFailed(p)
    <2>1. DlqType'
      BY <1>7, <1>12 DEF RemoveReplayed, KeepFailed, dlqVars, Shape, TypeOK, DlqType
    <2>2. CASE Len(plan[p]) = 1
      BY <1>3, <1>12, <2>1, <2>2 DEF RemoveReplayed, KeepFailed, NextEntry, Shape, TypeOK
    <2>3. CASE Len(plan[p]) # 1
      <3>1. plan[p] \in Seq(Entries) /\ plan[p] # <<>> /\ role[p] = "replay"
        BY <1>12 DEF RemoveReplayed, KeepFailed, Shape, TypeOK, ProcType, FrameOK
      <3>2. /\ Tail(plan[p]) \in Seq(Entries) /\ Tail(plan[p]) # <<>>
            /\ plan[p][2].event \in Deliveries
        <4>1. Tail(plan[p]) \in Seq(Entries) /\ Tail(plan[p]) # <<>> /\ plan[p][2] \in Entries
          BY <2>3, <3>1, LongTail
        <4>2. QED
          BY <4>1 DEF Entries
      <3>3. /\ plan' = [plan EXCEPT ![p] = Tail(@)]
            /\ event' = [event EXCEPT ![p] = plan[p][2].event]
            /\ pc' = [pc EXCEPT ![p] = "setnx"]
            /\ status' = [status EXCEPT ![p] = "none"]
            /\ UNCHANGED <<role, job, counted>>
            /\ UNCHANGED <<lockVars, reviewVars, jobVars, resp, faults>>
        BY <1>12, <2>3 DEF RemoveReplayed, KeepFailed, NextEntry
      <3>4. ProcType'
        BY <3>2, <3>3 DEF Shape, TypeOK, ProcType, PcLabels, Results
      <3>5. FrameOK'
        BY <3>1, <3>2, <3>3 DEF Shape, TypeOK, ProcType, FrameOK, OnceLabels
      <3>6. JobOK' /\ RunOK'
        BY <3>1, <3>3 DEF Shape, TypeOK, ProcType, JobOK, RunOK, jobVars
      <3>7. QED
        BY <2>1, <3>3, <3>4, <3>5, <3>6, SameTypes DEF Shape, TypeOK
    <2>4. QED
      BY <2>2, <2>3
  <1>13. CASE StartReplay(p)
    <2>1. PICK selected \in {Listed} \union {<<Listed[i]>> : i \in DOMAIN Listed} :
            /\ plan' = [plan EXCEPT ![p] = selected]
            /\ event' = [event EXCEPT ![p] = Head(selected).event]
      BY <1>13 DEF StartReplay
    <2>2. Listed \in Seq(Entries) /\ Listed # <<>>
      <3> DEFINE m == IF Len(dlq) < ReplayLimit THEN Len(dlq) ELSE ReplayLimit
      <3>1. dlq \in Seq(Entries) /\ dlq # <<>>
        BY <1>13 DEF StartReplay, Shape, TypeOK, DlqType
      <3>2. m \in Nat /\ m >= 1 /\ m <= Len(dlq)
        BY <3>1, LimitAssumption
      <3>3. \A n \in 1..m : dlq[n] \in Entries
        BY <3>1, <3>2
      <3> HIDE DEF m
      <3>4. SubSeq(dlq, 1, m) \in Seq(Entries) /\ Len(SubSeq(dlq, 1, m)) = m
        BY <3>2, <3>3, SubSeqProperties
      <3>5. QED
        BY <3>2, <3>4 DEF Listed, m
    <2>3. selected \in Seq(Entries) /\ selected # <<>> /\ Head(selected).event \in Deliveries
      <3>1. selected \in Seq(Entries) /\ selected # <<>>
        <4>1. CASE selected = Listed
          BY <2>2, <4>1
        <4>2. CASE \E i \in DOMAIN Listed : selected = <<Listed[i]>>
          <5>1. PICK i \in DOMAIN Listed : selected = <<Listed[i]>>
            BY <4>2
          <5>2. Listed[i] \in Entries
            BY <2>2, <5>1
          <5>3. QED
            BY <5>1, <5>2
        <4>3. QED
          BY <2>1, <4>1, <4>2
      <3>2. Head(selected) \in Entries
        BY <3>1, HeadTailProperties
      <3>3. QED
        BY <3>1, <3>2 DEF Entries
    <2>4. ProcType'
      BY <1>13, <2>1, <2>3 DEF StartReplay, Shape, TypeOK, ProcType, PcLabels, Roles
    <2>5. FrameOK'
      BY <1>13, <2>1, <2>3 DEF StartReplay, Shape, TypeOK, ProcType, FrameOK, OnceLabels
    <2>6. JobOK' /\ RunOK'
      BY <1>13, <2>1, <2>4, StartStep DEF StartReplay, Shape, TypeOK, ProcType
    <2>7. QED
      BY <1>13, <2>4, <2>5, <2>6, SameTypes DEF StartReplay, Shape, TypeOK
  <1>14. CASE StartClear(p)
    <2>1. ProcType'
      BY <1>14 DEF StartClear, Shape, TypeOK, ProcType, DlqType, PcLabels, Roles
    <2>2. FrameOK'
      BY <1>14 DEF StartClear, Shape, TypeOK, ProcType, FrameOK
    <2>3. JobOK' /\ RunOK'
      BY <1>14, <2>1, StartStep DEF StartClear, Shape, TypeOK, ProcType
    <2>4. QED
      BY <1>14, <2>1, <2>2, <2>3, SameTypes DEF StartClear, Shape, TypeOK
  <1>15. QED
    BY <1>1, <1>2, <1>4, <1>5, <1>6, <1>8, <1>10, <1>11, <1>12, <1>13, <1>14, OnceShape
    DEF ApiStart, ApiStep, ApiFault

\* The steps of a worker.
LEMMA WorkerShape ==
  ASSUME Shape, NEW w \in Workers, WorkerStep(w) \/ WorkerFault(w)
  PROVE  Shape'
  <1> w \in Procs
    BY DEF Procs
  <1> USE BoundAssumption DEF NoFault, Fault
  <1>1. CASE StartReview(w)
    <2>1. reviewQ \in Seq(Deliveries) /\ reviewQ # <<>>
      BY <1>1 DEF StartReview, Shape, TypeOK, ReviewType
    <2>2. Head(reviewQ) \in Deliveries /\ Tail(reviewQ) \in Seq(Deliveries)
      BY <2>1, HeadTailProperties
    <2>3. ReviewType'
      BY <1>1, <2>2 DEF StartReview, Shape, TypeOK, ReviewType
    <2>4. ProcType'
      BY <1>1, <2>2 DEF StartReview, Shape, TypeOK, ProcType, PcLabels, Roles
    <2>5. FrameOK'
      BY <1>1 DEF StartReview, Shape, TypeOK, ProcType, FrameOK
    <2>6. JobOK' /\ RunOK'
      BY <1>1, <2>4, StartStep DEF StartReview, Shape, TypeOK, ProcType
    <2>7. QED
      BY <1>1, <2>3, <2>4, <2>5, <2>6, SameTypes DEF StartReview, Shape, TypeOK
  <1>2. CASE EndReview(w)
    BY <1>2, RestType, RestStep, SameTypes DEF EndReview, Shape, TypeOK
  <1>3. CASE StartRetry(w)
    <2> DEFINE j == Head(retryQ)
    <2>1. retryQ \in Seq(JobIds) /\ retryQ # <<>>
      BY <1>3 DEF StartRetry, Shape, TypeOK, JobType
    <2>2. /\ j \in JobIds /\ j = retryQ[1] /\ 1 \in 1..Len(retryQ) /\ Tail(retryQ) \in Seq(JobIds)
          /\ \A i \in 1..Len(Tail(retryQ)) :
               i + 1 \in 1..Len(retryQ) /\ Tail(retryQ)[i] = retryQ[i + 1] /\ retryQ[i + 1] # j
          /\ \A i, n \in 1..Len(Tail(retryQ)) : Tail(retryQ)[i] = Tail(retryQ)[n] => i = n
      BY <2>1, DistinctTail DEF Shape, JobOK
    <2> HIDE DEF j
    <2>3. jobState[j] = "queued" /\ jobEvent[j] \in Deliveries
          /\ attempt[j] + retriesLeft[j] < MaxAttempts
      BY <2>2 DEF Shape, JobOK
    <2>4. /\ jobState' = [jobState EXCEPT ![j] = "started"]
          /\ job' = [job EXCEPT ![w] = j]
          /\ event' = [event EXCEPT ![w] = jobEvent[j]]
          /\ retryQ' = Tail(retryQ)
          /\ pc' = [pc EXCEPT ![w] = "meta"]
          /\ role' = [role EXCEPT ![w] = "retry"]
          /\ UNCHANGED <<status, plan, counted, jobEvent, attempt, retriesLeft>>
      BY <1>3 DEF StartRetry, j
    <2>5. ProcType'
      BY <2>2, <2>3, <2>4 DEF Shape, TypeOK, ProcType, PcLabels, Roles
    <2>6. JobType'
      BY <2>2, <2>4 DEF Shape, TypeOK, JobType
    <2>7. FrameOK'
      BY <2>2, <2>3, <2>4 DEF Shape, TypeOK, ProcType, FrameOK
    <2>8. JobOK'
      <3>1. \A i \in 1..Len(retryQ') :
              i + 1 \in 1..Len(retryQ) /\ retryQ'[i] = retryQ[i + 1] /\ retryQ[i + 1] # j
        <4>1. retryQ' = Tail(retryQ)
          BY <2>4
        <4>2. QED
          BY <2>2, <4>1, Zenon
      <3>2. \A i \in 1..Len(retryQ) : retryQ[i] \in JobIds /\ jobState[retryQ[i]] = "queued"
        BY <2>1, ElementOfSeq DEF Shape, JobOK
      <3>3. \A i \in 1..Len(retryQ') : jobState'[retryQ'[i]] = "queued"
        <4>1. \A i \in JobIds \ {j} : jobState'[i] = jobState[i]
          BY <2>4 DEF Shape, TypeOK, JobType
        <4>2. ASSUME NEW i \in 1..Len(retryQ') PROVE jobState'[retryQ'[i]] = "queued"
          <5>1. retryQ'[i] \in JobIds \ {j} /\ jobState[retryQ'[i]] = "queued"
            BY <3>1, <3>2, Zenon
          <5>2. QED
            BY <4>1, <5>1, Zenon
        <4>3. QED
          BY <4>2
      <3>4. \A i, n \in 1..Len(retryQ') : retryQ'[i] = retryQ'[n] => i = n
        BY <2>2, <2>4
      <3>5. QED
        BY <2>2, <2>3, <2>4, <3>3, <3>4 DEF Shape, TypeOK, JobType, JobOK
    <2>9. RunOK'
      <3>1. \A v \in Procs \ {w} : role[v] = "retry" => job[v] # j
        BY <2>3 DEF Shape, RunOK
      <3>2. role'[w] = "retry" /\ job'[w] = j /\ pc'[w] = "meta" /\ jobState'[j] = "started"
        BY <2>2, <2>4 DEF Shape, TypeOK, JobType, ProcType
      <3>3. attempt'[j] + retriesLeft'[j] < MaxAttempts
        BY <2>3, <2>4
      <3>4. ASSUME NEW v \in Procs \ {w}, role'[v] = "retry"
            PROVE  /\ role[v] = "retry" /\ job'[v] = job[v] /\ job[v] # j
                   /\ pc'[v] = pc[v] /\ jobState'[job[v]] = jobState[job[v]]
        <4>1. role[v] = "retry" /\ job'[v] = job[v] /\ pc'[v] = pc[v]
          BY <2>4, <3>4 DEF Shape, TypeOK, ProcType
        <4>2. job[v] \in JobIds \ {j}
          BY <3>1, <3>4, <4>1 DEF Shape, FrameOK
        <4>3. jobState'[job[v]] = jobState[job[v]]
          BY <2>4, <4>2 DEF Shape, TypeOK, JobType
        <4>4. QED
          BY <4>1, <4>2, <4>3
      <3>5. ASSUME NEW v \in Procs, role'[v] = "retry"
            PROVE  LET i == job'[v] IN
                     /\ jobState'[i] = "started"
                     /\ pc'[v] = "meta" => attempt'[i] + retriesLeft'[i] < MaxAttempts
                     /\ pc'[v] # "meta" => /\ attempt'[i] > 0
                                           /\ attempt'[i] + retriesLeft'[i] <= MaxAttempts
        <4>1. CASE v = w
          BY <3>2, <3>3, <4>1
        <4>2. CASE v # w
          BY <2>4, <3>4, <3>5, <4>2 DEF Shape, RunOK
        <4>3. QED
          BY <4>1, <4>2
      <3>6. ASSUME NEW v \in Procs, NEW u \in Procs,
                   role'[v] = "retry", role'[u] = "retry", job'[v] = job'[u]
            PROVE  v = u
        <4>1. v # w /\ u # w => v = u
          BY <3>4, <3>6 DEF Shape, RunOK
        <4>2. QED
          BY <3>2, <3>4, <3>6, <4>1
      <3>7. QED
        BY <3>5, <3>6 DEF RunOK
    <2>10. QED
      BY <1>3, <2>5, <2>6, <2>7, <2>8, <2>9, SameTypes DEF StartRetry, Shape, TypeOK
  <1>4. CASE SaveAttempt(w)
    <2> DEFINE j == job[w]
    <2>1. role[w] = "retry" /\ j \in JobIds
      BY <1>4 DEF SaveAttempt, Shape, TypeOK, ProcType, Roles, FrameOK, OnceLabels
    <2>2. attempt[j] + retriesLeft[j] < MaxAttempts /\ jobState[j] = "started"
      BY <1>4, <2>1 DEF SaveAttempt, Shape, RunOK
    <2>3. attempt[j] \in Nat /\ retriesLeft[j] \in Nat
      BY <2>1, AttemptsAssumption DEF Shape, TypeOK, JobType
    <2> HIDE DEF j
    <2>4. attempt' = [attempt EXCEPT ![j] = @ + 1] /\ attempt[j] + 1 \in 0..MaxAttempts
      BY <1>4, <2>2, <2>3, AttemptsAssumption DEF SaveAttempt, j
    <2>5. JobType'
      BY <1>4, <2>1, <2>4 DEF SaveAttempt, Shape, TypeOK, JobType
    <2>6. ProcType'
      BY <1>4, GotoType DEF SaveAttempt, Shape, TypeOK, PcLabels
    <2>7. FrameOK'
      BY <1>4, <2>1 DEF SaveAttempt, Goto, frame, Shape, TypeOK, ProcType, FrameOK, OnceLabels
    <2>8. JobOK'
      BY <1>4, <2>2, <2>4 DEF SaveAttempt, Shape, TypeOK, JobType, JobOK
    <2>9. RunOK'
      <3>1. pc' = [pc EXCEPT ![w] = "setnx"] /\ UNCHANGED <<role, job, jobState, retriesLeft>>
        BY <1>4 DEF SaveAttempt, Goto, frame
      <3>2. \A v \in Procs \ {w} : role[v] = "retry" => job[v] \in JobIds /\ job[v] # j
        BY <2>1 DEF Shape, RunOK, FrameOK, j
      <3>3. attempt'[j] > 0 /\ attempt'[j] + retriesLeft[j] <= MaxAttempts
        BY <2>1, <2>2, <2>3, <2>4, AttemptsAssumption DEF Shape, TypeOK, JobType
      <3>4. QED
        BY <2>1, <2>2, <2>4, <3>1, <3>2, <3>3 DEF Shape, TypeOK, JobType, ProcType, RunOK, j
    <2>10. QED
      BY <1>4, <2>5, <2>6, <2>7, <2>8, <2>9, SameTypes DEF SaveAttempt, Shape, TypeOK
  <1>5. pc[w] \in {"meta", "incr", "hincrby"} => role[w] = "retry"
    BY DEF Shape, TypeOK, ProcType, Roles, FrameOK, OnceLabels
  <1>6. ASSUME UNCHANGED <<lockVars, reviewVars, resp>>, DlqType', faults' \in 0..MaxFaults,
               role[w] = "retry", JobFails(w),
               \/ attempt' = attempt
               \/ pc[w] = "meta" /\ attempt' = [attempt EXCEPT ![job[w]] = @ + 1]
               \/ pc[w] # "meta" /\ attempt' = [attempt EXCEPT ![job[w]] = @ - 1]
        PROVE  Shape'
    BY <1>6, JobFailsStep, SameTypes DEF Shape, TypeOK
  <1>7. CASE SaveAttemptFails(w)
    BY <1>5, <1>6, <1>7, SameTypes DEF SaveAttemptFails, Shape, TypeOK
  <1>8. CASE RetryRaises(w)
    BY <1>6, <1>8, SameTypes DEF RetryRaises, RetryReturns, Shape, TypeOK
  <1>9. CASE WorkhorseCrash(w)
    BY <1>6, <1>9, SameTypes DEF WorkhorseCrash, Shape, TypeOK
  <1>10. ASSUME RetryReturns(w), Push(w), UNCHANGED <<movesTotal, movesByRepo, cleared>>
         PROVE  DlqType'
    <2>1. job[w] \in JobIds /\ jobEvent[job[w]] \in Deliveries
      BY <1>10 DEF RetryReturns, Shape, FrameOK, RunOK, JobOK
    <2>2. Entry(job[w]) \in Entries
      BY <2>1 DEF Entry, Entries, Shape, TypeOK, DlqType
    <2>3. QED
      BY <1>10, <2>1, <2>2 DEF Push, Shape, TypeOK, DlqType
  <1>11. CASE DeadLetterFails(w)
    <2>1. DlqType'
      BY <1>10, <1>11, SameTypes DEF DeadLetterFails, dlqVars, Shape, TypeOK
    <2>2. QED
      BY <1>6, <1>11, <2>1 DEF DeadLetterFails, RetryReturns, Shape, TypeOK
  <1>12. CASE CountFails(w)
    <2>1. DlqType'
      BY <1>12 DEF CountFails, Shape, TypeOK, DlqType
    <2>2. QED
      BY <1>5, <1>6, <1>12, <2>1 DEF CountFails, Shape, TypeOK
  <1>13. ASSUME UNCHANGED <<lockVars, reviewVars, resp, faults>>, DlqType',
                role[w] = "retry", JobDone(w)
         PROVE  Shape'
    BY <1>13, JobDoneStep, SameTypes DEF Shape, TypeOK
  <1>14. CASE RetryDone(w)
    BY <1>13, <1>14, SameTypes DEF RetryDone, RetryReturns, Shape, TypeOK
  <1>15. CASE CountRepoMove(w)
    <2>1. DlqType'
      BY <1>15 DEF CountRepoMove, Shape, TypeOK, DlqType
    <2>2. QED
      BY <1>5, <1>13, <1>15, <2>1 DEF CountRepoMove
  <1>16. ASSUME NEW l \in {"incr", "hincrby"}, Goto(w, l), role[w] = "retry", pc[w] # "meta",
                UNCHANGED <<lockVars, reviewVars, jobVars, resp, faults>>, DlqType'
         PROVE  Shape'
    <2>1. ProcType'
      BY <1>16, GotoType DEF Shape, TypeOK, PcLabels
    <2>2. FrameOK'
      BY <1>16 DEF Goto, frame, Shape, TypeOK, ProcType, FrameOK
    <2>3. JobOK' /\ RunOK'
      BY <1>16 DEF Goto, frame, jobVars, Shape, TypeOK, ProcType, JobOK, RunOK
    <2>4. QED
      BY <1>16, <2>1, <2>2, <2>3, SameTypes DEF Shape, TypeOK
  <1>17. CASE DeadLetter(w)
    BY <1>10, <1>16, <1>17 DEF DeadLetter, RetryReturns
  <1>18. CASE CountMove(w)
    <2>1. DlqType'
      BY <1>18 DEF CountMove, Shape, TypeOK, DlqType
    <2>2. QED
      BY <1>5, <1>16, <1>18, <2>1 DEF CountMove
  <1>19. QED
    BY <1>1, <1>2, <1>3, <1>4, <1>7, <1>8, <1>9, <1>11, <1>12, <1>14, <1>15, <1>17, <1>18,
       OnceShape
    DEF WorkerStep, WorkerFault

\* Every step keeps the inductive invariant.
LEMMA NextShape == Shape /\ [Next]_vars => Shape'
  <1> SUFFICES ASSUME Shape, [Next]_vars PROVE Shape'
    OBVIOUS
  <1>1. ASSUME NEW j \in JobIds, Requeue(j) PROVE Shape'
    <2>1. jobState[j] = "scheduled" /\ attempt[j] + retriesLeft[j] < MaxAttempts
      BY <1>1 DEF Requeue, Shape, JobOK
    <2>2. JobType'
      BY <1>1 DEF Requeue, Shape, TypeOK, JobType
    <2>3. /\ retryQ' = Append(retryQ, j) /\ retryQ \in Seq(JobIds)
          /\ jobState' = [jobState EXCEPT ![j] = "queued"]
      BY <1>1 DEF Requeue, Shape, TypeOK, JobType
    <2>4. \A i \in 1..Len(retryQ) : retryQ[i] # j
      BY <2>1 DEF Shape, JobOK
    <2>5. \A i \in 1..Len(retryQ') : jobState'[retryQ'[i]] = "queued"
      BY <2>3, <2>4 DEF Shape, TypeOK, JobType, JobOK
    <2>6. \A i, n \in 1..Len(retryQ') : retryQ'[i] = retryQ'[n] => i = n
      BY <2>3, <2>4 DEF Shape, JobOK
    <2>7. JobOK'
      BY <1>1, <2>1, <2>3, <2>5, <2>6 DEF Requeue, Shape, TypeOK, JobType, JobOK
    <2>8. FrameOK' /\ RunOK'
      BY <1>1, <2>1 DEF Requeue, procVars, frame, Shape, TypeOK, JobType, FrameOK, RunOK
    <2>9. QED
      BY <1>1, <2>2, <2>7, <2>8, SameTypes DEF Requeue, NoFault, Shape, TypeOK
  <1>2. ASSUME NEW k \in Keys, Lapse(k) PROVE Shape'
    <2>1. LockType'
      BY <1>2, BoundAssumption DEF Lapse, Shape, TypeOK, LockType
    <2>2. FrameOK' /\ JobOK' /\ RunOK'
      BY <1>2 DEF Lapse, procVars, frame, jobVars, Shape, FrameOK, JobOK, RunOK
    <2>3. QED
      BY <1>2, <2>1, <2>2, SameTypes DEF Lapse, NoFault, Shape, TypeOK
  <1>3. CASE UNCHANGED vars
    <2>1. FrameOK' /\ JobOK' /\ RunOK'
      BY <1>3 DEF vars, procVars, frame, jobVars, Shape, FrameOK, JobOK, RunOK
    <2>2. QED
      BY <1>3, <2>1, SameTypes DEF vars, Shape, TypeOK
  <1>4. QED
    BY <1>1, <1>2, <1>3, ApiShape, WorkerShape DEF Next

\* Types, and with them the bound on attempts: whatever raises, dies or is
\* overwritten, a retry job is attempted at most MaxAttempts times.
THEOREM TypeCorrect == Spec => []TypeOK
  <1>1. Shape => TypeOK
    BY DEF Shape
  <1>2. QED
    BY <1>1, InitShape, NextShape, PTL DEF Spec

\* The inductive invariant, for the proofs that build on it.
LEMMA ShapeInvariant == Spec => []Shape
  BY InitShape, NextShape, PTL DEF Spec

-----------------------------------------------------------------------------
(***************************************************************************)
(* Admission: WebhookRetry admits each head commit to review as            *)
(* ReviewAdmission says.                                                   *)
(*                                                                         *)
(* The argument counts claims: a process between SETNX and the outcome of  *)
(* its enqueue holds one, and so does a review job already created.  Every *)
(* claim is paid by the lock itself, by a lapse of it or by a lost reply.  *)
(***************************************************************************)

\* The lock of a head commit as a number, to be compared with its claims,
Locked(k) == IF lock[k] = "free" THEN 0 ELSE 1

\* which are the processes between SETNX and the outcome of the enqueue.
Claim(p, k) == IF p \in HoldersOf(k) THEN 1 ELSE 0

\* The claims on a head commit are covered by the lock and its excuses.
ClaimsCovered ==
  \A k \in Keys :
    Cardinality(HoldersOf(k)) + enqueued[k] <= Locked(k) + lapses[k] + lostReplies[k]

\* A lost reply is that of a job that was created.
LostRepliesEnqueued == \A k \in Keys : lostReplies[k] <= enqueued[k]

\* The strengthening: with Shape, it is inductive.
Admitted == ClaimsCovered /\ LostRepliesEnqueued

\* No process but p moved.
OnlyMoves(p) ==
  \A q \in Procs \ {p} : pc'[q] = pc[q] /\ event'[q] = event[q]

\* A step of p that creates no review job and leaves it without a claim.
Quiet(p) ==
  /\ UNCHANGED <<lockVars, enqueued, lostReplies>>
  /\ OnlyMoves(p)
  /\ pc'[p] \notin {"expire", "enqueue", "release"}

-----------------------------------------------------------------------------
\* The processes at a lock are a finite set.
LEMMA FiniteHolders ==
  ASSUME NEW k
  PROVE  IsFiniteSet(HoldersOf(k)) /\ Cardinality(HoldersOf(k)) \in Nat
  <1>1. HoldersOf(k) \subseteq Procs
    BY DEF HoldersOf
  <1>2. QED
    BY <1>1, FiniteProcesses, FS_Subset, FS_CardinalityType DEF Procs

\* When only p moves, the number of processes at the lock of k changes by
\* what p gives up and what it takes.
LEMMA HoldersMove ==
  ASSUME NEW p \in Procs, NEW k, OnlyMoves(p)
  PROVE  Cardinality(HoldersOf(k))' = Cardinality(HoldersOf(k)) - Claim(p, k) + Claim(p, k)'
  <1> DEFINE rest == HoldersOf(k) \ {p}
  <1>1. HoldersOf(k)' = IF p \in HoldersOf(k)' THEN rest \union {p} ELSE rest
    BY DEF HoldersOf, Holding, Key, OnlyMoves
  <1>2. /\ IsFiniteSet(HoldersOf(k)) /\ Cardinality(HoldersOf(k)) \in Nat
        /\ IsFiniteSet(rest) /\ Cardinality(rest) \in Nat
    BY FiniteHolders, FS_RemoveElement, FS_CardinalityType
  <1>3. Cardinality(rest) = Cardinality(HoldersOf(k)) - Claim(p, k)
    <2>1. CASE p \in HoldersOf(k)
      BY <1>2, <2>1, FS_RemoveElement DEF Claim
    <2>2. CASE p \notin HoldersOf(k)
      <3>1. rest = HoldersOf(k)
        BY <2>2
      <3> HIDE DEF rest
      <3>2. Claim(p, k) = 0 /\ Cardinality(rest) = Cardinality(HoldersOf(k))
        BY <2>2, <3>1 DEF Claim
      <3>3. QED
        BY <1>2, <3>2
    <2>3. QED
      BY <2>1, <2>2
  <1>4. Cardinality(HoldersOf(k)') = Cardinality(rest) + Claim(p, k)'
    <2>1. p \notin rest
      OBVIOUS
    <2> HIDE DEF rest
    <2>2. CASE p \in HoldersOf(k)'
      BY <1>1, <1>2, <2>1, <2>2, FS_AddElement DEF Claim
    <2>3. CASE p \notin HoldersOf(k)'
      BY <1>1, <1>2, <2>3 DEF Claim
    <2>4. QED
      BY <2>2, <2>3
  <1>5. QED
    BY <1>3, <1>4

\* A step of a process that is not in _enqueue_review_once changes no claim
\* on a lock, except that a crash gives one up.
LEMMA QuietStep ==
  ASSUME Shape, Admitted, NEW p \in Procs, Quiet(p)
  PROVE  Admitted'
  <1>1. ASSUME NEW k \in Keys
        PROVE  /\ Cardinality(HoldersOf(k)') <= Cardinality(HoldersOf(k))
               /\ Cardinality(HoldersOf(k)') \in Int
    <2>1. Claim(p, k)' = 0 /\ Claim(p, k) \in {0, 1}
      BY DEF Quiet, Claim, HoldersOf, Holding
    <2>2. QED
      BY <2>1, HoldersMove, FiniteHolders DEF Quiet
  <1>2. ClaimsCovered'
    <2>1. ASSUME NEW k \in Keys
          PROVE  Cardinality(HoldersOf(k)') + enqueued'[k] <= Locked(k)' + lapses'[k] + lostReplies'[k]
      <3>1. /\ enqueued'[k] = enqueued[k] /\ lapses'[k] = lapses[k]
            /\ lostReplies'[k] = lostReplies[k] /\ Locked(k)' = Locked(k)
        BY DEF Quiet, lockVars, Locked
      <3>2. /\ enqueued[k] \in Nat /\ lapses[k] \in Nat /\ lostReplies[k] \in Nat
            /\ Locked(k) \in {0, 1}
        BY BoundAssumption DEF Shape, TypeOK, LockType, ReviewType, Locked
      <3>3. QED
        BY <1>1, <3>1, <3>2, FiniteHolders DEF Admitted, ClaimsCovered
    <2>2. QED
      BY <2>1 DEF ClaimsCovered
  <1>3. LostRepliesEnqueued'
    BY DEF Admitted, LostRepliesEnqueued, Quiet
  <1>4. QED
    BY <1>2, <1>3 DEF Admitted

\* A step inside _enqueue_review_once keeps the claims on the lock of its
\* head commit covered if it pays for what it takes.
LEMMA ClaimStep ==
  ASSUME Shape, Admitted, NEW p \in Procs, OnlyMoves(p), UNCHANGED <<event, lapses>>,
         NEW k \in Keys, Key(p) = k,
         \A n \in Keys \ {k} : /\ lock'[n] = lock[n] /\ enqueued'[n] = enqueued[n]
                               /\ lostReplies'[n] = lostReplies[n],
         NEW e \in 0..1, NEW l \in 0..e,
         enqueued'[k] = enqueued[k] + e, lostReplies'[k] = lostReplies[k] + l,
         Claim(p, k)' + e + Locked(k) <= Claim(p, k) + l + Locked(k)'
  PROVE  Admitted'
  <1>1. \A n \in Keys : /\ enqueued[n] \in Nat /\ lapses[n] \in Nat /\ lostReplies[n] \in Nat
                        /\ Locked(n) \in {0, 1} /\ Locked(n)' \in {0, 1}
                        /\ Claim(p, n) \in {0, 1} /\ Claim(p, n)' \in {0, 1}
    BY BoundAssumption DEF Shape, TypeOK, LockType, ReviewType, Locked, Claim
  <1>2. ASSUME NEW n \in Keys
        PROVE  Cardinality(HoldersOf(n)') + enqueued'[n] <= Locked(n)' + lapses'[n] + lostReplies'[n]
    <2>1. Cardinality(HoldersOf(n)') = Cardinality(HoldersOf(n)) - Claim(p, n) + Claim(p, n)'
      BY HoldersMove
    <2>2. /\ Cardinality(HoldersOf(n)) + enqueued[n] <= Locked(n) + lapses[n] + lostReplies[n]
          /\ Cardinality(HoldersOf(n)) \in Nat /\ lapses'[n] = lapses[n]
      BY FiniteHolders DEF Admitted, ClaimsCovered
    <2>3. CASE n = k
      BY <1>1, <2>1, <2>2, <2>3
    <2>4. CASE n # k
      <3>1. /\ Locked(n)' = Locked(n) /\ enqueued'[n] = enqueued[n]
            /\ lostReplies'[n] = lostReplies[n]
        BY <2>4 DEF Locked
      <3>2. Claim(p, n)' = 0 /\ Claim(p, n) = 0
        BY <2>4 DEF Claim, HoldersOf, Key
      <3>3. QED
        BY <1>1, <2>1, <2>2, <3>1, <3>2
    <2>5. QED
      BY <2>3, <2>4
  <1>3. ASSUME NEW n \in Keys PROVE lostReplies'[n] <= enqueued'[n]
    <2>1. lostReplies[n] <= enqueued[n]
      BY DEF Admitted, LostRepliesEnqueued
    <2>2. CASE n = k
      BY <1>1, <2>1, <2>2
    <2>3. CASE n # k
      BY <2>1, <2>3
    <2>4. QED
      BY <2>2, <2>3
  <1>4. QED
    BY <1>2, <1>3 DEF Admitted, ClaimsCovered, LostRepliesEnqueued

\* Every step of _enqueue_review_once pays for the claims it takes.
LEMMA OnceAdmits ==
  ASSUME Shape, Admitted, NEW p \in Procs, Once(p) \/ OnceFails(p)
  PROVE  Admitted'
  <1> DEFINE Inside(label) == IF label \in {"expire", "enqueue", "release"} THEN 1 ELSE 0
             Held(value) == IF value = "free" THEN 0 ELSE 1
  <1>1. pc[p] \in {"setnx", "expire", "enqueue", "release"}
    BY DEF Once, OnceFails, Acquire, Deduplicate, SetExpiry, Enqueue, Release,
           AcquireFails, SetExpiryFails, EnqueueFails, ReleaseFails
  <1>2. PICK k \in Keys : Key(p) = k
    BY <1>1, CallKey
  <1>3. pc \in [Procs -> PcLabels] /\ lock \in [Keys -> {"free", "bare", "ttl"}]
        /\ enqueued \in [Keys -> Nat] /\ lostReplies \in [Keys -> Nat]
    BY DEF Shape, TypeOK, ProcType, LockType, ReviewType
  <1>4. PICK now : now = lock[k] /\ lock = [lock EXCEPT ![k] = now]
    BY <1>2, <1>3
  <1>5. Claim(p, k) = Inside(pc[p]) /\ Locked(k) = Held(now)
    BY <1>2, <1>4 DEF Claim, HoldersOf, Holding, Locked
  <1>6. ASSUME UNCHANGED <<event, lapses>>,
               NEW label, pc' = [pc EXCEPT ![p] = label],
               NEW e \in 0..1, enqueued' = [enqueued EXCEPT ![k] = @ + e],
               NEW l \in 0..e, lostReplies' = [lostReplies EXCEPT ![k] = @ + l],
               NEW value, lock' = [lock EXCEPT ![k] = value],
               Inside(label) + e + Held(now) <= Inside(pc[p]) + l + Held(value)
        PROVE  Admitted'
    <2>1. OnlyMoves(p)
      BY <1>3, <1>6 DEF OnlyMoves
    <2>2. Claim(p, k)' = Inside(label) /\ Locked(k)' = Held(value)
      BY <1>2, <1>3, <1>6 DEF Claim, HoldersOf, Holding, Key, Locked
    <2>3. Claim(p, k)' + e + Locked(k) <= Claim(p, k) + l + Locked(k)'
      BY <1>5, <1>6, <2>2
    <2> HIDE DEF Inside, Held
    <2>4. \A n \in Keys \ {k} : /\ lock'[n] = lock[n] /\ enqueued'[n] = enqueued[n]
                                /\ lostReplies'[n] = lostReplies[n]
      BY <1>3, <1>6
    <2>5. enqueued'[k] = enqueued[k] + e /\ lostReplies'[k] = lostReplies[k] + l
      BY <1>2, <1>3, <1>6
    <2>6. QED
      BY <1>2, <1>6, <2>1, <2>3, <2>4, <2>5, ClaimStep
  <1> DEFINE Move(label, value) ==
               /\ UNCHANGED <<event, lapses, enqueued, lostReplies>>
               /\ pc' = [pc EXCEPT ![p] = label]
               /\ lock' = [lock EXCEPT ![k] = value]
               /\ Inside(label) + Held(now) <= Inside(pc[p]) + Held(value)
  <1>7. ASSUME NEW label, NEW value, Move(label, value)
        PROVE  Admitted'
    <2>1. /\ enqueued' = [enqueued EXCEPT ![k] = @ + 0]
          /\ lostReplies' = [lostReplies EXCEPT ![k] = @ + 0]
      BY <1>2, <1>3, <1>7
    <2>2. Inside(label) + 0 + Held(now) <= Inside(pc[p]) + 0 + Held(value)
      BY <1>7
    <2>3. 0 \in 0..1 /\ 0 \in 0..0
      OBVIOUS
    <2>4. /\ UNCHANGED <<event, lapses>> /\ pc' = [pc EXCEPT ![p] = label]
          /\ lock' = [lock EXCEPT ![k] = value]
      BY <1>7
    <2> HIDE DEF Inside, Held, Move
    <2>5. QED
      BY <1>6, <2>1, <2>2, <2>3, <2>4
  <1> HIDE DEF Move
  <1>8. CASE Acquire(p)
    <2>1. Move("expire", "bare")
      BY <1>2, <1>4, <1>8 DEF Acquire, Goto, frame, reviewVars, Move
    <2>2. QED
      BY <1>7, <2>1
  <1>9. CASE Deduplicate(p)
    <2>1. Move("return", now)
      BY <1>2, <1>4, <1>9 DEF Deduplicate, Return, frame, lockVars, Move
    <2>2. QED
      BY <1>7, <2>1
  <1>10. CASE AcquireFails(p)
    <2>1. Move("return", now) \/ Move("return", "bare")
      BY <1>2, <1>4, <1>10 DEF AcquireFails, Return, frame, reviewVars, Move
    <2>2. QED
      BY <1>7, <2>1
  <1>11. CASE SetExpiry(p)
    <2>1. Move("enqueue", IF now = "free" THEN "free" ELSE "ttl")
      BY <1>2, <1>4, <1>11 DEF SetExpiry, WithExpiry, Goto, frame, reviewVars, Move
    <2>2. QED
      BY <1>7, <2>1
  <1>12. CASE SetExpiryFails(p)
    <2>1. Move("return", now) \/ Move("return", IF now = "free" THEN "free" ELSE "ttl")
      BY <1>2, <1>4, <1>12 DEF SetExpiryFails, WithExpiry, Return, frame, reviewVars, Move
    <2>2. QED
      BY <1>7, <2>1
  <1>13. CASE Enqueue(p)
    <2>1. /\ pc[p] = "enqueue" /\ pc' = [pc EXCEPT ![p] = "return"]
          /\ UNCHANGED <<event, lapses>> /\ lock' = [lock EXCEPT ![k] = now]
          /\ enqueued' = [enqueued EXCEPT ![k] = @ + 1]
          /\ lostReplies' = [lostReplies EXCEPT ![k] = @ + 0]
      BY <1>2, <1>3, <1>4, <1>13 DEF Enqueue, Return, frame, lockVars
    <2>2. /\ Inside("return") + 1 + Held(now) <= Inside(pc[p]) + 0 + Held(now)
          /\ 1 \in 0..1 /\ 0 \in 0..1
      BY <2>1
    <2> HIDE DEF Inside, Held
    <2>3. QED
      BY <1>6, <2>1, <2>2
  <1>14. CASE EnqueueFails(p)
    <2>1. CASE UNCHANGED reviewVars
      <3>1. Move("release", now)
        BY <1>2, <1>4, <1>14, <2>1 DEF EnqueueFails, Goto, frame, lockVars, reviewVars, Move
      <3>2. QED
        BY <1>7, <3>1
    <2>2. CASE ~UNCHANGED reviewVars
      <3>1. /\ pc[p] = "enqueue" /\ pc' = [pc EXCEPT ![p] = "release"]
            /\ UNCHANGED <<event, lapses>> /\ lock' = [lock EXCEPT ![k] = now]
            /\ enqueued' = [enqueued EXCEPT ![k] = @ + 1]
            /\ lostReplies' = [lostReplies EXCEPT ![k] = @ + 1]
        BY <1>2, <1>4, <1>14, <2>2 DEF EnqueueFails, Goto, frame, lockVars
      <3>2. /\ Inside("release") + 1 + Held(now) <= Inside(pc[p]) + 1 + Held(now)
            /\ 1 \in 0..1
        BY <3>1
      <3> HIDE DEF Inside, Held
      <3>3. QED
        BY <1>6, <3>1, <3>2
    <2>3. QED
      BY <2>1, <2>2
  <1>15. CASE Release(p)
    <2>1. Move(IF p \in Apis THEN "persist" ELSE "return", "free")
      BY <1>2, <1>4, <1>15 DEF Release, frame, reviewVars, Move
    <2>2. QED
      BY <1>7, <2>1
  <1>16. CASE ReleaseFails(p)
    <2>1. Move("return", now) \/ Move("return", "free")
      BY <1>2, <1>4, <1>16 DEF ReleaseFails, Return, frame, reviewVars, Move
    <2>2. QED
      BY <1>7, <2>1
  <1>17. QED
    BY <1>8, <1>9, <1>10, <1>11, <1>12, <1>13, <1>14, <1>15, <1>16 DEF Once, OnceFails

\* Of the other steps, those of a process are quiet, RQ's scheduler does not
\* touch the lock, and a lapse of the lock is an excuse of its own.
LEMMA NextAdmits == Shape /\ Admitted /\ [Next]_vars => Admitted'
  <1> SUFFICES ASSUME Shape, Admitted, [Next]_vars PROVE Admitted'
    OBVIOUS
  <1>1. ASSUME NEW p \in Procs, UNCHANGED <<lockVars, enqueued, lostReplies>>,
               NEW label \in PcLabels, label \notin {"expire", "enqueue", "release"},
               pc' = [pc EXCEPT ![p] = label],
               \A q \in Procs \ {p} : event'[q] = event[q]
        PROVE  Admitted'
    <2>1. Quiet(p)
      BY <1>1 DEF Quiet, OnlyMoves, Shape, TypeOK, ProcType
    <2>2. QED
      BY <2>1, QuietStep
  <1>2. ASSUME NEW p \in Procs, Rest(p), UNCHANGED <<lockVars, enqueued, lostReplies>>
        PROVE  Admitted'
    BY <1>1, <1>2 DEF Rest, PcLabels, Shape, TypeOK, ProcType
  <1>3. ASSUME NEW p \in Apis, ApiStart(p) \/ ApiStep(p) \/ ApiFault(p)
        PROVE  Admitted'
    <2>1. p \in Procs
      BY DEF Procs
    <2>2. CASE Once(p) \/ OnceFails(p)
      BY <2>1, <2>2, OnceAdmits
    <2>3. CASE StartReplay(p) \/ StartClear(p) \/ \E d \in Deliveries : ReceiveWebhook(p, d)
      <3>1. /\ UNCHANGED <<lockVars, enqueued, lostReplies>>
            /\ pc' = [pc EXCEPT ![p] = "setnx"] \/ pc' = [pc EXCEPT ![p] = "delete"]
            /\ \A q \in Procs \ {p} : event'[q] = event[q]
        BY <2>1, <2>3 DEF StartReplay, StartClear, ReceiveWebhook, reviewVars, Shape, TypeOK, ProcType
      <3>2. QED
        BY <1>1, <2>1, <3>1 DEF PcLabels
    <2>4. CASE \E j \in JobIds : Persist(p, j) \/ PersistFails(p, j)
      BY <1>1, <2>1, <2>4 DEF Persist, PersistFails, Return, frame, reviewVars, PcLabels
    <2>5. CASE RemoveReplayed(p) \/ KeepFailed(p)
      <3>1. UNCHANGED <<lockVars, enqueued, lostReplies>> /\ NextEntry(p)
        BY <2>5 DEF RemoveReplayed, KeepFailed, reviewVars
      <3>2. CASE Len(plan[p]) = 1
        BY <1>2, <2>1, <3>1, <3>2 DEF NextEntry
      <3>3. CASE Len(plan[p]) # 1
        <4>1. /\ pc' = [pc EXCEPT ![p] = "setnx"]
              /\ \A q \in Procs \ {p} : event'[q] = event[q]
          BY <3>1, <3>3 DEF NextEntry, Shape, TypeOK, ProcType
        <4>2. QED
          BY <1>1, <2>1, <3>1, <4>1 DEF PcLabels
      <3>4. QED
        BY <3>2, <3>3
    <2>6. CASE \/ Reply(p) \/ ReplayAborts(p) \/ DeleteDlq(p)
               \/ RemoveFails(p) \/ DeleteFails(p) \/ ApiCrash(p)
      BY <1>2, <2>1, <2>6 DEF Reply, ReplayAborts, DeleteDlq, RemoveFails, DeleteFails, ApiCrash,
         reviewVars
    <2>7. QED
      BY <1>3, <2>2, <2>3, <2>4, <2>5, <2>6 DEF ApiStart, ApiStep, ApiFault
  <1>4. ASSUME NEW w \in Workers, WorkerStep(w) \/ WorkerFault(w)
        PROVE  Admitted'
    <2>1. w \in Procs
      BY DEF Procs
    <2>2. CASE Once(w) \/ OnceFails(w)
      BY <2>1, <2>2, OnceAdmits
    <2>3. CASE StartReview(w) \/ StartRetry(w)
      <3>1. /\ UNCHANGED <<lockVars, enqueued, lostReplies>>
            /\ pc' = [pc EXCEPT ![w] = "review"] \/ pc' = [pc EXCEPT ![w] = "meta"]
            /\ \A q \in Procs \ {w} : event'[q] = event[q]
        BY <2>1, <2>3 DEF StartReview, StartRetry, reviewVars, Shape, TypeOK, ProcType
      <3>2. QED
        BY <1>1, <2>1, <3>1 DEF PcLabels
    <2>4. CASE SaveAttempt(w) \/ DeadLetter(w) \/ CountMove(w)
      <3>1. /\ UNCHANGED <<lockVars, enqueued, lostReplies, event>>
            /\ \E label \in {"setnx", "incr", "hincrby"} : pc' = [pc EXCEPT ![w] = label]
        BY <2>4 DEF SaveAttempt, DeadLetter, CountMove, Goto, frame, reviewVars
      <3>2. QED
        BY <1>1, <2>1, <3>1 DEF PcLabels
    <2>5. CASE EndReview(w) \/ RetryDone(w) \/ CountRepoMove(w)
      BY <1>2, <2>1, <2>5 DEF EndReview, RetryDone, CountRepoMove, JobDone, reviewVars
    <2>6. CASE \/ RetryRaises(w) \/ SaveAttemptFails(w) \/ DeadLetterFails(w)
               \/ CountFails(w) \/ WorkhorseCrash(w)
      BY <1>2, <2>1, <2>6 DEF RetryRaises, SaveAttemptFails, DeadLetterFails, CountFails,
         WorkhorseCrash, JobFails, reviewVars
    <2>7. QED
      BY <1>4, <2>2, <2>3, <2>4, <2>5, <2>6 DEF WorkerStep, WorkerFault
  <1>5. ASSUME UNCHANGED <<pc, event, lock, lapses, enqueued, lostReplies>>
        PROVE  Admitted'
    BY <1>5 DEF Admitted, ClaimsCovered, LostRepliesEnqueued, HoldersOf, Holding, Key, Locked
  <1>6. ASSUME NEW j \in JobIds, Requeue(j)
        PROVE  Admitted'
    BY <1>5, <1>6 DEF Requeue, procVars, frame, lockVars, reviewVars
  <1>7. ASSUME NEW k \in Keys, Lapse(k)
        PROVE  Admitted'
    <2>1. \A n \in Keys : HoldersOf(n)' = HoldersOf(n)
      BY <1>7 DEF Lapse, procVars, frame, HoldersOf, Holding, Key
    <2>2. UNCHANGED <<enqueued, lostReplies>>
      BY <1>7 DEF Lapse, reviewVars
    <2>3. ASSUME NEW n \in Keys
          PROVE  Locked(n)' + lapses'[n] = Locked(n) + lapses[n] /\ lapses'[n] \in Nat
      BY <1>7, BoundAssumption DEF Lapse, Locked, Shape, TypeOK, LockType
    <2>4. ASSUME NEW n \in Keys
          PROVE  Cardinality(HoldersOf(n)') + enqueued'[n] <= Locked(n)' + lapses'[n] + lostReplies'[n]
      <3>1. lapses[n] \in Nat /\ enqueued[n] \in Nat /\ lostReplies[n] \in Nat
            /\ Locked(n) \in {0, 1} /\ Locked(n)' \in {0, 1}
        BY BoundAssumption DEF Shape, TypeOK, LockType, ReviewType, Locked
      <3>2. Cardinality(HoldersOf(n)') = Cardinality(HoldersOf(n))
        BY <2>1
      <3>3. QED
        BY <2>2, <2>3, <3>1, <3>2, FiniteHolders DEF Admitted, ClaimsCovered
    <2>5. QED
      BY <2>2, <2>4 DEF Admitted, ClaimsCovered, LostRepliesEnqueued
  <1>8. CASE UNCHANGED vars
    BY <1>5, <1>8 DEF vars, procVars, frame, lockVars, reviewVars
  <1>9. QED
    BY <1>3, <1>4, <1>6, <1>7, <1>8 DEF Next

\* Nothing is claimed at first.
LEMMA InitAdmits == Init => Admitted
  <1> SUFFICES ASSUME Init PROVE Admitted
    OBVIOUS
  <1>1. \A k \in Keys : HoldersOf(k) = {}
    BY DEF Init, HoldersOf, Holding
  <1>2. \A k \in Keys : Cardinality(HoldersOf(k)) = 0
    BY <1>1, FS_EmptySet
  <1>3. QED
    BY <1>2 DEF Init, Admitted, ClaimsCovered, LostRepliesEnqueued, Locked

\* The invariant everything below follows from.
LEMMA AdmittedInvariant == Spec => [](Shape /\ Admitted)
  <1>1. Init => Shape /\ Admitted
    BY InitShape, InitAdmits
  <1>2. Shape /\ Admitted /\ [Next]_vars => Shape' /\ Admitted'
    BY NextShape, NextAdmits
  <1>3. QED
    BY <1>1, <1>2, PTL DEF Spec

-----------------------------------------------------------------------------
\* A head commit gets one review job, and another only for a lapse of its
\* lock or a lost reply, however many processes race for it, crash or retry.
THEOREM ReviewsAreExcused == Spec => []DuplicatesAreExcused
  <1>1. Shape /\ Admitted => DuplicatesAreExcused
    <2> SUFFICES ASSUME Shape, Admitted, NEW k \in Keys
                 PROVE  enqueued[k] <= 1 + lapses[k] + lostReplies[k]
      BY DEF DuplicatesAreExcused
    <2>1. Locked(k) \in {0, 1} /\ enqueued[k] \in Nat /\ lapses[k] \in Nat /\ lostReplies[k] \in Nat
      BY BoundAssumption DEF Locked, Shape, TypeOK, LockType, ReviewType
    <2>2. QED
      BY <2>1, FiniteHolders DEF Admitted, ClaimsCovered
  <1>2. QED
    BY <1>1, AdmittedInvariant, PTL

\* Two processes are between SETNX and the outcome of their enqueue for the
\* same head commit only after a lapse of its lock.
THEOREM AdmissionIsExclusive == Spec => []ExclusiveAdmission
  <1>1. Shape /\ Admitted => ExclusiveAdmission
    <2> SUFFICES ASSUME Shape, Admitted, NEW p \in Procs, NEW q \in Procs, p # q,
                        Holding(p), Holding(q), Key(p) = Key(q)
                 PROVE  lapses[Key(p)] > 0
      BY DEF ExclusiveAdmission
    <2>1. PICK k \in Keys : Key(p) = k
      BY CallKey DEF Holding
    <2>2. Cardinality(HoldersOf(k)) >= 2
      <3>1. p \in HoldersOf(k) /\ q \in HoldersOf(k) \ {p}
        BY <2>1 DEF HoldersOf
      <3>2. /\ IsFiniteSet(HoldersOf(k) \ {p})
            /\ Cardinality(HoldersOf(k) \ {p}) = Cardinality(HoldersOf(k)) - 1
        BY <3>1, FiniteHolders, FS_RemoveElement
      <3>3. Cardinality(HoldersOf(k) \ {p}) # 0 /\ Cardinality(HoldersOf(k) \ {p}) \in Nat
        BY <3>1, <3>2, FS_EmptySet, FS_CardinalityType
      <3>4. QED
        BY <3>2, <3>3, FiniteHolders
    <2>3. Locked(k) \in {0, 1} /\ enqueued[k] \in Nat /\ lapses[k] \in Nat /\ lostReplies[k] \in Nat
      BY BoundAssumption DEF Locked, Shape, TypeOK, LockType, ReviewType
    <2>4. QED
      BY <2>1, <2>2, <2>3, FiniteHolders DEF Admitted, ClaimsCovered, LostRepliesEnqueued
  <1>2. QED
    BY <1>1, AdmittedInvariant, PTL

\* A step changes the review jobs and the excuses of one head commit at most:
\* _enqueue_review_once creates a job, seen or unseen, or the lock lapses.
LEMMA StepAdmits ==
  ASSUME Shape, Admitted, [Next]_vars
  PROVE  \/ UNCHANGED <<enqueued, lapses, lostReplies>>
         \/ \E k \in Keys :
              \/ /\ enqueued[k] <= lapses[k] + lostReplies[k]
                 /\ enqueued' = [enqueued EXCEPT ![k] = @ + 1]
                 /\ UNCHANGED lapses
                 /\ \/ UNCHANGED lostReplies
                    \/ lostReplies' = [lostReplies EXCEPT ![k] = @ + 1]
              \/ /\ lapses' = [lapses EXCEPT ![k] = @ + 1]
                 /\ UNCHANGED <<enqueued, lostReplies>>
  <1>1. ASSUME NEW p \in Procs, Enqueue(p) \/ EnqueueFails(p)
        PROVE  /\ Key(p) \in Keys
               /\ enqueued[Key(p)] <= lapses[Key(p)] + lostReplies[Key(p)]
    <2>1. PICK k \in Keys : Key(p) = k
      BY <1>1, CallKey DEF Enqueue, EnqueueFails
    <2>2. Cardinality(HoldersOf(k)) >= 1
      <3>1. p \in HoldersOf(k)
        BY <1>1, <2>1 DEF HoldersOf, Holding, Enqueue, EnqueueFails
      <3>2. Cardinality(HoldersOf(k)) # 0
        BY <3>1, FiniteHolders, FS_EmptySet
      <3>3. QED
        BY <3>2, FiniteHolders
    <2>3. Locked(k) \in {0, 1} /\ enqueued[k] \in Nat /\ lapses[k] \in Nat /\ lostReplies[k] \in Nat
      BY BoundAssumption DEF Locked, Shape, TypeOK, LockType, ReviewType
    <2>4. QED
      BY <2>1, <2>2, <2>3, FiniteHolders DEF Admitted, ClaimsCovered
  <1>2. ASSUME NEW p \in Procs, Once(p) \/ OnceFails(p)
        PROVE  \/ UNCHANGED <<enqueued, lapses, lostReplies>>
               \/ /\ Enqueue(p) \/ EnqueueFails(p)
                  /\ enqueued' = [enqueued EXCEPT ![Key(p)] = @ + 1]
                  /\ UNCHANGED lapses
                  /\ \/ UNCHANGED lostReplies
                     \/ lostReplies' = [lostReplies EXCEPT ![Key(p)] = @ + 1]
    BY <1>2 DEF Once, OnceFails, Acquire, Deduplicate, SetExpiry, Enqueue, Release, AcquireFails,
       SetExpiryFails, EnqueueFails, ReleaseFails, lockVars, reviewVars
  <1>3. ASSUME NEW p \in Apis, ApiStart(p) \/ ApiStep(p) \/ ApiFault(p), ~(Once(p) \/ OnceFails(p))
        PROVE  UNCHANGED <<enqueued, lapses, lostReplies>>
    BY <1>3 DEF ApiStart, ApiStep, ApiFault, StartReplay, StartClear, ReceiveWebhook, Reply,
       Persist, PersistFails, RemoveReplayed, KeepFailed, ReplayAborts, DeleteDlq, RemoveFails,
       DeleteFails, ApiCrash, lockVars, reviewVars
  <1>4. ASSUME NEW w \in Workers, WorkerStep(w) \/ WorkerFault(w), ~(Once(w) \/ OnceFails(w))
        PROVE  UNCHANGED <<enqueued, lapses, lostReplies>>
    BY <1>4 DEF WorkerStep, WorkerFault, StartReview, EndReview, StartRetry, SaveAttempt,
       RetryDone, RetryRaises, DeadLetter, CountMove, CountRepoMove, SaveAttemptFails,
       DeadLetterFails, CountFails, WorkhorseCrash, lockVars, reviewVars
  <1>5. ASSUME NEW j \in JobIds, Requeue(j)
        PROVE  UNCHANGED <<enqueued, lapses, lostReplies>>
    BY <1>5 DEF Requeue, lockVars, reviewVars
  <1>6. ASSUME NEW k \in Keys, Lapse(k)
        PROVE  lapses' = [lapses EXCEPT ![k] = @ + 1] /\ UNCHANGED <<enqueued, lostReplies>>
    BY <1>6 DEF Lapse, reviewVars
  <1>7. CASE UNCHANGED vars
    BY <1>7 DEF vars, lockVars, reviewVars
  <1>8. \A p \in Apis \union Workers : p \in Procs
    BY DEF Procs
  <1>9. QED
    BY <1>1, <1>2, <1>3, <1>4, <1>5, <1>6, <1>7, <1>8 DEF Next

\* The webhook handler, the DLQ replays and the retry worker together do what
\* ReviewAdmission says a review lock does.
THEOREM AdmissionImplemented == Spec => ImplementsAdmission
  <1> DEFINE excuses == [k \in Keys |-> lapses[k] + lostReplies[k]]
  <1>1. Init => Admission!Init
    <2> SUFFICES ASSUME Init PROVE Admission!Init
      OBVIOUS
    <2>1. \A k \in Keys : lapses[k] + lostReplies[k] = 0
      BY DEF Init
    <2>2. QED
      BY <2>1 DEF Init, Admission!Init
  <1>2. Shape /\ Admitted /\ [Next]_vars => [Admission!Next]_(Admission!vars)
    <2> SUFFICES ASSUME Shape, Admitted, [Next]_vars
                 PROVE  Admission!Next \/ UNCHANGED <<enqueued, excuses>>
      BY DEF Admission!vars
    <2>1. /\ lapses \in [Keys -> Int] /\ lostReplies \in [Keys -> Int]
      BY BoundAssumption DEF Shape, TypeOK, LockType, ReviewType
    <2>2. CASE UNCHANGED <<enqueued, lapses, lostReplies>>
      BY <2>2
    <2>3. ASSUME NEW k \in Keys,
                 enqueued[k] <= lapses[k] + lostReplies[k],
                 enqueued' = [enqueued EXCEPT ![k] = @ + 1],
                 UNCHANGED lapses, UNCHANGED lostReplies
          PROVE  Admission!Admit(k)
      BY <2>3 DEF Admission!Admit
    <2>4. ASSUME NEW k \in Keys,
                 enqueued[k] <= lapses[k] + lostReplies[k],
                 enqueued' = [enqueued EXCEPT ![k] = @ + 1],
                 UNCHANGED lapses, lostReplies' = [lostReplies EXCEPT ![k] = @ + 1]
          PROVE  Admission!AdmitUnseen(k)
      <3>1. \A n \in Keys : lapses'[n] + lostReplies'[n] =
                            IF n = k THEN lapses[k] + lostReplies[k] + 1
                            ELSE lapses[n] + lostReplies[n]
        BY <2>4, <2>1
      <3>2. excuses' = [excuses EXCEPT ![k] = @ + 1]
        BY <3>1
      <3>3. QED
        BY <2>4, <3>2 DEF Admission!AdmitUnseen
    <2>5. ASSUME NEW k \in Keys,
                 lapses' = [lapses EXCEPT ![k] = @ + 1], UNCHANGED <<enqueued, lostReplies>>
          PROVE  Admission!Lapse(k)
      <3>1. \A n \in Keys : lapses'[n] + lostReplies'[n] =
                            IF n = k THEN lapses[k] + lostReplies[k] + 1
                            ELSE lapses[n] + lostReplies[n]
        BY <2>5, <2>1
      <3>2. excuses' = [excuses EXCEPT ![k] = @ + 1]
        BY <3>1
      <3>3. QED
        BY <2>5, <3>2 DEF Admission!Lapse
    <2>6. QED
      BY <2>2, <2>3, <2>4, <2>5, StepAdmits DEF Admission!Next
  <1>3. QED
    BY <1>1, <1>2, AdmittedInvariant, PTL DEF Spec, ImplementsAdmission, Admission!Spec
=============================================================================
