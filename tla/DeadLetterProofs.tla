-------------------------- MODULE DeadLetterProofs --------------------------
(***************************************************************************)
(* What becomes of an event that could not be enqueued, for any number of  *)
(* processes, deliveries, retry jobs and faults: that its job writes one   *)
(* entry of the dead-letter queue and ends, that the counters follow the   *)
(* queue, that no acknowledged event is lost, and that its job moves in    *)
(* one direction only, so that it does not go on forever.                  *)
(*                                                                         *)
(* The steps of a process are sorted by what they do to the jobs and the   *)
(* dead-letter queue (ProcessKinds); the invariants are shown kind by      *)
(* kind.                                                                   *)
(***************************************************************************)
EXTENDS WebhookRetryProofs

Counting == {"incr", "hincrby"}

\* No process but p moves.
Still(p) ==
  \A q \in Procs \ {p} :
    /\ pc'[q] = pc[q] /\ role'[q] = role[q] /\ status'[q] = status[q]
    /\ event'[q] = event[q] /\ job'[q] = job[q] /\ plan'[q] = plan[q]

\* Review jobs and presumptions are never taken back.
Grows ==
  /\ \A k \in Keys : enqueued[k] > 0 => enqueued'[k] > 0
  /\ presumed \subseteq presumed'

\* A command of _enqueue_review_once or save_meta: what p returns is true.
Talks(p) ==
  /\ UNCHANGED <<frame, jobState, jobEvent, retriesLeft, dlqVars, resp>>
  /\ pc[p] \notin Counting /\ pc'[p] \notin Counting
  /\ pc'[p] = "return" =>
       \/ status'[p] \in {"raised", "failed"}
       \/ status'[p] = "queued" /\ enqueued'[Key(p)] > 0
       \/ status'[p] = "deduplicated" /\ (enqueued'[Key(p)] > 0 \/ Key(p) \in presumed')

\* persist_webhook_event, or its failure.
Saves(p) ==
  /\ pc[p] = "persist" /\ UNCHANGED <<reviewVars, dlqVars, resp>>
  /\ \E j \in JobIds :
       /\ jobState[j] = "none"
       /\ \/ Return(p, "retrying") /\ NewJob(j, event[p])
          \/ Return(p, "failed") /\ (NewJob(j, event[p]) \/ UNCHANGED jobVars)

\* A request or a review begins.
Begins(p) ==
  /\ pc[p] = "idle" /\ pc'[p] \notin Counting \union {"return"}
  /\ role'[p] # "retry" /\ UNCHANGED <<jobVars, dlqVars, resp>>
  /\ role'[p] = "replay" => event'[p] = Head(plan'[p]).event
  /\ \/ plan'[p] = plan[p]
     \/ dlq # <<>> /\ plan'[p] \in {Listed} \union {<<Listed[i]>> : i \in DOMAIN Listed}

\* A request, one entry of a replay or a review ends, well or not.
Leaves(p) ==
  /\ role[p] # "retry"
  /\ Rest(p) \/ (role[p] = "replay" /\ NextEntry(p))
  /\ UNCHANGED <<jobVars, reviewVars, movesTotal, movesByRepo, pushes, pushed>>
  /\ \/ UNCHANGED <<dlq, cleared>>
     \/ DeleteAll
     \/ /\ pc[p] = "return" /\ role[p] = "replay" /\ status[p] \in Accepted
        /\ Remove(Head(plan[p])) /\ UNCHANGED cleared
  /\ \/ UNCHANGED resp
     \/ resp' = [resp EXCEPT ![event[p]] = "lost"]
     \/ /\ pc[p] = "return" /\ role[p] = "webhook"
        /\ resp' = [resp EXCEPT ![event[p]] = Answer(status[p])]

\* A retry job raises or its work horse dies.
Fails(w) ==
  /\ role[w] = "retry" /\ JobFails(w) /\ UNCHANGED <<reviewVars, cleared, resp>>
  /\ \/ UNCHANGED <<dlq, pushes, pushed>>
     \/ RetryReturns(w) /\ Exhausted(w) /\ Push(w)
  /\ \/ UNCHANGED <<movesTotal, movesByRepo>>
     \/ pc[w] = "incr" /\ movesTotal' = movesTotal + 1 /\ UNCHANGED movesByRepo
     \/ pc[w] = "hincrby" /\ movesByRepo' = movesByRepo + 1 /\ UNCHANGED movesTotal

Kinds(p) ==
  \/ Talks(p) \/ Saves(p) \/ Begins(p) \/ Leaves(p) \/ Fails(p)
  \/ StartRetry(p) \/ RetryDone(p) \/ DeadLetter(p) \/ CountMove(p) \/ CountRepoMove(p)

ProcessStep(p) ==
  \/ p \in Apis /\ (ApiStart(p) \/ ApiStep(p) \/ ApiFault(p))
  \/ p \in Workers /\ (WorkerStep(p) \/ WorkerFault(p))

-----------------------------------------------------------------------------
\* However a process moves, it moves alone.
LEMMA MovesAlone ==
  ASSUME Shape, NEW p \in Procs
  PROVE  /\ (\E l \in PcLabels : Goto(p, l)) => Still(p)
         /\ (\E r \in Results : Return(p, r)) => Still(p)
         /\ Rest(p) \/ NextEntry(p) => Still(p)
  BY DEF Shape, TypeOK, ProcType, Goto, Return, Rest, NextEntry, Still, frame

\* The commands of _enqueue_review_once.
LEMMA OnceTalks ==
  ASSUME Shape, NEW p \in Procs, Once(p) \/ OnceFails(p)
  PROVE  Still(p) /\ Grows /\ Talks(p)
  <1>1. pc[p] \in {"setnx", "expire", "enqueue", "release"}
    BY DEF Once, OnceFails, Acquire, Deduplicate, SetExpiry, Enqueue, Release,
           AcquireFails, SetExpiryFails, EnqueueFails, ReleaseFails
  <1>2. Key(p) \in Keys
    BY <1>1, CallKey
  <1>3. /\ pc \in [Procs -> PcLabels] /\ status \in [Procs -> Results]
        /\ enqueued \in [Keys -> Nat]
    BY DEF Shape, TypeOK, ProcType, ReviewType
  <1>4. UNCHANGED <<frame, jobState, jobEvent, retriesLeft, dlqVars, resp>>
    BY DEF Once, OnceFails, Acquire, Deduplicate, SetExpiry, Enqueue, Release,
           AcquireFails, SetExpiryFails, EnqueueFails, ReleaseFails, Goto, Return, jobVars
  <1>5. /\ \E l \in PcLabels \ Counting : pc' = [pc EXCEPT ![p] = l]
        /\ \E r \in Results : status' = [status EXCEPT ![p] = r]
    <2>1. status = [status EXCEPT ![p] = status[p]] /\ status[p] \in Results
      BY <1>3
    <2>2. QED
      BY <2>1 DEF Once, OnceFails, Acquire, Deduplicate, SetExpiry, Enqueue, Release,
           AcquireFails, SetExpiryFails, EnqueueFails, ReleaseFails, Goto, Return, PcLabels,
           Counting, Results
  <1>6. Still(p)
    <2>1. \A q \in Procs \ {p} : pc'[q] = pc[q] /\ status'[q] = status[q]
      BY <1>3, <1>5
    <2>2. QED
      BY <1>4, <2>1 DEF Still, frame
  <1>7. Grows
    <2>1. CASE UNCHANGED reviewVars
      BY <1>3, <2>1 DEF Grows, reviewVars
    <2>2. CASE Deduplicate(p)
      BY <1>3, <2>2 DEF Grows, Deduplicate
    <2>3. ASSUME enqueued' = [enqueued EXCEPT ![Key(p)] = @ + 1], UNCHANGED presumed PROVE Grows
      <3>1. enqueued'[Key(p)] = enqueued[Key(p)] + 1 /\ enqueued[Key(p)] \in Nat
        BY <1>2, <1>3, <2>3
      <3>2. \A k \in Keys \ {Key(p)} : enqueued'[k] = enqueued[k]
        BY <1>3, <2>3
      <3>3. QED
        BY <2>3, <3>1, <3>2 DEF Grows
    <2>4. CASE Enqueue(p) \/ EnqueueFails(p)
      BY <2>1, <2>3, <2>4 DEF Enqueue, EnqueueFails
    <2>5. QED
      BY <2>1, <2>2, <2>4
      DEF Once, OnceFails, Acquire, SetExpiry, Release, AcquireFails, SetExpiryFails, ReleaseFails
  <1>8. pc'[p] = "return" =>
          \/ status'[p] \in {"raised", "failed"}
          \/ status'[p] = "queued" /\ enqueued'[Key(p)] > 0
          \/ status'[p] = "deduplicated" /\ (enqueued'[Key(p)] > 0 \/ Key(p) \in presumed')
    <2>1. CASE Acquire(p) \/ SetExpiry(p) \/ EnqueueFails(p)
      BY <1>3, <2>1 DEF Acquire, SetExpiry, EnqueueFails, Goto
    <2>2. CASE AcquireFails(p) \/ SetExpiryFails(p) \/ ReleaseFails(p) \/ Release(p)
      BY <1>3, <2>2 DEF AcquireFails, SetExpiryFails, ReleaseFails, Release, Return
    <2>3. CASE Deduplicate(p)
      BY <1>2, <1>3, <2>3 DEF Deduplicate, Return
    <2>4. CASE Enqueue(p)
      BY <1>2, <1>3, <2>4 DEF Enqueue, Return
    <2>5. QED
      BY <2>1, <2>2, <2>3, <2>4 DEF Once, OnceFails
  <1>9. QED
    BY <1>1, <1>3, <1>4, <1>5, <1>6, <1>7, <1>8 DEF Talks, Counting

LEMMA ApiKinds ==
  ASSUME Shape, NEW p \in Apis, ApiStart(p) \/ ApiStep(p) \/ ApiFault(p)
  PROVE  Still(p) /\ Grows /\ Kinds(p)
  <1> p \in Procs
    BY DEF Procs
  <1>1. /\ pc \in [Procs -> PcLabels] /\ role \in [Procs -> Roles] /\ status \in [Procs -> Results]
        /\ event \in [Procs -> Deliveries \union {NoEvent}] /\ plan \in [Procs -> Seq(Entries)]
        /\ job \in [Procs -> JobIds \union {NoJob}] /\ enqueued \in [Keys -> Nat]
    BY DEF Shape, TypeOK, ProcType, ReviewType
  <1>2. role[p] # "retry"
    BY ProcessAssumption DEF Shape, FrameOK
  <1>3. UNCHANGED reviewVars => Grows
    BY <1>1 DEF reviewVars, Grows
  <1>4. CASE Once(p) \/ OnceFails(p)
    BY <1>4, OnceTalks DEF Kinds
  <1>5. ASSUME NEW j \in JobIds, Persist(p, j) \/ PersistFails(p, j)
        PROVE  Still(p) /\ Grows /\ Kinds(p)
    <2>1. Saves(p) /\ UNCHANGED reviewVars
      BY <1>5 DEF Persist, PersistFails, Saves
    <2>2. Still(p)
      BY <2>1, MovesAlone DEF Saves, Results
    <2>3. QED
      BY <1>3, <2>1, <2>2 DEF Kinds
  <1>6. ASSUME Leaves(p) PROVE Still(p) /\ Grows /\ Kinds(p)
    BY <1>3, <1>6, MovesAlone DEF Leaves, Kinds
  <1>7. CASE Reply(p)
    BY <1>2, <1>6, <1>7 DEF Reply, Leaves, dlqVars
  <1>8. CASE RemoveReplayed(p)
    BY <1>2, <1>6, <1>8 DEF RemoveReplayed, Leaves
  <1>9. CASE KeepFailed(p)
    BY <1>2, <1>6, <1>9 DEF KeepFailed, Leaves, dlqVars
  <1>10. CASE ReplayAborts(p)
    BY <1>2, <1>6, <1>10 DEF ReplayAborts, Leaves, dlqVars
  <1>11. CASE DeleteDlq(p) \/ DeleteFails(p)
    BY <1>2, <1>6, <1>11 DEF DeleteDlq, DeleteFails, Leaves
  <1>12. CASE RemoveFails(p)
    BY <1>2, <1>6, <1>12 DEF RemoveFails, Leaves
  <1>13. CASE ApiCrash(p)
    BY <1>2, <1>6, <1>13 DEF ApiCrash, Leaves, dlqVars
  <1>14. ASSUME NEW d \in Deliveries, ReceiveWebhook(p, d)
         PROVE  Still(p) /\ Grows /\ Kinds(p)
    BY <1>1, <1>3, <1>14 DEF ReceiveWebhook, Still, Begins, Kinds, Counting
  <1>15. CASE StartReplay(p)
    BY <1>1, <1>3, <1>15 DEF StartReplay, Still, Begins, Kinds, Counting
  <1>16. CASE StartClear(p)
    BY <1>1, <1>3, <1>16 DEF StartClear, Still, Begins, Kinds, Counting
  <1>17. QED
    BY <1>4, <1>5, <1>7, <1>8, <1>9, <1>10, <1>11, <1>12, <1>13, <1>14, <1>15, <1>16
    DEF ApiStart, ApiStep, ApiFault

LEMMA WorkerKinds ==
  ASSUME Shape, NEW w \in Workers, WorkerStep(w) \/ WorkerFault(w)
  PROVE  Still(w) /\ Grows /\ Kinds(w)
  <1> w \in Procs
    BY DEF Procs
  <1>1. /\ pc \in [Procs -> PcLabels] /\ role \in [Procs -> Roles] /\ status \in [Procs -> Results]
        /\ event \in [Procs -> Deliveries \union {NoEvent}] /\ plan \in [Procs -> Seq(Entries)]
        /\ job \in [Procs -> JobIds \union {NoJob}] /\ enqueued \in [Keys -> Nat]
    BY DEF Shape, TypeOK, ProcType, ReviewType
  <1>2. pc[w] \in {"meta", "incr", "hincrby"} => role[w] = "retry"
    BY DEF Shape, TypeOK, ProcType, Roles, FrameOK, OnceLabels
  <1>3. UNCHANGED <<enqueued, presumed>> => Grows
    BY <1>1 DEF Grows
  <1>4. CASE Once(w) \/ OnceFails(w)
    BY <1>4, OnceTalks DEF Kinds
  <1>5. CASE StartReview(w)
    BY <1>1, <1>3, <1>5 DEF StartReview, Still, Begins, Kinds, Counting
  <1>6. CASE EndReview(w)
    <2>1. role[w] # "retry"
      BY <1>6 DEF EndReview, Shape, FrameOK, OnceLabels
    <2>2. Leaves(w)
      BY <1>6, <2>1 DEF EndReview, Leaves, dlqVars
    <2>3. QED
      BY <1>3, <2>2, MovesAlone DEF Leaves, reviewVars, Kinds
  <1>7. CASE StartRetry(w)
    BY <1>1, <1>3, <1>7 DEF StartRetry, reviewVars, Still, Kinds
  <1>8. CASE SaveAttempt(w)
    <2>1. Still(w) /\ Grows
      BY <1>3, <1>8, MovesAlone DEF SaveAttempt, reviewVars, PcLabels
    <2>2. Talks(w)
      BY <1>1, <1>8 DEF SaveAttempt, Goto, Talks, Counting
    <2>3. QED
      BY <2>1, <2>2 DEF Kinds
  <1>9. ASSUME Fails(w) PROVE Still(w) /\ Grows /\ Kinds(w)
    BY <1>3, <1>9, MovesAlone DEF Fails, JobFails, reviewVars, Kinds
  <1>10. CASE SaveAttemptFails(w)
    BY <1>2, <1>9, <1>10 DEF SaveAttemptFails, Fails, dlqVars
  <1>11. CASE RetryRaises(w)
    BY <1>9, <1>11 DEF RetryRaises, RetryReturns, Fails, dlqVars
  <1>12. CASE DeadLetterFails(w)
    BY <1>9, <1>12 DEF DeadLetterFails, RetryReturns, Fails
  <1>13. CASE CountFails(w)
    BY <1>2, <1>9, <1>13 DEF CountFails, Fails
  <1>14. CASE WorkhorseCrash(w)
    BY <1>9, <1>14 DEF WorkhorseCrash, Fails, dlqVars
  <1>15. CASE RetryDone(w) \/ CountRepoMove(w)
    BY <1>3, <1>15, MovesAlone DEF RetryDone, CountRepoMove, JobDone, reviewVars, Kinds
  <1>16. CASE DeadLetter(w) \/ CountMove(w)
    BY <1>3, <1>16, MovesAlone DEF DeadLetter, CountMove, reviewVars, Kinds, PcLabels
  <1>17. QED
    BY <1>4, <1>5, <1>6, <1>7, <1>8, <1>10, <1>11, <1>12, <1>13, <1>14, <1>15, <1>16
    DEF WorkerStep, WorkerFault

\* Every step of a process is of one of the kinds.
LEMMA ProcessKinds ==
  ASSUME Shape, NEW p \in Procs, ProcessStep(p)
  PROVE  Still(p) /\ Grows /\ Kinds(p)
  BY ApiKinds, WorkerKinds DEF ProcessStep

\* The others are of RQ's scheduler and of the clock, or none.
LEMMA AnyStep ==
  ASSUME [Next]_vars
  PROVE  \/ \E p \in Procs : ProcessStep(p)
         \/ \E j \in JobIds : Requeue(j)
         \/ \E k \in Keys : Lapse(k)
         \/ UNCHANGED vars
  BY DEF Next, Procs, ProcessStep
-----------------------------------------------------------------------------
(* The counters follow the queue.                                          *)

\* The workers whose next command is the one of the label.
Moving(label) == {p \in Procs : pc[p] = label}

At(p, label) == IF pc[p] = label THEN 1 ELSE 0

\* An entry that was pushed and is not counted yet has a worker that is at it.
CountersFollow ==
  /\ movesTotal + Cardinality(Moving("incr")) <= pushes
  /\ movesByRepo + Cardinality(Moving("hincrby")) <= movesTotal

LEMMA FiniteMoving ==
  ASSUME NEW label
  PROVE  IsFiniteSet(Moving(label)) /\ Cardinality(Moving(label)) \in Nat
  <1>1. Moving(label) \subseteq Procs
    BY DEF Moving
  <1>2. QED
    BY <1>1, FiniteProcesses, FS_Subset, FS_CardinalityType DEF Procs

\* When only p moves, a label loses or gains p and no other.
LEMMA MovingStep ==
  ASSUME NEW p \in Procs, NEW label, Still(p)
  PROVE  /\ Cardinality(Moving(label))'
              = Cardinality(Moving(label)) - At(p, label) + At(p, label)'
         /\ Cardinality(Moving(label))' \in Nat
  <1> DEFINE rest == Moving(label) \ {p}
  <1>1. Moving(label)' = IF pc'[p] = label THEN rest \union {p} ELSE rest
    BY DEF Moving, Still
  <1>2. /\ IsFiniteSet(Moving(label)) /\ Cardinality(Moving(label)) \in Nat
        /\ IsFiniteSet(rest) /\ Cardinality(rest) \in Nat
    BY FiniteMoving, FS_RemoveElement, FS_CardinalityType
  <1>3. Cardinality(rest) = Cardinality(Moving(label)) - At(p, label)
    <2>1. CASE pc[p] = label
      <3>1. p \in Moving(label) /\ At(p, label) = 1
        BY <2>1 DEF Moving, At
      <3>2. QED
        BY <1>2, <3>1, FS_RemoveElement
    <2>2. CASE pc[p] # label
      <3>1. rest = Moving(label) /\ At(p, label) = 0
        BY <2>2 DEF Moving, At
      <3> HIDE DEF rest
      <3>2. QED
        BY <1>2, <3>1
    <2>3. QED
      BY <2>1, <2>2
  <1>4. Cardinality(Moving(label)') = Cardinality(rest) + At(p, label)'
    <2>1. p \notin rest
      OBVIOUS
    <2> HIDE DEF rest
    <2>2. CASE pc'[p] = label
      BY <1>1, <1>2, <2>1, <2>2, FS_AddElement DEF At
    <2>3. CASE pc'[p] # label
      BY <1>1, <1>2, <2>3 DEF At
    <2>4. QED
      BY <2>2, <2>3
  <1>5. Cardinality(rest) + At(p, label)' \in Nat
    BY <1>2 DEF At
  <1>6. QED
    BY <1>3, <1>4, <1>5

\* Only a retry job counts.
LEMMA CountingIsRetry ==
  ASSUME Shape, NEW p \in Procs, pc[p] \in Counting
  PROVE  role[p] = "retry"
  BY DEF Shape, TypeOK, ProcType, Roles, FrameOK, OnceLabels, Counting

LEMMA CountersStep ==
  ASSUME Shape, CountersFollow, NEW p \in Procs, Still(p), Kinds(p)
  PROVE  CountersFollow'
  <1>1. /\ pc \in [Procs -> PcLabels] /\ movesTotal \in Nat /\ movesByRepo \in Nat
        /\ pushes \in Nat
    BY DEF Shape, TypeOK, ProcType, DlqType
  <1> DEFINE a == Cardinality(Moving("incr"))
             b == Cardinality(Moving("hincrby"))
  <1>2. /\ a \in Nat /\ b \in Nat /\ a' \in Nat /\ b' \in Nat
        /\ a' = a - At(p, "incr") + At(p, "incr")'
        /\ b' = b - At(p, "hincrby") + At(p, "hincrby")'
    BY FiniteMoving, MovingStep
  <1>3. movesTotal + a <= pushes /\ movesByRepo + b <= movesTotal
    BY DEF CountersFollow
  <1> SUFFICES movesTotal' + a' <= pushes' /\ movesByRepo' + b' <= movesTotal'
    BY DEF CountersFollow
  <1> HIDE DEF a, b
  <1>4. ASSUME UNCHANGED <<movesTotal, movesByRepo>>, pc'[p] \notin Counting,
               pushes' \in {pushes, pushes + 1}
        PROVE  movesTotal' + a' <= pushes' /\ movesByRepo' + b' <= movesTotal'
    BY <1>1, <1>2, <1>3, <1>4 DEF At, Counting
  <1>5. CASE Talks(p)
    BY <1>4, <1>5 DEF Talks, dlqVars
  <1>6. CASE Saves(p)
    BY <1>1, <1>4, <1>6 DEF Saves, dlqVars, Return, Counting
  <1>7. CASE Begins(p)
    BY <1>4, <1>7 DEF Begins, dlqVars
  <1>8. CASE Leaves(p)
    BY <1>1, <1>4, <1>8 DEF Leaves, Rest, NextEntry, Counting
  <1>9. CASE Fails(p)
    <2>1. pc'[p] = "idle"
      BY <1>1, <1>9 DEF Fails, JobFails, Rest
    <2>2. pushes' \in {pushes, pushes + 1}
      BY <1>9 DEF Fails, Push
    <2>3. CASE UNCHANGED <<movesTotal, movesByRepo>>
      BY <1>4, <2>1, <2>2, <2>3 DEF Counting
    <2>4. CASE pc[p] = "incr" /\ movesTotal' = movesTotal + 1 /\ UNCHANGED movesByRepo
      BY <1>1, <1>2, <1>3, <2>1, <2>2, <2>4 DEF At
    <2>5. CASE pc[p] = "hincrby" /\ movesByRepo' = movesByRepo + 1 /\ UNCHANGED movesTotal
      BY <1>1, <1>2, <1>3, <2>1, <2>2, <2>5 DEF At
    <2>6. QED
      BY <1>9, <2>3, <2>4, <2>5 DEF Fails
  <1>10. CASE StartRetry(p)
    BY <1>1, <1>4, <1>10 DEF StartRetry, dlqVars, Counting
  <1>11. CASE RetryDone(p)
    BY <1>1, <1>4, <1>11 DEF RetryDone, JobDone, Rest, dlqVars, Counting
  <1>12. CASE DeadLetter(p)
    <2>1. /\ pc[p] = "return" /\ pc'[p] = "incr" /\ pushes' = pushes + 1
          /\ UNCHANGED <<movesTotal, movesByRepo>>
      BY <1>1, <1>12 DEF DeadLetter, RetryReturns, Goto, Push
    <2>2. QED
      BY <1>1, <1>2, <1>3, <2>1 DEF At
  <1>13. CASE CountMove(p)
    <2>1. /\ pc[p] = "incr" /\ pc'[p] = "hincrby" /\ movesTotal' = movesTotal + 1
          /\ UNCHANGED <<pushes, movesByRepo>>
      BY <1>1, <1>13 DEF CountMove, Goto
    <2>2. QED
      BY <1>1, <1>2, <1>3, <2>1 DEF At
  <1>14. CASE CountRepoMove(p)
    <2>1. /\ pc[p] = "hincrby" /\ pc'[p] = "idle" /\ movesByRepo' = movesByRepo + 1
          /\ UNCHANGED <<pushes, movesTotal>>
      BY <1>1, <1>14 DEF CountRepoMove, JobDone, Rest
    <2>2. QED
      BY <1>1, <1>2, <1>3, <2>1 DEF At
  <1>15. QED
    BY <1>5, <1>6, <1>7, <1>8, <1>9, <1>10, <1>11, <1>12, <1>13, <1>14 DEF Kinds

\* The counters of dead letters never run ahead of each other or of the queue,
\* whatever fails between the three commands of any number of workers.
THEOREM CountersAreBracketed == Spec => []CountersBracketed
  <1>1. Init => CountersFollow
    <2> SUFFICES ASSUME Init PROVE CountersFollow
      OBVIOUS
    <2>1. Moving("incr") = {} /\ Moving("hincrby") = {}
      BY DEF Init, Moving
    <2>2. Cardinality(Moving("incr")) = 0 /\ Cardinality(Moving("hincrby")) = 0
      BY <2>1, FS_EmptySet
    <2>3. movesTotal = 0 /\ movesByRepo = 0 /\ pushes = 0
      BY DEF Init
    <2>4. QED
      BY <2>2, <2>3 DEF CountersFollow
  <1>2. Shape /\ CountersFollow /\ [Next]_vars => CountersFollow'
    <2> SUFFICES ASSUME Shape, CountersFollow, [Next]_vars PROVE CountersFollow'
      OBVIOUS
    <2>1. ASSUME UNCHANGED <<pc, movesTotal, movesByRepo, pushes>> PROVE CountersFollow'
      BY <2>1 DEF CountersFollow, Moving
    <2>2. QED
      BY <2>1, AnyStep, ProcessKinds, CountersStep DEF Requeue, Lapse, vars, procVars, dlqVars
  <1>3. Shape /\ CountersFollow => CountersBracketed
    BY FiniteMoving DEF Shape, TypeOK, DlqType, CountersFollow, CountersBracketed
  <1>4. QED
    BY <1>1, <1>2, <1>3, ShapeInvariant, PTL DEF Spec
-----------------------------------------------------------------------------
(* A job that has written its entry is at its end.                         *)

\* It is being counted, done or failed, and has no retries left.
Ended ==
  /\ \A j \in JobIds :
       /\ pushed[j] <= 1
       /\ pushed[j] > 0 => jobState[j] \in {"started", "done", "failed"} /\ retriesLeft[j] = 0
  /\ \A p \in Procs : role[p] = "retry" => (pushed[job[p]] > 0 <=> pc[p] \in Counting)

\* A job that is out of attempts is out of retries.
LEMMA ExhaustedIsLast ==
  ASSUME Shape, NEW w \in Procs, RetryReturns(w), Exhausted(w)
  PROVE  /\ role[w] = "retry" /\ job[w] \in JobIds /\ jobState[job[w]] = "started"
         /\ jobEvent[job[w]] \in Deliveries
         /\ retriesLeft[job[w]] = 0
  <1>1. role[w] = "retry" /\ job[w] \in JobIds /\ pc[w] = "return"
    BY DEF RetryReturns, Shape, FrameOK
  <1>2. attempt[job[w]] + retriesLeft[job[w]] <= MaxAttempts /\ jobState[job[w]] = "started"
    BY <1>1 DEF Shape, RunOK
  <1>3. /\ attempt[job[w]] \in Nat /\ retriesLeft[job[w]] \in Nat
        /\ attempt[job[w]] >= MaxAttempts
    BY <1>1, AttemptsAssumption DEF Shape, TypeOK, JobType, Exhausted
  <1>4. QED
    BY <1>1, <1>2, <1>3, AttemptsAssumption DEF Shape, JobOK

LEMMA EndedStep ==
  ASSUME Shape, Ended, NEW p \in Procs, Still(p), Kinds(p)
  PROVE  Ended'
  <1>1. /\ pc \in [Procs -> PcLabels] /\ role \in [Procs -> Roles]
        /\ job \in [Procs -> JobIds \union {NoJob}]
        /\ jobState \in [JobIds -> {"none", "queued", "started", "scheduled", "done", "failed"}]
        /\ retriesLeft \in [JobIds -> Nat] /\ pushed \in [JobIds -> Nat]
    BY AttemptsAssumption DEF Shape, TypeOK, ProcType, JobType, DlqType
  <1>2. \A q \in Procs : role[q] = "retry" => job[q] \in JobIds /\ jobState[job[q]] = "started"
    BY DEF Shape, FrameOK, RunOK
  <1>3. \A q \in Procs \ {p} : role[q] = "retry" /\ role[p] = "retry" => job[q] # job[p]
    BY DEF Shape, RunOK
  <1>4. \A q \in Procs : q # p =>
          role'[q] = role[q] /\ job'[q] = job[q] /\ pc'[q] = pc[q]
    BY DEF Still
  <1>5. pc[p] \in Counting => role[p] = "retry"
    BY CountingIsRetry
  \* A step that writes no entry and starts no job.
  <1>6. ASSUME UNCHANGED <<jobState, retriesLeft, pushed>>,
               role'[p] = "retry" =>
                 role[p] = "retry" /\ job'[p] = job[p] /\ (pc'[p] \in Counting <=> pc[p] \in Counting)
        PROVE  Ended'
    BY <1>4, <1>6 DEF Ended
  <1>7. CASE Talks(p)
    BY <1>6, <1>7 DEF Talks, frame, dlqVars
  <1>8. CASE Saves(p)
    <2>1. PICK j \in JobIds :
            /\ jobState[j] = "none" /\ UNCHANGED <<role, job, pushed>>
            /\ \/ jobState' = jobState /\ retriesLeft' = retriesLeft
               \/ /\ jobState' = [jobState EXCEPT ![j] = "queued"]
                  /\ retriesLeft' = [retriesLeft EXCEPT ![j] = MaxAttempts - 1]
      BY <1>8 DEF Saves, NewJob, Return, frame, dlqVars, jobVars
    <2>2. role[p] # "retry"
      BY <1>8 DEF Saves, Shape, FrameOK, OnceLabels
    <2>3. pushed[j] = 0
      BY <1>1, <2>1 DEF Ended
    <2>4. \A n \in JobIds \ {j} : jobState'[n] = jobState[n] /\ retriesLeft'[n] = retriesLeft[n]
      BY <1>1, <2>1
    <2>5. QED
      BY <1>4, <2>1, <2>2, <2>3, <2>4 DEF Ended
  <1>9. CASE Begins(p)
    BY <1>6, <1>9 DEF Begins, jobVars, dlqVars
  <1>10. CASE Leaves(p)
    <2>1. role'[p] # "retry"
      BY <1>1, <1>10 DEF Leaves, Rest, NextEntry
    <2>2. QED
      BY <1>6, <1>10, <2>1 DEF Leaves, jobVars
  <1>11. CASE StartRetry(p)
    <2> DEFINE j == Head(retryQ)
    <2>1. j \in JobIds /\ jobState[j] = "queued"
      <3>1. retryQ \in Seq(JobIds) /\ retryQ # <<>>
        BY <1>11 DEF StartRetry, Shape, TypeOK, JobType
      <3>2. j \in JobIds /\ j = retryQ[1] /\ 1 \in 1..Len(retryQ)
        BY <3>1, HeadTailProperties
      <3>3. QED
        BY <3>2 DEF Shape, JobOK
    <2> HIDE DEF j
    <2>2. /\ jobState' = [jobState EXCEPT ![j] = "started"] /\ UNCHANGED <<retriesLeft, pushed>>
          /\ job'[p] = j /\ pc'[p] = "meta"
      BY <1>1, <1>11, <2>1 DEF StartRetry, dlqVars, j
    <2>3. pushed[j] = 0
      BY <1>1, <2>1 DEF Ended
    <2>4. \A n \in JobIds \ {j} : jobState'[n] = jobState[n]
      BY <1>1, <2>2
    <2>5. QED
      BY <1>4, <2>1, <2>2, <2>3, <2>4 DEF Ended, Counting
  <1>12. ASSUME role[p] = "retry", role'[p] = "none", UNCHANGED pushed,
                NEW next \in {"done", "scheduled", "failed"},
                pushed[job[p]] > 0 => next # "scheduled",
                jobState' = [jobState EXCEPT ![job[p]] = next],
                NEW left \in Nat, left <= retriesLeft[job[p]],
                retriesLeft' = [retriesLeft EXCEPT ![job[p]] = left]
         PROVE  Ended'
    <2>1. job[p] \in JobIds
      BY <1>2, <1>12
    <2>2. /\ jobState'[job[p]] = next /\ retriesLeft'[job[p]] = left
          /\ \A n \in JobIds \ {job[p]} :
               jobState'[n] = jobState[n] /\ retriesLeft'[n] = retriesLeft[n]
      BY <1>1, <1>12, <2>1
    <2>3. QED
      BY <1>1, <1>4, <1>12, <2>1, <2>2 DEF Ended
  <1>13. CASE RetryDone(p) \/ CountRepoMove(p)
    <2>1. /\ role'[p] = "none" /\ UNCHANGED <<pushed, retriesLeft>>
          /\ jobState' = [jobState EXCEPT ![job[p]] = "done"]
      BY <1>1, <1>13 DEF RetryDone, CountRepoMove, JobDone, Rest, dlqVars
    <2>2. role[p] = "retry" /\ job[p] \in JobIds
      BY <1>2, <1>5, <1>13 DEF RetryDone, RetryReturns, CountRepoMove, Counting
    <2>3. PICK left \in Nat : left = retriesLeft[job[p]]
      BY <1>1, <2>2
    <2>4. left <= retriesLeft[job[p]] /\ retriesLeft' = [retriesLeft EXCEPT ![job[p]] = left]
      BY <1>1, <2>1, <2>2, <2>3
    <2>5. QED
      BY <1>12, <2>1, <2>2, <2>4
  \* What RQ makes of a failure, and how often the job is pushed before it.
  <1>14. ASSUME role[p] = "retry", JobFails(p), UNCHANGED pushed PROVE Ended'
    <2> DEFINE j == job[p]
    <2>1. pushed[j] > 0 => retriesLeft[j] = 0
      BY <1>2, <1>14 DEF Ended
    <2>2. role'[p] = "none"
      BY <1>1, <1>14 DEF JobFails, Rest
    <2>3. j \in JobIds /\ retriesLeft[j] \in Nat
      BY <1>1, <1>2, <1>14
    <2>4. CASE retriesLeft[j] > 0
      <3>1. /\ jobState' = [jobState EXCEPT ![j] = "scheduled"]
            /\ retriesLeft' = [retriesLeft EXCEPT ![j] = retriesLeft[j] - 1]
        BY <1>14, <2>4 DEF JobFails
      <3>2. ~(pushed[j] > 0) /\ retriesLeft[j] - 1 \in Nat /\ retriesLeft[j] - 1 <= retriesLeft[j]
        BY <2>1, <2>3, <2>4
      <3>3. QED
        BY <1>12, <1>14, <2>2, <3>1, <3>2
    <2>5. CASE ~(retriesLeft[j] > 0)
      <3>1. /\ jobState' = [jobState EXCEPT ![j] = "failed"]
            /\ retriesLeft' = [retriesLeft EXCEPT ![j] = 0]
        BY <1>14, <2>5 DEF JobFails
      <3>2. 0 <= retriesLeft[j]
        BY <2>3
      <3>3. QED
        BY <1>12, <1>14, <2>2, <3>1, <3>2
    <2>6. QED
      BY <2>4, <2>5
  <1>15. ASSUME RetryReturns(p), Exhausted(p), Push(p),
                NEW next \in {"started", "failed"}, next = jobState'[job[p]],
                \A n \in JobIds \ {job[p]} :
                  jobState'[n] = jobState[n] /\ retriesLeft'[n] = retriesLeft[n],
                retriesLeft'[job[p]] = 0,
                role'[p] = "none" \/ (job'[p] = job[p] /\ pc'[p] \in Counting)
         PROVE  Ended'
    <2>1. role[p] = "retry" /\ job[p] \in JobIds /\ pc[p] \notin Counting
      BY <1>15, ExhaustedIsLast DEF RetryReturns, Counting
    <2>2. pushed[job[p]] = 0
      BY <1>1, <2>1 DEF Ended
    <2>3. pushed'[job[p]] = 1 /\ \A n \in JobIds \ {job[p]} : pushed'[n] = pushed[n]
      BY <1>1, <1>15, <2>1, <2>2 DEF Push
    <2>4. QED
      BY <1>2, <1>3, <1>4, <1>15, <2>1, <2>3 DEF Ended
  <1>16. CASE Fails(p)
    <2>1. role[p] = "retry" /\ JobFails(p)
      BY <1>16 DEF Fails
    <2>2. CASE UNCHANGED <<dlq, pushes, pushed>>
      BY <1>14, <2>1, <2>2
    <2>3. CASE RetryReturns(p) /\ Exhausted(p) /\ Push(p)
      <3>1. retriesLeft[job[p]] = 0 /\ job[p] \in JobIds
        BY <2>3, ExhaustedIsLast
      <3>2. /\ jobState' = [jobState EXCEPT ![job[p]] = "failed"]
            /\ retriesLeft' = [retriesLeft EXCEPT ![job[p]] = 0] /\ role'[p] = "none"
        BY <1>1, <2>1, <3>1 DEF JobFails, Rest
      <3>3. /\ jobState'[job[p]] = "failed" /\ retriesLeft'[job[p]] = 0
            /\ \A n \in JobIds \ {job[p]} :
                 jobState'[n] = jobState[n] /\ retriesLeft'[n] = retriesLeft[n]
        BY <1>1, <3>1, <3>2
      <3>4. QED
        BY <1>15, <2>3, <3>2, <3>3
    <2>4. QED
      BY <1>16, <2>2, <2>3 DEF Fails
  <1>17. CASE DeadLetter(p)
    <2>1. /\ RetryReturns(p) /\ Exhausted(p) /\ Push(p) /\ UNCHANGED <<jobState, retriesLeft>>
          /\ job'[p] = job[p] /\ pc'[p] \in Counting
      BY <1>1, <1>17 DEF DeadLetter, Goto, frame, jobVars, Counting
    <2>2. jobState'[job[p]] = "started" /\ retriesLeft'[job[p]] = 0
      BY <2>1, ExhaustedIsLast
    <2>3. QED
      BY <1>15, <2>1, <2>2
  <1>18. CASE CountMove(p)
    <2>1. /\ UNCHANGED <<jobState, retriesLeft, pushed>> /\ job'[p] = job[p] /\ role'[p] = role[p]
          /\ pc'[p] \in Counting /\ pc[p] \in Counting
      BY <1>1, <1>18 DEF CountMove, Goto, frame, jobVars, Counting
    <2>2. QED
      BY <1>6, <2>1
  <1>19. QED
    BY <1>7, <1>8, <1>9, <1>10, <1>11, <1>13, <1>16, <1>17, <1>18 DEF Kinds

LEMMA EndedInvariant == Spec => []Ended
  <1>1. Init => Ended
    BY DEF Init, Ended
  <1>2. Shape /\ Ended /\ [Next]_vars => Ended'
    <2> SUFFICES ASSUME Shape, Ended, [Next]_vars PROVE Ended'
      OBVIOUS
    <2>1. ASSUME NEW j \in JobIds, Requeue(j) PROVE Ended'
      <3>1. /\ jobState[j] = "scheduled" /\ jobState' = [jobState EXCEPT ![j] = "queued"]
            /\ UNCHANGED <<retriesLeft, pushed, role, job, pc>>
        BY <2>1 DEF Requeue, dlqVars, procVars, frame
      <3>2. ~(pushed[j] > 0)
        BY <3>1 DEF Ended
      <3>3. \A n \in JobIds \ {j} : jobState'[n] = jobState[n]
        BY <3>1 DEF Shape, TypeOK, JobType
      <3>4. QED
        BY <3>1, <3>2, <3>3 DEF Ended
    <2>2. ASSUME UNCHANGED <<jobState, retriesLeft, pushed, role, job, pc>> PROVE Ended'
      BY <2>2 DEF Ended
    <2>3. QED
      BY <2>1, <2>2, AnyStep, ProcessKinds, EndedStep
      DEF Lapse, vars, jobVars, dlqVars, procVars, frame
  <1>3. QED
    BY <1>1, <1>2, ShapeInvariant, PTL DEF Spec

\* However a retry job fails, is run again or dies between the commands of
\* move_to_dlq, it writes one entry at most.
THEOREM EntriesAreWrittenOnce == Spec => []DeadLetteredOnce
  <1>1. Ended => DeadLetteredOnce
    BY DEF Ended, DeadLetteredOnce
  <1>2. QED
    BY <1>1, EndedInvariant, PTL

\* RQ never runs a job again whose event is in the dead-letter queue.
THEOREM DeadLettersAreFinal == Spec => []DeadLetterIsFinal
  <1>1. Ended => DeadLetterIsFinal
    BY DEF Ended, DeadLetterIsFinal
  <1>2. QED
    BY <1>1, EndedInvariant, PTL
-----------------------------------------------------------------------------
(* Entries are known by their ids.                                         *)

In(e, s) == \E i \in 1..Len(s) : s[i] = e

\* In the queue, or in the snapshot of a replay.
Written(e) == In(e, dlq) \/ \E p \in Procs : In(e, plan[p])

\* Ids are below the next one, and no two entries have the same.
Identified ==
  /\ \A e \in Entries : Written(e) => e.id < pushes
  /\ \A e, f \in Entries : Written(e) /\ Written(f) /\ e.id = f.id => e = f

\* A process has the event of its entry, or of its job.
EventsAgree ==
  \A p \in Procs : /\ role[p] = "replay" => event[p] = Head(plan[p]).event
                   /\ role[p] = "retry" => event[p] = jobEvent[job[p]]

\* What is left of the queue without one entry of it.
LEMMA TakeOut ==
  ASSUME dlq \in Seq(Entries), NEW i \in 1..Len(dlq)
  PROVE  /\ \A e : In(e, Without(i)) => In(e, dlq)
         /\ \A n \in 1..Len(dlq) : n # i => In(dlq[n], Without(i))
  <1> DEFINE left == SubSeq(dlq, 1, i - 1)
             right == SubSeq(dlq, i + 1, Len(dlq))
  <1>1. Len(dlq) \in Nat /\ i \in Nat /\ \A n \in 1..Len(dlq) : dlq[n] \in Entries
    OBVIOUS
  <1>2. /\ left \in Seq(Entries) /\ Len(left) = i - 1
        /\ \A n \in 1..i - 1 : left[n] = dlq[n]
    <2>1. \A n \in 1..i - 1 : dlq[n] \in Entries
      BY <1>1
    <2>2. /\ left \in Seq(Entries) /\ Len(left) = IF 1 <= i - 1 THEN (i - 1) - 1 + 1 ELSE 0
          /\ \A n \in 1..(i - 1) - 1 + 1 : left[n] = dlq[1 + n - 1]
      BY <1>1, <2>1, SubSeqProperties
    <2> HIDE DEF left
    <2>3. QED
      BY <1>1, <2>2
  <1>3. /\ right \in Seq(Entries) /\ Len(right) = Len(dlq) - i
        /\ \A n \in 1..Len(dlq) - i : right[n] = dlq[n + i]
    <2>1. \A n \in i + 1..Len(dlq) : dlq[n] \in Entries
      BY <1>1
    <2>2. /\ right \in Seq(Entries)
          /\ Len(right) = IF i + 1 <= Len(dlq) THEN Len(dlq) - (i + 1) + 1 ELSE 0
          /\ \A n \in 1..Len(dlq) - (i + 1) + 1 : right[n] = dlq[(i + 1) + n - 1]
      BY <1>1, <2>1, SubSeqProperties
    <2> HIDE DEF right
    <2>3. QED
      BY <1>1, <2>2
  <1>4. /\ Len(Without(i)) = Len(dlq) - 1
        /\ \A n \in 1..Len(dlq) - 1 : Without(i)[n] = IF n <= i - 1 THEN dlq[n] ELSE dlq[n + 1]
    <2> HIDE DEF left, right
    <2>1. /\ Len(left \o right) = Len(left) + Len(right)
          /\ \A n \in 1..Len(left) + Len(right) :
               (left \o right)[n] = IF n <= Len(left) THEN left[n] ELSE right[n - Len(left)]
      BY <1>2, <1>3, ConcatProperties
    <2>2. Without(i) = left \o right
      BY DEF Without, left, right
    <2>3. Len(left) + Len(right) = Len(dlq) - 1
      BY <1>1, <1>2, <1>3
    <2>4. ASSUME NEW n \in 1..Len(dlq) - 1
          PROVE  (left \o right)[n] = IF n <= i - 1 THEN dlq[n] ELSE dlq[n + 1]
      <3>1. (left \o right)[n] = IF n <= i - 1 THEN left[n] ELSE right[n - (i - 1)]
        BY <1>2, <2>1, <2>3
      <3>2. CASE n <= i - 1
        <4>1. n \in 1..i - 1
          BY <1>1, <3>2
        <4>2. QED
          BY <1>2, <3>1, <3>2, <4>1
      <3>3. CASE ~(n <= i - 1)
        <4>1. n - (i - 1) \in 1..Len(dlq) - i /\ (n - (i - 1)) + i = n + 1
          BY <1>1, <3>3
        <4>2. right[n - (i - 1)] = dlq[n + 1]
          BY <1>3, <4>1
        <4>3. QED
          BY <3>1, <3>3, <4>2
      <3>4. QED
        BY <3>2, <3>3
    <2>5. QED
      BY <2>1, <2>2, <2>3, <2>4
  <1>5. ASSUME NEW e, In(e, Without(i)) PROVE In(e, dlq)
    <2>1. PICK n \in 1..Len(dlq) - 1 : Without(i)[n] = e
      BY <1>4, <1>5 DEF In
    <2>2. n \in 1..Len(dlq) /\ n + 1 \in 1..Len(dlq)
      BY <1>1, <2>1
    <2>3. QED
      BY <1>4, <2>1, <2>2 DEF In
  <1>6. ASSUME NEW n \in 1..Len(dlq), n # i PROVE In(dlq[n], Without(i))
    <2>1. CASE n < i
      <3>1. n \in 1..Len(dlq) - 1 /\ n <= i - 1
        BY <1>1, <2>1
      <3>2. Without(i)[n] = dlq[n]
        BY <1>4, <3>1
      <3>3. QED
        BY <1>4, <3>1, <3>2 DEF In
    <2>2. CASE n > i
      <3>1. n - 1 \in 1..Len(dlq) - 1 /\ ~(n - 1 <= i - 1) /\ (n - 1) + 1 = n
        BY <1>1, <2>2
      <3>2. Without(i)[n - 1] = dlq[n]
        BY <1>4, <3>1
      <3>3. QED
        BY <1>4, <3>1, <3>2 DEF In
    <2>3. QED
      BY <1>1, <1>6, <2>1, <2>2
  <1>7. QED
    BY <1>5, <1>6

\* What remains of the queue when a replay removes its entry.
LEMMA RemoveOne ==
  ASSUME Shape, Identified, NEW e \in Entries, Written(e), Remove(e)
  PROVE  /\ \A f : In(f, dlq') => In(f, dlq)
         /\ \A f \in Entries : In(f, dlq) /\ f # e => In(f, dlq')
  <1>1. dlq \in Seq(Entries) /\ DOMAIN dlq = 1..Len(dlq)
    BY LenProperties DEF Shape, TypeOK, DlqType
  <1>2. CASE UNCHANGED dlq
    BY <1>2
  <1>3. CASE \E i \in DOMAIN dlq : dlq[i].id = e.id /\ dlq' = Without(i)
    <2>1. PICK i \in 1..Len(dlq) : dlq[i].id = e.id /\ dlq' = Without(i)
      BY <1>1, <1>3
    <2>2. dlq[i] = e
      <3>1. dlq[i] \in Entries
        BY <1>1, ElementOfSeq
      <3>2. Written(dlq[i])
        BY DEF Written, In
      <3>3. QED
        BY <2>1, <3>1, <3>2 DEF Identified
    <2>3. \A f \in Entries : In(f, dlq) /\ f # e => In(f, dlq')
      BY <1>1, <2>1, <2>2, TakeOut DEF In
    <2>4. \A f : In(f, dlq') => In(f, dlq)
      BY <1>1, <2>1, TakeOut
    <2>5. QED
      BY <2>3, <2>4
  <1>4. QED
    BY <1>2, <1>3 DEF Remove

\* What a replay reads is in the queue.
LEMMA ListedIsWritten ==
  ASSUME Shape, dlq # <<>>
  PROVE  /\ Listed \in Seq(Entries) /\ Listed # <<>>
         /\ \A e : In(e, Listed) => In(e, dlq)
  <1> DEFINE m == IF Len(dlq) < ReplayLimit THEN Len(dlq) ELSE ReplayLimit
  <1>1. dlq \in Seq(Entries)
    BY DEF Shape, TypeOK, DlqType
  <1>2. m \in Nat /\ m >= 1 /\ m <= Len(dlq) /\ Len(dlq) \in Nat
    BY <1>1, LimitAssumption
  <1>3. \A n \in 1..m : dlq[n] \in Entries
    BY <1>1, <1>2
  <1>4. Listed = SubSeq(dlq, 1, m)
    BY DEF Listed
  <1> HIDE DEF m
  <1>5. /\ SubSeq(dlq, 1, m) \in Seq(Entries) /\ Len(SubSeq(dlq, 1, m)) = m
        /\ \A n \in 1..m : SubSeq(dlq, 1, m)[n] = dlq[n]
    BY <1>2, <1>3, SubSeqProperties
  <1>6. ASSUME NEW e, In(e, Listed) PROVE In(e, dlq)
    <2>1. PICK n \in 1..m : Listed[n] = e
      BY <1>4, <1>5, <1>6 DEF In
    <2>2. n \in 1..Len(dlq) /\ dlq[n] = e
      BY <1>2, <1>4, <1>5, <2>1
    <2>3. QED
      BY <2>2 DEF In
  <1>7. QED
    BY <1>2, <1>4, <1>5, <1>6

\* The snapshot of a replay has entries that were there before.
LEMMA PlansStep ==
  ASSUME Shape, NEW p \in Procs, Still(p), Kinds(p), NEW q \in Procs, NEW e, In(e, plan'[q])
  PROVE  Written(e)
  <1>1. plan \in [Procs -> Seq(Entries)]
    BY DEF Shape, TypeOK, ProcType
  <1>2. ASSUME plan'[q] = plan[q] PROVE Written(e)
    BY <1>2 DEF Written
  <1>3. CASE q # p
    BY <1>2, <1>3 DEF Still
  <1>4. CASE q = p /\ (plan' = plan \/ plan'[p] = plan[p])
    BY <1>2, <1>4
  <1>5. ASSUME q = p, Rest(p) PROVE Written(e)
    <2>1. plan'[q] = <<>>
      BY <1>1, <1>5 DEF Rest
    <2>2. QED
      BY <2>1 DEF In
  <1>6. ASSUME q = p, role[p] = "replay", NextEntry(p) PROVE Written(e)
    <2>1. CASE Rest(p)
      BY <1>5, <1>6, <2>1
    <2>2. CASE plan' = [plan EXCEPT ![p] = Tail(@)]
      <3>1. plan[p] \in Seq(Entries) /\ plan[p] # <<>> /\ plan'[p] = Tail(plan[p])
        BY <1>1, <1>6, <2>2 DEF Shape, FrameOK
      <3>2. Len(plan[p]) \in Nat /\ Len(Tail(plan[p])) = Len(plan[p]) - 1
            /\ \A n \in 1..Len(Tail(plan[p])) : Tail(plan[p])[n] = plan[p][n + 1]
        BY <3>1, HeadTailProperties, LenProperties
      <3>3. PICK n \in 1..Len(Tail(plan[p])) : Tail(plan[p])[n] = e
        BY <1>6, <3>1 DEF In
      <3>4. n + 1 \in 1..Len(plan[p])
        BY <3>2, <3>3
      <3>5. QED
        BY <3>2, <3>3, <3>4 DEF In, Written
    <2>3. QED
      BY <1>6, <2>1, <2>2 DEF NextEntry
  <1>7. ASSUME q = p, dlq # <<>>,
               plan'[p] \in {Listed} \union {<<Listed[i]>> : i \in DOMAIN Listed}
        PROVE  Written(e)
    <2>1. In(e, Listed)
      <3>1. CASE plan'[p] = Listed
        BY <1>7, <3>1
      <3>2. CASE \E i \in DOMAIN Listed : plan'[p] = <<Listed[i]>>
        <4>1. PICK i \in DOMAIN Listed : plan'[p] = <<Listed[i]>>
          BY <3>2
        <4>2. e = Listed[i]
          BY <1>7, <4>1 DEF In
        <4>3. i \in 1..Len(Listed)
          BY <1>7, <4>1, ListedIsWritten, LenProperties
        <4>4. QED
          BY <4>2, <4>3 DEF In
      <3>3. QED
        BY <1>7, <3>1, <3>2
    <2>2. QED
      BY <1>7, <2>1, ListedIsWritten DEF Written
  <1>8. CASE q = p /\ Talks(p)
    BY <1>4, <1>8 DEF Talks, frame
  <1>9. CASE q = p /\ Saves(p)
    BY <1>4, <1>9 DEF Saves, Return, frame
  <1>10. CASE q = p /\ Begins(p)
    BY <1>4, <1>7, <1>10 DEF Begins
  <1>11. CASE q = p /\ Leaves(p)
    BY <1>5, <1>6, <1>11 DEF Leaves
  <1>12. CASE q = p /\ Fails(p)
    BY <1>5, <1>12 DEF Fails, JobFails
  <1>13. CASE q = p /\ StartRetry(p)
    BY <1>4, <1>13 DEF StartRetry
  <1>14. CASE q = p /\ (RetryDone(p) \/ CountRepoMove(p))
    BY <1>5, <1>14 DEF RetryDone, CountRepoMove, JobDone
  <1>15. CASE q = p /\ (DeadLetter(p) \/ CountMove(p))
    BY <1>4, <1>15 DEF DeadLetter, CountMove, Goto, frame
  <1>16. QED
    BY <1>3, <1>8, <1>9, <1>10, <1>11, <1>12, <1>13, <1>14, <1>15 DEF Kinds

\* The entry that a replay is at.
LEMMA ReplaysEntry ==
  ASSUME Shape, NEW p \in Procs, role[p] = "replay"
  PROVE  /\ plan[p] \in Seq(Entries) /\ plan[p] # <<>>
         /\ Head(plan[p]) \in Entries /\ Written(Head(plan[p]))
  <1>1. plan[p] \in Seq(Entries) /\ plan[p] # <<>>
    BY DEF Shape, TypeOK, ProcType, FrameOK
  <1>2. Head(plan[p]) \in Entries /\ Len(plan[p]) \in Nat \ {0} /\ Head(plan[p]) = plan[p][1]
    BY <1>1, HeadTailProperties, EmptySeq
  <1>3. 1 \in 1..Len(plan[p])
    BY <1>2
  <1>4. In(Head(plan[p]), plan[p])
    BY <1>2, <1>3 DEF In
  <1>5. QED
    BY <1>1, <1>2, <1>4 DEF Written

\* A push adds an entry of the id that is next.
LEMMA PushStep ==
  ASSUME Shape, NEW w \in Procs, RetryReturns(w), Exhausted(w), Push(w)
  PROVE  /\ pushes' = pushes + 1 /\ pushes \in Nat
         /\ Entry(job[w]) \in Entries /\ Entry(job[w]).id = pushes
         /\ Entry(job[w]).event = jobEvent[job[w]]
         /\ \A e : In(e, dlq') <=> In(e, dlq) \/ e = Entry(job[w])
  <1>1. dlq \in Seq(Entries) /\ pushes \in Nat
    BY DEF Shape, TypeOK, DlqType
  <1>2. Entry(job[w]) \in Entries /\ Entry(job[w]).id = pushes
        /\ Entry(job[w]).event = jobEvent[job[w]]
    BY <1>1, ExhaustedIsLast DEF Entry, Entries
  <1> DEFINE new == Entry(job[w])
  <1>3. dlq' = Append(dlq, new) /\ pushes' = pushes + 1
    BY DEF Push
  <1> HIDE DEF new
  <1>4. new \in Entries
    BY <1>2 DEF new
  <1>5. /\ Len(dlq) \in Nat /\ Len(dlq') = Len(dlq) + 1 /\ dlq'[Len(dlq) + 1] = new
        /\ \A n \in 1..Len(dlq) : dlq'[n] = dlq[n]
    BY <1>1, <1>3, <1>4
  <1>6. ASSUME NEW e, In(e, dlq') PROVE In(e, dlq) \/ e = new
    <2>1. PICK n \in 1..Len(dlq) + 1 : dlq'[n] = e
      BY <1>5, <1>6 DEF In
    <2>2. n \in 1..Len(dlq) \/ n = Len(dlq) + 1
      BY <1>5
    <2>3. QED
      BY <1>5, <2>1, <2>2 DEF In
  <1>7. ASSUME NEW e, In(e, dlq) \/ e = new PROVE In(e, dlq')
    <2>1. \A n \in 1..Len(dlq) : n \in 1..Len(dlq')
      BY <1>5
    <2>2. Len(dlq) + 1 \in 1..Len(dlq')
      BY <1>5
    <2>3. QED
      BY <1>5, <1>7, <2>1, <2>2 DEF In
  <1>8. QED
    BY <1>1, <1>2, <1>3, <1>6, <1>7 DEF new

\* A step adds the entry of a push or none.
LEMMA QueueStep ==
  ASSUME Shape, Identified, NEW p \in Procs, Kinds(p)
  PROVE  \/ pushes' = pushes /\ \A e : In(e, dlq') => In(e, dlq)
         \/ RetryReturns(p) /\ Exhausted(p) /\ Push(p)
  <1>1. CASE UNCHANGED <<dlq, pushes>>
    BY <1>1
  <1>2. CASE Leaves(p)
    <2>1. CASE DeleteAll
      BY <1>2, <2>1 DEF Leaves, DeleteAll, In
    <2>2. CASE role[p] = "replay" /\ Remove(Head(plan[p]))
      BY <1>2, <2>2, ReplaysEntry, RemoveOne DEF Leaves
    <2>3. QED
      BY <1>1, <1>2, <2>1, <2>2 DEF Leaves
  <1>3. CASE Fails(p)
    BY <1>1, <1>3 DEF Fails
  <1>4. CASE DeadLetter(p)
    BY <1>4 DEF DeadLetter
  <1>5. QED
    BY <1>1, <1>2, <1>3, <1>4
    DEF Kinds, Talks, Saves, Begins, StartRetry, RetryDone, CountMove, CountRepoMove, dlqVars

LEMMA IdentifiedStep ==
  ASSUME Shape, Identified, NEW p \in Procs, Still(p), Kinds(p)
  PROVE  Identified'
  <1>1. \A e \in Entries : Written(e)' => In(e, dlq') \/ Written(e)
    BY PlansStep DEF Written
  <1>2. CASE pushes' = pushes /\ \A e : In(e, dlq') => In(e, dlq)
    <2>1. \A e \in Entries : Written(e)' => Written(e)
      BY <1>1, <1>2 DEF Written
    <2>2. QED
      BY <1>2, <2>1 DEF Identified
  <1>3. CASE RetryReturns(p) /\ Exhausted(p) /\ Push(p)
    <2>1. PICK new \in Entries :
            /\ pushes' = pushes + 1 /\ pushes \in Nat /\ new.id = pushes
            /\ \A e : In(e, dlq') => In(e, dlq) \/ e = new
      BY <1>3, PushStep
    <2>2. \A e \in Entries : Written(e)' => Written(e) \/ e = new
      BY <1>1, <2>1 DEF Written
    <2>3. \A e \in Entries : e.id \in Nat
      BY DEF Entries
    <2>4. \A e \in Entries : Written(e) => e.id < pushes
      BY DEF Identified
    <2>5. \A e \in Entries : Written(e)' => e.id < pushes'
      BY <2>1, <2>2, <2>3, <2>4
    <2>6. ASSUME NEW e \in Entries, NEW f \in Entries, Written(e)', Written(f)', e.id = f.id
          PROVE  e = f
      <3>1. ~(new.id < pushes)
        BY <2>1
      <3>2. QED
        BY <2>2, <2>4, <2>6, <3>1 DEF Identified
    <2>7. QED
      BY <2>5, <2>6 DEF Identified
  <1>4. QED
    BY <1>2, <1>3, QueueStep

\* The second entry of a snapshot is the first of its tail.
LEMMA SecondEntry ==
  ASSUME NEW s \in Seq(Entries), s # <<>>, Len(s) # 1
  PROVE  Head(Tail(s)) = s[2]
  <1>1. PICK t \in Seq(Entries) : t = Tail(s) /\ t # <<>>
    BY LongTail
  <1>2. \A i \in 1..Len(t) : t[i] = s[i + 1]
    BY <1>1, HeadTailProperties
  <1>3. Len(t) \in Nat \ {0} /\ Head(t) = t[1]
    BY <1>1, HeadTailProperties, EmptySeq
  <1>4. 1 \in 1..Len(t)
    BY <1>3
  <1>5. t[1] = s[2]
    BY <1>2, <1>4
  <1>6. QED
    BY <1>1, <1>3, <1>5

LEMMA EventsStep ==
  ASSUME Shape, EventsAgree, NEW p \in Procs, Still(p), Kinds(p)
  PROVE  EventsAgree'
  <1>1. /\ role \in [Procs -> Roles] /\ plan \in [Procs -> Seq(Entries)]
        /\ event \in [Procs -> Deliveries \union {NoEvent}]
        /\ job \in [Procs -> JobIds \union {NoJob}]
        /\ jobEvent \in [JobIds -> Deliveries \union {NoEvent}]
    BY DEF Shape, TypeOK, ProcType, JobType
  <1>2. ASSUME NEW q \in Procs, role[q] = "retry"
        PROVE  jobEvent'[job[q]] = jobEvent[job[q]]
    <2>1. job[q] \in JobIds /\ jobState[job[q]] = "started"
      BY <1>2 DEF Shape, FrameOK, RunOK
    <2>2. CASE Saves(p)
      <3>1. PICK j \in JobIds : jobState[j] = "none" /\ (NewJob(j, event[p]) \/ UNCHANGED jobVars)
        BY <2>2 DEF Saves
      <3>2. QED
        BY <1>1, <2>1, <3>1 DEF NewJob, jobVars
    <2>3. CASE ~Saves(p)
      BY <2>3 DEF Kinds, Talks, Begins, Leaves, Fails, JobFails, StartRetry, RetryDone, JobDone,
         DeadLetter, CountMove, CountRepoMove, jobVars
    <2>4. QED
      BY <2>2, <2>3
  <1> SUFFICES /\ role'[p] = "replay" => event'[p] = Head(plan'[p]).event
               /\ role'[p] = "retry" => event'[p] = jobEvent'[job'[p]]
    BY <1>2 DEF EventsAgree, Still
  <1>3. CASE UNCHANGED <<role, event, plan, job>>
    BY <1>2, <1>3 DEF EventsAgree
  <1>4. ASSUME Rest(p) PROVE role'[p] = "none"
    BY <1>1, <1>4 DEF Rest
  <1>5. CASE Begins(p)
    BY <1>5 DEF Begins
  <1>6. CASE role[p] = "replay" /\ NextEntry(p) /\ ~Rest(p)
    <2>1. /\ plan[p] \in Seq(Entries) /\ plan[p] # <<>> /\ Len(plan[p]) # 1
          /\ plan'[p] = Tail(plan[p]) /\ event'[p] = plan[p][2].event /\ role'[p] = "replay"
      BY <1>1, <1>6, ReplaysEntry DEF NextEntry
    <2>2. Head(Tail(plan[p])) = plan[p][2]
      BY <2>1, SecondEntry
    <2>3. QED
      BY <2>1, <2>2
  <1>7. CASE StartRetry(p)
    <2>1. Head(retryQ) \in JobIds
      <3>1. retryQ \in Seq(JobIds) /\ retryQ # <<>>
        BY <1>7 DEF StartRetry, Shape, TypeOK, JobType
      <3>2. QED
        BY <3>1, HeadTailProperties
    <2>2. role'[p] = "retry" /\ job'[p] = Head(retryQ) /\ event'[p] = jobEvent[Head(retryQ)]
          /\ jobEvent' = jobEvent
      BY <1>1, <1>7 DEF StartRetry
    <2>3. QED
      BY <2>2
  <1>8. CASE Talks(p) \/ Saves(p) \/ DeadLetter(p) \/ CountMove(p)
    BY <1>3, <1>8 DEF Talks, Saves, Return, DeadLetter, CountMove, Goto, frame
  <1>9. CASE Leaves(p)
    BY <1>4, <1>6, <1>9 DEF Leaves
  <1>10. CASE Fails(p) \/ RetryDone(p) \/ CountRepoMove(p)
    BY <1>4, <1>10 DEF Fails, JobFails, RetryDone, CountRepoMove, JobDone
  <1>11. QED
    BY <1>5, <1>7, <1>8, <1>9, <1>10 DEF Kinds
-----------------------------------------------------------------------------
(* What an acknowledged event rests on.                                    *)

\* A retry job for k that has not written its entry.
Waits(j, k) ==
  jobState[j] \in Alive \union {"failed"} /\ pushed[j] = 0 /\ KeyOf[jobEvent[j]] = k

\* An entry for k that was pushed after the one of id n.
Later(k, n) == \E e \in Entries : In(e, dlq) /\ e.id > n /\ KeyOf[e.event] = k

\* What stands for an event of k when the entry of id n is taken away.
Backed(k, n) ==
  \/ enqueued[k] > 0 \/ k \in presumed \/ k \in cleared
  \/ \E j \in JobIds : Waits(j, k)
  \/ Later(k, n)

\* The entry that a replay will remove, or none.
Since(p) == IF role[p] = "replay" THEN Head(plan[p]).id ELSE -1

\* What _enqueue_review_once and persist_webhook_event return is true, and
\* stays so until the caller has used it.
Justified ==
  \A p \in Procs : pc[p] = "return" =>
    /\ status[p] = "queued" => enqueued[Key(p)] > 0
    /\ status[p] = "deduplicated" => enqueued[Key(p)] > 0 \/ Key(p) \in presumed
    /\ status[p] = "retrying" => Backed(Key(p), Since(p))

Acked == \A d \in Deliveries : Acknowledged(d) => Backed(KeyOf[d], -1)

\* A clear is not forgotten.
LEMMA ClearedGrows ==
  ASSUME NEW p \in Procs, Kinds(p)
  PROVE  cleared \subseteq cleared'
  BY DEF Kinds, Talks, Saves, Begins, Leaves, DeleteAll, Fails, StartRetry, RetryDone,
         DeadLetter, CountMove, CountRepoMove, dlqVars

\* A job stops waiting when it is reviewed or writes its entry.
LEMMA WaitsStep ==
  ASSUME Shape, Ended, EventsAgree, Justified, NEW p \in Procs, Still(p), Grows, Kinds(p),
         NEW k \in Keys, NEW n \in Int, n < pushes, NEW j \in JobIds, Waits(j, k)
  PROVE  Backed(k, n)'
  <1>1. /\ jobState \in [JobIds -> {"none", "queued", "started", "scheduled", "done", "failed"}]
        /\ jobEvent \in [JobIds -> Deliveries \union {NoEvent}] /\ pushed \in [JobIds -> Nat]
        /\ enqueued \in [Keys -> Nat] /\ pushes \in Nat
    BY DEF Shape, TypeOK, JobType, DlqType, ReviewType
  <1>2. ASSUME jobState'[j] \in Alive \union {"failed"}, jobEvent'[j] = jobEvent[j],
               pushed'[j] = pushed[j]
        PROVE  Backed(k, n)'
    BY <1>2 DEF Backed, Waits
  <1>3. CASE Talks(p) \/ Begins(p) \/ Leaves(p) \/ CountMove(p)
    BY <1>2, <1>3 DEF Talks, Begins, Leaves, CountMove, jobVars, dlqVars, Waits
  <1>4. CASE Saves(p)
    <2>1. PICK i \in JobIds : /\ jobState[i] = "none" /\ UNCHANGED pushed
                              /\ NewJob(i, event[p]) \/ UNCHANGED <<jobState, jobEvent>>
      BY <1>4 DEF Saves, dlqVars, jobVars
    <2>2. i # j
      BY <2>1 DEF Waits, Alive
    <2>3. QED
      BY <1>1, <1>2, <2>1, <2>2 DEF NewJob, Waits
  <1>5. CASE StartRetry(p)
    <2>1. jobState'[j] \in {jobState[j], "started"} /\ UNCHANGED <<jobEvent, pushed>>
      BY <1>1, <1>5 DEF StartRetry, dlqVars
    <2>2. QED
      BY <1>2, <2>1 DEF Waits, Alive
  <1>6. ASSUME JobDone(p), UNCHANGED pushed, j # job[p] PROVE Backed(k, n)'
    BY <1>1, <1>2, <1>6 DEF JobDone, Waits
  <1>7. CASE RetryDone(p)
    <2>1. CASE j # job[p]
      BY <1>6, <1>7, <2>1 DEF RetryDone, dlqVars
    <2>2. CASE j = job[p]
      <3>1. Key(p) = k
        BY <1>7, <2>2 DEF RetryDone, RetryReturns, EventsAgree, Key, Waits
      <3>2. enqueued[k] > 0 \/ k \in presumed
        BY <1>7, <3>1 DEF RetryDone, RetryReturns, Justified
      <3>3. enqueued'[k] > 0 \/ k \in presumed'
        BY <1>7, <3>2 DEF RetryDone, reviewVars
      <3>4. QED
        BY <3>3 DEF Backed
    <2>3. QED
      BY <2>1, <2>2
  <1>8. CASE CountRepoMove(p)
    <2>1. pushed[job[p]] > 0
      BY <1>8, CountingIsRetry DEF CountRepoMove, Counting, Ended
    <2>2. QED
      BY <1>6, <1>8, <2>1 DEF CountRepoMove, Waits
  <1>9. CASE RetryReturns(p) /\ Exhausted(p) /\ Push(p) /\ j = job[p]
    <2>1. PICK e \in Entries : e.id = pushes /\ e.event = jobEvent[j] /\ In(e, dlq')
      BY <1>9, PushStep
    <2>2. e.id > n /\ KeyOf[e.event] = k
      BY <1>1, <2>1 DEF Waits
    <2>3. Later(k, n)'
      BY <2>1, <2>2 DEF Later
    <2>4. QED
      BY <2>3 DEF Backed
  <1>10. CASE RetryReturns(p) /\ Exhausted(p) /\ Push(p) /\ j # job[p]
    <2>1. pushed'[j] = pushed[j]
      BY <1>1, <1>10 DEF Push
    <2>2. jobState'[j] = jobState[j] /\ jobEvent' = jobEvent
      <3>1. CASE DeadLetter(p)
        BY <3>1 DEF DeadLetter, jobVars
      <3>2. CASE Fails(p)
        BY <1>1, <1>10, <3>2 DEF Fails, JobFails
      <3>3. CASE ~DeadLetter(p) /\ ~Fails(p)
        <4>1. UNCHANGED pushed
          BY <3>3 DEF Kinds, Talks, Saves, Begins, Leaves, StartRetry, RetryDone,
                      CountMove, CountRepoMove, dlqVars
        <4>2. job[p] \in JobIds
          BY <1>10, ExhaustedIsLast
        <4>3. pushed'[job[p]] = pushed[job[p]] + 1 /\ pushed[job[p]] \in Nat
          BY <1>1, <1>10, <4>2 DEF Push
        <4>4. QED
          BY <4>1, <4>3
      <3>4. QED
        BY <3>1, <3>2, <3>3
    <2>3. QED
      BY <1>2, <2>1, <2>2 DEF Waits
  <1>11. CASE DeadLetter(p)
    BY <1>9, <1>10, <1>11 DEF DeadLetter
  <1>12. CASE Fails(p)
    <2>1. CASE UNCHANGED pushed
      <3>1. jobState'[j] \in {jobState[j], "scheduled", "failed"} /\ jobEvent' = jobEvent
        BY <1>1, <1>12 DEF Fails, JobFails
      <3>2. QED
        BY <1>2, <2>1, <3>1 DEF Waits, Alive
    <2>2. QED
      BY <1>9, <1>10, <1>12, <2>1 DEF Fails
  <1>13. QED
    BY <1>3, <1>4, <1>5, <1>7, <1>8, <1>11, <1>12 DEF Kinds

\* An event keeps what it rests on: what takes one away puts another there.
LEMMA BackedStep ==
  ASSUME Shape, Ended, Identified, EventsAgree, Justified,
         NEW p \in Procs, Still(p), Grows, Kinds(p),
         NEW k \in Keys, NEW n \in Int, n < pushes, Backed(k, n)
  PROVE  Backed(k, n)'
  <1>1. CASE enqueued[k] > 0 \/ k \in presumed \/ k \in cleared
    BY <1>1, ClearedGrows DEF Grows, Backed
  <1>2. CASE \E j \in JobIds : Waits(j, k)
    BY <1>2, WaitsStep
  <1>3. CASE Later(k, n)
    <2>1. PICK e \in Entries : In(e, dlq) /\ e.id > n /\ KeyOf[e.event] = k
      BY <1>3 DEF Later
    <2>2. CASE In(e, dlq')
      BY <2>1, <2>2 DEF Later, Backed
    <2>3. CASE UNCHANGED dlq
      BY <2>1, <2>2, <2>3
    <2>4. CASE RetryReturns(p) /\ Exhausted(p) /\ Push(p)
      BY <2>1, <2>2, <2>4, PushStep
    <2>5. CASE DeleteAll
      <3>1. PICK i \in 1..Len(dlq) : dlq[i] = e
        BY <2>1 DEF In
      <3>2. i \in DOMAIN dlq
        BY <3>1, LenProperties DEF Shape, TypeOK, DlqType
      <3>3. k \in cleared'
        BY <2>1, <2>5, <3>1, <3>2 DEF DeleteAll
      <3>4. QED
        BY <3>3 DEF Backed
    <2>6. CASE Leaves(p) /\ pc[p] = "return" /\ role[p] = "replay" /\ status[p] \in Accepted
               /\ Remove(Head(plan[p]))
      <3>1. Head(plan[p]) \in Entries /\ Written(Head(plan[p]))
        BY <2>6, ReplaysEntry
      <3>2. CASE e # Head(plan[p])
        BY <2>1, <2>2, <2>6, <3>1, <3>2, RemoveOne
      <3>3. CASE e = Head(plan[p])
        <4>1. Key(p) = k /\ Since(p) = e.id
          BY <2>1, <2>6, <3>3 DEF EventsAgree, Key, Since
        <4>2. enqueued[k] > 0 \/ k \in presumed \/ Backed(k, e.id)
          BY <2>6, <4>1 DEF Justified, Accepted
        <4>3. CASE Later(k, e.id)
          <5>1. PICK f \in Entries : In(f, dlq) /\ f.id > e.id /\ KeyOf[f.event] = k
            BY <4>3 DEF Later
          <5>2. f.id > n /\ f # e
            BY <2>1, <5>1 DEF Entries
          <5>3. In(f, dlq')
            BY <2>6, <3>1, <3>3, <5>1, <5>2, RemoveOne
          <5>4. QED
            BY <5>1, <5>2, <5>3 DEF Later, Backed
        <4>4. QED
          BY <1>1, <1>2, <4>2, <4>3 DEF Backed
      <3>4. QED
        BY <3>2, <3>3
    <2>7. QED
      BY <2>3, <2>4, <2>5, <2>6
      DEF Kinds, Talks, Saves, Begins, Leaves, Fails, StartRetry, RetryDone, DeadLetter,
          CountMove, CountRepoMove, dlqVars
  <1>4. QED
    BY <1>1, <1>2, <1>3 DEF Backed

\* What p returned is true when it returns, and the others wait on theirs.
LEMMA JustifiedStep ==
  ASSUME Shape, Ended, Identified, EventsAgree, Justified, NEW p \in Procs, Still(p), Grows, Kinds(p)
  PROVE  Justified'
  <1>1. /\ pc \in [Procs -> PcLabels] /\ status \in [Procs -> Results]
        /\ jobState \in [JobIds -> {"none", "queued", "started", "scheduled", "done", "failed"}]
        /\ jobEvent \in [JobIds -> Deliveries \union {NoEvent}] /\ pushed \in [JobIds -> Nat]
        /\ pushes \in Nat
    BY DEF Shape, TypeOK, ProcType, JobType, DlqType
  <1> SUFFICES ASSUME NEW q \in Procs, pc'[q] = "return"
               PROVE  /\ status'[q] = "queued" => enqueued'[Key(q)'] > 0
                      /\ status'[q] = "deduplicated" => enqueued'[Key(q)'] > 0 \/ Key(q)' \in presumed'
                      /\ status'[q] = "retrying" => Backed(Key(q), Since(q))'
    BY DEF Justified
  <1>2. CASE q # p
    <2>1. /\ pc[q] = "return" /\ status'[q] = status[q]
          /\ Key(q)' = Key(q) /\ Since(q)' = Since(q)
      BY <1>2 DEF Still, Key, Since
    <2>2. Key(q) \in Keys
      BY <2>1, CallKey
    <2>3. Since(q) \in Int /\ Since(q) < pushes
      <3>1. CASE role[q] = "replay"
        <4>1. Head(plan[q]) \in Entries /\ Head(plan[q]).id < pushes
          BY <3>1, ReplaysEntry DEF Identified
        <4>2. Head(plan[q]).id \in Nat
          BY <4>1 DEF Entries
        <4>3. QED
          BY <3>1, <4>1, <4>2 DEF Since
      <3>2. CASE role[q] # "replay"
        BY <1>1, <3>2 DEF Since
      <3>3. QED
        BY <3>1, <3>2
    <2>4. ASSUME status[q] = "retrying" PROVE Backed(Key(q), Since(q))'
      <3>1. PICK k \in Keys, n \in Int : k = Key(q) /\ n = Since(q) /\ n < pushes
        BY <2>2, <2>3
      <3>2. Backed(k, n)
        BY <2>1, <2>4, <3>1 DEF Justified
      <3>3. Backed(k, n)'
        BY <3>1, <3>2, BackedStep
      <3>4. Key(q)' = k /\ Since(q)' = n
        BY <2>1, <3>1
      <3>5. QED
        BY <3>3, <3>4 DEF Backed, Waits, Later
    <2>5. QED
      BY <2>1, <2>2, <2>4 DEF Justified, Grows
  <1>3. CASE q = p /\ Talks(p)
    BY <1>3 DEF Talks, frame, Key
  <1>4. CASE q = p /\ Saves(p)
    <2>1. PICK j \in JobIds : /\ jobState[j] = "none" /\ UNCHANGED <<event, pushed>>
                              /\ \/ status'[p] = "failed"
                                 \/ status'[p] = "retrying" /\ NewJob(j, event[p])
      BY <1>1, <1>4 DEF Saves, Return, frame, dlqVars
    <2>2. CASE status'[p] = "failed"
      BY <1>4, <2>2
    <2>3. CASE status'[p] = "retrying" /\ NewJob(j, event[p])
      <3>1. pushed'[j] = 0
        BY <1>1, <2>1 DEF Ended
      <3>2. jobState'[j] = "queued" /\ jobEvent'[j] = event[p]
        BY <1>1, <2>3 DEF NewJob
      <3>3. Waits(j, Key(q))'
        BY <1>4, <2>1, <3>1, <3>2 DEF Waits, Alive, Key
      <3>4. QED
        BY <1>4, <2>3, <3>3 DEF Backed
    <2>4. QED
      BY <2>1, <2>2, <2>3
  <1>5. CASE q = p /\ ~Talks(p) /\ ~Saves(p)
    BY <1>1, <1>5
    DEF Kinds, Begins, Leaves, Fails, JobFails, StartRetry, RetryDone, JobDone, DeadLetter, CountMove,
        CountRepoMove, Goto, Rest, NextEntry
  <1>6. QED
    BY <1>2, <1>3, <1>4, <1>5

\* A 200 is given for what the handler was returned.
LEMMA AckedStep ==
  ASSUME Shape, Ended, Identified, EventsAgree, Justified, Acked,
         NEW p \in Procs, Still(p), Grows, Kinds(p)
  PROVE  Acked'
  <1> SUFFICES ASSUME NEW d \in Deliveries, Acknowledged(d)' PROVE Backed(KeyOf[d], -1)'
    BY DEF Acked
  <1>1. /\ KeyOf[d] \in Keys /\ pushes \in Nat
        /\ resp \in [Deliveries -> {"none", "received", "deduplicated", "retrying", "500", "503", "lost"}]
        /\ status \in [Procs -> Results]
    BY KeyOfAssumption DEF Shape, TypeOK, DlqType, ProcType
  <1>2. Backed(KeyOf[d], -1)
    <2>1. CASE resp' = resp
      BY <2>1 DEF Acked, Acknowledged
    <2>2. CASE resp' = [resp EXCEPT ![event[p]] = "lost"]
      BY <1>1, <2>2 DEF Acked, Acknowledged
    <2>3. CASE /\ pc[p] = "return" /\ role[p] = "webhook"
               /\ resp' = [resp EXCEPT ![event[p]] = Answer(status[p])]
      <3>1. CASE d # event[p]
        BY <1>1, <2>3, <3>1 DEF Acked, Acknowledged
      <3>2. CASE d = event[p]
        <4>1. Answer(status[p]) \in {"received", "deduplicated", "retrying"}
          BY <1>1, <2>3, <3>2 DEF Acknowledged
        <4>2. status[p] \in Accepted
          BY <1>1, <4>1 DEF Answer, Accepted, Results
        <4>3. Key(p) = KeyOf[d] /\ Since(p) = -1
          BY <2>3, <3>2 DEF Key, Since
        <4>4. QED
          BY <2>3, <4>2, <4>3 DEF Justified, Accepted, Backed
      <3>3. QED
        BY <3>1, <3>2
    <2>4. QED
      BY <2>1, <2>2, <2>3
      DEF Kinds, Talks, Saves, Begins, Leaves, Fails, StartRetry, RetryDone, DeadLetter,
          CountMove, CountRepoMove
  <1>3. -1 \in Int /\ -1 < pushes
    BY <1>1
  <1>4. QED
    BY <1>1, <1>2, <1>3, BackedStep

Carried == Identified /\ EventsAgree /\ Justified /\ Acked

LEMMA InitCarried == Init => Carried
  <1> SUFFICES ASSUME Init PROVE Carried
    OBVIOUS
  <1>1. \A e : ~Written(e)
    <2>1. Len(dlq) = 0 /\ \A p \in Procs : Len(plan[p]) = 0
      BY EmptySeq DEF Init
    <2>2. QED
      BY <2>1 DEF Written, In
  <1>2. \A p \in Procs : pc[p] = "idle" /\ role[p] = "none"
    BY DEF Init
  <1>3. \A d \in Deliveries : resp[d] = "none"
    BY DEF Init
  <1>4. QED
    BY <1>1, <1>2, <1>3 DEF Carried, Identified, EventsAgree, Justified, Acked, Acknowledged

LEMMA CarriedStep == Shape /\ Ended /\ Carried /\ [Next]_vars => Carried'
  <1> SUFFICES ASSUME Shape, Ended, Carried, [Next]_vars PROVE Carried'
    OBVIOUS
  <1>1. ASSUME NEW p \in Procs, ProcessStep(p) PROVE Carried'
    BY <1>1, ProcessKinds, IdentifiedStep, EventsStep, JustifiedStep, AckedStep DEF Carried
  \* RQ's scheduler and the clock leave the processes and the queue alone.
  <1>2. ASSUME UNCHANGED <<procVars, dlqVars, reviewVars, jobEvent, resp>>,
               \A j \in JobIds : jobState[j] \in Alive \union {"failed"} => jobState'[j] \in Alive \union {"failed"}
        PROVE  Carried'
    <2>1. \A k, n : Backed(k, n) => Backed(k, n)'
      BY <1>2 DEF Backed, Waits, Later, In, dlqVars, reviewVars
    <2>2. Identified' /\ EventsAgree'
      BY <1>2 DEF Carried, Identified, Written, In, EventsAgree, procVars, dlqVars, frame
    <2>3. Justified' /\ Acked'
      BY <1>2, <2>1 DEF Carried, Justified, Acked, Acknowledged, Key, Since, procVars, frame, reviewVars
    <2>4. QED
      BY <2>2, <2>3 DEF Carried
  <1>3. ASSUME NEW j \in JobIds, Requeue(j) PROVE Carried'
    BY <1>2, <1>3 DEF Requeue, Shape, TypeOK, JobType, Alive, reviewVars
  <1>4. CASE (\E k \in Keys : Lapse(k)) \/ UNCHANGED vars
    BY <1>2, <1>4 DEF Lapse, jobVars, vars
  <1>5. QED
    BY <1>1, <1>3, <1>4, AnyStep

\* An event answered with a 200 has a review job, a retry job or an entry of
\* the dead-letter queue, through retries, replays, faults and crashes, but
\* for a queue cleared on purpose and a lock with no review job behind it.
THEOREM AcknowledgedAreCarried == Spec => []AcknowledgedEventsAreCarried
  <1>1. Shape /\ Carried => AcknowledgedEventsAreCarried
    <2> SUFFICES ASSUME Shape, Acked, NEW d \in Deliveries, Acknowledged(d)
                 PROVE  LET k == KeyOf[d] IN
                          \/ enqueued[k] > 0
                          \/ JobFor(k, Alive \union {"failed"})
                          \/ DeadLettered(k)
                          \/ k \in cleared \/ k \in presumed
      BY DEF Carried, AcknowledgedEventsAreCarried
    <2>1. Backed(KeyOf[d], -1)
      BY DEF Acked
    <2>2. Later(KeyOf[d], -1) => DeadLettered(KeyOf[d])
      BY LenProperties DEF Later, In, DeadLettered, Shape, TypeOK, DlqType
    <2>3. QED
      BY <2>1, <2>2 DEF Backed, Waits, JobFor
  <1>2. QED
    BY <1>1, InitCarried, CarriedStep, EndedInvariant, ShapeInvariant, PTL DEF Spec
-----------------------------------------------------------------------------
(* The retry ladder goes down only: what RetriesSettle needs besides fairness. *)

\* Where a retry job is on the ladder of its states and of RQ's retries.
Rung(j) ==
  CASE jobState[j] = "none"      -> 3 * MaxAttempts
    [] jobState[j] = "scheduled" -> 3 * retriesLeft[j] + 3
    [] jobState[j] = "queued"    -> 3 * retriesLeft[j] + 2
    [] jobState[j] = "started"   -> 3 * retriesLeft[j] + 1
    [] OTHER                     -> 0

\* A job stays where it is on the ladder, or is further down.
Descends(j) == UNCHANGED <<jobState[j], retriesLeft[j]>> \/ Rung(j)' < Rung(j)

LadderDescends == \A j \in JobIds : Rung(j) \in 0..3 * MaxAttempts /\ Descends(j)

\* One job moves, down the ladder.
LEMMA OneDescends ==
  ASSUME Shape, NEW j \in JobIds, NEW s, NEW r \in Nat,
         jobState' = [jobState EXCEPT ![j] = s], retriesLeft' = [retriesLeft EXCEPT ![j] = r],
         \/ jobState[j] = "none" /\ s = "queued" /\ r = MaxAttempts - 1
         \/ jobState[j] = "scheduled" /\ s = "queued" /\ r = retriesLeft[j]
         \/ jobState[j] = "queued" /\ s = "started" /\ r = retriesLeft[j]
         \/ jobState[j] = "started" /\ s = "scheduled" /\ retriesLeft[j] > 0 /\ r = retriesLeft[j] - 1
         \/ jobState[j] = "started" /\ s \in {"done", "failed"}
  PROVE  \A i \in JobIds : Descends(i)
  <1>1. /\ jobState \in [JobIds -> {"none", "queued", "started", "scheduled", "done", "failed"}]
        /\ retriesLeft \in [JobIds -> 0..MaxAttempts - 1] /\ MaxAttempts \in Nat
    BY AttemptsAssumption DEF Shape, TypeOK, JobType
  <1>2. \A i \in JobIds \ {j} : Descends(i)
    BY <1>1 DEF Descends
  <1>3. jobState'[j] = s /\ retriesLeft'[j] = r
    BY <1>1
  <1>4. retriesLeft[j] \in Nat
    BY <1>1
  <1>5. Rung(j)' < Rung(j)
    BY <1>1, <1>3, <1>4 DEF Rung
  <1>6. QED
    BY <1>2, <1>5 DEF Descends

\* Each kind of step moves one job down, or none.
LEMMA DescendsStep ==
  ASSUME Shape, [Next]_vars PROVE \A j \in JobIds : Descends(j)
  <1>1. ASSUME UNCHANGED <<jobState, retriesLeft>> PROVE \A j \in JobIds : Descends(j)
    BY <1>1 DEF Descends
  <1>2. /\ jobState \in [JobIds -> {"none", "queued", "started", "scheduled", "done", "failed"}]
        /\ retriesLeft \in [JobIds -> 0..MaxAttempts - 1] /\ retryQ \in Seq(JobIds)
        /\ \A j \in JobIds : retriesLeft[j] \in Nat
        /\ MaxAttempts - 1 \in Nat
    BY AttemptsAssumption DEF Shape, TypeOK, JobType
  <1>3. ASSUME NEW p \in Procs, role[p] = "retry"
        PROVE  job[p] \in JobIds /\ jobState[job[p]] = "started"
    BY <1>3 DEF Shape, FrameOK, RunOK
  <1>4. ASSUME NEW p \in Procs, ProcessStep(p) PROVE \A j \in JobIds : Descends(j)
    <2>1. Kinds(p)
      BY <1>4, ProcessKinds
    <2>2. CASE Talks(p) \/ Begins(p) \/ Leaves(p) \/ DeadLetter(p) \/ CountMove(p)
      BY <1>1, <2>2 DEF Talks, Begins, Leaves, DeadLetter, CountMove, jobVars
    <2>3. CASE Saves(p)
      <3>1. ASSUME NEW j \in JobIds, jobState[j] = "none", NewJob(j, event[p])
            PROVE  \A i \in JobIds : Descends(i)
        BY <1>2, <3>1, OneDescends DEF NewJob
      <3>2. CASE UNCHANGED jobVars
        BY <1>1, <3>2 DEF jobVars
      <3>3. QED
        BY <2>3, <3>1, <3>2 DEF Saves
    <2>4. ASSUME JobFails(p), role[p] = "retry" PROVE \A j \in JobIds : Descends(j)
      <3> DEFINE j == job[p]
                 again == retriesLeft[j] > 0
                 s == IF again THEN "scheduled" ELSE "failed"
                 r == IF again THEN retriesLeft[j] - 1 ELSE 0
      <3>1. j \in JobIds /\ jobState[j] = "started" /\ retriesLeft[j] \in Nat /\ r \in Nat
        BY <1>2, <1>3, <2>4
      <3>2. jobState' = [jobState EXCEPT ![j] = s] /\ retriesLeft' = [retriesLeft EXCEPT ![j] = r]
        BY <2>4 DEF JobFails
      <3>3. (s = "scheduled" /\ retriesLeft[j] > 0 /\ r = retriesLeft[j] - 1) \/ s = "failed"
        OBVIOUS
      <3> HIDE DEF j, s, r
      <3>4. QED
        BY <3>1, <3>2, <3>3, OneDescends
    <2>5. ASSUME JobDone(p), role[p] = "retry" PROVE \A j \in JobIds : Descends(j)
      <3>1. retriesLeft' = [retriesLeft EXCEPT ![job[p]] = retriesLeft[job[p]]]
        BY <1>2, <1>3, <2>5 DEF JobDone
      <3>2. QED
        BY <1>2, <1>3, <2>5, <3>1, OneDescends DEF JobDone
    <2>6. CASE Fails(p)
      BY <2>4, <2>6 DEF Fails
    <2>7. CASE RetryDone(p)
      BY <2>5, <2>7 DEF RetryDone, RetryReturns
    <2>8. CASE CountRepoMove(p)
      BY <2>5, <2>8, CountingIsRetry DEF CountRepoMove, Counting
    <2>9. CASE StartRetry(p)
      <3> DEFINE j == Head(retryQ)
      <3>1. j \in JobIds /\ retryQ # <<>> /\ j = retryQ[1] /\ 1 \in 1..Len(retryQ)
        BY <1>2, <2>9 DEF StartRetry
      <3>2. jobState[j] = "queued"
        BY <3>1 DEF Shape, JobOK
      <3>3. /\ jobState' = [jobState EXCEPT ![j] = "started"]
            /\ retriesLeft' = [retriesLeft EXCEPT ![j] = retriesLeft[j]]
        BY <1>2, <2>9 DEF StartRetry
      <3>4. QED
        BY <1>2, <3>1, <3>2, <3>3, OneDescends
    <2>10. QED
      BY <2>1, <2>2, <2>3, <2>6, <2>7, <2>8, <2>9 DEF Kinds
  <1>5. ASSUME NEW j \in JobIds, Requeue(j) PROVE \A i \in JobIds : Descends(i)
    <2>1. retriesLeft' = [retriesLeft EXCEPT ![j] = retriesLeft[j]]
      BY <1>2, <1>5 DEF Requeue
    <2>2. QED
      BY <1>2, <1>5, <2>1, OneDescends DEF Requeue
  <1>6. CASE \E k \in Keys : Lapse(k)
    BY <1>1, <1>6 DEF Lapse, jobVars
  <1>7. CASE UNCHANGED vars
    BY <1>1, <1>7 DEF vars, jobVars
  <1>8. QED
    BY <1>4, <1>5, <1>6, <1>7, AnyStep

\* A retry job moves down a ladder of 3 * MaxAttempts rungs and never up, so
\* RQ moves it at most that often before it is done or failed: whatever
\* raises, dies or forgets its attempt, no job is retried for ever.
THEOREM RetriesDescend == Spec => [][LadderDescends]_vars
  <1>1. Shape => \A j \in JobIds : Rung(j) \in 0..3 * MaxAttempts
    <2> SUFFICES ASSUME Shape, NEW j \in JobIds PROVE Rung(j) \in 0..3 * MaxAttempts
      OBVIOUS
    <2>1. retriesLeft[j] \in 0..MaxAttempts - 1 /\ MaxAttempts \in Nat
      BY AttemptsAssumption DEF Shape, TypeOK, JobType
    <2>2. QED
      BY <2>1 DEF Rung
  <1>2. Shape /\ [Next]_vars => [LadderDescends]_vars
    BY <1>1, DescendsStep DEF LadderDescends
  <1>3. QED
    BY <1>2, ShapeInvariant, PTL DEF Spec
=============================================================================
