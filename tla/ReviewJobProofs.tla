-------------------------- MODULE ReviewJobProofs ---------------------------
(***************************************************************************)
(* What ReviewJob guarantees for every number of retries, of batches and   *)
(* of LLM calls.  The inductive invariant IInv adds to the type invariant  *)
(* where the attempt is with respect to its job and its workspace          *)
(* (Control), what the workspaces on disk have behind them (Workspaces),   *)
(* and whose reviews the pull request has (Posted).  At the end, that the  *)
(* work in front of a job shrinks with every step.                         *)
(***************************************************************************)
EXTENDS ReviewJob, TLAPS

Early == {"token", "clone", "checkout"}
Late == {"diff", "agent", "fallback", "cleanup"}

\* The work horse runs exactly while the job is started, knows the workspace
\* after clone_pr_repo has returned, and every attempt uses up one retry.
Control ==
  /\ jobState = "started" <=> pc # "idle"
  /\ pc \in Late => localPath = attempt
  /\ pc \in Early \union {"idle"} => localPath = 0
  /\ pc # "idle" => attempt > 0
  /\ jobState \in {"queued", "scheduled"} => attempt + retriesLeft = MaxRetries
  /\ jobState = "started" => attempt + retriesLeft = MaxRetries + 1

\* Only the workspace of the running attempt, once cloned, is not a leak.
Workspaces ==
  /\ disk \subseteq leaks \union {attempt}
  /\ pc \in {"idle", "token", "clone"} => disk \subseteq leaks

\* The reviews are of different attempts; the running attempt has none until
\* its clean-up, and then one unless it raised.
Posted ==
  /\ OneReviewPerAttempt
  /\ \A i \in DOMAIN reviews : reviews[i].attempt <= attempt
  /\ pc \notin {"idle", "cleanup"} =>
       \A i \in DOMAIN reviews : reviews[i].attempt < attempt
  /\ pc = "cleanup" /\ outcome = "running" =>
       reviews # <<>> /\ reviews[Len(reviews)].attempt = attempt
  /\ DoneIsReviewed

IInv == TypeOK /\ Control /\ Workspaces /\ Posted

\* The first state satisfies the inductive invariant.
LEMMA InitIInv == Init => IInv
BY RetriesAssumption, BatchesAssumption, TriesAssumption
DEF Init, IInv, TypeOK, Control, Workspaces, Posted, Early, Late,
    OneReviewPerAttempt, DoneIsReviewed, Reviews

\* A posted review is a well-formed one.
LEMMA ReviewType ==
  ASSUME TypeOK, pc # "idle", Control, NEW inline \in {OfKind("inline"), {}}
  PROVE  Review(inline) \in Reviews
<1>1. findings \in SUBSET Findings /\ skipped \in SUBSET BatchIds
  BY DEF TypeOK
<1>2. inline \in SUBSET Findings /\ OfKind("summary") \in SUBSET Findings
  BY <1>1 DEF OfKind
<1>3. attempt \in Attempts
  BY RetriesAssumption DEF TypeOK, Control, Attempts
<1> QED
  BY <1>1, <1>2, <1>3 DEF Review, Reviews

\* The attempt of each posted review is a number.
LEMMA AttemptOfReview ==
  ASSUME TypeOK, NEW i \in DOMAIN reviews PROVE reviews[i].attempt \in Nat
<1>1. reviews[i] \in Reviews
  BY DEF TypeOK
<1> QED
  BY <1>1, RetriesAssumption DEF Reviews, Attempts

\* An attempt that ends with a failure leaves the job in step with RQ.
LEMMA FailureControl ==
  ASSUME TypeOK, Control, pc # "idle", NEW how \in {"raised", "died"},
         AttemptFails(how), attempt' = attempt
  PROVE  /\ Control'
         /\ jobState' \in {"scheduled", "failed"} /\ retriesLeft' \in 0..MaxRetries
         /\ pc' = "idle" /\ outcome' = how /\ localPath' = 0
<1>1. retriesLeft \in 0..MaxRetries /\ attempt + retriesLeft = MaxRetries + 1
  BY DEF TypeOK, Control
<1> QED
  BY <1>1, RetriesAssumption DEF AttemptFails, Control, TypeOK, Early, Late

\* Raising ends the attempt, or enters the finally block.
LEMMA RaiseControl ==
  ASSUME TypeOK, Control, pc # "idle", Raise, attempt' = attempt
  PROVE  /\ Control'
         /\ jobState' \in {"started", "scheduled", "failed"} /\ retriesLeft' \in 0..MaxRetries
         /\ pc' \in {"idle", "cleanup"} /\ outcome' = "raised"
         /\ localPath' \in {0, localPath}
<1>1. CASE localPath = 0 /\ AttemptFails("raised")
  BY <1>1, FailureControl
<1>2. CASE localPath # 0 /\ pc' = "cleanup" /\ outcome' = "raised"
           /\ UNCHANGED <<jobVars, localPath>>
  BY <1>2, RetriesAssumption DEF TypeOK, Control, Early, Late, jobVars
<1> QED
  BY <1>1, <1>2 DEF Raise

\* Every step keeps the variables in their types and the attempt in step with
\* its job: RQ's retries bound the attempts.
LEMMA NextControl ==
  ASSUME TypeOK, Control, [Next]_vars PROVE TypeOK' /\ Control'
<1> USE RetriesAssumption, BatchesAssumption, TriesAssumption
    DEF TypeOK, Control, Early, Late, jobVars, agentVars
<1>1. CASE StartAttempt
  <2>1. attempt' \in 1..MaxRetries + 1
    BY <1>1 DEF StartAttempt
  <2> QED
    BY <1>1, <2>1 DEF StartAttempt
<1>2. CASE GetToken \/ Clone \/ Checkout \/ Diff
  <2>1. CASE GetToken \/ Diff
    BY <2>1 DEF GetToken, Diff, Goto
  <2>2. CASE Clone
    BY <2>2 DEF Clone, Goto, Attempts
  <2>3. CASE Checkout
    BY <2>3 DEF Checkout, Goto
  <2> QED
    BY <1>2, <2>1, <2>2, <2>3
<1>3. ASSUME Raise, pc # "idle", UNCHANGED <<attempt, agentVars, reviews>>,
             disk' \subseteq Attempts, leaks' \subseteq Attempts
      PROVE  TypeOK' /\ Control'
  BY <1>3, RaiseControl
<1>4. CASE GetTokenFails \/ CloneFails \/ CheckoutFails \/ DiffFails
  <2>1. Raise /\ pc # "idle" /\ UNCHANGED <<attempt, agentVars, reviews>>
    BY <1>4 DEF GetTokenFails, CloneFails, CheckoutFails, DiffFails
  <2>2. disk' \subseteq Attempts /\ leaks' \subseteq Attempts
    <3>1. attempt \in Attempts
      BY <2>1 DEF Attempts
    <3>2. CASE GetTokenFails \/ DiffFails
      BY <3>2 DEF GetTokenFails, DiffFails
    <3>3. CASE CloneFails
      BY <3>1, <3>3 DEF CloneFails
    <3>4. CASE CheckoutFails
      BY <3>1, <3>4 DEF CheckoutFails
    <3> QED
      BY <1>4, <3>2, <3>3, <3>4
  <2> QED
    BY <1>3, <2>1, <2>2
<1>5. CASE AgentRaises
  BY <1>3, <1>5 DEF AgentRaises, AtBatch
<1>6. CASE Skip \/ TryAgain
  <2>1. CASE Skip
    BY <2>1 DEF Skip, AtBatch, NextBatch, BatchIds
  <2>2. CASE TryAgain
    BY <2>2 DEF TryAgain, AtBatch
  <2> QED
    BY <1>6, <2>1, <2>2
<1>7. ASSUME NEW found \in SUBSET Kinds, Answered(found) PROVE TypeOK' /\ Control'
  BY <1>7 DEF Answered, AtBatch, NextBatch, BatchIds, Findings
<1>8. CASE Post \/ PostFails
  <2>1. pc # "idle"
    BY <1>8 DEF Post, PostFails, AtPost
  <2>2. reviews' \in Seq(Reviews)
    <3>1. \/ reviews' = reviews \/ reviews' = Append(reviews, Review(OfKind("inline")))
          \/ reviews' = Append(reviews, Review({}))
      BY <1>8 DEF Post, PostFails, Created
    <3>2. Review(OfKind("inline")) \in Reviews /\ Review({}) \in Reviews
      BY <2>1, ReviewType
    <3> HIDE DEF Control
    <3> QED
      BY <3>1, <3>2
  <2>3. CASE Post
    BY <2>2, <2>3 DEF Post, AtPost, Goto
  <2>4. CASE PostFails
    <3>1. /\ Raise
          /\ UNCHANGED <<attempt, agentVars, disk, leaks>>
      BY <2>4 DEF PostFails
    <3> QED
      BY <2>1, <2>2, <3>1, RaiseControl
  <2> QED
    BY <1>8, <2>3, <2>4
<1>9. CASE Reject422
  BY <1>9 DEF Reject422, AtPost, Goto
<1>10. CASE Cleanup \/ CleanupFails \/ CleanupTimesOut \/ Crash
  <2>1. /\ pc # "idle" /\ UNCHANGED <<attempt, agentVars, reviews>>
        /\ disk' \subseteq Attempts /\ leaks' \subseteq Attempts
    <3>1. pc # "idle" /\ UNCHANGED <<attempt, agentVars, reviews>>
      BY <1>10 DEF Cleanup, CleanupFails, CleanupTimesOut, Crash
    <3>2. attempt \in Attempts
      BY <3>1 DEF Attempts
    <3>3. CASE Cleanup
      BY <3>3 DEF Cleanup
    <3>4. CASE CleanupFails \/ CleanupTimesOut
      BY <3>2, <3>4 DEF CleanupFails, CleanupTimesOut
    <3>5. CASE Crash
      BY <3>2, <3>5 DEF Crash
    <3> QED
      BY <1>10, <3>1, <3>3, <3>4, <3>5
  <2>2. CASE \E how \in {"raised", "died"} : AttemptFails(how)
    BY <2>1, <2>2, FailureControl
  <2>3. CASE Returns
    BY <2>1, <2>3 DEF Returns
  <2> QED
    BY <1>10, <2>2, <2>3 DEF Cleanup, CleanupFails, CleanupTimesOut, Crash, EndAttempt
<1>11. CASE Requeue \/ UNCHANGED vars
  BY <1>11 DEF Requeue, vars
<1> QED
  BY <1>1, <1>2, <1>4, <1>5, <1>6, <1>7, <1>8, <1>9, <1>10, <1>11 DEF Next, Step

\* Every step that leaves a workspace behind without the finally block makes
\* it a leak.
LEMMA NextWorkspaces ==
  ASSUME TypeOK, Control, Workspaces, [Next]_vars PROVE Workspaces'
<1> USE DEF TypeOK, Control, Workspaces, Early, Late, jobVars, agentVars
<1>1. CASE StartAttempt
  BY <1>1 DEF StartAttempt
<1>2. CASE GetToken \/ GetTokenFails
  BY <1>2 DEF GetToken, GetTokenFails, Goto, Raise, AttemptFails
<1>3. CASE Clone \/ CloneFails
  BY <1>3 DEF Clone, CloneFails, Goto, Raise, AttemptFails
<1>4. CASE Checkout \/ CheckoutFails
  BY <1>4 DEF Checkout, CheckoutFails, Goto, Raise, AttemptFails
<1>5. CASE Diff \/ DiffFails
  BY <1>5 DEF Diff, DiffFails, Goto, Raise, AttemptFails
<1>6. CASE Skip \/ TryAgain \/ AgentRaises
  BY <1>6 DEF Skip, TryAgain, AgentRaises, AtBatch, NextBatch, Raise, AttemptFails
<1>7. ASSUME NEW found \in SUBSET Kinds, Answered(found) PROVE Workspaces'
  BY <1>7 DEF Answered, AtBatch
<1>8. CASE Post \/ PostFails \/ Reject422
  BY <1>8 DEF Post, PostFails, Reject422, AtPost, Goto, Raise, AttemptFails
<1>9. CASE Cleanup \/ CleanupFails \/ CleanupTimesOut
  BY <1>9 DEF Cleanup, CleanupFails, CleanupTimesOut, EndAttempt, Returns, AttemptFails
<1>10. CASE Crash
  BY <1>10 DEF Crash, AttemptFails
<1>11. CASE Requeue \/ UNCHANGED vars
  BY <1>11 DEF Requeue, vars
<1> QED
  BY <1>1, <1>2, <1>3, <1>4, <1>5, <1>6, <1>7, <1>8, <1>9, <1>10, <1>11 DEF Next, Step

\* A review is created only by an attempt that has none yet.
LEMMA CreatedPosted ==
  ASSUME TypeOK, Posted, pc \notin {"idle", "cleanup"}, attempt' = attempt,
         NEW inline, Created(inline)
  PROVE  /\ OneReviewPerAttempt'
         /\ \A i \in DOMAIN reviews' : reviews'[i].attempt <= attempt'
         /\ reviews' # <<>> /\ reviews'[Len(reviews')].attempt = attempt'
<1> DEFINE r == Review(inline)
<1>1. r.attempt = attempt /\ attempt \in Int
  BY RetriesAssumption DEF Review, TypeOK
<1>2. reviews \in Seq(Reviews) /\ reviews' = Append(reviews, r)
  BY DEF TypeOK, Created
<1>3. \A i \in DOMAIN reviews : reviews[i].attempt \in Int /\ reviews[i].attempt < attempt
  BY AttemptOfReview, <1>1 DEF Posted
<1> HIDE DEF r
<1>4. /\ DOMAIN reviews' = 1..Len(reviews) + 1 /\ Len(reviews') = Len(reviews) + 1
      /\ \A i \in DOMAIN reviews : reviews'[i] = reviews[i]
      /\ reviews'[Len(reviews) + 1] = r
      /\ DOMAIN reviews = 1..Len(reviews) /\ Len(reviews) \in Nat
  BY <1>2
<1>5. reviews' # <<>> /\ reviews'[Len(reviews')].attempt = attempt'
  BY <1>1, <1>4
<1>6. ASSUME NEW i \in DOMAIN reviews' PROVE reviews'[i].attempt <= attempt'
  <2>1. CASE i \in DOMAIN reviews
    BY <2>1, <1>1, <1>3, <1>4
  <2>2. CASE i = Len(reviews) + 1
    BY <2>2, <1>1, <1>4
  <2> QED
    BY <2>1, <2>2, <1>4
<1>7. ASSUME NEW i \in DOMAIN reviews', NEW n \in DOMAIN reviews',
             reviews'[i].attempt = reviews'[n].attempt
      PROVE  i = n
  <2>1. CASE i \in DOMAIN reviews /\ n \in DOMAIN reviews
    BY <2>1, <1>4, <1>7 DEF Posted, OneReviewPerAttempt
  <2>2. CASE i = Len(reviews) + 1 /\ n \in DOMAIN reviews
    BY <2>2, <1>1, <1>3, <1>4, <1>7
  <2>3. CASE n = Len(reviews) + 1 /\ i \in DOMAIN reviews
    BY <2>3, <1>1, <1>3, <1>4, <1>7
  <2> QED
    BY <2>1, <2>2, <2>3, <1>4
<1> QED
  BY <1>5, <1>6, <1>7 DEF OneReviewPerAttempt

\* Every step keeps the reviews those of different attempts, and lets only an
\* attempt that posted one end as done.
LEMMA NextPosted ==
  ASSUME TypeOK, Control, Posted, [Next]_vars PROVE Posted'
<1>1. CASE Post \/ PostFails
  <2>1. pc \in {"agent", "fallback"} /\ attempt' = attempt /\ jobState = "started"
    BY <1>1 DEF Post, PostFails, AtPost, Control
  <2>2. CASE \E inline : Created(inline)
    <3>1. /\ OneReviewPerAttempt'
          /\ \A i \in DOMAIN reviews' : reviews'[i].attempt <= attempt'
          /\ reviews' # <<>> /\ reviews'[Len(reviews')].attempt = attempt'
      BY <2>1, <2>2, CreatedPosted
    <3>2. pc' \in {"idle", "cleanup"}
      BY <1>1 DEF Post, PostFails, Goto, Raise, AttemptFails
    <3> QED
      BY <3>1, <3>2 DEF Posted, DoneIsReviewed
  <2>3. CASE PostFails /\ UNCHANGED reviews
    <3>1. (pc' = "cleanup" /\ outcome' = "raised" /\ jobState' = "started")
          \/ (pc' = "idle" /\ jobState' # "done")
      BY <2>1, <2>3 DEF PostFails, Raise, AttemptFails, jobVars
    <3> QED
      BY <2>1, <2>3, <3>1 DEF Posted, OneReviewPerAttempt, DoneIsReviewed
  <2> QED
    BY <1>1, <2>2, <2>3 DEF Post, PostFails
<1>2. CASE StartAttempt
  <2>1. \A i \in DOMAIN reviews : reviews[i].attempt \in Int
    BY AttemptOfReview
  <2> QED
    BY <1>2, <2>1 DEF StartAttempt, Posted, OneReviewPerAttempt, DoneIsReviewed, TypeOK
<1>3. CASE Cleanup \/ CleanupFails \/ CleanupTimesOut
  BY <1>3 DEF Cleanup, CleanupFails, CleanupTimesOut, EndAttempt, Returns, AttemptFails,
     Posted, OneReviewPerAttempt, DoneIsReviewed
<1>4. ASSUME UNCHANGED <<attempt, reviews>>, pc' \notin {"idle", "cleanup"} => pc \notin {"idle", "cleanup"},
             pc' = "cleanup" => outcome' = "raised" \/ UNCHANGED <<pc, outcome>>,
             jobState' = "done" => jobState = "done"
      PROVE  Posted'
  BY <1>4 DEF Posted, OneReviewPerAttempt, DoneIsReviewed
<1>5. CASE GetToken \/ GetTokenFails \/ Clone \/ CloneFails \/ Checkout \/ CheckoutFails
  BY <1>4, <1>5 DEF GetToken, GetTokenFails, Clone, CloneFails, Checkout, CheckoutFails,
     Goto, Raise, AttemptFails, jobVars
<1>6. CASE Diff \/ DiffFails \/ Skip \/ TryAgain \/ AgentRaises \/ Reject422 \/ Crash
  BY <1>4, <1>6 DEF Diff, DiffFails, Skip, TryAgain, AgentRaises, Reject422, Crash, AtBatch,
     AtPost, Goto, Raise, AttemptFails, jobVars
<1>7. ASSUME NEW found \in SUBSET Kinds, Answered(found) PROVE Posted'
  BY <1>4, <1>7 DEF Answered, AtBatch, jobVars
<1>8. CASE Requeue \/ UNCHANGED vars
  BY <1>4, <1>8 DEF Requeue, vars, jobVars
<1> QED
  BY <1>1, <1>2, <1>3, <1>5, <1>6, <1>7, <1>8 DEF Next, Step

\* IInv is an invariant.
LEMMA IInvHolds == Spec => []IInv
<1>1. IInv /\ [Next]_vars => IInv'
  BY NextControl, NextWorkspaces, NextPosted DEF IInv
<1> QED
  BY InitIInv, <1>1, PTL DEF Spec

\* Types, and with them the bound on attempts: however the attempts of a job
\* end, RQ starts at most MaxRetries + 1 of them, and an attempt calls the LLM
\* at most MaxTries times for a batch.
THEOREM JobTypeCorrect == Spec => []TypeOK
BY IInvHolds, PTL DEF IInv

\* Between attempts every workspace on disk is one that clone_pr_repo left
\* behind, a death of the work horse left behind, or rmtree failed to remove.
THEOREM WorkspacesAreCleaned == Spec => []LeaksAreExcused
<1>1. IInv => LeaksAreExcused
  BY DEF IInv, Workspaces, LeaksAreExcused
<1> QED
  BY IInvHolds, <1>1, PTL

\* One attempt never reviews the pull request twice, its 422 fallback and
\* lost replies included.
THEOREM AttemptReviewsOnce == Spec => []OneReviewPerAttempt
<1>1. IInv => OneReviewPerAttempt
  BY DEF IInv, Posted
<1> QED
  BY IInvHolds, <1>1, PTL

\* A job that RQ counts as done has a review of its last attempt.
THEOREM DoneMeansReviewed == Spec => []DoneIsReviewed
<1>1. IInv => DoneIsReviewed
  BY DEF IInv, Posted
<1> QED
  BY IInvHolds, <1>1, PTL

-----------------------------------------------------------------------------
(* Every step of the job is one its promise allows, or none.               *)

\* An attempt that ends with a failure.
LEMMA FailureKeepsPromise ==
  ASSUME TypeOK, Control, pc # "idle", NEW how \in {"raised", "died"},
         AttemptFails(how), UNCHANGED <<attempt, reviews>>
  PROVE  Promise!Fail
<1>1. /\ attempt + retriesLeft = MaxRetries + 1 /\ retriesLeft \in Nat
      /\ Phase = "running"
  BY DEF TypeOK, Control, Phase
<1>2. jobState' = IF attempt < MaxRetries + 1 THEN "scheduled" ELSE "failed"
  BY <1>1, RetriesAssumption DEF AttemptFails, TypeOK
<1> QED
  BY <1>1, <1>2 DEF Promise!Fail, Phase, Newest

\* An exception, that the finally block may hold for a while.
LEMMA RaiseKeepsPromise ==
  ASSUME TypeOK, Control, pc # "idle", Raise, UNCHANGED <<attempt, reviews>>
  PROVE  [Promise!Next]_Promise!vars
<1>1. CASE AttemptFails("raised")
  BY <1>1, FailureKeepsPromise DEF Promise!Next
<1>2. CASE UNCHANGED jobVars
  BY <1>2 DEF Promise!vars, jobVars, Phase, Newest
<1> QED
  BY <1>1, <1>2 DEF Raise

\* A review, created by an attempt that goes on.
LEMMA CreatedKeepsPromise ==
  ASSUME TypeOK, Control, Posted, pc \notin {"idle", "cleanup"}, jobState' = jobState,
         attempt' = attempt, NEW inline, Created(inline)
  PROVE  Promise!Post
<1>1. Phase = "running" /\ Phase' = "running"
  BY DEF Control, Phase
<1>2. Newest' = attempt
  BY CreatedPosted DEF Newest
<1>3. Newest # attempt
  <2>1. CASE reviews = <<>>
    BY <2>1, RetriesAssumption DEF Newest, Control, TypeOK
  <2>2. CASE reviews # <<>>
    <3>1. Len(reviews) \in DOMAIN reviews
      BY <2>2 DEF TypeOK
    <3>2. reviews[Len(reviews)].attempt \in Nat /\ reviews[Len(reviews)].attempt < attempt
      BY <3>1, AttemptOfReview DEF Posted
    <3> QED
      BY <2>2, <3>2, RetriesAssumption DEF Newest, TypeOK
  <2> QED
    BY <2>1, <2>2
<1>4. Len(reviews') = Len(reviews) + 1
  BY DEF Created, TypeOK
<1> QED
  BY <1>1, <1>2, <1>3, <1>4 DEF Promise!Post

\* The end of an attempt that raised nothing.
LEMMA ReturnKeepsPromise ==
  ASSUME Control, Posted, pc = "cleanup", outcome = "running", Returns,
         UNCHANGED <<attempt, reviews>>
  PROVE  Promise!Finish
<1>1. Phase = "running" /\ Phase' = "done"
  BY DEF Control, Phase, Returns
<1>2. Newest = attempt
  BY DEF Posted, Newest
<1> QED
  BY <1>1, <1>2 DEF Promise!Finish, Newest

LEMMA NextKeepsPromise ==
  ASSUME TypeOK, Control, Posted, [Next]_vars PROVE [Promise!Next]_Promise!vars
<1>1. ASSUME UNCHANGED <<jobState, attempt, reviews>> PROVE UNCHANGED Promise!vars
  BY <1>1 DEF Promise!vars, Phase, Newest
<1>2. CASE StartAttempt
  <2>1. attempt < MaxRetries + 1 /\ attempt' = attempt + 1 /\ UNCHANGED reviews
    BY <1>2, RetriesAssumption DEF StartAttempt, TypeOK, Control
  <2>2. Phase = "waiting" /\ Phase' = "running"
    BY <1>2 DEF StartAttempt, Phase
  <2> QED
    BY <2>1, <2>2 DEF Promise!Next, Promise!Start, Newest
<1>3. CASE GetToken \/ Clone \/ Checkout \/ Diff \/ Skip \/ TryAgain \/ Reject422
  BY <1>1, <1>3 DEF GetToken, Clone, Checkout, Diff, Skip, TryAgain, Reject422, Goto, jobVars
<1>4. ASSUME NEW found \in SUBSET Kinds, Answered(found) PROVE UNCHANGED Promise!vars
  BY <1>1, <1>4 DEF Answered, jobVars
<1>5. CASE GetTokenFails \/ CloneFails \/ CheckoutFails \/ DiffFails \/ AgentRaises
  BY <1>5, RaiseKeepsPromise
  DEF GetTokenFails, CloneFails, CheckoutFails, DiffFails, AgentRaises, AtBatch
<1>6. CASE Post \/ PostFails
  <2>1. pc \in {"agent", "fallback"} /\ attempt' = attempt
    BY <1>6 DEF Post, PostFails, AtPost
  <2>2. CASE PostFails /\ UNCHANGED reviews
    BY <2>1, <2>2, RaiseKeepsPromise DEF PostFails
  <2>3. CASE \E inline : Created(inline)
    <3>1. localPath # 0
      BY <2>1, RetriesAssumption DEF Control, Late, TypeOK
    <3>2. jobState' = jobState
      BY <1>6, <3>1 DEF Post, PostFails, Goto, Raise, jobVars
    <3> QED
      BY <2>1, <2>3, <3>2, CreatedKeepsPromise DEF Promise!Next
  <2> QED
    BY <1>6, <2>2, <2>3 DEF Post, PostFails
<1>7. CASE Cleanup \/ CleanupFails \/ CleanupTimesOut \/ Crash
  <2>1. pc # "idle" /\ UNCHANGED <<attempt, reviews>>
    BY <1>7 DEF Cleanup, CleanupFails, CleanupTimesOut, Crash
  <2>2. CASE \E how \in {"raised", "died"} : AttemptFails(how)
    BY <2>1, <2>2, FailureKeepsPromise DEF Promise!Next
  <2>3. CASE pc = "cleanup" /\ outcome = "running" /\ Returns
    BY <2>1, <2>3, ReturnKeepsPromise DEF Promise!Next
  <2> QED
    BY <1>7, <2>2, <2>3 DEF Cleanup, CleanupFails, CleanupTimesOut, Crash, EndAttempt
<1>8. CASE Requeue
  BY <1>8 DEF Requeue, Promise!vars, Phase, Newest
<1>9. CASE UNCHANGED vars
  BY <1>1, <1>9 DEF vars, jobVars
<1> QED
  BY <1>2, <1>3, <1>4, <1>5, <1>6, <1>7, <1>8, <1>9 DEF Next, Step

\* A review job, through all its attempts and whatever fails in them, does
\* what PullRequest takes for granted: a bounded number of attempts, at most
\* one review from each, and no end as done without a review of the last.
THEOREM JobKeepsPromise == Spec => KeepsPromise
<1>1. Init => Promise!Init
  BY DEF Init, Promise!Init, Phase, Newest
<1>2. IInv /\ [Next]_vars => [Promise!Next]_Promise!vars
  BY NextKeepsPromise DEF IInv
<1> QED
  BY IInvHolds, <1>1, <1>2, PTL DEF Spec, KeepsPromise, Promise!Spec

-----------------------------------------------------------------------------
(* The work of a job is bounded: what JobSettles needs besides fairness.   *)

\* The moves RQ still has to make of the job, until it has ended or is started
\* once more, and in all.
MovesLeft ==
  CASE jobState = "started"   -> 3
    [] jobState = "scheduled" -> 2
    [] jobState = "queued"    -> 1
    [] OTHER                  -> 0

AttemptsLeft == MaxRetries + 1 - attempt

RunsLeft == 4 * AttemptsLeft + MovesLeft

\* The steps the running attempt has in front of it, a batch being one.
StepsLeft ==
  CASE pc = "token"    -> NumBatches + 7
    [] pc = "clone"    -> NumBatches + 6
    [] pc = "checkout" -> NumBatches + 5
    [] pc = "diff"     -> NumBatches + 4
    [] pc = "agent"    -> NumBatches + 1 - batch + 3
    [] pc = "fallback" -> 2
    [] pc = "cleanup"  -> 1
    [] OTHER           -> 0

\* The calls of the LLM left for the batch.
TriesLeft == MaxTries - tries

Counted == RunsLeft \in Nat /\ StepsLeft \in Nat /\ TriesLeft \in Nat

\* Each step uses up a move of the job, or a step of the attempt and no move,
\* or a call and neither.
Progress ==
  \/ RunsLeft' < RunsLeft
  \/ RunsLeft' = RunsLeft /\ StepsLeft' < StepsLeft
  \/ RunsLeft' = RunsLeft /\ StepsLeft' = StepsLeft /\ TriesLeft' < TriesLeft

\* The three counts are natural numbers.
LEMMA WorkIsCounted == ASSUME TypeOK, Control PROVE Counted
<1>1. AttemptsLeft \in Nat
  BY RetriesAssumption DEF TypeOK, AttemptsLeft
<1>2. RunsLeft \in Nat
  BY <1>1 DEF RunsLeft, MovesLeft
<1>3. StepsLeft \in Nat
  <2>1. NumBatches \in Nat /\ NumBatches + 1 - batch \in Nat
    BY BatchesAssumption DEF TypeOK
  <2>2. CASE pc = "agent"
    BY <2>1, <2>2 DEF StepsLeft
  <2>3. CASE pc # "agent"
    BY <2>1, <2>3 DEF StepsLeft
  <2> QED
    BY <2>2, <2>3
<1>4. TriesLeft \in Nat
  BY TriesAssumption DEF TriesLeft, TypeOK
<1> QED
  BY <1>2, <1>3, <1>4 DEF Counted

\* The end of an attempt is a move of the job.
LEMMA EndIsProgress ==
  ASSUME TypeOK, Control, pc # "idle", attempt' = attempt,
         jobState' \in {"scheduled", "failed", "done"}
  PROVE  RunsLeft' < RunsLeft
<1>1. jobState = "started" /\ MaxRetries + 1 - attempt \in Nat
  BY RetriesAssumption DEF TypeOK, Control
<1> QED
  BY <1>1 DEF RunsLeft, AttemptsLeft, MovesLeft

\* An exception ends the attempt or leaves nothing but the finally block.
LEMMA RaiseIsProgress ==
  ASSUME TypeOK, Control, pc \notin {"idle", "cleanup"}, attempt' = attempt, Raise
  PROVE  Progress
<1>1. CASE AttemptFails("raised")
  BY <1>1, EndIsProgress DEF AttemptFails, Progress
<1>2. CASE pc' = "cleanup" /\ UNCHANGED jobVars
  <2>1. RunsLeft' = RunsLeft
    BY <1>2 DEF RunsLeft, AttemptsLeft, MovesLeft, jobVars
  <2>2. StepsLeft' = 1
    BY <1>2 DEF StepsLeft
  <2>3. StepsLeft > 1
    <3>1. NumBatches \in Nat /\ NumBatches + 1 - batch \in Nat
      BY BatchesAssumption DEF TypeOK
    <3>2. CASE pc = "agent"
      BY <3>1, <3>2 DEF StepsLeft
    <3>3. CASE pc \in {"token", "clone", "checkout", "diff", "fallback"}
      BY <3>1, <3>3 DEF StepsLeft
    <3> QED
      BY <3>2, <3>3 DEF TypeOK
  <2> QED
    BY <2>1, <2>2, <2>3 DEF Progress
<1> QED
  BY <1>1, <1>2 DEF Raise

\* One case per step.
LEMMA NextIsProgress ==
  ASSUME TypeOK, Control, Next PROVE Progress
<1>1. CASE StartAttempt
  <2>1. attempt \in 0..MaxRetries /\ jobState = "queued" /\ jobState' = "started"
        /\ attempt' = attempt + 1
    BY <1>1, RetriesAssumption DEF StartAttempt, TypeOK, Control
  <2> QED
    BY <2>1, RetriesAssumption DEF RunsLeft, AttemptsLeft, MovesLeft, Progress
<1>2. CASE GetToken \/ Clone \/ Checkout \/ Diff
  <2>1. RunsLeft' = RunsLeft
    BY <1>2 DEF GetToken, Clone, Checkout, Diff, Goto, jobVars, RunsLeft, AttemptsLeft, MovesLeft
  <2>2. NumBatches \in Nat /\ batch \in Nat /\ batch >= 1 /\ batch' = batch
    BY <1>2, BatchesAssumption DEF GetToken, Clone, Checkout, Diff, agentVars, TypeOK
  <2>3. ASSUME GetToken PROVE StepsLeft' < StepsLeft
    BY <2>2, <2>3 DEF GetToken, Goto, StepsLeft
  <2>4. ASSUME Clone PROVE StepsLeft' < StepsLeft
    BY <2>2, <2>4 DEF Clone, Goto, StepsLeft
  <2>5. ASSUME Checkout PROVE StepsLeft' < StepsLeft
    BY <2>2, <2>5 DEF Checkout, Goto, StepsLeft
  <2>6. ASSUME Diff PROVE StepsLeft' < StepsLeft
    BY <2>2, <2>6 DEF Diff, Goto, StepsLeft
  <2>7. StepsLeft' < StepsLeft
    BY <1>2, <2>3, <2>4, <2>5, <2>6
  <2> QED
    BY <2>1, <2>7 DEF Progress
<1>3. CASE GetTokenFails \/ CloneFails \/ CheckoutFails \/ DiffFails \/ AgentRaises \/ PostFails
  BY <1>3, RaiseIsProgress
  DEF GetTokenFails, CloneFails, CheckoutFails, DiffFails, AgentRaises, AtBatch, PostFails, AtPost
<1>4. ASSUME AtBatch, NextBatch, UNCHANGED <<jobVars, attempt, pc>> PROVE Progress
  <2>1. RunsLeft' = RunsLeft
    BY <1>4 DEF jobVars, RunsLeft, AttemptsLeft, MovesLeft
  <2>2. StepsLeft' < StepsLeft
    BY <1>4, BatchesAssumption DEF AtBatch, NextBatch, StepsLeft, TypeOK
  <2> QED
    BY <2>1, <2>2 DEF Progress
<1>5. CASE Skip
  BY <1>4, <1>5 DEF Skip
<1>6. ASSUME NEW found \in SUBSET Kinds, Answered(found) PROVE Progress
  BY <1>4, <1>6 DEF Answered
<1>7. CASE TryAgain
  <2>1. RunsLeft' = RunsLeft /\ StepsLeft' = StepsLeft
    BY <1>7 DEF TryAgain, jobVars, RunsLeft, AttemptsLeft, MovesLeft, StepsLeft
  <2>2. TriesLeft' < TriesLeft
    BY <1>7, TriesAssumption DEF TryAgain, TriesLeft, TypeOK
  <2> QED
    BY <2>1, <2>2 DEF Progress
<1>8. CASE Post \/ Reject422
  <2>1. RunsLeft' = RunsLeft
    BY <1>8 DEF Post, Reject422, Goto, jobVars, RunsLeft, AttemptsLeft, MovesLeft
  <2>2. StepsLeft' < StepsLeft
    BY <1>8, BatchesAssumption DEF Post, Reject422, AtPost, Goto, agentVars, StepsLeft, TypeOK
  <2> QED
    BY <2>1, <2>2 DEF Progress
<1>9. CASE Cleanup \/ CleanupFails \/ CleanupTimesOut \/ Crash
  <2>1. pc # "idle" /\ attempt' = attempt /\ jobState' \in {"scheduled", "failed", "done"}
    BY <1>9 DEF Cleanup, CleanupFails, CleanupTimesOut, Crash, EndAttempt, Returns, AttemptFails
  <2> QED
    BY <2>1, EndIsProgress DEF Progress
<1>10. CASE Requeue
  BY <1>10, RetriesAssumption DEF Requeue, RunsLeft, AttemptsLeft, MovesLeft, Progress, TypeOK
<1> QED
  BY <1>1, <1>2, <1>3, <1>5, <1>6, <1>7, <1>8, <1>9, <1>10 DEF Next, Step

\* Every step of a job brings it nearer to its end: an attempt that hangs on
\* cannot make up work, and RQ cannot move the job for ever.  Whatever raises,
\* is called again or dies, the job stops after a bounded number of steps.
THEOREM JobWorkIsBounded == Spec => []Counted /\ [][Progress]_vars
<1>1. IInv => Counted
  BY WorkIsCounted DEF IInv
<1>2. IInv /\ [Next]_vars => [Progress]_vars
  BY NextIsProgress DEF IInv
<1> QED
  BY IInvHolds, <1>1, <1>2, PTL DEF Spec
=============================================================================
