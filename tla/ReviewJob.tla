----------------------------- MODULE ReviewJob ------------------------------
(***************************************************************************)
(* One review job, run_review_job of app/workers/review_worker.py, through *)
(* all the attempts RQ gives it: token, clone, checkout, diff, one LLM     *)
(* call per batch of files, the review post, and the clean-up of the       *)
(* workspace in the finally block.                                         *)
(*                                                                         *)
(* Every step can raise; an exception of RQ's job timeout is one of them.  *)
(* An attempt that raised, or whose work horse died, is rescheduled while  *)
(* the job has retries left.  RQ, git, the LLM and GitHub are external:    *)
(* GitHub may have created a review whose reply was lost.                  *)
(***************************************************************************)
EXTENDS Integers, Sequences

CONSTANTS
  MaxRetries,     \* settings.review_job_max_retries
  NumBatches,     \* batches of changed files in the diff
  MaxTries        \* calls of the LLM for one batch: stop_after_attempt(3)

ASSUME RetriesAssumption == MaxRetries \in Nat \ {0}   \* Retry(max=0) is an error
ASSUME BatchesAssumption == NumBatches \in Nat
ASSUME TriesAssumption == MaxTries \in Nat \ {0}

VARIABLES
  jobState,       \* where RQ keeps the job
  retriesLeft,    \* its RQ retries_left
  attempt,        \* attempts so far; names the workspace of the attempt
  pc,             \* the step the attempt is at
  outcome,        \* how the attempt ended, or "running"; "raised" already
                  \* while an exception is held by the finally block
  localPath,      \* local_path: the attempt whose workspace it is, 0 is None
  batch,          \* the batch run_security_agent is at
  tries,          \* LLM calls made for it
  findings,       \* all_findings
  skipped,        \* the batches given up on
  disk,           \* the workspaces on disk
  reviews,        \* the reviews on the pull request, in order
  leaks           \* auxiliary: workspaces whose removal was out of reach

jobVars == <<jobState, retriesLeft>>
agentVars == <<batch, tries, findings, skipped>>
vars == <<jobVars, attempt, pc, outcome, localPath, agentVars, disk, reviews, leaks>>

Attempts == 1..MaxRetries + 1
BatchIds == 1..NumBatches

\* A finding is an inline comment when its line_hint is in the diff and maps
\* to a line, otherwise it is listed in the summary.
Kinds == {"inline", "summary"}

Init ==
  /\ jobState = "queued" /\ retriesLeft = MaxRetries
  /\ attempt = 0 /\ pc = "idle" /\ outcome = "none" /\ localPath = 0
  /\ batch = 1 /\ tries = 0 /\ findings = {} /\ skipped = {}
  /\ disk = {} /\ reviews = <<>> /\ leaks = {}

\* The work horse takes the job; run_review_job starts from nothing.
StartAttempt ==
  /\ jobState = "queued"
  /\ jobState' = "started"
  /\ attempt' = attempt + 1
  /\ pc' = "token" /\ outcome' = "running" /\ localPath' = 0
  /\ batch' = 1 /\ tries' = 0 /\ findings' = {} /\ skipped' = {}
  /\ UNCHANGED <<retriesLeft, disk, reviews, leaks>>

\* Mutant of AttemptFails: the retry is not counted.
AttemptFailsForFree(how) ==
  /\ jobState' = IF retriesLeft > 0 THEN "scheduled" ELSE "failed"
  /\ pc' = "idle" /\ outcome' = how /\ localPath' = 0
  /\ UNCHANGED retriesLeft

\* RQ, when the attempt ends with an exception or its work horse dies.
AttemptFails(how) ==
  /\ jobState' = IF retriesLeft > 0 THEN "scheduled" ELSE "failed"
  /\ retriesLeft' = IF retriesLeft > 0 THEN retriesLeft - 1 ELSE 0
  /\ pc' = "idle" /\ outcome' = how /\ localPath' = 0

\* Mutant of Raise: the clean-up is at the end of the try block.
RaiseWithoutFinally == AttemptFails("raised")

\* An exception leaves the try block: the finally block cleans up if
\* local_path was assigned.
Raise ==
  \/ localPath = 0 /\ AttemptFails("raised")
  \/ /\ localPath # 0
     /\ pc' = "cleanup" /\ outcome' = "raised"
     /\ UNCHANGED <<jobVars, localPath>>

Goto(label) == pc' = label /\ UNCHANGED <<jobVars, outcome>>

-----------------------------------------------------------------------------
(* get_installation_token, clone_pr_repo and get_pr_diff.                  *)

GetToken ==
  /\ pc = "token"
  /\ Goto("clone") /\ UNCHANGED localPath
  /\ UNCHANGED <<attempt, agentVars, disk, reviews, leaks>>

GetTokenFails ==
  /\ pc = "token"
  /\ Raise
  /\ UNCHANGED <<attempt, agentVars, disk, reviews, leaks>>

Clone ==
  /\ pc = "clone"
  /\ disk' = disk \union {attempt}
  /\ Goto("checkout") /\ UNCHANGED localPath
  /\ UNCHANGED <<attempt, agentVars, reviews, leaks>>

\* git removes what it cloned when it fails, not when a timeout kills it.
CloneFails ==
  /\ pc = "clone"
  /\ \/ UNCHANGED <<disk, leaks>>
     \/ disk' = disk \union {attempt} /\ leaks' = leaks \union {attempt}
  /\ Raise
  /\ UNCHANGED <<attempt, agentVars, reviews>>

\* Only now does clone_pr_repo return, and run_review_job know the path.
Checkout ==
  /\ pc = "checkout"
  /\ localPath' = attempt
  /\ Goto("diff")
  /\ UNCHANGED <<attempt, agentVars, disk, reviews, leaks>>

\* The RuntimeError of a failed or timed out checkout passes by the except
\* clause that removes the clone, which takes only OSError and its like.
CheckoutFails ==
  /\ pc = "checkout"
  /\ \/ leaks' = leaks \union {attempt} /\ UNCHANGED disk
     \/ disk' = disk \ {attempt} /\ UNCHANGED leaks
  /\ Raise
  /\ UNCHANGED <<attempt, agentVars, reviews>>

Diff ==
  /\ pc = "diff"
  /\ Goto("agent") /\ UNCHANGED localPath
  /\ UNCHANGED <<attempt, agentVars, disk, reviews, leaks>>

DiffFails ==
  /\ pc = "diff"
  /\ Raise
  /\ UNCHANGED <<attempt, agentVars, disk, reviews, leaks>>

-----------------------------------------------------------------------------
(* run_security_agent: a call_llm per batch.                               *)

AtBatch == pc = "agent" /\ batch <= NumBatches

NextBatch == batch' = batch + 1 /\ tries' = 0

\* The reply parses; its findings, if any, are verified and kept.
Answered(found) ==
  /\ AtBatch
  /\ findings' = findings \union ({batch} \X found)
  /\ NextBatch
  /\ UNCHANGED <<skipped, jobVars, attempt, pc, outcome, localPath, disk, reviews, leaks>>

\* ValueError, OSError and RuntimeError are logged: the reply is not JSON, or
\* the provider refused the call for good (400, 401, 403).
Skip ==
  /\ AtBatch
  /\ skipped' = skipped \union {batch}
  /\ NextBatch
  /\ UNCHANGED <<findings, jobVars, attempt, pc, outcome, localPath, disk, reviews, leaks>>

\* Mutant of TryAgain: no stop_after_attempt.
TryAgainForever ==
  /\ AtBatch
  /\ tries' = (tries + 1) % MaxTries
  /\ UNCHANGED <<batch, findings, skipped, jobVars, attempt, pc, outcome, localPath,
                 disk, reviews, leaks>>

\* A rate limit or a 5xx, with tries left: tenacity calls again.
TryAgain ==
  /\ AtBatch
  /\ tries + 1 < MaxTries
  /\ tries' = tries + 1
  /\ UNCHANGED <<batch, findings, skipped, jobVars, attempt, pc, outcome, localPath,
                 disk, reviews, leaks>>

\* The last _RetryableError, a connection error, or a reply of the wrong
\* shape: an exception that run_security_agent does not catch.
AgentRaises ==
  /\ AtBatch
  /\ Raise
  /\ UNCHANGED <<attempt, agentVars, disk, reviews, leaks>>

-----------------------------------------------------------------------------
(* post_review: a review with inline comments, or after a 422 without.     *)

AtPost == pc = "agent" /\ batch > NumBatches

OfKind(kind) == {f \in findings : f[2] = kind}

Review(inline) ==
  [attempt |-> attempt, inline |-> inline, summary |-> OfKind("summary"),
   found |-> findings, skipped |-> skipped]

Created(inline) == reviews' = Append(reviews, Review(inline))

Post ==
  /\ \/ AtPost /\ Created(OfKind("inline"))
     \/ pc = "fallback" /\ Created({})
  /\ Goto("cleanup") /\ UNCHANGED localPath
  /\ UNCHANGED <<attempt, agentVars, disk, leaks>>

Reject422 ==
  /\ AtPost
  /\ Goto("fallback") /\ UNCHANGED localPath
  /\ UNCHANGED <<attempt, agentVars, disk, reviews, leaks>>

\* Mutant of PostFails: any failure of the first post leads to the fallback.
PostFailsFallsBack ==
  /\ AtPost
  /\ Created(OfKind("inline")) \/ UNCHANGED reviews
  /\ Goto("fallback") /\ UNCHANGED localPath
  /\ UNCHANGED <<attempt, agentVars, disk, leaks>>

\* Another status, a second 422, or no reply, to a review that was created.
PostFails ==
  /\ \/ AtPost /\ (Created(OfKind("inline")) \/ UNCHANGED reviews)
     \/ pc = "fallback" /\ (Created({}) \/ UNCHANGED reviews)
  /\ Raise
  /\ UNCHANGED <<attempt, agentVars, disk, leaks>>

-----------------------------------------------------------------------------
(* The finally block, and what RQ does next.                               *)

\* run_review_job returns, and RQ counts the job as done.
Returns ==
  /\ jobState' = "done" /\ pc' = "idle" /\ outcome' = "returned" /\ localPath' = 0
  /\ UNCHANGED retriesLeft

\* Mutant of EndAttempt: the except clause does not raise again.
EndAttemptSwallows == Returns

EndAttempt ==
  \/ outcome = "raised" /\ AttemptFails("raised")
  \/ outcome = "running" /\ Returns

Cleanup ==
  /\ pc = "cleanup"
  /\ disk' = disk \ {localPath}
  /\ EndAttempt
  /\ UNCHANGED <<attempt, agentVars, reviews, leaks>>

\* cleanup_workspace swallows an OSError of rmtree.
CleanupFails ==
  /\ pc = "cleanup"
  /\ leaks' = leaks \union {localPath}
  /\ EndAttempt
  /\ UNCHANGED <<attempt, agentVars, disk, reviews>>

\* The job timeout of RQ fires while rmtree runs.
CleanupTimesOut ==
  /\ pc = "cleanup"
  /\ leaks' = leaks \union {localPath}
  /\ AttemptFails("raised")
  /\ UNCHANGED <<attempt, agentVars, disk, reviews>>

\* The work horse dies, and no finally block runs; git may have begun to clone.
Crash ==
  /\ pc # "idle"
  /\ \/ UNCHANGED disk
     \/ pc = "clone" /\ disk' = disk \union {attempt}
  /\ leaks' = leaks \union (disk' \intersect {attempt})
  /\ AttemptFails("died")
  /\ UNCHANGED <<attempt, agentVars, reviews>>

\* A scheduler of RQ puts the job back on its queue when the backoff is over.
\* worker.py starts none, so that nothing in the repository makes this happen;
\* one that an operator runs beside it may.
Requeue ==
  /\ jobState = "scheduled"
  /\ jobState' = "queued"
  /\ UNCHANGED <<retriesLeft, attempt, pc, outcome, localPath, agentVars, disk, reviews, leaks>>

-----------------------------------------------------------------------------
Step ==
  \/ GetToken \/ GetTokenFails \/ Clone \/ CloneFails \/ Checkout \/ CheckoutFails
  \/ Diff \/ DiffFails
  \/ Skip \/ TryAgain \/ AgentRaises \/ \E found \in SUBSET Kinds : Answered(found)
  \/ Post \/ Reject422 \/ PostFails
  \/ Cleanup \/ CleanupFails \/ CleanupTimesOut \/ Crash

Next == StartAttempt \/ Step \/ Requeue

Spec == Init /\ [][Next]_vars

\* The worker takes the jobs that are queued, and an attempt that runs goes on
\* until it ends (RQ kills it after its timeout).  Requeue is not fair:
\* worker.py:40 calls work() without with_scheduler, so that no process has to
\* bring a scheduled job back.
Fairness == WF_vars(StartAttempt) /\ WF_vars(Step)

FairSpec == Spec /\ Fairness

-----------------------------------------------------------------------------
Findings == BatchIds \X Kinds

Reviews == [attempt : Attempts, inline : SUBSET Findings, summary : SUBSET Findings,
            found : SUBSET Findings, skipped : SUBSET BatchIds]

\* Every variable has a value the code can give it: in particular a job is
\* attempted once and MaxRetries times more at most.
TypeOK ==
  /\ jobState \in {"queued", "started", "scheduled", "done", "failed"}
  /\ retriesLeft \in 0..MaxRetries
  /\ attempt \in 0..MaxRetries + 1
  /\ pc \in {"idle", "token", "clone", "checkout", "diff", "agent", "fallback", "cleanup"}
  /\ outcome \in {"none", "running", "returned", "raised", "died"}
  /\ localPath \in 0..MaxRetries + 1
  /\ batch \in 1..NumBatches + 1
  /\ tries \in 0..MaxTries - 1
  /\ findings \subseteq Findings /\ skipped \subseteq BatchIds
  /\ disk \subseteq Attempts /\ leaks \subseteq Attempts
  /\ reviews \in Seq(Reviews)

\* Between attempts the only workspaces on disk are those the finally block
\* never heard of (clone_pr_repo raised, or the work horse died) or could
\* not remove; those of every other failed or finished attempt are gone.
LeaksAreExcused == pc = "idle" => disk \subseteq leaks

\* An attempt puts at most one review on the pull request, its 422 fallback
\* included, so that a duplicate review takes a second attempt.
OneReviewPerAttempt ==
  \A i, n \in DOMAIN reviews : reviews[i].attempt = reviews[n].attempt => i = n

\* A job that RQ counts as done left the review of its last attempt on the
\* pull request, and that review is the newest one there.
DoneIsReviewed ==
  jobState = "done" => reviews # <<>> /\ reviews[Len(reviews)].attempt = attempt

\* A queued review job does not run for ever: it comes to its end, done or in
\* RQ's failed registry, or an attempt failed and the job waits for good for
\* the scheduler that worker.py:40 does not start.
JobSettles ==
  jobState = "queued" ~> jobState \in {"done", "failed"} \/ [](jobState = "scheduled")

\* What RQ makes of the job, and the attempt that created the newest review.
Phase ==
  CASE jobState \in {"queued", "scheduled"} -> "waiting"
    [] jobState = "started"                 -> "running"
    [] OTHER                                -> jobState

Newest == IF reviews = <<>> THEN 0 ELSE reviews[Len(reviews)].attempt

Promise == INSTANCE JobPromise WITH
  MaxAttempts <- MaxRetries + 1, state <- Phase, attempts <- attempt,
  reviews <- Len(reviews), last <- Newest

\* The steps of a job, whatever fails in them, keep what the job promises.
KeepsPromise == Promise!Spec

-----------------------------------------------------------------------------
(* What the documentation says and the code does not do.                   *)

\* "findings that cannot be anchored to a diff line degrade to the summary
\* body instead of failing the review" (docs/architecture.md:117): each finding
\* of a review is in an inline comment or in its summary.
FindingsDegradeToSummary ==
  \A i \in DOMAIN reviews : reviews[i].found = reviews[i].inline \union reviews[i].summary
=============================================================================
