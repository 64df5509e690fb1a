# A TLA+ development of AegisAI

AegisAI is a GitHub App. A pull request webhook becomes a job in Redis, a worker
clones the repository, asks an LLM about the diff and posts a review. What is
hard about it is not the happy path but what happens between two commands: lost
replies, dead processes, two deliveries of one commit, retries of what was
already done. These modules model that part of the code, TLC checks them on
small instances, and TLAPS proves their main properties for all.

Paths below are relative to the repository.

## 1. Inventory

| Component | Code | State | Operations | Status |
| --- | --- | --- | --- | --- |
| Webhook and admin endpoints | `app/main.py` | one event loop per process; requests in progress | receive, reply; list, stats, replay, clear; metrics | modelled: `WebhookRetry` (admission, replay), `ApiProcess` (the loop and the other routes) |
| Health checks | `app/health.py` | the registered checks | liveness, readiness | modelled: `ApiProcess` |
| Webhook admission and retry | `app/services/webhook_retry.py` | retry jobs, their attempt count, the DLQ list and its counters, in Redis | enqueue once, persist, retry, dead-letter, replay, clear | modelled: `WebhookRetry` |
| Review lock, queues | `app/services/queue.py` | `review_lock:<repo>:<sha>` in Redis | SETNX, EXPIRE, DEL | modelled: `WebhookRetry`, `ReviewAdmission` |
| RQ worker | `worker.py` | RQ's queues and registries (external) | take a job, retry, give up | modelled: `WebhookRetry`, `ReviewJob`, `PullRequest` |
| Review job | `app/workers/review_worker.py` | the local variables of an attempt | token, clone, diff, agent, post, clean up | modelled: `ReviewJob`, `JobPromise` |
| Pull requests | the code above, composed | heads, events, locks, jobs, reviews at GitHub (external) | push, admit, run, post | modelled: `PullRequest` |
| Workspaces | `app/services/repo_manager.py` | directories on disk | clone, checkout, remove | modelled: `ReviewJob` |
| Installation tokens | `app/services/github_auth.py` | a cache per process | get a token | partly: success or error |
| Diff extraction | `app/services/diff_extractor.py` | the file being read, the files read | `git diff`, parse, filter, truncate | modelled: `ChangedFiles`, failures of git in `ReviewJob` |
| Security agent | `app/agents/security_agent.py` | batches, findings so far | batch, call, parse, verify a hint | modelled: `ChangedFiles` (batches), `ReviewJob` (calls), `LineHints` (hints) |
| LLM gateway | `app/services/llm_gateway.py` | tries of a call | call with retries | modelled: `ReviewJob` |
| Review posting | `app/services/github_reviewer.py` | none; reviews at GitHub (external) | map a hint to a line, build, post, fall back on a 422 | modelled: `LineHints`, `ReviewJob` |
| Circuit breaker | `app/circuit_breaker.py` | state, failure count, time of the last failure | admit, succeed, fail, time out | modelled: `CircuitBreaker` |
| Secret redaction | `app/services/secrets_redactor.py` | none | regular expressions | partly: that a secret is a placeholder in what the LLM quotes |
| Configuration, logging, tracing | `app/config.py`, `app/logging/`, `app/tracing.py` | none that control depends on | read-only | not modelled |
| Scripts, load test | `scripts/`, `.github/scripts/`, `load-test.js` | none | developer tooling | not modelled |

How they interact. API processes and workers share nothing but Redis. The
handler calls `enqueue_review_event`, which takes the review lock, enqueues a
review job on the default queue, and on an error releases the lock and puts a
retry job on the `webhook-retry` queue. A worker serves both queues, default
first. A retry job makes the same attempt again, raises to have RQ retry it, and
on its last attempt pushes the event to the DLQ, which an operator can replay
(through `enqueue_review_event`) or clear. A review job runs in a work horse
forked by the worker and talks to git, the LLM provider and GitHub: it parses
the output of `git diff` into files, batches them for the LLM, checks that each
finding quotes the diff, finds the line to comment on, and posts one review,
which names the pull request and no commit. Within an API process all routes
share one event loop and a Redis client that blocks it.

Hard behaviours, and what makes each component correct:

* **Admission**: interleaved handlers and retry jobs; errors of commands that
  were applied; crashes between SETNX, EXPIRE and the enqueue; a lock that
  lapses or is deleted under its holder. Correct when a commit is reviewed once
  up to named excuses, and no acknowledged event disappears.
* **Retry ladder and DLQ**: two counters of attempts (RQ's and the job's own),
  three commands to dead-letter, replays racing each other. Correct when a job
  is dead-lettered once and for good, and an entry leaves the DLQ only when its
  event is carried elsewhere.
* **Review job**: every step can raise, the job timeout at any line; the review
  may exist although its reply was lost. Correct when workspaces are removed, an
  attempt reviews once, and done means reviewed.
* **Pull requests**: a head is pushed while the review of the one before is
  running or waiting; several workers; retries that go to the end of the queue;
  one lock per commit and not per pull request. Correct when every head gets its
  review, up to named exceptions, no more reviews than its admissions pay for,
  and in order.
* **Changed files and hints**: parsers that carry a buffer, a counter or an
  index from one line to the next. Correct when each file is asked about once
  with its own text, and a comment is on the line it is about.
* **API process**: commands of one handler between those of a worker; a Redis
  that fails or hangs under a loop that waits for it. Correct when answers say
  what happened and every request gets one.
* **Circuit breaker**: outcomes of calls that were admitted in another state.
  Correct when an open breaker admits nothing before its quiet time is over and
  moves only along its diagram.

`PROJECT.json` lists these hazards at their lines.

## 2. Modules

| Module | What it is |
| --- | --- |
| `ReviewAdmission` | abstract specification of the review lock: a commit is admitted once, and once more per excuse |
| `WebhookRetry` | admission, retry queue and DLQ; every Redis command a step |
| `WebhookRetryProofs` | its type invariant, duplicates, exclusion, and that it implements `ReviewAdmission` |
| `DeadLetterProofs` | the dead letters and their counters, that no acknowledged event is lost, and that retry jobs only move down their ladder |
| `JobPromise` | abstract specification of a review job: bounded attempts, a review per attempt, no end as done without one |
| `ReviewJob` | one review job through all its RQ attempts |
| `ReviewJobProofs` | its invariants, that it implements `JobPromise`, and that its work is bounded |
| `PullRequest` | the composition: pushes, events, admission, jobs on several workers, reviews |
| `PullRequestProofs` | its invariants, that it does what `ReviewAdmission` and `JobPromise` say, and that its jobs and their work are bounded |
| `ChangedFiles` | from git's output to the batches of files, a piece or a file per step |
| `ChangedFilesProofs` | that each change is asked about once, with its own text, within the limits |
| `LineHints` | from a finding's hint to the line of its comment, a line per step |
| `LineHintsProofs` | that the line is the right one, and that a quoted line is found |
| `ApiProcess` | the event loop of an API process: routes, probes, Redis under them |
| `ApiProcessProofs` | that its answers say what happened, and that a request is short |
| `CircuitBreaker` | the breaker and the calls in flight through it |
| `CircuitBreakerProofs` | its invariants and action properties |
| `MC...` | small instances for TLC |

The two abstract specifications are what holds the detailed modules together.
`WebhookRetry` implements `ReviewAdmission` and `ReviewJob` implements
`JobPromise`; `PullRequest` handles an event in one step and runs an attempt as
its start, its review and its end, and is shown to do no more than the two
abstract specifications say, for each commit and each job.

An operator named *Mutant of X* just before X is X with a plausible bug. It
takes part in no specification; it documents which property would catch that
bug.

### WebhookRetry

A process has a frame: `pc` (the next command), `role` (webhook, replay, clear,
review, retry), `event`, `status` (the result of `enqueue_review_event` or of
`_enqueue_review_once`), `job`, `plan` (the entries a replay has still to do)
and `counted` (the LLEN of a clear). Each Redis command is an action; beside it
an action ending in `Fails` is the same command raising, where the command may
or may not have been applied. `ApiCrash` and `WorkhorseCrash` end a process
anywhere. Handlers are `async` but do not await between reading the body and
replying, so an API process runs one at a time and concurrency comes from having
several.

The lock of a key is `free`, `bare` (SETNX done, no TTL) or `ttl`; only a lock
with a TTL lapses. RQ is external: `JobFails` is what its worker does with a job
that raised or whose work horse died (reschedule while `retries_left` > 0,
otherwise the failed registry), `Requeue` its scheduler. After a crash the
worker handles the failure with the job it had read before the fork, so the
attempt saved in `meta` may be lost (`WorkhorseCrash`). `lapses`, `lostReplies`,
`presumed`, `cleared`, `pushes` and `pushed` are auxiliary: they are written,
never read by an action that models code, and let the properties name excuses.

Abstractions: one repository for the per-repository counter; LRANGE and LREM of
`_remove_dlq_entry_by_id` are one step, since LREM removes by value an entry
with a unique id; an operator replays all the listed entries or one;
`run_review_job` is a single step between start and end here and a module of its
own below; the client's own reissue of a command after a broken connection is
not modelled; a 5xx is delivered again, as the code's comments expect of GitHub.

### ReviewJob

`pc` walks through `run_review_job`: token, clone, checkout, diff, agent, (422)
fallback, cleanup. `localPath` is the variable of the same name: 0 until
`clone_pr_repo` returns, which is why the workspace of a failed checkout is
nobody's. `Raise` is an exception anywhere in the try block: to the finally
block when `localPath` is set, otherwise out of the job. A finding is `inline`
when its hint is confident and maps to a line and `summary` otherwise, which is
all the payload of a review depends on. The agent loop distinguishes a reply
that parses, a batch that is skipped (`ValueError`, `RuntimeError`), a retry of
the gateway, and an exception nobody catches (`_RetryableError` after the last
try, connection errors, a reply of the wrong shape, RQ's timeout). Findings of
one kind in one batch are one finding. `leaks` is auxiliary: the workspaces
whose removal is out of the finally block's reach.

### PullRequest

`Pushes` gives each pull request the heads pushed to it, in order; an event is
one of them. `events` says where an event is on its way: `Admit`, `Deduplicate`,
`AdmitUnseen` (the reply to the enqueue was lost) and `NotAdmitted` (a command
failed, perhaps with the lock left behind) are the outcomes `WebhookRetry` has,
each in one step, and `Again` is a redelivery, a reopened pull request or a
replay. `NextTime` tells apart an event the API persisted (`retrying`: its retry
job waits on `webhook-retry`, which the worker serves) and one whose retry job
has failed (`postponed`: in RQ's scheduled registry). `queue` is RQ's default
queue; `StartJob` takes its head while a worker is idle, `Fail` schedules the
job again or gives it up, `Requeue` puts it at the end of the queue. A review
records the head and the job it is of; it is posted to the pull request,
whatever its head is by then. `beside` of a job is auxiliary: the jobs that ran
when one of its attempts started. `excuses` counts lapses and lost replies as in
`ReviewAdmission`, `orphans` are the commits that were locked by a process that
enqueued nothing.

### ChangedFiles

The output of `git diff` is a sequence of pieces, as `str.splitlines` makes
them. A piece has the kind the parser's `startswith` tests give it, whether it
ends in a newline (`nl`), and whether it is a tail: what follows a separator at
which only Python splits, a form feed say, or a bare carriage return, which
reading git's output as text turns into a newline. `IsOutput` says what git
prints: headers with their fourth word, statuses and text below them, text that
runs over tails; a tail may have any kind, that of a header, of a header without
a fourth word (`broken`, after which no file is read until the next header) or
of `Binary files`. A path that changes its type has two headers, which is why a
file is known by the place of its header (`at`) and not by its name. Its text is
the positions of its pieces, so that a property can say whose they are.

`current` is the pair `current_file`, `current_diff_lines`, which is emptied at
a header. `NameOf` is what `line.split()[3][2:]` makes of a path: the path
itself, unless git quotes it or there is a space in it, and the noise filter
sees the name. `CutFile` drops binary files and truncates long ones:
`count("\n")` (`LineCount`) decides whether, the pieces decide where. The last
steps are `_batch_files`, whose limits count newlines too. The properties are
stated over the headers git printed (`GitHeaders`, `Own`), not over those the
parser sees; `Posing` are the tails it takes for more than text.

### LineHints

A diff is a sequence of pieces, as `str.splitlines` makes them: first character,
text, and whether git counts the piece as a line. The text is a sequence of what
the searches tell apart, with white space as one element, since `Verified` joins
words and `Matches` does not. `Verify` is `_verify_line_hint`, the other actions
are one iteration of `_map_hint_to_line` each. `Shown` is `redact_secrets`: the
LLM quotes the redacted diff, and the hint is looked for in the other.

### ApiProcess

Handlers are `async` but wait for nothing except the body of a webhook, and the
Redis client is synchronous: `loop` is the client whose handler has a command
under way, and nobody else is served meanwhile. `Misread` is a webhook whose
body is no JSON (500) and a limit that is no number (422). A handler is the
sequence of its Redis commands (`Commands`), whose results are kept in
`results`; `Raise` is a command that fails, `OnError` what each route makes of
it. `redis` may go down, hang and come back at any time. `check_dependency`
calls its probe without applying its timeout, so a probe waits like any other
handler. `PushLetter`, `CountLetter` and `CountRepoLetter` are the three
commands of `move_to_dlq` in a worker. The rate limiter may refuse any request,
the health probes included: `OverLimit` does not count, since the window is the
library's. `removed`, `unseen` and `states` are auxiliary and belong to a
request. There is one API process: a clear or a replay of a second one, between
the LLEN and the DEL of this one, is in `WebhookRetry` and not here.

### CircuitBreaker

No method of the breaker awaits, so each is one step; the guarded call does, so
`Admit` and the outcome are separate steps and many calls are in flight. Time
since the last failure and the failure count saturate at the value they are
compared with; the code has no such bounds. `streak` is auxiliary: `lost` after
a success in the OPEN state, which resets the count of a tripped breaker.
`FailedProbeReopens` is the header's "HALF_OPEN -> OPEN: on next failure", whose
exception is that streak.

## 3. Runs

| Run | Configuration | What it shows |
| --- | --- | --- |
| `admission` | `MCWebhookRetry` | two API processes, a worker, two deliveries of one commit, 3 faults, 1 lapse: type invariant, one review per commit and excuse, exclusion, an acknowledged event stays carried up to `presumed` and `cleared`, refinement of `ReviewAdmission` |
| `dead_letters` | `MCWebhookRetryDlq` | from a later state (an entry in the DLQ, a retry job at its last attempt, two commits): replays, clears and dead-letterings leave an acknowledged event carried, up to the same two excuses |
| `retry_ladder` | `MCWebhookRetryLadder` | one delivery, three attempts, 5 faults, RQ's scheduler: dead-lettered once, for good, counters never ahead, and every persisted event comes to an end |
| `review_job` | `MCReviewJob` | two batches, two attempts, three LLM calls a batch: all properties of the job, that it ends or waits for the scheduler nobody starts, and that it implements `JobPromise` |
| `pull_request` | `MCPullRequest` | two heads, the second shared with another pull request, two workers, two attempts a job, 2 faults: the budget of reviews, their order, that each head is reviewed unless given up, mistaken or stranded, and the two abstract specifications |
| `changed_files` | `MCChangedFiles` | every pull request with up to three ordinary files of seven kinds, the first also with a new type or with tails of every kind that matters, a noise file and a file with an odd name: each change is asked about once, under its own text, in batches within their limits |
| `line_hints` | `MCLineHints` | every diff of up to three pieces below its first hunk header, ten hints: a comment is on its line, and a quoted line gets its comment |
| `api_process` | `MCApiProcess` | two clients on all routes, a Redis that fails and hangs, two dead letters: true answers, a consistent scrape, a current readiness probe, and an answer for everyone |
| `breaker` | `MCCircuitBreaker` | three concurrent calls, threshold 2, timeout of 3 ticks: all properties of the breaker, late outcomes included |

Three more runs each show a disagreement between the code and its documentation;
TLC's counterexample is the argument. The quotations are in `PROJECT.json` under
`findings`.

| Run | What the code does |
| --- | --- |
| `no_scheduler` | `worker.py` runs no RQ scheduler: jobs rescheduled with an interval stay in the scheduled registry |
| `replay_kept` | two concurrent replays lose an entry |
| `fallback_findings` | the 422 fallback loses the inline findings |

The models show more behaviours of this kind. The properties of the passing runs
admit them as named excuses, or leave them out of their premise, and they are
listed here because a reader of the code would want to know them:

* a crash or an error between SETNX and EXPIRE (`app/services/queue.py:52`)
  leaves a lock without a TTL: every later delivery of the commit is
  deduplicated against nothing (`presumed`, and `orphans` in `PullRequest`);
* the lock's key has no pull request in it (`queue.py:48`): a pull request whose
  head is the head of another is deduplicated by that one and not reviewed
  (`Mistaken`);
* a lock (600 s) lapses before the review it admitted (up to 1800 s) ends, so
  two reviews of a commit can be in flight (`lapses`);
* an enqueue that was applied but raised is made again (`lostReplies`);
* a delivery is answered "deduplicated" against a holder that then fails
  (`presumed`);
* errors of the lock itself answer 500 without the fallback, and leave the event
  to GitHub's redelivery;
* a last attempt that raises, or whose work horse dies, ends in RQ's failed
  registry instead of the DLQ; `RetriesSettle` counts both as an end;
* `clear_dlq` reports the LLEN it read before the DEL (`counted`, and `unseen`
  in `ApiProcess`, where `ClearAnswersTruly` says how far off the number may
  be);
* a failed or timed out checkout (`repo_manager.py:115`) leaves its clone on
  disk (`leaks`);
* a batch whose LLM call was refused, or whose answer cannot be parsed, is
  skipped (`security_agent.py:216`) and the review posted without it
  (`skipped`);
* a review whose reply was lost is posted again by the next attempt:
  `OneReviewPerAttempt` is per attempt, `ReviewBudget` allows for it;
* the review of an older head comes after that of a newer one when its job had
  failed, was enqueued later, or ran beside the newer job;
* an empty context or added line matches every hint (`github_reviewer.py:160`),
  so a comment may be above the line that is quoted: `QuotedLinesArePlaced` says
  only that it is not below, `CommentLineIsReal` that its number is that of the
  line it was placed for;
* line numbers are off by one after a form feed in the diff, and a hint found in
  the path header gives line 0 (`Split` and `real`);
* a hint that quotes a redacted secret is never found, and its finding goes to
  the summary;
* a path with a space, or one git quotes, is read as another name, which the
  noise filter and the findings then use (`Plain`);
* what follows a form feed or a carriage return in a changed line is judged by
  its first words (`diff_extractor.py:51`): as a header it moves the rest of the
  text to another file or, without a fourth word, out of the review; as a mode
  line it is left out; as `Binary files` it drops the whole file (`Posing`);
* whether a diff is truncated depends on its newlines, where it is cut on its
  pieces (`diff_extractor.py:154` and `:164`): a text with form feeds can keep
  more than 4000 pieces, or be cut before its 4000th line;
* a job or an event of which one attempt failed waits in RQ's scheduled registry
  for good (`[](jobState = "scheduled")` in `JobSettles`, `Stranded`);
* health probes are answered 429 when their client is over the limit, and wait
  for a hung Redis behind any handler; without a timeout of the client nothing
  ends that (`RequestsAreAnswered` is conditional);
* a late success resets the failure count of an open breaker
  (`circuit_breaker.py:72`, `streak`): a failed probe does not reopen it then,
  where the header says the next failure does.

**Bounds.** `MaxFaults` caps failed commands and crashes together, `MaxLapses`
the lapses of a lock, `JobIds` the retry jobs ever created (with none left an
API stays before its persist), `ReplayLimit` stands for the 1000 of
`replay_dlq`. Two handlers and one worker suffice for the races over one lock,
and three faults for one of each kind in a behaviour (an enqueue that raises, a
persist that raises, a crash); five cover every rung of a ladder of three
attempts and the dead-lettering at its end. `dead_letters` starts from
`DeadLetterInit`, a state the ladder reaches, because reaching it from `Init`
costs all the faults a run can afford.

In `PullRequest`, `MaxFaults` caps failures, lapses and events that come again.
Three events, two of them of one commit, give every pair of an order, a race and
a mistaken identity; two faults allow a lapse with a failed attempt, and an
orphaned lock with a replay. `MaxJobs` follows from them (`JobsAreBounded`): it
is where the job numbers that fairness and `JobsKeepPromise` quantify over end.

In `ChangedFiles` the limits are scaled down (4 lines for 4000, 3 for 50, 4 for
200, 3 files for 5) so that files of 1, 2, 3 and 5 lines are on either side of
each, and five files fill more than one batch. The first file is also given
tails: pieces over the limit with newlines at it, both over it, a carriage
return, and a tail that poses as each of a header, a broken header, a mode line
and `Binary files`. `MaxBody` of `LineHints` is three pieces below the first
hunk header, enough for a line, another hunk header or a tail before it, and a
line that matches. `MaxPushes` of `ApiProcess` is one dead letter before and one
between the commands of a handler; the type invariant, the safety invariants and
the refinements of the other modules are proved for every value of these
constants (section 4).

`CHECK_DEADLOCK FALSE` is set where the system really stops: every delivery is
answered and no fault is left, the one job modelled has ended, all heads are
reviewed, the loop over the input is over.

**Fairness.** `WebhookRetry`: a running process goes on, and RQ's scheduler does
its work if the constant says there is one; faults, lapses and requests are
never forced. `ReviewJob`: the worker takes queued jobs and an attempt goes on
(each of its calls has a timeout, and RQ kills it after its own). `PullRequest`:
an event that was sent or persisted is handled, the queue is served, an attempt
comes to its end; nothing has to fail. A persisted event needs no scheduler for
its first attempt: it is enqueued on `webhook-retry` at once, and only its later
attempts have an interval. `ApiProcess`: strong fairness of serving a client,
since asyncio takes the coroutines that are ready in the order they became so,
and a Redis that does not hang returns or raises; the body of a webhook arrives
or its client hangs up. That Redis does not hang for good is the premise of
`RequestsAreAnswered` and no fairness condition: the client has no timeout.
`CircuitBreaker`: time passes, calls end, clients keep calling.

`worker.py:40` starts no RQ scheduler. `Requeue` of `ReviewJob` and of
`PullRequest` may therefore happen, as an operator can run one beside the
worker, but never has to, and `JobSettles` and `HeadsAreReviewed` name the case
in which it does not: a failed attempt that leaves its job scheduled for good.
One property assumes the scheduler, `RetriesSettle` in the run `retry_ladder`,
whose instance says so (`WithScheduler`); `no_scheduler` checks the same
property without it and finds it violated. The safety properties do not depend
on it, since without a scheduler there are only fewer behaviours.

## 4. Proofs

TLAPS checks, for all values of the constants that satisfy the named
assumptions:

* `TypeCorrect`: `TypeOK` of `WebhookRetry`. That `attempt` stays below
  `MaxAttempts` is not inductive: RQ's `retries_left` bounds it. `Shape` adds
  that the sum of both stays below the maximum while a job waits (`JobOK`), that
  one worker runs a job (`RunOK`), and which labels go with which role
  (`FrameOK`).
* `ReviewsAreExcused`, `AdmissionIsExclusive`, `AdmissionImplemented`. The
  argument counts claims. A process between SETNX and the outcome of its enqueue
  has one, a created review job is one, and `ClaimsCovered` says their number is
  at most that of the locks held (0 or 1), the lapses and the lost replies. Any
  step that takes a claim pays for it: SETNX with the lock, a lapse with itself.
  Release deletes a lock that may be another's, which `ClaimsCovered` survives
  because the releasing process gives up its claim with it. The proof needs
  finitely many processes (`FiniteProcesses`).
* `EntriesAreWrittenOnce`, `DeadLettersAreFinal`, `CountersAreBracketed` and
  `AcknowledgedAreCarried`, about what becomes of an event that could not be
  enqueued. `ProcessKinds` first sorts the steps of a process by what they do to
  jobs and queue, and the invariants are shown kind by kind.
  * `Ended`: a job that wrote its entry has no retries left, because its
    attempts and retries add up to the maximum at most (`Shape`), and only the
    worker between the commands of `move_to_dlq` still has it.
  * `CountersFollow` counts those workers: each counter is behind by at least as
    many as have not reached it.
  * `Acked` and `Justified`: an answer that was given, and the result a process
    returned and has not used yet, rest on a review job, a retry job or an entry
    of the queue (`Backed`), up to the two excuses. What takes one of these away
    puts another there. The hard case is a replay that removes an entry because
    its event was put in a retry job: that job may have been dead-lettered
    since, so the result rests on an entry *later* than the one removed
    (`Later`, `Since`). That ids tell entries apart (`Identified`), snapshots of
    replays included, makes the two entries different.
* `ClosedIsBelowThreshold`, `ProbesAreLate`, `FollowsDiagram`, `NoEarlyProbe`
  and `ProbeFailureReopens` for the breaker. Its safety invariants are inductive
  together with `TripKeepsCount`: a tripped breaker holds its failures unless a
  late success has reset them. The action properties follow from them,
  `ProbeFailureReopens` from `TripKeepsCount`: the count that tripped the
  breaker is still there, so one more failure is enough. `TypeOK` is a part of
  the invariant, but no run checks it and no theorem states it: its bounds are
  the model's.
* `JobTypeCorrect`, `WorkspacesAreCleaned`, `AttemptReviewsOnce`,
  `DoneMeansReviewed` for the review job. `IInv` adds where the attempt is with
  respect to its job and workspace (`Control`), that only the workspace of the
  running attempt is neither removed nor a leak (`Workspaces`), and that the
  running attempt has no review before its clean-up (`Posted`). From the same
  invariant, `JobKeepsPromise`: every step is one of `JobPromise` or none.
  `JobWorkIsBounded` is the safety half of `JobSettles`: every step of a job
  makes a triple of natural numbers smaller (moves of the job, steps of the
  attempt, calls of the batch, in that order), so that no job goes on forever
  and what is left to fairness is that it goes on at all.
* `RetriesDescend` is the safety half of `RetriesSettle` in the same way: a
  retry job has a rung in `0..3 * MaxAttempts`, from queued and retries left,
  and a step leaves it there or moves it down, whatever fails or crashes.
* `FilesTypeCorrect`, `ChangesAreReviewedOnce`, `OwnTextIsAskedAbout` and
  `BatchesKeepLimits`, for every output of git, noise filter and limits. The
  invariant has a part per loop and is in the parser's terms: a `Section`
  reaches from what the parser takes for a header to the next such piece.
  `Parsing`: the files read are those of the headers passed and not noise, once
  each, and the open file holds the text pieces of its section so far.
  `Cutting`: binary files are dropped and the rest is cut up to where the loop
  is. `Sorting`: every file is in one of the two piles, and the small pile holds
  small files. `Filling` says the same of the batches and the piles that are
  left, `Finished` of the batches alone. The limits are an invariant of the open
  batch beside these. Three lemmas lead back to what git printed: `SaidByGit`,
  that a change is binary for the parser when git says so, unless a tail does;
  `SectionIsOwn`, that a section is what git prints below the header, unless a
  tail poses; `OwnedInvariant`, that every piece passed belongs to a change of
  git's at all. The first gives `ChangesAreReviewedOnce`, the others
  `OwnTextIsAskedAbout`.
* `HintTypeCorrect` and `CommentsAreOnTheirLine`, for every diff and hint. The
  invariant (`Right`) says that inside a hunk `target` is the start of the hunk
  plus the lines counted since, unless a tail was among them.
* `QuotesArePlaced` (`QuotedLinesArePlaced`), for every diff and hint. Its loop
  half is short: a quoted line matches, so the search stops there at the latest
  (`Searched`). The other half is that the verification lets it through,
  `VerbatimIsVerified`: a hint that is any part of the diff, whatever its white
  space, is found in the diff after both were normalized. A piece is a part of
  the whole text (`PiecesArePartsOfAll`); the whole text, joined up to where a
  part ends, ends with the joined part (`JoinedPart`); joining more only appends
  (`JoinedGrows`); and cutting off the blanks at both ends leaves a part
  (`PartsAreFoundNormalized`). These are statements about recursive functions
  for texts of every length, where the library's induction theorems cannot be
  used. The proofs take the least number for which a statement fails
  (`LeastNumber`, from the well-foundedness of `<` on the naturals), and
  `RecursionIsDefined` shows that a function defined by recursion has its
  equations at all.
* `ApiTypeCorrect`, `ScrapesAreBracketed`, `ClearsAnswerTruly` and
  `ReadinessAnswersCurrent` for the API process, with any number of clients and
  dead letters. The invariant says what the handler that has the loop knows of
  Redis after each of its commands (`Scraped`, `Cleared`, `Probed` in `Frame`),
  and that the worker counts a letter after it is in the queue and for its
  repository last (`Counted`). Since one handler at a time has commands under
  way, nobody but the worker can disturb what it knows. `RequestsAreShort`: a
  request is over after seven steps of its own, and no step of another gives it
  more to do.
* For the composition, with any pull requests, heads, workers, attempts and
  faults:
  * `PullRequestTypeCorrect`. The bound on running jobs needs that the queue
    holds waiting jobs once each (`QueueWaits`); that a review is of a head that
    was pushed, that jobs and sent events are (`EventsPushed`, `JobCounts`).
  * `AdmissionAsPromised`. `Covered` says that the jobs of a commit are at most
    its excuses, and one for the lock while it is held; a job is created only
    under a lock that was free.
  * `ReviewsStayInBudget`. `Posted` says that no two reviews come from the same
    attempt of a job, so that the reviews of a commit map one to one into its
    jobs times `MaxAttempts`, and `Covered` bounds the jobs.
  * `LateReviewsAreExcused`. `OrderInv` is about the jobs never started: they
    are all in the queue (`InQueue`) and in the order they were created
    (`QueueInOrder`), among the jobs that wait for another attempt. Therefore
    jobs are first started in order (`StartedInOrder`), and when a job starts,
    an earlier one that is still at its first attempt runs beside it (`Ahead`)
    or is over. The retried jobs between them do not matter.
  * `JobsKeepTheirPromise`: each step of the composition is a step of
    `JobPromise` or none for every single job.
  * `JobsAreBounded`: no more jobs are created than `MaxJobs`, the number of
    commits and faults, so that what fairness and `JobsKeepPromise` say of the
    jobs up to that number they say of all. Jobs are at most the locks held and
    the faults (`Paid`): a job is created with a lock or by a fault, and a lock
    that lapses is a fault.
  * `WorkRunsOut`: every step is a fault, or moves one event or one job towards
    its end and none of the others away from it (`Advances`). With
    `JobsAreBounded`, it goes on forever only through faults.

Assumptions: both retry maxima are what RQ's `Retry` accepts
(`AttemptsAssumption`, `RetriesAssumption`), sets of API processes and workers
are disjoint, `NoEvent` and `NoJob` are not elements, `Pushes` gives each pull
request a sequence of commits, which are finitely many (`CommitsAssumption`),
there is a worker, diffs have their lines below hunk headers
(`DiffsAssumption`), git's output is as `IsOutput` describes it: text and
statuses below headers, that a file is binary said last, tails in text only
(`OutputsAssumption`), every path has a name (`NamesAssumption`), a batch takes
at least one file and a small file fits into one (`LimitsAssumption`; the code
has 5, 50 and 200), bounds are numbers.

Only model-checked: liveness (`RetriesSettle`, `JobSettles`, `HeadsAreReviewed`,
`RequestsAreAnswered`, `EventuallyProbes`), which is out of the prover's reach.
Every other property of the passing runs is a theorem. For all of these but
`EventuallyProbes` the safety half is proved too: that the steps which the
property waits for are bounded (`RetriesDescend`, `JobWorkIsBounded`,
`WorkRunsOut`, `RequestsAreShort`). That they are taken, and where the last of
them leaves the system, is what TLC checks.

## 5. Plan

Done: admission and retry, breaker, review job, then the composition, changed
files, line hints and the API process, and the proofs of their safety properties
and refinements.

Left: the step from `WebhookRetry` to the events of `PullRequest`, which the
abstract specification joins today, as a refinement of its own.

### Not modelled, and why

* **Installation tokens**, partly: a token is obtained or the attempt fails. The
  cache is per process and a work horse is forked per job, so in the worker it
  starts empty for each job and is read once; nothing else calls it.
* **Secret redaction**, partly: which strings the regular expressions match is
  character data without control. What it does to hints is in `LineHints`.
* **Configuration**: read once at start; the settings are constants of the
  models.
* **Logging and tracing**: no control depends on them.
* **Scripts and load test**: developer tooling outside the running system, most
  of it straight-line checks of text files.
* In `app/main.py`: CORS and security headers, the counting of the rate
  limiter's window, and the request counters of `/metrics`.
