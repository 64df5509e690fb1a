----------------------------- MODULE ApiProcess ------------------------------
(***************************************************************************)
(* The API process: app/main.py with app/health.py, one event loop that    *)
(* serves all requests.  The handlers are async functions that wait for    *)
(* nothing but the body of a webhook, and the Redis client blocks: while a *)
(* handler has a command under way, the loop serves nobody.                *)
(*                                                                         *)
(* The handlers of the dead-letter queue and of /metrics are the sequences *)
(* of their Redis commands, and the worker that moves events to the queue  *)
(* (move_to_dlq) runs beside them.  The handler of a webhook is two        *)
(* commands that may fail: WebhookRetry has them all.                      *)
(***************************************************************************)
EXTENDS Integers, Sequences, SequencesExt

CONSTANTS
  Clients,      \* connections, each with one request at a time
  MaxPushes,    \* bound on dead letters
  NoClient

\* All but /webhooks/dlq/replay, which WebhookRetry models.
Routes == {"health", "ready", "metrics", "list", "stats", "clear", "webhook"}

ASSUME ClientsAssumption == NoClient \notin Clients
ASSUME BoundAssumption == MaxPushes \in Nat

VARIABLES
  pc,       \* per client: "idle", "arrived" or "commands"
  route,    \* per client: the route of its request, or "none"
  answer,   \* the status of the last response, 0 when another one comes
  results,  \* per client: what its Redis commands returned
  loop,     \* the client whose handler has a command under way
  redis,    \* "up", "down" (commands raise) or "hung" (they do not return)
  letters,  \* the length of webhook:dlq
  total,    \* webhook:dlq:moves_total
  byRepo,   \* webhook:dlq:moves_by_repo, of one repository
  mover,    \* the worker in move_to_dlq: "idle", "incr" or "hincrby"
  gauges,   \* those of the counters that /metrics shows
  pushes,   \* auxiliary: entries ever pushed
  removed,  \* auxiliary, per client: entries its DEL removed
  unseen,   \* auxiliary, per client: entries pushed since its LLEN
  states    \* auxiliary, per client: states of Redis while its probe runs

requestVars == <<pc, route, results>>
dlqVars == <<letters, total, byRepo, mover, pushes>>
auxVars == <<removed, unseen, states>>
vars == <<requestVars, answer, loop, redis, dlqVars, gauges, auxVars>>

Init ==
  /\ pc = [c \in Clients |-> "idle"] /\ route = [c \in Clients |-> "none"]
  /\ answer = 0
  /\ results = [c \in Clients |-> <<>>]
  /\ loop = NoClient
  /\ redis = "up" /\ mover = "idle"
  /\ letters = 0 /\ total = 0 /\ byRepo = 0 /\ pushes = 0
  /\ gauges = [total |-> 0, byRepo |-> 0]
  /\ removed = [c \in Clients |-> 0]
  /\ unseen = [c \in Clients |-> 0]
  /\ states = [c \in Clients |-> {}]

\* Mutant of LoopFree: handlers in threads of their own.
LoopNotBlocked == TRUE

LoopFree == loop = NoClient

Respond(c, status) ==
  /\ pc' = [pc EXCEPT ![c] = "idle"]
  /\ route' = [route EXCEPT ![c] = "none"]
  /\ answer' = status

-----------------------------------------------------------------------------
(* From the socket to the handler.                                         *)

Arrive(c) ==
  /\ pc[c] = "idle"
  /\ pc' = [pc EXCEPT ![c] = "arrived"] /\ answer' = 0
  /\ \E x \in Routes : route' = [route EXCEPT ![c] = x]
  /\ UNCHANGED <<results, loop, redis, dlqVars, gauges, auxVars>>

\* SlowAPIMiddleware counts the requests of a client to every route, and the
\* health probes are no exception.
OverLimit(c) ==
  /\ LoopFree /\ pc[c] = "arrived"
  /\ Respond(c, 429)
  /\ UNCHANGED <<results, loop, redis, dlqVars, gauges, auxVars>>

\* request.body() is the one await of a handler, that of a webhook: others
\* are served until the body is there, or its client hangs up instead.
Disconnect(c) ==
  /\ LoopFree /\ pc[c] = "arrived" /\ route[c] = "webhook"
  /\ Respond(c, 499)
  /\ UNCHANGED <<results, loop, redis, dlqVars, gauges, auxVars>>

\* No API key or a wrong one (403, which the model does not tell from 401),
\* no signature of the body or a wrong one.
Refuse(c) ==
  /\ LoopFree /\ pc[c] = "arrived" /\ route[c] \in {"list", "stats", "clear", "webhook"}
  /\ Respond(c, 401)
  /\ UNCHANGED <<results, loop, redis, dlqVars, gauges, auxVars>>

\* What needs no Redis: liveness, and an event other than a pull request that
\* is opened, synchronized or reopened.
AnswerAtOnce(c) ==
  /\ LoopFree /\ pc[c] = "arrived" /\ route[c] \in {"health", "webhook"}
  /\ Respond(c, 200)
  /\ UNCHANGED <<results, loop, redis, dlqVars, gauges, auxVars>>

\* A webhook whose body is no JSON raises, and the framework refuses a limit
\* that is no number.
Misread(c) ==
  /\ LoopFree /\ pc[c] = "arrived"
  /\ \/ route[c] = "webhook" /\ Respond(c, 500)
     \/ route[c] = "list" /\ Respond(c, 422)
  /\ UNCHANGED <<results, loop, redis, dlqVars, gauges, auxVars>>

-----------------------------------------------------------------------------
(* The Redis commands of the handlers.                                     *)

\* Mutant of Commands: get_dlq_metrics reads the total first.
CommandsTotalFirst(c) ==
  CASE route[c] = "ready"   -> <<"ping">>
    [] route[c] = "metrics" -> <<"get", "hgetall", "llen">>
    [] route[c] = "list"    -> <<"lrange">>
    [] route[c] = "stats"   -> <<"llen", "get", "retries", "queued", "failed">>
    [] route[c] = "clear"   -> <<"llen", "del">>
    [] route[c] = "webhook" -> <<"setnx", "enqueue">>
    [] OTHER                -> <<>>

Commands(c) ==
  CASE route[c] = "ready"   -> <<"ping">>
    [] route[c] = "metrics" -> <<"hgetall", "get", "llen">>
    [] route[c] = "list"    -> <<"lrange">>
    [] route[c] = "stats"   -> <<"llen", "get", "retries", "queued", "failed">>
    [] route[c] = "clear"   -> <<"llen", "del">>
    [] route[c] = "webhook" -> <<"setnx", "enqueue">>
    [] OTHER                -> <<>>

Begin(c) ==
  /\ LoopFree /\ pc[c] = "arrived" /\ route[c] # "health"
  /\ loop' = c /\ answer' = 0
  /\ pc' = [pc EXCEPT ![c] = "commands"] /\ UNCHANGED route
  /\ states' = [states EXCEPT ![c] = IF route[c] = "ready" THEN {redis} ELSE {}]
  /\ UNCHANGED <<results, redis, dlqVars, gauges, removed, unseen>>

Position(c) == Len(results[c]) + 1

\* The handler has issued all its commands; clear_dlq deletes no empty queue,
\* and a commit under review is not enqueued.
Over(c) ==
  \/ Position(c) > Len(Commands(c))
  \/ route[c] \in {"clear", "webhook"} /\ results[c] = <<0>>

Command(c) == Commands(c)[Position(c)]

Values(command) ==
  CASE command \in {"llen", "lrange"} -> {letters}
    [] command = "get"                -> {total}
    [] command = "hgetall"            -> {byRepo}
    [] command = "setnx"              -> {0, 1}
    [] OTHER                          -> {1}

Effect(c) ==
  IF Command(c) = "del"
    THEN letters' = 0 /\ removed' = [removed EXCEPT ![c] = letters]
    ELSE UNCHANGED <<letters, removed>>

Execute(c) ==
  /\ pc[c] = "commands" /\ redis = "up" /\ ~Over(c)
  /\ \E x \in Values(Command(c)) : results' = [results EXCEPT ![c] = Append(@, x)]
  /\ Effect(c)
  /\ UNCHANGED <<pc, route, answer, loop, redis, total, byRepo, mover, pushes, gauges,
                 unseen, states>>

\* The frame of a handler is gone with it.
Forget(c) ==
  /\ results' = [results EXCEPT ![c] = <<>>]
  /\ removed' = [removed EXCEPT ![c] = 0]
  /\ unseen' = [unseen EXCEPT ![c] = 0]
  /\ states' = [states EXCEPT ![c] = {}]

\* Where each of the values that get_dlq_metrics read comes from.
Read(c, command) == results[c][CHOOSE n \in 1..3 : Commands(c)[n] = command]

Finish(c) ==
  /\ pc[c] = "commands" /\ Over(c)
  /\ loop' = NoClient
  /\ Respond(c, 200)
  /\ gauges' = IF route[c] = "metrics"
                 THEN [total |-> Read(c, "get"), byRepo |-> Read(c, "hgetall")]
                 ELSE gauges
  /\ Forget(c)
  /\ UNCHANGED <<redis, dlqVars>>

\* Mutant of OnError: a probe that raises counts as passed.
OnErrorPassed(c) == CASE route[c] = "webhook" -> {500, 503} [] OTHER -> {200}

\* check_dependency and /metrics catch everything, a webhook is answered by
\* what enqueue_review_event makes of the error, a route has none.
OnError(c) ==
  CASE route[c] = "ready"   -> {503}
    [] route[c] = "metrics" -> {200}
    [] route[c] = "webhook" -> {200, 500, 503}
    [] OTHER                -> {500}

\* Mutant of Raise: the client tries a command until Redis answers.
RaiseNever(c) ==
  /\ pc[c] = "commands" /\ redis = "down" /\ ~Over(c)
  /\ UNCHANGED vars

\* The command raises, after it was carried out or not.
Raise(c) ==
  /\ pc[c] = "commands" /\ redis = "down" /\ ~Over(c)
  /\ loop' = NoClient
  /\ \E status \in OnError(c) : Respond(c, status)
  /\ letters' \in {letters, IF Command(c) = "del" THEN 0 ELSE letters}
  /\ Forget(c)
  /\ UNCHANGED <<redis, total, byRepo, mover, pushes, gauges>>

-----------------------------------------------------------------------------
(* Redis, and the worker that moves events to the dead-letter queue.       *)

\* The server goes away, comes back, or no longer answers; the client has no
\* timeout.
RedisTurns(state) ==
  /\ redis' = state /\ state # redis
  /\ states' = [c \in Clients |->
       IF pc[c] = "commands" /\ route[c] = "ready" THEN states[c] \union {state} ELSE states[c]]
  /\ UNCHANGED <<requestVars, answer, loop, dlqVars, gauges, removed, unseen>>

HasCounted(c) == route[c] = "clear" /\ pc[c] = "commands" /\ results[c] # <<>>

PushLetter ==
  /\ redis = "up" /\ mover = "idle" /\ pushes < MaxPushes
  /\ letters' = letters + 1 /\ pushes' = pushes + 1 /\ mover' = "incr"
  /\ unseen' = [c \in Clients |-> IF HasCounted(c) THEN unseen[c] + 1 ELSE unseen[c]]
  /\ UNCHANGED <<requestVars, answer, loop, redis, total, byRepo, gauges, removed, states>>

CountLetter ==
  /\ redis = "up" /\ mover = "incr"
  /\ total' = total + 1 /\ mover' = "hincrby"
  /\ UNCHANGED <<requestVars, answer, loop, redis, letters, byRepo, pushes, gauges, auxVars>>

CountRepoLetter ==
  /\ redis = "up" /\ mover = "hincrby"
  /\ byRepo' = byRepo + 1 /\ mover' = "idle"
  /\ UNCHANGED <<requestVars, answer, loop, redis, letters, total, pushes, gauges, auxVars>>

\* A command of the worker raises, or the worker dies.
MoveFails ==
  /\ mover # "idle"
  /\ mover' = "idle"
  /\ UNCHANGED <<requestVars, answer, loop, redis, letters, total, byRepo, pushes, gauges,
                 auxVars>>

-----------------------------------------------------------------------------
Serve(c) ==
  \/ OverLimit(c) \/ Disconnect(c) \/ Refuse(c) \/ AnswerAtOnce(c) \/ Misread(c)
  \/ Begin(c) \/ Execute(c) \/ Finish(c) \/ Raise(c)

Next ==
  \/ \E c \in Clients : Arrive(c) \/ Serve(c)
  \/ \E state \in {"up", "down", "hung"} : RedisTurns(state)
  \/ PushLetter \/ CountLetter \/ CountRepoLetter \/ MoveFails

Spec == Init /\ [][Next]_vars

\* The event loop takes the coroutines that can go on in turn, a body arrives
\* or its client hangs up, and a Redis that is not hung returns or raises.
Fairness == \A c \in Clients : SF_vars(Serve(c))

FairSpec == Spec /\ Fairness

-----------------------------------------------------------------------------
Labels == {"idle", "arrived", "commands"}

\* Every variable has a value the code can give it: in particular only
\* one handler has Redis commands under way.
TypeOK ==
  /\ pc \in [Clients -> Labels]
  /\ \A c \in Clients : IF pc[c] = "idle" THEN route[c] = "none" ELSE route[c] \in Routes
  /\ answer \in {0, 200, 401, 422, 429, 499, 500, 503}
  /\ \A c \in Clients : Len(results[c]) <= Len(Commands(c))
  /\ loop \in Clients \union {NoClient}
  /\ \A c \in Clients : pc[c] = "commands" <=> loop = c
  /\ redis \in {"up", "down", "hung"} /\ mover \in {"idle", "incr", "hincrby"}
  /\ pushes \in 0..MaxPushes /\ letters \in 0..pushes
  /\ total \in 0..pushes /\ byRepo \in 0..total
  /\ gauges.total \in 0..total /\ gauges.byRepo \in 0..byRepo
  /\ \A c \in Clients :
       removed[c] \in 0..pushes /\ unseen[c] \in 0..pushes
         /\ states[c] \subseteq {"up", "down", "hung"}

Answers(c, which, status) ==
  route[c] = which /\ pc[c] = "commands" /\ pc'[c] = "idle" /\ answer' = status

\* DELETE /webhooks/dlq counts and deletes in two commands.  It answers with
\* the number of entries that it removed but for those dead-lettered between
\* the two, and never counts an entry that another request of the process
\* removed; a second process may remove some between the two.
ClearAnswersTruly ==
  [][\A c \in Clients : Answers(c, "clear", 200) =>
       removed[c] \in results[c][1]..results[c][1] + unseen[c]]_vars

\* What a scrape shows is of one read of the counters, and a repository never
\* has more dead letters in it than there are, though the worker counts
\* between the three reads, and each of them may raise.
ScrapeIsBracketed == gauges.byRepo <= gauges.total

\* The readiness probe answers for the state Redis had while it was asked,
\* and not for one before.
ReadinessIsCurrent ==
  [][\A c \in Clients :
       /\ Answers(c, "ready", 200) => "up" \in states[c]
       /\ Answers(c, "ready", 503) => "down" \in states[c]]_vars

\* Every request that arrives is answered, a liveness probe behind a handler
\* that waits for Redis too, if Redis does not hang for good.
RequestsAreAnswered ==
  <>[](redis # "hung") =>
    \A c \in Clients : pc[c] = "arrived" ~> pc[c] = "idle"
=============================================================================
