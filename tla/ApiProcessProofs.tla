-------------------------- MODULE ApiProcessProofs ---------------------------
(***************************************************************************)
(* What TLAPS proves of ApiProcess, for any number of clients and of       *)
(* dead letters: that its answers say what happened, and that a request is *)
(* over after a few steps of its own.                                      *)
(***************************************************************************)
EXTENDS ApiProcess, SequenceTheorems, TLAPS

\* The worker counts an event once it is in the queue, for all repositories
\* before its own.
Counted ==
  /\ total + (IF mover = "incr" THEN 1 ELSE 0) <= pushes
  /\ byRepo + (IF mover = "hincrby" THEN 1 ELSE 0) <= total

\* What the handler of a scrape has read.
Scraped(c) ==
  /\ Len(results[c]) >= 1 => results[c][1] <= byRepo
  /\ Len(results[c]) >= 2 => results[c][1] <= results[c][2] /\ results[c][2] <= total

\* What the handler of a clear knows of the queue, before its DEL and after.
Cleared(c) ==
  /\ Len(results[c]) = 0 => unseen[c] = 0
  /\ Len(results[c]) <= 1 => removed[c] = 0
  /\ Len(results[c]) = 1 => letters = results[c][1] + unseen[c]
  /\ Len(results[c]) = 2 => removed[c] \in results[c][1]..results[c][1] + unseen[c]

Probed(c) == redis \in states[c] /\ (Len(results[c]) >= 1 => "up" \in states[c])

\* The frame of a handler, which is empty while it does not run.
Frame(c) ==
  /\ results[c] \in Seq(Nat)
  /\ pc[c] # "commands" => results[c] = <<>> /\ removed[c] = 0 /\ unseen[c] = 0
  /\ pc[c] = "commands" /\ route[c] = "metrics" => Scraped(c)
  /\ pc[c] = "commands" /\ route[c] = "clear" => Cleared(c)
  /\ pc[c] = "commands" /\ route[c] = "ready" => Probed(c)

Functions ==
  /\ route \in [Clients -> Routes \union {"none"}]
  /\ results \in [Clients -> Seq(Nat)]
  /\ removed \in [Clients -> Nat] /\ unseen \in [Clients -> Nat]
  /\ states \in [Clients -> SUBSET {"up", "down", "hung"}]
  /\ gauges \in [total : Nat, byRepo : Nat]

Frames == \A c \in Clients : Frame(c)

IInv == TypeOK /\ Functions /\ Counted /\ Frames /\ ScrapeIsBracketed

-----------------------------------------------------------------------------
\* The lengths of a list of at most three results.
LEMMA FewResults ==
  \A n \in Nat :
    /\ n + 1 <= 3 => n = 0 \/ n = 1 \/ n = 2
    /\ n + 1 <= 2 => n = 0 \/ n = 1
    /\ n + 1 > 2 /\ n <= 2 => n = 2
  OBVIOUS

\* A result more.
LEMMA OneMoreResult ==
  ASSUME NEW s \in Seq(Nat), NEW x \in Nat
  PROVE  /\ Len(s) \in Nat /\ Len(Append(s, x)) = Len(s) + 1
         /\ \A n \in 1..Len(s) : Append(s, x)[n] = s[n] /\ s[n] \in Nat
         /\ Append(s, x)[Len(s) + 1] = x
  OBVIOUS

\* The commands of the handlers the invariant speaks of.
LEMMA CommandsOf ==
  ASSUME NEW c \in Clients, route[c] \in Routes \union {"none"}
  PROVE  /\ Len(Commands(c)) \in Nat
         /\ route[c] = "metrics" =>
              /\ Commands(c) = <<"hgetall", "get", "llen">> /\ Len(Commands(c)) = 3
              /\ Commands(c)[1] = "hgetall" /\ Commands(c)[2] = "get" /\ Commands(c)[3] = "llen"
         /\ route[c] = "clear" =>
              /\ Commands(c) = <<"llen", "del">> /\ Len(Commands(c)) = 2
              /\ Commands(c)[1] = "llen" /\ Commands(c)[2] = "del"
         /\ route[c] = "ready" => Commands(c) = <<"ping">> /\ Len(Commands(c)) = 1
  BY DEF Commands, Routes

\* One handler at a time has commands under way.
LEMMA OneHandler ==
  ASSUME IInv, NEW c \in Clients, pc[c] = "commands"
  PROVE  loop = c /\ \A d \in Clients : d # c => pc[d] # "commands"
  BY DEF IInv, TypeOK

LEMMA InitIInv == Init => IInv
  <1> SUFFICES ASSUME Init PROVE IInv
    OBVIOUS
  <1>1. TypeOK
    <2>1. \A c \in Clients : Commands(c) = <<>> /\ results[c] = <<>>
      BY DEF Init, Commands
    <2>2. QED
      BY <2>1, ClientsAssumption, BoundAssumption DEF Init, TypeOK, Labels
  <1>2. Functions
    BY DEF Init, Functions
  <1>3. Counted /\ ScrapeIsBracketed
    BY DEF Init, Counted, ScrapeIsBracketed
  <1>4. Frames
    BY DEF Init, Frames, Frame
  <1>5. QED
    BY <1>1, <1>2, <1>3, <1>4 DEF IInv

\* A request that arrives, or is answered without Redis, has no frame.
LEMMA OutsideStep ==
  ASSUME IInv, NEW c \in Clients,
         \/ Arrive(c) \/ OverLimit(c) \/ Disconnect(c) \/ Refuse(c)
         \/ AnswerAtOnce(c) \/ Misread(c)
  PROVE  IInv'
  <1>1. /\ pc[c] # "commands"
        /\ \E label \in {"idle", "arrived"}, x \in Routes \union {"none"} :
             /\ pc' = [pc EXCEPT ![c] = label] /\ route' = [route EXCEPT ![c] = x]
             /\ label = "idle" <=> x = "none"
        /\ answer' \in {0, 200, 401, 422, 429, 499, 500}
        /\ UNCHANGED <<results, loop, redis, letters, total, byRepo, mover, pushes, gauges, removed,
                       unseen, states>>
    BY DEF Arrive, OverLimit, Disconnect, Refuse, AnswerAtOnce, Misread, Respond, dlqVars,
       auxVars, Routes
  <1>2. PICK label \in {"idle", "arrived"}, x \in Routes \union {"none"} :
          /\ pc' = [pc EXCEPT ![c] = label] /\ route' = [route EXCEPT ![c] = x]
          /\ label = "idle" <=> x = "none"
    BY <1>1
  <1>3. /\ pc'[c] = label /\ route'[c] = x
        /\ \A d \in Clients : d # c => pc'[d] = pc[d] /\ route'[d] = route[d]
        /\ pc' \in [Clients -> Labels] /\ route' \in [Clients -> Routes \union {"none"}]
    BY <1>2 DEF IInv, TypeOK, Functions, Labels
  <1>4. results[c] = <<>> /\ removed[c] = 0 /\ unseen[c] = 0
    BY <1>1 DEF IInv, Frames, Frame
  <1>5. \A d \in Clients : Len(results'[d]) <= Len(Commands(d)')
    <2>1. Len(results'[c]) <= Len(Commands(c)')
      BY <1>1, <1>3, <1>4, CommandsOf, Len(<<>>) = 0 DEF Commands, Routes
    <2>2. \A d \in Clients : d # c => Commands(d)' = Commands(d)
      BY <1>3 DEF Commands
    <2>3. QED
      BY <1>1, <2>1, <2>2 DEF IInv, TypeOK
  <1>6. TypeOK'
    <2>1. \A d \in Clients : pc'[d] = "commands" <=> loop = d
      BY <1>1, <1>3 DEF IInv, TypeOK
    <2>2. \A d \in Clients : IF pc'[d] = "idle" THEN route'[d] = "none" ELSE route'[d] \in Routes
      BY <1>2, <1>3 DEF IInv, TypeOK
    <2>3. QED
      BY <1>1, <1>3, <1>5, <2>1, <2>2 DEF IInv, TypeOK
  <1>7. Frames'
    <2>1. ASSUME NEW d \in Clients PROVE Frame(d)'
      <3>1. CASE d = c
        BY <1>1, <1>3, <1>4, <3>1 DEF IInv, Frames, Frame
      <3>2. CASE d # c
        BY <1>1, <1>3, <3>2 DEF IInv, Frames, Frame, Scraped, Cleared, Probed
      <3>3. QED
        BY <3>1, <3>2
    <2>2. QED
      BY <2>1 DEF Frames
  <1>8. QED
    BY <1>1, <1>3, <1>6, <1>7 DEF IInv, Functions, Counted, ScrapeIsBracketed

LEMMA BeginStep ==
  ASSUME IInv, NEW c \in Clients, Begin(c)
  PROVE  IInv'
  <1>1. /\ loop = NoClient /\ pc[c] = "arrived" /\ loop' = c /\ answer' = 0
        /\ pc' = [pc EXCEPT ![c] = "commands"]
        /\ states' = [states EXCEPT ![c] = IF route[c] = "ready" THEN {redis} ELSE {}]
        /\ UNCHANGED <<route, results, redis, letters, total, byRepo, mover, pushes, gauges, removed,
                       unseen>>
    BY DEF Begin, LoopFree, dlqVars
  <1>2. /\ pc'[c] = "commands" /\ pc' \in [Clients -> Labels]
        /\ \A d \in Clients : d # c => pc'[d] = pc[d] /\ pc[d] # "commands"
    BY <1>1, ClientsAssumption DEF IInv, TypeOK, Labels
  <1>3. states'[c] = (IF route[c] = "ready" THEN {redis} ELSE {})
        /\ states' \in [Clients -> SUBSET {"up", "down", "hung"}]
    BY <1>1 DEF IInv, TypeOK, Functions
  <1>4. results[c] = <<>> /\ removed[c] = 0 /\ unseen[c] = 0 /\ Len(results[c]) = 0
    BY <1>1 DEF IInv, Frames, Frame
  <1>5. TypeOK'
    <2>1. \A d \in Clients : Commands(d)' = Commands(d)
      BY <1>1 DEF Commands
    <2>2. \A d \in Clients : pc'[d] = "commands" <=> c = d
      BY <1>2
    <2>3. \A d \in Clients : IF pc'[d] = "idle" THEN route'[d] = "none" ELSE route'[d] \in Routes
      BY <1>1, <1>2 DEF IInv, TypeOK
    <2>4. \A d \in Clients : states'[d] \subseteq {"up", "down", "hung"}
      BY <1>3
    <2>5. QED
      BY <1>1, <1>2, <2>1, <2>2, <2>3, <2>4 DEF IInv, TypeOK
  <1>6. Frames'
    <2>1. ASSUME NEW d \in Clients PROVE Frame(d)'
      <3>1. CASE d = c
        BY <1>1, <1>2, <1>3, <1>4, <3>1 DEF IInv, Frames, Frame, Scraped, Cleared, Probed
      <3>2. CASE d # c
        BY <1>1, <1>2, <3>2 DEF IInv, Frames, Frame
      <3>3. QED
        BY <3>1, <3>2
    <2>2. QED
      BY <2>1 DEF Frames
  <1>7. QED
    BY <1>1, <1>3, <1>5, <1>6 DEF IInv, Functions, Counted, ScrapeIsBracketed

\* A handler that answers leaves an empty frame.
LEMMA EndStep ==
  ASSUME IInv, NEW c \in Clients, pc[c] = "commands", loop' = NoClient,
         NEW status \in {200, 500, 503}, Respond(c, status), Forget(c),
         letters' \in {0, letters},
         gauges' \in [total : 0..total, byRepo : 0..byRepo], gauges'.byRepo <= gauges'.total,
         UNCHANGED <<redis, total, byRepo, mover, pushes>>
  PROVE  IInv'
  <1>1. /\ pc' = [pc EXCEPT ![c] = "idle"] /\ route' = [route EXCEPT ![c] = "none"]
        /\ answer' = status
        /\ results' = [results EXCEPT ![c] = <<>>] /\ removed' = [removed EXCEPT ![c] = 0]
        /\ unseen' = [unseen EXCEPT ![c] = 0] /\ states' = [states EXCEPT ![c] = {}]
    BY DEF Respond, Forget
  <1>2. Functions'
    <2>1. gauges' \in [total : Nat, byRepo : Nat]
      BY DEF IInv, TypeOK
    <2>2. QED
      BY <1>1, <2>1 DEF IInv, Functions
  <1>3. /\ pc'[c] = "idle" /\ route'[c] = "none" /\ results'[c] = <<>> /\ removed'[c] = 0
        /\ unseen'[c] = 0 /\ states'[c] = {} /\ pc' \in [Clients -> Labels]
        /\ \A d \in Clients : d # c =>
             /\ pc'[d] = pc[d] /\ route'[d] = route[d] /\ results'[d] = results[d]
             /\ removed'[d] = removed[d] /\ unseen'[d] = unseen[d] /\ states'[d] = states[d]
    BY <1>1 DEF IInv, TypeOK, Functions, Labels
  <1>4. \A d \in Clients : d # c => pc[d] # "commands"
    BY OneHandler
  <1>5. \A d \in Clients : Len(results'[d]) <= Len(Commands(d)')
    <2>1. Commands(c)' = <<>>
      BY <1>3 DEF Commands
    <2>2. \A d \in Clients : d # c => Commands(d)' = Commands(d)
      BY <1>3 DEF Commands
    <2>3. QED
      BY <1>3, <2>1, <2>2 DEF IInv, TypeOK
  <1>6. TypeOK'
    <2>1. \A d \in Clients : pc'[d] = "commands" <=> NoClient = d
      BY <1>3, <1>4, ClientsAssumption
    <2>2. \A d \in Clients : IF pc'[d] = "idle" THEN route'[d] = "none" ELSE route'[d] \in Routes
      BY <1>3 DEF IInv, TypeOK
    <2>3. \A d \in Clients :
            /\ removed'[d] \in 0..pushes /\ unseen'[d] \in 0..pushes
            /\ states'[d] \subseteq {"up", "down", "hung"}
      <3>1. pushes \in Nat
        BY BoundAssumption DEF IInv, TypeOK
      <3>2. QED
        BY <1>3, <3>1 DEF IInv, TypeOK
    <2>4. letters' \in 0..pushes /\ answer' \in {0, 200, 401, 422, 429, 499, 500, 503}
      BY <1>1, BoundAssumption DEF IInv, TypeOK
    <2>5. QED
      BY <1>3, <1>5, <2>1, <2>2, <2>3, <2>4 DEF IInv, TypeOK
  <1>7. Frames'
    <2>1. ASSUME NEW d \in Clients PROVE Frame(d)'
      <3>1. CASE d = c
        <4>1. pc'[d] # "commands" /\ results'[d] \in Seq(Nat)
          BY <1>2, <1>3, <3>1 DEF Functions
        <4>2. QED
          BY <1>3, <3>1, <4>1 DEF Frame
      <3>2. CASE d # c
        BY <1>3, <1>4, <3>2 DEF IInv, Frames, Frame
      <3>3. QED
        BY <3>1, <3>2
    <2>2. QED
      BY <2>1 DEF Frames
  <1>8. QED
    BY <1>2, <1>6, <1>7 DEF IInv, Counted, ScrapeIsBracketed

\* A command that returns: of the values it may return, the invariant needs
\* those of the counters and of the length of the queue.
LEMMA ExecuteStep ==
  ASSUME IInv, NEW c \in Clients, Execute(c)
  PROVE  IInv'
  <1>1. PICK x \in Values(Command(c)) : results' = [results EXCEPT ![c] = Append(@, x)]
    BY DEF Execute
  <1>2. /\ pc[c] = "commands" /\ redis = "up" /\ ~Over(c) /\ Effect(c)
        /\ UNCHANGED <<pc, route, answer, loop, redis, total, byRepo, mover, pushes, gauges,
                       unseen, states>>
    BY DEF Execute
  <1>3. /\ letters \in Nat /\ total \in Nat /\ byRepo \in Nat /\ pushes \in Nat
        /\ letters <= pushes /\ byRepo <= total
    BY BoundAssumption DEF IInv, TypeOK
  <1>4. x \in Nat
    BY <1>3 DEF Values
  <1>5. /\ results[c] \in Seq(Nat) /\ results' \in [Clients -> Seq(Nat)]
        /\ results'[c] = Append(results[c], x) /\ Len(results[c]) \in Nat
        /\ Len(results'[c]) = Len(results[c]) + 1
        /\ \A n \in 1..Len(results[c]) : results'[c][n] = results[c][n] /\ results[c][n] \in Nat
        /\ results'[c][Len(results[c]) + 1] = x
        /\ \A d \in Clients : d # c => results'[d] = results[d]
    <2>1. results[c] \in Seq(Nat)
      BY DEF IInv, Functions
    <2>2. Append(results[c], x) \in Seq(Nat)
      BY <1>4, <2>1
    <2>3. /\ results' \in [Clients -> Seq(Nat)] /\ results'[c] = Append(results[c], x)
          /\ \A d \in Clients : d # c => results'[d] = results[d]
      BY <1>1, <2>2 DEF IInv, Functions
    <2>4. /\ Len(results[c]) \in Nat /\ Len(Append(results[c], x)) = Len(results[c]) + 1
          /\ Append(results[c], x)[Len(results[c]) + 1] = x
          /\ \A n \in 1..Len(results[c]) :
               Append(results[c], x)[n] = results[c][n] /\ results[c][n] \in Nat
      BY <1>4, <2>1, OneMoreResult
    <2>5. QED
      BY <2>1, <2>3, <2>4, Zenon
  <1>6. Len(Commands(c)) \in Nat /\ Len(results[c]) + 1 <= Len(Commands(c))
    BY <1>2, <1>5, CommandsOf DEF IInv, Functions, Over, Position
  <1>7. /\ removed' \in [Clients -> Nat] /\ letters' \in Nat /\ letters' <= pushes
        /\ \A d \in Clients : removed'[d] \in 0..pushes /\ (d # c => removed'[d] = removed[d])
        /\ Command(c) # "del" => letters' = letters /\ removed'[c] = removed[c]
        /\ Command(c) = "del" => removed'[c] = letters
    <2>1. CASE Command(c) = "del"
      <3>1. letters' = 0 /\ removed' = [removed EXCEPT ![c] = letters]
        BY <1>2, <2>1 DEF Effect
      <3>2. removed \in [Clients -> Nat] /\ \A d \in Clients : removed[d] \in 0..pushes
        BY DEF IInv, TypeOK, Functions
      <3>3. QED
        BY <1>3, <2>1, <3>1, <3>2
    <2>2. CASE Command(c) # "del"
      BY <1>2, <1>3, <2>2 DEF Effect, IInv, TypeOK, Functions
    <2>3. QED
      BY <2>1, <2>2
  <1>8. TypeOK'
    <2>1. \A d \in Clients : Commands(d)' = Commands(d)
      BY <1>2 DEF Commands
    <2>2. \A d \in Clients : Len(results'[d]) <= Len(Commands(d)')
      <3>1. Len(results'[c]) <= Len(Commands(c))
        BY <1>5, <1>6
      <3>2. \A d \in Clients : Len(results[d]) <= Len(Commands(d))
        BY DEF IInv, TypeOK
      <3>3. \A d \in Clients : d # c => results'[d] = results[d]
        BY <1>5
      <3>4. QED
        BY <2>1, <3>1, <3>2, <3>3, Zenon
    <2>3. QED
      BY <1>2, <1>3, <1>7, <2>2 DEF IInv, TypeOK
  <1>9. Frame(c)
    BY DEF IInv, Frames
  <1>10. Command(c) = Commands(c)[Len(results[c]) + 1]
    BY DEF Command, Position
  <1>11. route[c] = "metrics" => Scraped(c)'
    <2> SUFFICES ASSUME route[c] = "metrics" PROVE Scraped(c)'
      OBVIOUS
    <2>1. /\ Len(Commands(c)) = 3 /\ Commands(c)[1] = "hgetall" /\ Commands(c)[2] = "get"
          /\ Commands(c)[3] = "llen"
      BY CommandsOf DEF Routes
    <2>2. Scraped(c)
      BY <1>2, <1>9 DEF Frame
    <2>3. CASE Len(results[c]) = 0
      <3>1. x = byRepo
        BY <1>10, <2>1, <2>3 DEF Values
      <3>2. QED
        BY <1>2, <1>3, <1>5, <2>3, <3>1 DEF Scraped
    <2>4. CASE Len(results[c]) = 1
      <3>1. x = total
        BY <1>10, <2>1, <2>4 DEF Values
      <3>2. results'[c][1] = results[c][1] /\ results[c][1] \in Nat /\ results'[c][2] = total
        BY <1>5, <2>4, <3>1
      <3>3. QED
        BY <1>2, <1>3, <1>5, <2>2, <2>4, <3>2 DEF Scraped
    <2>5. CASE Len(results[c]) = 2
      <3>1. results'[c][1] = results[c][1] /\ results'[c][2] = results[c][2]
        BY <1>5, <2>5
      <3>2. /\ results[c][1] <= byRepo /\ results[c][1] <= results[c][2]
            /\ results[c][2] <= total
        BY <2>2, <2>5 DEF Scraped
      <3>3. results'[c][1] <= byRepo' /\ results'[c][1] <= results'[c][2] /\ results'[c][2] <= total'
        BY <1>2, <3>1, <3>2
      <3>4. QED
        BY <3>3 DEF Scraped
    <2>6. Len(results[c]) + 1 <= 3
      BY <1>6, <2>1
    <2>7. Len(results[c]) \in Nat
      BY <1>5
    <2>8. QED
      BY <2>3, <2>4, <2>5, <2>6, <2>7, FewResults, Zenon
  <1>12. route[c] = "clear" => Cleared(c)'
    <2> SUFFICES ASSUME route[c] = "clear" PROVE Cleared(c)'
      OBVIOUS
    <2>1. Len(Commands(c)) = 2 /\ Commands(c)[1] = "llen" /\ Commands(c)[2] = "del"
      BY CommandsOf DEF Routes
    <2>2. Cleared(c) /\ unseen[c] \in Nat
      BY <1>2, <1>9 DEF Frame, IInv, Functions
    <2>3. CASE Len(results[c]) = 0
      <3>1. Command(c) = "llen" /\ x = letters
        BY <1>10, <2>1, <2>3 DEF Values
      <3>2. results'[c][1] = letters /\ letters' = letters /\ removed'[c] = 0 /\ unseen[c] = 0
        BY <1>5, <1>7, <2>2, <2>3, <3>1 DEF Cleared
      <3>3. QED
        BY <1>2, <1>3, <1>5, <2>3, <3>2 DEF Cleared
    <2>4. CASE Len(results[c]) = 1
      <3>1. Command(c) = "del"
        BY <1>10, <2>1, <2>4
      <3>2. /\ results'[c][1] = results[c][1] /\ results[c][1] \in Nat
            /\ removed'[c] = results[c][1] + unseen[c]
        BY <1>5, <1>7, <2>2, <2>4, <3>1 DEF Cleared
      <3>3. Len(results'[c]) = 2 /\ unseen'[c] = unseen[c]
        BY <1>2, <1>5, <2>4
      <3>4. removed'[c] \in results'[c][1]..results'[c][1] + unseen'[c]
        BY <2>2, <3>2, <3>3
      <3>5. ~(Len(results'[c]) = 0) /\ ~(Len(results'[c]) <= 1) /\ ~(Len(results'[c]) = 1)
        BY <3>3
      <3>6. QED
        BY <3>4, <3>5 DEF Cleared
    <2>5. Len(results[c]) + 1 <= 2
      BY <1>6, <2>1
    <2>6. Len(results[c]) \in Nat
      BY <1>5
    <2>7. QED
      BY <2>3, <2>4, <2>5, <2>6, FewResults, Zenon
  <1>13. route[c] = "ready" => Probed(c)'
    BY <1>2, <1>9 DEF Frame, Probed
  <1>14. Frames'
    <2>1. ASSUME NEW d \in Clients PROVE Frame(d)'
      <3>1. CASE d = c
        BY <1>2, <1>5, <1>11, <1>12, <1>13, <3>1 DEF Frame
      <3>2. CASE d # c
        <4>1. pc[d] # "commands"
          BY <1>2, <3>2, OneHandler
        <4>2. QED
          BY <1>2, <1>5, <1>7, <3>2, <4>1 DEF IInv, Frames, Frame
      <3>3. QED
        BY <3>1, <3>2
    <2>2. QED
      BY <2>1 DEF Frames
  <1>15. QED
    BY <1>2, <1>5, <1>7, <1>8, <1>14 DEF IInv, Functions, Counted, ScrapeIsBracketed

\* What the handler of a scrape makes of what it has read.
LEMMA ScrapeReads ==
  ASSUME IInv, NEW c \in Clients, pc[c] = "commands", Over(c), route[c] = "metrics"
  PROVE  /\ Read(c, "hgetall") \in 0..byRepo /\ Read(c, "get") \in 0..total
         /\ Read(c, "hgetall") <= Read(c, "get")
  <1>1. /\ Len(Commands(c)) = 3 /\ Commands(c)[1] = "hgetall" /\ Commands(c)[2] = "get"
        /\ Commands(c)[3] = "llen"
    BY CommandsOf DEF Routes
  <1>2. results[c] \in Seq(Nat) /\ Scraped(c)
    BY DEF IInv, Frames, Frame
  <1>3. Len(results[c]) \in Nat /\ Len(results[c]) >= 3
    BY <1>1, <1>2 DEF Over, Position
  <1>4. results[c][1] \in Nat /\ results[c][2] \in Nat
    BY <1>2, <1>3
  <1>5. (CHOOSE n \in 1..3 : Commands(c)[n] = "hgetall") = 1
    BY <1>1
  <1>6. (CHOOSE n \in 1..3 : Commands(c)[n] = "get") = 2
    BY <1>1
  <1>7. total \in Nat /\ byRepo \in Nat
    BY BoundAssumption DEF IInv, TypeOK
  <1>8. Read(c, "hgetall") = results[c][1] /\ Read(c, "get") = results[c][2]
    BY <1>5, <1>6 DEF Read
  <1>9. /\ results[c][1] <= byRepo /\ results[c][1] <= results[c][2]
        /\ results[c][2] <= total
    BY <1>2, <1>3 DEF Scraped
  <1>10. QED
    BY <1>4, <1>7, <1>8, <1>9

LEMMA FinishStep ==
  ASSUME IInv, NEW c \in Clients, Finish(c)
  PROVE  IInv'
  <1>1. /\ pc[c] = "commands" /\ Over(c) /\ loop' = NoClient /\ Respond(c, 200) /\ Forget(c)
        /\ gauges' = (IF route[c] = "metrics"
                        THEN [total |-> Read(c, "get"), byRepo |-> Read(c, "hgetall")]
                        ELSE gauges)
        /\ UNCHANGED <<redis, letters, total, byRepo, mover, pushes>>
    BY DEF Finish, dlqVars
  <1>2. /\ total \in Nat /\ byRepo \in Nat /\ gauges \in [total : Nat, byRepo : Nat]
        /\ gauges.total <= total /\ gauges.byRepo <= byRepo
    BY BoundAssumption DEF IInv, TypeOK, Functions
  <1>3. gauges' \in [total : 0..total, byRepo : 0..byRepo] /\ gauges'.byRepo <= gauges'.total
    <2>1. CASE route[c] = "metrics"
      BY <1>1, <2>1, ScrapeReads
    <2>2. CASE route[c] # "metrics"
      BY <1>1, <1>2, <2>2 DEF IInv, ScrapeIsBracketed
    <2>3. QED
      BY <2>1, <2>2
  <1>4. QED
    BY <1>1, <1>3, EndStep

LEMMA RaiseStep ==
  ASSUME IInv, NEW c \in Clients, Raise(c)
  PROVE  IInv'
  <1>1. /\ pc[c] = "commands" /\ loop' = NoClient /\ Forget(c)
        /\ letters' \in {0, letters} /\ gauges' = gauges
        /\ UNCHANGED <<redis, total, byRepo, mover, pushes>>
    BY DEF Raise
  <1>2. PICK status \in {200, 500, 503} : Respond(c, status)
    BY DEF Raise, OnError
  <1>3. /\ total \in Nat /\ byRepo \in Nat /\ gauges \in [total : Nat, byRepo : Nat]
        /\ gauges.total <= total /\ gauges.byRepo <= byRepo
    BY BoundAssumption DEF IInv, TypeOK, Functions
  <1>4. gauges' \in [total : 0..total, byRepo : 0..byRepo] /\ gauges'.byRepo <= gauges'.total
    BY <1>1, <1>3 DEF IInv, ScrapeIsBracketed
  <1>5. QED
    BY <1>1, <1>2, <1>4, EndStep

\* The worker and Redis, between the commands of a handler.
LEMMA OthersStep ==
  ASSUME IInv, \/ \E state \in {"up", "down", "hung"} : RedisTurns(state)
               \/ PushLetter \/ CountLetter \/ CountRepoLetter \/ MoveFails
               \/ UNCHANGED vars
  PROVE  IInv'
  <1> USE DEF requestVars, dlqVars, auxVars
  <1>1. \A d \in Clients : UNCHANGED route => Commands(d)' = Commands(d)
    BY DEF Commands
  <1>2. /\ letters \in Nat /\ total \in Nat /\ byRepo \in Nat /\ pushes \in Nat
        /\ \A d \in Clients : Len(results[d]) \in Nat /\ unseen[d] \in Nat
        /\ \A d \in Clients : results[d] \in Seq(Nat)
    BY BoundAssumption DEF IInv, TypeOK, Functions
  <1>3. ASSUME NEW state \in {"up", "down", "hung"}, RedisTurns(state) PROVE IInv'
    <2>1. /\ redis' = state
          /\ states' = [d \in Clients |->
               IF pc[d] = "commands" /\ route[d] = "ready" THEN states[d] \union {state} ELSE states[d]]
          /\ UNCHANGED <<pc, route, results, answer, loop, letters, total, byRepo, mover, pushes,
                         gauges, removed, unseen>>
      BY <1>3 DEF RedisTurns
    <2>2. /\ states' \in [Clients -> SUBSET {"up", "down", "hung"}]
          /\ \A d \in Clients : states'[d] \subseteq {"up", "down", "hung"}
      BY <2>1 DEF IInv, Functions
    <2>3. TypeOK'
      BY <1>1, <2>1, <2>2 DEF IInv, TypeOK
    <2>4. Frames'
      BY <2>1 DEF IInv, Frames, Frame, Scraped, Cleared, Probed
    <2>5. QED
      BY <2>1, <2>2, <2>3, <2>4 DEF IInv, Functions, Counted, ScrapeIsBracketed
  <1>4. ASSUME PushLetter PROVE IInv'
    <2>1. /\ mover = "idle" /\ pushes < MaxPushes
          /\ letters' = letters + 1 /\ pushes' = pushes + 1 /\ mover' = "incr"
          /\ unseen' = [d \in Clients |-> IF HasCounted(d) THEN unseen[d] + 1 ELSE unseen[d]]
          /\ UNCHANGED <<pc, route, results, answer, loop, redis, total, byRepo, gauges, removed,
                         states>>
      BY <1>4 DEF PushLetter
    <2>2. /\ unseen' \in [Clients -> Nat]
          /\ \A d \in Clients : unseen'[d] = IF HasCounted(d) THEN unseen[d] + 1 ELSE unseen[d]
      BY <1>2, <2>1 DEF IInv, Functions
    <2>3. Counted' /\ Functions'
      BY <1>2, <2>1, <2>2 DEF IInv, Counted, Functions
    <2>4. TypeOK'
      <3>1. \A d \in Clients : removed'[d] \in 0..pushes' /\ unseen'[d] \in 0..pushes'
        BY <1>2, <2>1, <2>2 DEF IInv, TypeOK
      <3>2. /\ pushes' \in 0..MaxPushes /\ letters' \in 0..pushes' /\ total' \in 0..pushes'
            /\ byRepo' \in 0..total'
        BY <1>2, <2>1, BoundAssumption DEF IInv, TypeOK
      <3>3. QED
        BY <1>1, <2>1, <3>1, <3>2 DEF IInv, TypeOK
    <2>5. ASSUME NEW d \in Clients, pc[d] = "commands", route[d] = "clear", Cleared(d)
          PROVE  Cleared(d)'
      <3>1. CASE Len(results[d]) = 0
        <4>1. results[d] = <<>>
          BY <1>2, <3>1, EmptySeq
        <4>2. unseen'[d] = unseen[d]
          BY <2>2, <4>1 DEF HasCounted
        <4>3. QED
          BY <2>1, <2>5, <3>1, <4>2 DEF Cleared
      <3>2. CASE Len(results[d]) # 0
        <4>1. results[d] # <<>>
          BY <3>2
        <4>2. unseen'[d] = unseen[d] + 1
          BY <2>2, <2>5, <4>1 DEF HasCounted
        <4>3. Len(results[d]) \in {1, 2} => results[d][1] \in Nat
          BY <1>2
        <4>4. Len(results[d]) = 1 => letters' = results[d][1] + unseen'[d]
          BY <1>2, <2>1, <2>5, <4>2, <4>3 DEF Cleared
        <4>5. Len(results[d]) = 2 => removed[d] \in results[d][1]..results[d][1] + unseen'[d]
          <5>1. removed[d] \in Nat
            BY DEF IInv, Functions
          <5>2. QED
            BY <1>2, <2>5, <4>2, <4>3, <5>1 DEF Cleared
        <4>6. QED
          BY <2>1, <2>5, <3>2, <4>4, <4>5 DEF Cleared
      <3>3. QED
        BY <3>1, <3>2
    <2>6. ASSUME NEW d \in Clients, pc[d] # "commands" PROVE unseen'[d] = unseen[d]
      BY <2>2, <2>6 DEF HasCounted
    <2>7. Frames'
      BY <2>1, <2>5, <2>6 DEF IInv, Frames, Frame, Scraped, Probed
    <2>8. QED
      BY <2>1, <2>3, <2>4, <2>7 DEF IInv, ScrapeIsBracketed
  <1>5. ASSUME CountLetter \/ CountRepoLetter \/ MoveFails PROVE IInv'
    <2>1. /\ total' \in {total, total + 1} /\ byRepo' \in {byRepo, byRepo + 1}
          /\ Counted' /\ mover' \in {"idle", "incr", "hincrby"}
          /\ UNCHANGED <<pc, route, results, answer, loop, redis, letters, pushes, gauges, removed,
                         unseen, states>>
      BY <1>2, <1>5 DEF CountLetter, CountRepoLetter, MoveFails, IInv, Counted
    <2>2. total' \in 0..pushes /\ byRepo' \in 0..total'
      BY <1>2, <2>1 DEF Counted
    <2>3. gauges.total \in 0..total' /\ gauges.byRepo \in 0..byRepo'
      BY <1>2, <2>1 DEF IInv, TypeOK
    <2>4. TypeOK'
      BY <1>1, <2>1, <2>2, <2>3 DEF IInv, TypeOK
    <2>5. ASSUME NEW d \in Clients, Scraped(d) PROVE Scraped(d)'
      <3>1. /\ Len(results[d]) >= 1 => results[d][1] \in Nat
            /\ Len(results[d]) >= 2 => results[d][2] \in Nat
        BY <1>2
      <3>2. total <= total' /\ byRepo <= byRepo' /\ total \in Nat /\ byRepo \in Nat
        BY <1>2, <2>1
      <3>3. Len(results[d]) >= 1 => results[d][1] <= byRepo'
        BY <2>2, <2>5, <3>1, <3>2 DEF Scraped
      <3>4. Len(results[d]) >= 2 => results[d][1] <= results[d][2] /\ results[d][2] <= total'
        BY <2>2, <2>5, <3>1, <3>2 DEF Scraped
      <3>5. QED
        BY <2>1, <3>3, <3>4 DEF Scraped
    <2>6. Frames'
      BY <2>1, <2>5 DEF IInv, Frames, Frame, Cleared, Probed
    <2>7. QED
      BY <2>1, <2>4, <2>6 DEF IInv, Functions, ScrapeIsBracketed
  <1>6. CASE UNCHANGED vars
    BY <1>1, <1>6 DEF vars, IInv, TypeOK, Functions, Counted, Frames, Frame, Scraped, Cleared, Probed,
       ScrapeIsBracketed
  <1>7. QED
    BY <1>3, <1>4, <1>5, <1>6

LEMMA NextIInv == IInv /\ [Next]_vars => IInv'
  BY OutsideStep, BeginStep, ExecuteStep, FinishStep, RaiseStep, OthersStep DEF Next, Serve

LEMMA Invariance == Spec => []IInv
  BY InitIInv, NextIInv, PTL DEF Spec
-----------------------------------------------------------------------------
\* Every variable has a value the code can give it: in particular one handler
\* at a time has Redis commands under way, and no counter is ahead of the
\* queue or of the one that is counted before it.
THEOREM ApiTypeCorrect == Spec => []TypeOK
  <1>1. IInv => TypeOK
    BY DEF IInv
  <1>2. QED
    BY Invariance, <1>1, PTL

\* A scrape reads the repository's counter before the total, and so never
\* shows more dead letters of a repository than there are.
THEOREM ScrapesAreBracketed == Spec => []ScrapeIsBracketed
  <1>1. IInv => ScrapeIsBracketed
    BY DEF IInv
  <1>2. QED
    BY Invariance, <1>1, PTL

\* Only the end of a handler answers a request that has commands under way.
LEMMA WhoAnswers ==
  ASSUME IInv, [Next]_vars, NEW c \in Clients, pc[c] = "commands", pc'[c] = "idle"
  PROVE  /\ answer' = 200 => Finish(c) \/ (Raise(c) /\ 200 \in OnError(c))
         /\ answer' = 503 => Raise(c)
  <1>1. ASSUME NEW d \in Clients, Arrive(d) \/ Serve(d)
        PROVE  d = c
    <2>1. d # c => pc'[c] = pc[c]
      BY <1>1 DEF Arrive, Serve, OverLimit, Disconnect, Refuse, AnswerAtOnce, Misread, Begin,
         Execute, Finish, Raise, Respond, IInv, TypeOK
    <2>2. QED
      BY <2>1
  <1>2. ASSUME \/ \E state \in {"up", "down", "hung"} : RedisTurns(state)
               \/ PushLetter \/ CountLetter \/ CountRepoLetter \/ MoveFails
               \/ UNCHANGED vars
        PROVE  FALSE
    BY <1>2 DEF RedisTurns, PushLetter, CountLetter, CountRepoLetter, MoveFails, requestVars, vars
  <1>3. Finish(c) \/ Raise(c)
    BY <1>1, <1>2 DEF Next, Arrive, Serve, OverLimit, Disconnect, Refuse, AnswerAtOnce, Misread,
       Begin, Execute
  <1>4. Finish(c) => answer' = 200
    BY DEF Finish, Respond
  <1>5. Raise(c) => answer' \in OnError(c)
    BY DEF Raise, Respond
  <1>6. QED
    BY <1>3, <1>4, <1>5

\* The number a clear answers with is that of the entries it removed, but for
\* those that were dead-lettered between its two commands.
THEOREM ClearsAnswerTruly == Spec => ClearAnswersTruly
  <1>1. IInv /\ [Next]_vars =>
          [\A c \in Clients : Answers(c, "clear", 200) =>
             removed[c] \in results[c][1]..results[c][1] + unseen[c]]_vars
    <2> SUFFICES ASSUME IInv, [Next]_vars, NEW c \in Clients, Answers(c, "clear", 200)
                 PROVE  removed[c] \in results[c][1]..results[c][1] + unseen[c]
      OBVIOUS
    <2>1. route[c] = "clear" /\ pc[c] = "commands" /\ pc'[c] = "idle" /\ answer' = 200
      BY DEF Answers
    <2>2. Over(c)
      <3>1. OnError(c) = {500}
        BY <2>1 DEF OnError
      <3>2. QED
        BY <2>1, <3>1, WhoAnswers DEF Finish
    <2>3. results[c] \in Seq(Nat) /\ Cleared(c) /\ unseen[c] \in Nat /\ removed[c] \in Nat
      BY <2>1 DEF IInv, Frames, Frame, Functions
    <2>4. Len(Commands(c)) = 2
      BY <2>1, CommandsOf DEF Routes
    <2>5. CASE results[c] = <<0>>
      BY <2>3, <2>5 DEF Cleared
    <2>6. CASE results[c] # <<0>>
      <3>1. Len(results[c]) \in Nat
        BY <2>3
      <3>2. Len(results[c]) + 1 > Len(Commands(c))
        <4>1. Position(c) > Len(Commands(c))
          BY <2>2, <2>6, Zenon DEF Over
        <4>2. QED
          BY <4>1 DEF Position
      <3>3. Len(results[c]) <= Len(Commands(c))
        BY DEF IInv, TypeOK
      <3>4. Len(results[c]) = 2
        <4>1. Len(results[c]) + 1 > 2 /\ Len(results[c]) <= 2
          BY <2>4, <3>2, <3>3
        <4>2. QED
          BY <3>1, <4>1, FewResults, Zenon
      <3>5. QED
        BY <2>3, <3>4 DEF Cleared
    <2>7. QED
      BY <2>5, <2>6
  <1>2. QED
    BY Invariance, <1>1, PTL DEF Spec, ClearAnswersTruly

\* A readiness probe answers for a state Redis had since it was asked.
THEOREM ReadinessAnswersCurrent == Spec => ReadinessIsCurrent
  <1>1. IInv /\ [Next]_vars =>
          [\A c \in Clients :
             /\ Answers(c, "ready", 200) => "up" \in states[c]
             /\ Answers(c, "ready", 503) => "down" \in states[c]]_vars
    <2> SUFFICES ASSUME IInv, [Next]_vars, NEW c \in Clients
                 PROVE  /\ Answers(c, "ready", 200) => "up" \in states[c]
                        /\ Answers(c, "ready", 503) => "down" \in states[c]
      OBVIOUS
    <2>1. ASSUME route[c] = "ready", pc[c] = "commands"
          PROVE  /\ results[c] \in Seq(Nat) /\ Probed(c) /\ OnError(c) = {503}
                 /\ Len(Commands(c)) = 1
      BY <2>1, CommandsOf DEF IInv, Frames, Frame, OnError, Routes
    <2>2. ASSUME Answers(c, "ready", 200) PROVE "up" \in states[c]
      <3>1. Finish(c) /\ route[c] = "ready" /\ pc[c] = "commands"
        BY <2>1, <2>2, WhoAnswers DEF Answers
      <3>2. Len(results[c]) \in Nat
        BY <2>1, <3>1
      <3>3. Len(results[c]) + 1 > Len(Commands(c))
        <4>1. Over(c) /\ route[c] \notin {"clear", "webhook"}
          BY <3>1 DEF Finish
        <4>2. Position(c) > Len(Commands(c))
          BY <4>1, Zenon DEF Over
        <4>3. QED
          BY <4>2 DEF Position
      <3>4. Len(results[c]) >= 1
        <4>1. Len(results[c]) + 1 > 1
          BY <2>1, <3>1, <3>3
        <4>2. QED
          BY <3>2, <4>1
      <3>5. QED
        BY <2>1, <3>1, <3>4 DEF Probed
    <2>3. ASSUME Answers(c, "ready", 503) PROVE "down" \in states[c]
      <3>1. Raise(c) /\ route[c] = "ready" /\ pc[c] = "commands"
        BY <2>3, WhoAnswers DEF Answers
      <3>2. QED
        BY <2>1, <3>1 DEF Raise, Probed
    <2>4. QED
      BY <2>2, <2>3
  <1>2. QED
    BY Invariance, <1>1, PTL DEF Spec, ReadinessIsCurrent
-----------------------------------------------------------------------------
(* A request is over after a few steps: what RequestsAreAnswered needs       *)
(* besides fairness.                                                         *)

\* The steps a request has in front of it at most: to reach its handler, its
\* commands, and the answer.
RequestLeft(c) ==
  CASE pc[c] = "arrived"  -> 7
    [] pc[c] = "commands" -> Len(Commands(c)) - Len(results[c]) + 1
    [] OTHER              -> 0

\* A request has less in front of it whenever it is served, and never more.
RequestsShorten ==
  \A c \in Clients :
    /\ RequestLeft(c) \in 0..7
    /\ Serve(c) => RequestLeft(c)' < RequestLeft(c)
    /\ pc[c] # "idle" => RequestLeft(c)' <= RequestLeft(c)

\* It is over only when the request is.
LeftCounted ==
  \A c \in Clients :
    /\ RequestLeft(c) \in 0..7
    /\ pc[c] = "commands" => RequestLeft(c) \in 1..6
    /\ pc[c] # "idle" => RequestLeft(c) > 0

LEMMA LeftIsCounted == IInv => LeftCounted
  <1> SUFFICES ASSUME IInv, NEW c \in Clients
               PROVE  /\ RequestLeft(c) \in 0..7
                      /\ pc[c] = "commands" => RequestLeft(c) \in 1..6
                      /\ pc[c] # "idle" => RequestLeft(c) > 0
    BY DEF LeftCounted
  <1>1. Len(Commands(c)) \in 0..5
    BY DEF Commands
  <1>2. results[c] \in Seq(Nat) /\ Len(results[c]) \in Nat /\ Len(results[c]) <= Len(Commands(c))
    BY DEF IInv, TypeOK, Frames, Frame
  <1>3. pc[c] \in Labels
    BY DEF IInv, TypeOK
  <1>4. CASE pc[c] = "commands"
    <2>1. RequestLeft(c) = Len(Commands(c)) - Len(results[c]) + 1
      BY <1>4 DEF RequestLeft
    <2> HIDE DEF RequestLeft
    <2>2. \A l \in 0..5, r \in Nat : r <= l => l - r + 1 \in 1..6
      OBVIOUS
    <2>3. Len(Commands(c)) - Len(results[c]) + 1 \in 1..6
      BY <1>1, <1>2, <2>2
    <2>4. RequestLeft(c) \in 1..6
      BY <2>1, <2>3
    <2>5. RequestLeft(c) \in 0..7 /\ RequestLeft(c) > 0
      BY <2>4
    <2> QED
      BY <2>4, <2>5
  <1>5. CASE pc[c] # "commands"
    BY <1>3, <1>5 DEF RequestLeft, Labels
  <1> QED
    BY <1>4, <1>5

LEMMA ServeShortens ==
  ASSUME IInv, LeftCounted, LeftCounted', NEW c \in Clients, Serve(c)
  PROVE  RequestLeft(c)' < RequestLeft(c)
  <1>1. pc \in [Clients -> Labels] /\ results \in [Clients -> Seq(Nat)]
    BY DEF IInv, TypeOK, Functions
  <1>2. CASE pc'[c] = "idle" /\ pc[c] # "idle"
    BY <1>2 DEF RequestLeft, LeftCounted
  <1>3. CASE Begin(c)
    <2>1. pc[c] = "arrived" /\ pc'[c] = "commands"
      BY <1>1, <1>3 DEF Begin
    <2>2. RequestLeft(c) = 7
      BY <2>1 DEF RequestLeft
    <2>3. RequestLeft(c)' \in 1..6
      BY <2>1 DEF LeftCounted
    <2> QED
      BY <2>2, <2>3
  <1>4. CASE Execute(c)
    <2>1. pc[c] = "commands" /\ UNCHANGED <<pc, route>>
      BY <1>4 DEF Execute
    <2>2. Len(results[c]) \in Nat /\ Len(results'[c]) = Len(results[c]) + 1
      <3>1. PICK x \in Values(Command(c)) : results' = [results EXCEPT ![c] = Append(@, x)]
        BY <1>4 DEF Execute
      <3>2. results'[c] = Append(results[c], x) /\ results[c] \in Seq(Nat)
        BY <1>1, <3>1
      <3>3. results[c] \in Seq(Nat \union {x})
        BY <3>2, SeqMonotonic
      <3> QED
        BY <3>2, <3>3, AppendProperties
    <2>3. Commands(c)' = Commands(c) /\ Len(Commands(c)) \in Nat
      BY <2>1 DEF Commands
    <2>4. /\ RequestLeft(c) = Len(Commands(c)) - Len(results[c]) + 1
          /\ RequestLeft(c)' = Len(Commands(c)') - Len(results'[c]) + 1
      BY <2>1 DEF RequestLeft
    <2>5. \A l, r \in Nat : l - (r + 1) + 1 < l - r + 1
      OBVIOUS
    <2>6. RequestLeft(c)' = Len(Commands(c)) - (Len(results[c]) + 1) + 1
      BY <2>2, <2>3, <2>4
    <2> QED
      BY <2>2, <2>3, <2>4, <2>5, <2>6
  <1>5. CASE \/ OverLimit(c) \/ Disconnect(c) \/ Refuse(c) \/ AnswerAtOnce(c) \/ Misread(c)
             \/ Finish(c) \/ Raise(c)
    BY <1>1, <1>2, <1>5 DEF OverLimit, Disconnect, Refuse, AnswerAtOnce, Misread, Finish, Raise,
       Respond
  <1> QED
    BY <1>3, <1>4, <1>5 DEF Serve

\* Nobody else's step is one of its own.
LEMMA OthersDoNotServe ==
  ASSUME IInv, [Next]_vars, NEW c \in Clients, pc[c] # "idle", ~Serve(c)
  PROVE  RequestLeft(c)' = RequestLeft(c)
  <1>1. pc \in [Clients -> Labels] /\ results \in [Clients -> Seq(Nat)]
        /\ route \in [Clients -> Routes \union {"none"}]
    BY DEF IInv, TypeOK, Functions
  <1>2. CASE pc'[c] = pc[c] /\ route'[c] = route[c] /\ results'[c] = results[c]
    BY <1>2 DEF RequestLeft, Commands
  <1>3. ASSUME NEW d \in Clients, Arrive(d) \/ Serve(d)
        PROVE  pc'[c] = pc[c] /\ route'[c] = route[c] /\ results'[c] = results[c]
    <2>1. d # c
      BY <1>3 DEF Arrive
    <2> QED
      BY <1>1, <1>3, <2>1 DEF Arrive, Serve, OverLimit, Disconnect, Refuse, AnswerAtOnce, Misread, Begin,
         Execute, Finish, Raise, Respond, Forget
  <1>4. ASSUME \/ \E state \in {"up", "down", "hung"} : RedisTurns(state)
               \/ PushLetter \/ CountLetter \/ CountRepoLetter \/ MoveFails \/ UNCHANGED vars
        PROVE  UNCHANGED requestVars
    BY <1>4 DEF RedisTurns, PushLetter, CountLetter, CountRepoLetter, MoveFails, vars
  <1> QED
    BY <1>2, <1>3, <1>4 DEF Next, requestVars

\* A request is answered after seven steps of its own at most, whatever the
\* requests of others, Redis and the worker do between them: that it is
\* answered at all depends only on its being served.
THEOREM RequestsAreShort == Spec => [][RequestsShorten]_vars
  <1>1. IInv /\ LeftCounted /\ LeftCounted' /\ [Next]_vars => [RequestsShorten]_vars
    <2> SUFFICES ASSUME IInv, LeftCounted, LeftCounted', [Next]_vars, NEW c \in Clients
                 PROVE  /\ RequestLeft(c) \in 0..7
                        /\ Serve(c) => RequestLeft(c)' < RequestLeft(c)
                        /\ pc[c] # "idle" => RequestLeft(c)' <= RequestLeft(c)
      BY DEF RequestsShorten
    <2>1. RequestLeft(c) \in 0..7 /\ RequestLeft(c)' \in 0..7
      BY DEF LeftCounted
    <2> QED
      BY <2>1, ServeShortens, OthersDoNotServe
  <1>2. IInv => LeftCounted
    BY LeftIsCounted
  <1> QED
    BY <1>1, <1>2, Invariance, PTL DEF Spec
=============================================================================
