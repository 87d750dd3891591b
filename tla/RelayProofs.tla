----------------------------- MODULE RelayProofs -----------------------------
(***************************************************************************)
(* Proofs about Relay, for every set of endpoints and handlers, all        *)
(* heights, and any workload.                                              *)
(***************************************************************************)
EXTENDS Relay, SequenceTheorems, TLAPS

-----------------------------------------------------------------------------
(* The inductive invariant, in parts *)

Kinds  == Cachable \cup Broadcast \cup {"rest"}
Points == {"done", "cache", "presence", "select", "call", "answered", "cast", "wait"}
Answers == {"found", "null", "sent", "known", "refused", "piped", "timeout", 0, 1}

RequestRecord ==
  [kind : Kinds, at : Points, ep : Endpoint \cup {Nil}, via : {"relay", "direct", "presence"},
   wait : SUBSET Endpoint, replies : Seq(Answers \cup {Nil}),
   told : Answers \cup {Nil, Unavailable, Dropped}, floor : {0, 1}]

\* The nodes, the table and redis.
TableParts ==
  /\ node \in [Endpoint -> 1..MaxHeight] /\ pool \subseteq Endpoint
  /\ healthy \in [Endpoint -> BOOLEAN] /\ head \in [Endpoint -> {Nil} \cup 1..MaxHeight]
  /\ presence \subseteq Endpoint /\ asked \in Workload
  /\ cache \in [Endpoint -> {Nil, "found", "null"}]

\* Each request is answered in the terms of its kind ...
FitsKind(h) == LET q == req[h] IN
  /\ q \in RequestRecord /\ q.kind \in asked[h] \cup {"rest"}
  /\ \A i \in DOMAIN q.replies : q.replies[i] = Nil \/ q.replies[i] \in Replies(q.kind)
  /\ q.told \in {Nil, Dropped, Unavailable} \/ q.told \in Replies(q.kind)

\* ... and what is known of it at each point of its way: the caches are for
\* cachable requests, one endpoint gives one reply, and only a broadcast
\* of a nonce has a floor.
ControlOf(h) == LET q == req[h] IN
  /\ q.at \in {"call", "answered"} => q.ep # Nil
  /\ q.at \in {"cache", "presence"} => q.kind \in Cachable
  /\ q.at \in {"cast", "wait"} => q.kind \in Broadcast
  /\ q.at = "answered" => Len(q.replies) = 1
  /\ q.at \notin {"answered", "wait"} => q.replies = <<>>
  /\ q.at # "wait" => q.floor = 0
  /\ q.floor = 1 => q.kind = "nonce"

\* A reply under way tells the truth: a stable node that has found the
\* transaction has it, nobody says it was taken when no node took it, and
\* one of the nodes that had it when a nonce was asked for counts it.
TruthOf(h) == LET q == req[h] IN
  /\ q.at = "answered" /\ q.kind \in Cachable /\ q.ep \notin Unstable /\ q.replies[1] = "found"
     => node[q.ep] >= TxHeight
  /\ q.kind = "send" =>
       \A i \in DOMAIN q.replies : q.replies[i] \in {"sent", "known"} => pool # {}
  /\ q.floor = 1 =>
       \/ \E ep \in q.wait : ep \in pool
       \/ \E i \in DOMAIN q.replies : q.replies[i] \in {1, Nil}

HandlerOK(h) == FitsKind(h) /\ ControlOf(h) /\ TruthOf(h)

Inv ==
  /\ TableParts
  /\ CacheIsHonest
  /\ DOMAIN req = Handler
  /\ \A h \in Handler : HandlerOK(h)

-----------------------------------------------------------------------------
(* Answers *)

\* The answers to a kind of request, and none that stands for no answer.
LEMMA RepliesAre ==
  /\ \A kind \in Kinds : Replies(kind) \subseteq Answers
  /\ \A kind \in Cachable : Replies(kind) = {"found", "null"}
  /\ Replies("send") = {"sent", "known", "refused"}
  /\ Replies("nonce") = {0, 1}
  /\ Nil \notin Answers /\ Unavailable \notin Answers /\ Dropped \notin Answers
<1>1. Nil \notin Answers /\ Unavailable \notin Answers /\ Dropped \notin Answers
  BY AnswerAssumption DEF Answers
<1>. QED BY <1>1 DEF Replies, Kinds, Cachable, Broadcast, Answers

\* A node answers in the terms of the kind: what it says of the transaction
\* depends on its height and on what it took.
LEMMA ReplyIs ==
  ASSUME NEW kind \in Kinds, NEW ep, NEW r \in Reply(kind, ep)
  PROVE  /\ r = Nil \/ r \in Replies(kind)
         /\ kind \in Cachable /\ r = "found" => node[ep] >= TxHeight
         /\ kind = "send" /\ r = "known" => ep \in pool
         /\ kind = "nonce" /\ ep \in pool => r \in {1, Nil}
<1>1. CASE r = Nil
  <2>1. r # "found" /\ r # "known"
    BY <1>1, AnswerAssumption
  <2>. QED BY <1>1, <2>1
<1>2. CASE r # Nil
  BY <1>2 DEF Reply, Replies, Kinds, Cachable, Broadcast
<1>. QED BY <1>1, <1>2

\* A node that says it took the transaction took it; none gives it back.
LEMMA TookIs ==
  ASSUME NEW kind, NEW ep \in Endpoint, NEW r, NEW t \in Took(kind, ep, r)
  PROVE  /\ t \subseteq {ep}
         /\ kind = "send" /\ r = "sent" => t = {ep}
<1>1. CASE kind = "send" /\ r = "sent"
  BY <1>1, AnswerAssumption DEF Took
<1>2. CASE kind # "send" \/ r # "sent"
  BY <1>2 DEF Took
<1>. QED BY <1>1, <1>2

\* Selections are endpoints.
LEMMA CandidatesAre ==
  ASSUME NEW spec
  PROVE  OverHeight(spec) \subseteq Endpoint /\ Candidates(spec) \subseteq Endpoint
BY DEF OverHeight, Candidates

\* The kinds that handlers are asked for.
LEMMA AskedKinds ==
  ASSUME TableParts, NEW h \in Handler
  PROVE  asked[h] \subseteq Kinds
BY RelayAssumption DEF TableParts, Kinds

-----------------------------------------------------------------------------
(* What steps have in common *)

\* A request that a step leaves alone stays right: transactions taken stay
\* taken, and stable nodes do not fall.
LEMMA OthersKeep ==
  ASSUME Inv, NEW g \in Handler, req'[g] = req[g], asked' = asked, pool \subseteq pool',
         \A ep \in Endpoint \ Unstable : node'[ep] >= node[ep],
         \A ep \in Endpoint : node'[ep] \in Nat
  PROVE  HandlerOK(g)'
<1>1. FitsKind(g)' /\ ControlOf(g)'
  BY DEF Inv, HandlerOK, FitsKind, ControlOf
<1>2. TruthOf(g)'
  <2>1. ASSUME req[g].at = "answered", req[g].kind \in Cachable, req[g].ep \notin Unstable,
               req[g].replies[1] = "found"
        PROVE  node'[req[g].ep] >= TxHeight
    <3>1. req[g].ep \in Endpoint \ Unstable /\ node[req[g].ep] >= TxHeight
      BY <2>1 DEF Inv, HandlerOK, FitsKind, ControlOf, TruthOf, RequestRecord
    <3>2. node[req[g].ep] \in Nat /\ TxHeight \in Nat
      BY <3>1, RelayAssumption DEF Inv, TableParts
    <3>. QED BY <3>1, <3>2
  <2>. QED BY <2>1 DEF Inv, HandlerOK, TruthOf
<1>. QED BY <1>1, <1>2 DEF HandlerOK

\* Everybody else is left alone when h moves on without touching the nodes.
LEMMA HandlerMoves ==
  ASSUME Inv, NEW h \in Handler, NEW q, req' = [req EXCEPT ![h] = q],
         UNCHANGED <<node, healthy, head, presence, asked>>, pool \subseteq pool',
         pool' \subseteq Endpoint, cache' \in [Endpoint -> {Nil, "found", "null"}],
         CacheIsHonest', HandlerOK(h)'
  PROVE  Inv'
<1>1. TableParts'
  BY DEF Inv, TableParts
<1>2. DOMAIN req' = Handler
  BY DEF Inv
<1>3. ASSUME NEW g \in Handler PROVE HandlerOK(g)'
  <2>1. CASE g = h
    BY <2>1
  <2>2. CASE g # h
    <3>1. req'[g] = req[g]
      BY <2>2 DEF Inv
    <3>2. \A ep \in Endpoint : node'[ep] \in Nat /\ node'[ep] >= node[ep]
      BY DEF Inv, TableParts
    <3>. QED BY <3>1, <3>2, OthersKeep
  <2>. QED BY <2>1, <2>2
<1>. QED BY <1>1, <1>2, <1>3 DEF Inv

\* A handler at rest.
LEMMA IdleIs == Idle \in RequestRecord
<1>1. <<>> \in Seq(Answers \cup {Nil}) /\ {} \in SUBSET Endpoint
  BY EmptySeq
<1>. QED BY <1>1 DEF Idle, RequestRecord, Points, Kinds

\* A request ends with an answer in the terms of its kind.
LEMMA TellOK ==
  ASSUME Inv, NEW h \in Handler, NEW answer, Tell(h, answer), asked' = asked,
         answer \in {Nil, Dropped, Unavailable} \cup Replies(req[h].kind)
  PROVE  HandlerOK(h)'
<1> DEFINE q == [Idle EXCEPT !.kind = req[h].kind, !.told = answer]
<1>1. req[h].kind \in Kinds /\ req[h].kind \in asked[h] \cup {"rest"}
  BY DEF Inv, HandlerOK, FitsKind, RequestRecord
<1>2. /\ q.kind = req[h].kind /\ q.told = answer /\ q.at = "done" /\ q.ep = Nil
      /\ q.via = "relay" /\ q.wait = {} /\ q.replies = <<>>
        /\ q.floor = 0 /\ q.floor # 1
  BY DEF Idle
<1>4. q \in RequestRecord
  <2>1. answer \in Answers \cup {Nil, Unavailable, Dropped}
    BY <1>1, RepliesAre
  <2>. QED BY <1>1, <2>1, IdleIs DEF RequestRecord
<1>5. req'[h] = q
  BY DEF Tell, Inv
<1> HIDE DEF q
<1>. QED BY <1>1, <1>2, <1>4, <1>5 DEF HandlerOK, FitsKind, ControlOf, TruthOf

\* A handler that looks up, selects or casts has no reply yet: it moves on
\* to another point, another endpoint, other targets.
LEMMA MoveOn ==
  ASSUME Inv, NEW h \in Handler, NEW q \in RequestRecord,
         req' = [req EXCEPT ![h] = q], UNCHANGED <<nodeVars, tableVars, redisVars>>,
         q.kind = req[h].kind, q.told = req[h].told, q.replies = <<>>,
         q.at \in {"presence", "select", "call", "wait"},
         q.at = "call" => q.ep # Nil,
         q.at = "presence" => q.kind \in Cachable,
         q.at = "wait" => q.kind \in Broadcast,
         q.at # "wait" => q.floor = 0,
         q.floor = 1 => q.kind = "nonce" /\ \E ep \in q.wait : ep \in pool
  PROVE  Inv'
<1>1. /\ req'[h] = q /\ asked' = asked /\ pool' = pool
      /\ q.kind \in asked[h] \cup {"rest"}
      /\ q.told \in {Nil, Dropped, Unavailable} \/ q.told \in Replies(q.kind)
  BY DEF Inv, HandlerOK, FitsKind, nodeVars, redisVars
<1>2. HandlerOK(h)'
  BY <1>1 DEF HandlerOK, FitsKind, ControlOf, TruthOf
<1>3. CacheIsHonest'
  BY DEF Inv, CacheIsHonest, nodeVars, redisVars
<1>. QED BY <1>2, <1>3, HandlerMoves DEF Inv, TableParts, nodeVars, tableVars, redisVars

-----------------------------------------------------------------------------
(* Steps *)

LEMMA InitInv == Init => Inv
<1> SUFFICES ASSUME Init PROVE Inv
  OBVIOUS
<1>1. TableParts
  <2>1. 1 \in 1..MaxHeight
    BY RelayAssumption
  <2>2. healthy \in [Endpoint -> BOOLEAN]
    BY Zenon DEF Init
  <2>. QED BY <2>1, <2>2 DEF Init, TableParts
<1>2. CacheIsHonest
  BY AnswerAssumption DEF Init, CacheIsHonest
<1>3. ASSUME NEW h \in Handler PROVE HandlerOK(h)
  <2>1. req[h] = Idle
    BY DEF Init
  <2>2. /\ Idle.kind = "rest" /\ Idle.told = Nil /\ Idle.at = "done" /\ Idle.ep = Nil
        /\ Idle.replies = <<>> /\ Idle.floor = 0
    BY DEF Idle
  <2>. QED BY <2>1, <2>2, IdleIs DEF HandlerOK, FitsKind, ControlOf, TruthOf
<1>4. DOMAIN req = Handler
  BY DEF Init
<1>. QED BY <1>1, <1>2, <1>3, <1>4 DEF Inv

\* Nodes, polls and expiring keys change no request; an unstable node that
\* falls is not one whose cache must be honest.
LEMMA EnvironmentStep ==
  ASSUME Inv, Environment
  PROVE  Inv'
<1>1. UNCHANGED <<req, asked, pool>>
  BY DEF Environment, Mine, Reorganise, Poll, PollFails, PresenceExpires, CacheExpires,
         tableVars, redisVars, nodeVars
<1>2. /\ node' \in [Endpoint -> 1..MaxHeight]
      /\ \A ep \in Endpoint \ Unstable : node'[ep] >= node[ep]
  <2>0. /\ node \in [Endpoint -> 1..MaxHeight] /\ MaxHeight \in Nat
        /\ \A ep \in Endpoint : node[ep] \in 1..MaxHeight
    BY RelayAssumption DEF Inv, TableParts
  <2>1. ASSUME NEW ep \in Endpoint, Mine(ep) PROVE <1>2
    BY <2>0, <2>1 DEF Mine
  <2>2. ASSUME NEW ep \in Endpoint, Reorganise(ep) PROVE <1>2
    BY <2>0, <2>2 DEF Reorganise
  <2>3. CASE node' = node
    BY <2>0, <2>3
  <2>. QED BY <2>1, <2>2, <2>3 DEF Environment, Poll, PollFails, PresenceExpires, CacheExpires,
           nodeVars
<1>3. TableParts'
  <2>1. healthy' \in [Endpoint -> BOOLEAN] /\ head' \in [Endpoint -> {Nil} \cup 1..MaxHeight]
    <3>1. ASSUME NEW ep \in Endpoint, Poll(ep) PROVE <2>1
      <4>1. healthy' \in [Endpoint -> BOOLEAN]
        BY <3>1 DEF Inv, TableParts, Poll
      <4>2. head' \in [Endpoint -> {Nil} \cup 1..MaxHeight]
        BY <3>1 DEF Inv, TableParts, Poll
      <4>. QED BY <4>1, <4>2
    <3>2. ASSUME NEW ep \in Endpoint, PollFails(ep) PROVE <2>1
      BY <3>2 DEF Inv, TableParts, PollFails
    <3>3. CASE healthy' = healthy /\ head' = head
      BY <3>3 DEF Inv, TableParts
    <3>. QED BY <3>1, <3>2, <3>3 DEF Environment, Mine, Reorganise, PresenceExpires, CacheExpires,
             tableVars
  <2>2. presence' \subseteq Endpoint
    BY DEF Inv, TableParts, Environment, Mine, Reorganise, Poll, PollFails, PresenceExpires,
           CacheExpires, redisVars
  <2>3. cache' \in [Endpoint -> {Nil, "found", "null"}]
    BY DEF Inv, TableParts, Environment, Mine, Reorganise, Poll, PollFails, PresenceExpires,
           CacheExpires, redisVars
  <2>. QED BY <1>1, <1>2, <2>1, <2>2, <2>3 DEF Inv, TableParts
<1>4. CacheIsHonest'
  <2>1. \A ep \in Endpoint : cache'[ep] \in {cache[ep], Nil}
    BY DEF Inv, TableParts, Environment, Mine, Reorganise, Poll, PollFails, PresenceExpires,
           CacheExpires, redisVars
  <2>2. TxHeight \in Nat /\ \A ep \in Endpoint : node[ep] \in Nat /\ node'[ep] \in Nat
    BY <1>2, RelayAssumption DEF Inv, TableParts
  <2>. SUFFICES ASSUME NEW ep \in Endpoint \ Unstable, cache'[ep] = "found"
                PROVE  node'[ep] >= TxHeight
    BY DEF CacheIsHonest
  <2>3. cache[ep] = "found"
    BY <2>1, AnswerAssumption
  <2>. QED BY <1>2, <2>2, <2>3 DEF Inv, CacheIsHonest
<1>5. ASSUME NEW h \in Handler PROVE HandlerOK(h)'
  <2>1. \A ep \in Endpoint : node'[ep] \in Nat
    BY <1>2
  <2>. QED BY <1>1, <1>2, <2>1, OthersKeep
<1>. QED BY <1>1, <1>3, <1>4, <1>5 DEF Inv

\* A request comes in, at the start of the way of its kind.
LEMMA AcceptStep ==
  ASSUME Inv, NEW h \in Handler, NEW name \in Named \cup {Nil}, NEW kind \in asked[h],
         Accept(h, kind, name)
  PROVE  Inv'
<1> DEFINE direct == name # Nil /\ kind # "rest" /\ Available(name, 0)
           q == [Idle EXCEPT !.kind = kind, !.ep = IF direct THEN name ELSE Nil,
                             !.via = IF direct THEN "direct" ELSE "relay",
                             !.at = IF direct THEN "call" ELSE StartOf(kind)]
<1>1. req' = [req EXCEPT ![h] = q] /\ UNCHANGED <<nodeVars, tableVars, redisVars>>
  BY DEF Accept
<1>2. kind \in Kinds /\ name \in Endpoint \cup {Nil}
  BY AskedKinds, RelayAssumption DEF Inv
<1>3. /\ StartOf(kind) \in {"cache", "cast", "select"}
      /\ StartOf(kind) = "cache" => kind \in Cachable
      /\ StartOf(kind) = "cast" => kind \in Broadcast
  BY DEF StartOf
<1>4. /\ q.kind = kind /\ q.told = Nil /\ q.replies = <<>>
        /\ q.floor = 0 /\ q.floor # 1
      /\ q.at \in {"call", "cache", "cast", "select"}
      /\ q.at = "call" => q.ep # Nil
      /\ q.at = "cache" => kind \in Cachable
      /\ q.at = "cast" => kind \in Broadcast
  BY <1>2, <1>3 DEF Idle
<1>5. q \in RequestRecord
  BY <1>2, <1>3, IdleIs DEF RequestRecord, Points
<1>6. req'[h] = q
  BY <1>1 DEF Inv
<1> HIDE DEF q
<1>7. HandlerOK(h)'
  BY <1>1, <1>4, <1>5, <1>6 DEF HandlerOK, FitsKind, ControlOf, TruthOf, redisVars
<1>8. CacheIsHonest'
  BY <1>1 DEF Inv, CacheIsHonest, nodeVars, redisVars
<1>. QED BY <1>1, <1>7, <1>8, HandlerMoves DEF Inv, TableParts, nodeVars, tableVars, redisVars

\* Lookups, selection and the start of a broadcast.
LEMMA MoveStep ==
  ASSUME Inv, NEW h \in Handler,
         CacheMiss(h) \/ PresenceHit(h) \/ PresenceMiss(h) \/ Select(h) \/ Cast(h)
  PROVE  Inv'
<1> DEFINE o == req[h]
<1>1. o \in RequestRecord /\ o.replies = <<>> /\ UNCHANGED <<nodeVars, tableVars, redisVars>>
  BY DEF Inv, HandlerOK, FitsKind, ControlOf, CacheMiss, PresenceHit, PresenceMiss, Select, Cast
<1>2. CASE CacheMiss(h)
  <2> DEFINE q == [o EXCEPT !.at = IF o.kind = "tx" THEN "presence" ELSE "select"]
  <2>1. req' = [req EXCEPT ![h] = q] /\ o.at = "cache" /\ o.floor = 0
    BY <1>2 DEF CacheMiss, Inv, HandlerOK, ControlOf
  <2>2. q \in RequestRecord
    BY <1>1 DEF RequestRecord, Points
  <2>3. /\ q.kind = o.kind /\ q.told = o.told /\ q.replies = <<>>
        /\ q.floor = 0 /\ q.floor # 1
        /\ q.at \in {"presence", "select"} /\ (q.at = "presence" => q.kind \in Cachable)
    BY <1>1, <2>1 DEF RequestRecord, Cachable
  <2> HIDE DEF q
  <2>. QED BY <1>1, <2>1, <2>2, <2>3, MoveOn DEF o
<1>3. CASE PresenceHit(h)
  <2>1. PICK ep \in presence :
          req' = [req EXCEPT ![h] = [o EXCEPT !.at = "call", !.ep = ep, !.via = "presence"]]
    BY <1>3 DEF PresenceHit
  <2> DEFINE q == [o EXCEPT !.at = "call", !.ep = ep, !.via = "presence"]
  <2>2. ep \in Endpoint /\ ep # Nil /\ o.floor = 0
    BY <1>3, RelayAssumption DEF PresenceHit, Inv, TableParts, HandlerOK, ControlOf
  <2>3. q \in RequestRecord
    BY <1>1, <2>2 DEF RequestRecord, Points
  <2>4. /\ q.kind = o.kind /\ q.told = o.told /\ q.replies = <<>>
        /\ q.floor = 0 /\ q.floor # 1
        /\ q.at = "call" /\ q.ep # Nil
    BY <1>1, <2>2 DEF RequestRecord
  <2> HIDE DEF q
  <2>5. req' = [req EXCEPT ![h] = q]
    BY <2>1 DEF q
  <2>. QED BY <1>1, <2>3, <2>4, <2>5, MoveOn DEF o
<1>4. CASE PresenceMiss(h)
  <2> DEFINE q == [o EXCEPT !.at = "select"]
  <2>1. req' = [req EXCEPT ![h] = q] /\ o.floor = 0
    BY <1>4 DEF PresenceMiss, Inv, HandlerOK, ControlOf
  <2>2. q \in RequestRecord
    BY <1>1 DEF RequestRecord, Points
  <2>3. /\ q.kind = o.kind /\ q.told = o.told /\ q.replies = <<>>
        /\ q.floor = 0 /\ q.floor # 1
        /\ q.at = "select"
    BY <1>1, <2>1 DEF RequestRecord
  <2> HIDE DEF q
  <2>. QED BY <1>1, <2>1, <2>2, <2>3, MoveOn DEF o
<1>5. CASE Select(h)
  <2>1. PICK ep \in Candidates(HeightSpec(o.kind)) :
          req' = [req EXCEPT ![h] = [o EXCEPT !.at = "call", !.ep = ep]]
    BY <1>5 DEF Select
  <2> DEFINE q == [o EXCEPT !.at = "call", !.ep = ep]
  <2>2. ep \in Endpoint /\ ep # Nil /\ o.floor = 0
    BY <1>5, CandidatesAre, RelayAssumption DEF Select, Inv, HandlerOK, ControlOf
  <2>3. q \in RequestRecord
    BY <1>1, <2>2 DEF RequestRecord, Points
  <2>4. /\ q.kind = o.kind /\ q.told = o.told /\ q.replies = <<>>
        /\ q.floor = 0 /\ q.floor # 1
        /\ q.at = "call" /\ q.ep # Nil
    BY <1>1, <2>2 DEF RequestRecord
  <2> HIDE DEF q
  <2>5. req' = [req EXCEPT ![h] = q]
    BY <2>1 DEF q
  <2>. QED BY <1>1, <2>3, <2>4, <2>5, MoveOn DEF o
<1>6. CASE Cast(h)
  <2> DEFINE targets == {ep \in Endpoint : Available(ep, -CacheLag)}
             at == IF targets = {} THEN "select" ELSE "wait"
             floor == IF o.kind = "nonce" /\ targets \cap pool # {} THEN 1 ELSE 0
             q == [o EXCEPT !.at = at, !.wait = targets, !.floor = floor]
  <2>1. req' = [req EXCEPT ![h] = q] /\ o.at = "cast" /\ o.kind \in Broadcast
    BY <1>6 DEF Cast, Inv, HandlerOK, ControlOf
  <2>2. /\ targets \subseteq Endpoint /\ at \in {"select", "wait"} /\ floor \in {0, 1}
        /\ at = "select" => floor = 0
        /\ floor = 1 => o.kind = "nonce" /\ \E ep \in targets : ep \in pool
    OBVIOUS
  <2> HIDE DEF targets, at, floor
  <2>3. q \in RequestRecord
    BY <1>1, <2>2 DEF RequestRecord, Points
  <2>4. /\ q.kind = o.kind /\ q.told = o.told /\ q.replies = <<>>
        /\ q.floor = floor /\ q.at = at /\ q.wait = targets
    BY <1>1 DEF RequestRecord
  <2> HIDE DEF q
  <2>. QED BY <1>1, <2>1, <2>2, <2>3, <2>4, MoveOn DEF o
<1>. QED BY <1>2, <1>3, <1>4, <1>5, <1>6

\* A request is answered from the cache, or cannot be answered.
LEMMA LookupStep ==
  ASSUME Inv, NEW h \in Handler, CacheHit(h) \/ NotAvailable(h)
  PROVE  Inv'
<1>1. UNCHANGED <<nodeVars, tableVars, redisVars>>
  BY DEF CacheHit, NotAvailable
<1>2. PICK answer \in {Unavailable} \cup Replies(req[h].kind) : Tell(h, answer)
  <2>1. CASE CacheHit(h)
    <3>1. PICK ep \in OverHeight(-CacheLag) : cache[ep] # Nil /\ Tell(h, cache[ep])
      BY <2>1 DEF CacheHit
    <3>2. cache[ep] \in {"found", "null"}
      BY <3>1, CandidatesAre DEF Inv, TableParts
    <3>3. req[h].kind \in Cachable
      BY <2>1 DEF CacheHit, Inv, HandlerOK, ControlOf
    <3>. QED BY <3>1, <3>2, <3>3, RepliesAre
  <2>2. CASE NotAvailable(h)
    BY <2>2 DEF NotAvailable
  <2>. QED BY <2>1, <2>2
<1>3. HandlerOK(h)'
  BY <1>1, <1>2, TellOK DEF redisVars
<1>4. CacheIsHonest'
  BY <1>1 DEF Inv, CacheIsHonest, nodeVars, redisVars
<1>. QED BY <1>1, <1>2, <1>3, <1>4, HandlerMoves
     DEF Tell, Inv, TableParts, nodeVars, tableVars, redisVars

\* One endpoint is called: its reply is true, and what it took is in the pool.
LEMMA CallStep ==
  ASSUME Inv, NEW h \in Handler, Call(h)
  PROVE  Inv'
<1> DEFINE o == req[h]
<1>1. /\ o \in RequestRecord /\ o.kind \in Kinds /\ o.ep \in Endpoint
      /\ o.at = "call" /\ o.floor = 0
      /\ UNCHANGED <<node, tableVars, redisVars>>
  BY DEF Call, Inv, HandlerOK, FitsKind, ControlOf, RequestRecord
<1>0. PICK r \in Reply(o.kind, o.ep) : \E t \in Took(o.kind, o.ep, r) :
        /\ pool' = pool \cup t
        /\ req' = [req EXCEPT ![h] = [o EXCEPT !.at = "answered", !.replies = <<r>>]]
  BY DEF Call
<1>2. PICK t \in Took(o.kind, o.ep, r) :
        /\ pool' = pool \cup t
        /\ req' = [req EXCEPT ![h] = [o EXCEPT !.at = "answered", !.replies = <<r>>]]
  BY <1>0
<1> DEFINE q == [o EXCEPT !.at = "answered", !.replies = <<r>>]
<1>3. /\ r = Nil \/ r \in Replies(o.kind)
      /\ o.kind \in Cachable /\ r = "found" => node[o.ep] >= TxHeight
      /\ o.kind = "send" /\ r = "known" => o.ep \in pool
  BY <1>1, ReplyIs
<1>4. t \subseteq {o.ep} /\ (o.kind = "send" /\ r = "sent" => t = {o.ep})
  BY <1>1, TookIs
<1>5. r \in Answers \cup {Nil}
  BY <1>1, <1>3, RepliesAre
<1>6. q \in RequestRecord
  <2>1. <<r>> \in Seq(Answers \cup {Nil})
    BY <1>5
  <2>. QED BY <1>1, <2>1 DEF RequestRecord, Points
<1>7. /\ q.kind = o.kind /\ q.told = o.told /\ q.replies = <<r>> /\ q.ep = o.ep
      /\ q.at = "answered" /\ q.floor = 0
  BY <1>1 DEF RequestRecord
<1>8. req' = [req EXCEPT ![h] = q]
  BY <1>2
<1>9. q.ep # Nil /\ q.floor # 1
  BY <1>1, <1>7, RelayAssumption
<1> HIDE DEF q
<1>10. req'[h] = q
  BY <1>8 DEF Inv
<1>11. FitsKind(h)'
  BY <1>1, <1>3, <1>6, <1>7, <1>10 DEF Inv, HandlerOK, FitsKind, redisVars
<1>12. ControlOf(h)'
  <2>1. Len(q.replies) = 1
    BY <1>7
  <2>. QED BY <2>1, <1>7, <1>9, <1>10 DEF ControlOf
<1>13. TruthOf(h)'
  <2>1. q.kind = "send" => \A i \in DOMAIN q.replies :
                             q.replies[i] \in {"sent", "known"} => pool' # {}
    BY <1>2, <1>3, <1>4, <1>7
  <2>. QED BY <2>1, <1>1, <1>3, <1>7, <1>9, <1>10 DEF TruthOf
<1>14. CacheIsHonest'
  BY <1>1 DEF Inv, CacheIsHonest, redisVars
<1>. QED BY <1>1, <1>2, <1>4, <1>8, <1>11, <1>12, <1>13, <1>14, HandlerMoves
     DEF HandlerOK, Inv, TableParts, tableVars, redisVars

\* The reply is cached for the endpoint that gave it, and told.
LEMMA AnswerStep ==
  ASSUME Inv, NEW h \in Handler, Answer(h)
  PROVE  Inv'
<1> DEFINE o == req[h]
           r == o.replies[1]
<1>1. /\ o.at = "answered" /\ Len(o.replies) = 1 /\ o.replies \in Seq(Answers \cup {Nil})
      /\ o.ep \in Endpoint
      /\ UNCHANGED <<nodeVars, tableVars, asked, presence>>
      /\ Tell(h, Verdict(o.via, r))
  BY DEF Answer, Inv, HandlerOK, FitsKind, ControlOf, RequestRecord
<1>2. r = Nil \/ r \in Replies(o.kind)
  <2>1. 1 \in DOMAIN o.replies
    BY <1>1, LenProperties
  <2>. QED BY <2>1 DEF Inv, HandlerOK, FitsKind
<1>3. HandlerOK(h)'
  <2>1. Verdict(o.via, r) \in {Nil, Dropped, Unavailable} \cup Replies(o.kind)
    BY <1>2 DEF Verdict
  <2>. QED BY <1>1, <2>1, TellOK
<1>4. \/ cache' = cache
      \/ cache' = [cache EXCEPT ![o.ep] = r] /\ o.kind \in Cachable /\ r # Nil
  BY DEF Answer
<1>5. cache' \in [Endpoint -> {Nil, "found", "null"}] /\ CacheIsHonest'
  <2>1. CASE cache' = cache
    BY <2>1, <1>1 DEF Inv, TableParts, CacheIsHonest, nodeVars
  <2>2. CASE cache' = [cache EXCEPT ![o.ep] = r] /\ o.kind \in Cachable /\ r # Nil
    <3>1. r \in {"found", "null"}
      BY <2>2, <1>2, RepliesAre
    <3>2. o.ep \notin Unstable /\ r = "found" => node[o.ep] >= TxHeight
      BY <2>2, <1>1 DEF Inv, HandlerOK, TruthOf
    <3> HIDE DEF o, r
    <3>3. /\ cache \in [Endpoint -> {Nil, "found", "null"}] /\ cache'[o.ep] = r
          /\ \A ep \in Endpoint : ep # o.ep => cache'[ep] = cache[ep]
      BY <2>2, <1>1 DEF Inv, TableParts
    <3>4. cache' \in [Endpoint -> {Nil, "found", "null"}]
      BY <2>2, <1>1, <3>1, <3>3
    <3>. QED BY <1>1, <3>2, <3>3, <3>4 DEF Inv, CacheIsHonest, nodeVars
  <2>. QED BY <1>4, <2>1, <2>2
<1>. QED BY <1>1, <1>3, <1>5, HandlerMoves DEF Tell, Inv, TableParts, nodeVars, tableVars

\* One of the endpoints a broadcast asks replies.
LEMMA CastReplyStep ==
  ASSUME Inv, NEW h \in Handler, NEW ep \in Endpoint, CastReply(h, ep)
  PROVE  Inv'
<1> DEFINE o == req[h]
<1>1. /\ o \in RequestRecord /\ o.kind \in Kinds /\ o.kind \in Broadcast
      /\ o.replies \in Seq(Answers \cup {Nil})
      /\ o.at = "wait" /\ ep \in o.wait
      /\ UNCHANGED <<node, tableVars, redisVars>>
  BY DEF CastReply, Inv, HandlerOK, FitsKind, ControlOf, RequestRecord
<1>0. PICK r \in Reply(o.kind, ep) : \E t \in Took(o.kind, ep, r) :
        /\ pool' = pool \cup t
        /\ req' = [req EXCEPT ![h] =
                     [o EXCEPT !.wait = o.wait \ {ep}, !.replies = Append(o.replies, r)]]
  BY DEF CastReply
<1>2. PICK t \in Took(o.kind, ep, r) :
        /\ pool' = pool \cup t
        /\ req' = [req EXCEPT ![h] =
                     [o EXCEPT !.wait = o.wait \ {ep}, !.replies = Append(o.replies, r)]]
  BY <1>0
<1> DEFINE q == [o EXCEPT !.wait = o.wait \ {ep}, !.replies = Append(o.replies, r)]
<1>3. /\ r = Nil \/ r \in Replies(o.kind)
      /\ o.kind = "send" /\ r = "known" => ep \in pool
      /\ o.kind = "nonce" /\ ep \in pool => r \in {1, Nil}
  BY <1>1, ReplyIs
<1>4. t \subseteq {ep} /\ (o.kind = "send" /\ r = "sent" => t = {ep})
  BY <1>1, TookIs
<1>5. r \in Answers \cup {Nil}
  BY <1>1, <1>3, RepliesAre
<1>6. /\ q.kind = o.kind /\ q.told = o.told /\ q.ep = o.ep /\ q.at = "wait"
      /\ q.floor = o.floor /\ q.wait = o.wait \ {ep} /\ q.replies = Append(o.replies, r)
  BY <1>1 DEF RequestRecord
<1>7. q \in RequestRecord
  <2>1. Append(o.replies, r) \in Seq(Answers \cup {Nil})
    BY <1>1, <1>5
  <2>. QED BY <1>1, <2>1 DEF RequestRecord
<1>8. req' = [req EXCEPT ![h] = q]
  BY <1>2
<1> HIDE DEF q
<1>9. req'[h] = q
  BY <1>8 DEF Inv
<1>10. /\ DOMAIN q.replies = 1..(Len(o.replies) + 1) /\ Len(o.replies) \in Nat
       /\ q.replies[Len(o.replies) + 1] = r
       /\ \A i \in 1..Len(o.replies) : q.replies[i] = o.replies[i]
       /\ DOMAIN o.replies = 1..Len(o.replies)
  BY <1>1, <1>5, <1>6, AppendProperties, LenProperties
<1>11. FitsKind(h)'
  <2>1. \A i \in DOMAIN q.replies : q.replies[i] = Nil \/ q.replies[i] \in Replies(q.kind)
    <3>1. \A i \in 1..Len(o.replies) : o.replies[i] = Nil \/ o.replies[i] \in Replies(o.kind)
      BY <1>10 DEF Inv, HandlerOK, FitsKind
    <3>. QED BY <3>1, <1>3, <1>6, <1>10
  <2>. QED BY <2>1, <1>1, <1>6, <1>7, <1>9 DEF Inv, HandlerOK, FitsKind, redisVars
<1>12. ControlOf(h)'
  BY <1>1, <1>6, <1>9 DEF Inv, HandlerOK, ControlOf
<1>13. TruthOf(h)'
  <2>1. ASSUME q.kind = "send", NEW i \in DOMAIN q.replies, q.replies[i] \in {"sent", "known"}
        PROVE  pool' # {}
    <3>1. CASE i \in 1..Len(o.replies)
      <4>1. pool # {}
        BY <2>1, <3>1, <1>6, <1>10 DEF Inv, HandlerOK, TruthOf
      <4>. QED BY <4>1, <1>2
    <3>2. CASE i = Len(o.replies) + 1
      BY <2>1, <3>2, <1>2, <1>3, <1>4, <1>6, <1>10
    <3>. QED BY <3>1, <3>2, <1>10
  <2>2. ASSUME q.floor = 1
        PROVE  \/ \E e \in q.wait : e \in pool'
               \/ \E i \in DOMAIN q.replies : q.replies[i] \in {1, Nil}
    <3>1. /\ o.kind = "nonce"
          /\ \/ \E e \in o.wait : e \in pool
             \/ \E i \in DOMAIN o.replies : o.replies[i] \in {1, Nil}
      BY <2>2, <1>6 DEF Inv, HandlerOK, ControlOf, TruthOf
    <3>2. CASE \E e \in o.wait : e \in pool /\ e # ep
      BY <3>2, <1>2, <1>6
    <3>3. CASE ep \in pool
      <4>1. r \in {1, Nil} /\ Len(o.replies) + 1 \in DOMAIN q.replies
        BY <3>1, <3>3, <1>3, <1>10
      <4>. QED BY <4>1, <1>10
    <3>4. CASE \E i \in DOMAIN o.replies : o.replies[i] \in {1, Nil}
      <4>1. PICK i \in 1..Len(o.replies) : o.replies[i] \in {1, Nil}
        BY <3>4, <1>10
      <4>2. i \in DOMAIN q.replies /\ q.replies[i] = o.replies[i]
        BY <1>10
      <4>. QED BY <4>1, <4>2
    <3>. QED BY <3>1, <3>2, <3>3, <3>4
  <2>. QED BY <2>1, <2>2, <1>6, <1>9 DEF TruthOf
<1>14. CacheIsHonest'
  BY <1>1 DEF Inv, CacheIsHonest, redisVars
<1>15. pool' \subseteq Endpoint /\ pool \subseteq pool'
  BY <1>2, <1>4 DEF Inv, TableParts
<1>. QED BY <1>1, <1>8, <1>11, <1>12, <1>13, <1>14, <1>15, HandlerMoves
     DEF HandlerOK, Inv, TableParts, tableVars, redisVars

\* The best of a broadcast's replies is one of them, or none came.
LEMMA BestIs ==
  ASSUME NEW replies
  PROVE  /\ BestSend(replies) \in {"sent", "known", "refused", Nil}
         /\ BestNonce(replies) \in {0, 1, Nil}
         /\ BestSend(replies) \in {"sent", "known"} =>
              \E i \in DOMAIN replies : replies[i] \in {"sent", "known"}
         /\ BestSend(replies) = "refused" =>
              \A i \in DOMAIN replies : replies[i] \notin {"sent", "known"}
         /\ (\E i \in DOMAIN replies : replies[i] = 1) => BestNonce(replies) = 1
<1>1. Nil \notin {"sent", "known", "refused", 0, 1}
  BY AnswerAssumption
<1>2. /\ BestSend(replies) \in {"sent", "known", "refused", Nil}
      /\ BestSend(replies) \in {"sent", "known"} =>
           \E i \in DOMAIN replies : replies[i] \in {"sent", "known"}
  BY <1>1 DEF BestSend, Among
<1>3. BestSend(replies) = "refused" =>
        \A i \in DOMAIN replies : replies[i] \notin {"sent", "known"}
  BY <1>1 DEF BestSend, Among
<1>4. BestNonce(replies) \in {0, 1, Nil}
  BY DEF BestNonce
<1>5. (\E i \in DOMAIN replies : replies[i] = 1) => BestNonce(replies) = 1
  BY DEF BestNonce, Among
<1>. QED BY <1>2, <1>3, <1>4, <1>5

\* The broadcast is over.
LEMMA ChooseStep ==
  ASSUME Inv, NEW h \in Handler, Choose(h)
  PROVE  Inv'
<1> DEFINE o == req[h]
           answer == IF o.kind = "send" THEN BestSend(o.replies) ELSE BestNonce(o.replies)
<1>1. /\ UNCHANGED <<nodeVars, tableVars, redisVars>> /\ Tell(h, answer)
      /\ o.kind \in {"send", "nonce"}
  BY DEF Choose, Inv, HandlerOK, ControlOf, Broadcast
<1>2. answer \in {Nil} \cup Replies(o.kind)
  BY <1>1, BestIs, RepliesAre
<1> HIDE DEF answer
<1>3. HandlerOK(h)'
  BY <1>1, <1>2, TellOK DEF redisVars
<1>4. CacheIsHonest'
  BY <1>1 DEF Inv, CacheIsHonest, nodeVars, redisVars
<1>. QED BY <1>1, <1>3, <1>4, HandlerMoves DEF Tell, Inv, TableParts, nodeVars, tableVars, redisVars

LEMMA NextInv == Inv /\ [Next]_vars => Inv'
<1> SUFFICES ASSUME Inv, [Next]_vars PROVE Inv'
  OBVIOUS
<1>1. CASE Environment
  BY <1>1, EnvironmentStep
<1>2. ASSUME NEW h \in Handler, NEW name \in Named \cup {Nil}, NEW kind \in asked[h],
             Accept(h, kind, name)
      PROVE  Inv'
  BY <1>2, AcceptStep
<1>3. ASSUME NEW h \in Handler, Serve(h) PROVE Inv'
  BY <1>3, LookupStep, MoveStep, CallStep, AnswerStep, CastReplyStep, ChooseStep DEF Serve
<1>4. CASE UNCHANGED vars
  <2>1. /\ TableParts' /\ CacheIsHonest' /\ DOMAIN req' = Handler
    BY <1>4 DEF Inv, TableParts, CacheIsHonest, vars, nodeVars, tableVars, redisVars
  <2>2. ASSUME NEW h \in Handler PROVE HandlerOK(h)'
    BY <1>4 DEF Inv, HandlerOK, FitsKind, ControlOf, TruthOf, vars, nodeVars, redisVars
  <2>. QED BY <2>1, <2>2 DEF Inv
<1>. QED BY <1>1, <1>2, <1>3, <1>4 DEF Next

-----------------------------------------------------------------------------
(* Theorems *)

\* The inductive invariant holds in every reachable state.
THEOREM Invariance == Spec => []Inv
BY InitInv, NextInv, PTL DEF Spec

\* Type correctness: whatever way a request takes, from cache, presence set,
\* selection or broadcast, it is answered in the terms of its kind.
THEOREM TypeCorrect == Spec => []TypeOK
<1>1. Inv => TypeOK
  <2> SUFFICES ASSUME Inv PROVE TypeOK
    OBVIOUS
  <2>1. ASSUME NEW h \in Handler
        PROVE  LET q == req[h] IN
               /\ q.kind \in asked[h] \cup {"rest"} /\ q.ep \in Endpoint \cup {Nil}
               /\ q.wait \subseteq Endpoint /\ q.at \in Points
               /\ \A i \in DOMAIN q.replies : q.replies[i] = Nil \/ q.replies[i] \in Replies(q.kind)
               /\ q.told \in {Nil, Dropped, Unavailable} \/ q.told \in Replies(q.kind)
               /\ q.at \in {"call", "answered"} => q.ep # Nil
    BY DEF Inv, HandlerOK, FitsKind, ControlOf, RequestRecord
  <2>. QED BY <2>1 DEF Inv, TableParts, TypeOK, Points
<1>. QED BY <1>1, Invariance, PTL

\* Whatever is cached as found for a node that takes no block back, that
\* node has, for any number of handlers and endpoints.
THEOREM CacheHonest == Spec => []CacheIsHonest
<1>1. Inv => CacheIsHonest
  BY DEF Inv
<1>. QED BY <1>1, Invariance, PTL

\* A handler's step leaves the requests of the others alone.
LEMMA OneMoves ==
  ASSUME DOMAIN req = Handler, NEW g \in Handler,
         Serve(g) \/ \E name \in Named \cup {Nil} : \E kind \in asked[g] : Accept(g, kind, name)
  PROVE  \A h \in Handler \ {g} : req'[h] = req[h]
<1>1. ASSUME NEW answer, Tell(g, answer) PROVE \A h \in Handler \ {g} : req'[h] = req[h]
  BY <1>1 DEF Tell
<1>2. ASSUME CacheHit(g) \/ NotAvailable(g) \/ Answer(g) \/ Choose(g)
      PROVE  \E answer : Tell(g, answer)
  BY <1>2 DEF CacheHit, NotAvailable, Answer, Choose
<1>3. CASE CacheMiss(g) \/ PresenceHit(g) \/ PresenceMiss(g) \/ Select(g)
  BY <1>3 DEF CacheMiss, PresenceHit, PresenceMiss, Select
<1>4. CASE Call(g) \/ Cast(g)
  BY <1>4 DEF Call, Cast
<1>5. CASE \E ep \in Endpoint : CastReply(g, ep)
  BY <1>5 DEF CastReply
<1>6. CASE \E name \in Named \cup {Nil} : \E kind \in asked[g] : Accept(g, kind, name)
  BY <1>6 DEF Accept
<1>. QED BY <1>1, <1>2, <1>3, <1>4, <1>5, <1>6 DEF Serve

\* The steps that end a request, and what they tell.
LEMMA ToldBy ==
  ASSUME Inv, [Next]_vars, NEW h \in Handler, Told(h)
  PROVE  LET o == req[h] IN
         \/ o.kind \in Cachable /\ req'[h].told \in {"found", "null"}
         \/ req'[h].told = Unavailable
         \/ o.at = "answered" /\ req'[h].told = Verdict(o.via, o.replies[1])
         \/ /\ o.at = "wait" /\ o.wait = {}
            /\ req'[h].told = IF o.kind = "send" THEN BestSend(o.replies)
                              ELSE BestNonce(o.replies)
<1> DEFINE o == req[h]
           Goal == \/ o.kind \in Cachable /\ req'[h].told \in {"found", "null"}
                   \/ req'[h].told = Unavailable
                   \/ o.at = "answered" /\ req'[h].told = Verdict(o.via, o.replies[1])
                   \/ /\ o.at = "wait" /\ o.wait = {}
                      /\ req'[h].told = IF o.kind = "send" THEN BestSend(o.replies)
                                        ELSE BestNonce(o.replies)
<1>1. o.at # "done" /\ req'[h].at = "done" /\ req' # req /\ DOMAIN req = Handler
      /\ o \in RequestRecord
  BY DEF Told, Inv, HandlerOK, FitsKind
<1>3. ASSUME NEW answer, Tell(h, answer) PROVE req'[h].told = answer
  BY <1>1, <1>3 DEF Tell, Idle
<1>4. PICK g \in Handler : Serve(g) \/ \E name \in Named \cup {Nil} : \E kind \in asked[g] : Accept(g, kind, name)
  BY <1>1 DEF Next, Environment, Mine, Reorganise, Poll, PollFails, PresenceExpires,
              CacheExpires, vars
<1>5. g = h
  BY <1>1, <1>4, OneMoves
<1>6. ~ \E name \in Named \cup {Nil} : \E kind \in asked[h] : Accept(h, kind, name)
  BY <1>1 DEF Accept
<1>7. ASSUME CacheHit(h) PROVE Goal
  <2>1. PICK ep \in OverHeight(-CacheLag) : cache[ep] # Nil /\ Tell(h, cache[ep])
    BY <1>7 DEF CacheHit
  <2>2. cache[ep] \in {"found", "null"}
    BY <2>1, CandidatesAre DEF Inv, TableParts
  <2>3. o.kind \in Cachable
    BY <1>7 DEF CacheHit, Inv, HandlerOK, ControlOf
  <2>. QED BY <1>3, <2>1, <2>2, <2>3
<1>8. ASSUME NotAvailable(h) PROVE Goal
  BY <1>3, <1>8 DEF NotAvailable
<1>9. ASSUME Answer(h) PROVE Goal
  BY <1>3, <1>9 DEF Answer
<1>10. ASSUME Choose(h) PROVE Goal
  BY <1>3, <1>10 DEF Choose
<1>11. ~(CacheMiss(h) \/ PresenceMiss(h) \/ PresenceHit(h) \/ Select(h))
  <2>1. ASSUME NEW at, at # "done", NEW ep, NEW via,
               \/ req' = [req EXCEPT ![h].at = at]
               \/ req' = [req EXCEPT ![h].at = at, ![h].ep = ep]
               \/ req' = [req EXCEPT ![h].at = at, ![h].ep = ep, ![h].via = via]
        PROVE  FALSE
    BY <1>1, <2>1 DEF RequestRecord
  <2>2. ASSUME CacheMiss(h) PROVE FALSE
    <3> DEFINE at == IF o.kind = "tx" THEN "presence" ELSE "select"
    <3>1. at # "done" /\ req' = [req EXCEPT ![h].at = at]
      BY <2>2 DEF CacheMiss
    <3> HIDE DEF at
    <3>. QED BY <2>1, <3>1
  <2>3. ~PresenceMiss(h)
    BY <2>1 DEF PresenceMiss
  <2>4. ASSUME PresenceHit(h) PROVE FALSE
    <3>1. PICK ep \in presence :
            req' = [req EXCEPT ![h].at = "call", ![h].ep = ep, ![h].via = "presence"]
      BY <2>4 DEF PresenceHit
    <3>. QED BY <2>1, <3>1
  <2>5. ~Select(h)
    BY <2>1 DEF Select
  <2>. QED BY <2>2, <2>3, <2>4, <2>5
<1>12. ~(Call(h) \/ Cast(h))
  <2>1. ASSUME NEW at, at # "done", NEW wait, NEW floor, NEW replies,
               \/ req' = [req EXCEPT ![h].at = at, ![h].replies = replies]
               \/ req' = [req EXCEPT ![h].at = at, ![h].wait = wait, ![h].floor = floor]
        PROVE  FALSE
    BY <1>1, <2>1 DEF RequestRecord
  <2>2. ~Call(h)
    BY <2>1 DEF Call
  <2>3. ASSUME Cast(h) PROVE FALSE
    <3> DEFINE targets == {ep \in Endpoint : Available(ep, -CacheLag)}
               at == IF targets = {} THEN "select" ELSE "wait"
               floor == IF o.kind = "nonce" /\ targets \cap pool # {} THEN 1 ELSE 0
    <3>1. /\ at # "done"
          /\ req' = [req EXCEPT ![h].at = at, ![h].wait = targets, ![h].floor = floor]
      BY <2>3 DEF Cast
    <3> HIDE DEF targets, at, floor
    <3>. QED BY <2>1, <3>1
  <2>. QED BY <2>2, <2>3
<1>13. ~ \E ep \in Endpoint : CastReply(h, ep)
  <2>1. ASSUME NEW wait, NEW replies, req' = [req EXCEPT ![h].wait = wait, ![h].replies = replies]
        PROVE  FALSE
    BY <1>1, <2>1 DEF RequestRecord
  <2>. QED BY <2>1 DEF CastReply
<1>. QED BY <1>4, <1>5, <1>6, <1>7, <1>8, <1>9, <1>10, <1>11, <1>12, <1>13 DEF Serve

\* Clients are told that a raw transaction was taken only if a node took it,
\* and that it was refused only if no answer says otherwise, for any number
\* of endpoints that answer in any order.
THEOREM SendsHonest == Spec => SendIsHonest
<1> DEFINE Honest == \A h \in Handler : Told(h) /\ req[h].kind = "send" =>
             /\ req'[h].told \in {"sent", "known"} => pool # {}
             /\ req'[h].told = "refused" => \A i \in DOMAIN req[h].replies :
                                               req[h].replies[i] \in {"refused", Nil}
<1>1. Inv /\ [Next]_vars => [Honest]_vars
  <2> SUFFICES ASSUME Inv, [Next]_vars, NEW h \in Handler, Told(h), req[h].kind = "send"
               PROVE  /\ req'[h].told \in {"sent", "known"} => pool # {}
                      /\ req'[h].told = "refused" => \A i \in DOMAIN req[h].replies :
                                                        req[h].replies[i] \in {"refused", Nil}
    OBVIOUS
  <2> DEFINE o == req[h]
  <2>1. /\ o.replies \in Seq(Answers \cup {Nil})
        /\ \A i \in DOMAIN o.replies : o.replies[i] \in {"sent", "known", "refused", Nil}
        /\ \A i \in DOMAIN o.replies : o.replies[i] \in {"sent", "known"} => pool # {}
    BY RepliesAre DEF Inv, HandlerOK, FitsKind, TruthOf, RequestRecord
  <2>2. o.kind \notin Cachable
    BY DEF Cachable
  <2>3. CASE req'[h].told = Unavailable
    BY <2>3, AnswerAssumption
  <2>4. CASE o.at = "answered" /\ req'[h].told = Verdict(o.via, o.replies[1])
    <3>1. Len(o.replies) = 1 /\ DOMAIN o.replies = {1}
      BY <2>1, <2>4, LenProperties DEF Inv, HandlerOK, ControlOf
    <3>2. req'[h].told \in {o.replies[1], Dropped}
      BY <2>4 DEF Verdict
    <3>3. Dropped \notin {"sent", "known", "refused"}
      BY AnswerAssumption
    <3>. QED BY <2>1, <3>1, <3>2, <3>3
  <2>5. CASE req'[h].told = BestSend(o.replies)
    BY <2>1, <2>5, BestIs
  <2>. QED BY <2>2, <2>3, <2>4, <2>5, ToldBy
<1>. QED BY <1>1, Invariance, PTL DEF Spec, SendIsHonest

\* A nonce that every endpoint asked has answered is not below what one of
\* them had when the request began, in whatever order they answer and
\* whatever is sent meanwhile.
THEOREM NoncesCoverSends == Spec => NonceCoversSends
<1> DEFINE Covers == \A h \in Handler :
             /\ Told(h) /\ req[h].kind = "nonce" /\ req'[h].told \in {0, 1}
             /\ \A i \in DOMAIN req[h].replies : req[h].replies[i] # Nil
             => req'[h].told >= req[h].floor
<1>1. Inv /\ [Next]_vars => [Covers]_vars
  <2> SUFFICES ASSUME Inv, [Next]_vars, NEW h \in Handler, Told(h), req[h].kind = "nonce",
                      req'[h].told \in {0, 1},
                      \A i \in DOMAIN req[h].replies : req[h].replies[i] # Nil
               PROVE  req'[h].told >= req[h].floor
    OBVIOUS
  <2> DEFINE o == req[h]
  <2>1. o.floor \in {0, 1} /\ (o.at # "wait" => o.floor = 0)
    BY DEF Inv, HandlerOK, FitsKind, ControlOf, RequestRecord
  <2>2. CASE o.floor = 0
    BY <2>2
  <2>3. CASE o.floor = 1
    <3>1. o.at = "wait"
      BY <2>1, <2>3
    <3>2. o.wait = {} /\ req'[h].told = BestNonce(o.replies)
      BY <3>1, ToldBy, AnswerAssumption DEF Cachable
    <3>3. \E i \in DOMAIN o.replies : o.replies[i] = 1
      BY <2>3, <3>2 DEF Inv, HandlerOK, TruthOf
    <3>4. BestNonce(o.replies) = 1
      BY <3>3, BestIs
    <3>. QED BY <2>3, <3>2, <3>4
  <2>. QED BY <2>1, <2>2, <2>3
<1>. QED BY <1>1, Invariance, PTL DEF Spec, NonceCoversSends
=============================================================================
