-------------------------------- MODULE Relay --------------------------------
(***************************************************************************)
(* What becomes of one client request on one chain: the relayers of        *)
(* server/, DelegateRPC of web3 (bitcoin and solana are its special cases) *)
(* with the result cache and the presence cache in redis, the broadcast of *)
(* raw transactions and nonces, and the pipe of REST and GraphQL.          *)
(*                                                                         *)
(* A node is its height; the transaction asked about is in the block at    *)
(* TxHeight, so a node has it, and that block, once it is that high.  The  *)
(* endpoint table is what the poll of a node last said of it, and a        *)
(* selection is any fit endpoint: Multiplexer shows what selection does    *)
(* while the table changes under it.                                       *)
(***************************************************************************)
EXTENDS Integers, Sequences, FiniteSets

CONSTANTS
  Endpoint, Handler,
  Nil,         \* no block, no entry, no answer
  Unavailable, \* ErrNotAvailable, or 404
  Dropped,     \* neither an answer nor an error
  MaxHeight,   \* bound of the model: height of the nodes
  TxHeight,    \* height of the block with the transaction
  CacheLag,    \* cached answers count from endpoints this near the tip (10)
  RelayLag,    \* requests go to endpoints this near the tip (2)
  SendLag,     \* broadcasts that found nobody to ask, likewise (5)
  Unstable,    \* nodes that may take a block back
  Unreliable,  \* nodes whose poll may fail
  Named,       \* endpoints that clients name in X-Nodemux-Select
  Workload     \* what the clients of one behaviour ask each handler for

\* "tx": eth_getTransactionByHash, eth_getTransactionReceipt; "block":
\* eth_getBlockByNumber of TxHeight; "send": eth_sendRawTransaction; "nonce":
\* eth_getTransactionCount; "rest": a REST or GraphQL request.
Cachable  == {"tx", "block"}
Broadcast == {"send", "nonce"}

ASSUME RelayAssumption ==
  /\ MaxHeight \in Nat /\ TxHeight \in 1..MaxHeight
  /\ RelayLag \in Nat /\ CacheLag \in Nat /\ SendLag \in Nat
  /\ Unstable \subseteq Endpoint /\ {Named, Unreliable} \subseteq SUBSET Endpoint
  /\ Workload \subseteq [Handler -> SUBSET (Cachable \cup Broadcast \cup {"rest"})]
  /\ \A w \in Workload : Cardinality(UNION {w[h] : h \in Handler} \cap Cachable) <= 1
  /\ Nil \notin Endpoint \cup (0..MaxHeight)
ASSUME AnswerAssumption ==
  /\ {Nil, Unavailable, Dropped} \cap
       {"found", "null", "sent", "known", "refused", "piped", "timeout", 0, 1} = {}
  /\ Cardinality({Nil, Unavailable, Dropped}) = 3

VARIABLES
  node,      \* height of each node
  pool,      \* nodes that accepted the client's raw transaction
  healthy,   \* Endpoint.Healthy
  head,      \* Endpoint.Blockhead
  presence,  \* redis: the set of endpoints seen with the transaction
  asked,     \* the requests that come, at most one of them cachable
  cache,     \* redis: the answer to that one, as cached for each endpoint
  req        \* what each handler works on

nodeVars == <<node, pool>>
tableVars == <<healthy, head>>
redisVars == <<presence, asked, cache>>
vars == <<nodeVars, tableVars, redisVars, req>>

Idle == [kind |-> "rest", at |-> "done", ep |-> Nil, via |-> "relay",
         wait |-> {}, replies |-> <<>>, told |-> Nil, floor |-> 0]

Init ==
  /\ node = [ep \in Endpoint |-> 1] /\ pool = {}
  /\ healthy = [ep \in Endpoint |-> TRUE] /\ head = [ep \in Endpoint |-> Nil]
  /\ presence = {}
  /\ asked \in Workload /\ cache = [ep \in Endpoint |-> Nil]
  /\ req = [h \in Handler |-> Idle]

-----------------------------------------------------------------------------
(* The nodes and the table *)

Mine(ep) ==
  /\ node[ep] < MaxHeight
  /\ node' = [node EXCEPT ![ep] = @ + 1]
  /\ UNCHANGED <<pool, tableVars, redisVars, req>>

Reorganise(ep) ==
  /\ ep \in Unstable /\ node[ep] > 1
  /\ node' = [node EXCEPT ![ep] = @ - 1]
  /\ UNCHANGED <<pool, tableVars, redisVars, req>>

\* Web3Chain.GetBlockhead finds the node well: the table follows, and the
\* transactions of a block of another height are noted (presenceCacheUpdate,
\* in a goroutine of its own, which fails if redis does).
Poll(ep) ==
  /\ healthy' = [healthy EXCEPT ![ep] = TRUE]
  /\ head' = [head EXCEPT ![ep] = node[ep]]
  /\ \/ presence' = presence
     \/ head[ep] # node[ep] /\ node[ep] = TxHeight /\ presence' = presence \cup {ep}
  /\ UNCHANGED <<nodeVars, asked, cache, req>>

PollFails(ep) ==
  /\ ep \in Unreliable
  /\ healthy' = [healthy EXCEPT ![ep] = FALSE]
  /\ UNCHANGED <<nodeVars, head, redisVars, req>>

-----------------------------------------------------------------------------
(* Redis *)

PresenceExpires ==
  /\ presence # {} /\ presence' = {}
  /\ UNCHANGED <<nodeVars, tableVars, asked, cache, req>>

CacheExpires(ep) ==
  /\ cache[ep] # Nil
  /\ cache' = [cache EXCEPT ![ep] = Nil]
  /\ UNCHANGED <<nodeVars, tableVars, asked, presence, req>>

-----------------------------------------------------------------------------
(* Selection *)

Tip == LET hs == {0} \cup ({head[ep] : ep \in Endpoint} \ {Nil})
       IN CHOOSE m \in hs : \A x \in hs : x <= m

Available(ep, height) ==
  healthy[ep] /\ (height > 0 => head[ep] # Nil /\ head[ep] >= height)

OverHeight(spec) ==
  {ep \in Endpoint : Available(ep, IF spec <= 0 THEN Tip + spec ELSE spec)}

\* DefaultRelayRPC and its kin: for a positive height, again near the tip.
Candidates(spec) ==
  IF spec > 0 /\ OverHeight(spec) = {} THEN OverHeight(-RelayLag) ELSE OverHeight(spec)

HeightSpec(kind) ==
  CASE kind = "block" -> TxHeight [] kind \in Broadcast -> -SendLag [] OTHER -> -RelayLag

-----------------------------------------------------------------------------
(* delegateRPC and DelegateRPC *)

StartOf(kind) ==
  CASE kind \in Cachable -> "cache" [] kind \in Broadcast -> "cast" [] OTHER -> "select"

\* A request, perhaps for an endpoint that its X-Nodemux-Select names.
Accept(h, kind, name) ==
  /\ req[h].at = "done"
  /\ LET direct == name # Nil /\ kind # "rest" /\ Available(name, 0) IN
     req' = [req EXCEPT ![h] =
       [Idle EXCEPT !.kind = kind, !.ep = IF direct THEN name ELSE Nil,
                    !.via = IF direct THEN "direct" ELSE "relay",
                    !.at = IF direct THEN "call" ELSE StartOf(kind)]]
  /\ UNCHANGED <<nodeVars, tableVars, redisVars>>

Tell(h, answer) ==
  req' = [req EXCEPT ![h] = [Idle EXCEPT !.kind = req[h].kind, !.told = answer]]

CopyHit(h) ==
  /\ req[h].at = "cache"
  /\ \E ep \in OverHeight(-CacheLag) :
       /\ cache[ep] # Nil
       /\ Tell(h, cache[ep])
       /\ cache' = [e \in Endpoint |-> cache[ep]]
  /\ UNCHANGED <<nodeVars, tableVars, asked, presence>>

\* jsonrpcCacheFetch: the answer cached for some endpoint near the tip.
CacheHit(h) ==
  /\ req[h].at = "cache"
  /\ \E ep \in OverHeight(-CacheLag) :
       /\ cache[ep] # Nil
       /\ Tell(h, cache[ep])
  /\ UNCHANGED <<nodeVars, tableVars, redisVars>>

\* Nothing cached, no store configured, or redis fails.
CacheMiss(h) ==
  /\ req[h].at = "cache"
  /\ req' = [req EXCEPT ![h].at = IF req[h].kind = "tx" THEN "presence" ELSE "select"]
  /\ UNCHANGED <<nodeVars, tableVars, redisVars>>

\* presenceCacheGetEndpoint: a healthy endpoint of the set, whatever its height.
PresenceHit(h) ==
  /\ req[h].at = "presence"
  /\ \E ep \in presence : /\ healthy[ep]
                           /\ req' = [req EXCEPT ![h].at = "call", ![h].ep = ep,
                                                 ![h].via = "presence"]
  /\ UNCHANGED <<nodeVars, tableVars, redisVars>>

\* No healthy endpoint in the set, no store configured, or redis fails.
PresenceMiss(h) ==
  /\ req[h].at = "presence"
  /\ req' = [req EXCEPT ![h].at = "select"]
  /\ UNCHANGED <<nodeVars, tableVars, redisVars>>

SelectUnchecked(h) ==
  LET eps == Candidates(HeightSpec(req[h].kind)) IN
  /\ req[h].at = "select"
  /\ \E ep \in IF eps = {} THEN {Nil} ELSE eps :
       req' = [req EXCEPT ![h].at = "call", ![h].ep = ep]
  /\ UNCHANGED <<nodeVars, tableVars, redisVars>>

Select(h) ==
  /\ req[h].at = "select"
  /\ \E ep \in Candidates(HeightSpec(req[h].kind)) :
       req' = [req EXCEPT ![h].at = "call", ![h].ep = ep]
  /\ UNCHANGED <<nodeVars, tableVars, redisVars>>

NotAvailable(h) ==
  /\ req[h].at = "select" /\ Candidates(HeightSpec(req[h].kind)) = {}
  /\ Tell(h, Unavailable)
  /\ UNCHANGED <<nodeVars, tableVars, redisVars>>

\* What the node says, Nil when its answer does not come back.
Reply(kind, ep) ==
  {Nil} \cup
  CASE kind \in Cachable -> {IF node[ep] >= TxHeight THEN "found" ELSE "null"}
    [] kind = "send"     -> IF ep \in pool THEN {"known"} ELSE {"sent", "refused"}
    [] kind = "nonce"    -> {IF ep \in pool THEN 1 ELSE 0}
    [] OTHER             -> {"piped", "timeout"}

\* A node takes a raw transaction when it says so, or when its answer is lost.
Took(kind, ep, r) ==
  IF kind # "send" THEN {{}} ELSE
  CASE r = "sent" -> {{ep}} [] r = Nil -> {{}, {ep}} [] OTHER -> {{}}

\* CallRPC or PipeRequest of the selected endpoint.
Call(h) ==
  LET kind == req[h].kind
      ep == req[h].ep
  IN /\ req[h].at = "call"
     /\ \E r \in Reply(kind, ep) :
          /\ \E t \in Took(kind, ep, r) : pool' = pool \cup t
          /\ req' = [req EXCEPT ![h].at = "answered", ![h].replies = <<r>>]
     /\ UNCHANGED <<node, tableVars, redisVars>>

\* What the client is told when one endpoint was asked: on the presence path
\* the error of the call is dropped, and neither message nor error remains.
Verdict(via, r) == IF r = Nil /\ via = "presence" THEN Dropped ELSE r

AnswerForAll(h) ==
  LET q == req[h]
      r == q.replies[1]
  IN /\ q.at = "answered"
     /\ cache' = IF q.kind \in Cachable /\ q.via # "direct" /\ r # Nil
                 THEN [ep \in Endpoint |-> r] ELSE cache
     /\ Tell(h, Verdict(q.via, r))
     /\ UNCHANGED <<nodeVars, tableVars, asked, presence>>

\* jsonrpcCacheUpdate, under the key of the endpoint that answered, and the answer
\* to the client.  redis may fail to store.
Answer(h) ==
  LET q == req[h]
      r == q.replies[1]
  IN /\ q.at = "answered"
     /\ \/ cache' = IF q.kind \in Cachable /\ q.via # "direct" /\ r # Nil
                    THEN [cache EXCEPT ![q.ep] = r] ELSE cache
        \/ cache' = cache
     /\ Tell(h, Verdict(q.via, r))
     /\ UNCHANGED <<nodeVars, tableVars, asked, presence>>

-----------------------------------------------------------------------------
(* BroadcastRPC *)

Cast(h) ==
  LET targets == {ep \in Endpoint : Available(ep, -CacheLag)} IN
  /\ req[h].at = "cast"
  /\ req' = [req EXCEPT ![h].at = IF targets = {} THEN "select" ELSE "wait",
                        ![h].wait = targets,
                        ![h].floor = IF req[h].kind = "nonce" /\ targets \cap pool # {}
                                     THEN 1 ELSE 0]
  /\ UNCHANGED <<nodeVars, tableVars, redisVars>>

\* The call to one endpoint returns; results are in the order of return.
CastReply(h, ep) ==
  /\ req[h].at = "wait" /\ ep \in req[h].wait
  /\ \E r \in Reply(req[h].kind, ep) :
       /\ \E t \in Took(req[h].kind, ep, r) : pool' = pool \cup t
       /\ req' = [req EXCEPT ![h].wait = @ \ {ep}, ![h].replies = Append(@, r)]
  /\ UNCHANGED <<node, tableVars, redisVars>>

Among(replies, r) == \E i \in DOMAIN replies : replies[i] = r

FirstReply(replies) == replies[1]

\* sendRawTransaction: a result, else "already known", else another error.
BestSend(replies) ==
  IF Among(replies, "sent") THEN "sent"
  ELSE IF Among(replies, "known") THEN "known"
  ELSE IF Among(replies, "refused") THEN "refused"
  ELSE Nil

\* getTransactionCount: the highest.
BestNonce(replies) ==
  IF Among(replies, 1) THEN 1 ELSE IF Among(replies, 0) THEN 0 ELSE Nil

Choose(h) ==
  /\ req[h].at = "wait" /\ req[h].wait = {}
  /\ Tell(h, IF req[h].kind = "send" THEN BestSend(req[h].replies)
             ELSE BestNonce(req[h].replies))
  /\ UNCHANGED <<nodeVars, tableVars, redisVars>>

-----------------------------------------------------------------------------
Serve(h) ==
  \/ CacheHit(h) \/ CacheMiss(h) \/ PresenceHit(h) \/ PresenceMiss(h)
  \/ Select(h) \/ NotAvailable(h) \/ Call(h) \/ Answer(h)
  \/ Cast(h) \/ (\E ep \in Endpoint : CastReply(h, ep)) \/ Choose(h)

Environment ==
  \/ \E ep \in Endpoint : Mine(ep) \/ Reorganise(ep) \/ Poll(ep) \/ PollFails(ep)
  \/ PresenceExpires
  \/ \E ep \in Endpoint : CacheExpires(ep)

Next ==
  \/ Environment
  \/ \E h \in Handler, name \in Named \cup {Nil} : \E kind \in asked[h] : Accept(h, kind, name)
  \/ \E h \in Handler : Serve(h)

Spec == Init /\ [][Next]_vars

\* Handlers run, calls return, and redis drops expired keys.
FairSpec ==
  /\ Spec
  /\ \A h \in Handler : WF_vars(Serve(h))
  /\ \A ep \in Endpoint : WF_vars(CacheExpires(ep))

-----------------------------------------------------------------------------
(* Properties *)

Replies(kind) ==
  CASE kind \in Cachable -> {"found", "null"} [] kind = "send" -> {"sent", "known", "refused"}
    [] kind = "nonce" -> {0, 1} [] OTHER -> {"piped", "timeout"}

\* Every variable keeps its type; a request is answered in the terms of its kind.
TypeOK ==
  /\ node \in [Endpoint -> 1..MaxHeight] /\ pool \subseteq Endpoint
  /\ healthy \in [Endpoint -> BOOLEAN] /\ head \in [Endpoint -> {Nil} \cup 1..MaxHeight]
  /\ presence \subseteq Endpoint /\ asked \in Workload
  /\ cache \in [Endpoint -> {Nil, "found", "null"}]
  /\ \A h \in Handler : LET q == req[h] IN
       /\ q.kind \in asked[h] \cup {"rest"} /\ q.ep \in Endpoint \cup {Nil} /\ q.wait \subseteq Endpoint
       /\ q.at \in {"done", "cache", "presence", "select", "call", "answered", "cast", "wait"}
       /\ \A i \in DOMAIN q.replies : q.replies[i] = Nil \/ q.replies[i] \in Replies(q.kind)
       /\ q.told \in {Nil, Dropped, Unavailable} \/ q.told \in Replies(q.kind)
       /\ q.at \in {"call", "answered"} => q.ep # Nil

\* What is cached as found for an endpoint, that endpoint has: an answer is
\* never filed under another one, on none of the ways to a cachable answer
\* (jsonrpcCacheUpdate).  The lookup trusts this when it takes only the keys of
\* endpoints near the tip.
CacheIsHonest ==
  \A ep \in Endpoint \ Unstable : cache[ep] = "found" => node[ep] >= TxHeight

\* The step that answers h.
Told(h) == req[h].at # "done" /\ req'[h].at = "done"

\* Once every node has the transaction for good, clients stop being told that
\* it does not exist: no cached null outlives its expiry, although answers
\* under way may still file one.
EventuallyFound ==
  <>[](\A ep \in Endpoint : node[ep] >= TxHeight)
    => <>[][\A h \in Handler : Told(h) /\ req[h].kind \in Cachable
                               => req'[h].told # "null"]_vars

\* A client is told that its raw transaction was taken only if some node took it, and
\* that it was refused only if no node that answered took or knew it
\* (sendRawTransaction), in whatever order the answers came.
SendIsHonest ==
  [][\A h \in Handler : Told(h) /\ req[h].kind = "send" =>
       /\ req'[h].told \in {"sent", "known"} => pool # {}
       /\ req'[h].told = "refused" => \A i \in DOMAIN req[h].replies :
                                         req[h].replies[i] \in {"refused", Nil}]_vars

\* A nonce that all endpoints asked have answered is not below what any of them
\* had when the request began (getTransactionCount): whoever was told "sent"
\* gets the next nonce while the node that took the transaction is asked.
NonceCoversSends ==
  [][\A h \in Handler :
       /\ Told(h) /\ req[h].kind = "nonce" /\ req'[h].told \in {0, 1}
       /\ \A i \in DOMAIN req[h].replies : req[h].replies[i] # Nil
       => req'[h].told >= req[h].floor]_vars
=============================================================================
