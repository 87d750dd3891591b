----------------------------- MODULE Multiplexer -----------------------------
(***************************************************************************)
(* The endpoint table of nodemux (core/multiplexer.go, endpoint_set.go,    *)
(* endpoint.go, sync.go): the health flag and block head of every          *)
(* endpoint, and, per chain, the cumulative weight table and the highest   *)
(* block height seen (maxTipHeight).                                       *)
(*                                                                         *)
(* One goroutine, RunUpdator, writes the table.  Relay handlers, one       *)
(* goroutine per request, read it while it is being written: the code      *)
(* takes no lock.  An action is therefore one access to shared state, and  *)
(* a loop over local data is folded into the access it prepares.           *)
(***************************************************************************)
EXTENDS Integers, Sequences, FiniteSets

CONSTANTS
  Endpoint,       \* endpoint names of the configuration
  Chain,          \* chains (namespace/network pairs)
  ChainOf,        \* the chain each endpoint serves
  ConfigWeight,   \* EndpointConfig.Weight, 0 when the file gives none
  SkipMethods,    \* the methods each endpoint does not provide
  Websocket,      \* the endpoints with a ws:// or wss:// streaming url
  Foreign,        \* endpoint names that only other processes configure
  Method,         \* RPC method names
  Height,         \* block heights the nodes report
  Handler,        \* relay goroutines
  Request,        \* what a handler may be asked: kind, chain, method, height
  Nil             \* Go's nil: no block head, no endpoint, no status

ASSUME NilAssumption == Nil \notin Nat /\ Nil \notin Endpoint

ASSUME ConfigAssumption ==
  /\ ChainOf \in [Endpoint -> Chain]
  /\ ConfigWeight \in [Endpoint -> Int]
  /\ SkipMethods \in [Endpoint -> SUBSET Method]
  /\ Websocket \subseteq Endpoint
  /\ Foreign \cap Endpoint = {}
  /\ Height \subseteq Nat

\* A configuration file lists so many endpoints and no more.
ASSUME FiniteAssumption == IsFiniteSet(Endpoint)

ASSUME RequestAssumption ==
  Request \subseteq [kind : {"relay", "ws"}, chain : Chain,
                     method : Method, heightSpec : Int]

VARIABLES
  added,       \* endpoints LoadFromConfig has passed to Add so far
  healthy,     \* Endpoint.Healthy
  blockhead,   \* the height of Endpoint.Blockhead, or Nil
  weights,     \* the array of EndpointSet.weights of each chain
  wlen,        \* the length in the slice header of EndpointSet.weights
  maxTip,      \* EndpointSet.maxTipHeight of each chain
  updPc,       \* where RunUpdator is in updateStatus
  cs,          \* the ChainStatus updateStatus works on
  wbuf,        \* the slice resetWeights is building
  todo,        \* the items resetWeights has still to visit
  hpc,         \* where each handler is in its selection
  req,         \* the request of each handler
  spec,        \* its current height spec: DefaultRelayRPC retries with -2
  height,      \* the height SelectOverHeight derived from the spec
  tbl,         \* the array it copied out of EndpointSet.weights
  cand,        \* the endpoint under examination, then the one selected
  left,        \* items the sequential scan has still to visit
  torn,        \* history: the copied length overran the copied array
  steady,      \* history: endpoints that qualified since selection began
  alive        \* history: endpoints that could serve since the request came

tableVars == <<added, healthy, blockhead, weights, wlen, maxTip>>
updVars   == <<updPc, cs, wbuf, todo>>
selVars   == <<hpc, req, spec, height, tbl, cand, left, torn>>
vars      == <<tableVars, updVars, selVars, steady, alive>>

Weight == [EpName : Endpoint, AggregateValue : Nat]
Status == [EndpointName : Endpoint \cup Foreign, Healthy : BOOLEAN,
           Blockhead : Height \cup {Nil}]

\* What fetchers publish: a healthy endpoint with its head, or one that
\* failed, without.
Published == {st \in Status : st.Healthy <=> st.Blockhead # Nil}

\* The endpoints of a chain: EndpointSet.items once the config is loaded.
Items(c) == {ep \in Endpoint : ChainOf[ep] = c}

\* The endpoints a weight table lists.
Names(t) == {t[i].EpName : i \in DOMAIN t}

-----------------------------------------------------------------------------
(* Weight tables *)

NoDefaultWeight(ep) == ConfigWeight[ep]

EffectiveWeight(ep) == IF ConfigWeight[ep] <= 0 THEN 100 ELSE ConfigWeight[ep]

WeightLimit(t) == IF Len(t) > 0 THEN t[Len(t)].AggregateValue ELSE 0

AppendWeight(t, ep) ==
  Append(t, [EpName |-> ep,
             AggregateValue |-> WeightLimit(t) + EffectiveWeight(ep)])

ClosedSearch(t, w) ==
  LET hits == {i \in DOMAIN t : t[i].AggregateValue >= w}
  IN IF w < 0 \/ hits = {} THEN Nil
     ELSE t[CHOOSE i \in hits : \A j \in hits : i <= j].EpName

\* sort.Search on an ascending table: the first entry above w.
WeightSearch(t, w) ==
  LET hits == {i \in DOMAIN t : t[i].AggregateValue > w}
  IN IF w < 0 \/ hits = {} THEN Nil
     ELSE t[CHOOSE i \in hits : \A j \in hits : i <= j].EpName

\* The endpoints WeightedRandom may draw; none when no entry is left.
WeightedRandom(t) == {WeightSearch(t, w) : w \in 0..(WeightLimit(t) - 1)}

-----------------------------------------------------------------------------
(* Availability of an endpoint for a request, in the two reads that the    *)
(* copy of the Endpoint struct makes: the health flag, then the head.      *)

AtLeast(head, h) == h > 0 => head # Nil /\ head >= h

HighEnough(ep, h) == AtLeast(blockhead[ep], h)

Provides(ep, r) ==
  /\ r.method \notin SkipMethods[ep]
  /\ r.kind = "ws" => ep \in Websocket

Available(ep, r, h) == healthy[ep] /\ HighEnough(ep, h) /\ Provides(ep, r)

\* SelectOverHeight resolves every spec up to 0 against the tip,
\* SelectWebsocketEndpoint only the negative ones.
ResolveHeight(r, s) ==
  IF s < 0 \/ (s = 0 /\ r.kind = "relay") THEN maxTip[r.chain] + s ELSE s

\* m is what resetMaxTipHeight computes for chain c from heads b.
IsTip(c, b, m) ==
  /\ m = 0 \/ \E ep \in Items(c) : b[ep] = m
  /\ \A ep \in Items(c) : b[ep] # Nil => b[ep] <= m

-----------------------------------------------------------------------------
Init ==
  /\ added = {}
  /\ healthy = [ep \in Endpoint |-> TRUE]
  /\ blockhead = [ep \in Endpoint |-> Nil]
  /\ weights = [c \in Chain |-> <<>>]
  /\ wlen = [c \in Chain |-> 0]
  /\ maxTip = [c \in Chain |-> 0]
  /\ updPc = "recv" /\ cs = Nil /\ wbuf = <<>> /\ todo = {}
  /\ hpc = [h \in Handler |-> "idle"]
  /\ req = [h \in Handler |-> Nil]
  /\ spec = [h \in Handler |-> 0]
  /\ height = [h \in Handler |-> 0]
  /\ tbl = [h \in Handler |-> <<>>]
  /\ cand = [h \in Handler |-> Nil]
  /\ left = [h \in Handler |-> {}]
  /\ torn = [h \in Handler |-> FALSE]
  /\ steady = [h \in Handler |-> {}]
  /\ alive = [h \in Handler |-> {}]

\* LoadFromConfig adds the endpoints in the order of a Go map.
Add(ep) ==
  /\ ep \notin added
  /\ added' = added \cup {ep}
  /\ weights' = [weights EXCEPT ![ChainOf[ep]] =
                   IF healthy[ep] THEN AppendWeight(@, ep) ELSE @]
  /\ wlen' = [wlen EXCEPT ![ChainOf[ep]] = IF healthy[ep] THEN @ + 1 ELSE @]
  /\ UNCHANGED <<healthy, blockhead, maxTip, updVars, selVars, steady, alive>>

Loaded == added = Endpoint

-----------------------------------------------------------------------------
(* The updator *)

\* Every write of the updator prunes the two histories; he and bh are the
\* health flags and the heads after the write.
Observe(he, bh) ==
  /\ steady' = [h \in Handler |->
       {ep \in steady[h] : he[ep] /\ AtLeast(bh[ep], height[h])}]
  /\ alive' = [h \in Handler |-> {ep \in alive[h] : he[ep]}]

\* Take the next status off the channel.
Receive(st) ==
  /\ Loaded
  /\ updPc = "recv"
  /\ cs' = st
  /\ updPc' = "begin"
  /\ UNCHANGED <<tableVars, wbuf, todo, selVars, steady, alive>>

Return ==
  /\ updPc' = "recv"
  /\ cs' = Nil

\* An endpoint this process does not know: another process publishes it.
DropUnknown ==
  /\ updPc = "begin"
  /\ cs.EndpointName \notin Endpoint
  /\ Return
  /\ UNCHANGED <<tableVars, wbuf, todo, selVars, steady, alive>>

SetHealthy ==
  /\ updPc = "begin"
  /\ cs.EndpointName \in Endpoint
  /\ LET ep == cs.EndpointName
         he == [healthy EXCEPT ![ep] = cs.Healthy]
     IN /\ healthy' = he
        /\ IF cs.Healthy # healthy[ep]
             THEN updPc' = "reset" /\ todo' = Items(ChainOf[ep])
             ELSE updPc' = "head" /\ UNCHANGED todo
        /\ Observe(he, blockhead)
  /\ UNCHANGED <<added, blockhead, weights, wlen, maxTip, cs, wbuf, selVars>>

VisitAnyItem(ep) ==
  /\ updPc = "reset"
  /\ ep \in todo
  /\ todo' = todo \ {ep}
  /\ wbuf' = AppendWeight(wbuf, ep)
  /\ UNCHANGED <<tableVars, updPc, cs, selVars, steady, alive>>

\* One iteration of resetWeights: Go visits the map in any order.
VisitItem(ep) ==
  /\ updPc = "reset"
  /\ ep \in todo
  /\ todo' = todo \ {ep}
  /\ wbuf' = IF healthy[ep] THEN AppendWeight(wbuf, ep) ELSE wbuf
  /\ UNCHANGED <<tableVars, updPc, cs, selVars, steady, alive>>

\* The end of resetWeights, epset.weights = weights, stores three words.
\* The compiler writes the length first and the array pointer, which has
\* the write barrier, last.
StoreLength ==
  /\ updPc = "reset"
  /\ todo = {}
  /\ wlen' = [wlen EXCEPT ![ChainOf[cs.EndpointName]] = Len(wbuf)]
  /\ updPc' = "store"
  /\ UNCHANGED <<added, healthy, blockhead, weights, maxTip, cs, wbuf, todo,
                 selVars, steady, alive>>

StoreArray ==
  /\ updPc = "store"
  /\ weights' = [weights EXCEPT ![ChainOf[cs.EndpointName]] = wbuf]
  /\ updPc' = "head"
  /\ wbuf' = <<>>
  /\ UNCHANGED <<added, healthy, blockhead, wlen, maxTip, cs, todo, selVars,
                 steady, alive>>

\* A status without a block head ends here.
NoBlock ==
  /\ updPc = "head"
  /\ cs.Blockhead = Nil
  /\ Return
  /\ UNCHANGED <<tableVars, wbuf, todo, selVars, steady, alive>>

NeverRetip ==
  /\ updPc = "head"
  /\ cs.Blockhead # Nil
  /\ LET ep == cs.EndpointName
         bh == [blockhead EXCEPT ![ep] = cs.Blockhead]
     IN /\ blockhead' = bh
        /\ updPc' = "tip"
        /\ Observe(healthy, bh)
  /\ UNCHANGED <<added, healthy, weights, wlen, maxTip, cs, wbuf, todo, selVars>>

\* The new head; a head below the old one asks for a new maximum.
SetBlockhead ==
  /\ updPc = "head"
  /\ cs.Blockhead # Nil
  /\ LET ep == cs.EndpointName
         bh == [blockhead EXCEPT ![ep] = cs.Blockhead]
     IN /\ blockhead' = bh
        /\ updPc' = IF /\ blockhead[ep] # Nil
                     /\ blockhead[ep] > cs.Blockhead
                    THEN "retip" ELSE "tip"
        /\ Observe(healthy, bh)
  /\ UNCHANGED <<added, healthy, weights, wlen, maxTip, cs, wbuf, todo, selVars>>

RaiseMaxTipHeight ==
  LET c == ChainOf[cs.EndpointName]
  IN /\ updPc = "tip"
     /\ maxTip' = IF maxTip[c] < cs.Blockhead
                    THEN [maxTip EXCEPT ![c] = cs.Blockhead] ELSE maxTip
     /\ Return
     /\ UNCHANGED <<added, healthy, blockhead, weights, wlen, wbuf, todo,
                    selVars, steady, alive>>

TipOfCaller ==
  LET c == ChainOf[cs.EndpointName]
  IN /\ updPc = "retip"
     /\ maxTip' = [maxTip EXCEPT ![c] = cs.Blockhead]
     /\ Return
     /\ UNCHANGED <<added, healthy, blockhead, weights, wlen, wbuf, todo,
                    selVars, steady, alive>>

\* The height maximum over all the items, healthy or not.
ResetMaxTipHeight ==
  LET c == ChainOf[cs.EndpointName]
  IN /\ updPc = "retip"
     /\ \E m \in {0} \cup {blockhead[ep] : ep \in Items(c)} :
          /\ m # Nil /\ IsTip(c, blockhead, m)
          /\ maxTip' = [maxTip EXCEPT ![c] = m]
     /\ Return
     /\ UNCHANGED <<added, healthy, blockhead, weights, wlen, wbuf, todo,
                    selVars, steady, alive>>

Updator ==
  \/ \E st \in Published : Receive(st)
  \/ DropUnknown
  \/ SetHealthy
  \/ \E ep \in Endpoint : VisitItem(ep)
  \/ StoreLength
  \/ StoreArray
  \/ NoBlock
  \/ SetBlockhead
  \/ RaiseMaxTipHeight
  \/ ResetMaxTipHeight

-----------------------------------------------------------------------------
(* Relay handlers *)

Accept(h, r) ==
  /\ Loaded
  /\ hpc[h] = "idle"
  /\ hpc' = [hpc EXCEPT ![h] = "start"]
  /\ req' = [req EXCEPT ![h] = r]
  /\ spec' = [spec EXCEPT ![h] = r.heightSpec]
  /\ alive' = [alive EXCEPT ![h] =
       {ep \in Names(weights[r.chain]) : healthy[ep] /\ Provides(ep, r)}]
  /\ UNCHANGED <<tableVars, updVars, height, tbl, cand, left, torn, steady>>

\* The selection starts by turning the spec into a height.
SelectStart(h) ==
  LET ht == ResolveHeight(req[h], spec[h])
  IN /\ hpc[h] = "start"
     /\ hpc' = [hpc EXCEPT ![h] = "pick"]
     /\ height' = [height EXCEPT ![h] = ht]
     /\ steady' = [steady EXCEPT ![h] =
          {ep \in Names(weights[req[h].chain]) : Available(ep, req[h], ht)}]
     /\ UNCHANGED <<tableVars, updVars, req, spec, tbl, cand, left, torn, alive>>

\* WeightedRandom has a value receiver: the call copies the EndpointSet
\* word by word, the array pointer before the length.
CopyArray(h) ==
  /\ hpc[h] = "pick"
  /\ hpc' = [hpc EXCEPT ![h] = "draw"]
  /\ tbl' = [tbl EXCEPT ![h] = weights[req[h].chain]]
  /\ UNCHANGED <<tableVars, updVars, req, spec, height, cand, left, torn,
                 steady, alive>>

\* The length is copied and an entry drawn.  When the length belongs to a
\* longer table than the array, the last entry is read past its end: its
\* weight and its name are whatever lies there, and a name that is not an
\* item of the chain makes MustGet panic.
Draw(h) ==
  LET n == wlen[req[h].chain]
      t == SubSeq(tbl[h], 1, n)
      all == Items(req[h].chain)
      Take(ep) == /\ cand' = [cand EXCEPT ![h] = ep]
                  /\ left' = [left EXCEPT ![h] = all]
                  /\ hpc' = [hpc EXCEPT ![h] = "health"]
      Stop(pc) == /\ hpc' = [hpc EXCEPT ![h] = pc]
                  /\ UNCHANGED <<cand, left>>
  IN /\ hpc[h] = "draw"
     /\ torn' = [torn EXCEPT ![h] = @ \/ n > Len(tbl[h])]
     /\ IF n > Len(tbl[h])
          THEN \/ \E ep \in all : Take(ep)
               \/ Stop("miss")
               \/ Stop("panic")
          ELSE IF WeightLimit(t) > 0
            THEN \E ep \in WeightedRandom(t) : Take(ep)
            ELSE Stop("miss")
     /\ tbl' = [tbl EXCEPT ![h] = <<>>]
     /\ UNCHANGED <<tableVars, updVars, req, spec, height, steady, alive>>

ReadHealthy(h) ==
  /\ hpc[h] = "health"
  /\ hpc' = [hpc EXCEPT ![h] =
       IF healthy[cand[h]] /\ Provides(cand[h], req[h]) THEN "head" ELSE "scan"]
  /\ UNCHANGED <<tableVars, updVars, req, spec, height, tbl, cand, left, torn,
                 steady, alive>>

ReadBlockhead(h) ==
  /\ hpc[h] = "head"
  /\ hpc' = [hpc EXCEPT ![h] =
       IF HighEnough(cand[h], height[h]) THEN "found" ELSE "scan"]
  /\ UNCHANGED <<tableVars, updVars, req, spec, height, tbl, cand, left, torn,
                 steady, alive>>

DrawOnce(h) ==
  /\ hpc[h] = "scan"
  /\ hpc' = [hpc EXCEPT ![h] = "miss"]
  /\ UNCHANGED <<tableVars, updVars, req, spec, height, tbl, cand, left, torn,
                 steady, alive>>

\* The sequential fallback: the items in map order, the drawn one included.
Scan(h) ==
  /\ hpc[h] = "scan"
  /\ \/ \E ep \in left[h] : /\ cand' = [cand EXCEPT ![h] = ep]
                            /\ left' = [left EXCEPT ![h] = @ \ {ep}]
                            /\ hpc' = [hpc EXCEPT ![h] = "health"]
     \/ /\ left[h] = {}
        /\ hpc' = [hpc EXCEPT ![h] = "miss"]
        /\ UNCHANGED <<cand, left>>
  /\ UNCHANGED <<tableVars, updVars, req, spec, height, tbl, torn, steady, alive>>

RetryUnchanged(h) ==
  /\ hpc[h] = "miss"
  /\ IF req[h].kind = "relay" /\ spec[h] > 0
       THEN /\ hpc' = [hpc EXCEPT ![h] = "start"]
            /\ UNCHANGED spec
       ELSE /\ hpc' = [hpc EXCEPT ![h] = "unavailable"]
            /\ UNCHANGED spec
  /\ UNCHANGED <<tableVars, updVars, req, height, tbl, cand, left, torn,
                 steady, alive>>

\* Nothing qualified: a relay over a given height is retried near the tip.
Miss(h) ==
  /\ hpc[h] = "miss"
  /\ IF req[h].kind = "relay" /\ spec[h] > 0
       THEN /\ spec' = [spec EXCEPT ![h] = -2]
            /\ hpc' = [hpc EXCEPT ![h] = "start"]
       ELSE /\ hpc' = [hpc EXCEPT ![h] = "unavailable"]
            /\ UNCHANGED spec
  /\ UNCHANGED <<tableVars, updVars, req, height, tbl, cand, left, torn,
                 steady, alive>>

\* The call to the selected node, the "not available" answer, or the
\* recovery of a panic by net/http, which drops the connection.
Answer(h) ==
  /\ hpc[h] \in {"found", "unavailable", "panic"}
  /\ hpc' = [hpc EXCEPT ![h] = "idle"]
  /\ req' = [req EXCEPT ![h] = Nil]
  /\ spec' = [spec EXCEPT ![h] = 0]
  /\ height' = [height EXCEPT ![h] = 0]
  /\ cand' = [cand EXCEPT ![h] = Nil]
  /\ left' = [left EXCEPT ![h] = {}]
  /\ torn' = [torn EXCEPT ![h] = FALSE]
  /\ steady' = [steady EXCEPT ![h] = {}]
  /\ alive' = [alive EXCEPT ![h] = {}]
  /\ UNCHANGED <<tableVars, updVars, tbl>>

Relay(h) ==
  \/ \E r \in Request : Accept(h, r)
  \/ SelectStart(h)
  \/ CopyArray(h)
  \/ Draw(h)
  \/ ReadHealthy(h)
  \/ ReadBlockhead(h)
  \/ Scan(h)
  \/ Miss(h)
  \/ Answer(h)

Next ==
  \/ \E ep \in Endpoint : Add(ep)
  \/ Updator
  \/ \E h \in Handler : Relay(h)

Spec == Init /\ [][Next]_vars

\* Go runs every runnable goroutine: a request that was taken goes on.
FairSpec ==
  Spec /\ \A h \in Handler : WF_vars(Relay(h) /\ hpc[h] # "idle")

-----------------------------------------------------------------------------
(* Properties *)

HandlerPc == {"idle", "start", "pick", "draw", "health", "head", "scan", "miss",
              "found", "unavailable", "panic"}

\* Every variable keeps the Go type it stands for.
TypeOK ==
  /\ added \subseteq Endpoint
  /\ healthy \in [Endpoint -> BOOLEAN]
  /\ blockhead \in [Endpoint -> Height \cup {Nil}]
  /\ weights \in [Chain -> Seq(Weight)]
  /\ wlen \in [Chain -> Nat]
  /\ maxTip \in [Chain -> Nat]
  /\ updPc \in {"recv", "begin", "reset", "store", "head", "tip", "retip"}
  /\ cs \in Status \cup {Nil}
  /\ wbuf \in Seq(Weight)
  /\ todo \subseteq Endpoint
  /\ hpc \in [Handler -> HandlerPc]
  /\ req \in [Handler -> Request \cup {Nil}]
  /\ spec \in [Handler -> Int]
  /\ height \in [Handler -> Int]
  /\ tbl \in [Handler -> Seq(Weight)]
  /\ cand \in [Handler -> Endpoint \cup {Nil}]
  /\ left \in [Handler -> SUBSET Endpoint]
  /\ torn \in [Handler -> BOOLEAN]
  /\ steady \in [Handler -> SUBSET Endpoint]
  /\ alive \in [Handler -> SUBSET Endpoint]

\* A table that lists each endpoint of S once, each entry above the one
\* before it by exactly the endpoint's weight.
LaysOut(t, S) ==
  /\ Names(t) = S
  /\ \A i, j \in DOMAIN t : t[i].EpName = t[j].EpName => i = j
  /\ \A i \in DOMAIN t :
       t[i].AggregateValue = EffectiveWeight(t[i].EpName)
                             + IF i = 1 THEN 0 ELSE t[i - 1].AggregateValue

\* The updator is rebuilding the table of chain c.
Rebuilding(c) == updPc \in {"reset", "store"} /\ ChainOf[cs.EndpointName] = c

\* Whatever order statuses arrive in and maps are walked in, the weight
\* table of a chain lays out exactly its healthy endpoints whenever
\* resetWeights is not running on it (appendWeights and resetWeights agree).
TableMatchesHealth ==
  \A c \in Chain :
    ~Rebuilding(c) =>
      /\ wlen[c] = Len(weights[c])
      /\ LaysOut(weights[c], {ep \in added \cap Items(c) : healthy[ep]})

\* The integers WeightedRandom can draw fall on each listed endpoint in
\* proportion to its weight, and on no one else: rand.Intn(WeightLimit())
\* followed by WeightSearch gives every endpoint exactly its share.
DrawsFollowWeights ==
  \A c \in Chain :
    LET t == weights[c]
    IN \A ep \in Endpoint :
         Cardinality({w \in 0..(WeightLimit(t) - 1) : WeightSearch(t, w) = ep})
           = IF ep \in Names(t) THEN EffectiveWeight(ep) ELSE 0

\* maxTipHeight is the highest head among the chain's endpoints after every
\* update, although a head that rises is only compared with the old maximum
\* and a full scan is made only when a head falls.
TipIsHighest ==
  \A c \in Chain :
    \/ IsTip(c, blockhead, maxTip[c])
    \/ updPc \in {"tip", "retip"} /\ ChainOf[cs.EndpointName] = c

\* The status being applied, seen as already applied: the abstract table
\* changes when the updator takes the status off its channel.
Pending == updPc # "recv" /\ cs.EndpointName \in Endpoint

SettledUp ==
  IF Pending THEN [healthy EXCEPT ![cs.EndpointName] = cs.Healthy] ELSE healthy

SettledHead ==
  IF Pending /\ cs.Blockhead # Nil
    THEN [blockhead EXCEPT ![cs.EndpointName] = cs.Blockhead] ELSE blockhead

SettledTip ==
  [c \in Chain |->
     IF Pending /\ ChainOf[cs.EndpointName] = c
       THEN CHOOSE m \in {0} \cup (Height \cap {SettledHead[ep] : ep \in Items(c)}) :
              IsTip(c, SettledHead, m)
       ELSE maxTip[c]]

SettledListed ==
  [c \in Chain |->
     IF Pending /\ ChainOf[cs.EndpointName] = c
       THEN {ep \in Items(c) : SettledUp[ep]}
       ELSE Names(weights[c])]

Table == INSTANCE EndpointStatus
           WITH known <- added, up <- SettledUp, head <- SettledHead,
                tip <- SettledTip, listed <- SettledListed

\* The steps of updateStatus, appendWeights and resetWeights implement a
\* table in which every status is applied at once: once the updator is back
\* at its channel, tip and weights are those of the abstract table.
ImplementsTable == Table!Spec

\* A selection fails only when no endpoint was listed and fit during the
\* whole of it: the weighted draw may land on an endpoint that has just
\* turned bad, and the sequential scan then finds the others even while the
\* updator rewrites the table.  Torn slice headers are the one exception.
NoSpuriousMiss ==
  \A h \in Handler : hpc[h] = "miss" /\ ~torn[h] => steady[h] = {}

\* A relay over a given height that ends in "not available" met no endpoint
\* that was listed, healthy and able to serve it since the request came.
\* DefaultRelayRPC's comment promises it: "if not find then relay to any
\* healthy endpoint".
FallbackServesHealthy ==
  \A h \in Handler :
    hpc[h] = "unavailable" /\ req[h].kind = "relay" /\ req[h].heightSpec > 0
    /\ ~torn[h]
      => alive[h] = {}

\* Every request that was taken is answered: the retry of DefaultRelayRPC
\* with -2 happens at most once and the scan visits each item once.
RequestsEnd ==
  \A h \in Handler : hpc[h] = "start" ~> hpc[h] = "idle"

\* The steps handler h has at most still to take to the end of the pass it is
\* in, which visits each of its chain's items once after the one drawn ...
StepsToMiss(h) ==
  LET n == Cardinality(Items(req[h].chain))
      l == Cardinality(left[h])
  IN [start |-> 3 * n + 6, pick |-> 3 * n + 5, draw |-> 3 * n + 4,
      health |-> 3 * l + 3, head |-> 3 * l + 2, scan |-> 3 * l + 1, miss |-> 0][hpc[h]]

\* ... and to its answer, with the pass of a retry.
StepsLeft(h) ==
  IF hpc[h] = "idle" THEN 0
  ELSE IF hpc[h] \in {"found", "unavailable", "panic"} THEN 1
  ELSE StepsToMiss(h) + 2
         + IF req[h].kind = "relay" /\ spec[h] > 0
             THEN 3 * Cardinality(Items(req[h].chain)) + 7 ELSE 0

\* A request is answered in a number of its own steps that the size of its
\* chain bounds, whatever the updator and other handlers do to the table
\* meanwhile: no update makes a selection start over.
SelectionIsBounded ==
  [][\A h \in Handler :
       hpc[h] # "idle" =>
         \/ UNCHANGED <<hpc[h], req[h], spec[h], left[h]>>
         \/ StepsLeft(h)' \in 0..(StepsLeft(h) - 1)]_vars
=============================================================================
