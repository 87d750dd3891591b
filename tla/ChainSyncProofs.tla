--------------------------- MODULE ChainSyncProofs ---------------------------
(***************************************************************************)
(* Proofs about ChainSync, for every set of endpoints, chains and heights, *)
(* every choice of adaptors and all capacities of the channels.            *)
(***************************************************************************)
EXTENDS ChainSync, SequenceTheorems, TLAPS

-----------------------------------------------------------------------------
(* The inductive invariant, in parts *)

\* The newest status about ep in the channel s is st.
Ends(s, ep, st) ==
  /\ st.EndpointName = ep
  /\ \E i \in DOMAIN s :
       /\ s[i] = st
       /\ \A j \in DOMAIN s : j > i => s[j].EndpointName # ep

\* What a fetcher holds: a status exactly while it publishes, about its own
\* endpoint; and the block it compares with is the one it publishes.
FetcherOf(ep) ==
  /\ out[ep] # Nil <=> fpc[ep] = "pub"
  /\ fpc[ep] = "pub" => out[ep] \in Status /\ out[ep].EndpointName = ep
  /\ fpc[ep] = "pub" /\ lastBlock[ep] # Nil => out[ep] = NewHead(ep, lastBlock[ep])
  /\ Subscribes(ep) => lastBlock[ep] = Nil
  /\ fpc[ep] \in {"dial", "sub", "wait"} => Subscribes(ep)

\* Before StartSync nothing runs.
StartParts == ~started => upc = "off" /\ \A ep \in Endpoint : fpc[ep] = "off"

\* The updator subscribes once, and unsubscribes only when sync is stopped.
SubParts ==
  /\ upc \in {"off", "sub"} => cmd = {} /\ ~sub
  /\ "sub" \in cmd => ~sub
  /\ upc = "done" => cancelled
  /\ "unsub" \in cmd => cancelled

\* The hub has at most one status of an endpoint in its hands, and only
\* while it has a subscriber; a snapshot is about an endpoint of its chain.
HubParts ==
  /\ sending # {} => sub
  /\ \A s, t \in sending : s.EndpointName = t.EndpointName => s = t
  /\ \A c \in Chain : snapshots[c] # Nil => ChainOf[snapshots[c].EndpointName] = c

\* WillSay without its choice of the newest status.
OnItsWay(ep, st) ==
  IF Concerns(pub, ep) THEN Ends(pub, ep, st)
  ELSE IF \E s \in InHub : s.EndpointName = ep THEN st \in InHub
  ELSE IF Concerns(upd, ep) THEN Ends(upd, ep, st)
  ELSE up[ep] = st.Healthy /\ (st.Blockhead # Nil => head[ep] = st.Blockhead)

\* The block a fetcher will not publish again is the newest of its statuses
\* in pub, whatever was missed before; and it arrives, unless missed.
SkippedOf(ep) ==
  LET st == NewHead(ep, lastBlock[ep]) IN
  lastBlock[ep] # Nil /\ out[ep] = Nil =>
    /\ Concerns(pub, ep) => Ends(pub, ep, st)
    /\ ~cancelled /\ ep \notin missed => OnItsWay(ep, st)

Parts ==
  /\ \A ep \in Endpoint : FetcherOf(ep)
  /\ StartParts /\ SubParts /\ HubParts
  /\ \A ep \in Endpoint : SkippedOf(ep)

Inv == TypeOK /\ Parts

-----------------------------------------------------------------------------
(* Channels *)

\* A status put in a channel is the newest about its endpoint, and changes
\* nothing for the others.
LEMMA EndsAppend ==
  ASSUME NEW s \in Seq(Status), NEW t \in Status, NEW ep, NEW st
  PROVE  /\ Concerns(Append(s, t), t.EndpointName)
         /\ Ends(Append(s, t), t.EndpointName, t)
         /\ ep # t.EndpointName =>
              /\ Concerns(Append(s, t), ep) <=> Concerns(s, ep)
              /\ Ends(Append(s, t), ep, st) <=> Ends(s, ep, st)
  <1> DEFINE u == Append(s, t)
  <1>1. /\ u \in Seq(Status) /\ Len(u) = Len(s) + 1 /\ Len(s) \in Nat
        /\ DOMAIN u = 1..Len(s) + 1 /\ DOMAIN s = 1..Len(s)
        /\ \A i \in 1..Len(s) : u[i] = s[i]
        /\ u[Len(s) + 1] = t
    OBVIOUS
  <1> HIDE DEF u
  <1>2. Concerns(u, t.EndpointName)  BY <1>1 DEF Concerns
  <1>3. Ends(u, t.EndpointName, t)  BY <1>1 DEF Ends
  <1>4. ASSUME ep # t.EndpointName
        PROVE  /\ Concerns(u, ep) <=> Concerns(s, ep)
               /\ Ends(u, ep, st) <=> Ends(s, ep, st)
    <2>1. Concerns(u, ep) <=> Concerns(s, ep)  BY <1>1, <1>4 DEF Concerns
    <2>2. Ends(u, ep, st) => Ends(s, ep, st)  BY <1>1, <1>4 DEF Ends
    <2>3. Ends(s, ep, st) => Ends(u, ep, st)  BY <1>1, <1>4 DEF Ends
    <2> QED  BY <2>1, <2>2, <2>3
  <1> QED  BY <1>2, <1>3, <1>4 DEF u

\* Taking the first status leaves the newest one, unless it was that one.
LEMMA EndsTail ==
  ASSUME NEW s \in Seq(Status), s # <<>>, NEW ep, NEW st
  PROVE  /\ Concerns(Tail(s), ep) => Concerns(s, ep)
         /\ Ends(s, ep, st) =>
              IF Concerns(Tail(s), ep) THEN Ends(Tail(s), ep, st) ELSE s[1] = st
         /\ s[1].EndpointName = ep => Concerns(s, ep)
         /\ s[1].EndpointName # ep => (Concerns(s, ep) => Concerns(Tail(s), ep))
         /\ s[1] \in Status
  <1> DEFINE u == Tail(s)
  <1>1. /\ Len(s) \in Nat \ {0} /\ DOMAIN s = 1..Len(s)
        /\ DOMAIN u = 1..Len(s) - 1
        /\ \A i \in 1..Len(s) - 1 : u[i] = s[i + 1]
        /\ s[1] \in Status
    OBVIOUS
  <1>2. \A i \in 2..Len(s) : i - 1 \in 1..Len(s) - 1 /\ u[i - 1] = s[i]
    BY <1>1
  <1> HIDE DEF u
  <1>3. Concerns(u, ep) => Concerns(s, ep)  BY <1>1 DEF Concerns
  <1>4. ASSUME Ends(s, ep, st)
        PROVE  IF Concerns(u, ep) THEN Ends(u, ep, st) ELSE s[1] = st
    <2>1. PICK i \in DOMAIN s : s[i] = st /\ \A j \in DOMAIN s : j > i => s[j].EndpointName # ep
      BY <1>4 DEF Ends
    <2>2. st.EndpointName = ep  BY <1>4 DEF Ends
    <2>3. CASE i = 1
      BY <1>1, <2>1, <2>3 DEF Concerns
    <2>4. CASE i # 1
      <3>1. i - 1 \in DOMAIN u /\ u[i - 1] = st  BY <1>1, <1>2, <2>1, <2>4
      <3>2. \A j \in DOMAIN u : j > i - 1 => u[j].EndpointName # ep
        BY <1>1, <2>1
      <3> QED  BY <2>2, <3>1, <3>2 DEF Ends, Concerns
    <2> QED  BY <2>3, <2>4
  <1>5. s[1].EndpointName # ep => (Concerns(s, ep) => Concerns(u, ep))
    BY <1>1, <1>2 DEF Concerns
  <1>6. s[1].EndpointName = ep => Concerns(s, ep)
    BY <1>1 DEF Concerns
  <1> QED  BY <1>1, <1>3, <1>4, <1>5, <1>6 DEF u

\* Ends names what Newest chooses.
LEMMA EndsIsNewest ==
  ASSUME NEW s \in Seq(Status), NEW ep, NEW st, Ends(s, ep, st)
  PROVE  Newest(s, ep) = st
  <1>1. PICK i \in DOMAIN s : s[i] = st /\ \A j \in DOMAIN s : j > i => s[j].EndpointName # ep
    BY DEF Ends
  <1> DEFINE Last(k) == /\ s[k].EndpointName = ep
                        /\ \A j \in DOMAIN s : s[j].EndpointName = ep => j <= k
  <1>2. Last(i)  BY <1>1 DEF Ends
  <1>3. \A k \in DOMAIN s : Last(k) => k = i  BY <1>2
  <1>4. Newest(s, ep) = s[CHOOSE k \in DOMAIN s : Last(k)]  BY DEF Newest
  <1> HIDE DEF Last
  <1> QED  BY <1>1, <1>2, <1>3, <1>4

-----------------------------------------------------------------------------
(* What the adaptors make of an answer *)

\* An adaptor has one of four ways to decode a height, and that of web3, the
\* only one with subscriptions, is the conversion that panics.
Decodes(a) ==
  /\ a.number \in {"int", "text", "checked", "list"}
  /\ a.name = "web3" => a.number = "text"

LEMMA AdaptorsDecode == \A i \in DOMAIN Adaptors : Decodes(Adaptors[i])
  <1>1. \A n, k, o, c :
          k \in {"int", "text", "checked", "list"} /\ (n # "web3" \/ k = "text") =>
            Decodes(RPC(n, k, o, c)) /\ Decodes(REST(n, k, o, c)) /\ Decodes(GraphQL(n, k, o, c))
    BY DEF Decodes, RPC, REST, GraphQL
  <1>2. Decodes(Web3) /\ Decodes(Bitcoin) /\ Decodes(Monero) /\ 
        Decodes(Filecoin) /\ Decodes(Handshake) /\ Decodes(Casper) /\ 
        Decodes(Solana) /\ Decodes(Starcoin) /\ Decodes(Conflux) /\ 
        Decodes(Polkadot) /\ Decodes(Near) /\ Decodes(Sui) /\ Decodes(EOSRPC)
    BY <1>1 DEF Web3, Bitcoin, Monero, Filecoin, Handshake, Casper, Solana, Starcoin, Conflux, Polkadot, Near, Sui, EOSRPC
  <1>3. Decodes(Ripple) /\ Decodes(Tron) /\ Decodes(EOSAPI) /\ Decodes(Cosmos) /\ 
        Decodes(Algorand) /\ Decodes(Kadena) /\ Decodes(Substrate) /\ 
        Decodes(Aptos) /\ Decodes(Fantom) /\ Decodes(Cardano) /\ Decodes(Mina)
    BY <1>1 DEF Ripple, Tron, EOSAPI, Cosmos, Algorand, Kadena, Substrate, Aptos, Fantom, Cardano, Mina
  <1>4. Len(Adaptors) = 24 /\ DOMAIN Adaptors = 1..24
    BY DEF Adaptors
  <1> QED  BY <1>2, <1>3, <1>4 DEF Adaptors

LEMMA BlockTypes ==
  ASSUME NEW a \in {Adaptors[i] : i \in DOMAIN Adaptors}, NEW raw \in Answers
  PROVE  /\ BlockOf(a, raw) \in {Nil, Down, Panic} \cup Block
         /\ a.name = "web3" => BlockOf(a, raw) \in {Down, Panic} \cup Height
         /\ a.name = "web3" /\ raw # Down => BlockOf(a, raw) \in {Panic} \cup Height
  <1>1. Decodes(a)  BY AdaptorsDecode
  <1>2. CASE raw = Empty
    BY <1>1, <1>2, BlockAssumption DEF BlockOf, Decodes, Block
  <1>3. CASE raw = Garbled
    BY <1>1, <1>3, BlockAssumption DEF BlockOf, Decodes, Block
  <1>4. CASE raw \in {Down} \cup Height
    <2>1. raw # Empty /\ raw # Garbled  BY <1>4, BlockAssumption
    <2> QED  BY <1>4, <2>1 DEF BlockOf, Block
  <1> QED  BY <1>2, <1>3, <1>4 DEF Answers

-----------------------------------------------------------------------------
(* Initially *)

LEMMA InitInv == Init => Inv
  <1> SUFFICES ASSUME Init  PROVE Inv
    OBVIOUS
  <1>1. TypeOK
    <2>1. /\ pub \in Seq(Status) /\ Len(pub) <= PubCap
          /\ upd \in Seq(Status) /\ Len(upd) <= UpdCap
      BY CapAssumption DEF Init
    <2>2. {started, crashed, cancelled, sub} \subseteq BOOLEAN
      BY DEF Init
    <2> QED  BY <2>1, <2>2 DEF Init, TypeOK
  <1>2. \A ep \in Endpoint : FetcherOf(ep)
    BY DEF Init, FetcherOf
  <1>3. StartParts /\ SubParts /\ HubParts
    BY DEF Init, StartParts, SubParts, HubParts
  <1>4. \A ep \in Endpoint : SkippedOf(ep)
    BY DEF Init, SkippedOf
  <1> QED  BY <1>1, <1>2, <1>3, <1>4 DEF Inv, Parts

-----------------------------------------------------------------------------
(* Types *)

\* The two statuses a fetcher can make.
LEMMA MadeStatus ==
  ASSUME NEW ep \in Endpoint
  PROVE  /\ Unhealthy(ep) \in Status /\ Unhealthy(ep) # Nil
         /\ Unhealthy(ep).EndpointName = ep
         /\ \A b \in Block : /\ NewHead(ep, b) \in Status /\ NewHead(ep, b) # Nil
                             /\ NewHead(ep, b).EndpointName = ep
                             /\ NewHead(ep, b).Healthy
                             /\ NewHead(ep, b).Blockhead = b /\ b # Nil
  <1>1. Unhealthy(ep) \in Status /\ Unhealthy(ep).EndpointName = ep
    BY DEF Unhealthy, Status
  <1>2. \A b \in Block : /\ NewHead(ep, b) \in Status
                         /\ NewHead(ep, b).EndpointName = ep
                         /\ NewHead(ep, b).Healthy
                         /\ NewHead(ep, b).Blockhead = b
    BY DEF NewHead, Status
  <1>3. Nil \notin Block  BY BlockAssumption DEF Block
  <1> QED  BY <1>1, <1>2, <1>3, StatusAssumption

\* What GetBlockhead returns for the adaptor of an endpoint's chain.
LEMMA AnswerTypes ==
  ASSUME TypeOK, NEW ep \in Endpoint, NEW raw \in Answers
  PROVE  LET b == BlockOf(adaptor[ChainOf[ep]], raw)
         IN /\ b \in {Nil, Down, Panic} \cup Block
            /\ Subscribes(ep) => b \in {Down, Panic} \cup Block
            /\ Subscribes(ep) /\ raw # Down => b \in {Panic} \cup Block
  <1>1. adaptor[ChainOf[ep]] \in {Adaptors[i] : i \in DOMAIN Adaptors}
    BY ChainAssumption DEF TypeOK
  <1> QED  BY <1>1, BlockTypes DEF Subscribes, Block

\* Channels carry their statuses on.
LEMMA QueueTypes ==
  ASSUME NEW s \in Seq(Status), NEW n \in Nat, Len(s) <= n
  PROVE  /\ s # <<>> => s[1] \in Status /\ Tail(s) \in Seq(Status) /\ Len(Tail(s)) <= n
         /\ \A t \in Status : Len(s) < n =>
              Append(s, t) \in Seq(Status) /\ Len(Append(s, t)) <= n
  OBVIOUS

LEMMA TypeStep == Inv /\ [Next]_vars => TypeOK'
  <1> SUFFICES ASSUME Inv, [Next]_vars  PROVE TypeOK'
    OBVIOUS
  <1>1. TypeOK /\ \A ep \in Endpoint : FetcherOf(ep)  BY DEF Inv, Parts
  <1>2. CASE UNCHANGED vars
    BY <1>1, <1>2 DEF vars, fetchVars, hubVars, updVars, tableVars, TypeOK
  <1> SUFFICES ASSUME Next  PROVE TypeOK'
    BY <1>2
  <1>3. adaptor' = adaptor  BY DEF Next
  <1>4. ASSUME StartSync \/ StopSync  PROVE TypeOK'
    BY <1>1, <1>3, <1>4 DEF StartSync, StopSync, fetchVars, hubVars, updVars, tableVars, TypeOK
  <1>5. ASSUME NEW ep \in Endpoint, CheckSyncing(ep)  PROVE TypeOK'
    BY <1>1, <1>3, <1>5 DEF CheckSyncing, hubVars, updVars, tableVars, TypeOK
  <1>6. ASSUME NEW ep \in Endpoint, NEW raw \in Answers, GetBlockhead(ep, raw)  PROVE TypeOK'
    <2> DEFINE b == BlockOf(adaptor[ChainOf[ep]], raw)
    <2>1. /\ b \in {Nil, Down, Panic} \cup Block
          /\ Subscribes(ep) => b \in {Down, Panic} \cup Block
      BY <1>1, AnswerTypes
    <2>2. /\ answer' = [answer EXCEPT ![ep] = b] /\ crashed' \in BOOLEAN
          /\ UNCHANGED <<started, cancelled, hubVars, updVars, tableVars>>
      BY <1>6 DEF GetBlockhead
    <2>3. answer' \in [Endpoint -> {Nil, Down, Panic} \cup Block]
      BY <1>1, <2>1, <2>2 DEF TypeOK
    <2>4. /\ fpc' \in [Endpoint -> {"off", "loop", "ask", "pub", "done", "dial", "sub", "wait"}]
          /\ lastBlock' \in [Endpoint -> Block \cup {Nil}]
          /\ out' \in [Endpoint -> Status \cup {Nil}]
      <3>1. CASE b = Panic
        BY <1>1, <1>6, <3>1 DEF GetBlockhead, fetchVars, TypeOK
      <3>2. CASE b # Panic /\ Subscribes(ep)
        <4>1. /\ out' = [out EXCEPT ![ep] = IF b = Down THEN Unhealthy(ep) ELSE NewHead(ep, b)]
              /\ fpc' = [fpc EXCEPT ![ep] = "pub"]
              /\ UNCHANGED lastBlock
          BY <1>6, <3>2 DEF GetBlockhead
        <4> HIDE DEF b
        <4> QED  BY <1>1, <2>1, <3>2, <4>1, MadeStatus DEF TypeOK
      <3>3. CASE b # Panic /\ ~Subscribes(ep)
        <4>1. /\ Learn(ep, b)
              /\ fpc' = [fpc EXCEPT ![ep] = IF out'[ep] = Nil THEN "loop" ELSE "pub"]
          BY <1>6, <3>3 DEF GetBlockhead
        <4> HIDE DEF b
        <4> QED  BY <1>1, <2>1, <3>3, <4>1, MadeStatus DEF Learn, TypeOK
      <3> QED  BY <3>1, <3>2, <3>3
    <2> QED  BY <1>1, <1>3, <2>2, <2>3, <2>4 DEF hubVars, updVars, tableVars, TypeOK
  <1>7. ASSUME NEW ep \in Endpoint, Publish(ep)  PROVE TypeOK'
    <2>1. out[ep] \in Status  BY <1>1, <1>7 DEF Publish, FetcherOf
    <2>2. pub' \in Seq(Status) /\ Len(pub') <= PubCap
      BY <1>1, <1>7, <2>1, QueueTypes, CapAssumption DEF Publish, TypeOK
    <2>3. AfterPublish(ep, out[ep]) \in {"loop", "sub", "dial"}  BY DEF AfterPublish
    <2> QED  BY <1>1, <1>3, <1>7, <2>2, <2>3 DEF Publish, updVars, tableVars, TypeOK
  <1>8. ASSUME NEW ep \in Endpoint, Connect(ep) \/ EthSubscribe(ep) \/ WsClose(ep)  PROVE TypeOK'
    <2>1. UNCHANGED <<started, crashed, cancelled, lastBlock, hubVars, updVars, tableVars>>
      BY <1>8 DEF Connect, EthSubscribe, WsClose
    <2>2. ConnError(ep) \/ \E pc \in {"ask", "wait", "dial"} : Goto(ep, pc)
      BY <1>8 DEF Connect, EthSubscribe, WsClose
    <2> DEFINE Typed ==
          /\ answer' \in [Endpoint -> {Nil, Down, Panic} \cup Block]
          /\ fpc' \in [Endpoint -> {"off", "loop", "ask", "pub", "done", "dial", "sub", "wait"}]
          /\ out' \in [Endpoint -> Status \cup {Nil}]
    <2>3. Typed
      <3>1. CASE ConnError(ep)
        BY <1>1, <3>1, MadeStatus DEF ConnError, TypeOK
      <3>2. ASSUME NEW pc \in {"ask", "wait", "dial"}, Goto(ep, pc)  PROVE Typed
        BY <1>1, <3>2 DEF Goto, TypeOK
      <3> QED  BY <2>2, <3>1, <3>2
    <2> QED  BY <1>1, <1>3, <2>1, <2>3 DEF hubVars, updVars, tableVars, TypeOK
  <1>9. ASSUME NEW ep \in Endpoint, NEW raw \in Answers, OnMessage(ep, raw)  PROVE TypeOK'
    <2> DEFINE b == BlockOf(adaptor[ChainOf[ep]], raw)
    <2>1. b \in {Panic} \cup Block
      BY <1>1, <1>9, AnswerTypes DEF OnMessage, FetcherOf
    <2>2. /\ answer' = [answer EXCEPT ![ep] = b] /\ crashed' \in BOOLEAN
          /\ pub' = IF b = Panic THEN pub ELSE Append(pub, NewHead(ep, b))
          /\ b # Panic => Len(pub) < PubCap
          /\ UNCHANGED <<started, cancelled, fetchVars, hpc, cmd, sub, sending, snapshots,
                         missed, updVars, tableVars>>
      BY <1>9 DEF OnMessage
    <2> HIDE DEF b
    <2>3. pub' \in Seq(Status) /\ Len(pub') <= PubCap
      BY <1>1, <2>1, <2>2, MadeStatus, QueueTypes, CapAssumption DEF TypeOK
    <2> QED  BY <1>1, <1>3, <2>1, <2>2, <2>3 DEF fetchVars, updVars, tableVars, TypeOK
  <1>10. ASSUME HubDone \/ HubSubscribe \/ HubUnsubscribe  PROVE TypeOK'
    <2>1. UNCHANGED <<answer, started, crashed, cancelled, fetchVars, pub, snapshots, missed,
                      updVars, tableVars>>
      BY <1>10 DEF HubDone, HubSubscribe, HubUnsubscribe
    <2>2. hpc' \in {"off", "select", "done"} /\ cmd' \subseteq {"sub", "unsub"} /\ sub' \in BOOLEAN
      BY <1>1, <1>10 DEF HubDone, HubSubscribe, HubUnsubscribe, TypeOK
    <2>3. sending' = sending \/ sending' = {snapshots[c] : c \in Chain} \ {Nil}
      BY <1>10 DEF HubDone, HubSubscribe, HubUnsubscribe
    <2>4. sending' \subseteq Status  BY <1>1, <2>3 DEF TypeOK
    <2> QED  BY <1>1, <1>3, <2>1, <2>2, <2>4 DEF fetchVars, updVars, tableVars, TypeOK
  <1>11. ASSUME HubTake  PROVE TypeOK'
    <2>1. pub[1] \in Status /\ pub' \in Seq(Status) /\ Len(pub') <= PubCap
      BY <1>1, <1>11, QueueTypes, CapAssumption DEF HubTake, TypeOK
    <2>2. pub[1].EndpointName \in Endpoint  BY <2>1 DEF Status
    <2>3. snapshots' \in [Chain -> Status \cup {Nil}]
      BY <1>1, <1>11, <2>1 DEF HubTake, TypeOK
    <2>4. sending' \subseteq Status
      BY <1>11, <2>1 DEF HubTake
    <2>5. missed' \subseteq Endpoint
      <3>1. ChainOf[pub[1].EndpointName] \in Chain  BY <2>2, ChainAssumption
      <3>2. snapshots[ChainOf[pub[1].EndpointName]] # Nil =>
              snapshots[ChainOf[pub[1].EndpointName]].EndpointName \in Endpoint
        BY <1>1, <3>1 DEF TypeOK, Status
      <3> QED  BY <1>1, <1>11, <3>2 DEF HubTake, TypeOK
    <2> QED  BY <1>1, <1>3, <1>11, <2>1, <2>3, <2>4, <2>5
             DEF HubTake, fetchVars, updVars, tableVars, TypeOK
  <1>12. ASSUME HubSend  PROVE TypeOK'
    <2>1. upd' \in Seq(Status) /\ Len(upd') <= UpdCap /\ sending' \subseteq Status
      BY <1>1, <1>12, QueueTypes, CapAssumption DEF HubSend, TypeOK
    <2> QED  BY <1>1, <1>3, <1>12, <2>1 DEF HubSend, fetchVars, tableVars, TypeOK
  <1>13. ASSUME Sub \/ UpdatorDone  PROVE TypeOK'
    BY <1>1, <1>3, <1>13 DEF Sub, UpdatorDone, fetchVars, tableVars, TypeOK
  <1>14. ASSUME UpdateStatus  PROVE TypeOK'
    <2>1. upd[1] \in Status /\ upd' \in Seq(Status) /\ Len(upd') <= UpdCap
      BY <1>1, <1>14, QueueTypes, CapAssumption DEF UpdateStatus, TypeOK
    <2>2. up' \in [Endpoint -> BOOLEAN] /\ head' \in [Endpoint -> Block \cup {Nil}]
      BY <1>1, <1>14, <2>1 DEF UpdateStatus, Table!Apply, Status, TypeOK
    <2> QED  BY <1>1, <1>3, <1>14, <2>1, <2>2 DEF UpdateStatus, fetchVars, hubVars, TypeOK
  <1> QED  BY <1>4, <1>5, <1>6, <1>7, <1>8, <1>9, <1>10, <1>11, <1>12, <1>13, <1>14
           DEF Next, Fetcher, Stream, Hub, Updator

-----------------------------------------------------------------------------
(* The steps of the fetchers *)

\* What is on its way to the table stays there as long as nothing moves.
LEMMA SkippedStays ==
  ASSUME NEW e \in Endpoint, SkippedOf(e),
         UNCHANGED <<pub, sending, sub, snapshots, upd, up, head, missed>>,
         lastBlock'[e] = lastBlock[e], out'[e] = out[e],
         cancelled' = cancelled \/ cancelled'
  PROVE  SkippedOf(e)'
  <1>1. \A st : OnItsWay(e, st)' <=> OnItsWay(e, st)
    BY DEF OnItsWay, InHub, Concerns, Ends
  <1>2. Concerns(pub, e)' <=> Concerns(pub, e)  BY DEF Concerns
  <1>3. \A st : Ends(pub, e, st)' <=> Ends(pub, e, st)  BY DEF Ends
  <1> QED  BY <1>1, <1>2, <1>3 DEF SkippedOf, NewHead

LEMMA FetcherStays ==
  ASSUME NEW e \in Endpoint, FetcherOf(e), adaptor' = adaptor,
         fpc'[e] = fpc[e], out'[e] = out[e], lastBlock'[e] = lastBlock[e]
  PROVE  FetcherOf(e)'
  BY DEF FetcherOf, Subscribes, NewHead

\* A step of the fetcher of ep that sends nothing.
LEMMA FetcherFrame ==
  ASSUME Inv, NEW ep \in Endpoint, fpc[ep] # "off",
         UNCHANGED <<adaptor, started, cancelled, hubVars, updVars, tableVars>>,
         \A e \in Endpoint \ {ep} :
           fpc'[e] = fpc[e] /\ out'[e] = out[e] /\ lastBlock'[e] = lastBlock[e],
         FetcherOf(ep)', SkippedOf(ep)'
  PROVE  Parts'
  <1> USE DEF hubVars, updVars, tableVars
  <1>1. \A e \in Endpoint : FetcherOf(e)'
    <2> SUFFICES ASSUME NEW e \in Endpoint, e # ep PROVE FetcherOf(e)'
      OBVIOUS
    <2>1. FetcherOf(e)  BY DEF Inv, Parts
    <2>2. fpc'[e] = fpc[e] /\ out'[e] = out[e] /\ lastBlock'[e] = lastBlock[e]
      OBVIOUS
    <2> QED  BY <2>1, <2>2, FetcherStays
  <1>2. StartParts'
    BY DEF Inv, Parts, StartParts
  <1>3. SubParts' /\ HubParts'
    BY DEF Inv, Parts, SubParts, HubParts
  <1>4. \A e \in Endpoint : SkippedOf(e)'
    BY SkippedStays DEF Inv, Parts
  <1> QED  BY <1>1, <1>2, <1>3, <1>4 DEF Parts

LEMMA CheckSyncingStep ==
  ASSUME Inv, NEW ep \in Endpoint, CheckSyncing(ep), adaptor' = adaptor
  PROVE  Parts'
  <1>1. TypeOK /\ FetcherOf(ep) /\ SkippedOf(ep)  BY DEF Inv, Parts
  <1>2. FetcherOf(ep)'
    BY <1>1 DEF CheckSyncing, FetcherOf, Subscribes, NewHead, TypeOK
  <1>3. SkippedOf(ep)'
    BY <1>1, SkippedStays DEF CheckSyncing, hubVars, updVars, tableVars
  <1> QED  BY <1>1, <1>2, <1>3, FetcherFrame DEF CheckSyncing, TypeOK

\* An answer: a block that is new is published, one that is not was known
\* before, and after an error there is no block to compare with.
LEMMA GetBlockheadStep ==
  ASSUME Inv, NEW ep \in Endpoint, NEW raw \in Answers, GetBlockhead(ep, raw),
         adaptor' = adaptor
  PROVE  Parts'
  <1> DEFINE b == BlockOf(adaptor[ChainOf[ep]], raw)
  <1>1. TypeOK /\ FetcherOf(ep) /\ SkippedOf(ep)  BY DEF Inv, Parts
  <1>2. /\ b \in {Nil, Down, Panic} \cup Block
        /\ Subscribes(ep) => b \in {Down, Panic} \cup Block
    BY <1>1, AnswerTypes
  <1>3. /\ fpc[ep] = "ask" /\ out[ep] = Nil
        /\ UNCHANGED <<adaptor, started, cancelled, hubVars, updVars, tableVars>>
    BY <1>1 DEF GetBlockhead, FetcherOf
  <1>4. CASE b = Panic
    <2>1. UNCHANGED fetchVars  BY <1>4 DEF GetBlockhead
    <2>2. FetcherOf(ep)'  BY <1>1, <2>1 DEF FetcherOf, Subscribes, NewHead, fetchVars
    <2>3. SkippedOf(ep)'
      BY <1>1, <1>3, <2>1, SkippedStays DEF hubVars, updVars, tableVars, fetchVars
    <2> QED  BY <1>3, <2>1, <2>2, <2>3, FetcherFrame DEF fetchVars
  <1>5. CASE b # Panic /\ Subscribes(ep)
    <2>1. /\ out' = [out EXCEPT ![ep] = IF b = Down THEN Unhealthy(ep) ELSE NewHead(ep, b)]
          /\ fpc' = [fpc EXCEPT ![ep] = "pub"]
          /\ UNCHANGED lastBlock
      BY <1>5 DEF GetBlockhead
    <2> HIDE DEF b
    <2>2. out'[ep] = IF b = Down THEN Unhealthy(ep) ELSE NewHead(ep, b)
      BY <1>1, <2>1 DEF TypeOK
    <2>3. out'[ep] \in Status /\ out'[ep] # Nil /\ out'[ep].EndpointName = ep
      BY <1>2, <1>5, <2>2, MadeStatus
    <2>4. FetcherOf(ep)'
      BY <1>1, <1>3, <1>5, <2>1, <2>3 DEF FetcherOf, Subscribes, TypeOK
    <2>5. SkippedOf(ep)'  BY <2>3 DEF SkippedOf
    <2> QED  BY <1>1, <1>3, <2>1, <2>4, <2>5, FetcherFrame DEF TypeOK
  <1>6. CASE b # Panic /\ ~Subscribes(ep)
    <2>1. /\ Learn(ep, b)
          /\ fpc' = [fpc EXCEPT ![ep] = IF out'[ep] = Nil THEN "loop" ELSE "pub"]
      BY <1>6 DEF GetBlockhead
    <2> HIDE DEF b
    <2>2. /\ lastBlock'[ep] = IF b = Down THEN Nil ELSE b
          /\ out'[ep] = IF b = Down THEN Unhealthy(ep)
                        ELSE IF b \in {Nil, lastBlock[ep]} THEN Nil
                        ELSE NewHead(ep, b)
          /\ fpc'[ep] = IF out'[ep] = Nil THEN "loop" ELSE "pub"
      BY <1>1, <2>1 DEF Learn, TypeOK
    <2>3. out'[ep] # Nil => out'[ep] \in Status /\ out'[ep].EndpointName = ep
      BY <1>2, <1>6, <2>2, MadeStatus
    <2>4. out'[ep] # Nil /\ lastBlock'[ep] # Nil => out'[ep] = NewHead(ep, lastBlock'[ep])
      BY <2>2
    <2>5. FetcherOf(ep)'
      BY <1>3, <1>6, <2>2, <2>3, <2>4 DEF FetcherOf, Subscribes, NewHead
    <2>6. SkippedOf(ep)'
      <3>1. CASE out'[ep] # Nil \/ lastBlock'[ep] = Nil
        BY <3>1 DEF SkippedOf
      <3>2. CASE out'[ep] = Nil /\ lastBlock'[ep] # Nil
        <4>1. b # Down /\ b # Nil
          BY <2>2, <3>2, MadeStatus
        <4>2. b = lastBlock[ep]
          BY <1>2, <1>6, <2>2, <3>2, <4>1, MadeStatus
        <4>3. lastBlock'[ep] = lastBlock[ep] /\ out'[ep] = out[ep]
          BY <1>3, <2>2, <3>2, <4>1, <4>2
        <4> QED  BY <1>1, <1>3, <4>3, SkippedStays DEF hubVars, updVars, tableVars
      <3> QED  BY <3>1, <3>2
    <2> QED  BY <1>1, <1>3, <2>1, <2>5, <2>6, FetcherFrame DEF Learn, TypeOK
  <1> QED  BY <1>4, <1>5, <1>6

\* The connection of a subscription comes and goes.
LEMMA ConnectionStep ==
  ASSUME Inv, NEW ep \in Endpoint, Connect(ep) \/ EthSubscribe(ep) \/ WsClose(ep),
         adaptor' = adaptor
  PROVE  Parts'
  <1>1. TypeOK /\ FetcherOf(ep) /\ SkippedOf(ep)  BY DEF Inv, Parts
  <1>2. /\ fpc[ep] \in {"dial", "sub", "wait"}
        /\ UNCHANGED <<started, cancelled, lastBlock, hubVars, updVars, tableVars>>
    BY DEF Connect, EthSubscribe, WsClose
  <1>3. Subscribes(ep) /\ lastBlock[ep] = Nil /\ out[ep] = Nil
    BY <1>1, <1>2 DEF FetcherOf
  <1>4. SkippedOf(ep)'
    BY <1>2, <1>3 DEF SkippedOf
  <1>5. CASE ConnError(ep)
    <2>1. fpc' = [fpc EXCEPT ![ep] = "pub"] /\ out' = [out EXCEPT ![ep] = Unhealthy(ep)]
      BY <1>5 DEF ConnError
    <2>2. FetcherOf(ep)'
      BY <1>1, <1>2, <1>3, <2>1, MadeStatus DEF FetcherOf, Subscribes, TypeOK
    <2> QED  BY <1>1, <1>2, <1>4, <2>1, <2>2, FetcherFrame DEF TypeOK
  <1>6. ASSUME NEW pc \in {"ask", "wait", "dial"}, Goto(ep, pc)  PROVE Parts'
    <2>1. fpc' = [fpc EXCEPT ![ep] = pc] /\ out' = out
      BY <1>6 DEF Goto
    <2>2. FetcherOf(ep)'
      BY <1>1, <1>2, <1>3, <2>1 DEF FetcherOf, Subscribes, TypeOK
    <2> QED  BY <1>1, <1>2, <1>4, <2>1, <2>2, FetcherFrame DEF TypeOK
  <1> QED  BY <1>5, <1>6 DEF Connect, EthSubscribe, WsClose

\* A status enters pub: the newest of its endpoint, nothing to the others.
LEMMA SkippedSent ==
  ASSUME NEW e \in Endpoint, SkippedOf(e), pub \in Seq(Status),
         NEW t \in Status, pub' = Append(pub, t), t.EndpointName # e,
         UNCHANGED <<sending, sub, snapshots, upd, up, head, missed, cancelled>>,
         lastBlock'[e] = lastBlock[e], out'[e] = out[e]
  PROVE  SkippedOf(e)'
  <1>1. /\ Concerns(pub', e) <=> Concerns(pub, e)
        /\ \A st : Ends(pub', e, st) <=> Ends(pub, e, st)
    BY EndsAppend
  <1>2. \A st : OnItsWay(e, st)' <=> OnItsWay(e, st)
    BY <1>1 DEF OnItsWay, InHub
  <1> QED  BY <1>1, <1>2 DEF SkippedOf, NewHead

LEMMA PublishStep ==
  ASSUME Inv, NEW ep \in Endpoint, Publish(ep), adaptor' = adaptor
  PROVE  Parts'
  <1>1. TypeOK /\ FetcherOf(ep) /\ \A e \in Endpoint : SkippedOf(e)  BY DEF Inv, Parts
  <1> DEFINE st == out[ep]
  <1>2. /\ fpc[ep] = "pub" /\ st \in Status /\ st.EndpointName = ep
        /\ pub' = Append(pub, st) /\ out'[ep] = Nil
        /\ fpc'[ep] = AfterPublish(ep, st)
        /\ \A e \in Endpoint \ {ep} : out'[e] = out[e] /\ fpc'[e] = fpc[e]
        /\ UNCHANGED <<started, cancelled, lastBlock, hpc, cmd, sub, sending, snapshots, missed,
                       updVars, tableVars>>
    BY <1>1 DEF Publish, FetcherOf, TypeOK
  <1>3. FetcherOf(ep)'
    <2>1. fpc'[ep] \in {"loop", "sub", "dial"} /\ (fpc'[ep] # "loop" => Subscribes(ep))
      BY <1>2 DEF AfterPublish
    <2> QED  BY <1>1, <1>2, <2>1 DEF FetcherOf, Subscribes
  <1>4. \A e \in Endpoint : FetcherOf(e)'
    BY <1>2, <1>3, FetcherStays DEF Inv, Parts
  <1>5. SkippedOf(ep)'
    <2> SUFFICES ASSUME lastBlock'[ep] # Nil
                 PROVE  /\ Concerns(pub', ep)
                        /\ Ends(pub', ep, NewHead(ep, lastBlock'[ep]))
      BY DEF SkippedOf, OnItsWay
    <2>1. st = NewHead(ep, lastBlock'[ep])
      BY <1>1, <1>2 DEF FetcherOf
    <2> QED  BY <1>1, <1>2, <2>1, EndsAppend DEF TypeOK
  <1>6. ASSUME NEW e \in Endpoint, e # ep  PROVE SkippedOf(e)'
    BY <1>1, <1>2, <1>6, SkippedSent DEF TypeOK, updVars, tableVars
  <1>7. StartParts' /\ SubParts' /\ HubParts'
    BY <1>1, <1>2 DEF Inv, Parts, StartParts, SubParts, HubParts, updVars
  <1> QED  BY <1>4, <1>5, <1>6, <1>7 DEF Parts

\* The reader of a subscription publishes; its endpoint compares nothing.
LEMMA OnMessageStep ==
  ASSUME Inv, NEW ep \in Endpoint, NEW raw \in Answers, OnMessage(ep, raw),
         adaptor' = adaptor
  PROVE  Parts'
  <1> DEFINE b == BlockOf(adaptor[ChainOf[ep]], raw)
  <1>1. TypeOK /\ FetcherOf(ep) /\ \A e \in Endpoint : SkippedOf(e)  BY DEF Inv, Parts
  <1>2. Subscribes(ep) /\ lastBlock[ep] = Nil
    BY <1>1 DEF OnMessage, FetcherOf
  <1>3. b \in {Panic} \cup Block
    BY <1>1, <1>2, AnswerTypes DEF OnMessage
  <1>4. /\ pub' = IF b = Panic THEN pub ELSE Append(pub, NewHead(ep, b))
        /\ UNCHANGED <<started, cancelled, fetchVars, hpc, cmd, sub, sending, snapshots, missed,
                       updVars, tableVars>>
    BY DEF OnMessage
  <1> HIDE DEF b
  <1>5. \A e \in Endpoint : FetcherOf(e)'
    BY <1>4, FetcherStays DEF Inv, Parts, fetchVars
  <1>6. \A e \in Endpoint : SkippedOf(e)'
    <2>1. SkippedOf(ep)'  BY <1>2, <1>4 DEF SkippedOf, fetchVars
    <2>2. CASE b = Panic
      BY <1>1, <1>4, <2>2, SkippedStays DEF fetchVars, updVars, tableVars
    <2>3. ASSUME b # Panic, NEW e \in Endpoint, e # ep  PROVE SkippedOf(e)'
      <3>1. NewHead(ep, b) \in Status /\ NewHead(ep, b).EndpointName = ep
        BY <1>3, <2>3, MadeStatus
      <3> QED  BY <1>1, <1>4, <2>3, <3>1, SkippedSent DEF TypeOK, fetchVars, updVars, tableVars
    <2> QED  BY <2>1, <2>2, <2>3
  <1>7. StartParts' /\ SubParts' /\ HubParts'
    BY <1>4 DEF Inv, Parts, StartParts, SubParts, HubParts, fetchVars, updVars
  <1> QED  BY <1>5, <1>6, <1>7 DEF Parts

-----------------------------------------------------------------------------
(* The steps of the hub *)

\* The fetchers are where they were, for the steps of the others.
LEMMA FetchersStay ==
  ASSUME Inv, UNCHANGED <<adaptor, started, fetchVars>>
  PROVE  \A e \in Endpoint : FetcherOf(e)'
  BY FetcherStays DEF Inv, Parts, fetchVars

\* For the steps of the hub and the updator it is enough to follow one
\* status about an endpoint.
LEMMA SkippedMoves ==
  ASSUME NEW e \in Endpoint, SkippedOf(e),
         UNCHANGED <<lastBlock, out, cancelled>>,
         \A st :
           /\ st.EndpointName = e
           /\ Concerns(pub, e) => Ends(pub, e, st)
           /\ ~cancelled /\ e \notin missed => OnItsWay(e, st)
           => /\ Concerns(pub', e) => Ends(pub', e, st)
              /\ ~cancelled /\ e \notin missed' => OnItsWay(e, st)'
  PROVE  SkippedOf(e)'
  <1>1. \A b : NewHead(e, b).EndpointName = e  BY DEF NewHead
  <1> QED  BY <1>1 DEF SkippedOf, NewHead

LEMMA HubDoneStep ==
  ASSUME Inv, HubDone \/ HubUnsubscribe, adaptor' = adaptor
  PROVE  Parts'
  <1>1. \A e \in Endpoint : FetcherOf(e)'
    BY FetchersStay DEF HubDone, HubUnsubscribe
  <1>2. StartParts' /\ SubParts' /\ HubParts'
    BY DEF HubDone, HubUnsubscribe, HubReady, Inv, Parts, StartParts, SubParts, HubParts,
           fetchVars, updVars
  <1>3. cancelled'
    BY DEF HubDone, HubUnsubscribe, Inv, Parts, SubParts
  <1>4. UNCHANGED <<pub, lastBlock, out>>
    BY DEF HubDone, HubUnsubscribe, fetchVars
  <1>5. \A e \in Endpoint : SkippedOf(e)'
    BY <1>3, <1>4, SkippedMoves DEF Inv, Parts, HubDone, HubUnsubscribe
  <1> QED  BY <1>1, <1>2, <1>5 DEF Parts

\* The snapshots go to the new subscriber: they were on their way before.
LEMMA HubSubscribeStep ==
  ASSUME Inv, HubSubscribe, adaptor' = adaptor
  PROVE  Parts'
  <1>1. \A e \in Endpoint : FetcherOf(e)'
    BY FetchersStay DEF HubSubscribe
  <1>2. ~sub /\ sub' /\ sending = {} /\ sending' = {snapshots[c] : c \in Chain} \ {Nil}
    BY DEF HubSubscribe, HubReady, Inv, Parts, SubParts
  <1>3. UNCHANGED <<started, cancelled, lastBlock, out, fpc, pub, hpc, snapshots, missed,
                    updVars, tableVars>>
    BY DEF HubSubscribe, fetchVars
  <1>4. StartParts' /\ SubParts'
    BY <1>2, <1>3 DEF HubSubscribe, Inv, Parts, StartParts, SubParts, updVars
  <1>5. HubParts'
    BY <1>2, <1>3 DEF Inv, Parts, HubParts
  <1>6. InHub' = InHub
    BY <1>2, <1>3 DEF InHub
  <1>7. \A e, st : OnItsWay(e, st)' <=> OnItsWay(e, st)
    BY <1>3, <1>6 DEF OnItsWay, Concerns, Ends, updVars, tableVars
  <1>8. \A e \in Endpoint : SkippedOf(e)'
    <2>1. ASSUME NEW e \in Endpoint, NEW st,
                 Concerns(pub, e) => Ends(pub, e, st),
                 ~cancelled /\ e \notin missed => OnItsWay(e, st)
          PROVE  /\ Concerns(pub', e) => Ends(pub', e, st)
                 /\ ~cancelled /\ e \notin missed' => OnItsWay(e, st)'
      BY <1>3, <1>7, <2>1
    <2> QED  BY <1>3, <2>1, SkippedMoves DEF Inv, Parts
  <1> QED  BY <1>1, <1>4, <1>5, <1>8 DEF Parts

\* The first status of pub comes into the hub's hands, or becomes the
\* snapshot of its chain; the endpoint whose snapshot it replaces is missed.
LEMMA HubTakeStep ==
  ASSUME Inv, HubTake, adaptor' = adaptor
  PROVE  Parts'
  <1> DEFINE t == pub[1]
             c == ChainOf[t.EndpointName]
             old == snapshots[c]
  <1>1. TypeOK /\ HubParts  BY DEF Inv, Parts
  <1>2. /\ sending = {} /\ pub # <<>> /\ pub' = Tail(pub)
        /\ snapshots' = [snapshots EXCEPT ![c] = t]
        /\ sending' = IF sub THEN {t} ELSE {}
        /\ missed' = (missed \ {t.EndpointName}) \cup
             (IF ~sub /\ old # Nil THEN {old.EndpointName} \ {t.EndpointName} ELSE {})
        /\ UNCHANGED <<started, cancelled, fetchVars, hpc, cmd, sub, updVars, tableVars>>
    BY DEF HubTake, HubReady
  <1>3. t \in Status /\ t.EndpointName \in Endpoint /\ c \in Chain /\ t # Nil
    BY <1>1, <1>2, ChainAssumption, StatusAssumption, EndsTail DEF TypeOK, Status
  <1>4. \A e \in Endpoint : FetcherOf(e)'
    BY <1>2, FetchersStay
  <1>5. snapshots'[c] = t /\ \A d \in Chain : d # c => snapshots'[d] = snapshots[d]
    BY <1>1, <1>2, <1>3 DEF TypeOK
  <1> HIDE DEF t
  <1>6. StartParts' /\ SubParts'
    BY <1>2 DEF Inv, Parts, StartParts, SubParts, fetchVars, updVars
  <1>7. HubParts'
    BY <1>1, <1>2, <1>5 DEF HubParts
  <1>8. ASSUME NEW e \in Endpoint, NEW st, st.EndpointName = e,
               Concerns(pub, e) => Ends(pub, e, st),
               ~cancelled /\ e \notin missed => OnItsWay(e, st)
        PROVE  /\ Concerns(pub', e) => Ends(pub', e, st)
               /\ ~cancelled /\ e \notin missed' => OnItsWay(e, st)'
    <2>2. /\ Concerns(pub', e) => Concerns(pub, e)
          /\ Ends(pub, e, st) =>
               IF Concerns(pub', e) THEN Ends(pub', e, st) ELSE t = st
          /\ t.EndpointName = e => Concerns(pub, e)
          /\ t.EndpointName # e => (Concerns(pub, e) => Concerns(pub', e))
      BY <1>1, <1>2, EndsTail DEF TypeOK, t
    <2>3. Concerns(pub', e) => Ends(pub', e, st)
      BY <1>8, <2>2
    <2>4. ASSUME ~cancelled, e \notin missed', ~Concerns(pub', e)
          PROVE  OnItsWay(e, st)'
      <3>1. CASE t.EndpointName = e
        <4>1. t = st  BY <1>8, <2>2, <2>4, <3>1
        <4>2. t \in InHub'
          BY <1>2, <1>3, <1>5 DEF InHub
        <4> QED  BY <2>4, <3>1, <4>1, <4>2 DEF OnItsWay
      <3>2. CASE t.EndpointName # e
        <4>1. e \notin missed /\ ~Concerns(pub, e)
          BY <1>2, <2>2, <2>4, <3>2
        <4>2. ~sub /\ old # Nil => old.EndpointName # e
          BY <1>2, <2>4, <3>2
        <4>3. \A s : s.EndpointName = e => (s \in InHub' <=> s \in InHub)
          <5>1. CASE sub
            BY <1>2, <3>2, <5>1 DEF InHub
          <5>2. CASE ~sub
            <6>1. InHub = {snapshots[d] : d \in Chain} \ {Nil}
              BY <1>2, <5>2 DEF InHub
            <6>2. InHub' = {snapshots'[d] : d \in Chain} \ {Nil}
              BY <1>2, <5>2 DEF InHub
            <6>3. \A s : s.EndpointName = e /\ s \in InHub' => s \in InHub
              BY <1>5, <3>2, <6>1, <6>2
            <6>4. \A s : s.EndpointName = e /\ s \in InHub => s \in InHub'
              BY <1>5, <4>2, <5>2, <6>1, <6>2
            <6> QED  BY <6>3, <6>4
          <5> QED  BY <5>1, <5>2
        <4>5. OnItsWay(e, st)  BY <1>8, <2>4, <4>1
        <4>6. /\ Concerns(upd, e)' <=> Concerns(upd, e)
              /\ Ends(upd, e, st)' <=> Ends(upd, e, st)
              /\ UNCHANGED <<up, head>>
          BY <1>2 DEF Concerns, Ends, updVars, tableVars
        <4> QED  BY <2>4, <1>8, <4>1, <4>3, <4>5, <4>6 DEF OnItsWay
      <3> QED  BY <3>1, <3>2
    <2>5. Concerns(pub', e) /\ ~cancelled /\ e \notin missed' => OnItsWay(e, st)'
      BY <2>3 DEF OnItsWay
    <2> QED  BY <2>3, <2>4, <2>5
  <1>9. \A e \in Endpoint : SkippedOf(e)'
    BY <1>2, <1>8, SkippedMoves DEF Inv, Parts, fetchVars
  <1> QED  BY <1>4, <1>6, <1>7, <1>9 DEF Parts

\* A status passes from the hub's hands to the updator's channel: it was the
\* only one of its endpoint there.
LEMMA HubSendStep ==
  ASSUME Inv, HubSend, adaptor' = adaptor
  PROVE  Parts'
  <1>1. TypeOK /\ HubParts  BY DEF Inv, Parts
  <1>2. PICK t \in sending : upd' = Append(upd, t) /\ sending' = sending \ {t}
    BY DEF HubSend
  <1>3. UNCHANGED <<started, cancelled, fetchVars, pub, hpc, cmd, sub, snapshots, missed, upc,
                    tableVars>>
    BY DEF HubSend
  <1>4. \A e \in Endpoint : FetcherOf(e)'
    BY <1>3, FetchersStay
  <1>5. StartParts' /\ SubParts' /\ HubParts'
    BY <1>1, <1>2, <1>3 DEF Inv, Parts, StartParts, SubParts, HubParts, fetchVars
  <1>6. sub /\ InHub = sending /\ InHub' = sending \ {t} /\ t \in Status
    BY <1>1, <1>2, <1>3 DEF HubParts, InHub, TypeOK
  <1>7. ASSUME NEW e \in Endpoint, NEW st, st.EndpointName = e, OnItsWay(e, st)
        PROVE  OnItsWay(e, st)'
    <2>1. Concerns(pub, e)' <=> Concerns(pub, e)  BY <1>3 DEF Concerns
    <2>2. Ends(pub, e, st)' <=> Ends(pub, e, st)  BY <1>3 DEF Ends
    <2>3. CASE Concerns(pub, e)
      BY <1>7, <2>1, <2>2, <2>3 DEF OnItsWay
    <2>4. CASE ~Concerns(pub, e) /\ t.EndpointName = e
      <3>1. st = t
        BY <1>1, <1>2, <1>6, <1>7, <2>4 DEF OnItsWay, HubParts
      <3>2. ~\E s \in InHub' : s.EndpointName = e
        BY <1>1, <1>2, <1>6, <2>4 DEF HubParts
      <3>3. Concerns(upd', e) /\ Ends(upd', e, st)
        BY <1>1, <1>2, <1>6, <2>4, <3>1, EndsAppend DEF TypeOK
      <3> QED  BY <2>1, <2>4, <3>2, <3>3 DEF OnItsWay
    <2>5. CASE ~Concerns(pub, e) /\ t.EndpointName # e
      <3>1. \A s : s.EndpointName = e => (s \in InHub' <=> s \in InHub)
        BY <1>6, <2>5
      <3>2. /\ Concerns(upd', e) <=> Concerns(upd, e)
            /\ Ends(upd', e, st) <=> Ends(upd, e, st)
        BY <1>1, <1>2, <1>6, <2>5, EndsAppend DEF TypeOK
      <3> QED  BY <1>3, <1>7, <2>1, <2>5, <3>1, <3>2 DEF OnItsWay, tableVars
    <2> QED  BY <2>3, <2>4, <2>5
  <1>8. \A e \in Endpoint : SkippedOf(e)'
    BY <1>3, <1>7, SkippedMoves DEF Inv, Parts, fetchVars
  <1> QED  BY <1>4, <1>5, <1>8 DEF Parts

-----------------------------------------------------------------------------
(* The steps of the updator, StartSync and StopSync *)

LEMMA UpdateStatusStep ==
  ASSUME Inv, UpdateStatus, adaptor' = adaptor
  PROVE  Parts'
  <1> DEFINE t == upd[1]
  <1>1. TypeOK  BY DEF Inv
  <1>2. /\ upd # <<>> /\ upd' = Tail(upd)
        /\ up' = [up EXCEPT ![t.EndpointName] = t.Healthy]
        /\ head' = IF t.Blockhead = Nil THEN head
                   ELSE [head EXCEPT ![t.EndpointName] = t.Blockhead]
        /\ UNCHANGED <<started, cancelled, fetchVars, hubVars, upc>>
    BY DEF UpdateStatus, Table!Apply
  <1>3. t \in Status /\ t.EndpointName \in Endpoint
    BY <1>1, <1>2, EndsTail DEF TypeOK, Status
  <1>4. \A e \in Endpoint : FetcherOf(e)'
    BY <1>2, FetchersStay
  <1>5. StartParts' /\ SubParts' /\ HubParts'
    BY <1>2 DEF Inv, Parts, StartParts, SubParts, HubParts, fetchVars, hubVars
  <1>6. ASSUME NEW e \in Endpoint, NEW st, st.EndpointName = e, OnItsWay(e, st)
        PROVE  OnItsWay(e, st)'
    <2>1. /\ Concerns(pub, e)' <=> Concerns(pub, e)
          /\ Ends(pub, e, st)' <=> Ends(pub, e, st)
          /\ InHub' = InHub
      BY <1>2 DEF Concerns, Ends, InHub, hubVars
    <2>2. CASE Concerns(pub, e) \/ \E s \in InHub : s.EndpointName = e
      BY <1>6, <2>1, <2>2 DEF OnItsWay
    <2>3. CASE ~(Concerns(pub, e) \/ \E s \in InHub : s.EndpointName = e)
      <3>1. /\ Concerns(upd', e) => Concerns(upd, e)
            /\ Ends(upd, e, st) =>
                 IF Concerns(upd', e) THEN Ends(upd', e, st) ELSE t = st
            /\ t.EndpointName = e => Concerns(upd, e)
            /\ t.EndpointName # e => (Concerns(upd, e) => Concerns(upd', e))
        BY <1>1, <1>2, EndsTail DEF TypeOK
      <3> HIDE DEF t
      <3>2. CASE Concerns(upd', e)
        BY <1>6, <2>1, <2>3, <3>1, <3>2 DEF OnItsWay
      <3>3. CASE ~Concerns(upd', e) /\ t.EndpointName = e
        <4>1. t = st  BY <1>6, <2>3, <3>1, <3>3 DEF OnItsWay
        <4>2. up'[e] = st.Healthy /\ (st.Blockhead # Nil => head'[e] = st.Blockhead)
          BY <1>1, <1>2, <1>6, <4>1 DEF TypeOK
        <4> QED  BY <2>1, <2>3, <3>3, <4>2 DEF OnItsWay
      <3>4. CASE ~Concerns(upd', e) /\ t.EndpointName # e
        <4>1. up'[e] = up[e] /\ head'[e] = head[e]
          BY <1>1, <1>2, <1>3, <3>4 DEF TypeOK
        <4> QED  BY <1>6, <2>1, <2>3, <3>1, <3>4, <4>1 DEF OnItsWay
      <3> QED  BY <3>2, <3>3, <3>4
    <2> QED  BY <2>2, <2>3
  <1>7. \A e \in Endpoint : SkippedOf(e)'
    BY <1>2, <1>6, SkippedMoves DEF Inv, Parts, fetchVars, hubVars
  <1> QED  BY <1>4, <1>5, <1>7 DEF Parts

LEMMA ControlStep ==
  ASSUME Inv, StartSync \/ StopSync \/ Sub \/ UpdatorDone, adaptor' = adaptor
  PROVE  Parts'
  <1>1. UNCHANGED <<lastBlock, out, pub, sub, sending, snapshots, missed, upd, tableVars>>
    BY DEF StartSync, StopSync, Sub, UpdatorDone, fetchVars, hubVars, updVars
  <1>2. cancelled' = cancelled \/ cancelled'
    BY DEF StartSync, StopSync, Sub, UpdatorDone
  <1>3. \A e \in Endpoint : SkippedOf(e)'
    BY <1>1, <1>2, SkippedStays DEF Inv, Parts, tableVars
  <1>4. \A e \in Endpoint : FetcherOf(e)'
    <2>1. CASE StartSync
      <3> SUFFICES ASSUME NEW e \in Endpoint  PROVE FetcherOf(e)'
        OBVIOUS
      <3>1. FetcherOf(e) /\ fpc[e] = "off"
        BY <2>1 DEF Inv, Parts, StartSync, StartParts
      <3>2. fpc'[e] = IF Subscribes(e) THEN "dial" ELSE "loop"
        BY <2>1 DEF StartSync
      <3> QED  BY <1>1, <3>1, <3>2 DEF FetcherOf, Subscribes
    <2>2. CASE StopSync \/ Sub \/ UpdatorDone
      <3>1. UNCHANGED <<started, fetchVars>>
        BY <2>2 DEF StopSync, Sub, UpdatorDone
      <3> QED  BY <3>1, FetchersStay
    <2> QED  BY <2>1, <2>2
  <1>5. StartParts'
    BY DEF StartSync, StopSync, Sub, UpdatorDone, Inv, Parts, StartParts, fetchVars, updVars
  <1>6. SubParts'
    BY DEF StartSync, StopSync, Sub, UpdatorDone, Inv, Parts, StartParts, SubParts,
           hubVars, updVars
  <1>7. HubParts'
    BY <1>1 DEF Inv, Parts, HubParts
  <1> QED  BY <1>3, <1>4, <1>5, <1>6, <1>7 DEF Parts

-----------------------------------------------------------------------------
(* The theorems *)

LEMMA NextInv == Inv /\ [Next]_vars => Inv'
  <1> SUFFICES ASSUME Inv, [Next]_vars  PROVE Parts'
    BY TypeStep DEF Inv
  <1>1. CASE UNCHANGED vars
    <2>1. UNCHANGED <<adaptor, started, cancelled, fetchVars, hubVars, updVars, tableVars>>
      BY <1>1 DEF vars
    <2>2. \A e \in Endpoint : FetcherOf(e)'  BY <2>1, FetchersStay
    <2>3. \A e \in Endpoint : SkippedOf(e)'
      BY <2>1, SkippedStays DEF Inv, Parts, fetchVars, hubVars, updVars, tableVars
    <2>4. StartParts' /\ SubParts' /\ HubParts'
      BY <2>1 DEF Inv, Parts, StartParts, SubParts, HubParts, fetchVars, hubVars, updVars
    <2> QED  BY <2>2, <2>3, <2>4 DEF Parts
  <1>2. CASE Next
    <2>1. adaptor' = adaptor  BY <1>2 DEF Next
    <2>2. CASE StartSync \/ StopSync \/ Updator
      BY <2>1, <2>2, ControlStep, UpdateStatusStep DEF Updator
    <2>3. ASSUME NEW ep \in Endpoint, Fetcher(ep) \/ Stream(ep)  PROVE Parts'
      BY <2>1, <2>3, CheckSyncingStep, GetBlockheadStep, PublishStep, ConnectionStep,
         OnMessageStep DEF Fetcher, Stream
    <2>4. CASE Hub
      BY <2>1, <2>4, HubDoneStep, HubSubscribeStep, HubTakeStep, HubSendStep DEF Hub
    <2> QED  BY <1>2, <2>2, <2>3, <2>4 DEF Next
  <1> QED  BY <1>1, <1>2

\* Inv holds in every reachable state.
THEOREM Invariance == Spec => []Inv
  BY InitInv, NextInv, PTL DEF Spec

\* Channels keep their capacities and only well-formed statuses and blocks
\* travel, whatever the nodes answer and whatever the adaptors make of it.
THEOREM TypeCorrect == Spec => []TypeOK
  <1>1. Inv => TypeOK  BY DEF Inv
  <1> QED  BY Invariance, <1>1, PTL

\* syncEndpoint may skip a block equal to the last one: whatever channels it
\* still has to pass, that block is the newest of its endpoint under way or
\* in the table, unless its status was overwritten in a snapshot that nobody
\* had subscribed to yet.
THEOREM SkippingIsSafe == Spec => []SkippedBlockIsKnown
  <1>1. Inv => SkippedBlockIsKnown
    <2> SUFFICES ASSUME Inv, NEW ep \in Endpoint, lastBlock[ep] # Nil, out[ep] = Nil,
                        ~cancelled, ep \notin missed
                 PROVE  WillSay(ep, NewHead(ep, lastBlock[ep]))
      BY DEF SkippedBlockIsKnown
    <2>1. OnItsWay(ep, NewHead(ep, lastBlock[ep]))
      BY DEF Inv, Parts, SkippedOf
    <2>2. pub \in Seq(Status) /\ upd \in Seq(Status)
      BY DEF Inv, TypeOK
    <2> QED  BY <2>1, <2>2, EndsIsNewest DEF OnItsWay, WillSay
  <1> QED  BY Invariance, <1>1, PTL
=============================================================================
