------------------------------ MODULE ChainSync ------------------------------
(***************************************************************************)
(* How the statuses of the nodes reach the endpoint table when nodemux     *)
(* runs without redis: one fetcher goroutine per endpoint (core/fetch.go), *)
(* or, for a web3 endpoint with a streaming url, a websocket subscription  *)
(* (chains/web3.go), the memory chain hub (core/memory_chain_hub.go) and   *)
(* the updator (core/sync.go), joined by the bounded channels pub and upd. *)
(*                                                                         *)
(* A channel is a sequence; a send waits until there is room.  The hub     *)
(* blocks inside a send, so it does not read pub while upd is full.  Go's  *)
(* select takes any ready case: a goroutine whose context is cancelled may *)
(* still work on its channels before it notices.                           *)
(***************************************************************************)
EXTENDS Adaptors

CONSTANTS
  Endpoint, Chain, ChainOf,
  Delegator,  \* the adaptors a chain may have
  Websocket,  \* the endpoints with a streaming url
  Height,     \* blocks a node may report, told apart by their height
  PubCap,     \* capacity of MemoryChainhub.pub (100 in the code)
  UpdCap      \* capacity of the updator's channel (1000 in the code)

ASSUME CapAssumption == PubCap \in Nat \ {0} /\ UpdCap \in Nat \ {0}
ASSUME BlockAssumption ==
  /\ Height \subseteq Nat
  /\ {Nil, Down, Empty, Garbled, Panic} \cap Nat = {}
  /\ Nil \notin {Down, Panic} /\ Panic # Down
  /\ Empty \notin {Down, Garbled} /\ Garbled # Down
ASSUME ChainAssumption ==
  /\ ChainOf \in [Endpoint -> Chain]
  /\ Delegator \subseteq {Adaptors[i] : i \in DOMAIN Adaptors}
ASSUME WebsocketAssumption == Websocket \subseteq Endpoint

VARIABLES
  adaptor,     \* what GetBlockheadDelegator returns for each chain
  answer,      \* what each node answered last: a block, Nil, Down or Panic
  started,     \* StartSync has been called
  crashed,     \* a goroutine panicked and took the process with it
  cancelled,   \* StopSync: cancelSync is nil and the context is done
  fpc,         \* where each fetcher is
  lastBlock,   \* syncEndpoint's lastBlock
  out,         \* the status a fetcher is about to publish
  pub,         \* MemoryChainhub.pub
  hpc,         \* where the hub is: its select, or returned
  cmd,         \* the commands waiting in cmdSub and cmdUnsub
  sub,         \* the updator's channel is in MemoryChainhub.subs
  sending,     \* statuses the hub is sending to its subscriber
  snapshots,   \* MemoryChainhub.snapshots: the last status of each chain
  upd,         \* the updator's channel
  upc,         \* where the updator is
  known, up, head, tip, listed,   \* the endpoint table, as EndpointStatus
  missed       \* history: endpoints whose newest status was overwritten
               \* in snapshots before anyone had subscribed

Table == INSTANCE EndpointStatus

tableVars == <<known, up, head, tip, listed>>
fetchVars == <<fpc, lastBlock, out>>
hubVars   == <<pub, hpc, cmd, sub, sending, snapshots, missed>>
updVars   == <<upd, upc>>
vars      == <<adaptor, answer, started, crashed, cancelled, fetchVars, hubVars, updVars, tableVars>>

Block  == Height \cup {0}
Status == [EndpointName : Endpoint, Healthy : BOOLEAN, Blockhead : Block \cup {Nil}]

ASSUME StatusAssumption == Nil \notin Status

Unhealthy(ep)  == [EndpointName |-> ep, Healthy |-> FALSE, Blockhead |-> Nil]
NewHead(ep, b) == [EndpointName |-> ep, Healthy |-> TRUE, Blockhead |-> b]

Init ==
  /\ adaptor \in [Chain -> Delegator]
  /\ answer = [ep \in Endpoint |-> Nil]
  /\ started = FALSE /\ cancelled = FALSE /\ crashed = FALSE
  /\ fpc = [ep \in Endpoint |-> "off"]
  /\ lastBlock = [ep \in Endpoint |-> Nil]
  /\ out = [ep \in Endpoint |-> Nil]
  /\ pub = <<>> /\ hpc = "off" /\ cmd = {} /\ sub = FALSE
  /\ sending = {} /\ snapshots = [c \in Chain |-> Nil] /\ missed = {}
  /\ upd = <<>> /\ upc = "off"
  /\ known = Endpoint
  /\ up = [ep \in Endpoint |-> TRUE]
  /\ head = [ep \in Endpoint |-> Nil]
  /\ tip = [c \in Chain |-> 0]
  /\ listed = [c \in Chain |-> {ep \in Endpoint : ChainOf[ep] = c}]

-----------------------------------------------------------------------------
\* StartSync of a web3 endpoint with a websocket (web3.go) starts the
\* subscription and tells syncEndpoint to end.
Subscribes(ep) == ep \in Websocket /\ adaptor[ChainOf[ep]].name = "web3"

StartSync ==
  /\ ~started
  /\ started' = TRUE
  /\ hpc' = "select"
  /\ upc' = "sub"
  /\ fpc' = [ep \in Endpoint |-> IF Subscribes(ep) THEN "dial" ELSE "loop"]
  /\ UNCHANGED <<answer, crashed, cancelled, lastBlock, out, pub, cmd, sub, sending,
                 snapshots, missed, upd, tableVars>>

StopSync ==
  /\ started /\ ~cancelled
  /\ cancelled' = TRUE
  /\ UNCHANGED <<answer, started, crashed, fetchVars, hubVars, updVars, tableVars>>

-----------------------------------------------------------------------------
(* syncEndpoint *)

\* The top of the loop, at the start or after the sleep: m.Syncing().  The
\* sleep's other case, the context's end, leads to the same exit.
CheckSyncing(ep) ==
  /\ fpc[ep] = "loop"
  /\ fpc' = [fpc EXCEPT ![ep] = IF cancelled THEN "done" ELSE "ask"]
  /\ UNCHANGED <<answer, started, crashed, cancelled, lastBlock, out, hubVars, updVars,
                 tableVars>>

LearnKeepingLast(ep, b) ==
  /\ lastBlock' = [lastBlock EXCEPT ![ep] = IF b = Down THEN @ ELSE b]
  /\ out' = [out EXCEPT ![ep] =
       IF b = Down THEN Unhealthy(ep)
       ELSE IF b \in {Nil, lastBlock[ep]} THEN Nil
       ELSE NewHead(ep, b)]

SilentError(ep, b) ==
  /\ lastBlock' = [lastBlock EXCEPT ![ep] = IF b = Down THEN Nil ELSE b]
  /\ out' = [out EXCEPT ![ep] =
       IF b \in {Nil, Down, lastBlock[ep]} THEN Nil ELSE NewHead(ep, b)]

\* getBlockhead learns b, an error when b is Down: what to publish, and the
\* block the next round compares with.
Learn(ep, b) ==
  /\ lastBlock' = [lastBlock EXCEPT ![ep] = IF b = Down THEN Nil ELSE b]
  /\ out' = [out EXCEPT ![ep] =
       IF b = Down THEN Unhealthy(ep)
       ELSE IF b \in {Nil, lastBlock[ep]} THEN Nil
       ELSE NewHead(ep, b)]

\* The call to the node, which may answer anything; it fails when the
\* context is cancelled.  A panic of the adaptor ends the process.
GetBlockhead(ep, raw) ==
  LET b == BlockOf(adaptor[ChainOf[ep]], raw) IN
  /\ fpc[ep] = "ask"
  /\ cancelled => b = Down
  /\ answer' = [answer EXCEPT ![ep] = b]
  /\ crashed' = (b = Panic)
  /\ IF b = Panic
     THEN UNCHANGED fetchVars
     ELSE IF Subscribes(ep)
     THEN /\ out' = [out EXCEPT ![ep] = IF b = Down THEN Unhealthy(ep) ELSE NewHead(ep, b)]
          /\ fpc' = [fpc EXCEPT ![ep] = "pub"]
          /\ UNCHANGED lastBlock
     ELSE /\ Learn(ep, b)
          /\ fpc' = [fpc EXCEPT ![ep] = IF out'[ep] = Nil THEN "loop" ELSE "pub"]
  /\ UNCHANGED <<started, cancelled, hubVars, updVars, tableVars>>

\* Where a goroutine goes on once it has published st.
AfterPublish(ep, st) ==
  IF ~Subscribes(ep) THEN "loop" ELSE IF st.Healthy THEN "sub" ELSE "dial"

PublishUnbounded(ep) ==
  /\ fpc[ep] = "pub"
  /\ pub' = Append(pub, out[ep])
  /\ out' = [out EXCEPT ![ep] = Nil]
  /\ fpc' = [fpc EXCEPT ![ep] = AfterPublish(ep, out[ep])]
  /\ UNCHANGED <<answer, started, crashed, cancelled, lastBlock, hpc, cmd, sub, sending,
                 snapshots, missed, updVars, tableVars>>

\* m.chainHub.Pub() <- bs
Publish(ep) ==
  /\ fpc[ep] = "pub"
  /\ Len(pub) < PubCap
  /\ pub' = Append(pub, out[ep])
  /\ out' = [out EXCEPT ![ep] = Nil]
  /\ fpc' = [fpc EXCEPT ![ep] = AfterPublish(ep, out[ep])]
  /\ UNCHANGED <<answer, started, crashed, cancelled, lastBlock, hpc, cmd, sub, sending,
                 snapshots, missed, updVars, tableVars>>

-----------------------------------------------------------------------------
(* Web3Chain.subscribeBlockhead and connectAndSub.  The loop does not look *)
(* at its context; only the calls fail once it is cancelled.               *)

\* The connection cannot be made or ends with an error: unhealthy, retry.
ConnError(ep) ==
  /\ answer' = [answer EXCEPT ![ep] = Down]
  /\ out' = [out EXCEPT ![ep] = Unhealthy(ep)]
  /\ fpc' = [fpc EXCEPT ![ep] = "pub"]

Goto(ep, pc) == fpc' = [fpc EXCEPT ![ep] = pc] /\ UNCHANGED <<answer, out>>

\* wsClient.Connect, then GetBlockhead over http.
Connect(ep) ==
  /\ fpc[ep] = "dial"
  /\ ConnError(ep) \/ (~cancelled /\ Goto(ep, "ask"))
  /\ UNCHANGED <<started, crashed, cancelled, lastBlock, hubVars, updVars, tableVars>>

\* eth_subscribe; its token is kept until connectAndSub returns.
EthSubscribe(ep) ==
  /\ fpc[ep] = "sub"
  /\ ConnError(ep) \/ (~cancelled /\ Goto(ep, "wait"))
  /\ UNCHANGED <<started, crashed, cancelled, lastBlock, hubVars, updVars, tableVars>>

\* An eth_subscription message with the current token, published by the
\* reader of the connection: it waits for room in pub and reads no further.
OnMessage(ep, raw) ==
  LET b == BlockOf(adaptor[ChainOf[ep]], raw) IN
  /\ fpc[ep] = "wait" /\ raw # Down
  /\ b # Panic => Len(pub) < PubCap
  /\ answer' = [answer EXCEPT ![ep] = b]
  /\ crashed' = (b = Panic)
  /\ pub' = IF b = Panic THEN pub ELSE Append(pub, NewHead(ep, b))
  /\ UNCHANGED <<started, cancelled, fetchVars, hpc, cmd, sub, sending, snapshots,
                 missed, updVars, tableVars>>

\* wsClient.Wait returns, with an error or without.
WsClose(ep) ==
  /\ fpc[ep] = "wait"
  /\ ConnError(ep) \/ Goto(ep, "dial")
  /\ UNCHANGED <<started, crashed, cancelled, lastBlock, hubVars, updVars, tableVars>>

-----------------------------------------------------------------------------
(* MemoryChainhub.Run *)

HubReady == hpc = "select" /\ sending = {}

HubDone ==
  /\ HubReady /\ cancelled
  /\ hpc' = "done"
  /\ UNCHANGED <<answer, started, crashed, cancelled, fetchVars, pub, cmd, sub, sending,
                 snapshots, missed, updVars, tableVars>>

SubscribeOnly ==
  /\ HubReady /\ "sub" \in cmd
  /\ cmd' = cmd \ {"sub"}
  /\ sub' = TRUE
  /\ UNCHANGED <<answer, started, crashed, cancelled, fetchVars, pub, hpc, sending,
                 snapshots, missed, updVars, tableVars>>

\* subscribe: the snapshots of all chains are sent to the new subscriber.
HubSubscribe ==
  /\ HubReady /\ "sub" \in cmd
  /\ cmd' = cmd \ {"sub"}
  /\ sub' = TRUE
  /\ sending' = {snapshots[c] : c \in Chain} \ {Nil}
  /\ UNCHANGED <<answer, started, crashed, cancelled, fetchVars, pub, hpc, snapshots,
                 missed, updVars, tableVars>>

HubUnsubscribe ==
  /\ HubReady /\ "unsub" \in cmd
  /\ cmd' = cmd \ {"unsub"}
  /\ sub' = FALSE
  /\ UNCHANGED <<answer, started, crashed, cancelled, fetchVars, pub, hpc, sending,
                 snapshots, missed, updVars, tableVars>>

\* A status: kept as the snapshot of its chain, and sent to the subscriber.
HubTake ==
  /\ HubReady /\ pub # <<>>
  /\ LET st == pub[1]
         c == ChainOf[st.EndpointName]
         old == snapshots[c]
     IN /\ pub' = Tail(pub)
        /\ snapshots' = [snapshots EXCEPT ![c] = st]
        /\ sending' = IF sub THEN {st} ELSE {}
        /\ missed' = (missed \ {st.EndpointName}) \cup
             (IF ~sub /\ old # Nil THEN {old.EndpointName} \ {st.EndpointName} ELSE {})
  /\ UNCHANGED <<answer, started, crashed, cancelled, fetchVars, hpc, cmd, sub, updVars,
                 tableVars>>

\* ch <- chainSt: the hub waits until the subscriber's channel has room.
HubSend ==
  /\ hpc = "select" /\ Len(upd) < UpdCap
  /\ \E st \in sending : /\ upd' = Append(upd, st)
                          /\ sending' = sending \ {st}
  /\ UNCHANGED <<answer, started, crashed, cancelled, fetchVars, pub, hpc, cmd, sub,
                 snapshots, missed, upc, tableVars>>

-----------------------------------------------------------------------------
(* RunUpdator *)

Sub ==
  /\ upc = "sub"
  /\ cmd' = cmd \cup {"sub"}
  /\ upc' = "run"
  /\ UNCHANGED <<answer, started, crashed, cancelled, fetchVars, pub, hpc, sub, sending,
                 snapshots, missed, upd, tableVars>>

UpdateStatus ==
  /\ upc = "run" /\ upd # <<>>
  /\ LET st == upd[1] IN Table!Apply(st.EndpointName, st.Healthy, st.Blockhead)
  /\ upd' = Tail(upd)
  /\ UNCHANGED <<answer, started, crashed, cancelled, fetchVars, hubVars, upc>>

\* The context is done: the deferred Unsub, then the goroutine ends.
UpdatorDone ==
  /\ upc = "run" /\ cancelled
  /\ upc' = "done"
  /\ cmd' = cmd \cup {"unsub"}
  /\ UNCHANGED <<answer, started, crashed, cancelled, fetchVars, pub, hpc, sub, sending,
                 snapshots, missed, upd, tableVars>>

-----------------------------------------------------------------------------
Answers == {Down, Empty, Garbled} \cup Height

Fetcher(ep) ==
  \/ CheckSyncing(ep)
  \/ \E raw \in Answers : GetBlockhead(ep, raw)
  \/ Publish(ep)
  \/ Connect(ep) \/ EthSubscribe(ep)

\* What the node does on an open websocket.
Stream(ep) == WsClose(ep) \/ \E raw \in Answers : OnMessage(ep, raw)

Hub == HubDone \/ HubSubscribe \/ HubUnsubscribe \/ HubTake \/ HubSend

Updator == Sub \/ UpdateStatus \/ UpdatorDone

Next ==
  /\ ~crashed /\ UNCHANGED adaptor
  /\ \/ StartSync
     \/ StopSync
     \/ \E ep \in Endpoint : Fetcher(ep) \/ Stream(ep)
     \/ Hub
     \/ Updator

Spec == Init /\ [][Next]_vars

\* Go runs every runnable goroutine; StartSync is called when the program
\* starts.  A full channel queues its senders, so each one gets its turn:
\* strong fairness for Publish.
Alive(A) == ~crashed /\ UNCHANGED adaptor /\ A

SyncFairness ==
  /\ WF_vars(Alive(StartSync))
  /\ \A ep \in Endpoint :
       /\ WF_vars(Alive(Fetcher(ep) /\ fpc[ep] # "pub"))
       /\ SF_vars(Alive(Publish(ep)))
  /\ WF_vars(Alive(HubSubscribe)) /\ WF_vars(Alive(HubTake)) /\ WF_vars(Alive(HubSend))
  /\ WF_vars(Alive(Sub)) /\ WF_vars(Alive(UpdateStatus))

\* The program while it keeps syncing.
SyncingSpec == Init /\ [][Next /\ ~cancelled']_vars /\ SyncFairness

\* With StopSync.  select picks among its ready cases at random, so the
\* case of the ended context is not passed over for ever.
FairSpec == Spec /\ SyncFairness /\ SF_vars(Alive(HubDone)) /\ SF_vars(Alive(UpdatorDone))

-----------------------------------------------------------------------------
(* Properties *)

\* Every variable keeps the Go type it stands for; channels keep their
\* capacity.
TypeOK ==
  /\ adaptor \in [Chain -> Delegator]
  /\ answer \in [Endpoint -> {Nil, Down, Panic} \cup Block]
  /\ {started, crashed, cancelled, sub} \subseteq BOOLEAN
  /\ fpc \in [Endpoint -> {"off", "loop", "ask", "pub", "done", "dial", "sub", "wait"}]
  /\ lastBlock \in [Endpoint -> Block \cup {Nil}]
  /\ out \in [Endpoint -> Status \cup {Nil}]
  /\ pub \in Seq(Status) /\ Len(pub) <= PubCap
  /\ upd \in Seq(Status) /\ Len(upd) <= UpdCap
  /\ hpc \in {"off", "select", "done"}
  /\ upc \in {"off", "sub", "run", "done"}
  /\ cmd \subseteq {"sub", "unsub"}
  /\ sending \subseteq Status
  /\ snapshots \in [Chain -> Status \cup {Nil}]
  /\ missed \subseteq Endpoint
  /\ up \in [Endpoint -> BOOLEAN]
  /\ head \in [Endpoint -> Block \cup {Nil}]

\* The newest status of ep in a channel, oldest first.
Concerns(s, ep) == \E i \in DOMAIN s : s[i].EndpointName = ep
Newest(s, ep) ==
  s[CHOOSE i \in DOMAIN s :
      /\ s[i].EndpointName = ep
      /\ \A j \in DOMAIN s : s[j].EndpointName = ep => j <= i]

\* The statuses between pub and upd: in the hub's hands, or kept as a
\* snapshot for the subscriber to come.
InHub == sending \cup (IF sub THEN {} ELSE {snapshots[c] : c \in Chain} \ {Nil})

\* What the table says, or will say once all that is under way has arrived.
WillSay(ep, st) ==
  IF Concerns(pub, ep) THEN Newest(pub, ep) = st
  ELSE IF \E s \in InHub : s.EndpointName = ep THEN st \in InHub
  ELSE IF Concerns(upd, ep) THEN Newest(upd, ep) = st
  ELSE up[ep] = st.Healthy /\ (st.Blockhead # Nil => head[ep] = st.Blockhead)

\* syncEndpoint does not publish a block equal to lastBlock.  That is safe:
\* while syncing, that block is in the table or on its way, and nothing
\* older is behind it - except for an endpoint whose status was overwritten
\* in the per-chain snapshot before the updator's Sub was served.
SkippedBlockIsKnown ==
  \A ep \in Endpoint :
    /\ lastBlock[ep] # Nil /\ out[ep] = Nil
    /\ ~cancelled /\ ep \notin missed
    => WillSay(ep, NewHead(ep, lastBlock[ep]))

\* If a node's answer settles on a block while syncing goes on, polled or
\* announced over the websocket, its endpoint settles on healthy with that
\* head, unless its status was overwritten before the subscription and it
\* has had no other since.
Converges ==
  \A ep \in Endpoint, b \in Block :
    <>[](answer[ep] = b /\ ~cancelled /\ ~crashed)
      => <>[](up[ep] /\ head[ep] = b) \/ <>[](ep \in missed)

\* If a node stops answering for good while syncing goes on, its endpoint
\* stays unhealthy from some time on, and is no longer listed: by the
\* fetcher's errors, or by the failing reconnections of a subscription.
DeadNodeIsDropped ==
  \A ep \in Endpoint :
    <>[](answer[ep] = Down /\ fpc[ep] # "wait" /\ ~cancelled /\ ~crashed)
      => <>[](~up[ep] /\ ep \notin listed[ChainOf[ep]])

\* cancelSync is "the function to cancel sync functions": after StopSync
\* every goroutine that StartSync has started ends.
StopEndsSync ==
  cancelled ~> /\ hpc = "done" /\ upc = "done"
               /\ \A ep \in Endpoint : fpc[ep] = "done"
=============================================================================
