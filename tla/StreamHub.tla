------------------------------ MODULE StreamHub ------------------------------
(***************************************************************************)
(* The chain hub over a redis stream (core/redis_stream_chain_hub.go), by  *)
(* which several nodemux processes share the statuses of their endpoints.  *)
(* A process runs two goroutines on it: Run, which publishes and serves    *)
(* subscriptions, and listen, which follows the stream.  Both send to the  *)
(* updator's channel.                                                      *)
(*                                                                         *)
(* An entry of the stream is told apart by its id, its place in log; all   *)
(* that matters of its status is the endpoint it is about.  The table of a *)
(* process is the id of the status it applied last for each endpoint.      *)
(***************************************************************************)
EXTENDS Integers, Sequences, FiniteSets

CONSTANTS
  Process,      \* Multiplexer instances that use the same redis
  Endpoint,
  PubCap,       \* capacity of RedisStreamChainhub.pub (100 in the code)
  UpdCap,       \* capacity of the updator's channel (1000)
  MaxLen,       \* length redis keeps the stream at (1000)
  SnapLen,      \* entries a new subscription reads (100)
  BatchLen,     \* entries listen reads at once (10)
  FailureLimit, \* consecutive network failures Run puts up with (30)
  MaxEntries,   \* bound of the model: entries ever added
  MaxFaults     \* bound of the model: commands redis does not answer

ASSUME StreamAssumption ==
  /\ {PubCap, UpdCap, BatchLen} \subseteq Nat \ {0}
  /\ SnapLen \in 1..MaxLen /\ MaxLen \in Nat
  /\ FailureLimit \in Nat /\ MaxEntries \in Nat /\ MaxFaults \in Nat

VARIABLES
  log,     \* log[i]: the endpoint of entry i; the last MaxLen are in the stream
  hub,     \* the hub of each process, with its updator
  faults,  \* commands that failed so far
  lost     \* history: endpoints of which a process missed the newest entry

vars == <<log, hub, faults, lost>>

Off == [alive |-> FALSE, cancelled |-> FALSE,
        pub |-> <<>>, cmd |-> {}, sub |-> FALSE,
        run |-> "off",        \* Run: "select", "snapshot", "send" or ended
        snapshot |-> <<>>,    \* what subscribe still has to send
        read |-> -1,          \* history: newest entry when subscribe read
        failure |-> 0,        \* networkFailure
        listen |-> "off", lastID |-> 0,
        batch |-> <<>>,       \* what listen still has to send
        upd |-> <<>>, updator |-> "off",
        table |-> [ep \in Endpoint |-> 0]]

Init ==
  /\ log = <<>> /\ faults = 0
  /\ hub = [p \in Process |-> Off]
  /\ lost = [p \in Process |-> {}]

Ids == DOMAIN log
\* The newest entry about ep, 0 if there is none.
NewestOf(ep) == LET is == {i \in Ids : log[i] = ep}
                IN IF is = {} THEN 0 ELSE CHOOSE i \in is : \A j \in is : j <= i
InStream(i) == i > Len(log) - MaxLen
\* The entries strictly between two places, by endpoint.
NewestBetween(a, b) == {ep \in Endpoint : a < NewestOf(ep) /\ NewestOf(ep) < b}

-----------------------------------------------------------------------------
\* The process (re)starts: StartSync, and the updator's Sub.
Start(p) ==
  /\ ~hub[p].alive
  /\ hub' = [hub EXCEPT ![p] = [Off EXCEPT !.alive = TRUE, !.run = "select",
               !.listen = "read", !.updator = "run", !.cmd = {"sub"}]]
  /\ lost' = [lost EXCEPT ![p] = {}]
  /\ UNCHANGED <<log, faults>>

StopSync(p) ==
  /\ hub[p].alive /\ ~hub[p].cancelled
  /\ hub' = [hub EXCEPT ![p].cancelled = TRUE]
  /\ UNCHANGED <<log, faults, lost>>

FetchUnbounded(p, ep) ==
  /\ hub[p].alive
  /\ Len(log) < MaxEntries
  /\ hub' = [hub EXCEPT ![p].pub = Append(@, ep)]
  /\ UNCHANGED <<log, faults, lost>>

\* A fetcher has a status to publish; a cancelled one, that its call failed.
Fetch(p, ep) ==
  /\ hub[p].alive /\ Len(hub[p].pub) < PubCap
  /\ Len(log) < MaxEntries
  /\ hub' = [hub EXCEPT ![p].pub = Append(@, ep)]
  /\ UNCHANGED <<log, faults, lost>>

-----------------------------------------------------------------------------
(* Run *)

Selects(p) == hub[p].alive /\ hub[p].run = "select"

HubDone(p) ==
  /\ Selects(p) /\ hub[p].cancelled
  /\ hub' = [hub EXCEPT ![p].run = "done"]
  /\ UNCHANGED <<log, faults, lost>>

\* handleRedisError on a failure.  A network failure counts, and beyond the
\* limit Run returns it; any other error it returns at once, also the
\* context's, with which every command fails after StopSync.  What Run
\* returns makes StartSync panic.
Failed(p, h) ==
  LET panicked == [Off EXCEPT !.run = "panic", !.cancelled = h.cancelled] IN
  \/ /\ h.cancelled
     /\ hub' = [hub EXCEPT ![p] = panicked]
     /\ UNCHANGED faults
  \/ /\ ~h.cancelled /\ faults < MaxFaults
     /\ faults' = faults + 1
     /\ \/ hub' = [hub EXCEPT ![p] = panicked]
        \/ /\ h.failure < FailureLimit
           /\ hub' = [hub EXCEPT ![p] = [h EXCEPT !.failure = @ + 1, !.run = "select"]]

\* The XADD of publishChainStatus, and the trimming with it.
XAdd(p) ==
  /\ Selects(p) /\ hub[p].pub # <<>> /\ ~hub[p].cancelled
  /\ Len(log) < MaxEntries
  /\ log' = Append(log, hub[p].pub[1])
  /\ hub' = [hub EXCEPT ![p].pub = Tail(@), ![p].failure = 0]
  /\ UNCHANGED <<faults, lost>>

\* A process outside Process adds an entry to the same stream.
XAddElsewhere(ep) ==
  /\ Len(log) < MaxEntries
  /\ log' = Append(log, ep)
  /\ UNCHANGED <<hub, faults, lost>>

\* It fails: the status is gone from pub and is not tried again, though
\* redis may have added it before the answer was lost.
XAddFailed(p) ==
  /\ Selects(p) /\ hub[p].pub # <<>>
  /\ Failed(p, [hub[p] EXCEPT !.pub = Tail(@)])
  /\ \/ UNCHANGED log
     \/ Len(log) < MaxEntries /\ ~hub[p].cancelled /\ log' = Append(log, hub[p].pub[1])
  /\ UNCHANGED lost

SubscribeOutside(p) ==
  /\ Selects(p) /\ "sub" \in hub[p].cmd
  /\ hub' = [hub EXCEPT ![p].cmd = @ \ {"sub"}, ![p].run = "snapshot"]
  /\ UNCHANGED <<log, faults, lost>>

\* subscribe adds the channel to subs before it reads.
Subscribe(p) ==
  /\ Selects(p) /\ "sub" \in hub[p].cmd
  /\ hub' = [hub EXCEPT ![p].cmd = @ \ {"sub"}, ![p].sub = TRUE, ![p].run = "snapshot"]
  /\ UNCHANGED <<log, faults, lost>>

Unsubscribe(p) ==
  /\ Selects(p) /\ "unsub" \in hub[p].cmd
  /\ hub' = [hub EXCEPT ![p].cmd = @ \ {"unsub"}, ![p].sub = FALSE]
  /\ UNCHANGED <<log, faults, lost>>

LastEntries(n) == {i \in Ids : i > Len(log) - n}

FirstOfEach(is) == {i \in is : \A j \in is : log[j] = log[i] => i <= j}

\* The entries subscribe keeps: the first it meets of each endpoint, going
\* back from the newest.
LastOfEach(is) == {i \in is : \A j \in is : log[j] = log[i] => j <= i}

\* A set of entries, newest first.
Backwards(is) ==
  CHOOSE s \in [1..Cardinality(is) -> is] : \A k, l \in DOMAIN s : k < l => s[k] > s[l]

Snapshot(p) ==
  /\ hub[p].alive /\ hub[p].run = "snapshot" /\ ~hub[p].cancelled
  /\ LET s == Backwards(LastOfEach(LastEntries(SnapLen)))
     IN hub' = [hub EXCEPT ![p].snapshot = s, ![p].read = Len(log), ![p].failure = 0,
                           ![p].run = IF s = <<>> THEN "select" ELSE "send"]
  /\ lost' = [lost EXCEPT ![p] = @ \cup NewestBetween(0, Len(log) - SnapLen + 1)]
  /\ UNCHANGED <<log, faults>>

\* XREVRANGE fails: the channel stays subscribed and gets no snapshot.
SnapshotFailed(p) ==
  /\ hub[p].alive /\ hub[p].run = "snapshot"
  /\ Failed(p, [hub[p] EXCEPT !.read = Len(log)])
  /\ lost' = [lost EXCEPT ![p] = @ \cup NewestBetween(0, Len(log) + 1)]
  /\ UNCHANGED log

Latest(p, ep) ==
  LET is == {hub[p].table[ep]} \cup {i \in {hub[p].upd[k] : k \in DOMAIN hub[p].upd} : log[i] = ep}
  IN CHOOSE i \in is : \A j \in is : j <= i

\* ch <- chainSt in subscribe; it may come after what listen sent since.
SendSnapshot(p) ==
  LET i == hub[p].snapshot[1] IN
  /\ hub[p].alive /\ hub[p].run = "send" /\ Len(hub[p].upd) < UpdCap
  /\ hub' = [hub EXCEPT ![p].upd = Append(@, i), ![p].snapshot = Tail(@),
               ![p].run = IF Len(hub[p].snapshot) = 1 THEN "select" ELSE "send"]
  /\ lost' = [lost EXCEPT ![p] =
       @ \cup {ep \in {log[i]} : i < Latest(p, ep)}]
  /\ UNCHANGED <<log, faults>>

-----------------------------------------------------------------------------
(* listen *)

\* At first the last entry alone, then up to BatchLen entries after lastID.
NextBatch(p) ==
  IF hub[p].lastID = 0 THEN LastEntries(1)
  ELSE LET after == {i \in Ids : i > hub[p].lastID /\ InStream(i)}
       IN {i \in after : Cardinality({j \in after : j < i}) < BatchLen}

Forwards(is) ==
  CHOOSE s \in [1..Cardinality(is) -> is] : \A k, l \in DOMAIN s : k < l => s[k] < s[l]

\* What lies between the last entry this process took and the batch is
\* passed over: after a first read that came later than the snapshot, or
\* when the stream has been trimmed.
Read(p) ==
  LET is == NextBatch(p)
      from == IF hub[p].lastID = 0 THEN hub[p].read ELSE hub[p].lastID
  IN /\ hub[p].alive /\ hub[p].listen = "read" /\ ~hub[p].cancelled
     /\ is # {}
     /\ hub' = [hub EXCEPT ![p].batch = Forwards(is), ![p].listen = "send"]
     /\ lost' = [lost EXCEPT ![p] = @ \cup
          (IF from = -1 THEN {} ELSE NewestBetween(from, Forwards(is)[1]))]
     /\ UNCHANGED <<log, faults>>

\* The first error, the context's included, ends listen; Run does not notice.
ReadFailed(p) ==
  /\ hub[p].alive /\ hub[p].listen = "read"
  /\ hub[p].cancelled \/ faults < MaxFaults
  /\ faults' = IF hub[p].cancelled THEN faults ELSE faults + 1
  /\ hub' = [hub EXCEPT ![p].listen = "done"]
  /\ UNCHANGED <<log, lost>>

\* One entry of the batch goes to the subscriber, if there is one.
Deliver(p) ==
  LET i == hub[p].batch[1] IN
  /\ hub[p].alive /\ hub[p].listen = "send"
  /\ hub[p].sub => Len(hub[p].upd) < UpdCap
  /\ hub' = [hub EXCEPT ![p].lastID = i, ![p].batch = Tail(@),
               ![p].listen = IF Len(hub[p].batch) = 1 THEN "read" ELSE "send",
               ![p].upd = IF hub[p].sub THEN Append(@, i) ELSE @]
  /\ lost' = [lost EXCEPT ![p] = IF hub[p].sub THEN @ \ {log[i]} ELSE @]
  /\ UNCHANGED <<log, faults>>

-----------------------------------------------------------------------------
(* RunUpdator *)

UpdateStatus(p) ==
  /\ hub[p].alive /\ hub[p].updator = "run" /\ hub[p].upd # <<>>
  /\ LET i == hub[p].upd[1]
     IN hub' = [hub EXCEPT ![p].upd = Tail(@), ![p].table[log[i]] = i]
  /\ UNCHANGED <<log, faults, lost>>

UpdatorDone(p) ==
  /\ hub[p].alive /\ hub[p].updator = "run" /\ hub[p].cancelled
  /\ hub' = [hub EXCEPT ![p].updator = "done", ![p].cmd = @ \cup {"unsub"}]
  /\ UNCHANGED <<log, faults, lost>>

-----------------------------------------------------------------------------
Run(p) ==
  \/ HubDone(p) \/ XAdd(p) \/ XAddFailed(p) \/ Subscribe(p) \/ Unsubscribe(p)
  \/ Snapshot(p) \/ SnapshotFailed(p) \/ SendSnapshot(p)

Listen(p) == Read(p) \/ ReadFailed(p) \/ Deliver(p)

Next ==
  \/ \E p \in Process :
       \/ Start(p) \/ StopSync(p)
       \/ \E ep \in Endpoint : Fetch(p, ep)
       \/ Run(p)
       \/ Listen(p)
       \/ UpdateStatus(p) \/ UpdatorDone(p)
  \/ \E ep \in Endpoint : XAddElsewhere(ep)

Spec == Init /\ [][Next]_vars

\* Go runs every runnable goroutine, redis answers in the end, and the two
\* senders of the updator's channel queue up for it.
FairSpec ==
  /\ Spec
  /\ \A p \in Process :
       /\ WF_vars(Subscribe(p)) /\ WF_vars(Snapshot(p)) /\ SF_vars(SendSnapshot(p))
       /\ WF_vars(Read(p)) /\ SF_vars(Deliver(p)) /\ WF_vars(UpdateStatus(p))

-----------------------------------------------------------------------------
(* Properties *)

\* Channels keep their capacities, Run gives up at the failure limit, and
\* every id a goroutine holds is that of an entry.
TypeOK ==
  /\ log \in Seq(Endpoint) /\ Len(log) <= MaxEntries
  /\ faults \in 0..MaxFaults
  /\ lost \in [Process -> SUBSET Endpoint]
  /\ \A p \in Process : LET h == hub[p] IN
       /\ {h.alive, h.cancelled, h.sub} \subseteq BOOLEAN
       /\ h.run \in {"off", "select", "snapshot", "send", "done", "panic"}
       /\ h.listen \in {"off", "read", "send", "done"}
       /\ h.updator \in {"off", "run", "done"}
       /\ h.cmd \subseteq {"sub", "unsub"}
       /\ h.pub \in Seq(Endpoint) /\ Len(h.pub) <= PubCap
       /\ h.upd \in Seq(Ids) /\ Len(h.upd) <= UpdCap
       /\ h.snapshot \in Seq(Ids) /\ h.batch \in Seq(Ids)
       /\ h.failure \in 0..FailureLimit
       /\ h.read \in -1..Len(log) /\ h.lastID \in 0..Len(log)
       /\ h.table \in [Endpoint -> 0..Len(log)]

\* p follows the stream: subscribed, snapshot read, listen not ended.
Following(p) ==
  /\ hub[p].alive /\ ~hub[p].cancelled
  /\ hub[p].read # -1 /\ hub[p].listen # "done"

\* While p follows the stream, the newest status of every endpoint is in its table,
\* in one of the three queues with nothing older behind it in the updator's
\* channel, or still to be read.  Only three things break this, each until the
\* endpoint's next status: the entry was too old for the snapshot or its read
\* failed, listen passed over it, or subscribe sent an older status after it.
NewestIsOnItsWay ==
  \A p \in Process, ep \in Endpoint :
    LET h == hub[p]
        n == NewestOf(ep)
        queued == {k \in DOMAIN h.upd : log[h.upd[k]] = ep}
    IN Following(p) /\ n # 0 /\ ep \notin lost[p] =>
         \/ n > IF h.lastID = 0 THEN h.read ELSE h.lastID
         \/ \E k \in DOMAIN h.snapshot : h.snapshot[k] = n
         \/ queued = {} /\ h.table[ep] = n
         \/ \E k \in queued : h.upd[k] = n /\ \A l \in queued : l <= k

\* A process that keeps following the stream ends up with the newest status of every
\* endpoint it did not miss, whoever published it and however many times
\* the process was restarted before.
CatchesUp ==
  \A p \in Process, ep \in Endpoint :
    <>[](Following(p) /\ ep \notin lost[p]) => <>[](hub[p].table[ep] = NewestOf(ep))

\* StartSync treats an error of Run as a fault of the program, with panic(err):
\* stopping the sync is no fault, so Run has to return nil.
StopIsClean == \A p \in Process : hub[p].cancelled => hub[p].run # "panic"
=============================================================================
