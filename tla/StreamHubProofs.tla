--------------------------- MODULE StreamHubProofs ---------------------------
(***************************************************************************)
(* Proofs about StreamHub, for every number of processes and endpoints,    *)
(* every capacity, and every length of the stream, the snapshot and the    *)
(* batch.                                                                  *)
(***************************************************************************)
EXTENDS StreamHub, FiniteSetTheorems, SequenceTheorems, WellFoundedInduction, TLAPS

-----------------------------------------------------------------------------
(* Bounded sets of numbers                                                 *)

LEMMA LeastExists ==
  ASSUME NEW S \in SUBSET Nat, S # {}
  PROVE  \E m \in S : \A x \in S : m <= x
  <1>1. PICK m \in S : \A x \in S : ~(<<x, m>> \in OpToRel(<, Nat))
    BY WFMin, NatLessThanWellFounded
  <1>2. \A x \in S : ~(x < m)
    BY <1>1 DEF OpToRel
  <1> QED  BY <1>2

LEMMA GreatestExists ==
  ASSUME NEW S \in SUBSET Nat, S # {}, NEW n \in Nat, \A x \in S : x <= n
  PROVE  \E m \in S : \A x \in S : x <= m
  <1> DEFINE T == {n - x : x \in S}
  <1>1. T \in SUBSET Nat /\ T # {}
    <2>1. \A x \in S : n - x \in Nat  OBVIOUS
    <2> QED  BY <2>1
  <1>2. PICK t \in T : \A y \in T : t <= y
    <2> HIDE DEF T
    <2> QED  BY <1>1, LeastExists
  <1>3. PICK m \in S : t = n - m  OBVIOUS
  <1>4. \A x \in S : n - m <= n - x  BY <1>2, <1>3
  <1> QED  BY <1>4

LEMMA BoundedIsFinite ==
  ASSUME NEW n \in Nat, NEW S \in SUBSET (0..n)
  PROVE  S \subseteq Nat /\ IsFiniteSet(S) /\ Cardinality(S) \in Nat
  <1>1. 0 \in Int /\ n \in Int  OBVIOUS
  <1>2. IsFiniteSet(0..n)  BY <1>1, FS_Interval
  <1>3. IsFiniteSet(S)  BY <1>2, FS_Subset
  <1>4. Cardinality(S) \in Nat  BY <1>3, FS_CardinalityType
  <1> QED  BY <1>3, <1>4

Descends(s, S) ==
  /\ s \in [1..Cardinality(S) -> S]
  /\ \A k, l \in 1..Cardinality(S) : k < l => s[k] > s[l]

Ascends(s, S) ==
  /\ s \in [1..Cardinality(S) -> S]
  /\ \A k, l \in 1..Cardinality(S) : k < l => s[k] < s[l]

Ordered(s, S) == Descends(s, S) \/ Ascends(s, S)

\* Each element of S has its place in s, and only one.
Lists(s, S) ==
  /\ \A x \in S : \E k \in 1..Cardinality(S) : s[k] = x
  /\ \A k, l \in 1..Cardinality(S) : s[k] = s[l] => k = l

\* A bounded set of numbers can be written down in descending order: the
\* smallest set that could not would have a least element to put last.
LEMMA DescendingExists ==
  ASSUME NEW n \in Nat, NEW S \in SUBSET (0..n)
  PROVE  \E s : Descends(s, S)
  <1> DEFINE Bad == {c \in Nat : \E T \in SUBSET (0..n) :
                       Cardinality(T) = c /\ ~\E s : Descends(s, T)}
  <1>1. \A T \in SUBSET (0..n) : IsFiniteSet(T) /\ Cardinality(T) \in Nat
    BY BoundedIsFinite
  <1>2. ASSUME Bad # {}  PROVE FALSE
    <2>1. PICK c \in Bad : \A d \in Bad : c <= d
      <3>1. Bad \in SUBSET Nat  OBVIOUS
      <3> QED  BY <1>2, <3>1, LeastExists
    <2>2. PICK T \in SUBSET (0..n) : Cardinality(T) = c /\ ~\E s : Descends(s, T)
      OBVIOUS
    <2>3. T # {}
      <3>1. Cardinality({}) = 0  BY FS_EmptySet
      <3>2. Descends([k \in {} |-> 0], {})  BY <3>1 DEF Descends
      <3> QED  BY <2>2, <3>2
    <2>4. PICK m \in T : \A x \in T : m <= x
      <3>1. T \in SUBSET Nat  OBVIOUS
      <3> QED  BY <2>3, <3>1, LeastExists
    <2> DEFINE U == T \ {m}
    <2>5. U \in SUBSET (0..n) /\ Cardinality(U) = c - 1
      BY <1>1, <2>2, FS_RemoveElement
    <2>6. c \in Nat \ {0}
      BY <1>1, <2>2, <2>3, FS_EmptySet
    <2>7. PICK s : Descends(s, U)
      <3>1. c - 1 \in Nat /\ c - 1 \notin Bad  BY <2>1, <2>6
      <3> QED  BY <2>5, <3>1
    <2>8. s \in [1..c - 1 -> U] /\ \A k, l \in 1..c - 1 : k < l => s[k] > s[l]
      BY <2>5, <2>7 DEF Descends
    <2> DEFINE r == [k \in 1..c |-> IF k = c THEN m ELSE s[k]]
    <2>9. r \in [1..c -> T]
      BY <2>6, <2>8
    <2>10. \A k, l \in 1..c : k < l => r[k] > r[l]
      <3> SUFFICES ASSUME NEW k \in 1..c, NEW l \in 1..c, k < l  PROVE r[k] > r[l]
        OBVIOUS
      <3>1. k \in 1..c - 1 /\ r[k] = s[k] /\ s[k] \in U  BY <2>6, <2>8
      <3>2. CASE l = c
        <4>1. s[k] >= m /\ s[k] # m  BY <2>4, <3>1
        <4>2. s[k] \in Nat /\ m \in Nat
          <5>1. s[k] \in 0..n /\ m \in 0..n  BY <3>1
          <5> QED  BY <5>1
        <4> QED  BY <3>1, <3>2, <4>1, <4>2
      <3>3. CASE l # c
        <4>1. l \in 1..c - 1  BY <2>6, <3>3
        <4> QED  BY <2>8, <3>1, <3>3, <4>1
      <3> QED  BY <3>2, <3>3
    <2>11. Descends(r, T)  BY <2>2, <2>9, <2>10 DEF Descends
    <2> QED  BY <2>2, <2>11
  <1> QED  BY <1>1, <1>2

\* And, read from the end, in ascending order.
LEMMA AscendingExists ==
  ASSUME NEW n \in Nat, NEW S \in SUBSET (0..n)
  PROVE  \E s : Ascends(s, S)
  <1> DEFINE c == Cardinality(S)
  <1>1. c \in Nat
    BY BoundedIsFinite
  <1>2. PICK s : Descends(s, S)  BY DescendingExists
  <1>3. s \in [1..c -> S] /\ \A k, l \in 1..c : k < l => s[k] > s[l]
    BY <1>2 DEF Descends
  <1> DEFINE r == [k \in 1..c |-> s[c + 1 - k]]
  <1> HIDE DEF c
  <1>4. r \in [1..c -> S]  BY <1>1, <1>3
  <1>5. \A k, l \in 1..c : k < l => r[k] < r[l]
    <2> SUFFICES ASSUME NEW k \in 1..c, NEW l \in 1..c, k < l  PROVE r[k] < r[l]
      OBVIOUS
    <2>1. c + 1 - k \in 1..c /\ c + 1 - l \in 1..c /\ c + 1 - l < c + 1 - k
      BY <1>1
    <2>2. s[c + 1 - k] < s[c + 1 - l]
      <3>1. s[c + 1 - k] \in Nat /\ s[c + 1 - l] \in Nat
        BY <1>3, <2>1, BoundedIsFinite
      <3>2. s[c + 1 - l] > s[c + 1 - k]  BY <1>3, <2>1
      <3> QED  BY <3>1, <3>2
    <2> QED  BY <2>2
  <1> QED  BY <1>4, <1>5 DEF Ascends, c

\* Written down in order, a set is listed.
LEMMA OrderedIsOnto ==
  ASSUME NEW n \in Nat, NEW S \in SUBSET (0..n), NEW s, Ordered(s, S)
  PROVE  Lists(s, S)
  <1> DEFINE c == Cardinality(S)
  <1>1. c \in Nat /\ IsFiniteSet(S)
    BY BoundedIsFinite
  <1>2. s \in [1..c -> S]  BY DEF Ordered, Descends, Ascends
  <1>3. \A k, l \in 1..c : s[k] = s[l] => k = l
    <2> SUFFICES ASSUME NEW k \in 1..c, NEW l \in 1..c, s[k] = s[l], k # l  PROVE FALSE
      OBVIOUS
    <2>1. s[k] \in Nat  BY <1>2, BoundedIsFinite
    <2>2. k < l \/ l < k  OBVIOUS
    <2> QED  BY <2>1, <2>2 DEF Ordered, Descends, Ascends
  <1>4. s \in Injection(1..c, S)
    BY <1>2, <1>3 DEF Injection, IsInjective
  <1>5. IsFiniteSet(1..c) /\ Cardinality(1..c) = c
    BY <1>1, FS_Interval
  <1>6. s \in Surjection(1..c, S)
    BY <1>1, <1>4, <1>5, FS_Injection
  <1> QED  BY <1>3, <1>6 DEF Lists, Surjection

-----------------------------------------------------------------------------
(* The inductive invariant, in parts.  The parts speak of a stream g, the  *)
(* hub h of a process and the endpoints l it has missed: none of them      *)
(* relates two processes.                                                  *)

\* Entry n is the newest about ep.
IsNewest(g, ep, n) ==
  /\ n \in 1..Len(g) /\ g[n] = ep
  /\ \A j \in 1..Len(g) : g[j] = ep => j <= n

\* What a hub may hold when the stream has had n entries.
HubRecord(n) ==
  [alive : BOOLEAN, cancelled : BOOLEAN,
   pub : Seq(Endpoint), cmd : SUBSET {"sub", "unsub"}, sub : BOOLEAN,
   run : {"off", "select", "snapshot", "send", "done", "panic"},
   snapshot : Seq(1..n), read : -1..n, failure : 0..FailureLimit,
   listen : {"off", "read", "send", "done"}, lastID : 0..n,
   batch : Seq(1..n), upd : Seq(1..n),
   updator : {"off", "run", "done"}, table : [Endpoint -> 0..n]]

Capacities(h) == Len(h.pub) <= PubCap /\ Len(h.upd) <= UpdCap

\* While the process follows the stream it is subscribed; Run and listen
\* are sending exactly when they have something to send.
Control(h) ==
  /\ (h.run = "snapshot" \/ h.read # -1) /\ ~h.cancelled => h.sub
  /\ "unsub" \in h.cmd => h.cancelled
  /\ h.snapshot # <<>> <=> h.run = "send"
  /\ h.batch # <<>> <=> h.listen = "send"

\* A batch leaves nothing out, a snapshot has one entry of each endpoint.
Order(g, h) ==
  /\ \A k \in 1..Len(h.batch) - 1 : h.batch[k + 1] = h.batch[k] + 1
  /\ \A j, k \in 1..Len(h.snapshot) :
       g[h.snapshot[j]] = g[h.snapshot[k]] => j = k

\* The last entry the process took, the snapshot's when listen took none.
Base(h) == IF h.lastID = 0 THEN h.read ELSE h.lastID

\* Nothing that is missed goes unnoticed: what listen has not taken lies in
\* its batch or behind it.
Ahead(g, h, l) ==
  h.listen = "send" /\ Base(h) # -1 =>
    \A ep \in Endpoint \ l, n \in 1..Len(g) :
      IsNewest(g, ep, n) /\ n > Base(h) => n >= h.batch[1]

\* NewestIsOnItsWay, for one endpoint with newest entry n.
OnItsWay(g, h, ep, n) ==
  \/ n > Base(h)
  \/ \E k \in 1..Len(h.snapshot) : h.snapshot[k] = n
  \/ (\A k \in 1..Len(h.upd) : g[h.upd[k]] # ep) /\ h.table[ep] = n
  \/ \E k \in 1..Len(h.upd) :
       h.upd[k] = n /\ \A j \in 1..Len(h.upd) : g[h.upd[j]] = ep => j <= k

Follows(h) == h.alive /\ ~h.cancelled /\ h.read # -1 /\ h.listen # "done"

Arrives(g, h, l) ==
  Follows(h) => \A ep \in Endpoint \ l, n \in 1..Len(g) :
                  IsNewest(g, ep, n) => OnItsWay(g, h, ep, n)

HubOK(g, h, l) ==
  /\ h \in HubRecord(Len(g)) /\ Capacities(h) /\ Control(h)
  /\ Order(g, h) /\ Ahead(g, h, l) /\ Arrives(g, h, l)

Inv ==
  /\ log \in Seq(Endpoint) /\ Len(log) <= MaxEntries
  /\ faults \in 0..MaxFaults
  /\ lost \in [Process -> SUBSET Endpoint]
  /\ DOMAIN hub = Process
  /\ \A p \in Process : HubOK(log, hub[p], lost[p])

-----------------------------------------------------------------------------
(* The stream                                                              *)

\* IsNewest is what NewestOf chooses.
LEMMA NewestIs ==
  ASSUME log \in Seq(Endpoint), NEW ep \in Endpoint
  PROVE  /\ \A n \in Nat : IsNewest(log, ep, n) => NewestOf(ep) = n /\ n # 0
         /\ NewestOf(ep) # 0 => IsNewest(log, ep, NewestOf(ep))
         /\ NewestOf(ep) \in Nat
  <1> DEFINE is == {i \in Ids : log[i] = ep}
  <1>1. Ids = 1..Len(log) /\ Len(log) \in Nat  BY DEF Ids
  <1>2. ASSUME NEW n \in Nat, IsNewest(log, ep, n)  PROVE NewestOf(ep) = n /\ n # 0
    <2>1. n \in is /\ \A j \in is : j <= n  BY <1>1, <1>2 DEF IsNewest
    <2>2. \A m \in is : (\A j \in is : j <= m) => m = n  BY <1>1, <2>1
    <2>3. NewestOf(ep) = CHOOSE i \in is : \A j \in is : j <= i
      BY <2>1 DEF NewestOf
    <2> HIDE DEF is
    <2>4. NewestOf(ep) = n  BY <2>1, <2>2, <2>3
    <2> QED  BY <1>2, <2>4 DEF IsNewest
  <1>3. CASE is = {}
    BY <1>2, <1>3 DEF NewestOf
  <1>4. CASE is # {}
    <2>1. PICK n \in is : \A j \in is : j <= n
      <3>1. is \in SUBSET Nat /\ \A x \in is : x <= Len(log)  BY <1>1
      <3> HIDE DEF is
      <3> QED  BY <1>1, <1>4, <3>1, GreatestExists
    <2>2. n \in Nat /\ IsNewest(log, ep, n)  BY <1>1, <2>1 DEF IsNewest
    <2> QED  BY <1>2, <2>2
  <1> QED  BY <1>2, <1>3, <1>4

\* An endpoint whose newest entry lies between two places is told so.
LEMMA BetweenIs ==
  ASSUME log \in Seq(Endpoint), NEW ep \in Endpoint, NEW a \in Nat, NEW b \in Int,
         NEW n \in Nat, IsNewest(log, ep, n), ep \notin NewestBetween(a, b)
  PROVE  n <= a \/ n >= b
  BY NewestIs DEF NewestBetween

\* An entry is added: the newest of its endpoint, and nothing else changes.
LEMMA NewestGrows ==
  ASSUME NEW g \in Seq(Endpoint), NEW e \in Endpoint
  PROVE  LET f == Append(g, e) IN
         /\ f \in Seq(Endpoint) /\ Len(f) = Len(g) + 1 /\ Len(g) \in Nat
         /\ \A i \in 1..Len(g) : f[i] = g[i]
         /\ \A ep \in Endpoint, n \in 1..Len(f) :
              IsNewest(f, ep, n) => n = Len(g) + 1 \/ (n \in 1..Len(g) /\ IsNewest(g, ep, n))
  <1> DEFINE f == Append(g, e)
  <1>1. /\ f \in Seq(Endpoint) /\ Len(f) = Len(g) + 1 /\ Len(g) \in Nat
        /\ \A i \in 1..Len(g) : f[i] = g[i]
    OBVIOUS
  <1> HIDE DEF f
  <1>2. \A ep \in Endpoint, n \in 1..Len(f) :
          IsNewest(f, ep, n) => n = Len(g) + 1 \/ (n \in 1..Len(g) /\ IsNewest(g, ep, n))
    BY <1>1 DEF IsNewest
  <1> QED  BY <1>1, <1>2 DEF f

LEMMA RecordGrows ==
  ASSUME NEW n \in Nat, NEW h \in HubRecord(n)
  PROVE  h \in HubRecord(n + 1)
  <1>1. Seq(1..n) \subseteq Seq(1..n + 1)
    OBVIOUS
  <1>2. [Endpoint -> 0..n] \subseteq [Endpoint -> 0..n + 1]
    OBVIOUS
  <1>3. -1..n \subseteq -1..n + 1 /\ 0..n \subseteq 0..n + 1
    OBVIOUS
  <1> QED  BY <1>1, <1>2, <1>3 DEF HubRecord

\* A hub that does nothing while the stream grows stays right: the new entry
\* lies ahead of what it has read.
LEMMA GrowthIsHarmless ==
  ASSUME NEW g \in Seq(Endpoint), NEW e \in Endpoint, NEW h, NEW l, HubOK(g, h, l)
  PROVE  HubOK(Append(g, e), h, l)
  <1> DEFINE f == Append(g, e)
  <1>1. /\ f \in Seq(Endpoint) /\ Len(f) = Len(g) + 1 /\ Len(g) \in Nat
        /\ \A i \in 1..Len(g) : f[i] = g[i]
        /\ \A ep \in Endpoint, n \in 1..Len(f) :
             IsNewest(f, ep, n) => n = Len(g) + 1 \/ (n \in 1..Len(g) /\ IsNewest(g, ep, n))
    BY NewestGrows
  <1> HIDE DEF f
  <1>2. h \in HubRecord(Len(g)) /\ h \in HubRecord(Len(f))
    BY <1>1, RecordGrows DEF HubOK
  <1>3. /\ h.snapshot \in Seq(1..Len(g)) /\ h.batch \in Seq(1..Len(g)) /\ h.upd \in Seq(1..Len(g))
        /\ h.read \in -1..Len(g) /\ h.lastID \in 0..Len(g)
    BY <1>2 DEF HubRecord
  <1>4. /\ \A k \in 1..Len(h.snapshot) : h.snapshot[k] \in 1..Len(g)
        /\ \A k \in 1..Len(h.batch) : h.batch[k] \in 1..Len(g)
        /\ \A k \in 1..Len(h.upd) : h.upd[k] \in 1..Len(g)
    BY <1>3, ElementOfSeq
  <1>5. Base(h) \in -1..Len(g)  BY <1>1, <1>3 DEF Base
  <1>6. Order(f, h)
    BY <1>1, <1>4 DEF HubOK, Order
  <1>7. Ahead(f, h, l)
    <2> SUFFICES ASSUME h.listen = "send", Base(h) # -1, NEW ep \in Endpoint \ l,
                        NEW n \in 1..Len(f), IsNewest(f, ep, n), n > Base(h)
                 PROVE  n >= h.batch[1]
      BY DEF Ahead
    <2>1. CASE n = Len(g) + 1
      <3>1. h.batch # <<>>  BY DEF HubOK, Control
      <3>2. h.batch[1] \in 1..Len(g)  BY <1>3, <3>1
      <3> QED  BY <1>1, <2>1, <3>2
    <2>2. CASE n \in 1..Len(g) /\ IsNewest(g, ep, n)
      BY <2>2 DEF HubOK, Ahead
    <2> QED  BY <1>1, <2>1, <2>2
  <1>8. Arrives(f, h, l)
    <2> SUFFICES ASSUME Follows(h), NEW ep \in Endpoint \ l,
                        NEW n \in 1..Len(f), IsNewest(f, ep, n)
                 PROVE  OnItsWay(f, h, ep, n)
      BY DEF Arrives
    <2>1. CASE n = Len(g) + 1
      BY <1>1, <1>5, <2>1 DEF OnItsWay
    <2>2. CASE n \in 1..Len(g) /\ IsNewest(g, ep, n)
      <3>1. OnItsWay(g, h, ep, n)  BY <2>2 DEF HubOK, Arrives
      <3> QED  BY <1>1, <1>4, <3>1 DEF OnItsWay
    <2> QED  BY <1>1, <2>1, <2>2
  <1> QED  BY <1>2, <1>6, <1>7, <1>8 DEF HubOK, f

-----------------------------------------------------------------------------
(* What steps have in common                                               *)

\* One process moves, and the stream may grow with it.
LEMMA HubMoves ==
  ASSUME Inv, NEW p \in Process, NEW q, NEW m \in SUBSET Endpoint,
         hub' = [hub EXCEPT ![p] = q], lost' = [lost EXCEPT ![p] = m],
         HubOK(log, q, m), faults' \in 0..MaxFaults,
         log' = log \/ \E e \in Endpoint : Len(log) < MaxEntries /\ log' = Append(log, e)
  PROVE  Inv'
  <1>1. log \in Seq(Endpoint) /\ DOMAIN hub = Process /\ lost \in [Process -> SUBSET Endpoint]
    BY DEF Inv
  <1>2. \A r \in Process : HubOK(log, hub'[r], lost'[r])
    BY <1>1 DEF Inv
  <1>3. \A r \in Process : HubOK(log', hub'[r], lost'[r])
    <2>1. CASE log' = log
      BY <1>2, <2>1
    <2>2. CASE log' # log
      <3>1. PICK e \in Endpoint : log' = Append(log, e)  BY <2>2
      <3>2. \A h, l : HubOK(log, h, l) => HubOK(log', h, l)
        BY <1>1, <3>1, GrowthIsHarmless
      <3> QED  BY <1>2, <3>2
    <2> QED  BY <2>1, <2>2
  <1>4. log' \in Seq(Endpoint) /\ Len(log') <= MaxEntries
    BY <1>1, StreamAssumption DEF Inv
  <1>5. lost' \in [Process -> SUBSET Endpoint] /\ DOMAIN hub' = Process
    BY <1>1
  <1> QED  BY <1>3, <1>4, <1>5 DEF Inv

\* A process that has just started, or whose Run has panicked, follows nothing.
LEMMA OffIsOK ==
  ASSUME NEW g \in Seq(Endpoint), NEW h \in HubRecord(Len(g)), NEW l,
         h.pub = <<>>, h.upd = <<>>, h.snapshot = <<>>, h.batch = <<>>,
         h.read = -1, h.lastID = 0, h.cmd \subseteq {"sub"},
         h.run \in {"off", "select", "panic"}, h.listen # "send"
  PROVE  HubOK(g, h, l)
  <1>1. Capacities(h)
    BY StreamAssumption DEF Capacities
  <1>2. Control(h)
    BY DEF Control
  <1>3. Order(g, h)
    BY DEF Order
  <1> QED  BY <1>1, <1>2, <1>3 DEF HubOK, Ahead, Arrives, Follows

\* A step that leaves what is read, queued and applied as it is; it may end
\* the following, never begin it.
LEMMA QuietIsOK ==
  ASSUME NEW g, NEW h, NEW l, HubOK(g, h, l), NEW q \in HubRecord(Len(g)),
         q.read = h.read, q.lastID = h.lastID, q.snapshot = h.snapshot,
         q.batch = h.batch, q.upd = h.upd, q.table = h.table,
         q.listen \in {h.listen, "done"}, Follows(q) => Follows(h),
         Capacities(q), Control(q)
  PROVE  HubOK(g, q, l)
  <1>1. Order(g, q)
    BY DEF HubOK, Order
  <1>2. Ahead(g, q, l)
    BY DEF HubOK, Ahead, Base
  <1>3. Arrives(g, q, l)
    BY DEF HubOK, Arrives, OnItsWay, Base
  <1> QED  BY <1>1, <1>2, <1>3 DEF HubOK

\* The parts of a hub record that steps replace, field by field.
LEMMA Replaced ==
  ASSUME NEW n \in Nat, NEW h \in HubRecord(n)
  PROVE  /\ \A b \in BOOLEAN : [h EXCEPT !.cancelled = b] \in HubRecord(n)
         /\ \A s \in Seq(Endpoint) : [h EXCEPT !.pub = s] \in HubRecord(n)
         /\ \A s \in Seq(1..n) : [h EXCEPT !.upd = s] \in HubRecord(n)
         /\ \A s \in Seq(1..n) : [h EXCEPT !.snapshot = s] \in HubRecord(n)
         /\ \A s \in Seq(1..n) : [h EXCEPT !.batch = s] \in HubRecord(n)
         /\ \A b \in BOOLEAN : [h EXCEPT !.sub = b] \in HubRecord(n)
         /\ \A c \in SUBSET {"sub", "unsub"} : [h EXCEPT !.cmd = c] \in HubRecord(n)
         /\ \A r \in {"off", "select", "snapshot", "send", "done", "panic"} :
              [h EXCEPT !.run = r] \in HubRecord(n)
  BY DEF HubRecord

\* What a hub holds.
LEMMA Fields ==
  ASSUME NEW n \in Nat, NEW h \in HubRecord(n)
  PROVE  /\ h.pub \in Seq(Endpoint) /\ h.upd \in Seq(1..n)
         /\ h.snapshot \in Seq(1..n) /\ h.batch \in Seq(1..n)
         /\ h.cmd \subseteq {"sub", "unsub"} /\ h.failure \in 0..FailureLimit
         /\ h.read \in -1..n /\ h.lastID \in 0..n /\ h.table \in [Endpoint -> 0..n]
         /\ {h.alive, h.cancelled, h.sub} \subseteq BOOLEAN
         /\ h.run \in {"off", "select", "snapshot", "send", "done", "panic"}
         /\ h.listen \in {"off", "read", "send", "done"}
  BY DEF HubRecord

-----------------------------------------------------------------------------
(* Starting, stopping, publishing                                          *)

LEMMA OffIs ==
  ASSUME NEW n \in Nat
  PROVE  Off \in HubRecord(n)
  <1>1. <<>> \in Seq(Endpoint) /\ <<>> \in Seq(1..n)  BY EmptySeq
  <1>2. [ep \in Endpoint |-> 0] \in [Endpoint -> 0..n]  OBVIOUS
  <1>3. 0 \in 0..FailureLimit /\ 0 \in 0..n /\ -1 \in -1..n  BY StreamAssumption
  <1> QED  BY <1>1, <1>2, <1>3 DEF Off, HubRecord

LEMMA InitInv == Init => Inv
  <1> SUFFICES ASSUME Init  PROVE Inv
    OBVIOUS
  <1>1. log \in Seq(Endpoint) /\ Len(log) = 0
    BY DEF Init
  <1>2. HubOK(log, Off, {})
    <2>1. /\ Off.pub = <<>> /\ Off.upd = <<>> /\ Off.snapshot = <<>> /\ Off.batch = <<>>
          /\ Off.read = -1 /\ Off.lastID = 0 /\ Off.cmd = {} /\ Off.run = "off"
          /\ Off.listen = "off"
      BY DEF Off
    <2> QED  BY <1>1, <2>1, OffIs, OffIsOK
  <1> QED  BY <1>1, <1>2, StreamAssumption DEF Init, Inv

\* Run ends with a panic: the process is gone, whatever it had missed.
LEMMA PanicIsOK ==
  ASSUME NEW g \in Seq(Endpoint), NEW c \in BOOLEAN, NEW l
  PROVE  HubOK(g, [Off EXCEPT !.run = "panic", !.cancelled = c], l)
  <1> DEFINE q == [Off EXCEPT !.run = "panic", !.cancelled = c]
  <1>1. Len(g) \in Nat  OBVIOUS
  <1>2. q \in HubRecord(Len(g))
    BY <1>1, OffIs DEF HubRecord
  <1>3. /\ q.pub = <<>> /\ q.upd = <<>> /\ q.snapshot = <<>> /\ q.batch = <<>>
        /\ q.read = -1 /\ q.lastID = 0 /\ q.cmd = {} /\ q.run = "panic"
        /\ q.listen = "off"
    BY DEF Off
  <1> HIDE DEF q
  <1>4. HubOK(g, q, l)  BY <1>2, <1>3, OffIsOK
  <1> QED  BY <1>4 DEF q

LEMMA StartStep ==
  ASSUME Inv, NEW p \in Process, Start(p)
  PROVE  Inv'
  <1> DEFINE q == [Off EXCEPT !.alive = TRUE, !.run = "select", !.listen = "read",
                              !.updator = "run", !.cmd = {"sub"}]
  <1>1. log \in Seq(Endpoint) /\ Len(log) \in Nat  BY DEF Inv
  <1>2. q \in HubRecord(Len(log))
    BY <1>1, OffIs DEF HubRecord
  <1>3. /\ q.pub = <<>> /\ q.upd = <<>> /\ q.snapshot = <<>> /\ q.batch = <<>>
        /\ q.read = -1 /\ q.lastID = 0 /\ q.cmd = {"sub"} /\ q.run = "select"
        /\ q.listen = "read"
    BY DEF Off
  <1>4. hub' = [hub EXCEPT ![p] = q] /\ lost' = [lost EXCEPT ![p] = {}]
        /\ UNCHANGED <<log, faults>>
    BY DEF Start
  <1> HIDE DEF q
  <1>5. HubOK(log, q, {})  BY <1>1, <1>2, <1>3, OffIsOK
  <1> QED  BY <1>4, <1>5, HubMoves DEF Inv

\* The steps of QuietIsOK that leave lost as it is.
LEMMA QuietStep ==
  ASSUME Inv, NEW p \in Process, NEW q \in HubRecord(Len(log)),
         hub' = [hub EXCEPT ![p] = q], lost' = lost, faults' \in 0..MaxFaults,
         log' = log \/ \E e \in Endpoint : Len(log) < MaxEntries /\ log' = Append(log, e),
         q.read = hub[p].read, q.lastID = hub[p].lastID, q.snapshot = hub[p].snapshot,
         q.batch = hub[p].batch, q.upd = hub[p].upd, q.table = hub[p].table,
         q.listen \in {hub[p].listen, "done"}, Follows(q) => Follows(hub[p]),
         Len(q.pub) <= PubCap, Control(q)
  PROVE  Inv'
  <1>1. HubOK(log, hub[p], lost[p])  BY DEF Inv
  <1>2. Capacities(q)  BY <1>1 DEF HubOK, Capacities
  <1>3. HubOK(log, q, lost[p])  BY <1>1, <1>2, QuietIsOK
  <1>4. lost[p] \in SUBSET Endpoint /\ lost' = [lost EXCEPT ![p] = lost[p]]  BY DEF Inv
  <1> QED  BY <1>3, <1>4, HubMoves

\* What the invariant says of the process that takes a step.
LEMMA Mine ==
  ASSUME Inv, NEW p \in Process
  PROVE  /\ log \in Seq(Endpoint) /\ Len(log) \in Nat /\ Len(log) <= MaxEntries
         /\ faults \in 0..MaxFaults /\ lost[p] \in SUBSET Endpoint
         /\ DOMAIN hub = Process
         /\ hub[p] \in HubRecord(Len(log)) /\ Capacities(hub[p]) /\ Control(hub[p])
         /\ Order(log, hub[p]) /\ Ahead(log, hub[p], lost[p]) /\ Arrives(log, hub[p], lost[p])
  BY DEF Inv, HubOK

LEMMA StopSyncStep ==
  ASSUME Inv, NEW p \in Process, StopSync(p) \/ HubDone(p) \/ UpdatorDone(p)
  PROVE  Inv'
  <1> DEFINE h == hub[p]
  <1>1. h \in HubRecord(Len(log)) /\ Len(log) \in Nat /\ Capacities(h) /\ Control(h)
        /\ faults \in 0..MaxFaults
    BY Mine
  <1>2. CASE StopSync(p)
    <2> DEFINE q == [h EXCEPT !.cancelled = TRUE]
    <2>1. /\ q.read = h.read /\ q.lastID = h.lastID /\ q.snapshot = h.snapshot
          /\ q.batch = h.batch /\ q.upd = h.upd /\ q.table = h.table /\ q.listen = h.listen
          /\ q.pub = h.pub /\ q.run = h.run /\ q.cancelled
      BY <1>1 DEF HubRecord
    <2>2. q \in HubRecord(Len(log))  BY <1>1 DEF HubRecord
    <2>3. Control(q) /\ ~Follows(q)  BY <1>1, <2>1 DEF Control, Follows
    <2>4. hub' = [hub EXCEPT ![p] = q] /\ UNCHANGED <<log, faults, lost>>
      BY <1>2 DEF StopSync
    <2> HIDE DEF q
    <2> QED  BY <1>1, <2>1, <2>2, <2>3, <2>4, QuietStep DEF Capacities
  <1>3. CASE HubDone(p)
    <2> DEFINE q == [h EXCEPT !.run = "done"]
    <2>1. /\ q.read = h.read /\ q.lastID = h.lastID /\ q.snapshot = h.snapshot
          /\ q.batch = h.batch /\ q.upd = h.upd /\ q.table = h.table /\ q.listen = h.listen
          /\ q.pub = h.pub /\ q.run = "done" /\ q.cancelled = h.cancelled /\ q.cmd = h.cmd
          /\ q.sub = h.sub
      BY <1>1 DEF HubRecord
    <2>2. q \in HubRecord(Len(log))  BY <1>1 DEF HubRecord
    <2>3. h.cancelled /\ h.run = "select"  BY <1>3 DEF HubDone, Selects
    <2>4. Control(q) /\ ~Follows(q)  BY <1>1, <2>1, <2>3 DEF Control, Follows
    <2>5. hub' = [hub EXCEPT ![p] = q] /\ UNCHANGED <<log, faults, lost>>
      BY <1>3 DEF HubDone
    <2> HIDE DEF q
    <2> QED  BY <1>1, <2>1, <2>2, <2>4, <2>5, QuietStep DEF Capacities
  <1>4. CASE UpdatorDone(p)
    <2> DEFINE q == [h EXCEPT !.updator = "done", !.cmd = @ \cup {"unsub"}]
    <2>1. /\ q.read = h.read /\ q.lastID = h.lastID /\ q.snapshot = h.snapshot
          /\ q.batch = h.batch /\ q.upd = h.upd /\ q.table = h.table /\ q.listen = h.listen
          /\ q.pub = h.pub /\ q.run = h.run /\ q.cancelled = h.cancelled /\ q.sub = h.sub
      BY <1>1 DEF HubRecord
    <2>2. q \in HubRecord(Len(log))  BY <1>1 DEF HubRecord
    <2>3. h.cancelled  BY <1>4 DEF UpdatorDone
    <2>4. Control(q) /\ ~Follows(q)  BY <1>1, <2>1, <2>3 DEF Control, Follows
    <2>5. hub' = [hub EXCEPT ![p] = q] /\ UNCHANGED <<log, faults, lost>>
      BY <1>4 DEF UpdatorDone
    <2> HIDE DEF q
    <2> QED  BY <1>1, <2>1, <2>2, <2>4, <2>5, QuietStep DEF Capacities
  <1> QED  BY <1>2, <1>3, <1>4

LEMMA FetchStep ==
  ASSUME Inv, NEW p \in Process, NEW ep \in Endpoint, Fetch(p, ep)
  PROVE  Inv'
  <1> DEFINE h == hub[p]
             q == [h EXCEPT !.pub = Append(@, ep)]
  <1>1. h \in HubRecord(Len(log)) /\ Len(log) \in Nat /\ Capacities(h) /\ Control(h)
        /\ faults \in 0..MaxFaults
    BY Mine
  <1>2. /\ q.read = h.read /\ q.lastID = h.lastID /\ q.snapshot = h.snapshot
        /\ q.batch = h.batch /\ q.upd = h.upd /\ q.table = h.table /\ q.listen = h.listen
        /\ q.run = h.run /\ q.cancelled = h.cancelled /\ q.cmd = h.cmd /\ q.sub = h.sub
        /\ q.alive = h.alive /\ q.pub = Append(h.pub, ep)
    BY <1>1 DEF HubRecord
  <1>3. h.pub \in Seq(Endpoint) /\ Len(h.pub) < PubCap
    BY <1>1, Fields DEF Fetch
  <1>4. Append(h.pub, ep) \in Seq(Endpoint) /\ Len(Append(h.pub, ep)) <= PubCap
    BY <1>3, StreamAssumption
  <1>5. q \in HubRecord(Len(log))  BY <1>1, <1>4, Replaced
  <1>6. Control(q) /\ (Follows(q) => Follows(h))  BY <1>1, <1>2 DEF Control, Follows
  <1>7. hub' = [hub EXCEPT ![p] = q] /\ UNCHANGED <<log, faults, lost>>
    BY DEF Fetch
  <1> HIDE DEF q
  <1> QED  BY <1>1, <1>2, <1>4, <1>5, <1>6, <1>7, QuietStep

LEMMA SubscribeStep ==
  ASSUME Inv, NEW p \in Process, Subscribe(p) \/ Unsubscribe(p)
  PROVE  Inv'
  <1> DEFINE h == hub[p]
  <1>1. h \in HubRecord(Len(log)) /\ Len(log) \in Nat /\ Capacities(h) /\ Control(h)
        /\ faults \in 0..MaxFaults
    BY Mine
  <1>2. h.run = "select"  BY DEF Subscribe, Unsubscribe, Selects
  <1>3. CASE Subscribe(p)
    <2> DEFINE q == [h EXCEPT !.cmd = @ \ {"sub"}, !.sub = TRUE, !.run = "snapshot"]
    <2>1. /\ q.read = h.read /\ q.lastID = h.lastID /\ q.snapshot = h.snapshot
          /\ q.batch = h.batch /\ q.upd = h.upd /\ q.table = h.table /\ q.listen = h.listen
          /\ q.pub = h.pub /\ q.run = "snapshot" /\ q.cancelled = h.cancelled
          /\ q.cmd \subseteq h.cmd /\ q.sub /\ q.alive = h.alive
      BY <1>1 DEF HubRecord
    <2>2. q \in HubRecord(Len(log))  BY <1>1 DEF HubRecord
    <2>3. Control(q) /\ (Follows(q) => Follows(h))  BY <1>1, <1>2, <2>1 DEF Control, Follows
    <2>4. hub' = [hub EXCEPT ![p] = q] /\ UNCHANGED <<log, faults, lost>>
      BY <1>3 DEF Subscribe
    <2> HIDE DEF q
    <2> QED  BY <1>1, <2>1, <2>2, <2>3, <2>4, QuietStep DEF Capacities
  <1>4. CASE Unsubscribe(p)
    <2> DEFINE q == [h EXCEPT !.cmd = @ \ {"unsub"}, !.sub = FALSE]
    <2>1. /\ q.read = h.read /\ q.lastID = h.lastID /\ q.snapshot = h.snapshot
          /\ q.batch = h.batch /\ q.upd = h.upd /\ q.table = h.table /\ q.listen = h.listen
          /\ q.pub = h.pub /\ q.run = h.run /\ q.cancelled = h.cancelled
          /\ q.cmd \subseteq h.cmd
      BY <1>1 DEF HubRecord
    <2>2. q \in HubRecord(Len(log))  BY <1>1 DEF HubRecord
    <2>3. h.cancelled  BY <1>1, <1>4 DEF Unsubscribe, Control
    <2>4. Control(q) /\ ~Follows(q)  BY <1>1, <2>1, <2>3 DEF Control, Follows
    <2>5. hub' = [hub EXCEPT ![p] = q] /\ UNCHANGED <<log, faults, lost>>
      BY <1>4 DEF Unsubscribe
    <2> HIDE DEF q
    <2> QED  BY <1>1, <2>1, <2>2, <2>4, <2>5, QuietStep DEF Capacities
  <1> QED  BY <1>3, <1>4

\* The status goes to the stream, or is lost; either way it leaves pub.
LEMMA XAddStep ==
  ASSUME Inv, NEW p \in Process, XAdd(p)
  PROVE  Inv'
  <1> DEFINE h == hub[p]
             q == [h EXCEPT !.pub = Tail(@), !.failure = 0]
  <1>1. h \in HubRecord(Len(log)) /\ Len(log) \in Nat /\ Capacities(h) /\ Control(h)
        /\ faults \in 0..MaxFaults
    BY Mine
  <1>2. /\ q.read = h.read /\ q.lastID = h.lastID /\ q.snapshot = h.snapshot
        /\ q.batch = h.batch /\ q.upd = h.upd /\ q.table = h.table /\ q.listen = h.listen
        /\ q.run = h.run /\ q.cancelled = h.cancelled /\ q.cmd = h.cmd /\ q.sub = h.sub
        /\ q.alive = h.alive /\ q.pub = Tail(h.pub)
    BY <1>1 DEF HubRecord
  <1>3. h.pub \in Seq(Endpoint) /\ h.pub # <<>> /\ Len(h.pub) <= PubCap
    BY <1>1, Fields DEF XAdd, Capacities
  <1>4. Tail(h.pub) \in Seq(Endpoint) /\ Len(Tail(h.pub)) <= PubCap /\ h.pub[1] \in Endpoint
    BY <1>3, StreamAssumption
  <1>5. q \in HubRecord(Len(log))
    <2>1. 0 \in 0..FailureLimit  BY StreamAssumption
    <2> QED  BY <1>1, <1>4, <2>1 DEF HubRecord
  <1>6. Control(q) /\ (Follows(q) => Follows(h))  BY <1>1, <1>2 DEF Control, Follows
  <1>7. hub' = [hub EXCEPT ![p] = q] /\ UNCHANGED <<faults, lost>>
        /\ Len(log) < MaxEntries /\ log' = Append(log, h.pub[1])
    BY DEF XAdd
  <1> HIDE DEF q
  <1> QED  BY <1>1, <1>2, <1>4, <1>5, <1>6, <1>7, QuietStep

LEMMA XAddElsewhereStep ==
  ASSUME Inv, NEW ep \in Endpoint, XAddElsewhere(ep)
  PROVE  Inv'
  <1>1. Len(log) < MaxEntries /\ log' = Append(log, ep) /\ UNCHANGED <<hub, faults, lost>>
    BY DEF XAddElsewhere
  <1>2. log' \in Seq(Endpoint) /\ Len(log') <= MaxEntries
    BY <1>1, StreamAssumption DEF Inv
  <1>3. \A p \in Process : HubOK(log', hub[p], lost[p])
    BY <1>1, GrowthIsHarmless DEF Inv
  <1> QED  BY <1>1, <1>2, <1>3 DEF Inv

-----------------------------------------------------------------------------
(* Failures                                                                *)

\* Run ends with a panic.
LEMMA PanicStep ==
  ASSUME Inv, NEW p \in Process, NEW c \in BOOLEAN, NEW m \in SUBSET Endpoint,
         hub' = [hub EXCEPT ![p] = [Off EXCEPT !.run = "panic", !.cancelled = c]],
         lost' = [lost EXCEPT ![p] = m], faults' \in 0..MaxFaults,
         log' = log \/ \E e \in Endpoint : Len(log) < MaxEntries /\ log' = Append(log, e)
  PROVE  Inv'
  <1> DEFINE q == [Off EXCEPT !.run = "panic", !.cancelled = c]
  <1>1. HubOK(log, q, m)  BY PanicIsOK DEF Inv
  <1>2. hub' = [hub EXCEPT ![p] = q]  OBVIOUS
  <1> HIDE DEF q
  <1> QED  BY <1>1, <1>2, HubMoves

\* What handleRedisError does: Run panics, or goes back to its select.
LEMMA FailedIs ==
  ASSUME Inv, NEW p \in Process, NEW h, h.cancelled = hub[p].cancelled,
         h.failure = hub[p].failure, Failed(p, h)
  PROVE  /\ faults' \in 0..MaxFaults
         /\ \/ hub' = [hub EXCEPT ![p] = [Off EXCEPT !.run = "panic",
                                                     !.cancelled = hub[p].cancelled]]
            \/ /\ ~h.cancelled /\ h.failure + 1 \in 0..FailureLimit
               /\ hub' = [hub EXCEPT ![p] = [h EXCEPT !.failure = @ + 1, !.run = "select"]]
  <1>1. hub[p] \in HubRecord(Len(log)) /\ Len(log) \in Nat /\ faults \in 0..MaxFaults
    BY Mine
  <1>2. h.failure \in 0..FailureLimit /\ h.cancelled \in BOOLEAN
    BY <1>1, Fields
  <1>3. faults' \in 0..MaxFaults
    BY <1>1, StreamAssumption DEF Failed
  <1>4. h.failure < FailureLimit => h.failure + 1 \in 0..FailureLimit
    BY <1>2, StreamAssumption
  <1> QED  BY <1>2, <1>3, <1>4 DEF Failed

LEMMA XAddFailedStep ==
  ASSUME Inv, NEW p \in Process, XAddFailed(p)
  PROVE  Inv'
  <1> DEFINE h == hub[p]
             t == [h EXCEPT !.pub = Tail(@)]
             q == [t EXCEPT !.failure = @ + 1, !.run = "select"]
  <1>1. h \in HubRecord(Len(log)) /\ Len(log) \in Nat /\ Capacities(h) /\ Control(h)
        /\ lost[p] \in SUBSET Endpoint
    BY Mine
  <1>2. h.pub \in Seq(Endpoint) /\ h.pub # <<>> /\ Len(h.pub) <= PubCap /\ h.run = "select"
        /\ h.cancelled \in BOOLEAN
    BY <1>1, Fields DEF XAddFailed, Selects, Capacities
  <1>3. Tail(h.pub) \in Seq(Endpoint) /\ Len(Tail(h.pub)) <= PubCap /\ h.pub[1] \in Endpoint
    BY <1>2, StreamAssumption
  <1>4. log' = log \/ \E e \in Endpoint : Len(log) < MaxEntries /\ log' = Append(log, e)
    BY <1>3 DEF XAddFailed
  <1>5. lost' = lost /\ lost' = [lost EXCEPT ![p] = lost[p]]  BY DEF XAddFailed, Inv
  <1>6. t.cancelled = h.cancelled /\ t.failure = h.failure /\ t \in HubRecord(Len(log))
    BY <1>1, <1>3 DEF HubRecord
  <1>7. Failed(p, t)  BY DEF XAddFailed
  <1>8. /\ faults' \in 0..MaxFaults
        /\ \/ hub' = [hub EXCEPT ![p] = [Off EXCEPT !.run = "panic", !.cancelled = h.cancelled]]
           \/ t.failure + 1 \in 0..FailureLimit /\ hub' = [hub EXCEPT ![p] = q]
    <2> HIDE DEF t
    <2> QED  BY <1>6, <1>7, FailedIs
  <1>9. CASE hub' = [hub EXCEPT ![p] = [Off EXCEPT !.run = "panic", !.cancelled = h.cancelled]]
    BY <1>1, <1>2, <1>4, <1>5, <1>8, <1>9, PanicStep
  <1>10. CASE t.failure + 1 \in 0..FailureLimit /\ hub' = [hub EXCEPT ![p] = q]
    <2>1. q \in HubRecord(Len(log))  BY <1>6, <1>10 DEF HubRecord
    <2>2. /\ q.read = h.read /\ q.lastID = h.lastID /\ q.snapshot = h.snapshot
          /\ q.batch = h.batch /\ q.upd = h.upd /\ q.table = h.table /\ q.listen = h.listen
          /\ q.run = h.run /\ q.cancelled = h.cancelled /\ q.cmd = h.cmd /\ q.sub = h.sub
          /\ q.alive = h.alive /\ q.pub = Tail(h.pub)
      BY <1>1, <1>2 DEF HubRecord
    <2>3. Control(q) /\ (Follows(q) => Follows(h))  BY <1>1, <2>2 DEF Control, Follows
    <2> HIDE DEF q
    <2> QED  BY <1>1, <1>3, <1>4, <1>5, <1>8, <1>10, <2>1, <2>2, <2>3, QuietStep
  <1> QED  BY <1>8, <1>9, <1>10

LEMMA ReadFailedStep ==
  ASSUME Inv, NEW p \in Process, ReadFailed(p)
  PROVE  Inv'
  <1> DEFINE h == hub[p]
             q == [h EXCEPT !.listen = "done"]
  <1>1. h \in HubRecord(Len(log)) /\ Len(log) \in Nat /\ Capacities(h) /\ Control(h)
        /\ faults \in 0..MaxFaults
    BY Mine
  <1>2. /\ q.read = h.read /\ q.lastID = h.lastID /\ q.snapshot = h.snapshot
        /\ q.batch = h.batch /\ q.upd = h.upd /\ q.table = h.table /\ q.listen = "done"
        /\ q.run = h.run /\ q.cancelled = h.cancelled /\ q.cmd = h.cmd /\ q.sub = h.sub
        /\ q.pub = h.pub
    BY <1>1 DEF HubRecord
  <1>3. h.listen = "read" /\ hub' = [hub EXCEPT ![p] = q] /\ UNCHANGED <<log, lost>>
        /\ faults' \in 0..MaxFaults
    BY <1>1, StreamAssumption DEF ReadFailed
  <1>4. q \in HubRecord(Len(log))  BY <1>1 DEF HubRecord
  <1>5. Control(q) /\ ~Follows(q)  BY <1>1, <1>2, <1>3 DEF Control, Follows
  <1> HIDE DEF q
  <1> QED  BY <1>1, <1>2, <1>3, <1>4, <1>5, QuietStep DEF Capacities

-----------------------------------------------------------------------------
(* The subscription                                                        *)

\* Whoever has missed the newest status of every endpoint may hold anything.
LEMMA AllMissedIsOK ==
  ASSUME Inv, NEW q \in HubRecord(Len(log)), NEW m \in SUBSET Endpoint,
         Capacities(q), Control(q), Order(log, q), NewestBetween(0, Len(log) + 1) \subseteq m
  PROVE  HubOK(log, q, m)
  <1>1. log \in Seq(Endpoint) /\ Len(log) \in Nat  BY DEF Inv
  <1>2. \A ep \in Endpoint \ m, n \in 1..Len(log) : ~IsNewest(log, ep, n)
    <2> SUFFICES ASSUME NEW ep \in Endpoint \ m, NEW n \in 1..Len(log), IsNewest(log, ep, n)
                 PROVE  FALSE
      OBVIOUS
    <2>1. ep \notin NewestBetween(0, Len(log) + 1)  OBVIOUS
    <2>2. n <= 0 \/ n >= Len(log) + 1  BY <1>1, <2>1, BetweenIs
    <2> QED  BY <1>1, <2>2
  <1> QED  BY <1>2 DEF HubOK, Ahead, Arrives

\* The snapshot could not be read: every newest status is missed.
LEMMA SnapshotFailedStep ==
  ASSUME Inv, NEW p \in Process, SnapshotFailed(p)
  PROVE  Inv'
  <1> DEFINE h == hub[p]
             t == [h EXCEPT !.read = Len(log)]
             q == [t EXCEPT !.failure = @ + 1, !.run = "select"]
             m == lost[p] \cup NewestBetween(0, Len(log) + 1)
  <1>1. h \in HubRecord(Len(log)) /\ Len(log) \in Nat /\ Capacities(h) /\ Control(h)
        /\ Order(log, h) /\ lost[p] \in SUBSET Endpoint
    BY Mine
  <1>2. h.run = "snapshot" /\ h.cancelled \in BOOLEAN
    BY <1>1, Fields DEF SnapshotFailed
  <1>3. log' = log /\ lost' = [lost EXCEPT ![p] = m] /\ m \in SUBSET Endpoint
    BY <1>1 DEF SnapshotFailed, NewestBetween
  <1>4. t.cancelled = h.cancelled /\ t.failure = h.failure /\ t \in HubRecord(Len(log))
    <2>1. Len(log) \in -1..Len(log)  BY <1>1
    <2> QED  BY <1>1, <2>1 DEF HubRecord
  <1>5. Failed(p, t)  BY DEF SnapshotFailed
  <1>6. /\ faults' \in 0..MaxFaults
        /\ \/ hub' = [hub EXCEPT ![p] = [Off EXCEPT !.run = "panic", !.cancelled = h.cancelled]]
           \/ /\ ~h.cancelled /\ t.failure + 1 \in 0..FailureLimit
              /\ hub' = [hub EXCEPT ![p] = q]
    <2> HIDE DEF t
    <2> QED  BY <1>4, <1>5, FailedIs
  <1>7. CASE hub' = [hub EXCEPT ![p] = [Off EXCEPT !.run = "panic", !.cancelled = h.cancelled]]
    <2> HIDE DEF m
    <2> QED  BY <1>2, <1>3, <1>6, <1>7, PanicStep
  <1>8. CASE ~h.cancelled /\ t.failure + 1 \in 0..FailureLimit /\ hub' = [hub EXCEPT ![p] = q]
    <2>1. q \in HubRecord(Len(log))  BY <1>4, <1>8 DEF HubRecord
    <2>2. /\ q.snapshot = h.snapshot /\ q.batch = h.batch /\ q.upd = h.upd
          /\ q.listen = h.listen /\ q.run = "select" /\ q.cancelled = h.cancelled
          /\ q.cmd = h.cmd /\ q.sub = h.sub /\ q.pub = h.pub
      BY <1>1 DEF HubRecord
    <2>3. Capacities(q) /\ Control(q) /\ Order(log, q)
      BY <1>1, <1>2, <1>8, <2>2 DEF Capacities, Control, Order
    <2>4. NewestBetween(0, Len(log) + 1) \subseteq m  OBVIOUS
    <2> HIDE DEF q, m
    <2>5. HubOK(log, q, m)  BY <1>3, <2>1, <2>3, <2>4, AllMissedIsOK
    <2> QED  BY <1>3, <1>6, <1>8, <2>5, HubMoves
  <1> QED  BY <1>6, <1>7, <1>8

\* A function on 1..c is a sequence of length c.
LEMMA ListIs ==
  ASSUME NEW n \in Nat, NEW c \in Nat, NEW S \in SUBSET (1..n), NEW s \in [1..c -> S]
  PROVE  s \in Seq(1..n) /\ Len(s) = c
  <1>1. s = [i \in 1..c |-> s[i]] /\ \A i \in 1..c : s[i] \in 1..n
    OBVIOUS
  <1>2. [i \in 1..c |-> s[i]] \in Seq(1..n) /\ Len([i \in 1..c |-> s[i]]) = c
    BY <1>1
  <1> QED  BY <1>1, <1>2

\* What subscribe and listen send: each entry of a set once, in order.
LEMMA BackwardsIs ==
  ASSUME NEW n \in Nat, NEW S \in SUBSET (1..n)
  PROVE  LET s == Backwards(S) IN
         /\ s \in Seq(1..n) /\ Len(s) = Cardinality(S)
         /\ \A k \in 1..Len(s) : s[k] \in S
         /\ \A x \in S : \E k \in 1..Len(s) : s[k] = x
         /\ \A k, l \in 1..Len(s) : s[k] = s[l] => k = l
  <1> DEFINE s == Backwards(S)
  <1>1. S \in SUBSET (0..n) /\ Cardinality(S) \in Nat
    <2>1. S \in SUBSET (0..n)  OBVIOUS
    <2> QED  BY <2>1, BoundedIsFinite
  <1>2. Descends(s, S)
    <2>1. PICK f : Descends(f, S)  BY <1>1, DescendingExists
    <2>2. f \in [1..Cardinality(S) -> S] /\ \A k, l \in DOMAIN f : k < l => f[k] > f[l]
      BY <2>1 DEF Descends
    <2>3. s \in [1..Cardinality(S) -> S] /\ \A k, l \in DOMAIN s : k < l => s[k] > s[l]
      BY <2>2 DEF Backwards
    <2> HIDE DEF s
    <2> QED  BY <2>3 DEF Descends
  <1> HIDE DEF s
  <1>3. (\A x \in S : \E k \in 1..Cardinality(S) : s[k] = x)
        /\ \A k, l \in 1..Cardinality(S) : s[k] = s[l] => k = l
    <2>1. Ordered(s, S)  BY <1>2 DEF Ordered
    <2>2. Lists(s, S)  BY <1>1, <2>1, OrderedIsOnto
    <2> QED  BY <2>2 DEF Lists
  <1>4. s \in [1..Cardinality(S) -> S]  BY <1>2 DEF Descends
  <1>5. s \in Seq(1..n) /\ Len(s) = Cardinality(S)
    BY <1>1, <1>4, ListIs
  <1> QED  BY <1>3, <1>4, <1>5 DEF s

LEMMA ForwardsIs ==
  ASSUME NEW n \in Nat, NEW S \in SUBSET (1..n)
  PROVE  LET s == Forwards(S) IN
         /\ s \in Seq(1..n) /\ Len(s) = Cardinality(S)
         /\ \A k \in 1..Len(s) : s[k] \in S
         /\ \A x \in S : \E k \in 1..Len(s) : s[k] = x
         /\ \A k, l \in 1..Len(s) : k < l => s[k] < s[l]
  <1> DEFINE s == Forwards(S)
  <1>1. S \in SUBSET (0..n) /\ Cardinality(S) \in Nat
    <2>1. S \in SUBSET (0..n)  OBVIOUS
    <2> QED  BY <2>1, BoundedIsFinite
  <1>2. Ascends(s, S)
    <2>1. PICK f : Ascends(f, S)  BY <1>1, AscendingExists
    <2>2. f \in [1..Cardinality(S) -> S] /\ \A k, l \in DOMAIN f : k < l => f[k] < f[l]
      BY <2>1 DEF Ascends
    <2>3. s \in [1..Cardinality(S) -> S] /\ \A k, l \in DOMAIN s : k < l => s[k] < s[l]
      BY <2>2 DEF Forwards
    <2> HIDE DEF s
    <2> QED  BY <2>3 DEF Ascends
  <1> HIDE DEF s
  <1>3. \A x \in S : \E k \in 1..Cardinality(S) : s[k] = x
    <2>1. Ordered(s, S)  BY <1>2 DEF Ordered
    <2>2. Lists(s, S)  BY <1>1, <2>1, OrderedIsOnto
    <2> QED  BY <2>2 DEF Lists
  <1>4. /\ s \in [1..Cardinality(S) -> S]
        /\ \A k, l \in 1..Cardinality(S) : k < l => s[k] < s[l]
    BY <1>2 DEF Ascends
  <1>5. s \in Seq(1..n) /\ Len(s) = Cardinality(S)
    BY <1>1, <1>4, ListIs
  <1> QED  BY <1>3, <1>4, <1>5 DEF s

\* subscribe has read: the newest entry of every endpoint is in the snapshot,
\* or too old for it.
LEMMA SnapshotStep ==
  ASSUME Inv, NEW p \in Process, Snapshot(p)
  PROVE  Inv'
  <1> DEFINE h == hub[p]
             S == LastOfEach(LastEntries(SnapLen))
             s == Backwards(S)
             q == [h EXCEPT !.snapshot = s, !.read = Len(log), !.failure = 0,
                            !.run = IF s = <<>> THEN "select" ELSE "send"]
             m == lost[p] \cup NewestBetween(0, Len(log) - SnapLen + 1)
  <1>1. /\ h \in HubRecord(Len(log)) /\ Len(log) \in Nat /\ Capacities(h) /\ Control(h)
        /\ Order(log, h) /\ lost[p] \in SUBSET Endpoint /\ log \in Seq(Endpoint)
        /\ faults \in 0..MaxFaults /\ Ahead(log, h, lost[p])
    BY Mine
  <1>2. h.run = "snapshot" /\ ~h.cancelled /\ h.sub
    BY <1>1 DEF Snapshot, Control
  <1>3. hub' = [hub EXCEPT ![p] = q] /\ lost' = [lost EXCEPT ![p] = m] /\ UNCHANGED <<log, faults>>
    BY DEF Snapshot
  <1>4. m \in SUBSET Endpoint /\ lost[p] \subseteq m  BY <1>1 DEF NewestBetween
  <1>5. S \in SUBSET (1..Len(log)) /\ SnapLen \in Nat
    BY <1>1, StreamAssumption DEF LastOfEach, LastEntries, Ids
  <1>6. /\ s \in Seq(1..Len(log))
        /\ \A k \in 1..Len(s) : s[k] \in S
        /\ \A x \in S : \E k \in 1..Len(s) : s[k] = x
        /\ \A j, k \in 1..Len(s) : s[j] = s[k] => j = k
    BY <1>1, <1>5, BackwardsIs
  <1> HIDE DEF s
  <1>7. q \in HubRecord(Len(log))
    <2>1. Len(log) \in -1..Len(log) /\ 0 \in 0..FailureLimit
      BY <1>1, StreamAssumption
    <2> QED  BY <1>1, <1>6, <2>1 DEF HubRecord
  <1>8. /\ q.snapshot = s /\ q.read = Len(log) /\ q.lastID = h.lastID /\ q.batch = h.batch
        /\ q.run = (IF s = <<>> THEN "select" ELSE "send") /\ q.cancelled = h.cancelled
        /\ q.cmd = h.cmd /\ q.sub = h.sub /\ q.pub = h.pub /\ q.upd = h.upd
        /\ q.listen = h.listen
    BY <1>1 DEF HubRecord
  <1> HIDE DEF q
  <1>9. Capacities(q) /\ Control(q)
    BY <1>1, <1>2, <1>8 DEF Capacities, Control
  <1>10. Order(log, q)
    <2>1. \A x, y \in S : log[x] = log[y] => x = y
      BY <1>5 DEF LastOfEach
    <2>2. \A j, k \in 1..Len(s) : log[s[j]] = log[s[k]] => j = k
      BY <1>6, <2>1
    <2> QED  BY <1>1, <1>8, <2>2 DEF Order
  <1>11. Ahead(log, q, m)
    <2> SUFFICES ASSUME q.listen = "send", Base(q) # -1, NEW ep \in Endpoint \ m,
                        NEW n \in 1..Len(log), IsNewest(log, ep, n), n > Base(q)
                 PROVE  n >= q.batch[1]
      BY DEF Ahead
    <2>1. CASE h.lastID = 0
      BY <1>1, <1>8, <2>1 DEF Base
    <2>2. CASE h.lastID # 0
      <3>1. Base(q) = Base(h) /\ Base(h) # -1 /\ n > Base(h)
        BY <1>8, <2>2 DEF Base
      <3> QED  BY <1>1, <1>4, <1>8, <3>1 DEF Ahead
    <2> QED  BY <2>1, <2>2
  <1>12. Arrives(log, q, m)
    <2> SUFFICES ASSUME NEW ep \in Endpoint \ m, NEW n \in 1..Len(log), IsNewest(log, ep, n)
                 PROVE  \E k \in 1..Len(s) : s[k] = n
      BY <1>8 DEF Arrives, OnItsWay
    <2>1. n >= Len(log) - SnapLen + 1
      <3>1. ep \notin NewestBetween(0, Len(log) - SnapLen + 1)  OBVIOUS
      <3>2. n <= 0 \/ n >= Len(log) - SnapLen + 1
        BY <1>1, <1>5, <3>1, BetweenIs
      <3> QED  BY <3>2
    <2>2. n \in LastEntries(SnapLen)
      BY <1>1, <1>5, <2>1 DEF LastEntries, Ids
    <2>3. n \in S
      BY <1>1, <2>2 DEF LastOfEach, LastEntries, Ids, IsNewest
    <2> QED  BY <1>6, <2>3
  <1>13. HubOK(log, q, m)  BY <1>7, <1>9, <1>10, <1>11, <1>12 DEF HubOK
  <1> HIDE DEF m
  <1> QED  BY <1>1, <1>3, <1>4, <1>13, HubMoves

\* No entry about ep that a process holds in its table or its updator's channel
\* is newer than the one Latest names.
LEMMA LatestIs ==
  ASSUME Inv, NEW p \in Process, NEW ep \in Endpoint
  PROVE  /\ Latest(p, ep) \in Nat /\ hub[p].table[ep] <= Latest(p, ep)
         /\ \A k \in 1..Len(hub[p].upd) :
              log[hub[p].upd[k]] = ep => hub[p].upd[k] <= Latest(p, ep)
  <1> DEFINE h == hub[p]
             is == {h.table[ep]} \cup {i \in {h.upd[k] : k \in DOMAIN h.upd} : log[i] = ep}
  <1>1. h \in HubRecord(Len(log)) /\ Len(log) \in Nat
    BY Mine
  <1>2. h.upd \in Seq(1..Len(log)) /\ h.table \in [Endpoint -> 0..Len(log)]
    BY <1>1, Fields
  <1>3. \A k \in 1..Len(h.upd) : h.upd[k] \in 1..Len(log)
    BY <1>2, ElementOfSeq
  <1>4. DOMAIN h.upd = 1..Len(h.upd)  BY <1>2
  <1>5. is \in SUBSET Nat /\ is # {} /\ \A x \in is : x <= Len(log)
    <2>1. h.table[ep] \in 0..Len(log)  BY <1>2
    <2>2. {h.upd[k] : k \in DOMAIN h.upd} \subseteq 1..Len(log)  BY <1>3, <1>4
    <2>3. is \subseteq 0..Len(log)  BY <1>1, <2>1, <2>2
    <2> QED  BY <1>1, <2>3
  <1>6. PICK x \in is : \A y \in is : y <= x
    <2> HIDE DEF is
    <2> QED  BY <1>1, <1>5, GreatestExists
  <1>7. Latest(p, ep) = CHOOSE i \in is : \A j \in is : j <= i
    BY DEF Latest
  <1>8. Latest(p, ep) \in is /\ \A y \in is : y <= Latest(p, ep)
    <2> HIDE DEF is
    <2> QED  BY <1>6, <1>7
  <1>9. h.table[ep] \in is /\ \A k \in 1..Len(h.upd) : log[h.upd[k]] = ep => h.upd[k] \in is
    BY <1>4
  <1> HIDE DEF is
  <1> QED  BY <1>5, <1>8, <1>9

\* An entry at the end of the updator's channel: nothing about another
\* endpoint moves, and the last entry about its own has nothing behind it.
LEMMA QueuedLast ==
  ASSUME NEW n \in Nat, NEW u, u \in Seq(1..n), NEW i \in 1..n
  PROVE  LET v == Append(u, i) IN
         /\ v \in Seq(1..n) /\ Len(v) = Len(u) + 1 /\ v[Len(v)] = i /\ Len(u) \in Nat
         /\ \A k \in 1..Len(u) : v[k] = u[k]
         /\ \A k \in 1..Len(v) : k \in 1..Len(u) \/ k = Len(v)
  OBVIOUS

\* A sequence without its first element.
LEMMA Shortened ==
  ASSUME NEW n \in Nat, NEW u, u \in Seq(1..n), u # <<>>
  PROVE  /\ Tail(u) \in Seq(1..n) /\ Len(u) \in Nat \ {0} /\ Len(Tail(u)) = Len(u) - 1
         /\ \A k \in 1..Len(Tail(u)) : k + 1 \in 1..Len(u) /\ Tail(u)[k] = u[k + 1]
         /\ u[1] \in 1..n /\ (Tail(u) = <<>> <=> Len(u) = 1)
  <1>1. /\ Tail(u) \in Seq(1..n) /\ Len(Tail(u)) = Len(u) - 1
        /\ \A k \in 1..Len(Tail(u)) : Tail(u)[k] = u[k + 1]
    BY HeadTailProperties
  <1>2. Len(u) \in Nat \ {0}  BY EmptySeq
  <1>3. u[1] \in 1..n  BY <1>2, ElementOfSeq
  <1>4. Tail(u) = <<>> <=> Len(u) = 1
    <2>1. Tail(u) # <<>> => Len(Tail(u)) \in Nat \ {0}  BY <1>1, EmptySeq
    <2>2. Len(<<>>) = 0  BY EmptySeq
    <2> QED  BY <1>1, <1>2, <2>1, <2>2
  <1> QED  BY <1>1, <1>2, <1>3, <1>4

\* subscribe sends what it read: in time, or the newer status it undoes counts
\* as missed.
LEMMA SendSnapshotStep ==
  ASSUME Inv, NEW p \in Process, SendSnapshot(p)
  PROVE  Inv'
  <1> DEFINE h == hub[p]
             i == h.snapshot[1]
             q == [h EXCEPT !.upd = Append(@, i), !.snapshot = Tail(@),
                            !.run = IF Len(h.snapshot) = 1 THEN "select" ELSE "send"]
             m == lost[p] \cup {ep \in {log[i]} : i < Latest(p, ep)}
  <1>1. /\ h \in HubRecord(Len(log)) /\ Len(log) \in Nat /\ Capacities(h) /\ Control(h)
        /\ Order(log, h) /\ lost[p] \in SUBSET Endpoint /\ log \in Seq(Endpoint)
        /\ faults \in 0..MaxFaults /\ Ahead(log, h, lost[p]) /\ Arrives(log, h, lost[p])
    BY Mine
  <1>2. /\ h.run = "send" /\ h.alive /\ Len(h.upd) < UpdCap
        /\ hub' = [hub EXCEPT ![p] = q] /\ lost' = [lost EXCEPT ![p] = m]
        /\ UNCHANGED <<log, faults>>
    BY DEF SendSnapshot
  <1>3. h.upd \in Seq(1..Len(log)) /\ h.snapshot \in Seq(1..Len(log)) /\ h.snapshot # <<>>
    BY <1>1, <1>2, Fields DEF Control
  <1> DEFINE u == h.upd
             v == Append(u, i)
             r == h.snapshot
             s == Tail(r)
  <1>4. /\ s \in Seq(1..Len(log)) /\ Len(r) \in Nat \ {0} /\ Len(s) = Len(r) - 1
        /\ \A k \in 1..Len(s) : k + 1 \in 1..Len(r) /\ s[k] = r[k + 1]
        /\ i \in 1..Len(log) /\ (s = <<>> <=> Len(r) = 1)
    BY <1>1, <1>3, Shortened
  <1>5. /\ v \in Seq(1..Len(log)) /\ Len(v) = Len(u) + 1 /\ v[Len(v)] = i /\ Len(u) \in Nat
        /\ \A k \in 1..Len(u) : v[k] = u[k]
        /\ \A k \in 1..Len(v) : k \in 1..Len(u) \/ k = Len(v)
    <2> HIDE DEF i
    <2> QED  BY <1>1, <1>3, <1>4, QueuedLast
  <1>6. q \in HubRecord(Len(log))
    BY <1>1, <1>4, <1>5 DEF HubRecord
  <1>7. /\ q.upd = v /\ q.snapshot = s /\ q.read = h.read /\ q.lastID = h.lastID
        /\ q.batch = h.batch /\ q.table = h.table /\ q.cancelled = h.cancelled
        /\ q.run = (IF Len(r) = 1 THEN "select" ELSE "send") /\ q.alive = h.alive
        /\ q.cmd = h.cmd /\ q.sub = h.sub /\ q.pub = h.pub /\ q.listen = h.listen
    BY <1>1 DEF HubRecord
  <1>8. log[i] \in Endpoint  BY <1>1, <1>4
  <1>9. m \in SUBSET Endpoint /\ lost[p] \subseteq m  BY <1>1, <1>8
  <1>10. log[i] \notin m => Latest(p, log[i]) <= i
    <2>1. Latest(p, log[i]) \in Nat  BY <1>8, LatestIs
    <2> QED  BY <1>4, <2>1
  <1> HIDE DEF q, m, v, s
  <1>11. Capacities(q) /\ Control(q)
    <2>1. Capacities(q)
      <3>1. UpdCap \in Nat  BY StreamAssumption
      <3> QED  BY <1>1, <1>2, <1>5, <1>7, <3>1 DEF Capacities
    <2>2. q.snapshot # <<>> <=> q.run = "send"  BY <1>4, <1>7
    <2>3. (q.run = "snapshot" \/ q.read # -1) /\ ~q.cancelled => q.sub
      BY <1>1, <1>7 DEF Control
    <2> QED  BY <1>1, <1>7, <2>1, <2>2, <2>3 DEF Control
  <1>12. Order(log, q)
    <2>1. \A j, k \in 1..Len(s) : log[s[j]] = log[s[k]] => j = k
      <3> SUFFICES ASSUME NEW j \in 1..Len(s), NEW k \in 1..Len(s), log[s[j]] = log[s[k]]
                   PROVE  j = k
        OBVIOUS
      <3>1. j + 1 \in 1..Len(r) /\ k + 1 \in 1..Len(r) /\ log[r[j + 1]] = log[r[k + 1]]
        BY <1>4
      <3>2. j + 1 = k + 1  BY <1>1, <3>1 DEF Order
      <3> QED  BY <3>2
    <2> QED  BY <1>1, <1>7, <2>1 DEF Order
  <1>13. Ahead(log, q, m)
    BY <1>1, <1>7, <1>9 DEF Ahead, Base
  <1>14. Arrives(log, q, m)
    <2> SUFFICES ASSUME Follows(q), NEW ep \in Endpoint \ m, NEW n \in 1..Len(log),
                        IsNewest(log, ep, n)
                 PROVE  OnItsWay(log, q, ep, n)
      BY DEF Arrives
    <2>1. OnItsWay(log, h, ep, n)
      BY <1>1, <1>7, <1>9 DEF Arrives, Follows
    <2>2. CASE n > Base(h)
      BY <1>7, <2>2 DEF OnItsWay, Base
    <2>3. CASE log[i] = ep /\ i = n
      <3>1. Len(v) \in 1..Len(v) /\ \A j \in 1..Len(v) : j <= Len(v)  BY <1>5
      <3> QED  BY <1>5, <1>7, <2>3, <3>1 DEF OnItsWay
    <2>4. CASE log[i] = ep /\ i # n
      <3>1. i < n /\ log[n] = ep  BY <1>4, <2>4 DEF IsNewest
      <3>2. Latest(p, ep) <= i  BY <1>10, <2>4
      <3>3. /\ Latest(p, ep) \in Nat /\ h.table[ep] <= Latest(p, ep)
            /\ \A k \in 1..Len(u) : log[u[k]] = ep => u[k] <= Latest(p, ep)
        BY LatestIs
      <3>4. ~(h.table[ep] = n)  BY <1>4, <3>1, <3>2, <3>3
      <3>5. \A k \in 1..Len(u) : u[k] # n  
        <4> SUFFICES ASSUME NEW k \in 1..Len(u), u[k] = n  PROVE FALSE
          OBVIOUS
        <4>1. n <= Latest(p, ep)  BY <3>1, <3>3
        <4> QED  BY <1>4, <3>1, <3>2, <3>3, <4>1
      <3>6. \A k \in 1..Len(r) : r[k] # n
        <4> SUFFICES ASSUME NEW k \in 1..Len(r), r[k] = n  PROVE FALSE
          OBVIOUS
        <4>1. 1 \in 1..Len(r) /\ r[1] = i  BY <1>4
        <4>2. log[r[1]] = log[r[k]]  BY <2>4, <3>1, <4>1
        <4>3. k = 1  BY <1>1, <4>1, <4>2 DEF Order
        <4> QED  BY <2>4, <4>1, <4>3
      <3>7. n > Base(h)  BY <2>1, <3>4, <3>5, <3>6 DEF OnItsWay
      <3> QED  BY <2>2, <3>7
    <2>5. CASE log[i] # ep /\ \E k \in 1..Len(r) : r[k] = n
      <3>1. PICK k \in 1..Len(r) : r[k] = n  BY <2>5
      <3>2. k # 1  BY <2>5, <3>1 DEF IsNewest
      <3>3. k - 1 \in 1..Len(s) /\ s[k - 1] = n  BY <1>4, <3>1, <3>2
      <3> QED  BY <1>7, <3>3 DEF OnItsWay
    <2>6. CASE log[i] # ep /\ (\A k \in 1..Len(u) : log[u[k]] # ep) /\ h.table[ep] = n
      BY <1>5, <1>7, <2>6 DEF OnItsWay
    <2>7. CASE /\ log[i] # ep
               /\ \E k \in 1..Len(u) :
                    u[k] = n /\ \A j \in 1..Len(u) : log[u[j]] = ep => j <= k
      <3>1. PICK k \in 1..Len(u) :
                   u[k] = n /\ \A j \in 1..Len(u) : log[u[j]] = ep => j <= k
        BY <2>7
      <3>2. k \in 1..Len(v) /\ v[k] = n  BY <1>5, <3>1
      <3>3. ASSUME NEW j \in 1..Len(v), log[v[j]] = ep  PROVE j <= k
        <4>1. j # Len(v)  BY <1>5, <2>7, <3>3
        <4>2. j \in 1..Len(u) /\ v[j] = u[j]  BY <1>5, <4>1
        <4> QED  BY <3>1, <3>3, <4>2
      <3> QED  BY <1>7, <3>2, <3>3 DEF OnItsWay
    <2> QED  BY <2>1, <2>2, <2>3, <2>4, <2>5, <2>6, <2>7 DEF OnItsWay
  <1>15. HubOK(log, q, m)  BY <1>6, <1>11, <1>12, <1>13, <1>14 DEF HubOK
  <1> QED  BY <1>1, <1>2, <1>9, <1>15, HubMoves

-----------------------------------------------------------------------------
(* listen and the updator                                                  *)

\* A batch leaves out no entry between its first and its last.
LEMMA BatchHasNoGap ==
  ASSUME Inv, NEW p \in Process, NEW x \in NextBatch(p), NEW y \in NextBatch(p),
         NEW z \in Nat, x < z, z < y
  PROVE  z \in NextBatch(p)
  <1> DEFINE h == hub[p]
             after == {i \in Ids : i > h.lastID /\ InStream(i)}
             Before(i) == {j \in after : j < i}
  <1>1. h \in HubRecord(Len(log)) /\ Len(log) \in Nat /\ log \in Seq(Endpoint)
    BY Mine
  <1>2. h.lastID \in 0..Len(log) /\ Ids = 1..Len(log)
    BY <1>1, Fields DEF Ids
  <1>3. CASE h.lastID = 0
    BY <1>1, <1>2, <1>3 DEF NextBatch, LastEntries
  <1>4. CASE h.lastID # 0
    <2>1. \A i : i \in NextBatch(p) <=> i \in after /\ Cardinality(Before(i)) < BatchLen
      BY <1>4 DEF NextBatch
    <2>2. after \subseteq 1..Len(log)  BY <1>2
    <2>3. x \in 1..Len(log) /\ y \in 1..Len(log) /\ x > h.lastID /\ x > Len(log) - MaxLen
      BY <1>2, <2>1 DEF InStream
    <2>4. z \in after
      <3>1. MaxLen \in Nat  BY StreamAssumption
      <3>2. z \in 1..Len(log) /\ z > h.lastID /\ z > Len(log) - MaxLen
        BY <1>1, <1>2, <2>3, <3>1
      <3> QED  BY <1>2, <3>2 DEF InStream
    <2> HIDE DEF after
    <2>5. Before(z) \subseteq Before(y)
      <3>1. \A j \in after : j < z => j < y  BY <1>1, <2>2, <2>3
      <3> QED  BY <3>1
    <2>6. Before(y) \in SUBSET (0..Len(log)) /\ Before(z) \in SUBSET (0..Len(log))
      <3>1. after \subseteq 0..Len(log)  BY <2>2
      <3> QED  BY <3>1
    <2> HIDE DEF Before
    <2>7. IsFiniteSet(Before(y)) /\ Cardinality(Before(y)) \in Nat
          /\ Cardinality(Before(z)) \in Nat
      BY <1>1, <2>6, BoundedIsFinite
    <2>8. Cardinality(Before(z)) <= Cardinality(Before(y))
      BY <2>5, <2>7, FS_Subset
    <2>9. BatchLen \in Nat  BY StreamAssumption
    <2> QED  BY <2>1, <2>4, <2>7, <2>8, <2>9
  <1> QED  BY <1>3, <1>4

\* listen reads a batch: what it passes over before the first entry counts as
\* missed.
LEMMA ReadStep ==
  ASSUME Inv, NEW p \in Process, Read(p)
  PROVE  Inv'
  <1> DEFINE h == hub[p]
             S == NextBatch(p)
             s == Forwards(S)
             from == IF h.lastID = 0 THEN h.read ELSE h.lastID
             q == [h EXCEPT !.batch = s, !.listen = "send"]
             m == lost[p] \cup (IF from = -1 THEN {} ELSE NewestBetween(from, s[1]))
  <1>1. /\ h \in HubRecord(Len(log)) /\ Len(log) \in Nat /\ Capacities(h) /\ Control(h)
        /\ Order(log, h) /\ lost[p] \in SUBSET Endpoint /\ log \in Seq(Endpoint)
        /\ faults \in 0..MaxFaults /\ Arrives(log, h, lost[p])
    BY Mine
  <1>2. /\ h.listen = "read" /\ S # {}
        /\ hub' = [hub EXCEPT ![p] = q] /\ lost' = [lost EXCEPT ![p] = m]
        /\ UNCHANGED <<log, faults>>
    BY DEF Read
  <1>3. S \in SUBSET (1..Len(log))
    BY <1>1 DEF NextBatch, LastEntries, Ids
  <1>4. /\ s \in Seq(1..Len(log))
        /\ \A k \in 1..Len(s) : s[k] \in S
        /\ \A x \in S : \E k \in 1..Len(s) : s[k] = x
        /\ \A k, l \in 1..Len(s) : k < l => s[k] < s[l]
    BY <1>1, <1>3, ForwardsIs
  <1>5. m \in SUBSET Endpoint /\ lost[p] \subseteq m
    BY <1>1 DEF NewestBetween
  <1>6. h.lastID \in 0..Len(log) /\ h.read \in -1..Len(log) /\ from = Base(h)
    BY <1>1, Fields DEF Base
  <1>7. Base(h) # -1 => NewestBetween(Base(h), s[1]) \subseteq m /\ Base(h) \in Nat
    BY <1>1, <1>6 DEF Base
  <1> HIDE DEF m, s, S
  <1>8. Len(s) \in Nat /\ s # <<>> /\ s[1] \in 1..Len(log)
    <2>1. PICK x \in S : TRUE  BY <1>2
    <2>2. PICK k \in 1..Len(s) : s[k] = x  BY <1>4, <2>1
    <2>3. Len(s) \in Nat  BY <1>4
    <2>4. Len(s) # 0  BY <2>2, <2>3
    <2>5. s # <<>>  BY <2>4, EmptySeq
    <2> QED  BY <1>4, <2>3, <2>4, <2>5
  <1>9. \A k \in 1..Len(s) - 1 : s[k + 1] = s[k] + 1
    <2> SUFFICES ASSUME NEW k \in 1..Len(s) - 1, s[k + 1] # s[k] + 1  PROVE FALSE
      OBVIOUS
    <2>1. k \in 1..Len(s) /\ k + 1 \in 1..Len(s)  BY <1>8
    <2>2. s[k] \in 1..Len(log) /\ s[k + 1] \in 1..Len(log) /\ s[k] < s[k + 1]
      BY <1>4, <2>1, ElementOfSeq
    <2>3. s[k] + 1 \in Nat /\ s[k] < s[k] + 1 /\ s[k] + 1 < s[k + 1]
      BY <1>1, <2>2
    <2>4. s[k] + 1 \in S
      <3>1. s[k] \in S /\ s[k + 1] \in S  BY <1>4, <2>1
      <3> QED  BY <2>3, <3>1, BatchHasNoGap DEF S
    <2>5. PICK l \in 1..Len(s) : s[l] = s[k] + 1  BY <1>4, <2>4
    <2>6. ~(l < k)  BY <1>4, <2>1, <2>2, <2>5
    <2>7. ~(k + 1 < l)
      <3>1. k + 1 < l => s[k + 1] < s[l]  BY <1>4, <2>1
      <3> QED  BY <2>2, <2>3, <2>5, <3>1
    <2>8. l = k \/ l = k + 1  BY <1>8, <2>6, <2>7
    <2> QED  BY <2>2, <2>3, <2>5, <2>8
  <1>10. q \in HubRecord(Len(log))
    BY <1>1, <1>4 DEF HubRecord
  <1>11. /\ q.batch = s /\ q.listen = "send" /\ q.read = h.read /\ q.lastID = h.lastID
         /\ q.snapshot = h.snapshot /\ q.upd = h.upd /\ q.table = h.table /\ q.run = h.run
         /\ q.cancelled = h.cancelled /\ q.cmd = h.cmd /\ q.sub = h.sub /\ q.pub = h.pub
         /\ q.alive = h.alive
    BY <1>1 DEF HubRecord
  <1> HIDE DEF q
  <1>12. Capacities(q) /\ Control(q)
    BY <1>1, <1>8, <1>11 DEF Capacities, Control
  <1>13. Order(log, q)
    BY <1>1, <1>9, <1>11 DEF Order
  <1>14. Ahead(log, q, m)
    <2> SUFFICES ASSUME Base(q) # -1, NEW ep \in Endpoint \ m,
                        NEW n \in 1..Len(log), IsNewest(log, ep, n), n > Base(q)
                 PROVE  n >= q.batch[1]
      BY DEF Ahead
    <2>1. Base(q) = Base(h)  BY <1>11 DEF Base
    <2>2. Base(h) \in Nat /\ ep \notin NewestBetween(Base(h), s[1])
      BY <1>7, <2>1
    <2>3. n <= Base(h) \/ n >= s[1]
      BY <1>1, <1>8, <2>2, BetweenIs
    <2> QED  BY <1>11, <2>1, <2>2, <2>3
  <1>15. Arrives(log, q, m)
    BY <1>1, <1>2, <1>5, <1>11 DEF Arrives, Follows, OnItsWay, Base
  <1>16. HubOK(log, q, m)  BY <1>10, <1>12, <1>13, <1>14, <1>15 DEF HubOK
  <1> QED  BY <1>1, <1>2, <1>5, <1>16, HubMoves

\* listen delivers an entry: the newest of its endpoint, or one that a later
\* entry of the stream will follow.
LEMMA DeliverStep ==
  ASSUME Inv, NEW p \in Process, Deliver(p)
  PROVE  Inv'
  <1> DEFINE h == hub[p]
             i == h.batch[1]
             q == [h EXCEPT !.lastID = i, !.batch = Tail(@),
                            !.listen = IF Len(h.batch) = 1 THEN "read" ELSE "send",
                            !.upd = IF h.sub THEN Append(@, i) ELSE @]
             m == IF h.sub THEN lost[p] \ {log[i]} ELSE lost[p]
  <1>1. /\ h \in HubRecord(Len(log)) /\ Len(log) \in Nat /\ Capacities(h) /\ Control(h)
        /\ Order(log, h) /\ lost[p] \in SUBSET Endpoint /\ log \in Seq(Endpoint)
        /\ faults \in 0..MaxFaults /\ Ahead(log, h, lost[p]) /\ Arrives(log, h, lost[p])
    BY Mine
  <1>2. /\ h.listen = "send" /\ h.alive /\ (h.sub => Len(h.upd) < UpdCap)
        /\ hub' = [hub EXCEPT ![p] = q] /\ lost' = [lost EXCEPT ![p] = m]
        /\ UNCHANGED <<log, faults>>
    BY DEF Deliver
  <1>3. /\ h.upd \in Seq(1..Len(log)) /\ h.batch \in Seq(1..Len(log)) /\ h.batch # <<>>
        /\ h.read \in -1..Len(log) /\ h.lastID \in 0..Len(log) /\ h.sub \in BOOLEAN
    BY <1>1, <1>2, Fields DEF Control
  <1> DEFINE u == h.upd
             v == Append(u, i)
             w == IF h.sub THEN v ELSE u
             r == h.batch
             s == Tail(r)
  <1>4. /\ s \in Seq(1..Len(log)) /\ Len(r) \in Nat \ {0} /\ Len(s) = Len(r) - 1
        /\ \A k \in 1..Len(s) : k + 1 \in 1..Len(r) /\ s[k] = r[k + 1]
        /\ i \in 1..Len(log) /\ (s = <<>> <=> Len(r) = 1)
    BY <1>1, <1>3, Shortened
  <1>5. /\ v \in Seq(1..Len(log)) /\ Len(v) = Len(u) + 1 /\ v[Len(v)] = i /\ Len(u) \in Nat
        /\ \A k \in 1..Len(u) : v[k] = u[k]
        /\ \A k \in 1..Len(v) : k \in 1..Len(u) \/ k = Len(v)
    <2> HIDE DEF i
    <2> QED  BY <1>1, <1>3, <1>4, QueuedLast
  <1>6. w \in Seq(1..Len(log)) /\ i \in 0..Len(log)
    <2>1. w \in {u, v}  OBVIOUS
    <2> HIDE DEF i, v, w
    <2> QED  BY <1>3, <1>4, <1>5, <2>1
  <1>7. q \in HubRecord(Len(log))
    BY <1>1, <1>4, <1>6 DEF HubRecord
  <1>8. /\ q.upd = w /\ q.batch = s /\ q.read = h.read /\ q.lastID = i
        /\ q.snapshot = h.snapshot /\ q.table = h.table /\ q.cancelled = h.cancelled
        /\ q.listen = (IF Len(r) = 1 THEN "read" ELSE "send") /\ q.alive = h.alive
        /\ q.cmd = h.cmd /\ q.sub = h.sub /\ q.pub = h.pub /\ q.run = h.run
    BY <1>1 DEF HubRecord
  <1>9. m \in SUBSET Endpoint  BY <1>1
  <1>10. Base(q) = i  BY <1>4, <1>8 DEF Base
  <1> HIDE DEF q, v, s
  <1>11. Capacities(q)
    <2>1. UpdCap \in Nat  BY StreamAssumption
    <2> QED  BY <1>1, <1>2, <1>5, <1>8, <2>1 DEF Capacities
  <1>12. Control(q)
    <2>1. q.batch # <<>> <=> q.listen = "send"  BY <1>4, <1>8
    <2> QED  BY <1>1, <1>8, <2>1 DEF Control
  <1>13. Order(log, q)
    <2>1. \A k \in 1..Len(s) - 1 : s[k + 1] = s[k] + 1
      <3> SUFFICES ASSUME NEW k \in 1..Len(s) - 1  PROVE s[k + 1] = s[k] + 1
        OBVIOUS
      <3>1. k \in 1..Len(s) /\ k + 1 \in 1..Len(s) /\ k + 1 \in 1..Len(r) - 1  BY <1>4
      <3>2. s[k] = r[k + 1] /\ s[k + 1] = r[(k + 1) + 1]  BY <1>4, <3>1
      <3>3. r[(k + 1) + 1] = r[k + 1] + 1  BY <1>1, <3>1 DEF Order
      <3> QED  BY <3>2, <3>3
    <2> QED  BY <1>1, <1>8, <2>1 DEF Order
  <1>14. Ahead(log, q, m)
    <2> SUFFICES ASSUME q.listen = "send", NEW n \in 1..Len(log), n > i  PROVE n >= q.batch[1]
      BY <1>10 DEF Ahead
    <2>1. 1 \in 1..Len(s) /\ 1 \in 1..Len(r) - 1  BY <1>4, <1>8
    <2>2. s[1] = r[1 + 1] /\ r[1 + 1] = r[1] + 1
      BY <1>1, <1>4, <2>1 DEF Order
    <2> QED  BY <1>4, <1>8, <2>2
  <1>15. Arrives(log, q, m)
    <2> SUFFICES ASSUME Follows(q), NEW ep \in Endpoint \ m, NEW n \in 1..Len(log),
                        IsNewest(log, ep, n)
                 PROVE  OnItsWay(log, q, ep, n)
      BY DEF Arrives
    <2>1. Follows(h) /\ h.sub  BY <1>1, <1>2, <1>8 DEF Follows, Control
    <2>2. q.upd = v  BY <1>8, <2>1
    <2>3. CASE n > i
      BY <1>10, <2>3 DEF OnItsWay
    <2>4. CASE n = i
      <3>1. Len(v) \in 1..Len(v) /\ \A j \in 1..Len(v) : j <= Len(v)  BY <1>5
      <3> QED  BY <1>5, <2>2, <2>4, <3>1 DEF OnItsWay
    <2>5. CASE n < i
      <3>1. log[i] # ep  BY <1>4, <2>5 DEF IsNewest
      <3>2. ep \in Endpoint \ lost[p]  BY <2>1, <3>1
      <3>3. OnItsWay(log, h, ep, n)  BY <1>1, <2>1, <3>2 DEF Arrives
      <3>4. ~(n > Base(h))
        <4>1. Base(h) # -1  BY <1>3, <2>1 DEF Base, Follows
        <4>2. n > Base(h) => n >= i  BY <1>1, <1>2, <3>2, <4>1 DEF Ahead
        <4> QED  BY <1>4, <2>5, <4>2
      <3>5. CASE \E k \in 1..Len(h.snapshot) : h.snapshot[k] = n
        BY <1>8, <3>5 DEF OnItsWay
      <3>6. CASE (\A k \in 1..Len(u) : log[u[k]] # ep) /\ h.table[ep] = n
        BY <1>5, <1>8, <2>2, <3>1, <3>6 DEF OnItsWay
      <3>7. CASE \E k \in 1..Len(u) : u[k] = n /\ \A j \in 1..Len(u) : log[u[j]] = ep => j <= k
        <4>1. PICK k \in 1..Len(u) :
                     u[k] = n /\ \A j \in 1..Len(u) : log[u[j]] = ep => j <= k
          BY <3>7
        <4>2. k \in 1..Len(v) /\ v[k] = n  BY <1>5, <4>1
        <4>3. ASSUME NEW j \in 1..Len(v), log[v[j]] = ep  PROVE j <= k
          <5>1. j # Len(v)  BY <1>5, <3>1, <4>3
          <5>2. j \in 1..Len(u) /\ v[j] = u[j]  BY <1>5, <5>1
          <5> QED  BY <4>1, <4>3, <5>2
        <4> QED  BY <2>2, <4>2, <4>3 DEF OnItsWay
      <3> QED  BY <3>3, <3>4, <3>5, <3>6, <3>7 DEF OnItsWay
    <2> QED  BY <1>4, <2>3, <2>4, <2>5
  <1>16. HubOK(log, q, m)  BY <1>7, <1>11, <1>12, <1>13, <1>14, <1>15 DEF HubOK
  <1> HIDE DEF m
  <1> QED  BY <1>1, <1>2, <1>9, <1>16, HubMoves

\* The updator applies a status: what was last in its channel is then in the
\* table with nothing behind it.
LEMMA UpdateStatusStep ==
  ASSUME Inv, NEW p \in Process, UpdateStatus(p)
  PROVE  Inv'
  <1> DEFINE h == hub[p]
             i == h.upd[1]
             q == [h EXCEPT !.upd = Tail(@), !.table[log[i]] = i]
  <1>1. /\ h \in HubRecord(Len(log)) /\ Len(log) \in Nat /\ Capacities(h) /\ Control(h)
        /\ Order(log, h) /\ lost[p] \in SUBSET Endpoint /\ log \in Seq(Endpoint)
        /\ faults \in 0..MaxFaults /\ Ahead(log, h, lost[p]) /\ Arrives(log, h, lost[p])
    BY Mine
  <1>2. h.upd # <<>> /\ hub' = [hub EXCEPT ![p] = q] /\ UNCHANGED <<log, faults, lost>>
    BY DEF UpdateStatus
  <1>3. h.upd \in Seq(1..Len(log)) /\ h.table \in [Endpoint -> 0..Len(log)]
    BY <1>1, Fields
  <1> DEFINE u == h.upd
             s == Tail(u)
             t == [h.table EXCEPT ![log[i]] = i]
  <1>4. /\ s \in Seq(1..Len(log)) /\ Len(u) \in Nat \ {0} /\ Len(s) = Len(u) - 1
        /\ \A k \in 1..Len(s) : k + 1 \in 1..Len(u) /\ s[k] = u[k + 1]
        /\ i \in 1..Len(log)
    BY <1>1, <1>2, <1>3, Shortened
  <1>5. /\ log[i] \in Endpoint /\ t \in [Endpoint -> 0..Len(log)] /\ t[log[i]] = i
        /\ \A ep \in Endpoint : ep # log[i] => t[ep] = h.table[ep]
    <2>1. log[i] \in Endpoint /\ i \in 0..Len(log)  BY <1>1, <1>4
    <2> HIDE DEF i
    <2> QED  BY <1>3, <2>1
  <1>6. q \in HubRecord(Len(log))
    BY <1>1, <1>4, <1>5 DEF HubRecord
  <1>7. /\ q.upd = s /\ q.table = t /\ q.read = h.read /\ q.lastID = h.lastID
        /\ q.batch = h.batch /\ q.snapshot = h.snapshot /\ q.cancelled = h.cancelled
        /\ q.run = h.run /\ q.alive = h.alive /\ q.cmd = h.cmd /\ q.sub = h.sub
        /\ q.pub = h.pub /\ q.listen = h.listen
    BY <1>1 DEF HubRecord
  <1> HIDE DEF q, s, t
  <1>8. Capacities(q) /\ Control(q)
    <2>1. UpdCap \in Nat  BY StreamAssumption
    <2>2. Len(q.upd) <= UpdCap  BY <1>1, <1>4, <1>7, <2>1 DEF Capacities
    <2> QED  BY <1>1, <1>7, <2>2 DEF Capacities, Control
  <1>9. Order(log, q) /\ Ahead(log, q, lost[p])
    BY <1>1, <1>7 DEF Order, Ahead, Base
  <1>10. Arrives(log, q, lost[p])
    <2> SUFFICES ASSUME Follows(q), NEW ep \in Endpoint \ lost[p], NEW n \in 1..Len(log),
                        IsNewest(log, ep, n)
                 PROVE  OnItsWay(log, q, ep, n)
      BY DEF Arrives
    <2>1. OnItsWay(log, h, ep, n)
      BY <1>1, <1>7 DEF Arrives, Follows
    <2>2. CASE n > Base(h) \/ \E k \in 1..Len(h.snapshot) : h.snapshot[k] = n
      BY <1>7, <2>2 DEF OnItsWay, Base
    <2>3. CASE (\A k \in 1..Len(u) : log[u[k]] # ep) /\ h.table[ep] = n
      <3>1. 1 \in 1..Len(u)  BY <1>4
      <3>2. log[i] # ep  BY <2>3, <3>1
      <3>3. \A k \in 1..Len(s) : log[s[k]] # ep  BY <1>4, <2>3
      <3>4. t[ep] = n  BY <1>5, <2>3, <3>2
      <3> QED  BY <1>7, <3>3, <3>4 DEF OnItsWay
    <2>4. CASE \E k \in 1..Len(u) : u[k] = n /\ \A j \in 1..Len(u) : log[u[j]] = ep => j <= k
      <3>1. PICK k \in 1..Len(u) :
                   u[k] = n /\ \A j \in 1..Len(u) : log[u[j]] = ep => j <= k
        BY <2>4
      <3>2. \A j \in 1..Len(s) : log[s[j]] = ep => j + 1 <= k
        BY <1>4, <3>1
      <3>3. CASE k = 1
        <4>1. n = i /\ log[i] = ep  BY <3>1, <3>3 DEF IsNewest
        <4>2. t[ep] = n  BY <1>5, <4>1
        <4>3. \A j \in 1..Len(s) : log[s[j]] # ep  BY <1>4, <3>2, <3>3
        <4> QED  BY <1>7, <4>2, <4>3 DEF OnItsWay
      <3>4. CASE k # 1
        <4>1. k - 1 \in 1..Len(s) /\ s[k - 1] = n  BY <1>4, <3>1, <3>4
        <4>2. \A j \in 1..Len(s) : log[s[j]] = ep => j <= k - 1  BY <1>4, <3>2
        <4> QED  BY <1>7, <4>1, <4>2 DEF OnItsWay
      <3> QED  BY <3>3, <3>4
    <2> QED  BY <2>1, <2>2, <2>3, <2>4 DEF OnItsWay
  <1>11. HubOK(log, q, lost[p])  BY <1>6, <1>8, <1>9, <1>10 DEF HubOK
  <1>12. lost' = [lost EXCEPT ![p] = lost[p]]  BY <1>2 DEF Inv
  <1> QED  BY <1>1, <1>2, <1>11, <1>12, HubMoves

-----------------------------------------------------------------------------
(* The theorems                                                            *)

LEMMA NextInv == Inv /\ [Next]_vars => Inv'
  <1> SUFFICES ASSUME Inv, [Next]_vars  PROVE Inv'
    OBVIOUS
  <1>1. CASE UNCHANGED vars
    BY <1>1 DEF vars, Inv
  <1>2. CASE Next
    <2>1. ASSUME NEW p \in Process, Run(p)  PROVE Inv'
      BY <2>1, StopSyncStep, XAddStep, XAddFailedStep, SubscribeStep, SnapshotStep,
         SnapshotFailedStep, SendSnapshotStep DEF Run
    <2>2. ASSUME NEW p \in Process, Listen(p)  PROVE Inv'
      BY <2>2, ReadStep, ReadFailedStep, DeliverStep DEF Listen
    <2>3. ASSUME NEW p \in Process,
                 Start(p) \/ StopSync(p) \/ UpdateStatus(p) \/ UpdatorDone(p)
          PROVE  Inv'
      BY <2>3, StartStep, StopSyncStep, UpdateStatusStep
    <2>4. ASSUME NEW ep \in Endpoint, XAddElsewhere(ep) \/ \E p \in Process : Fetch(p, ep)
          PROVE  Inv'
      BY <2>4, XAddElsewhereStep, FetchStep
    <2> QED  BY <1>2, <2>1, <2>2, <2>3, <2>4 DEF Next
  <1> QED  BY <1>1, <1>2

\* The inductive invariant holds in every reachable state.
THEOREM Invariance == Spec => []Inv
  BY InitInv, NextInv, PTL DEF Spec

\* Channels keep their capacities, Run gives up at the failure limit, and no
\* goroutine holds an id the stream has not given out.
THEOREM TypeCorrect == Spec => []TypeOK
  <1>1. Inv => TypeOK
    <2> SUFFICES ASSUME Inv  PROVE TypeOK
      OBVIOUS
    <2>1. /\ log \in Seq(Endpoint) /\ Len(log) <= MaxEntries /\ Ids = 1..Len(log)
          /\ faults \in 0..MaxFaults /\ lost \in [Process -> SUBSET Endpoint]
      BY DEF Inv, Ids
    <2>2. ASSUME NEW p \in Process
          PROVE  LET h == hub[p] IN
                 /\ {h.alive, h.cancelled, h.sub} \subseteq BOOLEAN
                 /\ h.run \in {"off", "select", "snapshot", "send", "done", "panic"}
                 /\ h.listen \in {"off", "read", "send", "done"}
                 /\ h.updator \in {"off", "run", "done"}
                 /\ h.cmd \subseteq {"sub", "unsub"}
                 /\ h.pub \in Seq(Endpoint) /\ Len(h.pub) <= PubCap
                 /\ h.upd \in Seq(Ids) /\ Len(h.upd) <= UpdCap
                 /\ h.snapshot \in Seq(Ids) /\ h.batch \in Seq(Ids)
                 /\ h.failure \in 0..FailureLimit
                 /\ h.read \in -1..Len(log) /\ h.lastID \in 0..Len(log)
                 /\ h.table \in [Endpoint -> 0..Len(log)]
      <3>1. hub[p] \in HubRecord(Len(log)) /\ Capacities(hub[p]) /\ Len(log) \in Nat
        BY Mine
      <3>2. hub[p].updator \in {"off", "run", "done"}  BY <3>1 DEF HubRecord
      <3> QED  BY <2>1, <3>1, <3>2, Fields DEF Capacities
    <2> QED  BY <2>1, <2>2 DEF TypeOK
  <1> QED  BY <1>1, Invariance, PTL

\* However many processes publish, at whatever speed, restart, fail to reach
\* redis or find the stream trimmed: a process that follows the stream has the
\* newest status of every endpoint it is not known to have missed in its table,
\* on its way there with nothing older behind it, or still to read.
THEOREM NothingGetsLost == Spec => []NewestIsOnItsWay
  <1>1. Inv => NewestIsOnItsWay
    <2> SUFFICES ASSUME Inv, NEW p \in Process, NEW ep \in Endpoint,
                        Following(p), NewestOf(ep) # 0, ep \notin lost[p]
                 PROVE  LET h == hub[p]
                            n == NewestOf(ep)
                            queued == {k \in DOMAIN h.upd : log[h.upd[k]] = ep}
                        IN \/ n > IF h.lastID = 0 THEN h.read ELSE h.lastID
                           \/ \E k \in DOMAIN h.snapshot : h.snapshot[k] = n
                           \/ queued = {} /\ h.table[ep] = n
                           \/ \E k \in queued : h.upd[k] = n /\ \A l \in queued : l <= k
      BY DEF NewestIsOnItsWay
    <2> DEFINE h == hub[p]
               n == NewestOf(ep)
               queued == {k \in DOMAIN h.upd : log[h.upd[k]] = ep}
    <2>1. /\ h \in HubRecord(Len(log)) /\ Len(log) \in Nat /\ log \in Seq(Endpoint)
          /\ Arrives(log, h, lost[p])
      BY Mine
    <2>2. h.upd \in Seq(1..Len(log)) /\ h.snapshot \in Seq(1..Len(log))
      BY <2>1, Fields
    <2>3. DOMAIN h.upd = 1..Len(h.upd) /\ DOMAIN h.snapshot = 1..Len(h.snapshot)
      BY <2>2
    <2>4. IsNewest(log, ep, n) /\ n \in 1..Len(log)
      BY <2>1, NewestIs DEF IsNewest
    <2> HIDE DEF n
    <2>5. OnItsWay(log, h, ep, n)
      BY <2>1, <2>4 DEF Arrives, Follows, Following
    <2>6. CASE n > Base(h) \/ \E k \in 1..Len(h.snapshot) : h.snapshot[k] = n
      BY <2>3, <2>6 DEF n, Base
    <2>7. CASE (\A k \in 1..Len(h.upd) : log[h.upd[k]] # ep) /\ h.table[ep] = n
      <3>1. queued = {} /\ h.table[ep] = n  BY <2>3, <2>7
      <3> QED  BY <3>1 DEF n
    <2>8. CASE \E k \in 1..Len(h.upd) :
                 h.upd[k] = n /\ \A j \in 1..Len(h.upd) : log[h.upd[j]] = ep => j <= k
      <3>1. PICK k \in 1..Len(h.upd) :
                   h.upd[k] = n /\ \A j \in 1..Len(h.upd) : log[h.upd[j]] = ep => j <= k
        BY <2>8
      <3>2. k \in queued /\ \A l \in queued : l <= k
        BY <2>3, <2>4, <3>1 DEF IsNewest
      <3>3. \E k1 \in queued : h.upd[k1] = n /\ \A l \in queued : l <= k1
        BY <3>1, <3>2
      <3> QED  BY <3>3 DEF n
    <2> QED  BY <2>5, <2>6, <2>7, <2>8 DEF OnItsWay
  <1> QED  BY <1>1, Invariance, PTL
=============================================================================
