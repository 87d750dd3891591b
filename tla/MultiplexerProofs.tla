-------------------------- MODULE MultiplexerProofs --------------------------
(***************************************************************************)
(* Proofs about Multiplexer, for every configuration, every number of      *)
(* handlers and all heights.                                               *)
(***************************************************************************)
EXTENDS Multiplexer, FiniteSetTheorems, SequenceTheorems, WellFoundedInduction, TLAPS

-----------------------------------------------------------------------------
(* The inductive invariant, in parts *)

\* Control: what is known at each point of updateStatus ...
UpdatorControl ==
  /\ updPc # "recv" => cs \in Status /\ added = Endpoint
  /\ updPc \notin {"recv", "begin"} => cs.EndpointName \in Endpoint
  /\ updPc \in {"tip", "retip"} =>
       /\ cs.Blockhead \in Height
       /\ blockhead[cs.EndpointName] = cs.Blockhead
  /\ updPc # "reset" => todo = {}
  /\ updPc \notin {"reset", "store"} => wbuf = <<>>
  /\ updPc = "reset" => todo \subseteq Items(ChainOf[cs.EndpointName])
  /\ added # Endpoint => \A ep \in Endpoint : healthy[ep]

\* ... and of the selection of handler h.
ControlOf(h) ==
  /\ hpc[h] # "idle" => req[h] \in Request /\ added = Endpoint
  /\ hpc[h] \in {"health", "head", "found"} => cand[h] \in Items(req[h].chain)

HandlerControl == \A h \in Handler : ControlOf(h)

\* A table is well formed even while it is being replaced.
WellFormed(t, c) ==
  /\ LaysOut(t, Names(t))
  /\ Names(t) \subseteq Items(c)

\* The tables in memory and the one being built.
TableParts ==
  /\ \A c \in Chain : WellFormed(weights[c], c)
  /\ \A c \in Chain :
       ~Rebuilding(c) =>
         /\ wlen[c] = Len(weights[c])
         /\ Names(weights[c]) = {ep \in added \cap Items(c) : healthy[ep]}
  /\ updPc \in {"reset", "store"} =>
       LaysOut(wbuf, {ep \in Items(ChainOf[cs.EndpointName]) \ todo : healthy[ep]})
  /\ updPc = "reset" =>
       wlen[ChainOf[cs.EndpointName]] = Len(weights[ChainOf[cs.EndpointName]])
  /\ updPc = "store" => wlen[ChainOf[cs.EndpointName]] = Len(wbuf)

\* While a head that did not fall waits to be compared with the maximum,
\* the maximum is that of the other endpoints, or not above the new head.
TipParts ==
  /\ TipIsHighest
  /\ updPc = "tip" =>
       LET c == ChainOf[cs.EndpointName]
           others == Items(c) \ {cs.EndpointName}
       IN /\ \A ep \in others : blockhead[ep] # Nil => blockhead[ep] <= maxTip[c]
          /\ \/ maxTip[c] <= cs.Blockhead
             \/ \E ep \in others : blockhead[ep] = maxTip[c]

Selecting == {"pick", "draw", "health", "head", "scan", "miss"}

\* The endpoints that stayed fit are still ahead of the selection.
SelectionOf(h) ==
  /\ hpc[h] \in Selecting => \A ep \in steady[h] :
       /\ ep \in Items(req[h].chain)
       /\ Available(ep, req[h], height[h])
  /\ hpc[h] \in {"pick", "draw"} => steady[h] \subseteq Names(weights[req[h].chain])
  /\ hpc[h] = "draw" => WellFormed(tbl[h], req[h].chain)
  /\ hpc[h] \in {"health", "head"} => steady[h] \subseteq left[h] \cup {cand[h]}
  /\ hpc[h] = "scan" => steady[h] \subseteq left[h]
  /\ hpc[h] \in {"health", "head", "scan"} => left[h] \subseteq Items(req[h].chain)
  /\ hpc[h] = "miss" => torn[h] \/ steady[h] = {}

SelectionParts == \A h \in Handler : SelectionOf(h)

Inv ==
  /\ TypeOK
  /\ UpdatorControl
  /\ HandlerControl
  /\ TableParts
  /\ TipParts
  /\ SelectionParts

-----------------------------------------------------------------------------
(* Weight tables *)

\* EffectiveWeight: the weight of the configuration, or 100, is positive.
LEMMA WeightIsPositive ==
  ASSUME NEW ep \in Endpoint
  PROVE  EffectiveWeight(ep) \in Nat \ {0}
BY ConfigAssumption DEF EffectiveWeight

\* appendWeights and the loop of resetWeights keep a table well laid out.
LEMMA AppendLaysOut ==
  ASSUME NEW t \in Seq(Weight), NEW S, LaysOut(t, S),
         NEW ep \in Endpoint, ep \notin S
  PROVE  /\ AppendWeight(t, ep) \in Seq(Weight)
         /\ LaysOut(AppendWeight(t, ep), S \cup {ep})
         /\ Len(AppendWeight(t, ep)) = Len(t) + 1
<1> DEFINE e == [EpName |-> ep, AggregateValue |-> WeightLimit(t) + EffectiveWeight(ep)]
           u == AppendWeight(t, ep)
<1>1. Len(t) \in Nat /\ DOMAIN t = 1..Len(t) /\ \A i \in 1..Len(t) : t[i] \in Weight
  BY ElementOfSeq, LenProperties
<1>2. WeightLimit(t) \in Nat
  BY <1>1 DEF WeightLimit, Weight
<1>3. e \in Weight
  BY <1>2, WeightIsPositive DEF Weight
<1>4. u = Append(t, e)
  BY DEF AppendWeight
<1>5. /\ u \in Seq(Weight)
      /\ Len(u) = Len(t) + 1
      /\ \A i \in 1..Len(t) : u[i] = t[i]
      /\ u[Len(t) + 1] = e
  <2> HIDE DEF e, u
  <2>. QED BY <1>3, <1>4, AppendProperties
<1>6. DOMAIN u = 1..(Len(t) + 1)
  <2> HIDE DEF u
  <2>. QED BY <1>5, LenProperties
<1> HIDE DEF u
<1>7. Names(u) = S \cup {ep}
  <2>1. ASSUME NEW n \in Names(u) PROVE n \in S \cup {ep}
    <3>1. PICK i \in DOMAIN u : n = u[i].EpName
      BY <2>1 DEF Names
    <3>2. CASE i \in 1..Len(t)
      BY <3>1, <3>2, <1>1, <1>5 DEF Names, LaysOut
    <3>3. CASE i = Len(t) + 1
      BY <3>1, <3>3, <1>5
    <3>. QED BY <3>2, <3>3, <1>1, <1>6
  <2>2. ASSUME NEW n \in S PROVE n \in Names(u)
    <3>1. PICK i \in DOMAIN t : n = t[i].EpName
      BY <2>2 DEF Names, LaysOut
    <3>. QED BY <3>1, <1>1, <1>5, <1>6 DEF Names
  <2>3. ep \in Names(u)
    <3>1. Len(t) + 1 \in DOMAIN u /\ u[Len(t) + 1].EpName = ep
      BY <1>1, <1>5, <1>6
    <3>. QED BY <3>1 DEF Names
  <2>. QED BY <2>1, <2>2, <2>3
<1>8. ASSUME NEW i \in DOMAIN u, NEW j \in DOMAIN u, u[i].EpName = u[j].EpName
      PROVE  i = j
  <2>1. \A k \in 1..Len(t) : u[k].EpName \in S
    BY <1>1, <1>5 DEF Names, LaysOut
  <2>2. u[Len(t) + 1].EpName = ep
    BY <1>5
  <2>3. CASE i \in 1..Len(t) /\ j \in 1..Len(t)
    BY <2>3, <1>1, <1>5, <1>8 DEF LaysOut
  <2>. QED BY <2>1, <2>2, <2>3, <1>1, <1>6, <1>8
<1>9. ASSUME NEW i \in DOMAIN u
      PROVE  u[i].AggregateValue = EffectiveWeight(u[i].EpName)
                                   + IF i = 1 THEN 0 ELSE u[i - 1].AggregateValue
  <2>1. CASE i \in 1..Len(t)
    <3>1. i # 1 => i - 1 \in 1..Len(t)
      BY <2>1, <1>1
    <3>. QED BY <3>1, <2>1, <1>1, <1>5 DEF LaysOut
  <2>2. CASE i = Len(t) + 1
    <3>1. u[i].AggregateValue = WeightLimit(t) + EffectiveWeight(ep) /\ u[i].EpName = ep
      BY <2>2, <1>5
    <3>2. CASE Len(t) = 0
      <4>1. WeightLimit(t) = 0 /\ i = 1
        BY <3>2, <2>2 DEF WeightLimit
      <4>. QED BY <4>1, <3>1, WeightIsPositive
    <3>3. CASE Len(t) # 0
      <4>1. WeightLimit(t) = t[Len(t)].AggregateValue /\ i # 1 /\ i - 1 = Len(t)
        BY <3>3, <2>2, <1>1 DEF WeightLimit
      <4>2. u[i - 1] = t[Len(t)]
        BY <4>1, <3>3, <1>1, <1>5
      <4>. QED BY <4>1, <4>2, <3>1, <1>2, WeightIsPositive
    <3>. QED BY <3>2, <3>3
  <2>. QED BY <2>1, <2>2, <1>1, <1>6
<1>10. LaysOut(u, S \cup {ep})
  BY <1>7, <1>8, <1>9 DEF LaysOut
<1>. QED BY <1>5, <1>10 DEF u

\* The first table is empty, and so is each table resetWeights starts with.
LEMMA EmptyLaysOut == <<>> \in Seq(Weight) /\ LaysOut(<<>>, {}) /\ Names(<<>>) = {}
BY EmptySeq DEF LaysOut, Names

\* WeightedRandom draws only endpoints of the table it is given.
LEMMA DrawIsListed ==
  ASSUME NEW t \in Seq(Weight), NEW ep \in WeightedRandom(t), WeightLimit(t) > 0
  PROVE  ep \in Names(t)
<1>1. Len(t) \in Nat /\ DOMAIN t = 1..Len(t) /\ \A i \in 1..Len(t) : t[i] \in Weight
  BY ElementOfSeq, LenProperties
<1>2. WeightLimit(t) \in Nat
  BY <1>1 DEF WeightLimit, Weight
<1>3. PICK w \in 0..(WeightLimit(t) - 1) : ep = WeightSearch(t, w)
  BY DEF WeightedRandom
<1> DEFINE hits == {i \in DOMAIN t : t[i].AggregateValue > w}
<1>4. Len(t) \in hits
  BY <1>1, <1>2, <1>3 DEF WeightLimit, Weight
<1>5. hits \subseteq Nat /\ hits # {}
  BY <1>1, <1>4
<1>6. \E i \in hits : \A j \in hits : i <= j
  <2> HIDE DEF hits
  <2>1. PICK i \in hits : \A j \in hits : <<j, i>> \notin OpToRel(<, Nat)
    BY <1>5, WFMin, NatLessThanWellFounded, Zenon
  <2>2. \A j \in hits : ~(j < i)
    BY <1>5, <2>1, Zenon DEF OpToRel
  <2>. QED BY <2>2, <1>5
<1>7. ep = t[CHOOSE i \in hits : \A j \in hits : i <= j].EpName
  BY <1>2, <1>3, <1>4 DEF WeightSearch
<1>. QED BY <1>6, <1>7 DEF Names

\* A prefix of a well laid out table is positive: it can be drawn from.
LEMMA PrefixIsPositive ==
  ASSUME NEW t \in Seq(Weight), LaysOut(t, Names(t)), Names(t) \subseteq Endpoint,
         NEW n \in 1..Len(t)
  PROVE  /\ SubSeq(t, 1, n) \in Seq(Weight)
         /\ WeightLimit(SubSeq(t, 1, n)) > 0
         /\ Names(SubSeq(t, 1, n)) \subseteq Names(t)
<1>1. Len(t) \in Nat /\ DOMAIN t = 1..Len(t) /\ \A i \in 1..Len(t) : t[i] \in Weight
  BY ElementOfSeq, LenProperties
<1> DEFINE s == SubSeq(t, 1, n)
<1>2. /\ s \in Seq(Weight)
      /\ Len(s) = n
      /\ \A i \in 1..n : s[i] = t[i]
  BY <1>1, SubSeqProperties
<1>3. DOMAIN s = 1..n
  BY <1>1, <1>2, LenProperties
<1> HIDE DEF s
<1>4. t[n].AggregateValue > 0
  <2>1. t[n].AggregateValue = EffectiveWeight(t[n].EpName)
                              + IF n = 1 THEN 0 ELSE t[n - 1].AggregateValue
    BY <1>1 DEF LaysOut
  <2>2. n # 1 => t[n - 1].AggregateValue \in Nat
    BY <1>1 DEF Weight
  <2>3. t[n].EpName \in Endpoint
    BY <1>1 DEF Weight
  <2>. QED BY <2>1, <2>2, <2>3, WeightIsPositive
<1>5. WeightLimit(s) > 0
  BY <1>1, <1>2, <1>4 DEF WeightLimit
<1>6. Names(s) \subseteq Names(t)
  BY <1>1, <1>2, <1>3 DEF Names
<1>. QED BY <1>2, <1>5, <1>6 DEF s

-----------------------------------------------------------------------------
(* What the invariant gives to every step *)

\* Requests and statuses have the fields the actions read.
LEMMA Fields ==
  /\ \A r \in Request : r.chain \in Chain /\ r.method \in Method /\ r.heightSpec \in Int
  /\ \A st \in Status : /\ st.EndpointName \in Endpoint \cup Foreign
                         /\ st.Healthy \in BOOLEAN
                         /\ st.Blockhead \in Height \cup {Nil}
  /\ \A c \in Chain : Items(c) \subseteq Endpoint
  /\ \A ep \in Endpoint : ChainOf[ep] \in Chain /\ ep \in Items(ChainOf[ep])
  /\ Nil \notin Endpoint /\ Nil \notin Height
BY RequestAssumption, ConfigAssumption, NilAssumption DEF Status, Items

\* A handler's step leaves the table and the updator alone.
LEMMA TableStutter ==
  ASSUME Inv, UNCHANGED <<tableVars, updVars>>
  PROVE  UpdatorControl' /\ TableParts' /\ TipParts'
<1> USE DEF tableVars, updVars
<1>1. UpdatorControl'
  BY DEF Inv, UpdatorControl
<1>2. TableParts'
  BY DEF Inv, TableParts, Rebuilding
<1>3. TipParts'
  BY DEF Inv, TipParts, TipIsHighest, IsTip
<1>. QED BY <1>1, <1>2, <1>3

\* An updator's step keeps what a selection relies on as long as the
\* histories are pruned and the table keeps the endpoints that stayed fit.
LEMMA SelectionStable ==
  ASSUME Inv, UNCHANGED selVars, added' = added,
         \A h \in Handler : steady'[h] \subseteq steady[h],
         \A h \in Handler : hpc[h] \in Selecting =>
            \A ep \in steady'[h] : Available(ep, req[h], height[h])',
         \A h \in Handler : hpc[h] \in {"pick", "draw"} =>
            steady'[h] \subseteq Names(weights'[req[h].chain])
  PROVE  HandlerControl' /\ SelectionParts'
<1>1. HandlerControl'
  BY DEF Inv, HandlerControl, ControlOf, selVars
<1>2. SelectionParts'
  <2> SUFFICES ASSUME NEW h \in Handler
               PROVE  /\ hpc[h] \in Selecting => \A ep \in steady'[h] :
                           /\ ep \in Items(req[h].chain)
                           /\ Available(ep, req[h], height[h])'
                      /\ hpc[h] \in {"pick", "draw"} =>
                           steady'[h] \subseteq Names(weights'[req[h].chain])
                      /\ hpc[h] = "draw" => WellFormed(tbl[h], req[h].chain)
                      /\ hpc[h] \in {"health", "head"} =>
                           steady'[h] \subseteq left[h] \cup {cand[h]}
                      /\ hpc[h] = "scan" => steady'[h] \subseteq left[h]
                      /\ hpc[h] \in {"health", "head", "scan"} =>
                           left[h] \subseteq Items(req[h].chain)
                      /\ hpc[h] = "miss" => torn[h] \/ steady'[h] = {}
    BY DEF SelectionParts, SelectionOf, selVars, Available, HighEnough, AtLeast, Provides
  <2>. QED BY DEF Inv, SelectionParts, SelectionOf
<1>. QED BY <1>1, <1>2

\* The pruning of the histories keeps only endpoints that are still fit.
LEMMA ObserveKeepsFit ==
  ASSUME Inv, NEW he, NEW bh, Observe(he, bh), healthy' = he, blockhead' = bh,
         UNCHANGED selVars
  PROVE  /\ steady' \in [Handler -> SUBSET Endpoint]
         /\ alive' \in [Handler -> SUBSET Endpoint]
         /\ \A h \in Handler : steady'[h] \subseteq steady[h]
         /\ \A h \in Handler : hpc[h] \in Selecting =>
              \A ep \in steady'[h] : Available(ep, req[h], height[h])'
<1>1. \A h \in Handler : steady[h] \subseteq Endpoint /\ alive[h] \subseteq Endpoint
  BY DEF Inv, TypeOK
<1>2. /\ steady' \in [Handler -> SUBSET Endpoint]
      /\ alive' \in [Handler -> SUBSET Endpoint]
      /\ \A h \in Handler : steady'[h] \subseteq steady[h]
  BY <1>1 DEF Observe
<1>3. ASSUME NEW h \in Handler, hpc[h] \in Selecting, NEW ep \in steady'[h]
      PROVE  Available(ep, req[h], height[h])'
  <2>1. he[ep] /\ AtLeast(bh[ep], height[h])
    BY <1>3 DEF Observe
  <2>2. Provides(ep, req[h])
    BY <1>2, <1>3 DEF Inv, SelectionParts, SelectionOf, Available
  <2>. QED BY <2>1, <2>2 DEF Available, HighEnough, selVars, Provides, AtLeast
<1>. QED BY <1>2, <1>3

-----------------------------------------------------------------------------
(* The initial state *)

\* No table, no status and no request is there at the start.
LEMMA InitInv == Init => Inv
<1> SUFFICES ASSUME Init PROVE Inv
  OBVIOUS
<1> USE DEF Init
<1>1. TypeOK
  BY EmptySeq DEF TypeOK, HandlerPc
<1>2. UpdatorControl
  BY DEF UpdatorControl
<1>3. HandlerControl
  BY DEF HandlerControl, ControlOf
<1>4. TableParts
  <2>1. \A c \in Chain : weights[c] = <<>> /\ wlen[c] = 0
    OBVIOUS
  <2>2. Len(<<>>) = 0
    OBVIOUS
  <2>. QED BY <2>1, <2>2, EmptyLaysOut DEF TableParts, WellFormed
<1>5. TipParts
  BY NilAssumption DEF TipParts, TipIsHighest, IsTip, Items
<1>6. SelectionParts
  BY DEF SelectionParts, SelectionOf, Selecting
<1>. QED BY <1>1, <1>2, <1>3, <1>4, <1>5, <1>6 DEF Inv

-----------------------------------------------------------------------------
(* Loading, and the steps of the updator *)

\* LoadFromConfig: the endpoint goes to the end of its chain's table.
LEMMA AddStep ==
  ASSUME Inv, NEW ep \in Endpoint, Add(ep)
  PROVE  Inv'
<1> USE DEF Add, updVars, selVars
<1> DEFINE c == ChainOf[ep]
<1>1. /\ c \in Chain /\ healthy[ep] /\ updPc = "recv" /\ added # Endpoint
      /\ weights[c] \in Seq(Weight) /\ wlen[c] = Len(weights[c])
      /\ \A h \in Handler : hpc[h] = "idle"
  BY Fields DEF Inv, UpdatorControl, HandlerControl, ControlOf, TypeOK, TableParts, Rebuilding
<1>2. /\ LaysOut(weights[c], Names(weights[c]))
      /\ ep \notin Names(weights[c])
      /\ Names(weights[c]) = {e \in added \cap Items(c) : healthy[e]}
  BY <1>1 DEF Inv, TableParts, WellFormed, Rebuilding
<1>3. /\ weights' = [weights EXCEPT ![c] = AppendWeight(weights[c], ep)]
      /\ wlen' = [wlen EXCEPT ![c] = wlen[c] + 1]
      /\ added' = added \cup {ep}
  BY <1>1
<1>4. /\ AppendWeight(weights[c], ep) \in Seq(Weight)
      /\ LaysOut(AppendWeight(weights[c], ep), Names(weights[c]) \cup {ep})
      /\ Len(AppendWeight(weights[c], ep)) = Len(weights[c]) + 1
  BY <1>1, <1>2, AppendLaysOut
<1>5. TypeOK'
  <2>1. weights' \in [Chain -> Seq(Weight)] /\ wlen' \in [Chain -> Nat]
    BY <1>1, <1>3, <1>4 DEF Inv, TypeOK
  <2>. QED BY <2>1 DEF Inv, TypeOK
<1>6. UpdatorControl'
  BY <1>1 DEF Inv, UpdatorControl
<1>7. HandlerControl'
  BY <1>1 DEF HandlerControl, ControlOf
<1>8. TableParts'
  <2>1. ASSUME NEW d \in Chain
        PROVE  /\ WellFormed(weights'[d], d)
               /\ wlen'[d] = Len(weights'[d])
               /\ Names(weights'[d]) = {e \in added' \cap Items(d) : healthy[e]}
    <3>1. /\ WellFormed(weights[d], d) /\ wlen[d] = Len(weights[d])
          /\ Names(weights[d]) = {e \in added \cap Items(d) : healthy[e]}
      BY <1>1 DEF Inv, TableParts, Rebuilding
    <3>2. CASE d # c
      <4>1. weights'[d] = weights[d] /\ wlen'[d] = wlen[d] /\ ep \notin Items(d)
        BY <3>2, <1>3 DEF Items, Inv, TypeOK
      <4>2. added' \cap Items(d) = added \cap Items(d)
        BY <4>1, <1>3
      <4>. QED BY <4>1, <4>2, <3>1
    <3>3. CASE d = c
      <4>1. weights'[d] = AppendWeight(weights[c], ep) /\ wlen'[d] = Len(weights[c]) + 1
        BY <3>3, <1>1, <1>3 DEF Inv, TypeOK
      <4>2. Names(weights'[d]) = Names(weights[c]) \cup {ep}
        BY <4>1, <1>4 DEF LaysOut
      <4>3. ep \in Items(c)
        BY Fields
      <4>4. Names(weights'[d]) = {e \in added' \cap Items(d) : healthy[e]}
        BY <4>2, <4>3, <3>3, <1>1, <1>2, <1>3
      <4>5. LaysOut(weights'[d], Names(weights'[d]))
        BY <4>1, <4>2, <1>4
      <4>6. Names(weights'[d]) \subseteq Items(d) /\ wlen'[d] = Len(weights'[d])
        BY <4>1, <4>4, <1>4
      <4>. QED BY <4>4, <4>5, <4>6 DEF WellFormed
    <3>. QED BY <3>2, <3>3
  <2>. QED BY <2>1, <1>1 DEF TableParts, Rebuilding
<1>9. TipParts'
  BY <1>1 DEF Inv, TipParts, TipIsHighest, IsTip
<1>10. SelectionParts'
  BY <1>1 DEF SelectionParts, SelectionOf, Selecting
<1>. QED BY <1>5, <1>6, <1>7, <1>8, <1>9, <1>10 DEF Inv

\* The steps that change neither the table nor the histories.
LEMMA QuietStep ==
  ASSUME Inv, UNCHANGED <<tableVars, selVars, steady>>
  PROVE  HandlerControl' /\ SelectionParts'
<1> USE DEF tableVars
<1>1. \A h \in Handler : hpc[h] \in Selecting =>
        \A ep \in steady'[h] : Available(ep, req[h], height[h])'
  BY DEF Inv, SelectionParts, SelectionOf, Available, HighEnough, AtLeast, Provides, selVars
<1>2. \A h \in Handler : hpc[h] \in {"pick", "draw"} =>
        steady'[h] \subseteq Names(weights'[req[h].chain])
  BY DEF Inv, SelectionParts, SelectionOf
<1>. QED BY <1>1, <1>2, SelectionStable

\* Receiving a status, dropping a foreign one, ending one without a block.
LEMMA ReceiveStep ==
  ASSUME Inv, NEW st \in Status, Receive(st)
  PROVE  Inv'
<1> USE DEF Receive
<1>1. TypeOK'
  BY DEF Inv, TypeOK, tableVars, selVars
<1>2. UpdatorControl'
  BY DEF Inv, UpdatorControl, Loaded, tableVars
<1>3. TableParts'
  BY DEF Inv, TableParts, Rebuilding, tableVars
<1>4. TipParts'
  BY DEF Inv, TipParts, TipIsHighest, IsTip, tableVars
<1>. QED BY <1>1, <1>2, <1>3, <1>4, QuietStep DEF Inv

\* updateStatus returns early.
LEMMA ReturnStep ==
  ASSUME Inv, DropUnknown \/ NoBlock
  PROVE  Inv'
<1>0. /\ updPc \in {"begin", "head"} /\ updPc' = "recv" /\ cs' = Nil
      /\ UNCHANGED <<tableVars, wbuf, todo, selVars, steady, alive>>
  BY DEF DropUnknown, NoBlock, Return
<1>1. TypeOK'
  BY <1>0 DEF Inv, TypeOK, tableVars, selVars
<1>2. UpdatorControl'
  BY <1>0 DEF Inv, UpdatorControl, tableVars
<1>3. TableParts'
  BY <1>0 DEF Inv, TableParts, Rebuilding, tableVars
<1>4. TipParts'
  BY <1>0 DEF Inv, TipParts, TipIsHighest, IsTip, tableVars
<1>. QED BY <1>0, <1>1, <1>2, <1>3, <1>4, QuietStep DEF Inv

\* The health flag changes and the table is to be rebuilt from nothing, or
\* it does not change and the table stays right.
LEMMA SetHealthyStep ==
  ASSUME Inv, SetHealthy
  PROVE  Inv'
<1> DEFINE ep == cs.EndpointName
           he == [healthy EXCEPT ![ep] = cs.Healthy]
<1>1. /\ updPc = "begin" /\ cs \in Status /\ ep \in Endpoint /\ added = Endpoint
      /\ todo = {} /\ wbuf = <<>>
  BY DEF Inv, UpdatorControl, SetHealthy
<1>2. /\ healthy' = he /\ Observe(he, blockhead)
      /\ cs.Healthy # healthy[ep] => updPc' = "reset" /\ todo' = Items(ChainOf[ep])
      /\ cs.Healthy = healthy[ep] => updPc' = "head" /\ todo' = todo
      /\ UNCHANGED <<added, blockhead, weights, wlen, maxTip, cs, wbuf, selVars>>
  BY DEF SetHealthy
<1>3. /\ ChainOf[ep] \in Chain /\ Items(ChainOf[ep]) \subseteq Endpoint
      /\ cs.Healthy \in BOOLEAN
  BY <1>1, Fields
<1>4. /\ steady' \in [Handler -> SUBSET Endpoint]
      /\ alive' \in [Handler -> SUBSET Endpoint]
      /\ \A h \in Handler : steady'[h] \subseteq steady[h]
      /\ \A h \in Handler : hpc[h] \in Selecting =>
           \A e \in steady'[h] : Available(e, req[h], height[h])'
  <2> HIDE DEF he
  <2>. QED BY <1>2, ObserveKeepsFit
<1>5. he \in [Endpoint -> BOOLEAN]
  BY <1>1, <1>3 DEF Inv, TypeOK
<1>6. TypeOK'
  <2>1. updPc' \in {"reset", "head"} /\ todo' \subseteq Endpoint
    BY <1>1, <1>2, <1>3
  <2> HIDE DEF he
  <2>. QED BY <2>1, <1>2, <1>4, <1>5 DEF Inv, TypeOK, selVars
<1>7. UpdatorControl'
  BY <1>1, <1>2 DEF UpdatorControl
<1>8. HandlerControl' /\ SelectionParts'
  <2>1. \A h \in Handler : hpc[h] \in {"pick", "draw"} =>
          steady'[h] \subseteq Names(weights'[req[h].chain])
    BY <1>2, <1>4 DEF Inv, SelectionParts, SelectionOf
  <2>. QED BY <2>1, <1>2, <1>4, SelectionStable
<1>9. TableParts'
  <2>1. \A c \in Chain : WellFormed(weights[c], c)
    BY DEF Inv, TableParts
  <2>2. \A c \in Chain : /\ wlen[c] = Len(weights[c])
                         /\ Names(weights[c]) = {e \in added \cap Items(c) : healthy[e]}
    BY <1>1 DEF Inv, TableParts, Rebuilding
  <2>3. CASE cs.Healthy = healthy[ep]
    <3>1. healthy' = healthy
      BY <2>3, <1>2, <1>1 DEF Inv, TypeOK
    <3>2. updPc' = "head"
      BY <2>3, <1>2
    <3>. QED BY <3>1, <3>2, <2>1, <2>2, <1>2 DEF TableParts
  <2>4. CASE cs.Healthy # healthy[ep]
    <3>1. updPc' = "reset" /\ todo' = Items(ChainOf[ep]) /\ cs' = cs /\ wbuf' = <<>>
      BY <2>4, <1>1, <1>2
    <3>2. LaysOut(<<>>, {e \in Items(ChainOf[ep]) \ Items(ChainOf[ep]) : healthy'[e]})
      <4>1. {e \in Items(ChainOf[ep]) \ Items(ChainOf[ep]) : healthy'[e]} = {}
        OBVIOUS
      <4>. QED BY <4>1, EmptyLaysOut
    <3>3. ASSUME NEW c \in Chain, c # ChainOf[ep]
          PROVE  Names(weights[c]) = {e \in added \cap Items(c) : healthy'[e]}
      <4>1. \A e \in Items(c) : healthy'[e] = healthy[e]
        BY <3>3, <1>2, <1>1 DEF Items, Inv, TypeOK
      <4>. QED BY <4>1, <2>2
    <3>. QED BY <3>1, <3>2, <3>3, <2>1, <2>2, <1>2, <1>3 DEF TableParts, Rebuilding
  <2>. QED BY <2>3, <2>4
<1>10. TipParts'
  BY <1>1, <1>2 DEF Inv, TipParts, TipIsHighest, IsTip
<1>. QED BY <1>6, <1>7, <1>8, <1>9, <1>10 DEF Inv

\* One iteration of resetWeights: the table under construction lists the
\* healthy endpoints among those visited.
LEMMA VisitItemStep ==
  ASSUME Inv, NEW ep \in Endpoint, VisitItem(ep)
  PROVE  Inv'
<1> DEFINE c == ChainOf[cs.EndpointName]
<1>1. /\ updPc = "reset" /\ cs \in Status /\ cs.EndpointName \in Endpoint
      /\ ep \in todo /\ todo \subseteq Items(c) /\ added = Endpoint
  BY DEF Inv, UpdatorControl, VisitItem
<1>2. /\ todo' = todo \ {ep}
      /\ wbuf' = IF healthy[ep] THEN AppendWeight(wbuf, ep) ELSE wbuf
      /\ UNCHANGED <<tableVars, updPc, cs, selVars, steady, alive>>
  BY DEF VisitItem
<1>3. /\ wbuf \in Seq(Weight)
      /\ LaysOut(wbuf, {e \in Items(c) \ todo : healthy[e]})
  BY <1>1 DEF Inv, TypeOK, TableParts
<1>4. /\ wbuf' \in Seq(Weight)
      /\ LaysOut(wbuf', {e \in Items(c) \ todo' : healthy[e]})
  <2>1. CASE healthy[ep]
    <3>1. {e \in Items(c) \ todo' : healthy[e]} = {e \in Items(c) \ todo : healthy[e]} \cup {ep}
      BY <2>1, <1>1, <1>2
    <3>2. ep \notin {e \in Items(c) \ todo : healthy[e]}
      BY <1>1
    <3>3. wbuf' = AppendWeight(wbuf, ep)
      BY <2>1, <1>2
    <3>4. /\ AppendWeight(wbuf, ep) \in Seq(Weight)
          /\ LaysOut(AppendWeight(wbuf, ep), {e \in Items(c) \ todo : healthy[e]} \cup {ep})
      <4> DEFINE S == {e \in Items(c) \ todo : healthy[e]}
      <4>1. LaysOut(wbuf, S) /\ ep \notin S
        BY <1>3, <3>2
      <4> HIDE DEF S
      <4>2. /\ AppendWeight(wbuf, ep) \in Seq(Weight)
            /\ LaysOut(AppendWeight(wbuf, ep), S \cup {ep})
        BY <4>1, <1>3, AppendLaysOut
      <4>. QED BY <4>2 DEF S
    <3>. QED BY <3>1, <3>3, <3>4
  <2>2. CASE ~healthy[ep]
    <3>1. {e \in Items(c) \ todo' : healthy[e]} = {e \in Items(c) \ todo : healthy[e]}
      BY <2>2, <1>1, <1>2
    <3>2. wbuf' = wbuf
      BY <2>2, <1>2
    <3>. QED BY <3>1, <3>2, <1>3
  <2>. QED BY <2>1, <2>2
<1>5. TypeOK'
  BY <1>2, <1>4 DEF Inv, TypeOK, tableVars, selVars
<1>6. UpdatorControl'
  BY <1>1, <1>2 DEF Inv, UpdatorControl, tableVars
<1>7. TableParts'
  <2>1. LaysOut(wbuf', {e \in Items(ChainOf[cs'.EndpointName]) \ todo' : healthy'[e]})
    BY <1>2, <1>4 DEF tableVars
  <2>. QED BY <2>1, <1>1, <1>2 DEF Inv, TableParts, Rebuilding, tableVars
<1>8. TipParts'
  BY <1>1, <1>2 DEF Inv, TipParts, TipIsHighest, IsTip, tableVars
<1>. QED BY <1>2, <1>5, <1>6, <1>7, <1>8, QuietStep DEF Inv

\* The length of the finished table is stored.
LEMMA StoreLengthStep ==
  ASSUME Inv, StoreLength
  PROVE  Inv'
<1> DEFINE c == ChainOf[cs.EndpointName]
<1>1. /\ updPc = "reset" /\ cs \in Status /\ cs.EndpointName \in Endpoint
      /\ c \in Chain /\ todo = {} /\ added = Endpoint
  BY Fields DEF Inv, UpdatorControl, StoreLength
<1>2. /\ wlen' = [wlen EXCEPT ![c] = Len(wbuf)]
      /\ updPc' = "store"
      /\ UNCHANGED <<added, healthy, blockhead, weights, maxTip, cs, wbuf, todo,
                     selVars, steady, alive>>
  BY DEF StoreLength
<1>3. wbuf \in Seq(Weight) /\ Len(wbuf) \in Nat
  BY LenProperties DEF Inv, TypeOK
<1>4. TypeOK'
  <2>1. wlen' \in [Chain -> Nat]
    BY <1>1, <1>2, <1>3 DEF Inv, TypeOK
  <2>. QED BY <2>1, <1>2 DEF Inv, TypeOK, selVars
<1>5. UpdatorControl'
  BY <1>1, <1>2 DEF Inv, UpdatorControl
<1>6. TableParts'
  <2>1. wlen'[c] = Len(wbuf) /\ \A d \in Chain : d # c => wlen'[d] = wlen[d]
    BY <1>1, <1>2 DEF Inv, TypeOK
  <2>. QED BY <2>1, <1>1, <1>2 DEF Inv, TableParts, Rebuilding
<1>7. TipParts'
  BY <1>1, <1>2 DEF Inv, TipParts, TipIsHighest, IsTip
<1>8. HandlerControl' /\ SelectionParts'
  <2>1. \A h \in Handler : hpc[h] \in Selecting =>
          \A e \in steady'[h] : Available(e, req[h], height[h])'
    BY <1>2 DEF Inv, SelectionParts, SelectionOf, Available, HighEnough, AtLeast, Provides, selVars
  <2>2. \A h \in Handler : hpc[h] \in {"pick", "draw"} =>
          steady'[h] \subseteq Names(weights'[req[h].chain])
    BY <1>2 DEF Inv, SelectionParts, SelectionOf
  <2>. QED BY <2>1, <2>2, <1>2, SelectionStable
<1>. QED BY <1>4, <1>5, <1>6, <1>7, <1>8 DEF Inv

\* The finished table is in place; it lists every endpoint that stayed fit.
LEMMA StoreArrayStep ==
  ASSUME Inv, StoreArray
  PROVE  Inv'
<1> DEFINE c == ChainOf[cs.EndpointName]
<1>1. /\ updPc = "store" /\ cs \in Status /\ cs.EndpointName \in Endpoint
      /\ c \in Chain /\ todo = {} /\ added = Endpoint
  BY Fields DEF Inv, UpdatorControl, StoreArray
<1>2. /\ weights' = [weights EXCEPT ![c] = wbuf]
      /\ updPc' = "head" /\ wbuf' = <<>>
      /\ UNCHANGED <<added, healthy, blockhead, wlen, maxTip, cs, todo, selVars,
                     steady, alive>>
  BY DEF StoreArray
<1>3. /\ wbuf \in Seq(Weight) /\ wlen[c] = Len(wbuf)
      /\ LaysOut(wbuf, {e \in Items(c) : healthy[e]})
      /\ Names(wbuf) = {e \in Items(c) : healthy[e]}
  <2>1. /\ wbuf \in Seq(Weight) /\ wlen[c] = Len(wbuf)
        /\ LaysOut(wbuf, {e \in Items(c) \ todo : healthy[e]})
    BY <1>1 DEF Inv, TypeOK, TableParts
  <2>2. {e \in Items(c) \ todo : healthy[e]} = {e \in Items(c) : healthy[e]}
    BY <1>1
  <2>. QED BY <2>1, <2>2 DEF LaysOut
<1>4. weights'[c] = wbuf /\ \A d \in Chain : d # c => weights'[d] = weights[d]
  BY <1>1, <1>2 DEF Inv, TypeOK
<1>5. TypeOK'
  <2>1. weights' \in [Chain -> Seq(Weight)]
    BY <1>1, <1>2, <1>3 DEF Inv, TypeOK
  <2>. QED BY <2>1, <1>2, EmptySeq DEF Inv, TypeOK, selVars
<1>6. UpdatorControl'
  BY <1>1, <1>2 DEF Inv, UpdatorControl
<1>7. TableParts'
  <2>1. ASSUME NEW d \in Chain
        PROVE  /\ WellFormed(weights'[d], d)
               /\ wlen[d] = Len(weights'[d])
               /\ Names(weights'[d]) = {e \in added \cap Items(d) : healthy[e]}
    <3>1. CASE d = c
      <4>1. Items(c) \subseteq Endpoint
        BY <1>1, Fields
      <4>2. {e \in Items(c) : healthy[e]} = {e \in added \cap Items(c) : healthy[e]}
        BY <4>1, <1>1
      <4>3. WellFormed(wbuf, c)
        BY <1>3 DEF WellFormed
      <4>. QED BY <4>2, <4>3, <3>1, <1>3, <1>4
    <3>2. CASE d # c
      <4>1. ~Rebuilding(d)
        BY <3>2 DEF Rebuilding
      <4>. QED BY <4>1, <3>2, <1>4 DEF Inv, TableParts
    <3>. QED BY <3>1, <3>2
  <2>. QED BY <2>1, <1>2 DEF TableParts
<1>8. TipParts'
  BY <1>1, <1>2 DEF Inv, TipParts, TipIsHighest, IsTip
<1>9. HandlerControl' /\ SelectionParts'
  <2>1. \A h \in Handler : hpc[h] \in Selecting =>
          \A e \in steady'[h] : Available(e, req[h], height[h])'
    BY <1>2 DEF Inv, SelectionParts, SelectionOf, Available, HighEnough, AtLeast, Provides, selVars
  <2>2. ASSUME NEW h \in Handler, hpc[h] \in {"pick", "draw"}
        PROVE  steady'[h] \subseteq Names(weights'[req[h].chain])
    <3>1. req[h].chain \in Chain
      BY <2>2, Fields DEF Inv, HandlerControl, ControlOf
    <3>2. /\ steady[h] \subseteq Names(weights[req[h].chain])
          /\ \A e \in steady[h] : e \in Items(req[h].chain) /\ healthy[e]
      BY <2>2 DEF Inv, SelectionParts, SelectionOf, Selecting, Available
    <3>3. steady[h] \subseteq Names(weights'[req[h].chain])
      BY <3>1, <3>2, <1>3, <1>4
    <3>. QED BY <3>3, <1>2
  <2>. QED BY <2>1, <2>2, <1>2, SelectionStable
<1>. QED BY <1>5, <1>6, <1>7, <1>8, <1>9 DEF Inv

\* A new head is stored: the maximum of the other endpoints is still known.
LEMMA SetBlockheadStep ==
  ASSUME Inv, SetBlockhead
  PROVE  Inv'
<1> DEFINE ep == cs.EndpointName
           c == ChainOf[ep]
           bh == [blockhead EXCEPT ![ep] = cs.Blockhead]
<1>1. /\ updPc = "head" /\ cs \in Status /\ ep \in Endpoint /\ added = Endpoint
      /\ todo = {} /\ wbuf = <<>>
      /\ c \in Chain /\ ep \in Items(c) /\ cs.Blockhead \in Height
  <2>1. /\ updPc = "head" /\ cs.Blockhead # Nil
    BY DEF SetBlockhead
  <2>2. /\ cs \in Status /\ ep \in Endpoint /\ added = Endpoint
        /\ todo = {} /\ wbuf = <<>>
    BY <2>1 DEF Inv, UpdatorControl
  <2>. QED BY <2>1, <2>2, Fields
<1>2. /\ blockhead' = bh /\ Observe(healthy, bh) /\ healthy' = healthy
      /\ updPc' = IF blockhead[ep] # Nil /\ blockhead[ep] > cs.Blockhead
                    THEN "retip" ELSE "tip"
      /\ UNCHANGED <<added, healthy, weights, wlen, maxTip, cs, wbuf, todo, selVars>>
  BY DEF SetBlockhead
<1>3. /\ bh \in [Endpoint -> Height \cup {Nil}]
      /\ bh[ep] = cs.Blockhead
      /\ \A e \in Endpoint : e # ep => bh[e] = blockhead[e]
      /\ blockhead \in [Endpoint -> Height \cup {Nil}]
      /\ \A d \in Chain : maxTip[d] \in Nat
  BY <1>1 DEF Inv, TypeOK
<1> HIDE DEF bh
<1>4. /\ steady' \in [Handler -> SUBSET Endpoint]
      /\ alive' \in [Handler -> SUBSET Endpoint]
      /\ \A h \in Handler : steady'[h] \subseteq steady[h]
      /\ \A h \in Handler : hpc[h] \in Selecting =>
           \A e \in steady'[h] : Available(e, req[h], height[h])'
  BY <1>2, ObserveKeepsFit
<1>5. updPc' \in {"tip", "retip"}
  BY <1>2
<1>6. TypeOK'
  BY <1>2, <1>3, <1>4, <1>5 DEF Inv, TypeOK, selVars
<1>7. UpdatorControl'
  BY <1>1, <1>2, <1>3, <1>5 DEF UpdatorControl
<1>8. HandlerControl' /\ SelectionParts'
  <2>1. \A h \in Handler : hpc[h] \in {"pick", "draw"} =>
          steady'[h] \subseteq Names(weights'[req[h].chain])
    BY <1>2, <1>4 DEF Inv, SelectionParts, SelectionOf
  <2>. QED BY <2>1, <1>2, <1>4, SelectionStable
<1>9. TableParts'
  BY <1>1, <1>2, <1>5 DEF Inv, TableParts, Rebuilding
<1>10. \A d \in Chain : IsTip(d, blockhead, maxTip[d])
  BY <1>1 DEF Inv, TipParts, TipIsHighest
<1>11. TipIsHighest'
  <2>1. ASSUME NEW d \in Chain, d # c PROVE IsTip(d, bh, maxTip[d])
    <3>1. \A e \in Items(d) : e \in Endpoint /\ e # ep
      BY <2>1, Fields DEF Items
    <3>2. \A e \in Items(d) : bh[e] = blockhead[e]
      BY <3>1, <1>3
    <3>. QED BY <3>2, <1>10 DEF IsTip
  <2>. QED BY <2>1, <1>2, <1>5 DEF TipIsHighest
<1>12. ASSUME updPc' = "tip"
       PROVE  LET others == Items(c) \ {ep}
              IN /\ \A e \in others : bh[e] # Nil => bh[e] <= maxTip[c]
                 /\ \/ maxTip[c] <= cs.Blockhead
                    \/ \E e \in others : bh[e] = maxTip[c]
  <2>1. \A e \in Items(c) \ {ep} : bh[e] = blockhead[e]
    BY <1>1, <1>3, Fields
  <2>2. \A e \in Items(c) \ {ep} : bh[e] # Nil => bh[e] <= maxTip[c]
    BY <2>1, <1>1, <1>10 DEF IsTip
  <2>3. blockhead[ep] = maxTip[c] => maxTip[c] <= cs.Blockhead
    <3>1. maxTip[c] # Nil /\ maxTip[c] \in Nat /\ cs.Blockhead \in Nat
      BY <1>1, <1>3, NilAssumption, ConfigAssumption
    <3>. QED BY <3>1, <1>2, <1>12
  <2>4. maxTip[c] = 0 => maxTip[c] <= cs.Blockhead
    <3>1. cs.Blockhead \in Nat
      BY <1>1, ConfigAssumption
    <3>. QED BY <3>1
  <2>5. maxTip[c] = 0 \/ \E e \in Items(c) : blockhead[e] = maxTip[c]
    BY <1>1, <1>10 DEF IsTip
  <2>. QED BY <2>1, <2>2, <2>3, <2>4, <2>5
<1>13. TipParts'
  BY <1>2, <1>11, <1>12 DEF TipParts
<1>. QED BY <1>6, <1>7, <1>8, <1>9, <1>13 DEF Inv

\* What both ways of storing a maximum have in common: if it is the tip of
\* the chain, updateStatus returns with everything in order.
LEMMA StoreTip ==
  ASSUME Inv, updPc \in {"tip", "retip"}, Return,
         NEW m \in Nat, maxTip' = [maxTip EXCEPT ![ChainOf[cs.EndpointName]] = m],
         IsTip(ChainOf[cs.EndpointName], blockhead, m),
         UNCHANGED <<added, healthy, blockhead, weights, wlen, wbuf, todo,
                     selVars, steady, alive>>
  PROVE  Inv'
<1> DEFINE c == ChainOf[cs.EndpointName]
<1>0. updPc' = "recv" /\ cs' = Nil
  BY DEF Return
<1>1. c \in Chain
  BY Fields DEF Inv, UpdatorControl
<1>2. maxTip' \in [Chain -> Nat] /\ maxTip'[c] = m /\ \A d \in Chain : d # c => maxTip'[d] = maxTip[d]
  BY <1>1 DEF Inv, TypeOK
<1>3. TypeOK'
  BY <1>0, <1>2 DEF Inv, TypeOK, selVars
<1>4. UpdatorControl'
  BY <1>0 DEF Inv, UpdatorControl
<1>5. TableParts'
  BY <1>0 DEF Inv, TableParts, Rebuilding
<1>6. TipParts'
  <2>1. \A d \in Chain : IsTip(d, blockhead, maxTip'[d])
    BY <1>2 DEF Inv, TipParts, TipIsHighest
  <2>. QED BY <2>1, <1>0 DEF TipParts, TipIsHighest
<1>7. HandlerControl' /\ SelectionParts'
  <2>1. \A h \in Handler : hpc[h] \in Selecting =>
          \A e \in steady'[h] : Available(e, req[h], height[h])'
    BY DEF Inv, SelectionParts, SelectionOf, Available, HighEnough, AtLeast, Provides, selVars
  <2>2. \A h \in Handler : hpc[h] \in {"pick", "draw"} =>
          steady'[h] \subseteq Names(weights'[req[h].chain])
    BY DEF Inv, SelectionParts, SelectionOf
  <2>. QED BY <2>1, <2>2, SelectionStable
<1>. QED BY <1>3, <1>4, <1>5, <1>6, <1>7 DEF Inv

\* Comparing the new head with the maximum is enough when it did not fall.
LEMMA RaiseStep ==
  ASSUME Inv, RaiseMaxTipHeight
  PROVE  Inv'
<1> DEFINE ep == cs.EndpointName
           c == ChainOf[ep]
           m == IF maxTip[c] < cs.Blockhead THEN cs.Blockhead ELSE maxTip[c]
<1>1. /\ updPc = "tip" /\ ep \in Endpoint /\ c \in Chain /\ ep \in Items(c)
      /\ cs.Blockhead \in Height /\ cs.Blockhead \in Nat
      /\ blockhead[ep] = cs.Blockhead
      /\ maxTip \in [Chain -> Nat] /\ maxTip[c] \in Nat
  BY Fields, ConfigAssumption DEF Inv, UpdatorControl, TypeOK, RaiseMaxTipHeight
<1>2. m \in Nat
  BY <1>1
<1>3. maxTip' = [maxTip EXCEPT ![c] = m]
  BY <1>1 DEF RaiseMaxTipHeight
<1>4. /\ \A e \in Items(c) \ {ep} : blockhead[e] # Nil => blockhead[e] <= maxTip[c]
      /\ \/ maxTip[c] <= cs.Blockhead
         \/ \E e \in Items(c) \ {ep} : blockhead[e] = maxTip[c]
  BY <1>1 DEF Inv, TipParts
<1>5. IsTip(c, blockhead, m)
  <2>1. m = 0 \/ \E e \in Items(c) : blockhead[e] = m
    <3>1. CASE maxTip[c] <= cs.Blockhead
      <4>1. m = cs.Blockhead
        BY <3>1, <1>1
      <4>. QED BY <4>1, <1>1
    <3>2. CASE ~(maxTip[c] <= cs.Blockhead)
      <4>1. m = maxTip[c]
        BY <3>2, <1>1
      <4>. QED BY <4>1, <3>2, <1>4
    <3>. QED BY <3>1, <3>2
  <2>2. ASSUME NEW e \in Items(c), blockhead[e] # Nil PROVE blockhead[e] <= m
    <3>1. blockhead[e] \in Nat
      BY <2>2, <1>1, Fields, ConfigAssumption DEF Inv, TypeOK
    <3>. QED BY <3>1, <2>2, <1>1, <1>4
  <2>. QED BY <2>1, <2>2 DEF IsTip
<1>6. /\ Return
      /\ UNCHANGED <<added, healthy, blockhead, weights, wlen, wbuf, todo,
                     selVars, steady, alive>>
  BY DEF RaiseMaxTipHeight
<1> HIDE DEF m
<1>. QED BY <1>1, <1>2, <1>3, <1>5, <1>6, StoreTip

\* resetMaxTipHeight scans the heads of all the items.
LEMMA ResetStep ==
  ASSUME Inv, ResetMaxTipHeight
  PROVE  Inv'
<1> DEFINE c == ChainOf[cs.EndpointName]
<1>1. /\ updPc = "retip" /\ c \in Chain
      /\ Return
      /\ UNCHANGED <<added, healthy, blockhead, weights, wlen, wbuf, todo,
                     selVars, steady, alive>>
  BY Fields DEF Inv, UpdatorControl, ResetMaxTipHeight
<1>2. PICK m \in {0} \cup {blockhead[e] : e \in Items(c)} :
        /\ m # Nil /\ IsTip(c, blockhead, m)
        /\ maxTip' = [maxTip EXCEPT ![c] = m]
  BY DEF ResetMaxTipHeight
<1>3. m \in Nat
  <2>1. \A e \in Items(c) : blockhead[e] \in Height \cup {Nil}
    BY <1>1, Fields DEF Inv, TypeOK
  <2>2. m \in {0} \cup Height
    BY <2>1, <1>2
  <2>. QED BY <2>2, ConfigAssumption
<1>. QED BY <1>1, <1>2, <1>3, StoreTip

-----------------------------------------------------------------------------
(* The steps of a handler *)

\* Handler k takes no part in the step.
Same(k) ==
  UNCHANGED <<hpc[k], req[k], height[k], tbl[k], cand[k], left[k], torn[k], steady[k]>>

\* A handler's step preserves the invariant if it does so for that handler.
LEMMA HandlerStep ==
  ASSUME Inv, NEW h \in Handler, UNCHANGED <<tableVars, updVars>>, TypeOK',
         ControlOf(h)', SelectionOf(h)', \A k \in Handler \ {h} : Same(k)
  PROVE  Inv'
<1>1. ASSUME NEW k \in Handler \ {h} PROVE ControlOf(k)' /\ SelectionOf(k)'
  <2>1. Same(k) /\ ControlOf(k) /\ SelectionOf(k)
    BY DEF Inv, HandlerControl, SelectionParts
  <2>2. ControlOf(k)'
    BY <2>1 DEF ControlOf, Same, tableVars
  <2>3. SelectionOf(k)'
    BY <2>1 DEF SelectionOf, Same, Available, HighEnough, AtLeast, Provides, tableVars
  <2>. QED BY <2>2, <2>3
<1>2. HandlerControl' /\ SelectionParts'
  BY <1>1 DEF HandlerControl, SelectionParts
<1>. QED BY <1>2, TableStutter DEF Inv

\* A request arrives.
LEMMA AcceptStep ==
  ASSUME Inv, NEW h \in Handler, NEW r \in Request, Accept(h, r)
  PROVE  Inv'
<1> USE DEF Accept
<1>1. {ep \in Names(weights[r.chain]) : healthy[ep] /\ Provides(ep, r)} \in SUBSET Endpoint
  <2>1. WellFormed(weights[r.chain], r.chain) /\ Items(r.chain) \subseteq Endpoint
    BY Fields DEF Inv, TableParts
  <2>. QED BY <2>1 DEF WellFormed
<1>2. TypeOK'
  <2>1. alive' \in [Handler -> SUBSET Endpoint]
    BY <1>1 DEF Inv, TypeOK
  <2>2. /\ spec' \in [Handler -> Int]
        /\ req' \in [Handler -> Request \cup {Nil}]
        /\ hpc' \in [Handler -> HandlerPc]
    BY Fields DEF Inv, TypeOK, HandlerPc
  <2>. QED BY <2>1, <2>2 DEF Inv, TypeOK, tableVars, updVars
<1>3. hpc'[h] = "start" /\ req'[h] = r /\ \A k \in Handler \ {h} : Same(k)
  BY DEF Inv, TypeOK, Same
<1>4. ControlOf(h)' /\ SelectionOf(h)'
  BY <1>3 DEF ControlOf, SelectionOf, Selecting, Loaded, tableVars
<1>. QED BY <1>2, <1>3, <1>4, HandlerStep

\* The height is resolved; steady starts with the endpoints that are fit.
LEMMA SelectStartStep ==
  ASSUME Inv, NEW h \in Handler, SelectStart(h)
  PROVE  Inv'
<1> DEFINE ht == ResolveHeight(req[h], spec[h])
           S == {ep \in Names(weights[req[h].chain]) : Available(ep, req[h], ht)}
<1>1. /\ hpc[h] = "start" /\ hpc' = [hpc EXCEPT ![h] = "pick"]
      /\ height' = [height EXCEPT ![h] = ht]
      /\ steady' = [steady EXCEPT ![h] = S]
      /\ UNCHANGED <<tableVars, updVars, req, spec, tbl, cand, left, torn, alive>>
  BY DEF SelectStart
<1>2. req[h] \in Request /\ req[h].chain \in Chain /\ added = Endpoint
  BY <1>1, Fields DEF Inv, HandlerControl, ControlOf
<1>3. ht \in Int
  <2>1. maxTip[req[h].chain] \in Nat /\ spec[h] \in Int
    BY <1>2 DEF Inv, TypeOK
  <2>. QED BY <2>1 DEF ResolveHeight
<1>4. S \subseteq Names(weights[req[h].chain]) /\ S \subseteq Items(req[h].chain)
  BY <1>2 DEF Inv, TableParts, WellFormed
<1>5. S \in SUBSET Endpoint
  BY <1>2, <1>4, Fields
<1>6. \A ep \in S : Available(ep, req[h], ht)
  OBVIOUS
<1> HIDE DEF ht, S
<1>7. TypeOK'
  <2>1. /\ hpc' \in [Handler -> HandlerPc]
        /\ height' \in [Handler -> Int]
        /\ steady' \in [Handler -> SUBSET Endpoint]
    BY <1>1, <1>3, <1>5 DEF Inv, TypeOK, HandlerPc
  <2>. QED BY <2>1, <1>1 DEF Inv, TypeOK, tableVars, updVars
<1>8. /\ hpc'[h] = "pick" /\ height'[h] = ht /\ steady'[h] = S
      /\ \A k \in Handler \ {h} : Same(k)
  BY <1>1 DEF Inv, TypeOK, Same
<1>9. ControlOf(h)'
  BY <1>1, <1>2, <1>8 DEF ControlOf, tableVars
<1>10. SelectionOf(h)'
  BY <1>1, <1>4, <1>6, <1>8
     DEF SelectionOf, Selecting, Available, HighEnough, AtLeast, Provides, tableVars
<1>. QED BY <1>1, <1>7, <1>8, <1>9, <1>10, HandlerStep

\* The handler takes its copy of the table, well formed although it may be
\* about to be replaced.
LEMMA CopyArrayStep ==
  ASSUME Inv, NEW h \in Handler, CopyArray(h)
  PROVE  Inv'
<1>1. /\ hpc[h] = "pick" /\ hpc' = [hpc EXCEPT ![h] = "draw"]
      /\ tbl' = [tbl EXCEPT ![h] = weights[req[h].chain]]
      /\ UNCHANGED <<tableVars, updVars, req, spec, height, cand, left, torn,
                     steady, alive>>
  BY DEF CopyArray
<1>2. req[h] \in Request /\ req[h].chain \in Chain /\ added = Endpoint
  BY <1>1, Fields DEF Inv, HandlerControl, ControlOf
<1>3. weights[req[h].chain] \in Seq(Weight) /\ WellFormed(weights[req[h].chain], req[h].chain)
  BY <1>2 DEF Inv, TypeOK, TableParts
<1>4. TypeOK'
  <2>1. /\ hpc' \in [Handler -> HandlerPc]
        /\ tbl' \in [Handler -> Seq(Weight)]
    BY <1>1, <1>3 DEF Inv, TypeOK, HandlerPc
  <2>. QED BY <2>1, <1>1 DEF Inv, TypeOK, tableVars, updVars
<1>5. /\ hpc'[h] = "draw" /\ tbl'[h] = weights[req[h].chain]
      /\ \A k \in Handler \ {h} : Same(k)
  BY <1>1 DEF Inv, TypeOK, Same
<1>6. ControlOf(h)'
  BY <1>1, <1>2, <1>5 DEF ControlOf, tableVars
<1>7. SelectionOf(h)'
  <2>1. SelectionOf(h)
    BY DEF Inv, SelectionParts
  <2>. QED BY <2>1, <1>1, <1>3, <1>5
     DEF SelectionOf, Selecting, Available, HighEnough, AtLeast, Provides, tableVars
<1>. QED BY <1>1, <1>4, <1>5, <1>6, <1>7, HandlerStep

\* The updator may have stored the length of an empty table before the
\* array: then no endpoint of the chain is healthy.
LEMMA EmptyTableMeansNoneFit ==
  ASSUME Inv, NEW h \in Handler, hpc[h] = "draw", wlen[req[h].chain] = 0
  PROVE  steady[h] = {}
<1> DEFINE c == req[h].chain
<1>1. c \in Chain
  BY Fields DEF Inv, HandlerControl, ControlOf
<1>2. /\ steady[h] \subseteq Names(weights[c])
      /\ \A ep \in steady[h] : ep \in Items(c) /\ healthy[ep]
  BY DEF Inv, SelectionParts, SelectionOf, Selecting, Available
<1>3. \A t \in Seq(Weight) : Len(t) = 0 => Names(t) = {}
  BY LenProperties DEF Names
<1>4. weights[c] \in Seq(Weight) /\ wbuf \in Seq(Weight)
  BY <1>1 DEF Inv, TypeOK
<1>5. CASE ~Rebuilding(c)
  BY <1>1, <1>2, <1>3, <1>4, <1>5 DEF Inv, TableParts
<1>6. CASE Rebuilding(c) /\ updPc = "reset"
  BY <1>2, <1>3, <1>4, <1>6 DEF Inv, TableParts, Rebuilding
<1>7. CASE Rebuilding(c) /\ updPc = "store"
  <2>1. /\ Len(wbuf) = 0 /\ todo = {}
        /\ LaysOut(wbuf, {ep \in Items(c) \ todo : healthy[ep]})
    BY <1>7 DEF Inv, TableParts, Rebuilding, UpdatorControl
  <2>2. {ep \in Items(c) \ todo : healthy[ep]} = {}
    BY <2>1, <1>3, <1>4 DEF LaysOut
  <2>. QED BY <2>1, <2>2, <1>2
<1>. QED BY <1>5, <1>6, <1>7 DEF Rebuilding

\* The length is read and an endpoint drawn: every endpoint that stayed fit
\* is left to the scan, whichever one was drawn.
LEMMA DrawStep ==
  ASSUME Inv, NEW h \in Handler, Draw(h)
  PROVE  Inv'
<1> DEFINE c == req[h].chain
           n == wlen[c]
           t == SubSeq(tbl[h], 1, n)
           all == Items(c)
<1>1. /\ hpc[h] = "draw"
      /\ torn' = [torn EXCEPT ![h] = torn[h] \/ n > Len(tbl[h])]
      /\ tbl' = [tbl EXCEPT ![h] = <<>>]
      /\ UNCHANGED <<tableVars, updVars, req, spec, height, steady, alive>>
  BY DEF Draw
<1>2. /\ req[h] \in Request /\ c \in Chain /\ added = Endpoint
      /\ all \subseteq Endpoint /\ n \in Nat
      /\ tbl[h] \in Seq(Weight) /\ WellFormed(tbl[h], c)
  BY <1>1, Fields DEF Inv, TypeOK, HandlerControl, ControlOf, SelectionParts, SelectionOf
<1>3. Len(tbl[h]) \in Nat
  BY <1>2, LenProperties
<1>4. /\ steady[h] \subseteq all
      /\ \A ep \in steady[h] : Available(ep, req[h], height[h])
  BY <1>1 DEF Inv, SelectionParts, SelectionOf, Selecting
<1>5. ASSUME n <= Len(tbl[h]), n # 0
      PROVE  /\ WeightLimit(t) > 0
             /\ \A ep \in WeightedRandom(t) : ep \in all
  <2>1. n \in 1..Len(tbl[h]) /\ Names(tbl[h]) \subseteq Endpoint
    BY <1>2, <1>3, <1>5 DEF WellFormed
  <2>2. /\ t \in Seq(Weight) /\ WeightLimit(t) > 0
        /\ Names(t) \subseteq Names(tbl[h])
    BY <2>1, <1>2, PrefixIsPositive DEF WellFormed
  <2> HIDE DEF t
  <2>3. \A ep \in WeightedRandom(t) : ep \in Names(t)
    BY <2>2, DrawIsListed
  <2>. QED BY <2>2, <2>3, <1>2 DEF WellFormed
<1>6. ASSUME n <= Len(tbl[h]), n = 0
      PROVE  ~(WeightLimit(t) > 0) /\ steady[h] = {}
  <2>1. Len(t) = 0
    BY <1>2, <1>3, <1>6, SubSeqProperties
  <2>2. WeightLimit(t) = 0
    <3> HIDE DEF t
    <3>. QED BY <2>1 DEF WeightLimit
  <2>. QED BY <2>2, <1>1, <1>6, EmptyTableMeansNoneFit
<1>7. \/ \E ep \in all : /\ cand' = [cand EXCEPT ![h] = ep]
                         /\ left' = [left EXCEPT ![h] = all]
                         /\ hpc' = [hpc EXCEPT ![h] = "health"]
      \/ /\ UNCHANGED <<cand, left>>
         /\ hpc' = [hpc EXCEPT ![h] = "miss"]
         /\ n > Len(tbl[h]) \/ steady[h] = {}
      \/ /\ UNCHANGED <<cand, left>>
         /\ hpc' = [hpc EXCEPT ![h] = "panic"]
  <2>1. CASE n > Len(tbl[h])
    BY <2>1 DEF Draw
  <2>2. CASE ~(n > Len(tbl[h]))
    <3>1. n <= Len(tbl[h])
      BY <2>2, <1>2, <1>3
    <3>2. CASE n # 0
      BY <2>2, <3>1, <3>2, <1>5 DEF Draw
    <3>3. CASE n = 0
      BY <2>2, <3>1, <3>3, <1>6 DEF Draw
    <3>. QED BY <3>2, <3>3
  <2>. QED BY <2>1, <2>2
<1> HIDE DEF t
<1>8. /\ torn' \in [Handler -> BOOLEAN] /\ torn'[h] = (torn[h] \/ n > Len(tbl[h]))
      /\ \A k \in Handler \ {h} : torn'[k] = torn[k]
  BY <1>1, Zenon DEF Inv, TypeOK
<1>9. TypeOK'
  <2>1. tbl' \in [Handler -> Seq(Weight)]
    BY <1>1, EmptySeq DEF Inv, TypeOK
  <2>2. hpc' \in [Handler -> HandlerPc]
    BY <1>7 DEF Inv, TypeOK, HandlerPc
  <2>3. cand' \in [Handler -> Endpoint \cup {Nil}] /\ left' \in [Handler -> SUBSET Endpoint]
    <3>0. cand \in [Handler -> Endpoint \cup {Nil}] /\ left \in [Handler -> SUBSET Endpoint]
      BY DEF Inv, TypeOK
    <3>1. CASE UNCHANGED <<cand, left>>
      BY <3>0, <3>1
    <3>2. ASSUME NEW ep \in all, cand' = [cand EXCEPT ![h] = ep],
                 left' = [left EXCEPT ![h] = all]
          PROVE  /\ cand' \in [Handler -> Endpoint \cup {Nil}]
                 /\ left' \in [Handler -> SUBSET Endpoint]
      <4>1. ep \in Endpoint /\ all \in SUBSET Endpoint
        BY <1>2
      <4> HIDE DEF all
      <4>. QED BY <4>1, <3>0, <3>2
    <3>. QED BY <3>1, <3>2, <1>7
  <2>. QED BY <2>1, <2>2, <2>3, <1>1, <1>8 DEF Inv, TypeOK, tableVars, updVars
<1>10. \A k \in Handler \ {h} : Same(k)
  BY <1>1, <1>7, <1>8 DEF Inv, TypeOK, Same
<1>11. \/ hpc'[h] = "health" /\ cand'[h] \in all /\ left'[h] = all
       \/ hpc'[h] = "miss" /\ (torn'[h] \/ steady[h] = {})
       \/ hpc'[h] = "panic"
  BY <1>7, <1>8 DEF Inv, TypeOK
<1>12. ControlOf(h)'
  BY <1>1, <1>2, <1>11 DEF ControlOf, tableVars
<1>13. SelectionOf(h)'
  BY <1>1, <1>4, <1>11
     DEF SelectionOf, Selecting, Available, HighEnough, AtLeast, Provides, tableVars
<1>. QED BY <1>1, <1>9, <1>10, <1>12, <1>13, HandlerStep

\* The candidate is examined: it is dropped only if it is not fit.
LEMMA ExamineStep ==
  ASSUME Inv, NEW h \in Handler, ReadHealthy(h) \/ ReadBlockhead(h)
  PROVE  Inv'
<1>1. /\ hpc[h] \in {"health", "head"}
      /\ \/ hpc' = [hpc EXCEPT ![h] = "head"]
         \/ hpc' = [hpc EXCEPT ![h] = "found"]
         \/ /\ hpc' = [hpc EXCEPT ![h] = "scan"]
            /\ ~Available(cand[h], req[h], height[h])
      /\ UNCHANGED <<tableVars, updVars, req, spec, height, tbl, cand, left, torn,
                     steady, alive>>
  BY DEF ReadHealthy, ReadBlockhead, Available
<1>2. SelectionOf(h) /\ ControlOf(h)
  BY DEF Inv, SelectionParts, HandlerControl
<1>3. TypeOK'
  <2>1. hpc' \in [Handler -> HandlerPc]
    BY <1>1 DEF Inv, TypeOK, HandlerPc
  <2>. QED BY <2>1, <1>1 DEF Inv, TypeOK, tableVars, updVars
<1>4. /\ \/ hpc'[h] \in {"head", "found"}
         \/ hpc'[h] = "scan" /\ ~Available(cand[h], req[h], height[h])
      /\ \A k \in Handler \ {h} : Same(k)
  BY <1>1 DEF Inv, TypeOK, Same
<1>5. ControlOf(h)'
  BY <1>1, <1>2, <1>4 DEF ControlOf, tableVars
<1>6. SelectionOf(h)'
  <2>1. /\ \A ep \in steady[h] : ep \in Items(req[h].chain) /\ Available(ep, req[h], height[h])
        /\ steady[h] \subseteq left[h] \cup {cand[h]}
        /\ left[h] \subseteq Items(req[h].chain)
    BY <1>1, <1>2 DEF SelectionOf, Selecting
  <2>2. \A ep \in steady[h] : Available(ep, req[h], height[h])'
    BY <2>1, <1>1 DEF Available, HighEnough, AtLeast, Provides, tableVars
  <2>3. hpc'[h] = "scan" => steady[h] \subseteq left[h]
    BY <2>1, <1>4
  <2>. QED BY <2>1, <2>2, <2>3, <1>1, <1>4 DEF SelectionOf
<1>. QED BY <1>1, <1>3, <1>4, <1>5, <1>6, HandlerStep

\* The scan takes the next item, or gives up when none is left.
LEMMA ScanStep ==
  ASSUME Inv, NEW h \in Handler, Scan(h)
  PROVE  Inv'
<1>1. /\ hpc[h] = "scan"
      /\ \/ \E ep \in left[h] : /\ cand' = [cand EXCEPT ![h] = ep]
                                /\ left' = [left EXCEPT ![h] = left[h] \ {ep}]
                                /\ hpc' = [hpc EXCEPT ![h] = "health"]
         \/ /\ left[h] = {}
            /\ hpc' = [hpc EXCEPT ![h] = "miss"]
            /\ UNCHANGED <<cand, left>>
      /\ UNCHANGED <<tableVars, updVars, req, spec, height, tbl, torn, steady, alive>>
  BY DEF Scan
<1>2. /\ \A ep \in steady[h] : ep \in Items(req[h].chain) /\ Available(ep, req[h], height[h])
      /\ steady[h] \subseteq left[h]
      /\ left[h] \subseteq Items(req[h].chain) /\ left[h] \subseteq Endpoint
      /\ req[h] \in Request /\ added = Endpoint
  BY <1>1 DEF Inv, TypeOK, SelectionParts, SelectionOf, Selecting, HandlerControl, ControlOf
<1>3. TypeOK'
  <2>1. hpc' \in [Handler -> HandlerPc]
    BY <1>1 DEF Inv, TypeOK, HandlerPc
  <2>2. cand' \in [Handler -> Endpoint \cup {Nil}] /\ left' \in [Handler -> SUBSET Endpoint]
    <3>0. cand \in [Handler -> Endpoint \cup {Nil}] /\ left \in [Handler -> SUBSET Endpoint]
      BY DEF Inv, TypeOK
    <3>1. CASE UNCHANGED <<cand, left>>
      BY <3>0, <3>1
    <3>2. ASSUME NEW ep \in left[h], cand' = [cand EXCEPT ![h] = ep],
                 left' = [left EXCEPT ![h] = left[h] \ {ep}]
          PROVE  /\ cand' \in [Handler -> Endpoint \cup {Nil}]
                 /\ left' \in [Handler -> SUBSET Endpoint]
      <4>1. ep \in Endpoint /\ left[h] \ {ep} \in SUBSET Endpoint
        BY <1>2
      <4>. QED BY <4>1, <3>0, <3>2
    <3>. QED BY <3>1, <3>2, <1>1
  <2>. QED BY <2>1, <2>2, <1>1 DEF Inv, TypeOK, tableVars, updVars
<1>4. /\ \/ /\ hpc'[h] = "health" /\ cand'[h] \in left[h]
            /\ left'[h] = left[h] \ {cand'[h]}
         \/ hpc'[h] = "miss" /\ left[h] = {}
      /\ \A k \in Handler \ {h} : Same(k)
  BY <1>1 DEF Inv, TypeOK, Same
<1>5. ControlOf(h)'
  BY <1>1, <1>2, <1>4 DEF ControlOf, tableVars
<1>6. SelectionOf(h)'
  <2>1. \A ep \in steady[h] : Available(ep, req[h], height[h])'
    BY <1>1, <1>2 DEF Available, HighEnough, AtLeast, Provides, tableVars
  <2>. QED BY <2>1, <1>1, <1>2, <1>4 DEF SelectionOf
<1>. QED BY <1>1, <1>3, <1>4, <1>5, <1>6, HandlerStep

\* The selection is over, for good or until it is tried again.
LEMMA MissStep ==
  ASSUME Inv, NEW h \in Handler, Miss(h)
  PROVE  Inv'
<1>1. /\ hpc[h] = "miss"
      /\ \/ hpc' = [hpc EXCEPT ![h] = "start"] /\ spec' = [spec EXCEPT ![h] = -2]
         \/ hpc' = [hpc EXCEPT ![h] = "unavailable"] /\ spec' = spec
      /\ UNCHANGED <<tableVars, updVars, req, height, tbl, cand, left, torn, steady, alive>>
  BY DEF Miss
<1>2. TypeOK'
  <2>1. hpc' \in [Handler -> HandlerPc]
    BY <1>1 DEF Inv, TypeOK, HandlerPc
  <2>2. spec' \in [Handler -> Int]
    <3>1. -2 \in Int
      OBVIOUS
    <3>. QED BY <3>1, <1>1 DEF Inv, TypeOK
  <2>. QED BY <2>1, <2>2, <1>1 DEF Inv, TypeOK, tableVars, updVars
<1>3. hpc'[h] \in {"start", "unavailable"} /\ \A k \in Handler \ {h} : Same(k)
  BY <1>1 DEF Inv, TypeOK, Same
<1>4. ControlOf(h)'
  BY <1>1, <1>3 DEF Inv, HandlerControl, ControlOf, tableVars
<1>5. SelectionOf(h)'
  BY <1>3 DEF SelectionOf, Selecting
<1>. QED BY <1>1, <1>2, <1>3, <1>4, <1>5, HandlerStep

\* The handler is idle again.
LEMMA AnswerStep ==
  ASSUME Inv, NEW h \in Handler, Answer(h)
  PROVE  Inv'
<1> USE DEF Answer
<1>1. TypeOK'
  <2>1. /\ hpc' \in [Handler -> HandlerPc]
        /\ req' \in [Handler -> Request \cup {Nil}]
        /\ spec' \in [Handler -> Int] /\ height' \in [Handler -> Int]
    BY DEF Inv, TypeOK, HandlerPc
  <2>2. /\ cand' \in [Handler -> Endpoint \cup {Nil}]
        /\ left' \in [Handler -> SUBSET Endpoint]
        /\ torn' \in [Handler -> BOOLEAN]
        /\ steady' \in [Handler -> SUBSET Endpoint]
        /\ alive' \in [Handler -> SUBSET Endpoint]
    BY DEF Inv, TypeOK
  <2>. QED BY <2>1, <2>2 DEF Inv, TypeOK, tableVars, updVars
<1>2. hpc'[h] = "idle" /\ \A k \in Handler \ {h} : Same(k)
  BY DEF Inv, TypeOK, Same
<1>3. ControlOf(h)' /\ SelectionOf(h)'
  BY <1>2 DEF ControlOf, SelectionOf, Selecting
<1>. QED BY <1>1, <1>2, <1>3, HandlerStep

-----------------------------------------------------------------------------
(* The theorems *)

\* No step of loading, updator or handlers breaks the invariant.
LEMMA NextInv == Inv /\ [Next]_vars => Inv'
<1> SUFFICES ASSUME Inv, [Next]_vars PROVE Inv'
  OBVIOUS
<1>1. ASSUME NEW ep \in Endpoint, Add(ep) PROVE Inv'
  BY <1>1, AddStep
<1>2. ASSUME Updator PROVE Inv'
  BY <1>2, ReceiveStep, ReturnStep, SetHealthyStep, VisitItemStep, StoreLengthStep,
     StoreArrayStep, SetBlockheadStep, RaiseStep, ResetStep DEF Updator, Published
<1>3. ASSUME NEW h \in Handler, Relay(h) PROVE Inv'
  BY <1>3, AcceptStep, SelectStartStep, CopyArrayStep, DrawStep, ExamineStep,
     ScanStep, MissStep, AnswerStep DEF Relay
<1>4. ASSUME UNCHANGED vars PROVE Inv'
  <2>1. TypeOK'
    BY <1>4 DEF Inv, TypeOK, vars, tableVars, updVars, selVars
  <2>. QED BY <2>1, <1>4, TableStutter, QuietStep DEF Inv, vars
<1>. QED BY <1>1, <1>2, <1>3, <1>4 DEF Next

\* The inductive invariant holds in every reachable state.
THEOREM Invariance == Spec => []Inv
BY InitInv, NextInv, PTL DEF Spec

\* Type correctness: no interleaving of updator and handlers stores a value
\* of another type, whatever the configuration.
THEOREM TypeCorrect == Spec => []TypeOK
<1>1. Inv => TypeOK
  BY DEF Inv
<1>. QED BY <1>1, Invariance, PTL

\* The weight table of a chain lays out exactly its healthy endpoints
\* whenever resetWeights is not at work on it, however many endpoints there
\* are and in whatever order maps are walked and statuses arrive.
THEOREM TableCorrect == Spec => []TableMatchesHealth
<1>1. Inv => TableMatchesHealth
  <2>. SUFFICES ASSUME Inv, NEW c \in Chain, ~Rebuilding(c)
                PROVE  /\ wlen[c] = Len(weights[c])
                       /\ LaysOut(weights[c], {ep \in added \cap Items(c) : healthy[ep]})
    BY DEF TableMatchesHealth
  <2>1. /\ wlen[c] = Len(weights[c])
        /\ Names(weights[c]) = {ep \in added \cap Items(c) : healthy[ep]}
        /\ LaysOut(weights[c], Names(weights[c]))
    BY DEF Inv, TableParts, WellFormed
  <2>. QED BY <2>1
<1>. QED BY <1>1, Invariance, PTL

\* maxTipHeight is the highest head of the chain after every update, for
\* all heights, although it is recomputed only when a head falls.
THEOREM TipCorrect == Spec => []TipIsHighest
<1>1. Inv => TipIsHighest
  BY DEF Inv, TipParts
<1>. QED BY <1>1, Invariance, PTL

\* SelectOverHeight and SelectWebsocketEndpoint come back empty-handed only
\* if no endpoint was fit from their first read to their last, for any
\* number of handlers racing with the updator.
THEOREM SelectionCorrect == Spec => []NoSpuriousMiss
<1>1. Inv => NoSpuriousMiss
  BY DEF Inv, SelectionParts, SelectionOf, NoSpuriousMiss
<1>. QED BY <1>1, Invariance, PTL

-----------------------------------------------------------------------------
(* Weighted draws *)

\* Where the share of entry k begins.
Below(t, k) == IF k = 1 THEN 0 ELSE t[k - 1].AggregateValue

\* A set of positions has a first one.
LEMMA FirstExists ==
  ASSUME NEW S \in SUBSET Nat, S # {}
  PROVE  \E i \in S : \A j \in S : i <= j
<1>1. PICK i \in S : \A j \in S : <<j, i>> \notin OpToRel(<, Nat)
  BY WFMin, NatLessThanWellFounded, Zenon
<1>2. \A j \in S : ~(j < i)
  BY <1>1, Zenon DEF OpToRel
<1>. QED BY <1>2

\* The values of a well laid out table ascend: the first entry that did not
\* exceed an earlier one would follow one that does.
LEMMA ValuesAscend ==
  ASSUME NEW t \in Seq(Weight), LaysOut(t, Names(t))
  PROVE  /\ Len(t) \in Nat /\ DOMAIN t = 1..Len(t)
         /\ \A k \in 1..Len(t) :
              /\ t[k].EpName \in Endpoint /\ t[k].AggregateValue \in Nat
              /\ Below(t, k) \in Nat
              /\ t[k].AggregateValue = Below(t, k) + EffectiveWeight(t[k].EpName)
              /\ EffectiveWeight(t[k].EpName) \in Nat \ {0}
         /\ \A i, j \in 1..Len(t) : i < j => t[i].AggregateValue < t[j].AggregateValue
<1>1. Len(t) \in Nat /\ DOMAIN t = 1..Len(t) /\ \A i \in 1..Len(t) : t[i] \in Weight
  BY ElementOfSeq, LenProperties
<1>2. ASSUME NEW k \in 1..Len(t)
      PROVE  /\ t[k].EpName \in Endpoint /\ t[k].AggregateValue \in Nat
             /\ Below(t, k) \in Nat
             /\ t[k].AggregateValue = Below(t, k) + EffectiveWeight(t[k].EpName)
             /\ EffectiveWeight(t[k].EpName) \in Nat \ {0}
  <2>1. t[k].EpName \in Endpoint /\ t[k].AggregateValue \in Nat
    BY <1>1 DEF Weight
  <2>2. Below(t, k) \in Nat
    <3>1. k # 1 => k - 1 \in 1..Len(t)  BY <1>1
    <3>. QED BY <1>1, <3>1 DEF Below, Weight
  <2>3. EffectiveWeight(t[k].EpName) \in Nat \ {0}
    BY <2>1, WeightIsPositive
  <2>4. t[k].AggregateValue = EffectiveWeight(t[k].EpName) + Below(t, k)
    BY <1>1 DEF LaysOut, Below
  <2>. QED BY <2>1, <2>2, <2>3, <2>4
<1>3. ASSUME NEW i \in 1..Len(t), NEW j \in 1..Len(t), i < j
      PROVE  t[i].AggregateValue < t[j].AggregateValue
  <2> DEFINE Bad == {k \in 1..Len(t) : i < k /\ ~(t[i].AggregateValue < t[k].AggregateValue)}
  <2>1. ASSUME Bad # {}  PROVE FALSE
    <3>1. PICK k \in Bad : \A l \in Bad : k <= l
      <4>1. Bad \in SUBSET Nat  OBVIOUS
      <4>. HIDE DEF Bad
      <4>. QED BY <2>1, <4>1, FirstExists
    <3>2. k - 1 \in 1..Len(t) /\ k # 1 /\ k - 1 \notin Bad
      BY <1>1, <3>1
    <3>3. k - 1 = i \/ t[i].AggregateValue < t[k - 1].AggregateValue
      BY <1>1, <3>1, <3>2
    <3>4. t[k - 1].AggregateValue < t[k].AggregateValue
      <4>1. Below(t, k) = t[k - 1].AggregateValue  BY <3>2 DEF Below
      <4>. QED BY <1>2, <3>1, <4>1
    <3>5. /\ t[i].AggregateValue \in Nat /\ t[k].AggregateValue \in Nat
          /\ t[k - 1].AggregateValue \in Nat
      BY <1>2, <3>1, <3>2
    <3>. QED BY <3>1, <3>3, <3>4, <3>5
  <2>. QED BY <2>1, <1>3
<1>. QED BY <1>1, <1>2, <1>3

\* WeightSearch finds entry k for the numbers of its share and for no other.
LEMMA SearchFinds ==
  ASSUME NEW t \in Seq(Weight), LaysOut(t, Names(t)), NEW k \in 1..Len(t),
         NEW w \in 0..(WeightLimit(t) - 1)
  PROVE  WeightSearch(t, w) = t[k].EpName
           <=> Below(t, k) <= w /\ w < t[k].AggregateValue
<1> DEFINE hits == {i \in DOMAIN t : t[i].AggregateValue > w}
           v == [i \in 1..Len(t) |-> t[i].AggregateValue]
<1>1. /\ Len(t) \in Nat /\ DOMAIN t = 1..Len(t)
      /\ \A i \in 1..Len(t) : v[i] \in Nat /\ Below(t, i) \in Nat
      /\ \A i, j \in 1..Len(t) : i < j => v[i] < v[j]
  BY ValuesAscend
<1>2. WeightLimit(t) = v[Len(t)] /\ Len(t) \in 1..Len(t) /\ w \in Nat
  BY <1>1 DEF WeightLimit
<1>3. hits = {i \in 1..Len(t) : v[i] > w}
  BY <1>1
<1>4. \A i \in 2..Len(t) : Below(t, i) = v[i - 1] /\ i - 1 \in 1..Len(t)
  BY <1>1 DEF Below
<1>5. Below(t, 1) = 0
  BY DEF Below
<1>6. WeightSearch(t, w) =
        IF w < 0 \/ hits = {} THEN Nil
        ELSE t[CHOOSE i \in hits : \A j \in hits : i <= j].EpName
  BY DEF WeightSearch
<1>7. t[k].AggregateValue = v[k]
  OBVIOUS
<1> HIDE DEF hits, v
<1>8. hits \in SUBSET Nat /\ hits # {}
  <2>1. Len(t) \in hits  BY <1>1, <1>2, <1>3
  <2>. QED BY <1>3, <2>1
<1>9. PICK c \in hits : /\ \A j \in hits : c <= j
                        /\ c = CHOOSE i \in hits : \A j \in hits : i <= j
  BY <1>8, FirstExists
<1>10. WeightSearch(t, w) = t[c].EpName
  <2>1. ~(w < 0 \/ hits = {})  BY <1>2, <1>8
  <2>. QED BY <1>6, <1>9, <2>1, Zenon
<1>11. ASSUME t[c].EpName = t[k].EpName
       PROVE  Below(t, k) <= w /\ w < v[k]
  <2>1. c = k  BY <1>1, <1>3, <1>11 DEF LaysOut
  <2>2. w < v[k]  BY <1>3, <2>1
  <2>3. CASE k = 1
    BY <1>2, <1>5, <2>2, <2>3
  <2>4. CASE k # 1
    <3>1. k \in 2..Len(t)  BY <1>1, <2>4
    <3>2. k - 1 \notin hits
      <4>1. ~(k <= k - 1)  BY <3>1
      <4>. QED BY <1>9, <2>1, <4>1
    <3>3. Below(t, k) = v[k - 1] /\ k - 1 \in 1..Len(t)  BY <1>4, <3>1
    <3>4. ~(v[k - 1] > w) /\ v[k - 1] \in Nat  BY <1>1, <1>3, <3>2, <3>3
    <3>. QED BY <1>2, <2>2, <3>3, <3>4
  <2>. QED BY <2>2, <2>3, <2>4
<1>12. ASSUME Below(t, k) <= w, w < v[k]
       PROVE  c = k
  <2>1. k \in hits  BY <1>1, <1>2, <1>3, <1>12
  <2>2. c <= k /\ c \in 1..Len(t) /\ v[c] > w  BY <1>3, <1>9, <2>1
  <2>3. ASSUME c < k  PROVE FALSE
    <3>1. k \in 2..Len(t)  BY <1>1, <2>2, <2>3
    <3>2. Below(t, k) = v[k - 1] /\ k - 1 \in 1..Len(t)  BY <1>4, <3>1
    <3>3. v[c] <= v[k - 1]
      <4>1. c = k - 1 \/ c < k - 1  BY <1>1, <2>2, <2>3
      <4>2. c < k - 1 => v[c] < v[k - 1]  BY <1>1, <2>2, <3>2
      <4>3. v[c] \in Nat /\ v[k - 1] \in Nat  BY <1>1, <2>2, <3>2
      <4>. QED BY <4>1, <4>2, <4>3
    <3>4. v[c] \in Nat /\ v[k - 1] \in Nat  BY <1>1, <2>2, <3>2
    <3>. QED BY <1>2, <1>12, <2>2, <3>2, <3>3, <3>4
  <2>. QED BY <1>1, <2>2, <2>3
<1>. QED BY <1>7, <1>10, <1>11, <1>12

\* In a well laid out table the share of each endpoint is its weight.
LEMMA SharesAreWeights ==
  ASSUME NEW t \in Seq(Weight), LaysOut(t, Names(t)), NEW ep \in Endpoint
  PROVE  Cardinality({w \in 0..(WeightLimit(t) - 1) : WeightSearch(t, w) = ep})
           = IF ep \in Names(t) THEN EffectiveWeight(ep) ELSE 0
<1> DEFINE share == {w \in 0..(WeightLimit(t) - 1) : WeightSearch(t, w) = ep}
<1>1. /\ Len(t) \in Nat /\ DOMAIN t = 1..Len(t)
      /\ \A k \in 1..Len(t) :
           /\ t[k].AggregateValue \in Nat /\ Below(t, k) \in Nat
           /\ t[k].AggregateValue = Below(t, k) + EffectiveWeight(t[k].EpName)
           /\ EffectiveWeight(t[k].EpName) \in Nat \ {0}
      /\ \A i, j \in 1..Len(t) : i < j => t[i].AggregateValue < t[j].AggregateValue
  BY ValuesAscend
<1>2. CASE ep \in Names(t)
  <2>1. PICK k \in 1..Len(t) : t[k].EpName = ep
    BY <1>1, <1>2 DEF Names
  <2> DEFINE a == t[k].AggregateValue
             b == Below(t, k)
  <2>2. a \in Nat /\ b \in Nat /\ a = b + EffectiveWeight(ep)
        /\ EffectiveWeight(ep) \in Nat \ {0}
    BY <1>1, <2>1
  <2>3. a <= WeightLimit(t) /\ WeightLimit(t) \in Nat
    <3>1. WeightLimit(t) = t[Len(t)].AggregateValue /\ Len(t) \in 1..Len(t)
      BY <1>1, <2>1 DEF WeightLimit
    <3>2. k = Len(t) \/ k < Len(t)  BY <1>1
    <3>3. t[Len(t)].AggregateValue \in Nat  BY <1>1, <3>1
    <3>4. k < Len(t) => a < t[Len(t)].AggregateValue  BY <1>1, <3>1
    <3>. QED BY <2>2, <3>1, <3>2, <3>3, <3>4
  <2>4. \A w \in 0..(WeightLimit(t) - 1) :
          WeightSearch(t, w) = ep <=> b <= w /\ w < a
    BY <2>1, SearchFinds
  <2> HIDE DEF a, b
  <2>5. share = b..(a - 1)
    <3>1. \A w \in share : w \in b..(a - 1)  BY <2>2, <2>3, <2>4
    <3>2. \A w \in b..(a - 1) : w \in share
      <4>. SUFFICES ASSUME NEW w \in b..(a - 1)  PROVE w \in share
        OBVIOUS
      <4>1. w \in 0..(WeightLimit(t) - 1) /\ b <= w /\ w < a  BY <2>2, <2>3
      <4>. QED BY <2>4, <4>1
    <3> HIDE DEF share
    <3>. QED BY <3>1, <3>2
  <2> HIDE DEF share
  <2>6. Cardinality(b..(a - 1)) = EffectiveWeight(ep)
    <3>1. b \in Int /\ a - 1 \in Int /\ ~(b > a - 1)  BY <2>2
    <3>2. Cardinality(b..(a - 1)) = a - 1 - b + 1  BY <3>1, FS_Interval
    <3>. QED BY <2>2, <3>2
  <2>. QED BY <1>2, <2>5, <2>6 DEF share
<1>3. CASE ep \notin Names(t)
  <2>1. share = {}
    <3>. SUFFICES ASSUME NEW w \in 0..(WeightLimit(t) - 1), WeightSearch(t, w) = ep
                  PROVE  FALSE
      OBVIOUS
    <3>1. WeightLimit(t) > 0
      <4>1. WeightLimit(t) \in Nat
        <5>1. Len(t) > 0 => Len(t) \in 1..Len(t)  BY <1>1
        <5>. QED BY <1>1, <5>1 DEF WeightLimit
      <4>. QED BY <4>1
    <3>2. ep \in WeightedRandom(t)  BY DEF WeightedRandom
    <3>. QED BY <1>3, <3>1, <3>2, DrawIsListed
  <2> HIDE DEF share
  <2>2. Cardinality(share) = 0  BY <2>1, FS_EmptySet
  <2>. QED BY <1>3, <2>2 DEF share
<1>. QED BY <1>2, <1>3

\* rand.Intn(WeightLimit()) and WeightSearch give each listed endpoint its
\* weight, to the unit, and no one else anything, whatever the weights and
\* however many endpoints, between updates and in the middle of one.
THEOREM DrawsCorrect == Spec => []DrawsFollowWeights
<1>1. Inv => DrawsFollowWeights
  <2>. SUFFICES ASSUME Inv, NEW c \in Chain, NEW ep \in Endpoint
                PROVE  LET t == weights[c]
                       IN Cardinality({w \in 0..(WeightLimit(t) - 1) : WeightSearch(t, w) = ep})
                            = IF ep \in Names(t) THEN EffectiveWeight(ep) ELSE 0
    BY DEF DrawsFollowWeights
  <2>1. weights[c] \in Seq(Weight) /\ LaysOut(weights[c], Names(weights[c]))
    BY DEF Inv, TypeOK, TableParts, WellFormed
  <2>. QED BY <2>1, SharesAreWeights
<1>. QED BY <1>1, Invariance, PTL

-----------------------------------------------------------------------------
(* The length of a selection *)

\* StepsLeft of a handler at pc, with request r, spec s and l still to visit.
Cost(pc, r, s, l) ==
  LET n == Cardinality(Items(r.chain))
      k == Cardinality(l)
  IN IF pc = "idle" THEN 0
     ELSE IF pc \in {"found", "unavailable", "panic"} THEN 1
     ELSE [start |-> 3 * n + 6, pick |-> 3 * n + 5, draw |-> 3 * n + 4,
           health |-> 3 * k + 3, head |-> 3 * k + 2, scan |-> 3 * k + 1, miss |-> 0][pc]
            + 2 + IF r.kind = "relay" /\ s > 0 THEN 3 * n + 7 ELSE 0

\* The cost at each point: passes are counted by the items of the chain.
LEMMA CostIs ==
  ASSUME NEW r \in Request, NEW s \in Int, NEW l \in SUBSET Endpoint
  PROVE  LET n == Cardinality(Items(r.chain))
             k == Cardinality(l)
             m == IF r.kind = "relay" /\ s > 0 THEN 3 * n + 9 ELSE 2
         IN /\ n \in Nat /\ k \in Nat
            /\ Cost("idle", r, s, l) = 0
            /\ \A pc \in {"found", "unavailable", "panic"} : Cost(pc, r, s, l) = 1
            /\ Cost("start", r, s, l) = 3 * n + 6 + m
            /\ Cost("pick", r, s, l) = 3 * n + 5 + m
            /\ Cost("draw", r, s, l) = 3 * n + 4 + m
            /\ Cost("health", r, s, l) = 3 * k + 3 + m
            /\ Cost("head", r, s, l) = 3 * k + 2 + m
            /\ Cost("scan", r, s, l) = 3 * k + 1 + m
            /\ Cost("miss", r, s, l) = m
<1> DEFINE n == Cardinality(Items(r.chain))
           k == Cardinality(l)
<1>1. IsFiniteSet(Items(r.chain)) /\ IsFiniteSet(l)
  <2>1. Items(r.chain) \subseteq Endpoint  BY DEF Items
  <2>. QED BY <2>1, FiniteAssumption, FS_Subset
<1>2. n \in Nat /\ k \in Nat
  BY <1>1, FS_CardinalityType
<1> HIDE DEF n, k
<1>3. \A pc : Cost(pc, r, s, l) =
        IF pc = "idle" THEN 0
        ELSE IF pc \in {"found", "unavailable", "panic"} THEN 1
        ELSE [start |-> 3 * n + 6, pick |-> 3 * n + 5, draw |-> 3 * n + 4,
              health |-> 3 * k + 3, head |-> 3 * k + 2, scan |-> 3 * k + 1, miss |-> 0][pc]
               + 2 + IF r.kind = "relay" /\ s > 0 THEN 3 * n + 7 ELSE 0
  BY DEF Cost, n, k
<1>. QED BY <1>2, <1>3 DEF n, k

\* Each step of a handler brings its answer nearer.
LEMMA HandlerAdvances ==
  ASSUME Inv, NEW h \in Handler, Relay(h), hpc[h] # "idle"
  PROVE  StepsLeft(h)' \in 0..(StepsLeft(h) - 1)
<1> DEFINE r == req[h]
           s == spec[h]
           l == left[h]
           n == Cardinality(Items(r.chain))
           k == Cardinality(l)
           m == IF r.kind = "relay" /\ s > 0 THEN 3 * n + 9 ELSE 2
<1>1. /\ hpc \in [Handler -> HandlerPc] /\ r \in Request /\ s \in Int /\ l \in SUBSET Endpoint
      /\ spec \in [Handler -> Int] /\ left \in [Handler -> SUBSET Endpoint]
      /\ req \in [Handler -> Request \cup {Nil}]
  BY DEF Inv, TypeOK, HandlerControl, ControlOf
<1>2. StepsLeft(h) = Cost(hpc[h], r, s, l)
  BY DEF StepsLeft, StepsToMiss, Cost
<1>3. StepsLeft(h)' = Cost(hpc'[h], req'[h], spec'[h], left'[h])
  BY DEF StepsLeft, StepsToMiss, Cost
<1>4. /\ n \in Nat /\ k \in Nat
      /\ \A pc \in {"found", "unavailable", "panic"} : Cost(pc, r, s, l) = 1
      /\ Cost("start", r, s, l) = 3 * n + 6 + m
      /\ Cost("pick", r, s, l) = 3 * n + 5 + m
      /\ Cost("draw", r, s, l) = 3 * n + 4 + m
      /\ Cost("health", r, s, l) = 3 * k + 3 + m
      /\ Cost("head", r, s, l) = 3 * k + 2 + m
      /\ Cost("scan", r, s, l) = 3 * k + 1 + m
      /\ Cost("miss", r, s, l) = m
  BY <1>1, CostIs
<1>5. m \in Nat /\ m >= 2
  BY <1>4
<1>6. CASE SelectStart(h) \/ CopyArray(h) \/ ReadHealthy(h) \/ ReadBlockhead(h)
  <2>1. req' = req /\ spec' = spec /\ left' = left
    BY <1>6 DEF SelectStart, CopyArray, ReadHealthy, ReadBlockhead
  <2>2. \/ hpc[h] = "start" /\ hpc'[h] = "pick"
        \/ hpc[h] = "pick" /\ hpc'[h] = "draw"
        \/ hpc[h] = "health" /\ hpc'[h] \in {"head", "scan"}
        \/ hpc[h] = "head" /\ hpc'[h] \in {"found", "scan"}
    BY <1>1, <1>6 DEF SelectStart, CopyArray, ReadHealthy, ReadBlockhead
  <2> HIDE DEF n, k, m
  <2>. QED BY <1>2, <1>3, <1>4, <1>5, <2>1, <2>2
<1>7. CASE Draw(h)
  <2>1. req' = req /\ spec' = spec /\ hpc[h] = "draw"
    BY <1>7 DEF Draw
  <2>2. \/ hpc'[h] \in {"miss", "panic"} /\ left'[h] = l
        \/ hpc'[h] = "health" /\ left'[h] = Items(r.chain)
    BY <1>1, <1>7 DEF Draw
  <2>3. Items(r.chain) \in SUBSET Endpoint  BY DEF Items
  <2>4. Cost("health", r, s, Items(r.chain)) = 3 * n + 3 + m
    BY <1>1, <2>3, CostIs
  <2> HIDE DEF n, k, m
  <2>. QED BY <1>2, <1>3, <1>4, <1>5, <2>1, <2>2, <2>4
<1>8. CASE Scan(h)
  <2>1. req' = req /\ spec' = spec /\ hpc[h] = "scan"
    BY <1>8 DEF Scan
  <2>2. \/ hpc'[h] = "miss" /\ left'[h] = l
        \/ \E ep \in l : hpc'[h] = "health" /\ left'[h] = l \ {ep}
    BY <1>1, <1>8 DEF Scan
  <2>3. CASE hpc'[h] = "miss" /\ left'[h] = l
    <3> HIDE DEF n, k, m
    <3>. QED BY <1>2, <1>3, <1>4, <1>5, <2>1, <2>3
  <2>4. ASSUME NEW ep \in l, hpc'[h] = "health", left'[h] = l \ {ep}
        PROVE  StepsLeft(h)' \in 0..(StepsLeft(h) - 1)
    <3>1. Cardinality(l \ {ep}) = k - 1
      <4>1. IsFiniteSet(l)  BY <1>1, FiniteAssumption, FS_Subset
      <4>. QED BY <2>4, <4>1, FS_RemoveElement
    <3>2. k - 1 \in Nat
      <4>1. l \ {ep} \in SUBSET Endpoint  BY <1>1
      <4>2. Cardinality(l \ {ep}) \in Nat  BY <1>1, <4>1, CostIs
      <4>. QED BY <3>1, <4>2
    <3>3. Cost("health", r, s, l \ {ep}) = 3 * (k - 1) + 3 + m
      <4>1. l \ {ep} \in SUBSET Endpoint  BY <1>1
      <4>. QED BY <1>1, <3>1, <4>1, CostIs
    <3> HIDE DEF n, k, m
    <3>. QED BY <1>2, <1>3, <1>4, <1>5, <2>1, <2>4, <3>2, <3>3
  <2>. QED BY <2>2, <2>3, <2>4
<1>9. CASE Miss(h)
  <2>1. req' = req /\ left' = left /\ hpc[h] = "miss"
    BY <1>9 DEF Miss
  <2>2. CASE r.kind = "relay" /\ s > 0
    <3>1. hpc'[h] = "start" /\ spec'[h] = -2  BY <1>1, <1>9, <2>2 DEF Miss
    <3>2. m = 3 * n + 9  BY <2>2
    <3>3. Cost("start", r, -2, l) = 3 * n + 6 + 2
      <4>1. -2 \in Int /\ ~(-2 > 0)  OBVIOUS
      <4>. QED BY <1>1, <4>1, CostIs
    <3> HIDE DEF n, k, m
    <3>. QED BY <1>2, <1>3, <1>4, <2>1, <3>1, <3>2, <3>3
  <2>3. CASE ~(r.kind = "relay" /\ s > 0)
    <3>1. hpc'[h] = "unavailable" /\ spec' = spec  BY <1>1, <1>9, <2>3 DEF Miss
    <3> HIDE DEF n, k, m
    <3>. QED BY <1>2, <1>3, <1>4, <1>5, <2>1, <3>1
  <2>. QED BY <2>2, <2>3
<1>10. CASE Answer(h)
  <2>1. hpc[h] \in {"found", "unavailable", "panic"} /\ hpc'[h] = "idle"
    BY <1>1, <1>10 DEF Answer
  <2>2. StepsLeft(h)' = 0
    BY <1>3, <2>1 DEF Cost
  <2>. QED BY <1>2, <1>4, <2>1, <2>2
<1>11. ASSUME NEW x \in Request, Accept(h, x)  PROVE FALSE
  BY <1>11 DEF Accept
<1>. QED BY <1>6, <1>7, <1>8, <1>9, <1>10, <1>11 DEF Relay

\* A selection ends within a number of the handler's own steps that the size
\* of the chain bounds: whatever the updator does, and for any number of
\* endpoints, nothing makes a handler start over but its one retry.
THEOREM SelectionBounded == Spec => SelectionIsBounded
<1>1. ASSUME Inv, [Next]_vars, NEW h \in Handler, hpc[h] # "idle"
      PROVE  \/ UNCHANGED <<hpc[h], req[h], spec[h], left[h]>>
             \/ StepsLeft(h)' \in 0..(StepsLeft(h) - 1)
  <2>1. CASE UNCHANGED <<hpc, req, spec, left>>
    BY <2>1
  <2>2. CASE Relay(h)
    BY <1>1, <2>2, HandlerAdvances
  <2>3. ASSUME NEW g \in Handler, Relay(g), g # h
        PROVE  UNCHANGED <<hpc[h], req[h], spec[h], left[h]>>
    <3>1. /\ DOMAIN hpc = Handler /\ DOMAIN req = Handler
          /\ DOMAIN spec = Handler /\ DOMAIN left = Handler
      BY <1>1 DEF Inv, TypeOK
    <3>2. /\ (hpc' = hpc \/ \E x : hpc' = [hpc EXCEPT ![g] = x])
          /\ (req' = req \/ \E x : req' = [req EXCEPT ![g] = x])
          /\ (spec' = spec \/ \E x : spec' = [spec EXCEPT ![g] = x])
          /\ (left' = left \/ \E x : left' = [left EXCEPT ![g] = x])
      BY <2>3 DEF Relay, Accept, SelectStart, CopyArray, Draw, ReadHealthy,
                  ReadBlockhead, Scan, Miss, Answer
    <3>. QED BY <2>3, <3>1, <3>2
  <2>4. CASE (\E ep \in Endpoint : Add(ep)) \/ Updator
    BY <2>4, <2>1 DEF Updator, Add, selVars, Receive, DropUnknown, SetHealthy, VisitItem,
       StoreLength, StoreArray, NoBlock, SetBlockhead, RaiseMaxTipHeight, ResetMaxTipHeight
  <2>5. CASE UNCHANGED vars
    BY <2>1, <2>5 DEF vars, selVars
  <2>. QED BY <1>1, <2>2, <2>3, <2>4, <2>5 DEF Next
<1>2. Inv /\ [Next]_vars =>
        [\A h \in Handler :
           hpc[h] # "idle" =>
             \/ UNCHANGED <<hpc[h], req[h], spec[h], left[h]>>
             \/ StepsLeft(h)' \in 0..(StepsLeft(h) - 1)]_vars
  BY <1>1
<1>. QED BY <1>2, Invariance, PTL DEF Spec, SelectionIsBounded
=============================================================================
