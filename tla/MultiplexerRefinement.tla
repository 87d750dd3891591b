------------------------ MODULE MultiplexerRefinement ------------------------
(***************************************************************************)
(* The step-by-step table of Multiplexer implements the abstract one of    *)
(* EndpointStatus, in which a status is applied at once.  The abstract     *)
(* step is Receive: from there on the Settled... operators show the table  *)
(* as it will be when the updator is back at its channel, and each of the  *)
(* steps that bring the real table there is a stutter.                     *)
(***************************************************************************)
EXTENDS MultiplexerProofs

\* The heads the tip of a chain is chosen from, 0 for a chain without any.
HeadsOf(c, hd) == {0} \cup (Height \cap {hd[ep] : ep \in Items(c)})

\* A chain has one tip.
LEMMA TipIsUnique ==
  ASSUME NEW c \in Chain, NEW hd \in [Endpoint -> Height \cup {Nil}],
         NEW m \in HeadsOf(c, hd), NEW n \in HeadsOf(c, hd),
         IsTip(c, hd, m), IsTip(c, hd, n)
  PROVE  m = n
  <1>1. m \in Nat /\ n \in Nat  BY ConfigAssumption DEF HeadsOf
  <1>2. m <= n
    BY <1>1, NilAssumption DEF IsTip, HeadsOf, Items
  <1>3. n <= m
    BY <1>1, NilAssumption DEF IsTip, HeadsOf, Items
  <1> QED  BY <1>1, <1>2, <1>3

\* So a tip, once known, is what SettledTip chooses.
LEMMA ChosenTip ==
  ASSUME NEW c \in Chain, NEW hd \in [Endpoint -> Height \cup {Nil}],
         NEW m, IsTip(c, hd, m), m # Nil
  PROVE  m = CHOOSE n \in HeadsOf(c, hd) : IsTip(c, hd, n)
  <1>1. m \in HeadsOf(c, hd)
    BY DEF IsTip, HeadsOf, Items
  <1> DEFINE n == CHOOSE n \in HeadsOf(c, hd) : IsTip(c, hd, n)
  <1>2. n \in HeadsOf(c, hd) /\ IsTip(c, hd, n)  BY <1>1
  <1> QED  BY <1>1, <1>2, TipIsUnique

\* The maximum of EndpointStatus is the tip of Multiplexer.
LEMMA HighestIsTip ==
  ASSUME NEW c \in Chain, NEW hd \in [Endpoint -> Height \cup {Nil}]
  PROVE  Table!Highest(c, hd) = CHOOSE n \in HeadsOf(c, hd) : IsTip(c, hd, n)
  <1> DEFINE hs == {0} \cup ({hd[ep] : ep \in {e \in Endpoint : ChainOf[e] = c}} \ {Nil})
  <1>1. hs = HeadsOf(c, hd)
    <2>1. \A ep \in Endpoint : hd[ep] # Nil <=> hd[ep] \in Height
      BY NilAssumption, ConfigAssumption
    <2>2. \A x : x \in hs => x \in HeadsOf(c, hd)
      BY <2>1 DEF HeadsOf, Items
    <2>3. \A x : x \in HeadsOf(c, hd) => x \in hs
      BY <2>1 DEF HeadsOf, Items
    <2> QED  BY <2>2, <2>3
  <1>2. \A n \in hs : (\A h \in hs : h <= n) <=> IsTip(c, hd, n)
    <2> SUFFICES ASSUME NEW n \in hs
                 PROVE  (\A h \in hs : h <= n) <=> IsTip(c, hd, n)
      OBVIOUS
    <2>1. n \in Nat /\ hs \subseteq Nat  BY NilAssumption, ConfigAssumption
    <2>2. ASSUME \A h \in hs : h <= n  PROVE IsTip(c, hd, n)
      BY <2>2 DEF IsTip, Items
    <2>3. ASSUME IsTip(c, hd, n)  PROVE \A h \in hs : h <= n
      BY <2>1, <2>3 DEF IsTip, Items
    <2> QED  BY <2>2, <2>3
  <1>3. Table!Highest(c, hd) = CHOOSE n \in hs : \A h \in hs : h <= n
    BY DEF Table!Highest
  <1> HIDE DEF hs
  <1>4. (CHOOSE n \in hs : \A h \in hs : h <= n) = (CHOOSE n \in hs : IsTip(c, hd, n))
    BY <1>2
  <1> QED  BY <1>1, <1>3, <1>4
-----------------------------------------------------------------------------
(* The mapped table *)

\* The settled table has the types of the real one.
LEMMA SettledTypes ==
  ASSUME Inv
  PROVE  /\ SettledUp \in [Endpoint -> BOOLEAN]
         /\ SettledHead \in [Endpoint -> Height \cup {Nil}]
         /\ Pending => cs \in Status
  <1>1. TypeOK /\ UpdatorControl  BY DEF Inv
  <1>2. Pending => cs \in Status /\ cs.Healthy \in BOOLEAN /\ cs.Blockhead \in Height \cup {Nil}
    BY <1>1, Fields DEF UpdatorControl, Pending
  <1> QED  BY <1>1, <1>2 DEF TypeOK, SettledUp, SettledHead

\* While the updator waits for a status, or holds one about an endpoint it
\* does not know, the mapped table is the table itself.
LEMMA IdleIsSettled ==
  ASSUME ~Pending
  PROVE  /\ SettledUp = healthy
         /\ SettledHead = blockhead
         /\ SettledTip = [c \in Chain |-> maxTip[c]]
         /\ SettledListed = [c \in Chain |-> Names(weights[c])]
  BY DEF SettledUp, SettledHead, SettledTip, SettledListed

\* The mapped table depends on the real one, and, while a status is being
\* applied, only on what the steps of that status do not change.
LEMMA SettledStutter ==
  ASSUME Inv, added' = added,
         Pending, Pending', cs' = cs,
         SettledUp' = SettledUp, SettledHead' = SettledHead,
         \A c \in Chain : c # ChainOf[cs.EndpointName] =>
           /\ maxTip'[c] = maxTip[c]
           /\ weights'[c] = weights[c]
  PROVE  UNCHANGED <<added, SettledUp, SettledHead, SettledTip, SettledListed>>
  <1>1. SettledTip' = SettledTip
    <2> SUFFICES ASSUME NEW c \in Chain PROVE SettledTip'[c] = SettledTip[c]
      BY DEF SettledTip
    <2>1. CASE c = ChainOf[cs.EndpointName]
      BY <2>1 DEF SettledTip
    <2>2. CASE c # ChainOf[cs.EndpointName]
      BY <2>2 DEF SettledTip
    <2> QED  BY <2>1, <2>2
  <1>2. SettledListed' = SettledListed
    <2> SUFFICES ASSUME NEW c \in Chain PROVE SettledListed'[c] = SettledListed[c]
      BY DEF SettledListed
    <2>1. CASE c = ChainOf[cs.EndpointName]
      BY <2>1 DEF SettledListed
    <2>2. CASE c # ChainOf[cs.EndpointName]
      <3>1. Names(weights[c])' = Names(weights[c])  BY <2>2 DEF Names
      <3> QED  BY <2>2, <3>1 DEF SettledListed
    <2> QED  BY <2>1, <2>2
  <1> QED  BY <1>1, <1>2

-----------------------------------------------------------------------------
(* The steps of the updator *)

\* LoadFromConfig: an endpoint joins, healthy.
LEMMA AddJoins ==
  ASSUME Inv, NEW ep \in Endpoint, Add(ep)
  PROVE  Table!Join(ep)
  <1>1. TypeOK /\ UpdatorControl  BY DEF Inv
  <1>2. ~Pending /\ ~Pending'
    BY <1>1 DEF Pending, UpdatorControl, Add, updVars
  <1>3. healthy[ep]  BY <1>1 DEF UpdatorControl, Add
  <1>4. ChainOf[ep] \in Chain  BY Fields
  <1>5. weights' = [weights EXCEPT ![ChainOf[ep]] = AppendWeight(@, ep)]
    BY <1>3 DEF Add
  <1>6. Names(AppendWeight(weights[ChainOf[ep]], ep)) = Names(weights[ChainOf[ep]]) \cup {ep}
    <2>1. weights[ChainOf[ep]] \in Seq(Weight)  BY <1>1, <1>4 DEF TypeOK
    <2>2. LaysOut(weights[ChainOf[ep]], Names(weights[ChainOf[ep]]))
      BY <1>4 DEF Inv, TableParts, WellFormed
    <2>3. ep \notin Names(weights[ChainOf[ep]])
      BY <1>2, <1>4, <1>1 DEF Inv, TableParts, Rebuilding, Add, UpdatorControl
    <2> QED  BY <2>1, <2>2, <2>3, AppendLaysOut DEF LaysOut
  <1>7. [c \in Chain |-> Names(weights'[c])]
          = [[c \in Chain |-> Names(weights[c])] EXCEPT ![ChainOf[ep]] = @ \cup {ep}]
    BY <1>1, <1>4, <1>5, <1>6 DEF TypeOK
  <1>8. SettledListed' = [SettledListed EXCEPT ![ChainOf[ep]] = @ \cup {ep}]
    BY <1>2, <1>7, IdleIsSettled DEF SettledListed
  <1>9. UNCHANGED <<SettledUp, SettledHead, SettledTip>>
    BY <1>2 DEF SettledUp, SettledHead, SettledTip, Add
  <1> QED  BY <1>8, <1>9 DEF Table!Join, Add

\* Receive takes a status about a known endpoint off the channel: the whole
\* of the abstract update.
LEMMA ReceiveApplies ==
  ASSUME Inv, NEW st \in Published, Receive(st), st.EndpointName \in Endpoint
  PROVE  Table!Apply(st.EndpointName, st.Healthy, st.Blockhead)
  <1> DEFINE ep == st.EndpointName
             k == ChainOf[ep]
  <1>1. TypeOK /\ UpdatorControl  BY DEF Inv
  <1>2. st \in Status /\ st.Healthy \in BOOLEAN /\ st.Blockhead \in Height \cup {Nil} /\ k \in Chain
    BY Fields DEF Published
  <1>3. ~Pending /\ Pending' /\ cs' = st
    BY DEF Pending, Receive
  <1>4. UNCHANGED tableVars /\ added = Endpoint /\ updPc = "recv"
    BY DEF Receive, Loaded
  <1> USE DEF tableVars
  <1>5. SettledUp' = [SettledUp EXCEPT ![ep] = st.Healthy]
    BY <1>3, <1>4 DEF SettledUp
  <1>6. SettledHead' = IF st.Blockhead = Nil THEN SettledHead
                       ELSE [SettledHead EXCEPT ![ep] = st.Blockhead]
    BY <1>3, <1>4 DEF SettledHead
  <1>7. SettledHead' \in [Endpoint -> Height \cup {Nil}]
    BY <1>1, <1>2, <1>3, <1>6 DEF SettledHead, TypeOK
  <1>8. SettledTip' = [SettledTip EXCEPT ![k] = Table!Highest(k, SettledHead')]
    <2>1. SettledTip = [c \in Chain |-> maxTip[c]]  BY <1>3, IdleIsSettled
    <2>2. SettledTip' = [c \in Chain |->
             IF k = c THEN CHOOSE m \in HeadsOf(c, SettledHead') : IsTip(c, SettledHead', m)
             ELSE maxTip[c]]
      BY <1>3, <1>4 DEF SettledTip, HeadsOf
    <2>3. Table!Highest(k, SettledHead')
            = CHOOSE m \in HeadsOf(k, SettledHead') : IsTip(k, SettledHead', m)
      BY <1>2, <1>7, HighestIsTip
    <2> DEFINE hi == Table!Highest(k, SettledHead')
               chosen(c) == CHOOSE m \in HeadsOf(c, SettledHead') : IsTip(c, SettledHead', m)
    <2>4. SettledTip' = [c \in Chain |-> IF k = c THEN chosen(c) ELSE maxTip[c]]
      BY <2>2
    <2>5. hi = chosen(k)  BY <2>3
    <2> HIDE DEF hi, chosen, k
    <2>6. SettledTip' = [c \in Chain |-> IF k = c THEN hi ELSE maxTip[c]]
      BY <2>4, <2>5
    <2>7. [SettledTip EXCEPT ![k] = hi] = [c \in Chain |-> IF k = c THEN hi ELSE maxTip[c]]
      BY <2>1
    <2> QED  BY <2>6, <2>7 DEF hi
  <1>9. SettledListed' = [SettledListed EXCEPT ![k] =
                            IF st.Healthy THEN @ \cup {ep} ELSE @ \ {ep}]
    <2>1. SettledListed = [c \in Chain |-> Names(weights[c])]  BY <1>3, IdleIsSettled
    <2>2. SettledListed' = [c \in Chain |->
             IF k = c THEN {e \in Items(c) : SettledUp'[e]} ELSE Names(weights[c])]
      BY <1>3, <1>4 DEF SettledListed
    <2>3. Names(weights[k]) = {e \in Items(k) : healthy[e]}
      BY <1>2, <1>4 DEF Inv, TableParts, Rebuilding, Items
    <2>4. {e \in Items(k) : SettledUp'[e]}
            = IF st.Healthy THEN Names(weights[k]) \cup {ep} ELSE Names(weights[k]) \ {ep}
      BY <1>1, <1>2, <1>3, <1>5, <2>3 DEF SettledUp, Items, TypeOK
    <2> QED  BY <1>2, <2>1, <2>2, <2>4
  <1> QED  BY <1>4, <1>5, <1>6, <1>8, <1>9 DEF Table!Apply

\* A status about an endpoint of another process changes nothing.
LEMMA ForeignStutters ==
  ASSUME Inv, added' = added, UNCHANGED tableVars, ~Pending, ~Pending'
  PROVE  UNCHANGED <<added, SettledUp, SettledHead, SettledTip, SettledListed>>
  BY DEF SettledUp, SettledHead, SettledTip, SettledListed, tableVars

\* The end of updateStatus: the mapped table is the real one from here on,
\* so the real one must have caught up with the status.
LEMMA ReturnStutters ==
  ASSUME Inv, Inv', Pending, updPc' = "recv",
         updPc \in {"head", "tip", "retip"},
         UNCHANGED <<added, healthy, blockhead, weights>>,
         SettledUp = healthy, SettledHead = blockhead,
         \A c \in Chain : c # ChainOf[cs.EndpointName] => maxTip'[c] = maxTip[c]
  PROVE  UNCHANGED <<added, SettledUp, SettledHead, SettledTip, SettledListed>>
  <1> DEFINE k == ChainOf[cs.EndpointName]
  <1>1. TypeOK /\ TypeOK' /\ UpdatorControl  BY DEF Inv
  <1>2. ~Pending'  BY DEF Pending
  <1>3. k \in Chain /\ added = Endpoint
    BY <1>1, Fields DEF UpdatorControl, Pending
  <1>4. UNCHANGED <<SettledUp, SettledHead>>
    BY <1>2 DEF SettledUp, SettledHead
  <1>5. SettledTip' = SettledTip
    <2> SUFFICES ASSUME NEW c \in Chain PROVE maxTip'[c] = SettledTip[c]
      BY <1>2 DEF SettledTip
    <2>1. CASE c # k  BY <2>1 DEF SettledTip
    <2>2. CASE c = k
      <3>1. IsTip(c, blockhead', maxTip'[c])
        BY <1>2, <2>2 DEF Inv, TipParts, TipIsHighest
      <3>2. IsTip(c, blockhead, maxTip'[c])
        BY <3>1
      <3>3. maxTip'[c] # Nil  BY <1>1, NilAssumption DEF TypeOK
      <3>4. maxTip'[c] = CHOOSE n \in HeadsOf(c, blockhead) : IsTip(c, blockhead, n)
        BY <3>2, <3>3, <1>1, ChosenTip DEF TypeOK
      <3>5. SettledTip[c] = CHOOSE n \in HeadsOf(c, blockhead) : IsTip(c, blockhead, n)
        BY <2>2 DEF SettledTip, HeadsOf
      <3> QED  BY <3>4, <3>5
    <2> QED  BY <2>1, <2>2
  <1>6. SettledListed' = SettledListed
    <2> SUFFICES ASSUME NEW c \in Chain PROVE Names(weights[c]) = SettledListed[c]
      BY <1>2 DEF SettledListed
    <2>1. CASE c # k  BY <2>1 DEF SettledListed
    <2>2. CASE c = k
      <3>1. Names(weights[c]) = {ep \in Items(c) : healthy[ep]}
        BY <1>3 DEF Inv, TableParts, Rebuilding, Items
      <3> QED  BY <2>2, <3>1 DEF SettledListed
    <2> QED  BY <2>1, <2>2
  <1> QED  BY <1>4, <1>5, <1>6

\* What Inv does not say: the health flag is written before the table is
\* looked at.
FlagWritten ==
  updPc \notin {"recv", "begin"} => healthy[cs.EndpointName] = cs.Healthy

LEMMA FlagStep ==
  ASSUME Inv, FlagWritten, [Next]_vars
  PROVE  FlagWritten'
  <1>1. TypeOK /\ UpdatorControl  BY DEF Inv
  <1>2. CASE UNCHANGED <<healthy, updPc, cs>>
    BY <1>2 DEF FlagWritten
  <1>3. CASE UNCHANGED vars
    BY <1>2, <1>3 DEF vars, tableVars, updVars
  <1>4. ASSUME NEW ep \in Endpoint, Add(ep)  PROVE FlagWritten'
    BY <1>2, <1>4 DEF Add, updVars
  <1>5. ASSUME NEW st \in Published, Receive(st)  PROVE FlagWritten'
    BY <1>5 DEF Receive, FlagWritten
  <1>6. ASSUME SetHealthy  PROVE FlagWritten'
    BY <1>1, <1>6 DEF SetHealthy, FlagWritten, TypeOK
  <1>7. CASE updPc' = "recv"
    BY <1>7 DEF FlagWritten
  <1>8. CASE updPc \notin {"recv", "begin"} /\ UNCHANGED <<healthy, cs>>
    BY <1>8 DEF FlagWritten
  <1>9. ASSUME Updator  PROVE FlagWritten'
    <2>1. ASSUME DropUnknown \/ NoBlock \/ RaiseMaxTipHeight \/ ResetMaxTipHeight
          PROVE FlagWritten'
      BY <2>1, <1>7 DEF DropUnknown, NoBlock, RaiseMaxTipHeight, ResetMaxTipHeight, Return
    <2>2. ASSUME StoreLength \/ StoreArray \/ SetBlockhead \/ \E ep \in Endpoint : VisitItem(ep)
          PROVE FlagWritten'
      BY <2>2, <1>8 DEF StoreLength, StoreArray, SetBlockhead, VisitItem, tableVars
    <2> QED  BY <1>5, <1>6, <1>9, <2>1, <2>2 DEF Updator
  <1>10. ASSUME NEW h \in Handler, Relay(h)  PROVE FlagWritten'
    BY <1>2, <1>10
       DEF Relay, Accept, SelectStart, CopyArray, Draw, ReadHealthy, ReadBlockhead,
           Scan, Miss, Answer, tableVars, updVars
  <1> QED  BY <1>3, <1>4, <1>9, <1>10 DEF Next

\* What updateStatus has written before each of its steps.
LEMMA Written ==
  ASSUME Inv, FlagWritten, Pending
  PROVE  /\ updPc # "begin" => SettledUp = healthy
         /\ updPc \in {"tip", "retip"} => SettledHead = blockhead
         /\ cs.Blockhead = Nil => SettledHead = blockhead
  <1>1. TypeOK /\ UpdatorControl  BY DEF Inv
  <1>2. updPc # "begin" => SettledUp = healthy
    BY <1>1 DEF SettledUp, FlagWritten, Pending, TypeOK
  <1>3. updPc \in {"tip", "retip"} => SettledHead = blockhead
    BY <1>1 DEF SettledHead, Pending, UpdatorControl, TypeOK
  <1>4. cs.Blockhead = Nil => SettledHead = blockhead
    BY DEF SettledHead
  <1> QED  BY <1>2, <1>3, <1>4

\* Each step of updateStatus after Receive is a stutter of the mapped table.
LEMMA UpdateStutters ==
  ASSUME Inv, Inv', FlagWritten, Pending,
         \/ SetHealthy \/ StoreLength \/ StoreArray \/ NoBlock
         \/ SetBlockhead \/ RaiseMaxTipHeight \/ ResetMaxTipHeight
         \/ \E ep \in Endpoint : VisitItem(ep)
  PROVE  UNCHANGED <<added, SettledUp, SettledHead, SettledTip, SettledListed>>
  <1> DEFINE Goal == UNCHANGED <<added, SettledUp, SettledHead, SettledTip, SettledListed>>
             e == cs.EndpointName
             k == ChainOf[cs.EndpointName]
  <1>1. TypeOK /\ UpdatorControl  BY DEF Inv
  <1>2. e \in Endpoint /\ k \in Chain
    BY Fields DEF Pending
  <1>3. ASSUME SetHealthy  PROVE Goal
    <2>1. Pending' /\ cs' = cs /\ added' = added
      BY <1>2, <1>3 DEF Pending, SetHealthy
    <2>2. healthy' = [healthy EXCEPT ![e] = cs.Healthy]  BY <1>3 DEF SetHealthy
    <2>3. SettledUp' = SettledUp
      BY <2>1, <2>2, <1>1, <1>2 DEF SettledUp, TypeOK
    <2>4. SettledHead' = SettledHead
      BY <2>1, <1>3 DEF SettledHead, SetHealthy
    <2>5. UNCHANGED <<maxTip, weights>>  BY <1>3 DEF SetHealthy
    <2> HIDE DEF Goal
    <2> QED  BY <2>1, <2>3, <2>4, <2>5, SettledStutter DEF Goal
  <1>4. ASSUME \/ StoreLength \/ StoreArray \/ \E ep \in Endpoint : VisitItem(ep)
        PROVE  Goal
    <2>1. Pending' /\ cs' = cs
      BY <1>2, <1>4 DEF Pending, StoreLength, StoreArray, VisitItem
    <2>2. UNCHANGED <<added, healthy, blockhead, maxTip>>
      BY <1>4 DEF StoreLength, StoreArray, VisitItem, tableVars
    <2>3. \A c \in Chain : c # k => weights'[c] = weights[c]
      BY <1>1, <1>2, <1>4 DEF StoreLength, StoreArray, VisitItem, tableVars, TypeOK
    <2>4. UNCHANGED <<SettledUp, SettledHead>>
      BY <2>1, <2>2 DEF SettledUp, SettledHead
    <2> HIDE DEF Goal
    <2> QED  BY <2>1, <2>2, <2>3, <2>4, SettledStutter DEF Goal
  <1>5. ASSUME SetBlockhead  PROVE Goal
    <2>1. Pending' /\ cs' = cs /\ added' = added
      BY <1>2, <1>5 DEF Pending, SetBlockhead
    <2>2. blockhead' = [blockhead EXCEPT ![e] = cs.Blockhead] /\ cs.Blockhead # Nil
      BY <1>5 DEF SetBlockhead
    <2>3. SettledHead' = SettledHead
      BY <2>1, <2>2, <1>1, <1>2 DEF SettledHead, TypeOK
    <2>4. SettledUp' = SettledUp
      BY <2>1, <1>5 DEF SettledUp, SetBlockhead
    <2>5. UNCHANGED <<maxTip, weights>>  BY <1>5 DEF SetBlockhead
    <2> HIDE DEF Goal
    <2> QED  BY <2>1, <2>3, <2>4, <2>5, SettledStutter DEF Goal
  <1>6. ASSUME NoBlock \/ RaiseMaxTipHeight \/ ResetMaxTipHeight  PROVE Goal
    <2>1. updPc' = "recv" /\ UNCHANGED <<added, healthy, blockhead, weights>>
      BY <1>6 DEF NoBlock, RaiseMaxTipHeight, ResetMaxTipHeight, Return, tableVars
    <2>2. updPc \in {"head", "tip", "retip"}
      BY <1>6 DEF NoBlock, RaiseMaxTipHeight, ResetMaxTipHeight
    <2>3. SettledUp = healthy /\ SettledHead = blockhead
      BY <1>6, <2>2, Written DEF NoBlock, RaiseMaxTipHeight, ResetMaxTipHeight
    <2>4. \A c \in Chain : c # k => maxTip'[c] = maxTip[c]
      BY <1>1, <1>2, <1>6
         DEF NoBlock, RaiseMaxTipHeight, ResetMaxTipHeight, tableVars, TypeOK
    <2> HIDE DEF Goal
    <2> QED  BY <2>1, <2>2, <2>3, <2>4, ReturnStutters DEF Goal
  <1> QED  BY <1>3, <1>4, <1>5, <1>6

-----------------------------------------------------------------------------
(* The theorem *)

LEMMA InitMaps == Init => Table!Init
  <1> SUFFICES ASSUME Init  PROVE Table!Init
    OBVIOUS
  <1>1. ~Pending  BY DEF Init, Pending
  <1>2. SettledTip = [c \in Chain |-> 0] /\ SettledListed = [c \in Chain |-> {}]
    BY <1>1 DEF SettledTip, SettledListed, Init, Names
  <1>3. SettledUp = healthy /\ SettledHead = blockhead  BY <1>1, IdleIsSettled
  <1> QED  BY <1>2, <1>3 DEF Init, Table!Init

LEMMA StepMaps ==
  ASSUME Inv, Inv', FlagWritten, [Next]_vars
  PROVE  [Table!Next]_(Table!vars)
  <1> DEFINE Still == UNCHANGED <<added, SettledUp, SettledHead, SettledTip, SettledListed>>
  <1>1. CASE UNCHANGED <<tableVars, updPc, cs>>
    <2>1. Still
      BY <1>1 DEF tableVars, SettledUp, SettledHead, SettledTip, SettledListed, Pending,
                  Names, IsTip
    <2> QED  BY <2>1 DEF Table!vars
  <1>2. ASSUME NEW ep \in Endpoint, Add(ep)  PROVE Table!Next
    BY <1>2, AddJoins DEF Table!Next
  <1>3. ASSUME NEW st \in Published, Receive(st)  PROVE [Table!Next]_(Table!vars)
    <2>1. CASE st.EndpointName \in Endpoint
      <3>1. st.Healthy \in BOOLEAN /\ st.Blockhead \in Height \cup {Nil}
        BY Fields DEF Published
      <3> QED  BY <1>3, <2>1, <3>1, ReceiveApplies DEF Table!Next
    <2>2. CASE st.EndpointName \notin Endpoint
      <3>1. UNCHANGED tableVars /\ ~Pending /\ ~Pending'
        BY <1>3, <2>2 DEF Receive, Pending
      <3> QED  BY <3>1, ForeignStutters DEF Table!vars, tableVars
    <2> QED  BY <2>1, <2>2
  <1>4. ASSUME DropUnknown  PROVE UNCHANGED Table!vars
    <2>1. UNCHANGED tableVars /\ ~Pending /\ ~Pending'
      BY <1>4 DEF DropUnknown, Return, Pending
    <2> QED  BY <2>1, ForeignStutters DEF Table!vars, tableVars
  <1>5. ASSUME \/ SetHealthy \/ StoreLength \/ StoreArray \/ NoBlock
               \/ SetBlockhead \/ RaiseMaxTipHeight \/ ResetMaxTipHeight
               \/ \E ep \in Endpoint : VisitItem(ep)
        PROVE  UNCHANGED Table!vars
    <2>1. Pending
      BY <1>5 DEF Pending, Inv, UpdatorControl, SetHealthy, StoreLength, StoreArray,
                  NoBlock, SetBlockhead, RaiseMaxTipHeight, ResetMaxTipHeight, VisitItem
    <2> QED  BY <1>5, <2>1, UpdateStutters DEF Table!vars
  <1>6. ASSUME NEW h \in Handler, Relay(h)  PROVE UNCHANGED <<tableVars, updPc, cs>>
    BY <1>6
       DEF Relay, Accept, SelectStart, CopyArray, Draw, ReadHealthy, ReadBlockhead,
           Scan, Miss, Answer, updVars
  <1>7. CASE UNCHANGED vars  BY <1>1, <1>7 DEF vars, updVars
  <1> QED  BY <1>1, <1>2, <1>3, <1>4, <1>5, <1>6, <1>7 DEF Next, Updator

\* updateStatus, appendWeights and resetWeights, interleaved with any number
\* of handlers, implement the table in which every status is applied at once.
THEOREM TableRefines == Spec => ImplementsTable
  <1>1. Init => Table!Init /\ Inv /\ FlagWritten
    BY InitMaps, InitInv DEF Init, FlagWritten
  <1>2. Inv /\ FlagWritten /\ [Next]_vars => (Inv /\ FlagWritten)'
    BY NextInv, FlagStep
  <1>3. Inv /\ FlagWritten /\ (Inv /\ FlagWritten)' /\ [Next]_vars
          => [Table!Next]_(Table!vars)
    BY StepMaps
  <1> QED  BY <1>1, <1>2, <1>3, PTL DEF Spec, ImplementsTable, Table!Spec
=============================================================================
