--------------------------- MODULE RatelimitProofs ---------------------------
(***************************************************************************)
(* Proofs about Ratelimit, for every number of clients, users, addresses   *)
(* and hours, and all limits.                                              *)
(***************************************************************************)
EXTENDS Ratelimit, FiniteSetTheorems, TLAPS

-----------------------------------------------------------------------------
(* The inductive invariant, in parts *)

Counters == [Window -> [Field -> Nat]]

\* No client is held to more than the highest limit of its field.
LimitParts == \A c \in Client : limit[c] <= TopLimit(field[c])

\* Below the base a counter counts the requests; from the base on, at least
\* the request that opened it is not counted any more.
CountParts ==
  /\ \A w \in Window, f \in Field :
       /\ hash[w][f] < valueBase => hash[w][f] <= calls[w][f]
       /\ hash[w][f] >= valueBase => hash[w][f] - valueBase < calls[w][f]
  /\ \A c \in Client :
       pc[c] \in {"hset", "expire"} => calls[key[c]][field[c]] > 0

\* Commands run in the hour of their key or the next, and a hash outlives
\* both.
HourParts ==
  /\ \A c \in Client : pc[c] # "idle" => key[c] <= now /\ now <= key[c] + 1
  /\ \A w \in Window : expires[w] # Nil => expires[w] >= w + 2

\* Clients that have opened a field and will be let through ...
Openers(w, f) == {c \in Client : pc[c] = "expire" /\ key[c] = w /\ field[c] = f}

\* ... what was granted of the last opening ...
Spent(w, f) == IF Used(w, f) < TopLimit(f) THEN Used(w, f) ELSE TopLimit(f) - 1

\* ... and an hour whose requests are all answered.
Past(w) == w < now /\ \A c \in Client : pc[c] # "idle" => key[c] # w

\* Earlier openings gave away a limit each, the last one what is spent of
\* it; the hash of a past hour may be dropped, nothing is granted any more.
Budget(w, f) ==
  \/ granted[w][f] + Cardinality(Openers(w, f))
       <= opened[w][f] * TopLimit(f) + Spent(w, f)
  \/ /\ Past(w)
     /\ granted[w][f] < opened[w][f] * TopLimit(f) + TopLimit(f)

BudgetParts == \A w \in Window, f \in Field : Budget(w, f)

Inv ==
  /\ TypeOK
  /\ LimitParts
  /\ CountParts
  /\ HourParts
  /\ BudgetParts

-----------------------------------------------------------------------------
(* Limits and counters *)

\* A limit is positive, also when the configuration gives none or a
\* negative one, and the websocket limit is the highest.
LEMMA Limits ==
  ASSUME NEW f
  PROVE  /\ TopLimit(f) \in Nat \ {0}
         /\ \A k \in Kind : Limit(f, k) \in Nat \ {0} /\ Limit(f, k) <= TopLimit(f)
<1>1. UserLimit \in Nat \ {0} /\ IPLimit \in Nat \ {0}
  BY LimitAssumption DEF UserLimit, IPLimit
<1>2. \A k : Limit(f, k) \in Nat \ {0}
  BY <1>1 DEF Limit
<1>3. Limit(f, "http") <= Limit(f, "ws")
  BY <1>1 DEF Limit
<1>. QED BY <1>2, <1>3, ClientAssumption DEF TopLimit

\* There are finitely many openers.
LEMMA OpenersFinite ==
  ASSUME NEW w, NEW f
  PROVE  /\ IsFiniteSet(Openers(w, f)) /\ Cardinality(Openers(w, f)) \in Nat
         /\ IsFiniteSet(Openers(w, f)') /\ Cardinality(Openers(w, f)') \in Nat
<1>1. Openers(w, f) \subseteq Client /\ Openers(w, f)' \subseteq Client
  BY DEF Openers
<1>. QED BY <1>1, ClientAssumption, FS_Subset, FS_CardinalityType

\* What is spent of an opening leaves at least one request of the limit.
LEMMA SpentBelowLimit ==
  ASSUME TypeOK, NEW w \in Window, NEW f \in Field
  PROVE  Spent(w, f) \in Nat /\ Spent(w, f) < TopLimit(f) /\ Used(w, f) \in Nat
<1>1. hash[w][f] \in Nat /\ valueBase \in Nat
  BY LimitAssumption DEF TypeOK
<1>2. Used(w, f) \in Nat
  BY <1>1 DEF Used
<1>. QED BY <1>2, Limits DEF Spent

\* A step that leaves the counters of a field alone, and lets nobody through
\* who was not, keeps its budget.
LEMMA BudgetStays ==
  ASSUME Inv, NEW w \in Window, NEW f \in Field,
         hash'[w][f] = hash[w][f], opened'[w][f] = opened[w][f],
         granted'[w][f] = granted[w][f],
         Openers(w, f)' \subseteq Openers(w, f),
         Past(w) => Past(w)'
  PROVE  Budget(w, f)'
<1>1. Cardinality(Openers(w, f)') <= Cardinality(Openers(w, f))
  BY OpenersFinite, FS_Subset
<1>2. Spent(w, f)' = Spent(w, f)
  BY DEF Spent, Used
<1>3. Budget(w, f)
  BY DEF Inv, BudgetParts
<1> DEFINE room == opened[w][f] * TopLimit(f)
<1>4. room \in Nat /\ granted[w][f] \in Nat
  BY Limits DEF Inv, TypeOK
<1>5. opened'[w][f] * TopLimit(f) = room
  OBVIOUS
<1> HIDE DEF room
<1>. QED BY <1>1, <1>2, <1>3, <1>4, <1>5, OpenersFinite, SpentBelowLimit, Limits
     DEF Budget, room, Inv

-----------------------------------------------------------------------------
(* Steps *)

LEMMA InitInv == Init => Inv
<1> SUFFICES ASSUME Init PROVE Inv
  OBVIOUS
<1>1. /\ 0 \in Window /\ \A w \in Window : w \in Nat
      /\ valueBase \in Nat \ {0}
  BY LimitAssumption DEF Window
<1>2. TypeOK
  BY <1>1 DEF Init, TypeOK
<1>3. LimitParts
  BY Limits DEF Init, LimitParts
<1>4. CountParts
  BY <1>1 DEF Init, CountParts
<1>5. HourParts
  BY <1>1 DEF Init, HourParts
<1>6. ASSUME NEW w \in Window, NEW f \in Field PROVE Budget(w, f)
  <2>1. Openers(w, f) = {}
    BY DEF Init, Openers
  <2>2. Cardinality(Openers(w, f)) = 0
    BY <2>1, FS_EmptySet
  <2>3. granted[w][f] = 0 /\ opened[w][f] = 0
    BY DEF Init
  <2>. QED BY <1>2, <2>2, <2>3, SpentBelowLimit, Limits DEF Budget
<1>. QED BY <1>2, <1>3, <1>4, <1>5, <1>6 DEF Inv, BudgetParts

\* A request that comes in is held to its limit in the current hour.
LEMMA RequestStep ==
  ASSUME Inv, NEW c \in Client, NEW f \in Field, NEW k \in Kind, Request(c, f, k)
  PROVE  Inv'
<1>1. /\ pc[c] = "idle" /\ pc' = [pc EXCEPT ![c] = "incr"]
      /\ key' = [key EXCEPT ![c] = now]
      /\ field' = [field EXCEPT ![c] = f]
      /\ limit' = [limit EXCEPT ![c] = Limit(f, k)]
      /\ UNCHANGED <<now, hash, expires, calls, opened, granted>>
  BY DEF Request, Goto
<1>2. Limit(f, k) \in Nat \ {0} /\ Limit(f, k) <= TopLimit(f)
  BY Limits
<1>3. TypeOK'
  BY <1>1, <1>2 DEF Inv, TypeOK
<1>4. LimitParts'
  BY <1>1, <1>2 DEF Inv, TypeOK, LimitParts
<1>5. CountParts'
  BY <1>1 DEF Inv, TypeOK, CountParts
<1>6. HourParts'
  <2>1. now \in Nat
    BY DEF Inv, TypeOK, Window
  <2>. QED BY <1>1, <2>1 DEF Inv, TypeOK, HourParts
<1>7. ASSUME NEW w \in Window, NEW g \in Field PROVE Budget(w, g)'
  <2>1. Openers(w, g)' \subseteq Openers(w, g)
    BY <1>1 DEF Inv, TypeOK, Openers
  <2>2. Past(w) => Past(w)'
    BY <1>1 DEF Inv, TypeOK, Past, Window
  <2>. QED BY <1>1, <2>1, <2>2, BudgetStays
<1>. QED BY <1>3, <1>4, <1>5, <1>6, <1>7 DEF Inv, BudgetParts

\* A request is counted, once or, when the reply is lost, once more.
LEMMA CountStep ==
  ASSUME Inv, NEW c \in Client, HIncrBy(c) \/ HIncrByLost(c)
  PROVE  Inv'
<1> DEFINE w0 == key[c]
           f0 == field[c]
           newValue == hash[w0][f0] + 1
<1>1. /\ w0 \in Window /\ f0 \in Field /\ limit[c] \in Nat \ {0}
      /\ limit[c] <= TopLimit(f0) /\ TopLimit(f0) \in Nat
      /\ hash \in Counters /\ calls \in Counters /\ granted \in Counters
      /\ newValue \in Nat /\ valueBase \in Nat \ {0}
      /\ hash[w0][f0] \in Nat /\ calls[w0][f0] \in Nat /\ granted[w0][f0] \in Nat
  BY Limits, LimitAssumption DEF Inv, TypeOK, LimitParts, Counters
<1>2. /\ pc[c] = "incr"
      /\ hash' = [hash EXCEPT ![w0][f0] = newValue]
      /\ calls' = [calls EXCEPT ![w0][f0] = calls[w0][f0] + 1]
      /\ UNCHANGED <<now, expires, key, field, limit, opened>>
  BY <1>1 DEF HIncrBy, HIncrByLost, Count, clientVars, Counters
<1>3. \/ pc' = pc /\ granted' = granted
      \/ pc' = [pc EXCEPT ![c] = "idle"] /\ granted' = granted
      \/ pc' = [pc EXCEPT ![c] = "hset"] /\ granted' = granted
      \/ /\ pc' = [pc EXCEPT ![c] = "idle"]
         /\ granted' = [granted EXCEPT ![w0][f0] = granted[w0][f0] + 1]
         /\ valueBase < newValue /\ newValue < valueBase + limit[c]
  BY <1>1 DEF HIncrBy, HIncrByLost, Count, Goto, Grant, clientVars, Counters
<1> HIDE DEF w0, f0, newValue
<1>4. /\ hash' \in Counters /\ hash'[w0][f0] = newValue
      /\ \A x \in Window, y \in Field : x # w0 \/ y # f0 => hash'[x][y] = hash[x][y]
  BY <1>1, <1>2 DEF Counters
<1>5. /\ calls' \in Counters /\ calls'[w0][f0] = calls[w0][f0] + 1
      /\ \A x \in Window, y \in Field : x # w0 \/ y # f0 => calls'[x][y] = calls[x][y]
  BY <1>1, <1>2 DEF Counters
<1>6. /\ granted' \in Counters
      /\ \A x \in Window, y \in Field : x # w0 \/ y # f0 => granted'[x][y] = granted[x][y]
      /\ \/ granted'[w0][f0] = granted[w0][f0]
         \/ /\ granted'[w0][f0] = granted[w0][f0] + 1
            /\ valueBase < newValue /\ newValue < valueBase + limit[c]
  <2>1. CASE granted' = granted
    BY <2>1, <1>1
  <2>2. CASE /\ granted' = [granted EXCEPT ![w0][f0] = granted[w0][f0] + 1]
             /\ valueBase < newValue /\ newValue < valueBase + limit[c]
    BY <2>2, <1>1 DEF Counters
  <2>. QED BY <2>1, <2>2, <1>3
<1>7. /\ pc' \in [Client -> {"idle", "incr", "hset", "expire"}]
      /\ pc'[c] # "expire"
      /\ \A d \in Client : d # c => pc'[d] = pc[d]
  BY <1>2, <1>3 DEF Inv, TypeOK, w0, f0
<1>8. TypeOK'
  BY <1>2, <1>4, <1>5, <1>6, <1>7 DEF Inv, TypeOK, Counters
<1>9. LimitParts'
  BY <1>2 DEF Inv, LimitParts
<1>10. CountParts'
  <2>1. ASSUME NEW w \in Window, NEW f \in Field
        PROVE  /\ hash'[w][f] < valueBase => hash'[w][f] <= calls'[w][f]
               /\ hash'[w][f] >= valueBase => hash'[w][f] - valueBase < calls'[w][f]
    <3>1. CASE w = w0 /\ f = f0
      <4>1. /\ hash[w0][f0] < valueBase => hash[w0][f0] <= calls[w0][f0]
            /\ hash[w0][f0] >= valueBase => hash[w0][f0] - valueBase < calls[w0][f0]
        BY <1>1 DEF Inv, CountParts
      <4>. QED BY <3>1, <4>1, <1>1, <1>4, <1>5 DEF newValue
    <3>2. CASE w # w0 \/ f # f0
      BY <3>2, <1>4, <1>5 DEF Inv, CountParts
    <3>. QED BY <3>1, <3>2
  <2>2. ASSUME NEW d \in Client, pc'[d] \in {"hset", "expire"}
        PROVE  calls'[key'[d]][field'[d]] > 0
    <3>1. key[d] \in Window /\ field[d] \in Field /\ key'[d] = key[d] /\ field'[d] = field[d]
      BY <1>2 DEF Inv, TypeOK
    <3>2. CASE key[d] = w0 /\ field[d] = f0
      BY <3>1, <3>2, <1>1, <1>5
    <3>3. CASE key[d] # w0 \/ field[d] # f0
      <4>1. d # c
        BY <3>3 DEF w0, f0
      <4>. QED BY <3>1, <3>3, <4>1, <2>2, <1>5, <1>7 DEF Inv, CountParts
    <3>. QED BY <3>2, <3>3
  <2>. QED BY <2>1, <2>2 DEF CountParts
<1>11. HourParts'
  BY <1>2, <1>7 DEF Inv, HourParts
<1>12. ASSUME NEW w \in Window, NEW f \in Field PROVE Budget(w, f)'
  <2>1. Openers(w, f)' \subseteq Openers(w, f)
    BY <1>2, <1>7 DEF Openers
  <2>2. Past(w) => Past(w)'
    BY <1>2, <1>7 DEF Past
  <2>3. CASE w = w0 /\ f = f0
    <3>1. Cardinality(Openers(w, f)') <= Cardinality(Openers(w, f))
      BY <2>1, OpenersFinite, FS_Subset
    <3>2. ~Past(w)
      BY <2>3, <1>2 DEF Past, w0
    <3>3. granted[w][f] + Cardinality(Openers(w, f))
            <= opened[w][f] * TopLimit(f) + Spent(w, f)
      BY <3>2 DEF Inv, BudgetParts, Budget
    <3>4. /\ Spent(w, f)' >= Spent(w, f)
          /\ granted'[w][f] - granted[w][f] <= Spent(w, f)' - Spent(w, f)
      BY <2>3, <1>1, <1>4, <1>6 DEF Spent, Used, newValue
    <3> DEFINE room == opened[w][f] * TopLimit(f)
    <3>5. /\ room \in Nat /\ opened'[w][f] * TopLimit(f) = room
          /\ granted[w][f] \in Nat /\ granted'[w][f] \in Nat
      BY <1>2, <1>8, Limits DEF Inv, TypeOK
    <3>6. Spent(w, f) \in Nat /\ Spent(w, f)' \in Nat
      <4>1. Spent(w, f) \in Nat
        BY SpentBelowLimit DEF Inv
      <4>2. Spent(w, f)' \in Nat
        BY <2>3, <1>1, <1>4, Limits DEF Spent, Used
      <4>. QED BY <4>1, <4>2
    <3> HIDE DEF room
    <3>7. granted[w][f] + Cardinality(Openers(w, f)) <= room + Spent(w, f)
      BY <3>3 DEF room
    <3>8. granted'[w][f] + Cardinality(Openers(w, f)') <= room + Spent(w, f)'
      BY <3>1, <3>4, <3>5, <3>6, <3>7, OpenersFinite
    <3>. QED BY <3>5, <3>8 DEF Budget
  <2>4. CASE w # w0 \/ f # f0
    BY <2>4, <2>1, <2>2, <1>2, <1>4, <1>6, BudgetStays
  <2>. QED BY <2>3, <2>4
<1>. QED BY <1>8, <1>9, <1>10, <1>11, <1>12 DEF Inv, BudgetParts

\* A client opens the field, once or, when the reply is lost, once more.
LEMMA OpenStep ==
  ASSUME Inv, NEW c \in Client, HSet(c) \/ HSetLost(c)
  PROVE  Inv'
<1> DEFINE w0 == key[c]
           f0 == field[c]
<1>1. /\ w0 \in Window /\ f0 \in Field
      /\ hash \in Counters /\ opened \in Counters
      /\ valueBase \in Nat \ {0} /\ opened[w0][f0] \in Nat
      /\ pc[c] = "hset" /\ calls[w0][f0] \in Nat /\ calls[w0][f0] > 0
  BY LimitAssumption DEF Inv, TypeOK, CountParts, Counters, HSet, HSetLost
<1>2. /\ hash' = [hash EXCEPT ![w0][f0] = valueBase]
      /\ opened' = [opened EXCEPT ![w0][f0] = opened[w0][f0] + 1]
      /\ UNCHANGED <<now, expires, key, field, limit, calls, granted>>
  BY <1>1 DEF HSet, HSetLost, Open, clientVars, Counters
<1>3. pc' = pc \/ pc' = [pc EXCEPT ![c] = "expire"]
  BY DEF HSet, HSetLost, Goto, clientVars
<1>4. /\ pc' \in [Client -> {"idle", "incr", "hset", "expire"}]
      /\ pc'[c] \in {"hset", "expire"}
      /\ \A d \in Client : d # c => pc'[d] = pc[d]
  BY <1>1, <1>3 DEF Inv, TypeOK, w0, f0
<1>5. Past(w0) = FALSE
  BY <1>1 DEF Past, w0
<1>6. \A w \in Window, f \in Field : Openers(w, f)' \subseteq Openers(w, f) \cup {c}
  BY <1>2, <1>4 DEF Openers
<1>7. \A w \in Window, f \in Field : w # w0 \/ f # f0 => Openers(w, f)' \subseteq Openers(w, f)
  BY <1>2, <1>4 DEF Openers, w0, f0
<1>8. c \notin Openers(w0, f0)
  BY <1>1 DEF Openers
<1>9. ASSUME NEW d \in Client, pc'[d] \in {"hset", "expire"}
      PROVE  calls'[key'[d]][field'[d]] > 0
  BY <1>1, <1>2, <1>4, <1>9 DEF Inv, CountParts, w0, f0
<1>10. HourParts'
  BY <1>1, <1>2, <1>4 DEF Inv, HourParts
<1>11. \A w \in Window : Past(w) => Past(w)'
  BY <1>1, <1>2, <1>4 DEF Past
<1> HIDE DEF w0, f0
<1>12. /\ hash' \in Counters /\ hash'[w0][f0] = valueBase
       /\ \A x \in Window, y \in Field : x # w0 \/ y # f0 => hash'[x][y] = hash[x][y]
  BY <1>1, <1>2 DEF Counters
<1>13. /\ opened' \in Counters /\ opened'[w0][f0] = opened[w0][f0] + 1
       /\ \A x \in Window, y \in Field : x # w0 \/ y # f0 => opened'[x][y] = opened[x][y]
  BY <1>1, <1>2 DEF Counters
<1>14. TypeOK'
  BY <1>2, <1>4, <1>12, <1>13 DEF Inv, TypeOK, Counters
<1>15. LimitParts'
  BY <1>2 DEF Inv, LimitParts
<1>16. CountParts'
  <2>1. ASSUME NEW w \in Window, NEW f \in Field
        PROVE  /\ hash'[w][f] < valueBase => hash'[w][f] <= calls'[w][f]
               /\ hash'[w][f] >= valueBase => hash'[w][f] - valueBase < calls'[w][f]
    <3>1. CASE w = w0 /\ f = f0
      BY <3>1, <1>1, <1>2, <1>12
    <3>2. CASE w # w0 \/ f # f0
      BY <3>2, <1>2, <1>12 DEF Inv, CountParts
    <3>. QED BY <3>1, <3>2
  <2>. QED BY <2>1, <1>9 DEF CountParts
<1>17. ASSUME NEW w \in Window, NEW f \in Field PROVE Budget(w, f)'
  <2>1. CASE w = w0 /\ f = f0
    <3> DEFINE T == TopLimit(f)
               room == opened[w][f] * T
    <3>1. granted[w][f] + Cardinality(Openers(w, f)) <= room + Spent(w, f)
      BY <2>1, <1>5 DEF Inv, BudgetParts, Budget
    <3>2. Cardinality(Openers(w, f)') <= Cardinality(Openers(w, f)) + 1
      <4>1. Cardinality(Openers(w, f) \cup {c}) = Cardinality(Openers(w, f)) + 1
        BY <2>1, <1>8, OpenersFinite, FS_AddElement
      <4>2. IsFiniteSet(Openers(w, f) \cup {c})
        BY OpenersFinite, FS_AddElement
      <4>. QED BY <1>6, <4>1, <4>2, FS_Subset
    <3>3. Spent(w, f)' = 0
      BY <2>1, <1>1, <1>12, Limits DEF Spent, Used
    <3>4. Spent(w, f) \in Nat /\ Spent(w, f) < T /\ T \in Nat
      BY SpentBelowLimit, Limits DEF Inv
    <3>5. granted[w][f] \in Nat /\ granted'[w][f] = granted[w][f] /\ opened[w][f] \in Nat
      BY <1>2 DEF Inv, TypeOK
    <3>6. opened'[w][f] * TopLimit(f) = room + T /\ room \in Nat
      <4> HIDE DEF T
      <4>1. opened'[w][f] = opened[w][f] + 1
        BY <2>1, <1>13
      <4>2. (opened[w][f] + 1) * T = opened[w][f] * T + T
        BY <3>4, <3>5
      <4>. QED BY <3>4, <3>5, <4>1, <4>2 DEF T
    <3> HIDE DEF T, room
    <3>7. granted'[w][f] + Cardinality(Openers(w, f)') <= (room + T) + Spent(w, f)'
      BY <3>1, <3>2, <3>3, <3>4, <3>5, <3>6, OpenersFinite
    <3>. QED BY <3>6, <3>7 DEF Budget
  <2>2. CASE w # w0 \/ f # f0
    BY <2>2, <1>2, <1>7, <1>11, <1>12, <1>13, BudgetStays
  <2>. QED BY <2>1, <2>2
<1>. QED BY <1>10, <1>14, <1>15, <1>16, <1>17 DEF Inv, BudgetParts

\* The client that opened the field is let through.
LEMMA ExpireStep ==
  ASSUME Inv, NEW c \in Client, Expire(c)
  PROVE  Inv'
<1> DEFINE w0 == key[c]
           f0 == field[c]
<1>1. /\ w0 \in Window /\ f0 \in Field /\ w0 \in Nat /\ now \in Nat
      /\ granted \in Counters /\ granted[w0][f0] \in Nat
      /\ pc[c] = "expire" /\ w0 <= now
  BY DEF Inv, TypeOK, HourParts, Counters, Window, Expire
<1>2. /\ granted' = [granted EXCEPT ![w0][f0] = granted[w0][f0] + 1]
      /\ pc' = [pc EXCEPT ![c] = "idle"]
      /\ expires' = [expires EXCEPT ![w0] = now + 2]
      /\ UNCHANGED <<now, hash, key, field, limit, calls, opened>>
  BY <1>1 DEF Expire, Goto, Grant, Counters
<1>3. /\ pc' \in [Client -> {"idle", "incr", "hset", "expire"}]
      /\ pc'[c] = "idle"
      /\ \A d \in Client : d # c => pc'[d] = pc[d]
  BY <1>2 DEF Inv, TypeOK, w0, f0
<1>4. /\ ~Past(w0)
      /\ \A w \in Window, f \in Field : w = w0 /\ f = f0 =>
           c \in Openers(w, f) /\ Openers(w, f)' = Openers(w, f) \ {c}
      /\ \A w \in Window, f \in Field : Openers(w, f)' \subseteq Openers(w, f)
      /\ \A w \in Window : Past(w) => Past(w)'
  BY <1>1, <1>2, <1>3 DEF Past, Openers
<1> HIDE DEF w0, f0
<1>5. /\ granted' \in Counters /\ granted'[w0][f0] = granted[w0][f0] + 1
      /\ \A x \in Window, y \in Field : x # w0 \/ y # f0 => granted'[x][y] = granted[x][y]
  BY <1>1, <1>2 DEF Counters
<1>6. /\ expires' \in [Window -> Nat \cup {Nil}]
      /\ HourParts'
  <2>1. expires' \in [Window -> Nat \cup {Nil}]
    BY <1>1, <1>2 DEF Inv, TypeOK
  <2>2. \A w \in Window : expires'[w] # Nil => expires'[w] >= w + 2
    BY <1>1, <1>2 DEF Inv, TypeOK, HourParts
  <2>. QED BY <2>1, <2>2, <1>2, <1>3 DEF Inv, HourParts
<1>7. TypeOK'
  BY <1>2, <1>3, <1>5, <1>6 DEF Inv, TypeOK, Counters
<1>8. LimitParts' /\ CountParts'
  BY <1>2, <1>3 DEF Inv, LimitParts, CountParts
<1>9. ASSUME NEW w \in Window, NEW f \in Field PROVE Budget(w, f)'
  <2>1. CASE w = w0 /\ f = f0
    <3>1. Cardinality(Openers(w, f)') = Cardinality(Openers(w, f)) - 1
      <4>1. Cardinality(Openers(w, f) \ {c}) = Cardinality(Openers(w, f)) - 1
        <5>1. c \in Openers(w, f) /\ IsFiniteSet(Openers(w, f))
          BY <2>1, <1>4, OpenersFinite
        <5>. QED BY <5>1, FS_RemoveElement, Zenon
      <4>. QED BY <2>1, <1>4, <4>1
    <3>2. Spent(w, f)' = Spent(w, f) /\ Spent(w, f) \in Nat
      BY <1>2, SpentBelowLimit DEF Inv, Spent, Used
    <3> DEFINE room == opened[w][f] * TopLimit(f)
    <3>3. /\ room \in Nat /\ opened'[w][f] * TopLimit(f) = room
          /\ granted[w][f] \in Nat
      BY <1>2, Limits DEF Inv, TypeOK
    <3> HIDE DEF room
    <3>4. granted[w][f] + Cardinality(Openers(w, f)) <= room + Spent(w, f)
      BY <2>1, <1>4 DEF Inv, BudgetParts, Budget, room
    <3>5. granted'[w][f] + Cardinality(Openers(w, f)') <= room + Spent(w, f)'
      BY <2>1, <1>5, <3>1, <3>2, <3>3, <3>4, OpenersFinite
    <3>. QED BY <3>3, <3>5 DEF Budget
  <2>2. CASE w # w0 \/ f # f0
    BY <2>2, <1>2, <1>4, <1>5, BudgetStays
  <2>. QED BY <2>1, <2>2
<1>. QED BY <1>6, <1>7, <1>8, <1>9 DEF Inv, BudgetParts

\* A request is given up, or an hour passes.
LEMMA QuietStep ==
  ASSUME Inv, Tick \/ (\E c \in Client : Fail(c)) \/ UNCHANGED vars
  PROVE  Inv'
<1>1. /\ UNCHANGED <<hash, expires, key, field, limit, calls, opened, granted>>
      /\ pc' \in [Client -> {"idle", "incr", "hset", "expire"}]
      /\ \A d \in Client : pc'[d] \in {pc[d], "idle"}
  BY DEF Inv, TypeOK, Tick, Fail, Goto, vars, clientVars
<1>2. /\ now' \in Window /\ now \in Nat /\ now' \in {now, now + 1}
      /\ now' = now + 1 => \A c \in Client : pc'[c] # "idle" => key[c] = now
  BY LimitAssumption DEF Inv, TypeOK, Window, Tick, Fail, vars, clientVars
<1>3. TypeOK'
  BY <1>1, <1>2 DEF Inv, TypeOK
<1>4. LimitParts' /\ CountParts'
  BY <1>1 DEF Inv, LimitParts, CountParts
<1>5. HourParts'
  <2>1. \A c \in Client : key[c] \in Nat
    BY DEF Inv, TypeOK, Window
  <2>. QED BY <1>1, <1>2, <2>1 DEF Inv, HourParts
<1>6. ASSUME NEW w \in Window, NEW f \in Field PROVE Budget(w, f)'
  <2>1. Openers(w, f)' \subseteq Openers(w, f)
    BY <1>1 DEF Openers
  <2>2. Past(w) => Past(w)'
    <3>1. w \in Nat
      BY DEF Window
    <3>. QED BY <3>1, <1>1, <1>2 DEF Past
  <2>. QED BY <1>1, <2>1, <2>2, BudgetStays
<1>. QED BY <1>3, <1>4, <1>5, <1>6 DEF Inv, BudgetParts

\* Redis drops the counters of an hour: it is past.
LEMMA DropStep ==
  ASSUME Inv, NEW v \in Window, DropExpired(v)
  PROVE  Inv'
<1>1. /\ hash' = [hash EXCEPT ![v] = [f \in Field |-> 0]]
      /\ expires' = [expires EXCEPT ![v] = Nil]
      /\ UNCHANGED <<now, pc, key, field, limit, calls, opened, granted>>
      /\ valueBase \in Nat \ {0}
  BY LimitAssumption DEF DropExpired, clientVars
<1>2. /\ v \in Nat /\ now \in Nat /\ expires[v] \in Nat
      /\ expires[v] >= v + 2 /\ expires[v] <= now
  <2>1. v \in Nat /\ now \in Nat
    BY DEF Inv, TypeOK, Window
  <2>2. expires[v] \in Nat /\ expires[v] <= now
    BY DEF Inv, TypeOK, DropExpired
  <2>. QED BY <2>1, <2>2 DEF Inv, HourParts, DropExpired
<1>3. Past(v)
  BY <1>2 DEF Inv, TypeOK, HourParts, Past, Window
<1>4. TypeOK'
  BY <1>1 DEF Inv, TypeOK
<1>5. LimitParts' /\ HourParts'
  BY <1>1 DEF Inv, TypeOK, LimitParts, HourParts
<1>6. CountParts'
  <2>1. ASSUME NEW w \in Window, NEW f \in Field
        PROVE  /\ hash'[w][f] < valueBase => hash'[w][f] <= calls'[w][f]
               /\ hash'[w][f] >= valueBase => hash'[w][f] - valueBase < calls'[w][f]
    BY <1>1 DEF Inv, TypeOK, CountParts
  <2>. QED BY <2>1, <1>1 DEF Inv, CountParts
<1>7. ASSUME NEW w \in Window, NEW f \in Field PROVE Budget(w, f)'
  <2>1. Past(w) <=> Past(w)'
    BY <1>1 DEF Past
  <2>2. CASE w = v
    <3> DEFINE room == opened[w][f] * TopLimit(f)
    <3>1. room \in Nat /\ granted[w][f] \in Nat
      BY Limits DEF Inv, TypeOK
    <3> HIDE DEF room
    <3>2. \/ granted[w][f] + Cardinality(Openers(w, f)) <= room + Spent(w, f)
          \/ granted[w][f] < room + TopLimit(f)
      BY DEF Inv, BudgetParts, Budget, room
    <3>3. granted[w][f] < room + TopLimit(f)
      BY <3>1, <3>2, OpenersFinite, SpentBelowLimit, Limits DEF Inv
    <3>. QED BY <2>1, <2>2, <1>1, <1>3, <3>3 DEF Budget, room
  <2>3. CASE w # v
    <3>1. Openers(w, f)' \subseteq Openers(w, f)
      BY <1>1 DEF Openers
    <3>2. hash'[w][f] = hash[w][f]
      BY <2>3, <1>1 DEF Inv, TypeOK
    <3>. QED BY <2>1, <3>1, <3>2, <1>1, BudgetStays
  <2>. QED BY <2>2, <2>3
<1>. QED BY <1>4, <1>5, <1>6, <1>7 DEF Inv, BudgetParts

LEMMA NextInv == Inv /\ [Next]_vars => Inv'
BY RequestStep, CountStep, OpenStep, ExpireStep, QuietStep, DropStep DEF Next, Incr

-----------------------------------------------------------------------------
(* Theorems *)

\* The inductive invariant holds in every reachable state.
THEOREM Invariance == Spec => []Inv
BY InitInv, NextInv, PTL DEF Spec

\* Type correctness: whatever the configuration gives as limits, clients are
\* held to positive ones, and counters stay natural numbers.
THEOREM TypeCorrect == Spec => []TypeOK
<1>1. Inv => TypeOK
  BY DEF Inv
<1>. QED BY <1>1, Invariance, PTL

\* For every number of clients and every limit, what is let through is
\* bounded by the limit for each time the field was opened, and one more.
THEOREM GrantsBounded == Spec => []GrantsPerOpening
<1>1. Inv => GrantsPerOpening
  <2> SUFFICES ASSUME Inv, NEW w \in Window, NEW f \in Field
               PROVE  granted[w][f] < (opened[w][f] + 1) * TopLimit(f)
    BY DEF GrantsPerOpening
  <2> DEFINE T == TopLimit(f)
             room == opened[w][f] * T
  <2>1. /\ T \in Nat /\ opened[w][f] \in Nat /\ granted[w][f] \in Nat
        /\ Spent(w, f) \in Nat /\ Spent(w, f) < T
    BY Limits, SpentBelowLimit DEF Inv, TypeOK
  <2>2. \/ granted[w][f] + Cardinality(Openers(w, f)) <= room + Spent(w, f)
        \/ granted[w][f] < room + T
    BY DEF Inv, BudgetParts, Budget
  <2> HIDE DEF T
  <2>3. room \in Nat /\ (opened[w][f] + 1) * T = room + T
    BY <2>1
  <2> HIDE DEF room
  <2>. QED BY <2>1, <2>2, <2>3, OpenersFinite DEF T
<1>. QED BY <1>1, Invariance, PTL

\* No request is refused before as many as the limit were counted, for every
\* number of clients and every interleaving of their commands.
THEOREM RefusalsEarned == Spec => []RefusalIsEarned
<1>1. Inv => RefusalIsEarned
  <2> SUFFICES ASSUME Inv, NEW w \in Window, NEW f \in Field
               PROVE  /\ Used(w, f) <= calls[w][f]
                      /\ Used(w, f) > 0 => Used(w, f) < calls[w][f]
    BY DEF RefusalIsEarned
  <2>1. /\ hash[w][f] \in Nat /\ calls[w][f] \in Nat /\ valueBase \in Nat
        /\ hash[w][f] >= valueBase => hash[w][f] - valueBase < calls[w][f]
    BY LimitAssumption DEF Inv, TypeOK, CountParts
  <2>. QED BY <2>1 DEF Used
<1>. QED BY <1>1, Invariance, PTL

\* The hash of an hour outlives the hour and the requests that still count
\* in it.
THEOREM CounterOutlives == Spec => []CounterOutlivesHour
<1>1. Inv => CounterOutlivesHour
  <2> SUFFICES ASSUME Inv, NEW w \in Window, expires[w] # Nil,
                      w = now \/ \E c \in Client : pc[c] # "idle" /\ key[c] = w
               PROVE  expires[w] > now
    BY DEF CounterOutlivesHour
  <2>1. w \in Nat /\ now \in Nat
    BY DEF Inv, TypeOK, Window
  <2>2. now <= w + 1
    BY <2>1 DEF Inv, HourParts
  <2>3. expires[w] \in Nat /\ expires[w] >= w + 2
    BY DEF Inv, TypeOK, HourParts
  <2>. QED BY <2>1, <2>2, <2>3
<1>. QED BY <1>1, Invariance, PTL
=============================================================================
