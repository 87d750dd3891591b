---------------------------- MODULE GatewayProofs ----------------------------
(***************************************************************************)
(* Proofs about Gateway, for every set of configurations, any number of    *)
(* reloads and websocket sessions.                                         *)
(***************************************************************************)
EXTENDS Gateway, SequenceTheorems, WellFoundedInduction, TLAPS

-----------------------------------------------------------------------------
(* The inductive invariant, in parts *)

Instance == [cfg : Config \cup {Blank}, syncing : BOOLEAN]

\* Between loads the newest instance serves; while the watcher replaces it,
\* the newest is one ahead, and the old one is stopped before it is left.
WatcherParts ==
  /\ inst \in Seq(Instance)
  /\ (current = 0) <=> (inst = <<>>)
  /\ watch \in {"off", "wait", "load", "build"} => Len(inst) = current
  /\ watch \in {"set", "assign"} => Len(inst) = current + 1
  /\ watch = "assign" => ~inst[current].syncing
  /\ \A i \in DOMAIN inst : inst[i].syncing => i >= current

\* The maps of the factory never lose a chain that an instance or an
\* entrypoint has found in them.
FactoryParts ==
  /\ DOMAIN factory = Api
  /\ \A api \in Api : \A c \in DOMAIN factory[api] : factory[api][c] # Nil
  /\ \A i \in DOMAIN inst : Supported(factory, inst[i].cfg)
  /\ entry \in [Entrypoint -> Api \cup {Nil}]
  /\ \A c \in Entrypoint : entry[c] # Nil => c \in DOMAIN factory[entry[c]]

Inv ==
  /\ TypeOK
  /\ WatcherParts
  /\ FactoryParts
  /\ OneDestPerSession

-----------------------------------------------------------------------------
(* The delegator factory *)

\* Among finitely many adaptors there is a last one.
LEMMA LastExists ==
  ASSUME NEW S, S \subseteq 1..24, S # {}
  PROVE  Max(S) \in S
<1> DEFINE T == {24 - i : i \in S}
<1>1. T \subseteq Nat /\ T # {}
  <2>1. \A i \in S : i \in 1..24 /\ 24 - i \in Nat
    OBVIOUS
  <2>. QED BY <2>1, Zenon
<1>2. \E n \in T : \A m \in T : n <= m
  <2> HIDE DEF T
  <2>1. PICK n \in T : \A m \in T : <<m, n>> \notin OpToRel(<, Nat)
    BY <1>1, WFMin, NatLessThanWellFounded, Zenon
  <2>2. \A m \in T : ~(m < n)
    BY <1>1, <2>1, Zenon DEF OpToRel
  <2>. QED BY <2>2, <1>1
<1>3. PICK i \in S : \A j \in S : 24 - i <= 24 - j
  BY <1>2
<1>4. \A j \in S : i >= j
  BY <1>3
<1>. QED BY <1>4 DEF Max

\* The table of adaptors names each one.
LEMMA AdaptorNames ==
  /\ DOMAIN Adaptors = 1..24
  /\ \A i \in DOMAIN Adaptors : Adaptors[i].name \in Namespace
<1>1. DOMAIN Adaptors = 1..24
  BY DEF Adaptors
<1>. QED BY <1>1 DEF Namespace

\* InstallAdaptors writes an adaptor for every chain it touches and removes
\* none: a chain once supported stays so, under whatever configuration.
LEMMA InstallAdds ==
  ASSUME NEW f, NEW extra,
         \A api \in Api : \A c \in DOMAIN f[api] : f[api][c] # Nil
  PROVE  /\ DOMAIN Install(f, extra) = Api
         /\ \A api \in Api :
              /\ DOMAIN f[api] \subseteq DOMAIN Install(f, extra)[api]
              /\ \A c \in DOMAIN Install(f, extra)[api] : Install(f, extra)[api][c] # Nil
<1> DEFINE of(api, c) == {i \in DOMAIN Adaptors :
                            Adaptors[i].api = api /\ c \in RegisteredChains(Adaptors[i], extra)}
           new(api) == UNION {RegisteredChains(Adaptors[i], extra) :
                                i \in {j \in DOMAIN Adaptors : Adaptors[j].api = api}}
           g == Install(f, extra)
<1>1. g = [api \in Api |-> [c \in new(api) \cup DOMAIN f[api] |->
              IF c \in new(api) THEN Adaptors[Max(of(api, c))].name ELSE f[api][c]]]
  BY DEF Install
<1>2. ASSUME NEW api \in Api, NEW c \in new(api)
      PROVE  Adaptors[Max(of(api, c))].name # Nil
  <2>1. of(api, c) # {} /\ of(api, c) \subseteq 1..24
    BY AdaptorNames
  <2>2. Max(of(api, c)) \in of(api, c)
    <3> HIDE DEF of
    <3>. QED BY <2>1, LastExists
  <2>. QED BY <2>2, AdaptorNames, NilAssumption
<1> HIDE DEF of, new, g
<1>3. DOMAIN g = Api
  BY <1>1
<1>4. ASSUME NEW api \in Api
      PROVE  /\ DOMAIN f[api] \subseteq DOMAIN g[api]
             /\ \A c \in DOMAIN g[api] : g[api][c] # Nil
  BY <1>1, <1>2, <1>4
<1>. QED BY <1>3, <1>4 DEF g

\* Growing the maps keeps what was found in them ...
LEMMA GrowthKeeps ==
  ASSUME NEW f, NEW g,
         \A api \in Api : DOMAIN f[api] \subseteq DOMAIN g[api]
  PROVE  /\ \A cfg : Supported(f, cfg) => Supported(g, cfg)
         /\ \A api \in Api : \A c \in DOMAIN f[api] : c \in DOMAIN g[api]
BY DEF Supported, SupportChain

\* ... and what an entrypoint finds is there.
LEMMA EntrypointFinds ==
  ASSUME NEW f, NEW c
  PROVE  /\ StartEntrypoint(f, c) \in Api \cup {Nil}
         /\ StartEntrypoint(f, c) # Nil => c \in DOMAIN f[StartEntrypoint(f, c)]
BY DEF StartEntrypoint, Api

\* A supported chain has a delegator for its head.
LEMMA SupportedHasDelegator ==
  ASSUME NEW f, NEW c, SupportChain(f, c),
         \A api \in Api : \A d \in DOMAIN f[api] : f[api][d] # Nil
  PROVE  BlockheadDelegator(f, c) # Nil
BY DEF SupportChain, BlockheadDelegator, Api

-----------------------------------------------------------------------------
(* Steps *)

LEMMA InitInv == Init => Inv
<1> SUFFICES ASSUME Init PROVE Inv
  OBVIOUS
<1>1. /\ inst = <<>> /\ current = 0 /\ watch = "off" /\ factory = NoDelegators
      /\ entry = [c \in Entrypoint |-> Nil]
      /\ live = {} /\ dests = {} /\ pair = [s \in Session |-> 0]
  BY DEF Init
<1>2. inst \in Seq(Instance) /\ Len(inst) = 0 /\ DOMAIN inst = {}
  BY <1>1, EmptySeq
<1>3. TypeOK
  <2>1. /\ file \in Config \cup {Bad, Blank} /\ nbcfg \in Config \cup {Blank}
        /\ noticed \in BOOLEAN /\ detached \in BOOLEAN
    BY Zenon DEF Init
  <2>3. writes \in 0..MaxWrites /\ events \in 0..2
    BY SessionAssumption DEF Init
  <2>2. pair \in [Session -> 0..MaxDest]
    BY <1>1, SessionAssumption
  <2>. QED BY <1>1, <1>2, <2>1, <2>2, <2>3 DEF TypeOK
<1>4. WatcherParts
  BY <1>1, <1>2 DEF WatcherParts
<1>5. FactoryParts
  BY <1>1, <1>2 DEF FactoryParts, NoDelegators
<1>6. OneDestPerSession
  BY <1>1 DEF OneDestPerSession
<1>. QED BY <1>3, <1>4, <1>5, <1>6 DEF Inv

\* A killed process leaves nothing but the file.
LEMMA DeadStep ==
  ASSUME Inv, Dead, UNCHANGED fileVars
  PROVE  Inv'
<1>1. /\ inst' = <<>> /\ current' = 0 /\ watch' = "off" /\ factory' = NoDelegators
      /\ entry' = [c \in Entrypoint |-> Nil] /\ events' = 0 /\ detached' = FALSE
      /\ live' = {} /\ dests' = {} /\ pair' = [s \in Session |-> 0] /\ nbcfg' = Blank
      /\ UNCHANGED <<file, writes, noticed>>
  BY DEF Dead, fileVars
<1>2. inst' \in Seq(Instance) /\ Len(inst') = 0 /\ DOMAIN inst' = {}
  BY <1>1, EmptySeq
<1>3. TypeOK'
  <2>1. pair' \in [Session -> 0..MaxDest]
    BY <1>1, SessionAssumption
  <2>2. /\ file' \in Config \cup {Bad, Blank} /\ writes' \in 0..MaxWrites
        /\ noticed' \in BOOLEAN
    BY <1>1 DEF Inv, TypeOK
  <2>3. nbcfg' \in Config \cup {Blank} /\ detached' \in BOOLEAN
    BY <1>1, Zenon
  <2>4. events' \in 0..2
    BY <1>1
  <2>. QED BY <1>1, <1>2, <2>1, <2>2, <2>3, <2>4 DEF TypeOK
<1>4. WatcherParts'
  BY <1>1, <1>2 DEF WatcherParts
<1>5. FactoryParts'
  BY <1>1, <1>2 DEF FactoryParts, NoDelegators
<1>6. OneDestPerSession'
  BY <1>1 DEF OneDestPerSession
<1>. QED BY <1>3, <1>4, <1>5, <1>6 DEF Inv

\* What the parts give to a step that leaves their variables alone.
LEMMA PartsStutter ==
  /\ WatcherParts /\ UNCHANGED <<inst, current, watch>> => WatcherParts'
  /\ FactoryParts /\ UNCHANGED <<factory, inst, entry>> => FactoryParts'
  /\ OneDestPerSession /\ UNCHANGED wsVars => OneDestPerSession'
BY DEF WatcherParts, FactoryParts, OneDestPerSession, Supported, SupportChain, wsVars

\* Changes of the file and its events reach no instance.
LEMMA FileStep ==
  ASSUME Inv,
         \/ Truncate
         \/ \E content \in Config \cup {Bad} : Write(content) \/ Replace(content)
  PROVE  Inv'
<1>1. /\ file' \in Config \cup {Bad, Blank} /\ noticed' \in BOOLEAN
      /\ writes' \in 0..MaxWrites /\ events' \in 0..2 /\ detached' \in BOOLEAN
      /\ UNCHANGED <<watch, nbcfg, instVars, wsVars>>
  <2> USE DEF Inv, TypeOK, Changed, Watching
  <2>1. /\ file' \in Config \cup {Bad, Blank}
        /\ UNCHANGED <<watch, nbcfg, instVars, wsVars>>
    BY DEF Truncate, Write, Replace
  <2>2. writes' \in 0..MaxWrites
    <3>1. writes < MaxWrites /\ writes' = writes + 1 /\ writes \in 0..MaxWrites
      BY DEF Truncate, Write, Replace
    <3>. QED BY <3>1, SessionAssumption
  <2>3. events' \in 0..2
    <3>1. events' \in {events, events + 1} /\ (events' = events \/ events < 2)
      BY DEF Truncate, Write, Replace, Emit
    <3>. QED BY <3>1
  <2>4. detached' \in BOOLEAN /\ noticed' \in BOOLEAN
    BY DEF Truncate, Write, Replace
  <2>. QED BY <2>1, <2>2, <2>3, <2>4
<1>2. TypeOK'
  BY <1>1 DEF Inv, TypeOK, instVars, wsVars
<1>. QED BY <1>1, <1>2, PartsStutter DEF Inv, instVars

\* A new process serves the configuration it has loaded.
LEMMA BootStep ==
  ASSUME Inv, Boot
  PROVE  Inv'
<1> DEFINE f == Install(NoDelegators, file.extra)
           new == [cfg |-> file, syncing |-> TRUE]
<1>0. file \in Config \cup {Blank}
  BY DEF Boot, Inv, TypeOK
<1>1. /\ current = 0 /\ inst' = <<new>> /\ current' = 1 /\ factory' = f
      /\ Supported(f, file) /\ noticed' = TRUE
      /\ entry' = [c \in Entrypoint |-> StartEntrypoint(f, c)]
      /\ file \in Config \cup {Blank}
      /\ watch = "off"
      /\ UNCHANGED <<file, writes, watchVars, wsVars>>
  BY DEF Boot, Inv, TypeOK
<1>2. /\ inst' \in Seq(Instance) /\ Len(inst') = 1 /\ DOMAIN inst' = {1}
      /\ inst'[1] = new /\ inst' # <<>>
  BY <1>1 DEF Instance
<1>3. TypeOK'
  <2>1. \A i \in DOMAIN inst' : inst'[i].cfg \in Config \cup {Blank} /\ inst'[i].syncing \in BOOLEAN
    <3>1. new.cfg \in Config \cup {Blank} /\ new.syncing \in BOOLEAN
      BY <1>0, Zenon
    <3>. QED BY <1>2, <3>1
  <2>2. current' \in 0..Len(inst') /\ current' # 0
    BY <1>1, <1>2
  <2>. QED BY <1>1, <2>1, <2>2 DEF Inv, TypeOK, watchVars, wsVars
<1>4. WatcherParts'
  BY <1>1, <1>2 DEF WatcherParts, watchVars
<1>5. FactoryParts'
  <2>1. \A api \in Api : \A c \in DOMAIN NoDelegators[api] : NoDelegators[api][c] # Nil
    BY DEF NoDelegators
  <2>2. DOMAIN f = Api /\ \A api \in Api : \A c \in DOMAIN f[api] : f[api][c] # Nil
    BY <2>1, InstallAdds
  <2> HIDE DEF f
  <2>3. /\ entry' \in [Entrypoint -> Api \cup {Nil}]
        /\ \A c \in Entrypoint : entry'[c] # Nil => c \in DOMAIN f[entry'[c]]
    BY <1>1, EntrypointFinds
  <2>4. \A i \in DOMAIN inst' : Supported(f, inst'[i].cfg)
    BY <1>1, <1>2
  <2>. QED BY <1>1, <2>2, <2>3, <2>4 DEF FactoryParts
<1>. QED BY <1>1, <1>3, <1>4, <1>5, PartsStutter DEF Inv

\* The watcher starts, takes an event, or drops a bad file.
LEMMA WaitStep ==
  ASSUME Inv, StartWatch \/ Take \/ Ignore
  PROVE  Inv'
<1>1. /\ watch \in {"off", "wait", "load"} /\ watch' \in {"wait", "load"}
      /\ events' \in 0..2 /\ current # 0
      /\ UNCHANGED <<fileVars, detached, nbcfg, instVars, wsVars>>
  BY DEF Inv, TypeOK, StartWatch, Take, Ignore
<1>2. TypeOK'
  BY <1>1 DEF Inv, TypeOK, fileVars, instVars, wsVars
<1>3. WatcherParts'
  BY <1>1 DEF Inv, WatcherParts, instVars
<1>. QED BY <1>1, <1>2, <1>3, PartsStutter DEF Inv, instVars

\* The shared maps are installed over while an instance uses them.
LEMMA InstallStep ==
  ASSUME Inv, InstallAdaptors
  PROVE  Inv'
<1> DEFINE f == Install(factory, file.extra)
<1>1. /\ watch = "load" /\ watch' = "build" /\ nbcfg' = file /\ factory' = f
      /\ file \in Config \cup {Blank}
      /\ UNCHANGED <<fileVars, events, detached, inst, current, entry, wsVars>>
  BY DEF InstallAdaptors, Inv, TypeOK
<1>2. TypeOK'
  BY <1>1 DEF Inv, TypeOK, fileVars, wsVars
<1>3. WatcherParts'
  BY <1>1 DEF Inv, WatcherParts
<1>4. FactoryParts'
  <2>1. /\ DOMAIN f = Api
        /\ \A api \in Api : /\ DOMAIN factory[api] \subseteq DOMAIN f[api]
                            /\ \A c \in DOMAIN f[api] : f[api][c] # Nil
    BY InstallAdds DEF Inv, FactoryParts
  <2> HIDE DEF f
  <2>2. \A i \in DOMAIN inst : Supported(f, inst[i].cfg)
    BY <2>1, GrowthKeeps DEF Inv, FactoryParts
  <2>3. \A c \in Entrypoint : entry[c] # Nil => c \in DOMAIN f[entry[c]]
    BY <2>1 DEF Inv, FactoryParts
  <2>. QED BY <1>1, <2>1, <2>2, <2>3 DEF Inv, FactoryParts
<1>. QED BY <1>1, <1>2, <1>3, <1>4, PartsStutter DEF Inv

\* A second instance syncs, its chains found in the maps.
LEMMA BuildStep ==
  ASSUME Inv, Build
  PROVE  Inv'
<1> DEFINE new == [cfg |-> nbcfg, syncing |-> TRUE]
<1>1. /\ watch = "build" /\ watch' = "set" /\ inst' = Append(inst, new)
      /\ Supported(factory, nbcfg) /\ nbcfg \in Config \cup {Blank} /\ current # 0
      /\ UNCHANGED <<fileVars, events, detached, nbcfg, factory, current, entry, wsVars>>
  BY DEF Build, Inv, TypeOK
<1>2. inst \in Seq(Instance) /\ new \in Instance /\ Len(inst) = current /\ Len(inst) \in Nat
  BY <1>1, LenProperties DEF Inv, WatcherParts, Instance
<1> HIDE DEF new
<1>3. /\ inst' \in Seq(Instance) /\ Len(inst') = current + 1
      /\ inst'[current + 1] = new /\ inst' # <<>>
      /\ \A i \in 1..current : inst'[i] = inst[i]
      /\ DOMAIN inst' = 1..(current + 1) /\ DOMAIN inst = 1..current
  BY <1>1, <1>2, AppendProperties, LenProperties
<1>4. TypeOK'
  <2>1. \A i \in DOMAIN inst' : inst'[i].cfg \in Config \cup {Blank} /\ inst'[i].syncing \in BOOLEAN
    <3>1. \A i \in DOMAIN inst' : inst'[i] \in Instance
      BY <1>3, ElementOfSeq
    <3>. QED BY <3>1 DEF Instance
  <2>2. current' \in 0..Len(inst')
    BY <1>1, <1>2, <1>3
  <2>. QED BY <1>1, <2>1, <2>2 DEF Inv, TypeOK, fileVars, wsVars
<1>5. WatcherParts'
  BY <1>1, <1>2, <1>3 DEF Inv, WatcherParts
<1>6. FactoryParts'
  BY <1>1, <1>2, <1>3 DEF Inv, FactoryParts, new
<1>. QED BY <1>1, <1>4, <1>5, <1>6, PartsStutter DEF Inv

\* StopSync changes one field.
LEMMA StoppedInstance ==
  ASSUME NEW old \in Instance, NEW b \in BOOLEAN
  PROVE  LET stopped == [old EXCEPT !.syncing = b]
         IN stopped \in Instance /\ stopped.cfg = old.cfg /\ stopped.syncing = b
BY DEF Instance

\* The old instance is stopped, and only then ...
LEMMA StopOldStep ==
  ASSUME Inv, StopOld
  PROVE  Inv'
<1>1. /\ watch = "set" /\ watch' = "assign" /\ current # 0
      /\ inst' = [inst EXCEPT ![current].syncing = FALSE]
      /\ UNCHANGED <<fileVars, events, detached, nbcfg, factory, current, entry, wsVars>>
  BY DEF StopOld, Inv, TypeOK
<1>2. /\ inst \in Seq(Instance) /\ Len(inst) = current + 1 /\ current \in Nat
      /\ DOMAIN inst = 1..Len(inst)
  BY <1>1, LenProperties DEF Inv, WatcherParts, TypeOK
<1> DEFINE old == inst[current]
           stopped == [old EXCEPT !.syncing = FALSE]
<1>0. /\ inst' = [inst EXCEPT ![current] = stopped]
      /\ old \in Instance /\ current \in DOMAIN inst
  BY <1>1, <1>2, ElementOfSeq
<1> HIDE DEF old
<1>b. stopped \in Instance /\ stopped.cfg = old.cfg /\ ~stopped.syncing
  BY <1>0, StoppedInstance DEF stopped
<1> HIDE DEF stopped
<1>3. /\ DOMAIN inst' = DOMAIN inst
      /\ \A i \in DOMAIN inst : i # current => inst'[i] = inst[i]
      /\ inst'[current].cfg = inst[current].cfg /\ ~inst'[current].syncing
  BY <1>0, <1>b DEF old
<1>4. inst' \in Seq(Instance) /\ Len(inst') = Len(inst) /\ inst' # <<>>
  BY <1>0, <1>2, <1>b, ExceptSeq
<1>5. TypeOK'
  <2>1. \A i \in DOMAIN inst' : inst'[i].cfg \in Config \cup {Blank} /\ inst'[i].syncing \in BOOLEAN
    <3>1. \A i \in DOMAIN inst' : inst'[i] \in Instance
      BY <1>4, ElementOfSeq
    <3>. QED BY <3>1 DEF Instance
  <2>. QED BY <1>1, <1>4, <2>1 DEF Inv, TypeOK, fileVars, wsVars
<1>6. WatcherParts'
  BY <1>1, <1>2, <1>3, <1>4 DEF Inv, WatcherParts
<1>7. FactoryParts'
  BY <1>1, <1>2, <1>3 DEF Inv, FactoryParts
<1>. QED BY <1>1, <1>5, <1>6, <1>7, PartsStutter DEF Inv

\* ... the new one serves.
LEMMA AssignStep ==
  ASSUME Inv, Assign
  PROVE  Inv'
<1>1. /\ watch = "assign" /\ watch' = "wait" /\ current' = Len(inst)
      /\ UNCHANGED <<fileVars, events, detached, nbcfg, factory, inst, entry, wsVars>>
      /\ Len(inst) = current + 1 /\ current # 0 /\ current \in Nat
      /\ ~inst[current].syncing
      /\ DOMAIN inst = 1..Len(inst)
  BY LenProperties DEF Assign, Inv, TypeOK, WatcherParts
<1>2. TypeOK'
  BY <1>1 DEF Inv, TypeOK, fileVars, wsVars
<1>3. WatcherParts'
  BY <1>1 DEF Inv, WatcherParts
<1>. QED BY <1>1, <1>2, <1>3, PartsStutter DEF Inv

\* A session opens, is paired, or loses one of its two connections.
LEMMA SessionStep ==
  ASSUME Inv, Relaying
  PROVE  Inv'
<1>1. UNCHANGED <<fileVars, watchVars, instVars>>
  BY DEF Relaying, Open, Pair, SessionClose, DestClose
<1>2. /\ live' \subseteq Session /\ dests' \subseteq Session \X (1..MaxDest)
      /\ pair' \in [Session -> 0..MaxDest]
      /\ current = 0 => live' = {}
      /\ OneDestPerSession'
  <2> USE DEF Inv, TypeOK, OneDestPerSession
  <2>1. ASSUME NEW s \in Session, Open(s) PROVE <1>2
    BY <2>1 DEF Open
  <2>2. ASSUME NEW s \in Session, Pair(s) PROVE <1>2
    <3>1. PICK n \in 1..MaxDest : /\ dests' = dests \cup {<<s, n>>}
                                  /\ pair' = [pair EXCEPT ![s] = n]
      BY <2>2 DEF Pair
    <3>2. s \in live /\ pair[s] = 0 /\ live' = live
      BY <2>2 DEF Pair
    <3>3. \A d \in dests : d[1] # s
      BY <3>2
    <3>. QED BY <3>1, <3>2, <3>3
  <2>3. ASSUME NEW s \in Session, SessionClose(s) PROVE <1>2
    <3>1. /\ live' = live \ {s} /\ dests' = dests
          /\ pair' = [pair EXCEPT ![s] = 0]
      BY <2>3 DEF SessionClose
    <3>2. pair' \in [Session -> 0..MaxDest] /\ \A t \in live' : pair'[t] = pair[t]
      BY <3>1, SessionAssumption
    <3>. QED BY <3>1, <3>2
  <2>4. ASSUME NEW d \in dests, DestClose(d) PROVE <1>2
    <3>1. /\ dests' = dests \ {d} /\ live' = live
          /\ pair' = [pair EXCEPT ![d[1]] = 0]
      BY <2>4 DEF DestClose
    <3>2. d[1] \in Session /\ d = <<d[1], d[2]>>
      OBVIOUS
    <3>3. /\ pair' \in [Session -> 0..MaxDest]
          /\ \A t \in Session : t # d[1] => pair'[t] = pair[t]
      BY <3>1, <3>2, SessionAssumption
    <3>4. ASSUME NEW t \in live, t = d[1] PROVE {e \in dests' : e[1] = t} = {}
      BY <3>1, <3>4
    <3>. QED BY <3>1, <3>3, <3>4
  <2>. QED BY <2>1, <2>2, <2>3, <2>4 DEF Relaying
<1>3. TypeOK'
  BY <1>1, <1>2 DEF Inv, TypeOK, fileVars, watchVars, instVars
<1>. QED BY <1>1, <1>2, <1>3, PartsStutter DEF Inv, watchVars, instVars

LEMMA NextInv == Inv /\ [Next]_vars => Inv'
<1> SUFFICES ASSUME Inv, [Next]_vars PROVE Inv'
  OBVIOUS
<1>1. CASE Operator
  BY <1>1, FileStep, DeadStep DEF Operator, Kill
<1>2. CASE Boot
  BY <1>2, BootStep
<1>3. CASE StartWatch
  BY <1>3, WaitStep
<1>4. CASE Watcher
  BY <1>4, WaitStep, InstallStep, DeadStep, BuildStep, StopOldStep, AssignStep
     DEF Watcher, InstallRaces, BuildPanics
<1>5. CASE Relaying
  BY <1>5, SessionStep
<1>6. CASE UNCHANGED vars
  <2>1. TypeOK'
    BY <1>6 DEF Inv, TypeOK, vars, fileVars, watchVars, instVars, wsVars
  <2>. QED BY <1>6, <2>1, PartsStutter DEF Inv, vars, watchVars, instVars
<1>. QED BY <1>1, <1>2, <1>3, <1>4, <1>5, <1>6 DEF Next

-----------------------------------------------------------------------------
(* Theorems *)

\* The inductive invariant holds in every reachable state.
THEOREM Invariance == Spec => []Inv
BY InitInv, NextInv, PTL DEF Spec

\* Type correctness: whatever is written to the file, whenever, nothing but a
\* valid configuration is loaded, and sessions exist only while a process does.
THEOREM TypeCorrect == Spec => []TypeOK
<1>1. Inv => TypeOK
  BY DEF Inv
<1>. QED BY <1>1, Invariance, PTL

\* However many reloads there are, a retired Multiplexer never syncs.
THEOREM ServingCorrect == Spec => []OnlyServingSyncs
<1>1. Inv => OnlyServingSyncs
  <2> SUFFICES ASSUME Inv, NEW i \in DOMAIN inst, inst[i].syncing
               PROVE  i = current \/ (i = Len(inst) /\ watch \in {"set", "assign"})
    BY DEF OnlyServingSyncs
  <2>1. i \in 1..Len(inst) /\ i >= current /\ Len(inst) \in Nat /\ current \in Nat
    BY LenProperties DEF Inv, WatcherParts, TypeOK
  <2>2. \/ Len(inst) = current
        \/ Len(inst) = current + 1 /\ watch \in {"set", "assign"}
    BY DEF Inv, WatcherParts, TypeOK
  <2>. QED BY <2>1, <2>2
<1>. QED BY <1>1, Invariance, PTL

\* No instance and no entrypoint is ever without its adaptor, for every
\* sequence of configurations and extra_chains.
THEOREM FactoryCorrect == Spec => []NoChainOrphaned
<1>1. Inv => NoChainOrphaned
  BY SupportedHasDelegator DEF Inv, FactoryParts, NoChainOrphaned, Supported
<1>. QED BY <1>1, Invariance, PTL

\* A session has at most one destination, the one wsPairs has for it, for
\* any number of sessions and connections.
THEOREM SessionCorrect == Spec => []OneDestPerSession
<1>1. Inv => OneDestPerSession
  BY DEF Inv
<1>. QED BY <1>1, Invariance, PTL
=============================================================================
