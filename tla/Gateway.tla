------------------------------- MODULE Gateway -------------------------------
(***************************************************************************)
(* The life of a nodemux process around its multiplexer: start up, the     *)
(* watcher that brings up a new Multiplexer when the configuration file    *)
(* changes (server/command.go), the singleton the requests use             *)
(* (core/multiplexer.go), the delegator factory that all instances share,  *)
(* entrypoints, and the websocket sessions with their destinations         *)
(* (server/jsonrpcws_relayer.go).                                          *)
(*                                                                         *)
(* A configuration is a record of the chains its endpoints are on, those   *)
(* with a streaming url among them, and extra_chains.  A file is truncated *)
(* and then written; a file caught in between is empty, which YAML reads   *)
(* as a configuration without endpoints.                                   *)
(***************************************************************************)
EXTENDS Adaptors, FiniteSets

CONSTANTS
  Config,      \* what operators write: [endpoints, websocket, extra]
  Bad,         \* a file that does not parse or validate
  Entrypoint,  \* the chains of the entrypoints in server.yml
  Session,     \* websocket clients
  ChainOfSession,
  MaxWrites,   \* bound of the model: changes of the file
  MaxDest      \* bound of the model: destinations a session opens

Blank == [endpoints |-> {}, websocket |-> {}, extra |-> [n \in Namespace |-> {}]]

ASSUME ConfigAssumption ==
  /\ \A cfg \in Config : /\ cfg.websocket \subseteq cfg.endpoints
                          /\ DOMAIN cfg.extra = Namespace
  /\ Bad \notin Config \cup {Blank}
ASSUME NilAssumption == Nil \notin Namespace
ASSUME SessionAssumption == MaxWrites \in Nat /\ MaxDest \in Nat /\ 0 \notin Session

VARIABLES
  file,      \* what is in the configuration file
  writes,    \* changes of the file so far
  noticed,   \* history: the last change was watched, or came before the load
  events,    \* write events on their way; the kernel merges those unread
  watch,     \* watchConfig's goroutine: "off", "wait", or what it does next
  detached,  \* the watched file was replaced: no more events
  nbcfg,     \* the configuration the watcher has loaded
  factory,   \* the DelegatorFactory
  inst,      \* the Multiplexers made: their configuration, and Syncing()
  current,   \* index of _instance, 0 when there is no process
  entry,     \* the protocol each entrypoint serves, Nil when it did not start
  live,      \* open client sessions
  pair,      \* wsPairs: a session's destination, 0 when it has none
  dests      \* destination connections open, as <<session, number>>

fileVars == <<file, writes, noticed>>
watchVars == <<events, watch, detached, nbcfg>>
instVars == <<factory, inst, current, entry>>
wsVars == <<live, pair, dests>>
vars == <<fileVars, watchVars, instVars, wsVars>>

Dead ==
  /\ events' = 0 /\ watch' = "off" /\ detached' = FALSE /\ nbcfg' = Blank
  /\ factory' = NoDelegators /\ inst' = <<>> /\ current' = 0
  /\ entry' = [c \in Entrypoint |-> Nil]
  /\ live' = {} /\ pair' = [s \in Session |-> 0] /\ dests' = {}

Init ==
  /\ file \in Config /\ writes = 0 /\ noticed = TRUE
  /\ events = 0 /\ watch = "off" /\ detached = FALSE /\ nbcfg = Blank
  /\ factory = NoDelegators /\ inst = <<>> /\ current = 0
  /\ entry = [c \in Entrypoint |-> Nil]
  /\ live = {} /\ pair = [s \in Session |-> 0] /\ dests = {}

-----------------------------------------------------------------------------
(* The file *)

Changed(content, seen) ==
  /\ writes < MaxWrites /\ writes' = writes + 1
  /\ file' = content /\ noticed' = seen

Watching == watch # "off" /\ ~detached

Emit == events' = IF Watching /\ events < 2 THEN events + 1 ELSE events

\* Writing in place: the file is empty first.
Truncate ==
  /\ Changed(Blank, Watching)
  /\ Emit
  /\ UNCHANGED <<watch, detached, nbcfg, instVars, wsVars>>

Write(content) ==
  /\ Changed(content, Watching)
  /\ Emit
  /\ UNCHANGED <<watch, detached, nbcfg, instVars, wsVars>>

\* Another file takes its name: no write event, and the watch is lost.
Replace(content) ==
  /\ Changed(content, FALSE)
  /\ detached' = (detached \/ watch # "off")
  /\ UNCHANGED <<events, watch, nbcfg, instVars, wsVars>>

-----------------------------------------------------------------------------
(* CommandStartServer *)

Supported(f, cfg) == \A c \in cfg.endpoints : SupportChain(f, c)

\* startEntrypointServer: the protocol of its chain, once and for all.
StartEntrypoint(f, c) ==
  IF c \in DOMAIN f["rpc"] THEN "rpc"
  ELSE IF c \in DOMAIN f["rest"] THEN "rest"
  ELSE IF c \in DOMAIN f["graphql"] THEN "graphql"
  ELSE Nil

\* Load, install, SetMultiplexer, StartSync.  The program panics on a bad
\* file and on a chain without an adaptor.
Boot ==
  /\ current = 0
  /\ file # Bad
  /\ LET f == Install(NoDelegators, file.extra) IN
     /\ Supported(f, file)
     /\ factory' = f
     /\ entry' = [c \in Entrypoint |-> StartEntrypoint(f, c)]
  /\ inst' = <<[cfg |-> file, syncing |-> TRUE]>>
  /\ current' = 1
  /\ noticed' = TRUE
  /\ UNCHANGED <<file, writes, watchVars, wsVars>>

\* watcher.Add: what changed since the load goes unnoticed.
StartWatch ==
  /\ current # 0 /\ watch = "off"
  /\ watch' = "wait"
  /\ UNCHANGED <<fileVars, events, detached, nbcfg, instVars, wsVars>>

\* The process is killed.
Kill == current # 0 /\ Dead /\ UNCHANGED fileVars

-----------------------------------------------------------------------------
(* watchConfig *)

TakeAll ==
  /\ watch = "wait" /\ events > 0
  /\ events' = 0 /\ watch' = "wait"
  /\ UNCHANGED <<fileVars, detached, nbcfg, instVars, wsVars>>

Take ==
  /\ watch = "wait" /\ events > 0
  /\ events' = events - 1 /\ watch' = "load"
  /\ UNCHANGED <<fileVars, detached, nbcfg, instVars, wsVars>>

AcceptBad ==
  /\ watch = "load" /\ file = Bad
  /\ nbcfg' = file /\ watch' = "build"
  /\ UNCHANGED <<fileVars, events, detached, instVars, wsVars>>

\* ConfigFromFile; a bad configuration is only logged.
Ignore ==
  /\ watch = "load" /\ file = Bad
  /\ watch' = "wait"
  /\ UNCHANGED <<fileVars, events, detached, nbcfg, instVars, wsVars>>

InstallAfresh ==
  /\ watch = "load" /\ file # Bad
  /\ nbcfg' = file
  /\ factory' = Install(NoDelegators, file.extra)
  /\ watch' = "build"
  /\ UNCHANGED <<fileVars, events, detached, inst, current, entry, wsVars>>

\* SetConfig and InstallAdaptors, into the maps the running instance uses.
InstallAdaptors ==
  /\ watch = "load" /\ file # Bad
  /\ nbcfg' = file
  /\ factory' = Install(factory, file.extra)
  /\ watch' = "build"
  /\ UNCHANGED <<fileVars, events, detached, inst, current, entry, wsVars>>

\* The maps are written while fetchers and handlers read them: the Go
\* runtime may end the process.
InstallRaces == watch = "load" /\ file # Bad /\ Dead /\ UNCHANGED fileVars

\* MultiplexerFromConfig and StartSync of the new instance.
Build ==
  /\ watch = "build" /\ Supported(factory, nbcfg)
  /\ inst' = Append(inst, [cfg |-> nbcfg, syncing |-> TRUE])
  /\ watch' = "set"
  /\ UNCHANGED <<fileVars, events, detached, nbcfg, factory, current, entry, wsVars>>

\* LoadFromConfig panics: "chain not supported".
BuildPanics ==
  watch = "build" /\ ~Supported(factory, nbcfg) /\ Dead /\ UNCHANGED fileVars

OldGoesOn ==
  /\ watch = "set"
  /\ watch' = "assign"
  /\ UNCHANGED <<fileVars, events, detached, nbcfg, instVars, wsVars>>

\* SetMultiplexer, a second later: StopSync of the old instance, then ...
StopOld ==
  /\ watch = "set"
  /\ inst' = [inst EXCEPT ![current].syncing = FALSE]
  /\ watch' = "assign"
  /\ UNCHANGED <<fileVars, events, detached, nbcfg, factory, current, entry, wsVars>>

\* ... _instance is the new one.
Assign ==
  /\ watch = "assign"
  /\ current' = Len(inst)
  /\ watch' = "wait"
  /\ UNCHANGED <<fileVars, events, detached, nbcfg, factory, inst, entry, wsVars>>

Watcher ==
  \/ Take \/ Ignore \/ InstallAdaptors \/ InstallRaces
  \/ Build \/ BuildPanics \/ StopOld \/ Assign

-----------------------------------------------------------------------------
(* JSONRPCWSRelayer.  A session handles its messages one after another.    *)

Open(s) ==
  /\ current # 0 /\ s \notin live
  /\ \A d \in dests : d[1] # s
  /\ live' = live \cup {s}
  /\ UNCHANGED <<fileVars, watchVars, instVars, pair, dests>>

NewDest(s, n) == n \in 1..MaxDest /\ <<s, n>> \notin dests

PairForgotten(s) ==
  /\ s \in live /\ pair[s] = 0
  /\ ChainOfSession[s] \in inst[current].cfg.websocket
  /\ \E n \in 1..MaxDest : NewDest(s, n) /\ dests' = dests \cup {<<s, n>>}
  /\ UNCHANGED <<fileVars, watchVars, instVars, live, pair>>

\* The first message: a destination on the current instance.  With a pair,
\* or without websocket endpoints, messages are passed on and change nothing.
Pair(s) ==
  /\ s \in live /\ pair[s] = 0
  /\ ChainOfSession[s] \in inst[current].cfg.websocket
  /\ \E n \in 1..MaxDest :
       /\ NewDest(s, n)
       /\ dests' = dests \cup {<<s, n>>}
       /\ pair' = [pair EXCEPT ![s] = n]
  /\ UNCHANGED <<fileVars, watchVars, instVars, live>>

\* The destination goes away: its OnClose removes the session's pair.
DestClose(d) ==
  /\ d \in dests
  /\ dests' = dests \ {d}
  /\ pair' = [pair EXCEPT ![d[1]] = 0]
  /\ UNCHANGED <<fileVars, watchVars, instVars, live>>

\* The client goes away: the pair is removed, the destination stays open.
SessionClose(s) ==
  /\ s \in live
  /\ live' = live \ {s}
  /\ pair' = [pair EXCEPT ![s] = 0]
  /\ UNCHANGED <<fileVars, watchVars, instVars, dests>>

-----------------------------------------------------------------------------
Operator ==
  \/ Truncate
  \/ \E content \in Config \cup {Bad} : Write(content) \/ Replace(content)
  \/ Kill

Relaying ==
  \/ \E s \in Session : Open(s) \/ Pair(s) \/ SessionClose(s)
  \/ \E d \in dests : DestClose(d)

Next == Operator \/ Boot \/ StartWatch \/ Watcher \/ Relaying

Spec == Init /\ [][Next]_vars

\* A supervisor starts the program again; the watcher's goroutine runs.
FairSpec == Spec /\ WF_vars(Boot) /\ WF_vars(StartWatch) /\ WF_vars(Watcher)

-----------------------------------------------------------------------------
(* Properties *)

\* Every variable keeps the type it stands for.
TypeOK ==
  /\ file \in Config \cup {Bad, Blank} /\ nbcfg \in Config \cup {Blank}
  /\ writes \in 0..MaxWrites /\ events \in 0..2
  /\ watch \in {"off", "wait", "load", "build", "set", "assign"}
  /\ noticed \in BOOLEAN /\ detached \in BOOLEAN
  /\ \A i \in DOMAIN inst : inst[i].cfg \in Config \cup {Blank} /\ inst[i].syncing \in BOOLEAN
  /\ current \in 0..Len(inst) /\ (current = 0 => watch = "off" /\ live = {})
  /\ live \subseteq Session /\ dests \subseteq Session \X (1..MaxDest)
  /\ pair \in [Session -> 0..MaxDest]

\* However reloads, bad files and file events interleave, only the serving
\* instance syncs, and for the second before a switch the one that is to
\* replace it: no retired Multiplexer goes on polling the nodes
\* (SetMultiplexer, StopSync).
OnlyServingSyncs ==
  \A i \in DOMAIN inst :
    inst[i].syncing => i = current \/ (i = Len(inst) /\ watch \in {"set", "assign"})

\* Fetchers and entrypoints ask the shared factory again at every call, and
\* a missing adaptor is a panic.  None is ever missing, also while a reload
\* that drops the chain rewrites the maps under the instance still serving it.
NoChainOrphaned ==
  /\ \A i \in DOMAIN inst : inst[i].syncing \/ i = current =>
       \A c \in inst[i].cfg.endpoints : BlockheadDelegator(factory, c) # Nil
  /\ \A c \in Entrypoint : entry[c] # Nil => c \in DOMAIN factory[entry[c]]

\* A client's session is relayed to at most one destination, the one wsPairs
\* has for it, whichever of the two connections is lost and made again.
OneDestPerSession ==
  \A s \in live : {d \in dests : d[1] = s} \subseteq {<<s, pair[s]>>}

Serves(cfg) == current # 0 /\ inst[current].cfg = cfg

\* When the file settles on a configuration, after whatever half-written or
\* bad contents, merged events and crashes, the process comes to serve it and
\* stays with it, if it stays up and the last change was not lost between the
\* load and the watch or to a replaced file (watchConfig).
SettledConfigIsServed ==
  \A cfg \in Config :
    <>[](file = cfg /\ noticed /\ current # 0) => <>[]Serves(cfg)
=============================================================================
