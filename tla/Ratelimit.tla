------------------------------ MODULE Ratelimit ------------------------------
(***************************************************************************)
(* The rate limit of nodemux (ratelimit/ratelimit.go, server/ratelimit.go, *)
(* server/jsonrpcws_relayer.go): request goroutines, of any number of      *)
(* nodemux processes, that count their requests in one redis hash per      *)
(* hour.                                                                   *)
(*                                                                         *)
(* Incr sends up to three commands, HINCRBY, HSET and EXPIRE, and other    *)
(* goroutines run between them.  A command may fail without effect, or     *)
(* take effect and lose its reply: go-redis then sends it again.           *)
(***************************************************************************)
EXTENDS Integers, FiniteSetsExt

CONSTANTS
  Client,        \* request goroutines
  User,          \* account names
  Addr,          \* remote addresses, ip:port
  Kind,          \* how requests come: "http", "ws"
  ConfigUser,    \* RatelimitConfig.User
  ConfigIP,      \* RatelimitConfig.IP
  DefaultLimit,  \* the limit when the configuration gives none (3600)
  valueBase,     \* what the counter of a field starts from (1000)
  MaxWindow,     \* bound: the last window modelled
  MaxCalls,      \* bound: commands executed before no more requests come
  Nil            \* a key without expiry

Field == User \cup Addr
Window == 0..MaxWindow

ASSUME LimitAssumption ==
  /\ ConfigUser \in Int /\ ConfigIP \in Int
  /\ DefaultLimit \in Nat \ {0}
  /\ valueBase \in Nat \ {0}
  /\ MaxWindow \in Nat /\ MaxCalls \in Nat
ASSUME ClientAssumption == IsFiniteSet(Client) /\ Kind \subseteq {"http", "ws"}
ASSUME FieldAssumption == User \cap Addr = {} /\ Nil \notin Nat

VARIABLES
  now,      \* the current window: the hour
  hash,     \* the redis hashes, per window and field; 0 when absent
  expires,  \* when each hash expires, Nil for never
  pc,       \* where each client is in Incr
  key,      \* the window of the client's RedisKey
  field,    \* the field it counts
  limit,    \* the limit it was given
  calls,    \* history: HINCRBY commands redis executed
  opened,   \* history: HSET commands redis executed
  granted   \* history: requests let through

clientVars == <<pc, key, field, limit>>
vars == <<now, hash, expires, clientVars, calls, opened, granted>>

NoDefaultLimit == ConfigUser

UserLimit == IF ConfigUser <= 0 THEN DefaultLimit ELSE ConfigUser
IPLimit   == IF ConfigIP <= 0 THEN DefaultLimit ELSE ConfigIP

\* checkRatelimit: accounts by name, others by remote address; a websocket
\* message is held to twice the limit.
Limit(f, k) == (IF f \in User THEN UserLimit ELSE IPLimit)
               * (IF k = "ws" THEN 2 ELSE 1)

Init ==
  /\ now = 0
  /\ hash = [w \in Window |-> [f \in Field |-> 0]]
  /\ expires = [w \in Window |-> Nil]
  /\ pc = [c \in Client |-> "idle"]
  /\ key = [c \in Client |-> 0]
  /\ field \in [Client -> Field]
  /\ limit = [c \in Client |-> 1]
  /\ calls = [w \in Window |-> [f \in Field |-> 0]]
  /\ opened = [w \in Window |-> [f \in Field |-> 0]]
  /\ granted = [w \in Window |-> [f \in Field |-> 0]]

\* The commands executed so far, for the bound.
Executed == MapThenSumSet(LAMBDA wf : calls[wf[1]][wf[2]] + opened[wf[1]][wf[2]],
                          Window \X Field)

Goto(c, l) == pc' = [pc EXCEPT ![c] = l]
Grant(c) == granted' = [granted EXCEPT ![key[c]][field[c]] = @ + 1]

-----------------------------------------------------------------------------
\* A request comes in; its key is that of the current hour.
Request(c, f, k) ==
  /\ pc[c] = "idle"
  /\ Executed < MaxCalls
  /\ Goto(c, "incr")
  /\ key' = [key EXCEPT ![c] = now]
  /\ field' = [field EXCEPT ![c] = f]
  /\ limit' = [limit EXCEPT ![c] = Limit(f, k)]
  /\ UNCHANGED <<now, hash, expires, calls, opened, granted>>

\* Redis adds one to the client's field.
Count(c) ==
  /\ hash' = [hash EXCEPT ![key[c]][field[c]] = @ + 1]
  /\ calls' = [calls EXCEPT ![key[c]][field[c]] = @ + 1]

LimitIncluded(c) ==
  LET newValue == hash[key[c]][field[c]] + 1
  IN /\ pc[c] = "incr"
     /\ Count(c)
     /\ \/ /\ newValue > valueBase + limit[c]
           /\ Goto(c, "idle")
           /\ UNCHANGED granted
        \/ /\ newValue <= valueBase
           /\ Goto(c, "hset")
           /\ UNCHANGED granted
        \/ /\ newValue \in (valueBase + 1)..(valueBase + limit[c])
           /\ Goto(c, "idle")
           /\ Grant(c)
     /\ UNCHANGED <<now, expires, key, field, limit, opened>>

HIncrBy(c) ==
  LET newValue == hash[key[c]][field[c]] + 1
  IN /\ pc[c] = "incr"
     /\ Count(c)
     /\ \/ /\ newValue >= valueBase + limit[c]
           /\ Goto(c, "idle")
           /\ UNCHANGED granted
        \/ /\ newValue < valueBase + limit[c]
           /\ newValue <= valueBase
           /\ Goto(c, "hset")
           /\ UNCHANGED granted
        \/ /\ newValue < valueBase + limit[c]
           /\ newValue > valueBase
           /\ Goto(c, "idle")
           /\ Grant(c)
     /\ UNCHANGED <<now, expires, key, field, limit, opened>>

\* The reply is lost after the count; go-redis repeats the command.
HIncrByLost(c) ==
  /\ pc[c] = "incr"
  /\ Executed < MaxCalls
  /\ Count(c)
  /\ UNCHANGED <<now, expires, clientVars, opened, granted>>

\* Redis stores the base value: the field is open.
OpenPastBase(c) ==
  /\ hash' = [hash EXCEPT ![key[c]][field[c]] = valueBase + 1]
  /\ opened' = [opened EXCEPT ![key[c]][field[c]] = @ + 1]

Open(c) ==
  /\ hash' = [hash EXCEPT ![key[c]][field[c]] = valueBase]
  /\ opened' = [opened EXCEPT ![key[c]][field[c]] = @ + 1]

HSet(c) ==
  /\ pc[c] = "hset"
  /\ Open(c)
  /\ Goto(c, "expire")
  /\ UNCHANGED <<now, expires, key, field, limit, calls, granted>>

HSetLost(c) ==
  /\ pc[c] = "hset"
  /\ Executed < MaxCalls
  /\ Open(c)
  /\ UNCHANGED <<now, expires, clientVars, calls, granted>>

ExpireAfterSpan(c) ==
  /\ pc[c] = "expire"
  /\ expires' = [expires EXCEPT ![key[c]] = now + 1]
  /\ Goto(c, "idle")
  /\ Grant(c)
  /\ UNCHANGED <<now, hash, key, field, limit, calls, opened>>

\* The hash lives two spans from now; the request is let through.
Expire(c) ==
  /\ pc[c] = "expire"
  /\ expires' = [expires EXCEPT ![key[c]] = now + 2]
  /\ Goto(c, "idle")
  /\ Grant(c)
  /\ UNCHANGED <<now, hash, key, field, limit, calls, opened>>

\* A command fails for good, or the client goes away: Incr returns an error
\* and the request is refused.
Fail(c) ==
  /\ pc[c] # "idle"
  /\ Goto(c, "idle")
  /\ UNCHANGED <<now, hash, expires, key, field, limit, calls, opened, granted>>

\* An hour passes.  The commands of a request take seconds, so none of them
\* is still under way when the hour after its own ends.
Tick ==
  /\ now < MaxWindow
  /\ \A c \in Client : pc[c] # "idle" => key[c] = now
  /\ now' = now + 1
  /\ UNCHANGED <<hash, expires, clientVars, calls, opened, granted>>

\* Redis drops a hash whose time has come.
DropExpired(w) ==
  /\ expires[w] # Nil
  /\ expires[w] <= now
  /\ hash' = [hash EXCEPT ![w] = [f \in Field |-> 0]]
  /\ expires' = [expires EXCEPT ![w] = Nil]
  /\ UNCHANGED <<now, clientVars, calls, opened, granted>>

Incr(c) ==
  \/ \E f \in Field, k \in Kind : Request(c, f, k)
  \/ HIncrBy(c)
  \/ HIncrByLost(c)
  \/ HSet(c)
  \/ HSetLost(c)
  \/ Expire(c)
  \/ Fail(c)

Next ==
  \/ \E c \in Client : Incr(c)
  \/ Tick
  \/ \E w \in Window : DropExpired(w)

Spec == Init /\ [][Next]_vars

-----------------------------------------------------------------------------
(* Properties *)

\* Every variable keeps the type it stands for.
TypeOK ==
  /\ now \in Window
  /\ hash \in [Window -> [Field -> Nat]]
  /\ expires \in [Window -> Nat \cup {Nil}]
  /\ pc \in [Client -> {"idle", "incr", "hset", "expire"}]
  /\ key \in [Client -> Window]
  /\ field \in [Client -> Field]
  /\ limit \in [Client -> Nat \ {0}]
  /\ calls \in [Window -> [Field -> Nat]]
  /\ opened \in [Window -> [Field -> Nat]]
  /\ granted \in [Window -> [Field -> Nat]]

\* The usage ratelimit.Values reports for a field.
Used(w, f) == IF hash[w][f] >= valueBase THEN hash[w][f] - valueBase ELSE 0

TopLimit(f) == Limit(f, IF "ws" \in Kind THEN "ws" ELSE "http")

\* However the commands of concurrent requests interleave, fail or are
\* repeated, every HSET of a field gives away at most one limit, and one
\* more, less one request, is given away when failed requests have carried
\* the counter past valueBase before the first HSET.
GrantsPerOpening ==
  \A w \in Window, f \in Field :
    granted[w][f] < (opened[w][f] + 1) * TopLimit(f)

\* The counter never runs ahead of the requests: a request refused for the
\* limit really is beyond it, since at least that many were counted before.
RefusalIsEarned ==
  \A w \in Window, f \in Field : Used(w, f) <= calls[w][f]
                                 /\ (Used(w, f) > 0 => Used(w, f) < calls[w][f])

\* The hash of an hour does not expire while requests of that hour are
\* counted, even those whose commands reach redis in the next hour.
CounterOutlivesHour ==
  \A w \in Window :
    /\ expires[w] # Nil
    /\ w = now \/ \E c \in Client : pc[c] # "idle" /\ key[c] = w
    => expires[w] > now

\* RatelimitConfig: "requests per user per hour".
UserWithinLimit ==
  \A w \in Window, u \in User : granted[w][u] <= TopLimit(u)
=============================================================================
