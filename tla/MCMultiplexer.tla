---------------------------- MODULE MCMultiplexer ----------------------------
(* Small instances of Multiplexer for TLC.                                 *)
EXTENDS Multiplexer

CONSTANTS e1, e2, e3, x, eth, btc, call, trace

\* Three endpoints of one chain with weight 1, no weight and a negative one; the
\* second does not serve the method "trace".  One name belongs to another process.
MCChainOf      == [ep \in Endpoint |-> eth]
MCConfigWeight == [ep \in Endpoint |-> IF ep = e1 THEN 1 ELSE IF ep = e2 THEN 0 ELSE -1]
MCSkipMethods  == [ep \in Endpoint |-> IF ep = e2 THEN {trace} ELSE {}]

\* The same endpoints, the third one on a chain of its own.
MCTwoChains == [ep \in Endpoint |-> IF ep = e3 THEN btc ELSE eth]

RelayOver(m, s) == [kind |-> "relay", chain |-> eth, method |-> m, heightSpec |-> s]
OpenWs(s)       == [kind |-> "ws", chain |-> eth, method |-> call, heightSpec |-> s]

\* A height above the tip of a lagging node, the near-tip spec, "any" and
\* a websocket.
MCRequests == {RelayOver(call, 2), RelayOver(trace, -2), OpenWs(-2)}

MCFallback == {RelayOver(call, 2)}
=============================================================================
