---------------------------- MODULE EndpointStatus ----------------------------
(***************************************************************************)
(* What the endpoint table of nodemux promises, with every status update   *)
(* applied at once: the endpoints a weighted draw may choose are the       *)
(* healthy ones, and the tip of a chain is the highest head reported by    *)
(* any of its endpoints.  Multiplexer implements it step by step;          *)
(* ChainSync composes it with the pipeline that feeds it.                  *)
(***************************************************************************)
EXTENDS Integers

CONSTANTS Endpoint, Chain, ChainOf, Height, Nil

VARIABLES
  known,    \* endpoints added from the configuration
  up,       \* Endpoint.Healthy
  head,     \* Endpoint.Blockhead
  tip,      \* EndpointSet.maxTipHeight
  listed    \* the endpoints EndpointSet.weights lists

vars == <<known, up, head, tip, listed>>

Init ==
  /\ known = {}
  /\ up = [ep \in Endpoint |-> TRUE]
  /\ head = [ep \in Endpoint |-> Nil]
  /\ tip = [c \in Chain |-> 0]
  /\ listed = [c \in Chain |-> {}]

\* The highest of the heads hd on chain c, 0 when there is none.
Highest(c, hd) ==
  LET hs == {0} \cup ({hd[ep] : ep \in {e \in Endpoint : ChainOf[e] = c}} \ {Nil})
  IN CHOOSE m \in hs : \A h \in hs : h <= m

Join(ep) ==
  /\ ep \notin known
  /\ known' = known \cup {ep}
  /\ listed' = [listed EXCEPT ![ChainOf[ep]] = @ \cup {ep}]
  /\ UNCHANGED <<up, head, tip>>

\* updateStatus as a whole: health, table, head (if the status has one), tip.
Apply(ep, ok, h) ==
  /\ known = Endpoint
  /\ up' = [up EXCEPT ![ep] = ok]
  /\ head' = IF h = Nil THEN head ELSE [head EXCEPT ![ep] = h]
  /\ tip' = [tip EXCEPT ![ChainOf[ep]] = Highest(ChainOf[ep], head')]
  /\ listed' = [listed EXCEPT ![ChainOf[ep]] =
                  IF ok THEN @ \cup {ep} ELSE @ \ {ep}]
  /\ UNCHANGED known

Next ==
  \/ \E ep \in Endpoint : Join(ep)
  \/ \E ep \in Endpoint, ok \in BOOLEAN, h \in Height \cup {Nil} : Apply(ep, ok, h)

Spec == Init /\ [][Next]_vars
=============================================================================
