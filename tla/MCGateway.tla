------------------------------ MODULE MCGateway ------------------------------
(* A small instance of Gateway for TLC: a chain of its own with a web3     *)
(* adaptor and a websocket, the same chain as cosmos without, a            *)
(* configuration without it, and one that forgets to name its adaptor.     *)
EXTENDS Gateway

Cfg(chains, ws, name, own) ==
  [endpoints |-> chains, websocket |-> ws,
   extra |-> [n \in Namespace |-> IF n = name THEN own ELSE {}]]

MCConfig == {Cfg({"ethereum", "own"}, {"own"}, "web3", {"own"}),
             Cfg({"own"}, {}, "cosmos", {"own"}),
             Cfg({"ethereum"}, {"ethereum"}, "web3", {}),
             Cfg({"own"}, {}, "web3", {})}

MCChainOfSession == [s \in Session |-> "own"]
=============================================================================
