----------------------------- MODULE MCChainSync -----------------------------
(* Small instances of ChainSync for TLC: two endpoints of one chain.       *)
EXTENDS ChainSync

CONSTANTS e1, e2, eth

MCOneChain == [ep \in Endpoint |-> eth]

MCPolled == {Handshake}
MCAllKinds == {Web3, Bitcoin, Handshake}
=============================================================================
