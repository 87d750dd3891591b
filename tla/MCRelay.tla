------------------------------- MODULE MCRelay -------------------------------
(* Small instances of Relay for TLC: two handlers that are asked for the   *)
(* same transaction, one asked for a block or a pipe, or one that sends a  *)
(* transaction while the other is asked for nonces.                        *)
EXTENDS Relay

CONSTANTS h1, h2

Asked(k1, k2) == [h \in Handler |-> IF h = h1 THEN k1 ELSE k2]

MCWorkload ==
  {Asked({"tx"}, {"tx"}), Asked({"block"}, {}), Asked({"rest"}, {}), Asked({"send"}, {"nonce"})}
=============================================================================
