------------------------------ MODULE Adaptors ------------------------------
(***************************************************************************)
(* The chain adaptors (chains/): what each one makes of a node's answer    *)
(* to GetBlockhead, how near the tip it wants the endpoint of a relayed    *)
(* request, and how the delegator factory (core/delegator_factory.go)      *)
(* finds the adaptor of a chain.                                           *)
(*                                                                         *)
(* An adaptor is a record:                                                 *)
(*   name     Namespace(), the key of extra_chains in the configuration    *)
(*   api      the protocol it is registered for: "rpc", "rest", "graphql"  *)
(*   number   how the height comes: "int", decoded with the answer;        *)
(*            "text", converted by a method that panics; "checked",        *)
(*            converted by code that returns the error; "list", the first  *)
(*            element of a list                                            *)
(*   over     height spec of a relayed request                             *)
(*   chains   the chains it is registered for                              *)
(***************************************************************************)
EXTENDS Integers, Sequences, FiniteSetsExt

CONSTANTS
  Nil,       \* no block, or no adaptor
  Down,      \* GetBlockhead returns an error
  Empty,     \* an answer without a block: null, an object without the fields
  Garbled,   \* an answer whose height is not a number
  Panic      \* GetBlockhead panics

RPC(name, number, over, chains) ==
  [name |-> name, api |-> "rpc", number |-> number, over |-> over, chains |-> chains]

REST(name, number, over, chains) ==
  [RPC(name, number, over, chains) EXCEPT !.api = "rest"]

GraphQL(name, number, over, chains) ==
  [RPC(name, number, over, chains) EXCEPT !.api = "graphql"]

Web3 == RPC("web3", "text", -2,
  {"ethereum", "binance-chain", "polygon", "okex-token", "huobi-token",
   "ethereum-classic", "cardano-kevm", "fantom-web3", "base", "avax", "arb",
   "optimism", "x-layer"})
Bitcoin == RPC("bitcoin", "int", -1,
  {"bitcoin", "litecoin", "dogecoin", "bitcoin-cash", "omnicore", "dashcoin", "zcash"})
Monero    == RPC("monero", "int", -3, {"monero"})
Filecoin  == RPC("filecoin", "int", -3, {"filecoin"})
Handshake == RPC("handshake", "list", -2, {"handshake"})
Casper    == RPC("casper", "int", -3, {"casper"})
Solana    == RPC("solana", "int", -60, {"solana"})
Starcoin  == RPC("starcoin", "checked", -3, {"starcoin"})
Conflux   == RPC("conflux", "int", -5, {"conflux"})
Polkadot  == RPC("polkadot", "text", -2, {"polkadot", "kusama"})
Near      == RPC("near", "int", -3, {"near"})
Sui       == RPC("sui", "checked", -3, {"sui", "benfen"})
EOSRPC    == RPC("eosio-rpc", "int", -300, {"eosio-rpc", "enu"})
Ripple    == REST("ripple", "int", -10, {"ripple"})
Tron      == REST("tron", "int", -30, {"tron-full", "tron-grid"})
EOSAPI    == REST("eosio", "int", -200, {"eosio", "enu"})
Cosmos    == REST("cosmos", "text", -2, {"cosmos", "luna"})
Algorand  == REST("algorand", "int", -5, {"algorand"})
Kadena    == REST("kadena", "int", -30, {"kadena"})
Substrate == REST("substrate", "text", -2, {"substrate"})
Aptos     == REST("aptos", "text", -2, {"aptos"})
Fantom    == GraphQL("fantom", "text", -10, {"fantom"})
Cardano   == GraphQL("cardano", "list", -10, {"cardano"})
Mina      == GraphQL("mina", "list", -10, {"mina"})

\* In the order of InstallAdaptors.
Adaptors ==
  <<Web3, Bitcoin, Monero, Filecoin, Handshake, Casper, Solana, Starcoin, Conflux,
    Polkadot, Near, Sui, EOSRPC, Ripple, Tron, EOSAPI, Cosmos, Algorand, Kadena,
    Substrate, Aptos, Fantom, Cardano, Mina>>

Namespace == {Adaptors[i].name : i \in DOMAIN Adaptors}

\* Requests go near the tip unless a client names a height, and of the
\* adaptors of one protocol no two claim a chain: the order of installation
\* matters for extra_chains alone.
ASSUME NearTheTip == \A i \in DOMAIN Adaptors : Adaptors[i].over < 0
ASSUME OneAdaptorPerChain ==
  \A i, j \in DOMAIN Adaptors :
    i # j /\ Adaptors[i].api = Adaptors[j].api => Adaptors[i].chains \cap Adaptors[j].chains = {}

\* What GetBlockhead makes of a node's answer: a height, Nil, Down or Panic.
BlockOf(a, answer) ==
  CASE answer = Empty ->
         [int |-> 0, list |-> Nil, checked |-> Down, text |-> Panic][a.number]
    [] answer = Garbled -> IF a.number = "text" THEN Panic ELSE Down
    [] OTHER -> answer

-----------------------------------------------------------------------------
(* DelegatorFactory: for each protocol a map from chains to adaptors.      *)

Api == {"rpc", "rest", "graphql"}
NoDelegators == [api \in Api |-> [c \in {} |-> Nil]]

\* The chains an adaptor is registered for, with the extra_chains of the
\* configuration (a function from namespaces to sets of chains).
RegisteredChains(a, extra) == a.chains \cup extra[a.name]

\* InstallAdaptors: entries are added or overwritten, none is removed.
Install(factory, extra) ==
  [api \in Api |->
     LET of(c) == {i \in DOMAIN Adaptors : Adaptors[i].api = api
                                           /\ c \in RegisteredChains(Adaptors[i], extra)}
         new == UNION {RegisteredChains(Adaptors[i], extra) :
                         i \in {j \in DOMAIN Adaptors : Adaptors[j].api = api}}
     IN [c \in new \cup DOMAIN factory[api] |->
           IF c \in new THEN Adaptors[Max(of(c))].name ELSE factory[api][c]]]

SupportChain(factory, c) == \E api \in Api : c \in DOMAIN factory[api]

\* GetBlockheadDelegator: rpc before rest before graphql.
BlockheadDelegator(factory, c) ==
  IF c \in DOMAIN factory["rpc"] THEN factory["rpc"][c]
  ELSE IF c \in DOMAIN factory["rest"] THEN factory["rest"][c]
  ELSE IF c \in DOMAIN factory["graphql"] THEN factory["graphql"][c]
  ELSE Nil
=============================================================================
