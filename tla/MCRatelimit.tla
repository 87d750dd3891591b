----------------------------- MODULE MCRatelimit -----------------------------
(* Small instances of Ratelimit for TLC.  valueBase is 3 instead of 1000:  *)
(* above the number of requests that find a field unset, as 1000 is.       *)
EXTENDS Ratelimit, TLC

MCSymmetry == Permutations(Client)
=============================================================================
