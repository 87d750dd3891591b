----------------------------- MODULE MCStreamHub -----------------------------
(* Small instances of StreamHub for TLC.                                   *)
EXTENDS StreamHub
=============================================================================
