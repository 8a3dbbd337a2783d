----------------------------- MODULE MCPairCycle -----------------------------
(* Small instances of PairCycle for TLC.                                     *)
EXTENDS PairCycle
=============================================================================
