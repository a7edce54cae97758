--------------------------- MODULE MCEarlyBidSync ---------------------------
(* Small instances of the daily synchronization for TLC.                   *)
EXTENDS EarlyBidSync, TLC

WorkersAlike == Permutations(Workers)
=============================================================================
