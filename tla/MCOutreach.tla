----------------------------- MODULE MCOutreach -----------------------------
(* Small instances of the outreach pipeline for TLC.  The symmetric sets   *)
(* are those no definition chooses from: the legacy rows pick a key, so    *)
(* their runs declare none.                                                *)
EXTENDS OutreachContract, OutreachLegacy, TLC

KeysAlike      == Permutations(Keys)
KeysAndWorkers == Permutations(Keys) \cup Permutations(DelWorkers)
=============================================================================
