---------------------------- MODULE MCRankedQueue ----------------------------
(* Small instances of RankedQueue for TLC.  The players are interchangeable. *)
EXTENDS RankedQueue, TLC

PlayerSymmetry == Permutations(Players)
=============================================================================
