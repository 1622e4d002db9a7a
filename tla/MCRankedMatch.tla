---------------------------- MODULE MCRankedMatch ----------------------------
(* Small instances of RankedMatch and RankedMatchOutcome for TLC: every phase *)
(* lasts MCTimeout ticks.                                                      *)
EXTENDS RankedMatchOutcome

CONSTANT PhaseTicks

MCTimeout == [ph \in LivePhases |-> PhaseTicks]
=============================================================================
