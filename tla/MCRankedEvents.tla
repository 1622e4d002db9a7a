--------------------------- MODULE MCRankedEvents ---------------------------
(* A small instance of RankedEvents for TLC. *)
EXTENDS RankedEvents
=============================================================================
