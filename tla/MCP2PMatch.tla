------------------------------ MODULE MCP2PMatch ------------------------------
(* Small instances of P2PMatch for TLC. *)
EXTENDS P2PMatch, TLC

AllFaults == FaultKinds

\* The strangers are alike: nothing chooses among them.
AlikeStrangers == Permutations(Strangers)
=============================================================================
