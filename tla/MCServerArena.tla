---------------------------- MODULE MCServerArena ----------------------------
(* Small instances of ServerArena for TLC. *)
EXTENDS ServerArena
==============================================================================
