---------------------------- MODULE MCUserSession ----------------------------
(* Small instances of UserSession for TLC. *)
EXTENDS UserSession
==============================================================================
