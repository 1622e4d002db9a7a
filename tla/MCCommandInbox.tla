---------------------------- MODULE MCCommandInbox ----------------------------
(* Small instances of CommandInbox for TLC: a match's stream before a user's. *)
EXTENDS CommandInbox

CONSTANTS accept, decline, queue

Commands == {accept, decline, queue}
OwnerOf == [p \in Commands |-> IF p = queue THEN 2 ELSE 1]
TwoStreams == {1, 2}
OneMatch == {1}
==============================================================================
