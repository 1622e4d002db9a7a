------------------------------- MODULE EventLog -------------------------------
(***************************************************************************)
(* What the event stream promises each recipient: a log that only grows at *)
(* its end, and a reading of it that only goes forward, passes over        *)
(* nothing and never runs ahead of what is written.                        *)
(***************************************************************************)
EXTENDS Naturals

CONSTANT Users  \* the recipients

VARIABLES
  log,  \* the numbers of the events in each recipient's log
  read  \* those he has read

\* The first n events of a log, for some n.
IsBeginning(S) == \E n \in S \cup {0} : S = 1 .. n

Init ==
  /\ log  = [u \in Users |-> {}]
  /\ read = [u \in Users |-> {}]

Publish ==
  /\ log' \in [Users -> SUBSET Nat]
  /\ \A u \in Users : log[u] \subseteq log'[u] /\ IsBeginning(log'[u])
  /\ UNCHANGED read

Follow(u) ==
  /\ \E S \in SUBSET log[u] :
       /\ read[u] \subseteq S /\ IsBeginning(S)
       /\ read' = [read EXCEPT ![u] = S]
  /\ UNCHANGED log

Next == Publish \/ \E u \in Users : Follow(u)

Spec == Init /\ [][Next]_<<log, read>>
=============================================================================
