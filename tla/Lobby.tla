-------------------------------- MODULE Lobby --------------------------------
(***************************************************************************)
(* What the ranked queue promises: a waiting room and tables for two.      *)
(* Players come and go as they like until they are seated; they are seated *)
(* only out of a place they have not lost, together, and rise together;    *)
(* only those whose place has lapsed are sent away, and no one who sits    *)
(* has a place kept.  A place that has just lapsed may still do; then it   *)
(* is lost.  There are no requests on their way, no locks and no stale     *)
(* reads here.                                                             *)
(***************************************************************************)
CONSTANT Players

VARIABLES
  place,  \* in the waiting room: "none", "kept", "lapsed" or "lost"
  table   \* the players at the table of each, himself included; {} if none

Free(p) == table[p] = {}
Good == {"kept", "lapsed"}

\* The players of S are now at the table of T.
Seat(S, T) == table' = [p \in Players |-> IF p \in S THEN T ELSE table[p]]

\* The players of S now have a place of this kind, one kind for all.
Give(S, kind) == place' = [p \in Players |-> IF p \in S THEN kind ELSE place[p]]

Init ==
  /\ place = [p \in Players |-> "none"]
  /\ table = [p \in Players |-> {}]

\* A player takes a place or renews the one he has.
Enter(p) ==
  /\ Free(p)
  /\ \E kind \in Good : Give({p}, kind)
  /\ UNCHANGED table

Leave(p) == Give({p}, "none") /\ UNCHANGED table

\* Time passes: a place only gets worse, and no one's appears or goes by it.
Age ==
  /\ \E later \in [Players -> {"none", "kept", "lapsed", "lost"}] :
       /\ place' = later
       /\ \A p \in Players :
            \/ later[p] = place[p]
            \/ place[p] \in Good /\ later[p] = "lost"
            \/ place[p] = "kept" /\ later[p] = "lapsed"
  /\ UNCHANGED table

\* All who have lost their place are sent away, and only who has let it lapse.
Sweep ==
  /\ \E S \in SUBSET Players :
       /\ \A p \in S : place[p] \in {"lapsed", "lost"}
       /\ \A p \in Players : place[p] = "lost" => p \in S
       /\ Give(S, "none")
  /\ UNCHANGED table

Pair(p, q) ==
  /\ p # q
  /\ \A r \in {p, q} : place[r] \in Good /\ Free(r)
  /\ Give({p, q}, "none")
  /\ Seat({p, q}, {p, q})

\* The players at the table of p rise, those of back to wait again.
Rise(p, back) ==
  /\ ~Free(p) /\ back \subseteq table[p]
  /\ \E kind \in Good : Give(back, kind)
  /\ Seat(table[p], {})

Next ==
  \/ \E p \in Players : Enter(p) \/ Leave(p)
  \/ Age
  \/ Sweep
  \/ \E p, q \in Players : Pair(p, q)
  \/ \E p \in Players : \E back \in SUBSET Players : Rise(p, back)

Spec == Init /\ [][Next]_<<place, table>>
=============================================================================
