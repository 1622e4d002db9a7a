---------------------------- MODULE MatchOutcome ----------------------------
(***************************************************************************)
(* What a ranked match promises its two players, whatever phases, commands *)
(* and timers it goes through.                                             *)
(*                                                                         *)
(* It holds both players while it is open, and in one step decides its     *)
(* outcome, writes the ratings that follow from it and lets both go.  It   *)
(* is rated only when the two have spoken and agree.  While nobody has     *)
(* spoken it may be called off; once somebody has, it ends in a result.    *)
(***************************************************************************)
EXTENDS Integers

CONSTANT Players

Claims == {"win", "loss", "draw"}
Votes  == {"concedes", "accuses"}

\* One statement of each kind is taken from a player.
Kind(s) == IF s \in Claims THEN Claims ELSE Votes

VARIABLES
  outcome,   \* "open", "unrated", a winner, "draw" or "disputed"
  told,      \* the statements of each player
  held,      \* is the player bound to the match
  ratings    \* how often ratings were written

vars == <<outcome, told, held, ratings>>

Init ==
  /\ outcome = "open"
  /\ told = [p \in Players |-> {}]
  /\ held = [p \in Players |-> TRUE]
  /\ ratings = 0

Close(o) ==
  /\ outcome' = o
  /\ held' = [p \in Players |-> FALSE]

Undecided == UNCHANGED <<outcome, held, ratings>>

Dispute ==
  /\ Close("disputed")
  /\ UNCHANGED ratings

\* The winner says that he won and the loser that he lost.
Won(w) ==
  /\ told'[w] \cap {"win", "accuses"} # {}
  /\ \A p \in Players \ {w} : told'[p] \cap {"loss", "concedes"} # {}
  /\ Close(w)
  /\ ratings' = ratings + 1

Drawn ==
  /\ \A p \in Players : "draw" \in told'[p]
  /\ Close("draw")
  /\ ratings' = ratings + 1

Testify(p, s) ==
  /\ outcome = "open"
  /\ told[p] \cap Kind(s) = {}
  /\ told' = [told EXCEPT ![p] = @ \cup {s}]
  /\ \/ Undecided
     \/ Dispute
     \/ \E w \in Players : Won(w)
     \/ Drawn

\* Time is up for the players to speak.
Lapse ==
  /\ outcome = "open"
  /\ Dispute
  /\ UNCHANGED told

\* A player declines, or one of the two does not come to the game.
CallOff ==
  /\ outcome = "open"
  /\ \A p \in Players : told[p] = {}
  /\ Close("unrated")
  /\ UNCHANGED <<told, ratings>>

Next ==
  \/ \E p \in Players, s \in Claims \cup Votes : Testify(p, s)
  \/ Lapse
  \/ CallOff

Spec == Init /\ [][Next]_vars
=============================================================================
