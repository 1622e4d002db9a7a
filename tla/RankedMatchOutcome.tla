------------------------- MODULE RankedMatchOutcome -------------------------
(***************************************************************************)
(* The ranked match of RankedMatch keeps the promise of MatchOutcome.      *)
(***************************************************************************)
EXTENDS RankedMatch

\* The two rows of evidence of a player, as what he says of the game.
ClaimOf(p) == IF report[p] = NoReport THEN {} ELSE {report[p].outcome}
VoteOf(p)  == IF vote[p] = "none" THEN {}
              ELSE IF vote[p] = p THEN {"concedes"} ELSE {"accuses"}

ToldOf == [p \in Players |-> ClaimOf(p) \cup VoteOf(p)]

OutcomeOf == IF phase # "Terminal" THEN "open"
             ELSE IF result = "none" THEN "unrated" ELSE result

Outcome == INSTANCE MatchOutcome WITH
  outcome <- OutcomeOf,
  told    <- ToldOf,
  held    <- active,
  ratings <- mmrWrites

\* Whatever the barriers, the drains, the timers and the abandoned attempts of
\* the workflow do, a match is decided, rated and left by both its players in
\* one step, and rated only when the two agree (commands.rs:1083-1090,
\* matches.rs:594-677).
KeepsItsPromise == Outcome!Spec
=============================================================================
