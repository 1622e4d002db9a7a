CONSTANTS
  PlayerA = p1
  PlayerB = p2
  Sockets = {s1}
  Callbacks = {c1, c2}
  MaxFaults = 2
SPECIFICATION FairSpec
INVARIANTS
  StartsWhenBothAccepted
  RatedOnce
PROPERTIES
  AcceptedMatchEnds
  FreedAfterEnd
CHECK_DEADLOCK FALSE
