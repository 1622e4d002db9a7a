CONSTANTS
  A = a
  B = b
  Strangers = {s, t}
  MaxStray = 2
  Online = {}
  Faults <- AllFaults
  MaxFaults = 2
SYMMETRY AlikeStrangers
SPECIFICATION Spec
INVARIANTS
  RatedAsPlayed
  EndedWhenDone
PROPERTIES
  RatedForGood
