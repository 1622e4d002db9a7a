CONSTANTS
  A = a
  B = b
  Strangers = {s}
  MaxStray = 1
  Online = {a}
  Faults = {}
  MaxFaults = 0
SPECIFICATION FairSpec
PROPERTIES
  EndsWithoutFaults
  FreedAfterRating
