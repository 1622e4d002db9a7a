SPECIFICATION FairSpec
CONSTANTS
  PhaseTicks = 1
  Timeout <- MCTimeout
  MaxLag = 0
  ReportData = {d1}
  MaxAttempt = 2
  MaxPending = 1
PROPERTIES
  MatchSettles
  KeepsItsPromise
