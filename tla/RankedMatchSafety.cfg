SPECIFICATION Spec
CONSTANTS
  PhaseTicks = 1
  Timeout <- MCTimeout
  MaxLag = 1
  ReportData = {d1, d2}
  MaxAttempt = 2
  MaxPending = 1
INVARIANTS
  OwnedWhileLive
  ConnectionsAreOfThisAttempt
  RatedLossIsConceded
  RatedAtMostOnce
  NoVerdictLeftUndecided
PROPERTIES
  DeadlineIsFenced
  ExpiresOnlyAfterDeadline

