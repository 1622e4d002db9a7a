SPECIFICATION Spec
CONSTANTS
  PhaseTicks = 1
  Timeout <- MCTimeout
  MaxLag = 0
  ReportData = {}
  MaxAttempt = 2
  MaxPending = 1
PROPERTIES
  AdmittedBeforeDeadlineWins
