CONSTANTS
  Connections = {s1}
  MaxHandlers = 2
  MaxRequests = 1
  MaxMatches = 1
SPECIFICATION FairSpec
PROPERTIES
  SessionsEnd
  GoneLeavesQueue
CHECK_DEADLOCK FALSE
