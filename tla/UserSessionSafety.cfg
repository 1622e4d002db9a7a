CONSTANTS
  Connections = {s1, s2}
  MaxHandlers = 2
  MaxRequests = 1
  MaxMatches = 0
SPECIFICATION Spec
INVARIANTS
  EndsItsOwnSession
  EntryIsAlive
  HonouredWhenUndisturbed
CHECK_DEADLOCK FALSE
