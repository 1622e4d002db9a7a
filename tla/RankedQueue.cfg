SPECIFICATION FairSpec
CONSTANTS
  Players = {p1, p2}
  Lease = 2
  MaxLag = 1
  MaxCommands = 4
CHECK_DEADLOCK FALSE
INVARIANTS
  OneMatchEach
  NotQueuedWhileOwned
PROPERTIES
  KeepsLobby
  SilentPlayersLeave
