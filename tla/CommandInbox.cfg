CONSTANTS
  Keys = {k1, k2}
  accept = accept
  decline = decline
  queue = queue
  Payloads <- Commands
  Owner <- OwnerOf
  Owners <- TwoStreams
  Matches <- OneMatch
  Callers = {c1, c2}
  Ticker = ticker
  Workflows = {wf}
  MaxCalls = 2
SPECIFICATION FairSpec
INVARIANTS
  DuplicatesAreRecognised
  StreamsInOrder
PROPERTIES
  CommandsAreProcessed
  KeepsLedger
CHECK_DEADLOCK FALSE
