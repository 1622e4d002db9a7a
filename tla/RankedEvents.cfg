SPECIFICATION FairSpec
CONSTANTS
  Users = {1, 2}
  Clients = {1}
  Writers = {w1, w2}
  PageSize = 1
  MaxEvents = 2
INVARIANTS
  Gapless
  NothingSkipped
PROPERTIES
  KeepsLog
  EventsArrive
  TransactionsEnd
