CONSTANTS
  Users = {u1, u2}
  Uids = {d1}
  Requests = {r1, r2}
  Sessions = {s1, s2}
  Logins = {l1, l2}
  Handoffs = {h1}
  Proofs = {p1, p2}
  Intents = {i1, i2}
  MaxLogouts = 1
SPECIFICATION Spec
SYMMETRY Symmetry
INVARIANTS
  OneOwner
  ProofSpentOnce
  LoggedOutForGood
PROPERTIES
  CommittedMeansLinked
CHECK_DEADLOCK FALSE
