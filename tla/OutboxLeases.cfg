SPECIFICATION Spec
CONSTANTS
  Rows = {r1, r2}
  Dispatchers = {d1, d2}
  Stalling = {d1, d2}
  Admins = {a1}
  MaxAttempts = 2
  NoOne = NoOne
SYMMETRY Symmetry
INVARIANTS
  DeadIsEarned
PROPERTIES
  SentStays
  ImplementsDelivery
