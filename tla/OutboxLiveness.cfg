SPECIFICATION FairSpec
CONSTANTS
  Rows = {r1}
  Dispatchers = {d1, d2}
  Stalling = {}
  Admins = {a1}
  MaxAttempts = 3
  NoOne = NoOne
INVARIANTS
  OneCaller
PROPERTIES
  EveryRowEnds
