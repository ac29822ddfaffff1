SPECIFICATION FairSpec
CONSTANTS
  a = a
  b = b
  Tenants = {a, b}
  Tasks <- MCTasks
  Workers = {w1, w2}
  NoOne = NoOne
INVARIANTS
  RowsLandOnce
  RowsFromOwnFile
  LatestLandedStands
PROPERTIES
  EveryVersionEnds
