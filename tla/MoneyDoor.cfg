SPECIFICATION Spec
CONSTANTS
  Step <- MCStep
  Capacity = 8
  Asks <- MCAsks
  Registrations <- MCRegistrations
  Patches <- MCPatches
  Scopes = {"collect", "distribute", "refund"}
  Requests = {r1, r2}
  Intents = {i1}
  Admins = {a1, a2}
  MaxWrites = 2
  Modes = {"off", "observe", "enforce"}
  None = None
SYMMETRY Symmetry
INVARIANTS
  DisabledMeansStopped
  RefusalsAreOnRecord
  ClaimsAreTrue
PROPERTIES
  RowChangesAreTold
CHECK_DEADLOCK FALSE
