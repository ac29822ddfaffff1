SPECIFICATION Spec
CONSTANTS
  Tasks = {t1}
  Workers = {w1, w2}
  MaxAttempts = 2
  Files = {"REJECTED", "DRIFTED"}
  ImportStatus <- MCImportStatus
  BadLines <- MCBadLines
  Ageing = {}
  NoOne = NoOne
SYMMETRY Symmetry
INVARIANTS
  DeliveredMeansTaken
  FailedIsEarned
  NothingSwallowed
  ReportIsTrue
  OneDeliverer
PROPERTIES
  ResultClaimIsKept
  EndedStays
