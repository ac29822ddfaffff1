SPECIFICATION FairSpec
CONSTANTS
  Tasks = {t1}
  Workers = {w1}
  MaxAttempts = 2
  Files = {"SUCCESS", "EXPIRED"}
  ImportStatus <- MCImportStatus
  BadLines <- MCBadLines
  Ageing = {t1}
  NoOne = NoOne
PROPERTIES
  EveryTaskIsReported
  NoResultIsForgotten
