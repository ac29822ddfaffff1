SPECIFICATION FairSpec
CONSTANTS
  Biz = {b1}
  Scopes = {repay, fund}
  RepaymentScopes = {repay}
  Payloads = {x}
  Threads = {t1}
  Callbacks = {c1}
  Handlers = {h1}
  MaxNotices = 1
  Ageing = {b1}
  None = None
PROPERTIES
  EveryOrderSettlesOrAlerts
  WorkerConverges
CHECK_DEADLOCK FALSE
