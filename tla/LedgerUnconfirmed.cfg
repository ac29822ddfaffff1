SPECIFICATION Spec
CONSTANTS
  Biz = {b1}
  Scopes = {repay}
  RepaymentScopes = {repay}
  Payloads = {x}
  Threads = {t1}
  Callbacks = {}
  Handlers = {}
  MaxNotices = 0
  Ageing = {}
  None = None
INVARIANTS
  RepaymentFailureConfirmed
CHECK_DEADLOCK FALSE
