SPECIFICATION Spec
CONSTANTS
  Biz = {b1}
  Scopes = {repay, fund}
  RepaymentScopes = {repay}
  Payloads = {x, y}
  Threads = {t1, t2, t3}
  Callbacks = {}
  Handlers = {}
  MaxNotices = 0
  Ageing = {}
  None = None
SYMMETRY Symmetry
INVARIANTS
  OneDispatch
  NotAppliedIsTrue
  ReplyOnlyToSamePayload
PROPERTIES
  FirstResponseFrozen
CHECK_DEADLOCK FALSE
