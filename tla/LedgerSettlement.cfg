SPECIFICATION Spec
CONSTANTS
  Biz = {b1, b2}
  Scopes = {repay, fund}
  RepaymentScopes = {repay}
  Payloads = {x}
  Threads = {t1}
  Callbacks = {c1}
  Handlers = {h1}
  MaxNotices = 2
  Ageing = {}
  None = None
SYMMETRY Symmetry
INVARIANTS
  SettledOnce
  LedgerMatchesBank
  InboxProcessedMeansSettled
PROPERTIES
  NoRegress
  ImplementsContract
CHECK_DEADLOCK FALSE
