SPECIFICATION ProgressSpec
CONSTANTS
  Jobs = {j1, j2, j3}
  Emails = {j3}
  MaxAttempts = 3
  MaxConcurrency = 1
  MaxStarts = 2
  Visitors = {v1, v2}
  HourLimit = 2
  LoginLimit = 2
  Window <- MCWindow
  Variants = {v1, v2}
  Warehouses = {w1}
  Txs = {t1, t2}
  NoTx = NoTx
  NoCall = NoCall
  NoVariant = NoVariant
  Rows <- MCRows
  Calls <- MCCalls
  InitStock <- MCStock
INVARIANTS
  ProgressTypeOK
  EachJobInOnePlace
  ExecutionsBounded
PROPERTIES
  JobsEnd
  LimitLifts
  RowsAreFreed
CHECK_DEADLOCK FALSE
