SPECIFICATION Spec
CONSTANTS
  Variants = {v1, v2}
  Warehouses = {w1}
  Txs = {t1, t2, t3}
  NoTx = NoTx
  NoCall = NoCall
  NoVariant = NoVariant
  Rows <- MCRows
  Calls <- MCCalls
  InitStock <- MCStock
INVARIANTS
  TypeOK
  NoOversell
  StockTotalExact
  AuditEndsAtStock
PROPERTIES
  ImplementsLedger
CHECK_DEADLOCK FALSE
SYMMETRY MCSymmetry
