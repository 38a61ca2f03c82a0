SPECIFICATION FairSpec
CONSTANTS
  Orders = {o1, o2}
  Variants = {v1}
  Handlers = {}
  Jobs = {j1, j2}
  Payments = {}
  Charges = {}
  NoOrder = NoOrder
  NoPayment = NoPayment
  NoHandler = NoHandler
  InitBalance = 0
  MaxDeliveries = 0
  Items <- MCItems
  Total <- MCTotal
  InitStock <- MCStock
INVARIANTS
  FulfilmentBacked
PROPERTIES
  OverdueLeavesPending
CHECK_DEADLOCK FALSE
