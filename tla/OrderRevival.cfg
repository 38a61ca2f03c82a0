SPECIFICATION FairSpec
CONSTANTS
  Orders = {o1}
  Variants = {v1}
  Handlers = {h1}
  Jobs = {j1}
  Payments = {p1}
  Charges = {}
  NoOrder = NoOrder
  NoPayment = NoPayment
  NoHandler = NoHandler
  InitBalance = 1
  MaxDeliveries = 1
  Items <- MCItems
  Total <- MCTotal
  InitStock <- MCStock
PROPERTIES
  StatusFollowsMachine
CHECK_DEADLOCK FALSE
