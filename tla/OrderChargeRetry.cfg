SPECIFICATION Spec
CONSTANTS
  Orders = {o1}
  Variants = {v1}
  Handlers = {h1, h2}
  Jobs = {j1}
  Payments = {c1}
  Charges = {c1}
  NoOrder = NoOrder
  NoPayment = NoPayment
  NoHandler = NoHandler
  InitBalance = 1
  MaxDeliveries = 2
  Items <- MCItems
  Total <- MCTotal
  InitStock <- MCStock
INVARIANTS
  PaidChargeCredited
SYMMETRY MCSymmetry
CHECK_DEADLOCK FALSE
