SPECIFICATION Spec
CONSTANTS
  Orders = {o1}
  Variants = {v1}
  Handlers = {h1, h2}
  Jobs = {j1}
  Payments = {p1, p2}
  Charges = {}
  NoOrder = NoOrder
  NoPayment = NoPayment
  NoHandler = NoHandler
  InitBalance = 1
  MaxDeliveries = 1
  Items <- MCItems
  Total <- MCTotal
  InitStock <- MCStock
INVARIANTS
  CommitOnce
SYMMETRY MCSymmetry
CHECK_DEADLOCK FALSE
