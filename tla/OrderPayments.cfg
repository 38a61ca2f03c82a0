SPECIFICATION OrdersSpec
CONSTANTS
  Orders = {o1, o2}
  Variants = {v1}
  Handlers = {h1, h2}
  Jobs = {j1}
  Payments = {p1, p2, c1}
  Charges = {c1}
  NoOrder = NoOrder
  NoPayment = NoPayment
  NoHandler = NoHandler
  InitBalance = 1
  MaxDeliveries = 2
  Items <- MCItems
  Total <- MCTotal
  InitStock <- MCScarce
INVARIANTS
  TypeOK
  NoLeakedReservation
  PaidPaymentSettlesOrder
  FulfilmentBacked
  PaidMeansMoney
  WalletConserved
SYMMETRY MCSymmetry
CHECK_DEADLOCK FALSE
