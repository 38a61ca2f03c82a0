SPECIFICATION Spec
CONSTANTS
  Orders = {o1}
  Admins = {a1}
  NoOrder = NoOrder
  NoTx = NoTx
PROPERTY
  RefundReachesWallet
