SPECIFICATION Spec
CONSTANTS
  r1 = r1
  r2 = r2
  r3 = r3
  k1 = k1
  v1 = v1
  Requests = {r1, r2, r3}
  Keys = {k1}
  Carts = {c1, c2}
  Variants = {v1, v2}
  NoKey = NoKey
  NoOrder = NoOrder
  NoCart = NoCart
  UsageLimit = 1
  PerUserLimit = 1
  KeyOf <- MCKeyOf
  WithCoupon <- MCWithCoupon
  Units <- MCUnits
  InitStock <- MCStock
INVARIANTS
  OneOrderPerKey
CHECK_DEADLOCK FALSE
