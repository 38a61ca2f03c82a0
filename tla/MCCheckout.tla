----------------------------- MODULE MCCheckout -----------------------------
(***************************************************************************)
(* A small instance of Checkout: three requests, two of which share a key  *)
(* and two of which name the coupon, which may be used once; two carts of  *)
(* one unit of each variant; three units of one variant and two of the     *)
(* other, so that a third order is refused after its first line.           *)
(***************************************************************************)
EXTENDS Checkout

CONSTANTS r1, r2, r3, k1, v1

MCKeyOf == [r \in Requests |-> IF r = r3 THEN NoKey ELSE k1]

MCWithCoupon == {r1, r3}

MCUnits == [c \in Carts |-> [v \in Variants |-> 1]]

MCStock ==
  [v \in Variants |-> [quantity |-> IF v = v1 THEN 3 ELSE 2, reserved |-> 0]]
=============================================================================
