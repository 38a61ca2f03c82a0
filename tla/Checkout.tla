------------------------------ MODULE Checkout ------------------------------
(***************************************************************************)
(* OrdersService.checkout                                                  *)
(* (apps/api/src/modules/orders/orders.service.ts), with the idempotency   *)
(* key it keeps in Redis, the coupon it validates and consumes             *)
(* (coupons/coupons.service.ts) and the cart it reads and closes           *)
(* (cart/cart.service.ts), for one customer and one coupon.                *)
(*                                                                         *)
(* The requests interleave at every await.  Up to the transaction they     *)
(* only read, each with a statement of its own; the transaction is one     *)
(* step, because what it writes it either inserts, increments in SQL or    *)
(* holds locked (module Inventory).  A request may die between any two     *)
(* steps, and the client then sends it again with the same key: that is    *)
(* another request here.                                                   *)
(***************************************************************************)
EXTENDS StockOps, FiniteSets, Functions

CONSTANTS
  Requests, Keys, Carts, Variants,
  KeyOf,          \* the Idempotency-Key header of a request, or NoKey
  WithCoupon,     \* the requests that name the coupon
  Units,          \* units of each variant in each cart
  InitStock,
  UsageLimit,     \* of the coupon; 0 means none
  PerUserLimit,
  NoKey, NoOrder, NoCart

ASSUME CheckoutAssumption ==
  /\ IsFiniteSet(Requests)
  /\ KeyOf \in [Requests -> Keys \cup {NoKey}]
  /\ WithCoupon \subseteq Requests
  /\ Units \in [Carts -> [Variants -> Nat]]
  /\ InitStock \in [Variants -> StockRow]
  /\ \A v \in Variants : SafeRow(InitStock[v])
  /\ UsageLimit \in Nat /\ PerUserLimit \in Nat
  /\ NoKey \notin Keys /\ NoOrder \notin Requests /\ NoCart \notin Carts

VARIABLES
  stock,
  keyOrder,    \* Redis: the order a key stands for
  openCart,    \* the customer's cart with status "open"
  fresh,       \* carts the customer has not used yet
  orders,      \* the committed orders, by the request that placed them
  usages,      \* rows of coupon_usages, by order
  usedCount,   \* coupons.used_count
  pc,          \* where a request is
  cartRead,    \* the cart it has found, and will close
  viewed,      \* the cart whose items it has read, and will order
  answer       \* the order it has answered with

dataVars == <<stock, openCart, fresh, orders, usages, usedCount>>
vars     == <<dataVars, keyOrder, pc, cartRead, viewed, answer>>

Init ==
  /\ stock = InitStock
  /\ keyOrder = [k \in Keys |-> NoOrder]
  /\ openCart = NoCart
  /\ fresh = Carts
  /\ orders = {}
  /\ usages = {}
  /\ usedCount = 0
  /\ pc = [r \in Requests |-> "new"]
  /\ cartRead = [r \in Requests |-> NoCart]
  /\ viewed = [r \in Requests |-> NoCart]
  /\ answer = [r \in Requests |-> NoOrder]

Goto(r, place) == pc' = [pc EXCEPT ![r] = place]

-----------------------------------------------------------------------------
\* getOrCreateCart: the customer without an open cart fills another one.
FillCart(c) ==
  /\ openCart = NoCart
  /\ c \in fresh
  /\ openCart' = c
  /\ fresh' = fresh \ {c}
  /\ UNCHANGED <<stock, keyOrder, orders, usages, usedCount, pc,
                 cartRead, viewed, answer>>

\* The key is known: the request is answered with the order it stands for.
AnswerFromKey(r) ==
  /\ pc[r] = "new"
  /\ KeyOf[r] # NoKey
  /\ keyOrder[KeyOf[r]] \in orders
  /\ answer' = [answer EXCEPT ![r] = keyOrder[KeyOf[r]]]
  /\ Goto(r, "done")
  /\ UNCHANGED <<dataVars, keyOrder, cartRead, viewed>>

\* There is no key, or it is not known, or it names no order.
KeyUnknown(r) ==
  /\ pc[r] = "new"
  /\ KeyOf[r] # NoKey => keyOrder[KeyOf[r]] \notin orders
  /\ Goto(r, "readCart")
  /\ UNCHANGED <<dataVars, keyOrder, cartRead, viewed, answer>>

\* getUserCartOrFail: the open cart is found, and then view finds it once more
\* to read its items.  Without an open cart view makes one, which is empty.
FindCart(r) ==
  /\ pc[r] = "readCart"
  /\ openCart # NoCart
  /\ cartRead' = [cartRead EXCEPT ![r] = openCart]
  /\ Goto(r, "viewCart")
  /\ UNCHANGED <<dataVars, keyOrder, viewed, answer>>

ViewCart(r) ==
  /\ pc[r] = "viewCart"
  /\ openCart # NoCart
  /\ viewed' = [viewed EXCEPT ![r] = openCart]
  /\ Goto(r, IF r \in WithCoupon THEN "readCoupon" ELSE "transaction")
  /\ UNCHANGED <<dataVars, keyOrder, cartRead, answer>>

\* Mutant of NoItems: the cart is not looked at.
NoItemsUnseen(r) ==
  /\ pc[r] \in {"readCart", "viewCart"}
  /\ openCart = NoCart
  /\ Goto(r, "transaction")
  /\ UNCHANGED <<dataVars, keyOrder, cartRead, viewed, answer>>

\* CART_EXPIRED
NoItems(r) ==
  /\ pc[r] \in {"readCart", "viewCart"}
  /\ openCart = NoCart
  /\ Goto(r, "failed")
  /\ UNCHANGED <<dataVars, keyOrder, cartRead, viewed, answer>>

\* validate: the coupon is read first, and the customer's usages after it.
BelowLimit == UsageLimit # 0 => usedCount < UsageLimit

BelowPerUser == Cardinality(usages) < PerUserLimit

ReadCoupon(r) ==
  /\ pc[r] = "readCoupon"
  /\ Goto(r, IF BelowLimit THEN "countUsages" ELSE "failed")
  /\ UNCHANGED <<dataVars, keyOrder, cartRead, viewed, answer>>

CountUsages(r) ==
  /\ pc[r] = "countUsages"
  /\ Goto(r, IF BelowPerUser THEN "transaction" ELSE "failed")
  /\ UNCHANGED <<dataVars, keyOrder, cartRead, viewed, answer>>

CanReserve(r) ==
  \A v \in Variants : Allowed("reserve", stock[v], Units[viewed[r]][v])

\* Mutant of Consume: the row without the counter.
ConsumeRowOnly(r) == usages' = usages \cup {r} /\ UNCHANGED usedCount

\* consume: the row and the increment, which SQL computes.
Consume(r) ==
  /\ usages' = usages \cup {r}
  /\ usedCount' = usedCount + 1

\* The transaction: the order, its reservation, the coupon and the cart, which
\* is closed by its id, whatever its status is.
PlaceOrder(r) ==
  /\ pc[r] = "transaction"
  /\ CanReserve(r)
  /\ orders' = orders \cup {r}
  /\ stock' = [v \in Variants |-> ReserveRow(stock[v], Units[viewed[r]][v])]
  /\ \/ r \in WithCoupon /\ Consume(r)
     \/ r \notin WithCoupon /\ UNCHANGED <<usages, usedCount>>
  /\ openCart' = IF openCart = cartRead[r] THEN NoCart ELSE openCart
  /\ Goto(r, IF KeyOf[r] # NoKey THEN "setKey" ELSE "answer")
  /\ UNCHANGED <<fresh, keyOrder, cartRead, viewed, answer>>

\* Mutant of OutOfStock: the failure is caught and the key set all the same.
OutOfStockCaught(r) ==
  /\ pc[r] = "transaction"
  /\ ~CanReserve(r)
  /\ Goto(r, IF KeyOf[r] # NoKey THEN "setKey" ELSE "failed")
  /\ UNCHANGED <<dataVars, keyOrder, cartRead, viewed, answer>>

\* Mutant of OutOfStock: reserve runs outside the order's transaction, which
\* does not roll the lines back that it reserved.
OutOfStockKeepsLines(r) ==
  /\ pc[r] = "transaction"
  /\ ~CanReserve(r)
  /\ stock' = [v \in Variants |->
                 IF Allowed("reserve", stock[v], Units[viewed[r]][v])
                 THEN ReserveRow(stock[v], Units[viewed[r]][v]) ELSE stock[v]]
  /\ Goto(r, "failed")
  /\ UNCHANGED <<openCart, fresh, orders, usages, usedCount, keyOrder,
                 cartRead, viewed, answer>>

\* reserve throws and the transaction is rolled back.
OutOfStock(r) ==
  /\ pc[r] = "transaction"
  /\ ~CanReserve(r)
  /\ Goto(r, "failed")
  /\ UNCHANGED <<dataVars, keyOrder, cartRead, viewed, answer>>

\* After the commit.
SetKey(r) ==
  /\ pc[r] = "setKey"
  /\ keyOrder' = [keyOrder EXCEPT ![KeyOf[r]] = r]
  /\ Goto(r, "answer")
  /\ UNCHANGED <<dataVars, cartRead, viewed, answer>>

Answer(r) ==
  /\ pc[r] = "answer"
  /\ answer' = [answer EXCEPT ![r] = r]
  /\ Goto(r, "done")
  /\ UNCHANGED <<dataVars, keyOrder, cartRead, viewed>>

\* The request is refused for its address, its products or its shipping method,
\* a statement fails, or the process is restarted.
Dies(r) ==
  /\ pc[r] \notin {"new", "done", "failed"}
  /\ Goto(r, "failed")
  /\ UNCHANGED <<dataVars, keyOrder, cartRead, viewed, answer>>

\* The key's day is over, Redis was restarted, or it went away and the
\* process now uses its own memory.
KeyForgotten(k) ==
  /\ keyOrder[k] # NoOrder
  /\ keyOrder' = [keyOrder EXCEPT ![k] = NoOrder]
  /\ UNCHANGED <<dataVars, pc, cartRead, viewed, answer>>

Next ==
  \/ \E c \in Carts : FillCart(c)
  \/ \E r \in Requests :
       \/ AnswerFromKey(r) \/ KeyUnknown(r)
       \/ FindCart(r) \/ ViewCart(r) \/ NoItems(r)
       \/ ReadCoupon(r) \/ CountUsages(r)
       \/ PlaceOrder(r) \/ OutOfStock(r)
       \/ SetKey(r) \/ Answer(r) \/ Dies(r)
  \/ \E k \in Keys : KeyForgotten(k)

Spec == Init /\ [][Next]_vars

-----------------------------------------------------------------------------
Places == {"new", "readCart", "viewCart", "readCoupon", "countUsages", "transaction",
           "setKey", "answer", "done", "failed"}

\* Type invariant; a request that orders knows the cart it orders and the one it
\* closes.
TypeOK ==
  /\ stock \in [Variants -> StockRow]
  /\ keyOrder \in [Keys -> Requests \cup {NoOrder}]
  /\ openCart \in Carts \cup {NoCart}
  /\ fresh \subseteq Carts
  /\ orders \subseteq Requests
  /\ usages \subseteq Requests
  /\ usedCount \in Nat
  /\ pc \in [Requests -> Places]
  /\ cartRead \in [Requests -> Carts \cup {NoCart}]
  /\ viewed \in [Requests -> Carts \cup {NoCart}]
  /\ answer \in [Requests -> Requests \cup {NoOrder}]
  /\ \A r \in Requests :
       pc[r] = "transaction" \/ r \in orders => viewed[r] # NoCart /\ cartRead[r] # NoCart

\* The counter the usage limit is checked against is the number of usages, for
\* all the requests that validated on the same value of it.
UsageCounted == usedCount = Cardinality(usages)

\* A request is answered with a committed order: its own or, for a retry, one
\* placed under its key.
AnsweredWithOrder ==
  \A r \in Requests :
    answer[r] # NoOrder =>
      /\ answer[r] \in orders
      /\ answer[r] = r \/ (KeyOf[r] # NoKey /\ KeyOf[answer[r]] = KeyOf[r])

\* What is reserved is what the committed orders hold: requests that are
\* refused, that die or that order the same cart twice leave nothing behind.
ReservedForOrders ==
  \A v \in Variants :
    stock[v].reserved
      = InitStock[v].reserved
        + SumFunctionOnSet([r \in orders |-> Units[viewed[r]][v]], orders)

\* Checkout is idempotent by its key (orders.service.ts:51, docs/01-architecture.md:110).
\* The key is set after the commit: a retry that overtakes it, or that follows a
\* crash, places a second order.
OneOrderPerKey ==
  \A r, s \in orders : KeyOf[r] # NoKey /\ KeyOf[r] = KeyOf[s] => r = s
=============================================================================
