--------------------------- MODULE CheckoutProofs ---------------------------
(***************************************************************************)
(* Proofs about module Checkout, for every set of requests, keys and carts *)
(* and every coupon: the counter of the coupon, what the requests are      *)
(* answered with, and what is reserved.  Below them the proofs about       *)
(* Pricing, what an order costs, and about Carts, what the carts of a      *)
(* visitor hold.                                                           *)
(***************************************************************************)
EXTENDS Checkout, Pricing, Carts, StockProofs, FiniteSetTheorems

-----------------------------------------------------------------------------
(* The inductive invariant.  A request consumes the coupon at most once,   *)
(* because only a request that has not ordered can order; so each usage is *)
(* a new element of usages when it is counted.  A key is set, and a        *)
(* request answers with its own order, after the order has committed.      *)

Undecided == {"new", "readCart", "viewCart", "readCoupon", "countUsages", "transaction"}

HasCart == {"viewCart", "readCoupon", "countUsages", "transaction"}

HasItems == {"readCoupon", "countUsages", "transaction"}

RequestInv ==
  \A r \in Requests :
    /\ pc[r] \in Undecided => r \notin orders
    /\ pc[r] \in {"setKey", "answer"} => r \in orders
    /\ pc[r] = "setKey" => KeyOf[r] # NoKey
    /\ pc[r] \in HasCart => cartRead[r] # NoCart
    /\ pc[r] \in HasItems => viewed[r] # NoCart

UsageInv == usages \subseteq orders /\ UsageCounted

KeyInv ==
  \A k \in Keys :
    keyOrder[k] # NoOrder => keyOrder[k] \in orders /\ KeyOf[keyOrder[k]] = k

IInv == TypeOK /\ RequestInv /\ UsageInv /\ KeyInv /\ AnsweredWithOrder

USE DEF Places, Undecided, HasCart, HasItems

\* The inductive invariant holds at first.
LEMMA InitIInv == Init => IInv
<1> SUFFICES ASSUME Init PROVE IInv
  OBVIOUS
<1>1. TypeOK
  BY CheckoutAssumption DEF Init, TypeOK
<1>2. UsageInv
  BY FS_EmptySet DEF Init, UsageInv, UsageCounted
<1>3. RequestInv /\ KeyInv /\ AnsweredWithOrder
  BY CheckoutAssumption DEF Init, RequestInv, KeyInv, AnsweredWithOrder
<1>4. QED
  BY <1>1, <1>2, <1>3 DEF IInv

\* Filling a cart preserves the inductive invariant.
LEMMA FillCartIInv ==
  ASSUME IInv, NEW c \in Carts, FillCart(c)
  PROVE  IInv'
<1>1. TypeOK'
  BY DEF IInv, FillCart, TypeOK
<1>2. QED
  BY <1>1 DEF IInv, FillCart, RequestInv, UsageInv, UsageCounted, KeyInv, AnsweredWithOrder

\* The steps before the transaction, and those that end a request early,
\* preserve the inductive invariant.
LEMMA ReadIInv ==
  ASSUME IInv, NEW r \in Requests,
         \/ KeyUnknown(r) \/ FindCart(r) \/ ViewCart(r) \/ NoItems(r)
         \/ ReadCoupon(r) \/ CountUsages(r) \/ OutOfStock(r) \/ Dies(r)
  PROVE  IInv'
<1>1. UNCHANGED <<stock, keyOrder, fresh, orders, usages, usedCount, answer, openCart>>
  BY DEF KeyUnknown, FindCart, ViewCart, NoItems, ReadCoupon, CountUsages, OutOfStock,
         Dies, dataVars
<1>2. TypeOK' /\ RequestInv'
  <2>1. CASE KeyUnknown(r)
    BY <1>1, <2>1 DEF IInv, TypeOK, RequestInv, KeyUnknown, Goto, dataVars
  <2>2. CASE FindCart(r)
    BY <1>1, <2>2 DEF IInv, TypeOK, RequestInv, FindCart, Goto, dataVars
  <2>3. CASE ViewCart(r)
    BY <1>1, <2>3 DEF IInv, TypeOK, RequestInv, ViewCart, Goto, dataVars
  <2>4. CASE NoItems(r)
    BY <1>1, <2>4 DEF IInv, TypeOK, RequestInv, NoItems, Goto, dataVars
  <2>5. CASE ReadCoupon(r)
    BY <1>1, <2>5 DEF IInv, TypeOK, RequestInv, ReadCoupon, Goto, dataVars
  <2>6. CASE CountUsages(r)
    BY <1>1, <2>6 DEF IInv, TypeOK, RequestInv, CountUsages, Goto, dataVars
  <2>7. CASE OutOfStock(r)
    BY <1>1, <2>7 DEF IInv, TypeOK, RequestInv, OutOfStock, Goto, dataVars
  <2>8. CASE Dies(r)
    BY <1>1, <2>8 DEF IInv, TypeOK, RequestInv, Dies, Goto, dataVars
  <2>9. QED
    BY <2>1, <2>2, <2>3, <2>4, <2>5, <2>6, <2>7, <2>8
<1>3. UsageInv' /\ KeyInv' /\ AnsweredWithOrder'
  BY <1>1 DEF IInv, UsageInv, UsageCounted, KeyInv, AnsweredWithOrder
<1>4. QED
  BY <1>2, <1>3 DEF IInv

\* The transaction of an order preserves the inductive invariant.
LEMMA PlaceOrderIInv ==
  ASSUME IInv, NEW r \in Requests, PlaceOrder(r)
  PROVE  IInv'
<1>1. /\ pc[r] = "transaction"
      /\ r \notin orders
      /\ viewed[r] \in Carts
      /\ cartRead[r] \in Carts
  BY DEF IInv, TypeOK, RequestInv, PlaceOrder
<1>2. stock' \in [Variants -> StockRow]
  <2>1. ASSUME NEW v \in Variants
        PROVE  ReserveRow(stock[v], Units[viewed[r]][v]) \in StockRow
    BY <1>1, CheckoutAssumption, OrderRows DEF IInv, TypeOK
  <2>2. QED
    BY <2>1 DEF PlaceOrder
<1>3. usages' \subseteq orders'
  BY DEF IInv, UsageInv, PlaceOrder, Consume
<1>4. usedCount' = Cardinality(usages') /\ usedCount' \in Nat
  <2>1. IsFiniteSet(usages)
    BY FS_Subset, CheckoutAssumption DEF IInv, TypeOK
  <2>2. CASE r \in WithCoupon /\ Consume(r)
    <3>1. r \notin usages
      BY <1>1 DEF IInv, UsageInv
    <3>2. Cardinality(usages \cup {r}) = Cardinality(usages) + 1
      BY <2>1, <3>1, FS_AddElement
    <3>3. usedCount = Cardinality(usages) /\ usedCount \in Nat
      BY DEF IInv, TypeOK, UsageInv, UsageCounted
    <3>4. usages' = usages \cup {r} /\ usedCount' = usedCount + 1
      BY <2>2 DEF Consume
    <3>5. QED
      BY <3>2, <3>3, <3>4
  <2>3. CASE r \notin WithCoupon /\ UNCHANGED <<usages, usedCount>>
    BY <2>3 DEF IInv, TypeOK, UsageInv, UsageCounted
  <2>4. QED
    BY <2>2, <2>3 DEF PlaceOrder
<1>5. TypeOK'
  <2>1. openCart' \in Carts \cup {NoCart}
    BY DEF IInv, TypeOK, PlaceOrder
  <2>2. usages' \subseteq Requests
    BY DEF IInv, TypeOK, PlaceOrder, Consume
  <2>3. pc' \in [Requests -> Places]
    BY DEF IInv, TypeOK, PlaceOrder, Goto
  <2>4. \A q \in Requests :
          pc'[q] = "transaction" \/ q \in orders' => viewed'[q] # NoCart /\ cartRead'[q] # NoCart
    BY <1>1, CheckoutAssumption DEF IInv, TypeOK, PlaceOrder, Goto
  <2>5. QED
    BY <1>2, <1>4, <2>1, <2>2, <2>3, <2>4 DEF IInv, TypeOK, PlaceOrder
<1>6. RequestInv'
  BY <1>1 DEF IInv, TypeOK, RequestInv, PlaceOrder, Goto
<1>7. KeyInv' /\ AnsweredWithOrder'
  BY DEF IInv, KeyInv, AnsweredWithOrder, PlaceOrder
<1>8. QED
  BY <1>3, <1>4, <1>5, <1>6, <1>7 DEF IInv, UsageInv, UsageCounted

\* Setting the key preserves the inductive invariant.
LEMMA SetKeyIInv ==
  ASSUME IInv, NEW r \in Requests, SetKey(r)
  PROVE  IInv'
<1>1. r \in orders /\ KeyOf[r] \in Keys
  BY CheckoutAssumption DEF IInv, RequestInv, SetKey
<1>2. TypeOK'
  BY <1>1 DEF IInv, TypeOK, SetKey, Goto, dataVars
<1>3. RequestInv'
  BY <1>1 DEF IInv, TypeOK, RequestInv, SetKey, Goto, dataVars
<1>4. KeyInv'
  BY <1>1 DEF IInv, TypeOK, KeyInv, SetKey, dataVars
<1>5. QED
  BY <1>2, <1>3, <1>4 DEF IInv, UsageInv, UsageCounted, AnsweredWithOrder, SetKey, dataVars

\* Answering, with an order of one's own or an earlier one, preserves the
\* inductive invariant.
LEMMA AnswerIInv ==
  ASSUME IInv, NEW r \in Requests, Answer(r) \/ AnswerFromKey(r)
  PROVE  IInv'
<1>1. PICK o \in orders :
        /\ answer' = [answer EXCEPT ![r] = o]
        /\ o = r \/ (KeyOf[r] # NoKey /\ KeyOf[o] = KeyOf[r])
  <2>1. CASE Answer(r)
    BY <2>1 DEF IInv, RequestInv, Answer
  <2>2. CASE AnswerFromKey(r)
    <3>1. KeyOf[r] \in Keys /\ keyOrder[KeyOf[r]] \in orders /\ NoOrder \notin Requests
      BY <2>2, CheckoutAssumption DEF AnswerFromKey
    <3>2. KeyOf[keyOrder[KeyOf[r]]] = KeyOf[r]
      BY <3>1 DEF IInv, TypeOK, KeyInv
    <3>3. QED
      BY <2>2, <3>1, <3>2 DEF AnswerFromKey
  <2>3. QED
    BY <2>1, <2>2
<1>2. /\ pc' = [pc EXCEPT ![r] = "done"]
      /\ UNCHANGED <<stock, openCart, fresh, orders, usages, usedCount, keyOrder,
                     cartRead, viewed>>
  BY DEF Answer, AnswerFromKey, Goto, dataVars
<1>3. TypeOK' /\ RequestInv'
  BY <1>1, <1>2 DEF IInv, TypeOK, RequestInv
<1>4. AnsweredWithOrder'
  BY <1>1, <1>2 DEF IInv, TypeOK, AnsweredWithOrder
<1>5. QED
  BY <1>2, <1>3, <1>4 DEF IInv, UsageInv, UsageCounted, KeyInv

\* Losing a key preserves the inductive invariant.
LEMMA KeyForgottenIInv ==
  ASSUME IInv, NEW k \in Keys, KeyForgotten(k)
  PROVE  IInv'
<1>1. TypeOK'
  BY DEF IInv, TypeOK, KeyForgotten, dataVars
<1>2. KeyInv'
  BY DEF IInv, TypeOK, KeyInv, KeyForgotten, dataVars
<1>3. QED
  BY <1>1, <1>2
  DEF IInv, RequestInv, UsageInv, UsageCounted, AnsweredWithOrder, KeyForgotten, dataVars

\* Every step preserves the inductive invariant.
LEMMA NextIInv == IInv /\ [Next]_vars => IInv'
<1> SUFFICES ASSUME IInv, [Next]_vars PROVE IInv'
  OBVIOUS
<1>1. CASE UNCHANGED vars
  BY <1>1 DEF IInv, TypeOK, RequestInv, UsageInv, UsageCounted, KeyInv,
              AnsweredWithOrder, vars, dataVars
<1>2. ASSUME NEW c \in Carts, FillCart(c) PROVE IInv'
  BY <1>2, FillCartIInv
<1>3. ASSUME NEW k \in Keys, KeyForgotten(k) PROVE IInv'
  BY <1>3, KeyForgottenIInv
<1>4. ASSUME NEW r \in Requests,
             \/ KeyUnknown(r) \/ FindCart(r) \/ ViewCart(r) \/ NoItems(r)
             \/ ReadCoupon(r) \/ CountUsages(r) \/ OutOfStock(r) \/ Dies(r)
      PROVE  IInv'
  BY <1>4, ReadIInv
<1>5. ASSUME NEW r \in Requests, PlaceOrder(r) PROVE IInv'
  BY <1>5, PlaceOrderIInv
<1>6. ASSUME NEW r \in Requests, SetKey(r) PROVE IInv'
  BY <1>6, SetKeyIInv
<1>7. ASSUME NEW r \in Requests, Answer(r) \/ AnswerFromKey(r) PROVE IInv'
  BY <1>7, AnswerIInv
<1>8. QED
  BY <1>1, <1>2, <1>3, <1>4, <1>5, <1>6, <1>7 DEF Next

\* The inductive invariant holds in every reachable state.
LEMMA SpecIInv == Spec => []IInv
BY InitIInv, NextIInv, PTL DEF Spec

-----------------------------------------------------------------------------
\* Every variable keeps its type, and a request that orders knows the cart it
\* orders and the one it closes.
THEOREM CheckoutTypes == Spec => []TypeOK
<1>1. IInv => TypeOK
  BY DEF IInv
<1>2. QED
  BY <1>1, SpecIInv, PTL

\* The counter of the coupon is the number of its usages, whatever requests
\* validate and consume it at once (CouponsService.consume).
THEOREM CheckoutUsageCounted == Spec => []UsageCounted
<1>1. IInv => UsageCounted
  BY DEF IInv, UsageInv
<1>2. QED
  BY <1>1, SpecIInv, PTL

\* A request is answered with a committed order, its own or one that was placed
\* under its key (OrdersService.checkout).
THEOREM CheckoutAnswered == Spec => []AnsweredWithOrder
<1>1. IInv => AnsweredWithOrder
  BY DEF IInv
<1>2. QED
  BY <1>1, SpecIInv, PTL

-----------------------------------------------------------------------------
(* What is reserved.  A request that has ordered does not read a cart      *)
(* again, so the cart of an order stays what it was when its units were    *)
(* reserved, and the sum grows by one term with each order.                *)

\* The transaction reserves what its order holds.
LEMMA PlaceReserved ==
  ASSUME IInv, ReservedForOrders, NEW r \in Requests, PlaceOrder(r)
  PROVE  ReservedForOrders'
<1> SUFFICES ASSUME NEW v \in Variants
             PROVE  stock'[v].reserved
                      = InitStock[v].reserved
                        + SumFunctionOnSet([x \in orders' |-> Units[viewed'[x]][v]], orders')
  BY DEF ReservedForOrders
<1> DEFINE f == [x \in orders |-> Units[viewed[x]][v]]
           g == [x \in orders \cup {r} |-> Units[viewed[x]][v]]
<1>1. /\ r \notin orders /\ viewed[r] \in Carts
      /\ orders' = orders \cup {r} /\ viewed' = viewed
      /\ stock'[v] = ReserveRow(stock[v], Units[viewed[r]][v])
  BY DEF IInv, TypeOK, RequestInv, PlaceOrder
<1>2. \A x \in orders \cup {r} : g[x] = Units[viewed[x]][v] /\ g[x] \in Int
  <2>1. \A x \in orders \cup {r} : viewed[x] \in Carts
    BY <1>1 DEF IInv, TypeOK
  <2> QED
    BY <2>1, CheckoutAssumption
<1>3. \A x \in orders : f[x] = g[x] /\ f[x] \in Int
  BY <1>2
<1>4. IsFiniteSet(orders)
  BY CheckoutAssumption, FS_Subset DEF IInv, TypeOK
<1>5. /\ stock[v].reserved = InitStock[v].reserved + SumFunctionOnSet(f, orders)
      /\ stock[v] \in StockRow /\ InitStock[v] \in StockRow
  BY CheckoutAssumption DEF ReservedForOrders, IInv, TypeOK
<1>6. stock'[v].reserved = stock[v].reserved + g[r]
  BY <1>1, <1>2, <1>5 DEF ReserveRow, StockRow
<1>e. [x \in orders' |-> Units[viewed'[x]][v]] = g
  BY <1>1
<1> HIDE DEF f, g
<1>7. InitStock[v].reserved \in Int /\ g[r] \in Int
  BY <1>2, <1>5 DEF StockRow
<1>8. SumFunctionOnSet(g, orders \cup {r}) = SumFunctionOnSet(g, orders) + g[r]
  <2>1. r \notin orders /\ \A x \in orders \cup {r} : g[x] \in Int
    BY <1>1, <1>2
  <2> QED
    BY ONLY <2>1, <1>4, SumAdd
<1>9. SumFunctionOnSet(f, orders) = SumFunctionOnSet(g, orders)
  BY <1>3, <1>4, SumSame
<1>10. SumFunctionOnSet(f, orders) \in Int
  BY <1>3, <1>4, SumType
<1> QED
  BY <1>1, <1>5, <1>6, <1>7, <1>8, <1>9, <1>10, <1>e

\* The other steps leave the stock, the orders and the carts that they hold.
LEMMA OthersReserve ==
  ASSUME IInv, ReservedForOrders, stock' = stock, orders' = orders,
         \A r \in orders : viewed'[r] = viewed[r]
  PROVE  ReservedForOrders'
<1> SUFFICES ASSUME NEW v \in Variants
             PROVE  stock'[v].reserved
                      = InitStock[v].reserved
                        + SumFunctionOnSet([x \in orders' |-> Units[viewed'[x]][v]], orders')
  BY DEF ReservedForOrders
<1>1. [x \in orders' |-> Units[viewed'[x]][v]] = [x \in orders |-> Units[viewed[x]][v]]
  OBVIOUS
<1> QED
  BY <1>1 DEF ReservedForOrders

\* What is reserved is what the committed orders hold, for any number of
\* requests that are refused, die or order one cart twice.
THEOREM CheckoutReserved == Spec => []ReservedForOrders
<1>1. Init => ReservedForOrders
  <2> SUFFICES ASSUME Init, NEW v \in Variants
               PROVE  stock[v].reserved
                        = InitStock[v].reserved
                          + SumFunctionOnSet([r \in orders |-> Units[viewed[r]][v]], orders)
    BY DEF ReservedForOrders
  <2>1. orders = {} /\ stock[v].reserved = InitStock[v].reserved /\ InitStock[v] \in StockRow
    BY CheckoutAssumption DEF Init
  <2> QED
    BY <2>1, SumEmpty DEF StockRow
<1>2. IInv /\ ReservedForOrders /\ [Next]_vars => ReservedForOrders'
  <2> SUFFICES ASSUME IInv, ReservedForOrders, [Next]_vars
               PROVE  ReservedForOrders'
    OBVIOUS
  <2>1. ASSUME NEW r \in Requests, PlaceOrder(r)
        PROVE  ReservedForOrders'
    BY <2>1, PlaceReserved
  <2>2. ASSUME NEW r \in Requests, ViewCart(r)
        PROVE  ReservedForOrders'
    <3>1. r \notin orders
      BY <2>2 DEF IInv, RequestInv, ViewCart
    <3>2. \A x \in orders : viewed'[x] = viewed[x]
      BY <2>2, <3>1 DEF ViewCart, IInv, TypeOK
    <3>3. stock' = stock /\ orders' = orders
      BY <2>2 DEF ViewCart, dataVars
    <3> QED
      BY <3>2, <3>3, OthersReserve
  <2>3. CASE ~ \E r \in Requests : PlaceOrder(r) \/ ViewCart(r)
    <3>1. UNCHANGED <<stock, orders, viewed>>
      BY <2>3 DEF Next, FillCart, AnswerFromKey, KeyUnknown, FindCart, NoItems, ReadCoupon,
         CountUsages, OutOfStock, SetKey, Answer, Dies, KeyForgotten, vars, dataVars
    <3> QED
      BY <3>1, OthersReserve
  <2> QED
    BY <2>1, <2>2, <2>3
<1> QED
  BY <1>1, <1>2, SpecIInv, PTL DEF Spec

-----------------------------------------------------------------------------
(* Pricing: for all variants, prices, coupons, methods and settings.  The  *)
(* page's amounts are those of the shop unless there is news, and a deal   *)
(* that is as shown carries from step to step what will be due.  What a    *)
(* sum or a discount amounts to does not matter, only what it depends on.  *)

\* The totals that are true with the goods at p: on the checkout page, and for an
\* order without a method on the cart page.
Due(m, p, free, shown, announced) ==
  IF m # NoMethod THEN shown = p + Tax(p) + MethodCost(m, p)
  ELSE /\ shown = p + Tax(p)
       /\ announced = IF free THEN p + Tax(p) ELSE p + Tax(p) + FlatCost(p)

Free(c) == c # NoCode /\ Offer[c].shipsFree

SheetInv ==
  /\ {"view", "costs"} \subseteq DOMAIN sheet
  /\ news \intersect {"cart", "coupons"} = {} => sheet.view.payable = CartView.payable
  /\ news \intersect {"cart", "coupons", "rates"} = {} => sheet.view.total = CartView.total
  /\ "terms" \notin news => \A m \in DOMAIN sheet.costs :
                              sheet.costs[m] = MethodCost(m, sheet.view.payable)
  /\ NoMethod \notin DOMAIN sheet.costs

\* A deal that is as shown will cost what was shown.
DealInv ==
  deal # NoDeal =>
    /\ {"at", "shown", "announced", "asShown"} \subseteq DOMAIN deal
    /\ deal.at = "price" => {"view", "method", "code"} \subseteq DOMAIN deal
    /\ deal.at = "price" =>
         /\ \A v \in Goods : deal.view.units[v] \in Nat
         /\ deal.asShown =>
              Due(deal.method, Payable(deal.code, Amounts(deal.view.units, deal.view.prices)),
                  Free(deal.code), deal.shown, deal.announced)
    /\ deal.at = "ship" /\ deal.asShown =>
         Due(deal.method, deal.payable, deal.free, deal.shown, deal.announced)

PriceInv == PricingTypeOK /\ SheetInv /\ DealInv /\ ChargedAsShown

LEMMA PriceStart == PricingInit => PriceInv
  <1> SUFFICES ASSUME PricingInit PROVE PriceInv
    OBVIOUS
  <1>1. PricingTypeOK
    BY PricingAssumption DEF PricingInit, PricingTypeOK, EmptyCart
  <1>2. SheetInv
    BY PricingAssumption DEF PricingInit, SheetInv, NoCosts
  <1> QED
    BY <1>1, <1>2 DEF PricingInit, PriceInv, DealInv, ChargedAsShown

\* Types.
LEMMA PricingTypesKept ==
  ASSUME PricingTypeOK, PricingNext
  PROVE  PricingTypeOK'
  <1> USE PricingAssumption
  <1>1. ASSUME NEW v \in Goods, NEW p \in Prices[v], ChangePrice(v, p)
        PROVE  PricingTypeOK'
    BY <1>1 DEF PricingTypeOK, ChangePrice, Decide
  <1>2. ASSUME NEW c \in Codes, ChangeCoupon(c)
        PROVE  PricingTypeOK'
    BY <1>2 DEF PricingTypeOK, ChangeCoupon, Decide
  <1>3. ASSUME NEW r \in Rates, ChangeRates(r)
        PROVE  PricingTypeOK'
    BY <1>3 DEF PricingTypeOK, ChangeRates, Decide
  <1>4. ASSUME NEW m \in Methods, NEW t \in Terms, ChangeTerms(m, t)
        PROVE  PricingTypeOK'
    BY <1>4 DEF PricingTypeOK, ChangeTerms, Decide
  <1>5. ASSUME NEW c \in Codes, ApplyCoupon(c)
        PROVE  PricingTypeOK'
    BY <1>5 DEF PricingTypeOK, ApplyCoupon, EditCart
  <1>6. ASSUME NEW v \in Goods, AddItem(v)
        PROVE  PricingTypeOK'
    BY <1>6 DEF PricingTypeOK, AddItem, EditCart
  <1>7. ASSUME NEW v \in Goods, NEW n \in 0..MaxUnits, UpdateItem(v, n)
        PROVE  PricingTypeOK'
    BY <1>7 DEF PricingTypeOK, UpdateItem, EditCart, EmptyCart
  <1>8. CASE RemoveCoupon
    BY <1>8 DEF PricingTypeOK, RemoveCoupon, EditCart
  <1>9. CASE LoadCart \/ LoadMethods
    BY <1>9 DEF PricingTypeOK, LoadCart, LoadMethods, shopVars
  <1>10. CASE ShipOrder
    BY <1>10 DEF PricingTypeOK, ShipOrder, EmptyCart, shopVars
  <1>11. CASE PriceOrder \/ EndRequest
    BY <1>11 DEF PricingTypeOK, PriceOrder, EndRequest, shopVars, cartPageVars
  <1>12. ASSUME NEW m, NEW entered, StartDeal(m, entered)
         PROVE  PricingTypeOK'
    BY <1>12 DEF PricingTypeOK, StartDeal, shopVars, cartPageVars
  <1> QED
    BY <1>1, <1>2, <1>3, <1>4, <1>5, <1>6, <1>7, <1>8, <1>9, <1>10, <1>11, <1>12
    DEF PricingNext


\* What the view and the costs depend on.
LEMMA ViewDepends ==
  ASSUME UNCHANGED <<item, applied, good>>
  PROVE  /\ CartView.payable' = CartView.payable
         /\ rates' = rates => CartView' = CartView
  <1>1. \A c, amounts : Valid(c, amounts)' <=> Valid(c, amounts)
    BY DEF Valid
  <1>2. rates' = rates => \A p : FlatCost(p)' = FlatCost(p)
    BY DEF FlatCost, FreeForAll
  <1>3. CartView.payable' = CartView.payable
    BY <1>1 DEF CartView
  <1>4. ASSUME rates' = rates
        PROVE  CartView' = CartView
    BY <1>1, <1>2, <1>4 DEF CartView
  <1> QED
    BY <1>3, <1>4

LEMMA CostsDepend ==
  ASSUME UNCHANGED <<rates, terms>>
  PROVE  /\ \A m, p : MethodCost(m, p)' = MethodCost(m, p)
         /\ \A m, p, f, x, y : Due(m, p, f, x, y)' <=> Due(m, p, f, x, y)
  <1>1. \A p : FreeForAll(p)' <=> FreeForAll(p)
    BY DEF FreeForAll
  <1>2. \A m, p : MethodCost(m, p)' = MethodCost(m, p)
    BY <1>1 DEF MethodCost
  <1>3. \A p : FlatCost(p)' = FlatCost(p)
    BY <1>1 DEF FlatCost
  <1> QED
    BY <1>2, <1>3 DEF Due

\* A step that leaves the shop's costs, the cart and the page alone.
LEMMA SheetStays ==
  ASSUME SheetInv, UNCHANGED <<good, rates, terms, item, applied, sheet, news>>
  PROVE  SheetInv'
  <1>1. CartView' = CartView /\ \A m, p : MethodCost(m, p)' = MethodCost(m, p)
    BY ViewDepends, CostsDepend
  <1> QED
    BY <1>1 DEF SheetInv

\* A step that leaves the deal and its costs alone.
LEMMA DealStays ==
  ASSUME DealInv, ChargedAsShown, UNCHANGED <<rates, terms, deal>>
  PROVE  DealInv' /\ ChargedAsShown'
  <1>1. \A m, p, f, x, y : Due(m, p, f, x, y)' <=> Due(m, p, f, x, y)
    BY CostsDepend
  <1> QED
    BY <1>1 DEF DealInv, ChargedAsShown, Free

\* Decisions of administrators: the view does not depend on prices and terms, and
\* a deal is no longer as shown when something else has been changed.
LEMMA DecisionKeeps ==
  ASSUME PriceInv, NEW what, Decide(what),
         \/ /\ what = {} /\ UNCHANGED <<good, rates, terms>>
         \/ /\ what = {"coupons"} /\ UNCHANGED <<price, rates, terms>>
         \/ /\ what = {"rates", "terms"} /\ UNCHANGED <<price, good, terms>>
         \/ /\ what = {"terms"} /\ UNCHANGED <<price, good, rates>>
  PROVE  SheetInv' /\ DealInv' /\ ChargedAsShown'
  <1>0. /\ sheet' = sheet /\ item' = item /\ applied' = applied
        /\ news' = news \union what
    BY DEF Decide
  <1>1. CASE what = {} /\ UNCHANGED <<good, rates, terms>>
    <2>1. UNCHANGED <<news, sheet, deal>>
      BY <1>0, <1>1 DEF Decide
    <2> QED
      BY <1>0, <1>1, <2>1, SheetStays, DealStays DEF PriceInv
  <1>2. CASE what # {}
    <2>1. deal' # NoDeal => deal # NoDeal /\ deal' = [deal EXCEPT !.asShown = FALSE]
      BY <1>2 DEF Decide
    <2>2. DealInv'
      BY <2>1 DEF PriceInv, DealInv
    <2>3. ChargedAsShown'
      BY <2>1 DEF PriceInv, DealInv, ChargedAsShown
    <2>4. CASE what = {"coupons"} /\ UNCHANGED <<price, rates, terms>>
      <3>1. \A m, p : MethodCost(m, p)' = MethodCost(m, p)
        BY <2>4, CostsDepend
      <3> QED
        BY <1>0, <2>4, <3>1, <2>2, <2>3 DEF PriceInv, SheetInv
    <2>5. CASE what = {"rates", "terms"} /\ UNCHANGED <<price, good, terms>>
      <3>1. CartView.payable' = CartView.payable
        BY <1>0, <2>5, ViewDepends
      <3> QED
        BY <1>0, <2>5, <3>1, <2>2, <2>3 DEF PriceInv, SheetInv
    <2>6. CASE what = {"terms"} /\ UNCHANGED <<price, good, rates>>
      <3>1. CartView' = CartView
        BY <1>0, <2>6, ViewDepends
      <3> QED
        BY <1>0, <2>6, <3>1, <2>2, <2>3 DEF PriceInv, SheetInv
    <2> QED
      BY <1>2, <2>4, <2>5, <2>6
  <1> QED
    BY <1>1, <1>2

\* The cart is changed: the sheet is outdated.
LEMMA EditKeeps ==
  ASSUME PriceInv, NEW newItem, NEW newApplied, EditCart(newItem, newApplied)
  PROVE  SheetInv' /\ DealInv' /\ ChargedAsShown'
  <1>1. UNCHANGED <<rates, terms, sheet, deal>> /\ news' = news \union {"cart"}
    BY DEF EditCart
  <1>2. \A m, p : MethodCost(m, p)' = MethodCost(m, p)
    BY <1>1, CostsDepend
  <1> QED
    BY <1>1, <1>2, DealStays DEF PriceInv, SheetInv

\* What the browser loads is what the shop says.
LEMMA LoadKeeps ==
  ASSUME PriceInv, LoadCart \/ LoadMethods
  PROVE  SheetInv' /\ DealInv' /\ ChargedAsShown'
  <1>0. UNCHANGED <<good, rates, terms, item, applied, deal>>
    BY DEF LoadCart, LoadMethods, shopVars
  <1>1. CartView' = CartView /\ \A m, p : MethodCost(m, p)' = MethodCost(m, p)
    BY <1>0, ViewDepends, CostsDepend
  <1>2. DealInv' /\ ChargedAsShown'
    BY <1>0, DealStays DEF PriceInv
  <1>3. CASE LoadCart
    <2>1. /\ {"view", "costs"} \subseteq DOMAIN sheet'
          /\ sheet'.view = CartView
          /\ \/ sheet'.costs = NoCosts
             \/ sheet'.costs = sheet.costs /\ sheet.view.payable = CartView.payable
          /\ "terms" \notin news' => "terms" \notin news
      BY <1>3 DEF LoadCart
    <2>2. NoMethod \notin DOMAIN sheet'.costs
      BY <2>1 DEF PriceInv, SheetInv, NoCosts
    <2>3. "terms" \notin news' => \A m \in DOMAIN sheet'.costs :
                                    sheet'.costs[m] = MethodCost(m, CartView.payable)
      BY <2>1 DEF PriceInv, SheetInv, NoCosts
    <2> QED
      BY <1>1, <1>2, <2>1, <2>2, <2>3 DEF SheetInv
  <1>4. CASE LoadMethods
    <2>0. "view" \in DOMAIN sheet /\ "costs" \in DOMAIN sheet
      BY DEF PriceInv, SheetInv
    <2>1. /\ {"view", "costs"} \subseteq DOMAIN sheet'
          /\ sheet'.view = sheet.view
          /\ sheet'.costs = Costs(sheet.view.payable)
          /\ \A w \in {"cart", "coupons", "rates"} : w \in news' <=> w \in news
      BY <1>4, <2>0 DEF LoadMethods
    <2>2. NoMethod \notin DOMAIN Costs(sheet.view.payable)
      BY PricingAssumption DEF Costs
    <2>3. \A m \in DOMAIN Costs(sheet.view.payable) :
            Costs(sheet.view.payable)[m] = MethodCost(m, sheet.view.payable)
      BY DEF Costs
    <2> QED
      BY <1>1, <1>2, <2>1, <2>2, <2>3 DEF PriceInv, SheetInv
  <1> QED
    BY <1>3, <1>4

\* A deal begins with what is shown.
LEMMA PlaceKeeps ==
  ASSUME PriceInv, NEW m \in Methods \union {NoMethod}, NEW entered, StartDeal(m, entered)
  PROVE  SheetInv' /\ DealInv' /\ ChargedAsShown'
  <1>1. /\ UNCHANGED <<price, good, rates, terms, item, applied, sheet, news>>
        /\ deal' = [at |-> "price", view |-> CartView, method |-> m,
                    code |-> IF entered = NoCode THEN CartView.code ELSE entered,
                    shown |-> ShownFor(m), announced |-> sheet.view.total,
                    asShown |-> entered = NoCode /\ news \intersect Sources(m) = {}]
    BY DEF StartDeal, shopVars, cartPageVars
  <1>2. SheetInv'
    BY <1>1, SheetStays DEF PriceInv
  <1>3. \A n, p, f, x, y : Due(n, p, f, x, y)' <=> Due(n, p, f, x, y)
    BY <1>1, CostsDepend
  <1>4. /\ \A v \in Goods : CartView.units[v] \in Nat
        /\ CartView.payable = Payable(CartView.code, Amounts(CartView.units, CartView.prices))
        /\ Due(NoMethod, CartView.payable, Free(CartView.code),
               CartView.payable + Tax(CartView.payable), CartView.total)
    <2>1. \A v \in Goods : item[v].units \in Nat
      BY PricingAssumption DEF PriceInv, PricingTypeOK
    <2> QED
      BY <2>1 DEF CartView, Due, Free
  <1>5. ASSUME entered = NoCode, news \intersect Sources(m) = {}
        PROVE  Due(m, CartView.payable, Free(CartView.code), ShownFor(m), sheet.view.total)
    <2>1. CASE m = NoMethod
      <3>1. sheet.view.payable = CartView.payable /\ sheet.view.total = CartView.total
        BY <1>5, <2>1 DEF PriceInv, SheetInv, Sources
      <3>2. ShownFor(m) = CartView.payable + Tax(CartView.payable)
        BY <2>1, <3>1 DEF ShownFor
      <3> QED
        BY <1>4, <2>1, <3>1, <3>2 DEF Due
    <2>2. CASE m # NoMethod
      <3>1. m \in DOMAIN sheet.costs
        BY <2>2 DEF StartDeal
      <3>2. sheet.view.payable = CartView.payable
        BY <1>5 DEF PriceInv, SheetInv, Sources
      <3>3. sheet.costs[m] = MethodCost(m, CartView.payable)
        BY <1>5, <2>2, <3>1, <3>2 DEF PriceInv, SheetInv, Sources
      <3> QED
        BY <2>2, <3>2, <3>3 DEF ShownFor, Due
    <2> QED
      BY <2>1, <2>2
  <1>6. DealInv'
    <2>1. /\ deal'.at = "price" /\ deal'.view = CartView /\ deal'.method = m
          /\ deal'.shown = ShownFor(m) /\ deal'.announced = sheet.view.total
          /\ {"at", "view", "method", "code", "shown", "announced", "asShown"} \subseteq DOMAIN deal'
          /\ deal'.asShown => /\ entered = NoCode /\ news \intersect Sources(m) = {}
                               /\ deal'.code = CartView.code
      BY <1>1
    <2>2. deal'.asShown =>
            Due(m, Payable(deal'.code, Amounts(deal'.view.units, deal'.view.prices)),
                Free(deal'.code), deal'.shown, deal'.announced)
      BY <2>1, <1>4, <1>5
    <2> QED
      BY <2>1, <2>2, <1>3, <1>4 DEF DealInv, Free
  <1> QED
    BY <1>1, <1>2, <1>6 DEF ChargedAsShown

\* The prices of the day: those of the view, or the deal is not as shown.
LEMMA PriceKeeps ==
  ASSUME PriceInv, PriceOrder
  PROVE  SheetInv' /\ DealInv' /\ ChargedAsShown'
  <1> DEFINE amounts == Amounts(deal.view.units, price)
  <1>1. /\ UNCHANGED <<price, good, rates, terms, item, applied, sheet, news>>
        /\ deal # NoDeal /\ deal.at = "price"
        /\ deal'.at = "ship" /\ deal'.method = deal.method
        /\ {"at", "shown", "announced", "asShown"} \subseteq DOMAIN deal'
        /\ deal'.payable = Payable(deal.code, amounts)
        /\ deal'.free = Free(deal.code)
        /\ deal'.shown = deal.shown /\ deal'.announced = deal.announced
        /\ deal'.asShown => deal.asShown /\ \A v \in Goods :
                              deal.view.units[v] > 0 => price[v] = deal.view.prices[v]
    BY DEF PriceOrder, shopVars, cartPageVars, Free
  <1>2. SheetInv'
    BY <1>1, SheetStays DEF PriceInv
  <1>3. \A n, p, f, x, y : Due(n, p, f, x, y)' <=> Due(n, p, f, x, y)
    BY <1>1, CostsDepend
  <1>4. ASSUME deal'.asShown
        PROVE  amounts = Amounts(deal.view.units, deal.view.prices)
    BY <1>1, <1>4 DEF PriceInv, DealInv, Amounts
  <1>5. ASSUME deal'.asShown
        PROVE  Due(deal'.method, deal'.payable, deal'.free, deal'.shown, deal'.announced)
    <2> HIDE DEF amounts
    <2> QED
      BY <1>1, <1>4, <1>5 DEF PriceInv, DealInv
  <1>6. DealInv'
    BY <1>1, <1>3, <1>5 DEF DealInv
  <1> QED
    BY <1>1, <1>2, <1>6 DEF ChargedAsShown

\* The order costs what was due.
LEMMA ShipKeeps ==
  ASSUME PriceInv, ShipOrder
  PROVE  SheetInv' /\ DealInv' /\ ChargedAsShown'
  <1> DEFINE m == deal.method
             cost == IF m = NoMethod THEN FlatCost(deal.payable) ELSE MethodCost(m, deal.payable)
  <1>1. /\ UNCHANGED <<price, good, rates, terms, sheet>>
        /\ news' = news \union {"cart"}
        /\ deal # NoDeal /\ deal.at = "ship"
        /\ deal' = [at |-> "ordered", total |-> deal.payable + Tax(deal.payable) + cost,
                    method |-> m, cost |-> cost, free |-> deal.free,
                    shown |-> deal.shown, announced |-> deal.announced,
                    asShown |-> deal.asShown]
    BY DEF ShipOrder, shopVars
  <1>2. SheetInv'
    <2>1. \A n, p : MethodCost(n, p)' = MethodCost(n, p)
      BY <1>1, CostsDepend
    <2> QED
      BY <1>1, <2>1 DEF PriceInv, SheetInv
  <1>3. DealInv'
    BY <1>1 DEF DealInv
  <1>4. ChargedAsShown'
    <2> DEFINE due == deal.payable + Tax(deal.payable)
    <2> SUFFICES ASSUME deal.asShown
                 PROVE  IF m # NoMethod THEN due + cost = deal.shown
                        ELSE /\ due + cost = deal.shown + cost
                             /\ due + cost = IF deal.free THEN deal.announced + cost
                                             ELSE deal.announced
      BY <1>1 DEF ChargedAsShown
    <2>1. Due(m, deal.payable, deal.free, deal.shown, deal.announced)
      BY <1>1 DEF PriceInv, DealInv
    <2>2. CASE m # NoMethod
      BY <2>1, <2>2 DEF Due
    <2>3. CASE m = NoMethod
      <3>1. /\ deal.shown = due /\ cost = FlatCost(deal.payable)
            /\ deal.announced = IF deal.free THEN due ELSE due + cost
        BY <2>1, <2>3 DEF Due
      <3> HIDE DEF due, cost
      <3> QED
        BY <2>3, <3>1
    <2> QED
      BY <2>2, <2>3
  <1> QED
    BY <1>2, <1>3, <1>4

\* Every step preserves the invariant.
LEMMA PriceStep == PriceInv /\ [PricingNext]_pricingVars => PriceInv'
  <1> SUFFICES ASSUME PriceInv, [PricingNext]_pricingVars
               PROVE  PriceInv'
    OBVIOUS
  <1>1. CASE PricingNext
    <2>1. PricingTypeOK'
      BY <1>1, PricingTypesKept DEF PriceInv
    <2>2. SheetInv' /\ DealInv' /\ ChargedAsShown'
      <3>1. ASSUME NEW v \in Goods, NEW p \in Prices[v], ChangePrice(v, p)
            PROVE  SheetInv' /\ DealInv' /\ ChargedAsShown'
        <4>1. Decide({}) /\ UNCHANGED <<good, rates, terms>>
          BY <3>1 DEF ChangePrice
        <4> QED
          BY <4>1, DecisionKeeps
      <3>2. ASSUME NEW c \in Codes, ChangeCoupon(c)
            PROVE  SheetInv' /\ DealInv' /\ ChargedAsShown'
        <4>1. Decide({"coupons"}) /\ UNCHANGED <<price, rates, terms>>
          BY <3>2 DEF ChangeCoupon
        <4> QED
          BY <4>1, DecisionKeeps
      <3>3. ASSUME NEW r \in Rates, ChangeRates(r)
            PROVE  SheetInv' /\ DealInv' /\ ChargedAsShown'
        <4>1. Decide({"rates", "terms"}) /\ UNCHANGED <<price, good, terms>>
          BY <3>3 DEF ChangeRates
        <4> QED
          BY <4>1, DecisionKeeps
      <3>4. ASSUME NEW m \in Methods, NEW t \in Terms, ChangeTerms(m, t)
            PROVE  SheetInv' /\ DealInv' /\ ChargedAsShown'
        <4>1. Decide({"terms"}) /\ UNCHANGED <<price, good, rates>>
          BY <3>4 DEF ChangeTerms
        <4> QED
          BY <4>1, DecisionKeeps
      <3>5. CASE \/ \E c \in Codes : ApplyCoupon(c)
                 \/ \E v \in Goods : AddItem(v) \/ \E n \in 0..MaxUnits : UpdateItem(v, n)
                 \/ RemoveCoupon
        <4>1. PICK newItem, newApplied : EditCart(newItem, newApplied)
          BY <3>5 DEF ApplyCoupon, AddItem, UpdateItem, RemoveCoupon
        <4> QED
          BY <4>1, EditKeeps
      <3>6. CASE LoadCart \/ LoadMethods
        BY <3>6, <1>1, LoadKeeps
      <3>7. ASSUME NEW m \in Methods \union {NoMethod}, NEW entered \in Codes \union {NoCode},
                   StartDeal(m, entered)
            PROVE  SheetInv' /\ DealInv' /\ ChargedAsShown'
        BY <3>7, PlaceKeeps
      <3>8. CASE PriceOrder
        BY <3>8, PriceKeeps
      <3>9. CASE ShipOrder
        BY <3>9, ShipKeeps
      <3>10. CASE EndRequest
        <4>1. /\ UNCHANGED <<price, good, rates, terms, item, applied, sheet, news>>
              /\ deal' = NoDeal
          BY <3>10 DEF EndRequest, shopVars, cartPageVars
        <4>2. SheetInv'
          BY <4>1, SheetStays DEF PriceInv
        <4> QED
          BY <4>1, <4>2 DEF DealInv, ChargedAsShown
      <3> QED
        BY <1>1, <3>1, <3>2, <3>3, <3>4, <3>5, <3>6, <3>7, <3>8, <3>9, <3>10
        DEF PricingNext
    <2> QED
      BY <2>1, <2>2 DEF PriceInv
  <1>2. CASE UNCHANGED pricingVars
    <2>1. UNCHANGED <<price, good, rates, terms, changes, item, applied, sheet, news, deal>>
      BY <1>2 DEF pricingVars
    <2>2. PricingTypeOK'
      BY <2>1 DEF PriceInv, PricingTypeOK
    <2> QED
      BY <2>1, <2>2, SheetStays, DealStays DEF PriceInv
  <1> QED
    BY <1>1, <1>2

\* An order costs what the customer was shown (ChargedAsShown): two pages and the
\* checkout that computes it anew agree, for every cart and coupon, but for the flat
\* cost of an order without a method, which the checkout page does not show.
THEOREM PricesAsShown == PricingSpec => []ChargedAsShown
  <1>1. PriceInv => ChargedAsShown
    BY DEF PriceInv
  <1> QED
    BY PriceStart, PriceStep, <1>1, PTL DEF PricingSpec

\* The types of shop, cart and page.
LEMMA PricingTyped == PricingSpec => []PricingTypeOK
<1>1. PriceInv => PricingTypeOK
  BY DEF PriceInv
<1> QED
  BY PriceStart, PriceStep, <1>1, PTL DEF PricingSpec

-----------------------------------------------------------------------------
(* Carts: for any number of requests, carts and units.  The units asked    *)
(* for can be shared out between the carts, the requests that have not     *)
(* placed theirs and the orders, so that each cart that can be ordered has *)
(* as many as it holds, and as many as any request under way remembers of  *)
(* it, for what is remembered may be written back.  A merge moves the      *)
(* share of the guest's cart; two requests that empty one cart would both  *)
(* move it, so would one that was cut short and came again, and a checkout *)
(* may order one cart and close another: that is what mixedUp records.     *)

Purposes == {"nothing", "add", "set", "remove", "coupon", "checkout", "merge"}

CartSteps == {"idle", "find", "create", "attach", "read", "item", "save", "close", "convert"}

CartRequest == [does : Purposes, at : CartSteps, byUser : BOOLEAN, cart : Nat,
                owned : BOOLEAN, closes : Nat, seen : Nat, n : Nat]

CartRow == [user : BOOLEAN, session : BOOLEAN,
            status : {"open", "merged", "converted"}, units : Nat]

\* A request works on carts that are there, and is where its purpose leads it.
ShapeOK(r, last) ==
  /\ r \in CartRequest
  /\ r.cart <= last /\ r.closes <= last
  /\ r.at \in {"attach", "read", "item", "save", "close", "convert"} => r.cart # 0
  /\ r.does \in {"merge", "checkout"} <=> r.closes # 0
  /\ r.at = "convert" => r.does = "checkout"
  /\ r.at \in {"item", "close"} => r.does = "merge"
  /\ r.at = "save" => r.does \in {"add", "set", "merge"}
  /\ r.does = "merge" /\ r.at \in {"item", "save"} => r.closes # r.cart

ShapeInv ==
  /\ carts \in Seq(CartRow)
  /\ shopper \in [Shoppers -> CartRequest]
  /\ \A s \in Shoppers : ShapeOK(shopper[s], Len(carts))
  /\ requests \in Nat /\ asked \in Nat /\ ordered \in Nat /\ mixedUp \in BOOLEAN

\* A cart is emptied by one request at a time, while it is open, and by the one
\* that will close it.
OneEmpties ==
  \A s \in Shoppers, c \in DOMAIN carts : Emptying(s, c) =>
    /\ carts[c].status = "open" /\ shopper[s].closes = c
    /\ \A t \in Shoppers : Emptying(t, c) => t = s

Closing(s, c) == Goal(s, "merge", "close") /\ shopper[s].closes = c

\* What the cart holds can be ordered.
Live(c) == carts[c].status = "open" /\ ~ \E s \in Shoppers : Closing(s, c)

\* What a request under way remembers of a cart is no more than k.
KnowsAtMost(r, c, k) ==
  /\ r.cart = c /\ r.at \in {"save", "convert"} => r.seen <= k
  /\ r.does = "merge" /\ r.closes = c /\ r.at \in {"item", "save"} => r.n <= k

Wanted(r) == IF r.does \in {"add", "set"} THEN r.n ELSE 0

AllWanted == SumFunctionOnSet([s \in Shoppers |-> Wanted(shopper[s])], Shoppers)

Enough(a) ==
  \A c \in DOMAIN carts : Live(c) =>
    /\ carts[c].units <= a[c]
    /\ \A s \in Shoppers : KnowsAtMost(shopper[s], c, a[c])

Afforded(a) == ordered + SumFunctionOnSet(a, DOMAIN carts) + AllWanted <= asked

Shares == \E a \in [DOMAIN carts -> Nat] : Enough(a) /\ Afforded(a)

CartInv == ShapeInv /\ (~mixedUp => OneEmpties /\ Shares)

\* A row of the carts is replaced.
LEMMA RowReplaced ==
  ASSUME NEW q \in Seq(CartRow), NEW c \in 1..Len(q), NEW e \in CartRow
  PROVE  /\ [q EXCEPT ![c] = e] \in Seq(CartRow)
         /\ Len([q EXCEPT ![c] = e]) = Len(q)
         /\ DOMAIN [q EXCEPT ![c] = e] = 1..Len(q)
         /\ [q EXCEPT ![c] = e][c] = e
         /\ \A d \in 1..Len(q) : d # c => [q EXCEPT ![c] = e][d] = q[d]
OBVIOUS

\* The carts are few enough to be added up, and so are the requests.
LEMMA CartSums ==
  ASSUME ShapeInv, NEW a \in [DOMAIN carts -> Nat]
  PROVE  /\ DOMAIN carts = 1..Len(carts) /\ Len(carts) \in Nat
         /\ IsFiniteSet(DOMAIN carts) /\ IsFiniteSet(Shoppers)
         /\ SumFunctionOnSet(a, DOMAIN carts) \in Nat
         /\ AllWanted \in Nat
<1>1. DOMAIN carts = 1..Len(carts) /\ Len(carts) \in Nat
  BY DEF ShapeInv
<1>2. IsFiniteSet(DOMAIN carts)
  BY <1>1, FS_Interval
<1>3. IsFiniteSet(Shoppers)
  BY CartAssumption
<1>4. SumFunctionOnSet(a, DOMAIN carts) \in Nat
  <2>1. \A c \in DOMAIN carts : a[c] \in Int /\ a[c] >= 0
    OBVIOUS
  <2>2. /\ SumFunctionOnSet(a, DOMAIN carts) \in Int
        /\ SumFunctionOnSet(a, DOMAIN carts) >= 0
    BY <1>2, <2>1, SumType
  <2> QED
    BY <2>2
<1>5. AllWanted \in Nat
  <2> DEFINE w == [s \in Shoppers |-> Wanted(shopper[s])]
  <2>1. \A s \in Shoppers : w[s] \in Int /\ w[s] >= 0
    BY DEF ShapeInv, CartRequest, Wanted
  <2> HIDE DEF w
  <2>2. SumFunctionOnSet(w, Shoppers) \in Int /\ SumFunctionOnSet(w, Shoppers) >= 0
    BY <1>3, <2>1, SumType
  <2> QED
    BY <2>2 DEF AllWanted, w
<1> QED
  BY <1>1, <1>2, <1>3, <1>4, <1>5

\* One request makes a step.
OneMoves(s) == \A t \in Shoppers : t # s => shopper'[t] = shopper[t]

\* What a request wants, and what it makes of a quantity.
LEMMA WantedType ==
  ASSUME NEW r \in CartRequest
  PROVE  Wanted(r) \in Nat
BY DEF CartRequest, Wanted

LEMMA NextBounds ==
  ASSUME NEW r, r.does \in {"add", "set", "merge"}, r.seen \in Nat, r.n \in Nat
  PROVE  NextQuantity(r) \in Nat /\ NextQuantity(r) <= r.seen + r.n
<1>1. \A a, b \in Nat : Smaller(a, b) \in Nat /\ Smaller(a, b) <= b
  BY DEF Smaller
<1>2. MaxQuantity \in Nat /\ InStock \in Nat
  BY CartAssumption
<1>3. r.seen + r.n \in Nat /\ r.n <= r.seen + r.n
  OBVIOUS
<1>4. Smaller(MaxQuantity, InStock) \in Nat
  BY <1>1, <1>2
<1> QED
  BY <1>1, <1>2, <1>3, <1>4 DEF NextQuantity

\* What is wanted changes by what that request wants.
LEMMA WantedStep ==
  ASSUME ShapeInv, NEW s \in Shoppers, OneMoves(s),
         shopper' \in [Shoppers -> CartRequest]
  PROVE  AllWanted' = AllWanted - Wanted(shopper[s]) + Wanted(shopper'[s])
<1> DEFINE f == [t \in Shoppers |-> Wanted(shopper[t])]
           g == [t \in Shoppers |-> Wanted(shopper'[t])]
<1>1. \A t \in Shoppers : f[t] \in Int /\ g[t] \in Int
  <2> SUFFICES ASSUME NEW t \in Shoppers
               PROVE  Wanted(shopper[t]) \in Nat /\ Wanted(shopper'[t]) \in Nat
    OBVIOUS
  <2>1. shopper[t] \in CartRequest /\ shopper'[t] \in CartRequest
    BY DEF ShapeInv
  <2> QED
    BY <2>1, WantedType
<1>2. \A t \in Shoppers \ {s} : f[t] = g[t]
  BY DEF OneMoves
<1>3. f[s] = Wanted(shopper[s]) /\ g[s] = Wanted(shopper'[s])
  OBVIOUS
<1>4. AllWanted = SumFunctionOnSet(f, Shoppers) /\ AllWanted' = SumFunctionOnSet(g, Shoppers)
  BY DEF AllWanted, Wanted
<1>5. IsFiniteSet(Shoppers)
  BY CartAssumption
<1> HIDE DEF f, g
<1>6. SumFunctionOnSet(g, Shoppers) = SumFunctionOnSet(f, Shoppers) - f[s] + g[s]
  BY ONLY <1>1, <1>2, <1>5, s \in Shoppers, SumChange
<1> QED
  BY <1>3, <1>4, <1>6

\* The invariant of the requests, one of which has made a step.
LEMMA ShapeStep ==
  ASSUME ShapeInv, NEW s \in Shoppers,
         \E r : /\ shopper' = [shopper EXCEPT ![s] = r]
                /\ ShapeOK(r, Len(carts'))
         , carts' \in Seq(CartRow), Len(carts') >= Len(carts),
         requests' \in Nat, asked' \in Nat, ordered' \in Nat, mixedUp' \in BOOLEAN
  PROVE  ShapeInv' /\ OneMoves(s)
<1>1. PICK r : shopper' = [shopper EXCEPT ![s] = r] /\ ShapeOK(r, Len(carts'))
  OBVIOUS
<1>2. shopper' \in [Shoppers -> CartRequest] /\ OneMoves(s) /\ shopper'[s] = r
  BY <1>1 DEF ShapeInv, ShapeOK, OneMoves
<1>3. ASSUME NEW t \in Shoppers PROVE ShapeOK(shopper'[t], Len(carts'))
  <2>1. CASE t = s
    BY <1>1, <1>2, <2>1
  <2>2. CASE t # s
    <3>1. ShapeOK(shopper[t], Len(carts)) /\ shopper'[t] = shopper[t]
      BY <1>2, <2>2 DEF ShapeInv, OneMoves
    <3>2. Len(carts) \in Nat /\ Len(carts') \in Nat
      BY DEF ShapeInv
    <3>3. shopper[t] \in CartRequest
      BY DEF ShapeInv
    <3> DEFINE q == shopper[t]
    <3>4. ShapeOK(q, Len(carts')) /\ shopper'[t] = q
      <4>1. ShapeOK(q, Len(carts)) /\ q \in CartRequest /\ shopper'[t] = q
        BY <3>1, <3>3
      <4> HIDE DEF q
      <4> QED
        BY <3>2, <4>1 DEF ShapeOK, CartRequest
    <3> QED
      BY <3>4
  <2> QED
    BY <2>1, <2>2
<1> QED
  BY <1>2, <1>3 DEF ShapeInv

\* The steps of request s.
ShopperStep(s) ==
  \/ \E does \in {"add", "set", "remove", "coupon"}, byUser \in BOOLEAN : StartItem(s, does, byUser)
  \/ \E c \in DOMAIN carts : StartCheckout(s, c) \/ StartMerge(s, c)
  \/ GetOrCreateCart(s) \/ CreateCart(s) \/ Attach(s)
  \/ SaveCoupon(s) \/ RemoveItem(s) \/ ReadGuest(s) \/ ReadItem(s) \/ SaveItem(s)
  \/ CloseGuest(s) \/ ReadOrder(s) \/ MarkConverted(s)
  \/ ShopperFails(s)

\* What a request at rest is.
LEMMA RestFields ==
  /\ AtRest \in CartRequest
  /\ AtRest.does = "nothing" /\ AtRest.at = "idle" /\ AtRest.byUser = FALSE
  /\ AtRest.cart = 0 /\ AtRest.owned = FALSE /\ AtRest.closes = 0
  /\ AtRest.seen = 0 /\ AtRest.n = 0
BY DEF CartRequest, AtRest, Purposes, CartSteps

\* A request at rest is well formed.
LEMMA RestOK == \A k \in Nat : ShapeOK(AtRest, k)
BY DEF ShapeOK, CartRequest, AtRest, Purposes, CartSteps

\* Every step of a request leaves the rows, and what the requests remember, well
\* formed, and takes no cart away.
LEMMA ShapeNext ==
  ASSUME ShapeInv, NEW s \in Shoppers, ShopperStep(s)
  PROVE  ShapeInv' /\ OneMoves(s) /\ Len(carts') >= Len(carts)
<1> DEFINE k == Len(carts)
           r == shopper[s]
<1> USE DEF Comes, Idle, Goal, Merging
<1>1. k \in Nat /\ DOMAIN carts = 1..k
  BY DEF ShapeInv
<1>2. ShapeOK(r, k) /\ r \in CartRequest /\ ShapeOK(AtRest, k)
  BY <1>1, RestOK DEF ShapeInv
<1>3. r.at \in {"attach", "read", "item", "save", "close", "convert"} =>
        r.cart \in 1..k /\ carts[r.cart] \in CartRow
  BY <1>1, <1>2 DEF ShapeOK, CartRequest, ShapeInv
<1>4. r.does \in {"merge", "checkout"} => r.closes \in 1..k /\ carts[r.closes] \in CartRow
  BY <1>1, <1>2 DEF ShapeOK, CartRequest, ShapeInv
<1>5. ASSUME UNCHANGED carts, requests' \in Nat, asked' \in Nat, ordered' \in Nat, mixedUp' \in BOOLEAN,
             NEW e, ShapeOK(e, k), shopper' = [shopper EXCEPT ![s] = e]
      PROVE  ShapeInv' /\ OneMoves(s) /\ Len(carts') >= Len(carts)
  <2>1. carts' \in Seq(CartRow) /\ Len(carts') = k
    BY <1>5 DEF ShapeInv
  <2>2. \E x : shopper' = [shopper EXCEPT ![s] = x] /\ ShapeOK(x, Len(carts'))
    BY <1>5, <2>1
  <2>3. Len(carts') >= Len(carts)
    BY <1>1, <2>1
  <2> QED
    BY ONLY ShapeInv, s \in Shoppers, <1>5, <2>1, <2>2, <2>3, ShapeStep
<1>6. ASSUME NEW c \in 1..k, NEW row \in CartRow, carts' = [carts EXCEPT ![c] = row],
             requests' \in Nat, asked' \in Nat, ordered' \in Nat, mixedUp' \in BOOLEAN,
             NEW e, ShapeOK(e, k), shopper' = [shopper EXCEPT ![s] = e]
      PROVE  ShapeInv' /\ OneMoves(s) /\ Len(carts') >= Len(carts)
  <2>1. carts' \in Seq(CartRow) /\ Len(carts') = k
    BY <1>6, RowReplaced DEF ShapeInv
  <2>2. \E x : shopper' = [shopper EXCEPT ![s] = x] /\ ShapeOK(x, Len(carts'))
    BY <1>6, <2>1
  <2>3. Len(carts') >= Len(carts)
    BY <1>1, <2>1
  <2> QED
    BY ONLY ShapeInv, s \in Shoppers, <1>6, <2>1, <2>2, <2>3, ShapeStep
<1> HIDE DEF k
<1>7. requests \in Nat /\ asked \in Nat /\ ordered \in Nat /\ mixedUp \in BOOLEAN
  BY DEF ShapeInv
<1>8. shopper \in [Shoppers -> CartRequest]
  BY DEF ShapeInv
<1>9. r \in CartRequest /\ r.byUser \in BOOLEAN
  BY <1>2 DEF CartRequest
<1>10. \A c \in DOMAIN carts : carts[c] \in CartRow
  BY DEF ShapeInv
<1>11. ASSUME NEW does \in {"add", "set", "remove", "coupon"}, NEW byUser \in BOOLEAN,
              StartItem(s, does, byUser)
       PROVE  ShapeInv' /\ OneMoves(s) /\ Len(carts') >= Len(carts)
  <2> DEFINE n == IF does \in {"add", "set"} THEN 1 ELSE 0
             e == [AtRest EXCEPT !.does = does, !.at = "find", !.byUser = byUser, !.n = n]
  <2>1. ShapeOK(e, k)
    <3>0. n \in Nat
      OBVIOUS
    <3> HIDE DEF n
    <3>1. e \in CartRequest
      BY <3>0, RestFields DEF CartRequest, Purposes, CartSteps
    <3>2. e.does = does /\ e.at = "find" /\ e.cart = 0 /\ e.closes = 0
      BY RestFields DEF CartRequest
    <3> HIDE DEF e
    <3> QED
      BY <1>1, <3>1, <3>2 DEF ShapeOK
  <2>2. /\ UNCHANGED <<carts, ordered, mixedUp>>
        /\ requests' = requests + 1 /\ asked' = asked + n
        /\ shopper' = [shopper EXCEPT ![s] = e]
    BY <1>11 DEF StartItem
  <2>3. requests' \in Nat /\ asked' \in Nat
    BY <1>7, <2>2
  <2> HIDE DEF e, n
  <2> QED
    BY <1>5, <1>7, <2>1, <2>2, <2>3
<1>12. ASSUME NEW c \in DOMAIN carts, StartCheckout(s, c)
       PROVE  ShapeInv' /\ OneMoves(s) /\ Len(carts') >= Len(carts)
  <2> DEFINE e == [AtRest EXCEPT !.does = "checkout", !.at = "find", !.byUser = TRUE,
                                 !.closes = c]
  <2>1. ShapeOK(e, k)
    <3>0. c \in 1..k
      BY <1>1
    <3>1. e \in CartRequest
      <4>1. c \in Nat
        BY <1>1
      <4> QED
        BY ONLY <4>1, <3>0, RestFields DEF CartRequest, Purposes, CartSteps
    <3>2. e.does = "checkout" /\ e.at = "find" /\ e.cart = 0 /\ e.closes = c
      BY RestFields DEF CartRequest
    <3> HIDE DEF e
    <3> QED
      BY <1>1, <3>0, <3>1, <3>2 DEF ShapeOK
  <2>2. /\ UNCHANGED <<carts, ordered, asked>>
        /\ requests' = requests + 1 /\ mixedUp' \in BOOLEAN
        /\ shopper' = [shopper EXCEPT ![s] = e]
    BY <1>7, <1>12 DEF StartCheckout
  <2>3. requests' \in Nat
    BY <1>7, <2>2
  <2> HIDE DEF e
  <2> QED
    BY <1>5, <1>7, <2>1, <2>2, <2>3
<1>13. ASSUME NEW c \in DOMAIN carts, StartMerge(s, c)
       PROVE  ShapeInv' /\ OneMoves(s) /\ Len(carts') >= Len(carts)
  <2> DEFINE e == [AtRest EXCEPT !.does = "merge", !.at = "find", !.byUser = TRUE,
                                 !.closes = c, !.owned = carts[c].user]
  <2>1. ShapeOK(e, k)
    <3>0. carts[c].user \in BOOLEAN /\ c \in 1..k
      BY <1>1, <1>10 DEF CartRow
    <3>1. e \in CartRequest
      <4>1. c \in Nat
        BY <1>1
      <4> QED
        BY ONLY <4>1, <3>0, RestFields DEF CartRequest, Purposes, CartSteps
    <3>2. e.does = "merge" /\ e.at = "find" /\ e.cart = 0 /\ e.closes = c
      BY RestFields DEF CartRequest
    <3> HIDE DEF e
    <3> QED
      BY <1>1, <3>0, <3>1, <3>2 DEF ShapeOK
  <2>2. /\ UNCHANGED <<carts, ordered, asked>>
        /\ requests' = requests + 1 /\ mixedUp' \in BOOLEAN
        /\ shopper' = [shopper EXCEPT ![s] = e]
    BY <1>13 DEF StartMerge
  <2>3. requests' \in Nat
    BY <1>7, <2>2
  <2> HIDE DEF e
  <2> QED
    BY <1>5, <1>7, <2>1, <2>2, <2>3
<1>14. CASE GetOrCreateCart(s)
  <2>1. UNCHANGED <<carts, requests, asked, ordered, mixedUp>> /\ r.at = "find"
    BY <1>14 DEF GetOrCreateCart
  <2>2. CASE shopper' = [shopper EXCEPT ![s].at = "create"]
    <3> DEFINE e == [r EXCEPT !.at = "create"]
    <3>1. ShapeOK(e, k)
      BY <1>2, <2>1 DEF ShapeOK, CartRequest, CartSteps
    <3>2. shopper' = [shopper EXCEPT ![s] = e]
      BY <2>2
    <3> QED
      BY <1>5, <1>7, <2>1, <3>1, <3>2
  <2>3. ASSUME NEW c \in Candidates(s),
               shopper' = [shopper EXCEPT
                 ![s].cart = c,
                 ![s].owned = IF r.does = "merge" THEN @ ELSE carts[c].user,
                 ![s].at = IF r.byUser /\ ~carts[c].user THEN "attach" ELSE "read"]
        PROVE ShapeInv' /\ OneMoves(s) /\ Len(carts') >= Len(carts)
    <3> DEFINE e == [r EXCEPT !.cart = c,
                              !.owned = IF r.does = "merge" THEN @ ELSE carts[c].user,
                              !.at = IF r.byUser /\ ~carts[c].user THEN "attach" ELSE "read"]
    <3>1. c \in 1..k /\ carts[c] \in CartRow
      BY <1>1 DEF Candidates, OpenOfUser, ShapeInv
    <3>2. ShapeOK(e, k)
      <4>1. e \in CartRequest
        <5>1. carts[c].user \in BOOLEAN /\ c \in Nat
          BY <1>1, <3>1 DEF CartRow
        <5> QED
          BY <1>9, <5>1 DEF CartRequest, CartSteps
      <4>2. /\ e.cart = c /\ e.at \in {"attach", "read"}
            /\ e.does = r.does /\ e.closes = r.closes
        BY <1>2, <3>1 DEF CartRequest, CartRow
      <4>3. r.closes <= k /\ (r.does \in {"merge", "checkout"} <=> r.closes # 0)
        BY <1>2, <2>1 DEF ShapeOK
      <4> HIDE DEF e
      <4> QED
        BY <1>1, <3>1, <4>1, <4>2, <4>3 DEF ShapeOK
    <3>3. shopper' = [shopper EXCEPT ![s] = e]
      BY <1>8, <2>3 DEF CartRequest
    <3> QED
      BY <1>5, <1>7, <2>1, <3>2, <3>3
  <2> QED
    BY <1>14, <2>2, <2>3 DEF GetOrCreateCart
<1>15. CASE CreateCart(s)
  <2> DEFINE row == NewCart(r.byUser, ~ WithoutSession(s))
             e == [r EXCEPT !.at = "read", !.cart = k + 1,
                            !.owned = IF r.does = "merge" THEN @ ELSE r.byUser]
  <2>1. r.at = "create" /\ carts' = Append(carts, row) /\ UNCHANGED <<requests, asked, ordered, mixedUp>>
    BY <1>15 DEF CreateCart
  <2>2. row \in CartRow
    BY <1>2 DEF NewCart, CartRow, CartRequest
  <2>3. carts' \in Seq(CartRow) /\ Len(carts') = k + 1
    BY <1>1, <2>1, <2>2 DEF ShapeInv, k
  <2>4. ShapeOK(e, k + 1)
    <3>1. e \in CartRequest
      <4>1. k + 1 \in Nat
        BY <1>1
      <4> QED
        BY <1>9, <4>1 DEF CartRequest, CartSteps
    <3>2. e.cart = k + 1 /\ e.at = "read" /\ e.does = r.does /\ e.closes = r.closes
      BY <1>2 DEF CartRequest
    <3>3. /\ r.closes <= k /\ r.closes \in Nat
          /\ r.does \in {"merge", "checkout"} <=> r.closes # 0
      BY <1>2, <2>1 DEF ShapeOK, CartRequest
    <3>4. r.closes <= k + 1 /\ k + 1 # 0
      BY <1>1, <3>3
    <3> HIDE DEF e
    <3> QED
      BY <1>1, <3>1, <3>2, <3>3, <3>4 DEF ShapeOK
  <2>5. shopper' = [shopper EXCEPT ![s] = e]
    BY <1>8, <1>15, <2>3 DEF CreateCart, CartRequest
  <2>6. \E x : shopper' = [shopper EXCEPT ![s] = x] /\ ShapeOK(x, Len(carts'))
    BY <2>3, <2>4, <2>5
  <2>7. Len(carts') >= Len(carts)
    BY <1>1, <2>3 DEF k
  <2>8. requests' \in Nat /\ asked' \in Nat /\ ordered' \in Nat /\ mixedUp' \in BOOLEAN
    BY <1>7, <2>1
  <2> QED
    BY ONLY ShapeInv, s \in Shoppers, <2>3, <2>6, <2>7, <2>8, ShapeStep
<1>16. CASE Attach(s)
  <2> DEFINE e == [r EXCEPT !.at = "read", !.owned = TRUE]
             row == [carts[r.cart] EXCEPT !.user = TRUE, !.status = "open"]
  <2>1. /\ r.at = "attach" /\ UNCHANGED <<requests, asked, ordered>>
        /\ carts' = [carts EXCEPT ![r.cart] = row] /\ mixedUp' \in BOOLEAN
        /\ shopper' = [shopper EXCEPT ![s] = e]
    BY <1>16 DEF Attach, SaveCart
  <2>2. ShapeOK(e, k)
    BY <1>1, <1>2, <2>1 DEF ShapeOK, CartRequest, CartSteps
  <2>3. row \in CartRow /\ r.cart \in 1..k
    BY <1>3, <2>1 DEF CartRow
  <2> QED
    BY <1>6, <1>7, <2>1, <2>2, <2>3
<1>17. CASE SaveCoupon(s)
  <2> DEFINE row == [carts[r.cart] EXCEPT !.user = r.owned, !.status = "open"]
  <2>1. /\ r.at = "read" /\ UNCHANGED <<requests, asked, ordered>>
        /\ carts' = [carts EXCEPT ![r.cart] = row] /\ mixedUp' \in BOOLEAN
        /\ shopper' = [shopper EXCEPT ![s] = AtRest]
    BY <1>17 DEF SaveCoupon, SaveCart
  <2>2. row \in CartRow /\ r.cart \in 1..k
    BY <1>2, <1>3, <2>1 DEF CartRow, CartRequest
  <2> QED
    BY <1>2, <1>6, <1>7, <2>1, <2>2
<1>18. CASE RemoveItem(s)
  <2> DEFINE row == [carts[r.cart] EXCEPT !.units = 0]
  <2>1. /\ r.at = "read" /\ UNCHANGED <<requests, asked, ordered, mixedUp>>
        /\ carts' = [carts EXCEPT ![r.cart] = row]
        /\ shopper' = [shopper EXCEPT ![s] = AtRest]
    BY <1>18 DEF RemoveItem
  <2>2. row \in CartRow /\ r.cart \in 1..k
    BY <1>3, <2>1 DEF CartRow
  <2> QED
    BY <1>2, <1>6, <1>7, <2>1, <2>2
<1>19. CASE ReadGuest(s)
  <2>1. r.does = "merge" /\ r.at = "read" /\ UNCHANGED <<carts, requests, asked, ordered, mixedUp>>
    BY <1>19 DEF ReadGuest
  <2>2. CASE r.closes = r.cart
    <3>1. shopper' = [shopper EXCEPT ![s] = AtRest]
      BY <1>19, <2>2 DEF ReadGuest
    <3> QED
      BY <1>2, <1>5, <1>7, <2>1, <3>1
  <2>3. CASE r.closes # r.cart
    <3> DEFINE e == [r EXCEPT !.n = carts[r.closes].units,
                              !.at = IF carts[r.closes].units = 0 THEN "close" ELSE "item"]
    <3>1. shopper' = [shopper EXCEPT ![s] = e]
      BY <1>8, <1>19, <2>3 DEF ReadGuest, CartRequest
    <3>2. ShapeOK(e, k)
      BY <1>1, <1>2, <1>4, <2>1, <2>3 DEF ShapeOK, CartRequest, CartSteps, CartRow
    <3> QED
      BY <1>5, <1>7, <2>1, <3>1, <3>2
  <2> QED
    BY <2>2, <2>3
<1>20. CASE ReadItem(s)
  <2> DEFINE e == [r EXCEPT !.seen = carts[r.cart].units, !.at = "save"]
  <2>1. /\ r.does \in {"add", "merge", "set"} /\ r.at \in {"read", "item"}
        /\ r.does = "merge" => r.at = "item"
        /\ UNCHANGED <<carts, requests, asked, ordered, mixedUp>>
        /\ shopper' = [shopper EXCEPT ![s] = e]
    BY <1>20 DEF ReadItem
  <2>2. ShapeOK(e, k)
    BY <1>1, <1>2, <1>3, <2>1 DEF ShapeOK, CartRequest, CartSteps, CartRow
  <2> QED
    BY <1>5, <1>7, <2>1, <2>2
<1>21. CASE SaveItem(s)
  <2> DEFINE row == [carts[r.cart] EXCEPT !.units = NextQuantity(r)]
             e == IF r.does = "merge" THEN [r EXCEPT !.at = "close"] ELSE AtRest
  <2>1. /\ r.at = "save" /\ UNCHANGED <<requests, asked, ordered, mixedUp>>
        /\ carts' = [carts EXCEPT ![r.cart] = row]
        /\ shopper' = [shopper EXCEPT ![s] = e]
    BY <1>21 DEF SaveItem
  <2>2. ShapeOK(e, k)
    BY <1>1, <1>2, <2>1 DEF ShapeOK, CartRequest, CartSteps
  <2>3. r.does \in {"add", "set", "merge"}
    BY <1>2, <2>1 DEF ShapeOK
  <2>4. NextQuantity(r) \in Nat
    BY <1>2, <2>3, CartAssumption DEF NextQuantity, Smaller, CartRequest
  <2>5. row \in CartRow /\ r.cart \in 1..k
    BY <1>3, <2>1, <2>4 DEF CartRow
  <2> HIDE DEF row, e
  <2> QED
    BY <1>6, <1>7, <2>1, <2>2, <2>5
<1>22. CASE CloseGuest(s)
  <2> DEFINE row == [carts[r.closes] EXCEPT !.user = r.owned, !.status = "merged"]
  <2>1. /\ r.does = "merge" /\ UNCHANGED <<requests, asked, ordered>>
        /\ carts' = [carts EXCEPT ![r.closes] = row] /\ mixedUp' \in BOOLEAN
        /\ shopper' = [shopper EXCEPT ![s] = AtRest]
    BY <1>22 DEF CloseGuest, SaveCart
  <2>2. row \in CartRow /\ r.closes \in 1..k
    BY <1>2, <1>4, <2>1 DEF CartRow, CartRequest
  <2> QED
    BY <1>2, <1>6, <1>7, <2>1, <2>2
<1>23. CASE MarkConverted(s)
  <2> DEFINE row == [carts[r.closes] EXCEPT !.status = "converted"]
  <2>1. /\ r.does = "checkout" /\ UNCHANGED <<requests, asked, mixedUp>>
        /\ carts' = [carts EXCEPT ![r.closes] = row] /\ ordered' = ordered + r.seen
        /\ shopper' = [shopper EXCEPT ![s] = AtRest]
    BY <1>23 DEF MarkConverted
  <2>2. row \in CartRow /\ r.closes \in 1..k /\ r.seen \in Nat
    BY <1>2, <1>4, <2>1 DEF CartRow, CartRequest
  <2>3. requests' \in Nat /\ asked' \in Nat /\ ordered' \in Nat /\ mixedUp' \in BOOLEAN
    BY <1>7, <2>1, <2>2
  <2> HIDE DEF row
  <2> QED
    BY <1>2, <1>6, <2>1, <2>2, <2>3
<1>24. CASE ShopperFails(s)
  <2>1. /\ UNCHANGED <<carts, requests, asked, ordered>> /\ mixedUp' \in BOOLEAN
        /\ shopper' = [shopper EXCEPT ![s] = AtRest]
    BY <1>24 DEF ShopperFails
  <2> QED
    BY <1>2, <1>5, <1>7, <2>1
<1>25. CASE ReadOrder(s)
  <2> DEFINE e == [r EXCEPT !.seen = carts[r.cart].units, !.at = "convert"]
  <2>1. /\ r.does = "checkout" /\ r.at = "read"
        /\ UNCHANGED <<carts, requests, asked, ordered>> /\ mixedUp' \in BOOLEAN
        /\ shopper' = [shopper EXCEPT ![s] = e]
    BY <1>25 DEF ReadOrder
  <2>2. ShapeOK(e, k)
    BY <1>1, <1>2, <1>3, <2>1 DEF ShapeOK, CartRequest, CartSteps, CartRow
  <2> QED
    BY <1>5, <1>7, <2>1, <2>2
<1> QED
  BY <1>11, <1>12, <1>13, <1>14, <1>15, <1>16, <1>17, <1>18, <1>19, <1>20, <1>21, <1>22,
     <1>23, <1>24, <1>25 DEF ShopperStep

-----------------------------------------------------------------------------
\* What a request empties is a cart.
LEMMA EmptiedCart ==
  ASSUME ShapeInv, NEW t \in Shoppers, NEW c, Emptying(t, c)
  PROVE  c \in DOMAIN carts
<1>1. ShapeOK(shopper[t], Len(carts)) /\ Len(carts) \in Nat /\ DOMAIN carts = 1..Len(carts)
  BY DEF ShapeInv
<1>2. CASE Goal(t, "checkout", "convert") /\ shopper[t].cart = c
  BY <1>1, <1>2 DEF ShapeOK, CartRequest, Goal
<1>3. CASE Merging(t) /\ shopper[t].closes = c
  BY <1>1, <1>3 DEF ShapeOK, CartRequest, Merging
<1> QED
  BY <1>2, <1>3 DEF Emptying

\* A step that begins to empty no cart, and closes only one it was emptying.
LEMMA OneStep ==
  ASSUME ShapeInv, ShapeInv', OneEmpties, NEW s \in Shoppers, OneMoves(s),
         Len(carts') >= Len(carts),
         \A c : Emptying(s, c)' => Emptying(s, c) /\ shopper'[s].closes = shopper[s].closes,
         \A c \in DOMAIN carts : carts[c].status = "open" =>
            carts'[c].status = "open" \/ (Emptying(s, c) /\ ~ Emptying(s, c)')
  PROVE  OneEmpties'
<1>1. \A t \in Shoppers : \A c :
        Emptying(t, c)' => Emptying(t, c) /\ shopper'[t].closes = shopper[t].closes
  BY DEF OneMoves, Emptying, Goal, Merging
<1> SUFFICES ASSUME NEW t \in Shoppers, NEW c, Emptying(t, c)'
             PROVE  /\ carts'[c].status = "open" /\ shopper'[t].closes = c
                    /\ \A u \in Shoppers : Emptying(u, c)' => u = t
  BY DEF OneEmpties
<1>2. Emptying(t, c) /\ shopper'[t].closes = shopper[t].closes /\ c \in DOMAIN carts
  BY <1>1, EmptiedCart
<1>3. /\ carts[c].status = "open" /\ shopper[t].closes = c
      /\ \A u \in Shoppers : Emptying(u, c) => u = t
  BY <1>2 DEF OneEmpties
<1>4. \A u \in Shoppers : Emptying(u, c)' => u = t
  BY <1>1, <1>3
<1>5. ~ (Emptying(s, c) /\ ~ Emptying(s, c)')
  BY <1>3
<1>6. carts'[c].status = "open"
  BY <1>2, <1>3, <1>5
<1> QED
  BY <1>2, <1>3, <1>4, <1>6

\* A step that begins to empty one cart, which is open and which no other empties.
LEMMA OneMore ==
  ASSUME ShapeInv, OneEmpties, NEW s \in Shoppers, OneMoves(s), UNCHANGED carts,
         NEW g \in DOMAIN carts, carts[g].status = "open", shopper'[s].closes = g,
         \A t \in Shoppers : ~ Emptying(t, g),
         \A c : Emptying(s, c)' => c = g
  PROVE  OneEmpties'
<1> SUFFICES ASSUME NEW t \in Shoppers, NEW c \in DOMAIN carts, Emptying(t, c)'
             PROVE  /\ carts[c].status = "open" /\ shopper'[t].closes = c
                    /\ \A u \in Shoppers : Emptying(u, c)' => u = t
  BY DEF OneEmpties
<1>1. \A u \in Shoppers : u # s =>
        (Emptying(u, c)' <=> Emptying(u, c)) /\ shopper'[u] = shopper[u]
  BY DEF OneMoves, Emptying, Goal, Merging
<1>2. CASE t = s
  <2>1. c = g
    BY <1>2
  <2> QED
    BY <1>1, <1>2, <2>1
<1>3. CASE t # s
  <2>1. Emptying(t, c)
    BY <1>1, <1>3
  <2>2. c # g
    BY <2>1
  <2> QED
    BY <1>1, <1>3, <2>1, <2>2 DEF OneEmpties
<1> QED
  BY <1>2, <1>3

\* A step that gives no cart more units, and remembers no more than it has read.
LEMMA CalmStep ==
  ASSUME ShapeInv, ShapeInv', Shares, NEW s \in Shoppers, OneMoves(s),
         Len(carts') = Len(carts),
         \A c \in DOMAIN carts : carts'[c].status = "open" =>
            carts[c].status = "open" /\ ~ Closing(s, c) /\ carts'[c].units <= carts[c].units,
         ordered' = ordered,
         asked + Wanted(shopper'[s]) <= asked' + Wanted(shopper[s]),
         \A c \in DOMAIN carts, k \in Nat :
            carts[c].units <= k /\ KnowsAtMost(shopper[s], c, k) => KnowsAtMost(shopper'[s], c, k)
  PROVE  Shares'
<1>1. PICK a \in [DOMAIN carts -> Nat] : Enough(a) /\ Afforded(a)
  BY DEF Shares
<1>2. DOMAIN carts' = DOMAIN carts
  BY DEF ShapeInv
<1>3. Enough(a)'
  <2> SUFFICES ASSUME NEW c \in DOMAIN carts, Live(c)'
               PROVE  /\ carts'[c].units <= a[c]
                      /\ \A t \in Shoppers : KnowsAtMost(shopper'[t], c, a[c])
    BY <1>2 DEF Enough, KnowsAtMost
  <2>1. carts'[c].status = "open" /\ \A t \in Shoppers : ~ Closing(t, c)'
    BY DEF Live
  <2>2. \A t \in Shoppers : ~ Closing(t, c)
    BY <2>1 DEF OneMoves, Closing, Goal
  <2>3. Live(c) /\ carts'[c].units <= carts[c].units
    BY <2>1, <2>2 DEF Live
  <2>4. carts[c].units <= a[c] /\ \A t \in Shoppers : KnowsAtMost(shopper[t], c, a[c])
    BY <1>1, <2>3 DEF Enough
  <2>5. a[c] \in Nat /\ carts[c].units \in Nat /\ carts'[c].units \in Nat
    <3>1. carts[c] \in CartRow /\ carts'[c] \in CartRow
      BY <1>2 DEF ShapeInv
    <3> QED
      BY <3>1 DEF CartRow
  <2>6. KnowsAtMost(shopper'[s], c, a[c])
    BY <2>4, <2>5
  <2>7. \A t \in Shoppers : KnowsAtMost(shopper'[t], c, a[c])
    BY <2>4, <2>6 DEF OneMoves
  <2> QED
    BY <2>3, <2>4, <2>5, <2>7
<1>4. Afforded(a)'
  <2>1. AllWanted' = AllWanted - Wanted(shopper[s]) + Wanted(shopper'[s])
    BY WantedStep DEF ShapeInv
  <2>2. SumFunctionOnSet(a, DOMAIN carts) \in Nat /\ AllWanted \in Nat
    BY <1>1, CartSums
  <2>3. Wanted(shopper[s]) \in Nat /\ Wanted(shopper'[s]) \in Nat
    BY DEF ShapeInv, CartRequest, Wanted
  <2>4. asked \in Nat /\ ordered \in Nat /\ asked' \in Nat
    BY DEF ShapeInv
  <2>5. ordered + SumFunctionOnSet(a, DOMAIN carts) + AllWanted <= asked
    BY <1>1 DEF Afforded
  <2>6. ordered' + SumFunctionOnSet(a, DOMAIN carts) + AllWanted' <= asked'
    BY <2>1, <2>2, <2>3, <2>4, <2>5
  <2> QED
    BY <1>2, <2>6 DEF Afforded
<1> QED
  BY <1>2, <1>3, <1>4 DEF Shares

\* A cart that one request empties can be ordered until it is closed.
LEMMA EmptiedLive ==
  ASSUME ShapeInv, OneEmpties, NEW s \in Shoppers, NEW c, Emptying(s, c), shopper[s].at # "close"
  PROVE  c \in DOMAIN carts /\ Live(c)
<1>1. c \in DOMAIN carts
  BY EmptiedCart
<1>2. carts[c].status = "open" /\ \A t \in Shoppers : Emptying(t, c) => t = s
  BY <1>1 DEF OneEmpties
<1>3. ASSUME NEW t \in Shoppers, Closing(t, c) PROVE FALSE
  <2>1. Emptying(t, c) /\ shopper[t].at = "close"
    BY <1>3 DEF Closing, Emptying, Goal, Merging
  <2> QED
    BY <1>2, <2>1
<1> QED
  BY <1>1, <1>2, <1>3 DEF Live

\* The requests come: a merge begins to empty a cart that no other one empties, or
\* else the step is recorded.
LEMMA ComeStep ==
  ASSUME ShapeInv, ShapeInv', OneEmpties, Shares, ~ mixedUp', NEW s \in Shoppers, OneMoves(s),
         \/ \E does \in {"add", "set", "remove", "coupon"}, byUser \in BOOLEAN : StartItem(s, does, byUser)
         \/ \E c \in DOMAIN carts : StartCheckout(s, c) \/ StartMerge(s, c)
  PROVE  OneEmpties' /\ Shares'
<1> DEFINE e == shopper'[s]
<1>1. UNCHANGED <<carts, ordered>> /\ shopper[s] = AtRest
  BY DEF StartItem, StartCheckout, StartMerge, Comes
<1>2. /\ Len(carts') = Len(carts) /\ Len(carts') >= Len(carts)
      /\ \A c \in DOMAIN carts : carts[c].units <= carts[c].units /\ ~ Closing(s, c)
  <2>1. Len(carts) \in Nat /\ \A c \in DOMAIN carts : carts[c] \in CartRow
    BY DEF ShapeInv
  <2>2. \A c \in DOMAIN carts : carts[c].units <= carts[c].units
    BY <2>1 DEF CartRow
  <2>3. \A c \in DOMAIN carts : ~ Closing(s, c)
    BY <1>1 DEF Closing, Goal, AtRest
  <2> QED
    BY <1>1, <2>1, <2>2, <2>3
<1>3. shopper \in [Shoppers -> CartRequest] /\ asked \in Nat /\ Wanted(shopper[s]) = 0
  BY <1>1 DEF ShapeInv, Wanted, AtRest
<1>4. ASSUME NEW does \in {"add", "set", "remove", "coupon"}, NEW byUser \in BOOLEAN,
             StartItem(s, does, byUser)
      PROVE  OneEmpties' /\ Shares'
  <2> DEFINE n == IF does \in {"add", "set"} THEN 1 ELSE 0
  <2>1. e = [AtRest EXCEPT !.does = does, !.at = "find", !.byUser = byUser, !.n = n] /\ asked' = asked + n
    BY <1>3, <1>4 DEF StartItem, Comes
  <2>2. e.does = does /\ e.at = "find" /\ e.n = n
    BY <2>1, RestFields DEF CartRequest
  <2>3. \A c : ~ Emptying(s, c)'
    BY <2>2 DEF Emptying, Goal, Merging
  <2>4. OneEmpties'
    BY <1>1, <1>2, <2>3, OneStep
  <2>5. Wanted(e) = n
    BY <2>2 DEF Wanted
  <2>6. asked + Wanted(shopper'[s]) <= asked' + Wanted(shopper[s])
    BY <1>3, <2>1, <2>5
  <2>7. \A c \in DOMAIN carts, k \in Nat : KnowsAtMost(shopper'[s], c, k)
    BY <2>2 DEF KnowsAtMost
  <2> HIDE DEF e, n
  <2>8. Shares'
    BY <1>1, <1>2, <2>6, <2>7, CalmStep
  <2> QED
    BY <2>4, <2>8
<1>5. ASSUME NEW g \in DOMAIN carts, StartCheckout(s, g)
      PROVE  OneEmpties' /\ Shares'
  <2>1. /\ e = [AtRest EXCEPT !.does = "checkout", !.at = "find", !.byUser = TRUE, !.closes = g]
        /\ asked' = asked
    BY <1>3, <1>5 DEF StartCheckout, Comes
  <2>2. e.does = "checkout" /\ e.at = "find"
    BY <2>1, RestFields DEF CartRequest
  <2>3. \A c : ~ Emptying(s, c)'
    BY <2>2 DEF Emptying, Goal, Merging
  <2>4. OneEmpties'
    BY <1>1, <1>2, <2>3, OneStep
  <2>5. asked + Wanted(shopper'[s]) <= asked' + Wanted(shopper[s])
    BY <1>3, <2>1, <2>2 DEF Wanted
  <2>6. \A c \in DOMAIN carts, k \in Nat : KnowsAtMost(shopper'[s], c, k)
    BY <2>2 DEF KnowsAtMost
  <2> HIDE DEF e
  <2>7. Shares'
    BY <1>1, <1>2, <2>5, <2>6, CalmStep
  <2> QED
    BY <2>4, <2>7
<1>6. ASSUME NEW g \in DOMAIN carts, StartMerge(s, g)
      PROVE  OneEmpties' /\ Shares'
  <2>1. /\ carts[g].status = "open" /\ asked' = asked
        /\ \A t \in Shoppers : ~ Emptying(t, g)
    BY <1>6 DEF StartMerge
  <2>2. e = [AtRest EXCEPT !.does = "merge", !.at = "find", !.byUser = TRUE,
                           !.closes = g, !.owned = carts[g].user]
    BY <1>3, <1>6 DEF StartMerge, Comes
  <2>3. e.does = "merge" /\ e.at = "find" /\ e.closes = g
    BY <2>2, RestFields DEF CartRequest
  <2>4. \A c : Emptying(s, c)' => c = g
    BY <2>3 DEF Emptying, Goal, Merging
  <2>5. \A c \in DOMAIN carts, k \in Nat : KnowsAtMost(shopper'[s], c, k)
    BY <2>3 DEF KnowsAtMost
  <2>6. asked + Wanted(shopper'[s]) <= asked' + Wanted(shopper[s])
    BY <1>3, <2>1, <2>3 DEF Wanted
  <2> HIDE DEF e
  <2>7. Shares'
    BY <1>1, <1>2, <2>5, <2>6, CalmStep
  <2>8. OneEmpties'
    BY <1>1, <2>1, <2>3, <2>4, OneMore DEF e
  <2> QED
    BY <2>7, <2>8
<1> QED
  BY <1>4, <1>5, <1>6

\* A checkout has read what it orders: nobody else empties that cart, or else the
\* step is recorded.
LEMMA LookStep ==
  ASSUME ShapeInv, ShapeInv', OneEmpties, Shares, ~ mixedUp', NEW s \in Shoppers, OneMoves(s),
         ReadOrder(s)
  PROVE  OneEmpties' /\ Shares'
<1> DEFINE r == shopper[s]
           e == shopper'[s]
           g == r.cart
<1>1. /\ UNCHANGED <<carts, asked, ordered>> /\ r.does = "checkout" /\ r.at = "read"
      /\ g = r.closes /\ carts[g].status = "open" /\ \A t \in Shoppers : ~ Emptying(t, g)
  BY DEF ReadOrder, Goal
<1>2. /\ r \in CartRequest /\ ShapeOK(r, Len(carts)) /\ shopper \in [Shoppers -> CartRequest]
      /\ asked \in Nat /\ Len(carts) \in Nat /\ DOMAIN carts = 1..Len(carts)
      /\ \A c \in DOMAIN carts : carts[c] \in CartRow
  BY DEF ShapeInv
<1>3. g \in DOMAIN carts
  BY <1>1, <1>2 DEF ShapeOK, CartRequest
<1>4. e = [r EXCEPT !.seen = carts[g].units, !.at = "convert"]
  BY <1>2 DEF ReadOrder
<1>5. /\ e.does = "checkout" /\ e.at = "convert" /\ e.cart = g /\ e.closes = g
      /\ e.seen = carts[g].units
  BY <1>1, <1>2, <1>4 DEF CartRequest
<1> HIDE DEF e, g
<1>6. OneEmpties'
  <2>1. \A c : Emptying(s, c)' => c = g
    BY <1>5 DEF Emptying, Goal, Merging, e
  <2> QED
    BY <1>1, <1>3, <1>5, <2>1, OneMore DEF e
<1>7. Shares'
  <2>1. asked + Wanted(shopper'[s]) <= asked' + Wanted(shopper[s])
    BY <1>1, <1>2, <1>5 DEF Wanted, e
  <2>2. \A c \in DOMAIN carts, k \in Nat : carts[c].units <= k => KnowsAtMost(shopper'[s], c, k)
    BY <1>5 DEF KnowsAtMost, e
  <2>3. \A c \in DOMAIN carts : ~ Closing(s, c) /\ carts[c].units <= carts[c].units
    BY <1>1, <1>2 DEF Closing, Goal, CartRow
  <2> QED
    BY <1>1, <2>1, <2>2, <2>3, CalmStep
<1> QED
  BY <1>6, <1>7

\* The steps that read, and those that save no item, move no units.
LEMMA QuietStep ==
  ASSUME ShapeInv, ShapeInv', OneEmpties, Shares, ~ mixedUp', NEW s \in Shoppers, OneMoves(s),
         Len(carts') >= Len(carts),
         \/ GetOrCreateCart(s) \/ Attach(s) \/ SaveCoupon(s) \/ RemoveItem(s) \/ ReadGuest(s)
         \/ ReadItem(s) \/ CloseGuest(s) \/ ShopperFails(s)
  PROVE  OneEmpties' /\ Shares'
<1> DEFINE r == shopper[s]
           e == shopper'[s]
<1> USE DEF Goal, Merging, Idle
<1>1. /\ r \in CartRequest /\ ShapeOK(r, Len(carts)) /\ shopper \in [Shoppers -> CartRequest]
      /\ asked \in Nat /\ Len(carts) \in Nat /\ DOMAIN carts = 1..Len(carts)
      /\ \A c \in DOMAIN carts : carts[c] \in CartRow /\ carts[c].units \in Nat
  <2>1. \A c \in DOMAIN carts : carts[c] \in CartRow
    BY DEF ShapeInv
  <2>2. \A c \in DOMAIN carts : carts[c].units \in Nat
    BY <2>1 DEF CartRow
  <2> QED
    BY <2>1, <2>2 DEF ShapeInv
<1>2. ASSUME asked' = asked, ordered' = ordered, Len(carts') = Len(carts),
             \A c : Emptying(s, c)' => Emptying(s, c) /\ e.closes = r.closes,
             \A c \in DOMAIN carts : carts[c].status = "open" =>
                carts'[c].status = "open" \/ (Emptying(s, c) /\ ~ Emptying(s, c)'),
             \A c \in DOMAIN carts : carts'[c].status = "open" =>
                carts[c].status = "open" /\ ~ Closing(s, c) /\ carts'[c].units <= carts[c].units,
             Wanted(e) <= Wanted(r),
             \A c \in DOMAIN carts, k \in Nat :
                carts[c].units <= k /\ KnowsAtMost(r, c, k) => KnowsAtMost(e, c, k)
      PROVE  OneEmpties' /\ Shares'
  <2>1. OneEmpties'
    BY <1>2, OneStep
  <2>2. asked + Wanted(shopper'[s]) <= asked' + Wanted(shopper[s])
    <3>1. Wanted(r) \in Nat /\ Wanted(e) \in Nat
      BY DEF ShapeInv, CartRequest, Wanted
    <3> QED
      BY <1>1, <1>2, <3>1
  <2>3. Shares'
    BY <1>2, <2>2, CalmStep
  <2> QED
    BY <2>1, <2>3
<1>3. ASSUME e = AtRest
      PROVE  /\ \A c : ~ Emptying(s, c)'
             /\ \A c, k : KnowsAtMost(e, c, k)
             /\ Wanted(e) <= Wanted(r)
  <2>1. Wanted(r) \in Nat
    BY <1>1 DEF CartRequest, Wanted
  <2> QED
    BY <1>3, <2>1, RestFields DEF Emptying, KnowsAtMost, Wanted
<1>4. ASSUME e.does = r.does, e.n = r.n, e.closes = r.closes, e.at \in {"create", "attach", "read"}
      PROVE  /\ \A c : Emptying(s, c)' => Emptying(s, c) /\ e.closes = r.closes
             /\ \A c, k : KnowsAtMost(e, c, k)
             /\ Wanted(e) <= Wanted(r)
  <2>1. Wanted(r) \in Nat
    BY <1>1 DEF CartRequest, Wanted
  <2> QED
    BY <1>4, <2>1 DEF Emptying, KnowsAtMost, Wanted
<1>5. ASSUME UNCHANGED carts, r.at # "close"
      PROVE  /\ Len(carts') = Len(carts)
             /\ \A c \in DOMAIN carts : carts'[c].status = carts[c].status
             /\ \A c \in DOMAIN carts : ~ Closing(s, c) /\ carts'[c].units <= carts[c].units
  BY <1>1, <1>5 DEF Closing
<1>6. ASSUME NEW g \in DOMAIN carts, NEW user, SaveCart(g, user, "open")
      PROVE  /\ Len(carts') = Len(carts)
             /\ \A c \in DOMAIN carts : carts'[c].status = carts[c].status
             /\ \A c \in DOMAIN carts : carts'[c].units <= carts[c].units
  <2>1. carts[g].status = "open"
    BY <1>6 DEF SaveCart
  <2>2. carts' = [carts EXCEPT ![g] = [carts[g] EXCEPT !.user = user, !.status = "open"]]
    BY <1>6 DEF SaveCart
  <2>3. \A c \in DOMAIN carts : carts'[c].status = carts[c].status /\ carts'[c].units = carts[c].units
    BY <1>1, <2>1, <2>2 DEF CartRow
  <2> QED
    BY <1>1, <2>2, <2>3
<1>7. r.at \in {"attach", "read", "item", "save", "close", "convert"} => r.cart \in DOMAIN carts
  BY <1>1 DEF ShapeOK, CartRequest
<1>11. CASE GetOrCreateCart(s)
  <2>1. /\ UNCHANGED <<carts, asked, ordered>> /\ r.at = "find"
        /\ e.does = r.does /\ e.n = r.n /\ e.closes = r.closes /\ e.at \in {"create", "attach", "read"}
    <3>1. UNCHANGED <<carts, asked, ordered>> /\ r.at = "find"
      BY <1>11 DEF GetOrCreateCart
    <3>2. CASE shopper' = [shopper EXCEPT ![s].at = "create"]
      BY <1>1, <3>1, <3>2 DEF CartRequest
    <3>3. ASSUME NEW c \in Candidates(s),
                 shopper' = [shopper EXCEPT
                   ![s].cart = c,
                   ![s].owned = IF r.does = "merge" THEN @ ELSE carts[c].user,
                   ![s].at = IF r.byUser /\ ~carts[c].user THEN "attach" ELSE "read"]
          PROVE  e.does = r.does /\ e.n = r.n /\ e.closes = r.closes /\ e.at \in {"attach", "read"}
      <4>1. e = [r EXCEPT !.cart = c,
                          !.owned = IF r.does = "merge" THEN @ ELSE carts[c].user,
                          !.at = IF r.byUser /\ ~carts[c].user THEN "attach" ELSE "read"]
        BY <1>1, <3>3 DEF CartRequest
      <4>2. r \in CartRequest
        BY <1>1
      <4> HIDE DEF r, e
      <4> QED
        BY ONLY <4>1, <4>2 DEF CartRequest
    <3> QED
      BY <1>11, <3>1, <3>2, <3>3 DEF GetOrCreateCart
  <2> HIDE DEF r, e
  <2> QED
    BY <1>2, <1>4, <1>5, <2>1
<1>12. CASE Attach(s)
  <2>1. /\ UNCHANGED <<asked, ordered>> /\ r.at = "attach" /\ SaveCart(r.cart, TRUE, "open")
        /\ e.does = r.does /\ e.n = r.n /\ e.closes = r.closes /\ e.at = "read"
    BY <1>1, <1>12 DEF Attach, CartRequest
  <2>2. \A c : ~ Closing(s, c)
    BY <2>1 DEF Closing
  <2> HIDE DEF r, e
  <2> QED
    BY <1>2, <1>4, <1>6, <1>7, <2>1, <2>2
<1>13. CASE SaveCoupon(s)
  <2>1. /\ UNCHANGED <<asked, ordered>> /\ r.at = "read" /\ SaveCart(r.cart, r.owned, "open")
        /\ e = AtRest
    BY <1>1, <1>13 DEF SaveCoupon
  <2>2. \A c : ~ Closing(s, c)
    BY <2>1 DEF Closing
  <2> HIDE DEF r, e
  <2> QED
    BY <1>2, <1>3, <1>6, <1>7, <2>1, <2>2
<1>14. CASE RemoveItem(s)
  <2>1. /\ UNCHANGED <<asked, ordered>> /\ r.at = "read" /\ e = AtRest
        /\ carts' = [carts EXCEPT ![r.cart] = [carts[r.cart] EXCEPT !.units = 0]]
    BY <1>1, <1>14 DEF RemoveItem
  <2>2. \A c : ~ Closing(s, c)
    BY <2>1 DEF Closing
  <2>3. r.cart \in DOMAIN carts
    BY <1>7, <2>1
  <2>4. /\ Len(carts') = Len(carts)
        /\ \A c \in DOMAIN carts : carts'[c].status = carts[c].status
        /\ \A c \in DOMAIN carts : carts'[c].units = carts[c].units \/ carts'[c].units = 0
    BY <1>1, <2>1, <2>3 DEF CartRow
  <2>5. \A c \in DOMAIN carts : carts'[c].units <= carts[c].units
    BY <1>1, <2>4
  <2> HIDE DEF r, e
  <2> QED
    BY <1>2, <1>3, <2>1, <2>2, <2>4, <2>5
<1>15. CASE ReadGuest(s)
  <2>1. UNCHANGED <<carts, asked, ordered>> /\ r.does = "merge" /\ r.at = "read"
    BY <1>15 DEF ReadGuest
  <2>2. CASE r.closes = r.cart
    <3>1. e = AtRest
      BY <1>1, <1>15, <2>2 DEF ReadGuest
    <3> HIDE DEF r, e
    <3> QED
      BY <1>2, <1>3, <1>5, <2>1, <3>1
  <2>3. CASE r.closes # r.cart
    <3>1. /\ e.does = r.does /\ e.closes = r.closes /\ e.n = carts[r.closes].units
          /\ e.at \in {"close", "item"}
      BY <1>1, <1>15, <2>3 DEF ReadGuest, CartRequest
    <3>2. /\ \A c : Emptying(s, c)' => Emptying(s, c) /\ e.closes = r.closes
          /\ Wanted(e) <= Wanted(r)
      BY <2>1, <3>1 DEF Emptying, Wanted
    <3>3. \A c \in DOMAIN carts, k \in Nat : carts[c].units <= k => KnowsAtMost(e, c, k)
      BY <3>1 DEF KnowsAtMost
    <3> HIDE DEF r, e
    <3> QED
      BY <1>2, <1>5, <2>1, <3>2, <3>3
  <2> QED
    BY <2>2, <2>3
<1>16. CASE ReadItem(s)
  <2>1. /\ UNCHANGED <<carts, asked, ordered>> /\ r.at \in {"read", "item"}
        /\ r.does \in {"add", "set", "merge"}
        /\ r.does = "merge" => r.at = "item"
        /\ e.does = r.does /\ e.closes = r.closes /\ e.n = r.n /\ e.cart = r.cart
        /\ e.seen = carts[r.cart].units /\ e.at = "save"
    BY <1>1, <1>16 DEF ReadItem, CartRequest
  <2>2. /\ \A c : Emptying(s, c)' => Emptying(s, c) /\ e.closes = r.closes
        /\ Wanted(e) <= Wanted(r)
    <3>1. Wanted(r) \in Nat
      BY <1>1 DEF CartRequest, Wanted
    <3> QED
      BY <2>1, <3>1 DEF Emptying, Wanted
  <2>3. \A c \in DOMAIN carts, k \in Nat :
          carts[c].units <= k /\ KnowsAtMost(r, c, k) => KnowsAtMost(e, c, k)
    BY <2>1 DEF KnowsAtMost
  <2> HIDE DEF r, e
  <2> QED
    BY <1>2, <1>5, <2>1, <2>2, <2>3
<1>17. CASE CloseGuest(s)
  <2>1. /\ UNCHANGED <<asked, ordered>> /\ r.does = "merge" /\ r.at = "close" /\ e = AtRest
        /\ carts' = [carts EXCEPT ![r.closes] = [carts[r.closes] EXCEPT !.user = r.owned, !.status = "merged"]]
    BY <1>1, <1>17 DEF CloseGuest, SaveCart
  <2>2. r.closes \in DOMAIN carts /\ Emptying(s, r.closes)
    BY <1>1, <2>1 DEF ShapeOK, CartRequest, Emptying
  <2>3. /\ Len(carts') = Len(carts) /\ carts'[r.closes].status = "merged"
        /\ \A c \in DOMAIN carts : c # r.closes => carts'[c] = carts[c]
    BY <1>1, <2>1, <2>2 DEF CartRow
  <2>4. \A c : Closing(s, c) => c = r.closes
    BY DEF Closing
  <2>5. \A c \in DOMAIN carts : carts'[c].status = "open" =>
          carts[c].status = "open" /\ ~ Closing(s, c) /\ carts'[c].units <= carts[c].units
    BY <1>1, <2>3, <2>4
  <2>6. \A c \in DOMAIN carts : carts[c].status = "open" =>
          carts'[c].status = "open" \/ (Emptying(s, c) /\ ~ Emptying(s, c)')
    BY <1>3, <2>1, <2>2, <2>3
  <2> HIDE DEF r, e
  <2> QED
    BY <1>2, <1>3, <2>1, <2>3, <2>5, <2>6
<1>18. CASE ShopperFails(s)
  <2>1. UNCHANGED <<carts, asked, ordered>> /\ e = AtRest /\ ~ (r.does = "merge" /\ r.at = "close")
    BY <1>1, <1>18 DEF ShopperFails
  <2>2. r.at # "close"
    BY <1>1, <2>1 DEF ShapeOK
  <2> HIDE DEF r, e
  <2> QED
    BY <1>2, <1>3, <1>5, <2>1, <2>2
<1> QED
  BY <1>11, <1>12, <1>13, <1>14, <1>15, <1>16, <1>17, <1>18

\* A cart is created: nothing is in it.
LEMMA CreateStep ==
  ASSUME ShapeInv, ShapeInv', OneEmpties, Shares, NEW s \in Shoppers, OneMoves(s),
         Len(carts') >= Len(carts), CreateCart(s)
  PROVE  OneEmpties' /\ Shares'
<1> DEFINE r == shopper[s]
           e == shopper'[s]
           k == Len(carts)
           row == NewCart(r.byUser, ~ WithoutSession(s))
<1>1. /\ r \in CartRequest /\ ShapeOK(r, k) /\ shopper \in [Shoppers -> CartRequest]
      /\ k \in Nat /\ DOMAIN carts = 1..k /\ carts \in Seq(CartRow)
  BY DEF ShapeInv
<1>2. r.at = "create" /\ carts' = Append(carts, row) /\ UNCHANGED <<asked, ordered>>
  BY DEF CreateCart
<1>3. e.at = "read" /\ e.does = r.does /\ e.n = r.n /\ e.closes = r.closes
  <2>1. e = [r EXCEPT !.at = "read", !.cart = Len(carts'),
                      !.owned = IF Merging(s) THEN @ ELSE r.byUser]
    BY <1>1 DEF CreateCart, CartRequest
  <2>2. r \in CartRequest
    BY <1>1
  <2> HIDE DEF r, e
  <2> QED
    BY ONLY <2>1, <2>2 DEF CartRequest
<1>4. row \in CartRow /\ row.units = 0
  BY <1>1 DEF NewCart, CartRow, CartRequest
<1>5. /\ Len(carts') = k + 1 /\ DOMAIN carts' = 1..(k + 1) /\ carts'[k + 1] = row
      /\ \A c \in 1..k : carts'[c] = carts[c]
  <2> HIDE DEF row, k
  <2>1. /\ Len(carts') = Len(carts) + 1 /\ DOMAIN carts' = 1..(Len(carts) + 1)
        /\ carts'[Len(carts) + 1] = row /\ \A c \in 1..Len(carts) : carts'[c] = carts[c]
    BY <1>1, <1>2, <1>4
  <2> QED
    BY <2>1 DEF k
<1> HIDE DEF row
<1>7. OneEmpties'
  <2>1. \A c : Emptying(s, c)' => Emptying(s, c) /\ e.closes = r.closes
    BY <1>3 DEF Emptying, Goal, Merging
  <2>2. \A c \in DOMAIN carts : carts[c].status = "open" => carts'[c].status = "open"
    BY <1>1, <1>5
  <2> QED
    BY <2>1, <2>2, OneStep
<1>8. PICK a \in [DOMAIN carts -> Nat] : Enough(a) /\ Afforded(a)
  BY DEF Shares
<1>9. PICK b \in [DOMAIN carts' -> Nat] :
        b[k + 1] = 0 /\ \A c \in 1..k : b[c] = a[c] /\ a[c] \in Nat
  <2> DEFINE z == [c \in 1..(k + 1) |-> IF c = k + 1 THEN 0 ELSE a[c]]
  <2>1. \A c \in 1..k : a[c] \in Nat
    BY <1>1, <1>8
  <2>2. \A c \in 1..(k + 1) : c # k + 1 => c \in 1..k
    BY <1>1
  <2>3. z \in [1..(k + 1) -> Nat]
    BY <2>1, <2>2
  <2>4. z[k + 1] = 0 /\ \A c \in 1..k : z[c] = a[c]
    BY <1>1
  <2> HIDE DEF z
  <2> QED
    BY <1>5, <2>1, <2>3, <2>4
<1>10. Enough(b)'
  <2> SUFFICES ASSUME NEW c \in DOMAIN carts', Live(c)'
               PROVE  /\ carts'[c].units <= b[c]
                      /\ \A t \in Shoppers : KnowsAtMost(shopper'[t], c, b[c])
    BY DEF Enough, KnowsAtMost
  <2>1. KnowsAtMost(shopper'[s], c, b[c])
    BY <1>3 DEF KnowsAtMost
  <2>2. CASE c = k + 1
    <3>1. carts'[c].units <= b[c]
      BY <1>4, <1>5, <1>9, <2>2
    <3>2. ASSUME NEW t \in Shoppers, t # s PROVE KnowsAtMost(shopper'[t], c, b[c])
      <4>1. shopper'[t] = shopper[t] /\ ShapeOK(shopper[t], k) /\ shopper[t] \in CartRequest
        BY <1>1, <3>2 DEF OneMoves, ShapeInv
      <4>2. shopper[t].cart \in Nat /\ shopper[t].closes \in Nat
        BY <4>1 DEF CartRequest
      <4>3. shopper[t].cart # c /\ shopper[t].closes # c
        BY <1>1, <2>2, <4>1, <4>2 DEF ShapeOK
      <4> QED
        BY <4>1, <4>3 DEF KnowsAtMost
    <3> QED
      BY <2>1, <3>1, <3>2
  <2>3. CASE c # k + 1
    <3>1. c \in DOMAIN carts /\ carts'[c] = carts[c] /\ b[c] = a[c]
      BY <1>1, <1>5, <1>9, <2>3
    <3>2. \A t \in Shoppers : ~ Closing(t, c)
      <4>1. ~ Closing(s, c)
        BY <1>2 DEF Closing, Goal
      <4>2. \A t \in Shoppers : ~ Closing(t, c)'
        BY DEF Live
      <4> QED
        BY <4>1, <4>2 DEF OneMoves, Closing, Goal
    <3>3. Live(c)
      BY <3>1, <3>2 DEF Live
    <3>4. carts[c].units <= a[c] /\ \A t \in Shoppers : KnowsAtMost(shopper[t], c, a[c])
      BY <1>8, <3>1, <3>3 DEF Enough
    <3> QED
      BY <2>1, <3>1, <3>4 DEF OneMoves
  <2> QED
    BY <2>2, <2>3
<1>11. Afforded(b)'
  <2>1. AllWanted' = AllWanted - Wanted(shopper[s]) + Wanted(shopper'[s])
    BY WantedStep DEF ShapeInv
  <2>2. Wanted(shopper[s]) \in Nat /\ Wanted(shopper'[s]) = Wanted(shopper[s])
    BY <1>1, <1>3 DEF CartRequest, Wanted
  <2>3. /\ SumFunctionOnSet(a, DOMAIN carts) \in Nat /\ AllWanted \in Nat
        /\ IsFiniteSet(DOMAIN carts)
    BY <1>8, CartSums
  <2>4. SumFunctionOnSet(b, DOMAIN carts') = SumFunctionOnSet(a, DOMAIN carts)
    <3>1. DOMAIN carts' = DOMAIN carts \cup {k + 1} /\ k + 1 \notin DOMAIN carts
      BY <1>1, <1>5
    <3>2. /\ \A c \in DOMAIN carts \cup {k + 1} : b[c] \in Int
          /\ \A c \in DOMAIN carts : b[c] = a[c]
      BY <1>1, <1>9, <3>1
    <3> HIDE DEF k
    <3>3. SumFunctionOnSet(b, DOMAIN carts \cup {k + 1}) = SumFunctionOnSet(b, DOMAIN carts) + b[k + 1]
      BY ONLY <2>3, <3>1, <3>2, SumAdd
    <3>4. SumFunctionOnSet(b, DOMAIN carts) = SumFunctionOnSet(a, DOMAIN carts)
      BY ONLY <2>3, <3>2, SumSame
    <3> QED
      BY <1>9, <2>3, <3>1, <3>3, <3>4
  <2>5. ordered + SumFunctionOnSet(a, DOMAIN carts) + AllWanted <= asked
    BY <1>8 DEF Afforded
  <2>6. AllWanted' = AllWanted
    BY <2>1, <2>2, <2>3
  <2> QED
    BY <1>2, <2>4, <2>5, <2>6 DEF Afforded
<1> QED
  BY <1>7, <1>9, <1>10, <1>11 DEF Shares

\* An item is saved: the cart takes over the share of the request, or a merge
\* that of the guest's cart.
LEMMA SaveStep ==
  ASSUME ShapeInv, ShapeInv', OneEmpties, Shares, NEW s \in Shoppers, OneMoves(s),
         Len(carts') >= Len(carts), SaveItem(s)
  PROVE  OneEmpties' /\ Shares'
<1> DEFINE r == shopper[s]
           e == shopper'[s]
           d == r.cart
<1>1. /\ r \in CartRequest /\ ShapeOK(r, Len(carts)) /\ shopper \in [Shoppers -> CartRequest]
      /\ Len(carts) \in Nat /\ DOMAIN carts = 1..Len(carts) /\ carts \in Seq(CartRow)
  BY DEF ShapeInv
<1>2. /\ r.at = "save" /\ carts' = [carts EXCEPT ![d].units = NextQuantity(r)]
      /\ UNCHANGED <<asked, ordered>>
  BY DEF SaveItem
<1>3. /\ r.does \in {"add", "set", "merge"} /\ d \in DOMAIN carts
      /\ r.does = "merge" => r.closes \in DOMAIN carts /\ r.closes # d
      /\ r.seen \in Nat /\ r.n \in Nat
  BY <1>1, <1>2 DEF ShapeOK, CartRequest
<1>4. NextQuantity(r) \in Nat /\ NextQuantity(r) <= r.seen + r.n
  BY ONLY <1>3, NextBounds
<1>5. e = IF r.does = "merge" THEN [r EXCEPT !.at = "close"] ELSE AtRest
  BY <1>1 DEF SaveItem, Merging, Idle
<1>6. /\ DOMAIN carts' = DOMAIN carts /\ carts'[d].units = NextQuantity(r)
      /\ \A c \in DOMAIN carts : carts'[c].status = carts[c].status
      /\ \A c \in DOMAIN carts \ {d} : carts'[c] = carts[c]
  BY <1>1, <1>2, <1>3 DEF CartRow
<1>7. /\ e.does = IF r.does = "merge" THEN "merge" ELSE "nothing"
      /\ e.at = IF r.does = "merge" THEN "close" ELSE "idle"
      /\ r.does = "merge" => e.closes = r.closes
  BY <1>1, <1>5, RestFields DEF CartRequest
<1>8. OneEmpties'
  <2>1. \A c : Emptying(s, c)' => Emptying(s, c) /\ e.closes = r.closes
    BY <1>7 DEF Emptying, Goal, Merging
  <2>2. \A c \in DOMAIN carts : carts[c].status = "open" => carts'[c].status = "open"
    BY <1>6
  <2> QED
    BY <2>1, <2>2, OneStep
<1>9. PICK a \in [DOMAIN carts -> Nat] : Enough(a) /\ Afforded(a)
  BY DEF Shares
<1>10. /\ SumFunctionOnSet(a, DOMAIN carts) \in Nat /\ AllWanted \in Nat
       /\ IsFiniteSet(DOMAIN carts)
  BY <1>9, CartSums
<1>11. AllWanted' = AllWanted - Wanted(r) /\ Wanted(r) = IF r.does = "merge" THEN 0 ELSE r.n
  <2>1. AllWanted' = AllWanted - Wanted(r) + Wanted(e)
    BY WantedStep DEF ShapeInv
  <2>2. Wanted(e) = 0 /\ Wanted(r) = IF r.does = "merge" THEN 0 ELSE r.n
    BY <1>3, <1>7 DEF Wanted
  <2> QED
    BY <1>3, <1>10, <2>1, <2>2
<1>12. ASSUME NEW c \in DOMAIN carts, Live(c)'
       PROVE  Live(c) /\ ~ (r.does = "merge" /\ c = r.closes)
  <2>1. carts[c].status = "open" /\ \A t \in Shoppers : ~ Closing(t, c)'
    BY <1>6, <1>12 DEF Live
  <2>2. \A t \in Shoppers : ~ Closing(t, c)
    BY <1>2, <2>1 DEF OneMoves, Closing, Goal
  <2>3. ~ (r.does = "merge" /\ c = r.closes)
    BY <1>7, <2>1 DEF Closing, Goal
  <2> QED
    BY <2>1, <2>2, <2>3 DEF Live
<1>13. \A c, k : KnowsAtMost(e, c, k)
  BY <1>7 DEF KnowsAtMost
<1>14. ASSUME NEW b \in [DOMAIN carts -> Nat],
              \A c \in DOMAIN carts : c # d /\ ~ (r.does = "merge" /\ c = r.closes) => b[c] = a[c],
              Live(d) => b[d] >= a[d] /\ b[d] >= r.seen + r.n
       PROVE  Enough(b)'
  <2> SUFFICES ASSUME NEW c \in DOMAIN carts, Live(c)'
               PROVE  /\ carts'[c].units <= b[c]
                      /\ \A t \in Shoppers : KnowsAtMost(shopper'[t], c, b[c])
    BY <1>6 DEF Enough, KnowsAtMost
  <2>1. Live(c) /\ ~ (r.does = "merge" /\ c = r.closes)
    BY <1>12
  <2>2. carts[c].units <= a[c] /\ \A t \in Shoppers : KnowsAtMost(shopper[t], c, a[c])
    BY <1>9, <2>1 DEF Enough
  <2>3. b[c] >= a[c] /\ a[c] \in Nat /\ b[c] \in Nat
    <3>1. a[c] \in Nat /\ b[c] \in Nat
      BY <1>9, <1>14
    <3> QED
      BY <1>14, <2>1, <3>1
  <2>4. carts'[c].units <= b[c]
    <3>1. CASE c = d
      <4>1. carts'[c].units = NextQuantity(r) /\ b[c] >= r.seen + r.n
        BY <1>6, <1>14, <2>1, <3>1
      <4>2. r.seen + r.n \in Nat
        BY ONLY <1>3
      <4> QED
        BY ONLY <1>4, <2>3, <4>1, <4>2
    <3>2. CASE c # d
      BY <1>6, <1>14, <2>1, <2>2, <3>2
    <3> QED
      BY <3>1, <3>2
  <2>5. ASSUME NEW t \in Shoppers, t # s PROVE KnowsAtMost(shopper'[t], c, b[c])
    <3>1. shopper'[t] = shopper[t] /\ KnowsAtMost(shopper[t], c, a[c]) /\ shopper[t] \in CartRequest
      BY <1>1, <2>2, <2>5 DEF OneMoves
    <3>2. shopper[t].seen \in Nat /\ shopper[t].n \in Nat
      BY <3>1 DEF CartRequest
    <3> QED
      BY <2>3, <3>1, <3>2 DEF KnowsAtMost
  <2> QED
    BY <1>13, <2>4, <2>5
<1>15. Live(d) => r.seen <= a[d]
  <2>1. Live(d) => KnowsAtMost(r, d, a[d])
    BY <1>3, <1>9 DEF Enough
  <2> QED
    BY <1>2, <2>1 DEF KnowsAtMost
<1>16. \A c \in DOMAIN carts : a[c] \in Nat
  BY <1>9
<1>17. ordered \in Nat /\ asked \in Nat /\ ordered + SumFunctionOnSet(a, DOMAIN carts) + AllWanted <= asked
  BY <1>9 DEF Afforded, ShapeInv
<1> HIDE DEF e
<1>18. CASE r.does # "merge"
  <2>1. PICK b \in [DOMAIN carts -> Nat] :
          b[d] = a[d] + r.n /\ \A c \in DOMAIN carts \ {d} : b[c] = a[c]
    <3> DEFINE z == [a EXCEPT ![d] = a[d] + r.n]
    <3>1. z \in [DOMAIN carts -> Nat] /\ z[d] = a[d] + r.n /\ \A c \in DOMAIN carts \ {d} : z[c] = a[c]
      BY <1>3, <1>9
    <3> QED
      BY <3>1
  <2>2. Enough(b)'
    <3>1. Live(d) => b[d] >= a[d] /\ b[d] >= r.seen + r.n
      BY <1>3, <1>15, <1>16, <2>1
    <3> QED
      BY <1>14, <2>1, <3>1
  <2>3. Afforded(b)'
    <3>1. SumFunctionOnSet(b, DOMAIN carts) = SumFunctionOnSet(a, DOMAIN carts) - a[d] + b[d]
      <4>1. \A c \in DOMAIN carts : a[c] \in Int /\ b[c] \in Int
        BY <1>9, <2>1
      <4>2. \A c \in DOMAIN carts \ {d} : a[c] = b[c]
        BY <2>1
      <4>3. d \in DOMAIN carts
        BY <1>3
      <4> HIDE DEF d
      <4> QED
        BY ONLY <1>10, <4>1, <4>2, <4>3, SumChange
    <3>2. AllWanted' = AllWanted - r.n
      BY <1>11, <1>18
    <3>3. ordered' + SumFunctionOnSet(b, DOMAIN carts) + AllWanted' <= asked'
      BY <1>2, <1>3, <1>10, <1>16, <1>17, <2>1, <3>1, <3>2
    <3> QED
      BY <1>6, <3>3 DEF Afforded
  <2> QED
    BY <1>6, <1>8, <2>1, <2>2, <2>3 DEF Shares
<1>19. CASE r.does = "merge"
  <2> DEFINE g == r.closes
  <2>1. g \in DOMAIN carts /\ g # d
    BY <1>3, <1>19
  <2>2. r.n <= a[g]
    <3>1. Emptying(s, g) /\ shopper[s].at # "close"
      BY <1>2, <1>19 DEF Emptying, Merging
    <3>2. Live(g)
      BY <3>1, EmptiedLive
    <3>3. KnowsAtMost(r, g, a[g])
      BY <1>9, <2>1, <3>2 DEF Enough
    <3> QED
      BY <1>2, <1>19, <3>3 DEF KnowsAtMost
  <2>3. PICK h \in [DOMAIN carts -> Nat] :
          h[g] = 0 /\ \A c \in DOMAIN carts \ {g} : h[c] = a[c]
    <3> DEFINE z == [a EXCEPT ![g] = 0]
    <3>1. z \in [DOMAIN carts -> Nat] /\ z[g] = 0 /\ \A c \in DOMAIN carts \ {g} : z[c] = a[c]
      BY <1>9, <2>1
    <3> QED
      BY <3>1
  <2>4. PICK b \in [DOMAIN carts -> Nat] :
          b[d] = a[d] + a[g] /\ \A c \in DOMAIN carts \ {d} : b[c] = h[c]
    <3> DEFINE z == [h EXCEPT ![d] = a[d] + a[g]]
    <3>1. a[d] + a[g] \in Nat
      BY <1>3, <1>16, <2>1
    <3>2. z \in [DOMAIN carts -> Nat] /\ z[d] = a[d] + a[g] /\ \A c \in DOMAIN carts \ {d} : z[c] = h[c]
      BY <1>3, <2>3, <3>1
    <3> QED
      BY <3>2
  <2>5. Enough(b)'
    <3>1. Live(d) => b[d] >= a[d] /\ b[d] >= r.seen + r.n
        <4>0. a[d] \in Nat /\ a[g] \in Nat /\ r.n \in Nat /\ r.seen \in Nat
        BY <1>3, <1>16, <2>1
      <4> HIDE DEF d, g, r
      <4> QED
        BY <1>15, <2>2, <2>4, <4>0
    <3>2. \A c \in DOMAIN carts : c # d /\ ~ (r.does = "merge" /\ c = r.closes) => b[c] = a[c]
      BY <1>19, <2>3, <2>4
    <3> QED
      BY <1>14, <2>4, <3>1, <3>2
  <2>6. Afforded(b)'
    <3>1. \A c \in DOMAIN carts : a[c] \in Int /\ h[c] \in Int /\ b[c] \in Int
      BY <1>9, <2>3, <2>4
    <3>2. d \in DOMAIN carts
      BY <1>3
    <3> HIDE DEF d, g
    <3>3. SumFunctionOnSet(h, DOMAIN carts) = SumFunctionOnSet(a, DOMAIN carts) - a[g] + h[g]
      <4>1. \A c \in DOMAIN carts : a[c] \in Int /\ h[c] \in Int
        BY <3>1
      <4>2. \A c \in DOMAIN carts \ {g} : a[c] = h[c]
        BY <2>3
      <4> QED
        BY ONLY <1>10, <2>1, <4>1, <4>2, SumChange
    <3>4. SumFunctionOnSet(b, DOMAIN carts) = SumFunctionOnSet(h, DOMAIN carts) - h[d] + b[d]
      <4>1. \A c \in DOMAIN carts : h[c] \in Int /\ b[c] \in Int
        BY <3>1
      <4>2. \A c \in DOMAIN carts \ {d} : h[c] = b[c]
        BY <2>4
      <4> QED
        BY ONLY <1>10, <3>2, <4>1, <4>2, SumChange
    <3>5. h[d] = a[d]
      BY <2>1, <2>3, <3>2
    <3>6. SumFunctionOnSet(b, DOMAIN carts) = SumFunctionOnSet(a, DOMAIN carts)
      <4>1. a[d] \in Nat /\ a[g] \in Nat
        BY <1>16, <2>1, <3>2
      <4> QED
        BY <1>10, <2>3, <2>4, <3>3, <3>4, <3>5, <4>1
    <3>7. AllWanted' = AllWanted
      BY <1>10, <1>11, <1>19
    <3> QED
      BY <1>2, <1>6, <1>17, <3>6, <3>7 DEF Afforded
  <2> QED
    BY <1>6, <1>8, <2>4, <2>5, <2>6 DEF Shares
<1> QED
  BY <1>18, <1>19

\* A cart is ordered: its share is.
LEMMA OrderStep ==
  ASSUME ShapeInv, ShapeInv', OneEmpties, Shares, NEW s \in Shoppers, OneMoves(s),
         Len(carts') >= Len(carts), MarkConverted(s)
  PROVE  OneEmpties' /\ Shares'
<1> DEFINE r == shopper[s]
           e == shopper'[s]
           d == r.cart
<1>1. /\ r \in CartRequest /\ ShapeOK(r, Len(carts)) /\ shopper \in [Shoppers -> CartRequest]
      /\ Len(carts) \in Nat /\ DOMAIN carts = 1..Len(carts) /\ carts \in Seq(CartRow)
  BY DEF ShapeInv
<1>2. /\ r.does = "checkout" /\ r.at = "convert"
      /\ carts' = [carts EXCEPT ![r.closes].status = "converted"]
      /\ asked' = asked /\ ordered' = ordered + r.seen
  BY DEF MarkConverted, Goal
<1>3. e = AtRest
  BY <1>1 DEF MarkConverted, Idle
<1>4. d \in DOMAIN carts /\ r.seen \in Nat /\ r.closes = d
  <2>1. d \in DOMAIN carts /\ r.seen \in Nat
    BY <1>1, <1>2 DEF ShapeOK, CartRequest
  <2>2. Emptying(s, d)
    BY <1>2 DEF Emptying, Goal
  <2> QED
    BY <2>1, <2>2 DEF OneEmpties
<1>5. /\ DOMAIN carts' = DOMAIN carts /\ carts'[d].status = "converted"
      /\ \A c \in DOMAIN carts \ {d} : carts'[c] = carts[c]
  BY <1>1, <1>2, <1>4 DEF CartRow
<1>6. Emptying(s, d) /\ (\A c : Emptying(s, c) => c = d) /\ \A c : ~ Emptying(s, c)'
  BY <1>2, <1>3, RestFields DEF Emptying, Goal, Merging
<1>7. OneEmpties'
  <2>1. \A c \in DOMAIN carts : carts[c].status = "open" =>
          carts'[c].status = "open" \/ (Emptying(s, c) /\ ~ Emptying(s, c)')
    BY <1>5, <1>6
  <2> QED
    BY <1>6, <2>1, OneStep
<1>8. PICK a \in [DOMAIN carts -> Nat] : Enough(a) /\ Afforded(a)
  BY DEF Shares
<1>9. r.seen <= a[d] /\ a[d] \in Nat
  <2>1. Live(d)
    BY <1>2, <1>6, EmptiedLive
  <2>2. KnowsAtMost(r, d, a[d])
    BY <1>4, <1>8, <2>1 DEF Enough
  <2> QED
    BY <1>2, <1>4, <1>8, <2>2 DEF KnowsAtMost
<1>10. PICK b \in [DOMAIN carts -> Nat] :
         b[d] = 0 /\ \A c \in DOMAIN carts \ {d} : b[c] = a[c]
  <2> DEFINE z == [a EXCEPT ![d] = 0]
  <2>1. z \in [DOMAIN carts -> Nat] /\ z[d] = 0 /\ \A c \in DOMAIN carts \ {d} : z[c] = a[c]
    BY <1>4, <1>8
  <2> QED
    BY <2>1
<1>11. Enough(b)'
  <2> SUFFICES ASSUME NEW c \in DOMAIN carts, Live(c)'
               PROVE  /\ carts'[c].units <= b[c]
                      /\ \A t \in Shoppers : KnowsAtMost(shopper'[t], c, b[c])
    BY <1>5 DEF Enough, KnowsAtMost
  <2>1. c # d /\ carts'[c] = carts[c] /\ b[c] = a[c]
    BY <1>5, <1>10 DEF Live
  <2>2. \A t \in Shoppers : ~ Closing(t, c)
    <3>1. ~ Closing(s, c)
      BY <1>2 DEF Closing, Goal
    <3>2. \A t \in Shoppers : ~ Closing(t, c)'
      BY DEF Live
    <3> QED
      BY <3>1, <3>2 DEF OneMoves, Closing, Goal
  <2>3. Live(c)
    BY <2>1, <2>2 DEF Live
  <2>4. carts[c].units <= a[c] /\ \A t \in Shoppers : KnowsAtMost(shopper[t], c, a[c])
    BY <1>8, <2>3 DEF Enough
  <2>5. KnowsAtMost(shopper'[s], c, b[c])
    BY <1>3, RestFields DEF KnowsAtMost
  <2> QED
    BY <2>1, <2>4, <2>5 DEF OneMoves
<1>12. Afforded(b)'
  <2>1. /\ SumFunctionOnSet(a, DOMAIN carts) \in Nat /\ AllWanted \in Nat
        /\ IsFiniteSet(DOMAIN carts)
    BY <1>8, CartSums
  <2>2. AllWanted' = AllWanted
    <3>1. AllWanted' = AllWanted - Wanted(r) + Wanted(e)
      BY WantedStep DEF ShapeInv
    <3>2. Wanted(r) = 0 /\ Wanted(e) = 0
      BY <1>2, <1>3, RestFields DEF Wanted
    <3> QED
      BY <2>1, <3>1, <3>2
  <2>3. SumFunctionOnSet(b, DOMAIN carts) = SumFunctionOnSet(a, DOMAIN carts) - a[d] + b[d]
    <3>1. \A c \in DOMAIN carts : a[c] \in Int /\ b[c] \in Int
      BY <1>8, <1>10
    <3>2. \A c \in DOMAIN carts \ {d} : a[c] = b[c]
      BY <1>10
    <3> HIDE DEF d
    <3> QED
      BY ONLY <1>4, <2>1, <3>1, <3>2, SumChange
  <2>4. ordered \in Nat /\ asked \in Nat /\ ordered + SumFunctionOnSet(a, DOMAIN carts) + AllWanted <= asked
    BY <1>8 DEF Afforded, ShapeInv
  <2>5. ordered' + SumFunctionOnSet(b, DOMAIN carts) + AllWanted' <= asked'
    BY <1>2, <1>4, <1>9, <1>10, <2>1, <2>2, <2>3, <2>4
  <2> QED
    BY <1>5, <2>5 DEF Afforded
<1> QED
  BY <1>5, <1>7, <1>10, <1>11, <1>12 DEF Shares

-----------------------------------------------------------------------------
LEMMA CartBegins == CartInit => CartInv
<1> SUFFICES ASSUME CartInit PROVE CartInv
  OBVIOUS
<1>1. /\ carts = <<>> /\ shopper = [s \in Shoppers |-> AtRest]
      /\ requests = 0 /\ asked = 0 /\ ordered = 0 /\ mixedUp = FALSE
  BY DEF CartInit
<1>2. ShapeInv
  <2>1. carts \in Seq(CartRow) /\ Len(carts) = 0
    BY <1>1
  <2>2. shopper \in [Shoppers -> CartRequest]
    BY <1>1, RestFields
  <2>3. \A s \in Shoppers : shopper[s] = AtRest
    BY <1>1
  <2>4. \A s \in Shoppers : ShapeOK(shopper[s], Len(carts))
    BY <2>1, <2>3, RestOK
  <2> QED
    BY <1>1, <2>1, <2>2, <2>4 DEF ShapeInv
<1>3. OneEmpties
  BY <1>1 DEF OneEmpties
<1>4. Shares
  <2>1. PICK a : a \in [DOMAIN carts -> Nat]
    <3>1. [c \in DOMAIN carts |-> 0] \in [DOMAIN carts -> Nat]
      OBVIOUS
    <3> QED
      BY <3>1
  <2>2. DOMAIN carts = {}
    BY <1>1
  <2>3. Enough(a)
    BY <2>2 DEF Enough
  <2>4. AllWanted = 0
    <3> DEFINE w == [s \in Shoppers |-> Wanted(shopper[s])]
    <3>1. \A s \in Shoppers : w[s] = 0
      BY <1>1, RestFields DEF Wanted
    <3>2. AllWanted = SumFunctionOnSet(w, Shoppers)
      BY DEF AllWanted
    <3>3. IsFiniteSet(Shoppers) /\ (\A s \in Shoppers : w[s] \in Int /\ w[s] >= 0)
      BY <3>1, CartAssumption
    <3> HIDE DEF w
    <3>4. SumFunctionOnSet(w, Shoppers) = 0
      BY <3>1, <3>3, SumZero
    <3> QED
      BY <3>2, <3>4
  <2>5. SumFunctionOnSet(a, DOMAIN carts) = 0
    BY <2>2, SumEmpty
  <2>6. Afforded(a)
    BY <1>1, <2>4, <2>5 DEF Afforded
  <2> QED
    BY <2>1, <2>3, <2>6 DEF Shares
<1> QED
  BY <1>2, <1>3, <1>4 DEF CartInv

LEMMA CartKept == CartInv /\ [CartNext]_cartVars => CartInv'
<1> SUFFICES ASSUME CartInv, [CartNext]_cartVars PROVE CartInv'
  OBVIOUS
<1>1. CASE UNCHANGED cartVars
  <2>1. /\ carts' = carts /\ shopper' = shopper /\ requests' = requests
        /\ asked' = asked /\ ordered' = ordered /\ mixedUp' = mixedUp
    BY <1>1 DEF cartVars
  <2>2. (ShapeInv' <=> ShapeInv) /\ (OneEmpties' <=> OneEmpties) /\ (Shares' <=> Shares)
    BY <2>1 DEF ShapeInv, OneEmpties, Shares, Enough, Afforded, AllWanted, Live, Closing,
                Emptying, Goal, Merging
  <2> QED
    BY <2>1, <2>2 DEF CartInv
<1>2. CASE CartNext
  <2>1. PICK s \in Shoppers : ShopperStep(s)
    BY <1>2 DEF CartNext, ShopperStep
  <2>2. ShapeInv /\ ShapeInv' /\ OneMoves(s) /\ Len(carts') >= Len(carts)
    BY <2>1, ShapeNext DEF CartInv
  <2>3. ASSUME ~ mixedUp' PROVE OneEmpties' /\ Shares'
    <3>1. ~ mixedUp
      BY <2>1, <2>3 DEF ShopperStep, StartItem, StartCheckout, StartMerge, GetOrCreateCart,
        CreateCart, Attach, SaveCart, SaveCoupon, RemoveItem, ReadGuest, ReadItem, SaveItem,
        CloseGuest, ReadOrder, MarkConverted, ShopperFails
    <3>2. OneEmpties /\ Shares
      BY <3>1 DEF CartInv
    <3>3. CASE \/ \E does \in {"add", "set", "remove", "coupon"}, byUser \in BOOLEAN :
                    StartItem(s, does, byUser)
               \/ \E c \in DOMAIN carts : StartCheckout(s, c) \/ StartMerge(s, c)
      BY <2>2, <2>3, <3>2, <3>3, ComeStep
    <3>4. CASE \/ GetOrCreateCart(s) \/ Attach(s) \/ SaveCoupon(s) \/ RemoveItem(s) \/ ReadGuest(s)
               \/ ReadItem(s) \/ CloseGuest(s) \/ ShopperFails(s)
      BY <2>2, <2>3, <3>2, <3>4, QuietStep
    <3>5. CASE CreateCart(s)
      BY <2>2, <3>2, <3>5, CreateStep
    <3>6. CASE SaveItem(s)
      BY <2>2, <3>2, <3>6, SaveStep
    <3>7. CASE MarkConverted(s)
      BY <2>2, <3>2, <3>7, OrderStep
    <3>8. CASE ReadOrder(s)
      BY <2>2, <2>3, <3>2, <3>8, LookStep
    <3> QED
      BY <2>1, <3>3, <3>4, <3>5, <3>6, <3>7, <3>8 DEF ShopperStep
  <2> QED
    BY <2>2, <2>3 DEF CartInv
<1> QED
  BY <1>1, <1>2

\* What can be ordered is no more than the shares of the carts.
LEMMA CartImplied == CartInv => CartTypeOK /\ NoUnitsFromNowhere
<1> SUFFICES ASSUME CartInv PROVE CartTypeOK /\ NoUnitsFromNowhere
  OBVIOUS
<1>1. ShapeInv
  BY DEF CartInv
<1>2. CartTypeOK
  <2>1. \A s \in Shoppers : ShapeOK(shopper[s], Len(carts)) /\ Len(carts) \in Nat
    BY <1>1 DEF ShapeInv
  <2>2. \A s \in Shoppers : shopper[s].cart \in 0..Len(carts) /\ shopper[s].closes \in 0..Len(carts)
    BY <2>1 DEF ShapeOK, CartRequest
  <2> QED
    BY <1>1, <2>2 DEF ShapeInv, CartTypeOK, CartRow
<1>3. ASSUME ~ mixedUp
      PROVE  ordered + SumFunctionOnSet([c \in DOMAIN carts |-> UnitsIn(c)], DOMAIN carts) <= asked
  <2>1. PICK a \in [DOMAIN carts -> Nat] : Enough(a) /\ Afforded(a)
    BY <1>3 DEF CartInv, Shares
  <2> DEFINE u == [c \in DOMAIN carts |-> UnitsIn(c)]
  <2>2. /\ IsFiniteSet(DOMAIN carts)
        /\ SumFunctionOnSet(a, DOMAIN carts) \in Nat /\ AllWanted \in Nat
    BY <1>1, <2>1, CartSums
  <2>3. \A c \in DOMAIN carts : u[c] \in Int /\ u[c] <= a[c]
    <3> SUFFICES ASSUME NEW c \in DOMAIN carts PROVE UnitsIn(c) \in Int /\ UnitsIn(c) <= a[c]
      OBVIOUS
    <3>1. a[c] \in Nat /\ carts[c].units \in Nat
      <4>1. carts[c] \in CartRow
        BY <1>1 DEF ShapeInv
      <4> QED
        BY <2>1, <4>1 DEF CartRow
    <3>2. CASE Live(c)
      BY <2>1, <3>1, <3>2 DEF Enough, UnitsIn, Live, Closing
    <3>3. CASE ~ Live(c)
      BY <3>1, <3>3 DEF UnitsIn, Live, Closing
    <3> QED
      BY <3>2, <3>3
  <2>4. \A c \in DOMAIN carts : u[c] \in Int /\ a[c] \in Int /\ u[c] <= a[c]
    BY <2>1, <2>3
  <2> HIDE DEF u
  <2>5. SumFunctionOnSet(u, DOMAIN carts) <= SumFunctionOnSet(a, DOMAIN carts)
    BY ONLY <2>2, <2>4, SumLess
  <2>6. SumFunctionOnSet(u, DOMAIN carts) \in Int
    BY ONLY <2>2, <2>4, SumType
  <2>7. ordered \in Nat /\ asked \in Nat
    BY <1>1 DEF ShapeInv
  <2>8. ordered + SumFunctionOnSet(u, DOMAIN carts) <= asked
    BY <2>1, <2>2, <2>5, <2>6, <2>7 DEF Afforded
  <2> QED
    BY <2>8 DEF u
<1> QED
  BY <1>2, <1>3 DEF NoUnitsFromNowhere

\* The types of the carts and of the requests, for any number of them.
THEOREM CartTypes == CartSpec => []CartTypeOK
<1>1. CartSpec => []CartInv
  BY CartBegins, CartKept, PTL DEF CartSpec
<1> QED
  BY <1>1, CartImplied, PTL

\* cart.service.ts: while no two requests empty one cart, no merge is cut short, no
\* save opens an emptied cart again and both looks of each checkout find one open
\* cart, no request makes units that nobody asked for, whatever the interleaving of
\* any number of requests.
THEOREM CartNoUnits == CartSpec => []NoUnitsFromNowhere
<1>1. CartSpec => []CartInv
  BY CartBegins, CartKept, PTL DEF CartSpec
<1> QED
  BY <1>1, CartImplied, PTL
=============================================================================
