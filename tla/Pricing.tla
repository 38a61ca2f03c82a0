------------------------------- MODULE Pricing -------------------------------
(***************************************************************************)
(* What a customer is shown and what an order costs.  The cart page takes  *)
(* its total from CartService.view, the checkout page adds up the cart and *)
(* the costs ShippingService.methodsFor has answered, and checkout starts  *)
(* again from the prices, the coupon and the settings it reads itself.     *)
(* Administrators change all of these meanwhile.                           *)
(*                                                                         *)
(* The stock is Inventory's, the coupon's counter and the idempotency key  *)
(* Checkout's, the overlap of requests on one cart Carts'.                 *)
(***************************************************************************)
EXTENDS Integers, FiniteSetsExt, Functions

CONSTANTS
  Goods,        \* variants
  Prices,       \* that each of them may have
  MaxUnits,     \* of a variant in the cart
  Codes,        \* coupons
  Offer,        \* what each of them grants, and on which conditions
  Methods,      \* shipping methods of the customer's zone
  Terms,        \* that a method may have
  Rates,        \* settings of the shop: flat cost of shipping, and from where it is free
  TaxPercent,
  MaxSteps,     \* bound: changes of shop and cart
  NoCode, NoMethod, NoDeal

ASSUME PricingAssumption ==
  /\ IsFiniteSet(Goods) /\ Prices \in [Goods -> SUBSET Nat] /\ MaxUnits \in Nat
  /\ Offer \in [Codes -> [percent : BOOLEAN, value : Nat, max : Nat, minCart : Nat,
                          everywhere : BOOLEAN, scope : SUBSET Goods, shipsFree : BOOLEAN]]
  /\ Terms \subseteq [offered : BOOLEAN, cost : Nat, freeAbove : SUBSET Nat]
  /\ Rates \subseteq [flat : Nat, freeOver : Nat]
  /\ TaxPercent \in Nat /\ MaxSteps \in Nat
  /\ NoCode \notin Codes /\ NoMethod \notin Methods

VARIABLES
  price,      \* product_variants.price
  good,       \* coupons that are active, begun, not expired, not used up
  rates,      \* the settings store.*
  terms,      \* of each shipping method
  changes,    \* so many of these, and of the cart, have been changed
  item,       \* the cart: units of a variant, and its price when it was added
  applied,    \* the cart's coupon
  sheet,      \* in the browser: the cart it has loaded, the costs of the methods
  news,       \* history: what has changed since the browser loaded it
  deal        \* the checkout request, and the order it makes

pricingVars ==
  <<price, good, rates, terms, changes, item, applied, sheet, news, deal>>

shopVars == <<price, good, rates, terms, changes>>
cartPageVars == <<item, applied, sheet, news>>

-----------------------------------------------------------------------------
(* The formulas. *)

Amounts(units, prices) ==
  [v \in Goods |-> IF units[v] = 0 THEN 0 ELSE units[v] * prices[v]]

\* computeCouponDiscount: rounded down, cut at max (0: no limit) and at the base.
Discount(c, base) ==
  LET asked == IF Offer[c].percent THEN (base * Offer[c].value) \div 100
               ELSE Offer[c].value
  IN  Min({asked, base} \union {m \in {Offer[c].max} : m > 0})

\* What the coupon is for: products or categories, or the cart.
Base(c, amounts) ==
  IF Offer[c].everywhere THEN SumFunction(amounts)
  ELSE SumFunctionOnSet(amounts, Offer[c].scope)

\* validate.  A discount of 0 is refused, and with it a base of 0.
Valid(c, amounts) ==
  /\ c \in good
  /\ SumFunction(amounts) >= Offer[c].minCart
  /\ Discount(c, Base(c, amounts)) > 0

\* What is to be paid for the goods with coupon c.
Payable(c, amounts) ==
  SumFunction(amounts) - IF c = NoCode THEN 0 ELSE Discount(c, Base(c, amounts))

\* Math.round, half up
Tax(payable) == (payable * TaxPercent + 50) \div 100

FreeForAll(payable) == rates.freeOver > 0 /\ payable >= rates.freeOver

FlatCost(payable) == IF payable <= 0 \/ FreeForAll(payable) THEN 0 ELSE rates.flat

\* methodsFor and resolveForCheckout
MethodCost(m, payable) ==
  IF FreeForAll(payable) \/ \E limit \in terms[m].freeAbove : payable >= limit
  THEN 0 ELSE terms[m].cost

Costs(payable) ==
  [m \in {n \in Methods : terms[n].offered} |-> MethodCost(m, payable)]

\* CartService.view, with the prices the items were added at.  A coupon that is
\* no longer valid is left out without a word.
CartView ==
  LET units   == [v \in Goods |-> item[v].units]
      prices  == [v \in Goods |-> item[v].price]
      amounts == Amounts(units, prices)
      code    == IF applied # NoCode /\ Valid(applied, amounts) THEN applied ELSE NoCode
      payable == Payable(code, amounts)
      free    == code # NoCode /\ Offer[code].shipsFree
  IN  [units |-> units, prices |-> prices, code |-> code, payable |-> payable,
       total |-> IF free THEN payable + Tax(payable)
                 ELSE payable + Tax(payable) + FlatCost(payable)]

NoCosts == [m \in {} |-> 0]

EmptyCart == [v \in Goods |-> [units |-> 0, price |-> 0]]

PricingInit ==
  /\ price \in {p \in [Goods -> UNION {Prices[v] : v \in Goods}] :
                 \A v \in Goods : p[v] \in Prices[v]}
  /\ good = Codes
  /\ rates \in Rates
  /\ terms \in [Methods -> Terms]
  /\ changes = 0
  /\ item = EmptyCart
  /\ applied = NoCode
  /\ sheet = [view |-> CartView, costs |-> NoCosts]
  /\ news = {}
  /\ deal = NoDeal

-----------------------------------------------------------------------------
(* Administrators.  A deal that is being made is no longer as shown. *)

Decide(what) ==
  /\ changes < MaxSteps
  /\ changes' = changes + 1
  /\ news' = news \union what
  /\ deal' = IF deal = NoDeal \/ what = {} THEN deal ELSE [deal EXCEPT !.asShown = FALSE]
  /\ UNCHANGED <<item, applied, sheet>>

\* The cart keeps the price of an item, so that the view does not change.
ChangePrice(v, p) ==
  /\ Decide({})
  /\ price' = [price EXCEPT ![v] = p]
  /\ UNCHANGED <<good, rates, terms>>

\* A coupon is saved, removed, begins, expires or is used up by others.
ChangeCoupon(c) ==
  /\ Decide({"coupons"})
  /\ good' = IF c \in good THEN good \ {c} ELSE good \union {c}
  /\ UNCHANGED <<price, rates, terms>>

ChangeRates(r) ==
  /\ Decide({"rates", "terms"})
  /\ rates' = r
  /\ UNCHANGED <<price, good, terms>>

\* saveMethod, removeMethod, or its zone
ChangeTerms(m, t) ==
  /\ Decide({"terms"})
  /\ terms' = [terms EXCEPT ![m] = t]
  /\ UNCHANGED <<price, good, rates>>

-----------------------------------------------------------------------------
(* The cart, changed from this page or another. *)

EditCart(newItem, newApplied) ==
  /\ changes < MaxSteps
  /\ changes' = changes + 1
  /\ item' = newItem
  /\ applied' = newApplied
  /\ news' = news \union {"cart"}
  /\ UNCHANGED <<price, good, rates, terms, sheet, deal>>

\* addItem takes the price of the day for all units, updateItem leaves it.
AddItem(v) ==
  /\ item[v].units < MaxUnits
  /\ EditCart([item EXCEPT ![v] = [units |-> item[v].units + 1, price |-> price[v]]],
              applied)

UpdateItem(v, n) ==
  /\ item[v].units > 0
  /\ EditCart([item EXCEPT ![v] =
                 IF n = 0 THEN EmptyCart[v] ELSE [units |-> n, price |-> item[v].price]],
              applied)

ApplyCoupon(c) ==
  /\ Valid(c, Amounts(CartView.units, CartView.prices))
  /\ EditCart(item, c)

RemoveCoupon == applied # NoCode /\ EditCart(item, NoCode)

-----------------------------------------------------------------------------
(* The browser. *)

\* Mutant of LoadCart: costs that were answered for another amount are kept.
KeepCosts ==
  /\ sheet' = [sheet EXCEPT !.view = CartView]
  /\ news' = news \ {"cart", "coupons", "rates"}
  /\ UNCHANGED <<shopVars, item, applied, deal>>

\* The costs belong to an amount: the key of the query contains it.
LoadCart ==
  /\ sheet' = [view |-> CartView,
               costs |-> IF CartView.payable = sheet.view.payable THEN sheet.costs
                         ELSE NoCosts]
  /\ news' = news \ {"cart", "coupons", "rates"}
  /\ UNCHANGED <<shopVars, item, applied, deal>>

LoadMethods ==
  /\ sheet' = [sheet EXCEPT !.costs = Costs(sheet.view.payable)]
  /\ news' = news \ {"terms"}
  /\ UNCHANGED <<shopVars, item, applied, deal>>

\* The final amount of the checkout page.  Without a method, because there is none
\* or while they are loading, it shows shipping as free.
ShownFor(m) ==
  LET goods == sheet.view.payable + Tax(sheet.view.payable)
  IN  IF m = NoMethod THEN goods ELSE goods + sheet.costs[m]

\* What the totals are made of that the customer has been told: that one, and
\* without a method also the total of the cart page.
Sources(m) == {"cart", "coupons", IF m = NoMethod THEN "rates" ELSE "terms"}

-----------------------------------------------------------------------------
(* The checkout request. *)

\* getUserCartOrFail.  A program that calls the API may send a code of its own.
StartDeal(m, entered) ==
  /\ deal = NoDeal
  /\ m \in DOMAIN sheet.costs \/ (m = NoMethod /\ sheet.costs = NoCosts)
  /\ \E v \in Goods : item[v].units > 0
  /\ deal' = [at |-> "price", view |-> CartView, method |-> m,
              code |-> IF entered = NoCode THEN CartView.code ELSE entered,
              shown |-> ShownFor(m), announced |-> sheet.view.total,
              asShown |-> entered = NoCode /\ news \intersect Sources(m) = {}]
  /\ UNCHANGED <<shopVars, cartPageVars>>

\* The prices of the day, and validate again; refused when the code is not valid.
PriceOrder ==
  LET amounts == Amounts(deal.view.units, price)
  IN  /\ deal # NoDeal /\ deal.at = "price"
      /\ deal.code # NoCode => Valid(deal.code, amounts)
      /\ deal' = [at |-> "ship", method |-> deal.method,
                  payable |-> Payable(deal.code, amounts),
                  free |-> deal.code # NoCode /\ Offer[deal.code].shipsFree,
                  shown |-> deal.shown, announced |-> deal.announced,
                  asShown |-> /\ deal.asShown
                              /\ \A v \in Goods : deal.view.units[v] > 0 =>
                                                   price[v] = deal.view.prices[v]]
      /\ UNCHANGED <<shopVars, cartPageVars>>

\* The method's cost or the flat one, and the order; the cart is closed.  A method
\* that is not offered is refused.
ShipOrder ==
  LET m    == deal.method
      cost == IF m = NoMethod THEN FlatCost(deal.payable) ELSE MethodCost(m, deal.payable)
  IN  /\ deal # NoDeal /\ deal.at = "ship"
      /\ m # NoMethod => terms[m].offered
      /\ deal' = [at |-> "ordered", total |-> deal.payable + Tax(deal.payable) + cost,
                  method |-> m, cost |-> cost, free |-> deal.free,
                  shown |-> deal.shown, announced |-> deal.announced,
                  asShown |-> deal.asShown]
      /\ item' = EmptyCart /\ applied' = NoCode
      /\ news' = news \union {"cart"}
      /\ UNCHANGED <<shopVars, sheet>>

\* Answered; or refused, for one of the reasons above, the stock or the address.
EndRequest ==
  /\ deal # NoDeal
  /\ deal' = NoDeal
  /\ UNCHANGED <<shopVars, cartPageVars>>

PricingNext ==
  \/ \E v \in Goods : \E p \in Prices[v] : ChangePrice(v, p)
  \/ \E c \in Codes : ChangeCoupon(c) \/ ApplyCoupon(c)
  \/ \E r \in Rates : ChangeRates(r)
  \/ \E m \in Methods, t \in Terms : ChangeTerms(m, t)
  \/ \E v \in Goods : AddItem(v) \/ \E n \in 0..MaxUnits : UpdateItem(v, n)
  \/ RemoveCoupon
  \/ LoadCart \/ LoadMethods
  \/ \E m \in Methods \union {NoMethod}, entered \in Codes \union {NoCode} :
       StartDeal(m, entered)
  \/ PriceOrder \/ ShipOrder \/ EndRequest

PricingSpec == PricingInit /\ [][PricingNext]_pricingVars

-----------------------------------------------------------------------------
\* The types of shop, cart and page.
PricingTypeOK ==
  /\ price \in [Goods -> Nat] /\ good \subseteq Codes /\ rates \in Rates
  /\ terms \in [Methods -> Terms] /\ changes \in Nat
  /\ item \in [Goods -> [units : 0..MaxUnits, price : Nat]]
  /\ applied \in Codes \union {NoCode}
  /\ news \subseteq {"cart", "coupons", "rates", "terms"}

\* An order costs what the customer was shown, although checkout computes it anew
\* and the page adds up answers of different requests: if neither the cart nor the
\* coupon, nor the rates or terms the pages relied on have changed since they asked,
\* and no item has another price than when it was added.  An order without a method
\* is the exception: it costs more than the checkout page's final amount, by the
\* flat cost of shipping, and what the cart page had announced, except that a coupon
\* which makes shipping free there is charged the flat cost all the same.
ChargedAsShown ==
  deal # NoDeal /\ deal.at = "ordered" /\ deal.asShown =>
    IF deal.method # NoMethod THEN deal.total = deal.shown
    ELSE /\ deal.total = deal.shown + deal.cost
         /\ deal.total = IF deal.free THEN deal.announced + deal.cost ELSE deal.announced
=============================================================================
