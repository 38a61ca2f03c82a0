----------------------------- MODULE ProductForm -----------------------------
(***************************************************************************)
(* The stock of one product's variants under the admin's product form      *)
(* (apps/web/app/admin/products/_form.tsx), the API that reads and saves   *)
(* it (assemble, update and syncVariants of                                *)
(* apps/api/src/modules/catalog/products.service.ts) and the orders.       *)
(*                                                                         *)
(* The form shows SUM(quantity - reserved) as the stock and saves it as    *)
(* the quantity of the default warehouse, which is the only one here.  It  *)
(* sends the default variant alone; syncVariants removes the others.  The  *)
(* browser opens a form on the answer that its query cache still has.      *)
(***************************************************************************)
EXTENDS Naturals, FiniteSets

CONSTANTS
  Skus,          \* the variants, numbered in the order of their ids
  Browsers,      \* administrators with a form
  ShelfLimit,    \* bound: units of a variant
  NoRow

ASSUME FormAssumption ==
  /\ Skus \subseteq Nat /\ IsFiniteSet(Skus) /\ Skus # {}
  /\ ShelfLimit \in Nat \ {0}

VARIABLES
  variant,       \* product_variants with their row of inventory
  inOrders,      \* variants that an order item names
  cached,        \* each browser: the answer in its query cache
  form,          \* each browser: the row in its open form
  onShelf,       \* history: the units of a variant that there really are
  misread        \* history: variants saved from an answer that was not good for it

formVars == <<variant, inOrders, cached, form, onShelf, misread>>

Variant(status, default, quantity, reserved) ==
  [status |-> status, default |-> default, quantity |-> quantity, reserved |-> reserved]

FormInit ==
  /\ variant = [v \in Skus |-> Variant("active", \A w \in Skus : v <= w, 1, 0)]
  /\ inOrders = {}
  /\ cached = [b \in Browsers |-> NoRow]
  /\ form = [b \in Browsers |-> NoRow]
  /\ onShelf = [v \in Skus |-> 1]
  /\ misread = {}

-----------------------------------------------------------------------------
\* The form.

Listed == {v \in Skus : variant[v].status # "deleted"}

\* ORDER BY isDefault DESC, id: the row that the form will show.
ShownVariant ==
  CHOOSE v \in Listed : \A w \in Listed :
    IF variant[v].default = variant[w].default THEN v <= w ELSE variant[v].default

\* held and shelf are history: the units that were reserved and on the shelf.
AdminDetail(v) ==
  [sku |-> v, stock |-> variant[v].quantity - variant[v].reserved,
   held |-> variant[v].reserved, shelf |-> onShelf[v]]

\* The page takes what the cache has, and asks again when that is older than
\* staleTime; the form keeps the row it began with.
OpenForm(b, stale) ==
  LET fresh == AdminDetail(ShownVariant)
  IN  /\ form[b] = NoRow /\ Listed # {}
      /\ form' = [form EXCEPT ![b] = IF cached[b] = NoRow THEN fresh ELSE cached[b]]
      /\ cached' = [cached EXCEPT ![b] = IF @ = NoRow \/ stale THEN fresh ELSE @]
      /\ UNCHANGED <<variant, inOrders, onShelf, misread>>

\* The page is loaded anew, or the answer is collected.
CacheEmptied(b) ==
  /\ cached[b] # NoRow
  /\ cached' = [cached EXCEPT ![b] = NoRow]
  /\ UNCHANGED <<variant, inOrders, form, onShelf, misread>>

CloseForm(b) ==
  /\ form[b] # NoRow
  /\ form' = [form EXCEPT ![b] = NoRow]
  /\ UNCHANGED <<variant, inOrders, cached, onShelf, misread>>

-----------------------------------------------------------------------------
\* The API.

\* Mutant of SetStock: the number in the form is taken for received units.
AddStock(old, quantity) == old.quantity + quantity

\* setQuantity
SetStock(old, quantity) == quantity

\* syncVariants for a list that has this variant alone: it becomes active and
\* the default, unless it was deleted; the others go, those with an order item
\* only out of sale.
SyncVariants(sku, quantity) ==
  [v \in Skus |->
     LET old == variant[v]
     IN  IF v = sku
         THEN IF old.status = "deleted" THEN [old EXCEPT !.quantity = SetStock(old, quantity)]
              ELSE Variant("active", TRUE, SetStock(old, quantity), old.reserved)
         ELSE IF old.status = "deleted" THEN old
              ELSE [old EXCEPT !.status = IF v \in inOrders THEN "inactive" ELSE "deleted"]]

\* update: the admin has put received units on the shelf and typed the number
\* shown plus these.  setQuantity refuses less than is reserved, and the whole
\* transaction with it.
SaveForm(b, received) ==
  LET row == form[b]
      v == row.sku
  IN  /\ row # NoRow
      /\ row.stock + received <= ShelfLimit /\ onShelf[v] + received <= ShelfLimit
      /\ row.stock + received >= variant[v].reserved
      /\ variant' = SyncVariants(v, row.stock + received)
      /\ onShelf' = [onShelf EXCEPT ![v] = @ + received]
      /\ misread' = IF row.held = 0 /\ row.shelf = onShelf[v] THEN misread ELSE misread \union {v}
      /\ form' = [form EXCEPT ![b] = NoRow]
      /\ UNCHANGED <<inOrders, cached>>

\* checkout reserves, payment commits, cancelling or expiry releases.
OrderUnit(v) ==
  /\ variant[v].status = "active"
  /\ variant[v].quantity > variant[v].reserved
  /\ variant' = [variant EXCEPT ![v].reserved = @ + 1]
  /\ inOrders' = inOrders \union {v}
  /\ UNCHANGED <<cached, form, onShelf, misread>>

SellUnit(v) ==
  /\ variant[v].reserved > 0
  /\ onShelf[v] > 0
  /\ variant' = [variant EXCEPT ![v].reserved = @ - 1, ![v].quantity = @ - 1]
  /\ onShelf' = [onShelf EXCEPT ![v] = @ - 1]
  /\ UNCHANGED <<inOrders, cached, form, misread>>

ReleaseUnit(v) ==
  /\ variant[v].reserved > 0
  /\ variant' = [variant EXCEPT ![v].reserved = @ - 1]
  /\ UNCHANGED <<inOrders, cached, form, onShelf, misread>>

FormNext ==
  \/ \E b \in Browsers :
       \/ \E stale \in BOOLEAN : OpenForm(b, stale)
       \/ CacheEmptied(b) \/ CloseForm(b)
       \/ \E received \in {0, 1} : SaveForm(b, received)
  \/ \E v \in Skus : OrderUnit(v) \/ SellUnit(v) \/ ReleaseUnit(v)

FormSpec == FormInit /\ [][FormNext]_formVars

-----------------------------------------------------------------------------
\* The types of the variants and of the forms' rows.
FormTypeOK ==
  LET rows == [sku : Skus, stock : Nat, held : Nat, shelf : Nat] \union {NoRow}
  IN  /\ variant \in [Skus -> [status : {"active", "inactive", "deleted"}, default : BOOLEAN,
                               quantity : 0..ShelfLimit, reserved : 0..ShelfLimit]]
      /\ inOrders \subseteq Skus /\ misread \subseteq Skus
      /\ cached \in [Browsers -> rows] /\ form \in [Browsers -> rows]
      /\ onShelf \in [Skus -> 0..ShelfLimit]

\* The stock of a variant is the number of units there are, unless a form was
\* ever saved from an answer that left reserved units out, or that was older
\* than a sale or a receipt.
StockFollowsShelf == \A v \in Skus : variant[v].quantity = onShelf[v] \/ v \in misread

\* "All fields are kept so that editing old products works without losing data
\* (videos, specs, more variants, tags ...)": the form offers no way to take a
\* variant out of sale, so none ever is.
VariantsKept == \A v \in Skus : variant[v].status = "active"
=============================================================================
