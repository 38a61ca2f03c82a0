-------------------------------- MODULE Carts --------------------------------
(***************************************************************************)
(* The carts of one visitor (apps/api/src/modules/cart/cart.service.ts):   *)
(* as a guest they are known by the session of the browser, after a login  *)
(* by the user too, and the guest's cart is merged into the user's.  The   *)
(* carts hold one variant.                                                 *)
(*                                                                         *)
(* No request uses a transaction or a lock: it reads a cart, reads the     *)
(* item, and saves what it makes of them.  save(cart) writes the whole row *)
(* it has read, the status too, and save(item) inserts the row again when  *)
(* it has been deleted; (cart, variant) is unique.  The view that answers  *)
(* a request finds, creates or attaches a cart as one more request would   *)
(* that ends there.                                                        *)
(***************************************************************************)
EXTENDS Integers, Sequences, FiniteSets, Functions

CONSTANTS
  Shoppers,      \* requests of the visitor that run at one time
  InStock,       \* units of the variant that can be sold
  MaxQuantity,   \* of an item
  MaxRequests,   \* bound: requests of the visitor
  MaxCarts       \* bound: carts that are created

ASSUME CartAssumption ==
  /\ IsFiniteSet(Shoppers)
  /\ InStock \in Nat /\ MaxQuantity \in Nat /\ MaxRequests \in Nat /\ MaxCarts \in Nat

VARIABLES
  carts,     \* the rows: has a user, has the session, status, units of its item
  shopper,   \* each request: what it does and where it is, and what it has read
  requests,  \* so many have come
  asked,     \* history: units that were asked for
  ordered,   \* history: units that were ordered
  mixedUp    \* history: a cart was emptied twice, or half, or opened again, or
             \* ordered and another one closed for it

cartVars == <<carts, shopper, requests, asked, ordered, mixedUp>>

NewCart(user, session) == [user |-> user, session |-> session, status |-> "open", units |-> 0]

\* cart is the one it works on and owned the user_id it has read there; closes is
\* the cart it will close: the guest's, which a merge takes the units from, or the
\* one checkout found first; seen are the units it has read (0: no item), n those
\* it wants.
AtRest == [does |-> "nothing", at |-> "idle", byUser |-> FALSE, cart |-> 0,
               owned |-> FALSE, closes |-> 0, seen |-> 0, n |-> 0]

CartInit ==
  /\ carts = <<>>
  /\ shopper = [s \in Shoppers |-> AtRest]
  /\ requests = 0 /\ asked = 0 /\ ordered = 0 /\ mixedUp = FALSE

-----------------------------------------------------------------------------
Goal(s, does, at) == shopper[s].does = does /\ shopper[s].at = at

Idle(s) == shopper' = [shopper EXCEPT ![s] = AtRest]

Comes(s, request) ==
  /\ shopper[s] = AtRest
  /\ requests < MaxRequests
  /\ requests' = requests + 1
  /\ shopper' = [shopper EXCEPT ![s] = request]
  /\ UNCHANGED <<carts, ordered>>

\* addItem, updateItem, removeItem, applyCoupon and removeCoupon
StartItem(s, does, byUser) ==
  LET n == IF does \in {"add", "set"} THEN 1 ELSE 0
  IN  /\ Comes(s, [AtRest EXCEPT !.does = does, !.at = "find", !.byUser = byUser, !.n = n])
      /\ asked' = asked + n
      /\ UNCHANGED mixedUp

Merging(s) == shopper[s].does = "merge"

\* merge and checkout look for a cart without the session.
WithoutSession(s) == shopper[s].does \in {"merge", "checkout"}

\* A request has read the units of cart c and is taking them away.
Emptying(s, c) ==
  \/ Goal(s, "checkout", "convert") /\ shopper[s].cart = c
  \/ Merging(s) /\ shopper[s].closes = c

OpenOfUser == {c \in DOMAIN carts : carts[c].status = "open" /\ carts[c].user}

\* getUserCartOrFail, its first look: the cart that the checkout will close.
StartCheckout(s, c) ==
  /\ c \in OpenOfUser
  /\ Comes(s, [AtRest EXCEPT !.does = "checkout", !.at = "find", !.byUser = TRUE,
                             !.closes = c])
  /\ UNCHANGED <<asked, mixedUp>>

\* merge: the open cart of the session, with or without a user.
StartMerge(s, g) ==
  /\ carts[g].session /\ carts[g].status = "open"
  /\ Comes(s, [AtRest EXCEPT !.does = "merge", !.at = "find", !.byUser = TRUE,
                             !.closes = g, !.owned = carts[g].user])
  /\ mixedUp' = (mixedUp \/ \E t \in Shoppers : Emptying(t, g))
  /\ UNCHANGED asked

Candidates(s) ==
  IF shopper[s].byUser /\ OpenOfUser # {} THEN OpenOfUser
  ELSE IF WithoutSession(s) THEN {}
  ELSE {c \in DOMAIN carts : carts[c].status = "open" /\ carts[c].session}

\* getOrCreateCart: a cart that is open, without any order; the user's first.
GetOrCreateCart(s) ==
  /\ shopper[s].at = "find"
  /\ IF Candidates(s) = {}
     THEN shopper' = [shopper EXCEPT ![s].at = "create"]
     ELSE \E c \in Candidates(s) :
            shopper' = [shopper EXCEPT
              ![s].cart = c,
              ![s].owned = IF Merging(s) THEN @ ELSE carts[c].user,
              ![s].at = IF shopper[s].byUser /\ ~carts[c].user THEN "attach" ELSE "read"]
  /\ UNCHANGED <<carts, requests, asked, ordered, mixedUp>>

CreateCart(s) ==
  /\ shopper[s].at = "create"
  /\ Len(carts) < MaxCarts
  /\ carts' = Append(carts, NewCart(shopper[s].byUser, ~WithoutSession(s)))
  /\ shopper' = [shopper EXCEPT ![s].at = "read", ![s].cart = Len(carts'),
                                ![s].owned = IF Merging(s) THEN @ ELSE shopper[s].byUser]
  /\ UNCHANGED <<requests, asked, ordered, mixedUp>>

\* save(cart): all that was read is written again.
SaveCart(c, user, status) ==
  /\ carts' = [carts EXCEPT ![c].user = user, ![c].status = status]
  /\ mixedUp' = (mixedUp \/ carts[c].status # "open")

Attach(s) ==
  /\ shopper[s].at = "attach"
  /\ SaveCart(shopper[s].cart, TRUE, "open")
  /\ shopper' = [shopper EXCEPT ![s].at = "read", ![s].owned = TRUE]
  /\ UNCHANGED <<requests, asked, ordered>>

SaveCoupon(s) ==
  /\ Goal(s, "coupon", "read")
  /\ SaveCart(shopper[s].cart, shopper[s].owned, "open")
  /\ Idle(s)
  /\ UNCHANGED <<requests, asked, ordered>>

RemoveItem(s) ==
  /\ Goal(s, "remove", "read")
  /\ carts' = [carts EXCEPT ![shopper[s].cart].units = 0]
  /\ Idle(s)
  /\ UNCHANGED <<requests, asked, ordered, mixedUp>>

\* The guest's items are read once, and then the user's item.
ReadGuest(s) ==
  /\ Goal(s, "merge", "read")
  /\ shopper' = IF shopper[s].closes = shopper[s].cart
                THEN [shopper EXCEPT ![s] = AtRest]
                ELSE [shopper EXCEPT ![s].n = carts[shopper[s].closes].units,
                                     ![s].at = IF carts[shopper[s].closes].units = 0
                                               THEN "close" ELSE "item"]
  /\ UNCHANGED <<carts, requests, asked, ordered, mixedUp>>

ReadItem(s) ==
  LET units == carts[shopper[s].cart].units
  IN  /\ \/ Goal(s, "add", "read") \/ Goal(s, "merge", "item")
         \/ Goal(s, "set", "read") /\ units > 0
      /\ shopper' = [shopper EXCEPT ![s].seen = units, ![s].at = "save"]
      /\ UNCHANGED <<carts, requests, asked, ordered, mixedUp>>

Smaller(a, b) == IF a < b THEN a ELSE b

NextQuantity(r) ==
  CASE r.does = "add"   -> Smaller(MaxQuantity, r.seen + r.n)
    [] r.does = "set"   -> r.n
    [] r.does = "merge" -> Smaller(Smaller(MaxQuantity, InStock), r.seen + r.n)

\* An item that was found is updated, or inserted again; a new one must be new.
SaveItem(s) ==
  LET r == shopper[s]
  IN  /\ r.at = "save"
      /\ NextQuantity(r) <= InStock
      /\ r.seen > 0 \/ carts[r.cart].units = 0
      /\ carts' = [carts EXCEPT ![r.cart].units = NextQuantity(r)]
      /\ IF Merging(s) THEN shopper' = [shopper EXCEPT ![s].at = "close"] ELSE Idle(s)
      /\ UNCHANGED <<requests, asked, ordered, mixedUp>>

\* Mutant of CloseGuest: the guest's cart stays open.
LeaveGuest(s) ==
  /\ Goal(s, "merge", "close")
  /\ Idle(s)
  /\ UNCHANGED <<carts, requests, asked, ordered, mixedUp>>

CloseGuest(s) ==
  /\ Goal(s, "merge", "close")
  /\ SaveCart(shopper[s].closes, shopper[s].owned, "merged")
  /\ Idle(s)
  /\ UNCHANGED <<requests, asked, ordered>>

\* getUserCartOrFail, the items of the cart that its view has found, for the
\* lines of the order; it must not be empty.
ReadOrder(s) ==
  LET c == shopper[s].cart
  IN  /\ Goal(s, "checkout", "read")
      /\ carts[c].units > 0
      /\ shopper' = [shopper EXCEPT ![s].seen = carts[c].units, ![s].at = "convert"]
      /\ mixedUp' = (mixedUp \/ c # shopper[s].closes \/ carts[c].status # "open"
                             \/ \E t \in Shoppers : Emptying(t, c))
      /\ UNCHANGED <<carts, requests, asked, ordered>>

\* markConverted, in the transaction of the checkout
MarkConverted(s) ==
  /\ Goal(s, "checkout", "convert")
  /\ carts' = [carts EXCEPT ![shopper[s].closes].status = "converted"]
  /\ ordered' = ordered + shopper[s].seen
  /\ Idle(s)
  /\ UNCHANGED <<requests, asked, mixedUp>>

\* OUT_OF_STOCK, an empty cart, a duplicate item, an item that is not there, a crash.
ShopperFails(s) ==
  /\ shopper[s] # AtRest
  /\ Idle(s)
  /\ mixedUp' = (mixedUp \/ Goal(s, "merge", "close"))
  /\ UNCHANGED <<carts, requests, asked, ordered>>

CartNext ==
  \E s \in Shoppers :
    \/ \E does \in {"add", "set", "remove", "coupon"}, byUser \in BOOLEAN :
         StartItem(s, does, byUser)
    \/ \E c \in DOMAIN carts : StartCheckout(s, c) \/ StartMerge(s, c)
    \/ GetOrCreateCart(s) \/ CreateCart(s) \/ Attach(s)
    \/ SaveCoupon(s) \/ RemoveItem(s) \/ ReadGuest(s) \/ ReadItem(s) \/ SaveItem(s)
    \/ CloseGuest(s) \/ ReadOrder(s) \/ MarkConverted(s)
    \/ ShopperFails(s)

CartSpec == CartInit /\ [][CartNext]_cartVars

-----------------------------------------------------------------------------
\* The types of the carts and of the requests.
CartTypeOK ==
  /\ carts \in Seq([user : BOOLEAN, session : BOOLEAN,
                    status : {"open", "merged", "converted"}, units : Nat])
  /\ \A s \in Shoppers : shopper[s].cart \in 0..Len(carts) /\ shopper[s].closes \in 0..Len(carts)
  /\ requests \in Nat /\ asked \in Nat /\ ordered \in Nat /\ mixedUp \in BOOLEAN

\* What cart c offers to be ordered; a merge that has moved its units will close it.
UnitsIn(c) ==
  IF carts[c].status = "open" /\ ~\E s \in Shoppers : Goal(s, "merge", "close") /\ shopper[s].closes = c
  THEN carts[c].units ELSE 0

\* Each unit the visitor asks for is ordered once or in one open cart, at most:
\* merging a cart moves its units and makes no new ones, and neither does any
\* overlap of requests, except when two of them empty one cart, when a merge is
\* cut short, when a save opens a cart again that was emptied meanwhile, or when
\* the two looks of a checkout find different carts, or one that was closed before
\* its items are read.
NoUnitsFromNowhere ==
  \/ mixedUp
  \/ ordered + SumFunctionOnSet([c \in DOMAIN carts |-> UnitsIn(c)], DOMAIN carts) <= asked
=============================================================================
