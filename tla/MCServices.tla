----------------------------- MODULE MCServices -----------------------------
(***************************************************************************)
(* The parts that share no state with each other, in one run of TLC: a     *)
(* behaviour belongs to one scene, in which one of them takes its own      *)
(* steps and the others stay in their initial state, so that their states  *)
(* add up and do not multiply.  (What does share state is composed within  *)
(* a part: the inventory, the coupon and the key in Checkout, orders,      *)
(* payments and wallet in OrderLifecycle.)  A part's initial state is      *)
(* chosen in its own scene only.                                           *)
(***************************************************************************)
EXTENDS
  MCCheckout, WalletBook, ConnectionPool, CacheAside, Sessions, OneTimeCodes,
  Carts, Pricing, CategoryTree, Staff, ProductIndex, ProductForm

VARIABLE scene     \* the part that moves

Scenes == {"checkout", "wallet", "pool", "cache", "sessions", "codes", "carts",
           "pricing", "categories", "staff", "index", "form"}

ServicesInit ==
  /\ scene \in Scenes
  /\ WalletInit /\ (scene # "wallet" => walletExists)
  /\ CacheInit  /\ (scene # "cache" => online)
  /\ StaffInit  /\ (scene # "staff" => supers = Accounts)
  /\ IndexInit  /\ (scene # "index" => reachable)
  /\ PricingInit
  /\ scene # "pricing" => price["shoe"] = 55 /\ rates.freeOver = 0 /\ terms["post"].cost = 9
  /\ Init /\ PoolInit /\ SessionInit /\ CodesInit /\ CartInit /\ TreeInit
  /\ FormInit

ServicesNext ==
  /\ UNCHANGED scene
  /\ IF scene = "checkout"    THEN Next        ELSE UNCHANGED vars
  /\ IF scene = "wallet"      THEN WalletNext  ELSE UNCHANGED walletVars
  /\ IF scene = "pool"        THEN PoolNext    ELSE UNCHANGED poolVars
  /\ IF scene = "cache"       THEN CacheNext   ELSE UNCHANGED cacheVars
  /\ IF scene = "sessions"    THEN SessionNext ELSE UNCHANGED sessionVars
  /\ IF scene = "codes"       THEN CodesNext   ELSE UNCHANGED codesVars
  /\ IF scene = "carts"       THEN CartNext    ELSE UNCHANGED cartVars
  /\ IF scene = "pricing"     THEN PricingNext ELSE UNCHANGED pricingVars
  /\ IF scene = "categories"  THEN TreeNext    ELSE UNCHANGED treeVars
  /\ IF scene = "staff"       THEN StaffNext   ELSE UNCHANGED staffVars
  /\ IF scene = "index"       THEN IndexNext   ELSE UNCHANGED indexVars
  /\ IF scene = "form"        THEN FormNext    ELSE UNCHANGED formVars

servicesVars ==
  <<scene, vars, walletVars, poolVars, cacheVars, sessionVars, codesVars,
    cartVars, pricingVars, treeVars, staffVars, indexVars, formVars>>

ServicesSpec == ServicesInit /\ [][ServicesNext]_servicesVars

-----------------------------------------------------------------------------
MCAsked == [w \in Withdrawals |-> 2]

MCTabCalls == {<<"a", 1>>, <<"a", 2>>, <<"b", 1>>}

MCPrices == [g \in Goods |-> IF g = "shoe" THEN {22, 55} ELSE {30}]

\* 10 per cent of a cart of 50 or more, and shipping; 30 off the shoe, at most 25.
MCOffer ==
  [c \in Codes |->
     IF c = "FREESHIP"
     THEN [percent |-> TRUE, value |-> 10, max |-> 0, minCart |-> 50,
           everywhere |-> TRUE, scope |-> {}, shipsFree |-> TRUE]
     ELSE [percent |-> FALSE, value |-> 30, max |-> 25, minCart |-> 0,
           everywhere |-> FALSE, scope |-> {"shoe"}, shipsFree |-> FALSE]]

MCTerms ==
  {[offered |-> TRUE,  cost |-> 9, freeAbove |-> {}],
   [offered |-> TRUE,  cost |-> 5, freeAbove |-> {50}],
   [offered |-> FALSE, cost |-> 0, freeAbove |-> {}]}

MCRates == {[flat |-> 7, freeOver |-> 0], [flat |-> 7, freeOver |-> 80]}

-----------------------------------------------------------------------------
\* The types of everything.
ServicesTypeOK ==
  /\ scene \in Scenes
  /\ TypeOK /\ WalletTypeOK /\ PoolTypeOK /\ CacheTypeOK /\ SessionTypeOK
  /\ CodesTypeOK /\ CartTypeOK /\ PricingTypeOK /\ TreeTypeOK /\ StaffTypeOK /\ IndexTypeOK
  /\ FormTypeOK
=============================================================================
