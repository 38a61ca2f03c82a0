------------------------- MODULE CompositionProofs -------------------------
(***************************************************************************)
(* The parts that MCServices puts in one run share no state.  Each of them *)
(* starts as it does by itself and makes its own steps or none, so the     *)
(* composition implements the specification of every part, and what is     *)
(* proved of a part by itself holds of it there.                           *)
(***************************************************************************)
EXTENDS MCServices, CheckoutProofs, ServiceProofs, CatalogueProofs, WalletProofs

\* A step of all is, for every part, one of its own steps or none.
LEMMA EveryPartSteps ==
  ASSUME [ServicesNext]_servicesVars
  PROVE  /\ scene' = scene
         /\ [Next]_vars /\ [WalletNext]_walletVars
         /\ [PoolNext]_poolVars /\ [CacheNext]_cacheVars
         /\ [SessionNext]_sessionVars /\ [CodesNext]_codesVars
         /\ [CartNext]_cartVars /\ [PricingNext]_pricingVars
         /\ [TreeNext]_treeVars /\ [StaffNext]_staffVars
         /\ [IndexNext]_indexVars /\ [FormNext]_formVars
  <1>1. CASE ServicesNext
    BY <1>1 DEF ServicesNext
  <1>2. CASE UNCHANGED servicesVars
    BY <1>2 DEF servicesVars
  <1> QED
    BY <1>1, <1>2

\* All together they implement the specification of every part.
THEOREM ServicesParts ==
  ServicesSpec => /\ Spec /\ WalletSpec /\ PoolSpec /\ CacheSpec /\ SessionSpec
                  /\ CodesSpec /\ CartSpec /\ PricingSpec /\ TreeSpec /\ StaffSpec
                  /\ IndexSpec /\ FormSpec
  <1>1. ServicesInit => /\ Init /\ WalletInit /\ PoolInit /\ CacheInit /\ SessionInit
                        /\ CodesInit /\ CartInit /\ PricingInit /\ TreeInit /\ StaffInit
                        /\ IndexInit /\ FormInit
    BY DEF ServicesInit
  <1>2. [ServicesNext]_servicesVars =>
          /\ [Next]_vars /\ [WalletNext]_walletVars
          /\ [PoolNext]_poolVars /\ [CacheNext]_cacheVars
          /\ [SessionNext]_sessionVars /\ [CodesNext]_codesVars
          /\ [CartNext]_cartVars /\ [PricingNext]_pricingVars
          /\ [TreeNext]_treeVars /\ [StaffNext]_staffVars
          /\ [IndexNext]_indexVars /\ [FormNext]_formVars
     BY EveryPartSteps
  <1> QED
    BY <1>1, <1>2, PTL
    DEF ServicesSpec, Spec, WalletSpec, PoolSpec, CacheSpec, SessionSpec, CodesSpec, CartSpec,
        PricingSpec, TreeSpec, StaffSpec, IndexSpec, FormSpec

\* In every state of the run that has all the parts, each has the types of its
\* own module: for any requests, clients, products and limits.
THEOREM ServicesTypes == ServicesSpec => []ServicesTypeOK
  <1>1. ServicesInit => scene \in Scenes
    BY DEF ServicesInit
  <1>2. scene \in Scenes /\ [ServicesNext]_servicesVars => (scene \in Scenes)'
    BY EveryPartSteps
  <1>3. ServicesSpec => [](scene \in Scenes)
    BY <1>1, <1>2, PTL DEF ServicesSpec
  <1>4. /\ scene \in Scenes
        /\ TypeOK /\ WalletTypeOK /\ PoolTypeOK /\ CacheTypeOK /\ SessionTypeOK
        /\ CodesTypeOK /\ CartTypeOK /\ PricingTypeOK /\ TreeTypeOK /\ StaffTypeOK
        /\ IndexTypeOK /\ FormTypeOK
        => ServicesTypeOK
    BY DEF ServicesTypeOK
  <1> QED
    BY <1>3, <1>4, ServicesParts, CheckoutTypes, WalletTypes, PoolTyped, CacheTyped, SessionTyped,
       CodesTyped, CartTypes, PricingTyped, TreeTyped, StaffTyped, IndexTyped, FormTyped,
       PTL
=============================================================================
