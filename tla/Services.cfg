SPECIFICATION ServicesSpec
CONSTANTS
  r1 = r1
  r2 = r2
  r3 = r3
  k1 = k1
  v1 = v1
  Requests = {r1, r2, r3}
  Keys = {k1}
  Carts = {c1, c2}
  Variants = {v1, v2}
  NoKey = NoKey
  NoOrder = NoOrder
  NoCart = NoCart
  UsageLimit = 1
  PerUserLimit = 1
  KeyOf <- MCKeyOf
  WithCoupon <- MCWithCoupon
  Units <- MCUnits
  InitStock <- MCStock
  Clerks = {c1, c2}
  Withdrawals = {w1}
  Asked <- MCAsked
  Charge = 3
  Price = 2
  OpeningBalance = 2
  MinWithdrawal = 1
  MaxEntries = 3
  NoClerk = NoClerk
  NoRequest = NoRequest
  Clients = {c1, c2, c3}
  PoolSize = 2
  MaxLookUps = 2
  CacheKeys = {k1, k2}
  PatternKeys = {k2}
  Readers = {h1}
  Writers = {w1}
  Lifetime = 2
  MaxRequest = 1
  MaxVersion = 1
  NoCacheKey = NoCacheKey
  Tabs = {"a", "b"}
  TabCalls <- MCTabCalls
  MaxTokens = 2
  MaxCalls = 2
  Verifiers = {v1, v2}
  OtpMaxAttempts = 2
  MaxCodes = 2
  Shoppers = {s1, s2}
  InStock = 2
  MaxQuantity = 3
  MaxRequests = 4
  MaxCarts = 2
  Goods = {"shoe", "bag"}
  Prices <- MCPrices
  MaxUnits = 2
  Codes = {"FREESHIP", "SHOE"}
  Offer <- MCOffer
  Methods = {"post"}
  Terms <- MCTerms
  Rates <- MCRates
  TaxPercent = 9
  MaxSteps = 3
  NoCode = NoCode
  NoMethod = NoMethod
  NoDeal = NoDeal
  Categories = {c1, c2, c3}
  Editors = {e1, e2}
  NoCategory = NoCategory
  Accounts = {u1, u2, u3}
  Desks = {d1, d2}
  NoAccount = NoAccount
  Products = {p1}
  ShopEditors = {e1, e2}
  MaxChanges = 3
  Skus = {1, 2}
  Browsers = {b1}
  ShelfLimit = 2
  NoRow = NoRow
INVARIANTS
  ServicesTypeOK
  UsageCounted
  AnsweredWithOrder
  ReservedForOrders
  MarkerTellsMoney
  StuckOnlyByTransactions
  StalenessBounded
  StaleOnlyIfOvertaken
  AlarmHasCause
  StaysSignedIn
  CodeUsedOnce
  NoUnitsFromNowhere
  ChargedAsShown
  TreeSound
  SuperAdminRemains
  IndexFollows
  StockFollowsShelf
PROPERTIES
  KeepsAccount
CHECK_DEADLOCK FALSE
