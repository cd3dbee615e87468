SPECIFICATION Spec
CONSTANTS
  s1 = s1
  s2 = s2
  j1 = j1
  j2 = j2
  None = None
  Stocks = {s1, s2}
  MarketOf <- MCMarketOf
  Known = {s1}
  SpotKinds = {"MARKET_BREADTH", "MARKET_MARGIN"}
  Derivatives = {"FUTURES_DAILY"}
  Jobs = {j1, j2}
  Scopes <- MCScopes
  Revisions <- MCRevisions
  MaxFaults = 2
CHECK_DEADLOCK FALSE
SYMMETRY MCSymmetry
PROPERTIES PricesOnlyAdvance 
