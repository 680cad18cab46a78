SPECIFICATION Spec
CONSTANTS
  t1 = t1
  t2 = t2
  Tabs <- MCTabs
  Figures <- MCFigures
  Prices <- MCPrices
  BuyPrice <- MCBuyPrice
  MaxTime = 1
SYMMETRY Symmetry
CHECK_DEADLOCK FALSE
INVARIANTS StampTellsTheAge ResultFollowsTheFigures
PROPERTIES GainsStayBanked
