SPECIFICATION FairSpec
CONSTANTS
  a1 = a1
  usd = usd
  Accounts = {a1}
  Runs = {r1, r2}
  Logs = {l1, l2, l3}
  Purposes = {}
  CurrencyOf <- OneCurrency
  None = None
  StaleAfter = 1
  MaxCrashes = 1
INVARIANTS TypeOK
PROPERTIES KeepsRunLog RepairNeedsNoBroker
