SPECIFICATION SpecTabs
CONSTANTS
  a1 = a1
  a2 = a2
  a3 = a3
  usd = usd
  Accounts = {a1, a2, a3}
  Runs = {r1}
  Tabs = {t1}
  Logs = {l1, l2}
  Purposes = {"day", "swing"}
  CurrencyOf <- OneCurrency
  None = None
  StaleAfter = 0
  MaxCrashes = 1
  MaxSubmissions = 3
SYMMETRY Symmetry
INVARIANTS LogTellsTheTruth EveryConnectionDrawn
PROPERTIES OnlyRetiredBooksGo ReplacingKeepsBalances
CHECK_DEADLOCK FALSE
