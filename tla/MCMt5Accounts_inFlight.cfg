SPECIFICATION SpecTabs
CONSTANTS
  a1 = a1
  a2 = a2
  a3 = a3
  usd = usd
  Accounts = {a1, a2, a3}
  Runs = {r1}
  Tabs = {t1}
  Logs = {l1}
  Purposes = {"day", "swing"}
  CurrencyOf <- OneCurrency
  None = None
  StaleAfter = 0
  MaxCrashes = 0
  MaxSubmissions = 3
PROPERTIES OnlyConnectionsAreSynced
CHECK_DEADLOCK FALSE
