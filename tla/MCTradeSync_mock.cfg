SPECIFICATION Spec
CONSTANTS
  Tickets = {t1}
  Runs = {r1}
  Stops = {s1, s2}
  RiskFree = {s2}
  Sides = {"sell"}
  Annotated = {t1}
  None = None
  Provider = "mock"
  MaxTime = 2
  MaxDeals = 3
  Overlap = 1
  Lateness = 0
  SwapLag = 1
  ChunkSize = 1
  Budget = 1
INVARIANTS RowsDescribeTheirPosition NoRWithoutRisk
PROPERTIES KeepsAnswers NeverUncounts
CHECK_DEADLOCK FALSE
