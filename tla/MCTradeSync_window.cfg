SPECIFICATION Spec
CONSTANTS
  Tickets = {t1, t2}
  Runs = {r1}
  Stops = {}
  RiskFree = {}
  Sides = {"buy"}
  Annotated = {t1}
  None = None
  Provider = "metaapi"
  MaxTime = 3
  MaxDeals = 2
  Overlap = 1
  Lateness = 0
  SwapLag = 0
  ChunkSize = 1
  Budget = 1
INVARIANTS RowsDescribeTheirPosition
CHECK_DEADLOCK FALSE
