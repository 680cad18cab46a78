SPECIFICATION Spec
CONSTANTS
  Tickets = {t1, t2}
  Runs = {r1, r2}
  Stops = {}
  RiskFree = {}
  Sides = {"buy"}
  None = None
  Provider = "metaapi"
  MaxTime = 2
  MaxDeals = 2
  Overlap = 1
  Lateness = 1
  ChunkSize = 1
  Budget = 0
  SwapLag = 0
  Annotated = {}
SYMMETRY Symmetry
INVARIANTS NoHoles CursorSound BackfillRepairs
CHECK_DEADLOCK FALSE
