SPECIFICATION MCSpec
CONSTANTS
  N = 3
  Overlap = 2
  Chunk = 1
  Budget = 3
  Window = 2
  Floor = 2
  Currencies = {"GBP", "USD"}
  QuotedIn <- AllInPounds
  Book <- FirstTwo
  Markets <- OneMarket
  MaxDeaths = 1
  MaxMoves = 1
INVARIANTS CreditsSpentOnce FloorHolds
PROPERTIES NoneWaitsForEver MarkedInTheEnd
