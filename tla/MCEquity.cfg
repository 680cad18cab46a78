SPECIFICATION Spec
CONSTANTS
  Profits <- MCProfits
  Gaps <- MCGaps
  StartBalance = 1
  DayLength = 2
  MaxTrades = 6
CHECK_DEADLOCK FALSE
INVARIANTS SwingsAreTheWidest UnderwaterIsTheLongest
