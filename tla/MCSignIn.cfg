SPECIFICATION Spec
CONSTANTS
  Requests = {r1, r2}
  Sessions = {s1, s2}
  IdleTTL = 3
  RefreshAfter = 1
  AbsoluteTTL = 4
  MaxAttempts = 2
  Slots = {k1, k2}
  MaxCalls = 2
  None = None
SYMMETRY Symmetry
INVARIANTS RollingWindow CodeSpentOnce OnlyTheLastIssue ChallengePassedOnce LinkWorksOnce OldSessionsEnd
CHECK_DEADLOCK FALSE
