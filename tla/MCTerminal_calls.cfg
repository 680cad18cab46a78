SPECIFICATION Spec
CONSTANTS
  c1 = c1
  c2 = c2
  i1 = i1
  i2 = i2
  Calls <- TwoCalls
  Ids <- TwoRegistrations
  None = None
  ReadyTimeout = 1
  KeepDeployed = FALSE
  MaxTroubles = 1
INVARIANTS FailureIsForgotten AwaitedIsCarriedOn RegistersOnce GoodSyncHandsBack
PROPERTIES ReadsWhatIsUp EveryCallEnds
CHECK_DEADLOCK FALSE
