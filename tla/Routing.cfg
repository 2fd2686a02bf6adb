CONSTANTS
  None = None
  Unreachable = Unreachable
  Minute = 2
  WindowOverride = None
  Metered <- SmallLimits
  Requests <- SomeRequests
  Meters <- SmallMeters
  UserCosts = {1, 150}
  MaxClock = 3
  MaxCalls = 3
SPECIFICATION Spec
CHECK_DEADLOCK FALSE
INVARIANTS
  TypeOK
  NoBucketIsOverspent
  GoogleCountsNoMore
  LimiterCoversMeters
  AsThePriceListSays
  OrderDoesNotMatter
  MostSpecificWins
  DriftFailsTheRun
PROPERTIES
  EveryLimitIsABudget
