CONSTANTS
  a = a
  b = b
  d = d
  None = None
  Caller = {a, b}
  Limit = 2
  Window = 3
  MinSleep = 2
  Costs = {1, 2, 3}
  Timeouts = {None, 0, 2}
  Interruptible = {}
  Readers = {b}
  MaxClock = 5
  MaxCalls = 3
SPECIFICATION Spec
SYMMETRY AnyOrder
CHECK_DEADLOCK FALSE
INVARIANTS
  LedgerAgrees
  LogIsBounded
  DecidesOnTheWindow
  OversleepIsBounded
  WalkFindsRoom
PROPERTIES
  PauseIsExact
  ImplementsBudget
