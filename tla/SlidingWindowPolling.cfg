CONSTANTS
  a = a
  b = b
  d = d
  None = None
  Caller = {a, b, d}
  Limit = 2
  Window = 2
  MinSleep = 1
  Costs = {1, 2}
  Timeouts = {None, 0, 1}
  Interruptible = {a}
  Readers = {}
  MaxClock = 4
  MaxCalls = 3
SPECIFICATION Spec
SYMMETRY AnyOrder
CHECK_DEADLOCK FALSE
INVARIANTS
  TypeOK
  WithinLimit
  LineIsLive
  StatsAgree
  EveryCallAccountedFor
PROPERTIES
  ServedInArrivalOrder
  RefusedForCause
  ImplementsLine
