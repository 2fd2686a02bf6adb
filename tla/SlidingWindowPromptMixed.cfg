CONSTANTS
  a = a
  b = b
  d = d
  None = None
  Caller = {a, b, d}
  Limit = 3
  Window = 4
  MinSleep = 1
  Costs = {1,3}
  Timeouts = {None, 1, 2}
  Interruptible = {}
  Readers = {}
  MaxClock = 6
  MaxCalls = 4
SPECIFICATION PromptSpec
SYMMETRY AnyOrder
CHECK_DEADLOCK FALSE
INVARIANTS
  FrontIsAwake
