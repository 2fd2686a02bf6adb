CONSTANTS
  a = a
  b = b
  d = d
  None = None
  Caller = {a, b, d}
  Limit = 2
  Window = 4
  MinSleep = 2
  Costs = {1}
  Timeouts = {None, 1, 2}
  Interruptible = {a}
  Readers = {}
  MaxClock = 6
  MaxCalls = 5
SPECIFICATION PromptSpec
SYMMETRY AnyOrder
CHECK_DEADLOCK FALSE
INVARIANTS
  EndsByDeadline
  FrontIsAwake
