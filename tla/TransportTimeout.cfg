CONSTANTS
  a = a
  b = b
  None = None
  NotANumber = NotANumber
  Lost = Lost
  Sender = {a, b}
  Kinds = {"session", "httplib2", "async"}
  Sends <- SendsOfBoth
  Answers <- RateLimits
  AcquireTimeout = TRUE
  Metered <- SmallLimits
  Meters <- SmallMeters
  WindowOverride = None
  Minute = 3
  MaxClock = 5
  MaxSends = 2
  MaxAttempts = 2
  BackoffBase = 2
  BackoffCap = 4
  RetryAfterCap = 2
  RetryServerErrors = TRUE
  ServerErrorStatuses <- SERVER_ERROR_STATUSES
  IdempotentMethods <- IDEMPOTENT_METHODS
  RetryUnsafe = FALSE
SPECIFICATION Spec
SYMMETRY AnyOrder
CHECK_DEADLOCK FALSE
INVARIANTS
  TimeoutCostsNothing
