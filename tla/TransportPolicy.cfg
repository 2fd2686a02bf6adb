CONSTANTS
  a = a
  b = b
  None = None
  NotANumber = NotANumber
  Lost = Lost
  Sender = {a}
  Kinds = {"session", "httplib2", "async"}
  Sends <- SendsOfAll
  Answers <- AllAnswers
  AcquireTimeout = TRUE
  Metered <- SmallLimits
  Meters <- SmallMeters
  WindowOverride = None
  Minute = 2
  MaxClock = 6
  MaxSends = 2
  MaxAttempts = 3
  BackoffBase = 2
  BackoffCap = 4
  RetryAfterCap = 2
  RetryServerErrors = TRUE
  ServerErrorStatuses <- SERVER_ERROR_STATUSES
  IdempotentMethods <- IDEMPOTENT_METHODS
  RetryUnsafe = FALSE
SPECIFICATION Spec
CHECK_DEADLOCK FALSE
INVARIANTS
  TypeOK
  NoWriteIsRepeated
  EveryAttemptIsPaidOnce
  GivesUpOnlyWhenSpent
  RefusedOnlyAboveTheLimit
PROPERTIES
  OnlyTransientFailuresAreRepeated
  SyncHonoursRetryAfter
