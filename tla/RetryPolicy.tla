----------------------------- MODULE RetryPolicy -----------------------------
(***************************************************************************)
(* RetryPolicy of retry.py with the functions of errors.py and backoff.py  *)
(* it decides by: which answers are worth another attempt, and how long to *)
(* wait first.  Pure operators; times are ticks.                           *)
(***************************************************************************)
EXTENDS Integers, LetterCase

CONSTANTS MaxAttempts,         \* total tries per request, including the first
          BackoffBase,         \* ceiling of the first delay
          BackoffCap,          \* the ceiling stops doubling here
          RetryAfterCap,       \* longest Retry-After that is honoured
          RetryServerErrors,   \* whether server errors are retried at all
          ServerErrorStatuses, \* which statuses are server errors
          IdempotentMethods,   \* the methods they are retried for ...
          RetryUnsafe,         \* ... or whether they are for every method
          None,                \* Python's None
          NotANumber           \* the nan of floats

\* __post_init__, and a tick small enough to halve every ceiling.
ASSUME PolicyAssumption == /\ MaxAttempts \in Nat \ {0}
                           /\ BackoffBase \in Nat \ {0} /\ BackoffCap \in Nat
                           /\ BackoffCap >= BackoffBase
                           /\ BackoffBase % 2 = 0 /\ BackoffCap % 2 = 0
                           /\ RetryAfterCap \in Nat
                           /\ RetryServerErrors \in BOOLEAN
                           /\ RetryUnsafe \in BOOLEAN
                           /\ ServerErrorStatuses \subseteq Nat
                           /\ {None, NotANumber} \cap Int = {}

TOO_MANY_REQUESTS == 429
FORBIDDEN         == 403

\* The defaults of the two fields.
SERVER_ERROR_STATUSES == {500, 502, 503, 504}
IDEMPOTENT_METHODS    == {"GET", "HEAD", "OPTIONS", "PUT", "DELETE"}

RETRYABLE_REASONS == {"ratelimitexceeded", "userratelimitexceeded"}

\* A body either holds the reasons of a Google error, or nothing that looks like
\* one ("absent"), or an error whose "errors" is a number or true ("scalar").
NoReasons    == [shape |-> "absent", reasons |-> {}]
Because(why) == [shape |-> "error", reasons |-> {why}]
ScalarErrors == [shape |-> "scalar", reasons |-> {}]

\* The loop of _reasons_from_payload raises TypeError on a scalar.
ReasonsInRaises(body) == body.shape = "scalar"
reasons_in(body)      == body.reasons

\* Bug: every 403 is a rate limit.
AnyForbidden(status, reasons) == status \in {TOO_MANY_REQUESTS, FORBIDDEN}

is_rate_limit(status, reasons) ==
    \/ status = TOO_MANY_REQUESTS
    \/ /\ status = FORBIDDEN
       /\ reasons \cap RETRYABLE_REASONS # {}

\* Bug: the method is not looked at.
AnyMethod(method) == TRUE

SafeToRepeat(method) == RetryUnsafe \/ upper(method) \in IdempotentMethods

should_retry_status(method, status, reasons) ==
    \/ is_rate_limit(status, reasons)
    \/ /\ RetryServerErrors
       /\ status \in ServerErrorStatuses
       /\ SafeToRepeat(method)

Capped(ticks, cap) == IF ticks < cap THEN ticks ELSE cap

\* Every delay equal_jitter_delay can draw.
equal_jitter_delays(attempt) ==
    LET ceiling == Capped(BackoffBase * 2^attempt, BackoffCap)
    IN (ceiling \div 2)..ceiling

\* The header as ticks from now (negative: a date in the past), or None when it
\* is absent or unreadable.  "nan" reads as a number, and max and min keep it.
parse_retry_after(header) ==
    IF header \in {None, NotANumber} THEN header ELSE IF header < 0 THEN 0 ELSE header

\* Bug: the server's word is ignored.
IgnoreRetryAfter(attempt, header) == equal_jitter_delays(attempt)

delays_after(attempt, header) ==
    LET hinted == parse_retry_after(header)
    IN CASE hinted = None       -> equal_jitter_delays(attempt)
         [] hinted = NotANumber -> {NotANumber}
         [] OTHER               -> {Capped(hinted, RetryAfterCap)}
=============================================================================
