---------------------------- MODULE PacedTransport ----------------------------
(***************************************************************************)
(* The three transports over one shared limiter: RateLimitedSession.send,  *)
(* RateLimitedHttp.request and the send of rate_limited_session.  Each     *)
(* pays the bucket, sends, and decides whether to back off and try again.  *)
(* The limiter is QuotaLimiter, which knows the bucket and the cost of     *)
(* each request, next to the meters of Google; Google, the network and the *)
(* clients that call send are the environment.                             *)
(*                                                                         *)
(* A send is a sequence of requests: one for the synchronous transports,   *)
(* any number for the asynchronous one.                                    *)
(***************************************************************************)
EXTENDS RetryPolicy, SequencesExt

CONSTANTS Sender,         \* threads and tasks that send
          Kinds,          \* the transports in use: "session", "httplib2", "async"
          Sends,          \* the sequences of requests that may be sent
          Answers,        \* what Google answers; Lost is no answer at all
          Lost,
          AcquireTimeout, \* whether acquire_timeout is set
          Metered,        \* the profiles of the limiter ...
          WindowOverride, \* ... its window argument, or None ...
          Minute,         \* ... and the window of the shipped profiles
          Meters,         \* what Google counts: a limit and a window for each meter
          MaxClock,       \* bound on the clock
          MaxSends        \* bound on the number of sends

VARIABLES clock,    \* time.monotonic
          grants,   \* every charge made to each bucket
          line,     \* who waits at each bucket, in order
          pc,       \* where each sender is
          kind,     \* the transport it sends through
          requests, \* what it sends
          paid,     \* how many charges of this round are paid
          attempts, \* attempts so far
          answer,   \* the last answer
          wake,     \* when the delay before the next attempt is over
          outcome,  \* how its last send ended
          begun,    \* history: sends begun
          charged,  \* history: what this send has been charged, in order
          answered, \* history: when the last answer came
          effects,  \* history: how often this send may have taken effect
          arrivals, \* history: what reached Google, in order
          punctual  \* history: nothing paid for was ever held up before it left

buckets == <<clock, grants, line>>
history == <<begun, charged, answered, effects, arrivals, punctual>>
vars == <<buckets, pc, kind, requests, paid, attempts, answer, wake, outcome, history>>

Limiter == INSTANCE GoogleMeters WITH
    Requests <- UNION {ToSet(rs) : rs \in Sends}, UserCosts <- {}, MaxCalls <- 0,
    sent <- arrivals

ASSUME SenderAssumption == IsFiniteSet(Sender)
ASSUME LimiterAssumption == Limiter!MeteredAssumption
ASSUME KindsAssumption == Kinds \subseteq {"session", "httplib2", "async"}
ASSUME SendsAssumption == \A rs \in Sends : rs \in Seq(ToSet(rs))
ASSUME AnswersAssumption ==
    \A reply \in Answers : /\ reply.status \in Nat
                           /\ reply.hint \in Int \cup {None, NotANumber}

NoAnswer == [status |-> 0, body |-> NoReasons, hint |-> None]

Init == /\ Limiter!Init
        /\ line = [key \in DOMAIN Limiter!Buckets |-> <<>>]
        /\ pc = [s \in Sender |-> "idle"]
        /\ kind = [s \in Sender |-> "session"]
        /\ requests = [s \in Sender |-> <<>>]
        /\ paid = [s \in Sender |-> 0]
        /\ attempts = [s \in Sender |-> 0]
        /\ answer = [s \in Sender |-> NoAnswer]
        /\ wake = [s \in Sender |-> 0]
        /\ outcome = [s \in Sender |-> "none"]
        /\ begun = 0
        /\ charged = [s \in Sender |-> <<>>]
        /\ effects = [s \in Sender |-> 0]
        /\ answered = [s \in Sender |-> 0]
        /\ punctual = TRUE

\* What a send is charged each time: a bucket and a cost for every request that
\* a profile claims.  The others, which have no route, are never charged.
AsCharges(route) == IF route = None THEN <<>> ELSE <<route>>

DueOf(request) == AsCharges(Limiter!Routes[request])

DueFor(rs) == FlattenSeq([i \in DOMAIN rs |-> DueOf(rs[i])])

Due(s) == DueFor(requests[s])

Method(s) == requests[s][1].method

\* The synchronous transports retry what a profile claims, the asynchronous one
\* whatever it sends alone.
Retries(s) == IF kind[s] = "async" THEN Len(requests[s]) = 1 ELSE Due(s) # <<>>

-----------------------------------------------------------------------------
\* The operations.

\* A client sends, through one of the transports.
Send(s) ==
    /\ pc[s] = "idle"
    /\ begun < MaxSends
    /\ \E k \in Kinds, rs \in Sends :
          /\ k # "async" => Len(rs) = 1
          /\ kind' = [kind EXCEPT ![s] = k]
          /\ requests' = [requests EXCEPT ![s] = rs]
    /\ pc' = [pc EXCEPT ![s] = "acquire"]
    /\ paid' = [paid EXCEPT ![s] = 0]
    /\ attempts' = [attempts EXCEPT ![s] = 0]
    /\ answer' = [answer EXCEPT ![s] = NoAnswer]
    /\ outcome' = [outcome EXCEPT ![s] = "none"]
    /\ begun' = begun + 1
    /\ charged' = [charged EXCEPT ![s] = <<>>]
    /\ effects' = [effects EXCEPT ![s] = 0]
    /\ answered' = [answered EXCEPT ![s] = 0]
    /\ UNCHANGED <<buckets, wake, arrivals, punctual>>

NextDue(s) == Due(s)[paid[s] + 1]

AtTheBucket(s, key) ==
    pc[s] = "acquire" /\ paid[s] < Len(Due(s)) /\ NextDue(s).key = key

\* A bucket serves the front of its line, or whoever comes while nobody waits.
AtTheFront(s, key) == line[key] # <<>> => Head(line[key]) = s

\* The next claimed request is paid for, and its place in line is given up.
Acquire(s) ==
    /\ \E key \in DOMAIN Limiter!Buckets :
          /\ AtTheBucket(s, key)
          /\ Limiter!Accepts(key, NextDue(s).cost)
          /\ AtTheFront(s, key)
          /\ Limiter!Charge(key, NextDue(s).cost)
          /\ line' = [line EXCEPT ![key] = IF @ = <<>> THEN @ ELSE Tail(@)]
    /\ charged' = [charged EXCEPT ![s] = Append(@, NextDue(s))]
    /\ paid' = [paid EXCEPT ![s] = @ + 1]
    /\ UNCHANGED <<clock, pc, kind, requests, attempts, answer, wake, outcome,
                   begun, answered, effects, arrivals, punctual>>

End(s, how) == /\ pc' = [pc EXCEPT ![s] = "idle"]
               /\ outcome' = [outcome EXCEPT ![s] = how]

\* The bucket raises ValueError: its limit is below the cost of the request.
Refuse(s) ==
    /\ \E key \in DOMAIN Limiter!Buckets :
          AtTheBucket(s, key) /\ ~Limiter!Accepts(key, NextDue(s).cost)
    /\ End(s, "refused")
    /\ UNCHANGED <<buckets, kind, requests, paid, attempts, answer, wake, history>>

Waits(s, key) == \E place \in DOMAIN line[key] : line[key][place] = s

\* A poll finds no room or somebody in front, and the call joins the line.
Wait(s) ==
    /\ \E key \in DOMAIN Limiter!Buckets :
          /\ AtTheBucket(s, key)
          /\ Limiter!Accepts(key, NextDue(s).cost)
          /\ ~(AtTheFront(s, key) /\ Limiter!HasRoom(key, NextDue(s).cost))
          /\ ~Waits(s, key)
          /\ line' = [line EXCEPT ![key] = Append(@, s)]
    /\ UNCHANGED <<clock, grants, pc, kind, requests, paid, attempts, answer, wake,
                   outcome, history>>

\* The deadline of a call that was refused is over: it leaves the line, and the
\* QuotaTimeoutError of the bucket leaves the transport.
TimeOut(s) ==
    /\ AcquireTimeout
    /\ \E key \in DOMAIN Limiter!Buckets :
          /\ AtTheBucket(s, key)
          /\ \E place \in DOMAIN line[key] :
                /\ line[key][place] = s
                /\ line' = [line EXCEPT ![key] = RemoveAt(@, place)]
    /\ End(s, "timeout")
    /\ UNCHANGED <<clock, grants, kind, requests, paid, attempts, answer, wake, history>>

\* Whether what was sent has taken effect when this is what comes back: a
\* rejection has not, a success has, and after a 5xx or silence nobody knows.
MayHaveApplied(reply) ==
    IF reply = Lost \/ reply.status >= 500 THEN {0, 1}
    ELSE IF reply.status < 400 THEN {1} ELSE {0}

\* What is sent reaches Google, and Google's answer or an error comes back, all in
\* one tick.  A send that is not retried hands either back as it is.
Transmit(s) ==
    /\ pc[s] = "acquire"
    /\ paid[s] = Len(Due(s))
    /\ arrivals' = arrivals \o
          [i \in DOMAIN requests[s] |-> [at |-> clock, request |-> requests[s][i]]]
    /\ attempts' = [attempts EXCEPT ![s] = @ + 1]
    /\ \E reply \in Answers \cup {Lost} :
          /\ answer' = [answer EXCEPT ![s] = IF reply = Lost THEN NoAnswer ELSE reply]
          /\ answered' = [answered EXCEPT ![s] = clock]
          /\ \E applied \in MayHaveApplied(reply) :
                effects' = [effects EXCEPT ![s] = @ + applied]
          /\ IF reply = Lost \/ ~Retries(s)
             THEN End(s, IF reply = Lost THEN "lost" ELSE "answered")
             ELSE pc' = [pc EXCEPT ![s] = "judge"] /\ UNCHANGED outcome
    /\ UNCHANGED <<buckets, kind, requests, paid, wake, begun, charged, punctual>>

\* requests sessions look into the body of anything but a 429, httplib2 into
\* every body, and the asynchronous transport into that of an error.
LooksInside(s) ==
    CASE kind[s] = "session"  -> answer[s].status # TOO_MANY_REQUESTS
      [] kind[s] = "httplib2" -> TRUE
      [] kind[s] = "async"    -> answer[s].status >= 400

\* The TypeError of reasons_in leaves the transport.
Crash(s) ==
    /\ pc[s] = "judge"
    /\ LooksInside(s) /\ ReasonsInRaises(answer[s].body)
    /\ End(s, "crashed")
    /\ UNCHANGED <<buckets, kind, requests, paid, attempts, answer, wake, history>>

WorthRetrying(s) ==
    should_retry_status(Method(s), answer[s].status, reasons_in(answer[s].body))

\* Bug: off by one, each way.
OneAttemptLess(s) == attempts[s] >= MaxAttempts - 1
OneAttemptMore(s) == attempts[s] > MaxAttempts

NoAttemptsLeft(s) == attempts[s] >= MaxAttempts

Judges(s) == /\ pc[s] = "judge"
             /\ ~(LooksInside(s) /\ ReasonsInRaises(answer[s].body))

\* The answer, or the client's own error for it, is handed back.
HandBack(s) ==
    /\ Judges(s)
    /\ ~WorthRetrying(s) \/ NoAttemptsLeft(s)
    /\ End(s, "answered")
    /\ UNCHANGED <<buckets, kind, requests, paid, attempts, answer, wake, history>>

\* The asynchronous transport never sees the header.
RetryAfter(s) == IF kind[s] = "async" THEN None ELSE answer[s].hint

Delays(s) == delays_after(attempts[s] - 1, RetryAfter(s))

TriesAgain(s) == Judges(s) /\ WorthRetrying(s) /\ ~NoAttemptsLeft(s)

\* Nobody can sleep for nan seconds: the ValueError leaves the transport.
SleepRaises(s) ==
    /\ TriesAgain(s)
    /\ NotANumber \in Delays(s)
    /\ End(s, "crashed")
    /\ UNCHANGED <<buckets, kind, requests, paid, attempts, answer, wake, history>>

BackOff(s) ==
    /\ TriesAgain(s)
    /\ \E delay \in Delays(s) \ {NotANumber} :
          wake' = [wake EXCEPT ![s] = clock + delay]
    /\ pc' = [pc EXCEPT ![s] = "backoff"]
    /\ UNCHANGED <<buckets, kind, requests, paid, attempts, answer, outcome, history>>

\* Bug: the retry is not paid for.
ResumePaid(s) == UNCHANGED paid

\* Every attempt starts by paying.
StartOver(s) == paid' = [paid EXCEPT ![s] = 0]

Resume(s) ==
    /\ pc[s] = "backoff"
    /\ clock >= wake[s]
    /\ StartOver(s)
    /\ wake' = [wake EXCEPT ![s] = 0]
    /\ pc' = [pc EXCEPT ![s] = "acquire"]
    /\ UNCHANGED <<buckets, kind, requests, attempts, answer, outcome, history>>

Holding(s) == pc[s] = "acquire" /\ paid[s] > 0

Tick == /\ clock < MaxClock
        /\ clock' = clock + 1
        /\ punctual' = (punctual /\ \A s \in Sender : ~Holding(s))
        /\ UNCHANGED <<grants, line, pc, kind, requests, paid, attempts, answer, wake, outcome,
                       begun, charged, answered, effects, arrivals>>

Step(s) == \/ Send(s)
           \/ Acquire(s)
           \/ Refuse(s)
           \/ Wait(s)
           \/ TimeOut(s)
           \/ Transmit(s)
           \/ Crash(s)
           \/ HandBack(s)
           \/ SleepRaises(s)
           \/ BackOff(s)
           \/ Resume(s)

Next == Tick \/ \E s \in Sender : Step(s)

Spec == Init /\ [][Next]_vars

-----------------------------------------------------------------------------
\* What must hold.

TypeOK ==
    /\ clock \in Nat
    /\ line \in [DOMAIN Limiter!Buckets -> Seq(Sender)]
    /\ pc \in [Sender -> {"idle", "acquire", "judge", "backoff"}]
    /\ kind \in [Sender -> {"session", "httplib2", "async"}]
    /\ requests \in [Sender -> Sends \cup {<<>>}]
    /\ paid \in [Sender -> Nat]
    /\ attempts \in [Sender -> 0..MaxAttempts]
    /\ answer \in [Sender -> Answers \cup {NoAnswer}]
    /\ wake \in [Sender -> Int]
    /\ outcome \in [Sender -> {"none", "refused", "timeout", "lost", "crashed", "answered"}]
    /\ answered \in [Sender -> Nat]
    /\ effects \in [Sender -> Nat]

\* A write that may have taken effect is never sent again, unless the policy says
\* so: a 5xx leaves it unknown whether a POST was applied, and values:append
\* applied twice is a duplicated row.
NoWriteIsRepeated ==
    \A s \in Sender :
        (requests[s] # <<>> /\ upper(Method(s)) \notin IdempotentMethods /\ ~RetryUnsafe)
            => effects[s] <= 1

\* Every attempt is paid for, once, at the right bucket and before it leaves,
\* retries included; what nobody claims is never charged.
EveryAttemptIsPaidOnce ==
    \A s \in Sender :
        LET rounds == FlattenSeq([i \in 1..attempts[s] |-> Due(s)])
            held   == IF pc[s] = "acquire" \/ outcome[s] \in {"timeout", "refused"}
                      THEN SubSeq(Due(s), 1, paid[s]) ELSE <<>>
        IN charged[s] = rounds \o held

\* A failure worth another attempt is handed back only when the attempts of the
\* policy are spent, whichever transport it came through.
GivesUpOnlyWhenSpent ==
    \A s \in Sender :
        (outcome[s] = "answered" /\ Retries(s) /\ WorthRetrying(s))
            => attempts[s] = MaxAttempts

\* Only a rate limit or a server error is ever sent again: never a success, and
\* never a 403 that means no permission or no quota until tomorrow.
OnlyTransientFailuresAreRepeated ==
    [][\A s \in Sender : (attempts[s] > 0 /\ attempts'[s] > attempts[s]) =>
         \/ answer[s].status \in ServerErrorStatuses \cup {TOO_MANY_REQUESTS}
         \/ /\ answer[s].status = FORBIDDEN
            /\ answer[s].body.reasons \cap RETRYABLE_REASONS # {}]_vars

\* No attempt leaves before the Retry-After of the last answer is over, as far as
\* retry_after_cap goes.
Honours(s) ==
    (attempts[s] > 0 /\ attempts'[s] > attempts[s] /\ answer[s].hint \in Int)
        => \/ clock >= answered[s] + answer[s].hint
           \/ clock >= answered[s] + RetryAfterCap

\* The synchronous transports hear the server out ...
SyncHonoursRetryAfter == [][\A s \in Sender : kind[s] # "async" => Honours(s)]_vars

\* ... and so should every transport: README.md, "A Retry-After header, when
\* present, takes precedence over the computed delay".
HonoursRetryAfter == [][\A s \in Sender : Honours(s)]_vars

\* What reaches Google within any window fits the limit of each meter.
GoogleSeesNoMore == Limiter!GoogleCountsNoMore

\* As long as every request leaves in the tick in which it is paid for, no meter of
\* Google counts more than its limit, however many transports share the limiter
\* and however often they retry.
PunctualTrafficFits == punctual => GoogleSeesNoMore

\* A send is refused with a ValueError only for a request whose price alone is above
\* what Google allows its meter, and before anything of it has left: never for one
\* that fits, and never for a retry of what fitted before.
RefusedOnlyAboveTheLimit ==
    \A s \in Sender : outcome[s] = "refused" =>
        /\ attempts[s] = 0
        /\ \E request \in ToSet(requests[s]) :
              /\ request.meter \in DOMAIN Meters
              /\ request.price > Meters[request.meter].limit

\* README.md on QuotaTimeoutError: "No quota is consumed when it raises".
TimeoutCostsNothing ==
    \A s \in Sender : outcome[s] = "timeout" => charged[s] = <<>>

\* The docstring of reasons_in: "a malformed body must not turn a rejected request
\* into a crash inside the transport"; nor must a header, parse_retry_after says,
\* whose result is "never negative, or None if the header is absent or unparseable".
NoAnswerCrashes == \A s \in Sender : outcome[s] # "crashed"
=============================================================================
