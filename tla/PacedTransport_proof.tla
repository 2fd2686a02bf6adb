------------------------- MODULE PacedTransport_proof -------------------------
(***************************************************************************)
(* Proofs about PacedTransport, for any senders, transports, requests,     *)
(* answers, limiter and policy: what is sent again, how often and when.    *)
(***************************************************************************)
EXTENDS PacedTransport, RecursionTheorems

-----------------------------------------------------------------------------
\* The policy.

\* What is worth another attempt: a rate limit, or a server error of a request
\* that may be repeated.
LEMMA WorthIt ==
    ASSUME NEW s \in Sender, WorthRetrying(s)
    PROVE  \/ answer[s].status = TOO_MANY_REQUESTS
           \/ /\ answer[s].status = FORBIDDEN
              /\ answer[s].body.reasons \cap RETRYABLE_REASONS # {}
           \/ /\ answer[s].status \in ServerErrorStatuses
              /\ RetryUnsafe \/ upper(Method(s)) \in IdempotentMethods
BY DEF WorthRetrying, should_retry_status, is_rate_limit, SafeToRepeat, reasons_in

\* A delay is a whole number of ticks ...
LEMMA DelaysAreInts ==
    \A attempt : \A header \in Int \cup {None, NotANumber} :
        \A delay \in delays_after(attempt, header) \ {NotANumber} : delay \in Int
<1> SUFFICES ASSUME NEW attempt, NEW header \in Int \cup {None, NotANumber},
                    NEW delay \in delays_after(attempt, header) \ {NotANumber}
             PROVE  delay \in Int
  OBVIOUS
<1>1. None \notin Int /\ NotANumber \notin Int /\ RetryAfterCap \in Nat
  BY PolicyAssumption
<1>2. CASE header \in Int
  BY <1>1, <1>2 DEF delays_after, parse_retry_after, Capped
<1>3. CASE header = None
  <2>1. delay \in equal_jitter_delays(attempt)
    BY <1>3 DEF delays_after, parse_retry_after
  <2>2. QED BY <2>1 DEF equal_jitter_delays
<1>4. CASE header = NotANumber /\ header # None
  <2>1. delays_after(attempt, header) = {NotANumber}
    BY <1>4 DEF delays_after, parse_retry_after
  <2>2. QED BY <2>1
<1>5. QED BY <1>2, <1>3, <1>4

\* ... and for an answer with a readable header it is the header, neither below
\* zero nor above the cap.
LEMMA DelaysHeedTheHeader ==
    \A attempt : \A header \in Int : \A delay \in delays_after(attempt, header) :
        \/ delay >= header /\ delay >= 0
        \/ delay = RetryAfterCap
<1> SUFFICES ASSUME NEW attempt, NEW header \in Int,
                    NEW delay \in delays_after(attempt, header)
             PROVE  \/ delay >= header /\ delay >= 0
                    \/ delay = RetryAfterCap
  OBVIOUS
<1>1. None \notin Int /\ NotANumber \notin Int /\ RetryAfterCap \in Nat
  BY PolicyAssumption
<1>2. parse_retry_after(header) = IF header < 0 THEN 0 ELSE header
  BY <1>1 DEF parse_retry_after
<1>3. delay = Capped(parse_retry_after(header), RetryAfterCap)
  BY <1>1, <1>2 DEF delays_after
<1>4. QED BY <1>1, <1>2, <1>3 DEF Capped

-----------------------------------------------------------------------------
\* The invariant, sender by sender.

\* On its way to an attempt.
InFlight(s) == pc[s] \in {"acquire", "backoff"}

\* An attempt that is to come is within the policy, and if it is not the first,
\* the last answer deserved it.
Deserved(s) == InFlight(s) => /\ attempts[s] < MaxAttempts
                              /\ attempts[s] > 0 => WorthRetrying(s)

\* No write that may have been applied is on its way again.
Unrepeatable(s) ==
    requests[s] # <<>> /\ upper(Method(s)) \notin IdempotentMethods /\ ~RetryUnsafe

AtMostOnce(s) ==
    Unrepeatable(s) =>
        /\ effects[s] <= 1
        /\ InFlight(s) => effects[s] = 0
        /\ (pc[s] = "judge" /\ effects[s] = 1)
               => answer[s].status >= 500 \/ answer[s].status < 400

\* A synchronous sender waits until the server's pause, or the cap, is over.
Late(s, now) == now >= answered[s] + answer[s].hint \/ now >= answered[s] + RetryAfterCap

HeardOut(s) ==
    (kind[s] # "async" /\ attempts[s] > 0 /\ answer[s].hint \in Int) =>
        /\ pc[s] = "backoff" => Late(s, wake[s])
        /\ pc[s] = "acquire" => Late(s, clock)

Spent(s) == (outcome[s] = "answered" /\ Retries(s) /\ WorthRetrying(s))
                => attempts[s] = MaxAttempts

Undecided(s) == pc[s] # "idle" => outcome[s] = "none"

Good(s) == /\ Undecided(s)
           /\ Deserved(s)
           /\ AtMostOnce(s)
           /\ HeardOut(s)
           /\ Spent(s)
           /\ answered[s] <= clock

IInv == TypeOK /\ \A s \in Sender : Good(s)

\* Everything the invariant says of a sender stays true while that sender rests.
LEMMA Resting ==
    ASSUME TypeOK, NEW t \in Sender, Good(t),
           pc'[t] = pc[t], kind'[t] = kind[t], requests'[t] = requests[t],
           attempts'[t] = attempts[t], answer'[t] = answer[t], wake'[t] = wake[t],
           outcome'[t] = outcome[t], answered'[t] = answered[t], effects'[t] = effects[t],
           clock' \in {clock, clock + 1}
    PROVE  Good(t)'
<1>1. /\ clock \in Nat /\ clock' \in Nat /\ clock' >= clock
      /\ answered[t] \in Nat /\ RetryAfterCap \in Nat
  BY PolicyAssumption DEF TypeOK
<1>2. Deserved(t)'
  BY DEF Good, Deserved, InFlight, WorthRetrying, Method
<1>3. AtMostOnce(t)'
  BY DEF Good, AtMostOnce, Unrepeatable, InFlight, Method
<1>4. HeardOut(t)'
  BY <1>1 DEF Good, HeardOut, Late
<1>5. Spent(t)'
  BY DEF Good, Spent, Retries, Due, WorthRetrying, Method
<1>6. answered'[t] <= clock'
  BY <1>1 DEF Good
<1>7. QED BY <1>2, <1>3, <1>4, <1>5, <1>6 DEF Good, Undecided

\* What the last answer of a sender is made of.
LEMMA AnswerParts ==
    ASSUME TypeOK, NEW s \in Sender
    PROVE  answer[s].status \in Nat /\ answer[s].hint \in Int \cup {None, NotANumber}
BY AnswersAssumption DEF TypeOK, NoAnswer

\* A send begins with nothing attempted.
LEMMA SendStep ==
    ASSUME IInv, NEW s \in Sender, Send(s)
    PROVE  IInv'
<1>1. PICK k \in Kinds, rs \in Sends : /\ kind' = [kind EXCEPT ![s] = k]
                                       /\ requests' = [requests EXCEPT ![s] = rs]
  BY DEF Send
<1>2. /\ pc' = [pc EXCEPT ![s] = "acquire"]
      /\ paid' = [paid EXCEPT ![s] = 0]
      /\ attempts' = [attempts EXCEPT ![s] = 0]
      /\ answer' = [answer EXCEPT ![s] = NoAnswer]
      /\ outcome' = [outcome EXCEPT ![s] = "none"]
      /\ effects' = [effects EXCEPT ![s] = 0]
      /\ answered' = [answered EXCEPT ![s] = 0]
      /\ clock' = clock /\ line' = line /\ wake' = wake
  BY DEF Send, buckets
<1>3. TypeOK'
  BY <1>1, <1>2, KindsAssumption, PolicyAssumption DEF IInv, TypeOK
<1>4. ASSUME NEW t \in Sender PROVE Good(t)'
  <2>1. CASE t = s
    <3>1. pc'[s] = "acquire" /\ attempts'[s] = 0 /\ outcome'[s] = "none"
          /\ effects'[s] = 0 /\ answered'[s] = 0
      BY <1>2 DEF IInv, TypeOK
    <3>2. clock' >= 0 /\ MaxAttempts > 0
      BY <1>2, PolicyAssumption DEF IInv, TypeOK
    <3>3. QED BY <2>1, <3>1, <3>2
              DEF Good, Undecided, Deserved, AtMostOnce, HeardOut, Spent, InFlight
  <2>2. CASE t # s
    BY <1>1, <1>2, <1>4, <2>2, Resting DEF IInv, TypeOK
  <2>3. QED BY <2>1, <2>2
<1>5. QED BY <1>3, <1>4 DEF IInv

\* Paying changes nothing the invariant speaks of.
LEMMA AcquireStep ==
    ASSUME IInv, NEW s \in Sender, Acquire(s)
    PROVE  IInv'
<1>1. /\ paid' = [paid EXCEPT ![s] = @ + 1]
      /\ UNCHANGED <<clock, pc, kind, requests, attempts, answer, wake, outcome,
                     answered, effects>>
  BY DEF Acquire
<1>2. line' \in [DOMAIN Limiter!Buckets -> Seq(Sender)]
  <2>1. PICK key \in DOMAIN Limiter!Buckets :
          line' = [line EXCEPT ![key] = IF @ = <<>> THEN @ ELSE Tail(@)]
    BY DEF Acquire
  <2>2. line[key] \in Seq(Sender)
    BY DEF IInv, TypeOK
  <2> DEFINE rest == IF line[key] = <<>> THEN line[key] ELSE Tail(line[key])
  <2>3. rest \in Seq(Sender)
    BY <2>2
  <2>4. line' = [line EXCEPT ![key] = rest]
    BY <2>1
  <2> HIDE DEF rest
  <2>5. QED BY <2>3, <2>4 DEF IInv, TypeOK
<1>3. TypeOK'
  BY <1>1, <1>2 DEF IInv, TypeOK
<1>4. ASSUME NEW t \in Sender PROVE Good(t)'
  BY <1>1, <1>4, Resting DEF IInv
<1>5. QED BY <1>3, <1>4 DEF IInv

\* Neither does joining the line of a bucket.
LEMMA WaitStep ==
    ASSUME IInv, NEW s \in Sender, Wait(s)
    PROVE  IInv'
<1>1. UNCHANGED <<clock, pc, kind, requests, paid, attempts, answer, wake, outcome,
                  answered, effects>>
  BY DEF Wait, history
<1>2. line' \in [DOMAIN Limiter!Buckets -> Seq(Sender)]
  <2>1. PICK key \in DOMAIN Limiter!Buckets : line' = [line EXCEPT ![key] = Append(@, s)]
    BY DEF Wait
  <2>2. Append(line[key], s) \in Seq(Sender)
    BY DEF IInv, TypeOK
  <2>3. QED BY <2>1, <2>2 DEF IInv, TypeOK
<1>3. TypeOK'
  BY <1>1, <1>2 DEF IInv, TypeOK
<1>4. ASSUME NEW t \in Sender PROVE Good(t)'
  BY <1>1, <1>4, Resting DEF IInv
<1>5. QED BY <1>3, <1>4 DEF IInv

\* Nor does the passing of time.
LEMMA TickStep == ASSUME IInv, Tick PROVE IInv'
<1>1. /\ clock' = clock + 1
      /\ UNCHANGED <<line, pc, kind, requests, paid, attempts, answer, wake, outcome,
                     answered, effects>>
  BY DEF Tick
<1>2. TypeOK'
  BY <1>1 DEF IInv, TypeOK
<1>3. ASSUME NEW t \in Sender PROVE Good(t)'
  BY <1>1, <1>3, Resting DEF IInv
<1>4. QED BY <1>2, <1>3 DEF IInv

\* A send that ends leaves all in order, if it gives up for a reason.
LEMMA EndStep ==
    ASSUME IInv, NEW s \in Sender,
           NEW how \in {"refused", "timeout", "crashed", "answered"}, End(s, how),
           UNCHANGED <<clock, kind, requests, paid, attempts, answer, wake, history>>,
           line' \in [DOMAIN Limiter!Buckets -> Seq(Sender)],
           how = "answered" => (WorthRetrying(s) => attempts[s] = MaxAttempts)
    PROVE  IInv'
<1>1. /\ pc' = [pc EXCEPT ![s] = "idle"]
      /\ outcome' = [outcome EXCEPT ![s] = how]
      /\ UNCHANGED <<clock, kind, requests, paid, attempts, answer, wake, answered, effects>>
  BY DEF End, history
<1>2. TypeOK'
  BY <1>1 DEF IInv, TypeOK
<1>3. ASSUME NEW t \in Sender PROVE Good(t)'
  <2>1. CASE t = s
    <3>1. pc'[s] = "idle" /\ outcome'[s] = how
      BY <1>1 DEF IInv, TypeOK
    <3>2. Spent(s)'
      BY <1>1, <3>1 DEF Spent, WorthRetrying, Method
    <3>3. AtMostOnce(s)'
      BY <1>1, <3>1 DEF IInv, Good, AtMostOnce, Unrepeatable, Method, InFlight
    <3>4. QED BY <1>1, <2>1, <3>1, <3>2, <3>3
              DEF IInv, Good, Undecided, Deserved, HeardOut, InFlight
  <2>2. CASE t # s
    BY <1>1, <1>3, <2>2, Resting DEF IInv, TypeOK
  <2>3. QED BY <2>1, <2>2
<1>4. QED BY <1>2, <1>3 DEF IInv

\* A call that gives up takes its place out of the line.
LEMMA LeavesTheLine ==
    ASSUME IInv, NEW s \in Sender, TimeOut(s)
    PROVE  line' \in [DOMAIN Limiter!Buckets -> Seq(Sender)]
<1>1. PICK key \in DOMAIN Limiter!Buckets :
        \E place \in DOMAIN line[key] : line' = [line EXCEPT ![key] = RemoveAt(@, place)]
  BY DEF TimeOut
<1>2. PICK place \in DOMAIN line[key] : line' = [line EXCEPT ![key] = RemoveAt(@, place)]
  BY <1>1
<1> DEFINE q == line[key]
<1>3. q \in Seq(Sender)
  BY DEF IInv, TypeOK
<1>4. RemoveAt(q, place) \in Seq(Sender)
  <2> HIDE DEF q
  <2>1. place \in 1..Len(q)
    BY <1>2, <1>3 DEF q
  <2>2. SubSeq(q, 1, place - 1) \in Seq(Sender) /\ SubSeq(q, place + 1, Len(q)) \in Seq(Sender)
    BY <1>3, <2>1
  <2>3. QED BY <2>2 DEF RemoveAt
<1>5. QED BY <1>2, <1>4 DEF IInv, TypeOK

\* An attempt that was due leaves, and what comes back is judged or handed back.
LEMMA TransmitStep ==
    ASSUME IInv, NEW s \in Sender, Transmit(s)
    PROVE  IInv'
<1>1. /\ pc[s] = "acquire"
      /\ attempts' = [attempts EXCEPT ![s] = @ + 1]
      /\ UNCHANGED <<clock, line, kind, requests, paid, wake>>
  BY DEF Transmit, buckets
<1>2. PICK reply \in Answers \cup {Lost} :
        /\ answer' = [answer EXCEPT ![s] = IF reply = Lost THEN NoAnswer ELSE reply]
        /\ answered' = [answered EXCEPT ![s] = clock]
        /\ \E applied \in MayHaveApplied(reply) :
              effects' = [effects EXCEPT ![s] = @ + applied]
        /\ IF reply = Lost \/ ~Retries(s)
           THEN End(s, IF reply = Lost THEN "lost" ELSE "answered")
           ELSE pc' = [pc EXCEPT ![s] = "judge"] /\ UNCHANGED outcome
  BY DEF Transmit
<1>3. PICK applied \in MayHaveApplied(reply) : effects' = [effects EXCEPT ![s] = @ + applied]
  BY <1>2
<1>4. /\ applied \in {0, 1}
      /\ (reply # Lost /\ applied = 1) => reply.status >= 500 \/ reply.status < 400
  <2>1. CASE reply = Lost
    BY <1>3, <2>1 DEF MayHaveApplied
  <2>2. CASE reply # Lost
    <3>1. reply.status \in Nat
      BY <2>2, AnswersAssumption
    <3>2. QED BY <1>3, <2>2, <3>1 DEF MayHaveApplied
  <2>3. QED BY <2>1, <2>2
<1>5. /\ TypeOK /\ Good(s)
      /\ attempts[s] \in Nat /\ attempts[s] < MaxAttempts
      /\ MaxAttempts \in Nat
  BY <1>1, PolicyAssumption DEF IInv, TypeOK, Good, Deserved, InFlight
<1>6. /\ attempts' \in [Sender -> 0..MaxAttempts]
      /\ answered' \in [Sender -> Nat]
      /\ effects' \in [Sender -> Nat]
      /\ answer' \in [Sender -> Answers \cup {NoAnswer}]
  <2>1. attempts' \in [Sender -> 0..MaxAttempts]
    BY <1>1, <1>5 DEF TypeOK
  <2>2. answered' \in [Sender -> Nat] /\ effects' \in [Sender -> Nat]
    BY <1>2, <1>3, <1>4, <1>5 DEF TypeOK
  <2>3. answer' \in [Sender -> Answers \cup {NoAnswer}]
    BY <1>2, <1>5 DEF TypeOK
  <2>4. QED BY <2>1, <2>2, <2>3
<1>7. CASE reply = Lost \/ ~Retries(s)
  <2> DEFINE how == IF reply = Lost THEN "lost" ELSE "answered"
  <2>1. pc' = [pc EXCEPT ![s] = "idle"] /\ outcome' = [outcome EXCEPT ![s] = how]
    BY <1>2, <1>7 DEF End
  <2>2. TypeOK'
    BY <1>1, <1>5, <1>6, <2>1 DEF TypeOK
  <2>3. ASSUME NEW t \in Sender PROVE Good(t)'
    <3>1. CASE t = s
      <4>1. /\ pc'[s] = "idle" /\ outcome'[s] = how /\ answered'[s] = clock
            /\ effects'[s] = effects[s] + applied
        BY <1>2, <1>3, <1>5, <2>1 DEF TypeOK
      <4>2. Spent(s)'
        BY <1>1, <1>7, <4>1 DEF Spent, Retries, Due
      <4>3. AtMostOnce(s)'
        <5>1. Unrepeatable(s) => effects[s] = 0
          BY <1>1, <1>5 DEF Good, AtMostOnce, InFlight
        <5>2. QED BY <1>1, <1>4, <4>1, <5>1 DEF AtMostOnce, Unrepeatable, Method, InFlight
      <4>4. clock \in Nat
        BY <1>5 DEF TypeOK
      <4>5. QED BY <1>1, <3>1, <4>1, <4>2, <4>3, <4>4
                DEF Good, Undecided, Deserved, HeardOut, InFlight
    <3>2. CASE t # s
      BY <1>1, <1>2, <1>3, <2>1, <2>3, <3>2, Resting DEF IInv, TypeOK
    <3>3. QED BY <3>1, <3>2
  <2>4. QED BY <2>2, <2>3 DEF IInv
<1>8. CASE ~(reply = Lost \/ ~Retries(s))
  <2>1. /\ pc' = [pc EXCEPT ![s] = "judge"] /\ outcome' = outcome
        /\ answer' = [answer EXCEPT ![s] = reply] /\ reply \in Answers
    BY <1>2, <1>8
  <2>2. TypeOK'
    BY <1>1, <1>5, <1>6, <2>1 DEF TypeOK
  <2>3. ASSUME NEW t \in Sender PROVE Good(t)'
    <3>1. CASE t = s
      <4>1. /\ pc'[s] = "judge" /\ outcome'[s] = outcome[s] /\ answered'[s] = clock
            /\ effects'[s] = effects[s] + applied /\ answer'[s] = reply
        BY <1>2, <1>3, <1>5, <2>1 DEF TypeOK
      <4>2. outcome[s] = "none"
        BY <1>1, <1>5 DEF Good, Undecided
      <4>3. AtMostOnce(s)'
        <5>1. Unrepeatable(s) => effects[s] = 0
          BY <1>1, <1>5 DEF Good, AtMostOnce, InFlight
        <5>2. QED BY <1>1, <1>4, <1>8, <4>1, <5>1 DEF AtMostOnce, Unrepeatable, Method, InFlight
      <4>4. clock \in Nat
        BY <1>5 DEF TypeOK
      <4>5. QED BY <1>1, <3>1, <4>1, <4>2, <4>3, <4>4
                DEF Good, Undecided, Deserved, HeardOut, Spent, InFlight
    <3>2. CASE t # s
      BY <1>1, <1>2, <1>3, <2>1, <2>3, <3>2, Resting DEF IInv, TypeOK
    <3>3. QED BY <3>1, <3>2
  <2>4. QED BY <2>2, <2>3 DEF IInv
<1>9. QED BY <1>7, <1>8

\* A repetition is decided on: it is deserved, and no write is among those.
LEMMA BackOffStep ==
    ASSUME IInv, NEW s \in Sender, BackOff(s)
    PROVE  IInv'
<1>1. PICK delay \in Delays(s) \ {NotANumber} : wake' = [wake EXCEPT ![s] = clock + delay]
  BY DEF BackOff
<1>2. /\ pc[s] = "judge" /\ WorthRetrying(s) /\ attempts[s] < MaxAttempts
      /\ pc' = [pc EXCEPT ![s] = "backoff"]
      /\ UNCHANGED <<clock, line, kind, requests, paid, attempts, answer, outcome,
                     answered, effects>>
  BY PolicyAssumption
     DEF BackOff, TriesAgain, Judges, NoAttemptsLeft, buckets, history, IInv, TypeOK
<1>3. TypeOK /\ Good(s) /\ clock \in Nat /\ answered[s] \in Nat /\ RetryAfterCap \in Nat
  BY PolicyAssumption DEF IInv, TypeOK
<1>4. answer[s].status \in Nat /\ answer[s].hint \in Int \cup {None, NotANumber}
  BY <1>3, AnswerParts
<1>5. /\ delay \in Int
      /\ (kind[s] # "async" /\ answer[s].hint \in Int) =>
            \/ delay >= answer[s].hint /\ delay >= 0
            \/ delay = RetryAfterCap
  <2>1. RetryAfter(s) \in Int \cup {None, NotANumber}
    BY <1>4 DEF RetryAfter
  <2>2. \A d \in Delays(s) \ {NotANumber} : d \in Int
    BY <2>1, DelaysAreInts DEF Delays
  <2>3. RetryAfter(s) \in Int => \A d \in Delays(s) : \/ d >= RetryAfter(s) /\ d >= 0
                                                      \/ d = RetryAfterCap
    BY DelaysHeedTheHeader DEF Delays
  <2>4. QED BY <1>1, <2>2, <2>3 DEF RetryAfter
<1>6. TypeOK'
  BY <1>1, <1>2, <1>3, <1>5 DEF TypeOK
<1>7. ASSUME NEW t \in Sender PROVE Good(t)'
  <2>1. CASE t = s
    <3>1. pc'[s] = "backoff" /\ wake'[s] = clock + delay
      BY <1>1, <1>2, <1>3 DEF TypeOK
    <3>2. Deserved(s)'
      BY <1>2, <3>1 DEF Deserved, WorthRetrying, Method
    <3>3. AtMostOnce(s)'
      <4>1. Unrepeatable(s) => effects[s] \in Nat /\ effects[s] <= 1
                               /\ (effects[s] = 1 => answer[s].status >= 500
                                                     \/ answer[s].status < 400)
        BY <1>2, <1>3 DEF Good, AtMostOnce, TypeOK
      <4>2. Unrepeatable(s) => answer[s].status \in {TOO_MANY_REQUESTS, FORBIDDEN}
        BY <1>2, WorthIt DEF Unrepeatable
      <4>3. Unrepeatable(s) => effects[s] = 0
        BY <1>4, <4>1, <4>2 DEF TOO_MANY_REQUESTS, FORBIDDEN
      <4>4. QED BY <1>2, <3>1, <4>3 DEF AtMostOnce, Unrepeatable, Method
    <3>4. HeardOut(s)'
      <4>1. answered[s] <= clock
        BY <1>3 DEF Good
      <4>2. (kind[s] # "async" /\ answer[s].hint \in Int) => Late(s, clock + delay)
        BY <1>3, <1>5, <4>1 DEF Late
      <4>3. QED BY <1>2, <3>1, <4>2 DEF HeardOut, Late
    <3>5. Spent(s)'
      BY <1>2, <1>3 DEF Good, Undecided, Spent
    <3>6. QED BY <1>2, <1>3, <2>1, <3>1, <3>2, <3>3, <3>4, <3>5 DEF Good, Undecided
  <2>2. CASE t # s
    BY <1>1, <1>2, <1>7, <2>2, Resting DEF IInv, TypeOK
  <2>3. QED BY <2>1, <2>2
<1>8. QED BY <1>6, <1>7 DEF IInv

\* The delay is over: the sender pays again.
LEMMA ResumeStep ==
    ASSUME IInv, NEW s \in Sender, Resume(s)
    PROVE  IInv'
<1>1. /\ pc[s] = "backoff" /\ clock >= wake[s]
      /\ paid' = [paid EXCEPT ![s] = 0]
      /\ wake' = [wake EXCEPT ![s] = 0]
      /\ pc' = [pc EXCEPT ![s] = "acquire"]
      /\ UNCHANGED <<clock, line, kind, requests, attempts, answer, outcome, answered, effects>>
  BY DEF Resume, StartOver, buckets, history
<1>2. TypeOK'
  BY <1>1 DEF IInv, TypeOK
<1>3. ASSUME NEW t \in Sender PROVE Good(t)'
  <2>1. CASE t = s
    <3>1. /\ pc'[s] = "acquire" /\ TypeOK /\ Good(s)
          /\ clock \in Nat /\ wake[s] \in Int /\ answered[s] \in Nat /\ RetryAfterCap \in Nat
      BY <1>1, PolicyAssumption DEF IInv, TypeOK
    <3>2. HeardOut(s)'
      <4>1. (kind[s] # "async" /\ attempts[s] > 0 /\ answer[s].hint \in Int) => Late(s, wake[s])
        BY <1>1, <3>1 DEF Good, HeardOut
      <4>2. (kind[s] # "async" /\ attempts[s] > 0 /\ answer[s].hint \in Int) => Late(s, clock)
        BY <1>1, <3>1, <4>1 DEF Late
      <4>3. QED BY <1>1, <3>1, <4>2 DEF HeardOut, Late
    <3>3. Deserved(s)' /\ AtMostOnce(s)'
      BY <1>1, <3>1
         DEF Good, Deserved, AtMostOnce, InFlight, WorthRetrying, Method, Unrepeatable
    <3>4. QED BY <1>1, <2>1, <3>1, <3>2, <3>3 DEF Good, Undecided, Spent
  <2>2. CASE t # s
    BY <1>1, <1>3, <2>2, Resting DEF IInv, TypeOK
  <2>3. QED BY <2>1, <2>2
<1>4. QED BY <1>2, <1>3 DEF IInv

\* The program starts with nobody sending.
LEMMA InitIInv == Init => IInv
<1> SUFFICES ASSUME Init PROVE IInv
  OBVIOUS
<1>1. TypeOK
  BY PolicyAssumption DEF Init, TypeOK, Limiter!Init
<1>2. ASSUME NEW s \in Sender PROVE Good(s)
  BY <1>1, PolicyAssumption
     DEF Init, Limiter!Init, TypeOK, Good, Undecided, Deserved, AtMostOnce, HeardOut,
         Spent, InFlight, Unrepeatable
<1>3. QED BY <1>1, <1>2 DEF IInv

\* Every step of every sender, and of the clock, keeps the invariant.
LEMMA StepIInv == IInv /\ [Next]_vars => IInv'
<1> SUFFICES ASSUME IInv, [Next]_vars PROVE IInv'
  OBVIOUS
<1>1. ASSUME NEW s \in Sender, Step(s) PROVE IInv'
  <2>1. CASE Send(s)
    BY <2>1, SendStep
  <2>2. CASE Acquire(s)
    BY <2>2, AcquireStep
  <2>0. line' = line => line' \in [DOMAIN Limiter!Buckets -> Seq(Sender)]
    BY DEF IInv, TypeOK
  <2>3. CASE Refuse(s)
    BY <2>0, <2>3, EndStep DEF Refuse, buckets
  <2>4. CASE TimeOut(s)
    BY <2>4, EndStep, LeavesTheLine DEF TimeOut
  <2>5. CASE Transmit(s)
    BY <2>5, TransmitStep
  <2>6. CASE Crash(s)
    BY <2>0, <2>6, EndStep DEF Crash, buckets
  <2>7. CASE HandBack(s)
    <3>1. attempts[s] \in 0..MaxAttempts /\ MaxAttempts \in Nat
      BY PolicyAssumption DEF IInv, TypeOK
    <3>2. WorthRetrying(s) => attempts[s] = MaxAttempts
      BY <2>7, <3>1 DEF HandBack, NoAttemptsLeft
    <3>3. QED BY <2>0, <2>7, <3>2, EndStep DEF HandBack, buckets
  <2>8. CASE SleepRaises(s)
    BY <2>0, <2>8, EndStep DEF SleepRaises, buckets
  <2>9. CASE BackOff(s)
    BY <2>9, BackOffStep
  <2>10. CASE Resume(s)
    BY <2>10, ResumeStep
  <2>11. CASE Wait(s)
    BY <2>11, WaitStep
  <2>12. QED BY <1>1, <2>1, <2>2, <2>3, <2>4, <2>5, <2>6, <2>7, <2>8, <2>9, <2>10, <2>11
             DEF Step
<1>2. CASE Tick
  BY <1>2, TickStep
<1>3. CASE UNCHANGED vars
  <2>1. UNCHANGED <<clock, line, pc, kind, requests, paid, attempts, answer, wake, outcome,
                    answered, effects>>
    BY <1>3 DEF vars, buckets, history
  <2>2. TypeOK'
    BY <2>1 DEF IInv, TypeOK
  <2>3. ASSUME NEW t \in Sender PROVE Good(t)'
    BY <2>1, Resting DEF IInv
  <2>4. QED BY <2>2, <2>3 DEF IInv
<1>4. QED BY <1>1, <1>2, <1>3 DEF Next

\* What is on its way was deserved, heard out and not applied yet, in every state of
\* every run.
THEOREM Invariance == Spec => []IInv
  BY InitIInv, StepIInv, PTL DEF Spec

-----------------------------------------------------------------------------
\* Attempts stay within the policy, and no sender is ever in a state send does not have.
THEOREM TypeCorrect == Spec => []TypeOK
<1>1. IInv => TypeOK
  BY DEF IInv
<1>2. QED BY <1>1, Invariance, PTL

\* No write is sent again once it may have taken effect, unless the policy says so
\* (retry_unsafe_methods).
THEOREM WritesAreNotRepeated == Spec => []NoWriteIsRepeated
<1>1. IInv => NoWriteIsRepeated
  BY DEF IInv, Good, AtMostOnce, Unrepeatable, NoWriteIsRepeated
<1>2. QED BY <1>1, Invariance, PTL

\* A failure worth another attempt is handed back only when max_attempts is reached,
\* in each of the three copies of the loop.
THEOREM GivesUpLast == Spec => []GivesUpOnlyWhenSpent
<1>1. IInv => GivesUpOnlyWhenSpent
  BY DEF IInv, Good, Spent, GivesUpOnlyWhenSpent
<1>2. QED BY <1>1, Invariance, PTL

-----------------------------------------------------------------------------
\* What no step does.

\* Attempts only ever go up when a sender transmits.
LEMMA OnlyTransmitAttempts ==
    ASSUME IInv, [Next]_vars, NEW s \in Sender, attempts[s] > 0, attempts'[s] > attempts[s]
    PROVE  Transmit(s)
<1>1. attempts \in [Sender -> 0..MaxAttempts] /\ attempts[s] \in Int
  BY PolicyAssumption DEF IInv, TypeOK
<1>2. attempts' # attempts /\ ~(attempts'[s] = attempts[s])
  BY <1>1
<1>3. ASSUME NEW t \in Sender, Step(t) PROVE Transmit(s)
  <2>1. CASE Send(t)
    <3>1. attempts' = [attempts EXCEPT ![t] = 0]
      BY <2>1 DEF Send
    <3>2. QED BY <1>1, <1>2, <3>1
  <2>2. CASE Transmit(t)
    <3>1. attempts' = [attempts EXCEPT ![t] = @ + 1]
      BY <2>2 DEF Transmit
    <3>2. QED BY <1>1, <1>2, <2>2, <3>1
  <2>3. CASE \/ Acquire(t) \/ Refuse(t) \/ Wait(t) \/ TimeOut(t) \/ Crash(t) \/ HandBack(t)
             \/ SleepRaises(t) \/ BackOff(t) \/ Resume(t)
    BY <1>2, <2>3 DEF Acquire, Refuse, Wait, TimeOut, Crash, HandBack, SleepRaises, BackOff,
                      Resume
  <2>4. QED BY <1>3, <2>1, <2>2, <2>3 DEF Step
<1>4. ~Tick /\ ~UNCHANGED vars
  BY <1>2 DEF Tick, vars
<1>5. QED BY <1>3, <1>4 DEF Next

\* A sender about to attempt again: its last answer deserved it and was heard out.
LEMMA AnotherAttempt ==
    ASSUME IInv, [Next]_vars, NEW s \in Sender, attempts[s] > 0, attempts'[s] > attempts[s]
    PROVE  /\ WorthRetrying(s)
           /\ (kind[s] # "async" /\ answer[s].hint \in Int) => Late(s, clock)
<1>1. pc[s] = "acquire"
  BY OnlyTransmitAttempts DEF Transmit
<1>2. QED BY <1>1 DEF IInv, Good, Deserved, InFlight, HeardOut

\* Nothing but a rate limit or a server error makes a transport send again.
THEOREM RepeatsOnlyTheTransient == Spec => OnlyTransientFailuresAreRepeated
<1>1. IInv /\ [Next]_vars =>
        [\A s \in Sender : (attempts[s] > 0 /\ attempts'[s] > attempts[s]) =>
            \/ answer[s].status \in ServerErrorStatuses \cup {TOO_MANY_REQUESTS}
            \/ /\ answer[s].status = FORBIDDEN
               /\ answer[s].body.reasons \cap RETRYABLE_REASONS # {}]_vars
  BY AnotherAttempt, WorthIt
<1>2. QED BY <1>1, Invariance, PTL DEF Spec, OnlyTransientFailuresAreRepeated

\* RateLimitedSession and RateLimitedHttp send again only when the Retry-After of the
\* last answer, or retry_after_cap, is over.
THEOREM SyncIsPatient == Spec => SyncHonoursRetryAfter
<1>1. IInv /\ [Next]_vars => [\A s \in Sender : kind[s] # "async" => Honours(s)]_vars
  BY AnotherAttempt DEF Honours, Late
<1>2. QED BY <1>1, Invariance, PTL DEF Spec, SyncHonoursRetryAfter

-----------------------------------------------------------------------------
\* The limiter that the transports share.

\* What is proved about the limiter holds for this one.
Shared == INSTANCE GoogleMeters_proof WITH
    Requests <- UNION {ToSet(rs) : rs \in Sends}, UserCosts <- {}, MaxCalls <- 0,
    sent <- arrivals

\* Both instances have the same buckets, types and promise, and charge alike.
LEMMA SameBuckets == Shared!Buckets = Limiter!Buckets
BY DEF Shared!Buckets, Limiter!Buckets, Shared!Pairs, Limiter!Pairs,
       Shared!BucketKey, Limiter!BucketKey, Shared!WindowFor, Limiter!WindowFor,
       Shared!ToSet, Limiter!ToSet

\* In any state ...
LEMMA SameState ==
    /\ Shared!BucketsTyped <=> Limiter!BucketsTyped
    /\ Shared!NoBucketIsOverspent <=> Limiter!NoBucketIsOverspent
<1>1. Shared!BucketsTyped <=> Limiter!BucketsTyped
  BY SameBuckets DEF Shared!BucketsTyped, Limiter!BucketsTyped, Shared!Grant, Limiter!Grant
<1>2. Shared!NoBucketIsOverspent <=> Limiter!NoBucketIsOverspent
  BY SameBuckets
     DEF Shared!NoBucketIsOverspent, Limiter!NoBucketIsOverspent,
         Shared!Budget!NeverOverspent, Limiter!Budget!NeverOverspent,
         Shared!Budget!Spent, Limiter!Budget!Spent
<1>3. QED BY <1>1, <1>2

\* ... after any step ...
LEMMA SameStateAfter ==
    /\ Shared!BucketsTyped' <=> Limiter!BucketsTyped'
    /\ Shared!NoBucketIsOverspent' <=> Limiter!NoBucketIsOverspent'
<1>1. Shared!BucketsTyped' <=> Limiter!BucketsTyped'
  BY SameBuckets DEF Shared!BucketsTyped, Limiter!BucketsTyped, Shared!Grant, Limiter!Grant
<1>2. Shared!NoBucketIsOverspent' <=> Limiter!NoBucketIsOverspent'
  BY SameBuckets
     DEF Shared!NoBucketIsOverspent, Limiter!NoBucketIsOverspent,
         Shared!Budget!NeverOverspent, Limiter!Budget!NeverOverspent,
         Shared!Budget!Spent, Limiter!Budget!Spent
<1>3. QED BY <1>1, <1>2

\* ... and in the step itself.
LEMMA SameCharge ==
    ASSUME NEW key \in DOMAIN Limiter!Buckets, NEW cost, Limiter!Charge(key, cost)
    PROVE  Shared!Charge(key, cost)
BY SameBuckets
   DEF Shared!Charge, Limiter!Charge, Shared!Budget!MayCharge, Limiter!Budget!MayCharge,
       Shared!Budget!HasRoom, Limiter!Budget!HasRoom,
       Shared!Budget!WithCharge, Limiter!Budget!WithCharge,
       Shared!Budget!Spent, Limiter!Budget!Spent

Kept == Limiter!BucketsTyped /\ Limiter!NoBucketIsOverspent

\* A sender that pays leaves every bucket within its limit.
LEMMA PayingKeeps ==
    ASSUME Kept, NEW s \in Sender, Acquire(s)
    PROVE  Kept'
<1>1. PICK key \in DOMAIN Limiter!Buckets :
        Limiter!Accepts(key, NextDue(s).cost) /\ Limiter!Charge(key, NextDue(s).cost)
  BY DEF Acquire
<1>2. PICK cost \in 1..Limiter!Buckets[key].limit : Limiter!Charge(key, cost)
  BY <1>1 DEF Limiter!Accepts
<1>3. /\ DOMAIN grants' = DOMAIN Shared!Buckets
      /\ \A k \in DOMAIN Shared!Buckets : grants'[k] \in Seq(Shared!Grant(k))
      /\ Shared!NoBucketIsOverspent'
  BY <1>2, SameBuckets, SameState, SameCharge, Shared!ChargeKeepsLimits, LimiterAssumption
     DEF Kept
<1>4. clock' = clock
  BY DEF Acquire
<1>5. Shared!BucketsTyped'
  BY <1>3, <1>4, SameState DEF Kept, Shared!BucketsTyped, Shared!Grant
<1>6. QED BY <1>3, <1>5, SameStateAfter DEF Kept

\* Nobody else touches the buckets.
LEMMA KeptStep == Kept /\ [Next]_vars => Kept'
<1> SUFFICES ASSUME Kept, [Next]_vars PROVE Kept'
  OBVIOUS
<1>1. ASSUME grants' = grants, clock' \in {clock, clock + 1} PROVE Kept'
  <2>1. clock' \in Nat
    BY <1>1 DEF Kept, Limiter!BucketsTyped
  <2>2. Limiter!BucketsTyped'
    BY <1>1, <2>1 DEF Kept, Limiter!BucketsTyped, Limiter!Grant
  <2>3. Limiter!NoBucketIsOverspent'
    BY <1>1 DEF Kept, Limiter!NoBucketIsOverspent,
                Limiter!Budget!NeverOverspent, Limiter!Budget!Spent
  <2>4. QED BY <2>2, <2>3 DEF Kept
<1>2. ASSUME NEW s \in Sender, Step(s)
      PROVE  Acquire(s) \/ (grants' = grants /\ clock' = clock)
  BY <1>2 DEF Step, Send, Refuse, Wait, TimeOut, Transmit, Crash, HandBack, SleepRaises, BackOff,
              Resume, buckets
<1>3. CASE Tick
  BY <1>1, <1>3 DEF Tick
<1>4. CASE UNCHANGED vars
  BY <1>1, <1>4 DEF vars, buckets
<1>5. QED BY <1>1, <1>2, <1>3, <1>4, PayingKeeps DEF Next

\* They start empty.
LEMMA InitKept == Init => Kept
BY DEF Init, Kept, Limiter!Init, Limiter!BucketsTyped,
       Limiter!NoBucketIsOverspent, Limiter!Budget!NeverOverspent

-----------------------------------------------------------------------------
\* What a send has been charged.

Requested == UNION {ToSet(rs) : rs \in Sends}

Charges == {Limiter!Routes[r] : r \in Requested}

\* What requests are due is flattened.
LEMMA DueIsFlat ==
    ASSUME NEW rs \in Seq(Requested)
    PROVE  LET each == [i \in 1..Len(rs) |-> DueOf(rs[i])]
           IN /\ each \in Seq(Seq(Charges)) /\ Len(each) = Len(rs)
              /\ DueFor(rs) = FlattenSeq(each)
<1> DEFINE each == [i \in 1..Len(rs) |-> DueOf(rs[i])]
<1>1. DOMAIN rs = 1..Len(rs) /\ Len(rs) \in Nat
  OBVIOUS
<1>2. ASSUME NEW i \in 1..Len(rs) PROVE DueOf(rs[i]) \in Seq(Charges)
  <2> DEFINE due == Limiter!Routes[rs[i]]
  <2>1. rs[i] \in Requested
    OBVIOUS
  <2>2. due \in Charges
    BY <2>1 DEF Charges
  <2>3. DueOf(rs[i]) = IF due = None THEN <<>> ELSE <<due>>
    BY DEF DueOf, AsCharges
  <2> HIDE DEF due
  <2>4. <<due>> \in Seq(Charges) /\ <<>> \in Seq(Charges)
    BY <2>2
  <2>5. QED BY <2>3, <2>4
<1>3. each \in [1..Len(rs) -> Seq(Charges)]
  BY <1>2
<1>4. DueFor(rs) = FlattenSeq(each)
  BY <1>1 DEF DueFor
<1> HIDE DEF each
<1>5. each \in Seq(Seq(Charges)) /\ Len(each) = Len(rs)
  BY <1>1, <1>3
<1>6. QED BY <1>4, <1>5 DEF each

\* Every send is a sequence of requests.
LEMMA SendsAreSequences ==
    ASSUME NEW rs \in Sends \cup {<<>>}
    PROVE  rs \in Seq(Requested)
<1>1. CASE rs \in Sends
  <2>1. rs \in Seq(ToSet(rs)) /\ ToSet(rs) \subseteq Requested
    BY <1>1, SendsAssumption DEF Requested
  <2>2. QED BY <2>1
<1>2. CASE rs = <<>>
  BY <1>2
<1>3. QED BY <1>1, <1>2

\* What a send is due is a sequence of charges.
LEMMA DueIsASequence ==
    ASSUME NEW rs \in Sends \cup {<<>>}
    PROVE  DueFor(rs) \in Seq(Charges)
<1>1. rs \in Seq(Requested)
  BY SendsAreSequences
<1>2. QED BY <1>1, DueIsFlat, FlattenSeqType

\* One round more puts its charges at the end.
LEMMA OneMoreRound ==
    ASSUME NEW S, NEW d \in Seq(S), NEW n \in Nat
    PROVE  LET Rounds(k) == FlattenSeq([i \in 1..k |-> d])
           IN Rounds(n) \in Seq(S) /\ Rounds(n + 1) = Rounds(n) \o d
<1> DEFINE ss == [i \in 1..n |-> d]
           tt == [i \in 1..(n + 1) |-> d]
<1>1. ss \in Seq(Seq(S)) /\ Len(ss) = n
  OBVIOUS
<1>2. tt = Append(ss, d)
  OBVIOUS
<1> HIDE DEF ss, tt
<1>3. FlattenSeq(tt) = FlattenSeq(ss) \o d /\ FlattenSeq(ss) \in Seq(S)
  BY <1>1, <1>2, FlattenSeqAppend, FlattenSeqType
<1>4. QED BY <1>3 DEF ss, tt

\* No round at all.
LEMMA NoRound == \A d : FlattenSeq([i \in 1..0 |-> d]) = <<>>
<1>1. ASSUME NEW d PROVE FlattenSeq([i \in 1..0 |-> d]) = <<>>
  <2>1. [i \in 1..0 |-> d] = <<>>
    OBVIOUS
  <2>2. QED BY <2>1, FlattenNothing
<1>2. QED BY <1>1

\* What a sender holds that is paid for and has not left: at the bucket, or when the
\* bucket ended its send.
Held(s) == IF pc[s] = "acquire" \/ outcome[s] \in {"timeout", "refused"}
           THEN SubSeq(Due(s), 1, paid[s]) ELSE <<>>

Paid(s) ==
    /\ charged[s] = FlattenSeq([i \in 1..attempts[s] |-> Due(s)]) \o Held(s)
    /\ pc[s] = "acquire" => paid[s] <= Len(Due(s))

Accounts == charged \in [Sender -> Seq(Charges)] /\ \A s \in Sender : Paid(s)

\* A sender that rests is charged nothing.
LEMMA RestingAccount ==
    ASSUME NEW t \in Sender, Paid(t),
           pc'[t] = pc[t], requests'[t] = requests[t], paid'[t] = paid[t],
           attempts'[t] = attempts[t], outcome'[t] = outcome[t], charged'[t] = charged[t]
    PROVE  Paid(t)'
BY DEF Paid, Held, Due

\* A sender that changes hands without paying or sending keeps its account, if it
\* holds the same.
LEMMA SameAccount ==
    ASSUME NEW s \in Sender, Paid(s), requests'[s] = requests[s],
           attempts'[s] = attempts[s], charged'[s] = charged[s], Held(s)' = Held(s),
           pc'[s] = "acquire" => paid'[s] <= Len(Due(s))
    PROVE  Paid(s)'
BY DEF Paid, Due

\* Paying adds the next charge to what is held.
LEMMA AcquireAccount ==
    ASSUME IInv, Accounts, NEW s \in Sender, Acquire(s)
    PROVE  Paid(s)' /\ charged'[s] \in Seq(Charges)
<1> DEFINE d == Due(s)
           n == paid[s]
           rounds == FlattenSeq([i \in 1..attempts[s] |-> d])
<1>1. /\ pc[s] = "acquire" /\ n < Len(d)
      /\ charged'[s] = Append(charged[s], d[n + 1]) /\ paid'[s] = n + 1
      /\ pc' = pc /\ requests' = requests /\ attempts' = attempts /\ outcome' = outcome
  BY DEF Acquire, AtTheBucket, NextDue, IInv, TypeOK, Accounts
<1>2. d \in Seq(Charges) /\ n \in Nat /\ attempts[s] \in Nat
  BY DueIsASequence, PolicyAssumption DEF IInv, TypeOK, Due
<1>3. charged[s] = rounds \o SubSeq(d, 1, n) /\ charged[s] \in Seq(Charges)
  BY <1>1 DEF Accounts, Paid, Held
<1>4. rounds \in Seq(Charges)
  BY <1>2, OneMoreRound
<1>5. d' = d
  BY <1>1 DEF Due
<1> HIDE DEF d, n, rounds
<1>6. d[n + 1] \in Charges /\ n + 1 <= Len(d)
  BY <1>1, <1>2
<1>7. SubSeq(d, 1, n + 1) = Append(SubSeq(d, 1, n), d[n + 1]) /\ SubSeq(d, 1, n) \in Seq(Charges)
  BY <1>2, <1>6
<1>8. charged'[s] = rounds \o SubSeq(d, 1, n + 1) /\ charged'[s] \in Seq(Charges)
  <2>1. \A e \in Charges, q \in Seq(Charges) : Append(rounds \o q, e) = rounds \o Append(q, e)
    BY <1>4
  <2>2. charged'[s] = rounds \o SubSeq(d, 1, n + 1)
    BY <1>1, <1>3, <1>6, <1>7, <2>1
  <2>3. Append(charged[s], d[n + 1]) \in Seq(Charges)
    BY <1>3, <1>6
  <2>4. QED BY <1>1, <2>2, <2>3
<1>9. Held(s)' = SubSeq(d, 1, n + 1)
  BY <1>1, <1>5 DEF Held, d
<1>10. Paid(s)'
  BY <1>1, <1>5, <1>6, <1>8, <1>9 DEF Paid, rounds, d
<1>11. QED BY <1>8, <1>10

\* What is sent is all that was due: nothing is held any more, and a round is over.
LEMMA TransmitAccount ==
    ASSUME IInv, Accounts, NEW s \in Sender, Transmit(s)
    PROVE  Paid(s)'
<1> DEFINE d == Due(s)
           n == attempts[s]
<1>1. /\ pc[s] = "acquire" /\ paid[s] = Len(d) /\ attempts'[s] = n + 1
      /\ charged' = charged /\ requests' = requests
      /\ pc'[s] # "acquire" /\ outcome'[s] \in {"lost", "answered", outcome[s]}
  BY DEF Transmit, End, history, IInv, TypeOK
<1>2. d \in Seq(Charges) /\ n \in Nat /\ outcome[s] = "none"
  BY <1>1, DueIsASequence, PolicyAssumption DEF IInv, TypeOK, Due, Good, Undecided
<1>3. charged[s] = FlattenSeq([i \in 1..n |-> d]) \o SubSeq(d, 1, Len(d))
  BY <1>1 DEF Accounts, Paid, Held
<1>4. d' = d /\ Held(s)' = <<>>
  BY <1>1, <1>2 DEF Due, Held
<1> HIDE DEF d, n
<1>5. SubSeq(d, 1, Len(d)) = d
  BY <1>2
<1>6. FlattenSeq([i \in 1..(n + 1) |-> d]) = FlattenSeq([i \in 1..n |-> d]) \o d
      /\ FlattenSeq([i \in 1..(n + 1) |-> d]) \in Seq(Charges)
  <2>1. n + 1 \in Nat
    BY <1>2
  <2>2. QED BY <1>2, <2>1, OneMoreRound
<1>7. charged'[s] = FlattenSeq([i \in 1..(n + 1) |-> d]) \o <<>>
  <2> DEFINE r == FlattenSeq([i \in 1..(n + 1) |-> d])
  <2>1. charged'[s] = r /\ r \in Seq(Charges)
    BY <1>1, <1>3, <1>5, <1>6
  <2> HIDE DEF r
  <2>2. charged'[s] = r \o <<>>
    BY <2>1
  <2>3. QED BY <2>2 DEF r
<1>8. QED BY <1>1, <1>4, <1>7 DEF Paid, d

\* A send begins with nothing charged.
LEMMA SendAccount ==
    ASSUME IInv, Accounts, NEW s \in Sender, Send(s)
    PROVE  Paid(s)'
<1>1. PICK rs \in Sends : requests' = [requests EXCEPT ![s] = rs]
  BY DEF Send
<1>2. /\ pc'[s] = "acquire" /\ requests'[s] = rs /\ paid'[s] = 0
      /\ attempts'[s] = 0 /\ outcome'[s] = "none" /\ charged'[s] = <<>>
  BY <1>1 DEF Send, IInv, TypeOK, Accounts
<1> DEFINE d == DueFor(rs)
<1>3. Due(s)' = d
  BY <1>2 DEF Due
<1>4. d \in Seq(Charges)
  BY DueIsASequence
<1> HIDE DEF d
<1>5. SubSeq(d, 1, 0) = <<>> /\ 0 <= Len(d)
  BY <1>4
<1>6. Held(s)' = <<>>
  BY <1>2, <1>3, <1>5 DEF Held
<1>7. FlattenSeq([i \in 1..attempts'[s] |-> d]) = <<>>
  BY <1>2, NoRound
<1>8. charged'[s] = FlattenSeq([i \in 1..attempts'[s] |-> d]) \o <<>>
  BY <1>2, <1>7
<1>9. QED BY <1>2, <1>3, <1>5, <1>6, <1>8 DEF Paid

\* A retry begins with nothing held.
LEMMA ResumeAccount ==
    ASSUME IInv, Accounts, NEW s \in Sender, Resume(s)
    PROVE  Paid(s)'
<1>1. /\ pc[s] = "backoff" /\ pc'[s] = "acquire" /\ paid'[s] = 0 /\ requests' = requests
      /\ attempts' = attempts /\ charged' = charged /\ outcome' = outcome
  BY DEF Resume, StartOver, history, IInv, TypeOK
<1>2. outcome[s] = "none" /\ Due(s) \in Seq(Charges)
  BY <1>1, DueIsASequence DEF IInv, TypeOK, Good, Undecided, Due
<1>3. Held(s) = <<>>
  BY <1>1, <1>2 DEF Held
<1> DEFINE d == Due(s)
<1>4. d' = d
  BY <1>1 DEF Due
<1>5. SubSeq(d, 1, 0) = <<>> /\ 0 <= Len(d)
  <2> HIDE DEF d
  <2>1. d \in Seq(Charges)
    BY <1>2 DEF d
  <2>2. QED BY <2>1
<1>6. Held(s)' = <<>>
  BY <1>1, <1>4, <1>5 DEF Held
<1>7. QED BY <1>1, <1>3, <1>5, <1>6, SameAccount DEF Accounts

\* A send that ends keeps what it holds when the bucket ended it, and held nothing
\* when its answer did.
LEMMA EndAccount ==
    ASSUME IInv, Accounts, NEW s \in Sender, NEW how \in {"refused", "timeout", "crashed", "answered"},
           End(s, how), UNCHANGED <<requests, paid, attempts, charged>>,
           \/ pc[s] = "acquire" /\ how \in {"refused", "timeout"}
           \/ pc[s] = "judge" /\ how \in {"crashed", "answered"}
    PROVE  Paid(s)'
<1>1. pc'[s] = "idle" /\ outcome'[s] = how /\ outcome[s] = "none"
  BY DEF End, IInv, TypeOK, Good, Undecided
<1>2. Held(s)' = Held(s)
  BY <1>1 DEF Held, Due
<1>3. QED BY <1>1, <1>2, SameAccount DEF Accounts

\* While one sender moves the others rest.
LEMMA OthersRest ==
    ASSUME TypeOK, NEW s \in Sender, Step(s), NEW t \in Sender, t # s
    PROVE  /\ pc'[t] = pc[t] /\ requests'[t] = requests[t] /\ paid'[t] = paid[t]
           /\ attempts'[t] = attempts[t] /\ outcome'[t] = outcome[t]
<1>1. CASE Send(s)
  BY <1>1 DEF Send, TypeOK
<1>2. CASE Acquire(s) \/ Wait(s) \/ BackOff(s) \/ Resume(s)
  BY <1>2 DEF Acquire, Wait, BackOff, Resume, StartOver, TypeOK
<1>3. CASE Refuse(s) \/ TimeOut(s)
  BY <1>3 DEF Refuse, TimeOut, End, TypeOK
<1>4. CASE Crash(s) \/ HandBack(s) \/ SleepRaises(s)
  BY <1>4 DEF Crash, HandBack, SleepRaises, End, TypeOK
<1>5. CASE Transmit(s)
  BY <1>5 DEF Transmit, End, TypeOK
<1>6. QED BY <1>1, <1>2, <1>3, <1>4, <1>5 DEF Step

\* Every step keeps the accounts.
LEMMA AccountsStep == IInv /\ Accounts /\ [Next]_vars => Accounts'
<1> SUFFICES ASSUME IInv, Accounts, [Next]_vars PROVE Accounts'
  OBVIOUS
<1>1. ASSUME NEW s \in Sender, Step(s) PROVE Accounts'
  <2>1. Paid(s)'
    <3>1. CASE Send(s)
      BY <3>1, SendAccount
    <3>2. CASE Acquire(s)
      BY <3>2, AcquireAccount
    <3>3. CASE Refuse(s)
      BY <3>3, EndAccount DEF Refuse, AtTheBucket, history
    <3>4. CASE TimeOut(s)
      BY <3>4, EndAccount DEF TimeOut, AtTheBucket, history
    <3>5. CASE Transmit(s)
      BY <3>5, TransmitAccount
    <3>6. CASE Crash(s)
      BY <3>6, EndAccount DEF Crash, history
    <3>7. CASE HandBack(s)
      BY <3>7, EndAccount DEF HandBack, Judges, history
    <3>8. CASE SleepRaises(s)
      BY <3>8, EndAccount DEF SleepRaises, TriesAgain, Judges, history
    <3>9. CASE BackOff(s)
      <4>1. /\ pc[s] = "judge" /\ pc'[s] = "backoff" /\ outcome[s] = "none"
            /\ UNCHANGED <<requests, paid, attempts, outcome, charged>>
        BY <3>9 DEF BackOff, TriesAgain, Judges, history, IInv, TypeOK, Good, Undecided
      <4>2. Held(s)' = Held(s)
        BY <4>1 DEF Held
      <4>3. QED BY <1>1, <4>1, <4>2, SameAccount DEF Accounts
    <3>10. CASE Resume(s)
      BY <3>10, ResumeAccount
    <3>11. CASE Wait(s)
      BY <3>11, RestingAccount DEF Wait, history, Accounts
    <3>12. QED BY <1>1, <3>1, <3>2, <3>3, <3>4, <3>5, <3>6, <3>7, <3>8, <3>9, <3>10, <3>11
               DEF Step
  <2>2. /\ charged' = [charged EXCEPT ![s] = charged'[s]]
        /\ charged'[s] \in Seq(Charges)
    <3>1. CASE Send(s)
      BY <3>1 DEF Send, Accounts
    <3>2. CASE Acquire(s)
      BY <3>2, AcquireAccount DEF Acquire, Accounts
    <3>3. CASE ~Send(s) /\ ~Acquire(s)
      <4>1. charged' = charged
        BY <1>1, <3>3 DEF Step, Refuse, Wait, TimeOut, Transmit, Crash, HandBack, SleepRaises,
                          BackOff, Resume, history
      <4>2. QED BY <4>1 DEF Accounts
    <3>4. QED BY <3>1, <3>2, <3>3
  <2>3. ASSUME NEW t \in Sender, t # s PROVE Paid(t)'
    <3>1. /\ pc'[t] = pc[t] /\ requests'[t] = requests[t] /\ paid'[t] = paid[t]
          /\ attempts'[t] = attempts[t] /\ outcome'[t] = outcome[t]
      BY <1>1, <2>3, OthersRest DEF IInv
    <3>2. charged'[t] = charged[t]
      BY <2>2, <2>3 DEF Accounts
    <3>3. QED BY <3>1, <3>2, RestingAccount DEF Accounts
  <2>4. charged' \in [Sender -> Seq(Charges)]
    BY <2>2 DEF Accounts
  <2>5. QED BY <2>1, <2>3, <2>4 DEF Accounts
<1>2. ASSUME UNCHANGED <<pc, requests, paid, attempts, outcome, charged>>
      PROVE  Accounts'
  BY <1>2, RestingAccount DEF Accounts
<1>3. QED BY <1>1, <1>2 DEF Next, Tick, vars, history

\* Nobody has been charged when the program starts.
LEMMA InitAccounts == Init => Accounts
<1>1. SUFFICES ASSUME Init PROVE Accounts
  OBVIOUS
<1>2. ASSUME NEW s \in Sender PROVE Paid(s)
  <2>1. pc[s] = "idle" /\ outcome[s] = "none" /\ attempts[s] = 0 /\ charged[s] = <<>>
    BY <1>1 DEF Init
  <2>2. Held(s) = <<>> /\ FlattenSeq([i \in 1..attempts[s] |-> Due(s)]) = <<>>
    BY <2>1, NoRound DEF Held
  <2>3. <<>> = <<>> \o <<>>
    OBVIOUS
  <2>4. QED BY <2>1, <2>2, <2>3 DEF Paid
<1>3. charged \in [Sender -> Seq(Charges)]
  BY <1>1 DEF Init
<1>4. QED BY <1>2, <1>3 DEF Accounts

\* Every attempt of every send is paid for once, in full, at the right buckets and
\* before it leaves, for any requests, profiles and policy: the books of charges
\* balance in every state.
THEOREM AttemptsArePaidOnce == Spec => []EveryAttemptIsPaidOnce
<1>1. Init => Accounts
  BY InitAccounts
<1>2. Accounts => EveryAttemptIsPaidOnce
  BY DEF Accounts, Paid, Held, EveryAttemptIsPaidOnce
<1>3. QED BY <1>1, <1>2, AccountsStep, Invariance, PTL DEF Spec
=============================================================================
