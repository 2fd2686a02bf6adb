# Verification of googleapis-without-429

The library keeps a program below the request quotas of Google's APIs. Every
request pays a *quota bucket* before it leaves; what Google rejects all the same
is retried. The models here follow `src/src/googleapis_without_429/` (paths below
are relative to it). TLC checks them on small instances, and TLAPS proves the
safety of the bucket, its line, the limiter and the transports for every value of
their constants.

## The system

| Component | State it keeps | Operations | Module |
|---|---|---|---|
| Sliding window (`core.py`) | the log of recent grants, their cost, the line of tickets, counters, a lock | `acquire`, `acquire_async`, `try_acquire`, `used` | `SlidingWindow`, `PromptWindow`, `FairWindow`, `QuotaBudget`, `WaitingLine` |
| Quota limiter (`limiter.py`) | one window per bucket of each profile, fixed at construction | `profile_for`, `bucket`, `acquire*`, `acquire_for*`, `limit*`, `stats` | `QuotaLimiter`, `GoogleMeters` |
| Profiles (`profiles/`) | none: constant tables | `claims`, `resolve_*`, `PathTable.lookup`, `with_limits` | `PathTable`, `Profiles`, `LetterCase` |
| Errors (`errors.py`) | none | `reasons_in`, `is_rate_limit`, `is_rate_limited` | `RetryPolicy` |
| Retry policy (`retry.py`) | none: a frozen dataclass | `should_retry*`, `delay_after`, `delay_for` | `RetryPolicy` |
| Backoff (`backoff.py`) | none | `equal_jitter_delay`, `parse_retry_after` | `RetryPolicy` |
| requests session (`session.py`) | per call: attempts | `send` | `PacedTransport` |
| httplib2 transport (`httplib2_transport.py`) | per call: attempts | `request` | `PacedTransport` |
| Async session (`async_transport.py`) | per call: attempts; the limiter lives in the class | `send`, single and batch | `PacedTransport` |
| Upstream check (`src/scripts/check_upstream_methods.py`) | none: recorded baselines | `compare`, `main` | `UpstreamCheck` |
| Google itself (external) | what it publishes, prices and meters | | `GoogleApi` |

How they interact: a transport asks the limiter for the profile of a URL, the
profile's resolver for a bucket and a cost, and the bucket for that cost. It sends,
shows the answer to the retry policy, sleeps and starts again, bucket included.
Buckets are shared: by threads (under `_lock`), by tasks of an event loop (which
take the same lock), and by all transports that were given the same limiter.

What is hard here:

- **Interleaving.** Check and grant are one critical section, but the pause is
  slept on outside it. Between two polls of one caller anything may happen.
- **Order.** The line is there so that an expensive call does not starve. It must
  not lose or keep tickets, whichever way a call ends.
- **Time.** Entries expire, deadlines pass and sleeps end at the same instant;
  the shortest sleep is longer than some of the pauses computed.
- **Failure.** Timeouts at the bucket, cancelled tasks, lost answers, 5xx answers
  after which nobody knows what was applied, error bodies of odd shapes.
- **Retries.** Three copies of one loop, which must count, pay and wait alike.
- **Routing.** Prices hang on the shape of a URL: a segment too many, a verb after a
  colon, an identifier that is also the name of a method, two profiles on one
  host, two buckets of one name.
- **Drift.** The price tables copy what Google publishes, and Google changes.

What makes each component correct:

- *Sliding window*: no window of any length-`Window` interval is overspent; it
  decides on exactly the grants of the last window; service in arrival order;
  no ticket is left behind; pauses are exact; deadlines hold up to the shortest
  sleep; nobody is refused without a reason; counters agree with what happened; every
  call ends.
- *Retry policy, errors, backoff*: only transient failures are repeated, writes
  are not repeated when they may have been applied, the server's `Retry-After`
  is heard.
- *Transports*: each attempt is paid for exactly once before it leaves, giving up
  happens exactly when the attempts are spent, and what Google sees fits.
- *Limiter and profiles*: a request is charged to the bucket of the meter that will
  count it, at its price; each limit is a budget of its own; a transport refuses nothing
  whose price is within Google's limit; what nobody meters is free.
- *Upstream check*: a method that comes or goes fails the run, and so does any change among
  the methods of Gmail and the priced ones of Drive. Unpriced methods of Drive are
  only counted: one that replaces another goes unnoticed, in the code and in the model.

## Modules

### QuotaBudget, the promise

Two variables, `clock` and `grants` (every charge ever made, with running
totals). `Charge(now, cost)` is possible only if the charges less than `Window`
before `now` leave room. No lock, line or sleep. `SlidingWindow` implements it
(`ImplementsBudget`, model-checked and proved), and `QuotaLimiter` keeps one for
every bucket, so the limiter and the transports above it are checked against what
the window is proved to do.

### WaitingLine, the other promise

What a window promises those who wait, without quota, time or locks: `calling` is
the set of callers whose call has begun and not ended, `line` those of them that had to
wait. A call joins at the back (`Join`, once), is served when nobody waits or from the
front (`Serve`), or fails and takes its own place with it, wherever that is (`Leave`).
`SlidingWindow` and `FairWindow` both implement it (`ImplementsLine` in each), so the two
models of one class agree on who is served before whom and on what a failed call
leaves behind.

### SlidingWindow, the bucket

One module for `WeightedSlidingWindow`. `_log`, `_used`, `_waiting`,
`_next_ticket`, `stats` are `log`, `used`, `waiting`, `nextTicket`, `stats`; an
`_Attempt` is `attempt[c]`. The clock is the environment's and moves at any time,
inside critical sections too. A call of caller `c` goes through

| Action | Code |
|---|---|
| `Begin` | `_begin`: validation, and the deadline from the clock |
| `TakeLock` | entry to `with self._lock` and `now = self._clock()` |
| `ExpireOldest` | one turn of the loop in `_expire` |
| `Grant` | the grant branch of `_poll`: leave the line, log, count |
| `Refuse` | the other branch: take a ticket, start measuring |
| `Walk`, `MeasureNothing`, `Unlock` | `_time_until_room_for` entry by entry, or the shortest sleep, then the end of the section |
| `Sleep`, `GiveUp` | after the section: the cap at the deadline and the minimum, or the counted timeout |
| `WakeUp`, `Interrupt` | the sleep ends, or raises (a cancelled task) |
| `Release` | the `finally` of `acquire`: `_release`, `_drop_ticket` |
| `BeginRead`, `ReturnUsed` | the `used` property, which expires under the lock |

`acquire`, `acquire_async` and `try_acquire` run the same code but for the sleep
and the timeout they pass; `Interruptible` names the callers whose sleep may
raise. `grants` and `calls` are history variables: nothing reads them but
properties. Costs that `_begin` rejects (zero, or above the limit) raise before
any state changes, so `Begin` is guarded by `Acceptable`. That no call is free also
keeps the log short (`LogIsBounded`).

`ImplementsLine` maps each ticket in `waiting` to its holder and an open `_Attempt` to a member
of `calling`. A call that is granted is served in one step; a call that fails counts as calling
until `Release` removes its ticket, so the time between its timeout or interrupt and its
`finally`, when others poll and find it still in front of them, is part of what is promised.

`PromptWindow` extends it with a machine that keeps up: `PromptSpec` lets time pass only while
nobody can run. What holds only then, `EndsByDeadline` and `FrontIsAwake`, is stated there.

### FairWindow, the bucket over unbounded time

`SlidingWindow` has absolute times and bounds on clock and calls, so nothing can be
said there about what happens *eventually*. `FairWindow` is the same code in relative
time: ages instead of timestamps, ticks left instead of deadlines, positions
instead of ticket numbers. It has finitely many states without any bound, and
callers come back for ever. The critical section is one step (the other module
takes it apart), and an entry is dropped when it expires rather than when
somebody next looks: no code looks at the log without expiring first. `Expiring` is how
many the loop of `_expire` would pop, `TimeUntilRoomFor` picks the entry at which the
walk over the log (`Released`, the running sums of its costs) has released enough.

### PathTable and Profiles, the prices

Pure operators with the code's names. A path is a sequence of segments, and a
segment a sequence of the parts between its colons, because the code looks at a
path no more closely: `PathTable` compares segments one by one and knows
placeholders, `{id}` and `{id}:verb`. The table is grouped by method and length and
sorted by literals, and `lookup` takes the first match. `Candidates` are the rows of one group, and
`Sorted` is the sort: the candidate at place `n` is the one with `n - 1` others before it
in the order of the stable sort (`MostSpecificFirst`). `FindsTheBest` says what a lookup owes its
caller, without a sort. `Profiles` has
`claims`, `with_limits`, the three resolvers, all prices of Drive and Gmail, the
shipped profiles and `profile_for`. A profile names its resolver, and `resolve`
calls it, since a record cannot hold an operator. `Plain` builds a path of segments without a colon.

The code folds case: the method in every comparison (`upper`), and Sheets' trailing verbs
(`lower`). `LetterCase` has both on the spellings that occur. The query is the set of its
parameters; `WithMedia` are those that contain `alt=media`, which is what the substring test
of Drive looks for, so that `fields=alt=media` passes it too, as it does in the code.
`Versions` are the segments that count as a version of Drive.

### GoogleApi, the environment

What Google publishes: which methods there are, which meter counts each, and at what price. Nothing
here is read from the profiles; everything is written down a second time, in another form: not
method by method with a price each, but by price and verb. All 17 methods of Sheets are
there, all 64 of Drive (`DriveMethods`, with `DriveContent` for the downloads by `alt=media`) and
the 63 of Gmail that have a price (`GmailMethods`). What Gmail does not
price counts 100, more than which no method of Gmail costs (`GmailUnpriced` in `MCQuotaLimiter`). Names of
Drive methods that no file of the repository mentions are those of Google's published
reference; that there are 64 is recorded in `check_upstream_methods.py`.
`Counted` is what a meter has counted after each arrival, the running sums (`RunningSums`) of
what they weigh. `MetersKeep(meters, arrivals)` says that what arrived in any window of any meter
is within its limit. The transports and the limiter are judged by it.

### QuotaLimiter, the buckets

`grants[key]` is the history of the bucket `key = <<profile name, bucket name>>`; `Buckets` gives it the
limit of its profile and the window of its profile or of the limiter
(`WindowFor`). `Route` is the way from a request to a bucket and a cost, as
`acquire_for` takes it; `AcquireFor` pays for a request by its URL and lets it go;
`Acquire` names a bucket (`acquire`, `try_acquire`, `limit` and their asynchronous
forms). Both are guarded by `Accepts`: an unknown bucket or a cost above its limit
raises before anything changes. Waiting is left to `SlidingWindow`: here a charge
happens when there is room. `Promise(p, b)` is the abstract budget of one limit of one
profile, with that profile's own limit and window, and `EveryLimitIsABudget` the
refinement: all promises are kept at once by one set of buckets.

`GoogleMeters` puts it next to the meters: `GoogleCountsNoMore` is what the library is for, and
`CoversTheMeters` the condition for it. Each meter has a bucket with no higher limit and no
shorter window, and every request that the meter counts is charged to it, at no less
than its price. The tables and resolvers of the profiles decide whether that is so, and the
runs evaluate it (`LimiterCoversMeters`): Routing as a property, the runs of the transports as an
assumption of `MCPacedTransport` on their own limits.

### UpstreamCheck, the scheduled check of the tables

`compare` and `main` as operators over documents. A discovery document maps resources,
nested ones included, to methods; or it is `Unreachable`. `CountDiffers`, `Stale` and, for Gmail,
`Differences` are the comparisons that `compare` adds up.

### RetryPolicy and PacedTransport, the transports

`RetryPolicy` holds the pure functions, as operators with the code's names. Each field of the
dataclass is a constant; methods are compared in upper case, as `should_retry_status` does.
A body is one of three shapes: the reasons of a Google error, nothing that looks
like one, or an error whose `errors` is a scalar, over which `reasons_in`
cannot iterate. `equal_jitter_delays` is the set of all delays that can be drawn.
A Retry-After is a number of ticks, negative for a date that is over, or absent
or unreadable (`None`), or the `nan` that `float` reads (`NotANumber`).

`PacedTransport` composes them: `Limiter` is an instance of `GoogleMeters` over the same
clock and grants, with `arrivals` for what it let through. The senders use its `Routes`, `Accepts`,
`HasRoom` and `Charge`, and its meters count what arrives. `line[key]` are the senders that wait
at a bucket, in the order in which they joined: who waits at a window in `SlidingWindow`, without
the tickets and the sleeps. Each sender sends through one of the three transports:

| Action | Code |
|---|---|
| `Send` | entry to `send` or `request`, with `attempts = 0` |
| `Acquire` | `bucket.acquire`, once per claimed request of the call (a batch has several): only from the front of the line, or if nobody is in it |
| `Wait` | a poll of it finds no room, or somebody in front: the call joins the line |
| `Refuse` | it raises `ValueError`: the limit of the bucket is below the cost |
| `TimeOut` | it raises `QuotaTimeoutError`: a call that is in line leaves it because its time is up |
| `Transmit` | `super().send` / `http.request`, and what comes back: any answer, or an error without one |
| `Crash` | `reasons_in` raises in the middle of the decision |
| `HandBack` | the answer is returned (or the client's error re-raised) |
| `SleepRaises` | the delay is `nan`, and the sleep raises |
| `BackOff`, `Resume` | the delay, and the next turn of the loop, which pays again |

The transports differ in what they retry (`Retries`: a claimed request, or a lone
one), whose body they read (`LooksInside`) and whether they see `Retry-After`
(`RetryAfter`); these are three operators rather than three copies. Google may have
applied a request it answers with a 5xx or not at all
(`MayHaveApplied`). History variables record charges, effects and arrivals. Between its deadline and
the release of its ticket a call is still in line; that gap is `SlidingWindow`'s matter, and here
`TimeOut` does both at once.

## Runs

TLC, with two workers, needs between a second and two minutes for each.

| Run | Bounds | What it shows |
|---|---|---|
| SlidingWindowPolling | 3 callers (1 cancellable), limit 2, window 2, costs 1-2, no timeout or one of 0 or 1, clock 4, 3 calls | in every interleaving: no overspending, a live line, agreeing counters, each call ends one way, is served in turn and is refused only for a reason; `ImplementsLine` |
| SlidingWindowReads | 2 callers (1 reads `used`), limit 2, window 3, `MinSleep` 2, costs 1-3, clock 5, 3 calls | ledger, decisions and pauses are exact although the clock moves within critical sections; the log stays short; `ImplementsBudget` |
| SlidingWindowPromptUniform | 3 callers (1 cancellable), window 4, `MinSleep` 2, cost 1, clock 6, 5 calls, prompt | deadlines hold up to the shortest sleep, and the front of the line is awake once it fits |
| SlidingWindowPromptMixed | 3 callers, window 4, `MinSleep` 1, costs 1 and 3 of a limit of 3, clock 6, 4 calls, prompt | **violated**: see findings |
| FairWindow | 3 callers for ever: a full-window call without timeout, cheap calls without timeout, and a cancellable mix of both with a timeout, without, and with `try_acquire` | every call ends; no place is lost or left behind; `ImplementsLine` |
| Routing | Sheets, Drive and Gmail with limits of 2, 200 and 100 and a user's profile with a longer window; 12 requests that use every rule of the resolvers, named calls of cost 1 and 150; clock 3, 3 calls | no meter overflows; each limit is a budget of its own; the limiter covers the meters; every published method is charged to its meter at its price; the tables, the routing and the upstream check agree with reference definitions |
| TransportPolicy | 1 sender, all transports, all kinds of answer, reads, writes, unclaimed requests, refused ones and a batch; 3 attempts, 2 sends | what is retried, how often, when, what it is charged, and that only what is above Google's limit is refused |
| TransportShared | 2 senders, all transports, batches over both Sheets buckets, 2 attempts | if nothing paid for is held up, no meter of Google overflows, retries included |
| TransportTimeout, TransportBody, TransportBatch, TransportRetryAfter | 2 senders, 2 attempts | **violated**: see findings |

**Why the bounds are enough.** The window decides by comparing a handful of things:
the front of the line with the rest (three callers make a front, a second and one
that comes or goes), one cost with another (a cheap one, one that fills the
limit and, in Reads, one that is rejected), an age with the window (clocks run
past the window, so entries expire, at the boundary and beyond it). A limit of
two or three units lets an entry free part of what a call needs, which is when
the walk goes on. Three attempts give a first, a middle and a last one; the
second send of TransportPolicy starts from what the first left behind.
Routing's facts about prices are no matter of reachable states: they range over all
published methods of the three APIs, with eleven identifiers in their placeholders,
some of which are names of methods, collections or versions, and over all tables of
three templates of at most two segments, which is where two templates can compete
and a third come between them. They are stated of the initial state.
`MaxClock`, `MaxCalls` and `MaxSends` are guards on the environment alone. When
they are reached nothing may be left to do, so those runs do not check for deadlock.
FairWindow has no such bound and is checked for deadlock. Symmetry is used only
among callers with the same rights, and only in runs of safety properties.

**Promptness.** `PromptSpec` lets time pass only while nobody can run. It is not
a promise of the machine; it separates what the code does late by itself from what
a busy machine does to it. `EndsByDeadline` and `FrontIsAwake` need it, and
a violation found under it cannot be blamed on the scheduler.

**Fairness.** Only FairWindow needs any: the clock advances (`WF_vars(Tick)`), and
a caller that can take its next step takes it in the end (`WF_vars(Proceed(c))`).
The second stands for an operating system, or an event loop, that runs every
runnable thread or task, and a lock held for a few instructions at a time. Weak
fairness is enough because the code polls: a caller at the front that
finds no room sleeps until there is. Beginning a call and being cancelled are
not fair. `MinSleep` is positive in code and model, so a caller cannot spin
without time passing.

## What is proved

| Module | About |
|---|---|
| `SlidingWindow_proof` | the window, under any schedule |
| `PromptWindow_proof` | the window on a machine that keeps up |
| `FairWindow_proof` | the window in relative time |
| `QuotaLimiter_proof` | the buckets of the limiter, the lookup of a price and the choice of a profile |
| `GoogleMeters_proof` | the limiter and the meters of Google |
| `PacedTransport_proof` | the transports, and what each send is charged |
| `PunctualTransport_proof` | the transports and the meters of Google |
| `RecursionTheorems` | the recursive functions the models count with |

Every theorem is about all values of the constants. Those about behaviours argue
from an inductive invariant.

### The window

`SlidingWindow_proof` proves, for any set of callers, limit, window, shortest sleep, costs
and timeouts, the bounds on clock and calls included:

- `TypeCorrect` (`TypeOK`), `NeverOverspends` (`WithinLimit`), `LedgerIsRight`
  (`LedgerAgrees`), `DecisionIsOnTheWindow` (`DecidesOnTheWindow`),
  `NoTicketLeftBehind` (`LineIsLive`), `WalkAlwaysFindsRoom` (`WalkFindsRoom`),
  `OversleepsByLessThanMinSleep` (`OversleepIsBounded`), `StatsAreRight` (`StatsAgree`),
  `LogStaysShort` (`LogIsBounded`);
- `FirstComeFirstServed`: the action property `ServedInArrivalOrder`;
- `NoneIsRefusedWithoutCause`: the action property `RefusedForCause`, by which a caller is sent to
  wait, or a `try_acquire` away, only if the grants of its window leave no room for it or an open
  call has been in line for longer. It takes `Ledger` (what is refused by the log is
  refused by the history) and `Line` (a ticket in front has a holder whose call is open);
- `PausesAreExact` (`PauseIsExact`): at the end of a pause there is room for the front of the line, and one
  tick earlier there was none, by the history of grants and not by the log the code reads;
- `EveryCallIsAccountedFor` (`EveryCallAccountedFor`): every call begun is granted once, timed out,
  interrupted or still on its way, and the four counts add up, for any finite set of callers;
- `WindowIsABudget`: `Spec => ImplementsBudget`. The refinement mapping is the
  identity on `clock` and `grants`: each grant is a `Charge`, a tick is a `Tick`
  and everything else stutters;
- `WindowIsALine`: `Spec => ImplementsLine`. Here the mapping looks up the holder of each
  ticket, and the proof needs that it is still the same caller after every step
  (`FoundAgain`): `Shape` and `Line` below say that every ticket in line has one holder. `Refuse` is a `Join` or
  a stutter, `Grant` a `Serve`, `Release` a `Leave`, and nothing else changes calls or line.

They follow from one inductive invariant, `IInv` (theorem `Invariance`). Its parts:

| Part | Says | Needed because |
|---|---|---|
| `Shape` | types, and who may be where: at most one caller is inside a critical section, and it holds the lock | `section` is a single record, so every step must know whose locals it holds |
| `InOrder` | grants and log are in time order, none in the future | the expiry loop stops at the first entry that is young enough |
| `Totals` | the running totals of `grants` are sums of costs, each at least one | windows are compared by subtraction, which makes them arithmetic; entries are bounded by what they cost |
| `Ledger` | the log is the recent end of `grants`, `used` is its cost, and only old grants were forgotten | the code sees the log alone; the limit is about the history |
| `ExpiryIsOver` | a caller that measures has expired everything | the walk assumes that what it sees still counts |
| `WalkSoFar` | `released` is the cost of the `seen` oldest entries and was not enough | the walk's end, and that it comes before the end of the log |
| `Line` | tickets increase, and tickets in line and tickets held correspond | the front is known by its ticket; `_drop_ticket` removes by ticket |
| `SleepsCount` | a caller that has slept started at least one shortest sleep ago | `waitTime >= waits * MinSleep` |
| `WithinLimit`, `OversleepIsBounded`, `StatsAgree`, `NeverNegative` | the properties themselves | inductive beside the parts above |

Each part has its own step lemma, with a case per action where the action can
disturb it. The proofs assume what the module assumes of its constants: `Limit`,
`Window`, `MinSleep` positive integers (the constructor rejects other limits and
windows; `_MIN_SLEEP` is a positive literal), costs and timeouts integers, and
`None` no integer and no caller. `EveryCallIsAccountedFor` counts callers, so it assumes finitely
many. Time is a natural number here and a float in the code.

`PromptWindow_proof` adds the schedule of `PromptSpec`:

- `DeadlinesAreKept` (`EndsByDeadline`): no call outlasts its deadline by the shortest sleep or more;
- `FrontWakesInTime` (`FrontIsAwake`): when all calls cost the same, the call at the front never sleeps on
  by more than the shortest sleep once it fits. The theorem assumes equal costs
  because it is false without them: that is the first finding. Its invariant (`OnePrice`) is that
  every open call has that cost and every sleep ends just in time (`JustInTime`): within one
  shortest sleep from now, or there is no room for that cost yet one tick before it
  ends. Whoever was at the front when the pause was computed, that is right for all.

`FairWindow_proof` is about the same code in relative time, and assumes nothing about
schedules:

- `TypeCorrect` (`TypeOK`; in particular no sleep is longer than the window or the shortest sleep, so
  the walk never falls off the log);
- `NoPlaceLeftBehind` (`LineIsLive`);
- `WindowIsALine`: `Spec => ImplementsLine`, with the same abstract line as above.

Its `IInv` is these two properties with three more parts: `OldestFirst` (ages never increase along the
log), without which `Expiring` would stop short of an entry that is too old, and `CallsCanFit`
and `LogFits` (an open call asks for at most the limit, and the log costs no more than it),
without which the walk for the front of the line could find no entry to stop at. `LogFits` is no
statement about any window: this model keeps no history, and what a window may hold is
`NeverOverspends` of `SlidingWindow_proof`. What a log costs is a running sum, so the lemmas are about
sums: after one more entry (`TotalAfterAppend`), without the oldest (`TotalOfTheRest`), and that
some entry makes room (`SomeEntryMakesRoom`).

### The limiter

`QuotaLimiter_proof` proves, for any profiles, windows, window override, requests and
calls:

- `TypeCorrect` (`TypeOK`: every charge in a bucket costs between one and its limit);
- `NeverOverspends` (`NoBucketIsOverspent`);
- `LimitsAreBudgets`: if the limiter has no window of its own, `Spec => EveryLimitIsABudget`, so
  each limit of each profile is implemented as the abstract budget with that limit
  and that window.

The lemma behind all three, `OneMoreCharge`, is about sequences alone: a charge for which there is
room leaves every window within its limit. `IInv` is `TypeOK` with `NoBucketIsOverspent`. The last theorem rests on
`BucketOfAProfile`: two limits never share a bucket, because names of profiles are unique,
which the constructor checks and `MeteredAssumption` states. With an override the windows
are the override's and the promise is not the profile's, hence its condition.

Two more theorems there are about how a request is routed, for all tables and profiles and
not only the shipped ones:

- `LookupFindsTheBest`: `FindsTheBest` holds of every table, method and path. The order of the
  sort is a strict total order (`OrderIsTotal`); hence the numbers of candidates before each
  of them are all different, and as there are no more of those numbers than candidates, each place
  of the sorted list is taken by exactly one (`SortedIsAPermutation`).
- `OrderIsIrrelevant`: the profile a request is charged to does not depend on the order of the list, if
  every two profiles are `Apart`, that is, have different hosts, or prefixes none of which starts with one of
  the other. That is the rule by which a user may add a profile on `www.googleapis.com`.

### The limiter and Google

`LimiterKeepsGoogleLimits` in `GoogleMeters_proof` is the claim the package is named for: if
`CoversTheMeters`, then `Spec => []GoogleCountsNoMore`, for any profiles, requests, prices and meters,
and whatever else is charged to the same buckets by name. A bucket that is not overspent
does not say so by itself: buckets hold charges and meters arrivals, of other sizes
and, with the transports, at other times. Its invariant `MInv` relates the two:

| Part | Says | Needed because |
|---|---|---|
| `IInv` | the limiter's own invariant | the bucket bounds what the meter can have counted |
| `Past` | no charge and no arrival lies in the future | the window of an arrival that comes now reaches back from now |
| `Balanced` | what a meter counted since any arrival, and what is held that has not arrived, was charged to its bucket no earlier than that arrival | an arrival is bounded by charges in the same window, not by charges at all |
| `Within` | the property, meter by meter | what arrived earlier is not counted anew |

`Balanced` is a formula over sequences, with a parameter for what is held. Here nothing is:
a request leaves as it is charged. The transports hold a lot.

### The transports

`PacedTransport_proof` proves, for any senders, transports, requests, answers, policy and
limiter, whatever the bounds on the clock and the number of sends:

- `TypeCorrect` (`TypeOK`, in particular `attempts <= MaxAttempts`);
- `WritesAreNotRepeated` (`NoWriteIsRepeated`), `GivesUpLast` (`GivesUpOnlyWhenSpent`);
- the action properties: `RepeatsOnlyTheTransient` (`OnlyTransientFailuresAreRepeated`) and
  `SyncIsPatient` (`SyncHonoursRetryAfter`);
- `AttemptsArePaidOnce` (`EveryAttemptIsPaidOnce`): every attempt is paid for once, in full and before it
  leaves, retries and batches included, and what nobody claims is never charged.

`IInv` is `TypeOK` and, for each sender, `Good`:

| Part | Says | Needed because |
|---|---|---|
| `Undecided` | a send that goes on has no outcome yet | an outcome is only about a send that is over |
| `Deserved` | on its way to an attempt, it has attempts left, and the last answer was worth one | the decision is taken at `BackOff` and acted on at `Transmit`, two steps later |
| `AtMostOnce` | a write on its way again has not been applied, and one being judged only if the answer leaves that open | `NoWriteIsRepeated` alone does not survive another `Transmit` |
| `HeardOut` | the pause of the last answer, or the cap, will be over at `wake`, and is over at the bucket | the same two steps |
| `Spent` | the property `GivesUpOnlyWhenSpent` | it is inductive beside `Deserved` |

`answered[s] <= clock` belongs to it too. `Resting` says that all this outlives the steps
of the others. The assumptions are the validation in `RetryPolicy.__post_init__`
(`PolicyAssumption`), that `Kinds` names the three transports, and that the status of
an answer is a number (`AnswersAssumption`), that a send is a sequence (`SendsAssumption`) and that there are
finitely many senders (`SenderAssumption`).

`Kept` says that the buckets are typed and none is overspent. It comes from `QuotaLimiter_proof`
by the instance `Shared`, since every charge here is a charge of the limiter
(`ChargeKeepsLimits`), and serves the invariant of the next section.

The invariant of `AttemptsArePaidOnce` is `Accounts`: what a send has been charged is as many whole
rounds as it has made attempts, and then what it holds (`Held`), the first `paid` charges of
the round it is in; at the bucket `paid` never passes the end of the round.

### The transports and Google

`PunctualTrafficIsWithinLimits` in `PunctualTransport_proof`: if the limiter covers the meters, then
`Spec => []PunctualTrafficFits`. As long as what is paid for leaves in the same tick, no meter counts more than its
limit, for any number of senders, any mix of transports, any batches, answers and
retries. The run TransportBatch shows that the condition is needed.

The invariant is `PInv`: `IInv`, `Accounts`, `Kept` and `Books`, which says that the books of each meter
are `Balanced` when what all senders have `Outstanding` is held. `Outstanding` is what the `paid` charges of a
sender at the bucket come to on that meter (`Bill`), and `Out` its sum over the senders. The steps:

- `Acquire` adds a charge to the bucket and to what is held (`AcquireBooks`);
- `Transmit` turns what is held into arrivals, which weigh no more (`BatchIsPaid`, `TransmitBooks`);
- a send that ends or starts over gives up what it held, so that the bucket has been charged more
  than the meter will see (`OtherBooks`);
- a punctual `Tick` finds nothing held (`TickBooks`): something held over a tick would
  have been charged before it arrives, in a window that may be over.

### Recursion

Running totals, rounds of charges (`FlattenSeq`) and sums over senders are recursive functions, and
what such a function computes is a matter of induction. The induction theorems of the
library have an operator for a parameter and cannot be used here. `RecursionTheorems` goes by sets
instead: a set of natural numbers that is not empty has a least element
(`LeastNatural`, from the well-foundedness of `<`), so a set that holds 0 and the successor of each of its members
up to `n` holds all of `0..n` (`InductionUpTo`). From it follow that a recursive function has the values
its equations give it (`LoopHasValues`), what `FlattenSeq` does with one sequence more, and the
facts about sums: they exist, they grow, a sum goes on where another stopped, and one term
changes it by as much.

## What is only model-checked

- The facts about tables, prices and drift in Routing (`AsThePriceListSays`, `DriftFailsTheRun`):
  evaluations of the code's own tables, for which there is
  nothing to generalise over. So is `LimiterCoversMeters`, the condition of two theorems: what the theorems
  say of the shipped profiles is what TLC finds of their tables.
- `RefusedOnlyAboveTheLimit`, which depends on the prices of the requests that are sent.
- `MostSpecificWins` and `OrderDoesNotMatter` are what TLC can evaluate of two theorems: the first takes small
  tables where `LookupFindsTheBest` takes any, the second the shipped profiles and one more where
  `OrderIsIrrelevant` takes any that are apart.
- Liveness (`EveryCallEnds`): temporal proofs under fairness are out of the
  prover's reach. What it rests on, that nobody waits without a place and no place outlives
  its call, is proved.
- That the two models of the window agree in more than the line: that a grant of one is a grant of
  the other at the same time is not stated, because `FairWindow` has no clock. That no window
  is overspent is proved of `SlidingWindow`, which has the history to say it.

## Findings

1. **Asleep at the front** (`SlidingWindowPromptMixed`, `FrontIsAwake`). Everybody sleeps for
   as long as the call then at the front needs (`core.py:277`). If that call is an
   expensive one and gives up, the cheap call behind it sleeps on although it fits
   and nobody is ahead of it. The README knows one case in which the queue costs
   throughput; this is another. With equal costs it cannot happen
   (`SlidingWindowPromptUniform`).
2. **A timeout that cost something** (`TransportTimeout`, `TimeoutCostsNothing`). The README says of
   `QuotaTimeoutError` that no quota is consumed when it raises. A batch acquires for its
   requests one after the other (`async_transport.py:109`), so the second may time out when
   the first was charged: that charge is lost, and nothing is sent. This is the
   counterexample of the run. Retries acquire anew (`session.py:107`), so
   the error may also come after attempts that were charged and sent: TLC finds that trace
   when the run's `Sends` is `SendsOfReads`.
3. **Answers that crash the transport** (`TransportBody`, `NoAnswerCrashes`). A truthy scalar
   under `error.errors` is iterated over (`errors.py:102`) and raises `TypeError`
   in code whose docstring promises that nothing raises. A `Retry-After: nan` is
   taken for a number (`backoff.py:80`), survives `max` and `min`, and the sleep raises
   `ValueError`; the docstring promises `None` for what cannot be read.
4. **Batches** (`TransportBatch`, `GoogleSeesNoMore`). A batch pays for its requests over time
   and sends them at once (`async_transport.py:109`), so more than the limit
   reaches Google within one window, with every task prompt.
5. **Retry-After** (`TransportRetryAfter`, `HonoursRetryAfter`). The asynchronous transport
   passes `None` for the header (`async_transport.py:142`); the README says the
   header takes precedence. The synchronous transports do hear it
   (`SyncHonoursRetryAfter`).

Beside these, `OversleepIsBounded` qualifies the comment at `core.py:296`, "Never sleep past
the deadline": the minimum sleep is applied last, so a sleep may outlast the
deadline, by less than that minimum.

## What is not modelled

- Parsing: URLs, JSON, the two forms of `Retry-After`. The models work on what the
  parsers return: segments and parts of a path, the shape of a body, ticks from now.
  A host with a port is another host to `claims` and is not among the requests.
- Redirects and the refresh of an expired token, which the wrapped clients make by
  calling `send` once more from inside: such a call is another send, and pays for
  itself; that it is nested in the first is not modelled.
- The names of placeholders in the upstream check: a discovery document that renamed one
  would be reported as drift, and is the same template here.
- Fetching the discovery documents and printing the differences.
- The time a request and its answer take on the way: `Transmit` is one step, in
  which the request arrives and the answer comes back. What happens before it and
  after it may take any time.
- Floating point: time is counted in ticks.
- `WindowStats` read without the lock by `QuotaLimiter.stats`; `__repr__`; logging.
- Whether reading a body uses up a stream (`is_rate_limited`): a matter of requests.
- The constructors' `ValueError`s; they are the assumptions on the constants.
- `check_sdist.py`, which looks for names in an archive, `make_social_preview.py`,
  which draws an image, and the package's re-exports.

## Plan

Done: the modules `QuotaBudget`, `WaitingLine`, `SlidingWindow`, `PromptWindow`, `FairWindow`, `LetterCase`, `PathTable`, `Profiles`,
`GoogleApi`, `QuotaLimiter`, `GoogleMeters`, `UpstreamCheck`, `RetryPolicy` and `PacedTransport`, and the proofs of
the window in both forms, of the limiter and the lookup of its prices, of the transports, and of
limiter and transports with the meters of Google. What is left:

1. `WindowStats` as separate counters, with a reader that takes no lock
   (`limiter.py:93`).
2. The type of the shipped price tables as a theorem, so that no shipped profile can charge
   a cost its bucket rejects, whatever the request.
