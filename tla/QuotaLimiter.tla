----------------------------- MODULE QuotaLimiter -----------------------------
(***************************************************************************)
(* QuotaLimiter of limiter.py: one bucket for each limit of each profile,  *)
(* and the way from a request to its bucket and its cost.  A bucket is a   *)
(* QuotaBudget, which is what SlidingWindow implements.                    *)
(*                                                                         *)
(* acquire, acquire_async, limit, limit_async and try_acquire differ in    *)
(* how they wait for room, which nobody can tell here; so do the two forms *)
(* of acquire_for.  A cost above the limit, or a bucket that does not      *)
(* exist, raises ValueError before anything changes.                       *)
(***************************************************************************)
EXTENDS Profiles

CONSTANTS Metered,        \* the profiles the limiter is given, in order
          WindowOverride, \* the window argument, or None
          Requests,       \* what is paced by its URL
          UserCosts,      \* the costs of calls paced by naming a bucket
          MaxClock,       \* bound on the clock
          MaxCalls        \* bound on the number of calls

ASSUME MeteredAssumption ==
    /\ Metered # <<>>
    /\ \A i, j \in DOMAIN Metered : Metered[i].name = Metered[j].name => i = j
    /\ \A i \in DOMAIN Metered :
          /\ Metered[i].window \in Nat \ {0}
          /\ \A b \in DOMAIN Metered[i].limits : Metered[i].limits[b] \in Nat \ {0}
    /\ WindowOverride # None => WindowOverride \in Nat \ {0}

VARIABLES clock,  \* time.monotonic
          grants, \* every charge ever made to each bucket
          sent    \* history: the requests let through

vars == <<clock, grants, sent>>

\* Bug: profiles share a bucket of the same name.
ByNameAlone(profile, bucket) == <<bucket>>

BucketKey(profile, bucket) == <<profile.name, bucket>>

\* Bug: all buckets run on the window of the first profile.
FirstWindow(profile) == Metered[1].window

WindowFor(profile) == IF WindowOverride = None THEN profile.window ELSE WindowOverride

Pairs == UNION {{[profile |-> p, bucket |-> b] : b \in DOMAIN p.limits} : p \in ToSet(Metered)}

Buckets ==
    [key \in {BucketKey(pair.profile, pair.bucket) : pair \in Pairs} |->
        LET pair == CHOOSE p \in Pairs : BucketKey(p.profile, p.bucket) = key
        IN [limit |-> pair.profile.limits[pair.bucket], window |-> WindowFor(pair.profile)]]

Budget(key) == INSTANCE QuotaBudget WITH
    grants <- grants[key], Limit <- Buckets[key].limit, Window <- Buckets[key].window

\* The bucket and the cost of a request, or None if no profile claims it.
Route(request) ==
    LET profile == profile_for(Metered, request.host, request.path)
        charge  == resolve(profile, request.method, request.path, request.query)
    IN IF profile = None THEN None
       ELSE [key |-> BucketKey(profile, charge.bucket), cost |-> charge.cost]

Routes == [request \in Requests |-> Route(request)]

\* Bug: any cost is let in.
AnyCost(key, cost) == key \in DOMAIN Buckets /\ cost > 0

\* Bug: a cost that takes the whole limit is turned away.
BelowTheLimit(key, cost) == key \in DOMAIN Buckets /\ cost \in 1..(Buckets[key].limit - 1)

Accepts(key, cost) == key \in DOMAIN Buckets /\ cost \in 1..Buckets[key].limit

Init == /\ clock = 0
        /\ grants = [key \in DOMAIN Buckets |-> <<>>]
        /\ sent = <<>>

HasRoom(key, cost) == Budget(key)!HasRoom(clock, cost)

Charge(key, cost) ==
    /\ Budget(key)!MayCharge(clock, cost)
    /\ grants' = [grants EXCEPT ![key] = Budget(key)!WithCharge(clock, cost)]

\* acquire_for returns once its bucket had room, and the request leaves.
AcquireFor(request) ==
    LET due == Routes[request] IN
    /\ due # None => Accepts(due.key, due.cost)
    /\ IF due = None THEN UNCHANGED grants ELSE Charge(due.key, due.cost)
    /\ sent' = Append(sent, [at |-> clock, request |-> request])
    /\ UNCHANGED clock

\* A bucket is named and charged; whether a request follows is up to the caller.
Acquire(key, cost) ==
    /\ Accepts(key, cost)
    /\ Charge(key, cost)
    /\ UNCHANGED <<clock, sent>>

Calls == Len(sent) + FoldFunction(LAMBDA history, sum : Len(history) + sum, 0, grants)

Tick == clock < MaxClock /\ clock' = clock + 1 /\ UNCHANGED <<grants, sent>>

Next == \/ Tick
        \/ /\ Calls < MaxCalls
           /\ \/ \E request \in Requests : AcquireFor(request)
              \/ \E key \in DOMAIN Buckets, cost \in UserCosts : Acquire(key, cost)

Spec == Init /\ [][Next]_vars

-----------------------------------------------------------------------------
\* What must hold.

Grant(key) == [at : Nat, cost : 1..Buckets[key].limit, total : Nat]

BucketsTyped ==
    /\ clock \in Nat
    /\ DOMAIN grants = DOMAIN Buckets
    /\ \A key \in DOMAIN Buckets : grants[key] \in Seq(Grant(key))

TypeOK ==
    /\ BucketsTyped
    /\ sent \in Seq([at : Nat, request : Requests])

\* No bucket is overspent in any window, whether calls name it or their URL does,
\* in whatever order they come.
NoBucketIsOverspent == \A key \in DOMAIN Buckets : Budget(key)!NeverOverspent

Promise(profile, bucket) == INSTANCE QuotaBudget WITH
    grants <- grants[BucketKey(profile, bucket)],
    Limit  <- profile.limits[bucket],
    Window <- profile.window

\* Each limit of each profile is a budget of its own: whatever is charged to the
\* others, it is charged only when its own window has room under its own limit.
\* (Written as one box, the conjunction of Promise(p, b)!Spec over all limits.)
EveryLimitIsABudget ==
    /\ \A p \in ToSet(Metered) : \A b \in DOMAIN p.limits : Promise(p, b)!Init
    /\ [][\A p \in ToSet(Metered) : \A b \in DOMAIN p.limits :
            [Promise(p, b)!Next]_<<clock, grants[BucketKey(p, b)]>>]_vars
=============================================================================
