-------------------------- MODULE QuotaLimiter_proof --------------------------
(***************************************************************************)
(* Proofs about QuotaLimiter, for every choice of profiles, limits,        *)
(* windows, requests and bounds: its buckets are budgets of their own, and *)
(* none of them is ever overspent.  Then about the operators a request is  *)
(* routed by: in every table a lookup finds the best match, and the order  *)
(* of profiles that are apart from each other does not matter.             *)
(***************************************************************************)
EXTENDS QuotaLimiter, SequenceTheorems, FiniteSetTheorems, RecursionTheorems

-----------------------------------------------------------------------------
\* Sequences of charges, away from the state.

ChargeOf(limit) == [at : Nat, cost : 1..limit, total : Nat]

\* The cost of the first k charges.
Total(g) == [k \in 0..Len(g) |-> IF k = 0 THEN 0 ELSE g[k].total]

Kept(g, limit, window) ==
    \A i, j \in 1..Len(g) :
        (i <= j /\ g[j].at - g[i].at < window) => Total(g)[j] - Total(g)[i - 1] <= limit

Room(g, now, cost, limit, window) ==
    \A i \in 1..Len(g) :
        now - g[i].at < window => Total(g)[Len(g)] - Total(g)[i - 1] + cost <= limit

\* The total after each charge is a natural number.
LEMMA TotalsAreNat ==
    ASSUME NEW limit, NEW g \in Seq(ChargeOf(limit)), NEW k \in 0..Len(g)
    PROVE  Total(g)[k] \in Nat
<1>1. CASE k = 0
  BY <1>1 DEF Total
<1>2. CASE k # 0
  <2>1. k \in 1..Len(g) /\ g[k] \in ChargeOf(limit)
    BY <1>2
  <2>2. QED BY <1>2, <2>1 DEF ChargeOf, Total
<1>3. QED BY <1>1, <1>2

\* One more charge adds its cost and leaves the totals before it.
LEMMA OneMoreTotal ==
    ASSUME NEW limit, NEW g \in Seq(ChargeOf(limit)), NEW e \in ChargeOf(limit),
           e.total = Total(g)[Len(g)] + e.cost
    PROVE  LET N == Len(g)
               h == Append(g, e)
           IN /\ N \in Nat /\ Len(h) = N + 1 /\ h[N + 1] = e
              /\ \A k \in 1..N : h[k] = g[k]
              /\ \A k \in 0..N : Total(g)[k] \in Nat /\ Total(h)[k] = Total(g)[k]
              /\ Total(h)[N + 1] = Total(g)[N] + e.cost
<1> DEFINE N == Len(g)
           h == Append(g, e)
<1>1. /\ N \in Nat /\ Len(h) = N + 1 /\ h[N + 1] = e
      /\ \A k \in 1..N : h[k] = g[k]
  OBVIOUS
<1> HIDE DEF h
<1>2. ASSUME NEW k \in 0..N PROVE Total(g)[k] \in Nat /\ Total(h)[k] = Total(g)[k]
  <2>1. k \in 0..Len(h) /\ (k # 0 => k \in 1..N)
    BY <1>1
  <2>2. Total(h)[k] = Total(g)[k]
    BY <1>1, <2>1 DEF Total
  <2>3. QED BY <2>2, TotalsAreNat
<1>3. Total(h)[N + 1] = Total(g)[N] + e.cost
  <2>1. N + 1 \in 0..Len(h) /\ N + 1 # 0
    BY <1>1
  <2>2. QED BY <1>1, <2>1 DEF Total
<1>4. QED BY <1>1, <1>2, <1>3 DEF h

\* A charge for which there is room leaves every window within its limit.
LEMMA OneMoreCharge ==
    ASSUME NEW limit \in Nat, NEW window \in Int,
           NEW g \in Seq(ChargeOf(limit)), NEW now \in Nat, NEW cost \in 1..limit,
           Kept(g, limit, window), Room(g, now, cost, limit, window),
           NEW e, e = [at |-> now, cost |-> cost, total |-> Total(g)[Len(g)] + cost]
    PROVE  /\ Append(g, e) \in Seq(ChargeOf(limit))
           /\ Kept(Append(g, e), limit, window)
<1> DEFINE h == Append(g, e)
<1>1. e \in ChargeOf(limit) /\ e.at = now /\ e.cost = cost
      /\ e.total = Total(g)[Len(g)] + cost
  <2>1. Total(g)[Len(g)] \in Nat /\ cost \in Nat
    <3>1. Len(g) \in 0..Len(g)
      OBVIOUS
    <3>2. QED BY <3>1, TotalsAreNat
  <2>2. Total(g)[Len(g)] + cost \in Nat
    BY <2>1
  <2>3. QED BY <2>2 DEF ChargeOf
<1>2. /\ Len(g) \in Nat /\ Len(h) = Len(g) + 1 /\ h[Len(g) + 1] = e
      /\ \A k \in 1..Len(g) : h[k] = g[k]
      /\ \A k \in 0..Len(g) : Total(g)[k] \in Nat /\ Total(h)[k] = Total(g)[k]
      /\ Total(h)[Len(g) + 1] = Total(g)[Len(g)] + cost
  BY <1>1, OneMoreTotal
<1>3. h \in Seq(ChargeOf(limit))
  BY <1>1
<1>4. Kept(h, limit, window)
  <2>1. SUFFICES ASSUME NEW i \in 1..Len(h), NEW j \in 1..Len(h),
                        i <= j, h[j].at - h[i].at < window
                 PROVE  Total(h)[j] - Total(h)[i - 1] <= limit
    BY DEF Kept
  <2>2. i - 1 \in 0..Len(g)
    BY <1>2
  <2>3. CASE j <= Len(g)
    <3>1. i \in 1..Len(g) /\ j \in 1..Len(g) /\ j \in 0..Len(g)
      BY <1>2, <2>1, <2>3
    <3>2. Total(g)[j] - Total(g)[i - 1] <= limit
      BY <1>2, <2>1, <3>1 DEF Kept
    <3>3. QED BY <1>2, <2>2, <3>1, <3>2
  <2>4. CASE j = Len(g) + 1 /\ i <= Len(g)
    <3>1. i \in 1..Len(g)
      BY <1>2, <2>4
    <3>2. Total(g)[Len(g)] - Total(g)[i - 1] + cost <= limit
      BY <1>1, <1>2, <2>1, <2>4, <3>1 DEF Room
    <3>3. Total(g)[Len(g)] \in Nat /\ Total(g)[i - 1] \in Nat
      BY <1>2, <2>2
    <3>4. Total(h)[j] = Total(g)[Len(g)] + cost /\ Total(h)[i - 1] = Total(g)[i - 1]
      BY <1>2, <2>2, <2>4
    <3>5. QED
      <4> HIDE DEF h
      <4>1. QED BY <3>2, <3>3, <3>4
  <2>5. CASE j = Len(g) + 1 /\ i = Len(g) + 1
    <3>1. Total(h)[j] - Total(h)[i - 1] = cost
      <4>1. Total(g)[Len(g)] \in Nat
        BY <1>2
      <4>2. i - 1 = Len(g)
        BY <1>2, <2>5
      <4>3. QED BY <1>2, <2>2, <2>5, <4>1, <4>2
    <3>2. QED BY <3>1
  <2>6. QED BY <1>2, <2>3, <2>4, <2>5
<1>5. QED BY <1>3, <1>4

-----------------------------------------------------------------------------
\* The buckets.

\* Names tell profiles apart, so a bucket has the limit and the window of the
\* profile that defines it.
LEMMA BucketOfAProfile ==
    ASSUME NEW p \in ToSet(Metered), NEW b \in DOMAIN p.limits
    PROVE  /\ BucketKey(p, b) \in DOMAIN Buckets
           /\ Buckets[BucketKey(p, b)].limit = p.limits[b]
           /\ Buckets[BucketKey(p, b)].window = WindowFor(p)
<1> DEFINE key == BucketKey(p, b)
           pair == [profile |-> p, bucket |-> b]
<1>1. pair \in Pairs
  BY DEF Pairs
<1>2. key \in DOMAIN Buckets
  BY <1>1 DEF Buckets
<1>3. ASSUME NEW other \in Pairs, BucketKey(other.profile, other.bucket) = key
      PROVE  other = pair
  <2>1. PICK q \in ToSet(Metered) : \E c \in DOMAIN q.limits :
           other = [profile |-> q, bucket |-> c]
    BY DEF Pairs
  <2> PICK c \in DOMAIN q.limits : other = [profile |-> q, bucket |-> c]
    BY <2>1
  <2>2. q.name = p.name /\ c = b
    BY <1>3, <2>1 DEF BucketKey
  <2>3. PICK i \in DOMAIN Metered, j \in DOMAIN Metered : Metered[i] = p /\ Metered[j] = q
    BY DEF ToSet
  <2>4. p = q
    BY <2>2, <2>3, MeteredAssumption
  <2>5. QED BY <2>1, <2>2, <2>4
<1>4. (CHOOSE x \in Pairs : BucketKey(x.profile, x.bucket) = key) = pair
  BY <1>1, <1>3
<1>5. Buckets[key] = [limit |-> pair.profile.limits[pair.bucket], window |-> WindowFor(pair.profile)]
  <2> HIDE DEF key, pair
  <2>1. QED BY <1>2, <1>4 DEF Buckets
<1>6. QED BY <1>2, <1>5

\* Every bucket has a positive limit and a positive window.
LEMMA BucketsArePositive ==
    ASSUME NEW key \in DOMAIN Buckets
    PROVE  Buckets[key].limit \in Nat \ {0} /\ Buckets[key].window \in Nat \ {0}
<1>1. PICK p \in ToSet(Metered) : \E b \in DOMAIN p.limits : key = BucketKey(p, b)
  BY DEF Buckets, Pairs
<1> PICK b \in DOMAIN p.limits : key = BucketKey(p, b)
  BY <1>1
<1>2. PICK i \in DOMAIN Metered : p = Metered[i]
  BY DEF ToSet
<1>3. p.limits[b] \in Nat \ {0} /\ WindowFor(p) \in Nat \ {0}
  BY <1>1, <1>2, MeteredAssumption DEF WindowFor
<1>4. QED BY <1>1, <1>3, BucketOfAProfile

-----------------------------------------------------------------------------
\* The state.

\* A charge leaves every bucket typed and within its limit.
LEMMA ChargeKeepsLimits ==
    ASSUME BucketsTyped, NoBucketIsOverspent,
           NEW charged \in DOMAIN Buckets, NEW cost \in 1..Buckets[charged].limit,
           Charge(charged, cost)
    PROVE  /\ DOMAIN grants' = DOMAIN Buckets
           /\ \A key \in DOMAIN Buckets : grants'[key] \in Seq(Grant(key))
           /\ NoBucketIsOverspent'
<1>1. grants' = [grants EXCEPT ![charged] = Budget(charged)!WithCharge(clock, cost)]
  BY DEF Charge
<1>2. DOMAIN grants' = DOMAIN Buckets
  BY <1>1 DEF BucketsTyped
<1>3. \A key \in DOMAIN Buckets : Grant(key) = ChargeOf(Buckets[key].limit)
  BY DEF Grant, ChargeOf
<1>4. \A key \in DOMAIN Buckets :
        NoBucketIsOverspent => Kept(grants[key], Buckets[key].limit, Buckets[key].window)
  BY DEF NoBucketIsOverspent, Budget!NeverOverspent, Budget!Spent, Kept, Total
<1>5. ASSUME NEW key \in DOMAIN Buckets
      PROVE  /\ grants'[key] \in Seq(Grant(key))
             /\ Kept(grants'[key], Buckets[key].limit, Buckets[key].window)
  <2> DEFINE g == grants[key]
             limit == Buckets[key].limit
             window == Buckets[key].window
             e == [at |-> clock, cost |-> cost, total |-> Total(g)[Len(g)] + cost]
  <2>1. g \in Seq(ChargeOf(limit)) /\ Kept(g, limit, window)
    BY <1>3, <1>4, <1>5 DEF BucketsTyped
  <2>2. CASE key = charged
    <3>1. grants'[key] = Append(g, e)
      BY <1>1, <2>2 DEF BucketsTyped, Budget!WithCharge, Budget!Spent, Total
    <3>2. Room(g, clock, cost, limit, window)
      BY <2>2 DEF Charge, Budget!MayCharge, Budget!HasRoom, Budget!Spent, Room, Total
    <3>3. limit \in Nat /\ window \in Int /\ clock \in Nat /\ cost \in 1..limit
      BY <1>5, <2>2, BucketsArePositive DEF BucketsTyped
    <3> HIDE DEF g, limit, window
    <3>4. Append(g, e) \in Seq(ChargeOf(limit)) /\ Kept(Append(g, e), limit, window)
      BY <2>1, <3>2, <3>3, OneMoreCharge
    <3>5. QED BY <1>3, <1>5, <3>1, <3>4 DEF limit, window
  <2>3. CASE key # charged
    <3>1. grants'[key] = grants[key]
      BY <1>1, <1>5, <2>3 DEF BucketsTyped
    <3>2. QED BY <1>3, <1>5, <2>1, <3>1
  <2>4. QED BY <2>2, <2>3
<1>6. NoBucketIsOverspent'
  BY <1>5 DEF NoBucketIsOverspent, Budget!NeverOverspent, Budget!Spent, Kept, Total
<1>7. QED BY <1>2, <1>5, <1>6

IInv == TypeOK /\ NoBucketIsOverspent

\* The initial state: nothing is charged.
LEMMA InitIInv == Init => IInv
<1> SUFFICES ASSUME Init PROVE IInv
  OBVIOUS
<1>1. TypeOK
  BY DEF Init, TypeOK, BucketsTyped
<1>2. \A key \in DOMAIN Buckets : grants[key] = <<>>
  BY DEF Init
<1>3. NoBucketIsOverspent
  BY <1>2 DEF NoBucketIsOverspent, Budget!NeverOverspent
<1>4. QED BY <1>1, <1>3 DEF IInv

\* What a step may do to the buckets: nothing, or charge one of them.
LEMMA Effects ==
    ASSUME Next
    PROVE  \/ grants' = grants /\ clock' \in {clock, clock + 1}
           \/ \E key \in DOMAIN Buckets : \E cost \in 1..Buckets[key].limit :
                 Charge(key, cost) /\ clock' = clock
<1>1. CASE Tick
  BY <1>1 DEF Tick
<1>2. ASSUME NEW request \in Requests, AcquireFor(request)
      PROVE  \/ grants' = grants /\ clock' = clock
             \/ \E key \in DOMAIN Buckets : \E cost \in 1..Buckets[key].limit :
                   Charge(key, cost) /\ clock' = clock
  <2> DEFINE due == Routes[request]
  <2>1. CASE due = None
    BY <1>2, <2>1 DEF AcquireFor
  <2>2. CASE due # None
    <3>1. Accepts(due.key, due.cost) /\ Charge(due.key, due.cost) /\ clock' = clock
      BY <1>2, <2>2 DEF AcquireFor
    <3>2. QED BY <3>1 DEF Accepts
  <2>3. QED BY <2>1, <2>2
<1>3. ASSUME NEW key \in DOMAIN Buckets, NEW cost \in UserCosts, Acquire(key, cost)
      PROVE  cost \in 1..Buckets[key].limit /\ Charge(key, cost) /\ clock' = clock
  BY <1>3 DEF Acquire, Accepts
<1>4. QED BY <1>1, <1>2, <1>3 DEF Next

\* The invariant survives every step.
LEMMA StepIInv == IInv /\ [Next]_vars => IInv'
<1> SUFFICES ASSUME IInv, [Next]_vars PROVE IInv'
  OBVIOUS
<1>1. TypeOK /\ NoBucketIsOverspent
  BY DEF IInv
<1>2. sent' \in Seq([at : Nat, request : Requests]) /\ clock' \in Nat
  <2>1. clock \in Nat /\ sent \in Seq([at : Nat, request : Requests])
    BY <1>1 DEF TypeOK, BucketsTyped
  <2>2. CASE Tick
    BY <2>1, <2>2 DEF Tick
  <2>3. ASSUME NEW request \in Requests, AcquireFor(request)
        PROVE  sent' \in Seq([at : Nat, request : Requests]) /\ clock' = clock
    BY <2>1, <2>3 DEF AcquireFor
  <2>4. ASSUME NEW key \in DOMAIN Buckets, NEW cost \in UserCosts, Acquire(key, cost)
        PROVE  UNCHANGED <<clock, sent>>
    BY <2>4 DEF Acquire
  <2>5. CASE UNCHANGED vars
    BY <2>1, <2>5 DEF vars
  <2>6. QED BY <2>1, <2>2, <2>3, <2>4, <2>5 DEF Next
<1>3. CASE grants' = grants
  <2>1. NoBucketIsOverspent'
    BY <1>1, <1>3 DEF NoBucketIsOverspent, Budget!NeverOverspent, Budget!Spent
  <2>2. TypeOK'
    BY <1>1, <1>2, <1>3 DEF TypeOK, BucketsTyped, Grant
  <2>3. QED BY <2>1, <2>2 DEF IInv
<1>4. ASSUME NEW key \in DOMAIN Buckets, NEW cost \in 1..Buckets[key].limit, Charge(key, cost)
      PROVE  IInv'
  <2>1. /\ DOMAIN grants' = DOMAIN Buckets
        /\ \A k \in DOMAIN Buckets : grants'[k] \in Seq(Grant(k))
        /\ NoBucketIsOverspent'
    BY <1>1, <1>4, ChargeKeepsLimits DEF TypeOK
  <2>2. TypeOK'
    BY <1>2, <2>1 DEF TypeOK, BucketsTyped, Grant
  <2>3. QED BY <2>1, <2>2 DEF IInv
<1>5. QED BY <1>3, <1>4, Effects DEF vars

\* The types of the state, for every value of the constants.
THEOREM TypeCorrect == Spec => []TypeOK
<1>1. IInv => TypeOK
  BY DEF IInv
<1>2. QED BY <1>1, InitIInv, StepIInv, PTL DEF Spec

\* No bucket of the limiter is ever overspent in any of its windows, whatever
\* profiles it is given and however calls by name and by URL are mixed.
THEOREM NeverOverspends == Spec => []NoBucketIsOverspent
<1>1. IInv => NoBucketIsOverspent
  BY DEF IInv
<1>2. QED BY <1>1, InitIInv, StepIInv, PTL DEF Spec

\* Unless the user overrides the windows, each limit of each profile is a budget
\* of its own: the limiter implements all of them at once.
THEOREM LimitsAreBudgets ==
    ASSUME WindowOverride = None
    PROVE  Spec => EveryLimitIsABudget
<1> DEFINE Step == \A p \in ToSet(Metered) : \A b \in DOMAIN p.limits :
                     [Promise(p, b)!Next]_<<clock, grants[BucketKey(p, b)]>>
<1>1. Init => \A p \in ToSet(Metered) : \A b \in DOMAIN p.limits : Promise(p, b)!Init
  <2>1. SUFFICES ASSUME Init, NEW p \in ToSet(Metered), NEW b \in DOMAIN p.limits
                 PROVE  Promise(p, b)!Init
    OBVIOUS
  <2>2. grants[BucketKey(p, b)] = <<>> /\ clock = 0
    BY <2>1, BucketOfAProfile DEF Init
  <2>3. QED BY <2>2 DEF Promise!Init
<1>2. IInv /\ [Next]_vars => Step
  <2>1. SUFFICES ASSUME IInv, [Next]_vars,
                        NEW p \in ToSet(Metered), NEW b \in DOMAIN p.limits
                 PROVE  [Promise(p, b)!Next]_<<clock, grants[BucketKey(p, b)]>>
    OBVIOUS
  <2> DEFINE mine == BucketKey(p, b)
  <2>2. /\ mine \in DOMAIN Buckets
        /\ Buckets[mine].limit = p.limits[b]
        /\ Buckets[mine].window = p.window
    BY BucketOfAProfile DEF WindowFor
  <2>3. CASE grants' = grants /\ clock' \in {clock, clock + 1}
    BY <2>3 DEF Promise!Next, Promise!Tick
  <2>4. ASSUME NEW key \in DOMAIN Buckets, NEW cost \in 1..Buckets[key].limit,
               Charge(key, cost), clock' = clock
        PROVE  [Promise(p, b)!Next]_<<clock, grants[BucketKey(p, b)]>>
    <3>1. grants' = [grants EXCEPT ![key] = Budget(key)!WithCharge(clock, cost)]
      BY <2>4 DEF Charge
    <3>2. CASE key = mine
      <4>1. grants'[mine] = Budget(mine)!WithCharge(clock, cost)
        BY <2>1, <2>2, <3>1, <3>2 DEF IInv, TypeOK, BucketsTyped
      <4>2. Promise(p, b)!Charge(clock, cost)
        BY <2>2, <2>4, <3>2, <4>1
           DEF Charge, Budget!MayCharge, Budget!HasRoom, Budget!Spent, Budget!WithCharge,
               Promise!Charge, Promise!MayCharge, Promise!HasRoom, Promise!Spent,
               Promise!WithCharge
      <4>3. clock \in 0..clock
        BY <2>1 DEF IInv, TypeOK, BucketsTyped
      <4>4. QED BY <2>2, <2>4, <3>2, <4>2, <4>3 DEF Promise!Next
    <3>3. CASE key # mine
      <4>1. grants'[mine] = grants[mine]
        BY <2>1, <2>2, <3>1, <3>3 DEF IInv, TypeOK, BucketsTyped
      <4>2. QED BY <2>4, <4>1
    <3>4. QED BY <3>2, <3>3
  <2>5. CASE UNCHANGED vars
    BY <2>5 DEF vars
  <2>6. QED BY <2>1, <2>3, <2>4, <2>5, Effects
<1>3. QED BY <1>1, <1>2, InitIInv, StepIInv, PTL DEF Spec, EveryLimitIsABudget

-----------------------------------------------------------------------------
\* Tables of prices.

\* The entries of any table: templates are sequences, of whatever parts.
EntriesOver(T, V) == [method : STRING, template : Seq(T), value : V]

LEMMA SpecificityIsNat ==
    ASSUME NEW T, NEW template \in Seq(T)
    PROVE  Specificity(template) \in Nat
<1> DEFINE literals == {i \in DOMAIN template : ~MatchesAny(template[i])}
<1>1. IsFiniteSet(1..Len(template))
  BY FS_Interval
<1>2. literals \in SUBSET (1..Len(template))
  OBVIOUS
<1> HIDE DEF literals
<1>3. IsFiniteSet(literals)
  BY <1>1, <1>2, FS_Subset
<1>4. Cardinality(literals) \in Nat
  BY <1>3, FS_CardinalityType
<1>5. QED BY <1>4 DEF Specificity, literals

\* The order of the sort is a strict total order of the rows.
LEMMA OrderIsTotal ==
    ASSUME NEW T, NEW V, NEW entries \in Seq(EntriesOver(T, V)),
           NEW i \in DOMAIN entries, NEW j \in DOMAIN entries, NEW k \in DOMAIN entries
    PROVE  /\ ~MostSpecificFirst(entries, i, i)
           /\ i = j \/ MostSpecificFirst(entries, i, j) \/ MostSpecificFirst(entries, j, i)
           /\ MostSpecificFirst(entries, i, j) => ~MostSpecificFirst(entries, j, i)
           /\ MostSpecificFirst(entries, i, j) /\ MostSpecificFirst(entries, j, k)
                => MostSpecificFirst(entries, i, k)
<1>1. i \in Nat /\ j \in Nat /\ k \in Nat
  OBVIOUS
<1>2. ASSUME NEW m \in DOMAIN entries PROVE Specificity(entries[m].template) \in Nat
  <2>1. entries[m] \in EntriesOver(T, V)
    OBVIOUS
  <2>2. entries[m].template \in Seq(T)
    BY <2>1 DEF EntriesOver
  <2>3. QED BY <2>2, SpecificityIsNat
<1>3. /\ Specificity(entries[i].template) \in Nat
      /\ Specificity(entries[j].template) \in Nat
      /\ Specificity(entries[k].template) \in Nat
  BY <1>2
<1>4. QED BY <1>1, <1>3 DEF MostSpecificFirst

\* The sort loses no candidate and invents none, and what comes first precedes what
\* comes later.
LEMMA SortedIsAPermutation ==
    ASSUME NEW T, NEW V, NEW entries \in Seq(EntriesOver(T, V)),
           NEW candidates, candidates \subseteq DOMAIN entries
    PROVE  LET sorted == Sorted(entries, candidates)
           IN /\ DOMAIN sorted = 1..Cardinality(candidates)
              /\ Cardinality(candidates) \in Nat
              /\ \A n \in DOMAIN sorted : sorted[n] \in candidates
              /\ \A i \in candidates : \E n \in DOMAIN sorted : sorted[n] = i
              /\ \A m, n \in DOMAIN sorted :
                    MostSpecificFirst(entries, sorted[m], sorted[n]) => m < n
<1> DEFINE N == Cardinality(candidates)
           Before(i) == {j \in candidates : MostSpecificFirst(entries, j, i)}
           place == [i \in candidates |-> Cardinality(Before(i)) + 1]
           sorted == Sorted(entries, candidates)
<1>1. IsFiniteSet(candidates) /\ N \in Nat
  <2>1. IsFiniteSet(1..Len(entries)) /\ DOMAIN entries = 1..Len(entries)
    BY FS_Interval
  <2>2. candidates \in SUBSET (1..Len(entries))
    OBVIOUS
  <2>3. IsFiniteSet(candidates)
    BY <2>1, <2>2, FS_Subset
  <2>4. QED BY <2>3, FS_CardinalityType
<1>2. ASSUME NEW i \in candidates
      PROVE  /\ IsFiniteSet(Before(i)) /\ Cardinality(Before(i)) \in Nat
             /\ Cardinality(Before(i)) <= N - 1
  <2>1. ~MostSpecificFirst(entries, i, i)
    BY OrderIsTotal
  <2>2. Before(i) \in SUBSET (candidates \ {i})
    BY <2>1
  <2>3. IsFiniteSet(candidates \ {i}) /\ Cardinality(candidates \ {i}) = N - 1
    BY <1>1, FS_RemoveElement
  <2> HIDE DEF Before
  <2>4. IsFiniteSet(Before(i)) /\ Cardinality(Before(i)) <= Cardinality(candidates \ {i})
    BY <2>2, <2>3, FS_Subset
  <2>5. QED BY <2>3, <2>4, FS_CardinalityType
<1>3. ASSUME NEW i \in candidates, NEW j \in candidates, MostSpecificFirst(entries, i, j)
      PROVE  Cardinality(Before(i)) < Cardinality(Before(j))
  <2>1. Before(i) \in SUBSET Before(j)
    <3>1. ASSUME NEW k \in candidates, MostSpecificFirst(entries, k, i)
          PROVE  MostSpecificFirst(entries, k, j)
      BY <1>3, <3>1, OrderIsTotal
    <3>2. QED BY <3>1
  <2>2. i \in Before(j) /\ i \notin Before(i)
    <3>1. ~MostSpecificFirst(entries, i, i)
      BY OrderIsTotal
    <3>2. QED BY <1>3, <3>1
  <2>3. /\ IsFiniteSet(Before(j))
        /\ Cardinality(Before(i)) \in Nat /\ Cardinality(Before(j)) \in Nat
    BY <1>2
  <2> HIDE DEF Before
  <2>4. /\ Cardinality(Before(i)) <= Cardinality(Before(j))
        /\ Cardinality(Before(i)) # Cardinality(Before(j))
    BY <2>1, <2>2, <2>3, FS_Subset
  <2>5. QED BY <2>3, <2>4
<1>4. ASSUME NEW i \in candidates, NEW j \in candidates,
             Cardinality(Before(i)) = Cardinality(Before(j))
      PROVE  i = j
  <2>1. Cardinality(Before(i)) \in Nat
    BY <1>2
  <2>2. ~MostSpecificFirst(entries, i, j) /\ ~MostSpecificFirst(entries, j, i)
    <3> HIDE DEF Before
    <3>1. QED BY <1>3, <1>4, <2>1
  <2>3. QED BY <2>2, OrderIsTotal
<1>5. /\ place \in [candidates -> 1..N]
      /\ \A i, j \in candidates : place[i] = place[j] => i = j
  <2> HIDE DEF Before
  <2>1. \A i \in candidates : Cardinality(Before(i)) + 1 \in 1..N
    BY <1>1, <1>2
  <2>2. ASSUME NEW i \in candidates, NEW j \in candidates, place[i] = place[j]
        PROVE  i = j
    <3>1. Cardinality(Before(i)) + 1 = Cardinality(Before(j)) + 1
      BY <2>2
    <3>2. Cardinality(Before(i)) = Cardinality(Before(j))
      BY <1>2, <3>1
    <3>3. QED BY <1>4, <3>2
  <2>3. QED BY <2>1, <2>2
<1>6. ASSUME NEW n \in 1..N
      PROVE  \E i \in candidates : place[i] = n
  <2> HIDE DEF place
  <2>1. place \in Injection(candidates, 1..N)
    BY <1>5 DEF Injection, IsInjective
  <2>2. IsFiniteSet(1..N) /\ Cardinality(1..N) = N
    BY <1>1, FS_Interval
  <2>3. place \in Surjection(candidates, 1..N)
    BY <1>1, <2>1, <2>2, FS_Injection
  <2>4. QED BY <2>3 DEF Surjection
<1>7. ASSUME NEW n \in 1..N
      PROVE  sorted[n] \in candidates /\ place[sorted[n]] = n
  <2>1. sorted[n] = CHOOSE i \in candidates : Cardinality(Before(i)) = n - 1
    BY DEF Sorted
  <2>2. PICK i \in candidates : place[i] = n
    BY <1>6
  <2> HIDE DEF Before
  <2>3. Cardinality(Before(i)) = n - 1
    BY <1>2, <2>2
  <2> HIDE DEF sorted
  <2>4. sorted[n] \in candidates /\ Cardinality(Before(sorted[n])) = n - 1
    BY <2>1, <2>3
  <2>5. QED BY <2>4
<1>8. DOMAIN sorted = 1..N
  BY DEF Sorted
<1>9. ASSUME NEW i \in candidates PROVE \E n \in 1..N : sorted[n] = i
  <2> HIDE DEF place, sorted, N
  <2>1. place[i] \in 1..N
    BY <1>5
  <2>2. QED BY <1>5, <1>7, <2>1
<1>10. ASSUME NEW m \in 1..N, NEW n \in 1..N, MostSpecificFirst(entries, sorted[m], sorted[n])
       PROVE  m < n
  <2>1. /\ sorted[m] \in candidates /\ place[sorted[m]] = m
        /\ sorted[n] \in candidates /\ place[sorted[n]] = n
    BY <1>7
  <2> HIDE DEF Before, sorted
  <2>2. Cardinality(Before(sorted[m])) < Cardinality(Before(sorted[n]))
    BY <1>3, <1>10, <2>1
  <2>3. QED BY <1>2, <2>1, <2>2
<1> HIDE DEF N, place, sorted
<1>11. QED BY <1>1, <1>7, <1>8, <1>9, <1>10 DEF N, sorted

\* PathTable.lookup returns the first candidate that matches, in the order the sort
\* of __init__ left them in; so for every table, method and path it finds the
\* matching template with the most literals, and of equals the one listed first.
THEOREM LookupFindsTheBest ==
    ASSUME NEW T, NEW V, NEW entries \in Seq(EntriesOver(T, V)), NEW method, NEW segments
    PROVE  FindsTheBest(entries, method, segments)
<1> DEFINE candidates == Candidates(entries, Shape(method, segments))
           sorted  == Sorted(entries, candidates)
           hits    == {n \in DOMAIN sorted :
                          TemplateMatches(entries[sorted[n]].template, segments)}
           fits    == {i \in DOMAIN entries :
                         /\ upper(entries[i].method) = upper(method)
                         /\ Len(entries[i].template) = Len(segments)
                         /\ TemplateMatches(entries[i].template, segments)}
           Rank(i) == Specificity(entries[i].template)
           found   == lookup(entries, method, segments)
<1>1. /\ candidates \subseteq DOMAIN entries
      /\ fits = {i \in candidates : TemplateMatches(entries[i].template, segments)}
  BY DEF Candidates, Shape
<1>2. /\ \E N \in Nat : DOMAIN sorted = 1..N
      /\ \A n \in DOMAIN sorted : sorted[n] \in candidates
      /\ \A i \in candidates : \E n \in DOMAIN sorted : sorted[n] = i
      /\ \A m, n \in DOMAIN sorted :
            MostSpecificFirst(entries, sorted[m], sorted[n]) => m < n
  <2>1. candidates \subseteq DOMAIN entries
    BY <1>1
  <2> HIDE DEF candidates, hits, fits, Rank, found
  <2>2. /\ DOMAIN sorted = 1..Cardinality(candidates)
        /\ Cardinality(candidates) \in Nat
        /\ \A n \in DOMAIN sorted : sorted[n] \in candidates
        /\ \A i \in candidates : \E n \in DOMAIN sorted : sorted[n] = i
        /\ \A m, n \in DOMAIN sorted :
              MostSpecificFirst(entries, sorted[m], sorted[n]) => m < n
    BY <2>1, SortedIsAPermutation
  <2> HIDE DEF sorted
  <2>3. QED BY <2>2
<1>3. found = IF hits = {} THEN None ELSE entries[sorted[Min(hits)]].value
  BY DEF lookup
<1> HIDE DEF candidates, sorted, found, fits
<1>4. \A n \in hits : sorted[n] \in fits
  BY <1>1, <1>2
<1>5. \A i \in fits : \E n \in hits : sorted[n] = i
  BY <1>1, <1>2
<1>6. CASE fits = {}
  <2>1. hits = {}
    BY <1>4, <1>6
  <2>2. found = None
    BY <1>3, <2>1
  <2>3. QED BY <1>6, <2>2 DEF FindsTheBest, found, fits
<1>7. CASE fits # {}
  <2>1. hits \subseteq Nat /\ hits # {}
    BY <1>2, <1>5, <1>7
  <2>2. \A m, n \in hits : MostSpecificFirst(entries, sorted[m], sorted[n]) => m < n
    BY <1>2
  <2> HIDE DEF hits
  <2>3. Min(hits) \in hits /\ \A n \in hits : Min(hits) <= n
    <3>1. \E n \in hits : \A m \in hits : n <= m
      BY <2>1, LeastNatural
    <3>2. QED BY <3>1 DEF Min
  <2> DEFINE best == sorted[Min(hits)]
  <2>4. best \in fits
    BY <1>4, <2>3
  <2>5. found = entries[best].value
    BY <1>3, <2>1
  <2>6. ASSUME NEW i \in fits
        PROVE  Rank(i) < Rank(best) \/ (Rank(i) = Rank(best) /\ i >= best)
    <3>1. PICK n \in hits : sorted[n] = i
      BY <1>5
    <3>2. ~MostSpecificFirst(entries, i, best)
      <4>1. Min(hits) <= n /\ Min(hits) \in Nat /\ n \in Nat
        BY <2>1, <2>3
      <4>2. QED BY <2>2, <2>3, <3>1, <4>1
    <3> HIDE DEF best
    <3>3. i \in DOMAIN entries /\ best \in DOMAIN entries /\ i \in Nat /\ best \in Nat
      BY <2>4 DEF fits
    <3>4. i = best \/ MostSpecificFirst(entries, best, i)
      BY <3>2, <3>3, OrderIsTotal
    <3>5. ASSUME NEW m \in DOMAIN entries PROVE Rank(m) \in Nat
      <4>1. entries[m] \in EntriesOver(T, V)
        OBVIOUS
      <4>2. entries[m].template \in Seq(T)
        BY <4>1 DEF EntriesOver
      <4>3. QED BY <4>2, SpecificityIsNat
    <3>6. Rank(i) \in Nat /\ Rank(best) \in Nat
      BY <3>3, <3>5
    <3>7. QED BY <3>3, <3>4, <3>6 DEF MostSpecificFirst
  <2> HIDE DEF best
  <2>7. QED BY <1>7, <2>4, <2>5, <2>6 DEF FindsTheBest, found, fits
<1>8. QED BY <1>6, <1>7

-----------------------------------------------------------------------------
\* Whose request it is.

\* FirstThatClaims is the least index of a profile that claims the request, or 0.
LEMMA FirstClaim ==
    ASSUME NEW P, NEW profiles \in Seq(P), NEW host, NEW path
    PROVE  LET index    == FirstThatClaims(profiles, host, path)
               claimers == {i \in DOMAIN profiles : claims(profiles[i], host, path)}
           IN IF claimers = {} THEN index = 0
              ELSE index \in claimers /\ \A i \in claimers : index <= i
<1> DEFINE claimers == {i \in 1..Len(profiles) : claims(profiles[i], host, path)}
<1>1. FirstThatClaims(profiles, host, path) = IF claimers # {} THEN Min(claimers) ELSE 0
  BY DEF FirstThatClaims, SelectInSeq
<1>2. ASSUME claimers # {}
      PROVE  Min(claimers) \in claimers /\ \A i \in claimers : Min(claimers) <= i
  <2>1. claimers \subseteq Nat
    OBVIOUS
  <2> HIDE DEF claimers
  <2>2. \E n \in claimers : \A m \in claimers : n <= m
    BY <1>2, <2>1, LeastNatural
  <2>3. QED BY <2>2 DEF Min
<1>3. DOMAIN profiles = 1..Len(profiles)
  OBVIOUS
<1>4. QED BY <1>1, <1>2, <1>3

\* profile_for returns a profile that claims the request, and None only if none does.
LEMMA ClaimedByOne ==
    ASSUME NEW P, NEW profiles \in Seq(P), NEW host, NEW path
    PROVE  LET claimers == {p \in ToSet(profiles) : claims(p, host, path)}
           IN IF claimers = {} THEN profile_for(profiles, host, path) = None
              ELSE profile_for(profiles, host, path) \in claimers
<1> DEFINE index    == FirstThatClaims(profiles, host, path)
           places   == {i \in DOMAIN profiles : claims(profiles[i], host, path)}
           claimers == {p \in ToSet(profiles) : claims(p, host, path)}
<1>1. IF places = {} THEN index = 0 ELSE index \in places
  BY FirstClaim
<1>2. profile_for(profiles, host, path) = IF index = 0 THEN None ELSE profiles[index]
  BY DEF profile_for
<1>3. \A i \in places : i # 0 /\ profiles[i] \in claimers
  BY DEF ToSet
<1>4. claimers # {} => places # {}
  BY DEF ToSet
<1> HIDE DEF index, places, claimers
<1>5. CASE places = {}
  BY <1>1, <1>2, <1>4, <1>5 DEF claimers
<1>6. CASE places # {}
  BY <1>1, <1>2, <1>3, <1>6 DEF claimers
<1>7. QED BY <1>5, <1>6

\* Two profiles that no request can be claimed by at once: they are of different
\* hosts, or none of their prefixes starts with a prefix of the other.
Apart(p, q) ==
    \/ p.host # q.host
    \/ /\ p.prefixes # {} /\ q.prefixes # {}
       /\ \A a \in p.prefixes, b \in q.prefixes : ~IsPrefix(a, b) /\ ~IsPrefix(b, a)

LEMMA ApartShareNothing ==
    ASSUME NEW T, NEW path \in Seq(T), NEW host,
           NEW p, p.prefixes \in SUBSET Seq(T), NEW q, q.prefixes \in SUBSET Seq(T),
           Apart(p, q), claims(p, host, path)
    PROVE  ~claims(q, host, path)
<1> SUFFICES ASSUME claims(q, host, path) PROVE FALSE
  OBVIOUS
<1>1. /\ p.prefixes # {} /\ q.prefixes # {}
      /\ \A a \in p.prefixes, b \in q.prefixes : ~IsPrefix(a, b) /\ ~IsPrefix(b, a)
  BY DEF Apart, claims
<1>2. PICK a \in p.prefixes : Under(path, a)
  BY <1>1 DEF claims
<1>3. PICK b \in q.prefixes : Under(path, b)
  BY <1>1 DEF claims
<1>4. /\ a \in Seq(T) /\ b \in Seq(T)
  OBVIOUS
<1>5. /\ \A i \in 1..Len(a) : a[i] = path[i]
      /\ \A i \in 1..Len(b) : b[i] = path[i]
  BY <1>2, <1>3, <1>4 DEF Under, IsPrefix
<1>6. IsPrefix(a, b) \/ IsPrefix(b, a)
  BY <1>4, <1>5 DEF IsPrefix
<1>7. QED BY <1>1, <1>6

\* Whose request it is does not depend on the order the profiles are listed in, if
\* every two of them are apart: profile_for takes the first that claims it.
THEOREM OrderIsIrrelevant ==
    ASSUME NEW P, NEW profiles \in Seq(P), NEW relisted \in Seq(P),
           ToSet(relisted) = ToSet(profiles),
           NEW T, NEW path \in Seq(T), NEW host,
           \A p \in ToSet(profiles) : p.prefixes \in SUBSET Seq(T),
           \A p, q \in ToSet(profiles) : p = q \/ Apart(p, q)
    PROVE  profile_for(relisted, host, path) = profile_for(profiles, host, path)
<1> DEFINE claimers == {p \in ToSet(profiles) : claims(p, host, path)}
<1>1. \A p, q \in claimers : p = q
  BY ApartShareNothing
<1>2. /\ IF claimers = {} THEN profile_for(profiles, host, path) = None
         ELSE profile_for(profiles, host, path) \in claimers
      /\ IF claimers = {} THEN profile_for(relisted, host, path) = None
         ELSE profile_for(relisted, host, path) \in claimers
  BY ClaimedByOne
<1>3. QED BY <1>1, <1>2
=============================================================================
