-------------------------- MODULE GoogleMeters_proof --------------------------
(***************************************************************************)
(* What the library is for, for every limiter that covers the meters of    *)
(* Google: whatever passes the limiter, no meter counts too much.          *)
(***************************************************************************)
EXTENDS GoogleMeters, QuotaLimiter_proof, RecursionTheorems

-----------------------------------------------------------------------------
\* What a meter has counted.

Weighed(m, q) == \A k \in 1..Len(q) : Weight(m, q[k]) \in Nat

\* What a meter has counted are the running sums of the weights.
LEMMA CountedIsASum ==
    ASSUME NEW m, NEW S, NEW q \in Seq(S), Weighed(m, q)
    PROVE  IsSums(Counted(m, q), Weights(m, q), Len(q))
<1>1. Weights(m, q) \in [1..Len(q) -> Nat] /\ Len(q) \in Nat
  BY DEF Weights, Weighed
<1>2. QED BY <1>1, SumsExist DEF Counted

\* Arrivals and more arrivals.
LEMMA Joined ==
    ASSUME NEW S, NEW q \in Seq(S), NEW b \in Seq(S)
    PROVE  /\ Len(q) \in Nat /\ Len(b) \in Nat
           /\ q \o b \in Seq(S) /\ Len(q \o b) = Len(q) + Len(b)
           /\ \A k \in 1..Len(q) : (q \o b)[k] = q[k]
           /\ \A k \in 1..Len(b) : (q \o b)[Len(q) + k] = b[k]
OBVIOUS

\* D goes on for p arrivals where C stopped after n, and counts w more.
Continues(D, C, n, p, w) ==
    /\ C \in [0..n -> Nat]
    /\ D \in [0..(n + p) -> Nat]
    /\ \A k \in 0..n : D[k] = C[k]
    /\ \A k \in n..(n + p) : C[n] <= D[k]
    /\ \A k \in 0..(n + p) : D[k] <= D[n + p]
    /\ D[n + p] = C[n] + w

\* More arrivals add what they weigh and leave what was counted before them.
LEMMA MoreArrivals ==
    ASSUME NEW m, NEW S, NEW q \in Seq(S), NEW b \in Seq(S), Weighed(m, q), Weighed(m, b)
    PROVE  /\ Weighed(m, q \o b)
           /\ Continues(Counted(m, q \o b), Counted(m, q), Len(q), Len(b),
                        Counted(m, b)[Len(b)])
<1> DEFINE n == Len(q)
           p == Len(b)
           r == q \o b
           C == Counted(m, q)
           B == Counted(m, b)
           D == Counted(m, r)
<1>1. /\ n \in Nat /\ p \in Nat /\ r \in Seq(S) /\ Len(r) = n + p
      /\ \A k \in 1..n : r[k] = q[k]
      /\ \A k \in 1..p : r[n + k] = b[k]
  BY Joined
<1> HIDE DEF n, p, r
<1>2. Weighed(m, r)
  <2>1. SUFFICES ASSUME NEW k \in 1..(n + p) PROVE Weight(m, r[k]) \in Nat
    BY <1>1 DEF Weighed
  <2>2. CASE k <= n
    <3>1. k \in 1..n
      BY <1>1, <2>2
    <3>2. QED BY <1>1, <3>1 DEF Weighed, n
  <2>3. CASE k > n
    <3>1. k - n \in 1..p /\ n + (k - n) = k
      BY <1>1, <2>3
    <3>2. QED BY <1>1, <3>1 DEF Weighed, p
  <2>4. QED BY <1>1, <2>2, <2>3
<1>3. /\ IsSums(C, Weights(m, q), n)
      /\ IsSums(B, Weights(m, b), p)
      /\ IsSums(D, Weights(m, r), n + p)
  BY <1>1, <1>2, CountedIsASum DEF n, p
<1>4. \A k \in 1..n : Weights(m, q)[k] = Weights(m, r)[k]
  <2>1. \A k \in 1..n : k \in 1..Len(r) /\ k \in 1..Len(q)
    BY <1>1 DEF n
  <2>2. QED BY <1>1, <2>1 DEF Weights
<1>5. \A k \in 1..p : Weights(m, b)[k] = Weights(m, r)[n + k]
  <2>1. \A k \in 1..p : n + k \in 1..Len(r) /\ k \in 1..Len(b)
    BY <1>1 DEF p
  <2>2. QED BY <1>1, <2>1 DEF Weights
<1> HIDE DEF C, B, D
<1>6. C \in [0..n -> Nat] /\ B \in [0..p -> Nat] /\ D \in [0..(n + p) -> Nat]
  BY <1>3 DEF IsSums
<1>7. n + p \in Nat /\ n <= n + p /\ n \in 0..n /\ p \in 0..p /\ n \in 0..(n + p)
  BY <1>1
<1>8. \A k \in 0..n : C[k] = D[k]
  BY <1>1, <1>3, <1>4, <1>7, SumsAgree
<1>9. D[n + p] = D[n] + B[p]
  <2>1. Follow(Weights(m, b), Weights(m, r), n, p)
    BY <1>5 DEF Follow
  <2>2. QED BY <1>1, <1>3, <2>1, SumsAfter
<1>10. \A k \in n..(n + p) : D[n] <= D[k]
  BY <1>3, <1>7, SumsGrow
<1>11. \A k \in 0..(n + p) : D[k] <= D[n + p]
  <2>1. TAKE k \in 0..(n + p)
  <2>2. n + p \in k..(n + p)
    BY <1>7
  <2>3. QED BY <1>3, <1>7, <2>2, SumsGrow
<1>12. Continues(D, C, n, p, B[p])
  <2>1. C[n] = D[n]
    BY <1>7, <1>8
  <2>2. QED BY <1>6, <1>7, <1>8, <1>9, <1>10, <1>11, <2>1 DEF Continues
<1>13. QED BY <1>2, <1>12 DEF n, p, r, C, B, D

-----------------------------------------------------------------------------
\* Arrivals and the charges that paid for them, away from the state.  q are the
\* arrivals, C what a meter has counted after each, g the charges to its bucket.

Times == [at : Nat, request : Requests]

Within(q, C, limit, window) ==
    \A i, j \in 1..Len(q) :
        (i <= j /\ q[j].at - q[i].at < window) => C[j] - C[i - 1] <= limit

\* As much as this was charged since.
Covers(g, since, amount) ==
    \/ amount <= 0
    \/ \E k \in 1..Len(g) :
          g[k].at >= since /\ amount <= Total(g)[Len(g)] - Total(g)[k - 1]

Since(q, i, now) == IF i <= Len(q) THEN q[i].at ELSE now

\* What was counted from an arrival on, and what is held that is paid for and has
\* not arrived, was charged no earlier than that arrival; what is held, just now.
Balanced(q, C, g, held, now) ==
    \A i \in 1..(Len(q) + 1) : Covers(g, Since(q, i, now), C[Len(q)] - C[i - 1] + held)

\* Less is covered too.
LEMMA CoversLess ==
    ASSUME NEW limit, NEW g \in Seq(ChargeOf(limit)), NEW t,
           NEW most \in Int, NEW amount \in Int, amount <= most, Covers(g, t, most)
    PROVE  Covers(g, t, amount)
<1>1. CASE most <= 0
  BY <1>1 DEF Covers
<1>2. CASE ~(most <= 0)
  <2>1. PICK k \in 1..Len(g) :
           g[k].at >= t /\ most <= Total(g)[Len(g)] - Total(g)[k - 1]
    BY <1>2 DEF Covers
  <2>2. Total(g)[Len(g)] \in Nat /\ Total(g)[k - 1] \in Nat
    <3>1. Len(g) \in 0..Len(g) /\ k - 1 \in 0..Len(g)
      OBVIOUS
    <3>2. QED BY <3>1, TotalsAreNat
  <2>3. amount <= Total(g)[Len(g)] - Total(g)[k - 1]
    BY <2>1, <2>2
  <2>4. QED BY <2>1, <2>3 DEF Covers
<1>3. QED BY <1>1, <1>2

\* What is added to both sides.
LEMMA AddToBoth ==
    ASSUME NEW amount \in Int, NEW c \in Nat, NEW d \in Nat, NEW cost \in Nat,
           amount <= c - d
    PROVE  amount + cost <= (c + cost) - d
OBVIOUS

\* A charge covers as much more as it costs.
LEMMA CoversCharge ==
    ASSUME NEW limit \in Nat, NEW g \in Seq(ChargeOf(limit)), NEW e \in ChargeOf(limit),
           e.total = Total(g)[Len(g)] + e.cost,
           NEW t \in Nat, e.at >= t, NEW amount \in Int, Covers(g, t, amount)
    PROVE  Covers(Append(g, e), t, amount + e.cost)
<1> DEFINE N == Len(g)
           h == Append(g, e)
<1>1. /\ N \in Nat /\ Len(h) = N + 1 /\ h[N + 1] = e
      /\ \A k \in 1..N : h[k] = g[k]
      /\ \A k \in 0..N : Total(g)[k] \in Nat /\ Total(h)[k] = Total(g)[k]
      /\ Total(h)[N + 1] = Total(g)[N] + e.cost
  BY OneMoreTotal
<1>2. e.cost \in Nat
  BY DEF ChargeOf
<1> HIDE DEF h, N
<1>3. N \in 0..N /\ Total(g)[N] \in Nat /\ Total(h)[N] = Total(g)[N]
  BY <1>1
<1>4. CASE amount <= 0
  <2>1. amount + e.cost <= Total(h)[N + 1] - Total(h)[N]
    <3>1. Total(h)[N + 1] = Total(g)[N] + e.cost
      BY <1>1
    <3>2. QED BY <1>2, <1>3, <1>4, <3>1
  <2>2. N + 1 \in 1..(N + 1) /\ (N + 1) - 1 = N
    BY <1>1
  <2>3. h[N + 1].at >= t
    BY <1>1
  <2>4. \E k \in 1..(N + 1) :
           h[k].at >= t /\ amount + e.cost <= Total(h)[N + 1] - Total(h)[k - 1]
    BY <2>1, <2>2, <2>3
  <2>5. QED BY <1>1, <2>4 DEF Covers, h
<1>5. CASE ~(amount <= 0)
  <2>1. PICK k \in 1..N : g[k].at >= t /\ amount <= Total(g)[N] - Total(g)[k - 1]
    BY <1>5 DEF Covers, N
  <2>2. k \in 1..(N + 1) /\ k - 1 \in 0..N /\ h[k].at >= t
    BY <1>1, <2>1
  <2>3. Total(g)[k - 1] \in Nat /\ Total(h)[k - 1] = Total(g)[k - 1]
    BY <1>1, <2>2
  <2>4. amount + e.cost <= Total(h)[N + 1] - Total(h)[k - 1]
    <3>1. Total(h)[N + 1] = Total(g)[N] + e.cost /\ amount <= Total(g)[N] - Total(g)[k - 1]
      BY <1>1, <2>1
    <3>2. amount + e.cost <= (Total(g)[N] + e.cost) - Total(g)[k - 1]
      BY <1>2, <1>3, <2>3, <3>1, AddToBoth, Zenon
    <3>3. QED BY <2>3, <3>1, <3>2
  <2>5. \E l \in 1..(N + 1) :
           h[l].at >= t /\ amount + e.cost <= Total(h)[N + 1] - Total(h)[l - 1]
    BY <2>2, <2>4
  <2>6. QED BY <1>1, <2>5 DEF Covers, h
<1>6. QED BY <1>4, <1>5

\* A charge made after an arrival and before now is in every window that the
\* arrival is in.
LEMMA AtLeastAsClose ==
    ASSUME NEW arrived \in Nat, NEW charged \in Nat, NEW last \in Nat, NEW now \in Nat,
           NEW wide \in Nat, NEW window \in Nat,
           charged >= arrived, last <= now, wide <= window, now - arrived < wide
    PROVE  last - charged < window
OBVIOUS

\* What is covered by no more than a limit is within every higher one.
LEMMA UnderTheLimit ==
    ASSUME NEW amount \in Int, NEW c \in Nat, NEW d \in Nat,
           NEW limit \in Nat, NEW most \in Nat,
           amount <= c - d, c - d <= limit, limit <= most
    PROVE  amount <= most
OBVIOUS

\* A bucket that is not overspent covers no more than its limit within its window.
LEMMA CoversWithin ==
    ASSUME NEW most \in Nat, NEW wide \in Nat, NEW limit \in Nat, NEW window \in Nat,
           limit <= most, wide <= window,
           NEW g \in Seq(ChargeOf(limit)), Kept(g, limit, window),
           NEW now \in Nat, \A k \in 1..Len(g) : g[k].at <= now,
           NEW t \in Nat, now - t < wide, NEW amount \in Int, Covers(g, t, amount)
    PROVE  amount <= most
<1>1. CASE amount <= 0
  BY <1>1
<1>2. CASE ~(amount <= 0)
  <2>1. PICK k \in 1..Len(g) : g[k].at >= t /\ amount <= Total(g)[Len(g)] - Total(g)[k - 1]
    BY <1>2 DEF Covers
  <2>2. /\ Len(g) \in Nat /\ Len(g) \in 1..Len(g) /\ k <= Len(g)
        /\ g[k] \in ChargeOf(limit) /\ g[Len(g)] \in ChargeOf(limit)
        /\ Len(g) \in 0..Len(g) /\ k - 1 \in 0..Len(g)
    OBVIOUS
  <2>3. g[k].at \in Nat /\ g[Len(g)].at \in Nat /\ g[Len(g)].at <= now
    BY <2>2 DEF ChargeOf
  <2>4. g[Len(g)].at - g[k].at < window
    <3>1. g[k].at >= t
      BY <2>1
    <3>2. \A arrived, charged, last \in Nat :
             (charged >= arrived /\ last <= now /\ now - arrived < wide)
                => last - charged < window
      BY AtLeastAsClose
    <3>3. QED BY <2>3, <3>1, <3>2, Zenon
  <2>5. Total(g)[Len(g)] - Total(g)[k - 1] <= limit
    BY <2>1, <2>2, <2>4 DEF Kept
  <2>6. Total(g)[Len(g)] \in Nat /\ Total(g)[k - 1] \in Nat
    BY <2>2, TotalsAreNat
  <2>7. amount <= Total(g)[Len(g)] - Total(g)[k - 1]
    BY <2>1
  <2>8. QED BY <2>5, <2>6, <2>7, UnderTheLimit, Zenon
<1>3. QED BY <1>1, <1>2

\* Where an arrival is, and when.
LEMMA SinceWhen ==
    ASSUME NEW q \in Seq(Times), NEW now \in Nat, \A i \in 1..Len(q) : q[i].at <= now,
           NEW i \in 1..(Len(q) + 1)
    PROVE  /\ Since(q, i, now) \in Nat /\ Since(q, i, now) <= now
           /\ Len(q) \in 0..Len(q) /\ i - 1 \in 0..Len(q)
<1>1. Len(q) \in Nat
  OBVIOUS
<1>2. CASE i \in 1..Len(q)
  <2>1. q[i] \in Times /\ q[i].at <= now
    BY <1>2
  <2>2. q[i].at \in Nat
    BY <2>1 DEF Times
  <2>3. QED BY <1>1, <1>2, <2>1, <2>2 DEF Since
<1>3. CASE i = Len(q) + 1
  BY <1>1, <1>3 DEF Since
<1>4. QED BY <1>1, <1>2, <1>3

\* What is charged is held.
LEMMA BalancedCharge ==
    ASSUME NEW limit \in Nat, NEW g \in Seq(ChargeOf(limit)), NEW e \in ChargeOf(limit),
           e.total = Total(g)[Len(g)] + e.cost,
           NEW q \in Seq(Times), \A i \in 1..Len(q) : q[i].at <= e.at,
           NEW C \in [0..Len(q) -> Nat], NEW held \in Nat, Balanced(q, C, g, held, e.at)
    PROVE  Balanced(q, C, Append(g, e), held + e.cost, e.at)
<1> SUFFICES ASSUME NEW i \in 1..(Len(q) + 1)
             PROVE  Covers(Append(g, e), Since(q, i, e.at),
                           C[Len(q)] - C[i - 1] + (held + e.cost))
  BY DEF Balanced
<1> DEFINE t == Since(q, i, e.at)
           amount == C[Len(q)] - C[i - 1] + held
<1>1. e.at \in Nat /\ e.cost \in Nat
  BY DEF ChargeOf
<1>2. t \in Nat /\ e.at >= t /\ Len(q) \in 0..Len(q) /\ i - 1 \in 0..Len(q)
  BY <1>1, SinceWhen
<1>3. C[Len(q)] \in Nat /\ C[i - 1] \in Nat
  BY <1>2
<1>4. amount \in Int /\ C[Len(q)] - C[i - 1] + (held + e.cost) = amount + e.cost
  BY <1>1, <1>3
<1>5. Covers(g, t, amount)
  BY DEF Balanced
<1> HIDE DEF t, amount
<1>6. Covers(Append(g, e), t, amount + e.cost)
  BY <1>2, <1>4, <1>5, CoversCharge
<1>7. QED BY <1>4, <1>6 DEF t

\* What is held may be given up.
LEMMA BalancedLess ==
    ASSUME NEW limit, NEW g \in Seq(ChargeOf(limit)),
           NEW q \in Seq(Times), NEW C \in [0..Len(q) -> Nat], NEW now,
           NEW held \in Nat, NEW less \in Nat, less <= held, Balanced(q, C, g, held, now)
    PROVE  Balanced(q, C, g, less, now)
<1> SUFFICES ASSUME NEW i \in 1..(Len(q) + 1)
             PROVE  Covers(g, Since(q, i, now), C[Len(q)] - C[i - 1] + less)
  BY DEF Balanced
<1>1. Len(q) \in 0..Len(q) /\ i - 1 \in 0..Len(q)
  OBVIOUS
<1>2. C[Len(q)] \in Nat /\ C[i - 1] \in Nat
  BY <1>1
<1>3. /\ C[Len(q)] - C[i - 1] + less \in Int /\ C[Len(q)] - C[i - 1] + held \in Int
      /\ C[Len(q)] - C[i - 1] + less <= C[Len(q)] - C[i - 1] + held
  BY <1>2
<1>4. Covers(g, Since(q, i, now), C[Len(q)] - C[i - 1] + held)
  BY DEF Balanced
<1>5. QED BY <1>3, <1>4, CoversLess

\* Time may pass when nothing is held.
LEMMA BalancedTick ==
    ASSUME NEW g, NEW q \in Seq(Times), NEW C \in [0..Len(q) -> Nat], NEW now, NEW later,
           Balanced(q, C, g, 0, now)
    PROVE  Balanced(q, C, g, 0, later)
<1> SUFFICES ASSUME NEW i \in 1..(Len(q) + 1)
             PROVE  Covers(g, Since(q, i, later), C[Len(q)] - C[i - 1] + 0)
  BY DEF Balanced
<1>1. CASE i <= Len(q)
  BY <1>1 DEF Balanced, Since
<1>2. CASE ~(i <= Len(q))
  <2>1. i - 1 = Len(q) /\ Len(q) \in 0..Len(q)
    BY <1>2
  <2>2. C[Len(q)] - C[i - 1] + 0 <= 0
    BY <2>1
  <2>3. QED BY <2>2 DEF Covers
<1>3. QED BY <1>1, <1>2

\* What is counted more is held less, of all that is left when d is taken away.
LEMMA CountedOrHeld ==
    ASSUME NEW c \in Nat, NEW d \in Nat, NEW least \in Nat, NEW w \in Nat,
           NEW held \in Nat, NEW left \in Nat, left + w <= held, least <= d
    PROVE  /\ (c + w) - d + left <= c - least + held
           /\ (c + w) - d + left \in Int /\ c - least + held \in Int
OBVIOUS

\* What arrives was held, as much as it weighs.
LEMMA BalancedArrive ==
    ASSUME NEW limit, NEW g \in Seq(ChargeOf(limit)),
           NEW q \in Seq(Times), NEW b \in Seq(Times),
           NEW now, \A i \in 1..Len(b) : b[i].at = now,
           NEW C, NEW D, NEW w \in Nat, Continues(D, C, Len(q), Len(b), w),
           NEW held \in Nat, NEW left \in Nat, left + w <= held, Balanced(q, C, g, held, now)
    PROVE  Balanced(q \o b, D, g, left, now)
<1> DEFINE n == Len(q)
           p == Len(b)
           r == q \o b
<1>1. /\ n \in Nat /\ p \in Nat /\ Len(r) = n + p
      /\ \A k \in 1..n : r[k] = q[k]
      /\ \A k \in 1..p : r[n + k] = b[k]
  BY Joined
<1> HIDE DEF n, p, r
<1>2. Continues(D, C, n, p, w) /\ \A k \in 1..p : b[k].at = now
  BY DEF n, p
<1>3. n + p \in 0..(n + p) /\ n \in 0..n
  BY <1>1
<1>4. D[n + p] = C[n] + w /\ C[n] \in Nat /\ D[n + p] \in Nat
  BY <1>2, <1>3 DEF Continues
<1> SUFFICES ASSUME NEW i \in 1..((n + p) + 1)
             PROVE  Covers(g, Since(r, i, now), D[n + p] - D[i - 1] + left)
  BY <1>1 DEF Balanced, r
<1>5. CASE i <= n
  <2>1. i \in 1..n /\ i - 1 \in 0..n /\ i \in 1..(n + 1) /\ i <= n + p
    BY <1>1, <1>5
  <2>2. D[i - 1] = C[i - 1] /\ C[i - 1] \in Nat
    BY <1>2, <2>1 DEF Continues
  <2>3. Since(r, i, now) = Since(q, i, now)
    BY <1>1, <1>5, <2>1 DEF Since, n
  <2>4. Covers(g, Since(q, i, now), C[n] - C[i - 1] + held)
    BY <2>1 DEF Balanced, n
  <2>5. /\ D[n + p] - D[i - 1] + left <= C[n] - C[i - 1] + held
        /\ D[n + p] - D[i - 1] + left \in Int /\ C[n] - C[i - 1] + held \in Int
    <3>1. C[i - 1] <= D[i - 1] /\ D[i - 1] \in Nat
      BY <2>2
    <3>2. /\ (C[n] + w) - D[i - 1] + left <= C[n] - C[i - 1] + held
          /\ (C[n] + w) - D[i - 1] + left \in Int /\ C[n] - C[i - 1] + held \in Int
      BY <1>4, <2>2, <3>1, CountedOrHeld
    <3>3. QED BY <1>4, <3>2
  <2>6. QED BY <2>3, <2>4, <2>5, CoversLess
<1>6. CASE i > n
  <2>1. i - 1 \in n..(n + p) /\ i - 1 \in 0..(n + p)
    BY <1>1, <1>6
  <2>2. C[n] <= D[i - 1] /\ D[i - 1] \in Nat
    BY <1>2, <2>1 DEF Continues
  <2>3. Since(r, i, now) = now
    <3>1. CASE i <= n + p
      <4>1. i - n \in 1..p /\ n + (i - n) = i
        BY <1>1, <1>6, <3>1
      <4>2. r[i].at = now
        BY <1>1, <1>2, <4>1
      <4>3. QED BY <4>2 DEF Since
    <3>2. CASE ~(i <= n + p)
      BY <1>1, <3>2 DEF Since
    <3>3. QED BY <3>1, <3>2
  <2>4. Covers(g, now, C[n] - C[n] + held)
    <3>1. n + 1 \in 1..(n + 1) /\ (n + 1) - 1 = n /\ ~(n + 1 <= n)
      BY <1>1
    <3>2. Since(q, n + 1, now) = now
      BY <3>1 DEF Since, n
    <3>3. Covers(g, Since(q, n + 1, now), C[n] - C[(n + 1) - 1] + held)
      BY <3>1 DEF Balanced, n
    <3>4. QED BY <3>1, <3>2, <3>3
  <2>5. /\ D[n + p] - D[i - 1] + left <= C[n] - C[n] + held
        /\ D[n + p] - D[i - 1] + left \in Int /\ C[n] - C[n] + held \in Int
    <3>1. /\ (C[n] + w) - D[i - 1] + left <= C[n] - C[n] + held
          /\ (C[n] + w) - D[i - 1] + left \in Int /\ C[n] - C[n] + held \in Int
      BY <1>4, <2>2, CountedOrHeld
    <3>2. QED BY <1>4, <3>1
  <2>6. QED BY <2>3, <2>4, <2>5, CoversLess
<1>7. QED BY <1>1, <1>5, <1>6

\* What was counted up to an earlier arrival is no more than what is counted now.
LEMMA EarlierIsLess ==
    ASSUME NEW a \in Nat, NEW b \in Nat, NEW c \in Nat, NEW held \in Nat, NEW most \in Nat
    PROVE  /\ b - c + held \in Int
           /\ (a <= b /\ b - c + held <= most) => a - c <= most
OBVIOUS

\* When the books balance and the bucket is not overspent, what arrived last does
\* not take the meter past its limit either.
LEMMA BalancedIsWithin ==
    ASSUME NEW most \in Nat, NEW wide \in Nat, NEW limit \in Nat, NEW window \in Nat,
           limit <= most, wide <= window,
           NEW g \in Seq(ChargeOf(limit)), Kept(g, limit, window),
           NEW now \in Nat, \A k \in 1..Len(g) : g[k].at <= now,
           NEW q \in Seq(Times), NEW b \in Seq(Times),
           \A i \in 1..Len(q) : q[i].at <= now, \A i \in 1..Len(b) : b[i].at = now,
           NEW C, NEW D, NEW w, Continues(D, C, Len(q), Len(b), w),
           Within(q, C, most, wide),
           NEW held \in Nat, Balanced(q \o b, D, g, held, now)
    PROVE  Within(q \o b, D, most, wide)
<1> DEFINE n == Len(q)
           p == Len(b)
           r == q \o b
<1>1. /\ n \in Nat /\ p \in Nat /\ Len(r) = n + p /\ r \in Seq(Times)
      /\ \A k \in 1..n : r[k] = q[k]
      /\ \A k \in 1..p : r[n + k] = b[k]
  BY Joined
<1> HIDE DEF n, p, r
<1>2. Continues(D, C, n, p, w) /\ (\A k \in 1..p : b[k].at = now)
      /\ Within(q, C, most, wide) /\ Balanced(r, D, g, held, now)
  BY DEF n, p, r
<1> SUFFICES ASSUME NEW i \in 1..(n + p), NEW j \in 1..(n + p), i <= j,
                    r[j].at - r[i].at < wide
             PROVE  D[j] - D[i - 1] <= most
  BY <1>1 DEF Within, r
<1>3. CASE j <= n
  <2>1. i \in 1..n /\ j \in 1..n /\ i - 1 \in 0..n /\ j \in 0..n
    BY <1>1, <1>3
  <2>2. r[j] = q[j] /\ r[i] = q[i] /\ D[j] = C[j] /\ D[i - 1] = C[i - 1]
    BY <1>1, <1>2, <2>1 DEF Continues
  <2>3. C[j] - C[i - 1] <= most
    BY <1>2, <2>1, <2>2 DEF Within, n
  <2>4. QED BY <2>2, <2>3
<1>4. CASE j > n
  <2>1. j - n \in 1..p /\ n + (j - n) = j /\ j \in 0..(n + p) /\ i - 1 \in 0..(n + p)
        /\ n + p \in 0..(n + p) /\ i \in 1..((n + p) + 1)
    BY <1>1, <1>4
  <2>2. r[j].at = now
    BY <1>1, <1>2, <2>1
  <2>3. r[i] \in Times
    BY <1>1
  <2>4. r[i].at \in Nat /\ now - r[i].at < wide
    BY <2>2, <2>3 DEF Times
  <2>5. D[j] \in Nat /\ D[i - 1] \in Nat /\ D[n + p] \in Nat
    BY <1>2, <2>1 DEF Continues
  <2>6. D[n + p] - D[i - 1] + held <= most
    <3>1. Covers(g, r[i].at, D[n + p] - D[i - 1] + held)
      BY <1>1, <1>2, <2>1 DEF Balanced, Since
    <3>2. D[n + p] - D[i - 1] + held \in Int
      BY <2>5, EarlierIsLess, Zenon
    <3>3. QED BY <2>4, <3>1, <3>2, CoversWithin
  <2>7. D[j] <= D[n + p]
    BY <1>2, <2>1 DEF Continues
  <2>8. QED BY <2>5, <2>6, <2>7, EarlierIsLess, Zenon
<1>5. QED BY <1>1, <1>3, <1>4

-----------------------------------------------------------------------------
\* The state.

Counts(m) == Counted(m, sent)

\* Nothing lies in the future.
Past ==
    /\ \A i \in 1..Len(sent) : sent[i].at <= clock
    /\ \A key \in DOMAIN Buckets : \A k \in 1..Len(grants[key]) : grants[key][k].at <= clock

\* The books of each meter balance with the charges to its bucket, nothing being
\* held, and it is within its limit.
MetersHeld ==
    \A m \in DOMAIN Meters :
        /\ Balanced(sent, Counts(m), grants[m], 0, clock)
        /\ Within(sent, Counts(m), Meters[m].limit, Meters[m].window)

MInv == IInv /\ Past /\ MetersHeld

\* Each meter has its bucket, and each request that it counts a price.
Measured ==
    /\ BucketsCover
    /\ \A request \in Requests : request.meter \in DOMAIN Meters => request.price \in Nat

\* The second half of being covered is not needed to count.
LEMMA CoveredIsMeasured == CoversTheMeters => Measured
BY DEF CoversTheMeters, Measured

\* The bucket of a meter.
LEMMA BucketOfAMeter ==
    ASSUME Measured, NEW m \in DOMAIN Meters
    PROVE  /\ m \in DOMAIN Buckets
           /\ Buckets[m].limit \in Nat /\ Buckets[m].window \in Nat
           /\ Meters[m].limit \in Nat /\ Meters[m].window \in Nat
           /\ Buckets[m].limit <= Meters[m].limit /\ Meters[m].window <= Buckets[m].window
<1>1. m \in DOMAIN Buckets /\ Meters[m].limit \in Nat /\ Meters[m].window \in Nat
      /\ Buckets[m].limit <= Meters[m].limit /\ Buckets[m].window >= Meters[m].window
  BY DEF Measured, BucketsCover
<1>2. Buckets[m].limit \in Nat /\ Buckets[m].window \in Nat
  BY <1>1, BucketsArePositive
<1>3. QED BY <1>1, <1>2

\* Every arrival weighs a natural number on every meter.
LEMMA ArrivalsAreWeighed ==
    ASSUME Measured, NEW m \in DOMAIN Meters
    PROVE  /\ \A x \in Times : Weight(m, x) \in Nat
           /\ \A q \in Seq(Times) : Weighed(m, q)
<1>1. ASSUME NEW x \in Times PROVE Weight(m, x) \in Nat
  <2>1. x.request \in Requests
    BY DEF Times
  <2>2. x.request.meter = m => x.request.price \in Nat
    BY <2>1 DEF Measured
  <2>3. QED BY <2>2 DEF Weight
<1>2. ASSUME NEW q \in Seq(Times) PROVE Weighed(m, q)
  <2>1. \A k \in 1..Len(q) : q[k] \in Times
    OBVIOUS
  <2>2. QED BY <1>1, <2>1 DEF Weighed
<1>3. QED BY <1>1, <1>2

\* What a charge does to each bucket.
LEMMA WhatAChargeDoes ==
    ASSUME BucketsTyped, NEW charged \in DOMAIN Buckets,
           NEW cost \in 1..Buckets[charged].limit, Charge(charged, cost),
           NEW key \in DOMAIN Buckets
    PROVE  /\ grants[key] \in Seq(ChargeOf(Buckets[key].limit))
           /\ key # charged => grants'[key] = grants[key]
           /\ key = charged => \E e \in ChargeOf(Buckets[key].limit) :
                 /\ e.at = clock /\ e.cost = cost
                 /\ e.total = Total(grants[key])[Len(grants[key])] + e.cost
                 /\ grants'[key] = Append(grants[key], e)
<1> DEFINE g == grants[key]
           e == [at |-> clock, cost |-> cost, total |-> Total(g)[Len(g)] + cost]
<1>1. grants' = [grants EXCEPT ![charged] = Budget(charged)!WithCharge(clock, cost)]
  BY DEF Charge
<1>2. g \in Seq(ChargeOf(Buckets[key].limit)) /\ clock \in Nat /\ key \in DOMAIN grants
  BY DEF BucketsTyped, Grant, ChargeOf
<1>3. CASE key # charged
  BY <1>1, <1>2, <1>3
<1>4. CASE key = charged
  <2>1. grants'[key] = Append(g, e)
    BY <1>1, <1>2, <1>4 DEF Budget!WithCharge, Budget!Spent, Total
  <2>2. Total(g)[Len(g)] \in Nat
    <3>1. Len(g) \in 0..Len(g)
      BY <1>2
    <3>2. QED BY <1>2, <3>1, TotalsAreNat
  <2>3. cost \in 1..Buckets[key].limit /\ cost \in Nat
    BY <1>4
  <2>4. Total(g)[Len(g)] + cost \in Nat
    BY <2>2, <2>3
  <2>5. e \in ChargeOf(Buckets[key].limit)
    BY <1>2, <2>3, <2>4 DEF ChargeOf
  <2> HIDE DEF g
  <2>6. e.at = clock /\ e.cost = cost /\ e.total = Total(g)[Len(g)] + e.cost
    OBVIOUS
  <2> HIDE DEF e
  <2>7. QED BY <1>2, <1>4, <2>1, <2>5, <2>6 DEF g
<1>5. QED BY <1>2, <1>3, <1>4

\* Time passes: what was charged and what arrived stays in the past.
LEMMA PastLater ==
    ASSUME BucketsTyped, sent \in Seq(Times), Past, clock' = clock + 1,
           grants' = grants, sent' = sent
    PROVE  Past'
<1>1. clock \in Nat
  BY DEF BucketsTyped
<1>2. ASSUME NEW i \in 1..Len(sent) PROVE sent[i].at <= clock + 1
  <2>1. sent[i] \in Times /\ sent[i].at <= clock
    BY DEF Past
  <2>2. QED BY <1>1, <2>1 DEF Times
<1>3. ASSUME NEW key \in DOMAIN Buckets, NEW k \in 1..Len(grants[key])
      PROVE  grants[key][k].at <= clock + 1
  <2>1. grants[key] \in Seq(Grant(key))
    BY DEF BucketsTyped
  <2>2. grants[key][k] \in Grant(key)
    BY <2>1
  <2>3. grants[key][k].at \in Nat /\ grants[key][k].at <= clock
    BY <2>2 DEF Grant, Past
  <2>4. QED BY <1>1, <2>3
<1>4. QED BY <1>2, <1>3 DEF Past

\* What arrives now is not in the future.
LEMMA ArrivedByNow ==
    ASSUME NEW now, NEW q \in Seq(Times), \A i \in 1..Len(q) : q[i].at <= now,
           NEW b \in Seq(Times), \A i \in 1..Len(b) : b[i].at = now, now \in Nat
    PROVE  \A i \in 1..Len(q \o b) : (q \o b)[i].at <= now
<1> DEFINE n == Len(q)
           p == Len(b)
           r == q \o b
<1>1. /\ n \in Nat /\ p \in Nat /\ Len(r) = n + p
      /\ \A k \in 1..n : r[k] = q[k]
      /\ \A k \in 1..p : r[n + k] = b[k]
  BY Joined
<1>2. (\A k \in 1..n : q[k].at <= now) /\ (\A k \in 1..p : b[k].at = now)
  OBVIOUS
<1> HIDE DEF n, p, r
<1>3. ASSUME NEW i \in 1..(n + p) PROVE r[i].at <= now
  <2>1. CASE i <= n
    <3>1. i \in 1..n
      BY <1>1, <2>1
    <3>2. QED BY <1>1, <1>2, <3>1
  <2>2. CASE i > n
    <3>1. i - n \in 1..p /\ n + (i - n) = i
      BY <1>1, <2>2
    <3>2. r[i].at = now
      BY <1>1, <1>2, <3>1
    <3>3. QED BY <3>2
  <2>3. QED BY <1>1, <2>1, <2>2
<1>4. QED BY <1>1, <1>3 DEF r

\* What is charged is charged now.
LEMMA ChargedByNow ==
    ASSUME BucketsTyped, Past, NEW charged \in DOMAIN Buckets,
           NEW cost \in 1..Buckets[charged].limit, Charge(charged, cost),
           NEW key \in DOMAIN Buckets, NEW k \in 1..Len(grants'[key])
    PROVE  grants'[key][k].at <= clock
<1>1. clock \in Nat
  BY DEF BucketsTyped
<1>2. CASE key # charged
  <2>1. grants'[key] = grants[key]
    BY <1>2, WhatAChargeDoes
  <2>2. QED BY <2>1 DEF Past
<1>3. CASE key = charged
  <2>1. PICK e \in ChargeOf(Buckets[key].limit) :
           e.at = clock /\ grants'[key] = Append(grants[key], e)
    BY <1>3, WhatAChargeDoes
  <2>2. grants[key] \in Seq(ChargeOf(Buckets[key].limit))
    BY WhatAChargeDoes
  <2>3. CASE k = Len(grants[key]) + 1
    BY <1>1, <2>1, <2>2, <2>3
  <2>4. CASE k # Len(grants[key]) + 1
    <3>1. k \in 1..Len(grants[key]) /\ grants'[key][k] = grants[key][k]
      BY <2>1, <2>2, <2>4
    <3>2. QED BY <3>1 DEF Past
  <2>5. QED BY <2>3, <2>4
<1>4. QED BY <1>2, <1>3

\* A step puts nothing in the future.
LEMMA PastStep ==
    ASSUME IInv, Past, Next
    PROVE  Past'
<1>1. BucketsTyped /\ clock \in Nat /\ sent \in Seq(Times)
      /\ \A i \in 1..Len(sent) : sent[i].at <= clock
  BY DEF IInv, TypeOK, BucketsTyped, Times, Past
<1>2. CASE Tick
  BY <1>1, <1>2, PastLater DEF Tick
<1>3. CASE \E request \in Requests : AcquireFor(request)
  <2>1. PICK request \in Requests : AcquireFor(request)
    BY <1>3
  <2> DEFINE due == Routes[request]
             x == [at |-> clock, request |-> request]
  <2>2. clock' = clock /\ sent' = Append(sent, x) /\ x \in Times /\ x.at = clock
    BY <1>1, <2>1 DEF AcquireFor, Times
  <2>3. \A i \in 1..Len(sent') : sent'[i].at <= clock'
    <3> HIDE DEF x
    <3>1. <<x>> \in Seq(Times) /\ (\A i \in 1..Len(<<x>>) : <<x>>[i].at = clock)
          /\ sent' = sent \o <<x>>
      BY <1>1, <2>2
    <3>2. QED BY <1>1, <2>2, <3>1, ArrivedByNow
  <2>4. CASE due = None
    <3>1. grants' = grants
      BY <2>1, <2>4 DEF AcquireFor
    <3>2. QED BY <2>2, <2>3, <3>1 DEF Past
  <2>5. CASE due # None
    <3>1. /\ due.key \in DOMAIN Buckets /\ due.cost \in 1..Buckets[due.key].limit
          /\ Charge(due.key, due.cost)
      BY <2>1, <2>5 DEF AcquireFor, Accepts
    <3>2. \A key \in DOMAIN Buckets : \A k \in 1..Len(grants'[key]) : grants'[key][k].at <= clock
      BY <1>1, <3>1, ChargedByNow
    <3>3. QED BY <2>2, <2>3, <3>2 DEF Past
  <2>6. QED BY <2>4, <2>5
<1>4. CASE \E key \in DOMAIN Buckets, cost \in UserCosts : Acquire(key, cost)
  <2>1. PICK charged \in DOMAIN Buckets, cost \in UserCosts : Acquire(charged, cost)
    BY <1>4
  <2>2. /\ cost \in 1..Buckets[charged].limit /\ Charge(charged, cost)
        /\ clock' = clock /\ sent' = sent
    BY <2>1 DEF Acquire, Accepts
  <2>3. \A key \in DOMAIN Buckets : \A k \in 1..Len(grants'[key]) : grants'[key][k].at <= clock
    BY <1>1, <2>2, ChargedByNow
  <2>4. QED BY <1>1, <2>2, <2>3 DEF Past
<1>5. QED BY <1>2, <1>3, <1>4 DEF Next

\* What a meter has counted is a natural number after each arrival.
LEMMA CountsAreNat ==
    ASSUME Measured, NEW m \in DOMAIN Meters, NEW q \in Seq(Times)
    PROVE  Counted(m, q) \in [0..Len(q) -> Nat]
<1>1. IsSums(Counted(m, q), Weights(m, q), Len(q))
  BY ArrivalsAreWeighed, CountedIsASum
<1>2. QED BY <1>1 DEF IsSums

\* A charge to any bucket is held on the meter of that bucket.
LEMMA ChargeIsHeld ==
    ASSUME Measured, BucketsTyped, NEW m \in DOMAIN Meters,
           NEW charged \in DOMAIN Buckets, NEW cost \in 1..Buckets[charged].limit,
           Charge(charged, cost),
           NEW q \in Seq(Times), \A i \in 1..Len(q) : q[i].at <= clock,
           NEW held \in Nat, Balanced(q, Counted(m, q), grants[m], held, clock)
    PROVE  Balanced(q, Counted(m, q), grants'[m], held + (IF charged = m THEN cost ELSE 0), clock)
<1>1. m \in DOMAIN Buckets /\ Buckets[m].limit \in Nat
  BY BucketOfAMeter
<1> DEFINE limit == Buckets[m].limit
           g == grants[m]
           C == Counted(m, q)
<1>2. C \in [0..Len(q) -> Nat]
  BY CountsAreNat
<1>3. CASE m # charged
  <2>1. grants'[m] = g
    BY <1>1, <1>3, WhatAChargeDoes
  <2>2. held + 0 = held
    OBVIOUS
  <2>3. QED BY <1>3, <2>1, <2>2
<1>4. CASE m = charged
  <2>1. g \in Seq(ChargeOf(limit))
    BY <1>1, WhatAChargeDoes
  <2>2. PICK e \in ChargeOf(limit) : /\ e.at = clock /\ e.cost = cost
                                     /\ e.total = Total(g)[Len(g)] + e.cost
                                     /\ grants'[m] = Append(g, e)
    BY <1>1, <1>4, WhatAChargeDoes
  <2> HIDE DEF limit, g, C
  <2>3. limit \in Nat /\ Balanced(q, C, g, held, e.at) /\ \A i \in 1..Len(q) : q[i].at <= e.at
    BY <1>1, <2>2 DEF limit, g, C
  <2>4. Balanced(q, C, Append(g, e), held + e.cost, e.at)
    BY <1>2, <2>1, <2>2, <2>3, BalancedCharge
  <2>5. QED BY <1>4, <2>2, <2>4 DEF C
<1>5. QED BY <1>3, <1>4

\* Requests that arrive take from what is held, and the meter stays within its
\* limit.
LEMMA ArrivalsWereHeld ==
    ASSUME Measured, NEW m \in DOMAIN Meters,
           NEW now \in Nat, NEW g, g \in Seq(ChargeOf(Buckets[m].limit)),
           Kept(g, Buckets[m].limit, Buckets[m].window), \A k \in 1..Len(g) : g[k].at <= now,
           NEW q \in Seq(Times), \A i \in 1..Len(q) : q[i].at <= now,
           NEW b \in Seq(Times), \A i \in 1..Len(b) : b[i].at = now,
           NEW held \in Nat, NEW left \in Nat, left + Counted(m, b)[Len(b)] <= held,
           Balanced(q, Counted(m, q), g, held, now),
           Within(q, Counted(m, q), Meters[m].limit, Meters[m].window)
    PROVE  /\ Balanced(q \o b, Counted(m, q \o b), g, left, now)
           /\ Within(q \o b, Counted(m, q \o b), Meters[m].limit, Meters[m].window)
<1> DEFINE C == Counted(m, q)
           D == Counted(m, q \o b)
           w == Counted(m, b)[Len(b)]
           limit == Buckets[m].limit
           window == Buckets[m].window
           most == Meters[m].limit
           wide == Meters[m].window
<1>1. /\ limit \in Nat /\ window \in Nat /\ most \in Nat /\ wide \in Nat
      /\ limit <= most /\ wide <= window
  BY BucketOfAMeter
<1>2. w \in Nat
  <2>1. Len(b) \in 0..Len(b) /\ Counted(m, b) \in [0..Len(b) -> Nat]
    BY CountsAreNat
  <2>2. QED BY <2>1
<1>3. Continues(D, C, Len(q), Len(b), w)
  BY ArrivalsAreWeighed, MoreArrivals
<1> HIDE DEF C, D, w, limit, window, most, wide
<1>4. /\ g \in Seq(ChargeOf(limit)) /\ Kept(g, limit, window)
      /\ left + w <= held /\ Balanced(q, C, g, held, now) /\ Within(q, C, most, wide)
  BY DEF C, w, limit, window, most, wide
<1>5. Balanced(q \o b, D, g, left, now)
  BY <1>2, <1>3, <1>4, BalancedArrive
<1>6. Within(q \o b, D, most, wide)
  BY <1>1, <1>3, <1>4, <1>5, BalancedIsWithin
<1>7. QED BY <1>5, <1>6 DEF D, most, wide

\* A request that leaves as it is charged leaves the books of every meter in
\* balance.
LEMMA MeterOfAnArrival ==
    ASSUME CoversTheMeters, MInv, IInv', Past', NEW m \in DOMAIN Meters,
           NEW request \in Requests, AcquireFor(request)
    PROVE  /\ Balanced(sent', Counted(m, sent'), grants'[m], 0, clock')
           /\ Within(sent', Counted(m, sent'), Meters[m].limit, Meters[m].window)
<1> DEFINE due == Routes[request]
           h == grants'[m]
           x == [at |-> clock, request |-> request]
           b == <<x>>
           cost == IF due # None /\ due.key = m THEN due.cost ELSE 0
<1>0. Measured
  BY CoveredIsMeasured
<1>1. /\ BucketsTyped /\ clock \in Nat /\ sent \in Seq(Times)
      /\ Balanced(sent, Counted(m, sent), grants[m], 0, clock)
      /\ Within(sent, Counted(m, sent), Meters[m].limit, Meters[m].window)
      /\ \A i \in 1..Len(sent) : sent[i].at <= clock
  BY DEF MInv, IInv, MetersHeld, Counts, Past, TypeOK, BucketsTyped, Times
<1>2. sent' = Append(sent, x) /\ x \in Times /\ x.at = clock /\ clock' = clock
  BY <1>1 DEF AcquireFor, Times
<1>3. h \in Seq(ChargeOf(Buckets[m].limit)) /\ Kept(h, Buckets[m].limit, Buckets[m].window)
      /\ \A k \in 1..Len(h) : h[k].at <= clock
  <2>1. m \in DOMAIN Buckets
    BY <1>0, BucketOfAMeter
  <2>2. h \in Seq(ChargeOf(Buckets[m].limit))
    BY <2>1 DEF IInv, TypeOK, BucketsTyped, Grant, ChargeOf
  <2>3. Kept(h, Buckets[m].limit, Buckets[m].window)
    BY <2>1 DEF IInv, NoBucketIsOverspent, Budget!NeverOverspent, Budget!Spent, Kept, Total
  <2>4. \A k \in 1..Len(h) : h[k].at <= clock
    BY <1>2, <2>1 DEF Past
  <2>5. QED BY <2>2, <2>3, <2>4
<1>4. cost \in Nat /\ Balanced(sent, Counted(m, sent), h, cost, clock)
  <2>1. CASE due = None
    <3>1. h = grants[m] /\ cost = 0
      BY <2>1 DEF AcquireFor
    <3>2. QED BY <1>1, <3>1
  <2>2. CASE due # None
    <3>1. /\ due.key \in DOMAIN Buckets /\ due.cost \in 1..Buckets[due.key].limit
          /\ Charge(due.key, due.cost)
      BY <2>2 DEF AcquireFor, Accepts
    <3>2. due.cost \in Nat
      BY <3>1
    <3>3. Balanced(sent, Counted(m, sent), h, 0 + (IF due.key = m THEN due.cost ELSE 0), clock)
      BY <1>0, <1>1, <3>1, ChargeIsHeld
    <3>4. 0 + (IF due.key = m THEN due.cost ELSE 0) = cost /\ cost \in Nat
      BY <2>2, <3>2
    <3> HIDE DEF h, cost
    <3>5. QED BY <3>3, <3>4
  <2>3. QED BY <2>1, <2>2
<1>5. b \in Seq(Times) /\ Len(b) = 1 /\ (\A i \in 1..Len(b) : b[i].at = clock)
      /\ sent' = sent \o b
  <2> HIDE DEF x
  <2>1. QED BY <1>1, <1>2
<1>6. 0 + Counted(m, b)[Len(b)] <= cost
  <2>1. IsSums(Counted(m, b), Weights(m, b), Len(b))
    BY <1>0, <1>5, ArrivalsAreWeighed, CountedIsASum
  <2>2. 1 \in 0..Len(b) /\ 0 \in 0..Len(b) /\ 1 \in 1..Len(b)
    BY <1>5
  <2>3. Counted(m, b)[1] = Counted(m, b)[0] + Weights(m, b)[1] /\ Counted(m, b)[0] = 0
    BY <2>1, <2>2 DEF IsSums
  <2>4. Weights(m, b)[1] = Weight(m, x)
    BY <2>2 DEF Weights
  <2>5. Weight(m, x) \in Nat /\ Weight(m, x) <= cost
    <3>1. Weight(m, x) \in Nat
      BY <1>0, <1>2, ArrivalsAreWeighed
    <3>2. request.meter = m =>
             due # None /\ due.key = m /\ request.price <= due.cost
      BY DEF CoversTheMeters
    <3>3. Weight(m, x) = IF request.meter = m THEN request.price ELSE 0
      BY DEF Weight
    <3>4. QED BY <1>4, <3>1, <3>2, <3>3
  <2> HIDE DEF b, cost, x
  <2>6. QED BY <1>5, <2>3, <2>4, <2>5
<1> HIDE DEF h, x, b, cost
<1>7. /\ Balanced(sent \o b, Counted(m, sent \o b), h, 0, clock)
      /\ Within(sent \o b, Counted(m, sent \o b), Meters[m].limit, Meters[m].window)
  BY <1>0, <1>1, <1>3, <1>4, <1>5, <1>6, ArrivalsWereHeld
<1>8. QED BY <1>2, <1>5, <1>7 DEF h

\* Before the first call no meter has counted anything.
LEMMA InitMInv ==
    ASSUME Measured, Init
    PROVE  MInv
<1>1. IInv
  BY InitIInv
<1>2. sent = <<>> /\ \A key \in DOMAIN Buckets : grants[key] = <<>>
  BY DEF Init
<1>3. Past
  BY <1>2 DEF Past
<1>4. MetersHeld
  <2>1. ASSUME NEW m \in DOMAIN Meters
        PROVE  /\ Balanced(<<>>, Counts(m), grants[m], 0, clock)
               /\ Within(<<>>, Counts(m), Meters[m].limit, Meters[m].window)
    <3>1. Counts(m) \in [0..Len(<<>>) -> Nat]
      <4>1. <<>> \in Seq(Times)
        OBVIOUS
      <4>2. QED BY <1>2, <4>1, CountsAreNat DEF Counts
    <3>2. Counts(m)[0] - Counts(m)[0] + 0 <= 0
      BY <3>1
    <3>3. QED BY <3>2 DEF Balanced, Covers, Within
  <2>2. QED BY <1>2, <2>1 DEF MetersHeld
<1>5. QED BY <1>1, <1>3, <1>4 DEF MInv

\* The invariant survives every step.
LEMMA StepMInv ==
    ASSUME CoversTheMeters
    PROVE  MInv /\ [Next]_vars => MInv'
<1> SUFFICES ASSUME MInv, [Next]_vars PROVE MInv'
  OBVIOUS
<1>0. Measured
  BY CoveredIsMeasured
<1>1. IInv /\ Past /\ MetersHeld
  BY DEF MInv
<1>2. IInv'
  BY <1>1, StepIInv
<1>3. CASE UNCHANGED vars
  <2>1. Past' /\ MetersHeld'
    BY <1>1, <1>3 DEF vars, Past, MetersHeld, Counts
  <2>2. QED BY <1>2, <2>1 DEF MInv
<1>4. CASE Next
  <2>1. Past'
    BY <1>1, <1>4, PastStep
  <2>2. ASSUME NEW m \in DOMAIN Meters
        PROVE  /\ Balanced(sent', Counted(m, sent'), grants'[m], 0, clock')
               /\ Within(sent', Counted(m, sent'), Meters[m].limit, Meters[m].window)
    <3> DEFINE C == Counted(m, sent)
    <3>1. /\ BucketsTyped /\ sent \in Seq(Times)
          /\ Balanced(sent, C, grants[m], 0, clock)
          /\ Within(sent, C, Meters[m].limit, Meters[m].window)
          /\ \A i \in 1..Len(sent) : sent[i].at <= clock
      BY <1>1 DEF MetersHeld, Counts, IInv, TypeOK, Past, Times
    <3>2. C \in [0..Len(sent) -> Nat]
      BY <1>0, <2>2, <3>1, CountsAreNat
    <3>3. CASE Tick
      <4>1. clock' = clock + 1 /\ grants' = grants /\ sent' = sent
        BY <3>3 DEF Tick
      <4> HIDE DEF C
      <4>2. Balanced(sent, C, grants[m], 0, clock + 1)
        BY <3>1, <3>2, BalancedTick
      <4>3. QED BY <3>1, <4>1, <4>2 DEF C
    <3>4. CASE \E request \in Requests : AcquireFor(request)
      BY <1>2, <2>1, <2>2, <3>4, MeterOfAnArrival
    <3>5. CASE \E key \in DOMAIN Buckets, cost \in UserCosts : Acquire(key, cost)
      <4>1. PICK key \in DOMAIN Buckets, cost \in UserCosts : Acquire(key, cost)
        BY <3>5
      <4>2. /\ cost \in 1..Buckets[key].limit /\ cost \in Nat /\ Charge(key, cost)
            /\ sent' = sent /\ clock' = clock
        BY <4>1 DEF Acquire, Accepts
      <4> DEFINE held == 0 + (IF key = m THEN cost ELSE 0)
      <4>3. Balanced(sent, C, grants'[m], held, clock)
        BY <1>0, <2>2, <3>1, <4>2, ChargeIsHeld
      <4>4. grants'[m] \in Seq(ChargeOf(Buckets[m].limit))
        BY <1>0, <1>2, <2>2, BucketOfAMeter DEF IInv, TypeOK, BucketsTyped, Grant, ChargeOf
      <4>5. held \in Nat /\ 0 <= held
        BY <4>2
      <4> HIDE DEF C, held
      <4>6. Balanced(sent, C, grants'[m], 0, clock)
        BY <3>1, <3>2, <4>3, <4>4, <4>5, BalancedLess
      <4>7. QED BY <3>1, <4>2, <4>6 DEF C
    <3>6. QED BY <1>4, <3>3, <3>4, <3>5 DEF Next
  <2>3. MetersHeld'
    BY <2>2 DEF MetersHeld, Counts
  <2>4. QED BY <1>2, <2>1, <2>3 DEF MInv
<1>5. QED BY <1>3, <1>4

\* The limiter keeps the promise the package is named for: when it covers the
\* meters of Google, none of them ever counts more than its limit within its
\* window, whatever else is charged to the same buckets.
THEOREM LimiterKeepsGoogleLimits ==
    ASSUME CoversTheMeters
    PROVE  Spec => []GoogleCountsNoMore
<1>1. MInv => GoogleCountsNoMore
  <2>1. SUFFICES ASSUME MInv PROVE GoogleCountsNoMore
    OBVIOUS
  <2>2. ASSUME NEW m \in DOMAIN Meters
        PROVE  Within(sent, Counted(m, sent), Meters[m].limit, Meters[m].window)
    BY <2>1 DEF MInv, MetersHeld, Counts
  <2>3. QED BY <2>2 DEF GoogleCountsNoMore, MetersKeep, Within
<1>2. MInv /\ [Next]_vars => MInv'
  BY StepMInv
<1>3. QED BY <1>1, <1>2, InitMInv, CoveredIsMeasured, PTL DEF Spec
=============================================================================
