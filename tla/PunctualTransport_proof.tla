------------------------ MODULE PunctualTransport_proof ------------------------
(***************************************************************************)
(* What the library is for, with the transports in place: as long as what  *)
(* is paid for leaves at once, no meter of Google counts too much, however *)
(* many senders share the limiter and however often they send again.       *)
(*                                                                         *)
(* Between the bucket and the wire a sender holds charges for which nothing *)
(* has arrived yet.  The books of a meter balance when these are added to  *)
(* what it has counted.                                                    *)
(***************************************************************************)
EXTENDS PacedTransport_proof, FiniteSetTheorems

-----------------------------------------------------------------------------
\* The senders, one after another.

Many == Cardinality(Sender)

Order == CHOOSE f : f \in Bijection(1..Many, Sender)

\* Each sender has its place.
LEMMA EachHasItsPlace ==
    /\ Many \in Nat /\ Order \in [1..Many -> Sender]
    /\ \A s \in Sender : \E i \in 1..Many : Order[i] = s
    /\ \A i, j \in 1..Many : Order[i] = Order[j] => i = j
<1>1. Many \in Nat /\ \E f : f \in Bijection(1..Many, Sender)
  BY SenderAssumption, FS_CardinalityType DEF Many, ExistsBijection
<1>2. Order \in Bijection(1..Many, Sender)
  BY <1>1 DEF Order
<1>3. QED BY <1>1, <1>2 DEF Bijection, Injection, Surjection, IsInjective

\* The sum of what each sender has.
SumOver(h) == Sums([i \in 1..Many |-> h[Order[i]]], Many)[Many]

\* What each has are the terms of a sum.
LEMMA SumOverSenders ==
    ASSUME NEW h \in [Sender -> Nat]
    PROVE  LET w == [i \in 1..Many |-> h[Order[i]]]
           IN IsSums(Sums(w, Many), w, Many) /\ SumOver(h) \in Nat
<1> DEFINE w == [i \in 1..Many |-> h[Order[i]]]
<1>1. w \in [1..Many -> Nat] /\ Many \in Nat
  BY EachHasItsPlace
<1>2. SumOver(h) = Sums(w, Many)[Many]
  BY DEF SumOver
<1> HIDE DEF w
<1>3. IsSums(Sums(w, Many), w, Many)
  BY <1>1, SumsExist
<1>4. Sums(w, Many)[Many] \in Nat
  <2>1. Many \in 0..Many
    BY <1>1
  <2>2. QED BY <1>3, <2>1 DEF IsSums
<1>5. QED BY <1>2, <1>3, <1>4 DEF w

\* When one sender has more or less, so have all together.
LEMMA OneSenderChanges ==
    ASSUME NEW g \in [Sender -> Nat], NEW h \in [Sender -> Nat], NEW s \in Sender,
           \A t \in Sender : t # s => g[t] = h[t]
    PROVE  SumOver(g) + h[s] = SumOver(h) + g[s]
<1> DEFINE v == [i \in 1..Many |-> g[Order[i]]]
           w == [i \in 1..Many |-> h[Order[i]]]
<1>1. IsSums(Sums(v, Many), v, Many) /\ IsSums(Sums(w, Many), w, Many)
  BY SumOverSenders
<1>2. SumOver(g) = Sums(v, Many)[Many] /\ SumOver(h) = Sums(w, Many)[Many]
  BY DEF SumOver
<1>3. PICK i \in 1..Many : Order[i] = s
  BY EachHasItsPlace
<1>4. Many \in Nat /\ v[i] = g[s] /\ w[i] = h[s]
  BY <1>3, EachHasItsPlace
<1>5. \A k \in 1..Many : k # i => v[k] = w[k]
  <2>1. TAKE k \in 1..Many
  <2>2. k # i => Order[k] # s /\ Order[k] \in Sender
    BY <1>3, EachHasItsPlace
  <2>3. QED BY <2>2
<1> HIDE DEF v, w
<1>6. Sums(v, Many)[Many] + w[i] = Sums(w, Many)[Many] + v[i]
  BY <1>1, <1>3, <1>4, <1>5, SumsOneTerm
<1>7. QED BY <1>2, <1>4, <1>6

\* When nobody has anything, nor have all together.
LEMMA NobodyHasAny ==
    ASSUME NEW h \in [Sender -> Nat], \A s \in Sender : h[s] = 0
    PROVE  SumOver(h) = 0
<1> DEFINE w == [i \in 1..Many |-> h[Order[i]]]
<1>1. IsSums(Sums(w, Many), w, Many) /\ SumOver(h) = Sums(w, Many)[Many]
  BY SumOverSenders DEF SumOver
<1>2. Many \in Nat /\ \A i \in 1..Many : w[i] = 0
  BY EachHasItsPlace
<1> HIDE DEF w
<1>3. QED BY <1>1, <1>2, SumsOfZeros

-----------------------------------------------------------------------------
\* What requests are charged on a meter, and what they weigh there.

Share(m, due) == IF due.key = m /\ due.cost \in Nat THEN due.cost ELSE 0

Shares(m, q) == [k \in 1..Len(q) |-> Share(m, q[k])]

\* The charges of q on a meter, after each of them.
Bill(m, q) == Sums(Shares(m, q), Len(q))

\* A bill is a sum.
LEMMA BillIsASum ==
    ASSUME NEW m, NEW S, NEW q \in Seq(S)
    PROVE  IsSums(Bill(m, q), Shares(m, q), Len(q))
<1>1. Shares(m, q) \in [1..Len(q) -> Nat] /\ Len(q) \in Nat
  BY DEF Shares, Share
<1>2. QED BY <1>1, SumsExist DEF Bill

\* One charge more adds its share.
LEMMA BillOfOneMore ==
    ASSUME NEW m, NEW S, NEW q \in Seq(S), NEW due \in S
    PROVE  Bill(m, Append(q, due))[Len(q) + 1] = Bill(m, q)[Len(q)] + Share(m, due)
<1> DEFINE r == Append(q, due)
           n == Len(q)
<1>1. /\ n \in Nat /\ r \in Seq(S) /\ Len(r) = n + 1 /\ r[n + 1] = due
      /\ \A k \in 1..n : r[k] = q[k]
  OBVIOUS
<1> HIDE DEF r
<1>2. IsSums(Bill(m, q), Shares(m, q), n) /\ IsSums(Bill(m, r), Shares(m, r), n + 1)
  BY <1>1, BillIsASum
<1>3. \A k \in 1..n : Shares(m, q)[k] = Shares(m, r)[k]
  <2>1. \A k \in 1..n : k \in 1..Len(r)
    BY <1>1
  <2>2. QED BY <1>1, <2>1 DEF Shares
<1>4. Shares(m, r)[n + 1] = Share(m, due)
  <2>1. n + 1 \in 1..Len(r)
    BY <1>1
  <2>2. QED BY <1>1, <2>1 DEF Shares
<1> HIDE DEF n
<1>5. n + 1 \in Nat /\ n <= n + 1 /\ n \in 0..n /\ n + 1 \in 0..(n + 1) /\ n + 1 # 0
      /\ (n + 1) - 1 = n
  BY <1>1
<1>6. Bill(m, q)[n] = Bill(m, r)[n]
  BY <1>1, <1>2, <1>3, <1>5, SumsAgree
<1>7. Bill(m, r)[n + 1] = Bill(m, r)[n] + Shares(m, r)[n + 1]
  BY <1>2, <1>5 DEF IsSums
<1>8. QED BY <1>4, <1>6, <1>7 DEF r, n

\* What one request more is due comes at the end.
LEMMA DueForOneMore ==
    ASSUME NEW rs \in Seq(Requested), NEW r \in Requested
    PROVE  /\ DueFor(rs) \in Seq(Charges)
           /\ DueFor(Append(rs, r)) = DueFor(rs) \o DueOf(r)
<1> DEFINE n == Len(rs)
           each == [i \in 1..n |-> DueOf(rs[i])]
           more == Append(rs, r)
           all == [i \in 1..Len(more) |-> DueOf(more[i])]
<1>1. /\ n \in Nat /\ more \in Seq(Requested) /\ Len(more) = n + 1 /\ more[n + 1] = r
      /\ \A i \in 1..n : more[i] = rs[i]
  OBVIOUS
<1>2. each \in Seq(Seq(Charges)) /\ Len(each) = n /\ DueFor(rs) = FlattenSeq(each)
  BY DueIsFlat
<1> HIDE DEF more
<1>3. DueFor(more) = FlattenSeq(all)
  BY <1>1, DueIsFlat
<1>4. DueOf(r) \in Seq(Charges)
  <2> DEFINE due == Limiter!Routes[r]
  <2>1. due \in Charges
    BY DEF Charges
  <2>2. DueOf(r) = IF due = None THEN <<>> ELSE <<due>>
    BY DEF DueOf, AsCharges
  <2> HIDE DEF due
  <2>3. <<due>> \in Seq(Charges) /\ <<>> \in Seq(Charges)
    BY <2>1
  <2>4. QED BY <2>2, <2>3
<1>5. all = Append(each, DueOf(r))
  <2>1. all = [i \in 1..(n + 1) |-> IF i = n + 1 THEN DueOf(r) ELSE DueOf(rs[i])]
    <3>1. \A i \in 1..(n + 1) : i # n + 1 => i \in 1..n
      BY <1>1
    <3>2. QED BY <1>1, <3>1
  <2>2. Append(each, DueOf(r)) = [i \in 1..(n + 1) |-> IF i = n + 1 THEN DueOf(r) ELSE each[i]]
    BY <1>2, <1>4
  <2>3. \A i \in 1..(n + 1) : i # n + 1 => each[i] = DueOf(rs[i])
    <3>1. \A i \in 1..(n + 1) : i # n + 1 => i \in 1..n
      BY <1>1
    <3>2. QED BY <3>1
  <2> HIDE DEF all, each
  <2>4. QED BY <2>1, <2>2, <2>3
<1> HIDE DEF each, all
<1>6. FlattenSeq(all) = FlattenSeq(each) \o DueOf(r)
  BY <1>2, <1>4, <1>5, FlattenSeqAppend
<1>7. FlattenSeq(each) \in Seq(Charges)
  BY <1>2, FlattenSeqType
<1>8. QED BY <1>2, <1>3, <1>6, <1>7 DEF more

\* What is known of the meters by either name.
LEMMA MetersAreMeasured == Limiter!CoversTheMeters => Shared!Measured
<1>1. Limiter!BucketsCover => Shared!BucketsCover
  BY SameBuckets DEF Shared!BucketsCover, Limiter!BucketsCover
<1>2. QED BY <1>1 DEF Limiter!CoversTheMeters, Shared!Measured

\* What a request weighs, it is charged at least.
LEMMA WeightIsCharged ==
    ASSUME Limiter!CoversTheMeters, NEW m \in DOMAIN Meters, NEW r \in Requested, NEW now
    PROVE  LET w   == Shared!Weight(m, [at |-> now, request |-> r])
               due == Limiter!Routes[r]
           IN IF due = None THEN w = 0 ELSE w <= Share(m, due)
<1> DEFINE w == Shared!Weight(m, [at |-> now, request |-> r])
           due == Limiter!Routes[r]
<1>1. w = IF r.meter = m THEN r.price ELSE 0
  BY DEF Shared!Weight
<1>2. r.meter = m => /\ due # None /\ due.key = m /\ due.cost \in Nat
                     /\ r.price \in Nat /\ r.price <= due.cost
  BY DEF Limiter!CoversTheMeters, Requested
<1> HIDE DEF w, due
<1>3. CASE r.meter = m
  BY <1>1, <1>2, <1>3 DEF Share, w, due
<1>4. CASE r.meter # m
  <2>1. w = 0 /\ Share(m, due) \in Nat
    BY <1>1, <1>4 DEF Share
  <2>2. 0 <= Share(m, due)
    BY <2>1
  <2>3. QED BY <2>1, <2>2 DEF w, due
<1>5. QED BY <1>3, <1>4

\* A batch that is paid for weighs no more than it was charged.
LEMMA BatchIsPaid ==
    ASSUME Limiter!CoversTheMeters, NEW m \in DOMAIN Meters,
           NEW rs \in Seq(Requested), NEW now \in Nat
    PROVE  LET b == [i \in DOMAIN rs |-> [at |-> now, request |-> rs[i]]]
               d == DueFor(rs)
           IN /\ b \in Seq(Shared!Times) /\ \A i \in 1..Len(b) : b[i].at = now
              /\ Shared!Counted(m, b)[Len(b)] <= Bill(m, d)[Len(d)]
<1> DEFINE n == Len(rs)
           b == [i \in DOMAIN rs |-> [at |-> now, request |-> rs[i]]]
           C == Shared!Counted(m, b)
           w == Shared!Weights(m, b)
           Paid_(q) == Bill(m, DueFor(q))[Len(DueFor(q))]
           Prefix(k) == SubSeq(rs, 1, k)
<1>1. n \in Nat /\ DOMAIN rs = 1..n /\ \A i \in 1..n : rs[i] \in Requested
  OBVIOUS
<1>2. /\ b \in Seq(Shared!Times) /\ Len(b) = n
      /\ \A i \in 1..n : b[i] = [at |-> now, request |-> rs[i]]
  <2>1. b \in [1..n -> Shared!Times]
    BY <1>1 DEF Shared!Times, Requested
  <2>2. QED BY <1>1, <2>1
<1>3. \A i \in 1..n : b[i].at = now
  BY <1>2
<1>4. IsSums(C, w, n)
  <2>1. Shared!IsSums(C, w, Len(b))
    <3>1. Shared!Measured
      BY MetersAreMeasured
    <3> HIDE DEF b
    <3>2. Shared!Weighed(m, b)
      BY LimiterAssumption, <1>2, <3>1, Shared!ArrivalsAreWeighed
    <3>3. QED BY LimiterAssumption, <1>2, <3>2, Shared!CountedIsASum
  <2> HIDE DEF b, C, w
  <2>2. QED BY <1>2, <2>1 DEF Shared!IsSums, IsSums
<1>5. \A i \in 1..n : w[i] = Shared!Weight(m, [at |-> now, request |-> rs[i]])
  <2> HIDE DEF b
  <2>1. QED BY <1>2 DEF Shared!Weights
<1> HIDE DEF b, C, w, n
<1>6. ASSUME NEW q \in Seq(Requested) PROVE DueFor(q) \in Seq(Charges) /\ Paid_(q) \in Nat
  <2>1. DueFor(q) \in Seq(Charges)
    BY DueIsFlat, FlattenSeqType
  <2> DEFINE d == DueFor(q)
  <2> HIDE DEF d
  <2>2. IsSums(Bill(m, d), Shares(m, d), Len(d)) /\ Len(d) \in 0..Len(d)
    BY <2>1, BillIsASum DEF d
  <2>3. Bill(m, d)[Len(d)] \in Nat
    BY <2>2 DEF IsSums
  <2>4. QED BY <2>1, <2>3 DEF d
<1>7. ASSUME NEW q \in Seq(Requested), NEW r \in Requested
      PROVE  Paid_(Append(q, r)) =
                Paid_(q) + (IF Limiter!Routes[r] = None THEN 0 ELSE Share(m, Limiter!Routes[r]))
  <2> DEFINE d == DueFor(q)
             due == Limiter!Routes[r]
  <2>1. d \in Seq(Charges) /\ DueFor(Append(q, r)) = d \o DueOf(r) /\ due \in Charges
        /\ Bill(m, d)[Len(d)] \in Nat
    BY <1>6, DueForOneMore DEF Charges
  <2>2. DueOf(r) = IF due = None THEN <<>> ELSE <<due>>
    BY DEF DueOf, AsCharges
  <2> HIDE DEF d, due
  <2>3. CASE due = None
    <3>1. DueFor(Append(q, r)) = d
      BY <2>1, <2>2, <2>3
    <3>2. QED BY <2>1, <2>3, <3>1 DEF d, due
  <2>4. CASE due # None
    <3>1. DueFor(Append(q, r)) = Append(d, due) /\ Len(Append(d, due)) = Len(d) + 1
      BY <2>1, <2>2, <2>4
    <3>2. Bill(m, Append(d, due))[Len(d) + 1] = Bill(m, d)[Len(d)] + Share(m, due)
      BY <2>1, BillOfOneMore
    <3>3. QED BY <2>4, <3>1, <3>2 DEF d, due
  <2>5. QED BY <2>3, <2>4
<1> HIDE DEF Paid_
<1> DEFINE T == {k \in 0..n : C[k] <= Paid_(Prefix(k))}
<1>8. 0 \in T
  <2>1. 0 \in 0..n /\ C[0] = 0
    BY <1>1, <1>4 DEF IsSums
  <2>2. Prefix(0) \in Seq(Requested)
    OBVIOUS
  <2>3. Paid_(Prefix(0)) \in Nat
    BY <1>6, <2>2
  <2>4. QED BY <2>1, <2>3
<1>9. ASSUME NEW k \in 0..n, k \in T, k < n PROVE k + 1 \in T
  <2>1. k + 1 \in 0..n /\ k + 1 \in 1..n /\ (k + 1) - 1 = k /\ k + 1 # 0
    BY <1>1, <1>9
  <2> DEFINE r == rs[k + 1]
             p == Prefix(k)
  <2>2. r \in Requested /\ p \in Seq(Requested) /\ Prefix(k + 1) = Append(p, r)
    <3>1. r \in Requested
      BY <1>1, <2>1
    <3>2. p \in Seq(Requested) /\ Prefix(k + 1) = Append(p, r)
      BY <1>1, <2>1, <3>1 DEF n
    <3>3. QED BY <3>1, <3>2
  <2>3. C[k + 1] = C[k] + w[k + 1] /\ C[k] \in Nat /\ w[k + 1] \in Nat
    BY <1>4, <2>1 DEF IsSums
  <2>4. C[k] <= Paid_(p)
    BY <1>9
  <2>5. w[k + 1] = Shared!Weight(m, [at |-> now, request |-> r])
    BY <1>5, <2>1
  <2> HIDE DEF r, p, T, Prefix
  <2> DEFINE share == IF Limiter!Routes[r] = None THEN 0 ELSE Share(m, Limiter!Routes[r])
  <2>6. w[k + 1] <= share
    BY <2>2, <2>3, <2>5, WeightIsCharged
  <2>7. Paid_(Prefix(k + 1)) = Paid_(p) + share /\ Paid_(p) \in Nat /\ share \in Nat
    BY <1>6, <1>7, <2>2 DEF Share
  <2> HIDE DEF share
  <2>8. C[k + 1] <= Paid_(Prefix(k + 1))
    BY <2>3, <2>4, <2>6, <2>7
  <2>9. QED BY <2>1, <2>8 DEF T
<1>10. 0..n \subseteq T
  <2> HIDE DEF T
  <2>1. QED BY <1>1, <1>8, <1>9, InductionUpTo
<1>11. C[n] <= Paid_(Prefix(n))
  <2>1. n \in T
    <3> HIDE DEF T
    <3>1. QED BY <1>1, <1>10
  <2>2. QED BY <2>1
<1>12. Prefix(n) = rs
  BY DEF n
<1> HIDE DEF Prefix
<1>13. QED BY <1>2, <1>3, <1>11, <1>12 DEF b, C, Paid_, n

-----------------------------------------------------------------------------
\* The invariant.

\* What a sender at the bucket has paid for on a meter and not sent yet.
Outstanding(s, m) == IF pc[s] = "acquire" THEN Bill(m, Due(s))[paid[s]] ELSE 0

\* What all of them have.
Out(m) == SumOver([s \in Sender |-> Outstanding(s, m)])

Counts(m) == Shared!Counted(m, arrivals)

\* The books of a meter balance when this is held, and it is within its limit.
Settled(m) ==
    /\ Shared!Balanced(arrivals, Counts(m), grants[m], Out(m), clock)
    /\ Shared!Within(arrivals, Counts(m), Meters[m].limit, Meters[m].window)

Books == /\ arrivals \in Seq(Shared!Times)
         /\ Shared!Past
         /\ punctual => \A m \in DOMAIN Meters : Settled(m)

PInv == IInv /\ Accounts /\ Kept /\ Books

\* After each charge a bill is a natural number; before the first it is nothing.
LEMMA BillIsNat ==
    ASSUME NEW m, NEW S, NEW q \in Seq(S), NEW k \in 0..Len(q)
    PROVE  Bill(m, q)[k] \in Nat /\ Bill(m, q)[0] = 0
<1>1. Len(q) \in Nat /\ 0 \in 0..Len(q)
  OBVIOUS
<1>2. IsSums(Bill(m, q), Shares(m, q), Len(q))
  BY BillIsASum
<1>3. QED BY <1>1, <1>2 DEF IsSums

\* What a sender has outstanding, now ...
LEMMA OutstandingIsNat ==
    ASSUME IInv, Accounts, NEW s \in Sender, NEW m
    PROVE  Outstanding(s, m) \in Nat
<1>1. Due(s) \in Seq(Charges) /\ paid[s] \in Nat
  BY DueIsASequence DEF IInv, TypeOK, Due
<1>2. pc[s] = "acquire" => paid[s] <= Len(Due(s))
  BY DEF Accounts, Paid
<1> DEFINE d == Due(s)
<1> HIDE DEF d
<1>3. d \in Seq(Charges) /\ (pc[s] = "acquire" => paid[s] \in 0..Len(d))
  BY <1>1, <1>2 DEF d
<1>4. pc[s] = "acquire" => Bill(m, d)[paid[s]] \in Nat
  BY <1>3, BillIsNat
<1>5. QED BY <1>4 DEF Outstanding, d

\* ... and after a step.
LEMMA OutstandingIsNatAfter ==
    ASSUME IInv', Accounts', NEW s \in Sender, NEW m
    PROVE  Outstanding(s, m)' \in Nat
<1> DEFINE d == DueFor(requests'[s])
<1>1. d \in Seq(Charges) /\ paid'[s] \in Nat
  BY DueIsASequence DEF IInv, TypeOK
<1>2. pc'[s] = "acquire" => paid'[s] <= Len(d)
  BY DEF Accounts, Paid, Due
<1> HIDE DEF d
<1>3. pc'[s] = "acquire" => paid'[s] \in 0..Len(d)
  BY <1>1, <1>2
<1>4. pc'[s] = "acquire" => Bill(m, d)[paid'[s]] \in Nat
  BY <1>1, <1>3, BillIsNat
<1>5. QED BY <1>4 DEF Outstanding, Due, d

\* When one sender moves, all together have more or less by what it has.
LEMMA OneMoves ==
    ASSUME IInv, Accounts, IInv', Accounts', NEW s \in Sender, Step(s), NEW m
    PROVE  /\ Out(m) \in Nat /\ Out(m)' \in Nat
           /\ Outstanding(s, m) \in Nat /\ Outstanding(s, m)' \in Nat
           /\ Out(m) + Outstanding(s, m)' = Out(m)' + Outstanding(s, m)
<1> DEFINE g == [t \in Sender |-> Outstanding(t, m)]
           h == [t \in Sender |-> Outstanding(t, m)']
<1>1. g \in [Sender -> Nat] /\ h \in [Sender -> Nat]
  BY OutstandingIsNat, OutstandingIsNatAfter
<1>2. ASSUME NEW t \in Sender, t # s PROVE g[t] = h[t]
  <2>1. pc'[t] = pc[t] /\ requests'[t] = requests[t] /\ paid'[t] = paid[t]
    BY <1>2, OthersRest DEF IInv
  <2>2. QED BY <2>1 DEF Outstanding, Due
<1>3. g[s] = Outstanding(s, m) /\ h[s] = Outstanding(s, m)'
  OBVIOUS
<1>4. Out(m) = SumOver(g) /\ Out(m)' = SumOver(h)
  BY DEF Out, SumOver
<1> HIDE DEF g, h
<1>5. SumOver(g) + h[s] = SumOver(h) + g[s] /\ SumOver(g) \in Nat /\ SumOver(h) \in Nat
  BY <1>1, <1>2, OneSenderChanges, SumOverSenders
<1>6. g[s] \in Nat /\ h[s] \in Nat
  BY <1>1
<1>7. QED BY <1>3, <1>4, <1>5, <1>6

\* What the meters speak of is well formed.
LEMMA MetersAreTyped ==
    ASSUME Limiter!CoversTheMeters, Kept, Books, NEW m \in DOMAIN Meters
    PROVE  /\ Shared!Measured /\ Shared!BucketsTyped /\ clock \in Nat
           /\ m \in DOMAIN Shared!Buckets
           /\ grants[m] \in Seq(Shared!ChargeOf(Shared!Buckets[m].limit))
           /\ Shared!Kept(grants[m], Shared!Buckets[m].limit, Shared!Buckets[m].window)
           /\ \A k \in 1..Len(grants[m]) : grants[m][k].at <= clock
           /\ Counts(m) \in [0..Len(arrivals) -> Nat]
           /\ \A i \in 1..Len(arrivals) : arrivals[i].at <= clock
<1>1. Shared!Measured /\ Shared!BucketsTyped /\ Shared!NoBucketIsOverspent
  BY MetersAreMeasured, SameState DEF Kept
<1>2. m \in DOMAIN Shared!Buckets
  BY <1>1, LimiterAssumption, Shared!BucketOfAMeter
<1>3. grants[m] \in Seq(Shared!ChargeOf(Shared!Buckets[m].limit)) /\ clock \in Nat
  BY <1>1, <1>2 DEF Shared!BucketsTyped, Shared!Grant, Shared!ChargeOf
<1>4. Shared!Kept(grants[m], Shared!Buckets[m].limit, Shared!Buckets[m].window)
  BY <1>1, <1>2 DEF Shared!NoBucketIsOverspent, Shared!Budget!NeverOverspent,
                    Shared!Budget!Spent, Shared!Kept, Shared!Total
<1>5. /\ \A k \in 1..Len(grants[m]) : grants[m][k].at <= clock
      /\ \A i \in 1..Len(arrivals) : arrivals[i].at <= clock
  BY <1>2 DEF Books, Shared!Past
<1>6. Counts(m) \in [0..Len(arrivals) -> Nat]
  BY <1>1, LimiterAssumption, Shared!CountsAreNat DEF Books, Counts
<1>7. QED BY <1>1, <1>2, <1>3, <1>4, <1>5, <1>6

-----------------------------------------------------------------------------
\* The steps.

\* Paying adds to what is charged and to what is held.
LEMMA AcquireBooks ==
    ASSUME Limiter!CoversTheMeters, PInv, IInv', Accounts', NEW s \in Sender, Acquire(s)
    PROVE  Books'
<1>1. PICK key \in DOMAIN Shared!Buckets : /\ AtTheBucket(s, key)
                                           /\ Limiter!Accepts(key, NextDue(s).cost)
                                           /\ Limiter!Charge(key, NextDue(s).cost)
  BY SameBuckets DEF Acquire
<1> DEFINE cost == NextDue(s).cost
<1>2. /\ key = NextDue(s).key /\ cost \in 1..Shared!Buckets[key].limit
      /\ Shared!Charge(key, cost)
  BY <1>1, SameBuckets, SameCharge DEF AtTheBucket, Limiter!Accepts
<1>3. /\ clock' = clock /\ arrivals' = arrivals /\ punctual' = punctual
      /\ arrivals \in Seq(Shared!Times) /\ Shared!Past /\ Shared!BucketsTyped
  BY SameState DEF Acquire, PInv, Books, Kept
<1>4. Shared!Past'
  <2>1. \A k \in DOMAIN Shared!Buckets :
           \A i \in 1..Len(grants'[k]) : grants'[k][i].at <= clock
    <3> HIDE DEF cost
    <3>1. QED BY <1>2, <1>3, LimiterAssumption, Shared!ChargedByNow
  <2>2. QED BY <1>3, <2>1 DEF Shared!Past
<1>5. ASSUME punctual', NEW m \in DOMAIN Meters PROVE Settled(m)'
  <2>1. Settled(m)
    BY <1>3, <1>5 DEF PInv, Books
  <2>2. Out(m)' = Out(m) + (IF key = m THEN cost ELSE 0) /\ Out(m) \in Nat
    <3> DEFINE d == Due(s)
               n == paid[s]
    <3>1. /\ pc[s] = "acquire" /\ pc' = pc /\ requests' = requests
          /\ n \in Nat /\ n < Len(d) /\ paid'[s] = n + 1 /\ NextDue(s) = d[n + 1]
      BY <1>1 DEF Acquire, AtTheBucket, NextDue, PInv, IInv, TypeOK
    <3>2. d \in Seq(Charges) /\ d' = d
      BY <3>1, DueIsASequence DEF PInv, IInv, TypeOK, Due
    <3>3. Outstanding(s, m) = Bill(m, d)[n] /\ Outstanding(s, m)' = Bill(m, d)[n + 1]
      BY <3>1, <3>2 DEF Outstanding
    <3>4. Share(m, d[n + 1]) = IF key = m THEN cost ELSE 0
      BY <1>2, <3>1 DEF Share
    <3> HIDE DEF d, n, cost
    <3>5. Bill(m, d)[n + 1] = Bill(m, d)[n] + Share(m, d[n + 1])
      <4>1. IsSums(Bill(m, d), Shares(m, d), Len(d))
        BY <3>2, BillIsASum
      <4>2. n + 1 \in 0..Len(d) /\ n + 1 \in 1..Len(d) /\ n + 1 # 0 /\ (n + 1) - 1 = n
        BY <3>1, <3>2
      <4>3. Shares(m, d)[n + 1] = Share(m, d[n + 1])
        BY <4>2 DEF Shares
      <4>4. Bill(m, d)[n + 1] = Bill(m, d)[n] + Shares(m, d)[n + 1]
        BY <4>1, <4>2 DEF IsSums
      <4>5. QED BY <4>3, <4>4
    <3>6. Share(m, d[n + 1]) \in Nat
      BY DEF Share
    <3>7. /\ Out(m) \in Nat /\ Out(m)' \in Nat
          /\ Outstanding(s, m) \in Nat
          /\ Out(m) + Outstanding(s, m)' = Out(m)' + Outstanding(s, m)
      BY OneMoves DEF PInv, Step
    <3> DEFINE x == Outstanding(s, m)
               y == Outstanding(s, m)'
               o == Out(m)
               p == Out(m)'
               c == Share(m, d[n + 1])
    <3>8. /\ x \in Nat /\ o \in Nat /\ p \in Nat /\ c \in Nat
          /\ y = x + c /\ o + y = p + x
      BY <3>3, <3>5, <3>6, <3>7
    <3> HIDE DEF x, y, o, p, c
    <3>9. p = o + c
      BY <3>8
    <3>10. QED BY <3>4, <3>7, <3>9 DEF o, p, c
  <2>3. Shared!Balanced(arrivals, Counts(m), grants'[m], Out(m)', clock)
    <3>1. /\ Shared!Measured /\ \A i \in 1..Len(arrivals) : arrivals[i].at <= clock
      BY MetersAreTyped DEF PInv
    <3>2. Shared!Balanced(arrivals, Shared!Counted(m, arrivals), grants[m], Out(m), clock)
      BY <2>1 DEF Settled, Counts
    <3> HIDE DEF cost
    <3>3. Shared!Balanced(arrivals, Shared!Counted(m, arrivals), grants'[m],
                          Out(m) + (IF key = m THEN cost ELSE 0), clock)
      BY <1>2, <1>3, <2>2, <3>1, <3>2, LimiterAssumption, Shared!ChargeIsHeld
    <3>4. QED BY <2>2, <3>3 DEF Counts
  <2>4. QED BY <1>3, <2>1, <2>3 DEF Settled, Counts
<1>6. QED BY <1>3, <1>4, <1>5 DEF Books

\* What leaves was held; the meters count it instead.
LEMMA TransmitBooks ==
    ASSUME Limiter!CoversTheMeters, PInv, IInv', Accounts', NEW s \in Sender, Transmit(s)
    PROVE  Books'
<1> DEFINE rs == requests[s]
           b == [i \in DOMAIN rs |-> [at |-> clock, request |-> rs[i]]]
           d == DueFor(rs)
<1>1. /\ pc[s] = "acquire" /\ pc'[s] # "acquire" /\ paid[s] = Len(d)
      /\ arrivals' = arrivals \o b
      /\ grants' = grants /\ clock' = clock /\ punctual' = punctual
  BY DEF Transmit, End, Due, buckets, PInv, IInv, TypeOK
<1>2. rs \in Seq(Requested) /\ clock \in Nat
  BY SendsAreSequences DEF PInv, IInv, TypeOK
<1>3. arrivals \in Seq(Shared!Times) /\ Shared!Past
  BY DEF PInv, Books
<1> HIDE DEF rs
<1>4. /\ b \in Seq(Shared!Times) /\ \A i \in 1..Len(b) : b[i].at = clock
  <2>1. \A i \in 1..Len(rs) : [at |-> clock, request |-> rs[i]] \in Shared!Times
    BY <1>2 DEF Shared!Times, Requested
  <2>2. b \in [1..Len(rs) -> Shared!Times] /\ Len(rs) \in Nat
    BY <1>2, <2>1
  <2>3. QED BY <2>2
<1> HIDE DEF b, d
<1>5. arrivals' \in Seq(Shared!Times)
  BY <1>1, <1>3, <1>4
<1>6. Shared!Past'
  <2>1. \A i \in 1..Len(arrivals) : arrivals[i].at <= clock
    BY <1>3 DEF Shared!Past
  <2>2. \A i \in 1..Len(arrivals \o b) : (arrivals \o b)[i].at <= clock
    BY <1>2, <1>3, <1>4, <2>1, LimiterAssumption, Shared!ArrivedByNow
  <2>3. QED BY <1>1, <1>3, <2>2 DEF Shared!Past
<1>7. ASSUME punctual', NEW m \in DOMAIN Meters PROVE Settled(m)'
  <2> DEFINE w == Shared!Counted(m, b)[Len(b)]
  <2>1. Settled(m)
    BY <1>1, <1>7 DEF PInv, Books
  <2>2. w <= Bill(m, d)[Len(d)] /\ w \in Nat
    <3>1. w <= Bill(m, d)[Len(d)]
      BY <1>2, BatchIsPaid DEF b, d
    <3>2. Shared!Counted(m, b) \in [0..Len(b) -> Nat] /\ Len(b) \in 0..Len(b)
      BY <1>4, MetersAreMeasured, LimiterAssumption, Shared!CountsAreNat
    <3>3. QED BY <3>1, <3>2
  <2>3. Outstanding(s, m) = Bill(m, d)[Len(d)] /\ Outstanding(s, m)' = 0
    BY <1>1 DEF Outstanding, Due, d, rs
  <2>4. /\ Out(m) \in Nat /\ Out(m)' \in Nat /\ Outstanding(s, m) \in Nat
        /\ Out(m) + Outstanding(s, m)' = Out(m)' + Outstanding(s, m)
    BY OneMoves DEF PInv, Step
  <2> DEFINE held == Out(m)
             left == Out(m)'
             x == Outstanding(s, m)
  <2>5. /\ held \in Nat /\ left \in Nat /\ x \in Nat
        /\ held + 0 = left + x /\ w <= x /\ w \in Nat
    BY <2>2, <2>3, <2>4
  <2>6. left + w <= held
    <3> HIDE DEF held, left, x, w
    <3>1. QED BY <2>5
  <2>7. /\ Shared!Balanced(arrivals, Shared!Counted(m, arrivals), grants[m], held, clock)
        /\ Shared!Within(arrivals, Shared!Counted(m, arrivals), Meters[m].limit, Meters[m].window)
    BY <2>1 DEF Settled, Counts
  <2>8. /\ Shared!Measured
        /\ grants[m] \in Seq(Shared!ChargeOf(Shared!Buckets[m].limit))
        /\ Shared!Kept(grants[m], Shared!Buckets[m].limit, Shared!Buckets[m].window)
        /\ \A k \in 1..Len(grants[m]) : grants[m][k].at <= clock
        /\ \A i \in 1..Len(arrivals) : arrivals[i].at <= clock
    BY MetersAreTyped DEF PInv
  <2> HIDE DEF held, left
  <2>9. left + Shared!Counted(m, b)[Len(b)] <= held
    BY <2>6
  <2> HIDE DEF w
  <2>10. /\ Shared!Balanced(arrivals \o b, Shared!Counted(m, arrivals \o b), grants[m], left, clock)
         /\ Shared!Within(arrivals \o b, Shared!Counted(m, arrivals \o b),
                          Meters[m].limit, Meters[m].window)
    BY <1>2, <1>3, <1>4, <2>5, <2>7, <2>8, <2>9, LimiterAssumption, Shared!ArrivalsWereHeld
  <2>11. QED BY <1>1, <2>10 DEF Settled, Counts, left
<1>8. QED BY <1>5, <1>6, <1>7 DEF Books

\* A step that pays for nothing, sends nothing and gives nothing up.
LEMMA RestBooks ==
    ASSUME PInv, UNCHANGED <<clock, grants, arrivals, punctual, pc, requests, paid>>
    PROVE  Books'
<1>1. \A m : Out(m)' = Out(m)
  BY DEF Out, SumOver, Outstanding, Due
<1>2. QED BY <1>1 DEF PInv, Books, Settled, Counts, Shared!Past

\* Any other step of a sender leaves it with nothing: what it held is given up.
LEMMA OtherBooks ==
    ASSUME Limiter!CoversTheMeters, PInv, IInv', Accounts', NEW s \in Sender, Step(s),
           ~Acquire(s), ~Wait(s), ~Transmit(s)
    PROVE  Books'
<1>1. /\ UNCHANGED <<clock, grants, arrivals, punctual>>
      /\ pc'[s] = "acquire" => paid'[s] = 0
  BY DEF Step, Send, Refuse, TimeOut, Crash, HandBack, SleepRaises, BackOff, Resume,
         StartOver, End, buckets, history, PInv, IInv, TypeOK
<1>2. arrivals' \in Seq(Shared!Times) /\ Shared!Past'
  BY <1>1 DEF PInv, Books, Shared!Past
<1>3. ASSUME punctual', NEW m \in DOMAIN Meters PROVE Settled(m)'
  <2>1. Settled(m)
    BY <1>1, <1>3 DEF PInv, Books
  <2>2. Outstanding(s, m)' = 0
    <3> DEFINE d == DueFor(requests'[s])
    <3>1. d \in Seq(Charges)
      BY DueIsASequence DEF IInv, TypeOK
    <3> HIDE DEF d
    <3>2. 0 \in 0..Len(d)
      BY <3>1
    <3>3. Bill(m, d)[0] = 0
      BY <3>1, <3>2, BillIsNat
    <3>4. QED BY <1>1, <3>3 DEF Outstanding, Due, d
  <2>3. /\ Out(m) \in Nat /\ Out(m)' \in Nat /\ Outstanding(s, m) \in Nat
        /\ Out(m) + Outstanding(s, m)' = Out(m)' + Outstanding(s, m)
    BY OneMoves DEF PInv
  <2> DEFINE held == Out(m)
             left == Out(m)'
             x == Outstanding(s, m)
  <2>4. held \in Nat /\ left \in Nat /\ x \in Nat /\ held + 0 = left + x
    BY <2>2, <2>3
  <2>5. Shared!Balanced(arrivals, Counts(m), grants[m], held, clock)
    BY <2>1 DEF Settled
  <2>6. /\ grants[m] \in Seq(Shared!ChargeOf(Shared!Buckets[m].limit))
        /\ Counts(m) \in [0..Len(arrivals) -> Nat]
    BY MetersAreTyped DEF PInv
  <2>7. arrivals \in Seq(Shared!Times)
    BY DEF PInv, Books
  <2> HIDE DEF held, left, x
  <2>8. left <= held
    BY <2>4
  <2> DEFINE C == Counts(m)
  <2> HIDE DEF C
  <2>9. Shared!Balanced(arrivals, C, grants[m], left, clock)
    BY <2>4, <2>5, <2>6, <2>7, <2>8, LimiterAssumption, Shared!BalancedLess DEF C
  <2>10. QED BY <1>1, <2>1, <2>9 DEF Settled, Counts, C, left
<1>4. QED BY <1>2, <1>3 DEF Books

\* Time passes punctually only while nothing is held.
LEMMA TickBooks ==
    ASSUME Limiter!CoversTheMeters, PInv, IInv', Accounts', Tick
    PROVE  Books'
<1>1. /\ clock' = clock + 1
      /\ UNCHANGED <<grants, arrivals, pc, requests, paid>>
      /\ punctual' => punctual /\ \A s \in Sender : ~Holding(s)
  BY DEF Tick
<1>2. arrivals \in Seq(Shared!Times) /\ Shared!Past /\ Shared!BucketsTyped
  BY SameState DEF PInv, Books, Kept
<1>3. Shared!Past'
  BY <1>1, <1>2, LimiterAssumption, Shared!PastLater
<1>4. ASSUME punctual', NEW m \in DOMAIN Meters PROVE Settled(m)'
  <2>1. Settled(m)
    BY <1>1, <1>4 DEF PInv, Books
  <2>2. Out(m)' = Out(m)
    BY <1>1 DEF Out, SumOver, Outstanding, Due
  <2>3. Out(m) = 0
    <3> DEFINE h == [s \in Sender |-> Outstanding(s, m)]
    <3>1. ASSUME NEW s \in Sender PROVE Outstanding(s, m) = 0
      <4>1. ~Holding(s) /\ paid[s] \in Nat
        BY <1>1, <1>4 DEF PInv, IInv, TypeOK
      <4>2. pc[s] = "acquire" => paid[s] = 0
        BY <4>1 DEF Holding
      <4> DEFINE d == Due(s)
      <4>3. d \in Seq(Charges)
        BY DueIsASequence DEF PInv, IInv, TypeOK, Due
      <4> HIDE DEF d
      <4>4. 0 \in 0..Len(d)
        BY <4>3
      <4>5. Bill(m, d)[0] = 0
        BY <4>3, <4>4, BillIsNat
      <4>6. QED BY <4>2, <4>5 DEF Outstanding, d
    <3>2. h \in [Sender -> Nat] /\ \A s \in Sender : h[s] = 0
      BY <3>1
    <3>3. Out(m) = SumOver(h)
      BY DEF Out
    <3> HIDE DEF h
    <3>4. QED BY <3>2, <3>3, NobodyHasAny
  <2>4. Counts(m) \in [0..Len(arrivals) -> Nat]
    BY MetersAreTyped DEF PInv
  <2>5. Shared!Balanced(arrivals, Counts(m), grants[m], 0, clock)
    BY <2>1, <2>3 DEF Settled
  <2> DEFINE C == Counts(m)
  <2> HIDE DEF C
  <2>6. Shared!Balanced(arrivals, C, grants[m], 0, clock + 1)
    BY <1>2, <2>4, <2>5, LimiterAssumption, Shared!BalancedTick DEF C
  <2>7. QED BY <1>1, <2>1, <2>2, <2>3, <2>6 DEF Settled, Counts, C
<1>5. QED BY <1>1, <1>2, <1>3, <1>4 DEF Books

\* Before the first send nothing has arrived and nothing is held.
LEMMA InitPInv ==
    ASSUME Limiter!CoversTheMeters, Init
    PROVE  PInv
<1>1. IInv /\ Accounts /\ Kept
  BY InitIInv, InitAccounts, InitKept
<1>2. arrivals = <<>> /\ clock = 0 /\ \A key \in DOMAIN Shared!Buckets : grants[key] = <<>>
  BY SameBuckets DEF Init, Limiter!Init
<1>3. arrivals \in Seq(Shared!Times) /\ Shared!Past
  BY <1>2 DEF Shared!Past
<1>4. ASSUME NEW m \in DOMAIN Meters PROVE Settled(m)
  <2> DEFINE h == [s \in Sender |-> Outstanding(s, m)]
  <2>1. \A s \in Sender : Outstanding(s, m) = 0
    BY DEF Init, Outstanding
  <2>2. h \in [Sender -> Nat] /\ (\A s \in Sender : h[s] = 0) /\ Out(m) = SumOver(h)
    BY <2>1 DEF Out
  <2>3. Out(m) = 0
    <3> HIDE DEF h
    <3>1. QED BY <2>2, NobodyHasAny
  <2>4. Counts(m) \in [0..Len(<<>>) -> Nat]
    BY <1>2, <1>3, MetersAreMeasured, LimiterAssumption, Shared!CountsAreNat DEF Counts
  <2> DEFINE C == Counts(m)
  <2> HIDE DEF C
  <2>5. C[0] - C[0] + 0 <= 0
    BY <2>4 DEF C
  <2>6. Shared!Balanced(<<>>, C, grants[m], 0, clock)
        /\ Shared!Within(<<>>, C, Meters[m].limit, Meters[m].window)
    BY <2>5 DEF Shared!Balanced, Shared!Covers, Shared!Within
  <2>7. QED BY <1>2, <2>3, <2>6 DEF Settled, C
<1>5. QED BY <1>1, <1>3, <1>4 DEF PInv, Books

\* The books stay in order.
LEMMA StepPInv ==
    ASSUME Limiter!CoversTheMeters
    PROVE  PInv /\ [Next]_vars => PInv'
<1> SUFFICES ASSUME PInv, [Next]_vars PROVE PInv'
  OBVIOUS
<1>1. IInv' /\ Accounts' /\ Kept'
  BY StepIInv, AccountsStep, KeptStep DEF PInv
<1>2. ASSUME NEW s \in Sender, Step(s) PROVE Books'
  <2>1. CASE Acquire(s)
    BY <1>1, <2>1, AcquireBooks
  <2>2. CASE Transmit(s)
    BY <1>1, <2>2, TransmitBooks
  <2>3. CASE Wait(s)
    BY <2>3, RestBooks DEF Wait, history
  <2>4. CASE ~Acquire(s) /\ ~Wait(s) /\ ~Transmit(s)
    BY <1>1, <1>2, <2>4, OtherBooks
  <2>5. QED BY <2>1, <2>2, <2>3, <2>4
<1>3. ASSUME Tick PROVE Books'
  BY <1>1, <1>3, TickBooks
<1>4. ASSUME UNCHANGED vars PROVE Books'
  BY <1>4, RestBooks DEF vars, buckets, history
<1>5. Books'
  BY <1>2, <1>3, <1>4 DEF Next
<1>6. QED BY <1>1, <1>5 DEF PInv

\* Books in order say that no meter counts too much.
LEMMA SettledFits == ASSUME PInv PROVE PunctualTrafficFits
<1>1. ASSUME NEW m \in DOMAIN Meters, Settled(m)
      PROVE  LET counted == Limiter!Counted(m, arrivals)
             IN \A i, j \in 1..Len(arrivals) :
                   (i <= j /\ arrivals[j].at - arrivals[i].at < Meters[m].window)
                       => counted[j] - counted[i - 1] <= Meters[m].limit
  <2>1. Limiter!Counted(m, arrivals) = Counts(m)
    BY DEF Counts, Limiter!Counted, Shared!Counted, Limiter!Weights, Shared!Weights,
           Limiter!Weight, Shared!Weight, Limiter!Sums, Shared!Sums
  <2>2. QED BY <1>1, <2>1 DEF Settled, Shared!Within
<1>2. QED BY <1>1 DEF PInv, Books, PunctualTrafficFits, GoogleSeesNoMore,
                      Limiter!GoogleCountsNoMore, Limiter!MetersKeep

\* What the package is for, with the transports in place: when the limiter covers the
\* meters of Google and what is paid for leaves in time, no meter counts more than
\* its limit, for any number of senders, whatever Google answers and however often
\* the transports send again.
THEOREM PunctualTrafficIsWithinLimits ==
    ASSUME Limiter!CoversTheMeters
    PROVE  Spec => []PunctualTrafficFits
<1>1. Init => PInv
  BY InitPInv
<1>2. PInv /\ [Next]_vars => PInv'
  BY StepPInv
<1>3. PInv => PunctualTrafficFits
  BY SettledFits
<1>4. QED BY <1>1, <1>2, <1>3, PTL DEF Spec
=============================================================================
