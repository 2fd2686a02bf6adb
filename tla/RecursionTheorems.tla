--------------------------- MODULE RecursionTheorems ---------------------------
(***************************************************************************)
(* Induction and recursion over the natural numbers, stated about sets and *)
(* functions: what the proofs about running totals and loops rest on; and  *)
(* what removing an element makes of a sequence.                           *)
(***************************************************************************)
EXTENDS RunningSums, SequencesExt, WellFoundedInduction, TLAPS

\* A well-founded relation on the natural numbers has minimal elements.
LEMMA MinimalElement ==
    ASSUME NEW R, IsWellFoundedOn(R, Nat), NEW T, T \subseteq Nat, T # {}
    PROVE  \E x \in T : \A y \in T : ~(<<y, x>> \in R)
BY WFMin

\* A set of natural numbers that is not empty has a least element.
LEMMA LeastNatural ==
    ASSUME NEW T, T \subseteq Nat, T # {}
    PROVE  \E n \in T : \A m \in T : n <= m
<1> DEFINE R == {pair \in Nat \X Nat : pair[1] < pair[2]}
<1>1. IsWellFoundedOn(R, Nat)
  BY NatLessThanWellFounded DEF OpToRel
<1>2. \A m, n \in Nat : m < n => <<m, n>> \in R
  OBVIOUS
<1> HIDE DEF R
<1>3. PICK n \in T : \A m \in T : ~(<<m, n>> \in R)
  BY <1>1, MinimalElement
<1>4. \A m \in T : ~(m < n)
  BY <1>2, <1>3
<1>5. QED BY <1>4

\* Induction up to n: a set with 0 in it that is closed under successors below n
\* holds all of 0..n.
LEMMA InductionUpTo ==
    ASSUME NEW n \in Nat, NEW S, 0 \in S,
           \A k \in 0..n : (k \in S /\ k < n) => k + 1 \in S
    PROVE  0..n \subseteq S
<1> SUFFICES ASSUME (0..n) \ S # {} PROVE FALSE
  OBVIOUS
<1>1. (0..n) \ S \subseteq Nat
  OBVIOUS
<1>2. PICK k \in (0..n) \ S : \A m \in (0..n) \ S : k <= m
  BY <1>1, LeastNatural
<1>3. k \in 0..n /\ k # 0 /\ k \notin S
  OBVIOUS
<1>4. k - 1 \in 0..n /\ k - 1 < n /\ k - 1 < k
  BY <1>3
<1>5. k - 1 \in S
  BY <1>2, <1>4
<1>6. (k - 1) + 1 \in S /\ (k - 1) + 1 = k
  BY <1>3, <1>4, <1>5
<1>7. QED BY <1>3, <1>6

\* f is the value of a loop after each of its first n rounds.
Loops(f, n, base, step) ==
    \A k \in 0..n : f[k] = IF k = 0 THEN base ELSE step[k][f[k - 1]]

\* A loop has a value after each of its rounds.
THEOREM LoopHasValues ==
    ASSUME NEW n \in Nat, NEW S, NEW base \in S, NEW step \in [1..n -> [S -> S]]
    PROVE  \E f \in [0..n -> S] : Loops(f, n, base, step)
<1> DEFINE Done == {k \in 0..n : \E f \in [0..k -> S] : Loops(f, k, base, step)}
<1>1. 0 \in Done
  <2> DEFINE f == [j \in 0..0 |-> base]
  <2>1. f \in [0..0 -> S] /\ Loops(f, 0, base, step)
    BY DEF Loops
  <2> HIDE DEF f
  <2>2. QED BY <2>1
<1>2. ASSUME NEW k \in 0..n, k \in Done, k < n PROVE k + 1 \in Done
  <2>1. PICK f \in [0..k -> S] : Loops(f, k, base, step)
    BY <1>2
  <2> DEFINE g == [j \in 0..(k + 1) |-> IF j = k + 1 THEN step[k + 1][f[k]] ELSE f[j]]
  <2>2. k \in Nat /\ k + 1 \in 1..n /\ k \in 0..k
    BY <1>2
  <2>3. f[k] \in S /\ step[k + 1] \in [S -> S]
    BY <2>2
  <2>4. step[k + 1][f[k]] \in S
    BY <2>3
  <2>5. \A j \in 0..(k + 1) : j # k + 1 => j \in 0..k
    BY <2>2
  <2>6. g \in [0..(k + 1) -> S]
    BY <2>4, <2>5
  <2>7. ASSUME NEW j \in 0..(k + 1)
        PROVE  g[j] = IF j = 0 THEN base ELSE step[j][g[j - 1]]
    <3>1. CASE j = k + 1
      <4>1. j # 0 /\ j - 1 = k /\ k \in 0..(k + 1) /\ k # k + 1
        BY <2>2, <3>1
      <4>2. g[j] = step[k + 1][f[k]] /\ g[j - 1] = f[k]
        BY <3>1, <4>1
      <4>3. QED BY <3>1, <4>1, <4>2
    <3>2. CASE j # k + 1
      <4>1. j \in 0..k /\ g[j] = f[j]
        BY <2>5, <3>2
      <4>2. j # 0 => j - 1 \in 0..(k + 1) /\ j - 1 # k + 1
        BY <2>2, <4>1
      <4>3. j # 0 => g[j - 1] = f[j - 1]
        BY <4>2
      <4>4. QED BY <2>1, <4>1, <4>3 DEF Loops
    <3>3. QED BY <3>1, <3>2
  <2> HIDE DEF g
  <2>8. Loops(g, k + 1, base, step)
    BY <2>7 DEF Loops
  <2>9. QED BY <2>2, <2>6, <2>8
<1> HIDE DEF Done
<1>3. 0..n \subseteq Done
  BY <1>1, <1>2, InductionUpTo
<1>4. n \in Done
  BY <1>3
<1>5. QED BY <1>4 DEF Done

-----------------------------------------------------------------------------
\* Flattening a sequence of sequences, which SequencesExt defines by recursion.

\* f is what the first sequences make, one after another.
Flattens(f, ss) ==
    \A i \in 1..Len(ss) : f[i] = IF i = 1 THEN ss[i] ELSE f[i - 1] \o ss[i]

\* Flattened sequences make a sequence, and the recursion that makes it has a value
\* for each of them.
THEOREM FlattenSeqRecursion ==
    ASSUME NEW S, NEW ss \in Seq(Seq(S)), Len(ss) > 0
    PROVE  \E f \in [1..Len(ss) -> Seq(S)] : Flattens(f, ss) /\ FlattenSeq(ss) = f[Len(ss)]
<1> DEFINE n == Len(ss)
           m == n - 1
           step == [k \in 1..m |-> [q \in Seq(S) |-> q \o ss[k + 1]]]
<1>1. n \in Nat \ {0} /\ m \in Nat /\ m + 1 = n
  OBVIOUS
<1>2. \A i \in 1..n : ss[i] \in Seq(S)
  OBVIOUS
<1> HIDE DEF n, m
<1>3. \A k \in 1..m : k + 1 \in 1..n
  BY <1>1
<1>4. \A k \in 1..m : \A q \in Seq(S) : q \o ss[k + 1] \in Seq(S)
  BY <1>2, <1>3
<1>5. step \in [1..m -> [Seq(S) -> Seq(S)]]
  BY <1>4
<1>6. \A k \in 1..m : \A q \in Seq(S) : step[k][q] = q \o ss[k + 1]
  OBVIOUS
<1> HIDE DEF step
<1>7. 1 \in 1..n /\ ss[1] \in Seq(S)
  BY <1>1, <1>2
<1>8. PICK g \in [0..m -> Seq(S)] : Loops(g, m, ss[1], step)
  BY <1>1, <1>5, <1>7, LoopHasValues
<1> DEFINE f == [i \in 1..n |-> g[i - 1]]
<1>9. f \in [1..n -> Seq(S)]
  <2>1. \A i \in 1..n : i - 1 \in 0..m
    BY <1>1
  <2>2. QED BY <1>8, <2>1
<1>10. \A i \in 1..n : f[i] = IF i = 1 THEN ss[i] ELSE f[i - 1] \o ss[i]
  <2>1. TAKE i \in 1..n
  <2>2. CASE i = 1
    <3>1. 0 \in 0..m /\ i - 1 = 0
      BY <1>1, <2>2
    <3>2. QED BY <1>8, <2>2, <3>1 DEF Loops
  <2>3. CASE i # 1
    <3>1. i - 1 \in 1..m /\ i - 1 \in 1..n /\ i - 1 \in 0..m /\ i - 1 # 0 /\ (i - 1) - 1 \in 0..m
          /\ (i - 1) + 1 = i
      BY <1>1, <2>3
    <3>2. g[i - 1] = step[i - 1][g[(i - 1) - 1]]
      BY <1>8, <3>1 DEF Loops
    <3>3. g[(i - 1) - 1] \in Seq(S) /\ f[i] = g[i - 1] /\ f[i - 1] = g[(i - 1) - 1]
      BY <1>8, <3>1
    <3>4. step[i - 1][g[(i - 1) - 1]] = g[(i - 1) - 1] \o ss[i]
      BY <1>6, <3>1, <3>3
    <3> HIDE DEF f
    <3>5. QED BY <2>3, <3>2, <3>3, <3>4
  <2>4. QED BY <2>2, <2>3
<1> DEFINE F == CHOOSE h : h = [i \in 1..n |-> IF i = 1 THEN ss[i] ELSE h[i - 1] \o ss[i]]
<1>11. f = [i \in 1..n |-> IF i = 1 THEN ss[i] ELSE f[i - 1] \o ss[i]]
  <2> HIDE DEF f
  <2>1. QED BY <1>9, <1>10
<1>12. F = [i \in 1..n |-> IF i = 1 THEN ss[i] ELSE F[i - 1] \o ss[i]]
  <2> HIDE DEF f
  <2>1. QED BY <1>11
<1>13. FlattenSeq(ss) = F[n]
  BY <1>1 DEF FlattenSeq, n
<1> HIDE DEF F, f
<1>14. \A i \in 1..n : F[i] = IF i = 1 THEN ss[i] ELSE F[i - 1] \o ss[i]
  BY <1>12
<1>15. \A i \in 1..n : F[i] \in Seq(S)
  <2> DEFINE T == {k \in 0..m : F[k + 1] \in Seq(S)}
  <2>1. 0 \in T
    BY <1>1, <1>7, <1>14
  <2>2. ASSUME NEW k \in 0..m, k \in T, k < m PROVE k + 1 \in T
    <3>1. k + 1 \in 0..m /\ (k + 1) + 1 \in 1..n /\ (k + 1) + 1 # 1 /\ ((k + 1) + 1) - 1 = k + 1
      BY <1>1, <2>2
    <3>2. F[(k + 1) + 1] = F[k + 1] \o ss[(k + 1) + 1]
      BY <1>14, <3>1
    <3>3. ss[(k + 1) + 1] \in Seq(S) /\ F[k + 1] \in Seq(S)
      BY <1>2, <2>2, <3>1
    <3>4. F[k + 1] \o ss[(k + 1) + 1] \in Seq(S)
      BY <3>3
    <3>5. QED BY <3>1, <3>2, <3>4
  <2>3. 0..m \subseteq T
    <3> HIDE DEF T
    <3>1. QED BY <1>1, <2>1, <2>2, InductionUpTo
  <2>4. \A i \in 1..n : i - 1 \in T /\ (i - 1) + 1 = i
    <3> HIDE DEF T
    <3>1. QED BY <1>1, <2>3
  <2>5. QED BY <2>4
<1>16. F \in [1..n -> Seq(S)]
  BY <1>12, <1>15
<1>17. QED BY <1>13, <1>14, <1>16 DEF Flattens, n

\* Flattening nothing makes nothing.
LEMMA FlattenNothing == FlattenSeq(<<>>) = <<>>
BY DEF FlattenSeq

\* Flattened sequences over a set are a sequence over it.
LEMMA FlattenSeqType ==
    ASSUME NEW S, NEW ss \in Seq(Seq(S))
    PROVE  FlattenSeq(ss) \in Seq(S)
<1>1. CASE Len(ss) = 0
  <2>1. ss = <<>>
    BY <1>1
  <2>2. <<>> \in Seq(S)
    OBVIOUS
  <2>3. QED BY <2>1, <2>2, FlattenNothing
<1>2. CASE Len(ss) > 0
  <2>1. PICK f \in [1..Len(ss) -> Seq(S)] : FlattenSeq(ss) = f[Len(ss)]
    BY <1>2, FlattenSeqRecursion
  <2>2. Len(ss) \in 1..Len(ss)
    BY <1>2
  <2>3. QED BY <2>1, <2>2
<1>3. QED BY <1>1, <1>2

\* Flattening one sequence more puts it at the end.
LEMMA FlattenSeqAppend ==
    ASSUME NEW S, NEW ss \in Seq(Seq(S)), NEW q \in Seq(S)
    PROVE  FlattenSeq(Append(ss, q)) = FlattenSeq(ss) \o q
<1> DEFINE n == Len(ss)
           tt == Append(ss, q)
<1>1. /\ n \in Nat /\ tt \in Seq(Seq(S)) /\ Len(tt) = n + 1 /\ tt[n + 1] = q
      /\ \A k \in 1..n : tt[k] = ss[k]
  OBVIOUS
<1> HIDE DEF tt
<1>2. PICK g \in [1..Len(tt) -> Seq(S)] : Flattens(g, tt) /\ FlattenSeq(tt) = g[Len(tt)]
  BY <1>1, FlattenSeqRecursion
<1>3. \A i \in 1..(n + 1) : g[i] = IF i = 1 THEN tt[i] ELSE g[i - 1] \o tt[i]
  BY <1>1, <1>2 DEF Flattens
<1>4. CASE n = 0
  <2>1. ss = <<>>
    BY <1>4
  <2>2. g[1] = q
    BY <1>1, <1>3, <1>4
  <2>3. FlattenSeq(tt) = q
    BY <1>1, <1>2, <1>4, <2>2
  <2>4. QED BY <2>1, <2>3, FlattenNothing DEF tt
<1>5. CASE n > 0
  <2>1. PICK f \in [1..n -> Seq(S)] : Flattens(f, ss) /\ FlattenSeq(ss) = f[n]
    BY <1>5, FlattenSeqRecursion
  <2>2. \A i \in 1..n : f[i] = IF i = 1 THEN ss[i] ELSE f[i - 1] \o ss[i]
    BY <2>1 DEF Flattens
  <2> HIDE DEF n
  <2> DEFINE m == n - 1
             T == {k \in 0..m : g[k + 1] = f[k + 1]}
  <2>3. m \in Nat /\ m + 1 = n
    BY <1>1, <1>5
  <2>4. 0 \in T
    <3>1. 1 \in 1..n /\ 1 \in 1..(n + 1) /\ 0 \in 0..m /\ 0 + 1 = 1
      BY <1>1, <1>5, <2>3
    <3>2. g[1] = tt[1] /\ f[1] = ss[1] /\ tt[1] = ss[1]
      BY <1>1, <1>3, <2>2, <3>1
    <3>3. QED BY <3>1, <3>2
  <2>5. ASSUME NEW k \in 0..m, k \in T, k < m PROVE k + 1 \in T
    <3> DEFINE i == (k + 1) + 1
    <3>1. /\ k + 1 \in 0..m /\ i \in 1..n /\ i \in 1..(n + 1) /\ i # 1 /\ i - 1 = k + 1
      BY <1>1, <2>3, <2>5
    <3> HIDE DEF i
    <3>2. g[i] = g[k + 1] \o tt[i] /\ f[i] = f[k + 1] \o ss[i]
      BY <1>3, <2>2, <3>1
    <3>3. g[k + 1] = f[k + 1] /\ tt[i] = ss[i]
      BY <1>1, <2>5, <3>1
    <3>4. g[i] = f[i]
      BY <3>2, <3>3
    <3>5. QED BY <3>1, <3>4 DEF i
  <2>6. 0..m \subseteq T
    <3> HIDE DEF T, m
    <3>1. QED BY <2>3, <2>4, <2>5, InductionUpTo
  <2>7. g[n] = f[n]
    <3>1. m \in T
      <4> HIDE DEF T, m
      <4>1. QED BY <2>3, <2>6
    <3>2. QED BY <2>3, <3>1
  <2>8. n + 1 \in 1..(n + 1) /\ n + 1 # 1 /\ (n + 1) - 1 = n
    BY <1>1, <1>5
  <2>9. g[n + 1] = g[n] \o tt[n + 1]
    BY <1>3, <2>8
  <2>10. QED BY <1>1, <1>2, <2>1, <2>7, <2>9 DEF tt
<1>6. QED BY <1>1, <1>4, <1>5

-----------------------------------------------------------------------------
\* Running sums.

\* S[k] is the sum of the first k of the n terms w.
IsSums(S, w, n) ==
    /\ w \in [1..n -> Nat]
    /\ S \in [0..n -> Nat]
    /\ \A k \in 0..n : S[k] = IF k = 0 THEN 0 ELSE S[k - 1] + w[k]

\* The recursive definition is one of sums.
THEOREM SumsExist ==
    ASSUME NEW n \in Nat, NEW w \in [1..n -> Nat]
    PROVE  IsSums(Sums(w, n), w, n)
<1> DEFINE step == [k \in 1..n |-> [x \in Nat |-> x + w[k]]]
<1>1. step \in [1..n -> [Nat -> Nat]]
  <2>1. \A k \in 1..n : [x \in Nat |-> x + w[k]] \in [Nat -> Nat]
    OBVIOUS
  <2>2. QED BY <2>1
<1>2. \A k \in 1..n : \A x \in Nat : step[k][x] = x + w[k]
  OBVIOUS
<1> HIDE DEF step
<1>3. PICK f \in [0..n -> Nat] : Loops(f, n, 0, step)
  BY <1>1, LoopHasValues
<1>4. \A k \in 0..n : f[k] = IF k = 0 THEN 0 ELSE f[k - 1] + w[k]
  <2>1. TAKE k \in 0..n
  <2>2. k # 0 => k \in 1..n /\ k - 1 \in 0..n
    OBVIOUS
  <2>3. k # 0 => step[k][f[k - 1]] = f[k - 1] + w[k]
    BY <1>2, <2>2
  <2>4. QED BY <1>3, <2>3 DEF Loops
<1>5. f = [k \in 0..n |-> IF k = 0 THEN 0 ELSE f[k - 1] + w[k]]
  BY <1>4
<1>6. Sums(w, n) = [k \in 0..n |-> IF k = 0 THEN 0 ELSE Sums(w, n)[k - 1] + w[k]]
  BY <1>5 DEF Sums
<1> DEFINE S == Sums(w, n)
<1> HIDE DEF S
<1>7. \A k \in 0..n : S[k] = IF k = 0 THEN 0 ELSE S[k - 1] + w[k]
  BY <1>6 DEF S
<1>8. \A k \in 0..n : S[k] \in Nat
  <2> DEFINE T == {k \in 0..n : S[k] \in Nat}
  <2>1. 0 \in T
    BY <1>7
  <2>2. ASSUME NEW k \in 0..n, k \in T, k < n PROVE k + 1 \in T
    <3>1. k + 1 \in 0..n /\ k + 1 \in 1..n /\ (k + 1) - 1 = k /\ k + 1 # 0
      BY <2>2
    <3>2. S[k + 1] = S[k] + w[k + 1]
      BY <1>7, <3>1
    <3>3. QED BY <2>2, <3>1, <3>2
  <2>3. 0..n \subseteq T
    <3> HIDE DEF T
    <3>1. QED BY <2>1, <2>2, InductionUpTo
  <2>4. QED BY <2>3
<1>9. S = [k \in 0..n |-> IF k = 0 THEN 0 ELSE S[k - 1] + w[k]]
  BY <1>6 DEF S
<1>10. S \in [0..n -> Nat]
  BY <1>8, <1>9
<1>11. QED BY <1>7, <1>10 DEF IsSums, S

\* Sums of the same terms are the same, as far as both go.
LEMMA SumsAgree ==
    ASSUME NEW n \in Nat, NEW p \in Nat, n <= p,
           NEW R, NEW S, NEW v, NEW w, IsSums(R, v, n), IsSums(S, w, p),
           \A k \in 1..n : v[k] = w[k]
    PROVE  \A k \in 0..n : R[k] = S[k]
<1> DEFINE T == {k \in 0..n : R[k] = S[k]}
<1>1. \A k \in 0..n : R[k] = IF k = 0 THEN 0 ELSE R[k - 1] + v[k]
  BY DEF IsSums
<1>2. \A k \in 0..p : S[k] = IF k = 0 THEN 0 ELSE S[k - 1] + w[k]
  BY DEF IsSums
<1>3. 0 \in T
  BY <1>1, <1>2
<1>4. ASSUME NEW k \in 0..n, k \in T, k < n PROVE k + 1 \in T
  <2>1. /\ k + 1 \in 0..n /\ k + 1 \in 0..p /\ k + 1 \in 1..n
        /\ (k + 1) - 1 = k /\ k + 1 # 0
    BY <1>4
  <2>2. R[k + 1] = R[k] + v[k + 1] /\ S[k + 1] = S[k] + w[k + 1]
    BY <1>1, <1>2, <2>1
  <2>3. QED BY <1>4, <2>1, <2>2
<1>5. 0..n \subseteq T
  <2> HIDE DEF T
  <2>1. QED BY <1>3, <1>4, InductionUpTo
<1>6. QED BY <1>5

\* Sums never fall.
LEMMA SumsGrow ==
    ASSUME NEW n \in Nat, NEW S, NEW w, IsSums(S, w, n), NEW i \in 0..n, NEW j \in i..n
    PROVE  S[i] <= S[j]
<1> DEFINE T == {k \in 0..n : i <= k => S[i] <= S[k]}
<1>1. \A k \in 0..n : S[k] = (IF k = 0 THEN 0 ELSE S[k - 1] + w[k]) /\ S[k] \in Nat
  BY DEF IsSums
<1>2. \A k \in 1..n : w[k] \in Nat
  BY DEF IsSums
<1>3. 0 \in T
  BY <1>1
<1>4. ASSUME NEW k \in 0..n, k \in T, k < n PROVE k + 1 \in T
  <2>1. k + 1 \in 0..n /\ k + 1 \in 1..n /\ (k + 1) - 1 = k /\ k + 1 # 0
    BY <1>4
  <2>2. S[k + 1] = S[k] + w[k + 1] /\ w[k + 1] \in Nat /\ S[k] \in Nat /\ S[i] \in Nat
    BY <1>1, <1>2, <2>1
  <2>3. i <= k + 1 => S[i] <= S[k + 1]
    <3>1. CASE i <= k
      BY <1>4, <2>2, <3>1
    <3>2. CASE i = k + 1
      BY <2>1, <1>1, <3>2
    <3>3. QED BY <3>1, <3>2
  <2>4. QED BY <2>1, <2>3
<1>5. 0..n \subseteq T
  <2> HIDE DEF T
  <2>1. QED BY <1>3, <1>4, InductionUpTo
<1>6. j \in T /\ i <= j
  <2> HIDE DEF T
  <2>1. QED BY <1>5
<1>7. QED BY <1>6

\* The terms w are those of v after the first n.
Follow(w, v, n, p) == \A k \in 1..p : w[k] = v[n + k]

\* What comes after the first n terms is a sum of its own.
LEMMA SumsAfter ==
    ASSUME NEW n \in Nat, NEW p \in Nat, NEW l, l = n + p, NEW R, NEW S, NEW v, NEW w,
           IsSums(R, v, l), IsSums(S, w, p),
           Follow(w, v, n, p)
    PROVE  R[l] = R[n] + S[p]
<1> DEFINE T == {k \in 0..p : R[n + k] = R[n] + S[k]}
<1>1. \A k \in 0..(n + p) : R[k] = (IF k = 0 THEN 0 ELSE R[k - 1] + v[k]) /\ R[k] \in Nat
  BY DEF IsSums
<1>2. \A k \in 0..p : S[k] = (IF k = 0 THEN 0 ELSE S[k - 1] + w[k]) /\ S[k] \in Nat
  BY DEF IsSums
<1>3. \A k \in 1..p : w[k] \in Nat
  BY DEF IsSums
<1>4. 0 \in T
  <2>1. n \in 0..(n + p) /\ 0 \in 0..p /\ n + 0 = n
    OBVIOUS
  <2>2. R[n] \in Nat /\ S[0] = 0
    BY <1>1, <1>2, <2>1
  <2>3. QED BY <2>1, <2>2
<1>5. ASSUME NEW k \in 0..p, k \in T, k < p PROVE k + 1 \in T
  <2>1. /\ k + 1 \in 0..p /\ k + 1 \in 1..p /\ (k + 1) - 1 = k /\ k + 1 # 0
        /\ n + (k + 1) \in 0..(n + p) /\ (n + (k + 1)) - 1 = n + k /\ n + (k + 1) # 0
        /\ n \in 0..(n + p)
    BY <1>5
  <2>2. R[n + (k + 1)] = R[n + k] + v[n + (k + 1)] /\ S[k + 1] = S[k] + w[k + 1]
    BY <1>1, <1>2, <2>1
  <2>3. w[k + 1] = v[n + (k + 1)] /\ w[k + 1] \in Nat /\ S[k] \in Nat /\ R[n] \in Nat
    BY <1>1, <1>2, <1>3, <2>1 DEF Follow
  <2>4. R[n + (k + 1)] = R[n] + S[k + 1]
    BY <1>5, <2>2, <2>3
  <2>5. QED BY <2>1, <2>4
<1>6. 0..p \subseteq T
  <2> HIDE DEF T
  <2>1. QED BY <1>4, <1>5, InductionUpTo
<1>7. p \in T
  <2> HIDE DEF T
  <2>1. QED BY <1>6
<1>8. QED BY <1>7

\* When one term changes, so does the sum, and by as much.
LEMMA SumsOneTerm ==
    ASSUME NEW n \in Nat, NEW R, NEW S, NEW v, NEW w, IsSums(R, v, n), IsSums(S, w, n),
           NEW i \in 1..n, \A k \in 1..n : k # i => v[k] = w[k]
    PROVE  R[n] + w[i] = S[n] + v[i]
<1> DEFINE T == {k \in 0..n : IF k < i THEN R[k] = S[k] ELSE R[k] + w[i] = S[k] + v[i]}
<1>1. \A k \in 0..n : R[k] = (IF k = 0 THEN 0 ELSE R[k - 1] + v[k]) /\ R[k] \in Nat
  BY DEF IsSums
<1>2. \A k \in 0..n : S[k] = (IF k = 0 THEN 0 ELSE S[k - 1] + w[k]) /\ S[k] \in Nat
  BY DEF IsSums
<1>3. \A k \in 1..n : w[k] \in Nat /\ v[k] \in Nat
  BY DEF IsSums
<1>4. 0 \in T
  BY <1>1, <1>2
<1>5. ASSUME NEW k \in 0..n, k \in T, k < n PROVE k + 1 \in T
  <2>1. k + 1 \in 0..n /\ k + 1 \in 1..n /\ (k + 1) - 1 = k /\ k + 1 # 0
    BY <1>5
  <2>2. /\ R[k + 1] = R[k] + v[k + 1] /\ S[k + 1] = S[k] + w[k + 1]
        /\ R[k] \in Nat /\ S[k] \in Nat /\ v[k + 1] \in Nat /\ w[k + 1] \in Nat
        /\ v[i] \in Nat /\ w[i] \in Nat
    BY <1>1, <1>2, <1>3, <2>1
  <2>3. CASE k + 1 < i
    <3>1. v[k + 1] = w[k + 1] /\ R[k] = S[k]
      BY <1>5, <2>1, <2>3
    <3>2. QED BY <2>1, <2>2, <2>3, <3>1
  <2>4. CASE k + 1 = i
    <3>1. R[k] = S[k]
      BY <1>5, <2>4
    <3>2. R[k + 1] + w[i] = S[k + 1] + v[i]
      BY <2>2, <2>4, <3>1
    <3>3. QED BY <2>1, <2>4, <3>2
  <2>5. CASE k + 1 > i
    <3>1. v[k + 1] = w[k + 1] /\ R[k] + w[i] = S[k] + v[i]
      BY <1>5, <2>1, <2>5
    <3>2. R[k + 1] + w[i] = S[k + 1] + v[i]
      BY <2>2, <3>1
    <3>3. QED BY <2>1, <2>5, <3>2
  <2>6. QED BY <2>1, <2>3, <2>4, <2>5
<1>6. 0..n \subseteq T
  <2> HIDE DEF T
  <2>1. QED BY <1>4, <1>5, InductionUpTo
<1>7. n \in T /\ ~(n < i)
  <2> HIDE DEF T
  <2>1. QED BY <1>6
<1>8. QED BY <1>7

\* The sum of nothing but zeros.
LEMMA SumsOfZeros ==
    ASSUME NEW n \in Nat, NEW S, NEW w, IsSums(S, w, n), \A k \in 1..n : w[k] = 0
    PROVE  S[n] = 0
<1> DEFINE T == {k \in 0..n : S[k] = 0}
<1>1. \A k \in 0..n : S[k] = IF k = 0 THEN 0 ELSE S[k - 1] + w[k]
  BY DEF IsSums
<1>2. 0 \in T
  BY <1>1
<1>3. ASSUME NEW k \in 0..n, k \in T, k < n PROVE k + 1 \in T
  <2>1. k + 1 \in 0..n /\ k + 1 \in 1..n /\ (k + 1) - 1 = k /\ k + 1 # 0
    BY <1>3
  <2>2. S[k + 1] = S[k] + w[k + 1]
    BY <1>1, <2>1
  <2>3. QED BY <1>3, <2>1, <2>2
<1>4. 0..n \subseteq T
  <2> HIDE DEF T
  <2>1. QED BY <1>2, <1>3, InductionUpTo
<1>5. n \in T
  <2> HIDE DEF T
  <2>1. QED BY <1>4
<1>6. QED BY <1>5
-----------------------------------------------------------------------------
\* Removing one element of a sequence: what remains, and where it comes from.
LEMMA RemoveAtMovesUp ==
    ASSUME NEW S, NEW s \in Seq(S), NEW i \in 1..Len(s)
    PROVE  /\ RemoveAt(s, i) \in Seq(S)
           /\ Len(RemoveAt(s, i)) = Len(s) - 1
           /\ \A j \in 1..(Len(s) - 1) : RemoveAt(s, i)[j] = IF j < i THEN s[j] ELSE s[j + 1]
<1> DEFINE front == SubSeq(s, 1, i - 1)
           back  == SubSeq(s, i + 1, Len(s))
<1>1. /\ front \in Seq(S) /\ Len(front) = i - 1
      /\ \A j \in 1..(i - 1) : front[j] = s[j]
  OBVIOUS
<1>2. /\ back \in Seq(S) /\ Len(back) = Len(s) - i
      /\ \A j \in 1..(Len(s) - i) : back[j] = s[i + j]
  OBVIOUS
<1>3. RemoveAt(s, i) = front \o back
  BY DEF RemoveAt
<1> HIDE DEF front, back
<1>4. RemoveAt(s, i) \in Seq(S) /\ Len(RemoveAt(s, i)) = Len(s) - 1
  BY <1>1, <1>2, <1>3
<1>5. ASSUME NEW j \in 1..(Len(s) - 1)
      PROVE  RemoveAt(s, i)[j] = IF j < i THEN s[j] ELSE s[j + 1]
  <2>1. CASE j < i
    BY <1>1, <1>2, <1>3, <2>1
  <2>2. CASE ~(j < i)
    <3>1. j - (i - 1) \in 1..(Len(s) - i) /\ i + (j - (i - 1)) = j + 1
      BY <2>2
    <3>2. RemoveAt(s, i)[j] = back[j - (i - 1)]
      BY <1>1, <1>2, <1>3, <2>2
    <3>3. QED BY <1>2, <2>2, <3>1, <3>2
  <2>3. QED BY <2>1, <2>2
<1>6. QED BY <1>4, <1>5

=============================================================================
