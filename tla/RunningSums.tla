------------------------------ MODULE RunningSums ------------------------------
(***************************************************************************)
(* Running sums, by recursion over the number of terms.                    *)
(***************************************************************************)
EXTENDS Integers

\* The sums of the first 0, 1, ..., n of the terms w.
Sums(w, n) ==
    LET sum[k \in 0..n] == IF k = 0 THEN 0 ELSE sum[k - 1] + w[k]
    IN sum
=============================================================================
