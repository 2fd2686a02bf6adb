----------------------------- MODULE QuotaBudget -----------------------------
(***************************************************************************)
(* What a quota bucket promises its users, with no line, lock, log or      *)
(* sleep: a cost is charged at a time only if the charges less than Window *)
(* before that time leave room for it.  SlidingWindow implements it, and   *)
(* QuotaLimiter keeps one for every bucket.                                *)
(***************************************************************************)
EXTENDS Integers, Sequences

CONSTANTS Limit,  \* cost permitted within one window
          Window  \* length of the window

VARIABLES clock, \* time.monotonic
          grants \* every charge ever made, with running totals

Init == clock = 0 /\ grants = <<>>

\* The cost of the first k charges.
Spent == [k \in 0..Len(grants) |-> IF k = 0 THEN 0 ELSE grants[k].total]

\* Bug: a charge is forgotten a tick early.
ForgetsEarly(now, cost) ==
    \A i \in 1..Len(grants) :
        now - grants[i].at < Window - 1 => Spent[Len(grants)] - Spent[i - 1] + cost <= Limit

HasRoom(now, cost) ==
    \A i \in 1..Len(grants) :
        now - grants[i].at < Window => Spent[Len(grants)] - Spent[i - 1] + cost <= Limit

\* A charge counts from the time the caller read, which may be in the past, but
\* never before an earlier charge.
MayCharge(now, cost) ==
    /\ now <= clock
    /\ \A i \in 1..Len(grants) : grants[i].at <= now
    /\ HasRoom(now, cost)

WithCharge(now, cost) ==
    Append(grants, [at |-> now, cost |-> cost, total |-> Spent[Len(grants)] + cost])

Charge(now, cost) == MayCharge(now, cost) /\ grants' = WithCharge(now, cost)

Tick == clock' = clock + 1 /\ UNCHANGED grants

Next == \/ Tick
        \/ \E now \in 0..clock, cost \in 1..Limit :
              Charge(now, cost) /\ UNCHANGED clock

Spec == Init /\ [][Next]_<<clock, grants>>

\* What a budget is for: whatever lies within one window costs at most Limit.
NeverOverspent ==
    \A i, j \in 1..Len(grants) :
        (i <= j /\ grants[j].at - grants[i].at < Window)
            => Spent[j] - Spent[i - 1] <= Limit
=============================================================================
