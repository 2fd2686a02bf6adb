----------------------------- MODULE GoogleMeters -----------------------------
(***************************************************************************)
(* A QuotaLimiter next to the meters of Google it is there to respect.     *)
(***************************************************************************)
EXTENDS QuotaLimiter, GoogleApi

CONSTANT Meters \* what Google counts: a limit and a window for each meter

\* Each meter has a bucket, with no higher limit and no shorter window ...
BucketsCover ==
    \A m \in DOMAIN Meters : /\ m \in DOMAIN Buckets
                             /\ Meters[m].limit \in Nat /\ Meters[m].window \in Nat
                             /\ Buckets[m].limit <= Meters[m].limit
                             /\ Buckets[m].window >= Meters[m].window

\* ... which every request that the meter counts is charged to, at no less than
\* its price: the limiter is set up for these meters.
CoversTheMeters ==
    /\ BucketsCover
    /\ \A request \in Requests : request.meter \in DOMAIN Meters =>
          LET due == Routes[request]
          IN /\ due # None /\ due.key = request.meter
             /\ request.price \in Nat /\ due.cost \in Nat /\ request.price <= due.cost

-----------------------------------------------------------------------------
\* What must hold.

\* The promise of the limiter: no meter of Google counts more than its limit within
\* its window, at Google's own prices, when each request leaves as soon as it is
\* paid for.
GoogleCountsNoMore == MetersKeep(Meters, sent)
=============================================================================
