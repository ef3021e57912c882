----------------------------- MODULE CreditPlan -----------------------------
(***************************************************************************)
(* The order in which credit buckets are drawn, and what a reservation of  *)
(* n credits takes from each: consumption-order.ts and planReservationLines*)
(* of credit-reservation.service.ts.  A bucket here is a record with the   *)
(* fields type, remaining, effectiveAt and expiresAt; an absent expiry     *)
(* (null) is an expiresAt beyond every clock value of the model.           *)
(***************************************************************************)
EXTENDS Totals

IncludedFamily == {"FREE_MONTHLY_INCLUDED", "MONTHLY_INCLUDED", "ANNUAL_INCLUDED"}
BucketTypes == IncludedFamily \cup {"WELCOME", "OVERAGE_PACK"}

Priority(type) == CASE type \in IncludedFamily -> 10
                    [] type = "WELCOME"        -> 20
                    [] type = "OVERAGE_PACK"   -> 30

\* The comparator of sortBucketsByConsumptionOrder: a is drawn strictly before
\* b.  Its last tie-break (createdAt) and the stability of the sort are left
\* open: buckets neither of which precedes the other may come in any order.
Precedes(a, b) ==
  \/ Priority(a.type) < Priority(b.type)
  \/ /\ a.type \in IncludedFamily /\ b.type \in IncludedFamily
     /\ \/ a.expiresAt < b.expiresAt
        \/ a.expiresAt = b.expiresAt /\ a.effectiveAt < b.effectiveAt

\* What takes n credits from the buckets S, greedily in consumption order:
\* a bucket gives only when every bucket before it in S gave all it had.
\* No such function exists iff the buckets of S hold fewer than n credits.
Plans(bucket, S, n) ==
  {take \in [DOMAIN bucket -> 0 .. n] :
     /\ Total(take) = n
     /\ \A k \in DOMAIN bucket : take[k] > 0 => /\ k \in S
                                                /\ take[k] <= bucket[k].remaining
     /\ \A k \in S : take[k] > 0 =>
          \A j \in S : Precedes(bucket[j], bucket[k]) => take[j] = bucket[j].remaining}
=============================================================================
