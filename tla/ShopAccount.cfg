\* Two subscriptions one after the other, one pack, one request beside the
\* scheduled job, a callback that is loaded again; two shops, two months, three
\* moves of theirs; one fault
CONSTANTS
  s1 = s1  s2 = s2  r1 = r1  r2 = r2  p1 = p1  d1 = d1  d2 = d2
  None = None  Worker = Worker
  Subs = {s1, s2}
  Packs = {p1}
  Requests = {r1, r2}
  Reloads = {r2}
  Shops = {d1, d2}
  Months = 2
  MaxMoves = 3
  MaxFaults = 1
SPECIFICATION AccountSpec
CHECK_DEADLOCK FALSE
INVARIANTS PlanIsSubscribed CreditedIffRecorded
PROPERTIES PlanFollowsShopify FreeShopIsGranted
