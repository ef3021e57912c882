\* One batch, two open transactions: every race on one reservation, and its end
CONSTANTS
  b1 = b1  b2 = b2  k1 = k1  k2 = k2  c1 = c1  c2 = c2  p1 = p1  p2 = p2
  Batches = {b1}
  Buckets = {k1, k2}
  BucketType <- MCBucketType
  Candidates = {c1, c2}
  Callers = {p1, p2}
  Amounts = {1, 2}
  Windows <- MCWindows
  ReservationTtl = 1
  MaxClock = 2
SPECIFICATION FairSpec
CHECK_DEADLOCK FALSE
INVARIANTS BucketsMatchLines LedgerReplays
PROPERTIES ActiveEventuallyEnds ImplementsAccount
