\* Exceptions, crashes, redelivery and lost answers; one batch of two candidates, one
\* of which the merchant fills or marks meanwhile
CONSTANTS
  b1 = b1  b2 = b2  c1 = c1  c2 = c2
  None = None
  Batches = {b1}
  Candidates = {c1, c2}
  Touched = {c1}
  Attempts = 2
  MaxFaults = 2
SPECIFICATION FairSpec
CHECK_DEADLOCK FALSE
INVARIANTS ClosedBatchFits KeepsMerchantText WrittenIsAudited
PROPERTIES WritebackFinishes
