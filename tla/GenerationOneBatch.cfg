\* Exceptions, crashes and redelivery; one batch of two candidates
CONSTANTS
  b1 = b1  b2 = b2  c1 = c1  c2 = c2
  None = None
  Batches = {b1}
  Owners = {b1}
  Candidates = {c1, c2}
  Credits = 2
  Attempts = 2
  LockTtl = 1
  HeartbeatTimeout = 1
  ReservationTtl = 0
  MaxFaults = 2
  MaxClock = 1
SPECIFICATION FairSpec
CHECK_DEADLOCK FALSE
INVARIANTS EndsOnce GeneratedIsCharged RefusedLeavesNothing
PROPERTIES UndisturbedFinishes
