\* Exceptions, crashes and redelivery; two batches on one candidate
CONSTANTS
  b1 = b1  b2 = b2  c1 = c1  c2 = c2
  None = None
  Batches = {b1, b2}
  Owners = {b1, b2}
  Candidates = {c1}
  Credits = 2
  Attempts = 2
  LockTtl = 1
  HeartbeatTimeout = 1
  ReservationTtl = 0
  MaxFaults = 2
  MaxClock = 1
SPECIFICATION Spec
CHECK_DEADLOCK FALSE
SYMMETRY Symmetry
INVARIANTS RefusedLeavesNothing ChargedForGenerated
