\* The row and the key: two scans requested in one millisecond, late or retried, a
\* generation, two writebacks, the cleaners
CONSTANTS
  s1 = s1  s2 = s2  g1 = g1  g2 = g2  w1 = w1  w2 = w2
  o1 = o1  o2 = o2  o3 = o3  o4 = o4
  Owners = {o1, o2, o3, o4}
  Scans = {s1, s2}
  Generations = {g1}
  Writebacks = {w1, w2}
  OwnerOf <- SharedScanId
  LockTtl = 1
  HeartbeatTimeout = 1
  WritebackTtl = 1
  PublishAttempts = 2
  MaxClock = 2
SPECIFICATION FairSpec
CHECK_DEADLOCK FALSE
INVARIANTS GenerationLease WritebackLease
PROPERTIES AbandonedLockIsReaped
