\* Two resource types, one retry of one of them, one fault
CONSTANTS
  t1 = t1  t2 = t2
  Tasks = {t1, t2}
  MaxAttempts <- MCMaxAttempts
  Slots = 2
  MaxFaults = 1
SPECIFICATION FairSpec
CHECK_DEADLOCK FALSE
INVARIANTS OneLiveAttempt PublishedWasParsed UndisturbedCompletes KeepsLock
PROPERTIES ScanEnds
