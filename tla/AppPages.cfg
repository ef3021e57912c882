\* Two batches, two jobs of a generation, two clicks; one scan and two attempts to
\* publish it; one image, two texts, three acts; three rows of two images in a list
\* that loads one at a time, two acts; one or two faults for each page
CONSTANTS
  b1 = b1  b2 = b2  j1 = j1  j2 = j2  t1 = t1  t2 = t2
  None = None
  Generated = Generated
  Batches = {b1, b2}
  Jobs = {j1, j2}
  Texts = {t1, t2}
  PublishAttempts = 2
  MaxClicks = 2
  MaxActs <- MCMaxActs
  Ids = {1, 2, 3}
  Candidate <- MCCandidate
  Filters <- MCFilters
  PageSize = 1
  MaxFaults <- MCMaxFaults
SPECIFICATION Spec
CHECK_DEADLOCK FALSE
INVARIANTS FlowFollowsBatch ShownIsReal
PROPERTIES GenerationIsSummarised EndIsShown ListIsWhole
