\* Two videos in one batch each, two captions; a backfill and a canary overlap,
\* and a third run follows.
SPECIFICATION ViralSpec
CONSTANTS
  x = x
  y = y
  None = None
  Count = 2
  Batch = 1
  Captions = {x, y}
  MaxChanges = 2
  MaxRuns = 3
  MaxFaults = 1
SYMMETRY Symmetry
CHECK_DEADLOCK FALSE
INVARIANTS
  ViralTypeOK
  SemanticsOfInput
  BackfillConverges
  CanaryConverges
