SPECIFICATION Spec
CONSTANTS
  Videos = {1, 2}
  Captions = {c1, c2}
  Views = {1, 2}
  Answers = {x}
  Modes = {"all", "top"}
  TopSize = 1
  PriorityTarget = 1
  Slots = {s1, s2}
  Threads = {t1, t2}
  None = None
  MaxAnalyses = 2
  MaxChanges = 3
  MaxRequests = 3
SYMMETRY Symmetry
INVARIANTS
  KnowledgeTypeOK
  EvidenceAsAnalysed
  ChildrenMatchHash
  DeltaActionable
  ContentGrounded
  
PROPERTIES
  TranscriptsKept
CHECK_DEADLOCK FALSE
