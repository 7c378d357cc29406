\* Two accounts, one scanned twice, change handles that nobody takes over.
SPECIFICATION Spec
CONSTANTS
  x = x
  y = y
  v1 = v1
  v2 = v2
  w1 = w1
  a1 = a1
  a2 = a2
  b1 = b1
  Accounts = {x, y}
  Handles = {h1, h2, h3}
  Videos = {v1, v2, w1}
  Analyses = {a1, a2, b1}
  Rows = {r1, r2, r3}
  Author <- MCAuthor
  Target <- MCTarget
  HandleReuse = FALSE
  None = None
SYMMETRY Symmetry
INVARIANTS
  TypeOK
  UniqueIdentity
  SnapshotsInChannel
  CountsAgree
PROPERTIES
  CorpusKept
  IdentityKept
