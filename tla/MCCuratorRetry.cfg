SPECIFICATION CuratorSpec
CONSTANTS
  c1 = c1
  c2 = c2
  Channels = {c1, c2}
  NoChannel = NoChannel
  RetryMax = 1
  NavLimit = 1
  Inputs <- MCInputs
  MaxCommands = 1
  MaxTrouble = 3
INVARIANT RetriesBounded
CHECK_DEADLOCK FALSE
