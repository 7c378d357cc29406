\* Two channels, one tab, one retry before a channel is deferred.
SPECIFICATION CuratorSpec
CONSTANTS
  c1 = c1
  c2 = c2
  Channels = {c1, c2}
  NoChannel = NoChannel
  RetryMax = 1
  NavLimit = 1
  Inputs <- MCInputs
  MaxCommands = 2
  MaxTrouble = 3
INVARIANTS
  CuratorTypeOK
  OneInFlight
  CompletedScanned
  CompletedQueue
PROPERTIES
  FinishedStays
