SPECIFICATION FairSpec
CONSTANTS
  p = p
  q = q
  s = s
  note = note
  tag = tag
  Processors <- MCProcessors
  Sinks <- MCSinks
  Types <- MCTypes
  Consumes <- MCConsumes
  Emits <- MCEmits
  NoType = NoType
  NoContext = NoContext
  Watched = {}
  PerTick = 2
  MaxTick = 0
  MaxDerived = 1
  Faults = {"death"}
  MaxFaults = 1
CHECK_DEADLOCK FALSE
PROPERTY CrashIsolated
