SPECIFICATION Spec
CONSTANTS
  p = p
  q = q
  s = s
  note = note
  tag = tag
  Processors <- MCProcessors
  Sinks <- MCSinks
  Types <- MCTypes
  Consumes <- MCConsumes
  Emits <- MCEmits
  NoType = NoType
  NoContext = NoContext
  Watched = {p}
  PerTick = 3
  MaxTick = 0
  MaxDerived = 1
  Faults = {"crash", "module", "store"}
  MaxFaults = 2
CHECK_DEADLOCK FALSE
INVARIANT TypeOK
INVARIANT ContextSurvives
INVARIANT NoLoop
INVARIANT PassedIsHandled
