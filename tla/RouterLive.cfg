SPECIFICATION FairSpec
CONSTANTS
  p = p
  q = q
  s = s
  note = note
  tag = tag
  Processors <- MCProcessors
  Sinks <- MCSinks
  Types <- MCTypes
  Consumes <- MCConsumes
  Emits <- MCEmits
  NoType = NoType
  NoContext = NoContext
  Watched = {p, q, s}
  PerTick = 1
  MaxTick = 1
  MaxDerived = 1
  Faults = {"crash", "module", "death", "reuse"}
  MaxFaults = 2
CHECK_DEADLOCK FALSE
PROPERTY EventuallyPassed
INVARIANT ContextSurvives
INVARIANT PassedIsHandled
