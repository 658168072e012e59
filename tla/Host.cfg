SPECIFICATION FairSpec
CONSTANTS
  d = d
  e = e
  b = b
  Places <- MCPlaces
  BuiltIn = {b}
  Gone = Gone
  Broken = Broken
  Everything = "*"
  Reserved = {"version", "config", "help", "init"}
  Inherit = Inherit
  NoAuth = NoAuth
  NoValidator = NoValidator
  Wildcards <- MCWildcards
  Upper <- MCUpper
  Builtins <- MCBuiltins
  UserTypes <- MCUserTypes
  Setups <- MCSetups
  Versions <- MCVersions
  SeenToExit = {"gate", "web", "tagger"}
  DefaultAuth = NoValidator
  Requests <- MCRequests
  Faults = {"settings", "path", "listen", "start", "death", "return"}
  MaxFaults = 2
  MaxEdits = 1
  NoBinding = NoBinding
  NoPlace = NoPlace
CHECK_DEADLOCK FALSE
INVARIANT TypeOK
INVARIANT LatestBinding
INVARIANT RunningIsBound
INVARIANT ServedByOwner
INVARIANT CleanExit
INVARIANT CatalogAgrees
PROPERTY ImplementsHosting
PROPERTY Recovers
PROPERTY Stops
