SPECIFICATION FairSpec
CONSTANTS
  Ids <- MCIds
  NewIds <- MCNewIds
  RecordOf <- MCRecordOf
  TimeOf <- MCTimeOf
  Databases <- MCDatabases
  MaxFaults = 3
  Putters = {w1, w2}
  Contents = {c1}
  NoContent = NoContent
INVARIANT TypeOK
INVARIANT RevisionsKept
INVARIANT Searchable
INVARIANT Ordered
INVARIANT RefsResolve
INVARIANT TempsRemoved
PROPERTY SequenceStable
PROPERTY ImplementsContentStore
PROPERTY EventuallyOpens
