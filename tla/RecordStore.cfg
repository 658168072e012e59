\* Two writers, no retention: the projections are the fold of the journal.
SPECIFICATION RebuildSpec
CONSTANTS
  r1 = r1
  r2 = r2
  t1 = t1
  f1 = f1
  f2 = f2
  a = a
  x1 = x1
  k1 = k1
  Refs = {r1, r2}
  Types = {t1}
  Fields = {f1, f2}
  Values = {a}
  Targets = {x1}
  Rels = {k1}
  NoType = NoType
  Absent = Absent
  Keep = Keep
  NoRel = NoRel
  KeepRefs = KeepRefs
  NoRevision = NoRevision
  Writers = {w1, w2}
  Ids = {i1, i2, i3}
  Requests <- MCRequests
  Cutoffs = {}
  MaxVersion = 4
INVARIANT TypeOK
INVARIANT HeadIsReplay
INVARIANT SearchComplete
INVARIANT RebuildReproduces
PROPERTY ImplementsLog
SYMMETRY Symmetry
