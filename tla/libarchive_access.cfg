SPECIFICATION FairSpec
CONSTANTS
  Threads = {t1, t2}
  NoThread = NoThread
  Offsets = {0, 1, 2, 4}
  Lengths = {1, 2}
  Contents <- MCContents
  Gone = Gone
  Index = 1
  MaxVersions = 2
INVARIANTS
  TypeOK
  OffsetTracksStream
PROPERTIES
  RandomAccessSpec
  RefusedOnlyPoisoned
  ReadGetsCloser
  EveryReadReturns
