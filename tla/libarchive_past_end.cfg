SPECIFICATION Spec
CONSTANTS
  Threads = {t1, t2}
  NoThread = NoThread
  Offsets = {0, 4}
  Lengths = {1, 2}
  Contents <- MCContents
  Gone = Gone
  Index = 1
  MaxVersions = 1
PROPERTIES
  InRangeServed
