SPECIFICATION Spec
CONSTANTS
  Threads = {t1, t2}
  Archives = {a}
  Names = {x, y, z}
  NoArchive = NoArchive
  Root = Root
  Metadata = {m}
  NoMetadata = NoMetadata
  NoThread = NoThread
  MaxEntries = 3
  Grace = 0
  AllocFails = TRUE
  MaxTime = 1
  MaxId = 4
SYMMETRY Symmetry
INVARIANTS
  ListsAgree
  ServedInGrace
  Invariant
  Bounded
  OnePerPath
  DirChainsSound
  ScanServesOneDir
PROPERTIES
  ScanUndisturbed
  StoreSpec
  MutexHeldBriefly
CHECK_DEADLOCK FALSE
