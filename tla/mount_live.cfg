SPECIFICATION FairMountSpec
CONSTANTS
  Threads = {r, g}
  Readers = {r}
  Archives = {a}
  Zips = {}
  Names = {d, f}
  d = d
  f = f
  other = other
  Top = Top
  Parent <- MCParent
  Contents <- Implicit
  Asked = {Top, d, f}
  Metadata <- MCMetadata
  NoArchive = NoArchive
  Root = Root
  NoMetadata = NoMetadata
  NoThread = NoThread
  MaxEntries = 3
  Grace = 0
  AllocFails = FALSE
  MaxTime = 1
  MaxId = 3
  MaxVersions = 1
  ReadErrors = TRUE
PROPERTIES
  EveryRequestAnswered
CHECK_DEADLOCK FALSE
