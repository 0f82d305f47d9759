SPECIFICATION MountSpec
CONSTANTS
  Threads = {r, g}
  Readers = {r, g}
  Archives = {a}
  Zips = {a}
  Names = {d, f, other}
  d = d
  f = f
  other = other
  Top = Top
  Parent <- MCParent
  Contents <- Disjoint
  Asked = {Top, d}
  Metadata <- MCMetadata
  NoArchive = NoArchive
  Root = Root
  NoMetadata = NoMetadata
  NoThread = NoThread
  MaxEntries = 3
  Grace = 0
  AllocFails = FALSE
  MaxTime = 0
  MaxId = 5
  MaxVersions = 2
  ReadErrors = FALSE
SYMMETRY Symmetry
INVARIANTS
  DirIsPrefix
  ListingOfOneVersion
PROPERTIES
  RequestAdvances
CHECK_DEADLOCK FALSE
