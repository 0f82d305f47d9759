SPECIFICATION FreshSpec
CONSTANTS
  Threads = {r, g}
  Readers = {r}
  Archives = {a}
  Zips = {}
  Names = {d, f, other}
  d = d
  f = f
  other = other
  Top = Top
  Parent <- MCParent
  Contents <- Large
  Asked = {Top, f}
  Metadata <- MCMetadata
  NoArchive = NoArchive
  Root = Root
  NoMetadata = NoMetadata
  NoThread = NoThread
  MaxEntries = 3
  Grace = 0
  AllocFails = FALSE
  MaxTime = 1
  MaxId = 6
  MaxVersions = 2
  ReadErrors = FALSE
INVARIANTS
  ListingComplete
  GetattrOfMember
  NoFalseENOENT
  UpToDate
CHECK_DEADLOCK FALSE
