SPECIFICATION Spec
CONSTANTS
  t1 = t1
  t2 = t2
  Threads = {t1, t2}
  notes = notes
  xzip = xzip
  Words = {notes, xzip}
  Suffix = Suffix
  Slash = Slash
  Inodes = {1, 2, 5}
  ArchiveWords = {xzip}
  Errnos = {0, 2}
  HalfWord = 4
  Requests <- MCRequests
  Outside <- MCOutside
  Bases <- MCBases
INVARIANTS
  TypeOK
  PassedOnlyOutside
  RefusedOnlyInside
  DistinctInodes
PROPERTIES
  CallsAsAsked
  OneTree
