SPECIFICATION Spec
CONSTANTS
  Files = {f1, f2}
  Names = {x, y}
  x = x
  y = y
  Base = Base
  Contents <- MCContents
  MaxVersions = 2
SYMMETRY Symmetry
INVARIANTS
  TypeOK
  NothingLeaks
  NamedMember
  NoFalseENOENT
CHECK_DEADLOCK FALSE
