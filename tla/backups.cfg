CONSTANTS
  Requests = {r1, r2}
  Retain = 1
  MaxBackups = 2
SYMMETRY Symmetry
SPECIFICATION Spec
INVARIANTS
  TypeOK
  ListedHasFile
  DirNeverTorn
  NothingLost
PROPERTIES
  SuccessIsListed
  KeepsNewest
