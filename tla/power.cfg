CONSTANTS
  Reqs = {r1, r2, r3}
  MaxSpawns = 3
SPECIFICATION Spec
INVARIANTS
  TypeOK
  OneLiveChild
  NoLostChild
  RecordMatchesSlot
PROPERTIES
  SuccessMeansDead
  ImplementsContract
