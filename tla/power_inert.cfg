CONSTANTS
  Reqs = {r1, r2}
  MaxSpawns = 2
SPECIFICATION Spec
INVARIANT InertHasNoProcess
