CONSTANTS
  Schedules = {s1, s2}
  Manuals = {m1}
  Periods = {1, 2}
  TTL = 2
  MaxTime = 3
  None = None
SYMMETRY Symmetry
SPECIFICATION Spec
INVARIANTS
  TypeOK
  NoOverlapUnlessOverrun
  NextFollowsCron
  OrphanLocksExpire
PROPERTIES
  DisabledNeverFires
  FiresOnce
