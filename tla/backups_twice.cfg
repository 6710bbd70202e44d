CONSTANTS
  Requests = {r1, r2}
  Retain = 1
  MaxBackups = 1
SPECIFICATION Spec
PROPERTY FailedRestoreChangesNothing
