CONSTANTS
  Jobs = {j1, j2}
  Versions = {v1, v2}
SPECIFICATION Spec
INVARIANT NoProcessDuringInstall
