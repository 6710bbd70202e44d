CONSTANTS
  Jobs = {j1, j2, j3}
  Versions = {v1, v2}
SPECIFICATION FairSpec
INVARIANTS
  TypeOK
  InstallingHasJob
  UndisturbedInstallIsAlone
PROPERTY InstallSettles
