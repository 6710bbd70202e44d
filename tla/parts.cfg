SPECIFICATION PartsSpec
CONSTANTS
  Servers = {s1, s2}
  Ports = {1, 2}
  AutoPorts = {1, 2}
  Wild = wild
  Addresses = {a1, a2}
  NoPort = NoPort
  NoFile = NoFile
  TunnelServers = {s1, s2}
  Names = {n1, n2}
  Requests = {r1, r2}
  NoName = NoName
  Slugs = {"vanilla", "paper", "purpur", "fabric", "forge", "velocity", "bedrock-bds", "pocketmine-mp", "endstone"}
  Releases <- TwoReleases
  Adders = {add1, add2}
  Addons = {"luckperms.jar"}
  MaxInstalls = 2
  Sites = {s1, s2}
  MaxCalls = 2
  Folders = {"", "world"}
  Root = ""
  NoSite = NoSite
  HistoryLimit = 2
  ReplayLimit = 1
  MaxRuns = 2
  MaxSeq = 3
  StatRuns = 3
INVARIANTS PartsTypeOK OneAllocation ClashesAreAutomatic FileHasOwnPort EndpointsKept InPlaceIsWhole ReadyIsRunnable TidyWhenIdle PaneShowsOwn PaneLoads  GraphsFollow
CONSTRAINT FewAtOnce
CHECK_DEADLOCK FALSE
