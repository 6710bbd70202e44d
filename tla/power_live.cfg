CONSTANTS
  Reqs = {r1, r2}
  MaxSpawns = 3
SPECIFICATION FairSpec
PROPERTIES
  RequestsEnd
  StopsEnd
