SPECIFICATION FairCacheSpec
CONSTANTS
  a = a
  b = b
  c = c
  ab = ab
  bc = bc
  red = red
  blue = blue
  NoCluster = NoCluster
  Entities = {a, b, c}
  Edges = {ab, bc}
  Ends <- MCEnds
  Row <- MCRow
  Starts <- MCStarts
  Waiting = 2
  MaxStamp = 5
  MaxFailures = 1
  MaxRemoved = 1
  MaxCandidates = 2
  Modes = {"titles", "hybrid", "graph", "ppr"}
  Clusters = {NoCluster, red}
  TopK = 2
  Seeds = 1
  RankSeeds = 1
  MostRows = 3
  MaxDepth = 2
  Caps = {2, 3}
CHECK_DEADLOCK FALSE
INVARIANTS
  CacheMatchesDatabase
  TraversalIsExact
  
PROPERTIES
  CacheCatchesUp
