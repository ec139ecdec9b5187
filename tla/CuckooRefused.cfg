CONSTANTS
  numNodes = 3
  MaxEvents = 5
  numReplicas = 3
  MaxIncrements = 2
  MaxCopies = 2
  Servers = {"A", "B", "C", "D"}
  Positions <- MCPositions
  VirtualNodes <- MCVirtualNodes
  NoServer = "none"
  numGossips = 5
  MaxRounds = 6
  Stream = {"u", "v", "w", "z"}
  W = 6
  hashOf <- MCHashOf
  mixOf <- MCMixOf
  bloomSize = 7
  numHashes = 2
  width = 3
  depth = 2
  b = 2
  golden = 39
  MaxCount = 3
  CuckooItems = {"a", "b1", "b2", "c1", "d"}
  numBuckets = 4
  maxKicks = 50
  hash1 <- MCHash1
  fingerprint <- MCFingerprint
  hash2 <- MCHash2
  xor <- MCXor
  MaxCopiesOf = 2
  numElectors = 4
  Timeouts = {150, 151, 152}
  numCities = 5
  dist <- MCDist
  MaxTurns = 3
SPECIFICATION MCSpec
INVARIANTS
  NoFalseNegatives
CHECK_DEADLOCK FALSE
