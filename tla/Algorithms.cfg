CONSTANTS
  Unit = 144
  numHashes_ = 3
  Constants <- MCConstants
  MaxHash = 8
  IdStep = 2
SPECIFICATION MCSpec
INVARIANTS
  PathsAreShortest
  ExperimentsAgree
  StructureIsFound
  OrdersAndOptima
\* Each behaviour ends when its problem is solved.
CHECK_DEADLOCK FALSE
