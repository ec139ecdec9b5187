CONSTANTS
  n = 7
  Roads <- MCRoads
  haversine <- MCHaversine
  gridW_ = 1
  gridH_ = 2
  latMin_ = 0
  latMax_ = 200
  lonMin_ = 0
  lonMax_ = 1
  budget_ = 20
  Shift = 8
  size_ = 8
  k_ = 2
  hash <- MCHash
  lat <- X
  lon <- MCLon
  Queries <- MCQueries
  MaxQueries = 5
SPECIFICATION ServerSpec
INVARIANTS
  RoutesWithinAlpha
  ParentsDescend
  BloomNeverForgets
  Accounting
  ExcessNeverNegative
PROPERTIES
  AnswersRepeat
  QueryAnswered
CHECK_DEADLOCK FALSE
