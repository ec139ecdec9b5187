CONSTANTS
  kOps = 1
  main = main
  Producers = {p1}
  Consumers = {c1, c2}
  Threads <- MCThreads
  Values <- MCValues
  Addr = {a1, a2, a3, a4}
  nullptr = nullptr
  Nothing = Nothing
SPECIFICATION MainSpec
SYMMETRY MCSymmetry
INVARIANTS
  ValueReadIsLive
