CONSTANTS
  kOps = 1
  main = main
  Producers = {p1, p2}
  Consumers = {c1, c2}
  Threads <- MCThreads
  Values <- MCValues
  Addr = {a1, a2, a3, a4, a5}
  nullptr = nullptr
  Nothing = Nothing
SPECIFICATION MainSpec
SYMMETRY MCSymmetry
INVARIANTS
  TailOnList
  NeverEmptyWhileConsuming
  FinalTotal
PROPERTIES
  ImplementsFifo
  ReturnsFront
