CONSTANTS
  Threads = {t1, t2}
  Values = {u, v}
  Addr = {a1, a2, a3}
  nullptr = nullptr
  Nothing = Nothing
  MaxCalls = 3
SPECIFICATION FairSpec
INVARIANTS
  OneOwner
  SwapOutIsCurrent
PROPERTIES
  Linearizable
  CallsReturn
CHECK_DEADLOCK FALSE
