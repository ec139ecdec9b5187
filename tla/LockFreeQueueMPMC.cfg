CONSTANTS
  Threads = {t1, t2}
  Values = {u, v, w}
  Addr = {a1, a2, a3}
  nullptr = nullptr
  Nothing = Nothing
SPECIFICATION Spec
INVARIANTS
  NothingLost
CHECK_DEADLOCK FALSE
