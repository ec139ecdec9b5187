CONSTANTS
  Workers = {t1, t2, t3}
  kIncrements = 3
SPECIFICATION FairSpinSpec
INVARIANTS
  NoLostUpdate
PROPERTIES
  MainReturns
