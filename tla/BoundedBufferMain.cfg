CONSTANTS
  kProducers = 2
  kItemsPerProducer = 2
  Producers <- MCProducers
  Consumers = {c1, c2}
  Items <- MCItems
  capacity_ = 1
SPECIFICATION MainSpec
INVARIANTS
  NoLostWakeup
  TicketsMatchPops
  NothingLostOrDoubled
PROPERTIES
  ImplementsChannel
  MainReturns
