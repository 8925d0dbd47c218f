\* Two producers of two samples each, two competing consumers, room for two.
CONSTANTS
  p1 = p1
  p2 = p2
  c1 = c1
  c2 = c2
  Producers <- MCProducers
  Consumers <- MCConsumers
  MaxQueueSize = 2
  MaxPuts = 2
SPECIFICATION FairSpec
INVARIANTS Accounted NoLostWakeup
PROPERTIES ReleasedByShutdown ImplementsLossy
CHECK_DEADLOCK FALSE
