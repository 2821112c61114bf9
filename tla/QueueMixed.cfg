\* Every operation at once.
SPECIFICATION Spec
CONSTANTS
  p = p
  b1 = b1
  b2 = b2
  c1 = c1
  c2 = c2
  Nobody = Nobody
  Producers <- OneProducer
  BoundedProducers <- TwoBounded
  Consumers <- TwoConsumers
  Limit = 1
  Quota = 1
\* when the producers have used up their calls, consumers sleep
CHECK_DEADLOCK FALSE
INVARIANTS
  NoWakeUpLost
PROPERTIES
  KeepsFifo
