\* Two producers that block, one consumer.
SPECIFICATION Spec
CONSTANTS
  p = p
  b1 = b1
  b2 = b2
  c1 = c1
  c2 = c2
  Nobody = Nobody
  Producers <- NoThreads
  BoundedProducers <- TwoBounded
  Consumers <- OneConsumer
  Limit = 1
  Quota = 2
\* when the producers have used up their calls, consumers sleep
CHECK_DEADLOCK FALSE
INVARIANTS
  TypeOK
  SeenStaysTrue
  Bounded
PROPERTIES
  CallsReturn
