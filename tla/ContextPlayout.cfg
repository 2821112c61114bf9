\* Playouts from every turn, one after the other.
SPECIFICATION Spec
CONSTANTS
  start = start
  mid1 = mid1
  mid2 = mid2
  split = split
  far1 = far1
  far2 = far2
  dead = dead
  stuck = stuck
  reply = reply
  answer = answer
  last = last
  over = over
  a1 = a1
  a2 = a2
  a3 = a3
  b1 = b1
  b2 = b2
  c1 = c1
  c2 = c2
  d1 = d1
  w1 = w1
  w2 = w2
  w3 = w3
  me = me
  them = them
  KEEPER = KEEPER
  Player = {me, them}
  State <- MCState
  Nodal <- MCNodal
  InitState = start
  Action <- MCAction
  Dot = {d1}
  Switch = {w1, w2, w3}
  Semimoves <- MCSemimoves
  Successor <- MCSuccessor
  Depth <- MCDepth
  Mover <- MCMover
  HASH_PRIMES <- MCPrimes
  HASH_OVERLOAD_FACTOR = 2
  HASHMAP_INITIAL_LEVEL = 1
  Code <- MCCode
  MaxPlayouts = 3
\* playouts come to their bound
CHECK_DEADLOCK FALSE
INVARIANTS
  ContextNamesTurn
  ScoresInContext
