\* A tree of semimoves that grows one node at a time and is rolled up.
SPECIFICATION RollupSpec
CONSTANTS
  start = start
  mid = mid
  split = split
  deep = deep
  dead = dead
  reply = reply
  last = last
  end = end
  over = over
  a1 = a1
  a2 = a2
  a3 = a3
  a4 = a4
  d1 = d1
  d2 = d2
  me = me
  them = them
  KEEPER = KEEPER
  Player = {me, them}
  us = me
  State <- MCState
  Nodal <- MCNodal
  InitState = start
  Action <- MCAction
  Dot = {d1, d2}
  Semimoves <- MCSemimoves
  Successor <- MCSuccessor
  Depth <- MCDepth
  Mover <- MCMover
  IS_NODAL = FALSE
  GETTER = "S"
  MIN_SIMULATIONS_FACTOR = 1
  MaxSims = 6
INVARIANTS
  VisitedFirst
  ChosenMoveLegal
PROPERTIES
  RollUpKeepsTurns
  KeepsSubtree
