\* A tree of single actions that adds whole turns at once.
SPECIFICATION Spec
CONSTANTS
  start = start
  mid = mid
  split = split
  deep = deep
  dead = dead
  reply = reply
  last = last
  end = end
  stuck = stuck
  over = over
  a1 = a1
  a2 = a2
  a3 = a3
  a4 = a4
  d1 = d1
  d2 = d2
  me = me
  them = them
  KEEPER = KEEPER
  Player = {me, them}
  us = me
  State <- MCState
  Nodal <- MCNodal
  InitState = start
  Action <- MCAction
  Dot = {d1, d2}
  Semimoves <- MCSemimoves
  Successor <- MCSuccessor
  Depth <- MCDepth
  Mover <- MCMover
  IS_NODAL = TRUE
  GETTER = "A"
  MaxSims = 5
INVARIANTS
  TypeOK
  EdgesCoverMoves
  StatusesTrue
  VisitsConserved
PROPERTIES
  KeepsSubtree
  ImplementsSearchTree
