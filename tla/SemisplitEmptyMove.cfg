\* Single actions, one new node per simulation: a path may stop in a split point.
SPECIFICATION Spec
CONSTANTS
  start = start
  mid = mid
  split = split
  deep = deep
  dead = dead
  reply = reply
  last = last
  end = end
  stuck = stuck
  over = over
  a1 = a1
  a2 = a2
  a3 = a3
  a4 = a4
  d1 = d1
  d2 = d2
  me = me
  them = them
  KEEPER = KEEPER
  Player = {me, them}
  us = me
  State <- MCState
  Nodal <- MCNodal
  InitState = start
  Action <- MCAction
  Dot = {d1, d2}
  Semimoves <- MCSemimoves
  Successor <- MCSuccessor
  Depth <- MCDepth
  Mover <- MCMover
  IS_NODAL = FALSE
  GETTER = "A"
  MaxSims = 4
INVARIANTS
  ChosenMoveLegal
