\* One player's tree through the simulations and moves of whole games.
SPECIFICATION Spec
CONSTANTS
  start = start
  reply = reply
  last = last
  stuck = stuck
  over = over
  m1 = m1
  m2 = m2
  m3 = m3
  us = us
  them = them
  KEEPER = KEEPER
  Player = {us, them}
  Position <- MCPosition
  InitPos = start
  Move <- MCMove
  Status <- MCStatus
  Legal <- MCLegal
  After <- MCAfter
  Mover <- MCMover
  Score = {0, 1}
  Outcome <- MCOutcome
  MaxSims = 6
INVARIANTS
  TypeOK
  TreeShape
  EdgesAreMoves
  VisitedFirst
  VisitsConserved
  RankingOptimal
PROPERTIES
  KeepsSubtree
  ImplementsSearchTree
