\* We move first; a fixed number of simulations per request.
SPECIFICATION Spec
CONSTANTS
  p0 = p0
  p1 = p1
  p2 = p2
  p3 = p3
  over = over
  a = a
  b = b
  NoMove = NoMove
  Position <- MCPosition
  InitPos = p0
  Move <- MCMove
  Status <- FirstStatus
  Legal <- MCLegal
  After <- MCAfter
  MaxVisits = 4
  LimitKind = "simulations"
  MoveBudget = 2
  MaxStates = 1
  SIMULATE_DURING_OPP_TURN = TRUE
  MaxInFlight = 2
INVARIANTS
  TypeOK
  AskedOnce
  Lockstep
  TurnDiscipline
  SomeChildVisited
PROPERTIES
  KeepsContract
