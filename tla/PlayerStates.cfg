\* Opponents move first; a fixed number of states per request, none on their turns.
SPECIFICATION Spec
CONSTANTS
  p0 = p0
  p1 = p1
  p2 = p2
  p3 = p3
  over = over
  a = a
  b = b
  NoMove = NoMove
  Position <- MCPosition
  InitPos = p0
  Move <- MCMove
  Status <- SecondStatus
  Legal <- MCLegal
  After <- MCAfter
  MaxVisits = 3
  LimitKind = "states"
  MoveBudget = 3
  MaxStates = 2
  SIMULATE_DURING_OPP_TURN = FALSE
  MaxInFlight = 3
INVARIANTS
  Agreement
PROPERTIES
  GameRestarts
