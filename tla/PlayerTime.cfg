\* We move first; simulations until the next message arrives.
SPECIFICATION Spec
CONSTANTS
  p0 = p0
  p1 = p1
  p2 = p2
  p3 = p3
  over = over
  a = a
  b = b
  NoMove = NoMove
  Position <- MCPosition
  InitPos = p0
  Move <- MCMove
  Status <- FirstStatus
  Legal <- MCLegal
  After <- MCAfter
  MaxVisits = 3
  LimitKind = "time"
  MoveBudget = 1
  MaxStates = 1
  SIMULATE_DURING_OPP_TURN = TRUE
  MaxInFlight = 3
\* the process ends when it has nothing to choose from
CHECK_DEADLOCK FALSE
INVARIANTS
  VariantsMatch
PROPERTIES
  Answered
  KeepsContractSafely
