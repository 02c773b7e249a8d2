CONSTANTS
  Ports = {p1, p2}
  NoPort = NoPort
  ParseTicks = 2
  ProbeTicks = 2
SPECIFICATION Spec
CHECK_DEADLOCK FALSE
INVARIANTS
  HandleKeepsChildAlive
