CONSTANTS
  Ports = {p1, p2}
  NoPort = NoPort
  ParseTicks = 3
  ProbeTicks = 2
SPECIFICATION Spec
CHECK_DEADLOCK FALSE
INVARIANTS
  TypeOK
  PortIsTheChilds
  DropLeavesNothing
PROPERTIES
  OpenEnds
