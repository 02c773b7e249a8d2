CONSTANTS
  r1 = r1
  r2 = r2
  Runs = {r1, r2}
  Shorts = {i1, i2}
  PrefixMax = 2
  NameMax = 2
  Paths = {"/a", "/dev/kvm"}
  BadPaths = {"rel"}
  NoTimeout = NoTimeout
  Bits = 4
  LastDate = 5
  Clock = {1}
  ContextNamespace <- MCContextNamespace
  Workloads <- MCWorkloads
SYMMETRY Symmetry
SPECIFICATION Spec
CHECK_DEADLOCK FALSE
INVARIANT StrategyIsKept
