CONSTANTS
  MaxPods = 3
  Runs = {r1, r2, r3}
  Reused = {r1}
  PollLimit = 2
SPECIFICATION PodSpec
INVARIANTS
  PodTypeOK
  OneLoadPerPod
  WaitingMeansLoaded
PROPERTIES
  BootEnds
  BootAdvances
  GenerationsSpec
