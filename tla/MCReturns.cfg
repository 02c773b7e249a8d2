CONSTANTS
  MaxPods = 1
  Runs = {r1}
  Reused = {}
  NoRun = NoRun
  PollLimit = 1
  MaxTries = 2
  Senders = {}
  Cancellers = {}
  Watchers = {w1}
  Openers = {o2}
  Suspenders = {}
  Resumers = {v1}
  Forwarded = {w1, o2}
SPECIFICATION FairSpec
CHECK_DEADLOCK FALSE
PROPERTIES
  EveryCommandReturns
  CommandsAdvance
