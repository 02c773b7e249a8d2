CONSTANTS
  MaxPods = 2
  Runs = {r1, r2}
  Reused = {r1}
  NoRun = NoRun
  PollLimit = 1
  MaxTries = 1
  Senders = {s1}
  Cancellers = {}
  Watchers = {}
  Openers = {o1}
  Suspenders = {u1}
  Resumers = {}
  Forwarded = {s1}
SPECIFICATION Spec
CHECK_DEADLOCK FALSE
INVARIANTS
  TakenByTheRunLookedUp

