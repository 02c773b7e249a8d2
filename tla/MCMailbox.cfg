CONSTANTS
  MaxPods = 1
  Runs = {r1}
  Reused = {}
  NoRun = NoRun
  PollLimit = 1
  MaxTries = 1
  Senders = {s1, s2}
  Cancellers = {k1}
  Watchers = {}
  Openers = {}
  Suspenders = {}
  Resumers = {}
  Forwarded = {}
SPECIFICATION Spec
CHECK_DEADLOCK FALSE
SYMMETRY Symmetry
INVARIANTS
  AtMostOnce
  OkMeansAccepted
  ErrorMeansNotAccepted
PROPERTIES
  MailboxSpec
  CancelIsFinal
