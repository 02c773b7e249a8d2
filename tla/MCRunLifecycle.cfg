CONSTANTS
  LogTries = 2
  NoStatus = NoStatus
SPECIFICATION FairSpec
CHECK_DEADLOCK FALSE
INVARIANTS
  TypeOK
  RefusedLeavesNothing
  OutcomeIsTrue
  PrintedRunHasSecrets
PROPERTIES
  PrintedRunStarts
  RmStopsTheRun
  RemovedForGood
  OutcomeStays
  LogsEnd
