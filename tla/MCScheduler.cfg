CONSTANTS
  a = a
  b = b
  Routines <- MCRoutines
  Caches <- TwoCaches
  Minute = 2
  Grace = 2
  Repeat = 1
  MaxRings = 2
  BusyRetry = 2
  ResyncCap = 4
  Lookback = 4
  UnsetPoll = 1
  MaxSkip = 2
  SearchGuard = 3
  ClockValues = {0, 3}
  ClockStepsBack = TRUE
  MaxTime = 8
  MaxSyncs = 1
  MaxPushes = 1
  MaxStarts = 1
  MaxReboots = 1
  MaxUnsaved = 1
  MaxUnread = 1
  MaxTorn = 1
  MaxAll = 2
SPECIFICATION Spec
INVARIANTS SkipHidesOnlyHandled NeverOversleeps
PROPERTIES RingsInItsWindow FiredAtMostOnce NothingIsPassedOver EveryDueOccurrenceIsHandled
CHECK_DEADLOCK FALSE
