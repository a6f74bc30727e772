CONSTANTS
  a = a
  b = b
  Routines <- MCRoutines
  Caches <- MCCaches
  MaxPushes = 1
  MaxOffers = 1
  MaxHolds = 0
  MaxAtWork = 1
SPECIFICATION Spec
INVARIANT ActiveIsOnScreen
CHECK_DEADLOCK FALSE
