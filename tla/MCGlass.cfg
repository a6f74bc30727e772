CONSTANTS
  a = a
  b = b
  Routines <- MCRoutines
  Caches <- MCCaches
  MaxPushes = 1
  MaxOffers = 2
  MaxHolds = 1
  MaxAtWork = 2
SPECIFICATION BootsPaired
INVARIANTS CoverIsNoticed  NeverBlankedMidStep
PROPERTIES StartsWhatIsShown OfferIsShown
CHECK_DEADLOCK FALSE
