CONSTANTS
  None = None
  Entry = 2
  PerDetect = 1
  Delta = 3
  Targets = {0, 2, 4}
  DefaultTarget = 4
  MaxDay = 2
  MaxSteps = 5
  MaxSyncs = 1
  MaxBacks = 1
  MaxTargets = 2
  MaxReboots = 2
  MaxFailures = 1
  MaxAll = 4
SPECIFICATION Spec
INVARIANTS AnnouncedOnceADay CountsOnlyToday WalkCreditedInFull
PROPERTIES RestartLosesLittle
