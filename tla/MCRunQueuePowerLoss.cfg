CONSTANTS
  r1 = r1
  r2 = r2
  r3 = r3
  NoRun = NoRun
  Runs <- MCRuns
  Bytes <- MCBytes
  Faults <- OnlyPowerLoss
SPECIFICATION Spec
INVARIANT NoReportedRunLost
