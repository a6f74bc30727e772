CONSTANTS
  r1 = r1
  r2 = r2
  r3 = r3
  NoRun = NoRun
  Runs <- MCRuns
  Bytes <- MCBytes
  Faults <- AnyFault
SPECIFICATION Spec
INVARIANTS LostOnlyBehindStaleCursor CountIsPending
PROPERTIES OnlyItsAckRetiresARun  ImplementsFIFO
