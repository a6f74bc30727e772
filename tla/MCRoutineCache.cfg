CONSTANTS
  Docs <- MCDocs
  Ids = {"wash", "pack"}
  NoFile = NoFile
  Spliced = Spliced
  Overlaid = Overlaid
  Unread = Unread
  MaxSteps = 2
  NoSize = 4
  Chunks = 2
  DayMinutes = 2
  MaxPushes = 2
  MaxFailures = 1
  MaxStrays = 1
  MaxCuts = 1
SPECIFICATION Spec
INVARIANTS OnePush ArmedOnTheCache NextIsNearest
PROPERTIES RecordIsOneRoutine
CHECK_DEADLOCK FALSE
