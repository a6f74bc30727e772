CONSTANTS
  NoWindow = NoWindow
  Disabled = NoWindow
  Default <- MCDefault
  Depth = 2
  Chunks = 2
  DayMinutes = 3
  Volumes = {0, 2}
  Windows <- MCWindows
  MaxRequests = 3
  MaxPolicies = 1
  MaxReboots = 1
SPECIFICATION Spec
PROPERTIES NothingSilencedSounds OnlyALaterStopCuts AlarmIsHeard QuietHoursCapTheVolume
CHECK_DEADLOCK FALSE
