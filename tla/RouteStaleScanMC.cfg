SPECIFICATION Spec
CONSTANTS
  None = None
  Loop = FALSE
  Length = 4
  Laps = 1
  GoalTolerance = 1
  Window = 3
  TriggerRange = 3
  HalfWidth = 12
  OffsetStep = 4
  Clearance = 4
  ResumeCycles = 3
  FloorSpeed = 1
  Speeds <- mcSpeeds
  Turns <- mcTurns
  SigmaSlow = 1
  SigmaStop = 3
  SigmaInf = 9
  FixTimeout = 1
  ScanStale = 1
  Scans <- mcScans
  Fixes <- mcFewFixes
  Noise <- mcNoNoise
  MaxGap = 2
  MaxPos = 4
PROPERTIES
  StaleScanStops
