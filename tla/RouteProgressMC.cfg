SPECIFICATION FairSpec
CONSTANTS
  None = None
  Loop = TRUE
  Length = 5
  Laps = 1
  GoalTolerance = 1
  Window = 2
  TriggerRange = 3
  HalfWidth = 8
  OffsetStep = 2
  Clearance = 6
  ResumeCycles = 2
  FloorSpeed = 1
  Speeds <- mcOneSpeed
  Turns <- mcStraight
  SigmaSlow = 1
  SigmaStop = 3
  SigmaInf = 9
  FixTimeout = 0
  ScanStale = 1
  Scans <- mcWalls
  Fixes <- mcTwoFixes
  Noise <- mcNoiseBack
  MaxGap = 2
  MaxPos = 7
INVARIANTS
  ProgressIsReal
PROPERTIES
  PatrolEnds
  ReturnsToLane
