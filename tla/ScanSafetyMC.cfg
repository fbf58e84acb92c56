SPECIFICATION Spec
CONSTANTS
  None = None
  Scans <- mcScans
  Cmds <- mcCmds
  HalfAngle = 30
  ForwardOffset = 180
  StopDistance = 50
  MinRange = 6
  ScanTimeout = 3
  CmdTimeout = 3
  ControlPeriod = 2
  Watchdog = 3
  AgeCap = 11
INVARIANTS
  TypeOK
  BrakeLatency
  DeadSourceSilence
  BackOut
PROPERTIES
  GateSound
