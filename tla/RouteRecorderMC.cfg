SPECIFICATION Spec
CONSTANTS
  None = None
  Sources <- mcSources
  WantLoop = TRUE
  Tolerance = 0
  SampleDist = 1
  MinStations = 2
  Arm = 2
  FixedSigma = 5
  FloatSigma = 50
  SigmaInf = 999
  Places <- mcPlaces
  Headings <- mcOneWay
  Fixes <- mcFixes
  MaxStations = 3
  MaxDiscards = 2
CHECK_DEADLOCK FALSE
INVARIANTS
  SavePairsStations
  RouteUsable
  FaultNeedsDiscard
  DiscardStartsOver
