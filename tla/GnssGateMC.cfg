SPECIFICATION Spec
CONSTANTS
  NoField = NoField
  Report <- MCReport
  Mode = "rover"
  Unlogall = TRUE
  Save = FALSE
  OutputMessages <- MCOutputMessages
  MinHeadingQuality = 1
  GstStale = 2
  MaxSigma = 5
  Inflation = 1000
  RejectNoFix = TRUE
  YawOffset <- MCYawOffset
  Invert = FALSE
CHECK_DEADLOCK FALSE
PROPERTIES
  GateTruth
