SPECIFICATION FairSpec
CONSTANTS
  Version = "auto"
  SendGga = TRUE
  GgaPeriod = 4
  RtcmTimeout = 3
  MaxNap = 2
  BackoffMin = 1
  BackoffMax = 2
CHECK_DEADLOCK FALSE
INVARIANTS
  TypeOK
  DescriptorOwned
  SessionBytes
PROPERTIES
  StallIsReal
  CorrectionsFlow
  DestructorReturns
