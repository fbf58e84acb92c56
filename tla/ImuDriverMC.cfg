SPECIFICATION FairSpec
CONSTANTS
  None = None
  PublishEveryN = 2
  ExpectedSamples = 1
  Samples <- mcSamples
  Attempts = 2
  MaxLine = 2
  MaxActivations = 2
CHECK_DEADLOCK FALSE
INVARIANTS
  LifecycleOwnsIo
  MeanOfOneActivation
PROPERTIES
  DeadStreamReported
  CallsReturn
