SPECIFICATION BaseSpec
CONSTANTS
  Preamble = 3
  Reserved = {2, 3}
  HiStep = 4
  Crc <- MCCrc
  Streams <- MCStreams
  StationKinds = {3}
  AntennaKind = 1
  StationMin = 4
  AntennaMin = 2
  CountAt = 2
  RoundBases = {}
  NullAntennas <- MCNullAntennas
  ToolRole = "serial"
  Depth = 1
  MaxHeard = 2
  BackoffMin = 1
  BackoffMax = 3
CHECK_DEADLOCK FALSE
INVARIANTS
  ConnectionOwned
  BaseReported
PROPERTIES
  ImplementsFeed
