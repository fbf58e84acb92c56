SPECIFICATION BenchSpec
CONSTANTS
  Subcommands <- mcSubcommands
  Typed <- mcTyped
  MaxTyped = 2
  MaxRows = 1
  MaxBacklog = 3
  Start <- mcStart
  Side = "L"
  Cycles = 2
  StepTargets = 2
  NRepeats = 2
  Captures <- mcCaptures
INVARIANTS
  AnswersMatch
  StopLast
  BestOfSearch
  BestInForce
PROPERTIES
  ClientReturns
