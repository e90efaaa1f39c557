SPECIFICATION SetupSpec
CONSTANTS
  Configurations <- MCConfigurations
  Changing <- MCChanging
  MaxDepth = 4
  People <- MCPeople
  Invalid <- MCInvalid
INVARIANTS SetupTypeOK Verdict TopLevel LoadedOnce EveryoneKnown CutFileIsHarmless
PROPERTIES StartupEnds ImplementsIteration
\* The server has started or it has not.
CHECK_DEADLOCK FALSE
