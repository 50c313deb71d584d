\* conversations of up to three requests
CONSTANTS
  Providers <- MCProviders
  Openings <- MCOpenings
  Utterances <- MCUtterances
  Configs <- MCConfigs
  ToolNames <- MCToolNames
  Bodies <- MCBodies
  MaxRequests = 3
SPECIFICATION Spec
INVARIANTS
  TypeOK
  CachedPrefixIsStable
  BreakpointsArePlaced
  NothingIsLost
\* A conversation ends with its last request, or fails.
CHECK_DEADLOCK FALSE
