\* two requests whose tools are given to each of them
CONSTANTS
  Providers <- MCProviders
  Openings <- MCOpenings
  Utterances <- MCUtterances
  Configs <- MCConfigs
  ToolNames <- MCToolNames
  Bodies <- MCBodies
  MaxRequests = 2
SPECIFICATION Spec
INVARIANT
  EachTurnReadsTheCache
\* A conversation ends with its last request, or fails.
CHECK_DEADLOCK FALSE
