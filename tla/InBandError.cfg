\* a provider that reports an error as a payload of the body
CONSTANTS
  Ids <- MCIds
  Strings <- MCStrings
  ValidArgs <- MCValidArgs
  Counts <- MCCounts
  MaxCount = 3
  Frames <- MCFailingFrames
  MaxFrames = 3
SPECIFICATION Spec
INVARIANT
  FailuresReachTheClient
\* A streamed generation ends: its last state has no successor.
CHECK_DEADLOCK FALSE
