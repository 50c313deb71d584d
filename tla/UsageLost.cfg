\* a body that breaks after usage was reported
CONSTANTS
  Ids <- MCIds
  Strings <- MCStrings
  ValidArgs <- MCValidArgs
  Counts <- MCCounts
  MaxCount = 3
  Frames <- MCFailingFrames
  MaxFrames = 3
SPECIFICATION Spec
INVARIANT
  UsageIsReported
\* A streamed generation ends: its last state has no successor.
CHECK_DEADLOCK FALSE
