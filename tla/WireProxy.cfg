\* bodies of up to three frames
CONSTANTS
  Ids <- MCIds
  Strings <- MCStrings
  ValidArgs <- MCValidArgs
  Counts <- MCCounts
  MaxCount = 3
  Frames <- MCFrames
  MaxFrames = 3
SPECIFICATION FairSpec
INVARIANTS
  TypeOK
  WireGrammar
  NoSilentTruncation
  ProxyIsTransparent
  CallsDelivered
  TotalsAgree
PROPERTY
  Settles
\* A streamed generation ends: its last state has no successor.
CHECK_DEADLOCK FALSE
