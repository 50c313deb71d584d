\* three calls over one permit
CONSTANTS
  k1 = k1
  k2 = k2
  k3 = k3
  s = s
  t = t
  Calls <- MCCalls
  Tools <- MCTools
  ToolOf <- MCToolOf
  Timed <- MCTimed
  Cancellable <- MCCancellable
  Permits = 1
SPECIFICATION FairSpec
INVARIANTS
  TypeOK
  JobsAreBounded
  CompiledOnce
  OnlyValidResults
PROPERTIES
  PermitsAreKept
  PromptReturn
  FlightsLand
\* All calls may have returned.
CHECK_DEADLOCK FALSE
