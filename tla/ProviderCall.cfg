\* calls of up to three retries
CONSTANTS
  Providers <- MCProviders
  Policies <- MCPolicies
  Statuses <- MCStatuses
  OlderKinds <- MCOlderKinds
SPECIFICATION Spec
INVARIANTS
  CapabilitiesAreRespected
  WaitsAreBounded
  ErrorsSurviveTheWire
\* A call ends: its last state has no successor.
CHECK_DEADLOCK FALSE
