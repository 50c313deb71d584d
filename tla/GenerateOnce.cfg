\* generate_once() against a provider that fails once
CONSTANTS
  add = add
  unknown = unknown
  c1 = c1
  c2 = c2
  Entry = "generate_once"
  Names <- MCNames
  CallIds <- MCCallIds
  Registered <- MCRegistered
  Base <- MCBase
  MaxRetries = 3
  MaxRounds = 2
  MaxCalls = 1
SPECIFICATION Spec
INVARIANTS
  OneProviderCall
\* A generate() call ends: its last state has no successor.
CHECK_DEADLOCK FALSE
