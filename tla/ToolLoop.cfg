\* two rounds of up to two calls, one retry
CONSTANTS
  add = add
  unknown = unknown
  c1 = c1
  c2 = c2
  Entry = "generate"
  Names <- MCNames
  CallIds <- MCCallIds
  Registered <- MCRegistered
  Base <- MCBase
  MaxRetries = 1
  MaxRounds = 2
  MaxCalls = 2
SPECIFICATION FairSpec
INVARIANTS
  TypeOK
  WellFormedPrompt
  EffectsAccounted
  RetryDiscipline
  RequestBudget
PROPERTIES
  ImplementsConversation
  Terminates
\* A generate() call ends: its last state has no successor.
CHECK_DEADLOCK FALSE
