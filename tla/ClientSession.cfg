\* up to four calls on a builder and on each request of its client
CONSTANTS
  Environments <- MCEnvironments
  BuilderCalls <- MCBuilderCalls
  RequestCalls <- MCRequestCalls
  MaxCalls = 4
SPECIFICATION Spec
INVARIANTS
  OffersWhatWasAsked
  RejectedIffUnservable
  SettingsPrecedence
\* A program may stop using a builder at any time.
CHECK_DEADLOCK FALSE
