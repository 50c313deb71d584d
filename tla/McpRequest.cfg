\* a queue of one message, and a request for each kind of option
CONSTANTS
  r1 = r1
  r2 = r2
  r3 = r3
  Requests <- MCRequests
  Timed <- MCTimed
  Immediate <- MCImmediate
  Cancellable <- MCCancellable
  Capacity = 1
SPECIFICATION FairSpec
INVARIANTS
  TypeOK
  CancelledAtMostOnce
  AbandonedIsCancelled
PROPERTIES
  NoLateDispatch
  PromptReturn
  CancellationArrives
\* All requests may have returned and the session closed.
CHECK_DEADLOCK FALSE
