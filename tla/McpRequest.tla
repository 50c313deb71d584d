----------------------------- MODULE McpRequest -----------------------------
(***************************************************************************)
(* mcp::request_inner and CancelOnDrop: concurrent requests on one MCP     *)
(* session, each with an optional deadline and an optional cancellation    *)
(* signal.  One poll of a request's future looks at the signal, then at    *)
(* its timer, then at the exchange, so each outcome of a poll is one       *)
(* action guarded by the ones polled before it.                            *)
(*                                                                         *)
(* The session is rmcp's: a bounded queue that a service task drains to    *)
(* the server, a oneshot per request for its response, and a transport     *)
(* that may stall for ever or close.                                       *)
(***************************************************************************)
EXTENDS Naturals, Sequences, SequencesExt

CONSTANTS Requests,     \* the calls of request_inner
          Timed,        \* those with a timeout
          Immediate,    \* those whose timeout is zero
          Cancellable,  \* those whose `cancelled` may complete
          Capacity      \* bound: the session's queue

ASSUME McpRequestAssumption ==
  /\ Timed \subseteq Requests
  /\ Immediate \subseteq Timed
  /\ Cancellable \subseteq Requests
  /\ Capacity \in Nat \ {0}

VARIABLES
  pc,         \* where each future is suspended
  outcome,    \* how it ended
  signalled,  \* the requests whose `cancelled` is ready
  due,        \* the requests whose deadline has passed
  rx,         \* the response oneshot of each request
  notifying,  \* the spawned tasks that have yet to queue a cancellation
  queue,      \* messages queued on the session
  session,    \* "open" or "closed"
  received,   \* history: the messages the server received
  muted       \* history: requests dropped outside a runtime

caller == <<pc, outcome, notifying>>
clock == <<signalled, due>>
vars == <<caller, clock, rx, queue, session, received, muted>>

Abandonments == {"cancelled", "timeout", "dropped"}

Request(r) == [method |-> "request", id |-> r]
Cancelled(r) == [method |-> "notifications/cancelled", id |-> r]

\* Everything the session was given, in order.
Stream == received \o queue

Init ==
  /\ pc = [r \in Requests |-> "unpolled"]
  /\ outcome = [r \in Requests |-> "none"]
  /\ signalled = {}
  /\ due = {}
  /\ rx = [r \in Requests |-> "empty"]
  /\ notifying = {}
  /\ queue = <<>>
  /\ session = "open"
  /\ received = <<>>
  /\ muted = {}

-----------------------------------------------------------------------------

\* Mutated: cancellation is sent without looking for a response.
GuardUnconditional(r) ==
  notifying' = IF pc[r] = "waiting" THEN notifying \cup {r} ELSE notifying

\* Mutated: nothing is cancelled when a request is given up.
GuardMissing(r) == notifying' = notifying

\* CancelOnDrop::drop, in a runtime: a task is spawned unless the response is
\* there already.  Before dispatch there is no guard.
Guard(r) ==
  notifying' = IF pc[r] = "waiting" /\ rx[r] = "empty"
               THEN notifying \cup {r}
               ELSE notifying

Return(r, how) ==
  /\ pc' = [pc EXCEPT ![r] = "returned"]
  /\ outcome' = [outcome EXCEPT ![r] = how]

Running(r) == pc[r] \in {"dispatching", "waiting"}

\* The checks before anything is awaited.
Start(r) ==
  /\ pc[r] = "unpolled"
  /\ \/ r \in signalled /\ Return(r, "cancelled")
     \/ r \notin signalled /\ r \in Immediate /\ Return(r, "timeout")
     \/ /\ r \notin signalled /\ r \notin Immediate
        /\ pc' = [pc EXCEPT ![r] = "dispatching"]
        /\ UNCHANGED outcome
  /\ UNCHANGED <<notifying, clock, rx, queue, session, received, muted>>

\* Mutated: the caller returns only when the session has room for the
\* cancellation.
ReturnCancelledInline(r) ==
  /\ Running(r)
  /\ r \in signalled
  /\ pc[r] = "waiting" => Len(queue) < Capacity
  /\ Return(r, "cancelled")
  /\ Guard(r)
  /\ UNCHANGED <<clock, rx, queue, session, received, muted>>

ReturnCancelled(r) ==
  /\ Running(r)
  /\ r \in signalled
  /\ Return(r, "cancelled")
  /\ Guard(r)
  /\ UNCHANGED <<clock, rx, queue, session, received, muted>>

\* The timer has fired.
ReturnExpired(r) ==
  /\ Running(r)
  /\ r \notin signalled
  /\ r \in due
  /\ Return(r, "timeout")
  /\ Guard(r)
  /\ UNCHANGED <<clock, rx, queue, session, received, muted>>

\* Mutated: the exchange is polled before the signal and the deadline.
DispatchUnchecked(r) ==
  /\ pc[r] = "dispatching"
  /\ session = "open"
  /\ Len(queue) < Capacity
  /\ queue' = Append(queue, Request(r))
  /\ pc' = [pc EXCEPT ![r] = "waiting"]
  /\ UNCHANGED <<outcome, notifying, clock, rx, session, received, muted>>

\* send_cancellable_request finds room in the queue; the deadline is looked at
\* once more just before.
Dispatch(r) ==
  /\ pc[r] = "dispatching"
  /\ r \notin signalled
  /\ r \notin due
  /\ session = "open"
  /\ Len(queue) < Capacity
  /\ queue' = Append(queue, Request(r))
  /\ pc' = [pc EXCEPT ![r] = "waiting"]
  /\ UNCHANGED <<outcome, notifying, clock, rx, session, received, muted>>

\* The session is gone, before dispatch or while waiting.
ReturnClosed(r) ==
  /\ r \notin signalled
  /\ \/ pc[r] = "dispatching" /\ r \notin due /\ session = "closed"
     \/ pc[r] = "waiting" /\ rx[r] = "closed"
  /\ Return(r, "closed")
  /\ UNCHANGED <<notifying, clock, rx, queue, session, received, muted>>

\* The response is taken; its timer may be due but not fired yet.
ReturnResponse(r) ==
  /\ pc[r] = "waiting"
  /\ r \notin signalled
  /\ rx[r] = "answered"
  /\ Return(r, "response")
  /\ UNCHANGED <<notifying, clock, rx, queue, session, received, muted>>

\* The caller drops the future; outside a runtime nothing can be spawned.
Abandon(r, inRuntime) ==
  /\ Running(r)
  /\ Return(r, "dropped")
  /\ IF inRuntime THEN Guard(r) ELSE UNCHANGED notifying
  /\ muted' = IF inRuntime THEN muted ELSE muted \cup {r}
  /\ UNCHANGED <<clock, rx, queue, session, received>>

\* Mutated: the queue has no limit for notifications.
NotifyUnbounded(r) ==
  /\ r \in notifying
  /\ session = "open"
  /\ queue' = Append(queue, Cancelled(r))
  /\ notifying' = notifying \ {r}
  /\ UNCHANGED <<pc, outcome, clock, rx, session, received, muted>>

\* Mutated: a notification that finds the queue full is given up.
NotifyTry(r) ==
  /\ r \in notifying
  /\ queue' = IF session = "open" /\ Len(queue) < Capacity
              THEN Append(queue, Cancelled(r))
              ELSE queue
  /\ notifying' = notifying \ {r}
  /\ UNCHANGED <<pc, outcome, clock, rx, session, received, muted>>

\* The spawned task: notify_cancelled queues the notification, or fails.
Notify(r) ==
  /\ r \in notifying
  /\ \/ session = "open" /\ Len(queue) < Capacity /\ queue' = Append(queue, Cancelled(r))
     \/ session = "closed" /\ UNCHANGED queue
  /\ notifying' = notifying \ {r}
  /\ UNCHANGED <<pc, outcome, clock, rx, session, received, muted>>

-----------------------------------------------------------------------------

\* The environment: the caller's signal, the clock, and the session.
Signal(r) ==
  /\ r \in Cancellable \ signalled
  /\ pc[r] # "returned"
  /\ signalled' = signalled \cup {r}
  /\ UNCHANGED <<caller, due, rx, queue, session, received, muted>>

Expire(r) ==
  /\ r \in Timed \ due
  /\ Running(r)
  /\ due' = due \cup {r}
  /\ UNCHANGED <<caller, signalled, rx, queue, session, received, muted>>

Transmit ==
  /\ session = "open"
  /\ queue # <<>>
  /\ received' = Append(received, Head(queue))
  /\ queue' = Tail(queue)
  /\ UNCHANGED <<caller, clock, rx, session, muted>>

\* The server answers a request it has received, cancelled or not.
Respond(r) ==
  /\ session = "open"
  /\ Request(r) \in ToSet(received)
  /\ pc[r] = "waiting"
  /\ rx[r] = "empty"
  /\ rx' = [rx EXCEPT ![r] = "answered"]
  /\ UNCHANGED <<caller, clock, queue, session, received, muted>>

Close ==
  /\ session = "open"
  /\ session' = "closed"
  /\ queue' = <<>>
  /\ rx' = [r \in Requests |-> IF rx[r] = "empty" THEN "closed" ELSE rx[r]]
  /\ UNCHANGED <<caller, clock, received, muted>>

Poll(r) ==
  \/ Start(r)
  \/ ReturnCancelled(r)
  \/ ReturnExpired(r)
  \/ Dispatch(r)
  \/ ReturnClosed(r)
  \/ ReturnResponse(r)

Next ==
  \/ \E r \in Requests :
       \/ Poll(r)
       \/ \E inRuntime \in BOOLEAN : Abandon(r, inRuntime)
       \/ Notify(r)
       \/ Signal(r)
       \/ Expire(r)
       \/ Respond(r)
  \/ Transmit
  \/ Close

Spec == Init /\ [][Next]_vars

\* The runtime polls what can make progress.  The clock, the signals and the
\* session are under no obligation.
FairSpec ==
  Spec /\ \A r \in Requests : WF_vars(Poll(r)) /\ WF_vars(Notify(r))

-----------------------------------------------------------------------------

\* The futures of request_inner, their timers and oneshots keep their types, the
\* queue its capacity, and a request has an outcome exactly when it has returned.
TypeOK ==
  /\ pc \in [Requests -> {"unpolled", "dispatching", "waiting", "returned"}]
  /\ outcome \in [Requests -> {"none", "response", "closed"} \cup Abandonments]
  /\ signalled \subseteq Cancellable
  /\ due \subseteq Timed
  /\ rx \in [Requests -> {"empty", "answered", "closed"}]
  /\ notifying \subseteq Requests
  /\ Len(queue) <= Capacity
  /\ session \in {"open", "closed"}
  /\ muted \subseteq Requests
  /\ \A r \in Requests : outcome[r] = "none" <=> pc[r] # "returned"

\* How often and where a message is in what the session was given.
Places(m) == {i \in 1..Len(Stream) : Stream[i] = m}

\* The server never sees a cancellation before its request, twice, or of a
\* request whose caller took an answer.
CancelledAtMostOnce ==
  \A r \in Requests :
    /\ \A i, j \in Places(Request(r)) : i = j
    /\ \A i, j \in Places(Cancelled(r)) : i = j
    /\ \A i \in Places(Cancelled(r)) :
         /\ \E j \in Places(Request(r)) : j < i
         /\ outcome[r] \in Abandonments
         /\ r \notin notifying
         /\ rx[r] # "answered"

\* A request given up after dispatch and before its answer is cancelled on the
\* server, or is about to be, as long as there is a runtime and a session; one
\* given up before dispatch leaves no trace.
AbandonedIsCancelled ==
  \A r \in Requests :
    outcome[r] \in Abandonments /\ session = "open" =>
      ((r \in notifying \/ Places(Cancelled(r)) # {})
        <=> (Places(Request(r)) # {} /\ rx[r] # "answered" /\ r \notin muted))

\* A ready signal or a passed deadline prevents dispatch, and a request that
\* returned is never sent.
NoLateDispatch ==
  [][\A r \in Requests :
       Places(Request(r)) = {} /\ Places(Request(r))' # {}
         => r \notin signalled /\ r \notin due /\ pc[r] # "returned"]_vars

\* A cancelled or expired call returns although the session stalls for ever.
PromptReturn ==
  \A r \in Requests : (r \in signalled \cup due) ~> (pc[r] = "returned")

\* If the session keeps draining its queue, the server learns of every
\* request that was given up.
CancellationArrives ==
  WF_vars(Transmit) =>
    \A r \in Requests :
      (r \in notifying) ~> (Cancelled(r) \in ToSet(received) \/ session = "closed")

=============================================================================
