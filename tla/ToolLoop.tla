------------------------------ MODULE ToolLoop ------------------------------
(***************************************************************************)
(* One `generate()` or `generate_once()` call.  `generate()` is            *)
(* `Client::generate_with_tools` driving `with_retry` around each provider *)
(* request and `ToolRegistry::execute` for each tool call the provider     *)
(* makes; `generate_once()` is one `with_retry` and runs no tool.  Every   *)
(* `.await` is a place where the provider or a handler may take any time   *)
(* and where the caller may drop the future, so the steps between two      *)
(* awaits are one action.                                                  *)
(*                                                                         *)
(* The provider and the handlers are the environment: a request ends in    *)
(* any response or any error, a handler succeeds or fails.  Message text,  *)
(* arguments and delays are left out; nothing below depends on them.       *)
(***************************************************************************)
EXTENDS Naturals, Sequences

CONSTANTS Entry,        \* the method called: "generate" or "generate_once"
          CallIds,      \* provider-assigned tool-call identifiers
          Names,        \* tool names the model may ask for
          Registered,   \* the names in the request's ToolRegistry
          Base,         \* the messages of the caller's prompt
          MaxRetries,   \* RetryConfig.max_retries
          MaxRounds,    \* GenerationConfig::tool_round_limit()
          MaxCalls      \* bound: tool calls in one response

VARIABLES
  pc,        \* where the future is suspended, or how it ended
  round,     \* `round` of the tool loop
  attempt,   \* `attempt` of the with_retry in progress
  prompt,    \* prompt_with_tools.messages
  calls,     \* tool_calls of the response being served
  next,      \* index in calls of the call being executed; 0 outside a round
  error,     \* the error returned, "none" while there is none
  requests,  \* history: requests sent to the provider
  faults,    \* history: errors seen by the with_retry in progress
  effects    \* history: the handler runs, by the prompt slot of their answer

vars == <<pc, round, attempt, prompt, calls, next, error,
          requests, faults, effects>>

Call == [id : CallIds, name : Names]

\* Error::is_retryable; it also names Timeout, which no provider constructs.
Retryable == {"rate_limit", "http"}
ProviderErrors == Retryable \cup
  {"auth", "invalid_request", "request", "provider_not_configured"}
Errors == ProviderErrors \cup {"tool_not_found", "tool_loop_limit"}

\* A response's tool calls, at most MaxCalls of them.
Responses == UNION {[1..n -> Call] : n \in 0..MaxCalls}

Assistant(cs) == [role |-> "assistant", calls |-> cs]
ToolMessage(id, failed) == [role |-> "tool", id |-> id, error |-> failed]

Message == [role : {"user"}]
             \cup [role : {"assistant"}, calls : Seq(Call)]
             \cup [role : {"tool"}, id : CallIds, error : BOOLEAN]

ASSUME ToolLoopAssumption ==
  /\ Entry \in {"generate", "generate_once"}
  /\ Registered \subseteq Names
  /\ MaxRetries \in Nat
  /\ MaxRounds \in Nat
  /\ MaxCalls \in Nat
  /\ Base \in Seq(Message)

\* Whether tool calls are executed here: a response of generate_once() and of
\* a generate() without tools is returned as it is.
WithTools == Entry = "generate" /\ Registered # {}

Ended == {"answered", "failed", "dropped"}

-----------------------------------------------------------------------------

Init ==
  /\ pc = IF WithTools THEN "loop" ELSE "request"
  /\ round = 0
  /\ attempt = 0
  /\ prompt = Base
  /\ calls = <<>>
  /\ next = 0
  /\ error = "none"
  /\ requests = 0
  /\ faults = <<>>
  /\ effects = <<>>

Fail(e) ==
  /\ pc' = "failed"
  /\ error' = e

\* Mutated: `0..=max_rounds`.
BeginRoundInclusive ==
  /\ pc = "loop"
  /\ IF round <= MaxRounds
     THEN pc' = "request" /\ UNCHANGED error
     ELSE Fail("tool_loop_limit")
  /\ attempt' = 0
  /\ faults' = <<>>
  /\ UNCHANGED <<round, prompt, calls, next, requests, effects>>

\* `for round in 0..max_rounds`: another round, or ToolLoopLimitExceeded.
BeginRound ==
  /\ pc = "loop"
  /\ IF round < MaxRounds
     THEN pc' = "request" /\ UNCHANGED error
     ELSE Fail("tool_loop_limit")
  /\ attempt' = 0
  /\ faults' = <<>>
  /\ UNCHANGED <<round, prompt, calls, next, requests, effects>>

\* The provider answers.  Without tool calls, or without a registry to run
\* them, the response is the result; otherwise the round's tools come next.
ProviderAnswers(cs) ==
  /\ pc = "request"
  /\ requests' = requests + 1
  /\ IF WithTools /\ cs # <<>>
     THEN /\ pc' = "tools"
          /\ prompt' = Append(prompt, Assistant(cs))
          /\ calls' = cs
          /\ next' = 1
     ELSE /\ pc' = "answered"
          /\ UNCHANGED <<prompt, calls, next>>
  /\ UNCHANGED <<round, attempt, error, faults, effects>>

\* Mutated: every error is retried.
ProviderFailsRetriesAll(e) ==
  /\ pc = "request"
  /\ requests' = requests + 1
  /\ faults' = Append(faults, e)
  /\ IF attempt = MaxRetries
     THEN Fail(e)
     ELSE pc' = "backoff" /\ UNCHANGED error
  /\ UNCHANGED <<round, attempt, prompt, calls, next, effects>>

\* Mutated: `attempt > max_retries`.
ProviderFailsOneMore(e) ==
  /\ pc = "request"
  /\ requests' = requests + 1
  /\ faults' = Append(faults, e)
  /\ IF e \notin Retryable \/ attempt > MaxRetries
     THEN Fail(e)
     ELSE pc' = "backoff" /\ UNCHANGED error
  /\ UNCHANGED <<round, attempt, prompt, calls, next, effects>>

\* The request fails: returned at once when it is not retryable or this was
\* the last attempt, slept on otherwise.
ProviderFails(e) ==
  /\ pc = "request"
  /\ requests' = requests + 1
  /\ faults' = Append(faults, e)
  /\ IF e \notin Retryable \/ attempt = MaxRetries
     THEN Fail(e)
     ELSE pc' = "backoff" /\ UNCHANGED error
  /\ UNCHANGED <<round, attempt, prompt, calls, next, effects>>

\* The sleep ends and the operation runs again.
Retry ==
  /\ pc = "backoff"
  /\ pc' = "request"
  /\ attempt' = attempt + 1
  /\ UNCHANGED <<round, prompt, calls, next, error, requests, faults, effects>>

\* Mutated: a failed tool leaves no message, as if its error were swallowed.
AnswerCallDroppingErrors(failed) ==
  /\ prompt' = IF failed THEN prompt
               ELSE Append(prompt, ToolMessage(calls[next].id, failed))
  /\ IF next = Len(calls)
     THEN /\ pc' = "loop"
          /\ round' = round + 1
          /\ calls' = <<>>
          /\ next' = 0
     ELSE /\ pc' = "tools"
          /\ next' = next + 1
          /\ UNCHANGED <<round, calls>>

\* Mutated: the round ends after its first call.
AnswerCallOnce(failed) ==
  /\ prompt' = Append(prompt, ToolMessage(calls[next].id, failed))
  /\ pc' = "loop"
  /\ round' = round + 1
  /\ calls' = <<>>
  /\ next' = 0

\* A call is answered with a tool message; after the last one the round ends.
AnswerCall(failed) ==
  /\ prompt' = Append(prompt, ToolMessage(calls[next].id, failed))
  /\ IF next = Len(calls)
     THEN /\ pc' = "loop"
          /\ round' = round + 1
          /\ calls' = <<>>
          /\ next' = 0
     ELSE /\ pc' = "tools"
          /\ next' = next + 1
          /\ UNCHANGED <<round, calls>>

\* Mutated: a call of an unknown tool is skipped, and the loop stays on it.
UnknownToolSkipped ==
  /\ pc = "tools"
  /\ calls[next].name \notin Registered
  /\ UNCHANGED vars

\* The registry has no such tool: the whole generation fails.
UnknownTool ==
  /\ pc = "tools"
  /\ calls[next].name \notin Registered
  /\ Fail("tool_not_found")
  /\ UNCHANGED <<round, attempt, prompt, calls, next, requests, faults, effects>>

\* The arguments fail the tool's schema: the handler does not run and the
\* model is told.
RejectArguments ==
  /\ pc = "tools"
  /\ calls[next].name \in Registered
  /\ AnswerCall(TRUE)
  /\ UNCHANGED <<attempt, error, requests, faults, effects>>

\* The handler starts; from here on its side effects may happen.
StartHandler ==
  /\ pc = "tools"
  /\ calls[next].name \in Registered
  /\ pc' = "running"
  /\ effects' = Append(effects, Len(prompt) + 1)
  /\ UNCHANGED <<round, attempt, prompt, calls, next, error, requests, faults>>

\* Mutated: a failed handler is run again, as a request would be.
FinishHandlerRetrying(failed) ==
  /\ pc = "running"
  /\ IF failed
     THEN pc' = "tools" /\ UNCHANGED <<prompt, round, calls, next>>
     ELSE AnswerCall(failed)
  /\ UNCHANGED <<attempt, error, requests, faults, effects>>

\* The handler returns; a failure becomes a tool-error message.
FinishHandler(failed) ==
  /\ pc = "running"
  /\ AnswerCall(failed)
  /\ UNCHANGED <<attempt, error, requests, faults, effects>>

\* The caller drops the future at an await point.
Drop ==
  /\ pc \in {"request", "backoff", "running"}
  /\ pc' = "dropped"
  /\ UNCHANGED <<round, attempt, prompt, calls, next, error,
                 requests, faults, effects>>

\* The steps whose timing the provider decides.
ProviderReplies ==
  \/ \E cs \in Responses : ProviderAnswers(cs)
  \/ \E e \in ProviderErrors : ProviderFails(e)

\* The steps a polled future takes without waiting for anyone.
ServeCall == UnknownTool \/ RejectArguments \/ StartHandler

Next ==
  \/ BeginRound
  \/ ProviderReplies
  \/ Retry
  \/ ServeCall
  \/ \E failed \in BOOLEAN : FinishHandler(failed)
  \/ Drop

Spec == Init /\ [][Next]_vars

\* The executor polls a future that can run, timers fire, and every request
\* ends in a reply or in the HTTP client's timeout.  Nothing bounds a handler.
Fairness ==
  /\ WF_vars(BeginRound)
  /\ WF_vars(ProviderReplies)
  /\ WF_vars(Retry)
  /\ WF_vars(ServeCall)

FairSpec == Spec /\ Fairness

-----------------------------------------------------------------------------

\* The prompt slots this call has filled.
Own == (Len(Base) + 1)..Len(prompt)

IsAssistant(i) == prompt[i].role = "assistant"

\* The type invariant of the call's locals and of the three histories.
TypeOK ==
  /\ pc \in {"loop", "request", "backoff", "tools", "running"} \cup Ended
  /\ round \in 0..MaxRounds
  /\ attempt \in 0..MaxRetries
  /\ prompt \in Seq(Message)
  /\ calls \in Seq(Call)
  /\ next \in 0..Len(calls)
  /\ error \in Errors \cup {"none"}
  /\ requests \in Nat
  /\ faults \in Seq(ProviderErrors)
  /\ effects \in Seq(Nat)

\* Answers follow their assistant message one for one in the order of its
\* calls, no tool message answers anything else, and whatever is sent to the
\* provider -- a retry included -- leaves no call unanswered.
WellFormedPrompt ==
  /\ \A i \in Own : IsAssistant(i) =>
       \A j \in 1..Len(prompt[i].calls) : i + j \in Own =>
         /\ prompt[i + j].role = "tool"
         /\ prompt[i + j].id = prompt[i].calls[j].id
  /\ \A k \in Own : prompt[k].role = "tool" =>
       \E i \in Own : /\ i < k
                      /\ IsAssistant(i)
                      /\ k - i <= Len(prompt[i].calls)
  /\ pc \in {"loop", "request", "backoff", "answered"} =>
       \A i \in Own : IsAssistant(i) => i + Len(prompt[i].calls) <= Len(prompt)

\* A handler runs at most once for a tool call, in the order of the calls, and
\* its answer is in the prompt -- unless it is running now or the caller
\* dropped the future under it.  Retrying a request re-executes nothing.
EffectsAccounted ==
  /\ \A m, n \in 1..Len(effects) : m < n => effects[m] < effects[n]
  /\ \A n \in 1..Len(effects) :
       \/ effects[n] \in Own /\ prompt[effects[n]].role = "tool"
       \/ /\ n = Len(effects)
          /\ effects[n] = Len(prompt) + 1
          /\ pc \in {"running", "dropped"}

\* Only transient errors are followed by another attempt, and a request is
\* given up exactly on a fatal error or after max_retries + 1 failures, with
\* the error of its last attempt.
RetryDiscipline ==
  /\ \A n \in 1..Len(faults) : n < Len(faults) => faults[n] \in Retryable
  /\ pc \in {"request", "backoff"} =>
       /\ Len(faults) = IF pc = "request" THEN attempt ELSE attempt + 1
       /\ \A n \in 1..Len(faults) : faults[n] \in Retryable
  /\ error \in ProviderErrors =>
       /\ faults # <<>> /\ error = faults[Len(faults)]
       /\ error \in Retryable => Len(faults) = MaxRetries + 1

\* One generate() call costs at most max_retries + 1 requests a round.
RequestBudget ==
  requests <= (IF WithTools THEN MaxRounds ELSE 1) * (MaxRetries + 1)

\* client.rs says of generate_once(): "Make exactly one provider call".
OneProviderCall == Entry = "generate_once" => requests <= 1

\* A generation ends, whatever the provider and the tools do, unless a
\* handler never returns.
Terminates == <>(pc \in Ended) \/ <>[](pc = "running")

\* Seen by the whole exchanges it has completed -- the prompt up to the round
\* in progress -- a generation is a Conversation.
Conv == INSTANCE Conversation
          WITH MaxTurns   <- MaxRounds,
               transcript <- SubSeq(prompt, 1, Len(prompt) - next),
               turns      <- round,
               status     <- IF pc \in Ended THEN pc ELSE "open"

ImplementsConversation == Conv!Conversing

=============================================================================
