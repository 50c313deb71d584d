--------------------------- MODULE ToolLoopProofs ---------------------------
(***************************************************************************)
(* Safety of ToolLoop for every value of its constants.  The inductive     *)
(* invariant is TypeOK with Phase, which says what the call's locals mean  *)
(* at each await point; each property follows from it and from a           *)
(* strengthening of its own.                                               *)
(***************************************************************************)
EXTENDS ToolLoop, SequenceTheorems, TLAPS

\* Where a generation may still take a step.
Live == {"loop", "request", "backoff", "tools", "running"}

\* What the locals of generate_with_tools and with_retry mean at each point:
\* no error before the end, a retry only when one is left, a round only below
\* the limit, a call to serve only in a round.
Phase ==
  /\ error # "none" => pc = "failed"
  /\ pc = "backoff" => attempt < MaxRetries
  /\ WithTools /\ pc \in Live \ {"loop"} => round < MaxRounds
  /\ pc \in {"loop", "tools", "running"} => WithTools
  /\ pc \in {"tools", "running"} => next \in 1..Len(calls)
  /\ pc \in {"loop", "request", "backoff", "answered"} => next = 0

LoopInv == TypeOK /\ Phase

-----------------------------------------------------------------------------

\* A provider's response is a sequence of calls.
LEMMA ResponsesAreSequences ==
  ASSUME NEW cs \in Responses
  PROVE  cs \in Seq(Call)
<1>1. PICK n \in 0..MaxCalls : cs \in [1..n -> Call]
  BY DEF Responses
<1> QED
  BY <1>1, ToolLoopAssumption

\* Answering a call keeps the invariant, whoever answers it.
LEMMA AnswerCallKeepsLoopInv ==
  ASSUME LoopInv,
         pc \in {"tools", "running"},
         NEW failed \in BOOLEAN,
         AnswerCall(failed),
         UNCHANGED <<attempt, error, requests, faults>>,
         effects' \in Seq(Nat)
  PROVE  LoopInv'
<1>1. calls[next] \in Call /\ next \in 1..Len(calls)
  BY DEF LoopInv, TypeOK, Phase
<1>2. ToolMessage(calls[next].id, failed) \in Message
  BY <1>1 DEF ToolMessage, Message, Call
<1>3. prompt' \in Seq(Message)
  BY <1>2 DEF AnswerCall, LoopInv, TypeOK
<1>4. WithTools /\ round < MaxRounds
  BY DEF LoopInv, Phase, Live
<1>5. CASE next = Len(calls)
  <2>1. pc' = "loop" /\ round' = round + 1 /\ calls' = <<>> /\ next' = 0
    BY <1>5 DEF AnswerCall
  <2> QED
    BY <2>1, <1>3, <1>4, ToolLoopAssumption
    DEF LoopInv, TypeOK, Phase, Live, WithTools, Ended
<1>6. CASE next # Len(calls)
  <2>1. pc' = "tools" /\ next' = next + 1 /\ UNCHANGED <<round, calls>>
    BY <1>6 DEF AnswerCall
  <2>2. Len(calls) \in Nat /\ next + 1 \in 1..Len(calls)
    BY <1>1, <1>6 DEF LoopInv, TypeOK
  <2>3. TypeOK'
    BY <2>1, <2>2, <1>3 DEF LoopInv, TypeOK
  <2>4. Phase'
    BY <2>1, <2>2, <1>4 DEF LoopInv, Phase, Live, WithTools
  <2> QED
    BY <2>3, <2>4 DEF LoopInv
<1> QED
  BY <1>5, <1>6

\* A call that has not been polled satisfies the invariant of the locals.
LEMMA LoopInvInit == Init => LoopInv
BY ToolLoopAssumption
   DEF Init, LoopInv, TypeOK, Phase, Live, Ended, WithTools

\* Every segment of the future between two awaits preserves it.
LEMMA LoopInvStep == LoopInv /\ [Next]_vars => LoopInv'
<1> SUFFICES ASSUME LoopInv, [Next]_vars
             PROVE  LoopInv'
  OBVIOUS
<1> USE ToolLoopAssumption
<1>1. CASE BeginRound
  BY <1>1 DEF BeginRound, Fail, LoopInv, TypeOK, Phase, Live, Ended, WithTools, Errors
<1>2. ASSUME NEW cs \in Responses, ProviderAnswers(cs)
      PROVE  LoopInv'
  <2>1. cs \in Seq(Call)
    BY ResponsesAreSequences
  <2>2. CASE WithTools /\ cs # <<>>
    <3>1. Assistant(cs) \in Message
      BY <2>1 DEF Assistant, Message
    <3>2. /\ pc' = "tools" /\ prompt' = Append(prompt, Assistant(cs))
          /\ calls' = cs /\ next' = 1 /\ pc = "request"
          /\ UNCHANGED <<round, attempt, error, faults, effects>>
          /\ requests' = requests + 1
      BY <1>2, <2>2 DEF ProviderAnswers
    <3>3. prompt' \in Seq(Message)
      BY <3>1, <3>2 DEF LoopInv, TypeOK
    <3>4. Len(cs) \in Nat /\ Len(cs) >= 1
      BY <2>1, <2>2
    <3>5. TypeOK'
      BY <2>1, <3>2, <3>3, <3>4 DEF LoopInv, TypeOK
    <3>6. Phase'
      BY <2>2, <3>2, <3>4 DEF LoopInv, Phase, Live, WithTools
    <3> QED
      BY <3>5, <3>6 DEF LoopInv
  <2>3. CASE ~(WithTools /\ cs # <<>>)
    BY <1>2, <2>3 DEF ProviderAnswers, LoopInv, TypeOK, Phase, Live, Ended, WithTools
  <2> QED
    BY <2>2, <2>3
<1>3. ASSUME NEW e \in ProviderErrors, ProviderFails(e)
      PROVE  LoopInv'
  <2>1. faults' \in Seq(ProviderErrors)
    BY <1>3 DEF ProviderFails, LoopInv, TypeOK
  <2>2. e \in Errors
    BY DEF Errors
  <2> QED
    BY <1>3, <2>1, <2>2
    DEF ProviderFails, Fail, LoopInv, TypeOK, Phase, Live, Ended, WithTools
<1>4. CASE Retry
  BY <1>4 DEF Retry, LoopInv, TypeOK, Phase, Live, Ended, WithTools
<1>5. CASE UnknownTool
  BY <1>5 DEF UnknownTool, Fail, LoopInv, TypeOK, Phase, Live, Ended, WithTools, Errors
<1>6. CASE RejectArguments
  <2>1. pc = "tools" /\ AnswerCall(TRUE) /\ UNCHANGED <<attempt, error, requests, faults, effects>>
    BY <1>6 DEF RejectArguments
  <2>2. effects' \in Seq(Nat)
    BY <2>1 DEF LoopInv, TypeOK
  <2> QED
    BY <2>1, <2>2, AnswerCallKeepsLoopInv
<1>7. CASE StartHandler
  <2>1. effects' \in Seq(Nat)
    BY <1>7 DEF StartHandler, LoopInv, TypeOK
  <2> QED
    BY <1>7, <2>1 DEF StartHandler, LoopInv, TypeOK, Phase, Live, Ended, WithTools
<1>8. ASSUME NEW failed \in BOOLEAN, FinishHandler(failed)
      PROVE  LoopInv'
  <2>1. /\ pc = "running" /\ AnswerCall(failed)
        /\ UNCHANGED <<attempt, error, requests, faults, effects>>
    BY <1>8 DEF FinishHandler
  <2>2. effects' \in Seq(Nat)
    BY <2>1 DEF LoopInv, TypeOK
  <2> QED
    BY <2>1, <2>2, AnswerCallKeepsLoopInv
<1>9. CASE Drop
  BY <1>9 DEF Drop, LoopInv, TypeOK, Phase, Live, Ended, WithTools
<1>10. CASE UNCHANGED vars
  BY <1>10 DEF vars, LoopInv, TypeOK, Phase, Live, Ended, WithTools
<1> QED
  BY <1>1, <1>2, <1>3, <1>4, <1>5, <1>6, <1>7, <1>8, <1>9, <1>10
  DEF Next, ProviderReplies, ServeCall

\* The locals of a generate() call keep their types, whatever the provider
\* answers and the tools do.
THEOREM LoopInvariant == Spec => []LoopInv
BY LoopInvInit, LoopInvStep, PTL DEF Spec

\* The locals of generate() and the histories keep their types, whatever the
\* provider answers and the handlers do.
THEOREM TypeCorrect == Spec => []TypeOK
<1>1. LoopInv => TypeOK
  BY DEF LoopInv
<1> QED
  BY <1>1, LoopInvariant, PTL

-----------------------------------------------------------------------------

\* with_retry alone: the state of RetryDiscipline does not depend on the
\* loop's, so it is preserved from LoopInv and itself.
LEMMA RetryDisciplineStep ==
  LoopInv /\ RetryDiscipline /\ [Next]_vars => RetryDiscipline'
<1> SUFFICES ASSUME LoopInv, RetryDiscipline, [Next]_vars
             PROVE  RetryDiscipline'
  OBVIOUS
<1> USE ToolLoopAssumption
<1>1. faults \in Seq(ProviderErrors) /\ Len(faults) \in Nat /\ attempt \in 0..MaxRetries
  BY DEF LoopInv, TypeOK
<1>2. error # "none" => pc = "failed"
  BY DEF LoopInv, Phase
<1>3. CASE BeginRound
  BY <1>2, <1>3 DEF BeginRound, Fail, RetryDiscipline, ProviderErrors, Retryable
<1>4. ASSUME NEW cs \in Responses, ProviderAnswers(cs)
      PROVE  RetryDiscipline'
  BY <1>2, <1>4 DEF ProviderAnswers, RetryDiscipline, ProviderErrors, Retryable
<1>5. ASSUME NEW e \in ProviderErrors, ProviderFails(e)
      PROVE  RetryDiscipline'
  <2>1. /\ pc = "request" /\ faults' = Append(faults, e)
        /\ UNCHANGED attempt
    BY <1>5 DEF ProviderFails
  <2>2. Len(faults) = attempt /\ \A n \in 1..Len(faults) : faults[n] \in Retryable
    BY <2>1 DEF RetryDiscipline
  <2>3. Len(faults') = attempt + 1 /\ faults'[Len(faults')] = e /\ faults' # <<>>
    BY <1>1, <2>1, <2>2
  <2>4. \A n \in 1..Len(faults') : n < Len(faults') => faults'[n] \in Retryable
    BY <1>1, <2>1, <2>2
  <2>5. CASE e \notin Retryable \/ attempt = MaxRetries
    <3>1. pc' = "failed" /\ error' = e
      BY <1>5, <2>5 DEF ProviderFails, Fail
    <3> QED
      BY <3>1, <2>3, <2>4, <2>5 DEF RetryDiscipline
  <2>6. CASE ~(e \notin Retryable \/ attempt = MaxRetries)
    <3>1. pc' = "backoff" /\ error' = "none"
      BY <1>2, <1>5, <2>1, <2>6 DEF ProviderFails
    <3>2. \A n \in 1..Len(faults') : faults'[n] \in Retryable
      BY <1>1, <2>1, <2>3, <2>4, <2>6
    <3> QED
      BY <3>1, <3>2, <2>1, <2>3 DEF RetryDiscipline, ProviderErrors, Retryable
  <2> QED
    BY <2>5, <2>6
<1>6. CASE Retry
  BY <1>1, <1>2, <1>6 DEF Retry, RetryDiscipline, ProviderErrors, Retryable
<1>7. CASE ServeCall
  BY <1>2, <1>7 DEF ServeCall, UnknownTool, RejectArguments, StartHandler, AnswerCall,
     Fail, RetryDiscipline, ProviderErrors, Retryable
<1>8. ASSUME NEW failed \in BOOLEAN, FinishHandler(failed)
      PROVE  RetryDiscipline'
  BY <1>2, <1>8 DEF FinishHandler, AnswerCall, RetryDiscipline
<1>9. CASE Drop
  BY <1>9 DEF Drop, RetryDiscipline
<1>10. CASE UNCHANGED vars
  BY <1>10 DEF vars, RetryDiscipline
<1> QED
  BY <1>3, <1>4, <1>5, <1>6, <1>7, <1>8, <1>9, <1>10 DEF Next, ProviderReplies

\* A request is retried only after transient errors, and given up exactly on
\* a fatal one or after max_retries + 1 failures, whatever max_retries is.
THEOREM RetriesAreDisciplined == Spec => []RetryDiscipline
<1>1. Init => RetryDiscipline
  BY DEF Init, RetryDiscipline, ProviderErrors, Retryable, WithTools
<1> QED
  BY <1>1, RetryDisciplineStep, LoopInvariant, PTL DEF Spec

-----------------------------------------------------------------------------

\* Appending a message keeps the messages the prompt has.
LEMMA AppendKeeps ==
  ASSUME NEW s \in Seq(Message), NEW m \in Message
  PROVE  /\ Append(s, m) \in Seq(Message)
         /\ Len(Append(s, m)) = Len(s) + 1
         /\ \A i \in 1..Len(s) : Append(s, m)[i] = s[i]
         /\ Append(s, m)[Len(s) + 1] = m
OBVIOUS

\* A step leaves the prompt alone, opens a round or answers a call.
LEMMA PromptSteps ==
  ASSUME LoopInv, [Next]_vars
  PROVE  \/ UNCHANGED <<prompt, calls, next>>
         \/ \E cs \in Seq(Call) :
              /\ pc = "request" /\ pc' = "tools" /\ cs # <<>>
              /\ prompt' = Append(prompt, Assistant(cs))
              /\ calls' = cs /\ next' = 1 /\ UNCHANGED effects
         \/ \E failed \in BOOLEAN :
              /\ pc \in {"tools", "running"} /\ AnswerCall(failed)
              /\ UNCHANGED effects
<1>1. CASE BeginRound \/ Retry \/ UnknownTool \/ StartHandler \/ Drop \/ UNCHANGED vars
  BY <1>1 DEF BeginRound, Retry, UnknownTool, StartHandler, Drop, vars
<1>2. CASE RejectArguments
  BY <1>2 DEF RejectArguments
<1>3. ASSUME NEW failed \in BOOLEAN, FinishHandler(failed)
      PROVE  pc \in {"tools", "running"} /\ AnswerCall(failed) /\ UNCHANGED effects
  BY <1>3 DEF FinishHandler
<1>4. ASSUME NEW e \in ProviderErrors, ProviderFails(e)
      PROVE  UNCHANGED <<prompt, calls, next>>
  BY <1>4 DEF ProviderFails
<1>5. ASSUME NEW cs \in Responses, ProviderAnswers(cs),
             ~ UNCHANGED <<prompt, calls, next>>
      PROVE  /\ pc = "request" /\ pc' = "tools" /\ cs # <<>>
             /\ prompt' = Append(prompt, Assistant(cs))
             /\ calls' = cs /\ next' = 1 /\ UNCHANGED effects
  BY <1>5 DEF ProviderAnswers
<1> QED
  BY <1>1, <1>2, <1>3, <1>4, <1>5, ResponsesAreSequences
  DEF Next, ProviderReplies, ServeCall

\* The conjuncts of WellFormedPrompt made inductive: inside a round the
\* assistant message being served is `next` slots from the end, and it alone
\* is incomplete.
Serving == Len(prompt) - next + 1

Answers(i) ==
  \A j \in 1..Len(prompt[i].calls) : i + j \in Own =>
    /\ prompt[i + j].role = "tool"
    /\ prompt[i + j].id = prompt[i].calls[j].id

PromptInv ==
  /\ Len(Base) <= Len(prompt) - next
  /\ next > 0 => prompt[Serving] = Assistant(calls)
  /\ \A i \in Own : IsAssistant(i) =>
       /\ Answers(i)
       /\ i = Serving \/ i + Len(prompt[i].calls) <= Len(prompt)
  /\ \A k \in Own : prompt[k].role = "tool" =>
       \E i \in Own : /\ i < k
                      /\ IsAssistant(i)
                      /\ k - i <= Len(prompt[i].calls)

\* A step keeps every answer behind its assistant message, and in its order.
LEMMA PromptInvStep ==
  LoopInv /\ PromptInv /\ [Next]_vars => PromptInv'
<1> SUFFICES ASSUME LoopInv, PromptInv, [Next]_vars
             PROVE  PromptInv'
  OBVIOUS
<1> USE ToolLoopAssumption
<1>1. /\ prompt \in Seq(Message) /\ Len(prompt) \in Nat /\ Len(Base) \in Nat
      /\ calls \in Seq(Call) /\ Len(calls) \in Nat /\ next \in 0..Len(calls)
  BY DEF LoopInv, TypeOK
<1>2. CASE UNCHANGED <<prompt, calls, next>>
  BY <1>2 DEF PromptInv, Serving, Own, IsAssistant, Answers
<1>3. ASSUME NEW cs \in Seq(Call), pc = "request", cs # <<>>,
             prompt' = Append(prompt, Assistant(cs)), calls' = cs, next' = 1
      PROVE  PromptInv'
  <2>1. next = 0
    BY <1>3 DEF LoopInv, Phase
  <2>2. /\ Assistant(cs) \in Message /\ Assistant(cs).role = "assistant"
        /\ Len(cs) \in Nat \ {0}
    BY <1>3 DEF Assistant, Message
  <2>3. /\ Len(prompt') = Len(prompt) + 1
        /\ \A i \in 1..Len(prompt) : prompt'[i] = prompt[i]
        /\ prompt'[Len(prompt) + 1] = Assistant(cs)
    BY <1>1, <1>3, <2>2, AppendKeeps
  <2>4. Own' = Own \cup {Len(prompt) + 1} /\ Own \subseteq 1..Len(prompt)
    BY <1>1, <2>1, <2>3 DEF Own, PromptInv
  <2>5. Serving' = Len(prompt) + 1
    BY <1>1, <1>3, <2>3 DEF Serving
  <2>6. \A i \in Own : prompt'[i] = prompt[i] /\ IsAssistant(i)' = IsAssistant(i)
    BY <2>3, <2>4 DEF IsAssistant
  <2>7. \A i \in Own : IsAssistant(i) =>
          i + Len(prompt[i].calls) <= Len(prompt) /\ Len(prompt[i].calls) \in Nat
    <3> SUFFICES ASSUME NEW i \in Own, IsAssistant(i)
                 PROVE  i + Len(prompt[i].calls) <= Len(prompt) /\ Len(prompt[i].calls) \in Nat
      OBVIOUS
    <3>1. prompt[i] \in Message /\ prompt[i].role = "assistant"
      BY <1>1, <2>4 DEF IsAssistant
    <3>2. prompt[i].calls \in Seq(Call)
      BY <3>1 DEF Message
    <3>3. i # Serving
      BY <1>1, <2>1, <2>4 DEF Serving
    <3> QED
      BY <3>2, <3>3 DEF PromptInv
  <2>8. \A i \in Own : IsAssistant(i) => Answers(i)'
    <3> SUFFICES ASSUME NEW i \in Own, IsAssistant(i),
                        NEW j \in 1..Len(prompt[i].calls), i + j \in Own'
                 PROVE  prompt'[i + j].role = "tool" /\ prompt'[i + j].id = prompt[i].calls[j].id
      BY <2>6 DEF Answers
    <3>1. i + j \in Own
      BY <1>1, <2>4, <2>7
    <3> QED
      BY <3>1, <2>6 DEF PromptInv, Answers
  <2>9. \A i : i = Len(prompt) + 1 => Answers(i)'
    BY <1>1, <2>2, <2>3, <2>4 DEF Answers, Assistant, Own, PromptInv
  <2>10. \A i \in Own' : IsAssistant(i)' =>
           /\ Answers(i)'
           /\ i = Serving' \/ i + Len(prompt'[i].calls) <= Len(prompt')
    <3> SUFFICES ASSUME NEW i \in Own', IsAssistant(i)'
                 PROVE  /\ Answers(i)'
                        /\ i = Serving' \/ i + Len(prompt'[i].calls) <= Len(prompt')
      OBVIOUS
    <3>1. CASE i = Len(prompt) + 1
      BY <2>5, <2>9, <3>1
    <3>2. CASE i \in Own
      <4>1. IsAssistant(i) /\ prompt'[i] = prompt[i]
        BY <2>6, <3>2
      <4>2. i + Len(prompt[i].calls) <= Len(prompt) /\ Len(prompt[i].calls) \in Nat
        BY <2>7, <3>2, <4>1
      <4>3. i + Len(prompt'[i].calls) <= Len(prompt')
        BY <1>1, <2>3, <2>4, <3>2, <4>1, <4>2
      <4> QED
        BY <2>8, <3>2, <4>1, <4>3
    <3> QED
      BY <2>4, <3>1, <3>2
  <2>11. \A k \in Own' : prompt'[k].role = "tool" =>
           \E i \in Own' : i < k /\ IsAssistant(i)' /\ k - i <= Len(prompt'[i].calls)
    <3> SUFFICES ASSUME NEW k \in Own', prompt'[k].role = "tool"
                 PROVE  \E i \in Own' : i < k /\ IsAssistant(i)' /\ k - i <= Len(prompt'[i].calls)
      OBVIOUS
    <3>1. k \in Own /\ prompt[k].role = "tool"
      BY <2>2, <2>3, <2>4, <2>6
    <3>2. PICK i \in Own : i < k /\ IsAssistant(i) /\ k - i <= Len(prompt[i].calls)
      BY <3>1 DEF PromptInv
    <3> QED
      BY <3>2, <2>4, <2>6
  <2>12. Len(Base) <= Len(prompt') - next' /\ prompt'[Serving'] = Assistant(calls')
    BY <1>1, <1>3, <2>1, <2>3, <2>5 DEF PromptInv
  <2> QED
    BY <2>10, <2>11, <2>12 DEF PromptInv
<1>4. ASSUME NEW failed \in BOOLEAN, pc \in {"tools", "running"}, AnswerCall(failed)
      PROVE  PromptInv'
  <2> DEFINE m == ToolMessage(calls[next].id, failed)
  <2>0. PICK s : s = Serving
    OBVIOUS
  <2>1. next \in 1..Len(calls) /\ calls[next] \in Call
    BY <1>1, <1>4 DEF LoopInv, Phase
  <2>2. m \in Message /\ m.role = "tool" /\ m.id = calls[next].id
    BY <2>1 DEF ToolMessage, Message, Call
  <2>3. /\ Len(prompt') = Len(prompt) + 1
        /\ \A i \in 1..Len(prompt) : prompt'[i] = prompt[i]
        /\ prompt'[Len(prompt) + 1] = m
    BY <1>1, <1>4, <2>2, AppendKeeps DEF AnswerCall
  <2>4. /\ Own' = Own \cup {Len(prompt) + 1} /\ Own \subseteq 1..Len(prompt)
        /\ s \in Own
    BY <1>1, <2>0, <2>1, <2>3 DEF Own, PromptInv, Serving
  <2>5. /\ prompt[s].calls = calls /\ IsAssistant(s) /\ prompt[s] = Assistant(calls)
    BY <2>0, <2>1 DEF PromptInv, Assistant, IsAssistant
  <2>6. \A i \in Own : prompt'[i] = prompt[i] /\ IsAssistant(i)' = IsAssistant(i)
    BY <2>3, <2>4 DEF IsAssistant
  <2>7. \A i : i = Len(prompt) + 1 => ~ IsAssistant(i)'
    BY <2>2, <2>3 DEF IsAssistant
  <2>8. \A i \in Own : IsAssistant(i) => Len(prompt[i].calls) \in Nat
    <3> SUFFICES ASSUME NEW i \in Own, IsAssistant(i)
                 PROVE  Len(prompt[i].calls) \in Nat
      OBVIOUS
    <3>1. prompt[i] \in Message /\ prompt[i].role = "assistant"
      BY <1>1, <2>4 DEF IsAssistant
    <3>2. prompt[i].calls \in Seq(Call)
      BY <3>1 DEF Message
    <3> QED
      BY <3>2
  <2>9. \A i \in Own : IsAssistant(i) => Answers(i)'
    <3> SUFFICES ASSUME NEW i \in Own, IsAssistant(i),
                        NEW j \in 1..Len(prompt[i].calls), i + j \in Own'
                 PROVE  prompt'[i + j].role = "tool" /\ prompt'[i + j].id = prompt[i].calls[j].id
      BY <2>6 DEF Answers
    <3>1. CASE i + j \in Own
      BY <3>1, <2>6 DEF PromptInv, Answers
    <3>2. CASE i + j = Len(prompt) + 1
      <4>1. i = s
        BY <1>1, <2>0, <2>4, <2>8, <3>2 DEF PromptInv
      <4>2. j = next
        BY <1>1, <2>0, <3>2, <4>1 DEF Serving
      <4> QED
        BY <2>2, <2>3, <2>5, <3>2, <4>1, <4>2
    <3> QED
      BY <2>4, <3>1, <3>2
  <2>10. CASE next = Len(calls)
    <3>1. next' = 0 /\ Len(prompt') - next' = Len(prompt) + 1 /\ Serving' = Len(prompt) + 2
      BY <1>1, <1>4, <2>3, <2>10 DEF AnswerCall, Serving
    <3>2. \A i \in Own : IsAssistant(i) => i + Len(prompt'[i].calls) <= Len(prompt')
      <4> SUFFICES ASSUME NEW i \in Own, IsAssistant(i)
                   PROVE  i + Len(prompt[i].calls) <= Len(prompt) + 1
        BY <2>3, <2>6
      <4>1. CASE i = s
        BY <1>1, <2>0, <2>5, <2>10, <4>1 DEF Serving
      <4>2. CASE i # s
        BY <1>1, <2>0, <2>4, <2>8, <4>2 DEF PromptInv
      <4> QED
        BY <4>1, <4>2
    <3>3. Len(Base) <= Len(prompt') - next'
      BY <1>1, <3>1 DEF PromptInv
    <3>4. \A k \in Own' : prompt'[k].role = "tool" =>
            \E i \in Own' : i < k /\ IsAssistant(i)' /\ k - i <= Len(prompt'[i].calls)
      <4>1. /\ s \in Own' /\ s < Len(prompt) + 1 /\ IsAssistant(s)'
            /\ Len(prompt) + 1 - s <= Len(prompt'[s].calls)
        BY <1>1, <2>0, <2>1, <2>4, <2>5, <2>6 DEF Serving
      <4>2. ASSUME NEW k \in Own, prompt[k].role = "tool"
            PROVE  \E i \in Own' : i < k /\ IsAssistant(i)' /\ k - i <= Len(prompt'[i].calls)
        <5>1. PICK i \in Own : i < k /\ IsAssistant(i) /\ k - i <= Len(prompt[i].calls)
          BY <4>2 DEF PromptInv
        <5> QED
          BY <2>4, <2>6, <5>1
      <4> QED
        BY <2>4, <2>6, <4>1, <4>2
    <3> QED
      <4> SUFFICES ASSUME NEW i \in Own', IsAssistant(i)'
                   PROVE  /\ Answers(i)'
                          /\ i = Serving' \/ i + Len(prompt'[i].calls) <= Len(prompt')
        BY <3>1, <3>3, <3>4 DEF PromptInv
      <4>1. i \in Own /\ IsAssistant(i)
        BY <2>4, <2>6, <2>7
      <4> QED
        BY <2>9, <3>2, <4>1
  <2>11. CASE next # Len(calls)
    <3>1. next' = next + 1 /\ Serving' = s /\ calls' = calls
      BY <1>1, <1>4, <2>0, <2>1, <2>3, <2>11 DEF AnswerCall, Serving
    <3>2. \A i \in Own : IsAssistant(i) => i = Serving' \/ i + Len(prompt'[i].calls) <= Len(prompt')
      <4> SUFFICES ASSUME NEW i \in Own, IsAssistant(i), i # s
                   PROVE  i + Len(prompt[i].calls) <= Len(prompt) + 1
        BY <2>3, <2>6, <3>1
      <4>1. i + Len(prompt[i].calls) <= Len(prompt)
        BY <2>0 DEF PromptInv
      <4> QED
        BY <1>1, <2>4, <2>8, <4>1
    <3>3. Len(Base) <= Len(prompt') - next' /\ prompt'[Serving'] = Assistant(calls')
      BY <1>1, <2>3, <2>4, <2>5, <2>6, <3>1 DEF PromptInv
    <3>4. \A k \in Own' : prompt'[k].role = "tool" =>
            \E i \in Own' : i < k /\ IsAssistant(i)' /\ k - i <= Len(prompt'[i].calls)
      <4>1. /\ s \in Own' /\ s < Len(prompt) + 1 /\ IsAssistant(s)'
            /\ Len(prompt) + 1 - s <= Len(prompt'[s].calls)
        BY <1>1, <2>0, <2>1, <2>4, <2>5, <2>6 DEF Serving
      <4>2. ASSUME NEW k \in Own, prompt[k].role = "tool"
            PROVE  \E i \in Own' : i < k /\ IsAssistant(i)' /\ k - i <= Len(prompt'[i].calls)
        <5>1. PICK i \in Own : i < k /\ IsAssistant(i) /\ k - i <= Len(prompt[i].calls)
          BY <4>2 DEF PromptInv
        <5> QED
          BY <2>4, <2>6, <5>1
      <4> QED
        BY <2>4, <2>6, <4>1, <4>2
    <3> QED
      <4> SUFFICES ASSUME NEW i \in Own', IsAssistant(i)'
                   PROVE  /\ Answers(i)'
                          /\ i = Serving' \/ i + Len(prompt'[i].calls) <= Len(prompt')
        BY <3>1, <3>3, <3>4 DEF PromptInv
      <4>1. i \in Own /\ IsAssistant(i)
        BY <2>4, <2>6, <2>7
      <4> QED
        BY <2>9, <3>2, <4>1
  <2> QED
    BY <2>10, <2>11
<1> QED
  BY <1>2, <1>3, <1>4, PromptSteps

\* The caller's prompt holds no message of this call.
LEMMA PromptInvInit == Init => PromptInv
BY ToolLoopAssumption DEF Init, PromptInv, Own, Serving

\* The prompt is always whole rounds and the part of one that is answered.
LEMMA PromptInvariant == Spec => []PromptInv
BY PromptInvInit, PromptInvStep, LoopInvariant, PTL DEF Spec

\* Whatever is sent to the provider, a retry included, answers every tool call
\* once and in order, for every provider and every registry.
THEOREM PromptsAreWellFormed == Spec => []WellFormedPrompt
<1>1. LoopInv /\ PromptInv => WellFormedPrompt
  <2> SUFFICES ASSUME LoopInv, PromptInv PROVE WellFormedPrompt
    OBVIOUS
  <2>1. Len(prompt) \in Nat /\ Len(Base) \in Nat
    BY ToolLoopAssumption DEF LoopInv, TypeOK
  <2>2. \A i \in Own : IsAssistant(i) =>
          \A j \in 1..Len(prompt[i].calls) : i + j \in Own =>
            prompt[i + j].role = "tool" /\ prompt[i + j].id = prompt[i].calls[j].id
    BY DEF PromptInv, Answers
  <2>3. pc \in {"loop", "request", "backoff", "answered"} =>
          \A i \in Own : IsAssistant(i) => i + Len(prompt[i].calls) <= Len(prompt)
    BY <2>1 DEF LoopInv, Phase, PromptInv, Serving, Own
  <2> QED
    BY <2>2, <2>3 DEF PromptInv, WellFormedPrompt
<1> QED
  BY <1>1, LoopInvariant, PromptInvariant, PTL

-----------------------------------------------------------------------------

\* A handler run is entered at the slot of its answer, and no slot is used twice.
LEMMA EffectsAccountedStep ==
  LoopInv /\ PromptInv /\ EffectsAccounted /\ [Next]_vars => EffectsAccounted'
<1> SUFFICES ASSUME LoopInv, PromptInv, EffectsAccounted, [Next]_vars
             PROVE  EffectsAccounted'
  OBVIOUS
<1> USE ToolLoopAssumption
<1>1. /\ prompt \in Seq(Message) /\ Len(prompt) \in Nat
      /\ effects \in Seq(Nat) /\ Len(effects) \in Nat
      /\ Len(Base) \in Nat /\ next \in Nat
      /\ Len(Base) <= Len(prompt) - next
  BY DEF LoopInv, TypeOK, PromptInv
\* A message is appended: the slot a running handler waits for is filled.
<1>2. ASSUME NEW m \in Message, prompt' = Append(prompt, m), UNCHANGED effects,
             pc = "running" => m.role = "tool", pc # "dropped"
      PROVE  EffectsAccounted'
  <2>1. /\ Len(prompt') = Len(prompt) + 1
        /\ \A i \in 1..Len(prompt) : prompt'[i] = prompt[i]
        /\ prompt'[Len(prompt) + 1] = m
    BY <1>1, <1>2, AppendKeeps
  <2>2. Own' = Own \cup {Len(prompt) + 1} /\ Own \subseteq 1..Len(prompt)
    BY <1>1, <2>1 DEF Own
  <2>3. ASSUME NEW n \in 1..Len(effects)
        PROVE  effects[n] \in Own' /\ prompt'[effects[n]].role = "tool"
    <3>1. CASE effects[n] \in Own /\ prompt[effects[n]].role = "tool"
      BY <2>1, <2>2, <3>1
    <3>2. CASE effects[n] = Len(prompt) + 1 /\ pc = "running"
      BY <1>2, <2>1, <2>2, <3>2
    <3> QED
      BY <1>2, <3>1, <3>2 DEF EffectsAccounted
  <2> QED
    BY <1>2, <2>3 DEF EffectsAccounted
<1>3. ASSUME UNCHANGED <<prompt, effects>>, pc \in {"running", "dropped"} => pc' \in {"running", "dropped"}
      PROVE  EffectsAccounted'
  BY <1>3 DEF EffectsAccounted, Own
<1>4. CASE StartHandler
  <2>1. /\ effects' = Append(effects, Len(prompt) + 1) /\ UNCHANGED prompt
        /\ pc = "tools" /\ pc' = "running"
    BY <1>4 DEF StartHandler
  <2>2. /\ Len(effects') = Len(effects) + 1
        /\ \A n \in 1..Len(effects) : effects'[n] = effects[n]
        /\ effects'[Len(effects) + 1] = Len(prompt) + 1
    BY <1>1, <2>1
  <2>3. \A n \in 1..Len(effects) :
          effects[n] \in Own /\ prompt[effects[n]].role = "tool" /\ effects[n] < Len(prompt) + 1
    BY <1>1, <2>1 DEF EffectsAccounted, Own
  <2>4. Own' = Own /\ prompt' = prompt
    BY <2>1 DEF Own
  <2>5. PICK k \in Nat : k = Len(effects)
    BY <1>1
  <2>6. /\ Len(effects') = k + 1 /\ effects'[k + 1] = Len(prompt) + 1
        /\ \A n \in 1..(k + 1) : n \in 1..k \/ n = k + 1
        /\ \A n \in 1..k : effects'[n] = effects[n] /\ n # k + 1
    BY <2>2, <2>5
  <2>7. \A m, n \in 1..(k + 1) : m < n => effects'[m] < effects'[n]
    <3>1. \A m, n \in 1..k : m < n => effects'[m] < effects'[n]
      BY <2>5, <2>6 DEF EffectsAccounted
    <3>2. \A m \in 1..k : effects'[m] < effects'[k + 1]
      BY <2>3, <2>5, <2>6
    <3> QED
      BY <2>5, <2>6, <3>1, <3>2
  <2>8. ASSUME NEW n \in 1..(k + 1)
        PROVE  \/ effects'[n] \in Own' /\ prompt'[effects'[n]].role = "tool"
               \/ n = k + 1 /\ effects'[n] = Len(prompt') + 1 /\ pc' = "running"
    BY <2>1, <2>3, <2>4, <2>5, <2>6
  <2> QED
    BY <2>6, <2>7, <2>8 DEF EffectsAccounted
<1>5. CASE RejectArguments \/ \E failed \in BOOLEAN : FinishHandler(failed)
  <2>1. PICK failed \in BOOLEAN :
          pc \in {"tools", "running"} /\ AnswerCall(failed) /\ UNCHANGED effects
    BY <1>5 DEF RejectArguments, FinishHandler
  <2>2. calls[next] \in Call
    BY <2>1 DEF LoopInv, TypeOK, Phase
  <2>3. ToolMessage(calls[next].id, failed) \in Message /\ ToolMessage(calls[next].id, failed).role = "tool"
    BY <2>2 DEF ToolMessage, Message, Call
  <2> QED
    BY <1>2, <2>1, <2>3 DEF AnswerCall
<1>6. ASSUME NEW cs \in Responses, ProviderAnswers(cs)
      PROVE  EffectsAccounted'
  <2>1. pc = "request" /\ UNCHANGED effects
    BY <1>6 DEF ProviderAnswers
  <2>2. CASE prompt' = prompt
    BY <1>3, <2>1, <2>2
  <2>3. CASE prompt' = Append(prompt, Assistant(cs))
    <3>1. Assistant(cs) \in Message
      BY ResponsesAreSequences DEF Assistant, Message
    <3> QED
      BY <1>2, <2>1, <2>3, <3>1
  <2> QED
    BY <1>6, <2>2, <2>3 DEF ProviderAnswers
<1>7. CASE BeginRound \/ (\E e \in ProviderErrors : ProviderFails(e)) \/ Retry
           \/ UnknownTool \/ Drop \/ UNCHANGED vars
  BY <1>3, <1>7 DEF BeginRound, ProviderFails, Retry, UnknownTool, Drop, vars
<1> QED
  BY <1>4, <1>5, <1>6, <1>7 DEF Next, ProviderReplies, ServeCall

\* No tool call runs its handler twice, and every run is answered in the
\* prompt unless the caller dropped the future under it.
THEOREM EffectsAreAccounted == Spec => []EffectsAccounted
<1>1. Init => EffectsAccounted
  BY DEF Init, EffectsAccounted
<1> QED
  BY <1>1, EffectsAccountedStep, LoopInvariant, PromptInvariant, PTL DEF Spec

-----------------------------------------------------------------------------

\* The requests of the rounds before this one, and of this one so far.
Rounds == IF WithTools THEN MaxRounds ELSE 1

BudgetInv ==
  /\ pc = "loop" => requests <= round * (MaxRetries + 1)
  /\ pc = "request" => requests <= round * (MaxRetries + 1) + attempt
  /\ pc \in {"backoff"} => requests <= round * (MaxRetries + 1) + attempt + 1
  /\ pc \in {"tools", "running"} => requests <= (round + 1) * (MaxRetries + 1)
  /\ ~ WithTools => round = 0
  /\ requests <= Rounds * (MaxRetries + 1)

\* Rounds bound requests: one more round is room for one more retry sequence.
LEMMA WholeRounds ==
  ASSUME NEW r \in Nat, NEW m \in Nat, NEW k \in Nat, r < m
  PROVE  (r + 1) * k <= m * k /\ (r + 1) * k = r * k + k /\ r * k \in Nat
<1>1. (r + 1) * k = r * k + k
  OBVIOUS
<1>2. PICK d \in Nat : m = (r + 1) + d
  <2>1. m - (r + 1) \in Nat /\ m = (r + 1) + (m - (r + 1))
    OBVIOUS
  <2> QED
    BY <2>1
<1>3. m * k = (r + 1) * k + d * k
  BY <1>2
<1>4. d * k \in Nat /\ r * k \in Nat
  OBVIOUS
<1> QED
  BY <1>1, <1>3, <1>4

\* A step spends at most the request its round and its attempt allow.
LEMMA BudgetInvStep ==
  LoopInv /\ BudgetInv /\ [Next]_vars => BudgetInv'
<1> SUFFICES ASSUME LoopInv, BudgetInv, [Next]_vars
             PROVE  BudgetInv'
  OBVIOUS
<1> DEFINE k == MaxRetries + 1
<1>1. /\ round \in Nat /\ attempt \in 0..MaxRetries /\ requests \in Nat
      /\ MaxRetries \in Nat /\ MaxRounds \in Nat /\ k \in Nat
      /\ Rounds \in Nat /\ Rounds' = Rounds /\ WithTools' = WithTools
  BY ToolLoopAssumption DEF LoopInv, TypeOK, Rounds, WithTools
<1>2. pc \in {"request", "backoff", "tools", "running"} => round < Rounds
  BY <1>1 DEF LoopInv, Phase, Live, Rounds, BudgetInv
<1>3. pc \in {"request", "backoff", "tools", "running"} =>
        (round + 1) * k <= Rounds * k /\ (round + 1) * k = round * k + k /\ round * k \in Nat
  BY <1>1, <1>2, WholeRounds
<1> HIDE DEF k
<1>4. CASE BeginRound
  BY <1>1, <1>4 DEF BeginRound, Fail, BudgetInv, LoopInv, Phase, k
<1>5. ASSUME NEW cs \in Responses, ProviderAnswers(cs)
      PROVE  BudgetInv'
  <2>1. requests + 1 <= (round + 1) * k /\ requests + 1 <= Rounds * k
    BY <1>1, <1>3, <1>5 DEF ProviderAnswers, BudgetInv, k
  <2> QED
    BY <1>1, <1>5, <2>1 DEF ProviderAnswers, BudgetInv, k
<1>6. ASSUME NEW e \in ProviderErrors, ProviderFails(e)
      PROVE  BudgetInv'
  <2>1. requests + 1 <= round * k + attempt + 1 /\ requests + 1 <= Rounds * k
    BY <1>1, <1>3, <1>6 DEF ProviderFails, BudgetInv, k
  <2> QED
    BY <1>1, <1>6, <2>1 DEF ProviderFails, Fail, BudgetInv, k
<1>7. CASE Retry
  BY <1>1, <1>3, <1>7 DEF Retry, BudgetInv, k
<1>8. CASE UnknownTool \/ StartHandler \/ Drop \/ UNCHANGED vars
  BY <1>1, <1>8 DEF UnknownTool, StartHandler, Drop, Fail, vars, BudgetInv
<1>9. ASSUME NEW failed \in BOOLEAN, pc \in {"tools", "running"}, AnswerCall(failed),
             UNCHANGED requests
      PROVE  BudgetInv'
  <2>1. WithTools
    BY <1>9 DEF LoopInv, Phase
  <2> QED
    BY <1>1, <1>9, <2>1 DEF AnswerCall, BudgetInv
<1>10. CASE RejectArguments
  BY <1>9, <1>10 DEF RejectArguments
<1>11. ASSUME NEW failed \in BOOLEAN, FinishHandler(failed)
       PROVE  BudgetInv'
  BY <1>9, <1>11 DEF FinishHandler
<1> QED
  BY <1>4, <1>5, <1>6, <1>7, <1>8, <1>10, <1>11 DEF Next, ProviderReplies, ServeCall

\* A generation never costs more than max_retries + 1 requests a round.
THEOREM RequestsAreBudgeted == Spec => []RequestBudget
<1>1. Init => BudgetInv
  <2>1. Rounds \in Nat /\ MaxRetries + 1 \in Nat
    BY ToolLoopAssumption DEF Rounds
  <2>2. Rounds * (MaxRetries + 1) \in Nat /\ 0 * (MaxRetries + 1) = 0
    BY <2>1
  <2> QED
    BY <2>2, ToolLoopAssumption DEF Init, BudgetInv
<1>2. BudgetInv => RequestBudget
  BY DEF BudgetInv, RequestBudget, Rounds
<1> QED
  BY <1>1, <1>2, BudgetInvStep, LoopInvariant, PTL DEF Spec

-----------------------------------------------------------------------------

\* The refinement mapping of ToolLoop's ImplementsConversation.
Transcript == SubSeq(prompt, 1, Len(prompt) - next)
Status == IF pc \in Ended THEN pc ELSE "open"

\* What SubSeq returns, element by element.
LEMMA SubSeqElements ==
  ASSUME NEW S, NEW s \in Seq(S), NEW m \in 1..(Len(s) + 1), NEW n \in 0..Len(s),
         m <= n + 1
  PROVE  /\ SubSeq(s, m, n) \in Seq(S)
         /\ Len(SubSeq(s, m, n)) = n - m + 1
         /\ \A i \in 1..(n - m + 1) : SubSeq(s, m, n)[i] = s[m + i - 1]
BY SubSeqProperties

\* A round in progress is not in the transcript: messages are appended after
\* the part it takes.
LEMMA TranscriptKept ==
  ASSUME LoopInv, PromptInv, NEW m \in Message, prompt' = Append(prompt, m),
         next' = next + 1
  PROVE  Transcript' = Transcript
<1>1. /\ prompt \in Seq(Message) /\ Len(prompt) \in Nat /\ next \in Nat
      /\ Len(Base) \in Nat /\ Len(Base) <= Len(prompt) - next
  BY ToolLoopAssumption DEF LoopInv, TypeOK, PromptInv
<1>2. /\ prompt' \in Seq(Message) /\ Len(prompt') = Len(prompt) + 1
      /\ \A i \in 1..Len(prompt) : prompt'[i] = prompt[i]
  BY <1>1, AppendKeeps
<1>3. /\ Transcript \in Seq(Message) /\ Len(Transcript) = Len(prompt) - next
      /\ \A i \in 1..(Len(prompt) - next) : Transcript[i] = prompt[i]
  BY <1>1, SubSeqElements DEF Transcript
<1>4. PICK n \in Nat : n = Len(prompt) - next
  BY <1>1
<1>5. Transcript' = SubSeq(prompt', 1, n)
  BY <1>1, <1>2, <1>4 DEF Transcript
<1>6. /\ Transcript' \in Seq(Message) /\ Len(Transcript') = n
      /\ \A i \in 1..n : Transcript'[i] = prompt'[i]
  BY <1>1, <1>2, <1>4, <1>5, SubSeqElements
<1>7. \A i \in 1..n : Transcript'[i] = Transcript[i]
  BY <1>1, <1>2, <1>3, <1>4, <1>6
<1> HIDE DEF Transcript
<1> QED
  BY <1>3, <1>4, <1>6, <1>7, SeqEqual

\* The round's last answer makes it an exchange.
LEMMA RoundIsExchange ==
  ASSUME LoopInv, PromptInv, pc \in {"tools", "running"}, NEW failed \in BOOLEAN,
         AnswerCall(failed), next = Len(calls)
  PROVE  /\ Status = "open" /\ Status' = "open"
         /\ round < MaxRounds /\ round' = round + 1
         /\ SubSeq(Transcript', 1, Len(Transcript)) = Transcript
         /\ Conv!IsExchange(SubSeq(Transcript', Len(Transcript) + 1, Len(Transcript')))
<1> DEFINE m == ToolMessage(calls[next].id, failed)
<1>1. /\ prompt \in Seq(Message) /\ Len(prompt) \in Nat
      /\ next \in 1..Len(calls) /\ calls \in Seq(Call) /\ Len(calls) \in Nat
      /\ Len(Base) \in Nat /\ Len(Base) <= Len(prompt) - next
  BY ToolLoopAssumption DEF LoopInv, TypeOK, Phase, PromptInv
<1>2. m \in Message /\ m.role = "tool" /\ m.id = calls[next].id
  <2>1. calls[next] \in Call
    BY <1>1
  <2> QED
    BY <2>1 DEF ToolMessage, Message, Call
<1>3. PICK p : p = prompt'
  OBVIOUS
<1>4. /\ p \in Seq(Message) /\ Len(p) = Len(prompt) + 1
      /\ \A i \in 1..Len(prompt) : p[i] = prompt[i]
      /\ p[Len(prompt) + 1] = m
      /\ next' = 0 /\ round' = round + 1 /\ pc' = "loop"
  BY <1>1, <1>2, <1>3, AppendKeeps DEF AnswerCall
<1>5. PICK n \in Nat : n = Len(prompt) - next
  BY <1>1
<1>6. PICK t : t = Transcript
  OBVIOUS
<1>7. /\ t \in Seq(Message) /\ Len(t) = n
      /\ \A i \in 1..n : t[i] = prompt[i]
  BY <1>1, <1>5, <1>6, SubSeqElements DEF Transcript
<1>8. Transcript' = p
  <2>1. Transcript' = SubSeq(p, 1, Len(p))
    BY <1>3, <1>4 DEF Transcript
  <2>2. /\ SubSeq(p, 1, Len(p)) \in Seq(Message) /\ Len(SubSeq(p, 1, Len(p))) = Len(p)
        /\ \A i \in 1..Len(p) : SubSeq(p, 1, Len(p))[i] = p[i]
    BY <1>4, SubSeqElements
  <2>3. SubSeq(p, 1, Len(p)) = p
    BY <1>4, <2>2, SeqEqual
  <2> QED
    BY <2>1, <2>3
<1>9. SubSeq(p, 1, n) = t
  <2>1. /\ SubSeq(p, 1, n) \in Seq(Message) /\ Len(SubSeq(p, 1, n)) = n
        /\ \A i \in 1..n : SubSeq(p, 1, n)[i] = p[i]
    BY <1>1, <1>4, <1>5, SubSeqElements
  <2>2. \A i \in 1..n : SubSeq(p, 1, n)[i] = t[i]
    BY <1>1, <1>4, <1>5, <1>7, <2>1
  <2> QED
    BY <1>7, <2>1, <2>2, SeqEqual
<1>10. PICK x : x = SubSeq(p, n + 1, Len(p))
  OBVIOUS
<1>11. /\ Len(x) = next + 1
       /\ \A i \in 1..(next + 1) : x[i] = p[n + i]
  BY <1>1, <1>4, <1>5, <1>10, SubSeqElements
<1>12. x[1] = Assistant(calls)
  <2>1. n + 1 = Serving /\ n + 1 \in 1..Len(prompt)
    BY <1>1, <1>5 DEF Serving
  <2>2. x[1] = p[n + 1]
    BY <1>1, <1>11
  <2>3. prompt[Serving] = Assistant(calls)
    BY <1>1 DEF PromptInv
  <2> QED
    BY <1>4, <2>1, <2>2, <2>3
<1>13. \A j \in 1..Len(calls) : x[j + 1].role = "tool" /\ x[j + 1].id = calls[j].id
  <2>0. \A j \in 1..Len(calls) : x[j + 1] = p[n + j + 1]
    <3> SUFFICES ASSUME NEW j \in 1..Len(calls)
                 PROVE  x[j + 1] = p[n + j + 1]
      OBVIOUS
    <3>1. j + 1 \in 1..(next + 1) /\ n + (j + 1) = n + j + 1
      BY <1>1, <1>5
    <3> QED
      BY <1>11, <3>1
  <2> SUFFICES ASSUME NEW j \in 1..Len(calls)
               PROVE  p[n + j + 1].role = "tool" /\ p[n + j + 1].id = calls[j].id
    BY <2>0
  <2>1. CASE j = next
    BY <1>1, <1>2, <1>4, <1>5, <2>1
  <2>2. CASE j # next
    <3>1. /\ Serving = n + 1 /\ Serving \in Own /\ Serving + j \in Own
          /\ Serving + j = n + j + 1
      BY <1>1, <1>5, <2>2 DEF Serving, Own
    <3>2. IsAssistant(Serving) /\ prompt[Serving].calls = calls
      BY <1>1 DEF PromptInv, Assistant, IsAssistant
    <3>3. prompt[Serving + j].role = "tool" /\ prompt[Serving + j].id = calls[j].id
      BY <3>1, <3>2 DEF PromptInv, Answers
    <3>4. n + j + 1 \in 1..Len(prompt)
      BY <1>1, <1>5, <2>2
    <3>5. p[n + j + 1] = prompt[n + j + 1]
      BY <1>4, <3>4
    <3> QED
      BY <3>1, <3>3, <3>5
  <2> QED
    BY <2>1, <2>2
<1>14. Conv!IsExchange(x)
  BY <1>1, <1>11, <1>12, <1>13 DEF Conv!IsExchange, Assistant
<1>15. Status = "open" /\ Status' = "open" /\ round < MaxRounds
  BY <1>4 DEF Status, Ended, LoopInv, Phase, Live
<1> QED
  BY <1>4, <1>6, <1>7, <1>8, <1>9, <1>10, <1>14, <1>15

\* A step of the conversation, or none.
AbstractStep == [Conv!Converse]_(Conv!cvars)

\* A step of the loop is a step of the conversation or leaves it alone.
LEMMA ConversationStep ==
  ASSUME LoopInv, PromptInv, [Next]_vars
  PROVE  AbstractStep
\* A step that leaves the transcript alone is a stutter or ends it.
<1>1. ASSUME Transcript' = Transcript, round' = round,
             Status' = Status \/ (Status = "open" /\ Status' \in Ended)
      PROVE  AbstractStep
  BY <1>1 DEF AbstractStep, Conv!cvars, Conv!Converse, Conv!End, Conv!Endings,
     Transcript, Status, Ended
<1>2. ASSUME UNCHANGED <<prompt, next, round>>, pc \notin Ended
      PROVE  AbstractStep
  <2>1. Transcript' = Transcript
    BY <1>2 DEF Transcript
  <2>2. Status = "open" /\ (Status' = "open" \/ Status' \in Ended)
    BY <1>2 DEF Status, Ended
  <2> QED
    BY <1>1, <1>2, <2>1, <2>2
<1>3. CASE BeginRound \/ (\E e \in ProviderErrors : ProviderFails(e)) \/ Retry
           \/ UnknownTool \/ StartHandler \/ Drop
  BY <1>2, <1>3
  DEF BeginRound, ProviderFails, Retry, UnknownTool, StartHandler, Drop, Ended
<1>4. CASE UNCHANGED vars
  BY <1>4 DEF AbstractStep, vars, Conv!cvars
<1>5. ASSUME NEW cs \in Responses, ProviderAnswers(cs)
      PROVE  AbstractStep
  <2>1. pc = "request" /\ pc \notin Ended /\ UNCHANGED round /\ next = 0
    BY <1>5 DEF ProviderAnswers, Ended, LoopInv, Phase
  <2>2. CASE WithTools /\ cs # <<>>
    <3>1. Assistant(cs) \in Message
      BY ResponsesAreSequences DEF Assistant, Message
    <3>2. prompt' = Append(prompt, Assistant(cs)) /\ next' = next + 1 /\ pc' = "tools"
      BY <1>5, <2>1, <2>2 DEF ProviderAnswers
    <3>3. Transcript' = Transcript
      BY <3>1, <3>2, TranscriptKept
    <3> QED
      BY <1>1, <2>1, <3>2, <3>3 DEF Status, Ended
  <2>3. CASE ~(WithTools /\ cs # <<>>)
    BY <1>2, <1>5, <2>1, <2>3 DEF ProviderAnswers
  <2> QED
    BY <2>2, <2>3
<1>6. ASSUME NEW failed \in BOOLEAN, pc \in {"tools", "running"}, AnswerCall(failed)
      PROVE  AbstractStep
  <2>1. CASE next = Len(calls)
    <3>1. Conv!Exchange
      BY <1>6, <2>1, RoundIsExchange DEF Conv!Exchange, Transcript, Status
    <3> QED
      BY <3>1 DEF AbstractStep, Conv!Converse
  <2>2. CASE next # Len(calls)
    <3>0. calls[next] \in Call
      BY <1>6 DEF LoopInv, TypeOK, Phase
    <3>1. ToolMessage(calls[next].id, failed) \in Message
      BY <3>0 DEF ToolMessage, Message, Call
    <3>2. /\ prompt' = Append(prompt, ToolMessage(calls[next].id, failed))
          /\ next' = next + 1 /\ round' = round /\ pc' = "tools"
      BY <1>6, <2>2 DEF AnswerCall
    <3>3. Transcript' = Transcript
      BY <3>1, <3>2, TranscriptKept
    <3> QED
      BY <1>1, <1>6, <3>2, <3>3 DEF Status, Ended
  <2> QED
    BY <2>1, <2>2
<1>7. CASE RejectArguments
  BY <1>6, <1>7 DEF RejectArguments
<1>8. ASSUME NEW failed \in BOOLEAN, FinishHandler(failed)
      PROVE  AbstractStep
  BY <1>6, <1>8 DEF FinishHandler
<1> QED
  BY <1>3, <1>4, <1>5, <1>7, <1>8 DEF Next, ProviderReplies, ServeCall

\* Every generation is a conversation: its transcript grows by whole exchanges,
\* at most MaxRounds of them, until it ends for good.
THEOREM GenerationsAreConversations == Spec => ImplementsConversation
<1>1. Init => Conv!Open
  <2> SUFFICES ASSUME Init PROVE Conv!Open
    OBVIOUS
  <2>1. Base \in Seq(Message) /\ Len(Base) \in Nat
    BY ToolLoopAssumption
  <2>2. /\ SubSeq(Base, 1, Len(Base)) \in Seq(Message)
        /\ Len(SubSeq(Base, 1, Len(Base))) = Len(Base)
        /\ \A i \in 1..Len(Base) : SubSeq(Base, 1, Len(Base))[i] = Base[i]
    BY <2>1, SubSeqElements
  <2>3. SubSeq(Base, 1, Len(Base)) = Base
    BY <2>1, <2>2, SeqEqual
  <2>4. SubSeq(prompt, 1, Len(prompt) - next) = Base /\ round = 0 /\ pc \notin Ended
    BY <2>1, <2>3 DEF Init, Ended
  <2> QED
    BY <2>4 DEF Conv!Open
<1>2. LoopInv /\ PromptInv /\ [Next]_vars => [Conv!Converse]_(Conv!cvars)
  BY ConversationStep DEF AbstractStep
<1> QED
  BY <1>1, <1>2, LoopInvariant, PromptInvariant, PTL
  DEF Spec, ImplementsConversation, Conv!Conversing

=============================================================================
