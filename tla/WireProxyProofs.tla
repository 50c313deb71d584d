--------------------------- MODULE WireProxyProofs --------------------------
(***************************************************************************)
(* Theorems about WireProxy, for every set of frames of a dialect's shape, *)
(* bodies of every length and every interleaving of the server, the link   *)
(* and the client.                                                         *)
(***************************************************************************)
EXTENDS WireProxy, RecursionLemmas

\* Options.
LEMMA NoneIsOption == ASSUME NEW T PROVE None \in Option(T)
BY DEF None, Option

\* A value is an option of its set.
LEMMA SomeIsOption == ASSUME NEW T, NEW x \in T PROVE Some(x) \in Option(T)
BY DEF Some, Option

\* An option that is some holds one value of its set.
LEMMA SomeOrNone ==
  ASSUME NEW T, NEW o \in Option(T)
  PROVE  IsSome(o) => o[1] \in T /\ o = Some(o[1])
<1> SUFFICES ASSUME o # <<>> PROVE o[1] \in T /\ o = <<o[1]>>
  BY DEF IsSome, None, Some
<1>1. o \in Seq(T) /\ Len(o) = 1
  <2>1. o \in Seq(T) /\ Len(o) <= 1
    BY DEF Option
  <2>2. PICK n \in Nat : n = Len(o)
    BY <2>1
  <2>3. Len(o) # 0
    BY <2>1, EmptySeq
  <2>4. n <= 1 /\ n # 0
    BY <2>1, <2>2, <2>3
  <2>5. n = 1
    BY <2>4
  <2> QED
    BY <2>1, <2>2, <2>5
<1>2. o[1] \in T
  BY <1>1
<1> QED
  BY <1>1, <1>2, SeqEqual

\* What Some() holds.
LEMMA SomeValue == ASSUME NEW x PROVE Some(x)[1] = x /\ IsSome(Some(x)) /\ ~ IsSome(None)
BY DEF Some, None, IsSome

\* Option::or keeps the set.
LEMMA OrIsOption ==
  ASSUME NEW T, NEW o \in Option(T), NEW p \in Option(T)
  PROVE  Or(o, p) \in Option(T)
BY DEF Or

\* Parts of a sequence that may be absent.
LEMMA WhenType ==
  ASSUME NEW T, NEW c, NEW s \in Seq(T)
  PROVE  When(c, s) \in Seq(T)
BY EmptySeq DEF When

\* One element makes a sequence.
LEMMA SingletonType == ASSUME NEW T, NEW x \in T PROVE <<x>> \in Seq(T)
OBVIOUS

\* A single event, or none.
LEMMA WhenOneType ==
  ASSUME NEW T, NEW c, NEW x, c => x \in T
  PROVE  When(c, <<x>>) \in Seq(T)
<1>1. CASE c
  BY <1>1 DEF When
<1>2. CASE ~ c
  BY <1>2, EmptySeq DEF When
<1> QED
  BY <1>1, <1>2

-----------------------------------------------------------------------------

\* The provider's and the wire events are what their constructors make.
LEMMA ProviderEventTypes ==
  /\ \A t \in Texts : Text(t) \in ProviderEvents
  /\ \A id \in Ids, name \in Strings : ToolCallStart(id, name) \in ProviderEvents
  /\ \A id \in Ids, args \in Texts : ToolCallChunk(id, args) \in ProviderEvents
  /\ \A reason \in Option(Strings), usage \in Option(Usage) :
       Done(reason, usage) \in ProviderEvents
  /\ Failure \in ProviderEvents
BY DEF Text, ToolCallStart, ToolCallChunk, Done, Failure, ProviderEvents

\* What each constructor makes is a wire event.
LEMMA WireEventTypes ==
  /\ MessageStart \in WireEvents /\ WireError \in WireEvents
  /\ \A t \in Texts : TextDelta(t) \in WireEvents
  /\ \A id \in Ids, name \in Strings : WireStart(id, name) \in WireEvents
  /\ \A id \in Ids, args \in Texts : WireDelta(id, args) \in WireEvents
  /\ \A call \in ToolCalls : WireEnd(call) \in WireEvents
  /\ \A u \in Option(Usage) : UsageReport(u) \in WireEvents
  /\ \A reason \in Option(Strings) : MessageStop(reason) \in WireEvents
BY DEF MessageStart, WireError, TextDelta, WireStart, WireDelta, WireEnd, UsageReport,
       MessageStop, WireEvents, ToolCalls

\* Usage.
LEMMA MergeType ==
  ASSUME NEW u \in Usage, NEW v \in Usage
  PROVE  Merge(u, v) \in Usage
<1>1. \A f \in UsageFields : Merge(u, v)[f] = Or(v[f], u[f])
  BY DEF Merge
<1>2. /\ Or(v.prompt_tokens, u.prompt_tokens) \in Option(Counts)
      /\ Or(v.completion_tokens, u.completion_tokens) \in Option(Counts)
      /\ Or(v.total_tokens, u.total_tokens) \in Option(Totals)
  BY OrIsOption DEF Usage
<1>3. Merge(u, v) = [prompt_tokens |-> Or(v.prompt_tokens, u.prompt_tokens),
                     completion_tokens |-> Or(v.completion_tokens, u.completion_tokens),
                     total_tokens |-> Or(v.total_tokens, u.total_tokens)]
  BY DEF Merge, UsageFields
<1> QED
  BY <1>2, <1>3 DEF Usage

\* Merging a report into what was reported before keeps the type.
LEMMA MergeIntoType ==
  ASSUME NEW u \in Option(Usage), NEW v \in Option(Usage)
  PROVE  MergeInto(u, v) \in Option(Usage)
<1>1. CASE IsSome(v) /\ IsSome(u)
  <2>1. Merge(u[1], v[1]) \in Usage
    BY <1>1, SomeOrNone, MergeType
  <2> QED
    BY <1>1, <2>1, SomeIsOption DEF MergeInto
<1>2. CASE ~ (IsSome(v) /\ IsSome(u))
  BY <1>2, OrIsOption DEF MergeInto
<1> QED
  BY <1>1, <1>2

\* Anthropic's total is that of two counts.
LEMMA SumType ==
  ASSUME NEW u \in Usage
  PROVE  Sum(u) \in Option(Totals)
<1>1. CASE IsSome(u.prompt_tokens) /\ IsSome(u.completion_tokens)
  <2>1. u.prompt_tokens[1] \in Counts /\ u.completion_tokens[1] \in Counts
    BY <1>1, SomeOrNone DEF Usage
  <2>2. u.prompt_tokens[1] + u.completion_tokens[1] \in Totals
    BY <2>1 DEF Totals
  <2> QED
    BY <1>1, <2>2, SomeIsOption, NoneIsOption DEF Sum
<1>2. CASE ~ (IsSome(u.prompt_tokens) /\ IsSome(u.completion_tokens))
  BY <1>2, NoneIsOption DEF Sum, BothCounts
<1> QED
  BY <1>1, <1>2

\* What Anthropic reports is usage.
LEMMA AnthropicUsagesType ==
  /\ AnthropicUsages \subseteq Usage
  /\ \A u \in Option(AnthropicUsages) : u \in Option(Usage)
<1>1. AnthropicUsages \subseteq Usage
  BY DEF AnthropicUsages
<1>2. ASSUME NEW u \in Option(AnthropicUsages) PROVE u \in Option(Usage)
  BY <1>1, SomeOrNone, SomeIsOption, NoneIsOption DEF IsSome
<1> QED
  BY <1>1, <1>2

\* The arguments of a call that got no valid JSON are a text.
LEMMA NullType == Null \in Texts
<1>1. "null" \in Strings
  BY WireProxyAssumption
<1> QED
  BY <1>1, SingletonType DEF Null, Texts

\* Finishing a pending call keeps its type.
LEMMA FinishedType ==
  ASSUME NEW call \in ToolCalls
  PROVE  Finished(call) \in ToolCalls
<1>1. PICK args \in Texts : args = IF call.args \in ValidArgs THEN call.args ELSE Null
  BY NullType DEF ToolCalls
<1>2. Finished(call) = [call EXCEPT !.args = args]
  BY <1>1 DEF Finished
<1> QED
  BY <1>2 DEF ToolCalls

\* A call that was just opened.
LEMMA PartialType ==
  ASSUME NEW id \in Ids, NEW name \in Strings, NEW args \in Texts
  PROVE  Partial(id, name, args) \in ToolCalls
BY DEF Partial, ToolCalls

\* Texts are closed under concatenation.
LEMMA TextsConcat ==
  /\ <<>> \in Texts
  /\ \A s, t \in Texts : s \o t \in Texts
BY EmptySeq, ConcatProperties DEF Texts

-----------------------------------------------------------------------------

\* What a decoder makes of a frame.
Decoded(Locals) == [decoder : Locals, events : Seq(ProviderEvents)]

\* One tool-call delta.
ToolStates == [tool : Ids, events : Seq(ProviderEvents)]

\* A delta leaves the decoder an id, and makes events.
LEMMA ToolEventsType ==
  ASSUME NEW st \in ToolStates, NEW tc \in ToolDeltas
  PROVE  ToolEvents(st, tc) \in ToolStates
<1> DEFINE id == IF IsSome(tc.id) THEN tc.id[1] ELSE st.tool
           opens == When(IsSome(tc.id), <<ToolCallStart(id, tc.name)>>)
           extends == When(IsSome(tc.args), <<ToolCallChunk(id, tc.args[1])>>)
<1>1. /\ st.tool \in Ids /\ st.events \in Seq(ProviderEvents)
      /\ tc.id \in Option(Ids) /\ tc.name \in Strings /\ tc.args \in Option(Texts)
  BY DEF ToolStates, ToolDeltas
<1>2. id \in Ids
  BY <1>1, SomeOrNone
<1>3. opens \in Seq(ProviderEvents)
  BY <1>1, <1>2, ProviderEventTypes, WhenOneType
<1>4. extends \in Seq(ProviderEvents)
  <2>1. IsSome(tc.args) => tc.args[1] \in Texts
    BY <1>1, SomeOrNone
  <2>2. IsSome(tc.args) => ToolCallChunk(id, tc.args[1]) \in ProviderEvents
    BY <1>2, <2>1, ProviderEventTypes
  <2> QED
    BY <2>2, WhenOneType
<1>5. ToolEvents(st, tc) = [tool |-> id, events |-> st.events \o opens \o extends]
  BY DEF ToolEvents
<1> HIDE DEF id, opens, extends
<1>6. st.events \o opens \o extends \in Seq(ProviderEvents)
  BY <1>1, <1>3, <1>4, ConcatProperties
<1> QED
  BY <1>2, <1>5, <1>6 DEF ToolStates

\* f holds the ids and the events after each of the n deltas.
ToolSteps(f, tool, tools, n) ==
  /\ f[0] = [tool |-> tool, events |-> <<>>]
  /\ \A k \in 1..n : f[k] = ToolEvents(f[k - 1], tools[k])

ToolsBySteps(tool, tools, n) ==
  \E f \in [0..n -> ToolStates] :
    ToolSteps(f, tool, tools, n) /\ AllToolEvents(tool, tools) = f[n]

\* What the deltas of a chunk are decoded into is what they are, one by one.
LEMMA AllToolEventsFold ==
  ASSUME NEW tool \in Ids, NEW tools \in Seq(ToolDeltas), NEW n \in Nat, n = Len(tools)
  PROVE  ToolsBySteps(tool, tools, n)
<1>2. \A k \in 1..n : tools[k] \in ToolDeltas
  BY ElementOfSeq
<1> DEFINE base == [tool |-> tool, events |-> <<>>]
           G == [p \in ToolStates \X (1..n) |-> ToolEvents(p[1], tools[p[2]])]
           Step(g) == [k \in 0..n |-> IF k = 0 THEN base
                                      ELSE ToolEvents(g[k - 1], tools[k])]
           after == CHOOSE g : g = Step(g)
<1>3. base \in ToolStates
  BY EmptySeq DEF ToolStates
<1>4. G \in [ToolStates \X (1..n) -> ToolStates]
  BY <1>2, ToolEventsType
<1>5. PICK f \in [0..n -> ToolStates] : Iterates(f, base, G, n)
  <2> HIDE DEF base, G
  <2> QED
    BY <1>3, <1>4, Recursion
<1>6. ASSUME NEW k \in 1..n PROVE f[k] = ToolEvents(f[k - 1], tools[k])
  <2>1. k - 1 \in 0..n /\ f[k - 1] \in ToolStates
    OBVIOUS
  <2>2. f[k] = G[<<f[k - 1], k>>]
    BY <1>5 DEF Iterates
  <2> QED
    BY <2>1, <2>2
<1>7. f = Step(f)
  <2>1. f[0] = base
    BY <1>5 DEF Iterates
  <2> HIDE DEF base
  <2> QED
    BY <1>6, <2>1
<1>8. after = Step(after)
  <2> HIDE DEF Step
  <2> QED
    BY <1>7
<1>9. AllToolEvents(tool, tools) = after[n]
  BY DEF AllToolEvents
<1> HIDE DEF after, base
<1>10. Agree(after, f, n)
  <2>1. after[0] = f[0]
    BY <1>8, <1>7
  <2>2. ASSUME NEW k \in 1..n, after[k - 1] = f[k - 1] PROVE after[k] = f[k]
    <3>1. after[k] = ToolEvents(after[k - 1], tools[k])
      BY <1>8
    <3> QED
      BY <1>6, <2>2, <3>1
  <2>3. StepAlike(after, f, n)
    BY <2>2 DEF StepAlike
  <2> QED
    BY <2>1, <2>3, Agreement
<1>11. f[0] = [tool |-> tool, events |-> <<>>]
  BY <1>5 DEF Iterates, base
<1> QED
  BY <1>6, <1>9, <1>10, <1>11 DEF Agree, ToolSteps, ToolsBySteps

\* So they leave the decoder an id, and make events.
LEMMA AllToolEventsType ==
  ASSUME NEW tool \in Ids, NEW tools \in Seq(ToolDeltas)
  PROVE  AllToolEvents(tool, tools) \in ToolStates
<1>1. PICK n \in Nat : n = Len(tools)
  OBVIOUS
<1> QED
  BY <1>1, AllToolEventsFold DEF ToolsBySteps

\* A payload of the Chat Completions stream.
LEMMA DecodeType ==
  ASSUME NEW d \in Decoders, NEW frame \in Payloads
  PROVE  Decode(d, frame) \in Decoded(Decoders)
<1>1. CASE ~ frame.parses
  BY <1>1, EmptySeq DEF Decode, Decoded
<1>2. CASE frame.parses
  <2> DEFINE tools  == AllToolEvents(d.tool, frame.tools)
             finish == Or(frame.finish, d.finish)
             usage  == MergeInto(d.usage, frame.usage)
             text   == When(frame.content # <<>>, <<Text(frame.content)>>)
             reason == When(IsSome(frame.finish) /\ ~ IsSome(frame.usage), <<Done(finish, None)>>)
             report == When(IsSome(frame.usage), <<Done(finish, usage)>>)
  <2>1. /\ frame.content \in Texts /\ frame.tools \in Seq(ToolDeltas)
        /\ frame.finish \in Option(Strings) /\ frame.usage \in Option(Usage)
    BY <1>2 DEF Payloads
  <2>2. d.tool \in Ids /\ d.finish \in Option(Strings) /\ d.usage \in Option(Usage)
    BY DEF Decoders
  <2>3. tools.tool \in Ids /\ tools.events \in Seq(ProviderEvents)
    BY <2>1, <2>2, AllToolEventsType DEF ToolStates
  <2>4. finish \in Option(Strings) /\ usage \in Option(Usage)
    BY <2>1, <2>2, OrIsOption, MergeIntoType
  <2>5. text \in Seq(ProviderEvents)
    BY <2>1, ProviderEventTypes, WhenOneType
  <2>6. reason \in Seq(ProviderEvents)
    BY <2>4, NoneIsOption, ProviderEventTypes, WhenOneType
  <2>7. report \in Seq(ProviderEvents)
    BY <2>4, ProviderEventTypes, WhenOneType
  <2>8. Decode(d, frame) =
          [decoder |-> [tool |-> tools.tool, finish |-> finish, usage |-> usage],
           events |-> text \o tools.events \o reason \o report]
    BY <1>2 DEF Decode
  <2> HIDE DEF tools, finish, usage, text, reason, report
  <2>9. text \o tools.events \o reason \o report \in Seq(ProviderEvents)
    BY <2>3, <2>5, <2>6, <2>7, ConcatProperties
  <2> QED
    BY <2>3, <2>4, <2>8, <2>9 DEF Decoded, Decoders
<1> QED
  BY <1>1, <1>2

\* A payload as OpenRouter's provider reads it.
LEMMA DecodeRouterType ==
  ASSUME NEW d \in Decoders, NEW frame \in Payloads
  PROVE  DecodeRouter(d, frame) \in Decoded(Decoders)
BY DecodeType, EmptySeq DEF DecodeRouter, Decoded

\* What the decoder makes of the end of the body.
LEMMA DecodeEndType ==
  ASSUME NEW d \in Decoders
  PROVE  DecodeEnd(d) \in Seq(ProviderEvents)
<1>1. Some("stop") \in Option(Strings)
  BY SomeIsOption, WireProxyAssumption
<1>2. Done(Some("stop"), d.usage) \in ProviderEvents
  BY <1>1, ProviderEventTypes DEF Decoders
<1> QED
  BY <1>2, WhenOneType DEF DecodeEnd

\* An event of Anthropic's stream.
LEMMA DecodeAnthropicType ==
  ASSUME NEW d \in AnthropicDecoders, NEW frame \in SseEvents
  PROVE  DecodeAnthropic(d, frame) \in Decoded(AnthropicDecoders)
<1>1. d.tool \in Option(Ids) /\ d.usage \in Option(Usage) /\ d.emitted \in BOOLEAN
  BY DEF AnthropicDecoders
<1>2. Silent(d) \in Decoded(AnthropicDecoders)
  BY EmptySeq DEF Silent, Decoded
<1>3. CASE frame.event = "content_block_start"
  <2>1. frame.id \in Ids /\ frame.name \in Strings
    BY <1>3 DEF SseEvents, MessageStops, StreamFails, Ignored
  <2>2. <<ToolCallStart(frame.id, frame.name)>> \in Seq(ProviderEvents)
    BY <2>1, ProviderEventTypes, SingletonType
  <2>3. [d EXCEPT !.tool = Some(frame.id)] \in AnthropicDecoders
    BY <2>1, SomeIsOption DEF AnthropicDecoders
  <2> QED
    BY <1>3, <2>2, <2>3 DEF DecodeAnthropic, DecodeBlockStart, Decoded
<1>4. CASE frame.event = "content_block_delta"
  <2> DEFINE text == When(IsSome(frame.text) /\ frame.text # Some(<<>>), <<Text(frame.text[1])>>)
             args == When(IsSome(frame.args) /\ IsSome(d.tool),
                          <<ToolCallChunk(d.tool[1], frame.args[1])>>)
  <2>1. frame.text \in Option(Texts) /\ frame.args \in Option(Texts)
    BY <1>4 DEF SseEvents, MessageStops, StreamFails, Ignored
  <2>2. text \in Seq(ProviderEvents)
    <3>1. IsSome(frame.text) => Text(frame.text[1]) \in ProviderEvents
      BY <2>1, SomeOrNone, ProviderEventTypes
    <3> QED
      BY <3>1, WhenOneType
  <2>3. args \in Seq(ProviderEvents)
    <3>1. IsSome(frame.args) => frame.args[1] \in Texts
      BY <2>1, SomeOrNone
    <3>2. IsSome(frame.args) /\ IsSome(d.tool)
          => ToolCallChunk(d.tool[1], frame.args[1]) \in ProviderEvents
      BY <1>1, <3>1, SomeOrNone, ProviderEventTypes
    <3> QED
      BY <3>2, WhenOneType
  <2>4. DecodeAnthropic(d, frame) = [decoder |-> d, events |-> text \o args]
    BY <1>4 DEF DecodeAnthropic, DecodeBlockDelta
  <2> HIDE DEF text, args
  <2>5. text \o args \in Seq(ProviderEvents)
    BY <2>2, <2>3, ConcatProperties
  <2> QED
    BY <2>4, <2>5 DEF Decoded
<1>5. CASE frame.event = "message_delta"
  <2> DEFINE merged == MergeInto(d.usage, frame.usage)
             usage  == IF IsSome(frame.usage)
                       THEN Some([merged[1] EXCEPT !.total_tokens = Sum(merged[1])])
                       ELSE None
  <2>1. frame.reason \in Option(Strings) /\ frame.usage \in Option(Usage)
    BY <1>5, AnthropicUsagesType DEF SseEvents, MessageStops, StreamFails, Ignored
  <2>2. merged \in Option(Usage)
    BY <1>1, <2>1, MergeIntoType
  <2>3. IsSome(frame.usage) => IsSome(merged)
    BY SomeValue DEF MergeInto, Or
  <2>4. usage \in Option(Usage)
    <3>1. CASE IsSome(frame.usage)
      <4>1. merged[1] \in Usage
        BY <2>2, <2>3, <3>1, SomeOrNone
      <4> HIDE DEF merged
      <4>2. Sum(merged[1]) \in Option(Totals)
        BY <4>1, SumType
      <4>3. [merged[1] EXCEPT !.total_tokens = Sum(merged[1])] \in Usage
        BY <4>1, <4>2 DEF Usage
      <4> QED
        BY <3>1, <4>3, SomeIsOption
    <3>2. CASE ~ IsSome(frame.usage)
      BY <3>2, NoneIsOption
    <3> QED
      BY <3>1, <3>2
  <2>5. DecodeAnthropic(d, frame) =
          [decoder |-> [d EXCEPT !.usage = IF IsSome(usage) THEN usage ELSE @,
                                 !.emitted = @ \/ IsSome(usage)],
           events |-> When(IsSome(frame.reason) \/ IsSome(usage), <<Done(frame.reason, usage)>>)]
    BY <1>5 DEF DecodeAnthropic, DecodeMessageDelta
  <2> HIDE DEF merged, usage
  <2>6. When(IsSome(frame.reason) \/ IsSome(usage), <<Done(frame.reason, usage)>>)
          \in Seq(ProviderEvents)
    BY <2>1, <2>4, ProviderEventTypes, WhenOneType
  <2>7. [d EXCEPT !.usage = IF IsSome(usage) THEN usage ELSE @,
                  !.emitted = @ \/ IsSome(usage)] \in AnthropicDecoders
    BY <1>1, <2>4 DEF AnthropicDecoders, IsSome
  <2> QED
    BY <2>5, <2>6, <2>7 DEF Decoded
<1>6. CASE frame.event = "message_start"
  <2>1. frame.usage \in Usage
    BY <1>6, AnthropicUsagesType DEF SseEvents, MessageStops, StreamFails, Ignored
  <2>2. MergeInto(d.usage, Some(frame.usage)) \in Option(Usage)
    BY <1>1, <2>1, SomeIsOption, MergeIntoType
  <2>3. [d EXCEPT !.usage = MergeInto(@, Some(frame.usage))] \in AnthropicDecoders
    BY <2>2 DEF AnthropicDecoders
  <2> QED
    BY <1>6, <2>3, EmptySeq DEF DecodeAnthropic, DecodeMessageStart, Silent, Decoded
<1>7. CASE frame.event = "message_stop"
  <2>1. Done(None, d.usage) \in ProviderEvents
    BY <1>1, NoneIsOption, ProviderEventTypes
  <2>2. <<Done(None, d.usage)>> \in Seq(ProviderEvents)
    BY <2>1, SingletonType
  <2>3. [d EXCEPT !.usage = None] \in AnthropicDecoders
    BY NoneIsOption DEF AnthropicDecoders
  <2> QED
    BY <1>2, <1>7, <2>2, <2>3 DEF DecodeAnthropic, DecodeMessageStop, Decoded
<1>8. CASE frame.event = "error"
  <2>1. <<Failure>> \in Seq(ProviderEvents)
    BY ProviderEventTypes, SingletonType
  <2> QED
    BY <1>8, <2>1 DEF DecodeAnthropic, Decoded
<1>9. CASE frame.event \notin {"content_block_start", "content_block_delta", "message_delta",
                               "message_start", "message_stop", "error"}
  BY <1>2, <1>9 DEF DecodeAnthropic
<1> QED
  BY <1>3, <1>4, <1>5, <1>6, <1>7, <1>8, <1>9

-----------------------------------------------------------------------------

\* The five kinds of provider events, with what each one carries.
LEMMA ProviderEventCases ==
  ASSUME NEW e \in ProviderEvents
  PROVE  \/ e.kind = "text" /\ e.text \in Texts
         \/ e.kind = "start" /\ e.id \in Ids /\ e.name \in Strings
         \/ e.kind = "chunk" /\ e.id \in Ids /\ e.args \in Texts
         \/ e.kind = "done" /\ e.reason \in Option(Strings) /\ e.usage \in Option(Usage)
         \/ e.kind = "err"
BY DEF ProviderEvents, Failure

\* The eight kinds of wire events.
LEMMA WireEventCases ==
  ASSUME NEW e \in WireEvents
  PROVE  \/ e.type = "message_start"
         \/ e.type = "text_delta" /\ e.text \in Texts
         \/ e.type = "tool_call_start" /\ e.id \in Ids /\ e.name \in Strings
         \/ e.type = "tool_call_delta" /\ e.id \in Ids /\ e.args \in Texts
         \/ e.type = "tool_call_end" /\ e.id \in Ids /\ e.name \in Strings /\ e.args \in Texts
         \/ e.type = "usage" /\ e.usage \in Option(Usage)
         \/ e.type = "message_stop" /\ e.reason \in Option(Strings)
         \/ e.type = "error"
BY DEF WireEvents, MessageStart, WireError

\* What the relay makes of a provider's event.
Relayed == [relay : Relays, events : Seq(WireEvents)]

\* The relay's end of a pending call.
LEMMA CloseCallType ==
  ASSUME NEW r \in Relays
  PROVE  CloseCall(r) \in Seq(WireEvents)
<1>1. IsSome(r.pending) => r.pending[1] \in ToolCalls
  BY SomeOrNone DEF Relays
<1>2. IsSome(r.pending) => WireEnd(r.pending[1]) \in WireEvents
  BY <1>1, WireEventTypes
<1> QED
  BY <1>2, WhenOneType DEF CloseCall

\* A pending call takes arguments.
LEMMA ArgumentsAdded ==
  ASSUME NEW o \in Option(ToolCalls), IsSome(o), NEW args \in Texts
  PROVE  /\ [o EXCEPT ![1].args = @ \o args] = Some([o[1] EXCEPT !.args = @ \o args])
         /\ [o EXCEPT ![1].args = @ \o args] \in Option(ToolCalls)
<1>1. PICK call \in ToolCalls : o = <<call>>
  BY SomeOrNone DEF Some
<1>2. [call EXCEPT !.args = @ \o args] \in ToolCalls
  BY TextsConcat DEF ToolCalls
<1>3. [<<call>> EXCEPT ![1].args = @ \o args] = <<[call EXCEPT !.args = @ \o args]>>
  <2>1. PICK longer \in ToolCalls : longer = [call EXCEPT !.args = @ \o args]
    BY <1>2
  <2>2. <<call>>[1] = call
    OBVIOUS
  <2>3. [<<call>> EXCEPT ![1].args = @ \o args] = [<<call>> EXCEPT ![1] = longer]
    BY <2>1, <2>2
  <2>4. [<<call>> EXCEPT ![1] = longer] = <<longer>>
    OBVIOUS
  <2> QED
    BY <2>1, <2>3, <2>4
<1> QED
  BY <1>1, <1>2, <1>3, SomeIsOption DEF Some

\* The relay keeps its type and writes wire events, whatever the event.
LEMMA RelayEventType ==
  ASSUME NEW r \in Relays, NEW e \in ProviderEvents
  PROVE  RelayEvent(r, e) \in Relayed
<1>1. /\ r.pending \in Option(ToolCalls) /\ r.finish \in Option(Strings)
      /\ r.usage \in Option(Usage)
  BY DEF Relays
<1>2. CASE e.kind = "text"
  <2>1. <<TextDelta(e.text)>> \in Seq(WireEvents)
    BY <1>2, ProviderEventCases, WireEventTypes, SingletonType
  <2> QED
    BY <1>2, <2>1 DEF RelayEvent, RelayText, Relayed
<1>3. CASE e.kind = "start"
  <2>1. e.id \in Ids /\ e.name \in Strings
    BY <1>3, ProviderEventCases
  <2>2. <<WireStart(e.id, e.name)>> \in Seq(WireEvents)
    BY <2>1, WireEventTypes, SingletonType
  <2>3. CloseCall(r) \o <<WireStart(e.id, e.name)>> \in Seq(WireEvents)
    BY <2>2, CloseCallType, ConcatProperties
  <2>4. Some(Partial(e.id, e.name, <<>>)) \in Option(ToolCalls)
    BY <2>1, TextsConcat, PartialType, SomeIsOption
  <2>5. [r EXCEPT !.pending = Some(Partial(e.id, e.name, <<>>))] \in Relays
    BY <2>4 DEF Relays
  <2> QED
    BY <1>3, <2>3, <2>5 DEF RelayEvent, RelayStart, Relayed
<1>4. CASE e.kind = "chunk"
  <2> DEFINE id   == IF IsSome(r.pending) /\ e.id = "" THEN r.pending[1].id ELSE e.id
             mine == IsSome(r.pending) /\ r.pending[1].id = id
  <2>1. e.id \in Ids /\ e.args \in Texts
    BY <1>4, ProviderEventCases
  <2>2. IsSome(r.pending) => r.pending[1] \in ToolCalls
    BY <1>1, SomeOrNone
  <2>3. id \in Ids
    BY <2>1, <2>2 DEF ToolCalls
  <2>4. RelayEvent(r, e) =
          [relay |-> IF mine THEN [r EXCEPT !.pending[1].args = @ \o e.args] ELSE r,
           events |-> <<WireDelta(id, e.args)>>]
    BY <1>4 DEF RelayEvent, RelayChunk
  <2> HIDE DEF id
  <2>5. <<WireDelta(id, e.args)>> \in Seq(WireEvents)
    BY <2>1, <2>3, WireEventTypes, SingletonType
  <2>6. mine => [r.pending EXCEPT ![1].args = @ \o e.args] \in Option(ToolCalls)
    BY <1>1, <2>1, ArgumentsAdded
  <2>7. [r EXCEPT !.pending[1].args = @ \o e.args] =
          [r EXCEPT !.pending = [r.pending EXCEPT ![1].args = @ \o e.args]]
    BY DEF Relays
  <2>8. mine => [r EXCEPT !.pending[1].args = @ \o e.args] \in Relays
    BY <2>6, <2>7 DEF Relays
  <2> QED
    BY <2>4, <2>5, <2>8 DEF Relayed
<1>5. CASE e.kind = "done"
  <2>1. e.reason \in Option(Strings) /\ e.usage \in Option(Usage)
    BY <1>5, ProviderEventCases
  <2>2. Or(e.reason, r.finish) \in Option(Strings) /\ MergeInto(r.usage, e.usage) \in Option(Usage)
    BY <1>1, <2>1, OrIsOption, MergeIntoType
  <2>3. When(IsSome(e.reason), CloseCall(r)) \in Seq(WireEvents)
    BY CloseCallType, WhenType
  <2> QED
    BY <1>1, <1>5, <2>2, <2>3, NoneIsOption DEF RelayEvent, RelayDone, Relayed, Relays
<1>6. CASE e.kind = "err"
  <2>1. <<WireError>> \in Seq(WireEvents)
    BY WireEventTypes, SingletonType
  <2> QED
    BY <1>6, <2>1 DEF RelayEvent, Relayed
<1> QED
  BY <1>2, <1>3, <1>4, <1>5, <1>6, ProviderEventCases

\* What the relay writes at the end of the body.
LEMMA RelayEndType ==
  ASSUME NEW r \in Relays
  PROVE  RelayEnd(r) \in Seq(WireEvents)
<1>1. When(IsSome(r.usage), <<UsageReport(r.usage)>>) \in Seq(WireEvents)
  BY WireEventTypes, WhenOneType DEF Relays
<1>2. <<MessageStop(r.finish)>> \in Seq(WireEvents)
  BY WireEventTypes, SingletonType DEF Relays
<1> QED
  BY <1>1, <1>2, CloseCallType, ConcatProperties DEF RelayEnd

-----------------------------------------------------------------------------

\* A flush touches the calls alone.
LEMMA FlushType ==
  ASSUME NEW a \in Accumulators
  PROVE  /\ Flush(a) \in Accumulators
         /\ \A f \in {"model", "text", "usage", "finish", "failed", "stopped"} :
              Flush(a)[f] = a[f]
<1>1. CASE IsSome(a.pending)
  <2>1. a.pending[1] \in ToolCalls
    BY <1>1, SomeOrNone DEF Accumulators
  <2>2. Append(a.calls, Finished(a.pending[1])) \in Seq(ToolCalls)
    BY <2>1, FinishedType, AppendProperties DEF Accumulators
  <2>3. Flush(a) = [a EXCEPT !.calls = Append(@, Finished(a.pending[1])), !.pending = None]
    BY <1>1 DEF Flush
  <2> QED
    BY <2>2, <2>3, NoneIsOption DEF Accumulators
<1>2. CASE ~ IsSome(a.pending)
  BY <1>2 DEF Flush
<1> QED
  BY <1>1, <1>2

\* The parts of an accumulator that no tool event touches.
Same(a, b) ==
  \A f \in {"model", "text", "usage", "finish", "failed", "stopped"} : b[f] = a[f]

\* A start keeps the accumulator's type.
LEMMA PushStartType ==
  ASSUME NEW a \in Accumulators, NEW e, e.id \in Ids, e.name \in Strings
  PROVE  PushStart(a, e) \in Accumulators /\ Same(a, PushStart(a, e))
<1>1. Some(Partial(e.id, e.name, <<>>)) \in Option(ToolCalls)
  BY TextsConcat, PartialType, SomeIsOption
<1>2. PushStart(a, e) = [Flush(a) EXCEPT !.pending = Some(Partial(e.id, e.name, <<>>))]
  BY DEF PushStart
<1> QED
  BY <1>1, <1>2, FlushType DEF Accumulators, Same

\* So do a delta's arguments, those that are dropped included.
LEMMA PushDeltaType ==
  ASSUME NEW a \in Accumulators, NEW e, e.id \in Ids, e.args \in Texts
  PROVE  PushDelta(a, e) \in Accumulators /\ Same(a, PushDelta(a, e))
<1>1. CASE IsSome(a.pending) /\ a.pending[1].id = e.id
  <2>1. [a.pending EXCEPT ![1].args = @ \o e.args] \in Option(ToolCalls)
    BY <1>1, ArgumentsAdded DEF Accumulators
  <2>2. PushDelta(a, e) = [a EXCEPT !.pending = [a.pending EXCEPT ![1].args = @ \o e.args]]
    BY <1>1 DEF PushDelta, Accumulators
  <2> QED
    BY <2>1, <2>2 DEF Accumulators, Same
<1>2. CASE ~ (IsSome(a.pending) /\ a.pending[1].id = e.id)
  <2>1. Some(Partial(e.id, "", e.args)) \in Option(ToolCalls)
    BY PartialType, SomeIsOption, WireProxyAssumption
  <2>2. PushDelta(a, e) = [Flush(a) EXCEPT !.pending = Some(Partial(e.id, "", e.args))]
    BY <1>2 DEF PushDelta
  <2> QED
    BY <2>1, <2>2, FlushType DEF Accumulators, Same
<1> QED
  BY <1>1, <1>2

\* So does an end, with a call that was open or not.
LEMMA PushEndType ==
  ASSUME NEW a \in Accumulators, NEW e, e.id \in Ids, e.name \in Strings, e.args \in Texts
  PROVE  PushEnd(a, e) \in Accumulators /\ Same(a, PushEnd(a, e))
<1> DEFINE rest == IF IsSome(a.pending) /\ a.pending[1].id = e.id
                   THEN [a EXCEPT !.pending = None]
                   ELSE Flush(a)
           call == Finished(Partial(e.id, e.name, e.args))
<1>1. rest \in Accumulators /\ Same(a, rest)
  BY FlushType, NoneIsOption DEF Accumulators, Same
<1>2. call \in ToolCalls
  BY PartialType, FinishedType
<1>3. PushEnd(a, e) = [rest EXCEPT !.calls = Append(@, call)]
  BY DEF PushEnd
<1> HIDE DEF rest, call
<1>4. Append(rest.calls, call) \in Seq(ToolCalls)
  BY <1>1, <1>2, AppendProperties DEF Accumulators
<1> QED
  BY <1>1, <1>3, <1>4 DEF Accumulators, Same

\* What each wire event does to the parts of an accumulator but its calls.
LEMMA PushType ==
  ASSUME NEW a \in Accumulators, NEW e \in WireEvents
  PROVE  /\ Push(a, e) \in Accumulators
         /\ Push(a, e).model = (a.model \/ e.type = "message_start")
         /\ Push(a, e).text = IF e.type = "text_delta" THEN a.text \o e.text ELSE a.text
         /\ Push(a, e).usage = IF e.type = "usage" THEN MergeInto(a.usage, e.usage) ELSE a.usage
         /\ Push(a, e).finish = IF e.type = "message_stop" THEN Or(e.reason, a.finish) ELSE a.finish
         /\ Push(a, e).failed = (a.failed \/ e.type = "error")
         /\ Push(a, e).stopped = (a.stopped \/ e.type = "message_stop")
<1>1. CASE e.type = "message_start"
  BY <1>1 DEF Push, Accumulators
<1>2. CASE e.type = "text_delta"
  <2>1. a.text \o e.text \in Texts
    BY <1>2, WireEventCases, TextsConcat DEF Accumulators
  <2> QED
    BY <1>2, <2>1 DEF Push, Accumulators
<1>3. CASE e.type = "tool_call_start"
  <2>1. PushStart(a, e) \in Accumulators /\ Same(a, PushStart(a, e))
    BY <1>3, WireEventCases, PushStartType
  <2> QED
    BY <1>3, <2>1 DEF Push, Same, Accumulators
<1>4. CASE e.type = "tool_call_delta"
  <2>1. PushDelta(a, e) \in Accumulators /\ Same(a, PushDelta(a, e))
    BY <1>4, WireEventCases, PushDeltaType
  <2> QED
    BY <1>4, <2>1 DEF Push, Same, Accumulators
<1>5. CASE e.type = "tool_call_end"
  <2>1. PushEnd(a, e) \in Accumulators /\ Same(a, PushEnd(a, e))
    BY <1>5, WireEventCases, PushEndType
  <2> QED
    BY <1>5, <2>1 DEF Push, Same, Accumulators
<1>6. CASE e.type = "usage"
  <2>1. MergeInto(a.usage, e.usage) \in Option(Usage)
    BY <1>6, WireEventCases, MergeIntoType DEF Accumulators
  <2> QED
    BY <1>6, <2>1 DEF Push, Accumulators
<1>7. CASE e.type = "message_stop"
  <2>1. Or(e.reason, a.finish) \in Option(Strings)
    BY <1>7, WireEventCases, OrIsOption DEF Accumulators
  <2>2. Flush(a) \in Accumulators /\ Same(a, Flush(a))
    BY FlushType DEF Same
  <2>3. Push(a, e) = [Flush(a) EXCEPT !.finish = Or(e.reason, @), !.stopped = TRUE]
    BY <1>7 DEF Push
  <2>4. PICK b \in Accumulators : b = Flush(a) /\ Same(a, b)
    BY <2>2
  <2>5. PICK reason \in Option(Strings) : reason = Or(e.reason, a.finish)
    BY <2>1
  <2>6. b.finish = a.finish
    BY <2>4 DEF Same
  <2>7. Push(a, e) = [b EXCEPT !.finish = reason, !.stopped = TRUE]
    BY <2>3, <2>4, <2>5, <2>6
  <2>8. Push(a, e) \in Accumulators
    BY <2>7 DEF Accumulators
  <2> QED
    BY <1>7, <2>4, <2>5, <2>7, <2>8 DEF Accumulators, Same
<1>8. CASE e.type = "error"
  BY <1>8 DEF Push, Accumulators
<1> QED
  BY <1>1, <1>2, <1>3, <1>4, <1>5, <1>6, <1>7, <1>8, WireEventCases

\* A report of usage is merged and changes nothing else.
LEMMA PushUsage ==
  ASSUME NEW a \in Accumulators, NEW e \in WireEvents, e.type = "usage"
  PROVE  /\ Push(a, e).model = a.model /\ Push(a, e).text = a.text
         /\ Push(a, e).usage = MergeInto(a.usage, e.usage) /\ Push(a, e).finish = a.finish
         /\ Push(a, e).failed = a.failed /\ Push(a, e).stopped = a.stopped
BY DEF Push, Accumulators

\* A stop ends the response and may name its reason.
LEMMA PushStop ==
  ASSUME NEW a \in Accumulators, NEW e \in WireEvents, e.type = "message_stop"
  PROVE  /\ Push(a, e).model = a.model /\ Push(a, e).text = a.text
         /\ Push(a, e).usage = a.usage /\ Push(a, e).finish = Or(e.reason, a.finish)
         /\ Push(a, e).failed = a.failed /\ Push(a, e).stopped = TRUE
<1>1. /\ Push(a, e).model = (a.model \/ FALSE) /\ Push(a, e).text = a.text
      /\ Push(a, e).usage = a.usage /\ Push(a, e).finish = Or(e.reason, a.finish)
      /\ Push(a, e).failed = (a.failed \/ FALSE) /\ Push(a, e).stopped = (a.stopped \/ TRUE)
  BY PushType
<1>2. a.model \in BOOLEAN /\ a.failed \in BOOLEAN /\ a.stopped \in BOOLEAN
  BY DEF Accumulators
<1> QED
  BY <1>1, <1>2

\* The in-process consumers.
LEMMA CollectType ==
  ASSUME NEW c \in LocalResponses, NEW e \in ProviderEvents
  PROVE  Collect(c, e) \in LocalResponses
<1>1. CASE e.kind = "text"
  <2>1. c.text \o e.text \in Texts
    BY <1>1, ProviderEventCases, TextsConcat DEF LocalResponses
  <2> QED
    BY <1>1, <2>1 DEF Collect, LocalResponses
<1>2. CASE e.kind = "done"
  <2>1. Or(e.reason, c.finish) \in Option(Strings) /\ MergeInto(c.usage, e.usage) \in Option(Usage)
    BY <1>2, ProviderEventCases, OrIsOption, MergeIntoType DEF LocalResponses
  <2> QED
    BY <1>2, <2>1 DEF Collect, LocalResponses
<1>3. CASE e.kind \notin {"text", "done"}
  BY <1>3 DEF Collect
<1> QED
  BY <1>1, <1>2, <1>3

\* Taking the open call of an in-process turn.
LEMMA TakeCallType ==
  ASSUME NEW t \in Turns
  PROVE  TakeCall(t) \in Turns
<1>1. CASE IsSome(t.open)
  <2>1. t.open[1] \in ToolCalls
    BY <1>1, SomeOrNone DEF Turns
  <2>2. [t.open[1] EXCEPT !.args = t.args] \in ToolCalls
    BY <2>1 DEF ToolCalls, Turns
  <2>3. Append(t.calls, Finished([t.open[1] EXCEPT !.args = t.args])) \in Seq(ToolCalls)
    BY <2>2, FinishedType, AppendProperties DEF Turns
  <2> QED
    BY <1>1, <2>3, NoneIsOption, TextsConcat DEF TakeCall, Turns
<1>2. CASE ~ IsSome(t.open)
  BY <1>2 DEF TakeCall
<1> QED
  BY <1>1, <1>2

\* One provider event, as the in-process turn is assembled.
LEMMA AssembleType ==
  ASSUME NEW t \in Turns, NEW e \in ProviderEvents
  PROVE  Assemble(t, e) \in Turns
<1>1. CASE e.kind = "text"
  <2>1. t.text \o e.text \in Texts
    BY <1>1, ProviderEventCases, TextsConcat DEF Turns
  <2> QED
    BY <1>1, <2>1 DEF Assemble, Turns
<1>2. CASE e.kind = "start"
  <2>1. Some(Partial(e.id, e.name, <<>>)) \in Option(ToolCalls)
    BY <1>2, ProviderEventCases, TextsConcat, PartialType, SomeIsOption
  <2>2. Assemble(t, e) = [TakeCall(t) EXCEPT !.open = Some(Partial(e.id, e.name, <<>>))]
    BY <1>2 DEF Assemble
  <2> QED
    BY <2>1, <2>2, TakeCallType DEF Turns
<1>3. CASE e.kind = "chunk"
  <2>1. t.args \o e.args \in Texts
    BY <1>3, ProviderEventCases, TextsConcat DEF Turns
  <2> QED
    BY <1>3, <2>1 DEF Assemble, Turns
<1>4. CASE e.kind \notin {"text", "start", "chunk"}
  BY <1>4 DEF Assemble
<1> QED
  BY <1>1, <1>2, <1>3, <1>4

-----------------------------------------------------------------------------

\* Locals of the provider's decoder.
Locals == IF provider = "anthropic" THEN AnthropicDecoders ELSE Decoders

\* Each provider's decoder keeps its own locals.
LEMMA DecodeFrameType ==
  ASSUME TypeOK, NEW frame \in Frames[provider]
  PROVE  DecodeFrame(frame) \in Decoded(Locals)
<1>1. provider \in {"chat", "openrouter", "anthropic"} /\ decoder \in Locals
  BY WireProxyAssumption DEF TypeOK, Locals
<1>2. frame \in IF provider = "anthropic" THEN SseEvents ELSE Payloads
  BY WireProxyAssumption DEF TypeOK
<1>3. CASE provider = "chat"
  BY <1>1, <1>2, <1>3, DecodeType DEF DecodeFrame, Locals
<1>4. CASE provider = "openrouter"
  BY <1>1, <1>2, <1>4, DecodeRouterType DEF DecodeFrame, Locals
<1>5. CASE provider = "anthropic"
  BY <1>1, <1>2, <1>5, DecodeAnthropicType DEF DecodeFrame, Locals
<1> QED
  BY <1>1, <1>3, <1>4, <1>5

\* The in-process consumers begin with their types.
LEMMA LocalResponsesHasNew == NewResponse \in LocalResponses /\ NewTurn \in Turns
<1>1. <<>> \in Texts /\ <<>> \in Seq(ToolCalls)
  BY TextsConcat, EmptySeq
<1>2. None \in Option(Strings) /\ None \in Option(Usage) /\ None \in Option(ToolCalls)
  BY NoneIsOption
<1> QED
  BY <1>1, <1>2 DEF NewResponse, LocalResponses, NewTurn, Turns

\* So does the accumulator.
LEMMA NewAccumulatorType == NewAccumulator \in Accumulators
<1>1. <<>> \in Texts /\ <<>> \in Seq(ToolCalls)
  BY TextsConcat, EmptySeq
<1>2. None \in Option(Strings) /\ None \in Option(Usage) /\ None \in Option(ToolCalls)
  BY NoneIsOption
<1> QED
  BY <1>1, <1>2 DEF NewAccumulator, Accumulators

\* The types hold before the first poll.
LEMMA TypeInit == Init => TypeOK
<1> SUFFICES ASSUME Init PROVE TypeOK
  OBVIOUS
<1>1. None \in Option(Strings) /\ None \in Option(Usage) /\ None \in Option(ToolCalls)
      /\ None \in Option(Nat)
  BY NoneIsOption
<1>2. decoder \in Locals
  BY <1>1, NoneIsOption, WireProxyAssumption
  DEF Init, Locals, AnthropicDecoder, AnthropicDecoders, Decoder, Decoders
<1>3. Relay \in Relays
  BY <1>1 DEF Relay, Relays
<1>4. /\ <<>> \in Seq(Frames[provider]) /\ Len(<<>>) = 0
      /\ <<>> \in Seq(ProviderEvents) /\ <<>> \in Seq(WireEvents)
  OBVIOUS
<1>5. MaxFrames \in Nat
  BY WireProxyAssumption
<1> QED
  BY <1>1, <1>2, <1>3, <1>4, <1>5, NewAccumulatorType, LocalResponsesHasNew
  DEF Init, TypeOK, Locals

\* A stream that is extended still holds what was taken and what got through.
LEMMA SentGrows ==
  ASSUME TypeOK, NEW more \in Seq(WireEvents)
  PROVE  /\ sent \o more \in Seq(WireEvents)
         /\ taken \in 0..Len(sent \o more)
         /\ cut # None => cut[1] \in taken..Len(sent \o more)
<1>1. sent \in Seq(WireEvents) /\ taken \in 0..Len(sent)
      /\ (cut # None => cut[1] \in taken..Len(sent))
  BY DEF TypeOK
<1>2. PICK n \in Nat, m \in Nat : n = Len(sent) /\ m = Len(more)
  BY <1>1
<1>3. sent \o more \in Seq(WireEvents) /\ Len(sent \o more) = n + m
  BY <1>1, <1>2, ConcatProperties
<1>4. taken \in 0..(n + m) /\ (cut # None => cut[1] \in taken..(n + m))
  BY <1>1, <1>2
<1> QED
  BY <1>3, <1>4

\* Nothing is sent before the first poll, and the first event with it.
Unpolled == serving = "unpolled" <=> sent = <<>>

\* Every step keeps the types.
LEMMA TypeStep == TypeOK /\ Unpolled /\ [Next]_vars => TypeOK'
<1> SUFFICES ASSUME TypeOK, Unpolled, [Next]_vars PROVE TypeOK'
  OBVIOUS
<1>1. CASE UNCHANGED vars
  BY <1>1 DEF vars, server, client, TypeOK
<1>2. CASE Open
  <2>1. <<MessageStart>> \in Seq(WireEvents)
    BY WireEventTypes, SingletonType
  <2>2. sent' = sent \o <<MessageStart>>
    BY <1>2, <2>1, ConcatEmptySeq DEF Open, Unpolled
  <2> QED
    BY <1>2, <2>1, <2>2, SentGrows DEF Open, TypeOK, client
<1>3. ASSUME NEW frame \in Frames[provider], ReceiveFrame(frame) PROVE TypeOK'
  <2>1. decoder' \in Locals /\ yielded' \in Seq(ProviderEvents)
    BY <1>3, DecodeFrameType DEF ReceiveFrame, Decoded
  <2>2. said' \in Seq(Frames[provider]) /\ Len(said') <= MaxFrames
    <3>1. said \in Seq(Frames[provider]) /\ Len(said) < MaxFrames /\ said' = Append(said, frame)
      BY <1>3 DEF ReceiveFrame, TypeOK
    <3>2. PICK n \in Nat : n = Len(said)
      BY <3>1
    <3>3. said' \in Seq(Frames[provider]) /\ Len(said') = n + 1
      BY <3>1, <3>2, AppendProperties
    <3>4. MaxFrames \in Nat /\ n < MaxFrames
      BY <3>1, <3>2, WireProxyAssumption
    <3>5. n + 1 <= MaxFrames
      BY <3>4
    <3> QED
      BY <3>3, <3>5
  <2> QED
    BY <1>3, <2>1, <2>2 DEF ReceiveFrame, TypeOK, Locals, client
<1>4. CASE BreakBody
  <2>1. <<Failure>> \in Seq(ProviderEvents)
    BY ProviderEventTypes, SingletonType
  <2> QED
    BY <1>4, <2>1 DEF BreakBody, TypeOK, client
<1>5. CASE EndBody
  <2>1. yielded' \in Seq(ProviderEvents)
    BY <1>5, DecodeEndType, EmptySeq DEF EndBody, TypeOK
  <2> QED
    BY <1>5, <2>1 DEF EndBody, TypeOK, client
<1>6. CASE RelayNext
  <2> DEFINE event   == Head(yielded)
             relayed == RelayEvent(relay, event)
  <2>1. event \in ProviderEvents /\ Tail(yielded) \in Seq(ProviderEvents)
    BY <1>6, HeadTailProperties DEF RelayNext, TypeOK
  <2>2. relayed.relay \in Relays /\ relayed.events \in Seq(WireEvents)
    BY <2>1, RelayEventType DEF TypeOK, Relayed
  <2>3. local' \in [response : LocalResponses, turn : Turns, failed : BOOLEAN]
    <3>1. Collect(local.response, event) \in LocalResponses /\ Assemble(local.turn, event) \in Turns
      BY <2>1, CollectType, AssembleType DEF TypeOK
    <3> QED
      BY <1>6, <3>1 DEF RelayNext
  <2>4. /\ yielded' = Tail(yielded) /\ relay' = relayed.relay /\ sent' = sent \o relayed.events
        /\ serving' \in {"relaying", "over"}
        /\ UNCHANGED <<provider, body, said, decoder, cut, client>>
    BY <1>6 DEF RelayNext
  <2> HIDE DEF event, relayed
  <2> QED
    BY <2>1, <2>2, <2>3, <2>4, SentGrows DEF TypeOK, client
<1>7. CASE CloseWire
  <2>1. RelayEnd(relay) \in Seq(WireEvents)
    BY RelayEndType DEF TypeOK
  <2> QED
    BY <1>7, <2>1, SentGrows DEF CloseWire, TypeOK, client
<1>8. CASE CutLink
  <2>1. PICK n \in taken..Len(sent) : cut' = Some(n)
    BY <1>8 DEF CutLink
  <2>2. n \in Nat
    <3>1. PICK m \in Nat : m = Len(sent)
      BY DEF TypeOK
    <3> QED
      BY <3>1 DEF TypeOK
  <2>3. Some(n) \in Option(Nat) /\ Some(n)[1] = n
    BY <2>2, SomeIsOption, SomeValue
  <2> QED
    BY <1>8, <2>1, <2>3 DEF CutLink, TypeOK, client
<1>9. CASE ClientReceives
  <2>1. PICK n \in Nat : n = Len(sent)
    BY DEF TypeOK
  <2>2. taken < Arriving /\ (cut # None => cut[1] \in taken..n)
    BY <1>9, <2>1 DEF ClientReceives, TypeOK
  <2>3. taken + 1 \in 1..n /\ (cut # None => cut[1] \in (taken + 1)..n)
    BY <2>1, <2>2 DEF TypeOK, Arriving, IsSome
  <2>4. sent[taken + 1] \in WireEvents
    BY <2>1, <2>3, ElementOfSeq DEF TypeOK
  <2>5. acc' \in Accumulators
    BY <1>9, <2>4, PushType DEF ClientReceives, TypeOK
  <2> QED
    BY <1>9, <2>1, <2>3, <2>5 DEF ClientReceives, TypeOK, server
<1>10. CASE ClientFinishes
  BY <1>10 DEF ClientFinishes, TypeOK, server
<1> QED
  BY <1>1, <1>2, <1>3, <1>4, <1>5, <1>6, <1>7, <1>8, <1>9, <1>10
  DEF Next, ServerStep, ClientStep

-----------------------------------------------------------------------------

\* What the client's accumulator holds after the events of s.
Received(s) ==
  LET after[k \in 0..Len(s)] ==
        IF k = 0 THEN NewAccumulator ELSE Push(after[k - 1], s[k])
  IN  after[Len(s)]

\* f holds the accumulators after each of the n events of s.
Accumulates(f, s, n) ==
  f[0] = NewAccumulator /\ \A k \in 1..n : f[k] = Push(f[k - 1], s[k])

ReceivedBySteps(s, n) ==
  \E f \in [0..n -> Accumulators] : Accumulates(f, s, n) /\ Received(s) = f[n]

\* What Push makes of the events of s is what its steps make, one by one.
LEMMA ReceivedFold ==
  ASSUME NEW s \in Seq(WireEvents), NEW n \in Nat, n = Len(s)
  PROVE  ReceivedBySteps(s, n)
<1>1. \A k \in 1..n : s[k] \in WireEvents
  BY ElementOfSeq
<1> DEFINE G == [p \in Accumulators \X (1..n) |-> Push(p[1], s[p[2]])]
           Step(g) == [k \in 0..n |-> IF k = 0 THEN NewAccumulator
                                      ELSE Push(g[k - 1], s[k])]
           after == CHOOSE g : g = Step(g)
<1>2. G \in [Accumulators \X (1..n) -> Accumulators]
  BY <1>1, PushType
<1>3. PICK f \in [0..n -> Accumulators] : Iterates(f, NewAccumulator, G, n)
  <2> HIDE DEF G
  <2> QED
    BY <1>2, NewAccumulatorType, Recursion
<1>4. ASSUME NEW k \in 1..n PROVE f[k] = Push(f[k - 1], s[k])
  <2>1. k - 1 \in 0..n /\ f[k - 1] \in Accumulators
    OBVIOUS
  <2>2. f[k] = G[<<f[k - 1], k>>]
    BY <1>3 DEF Iterates
  <2> QED
    BY <2>1, <2>2
<1>5. f = Step(f)
  <2>1. f[0] = NewAccumulator
    BY <1>3 DEF Iterates
  <2> QED
    BY <1>4, <2>1
<1>6. after = Step(after)
  <2> HIDE DEF Step
  <2> QED
    BY <1>5
<1>7. Received(s) = after[n]
  BY DEF Received
<1> HIDE DEF after
<1>8. Agree(after, f, n)
  <2>1. after[0] = f[0]
    BY <1>5, <1>6
  <2>2. ASSUME NEW k \in 1..n, after[k - 1] = f[k - 1] PROVE after[k] = f[k]
    <3>1. after[k] = Push(after[k - 1], s[k])
      BY <1>6
    <3> QED
      BY <1>4, <2>2, <3>1
  <2>3. StepAlike(after, f, n)
    BY <2>2 DEF StepAlike
  <2> QED
    BY <2>1, <2>3, Agreement
<1>9. Received(s) = f[n]
  BY <1>7, <1>8 DEF Agree
<1> QED
  BY <1>3, <1>4, <1>9 DEF Iterates, Accumulates, ReceivedBySteps

\* Whatever was received, the accumulator keeps its type.
LEMMA ReceivedType ==
  ASSUME NEW s \in Seq(WireEvents)
  PROVE  Received(s) \in Accumulators
<1>1. PICK n \in Nat : n = Len(s)
  OBVIOUS
<1> QED
  BY <1>1, ReceivedFold DEF ReceivedBySteps

\* Nothing received, nothing accumulated.
LEMMA ReceivedNothing == Received(<<>>) = NewAccumulator
<1>1. <<>> \in Seq(WireEvents) /\ Len(<<>>) = 0
  BY EmptySeq
<1> QED
  BY <1>1, ReceivedFold DEF ReceivedBySteps, Accumulates

\* One more event is pushed onto what the others left.
LEMMA ReceivedMore ==
  ASSUME NEW s \in Seq(WireEvents), NEW e \in WireEvents
  PROVE  Received(Append(s, e)) = Push(Received(s), e)
<1>1. PICK n \in Nat, m \in Nat : n = Len(s) /\ m = n + 1
  OBVIOUS
<1> DEFINE u == Append(s, e)
<1>2. /\ u \in Seq(WireEvents) /\ Len(u) = m /\ u[m] = e
      /\ \A k \in 1..n : u[k] = s[k]
  BY <1>1, AppendProperties
<1> HIDE DEF u
<1>3. PICK f \in [0..n -> Accumulators] : Accumulates(f, s, n) /\ Received(s) = f[n]
  BY <1>1, ReceivedFold DEF ReceivedBySteps
<1>4. PICK g \in [0..m -> Accumulators] : Accumulates(g, u, m) /\ Received(u) = g[m]
  BY <1>2, ReceivedFold DEF ReceivedBySteps
<1>5. ASSUME NEW k \in 1..n, f[k - 1] = g[k - 1] PROVE f[k] = g[k]
  <2>1. f[k] = Push(f[k - 1], s[k])
    BY <1>3 DEF Accumulates
  <2>2. k \in 1..m
    BY <1>1
  <2>3. g[k] = Push(g[k - 1], u[k])
    BY <1>4, <2>2 DEF Accumulates
  <2> QED
    BY <1>2, <1>5, <2>1, <2>3
<1>6. f[n] = g[n]
  <2>1. f[0] = g[0]
    BY <1>3, <1>4 DEF Accumulates
  <2>2. Agree(f, g, n)
    BY <1>5, <2>1, Agreement DEF StepAlike
  <2> QED
    BY <2>2 DEF Agree
<1>7. g[m] = Push(g[m - 1], u[m])
  <2>1. m \in 1..m
    BY <1>1
  <2> QED
    BY <1>4, <2>1 DEF Accumulates
<1>8. m - 1 = n
  BY <1>1
<1>9. Received(u) = Push(Received(s), e)
  BY <1>2, <1>3, <1>4, <1>6, <1>7, <1>8
<1> QED
  BY <1>9 DEF u

-----------------------------------------------------------------------------

\* Each call that was started in s has ended.
AllClosed(s) ==
  \A i \in 1..Len(s) : s[i].type = "tool_call_start" =>
    \E k \in (i + 1)..Len(s) : s[k].type = "tool_call_end"

\* Some event of s opened the call, which is still open at its end.
Opened(s, call) == \E i \in 1..Len(s) : OpenAt(s, i, Len(s) + 1, call)

\* The call that is open at the end of s is the pending one.
Brackets(s, pending) ==
  /\ Bracketed(s)
  /\ IF IsSome(pending) THEN Opened(s, pending[1]) ELSE AllClosed(s)

\* u extends s, whose length is n, with e.
Extends(u, s, n, e) ==
  /\ s \in Seq(WireEvents) /\ n \in Nat /\ Len(s) = n
  /\ u \in Seq(WireEvents) /\ Len(u) = n + 1
  /\ \A k \in 1..n : u[k] = s[k]
  /\ u[n + 1] = e /\ e \in WireEvents

\* Append is such an extension.
LEMMA ExtendedBy ==
  ASSUME NEW s \in Seq(WireEvents), NEW e \in WireEvents
  PROVE  /\ Extends(Append(s, e), s, Len(s), e)
         /\ Append(s, e) # <<>> /\ Append(s, e) \in Seq(WireEvents)
<1>1. PICK n \in Nat : n = Len(s)
  OBVIOUS
<1>2. Append(s, e) \in Seq(WireEvents) /\ Len(Append(s, e)) = n + 1
  BY <1>1, AppendProperties
<1>3. Append(s, e) # <<>>
  <2>1. Len(Append(s, e)) # 0
    BY <1>1, <1>2
  <2> QED
    BY <2>1, EmptySeq
<1> QED
  BY <1>1, <1>2, <1>3, AppendProperties DEF Extends

\* A fragment is a text.
LEMMA FragmentType ==
  ASSUME NEW e \in WireEvents, NEW id
  PROVE  Fragment(e, id) \in Texts
<1>1. e.type = "tool_call_delta" => e.args \in Texts
  BY WireEventCases
<1> QED
  BY <1>1, TextsConcat DEF Fragment, When

\* The m pieces in g are the fragments for call id in the events of s after i.
Pieces(g, m, s, id, i) ==
  /\ g \in [1..m -> Seq(Strings)]
  /\ \A k \in 1..m : g[k] = Fragment(s[i + k], id)

\* What was forwarded for a call is its pieces, one after the other.
LEMMA ForwardedPieces ==
  ASSUME NEW s, NEW id, NEW i \in Nat, NEW m \in Nat, NEW g, Pieces(g, m, s, id, i)
  PROVE  Forwarded(s, id, i, i + m + 1) = FlattenSeq(g)
<1>1. (i + m + 1) - i - 1 = m
  OBVIOUS
<1>2. g = [k \in 1..((i + m + 1) - i - 1) |-> Fragment(s[i + k], id)]
  BY <1>1 DEF Pieces
<1> QED
  BY <1>2 DEF Forwarded

\* What was forwarded before the new event is the same.
LEMMA ForwardedKept ==
  ASSUME NEW u, NEW s, NEW n, NEW e, Extends(u, s, n, e),
         NEW id, NEW i \in 1..n, NEW j \in 1..(n + 1)
  PROVE  Forwarded(u, id, i, j) = Forwarded(s, id, i, j)
<1>1. \A k \in 1..(j - i - 1) : i + k \in 1..n
  BY DEF Extends
<1>2. \A k \in 1..(j - i - 1) : u[i + k] = s[i + k]
  BY <1>1 DEF Extends
<1>3. [k \in 1..(j - i - 1) |-> Fragment(u[i + k], id)]
        = [k \in 1..(j - i - 1) |-> Fragment(s[i + k], id)]
  BY <1>2
<1> QED
  BY <1>3 DEF Forwarded

\* There are such pieces for every stretch of a stream.
LEMMA PiecesExist ==
  ASSUME NEW s \in Seq(WireEvents), NEW id, NEW i \in Nat, NEW m \in Nat, i + m <= Len(s)
  PROVE  \E g : Pieces(g, m, s, id, i)
<1>1. PICK n \in Nat : n = Len(s)
  OBVIOUS
<1>2. \A k \in 1..m : i + k \in 1..n
  BY <1>1
<1>3. \A k \in 1..m : s[i + k] \in WireEvents
  BY <1>1, <1>2, ElementOfSeq
<1>4. Pieces([k \in 1..m |-> Fragment(s[i + k], id)], m, s, id, i)
  BY <1>3, FragmentType DEF Pieces, Texts
<1> QED
  BY <1>4

\* The new event's arguments are forwarded after the others.
LEMMA ForwardedMore ==
  ASSUME NEW u, NEW s, NEW n, NEW e, Extends(u, s, n, e), NEW id, NEW i \in 1..n
  PROVE  /\ Forwarded(s, id, i, n + 1) \in Texts
         /\ Forwarded(u, id, i, n + 2) = Forwarded(s, id, i, n + 1) \o Fragment(e, id)
<1>1. n - i \in Nat /\ n - i + 1 \in Nat
  BY DEF Extends
<1> DEFINE m == n - i
           l == m + 1
<1>2. /\ m \in Nat /\ l \in Nat /\ l = m + 1 /\ i \in Nat /\ n \in Nat
      /\ n + 1 = i + m + 1 /\ n + 2 = i + l + 1
      /\ i + m <= n /\ i + l <= n + 1 /\ i + l = n + 1
  BY <1>1 DEF Extends
<1> HIDE DEF m, l
<1>3. PICK fs : Pieces(fs, m, s, id, i)
  BY <1>2, PiecesExist DEF Extends
<1>4. PICK fu : Pieces(fu, l, u, id, i)
  BY <1>2, PiecesExist DEF Extends
<1>5. Forwarded(s, id, i, n + 1) = FlattenSeq(fs)
  BY <1>2, <1>3, ForwardedPieces
<1>6. Forwarded(u, id, i, n + 2) = FlattenSeq(fu)
  BY <1>2, <1>4, ForwardedPieces
<1>7. fs \in [1..m -> Seq(Strings)] /\ fu \in [1..(m + 1) -> Seq(Strings)]
  BY <1>2, <1>3, <1>4 DEF Pieces
<1>8. ASSUME NEW k \in 1..m PROVE fu[k] = fs[k]
  <2>1. k \in 1..l /\ i + k \in 1..n
    BY <1>2
  <2>2. u[i + k] = s[i + k]
    BY <2>1 DEF Extends
  <2> QED
    BY <1>3, <1>4, <2>1, <2>2 DEF Pieces
<1>9. fu[m + 1] = Fragment(e, id)
  <2>1. l \in 1..l
    BY <1>2
  <2>2. u[i + l] = e
    BY <1>2 DEF Extends
  <2> QED
    BY <1>2, <1>4, <2>1, <2>2 DEF Pieces
<1>10. FlattenSeq(fs) \in Texts
  BY <1>2, <1>7, FlattenSeqType DEF Texts
<1>11. FlattenSeq(fu) = FlattenSeq(fs) \o fu[m + 1]
  BY <1>2, <1>7, <1>8, FlattenSeqMore
<1> QED
  BY <1>5, <1>6, <1>9, <1>10, <1>11

\* Nothing is forwarded between a start and its successor.
LEMMA ForwardedNothing ==
  ASSUME NEW s, NEW id, NEW i \in Nat
  PROVE  Forwarded(s, id, i, i + 1) = <<>>
<1>1. i + 1 - i - 1 = 0
  OBVIOUS
<1>2. [k \in 1..0 |-> Fragment(s[i + k], id)] = <<>>
  OBVIOUS
<1> QED
  BY <1>1, <1>2, FlattenSeqEmpty DEF Forwarded

\* What was open before the new event was open without it.
LEMMA OpenAtKept ==
  ASSUME NEW u, NEW s, NEW n, NEW e, Extends(u, s, n, e),
         NEW call, NEW i \in 1..n, NEW j \in 1..(n + 1), OpenAt(s, i, j, call)
  PROVE  OpenAt(u, i, j, call)
<1>1. \A k \in (i + 1)..(j - 1) : k \in 1..n
  BY DEF Extends
<1>2. \A k \in (i + 1)..(j - 1) : u[k] = s[k]
  BY <1>1 DEF Extends
<1>3. u[i] = s[i]
  BY DEF Extends
<1> QED
  BY <1>2, <1>3, ForwardedKept DEF OpenAt

\* An event that neither starts nor ends a call leaves it open, with the
\* arguments it adds.
LEMMA OpenedKept ==
  ASSUME NEW u, NEW s, NEW n, NEW e, Extends(u, s, n, e),
         e.type \notin {"tool_call_start", "tool_call_end"},
         NEW call \in ToolCalls, NEW more \in ToolCalls,
         more.id = call.id, more.name = call.name,
         more.args = call.args \o Fragment(e, call.id),
         Opened(s, call)
  PROVE  Opened(u, more)
<1>1. PICK i \in 1..n : OpenAt(s, i, n + 1, call)
  BY DEF Opened, Extends
<1>2. i \in 1..(n + 1) /\ Len(u) + 1 = n + 2 /\ Len(u) = n + 1
  BY DEF Extends
<1>3. u[i] = s[i]
  BY DEF Extends
<1>4. ASSUME NEW k \in (i + 1)..(n + 1)
      PROVE  u[k].type \notin {"tool_call_start", "tool_call_end"}
  <2>1. CASE k = n + 1
    BY <2>1 DEF Extends
  <2>2. CASE k # n + 1
    <3>1. k \in 1..n /\ k \in (i + 1)..((n + 1) - 1)
      BY <2>2 DEF Extends
    <3> QED
      BY <1>1, <3>1 DEF OpenAt, Extends
  <2> QED
    BY <2>1, <2>2
<1>5. more.args = Forwarded(u, more.id, i, n + 2)
  <2>1. call.args = Forwarded(s, call.id, i, n + 1)
    BY <1>1 DEF OpenAt
  <2>2. Forwarded(u, call.id, i, n + 2) =
          Forwarded(s, call.id, i, n + 1) \o Fragment(e, call.id)
    BY ForwardedMore
  <2> QED
    BY <2>1, <2>2
<1>6. (n + 2) - 1 = n + 1
  BY DEF Extends
<1>7. OpenAt(u, i, n + 2, more)
  BY <1>1, <1>3, <1>4, <1>5, <1>6 DEF OpenAt
<1> QED
  BY <1>2, <1>7 DEF Opened

\* Calls stay bracketed when an end closes the open call, and a start or a stop
\* finds none open.
LEMMA BracketedMore ==
  ASSUME NEW u, NEW s, NEW n, NEW e, Extends(u, s, n, e), Bracketed(s),
         e.type = "tool_call_end" => Opened(s, e),
         e.type \in {"tool_call_start", "message_stop"} => AllClosed(s)
  PROVE  Bracketed(u)
<1>1. n \in Nat /\ Len(s) = n /\ Len(u) = n + 1 /\ u[n + 1] = e
      /\ \A k \in 1..n : u[k] = s[k]
  BY DEF Extends
<1>2. ASSUME NEW j \in 1..(n + 1), u[j].type = "tool_call_end"
      PROVE  \E i \in 1..(j - 1) : OpenAt(u, i, j, u[j])
  <2>1. CASE j = n + 1
    <3>1. PICK i \in 1..n : OpenAt(s, i, n + 1, e)
      BY <1>1, <1>2, <2>1 DEF Opened
    <3>2. n + 1 \in 1..(n + 1)
      BY <1>1
    <3>3. OpenAt(u, i, n + 1, e)
      BY <3>1, <3>2, OpenAtKept
    <3> QED
      BY <1>1, <2>1, <3>3
  <2>2. CASE j # n + 1
    <3>1. j \in 1..n /\ s[j].type = "tool_call_end" /\ u[j] = s[j]
      BY <1>1, <1>2, <2>2
    <3>2. PICK i \in 1..(j - 1) : OpenAt(s, i, j, s[j])
      BY <1>1, <3>1 DEF Bracketed
    <3>3. i \in 1..n
      BY <1>1, <3>1
    <3>4. OpenAt(u, i, j, s[j])
      BY <3>2, <3>3, OpenAtKept
    <3> QED
      BY <3>1, <3>4
  <2> QED
    BY <2>1, <2>2
<1>3. ASSUME NEW i \in 1..(n + 1), NEW j \in 1..(n + 1), i < j,
             u[i].type = "tool_call_start",
             u[j].type \in {"tool_call_start", "message_stop"}
      PROVE  \E k \in (i + 1)..(j - 1) : u[k].type = "tool_call_end"
  <2>1. i \in 1..n /\ s[i].type = "tool_call_start"
    BY <1>1, <1>3
  <2>2. CASE j = n + 1
    <3>1. PICK k \in (i + 1)..n : s[k].type = "tool_call_end"
      BY <1>1, <1>3, <2>1, <2>2 DEF AllClosed
    <3>2. k \in (i + 1)..(j - 1) /\ k \in 1..n
      BY <1>1, <2>1, <2>2
    <3> QED
      BY <1>1, <3>1, <3>2
  <2>3. CASE j # n + 1
    <3>1. j \in 1..n /\ s[j].type \in {"tool_call_start", "message_stop"}
      BY <1>1, <1>3, <2>3
    <3>2. PICK k \in (i + 1)..(j - 1) : s[k].type = "tool_call_end"
      BY <1>1, <1>3, <2>1, <3>1 DEF Bracketed
    <3>3. k \in 1..n
      BY <1>1, <2>1, <3>1
    <3> QED
      BY <1>1, <3>2, <3>3
  <2> QED
    BY <2>2, <2>3
<1> QED
  BY <1>1, <1>2, <1>3 DEF Bracketed

\* What has ended has ended.
LEMMA ClosedMore ==
  ASSUME NEW u, NEW s, NEW n, NEW e, Extends(u, s, n, e),
         e.type # "tool_call_start", AllClosed(s)
  PROVE  AllClosed(u)
<1>1. n \in Nat /\ Len(s) = n /\ Len(u) = n + 1 /\ u[n + 1] = e
      /\ \A k \in 1..n : u[k] = s[k]
  BY DEF Extends
<1>2. ASSUME NEW i \in 1..(n + 1), u[i].type = "tool_call_start"
      PROVE  \E k \in (i + 1)..(n + 1) : u[k].type = "tool_call_end"
  <2>1. i \in 1..n /\ s[i].type = "tool_call_start"
    BY <1>1, <1>2
  <2>2. PICK k \in (i + 1)..n : s[k].type = "tool_call_end"
    BY <1>1, <2>1 DEF AllClosed
  <2>3. k \in 1..n /\ k \in (i + 1)..(n + 1)
    BY <1>1
  <2> QED
    BY <1>1, <2>2, <2>3
<1> QED
  BY <1>1, <1>2 DEF AllClosed

\* An end is after every start.
LEMMA ClosedByEnd ==
  ASSUME NEW u, NEW s, NEW n, NEW e, Extends(u, s, n, e), e.type = "tool_call_end"
  PROVE  AllClosed(u)
<1>1. n \in Nat /\ Len(u) = n + 1 /\ u[n + 1].type = "tool_call_end"
  BY DEF Extends
<1>2. ASSUME NEW i \in 1..(n + 1), u[i].type = "tool_call_start"
      PROVE  \E k \in (i + 1)..(n + 1) : u[k].type = "tool_call_end"
  <2>1. n + 1 \in (i + 1)..(n + 1)
    BY <1>1, <1>2
  <2> QED
    BY <1>1, <2>1
<1> QED
  BY <1>1, <1>2 DEF AllClosed

\* A start opens a call without arguments.
LEMMA OpenedByStart ==
  ASSUME NEW u, NEW s, NEW n, NEW id, NEW name, Extends(u, s, n, WireStart(id, name))
  PROVE  Opened(u, Partial(id, name, <<>>))
<1>1. n \in Nat /\ Len(u) = n + 1 /\ u[n + 1] = WireStart(id, name)
  BY DEF Extends
<1>2. Forwarded(u, id, n + 1, (n + 1) + 1) = <<>>
  BY <1>1, ForwardedNothing
<1>3. \A k \in ((n + 1) + 1)..(((n + 1) + 1) - 1) : FALSE
  BY <1>1
<1>4. OpenAt(u, n + 1, (n + 1) + 1, Partial(id, name, <<>>))
  BY <1>1, <1>2, <1>3 DEF OpenAt, WireStart, Partial
<1> QED
  BY <1>1, <1>4 DEF Opened

\* An end closes the call that was opened under its id and name.
LEMMA EndIsOpened ==
  ASSUME NEW s, NEW call \in ToolCalls, Opened(s, call)
  PROVE  Opened(s, WireEnd(call))
BY DEF Opened, OpenAt, WireEnd, ToolCalls

-----------------------------------------------------------------------------

\* An event that is no tool-call event leaves the brackets as they are.
LEMMA BracketsPlain ==
  ASSUME NEW s \in Seq(WireEvents), NEW e \in WireEvents, NEW pending \in Option(ToolCalls),
         e.type \notin {"tool_call_start", "tool_call_delta", "tool_call_end", "message_stop"},
         Brackets(s, pending)
  PROVE  Brackets(Append(s, e), pending)
<1> DEFINE u == Append(s, e)
           n == Len(s)
<1>1. Extends(u, s, n, e)
  BY ExtendedBy
<1> HIDE DEF u, n
<1>2. Bracketed(u)
  BY <1>1, BracketedMore DEF Brackets
<1>3. CASE IsSome(pending)
  <2>1. pending[1] \in ToolCalls /\ Opened(s, pending[1])
    BY <1>3, SomeOrNone DEF Brackets
  <2>2. pending[1].args = pending[1].args \o Fragment(e, pending[1].id)
    <3>1. Fragment(e, pending[1].id) = <<>>
      BY DEF Fragment, When
    <3>2. pending[1].args \in Seq(Strings)
      BY <2>1 DEF ToolCalls, Texts
    <3> QED
      BY <3>1, <3>2, ConcatEmptySeq
  <2>3. Opened(u, pending[1])
    BY <1>1, <2>1, <2>2, OpenedKept
  <2> QED
    BY <1>2, <1>3, <2>3 DEF Brackets, u
<1>4. CASE ~ IsSome(pending)
  <2>1. AllClosed(u)
    BY <1>1, <1>4, ClosedMore DEF Brackets
  <2> QED
    BY <1>2, <1>4, <2>1 DEF Brackets, u
<1> QED
  BY <1>3, <1>4

\* A start, when no call is pending.
LEMMA BracketsStart ==
  ASSUME NEW s \in Seq(WireEvents), NEW id \in Ids, NEW name \in Strings, Brackets(s, None)
  PROVE  Brackets(Append(s, WireStart(id, name)), Some(Partial(id, name, <<>>)))
<1> DEFINE u == Append(s, WireStart(id, name))
<1>1. Extends(u, s, Len(s), WireStart(id, name))
  BY ExtendedBy, WireEventTypes
<1> HIDE DEF u
<1>2. Bracketed(u)
  <2>1. AllClosed(s) /\ Bracketed(s)
    BY DEF Brackets, IsSome
  <2>2. WireStart(id, name).type = "tool_call_start"
    BY DEF WireStart
  <2> QED
    BY <1>1, <2>1, <2>2, BracketedMore
<1>3. Opened(u, Partial(id, name, <<>>))
  BY <1>1, OpenedByStart
<1> QED
  BY <1>2, <1>3, SomeValue DEF Brackets, u

\* The end of the pending call.
LEMMA BracketsEnd ==
  ASSUME NEW s \in Seq(WireEvents), NEW call \in ToolCalls, Brackets(s, Some(call))
  PROVE  Brackets(Append(s, WireEnd(call)), None)
<1> DEFINE u == Append(s, WireEnd(call))
<1>1. Extends(u, s, Len(s), WireEnd(call))
  BY ExtendedBy, WireEventTypes
<1> HIDE DEF u
<1>2. WireEnd(call).type = "tool_call_end"
  BY DEF WireEnd
<1>3. Opened(s, WireEnd(call)) /\ Bracketed(s)
  BY SomeValue, EndIsOpened DEF Brackets
<1>4. Bracketed(u)
  BY <1>1, <1>2, <1>3, BracketedMore
<1>5. AllClosed(u)
  BY <1>1, <1>2, ClosedByEnd
<1> QED
  BY <1>4, <1>5, SomeValue DEF Brackets, u

\* A fragment of the pending call, or of another.
LEMMA BracketsDelta ==
  ASSUME NEW s \in Seq(WireEvents), NEW id \in Ids, NEW args \in Texts,
         NEW pending \in Option(ToolCalls), NEW more \in Option(ToolCalls),
         IsSome(pending) <=> IsSome(more),
         IsSome(pending) => more[1] = IF pending[1].id = id
                                      THEN [pending[1] EXCEPT !.args = @ \o args]
                                      ELSE pending[1],
         Brackets(s, pending)
  PROVE  Brackets(Append(s, WireDelta(id, args)), more)
<1> DEFINE e == WireDelta(id, args)
           u == Append(s, e)
<1>1. Extends(u, s, Len(s), e)
  BY ExtendedBy, WireEventTypes
<1>2. e.type = "tool_call_delta" /\ e.id = id /\ e.args = args
  BY DEF WireDelta
<1> HIDE DEF e, u
<1>3. Bracketed(u)
  BY <1>1, <1>2, BracketedMore DEF Brackets
<1>4. CASE IsSome(pending)
  <2>1. PICK call \in ToolCalls : call = pending[1]
    BY <1>4, SomeOrNone
  <2>2. PICK longer \in ToolCalls : longer = more[1]
    BY <1>4, SomeOrNone
  <2>3. longer = IF call.id = id THEN [call EXCEPT !.args = @ \o args] ELSE call
    BY <1>4, <2>1, <2>2
  <2>4. Fragment(e, call.id) = IF call.id = id THEN args ELSE <<>>
    BY <1>2 DEF Fragment, When
  <2>5. call.args = call.args \o <<>>
    BY ConcatEmptySeq DEF ToolCalls, Texts
  <2>6. /\ longer.id = call.id /\ longer.name = call.name
        /\ longer.args = call.args \o Fragment(e, call.id)
    BY <2>3, <2>4, <2>5 DEF ToolCalls
  <2>7. Opened(s, call)
    BY <1>4, <2>1 DEF Brackets
  <2>8. Opened(u, longer)
    BY <1>1, <1>2, <2>6, <2>7, OpenedKept
  <2> QED
    BY <1>3, <1>4, <2>2, <2>8 DEF Brackets, u, e
<1>5. CASE ~ IsSome(pending)
  <2>1. AllClosed(u)
    BY <1>1, <1>2, <1>5, ClosedMore DEF Brackets
  <2> QED
    BY <1>3, <1>5, <2>1 DEF Brackets, u, e
<1> QED
  BY <1>4, <1>5

\* A stop, when no call is pending.
LEMMA BracketsStop ==
  ASSUME NEW s \in Seq(WireEvents), NEW reason \in Option(Strings), Brackets(s, None)
  PROVE  Bracketed(Append(s, MessageStop(reason)))
<1>1. Extends(Append(s, MessageStop(reason)), s, Len(s), MessageStop(reason))
  BY ExtendedBy, WireEventTypes
<1>2. MessageStop(reason).type = "message_stop"
  BY DEF MessageStop
<1>3. AllClosed(s) /\ Bracketed(s)
  BY DEF Brackets, IsSome
<1> QED
  BY <1>1, <1>2, <1>3, BracketedMore

-----------------------------------------------------------------------------

\* A wire stream that has begun and may go on: no terminal event and no usage yet.
Shape(s) ==
  /\ s # <<>>
  /\ \A i \in 1..Len(s) :
       /\ s[i].type = "message_start" <=> i = 1
       /\ s[i].type \notin {"usage", "message_stop", "error"}

\* A wire stream that is over.
Shaped(s) ==
  /\ s # <<>>
  /\ \A i \in 1..Len(s) :
       /\ s[i].type = "message_start" <=> i = 1
       /\ IsTerminal(s[i]) => i = Len(s)
       /\ s[i].type = "usage" => i + 1 \in 1..Len(s) /\ s[i + 1].type = "message_stop"
  /\ IsTerminal(s[Len(s)])

\* A stream begins with its start.
LEMMA ShapeStart == Shape(<<MessageStart>>)
BY DEF Shape, MessageStart

\* It goes on with anything but another start, usage or a terminal event.
LEMMA ShapeMore ==
  ASSUME NEW s \in Seq(WireEvents), NEW e \in WireEvents, Shape(s),
         e.type \notin {"message_start", "usage", "message_stop", "error"}
  PROVE  Shape(Append(s, e))
<1>1. PICK n \in Nat : n = Len(s)
  OBVIOUS
<1> DEFINE u == Append(s, e)
<1>2. u # <<>> /\ Len(u) = n + 1 /\ u[n + 1] = e /\ \A k \in 1..n : u[k] = s[k]
  BY <1>1, ExtendedBy DEF Extends
<1> HIDE DEF u
<1>3. n # 0
  BY <1>1, EmptySeq DEF Shape
<1>4. ASSUME NEW i \in 1..(n + 1)
      PROVE  /\ u[i].type = "message_start" <=> i = 1
             /\ u[i].type \notin {"usage", "message_stop", "error"}
  <2>1. CASE i = n + 1
    BY <1>2, <1>3, <2>1
  <2>2. CASE i # n + 1
    BY <1>1, <1>2, <2>2 DEF Shape
  <2> QED
    BY <2>1, <2>2
<1> QED
  BY <1>2, <1>4 DEF Shape, u

\* A terminal event ends the stream.
LEMMA ShapedByTerminal ==
  ASSUME NEW s \in Seq(WireEvents), NEW e \in WireEvents, Shape(s), IsTerminal(e)
  PROVE  Shaped(Append(s, e))
<1>1. PICK n \in Nat : n = Len(s)
  OBVIOUS
<1> DEFINE u == Append(s, e)
<1>2. u # <<>> /\ Len(u) = n + 1 /\ u[n + 1] = e /\ \A k \in 1..n : u[k] = s[k]
  BY <1>1, ExtendedBy DEF Extends
<1> HIDE DEF u
<1>3. n # 0
  BY <1>1, EmptySeq DEF Shape
<1>4. ASSUME NEW i \in 1..(n + 1)
      PROVE  /\ u[i].type = "message_start" <=> i = 1
             /\ IsTerminal(u[i]) => i = n + 1
             /\ u[i].type # "usage"
  <2>1. CASE i = n + 1
    BY <1>2, <1>3, <2>1 DEF IsTerminal
  <2>2. CASE i # n + 1
    BY <1>1, <1>2, <2>2 DEF Shape, IsTerminal
  <2> QED
    BY <2>1, <2>2
<1> QED
  BY <1>2, <1>4 DEF Shaped, u

\* So do a report of usage and the stop behind it.
LEMMA ShapedByUsage ==
  ASSUME NEW s \in Seq(WireEvents), NEW e \in WireEvents, NEW f \in WireEvents, Shape(s),
         e.type = "usage", f.type = "message_stop"
  PROVE  Shaped(Append(Append(s, e), f))
<1>1. PICK n \in Nat : n = Len(s)
  OBVIOUS
<1> DEFINE u == Append(s, e)
           v == Append(u, f)
<1>2. u \in Seq(WireEvents) /\ Len(u) = n + 1 /\ u[n + 1] = e /\ \A k \in 1..n : u[k] = s[k]
  BY <1>1, ExtendedBy DEF Extends
<1> HIDE DEF u
<1>3. v # <<>> /\ Len(v) = n + 2 /\ v[n + 2] = f /\ v[n + 1] = u[n + 1]
      /\ \A k \in 1..n : v[k] = u[k]
  <2>1. v # <<>> /\ Len(v) = (n + 1) + 1 /\ v[(n + 1) + 1] = f
        /\ \A k \in 1..(n + 1) : v[k] = u[k]
    BY <1>2, ExtendedBy DEF Extends
  <2>2. (n + 1) + 1 = n + 2 /\ n + 1 \in 1..(n + 1)
    OBVIOUS
  <2> HIDE DEF v
  <2> QED
    BY <2>1, <2>2
<1> HIDE DEF v
<1>4. n # 0
  BY <1>1, EmptySeq DEF Shape
<1>5. ASSUME NEW i \in 1..(n + 2)
      PROVE  /\ v[i].type = "message_start" <=> i = 1
             /\ IsTerminal(v[i]) => i = n + 2
             /\ v[i].type = "usage" => i + 1 \in 1..(n + 2) /\ v[i + 1].type = "message_stop"
  <2>1. CASE i = n + 2
    BY <1>3, <1>4, <2>1 DEF IsTerminal
  <2>2. CASE i = n + 1
    <3>1. v[i] = e /\ v[i + 1] = f
      BY <1>2, <1>3, <2>2
    <3> QED
      BY <1>4, <2>2, <3>1 DEF IsTerminal
  <2>3. CASE i \in 1..n
    <3>1. v[i] = s[i] /\ i \in 1..Len(s)
      BY <1>1, <1>2, <1>3, <2>3
    <3> QED
      BY <3>1 DEF Shape, IsTerminal
  <2> QED
    BY <2>1, <2>2, <2>3
<1>6. IsTerminal(v[n + 2])
  BY <1>3 DEF IsTerminal
<1> QED
  BY <1>3, <1>5, <1>6 DEF Shaped, v, u

-----------------------------------------------------------------------------

\* A client that received a begun stream has its text and nothing final.
Midway(a, text) ==
  /\ a.model /\ ~ a.failed /\ ~ a.stopped
  /\ a.text = text /\ a.finish = None /\ a.usage = None

\* A stream under way, its pending call and its text so far.
Going(s, pending, text) ==
  /\ s \in Seq(WireEvents)
  /\ Shape(s) /\ Brackets(s, pending) /\ Midway(Received(s), text)

\* A stream under way after its start alone.
LEMMA GoingStarts == Going(<<MessageStart>>, None, <<>>)
<1> DEFINE s == <<MessageStart>>
<1>1. s \in Seq(WireEvents) /\ MessageStart \in WireEvents /\ MessageStart.type = "message_start"
  BY WireEventTypes, SingletonType DEF MessageStart
<1>2. Received(s) = Push(NewAccumulator, MessageStart)
  <2>1. Append(<<>>, MessageStart) = <<MessageStart>> /\ <<>> \in Seq(WireEvents)
    OBVIOUS
  <2> QED
    BY <1>1, <2>1, ReceivedMore, ReceivedNothing
<1>3. Midway(Received(s), <<>>)
  <2>1. PICK a \in Accumulators : a = NewAccumulator
    BY NewAccumulatorType
  <2>2. /\ Push(a, MessageStart).model = TRUE
        /\ Push(a, MessageStart).text = a.text /\ Push(a, MessageStart).finish = a.finish
        /\ Push(a, MessageStart).usage = a.usage
        /\ Push(a, MessageStart).failed = (a.failed \/ FALSE)
        /\ Push(a, MessageStart).stopped = (a.stopped \/ FALSE)
    <3>1. PICK e \in WireEvents : e = MessageStart /\ e.type = "message_start"
      BY <1>1
    <3>2. /\ Push(a, e).model = (a.model \/ e.type = "message_start")
          /\ Push(a, e).text = IF e.type = "text_delta" THEN a.text \o e.text ELSE a.text
          /\ Push(a, e).usage =
               IF e.type = "usage" THEN MergeInto(a.usage, e.usage) ELSE a.usage
          /\ Push(a, e).finish =
               IF e.type = "message_stop" THEN Or(e.reason, a.finish) ELSE a.finish
          /\ Push(a, e).failed = (a.failed \/ e.type = "error")
          /\ Push(a, e).stopped = (a.stopped \/ e.type = "message_stop")
      BY PushType
    <3> QED
      BY <3>1, <3>2
  <2>3. /\ a.text = <<>> /\ a.finish = None /\ a.usage = None
        /\ a.failed = FALSE /\ a.stopped = FALSE
    BY <2>1 DEF NewAccumulator
  <2> QED
    BY <1>2, <2>1, <2>2, <2>3 DEF Midway
<1>4. \A i \in 1..Len(s) : s[i].type = "message_start"
  BY <1>1
<1>5. Brackets(s, None)
  BY <1>4, SomeValue DEF Brackets, Bracketed, AllClosed
<1> QED
  BY <1>1, <1>3, <1>5, ShapeStart DEF Going

\* One more event.
LEMMA GoingMore ==
  ASSUME NEW s, NEW e \in WireEvents, NEW pending, NEW more, NEW text, NEW longer,
         Going(s, pending, text), Brackets(Append(s, e), more),
         e.type \notin {"message_start", "usage", "message_stop", "error"},
         longer = IF e.type = "text_delta" THEN text \o e.text ELSE text
  PROVE  Going(Append(s, e), more, longer)
<1>1. s \in Seq(WireEvents) /\ Shape(s) /\ Midway(Received(s), text)
  BY DEF Going
<1>2. Append(s, e) \in Seq(WireEvents)
  BY <1>1, ExtendedBy
<1>3. Shape(Append(s, e))
  BY <1>1, ShapeMore
<1>4. PICK a \in Accumulators : a = Received(s) /\ Received(Append(s, e)) = Push(a, e)
  BY <1>1, ReceivedMore, ReceivedType
<1>5. Midway(Push(a, e), longer)
  <2>1. /\ Push(a, e).model = (a.model \/ FALSE)
        /\ Push(a, e).text = IF e.type = "text_delta" THEN a.text \o e.text ELSE a.text
        /\ Push(a, e).usage = a.usage /\ Push(a, e).finish = a.finish
        /\ Push(a, e).failed = (a.failed \/ FALSE)
        /\ Push(a, e).stopped = (a.stopped \/ FALSE)
    BY PushType
  <2>2. Midway(a, text)
    BY <1>1, <1>4
  <2> QED
    BY <2>1, <2>2 DEF Midway
<1> QED
  BY <1>2, <1>3, <1>4, <1>5 DEF Going

\* The relay closes the pending call.
LEMMA GoingCloses ==
  ASSUME NEW s, NEW text, NEW r \in Relays, Going(s, r.pending, text)
  PROVE  Going(s \o CloseCall(r), None, text)
<1>1. s \in Seq(WireEvents) /\ Brackets(s, r.pending) /\ r.pending \in Option(ToolCalls)
  BY DEF Going, Relays
<1>2. CASE IsSome(r.pending)
  <2>1. PICK call \in ToolCalls : r.pending = Some(call) /\ call = r.pending[1]
    BY <1>1, <1>2, SomeOrNone
  <2>2. WireEnd(call) \in WireEvents /\ WireEnd(call).type = "tool_call_end"
    BY WireEventTypes DEF WireEnd
  <2>3. s \o CloseCall(r) = Append(s, WireEnd(call))
    BY <1>1, <1>2, <2>1, <2>2, AppendIsConcat DEF CloseCall, When
  <2>4. Brackets(Append(s, WireEnd(call)), None)
    BY <1>1, <2>1, BracketsEnd
  <2> QED
    BY <2>2, <2>3, <2>4, GoingMore
<1>3. CASE ~ IsSome(r.pending)
  <2>1. r.pending = None /\ CloseCall(r) = <<>>
    BY <1>3 DEF IsSome, CloseCall, When
  <2>2. s \o CloseCall(r) = s
    BY <1>1, <2>1, ConcatEmptySeq
  <2> QED
    BY <2>1, <2>2
<1> QED
  BY <1>2, <1>3

\* The relay handles an event other than an error.
LEMMA RelayGoes ==
  ASSUME NEW s, NEW text, NEW r \in Relays, NEW e \in ProviderEvents,
         Going(s, r.pending, text), e.kind # "err"
  PROVE  Going(s \o RelayEvent(r, e).events, RelayEvent(r, e).relay.pending,
               IF e.kind = "text" THEN text \o e.text ELSE text)
<1>1. s \in Seq(WireEvents) /\ Brackets(s, r.pending) /\ r.pending \in Option(ToolCalls)
  BY DEF Going, Relays
<1>2. CASE e.kind = "text"
  <2>1. TextDelta(e.text) \in WireEvents /\ TextDelta(e.text).type = "text_delta"
        /\ TextDelta(e.text).text = e.text
    BY <1>2, ProviderEventCases, WireEventTypes DEF TextDelta
  <2>2. Brackets(Append(s, TextDelta(e.text)), r.pending)
    BY <1>1, <2>1, BracketsPlain
  <2>3. Going(Append(s, TextDelta(e.text)), r.pending, text \o e.text)
    BY <2>1, <2>2, GoingMore
  <2>4. Append(s, TextDelta(e.text)) = s \o <<TextDelta(e.text)>>
    BY <1>1, <2>1, AppendIsConcat
  <2>5. RelayEvent(r, e) = [relay |-> r, events |-> <<TextDelta(e.text)>>]
    BY <1>2 DEF RelayEvent, RelayText
  <2> QED
    BY <1>2, <2>3, <2>4, <2>5
<1>3. CASE e.kind = "start"
  <2> DEFINE start == WireStart(e.id, e.name)
             call  == Partial(e.id, e.name, <<>>)
             open  == [r EXCEPT !.pending = Some(call)]
  <2>1. e.id \in Ids /\ e.name \in Strings
    BY <1>3, ProviderEventCases
  <2>2. start \in WireEvents /\ start.type = "tool_call_start"
    BY <2>1, WireEventTypes DEF WireStart
  <2>3. Going(s \o CloseCall(r), None, text)
    BY GoingCloses
  <2>4. PICK closed \in Seq(WireEvents) : closed = s \o CloseCall(r)
    BY <2>3 DEF Going
  <2>5. Brackets(closed, None)
    BY <2>3, <2>4 DEF Going
  <2>6. Brackets(Append(closed, start), Some(call))
    BY <2>1, <2>5, BracketsStart
  <2>7. RelayEvent(r, e) = [relay |-> open, events |-> CloseCall(r) \o <<start>>]
    BY <1>3 DEF RelayEvent, RelayStart
  <2>8. open.pending = Some(call)
    BY DEF Relays
  <2> HIDE DEF start, call, open
  <2>9. Going(Append(closed, start), Some(call), text)
    BY <2>2, <2>3, <2>4, <2>6, GoingMore
  <2>10. CloseCall(r) \in Seq(WireEvents) /\ <<start>> \in Seq(WireEvents)
    BY <2>2, CloseCallType
  <2>11. s \o (CloseCall(r) \o <<start>>) = Append(closed, start)
    BY <1>1, <2>2, <2>4, <2>10, ConcatAssociative, AppendIsConcat
  <2>12. /\ RelayEvent(r, e).events = CloseCall(r) \o <<start>>
         /\ RelayEvent(r, e).relay.pending = Some(call)
    BY <2>7, <2>8
  <2>13. s \o RelayEvent(r, e).events = Append(closed, start)
    BY <2>11, <2>12
  <2> QED
    BY <1>3, <2>9, <2>12, <2>13
<1>4. CASE e.kind = "chunk"
  <2> DEFINE id   == IF IsSome(r.pending) /\ e.id = "" THEN r.pending[1].id ELSE e.id
             mine == IsSome(r.pending) /\ r.pending[1].id = id
             more == IF mine THEN [r EXCEPT !.pending[1].args = @ \o e.args] ELSE r
  <2>1. e.id \in Ids /\ e.args \in Texts
    BY <1>4, ProviderEventCases
  <2>2. IsSome(r.pending) => r.pending[1] \in ToolCalls
    BY <1>1, SomeOrNone
  <2>3. id \in Ids
    BY <2>1, <2>2 DEF ToolCalls
  <2>4. RelayEvent(r, e) = [relay |-> more, events |-> <<WireDelta(id, e.args)>>]
    BY <1>4 DEF RelayEvent, RelayChunk
  <2> HIDE DEF id
  <2>5. WireDelta(id, e.args) \in WireEvents /\ WireDelta(id, e.args).type = "tool_call_delta"
    BY <2>1, <2>3, WireEventTypes DEF WireDelta
  <2>6. mine => /\ more.pending = Some([r.pending[1] EXCEPT !.args = @ \o e.args])
                /\ more.pending \in Option(ToolCalls)
    <3>1. [r EXCEPT !.pending[1].args = @ \o e.args].pending =
            [r.pending EXCEPT ![1].args = @ \o e.args]
      BY DEF Relays
    <3>2. mine => /\ [r.pending EXCEPT ![1].args = @ \o e.args]
                         = Some([r.pending[1] EXCEPT !.args = @ \o e.args])
                  /\ [r.pending EXCEPT ![1].args = @ \o e.args] \in Option(ToolCalls)
      BY <1>1, <2>1, ArgumentsAdded
    <3>3. mine => more.pending = [r.pending EXCEPT ![1].args = @ \o e.args]
      BY <3>1
    <3> HIDE DEF more, mine
    <3> QED
      BY <3>2, <3>3
  <2>7. ~ mine => more.pending = r.pending
    OBVIOUS
  <2>8. /\ more.pending \in Option(ToolCalls)
        /\ IsSome(r.pending) <=> IsSome(more.pending)
    BY <1>1, <2>6, <2>7, SomeValue
  <2>9. IsSome(r.pending) =>
          more.pending[1] = IF r.pending[1].id = id
                            THEN [r.pending[1] EXCEPT !.args = @ \o e.args]
                            ELSE r.pending[1]
    BY <2>6, <2>7, SomeValue
  <2> HIDE DEF more
  <2>10. Brackets(Append(s, WireDelta(id, e.args)), more.pending)
    BY <1>1, <2>1, <2>3, <2>8, <2>9, BracketsDelta
  <2>11. Going(Append(s, WireDelta(id, e.args)), more.pending, text)
    BY <2>5, <2>10, GoingMore
  <2>12. Append(s, WireDelta(id, e.args)) = s \o <<WireDelta(id, e.args)>>
    BY <1>1, <2>5, AppendIsConcat
  <2> QED
    BY <1>4, <2>4, <2>11, <2>12
<1>5. CASE e.kind = "done"
  <2>1. RelayEvent(r, e).events = When(IsSome(e.reason), CloseCall(r))
        /\ RelayEvent(r, e).relay.pending = IF IsSome(e.reason) THEN None ELSE r.pending
    BY <1>5 DEF RelayEvent, RelayDone
  <2>2. CASE IsSome(e.reason)
    BY <1>5, <2>1, <2>2, GoingCloses DEF When
  <2>3. CASE ~ IsSome(e.reason)
    <3>1. s \o <<>> = s
      BY <1>1, ConcatEmptySeq
    <3> QED
      BY <1>5, <2>1, <2>3, <3>1 DEF When
  <2> QED
    BY <2>2, <2>3
<1> QED
  BY <1>2, <1>3, <1>4, <1>5, ProviderEventCases

-----------------------------------------------------------------------------

\* A client that received a whole stream has what a local consumer has.
Rebuilt(a, response, failed) ==
  /\ a.model /\ a.failed = failed /\ a.stopped = ~ failed
  /\ a.text = response.text
  /\ ~ failed => a.finish = response.finish /\ a.usage = response.usage

\* A stream that is over.
Over(s, response, failed) ==
  /\ s \in Seq(WireEvents)
  /\ Shaped(s) /\ Bracketed(s) /\ Rebuilt(Received(s), response, failed)

\* An error ends a stream wherever it is.
LEMMA OverByError ==
  ASSUME NEW s, NEW pending \in Option(ToolCalls), NEW response,
         Going(s, pending, response.text)
  PROVE  Over(Append(s, WireError), response, TRUE)
<1>1. s \in Seq(WireEvents) /\ Shape(s) /\ Brackets(s, pending)
      /\ Midway(Received(s), response.text)
  BY DEF Going
<1>2. WireError \in WireEvents /\ WireError.type = "error"
  BY WireEventTypes DEF WireError
<1>3. Append(s, WireError) \in Seq(WireEvents)
  BY <1>1, <1>2, ExtendedBy
<1>4. Shaped(Append(s, WireError))
  BY <1>1, <1>2, ShapedByTerminal DEF IsTerminal
<1>5. Bracketed(Append(s, WireError))
  BY <1>1, <1>2, BracketsPlain DEF Brackets
<1>6. PICK a \in Accumulators : a = Received(s) /\ Received(Append(s, WireError)) = Push(a, WireError)
  BY <1>1, <1>2, ReceivedMore, ReceivedType
<1>7. Rebuilt(Push(a, WireError), response, TRUE)
  <2>1. /\ Push(a, WireError).model = (a.model \/ FALSE)
        /\ Push(a, WireError).text = a.text
        /\ Push(a, WireError).failed = TRUE
        /\ Push(a, WireError).stopped = (a.stopped \/ FALSE)
    <3>1. PICK e \in WireEvents : e = WireError /\ e.type = "error"
      BY <1>2
    <3>2. /\ Push(a, e).model = (a.model \/ e.type = "message_start")
          /\ Push(a, e).text = IF e.type = "text_delta" THEN a.text \o e.text ELSE a.text
          /\ Push(a, e).failed = (a.failed \/ e.type = "error")
          /\ Push(a, e).stopped = (a.stopped \/ e.type = "message_stop")
      BY PushType
    <3> QED
      BY <3>1, <3>2
  <2>2. Midway(a, response.text)
    BY <1>1, <1>6
  <2> QED
    BY <2>1, <2>2 DEF Midway, Rebuilt
<1> QED
  BY <1>3, <1>4, <1>5, <1>6, <1>7 DEF Over

\* The stop, with or without usage before it.
LEMMA OverByStop ==
  ASSUME NEW s, NEW r \in Relays, NEW response, Going(s, r.pending, response.text),
         response.finish = r.finish, response.usage = r.usage
  PROVE  Over(s \o RelayEnd(r), response, FALSE)
<1> DEFINE stop   == MessageStop(r.finish)
           report == UsageReport(r.usage)
<1>1. /\ s \in Seq(WireEvents) /\ r.finish \in Option(Strings) /\ r.usage \in Option(Usage)
      /\ CloseCall(r) \in Seq(WireEvents)
  BY CloseCallType DEF Going, Relays
<1>2. stop \in WireEvents /\ stop.type = "message_stop" /\ stop.reason = r.finish
  BY <1>1, WireEventTypes DEF MessageStop
<1>3. report \in WireEvents /\ report.type = "usage" /\ report.usage = r.usage
  BY <1>1, WireEventTypes DEF UsageReport
<1>4. \A t \in Seq(WireEvents), reason \in Option(Strings) :
        Brackets(t, None) => Bracketed(Append(t, MessageStop(reason)))
  BY BracketsStop
<1>5. RelayEnd(r) = CloseCall(r) \o When(IsSome(r.usage), <<report>>) \o <<stop>>
  BY DEF RelayEnd
<1>6. \A t \in Seq(WireEvents) :
        Brackets(t, None) => Bracketed(Append(t, stop))
  BY <1>1, <1>4
<1> HIDE DEF stop, report
<1>7. Going(s \o CloseCall(r), None, response.text)
  BY GoingCloses
<1>8. PICK t \in Seq(WireEvents) : t = s \o CloseCall(r)
  BY <1>7 DEF Going
<1>9. Shape(t) /\ Brackets(t, None) /\ Midway(Received(t), response.text)
  BY <1>7, <1>8 DEF Going
<1>10. PICK a \in Accumulators : a = Received(t)
  BY ReceivedType
<1>11. CASE IsSome(r.usage)
  <2>1. PICK u \in Seq(WireEvents) : u = Append(t, report)
    BY <1>3, ExtendedBy
  <2>2. s \o RelayEnd(r) = Append(u, stop)
    <3>1. RelayEnd(r) = CloseCall(r) \o <<report>> \o <<stop>>
      BY <1>5, <1>11 DEF When
    <3>2. <<report>> \in Seq(WireEvents) /\ <<stop>> \in Seq(WireEvents)
      BY <1>2, <1>3
    <3>3. CloseCall(r) \o <<report>> \in Seq(WireEvents)
      BY <1>1, <3>2, ConcatProperties
    <3>4. s \o RelayEnd(r) = (s \o (CloseCall(r) \o <<report>>)) \o <<stop>>
      BY <1>1, <3>1, <3>2, <3>3, ConcatAssociative
    <3>5. s \o (CloseCall(r) \o <<report>>) = t \o <<report>>
      BY <1>1, <1>8, <3>2, ConcatAssociative
    <3> QED
      BY <1>2, <1>3, <2>1, <3>4, <3>5, AppendIsConcat
  <2>3. Shaped(Append(u, stop))
    BY <1>2, <1>3, <1>9, <2>1, ShapedByUsage
  <2>4. Bracketed(Append(u, stop))
    <3>1. Brackets(u, None)
      BY <1>3, <1>9, <2>1, NoneIsOption, BracketsPlain
    <3> QED
      BY <1>6, <3>1
  <2>5. PICK b \in Accumulators : b = Push(a, report) /\ b = Received(u)
    BY <1>3, <1>10, <2>1, ReceivedMore, PushType
  <2>6. /\ b.model = a.model /\ b.text = a.text
        /\ b.usage = MergeInto(a.usage, r.usage) /\ b.finish = a.finish
        /\ b.failed = a.failed /\ b.stopped = a.stopped
    <3>1. PICK e \in WireEvents : e = report /\ e.type = "usage" /\ e.usage = r.usage
      BY <1>3
    <3>2. /\ Push(a, e).model = a.model /\ Push(a, e).text = a.text
          /\ Push(a, e).usage = MergeInto(a.usage, e.usage) /\ Push(a, e).finish = a.finish
          /\ Push(a, e).failed = a.failed /\ Push(a, e).stopped = a.stopped
      BY <3>1, PushUsage
    <3> QED
      BY <2>5, <3>1, <3>2
  <2>7. /\ b.model /\ ~ b.failed /\ ~ b.stopped
        /\ b.text = response.text /\ b.finish = None /\ b.usage = r.usage
    BY <1>9, <1>10, <1>11, <2>6, SomeValue DEF Midway, MergeInto, Or
  <2>8. Received(Append(u, stop)) = Push(b, stop) /\ Append(u, stop) \in Seq(WireEvents)
    BY <1>2, <2>5, ReceivedMore, ExtendedBy
  <2>9. Rebuilt(Push(b, stop), response, FALSE)
    <3>1. /\ Push(b, stop).model = b.model /\ Push(b, stop).text = b.text
          /\ Push(b, stop).usage = b.usage /\ Push(b, stop).finish = Or(r.finish, b.finish)
          /\ Push(b, stop).failed = b.failed /\ Push(b, stop).stopped = TRUE
      BY <1>2, PushStop
    <3>2. Or(r.finish, None) = r.finish
      BY DEF Or, IsSome
    <3> QED
      BY <2>7, <3>1, <3>2 DEF Rebuilt, Accumulators
  <2> QED
    BY <2>2, <2>3, <2>4, <2>8, <2>9 DEF Over
<1>12. CASE ~ IsSome(r.usage)
  <2>1. s \o RelayEnd(r) = Append(t, stop)
    <3>1. RelayEnd(r) = CloseCall(r) \o <<>> \o <<stop>>
      BY <1>5, <1>12 DEF When
    <3>2. <<stop>> \in Seq(WireEvents)
      BY <1>2
    <3>3. CloseCall(r) \o <<>> = CloseCall(r)
      BY <1>1, ConcatEmptySeq
    <3>4. s \o RelayEnd(r) = t \o <<stop>>
      BY <1>1, <1>8, <3>1, <3>2, <3>3, ConcatAssociative
    <3> QED
      BY <1>2, <3>4, AppendIsConcat
  <2>2. Shaped(Append(t, stop))
    BY <1>2, <1>9, ShapedByTerminal DEF IsTerminal
  <2>3. Bracketed(Append(t, stop))
    BY <1>6, <1>9
  <2>4. Received(Append(t, stop)) = Push(a, stop) /\ Append(t, stop) \in Seq(WireEvents)
    BY <1>2, <1>10, ReceivedMore, ExtendedBy
  <2>5. Rebuilt(Push(a, stop), response, FALSE)
    <3>1. /\ Push(a, stop).model = a.model /\ Push(a, stop).text = a.text
          /\ Push(a, stop).usage = a.usage /\ Push(a, stop).finish = Or(r.finish, a.finish)
          /\ Push(a, stop).failed = a.failed /\ Push(a, stop).stopped = TRUE
      BY <1>2, PushStop
    <3>2. Or(r.finish, None) = r.finish /\ r.usage = None
      BY <1>12 DEF Or, IsSome
    <3>3. Midway(a, response.text)
      BY <1>9, <1>10
    <3> QED
      BY <3>1, <3>2, <3>3 DEF Midway, Rebuilt, Accumulators
  <2> QED
    BY <2>1, <2>2, <2>3, <2>4, <2>5 DEF Over
<1> QED
  BY <1>11, <1>12

-----------------------------------------------------------------------------

\* Anthropic's body has reported an error.
SaidFailure ==
  provider = "anthropic" /\ \E i \in 1..Len(said) : said[i] = StreamFails

\* A failure of the body is the relay's next event, until it is over.
Serving ==
  /\ serving = "unpolled" => body = "open" /\ ~ SaidFailure
  /\ serving # "over" => local.failed = FALSE
  /\ serving = "over" /\ ~ local.failed => body = "ended" /\ ~ SaidFailure
  /\ serving = "relaying" /\ (body = "broken" \/ SaidFailure) => yielded = <<Failure>>

\* What was sent is what was relayed, and the local consumers keep step with it.
Writing ==
  /\ Unpolled
  /\ serving = "unpolled" => relay.pending = None /\ local.response.text = <<>>
  /\ serving \in {"relaying", "dropped"} => Going(sent, relay.pending, local.response.text)
  /\ serving = "over" => Over(sent, local.response, local.failed)
  /\ local.response.finish = relay.finish /\ local.response.usage = relay.usage

\* The client holds what it has taken, and settles on nothing else.
Receiving ==
  /\ acc = Received(SubSeq(sent, 1, taken))
  /\ acc.failed \/ acc.stopped => taken = Len(sent) /\ serving = "over"
  /\ outcome = "ok" => Complete(acc)
  /\ outcome = "failed" /\ cut = None => serving = "over" /\ local.failed

\* The inductive invariant.
ProxyInv == TypeOK /\ Serving /\ Writing /\ Receiving

\* The invariant holds before the first poll.
LEMMA ProxyInit == Init => ProxyInv
<1> SUFFICES ASSUME Init PROVE ProxyInv
  OBVIOUS
<1>1. TypeOK
  BY TypeInit
<1>2. Serving
  <2>1. ~ SaidFailure
    <3>1. \A i \in 1..Len(said) : FALSE
      BY DEF Init
    <3> QED
      BY <3>1 DEF SaidFailure
  <2> QED
    BY <2>1 DEF Init, Serving
<1>3. Writing
  BY DEF Init, Writing, Unpolled, Relay, NewResponse
<1>4. Receiving
  <2>1. SubSeq(<<>>, 1, 0) = <<>>
    OBVIOUS
  <2>2. NewAccumulator.failed = FALSE /\ NewAccumulator.stopped = FALSE
    BY DEF NewAccumulator
  <2> QED
    BY <2>1, <2>2, ReceivedNothing DEF Init, Receiving
<1> QED
  BY <1>1, <1>2, <1>3, <1>4 DEF ProxyInv

\* Only an error of Anthropic's is said to be one, and it is decoded as one.
LEMMA ServingReceives ==
  ASSUME ProxyInv, NEW frame \in Frames[provider], ReceiveFrame(frame)
  PROVE  Serving'
<1>1. /\ serving = "relaying" /\ body = "open" /\ yielded = <<>> /\ local' = local
      /\ serving' = serving /\ body' = body /\ provider' = provider
      /\ said' = Append(said, frame) /\ yielded' = DecodeFrame(frame).events
  BY DEF ReceiveFrame, Reading
<1>2. ~ SaidFailure
  <2>1. yielded # <<Failure>>
    BY <1>1
  <2> QED
    BY <1>1, <2>1 DEF ProxyInv, Serving
<1>3. SaidFailure' => provider = "anthropic" /\ frame = StreamFails
  <2>1. said \in Seq(Frames[provider])
    BY DEF ProxyInv, TypeOK
  <2>2. PICK n \in Nat : n = Len(said)
    BY <2>1
  <2>3. /\ Len(said') = n + 1 /\ said'[n + 1] = frame
        /\ \A i \in 1..n : said'[i] = said[i]
    BY <1>1, <2>1, <2>2, AppendProperties
  <2>4. SUFFICES ASSUME provider = "anthropic", NEW i \in 1..(n + 1), said'[i] = StreamFails
                 PROVE  frame = StreamFails
    BY <1>1, <2>3 DEF SaidFailure
  <2>5. i \notin 1..n
    BY <1>2, <2>2, <2>3, <2>4 DEF SaidFailure
  <2> QED
    BY <2>3, <2>4, <2>5
<1>4. SaidFailure' => yielded' = <<Failure>>
  BY <1>1, <1>3 DEF DecodeFrame, DecodeAnthropic, StreamFails
<1>5. local'.failed = FALSE
  BY <1>1 DEF ProxyInv, Serving
<1>6. serving' = "relaying" /\ serving' # "over" /\ body' # "broken"
  BY <1>1
<1> QED
  BY <1>4, <1>5, <1>6 DEF Serving

\* Every step keeps the server's account of the body.
LEMMA ServingStep == ProxyInv /\ [Next]_vars => Serving'
<1> SUFFICES ASSUME ProxyInv, [Next]_vars PROVE Serving'
  OBVIOUS
<1> USE DEF ProxyInv
<1>1. CASE UNCHANGED vars
  BY <1>1 DEF vars, server, Serving, SaidFailure
<1>2. CASE Open
  BY <1>2 DEF Open, Serving, SaidFailure, Writing, Unpolled
<1>3. ASSUME NEW frame \in Frames[provider], ReceiveFrame(frame) PROVE Serving'
  BY <1>3, ServingReceives
<1>4. CASE BreakBody
  BY <1>4 DEF BreakBody, Reading, Serving, SaidFailure
<1>5. CASE EndBody
  <2>1. ~ SaidFailure
    BY <1>5 DEF EndBody, Reading, Serving
  <2> QED
    BY <1>5, <2>1 DEF EndBody, Reading, Serving, SaidFailure
<1>6. CASE RelayNext
  <2>1. local'.failed = (Head(yielded).kind = "err")
    BY <1>6 DEF RelayNext
  <2>2. serving' = IF Head(yielded).kind = "err" THEN "over" ELSE "relaying"
    BY <1>6 DEF RelayNext
  <2>3. body = "broken" \/ SaidFailure => Head(yielded).kind = "err"
    <3>1. Head(<<Failure>>) = Failure /\ Failure.kind = "err"
      BY DEF Failure
    <3> QED
      BY <1>6, <3>1 DEF RelayNext, Serving
  <2>4. body' = body /\ (SaidFailure' <=> SaidFailure)
    BY <1>6 DEF RelayNext, SaidFailure
  <2> QED
    BY <2>1, <2>2, <2>3, <2>4 DEF Serving
<1>7. CASE CloseWire
  <2>1. yielded # <<Failure>>
    BY <1>7 DEF CloseWire
  <2>2. body = "ended" /\ ~ SaidFailure
    BY <1>7, <2>1 DEF CloseWire, Serving, TypeOK
  <2> QED
    BY <1>7, <2>2 DEF CloseWire, Serving, SaidFailure
<1>8. CASE CutLink
  BY <1>8 DEF CutLink, Serving, SaidFailure
<1>9. CASE ClientStep
  BY <1>9 DEF ClientStep, ClientReceives, ClientFinishes, server, Serving, SaidFailure
<1> QED
  BY <1>1, <1>2, <1>3, <1>4, <1>5, <1>6, <1>7, <1>8, <1>9 DEF Next, ServerStep

\* stream_accumulated() merges a Done as the relay does.
LEMMA CollectsAlike ==
  ASSUME NEW r \in Relays, NEW c \in LocalResponses, NEW e \in ProviderEvents,
         c.finish = r.finish, c.usage = r.usage
  PROVE  /\ Collect(c, e).finish = RelayEvent(r, e).relay.finish
         /\ Collect(c, e).usage = RelayEvent(r, e).relay.usage
         /\ Collect(c, e).text = IF e.kind = "text" THEN c.text \o e.text ELSE c.text
<1>1. CASE e.kind = "text"
  BY <1>1 DEF Collect, RelayEvent, RelayText, LocalResponses
<1>2. CASE e.kind = "start"
  BY <1>2 DEF Collect, RelayEvent, RelayStart, Relays
<1>3. CASE e.kind = "chunk"
  <2> DEFINE id   == IF IsSome(r.pending) /\ e.id = "" THEN r.pending[1].id ELSE e.id
             mine == IsSome(r.pending) /\ r.pending[1].id = id
             more == IF mine THEN [r EXCEPT !.pending[1].args = @ \o e.args] ELSE r
  <2>1. RelayEvent(r, e) = [relay |-> more, events |-> <<WireDelta(id, e.args)>>]
    BY <1>3 DEF RelayEvent, RelayChunk
  <2>2. more.finish = r.finish /\ more.usage = r.usage
    BY DEF Relays
  <2>3. Collect(c, e) = c
    BY <1>3 DEF Collect
  <2> HIDE DEF more, id
  <2> QED
    BY <1>3, <2>1, <2>2, <2>3
<1>4. CASE e.kind = "done"
  BY <1>4 DEF Collect, RelayEvent, RelayDone, LocalResponses
<1>5. CASE e.kind = "err"
  BY <1>5 DEF Collect, RelayEvent
<1> QED
  BY <1>1, <1>2, <1>3, <1>4, <1>5, ProviderEventCases

\* The relay writes the next provider event.
LEMMA WritingRelays == ProxyInv /\ RelayNext => Writing'
<1> SUFFICES ASSUME ProxyInv, RelayNext PROVE Writing'
  OBVIOUS
<1>1. PICK e \in ProviderEvents : e = Head(yielded)
  BY HeadTailProperties DEF ProxyInv, TypeOK, RelayNext
<1>2. /\ serving = "relaying" /\ relay' = RelayEvent(relay, e).relay
      /\ sent' = sent \o RelayEvent(relay, e).events
      /\ serving' = IF e.kind = "err" THEN "over" ELSE serving
      /\ local'.response = Collect(local.response, e) /\ local'.failed = (e.kind = "err")
  BY <1>1 DEF RelayNext
<1>3. /\ relay \in Relays /\ local.response \in LocalResponses
      /\ relay.pending \in Option(ToolCalls) /\ sent \in Seq(WireEvents)
  BY DEF ProxyInv, TypeOK, Relays
<1>4. /\ Going(sent, relay.pending, local.response.text)
      /\ local.response.finish = relay.finish /\ local.response.usage = relay.usage
  BY <1>2 DEF ProxyInv, Writing
<1>5. /\ local'.response.finish = relay'.finish /\ local'.response.usage = relay'.usage
      /\ local'.response.text = IF e.kind = "text" THEN local.response.text \o e.text
                                ELSE local.response.text
  BY <1>2, <1>3, <1>4, CollectsAlike
<1>6. CASE e.kind # "err"
  <2>1. Going(sent', relay'.pending, local'.response.text)
    BY <1>2, <1>3, <1>4, <1>5, <1>6, RelayGoes
  <2>2. serving' = "relaying"
    BY <1>2, <1>6
  <2>3. sent' # <<>>
    BY <2>1 DEF Going, Shape
  <2> QED
    BY <1>5, <2>1, <2>2, <2>3 DEF Writing, Unpolled
<1>7. CASE e.kind = "err"
  <2>1. sent' = Append(sent, WireError)
    <3>1. RelayEvent(relay, e).events = <<WireError>>
      BY <1>7 DEF RelayEvent
    <3> QED
      BY <1>2, <1>3, <3>1, WireEventTypes, AppendIsConcat
  <2>2. local'.response = local.response /\ local'.failed = TRUE
    BY <1>2, <1>7 DEF Collect
  <2>3. Over(sent', local'.response, local'.failed)
    BY <1>3, <1>4, <2>1, <2>2, OverByError
  <2>4. serving' = "over"
    BY <1>2, <1>7
  <2>5. sent' # <<>>
    BY <2>3 DEF Over, Shaped
  <2> QED
    BY <1>5, <2>3, <2>4, <2>5 DEF Writing, Unpolled
<1> QED
  BY <1>6, <1>7

\* Every step keeps what was sent in step with the relay and the local consumers.
LEMMA WritingStep == ProxyInv /\ [Next]_vars => Writing'
<1> SUFFICES ASSUME ProxyInv, [Next]_vars PROVE Writing'
  OBVIOUS
<1>1. Writing /\ TypeOK /\ Serving
  BY DEF ProxyInv
<1>2. CASE UNCHANGED <<relay, serving, sent, local>>
  BY <1>1, <1>2 DEF Writing, Unpolled
<1>3. CASE Open
  <2>1. /\ serving = "unpolled" /\ serving' = "relaying" /\ sent' = <<MessageStart>>
        /\ relay' = relay /\ local' = local
    BY <1>3 DEF Open
  <2>2. relay.pending = None /\ local.response.text = <<>>
    BY <1>1, <2>1 DEF Writing
  <2>3. Going(sent', relay'.pending, local'.response.text)
    BY <2>1, <2>2, GoingStarts
  <2>4. sent' # <<>>
    BY <2>1
  <2> QED
    BY <1>1, <2>1, <2>3, <2>4 DEF Writing, Unpolled
<1>4. CASE RelayNext
  BY <1>4, WritingRelays
<1>5. CASE CloseWire
  <2>1. /\ serving = "relaying" /\ serving' = "over" /\ sent' = sent \o RelayEnd(relay)
        /\ relay' = relay /\ local' = local
    BY <1>5 DEF CloseWire
  <2>2. local.failed = FALSE /\ relay \in Relays
    BY <1>1, <2>1 DEF Serving, TypeOK
  <2>3. /\ Going(sent, relay.pending, local.response.text)
        /\ local.response.finish = relay.finish /\ local.response.usage = relay.usage
    BY <1>1, <2>1 DEF Writing
  <2>4. Over(sent', local'.response, local'.failed)
    BY <2>1, <2>2, <2>3, OverByStop
  <2>5. sent' # <<>>
    BY <2>4 DEF Over, Shaped
  <2> QED
    BY <2>1, <2>3, <2>4, <2>5 DEF Writing, Unpolled
<1>6. CASE CutLink
  <2>1. /\ serving # "unpolled" /\ relay' = relay /\ sent' = sent /\ local' = local
        /\ serving' = IF serving = "over" THEN "over" ELSE "dropped"
    BY <1>6 DEF CutLink
  <2>2. serving # "over" => serving \in {"relaying", "dropped"}
    BY <1>1, <2>1 DEF TypeOK
  <2> QED
    BY <1>1, <2>1, <2>2 DEF Writing, Unpolled
<1> QED
  BY <1>2, <1>3, <1>4, <1>5, <1>6
  DEF Next, ServerStep, ClientStep, vars, server, ReceiveFrame, BreakBody, EndBody,
      ClientReceives, ClientFinishes

-----------------------------------------------------------------------------

\* What was taken is not touched by what is sent later.
LEMMA TakenStays ==
  ASSUME NEW s \in Seq(WireEvents), NEW more \in Seq(WireEvents), NEW n \in 0..Len(s)
  PROVE  SubSeq(s \o more, 1, n) = SubSeq(s, 1, n)
<1>1. CASE n = 0
  BY <1>1, SubSeqEmpty
<1>2. CASE n # 0
  <2>1. PICK l \in Nat : l = Len(s)
    OBVIOUS
  <2>2. 1 \in 1..l /\ n \in 1..l
    BY <1>2, <2>1
  <2> QED
    BY <2>1, <2>2, SubSeqOfConcat1
<1> QED
  BY <1>1, <1>2

\* Taking one more event is one more push.
LEMMA TakenNext ==
  ASSUME NEW s \in Seq(WireEvents), NEW n \in Nat, n + 1 \in 1..Len(s)
  PROVE  Received(SubSeq(s, 1, n + 1)) = Push(Received(SubSeq(s, 1, n)), s[n + 1])
<1>1. PICK l \in Nat : l = Len(s)
  OBVIOUS
<1>2. 1 \in 1..l /\ n + 1 \in 1..l /\ (n + 1) - 1 = n
  BY <1>1
<1>3. SubSeq(s, 1, n + 1) = SubSeq(s, 1, n) \o <<s[n + 1]>>
  BY <1>1, <1>2, SubSeqRecursiveSecond
<1>4. s[n + 1] \in WireEvents
  BY <1>1, <1>2, ElementOfSeq
<1>5. SubSeq(s, 1, n) \in Seq(WireEvents)
  <2>1. \A i \in 1..n : s[i] \in WireEvents
    BY <1>1, <1>2, ElementOfSeq
  <2> QED
    BY <2>1, SubSeqProperties
<1>6. SubSeq(s, 1, n + 1) = Append(SubSeq(s, 1, n), s[n + 1])
  BY <1>3, <1>4, <1>5, AppendIsConcat
<1> QED
  BY <1>4, <1>5, <1>6, ReceivedMore

\* A stream only ends when it is over.
LEMMA TerminalIsLast ==
  ASSUME ProxyInv, NEW i \in 1..Len(sent), IsTerminal(sent[i])
  PROVE  i = Len(sent) /\ serving = "over"
<1>1. serving # "unpolled"
  <2>1. PICK n \in Nat : n = Len(sent)
    BY DEF ProxyInv, TypeOK
  <2>2. n # 0
    BY <2>1
  <2>3. sent # <<>>
    BY <2>1, <2>2
  <2> QED
    BY <2>3 DEF ProxyInv, Writing, Unpolled
<1>2. serving \notin {"relaying", "dropped"}
  BY DEF ProxyInv, Writing, Going, Shape, IsTerminal
<1>3. serving = "over"
  BY <1>1, <1>2 DEF ProxyInv, TypeOK
<1> QED
  BY <1>3 DEF ProxyInv, Writing, Over, Shaped

\* A client that has all of a stream that is over fails if a local consumer does.
LEMMA WholeIsRebuilt ==
  ASSUME ProxyInv, taken = Len(sent), serving = "over"
  PROVE  Rebuilt(acc, local.response, local.failed)
<1>1. SubSeq(sent, 1, taken) = sent
  BY SubSeqFull DEF ProxyInv, TypeOK
<1> QED
  BY <1>1 DEF ProxyInv, Writing, Receiving, Over

\* The client receives the next event.
LEMMA ReceivingNext ==
  ASSUME ProxyInv, ClientReceives
  PROVE  Receiving'
<1>1. PICK n \in Nat : n = Len(sent)
  BY DEF ProxyInv, TypeOK
<1>2. taken \in 0..n /\ (cut # None => cut[1] \in taken..n) /\ taken < Arriving
  BY <1>1 DEF ProxyInv, TypeOK, ClientReceives
<1>3. taken \in Nat /\ taken + 1 \in 1..n /\ taken # n
  BY <1>1, <1>2 DEF Arriving, IsSome
<1> DEFINE e == sent[taken + 1]
<1>4. e \in WireEvents /\ sent \in Seq(WireEvents) /\ acc \in Accumulators
  BY <1>1, <1>3, ElementOfSeq DEF ProxyInv, TypeOK
<1>5. /\ acc' = Push(acc, e) /\ taken' = taken + 1
      /\ outcome' = IF acc'.failed THEN "failed" ELSE outcome
      /\ outcome = "pending"
      /\ sent' = sent /\ serving' = serving /\ local' = local /\ cut' = cut
      /\ body' = body /\ relay' = relay
  BY DEF ClientReceives, server
<1>6. acc' = Received(SubSeq(sent', 1, taken'))
  BY <1>1, <1>3, <1>4, <1>5, TakenNext DEF ProxyInv, Receiving
<1>7. acc.failed = FALSE /\ acc.stopped = FALSE
  BY <1>1, <1>3, <1>4 DEF ProxyInv, Receiving, Accumulators
<1>8. acc'.failed = (e.type = "error") /\ acc'.stopped = (e.type = "message_stop")
  <2>1. /\ acc'.failed = (acc.failed \/ e.type = "error")
        /\ acc'.stopped = (acc.stopped \/ e.type = "message_stop")
    BY <1>4, <1>5, PushType
  <2> QED
    BY <1>7, <2>1
<1> HIDE DEF e
<1>9. acc'.failed \/ acc'.stopped => IsTerminal(e)
  BY <1>8 DEF IsTerminal
<1>10. IsTerminal(e) => taken + 1 = n /\ serving = "over"
  BY <1>1, <1>3, TerminalIsLast DEF e
<1>11. acc'.failed \/ acc'.stopped => taken' = Len(sent') /\ serving' = "over"
  BY <1>1, <1>5, <1>9, <1>10
<1>12. acc'.failed => local.failed
  <2>1. SUFFICES ASSUME acc'.failed PROVE local.failed
    OBVIOUS
  <2>2. serving = "over" /\ taken + 1 = n
    BY <1>9, <1>10, <2>1
  <2>3. SubSeq(sent', 1, taken') = sent
    BY <1>1, <1>4, <1>5, <2>2, SubSeqFull
  <2>4. Rebuilt(acc', local.response, local.failed)
    BY <1>6, <2>2, <2>3 DEF ProxyInv, Writing, Over
  <2> QED
    BY <2>1, <2>4 DEF Rebuilt
<1> QED
  BY <1>5, <1>6, <1>11, <1>12 DEF Receiving

\* Every step keeps the client in step with what it has taken.
LEMMA ReceivingStep == ProxyInv /\ [Next]_vars => Receiving'
<1> SUFFICES ASSUME ProxyInv, [Next]_vars PROVE Receiving'
  OBVIOUS
<1>1. Receiving /\ TypeOK
  BY DEF ProxyInv
<1>2. ASSUME serving \in {"unpolled", "relaying"}, NEW more \in Seq(WireEvents),
             sent' = sent \o more, UNCHANGED <<cut, client>>
      PROVE  Receiving'
  <2>1. acc' = acc /\ taken' = taken /\ outcome' = outcome /\ cut' = cut
    BY <1>2 DEF client
  <2>2. SubSeq(sent', 1, taken') = SubSeq(sent, 1, taken)
    BY <1>1, <1>2, <2>1, TakenStays DEF TypeOK
  <2>3. ~ acc.failed /\ ~ acc.stopped /\ ~ (outcome = "failed" /\ cut = None)
    BY <1>1, <1>2 DEF Receiving
  <2> QED
    BY <1>1, <2>1, <2>2, <2>3 DEF Receiving, Complete
<1>3. CASE UNCHANGED <<sent, serving, local, cut, client>>
  BY <1>1, <1>3 DEF Receiving, client, Complete
<1>4. CASE Open
  <2>1. sent' = sent \o <<MessageStart>>
    <3>1. <<MessageStart>> \in Seq(WireEvents)
      BY WireEventTypes, SingletonType
    <3> QED
      BY <1>4, <3>1, ConcatEmptySeq DEF Open, ProxyInv, Writing, Unpolled
  <2> QED
    BY <1>2, <1>4, <2>1, WireEventTypes, SingletonType DEF Open
<1>5. CASE RelayNext
  <2>1. RelayEvent(relay, Head(yielded)).events \in Seq(WireEvents)
    <3>1. Head(yielded) \in ProviderEvents
      BY <1>1, <1>5, HeadTailProperties DEF TypeOK, RelayNext
    <3> QED
      BY <1>1, <3>1, RelayEventType DEF TypeOK, Relayed
  <2> QED
    BY <1>2, <1>5, <2>1 DEF RelayNext
<1>6. CASE CloseWire
  <2>1. RelayEnd(relay) \in Seq(WireEvents)
    BY <1>1, RelayEndType DEF TypeOK
  <2> QED
    BY <1>2, <1>6, <2>1 DEF CloseWire
<1>7. CASE CutLink
  <2>1. cut' # None
    BY <1>7 DEF CutLink, Some, None
  <2> QED
    BY <1>1, <1>7, <2>1 DEF CutLink, Receiving, client, Complete
<1>8. CASE ClientReceives
  BY <1>8, ReceivingNext
<1>9. CASE ClientFinishes
  <2>1. /\ acc' = acc /\ taken' = taken /\ sent' = sent /\ serving' = serving
        /\ local' = local /\ cut' = cut
        /\ outcome' = IF Complete(acc) THEN "ok" ELSE "failed"
        /\ taken = Arriving /\ (serving = "over" \/ IsSome(cut))
    BY <1>9 DEF ClientFinishes, server
  <2>2. cut = None /\ ~ Complete(acc) => serving = "over" /\ local.failed
    <3>1. SUFFICES ASSUME cut = None, ~ Complete(acc) PROVE serving = "over" /\ local.failed
      OBVIOUS
    <3>2. serving = "over" /\ taken = Len(sent)
      BY <2>1, <3>1 DEF Arriving, IsSome
    <3>3. Rebuilt(acc, local.response, local.failed)
      BY <3>2, WholeIsRebuilt
    <3>4. local.failed \in BOOLEAN
      BY <1>1 DEF TypeOK
    <3> QED
      BY <3>1, <3>2, <3>3, <3>4 DEF Rebuilt, Complete
  <2> QED
    BY <1>1, <2>1, <2>2 DEF Receiving, Complete
<1> QED
  BY <1>3, <1>4, <1>5, <1>6, <1>7, <1>8, <1>9
  DEF Next, ServerStep, ClientStep, vars, server, client, ReceiveFrame, BreakBody, EndBody

-----------------------------------------------------------------------------

\* The invariant is inductive.
LEMMA ProxyStep == ProxyInv /\ [Next]_vars => ProxyInv'
<1> SUFFICES ASSUME ProxyInv, [Next]_vars PROVE ProxyInv'
  OBVIOUS
<1>1. TypeOK'
  BY TypeStep DEF ProxyInv, Writing
<1> QED
  BY <1>1, ServingStep, WritingStep, ReceivingStep DEF ProxyInv

\* On every reachable state, the relay, the client and the local consumers are in
\* step.
THEOREM ProxyInvariant == Spec => []ProxyInv
<1>1. Init => ProxyInv
  BY ProxyInit
<1>2. ProxyInv /\ [Next]_vars => ProxyInv'
  BY ProxyStep
<1> QED
  BY <1>1, <1>2, PTL DEF Spec

\* The locals of the decoder, the relay, the accumulator and the in-process
\* consumers keep their types.
THEOREM TypeCorrect == Spec => []TypeOK
BY ProxyInvariant, PTL DEF ProxyInv

\* Every stream has the documented shape, at every length.
THEOREM StreamsAreWellFormed == Spec => []WireGrammar
<1>1. ProxyInv => WireGrammar
  <2> SUFFICES ASSUME ProxyInv PROVE WireGrammar
    OBVIOUS
  <2>1. CASE serving = "unpolled"
    <3>1. sent = <<>>
      BY <2>1 DEF ProxyInv, Writing, Unpolled
    <3>2. \A i \in 1..Len(sent) : FALSE
      BY <3>1
    <3> QED
      BY <2>1, <3>2 DEF WireGrammar, Bracketed
  <2>2. CASE serving \in {"relaying", "dropped"}
    <3>1. Shape(sent) /\ Bracketed(sent)
      BY <2>2 DEF ProxyInv, Writing, Going, Brackets
    <3> QED
      BY <2>2, <3>1 DEF WireGrammar, Shape, IsTerminal
  <2>3. CASE serving = "over"
    <3>1. Shaped(sent) /\ Bracketed(sent)
      BY <2>3 DEF ProxyInv, Writing, Over
    <3>2. Last(sent) = sent[Len(sent)]
      BY DEF Last
    <3> QED
      BY <2>3, <3>1, <3>2 DEF WireGrammar, Shaped
  <2> QED
    BY <2>1, <2>2, <2>3 DEF ProxyInv, TypeOK
<1> QED
  BY <1>1, ProxyInvariant, PTL

\* A response is complete only after all of a stream whose body ended without an
\* error, wherever the link is cut and the body breaks.
THEOREM NothingIsTruncated == Spec => []NoSilentTruncation
<1>1. ProxyInv => NoSilentTruncation
  <2> SUFFICES ASSUME ProxyInv, outcome = "ok"
               PROVE  /\ taken = Len(sent) /\ serving = "over" /\ body = "ended"
                      /\ provider = "anthropic" => \A i \in 1..Len(said) : said[i] # StreamFails
    BY DEF NoSilentTruncation
  <2>1. acc.stopped /\ ~ acc.failed
    BY DEF ProxyInv, Receiving, Complete
  <2>2. taken = Len(sent) /\ serving = "over"
    BY <2>1 DEF ProxyInv, Receiving
  <2>3. ~ local.failed
    BY <2>1, <2>2, WholeIsRebuilt DEF Rebuilt
  <2> QED
    BY <2>2, <2>3 DEF ProxyInv, Serving, SaidFailure
<1> QED
  BY <1>1, ProxyInvariant, PTL

\* On an intact link the client fails exactly when a local consumer does, and a
\* response it completes is the local one, whatever the provider sends.
THEOREM TheProxyIsTransparent == Spec => []ProxyIsTransparent
<1>1. ProxyInv => ProxyIsTransparent
  <2> SUFFICES ASSUME ProxyInv PROVE ProxyIsTransparent
    OBVIOUS
  <2>1. ASSUME outcome = "ok"
        PROVE  /\ ~ local.failed
               /\ local.response = [text |-> Response(acc).text,
                                    finish |-> Response(acc).finish,
                                    usage |-> Response(acc).usage]
    <3>1. acc.stopped /\ ~ acc.failed
      BY <2>1 DEF ProxyInv, Receiving, Complete
    <3>2. taken = Len(sent) /\ serving = "over"
      BY <3>1 DEF ProxyInv, Receiving
    <3>3. Rebuilt(acc, local.response, local.failed)
      BY <3>2, WholeIsRebuilt
    <3>4. /\ ~ local.failed /\ acc.text = local.response.text
          /\ acc.finish = local.response.finish /\ acc.usage = local.response.usage
      BY <3>1, <3>3 DEF Rebuilt
    <3>5. Flush(acc).text = acc.text /\ Flush(acc).finish = acc.finish
          /\ Flush(acc).usage = acc.usage
      BY FlushType DEF ProxyInv, TypeOK
    <3>6. /\ Response(acc).text = local.response.text
          /\ Response(acc).finish = local.response.finish
          /\ Response(acc).usage = local.response.usage
      BY <3>4, <3>5 DEF Response
    <3>7. local.response = [text |-> local.response.text, finish |-> local.response.finish,
                            usage |-> local.response.usage]
      BY DEF ProxyInv, TypeOK, LocalResponses
    <3> QED
      BY <3>4, <3>6, <3>7
  <2>2. cut = None /\ outcome # "pending" => (outcome = "failed" <=> local.failed)
    BY <2>1 DEF ProxyInv, Receiving, TypeOK
  <2> QED
    BY <2>1, <2>2 DEF ProxyIsTransparent
<1> QED
  BY <1>1, ProxyInvariant, PTL

-----------------------------------------------------------------------------

\* The total of a usage is that of its counts, if they have one.
Settled(u) == IsSome(u) => Overflows(u[1]) \/ u[1].total_tokens = Sum(u[1])

\* Usage u has each count that v has.
Covers(u, v) ==
  IsSome(v) =>
    /\ IsSome(u)
    /\ IsSome(v[1].prompt_tokens) => IsSome(u[1].prompt_tokens)
    /\ IsSome(v[1].completion_tokens) => IsSome(u[1].completion_tokens)

\* What was reported, and is about to be: the next report has each count of
\* those before it, and its total is theirs.
Told(reported, events) ==
  /\ Settled(reported)
  /\ \A k \in 1..Len(events) : events[k].kind = "done" =>
       /\ Len(events) = 1
       /\ Settled(events[k].usage)
       /\ IsSome(events[k].usage) => Covers(events[k].usage, reported)

\* What the decoder has accumulated has each count that it reported; before its
\* first report it is what the message was opened with.
Ahead(d, reported, events, opened) ==
  /\ Covers(d.usage, reported)
  /\ \A k \in 1..Len(events) : events[k].kind = "done" => Covers(d.usage, events[k].usage)
  /\ ~ d.emitted =>
       /\ Settled(d.usage) /\ reported = None
       /\ \A k \in 1..Len(events) : events[k].kind = "done" => events[k].usage = None
  /\ ~ d.emitted /\ ~ opened => d.usage = None

\* A merged usage has each count of the two, and settles a report that covers
\* what it is merged into.
LEMMA MergeCovers ==
  ASSUME NEW u \in Option(Usage), NEW v \in Option(Usage)
  PROVE  /\ Covers(MergeInto(u, v), u)
         /\ Covers(MergeInto(u, v), v)
         /\ IsSome(v) /\ Covers(v, u) /\ Settled(u) /\ Settled(v) => Settled(MergeInto(u, v))
         /\ \A w : Covers(w, u) /\ Covers(w, v) => Covers(w, MergeInto(u, v))
<1>1. CASE ~ IsSome(v)
  <2>1. MergeInto(u, v) = u
    BY <1>1 DEF MergeInto, Or
  <2> QED
    BY <1>1, <2>1 DEF Covers
<1>2. CASE IsSome(v) /\ ~ IsSome(u)
  <2>1. MergeInto(u, v) = v
    BY <1>2 DEF MergeInto, Or
  <2> QED
    BY <1>2, <2>1 DEF Covers
<1>3. CASE IsSome(v) /\ IsSome(u)
  <2>1. PICK a \in Usage, b \in Usage : a = u[1] /\ b = v[1]
    BY <1>3, SomeOrNone
  <2>2. PICK m : m = MergeInto(u, v)
    OBVIOUS
  <2>3. m = Some(Merge(a, b))
    BY <1>3, <2>1, <2>2 DEF MergeInto
  <2>4. IsSome(m) /\ m[1] = Merge(a, b)
    BY <2>3, SomeValue
  <2>5. /\ m[1].prompt_tokens = Or(b.prompt_tokens, a.prompt_tokens)
        /\ m[1].completion_tokens = Or(b.completion_tokens, a.completion_tokens)
        /\ m[1].total_tokens = Or(b.total_tokens, a.total_tokens)
    BY <2>4 DEF Merge, UsageFields
  <2>6. ASSUME Covers(v, u), Settled(u), Settled(v) PROVE Settled(m)
    <3>1. /\ IsSome(a.prompt_tokens) => IsSome(b.prompt_tokens)
          /\ IsSome(a.completion_tokens) => IsSome(b.completion_tokens)
      BY <1>3, <2>1, <2>6 DEF Covers
    <3>2. /\ Overflows(a) \/ a.total_tokens = Sum(a)
          /\ Overflows(b) \/ b.total_tokens = Sum(b)
      BY <1>3, <2>1, <2>6 DEF Settled
    <3>3. CASE BothCounts(b)
      <4>1. m[1].prompt_tokens = b.prompt_tokens /\ m[1].completion_tokens = b.completion_tokens
        BY <2>5, <3>3 DEF Or, BothCounts
      <4>2. Sum(m[1]) = Sum(b) /\ BothCounts(m[1])
        BY <3>3, <4>1 DEF Sum, BothCounts
      <4>3. CASE Sum(b) = None
        BY <4>2, <4>3 DEF Settled, Overflows
      <4>4. CASE Sum(b) # None
        <5>1. IsSome(Sum(b))
          BY <4>4, SomeValue DEF Sum
        <5>2. m[1].total_tokens = Sum(b)
          BY <2>5, <3>2, <4>4, <5>1 DEF Or, Overflows
        <5> QED
          BY <4>2, <5>2 DEF Settled
      <4> QED
        BY <4>3, <4>4
    <3>4. CASE ~ BothCounts(b)
      <4>1. ~ BothCounts(a)
        BY <3>1, <3>4 DEF BothCounts
      <4>2. Sum(b) = None /\ Sum(a) = None
        BY <3>4, <4>1 DEF Sum
      <4>3. a.total_tokens = None /\ b.total_tokens = None
        BY <3>2, <3>4, <4>1, <4>2 DEF Overflows
      <4>4. m[1].total_tokens = None
        BY <2>5, <4>3 DEF Or
      <4>5. ~ BothCounts(m[1])
        BY <2>5, <3>1, <3>4 DEF Or, BothCounts
      <4> QED
        BY <4>4, <4>5 DEF Settled, Sum
    <3> QED
      BY <3>3, <3>4
  <2>7. Covers(m, u) /\ Covers(m, v)
    BY <2>1, <2>4, <2>5 DEF Covers, Or
  <2>8. ASSUME NEW w, Covers(w, u), Covers(w, v) PROVE Covers(w, m)
    BY <1>3, <2>1, <2>4, <2>5, <2>8 DEF Covers, Or
  <2> QED
    BY <2>2, <2>6, <2>7, <2>8
<1> QED
  BY <1>1, <1>2, <1>3

\* Whatever covers a usage covers what it covers.
LEMMA CoversMore ==
  ASSUME NEW u, NEW v, NEW w, Covers(u, v), Covers(v, w)
  PROVE  Covers(u, w)
BY DEF Covers

\* A frame of a message that is opened once keeps the reports in order.
LEMMA FrameTells ==
  ASSUME NEW d \in AnthropicDecoders, NEW frame \in SseEvents, NEW reported \in Option(Usage),
         NEW opened \in BOOLEAN,
         frame.event = "message_start" /\ opened => BothCounts(frame.usage),
         Settled(reported), Ahead(d, reported, <<>>, opened)
  PROVE  LET decoded == DecodeAnthropic(d, frame)
         IN  /\ Told(reported, decoded.events)
             /\ frame # MessageStops =>
                  Ahead(decoded.decoder, reported, decoded.events,
                        opened \/ frame.event = "message_start")
<1> DEFINE decoded == DecodeAnthropic(d, frame)
<1> SUFFICES /\ Told(reported, decoded.events)
             /\ frame # MessageStops =>
                  Ahead(decoded.decoder, reported, decoded.events,
                        opened \/ frame.event = "message_start")
  OBVIOUS
<1>1. d.usage \in Option(Usage) /\ d.emitted \in BOOLEAN
  BY DEF AnthropicDecoders
<1>2. ASSUME decoded.decoder.usage = d.usage, decoded.decoder.emitted = d.emitted,
             \A k \in 1..Len(decoded.events) : decoded.events[k].kind # "done"
      PROVE  /\ Told(reported, decoded.events)
             /\ Ahead(decoded.decoder, reported, decoded.events,
                      opened \/ frame.event = "message_start")
  BY <1>2 DEF Told, Ahead
<1>3. CASE frame.event = "content_block_start"
  <2>1. decoded = [decoder |-> [d EXCEPT !.tool = Some(frame.id)],
                   events |-> <<ToolCallStart(frame.id, frame.name)>>]
    BY <1>3 DEF DecodeAnthropic, DecodeBlockStart
  <2> HIDE DEF decoded
  <2> QED
    BY <1>2, <2>1 DEF AnthropicDecoders, ToolCallStart
<1>4. CASE frame.event = "content_block_delta"
  <2>1. PICK text, args :
          /\ text = When(IsSome(frame.text) /\ frame.text # Some(<<>>), <<Text(frame.text[1])>>)
          /\ args = When(IsSome(frame.args) /\ IsSome(d.tool),
                         <<ToolCallChunk(d.tool[1], frame.args[1])>>)
    OBVIOUS
  <2>2. decoded = [decoder |-> d, events |-> text \o args]
    BY <1>4, <2>1 DEF DecodeAnthropic, DecodeBlockDelta
  <2> HIDE DEF decoded
  <2>3. PICK x, y : x = Text(frame.text[1]) /\ y = ToolCallChunk(d.tool[1], frame.args[1])
    OBVIOUS
  <2>4. (text = <<>> \/ text = <<x>>) /\ (args = <<>> \/ args = <<y>>)
    BY <2>1, <2>3 DEF When
  <2>5. x.kind # "done" /\ y.kind # "done"
    BY <2>3 DEF Text, ToolCallChunk
  <2>6. text \in Seq({x, y}) /\ args \in Seq({x, y})
    <3>1. <<x>> \in Seq({x, y}) /\ <<y>> \in Seq({x, y}) /\ <<>> \in Seq({x, y})
      BY EmptySeq, SingletonType
    <3> QED
      BY <2>4, <3>1
  <2>7. text \o args \in Seq({x, y})
    BY <2>6, ConcatProperties
  <2>8. \A k \in 1..Len(text \o args) : (text \o args)[k].kind # "done"
    BY <2>5, <2>7, ElementOfSeq
  <2> QED
    BY <1>2, <2>2, <2>8
<1>5. CASE frame.event = "message_delta"
  <2>1. frame.usage \in Option(Usage) /\ frame # MessageStops /\ frame.event # "message_start"
    BY <1>5, AnthropicUsagesType DEF SseEvents, MessageStops, StreamFails, Ignored
  <2>2. PICK merged \in Option(Usage) : merged = MergeInto(d.usage, frame.usage)
    BY <1>1, <2>1, MergeIntoType
  <2>3. Covers(merged, d.usage)
    BY <1>1, <2>1, <2>2, MergeCovers
  <2>4. CASE IsSome(frame.usage)
    <3>1. PICK m \in Usage : merged = Some(m)
      <4>1. IsSome(merged)
        BY <2>2, <2>4, SomeValue DEF MergeInto, Or
      <4> QED
        BY <4>1, SomeOrNone
    <3>2. PICK n : n = [m EXCEPT !.total_tokens = Sum(m)]
      OBVIOUS
    <3>3. /\ n.prompt_tokens = m.prompt_tokens /\ n.completion_tokens = m.completion_tokens
          /\ n.total_tokens = Sum(m)
      BY <3>2 DEF Usage
    <3>4. Sum(n) = Sum(m)
      BY <3>3 DEF Sum, BothCounts
    <3>5. PICK usage : usage = Some(n)
      OBVIOUS
    <3>6. IsSome(usage) /\ usage[1] = n
      BY <3>5, SomeValue
    <3>7. /\ decoded.decoder.usage = usage /\ decoded.decoder.emitted = TRUE
          /\ decoded.events = <<Done(frame.reason, usage)>>
      <4>1. merged[1] = m
        BY <3>1, SomeValue
      <4>2. decoded = [decoder |-> [d EXCEPT !.usage = IF IsSome(usage) THEN usage ELSE @,
                                             !.emitted = @ \/ IsSome(usage)],
                       events |-> When(IsSome(frame.reason) \/ IsSome(usage),
                                       <<Done(frame.reason, usage)>>)]
        BY <1>5, <2>2, <2>4, <3>2, <3>5, <4>1 DEF DecodeAnthropic, DecodeMessageDelta
      <4> HIDE DEF decoded
      <4> QED
        BY <3>6, <4>2 DEF AnthropicDecoders, When
    <3> HIDE DEF decoded
    <3>8. Settled(usage)
      BY <3>3, <3>4, <3>6 DEF Settled
    <3>9. Covers(usage, d.usage)
      BY <2>3, <3>1, <3>3, <3>6, SomeValue DEF Covers
    <3>10. Covers(usage, reported) /\ Covers(usage, usage)
      BY <3>9, CoversMore DEF Ahead, Covers
    <3>11. PICK events : events = <<Done(frame.reason, usage)>>
      OBVIOUS
    <3>12. Len(events) = 1 /\ \A k \in 1..1 : events[k].usage = usage
      BY <3>11 DEF Done
    <3>13. Told(reported, events)
      BY <3>8, <3>10, <3>12 DEF Told
    <3>14. Ahead(decoded.decoder, reported, events, opened \/ frame.event = "message_start")
      BY <3>7, <3>10, <3>12 DEF Ahead
    <3> QED
      BY <3>7, <3>11, <3>13, <3>14
  <2>5. CASE ~ IsSome(frame.usage)
    <3>0. PICK usage : usage = None
      OBVIOUS
    <3>1. decoded = [decoder |-> [d EXCEPT !.usage = IF IsSome(usage) THEN usage ELSE @,
                                           !.emitted = @ \/ IsSome(usage)],
                     events |-> When(IsSome(frame.reason) \/ IsSome(usage),
                                     <<Done(frame.reason, usage)>>)]
      BY <1>5, <2>5, <3>0 DEF DecodeAnthropic, DecodeMessageDelta
    <3> HIDE DEF decoded
    <3>2. decoded.decoder.usage = d.usage /\ decoded.decoder.emitted = d.emitted
      BY <1>1, <3>0, <3>1 DEF AnthropicDecoders, IsSome
    <3>3. PICK x : x = Done(frame.reason, usage)
      OBVIOUS
    <3>31. x.usage = None
      BY <3>0, <3>3 DEF Done
    <3>32. PICK events : events = decoded.events
      OBVIOUS
    <3>33. events = <<>> \/ events = <<x>>
      BY <3>1, <3>3, <3>32 DEF When
    <3>34. Len(events) \in 0..1 /\ \A k \in 1..Len(events) : k = 1 /\ events[k] = x
      BY <3>33
    <3>4. /\ Len(decoded.events) \in 0..1
          /\ \A k \in 1..Len(decoded.events) : k = 1 /\ decoded.events[k].usage = None
      BY <3>31, <3>32, <3>34
    <3>5. ~ IsSome(None) /\ Settled(None) /\ \A u : Covers(u, None)
      BY DEF IsSome, Settled, Covers
    <3>6. Told(reported, decoded.events)
      BY <3>4, <3>5 DEF Told
    <3>7. Ahead(decoded.decoder, reported, decoded.events,
                opened \/ frame.event = "message_start")
      BY <2>1, <3>2, <3>4, <3>5 DEF Ahead
    <3> QED
      BY <3>6, <3>7
  <2> QED
    BY <2>4, <2>5
<1>6. CASE frame.event = "message_start"
  <2>1. frame.usage \in Usage /\ frame.usage.total_tokens = Sum(frame.usage)
    BY <1>6 DEF SseEvents, MessageStops, StreamFails, Ignored, AnthropicUsages
  <2>2. PICK new \in Option(Usage) : new = Some(frame.usage)
    BY <2>1, SomeIsOption
  <2>3. IsSome(new) /\ new[1] = frame.usage
    BY <2>2, SomeValue
  <2>4. PICK usage : usage = MergeInto(d.usage, new)
    OBVIOUS
  <2>5. decoded.decoder.usage = usage /\ decoded.decoder.emitted = d.emitted
        /\ decoded.events = <<>>
    BY <1>6, <2>2, <2>4 DEF DecodeAnthropic, DecodeMessageStart, Silent, AnthropicDecoders
  <2> HIDE DEF decoded
  <2>6. Covers(usage, reported)
    <3>1. Covers(usage, d.usage)
      BY <1>1, <2>4, MergeCovers
    <3> QED
      BY <3>1, CoversMore DEF Ahead
  <2>7. ASSUME ~ d.emitted PROVE Settled(usage)
    <3>1. Settled(new)
      BY <2>1, <2>3 DEF Settled
    <3>2. CASE d.usage = None
      <4>1. usage = new
        BY <2>4, <3>2 DEF MergeInto, Or, IsSome
      <4> QED
        BY <3>1, <4>1
    <3>3. CASE d.usage # None
      <4>1. opened
        BY <2>7, <3>3 DEF Ahead
      <4>2. IsSome(frame.usage.prompt_tokens) /\ IsSome(frame.usage.completion_tokens)
        BY <1>6, <4>1 DEF BothCounts
      <4>3. Covers(new, d.usage)
        BY <2>3, <4>2 DEF Covers
      <4>4. Settled(d.usage)
        BY <2>7 DEF Ahead
      <4> QED
        BY <1>1, <2>3, <2>4, <3>1, <4>3, <4>4, MergeCovers
    <3> QED
      BY <3>2, <3>3
  <2>8. Told(reported, decoded.events)
    BY <2>5 DEF Told
  <2>9. Ahead(decoded.decoder, reported, decoded.events, TRUE)
    BY <2>5, <2>6, <2>7 DEF Ahead
  <2> QED
    BY <1>6, <2>8, <2>9
<1>7. CASE frame.event = "message_stop"
  <2>1. frame = MessageStops
    BY <1>7 DEF SseEvents, MessageStops, StreamFails, Ignored
  <2>2. CASE ~ d.emitted /\ IsSome(d.usage)
    <3>1. decoded.events = <<Done(None, d.usage)>>
      BY <1>7, <2>2 DEF DecodeAnthropic, DecodeMessageStop
    <3> HIDE DEF decoded
    <3>2. Len(decoded.events) = 1 /\ \A k \in 1..1 : decoded.events[k].usage = d.usage
      BY <3>1 DEF Done
    <3>3. Settled(d.usage) /\ Covers(d.usage, reported)
      BY <2>2 DEF Ahead
    <3> QED
      BY <2>1, <3>2, <3>3 DEF Told
  <2>3. CASE ~ (~ d.emitted /\ IsSome(d.usage))
    <3>1. decoded.events = <<>>
      BY <1>7, <2>3 DEF DecodeAnthropic, DecodeMessageStop, Silent
    <3> HIDE DEF decoded
    <3> QED
      BY <2>1, <3>1 DEF Told
  <2> QED
    BY <2>2, <2>3
<1>8. CASE frame.event = "error"
  <2>1. decoded = [decoder |-> d, events |-> <<Failure>>]
    BY <1>8 DEF DecodeAnthropic
  <2> HIDE DEF decoded
  <2> QED
    BY <1>2, <2>1 DEF Failure
<1>9. CASE frame.event \notin {"content_block_start", "content_block_delta", "message_delta",
                               "message_start", "message_stop", "error"}
  <2>1. decoded = [decoder |-> d, events |-> <<>>]
    BY <1>9 DEF DecodeAnthropic, Silent
  <2> HIDE DEF decoded
  <2> QED
    BY <1>2, <2>1
<1> QED
  BY <1>3, <1>4, <1>5, <1>6, <1>7, <1>8, <1>9

\* The relay and the local consumer take the next event.
LEMMA RelayTells ==
  ASSUME NEW c \in LocalResponses, NEW events \in Seq(ProviderEvents), events # <<>>,
         NEW d, NEW opened, Told(c.usage, events)
  PROVE  LET usage == Collect(c, Head(events)).usage
         IN  /\ Told(usage, Tail(events))
             /\ Ahead(d, c.usage, events, opened) => Ahead(d, usage, Tail(events), opened)
<1>1. PICK e \in ProviderEvents : e = Head(events)
  BY HeadTailProperties
<1>2. PICK rest \in Seq(ProviderEvents) : rest = Tail(events)
  BY HeadTailProperties
<1>3. PICK n \in Nat : n = Len(events)
  OBVIOUS
<1>4. n # 0
  BY <1>3, EmptySeq
<1>5. e = events[1] /\ Len(rest) = n - 1 /\ \A k \in 1..(n - 1) : rest[k] = events[k + 1]
  BY <1>1, <1>2, <1>3, <1>4, HeadTailProperties
<1>6. PICK usage : usage = Collect(c, e).usage
  OBVIOUS
<1> SUFFICES /\ Told(usage, rest)
             /\ Ahead(d, c.usage, events, opened) => Ahead(d, usage, rest, opened)
  BY <1>1, <1>2, <1>6
<1>7. CASE e.kind # "done"
  <2>1. usage = c.usage
    BY <1>6, <1>7, ProviderEventCases DEF Collect, LocalResponses
  <2>2. \A k \in 1..(n - 1) : rest[k].kind # "done"
    <3>1. ASSUME NEW k \in 1..(n - 1), rest[k].kind = "done" PROVE FALSE
      <4>1. k + 1 \in 1..n /\ events[k + 1].kind = "done"
        BY <1>5, <3>1
      <4>2. n = 1
        BY <1>3, <4>1 DEF Told
      <4> QED
        BY <4>2
    <3> QED
      BY <3>1
  <2> QED
    BY <1>5, <2>1, <2>2 DEF Told, Ahead
<1>8. CASE e.kind = "done"
  <2>1. PICK new \in Option(Usage) : new = e.usage
    BY <1>8, ProviderEventCases
  <2>2. c.usage \in Option(Usage)
    BY DEF LocalResponses
  <2>3. usage = MergeInto(c.usage, new)
    BY <1>6, <1>8, <2>1 DEF Collect, LocalResponses
  <2>4. /\ n = 1 /\ Settled(new) /\ Settled(c.usage)
        /\ IsSome(new) => Covers(new, c.usage)
    BY <1>3, <1>4, <1>5, <1>8, <2>1 DEF Told
  <2>5. \A k \in 1..Len(rest) : FALSE
    BY <1>5, <2>4
  <2>6. Settled(usage)
    <3>1. CASE ~ IsSome(new)
      BY <2>3, <2>4, <3>1 DEF MergeInto, Or
    <3>2. CASE IsSome(new)
      BY <2>2, <2>3, <2>4, <3>2, MergeCovers
    <3> QED
      BY <3>1, <3>2
  <2>7. Told(usage, rest)
    BY <2>5, <2>6 DEF Told
  <2>8. ASSUME Ahead(d, c.usage, events, opened) PROVE Ahead(d, usage, rest, opened)
    <3>1. Covers(d.usage, c.usage) /\ Covers(d.usage, new)
      BY <1>3, <1>4, <1>5, <1>8, <2>1, <2>8 DEF Ahead
    <3>2. Covers(d.usage, usage)
      BY <2>2, <2>3, <3>1, MergeCovers
    <3>3. ~ d.emitted => usage = None
      <4>1. ~ d.emitted => c.usage = None /\ new = None
        BY <1>3, <1>4, <1>5, <1>8, <2>1, <2>8 DEF Ahead
      <4> QED
        BY <2>3, <4>1 DEF MergeInto, Or, IsSome
    <3> QED
      BY <2>5, <2>8, <3>2, <3>3 DEF Ahead
  <2> QED
    BY <2>7, <2>8
<1> QED
  BY <1>7, <1>8

\* A body of Anthropic's that is over with its stop, and opens its message whole.
InOrder == (\A i \in 1..(Len(said) - 1) : said[i] # MessageStops) /\ OpensWhole
HasOpened == \E i \in 1..Len(said) : said[i].event = "message_start"
HasStopped == Len(said) # 0 /\ said[Len(said)] = MessageStops

\* Until then, what is reported keeps up with what is accumulated.
Reporting ==
  provider = "anthropic" /\ InOrder =>
    /\ Told(local.response.usage, yielded)
    /\ ~ HasStopped => Ahead(decoder, local.response.usage, yielded, HasOpened)

\* A frame that leaves the body in order found it so, and not stopped.
LEMMA FrameInOrder ==
  ASSUME TypeOK, NEW frame, said' = Append(said, frame), InOrder'
  PROVE  /\ InOrder /\ ~ HasStopped
         /\ HasOpened' = (HasOpened \/ frame.event = "message_start")
         /\ HasStopped' = (frame = MessageStops)
         /\ frame.event = "message_start" /\ HasOpened => BothCounts(frame.usage)
<1>1. PICK n \in Nat : n = Len(said)
  BY DEF TypeOK
<1>2. PICK more : more = Append(said, frame)
  OBVIOUS
<1>3. Len(more) = n + 1 /\ more[n + 1] = frame /\ \A i \in 1..n : more[i] = said[i]
  BY <1>1, <1>2, AppendProperties DEF TypeOK
<1>4. \A i \in 1..n : said[i] # MessageStops
  BY <1>2, <1>3 DEF InOrder
<1>5. ASSUME NEW i \in 1..(n + 1), NEW j \in 1..(n + 1), i < j,
             more[i].event = "message_start", more[j].event = "message_start"
      PROVE  BothCounts(more[j].usage)
  BY <1>2, <1>3, <1>5 DEF InOrder, OpensWhole
<1>6. InOrder
  <2>1. \A i \in 1..(n - 1) : said[i] # MessageStops
    BY <1>4
  <2>2. OpensWhole
    BY <1>1, <1>3, <1>5 DEF OpensWhole
  <2> QED
    BY <1>1, <2>1, <2>2 DEF InOrder
<1>7. ~ HasStopped
  BY <1>1, <1>4 DEF HasStopped
<1>8. HasOpened' = (HasOpened \/ frame.event = "message_start")
  <2>1. HasOpened' <=> \E i \in 1..(n + 1) : more[i].event = "message_start"
    BY <1>2, <1>3 DEF HasOpened
  <2>2. HasOpened <=> \E i \in 1..n : more[i].event = "message_start"
    BY <1>1, <1>3 DEF HasOpened
  <2>3. \A i \in 1..(n + 1) : i \in 1..n \/ i = n + 1
    OBVIOUS
  <2>4. n + 1 \in 1..(n + 1) /\ \A i \in 1..n : i \in 1..(n + 1)
    OBVIOUS
  <2>5. (\E i \in 1..(n + 1) : more[i].event = "message_start")
          <=> (\E i \in 1..n : more[i].event = "message_start") \/ frame.event = "message_start"
    BY <1>3, <2>3, <2>4
  <2> QED
    BY <2>1, <2>2, <2>5 DEF HasOpened
<1>9. HasStopped' = (frame = MessageStops)
  BY <1>2, <1>3 DEF HasStopped
<1>10. ASSUME frame.event = "message_start", HasOpened PROVE BothCounts(frame.usage)
  <2>1. PICK i \in 1..n : said[i].event = "message_start"
    BY <1>1, <1>10 DEF HasOpened
  <2>2. i \in 1..(n + 1) /\ n + 1 \in 1..(n + 1) /\ i < n + 1
    OBVIOUS
  <2> QED
    BY <1>3, <1>5, <1>10, <2>1, <2>2
<1> QED
  BY <1>6, <1>7, <1>8, <1>9, <1>10

\* Nothing is reported before the first poll.
LEMMA ReportingInit == Init => Reporting
<1> SUFFICES ASSUME Init, provider = "anthropic"
             PROVE  Told(None, <<>>) /\ Ahead(AnthropicDecoder, None, <<>>, HasOpened)
  BY DEF Init, Reporting, NewResponse
<1> QED
  BY DEF Told, Ahead, AnthropicDecoder, Settled, Covers, IsSome

\* Every step keeps up the reports.
LEMMA ReportingStep == ProxyInv /\ Reporting /\ [Next]_vars => Reporting'
<1> SUFFICES ASSUME ProxyInv, Reporting, [Next]_vars, provider' = "anthropic", InOrder'
             PROVE  /\ Told(local'.response.usage, yielded')
                    /\ ~ HasStopped' => Ahead(decoder', local'.response.usage, yielded', HasOpened')
  BY DEF Reporting
<1>1. CASE UNCHANGED <<provider, said, decoder, yielded, local>>
  BY <1>1 DEF Reporting, InOrder, OpensWhole, HasOpened, HasStopped
<1>2. TypeOK
  BY DEF ProxyInv
<1>3. ASSUME provider = "anthropic"
      PROVE  decoder \in AnthropicDecoders /\ local.response.usage \in Option(Usage)
  BY <1>2, <1>3 DEF TypeOK, LocalResponses
<1>4. ASSUME NEW frame \in Frames[provider], ReceiveFrame(frame)
      PROVE  /\ Told(local'.response.usage, yielded')
             /\ ~ HasStopped' => Ahead(decoder', local'.response.usage, yielded', HasOpened')
  <2>1. /\ provider = "anthropic" /\ yielded = <<>> /\ local' = local
        /\ said' = Append(said, frame)
    BY <1>4 DEF ReceiveFrame, Reading
  <2>2. /\ InOrder /\ ~ HasStopped
        /\ HasOpened' = (HasOpened \/ frame.event = "message_start")
        /\ HasStopped' = (frame = MessageStops)
        /\ frame.event = "message_start" /\ HasOpened => BothCounts(frame.usage)
    BY <1>2, <2>1, FrameInOrder
  <2>3. frame \in SseEvents
    BY <1>2, <2>1, WireProxyAssumption DEF TypeOK
  <2>4. decoder' = DecodeAnthropic(decoder, frame).decoder
        /\ yielded' = DecodeAnthropic(decoder, frame).events
    BY <1>4, <2>1 DEF ReceiveFrame, DecodeFrame
  <2>5. /\ Settled(local.response.usage)
        /\ Ahead(decoder, local.response.usage, <<>>, HasOpened)
    BY <2>1, <2>2 DEF Reporting, Told
  <2>6. PICK opened \in BOOLEAN : opened = HasOpened
    BY DEF HasOpened
  <2>7. /\ Told(local.response.usage, DecodeAnthropic(decoder, frame).events)
        /\ frame # MessageStops =>
             Ahead(DecodeAnthropic(decoder, frame).decoder, local.response.usage,
                   DecodeAnthropic(decoder, frame).events,
                   opened \/ frame.event = "message_start")
    BY <1>3, <2>1, <2>2, <2>3, <2>5, <2>6, FrameTells
  <2> QED
    BY <2>1, <2>2, <2>4, <2>6, <2>7
<1>5. CASE BreakBody \/ EndBody
  <2>1. /\ provider = "anthropic" /\ yielded = <<>>
        /\ UNCHANGED <<said, decoder, local>>
        /\ yielded' = <<>> \/ yielded' = <<Failure>>
    BY <1>5 DEF BreakBody, EndBody, Reading
  <2>2. InOrder /\ HasStopped' = HasStopped /\ HasOpened' = HasOpened
    BY <2>1 DEF InOrder, OpensWhole, HasStopped, HasOpened
  <2>3. \A k \in 1..Len(yielded') : yielded'[k].kind # "done"
    BY <2>1 DEF Failure
  <2>4. Told(local.response.usage, <<>>)
        /\ (~ HasStopped => Ahead(decoder, local.response.usage, <<>>, HasOpened))
    BY <2>1, <2>2 DEF Reporting
  <2> QED
    BY <2>1, <2>2, <2>3, <2>4 DEF Told, Ahead
<1>6. CASE RelayNext
  <2>1. /\ provider = "anthropic" /\ yielded # <<>> /\ yielded' = Tail(yielded)
        /\ UNCHANGED <<said, decoder>>
        /\ local'.response = Collect(local.response, Head(yielded))
    BY <1>6 DEF RelayNext
  <2>2. InOrder /\ HasStopped' = HasStopped /\ HasOpened' = HasOpened
    BY <2>1 DEF InOrder, OpensWhole, HasStopped, HasOpened
  <2>3. Told(local.response.usage, yielded)
        /\ (~ HasStopped => Ahead(decoder, local.response.usage, yielded, HasOpened))
    BY <2>1, <2>2 DEF Reporting
  <2>4. yielded \in Seq(ProviderEvents) /\ local.response \in LocalResponses
    BY <1>2 DEF TypeOK
  <2>5. /\ Told(Collect(local.response, Head(yielded)).usage, Tail(yielded))
        /\ Ahead(decoder, local.response.usage, yielded, HasOpened)
           => Ahead(decoder, Collect(local.response, Head(yielded)).usage, Tail(yielded), HasOpened)
    BY <2>1, <2>3, <2>4, RelayTells
  <2> QED
    BY <2>1, <2>2, <2>3, <2>5
<1>7. CASE Open \/ CloseWire \/ CutLink \/ ClientStep
  BY <1>1, <1>7 DEF Open, CloseWire, CutLink, ClientStep, ClientReceives, ClientFinishes, server
<1> QED
  BY <1>1, <1>4, <1>5, <1>6, <1>7 DEF Next, ServerStep, vars, server

\* Of a message that is opened once, or again with both counts, and stops once, the
\* client and a local consumer get the total of the counts they get, however many
\* snapshots reported them.
THEOREM TotalsAreSums == Spec => []TotalsAgree
<1>1. Init => ProxyInv /\ Reporting
  BY ProxyInit, ReportingInit
<1>2. ProxyInv /\ Reporting /\ [Next]_vars => (ProxyInv /\ Reporting)'
  BY ProxyStep, ReportingStep
<1>3. Reporting /\ ProxyIsTransparent => TotalsAgree
  <2> SUFFICES ASSUME Reporting, ProxyIsTransparent, provider = "anthropic", outcome = "ok", InOrder
               PROVE  \A u \in {Response(acc).usage, local.response.usage} :
                        IsSome(u) => Overflows(u[1]) \/ u[1].total_tokens = Sum(u[1])
    BY DEF TotalsAgree, InOrder
  <2>1. Settled(local.response.usage)
    BY DEF Reporting, Told
  <2>2. local.response.usage = Response(acc).usage
    BY DEF ProxyIsTransparent
  <2> QED
    BY <2>1, <2>2 DEF Settled
<1> QED
  BY <1>1, <1>2, <1>3, TheProxyIsTransparent, PTL DEF Spec

-----------------------------------------------------------------------------

\* The local turn, the relay and the client that received all of the stream.
States == [turn : Turns, relay : Relays, client : Accumulators]

\* The accumulator after the one or two events that the relay writes for one.
Pushed(a, events) ==
  IF Len(events) = 1 THEN Push(a, events[1])
  ELSE IF Len(events) = 2 THEN Push(Push(a, events[1]), events[2]) ELSE a

\* What one provider event makes of the three.
Feed(s, e) ==
  LET relayed == RelayEvent(s.relay, e)
  IN  [turn |-> Assemble(s.turn, e), relay |-> relayed.relay,
       client |-> Pushed(s.client, relayed.events)]

\* What several events make of them, in their order.
After(s, events) ==
  LET after[k \in 0..Len(events)] ==
        IF k = 0 THEN s ELSE Feed(after[k - 1], events[k])
  IN  after[Len(events)]

\* Pushing keeps the type.
LEMMA PushedType ==
  ASSUME NEW a \in Accumulators, NEW events \in Seq(WireEvents)
  PROVE  Pushed(a, events) \in Accumulators
<1>1. CASE Len(events) = 1
  <2>1. events[1] \in WireEvents
    BY <1>1, ElementOfSeq
  <2> QED
    BY <1>1, <2>1, PushType DEF Pushed
<1>2. CASE Len(events) = 2
  <2>1. events[1] \in WireEvents /\ events[2] \in WireEvents
    BY <1>2, ElementOfSeq
  <2> QED
    BY <1>2, <2>1, PushType DEF Pushed
<1>3. CASE Len(events) # 1 /\ Len(events) # 2
  BY <1>3 DEF Pushed
<1> QED
  BY <1>1, <1>2, <1>3

\* An event keeps the types of the three.
LEMMA FeedType ==
  ASSUME NEW s \in States, NEW e \in ProviderEvents
  PROVE  Feed(s, e) \in States
<1>1. s.turn \in Turns /\ s.relay \in Relays /\ s.client \in Accumulators
  BY DEF States
<1>2. PICK relayed \in Relayed : relayed = RelayEvent(s.relay, e)
  BY <1>1, RelayEventType
<1>3. relayed.relay \in Relays /\ relayed.events \in Seq(WireEvents)
  BY <1>2 DEF Relayed
<1>4. Assemble(s.turn, e) \in Turns
  BY <1>1, AssembleType
<1>5. Pushed(s.client, relayed.events) \in Accumulators
  BY <1>1, <1>3, PushedType
<1> QED
  BY <1>2, <1>3, <1>4, <1>5 DEF Feed, States

\* f holds the states after each of the n events.
FeedsInTurn(f, s, events, n) ==
  f[0] = s /\ \A k \in 1..n : f[k] = Feed(f[k - 1], events[k])

FedBySteps(s, events, n) ==
  \E f \in [0..n -> States] : FeedsInTurn(f, s, events, n) /\ After(s, events) = f[n]

\* What events make of a state is what their steps make, one by one.
LEMMA AfterFold ==
  ASSUME NEW s \in States, NEW events \in Seq(ProviderEvents), NEW n \in Nat, n = Len(events)
  PROVE  FedBySteps(s, events, n)
<1>1. \A k \in 1..n : events[k] \in ProviderEvents
  BY ElementOfSeq
<1> DEFINE G == [p \in States \X (1..n) |-> Feed(p[1], events[p[2]])]
           Step(g) == [k \in 0..n |-> IF k = 0 THEN s ELSE Feed(g[k - 1], events[k])]
           after == CHOOSE g : g = Step(g)
<1>2. G \in [States \X (1..n) -> States]
  BY <1>1, FeedType
<1>3. PICK f \in [0..n -> States] : Iterates(f, s, G, n)
  <2> HIDE DEF G
  <2> QED
    BY <1>2, Recursion
<1>4. ASSUME NEW k \in 1..n PROVE f[k] = Feed(f[k - 1], events[k])
  <2>1. k - 1 \in 0..n /\ f[k - 1] \in States
    OBVIOUS
  <2>2. f[k] = G[<<f[k - 1], k>>]
    BY <1>3 DEF Iterates
  <2> QED
    BY <2>1, <2>2
<1>5. f = Step(f)
  <2>1. f[0] = s
    BY <1>3 DEF Iterates
  <2> QED
    BY <1>4, <2>1
<1>6. after = Step(after)
  <2> HIDE DEF Step
  <2> QED
    BY <1>5
<1>7. After(s, events) = after[n]
  BY DEF After
<1> HIDE DEF after
<1>8. Agree(after, f, n)
  <2>1. after[0] = f[0]
    BY <1>5, <1>6
  <2>2. ASSUME NEW k \in 1..n, after[k - 1] = f[k - 1] PROVE after[k] = f[k]
    <3>1. after[k] = Feed(after[k - 1], events[k])
      BY <1>6
    <3> QED
      BY <1>4, <2>2, <3>1
  <2>3. StepAlike(after, f, n)
    BY <2>2 DEF StepAlike
  <2> QED
    BY <2>1, <2>3, Agreement
<1>9. After(s, events) = f[n]
  BY <1>7, <1>8 DEF Agree
<1> QED
  BY <1>3, <1>4, <1>9 DEF Iterates, FeedsInTurn, FedBySteps

\* Feeding the events of one sequence and then those of another.
FedInTwo(s, x, y) ==
  After(s, x \o y) = After(After(s, x), y) /\ After(s, x) \in States

\* It comes to the same as feeding them together.
LEMMA AfterConcat ==
  ASSUME NEW s \in States, NEW x \in Seq(ProviderEvents), NEW y \in Seq(ProviderEvents)
  PROVE  FedInTwo(s, x, y)
<1>1. PICK l \in Nat, m \in Nat : l = Len(x) /\ m = Len(y)
  OBVIOUS
<1>2. PICK z \in Seq(ProviderEvents) : z = x \o y
  BY ConcatProperties
<1>3. /\ Len(z) = l + m /\ \A k \in 1..l : z[k] = x[k]
      /\ \A k \in 1..m : z[l + k] = y[k]
  BY <1>1, <1>2, ConcatPlaces DEF Concatenated
<1>4. PICK f \in [0..l -> States] : FeedsInTurn(f, s, x, l) /\ After(s, x) = f[l]
  BY <1>1, AfterFold DEF FedBySteps
<1>5. PICK t \in States : t = After(s, x)
  BY <1>4
<1>6. PICK g \in [0..m -> States] : FeedsInTurn(g, t, y, m) /\ After(t, y) = g[m]
  BY <1>1, AfterFold DEF FedBySteps
<1>7. PICK h \in [0..(l + m) -> States] : FeedsInTurn(h, s, z, l + m) /\ After(s, z) = h[l + m]
  <2>1. PICK n \in Nat : n = l + m
    OBVIOUS
  <2>2. FedBySteps(s, z, n)
    BY <1>3, <2>1, AfterFold
  <2> QED
    BY <2>1, <2>2 DEF FedBySteps
<1>8. Agree(f, h, l)
  <2>1. f[0] = h[0]
    BY <1>4, <1>7 DEF FeedsInTurn
  <2>2. ASSUME NEW k \in 1..l, f[k - 1] = h[k - 1] PROVE f[k] = h[k]
    <3>1. f[k] = Feed(f[k - 1], x[k])
      BY <1>4 DEF FeedsInTurn
    <3>2. k \in 1..(l + m)
      OBVIOUS
    <3>3. h[k] = Feed(h[k - 1], z[k])
      BY <1>7, <3>2 DEF FeedsInTurn
    <3> QED
      BY <1>3, <2>2, <3>1, <3>3
  <2> QED
    BY <2>1, <2>2, Agreement DEF StepAlike
<1>9. PICK i \in [0..m -> States] : \A k \in 0..m : i[k] = h[l + k]
  <2>1. \A k \in 0..m : l + k \in 0..(l + m)
    OBVIOUS
  <2>2. [k \in 0..m |-> h[l + k]] \in [0..m -> States]
    BY <2>1
  <2> QED
    BY <2>2
<1>10. Agree(g, i, m)
  <2>1. g[0] = i[0]
    <3>1. h[l] = f[l]
      BY <1>8 DEF Agree
    <3>2. i[0] = h[l + 0] /\ l + 0 = l
      BY <1>9
    <3> QED
      BY <1>4, <1>5, <1>6, <3>1, <3>2 DEF FeedsInTurn
  <2>2. ASSUME NEW k \in 1..m, g[k - 1] = i[k - 1] PROVE g[k] = i[k]
    <3>1. g[k] = Feed(g[k - 1], y[k])
      BY <1>6 DEF FeedsInTurn
    <3>2. l + k \in 1..(l + m) /\ k \in 0..m /\ k - 1 \in 0..m /\ (l + k) - 1 = l + (k - 1)
      OBVIOUS
    <3>3. h[l + k] = Feed(h[(l + k) - 1], z[l + k])
      BY <1>7, <3>2 DEF FeedsInTurn
    <3>4. i[k] = h[l + k] /\ i[k - 1] = h[l + (k - 1)] /\ z[l + k] = y[k]
      BY <1>3, <1>9, <3>2
    <3> QED
      BY <2>2, <3>1, <3>2, <3>3, <3>4
  <2> QED
    BY <2>1, <2>2, Agreement DEF StepAlike
<1>11. g[m] = h[l + m]
  BY <1>9, <1>10 DEF Agree
<1> QED
  BY <1>2, <1>4, <1>5, <1>6, <1>7, <1>11 DEF FedInTwo

\* Fed nothing, and one event.
FedOne(s, e) == After(s, <<>>) = s /\ After(s, <<e>>) = Feed(s, e)

\* Nothing leaves a state as it is.
LEMMA AfterOne ==
  ASSUME NEW s \in States, NEW e \in ProviderEvents
  PROVE  FedOne(s, e)
<1>1. After(s, <<>>) = s
  <2>1. PICK none \in Seq(ProviderEvents) : none = <<>> /\ Len(none) = 0
    BY EmptySeq
  <2>2. FedBySteps(s, none, 0)
    BY <2>1, AfterFold
  <2> QED
    BY <2>1, <2>2 DEF FedBySteps, FeedsInTurn
<1>2. After(s, <<e>>) = Feed(s, e)
  <2>1. PICK one \in Seq(ProviderEvents) : one = <<e>>
    BY SingletonType
  <2>2. Len(one) = 1 /\ one[1] = e
    BY <2>1
  <2>3. PICK f \in [0..1 -> States] : FeedsInTurn(f, s, one, 1) /\ After(s, one) = f[1]
    BY <2>2, AfterFold DEF FedBySteps
  <2>4. f[1] = Feed(f[0], one[1]) /\ f[0] = s
    BY <2>3 DEF FeedsInTurn
  <2> QED
    BY <2>1, <2>2, <2>3, <2>4
<1> QED
  BY <1>1, <1>2 DEF FedOne

\* A sequence is its head and its tail.
LEMMA HeadTailConcat ==
  ASSUME NEW A, NEW s \in Seq(A), s # <<>>
  PROVE  s = <<Head(s)>> \o Tail(s)
<1>1. PICK n \in Nat : n = Len(s)
  OBVIOUS
<1>2. n # 0
  BY <1>1, EmptySeq
<1>3. PICK x \in A, t \in Seq(A) : x = Head(s) /\ t = Tail(s)
  BY HeadTailProperties
<1>4. x = s[1] /\ Len(t) = n - 1 /\ \A i \in 1..(n - 1) : t[i] = s[i + 1]
  BY <1>1, <1>2, <1>3, HeadTailProperties
<1>5. PICK one \in Seq(A) : one = <<x>>
  BY SingletonType
<1>6. Len(one) = 1 /\ one[1] = x
  BY <1>5
<1>7. PICK u \in Seq(A) : u = one \o t
  BY ConcatProperties
<1>8. Len(u) = n /\ u[1] = x /\ \A i \in 1..(n - 1) : u[1 + i] = t[i]
  <2>1. Concatenated(u, one, t)
    BY <1>7, ConcatPlaces
  <2>2. 1 \in 1..Len(one) /\ Len(one) + Len(t) = n
    BY <1>1, <1>4, <1>6
  <2>3. Len(u) = n /\ u[1] = x
    BY <1>6, <2>1, <2>2 DEF Concatenated
  <2>4. \A i \in 1..(n - 1) : u[1 + i] = t[i]
    BY <1>4, <1>6, <2>1 DEF Concatenated
  <2> QED
    BY <2>3, <2>4
<1>9. \A i \in 1..n : u[i] = s[i]
  <2>1. ASSUME NEW i \in 1..n PROVE u[i] = s[i]
    <3>1. CASE i = 1
      BY <1>4, <1>8, <3>1
    <3>2. CASE i # 1
      <4>1. i - 1 \in 1..(n - 1) /\ 1 + (i - 1) = i /\ (i - 1) + 1 = i
        BY <3>2
      <4> QED
        BY <1>4, <1>8, <4>1
    <3> QED
      BY <3>1, <3>2
  <2> QED
    BY <2>1
<1>10. u = s
  BY <1>1, <1>8, <1>9, SeqEqual
<1> QED
  BY <1>3, <1>5, <1>7, <1>10

\* Fed its first event and then the rest.
LEMMA AfterHead ==
  ASSUME NEW s \in States, NEW events \in Seq(ProviderEvents), events # <<>>
  PROVE  After(s, events) = After(Feed(s, Head(events)), Tail(events))
<1>1. PICK e \in ProviderEvents, rest \in Seq(ProviderEvents) :
        e = Head(events) /\ rest = Tail(events) /\ events = <<e>> \o rest
  BY HeadTailProperties, HeadTailConcat
<1>2. <<e>> \in Seq(ProviderEvents)
  BY SingletonType
<1>3. FedInTwo(s, <<e>>, rest)
  BY <1>2, AfterConcat
<1>4. FedOne(s, e)
  BY AfterOne
<1> QED
  BY <1>1, <1>3, <1>4 DEF FedInTwo, FedOne

\* Every state that events lead to keeps the types.
LEMMA AfterType ==
  ASSUME NEW s \in States, NEW events \in Seq(ProviderEvents)
  PROVE  After(s, events) \in States
<1>1. PICK n \in Nat : n = Len(events)
  OBVIOUS
<1> QED
  BY <1>1, AfterFold DEF FedBySteps

-----------------------------------------------------------------------------

\* What a delta adds to the arguments.
Piece(delta) == OrDefault(delta.args, <<>>)

\* The fragments that ArgsFrom flattens, and the calls that CallsIn selects from.
Fragments(deltas, k) ==
  [j \in 1..Len(deltas) |-> When(Belongs(deltas, k, j), Piece(deltas[j]))]
Called(deltas) == [k \in 1..Len(deltas) |-> CallFrom(deltas, k)]

\* The fragments are texts, and the calls are calls.
LEMMA FragmentsType ==
  ASSUME NEW D \in Seq(ToolDeltas), NEW k
  PROVE  /\ Fragments(D, k) \in [1..Len(D) -> Seq(Strings)]
         /\ ArgsFrom(D, k) = FlattenSeq(Fragments(D, k)) /\ ArgsFrom(D, k) \in Texts
<1>1. ASSUME NEW j \in 1..Len(D) PROVE Piece(D[j]) \in Seq(Strings)
  <2>0. D[j] \in ToolDeltas
    BY <1>1, ElementOfSeq
  <2>1. D[j].args \in Option(Texts)
    BY <2>0 DEF ToolDeltas
  <2> QED
    BY <2>1, SomeOrNone, TextsConcat DEF Piece, OrDefault, Texts
<1>2. \A j \in 1..Len(D) : When(Belongs(D, k, j), Piece(D[j])) \in Seq(Strings)
  BY <1>1, WhenType
<1>3. Fragments(D, k) \in [1..Len(D) -> Seq(Strings)]
  BY <1>2 DEF Fragments
<1>4. ArgsFrom(D, k) = FlattenSeq(Fragments(D, k))
  BY DEF ArgsFrom, Fragments, Piece
<1>5. PICK n \in Nat : n = Len(D)
  OBVIOUS
<1>6. FlattenSeq(Fragments(D, k)) \in Seq(Strings)
  BY <1>3, <1>5, FlattenSeqType
<1> QED
  BY <1>3, <1>4, <1>6 DEF Texts

\* The calls are well formed.
LEMMA CalledType ==
  ASSUME NEW D \in Seq(ToolDeltas)
  PROVE  /\ Called(D) \in [1..Len(D) -> ToolCalls]
         /\ CallsIn(D) = Selection(Called(D), Openers(D))
<1>1. ASSUME NEW k \in 1..Len(D) PROVE CallFrom(D, k) \in ToolCalls
  <2>0. D[k] \in ToolDeltas
    BY <1>1, ElementOfSeq
  <2>1. D[k].id \in Option(Ids) /\ D[k].name \in Strings
    BY <2>0 DEF ToolDeltas
  <2>2. OrDefault(D[k].id, "") \in Ids
    BY <2>1, SomeOrNone, WireProxyAssumption DEF OrDefault
  <2>3. PICK args \in Texts : args = ArgsFrom(D, k)
    BY FragmentsType
  <2> QED
    BY <2>1, <2>2, <2>3, PartialType, FinishedType DEF CallFrom
<1>2. Called(D) \in [1..Len(D) -> ToolCalls]
  BY <1>1 DEF Called
<1>3. CallsIn(D) = Selection(Called(D), Openers(D))
  BY DEF CallsIn, Called
<1> QED
  BY <1>2, <1>3

\* U is the n deltas of D and one more.
IsLonger(U, D, delta, n) ==
  /\ Len(D) = n /\ Len(U) = n + 1 /\ U[n + 1] = delta
  /\ \A k \in 1..n : U[k] = D[k]

\* The fragments for each call stay, and the new delta's follows them if it belongs
\* to the call.
ArgsGrow(U, D, delta, n) ==
  /\ \A k \in 1..n : k \in Openers(U) <=> k \in Openers(D)
  /\ n + 1 \in Openers(U) <=> IsSome(delta.id)
  /\ \A k \in 1..n :
       ArgsFrom(U, k) = ArgsFrom(D, k) \o When(Belongs(U, k, n + 1), Piece(delta))
  /\ ArgsFrom(U, n + 1) = Piece(delta)

\* One delta more adds its arguments to the call it belongs to.
LEMMA ArgsMore ==
  ASSUME NEW D \in Seq(ToolDeltas), NEW U \in Seq(ToolDeltas), NEW delta \in ToolDeltas,
         NEW n \in Nat, IsLonger(U, D, delta, n)
  PROVE  ArgsGrow(U, D, delta, n)
<1>1. /\ Len(D) = n /\ Len(U) = n + 1 /\ U[n + 1] = delta
      /\ \A k \in 1..n : U[k] = D[k]
  BY DEF IsLonger
<1>2. PICK m \in Nat : m = n + 1
  OBVIOUS
<1>3. \A k \in 1..n : k \in 1..m
  BY <1>2
<1>4. \A k \in 1..n : k \in Openers(U) <=> k \in Openers(D)
  BY <1>1, <1>2, <1>3 DEF Openers
<1>5. m \in Openers(U) <=> IsSome(delta.id)
  BY <1>1, <1>2 DEF Openers
<1>6. \A o \in Openers(U) : o \in 1..n \/ o = m
  BY <1>1, <1>2 DEF Openers
<1>7. \A o \in Openers(D) : o \in 1..n
  BY <1>1 DEF Openers
<1>8. ASSUME NEW k \in 1..m, NEW j \in 1..n
      PROVE  Belongs(U, k, j) <=> Belongs(D, k, j)
  <2>1. j < m
    BY <1>2
  <2> QED
    BY <1>4, <1>6, <1>7, <2>1 DEF Belongs
<1>9. ASSUME NEW k \in 1..n
      PROVE  ArgsFrom(U, k) = ArgsFrom(D, k) \o When(Belongs(U, k, m), Piece(delta))
  <2>1. PICK a \in [1..n -> Seq(Strings)] : a = Fragments(D, k) /\ ArgsFrom(D, k) = FlattenSeq(a)
    BY <1>1, FragmentsType
  <2>2. PICK b \in [1..m -> Seq(Strings)] : b = Fragments(U, k) /\ ArgsFrom(U, k) = FlattenSeq(b)
    BY <1>1, <1>2, FragmentsType
  <2>3. \A j \in 1..n : b[j] = a[j]
    <3>1. ASSUME NEW j \in 1..n PROVE b[j] = a[j]
      <4>1. a[j] = When(Belongs(D, k, j), Piece(D[j]))
        BY <1>1, <2>1 DEF Fragments
      <4>2. b[j] = When(Belongs(U, k, j), Piece(U[j]))
        BY <1>1, <1>2, <1>3, <2>2 DEF Fragments
      <4>3. Belongs(U, k, j) <=> Belongs(D, k, j)
        BY <1>3, <1>8
      <4> QED
        BY <1>1, <4>1, <4>2, <4>3 DEF When
    <3> QED
      BY <3>1
  <2>4. b[m] = When(Belongs(U, k, m), Piece(delta))
    BY <1>1, <1>2, <2>2 DEF Fragments
  <2>5. SameBeginning(a, b, n)
    BY <2>3 DEF SameBeginning
  <2>6. IsJoined(FlattenSeq(b), FlattenSeq(a), b[m])
    BY <1>2, <2>5, FlattenSeqNext
  <2> QED
    BY <2>1, <2>2, <2>4, <2>6 DEF IsJoined
<1>10. ArgsFrom(U, m) = Piece(delta)
  <2>1. PICK b \in [1..m -> Seq(Strings)] : b = Fragments(U, m) /\ ArgsFrom(U, m) = FlattenSeq(b)
    BY <1>1, <1>2, FragmentsType
  <2>2. \A j \in 1..n : b[j] = <<>>
    <3>1. ASSUME NEW j \in 1..n PROVE b[j] = <<>>
      <4>1. b[j] = When(Belongs(U, m, j), Piece(U[j]))
        BY <1>1, <1>2, <1>3, <2>1 DEF Fragments
      <4>2. ~ Belongs(U, m, j)
        BY <1>2 DEF Belongs
      <4> QED
        BY <4>1, <4>2 DEF When
    <3> QED
      BY <3>1
  <2>3. b[m] = Piece(delta)
    <3>1. b[m] = When(Belongs(U, m, m), Piece(U[m]))
      BY <1>1, <1>2, <2>1 DEF Fragments
    <3>0. \A o \in Openers(U) : o <= m
      BY <1>2, <1>6
    <3>2. Belongs(U, m, m)
      BY <3>0 DEF Belongs
    <3> QED
      BY <1>1, <1>2, <3>1, <3>2 DEF When
  <2>4. PICK a \in [1..n -> Seq(Strings)] : \A j \in 1..n : a[j] = <<>>
    <3>1. [j \in 1..n |-> <<>>] \in [1..n -> Seq(Strings)]
      BY EmptySeq
    <3> QED
      BY <3>1
  <2>5. FlattenSeq(a) = <<>>
    BY <2>4, FlattenSeqOfEmpty
  <2>6. SameBeginning(a, b, n)
    BY <2>2, <2>4 DEF SameBeginning
  <2>7. IsJoined(FlattenSeq(b), FlattenSeq(a), b[m])
    BY <1>2, <2>6, FlattenSeqNext
  <2>8. <<>> \o b[m] = b[m]
    <3>1. b[m] \in Seq(Strings)
      BY <1>2, <2>1
    <3> QED
      BY <3>1
  <2> QED
    BY <2>1, <2>3, <2>5, <2>7, <2>8 DEF IsJoined
<1> QED
  BY <1>2, <1>4, <1>5, <1>9, <1>10 DEF ArgsGrow

\* The beginning of a sequence.
Begun(a, s, l, A) ==
  a \in [1..l -> A] /\ a = SubSeq(s, 1, l) /\ \A k \in 1..l : a[k] = s[k]

\* The first l of a sequence begin it.
LEMMA Beginning ==
  ASSUME NEW A, NEW n \in Nat, NEW l \in 0..n, NEW s \in [1..n -> A]
  PROVE  Begun(SubSeq(s, 1, l), s, l, A)
<1>1. \A i \in 1..l : s[i] \in A
  OBVIOUS
<1>2. 1 \in Int /\ l \in Int /\ l \in Nat
  OBVIOUS
<1>3. PICK a : a = SubSeq(s, 1, l)
  OBVIOUS
<1>4. /\ a \in Seq(A) /\ Len(a) = IF 1 <= l THEN l - 1 + 1 ELSE 0
      /\ \A i \in 1..(l - 1 + 1) : a[i] = s[1 + i - 1]
  BY <1>1, <1>2, <1>3, SubSeqProperties
<1>5. Len(a) = l
  BY <1>2, <1>4
<1>6. \A k \in 1..l : a[k] = s[k]
  BY <1>2, <1>4
<1>7. a \in [1..l -> A]
  BY <1>4, <1>5
<1> QED
  BY <1>3, <1>6, <1>7 DEF Begun

\* A selection is kept when what follows is not selected.
SelectsAlike(s, I, t, J) == Selection(t, J) = Selection(s, I)

\* So it is when both select alike among the first l.
LEMMA SelectionKept ==
  ASSUME NEW A, NEW n \in Nat, NEW l \in 0..n, NEW s \in [1..l -> A], NEW t \in [1..n -> A],
         NEW I, NEW J, \A i \in 1..l : s[i] = t[i] /\ (i \in I <=> i \in J),
         \A i \in 1..n : i \in J => i <= l
  PROVE  SelectsAlike(s, I, t, J)
<1>1. l \in Nat
  OBVIOUS
<1>2. s \in Seq(A) /\ Len(s) = l /\ t \in Seq(A) /\ Len(t) = n
  BY <1>1, SequenceLength
<1>3. Len(s) <= Len(t) /\ \A i \in 1..Len(s) : s[i] = t[i] /\ (i \in I <=> i \in J)
  BY <1>2
<1>4. \A i \in (Len(s) + 1)..Len(t) : i \notin J
  BY <1>1, <1>2
<1> QED
  BY <1>2, <1>3, <1>4, SelectionExtends DEF SelectsAlike

\* The latest call of D is opened by delta p, after those before it.
Latest(D, p) == p \in Openers(D) /\ \A o \in Openers(D) : o <= p
Earlier(D, p) == Selection(SubSeq(Called(D), 1, p - 1), Openers(D))

\* The calls are those before the latest, and the latest.
Splits(D, p) == CallsIn(D) = Append(Earlier(D, p), CallFrom(D, p))

\* The latest call is the last of them.
LEMMA CallsSplit ==
  ASSUME NEW D \in Seq(ToolDeltas), NEW p, Latest(D, p)
  PROVE  Splits(D, p) /\ Earlier(D, p) \in Seq(ToolCalls)
<1>1. PICK n \in Nat : n = Len(D)
  OBVIOUS
<1>2. p \in 1..n /\ \A o \in Openers(D) : o <= p
  BY <1>1 DEF Latest, Openers
<1>3. PICK c \in [1..n -> ToolCalls] : c = Called(D) /\ CallsIn(D) = Selection(c, Openers(D))
  BY <1>1, CalledType
<1>4. c \in Seq(ToolCalls) /\ Len(c) = n
  BY <1>3, SequenceLength
<1>5. PICK l \in Nat : l = p - 1
  BY <1>2
<1>6. PICK a \in [1..l -> ToolCalls] : a = SubSeq(c, 1, l) /\ \A k \in 1..l : a[k] = c[k]
  <2>1. l \in 0..n
    BY <1>2, <1>5
  <2>2. Begun(SubSeq(c, 1, l), c, l, ToolCalls)
    BY <2>1, Beginning
  <2> QED
    BY <2>2 DEF Begun
<1>7. PICK b \in [1..p -> ToolCalls] : \A k \in 1..p : b[k] = c[k]
  <2>1. [k \in 1..p |-> c[k]] \in [1..p -> ToolCalls]
    BY <1>2, <1>3
  <2> QED
    BY <2>1
<1>8. b \in Seq(ToolCalls) /\ Len(b) = p
  BY <1>2, <1>7, SequenceLength
<1>9. Selection(c, Openers(D)) = Selection(b, Openers(D))
  <2>1. p \in 0..n
    BY <1>2
  <2>2. PICK I : I = Openers(D)
    OBVIOUS
  <2>3. \A i \in 1..p : b[i] = c[i] /\ (i \in I <=> i \in I)
    BY <1>7
  <2>4. \A i \in 1..n : i \in I => i <= p
    BY <1>2, <2>2
  <2>5. SelectsAlike(b, I, c, I)
    BY <2>1, <2>3, <2>4, SelectionKept
  <2> QED
    BY <2>2, <2>5 DEF SelectsAlike
<1>10. IsJoined(Selection(b, Openers(D)), Selection(a, Openers(D)), <<b[p]>>)
  <2>1. SameBeginning(a, b, l) /\ p = l + 1 /\ p \in Nat
    BY <1>2, <1>5, <1>6, <1>7 DEF SameBeginning
  <2>2. p \in Openers(D)
    BY DEF Latest
  <2>3. IsJoined(Selection(b, Openers(D)), Selection(a, Openers(D)),
                 IF p \in Openers(D) THEN <<b[p]>> ELSE <<>>)
    BY <2>1, SelectionNext
  <2> QED
    BY <2>2, <2>3
<1>11. PICK before \in Seq(ToolCalls) : before = Selection(a, Openers(D))
  <2>1. a \in Seq(ToolCalls)
    BY <1>5, <1>6, SequenceLength
  <2> QED
    BY <2>1, SelectionType
<1>12. Earlier(D, p) = before
  BY <1>3, <1>5, <1>6, <1>11 DEF Earlier
<1>13. b[p] = CallFrom(D, p) /\ b[p] \in ToolCalls
  <2>1. c[p] = CallFrom(D, p)
    BY <1>1, <1>2, <1>3 DEF Called
  <2>2. p \in 1..p
    BY <1>2
  <2> QED
    BY <1>7, <2>1, <2>2
<1>14. before \o <<b[p]>> = Append(before, b[p])
  BY <1>11, <1>13, AppendIsConcat
<1> QED
  BY <1>3, <1>9, <1>10, <1>11, <1>12, <1>13, <1>14 DEF Splits, IsJoined

\* Without deltas there are no calls.
LEMMA NoCalls == CallsIn(<<>>) = <<>>
<1>1. <<>> \in Seq(ToolDeltas) /\ Len(<<>>) = 0
  BY EmptySeq
<1>2. PICK c \in [1..0 -> ToolCalls] : CallsIn(<<>>) = Selection(c, Openers(<<>>))
  BY <1>1, CalledType
<1>3. c = <<>>
  BY <1>2
<1> QED
  BY <1>2, <1>3, SelectionOfNone

\* A delta that opens a call leaves those before it as they are.
Begins(U, D, delta, m) ==
  /\ Latest(U, m) /\ Earlier(U, m) = CallsIn(D) /\ ArgsFrom(U, m) = Piece(delta)

\* So a delta with an id does.
LEMMA CallOpens ==
  ASSUME NEW D \in Seq(ToolDeltas), NEW U \in Seq(ToolDeltas), NEW delta \in ToolDeltas,
         NEW n \in Nat, NEW m \in Nat, m = n + 1, IsLonger(U, D, delta, n), IsSome(delta.id)
  PROVE  Begins(U, D, delta, m)
<1>1. /\ Len(D) = n /\ Len(U) = m /\ U[m] = delta
      /\ \A k \in 1..n : U[k] = D[k]
  BY DEF IsLonger
<1>2. /\ \A k \in 1..n : k \in Openers(U) <=> k \in Openers(D)
      /\ m \in Openers(U)
      /\ \A k \in 1..n :
           ArgsFrom(U, k) = ArgsFrom(D, k) \o When(Belongs(U, k, m), Piece(delta))
      /\ ArgsFrom(U, m) = Piece(delta)
  BY ArgsMore DEF ArgsGrow
<1>3. Latest(U, m)
  BY <1>1, <1>2 DEF Latest, Openers
<1>4. PICK c \in [1..n -> ToolCalls] : c = Called(D) /\ CallsIn(D) = Selection(c, Openers(D))
  BY <1>1, CalledType
<1>5. PICK d \in [1..m -> ToolCalls] : d = Called(U)
  BY <1>1, CalledType
<1>6. \A k \in 1..n : d[k] = c[k]
  <2>1. ASSUME NEW k \in 1..n PROVE d[k] = c[k]
    <3>1. ~ Belongs(U, k, m)
      BY <1>2 DEF Belongs
    <3>2. PICK args \in Texts : args = ArgsFrom(D, k)
      BY FragmentsType
    <3>3. args \o <<>> = args
      BY <3>2 DEF Texts
    <3>4. ArgsFrom(U, k) = args
      BY <1>2, <3>1, <3>2, <3>3 DEF When
    <3>5. CallFrom(U, k) = CallFrom(D, k)
      BY <1>1, <3>2, <3>4 DEF CallFrom
    <3>6. k \in 1..m
      OBVIOUS
    <3> QED
      BY <1>1, <1>4, <1>5, <3>5, <3>6 DEF Called
  <2> QED
    BY <2>1
<1>7. PICK a \in [1..n -> ToolCalls] : a = SubSeq(d, 1, n) /\ \A k \in 1..n : a[k] = d[k]
  <2>1. n \in 0..m
    OBVIOUS
  <2>2. Begun(SubSeq(d, 1, n), d, n, ToolCalls)
    BY <2>1, Beginning
  <2> QED
    BY <2>2 DEF Begun
<1>9. Selection(c, Openers(D)) = Selection(a, Openers(U))
  <2>1. n \in 0..n
    OBVIOUS
  <2>2. PICK I, J : I = Openers(U) /\ J = Openers(D)
    OBVIOUS
  <2>3. \A i \in 1..n : a[i] = c[i] /\ (i \in I <=> i \in J)
    BY <1>2, <1>6, <1>7, <2>2
  <2>4. \A i \in 1..n : i \in J => i <= n
    OBVIOUS
  <2>5. SelectsAlike(a, I, c, J)
    BY <2>1, <2>3, <2>4, SelectionKept
  <2> QED
    BY <2>2, <2>5 DEF SelectsAlike
<1>10. Earlier(U, m) = Selection(a, Openers(U))
  <2>1. m - 1 = n
    OBVIOUS
  <2> QED
    BY <1>5, <1>7, <2>1 DEF Earlier
<1> QED
  BY <1>2, <1>3, <1>4, <1>9, <1>10 DEF Begins

\* A delta without an id extends the latest call.
Lengthens(U, D, delta, p) ==
  /\ Latest(U, p) /\ Earlier(U, p) = Earlier(D, p)
  /\ ArgsFrom(U, p) = ArgsFrom(D, p) \o Piece(delta)

\* So a delta without one does.
LEMMA CallLengthens ==
  ASSUME NEW D \in Seq(ToolDeltas), NEW U \in Seq(ToolDeltas), NEW delta \in ToolDeltas,
         NEW n \in Nat, IsLonger(U, D, delta, n), ~ IsSome(delta.id), NEW p, Latest(D, p)
  PROVE  Lengthens(U, D, delta, p) /\ U[p] = D[p]
<1>0. PICK m \in Nat : m = n + 1
  OBVIOUS
<1>1. /\ Len(D) = n /\ Len(U) = m /\ U[m] = delta
      /\ \A k \in 1..n : U[k] = D[k]
  BY <1>0 DEF IsLonger
<1>2. /\ \A k \in 1..n : k \in Openers(U) <=> k \in Openers(D)
      /\ m \notin Openers(U)
      /\ \A k \in 1..n :
           ArgsFrom(U, k) = ArgsFrom(D, k) \o When(Belongs(U, k, m), Piece(delta))
  BY <1>0, ArgsMore DEF ArgsGrow
<1>3. p \in 1..n /\ \A o \in Openers(D) : o <= p
  BY <1>1 DEF Latest, Openers
<1>4. \A o \in Openers(U) : o \in 1..n
  BY <1>0, <1>1, <1>2 DEF Openers
<1>5. Openers(U) = Openers(D)
  <2>1. \A o \in Openers(D) : o \in 1..n
    BY <1>1 DEF Openers
  <2> QED
    BY <1>2, <1>4, <2>1
<1>6. Latest(U, p)
  BY <1>5 DEF Latest
<1>7. ArgsFrom(U, p) = ArgsFrom(D, p) \o Piece(delta)
  <2>1. Belongs(U, p, m)
    BY <1>0, <1>3, <1>5 DEF Belongs
  <2> QED
    BY <1>2, <1>3, <2>1 DEF When
<1>8. PICK c \in [1..n -> ToolCalls] : c = Called(D)
  BY <1>1, CalledType
<1>9. PICK d \in [1..m -> ToolCalls] : d = Called(U)
  BY <1>1, CalledType
<1>10. \A k \in 1..(p - 1) : d[k] = c[k]
  <2>1. ASSUME NEW k \in 1..(p - 1) PROVE d[k] = c[k]
    <3>1. k \in 1..n /\ k \in 1..m /\ p \in Openers(U) /\ k < p /\ p <= m
      BY <1>0, <1>3, <1>5 DEF Latest
    <3>2. ~ Belongs(U, k, m)
      BY <1>3, <3>1 DEF Belongs
    <3>3. PICK args \in Texts : args = ArgsFrom(D, k)
      BY FragmentsType
    <3>4. args \o <<>> = args
      BY <3>3 DEF Texts
    <3>5. ArgsFrom(U, k) = args
      BY <1>2, <3>1, <3>2, <3>3, <3>4 DEF When
    <3>6. CallFrom(U, k) = CallFrom(D, k)
      BY <1>1, <3>1, <3>3, <3>5 DEF CallFrom
    <3> QED
      BY <1>1, <1>8, <1>9, <3>1, <3>6 DEF Called
  <2> QED
    BY <2>1
<1>11. SubSeq(d, 1, p - 1) = SubSeq(c, 1, p - 1)
  <2>1. p - 1 \in 0..n /\ p - 1 \in 0..m
    BY <1>0, <1>3
  <2>2. PICK l : l = p - 1
    OBVIOUS
  <2>3. Begun(SubSeq(c, 1, l), c, l, ToolCalls)
    BY <1>8, <2>1, <2>2, Beginning
  <2>4. Begun(SubSeq(d, 1, l), d, l, ToolCalls)
    BY <1>0, <1>9, <2>1, <2>2, Beginning
  <2>5. PICK a \in [1..l -> ToolCalls] : a = SubSeq(c, 1, l) /\ \A k \in 1..l : a[k] = c[k]
    BY <2>3 DEF Begun
  <2>6. PICK b \in [1..l -> ToolCalls] : b = SubSeq(d, 1, l) /\ \A k \in 1..l : b[k] = d[k]
    BY <2>4 DEF Begun
  <2>7. a = b
    BY <1>10, <2>2, <2>5, <2>6
  <2> QED
    BY <2>2, <2>5, <2>6, <2>7
<1>12. Earlier(U, p) = Earlier(D, p)
  BY <1>5, <1>8, <1>9, <1>11 DEF Earlier
<1> QED
  BY <1>1, <1>3, <1>6, <1>7, <1>12 DEF Lengthens

-----------------------------------------------------------------------------

\* The call in flight, as its buffers should hold it.
Current(t) ==
  IF IsSome(t.open) THEN Some(Partial(t.open[1].id, t.open[1].name, t.args)) ELSE None

\* The turn holds the calls of D: all but the latest taken, the latest in flight.
Assembled(t, D) ==
  \/ D = <<>> /\ t.open = None /\ t.args = <<>> /\ t.calls = <<>>
  \/ \E p : /\ Latest(D, p)
            /\ t.open = Some(Partial(D[p].id[1], D[p].name, <<>>))
            /\ t.args = ArgsFrom(D, p)
            /\ t.calls = Earlier(D, p)

\* The relay and the client hold the same call in flight, or have closed it.
Buffered(s) ==
  /\ s.relay.pending = Current(s.turn) /\ s.client.pending = Current(s.turn)
  /\ s.client.calls = s.turn.calls
Flushed(s) ==
  s.relay.pending = None /\ s.client.pending = None /\ s.client.calls = TurnCalls(s.turn)

\* The calls of a turn are those it took and the one in flight.
Taken(t) ==
  IF IsSome(t.open) THEN Append(t.calls, Finished(Current(t)[1])) ELSE t.calls

\* Taking the call in flight appends it.
LEMMA TakenCalls ==
  ASSUME NEW t \in Turns
  PROVE  TurnCalls(t) = Taken(t) /\ Current(t) \in Option(ToolCalls)
<1>1. CASE IsSome(t.open)
  <2>1. PICK call \in ToolCalls : call = t.open[1]
    BY <1>1, SomeOrNone DEF Turns
  <2>2. PICK whole \in ToolCalls : whole = [call EXCEPT !.args = t.args]
    BY <2>1 DEF ToolCalls, Turns
  <2>3. whole = Partial(call.id, call.name, t.args)
    BY <2>2 DEF Partial, ToolCalls
  <2>4. Current(t) = Some(whole) /\ Current(t)[1] = whole
    BY <1>1, <2>1, <2>3, SomeValue DEF Current
  <2>5. PICK calls \in Seq(ToolCalls) : calls = Append(t.calls, Finished(whole))
    BY <2>2, FinishedType, AppendProperties DEF Turns
  <2>6. TakeCall(t) = [t EXCEPT !.calls = calls, !.open = None, !.args = <<>>]
    BY <1>1, <2>1, <2>2, <2>5 DEF TakeCall
  <2>7. TurnCalls(t) = calls
    BY <2>6 DEF TurnCalls, Turns
  <2> QED
    BY <1>1, <2>4, <2>5, <2>7, SomeIsOption DEF Taken
<1>2. CASE ~ IsSome(t.open)
  BY <1>2, NoneIsOption DEF Taken, Current, TurnCalls, TakeCall
<1> QED
  BY <1>1, <1>2

\* A turn that holds the calls of D completes with them.
CompletesWith(t, D) == TurnCalls(t) = CallsIn(D) /\ (~ IsSome(t.open) => t.args = <<>>)

\* A turn that has assembled D does.
LEMMA AssembledCalls ==
  ASSUME NEW t \in Turns, NEW D \in Seq(ToolDeltas), Assembled(t, D)
  PROVE  CompletesWith(t, D)
<1>1. CASE D = <<>> /\ t.open = None /\ t.args = <<>> /\ t.calls = <<>>
  BY <1>1, TakenCalls, NoCalls, SomeValue DEF Taken, CompletesWith
<1>2. ASSUME NEW p, Latest(D, p), t.open = Some(Partial(D[p].id[1], D[p].name, <<>>)),
             t.args = ArgsFrom(D, p), t.calls = Earlier(D, p)
      PROVE  CompletesWith(t, D)
  <2>1. IsSome(D[p].id)
    BY <1>2 DEF Latest, Openers
  <2>2. PICK call : call = Partial(D[p].id[1], D[p].name, <<>>)
    OBVIOUS
  <2>3. IsSome(t.open) /\ t.open[1] = call
    BY <1>2, <2>2, SomeValue
  <2>4. Current(t) = Some(Partial(call.id, call.name, t.args))
    BY <2>3 DEF Current
  <2>5. call.id = D[p].id[1] /\ call.name = D[p].name
    BY <2>2 DEF Partial
  <2>6. Current(t)[1] = Partial(D[p].id[1], D[p].name, ArgsFrom(D, p))
    BY <1>2, <2>4, <2>5, SomeValue
  <2>7. Finished(Current(t)[1]) = CallFrom(D, p)
    BY <2>1, <2>6 DEF CallFrom, OrDefault
  <2>8. Splits(D, p)
    BY <1>2, CallsSplit
  <2> QED
    BY <1>2, <2>3, <2>7, <2>8, TakenCalls DEF Taken, Splits, CompletesWith
<1> QED
  BY <1>1, <1>2 DEF Assembled

\* The calls of s and of u are the same, everywhere.
Kept(s, u) ==
  /\ u.turn.open = s.turn.open /\ u.turn.args = s.turn.args /\ u.turn.calls = s.turn.calls
  /\ u.relay.pending = s.relay.pending
  /\ u.client.pending = s.client.pending /\ u.client.calls = s.client.calls

\* Then one holds what the other does.
LEMMA KeptAlike ==
  ASSUME NEW s \in States, NEW u \in States, Kept(s, u), NEW D
  PROVE  /\ Assembled(s.turn, D) => Assembled(u.turn, D)
         /\ Buffered(s) => Buffered(u)
         /\ Flushed(s) => Flushed(u)
<1>1. s.turn \in Turns /\ u.turn \in Turns
  BY DEF States
<1>2. Current(u.turn) = Current(s.turn) /\ Taken(u.turn) = Taken(s.turn)
  BY DEF Kept, Current, Taken
<1>3. TurnCalls(u.turn) = TurnCalls(s.turn)
  BY <1>1, <1>2, TakenCalls
<1> QED
  BY <1>2, <1>3 DEF Kept, Assembled, Buffered, Flushed

\* Text, a failure and a Done without a reason keep the calls.
LEMMA FeedKeeps ==
  ASSUME NEW s \in States, NEW e \in ProviderEvents,
         e.kind \in {"text", "err"} \/ (e.kind = "done" /\ ~ IsSome(e.reason))
  PROVE  Kept(s, Feed(s, e))
<1>1. s.turn \in Turns /\ s.relay \in Relays /\ s.client \in Accumulators
  BY DEF States
<1>2. PICK u : u = Feed(s, e)
  OBVIOUS
<1>3. CASE e.kind = "text"
  <2>1. PICK text : text = TextDelta(e.text)
    OBVIOUS
  <2>2. RelayEvent(s.relay, e).relay = s.relay /\ RelayEvent(s.relay, e).events = <<text>>
    BY <1>3, <2>1 DEF RelayEvent, RelayText
  <2>3. Len(<<text>>) = 1 /\ <<text>>[1] = text
    OBVIOUS
  <2>4. u.turn = Assemble(s.turn, e) /\ u.relay = s.relay /\ u.client = Push(s.client, text)
    BY <1>2, <2>2, <2>3 DEF Feed, Pushed
  <2>5. Push(s.client, text) = [s.client EXCEPT !.text = @ \o text.text]
    BY <2>1 DEF Push, TextDelta
  <2>6. Assemble(s.turn, e) = [s.turn EXCEPT !.text = @ \o e.text]
    BY <1>3 DEF Assemble
  <2> QED
    BY <1>1, <1>2, <2>4, <2>5, <2>6 DEF Kept, Accumulators, Turns
<1>4. CASE e.kind = "err"
  <2>1. RelayEvent(s.relay, e).relay = s.relay /\ RelayEvent(s.relay, e).events = <<WireError>>
    BY <1>4 DEF RelayEvent
  <2>2. Len(<<WireError>>) = 1 /\ <<WireError>>[1] = WireError
    OBVIOUS
  <2>3. u.turn = Assemble(s.turn, e) /\ u.relay = s.relay /\ u.client = Push(s.client, WireError)
    BY <1>2, <2>1, <2>2 DEF Feed, Pushed
  <2>4. Push(s.client, WireError) = [s.client EXCEPT !.failed = TRUE]
    BY DEF Push, WireError
  <2>5. Assemble(s.turn, e) = s.turn
    BY <1>4 DEF Assemble
  <2> QED
    BY <1>1, <1>2, <2>3, <2>4, <2>5 DEF Kept, Accumulators
<1>5. CASE e.kind = "done" /\ ~ IsSome(e.reason)
  <2>1. /\ RelayEvent(s.relay, e).relay.pending = s.relay.pending
        /\ RelayEvent(s.relay, e).events = <<>>
    BY <1>5 DEF RelayEvent, RelayDone, When
  <2>2. Len(<<>>) = 0
    BY EmptySeq
  <2>3. u.turn = Assemble(s.turn, e) /\ u.relay.pending = s.relay.pending /\ u.client = s.client
    BY <1>2, <2>1, <2>2 DEF Feed, Pushed
  <2>4. Assemble(s.turn, e) = s.turn
    BY <1>5 DEF Assemble
  <2> QED
    BY <1>2, <2>3, <2>4 DEF Kept
<1> QED
  BY <1>3, <1>4, <1>5

\* The end of the call in flight completes it, and a start opens the next.
LEMMA PushesEnd ==
  ASSUME NEW a \in Accumulators, NEW call \in ToolCalls, a.pending = Some(call)
  PROVE  /\ Push(a, WireEnd(call)).pending = None
         /\ Push(a, WireEnd(call)).calls = Append(a.calls, Finished(call))
<1>1. PICK e : e = WireEnd(call)
  OBVIOUS
<1>2. e.type = "tool_call_end" /\ e.id = call.id /\ e.name = call.name /\ e.args = call.args
  BY <1>1 DEF WireEnd
<1>3. Partial(e.id, e.name, e.args) = call
  BY <1>2 DEF Partial, ToolCalls
<1>4. IsSome(a.pending) /\ a.pending[1].id = e.id
  BY <1>2, SomeValue
<1>5. PICK rest \in Accumulators : rest = [a EXCEPT !.pending = None]
  BY NoneIsOption DEF Accumulators
<1>6. PICK calls \in Seq(ToolCalls) : calls = Append(a.calls, Finished(call))
  BY FinishedType, AppendProperties DEF Accumulators
<1>7. rest.calls = a.calls /\ rest.pending = None
  BY <1>5 DEF Accumulators
<1>8. Push(a, e) = [rest EXCEPT !.calls = Append(@, Finished(call))]
  BY <1>2, <1>3, <1>4, <1>5 DEF Push, PushEnd
<1>9. Push(a, e) = [rest EXCEPT !.calls = calls]
  BY <1>6, <1>7, <1>8
<1> QED
  BY <1>1, <1>6, <1>7, <1>9 DEF Accumulators

\* A start, when no call is in flight.
LEMMA PushesStart ==
  ASSUME NEW a \in Accumulators, a.pending = None, NEW id \in Ids, NEW name \in Strings
  PROVE  /\ Push(a, WireStart(id, name)).pending = Some(Partial(id, name, <<>>))
         /\ Push(a, WireStart(id, name)).calls = a.calls
<1>1. PICK e : e = WireStart(id, name)
  OBVIOUS
<1>2. e.type = "tool_call_start" /\ e.id = id /\ e.name = name
  BY <1>1 DEF WireStart
<1>3. Flush(a) = a
  BY SomeValue DEF Flush
<1>4. Push(a, e) = [a EXCEPT !.pending = Some(Partial(id, name, <<>>))]
  BY <1>2, <1>3 DEF Push, PushStart
<1> QED
  BY <1>1, <1>4 DEF Accumulators

\* A start closes the call in flight, and opens one everywhere.
StartsCall(u, s, e) ==
  /\ u.turn.open = Some(Partial(e.id, e.name, <<>>)) /\ u.turn.args = <<>>
  /\ u.turn.calls = TurnCalls(s.turn)
  /\ Buffered(u)

\* So a start event does.
LEMMA FeedStarts ==
  ASSUME NEW s \in States, ~ IsSome(s.turn.open) => s.turn.args = <<>>,
         Buffered(s) \/ Flushed(s), NEW e \in ProviderEvents, e.kind = "start"
  PROVE  StartsCall(Feed(s, e), s, e)
<1>1. s.turn \in Turns /\ s.relay \in Relays /\ s.client \in Accumulators
  BY DEF States
<1>2. e.id \in Ids /\ e.name \in Strings
  BY ProviderEventCases
<1>3. PICK u : u = Feed(s, e)
  OBVIOUS
<1>4. PICK opened : opened = Some(Partial(e.id, e.name, <<>>))
  OBVIOUS
<1>5. PICK t \in Turns : t = TakeCall(s.turn)
  BY <1>1, TakeCallType
<1>6. t.calls = TurnCalls(s.turn)
  BY <1>5 DEF TurnCalls
<1>7. t.args = <<>>
  BY <1>1, <1>5 DEF TakeCall, Turns
<1>8. u.turn.open = opened /\ u.turn.args = <<>> /\ u.turn.calls = TurnCalls(s.turn)
  <2>1. u.turn = [t EXCEPT !.open = opened]
    BY <1>3, <1>4, <1>5 DEF Feed, Assemble
  <2> QED
    BY <1>6, <1>7, <2>1 DEF Turns
<1>9. Current(u.turn) = opened
  <2>1. IsSome(opened) /\ opened[1] = Partial(e.id, e.name, <<>>)
    BY <1>4, SomeValue
  <2>2. opened[1].id = e.id /\ opened[1].name = e.name
    BY <2>1 DEF Partial
  <2> QED
    BY <1>4, <1>8, <2>1, <2>2 DEF Current
<1>10. PICK start : start = WireStart(e.id, e.name)
  OBVIOUS
<1>11. /\ RelayEvent(s.relay, e).relay = [s.relay EXCEPT !.pending = opened]
       /\ RelayEvent(s.relay, e).events = CloseCall(s.relay) \o <<start>>
  BY <1>4, <1>10 DEF RelayEvent, RelayStart
<1>12. u.relay.pending = opened
  BY <1>1, <1>3, <1>11 DEF Feed, Relays
<1>13. u.client = Pushed(s.client, CloseCall(s.relay) \o <<start>>)
  BY <1>3, <1>11 DEF Feed
<1>14. TurnCalls(s.turn) = Taken(s.turn)
  BY <1>1, TakenCalls
<1>15. u.client.pending = opened /\ u.client.calls = TurnCalls(s.turn)
  <2>1. CASE IsSome(s.relay.pending)
    <3>1. Buffered(s)
      BY <2>1, SomeValue DEF Flushed
    <3>2. PICK call \in ToolCalls : call = s.relay.pending[1] /\ s.relay.pending = Some(call)
      BY <1>1, <2>1, SomeOrNone DEF Relays
    <3>3. s.client.pending = Some(call) /\ Current(s.turn) = Some(call)
      BY <3>1, <3>2 DEF Buffered
    <3>4. IsSome(s.turn.open)
      BY <3>3, SomeValue DEF Current
    <3>5. Taken(s.turn) = Append(s.turn.calls, Finished(call))
      BY <3>3, <3>4, SomeValue DEF Taken
    <3>6. PICK end : end = WireEnd(call)
      OBVIOUS
    <3>7. CloseCall(s.relay) = <<end>>
      BY <2>1, <3>2, <3>6 DEF CloseCall, When
    <3>8. PICK both : both = <<end>> \o <<start>>
      OBVIOUS
    <3>9. Len(both) = 2 /\ both[1] = end /\ both[2] = start
      BY <3>8
    <3>10. u.client = Push(Push(s.client, end), start)
      BY <1>13, <3>7, <3>8, <3>9 DEF Pushed
    <3>11. PICK b \in Accumulators : b = Push(s.client, end)
      BY <1>1, <3>6, PushType, WireEventTypes
    <3>12. b.pending = None /\ b.calls = Append(s.client.calls, Finished(call))
      BY <1>1, <3>3, <3>6, <3>11, PushesEnd
    <3>13. b.calls = TurnCalls(s.turn)
      BY <1>14, <3>1, <3>5, <3>12 DEF Buffered
    <3> QED
      BY <1>2, <1>4, <1>10, <3>10, <3>11, <3>12, <3>13, PushesStart
  <2>2. CASE ~ IsSome(s.relay.pending)
    <3>1. s.client.pending = None
      BY <2>2 DEF Buffered, Flushed, IsSome
    <3>2. s.client.calls = TurnCalls(s.turn)
      <4>1. CASE Buffered(s)
        <5>1. ~ IsSome(Current(s.turn))
          BY <2>2, <4>1 DEF Buffered
        <5>2. ~ IsSome(s.turn.open)
          BY <5>1, SomeValue DEF Current
        <5> QED
          BY <1>14, <4>1, <5>2 DEF Taken, Buffered
      <4> QED
        BY <4>1 DEF Flushed
    <3>3. CloseCall(s.relay) = <<>>
      BY <2>2 DEF CloseCall, When
    <3>4. PICK one : one = <<start>>
      OBVIOUS
    <3>5. Len(one) = 1 /\ one[1] = start /\ <<>> \o one = one
      BY <3>4
    <3>6. u.client = Push(s.client, start)
      BY <1>13, <3>3, <3>4, <3>5 DEF Pushed
    <3> QED
      BY <1>1, <1>2, <1>4, <1>10, <3>1, <3>2, <3>6, PushesStart
  <2> QED
    BY <2>1, <2>2
<1>16. Buffered(u)
  BY <1>8, <1>9, <1>12, <1>15 DEF Buffered
<1> QED
  BY <1>3, <1>4, <1>8, <1>16 DEF StartsCall

\* Arguments of the call in flight extend it everywhere.
ExtendsCall(u, s, e) ==
  /\ u.turn.open = s.turn.open /\ u.turn.args = s.turn.args \o e.args
  /\ u.turn.calls = s.turn.calls
  /\ Buffered(u)

\* So a chunk does.
LEMMA FeedExtends ==
  ASSUME NEW s \in States, Buffered(s), IsSome(s.turn.open),
         NEW e \in ProviderEvents, e.kind = "chunk", e.id = s.turn.open[1].id
  PROVE  ExtendsCall(Feed(s, e), s, e)
<1>1. s.turn \in Turns /\ s.relay \in Relays /\ s.client \in Accumulators
  BY DEF States
<1>2. e.id \in Ids /\ e.args \in Texts
  BY ProviderEventCases
<1>3. PICK u : u = Feed(s, e)
  OBVIOUS
<1>4. PICK args \in Texts : args = s.turn.args \o e.args
  BY <1>1, <1>2, TextsConcat DEF Turns
<1>5. u.turn.open = s.turn.open /\ u.turn.args = args /\ u.turn.calls = s.turn.calls
  <2>1. u.turn = [s.turn EXCEPT !.args = @ \o e.args]
    BY <1>3 DEF Feed, Assemble
  <2>2. u.turn = [s.turn EXCEPT !.args = args]
    BY <1>4, <2>1
  <2> QED
    BY <1>1, <2>2 DEF Turns
<1>6. PICK call \in ToolCalls : call = Partial(e.id, s.turn.open[1].name, s.turn.args)
  BY <1>1, <1>2, SomeOrNone, PartialType DEF Turns, ToolCalls
<1>7. /\ s.relay.pending = Some(call) /\ s.client.pending = Some(call)
      /\ s.client.calls = s.turn.calls
  BY <1>6 DEF Buffered, Current
<1>8. PICK longer : longer = Partial(e.id, s.turn.open[1].name, args)
  OBVIOUS
<1>9. call.id = e.id /\ call.args = s.turn.args
  BY <1>6 DEF Partial
<1>10. longer = [call EXCEPT !.args = @ \o e.args]
  <2>1. [call EXCEPT !.args = @ \o e.args] = [call EXCEPT !.args = args]
    BY <1>4, <1>9
  <2> QED
    BY <1>6, <1>8, <2>1 DEF Partial
<1>11. [Some(call) EXCEPT ![1].args = @ \o e.args] = Some(longer)
  <2>1. PICK o \in Option(ToolCalls) : o = Some(call) /\ IsSome(o) /\ o[1] = call
    BY SomeIsOption, SomeValue
  <2>2. [o EXCEPT ![1].args = @ \o e.args] = Some([o[1] EXCEPT !.args = @ \o e.args])
    BY <1>2, <2>1, ArgumentsAdded
  <2>3. [o[1] EXCEPT !.args = @ \o e.args] = longer
    BY <1>10, <2>1
  <2> QED
    BY <2>1, <2>2, <2>3
<1>12. Current(u.turn) = Some(longer)
  BY <1>5, <1>8 DEF Current
<1>13. PICK delta : delta = WireDelta(e.id, e.args)
  OBVIOUS
<1>14. IsSome(s.relay.pending) /\ s.relay.pending[1].id = e.id
  BY <1>7, <1>9, SomeValue
<1>15. /\ RelayEvent(s.relay, e).relay = [s.relay EXCEPT !.pending[1].args = @ \o e.args]
       /\ RelayEvent(s.relay, e).events = <<delta>>
  BY <1>13, <1>14 DEF RelayEvent, RelayChunk
<1>16. u.relay.pending = Some(longer)
  <2>1. [s.relay EXCEPT !.pending[1].args = @ \o e.args] =
          [s.relay EXCEPT !.pending = [s.relay.pending EXCEPT ![1].args = @ \o e.args]]
    BY <1>1 DEF Relays
  <2>2. u.relay = [s.relay EXCEPT !.pending = Some(longer)]
    BY <1>3, <1>7, <1>11, <1>15, <2>1 DEF Feed
  <2> QED
    BY <1>1, <2>2 DEF Relays
<1>17. u.client.pending = Some(longer) /\ u.client.calls = s.turn.calls
  <2>1. Len(<<delta>>) = 1 /\ <<delta>>[1] = delta
    OBVIOUS
  <2>2. u.client = Push(s.client, delta)
    BY <1>3, <1>15, <2>1 DEF Feed, Pushed
  <2>3. delta.type = "tool_call_delta" /\ delta.id = e.id /\ delta.args = e.args
    BY <1>13 DEF WireDelta
  <2>4. IsSome(s.client.pending) /\ s.client.pending[1].id = e.id
    BY <1>7, <1>9, SomeValue
  <2>5. u.client = [s.client EXCEPT !.pending[1].args = @ \o e.args]
    BY <2>2, <2>3, <2>4 DEF Push, PushDelta
  <2>6. [s.client EXCEPT !.pending[1].args = @ \o e.args] =
          [s.client EXCEPT !.pending = [s.client.pending EXCEPT ![1].args = @ \o e.args]]
    BY <1>1 DEF Accumulators
  <2>7. u.client = [s.client EXCEPT !.pending = Some(longer)]
    BY <1>7, <1>11, <2>5, <2>6
  <2> QED
    BY <1>1, <1>7, <2>7 DEF Accumulators
<1> QED
  BY <1>3, <1>4, <1>5, <1>12, <1>16, <1>17 DEF ExtendsCall, Buffered

\* A Done with a reason closes the call in flight, if it is not closed.
Finishing(u, s) ==
  /\ u.turn = s.turn
  /\ Flushed(u)

\* So a reason does, whether or not one came before.
LEMMA FeedFinishes ==
  ASSUME NEW s \in States, Buffered(s) \/ Flushed(s),
         NEW e \in ProviderEvents, e.kind = "done", IsSome(e.reason)
  PROVE  Finishing(Feed(s, e), s)
<1>1. s.turn \in Turns /\ s.relay \in Relays /\ s.client \in Accumulators
  BY DEF States
<1>2. PICK u : u = Feed(s, e)
  OBVIOUS
<1>3. u.turn = s.turn
  BY <1>2 DEF Feed, Assemble
<1>4. RelayEvent(s.relay, e).relay.pending = None
      /\ RelayEvent(s.relay, e).events = CloseCall(s.relay)
  BY DEF RelayEvent, RelayDone, When
<1>5. u.relay.pending = None /\ u.client = Pushed(s.client, CloseCall(s.relay))
  BY <1>2, <1>4 DEF Feed
<1>6. TurnCalls(s.turn) = Taken(s.turn)
  BY <1>1, TakenCalls
<1>7. CASE IsSome(s.relay.pending)
  <2>1. Buffered(s)
    BY <1>7, SomeValue DEF Flushed
  <2>2. PICK call \in ToolCalls : call = s.relay.pending[1] /\ s.relay.pending = Some(call)
    BY <1>1, <1>7, SomeOrNone DEF Relays
  <2>3. s.client.pending = Some(call) /\ Current(s.turn) = Some(call)
    BY <2>1, <2>2 DEF Buffered
  <2>4. IsSome(s.turn.open)
    BY <2>3, SomeValue DEF Current
  <2>5. Taken(s.turn) = Append(s.turn.calls, Finished(call))
    BY <2>3, <2>4, SomeValue DEF Taken
  <2>6. PICK end : end = WireEnd(call)
    OBVIOUS
  <2>7. CloseCall(s.relay) = <<end>> /\ Len(<<end>>) = 1 /\ <<end>>[1] = end
    BY <1>7, <2>2, <2>6 DEF CloseCall, When
  <2>8. u.client = Push(s.client, end)
    BY <1>5, <2>7 DEF Pushed
  <2>9. u.client.pending = None /\ u.client.calls = Append(s.client.calls, Finished(call))
    BY <1>1, <2>3, <2>6, <2>8, PushesEnd
  <2> QED
    BY <1>2, <1>3, <1>5, <1>6, <2>1, <2>5, <2>9 DEF Buffered, Flushed, Finishing
<1>8. CASE ~ IsSome(s.relay.pending)
  <2>1. CloseCall(s.relay) = <<>> /\ Len(<<>>) = 0
    BY <1>8, EmptySeq DEF CloseCall, When
  <2>2. u.client = s.client
    BY <1>5, <2>1 DEF Pushed
  <2>3. s.client.pending = None
    BY <1>8 DEF Buffered, Flushed, IsSome
  <2>4. s.client.calls = TurnCalls(s.turn)
    <3>1. CASE Buffered(s)
      <4>1. ~ IsSome(Current(s.turn))
        BY <1>8, <3>1 DEF Buffered
      <4>2. ~ IsSome(s.turn.open)
        BY <4>1, SomeValue DEF Current
      <4> QED
        BY <1>6, <3>1, <4>2 DEF Taken, Buffered
    <3> QED
      BY <3>1 DEF Flushed
  <2> QED
    BY <1>2, <1>3, <1>5, <2>2, <2>3, <2>4 DEF Flushed, Finishing
<1> QED
  BY <1>7, <1>8

-----------------------------------------------------------------------------

\* The events a delta is decoded into, for the call it belongs to.
Opening(id, tc) == When(IsSome(tc.id), <<ToolCallStart(id, tc.name)>>)
Lengthening(id, tc) == When(IsSome(tc.args), <<ToolCallChunk(id, tc.args[1])>>)

\* The state has followed the deltas D, and the latest call has the given id.
Following(s, D, id) ==
  /\ Assembled(s.turn, D) /\ Buffered(s)
  /\ IsSome(s.turn.open) => s.turn.open[1].id = id

\* One more delta is followed: a call is opened, or the latest extended.
LEMMA DeltaFollows ==
  ASSUME NEW s \in States, NEW D \in Seq(ToolDeltas), NEW U \in Seq(ToolDeltas),
         NEW tc \in ToolDeltas, NEW n \in Nat, IsLonger(U, D, tc, n),
         NEW tool \in Ids, Following(s, D, tool), D = <<>> => IsSome(tc.id),
         NEW id \in Ids, id = IF IsSome(tc.id) THEN tc.id[1] ELSE tool
  PROVE  Following(After(After(s, Opening(id, tc)), Lengthening(id, tc)), U, id)
<1>1. s.turn \in Turns
  BY DEF States
<1>2. tc.id \in Option(Ids) /\ tc.name \in Strings /\ tc.args \in Option(Texts)
  BY DEF ToolDeltas
<1>3. PICK start \in ProviderEvents : start = ToolCallStart(id, tc.name)
  BY <1>2, ProviderEventTypes
<1>4. start.kind = "start" /\ start.id = id /\ start.name = tc.name
  BY <1>3 DEF ToolCallStart
<1>5. PICK piece \in Texts : piece = Piece(tc)
  BY <1>2, SomeOrNone, TextsConcat DEF Piece, OrDefault
<1>6. PICK chunk \in ProviderEvents : chunk = ToolCallChunk(id, piece)
  BY ProviderEventTypes
<1>7. chunk.kind = "chunk" /\ chunk.id = id /\ chunk.args = piece
  BY <1>6 DEF ToolCallChunk
<1>8. Lengthening(id, tc) = When(IsSome(tc.args), <<chunk>>)
  BY <1>5, <1>6 DEF Lengthening, Piece, OrDefault, When
<1>9. ~ IsSome(tc.args) => piece = <<>>
  BY <1>5 DEF Piece, OrDefault
<1>10. CompletesWith(s.turn, D)
  BY <1>1, AssembledCalls DEF Following
<1>11. CASE IsSome(tc.id)
  <2>1. PICK m \in Nat : m = n + 1
    OBVIOUS
  <2>2. Begins(U, D, tc, m) /\ U[m] = tc
    BY <1>11, <2>1, CallOpens DEF IsLonger
  <2>3. PICK u \in States : u = Feed(s, start)
    BY FeedType
  <2>4. After(s, Opening(id, tc)) = u
    BY <1>3, <1>11, <2>3, AfterOne DEF FedOne, Opening, When
  <2>5. StartsCall(u, s, start)
    BY <1>4, <1>10, <2>3, FeedStarts DEF CompletesWith, Following
  <2>6. /\ u.turn.open = Some(Partial(U[m].id[1], U[m].name, <<>>)) /\ u.turn.args = <<>>
        /\ u.turn.calls = Earlier(U, m) /\ Buffered(u)
    BY <1>4, <1>10, <1>11, <2>2, <2>5 DEF StartsCall, Begins, CompletesWith
  <2>7. Latest(U, m) /\ ArgsFrom(U, m) = piece
    BY <1>5, <2>2 DEF Begins
  <2>8. IsSome(u.turn.open) /\ u.turn.open[1].id = id
    BY <1>11, <2>2, <2>6, SomeValue DEF Partial
  <2>9. CASE IsSome(tc.args)
    <3>1. PICK v \in States : v = Feed(u, chunk)
      BY FeedType
    <3>2. After(u, Lengthening(id, tc)) = v
      BY <1>8, <2>9, <3>1, AfterOne DEF FedOne, When
    <3>3. ExtendsCall(v, u, chunk)
      BY <1>7, <2>6, <2>8, <3>1, FeedExtends
    <3>4. <<>> \o piece = piece
      BY DEF Texts
    <3>5. /\ v.turn.open = u.turn.open /\ v.turn.args = piece
          /\ v.turn.calls = u.turn.calls /\ Buffered(v)
      BY <1>7, <2>6, <3>3, <3>4 DEF ExtendsCall
    <3>6. Assembled(v.turn, U)
      BY <2>6, <2>7, <3>5 DEF Assembled
    <3> QED
      BY <2>4, <2>8, <3>2, <3>5, <3>6 DEF Following
  <2>10. CASE ~ IsSome(tc.args)
    <3>1. After(u, Lengthening(id, tc)) = u
      BY <1>3, <1>8, <2>10, AfterOne DEF FedOne, When
    <3>2. Assembled(u.turn, U)
      BY <1>9, <2>6, <2>7, <2>10 DEF Assembled
    <3> QED
      BY <2>4, <2>6, <2>8, <3>1, <3>2 DEF Following
  <2> QED
    BY <2>9, <2>10
<1>12. CASE ~ IsSome(tc.id)
  <2>1. D # <<>> /\ id = tool
    BY <1>12
  <2>2. PICK p : /\ Latest(D, p)
                 /\ s.turn.open = Some(Partial(D[p].id[1], D[p].name, <<>>))
                 /\ s.turn.args = ArgsFrom(D, p)
                 /\ s.turn.calls = Earlier(D, p)
    BY <2>1 DEF Following, Assembled
  <2>3. Lengthens(U, D, tc, p) /\ U[p] = D[p]
    BY <1>12, <2>2, CallLengthens
  <2>4. After(s, Opening(id, tc)) = s
    BY <1>3, <1>12, AfterOne DEF FedOne, Opening, When
  <2>5. IsSome(s.turn.open) /\ s.turn.open[1].id = id
    BY <2>1, <2>2, SomeValue DEF Following
  <2>6. /\ Latest(U, p) /\ Earlier(U, p) = s.turn.calls
        /\ ArgsFrom(U, p) = s.turn.args \o piece
        /\ s.turn.open = Some(Partial(U[p].id[1], U[p].name, <<>>))
    BY <1>5, <2>2, <2>3 DEF Lengthens
  <2>7. CASE IsSome(tc.args)
    <3>1. PICK v \in States : v = Feed(s, chunk)
      BY FeedType
    <3>2. After(s, Lengthening(id, tc)) = v
      BY <1>8, <2>7, <3>1, AfterOne DEF FedOne, When
    <3>3. ExtendsCall(v, s, chunk)
      BY <1>7, <2>5, <3>1, FeedExtends DEF Following
    <3>4. /\ v.turn.open = s.turn.open /\ v.turn.args = s.turn.args \o piece
          /\ v.turn.calls = s.turn.calls /\ Buffered(v)
      BY <1>7, <3>3 DEF ExtendsCall
    <3>5. Assembled(v.turn, U)
      BY <2>6, <3>4 DEF Assembled
    <3> QED
      BY <2>4, <2>5, <3>2, <3>4, <3>5 DEF Following
  <2>8. CASE ~ IsSome(tc.args)
    <3>1. After(s, Lengthening(id, tc)) = s
      BY <1>3, <1>8, <2>8, AfterOne DEF FedOne, When
    <3>2. s.turn.args \o piece = s.turn.args
      BY <1>1, <1>9, <2>8 DEF Turns, Texts
    <3>3. Assembled(s.turn, U)
      BY <2>6, <3>2 DEF Assembled
    <3> QED
      BY <2>4, <2>5, <3>1, <3>3 DEF Following
  <2> QED
    BY <2>7, <2>8
<1> QED
  BY <1>11, <1>12

\* The first m of the deltas.
FirstDeltas(b, U, m) ==
  /\ b \in Seq(ToolDeltas) /\ b = SubSeq(U, 1, m) /\ Len(b) = m
  /\ \A i \in 1..m : b[i] = U[i]

\* They are deltas, and the same.
LEMMA FirstDeltasAre ==
  ASSUME NEW U \in Seq(ToolDeltas), NEW m \in 0..Len(U)
  PROVE  FirstDeltas(SubSeq(U, 1, m), U, m)
<1>1. PICK all \in Nat : all = Len(U)
  OBVIOUS
<1>2. U \in [1..all -> ToolDeltas] /\ m \in 0..all /\ m \in Nat
  BY <1>1
<1>3. Begun(SubSeq(U, 1, m), U, m, ToolDeltas)
  BY <1>2, Beginning
<1>4. PICK b \in [1..m -> ToolDeltas] : b = SubSeq(U, 1, m) /\ \A i \in 1..m : b[i] = U[i]
  BY <1>3 DEF Begun
<1>5. b \in Seq(ToolDeltas) /\ Len(b) = m
  BY <1>2, <1>4, SequenceLength
<1> QED
  BY <1>4, <1>5 DEF FirstDeltas

\* The state has followed the first m of the deltas U, which were decoded into st.
FollowedTo(s, st, U, m) == Following(After(s, st.events), SubSeq(U, 1, m), st.tool)

\* The deltas of a chunk are followed, one by one.
LEMMA DeltasFollow ==
  ASSUME NEW s \in States, NEW D \in Seq(ToolDeltas), NEW tools \in Seq(ToolDeltas),
         NEW U \in Seq(ToolDeltas), U = D \o tools, U # <<>> => IsSome(U[1].id),
         NEW tool \in Ids, Following(s, D, tool)
  PROVE  Following(After(s, AllToolEvents(tool, tools).events), U,
                   AllToolEvents(tool, tools).tool)
<1>1. PICK l \in Nat, n \in Nat, all \in Nat : l = Len(D) /\ n = Len(tools) /\ all = l + n
  OBVIOUS
<1>2. /\ Len(U) = all /\ \A i \in 1..l : U[i] = D[i]
      /\ \A i \in 1..n : U[l + i] = tools[i]
  BY <1>1, ConcatPlaces DEF Concatenated
<1>3. PICK f \in [0..n -> ToolStates] :
        ToolSteps(f, tool, tools, n) /\ AllToolEvents(tool, tools) = f[n]
  BY <1>1, AllToolEventsFold DEF ToolsBySteps
<1> DEFINE S == {k \in 0..n : FollowedTo(s, f[k], U, l + k)}
<1>6. 0 \in S
  <2>1. PICK m : m = l + 0
    OBVIOUS
  <2>2. m = l /\ m \in 0..Len(U)
    BY <1>1, <1>2, <2>1
  <2>3. PICK b : b = SubSeq(U, 1, m) /\ FirstDeltas(b, U, m)
    BY <2>2, FirstDeltasAre
  <2>4. b \in Seq(ToolDeltas) /\ Len(b) = Len(D) /\ \A i \in 1..Len(b) : b[i] = D[i]
    BY <1>1, <1>2, <2>2, <2>3 DEF FirstDeltas
  <2>5. b = D
    BY <2>4, SeqEqual
  <2>6. f[0].tool = tool /\ f[0].events = <<>>
    BY <1>3 DEF ToolSteps
  <2>7. ToolCallStart(tool, "") \in ProviderEvents
    BY WireProxyAssumption, ProviderEventTypes
  <2>8. After(s, <<>>) = s
    BY <2>7, AfterOne DEF FedOne
  <2>9. FollowedTo(s, f[0], U, m)
    BY <2>3, <2>5, <2>6, <2>8 DEF FollowedTo
  <2> QED
    BY <2>1, <2>9
<1>7. ASSUME NEW k \in 1..n, k - 1 \in S PROVE k \in S
  <2>0. PICK j \in Nat : j = k - 1
    OBVIOUS
  <2>1. PICK m \in Nat : m = l + j
    OBVIOUS
  <2>23. PICK q \in Nat : q = l + k
    OBVIOUS
  <2>2. /\ j \in 0..n /\ k \in 0..n /\ q = m + 1 /\ m \in 0..Len(U) /\ q \in 0..Len(U)
        /\ FollowedTo(s, f[j], U, m)
    BY <1>1, <1>2, <1>7, <2>0, <2>1, <2>23
  <2>3. PICK a : a = SubSeq(U, 1, m) /\ FirstDeltas(a, U, m)
    BY <2>2, FirstDeltasAre
  <2>4. PICK b : b = SubSeq(U, 1, q) /\ FirstDeltas(b, U, q)
    BY <2>2, FirstDeltasAre
  <2>24. k \in 1..Len(tools) /\ U[q] = tools[k]
    BY <1>1, <1>2, <2>23
  <2>5. PICK tc \in ToolDeltas : tc = tools[k] /\ U[q] = tc
    BY <2>24, ElementOfSeq
  <2>6. IsLonger(b, a, tc, m)
    <3>1. /\ Len(a) = m /\ Len(b) = q
          /\ \A i \in 1..m : a[i] = U[i]
          /\ \A i \in 1..q : b[i] = U[i]
      BY <2>3, <2>4 DEF FirstDeltas
    <3>2. q \in 1..q /\ \A i \in 1..m : i \in 1..q
      BY <2>2
    <3>3. b[q] = tc /\ \A i \in 1..m : b[i] = a[i]
      BY <2>5, <3>1, <3>2
    <3> QED
      BY <2>2, <3>1, <3>3 DEF IsLonger
  <2>7. a = <<>> => IsSome(tc.id)
    <3> SUFFICES ASSUME a = <<>> PROVE IsSome(tc.id)
      OBVIOUS
    <3>1. m = 0
      BY <2>3, EmptySeq DEF FirstDeltas
    <3>2. q = 1 /\ Len(U) # 0
      BY <2>2, <3>1
    <3>3. U # <<>>
      BY <3>2, EmptySeq
    <3> QED
      BY <2>5, <3>2, <3>3
  <2>8. PICK st \in ToolStates : st = f[j]
    BY <2>2
  <2>9. st.tool \in Ids /\ st.events \in Seq(ProviderEvents)
    BY <2>8 DEF ToolStates
  <2>10. PICK id \in Ids : id = IF IsSome(tc.id) THEN tc.id[1] ELSE st.tool
    BY <2>9, SomeOrNone DEF ToolDeltas
  <2>11. PICK x, y : x = Opening(id, tc) /\ y = Lengthening(id, tc)
    OBVIOUS
  <2>12. x \in Seq(ProviderEvents) /\ y \in Seq(ProviderEvents)
    <3>1. ToolCallStart(id, tc.name) \in ProviderEvents
      BY ProviderEventTypes DEF ToolDeltas
    <3>2. IsSome(tc.args) => tc.args[1] \in Texts
      BY SomeOrNone DEF ToolDeltas
    <3>3. IsSome(tc.args) => ToolCallChunk(id, tc.args[1]) \in ProviderEvents
      BY <3>2, ProviderEventTypes
    <3> QED
      BY <2>11, <3>1, <3>3, WhenOneType DEF Opening, Lengthening
  <2>13. f[k] = [tool |-> id, events |-> st.events \o x \o y]
    <3>1. f[k] = ToolEvents(st, tc)
      BY <1>3, <2>0, <2>5, <2>8 DEF ToolSteps
    <3> QED
      BY <2>10, <2>11, <3>1 DEF ToolEvents, Opening, Lengthening
  <2>14. PICK z \in Seq(ProviderEvents) : z = st.events \o x
    BY <2>9, <2>12, ConcatProperties
  <2>15. PICK t \in States : t = After(s, st.events)
    BY <2>9, AfterType
  <2>16. Following(t, a, st.tool)
    BY <2>2, <2>3, <2>8, <2>15 DEF FollowedTo
  <2>17. FedInTwo(s, st.events, x)
    BY <2>9, <2>12, AfterConcat
  <2>18. FedInTwo(s, z, y)
    BY <2>12, <2>14, AfterConcat
  <2>19. After(s, f[k].events) = After(After(t, x), y)
    BY <2>13, <2>14, <2>15, <2>17, <2>18 DEF FedInTwo
  <2>20. Following(After(After(t, x), y), b, id)
    <3>1. a \in Seq(ToolDeltas) /\ b \in Seq(ToolDeltas)
      BY <2>3, <2>4 DEF FirstDeltas
    <3> QED
      BY <2>6, <2>7, <2>9, <2>10, <2>11, <2>16, <3>1, DeltaFollows
  <2>21. f[k].tool = id
    BY <2>13
  <2>22. FollowedTo(s, f[k], U, q)
    BY <2>4, <2>19, <2>20, <2>21 DEF FollowedTo
  <2> QED
    BY <2>2, <2>22, <2>23
<1>8. n \in S
  <2> HIDE DEF S
  <2>1. \A k \in 0..n : k \in S
    BY <1>6, <1>7, InductionUpTo
  <2> QED
    BY <2>1
<1>9. FollowedTo(s, f[n], U, all)
  BY <1>1, <1>8
<1>10. SubSeq(U, 1, all) = U
  <2>0. all \in 0..Len(U)
    BY <1>2
  <2>1. PICK b : b = SubSeq(U, 1, all) /\ FirstDeltas(b, U, all)
    BY <2>0, FirstDeltasAre
  <2>2. b \in Seq(ToolDeltas) /\ Len(b) = Len(U) /\ \A i \in 1..Len(b) : b[i] = U[i]
    BY <1>2, <2>1 DEF FirstDeltas
  <2>3. b = U
    BY <2>2, SeqEqual
  <2> QED
    BY <2>1, <2>3
<1> QED
  BY <1>3, <1>9, <1>10 DEF FollowedTo

-----------------------------------------------------------------------------

\* The state holds the calls of D, in flight or, once the body has named a finish
\* reason, closed; the decoder's current call is the one in flight.
Keeping(s, D, tool, ended) ==
  /\ Assembled(s.turn, D)
  /\ Buffered(s) \/ (ended /\ Flushed(s))
  /\ IsSome(s.turn.open) => tool = Some(s.turn.open[1].id)

\* Before a finish reason, this is what the deltas' lemmas ask for.
LEMMA KeepingFollows ==
  ASSUME NEW s \in States, NEW D, NEW id
  PROVE  Following(s, D, id) <=> Keeping(s, D, Some(id), FALSE)
<1>1. ASSUME NEW x PROVE x = id <=> Some(id) = Some(x)
  <2>1. Some(id)[1] = id /\ Some(x)[1] = x
    BY SomeValue
  <2> QED
    BY <2>1
<1>2. PICK x : x = s.turn.open[1].id
  OBVIOUS
<1> QED
  BY <1>1, <1>2 DEF Following, Keeping

\* Text, failures and usage keep the calls, and a reason may close them.
LEMMA FeedKeepsOn ==
  ASSUME NEW s \in States, NEW D, NEW tool, NEW ended, Keeping(s, D, tool, ended),
         NEW after, ended => after,
         NEW e \in ProviderEvents, e.kind \in {"text", "done", "err"},
         e.kind = "done" /\ IsSome(e.reason) => after
  PROVE  Keeping(Feed(s, e), D, tool, after)
<1>1. PICK u \in States : u = Feed(s, e)
  BY FeedType
<1>2. CASE e.kind = "done" /\ IsSome(e.reason)
  <2>1. Finishing(u, s)
    BY <1>1, <1>2, FeedFinishes DEF Keeping
  <2> QED
    BY <1>1, <1>2, <2>1 DEF Finishing, Keeping
<1>3. CASE ~ (e.kind = "done" /\ IsSome(e.reason))
  <2>1. Kept(s, u)
    BY <1>1, <1>3, FeedKeeps
  <2>2. /\ Assembled(s.turn, D) => Assembled(u.turn, D)
        /\ Buffered(s) => Buffered(u)
        /\ Flushed(s) => Flushed(u)
    BY <2>1, KeptAlike
  <2>3. u.turn.open = s.turn.open
    BY <2>1 DEF Kept
  <2> QED
    BY <1>1, <2>2, <2>3 DEF Keeping
<1> QED
  BY <1>2, <1>3

\* So does an event that is there under a condition.
LEMMA WhenKeepsOn ==
  ASSUME NEW s \in States, NEW D, NEW tool, NEW ended, Keeping(s, D, tool, ended),
         NEW after, ended => after, NEW c, NEW e,
         c => /\ e \in ProviderEvents /\ e.kind \in {"text", "done", "err"}
              /\ e.kind = "done" /\ IsSome(e.reason) => after
  PROVE  Keeping(After(s, When(c, <<e>>)), D, tool, after)
<1>1. CASE c
  <2>1. Keeping(Feed(s, e), D, tool, after)
    BY <1>1, FeedKeepsOn
  <2>2. FedOne(s, e)
    BY <1>1, AfterOne
  <2> QED
    BY <1>1, <2>1, <2>2 DEF FedOne, When
<1>2. CASE ~ c
  <2>1. FedOne(s, Failure)
    BY ProviderEventTypes, AfterOne
  <2> QED
    BY <1>2, <2>1 DEF FedOne, When, Keeping
<1> QED
  BY <1>1, <1>2

\* The deltas of a chunk, as far as there still are any.
LEMMA ToolsKeepOn ==
  ASSUME NEW s \in States, NEW D \in Seq(ToolDeltas), NEW tools \in Seq(ToolDeltas),
         NEW U \in Seq(ToolDeltas), U = D \o tools, U # <<>> => IsSome(U[1].id),
         NEW tool \in Ids, NEW ended \in BOOLEAN, Keeping(s, D, Some(tool), ended),
         ended => tools = <<>>
  PROVE  Keeping(After(s, AllToolEvents(tool, tools).events), U,
                 Some(AllToolEvents(tool, tools).tool), ended)
<1>1. CASE ended
  <2>1. tools = <<>> /\ Len(tools) = 0
    BY <1>1, EmptySeq
  <2>2. PICK f \in [0..0 -> ToolStates] :
          ToolSteps(f, tool, tools, 0) /\ AllToolEvents(tool, tools) = f[0]
    BY <2>1, AllToolEventsFold DEF ToolsBySteps
  <2>3. AllToolEvents(tool, tools).tool = tool /\ AllToolEvents(tool, tools).events = <<>>
    BY <2>2 DEF ToolSteps
  <2>4. FedOne(s, Failure)
    BY ProviderEventTypes, AfterOne
  <2>5. U = D
    BY <2>1
  <2> QED
    BY <2>3, <2>4, <2>5 DEF FedOne
<1>2. CASE ~ ended
  <2>1. PICK all \in ToolStates : all = AllToolEvents(tool, tools)
    BY AllToolEventsType
  <2>2. ended = FALSE
    BY <1>2
  <2>3. Following(s, D, tool)
    BY <2>2, KeepingFollows
  <2>4. Following(After(s, all.events), U, all.tool)
    BY <2>1, <2>3, DeltasFollow
  <2>5. After(s, all.events) \in States
    BY AfterType DEF ToolStates
  <2> QED
    BY <2>1, <2>2, <2>4, <2>5, KeepingFollows
<1> QED
  BY <1>1, <1>2

\* What a payload was decoded into keeps the calls, and the decoder keeps a reason.
ChatKeeps(decoded, s, U, after) ==
  /\ Keeping(After(s, decoded.events), U, Some(decoded.decoder.tool), after)
  /\ IsSome(decoded.decoder.finish) => after

\* A Chat Completions payload keeps the calls, with those of its deltas.
LEMMA ChatFrameKeeps ==
  ASSUME NEW s \in States, NEW D \in Seq(ToolDeltas), NEW d \in Decoders,
         NEW frame \in Payloads, frame.parses,
         NEW U \in Seq(ToolDeltas), U = D \o frame.tools, U # <<>> => IsSome(U[1].id),
         NEW ended \in BOOLEAN, Keeping(s, D, Some(d.tool), ended),
         ended => frame.tools = <<>>, IsSome(d.finish) => ended
  PROVE  ChatKeeps(Decode(d, frame), s, U, ended \/ IsSome(frame.finish))
<1>1. /\ frame.content \in Texts /\ frame.tools \in Seq(ToolDeltas)
      /\ frame.finish \in Option(Strings) /\ frame.usage \in Option(Usage)
  BY DEF Payloads
<1>2. d.tool \in Ids /\ d.finish \in Option(Strings) /\ d.usage \in Option(Usage)
  BY DEF Decoders
<1>3. PICK tools \in ToolStates : tools = AllToolEvents(d.tool, frame.tools)
  BY <1>1, <1>2, AllToolEventsType
<1>4. tools.events \in Seq(ProviderEvents)
  BY DEF ToolStates
<1>5. PICK finish \in Option(Strings), usage \in Option(Usage) :
        finish = Or(frame.finish, d.finish) /\ usage = MergeInto(d.usage, frame.usage)
  BY <1>1, <1>2, OrIsOption, MergeIntoType
<1>6. PICK done \in ProviderEvents, report \in ProviderEvents, text \in ProviderEvents :
        /\ text = Text(frame.content)
        /\ done = Done(finish, None)
        /\ report = Done(finish, usage)
  BY <1>1, NoneIsOption, ProviderEventTypes
<1>7. PICK a, b, c : /\ a = When(frame.content # <<>>, <<text>>)
                     /\ b = When(IsSome(frame.finish) /\ ~ IsSome(frame.usage), <<done>>)
                     /\ c = When(IsSome(frame.usage), <<report>>)
  OBVIOUS
<1>8. a \in Seq(ProviderEvents) /\ b \in Seq(ProviderEvents) /\ c \in Seq(ProviderEvents)
  <2>1. \A p, e : e \in ProviderEvents => When(p, <<e>>) \in Seq(ProviderEvents)
    BY WhenOneType
  <2> QED
    BY <1>6, <1>7, <2>1
<1>9. /\ Decode(d, frame).events = a \o tools.events \o b \o c
      /\ Decode(d, frame).decoder.tool = tools.tool
      /\ Decode(d, frame).decoder.finish = finish
  BY <1>3, <1>5, <1>6, <1>7 DEF Decode
<1>10. PICK after \in BOOLEAN : after = (ended \/ IsSome(frame.finish))
  BY DEF IsSome
<1>11. IsSome(finish) => after
  BY <1>5, <1>10 DEF Or
<1>12. PICK s1 \in States : s1 = After(s, a)
  BY <1>8, AfterType
<1>13. Keeping(s1, D, Some(d.tool), ended)
  <2>1. text.kind = "text"
    BY <1>6 DEF Text
  <2> QED
    BY <1>7, <1>12, <2>1, WhenKeepsOn
<1>14. PICK s2 \in States : s2 = After(s1, tools.events)
  BY <1>4, AfterType
<1>15. Keeping(s2, U, Some(tools.tool), ended)
  <2>1. PICK deltas \in Seq(ToolDeltas) : deltas = frame.tools
    BY <1>1
  <2>2. PICK id \in Ids : id = d.tool
    BY <1>2
  <2>3. U = D \o deltas /\ (ended => deltas = <<>>) /\ Keeping(s1, D, Some(id), ended)
    BY <1>13, <2>1, <2>2
  <2>4. Keeping(After(s1, AllToolEvents(id, deltas).events), U,
                Some(AllToolEvents(id, deltas).tool), ended)
    BY <2>3, ToolsKeepOn
  <2> QED
    BY <1>3, <1>14, <2>1, <2>2, <2>4
<1>16. PICK s3 \in States : s3 = After(s2, b)
  BY <1>8, AfterType
<1>17. Keeping(s3, U, Some(tools.tool), after)
  <2>1. done.kind = "done" /\ done.reason = finish
    BY <1>6 DEF Done
  <2> QED
    BY <1>7, <1>10, <1>11, <1>15, <1>16, <2>1, WhenKeepsOn
<1>18. Keeping(After(s3, c), U, Some(tools.tool), after)
  <2>1. report.kind = "done" /\ report.reason = finish
    BY <1>6 DEF Done
  <2> QED
    BY <1>7, <1>11, <1>17, <2>1, WhenKeepsOn
<1>19. After(s, a \o tools.events \o b \o c) = After(s3, c)
  <2>1. PICK x \in Seq(ProviderEvents) : x = a \o tools.events
    BY <1>4, <1>8, ConcatProperties
  <2>2. PICK y \in Seq(ProviderEvents) : y = x \o b
    BY <1>8, ConcatProperties
  <2>3. FedInTwo(s, a, tools.events)
    BY <1>4, <1>8, AfterConcat
  <2>4. FedInTwo(s, x, b)
    BY <1>8, AfterConcat
  <2>5. FedInTwo(s, y, c)
    BY <1>8, AfterConcat
  <2> QED
    BY <1>12, <1>14, <1>16, <2>1, <2>2, <2>3, <2>4, <2>5 DEF FedInTwo
<1> QED
  BY <1>9, <1>10, <1>11, <1>18, <1>19 DEF ChatKeeps

\* Anthropic's frames but those of content blocks: at most one event, a failure or a
\* Done, which names the reason the frame names.
Reports(decoded, d, frame) ==
  /\ decoded.decoder.tool = d.tool
  /\ \/ decoded.events = <<>>
     \/ \E e \in ProviderEvents :
          /\ decoded.events = <<e>> /\ e.kind \in {"done", "err"}
          /\ e.kind = "done" /\ IsSome(e.reason) =>
               frame.event = "message_delta" /\ IsSome(frame.reason)

\* All of them are so.
LEMMA OtherFramesReport ==
  ASSUME NEW d \in AnthropicDecoders, NEW frame \in SseEvents,
         frame.event \notin {"content_block_start", "content_block_delta"}
  PROVE  Reports(DecodeAnthropic(d, frame), d, frame)
<1>1. PICK decoded \in Decoded(AnthropicDecoders) : decoded = DecodeAnthropic(d, frame)
  BY DecodeAnthropicType
<1>2. \A e : decoded.events = <<e>> => e \in ProviderEvents
  <2>1. ASSUME NEW e, decoded.events = <<e>> PROVE e \in ProviderEvents
    <3>1. decoded.events \in Seq(ProviderEvents) /\ Len(<<e>>) = 1 /\ <<e>>[1] = e
      BY DEF Decoded
    <3> QED
      BY <2>1, <3>1, ElementOfSeq
  <2> QED
    BY <2>1
<1>3. CASE frame.event = "message_delta"
  <2>1. PICK usage, c : decoded.events = When(c, <<Done(frame.reason, usage)>>)
    BY <1>1, <1>3 DEF DecodeAnthropic, DecodeMessageDelta
  <2>2. decoded.decoder.tool = d.tool
    BY <1>1, <1>3 DEF DecodeAnthropic, DecodeMessageDelta, AnthropicDecoders
  <2>3. PICK e : e = Done(frame.reason, usage)
    OBVIOUS
  <2>4. e.kind = "done" /\ e.reason = frame.reason
    BY <2>3 DEF Done
  <2> QED
    BY <1>1, <1>2, <1>3, <2>1, <2>2, <2>3, <2>4 DEF Reports, When
<1>4. CASE frame.event = "message_start"
  BY <1>4 DEF Reports, DecodeAnthropic, DecodeMessageStart, Silent, AnthropicDecoders
<1>5. CASE frame.event = "message_stop"
  <2>1. PICK e : e = Done(None, d.usage)
    OBVIOUS
  <2>2. e.kind = "done" /\ ~ IsSome(e.reason)
    BY <2>1, SomeValue DEF Done
  <2>3. decoded.decoder.tool = d.tool /\ (decoded.events = <<>> \/ decoded.events = <<e>>)
    BY <1>1, <1>5, <2>1
    DEF DecodeAnthropic, DecodeMessageStop, Silent, AnthropicDecoders
  <2> QED
    BY <1>1, <1>2, <2>2, <2>3 DEF Reports
<1>6. CASE frame.event = "error"
  <2>1. decoded.decoder.tool = d.tool /\ decoded.events = <<Failure>> /\ Failure.kind = "err"
    BY <1>1, <1>6 DEF DecodeAnthropic, Failure
  <2> QED
    BY <1>1, <1>2, <2>1 DEF Reports
<1>7. CASE frame.event \notin {"message_delta", "message_start", "message_stop", "error"}
  BY <1>7 DEF Reports, DecodeAnthropic, Silent
<1> QED
  BY <1>3, <1>4, <1>5, <1>6, <1>7

\* The one delta of a content block: the deltas are one longer.
LEMMA OneLonger ==
  ASSUME NEW D \in Seq(ToolDeltas), NEW tc \in ToolDeltas, NEW U, U = D \o <<tc>>,
         NEW n \in Nat, n = Len(D)
  PROVE  IsLonger(U, D, tc, n)
<1>1. PICK one \in Seq(ToolDeltas) : one = <<tc>>
  BY SingletonType
<1>2. Len(one) = 1 /\ one[1] = tc
  BY <1>1
<1>3. Concatenated(U, D, one)
  BY <1>1, ConcatPlaces
<1>4. 1 \in 1..Len(one)
  BY <1>2
<1>5. Len(U) = n + 1 /\ U[n + 1] = tc
  BY <1>2, <1>3, <1>4 DEF Concatenated
<1> QED
  BY <1>3, <1>5 DEF IsLonger, Concatenated

\* A call in flight is known to the decoder by the id it was opened with.
LEMMA KeepingHasId ==
  ASSUME NEW s \in States, NEW D, NEW tool, Keeping(s, D, tool, FALSE)
  PROVE  \E id \in Ids : Following(s, D, id) /\ (D # <<>> => tool = Some(id))
<1>1. s.turn.open \in Option(ToolCalls)
  BY DEF States, Turns
<1>2. CASE IsSome(s.turn.open)
  <2>1. PICK id \in Ids : id = s.turn.open[1].id
    BY <1>1, <1>2, SomeOrNone DEF ToolCalls
  <2> QED
    BY <1>2, <2>1 DEF Keeping, Following
<1>3. CASE ~ IsSome(s.turn.open)
  <2>1. D = <<>>
    <3>1. \A p : s.turn.open # Some(Partial(D[p].id[1], D[p].name, <<>>))
      BY <1>3, SomeValue
    <3> QED
      BY <3>1 DEF Keeping, Assembled
  <2>2. "" \in Ids
    BY WireProxyAssumption
  <2> QED
    BY <1>3, <2>1, <2>2 DEF Keeping, Following
<1> QED
  BY <1>2, <1>3

\* An Anthropic frame keeps the calls, with that of its content block.
LEMMA AnthropicFrameKeeps ==
  ASSUME NEW s \in States, NEW D \in Seq(ToolDeltas), NEW d \in AnthropicDecoders,
         NEW frame \in SseEvents,
         NEW U \in Seq(ToolDeltas), U = D \o AnthropicTools(frame), U # <<>> => IsSome(U[1].id),
         NEW ended \in BOOLEAN, Keeping(s, D, d.tool, ended),
         ended => AnthropicTools(frame) = <<>>
  PROVE  Keeping(After(s, DecodeAnthropic(d, frame).events), U,
                 DecodeAnthropic(d, frame).decoder.tool,
                 ended \/ (frame.event = "message_delta" /\ IsSome(frame.reason)))
<1>0. PICK n \in Nat : n = Len(D)
  OBVIOUS
<1>1. CASE frame.event = "content_block_start"
  <2>1. frame.id \in Ids /\ frame.name \in Strings
    BY <1>1 DEF SseEvents, MessageStops, StreamFails, Ignored
  <2>2. PICK tc : tc = ToolDelta(Some(frame.id), frame.name, None)
    OBVIOUS
  <2>3. tc.id = Some(frame.id) /\ tc.name = frame.name /\ tc.args = None
    BY <2>2 DEF ToolDelta
  <2>4. tc \in ToolDeltas
    BY <2>1, <2>2, SomeIsOption, NoneIsOption DEF ToolDelta, ToolDeltas
  <2>5. AnthropicTools(frame) = <<tc>>
    BY <1>1, <2>2 DEF AnthropicTools
  <2>6. ended = FALSE
    BY <2>5
  <2>7. IsLonger(U, D, tc, n)
    BY <1>0, <2>4, <2>5, OneLonger
  <2>8. PICK id \in Ids : Following(s, D, id)
    BY <2>6, KeepingHasId
  <2>9. IsSome(tc.id) /\ tc.id[1] = frame.id
    BY <2>3, SomeValue
  <2>10. Following(After(After(s, Opening(frame.id, tc)), Lengthening(frame.id, tc)), U, frame.id)
    BY <2>1, <2>4, <2>7, <2>8, <2>9, DeltaFollows
  <2>11. Opening(frame.id, tc) = <<ToolCallStart(frame.id, frame.name)>>
         /\ Lengthening(frame.id, tc) = <<>>
    BY <2>3, <2>9, SomeValue DEF Opening, Lengthening, When
  <2>12. DecodeAnthropic(d, frame).events = Opening(frame.id, tc)
         /\ DecodeAnthropic(d, frame).decoder.tool = Some(frame.id)
    BY <1>1, <2>11 DEF DecodeAnthropic, DecodeBlockStart, AnthropicDecoders
  <2>13. PICK u \in States : u = After(s, Opening(frame.id, tc))
    BY <2>12, DecodeAnthropicType, AfterType DEF Decoded
  <2>14. FedOne(u, Failure)
    BY ProviderEventTypes, AfterOne
  <2>15. Following(u, U, frame.id)
    BY <2>10, <2>11, <2>13, <2>14 DEF FedOne
  <2>16. Keeping(u, U, Some(frame.id), FALSE)
    BY <2>15, KeepingFollows
  <2> QED
    BY <1>1, <2>6, <2>12, <2>13, <2>16
<1>2. CASE frame.event = "content_block_delta"
  <2>1. frame.text \in Option(Texts) /\ frame.args \in Option(Texts)
    BY <1>2 DEF SseEvents, MessageStops, StreamFails, Ignored
  <2>2. PICK shown, called :
          shown = (IsSome(frame.text) /\ frame.text # Some(<<>>))
          /\ called = (IsSome(frame.args) /\ IsSome(d.tool))
    OBVIOUS
  <2>3. PICK text, chunk :
          text = Text(frame.text[1]) /\ chunk = ToolCallChunk(d.tool[1], frame.args[1])
    OBVIOUS
  <2>4. shown => text \in ProviderEvents /\ text.kind = "text"
    <3>1. IsSome(frame.text) => frame.text[1] \in Texts
      BY <2>1, SomeOrNone
    <3> QED
      BY <2>2, <2>3, <3>1, ProviderEventTypes DEF Text
  <2>5. d.tool \in Option(Ids)
    BY DEF AnthropicDecoders
  <2>6. called => chunk \in ProviderEvents
    <3>1. IsSome(frame.args) => frame.args[1] \in Texts
      BY <2>1, SomeOrNone
    <3>2. IsSome(d.tool) => d.tool[1] \in Ids
      BY <2>5, SomeOrNone
    <3> QED
      BY <2>2, <2>3, <3>1, <3>2, ProviderEventTypes
  <2>7. PICK a, b : a = When(shown, <<text>>) /\ b = When(called, <<chunk>>)
    OBVIOUS
  <2>8. a \in Seq(ProviderEvents) /\ b \in Seq(ProviderEvents)
    BY <2>4, <2>6, <2>7, WhenOneType
  <2>9. DecodeAnthropic(d, frame).events = a \o b /\ DecodeAnthropic(d, frame).decoder.tool = d.tool
    BY <1>2, <2>2, <2>3, <2>7 DEF DecodeAnthropic, DecodeBlockDelta
  <2>10. PICK u \in States : u = After(s, a)
    BY <2>8, AfterType
  <2>11. Keeping(u, D, d.tool, ended)
    BY <2>4, <2>7, <2>10, WhenKeepsOn
  <2>12. After(s, a \o b) = After(u, b)
    BY <2>8, <2>10, AfterConcat DEF FedInTwo
  <2>13. FedOne(u, Failure)
    BY ProviderEventTypes, AfterOne
  <2>14. CASE ~ IsSome(frame.args)
    <3>1. AnthropicTools(frame) = <<>>
      BY <1>2, <2>14 DEF AnthropicTools
    <3>2. U = D
      BY <3>1
    <3>3. b = <<>>
      BY <2>2, <2>7, <2>14 DEF When
    <3> QED
      BY <1>2, <2>9, <2>11, <2>12, <2>13, <3>2, <3>3 DEF FedOne
  <2>15. CASE IsSome(frame.args)
    <3>1. PICK tc : tc = ToolDelta(None, "", frame.args)
      OBVIOUS
    <3>2. tc.id = None /\ tc.args = frame.args
      BY <3>1 DEF ToolDelta
    <3>3. tc \in ToolDeltas
      BY <2>1, <3>1, NoneIsOption, WireProxyAssumption DEF ToolDelta, ToolDeltas
    <3>4. AnthropicTools(frame) = <<tc>>
      BY <1>2, <2>15, <3>1 DEF AnthropicTools
    <3>5. ended = FALSE
      BY <3>4
    <3>6. IsLonger(U, D, tc, n)
      BY <1>0, <3>3, <3>4, OneLonger
    <3>7. ~ IsSome(tc.id)
      BY <3>2, SomeValue
    <3>8. D # <<>>
      <4> SUFFICES ASSUME D = <<>> PROVE FALSE
        OBVIOUS
      <4>1. n = 0
        BY <1>0, EmptySeq
      <4>2. Len(U) = 1 /\ U[1] = tc
        BY <3>6, <4>1 DEF IsLonger
      <4>3. U # <<>>
        BY <4>2, EmptySeq
      <4> QED
        BY <3>7, <4>2, <4>3
    <3>9. PICK id \in Ids : Following(u, D, id) /\ d.tool = Some(id)
      <4>1. PICK tool : tool = d.tool
        OBVIOUS
      <4>2. Keeping(u, D, tool, FALSE)
        BY <2>11, <3>5, <4>1
      <4>3. \E id \in Ids : Following(u, D, id) /\ (D # <<>> => tool = Some(id))
        BY <4>2, KeepingHasId
      <4> QED
        BY <3>8, <4>1, <4>3
    <3>10. IsSome(d.tool) /\ d.tool[1] = id
      BY <3>9, SomeValue
    <3>11. Following(After(After(u, Opening(id, tc)), Lengthening(id, tc)), U, id)
      BY <3>3, <3>6, <3>7, <3>8, <3>9, DeltaFollows
    <3>12. Opening(id, tc) = <<>> /\ Lengthening(id, tc) = b
      BY <2>2, <2>3, <2>7, <2>15, <3>2, <3>7, <3>10 DEF Opening, Lengthening, When
    <3>13. Following(After(u, b), U, id)
      BY <2>13, <3>11, <3>12 DEF FedOne
    <3>14. After(u, b) \in States
      BY <2>8, AfterType
    <3>15. Keeping(After(u, b), U, Some(id), FALSE)
      BY <3>13, <3>14, KeepingFollows
    <3> QED
      BY <1>2, <2>9, <2>12, <3>5, <3>9, <3>15
  <2> QED
    BY <2>14, <2>15
<1>3. CASE frame.event \notin {"content_block_start", "content_block_delta"}
  <2>1. PICK decoded : decoded = DecodeAnthropic(d, frame)
    OBVIOUS
  <2>2. Reports(decoded, d, frame)
    BY <1>3, <2>1, OtherFramesReport
  <2>3. AnthropicTools(frame) = <<>>
    BY <1>3 DEF AnthropicTools
  <2>4. U = D
    BY <2>3
  <2>5. PICK after : after = (ended \/ (frame.event = "message_delta" /\ IsSome(frame.reason)))
    OBVIOUS
  <2>6. CASE decoded.events = <<>>
    <3>1. FedOne(s, Failure)
      BY ProviderEventTypes, AfterOne
    <3> QED
      BY <2>1, <2>2, <2>4, <2>6, <3>1 DEF FedOne, Reports, Keeping
  <2>7. ASSUME NEW e \in ProviderEvents, decoded.events = <<e>>, e.kind \in {"done", "err"},
               e.kind = "done" /\ IsSome(e.reason) =>
                 frame.event = "message_delta" /\ IsSome(frame.reason)
        PROVE  Keeping(After(s, decoded.events), U, decoded.decoder.tool, after)
    <3>1. Keeping(Feed(s, e), D, d.tool, after)
      BY <2>5, <2>7, FeedKeepsOn
    <3>2. FedOne(s, e)
      BY AfterOne
    <3> QED
      BY <2>2, <2>4, <2>7, <3>1, <3>2 DEF FedOne, Reports
  <2> QED
    BY <2>1, <2>2, <2>5, <2>6, <2>7 DEF Reports
<1> QED
  BY <1>1, <1>2, <1>3

-----------------------------------------------------------------------------

\* The deltas of the body s of provider p, and whether it is orderly and has finished.
PartsOf(p, frame) ==
  IF p = "anthropic" THEN AnthropicTools(frame)
  ELSE IF frame.parses THEN frame.tools ELSE <<>>

FinishesIn(p, frame) ==
  IF p = "anthropic"
  THEN frame.event = "message_delta" /\ IsSome(frame.reason)
  ELSE frame.parses /\ IsSome(frame.finish)

HasFinished(p, s) == \E i \in 1..Len(s) : FinishesIn(p, s[i])

PartsIn(p, s) == [i \in 1..Len(s) |-> PartsOf(p, s[i])]
DeltasOf(p, s) == FlattenSeq(PartsIn(p, s))

OrderlyIn(p, s) ==
  /\ DeltasOf(p, s) # <<>> => IsSome(DeltasOf(p, s)[1].id)
  /\ \A i, j \in 1..Len(s) : i < j /\ FinishesIn(p, s[i]) => PartsOf(p, s[j]) = <<>>
  /\ p = "openrouter" => \A i \in 1..Len(s) : s[i].spaced

\* They are those of WireProxy, before and after a step.
LEMMA BodyOf ==
  /\ Deltas = DeltasOf(provider, said) /\ Deltas' = DeltasOf(provider', said')
  /\ Orderly <=> OrderlyIn(provider, said)
  /\ Orderly' <=> OrderlyIn(provider', said')
<1>1. Deltas = DeltasOf(provider, said)
  BY DEF Deltas, ToolParts, PartsOf, PartsIn, DeltasOf
<1>2. Deltas' = DeltasOf(provider', said')
  BY DEF Deltas, ToolParts, PartsOf, PartsIn, DeltasOf
<1>3. Orderly <=> OrderlyIn(provider, said)
  BY <1>1 DEF Orderly, OrderlyIn, Finishes, FinishesIn, ToolParts, PartsOf
<1>4. Orderly' <=> OrderlyIn(provider', said')
  BY <1>2 DEF Orderly, OrderlyIn, Finishes, FinishesIn, ToolParts, PartsOf
<1> QED
  BY <1>1, <1>2, <1>3, <1>4

\* What a frame adds are deltas.
LEMMA PartsType ==
  ASSUME NEW p \in DOMAIN Frames, NEW frame \in Frames[p]
  PROVE  PartsOf(p, frame) \in Seq(ToolDeltas)
<1>1. frame \in IF p = "anthropic" THEN SseEvents ELSE Payloads
  BY WireProxyAssumption
<1>2. CASE p # "anthropic"
  BY <1>1, <1>2, EmptySeq DEF PartsOf, Payloads
<1>3. CASE p = "anthropic"
  <2>1. PartsOf(p, frame) = AnthropicTools(frame)
    BY <1>3 DEF PartsOf
  <2>2. CASE frame.event = "content_block_start"
    <3>1. frame.id \in Ids /\ frame.name \in Strings
      BY <1>1, <1>3, <2>2 DEF SseEvents, MessageStops, StreamFails, Ignored
    <3>2. ToolDelta(Some(frame.id), frame.name, None) \in ToolDeltas
      BY <3>1, SomeIsOption, NoneIsOption DEF ToolDelta, ToolDeltas
    <3> QED
      BY <2>1, <2>2, <3>2, SingletonType DEF AnthropicTools
  <2>3. CASE frame.event = "content_block_delta"
    <3>1. frame.args \in Option(Texts)
      BY <1>1, <1>3, <2>3 DEF SseEvents, MessageStops, StreamFails, Ignored
    <3>2. ToolDelta(None, "", frame.args) \in ToolDeltas
      BY <3>1, NoneIsOption, WireProxyAssumption DEF ToolDelta, ToolDeltas
    <3> QED
      BY <2>1, <2>3, <3>2, SingletonType, EmptySeq DEF AnthropicTools
  <2>4. CASE frame.event \notin {"content_block_start", "content_block_delta"}
    BY <2>1, <2>4, EmptySeq DEF AnthropicTools
  <2> QED
    BY <2>2, <2>3, <2>4
<1> QED
  BY <1>2, <1>3

\* A body has deltas.
LEMMA DeltasType ==
  ASSUME NEW p \in DOMAIN Frames, NEW s \in Seq(Frames[p])
  PROVE  /\ PartsIn(p, s) \in [1..Len(s) -> Seq(ToolDeltas)]
         /\ DeltasOf(p, s) \in Seq(ToolDeltas)
<1>1. PICK n \in Nat : n = Len(s)
  OBVIOUS
<1>2. \A i \in 1..Len(s) : PartsOf(p, s[i]) \in Seq(ToolDeltas)
  BY PartsType, ElementOfSeq
<1>3. PartsIn(p, s) \in [1..Len(s) -> Seq(ToolDeltas)]
  BY <1>2 DEF PartsIn
<1> QED
  BY <1>1, <1>3, FlattenSeqType DEF DeltasOf

\* What a frame of an orderly body is: its deltas follow those before it, which were
\* orderly, and there are none once a reason was named.
Follows(p, s, frame, u) ==
  /\ OrderlyIn(p, s)
  /\ DeltasOf(p, u) = DeltasOf(p, s) \o PartsOf(p, frame)
  /\ HasFinished(p, u) <=> HasFinished(p, s) \/ FinishesIn(p, frame)
  /\ HasFinished(p, s) => PartsOf(p, frame) = <<>>
  /\ p = "openrouter" => frame.spaced

\* So the latest frame of an orderly body does.
LEMMA FramesFollow ==
  ASSUME NEW p \in DOMAIN Frames, NEW s \in Seq(Frames[p]), NEW frame \in Frames[p],
         NEW u, u = Append(s, frame), OrderlyIn(p, u)
  PROVE  Follows(p, s, frame, u)
<1>1. PICK n \in Nat, m \in Nat : n = Len(s) /\ m = n + 1
  OBVIOUS
<1>2. /\ u \in Seq(Frames[p]) /\ Len(u) = m /\ u[m] = frame
      /\ \A i \in 1..n : u[i] = s[i]
  BY <1>1, AppendProperties
<1>3. m \in 1..m /\ \A i \in 1..n : i \in 1..m /\ i < m
  BY <1>1
<1>4. \A i \in 1..m : i \in 1..n \/ i = m
  BY <1>1
<1>5. PICK x \in [1..n -> Seq(ToolDeltas)] : x = PartsIn(p, s)
  BY <1>1, DeltasType
<1>6. PICK y \in [1..m -> Seq(ToolDeltas)] : y = PartsIn(p, u)
  BY <1>2, DeltasType
<1>7. DeltasOf(p, u) = DeltasOf(p, s) \o PartsOf(p, frame)
  <2>1. \A i \in 1..n : x[i] = y[i]
    BY <1>1, <1>2, <1>3, <1>5, <1>6 DEF PartsIn
  <2>2. SameBeginning(x, y, n)
    BY <2>1 DEF SameBeginning
  <2>3. IsJoined(FlattenSeq(y), FlattenSeq(x), y[m])
    BY <1>1, <2>2, FlattenSeqNext
  <2>4. y[m] = PartsOf(p, frame)
    BY <1>2, <1>3, <1>6 DEF PartsIn
  <2> QED
    BY <1>5, <1>6, <2>3, <2>4 DEF DeltasOf, IsJoined
<1>8. HasFinished(p, u) <=> HasFinished(p, s) \/ FinishesIn(p, frame)
  BY <1>1, <1>2, <1>3, <1>4 DEF HasFinished
<1>9. HasFinished(p, s) => PartsOf(p, frame) = <<>>
  BY <1>1, <1>2, <1>3 DEF HasFinished, OrderlyIn
<1>10. p = "openrouter" => frame.spaced
  BY <1>2, <1>3 DEF OrderlyIn
<1>11. OrderlyIn(p, s)
  <2>1. ASSUME DeltasOf(p, s) # <<>> PROVE IsSome(DeltasOf(p, s)[1].id)
    <3>1. PICK D \in Seq(ToolDeltas), parts \in Seq(ToolDeltas), U \in Seq(ToolDeltas) :
            D = DeltasOf(p, s) /\ parts = PartsOf(p, frame) /\ U = DeltasOf(p, u)
      BY <1>2, DeltasType, PartsType
    <3>2. PICK l \in Nat : l = Len(D)
      OBVIOUS
    <3>3. l # 0
      BY <2>1, <3>1, <3>2, EmptySeq
    <3>4. Concatenated(U, D, parts)
      BY <1>7, <3>1, ConcatPlaces
    <3>5. 1 \in 1..Len(D) /\ Len(U) # 0
      BY <3>2, <3>3, <3>4 DEF Concatenated
    <3>6. U[1] = D[1] /\ U # <<>>
      BY <3>4, <3>5, EmptySeq DEF Concatenated
    <3> QED
      BY <3>1, <3>6 DEF OrderlyIn
  <2>2. \A i, j \in 1..n : i < j /\ FinishesIn(p, s[i]) => PartsOf(p, s[j]) = <<>>
    BY <1>2, <1>3 DEF OrderlyIn
  <2>3. p = "openrouter" => \A i \in 1..n : s[i].spaced
    BY <1>2, <1>3 DEF OrderlyIn
  <2> QED
    BY <1>1, <2>1, <2>2, <2>3 DEF OrderlyIn
<1> QED
  BY <1>7, <1>8, <1>9, <1>10, <1>11 DEF Follows

\* The id of the decoder's current call.
ToolOf(p, d) == IF p = "anthropic" THEN d.tool ELSE Some(d.tool)

\* The decoder of a Chat Completions body keeps the reason it was told.
Remembers(p, d, ended) == p # "anthropic" /\ IsSome(d.finish) => ended

\* A frame of any provider keeps the calls, with those of its deltas.
LEMMA FrameKeeps ==
  ASSUME TypeOK, NEW frame \in Frames[provider], NEW s \in States,
         NEW D \in Seq(ToolDeltas), NEW U \in Seq(ToolDeltas),
         U = D \o PartsOf(provider, frame), U # <<>> => IsSome(U[1].id),
         NEW ended \in BOOLEAN, ended => PartsOf(provider, frame) = <<>>,
         provider = "openrouter" => frame.spaced,
         Keeping(s, D, ToolOf(provider, decoder), ended), Remembers(provider, decoder, ended)
  PROVE  /\ Keeping(After(s, DecodeFrame(frame).events), U,
                    ToolOf(provider, DecodeFrame(frame).decoder),
                    ended \/ FinishesIn(provider, frame))
         /\ Remembers(provider, DecodeFrame(frame).decoder, ended \/ FinishesIn(provider, frame))
<1>1. provider \in {"chat", "openrouter", "anthropic"} /\ decoder \in Locals
  BY WireProxyAssumption DEF TypeOK, Locals
<1>2. frame \in IF provider = "anthropic" THEN SseEvents ELSE Payloads
  BY WireProxyAssumption DEF TypeOK
<1>3. CASE provider = "anthropic"
  <2>1. decoder \in AnthropicDecoders /\ frame \in SseEvents
    BY <1>1, <1>2, <1>3 DEF Locals
  <2>2. DecodeFrame(frame) = DecodeAnthropic(decoder, frame)
    BY <1>3 DEF DecodeFrame
  <2>3. PartsOf(provider, frame) = AnthropicTools(frame)
    BY <1>3 DEF PartsOf
  <2>4. Keeping(s, D, decoder.tool, ended)
    BY <1>3 DEF ToolOf
  <2>5. Keeping(After(s, DecodeAnthropic(decoder, frame).events), U,
                DecodeAnthropic(decoder, frame).decoder.tool,
                ended \/ (frame.event = "message_delta" /\ IsSome(frame.reason)))
    BY <2>1, <2>3, <2>4, AnthropicFrameKeeps
  <2> QED
    BY <1>3, <2>2, <2>5 DEF ToolOf, FinishesIn, Remembers
<1>4. CASE provider # "anthropic"
  <2>1. decoder \in Decoders /\ frame \in Payloads
    BY <1>1, <1>2, <1>4 DEF Locals
  <2>2. DecodeFrame(frame) = Decode(decoder, frame)
    BY <1>1, <1>4 DEF DecodeFrame, DecodeRouter
  <2>3. Keeping(s, D, Some(decoder.tool), ended) /\ (IsSome(decoder.finish) => ended)
    BY <1>4 DEF ToolOf, Remembers
  <2>4. CASE frame.parses
    <3>1. PartsOf(provider, frame) = frame.tools
      BY <1>4, <2>4 DEF PartsOf
    <3>2. U = D \o frame.tools /\ (ended => frame.tools = <<>>)
      BY <3>1
    <3>6. ChatKeeps(Decode(decoder, frame), s, U, ended \/ IsSome(frame.finish))
      BY <2>1, <2>3, <2>4, <3>2, ChatFrameKeeps
    <3>3. FinishesIn(provider, frame) <=> IsSome(frame.finish)
      BY <1>4, <2>4 DEF FinishesIn
    <3>4. (ended \/ FinishesIn(provider, frame)) = (ended \/ IsSome(frame.finish))
      BY <3>3
    <3>5. \A d : ToolOf(provider, d) = Some(d.tool)
      BY <1>4 DEF ToolOf
    <3> QED
      BY <2>2, <3>4, <3>5, <3>6 DEF Remembers, ChatKeeps
  <2>5. CASE ~ frame.parses
    <3>1. U = D
      BY <1>4, <2>5 DEF PartsOf
    <3>2. Decode(decoder, frame).decoder = decoder /\ Decode(decoder, frame).events = <<>>
      BY <2>5 DEF Decode
    <3>3. FedOne(s, Failure)
      BY ProviderEventTypes, AfterOne
    <3>4. FinishesIn(provider, frame) = FALSE
      BY <1>4, <2>5 DEF FinishesIn
    <3>5. (ended \/ FinishesIn(provider, frame)) = ended
      BY <3>4
    <3> QED
      BY <2>2, <3>1, <3>2, <3>3, <3>5 DEF FedOne
  <2> QED
    BY <2>4, <2>5
<1> QED
  BY <1>3, <1>4

-----------------------------------------------------------------------------

\* The local turn, the relay, and the client that received all that was sent.
Three == [turn |-> local.turn, relay |-> relay, client |-> Received(sent)]

\* A reason was named, or the body is over.
Ended == HasFinished(provider, said) \/ body # "open"

\* The calls of D are closed, at the client and locally.
Closed(D) ==
  /\ Received(sent).pending = None
  /\ Received(sent).calls = CallsIn(D)
  /\ TurnCalls(local.turn) = CallsIn(D)

\* The three hold the calls of the deltas so far, once they have the events that were
\* yielded; at the end, all of them are closed.
Delivers ==
  /\ serving = "unpolled" => yielded = <<>>
  /\ Remembers(provider, decoder, HasFinished(provider, said))
  /\ serving # "over" =>
       Keeping(After(Three, yielded), DeltasOf(provider, said), ToolOf(provider, decoder), Ended)
  /\ serving = "over" /\ ~ local.failed => Closed(DeltasOf(provider, said))

\* So it is when the provider is orderly.
Delivering == OrderlyIn(provider, said) => Delivers

\* Concatenation associates.
Associates(x, y, z) == x \o (y \o z) = (x \o y) \o z

\* It does over sequences.
LEMMA Associate ==
  ASSUME NEW A, NEW x \in Seq(A), NEW y \in Seq(A), NEW z \in Seq(A)
  PROVE  Associates(x, y, z)
BY ConcatAssociative, SMTT(30) DEF Associates

\* Receiving the one or two events that the relay writes is pushing them.
LEMMA ReceivedPushed ==
  ASSUME NEW s \in Seq(WireEvents), NEW events \in Seq(WireEvents), Len(events) <= 2
  PROVE  Received(s \o events) = Pushed(Received(s), events)
<1>1. PICK n \in Nat : n = Len(events)
  OBVIOUS
<1>2. CASE n = 0
  <2>1. events = <<>>
    BY <1>1, <1>2, EmptySeq
  <2>2. s \o events = s
    BY <2>1
  <2> QED
    BY <1>1, <1>2, <2>2 DEF Pushed
<1>3. CASE n = 1
  <2>0. 1 \in 1..Len(events)
    BY <1>1, <1>3
  <2>1. PICK e \in WireEvents : e = events[1]
    BY <2>0, ElementOfSeq
  <2>2. events = <<e>>
    <3>1. PICK one \in Seq(WireEvents) : one = <<e>>
      BY SingletonType
    <3>2. Len(one) = 1 /\ one[1] = e
      BY <3>1
    <3>3. \A i \in 1..1 : one[i] = events[i]
      BY <2>1, <3>2
    <3> QED
      BY <1>1, <1>3, <3>1, <3>2, <3>3, SeqEqual
  <2>3. s \o events = Append(s, e)
    BY <2>2, AppendIsConcat
  <2> QED
    BY <1>1, <1>3, <2>1, <2>3, ReceivedMore DEF Pushed
<1>4. CASE n = 2
  <2>0. 1 \in 1..Len(events) /\ 2 \in 1..Len(events)
    BY <1>1, <1>4
  <2>1. PICK e \in WireEvents : e = events[1]
    BY <2>0, ElementOfSeq
  <2>8. PICK f \in WireEvents : f = events[2]
    BY <2>0, ElementOfSeq
  <2>3. <<e>> \in Seq(WireEvents) /\ <<f>> \in Seq(WireEvents)
    BY SingletonType
  <2>2. events = <<e>> \o <<f>>
    <3>1. PICK one \in Seq(WireEvents) : one = <<e>>
      BY <2>3
    <3>2. PICK other \in Seq(WireEvents) : other = <<f>>
      BY <2>3
    <3>3. PICK u \in Seq(WireEvents) : u = one \o other
      BY ConcatProperties
    <3>4. Len(one) = 1 /\ one[1] = e /\ Len(other) = 1 /\ other[1] = f
      BY <3>1, <3>2
    <3>5. Concatenated(u, one, other)
      BY <3>3, ConcatPlaces
    <3>6. Len(u) = 2 /\ u[1] = e /\ u[2] = f
      <4>1. 1 \in 1..Len(one) /\ 1 \in 1..Len(other) /\ Len(one) + 1 = 2
        BY <3>4
      <4>2. u[1] = one[1] /\ u[Len(one) + 1] = other[1]
        BY <3>5, <4>1 DEF Concatenated
      <4>3. Len(u) = 2
        BY <3>4, <3>5 DEF Concatenated
      <4> QED
        BY <3>4, <4>1, <4>2, <4>3
    <3>7. \A i \in 1..2 : u[i] = events[i]
      BY <2>1, <2>8, <3>6
    <3>8. u = events
      BY <1>1, <1>4, <3>6, <3>7, SeqEqual
    <3> QED
      BY <3>1, <3>2, <3>3, <3>8
  <2>4. s \o events = (s \o <<e>>) \o <<f>>
    <3>1. Associates(s, <<e>>, <<f>>)
      BY <2>3, Associate
    <3> QED
      BY <2>2, <3>1 DEF Associates
  <2>5. PICK t \in Seq(WireEvents) : t = Append(s, e) /\ t = s \o <<e>>
    BY AppendIsConcat, AppendProperties
  <2>6. s \o events = Append(t, f)
    BY <2>4, <2>5, AppendIsConcat
  <2>7. Received(s \o events) = Push(Push(Received(s), e), f)
    BY <2>5, <2>6, ReceivedMore
  <2> QED
    BY <1>1, <1>4, <2>1, <2>7, <2>8 DEF Pushed
<1> QED
  BY <1>1, <1>2, <1>3, <1>4

\* So it does over four.
AssociatesTwice(s, c, w, t) == s \o ((c \o w) \o t) = ((s \o c) \o w) \o t

\* Four are grouped from the left or in the middle.
LEMMA ConcatTwice ==
  ASSUME NEW A, NEW s \in Seq(A), NEW c \in Seq(A), NEW w \in Seq(A), NEW t \in Seq(A)
  PROVE  AssociatesTwice(s, c, w, t)
<1>1. PICK z \in Seq(A) : z = c \o w
  BY ConcatProperties
<1>2. Associates(s, c, w) /\ Associates(s, z, t)
  BY Associate
<1> QED
  BY <1>1, <1>2 DEF Associates, AssociatesTwice

\* The relay writes at most an end and one more event for an event.
LEMMA RelayIsBrief ==
  ASSUME NEW r \in Relays, NEW e \in ProviderEvents
  PROVE  Len(RelayEvent(r, e).events) <= 2 /\ Len(CloseCall(r)) <= 1
<1>1. Len(CloseCall(r)) <= 1
  <2>1. \A x : Len(<<x>>) = 1
    OBVIOUS
  <2> QED
    BY <2>1, EmptySeq DEF CloseCall, When
<1>2. CASE e.kind = "start"
  <2>1. PICK start \in WireEvents : start = WireStart(e.id, e.name)
    BY <1>2, ProviderEventCases, WireEventTypes
  <2>2. RelayEvent(r, e).events = CloseCall(r) \o <<start>>
    BY <1>2, <2>1 DEF RelayEvent, RelayStart
  <2>3. PICK c \in Seq(WireEvents), one \in Seq(WireEvents) : c = CloseCall(r) /\ one = <<start>>
    BY CloseCallType, SingletonType
  <2>4. Len(one) = 1 /\ Len(c \o one) = Len(c) + Len(one)
    BY <2>3, ConcatProperties
  <2>5. PICK l \in Nat : l = Len(c)
    OBVIOUS
  <2> QED
    BY <1>1, <2>2, <2>3, <2>4, <2>5
<1>3. CASE e.kind \in {"text", "chunk", "err"}
  <2>1. PICK x : RelayEvent(r, e).events = <<x>>
    BY <1>3 DEF RelayEvent, RelayText, RelayChunk
  <2>2. Len(<<x>>) = 1
    OBVIOUS
  <2> QED
    BY <1>1, <2>1, <2>2
<1>4. CASE e.kind = "done"
  <2>1. RelayEvent(r, e).events = CloseCall(r) \/ RelayEvent(r, e).events = <<>>
    BY <1>4 DEF RelayEvent, RelayDone, When
  <2>2. PICK l \in Nat : l = Len(CloseCall(r))
    BY CloseCallType
  <2> QED
    BY <1>1, <2>1, <2>2, EmptySeq
<1> QED
  BY <1>1, <1>2, <1>3, <1>4, ProviderEventCases

\* The three are typed.
LEMMA ThreeType == TypeOK => Three \in States
BY ReceivedType DEF TypeOK, Three, States

\* Relaying an event feeds it to the three.
LEMMA RelayFeeds ==
  ASSUME TypeOK, RelayNext
  PROVE  Three' = Feed(Three, Head(yielded)) /\ yielded' = Tail(yielded)
<1>1. PICK e \in ProviderEvents : e = Head(yielded)
  BY HeadTailProperties DEF TypeOK, RelayNext
<1>2. /\ relay' = RelayEvent(relay, e).relay /\ sent' = sent \o RelayEvent(relay, e).events
      /\ local'.turn = Assemble(local.turn, e) /\ yielded' = Tail(yielded)
  BY <1>1 DEF RelayNext
<1>3. relay \in Relays /\ sent \in Seq(WireEvents)
  BY DEF TypeOK
<1>4. RelayEvent(relay, e).events \in Seq(WireEvents) /\ Len(RelayEvent(relay, e).events) <= 2
  BY <1>3, RelayEventType, RelayIsBrief DEF Relayed
<1>5. Received(sent') = Pushed(Received(sent), RelayEvent(relay, e).events)
  BY <1>2, <1>3, <1>4, ReceivedPushed
<1>6. Three' = [turn |-> local'.turn, relay |-> relay', client |-> Received(sent')]
  BY DEF Three
<1> QED
  BY <1>1, <1>2, <1>5, <1>6 DEF Three, Feed

\* At the end of the body, the relay's end closes what is in flight.
LEMMA CloseWireCloses ==
  ASSUME TypeOK, CloseWire, NEW D \in Seq(ToolDeltas), NEW tool, NEW ended,
         Keeping(Three, D, tool, ended)
  PROVE  Closed(D)'
<1>1. relay \in Relays /\ sent \in Seq(WireEvents) /\ local.turn \in Turns
  BY DEF TypeOK
<1>2. sent' = sent \o RelayEnd(relay) /\ local' = local
  BY DEF CloseWire
<1>3. PICK e \in ProviderEvents : e = Done(Some("stop"), None)
  BY SomeIsOption, NoneIsOption, ProviderEventTypes, WireProxyAssumption
<1>4. e.kind = "done" /\ IsSome(e.reason)
  BY <1>3, SomeValue DEF Done
<1>5. PICK s \in States : s = Three
  BY ThreeType
<1>6. PICK u \in States : u = Feed(s, e)
  BY FeedType
<1>7. Finishing(u, s)
  BY <1>4, <1>5, <1>6, FeedFinishes DEF Keeping
<1>8. CompletesWith(local.turn, D)
  BY <1>1, AssembledCalls DEF Keeping, Three
<1>9. u.client.pending = None /\ u.client.calls = CallsIn(D)
  BY <1>5, <1>7, <1>8 DEF Finishing, Flushed, CompletesWith, Three
<1>10. PICK c \in Seq(WireEvents) : c = CloseCall(relay) /\ Len(c) <= 1
  BY <1>1, <1>3, CloseCallType, RelayIsBrief
<1>11. u.client = Pushed(Received(sent), c)
  <2>1. RelayEvent(relay, e).events = c
    BY <1>4, <1>10 DEF RelayEvent, RelayDone, When
  <2> QED
    BY <1>5, <1>6, <2>1 DEF Feed, Three
<1>12. PICK usage \in WireEvents : IsSome(relay.usage) => usage = UsageReport(relay.usage)
  BY <1>1, WireEventTypes DEF Relays
<1>13. PICK stop \in WireEvents : stop = MessageStop(relay.finish)
  BY <1>1, WireEventTypes DEF Relays
<1>14. PICK w \in Seq(WireEvents) : w = When(IsSome(relay.usage), <<usage>>)
  BY WhenOneType
<1>15. PICK x \in Seq(WireEvents), y \in Seq(WireEvents) : x = sent \o c /\ y = x \o w
  BY <1>1, ConcatProperties
<1>16. sent' = Append(y, stop)
  <2>1. RelayEnd(relay) = (c \o w) \o <<stop>>
    BY <1>10, <1>12, <1>13, <1>14 DEF RelayEnd, When
  <2>2. PICK z \in Seq(WireEvents) : z = c \o w
    BY ConcatProperties
  <2>3. <<stop>> \in Seq(WireEvents)
    BY SingletonType
  <2>4. PICK s0 \in Seq(WireEvents) : s0 = sent
    BY <1>1
  <2>5. sent \o (z \o <<stop>>) = y \o <<stop>>
    <3>1. AssociatesTwice(s0, c, w, <<stop>>)
      BY <2>3, ConcatTwice
    <3> QED
      BY <1>15, <2>2, <2>4, <3>1 DEF AssociatesTwice
  <2>6. Append(y, stop) = y \o <<stop>>
    BY AppendIsConcat
  <2>7. sent' = sent \o (z \o <<stop>>)
    BY <1>2, <2>1, <2>2
  <2> QED
    BY <2>5, <2>6, <2>7
<1>17. Received(x) = u.client
  <2>1. PICK l \in Nat : l = Len(c)
    OBVIOUS
  <2>2. Len(c) <= 2
    BY <1>10, <2>1
  <2> QED
    BY <1>1, <1>11, <1>15, <2>2, ReceivedPushed
<1>18. PICK a \in Accumulators : a = u.client
  BY DEF States
<1>19. PICK b \in Accumulators : b = Received(y)
  BY ReceivedType
<1>20. b.pending = None /\ b.calls = CallsIn(D)
  <2>1. CASE IsSome(relay.usage)
    <3>1. w = <<usage>> /\ usage.type = "usage"
      BY <1>12, <1>14, <2>1 DEF When, UsageReport
    <3>2. y = Append(x, usage)
      BY <1>15, <3>1, AppendIsConcat
    <3>3. b = Push(a, usage)
      BY <1>17, <1>18, <1>19, <3>2, ReceivedMore
    <3>4. b = [a EXCEPT !.usage = MergeInto(@, usage.usage)]
      BY <3>1, <3>3 DEF Push
    <3> QED
      BY <1>9, <1>18, <3>4 DEF Accumulators
  <2>2. CASE ~ IsSome(relay.usage)
    <3>1. y = x
      BY <1>14, <1>15, <2>2 DEF When
    <3> QED
      BY <1>9, <1>17, <1>19, <3>1
  <2> QED
    BY <2>1, <2>2
<1>21. Received(sent') = Push(b, stop)
  BY <1>16, <1>19, ReceivedMore
<1>22. Push(b, stop).pending = None /\ Push(b, stop).calls = CallsIn(D)
  <2>1. Flush(b) = b
    BY <1>20, SomeValue DEF Flush
  <2>2. stop.type = "message_stop"
    BY <1>13 DEF MessageStop
  <2>3. Push(b, stop) = [b EXCEPT !.finish = Or(stop.reason, @), !.stopped = TRUE]
    BY <2>1, <2>2 DEF Push
  <2> QED
    BY <1>20, <2>3 DEF Accumulators
<1>23. TurnCalls(local'.turn) = CallsIn(D)
  BY <1>2, <1>8 DEF CompletesWith
<1> QED
  BY <1>21, <1>22, <1>23 DEF Closed

\* A state that holds the same calls keeps them.
LEMMA KeptKeeps ==
  ASSUME NEW s \in States, NEW u \in States, Kept(s, u), NEW D, NEW tool, NEW ended,
         Keeping(s, D, tool, ended)
  PROVE  Keeping(u, D, tool, ended)
<1>1. /\ Assembled(s.turn, D) => Assembled(u.turn, D)
      /\ Buffered(s) => Buffered(u)
      /\ Flushed(s) => Flushed(u)
  BY KeptAlike
<1>2. u.turn.open = s.turn.open
  BY DEF Kept
<1> QED
  BY <1>1, <1>2 DEF Keeping

\* There is nothing to deliver before the first poll.
LEMMA DeliveringInit == Init => Delivering
<1> SUFFICES ASSUME Init PROVE Delivers
  BY DEF Delivering
<1>1. TypeOK
  BY TypeInit
<1>2. PICK s \in States : s = Three
  BY <1>1, ThreeType
<1>3. s.turn = NewTurn /\ s.relay.pending = None /\ s.client = NewAccumulator
  BY <1>2, ReceivedNothing DEF Init, Three, Relay
<1>4. DeltasOf(provider, said) = <<>>
  <2>1. Len(said) = 0
    BY EmptySeq DEF Init
  <2>2. PICK x \in [1..0 -> Seq(ToolDeltas)] : x = PartsIn(provider, said)
    BY <1>1, <2>1, DeltasType DEF TypeOK
  <2>3. \A k \in 1..0 : x[k] = <<>>
    OBVIOUS
  <2>4. FlattenSeq(x) = <<>>
    BY <2>3, FlattenSeqOfEmpty
  <2> QED
    BY <2>2, <2>4 DEF DeltasOf
<1>5. s.turn.open = None /\ s.turn.args = <<>> /\ s.turn.calls = <<>>
  BY <1>3 DEF NewTurn
<1>6. Current(s.turn) = None
  BY <1>5, SomeValue DEF Current
<1>7. s.client.pending = None /\ s.client.calls = <<>>
  BY <1>3 DEF NewAccumulator
<1>8. Buffered(s)
  BY <1>3, <1>5, <1>6, <1>7 DEF Buffered
<1>9. \A tool, ended : Keeping(s, <<>>, tool, ended)
  BY <1>5, <1>8, SomeValue DEF Keeping, Assembled
<1>10. FedOne(s, Failure)
  BY ProviderEventTypes, AfterOne
<1>11. Remembers(provider, decoder, HasFinished(provider, said))
  BY SomeValue DEF Init, Remembers, Decoder
<1> QED
  BY <1>2, <1>4, <1>9, <1>10, <1>11 DEF Init, Delivers, FedOne

\* Opening the stream keeps the calls: there are none.
LEMMA OpenDelivers == ProxyInv /\ Delivers /\ Open => Delivers'
<1> SUFFICES ASSUME ProxyInv, Delivers, Open PROVE Delivers'
  OBVIOUS
<1>1. TypeOK /\ TypeOK'
  BY TypeStep DEF ProxyInv, Writing, Next, ServerStep
<1>2. PICK s \in States : s = Three
  BY <1>1, ThreeType
<1>3. PICK u \in States : u = Three'
  <2>1. Three' \in States
    BY <1>1, ReceivedType DEF TypeOK, Three, States
  <2> QED
    BY <2>1
<1>4. /\ yielded = <<>> /\ sent = <<>> /\ sent' = <<MessageStart>>
      /\ serving = "unpolled" /\ serving' = "relaying"
      /\ UNCHANGED <<provider, body, said, decoder, yielded, relay, local>>
  BY DEF Open, Delivers, ProxyInv, Writing, Unpolled
<1>5. PICK e \in WireEvents : e = MessageStart
  BY WireEventTypes
<1>6. u.client = Push(s.client, e)
  <2>1. PICK none \in Seq(WireEvents) : none = <<>>
    BY EmptySeq
  <2>2. Append(none, e) = sent'
    BY <1>4, <1>5, <2>1
  <2>3. Received(sent') = Push(Received(none), e)
    BY <2>2, ReceivedMore
  <2> QED
    BY <1>2, <1>3, <1>4, <2>1, <2>3 DEF Three
<1>7. s.client \in Accumulators
  BY DEF States
<1>8. Push(s.client, e) = [s.client EXCEPT !.model = TRUE]
  BY <1>5 DEF Push, MessageStart
<1>9. u.client.pending = s.client.pending /\ u.client.calls = s.client.calls
  BY <1>6, <1>7, <1>8 DEF Accumulators
<1>10. u.turn = s.turn /\ u.relay = s.relay
  BY <1>2, <1>3, <1>4 DEF Three
<1>11. Kept(s, u)
  BY <1>9, <1>10 DEF Kept
<1>12. FedOne(s, Failure) /\ FedOne(u, Failure)
  BY ProviderEventTypes, AfterOne
<1>13. PICK D, tool, ended : D = DeltasOf(provider, said) /\ tool = ToolOf(provider, decoder)
                             /\ ended = Ended
  OBVIOUS
<1>14. Keeping(s, D, tool, ended)
  BY <1>2, <1>4, <1>12, <1>13 DEF Delivers, FedOne
<1>15. Keeping(u, D, tool, ended)
  BY <1>11, <1>14, KeptKeeps
<1>16. D = DeltasOf(provider', said') /\ tool = ToolOf(provider', decoder') /\ ended = Ended'
  BY <1>4, <1>13 DEF Ended
<1>17. Keeping(After(Three', yielded'), D, tool, ended)
  BY <1>3, <1>4, <1>12, <1>15 DEF FedOne
<1> QED
  BY <1>4, <1>16, <1>17 DEF Delivers

\* A frame of an orderly body keeps the calls, with those of its deltas.
LEMMA FrameDelivers ==
  ASSUME ProxyInv, NEW frame \in Frames[provider], ReceiveFrame(frame),
         OrderlyIn(provider', said'), Delivers
  PROVE  Delivers'
<1>1. TypeOK
  BY DEF ProxyInv
<1>2. PICK s \in States : s = Three
  BY <1>1, ThreeType
<1>3. /\ serving = "relaying" /\ body = "open" /\ yielded = <<>>
      /\ said' = Append(said, frame)
      /\ decoder' = DecodeFrame(frame).decoder /\ yielded' = DecodeFrame(frame).events
      /\ UNCHANGED <<provider, body, relay, serving, sent, local>>
  BY DEF ReceiveFrame, Reading
<1>4. provider \in DOMAIN Frames /\ said \in Seq(Frames[provider])
  BY <1>1 DEF TypeOK
<1>5. PICK more : more = Append(said, frame)
  OBVIOUS
<1>6. more \in Seq(Frames[provider])
  BY <1>4, <1>5, AppendProperties
<1>7. OrderlyIn(provider, more)
  BY <1>3, <1>5
<1>8. Follows(provider, said, frame, more)
  BY <1>4, <1>5, <1>7, FramesFollow
<1>9. PICK D \in Seq(ToolDeltas) : D = DeltasOf(provider, said)
  BY <1>4, DeltasType
<1>10. PICK U \in Seq(ToolDeltas) : U = DeltasOf(provider, more)
  BY <1>4, <1>6, DeltasType
<1>11. PICK ended \in BOOLEAN : ended = HasFinished(provider, said)
  BY DEF HasFinished
<1>12. U = D \o PartsOf(provider, frame) /\ (U # <<>> => IsSome(U[1].id))
  BY <1>7, <1>8, <1>9, <1>10 DEF Follows, OrderlyIn
<1>13. /\ ended => PartsOf(provider, frame) = <<>>
       /\ provider = "openrouter" => frame.spaced
       /\ HasFinished(provider, more) <=> ended \/ FinishesIn(provider, frame)
  BY <1>8, <1>11 DEF Follows
<1>14. FedOne(s, Failure)
  BY ProviderEventTypes, AfterOne
<1>15. Ended = ended
  BY <1>3, <1>11 DEF Ended
<1>16. Keeping(s, D, ToolOf(provider, decoder), ended) /\ Remembers(provider, decoder, ended)
  BY <1>2, <1>3, <1>9, <1>11, <1>14, <1>15 DEF Delivers, FedOne
<1>17. PICK after \in BOOLEAN : after = (ended \/ FinishesIn(provider, frame))
  OBVIOUS
<1>18. /\ Keeping(After(s, DecodeFrame(frame).events), U,
                  ToolOf(provider, DecodeFrame(frame).decoder), after)
       /\ Remembers(provider, DecodeFrame(frame).decoder, after)
  BY <1>1, <1>12, <1>13, <1>16, <1>17, FrameKeeps
<1>19. HasFinished(provider, more) = after
  <2>1. HasFinished(provider, more) \in BOOLEAN
    BY DEF HasFinished
  <2> QED
    BY <1>13, <1>17, <2>1
<1>20. Three' = s
  BY <1>2, <1>3 DEF Three
<1>21. Ended' = after
  BY <1>3, <1>5, <1>19 DEF Ended
<1>22. Keeping(After(Three', yielded'), DeltasOf(provider', said'), ToolOf(provider', decoder'), Ended')
  BY <1>3, <1>5, <1>10, <1>18, <1>20, <1>21
<1>23. Remembers(provider', decoder', HasFinished(provider', said'))
  BY <1>3, <1>5, <1>18, <1>19
<1> QED
  BY <1>3, <1>22, <1>23 DEF Delivers

\* The end of the body keeps the calls, and allows for their end.
LEMMA EndDelivers == ProxyInv /\ Delivers /\ (BreakBody \/ EndBody) => Delivers'
<1> SUFFICES ASSUME ProxyInv, Delivers, BreakBody \/ EndBody PROVE Delivers'
  OBVIOUS
<1>1. TypeOK
  BY DEF ProxyInv
<1>2. PICK s \in States : s = Three
  BY <1>1, ThreeType
<1>3. /\ serving = "relaying" /\ body = "open" /\ yielded = <<>> /\ body' # "open"
      /\ UNCHANGED <<provider, said, decoder, relay, serving, sent, local>>
  BY DEF BreakBody, EndBody, Reading
<1>4. FedOne(s, Failure)
  BY ProviderEventTypes, AfterOne
<1>5. PICK D, tool, ended : D = DeltasOf(provider, said) /\ tool = ToolOf(provider, decoder)
                            /\ ended = Ended
  OBVIOUS
<1>6. Keeping(s, D, tool, ended)
  BY <1>2, <1>3, <1>4, <1>5 DEF Delivers, FedOne
<1>7. \E c, e : /\ yielded' = When(c, <<e>>)
                /\ c => e \in ProviderEvents /\ e.kind \in {"text", "done", "err"}
  <2>1. CASE BreakBody
    <3>1. yielded' = When(TRUE, <<Failure>>)
      BY <2>1 DEF BreakBody, When
    <3>2. Failure \in ProviderEvents /\ Failure.kind = "err"
      BY ProviderEventTypes DEF Failure
    <3> QED
      BY <3>1, <3>2
  <2>2. CASE EndBody /\ provider = "anthropic"
    <3>1. yielded' = When(FALSE, <<Failure>>)
      BY <2>2 DEF EndBody, When
    <3> QED
      BY <3>1
  <2>3. CASE EndBody /\ provider # "anthropic"
    <3>1. decoder.usage \in Option(Usage)
      BY <1>1, <2>3 DEF TypeOK, Decoders
    <3>2. Some("stop") \in Option(Strings)
      BY SomeIsOption, WireProxyAssumption
    <3>3. PICK e \in ProviderEvents : e = Done(Some("stop"), decoder.usage)
      BY <3>1, <3>2, ProviderEventTypes
    <3>4. PICK c : c = (~ IsSome(decoder.finish) /\ IsSome(decoder.usage))
      OBVIOUS
    <3>5. yielded' = When(c, <<e>>)
      BY <2>3, <3>3, <3>4 DEF EndBody, DecodeEnd
    <3>6. e.kind = "done"
      BY <3>3 DEF Done
    <3> QED
      BY <3>5, <3>6
  <2> QED
    BY <2>1, <2>2, <2>3
<1>8. PICK c, e : /\ yielded' = When(c, <<e>>)
                  /\ c => e \in ProviderEvents /\ e.kind \in {"text", "done", "err"}
  BY <1>7
<1>9. Keeping(After(s, When(c, <<e>>)), D, tool, TRUE)
  BY <1>6, <1>8, WhenKeepsOn
<1>10. /\ D = DeltasOf(provider', said') /\ tool = ToolOf(provider', decoder')
       /\ Ended' = TRUE /\ Three' = s
  BY <1>2, <1>3, <1>5 DEF Ended, Three
<1>11. Keeping(After(Three', yielded'), DeltasOf(provider', said'), ToolOf(provider', decoder'), Ended')
  BY <1>8, <1>9, <1>10
<1> QED
  BY <1>3, <1>11 DEF Delivers

\* Relaying the next event takes it to the three.
LEMMA RelayDelivers == ProxyInv /\ Delivers /\ RelayNext => Delivers'
<1> SUFFICES ASSUME ProxyInv, Delivers, RelayNext PROVE Delivers'
  OBVIOUS
<1>1. TypeOK
  BY DEF ProxyInv
<1>2. /\ serving = "relaying" /\ yielded # <<>> /\ yielded \in Seq(ProviderEvents)
      /\ UNCHANGED <<provider, body, said, decoder>>
      /\ serving' = IF Head(yielded).kind = "err" THEN "over" ELSE serving
      /\ local'.failed = (Head(yielded).kind = "err")
  BY <1>1 DEF RelayNext, TypeOK
<1>3. Three' = Feed(Three, Head(yielded)) /\ yielded' = Tail(yielded)
  BY <1>1, RelayFeeds
<1>4. After(Three, yielded) = After(Feed(Three, Head(yielded)), Tail(yielded))
  BY <1>1, <1>2, ThreeType, AfterHead
<1>5. After(Three', yielded') = After(Three, yielded)
  BY <1>3, <1>4
<1>6. Ended' = Ended
  BY <1>2 DEF Ended
<1>7. serving' = "over" => local'.failed
  BY <1>2
<1> QED
  BY <1>2, <1>5, <1>6, <1>7 DEF Delivers

\* The end of the stream closes what is in flight.
LEMMA CloseDelivers == ProxyInv /\ Delivers /\ CloseWire => Delivers'
<1> SUFFICES ASSUME ProxyInv, Delivers, CloseWire PROVE Delivers'
  OBVIOUS
<1>1. TypeOK
  BY DEF ProxyInv
<1>2. PICK s \in States : s = Three
  BY <1>1, ThreeType
<1>3. /\ serving = "relaying" /\ yielded = <<>> /\ serving' = "over"
      /\ UNCHANGED <<provider, body, said, decoder>>
  BY DEF CloseWire
<1>4. FedOne(s, Failure)
  BY ProviderEventTypes, AfterOne
<1>5. PICK D \in Seq(ToolDeltas) : D = DeltasOf(provider, said)
  BY <1>1, DeltasType DEF TypeOK
<1>6. PICK tool, ended : tool = ToolOf(provider, decoder) /\ ended = Ended
  OBVIOUS
<1>7. Keeping(Three, D, tool, ended)
  BY <1>2, <1>3, <1>4, <1>5, <1>6 DEF Delivers, FedOne
<1>8. Closed(D)'
  BY <1>1, <1>7, CloseWireCloses
<1>9. Closed(DeltasOf(provider, said))'
  BY <1>3, <1>5, <1>8 DEF Closed
<1> QED
  BY <1>3, <1>9 DEF Delivers

\* Every step keeps up the delivery.
LEMMA DeliveringStep == ProxyInv /\ Delivering /\ [Next]_vars => Delivering'
<1> SUFFICES ASSUME ProxyInv, Delivering, [Next]_vars, OrderlyIn(provider', said')
             PROVE  Delivers'
  BY DEF Delivering
<1>1. CASE UNCHANGED <<provider, said>>
  <2>1. Delivers
    BY <1>1 DEF Delivering
  <2>2. CASE /\ UNCHANGED <<body, decoder, yielded, relay, sent, local>>
             /\ serving' = serving \/ (serving \notin {"unpolled", "over"} /\ serving' = "dropped")
    <3>1. Three' = Three /\ Ended' = Ended
      BY <1>1, <2>2 DEF Three, Ended
    <3>2. Closed(DeltasOf(provider, said)) => Closed(DeltasOf(provider, said))'
      BY <1>1, <2>2 DEF Closed
    <3> QED
      BY <1>1, <2>1, <2>2, <3>1, <3>2 DEF Delivers
  <2>3. CASE UNCHANGED vars \/ CutLink \/ ClientStep
    BY <2>2, <2>3 DEF vars, server, CutLink, ClientStep, ClientReceives, ClientFinishes
  <2>4. CASE Open
    BY <2>1, <2>4, OpenDelivers
  <2>5. CASE BreakBody \/ EndBody
    BY <2>1, <2>5, EndDelivers
  <2>6. CASE RelayNext
    BY <2>1, <2>6, RelayDelivers
  <2>7. CASE CloseWire
    BY <2>1, <2>7, CloseDelivers
  <2>8. ASSUME NEW frame \in Frames[provider], ReceiveFrame(frame) PROVE FALSE
    <3>1. PICK n \in Nat : n = Len(said)
      BY DEF ProxyInv, TypeOK
    <3>2. Len(said') = n + 1
      BY <2>8, <3>1, AppendProperties DEF ReceiveFrame, ProxyInv, TypeOK
    <3> QED
      BY <1>1, <3>1, <3>2
  <2> QED
    BY <2>3, <2>4, <2>5, <2>6, <2>7, <2>8 DEF Next, ServerStep
<1>2. ASSUME NEW frame \in Frames[provider], ReceiveFrame(frame) PROVE Delivers'
  <2>1. provider \in DOMAIN Frames /\ said \in Seq(Frames[provider])
    BY DEF ProxyInv, TypeOK
  <2>2. PICK more : more = Append(said, frame)
    OBVIOUS
  <2>3. OrderlyIn(provider, more)
    BY <1>2, <2>2 DEF ReceiveFrame
  <2>4. OrderlyIn(provider, said)
    BY <2>1, <2>2, <2>3, FramesFollow DEF Follows
  <2> QED
    BY <1>2, <2>4, FrameDelivers DEF Delivering
<1>3. CASE ~ \E frame \in Frames[provider] : ReceiveFrame(frame)
  BY <1>1, <1>3
  DEF Next, ServerStep, vars, server, Open, BreakBody, EndBody, RelayNext, CloseWire, CutLink,
      ClientStep, ClientReceives, ClientFinishes
<1> QED
  BY <1>2, <1>3

\* From an orderly provider, the response that the client completes and the local turn
\* hold the calls it made, each once, in order, with all of its arguments, however
\* the arguments were cut into deltas and the deltas into frames.
THEOREM CallsReachTheClient == Spec => []CallsDelivered
<1>1. Init => ProxyInv /\ Delivering
  BY ProxyInit, DeliveringInit
<1>2. ProxyInv /\ Delivering /\ [Next]_vars => (ProxyInv /\ Delivering)'
  BY ProxyStep, DeliveringStep
<1>3. ProxyInv /\ Delivering => CallsDelivered
  <2> SUFFICES ASSUME ProxyInv, Delivering, outcome = "ok", Orderly
               PROVE  /\ Response(acc).calls = CallsIn(Deltas)
                      /\ TurnCalls(local.turn) = CallsIn(Deltas)
    BY DEF CallsDelivered
  <2>1. acc.stopped /\ ~ acc.failed
    BY DEF ProxyInv, Receiving, Complete
  <2>2. taken = Len(sent) /\ serving = "over"
    BY <2>1 DEF ProxyInv, Receiving
  <2>3. ~ local.failed
    BY <2>1, <2>2, WholeIsRebuilt DEF Rebuilt
  <2>4. Closed(Deltas)
    BY <2>2, <2>3, BodyOf DEF Delivering, Delivers
  <2>5. acc = Received(sent)
    BY <2>2, SubSeqFull DEF ProxyInv, TypeOK, Receiving
  <2>6. Flush(acc) = acc
    BY <2>4, <2>5, SomeValue DEF Closed, Flush
  <2>7. Response(acc).calls = acc.calls
    BY <2>6 DEF Response
  <2> QED
    BY <2>4, <2>5, <2>7 DEF Closed
<1> QED
  BY <1>1, <1>2, <1>3, PTL DEF Spec

=============================================================================
