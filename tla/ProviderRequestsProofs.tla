----------------------- MODULE ProviderRequestsProofs -----------------------
(***************************************************************************)
(* What ProviderRequests' requests say and cache, for every conversation.  *)
(***************************************************************************)
EXTENDS ProviderRequests, RecursionLemmas, FiniteSetTheorems

\* One block speaks unless it is an empty text.
LEMMA SpokenOne ==
  ASSUME NEW b
  PROVE  Spoken(<<b>>) = IF b = TextBlock(<<>>) THEN <<>> ELSE <<b>>
<1> DEFINE I == {i \in 1..Len(<<b>>) : <<b>>[i] # TextBlock(<<>>)}
<1>1. <<b>> \in Seq({b}) /\ Len(<<b>>) = 1 /\ <<b>>[1] = b
  OBVIOUS
<1>2. Spoken(<<b>>) = Selection(<<b>>, I)
  BY DEF Spoken
<1>3. CASE b = TextBlock(<<>>)
  <2>1. \A i \in 1..1 : i \notin I
    BY <1>1, <1>3
  <2> HIDE DEF I
  <2>2. /\ Picked(<<b>>, I) \in [1..1 -> Seq({b})]
        /\ Selection(<<b>>, I) = FlattenSeq(Picked(<<b>>, I))
    BY <1>1, PickedType
  <2>3. \A i \in 1..1 : Picked(<<b>>, I)[i] = <<>>
    BY <1>1, <2>1 DEF Picked
  <2>4. FlattenSeq(Picked(<<b>>, I)) = <<>>
    BY <2>2, <2>3, FlattenSeqOfEmpty
  <2> QED
    BY <1>2, <1>3, <2>2, <2>4
<1>4. CASE b # TextBlock(<<>>)
  <2>1. 1..Len(<<b>>) \subseteq I
    BY <1>1, <1>4
  <2> HIDE DEF I
  <2> QED
    BY <1>1, <1>2, <1>4, <2>1, SelectionOfAll
<1> QED
  BY <1>3, <1>4

\* What a message says, without blocks.
TextParts(t) == IF t = <<>> THEN <<>> ELSE <<TextBlock(t)>>

\* A block of text is spoken unless it is empty.
LEMMA TextPartsSpoken ==
  ASSUME NEW t
  PROVE  Spoken(<<TextBlock(t)>>) = TextParts(t)
<1>1. TextBlock(t) = TextBlock(<<>>) <=> t = <<>>
  BY DEF TextBlock
<1>2. Spoken(<<TextBlock(t)>>) = IF TextBlock(t) = TextBlock(<<>>) THEN <<>> ELSE <<TextBlock(t)>>
  BY SpokenOne
<1> QED
  BY <1>1, <1>2 DEF TextParts

Says(u, speaker, parts, calls, answers) ==
  u = [speaker |-> speaker, parts |-> parts, calls |-> calls, answers |-> answers]

\* What a message is made of.
LEMMA ConstructedFields ==
  ASSUME NEW m \in Constructed
  PROVE  /\ m.role \in {"system", "user", "assistant", "tool"}
         /\ m.content \in Seq(STRING) /\ m.blocks \in Seq(ContentBlock)
         /\ m.calls \in Seq(ToolCalls) /\ m.answers \in Option(STRING)
         /\ Consistent(m)
BY DEF Constructed

\* A message without blocks says its text.
LEMMA PlainUtterance ==
  ASSUME NEW m, m.blocks = <<>>
  PROVE  Says(Utterance(m), m.role, TextParts(m.content), m.calls, m.answers)
<1>1. ~ IsMultimodal(m)
  BY DEF IsMultimodal
<1> QED
  BY <1>1, TextPartsSpoken DEF Utterance, Says

\* The messages a reply and its tools make are consistent, and say this.
LEMMA AssistantUtterance ==
  ASSUME NEW t \in Seq(STRING), NEW calls \in Seq(ToolCalls)
  PROVE  /\ AssistantWithToolCalls(t, calls) \in Constructed
         /\ Says(Utterance(AssistantWithToolCalls(t, calls)), "assistant", TextParts(t), calls, None)
<1>1. PICK m : m = AssistantWithToolCalls(t, calls)
  OBVIOUS
<1>2. m = [role |-> "assistant", content |-> t, blocks |-> <<>>, calls |-> calls,
           answers |-> None, failed |-> FALSE]
  BY <1>1 DEF AssistantWithToolCalls, Message
<1>3. /\ m.role = "assistant" /\ m.content = t /\ m.blocks = <<>> /\ m.calls = calls
      /\ m.answers = None /\ m.failed = FALSE
  BY <1>2
<1>4. m \in Constructed
  <2>1. Consistent(m)
    BY <1>3 DEF Consistent, IsSome
  <2>2. None \in Option(STRING) /\ <<>> \in Seq(ContentBlock)
    BY DEF None, Option
  <2> QED
    BY <1>2, <2>1, <2>2 DEF Constructed
<1> QED
  BY <1>1, <1>3, <1>4, PlainUtterance

\* What answers a tool call is a message the constructors make.
LEMMA AnswersConstructed ==
  ASSUME NEW call \in ToolCalls
  PROVE  /\ ToolResult(<<"done">>, call.id) \in Constructed
         /\ ToolError(<<"failed">>, call.id) \in Constructed
<1>1. call.id \in STRING
  BY DEF ToolCalls
<1>2. Some(call.id) \in Option(STRING) /\ IsSome(Some(call.id))
  BY <1>1 DEF Some, Option, IsSome, None
<1>3. /\ <<"done">> \in Seq(STRING) /\ <<"failed">> \in Seq(STRING)
      /\ <<>> \in Seq(ContentBlock) /\ <<>> \in Seq(ToolCalls)
  <2>1. "done" \in STRING /\ "failed" \in STRING
    BY ProviderRequestsAssumption
  <2>2. \A S : \A x \in S : <<x>> \in Seq(S)
    OBVIOUS
  <2>3. \A S : <<>> \in Seq(S)
    OBVIOUS
  <2> QED
    BY <2>1, <2>2, <2>3
<1>4. ASSUME NEW t \in Seq(STRING), NEW f \in BOOLEAN
      PROVE  [role |-> "tool", content |-> t, blocks |-> <<>>, calls |-> <<>>,
              answers |-> Some(call.id), failed |-> f] \in Constructed
  BY <1>2, <1>3 DEF Constructed, Consistent
<1>5. ASSUME NEW t \in Seq(STRING)
      PROVE  ToolResult(t, call.id) \in Constructed /\ ToolError(t, call.id) \in Constructed
  <2>1. PICK a : a = Some(call.id)
    OBVIOUS
  <2>2. PICK m : m = ToolResult(t, call.id)
    OBVIOUS
  <2>3. m = [role |-> "tool", content |-> t, blocks |-> <<>>, calls |-> <<>>,
             answers |-> a, failed |-> FALSE]
    BY <2>1, <2>2 DEF ToolResult, Message
  <2>4. PICK e : e = ToolError(t, call.id)
    OBVIOUS
  <2>5. e = [m EXCEPT !.failed = TRUE]
    BY <2>2, <2>4 DEF ToolError
  <2>6. e = [role |-> "tool", content |-> t, blocks |-> <<>>, calls |-> <<>>,
             answers |-> a, failed |-> TRUE]
    BY <2>3, <2>5
  <2> QED
    BY <1>4, <2>1, <2>2, <2>3, <2>4, <2>6
<1> QED
  BY <1>3, <1>5

\* A Chat Completions reply says what its message does.
LEMMA ChatReply ==
  ASSUME NEW body \in Seq(ChatChoice), ParsesAsChat(body)
  PROVE  ParseChat(body) \in Constructed /\ SaidByChat(body) = Utterance(ParseChat(body))
<1>1. body[1] \in ChatChoice
  BY DEF ParsesAsChat
<1>2. PICK content, calls : content = body[1].content /\ calls = body[1].calls
  OBVIOUS
<1>3. content \in Option(Seq(STRING)) /\ calls \in Seq(ToolCalls)
  BY <1>1, <1>2 DEF ChatChoice
<1>4. PICK t : t = OrDefault(content, <<>>)
  OBVIOUS
<1>5. /\ t \in Seq(STRING)
      /\ content \in {None, Some(<<>>)} <=> t = <<>>
      /\ content # None => t = content[1]
  <2>1. CASE content = <<>>
    BY <1>4, <2>1 DEF OrDefault, IsSome, None
  <2>2. CASE content # <<>>
    <3>a. content \in Seq(Seq(STRING)) /\ Len(content) <= 1
      BY <1>3 DEF Option
    <3>b. content # <<>> => Len(content) \in Nat \ {0}
      BY <3>a, EmptySeq
    <3>c. PICK l : l = Len(content)
      OBVIOUS
    <3>d. l \in Nat \ {0} /\ l <= 1
      BY <2>2, <3>a, <3>b, <3>c
    <3>1. content \in Seq(Seq(STRING)) /\ Len(content) = 1
      BY <3>a, <3>c, <3>d
    <3>2. t = content[1] /\ content[1] \in Seq(STRING)
      BY <1>4, <2>2, <3>1 DEF OrDefault, IsSome, None
    <3>3. content = <<content[1]>>
      BY <3>1
    <3> QED
      BY <2>2, <3>2, <3>3 DEF None, Some
  <2> QED
    BY <2>1, <2>2
<1>6. ParseChat(body) = AssistantWithToolCalls(t, calls)
  BY <1>2, <1>4 DEF ParseChat
<1>7. Says(SaidByChat(body), "assistant", TextParts(t), calls, None)
  <2>1. CASE t = <<>>
    BY <1>2, <1>5, <2>1 DEF SaidByChat, Says, TextParts
  <2>2. CASE t # <<>>
    <3>1. content \notin {None, Some(<<>>)} /\ t = content[1]
      BY <1>5, <2>2
    <3> QED
      BY <1>2, <2>2, <3>1 DEF SaidByChat, Says, TextParts
  <2> QED
    BY <2>1, <2>2
<1> QED
  BY <1>3, <1>5, <1>6, <1>7, AssistantUtterance DEF Says

\* What an Anthropic block says, and calls.
TextOf(b) == IF b.type = "text" THEN OrDefault(b.text, <<>>) ELSE <<>>
IsText(b) == b.type = "text" /\ b.text \notin {None, Some(<<>>)}
UseOf(b) == ToolCall(b.id[1], b.name[1], IF b.input = None THEN "null" ELSE b.input[1])
IsUse(b) == b.type = "tool_use" /\ None \notin {b.id, b.name}
CallOf(b) == IF IsUse(b) THEN <<UseOf(b)>> ELSE <<>>

\* An option that is not None holds a value.
LEMMA OptionOpens ==
  ASSUME NEW T, NEW o \in Option(T), o # None
  PROVE  o[1] \in T /\ o = Some(o[1])
<1>1. o \in Seq(T) /\ Len(o) <= 1 /\ o # <<>>
  BY DEF Option, None
<1>2. Len(o) \in Nat \ {0}
  BY <1>1, EmptySeq
<1>3. PICK l : l = Len(o)
  OBVIOUS
<1>4. l = 1
  BY <1>1, <1>2, <1>3
<1> QED
  <2>a. o \in Seq(T) /\ Len(o) = 1
    BY <1>1, <1>3, <1>4
  <2>b. o[1] \in T
    BY <2>a
  <2>1. o[1] \in T /\ o = <<o[1]>>
    BY <2>a, <2>b
  <2> QED
    BY <2>1 DEF Some

BlockSays(b) ==
  /\ TextOf(b) \in Seq(STRING)
  /\ IsText(b) => TextOf(b) = b.text[1] /\ TextOf(b) # <<>>
  /\ ~ IsText(b) => TextOf(b) = <<>>
  /\ IsUse(b) => UseOf(b) \in ToolCalls

\* A block of a response says what its type and its fields admit.
LEMMA BlockTyped ==
  ASSUME NEW b \in ResponseContentBlock
  PROVE  BlockSays(b)
<1>1. CASE b \in [type : {"text"}, text : Option(Seq(STRING))]
  <2>1. b.type = "text" /\ b.text \in Option(Seq(STRING)) /\ ~ IsUse(b)
    BY <1>1 DEF IsUse
  <2>2. CASE b.text = None
    BY <2>1, <2>2 DEF TextOf, IsText, OrDefault, IsSome, BlockSays
  <2>3. CASE b.text # None
    <3>1. PICK t \in Seq(STRING) : t = b.text[1] /\ b.text = Some(t)
      BY <2>1, <2>3, OptionOpens
    <3>2. TextOf(b) = t
      BY <2>1, <2>3, <3>1 DEF TextOf, OrDefault, IsSome
    <3>3. IsText(b) <=> t # <<>>
      BY <2>1, <2>3, <3>1 DEF IsText, Some
    <3> QED
      BY <2>1, <3>1, <3>2, <3>3 DEF BlockSays
  <2> QED
    BY <2>2, <2>3
<1>2. CASE b \in [type : {"tool_use"}, id : Option(STRING), name : Option(STRING), input : Option(STRING)]
  <2>1. /\ b.type = "tool_use" /\ ~ IsText(b) /\ TextOf(b) = <<>>
        /\ b.id \in Option(STRING) /\ b.name \in Option(STRING) /\ b.input \in Option(STRING)
    BY <1>2 DEF IsText, TextOf
  <2>2. PICK i : i = IF b.input = None THEN "null" ELSE b.input[1]
    OBVIOUS
  <2>3. i \in STRING
    BY <2>1, <2>2, OptionOpens, ProviderRequestsAssumption
  <2>4. ASSUME IsUse(b) PROVE UseOf(b) \in ToolCalls
    <3>1. b.id[1] \in STRING /\ b.name[1] \in STRING
      BY <2>1, <2>4, OptionOpens DEF IsUse
    <3> QED
      BY <2>2, <2>3, <3>1 DEF UseOf, ToolCall, ToolCalls
  <2> QED
    BY <2>1, <2>4 DEF BlockSays
<1>3. CASE b = ResponseOther
  <2>1. b.type = "thinking"
    BY <1>3 DEF ResponseOther
  <2> QED
    BY <2>1 DEF IsText, IsUse, TextOf, BlockSays
<1> QED
  BY <1>1, <1>2, <1>3 DEF ResponseContentBlock

\* The calls that parse_response collects are those the body makes.
LEMMA AnthropicCalls ==
  ASSUME NEW body \in Seq(ResponseContentBlock),
         NEW uses, uses = Selection(body, {i \in 1..Len(body) : IsUse(body[i])}),
         NEW calls, calls = FlattenSeq([i \in 1..Len(body) |-> CallOf(body[i])])
  PROVE  calls \in Seq(ToolCalls) /\ calls = [i \in 1..Len(uses) |-> UseOf(uses[i])]
<1>1. PICK n \in Nat : n = Len(body)
  OBVIOUS
<1>2. \A i \in 1..n : body[i] \in ResponseContentBlock /\ BlockSays(body[i])
  BY <1>1, BlockTyped
<1>3. PICK I : I = {i \in 1..n : IsUse(body[i])}
  OBVIOUS
<1>4. PICK u : u = [i \in 1..n |-> CallOf(body[i])]
  OBVIOUS
<1>5. PICK v : v = Picked(body, I)
  OBVIOUS
<1>6. u \in [1..n -> Seq(ToolCalls)]
  <2>1. ASSUME NEW i \in 1..n PROVE CallOf(body[i]) \in Seq(ToolCalls)
    BY <1>2 DEF CallOf, BlockSays
  <2> QED
    BY <1>4, <2>1
<1>7. v \in [1..n -> Seq(ResponseContentBlock)] /\ uses = FlattenSeq(v)
  BY <1>1, <1>3, <1>5, PickedType
<1>8. ASSUME NEW i \in 1..n
      PROVE  /\ Len(u[i]) = (IF i \in I THEN 1 ELSE 0) /\ Len(v[i]) = (IF i \in I THEN 1 ELSE 0)
             /\ i \in I => u[i][1] = UseOf(body[i]) /\ v[i][1] = body[i]
  <2>1. CASE i \in I
    <3>1. IsUse(body[i])
      BY <1>3, <2>1
    <3>2. u[i] = <<UseOf(body[i])>> /\ v[i] = <<body[i]>>
      BY <1>1, <1>4, <1>5, <2>1, <3>1 DEF CallOf, Picked
    <3> QED
      BY <2>1, <3>2
  <2>2. CASE i \notin I
    <3>1. ~ IsUse(body[i])
      BY <1>3, <2>2
    <3>2. u[i] = <<>> /\ v[i] = <<>>
      BY <1>1, <1>4, <1>5, <2>2, <3>1 DEF CallOf, Picked
    <3> QED
      BY <2>2, <3>2
  <2> QED
    BY <2>1, <2>2
<1>9. SameLengths(u, v, n)
  BY <1>8 DEF SameLengths
<1>10. FlattenSeq(u) \in Seq(ToolCalls) /\ FlatAlike(FlattenSeq(u), FlattenSeq(v), u, v, n)
  BY <1>6, <1>7, <1>9, FlattenSeqAlike
<1>11. calls = FlattenSeq(u)
  BY <1>1, <1>4
<1>12. calls \in Seq(ToolCalls) /\ FlatAlike(calls, uses, u, v, n)
  BY <1>7, <1>10, <1>11
<1>13. ASSUME NEW k \in 1..Len(calls) PROVE calls[k] = UseOf(uses[k])
  <2>1. PICK i \in 1..n : \E j \in 1..Len(u[i]) : calls[k] = u[i][j] /\ uses[k] = v[i][j]
    BY <1>12 DEF FlatAlike
  <2>2. PICK j \in 1..Len(u[i]) : calls[k] = u[i][j] /\ uses[k] = v[i][j]
    BY <2>1
  <2>3. i \in I /\ j = 1
    <3>1. Len(u[i]) = IF i \in I THEN 1 ELSE 0
      BY <1>8
    <3> QED
      BY <2>2, <3>1
  <2> QED
    BY <1>8, <2>2, <2>3
<1>14. Len(uses) = Len(calls)
  BY <1>12 DEF FlatAlike
<1>a. PICK l : l = Len(calls)
  OBVIOUS
<1>15. l = Len(calls) /\ l = Len(uses) /\ calls \in [1..l -> ToolCalls]
  BY <1>12, <1>14, <1>a, LenProperties
<1>16. calls = [i \in 1..l |-> UseOf(uses[i])]
  BY <1>13, <1>15
<1> QED
  BY <1>12, <1>15, <1>16

\* The text it joins is that of the blocks that have one.
LEMMA AnthropicText ==
  ASSUME NEW body \in Seq(ResponseContentBlock),
         NEW texts, texts = Selection(body, {i \in 1..Len(body) : IsText(body[i])}),
         NEW text, text = FlattenSeq([i \in 1..Len(body) |-> TextOf(body[i])]),
         NEW whole, whole = FlattenSeq([i \in 1..Len(texts) |-> texts[i].text[1]])
  PROVE  text \in Seq(STRING) /\ text = whole /\ (text = <<>> <=> texts = <<>>)
<1>1. PICK n \in Nat : n = Len(body)
  OBVIOUS
<1>2. \A i \in 1..n : body[i] \in ResponseContentBlock /\ BlockSays(body[i])
  BY <1>1, BlockTyped
<1>3. PICK I : I = {i \in 1..n : IsText(body[i])}
  OBVIOUS
<1>4. PICK u : u = [i \in 1..n |-> TextOf(body[i])]
  OBVIOUS
<1>5. u \in [1..n -> Seq(STRING)] /\ u \in Seq(Seq(STRING)) /\ Len(u) = n
  <2>1. \A i \in 1..n : TextOf(body[i]) \in Seq(STRING)
    BY <1>2 DEF BlockSays
  <2>2. u \in [1..n -> Seq(STRING)]
    BY <1>4, <2>1
  <2> QED
    BY <2>2, SequenceLength
<1>6. text = FlattenSeq(u)
  BY <1>1, <1>4
<1>7. text \in Seq(STRING)
  BY <1>5, <1>6, FlattenSeqType
<1>8. EmptyOutside(u, I, n)
  BY <1>2, <1>3, <1>4 DEF BlockSays, EmptyOutside
<1>9. Skipped(u, I)
  BY <1>5, <1>8, FlattenSeqSkips
<1>10. PICK w : w = Selection(u, I)
  OBVIOUS
<1>11. w \in Seq(Seq(STRING)) /\ AlikeIn(w, texts, u, body, I)
  <2>1. PICK S : S = Seq(STRING)
    OBVIOUS
  <2>2. u \in Seq(S) /\ Len(u) = Len(body)
    BY <1>1, <1>5, <2>1
  <2>3. Selection(u, I) \in Seq(S) /\ Alike(u, body, I)
    BY <2>2, SelectionAlike
  <2>4. texts = Selection(body, I)
    BY <1>1, <1>3
  <2> QED
    BY <1>10, <2>1, <2>3, <2>4 DEF Alike
<1>12. Len(w) = Len(texts)
  BY <1>11 DEF AlikeIn
<1>13. ASSUME NEW k \in 1..Len(w) PROVE w[k] = texts[k].text[1] /\ w[k] # <<>>
  <2>1. PICK i \in I \cap 1..Len(u) : w[k] = u[i] /\ texts[k] = body[i]
    BY <1>11 DEF AlikeIn
  <2>2. i \in 1..n /\ IsText(body[i])
    BY <1>3, <2>1
  <2>3. u[i] = TextOf(body[i]) /\ TextOf(body[i]) = body[i].text[1] /\ TextOf(body[i]) # <<>>
    BY <1>2, <1>4, <2>2 DEF BlockSays
  <2> QED
    BY <2>1, <2>3
<1>c. PICK m : m = Len(w)
  OBVIOUS
<1>d. m \in Nat /\ w \in [1..m -> Seq(STRING)]
  <2>1. PICK S : S = Seq(STRING)
    OBVIOUS
  <2> QED
    BY <1>11, <1>c, <2>1, LenProperties
<1>a. m \in Nat /\ m = Len(w) /\ m = Len(texts) /\ w \in [1..m -> Seq(STRING)]
  BY <1>12, <1>c, <1>d
<1>b. w = [i \in 1..m |-> texts[i].text[1]]
  BY <1>13, <1>a
<1>14. w = [i \in 1..Len(texts) |-> texts[i].text[1]]
  BY <1>a, <1>b
<1>15. text = FlattenSeq(w) /\ whole = FlattenSeq(w)
  BY <1>6, <1>9, <1>10, <1>14 DEF Skipped
<1>16. CASE texts = <<>>
  <2>1. Len(texts) = 0
    BY <1>16
  <2>2. w = <<>>
    BY <1>11, <1>12, <2>1, EmptySeq
  <2> QED
    BY <1>7, <1>15, <1>16, <2>2, FlattenSeqEmpty
<1>17. CASE texts # <<>>
  <2>2. m # 0
    <3>1. texts \in Seq(ResponseContentBlock)
      BY SelectionType
    <3>2. Len(texts) # 0
      BY <1>17, <3>1, EmptySeq
    <3> QED
      BY <1>a, <3>2
  <2>3. w[1] \in Seq(STRING) /\ w[1] # <<>>
    <3>1. 1 \in 1..m /\ m = Len(w)
      BY <1>a, <2>2
    <3> QED
      BY <1>13, <1>a, <3>1
  <2>4. 1 \in 1..Len(w[1])
    <3>1. Len(w[1]) \in Nat \ {0}
      BY <2>3, EmptySeq
    <3> QED
      BY <3>1
  <2>5. PICK off \in [0..m -> Nat] : Layout(off, w, m, FlattenSeq(w))
    BY <1>a, FlattenSeqLayout
  <2>6. off[1 - 1] + 1 \in 1..off[m] /\ Len(text) = off[m]
    <3>1. 1 \in 1..m
      BY <1>a, <2>2
    <3>2. off[1 - 1] + 1 \in 1..off[m]
      BY <2>4, <2>5, <3>1 DEF Layout
    <3>3. Len(FlattenSeq(w)) = off[m]
      BY <2>5 DEF Layout
    <3> QED
      BY <1>15, <3>2, <3>3
  <2>7. text # <<>>
    BY <2>6
  <2> QED
    BY <1>7, <1>15, <1>17, <2>7
<1> QED
  BY <1>16, <1>17

\* An Anthropic reply says what its message does.
LEMMA AnthropicReply ==
  ASSUME NEW body \in Seq(ResponseContentBlock)
  PROVE  ParseAnthropic(body) \in Constructed /\ SaidByAnthropic(body) = Utterance(ParseAnthropic(body))
<1>1. PICK uses : uses = Selection(body, {i \in 1..Len(body) : IsUse(body[i])})
  OBVIOUS
<1>2. PICK calls : calls = FlattenSeq([i \in 1..Len(body) |-> CallOf(body[i])])
  OBVIOUS
<1>3. PICK texts : texts = Selection(body, {i \in 1..Len(body) : IsText(body[i])})
  OBVIOUS
<1>4. PICK text : text = FlattenSeq([i \in 1..Len(body) |-> TextOf(body[i])])
  OBVIOUS
<1>5. PICK whole : whole = FlattenSeq([i \in 1..Len(texts) |-> texts[i].text[1]])
  OBVIOUS
<1>6. calls \in Seq(ToolCalls) /\ calls = [i \in 1..Len(uses) |-> UseOf(uses[i])]
  BY <1>1, <1>2, AnthropicCalls
<1>7. text \in Seq(STRING) /\ text = whole /\ (text = <<>> <=> texts = <<>>)
  BY <1>3, <1>4, <1>5, AnthropicText
<1>8. ParseAnthropic(body) = AssistantWithToolCalls(text, calls)
  BY <1>2, <1>4 DEF ParseAnthropic, TextOf, CallOf, IsUse, UseOf, OrDefault, IsSome
<1>9. Says(SaidByAnthropic(body), "assistant", TextParts(text), calls, None)
  <2>1. Says(SaidByAnthropic(body), "assistant",
             IF texts = <<>> THEN <<>> ELSE <<TextBlock(whole)>>,
             [i \in 1..Len(uses) |-> UseOf(uses[i])], None)
    BY <1>1, <1>3, <1>5 DEF SaidByAnthropic, Says, IsText, IsUse, UseOf
  <2>2. TextParts(text) = IF texts = <<>> THEN <<>> ELSE <<TextBlock(whole)>>
    BY <1>7 DEF TextParts
  <2> QED
    BY <1>6, <2>1, <2>2
<1>10. /\ AssistantWithToolCalls(text, calls) \in Constructed
       /\ Says(Utterance(AssistantWithToolCalls(text, calls)), "assistant", TextParts(text), calls, None)
  BY <1>6, <1>7, AssistantUtterance
<1> QED
  BY <1>8, <1>9, <1>10 DEF Says

-----------------------------------------------------------------------------

\* What messages can say.
Sayings == {Utterance(m) : m \in Constructed}

\* Each entry of s is what the message of ms there says.
Records(s, ms) == s \in Seq(Sayings) /\ Len(s) = Len(ms) /\ \A i \in 1..Len(ms) : s[i] = Utterance(ms[i])

Request(ms, order) ==
  [prompt |-> ms, tools |-> order,
   payload |-> IF provider = "Anthropic" THEN AnthropicRequest(ms, config, order)
               ELSE ChatRequest(provider, ms, config, order)]

\* What can have been sent: renderings of whole conversations.
Requests == {Request(ms, order) : ms \in Seq(Constructed), order \in Orders}

\* The application's prompt is kept at the beginning of what is sent.
Kept(ms, more) == Len(ms) <= Len(more) /\ \A i \in 1..Len(ms) : more[i] = ms[i]

\* The inductive invariant: the history says what the conversation does, the
\* application's prompt begins it, and each request renders one; the last one
\* renders the conversation as it is while its reply is awaited.
ConversationInv ==
  /\ provider \in Providers /\ config \in Configs /\ perRequest \in BOOLEAN
  /\ tools \in Orders
  /\ prompt \in Seq(Constructed) /\ working \in Seq(Constructed)
  /\ pending \in Seq(ToolCalls)
  /\ pc \in {"idle", "request", "reply", "tools", "failed", "panicked"}
  /\ sent \in Seq(Requests) /\ Len(sent) <= MaxRequests
  /\ Records(said, working)
  /\ Kept(prompt, working)
  /\ pc = "idle" => working = prompt
  /\ pc = "reply" => /\ sent # <<>>
                     /\ sent[Len(sent)] = Request(working, tools)
                     /\ ~ Unsupported(working)

\* One more message, and what it says.
LEMMA RecordsMore ==
  ASSUME NEW ms \in Seq(Constructed), NEW s, Records(s, ms), NEW m \in Constructed
  PROVE  Append(ms, m) \in Seq(Constructed) /\ Records(Append(s, Utterance(m)), Append(ms, m))
<1>1. Utterance(m) \in Sayings
  BY DEF Sayings
<1>2. PICK u \in Sayings : u = Utterance(m)
  BY <1>1
<1>3. PICK n \in Nat : n = Len(ms) /\ n = Len(s)
  BY DEF Records
<1>4. s \in Seq(Sayings) /\ \A i \in 1..n : s[i] = Utterance(ms[i])
  BY <1>3 DEF Records
<1>5. PICK t : t = Append(s, u)
  OBVIOUS
<1>6. PICK ns : ns = Append(ms, m)
  OBVIOUS
<1>7. /\ t \in Seq(Sayings) /\ Len(t) = n + 1 /\ t[n + 1] = u /\ \A i \in 1..n : t[i] = s[i]
      /\ ns \in Seq(Constructed) /\ Len(ns) = n + 1 /\ ns[n + 1] = m /\ \A i \in 1..n : ns[i] = ms[i]
  <2>1. t \in Seq(Sayings) /\ Len(t) = n + 1 /\ t[n + 1] = u /\ \A i \in 1..n : t[i] = s[i]
    BY <1>2, <1>3, <1>4, <1>5, AppendProperties
  <2>2. ns \in Seq(Constructed) /\ Len(ns) = n + 1 /\ ns[n + 1] = m /\ \A i \in 1..n : ns[i] = ms[i]
    <3>1. /\ Append(ms, m) \in Seq(Constructed) /\ Len(Append(ms, m)) = Len(ms) + 1
          /\ Append(ms, m)[Len(ms) + 1] = m /\ \A i \in 1..Len(ms) : Append(ms, m)[i] = ms[i]
      BY AppendProperties
    <3> QED
      BY <1>3, <1>6, <3>1
  <2> QED
    BY <2>1, <2>2
<1>8. ASSUME NEW i \in 1..(n + 1) PROVE t[i] = Utterance(ns[i])
  <2>1. CASE i \in 1..n
    BY <1>4, <1>7, <2>1
  <2>2. CASE i = n + 1
    BY <1>2, <1>7, <2>2
  <2> QED
    BY <2>1, <2>2
<1> QED
  BY <1>2, <1>5, <1>6, <1>7, <1>8 DEF Records

\* The history is kept as far as the conversation is.
LEMMA RecordsLess ==
  ASSUME NEW ms \in Seq(Constructed), NEW more \in Seq(Constructed), Kept(ms, more),
         NEW s, Records(s, more)
  PROVE  Records(SubSeq(s, 1, Len(ms)), ms)
<1>1. PICK n, l \in Nat : n = Len(ms) /\ l = Len(more) /\ n <= l
  BY DEF Kept
<1>2. s \in Seq(Sayings) /\ Len(s) = l /\ \A i \in 1..l : s[i] = Utterance(more[i])
  BY <1>1 DEF Records
<1>3. PICK t : t = SubSeq(s, 1, n)
  OBVIOUS
<1>4. t \in Seq(Sayings) /\ Len(t) = n /\ \A i \in 1..n : t[i] = s[i]
  BY <1>1, <1>2, <1>3
<1>5. \A i \in 1..n : t[i] = Utterance(ms[i])
  BY <1>1, <1>2, <1>4 DEF Kept
<1> QED
  BY <1>1, <1>3, <1>4, <1>5 DEF Records

\* Several more messages, and what they say.
LEMMA RecordsJoin ==
  ASSUME NEW ms \in Seq(Constructed), NEW s, Records(s, ms), NEW more \in Seq(Constructed)
  PROVE  /\ ms \o more \in Seq(Constructed) /\ Kept(ms, ms \o more)
         /\ Records(s \o [i \in 1..Len(more) |-> Utterance(more[i])], ms \o more)
<1>1. PICK n, l \in Nat : n = Len(ms) /\ l = Len(more) /\ n = Len(s)
  BY DEF Records
<1>2. s \in Seq(Sayings) /\ \A i \in 1..n : s[i] = Utterance(ms[i])
  BY <1>1 DEF Records
<1>3. PICK u : u = [i \in 1..l |-> Utterance(more[i])]
  OBVIOUS
<1>4. u \in Seq(Sayings) /\ Len(u) = l /\ \A i \in 1..l : u[i] = Utterance(more[i])
  <2>1. \A i \in 1..l : Utterance(more[i]) \in Sayings
    BY <1>1 DEF Sayings
  <2>2. u \in [1..l -> Sayings]
    BY <1>3, <2>1
  <2> QED
    BY <1>3, <2>2, SequenceLength
<1>5. PICK t : t = s \o u
  OBVIOUS
<1>6. PICK ns : ns = ms \o more
  OBVIOUS
<1>7. /\ t \in Seq(Sayings) /\ Len(t) = n + l
      /\ \A i \in 1..n : t[i] = s[i]
      /\ \A i \in 1..l : t[n + i] = u[i]
  <2>1. t \in Seq(Sayings) /\ Concatenated(t, s, u)
    BY <1>2, <1>4, <1>5, ConcatPlaces
  <2> QED
    BY <1>1, <1>4, <2>1 DEF Concatenated
<1>8. /\ ns \in Seq(Constructed) /\ Len(ns) = n + l
      /\ \A i \in 1..n : ns[i] = ms[i]
      /\ \A i \in 1..l : ns[n + i] = more[i]
  <2>1. ns \in Seq(Constructed) /\ Concatenated(ns, ms, more)
    BY <1>6, ConcatPlaces
  <2> QED
    BY <1>1, <2>1 DEF Concatenated
<1>9. ASSUME NEW i \in 1..(n + l) PROVE t[i] = Utterance(ns[i])
  <2>1. CASE i \in 1..n
    BY <1>2, <1>7, <1>8, <2>1
  <2>2. CASE i \notin 1..n
    <3>1. PICK j \in 1..l : i = n + j
      <4>1. i - n \in 1..l /\ i = n + (i - n)
        BY <2>2
      <4> QED
        BY <4>1
    <3> QED
      BY <1>4, <1>7, <1>8, <3>1
  <2> QED
    BY <2>1, <2>2
<1>10. Kept(ms, ns)
  BY <1>1, <1>8 DEF Kept
<1>11. Records(t, ns)
  BY <1>7, <1>8, <1>9 DEF Records
<1> QED
  BY <1>1, <1>3, <1>5, <1>6, <1>8, <1>10, <1>11

\* A conversation kept is still kept with one more message, and by itself.
LEMMA KeptMore ==
  ASSUME NEW ms \in Seq(Constructed), NEW more \in Seq(Constructed), Kept(ms, more),
         NEW m \in Constructed
  PROVE  Kept(ms, Append(more, m)) /\ Kept(ms, ms)
BY DEF Kept

\* It holds when the conversation opens.
LEMMA ConversationOpens == Init => ConversationInv
<1> SUFFICES ASSUME Init PROVE ConversationInv
  OBVIOUS
<1>1. prompt \in Seq(Constructed) /\ working = prompt
  BY ProviderRequestsAssumption DEF Init
<1>2. Records(said, working)
  <2>1. PICK n \in Nat : n = Len(prompt)
    BY <1>1
  <2>2. said = [i \in 1..n |-> Utterance(prompt[i])]
    BY <2>1 DEF Init
  <2>3. \A i \in 1..n : Utterance(prompt[i]) \in Sayings
    BY <1>1, <2>1 DEF Sayings
  <2>4. said \in [1..n -> Sayings]
    BY <2>2, <2>3
  <2>5. said \in Seq(Sayings) /\ Len(said) = n
    BY <2>4, SequenceLength
  <2> QED
    BY <1>1, <2>1, <2>2, <2>5 DEF Records
<1>3. Kept(prompt, working)
  BY <1>1 DEF Kept
<1>4. sent \in Seq(Requests) /\ Len(sent) <= MaxRequests /\ pending \in Seq(ToolCalls)
  BY ProviderRequestsAssumption DEF Init
<1> QED
  BY <1>1, <1>2, <1>3, <1>4 DEF Init, ConversationInv

\* Whatever the dialect, a reply says what its message does.
LEMMA ReplySays ==
  ASSUME NEW body \in Bodies[DialectOf(provider)], Parses(body)
  PROVE  Parsed(body) \in Constructed /\ SaidBy(body) = Utterance(Parsed(body))
<1>1. CASE provider = "Anthropic"
  <2>1. body \in Seq(ResponseContentBlock)
    BY <1>1, ProviderRequestsAssumption DEF DialectOf
  <2> QED
    BY <1>1, <2>1, AnthropicReply DEF Parsed, SaidBy
<1>2. CASE provider # "Anthropic"
  <2>1. body \in Seq(ChatChoice) /\ ParsesAsChat(body)
    BY <1>2, ProviderRequestsAssumption DEF DialectOf, Parses
  <2> QED
    BY <1>2, <2>1, ChatReply DEF Parsed, SaidBy
<1> QED
  BY <1>1, <1>2

\* A request names the provider and the config, which never change.
LEMMA RequestsStay ==
  ASSUME provider' = provider, config' = config
  PROVE  /\ Requests' = Requests
         /\ \A ms, order : Request(ms, order)' = Request(ms, order)
BY DEF Requests, Request

\* Asking starts a conversation from what was kept.
LEMMA AskKeepsInv ==
  ASSUME ConversationInv, NEW m \in Utterances, Ask(m)
  PROVE  ConversationInv'
<1>1. m \in Constructed
  BY ProviderRequestsAssumption
<1>2. pc = "idle" /\ working = prompt /\ Records(said, prompt) /\ prompt \in Seq(Constructed)
  BY DEF Ask, ConversationInv
<1>3. Append(prompt, m) \in Seq(Constructed) /\ Records(Append(said, Utterance(m)), Append(prompt, m))
  BY <1>1, <1>2, RecordsMore
<1>4. prompt' = Append(prompt, m) /\ working' = prompt' /\ said' = Append(said, Utterance(m))
  BY DEF Ask
<1>5. prompt' \in Seq(Constructed) /\ working' \in Seq(Constructed) /\ Records(said, working)'
  BY <1>3, <1>4 DEF Records
<1>6. Kept(prompt, working)'
  BY <1>4, <1>5 DEF Kept
<1>7. tools' \in Orders
  BY DEF Ask, ConversationInv
<1>8. Requests' = Requests
  BY RequestsStay DEF Ask
<1> QED
  BY <1>4, <1>5, <1>6, <1>7, <1>8 DEF Ask, ConversationInv

\* A request that is sent is recorded with what was said until then.
LEMMA SendKeepsInv ==
  ASSUME ConversationInv, Send
  PROVE  ConversationInv'
<1>1. Requests' = Requests /\ \A ms, order : Request(ms, order)' = Request(ms, order)
  BY RequestsStay DEF Send
<1>2. Records(said, working)' /\ Kept(prompt, working)'
  BY DEF Send, ConversationInv, Records, Kept
<1>3. CASE Unsupported(working)
  BY <1>1, <1>2, <1>3 DEF Send, ConversationInv
<1>4. CASE ~ Unsupported(working)
  <2>1. PICK r : r = Request(working, tools)
    OBVIOUS
  <2>2. r \in Requests
    BY <2>1 DEF Requests, ConversationInv
  <2>3. sent' = Append(sent, r) /\ pc' = "reply" /\ Len(sent) < MaxRequests
    BY <1>4, <2>1 DEF Send, Request, Render
  <2>4. sent \in Seq(Requests) /\ Len(sent) <= MaxRequests
    BY DEF ConversationInv
  <2>5. /\ sent' \in Seq(Requests) /\ sent' # <<>>
        /\ Len(sent') = Len(sent) + 1 /\ sent'[Len(sent')] = r
    BY <2>2, <2>3, <2>4, AppendProperties
  <2>6. Len(sent') <= MaxRequests
    BY <2>3, <2>4, <2>5, ProviderRequestsAssumption
  <2>7. Request(working, tools)' = r
    BY <1>1, <2>1 DEF Send
  <2>8. ~ Unsupported(working)'
    BY <1>4 DEF Send, Unsupported
  <2> QED
    BY <1>1, <1>2, <2>3, <2>5, <2>6, <2>7, <2>8 DEF Send, ConversationInv
<1> QED
  BY <1>3, <1>4

\* A reply that cannot be parsed adds nothing.
LEMMA ReplyFailsKeepsInv ==
  ASSUME ConversationInv, NEW body, ReplyFails(body)
  PROVE  ConversationInv'
<1>1. Requests' = Requests
  BY RequestsStay DEF ReplyFails
<1>2. Records(said, working)' /\ Kept(prompt, working)'
  BY DEF ReplyFails, ConversationInv, Records, Kept
<1> QED
  BY <1>1, <1>2 DEF ReplyFails, ConversationInv

\* A reply with calls is recorded as it was parsed.
LEMMA ReplyCallsKeepsInv ==
  ASSUME ConversationInv, NEW body \in Bodies[DialectOf(provider)], ReplyCalls(body)
  PROVE  ConversationInv'
<1>1. PICK m \in Constructed : m = Parsed(body) /\ SaidBy(body) = Utterance(m)
  BY ReplySays DEF ReplyCalls
<1>2. working' = Append(working, m) /\ said' = Append(said, Utterance(m)) /\ pending' = m.calls
  BY <1>1 DEF ReplyCalls
<1>3. working' \in Seq(Constructed) /\ Records(said', working')
  BY <1>1, <1>2, RecordsMore DEF ConversationInv
<1>4. Kept(prompt, working')
  BY <1>1, <1>2, KeptMore DEF ConversationInv
<1>5. pending' \in Seq(ToolCalls)
  BY <1>1, <1>2, ConstructedFields
<1>6. Records(said, working)' /\ Kept(prompt, working)'
  BY <1>3, <1>4 DEF ReplyCalls, Records, Kept
<1>7. Requests' = Requests
  BY RequestsStay DEF ReplyCalls
<1> QED
  BY <1>3, <1>5, <1>6, <1>7 DEF ReplyCalls, ConversationInv

\* An answer is recorded in what the application keeps.
LEMMA ReplyAnswersKeepsInv ==
  ASSUME ConversationInv, NEW body \in Bodies[DialectOf(provider)], ReplyAnswers(body)
  PROVE  ConversationInv'
<1>1. PICK m \in Constructed : m = Parsed(body) /\ SaidBy(body) = Utterance(m)
  BY ReplySays DEF ReplyAnswers
<1>2. PICK kept \in {prompt, working} :
         /\ prompt' = Append(kept, m) /\ working' = prompt'
         /\ said' = Append(SubSeq(said, 1, Len(kept)), Utterance(m))
  BY <1>1 DEF ReplyAnswers
<1>3. kept \in Seq(Constructed) /\ working \in Seq(Constructed) /\ Kept(kept, working)
  BY <1>2, KeptMore DEF ConversationInv, Kept
<1>4. Records(SubSeq(said, 1, Len(kept)), kept)
  BY <1>3, RecordsLess DEF ConversationInv
<1>5. prompt' \in Seq(Constructed) /\ Records(said', prompt')
  BY <1>1, <1>2, <1>3, <1>4, RecordsMore
<1>6. Records(said, working)' /\ Kept(prompt, working)'
  BY <1>2, <1>5 DEF Records, Kept
<1>7. Requests' = Requests
  BY RequestsStay DEF ReplyAnswers
<1> QED
  BY <1>2, <1>5, <1>6, <1>7 DEF ReplyAnswers, ConversationInv

\* The results are recorded in the order of the calls.
LEMMA RunToolsKeepsInv ==
  ASSUME ConversationInv, NEW failed, RunTools(failed)
  PROVE  ConversationInv'
<1>1. PICK n \in Nat : n = Len(pending)
  BY DEF ConversationInv
<1> DEFINE answer(call) == IF failed THEN ToolError(<<"failed">>, call.id)
                                     ELSE ToolResult(<<"done">>, call.id)
<1>2. PICK answers : answers = [i \in 1..n |-> answer(pending[i])]
  OBVIOUS
<1>3. answers \in Seq(Constructed)
  <2>1. ASSUME NEW i \in 1..n PROVE answer(pending[i]) \in Constructed
    <3>1. pending[i] \in ToolCalls
      BY <1>1 DEF ConversationInv
    <3> QED
      BY <3>1, AnswersConstructed
  <2>2. answers \in [1..n -> Constructed]
    BY <1>2, <2>1
  <2> QED
    BY <2>2, SequenceLength
<1>4. /\ working' = working \o answers
      /\ said' = said \o [i \in 1..Len(answers) |-> Utterance(answers[i])]
  BY <1>1, <1>2 DEF RunTools
<1> HIDE DEF answer
<1>5. working \in Seq(Constructed) /\ Records(said, working) /\ Kept(prompt, working)
  BY DEF ConversationInv
<1>6. /\ working' \in Seq(Constructed) /\ Records(said', working') /\ Kept(working, working')
  BY <1>3, <1>4, <1>5, RecordsJoin
<1>7. Kept(prompt, working')
  BY <1>5, <1>6 DEF Kept, ConversationInv
<1>8. Records(said, working)' /\ Kept(prompt, working)'
  BY <1>6, <1>7 DEF RunTools, Records, Kept
<1>9. Requests' = Requests
  BY RequestsStay DEF RunTools
<1>10. /\ pending' = <<>> /\ pc' = "request"
       /\ UNCHANGED <<provider, config, perRequest, tools, prompt, sent>>
  BY DEF RunTools
<1> QED
  BY <1>6, <1>8, <1>9, <1>10 DEF ConversationInv

\* Nothing changes.
LEMMA StutterKeepsInv ==
  ASSUME ConversationInv, UNCHANGED vars
  PROVE  ConversationInv'
<1>1. Requests' = Requests /\ \A ms, order : Request(ms, order)' = Request(ms, order)
  BY RequestsStay DEF vars
<1>2. Records(said, working)' /\ Kept(prompt, working)' /\ Unsupported(working)' = Unsupported(working)
  BY DEF vars, ConversationInv, Records, Kept, Unsupported
<1>3. Request(working, tools)' = Request(working, tools)
  BY <1>1 DEF vars
<1> QED
  BY <1>1, <1>2, <1>3 DEF vars, ConversationInv

\* Every step of a conversation keeps the invariant.
LEMMA ConversationGoesOn == ConversationInv /\ [Next]_vars => ConversationInv'
<1> SUFFICES ASSUME ConversationInv, [Next]_vars PROVE ConversationInv'
  OBVIOUS
<1>1. CASE \E m \in Utterances : Ask(m)
  BY <1>1, AskKeepsInv
<1>2. CASE Send
  BY <1>2, SendKeepsInv
<1>3. CASE \E body \in Bodies[DialectOf(provider)] : ReplyFails(body)
  BY <1>3, ReplyFailsKeepsInv
<1>4. CASE \E body \in Bodies[DialectOf(provider)] : ReplyCalls(body)
  BY <1>4, ReplyCallsKeepsInv
<1>5. CASE \E body \in Bodies[DialectOf(provider)] : ReplyAnswers(body)
  BY <1>5, ReplyAnswersKeepsInv
<1>6. CASE \E failed \in BOOLEAN : RunTools(failed)
  BY <1>6, RunToolsKeepsInv
<1>7. CASE UNCHANGED vars
  BY <1>7, StutterKeepsInv
<1> QED
  BY <1>1, <1>2, <1>3, <1>4, <1>5, <1>6, <1>7 DEF Next

\* In every conversation, the history says what the conversation does, and each
\* request renders one.
THEOREM ConversationIsRecorded == Spec => []ConversationInv
BY ConversationOpens, ConversationGoesOn, PTL DEF Spec

\* The types of a conversation's state, with the messages that the constructors
\* keep consistent.
THEOREM RequestsTyped == Spec => []TypeOK
<1>1. ConversationInv => TypeOK
  <2> SUFFICES ASSUME ConversationInv PROVE TypeOK
    OBVIOUS
  <2>1. \A i \in 1..Len(working) :
          working[i].role \in {"system", "user", "assistant", "tool"} /\ Consistent(working[i])
    BY ConstructedFields DEF ConversationInv
  <2> QED
    BY <2>1 DEF ConversationInv, Records, TypeOK
<1> QED
  BY <1>1, ConversationIsRecorded, PTL

-----------------------------------------------------------------------------

\* The Chat Completions dialect renders a message to what it says.
LEMMA ChatContentRead ==
  ASSUME NEW m \in Constructed, Attachment \notin ToSet(m.blocks)
  PROVE  Spoken(ReadChatContent(ChatContent(m)))
           = Spoken(IF IsMultimodal(m) THEN m.blocks ELSE <<TextBlock(m.content)>>)
<1>1. m.blocks \in Seq(ContentBlock)
  BY ConstructedFields
<1>2. CASE IsMultimodal(m)
  <2>1. PICK n \in Nat : n = Len(m.blocks)
    BY <1>1
  <2>2. PICK blocks : blocks = [i \in 1..n |-> ChatBlock(m.blocks[i])]
    OBVIOUS
  <2>3. ChatContent(m) = Some([form |-> "blocks", blocks |-> blocks])
    BY <1>2, <2>1, <2>2 DEF ChatContent
  <2>4. ReadChatContent(ChatContent(m)) = [i \in 1..Len(blocks) |-> ReadChatBlock(blocks[i])]
    <3>1. PICK content : content = ChatContent(m)
      OBVIOUS
    <3>2. content # None /\ content[1].form = "blocks" /\ content[1].blocks = blocks
      BY <2>3, <3>1 DEF Some, None
    <3> QED
      BY <3>1, <3>2 DEF ReadChatContent
  <2>5. Len(blocks) = n
    BY <2>2
  <2>6. ASSUME NEW i \in 1..n PROVE ReadChatBlock(blocks[i]) = m.blocks[i]
    <3>1. PICK b : b = m.blocks[i]
      OBVIOUS
    <3>2. b \in ContentBlock /\ b # Attachment
      BY <1>1, <2>1, <3>1 DEF ToSet
    <3>3. blocks[i] = ChatBlock(b)
      BY <2>2, <3>1
    <3>4. CASE b \in [type : {"text"}, text : Seq(STRING)]
      <4>1. b.type = "text"
        BY <3>4
      <4> QED
        BY <3>1, <3>3, <4>1 DEF ChatBlock, ReadChatBlock
    <3>5. CASE b \in [type : {"image"}, source : {"url", "base64"}, data : STRING]
      <4>1. b.type = "image" /\ b = [type |-> "image", source |-> b.source, data |-> b.data]
        BY <3>5
      <4>2. b.source = "url" \/ b.source = "base64"
        BY <3>5
      <4>3. CASE b.source = "base64"
        <5>1. ChatBlock(b) = [type |-> "image_url", url |-> <<"data:", b.data>>]
          BY <4>1, <4>3 DEF ChatBlock, ImageReference
        <5>2. ReadChatBlock(ChatBlock(b)) = ImageBase64(b.data)
          BY <5>1 DEF ReadChatBlock
        <5> QED
          BY <3>1, <3>3, <4>1, <4>3, <5>2 DEF ImageBase64
      <4>4. CASE b.source = "url"
        <5>1. ChatBlock(b) = [type |-> "image_url", url |-> <<b.data>>]
          BY <4>1, <4>4 DEF ChatBlock, ImageReference
        <5>2. ReadChatBlock(ChatBlock(b)) = ImageUrl(b.data)
          BY <5>1 DEF ReadChatBlock
        <5> QED
          BY <3>1, <3>3, <4>1, <4>4, <5>2 DEF ImageUrl
      <4> QED
        BY <4>2, <4>3, <4>4
    <3> QED
      BY <3>2, <3>4, <3>5 DEF ContentBlock
  <2>7. m.blocks \in [1..n -> ContentBlock]
    BY <1>1, <2>1, LenProperties
  <2>8. [i \in 1..n |-> ReadChatBlock(blocks[i])] = m.blocks
    BY <2>6, <2>7
  <2> QED
    BY <1>2, <2>4, <2>5, <2>8
<1>3. CASE ~ IsMultimodal(m)
  <2>1. CASE m.content = <<>>
    <3>1. ReadChatContent(ChatContent(m)) = <<>>
      BY <1>3, <2>1 DEF ReadChatContent, ChatContent
    <3>2. Spoken(<<>>) = <<>>
      BY SelectionOfNone DEF Spoken
    <3>3. Spoken(<<TextBlock(m.content)>>) = <<>>
      BY <2>1, TextPartsSpoken DEF TextParts
    <3> QED
      BY <1>3, <3>1, <3>2, <3>3
  <2>2. CASE m.content # <<>>
    <3>1. PICK content : content = ChatContent(m)
      OBVIOUS
    <3>2. content = Some([form |-> "text", text |-> m.content])
      BY <1>3, <2>2, <3>1 DEF ChatContent
    <3>3. content # None /\ content[1].form = "text" /\ content[1].text = m.content
      BY <3>2 DEF Some, None
    <3>4. ReadChatContent(content) = <<TextBlock(m.content)>>
      BY <3>3 DEF ReadChatContent
    <3> QED
      BY <1>3, <3>1, <3>4
  <2> QED
    BY <2>1, <2>2
<1> QED
  BY <1>2, <1>3

\* A Chat message reads as the message it was made from.
LEMMA ChatMessageRead ==
  ASSUME NEW m \in Constructed, Attachment \notin ToSet(m.blocks)
  PROVE  ReadChatMessage(ChatMessage(m)) = Utterance(m)
<1>1. PICK c : c = ChatMessage(m)
  OBVIOUS
<1>2. c.role = m.role /\ c.content = ChatContent(m) /\ c.calls = m.calls /\ c.answers = m.answers
  BY <1>1 DEF ChatMessage
<1> QED
  BY <1>1, <1>2, ChatContentRead DEF ReadChatMessage, Utterance

\* What build_message makes of an assistant's or a user's message: what it says,
\* and then its calls.
Body(m) == IF IsMultimodal(m) THEN m.blocks ELSE IF m.content # <<>> THEN <<TextBlock(m.content)>> ELSE <<>>
Calls(m) == IF m.role = "assistant" THEN m.calls ELSE <<>>
Use(call) == [type |-> "tool_use", call |-> call]

\* The contents that build_message gives its blocks.
Contents(cs, m) ==
  /\ Len(cs) = Len(Body(m)) + Len(Calls(m))
  /\ \A i \in 1..Len(Body(m)) : cs[i] = Body(m)[i]
  /\ \A i \in 1..Len(Calls(m)) : cs[Len(Body(m)) + i] = Use(Calls(m)[i])

\* The body and the calls of a message, and what they say.
LEMMA BodyTyped ==
  ASSUME NEW m \in Constructed
  PROVE  /\ Body(m) \in Seq(ContentBlock) /\ Calls(m) \in Seq(ToolCalls)
         /\ Spoken(Body(m)) = Spoken(IF IsMultimodal(m) THEN m.blocks ELSE <<TextBlock(m.content)>>)
         /\ m.role # "tool" => Calls(m) = m.calls
<1>1. m.blocks \in Seq(ContentBlock) /\ m.content \in Seq(STRING) /\ m.calls \in Seq(ToolCalls) /\ Consistent(m)
  BY ConstructedFields
<1>2. Calls(m) \in Seq(ToolCalls) /\ (m.role # "tool" => Calls(m) = m.calls)
  BY <1>1 DEF Calls, Consistent
<1>3. CASE IsMultimodal(m)
  BY <1>1, <1>2, <1>3 DEF Body
<1>4. CASE ~ IsMultimodal(m) /\ m.content # <<>>
  <2>1. TextBlock(m.content) \in ContentBlock
    BY <1>1 DEF TextBlock, ContentBlock
  <2>2. <<TextBlock(m.content)>> \in Seq(ContentBlock)
    BY <2>1
  <2> QED
    BY <1>2, <1>4, <2>2 DEF Body
<1>5. CASE ~ IsMultimodal(m) /\ m.content = <<>>
  <2>1. Spoken(<<>>) = <<>>
    BY SelectionOfNone DEF Spoken
  <2>2. Spoken(<<TextBlock(m.content)>>) = <<>>
    BY <1>5, TextPartsSpoken DEF TextParts
  <2> QED
    BY <1>2, <1>5, <2>1, <2>2 DEF Body
<1> QED
  BY <1>3, <1>4, <1>5

\* The blocks of a message that is no tool's.
Fresh(bs, m) ==
  /\ \E S : bs \in Seq(S)
  /\ Len(bs) = Len(Body(m)) + Len(Calls(m))
  /\ \A i \in 1..Len(Body(m)) : bs[i] = Block(Body(m)[i])
  /\ \A i \in 1..Len(Calls(m)) : bs[Len(Body(m)) + i] = Block(Use(Calls(m)[i]))

\* They are what content_blocks lists.
LEMMA ContentBlocksFresh ==
  ASSUME NEW m \in Constructed
  PROVE  Fresh(ContentBlocks(m), m)
<1>0. PICK x, y : x = Body(m) /\ y = Calls(m)
  OBVIOUS
<1>a. x \in Seq(ContentBlock) /\ y \in Seq(ToolCalls)
  BY <1>0, BodyTyped
<1>1. PICK n, l \in Nat : n = Len(Body(m)) /\ l = Len(Calls(m))
  BY <1>0, <1>a
<1>2. PICK a : a = [i \in 1..n |-> Block(Body(m)[i])]
  OBVIOUS
<1>3. PICK b : b = [i \in 1..l |-> Block(Use(Calls(m)[i]))]
  OBVIOUS
<1>4. PICK S : S = {Block(Body(m)[i]) : i \in 1..n} \cup {Block(Use(Calls(m)[i])) : i \in 1..l}
  OBVIOUS
<1>5. /\ a \in Seq(S) /\ Len(a) = n /\ \A i \in 1..n : a[i] = Block(Body(m)[i])
      /\ b \in Seq(S) /\ Len(b) = l /\ \A i \in 1..l : b[i] = Block(Use(Calls(m)[i]))
  <2>1. a \in [1..n -> S] /\ b \in [1..l -> S]
    BY <1>2, <1>3, <1>4
  <2>2. a \in Seq(S) /\ Len(a) = n
    BY <2>1, SequenceLength
  <2>3. b \in Seq(S) /\ Len(b) = l
    BY <2>1, SequenceLength
  <2> QED
    BY <1>2, <1>3, <2>2, <2>3
<1>6. ContentBlocks(m) = a \o b
  <2>1. (IF IsMultimodal(m) THEN [i \in 1..Len(m.blocks) |-> Block(m.blocks[i])]
         ELSE IF m.content # <<>> THEN <<Block(TextBlock(m.content))>>
         ELSE <<>>) = a
    <3>1. CASE IsMultimodal(m)
      BY <1>1, <1>2, <3>1 DEF Body
    <3>2. CASE ~ IsMultimodal(m) /\ m.content # <<>>
      <4>1. Body(m) = <<TextBlock(m.content)>>
        BY <3>2 DEF Body
      <4>2. n = 1 /\ Body(m)[1] = TextBlock(m.content)
        BY <1>1, <4>1
      <4>3. a = <<Block(TextBlock(m.content))>>
        BY <1>5, <4>2
      <4> QED
        BY <3>2, <4>3
    <3>3. CASE ~ IsMultimodal(m) /\ m.content = <<>>
      <4>1. n = 0
        BY <1>1, <3>3 DEF Body
      <4>2. a = <<>>
        BY <1>5, <4>1, EmptySeq
      <4> QED
        BY <3>3, <4>2
    <3> QED
      BY <3>1, <3>2, <3>3
  <2>2. (IF m.role = "assistant" THEN [i \in 1..Len(m.calls) |-> ToolUse(m.calls[i])] ELSE <<>>) = b
    <3>1. CASE m.role = "assistant"
      BY <1>1, <1>3, <3>1 DEF Calls, ToolUse, Use
    <3>2. CASE m.role # "assistant"
      <4>1. l = 0
        BY <1>1, <3>2 DEF Calls
      <4>2. b = <<>>
        BY <1>5, <4>1, EmptySeq
      <4> QED
        BY <3>2, <4>2
    <3> QED
      BY <3>1, <3>2
  <2> QED
    BY <2>1, <2>2 DEF ContentBlocks
<1>7. a \o b \in Seq(S) /\ Concatenated(a \o b, a, b)
  BY <1>5, ConcatPlaces
<1>8. PICK bs : bs = a \o b
  OBVIOUS
<1>9. bs \in Seq(S) /\ Concatenated(bs, a, b)
  BY <1>7, <1>8
<1> QED
  BY <1>1, <1>5, <1>6, <1>8, <1>9 DEF Fresh, Concatenated

\* What the blocks of an Anthropic message hold.

\* The contents cs are read as the message m's texts and calls.
ReadAs(cs, n, m) ==
  /\ \A i \in 1..n : cs[i].type # "tool_result"
  /\ FlattenSeq([i \in 1..n |-> ReadAnthropicBlock(cs[i])]) = Spoken(Body(m))
  /\ LET uses == Selection(cs, {i \in 1..n : cs[i].type = "tool_use"})
     IN  [i \in 1..Len(uses) |-> uses[i].call] = m.calls

\* Blocks that hold what a message says and then its calls are read so.
LEMMA ContentsRead ==
  ASSUME NEW m \in Constructed, m.role # "tool", NEW cs, NEW n \in Nat, Contents(cs, m),
         n = Len(cs), NEW A, cs \in [1..n -> A]
  PROVE  ReadAs(cs, n, m)
<1>0. PICK x, y : x = Body(m) /\ y = Calls(m)
  OBVIOUS
<1>1. x \in Seq(ContentBlock) /\ y \in Seq(ToolCalls) /\ y = m.calls
  BY <1>0, BodyTyped
<1>2. PICK l, k \in Nat : l = Len(x) /\ k = Len(y)
  BY <1>1
<1>3. /\ n = l + k
      /\ \A i \in 1..l : cs[i] = x[i]
      /\ \A i \in 1..k : cs[l + i] = Use(y[i])
  BY <1>0, <1>2 DEF Contents
<1>4. ASSUME NEW i \in 1..l
      PROVE  cs[i] = x[i] /\ x[i] \in ContentBlock /\ cs[i].type \notin {"tool_use", "tool_result"}
  <2>1. cs[i] = x[i] /\ x[i] \in ContentBlock
    BY <1>1, <1>2, <1>3
  <2>2. \A b \in ContentBlock : b.type \notin {"tool_use", "tool_result"}
    BY DEF ContentBlock, Attachment
  <2> QED
    BY <2>1, <2>2
<1>5. ASSUME NEW i \in (l + 1)..n
      PROVE  i - l \in 1..k /\ cs[i] = Use(y[i - l]) /\ cs[i].type = "tool_use"
  <2>1. i - l \in 1..k /\ i = l + (i - l)
    BY <1>3
  <2>2. cs[i] = Use(y[i - l])
    BY <1>3, <2>1
  <2> QED
    BY <2>1, <2>2 DEF Use
<1>6. \A i \in 1..n : cs[i].type # "tool_result"
  BY <1>2, <1>3, <1>4, <1>5
<1>7. FlattenSeq([i \in 1..n |-> ReadAnthropicBlock(cs[i])]) = Spoken(x)
  <2>1. PICK I : I = {i \in 1..Len(x) : x[i] # TextBlock(<<>>)}
    OBVIOUS
  <2>2. PICK u : u = Picked(x, I)
    OBVIOUS
  <2>3. u \in [1..l -> Seq(ContentBlock)] /\ Spoken(x) = FlattenSeq(u)
    BY <1>1, <1>2, <2>1, <2>2, PickedType DEF Spoken
  <2>4. PICK v : v = [i \in 1..n |-> ReadAnthropicBlock(cs[i])]
    OBVIOUS
  <2>5. ASSUME NEW i \in 1..l PROVE u[i] = v[i] /\ v[i] \in Seq(ContentBlock)
    <3>1. i \in 1..n
      BY <1>3
    <3>2. v[i] = IF x[i] = TextBlock(<<>>) THEN <<>> ELSE <<x[i]>>
      BY <1>4, <2>4, <3>1 DEF ReadAnthropicBlock
    <3>3. u[i] = IF x[i] = TextBlock(<<>>) THEN <<>> ELSE <<x[i]>>
      <4>1. i \in I <=> x[i] # TextBlock(<<>>)
        BY <1>2, <2>1
      <4> QED
        BY <1>2, <2>2, <4>1 DEF Picked
    <3>4. v[i] = u[i]
      BY <3>2, <3>3
    <3>5. u[i] \in Seq(ContentBlock)
      BY <2>3
    <3> QED
      BY <3>4, <3>5
  <2>6. ASSUME NEW i \in (l + 1)..n PROVE v[i] = <<>>
    <3>1. i \in 1..n
      BY <1>2
    <3> QED
      BY <1>5, <2>4, <3>1 DEF ReadAnthropicBlock
  <2>7. v \in [1..n -> Seq(ContentBlock)]
    <3>1. ASSUME NEW i \in 1..n PROVE v[i] \in Seq(ContentBlock)
      <4>1. CASE i \in 1..l
        BY <2>5, <4>1
      <4>2. CASE i \notin 1..l
        <5>1. i \in (l + 1)..n
          BY <1>2, <4>2
        <5>2. v[i] = <<>>
          BY <2>6, <5>1
        <5> QED
          BY <5>2
      <4> QED
        BY <4>1, <4>2
    <3>2. v \in [1..n -> {v[i] : i \in 1..n}]
      BY <2>4
    <3> QED
      BY <2>4, <3>1, <3>2
  <2>8. SameBeginning(u, v, l) /\ EmptyAfter(v, l, n)
    BY <2>5, <2>6 DEF SameBeginning, EmptyAfter
  <2>9. l <= n
    BY <1>2, <1>3
  <2>10. ExtendsTo(FlattenSeq(u), FlattenSeq(v), v, l, n)
    BY <1>2, <2>3, <2>7, <2>8, <2>9, FlattenSeqExtends
  <2> QED
    BY <2>3, <2>4, <2>8, <2>10 DEF ExtendsTo
<1>8. ASSUME NEW uses, uses = Selection(cs, {i \in 1..n : cs[i].type = "tool_use"})
      PROVE  [i \in 1..Len(uses) |-> uses[i].call] = m.calls
  <2>1. PICK a : a = [i \in 1..l |-> x[i]]
    OBVIOUS
  <2>2. PICK b : b = [i \in 1..k |-> Use(y[i])]
    OBVIOUS
  <2>3. PICK S : S = {x[i] : i \in 1..l} \cup {Use(y[i]) : i \in 1..k} \cup A
    OBVIOUS
  <2>4. a \in Seq(S) /\ Len(a) = l /\ b \in Seq(S) /\ Len(b) = k
    <3>1. a \in [1..l -> S] /\ b \in [1..k -> S]
      BY <2>1, <2>2, <2>3
    <3>2. a \in Seq(S) /\ Len(a) = l
      BY <1>2, <3>1, SequenceLength
    <3>3. b \in Seq(S) /\ Len(b) = k
      BY <1>2, <3>1, SequenceLength
    <3> QED
      BY <3>2, <3>3
  <2>5. PICK c : c = a \o b
    OBVIOUS
  <2>6. c \in Seq(S) /\ Concatenated(c, a, b)
    BY <2>4, <2>5, ConcatPlaces
  <2>7. cs = c
    <3>1. cs \in Seq(S) /\ Len(cs) = n
      <4>1. cs \in [1..n -> S]
        BY <2>3
      <4> QED
        BY <4>1, SequenceLength
    <3>2. Len(c) = n
      BY <1>2, <1>3, <2>4, <2>6 DEF Concatenated
    <3>3. ASSUME NEW i \in 1..n PROVE cs[i] = c[i]
      <4>1. CASE i \in 1..l
        BY <1>3, <2>1, <2>4, <2>6, <4>1 DEF Concatenated
      <4>2. CASE i \notin 1..l
        <5>1. PICK j : j = i - l
          OBVIOUS
        <5>2. j \in 1..k /\ i = l + j
          BY <1>2, <1>3, <4>2, <5>1
        <5> QED
          BY <1>3, <2>2, <2>4, <2>6, <5>2 DEF Concatenated
      <4> QED
        BY <4>1, <4>2
    <3> QED
      BY <2>6, <3>1, <3>2, <3>3, SeqEqual
  <2>8. PICK I : I = {i \in 1..n : cs[i].type = "tool_use"}
    OBVIOUS
  <2>9. \A i \in 1..(Len(a) + Len(b)) : i \in I <=> i > Len(a)
    <3>1. ASSUME NEW i \in 1..n PROVE i \in I <=> i > l
      <4>1. CASE i \in 1..l
        BY <1>4, <2>8, <4>1
      <4>2. CASE i \notin 1..l
        <5>1. i \in (l + 1)..n /\ i > l
          BY <1>2, <4>2
        <5> QED
          BY <1>5, <2>8, <5>1
      <4> QED
        BY <4>1, <4>2
    <3> QED
      BY <1>3, <2>4, <3>1
  <2>10. uses = b
    <3>1. Selection(a \o b, I) = b
      BY <2>4, <2>9, SelectionOfEnd
    <3> QED
      BY <1>8, <2>5, <2>7, <2>8, <3>1
  <2>11. \A i \in 1..k : uses[i].call = y[i]
    BY <2>2, <2>10 DEF Use
  <2>12. Len(uses) = k
    BY <2>4, <2>10
  <2>13. y \in [1..k -> ToolCalls]
    BY <1>1, <1>2, LenProperties
  <2>14. [i \in 1..k |-> uses[i].call] = y
    BY <2>11, <2>13
  <2> QED
    BY <1>1, <2>12, <2>14
<1> QED
  BY <1>0, <1>6, <1>7, <1>8 DEF ReadAs

-----------------------------------------------------------------------------

\* What an Anthropic block can hold, and the messages made of such blocks.
Held == ContentBlock \cup {Use(call) : call \in ToolCalls} \cup {ToolResultBlock(m).content : m \in Constructed}
MessageBlocks == [content : Held, cached : BOOLEAN]
AnthropicMessages == [role : {"user", "assistant"}, form : {"string", "blocks"}, blocks : Seq(MessageBlocks)]

\* Nothing in the message is marked.
Unmarking(x) == \A i \in 1..Len(x.blocks) : ~ x.blocks[i].cached

\* y is the message x with its blocks at S marked and no others.
Marks(y, x, S) ==
  /\ y.role = x.role /\ y.form = x.form /\ Len(y.blocks) = Len(x.blocks)
  /\ \A i \in 1..Len(x.blocks) :
       y.blocks[i].content = x.blocks[i].content /\ (y.blocks[i].cached <=> i \in S)

\* The last block of x that can be marked, if any.
Slots(x) == {i \in 1..Len(x.blocks) : x.form # "string" /\ HasSlot(x.blocks[i])}
LastSlot(x) == {i \in Slots(x) : \A j \in Slots(x) : j <= i}

\* mark_cache_breakpoint marks that one.
LEMMA MarkIsLastSlot ==
  ASSUME NEW x \in AnthropicMessages, Unmarking(x)
  PROVE  MarkCacheBreakpoint(x) \in AnthropicMessages /\ Marks(MarkCacheBreakpoint(x), x, LastSlot(x))
<1>1. PICK role, form, bs : role = x.role /\ form = x.form /\ bs = x.blocks
  OBVIOUS
<1>2. /\ x = [role |-> role, form |-> form, blocks |-> bs]
      /\ bs \in Seq(MessageBlocks) /\ role \in {"user", "assistant"} /\ form \in {"string", "blocks"}
  BY <1>1 DEF AnthropicMessages
<1>3. PICK n \in Nat : n = Len(bs)
  BY <1>2
<1>4. PICK S : S = {i \in 1..n : HasSlot(bs[i])}
  OBVIOUS
<1>5. \A i \in 1..n : bs[i] \in MessageBlocks /\ bs[i].cached = FALSE
  <2>1. \A i \in 1..n : bs[i] \in MessageBlocks /\ ~ bs[i].cached
    BY <1>1, <1>2, <1>3 DEF Unmarking
  <2>2. \A b \in MessageBlocks : ~ b.cached => b.cached = FALSE
    BY DEF MessageBlocks
  <2> QED
    BY <2>1, <2>2
<1>6. CASE form = "string" \/ S = {}
  <2>1. MarkCacheBreakpoint(x) = x
    BY <1>1, <1>3, <1>4, <1>6 DEF MarkCacheBreakpoint
  <2>2. LastSlot(x) = {}
    BY <1>1, <1>3, <1>4, <1>6 DEF LastSlot, Slots
  <2>3. Marks(x, x, {})
    BY <1>1, <1>3, <1>5 DEF Marks
  <2> QED
    BY <2>1, <2>2, <2>3
<1>7. CASE form # "string" /\ S # {}
  <2>1. PICK c : c = CHOOSE i \in S : \A j \in S : j <= i
    OBVIOUS
  <2>2. c \in S /\ \A j \in S : j <= c
    <3>1. S \in SUBSET (1..n)
      BY <1>4
    <3>2. \E i \in S : \A j \in S : j <= i
      BY <1>7, <3>1, GreatestElement
    <3> QED
      BY <2>1, <3>2
  <2>3. c \in 1..n
    BY <1>4, <2>2
  <2>4. PICK cs : cs = [bs EXCEPT ![c].cached = TRUE]
    OBVIOUS
  <2>5. PICK y : y = [role |-> role, form |-> form, blocks |-> cs]
    OBVIOUS
  <2>6. MarkCacheBreakpoint(x) = y
    <3>1. MarkCacheBreakpoint(x) = [x EXCEPT !.blocks[c].cached = TRUE]
      BY <1>1, <1>3, <1>4, <1>7, <2>1 DEF MarkCacheBreakpoint
    <3>2. [x EXCEPT !.blocks[c].cached = TRUE] = [x EXCEPT !.blocks = cs]
      BY <1>1, <2>4
    <3>3. PICK z : z = [x EXCEPT !.blocks = cs]
      OBVIOUS
    <3>4. z = y
      BY <1>2, <2>5, <3>3
    <3> QED
      BY <3>1, <3>2, <3>3, <3>4
  <2>7. LastSlot(x) = {c}
    <3>1. Slots(x) = S
      BY <1>1, <1>3, <1>4, <1>7 DEF Slots
    <3>2. \A i \in S : (\A j \in S : j <= i) => i = c
      BY <1>3, <1>4, <2>2
    <3> QED
      BY <2>2, <3>1, <3>2 DEF LastSlot
  <2>8. PICK marked : marked = [bs[c] EXCEPT !.cached = TRUE]
    OBVIOUS
  <2>9. marked \in MessageBlocks /\ marked.content = bs[c].content /\ marked.cached = TRUE
    BY <1>5, <2>3, <2>8 DEF MessageBlocks
  <2>10. cs = [bs EXCEPT ![c] = marked]
    BY <2>4, <2>8
  <2>11. /\ cs \in Seq(MessageBlocks) /\ Len(cs) = n
         /\ \A i \in 1..n : cs[i] = IF i = c THEN marked ELSE bs[i]
    BY <1>2, <1>3, <2>3, <2>9, <2>10
  <2>12. y \in AnthropicMessages
    BY <1>2, <2>5, <2>11 DEF AnthropicMessages
  <2>13. Marks(y, x, {c})
    BY <1>1, <1>3, <1>5, <2>5, <2>9, <2>11 DEF Marks
  <2> QED
    BY <2>6, <2>7, <2>12, <2>13
<1> QED
  BY <1>6, <1>7

\* build_message marks nothing.
LEMMA BuildMessageTyped ==
  ASSUME NEW m \in Constructed, NEW caching \in BOOLEAN
  PROVE  /\ BuildMessage(m, caching) \in AnthropicMessages
         /\ Unmarking(BuildMessage(m, caching))
<1>1. ASSUME NEW c \in Held
      PROVE  Block(c) \in MessageBlocks /\ Block(c).cached = FALSE
  BY DEF Block, MessageBlocks
<1>2. CASE m.role = "tool"
  <2>1. PICK b : b = ToolResultBlock(m)
    OBVIOUS
  <2>2. PICK c \in Held : c = b.content
    BY <2>1 DEF Held
  <2>3. b = Block(c)
    BY <2>1, <2>2 DEF ToolResultBlock, Block
  <2>4. b \in MessageBlocks /\ ~ b.cached
    BY <1>1, <2>3
  <2>5. PICK bs : bs = <<b>>
    OBVIOUS
  <2>6. bs \in Seq(MessageBlocks) /\ Len(bs) = 1 /\ bs[1] = b
    BY <2>4, <2>5
  <2>7. BuildMessage(m, caching) = [role |-> "user", form |-> "blocks", blocks |-> bs]
    BY <1>2, <2>1, <2>5 DEF BuildMessage
  <2>8. PICK z : z = BuildMessage(m, caching)
    OBVIOUS
  <2>9. z.blocks = bs /\ z \in AnthropicMessages
    BY <2>6, <2>7, <2>8 DEF AnthropicMessages
  <2>10. Unmarking(z)
    <3>1. \A i \in 1..Len(z.blocks) : z.blocks[i] = b
      BY <2>6, <2>9
    <3> QED
      BY <2>4, <3>1 DEF Unmarking
  <2> QED
    BY <2>8, <2>9, <2>10
<1>3. CASE m.role # "tool"
  <2>1. PICK bs : bs = ContentBlocks(m)
    OBVIOUS
  <2>2. PICK x, y : x = Body(m) /\ y = Calls(m)
    OBVIOUS
  <2>3. x \in Seq(ContentBlock) /\ y \in Seq(ToolCalls)
    BY <2>2, BodyTyped
  <2>4. PICK l, k \in Nat : l = Len(x) /\ k = Len(y)
    BY <2>3
  <2>5. /\ Len(bs) = l + k
        /\ \A i \in 1..l : bs[i] = Block(x[i])
        /\ \A i \in 1..k : bs[l + i] = Block(Use(y[i]))
    BY <2>1, <2>2, <2>4, ContentBlocksFresh DEF Fresh
  <2>6. ASSUME NEW i \in 1..(l + k) PROVE bs[i] \in MessageBlocks /\ ~ bs[i].cached
    <3>1. CASE i \in 1..l
      <4>1. x[i] \in Held
        BY <2>3, <2>4, <3>1 DEF Held
      <4> QED
        BY <1>1, <2>5, <3>1, <4>1
    <3>2. CASE i \notin 1..l
      <4>1. PICK j : j = i - l
        OBVIOUS
      <4>2. j \in 1..k /\ i = l + j
        BY <3>2, <4>1
      <4>3. Use(y[j]) \in Held
        BY <2>3, <2>4, <4>2 DEF Held
      <4> QED
        BY <1>1, <2>5, <4>2, <4>3
    <3> QED
      BY <3>1, <3>2
  <2>7. bs \in Seq(MessageBlocks)
    <3>1. PICK S : bs \in Seq(S)
      BY <2>1, ContentBlocksFresh DEF Fresh
    <3>2. PICK n \in Nat : n = l + k
      OBVIOUS
    <3>3. bs \in [1..n -> S]
      BY <2>5, <3>1, <3>2, LenProperties
    <3>4. bs \in [1..n -> MessageBlocks]
      BY <2>6, <3>2, <3>3
    <3> QED
      BY <3>4, SequenceLength
  <2>8. PICK bare \in BOOLEAN :
          BuildMessage(m, caching) =
            [role |-> IF m.role = "assistant" THEN "assistant" ELSE "user",
             form |-> IF bare THEN "string" ELSE "blocks", blocks |-> bs]
    BY <1>3, <2>1 DEF BuildMessage
  <2> QED
    BY <2>5, <2>6, <2>7, <2>8 DEF AnthropicMessages, Unmarking
<1> QED
  BY <1>2, <1>3

\* What a message holds, and so what is read in it, does not depend on its marks.
LEMMA BuiltRead ==
  ASSUME NEW m \in Constructed, m.role # "system", NEW caching \in BOOLEAN,
         NEW y \in AnthropicMessages, NEW S, Marks(y, BuildMessage(m, caching), S)
  PROVE  ReadAnthropicMessage(y) = Utterance(m)
<1>1. PICK n \in Nat : n = Len(y.blocks)
  BY DEF AnthropicMessages
<1>2. PICK cs : cs = [i \in 1..n |-> y.blocks[i].content]
  OBVIOUS
<1>3. cs \in [1..n -> Held] /\ cs \in Seq(Held) /\ Len(cs) = n
  <2>1. ASSUME NEW i \in 1..n PROVE y.blocks[i].content \in Held
    <3>1. y.blocks[i] \in MessageBlocks
      BY <1>1 DEF AnthropicMessages
    <3> QED
      BY <3>1 DEF MessageBlocks
  <2>2. cs \in [1..n -> Held]
    BY <1>2, <2>1
  <2> QED
    BY <2>2, SequenceLength
<1>4. PICK x : x = BuildMessage(m, caching)
  OBVIOUS
<1>5. /\ y.role = x.role /\ Len(x.blocks) = n
      /\ \A i \in 1..n : cs[i] = x.blocks[i].content
  BY <1>1, <1>2, <1>4 DEF Marks
<1>6. PICK uses : uses = Selection(cs, {i \in 1..n : cs[i].type = "tool_use"})
  OBVIOUS
<1>7. ReadAnthropicMessage(y) =
        IF \E c \in ToSet(cs) : c.type = "tool_result"
        THEN [speaker |-> "tool", parts |-> Spoken(<<TextBlock(cs[1].text)>>),
              calls |-> <<>>, answers |-> Some(cs[1].answers)]
        ELSE [speaker |-> y.role,
              parts |-> FlattenSeq([i \in 1..n |-> ReadAnthropicBlock(cs[i])]),
              calls |-> [i \in 1..Len(uses) |-> uses[i].call], answers |-> None]
  BY <1>1, <1>2, <1>3, <1>6 DEF ReadAnthropicMessage
<1>8. CASE m.role = "tool"
  <2>1. x.blocks = <<ToolResultBlock(m)>>
    BY <1>4, <1>8 DEF BuildMessage
  <2>a. PICK d : d = [type |-> "tool_result", text |-> m.content, failed |-> m.failed,
                      answers |-> OrDefault(m.answers, "")]
    OBVIOUS
  <2>b. ToolResultBlock(m).content = d
    BY <2>a DEF ToolResultBlock, Block
  <2>c. Len(x.blocks) = 1 /\ x.blocks[1].content = d
    BY <2>1, <2>b
  <2>2. n = 1 /\ cs[1] = d
    BY <1>5, <2>c
  <2>3. \E c \in ToSet(cs) : c.type = "tool_result"
    <3>1. 1 \in DOMAIN cs
      BY <1>3, <2>2
    <3>2. cs[1] \in ToSet(cs)
      BY <3>1 DEF ToSet
    <3>3. d.type = "tool_result"
      BY <2>a
    <3>4. d \in ToSet(cs)
      BY <2>2, <3>2
    <3> QED
      BY <3>3, <3>4
  <2>4. m.answers # None /\ m.answers \in Option(STRING) /\ m.calls = <<>> /\ m.blocks = <<>>
    BY <1>8, ConstructedFields DEF Consistent, IsSome
  <2>5. Some(cs[1].answers) = m.answers /\ cs[1].text = m.content
    <3>1. d.answers = m.answers[1] /\ d.text = m.content
      BY <2>a, <2>4 DEF OrDefault, IsSome
    <3>2. m.answers = Some(m.answers[1])
      BY <2>4, OptionOpens
    <3> QED
      BY <2>2, <3>1, <3>2
  <2>6. Says(Utterance(m), "tool", TextParts(m.content), <<>>, m.answers)
    BY <1>8, <2>4, PlainUtterance
  <2>7. Spoken(<<TextBlock(m.content)>>) = TextParts(m.content)
    BY TextPartsSpoken
  <2> QED
    BY <1>7, <2>3, <2>5, <2>6, <2>7 DEF Says
<1>9. CASE m.role # "tool"
  <2>1. x.blocks = ContentBlocks(m) /\ x.role = IF m.role = "assistant" THEN "assistant" ELSE "user"
    BY <1>4, <1>9 DEF BuildMessage
  <2>2. Fresh(x.blocks, m)
    BY <2>1, ContentBlocksFresh
  <2>3. Contents(cs, m)
    <3>1. PICK a, b : a = Body(m) /\ b = Calls(m)
      OBVIOUS
    <3>2. a \in Seq(ContentBlock) /\ b \in Seq(ToolCalls)
      BY <3>1, BodyTyped
    <3>3. PICK l, k \in Nat : l = Len(a) /\ k = Len(b)
      BY <3>2
    <3>4. /\ n = l + k
          /\ \A i \in 1..l : x.blocks[i] = Block(a[i])
          /\ \A i \in 1..k : x.blocks[l + i] = Block(Use(b[i]))
      BY <1>5, <2>2, <3>1, <3>3 DEF Fresh
    <3>a. \A c : Block(c).content = c
      BY DEF Block
    <3>5. ASSUME NEW i \in 1..l PROVE cs[i] = a[i]
      <4>1. i \in 1..n
        BY <3>4
      <4> QED
        BY <1>5, <3>a, <3>4, <4>1
    <3>6. ASSUME NEW i \in 1..k PROVE cs[l + i] = Use(b[i])
      <4>1. l + i \in 1..n
        BY <3>4
      <4> QED
        BY <1>5, <3>a, <3>4, <4>1
    <3> QED
      BY <1>3, <3>1, <3>3, <3>4, <3>5, <3>6 DEF Contents
  <2>4. /\ \A i \in 1..n : cs[i].type # "tool_result"
        /\ FlattenSeq([i \in 1..n |-> ReadAnthropicBlock(cs[i])]) = Spoken(Body(m))
        /\ [i \in 1..Len(uses) |-> uses[i].call] = m.calls
    <3>1. ReadAs(cs, n, m)
      BY <1>3, <1>9, <2>3, ContentsRead
    <3> QED
      BY <1>6, <3>1 DEF ReadAs
  <2>5. ~ \E c \in ToSet(cs) : c.type = "tool_result"
    BY <1>3, <2>4 DEF ToSet
  <2>6. y.role = m.role /\ m.answers = None
    <3>1. m.role \in {"system", "user", "assistant", "tool"} /\ Consistent(m)
      BY ConstructedFields
    <3> QED
      BY <1>5, <1>9, <2>1, <3>1 DEF Consistent, IsSome
  <2>7. Spoken(Body(m)) = Spoken(IF IsMultimodal(m) THEN m.blocks ELSE <<TextBlock(m.content)>>)
    BY BodyTyped
  <2> QED
    BY <1>7, <2>4, <2>5, <2>6, <2>7 DEF Utterance
<1> QED
  BY <1>8, <1>9

\* out renders the messages conv, with at most the last one's last slot marked.
MarkedAt(conv, caching, i) ==
  IF caching /\ i = Len(conv) THEN LastSlot(BuildMessage(conv[i], caching)) ELSE {}

Renders(out, conv, caching) ==
  /\ conv \in Seq(Constructed) /\ out \in Seq(AnthropicMessages) /\ Len(out) = Len(conv)
  /\ \A i \in 1..Len(conv) :
       /\ conv[i].role # "system"
       /\ Marks(out[i], BuildMessage(conv[i], caching), MarkedAt(conv, caching, i))

\* build_messages renders the conversation so.
LEMMA BuildMessagesRenders ==
  ASSUME NEW ms \in Seq(Constructed), NEW caching \in BOOLEAN
  PROVE  Renders(BuildMessages(ms, caching), ConversationMessages(ms), caching)
<1>1. PICK conv : conv = ConversationMessages(ms)
  OBVIOUS
<1>2. PICK I : I = {i \in 1..Len(ms) : ms[i].role # "system"}
  OBVIOUS
<1>3. conv = Selection(ms, I)
  BY <1>1, <1>2 DEF ConversationMessages
<1>4. conv \in Seq(Constructed) /\ AlikeIn(conv, conv, ms, ms, I)
  BY <1>3, SelectionAlike DEF Alike
<1>5. PICK n \in Nat : n = Len(conv)
  BY <1>4
<1>6. ASSUME NEW i \in 1..n PROVE conv[i] \in Constructed /\ conv[i].role # "system"
  <2>1. \E k \in I \cap 1..Len(ms) : conv[i] = ms[k]
    BY <1>4, <1>5 DEF AlikeIn
  <2> QED
    BY <1>2, <1>4, <1>5, <2>1
<1>7. PICK out : out = BuildMessages(ms, caching)
  OBVIOUS
<1>8. out = [i \in 1..n |-> LET message == BuildMessage(conv[i], caching)
                            IN  IF caching /\ i = n THEN MarkCacheBreakpoint(message) ELSE message]
  BY <1>1, <1>5, <1>7 DEF BuildMessages
<1>9. ASSUME NEW i \in 1..n
      PROVE  /\ out[i] \in AnthropicMessages
             /\ Marks(out[i], BuildMessage(conv[i], caching), MarkedAt(conv, caching, i))
  <2>1. PICK x : x = BuildMessage(conv[i], caching)
    OBVIOUS
  <2>2. x \in AnthropicMessages /\ Unmarking(x)
    BY <1>6, <2>1, BuildMessageTyped
  <2>3. CASE caching /\ i = n
    <3>1. out[i] = MarkCacheBreakpoint(x) /\ MarkedAt(conv, caching, i) = LastSlot(x)
      BY <1>5, <1>8, <2>1, <2>3 DEF MarkedAt
    <3> QED
      BY <2>1, <2>2, <3>1, MarkIsLastSlot
  <2>4. CASE ~ (caching /\ i = n)
    <3>1. out[i] = x /\ MarkedAt(conv, caching, i) = {}
      BY <1>5, <1>8, <2>1, <2>4 DEF MarkedAt
    <3>2. Marks(x, x, {})
      BY <2>2 DEF Marks, Unmarking
    <3> QED
      BY <2>1, <2>2, <3>1, <3>2
  <2> QED
    BY <2>3, <2>4
<1>10. out \in Seq(AnthropicMessages) /\ Len(out) = n
  <2>1. out \in [1..n -> AnthropicMessages]
    BY <1>8, <1>9
  <2> QED
    BY <2>1, SequenceLength
<1> QED
  BY <1>1, <1>4, <1>5, <1>6, <1>7, <1>9, <1>10 DEF Renders

\* A message is spoken by its role.
LEMMA SpeakerIsRole == \A m : Utterance(m).speaker = m.role
BY DEF Utterance

\* What an Anthropic request's messages say, and its system prompt.
LEMMA AnthropicReads ==
  ASSUME NEW ms \in Seq(Constructed), NEW s, Records(s, ms), NEW caching \in BOOLEAN,
         NEW out, out = BuildMessages(ms, caching)
  PROVE  [i \in 1..Len(out) |-> ReadAnthropicMessage(out[i])]
           = Selection(s, {i \in 1..Len(s) : s[i].speaker # "system"})
<1>1. PICK conv : conv = ConversationMessages(ms)
  OBVIOUS
<1>2. Renders(out, conv, caching)
  BY <1>1, BuildMessagesRenders
<1>3. PICK I : I = {i \in 1..Len(ms) : ms[i].role # "system"}
  OBVIOUS
<1>4. conv = Selection(ms, I)
  BY <1>1, <1>3 DEF ConversationMessages
<1>5. s \in Seq(Sayings) /\ Len(s) = Len(ms) /\ \A i \in 1..Len(ms) : s[i] = Utterance(ms[i])
  BY DEF Records
<1>6. {i \in 1..Len(s) : s[i].speaker # "system"} = I
  <2>1. \A i \in 1..Len(ms) : s[i].speaker = ms[i].role
    BY <1>5, SpeakerIsRole
  <2> QED
    BY <1>3, <1>5, <2>1
<1>7. PICK t : t = Selection(s, I)
  OBVIOUS
<1>8. t \in Seq(Sayings) /\ AlikeIn(conv, t, ms, s, I)
  BY <1>4, <1>5, <1>7, SelectionAlike DEF Alike
<1>9. PICK n \in Nat : n = Len(t) /\ n = Len(conv) /\ n = Len(out)
  BY <1>2, <1>8 DEF AlikeIn, Renders
<1>10. ASSUME NEW i \in 1..n PROVE ReadAnthropicMessage(out[i]) = t[i]
  <2>1. \E k \in I \cap 1..Len(ms) : conv[i] = ms[k] /\ t[i] = s[k]
    BY <1>8, <1>9 DEF AlikeIn
  <2>2. t[i] = Utterance(conv[i])
    BY <1>5, <2>1
  <2>3. /\ conv[i] \in Constructed /\ conv[i].role # "system" /\ out[i] \in AnthropicMessages
        /\ Marks(out[i], BuildMessage(conv[i], caching), MarkedAt(conv, caching, i))
    BY <1>2, <1>9 DEF Renders
  <2>4. ReadAnthropicMessage(out[i]) = Utterance(conv[i])
    BY <2>3, BuiltRead
  <2> QED
    BY <2>2, <2>4
<1>11. t \in [1..n -> Sayings]
  BY <1>8, <1>9, LenProperties
<1>12. [i \in 1..n |-> ReadAnthropicMessage(out[i])] = t
  BY <1>10, <1>11
<1> QED
  BY <1>6, <1>7, <1>9, <1>12

\* The system prompt that is sent is what the first system message says.
SystemSaid(system, s) ==
  LET systems == {i \in 1..Len(s) : s[i].speaker = "system"}
  IN  /\ IsSome(system) <=> systems # {}
      /\ systems # {} => s[Min(systems)].parts = Spoken(<<TextBlock(system[1].text)>>)

\* So it is with the text build_system takes.
LEMMA SystemReads ==
  ASSUME NEW ms \in Seq(Constructed), NEW s, Records(s, ms), NEW caching \in BOOLEAN
  PROVE  SystemSaid(BuildSystem(ms, caching), s)
<1>1. s \in Seq(Sayings) /\ Len(s) = Len(ms) /\ \A i \in 1..Len(ms) : s[i] = Utterance(ms[i])
  BY DEF Records
<1>2. PICK at : at = {i \in 1..Len(ms) : ms[i].role = "system"}
  OBVIOUS
<1>3. {i \in 1..Len(s) : s[i].speaker = "system"} = at
  <2>1. \A i \in 1..Len(ms) : s[i].speaker = ms[i].role
    BY <1>1, SpeakerIsRole
  <2> QED
    BY <1>1, <1>2, <2>1
<1>4. CASE at = {}
  <2>1. SystemMessage(ms) = None
    BY <1>2, <1>4 DEF SystemMessage
  <2>2. BuildSystem(ms, caching) = None
    BY <2>1 DEF BuildSystem, IsSome
  <2> QED
    BY <1>3, <1>4, <2>2 DEF SystemSaid, IsSome
<1>5. CASE at # {}
  <2>1. PICK m : m = ms[Min(at)]
    OBVIOUS
  <2>2. Min(at) \in at
    <3>1. at \in SUBSET Nat
      BY <1>2
    <3> QED
      BY <1>5, <3>1, MinIsLeast
  <2>3. m \in Constructed /\ m.role = "system" /\ s[Min(at)] = Utterance(m)
    BY <1>1, <1>2, <2>1, <2>2
  <2>4. m.blocks = <<>>
    BY <2>3, ConstructedFields DEF Consistent
  <2>5. SystemMessage(ms) = Some(m.content)
    BY <1>2, <1>5, <2>1 DEF SystemMessage
  <2>6. IsSome(SystemMessage(ms)) /\ SystemMessage(ms)[1] = m.content
    BY <2>5 DEF Some, IsSome, None
  <2>7. PICK sys : sys = BuildSystem(ms, caching)
    OBVIOUS
  <2>8. sys = Some([form |-> IF caching THEN "blocks" ELSE "string", text |-> m.content, cached |-> caching])
    BY <2>6, <2>7 DEF BuildSystem
  <2>9. IsSome(sys) /\ sys[1].text = m.content
    BY <2>8 DEF Some, IsSome, None
  <2>10. s[Min(at)].parts = TextParts(m.content)
    BY <2>3, <2>4, PlainUtterance DEF Says
  <2>11. Spoken(<<TextBlock(m.content)>>) = TextParts(m.content)
    BY TextPartsSpoken
  <2> QED
    BY <1>3, <1>5, <2>7, <2>9, <2>10, <2>11 DEF SystemSaid
<1> QED
  BY <1>4, <1>5

\* Every request says all that was said, in its dialect: nothing is lost between
\* the application, the tools, the replies and what is sent.
THEOREM EverythingIsSaid == Spec => []NothingIsLost
<1>1. ConversationInv => NothingIsLost
  <2> SUFFICES ASSUME ConversationInv, pc = "reply"
               PROVE  /\ Read(sent[Len(sent)].payload) = Conversed
                      /\ provider = "Anthropic" => SystemSaid(sent[Len(sent)].payload.system, said)
    BY DEF NothingIsLost, SystemSaid
  <2>1. /\ working \in Seq(Constructed) /\ Records(said, working) /\ ~ Unsupported(working)
        /\ sent[Len(sent)] = Request(working, tools) /\ config \in Configs
    BY DEF ConversationInv
  <2>2. PICK payload : payload = sent[Len(sent)].payload
    OBVIOUS
  <2>3. PICK caching \in BOOLEAN : caching = config.prompt_caching
    BY <2>1, ProviderRequestsAssumption
  <2>4. CASE provider = "Anthropic"
    <3>1. payload = AnthropicRequest(working, config, tools)
      BY <2>1, <2>2, <2>4 DEF Request
    <3>2. payload.messages = BuildMessages(working, caching) /\ payload.system = BuildSystem(working, caching)
      BY <2>3, <3>1 DEF AnthropicRequest
    <3>3. Read(payload) = Selection(said, {i \in 1..Len(said) : said[i].speaker # "system"})
      <4>1. PICK out : out = payload.messages
        OBVIOUS
      <4>2. [i \in 1..Len(out) |-> ReadAnthropicMessage(out[i])]
              = Selection(said, {i \in 1..Len(said) : said[i].speaker # "system"})
        BY <2>1, <3>2, <4>1, AnthropicReads
      <4> QED
        BY <2>4, <4>1, <4>2 DEF Read
    <3>4. Conversed = Selection(said, {i \in 1..Len(said) : said[i].speaker # "system"})
      BY <2>4 DEF Conversed
    <3>5. SystemSaid(payload.system, said)
      BY <2>1, <3>2, SystemReads
    <3> QED
      BY <2>2, <3>3, <3>4, <3>5
  <2>5. CASE provider # "Anthropic"
    <3>1. payload = ChatRequest(provider, working, config, tools)
      BY <2>1, <2>2, <2>5 DEF Request
    <3>2. PICK n \in Nat : n = Len(working)
      BY <2>1
    <3>3. PICK out : out = [i \in 1..n |-> ChatMessage(working[i])]
      OBVIOUS
    <3>4. payload.messages = out /\ Len(out) = n
      BY <3>1, <3>2, <3>3 DEF ChatRequest
    <3>5. said \in Seq(Sayings) /\ Len(said) = n /\ \A i \in 1..n : said[i] = Utterance(working[i])
      BY <2>1, <3>2 DEF Records
    <3>6. ASSUME NEW i \in 1..n PROVE ReadChatMessage(out[i]) = said[i]
      <4>1. working[i] \in Constructed /\ Attachment \notin ToSet(working[i].blocks)
        BY <2>1, <3>2 DEF Unsupported
      <4>2. ReadChatMessage(ChatMessage(working[i])) = Utterance(working[i])
        BY <4>1, ChatMessageRead
      <4> QED
        BY <3>3, <3>5, <4>2
    <3>7. said \in [1..n -> Sayings]
      BY <3>5, LenProperties
    <3>8. [i \in 1..n |-> ReadChatMessage(out[i])] = said
      BY <3>6, <3>7
    <3>9. Read(payload) = said
      BY <2>5, <3>4, <3>8 DEF Read
    <3>10. PICK I : I = {i \in 1..Len(said) : provider # "Anthropic" \/ said[i].speaker # "system"}
      OBVIOUS
    <3>11. 1..Len(said) \subseteq I
      BY <2>5, <3>10
    <3>12. Conversed = said
      <4>1. Selection(said, I) = said
        BY <3>5, <3>11, SelectionOfAll
      <4> QED
        BY <3>10, <4>1 DEF Conversed
    <3> QED
      BY <2>2, <2>5, <3>9, <3>12
  <2> QED
    BY <2>4, <2>5
<1> QED
  BY <1>1, ConversationIsRecorded, PTL

-----------------------------------------------------------------------------

\* The tools are p blocks, the system prompt q and each message those of M: what
\* `blocks` holds where, by the counts off.
Laid(blocks, payload, p, q, n, off) ==
  LET M == MessagePieces(payload)
  IN  /\ p = Len(payload.tools) /\ q = Len(payload.system) /\ n = Len(payload.messages)
      /\ Len(blocks) = p + q + off[n]
      /\ \A i \in 1..p : blocks[i] = ToolPieces(payload)[i]
      /\ \A i \in 1..q : blocks[p + i] = SystemPieces(payload)[i]
      /\ Layout(off, M, n, FlattenSeq(M))
      /\ \A k \in 1..n : \A j \in 1..Len(M[k]) : blocks[p + q + off[k - 1] + j] = M[k][j]

Sized(payload, p, q, n) ==
  /\ p = Len(payload.tools) /\ q = Len(payload.system) /\ n = Len(payload.messages)
  /\ \A k \in 1..n : Len(payload.messages[k].blocks) \in Nat

\* The blocks of a payload are laid so.
LEMMA FlattenedLaid ==
  ASSUME NEW payload, NEW p \in Nat, NEW q \in Nat, NEW n \in Nat, Sized(payload, p, q, n)
  PROVE  \E off \in [0..n -> Nat] : Laid(Flattened(payload), payload, p, q, n, off)
<1>1. PICK t, s, M : t = ToolPieces(payload) /\ s = SystemPieces(payload) /\ M = MessagePieces(payload)
  OBVIOUS
<1>2. PICK A : A = {t[i] : i \in 1..p} \cup {s[i] : i \in 1..q}
                     \cup UNION {{M[k][j] : j \in 1..Len(M[k])} : k \in 1..n}
  OBVIOUS
<1>3. t \in [1..p -> A] /\ s \in [1..q -> A]
  BY <1>1, <1>2 DEF ToolPieces, SystemPieces, Sized
<1>4. M \in [1..n -> Seq(A)]
  <2>1. ASSUME NEW k \in 1..n PROVE M[k] \in Seq(A)
    <3>1. PICK l \in Nat : l = Len(payload.messages[k].blocks)
      BY DEF Sized
    <3>2. PICK u : u = M[k]
      OBVIOUS
    <3>3. u \in [1..l -> {u[j] : j \in 1..l}]
      BY <1>1, <3>1, <3>2 DEF MessagePieces, Sized
    <3>4. Len(u) = l
      BY <3>3, SequenceLength
    <3>5. \A j \in 1..l : u[j] \in A
      BY <1>2, <3>2, <3>4
    <3>6. u \in [1..l -> A]
      BY <3>3, <3>5
    <3> QED
      BY <3>2, <3>6, SequenceLength
  <2>2. DOMAIN M = 1..n /\ M = [k \in 1..n |-> M[k]]
    BY <1>1 DEF MessagePieces, Sized
  <2> QED
    BY <2>1, <2>2
<1>5. t \in Seq(A) /\ Len(t) = p /\ s \in Seq(A) /\ Len(s) = q
  BY <1>3, SequenceLength
<1>6. PICK flat \in Seq(A) : flat = FlattenSeq(M)
  BY <1>4, FlattenSeqLayout
<1>7. PICK off \in [0..n -> Nat] : Layout(off, M, n, flat)
  BY <1>4, <1>6, FlattenSeqLayout
<1>8. PICK c : c = t \o s
  OBVIOUS
<1>9. c \in Seq(A) /\ Concatenated(c, t, s)
  BY <1>5, <1>8, ConcatPlaces
<1>10. PICK blocks : blocks = c \o flat
  OBVIOUS
<1>11. blocks \in Seq(A) /\ Concatenated(blocks, c, flat)
  BY <1>6, <1>9, <1>10, ConcatPlaces
<1>12. blocks = Flattened(payload)
  BY <1>1, <1>6, <1>8, <1>10 DEF Flattened
<1>13. Len(c) = p + q
  BY <1>5, <1>9 DEF Concatenated
<1>14. Len(flat) = off[n] /\ off[n] \in Nat
  BY <1>7 DEF Layout
<1>15. Len(blocks) = p + q + off[n]
  BY <1>11, <1>13, <1>14 DEF Concatenated
<1>16. ASSUME NEW i \in 1..p PROVE blocks[i] = t[i]
  <2>1. i \in 1..Len(c) /\ i \in 1..Len(t)
    BY <1>5, <1>13
  <2> QED
    BY <1>9, <1>11, <2>1 DEF Concatenated
<1>17. ASSUME NEW i \in 1..q PROVE blocks[p + i] = s[i]
  <2>a. p + i \in 1..(p + q)
    OBVIOUS
  <2>1. p + i \in 1..Len(c) /\ i \in 1..Len(s)
    BY <1>5, <1>13, <2>a
  <2>2. blocks[p + i] = c[p + i]
    BY <1>11, <2>1 DEF Concatenated
  <2>3. c[p + i] = s[i]
    BY <1>5, <1>9, <2>1 DEF Concatenated
  <2> QED
    BY <2>2, <2>3
<1>18. ASSUME NEW k \in 1..n, NEW j \in 1..Len(M[k])
       PROVE  blocks[p + q + off[k - 1] + j] = M[k][j]
  <2>1. off[k - 1] + j \in 1..off[n] /\ flat[off[k - 1] + j] = M[k][j]
    BY <1>7 DEF Layout
  <2>2. PICK x \in 1..off[n] : x = off[k - 1] + j
    BY <2>1
  <2>3. blocks[p + q + x] = flat[x]
    BY <1>11, <1>13, <1>14 DEF Concatenated
  <2>4. PICK o \in Nat : o = off[k - 1]
    <3>1. k - 1 \in 0..n
      OBVIOUS
    <3>2. off[k - 1] \in Nat
      BY <1>7, <3>1
    <3> QED
      BY <3>2
  <2>5. p + q + x = p + q + o + j
    <3>1. Len(M[k]) \in Nat
      BY <1>4
    <3>2. j \in Nat
      BY <3>1
    <3>3. x = o + j
      BY <2>2, <2>4
    <3> QED
      BY <3>2, <3>3
  <2> QED
    BY <2>1, <2>2, <2>3, <2>4, <2>5
<1>19. Laid(blocks, payload, p, q, n, off)
  BY <1>1, <1>6, <1>7, <1>15, <1>16, <1>17, <1>18 DEF Laid, Sized
<1> QED
  BY <1>12, <1>19

\* An order of the tools is a sequence, of one length.
LEMMA OrdersTyped ==
  ASSUME NEW order \in Orders
  PROVE  Len(order) \in Nat
<1>1. Cardinality(ToolNames) \in Nat
  BY ProviderRequestsAssumption, FS_CardinalityType
<1>2. order \in [1..Cardinality(ToolNames) -> ToolNames]
  BY DEF Orders, SetToSeqs
<1> QED
  BY <1>1, <1>2, SequenceLength

\* The breakpoints of a request: its last tool, its system prompt and the last
\* slot of its newest message, when caching is on.
Breakpoints(payload, conv, caching) ==
  /\ \A i \in 1..Len(payload.tools) :
       payload.tools[i].cached <=> caching /\ i = Len(payload.tools)
  /\ Len(payload.system) \in {0, 1}
  /\ \A i \in 1..Len(payload.system) : payload.system[i].cached <=> caching
  /\ Renders(payload.messages, conv, caching)

\* A request has its breakpoints there.
LEMMA RequestBreakpoints ==
  ASSUME NEW ms \in Seq(Constructed), NEW order \in Orders, NEW settings,
         NEW caching \in BOOLEAN, caching = settings.prompt_caching,
         NEW payload, payload = AnthropicRequest(ms, settings, order)
  PROVE  /\ Breakpoints(payload, ConversationMessages(ms), caching)
         /\ \E p, q, n \in Nat : Sized(payload, p, q, n)
<1>1. /\ payload.tools = BuildTools(order, caching) /\ payload.system = BuildSystem(ms, caching)
      /\ payload.messages = BuildMessages(ms, caching)
  BY DEF AnthropicRequest
<1>2. PICK p \in Nat : p = Len(order)
  BY OrdersTyped
<1>3. PICK tools_ : tools_ = [i \in 1..p |-> [name |-> order[i], cached |-> caching /\ i = p]]
  OBVIOUS
<1>4. payload.tools = tools_ /\ Len(tools_) = p
  BY <1>1, <1>2, <1>3 DEF BuildTools
<1>5. \A i \in 1..p : tools_[i].cached <=> caching /\ i = p
  BY <1>3
<1>6. PICK sys : sys = BuildSystem(ms, caching)
  OBVIOUS
<1>7. Len(sys) \in {0, 1} /\ \A i \in 1..Len(sys) : sys[i].cached <=> caching
  <2>1. CASE IsSome(SystemMessage(ms))
    <3>1. PICK r : r = [form |-> IF caching THEN "blocks" ELSE "string",
                        text |-> SystemMessage(ms)[1], cached |-> caching]
      OBVIOUS
    <3>2. sys = <<r>> /\ (r.cached <=> caching)
      BY <1>6, <2>1, <3>1 DEF BuildSystem, Some
    <3>3. Len(sys) = 1 /\ sys[1] = r
      BY <3>2
    <3> QED
      BY <3>2, <3>3
  <2>2. CASE ~ IsSome(SystemMessage(ms))
    <3>1. sys = <<>>
      BY <1>6, <2>2 DEF BuildSystem, None
    <3>2. Len(sys) = 0
      BY <3>1
    <3> QED
      BY <3>2
  <2> QED
    BY <2>1, <2>2
<1>8. Renders(payload.messages, ConversationMessages(ms), caching)
  BY <1>1, BuildMessagesRenders
<1>9. PICK out \in Seq(AnthropicMessages) : out = payload.messages
  BY <1>8 DEF Renders
<1>10. \A k \in 1..Len(out) : Len(out[k].blocks) \in Nat
  BY DEF AnthropicMessages
<1>11. PICK q, n \in Nat : q = Len(sys) /\ n = Len(out)
  BY <1>7, <1>9
<1>12. Sized(payload, p, q, n)
  BY <1>1, <1>4, <1>6, <1>9, <1>10, <1>11 DEF Sized
<1>13. Breakpoints(payload, ConversationMessages(ms), caching)
  BY <1>1, <1>4, <1>5, <1>6, <1>7, <1>8 DEF Breakpoints
<1> QED
  BY <1>12, <1>13

\* Where a request's blocks lie: first its tools, then its system prompt, then
\* those of message k after off[k - 1] others of messages.
PieceOf(message, k, j) ==
  Piece("message", <<k, message.role, message.form, message.blocks[j].content>>,
        message.blocks[j].cached)

Widths(off, messages, n) ==
  /\ off[0] = 0
  /\ \A k \in 1..n : off[k] = off[k - 1] + Len(messages[k].blocks)
  /\ \A a, b \in 0..n : a <= b => off[a] <= off[b]

Lies(blocks, payload, p, q, n, off) ==
  /\ Len(blocks) = p + q + off[n]
  /\ \A i \in 1..p : blocks[i] = Piece("tool", payload.tools[i].name, payload.tools[i].cached)
  /\ \A i \in 1..q : blocks[p + i] = Piece("system", payload.system[i].text, payload.system[i].cached)
  /\ \A k \in 1..n : \A j \in 1..Len(payload.messages[k].blocks) :
       /\ off[k - 1] + j \in 1..off[n]
       /\ blocks[p + q + off[k - 1] + j] = PieceOf(payload.messages[k], k, j)
  /\ \A i \in 1..off[n] :
       \E k \in 1..n : \E j \in 1..Len(payload.messages[k].blocks) : i = off[k - 1] + j
  /\ Widths(off, payload.messages, n)

\* The blocks of a request lie so.
LEMMA FlattenedLies ==
  ASSUME NEW payload, NEW p \in Nat, NEW q \in Nat, NEW n \in Nat, Sized(payload, p, q, n)
  PROVE  \E off \in [0..n -> Nat] : Lies(Flattened(payload), payload, p, q, n, off)
<1>1. PICK off \in [0..n -> Nat] : Laid(Flattened(payload), payload, p, q, n, off)
  BY FlattenedLaid
<1>2. PICK blocks, M : blocks = Flattened(payload) /\ M = MessagePieces(payload)
  OBVIOUS
<1>3. ASSUME NEW k \in 1..n
      PROVE  /\ Len(M[k]) = Len(payload.messages[k].blocks)
             /\ \A j \in 1..Len(M[k]) : M[k][j] = PieceOf(payload.messages[k], k, j)
  <2>1. PICK l \in Nat : l = Len(payload.messages[k].blocks)
    BY DEF Sized
  <2>2. PICK u : u = M[k]
    OBVIOUS
  <2>3. u = [j \in 1..l |-> PieceOf(payload.messages[k], k, j)]
    BY <1>2, <2>1, <2>2 DEF MessagePieces, Sized, PieceOf
  <2>4. u \in [1..l -> {u[j] : j \in 1..l}]
    BY <2>3
  <2>5. Len(u) = l
    BY <2>4, SequenceLength
  <2> QED
    BY <2>1, <2>2, <2>3, <2>5
<1>4. Layout(off, M, n, FlattenSeq(M)) /\ Len(blocks) = p + q + off[n]
  BY <1>1, <1>2 DEF Laid
<1>5. ASSUME NEW i \in 1..p
      PROVE  blocks[i] = Piece("tool", payload.tools[i].name, payload.tools[i].cached)
  BY <1>1, <1>2 DEF Laid, ToolPieces
<1>6. ASSUME NEW i \in 1..q
      PROVE  blocks[p + i] = Piece("system", payload.system[i].text, payload.system[i].cached)
  BY <1>1, <1>2 DEF Laid, SystemPieces
<1>7. ASSUME NEW k \in 1..n, NEW j \in 1..Len(payload.messages[k].blocks)
      PROVE  /\ off[k - 1] + j \in 1..off[n]
             /\ blocks[p + q + off[k - 1] + j] = PieceOf(payload.messages[k], k, j)
  <2>1. j \in 1..Len(M[k]) /\ M[k][j] = PieceOf(payload.messages[k], k, j)
    BY <1>3
  <2>2. off[k - 1] + j \in 1..off[n]
    BY <1>4, <2>1 DEF Layout
  <2>3. blocks[p + q + off[k - 1] + j] = M[k][j]
    BY <1>1, <1>2, <2>1 DEF Laid
  <2> QED
    BY <2>1, <2>2, <2>3
<1>8. ASSUME NEW i \in 1..off[n]
      PROVE  \E k \in 1..n : \E j \in 1..Len(payload.messages[k].blocks) : i = off[k - 1] + j
  <2>1. PICK k \in 1..n : \E j \in 1..Len(M[k]) : i = off[k - 1] + j
    BY <1>4 DEF Layout
  <2> QED
    BY <1>3, <2>1
<1>9. Widths(off, payload.messages, n)
  BY <1>3, <1>4 DEF Widths, Layout, Offsets
<1>10. Lies(blocks, payload, p, q, n, off)
  BY <1>4, <1>5, <1>6, <1>7, <1>8, <1>9 DEF Lies
<1> QED
  BY <1>2, <1>10

\* The blocks of a message that say something, and the last of them.
Full(x) == {j \in 1..Len(x.blocks) : x.blocks[j].content # TextBlock(<<>>)}
LastFull(x) == {j \in Full(x) : \A i \in Full(x) : i <= j}

MarksNewest(out, n, caching) ==
  \A k \in 1..n : \A j \in 1..Len(out[k].blocks) :
    out[k].blocks[j].cached <=> caching /\ k = n /\ j \in LastFull(out[k])

\* With caching every message goes out as blocks.
LEMMA CachingSendsBlocks ==
  ASSUME NEW m
  PROVE  BuildMessage(m, TRUE).form = "blocks"
BY DEF BuildMessage

\* A block has a slot unless it is an empty text.
LEMMA SlotUnlessEmpty ==
  ASSUME NEW b, b.content \in Held
  PROVE  HasSlot(b) <=> b.content # TextBlock(<<>>)
<1>1. PICK c \in Held : c = b.content
  OBVIOUS
<1>2. CASE c \in ContentBlock
  <2>1. CASE c \in [type : {"text"}, text : Seq(STRING)]
    <3>1. c = [type |-> "text", text |-> c.text]
      BY <2>1
    <3>2. c = TextBlock(<<>>) <=> c.text = <<>>
      BY <3>1 DEF TextBlock
    <3> QED
      BY <1>1, <3>1, <3>2 DEF HasSlot
  <2>2. CASE c.type # "text"
    BY <1>1, <2>2 DEF HasSlot, TextBlock
  <2> QED
    BY <1>2, <2>1, <2>2 DEF ContentBlock, Attachment
<1>3. CASE c.type # "text"
  BY <1>1, <1>3 DEF HasSlot, TextBlock
<1>4. CASE c \in {Use(call) : call \in ToolCalls}
  BY <1>3, <1>4 DEF Use
<1>5. CASE c \in {ToolResultBlock(m).content : m \in Constructed}
  <2>1. PICK m \in Constructed : c = ToolResultBlock(m).content
    BY <1>5
  <2>2. c.type = "tool_result"
    BY <2>1 DEF ToolResultBlock, Block
  <2> QED
    BY <1>3, <2>2
<1> QED
  BY <1>2, <1>4, <1>5 DEF Held

\* What is marked of a conversation is the last block that says something of
\* its newest message, when caching is on.
LEMMA NewestIsMarked ==
  ASSUME NEW conv, NEW out, NEW caching \in BOOLEAN, Renders(out, conv, caching),
         NEW n \in Nat, n = Len(out)
  PROVE  MarksNewest(out, n, caching)
<1>1. Len(conv) = n
  BY DEF Renders
<1> SUFFICES ASSUME NEW k \in 1..n, NEW j \in 1..Len(out[k].blocks)
             PROVE  out[k].blocks[j].cached <=> caching /\ k = n /\ j \in LastFull(out[k])
  BY DEF MarksNewest
<1>2. PICK x, y : x = BuildMessage(conv[k], caching) /\ y = out[k]
  OBVIOUS
<1>3. Marks(y, x, MarkedAt(conv, caching, k))
  BY <1>1, <1>2 DEF Renders
<1>4. Len(x.blocks) = Len(y.blocks) /\ (y.blocks[j].cached <=> j \in MarkedAt(conv, caching, k))
  BY <1>2, <1>3 DEF Marks
<1>5. CASE ~ (caching /\ k = n)
  <2>1. MarkedAt(conv, caching, k) = {}
    BY <1>1, <1>5 DEF MarkedAt
  <2> QED
    BY <1>2, <1>4, <1>5, <2>1
<1>6. CASE caching /\ k = n
  <2>1. MarkedAt(conv, caching, k) = LastSlot(x)
    BY <1>1, <1>2, <1>6 DEF MarkedAt
  <2>2. x.form = "blocks"
    BY <1>2, <1>6, CachingSendsBlocks
  <2>3. ASSUME NEW i \in 1..Len(y.blocks)
        PROVE  HasSlot(x.blocks[i]) <=> y.blocks[i].content # TextBlock(<<>>)
    <3>1. y \in AnthropicMessages
      BY <1>2 DEF Renders
    <3>2. y.blocks \in Seq(MessageBlocks)
      BY <3>1 DEF AnthropicMessages
    <3>3. y.blocks[i] \in MessageBlocks
      BY <3>2
    <3>4. y.blocks[i].content \in Held /\ x.blocks[i].content = y.blocks[i].content
      BY <1>3, <1>4, <3>3 DEF MessageBlocks, Marks
    <3> QED
      BY <3>4, SlotUnlessEmpty
  <2>4. Slots(x) = Full(y)
    BY <1>4, <2>2, <2>3 DEF Slots, Full
  <2>5. LastSlot(x) = LastFull(y)
    BY <2>4 DEF LastSlot, LastFull
  <2> QED
    BY <1>2, <1>4, <1>6, <2>1, <2>5
<1> QED
  BY <1>5, <1>6

\* A block of a message is the one at its place.
IsOf(block, messages, k, j) ==
  /\ block.part = "message" /\ block.item[1] = k
  /\ block.item[4] = messages[k].blocks[j].content
  /\ block.cached = messages[k].blocks[j].cached

OnMessage(blocks, messages, start, off, n, i) ==
  \E k \in 1..n : \E j \in 1..Len(messages[k].blocks) :
    i = start + off[k - 1] + j /\ IsOf(blocks[i], messages, k, j)

OnTool(blocks, listed, p, i) ==
  i \in 1..p /\ blocks[i].part = "tool" /\ blocks[i].cached = listed[i].cached

OnSystem(blocks, system, p, q, i) ==
  /\ i - p \in 1..q /\ blocks[i].part = "system"
  /\ blocks[i].cached = system[i - p].cached

\* Every block of a request is a tool's, the system prompt's or a message's.
LEMMA BlockLies ==
  ASSUME NEW payload, NEW p \in Nat, NEW q \in Nat, NEW n \in Nat, NEW off \in [0..n -> Nat],
         NEW blocks, Lies(blocks, payload, p, q, n, off), NEW i \in 1..Len(blocks)
  PROVE  \/ OnTool(blocks, payload.tools, p, i)
         \/ OnSystem(blocks, payload.system, p, q, i)
         \/ OnMessage(blocks, payload.messages, p + q, off, n, i)
<1>1. PICK l \in Nat : l = off[n]
  OBVIOUS
<1>2. Len(blocks) = p + q + l
  BY <1>1 DEF Lies
<1>3. CASE i \in 1..p
  <2>1. blocks[i] = Piece("tool", payload.tools[i].name, payload.tools[i].cached)
    BY <1>3 DEF Lies
  <2>2. OnTool(blocks, payload.tools, p, i)
    BY <1>3, <2>1 DEF OnTool, Piece
  <2> QED
    BY <2>2
<1>4. CASE i - p \in 1..q
  <2>1. PICK s \in 1..q : s = i - p
    BY <1>4
  <2>2. i = p + s
    BY <1>2, <2>1
  <2>3. blocks[i] = Piece("system", payload.system[s].text, payload.system[s].cached)
    BY <2>2 DEF Lies
  <2>4. OnSystem(blocks, payload.system, p, q, i)
    BY <2>1, <2>3 DEF OnSystem, Piece
  <2> QED
    BY <2>4
<1>5. CASE i - p - q \in 1..l
  <2>1. PICK s \in 1..l : s = i - p - q
    BY <1>5
  <2>2. PICK k \in 1..n : \E j \in 1..Len(payload.messages[k].blocks) : s = off[k - 1] + j
    BY <1>1 DEF Lies
  <2>3. PICK j \in 1..Len(payload.messages[k].blocks) : s = off[k - 1] + j
    BY <2>2
  <2>4. blocks[p + q + off[k - 1] + j] = PieceOf(payload.messages[k], k, j)
    BY DEF Lies
  <2>5. PICK o \in Nat : o = off[k - 1]
    <3>1. k - 1 \in 0..n
      OBVIOUS
    <3> QED
      BY <3>1
  <2>6. i = p + q + o + j
    <3>1. j \in Int
      OBVIOUS
    <3>2. s = o + j
      BY <2>3, <2>5
    <3>3. i \in Int /\ s \in Int /\ i = s + p + q
      BY <1>2, <2>1
    <3> QED
      BY <3>1, <3>2, <3>3
  <2>7. i = p + q + off[k - 1] + j /\ blocks[i] = PieceOf(payload.messages[k], k, j)
    BY <2>4, <2>5, <2>6
  <2>8. IsOf(blocks[i], payload.messages, k, j)
    BY <2>7 DEF IsOf, PieceOf, Piece
  <2>9. OnMessage(blocks, payload.messages, p + q, off, n, i)
    BY <2>7, <2>8 DEF OnMessage
  <2> QED
    BY <2>9
<1> QED
  BY <1>2, <1>3, <1>4, <1>5

\* A set no two of whose elements differ has at most one.
LEMMA AtMostOne ==
  ASSUME NEW S, \A x, y \in S : x = y
  PROVE  Cardinality(S) <= 1
<1>1. CASE S = {}
  BY <1>1, FS_EmptySet
<1>2. CASE S # {}
  <2>1. PICK x \in S : S = {x}
    BY <1>2
  <2> QED
    BY <2>1, FS_Singleton
<1> QED
  BY <1>1, <1>2

\* A property of a request's blocks: BreakpointsArePlaced, of one request.
WellPlaced(blocks, last, caching) ==
  LET empty(i) == blocks[i].item[4] = TextBlock(<<>>)
  IN  IF ~ caching THEN Marked(blocks) = {}
      ELSE /\ \A i \in Marked(blocks) : blocks[i].part = "message" =>
                /\ blocks[i].item[1] = last
                /\ ~ empty(i)
                /\ \A j \in (i + 1)..Len(blocks) : empty(j)
           /\ \A part \in {"tool", "system", "message"} :
                Cardinality({i \in Marked(blocks) : blocks[i].part = part}) <= 1
           /\ \A i \in 1..Len(blocks) :
                blocks[i].part = "message" /\ blocks[i].item[1] = last /\ ~ empty(i) =>
                  \E j \in Marked(blocks) : j >= i

MarkedWhere(payload, p, q, n, caching) ==
  /\ \A i \in 1..p : payload.tools[i].cached <=> caching /\ i = p
  /\ q \in {0, 1}
  /\ \A i \in 1..q : payload.system[i].cached <=> caching
  /\ n = Len(payload.messages) /\ MarksNewest(payload.messages, n, caching)
  /\ \A k \in 1..n : Len(payload.messages[k].blocks) \in Nat

\* A request whose tools, system prompt and messages are marked so is marked
\* where it should be.
LEMMA MarksAreWellPlaced ==
  ASSUME NEW payload, NEW p \in Nat, NEW q \in Nat, NEW n \in Nat, NEW off \in [0..n -> Nat],
         NEW blocks, Lies(blocks, payload, p, q, n, off),
         NEW caching \in BOOLEAN, MarkedWhere(payload, p, q, n, caching)
  PROVE  WellPlaced(blocks, n, caching)
<1>1. PICK start \in Nat : start = p + q
  OBVIOUS
<1>2. PICK out, tl, sys : out = payload.messages /\ tl = payload.tools /\ sys = payload.system
  OBVIOUS
<1>3. ASSUME NEW i \in 1..Len(blocks)
      PROVE  OnTool(blocks, tl, p, i) \/ OnSystem(blocks, sys, p, q, i) \/ OnMessage(blocks, out, start, off, n, i)
  BY <1>1, <1>2, BlockLies
<1>4. Len(blocks) \in Nat /\ Len(blocks) = start + off[n]
  BY <1>1 DEF Lies
<1>5. \A k \in 1..n : off[k - 1] \in Nat /\ off[k] \in Nat /\ Len(out[k].blocks) \in Nat
  <2>1. \A k \in 1..n : k - 1 \in 0..n /\ k \in 0..n
    OBVIOUS
  <2> QED
    BY <1>2, <2>1 DEF MarkedWhere
<1>6. ASSUME NEW i \in 1..Len(blocks), blocks[i].part = "message"
      PROVE  OnMessage(blocks, out, start, off, n, i)
  BY <1>3, <1>6 DEF OnTool, OnSystem
<1>7. ASSUME NEW i \in 1..Len(blocks), blocks[i].part = "tool"
      PROVE  i \in 1..p /\ blocks[i].cached = tl[i].cached
  BY <1>3, <1>7 DEF OnMessage, IsOf, OnTool, OnSystem
<1>8. ASSUME NEW i \in 1..Len(blocks), blocks[i].part = "system"
      PROVE  i - p \in 1..q /\ blocks[i].cached = sys[i - p].cached
  BY <1>3, <1>8 DEF OnMessage, IsOf, OnTool, OnSystem
<1>9. CASE ~ caching
  <2>1. ASSUME NEW i \in 1..Len(blocks) PROVE ~ blocks[i].cached
    <3>1. CASE OnTool(blocks, tl, p, i)
      BY <1>2, <1>9, <3>1 DEF OnTool, MarkedWhere
    <3>2. CASE OnSystem(blocks, sys, p, q, i)
      BY <1>2, <1>9, <3>2 DEF OnSystem, MarkedWhere
    <3>3. CASE OnMessage(blocks, out, start, off, n, i)
      <4>1. PICK k \in 1..n : \E j \in 1..Len(out[k].blocks) : IsOf(blocks[i], out, k, j)
        BY <3>3 DEF OnMessage
      <4>2. PICK j \in 1..Len(out[k].blocks) : IsOf(blocks[i], out, k, j)
        BY <4>1
      <4>3. ~ out[k].blocks[j].cached
        BY <1>2, <1>9 DEF MarkedWhere, MarksNewest
      <4> QED
        BY <4>2, <4>3 DEF IsOf
    <3> QED
      BY <1>3, <3>1, <3>2, <3>3
  <2>2. Marked(blocks) = {}
    BY <2>1 DEF Marked
  <2> QED
    BY <1>9, <2>2 DEF WellPlaced
<1>10. CASE caching
  <2>1. ASSUME NEW i \in Marked(blocks), blocks[i].part = "message"
        PROVE  \E j \in LastFull(out[n]) : /\ n \in 1..n /\ j \in 1..Len(out[n].blocks)
                                           /\ i = start + off[n - 1] + j /\ IsOf(blocks[i], out, n, j)
    <3>1. i \in 1..Len(blocks) /\ blocks[i].cached
      BY DEF Marked
    <3>2. PICK k \in 1..n : \E j \in 1..Len(out[k].blocks) :
                              i = start + off[k - 1] + j /\ IsOf(blocks[i], out, k, j)
      BY <1>6, <2>1, <3>1 DEF OnMessage
    <3>3. PICK j \in 1..Len(out[k].blocks) : i = start + off[k - 1] + j /\ IsOf(blocks[i], out, k, j)
      BY <3>2
    <3>4. out[k].blocks[j].cached
      BY <3>1, <3>3 DEF IsOf
    <3>5. k = n /\ j \in LastFull(out[k])
      BY <1>2, <3>4 DEF MarkedWhere, MarksNewest
    <3> QED
      BY <3>3, <3>5
  <2>2. ASSUME NEW i \in Marked(blocks), blocks[i].part = "message",
               NEW m \in (i + 1)..Len(blocks)
        PROVE  blocks[m].item[4] = TextBlock(<<>>)
    <3>1. PICK j \in LastFull(out[n]) : /\ n \in 1..n /\ j \in 1..Len(out[n].blocks)
                                        /\ i = start + off[n - 1] + j
      BY <2>1, <2>2
    <3>2. i \in 1..Len(blocks)
      BY DEF Marked
    <3>3. m \in 1..Len(blocks) /\ m > i
      BY <1>4, <3>2
    <3>4. PICK o \in Nat, l \in Nat : o = off[n - 1] /\ l = Len(out[n].blocks)
      BY <1>5, <3>1
    <3>5. j \in 1..l /\ i = start + o + j
      BY <3>1, <3>4
    <3>6. ~ OnTool(blocks, tl, p, m)
      BY <1>1, <3>3, <3>5 DEF OnTool
    <3>7. ~ OnSystem(blocks, sys, p, q, m)
      BY <1>1, <3>3, <3>5 DEF OnSystem
    <3>8. PICK k \in 1..n : \E h \in 1..Len(out[k].blocks) :
                              m = start + off[k - 1] + h /\ IsOf(blocks[m], out, k, h)
      BY <1>3, <3>3, <3>6, <3>7 DEF OnMessage
    <3>9. PICK h \in 1..Len(out[k].blocks) : m = start + off[k - 1] + h /\ IsOf(blocks[m], out, k, h)
      BY <3>8
    <3>10. PICK a \in Nat, b \in Nat, w \in Nat : a = off[k - 1] /\ b = off[k] /\ w = Len(out[k].blocks)
      BY <1>5
    <3>11. b = a + w /\ h \in 1..w /\ m = start + a + h
      BY <1>2, <3>9, <3>10 DEF Lies, Widths
    <3>12. k = n
      <4>1. CASE k <= n - 1
        <5>1. k \in 0..n /\ n - 1 \in 0..n
          BY <4>1
        <5>2. b <= o
          BY <3>4, <3>10, <4>1, <5>1 DEF Lies, Widths
        <5> QED
          BY <3>3, <3>5, <3>11, <5>2
      <4> QED
        BY <4>1
    <3>13. h > j /\ h \in 1..l
      <4>1. a = o /\ w = l
        BY <3>4, <3>10, <3>12
      <4>2. h \in 1..l /\ m = start + o + h
        BY <3>11, <4>1
      <4> QED
        BY <3>3, <3>5, <4>2
    <3>14. h \notin Full(out[n])
      <4>1. \A x \in Full(out[n]) : x <= j
        BY <3>1 DEF LastFull
      <4> QED
        BY <3>5, <3>13, <4>1
    <3>15. out[n].blocks[h].content = TextBlock(<<>>)
      BY <3>4, <3>13, <3>14 DEF Full
    <3> QED
      BY <3>9, <3>12, <3>15 DEF IsOf
  <2>3. ASSUME NEW i \in Marked(blocks), blocks[i].part = "message"
        PROVE  blocks[i].item[1] = n /\ blocks[i].item[4] # TextBlock(<<>>)
    <3>1. PICK j \in LastFull(out[n]) : IsOf(blocks[i], out, n, j)
      BY <2>1, <2>3
    <3>2. out[n].blocks[j].content # TextBlock(<<>>)
      BY DEF LastFull, Full
    <3> QED
      BY <3>1, <3>2 DEF IsOf
  <2>4. ASSUME NEW part \in {"tool", "system", "message"}
        PROVE  Cardinality({i \in Marked(blocks) : blocks[i].part = part}) <= 1
    <3>1. SUFFICES ASSUME NEW x \in Marked(blocks), NEW y \in Marked(blocks),
                          blocks[x].part = part, blocks[y].part = part
                   PROVE  x = y
      <4>1. PICK S : S = {i \in Marked(blocks) : blocks[i].part = part}
        OBVIOUS
      <4>2. \A x, y \in S : x = y
        BY <3>1, <4>1
      <4>3. Cardinality(S) <= 1
        BY <4>2, AtMostOne
      <4> QED
        BY <4>1, <4>3
    <3>2. /\ x \in 1..Len(blocks) /\ blocks[x].cached
          /\ y \in 1..Len(blocks) /\ blocks[y].cached
      BY DEF Marked
    <3>3. CASE part = "tool"
      BY <1>2, <1>7, <3>1, <3>2, <3>3 DEF MarkedWhere
    <3>4. CASE part = "system"
      <4>1. x - p \in 1..q /\ y - p \in 1..q
        BY <1>8, <3>1, <3>2, <3>4
      <4>2. q \in {0, 1}
        BY DEF MarkedWhere
      <4>3. x \in Int /\ y \in Int
        BY <3>2
      <4> QED
        BY <4>1, <4>2, <4>3
    <3>5. CASE part = "message"
      <4>1. PICK a \in LastFull(out[n]) : a \in 1..Len(out[n].blocks) /\ x = start + off[n - 1] + a
        BY <2>1, <3>1, <3>5
      <4>2. PICK b \in LastFull(out[n]) : b \in 1..Len(out[n].blocks) /\ y = start + off[n - 1] + b
        BY <2>1, <3>1, <3>5
      <4>3. a = b
        <5>1. a <= b /\ b <= a
          BY DEF LastFull
        <5> QED
          BY <4>1, <4>2, <5>1
      <4> QED
        BY <4>1, <4>2, <4>3
    <3> QED
      BY <3>3, <3>4, <3>5
  <2>5. ASSUME NEW i \in 1..Len(blocks), blocks[i].part = "message", blocks[i].item[1] = n,
               blocks[i].item[4] # TextBlock(<<>>)
        PROVE  \E j \in Marked(blocks) : j >= i
    <3>1. PICK k \in 1..n : \E j \in 1..Len(out[k].blocks) :
                              i = start + off[k - 1] + j /\ IsOf(blocks[i], out, k, j)
      BY <1>6, <2>5 DEF OnMessage
    <3>2. PICK j \in 1..Len(out[k].blocks) : i = start + off[k - 1] + j /\ IsOf(blocks[i], out, k, j)
      BY <3>1
    <3>3. k = n
      BY <2>5, <3>2 DEF IsOf
    <3>4. PICK l \in Nat, o \in Nat : l = Len(out[n].blocks) /\ o = off[n - 1]
      BY <1>5, <3>3
    <3>5. Full(out[n]) \in SUBSET (1..l) /\ j \in Full(out[n])
      BY <2>5, <3>2, <3>3, <3>4 DEF IsOf, Full
    <3>6. PICK h \in Full(out[n]) : \A x \in Full(out[n]) : x <= h
      BY <3>5, GreatestElement
    <3>7. h \in LastFull(out[n]) /\ h \in 1..l /\ j <= h /\ j \in 1..l
      BY <3>5, <3>6 DEF LastFull
    <3>8. out[n].blocks[h].cached
      BY <1>2, <1>10, <3>3, <3>4, <3>7 DEF MarkedWhere, MarksNewest
    <3>9. PICK m : m = start + o + h
      OBVIOUS
    <3>10. m \in Nat /\ m >= i /\ i = start + o + j
      <4>1. i = start + o + j
        BY <3>2, <3>3, <3>4
      <4> QED
        BY <3>7, <3>9, <4>1
    <3>11. o + h \in 1..off[n] /\ blocks[p + q + o + h] = PieceOf(out[n], n, h)
      BY <1>2, <3>3, <3>4, <3>7 DEF Lies
    <3>12. m \in 1..Len(blocks)
      <4>1. PICK e \in Nat : e = off[n]
        OBVIOUS
      <4> QED
        BY <1>4, <3>9, <3>11, <3>7, <4>1
    <3>13. blocks[m] = PieceOf(out[n], n, h)
      BY <1>1, <3>9, <3>11
    <3>14. blocks[m].cached
      BY <3>8, <3>13 DEF PieceOf, Piece
    <3>15. m \in Marked(blocks)
      BY <3>12, <3>14 DEF Marked
    <3> QED
      BY <3>10, <3>15
  <2> QED
    BY <1>10, <2>2, <2>3, <2>4, <2>5 DEF WellPlaced
<1> QED
  BY <1>9, <1>10

\* BreakpointsArePlaced (anthropic.rs, build_request): a request without
\* caching carries no breakpoint; with caching it carries at most one on its
\* tools, one on its system prompt and one on its messages, the last on the last
\* block of the newest message that says something.
THEOREM BreakpointsPlaced == Spec => []BreakpointsArePlaced
<1>1. ConversationInv => BreakpointsArePlaced
  <2> SUFFICES ASSUME ConversationInv, provider = "Anthropic", NEW k \in 1..Len(sent)
               PROVE  WellPlaced(Flattened(sent[k].payload), Len(sent[k].payload.messages),
                                 config.prompt_caching)
    BY DEF BreakpointsArePlaced, WellPlaced
  <2>1. config.prompt_caching \in BOOLEAN
    BY ProviderRequestsAssumption DEF ConversationInv
  <2>2. sent[k] \in Requests
    BY DEF ConversationInv
  <2>3. PICK ms \in Seq(Constructed), order \in Orders : sent[k] = Request(ms, order)
    BY <2>2 DEF Requests
  <2>4. PICK payload : payload = sent[k].payload
    OBVIOUS
  <2>5. payload = AnthropicRequest(ms, config, order)
    BY <2>3, <2>4 DEF Request
  <2>6. PICK caching \in BOOLEAN : caching = config.prompt_caching
    BY <2>1
  <2>7. /\ Breakpoints(payload, ConversationMessages(ms), caching)
        /\ \E p, q, n \in Nat : Sized(payload, p, q, n)
    BY <2>5, <2>6, RequestBreakpoints
  <2>8. PICK p, q, n \in Nat : Sized(payload, p, q, n)
    BY <2>7
  <2>9. MarksNewest(payload.messages, n, caching)
    BY <2>7, <2>8, NewestIsMarked DEF Breakpoints, Sized
  <2>10. MarkedWhere(payload, p, q, n, caching)
    BY <2>7, <2>8, <2>9 DEF MarkedWhere, Breakpoints, Sized
  <2>11. PICK off \in [0..n -> Nat] : Lies(Flattened(payload), payload, p, q, n, off)
    BY <2>8, FlattenedLies
  <2>12. WellPlaced(Flattened(payload), n, caching)
    BY <2>10, <2>11, MarksAreWellPlaced
  <2> QED
    BY <2>4, <2>6, <2>8, <2>12 DEF Sized
<1> QED
  BY <1>1, ConversationIsRecorded, PTL

\* What two requests say alike.
RepeatedMessages(now, then, n) ==
  \A k \in 1..n :
    /\ now[k].role = then[k].role /\ now[k].form = then[k].form
    /\ Len(now[k].blocks) \in Nat /\ Len(now[k].blocks) = Len(then[k].blocks)
    /\ \A j \in 1..Len(now[k].blocks) : now[k].blocks[j].content = then[k].blocks[j].content

Repeating(blocks, more) ==
  /\ Len(blocks) \in Nat /\ Len(more) \in Nat /\ Len(blocks) <= Len(more)
  /\ \A i \in 1..Len(blocks) : more[i].part = blocks[i].part /\ more[i].item = blocks[i].item

\* The blocks of a request that repeats another's tools, system prompt and
\* messages begin with the other's blocks.
LEMMA BlocksRepeat ==
  ASSUME NEW then, NEW now, then.tools = now.tools, then.system = now.system,
         NEW p \in Nat, NEW q \in Nat, NEW n \in Nat, NEW m \in Nat, n <= m,
         NEW f \in [0..n -> Nat], NEW g \in [0..m -> Nat],
         NEW blocks, NEW more, Lies(blocks, then, p, q, n, f), Lies(more, now, p, q, m, g),
         RepeatedMessages(now.messages, then.messages, n)
  PROVE  Repeating(blocks, more)
<1>1. PICK old, new : old = then.messages /\ new = now.messages
  OBVIOUS
<1>2. Agree(f, g, n)
  <2>1. PICK u, v : u = [k \in 1..n |-> old[k].blocks] /\ v = [k \in 1..m |-> new[k].blocks]
    OBVIOUS
  <2>2. Offsets(f, u, n) /\ Offsets(g, v, m)
    BY <1>1, <2>1 DEF Offsets, Lies, Widths
  <2>3. ASSUME NEW k \in 1..n PROVE Len(u[k]) = Len(v[k])
    <3>1. k \in 1..m
      OBVIOUS
    <3>2. u[k] = old[k].blocks /\ v[k] = new[k].blocks
      BY <2>1, <3>1
    <3> QED
      BY <1>1, <3>2 DEF RepeatedMessages
  <2>4. SameLengths(u, v, n)
    BY <2>3 DEF SameLengths
  <2> QED
    BY <2>2, <2>4, CountsAgree
<1>3. PICK a \in Nat, b \in Nat : a = f[n] /\ b = g[m]
  OBVIOUS
<1>4. Len(blocks) = p + q + a /\ Len(more) = p + q + b
  BY <1>3 DEF Lies
<1>5. a <= b
  <2>1. n \in 0..m /\ m \in 0..m /\ n \in 0..n
    OBVIOUS
  <2>2. f[n] = g[n]
    BY <1>2, <2>1 DEF Agree
  <2>3. g[n] <= g[m]
    BY <2>1 DEF Lies, Widths
  <2> QED
    BY <1>3, <2>2, <2>3
<1>6. ASSUME NEW i \in 1..Len(blocks)
      PROVE  more[i].part = blocks[i].part /\ more[i].item = blocks[i].item
  <2>1. CASE i \in 1..p
    <3>1. /\ blocks[i] = Piece("tool", then.tools[i].name, then.tools[i].cached)
          /\ more[i] = Piece("tool", now.tools[i].name, now.tools[i].cached)
      BY <2>1 DEF Lies
    <3> QED
      BY <3>1 DEF Piece
  <2>2. CASE i - p \in 1..q
    <3>1. PICK s \in 1..q : s = i - p
      BY <2>2
    <3>2. i = p + s
      BY <1>4, <3>1
    <3>3. /\ blocks[p + s] = Piece("system", then.system[s].text, then.system[s].cached)
          /\ more[p + s] = Piece("system", now.system[s].text, now.system[s].cached)
      BY DEF Lies
    <3> QED
      BY <3>2, <3>3 DEF Piece
  <2>3. CASE i - p - q \in 1..a
    <3>1. PICK s \in 1..a : s = i - p - q
      BY <2>3
    <3>2. PICK k \in 1..n : \E j \in 1..Len(old[k].blocks) : s = f[k - 1] + j
      BY <1>1, <1>3 DEF Lies
    <3>3. PICK j \in 1..Len(old[k].blocks) : s = f[k - 1] + j
      BY <3>2
    <3>4. k \in 1..m /\ k - 1 \in 0..n
      OBVIOUS
    <3>5. PICK o \in Nat : o = f[k - 1] /\ o = g[k - 1]
      BY <1>2, <3>4 DEF Agree
    <3>6. j \in Int /\ s = o + j
      BY <3>3, <3>5
    <3>7. i \in Int /\ i = p + q + o + j
      BY <1>4, <3>1, <3>6
    <3>8. j \in 1..Len(new[k].blocks)
      BY <1>1 DEF RepeatedMessages
    <3>9. blocks[p + q + f[k - 1] + j] = PieceOf(old[k], k, j)
      BY <1>1 DEF Lies
    <3>10. more[p + q + g[k - 1] + j] = PieceOf(new[k], k, j)
      BY <1>1, <3>4, <3>8 DEF Lies
    <3>11. blocks[i] = PieceOf(old[k], k, j) /\ more[i] = PieceOf(new[k], k, j)
      BY <3>5, <3>7, <3>9, <3>10
    <3>12. /\ new[k].role = old[k].role /\ new[k].form = old[k].form
           /\ new[k].blocks[j].content = old[k].blocks[j].content
      BY <1>1, <3>8 DEF RepeatedMessages
    <3> QED
      BY <3>11, <3>12 DEF PieceOf, Piece
  <2> QED
    BY <1>4, <2>1, <2>2, <2>3
<1> QED
  BY <1>4, <1>5, <1>6 DEF Repeating

\* Messages built alike are sent alike, whichever of them is marked.
LEMMA MessagesRepeat ==
  ASSUME NEW conv, NEW longer, Starts(conv, longer), NEW caching \in BOOLEAN, NEW out, NEW later,
         Renders(out, conv, caching), Renders(later, longer, caching)
  PROVE  /\ Len(out) <= Len(later)
         /\ RepeatedMessages(later, out, Len(out))
<1>1. PICK n, m \in Nat : n = Len(out) /\ m = Len(later) /\ n = Len(conv) /\ m = Len(longer)
  BY DEF Renders
<1>2. n <= m /\ \A k \in 1..n : longer[k] = conv[k]
  BY <1>1 DEF Starts
<1>3. ASSUME NEW k \in 1..n
      PROVE  /\ later[k].role = out[k].role /\ later[k].form = out[k].form
             /\ Len(later[k].blocks) \in Nat /\ Len(later[k].blocks) = Len(out[k].blocks)
             /\ \A j \in 1..Len(later[k].blocks) :
                  later[k].blocks[j].content = out[k].blocks[j].content
  <2>1. PICK x : x = BuildMessage(conv[k], caching)
    OBVIOUS
  <2>2. k \in 1..m
    BY <1>2
  <2>3. \E S : Marks(out[k], x, S)
    BY <1>1, <2>1 DEF Renders
  <2>4. \E S : Marks(later[k], x, S)
    BY <1>1, <1>2, <2>1, <2>2 DEF Renders
  <2>5. out[k] \in AnthropicMessages
    BY <1>1 DEF Renders
  <2>6. Len(out[k].blocks) \in Nat
    BY <2>5 DEF AnthropicMessages
  <2> QED
    BY <2>3, <2>4, <2>6 DEF Marks
<1> QED
  BY <1>1, <1>2, <1>3 DEF RepeatedMessages

\* What a request caches is a prefix of the blocks of one that repeats it.
LEMMA CacheIsRead ==
  ASSUME NEW then, NEW now, NEW blocks, NEW more, blocks = Flattened(then), more = Flattened(now),
         Repeating(blocks, more)
  PROVE  IsPrefix(CachedPrefix(then), Unmarked(more))
<1>1. PICK n, m \in Nat : n = Len(blocks) /\ m = Len(more) /\ n <= m
  BY DEF Repeating
<1>2. PICK u, v : u = Unmarked(blocks) /\ v = Unmarked(more)
  OBVIOUS
<1>3. /\ u \in [1..n -> {u[i] : i \in 1..n}] /\ v \in [1..m -> {v[i] : i \in 1..m}]
      /\ \A i \in 1..n : u[i] = v[i]
  BY <1>1, <1>2 DEF Unmarked, Repeating
<1>4. PICK A : A = {u[i] : i \in 1..n} \cup {v[i] : i \in 1..m}
  OBVIOUS
<1>5. u \in [1..n -> A] /\ v \in [1..m -> A]
  BY <1>3, <1>4
<1>6. u \in Seq(A) /\ Len(u) = n /\ v \in Seq(A) /\ Len(v) = m
  BY <1>5, SequenceLength
<1>7. CASE Marked(blocks) = {}
  <2>1. CachedPrefix(then) = <<>>
    BY <1>7 DEF CachedPrefix
  <2>2. IsPrefix(<<>>, v)
    BY <1>6 DEF IsPrefix
  <2> QED
    BY <1>2, <2>1, <2>2
<1>8. CASE Marked(blocks) # {}
  <2>1. Marked(blocks) \in SUBSET (1..n)
    BY <1>1 DEF Marked
  <2>2. \E i \in Marked(blocks) : \A j \in Marked(blocks) : j <= i
    BY <1>8, <2>1, GreatestElement
  <2>3. PICK e : e = CHOOSE i \in Marked(blocks) : \A j \in Marked(blocks) : j <= i
    OBVIOUS
  <2>4. e \in 1..n
    BY <2>1, <2>2, <2>3
  <2>5. CachedPrefix(then) = SubSeq(u, 1, e)
    BY <1>2, <1>8, <2>3 DEF CachedPrefix
  <2>6. PICK w : w = SubSeq(u, 1, e)
    OBVIOUS
  <2>7. w \in Seq(A) /\ Len(w) = e /\ \A i \in 1..e : w[i] = v[i]
    <3>1. w = [i \in 1..e |-> u[i]] /\ e \in Nat /\ e <= n
      BY <1>6, <2>4, <2>6
    <3>2. \A i \in 1..e : i \in 1..n /\ u[i] \in A
      BY <1>5, <3>1
    <3>3. w \in [1..e -> A]
      BY <3>1, <3>2
    <3> QED
      BY <1>3, <3>1, <3>2, <3>3, SequenceLength
  <2>8. e <= m /\ SubSeq(w, 1, e) = SubSeq(v, 1, e)
    <3>1. e \in Nat /\ e <= n /\ e <= m
      BY <1>1, <2>4
    <3>2. PICK x, y : x = SubSeq(w, 1, e) /\ y = SubSeq(v, 1, e)
      OBVIOUS
    <3>3. /\ x = [i \in 1..e |-> w[i]]
          /\ y = [i \in 1..e |-> v[i]]
      BY <1>6, <2>7, <3>1, <3>2
    <3> QED
      BY <2>7, <3>1, <3>2, <3>3
  <2>9. IsPrefix(w, v)
    BY <1>6, <2>7, <2>8 DEF IsPrefix
  <2> QED
    BY <1>2, <2>5, <2>6, <2>9
<1> QED
  BY <1>7, <1>8

\* CachedPrefixIsStable (anthropic.rs, build_message: "the request that marks it
\* and every later request that repeats it differ by the cache_control key
\* alone"): what one request caches, each later request that repeats its
\* messages, its system prompt and its tools begins with.
THEOREM CacheIsStable == Spec => []CachedPrefixIsStable
<1>1. ConversationInv => CachedPrefixIsStable
  <2> SUFFICES ASSUME ConversationInv, provider = "Anthropic",
                      NEW j \in 1..Len(sent), NEW i \in 1..(j - 1),
                      Repeats(sent[j], sent[i]), sent[i].tools = sent[j].tools
               PROVE  ReadsTheCache(sent[j], sent[i])
    BY DEF CachedPrefixIsStable
  <2>1. PICK caching \in BOOLEAN : caching = config.prompt_caching
    BY ProviderRequestsAssumption DEF ConversationInv
  <2>2. sent[j] \in Requests /\ sent[i] \in Requests
    <3>1. Len(sent) \in Nat /\ i \in 1..Len(sent)
      BY DEF ConversationInv
    <3> QED
      BY <3>1 DEF ConversationInv
  <2>3. PICK ms \in Seq(Constructed), order \in Orders : sent[i] = Request(ms, order)
    BY <2>2 DEF Requests
  <2>4. PICK longer \in Seq(Constructed), again \in Orders : sent[j] = Request(longer, again)
    BY <2>2 DEF Requests
  <2>5. PICK then, now : then = sent[i].payload /\ now = sent[j].payload
    OBVIOUS
  <2>6. /\ sent[i].prompt = ms /\ sent[j].prompt = longer /\ again = order
        /\ then = AnthropicRequest(ms, config, order) /\ now = AnthropicRequest(longer, config, order)
    BY <2>3, <2>4, <2>5 DEF Request
  <2>7. IsPrefix(ms, longer) /\ SystemMessage(ms) = SystemMessage(longer)
    BY <2>6 DEF Repeats
  <2>8. Kept(ms, longer)
    <3>1. PICK n, m \in Nat : n = Len(ms) /\ m = Len(longer)
      OBVIOUS
    <3>2. n <= m /\ SubSeq(ms, 1, n) = SubSeq(longer, 1, n)
      BY <2>7, <3>1 DEF IsPrefix
    <3>3. ASSUME NEW k \in 1..n PROVE longer[k] = ms[k]
      <4>1. SubSeq(ms, 1, n)[k] = ms[k] /\ SubSeq(longer, 1, n)[k] = longer[k]
        BY <3>1, <3>2
      <4> QED
        BY <3>2, <4>1
    <3> QED
      BY <3>1, <3>2, <3>3 DEF Kept
  <2>9. PICK conv, more : conv = ConversationMessages(ms) /\ more = ConversationMessages(longer)
    OBVIOUS
  <2>10. Starts(conv, more)
    <3>1. PICK I, J : /\ I = {k \in 1..Len(ms) : ms[k].role # "system"}
                      /\ J = {k \in 1..Len(longer) : longer[k].role # "system"}
      OBVIOUS
    <3>2. Len(ms) <= Len(longer) /\ \A k \in 1..Len(ms) : ms[k] = longer[k] /\ (k \in I <=> k \in J)
      BY <2>8, <3>1 DEF Kept
    <3>3. Starts(Selection(ms, I), Selection(longer, J))
      BY <3>2, SelectionExtends
    <3> QED
      BY <2>9, <3>1, <3>3 DEF ConversationMessages
  <2>11. then.system = now.system /\ then.tools = now.tools
    BY <2>6, <2>7 DEF AnthropicRequest, BuildSystem
  <2>12. /\ Breakpoints(then, conv, caching) /\ Breakpoints(now, more, caching)
         /\ \E p, q, n \in Nat : Sized(then, p, q, n)
         /\ \E p, q, n \in Nat : Sized(now, p, q, n)
    BY <2>1, <2>6, <2>9, RequestBreakpoints
  <2>13. PICK p, q, n \in Nat : Sized(then, p, q, n)
    BY <2>12
  <2>14. PICK m \in Nat : Sized(now, p, q, m)
    BY <2>11, <2>12, <2>13 DEF Sized
  <2>15. n <= m /\ RepeatedMessages(now.messages, then.messages, n)
    BY <2>10, <2>12, <2>13, <2>14, MessagesRepeat DEF Breakpoints, Sized
  <2>16. PICK blocks, rest : blocks = Flattened(then) /\ rest = Flattened(now)
    OBVIOUS
  <2>17. PICK f \in [0..n -> Nat] : Lies(blocks, then, p, q, n, f)
    BY <2>13, <2>16, FlattenedLies
  <2>18. PICK g \in [0..m -> Nat] : Lies(rest, now, p, q, m, g)
    BY <2>14, <2>16, FlattenedLies
  <2>19. Repeating(blocks, rest)
    BY <2>11, <2>15, <2>17, <2>18, BlocksRepeat
  <2>20. IsPrefix(CachedPrefix(then), Unmarked(rest))
    BY <2>16, <2>19, CacheIsRead
  <2> QED
    BY <2>5, <2>16, <2>20 DEF ReadsTheCache
<1> QED
  BY <1>1, ConversationIsRecorded, PTL

=============================================================================
