------------------------- MODULE AnthropicRequests --------------------------
(***************************************************************************)
(* The Messages API dialect: AnthropicProvider::build_request renders a    *)
(* prompt, with the breakpoints of prompt caching, and parse_response      *)
(* reads the reply.  Sampling settings are left out: they are copied.      *)
(***************************************************************************)
EXTENDS Messages, Naturals

\* AnthropicContentBlock: what it is, and its `cache_control`.
Block(content) == [content |-> content, cached |-> FALSE]

ToolUse(call) == Block([type |-> "tool_use", call |-> call])
ToolResultBlock(m) ==
  Block([type |-> "tool_result", text |-> m.content, failed |-> m.failed,
         answers |-> OrDefault(m.answers, "")])

\* cache_control_slot: empty text cannot be cached.
HasSlot(block) == block.content.type = "text" => block.content.text # <<>>

\* The text or the blocks of a message, and of an assistant its calls.
ContentBlocks(m) ==
  (IF IsMultimodal(m) THEN [i \in 1..Len(m.blocks) |-> Block(m.blocks[i])]
   ELSE IF m.content # <<>> THEN <<Block(TextBlock(m.content))>>
   ELSE <<>>)
  \o (IF m.role = "assistant" THEN [i \in 1..Len(m.calls) |-> ToolUse(m.calls[i])] ELSE <<>>)

\* build_message: a lone text goes out as a bare string unless caching is on.
BuildMessage(m, caching) ==
  IF m.role = "tool"
  THEN [role |-> "user", form |-> "blocks", blocks |-> <<ToolResultBlock(m)>>]
  ELSE LET blocks == ContentBlocks(m)
           bare   == /\ ~ caching
                     /\ Len(blocks) = 1
                     /\ blocks[1].content.type = "text"
                     /\ m.calls = <<>>
       IN  [role |-> IF m.role = "assistant" THEN "assistant" ELSE "user",
            form |-> IF bare THEN "string" ELSE "blocks",
            blocks |-> blocks]

\* Mutated: the first block of the message is marked.
MarkFirst(message) ==
  [message EXCEPT !.blocks =
     IF @ # <<>> /\ HasSlot(@[1]) THEN [@ EXCEPT ![1].cached = TRUE] ELSE @]

\* mark_cache_breakpoint: the last block that can carry one.
MarkCacheBreakpoint(message) ==
  LET slots == {i \in 1..Len(message.blocks) : HasSlot(message.blocks[i])}
  IN  IF message.form = "string" \/ slots = {} THEN message
      ELSE [message EXCEPT !.blocks[CHOOSE i \in slots : \A j \in slots : j <= i].cached = TRUE]

\* Mutated: only the marked message is sent as blocks.
BuildMessagesMarkingLast(prompt, caching) ==
  LET said == ConversationMessages(prompt)
  IN  [i \in 1..Len(said) |->
         IF caching /\ i = Len(said)
         THEN MarkCacheBreakpoint(BuildMessage(said[i], TRUE))
         ELSE BuildMessage(said[i], FALSE)]

\* The conversation, its newest message marked when caching is on.
BuildMessages(prompt, caching) ==
  LET said == ConversationMessages(prompt)
  IN  [i \in 1..Len(said) |->
         LET message == BuildMessage(said[i], caching)
         IN  IF caching /\ i = Len(said) THEN MarkCacheBreakpoint(message) ELSE message]

\* AnthropicSystemPrompt
BuildSystem(prompt, caching) ==
  LET text == SystemMessage(prompt)
  IN  IF IsSome(text)
      THEN Some([form |-> IF caching THEN "blocks" ELSE "string",
                 text |-> text[1], cached |-> caching])
      ELSE None

\* AnthropicToolDefinition: the last one is marked.
BuildTools(tools, caching) ==
  [i \in 1..Len(tools) |-> [name |-> tools[i], cached |-> caching /\ i = Len(tools)]]

\* AnthropicOutputConfig::from_config: a schema only.
OutputFormat(config) == IF config.json_schema THEN "json_schema" ELSE "none"

\* AnthropicProvider::build_request; no tools is None, not an empty list.
AnthropicRequest(prompt, config, tools) ==
  [system |-> BuildSystem(prompt, config.prompt_caching),
   messages |-> BuildMessages(prompt, config.prompt_caching),
   tools |-> BuildTools(tools, config.prompt_caching),
   format |-> OutputFormat(config)]

-----------------------------------------------------------------------------

\* AnthropicResponseContentBlock: every field but the type is optional.
ResponseText(t) == [type |-> "text", text |-> Some(t)]
ResponseToolUse(id, name, input) ==
  [type |-> "tool_use", id |-> id, name |-> name, input |-> input]
ResponseOther == [type |-> "thinking"]
ResponseTextless == [type |-> "text", text |-> None]

ResponseContentBlock ==
  [type : {"text"}, text : Option(Seq(STRING))]
    \cup [type : {"tool_use"}, id : Option(STRING), name : Option(STRING), input : Option(STRING)]
    \cup {ResponseOther}

\* parse_response: the texts are joined, incomplete calls are left out, an
\* absent input is null, blocks of other types are ignored.
ParseAnthropic(body) ==
  LET text(b) == IF b.type = "text" THEN OrDefault(b.text, <<>>) ELSE <<>>
      call(b) == IF b.type = "tool_use" /\ IsSome(b.id) /\ IsSome(b.name)
                 THEN <<ToolCall(b.id[1], b.name[1], OrDefault(b.input, "null"))>> ELSE <<>>
  IN  AssistantWithToolCalls(FlattenSeq([i \in 1..Len(body) |-> text(body[i])]),
                             FlattenSeq([i \in 1..Len(body) |-> call(body[i])]))

=============================================================================
