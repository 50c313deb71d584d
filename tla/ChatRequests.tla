---------------------------- MODULE ChatRequests ----------------------------
(***************************************************************************)
(* The Chat Completions dialect: build_chat_request, shared by the OpenAI  *)
(* and the OpenAI-compatible providers, and OpenRouterProvider's own       *)
(* build_request, which renders messages, tools and formats alike.         *)
(* Sampling settings and stream options are left out: they are copied.     *)
(***************************************************************************)
EXTENDS Messages, Naturals

\* OpenAIImageUrl: inline data becomes a data URL.
ImageReference(block) ==
  [type |-> "image_url",
   url  |-> IF block.source = "base64" THEN <<"data:", block.data>> ELSE <<block.data>>]

ChatBlock(block) == IF block.type = "image" THEN ImageReference(block) ELSE block

\* OpenAIMessageContent, absent when there is nothing to say.
ChatContent(m) ==
  IF IsMultimodal(m)
  THEN Some([form |-> "blocks", blocks |-> [i \in 1..Len(m.blocks) |-> ChatBlock(m.blocks[i])]])
  ELSE IF m.content # <<>> THEN Some([form |-> "text", text |-> m.content])
  ELSE None

\* Mutated: only an assistant with nothing to say sends its calls.
ChatMessageCallsAlone(m) ==
  [role |-> m.role, content |-> ChatContent(m), answers |-> m.answers,
   calls |-> IF IsSome(ChatContent(m)) THEN <<>> ELSE m.calls]

\* OpenAIMessage: a failed tool result looks like any other.
ChatMessage(m) ==
  [role |-> m.role, content |-> ChatContent(m), answers |-> m.answers, calls |-> m.calls]

\* OpenAIResponseFormat: a schema takes precedence over JSON mode.
ResponseFormat(config) ==
  CASE config.json_schema                      -> "json_schema"
    [] config.json_mode /\ ~ config.json_schema -> "json_object"
    [] OTHER                                    -> "none"

\* ChatRequestOptions: only a compatible endpoint is not asked to be strict.
StrictSchema(provider) == provider # "OpenAICompatible"

ChatRequest(provider, prompt, config, tools) ==
  [messages |-> [i \in 1..Len(prompt) |-> ChatMessage(prompt[i])],
   tools |-> tools,
   format |-> ResponseFormat(config),
   strict |-> config.json_schema /\ StrictSchema(provider)]

-----------------------------------------------------------------------------

\* OpenAIResponse: choices of a content and tool calls, both optional.  A
\* call's arguments are a string, "bad" when it is not JSON.
ChatChoice == [content : Option(Seq(STRING)), calls : Seq(ToolCalls)]
Choice(content, calls) == [content |-> content, calls |-> calls]

\* parse_response: the first choice; without one, or with arguments that do not
\* parse, an Error::Request.
ParsesAsChat(body) ==
  body # <<>> /\ \A i \in 1..Len(body[1].calls) : body[1].calls[i].arguments # "bad"

ParseChat(body) ==
  AssistantWithToolCalls(OrDefault(body[1].content, <<>>), body[1].calls)

=============================================================================
