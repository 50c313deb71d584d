-------------------------- MODULE ProviderRequests --------------------------
(***************************************************************************)
(* A conversation held through generate(), with tools: the application     *)
(* adds a message to its prompt and asks; the client renders the whole     *)
(* prompt in its provider's dialect, reads the reply, runs the tools it    *)
(* calls and asks again, until a reply calls none; the application keeps   *)
(* that reply, with or without the rounds before it, and goes on.          *)
(*                                                                         *)
(* Failures of the request itself are ToolLoop's and ProviderCall's; here  *)
(* a reply is well-formed HTTP whose body may still not make a Response.   *)
(***************************************************************************)
EXTENDS AnthropicRequests, ChatRequests, FiniteSets

CONSTANTS Providers,    \* the providers a conversation may be held with
          Openings,     \* the messages a conversation begins with
          Utterances,   \* the messages the application adds
          Configs,      \* the generation configs
          ToolNames,    \* the registered tools
          Bodies,       \* the bodies a provider of each dialect replies with
          MaxRequests   \* bound: requests in one conversation

DialectOf(p) == IF p = "Anthropic" THEN "anthropic" ELSE "chat"

ASSUME ProviderRequestsAssumption ==
  /\ Providers \subseteq {"Anthropic", "OpenAI", "OpenRouter", "OpenAICompatible"}
  /\ Openings \subseteq Seq(Constructed)
  /\ Utterances \subseteq Constructed
  /\ Configs \subseteq [prompt_caching : BOOLEAN, json_schema : BOOLEAN, json_mode : BOOLEAN]
  /\ IsFiniteSet(ToolNames)
  /\ Bodies["anthropic"] \subseteq Seq(ResponseContentBlock)
  /\ Bodies["chat"] \subseteq Seq(ChatChoice)
  /\ MaxRequests \in Nat
  /\ {"null", "done", "failed"} \subseteq STRING  \* which no prover knows of its literals

VARIABLES
  provider,     \* the model's provider
  config,       \* the GenerationConfig, one for the conversation
  perRequest,   \* whether the tools are given to each request anew
  tools,        \* ToolRegistry::definitions(), in the registry's order
  prompt,       \* the application's Prompt
  working,      \* prompt_with_tools of the generate() in progress
  pending,      \* the calls of the last reply
  pc,           \* where the conversation stands
  said,         \* history: what each message of `working` says
  sent          \* history: the requests sent

vars == <<provider, config, perRequest, tools, prompt, working, pending, pc, said, sent>>

\* A HashMap lists its keys in an order of its own.
Orders == SetToSeqs(ToolNames)

\* The blocks that say something.
Spoken(blocks) == Selection(blocks, {i \in 1..Len(blocks) : blocks[i] # TextBlock(<<>>)})

\* What a message says, read off the message alone.
Utterance(m) ==
  [speaker |-> m.role,
   parts   |-> Spoken(IF IsMultimodal(m) THEN m.blocks ELSE <<TextBlock(m.content)>>),
   calls   |-> m.calls,
   answers |-> m.answers]

Init ==
  /\ provider \in Providers
  /\ config \in Configs
  /\ perRequest \in BOOLEAN
  /\ tools \in Orders
  /\ prompt \in Openings
  /\ working = prompt
  /\ pending = <<>>
  /\ pc = "idle"
  /\ said = [i \in 1..Len(prompt) |-> Utterance(prompt[i])]
  /\ sent = <<>>

-----------------------------------------------------------------------------

\* push_message and generate(): definitions() is read once, from the client's
\* registry or from one built for this request.
Ask(m) ==
  /\ pc = "idle"
  /\ Len(sent) < MaxRequests
  /\ prompt' = Append(prompt, m)
  /\ working' = prompt'
  /\ said' = Append(said, Utterance(m))
  /\ tools' \in IF perRequest THEN Orders ELSE {tools}
  /\ pc' = "request"
  /\ UNCHANGED <<provider, config, perRequest, pending, sent>>

Render ==
  IF provider = "Anthropic"
  THEN AnthropicRequest(working, config, tools)
  ELSE ChatRequest(provider, working, config, tools)

\* generate_once_internal: build_request() panics on a block it cannot render.
Send ==
  /\ pc = "request"
  /\ Len(sent) < MaxRequests
  /\ IF Unsupported(working)
     THEN pc' = "panicked" /\ UNCHANGED sent
     ELSE /\ pc' = "reply"
          /\ sent' = Append(sent, [prompt |-> working, tools |-> tools, payload |-> Render])
  /\ UNCHANGED <<provider, config, perRequest, tools, prompt, working, pending, said>>

Parses(body) == provider # "Anthropic" => ParsesAsChat(body)
Parsed(body) == IF provider = "Anthropic" THEN ParseAnthropic(body) ELSE ParseChat(body)

\* The body says these texts and these calls.
SaidByAnthropic(body) ==
  LET texts == Selection(body, {i \in 1..Len(body) :
                 body[i].type = "text" /\ body[i].text \notin {None, Some(<<>>)}})
      uses  == Selection(body, {i \in 1..Len(body) :
                 body[i].type = "tool_use" /\ None \notin {body[i].id, body[i].name}})
      whole == FlattenSeq([i \in 1..Len(texts) |-> texts[i].text[1]])
  IN  [speaker |-> "assistant",
       parts   |-> IF texts = <<>> THEN <<>> ELSE <<TextBlock(whole)>>,
       calls   |-> [i \in 1..Len(uses) |->
                      ToolCall(uses[i].id[1], uses[i].name[1],
                               IF uses[i].input = None THEN "null" ELSE uses[i].input[1])],
       answers |-> None]

SaidByChat(body) ==
  [speaker |-> "assistant",
   parts   |-> IF body[1].content \in {None, Some(<<>>)} THEN <<>>
               ELSE <<TextBlock(body[1].content[1])>>,
   calls   |-> body[1].calls,
   answers |-> None]

SaidBy(body) == IF provider = "Anthropic" THEN SaidByAnthropic(body) ELSE SaidByChat(body)

\* A reply that makes no Response fails the call.
ReplyFails(body) ==
  /\ pc = "reply"
  /\ ~ Parses(body)
  /\ pc' = "failed"
  /\ UNCHANGED <<provider, config, perRequest, tools, prompt, working, pending, said, sent>>

\* A reply that calls tools: its message joins prompt_with_tools.
ReplyCalls(body) ==
  /\ pc = "reply"
  /\ Parses(body)
  /\ Parsed(body).calls # <<>>
  /\ working' = Append(working, Parsed(body))
  /\ pending' = Parsed(body).calls
  /\ said' = Append(said, SaidBy(body))
  /\ pc' = "tools"
  /\ UNCHANGED <<provider, config, perRequest, tools, prompt, sent>>

\* Any other reply is the result.  The application keeps it, after all that
\* was sent or after its own prompt.
ReplyAnswers(body) ==
  /\ pc = "reply"
  /\ Parses(body)
  /\ Parsed(body).calls = <<>>
  /\ \E kept \in {prompt, working} :
       /\ prompt' = Append(kept, Parsed(body))
       /\ working' = prompt'
       /\ said' = Append(SubSeq(said, 1, Len(kept)), SaidBy(body))
  /\ pc' = "idle"
  /\ UNCHANGED <<provider, config, perRequest, tools, pending, sent>>

\* Each call is answered, by a result or an error.
RunTools(failed) ==
  /\ pc = "tools"
  /\ LET answer(call) == IF failed THEN ToolError(<<"failed">>, call.id)
                                   ELSE ToolResult(<<"done">>, call.id)
         answers == [i \in 1..Len(pending) |-> answer(pending[i])]
     IN  /\ working' = working \o answers
         /\ said' = said \o [i \in 1..Len(answers) |-> Utterance(answers[i])]
  /\ pending' = <<>>
  /\ pc' = "request"
  /\ UNCHANGED <<provider, config, perRequest, tools, prompt, sent>>

Next ==
  \/ \E m \in Utterances : Ask(m)
  \/ Send
  \/ \E body \in Bodies[DialectOf(provider)] :
       ReplyFails(body) \/ ReplyCalls(body) \/ ReplyAnswers(body)
  \/ \E failed \in BOOLEAN : RunTools(failed)

Spec == Init /\ [][Next]_vars

-----------------------------------------------------------------------------

\* The constructors keep "the role and the tool-related fields consistent", and
\* so does every step of a conversation.
TypeOK ==
  /\ pc \in {"idle", "request", "reply", "tools", "failed", "panicked"}
  /\ tools \in Orders
  /\ Len(sent) <= MaxRequests
  /\ Len(said) = Len(working)
  /\ \A i \in 1..Len(working) :
       working[i].role \in {"system", "user", "assistant", "tool"} /\ Consistent(working[i])

Piece(part, item, cached) == [part |-> part, item |-> item, cached |-> cached]

ToolPieces(payload) ==
  [i \in 1..Len(payload.tools) |-> Piece("tool", payload.tools[i].name, payload.tools[i].cached)]

SystemPieces(payload) ==
  [i \in 1..Len(payload.system) |->
     Piece("system", payload.system[i].text, payload.system[i].cached)]

MessagePieces(payload) ==
  [i \in 1..Len(payload.messages) |->
     LET message == payload.messages[i]
     IN  [j \in 1..Len(message.blocks) |->
            Piece("message", <<i, message.role, message.form, message.blocks[j].content>>,
                  message.blocks[j].cached)]]

\* The blocks of an Anthropic request, in the order its cache compares them.
Flattened(payload) ==
  ToolPieces(payload) \o SystemPieces(payload) \o FlattenSeq(MessagePieces(payload))

Unmarked(blocks) == [i \in 1..Len(blocks) |-> <<blocks[i].part, blocks[i].item>>]
Marked(blocks) == {i \in 1..Len(blocks) : blocks[i].cached}

\* What Anthropic keeps of a request: all up to its last breakpoint.
CachedPrefix(payload) ==
  LET blocks == Flattened(payload)
  IN  IF Marked(blocks) = {} THEN <<>>
      ELSE SubSeq(Unmarked(blocks), 1, CHOOSE i \in Marked(blocks) : \A j \in Marked(blocks) : j <= i)

\* A later request of the conversation, with the same system prompt, that
\* repeats all an earlier one said.
Repeats(later, earlier) ==
  /\ IsPrefix(earlier.prompt, later.prompt)
  /\ SystemMessage(earlier.prompt) = SystemMessage(later.prompt)

ReadsTheCache(later, earlier) ==
  IsPrefix(CachedPrefix(earlier.payload), Unmarked(Flattened(later.payload)))

\* anthropic.rs, build_message: "the request that marks it and every later
\* request that repeats it differ by the cache_control key alone".  With the
\* tools in the same order, what one request caches is a prefix of each later
\* request that repeats it, over tool rounds and over turns, whatever the
\* messages hold and whether or not the rounds between are kept.
CachedPrefixIsStable ==
  provider = "Anthropic" =>
    \A j \in 1..Len(sent) : \A i \in 1..(j - 1) :
      Repeats(sent[j], sent[i]) /\ sent[i].tools = sent[j].tools
        => ReadsTheCache(sent[j], sent[i])

\* The same of every turn, as with_prompt_caching() has it: "each tool round and
\* each new turn reads the conversation so far from the cache".
EachTurnReadsTheCache ==
  provider = "Anthropic" =>
    \A j \in 1..Len(sent) : \A i \in 1..(j - 1) :
      Repeats(sent[j], sent[i]) => ReadsTheCache(sent[j], sent[i])

\* Breakpoints: none without caching; with it at most the three the API is
\* sent, where the newest message's is as late as it can be and none is on a
\* text Anthropic cannot cache (the system prompt's text is not looked at).
BreakpointsArePlaced ==
  provider = "Anthropic" =>
    \A k \in 1..Len(sent) :
      LET blocks == Flattened(sent[k].payload)
          last   == Len(sent[k].payload.messages)
          empty(i) == blocks[i].item[4] = TextBlock(<<>>)
      IN  IF ~ config.prompt_caching THEN Marked(blocks) = {}
          ELSE /\ \A i \in Marked(blocks) : blocks[i].part = "message" =>
                    /\ blocks[i].item[1] = last
                    /\ ~ empty(i)
                    /\ \A j \in (i + 1)..Len(blocks) : empty(j)
               /\ \A part \in {"tool", "system", "message"} :
                    Cardinality({i \in Marked(blocks) : blocks[i].part = part}) <= 1
               /\ \A i \in 1..Len(blocks) :
                    blocks[i].part = "message" /\ blocks[i].item[1] = last /\ ~ empty(i) =>
                      \E j \in Marked(blocks) : j >= i

-----------------------------------------------------------------------------

\* What a provider reads in a request.
ReadAnthropicBlock(content) ==
  IF content.type \in {"tool_use", "tool_result"} \/ content = TextBlock(<<>>) THEN <<>>
  ELSE <<content>>

ReadAnthropicMessage(message) ==
  LET contents == [i \in 1..Len(message.blocks) |-> message.blocks[i].content]
      uses     == Selection(contents, {i \in 1..Len(contents) : contents[i].type = "tool_use"})
  IN  IF \E x \in ToSet(contents) : x.type = "tool_result"
      THEN [speaker |-> "tool",
            parts   |-> Spoken(<<TextBlock(contents[1].text)>>),
            calls   |-> <<>>, answers |-> Some(contents[1].answers)]
      ELSE [speaker |-> message.role,
            parts   |-> FlattenSeq([i \in 1..Len(contents) |-> ReadAnthropicBlock(contents[i])]),
            calls   |-> [i \in 1..Len(uses) |-> uses[i].call], answers |-> None]

ReadChatBlock(block) ==
  IF block.type = "text" THEN block
  ELSE IF Len(block.url) = 2 THEN ImageBase64(block.url[2])
  ELSE ImageUrl(block.url[1])

ReadChatContent(content) ==
  IF content = None THEN <<>>
  ELSE IF content[1].form = "text" THEN <<TextBlock(content[1].text)>>
  ELSE [i \in 1..Len(content[1].blocks) |-> ReadChatBlock(content[1].blocks[i])]

ReadChatMessage(message) ==
  [speaker |-> message.role,
   parts   |-> Spoken(ReadChatContent(message.content)),
   calls   |-> message.calls, answers |-> message.answers]

Read(payload) ==
  IF provider = "Anthropic"
  THEN [i \in 1..Len(payload.messages) |-> ReadAnthropicMessage(payload.messages[i])]
  ELSE [i \in 1..Len(payload.messages) |-> ReadChatMessage(payload.messages[i])]

\* Anthropic takes one system prompt beside the conversation; what later system
\* messages say is not sent to it.
Conversed ==
  Selection(said, {i \in 1..Len(said) : provider # "Anthropic" \/ said[i].speaker # "system"})

\* In every dialect a request says all that the application, the tools and the
\* provider's own replies said, in that order: texts, images, calls with their
\* arguments and the answers to them, and nothing else; and for Anthropic the
\* system prompt is the first one of the conversation.
NothingIsLost ==
  pc = "reply" =>
    LET payload == sent[Len(sent)].payload
        systems == {i \in 1..Len(said) : said[i].speaker = "system"}
    IN  /\ Read(payload) = Conversed
        /\ provider = "Anthropic" =>
             /\ IsSome(payload.system) <=> systems # {}
             /\ systems # {} =>
                  said[Min(systems)].parts = Spoken(<<TextBlock(payload.system[1].text)>>)

=============================================================================
