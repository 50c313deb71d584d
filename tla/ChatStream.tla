----------------------------- MODULE ChatStream -----------------------------
(***************************************************************************)
(* parse_chat_completions_sse: the decoder of a Chat Completions SSE body, *)
(* shared by the OpenAI and the OpenAI-compatible providers.  It is a      *)
(* generator, resumed when its consumer wants the next event; what it      *)
(* yields for one frame is a sequence of events, consumed before the next  *)
(* frame is read.  A frame is one `data:` payload of the body; splitting   *)
(* the bytes into frames is left out, but for the space a provider may put *)
(* after the colon.  OpenRouter's parse_provider_sse_stream is the same    *)
(* decoder, which requires that space.                                     *)
(***************************************************************************)
EXTENDS StreamEvents, SequencesExt

\* OpenAIStreamToolCall: an id opens a call, and arguments extend one.
ToolDelta(id, name, args) == [id |-> id, name |-> name, args |-> args]
ToolDeltas == [id : Option(Ids), name : Strings, args : Option(Texts)]

\* OpenAIStreamResponse: the first choice's delta and finish reason, and usage.
Chunk(content, tools, finish, usage) ==
  [spaced |-> TRUE, parses |-> TRUE, content |-> content, tools |-> tools,
   finish |-> finish, usage |-> usage]

\* The same payload, written `data:{...}`.
Unspaced(frame) == [frame EXCEPT !.spaced = FALSE]

\* From<ChatCompletionsUsage> for Usage: the counts as the provider reports them.
ChatUsage(prompt, completion, total) ==
  [prompt_tokens |-> prompt, completion_tokens |-> completion, total_tokens |-> total]

\* A payload that is no such response: an in-band error, or noise.
Unparsed(error) == [spaced |-> TRUE, parses |-> FALSE, error |-> error]

Payloads ==
  [spaced : BOOLEAN, parses : {TRUE}, content : Texts, tools : Seq(ToolDeltas),
   finish : Option(Strings), usage : Option(Usage)]
    \cup [spaced : BOOLEAN, parses : {FALSE}, error : BOOLEAN]

\* The generator's locals: current_tool_id ("" when there is none),
\* last_finish_reason, usage.
Decoder == [tool |-> "", finish |-> None, usage |-> None]
Decoders == [tool : Ids, finish : Option(Strings), usage : Option(Usage)]

\* One tool-call delta: arguments without an id belong to the latest call.
ToolEvents(st, tc) ==
  LET id == IF IsSome(tc.id) THEN tc.id[1] ELSE st.tool
  IN  [tool |-> id,
       events |-> st.events
         \o When(IsSome(tc.id), <<ToolCallStart(id, tc.name)>>)
         \o When(IsSome(tc.args), <<ToolCallChunk(id, tc.args[1])>>)]

\* `for tc in tool_calls`, from the current tool id.
AllToolEvents(tool, tools) ==
  LET after[k \in 0..Len(tools)] ==
        IF k = 0 THEN [tool |-> tool, events |-> <<>>]
        ELSE ToolEvents(after[k - 1], tools[k])
  IN  after[Len(tools)]

\* A payload's effect on the locals and the events it yields: text, tool
\* calls, then a Done for the finish reason or for the usage, not for both.
Decode(d, frame) ==
  IF ~ frame.parses
  THEN [decoder |-> d, events |-> <<>>]
  ELSE LET tools  == AllToolEvents(d.tool, frame.tools)
           finish == Or(frame.finish, d.finish)
           usage  == MergeInto(d.usage, frame.usage)
       IN  [decoder |-> [tool |-> tools.tool, finish |-> finish, usage |-> usage],
            events  |->
              When(frame.content # <<>>, <<Text(frame.content)>>)
              \o tools.events
              \o When(IsSome(frame.finish) /\ ~ IsSome(frame.usage),
                      <<Done(finish, None)>>)
              \o When(IsSome(frame.usage), <<Done(finish, usage)>>)]

\* OpenRouter's decoder sees only `data: ` lines.
DecodeRouter(d, frame) ==
  IF frame.spaced THEN Decode(d, frame) ELSE [decoder |-> d, events |-> <<>>]

\* `[DONE]` or the end of the body: usage without a finish reason is reported
\* as a stop.
DecodeEnd(d) ==
  When(~ IsSome(d.finish) /\ IsSome(d.usage), <<Done(Some("stop"), d.usage)>>)

=============================================================================
