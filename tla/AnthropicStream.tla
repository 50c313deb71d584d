-------------------------- MODULE AnthropicStream ---------------------------
(***************************************************************************)
(* AnthropicProvider::parse_provider_sse_stream: the decoder of a Messages *)
(* SSE body, whose events are typed by name.  Text and tool calls arrive   *)
(* as content blocks, a call's arguments as fragments of the latest        *)
(* tool_use block, and usage as cumulative snapshots that begin with       *)
(* message_start.  A frame is one SSE event of the body.                   *)
(***************************************************************************)
EXTENDS StreamEvents

CONSTANT MaxCount  \* the largest count, i32::MAX

\* ContentBlockStart: only a tool_use block with an id and a name opens a call.
ToolBlock(id, name) == [event |-> "content_block_start", id |-> id, name |-> name]

\* ContentBlockDelta: a text_delta or an input_json_delta.
TextBlockDelta(t) == [event |-> "content_block_delta", text |-> Some(t), args |-> None]
ArgsBlockDelta(a) == [event |-> "content_block_delta", text |-> None, args |-> Some(a)]

\* MessageStart, MessageDelta and message_stop.
MessageOpens(usage) == [event |-> "message_start", usage |-> usage]
MessageChanges(reason, usage) ==
  [event |-> "message_delta", reason |-> reason, usage |-> usage]
MessageStops == [event |-> "message_stop"]

\* StreamError.
StreamFails == [event |-> "error"]

\* An event of another name, or one whose data does not parse.
Ignored == [event |-> "ping"]

BothCounts(u) == IsSome(u.prompt_tokens) /\ IsSome(u.completion_tokens)

\* From<AnthropicUsage> for Usage: the total is derived when both counts are
\* there, and checked_add finds that it is a count.
Sum(u) ==
  IF BothCounts(u) /\ u.completion_tokens[1] <= MaxCount - u.prompt_tokens[1]
  THEN Some(u.prompt_tokens[1] + u.completion_tokens[1])
  ELSE None

Overflows(u) == BothCounts(u) /\ Sum(u) = None

AnthropicUsage(prompt, completion) ==
  LET counts == [prompt_tokens |-> prompt, completion_tokens |-> completion]
  IN  [prompt_tokens |-> prompt, completion_tokens |-> completion,
       total_tokens |-> Sum(counts)]

AnthropicUsages == {u \in Usage : u.total_tokens = Sum(u)}

SseEvents ==
  {MessageStops, StreamFails, Ignored}
    \cup [event : {"content_block_start"}, id : Ids, name : Strings]
    \cup [event : {"content_block_delta"}, text : Option(Texts), args : Option(Texts)]
    \cup [event : {"message_start"}, usage : AnthropicUsages]
    \cup [event : {"message_delta"}, reason : Option(Strings), usage : Option(AnthropicUsages)]

\* The generator's locals: current_tool_id, accumulated_usage, usage_emitted.
AnthropicDecoder == [tool |-> None, usage |-> None, emitted |-> FALSE]
AnthropicDecoders == [tool : Option(Ids), usage : Option(Usage), emitted : BOOLEAN]

Silent(d) == [decoder |-> d, events |-> <<>>]

DecodeBlockStart(d, frame) ==
  [decoder |-> [d EXCEPT !.tool = Some(frame.id)],
   events  |-> <<ToolCallStart(frame.id, frame.name)>>]

\* Text that is not empty; arguments, when a call has been opened.
DecodeBlockDelta(d, frame) ==
  [decoder |-> d,
   events  |-> When(IsSome(frame.text) /\ frame.text # Some(<<>>), <<Text(frame.text[1])>>)
               \o When(IsSome(frame.args) /\ IsSome(d.tool),
                       <<ToolCallChunk(d.tool[1], frame.args[1])>>)]

\* Mutated: the total of an earlier snapshot is kept.
DecodeMessageDeltaMerging(d, frame) ==
  LET usage == IF IsSome(frame.usage) THEN MergeInto(d.usage, frame.usage) ELSE None
  IN  [decoder |-> [d EXCEPT !.usage = IF IsSome(usage) THEN usage ELSE @,
                             !.emitted = @ \/ IsSome(usage)],
       events  |-> When(IsSome(frame.reason) \/ IsSome(usage), <<Done(frame.reason, usage)>>)]

\* The snapshot is merged into the accumulated usage and its total derived
\* again from the merged counts.
DecodeMessageDelta(d, frame) ==
  LET merged == MergeInto(d.usage, frame.usage)
      usage  == IF IsSome(frame.usage)
                THEN Some([merged[1] EXCEPT !.total_tokens = Sum(merged[1])])
                ELSE None
  IN  [decoder |-> [d EXCEPT !.usage = IF IsSome(usage) THEN usage ELSE @,
                             !.emitted = @ \/ IsSome(usage)],
       events  |-> When(IsSome(frame.reason) \/ IsSome(usage), <<Done(frame.reason, usage)>>)]

DecodeMessageStart(d, frame) ==
  Silent([d EXCEPT !.usage = MergeInto(@, Some(frame.usage))])

\* Usage no message_delta has reported is reported now, and taken.
DecodeMessageStop(d) ==
  IF ~ d.emitted /\ IsSome(d.usage)
  THEN [decoder |-> [d EXCEPT !.usage = None],
        events  |-> <<Done(None, d.usage)>>]
  ELSE Silent(d)

DecodeAnthropic(d, frame) ==
  CASE frame.event = "content_block_start" -> DecodeBlockStart(d, frame)
    [] frame.event = "content_block_delta" -> DecodeBlockDelta(d, frame)
    [] frame.event = "message_delta"       -> DecodeMessageDelta(d, frame)
    [] frame.event = "message_start"       -> DecodeMessageStart(d, frame)
    [] frame.event = "message_stop"        -> DecodeMessageStop(d)
    [] frame.event = "error"               -> [decoder |-> d, events |-> <<Failure>>]
    [] OTHER                               -> Silent(d)

=============================================================================
