---------------------------- MODULE MCWireProxy -----------------------------
(***************************************************************************)
(* Small bodies for WireProxy: two call ids, one fragment, usage reported  *)
(* in partial snapshots, whose total may exceed the largest count, and a   *)
(* few frames for each provider's decoder.                                 *)
(***************************************************************************)
EXTENDS WireProxy

MCIds == {"", "a", "b"}
MCStrings == {"", "f", "x", "null", "stop", "end_turn"}
MCValidArgs == {<<"x">>, <<"x", "x">>}

\* The prompt's count, and then the completion's.
Prompted == ChatUsage(Some(1), None, None)
Completed == ChatUsage(None, Some(2), Some(3))
MCCounts == 1..3

Opens(id, args) == ToolDelta(Some(id), "f", args)
Extends == ToolDelta(None, "", Some(<<"x">>))
Calls(deltas) == Chunk(<<>>, deltas, None, None)

\* Text; a call opened with and without arguments, extended, and two opened at
\* once; a finish reason; usage; text with the finish reason and usage; noise.
ChatFrames ==
  { Chunk(<<"x">>, <<>>, None, None),
    Calls(<<Opens("a", Some(<<>>))>>),
    Calls(<<Opens("b", None)>>),
    Calls(<<Extends>>),
    Calls(<<Opens("a", Some(<<"x">>)), Opens("b", Some(<<"x">>))>>),
    Chunk(<<>>, <<>>, Some("stop"), None),
    Chunk(<<>>, <<>>, None, Some(Prompted)),
    Chunk(<<"x">>, <<>>, Some("stop"), Some(Completed)),
    Unparsed(FALSE) }

\* A call, spaced and not, and the last frame.
RouterFrames ==
  { Calls(<<Opens("a", Some(<<"x">>))>>),
    Unspaced(Calls(<<Opens("b", Some(<<"x">>))>>)),
    Chunk(<<"x">>, <<>>, Some("stop"), Some(Completed)) }

\* The opening snapshot, with both counts and with one; two calls, text and arguments; a
\* snapshot of the output only, and one of too much to add up; a stop reason alone,
\* the stop; and a failure.
AnthropicFrames ==
  { MessageOpens(AnthropicUsage(Some(1), Some(1))),
    MessageOpens(AnthropicUsage(Some(1), None)),
    ToolBlock("a", "f"), ToolBlock("b", "f"),
    TextBlockDelta(<<"x">>), ArgsBlockDelta(<<"x">>),
    MessageChanges(None, Some(AnthropicUsage(None, Some(2)))),
    MessageChanges(None, Some(AnthropicUsage(None, Some(3)))),
    MessageChanges(Some("end_turn"), None),
    MessageStops, StreamFails, Ignored }

MCFrames ==
  [p \in {"chat", "openrouter", "anthropic"} |->
     CASE p = "chat"       -> ChatFrames
       [] p = "openrouter" -> RouterFrames
       [] p = "anthropic"  -> AnthropicFrames]

\* A failing Chat Completions body: text, usage and an in-band error.
MCFailingFrames ==
  [p \in {"chat"} |->
     { Chunk(<<"x">>, <<>>, None, None),
       Chunk(<<>>, <<>>, None, Some(Prompted)),
       Unparsed(TRUE) }]

=============================================================================
