---------------------------- MODULE LocalStream -----------------------------
(***************************************************************************)
(* The two in-process consumers of a provider's stream:                    *)
(* RequestBuilder::stream_accumulated, which collects one Response, and    *)
(* RequestBuilder::generate_stream_events, which assembles tool calls into *)
(* a ConversationTurn.                                                     *)
(***************************************************************************)
EXTENDS StreamEvents

\* stream_accumulated: text, finish reason and usage; tool events are skipped.
NewResponse == [text |-> <<>>, finish |-> None, usage |-> None]
LocalResponses == [text : Texts, finish : Option(Strings), usage : Option(Usage)]

Collect(c, e) ==
  CASE e.kind = "text" -> [c EXCEPT !.text = @ \o e.text]
    [] e.kind = "done" -> [c EXCEPT !.finish = Or(e.reason, @),
                                    !.usage = MergeInto(@, e.usage)]
    [] OTHER           -> c

\* generate_stream_events: `open` is current_tool_id with its name, `args` is
\* current_tool_args, kept apart because fragments are buffered without a call.
NewTurn == [text |-> <<>>, open |-> None, args |-> <<>>, calls |-> <<>>]
Turns == [text : Texts, open : Option(ToolCalls), args : Texts, calls : Seq(ToolCalls)]

\* The call in flight becomes a ToolCall.
TakeCall(t) ==
  IF IsSome(t.open)
  THEN [t EXCEPT !.calls = Append(@, Finished([t.open[1] EXCEPT !.args = t.args])),
                 !.open = None,
                 !.args = <<>>]
  ELSE t

Assemble(t, e) ==
  CASE e.kind = "text"  -> [t EXCEPT !.text = @ \o e.text]
    [] e.kind = "start" -> [TakeCall(t) EXCEPT
                              !.open = Some(Partial(e.id, e.name, <<>>))]
    [] e.kind = "chunk" -> [t EXCEPT !.args = @ \o e.args]
    [] OTHER            -> t

\* The tool calls of the TurnComplete event.
TurnCalls(t) == TakeCall(t).calls

=============================================================================
