---------------------------- MODULE StreamEvents ----------------------------
(***************************************************************************)
(* The vocabulary of a streamed generation: the events a provider's stream *)
(* is decoded into, and the wire events a proxy forwards to its client.    *)
(*                                                                         *)
(* A piece of text or of an argument string is a sequence of fragments, so *)
(* that concatenation is \o and the empty piece is <<>>.                   *)
(***************************************************************************)
EXTENDS Integers, Options

CONSTANTS Ids,        \* tool-call identifiers; "" is the id of no call
          Strings,    \* fragments, names of tools and finish reasons
          ValidArgs,  \* the argument strings that parse as JSON
          Counts      \* the token counts a provider may report

\* Pieces of text and of argument strings.
Texts == Seq(Strings)

When(condition, seq) == IF condition THEN seq ELSE <<>>

-----------------------------------------------------------------------------

\* Usage: each count is optional.  The cache counts and the costs are merged alike.
UsageFields == {"prompt_tokens", "completion_tokens", "total_tokens"}

\* A total is reported, or is the sum of the other two.
Totals == Counts \cup {m + n : m, n \in Counts}

Usage == [prompt_tokens : Option(Counts), completion_tokens : Option(Counts),
          total_tokens : Option(Totals)]

\* Mutated: cumulative snapshots are added up.
MergeSumming(older, newer) ==
  [f \in UsageFields |->
     IF IsSome(newer[f]) /\ IsSome(older[f])
     THEN Some(newer[f][1] + older[f][1])
     ELSE Or(newer[f], older[f])]

\* Usage::merge, a missing value is not a zero.
Merge(older, newer) ==
  [f \in UsageFields |-> Or(newer[f], older[f])]

\* `usage.get_or_insert_with(Usage::default).merge(reported)`
MergeInto(usage, reported) ==
  IF IsSome(reported) /\ IsSome(usage)
  THEN Some(Merge(usage[1], reported[1]))
  ELSE Or(reported, usage)

-----------------------------------------------------------------------------

\* ProviderStreamEvent, and the Err item that ends a provider's stream.
Text(t) == [kind |-> "text", text |-> t]
ToolCallStart(id, name) == [kind |-> "start", id |-> id, name |-> name]
ToolCallChunk(id, args) == [kind |-> "chunk", id |-> id, args |-> args]
Done(reason, usage) == [kind |-> "done", reason |-> reason, usage |-> usage]
Failure == [kind |-> "err"]

ProviderEvents ==
  [kind : {"text"}, text : Texts]
    \cup [kind : {"start"}, id : Ids, name : Strings]
    \cup [kind : {"chunk"}, id : Ids, args : Texts]
    \cup [kind : {"done"}, reason : Option(Strings), usage : Option(Usage)]
    \cup {Failure}

\* WireStreamEvent, the variants stream_wire_events() emits.
MessageStart == [type |-> "message_start"]
TextDelta(t) == [type |-> "text_delta", text |-> t]
WireStart(id, name) == [type |-> "tool_call_start", id |-> id, name |-> name]
WireDelta(id, args) == [type |-> "tool_call_delta", id |-> id, args |-> args]
WireEnd(call) == [type |-> "tool_call_end", id |-> call.id, name |-> call.name,
                  args |-> call.args]
UsageReport(u) == [type |-> "usage", usage |-> u]
MessageStop(reason) == [type |-> "message_stop", reason |-> reason]
WireError == [type |-> "error"]

WireEvents ==
  {MessageStart, WireError}
    \cup [type : {"text_delta"}, text : Texts]
    \cup [type : {"tool_call_start"}, id : Ids, name : Strings]
    \cup [type : {"tool_call_delta"}, id : Ids, args : Texts]
    \cup [type : {"tool_call_end"}, id : Ids, name : Strings, args : Texts]
    \cup [type : {"usage"}, usage : Option(Usage)]
    \cup [type : {"message_stop"}, reason : Option(Strings)]

\* WireStreamEvent::is_terminal
IsTerminal(e) == e.type \in {"message_stop", "error"}

\* A call whose arguments are arriving, and the finished ToolCall: arguments
\* that are not JSON become null.
Partial(id, name, args) == [id |-> id, name |-> name, args |-> args]
ToolCalls == [id : Ids, name : Strings, args : Texts]
Null == <<"null">>
Finished(call) ==
  [call EXCEPT !.args = IF call.args \in ValidArgs THEN call.args ELSE Null]

=============================================================================
