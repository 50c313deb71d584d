-------------------------- MODULE StreamAccumulator -------------------------
(***************************************************************************)
(* wire::StreamAccumulator: the client's half of the proxy, which rebuilds *)
(* one Response from the wire events it receives.  ToolResult and          *)
(* TurnComplete are never emitted by stream_wire_events() and are left     *)
(* out.  `model` stands for model, provider and protocol version, set      *)
(* together.                                                               *)
(***************************************************************************)
EXTENDS StreamEvents

NewAccumulator ==
  [model |-> FALSE, text |-> <<>>, calls |-> <<>>, pending |-> None,
   usage |-> None, finish |-> None, failed |-> FALSE, stopped |-> FALSE]

Accumulators ==
  [model : BOOLEAN, text : Texts, calls : Seq(ToolCalls), pending : Option(ToolCalls),
   usage : Option(Usage), finish : Option(Strings), failed : BOOLEAN, stopped : BOOLEAN]

\* flush_pending_tool_call: a partial call is kept as it is.
Flush(a) ==
  IF IsSome(a.pending)
  THEN [a EXCEPT !.calls = Append(@, Finished(a.pending[1])), !.pending = None]
  ELSE a

PushStart(a, e) ==
  [Flush(a) EXCEPT !.pending = Some(Partial(e.id, e.name, <<>>))]

\* A fragment of another call than the one in flight starts a nameless call.
PushDelta(a, e) ==
  IF IsSome(a.pending) /\ a.pending[1].id = e.id
  THEN [a EXCEPT !.pending[1].args = @ \o e.args]
  ELSE [Flush(a) EXCEPT !.pending = Some(Partial(e.id, "", e.args))]

\* Mutated: the partial call is flushed although its end carries it whole.
PushEndFlushing(a, e) ==
  [Flush(a) EXCEPT !.calls = Append(@, Finished(Partial(e.id, e.name, e.args)))]

\* The assembled call supersedes what was buffered for it.
PushEnd(a, e) ==
  LET rest == IF IsSome(a.pending) /\ a.pending[1].id = e.id
              THEN [a EXCEPT !.pending = None]
              ELSE Flush(a)
  IN  [rest EXCEPT !.calls = Append(@, Finished(Partial(e.id, e.name, e.args)))]

Push(a, e) ==
  CASE e.type = "message_start"   -> [a EXCEPT !.model = TRUE]
    [] e.type = "text_delta"      -> [a EXCEPT !.text = @ \o e.text]
    [] e.type = "tool_call_start" -> PushStart(a, e)
    [] e.type = "tool_call_delta" -> PushDelta(a, e)
    [] e.type = "tool_call_end"   -> PushEnd(a, e)
    [] e.type = "usage"           -> [a EXCEPT !.usage = MergeInto(@, e.usage)]
    [] e.type = "message_stop"    -> [Flush(a) EXCEPT !.finish = Or(e.reason, @),
                                                      !.stopped = TRUE]
    [] e.type = "error"           -> [a EXCEPT !.failed = TRUE]

\* Mutated: a stream that just stops is accepted.
CompleteIfOpened(a) == ~ a.failed /\ a.model

\* Whether finish() returns a Response: no error, a start and a terminal event.
Complete(a) == ~ a.failed /\ a.model /\ a.stopped

\* The Response finish() returns.
Response(a) ==
  LET whole == Flush(a)
  IN  [text |-> whole.text, calls |-> whole.calls, usage |-> whole.usage,
       finish |-> whole.finish]

=============================================================================
