----------------------------- MODULE WireServer -----------------------------
(***************************************************************************)
(* RequestBuilder::stream_wire_events: the generator that turns a provider *)
(* stream into wire events.  Providers do not delimit tool calls, so an    *)
(* open call is closed by the next one, by the finish reason or by the end *)
(* of the stream.                                                          *)
(***************************************************************************)
EXTENDS StreamEvents

\* The generator's locals: pending_tool, finish_reason, usage.
Relay == [pending |-> None, finish |-> None, usage |-> None]
Relays == [pending : Option(ToolCalls), finish : Option(Strings), usage : Option(Usage)]

\* `pending_tool.take()` and the ToolCallEnd it yields.
CloseCall(r) == When(IsSome(r.pending), <<WireEnd(r.pending[1])>>)

RelayText(r, e) == [relay |-> r, events |-> <<TextDelta(e.text)>>]

\* Mutated: the call in flight is not closed by the next one.
RelayStartUnclosed(r, e) ==
  [relay  |-> [r EXCEPT !.pending = Some(Partial(e.id, e.name, <<>>))],
   events |-> <<WireStart(e.id, e.name)>>]

RelayStart(r, e) ==
  [relay  |-> [r EXCEPT !.pending = Some(Partial(e.id, e.name, <<>>))],
   events |-> CloseCall(r) \o <<WireStart(e.id, e.name)>>]

\* A fragment without an id belongs to the call in flight; one that names
\* another call is forwarded and not assembled.
RelayChunk(r, e) ==
  LET id   == IF IsSome(r.pending) /\ e.id = "" THEN r.pending[1].id ELSE e.id
      mine == IsSome(r.pending) /\ r.pending[1].id = id
  IN  [relay  |-> IF mine THEN [r EXCEPT !.pending[1].args = @ \o e.args] ELSE r,
       events |-> <<WireDelta(id, e.args)>>]

\* Mutated: usage is taken only from a Done that has a reason.
RelayDoneTogether(r, e) ==
  [relay  |-> [pending |-> IF IsSome(e.reason) THEN None ELSE r.pending,
               finish  |-> Or(e.reason, r.finish),
               usage   |-> IF IsSome(e.reason) THEN MergeInto(r.usage, e.usage) ELSE r.usage],
   events |-> When(IsSome(e.reason), CloseCall(r))]

RelayDone(r, e) ==
  [relay  |-> [pending |-> IF IsSome(e.reason) THEN None ELSE r.pending,
               finish  |-> Or(e.reason, r.finish),
               usage   |-> MergeInto(r.usage, e.usage)],
   events |-> When(IsSome(e.reason), CloseCall(r))]

RelayEvent(r, e) ==
  CASE e.kind = "text"  -> RelayText(r, e)
    [] e.kind = "start" -> RelayStart(r, e)
    [] e.kind = "chunk" -> RelayChunk(r, e)
    [] e.kind = "done"  -> RelayDone(r, e)
    [] e.kind = "err"   -> [relay |-> r, events |-> <<WireError>>]

\* The provider's stream ended without an error.
RelayEnd(r) ==
  CloseCall(r)
  \o When(IsSome(r.usage), <<UsageReport(r.usage)>>)
  \o <<MessageStop(r.finish)>>

=============================================================================
