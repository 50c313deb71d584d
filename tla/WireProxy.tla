----------------------------- MODULE WireProxy ------------------------------
(***************************************************************************)
(* The proxy pattern end to end: a provider's body is decoded frame by     *)
(* frame (ChatStream for OpenAI, OpenAI-compatible and OpenRouter bodies,  *)
(* AnthropicStream for Anthropic's), relayed as wire events (WireServer), carried to a   *)
(* remote client in order, and rebuilt there into one Response             *)
(* (StreamAccumulator::accumulate).  The body may break or end at any      *)
(* frame, and the link to the client may be cut at any time, losing what   *)
(* was in flight; the server's generator is then dropped and the upstream  *)
(* request with it.                                                        *)
(*                                                                         *)
(* A consumer in the server's process reads the same events (LocalStream), *)
(* so that what the client rebuilds can be compared with it.               *)
(***************************************************************************)
EXTENDS ChatStream, AnthropicStream, WireServer, StreamAccumulator, LocalStream,
        Selections

CONSTANTS Frames,     \* by provider, the payloads it may send
          MaxFrames   \* bound: frames in one body

ASSUME WireProxyAssumption ==
  /\ "" \in Ids /\ {"", "null", "stop"} \subseteq Strings
  /\ DOMAIN Frames \subseteq {"chat", "openrouter", "anthropic"}
  /\ \A p \in DOMAIN Frames :
       Frames[p] \subseteq IF p = "anthropic" THEN SseEvents ELSE Payloads
  /\ Counts \subseteq 0..MaxCount
  /\ MaxFrames \in Nat

VARIABLES
  provider,  \* whose body it is: "chat", "openrouter" or "anthropic"
  body,      \* the provider's body: "open", "ended" or "broken"
  said,      \* history: the frames of the body so far
  decoder,   \* the locals of the provider's decoder
  yielded,   \* events decoded from the last frame, not yet relayed
  relay,     \* the locals of stream_wire_events
  serving,   \* the wire generator: "unpolled", "relaying", "over" or "dropped"
  sent,      \* history: the wire events emitted
  cut,       \* where the link was cut: Some(how many events got through)
  taken,     \* how many events the client has received
  acc,       \* the client's StreamAccumulator
  outcome,   \* what accumulate() returned: "pending", "ok" or "failed"
  local      \* the in-process consumers: response, turn and failed

server == <<provider, body, said, decoder, yielded, relay, serving, sent, local>>
client == <<taken, acc, outcome>>
vars == <<server, cut, client>>

Init ==
  /\ provider \in DOMAIN Frames
  /\ body = "open"
  /\ said = <<>>
  /\ decoder = IF provider = "anthropic" THEN AnthropicDecoder ELSE Decoder
  /\ yielded = <<>>
  /\ relay = Relay
  /\ serving = "unpolled"
  /\ sent = <<>>
  /\ cut = None
  /\ taken = 0
  /\ acc = NewAccumulator
  /\ outcome = "pending"
  /\ local = [response |-> NewResponse, turn |-> NewTurn, failed |-> FALSE]

-----------------------------------------------------------------------------

\* The first poll of the wire stream.
Open ==
  /\ serving = "unpolled"
  /\ serving' = "relaying"
  /\ sent' = <<MessageStart>>
  /\ UNCHANGED <<provider, body, said, decoder, yielded, relay, local, cut, client>>

\* The decoder is resumed only when the relay has consumed what it yielded.
Reading == serving = "relaying" /\ body = "open" /\ yielded = <<>>

DecodeFrame(frame) ==
  CASE provider = "chat"       -> Decode(decoder, frame)
    [] provider = "openrouter" -> DecodeRouter(decoder, frame)
    [] provider = "anthropic"  -> DecodeAnthropic(decoder, frame)

ReceiveFrame(frame) ==
  /\ Reading
  /\ Len(said) < MaxFrames
  /\ said' = Append(said, frame)
  /\ LET decoded == DecodeFrame(frame)
     IN  /\ decoder' = decoded.decoder
         /\ yielded' = decoded.events
  /\ UNCHANGED <<provider, body, relay, serving, sent, local, cut, client>>

\* The transport fails: Err(Error::Stream), and the decoder returns.
BreakBody ==
  /\ Reading
  /\ body' = "broken"
  /\ yielded' = <<Failure>>
  /\ UNCHANGED <<provider, said, decoder, relay, serving, sent, local, cut, client>>

EndBody ==
  /\ Reading
  /\ body' = "ended"
  /\ yielded' = IF provider = "anthropic" THEN <<>> ELSE DecodeEnd(decoder)
  /\ UNCHANGED <<provider, said, decoder, relay, serving, sent, local, cut, client>>

\* The relay and the in-process consumers handle the next provider event.  A
\* failure is terminal for all of them.
RelayNext ==
  /\ serving = "relaying"
  /\ yielded # <<>>
  /\ LET event   == Head(yielded)
         relayed == RelayEvent(relay, event)
     IN  /\ relay' = relayed.relay
         /\ sent' = sent \o relayed.events
         /\ serving' = IF event.kind = "err" THEN "over" ELSE serving
         /\ local' = [response |-> Collect(local.response, event),
                      turn     |-> Assemble(local.turn, event),
                      failed   |-> event.kind = "err"]
  /\ yielded' = Tail(yielded)
  /\ UNCHANGED <<provider, body, said, decoder, cut, client>>

\* The provider's stream has ended: close the call in flight, report usage,
\* stop.
CloseWire ==
  /\ serving = "relaying"
  /\ body # "open"
  /\ yielded = <<>>
  /\ sent' = sent \o RelayEnd(relay)
  /\ serving' = "over"
  /\ UNCHANGED <<provider, body, said, decoder, yielded, relay, local, cut, client>>

\* The link is cut: an unknown part of what is in flight still arrives, and
\* the server drops the generator.
CutLink ==
  /\ cut = None
  /\ serving # "unpolled"
  /\ outcome = "pending"
  /\ \E n \in taken..Len(sent) : cut' = Some(n)
  /\ serving' = IF serving = "over" THEN serving ELSE "dropped"
  /\ UNCHANGED <<provider, body, said, decoder, yielded, relay, sent, local, client>>

\* The events that reach the client, in order.
Arriving == IF IsSome(cut) THEN cut[1] ELSE Len(sent)

\* accumulate(): push the next event; an error event is returned at once.
ClientReceives ==
  /\ outcome = "pending"
  /\ taken < Arriving
  /\ acc' = Push(acc, sent[taken + 1])
  /\ taken' = taken + 1
  /\ outcome' = IF acc'.failed THEN "failed" ELSE outcome
  /\ UNCHANGED <<server, cut>>

\* Mutated: the client reads until a terminal event arrives.
ClientAwaitsTerminal ==
  /\ outcome = "pending"
  /\ taken = Arriving
  /\ Complete(acc)
  /\ outcome' = "ok"
  /\ UNCHANGED <<server, cut, taken, acc>>

\* accumulate(): the stream has no more events, finish().
ClientFinishes ==
  /\ outcome = "pending"
  /\ taken = Arriving
  /\ serving = "over" \/ IsSome(cut)
  /\ outcome' = IF Complete(acc) THEN "ok" ELSE "failed"
  /\ UNCHANGED <<server, cut, taken, acc>>

ServerStep ==
  \/ Open
  \/ \E frame \in Frames[provider] : ReceiveFrame(frame)
  \/ BreakBody
  \/ EndBody
  \/ RelayNext
  \/ CloseWire

ClientStep == ClientReceives \/ ClientFinishes

Next == ServerStep \/ CutLink \/ ClientStep

Spec == Init /\ [][Next]_vars

\* The framework polls the wire stream, the HTTP client's timeout bounds the
\* body, and the client reads what arrives.
FairSpec == Spec /\ WF_vars(ServerStep) /\ WF_vars(ClientStep)

-----------------------------------------------------------------------------

\* The locals of the decoder, the relay, the accumulator and the two in-process
\* consumers keep their types, and the link delivers no event that was not sent.
TypeOK ==
  /\ provider \in DOMAIN Frames
  /\ body \in {"open", "ended", "broken"}
  /\ said \in Seq(Frames[provider]) /\ Len(said) <= MaxFrames
  /\ decoder \in IF provider = "anthropic" THEN AnthropicDecoders ELSE Decoders
  /\ yielded \in Seq(ProviderEvents)
  /\ relay \in Relays
  /\ serving \in {"unpolled", "relaying", "over", "dropped"}
  /\ sent \in Seq(WireEvents)
  /\ cut \in Option(Nat) /\ (cut # None => cut[1] \in taken..Len(sent))
  /\ taken \in 0..Len(sent)
  /\ acc \in Accumulators
  /\ outcome \in {"pending", "ok", "failed"}
  /\ local \in [response : LocalResponses, turn : Turns, failed : BOOLEAN]

\* What the event e adds to the arguments of call id.
Fragment(e, id) == When(e.type = "tool_call_delta" /\ e.id = id, e.args)

\* The arguments forwarded in stream s for call id between the events at i and j.
Forwarded(s, id, i, j) ==
  FlattenSeq([k \in 1..(j - i - 1) |-> Fragment(s[i + k], id)])

\* The call that is open before the event at j of stream s: the latest start,
\* which no end has followed, with the arguments forwarded for it.
OpenAt(s, i, j, call) ==
  /\ s[i].type = "tool_call_start"
  /\ s[i].id = call.id /\ s[i].name = call.name
  /\ \A k \in (i + 1)..(j - 1) : s[k].type \notin {"tool_call_start", "tool_call_end"}
  /\ call.args = Forwarded(s, call.id, i, j)

\* Calls are bracketed: each end closes the latest start, with the arguments
\* forwarded for it, and no call is open when another starts or the stream stops.
Bracketed(s) ==
  /\ \A j \in 1..Len(s) : s[j].type = "tool_call_end" =>
       \E i \in 1..(j - 1) : OpenAt(s, i, j, s[j])
  /\ \A i, j \in 1..Len(s) :
       /\ i < j
       /\ s[i].type = "tool_call_start"
       /\ s[j].type \in {"tool_call_start", "message_stop"}
       => \E k \in (i + 1)..(j - 1) : s[k].type = "tool_call_end"

\* The stream shape stream_wire_events() documents: one start, first; at most
\* one usage report, just before the stop; one terminal event, last, on every
\* stream that is not dropped; and bracketed tool calls in between.
WireGrammar ==
  /\ \A i \in 1..Len(sent) :
       /\ sent[i].type = "message_start" <=> i = 1
       /\ IsTerminal(sent[i]) => i = Len(sent)
       /\ sent[i].type = "usage" /\ i < Len(sent) => sent[i + 1].type = "message_stop"
  /\ serving = "over" => IsTerminal(Last(sent))
  /\ Bracketed(sent)

\* The client takes a response for complete only when it received every event
\* of a stream whose provider body ended and, from Anthropic, reported no
\* error: neither a cut link nor a broken body passes for a short answer.
NoSilentTruncation ==
  outcome = "ok" =>
    /\ taken = Len(sent) /\ serving = "over" /\ body = "ended"
    /\ provider = "anthropic" => \A i \in 1..Len(said) : said[i] # StreamFails

\* On an intact link the client fails exactly when a local consumer does, and
\* what it rebuilds has the text, the finish reason and the usage
\* stream_accumulated() returns.
ProxyIsTransparent ==
  /\ cut = None /\ outcome # "pending" => (outcome = "failed" <=> local.failed)
  /\ outcome = "ok" =>
       LET r == Response(acc)
       IN  local.response = [text |-> r.text, finish |-> r.finish, usage |-> r.usage]

\* What an Anthropic event means in the terms of a Chat Completions delta.
AnthropicTools(frame) ==
  CASE frame.event = "content_block_start" -> <<ToolDelta(Some(frame.id), frame.name, None)>>
    [] frame.event = "content_block_delta" /\ IsSome(frame.args) ->
         <<ToolDelta(None, "", frame.args)>>
    [] OTHER -> <<>>

\* The tool-call deltas and the finish reason of one frame.
ToolParts(frame) ==
  IF provider = "anthropic" THEN AnthropicTools(frame)
  ELSE IF frame.parses THEN frame.tools ELSE <<>>

Finishes(frame) ==
  IF provider = "anthropic"
  THEN frame.event = "message_delta" /\ IsSome(frame.reason)
  ELSE frame.parses /\ IsSome(frame.finish)

\* The tool-call deltas of the whole body, in order.
Deltas == FlattenSeq([i \in 1..Len(said) |-> ToolParts(said[i])])

\* The calls that deltas make: each opener with the arguments up to the next.
Openers(deltas) == {k \in 1..Len(deltas) : IsSome(deltas[k].id)}

Belongs(deltas, k, j) == k <= j /\ \A o \in Openers(deltas) : o <= k \/ j < o

ArgsFrom(deltas, k) ==
  FlattenSeq([j \in 1..Len(deltas) |->
                When(Belongs(deltas, k, j), OrDefault(deltas[j].args, <<>>))])

CallFrom(deltas, k) ==
  Finished(Partial(OrDefault(deltas[k].id, ""), deltas[k].name, ArgsFrom(deltas, k)))

CallsIn(deltas) ==
  Selection([k \in 1..Len(deltas) |-> CallFrom(deltas, k)], Openers(deltas))

\* A provider that opens a call before extending it, sends no tool call after
\* its finish reason and, if it is OpenRouter, puts the space after `data:`.
Orderly ==
  /\ Deltas # <<>> => IsSome(Deltas[1].id)
  /\ \A i, j \in 1..Len(said) : i < j /\ Finishes(said[i]) => ToolParts(said[j]) = <<>>
  /\ provider = "openrouter" => \A i \in 1..Len(said) : said[i].spaced

\* From an orderly provider, the client's response and the local turn hold the
\* calls it made, each once, in order, with all of its arguments.
CallsDelivered ==
  outcome = "ok" /\ Orderly =>
    /\ Response(acc).calls = CallsIn(Deltas)
    /\ TurnCalls(local.turn) = CallsIn(Deltas)

\* A message is opened once, or opened again with both counts.
OpensWhole ==
  \A i, j \in 1..Len(said) :
    i < j /\ said[i].event = "message_start" /\ said[j].event = "message_start"
    => BothCounts(said[j].usage)

\* message.rs, of Usage::total_tokens: "Provider's total, or prompt plus
\* completion for Anthropic."  A response whose usage was reported in several
\* snapshots, the last of them before message_stop, carries no total of an
\* earlier one, unless the total of its own counts is too large to be one.
TotalsAgree ==
  /\ provider = "anthropic"
  /\ outcome = "ok"
  /\ \A i \in 1..(Len(said) - 1) : said[i] # MessageStops
  /\ OpensWhole
  => \A u \in {Response(acc).usage, local.response.usage} :
       IsSome(u) => Overflows(u[1]) \/ u[1].total_tokens = Sum(u[1])

\* client.rs: "a mid-stream provider failure reaches the client as
\* WireStreamEvent::Error instead of as a silently truncated response."
FailuresReachTheClient ==
  outcome = "ok" => \A i \in 1..Len(said) : ~ said[i].parses => ~ said[i].error

\* wire.rs, of the Usage event: "Emitted once, just before the terminal event,
\* when the provider reports usage."
UsageIsReported ==
  serving = "over" /\ IsSome(relay.usage) => \E i \in 1..Len(sent) : sent[i].type = "usage"

\* accumulate() returns, whatever the provider and the link do.
Settles == <>(outcome # "pending")

=============================================================================
