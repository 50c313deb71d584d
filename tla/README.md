# Formal models of rai

TLA+ modules, TLC configurations and TLAPS proofs about the concurrent and
stateful parts of `rai`, the Rust SDK for language-model providers in this
repository. Paths below are relative to the repository (`src/` for this project's
`PROJECT.json`, so `src/client.rs` here is `src/src/client.rs` there).

Contents: [the system](#the-system), [modules](#modules-and-the-code-they-model),
[runs](#runs), [bounds](#bounds), [fairness](#fairness), [proofs](#proofs),
[divergences](#where-the-documentation-and-the-code-disagree),
[what is not modelled](#what-is-not-modelled), [plan](#plan).

## The system

A caller builds a request (`RequestBuilder`), which is sent to a provider
(OpenAI, Anthropic, OpenRouter or an OpenAI-compatible endpoint) over HTTP.
Everything is a future polled by the caller's executor: state lives in the locals of async
functions and generators, an `.await` or `yield` is a scheduling point, and a
dropped future stops there for good.

| Component | State it keeps | Operations | Talks to |
|---|---|---|---|
| Generation loop, `client.rs` `generate_with_tools` | prompt, round, calls of the last response | `generate`, `generate_once` | retry executor, tool registry |
| Retry executor, `retry.rs` `with_retry` | attempt, last error | attempt, classify, sleep | the provider; wraps every request |
| Tool registry, `tool.rs` | tools by name | register, extend, execute | user handlers |
| Chat Completions decoder, `provider/openai.rs` | byte buffer, current tool id | one event per payload | HTTP body |
| Wire stream server, `client.rs` `stream_wire_events` | tool call in flight, finish reason, usage | one step per provider event, end of stream | decoder, HTTP response of a proxy |
| Wire accumulator, `wire.rs` | text, calls, call in flight, usage, terminal flags | `push`, `finish`, `accumulate` | wire events of a remote proxy |
| Local consumers, `client.rs` | text or pending calls, usage | `stream_accumulated`, `generate_stream_events` | decoder |
| Usage accounting, `message.rs`, `provider/usage.rs` | seven optional counts | `merge`, conversions | streams |
| MCP request, `mcp.rs` `request_inner`, `CancelOnDrop` | deadline, pending response, guard | dispatch, wait, cancel on drop | rmcp session |
| MCP catalog call, `mcp.rs`, `mcp/validation.rs` | one schema flight per tool, a semaphore of permits | compile, call, validate, give up | MCP request, blocking thread pool |
| MCP discovery and catalogs, `mcp.rs` | tools by name | `discover`, `filter`, `rename` | MCP request |
| Anthropic, `provider/anthropic.rs` | decoder locals (call, usage, whether it was reported) | `build_request` with cache breakpoints, `parse_response`, `parse_error`, one event per SSE event | HTTP |
| OpenAI, OpenRouter, compatible endpoints | decoder locals; declared capabilities | `build_chat_request`, capability checks, `parse_response`, `parse_error` | HTTP |
| Messages and prompts, `message.rs` | the application's conversation | constructors, `push_message`, `system_message` | every request |
| Client and builders, `client.rs`, `config.rs` | configuration, defaults, tools; a request's overrides | `from_env`, setters, `build`, `resolve`, terminal methods | environment, providers |
| Errors, `error.rs`, `wire.rs` | plain data | `is_retryable`, projection to `WireError` | retry executor, remote clients |
| Model tables, generation settings | plain data | lookups, setters | requests |

What is hard, and what makes each part correct:

- **Generation loop and retry.** Retries sit inside rounds, rounds contain
  several tool calls, any of them may fail in one of three ways, and the caller
  may drop the future at any await. Correct means: every assistant message with
  tool calls is followed by exactly one answer per call in order before anything
  is sent again; a handler is never run twice for a call; transient errors only
  are retried; the number of paid requests is bounded; the loop ends.
- **Streams.** A provider stream does not delimit tool calls, reports finish
  reason and usage in either order and in pieces, may break at any byte, and the
  link to a remote client may break independently. Correct means: the wire
  stream has the documented shape; a prefix never passes for an answer; the
  client rebuilds what a consumer in the proxy's process sees, calls included.
- **MCP requests.** Signal, deadline, response, drop and closed transport race.
  Correct means: the server is told at most once and only about requests it was
  sent and which were given up; nothing given up early is sent; a stalled session
  never holds a caller past its deadline.
- **Catalog calls.** Compilation is shared between calls and outlives them;
  blocking jobs cannot be stopped, so they outlive their callers. Correct means:
  the limit on jobs holds whoever gives up; a schema is compiled once; nobody
  waits for a flight nobody drives; only validated results are returned.

- **Catalogs.** A listing changes while it is paged through, a catalog is filtered,
  renamed, cached and attached beside others, and the model's call comes later.
  Correct means: the catalog is the listing; discovery ends; a call reaches the tool
  whose declaration the model read.
- **Client and requests.** Builder calls come in any order, and settings have four
  sources. Correct means: a request offers the tools that its calls ask for, is rejected
  exactly when it cannot be served, and goes out with the setting decided last.
- **Conversations in a dialect.** A prompt grows by rounds and turns and is
  rendered whole each time. Correct means: nothing is lost in rendering or parsing, and
  each request repeats what the one before has cached.
- **A provider call.** An endpoint may lack a capability, declared or not; replies are
  classified, waited out and forwarded to older clients. Correct means: no paid or
  retried request that cannot succeed, waits within the policy, and one meaning of an
  error on both ends of a proxy.

`PROJECT.json` lists these hazards at their lines with the properties that cover
them, and those no property covers yet.

## Modules and the code they model

| Module | Models | Uses |
|---|---|---|
| `Conversation` | what `generate()` promises: whole exchanges, at most so many, one ending | |
| `ToolLoop` | `generate_with_tools`, `generate_once_internal`, `with_retry`, `ToolRegistry::execute` | instance of `Conversation` |
| `ToolLoopProofs` | the theorems about `ToolLoop` | `ToolLoop` |
| `Options` | `Option` | |
| `Selections` | `Iterator::filter` over a list | |
| `StreamEvents` | provider events, wire events, `Usage::merge`, pending calls | `Options` |
| `ChatStream` | `parse_chat_completions_sse` and OpenRouter's decoder, from one `data:` line on | `StreamEvents` |
| `AnthropicStream` | Anthropic's decoder, from one named event on | `StreamEvents` |
| `WireServer` | the generator of `stream_wire_events` | `StreamEvents` |
| `StreamAccumulator` | `wire::StreamAccumulator` | `StreamEvents` |
| `LocalStream` | the folds of `stream_accumulated` and `generate_stream_events` | `StreamEvents` |
| `WireProxy` | provider body, decoder, server, link and client composed, next to the local consumers | the six above, `Selections` |
| `RecursionLemmas` | lemmas about recursion along a sequence, `FlattenSeq`, `Selection` and a registry's `Extend` | `Selections`, `ToolRegistry` |
| `WireProxyProofs` | the theorems about `WireProxy` | the two above |
| `Configuration` | `Config`: environment, setters, getters | `Options` |
| `ToolRegistry` | `Tool`, `ToolRegistry::register` and `extend`, definition-only tools | |
| `ClientSession` | `ClientBuilder`, `Client`, `RequestBuilder` and its terminal methods | the two above |
| `ClientSessionProofs` | the theorems about `ClientSession` | `ClientSession`, `RecursionLemmas` |
| `Messages` | `Message`, `Prompt` | `Options`, `Selections` |
| `AnthropicRequests` | Anthropic's `build_request` and `parse_response` | `Messages` |
| `ChatRequests` | `build_chat_request` and OpenRouter's `build_request`, `parse_response` | `Messages` |
| `ProviderRequests` | a conversation of `generate()`s rendered and parsed in a dialect | the two above |
| `ProviderRequestsProofs` | the theorems about `ProviderRequests` | `ProviderRequests`, `RecursionLemmas` |
| `ErrorTaxonomy` | `Error`, `WireError` | `Options` |
| `RetryPolicy` | `RetryConfig::delay_for_attempt` | |
| `ProviderCall` | one call: capability checks, exchange, `parse_error`, `with_retry`, `parse_structured_output`, the error on the wire | the two above, instances of both dialects |
| `ProviderCallProofs` | the theorems about `ProviderCall` | `ProviderCall`, `RecursionLemmas` |
| `McpCatalog` | `discover`, `McpTools` and its calls, over several servers | `Messages`, `ToolRegistry` |
| `McpRequest` | `request_inner`, `CancelOnDrop`, several on one session | |
| `McpProofs` | the theorems about `McpRequest` and `McpCatalog` | the two above, `RecursionLemmas` |
| `McpCall` | `call_result_inner`, `output_schemas`, `SchemaProcessor` | |
| `McpCallProofs` | the theorems about `McpCall` | `McpCall` |
| `MC*` | values of the constants for TLC | |

**ToolLoop.** The variables are the locals of the future (`round`, `attempt`,
`prompt`, `calls`, `next` for the index of `for tool_call in tool_calls`) and
`pc`, where it is suspended: `loop` before `for round in 0..max_rounds`,
`request` in a provider request, `backoff` in the retry sleep, `tools` before
`ToolRegistry::execute`, `running` in a handler. An action is the code from one
such point to the next. The provider and the handlers are the environment and
answer anything of the right kind. `requests`, `faults` and `effects` are
histories the code does not keep; no guard reads them. With an empty registry, or for
`generate_once`, the response is returned as it is (`WithTools`).

**WireProxy.** `provider` picks the decoder. Decoding and relaying are lazy generators pulled in turn, so the
decoder is resumed only when the relay has used what it yielded (`Reading`).
`ChatStream`, `WireServer`, `StreamAccumulator` and `LocalStream` are pure
transition functions on records of the generators' locals, one operator per match arm;
`WireProxy` owns the variables. The link is ordered and loses a suffix when it is cut
(`CutLink`), at which the server's generator is dropped. `model` in the
accumulator stands for the three fields that `message_start` sets together. Text and
arguments are sequences of fragments, an `Option` a sequence of at most one
element, `Usage` three of its seven counts. Chat Completions reports a total, Anthropic's
decoder derives one from the merged counts, unless it would overflow an `i32` (`MaxCount`, `Overflows`).

**ClientSession.** `Configure` and `Refine` are the methods of the two builders, any
number of them in any order up to a bound; `calls` and `asked` remember them, and the
properties read what must happen off these histories alone. A value tells only where
it comes from (`"set"`, `"env"`, `"default"`). The type state
that hides terminal methods until a model is known is the guard of `Finish`. A client
serves one request after another, so what a rejected request did to its copy of the
registry would show in the next.

**ProviderRequests.** One action per step of the conversation: `Ask` is
`push_message` followed by `generate()`, which reads `definitions()` once; `Send` renders; a reply
is parsed, and fails, calls tools or answers. The application keeps the answer on its own prompt or on
all that was sent. `said` is what was said, message by message, written down
when it is said; `NothingIsLost` reads the request that is sent back into such
utterances. `tools` is in an order of the `HashMap`: the same for all requests of one
registry (`perRequest` false), or a new one for each (`.tools(..)` on the request).

**ProviderCall.** The entries that make one provider call, `stream_wire_events` up to the
open body. A status and an error body, which may mention any of the capabilities, come from the
environment. A multiplier is a fraction, of any sign; a delay is rounded to a nanosecond as
`Duration::from_secs_f64` does. Delays are the set that jitter draws from; an empty set is the panic of
`random_range`, or of `from_secs_f64` on a negative number. `Forward` is the proxy's `WireStreamEvent::error`, read by a
build that knows fewer kinds.

**McpCatalog.** `ReadPage` is a round of `discover`'s loop; a page may be empty, and its
cursor is the place where it ends or, from a server that has lost its place, an earlier one.
The catalogs are attached to one request either as executable tools or as definitions, and
then the application routes the model's call: to the first catalog that
contains the name, or to any when it does not look (`Routes`).

**McpRequest.** `tokio::select!` is biased: a poll looks at the signal, the
timer, then the exchange. Each outcome of a poll is one action whose guard holds
the negation of the signal; a deadline that has passed (`due`) and a timer that has
fired are different things, so a response may still win against a passed
deadline, whereas dispatch looks at the clock itself and does not. `Guard` is
`CancelOnDrop::drop`. rmcp is external and modelled from its use: a bounded
queue, a response oneshot per request, a service task, a close.

**McpCall.** `flight` is the `OnceLock<SchemaFlight>` of a tool, `line` the
waiters of the fair semaphore, `jobs` what holds a permit. `Run` is the
acquisition of a permit followed by `spawn_blocking`, `Leave` what dropping a future
does to its place in line, `FinishJob` the end or panic of a blocking job. A job
leaves `jobs` only there: the closure owns its permit. The exchange with the server
is one step, since `McpRequest` models it.

## Runs

| Run | Asks | States |
|---|---|---|
| `ToolLoop` | is the prompt well formed, is every handler run accounted for, are retries and requests disciplined, is every `generate()` a `Conversation`, and does it end? | 47 thousand |
| `WireProxy` | is the wire stream well formed, never silently truncated, transparent, with every call delivered and totals that agree, and does the client return? | 353 thousand |
| `ClientSession` | does a request offer what was asked, is it rejected exactly when it must be, with the settings decided last? | 798 thousand |
| `ProviderRequests` | is nothing lost in a dialect, and is what was cached repeated, with breakpoints where they belong? | 1068 thousand |
| `ProviderCall` | are capabilities respected, waits bounded, errors the same on both ends? | 51 thousand |
| `McpRequest` | is the server told once, exactly of what was given up, with no late dispatch and no delayed caller? | 34 thousand |
| `McpCall` | are jobs bounded, flights shared and landed, results validated, callers prompt? | 283 thousand |
| `McpCatalog` | is the catalog the listing, does discovery end, does a call reach the advertised tool? | 26 thousand |
| `GenerateOnce`, `InBandError`, `UsageLost`, `ToolOrder` | the first four disagreements below; each violates its one property | |

Properties, by what they relate:

- `WellFormedPrompt`, `EffectsAccounted` relate the prompt to the position in the
  loop and to the handler runs; `ImplementsConversation` is refinement with
  the prompt up to the round in progress as the transcript.
- `RetryDiscipline`, `RequestBudget` relate the errors seen and the requests made to
  the outcome.
- `WireGrammar` is the stream shape documented on `stream_wire_events`, with every
  `ToolCallEnd` carrying the fragments forwarded for it. `NoSilentTruncation`
  and `ProxyIsTransparent` relate the client to the body and to the local consumers.
  `CallsDelivered` compares both assemblies with the calls read off the
  whole body by `CallsIn`, a definition independent of decoder and accumulators. It assumes an
  orderly provider (`Orderly`): a call is opened before it is extended and none
  follows the finish reason. Other bodies are in the run as well and all the other
  properties hold of them.
- `CancelledAtMostOnce`, `AbandonedIsCancelled`, `NoLateDispatch` relate the
  session's messages to the callers' outcomes. `PromptReturn` and
  `CancellationArrives` are their liveness.
- `JobsAreBounded`, `PermitsAreKept` relate permits to callers, present and gone;
  `CompiledOnce`, `FlightsLand` flights to callers; `OnlyValidResults` results to outcomes.

- `TotalsAgree`: a total that reaches a client is the sum of the counts beside it, whatever
  the snapshots they came in, of a message that is opened once, or again with both counts (`OpensWhole`):
  `message_start` is merged without deriving the total again, so a second one with a single count leaves
  the total of the first beside it. Counts whose sum overflows are excepted (`Overflows`): the decoder derives no
  total for them, and the one of an earlier snapshot stays.
- `OffersWhatWasAsked`, `RejectedIffUnservable`, `SettingsPrecedence` relate what is sent to
  the whole history of builder calls. `SettingsPrecedence` lets the latest call decide, `from_env()` being one of
  them: what was set before it is forgotten (`Expected`). That is what the code does and what
  `docs/src/configuration.md:24` says of the order of calls; `src/client.rs:1871` promises more, see
  [below](#where-the-documentation-and-the-code-disagree).
- `CachedPrefixIsStable` relates two requests of a conversation, however far apart;
  `BreakpointsArePlaced` is about one. `NothingIsLost` relates the request to what
  was said.
- `CapabilitiesAreRespected` relates the requests sent and the error reported to what
  the endpoint was declared to do; `WaitsAreBounded` the waits to the policy, growing or
  shrinking as its multiplier says;
  `ErrorsSurviveTheWire` the remote client's error to the local one and to the requests made.
- `CatalogIsTheListing` relates a bound catalog to the listing it was read from;
  `AnsweredByTheAdvertisedTool` the tool that was reached to the declaration that the model
  read, and the message it gets to the tool's result.

Every property of a passing run has a mutant in `PROJECT.json`: a plausible bug of
one mapped definition, written before it in its module and marked "Mutated",
under which TLC finds the property violated. No specification uses one.

Deadlock is not checked: a generation, a streamed answer, a request or a call
ends, and the models stop with it. The liveness properties say what
must not stop early.

Symmetry is not used: the runs with many states check liveness, and the
constants of `WireProxy` are ordered fragments.

## Bounds

- `ToolLoop`: two rounds, up to two calls a response, two ids (so ids repeat within and
  across rounds), a known and an unknown tool, one retry. Two rounds are the least
  with a prompt that holds an earlier exchange; two calls the least with a failure between an
  executed and an unexecuted one. The theorems remove these bounds.
- `ClientSession`: four calls on a builder and its requests together, out of nine and nine; three
  environments. Four calls allow a setting to be set, loaded over and set again, or
  a client's tools to be replaced, dropped and added to. The theorems remove these bounds.
- `WireProxy`: three frames out of nine kinds, two ids, counts 1 to 3, of which 3 is the largest (`MaxCount`) so
  that sums overflow. Three frames
  allow a call to be opened, extended and closed by the next or by a finish reason,
  and finish reason and usage to come in either order, with repeats. A frame with two deltas
  gives two calls per payload. The failing runs use frames with an in-band error.
- `WireProxy` has, beside those nine frames of Chat Completions, three of OpenRouter (only the space after
  `data:` differs) and twelve of Anthropic. The theorems remove these bounds.
- `ProviderRequests`: three requests, which are two turns with a tool round in one of
  them, or three turns; `ToolOrder` needs two. Two tools have two orders.
- `ProviderCall`: up to three retries, so that the cap bites before the last; one status of every
  class the code tells apart; multipliers 2, 3/2, 1/2, 0 and -1; the older client knows neither the newest kind nor throttling.
- `McpCatalog`: two servers with listings of up to three names, pages of up to two tools; names shared, repeated
  and blank; renamings that swap, prefix, merge and blank.
- `McpRequest`: three requests (deadline; signal and deadline; zero timeout) and a
  queue of one message, so that requests and notifications compete for room.
- `McpCall`: two calls of one tool and one of another, one permit; a deadline for two
  of them, a signal for the third; each tool with or without a schema. One permit makes
  every pair of jobs compete, two calls of a tool share a flight.

## Fairness

Weak fairness on steps which a polled future takes on its own, since executors poll
woken futures: `BeginRound`, `Retry` (a tokio timer), `ServeCall`, `Poll`,
`Notify`, `QueueCompile`, `ServerStep`, `ClientStep`, and `Run` (the semaphore
hands out free permits in order). `ProviderReplies` and `ServerStep` are fair
also because a request ends in the response or in the HTTP client's error, and a page
of a listing (`ReadPage` or `ReadFails`) because the peer answers or the session ends.

Nothing is assumed of handlers (`Terminates` excepts a handler that hangs for
ever), servers, sessions, clocks, signals, or blocking jobs. `CancellationArrives` supposes, within the property,
that the session keeps draining its queue; `FlightsLand` that blocking jobs end.
The `PromptReturn`s suppose neither.

## Proofs

### The generation loop

`ToolLoopProofs` proves, for every registry, prompt, retry limit, round
limit and number of calls allowed by `ToolLoopAssumption` (the limits are
naturals, registered tools are names, the base prompt is a sequence of messages), what the
run `ToolLoop` checks on its instance:

| Theorem | States |
|---|---|
| `LoopInvariant`, `TypeCorrect` | `LoopInv`, and `TypeOK` with it |
| `RetriesAreDisciplined` | `RetryDiscipline` |
| `PromptsAreWellFormed` | `WellFormedPrompt` |
| `EffectsAreAccounted` | `EffectsAccounted` |
| `RequestsAreBudgeted` | `RequestBudget` |
| `GenerationsAreConversations` | `ImplementsConversation` |

The base is `LoopInv`, `TypeOK` with `Phase`: what the locals mean at each await
point (no error before the end, a retry only when one is left, a round only below
the limit, an index into the calls only inside a round). `TypeOK` alone is not
inductive: `Retry` could push `attempt` past its limit. Each property adds its own strengthening:

- `PromptInv` says exactly which slots of the prompt the round in progress has
  filled: every earlier assistant message is fully answered, and the last one, made
  of `calls`, has `next - 1` answers behind it. `WellFormedPrompt` is not inductive, because it
  does not tie the prompt to `calls` and `next`, from which the next answer is
  made. `PromptInvStep` shows it per action with `AppendKeeps` for old slots;
- `EffectsAccounted` is inductive relative to `PromptInv`;
- `BudgetInv` counts requests by `round` and `attempt`: whole rounds first, then the attempts
  of the current one;
- the refinement maps every step to an exchange (`RoundIsExchange`, when the last
  call of a round is answered), an end, or a stutter (`TranscriptKept`, when the
  prompt grows inside a round and the transcript does not).

### A provider call

`ProviderCallProofs` assumes `ProviderCallAssumption` (providers, policies, statuses and
an older build's kinds of errors are of the right kind; the sets are otherwise arbitrary):

| Theorem | States |
|---|---|
| `CallInvariant` | `CallInv` |
| `CapabilitiesAreKept` | `CapabilitiesAreRespected` |
| `ErrorsAreForwardedWhole` | `ErrorsSurviveTheWire` |
| `WaitsFollowThePolicy` | `WaitsAreBounded` |

`CallInv` is `CallTypes`, `Counting` and `Failing`. `Counting` ties the requests and waits
to `attempt` and the await point; without it a failed call could not be known to have
used its policy up. `Failing` says what an error means when it is left behind: it names a
capability the request needs, and a retryable one comes after the last attempt.
`RequestedIsNeeded` connects the check before the call to the payload that `ChatRequests`
renders: what the check asks for is what the request depends on. `GivenStays` lets every step reuse
that, as nothing a call was given changes. `KindSurvives` is why an unknown kind
is no loss: it is kept as text.

`WaitsAreBounded` adds `Slept`: each wait is a delay of its attempt. What remains is arithmetic on
fractions, without division: a delay is a numerator over `Scale`, and two are compared crosswise.
`PowersCross` compares the powers of a multiplier with those of one (by induction along `Power`'s recursion),
`CappedCross` carries that over the clamp, `RoundsGrows` over the rounding. Hence `WaitsAreOrdered` for any two
attempts, `WaitsOfThePolicy` for the first delay and the cap (`DelaysAreNear`, `DelaysKeepTo`: jitter stays within
half), and `NoDelayIsZero` (a range is empty only over a delay of zero, and a delay is negative only of a negative
multiplier). A multiplier of one or more and one between zero and one have opposite conclusions, and the theorem
states both; of a negative one it states the bound and the panic.

### Requests on an MCP session

`McpProofs` assumes `McpRequestAssumption` (subsets of the requests, a queue
for at least one message):

| Theorem | States |
|---|---|
| `RequestInvariant`, `TypeCorrect` | `RequestInv`, and `TypeOK` with it |
| `CancellationsFollowRequests` | `CancelledAtMostOnce` |
| `AbandonmentsAreTold` | `AbandonedIsCancelled` |
| `NothingIsSentLate` | `NoLateDispatch` |

`RequestInv` is `Types` and `Discipline`, which is `Ordered` and `Owed` for each request.
Neither safety property is inductive. `CancelledAtMostOnce` says nothing of a task yet to run, so
`Owed` adds that such a task has a request given up, unanswered and already sent;
`AbandonedIsCancelled` says nothing of a request still waiting, so `Owed` adds that
it was sent and its oneshot is open while the session is. The lemmas on `At`
say where a message is after the session was given one (`AtAppend`), sent one
(`StreamTransmit`: nothing moves) or closed (`StreamCut`: a prefix is left); one lemma
per kind of step keeps the invariant, and `ReturnKeepsInv` serves every way a future ends.

### Calls on a catalog

`McpCallProofs` assumes `McpCallAssumption` (each call is of a tool, deadlines and signals
belong to calls, at least one permit); calls, tools and permits are of any number:

| Theorem | States |
|---|---|
| `CallsInvariant`, `TypeCorrect` | `CallsInv`, and `TypeOK` with it |
| `PermitsSuffice` | `JobsAreBounded` |
| `SchemasAreCompiledOnce` | `CompiledOnce` |
| `ResultsAreValidated` | `OnlyValidResults` |
| `PermitsOutliveCallers` | `PermitsAreKept` |

`CallsInv` is `Types`, the bound on jobs, and for each tool and call what it has in the
semaphore's line and among the jobs. `JobsAreBounded` and `CompiledOnce` are not
inductive: an abandoned caller's job is accounted for only if each place in line has its
asker and none has two, which is `Validating` and `Flying` with a line that is `Distinct`
and `Leave` taking out one place. `OnlyValidResults` speaks of the outcome only;
`Judging` carries the verdict from the job to the return, through the awaits in between.

### Catalogs

`McpProofs` assumes `McpCatalogAssumption`: servers in some order, listings and renamings of names,
results with text. Servers, tools, listings, pages and catalogs are of any number and size.

| Theorem | States |
|---|---|
| `CatalogInvariant` | `CatalogInv` |
| `DiscoveryBindsTheListing` | `CatalogIsTheListing` |
| `CallsReachTheirTool` | `AnsweredByTheAdvertisedTool` |

`CatalogInv` is `CatalogTypes`, `Discovering`, `Offering` and `AnsweredByTheAdvertisedTool`.

- `Discovering`: while a server whose listing has not changed is being read, what was read is the
  beginning of the listing, up to the cursor; or the server has lost its place and is about to send a tool that
  was read before, so that discovery will fail (`Faithful`). The second case is what makes it inductive: a cursor may
  go back, and what has been read then matches no beginning of the listing until the repetition is met.
- `Offering`: an offer is made once no catalog can be bound any more, and what it advertises are the
  declarations of attached tools under names of their own. `AnsweredByTheAdvertisedTool` speaks only of a
  call that was made, so it says nothing of the offer that the call is yet to come from.

An offer of executable tools is a registry, filled by `Extend`; the lemmas tie a name in it to the only
catalog and tool that has it, and a call to both. Filtering and renaming are `Selection`s, and
`SelectionAlike` lets the advertised and the remote name of a tool be filtered side by side.

### Conversations in a dialect

`ProviderRequestsProofs` assumes `ProviderRequestsAssumption`: openings and utterances are made by the
constructors of `Message`, replies are sequences of content blocks or choices, a registry is finite. Any
number of them is allowed, and of requests, rounds and turns. (It also says that three literals
are strings, which is true and which the provers do not know.)

| Theorem | States |
|---|---|
| `ConversationIsRecorded`, `RequestsTyped` | `ConversationInv`, and `TypeOK` with it |
| `EverythingIsSaid` | `NothingIsLost` |
| `BreakpointsPlaced` | `BreakpointsArePlaced` |
| `CacheIsStable` | `CachedPrefixIsStable` |

The state is simple and the rendering is not, so the invariant is short and most of the proof is about
renderings. `ConversationInv` says that each entry of `said` is what the message there says (`Records`),
that the application's prompt begins what is sent (`Kept`), that every request is the rendering of a whole
conversation of constructed messages (`Requests`), and that the one whose reply is awaited renders the conversation as it
is. `NothingIsLost` is not inductive: it looks at a moment when nothing has been recorded that was not
sent. The other two relate requests, and follow for any two renderings:

- a message that a constructor made is read back as what it says, in either dialect (`ReadAs` for the blocks
  of an Anthropic message; its system prompt travels apart, `SystemSaid`);
- marking for the cache changes the `cached` flag of one block and nothing else (`Marks`, `Unmarking`), so
  what a request says does not depend on it;
- `Lies` places each block of a payload, flattened to tools, system prompt and messages, in its part;
  `WellPlaced` and `Repeating` are read off these places. That a later request
  repeats the cached blocks of an earlier one needs the message which is last in the one to be
  the same, block by block, in the middle of the other.

### The streaming proxy

`WireProxyProofs` assumes `WireProxyAssumption`: the frames are of their dialect's shape
(`Payloads`, `SseEvents`), which is what serde accepts, in any number, order and
combination. Ids, texts, counts and the length of the body are arbitrary, and so is the point at
which the link or the body breaks.

| Theorem | States |
|---|---|
| `ProxyInvariant`, `TypeCorrect` | `ProxyInv`, and `TypeOK` with it |
| `StreamsAreWellFormed` | `WireGrammar` |
| `NothingIsTruncated` | `NoSilentTruncation` |
| `TheProxyIsTransparent` | `ProxyIsTransparent` |
| `CallsReachTheClient` | `CallsDelivered` |
| `TotalsAreSums` | `TotalsAgree` |

`ProxyInv` is `TypeOK` and three parts, one for each actor:

- `Serving` knows where a failure of the body is: in the relay's next event, until the
  stream is over;
- `Writing` says what a stream is while it goes on (`Going`) and when it is `Over`. While it goes on it has begun
  and holds nothing final (`Shape`), its calls are bracketed and the open one, if any, is the relay's
  pending call with the arguments forwarded so far (`Brackets`), and a client that received all of it would have
  the text a local consumer has and nothing else (`Midway`). Over, it has its last
  event (`Shaped`) and a client that received all of it would have the local consumer's response
  or failure (`Rebuilt`);
- `Receiving`: the client's accumulator is `Received` of the events that it took, and it
  settles on nothing before all of a stream that is over.

`WireGrammar`, `NoSilentTruncation` and `ProxyIsTransparent` are not inductive, as none speaks of a stream under way. `GoingMore` extends a
stream by one event and `GoingCloses` by the relay's closing of a call; `RelayGoes`
has one case for each kind of provider event. The decoders enter by their types
alone, so these three hold whatever they make of a frame.

The other two are about what the decoders make of it, and add an invariant each:

- `Reporting` (for `TotalsAgree`): what has been reported has a total that is the sum of its counts, and the
  decoder's usage has each count that was reported (`Covers`), so that the next report replaces the total together
  with both counts. Merging keeps a count that the newer snapshot lacks; a total is right after it only if
  no count that it was computed from stays behind, which is what `Covers` says. The condition `OpensWhole` is where the
  proof fails without it, and TLC then has the counterexample: two openings with one count each,
  and the stop.
- `Delivering` (for `CallsDelivered`): once the relay, the local turn and a client that received everything sent have
  been fed the events that were yielded (`Three`, `Feed`, `After`), they hold the calls that the
  deltas of the body so far make. The latest call is in flight in all three (`Assembled`, `Buffered`), or the reason was
  named and it is closed (`Flushed`), and the decoder's current id is its id. A property of the frames
  read so far and one of the events not yet relayed must be told apart for this: a frame may hold several deltas, and its
  events are relayed one by one while the body is already a frame further. `AfterConcat` and `AfterHead` are why feeding
  one event leaves the rest to be fed; `DeltaFollows` takes a delta to its events, `DeltasFollow` a frame's list of them
  to all of its events, `FrameKeeps` each dialect's frame; `FeedStarts`, `FeedExtends` and `FeedFinishes` say what
  the three do with an event, whoever decoded it. On the side of the definition, `CallOpens` and `CallLengthens` say what one more
  delta adds to `CallsIn`. `BodyOf` restates the body's operators with the body as an argument, as
  `FramesFollow` compares two.

Anthropic's decoder holds its current id as an `Option`, in the code and in the model: the proof of
`FrameKeeps` needs the arguments that come before any call to be dropped.

`Received` is a fold over what was sent, and a `ToolCallEnd` is compared with a
`FlattenSeq` of fragments. What these do with one more event is proved in
`RecursionLemmas`, where induction is by the least counterexample: the set of
lengths at which a statement fails has a least element if it is not empty. `Recursion` gives every fold along
a sequence its function, `Agreement` makes it the only one, `FlattenSeqMore` follows.

### The client and its requests

`ClientSessionProofs` assumes `ClientSessionAssumption`: an environment gives every variable a
value or none, and the calls are calls of the two builders with arguments of their types
(`ClientMethods`, `RequestMethods`: any tools, names, policies and settings). Environments, lists
and the number of calls and requests are of any size, but for `MaxCalls`, which is any natural
number.

| Theorem | States |
|---|---|
| `SessionInvariant` | `SessionInv` |
| `RequestsOfferWhatWasAsked` | `OffersWhatWasAsked` |
| `RejectionsAreExact` | `RejectedIffUnservable` |
| `LatestCallDecides` | `SettingsPrecedence` |

The properties speak of a result and two histories, the code keeps neither history. `SessionInv` says
at each stage what of the histories the state holds:

- `BuilderSays`: each setting of the builder is what `Said` reads off its calls (the latest
  of those that set it, its alias, or loaded it), its policy is `RetrySaid`, its tools are all that were given. A
  legacy setter fills two fields; the part on `openrouter_app_url` is why reading
  the alias adds nothing. `ConfigSet`, `ConfigLoaded` and `ConfigKept` are the three kinds of call;
- `ClientSays`: `build()` has read the environment through (`SettingsGot`: `Said`
  becomes `Want`, which is `Expected`) and registered the tools;
- `RequestSays`: the override and the tools of a request are what its calls since the last
  `no_tools()`, or else since the first `tools()`, say (`OverrideSays`; `OverrideMore` has a case per override and call);
- `ResultSays`: a result is what the two say together, until the next request. `ResolvedIs`
  joins client and request, `ServedIff` compares what is rejected with what can be served.

Each history grows by one call, so every operator on histories has a lemma about one more call
(`CallsMore`, `ListedMore`, `DeclaredMore`, ...). `Extend` is a fold that the community module defines over sets
of positions: `ExtendFolds`, in `RecursionLemmas`, shows that such a function exists, by iterating its equation with `Recursion`
until it holds on every subset; `ExtendSteps` that along a list it is one registration after another, and
`ExtendAll` that its outcome does not depend on the list's order.

### Model-checked only

- Liveness, under any fairness: it needs ENABLED, which the provers do not expand.
- The four properties below that the code violates.

Every safety property that a passing run checks is proved, for every value of the constants, within
what a theorem's assumption keeps: a retry multiplier is a finite fraction, a count is not negative nor
above `MaxCount`, and bounds such as `MaxFrames` are numbers, though any. TLC has checked each
property before, and the strengthenings `ProxyInv`, `Reporting` and `Delivering` on the run `WireProxy`.

## Where the documentation and the code disagree

The first four are runs whose property states the documentation and is violated.

1. `GenerateOnce`: `generate_once()` is documented to make exactly one provider call
   (`src/client.rs:990`, `docs/src/introduction.md:29`), and retries like `generate()` does.
2. `InBandError`: a mid-stream provider failure is documented to reach the client as an
   error event (`src/client.rs:1328`). The Chat Completions decoder skips
   a payload that does not parse, an error payload too (`src/provider/openai.rs:534`), and
   the client gets a complete, short response. `NoSilentTruncation` is about
   the transport and holds.
3. `UsageLost`: usage is documented to be emitted just before the terminal event
   (`src/wire.rs:241`). After an error the generator returns before it.

4. `ToolOrder`: prompt caching is documented to serve each tool round and each new turn
   from the cache (`src/generation.rs:208`, `docs/src/quickstart.md:116`). Tools given to each request are listed
   in the order of a new `HashMap` (`src/tool.rs:450`), and they are the front of
   what is cached. With tools on the client the order stays, and so within one
   `generate()`: `CachedPrefixIsStable` holds whenever the order is the same.
5. Without a run of its own: "Explicit setters win over the environment regardless of chain order relative to
   `from_env()`" (`src/client.rs:1871`; an explicit value "always wins" in `src/config.rs:6` and
   `docs/src/configuration.md:7`). `from_env()` replaces the whole configuration (`src/client.rs:1946`), so a key or an
   endpoint set before it is lost: after `.openai_key(..).from_env()` a request goes out with the environment's key, or
   the client has no OpenAI provider at all. The same sentence and `src/client.rs:1941` go on to say that it replaces what was
   accumulated and should be called first; the promise holds for that order only. `Load` models what the code does, and
   `SettingsPrecedence` takes `from_env()` for the call that decides.

Met while reading, and modelled as the code does it, without a run of their own:

- A 429 whose body is not the provider's error envelope is a failed request and is not
  retried (`Classify`), though rate limits are said to be retried by default
  (`docs/src/retries-and-errors.md:3`).
- `Client::new` documents an error when a provider's HTTP client cannot be
  built (`src/client.rs:140`); the provider is left out with a warning, and using it is
  "not configured" (`NewClient`).
- `config.rs` describes a fallback to the environment; timeout, retry policy and
  OpenAI's and Anthropic's base URLs have none outside `from_env` (`ReadThrough`).
- Jitter is added after the cap, so a wait may exceed `max_delay` by up to a half
  (`DelaysForAttempt`), and a zero delay with jitter panics, as does a negative
  multiplier; `WaitsAreBounded` says just that.
- On Anthropic JSON mode is ignored, system messages after the first are not sent, and an
  empty system text is marked for caching.

## What is not modelled

- Byte framing (`from_utf8_lossy` per chunk, events found by a blank line): the
  models start at a `data:` line or a named event.
- The content of text, arguments, schemas and results; JSON parsing is a set of valid
  argument texts (`ValidArgs`). The strict-schema normaliser
  (`normalize_strict_json_schema`) and schema inference are recursion over JSON documents.
- Sampling settings, headers, metadata and costs, which are copied; the wording of errors,
  and with it how a message is found to mention a capability (`mentions_unsupported` is a
  choice of the environment).
- Time as `f64`: products are exact, so its own rounding, overflow and underflow, infinite multipliers
  and NaN are left out. The rounding of a delay to whole nanoseconds is modelled.
- `stream()`, which passes text through; `TurnComplete` and `ToolResult` wire events, which a server
  adds itself; wire serialization.
- The model tables (`model.rs`) and the crate root: no state and no decisions.
- HTTP and rmcp, which appear as environment.

## Plan

Done: the generation loop with its abstract specification and its proofs; the streaming proxy
for both kinds of body; MCP requests, catalog calls and catalogs; the client
and its requests; conversations in both dialects; provider calls; proofs of all their
safety properties. Left, in order of importance:

1. `SseFraming`: bytes to payloads, against a reference splitting of the whole
   body, for every chunking.
2. `TurnComplete` and `ToolResult` on the wire: a server that runs tools for its client.
