---------------------------- MODULE ProviderCall -----------------------------
(***************************************************************************)
(* One provider call, of generate_once(), generate_structured_once() or    *)
(* stream_wire_events(), down to the HTTP exchange: the provider refuses   *)
(* what its endpoint was declared to lack, sends the request, classifies   *)
(* what comes back as a Response, an open stream or an Error, with_retry   *)
(* waits and tries again, a structured reply is validated, and an error    *)
(* may be forwarded to a remote client whose build is older and knows      *)
(* fewer kinds of errors.  What a stream brings once open is WireProxy's.  *)
(***************************************************************************)
EXTENDS ErrorTaxonomy, RetryPolicy, FiniteSets, SequencesExt

CONSTANTS Providers,   \* the providers called
          Policies,    \* the retry policies
          Statuses,    \* the HTTP statuses, other than success, of a reply
          OlderKinds   \* the kinds of errors the remote client's build knows

ASSUME ProviderCallAssumption ==
  /\ Providers \subseteq {"OpenAI", "Anthropic", "OpenRouter", "OpenAICompatible"}
  /\ Policies \subseteq RetryConfig
  /\ Statuses \subseteq Nat
  /\ OlderKinds \subseteq Kinds

Capabilities == {"tool_calling", "structured_output"}

Chat == INSTANCE ChatRequests
Claude == INSTANCE AnthropicRequests

VARIABLES
  entry,      \* the method called
  provider,   \* the model's provider
  declared,   \* EndpointCapabilities of a compatible endpoint
  config,     \* the GenerationConfig
  tools,      \* the tools of the request
  policy,     \* the RetryConfig
  pc,         \* where the call stands, or how it ended
  attempt,    \* `attempt` of with_retry
  error,      \* the last error: an Option
  forwarded,  \* the error as a remote client received it: an Option
  carried,    \* history: what each request sent needs of its endpoint
  waits       \* history: the delays slept

vars == <<entry, provider, declared, config, tools, policy, pc, attempt, error,
          forwarded, carried, waits>>

Init ==
  /\ entry \in {"generate_once", "generate_structured_once", "stream_wire_events"}
  /\ provider \in Providers
  /\ declared \in IF provider = "OpenAICompatible" THEN SUBSET Capabilities ELSE {Capabilities}
  /\ config \in [json_schema : BOOLEAN, json_mode : BOOLEAN, prompt_caching : {FALSE}]
  /\ tools \in {<<>>, <<"add">>}
  /\ policy \in Policies
  /\ pc = "send"
  /\ attempt = 0
  /\ error = None
  /\ forwarded = None
  /\ carried = <<>>
  /\ waits = <<>>

given == <<entry, provider, declared, config, tools, policy>>

-----------------------------------------------------------------------------

\* structured_config_for: the type's schema replaces the config's.
EffectiveConfig ==
  IF entry = "generate_structured_once" THEN [config EXCEPT !.json_schema = TRUE] ELSE config

\* generate_structured_once() ignores the tools.
EffectiveTools == IF entry = "generate_structured_once" THEN <<>> ELSE tools

\* Mutated: JSON mode is not structured output.
RequestedSchemaOnly ==
  {c \in Capabilities :
     \/ c = "tool_calling" /\ EffectiveTools # <<>>
     \/ c = "structured_output" /\ EffectiveConfig.json_schema}

\* RequestedCapabilities::of
Requested ==
  {c \in Capabilities :
     \/ c = "tool_calling" /\ EffectiveTools # <<>>
     \/ c = "structured_output" /\ (EffectiveConfig.json_schema \/ EffectiveConfig.json_mode)}

\* Of several capabilities, tools are checked first.
FirstOf(capabilities) ==
  IF "tool_calling" \in capabilities THEN Some("tool_calling")
  ELSE IF "structured_output" \in capabilities THEN Some("structured_output")
  ELSE None

\* check_declared_capabilities
Refused == FirstOf(Requested \ declared)

\* The request, of one user message.
Payload ==
  LET prompt == <<Chat!User(<<"q">>)>>
  IN  IF provider = "Anthropic"
      THEN Claude!AnthropicRequest(prompt, EffectiveConfig, EffectiveTools)
      ELSE Chat!ChatRequest(provider, prompt, EffectiveConfig, EffectiveTools)

\* What an endpoint must be able to do to serve a payload.
Needs(payload) ==
  {c \in Capabilities : \/ c = "tool_calling" /\ payload.tools # <<>>
                        \/ c = "structured_output" /\ payload.format # "none"}

\* with_retry: a transient error is slept over, while attempts are left.
Handle(e) ==
  /\ error' = Some(e)
  /\ pc' = IF IsRetryable(e) /\ attempt < policy.max_retries THEN "backoff" ELSE "failed"

\* A compatible endpoint's request is refused before anything is sent.
Refuse ==
  /\ pc = "send"
  /\ provider = "OpenAICompatible"
  /\ IsSome(Refused)
  /\ Handle(Unsupported(provider, Refused[1]))
  /\ UNCHANGED <<given, attempt, forwarded, carried, waits>>

Send ==
  /\ pc = "send"
  /\ provider = "OpenAICompatible" => ~ IsSome(Refused)
  /\ carried' = Append(carried, Needs(Payload))
  /\ pc' = "reply"
  /\ UNCHANGED <<given, attempt, error, forwarded, waits>>

\* send() fails, or the body of a success is no response: reqwest's error.
TransportFails ==
  /\ pc = "reply"
  /\ Handle(Failure("http", provider))
  /\ UNCHANGED <<given, attempt, forwarded, carried, waits>>

\* The body of an error: whether it is the documented envelope, and which
\* capabilities its message says are unavailable.
ErrorBodies == [envelope : BOOLEAN, mentions : SUBSET Capabilities]

\* CAPABILITY_REJECTION_STATUSES
RejectionStatuses == {400, 404, 422, 501}

\* parse_error of the three services, by status.
ParseError(status) ==
  CASE status = 401 -> Failure("auth", provider)
    [] status = 429 -> Failure("rate_limit", provider)
    [] status = 400 -> Failure("invalid_request", provider)
    [] OTHER        -> Failure("request", provider)

\* parse_error of a compatible endpoint: a capability the request used, and the
\* message names, is unsupported; 403 is an authentication error too.
ParseCompatibleError(status, body) ==
  LET rejected == FirstOf(Requested \cap body.mentions)
  IN  IF status \in RejectionStatuses /\ IsSome(rejected)
      THEN Unsupported(provider, rejected[1])
      ELSE ParseError(IF status = 403 THEN 401 ELSE status)

\* A body that is not the envelope is reported as a failed request.
Classify(status, body) ==
  CASE ~ body.envelope                                     -> Failure("request", provider)
    [] body.envelope /\ provider = "OpenAICompatible"      -> ParseCompatibleError(status, body)
    [] body.envelope /\ provider # "OpenAICompatible"      -> ParseError(status)

ReplyIsError(status, body) ==
  /\ pc = "reply"
  /\ Handle(Classify(status, body))
  /\ UNCHANGED <<given, attempt, forwarded, carried, waits>>

\* A success without choices, or whose calls' arguments do not parse; Anthropic
\* replies always make a Response.
ReplyIsUnusable ==
  /\ pc = "reply"
  /\ provider # "Anthropic" /\ entry # "stream_wire_events"
  /\ Handle(Failure("request", provider))
  /\ UNCHANGED <<given, attempt, forwarded, carried, waits>>

\* A Response; parse_structured_output has the last word on a structured one.
\* Its text is empty, not JSON, against the schema, not of the type, or valid.
ReplyIsResponse(text) ==
  /\ pc = "reply"
  /\ entry # "stream_wire_events"
  /\ IF entry = "generate_structured_once" /\ text # "valid"
     THEN pc' = "failed" /\ error' = Some(Failure("structured_output", provider))
     ELSE pc' = "answered" /\ error' = None
  /\ UNCHANGED <<given, attempt, forwarded, carried, waits>>

\* generate_stream(): the body of a success is handed to the decoder unread.
ReplyOpensStream ==
  /\ pc = "reply"
  /\ entry = "stream_wire_events"
  /\ pc' = "answered" /\ error' = None
  /\ UNCHANGED <<given, attempt, forwarded, carried, waits>>

\* The sleep between two attempts; no delay to draw is a panic.
Backoff ==
  /\ pc = "backoff"
  /\ IF DelaysForAttempt(policy, attempt) = {}
     THEN pc' = "panicked" /\ UNCHANGED <<attempt, waits>>
     ELSE /\ \E d \in DelaysForAttempt(policy, attempt) : waits' = Append(waits, d)
          /\ attempt' = attempt + 1
          /\ pc' = "send"
  /\ UNCHANGED <<given, error, forwarded, carried>>

\* A proxy projects the error for its client.
Forward ==
  /\ pc = "failed"
  /\ forwarded = None
  /\ forwarded' = Some(Received(WireErrorOf(error[1]), OlderKinds))
  /\ UNCHANGED <<given, pc, attempt, error, carried, waits>>

Texts == {"empty", "not_json", "against_schema", "not_of_type", "valid"}

Next ==
  \/ Refuse
  \/ Send
  \/ TransportFails
  \/ \E status \in Statuses, body \in ErrorBodies : ReplyIsError(status, body)
  \/ ReplyIsUnusable
  \/ \E text \in Texts : ReplyIsResponse(text)
  \/ ReplyOpensStream
  \/ Backoff
  \/ Forward

Spec == Init /\ [][Next]_vars

-----------------------------------------------------------------------------

\* openai_compatible.rs, "Capability degradation": an endpoint is never sent a
\* request that carries tools or a response_format it was declared to lack; and
\* a capability is reported as unsupported only when the request depends on it,
\* after at most one request since the last transient failure.
CapabilitiesAreRespected ==
  /\ \A i \in 1..Len(carried) : carried[i] \subseteq declared
  /\ error # None /\ error[1].capability # None =>
       /\ pc = "failed"
       /\ error[1].capability[1] \in Needs(Payload)
       /\ carried = <<>> \/ error[1].capability[1] \in declared
       /\ Len(carried) <= Len(waits) + 1

\* retry.rs: "initial_delay * backoff_multiplier^n, clamped to max_delay; with
\* jitter enabled, a random offset of up to 50% of that value is added".  Over
\* the whole call there is one wait for each request but the last, and none half
\* again as long as max_delay or longer.  With a multiplier of one or more none is
\* shorter than the shorter of the two delays, and without jitter none shorter
\* than the one before; with one between zero and one they shrink from there
\* instead.  A call panics only over a delay of zero that is jittered, or a
\* negative multiplier.
WaitsAreBounded ==
  LET multiplier == policy.backoff_multiplier
      growing    == multiplier.num >= multiplier.den
      shrinking  == 0 <= multiplier.num /\ multiplier.num <= multiplier.den
      first      == Lesser(policy.initial_delay, policy.max_delay)
      halves     == IF policy.jitter THEN 3 ELSE 2
  IN  /\ Len(waits) = attempt
      /\ Len(carried) <= Len(waits) + 1
      /\ Len(waits) <= policy.max_retries
      /\ \A i \in 1..Len(waits) :
           /\ 2 * waits[i] <= halves * policy.max_delay
           /\ growing => waits[i] >= first
           /\ shrinking => 2 * waits[i] <= halves * first
           /\ ~ policy.jitter =>
                \A j \in 1..(i - 1) : /\ growing => waits[j] <= waits[i]
                                      /\ shrinking => waits[i] <= waits[j]
      /\ pc = "panicked" =>
           \/ multiplier.num < 0
           \/ policy.jitter /\ (first = 0 \/ multiplier.num = 0)

\* wire.rs: the kind "is what lets an older client keep parsing streams from a
\* newer server", and "a proxy can forward it untouched".  A remote client,
\* however old, is told the kind, the provider and whether a retry may help
\* exactly as the local caller is, and an error it is told to retry is one the
\* call itself has retried to the end.
ErrorsSurviveTheWire ==
  forwarded # None =>
    /\ KindString(forwarded[1].kind) = error[1].kind
    /\ forwarded[1].provider = error[1].provider
    /\ forwarded[1].retryable <=> IsRetryable(error[1])
    /\ forwarded[1].retryable => Len(carried) = policy.max_retries + 1

=============================================================================
