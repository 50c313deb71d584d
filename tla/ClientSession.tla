--------------------------- MODULE ClientSession ----------------------------
(***************************************************************************)
(* A client from its builder to the requests it sends.  A ClientBuilder    *)
(* collects settings and tools; build() fixes them in a Client, which      *)
(* keeps a provider for each one that is configured; each request starts   *)
(* from the client's defaults, is refined, and ends in one of the terminal *)
(* methods, which resolves it against the client and either rejects it or  *)
(* hands it to its provider.                                               *)
(*                                                                         *)
(* The type state that hides the terminal methods until a model is known   *)
(* is a guard; a request is started together with its prompt.  Features    *)
(* are those of the default build: every provider is enabled.              *)
(***************************************************************************)
EXTENDS Configuration, ToolRegistry, FiniteSets

CONSTANTS Environments,  \* the environments a process may run in
          BuilderCalls,  \* the calls made on a ClientBuilder
          RequestCalls,  \* the calls made on a RequestBuilder
          MaxCalls       \* bound: calls on a builder and on a request of its client

\* ProviderKind, and the field that makes each provider configured.
Configures ==
  [OpenAI |-> "openai_api_key", Anthropic |-> "anthropic_api_key",
   OpenRouter |-> "openrouter_api_key", OpenAICompatible |-> "openai_compatible_base_url"]

Providers == DOMAIN Configures

\* RetryConfig, and the fields of Config with a method on ClientBuilder.
Policies == [DOMAIN RetryVariable -> STRING]
Settable == Fields \ {"default_max_tokens", "retry_config"}

\* The methods of both builders, of ClientBuilder, and of RequestBuilder.
SharedMethods ==
  [op : {"config"}] \cup [op : {"model"}, model : Providers]
  \cup [op : {"retry"}, policy : Policies] \cup [op : {"tools"}, tools : Seq(Tools)]
ClientMethods == SharedMethods \cup [op : {"from_env"}] \cup [op : {"set"}, field : Settable]
RequestMethods ==
  SharedMethods \cup [op : {"no_tools"}] \cup [op : {"additional"}, tools : Seq(Tools)]
  \cup [op : {"definitions"}, names : Seq(STRING)]

ASSUME ClientSessionAssumption ==
  /\ MaxCalls \in Nat
  /\ \A env \in Environments : DOMAIN env = Variables
  /\ BuilderCalls \subseteq ClientMethods
  /\ RequestCalls \subseteq RequestMethods

VARIABLES
  env,       \* the process's environment
  calls,     \* history: the calls made on the builder
  builder,   \* the ClientBuilder
  client,    \* the Client: None, or Some of what build() fixed
  asked,     \* history: the calls made on the current request
  request,   \* the RequestBuilder: None, or Some of its state
  result     \* of the last terminal method: "none", or a record

vars == <<env, calls, builder, client, asked, request, result>>

NoResult == [status |-> "none"]

\* ClientBuilder::new
NewBuilder ==
  [config |-> NewConfig, model |-> None, defaults |-> "default",
   retry |-> DefaultRetry, tools |-> <<>>]

Init ==
  /\ env \in Environments
  /\ calls = <<>>
  /\ builder = NewBuilder
  /\ client = None
  /\ asked = <<>>
  /\ request = None
  /\ result = NoResult

-----------------------------------------------------------------------------

\* Calls on a ClientBuilder.
FromEnvCall == [op |-> "from_env"]
SetCall(f) == [op |-> "set", field |-> f]
RetryCall(policy) == [op |-> "retry", policy |-> policy]
ModelCall(provider) == [op |-> "model", model |-> provider]
ConfigCall == [op |-> "config"]
ToolsCall(tools) == [op |-> "tools", tools |-> tools]

\* Mutated: the retry policy of the environment is not taken over.
LoadKeepingRetry(b) == [b EXCEPT !.config = FromEnv(env)]

\* ClientBuilder::from_env replaces the whole configuration and the retry policy.
Load(b) ==
  LET config == FromEnv(env)
  IN  [b EXCEPT !.config = config, !.retry = GetRetry(config)]

\* The builder after a call.
Configured(b, call) ==
  CASE call.op = "from_env" -> Load(b)
    [] call.op = "set"      -> [b EXCEPT !.config = With(@, call.field, "set")]
    [] call.op = "retry"    -> [b EXCEPT !.retry = call.policy]
    [] call.op = "model"    -> [b EXCEPT !.model = Some(call.model)]
    [] call.op = "config"   -> [b EXCEPT !.defaults = "client"]
    [] call.op = "tools"    -> [b EXCEPT !.tools = @ \o call.tools]

Configure(call) ==
  /\ client = None
  /\ Len(calls) < MaxCalls
  /\ builder' = Configured(builder, call)
  /\ calls' = Append(calls, call)
  /\ UNCHANGED <<env, client, asked, request, result>>

\* The provider's new(): where it sends, with which credential and attribution.
OpenAIProvider(config) ==
  [key |-> Get(config, env, "openai_api_key"),
   base_url |-> OrDefault(Get(config, env, "openai_base_url"), "default"),
   timeout |-> GetTimeout(config)]

AnthropicProvider(config) ==
  [key |-> Get(config, env, "anthropic_api_key"),
   base_url |-> OrDefault(Get(config, env, "anthropic_base_url"), "default"),
   timeout |-> GetTimeout(config)]

OpenRouterProvider(config) ==
  [key |-> Get(config, env, "openrouter_api_key"),
   base_url |-> OrDefault(Get(config, env, "openrouter_base_url"), "default"),
   timeout |-> GetTimeout(config),
   http_referer |-> GetAttribution(config, env, "openrouter_http_referer"),
   title |-> GetAttribution(config, env, "openrouter_title"),
   categories |-> GetCategories(config, env)]

OpenAICompatibleProvider(config) ==
  [key |-> Get(config, env, "openai_compatible_api_key"),
   base_url |-> Get(config, env, "openai_compatible_base_url")[1],
   timeout |-> GetTimeout(config),
   capabilities |-> GetCapabilities(config)]

NewProvider(config, p) ==
  CASE p = "OpenAI"           -> OpenAIProvider(config)
    [] p = "Anthropic"        -> AnthropicProvider(config)
    [] p = "OpenRouter"       -> OpenRouterProvider(config)
    [] p = "OpenAICompatible" -> OpenAICompatibleProvider(config)

\* new_with_defaults: a provider is kept when it is configured and its HTTP
\* client can be built; one that cannot be built is left out with a warning.
NewClient(b, registry, buildable) ==
  LET kept == {p \in Providers : buildable /\ IsSome(Get(b.config, env, Configures[p]))}
  IN  [model |-> b.model, defaults |-> b.defaults, retry |-> b.retry,
       tools |-> registry.names,
       providers |-> [p \in kept |-> NewProvider(b.config, p)]]

\* ClientBuilder::build: the tools are registered first, and must be.
Build(buildable) ==
  /\ client = None
  /\ LET registry == Extend(NewRegistry, builder.tools)
     IN  /\ ~ registry.rejected
         /\ client' = Some(NewClient(builder, registry, buildable))
  /\ builder' = NewBuilder
  /\ UNCHANGED <<env, calls, asked, request, result>>

\* A build() whose tools cannot be registered consumes the builder.
BuildFails ==
  /\ client = None
  /\ Extend(NewRegistry, builder.tools).rejected
  /\ builder' = NewBuilder
  /\ calls' = <<>>
  /\ UNCHANGED <<env, client, asked, request, result>>

-----------------------------------------------------------------------------

\* Calls on a RequestBuilder; ModelCall, ConfigCall, RetryCall and ToolsCall too.
AdditionalCall(tools) == [op |-> "additional", tools |-> tools]
DefinitionsCall(names) == [op |-> "definitions", names |-> names]
NoToolsCall == [op |-> "no_tools"]

\* RequestBuilder::new, with ToolOverride::Inherit.
NewRequest ==
  [model |-> None, config |-> None, retry |-> None,
   override |-> "Inherit", tools |-> <<>>, definitions |-> <<>>]

\* tool() and tools(): what was inherited or appended is replaced, what already
\* replaces it is added to.
ReplaceTools(r, tools) ==
  [r EXCEPT !.override = "Replace",
            !.tools = IF r.override = "Replace" THEN @ \o tools ELSE tools]

\* additional_tool() and additional_tools()
AppendTools(r, tools) ==
  [r EXCEPT !.override = CASE r.override = "Inherit" -> "Append"
                           [] r.override = "None"    -> "Replace"
                           [] OTHER                  -> r.override,
            !.tools = @ \o tools]

\* no_tools(): definition-only tools too.
DropTools(r) == [r EXCEPT !.override = "None", !.tools = <<>>, !.definitions = <<>>]

Refined(r, call) ==
  CASE call.op = "tools"       -> ReplaceTools(r, call.tools)
    [] call.op = "additional"  -> AppendTools(r, call.tools)
    [] call.op = "definitions" -> [r EXCEPT !.definitions = @ \o call.names]
    [] call.op = "no_tools"    -> DropTools(r)
    [] call.op = "model"       -> [r EXCEPT !.model = Some(call.model)]
    [] call.op = "config"      -> [r EXCEPT !.config = Some("request")]
    [] call.op = "retry"       -> [r EXCEPT !.retry = Some(call.policy)]

StartRequest ==
  /\ IsSome(client)
  /\ request = None
  /\ request' = Some(NewRequest)
  /\ asked' = <<>>
  /\ result' = NoResult
  /\ UNCHANGED <<env, calls, builder, client>>

Refine(call) ==
  /\ IsSome(request)
  /\ Len(calls) + Len(asked) < MaxCalls
  /\ request' = Some(Refined(request[1], call))
  /\ asked' = Append(asked, call)
  /\ UNCHANGED <<env, calls, builder, client, result>>

-----------------------------------------------------------------------------

\* The terminal methods, by what they do with the tools: run them, advertise
\* them, refuse any, or leave them out.
Executing == {"generate", "generate_with_history", "generate_structured"}
Advertising == {"generate_once", "stream_wire_events"}
Bare == {"stream", "stream_accumulated", "generate_stream_events"}
Ignoring == {"generate_structured_once"}
Entries == Executing \cup Advertising \cup Bare \cup Ignoring

\* RequestBuilder::resolve: the tools of the request, on a copy of the client's
\* registry or a new one.
ResolvedTools(c, r) ==
  LET inherited == [NewRegistry EXCEPT !.names = c.tools]
  IN  CASE r.override = "Inherit" -> inherited
        [] r.override = "Append"  -> Extend(inherited, r.tools)
        [] r.override = "Replace" -> Extend(NewRegistry, r.tools)
        [] r.override = "None"    -> NewRegistry

Resolve(c, r) ==
  [model |-> Or(r.model, c.model)[1],
   config |-> OrDefault(r.config, c.defaults),
   retry |-> OrDefault(r.retry, c.retry),
   registry |-> ResolvedTools(c, r),
   definitions |-> r.definitions]

\* ensure_executable_tools_only, ensure_streamable
Rejected(entry, resolved) ==
  \/ resolved.registry.rejected
  \/ entry \in Executing /\ resolved.definitions # <<>>
  \/ entry \in Bare /\ (resolved.registry.names # {} \/ resolved.definitions # <<>>)
  \/ entry \in Advertising /\ DefinitionsRejected(resolved.registry, resolved.definitions)

\* Mutated: tools without a handler are left out.
OfferedExecutable(entry, resolved) ==
  IF entry \in Executing \cup Advertising THEN resolved.registry.names ELSE {}

\* The tool names sent along with the request.
Offered(entry, resolved) ==
  CASE entry \in Executing   -> resolved.registry.names
    [] entry \in Advertising -> resolved.registry.names \cup ToSet(resolved.definitions)
    [] OTHER                 -> {}

\* generate_once_internal, generate_stream_inner: the model's provider gets the
\* request, if the client has one.
Dispatch(c, entry, resolved) ==
  IF resolved.model \notin DOMAIN c.providers
  THEN [status |-> "not_configured", model |-> resolved.model]
  ELSE [status |-> "sent", model |-> resolved.model, entry |-> entry,
        provider |-> c.providers[resolved.model], config |-> resolved.config,
        retry |-> resolved.retry, offered |-> Offered(entry, resolved)]

\* A terminal method consumes the request.
Finish(entry) ==
  /\ IsSome(request)
  /\ IsSome(Or(request[1].model, client[1].model))
  /\ LET resolved == Resolve(client[1], request[1])
     IN  result' = IF Rejected(entry, resolved)
                   THEN [status |-> "rejected", entry |-> entry, model |-> resolved.model]
                   ELSE Dispatch(client[1], entry, resolved)
  /\ request' = None
  /\ UNCHANGED <<env, calls, builder, client, asked>>

Next ==
  \/ \E call \in BuilderCalls : Configure(call)
  \/ \E buildable \in BOOLEAN : Build(buildable)
  \/ BuildFails
  \/ StartRequest
  \/ \E call \in RequestCalls : Refine(call)
  \/ \E entry \in Entries : Finish(entry)

Spec == Init /\ [][Next]_vars

-----------------------------------------------------------------------------

\* The positions of a history where the operation was called.
Calls(history, op) == {i \in 1..Len(history) : history[i].op = op}

Latest(S) == CHOOSE i \in S : \A j \in S : j <= i
Earliest(S) == CHOOSE i \in S : \A j \in S : i <= j

\* The tools listed by the calls of some operations, from one position on.
Listed(history, ops, from) ==
  FlattenSeq([i \in 1..Len(history) |->
    IF i >= from /\ history[i].op \in ops THEN history[i].tools ELSE <<>>])

\* The tools the request asked for, read off its calls alone: no_tools() forgets
\* all that came before it, and without it the first tool() or tools() does;
\* with neither, the client's tools come first.
AskedTools ==
  LET dropped  == Calls(asked, "no_tools")
      replaced == Calls(asked, "tools")
      ops      == {"tools", "additional"}
  IN  IF dropped # {} THEN Listed(asked, ops, Latest(dropped))
      ELSE IF replaced # {} THEN Listed(asked, ops, Earliest(replaced))
      ELSE Listed(calls, {"tools"}, 1) \o Listed(asked, ops, 1)

AskedDefinitions ==
  LET dropped == Calls(asked, "no_tools")
      from    == IF dropped = {} THEN 1 ELSE Latest(dropped)
  IN  FlattenSeq([i \in 1..Len(asked) |->
        IF i >= from /\ asked[i].op = "definitions" THEN asked[i].names ELSE <<>>])

AskedNames == [i \in 1..Len(AskedTools) |-> AskedTools[i].name]

Distinct(names) == \A i, j \in 1..Len(names) : i # j => names[i] # names[j]

\* A request that is sent offers exactly the tools its own calls and the
\* client's ask for, however the calls were ordered and whatever requests the
\* client served before; plain streams and generate_structured_once offer none.
OffersWhatWasAsked ==
  result.status = "sent" =>
    result.offered =
      CASE result.entry \in Executing   -> ToSet(AskedNames)
        [] result.entry \in Advertising -> ToSet(AskedNames) \cup ToSet(AskedDefinitions)
        [] OTHER                        -> {}

\* What a terminal method can serve: complete tools of distinct names, no
\* definition-only tool where tools are run, no tool where they are refused.
Servable(entry) ==
  /\ \A i \in 1..Len(AskedTools) : Registrable(AskedTools[i])
  /\ Distinct(AskedNames)
  /\ entry \in Executing => AskedDefinitions = <<>>
  /\ entry \in Bare => AskedNames = <<>> /\ AskedDefinitions = <<>>
  /\ entry \in Advertising =>
       /\ Distinct(AskedNames \o AskedDefinitions)
       /\ \A i \in 1..Len(AskedDefinitions) : ~ Blank(AskedDefinitions[i])

\* A request is rejected exactly when its terminal method cannot serve the tools
\* that were asked for, and then nothing is sent.
RejectedIffUnservable ==
  /\ result.status = "sent" => Servable(result.entry)
  /\ result.status = "rejected" => ~ Servable(result.entry)

\* The last call of a history that decides something, if any.
Decides(history, P(_)) == {i \in 1..Len(history) : P(history[i])}

\* Where a string setting comes from, given that from_env() "replaces any
\* configuration already accumulated on the builder" (client.rs): the program,
\* if it was set after the last from_env(); the environment, if that was loaded
\* or is read through.  A value set before from_env() is forgotten, against the
\* same file's "explicit setters win over the environment regardless of chain
\* order", which goes on "so call it first".
Expected(f, legacy) ==
  LET set    == Decides(calls, LAMBDA c : c.op = "set" /\ c.field \in {f, legacy})
      loaded == Calls(calls, "from_env")
      value  == IF f \in DOMAIN VariableOf THEN env[VariableOf[f]] ELSE Attribution(env, f)
  IN  IF set # {} /\ (loaded = {} \/ Latest(loaded) < Latest(set)) THEN Some("set")
      ELSE IF loaded # {} \/ f \in ReadThrough \cup DOMAIN Alias THEN value
      ELSE None

\* configuration.md: "a later setter overwrites an earlier one, including one
\* populated by from_env()".  A request goes to the endpoint, with the
\* credential, the attribution and the retry policy, that the latest call to
\* decide them gave.
SettingsPrecedence ==
  result.status = "sent" =>
    LET p     == result.provider
        retry == Decides(calls, LAMBDA c : c.op \in {"retry", "from_env"})
        own   == Calls(asked, "retry")
    IN  /\ result.model = "OpenAI" => p.key = Expected("openai_api_key", "")
        /\ result.model = "OpenAI" =>
             p.base_url = OrDefault(Expected("openai_base_url", ""), "default")
        /\ result.model = "OpenRouter" =>
             /\ p.key = Expected("openrouter_api_key", "")
             /\ p.http_referer = Expected("openrouter_http_referer", "openrouter_app_url")
        /\ result.retry =
             IF own # {} THEN asked[Latest(own)].policy
             ELSE IF retry = {} THEN DefaultRetry
             ELSE IF calls[Latest(retry)].op = "retry" THEN calls[Latest(retry)].policy
             ELSE OrDefault(RetryFromEnv(env), DefaultRetry)

=============================================================================
