--------------------------- MODULE Configuration ----------------------------
(***************************************************************************)
(* config::Config: credentials, endpoints, timeout and retry policy, set   *)
(* explicitly, loaded from the environment, or read from it by a getter    *)
(* when the field was not set.  A setting's value tells only where it came *)
(* from: "set" by the program, "env" from a variable; a variable may also  *)
(* hold "bad", text that does not parse as what the setting needs.         *)
(***************************************************************************)
EXTENDS Options

\* The string settings and the variable each is loaded from.
VariableOf ==
  [openai_api_key      |-> "OPENAI_API_KEY",
   openai_base_url     |-> "OPENAI_BASE_URL",
   anthropic_api_key   |-> "ANTHROPIC_API_KEY",
   anthropic_base_url  |-> "ANTHROPIC_BASE_URL",
   openrouter_api_key  |-> "OPENROUTER_API_KEY",
   openrouter_base_url |-> "OPENROUTER_BASE_URL"]

\* The endpoint's settings have no variables.
EndpointFields ==
  {"openai_compatible_base_url", "openai_compatible_api_key",
   "openai_compatible_capabilities"}

\* Each attribution setting, its legacy alias, and the variables of both.
Alias ==
  [openrouter_http_referer |->
     [field |-> "openrouter_app_url", variable |-> "OPENROUTER_HTTP_REFERER",
      legacy |-> "OPENROUTER_APP_URL"],
   openrouter_title |->
     [field |-> "openrouter_app_title", variable |-> "OPENROUTER_TITLE",
      legacy |-> "OPENROUTER_APP_TITLE"]]

AliasOf(f) == CHOOSE g \in DOMAIN Alias : Alias[g].field = f
Aliases == {Alias[g].field : g \in DOMAIN Alias}

\* struct Config
Fields ==
  DOMAIN VariableOf \cup EndpointFields \cup DOMAIN Alias \cup Aliases
  \cup {"openrouter_categories", "timeout_seconds", "default_max_tokens", "retry_config"}

\* Config::new
NewConfig == [f \in Fields |-> None]

\* RetryConfig::default, and the variable of each of its fields.
RetryVariable ==
  [max_retries        |-> "AI_MAX_RETRIES",
   initial_delay      |-> "AI_RETRY_INITIAL_DELAY_MS",
   max_delay          |-> "AI_RETRY_MAX_DELAY_MS",
   backoff_multiplier |-> "AI_RETRY_BACKOFF_MULTIPLIER",
   jitter             |-> "AI_RETRY_JITTER"]

DefaultRetry == [f \in DOMAIN RetryVariable |-> "default"]

\* RetryConfig::none
NoRetry == [DefaultRetry EXCEPT !.max_retries = "zero"]

Variables ==
  {VariableOf[f] : f \in DOMAIN VariableOf}
  \cup {Alias[f].variable : f \in DOMAIN Alias} \cup {Alias[f].legacy : f \in DOMAIN Alias}
  \cup {RetryVariable[f] : f \in DOMAIN RetryVariable}
  \cup {"OPENROUTER_CATEGORIES", "AI_TIMEOUT_SECONDS"}

\* Numbers, booleans and category lists are taken only when they parse; a list
\* of no categories counts as none.
Parsed(v) == IF v = Some("bad") THEN None ELSE v

\* The retry policy of the environment, if any variable of it is recognised.
RetryFromEnv(env) ==
  LET given == [f \in DOMAIN RetryVariable |-> Parsed(env[RetryVariable[f]])]
  IN  IF \E f \in DOMAIN given : IsSome(given[f])
      THEN Some([f \in DOMAIN given |-> OrDefault(given[f], "default")])
      ELSE None

\* The variable, and the legacy one when it is not set.
Attribution(env, f) == Or(env[Alias[f].variable], env[Alias[f].legacy])

\* The alias is filled only where the legacy variable was used.
LegacyAttribution(env, f) ==
  IF IsSome(env[Alias[f].variable]) THEN None ELSE env[Alias[f].legacy]

\* Config::from_env
FromEnv(env) ==
  [f \in Fields |->
     CASE f \in DOMAIN VariableOf        -> env[VariableOf[f]]
       [] f \in DOMAIN Alias             -> Attribution(env, f)
       [] f \in Aliases                  -> LegacyAttribution(env, AliasOf(f))
       [] f = "openrouter_categories"    -> Parsed(env["OPENROUTER_CATEGORIES"])
       [] f = "timeout_seconds"          -> Parsed(env["AI_TIMEOUT_SECONDS"])
       [] f = "retry_config"             -> RetryFromEnv(env)
       [] OTHER                          -> None]

\* The with_*() methods: each sets its field, a legacy one both.
With(config, f, value) ==
  LET named == [config EXCEPT ![f] = Some(value)]
  IN  IF f \in Aliases THEN [named EXCEPT ![AliasOf(f)] = Some(value)] ELSE named

-----------------------------------------------------------------------------

\* The getters that read the environment when their field is not set.
ReadThrough ==
  {"openai_api_key", "anthropic_api_key", "openrouter_api_key", "openrouter_base_url"}

\* openai_key, anthropic_key, openrouter_key, openrouter_base_url; the other
\* string settings are read as they are.
Get(config, env, f) ==
  IF f \in ReadThrough THEN Or(config[f], env[VariableOf[f]]) ELSE config[f]

\* openrouter_http_referer, openrouter_title
GetAttribution(config, env, f) ==
  Or(Or(config[f], config[Alias[f].field]), Attribution(env, f))

GetCategories(config, env) ==
  Or(config.openrouter_categories, Parsed(env["OPENROUTER_CATEGORIES"]))

\* retry_config and timeout do not read the environment.
GetRetry(config) == OrDefault(config.retry_config, DefaultRetry)
GetTimeout(config) == OrDefault(config.timeout_seconds, "default")

\* openai_compatible_capabilities, EndpointCapabilities::default
GetCapabilities(config) ==
  OrDefault(config.openai_compatible_capabilities, {"tool_calling", "structured_output"})

=============================================================================
