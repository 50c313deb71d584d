-------------------------- MODULE MCClientSession ---------------------------
(***************************************************************************)
(* Small sessions: an empty environment, one that sets everything, and one *)
(* with legacy variables and text that does not parse; two tools, one      *)
(* without a handler, a definition; every setting that precedence can      *)
(* decide, for a provider that reads through and one that does not.        *)
(***************************************************************************)
EXTENDS ClientSession

Holding(values) ==
  [v \in Variables |-> IF v \in DOMAIN values THEN Some(values[v]) ELSE None]

MCEnvironments ==
  { Holding(<<>>),
    [v \in Variables |-> Some("env")],
    Holding([OPENAI_API_KEY |-> "env", OPENROUTER_API_KEY |-> "env",
             OPENROUTER_APP_URL |-> "legacy", OPENROUTER_HTTP_REFERER |-> "env",
             AI_MAX_RETRIES |-> "bad", AI_TIMEOUT_SECONDS |-> "bad"]) }

A == Tool("a", TRUE, TRUE)
B == Tool("b", TRUE, TRUE)
Unfinished == Tool("b", TRUE, FALSE)

MCBuilderCalls ==
  {FromEnvCall, RetryCall(NoRetry), ModelCall("OpenAI"), ModelCall("OpenRouter"),
   ToolsCall(<<A>>), ToolsCall(<<A, B>>)}
  \cup {SetCall(f) : f \in {"openai_api_key", "openai_base_url", "openrouter_app_url"}}

MCRequestCalls ==
  {ToolsCall(<<A>>), ToolsCall(<<B>>), ToolsCall(<<Unfinished>>),
   AdditionalCall(<<A>>), AdditionalCall(<<B>>), DefinitionsCall(<<"b">>),
   NoToolsCall, ModelCall("OpenAI"), RetryCall(NoRetry)}

=============================================================================
