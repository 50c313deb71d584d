---------------------------- MODULE ErrorTaxonomy ----------------------------
(***************************************************************************)
(* error::Error, and wire::WireError, its projection for a remote client.  *)
(* Messages are left out: a remote client is told the kind, the provider   *)
(* and whether a retry may help.                                           *)
(***************************************************************************)
EXTENDS Options

\* The variants that name a provider, and Error::kind_str of all of them.
ProviderKinds ==
  {"auth", "request", "rate_limit", "model_not_available", "provider_not_configured",
   "provider_not_enabled", "capability_unsupported", "content_filtered", "timeout",
   "tool_provider_unsupported", "structured_output"}

Kinds ==
  ProviderKinds \cup
  {"invalid_request", "config", "serialization", "http", "stream",
   "tool_arguments", "tool_not_found", "tool_loop_limit_exceeded"}

\* An error, with the provider and the capability its variant holds.
Failure(kind, provider) ==
  [kind |-> kind, provider |-> IF kind \in ProviderKinds THEN Some(provider) ELSE None,
   capability |-> None]

Unsupported(provider, capability) ==
  [Failure("capability_unsupported", provider) EXCEPT !.capability = Some(capability)]

\* Error::is_retryable
IsRetryable(error) == error.kind \in {"rate_limit", "timeout", "http"}

\* Mutated: a kind this build does not know is a failed request.
WireKindForgetting(kind, known) ==
  IF kind \in known THEN [variant |-> kind, other |-> None] ELSE [variant |-> "request", other |-> None]

\* From<&str> for WireErrorKind, in a build that knows these kinds.
WireKind(kind, known) ==
  IF kind \in known THEN [variant |-> kind, other |-> None]
  ELSE [variant |-> "other", other |-> Some(kind)]

\* WireErrorKind::as_str
KindString(wire) == OrDefault(wire.other, wire.variant)

\* From<&Error> for WireError
WireErrorOf(error) ==
  [kind |-> WireKind(error.kind, Kinds), provider |-> error.provider,
   retryable |-> IsRetryable(error)]

\* The wire error as a build that knows only some kinds reads it.
Received(wire, known) == [wire EXCEPT !.kind = WireKind(KindString(@), known)]

=============================================================================
