--------------------------- MODULE MCProviderCall ---------------------------
(***************************************************************************)
(* A service of each dialect and a compatible endpoint, a status of each   *)
(* class, and policies with and without jitter, a cap that bites, a delay  *)
(* of zero, and multipliers that are whole, broken, below one, zero and    *)
(* negative; the remote client knows neither the newest kinds nor          *)
(* throttling.                                                             *)
(***************************************************************************)
EXTENDS ProviderCall

MCProviders == {"OpenAI", "Anthropic", "OpenAICompatible"}

Policy(retries, initial, max, num, den, jitter) ==
  [max_retries |-> retries, initial_delay |-> initial, max_delay |-> max,
   backoff_multiplier |-> [num |-> num, den |-> den], jitter |-> jitter]

MCPolicies ==
  {Policy(0, 2, 4, 2, 1, TRUE), Policy(2, 0, 4, 2, 1, TRUE), Policy(2, 2, 3, 2, 1, TRUE),
   Policy(3, 2, 9, 2, 1, FALSE), Policy(3, 4, 0, 2, 1, FALSE),
   Policy(3, 3, 5, 3, 2, FALSE), Policy(3, 3, 5, 1, 2, FALSE), Policy(2, 3, 9, 1, 2, TRUE),
   Policy(2, 2, 4, 0, 1, TRUE), Policy(2, 2, 4, -1, 1, FALSE)}

MCStatuses == {400, 401, 403, 404, 422, 429, 500, 501}

MCOlderKinds == Kinds \ {"capability_unsupported", "rate_limit"}

=============================================================================
