----------------------------- MODULE MCMcpCall ------------------------------
(***************************************************************************)
(* Two calls of one tool and a call of another, over one permit.           *)
(***************************************************************************)
EXTENDS McpCall, TLC

CONSTANTS k1, k2, k3, s, t

MCCalls == {k1, k2, k3}
MCTools == {s, t}
MCToolOf == k1 :> s @@ k2 :> s @@ k3 :> t
MCTimed == {k1, k3}
MCCancellable == {k2}

=============================================================================
