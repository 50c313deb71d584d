----------------------------- MODULE MCToolLoop -----------------------------
(***************************************************************************)
(* Small instances of ToolLoop: two call ids (so that a model may repeat   *)
(* one), a registered and an unknown tool, at most two calls a response,   *)
(* one retry, and a prompt that is a single user message.                  *)
(***************************************************************************)
EXTENDS ToolLoop

CONSTANTS add, unknown, c1, c2

MCNames == {add, unknown}
MCCallIds == {c1, c2}
MCRegistered == {add}
MCBase == <<[role |-> "user"]>>

=============================================================================
