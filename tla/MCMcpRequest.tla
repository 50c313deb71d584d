---------------------------- MODULE MCMcpRequest ----------------------------
(***************************************************************************)
(* Three requests on a session whose queue holds one message: one with a   *)
(* deadline, one with a signal and a deadline, one whose timeout is zero.  *)
(***************************************************************************)
EXTENDS McpRequest

CONSTANTS r1, r2, r3

MCRequests == {r1, r2, r3}
MCTimed == {r1, r2, r3}
MCImmediate == {r3}
MCCancellable == {r2, r3}

=============================================================================
