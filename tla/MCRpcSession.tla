---------------------------- MODULE MCRpcSession ----------------------------
(***************************************************************************)
(* Two ids and three calls, so that next_request_id_ wraps around; a       *)
(* request may have two answers.                                           *)
(***************************************************************************)
EXTENDS RpcSession

CONSTANTS r1, r2, r3

=============================================================================
