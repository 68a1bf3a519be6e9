---------------------------- MODULE MCSocketIocp ----------------------------
(***************************************************************************)
(* One writer with two messages, so that order can be lost; the first has  *)
(* two bytes, so that a transfer can be partial.                           *)
(***************************************************************************)
EXTENDS SocketIocp, TLC

MCQuota == "a" :> 2
MCSize == <<"a", 1>> :> 2 @@ <<"a", 2>> :> 1

=============================================================================
