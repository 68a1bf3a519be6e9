---------------------------- MODULE MCRpcManager ----------------------------
(***************************************************************************)
(* Instances of RpcManager: a client connects from one port to two         *)
(* listening ports, and this side to a server.  Every id can be reused by  *)
(* every other connection; the two accepted ones have one session id.      *)
(***************************************************************************)
EXTENDS RpcManager, TLC

CONSTANTS a1, a2, d, k1, k2

MCAddr == (a1 :> "A") @@ (a2 :> "A") @@ (d :> "D")
\* Only one peer sends an answer of its own.
OneUnasked == unasked \subseteq {a1}

MCLPort == (a1 :> 80) @@ (a2 :> 81) @@ (d :> 60)

=============================================================================
