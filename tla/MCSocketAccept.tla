--------------------------- MODULE MCSocketAccept ---------------------------
(***************************************************************************)
(* Three connections, two of them with one Key (the same peer again, or    *)
(* two peers that Endpoint::operator< does not tell apart), over two       *)
(* descriptors: numbers are given out again, and can run out.              *)
(***************************************************************************)
EXTENDS SocketAccept, TLC

CONSTANTS c1, c2, c3

MCKey == c1 :> "k" @@ c2 :> "k" @@ c3 :> "l"
\* One peer sends data, twice: a read can find data, more data and the end.
MCPortions == c1 :> 2 @@ c2 :> 0 @@ c3 :> 0

=============================================================================
