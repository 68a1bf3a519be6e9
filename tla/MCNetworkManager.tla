-------------------------- MODULE MCNetworkManager --------------------------
(***************************************************************************)
(* Instances of NetworkManager for TLC.  Endpoints are model values; the   *)
(* functions on them are written out per scenario.                         *)
(***************************************************************************)
EXTENDS NetworkManager, TLC

CONSTANTS e1, e2, e3

\* One listener with two clients whose addresses differ in text but not in
\* length and that use the same source port (one Key), and one outgoing
\* connection.
TwinOwner == (e1 :> 1) @@ (e2 :> 1) @@ (e3 :> 2)
TwinIp    == (e1 :> "a") @@ (e2 :> "b") @@ (e3 :> "c")
TwinLen   == [ip \in {"a", "b", "c"} |-> IF ip = "c" THEN 2 ELSE 1]
TwinRPort == (e1 :> 50) @@ (e2 :> 50) @@ (e3 :> 90)
TwinLPort == (e1 :> 80) @@ (e2 :> 80) @@ (e3 :> 60)
TwinListen  == [a \in {1} |-> 80]

\* One accepted (e1) and one outgoing (e3) connection.
PairOwner == [e \in {e1, e3} |-> TwinOwner[e]]
PairIp    == [e \in {e1, e3} |-> TwinIp[e]]
PairLen   == TwinLen
PairRPort == [e \in {e1, e3} |-> TwinRPort[e]]
PairLPort == [e \in {e1, e3} |-> TwinLPort[e]]
PairListen == TwinListen

\* What follows once two threads were in the task pool at once is not explored:
\* CallbackOrder and PeerCloseReported say nothing of it, and the invariants, for
\* which the pool does not matter, are proved.
NoOverlap == ~overlap

=============================================================================
