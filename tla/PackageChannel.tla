--------------------------- MODULE PackageChannel ---------------------------
(***************************************************************************)
(* What NetworkPackagerFixHead promises for a net id: packages arrive      *)
(* whole, once and in the order of PackAndSend, on one connection after    *)
(* the other.  Bytes, headers and reads do not occur.  The promise ends    *)
(* with the first connection that closes in the middle of a package, or    *)
(* package that is not taken as a whole: from then on the channel is not   *)
(* intact and anything may be delivered.                                   *)
(***************************************************************************)
EXTENDS Naturals, Sequences

CONSTANT Packages

VARIABLES sent,       \* packages sent on this connection
          delivered,  \* numbers of the packages delivered; 0 is none of them
          intact      \* no package was cut

vars == <<sent, delivered, intact>>

Init == sent = << >> /\ delivered = << >> /\ intact = TRUE

Send(p) ==
    /\ sent' = Append(sent, p)
    /\ intact' \in {intact, FALSE}
    /\ UNCHANGED delivered

Deliver ==
    /\ intact /\ Len(delivered) < Len(sent)
    /\ delivered' = Append(delivered, Len(delivered) + 1)
    /\ UNCHANGED <<sent, intact>>

DeliverGarbled ==
    /\ ~ intact
    /\ \E k \in 0..Len(sent) : delivered' = Append(delivered, k)
    /\ UNCHANGED <<sent, intact>>

Reconnect ==
    /\ sent' = << >> /\ delivered' = << >>
    /\ intact' \in {intact, FALSE}

Next == (\E p \in Packages : Send(p)) \/ Deliver \/ DeliverGarbled \/ Reconnect

Spec == Init /\ [][Next]_vars

=============================================================================
