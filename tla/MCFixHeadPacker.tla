--------------------------- MODULE MCFixHeadPacker --------------------------
(***************************************************************************)
(* Instances of FixHeadPacker: a header of two bytes is enough to be cut   *)
(* by a read, bodies of 0 and 2 bytes against reads of up to 7 bytes       *)
(* give every alignment of a read with frame boundaries.  Of the lengths   *)
(* that unrelated bytes may announce, 6 is one too many for an int of 4    *)
(* bits and the header.                                                    *)
(***************************************************************************)
EXTENDS FixHeadPacker

MCLengths == {0, 2}
MCGarbage == {0, 2, 6}

=============================================================================
