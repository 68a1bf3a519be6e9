---------------------------- MODULE MCMemoryPool ----------------------------
(***************************************************************************)
(* Two threads; two sizes, one below and one at the alignment.             *)
(***************************************************************************)
EXTENDS MemoryPool

CONSTANTS t1, t2

=============================================================================
