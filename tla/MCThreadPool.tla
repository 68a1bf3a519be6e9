---------------------------- MODULE MCThreadPool ----------------------------
(***************************************************************************)
(* Two workers compete for the list and for the wakeups of two AddTask     *)
(* calls.                                                                  *)
(***************************************************************************)
EXTENDS ThreadPool

CONSTANTS w1, w2, t1, t2

=============================================================================
