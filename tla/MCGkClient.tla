----------------------------- MODULE MCGkClient -----------------------------
(* GkClient on small instances.                                               *)
EXTENDS GkClient, TLC

\* Calls differ in nothing.
Structures == Permutations(Calls)
=============================================================================
