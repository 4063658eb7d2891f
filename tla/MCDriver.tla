------------------------------ MODULE MCDriver ------------------------------
(* Driver on small instances.                                                 *)
EXTENDS Driver
=============================================================================
