---------------------------- MODULE MCH323Call ----------------------------
(* H323Call for TLC: the bounds are given by the configurations.              *)
EXTENDS H323Call
=============================================================================
