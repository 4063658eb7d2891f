--------------------------- MODULE CallLifecycle ---------------------------
(* What the stack promises of a call, whatever its peer and its application   *)
(* do: it is live, then it is being cleared, then it is gone, and it never    *)
(* goes back.  Only while it is being cleared the peer is sent a              *)
(* ReleaseComplete, at most one.                                              *)
EXTENDS Naturals

VARIABLES
  phase,      \* of the call
  releases    \* ReleaseCompletes sent to the peer

lifecycleVars == <<phase, releases>>

Init == phase \in {"live", "clearing"} /\ releases = 0

Clear == phase = "live" /\ phase' = "clearing" /\ UNCHANGED releases

Release ==
  /\ phase = "clearing"
  /\ releases = 0 /\ releases' = 1
  /\ UNCHANGED phase

Remove == phase = "clearing" /\ phase' = "gone" /\ UNCHANGED releases

Next == Clear \/ Release \/ Remove

Spec == Init /\ [][Next]_lifecycleVars
=============================================================================
