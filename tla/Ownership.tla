----------------------------- MODULE Ownership -----------------------------
(* What the threads of the driver promise of a private structure: two parties *)
(* hold it, its channel and the stack's call. One of them makes it; the other *)
(* takes it up while the first still holds it, if at all; each lets go once   *)
(* and never comes back, in either order; and when neither holds it any more  *)
(* it is freed, once. A channel may forfeit the structure while it holds it:  *)
(* it is then freed when the first of the two lets go.                        *)
CONSTANTS
  Structures

VARIABLES
  stage,     \* "none", "listed", "freed"
  part,      \* of each party: "new", "holds", "left"
  forfeited  \* the structures a channel gave up while it held them

ownershipVars == <<stage, part, forfeited>>

Parties == {"channel", "stack"}

Init ==
  /\ stage = [s \in Structures |-> "none"]
  /\ part = [s \in Structures |-> [h \in Parties |-> "new"]]
  /\ forfeited = {}

Holds(s, h) == part[s][h] = "holds"

Takes(s, h) ==
  /\ part[s][h] = "new"
  /\ part' = [part EXCEPT ![s][h] = "holds"]
  /\ UNCHANGED forfeited

Make(s, h) ==
  /\ stage[s] = "none"
  /\ stage' = [stage EXCEPT ![s] = "listed"]
  /\ Takes(s, h)

Join(s, h) ==
  /\ stage[s] = "listed"
  /\ \E other \in Parties : Holds(s, other)
  /\ Takes(s, h)
  /\ UNCHANGED stage

\* Of a forfeited structure a party may let go when it is freed already.
LetGo(s, h) ==
  /\ stage[s] = "listed" \/ s \in forfeited
  /\ Holds(s, h)
  /\ part' = [part EXCEPT ![s][h] = "left"]
  /\ UNCHANGED <<stage, forfeited>>

Forfeit(s) ==
  /\ stage[s] = "listed"
  /\ Holds(s, "channel")
  /\ forfeited' = forfeited \cup {s}
  /\ UNCHANGED <<stage, part>>

Free(s) ==
  /\ stage[s] = "listed"
  /\ IF s \in forfeited THEN \E h \in Parties : ~Holds(s, h)
     ELSE \A h \in Parties : ~Holds(s, h)
  /\ stage' = [stage EXCEPT ![s] = "freed"]
  /\ UNCHANGED <<part, forfeited>>

Next ==
  \E s \in Structures : \/ Free(s) \/ Forfeit(s)
                        \/ \E h \in Parties : Make(s, h) \/ Join(s, h) \/ LetGo(s, h)

Spec == Init /\ [][Next]_ownershipVars
=============================================================================
