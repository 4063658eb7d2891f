---------------------------- MODULE MediaSession ----------------------------
(* What a negotiation promises of the media of a call. Each end takes a role, *)
(* never that of the other, and keeps it. Until an end clears the call, the   *)
(* master opens all the media in one step, and the slave follows: it opens a  *)
(* medium of its own as it accepts the master's, and not otherwise. An end    *)
(* without a role opens and accepts nothing.                                  *)
CONSTANTS
  Parties,   \* the two ends
  Media      \* what they open

VARIABLES
  role,      \* of each end, "none" until it has one
  sends,     \* the media each end transmits
  gets,      \* the media each end receives
  over       \* an end has cleared the call

sessionVars == <<role, sends, gets, over>>

Roles == {"Master", "Slave"}

\* What another end transmits and e does not receive.
Offered(e) == (UNION {sends[f] : f \in Parties \ {e}}) \ gets[e]

Init ==
  /\ role = [e \in Parties |-> "none"]
  /\ sends = [e \in Parties |-> {}]
  /\ gets = [e \in Parties |-> {}]
  /\ over = FALSE

\* e has the role r from now on, if not before.
Takes(e, r) ==
  /\ role[e] \in {"none", r}
  /\ \A f \in Parties \ {e} : role[f] # r
  /\ role' = [role EXCEPT ![e] = r]

Decide(e) ==
  /\ \E r \in Roles : Takes(e, r)
  /\ UNCHANGED <<sends, gets, over>>

Open(e) ==
  /\ ~over
  /\ sends[e] = {}
  /\ sends' = [sends EXCEPT ![e] = Media]
  /\ Takes(e, "Master")
  /\ UNCHANGED <<gets, over>>

Accept(e) ==
  /\ ~over
  /\ role[e] = "Master"
  /\ \E medium \in Offered(e) : gets' = [gets EXCEPT ![e] = @ \cup {medium}]
  /\ UNCHANGED <<role, sends, over>>

Follow(e) ==
  /\ ~over
  /\ role[e] = "Slave"
  /\ \E medium \in Offered(e) \ sends[e] :
        /\ gets' = [gets EXCEPT ![e] = @ \cup {medium}]
        /\ sends' = [sends EXCEPT ![e] = @ \cup {medium}]
  /\ UNCHANGED <<role, over>>

\* An end clears the call, or goes on in a call that is cleared.
End ==
  /\ over' = TRUE
  /\ UNCHANGED role \/ \E e \in Parties, r \in Roles : Takes(e, r)
  /\ sends' \in [Parties -> SUBSET Media]
  /\ gets' \in [Parties -> SUBSET Media]

Next == End \/ \E e \in Parties : Decide(e) \/ Open(e) \/ Accept(e) \/ Follow(e)

Spec == Init /\ [][Next]_sessionVars
=============================================================================
