------------------------- MODULE MCH245Negotiation -------------------------
(* H245Negotiation on small instances.                                        *)
EXTENDS H245Negotiation

Same == [e \in Ends |-> 50]

\* Ends of one type, and ends one of which is master by its type.
MCSame == {Same}
MCTypes == {Same, [Same EXCEPT !["caller"] = 60]}
=============================================================================
