----------------------------- MODULE H245Proofs -----------------------------
(* The two ends of a negotiation never come to the same role, for every number *)
(* of retries, every modulus and every pair of terminal types.                  *)
(*                                                                            *)
(* Agree says where a determination can be: what each end is waiting for, and *)
(* which of its messages are between an end and the other. It is symmetric,   *)
(* so one lemma per kind of step of the left end is enough.                   *)
EXTENDS H245Negotiation, H245EndpointProofs

\* What e has said and the other end has not read, in order.
Queue(e) == wire[e] \o ends[e].out

Asked(c) == c.msd = "DetermineSent"

\* An end that will not act on an answer: it did not ask, or it is cleared.
Idles(c) == c.msd = "Idle" \/ (Asked(c) /\ c.cleared)

Acked(c) == c.msd = "AckSent"

\* The role c gives to the end d.
RoleOf(c, d) == PeerRole(c.termType, c.num, d.termType, d.num)

Roles == {"master", "slave"}

\* The phases. On the way from a to b is p, on the way from b to a is q.
Quiescent(a, p, q, b) == Idles(a) /\ None(p) /\ None(q) /\ Idles(b)

Asking(a, p, q, b) == Asked(a) /\ One(p, Request(a)) /\ None(q) /\ Idles(b)

Refused(a, p, q, b) == Asked(a) /\ None(p) /\ One(q, Reject) /\ Idles(b)

Crossing(a, p, q, b) ==
  Asked(a) /\ One(p, Request(a)) /\ One(q, Request(b)) /\ Asked(b)

RefusedCrossing(a, p, q, b) ==
  /\ Asked(a) /\ Two(p, Request(a), Reject) /\ None(q) /\ Asked(b)
  /\ RoleOf(a, b) = "tie"

BothRefused(a, p, q, b) == Asked(a) /\ One(p, Reject) /\ One(q, Reject) /\ Asked(b)

AskedAgain(a, p, q, b) ==
  Asked(a) /\ None(p) /\ Two(q, Reject, Request(b)) /\ Asked(b)

Granted(a, p, q, b, d) == Asked(a) /\ None(p) /\ One(q, Ack(d)) /\ Acked(b)

Taken(a, p, q, b, d) ==
  a.msd = RoleState(d) /\ One(p, Ack(Opposite(d))) /\ None(q) /\ Acked(b)

Determined(a, p, q, b, d) ==
  a.msd = RoleState(d) /\ None(p) /\ None(q) /\ b.msd = RoleState(Opposite(d))

GrantedCrossing(a, p, q, b, d) ==
  /\ Acked(a) /\ Two(p, Request(a), Ack(d)) /\ None(q) /\ Asked(b)
  /\ RoleOf(a, b) = d

BothGranted(a, p, q, b, d) ==
  Acked(a) /\ One(p, Ack(d)) /\ One(q, Ack(Opposite(d))) /\ Acked(b)

Phase(a, p, q, b) ==
  \/ Quiescent(a, p, q, b)
  \/ Asking(a, p, q, b)
  \/ Refused(a, p, q, b)
  \/ Crossing(a, p, q, b)
  \/ RefusedCrossing(a, p, q, b)
  \/ BothRefused(a, p, q, b)
  \/ AskedAgain(a, p, q, b)
  \/ \E d \in Roles :
       \/ Granted(a, p, q, b, d)
       \/ Taken(a, p, q, b, d)
       \/ Determined(a, p, q, b, d)
       \/ GrantedCrossing(a, p, q, b, d)
       \/ BothGranted(a, p, q, b, d)

Agree(a, p, q, b) == Phase(a, p, q, b) \/ Phase(b, q, p, a)

Typed ==
  /\ ends \in [Ends -> Endpoint]
  /\ \A e \in Ends : Numbering(ends[e])
  /\ wire \in [Ends -> Seq(Message)]
  /\ starts \in [Ends -> SUBSET {"connection", "answer"}]

Inv == Typed /\ \A e \in Ends : Agree(ends[e], Queue(e), Queue(Peer(e)), ends[Peer(e)])

-----------------------------------------------------------------------------
(* Queues that grow and queues that are read                                  *)

\* What the queue held of the determination it still holds.
Keeps(p, p2) ==
  /\ None(p) => None(p2)
  /\ \A m : m.type \in Determines /\ One(p, m) => One(p2, m)
  /\ \A m, n : m.type \in Determines /\ Two(p, m, n) => Two(p2, m, n)

\* The message m follows what was in the queue.
Adds(p, p2, m) ==
  /\ None(p) => One(p2, m)
  /\ \A n : One(p, n) => Two(p2, n, m)

\* Nothing happened.
LEMMA KeepsSelf == ASSUME NEW p PROVE Keeps(p, p)
BY DEF Keeps

\* What is queued last comes last.
LEMMA Regroup ==
  ASSUME NEW w \in Seq(Message), NEW o \in Seq(Message), NEW x \in Seq(Message)
  PROVE  (w \o o) \o x = w \o (o \o x)
BY ConcatAssociative

\* A silent end keeps what is on its way.
LEMMA SilentKeeps ==
  ASSUME NEW w \in Seq(Message), NEW c \in Endpoint, NEW d, Silent(c, d)
  PROVE  Keeps(w \o c.out, w \o d.out) /\ d.out \in Seq(Message)
<1>1. PICK x : Extends(c, d, x) /\ None(x) BY DEF Silent
<1>2. PICK o : o = c.out OBVIOUS
<1>3. PICK p : p = w \o o OBVIOUS
<1>4. /\ o \in Seq(Message) /\ x \in Seq(Message) /\ d.out = o \o x
  BY <1>1, <1>2 DEF Extends, Endpoint
<1>5. p \in Seq(Message) /\ o \o x \in Seq(Message) BY <1>3, <1>4, ConcatProperties
<1>6. w \o d.out = p \o x
  <2>1. (w \o o) \o x = w \o (o \o x) BY <1>4, Regroup, Zenon
  <2> QED BY <1>3, <1>4, <2>1, Zenon
<1>7. Keeps(p, p \o x) BY <1>1, <1>4, <1>5, NoneNone, OneNone, TwoNone DEF Keeps
<1> QED BY <1>2, <1>3, <1>4, <1>5, <1>6, <1>7

\* An end that speaks adds its message.
LEMMA SaysAdds ==
  ASSUME NEW w \in Seq(Message), NEW c \in Endpoint, NEW d, NEW m, Says(c, d, m)
  PROVE  Adds(w \o c.out, w \o d.out, m) /\ d.out \in Seq(Message)
<1>1. PICK x : Extends(c, d, x) /\ One(x, m) BY DEF Says
<1>2. PICK o : o = c.out OBVIOUS
<1>3. PICK p : p = w \o o OBVIOUS
<1>4. /\ o \in Seq(Message) /\ x \in Seq(Message) /\ d.out = o \o x
  BY <1>1, <1>2 DEF Extends, Endpoint
<1>5. p \in Seq(Message) /\ o \o x \in Seq(Message) BY <1>3, <1>4, ConcatProperties
<1>6. w \o d.out = p \o x
  <2>1. (w \o o) \o x = w \o (o \o x) BY <1>4, Regroup, Zenon
  <2> QED BY <1>3, <1>4, <2>1, Zenon
<1>7. Adds(p, p \o x, m) BY <1>1, <1>4, <1>5, NoneOne, OneOne DEF Adds
<1> QED BY <1>2, <1>3, <1>4, <1>5, <1>6, <1>7

\* What reading a queue tells of it.
LEMMA Reading ==
  ASSUME NEW q \in Seq(Message), q # <<>>
  PROVE  /\ Head(q) \in Message /\ Tail(q) \in Seq(Message)
         /\ None(q) => Head(q).type \notin Determines /\ None(Tail(q))
         /\ \A m : One(q, m) =>
              \/ Head(q) = m /\ None(Tail(q))
              \/ Head(q).type \notin Determines /\ One(Tail(q), m)
         /\ \A m, n : Two(q, m, n) =>
              \/ Head(q) = m /\ One(Tail(q), n)
              \/ Head(q).type \notin Determines /\ Two(Tail(q), m, n)
BY HeadTailProperties, NoneTail, OneTail, TwoTail

\* The three messages of a determination are told apart by their types.
LEMMA Kinds ==
  /\ Reject.type = "MSDReject"
  /\ \A c : Request(c).type = "MSD" /\ Request(c).term = c.termType
            /\ Request(c).num = c.num
  /\ \A d : Ack(d).type = "MSDAck" /\ Ack(d).decision = d
  /\ Determines = {"MSD", "MSDAck", "MSDReject"}
BY DEF Reject, Request, Ack, Determines

\* A message that is none of the determination's is read.
LEMMA OtherKeeps ==
  ASSUME NEW q \in Seq(Message), q # <<>>, Head(q).type \notin Determines
  PROVE  Keeps(q, Tail(q))
BY Reading DEF Keeps

-----------------------------------------------------------------------------
(* What one end does to the phase                                             *)

\* The two ends may change places.
LEMMA AgreeSymmetric ==
  ASSUME NEW a, NEW p, NEW q, NEW b, Agree(a, p, q, b) PROVE Agree(b, q, p, a)
BY DEF Agree

\* Of an end that kept its part in the determination.
Same(a, a2) ==
  /\ a2.termType = a.termType /\ a2.msd = a.msd /\ a2.num = a.num
  /\ a.cleared => a2.cleared

\* Ends that did leave the phase as it is.
LEMMA SamePhase ==
  ASSUME NEW a, NEW p, NEW q, NEW b, Phase(a, p, q, b),
         NEW a2, Same(a, a2), NEW p2, Keeps(p, p2),
         NEW b2, Same(b, b2), NEW q2, Keeps(q, q2)
  PROVE  Phase(a2, p2, q2, b2)
<1>1. /\ Idles(a) => Idles(a2)
      /\ Asked(a) => Asked(a2)
      /\ Acked(a) => Acked(a2)
      /\ Request(a2) = Request(a) /\ Request(b2) = Request(b)
      /\ Idles(b) => Idles(b2)
      /\ Asked(b) => Asked(b2)
      /\ Acked(b) => Acked(b2)
      /\ RoleOf(a2, b2) = RoleOf(a, b)
      /\ a2.msd = a.msd /\ b2.msd = b.msd
  BY DEF Same, Idles, Asked, Acked, Request, RoleOf
<1>2. /\ \A c : Request(c).type \in Determines
      /\ \A d : Ack(d).type \in Determines
      /\ Reject.type \in Determines
  BY Kinds
<1>3. Quiescent(a, p, q, b) => Quiescent(a2, p2, q2, b2)
  BY <1>1 DEF Quiescent, Keeps
<1>4. Asking(a, p, q, b) => Asking(a2, p2, q2, b2) BY <1>1, <1>2 DEF Asking, Keeps
<1>5. Refused(a, p, q, b) => Refused(a2, p2, q2, b2) BY <1>1, <1>2 DEF Refused, Keeps
<1>6. Crossing(a, p, q, b) => Crossing(a2, p2, q2, b2)
  BY <1>1, <1>2 DEF Crossing, Keeps
<1>7. RefusedCrossing(a, p, q, b) => RefusedCrossing(a2, p2, q2, b2)
  BY <1>1, <1>2 DEF RefusedCrossing, Keeps
<1>8. BothRefused(a, p, q, b) => BothRefused(a2, p2, q2, b2)
  BY <1>1, <1>2 DEF BothRefused, Keeps
<1>9. AskedAgain(a, p, q, b) => AskedAgain(a2, p2, q2, b2)
  BY <1>1, <1>2 DEF AskedAgain, Keeps
<1>10. \A d : Granted(a, p, q, b, d) => Granted(a2, p2, q2, b2, d)
  BY <1>1, <1>2 DEF Granted, Keeps
<1>11. \A d : Taken(a, p, q, b, d) => Taken(a2, p2, q2, b2, d)
  BY <1>1, <1>2 DEF Taken, Keeps
<1>12. \A d : Determined(a, p, q, b, d) => Determined(a2, p2, q2, b2, d)
  BY <1>1, <1>2 DEF Determined, Keeps
<1>13. \A d : GrantedCrossing(a, p, q, b, d) => GrantedCrossing(a2, p2, q2, b2, d)
  BY <1>1, <1>2 DEF GrantedCrossing, Keeps
<1>14. \A d : BothGranted(a, p, q, b, d) => BothGranted(a2, p2, q2, b2, d)
  BY <1>1, <1>2 DEF BothGranted, Keeps
<1> QED
  BY <1>3, <1>4, <1>5, <1>6, <1>7, <1>8, <1>9, <1>10, <1>11, <1>12, <1>13, <1>14, Zenon
  DEF Phase

\* So do an end that did and the other, that did nothing.
LEMMA SameMove ==
  ASSUME NEW a, NEW p, NEW q, NEW b, Agree(a, p, q, b),
         NEW a2, Same(a, a2), NEW p2, Keeps(p, p2), NEW q2, Keeps(q, q2)
  PROVE  Agree(a2, p2, q2, b)
<1>1. Same(b, b) BY DEF Same
<1> QED BY <1>1, SamePhase DEF Agree

\* Only three phases leave an end idle.
LEMMA IdlePhases ==
  ASSUME NEW a, NEW p, NEW q, NEW b, Agree(a, p, q, b), a.msd = "Idle"
  PROVE  \/ Quiescent(a, p, q, b)
         \/ Asking(b, q, p, a)
         \/ Refused(b, q, p, a)
<1>1. ~ Asked(a) /\ ~ Acked(a) /\ \A d : a.msd # RoleState(d)
  BY DEF Asked, Acked, RoleState
<1>2. /\ ~ Asking(a, p, q, b) /\ ~ Refused(a, p, q, b)
      /\ ~ Crossing(a, p, q, b) /\ ~ Crossing(b, q, p, a)
      /\ ~ RefusedCrossing(a, p, q, b) /\ ~ RefusedCrossing(b, q, p, a)
      /\ ~ BothRefused(a, p, q, b) /\ ~ BothRefused(b, q, p, a)
      /\ ~ AskedAgain(a, p, q, b) /\ ~ AskedAgain(b, q, p, a)
  BY <1>1 DEF Asking, Refused, Crossing, RefusedCrossing, BothRefused, AskedAgain
<1>3. \A d : /\ ~ Granted(a, p, q, b, d) /\ ~ Granted(b, q, p, a, d)
             /\ ~ Taken(a, p, q, b, d) /\ ~ Taken(b, q, p, a, d)
             /\ ~ Determined(a, p, q, b, d) /\ ~ Determined(b, q, p, a, d)
             /\ ~ GrantedCrossing(a, p, q, b, d) /\ ~ GrantedCrossing(b, q, p, a, d)
             /\ ~ BothGranted(a, p, q, b, d) /\ ~ BothGranted(b, q, p, a, d)
  BY <1>1 DEF Granted, Taken, Determined, GrantedCrossing, BothGranted
<1>4. Quiescent(b, q, p, a) => Quiescent(a, p, q, b) BY DEF Quiescent
<1> QED BY <1>2, <1>3, <1>4, Zenon DEF Agree, Phase

\* An idle end asks.
LEMMA AskMove ==
  ASSUME NEW a, NEW p, NEW q, NEW b, Agree(a, p, q, b), a.msd = "Idle",
         NEW a2, a2.msd = "DetermineSent", NEW p2, Adds(p, p2, Request(a2))
  PROVE  Agree(a2, p2, q, b)
<1>1. Asked(a2) BY DEF Asked
<1>2. CASE Quiescent(a, p, q, b)
  <2>1. Asking(a2, p2, q, b) BY <1>1, <1>2 DEF Quiescent, Asking, Adds
  <2> QED BY <2>1 DEF Agree, Phase
<1>3. CASE Asking(b, q, p, a)
  <2>1. Crossing(a2, p2, q, b) BY <1>1, <1>3 DEF Asking, Crossing, Adds
  <2> QED BY <2>1 DEF Agree, Phase
<1>4. CASE Refused(b, q, p, a)
  <2>1. AskedAgain(b, q, p2, a2) BY <1>1, <1>4 DEF Refused, AskedAgain, Adds
  <2> QED BY <2>1 DEF Agree, Phase
<1> QED BY <1>2, <1>3, <1>4, IdlePhases

\* What a request read tells of the phase: it is the peer's, and what is left of
\* the phase is one of four.
LEMMA RequestPhases ==
  ASSUME NEW a, NEW p, NEW q \in Seq(Message), NEW b, Agree(a, p, q, b),
         q # <<>>, Head(q).type = "MSD"
  PROVE  /\ Head(q) = Request(b)
         /\ \/ Idles(a) /\ None(p) /\ None(Tail(q)) /\ Asked(b)
            \/ Asked(a) /\ One(p, Request(a)) /\ None(Tail(q)) /\ Asked(b)
            \/ /\ Asked(a) /\ None(p) /\ One(Tail(q), Reject) /\ Asked(b)
               /\ RoleOf(b, a) = "tie"
            \/ \E d \in Roles :
                 /\ Asked(a) /\ None(p) /\ One(Tail(q), Ack(d)) /\ Acked(b)
                 /\ RoleOf(b, a) = d
<1>1. Head(q).type \in Determines BY DEF Determines
<1>2. Head(q) # Reject /\ \A d : Head(q) # Ack(d) BY Kinds
<1>3. /\ ~ None(q) /\ ~ One(q, Reject) /\ \A d : ~ One(q, Ack(d))
      /\ \A n : ~ Two(q, Reject, n)
  BY <1>1, <1>2, Reading
<1>4. /\ One(q, Request(b)) => Head(q) = Request(b) /\ None(Tail(q))
      /\ \A n : Two(q, Request(b), n) => Head(q) = Request(b) /\ One(Tail(q), n)
  BY <1>1, Reading
<1>5. CASE Asking(b, q, p, a) BY <1>4, <1>5 DEF Asking
<1>6. CASE Crossing(a, p, q, b) \/ Crossing(b, q, p, a) BY <1>4, <1>6 DEF Crossing
<1>7. CASE RefusedCrossing(b, q, p, a) BY <1>4, <1>7 DEF RefusedCrossing
<1>8. CASE \E d \in Roles : GrantedCrossing(b, q, p, a, d)
  BY <1>4, <1>8 DEF GrantedCrossing
<1>9. /\ ~ Quiescent(a, p, q, b) /\ ~ Quiescent(b, q, p, a)
      /\ ~ Asking(a, p, q, b)
      /\ ~ Refused(a, p, q, b) /\ ~ Refused(b, q, p, a)
      /\ ~ RefusedCrossing(a, p, q, b)
      /\ ~ BothRefused(a, p, q, b) /\ ~ BothRefused(b, q, p, a)
      /\ ~ AskedAgain(a, p, q, b) /\ ~ AskedAgain(b, q, p, a)
  BY <1>3 DEF Quiescent, Asking, Refused, RefusedCrossing, BothRefused, AskedAgain
<1>10. \A d : /\ ~ Granted(a, p, q, b, d) /\ ~ Granted(b, q, p, a, d)
              /\ ~ Taken(a, p, q, b, d) /\ ~ Taken(b, q, p, a, d)
              /\ ~ Determined(a, p, q, b, d) /\ ~ Determined(b, q, p, a, d)
              /\ ~ GrantedCrossing(a, p, q, b, d)
              /\ ~ BothGranted(a, p, q, b, d) /\ ~ BothGranted(b, q, p, a, d)
  BY <1>3 DEF Granted, Taken, Determined, GrantedCrossing, BothGranted
<1> QED BY <1>5, <1>6, <1>7, <1>8, <1>9, <1>10, Zenon DEF Agree, Phase

\* An end answers a request.
LEMMA RequestMove ==
  ASSUME NEW a \in Endpoint, ~ a.cleared, NEW b \in Endpoint,
         NEW p, NEW q \in Seq(Message), Agree(a, p, q, b),
         q # <<>>, Head(q).type = "MSD",
         NEW num \in Numbers, NEW a2, NEW p2,
         a2.termType = a.termType,
         a2.num = OwnNumber(a, Head(q).term, num), a2.num \in Numbers,
         LET role == PeerRole(a.termType, a2.num, Head(q).term, Head(q).num)
         IN \/ role = "tie" /\ a2.msd = a.msd /\ Adds(p, p2, Reject)
            \/ role \in Roles /\ a2.msd = "AckSent" /\ Adds(p, p2, Ack(role))
  PROVE  Agree(a2, p2, Tail(q), b)
<1> DEFINE role == RoleOf(a2, b)
           t == Tail(q)
<1>1. Head(q) = Request(b) BY RequestPhases
<1>2. /\ Head(q).term = b.termType /\ Head(q).num = b.num
      /\ \/ role = "tie" /\ a2.msd = a.msd /\ Adds(p, p2, Reject)
         \/ role \in Roles /\ a2.msd = "AckSent" /\ Adds(p, p2, Ack(role))
  <2>1. Head(q).term = b.termType /\ Head(q).num = b.num BY <1>1, Kinds
  <2> QED BY <2>1 DEF RoleOf
<1>3. /\ Asked(a) => a2.num = a.num /\ Request(a2) = Request(a)
                     /\ RoleOf(a2, b) = RoleOf(a, b)
      /\ a2.msd = "AckSent" => Acked(a2)
      /\ a2.msd = a.msd /\ Asked(a) => Asked(a2)
      /\ a2.msd = a.msd /\ a.msd = "Idle" => Idles(a2)
      /\ Idles(a) => a.msd = "Idle"
  BY DEF OwnNumber, Asked, Request, RoleOf, Acked, Idles
<1>4. Asked(a) => RoleOf(b, a) = Opposite(role)
  <2>1. a.num \in Numbers /\ b.num \in Numbers /\ a.termType \in Nat /\ b.termType \in Nat
    BY DEF Endpoint
  <2> QED BY <1>3, <2>1, RolesAgree DEF RoleOf
<1> HIDE DEF role, t
<1>5. CASE Idles(a) /\ None(p) /\ None(t) /\ Asked(b)
  <2>1. CASE role = "tie" /\ a2.msd = a.msd /\ Adds(p, p2, Reject)
    <3>1. Refused(b, t, p2, a2) BY <1>3, <1>5, <2>1 DEF Refused, Adds
    <3> QED BY <3>1 DEF Agree, Phase, t
  <2>2. CASE role \in Roles /\ a2.msd = "AckSent" /\ Adds(p, p2, Ack(role))
    <3>1. Granted(b, t, p2, a2, role) BY <1>3, <1>5, <2>2 DEF Granted, Adds
    <3> QED BY <2>2, <3>1 DEF Agree, Phase, t
  <2> QED BY <1>2, <2>1, <2>2
<1>6. CASE Asked(a) /\ One(p, Request(a)) /\ None(t) /\ Asked(b)
  <2>1. CASE role = "tie" /\ a2.msd = a.msd /\ Adds(p, p2, Reject)
    <3>1. RefusedCrossing(a2, p2, t, b)
      BY <1>3, <1>6, <2>1 DEF RefusedCrossing, Adds, role
    <3> QED BY <3>1 DEF Agree, Phase, t
  <2>2. CASE role \in Roles /\ a2.msd = "AckSent" /\ Adds(p, p2, Ack(role))
    <3>1. GrantedCrossing(a2, p2, t, b, role)
      BY <1>3, <1>6, <2>2 DEF GrantedCrossing, Adds, role
    <3> QED BY <2>2, <3>1 DEF Agree, Phase, t
  <2> QED BY <1>2, <2>1, <2>2
<1>7. CASE /\ Asked(a) /\ None(p) /\ One(t, Reject) /\ Asked(b)
           /\ RoleOf(b, a) = "tie"
  <2>1. role \notin Roles BY <1>4, <1>7 DEF Opposite, Roles
  <2>2. a2.msd = a.msd /\ Adds(p, p2, Reject) BY <1>2, <2>1
  <2>3. BothRefused(a2, p2, t, b) BY <1>3, <1>7, <2>2 DEF BothRefused, Adds
  <2> QED BY <2>3 DEF Agree, Phase, t
<1>8. CASE \E d \in Roles :
             /\ Asked(a) /\ None(p) /\ One(t, Ack(d)) /\ Acked(b)
             /\ RoleOf(b, a) = d
  <2>1. PICK d \in Roles :
          /\ Asked(a) /\ None(p) /\ One(t, Ack(d)) /\ Acked(b)
          /\ RoleOf(b, a) = d
    BY <1>8
  <2>2. role # "tie" BY <1>4, <2>1 DEF Opposite, Roles
  <2>3. role \in Roles /\ a2.msd = "AckSent" /\ Adds(p, p2, Ack(role)) BY <1>2, <2>2
  <2>4. role = Opposite(d) BY <1>4, <2>1, <2>3, OppositeRoles DEF Roles
  <2>5. BothGranted(b, t, p2, a2, d) BY <1>3, <2>1, <2>3, <2>4 DEF BothGranted, Adds
  <2> QED BY <2>5 DEF Agree, Phase, t
<1> QED BY <1>5, <1>6, <1>7, <1>8, RequestPhases DEF t

\* What an answer read tells of the phase.
LEMMA AckPhases ==
  ASSUME NEW a, NEW p, NEW q \in Seq(Message), NEW b, Agree(a, p, q, b),
         q # <<>>, NEW d \in Roles, Head(q) = Ack(d)
  PROVE  /\ None(Tail(q))
         /\ \/ Asked(a) /\ None(p) /\ Acked(b)
            \/ Acked(a) /\ None(p) /\ b.msd = RoleState(Opposite(d))
            \/ Acked(a) /\ One(p, Ack(Opposite(d))) /\ Acked(b)
<1>1. Head(q).type \in Determines BY Kinds
<1>2. Head(q) # Reject /\ \A c : Head(q) # Request(c) BY Kinds
<1>3. /\ ~ None(q) /\ ~ One(q, Reject) /\ \A c : ~ One(q, Request(c))
      /\ \A n : ~ Two(q, Reject, n) /\ \A c : ~ Two(q, Request(c), n)
  BY <1>1, <1>2, Reading
<1>4. \A x : One(q, Ack(x)) => x = d /\ None(Tail(q))
  <2>1. \A x : Ack(x) = Ack(d) => x = d BY Kinds
  <2> QED BY <1>1, <2>1, Reading
<1>5. \A x \in Roles : Opposite(x) \in Roles /\ Opposite(Opposite(x)) = x
  BY OppositeRoles DEF Roles
<1>6. CASE \E x \in Roles : Granted(a, p, q, b, x) BY <1>4, <1>6 DEF Granted
<1>7. CASE \E x \in Roles : Taken(b, q, p, a, x) BY <1>4, <1>5, <1>7 DEF Taken
<1>8. CASE \E x \in Roles : BothGranted(a, p, q, b, x)
  BY <1>4, <1>5, <1>8 DEF BothGranted
<1>9. CASE \E x \in Roles : BothGranted(b, q, p, a, x)
  BY <1>4, <1>5, <1>9 DEF BothGranted
<1>10. /\ ~ Quiescent(a, p, q, b) /\ ~ Quiescent(b, q, p, a)
       /\ ~ Asking(a, p, q, b) /\ ~ Asking(b, q, p, a)
       /\ ~ Refused(a, p, q, b) /\ ~ Refused(b, q, p, a)
       /\ ~ Crossing(a, p, q, b) /\ ~ Crossing(b, q, p, a)
       /\ ~ RefusedCrossing(a, p, q, b) /\ ~ RefusedCrossing(b, q, p, a)
       /\ ~ BothRefused(a, p, q, b) /\ ~ BothRefused(b, q, p, a)
       /\ ~ AskedAgain(a, p, q, b) /\ ~ AskedAgain(b, q, p, a)
  BY <1>3
  DEF Quiescent, Asking, Refused, Crossing, RefusedCrossing, BothRefused, AskedAgain
<1>11. \A x : /\ ~ Granted(b, q, p, a, x) /\ ~ Taken(a, p, q, b, x)
              /\ ~ Determined(a, p, q, b, x) /\ ~ Determined(b, q, p, a, x)
              /\ ~ GrantedCrossing(a, p, q, b, x) /\ ~ GrantedCrossing(b, q, p, a, x)
  BY <1>3 DEF Granted, Taken, Determined, GrantedCrossing
<1> QED BY <1>6, <1>7, <1>8, <1>9, <1>10, <1>11, Zenon DEF Agree, Phase

\* An end reads an answer.
LEMMA AckMove ==
  ASSUME NEW a, NEW b, NEW p, NEW q \in Seq(Message), Agree(a, p, q, b),
         q # <<>>, NEW d \in Roles, Head(q) = Ack(d), NEW a2, NEW p2,
         a2.msd = RoleState(d),
         a.msd = "AckSent" => Keeps(p, p2),
         a.msd = "DetermineSent" => Adds(p, p2, Ack(Opposite(d)))
  PROVE  Agree(a2, p2, Tail(q), b)
<1>1. Opposite(d) \in Roles /\ Opposite(Opposite(d)) = d BY OppositeRoles DEF Roles
<1>2. Ack(Opposite(d)).type \in Determines BY Kinds
<1>3. None(Tail(q)) BY AckPhases
<1>4. CASE Asked(a) /\ None(p) /\ Acked(b)
  <2>1. Taken(a2, p2, Tail(q), b, d) BY <1>3, <1>4 DEF Asked, Adds, Taken
  <2> QED BY <2>1 DEF Agree, Phase
<1>5. CASE Acked(a) /\ None(p) /\ b.msd = RoleState(Opposite(d))
  <2>1. Determined(a2, p2, Tail(q), b, d) BY <1>3, <1>5 DEF Acked, Keeps, Determined
  <2> QED BY <2>1 DEF Agree, Phase
<1>6. CASE Acked(a) /\ One(p, Ack(Opposite(d))) /\ Acked(b)
  <2>1. One(p2, Ack(Opposite(d))) BY <1>2, <1>6 DEF Acked, Keeps
  <2>2. Taken(a2, p2, Tail(q), b, d) BY <1>3, <1>6, <2>1 DEF Taken
  <2> QED BY <2>2 DEF Agree, Phase
<1> QED BY <1>4, <1>5, <1>6, AckPhases

\* What a rejection read tells of the phase.
LEMMA RejectPhases ==
  ASSUME NEW a, NEW p, NEW q \in Seq(Message), NEW b, Agree(a, p, q, b),
         q # <<>>, Head(q) = Reject
  PROVE  /\ Asked(a)
         /\ \/ None(p) /\ None(Tail(q)) /\ Idles(b)
            \/ One(p, Reject) /\ None(Tail(q)) /\ Asked(b)
            \/ None(p) /\ One(Tail(q), Request(b)) /\ Asked(b)
<1>1. Head(q).type \in Determines BY Kinds
<1>2. (\A c : Head(q) # Request(c)) /\ (\A d : Head(q) # Ack(d)) BY Kinds
<1>3. /\ ~ None(q) /\ \A d : ~ One(q, Ack(d)) /\ \A c : ~ One(q, Request(c))
      /\ \A n : \A c : ~ Two(q, Request(c), n)
  BY <1>1, <1>2, Reading
<1>4. /\ One(q, Reject) => None(Tail(q))
      /\ \A n : Two(q, Reject, n) => One(Tail(q), n)
  BY <1>1, Reading
<1>5. CASE Refused(a, p, q, b) BY <1>4, <1>5 DEF Refused
<1>6. CASE BothRefused(a, p, q, b) \/ BothRefused(b, q, p, a)
  BY <1>4, <1>6 DEF BothRefused
<1>7. CASE AskedAgain(a, p, q, b) BY <1>4, <1>7 DEF AskedAgain
<1>8. /\ ~ Quiescent(a, p, q, b) /\ ~ Quiescent(b, q, p, a)
      /\ ~ Asking(a, p, q, b) /\ ~ Asking(b, q, p, a)
      /\ ~ Refused(b, q, p, a)
      /\ ~ Crossing(a, p, q, b) /\ ~ Crossing(b, q, p, a)
      /\ ~ RefusedCrossing(a, p, q, b) /\ ~ RefusedCrossing(b, q, p, a)
      /\ ~ AskedAgain(b, q, p, a)
  BY <1>3 DEF Quiescent, Asking, Refused, Crossing, RefusedCrossing, AskedAgain
<1>9. \A x : /\ ~ Granted(a, p, q, b, x) /\ ~ Granted(b, q, p, a, x)
             /\ ~ Taken(a, p, q, b, x) /\ ~ Taken(b, q, p, a, x)
             /\ ~ Determined(a, p, q, b, x) /\ ~ Determined(b, q, p, a, x)
             /\ ~ GrantedCrossing(a, p, q, b, x) /\ ~ GrantedCrossing(b, q, p, a, x)
             /\ ~ BothGranted(a, p, q, b, x) /\ ~ BothGranted(b, q, p, a, x)
  BY <1>3 DEF Granted, Taken, Determined, GrantedCrossing, BothGranted
<1> QED BY <1>5, <1>6, <1>7, <1>8, <1>9, Zenon DEF Agree, Phase

\* An end reads a rejection: it asks again, or is cleared.
LEMMA RejectMove ==
  ASSUME NEW a, NEW b, NEW p, NEW q \in Seq(Message), Agree(a, p, q, b),
         q # <<>>, Head(q) = Reject, NEW a2, NEW p2,
         \/ a2.msd = "DetermineSent" /\ Adds(p, p2, Request(a2))
         \/ a2.msd = a.msd /\ a2.cleared /\ Keeps(p, p2)
  PROVE  Agree(a2, p2, Tail(q), b)
<1> DEFINE t == Tail(q)
<1>1. Asked(a) BY RejectPhases
<1>2. Reject.type \in Determines /\ Asked(a2) BY <1>1, Kinds DEF Asked
<1>3. a2.cleared => Idles(a2) BY <1>2 DEF Idles
<1> HIDE DEF t
<1>4. CASE Adds(p, p2, Request(a2))
  <2>1. CASE None(p) /\ None(t) /\ Idles(b)
    <3>1. Asking(a2, p2, t, b) BY <1>2, <1>4, <2>1 DEF Adds, Asking
    <3> QED BY <3>1 DEF Agree, Phase, t
  <2>2. CASE One(p, Reject) /\ None(t) /\ Asked(b)
    <3>1. AskedAgain(b, t, p2, a2) BY <1>2, <1>4, <2>2 DEF Adds, AskedAgain
    <3> QED BY <3>1 DEF Agree, Phase, t
  <2>3. CASE None(p) /\ One(t, Request(b)) /\ Asked(b)
    <3>1. Crossing(a2, p2, t, b) BY <1>2, <1>4, <2>3 DEF Adds, Crossing
    <3> QED BY <3>1 DEF Agree, Phase, t
  <2> QED BY <2>1, <2>2, <2>3, RejectPhases DEF t
<1>5. CASE a2.cleared /\ Keeps(p, p2)
  <2>1. CASE None(p) /\ None(t) /\ Idles(b)
    <3>1. Quiescent(a2, p2, t, b) BY <1>3, <1>5, <2>1 DEF Keeps, Quiescent
    <3> QED BY <3>1 DEF Agree, Phase, t
  <2>2. CASE One(p, Reject) /\ None(t) /\ Asked(b)
    <3>1. Refused(b, t, p2, a2) BY <1>2, <1>3, <1>5, <2>2 DEF Keeps, Refused
    <3> QED BY <3>1 DEF Agree, Phase, t
  <2>3. CASE None(p) /\ One(t, Request(b)) /\ Asked(b)
    <3>1. Asking(b, t, p2, a2) BY <1>3, <1>5, <2>3 DEF Keeps, Asking
    <3> QED BY <3>1 DEF Agree, Phase, t
  <2> QED BY <2>1, <2>2, <2>3, RejectPhases DEF t
<1> QED BY <1>4, <1>5
-----------------------------------------------------------------------------
(* The two ends                                                               *)

\* Every end has one peer.
LEMMA Peers ==
  ASSUME NEW e \in Ends
  PROVE  /\ Peer(e) \in Ends /\ Peer(e) # e /\ Peer(Peer(e)) = e
         /\ \A f \in Ends : f = e \/ f = Peer(e)
BY DEF Ends, Peer

\* A queue is a sequence of messages.
LEMMA QueueType ==
  ASSUME Typed, NEW e \in Ends
  PROVE  /\ Queue(e) \in Seq(Message) /\ wire[e] \in Seq(Message)
         /\ ends[e] \in Endpoint /\ ends[e].out \in Seq(Message) /\ Good(ends[e])
<1>1. /\ wire[e] \in Seq(Message) /\ ends[e] \in Endpoint /\ Numbering(ends[e])
  BY DEF Typed
<1>2. ends[e].out \in Seq(Message) BY <1>1 DEF Endpoint
<1> QED BY <1>1, <1>2, ConcatProperties DEF Queue, Good

\* A step of one end that keeps it good and leaves the two in a phase.
LEMMA OneEnd ==
  ASSUME Inv, NEW e \in Ends, NEW a2, Good(a2), ends' = [ends EXCEPT ![e] = a2],
         wire' \in [Ends -> Seq(Message)],
         starts' \in [Ends -> SUBSET {"connection", "answer"}],
         Agree(a2, wire'[e] \o a2.out, wire'[Peer(e)] \o ends[Peer(e)].out, ends[Peer(e)])
  PROVE  Inv'
<1>1. ends \in [Ends -> Endpoint] /\ a2 \in Endpoint BY DEF Inv, Typed, Good
<1>2. ends'[e] = a2 /\ ends'[Peer(e)] = ends[Peer(e)] BY <1>1, Peers
<1>3. ends' \in [Ends -> Endpoint] BY <1>1
<1>4. \A f \in Ends : Numbering(ends'[f])
  <2> TAKE f \in Ends
  <2>1. CASE f = e BY <1>2, <2>1 DEF Good
  <2>2. CASE f = Peer(e) BY <1>2, <2>2 DEF Inv, Typed
  <2> QED BY <2>1, <2>2, Peers
<1>5. Typed' BY <1>3, <1>4 DEF Typed, Numbering
<1>6. \A f \in Ends :
        Agree(ends'[f], wire'[f] \o ends'[f].out,
              wire'[Peer(f)] \o ends'[Peer(f)].out, ends'[Peer(f)])
  <2> TAKE f \in Ends
  <2>1. CASE f = e BY <1>2, <2>1
  <2>2. CASE f = Peer(e) BY <1>2, <2>2, Peers, AgreeSymmetric
  <2> QED BY <2>1, <2>2, Peers
<1>7. (\A f \in Ends : Agree(ends[f], Queue(f), Queue(Peer(f)), ends[Peer(f)]))'
  BY <1>6 DEF Queue
<1> QED BY <1>5, <1>7 DEF Inv

\* A step of one end that reads nothing and does at most ask.
LEMMA OwnStep ==
  ASSUME Inv, NEW e \in Ends, NEW a2, Good(a2), ends' = [ends EXCEPT ![e] = a2],
         Plain(ends[e], a2) \/ Asks(ends[e], a2), UNCHANGED wire,
         starts' \in [Ends -> SUBSET {"connection", "answer"}]
  PROVE  Inv'
<1> DEFINE a == ends[e]
           b == ends[Peer(e)]
           p2 == wire[e] \o a2.out
<1>1. a \in Endpoint /\ wire[e] \in Seq(Message) BY QueueType DEF Inv
<1>2. Agree(a, Queue(e), Queue(Peer(e)), b) BY DEF Inv
<1>3. Agree(a2, p2, Queue(Peer(e)), b)
  <2>1. CASE Plain(a, a2)
    <3>1. Keeps(Queue(e), p2) BY <1>1, <2>1, SilentKeeps DEF Plain, Queue
    <3>2. Same(a, a2) BY <2>1 DEF Plain, Silent, Extends, Same
    <3> QED BY <1>2, <3>1, <3>2, KeepsSelf, SameMove
  <2>2. CASE Asks(a, a2)
    <3>1. Adds(Queue(e), p2, Request(a2)) BY <1>1, <2>2, SaysAdds DEF Asks, Queue
    <3> QED BY <1>2, <2>2, <3>1, AskMove DEF Asks
  <2> QED BY <2>1, <2>2
<1>4. wire \in [Ends -> Seq(Message)] BY DEF Inv, Typed
<1> QED BY <1>3, <1>4, OneEnd DEF Queue

\* A start sends a capability set and asks.
LEMMA StartKeeps ==
  ASSUME Inv, NEW e \in Ends, NEW kind \in {"connection", "answer"}, Start(e, kind)
  PROVE  Inv'
<1>1. PICK num \in Numbers :
        ends' = [ends EXCEPT ![e] =
          SendMasterSlaveDetermination(SendTermCapMsg(@), num,
                                       e = "callee" /\ kind = "answer")]
  BY DEF Start
<1> DEFINE a == ends[e]
           c == SendTermCapMsg(a)
           a2 == SendMasterSlaveDetermination(c, num, e = "callee" /\ kind = "answer")
<1>2. Good(a) /\ a \in Endpoint BY QueueType DEF Inv
<1>3. ends' = [ends EXCEPT ![e] = a2] BY <1>1
<1>4. Good(c) /\ Plain(a, c) BY <1>2, SendTermCapMsgPlain
<1> HIDE DEF c
<1>5. Good(a2) /\ (Plain(c, a2) \/ Asks(c, a2))
  BY <1>4, SendMasterSlaveDeterminationAsks
<1> HIDE DEF a2
<1>6. Plain(a, a2) \/ Asks(a, a2) BY <1>2, <1>4, <1>5, PlainTwice, PlainAsks
<1>7. wire' = wire /\ starts' \in [Ends -> SUBSET {"connection", "answer"}]
  <2>1. starts' = [starts EXCEPT ![e] = @ \ {kind}] /\ wire' = wire BY DEF Start
  <2>2. starts \in [Ends -> SUBSET {"connection", "answer"}] BY DEF Inv, Typed
  <2>3. starts[e] \ {kind} \in SUBSET {"connection", "answer"} BY <2>2
  <2> QED BY <2>1, <2>2, <2>3
<1> QED BY <1>3, <1>5, <1>6, <1>7, OwnStep

\* A sent message is still on its way.
LEMMA SendKeeps ==
  ASSUME Inv, NEW e \in Ends, Send(e)
  PROVE  Inv'
<1> DEFINE a == ends[e]
           m == Head(a.out)
           t == Tail(a.out)
           g == [a EXCEPT !.out = t]
           a2 == OnSent(g, m)
<1>1. /\ a \in Endpoint /\ Good(a) /\ a.out \in Seq(Message) /\ wire[e] \in Seq(Message)
  BY QueueType DEF Inv
<1>2. /\ a.out # <<>>
      /\ wire' = [wire EXCEPT ![e] = Append(@, m)]
      /\ ends' = [ends EXCEPT ![e] = a2]
      /\ starts' = starts
  <2>1. a.out # <<>> /\ starts' = starts BY DEF Send
  <2>2. wire' = [wire EXCEPT ![e] = Append(@, m)] BY Zenon DEF Send
  <2>3. ends' = [ends EXCEPT ![e] = a2] BY Zenon DEF Send
  <2> QED BY <2>1, <2>2, <2>3
<1>3. m \in Message /\ t \in Seq(Message) /\ a.out = <<m>> \o t
  BY <1>1, <1>2, HeadTailProperties
<1> HIDE DEF m, t
<1>4. g \in Endpoint BY <1>1, <1>3, ZenonT(30) DEF Endpoint
<1>5. /\ g.termType = a.termType /\ g.msd = a.msd /\ g.num = a.num
      /\ g.cleared = a.cleared /\ g.out = t
      /\ g.chans = a.chans /\ g.nextNo = a.nextNo
  BY <1>1 DEF Endpoint
<1> HIDE DEF g
<1>6. Good(g) BY <1>1, <1>4, <1>5, SameNumbering DEF Good
<1>7. Good(a2) /\ Quiet(g, a2) BY <1>3, <1>6, OnSentQuiet
<1> HIDE DEF a2
<1>8. Same(a, a2) /\ a2.out = t BY <1>5, <1>7 DEF Quiet, Same
<1>9. Append(wire[e], m) \o t = Queue(e)
  <2>1. PICK w : w = wire[e] OBVIOUS
  <2>2. PICK o : o = a.out OBVIOUS
  <2>3. w \in Seq(Message) /\ <<m>> \in Seq(Message) BY <1>1, <1>3, <2>1
  <2>4. Append(w, m) = w \o <<m>> BY <1>3, <2>3, AppendIsConcat
  <2>5. (w \o <<m>>) \o t = w \o (<<m>> \o t) BY <1>3, <2>3, Regroup
  <2> QED BY <1>3, <2>1, <2>2, <2>4, <2>5 DEF Queue
<1>10. wire \in [Ends -> Seq(Message)] /\ Append(wire[e], m) \in Seq(Message)
  <2>1. wire \in [Ends -> Seq(Message)] BY DEF Inv, Typed
  <2> QED BY <1>1, <1>3, <2>1, AppendProperties
<1>11. /\ wire' \in [Ends -> Seq(Message)]
       /\ wire'[e] = Append(wire[e], m) /\ wire'[Peer(e)] = wire[Peer(e)]
  BY <1>2, <1>10, Peers
<1>12. starts' \in [Ends -> SUBSET {"connection", "answer"}] BY <1>2 DEF Inv, Typed
<1>13. Agree(a, Queue(e), Queue(Peer(e)), ends[Peer(e)]) BY DEF Inv
<1>14. Agree(a2, Queue(e), Queue(Peer(e)), ends[Peer(e)])
  BY <1>8, <1>13, KeepsSelf, SameMove
<1>15. Agree(a2, wire'[e] \o a2.out, wire'[Peer(e)] \o ends[Peer(e)].out,
             ends[Peer(e)])
  BY <1>8, <1>9, <1>11, <1>14 DEF Queue
<1> QED BY <1>2, <1>7, <1>11, <1>12, <1>15, OneEnd

\* A message of the other end is read and handled.
LEMMA ReceiveKeeps ==
  ASSUME Inv, NEW e \in Ends, Receive(e)
  PROVE  Inv'
<1> DEFINE a == ends[e]
           b == ends[Peer(e)]
           p == Queue(e)
           q == Queue(Peer(e))
           m == Head(wire[Peer(e)])
<1>1. PICK num \in Numbers, able \in SUBSET ({"transmit", "receive"} \X MediaKinds) :
        ends' = [ends EXCEPT ![e] = HandleH245Message(@, m, num, able)]
  BY DrawnMatched DEF Receive
<1> DEFINE a2 == HandleH245Message(a, m, num, able)
           p2 == wire[e] \o a2.out
<1>2. /\ wire[Peer(e)] # <<>> /\ ~ a.cleared
      /\ wire' = [wire EXCEPT ![Peer(e)] = Tail(@)] /\ starts' = starts
  BY DEF Receive
<1>3. ends' = [ends EXCEPT ![e] = a2] BY <1>1
<1>4. /\ Good(a) /\ a \in Endpoint /\ wire[e] \in Seq(Message) /\ p \in Seq(Message)
      /\ Good(b) /\ b \in Endpoint /\ wire[Peer(e)] \in Seq(Message)
      /\ b.out \in Seq(Message) /\ q \in Seq(Message)
  BY QueueType, Peers DEF Inv
<1>5. m \in Message /\ Tail(wire[Peer(e)]) \in Seq(Message)
  BY <1>2, <1>4, HeadTailProperties
<1>6. q # <<>> /\ Head(q) = m /\ Tail(q) = Tail(wire[Peer(e)]) \o b.out
  <2>1. PICK w : w = wire[Peer(e)] OBVIOUS
  <2>2. PICK o : o = b.out OBVIOUS
  <2>3. w \in Seq(Message) /\ w # <<>> /\ o \in Seq(Message) BY <1>2, <1>4, <2>1, <2>2
  <2>4. w \o o # <<>> /\ Head(w \o o) = Head(w) /\ Tail(w \o o) = Tail(w) \o o
    BY <2>3
  <2> QED BY <2>1, <2>2, <2>4 DEF Queue
<1>7. Agree(a, p, q, b) BY DEF Inv
<1>8. wire \in [Ends -> Seq(Message)] BY DEF Inv, Typed
<1>9. /\ wire' \in [Ends -> Seq(Message)]
      /\ wire'[e] = wire[e] /\ wire'[Peer(e)] = Tail(wire[Peer(e)])
  BY <1>2, <1>5, <1>8, Peers
<1>10. starts' \in [Ends -> SUBSET {"connection", "answer"}] BY <1>2 DEF Inv, Typed
<1> HIDE DEF q
<1>11. ASSUME Good(a2), Agree(a2, p2, Tail(q), b) PROVE Inv'
  <2>1. Agree(a2, wire'[e] \o a2.out, wire'[Peer(e)] \o b.out, b)
    BY <1>6, <1>9, <1>11
  <2> HIDE DEF a2
  <2> QED BY <1>3, <1>9, <1>10, <1>11, <2>1, OneEnd
<1>12. CASE m.type \notin Determines
  <2>1. Good(a2) /\ (Plain(a, a2) \/ Asks(a, a2))
    BY <1>4, <1>5, <1>12, OtherMessageKeeps
  <2>2. Keeps(q, Tail(q)) BY <1>4, <1>6, <1>12, OtherKeeps
  <2> HIDE DEF a2
  <2>3. CASE Plain(a, a2)
    <3>1. Keeps(p, p2) BY <1>4, <2>3, SilentKeeps DEF Plain, Queue
    <3>2. Same(a, a2) BY <2>3 DEF Plain, Silent, Extends, Same
    <3>3. Agree(a2, p2, Tail(q), b) BY <1>7, <2>2, <3>1, <3>2, SameMove
    <3> QED BY <1>11, <2>1, <3>3
  <2>4. CASE Asks(a, a2)
    <3>1. Same(a, a) BY DEF Same
    <3>2. Agree(a, p, Tail(q), b) BY <1>7, <2>2, <3>1, KeepsSelf, SameMove
    <3>3. Adds(p, p2, Request(a2)) BY <1>4, <2>4, SaysAdds DEF Asks, Queue
    <3>4. Agree(a2, p2, Tail(q), b) BY <2>4, <3>2, <3>3, AskMove DEF Asks
    <3> QED BY <1>11, <2>1, <3>4
  <2> QED BY <2>1, <2>3, <2>4
<1>13. CASE m.type = "MSD"
  <2> DEFINE own == OwnNumber(a, m.term, num)
             role == PeerRole(a.termType, own, m.term, m.num)
  <2>1. m.term \in Nat /\ m.num \in Numbers BY <1>5, <1>13 DEF Message
  <2>2. a2 = OnMasterSlaveDetermination(a, m.term, m.num, num)
    BY <1>13 DEF HandleH245Message
  <2>3. /\ Good(a2) /\ a2.num = own /\ own \in Numbers
        /\ \/ role = "tie" /\ a2.msd = a.msd /\ Says(a, a2, Reject)
           \/ role \in Roles /\ a2.msd = "AckSent" /\ Says(a, a2, Ack(role))
    BY <1>4, <2>1, <2>2, OnMasterSlaveDeterminationSays DEF Roles
  <2> HIDE DEF a2, own
  <2>4. a2.termType = a.termType BY <2>3 DEF Says, Extends
  <2>5. \/ role = "tie" /\ a2.msd = a.msd /\ Adds(p, p2, Reject)
        \/ role \in Roles /\ a2.msd = "AckSent" /\ Adds(p, p2, Ack(role))
    BY <1>4, <2>3, SaysAdds DEF Queue
  <2>6. PICK h : h = m OBVIOUS
  <2>7. Agree(a2, p2, Tail(q), b)
    <3>1. LET r == PeerRole(a.termType, a2.num, Head(q).term, Head(q).num)
          IN \/ r = "tie" /\ a2.msd = a.msd /\ Adds(p, p2, Reject)
             \/ r \in Roles /\ a2.msd = "AckSent" /\ Adds(p, p2, Ack(r))
      BY <1>6, <2>3, <2>5
    <3>2. a2.num = OwnNumber(a, Head(q).term, num) /\ a2.num \in Numbers
      BY <1>6, <2>3 DEF own
    <3> HIDE DEF p2, p, m
    <3> QED BY <1>2, <1>4, <1>6, <1>7, <1>13, <2>4, <3>1, <3>2, RequestMove
  <2> QED BY <1>11, <2>3, <2>7
<1>14. CASE m.type = "MSDAck"
  <2>1. m.decision \in Roles /\ m = Ack(m.decision)
    BY <1>5, <1>14 DEF Message, Roles, Ack
  <2>2. a2 = OnMasterSlaveAck(a, m.decision, able) BY <1>14 DEF HandleH245Message
  <2>3. PICK d \in Roles : d = m.decision BY <2>1
  <2>4. /\ Good(a2)
        /\ a.msd = "AckSent" => a2.msd = RoleState(d) /\ Silent(a, a2)
        /\ a.msd = "DetermineSent" =>
             a2.msd = RoleState(d) /\ Says(a, a2, Ack(Opposite(d)))
    BY <1>4, <2>2, <2>3, OnMasterSlaveAckSays DEF Roles
  <2> HIDE DEF a2
  <2>5. a.msd = "AckSent" => Keeps(p, p2) BY <1>4, <2>4, SilentKeeps DEF Queue
  <2>6. a.msd = "DetermineSent" => Adds(p, p2, Ack(Opposite(d)))
    BY <1>4, <2>4, SaysAdds DEF Queue
  <2>7. Head(q) = Ack(d) BY <1>6, <2>1, <2>3
  <2>8. a.msd \in {"AckSent", "DetermineSent"}
    <3>1. q \in Seq(Message) /\ q # <<>> BY <1>4, <1>6
    <3> HIDE DEF a, b, p
    <3>2. Asked(a) \/ Acked(a) BY <1>7, <2>7, <3>1, AckPhases, Zenon
    <3> QED BY <3>2 DEF Asked, Acked
  <2>9. a2.msd = RoleState(d) BY <2>4, <2>8
  <2>10. Agree(a2, p2, Tail(q), b)
    BY <1>4, <1>6, <1>7, <2>5, <2>6, <2>7, <2>9, AckMove
  <2> QED BY <1>11, <2>4, <2>10
<1>15. CASE m.type = "MSDReject"
  <2>1. m = Reject BY <1>5, <1>15 DEF Message, Reject
  <2>2. a2 = OnMasterSlaveReject(a, num) BY <1>15 DEF HandleH245Message
  <2>3. /\ Good(a2)
        /\ \/ a2.msd = "DetermineSent" /\ Says(a, a2, Request(a2))
           \/ Plain(a, a2) /\ a2.cleared
    BY <1>4, <2>2, OnMasterSlaveRejectSays
  <2> HIDE DEF a2
  <2>4. \/ a2.msd = "DetermineSent" /\ Adds(p, p2, Request(a2))
        \/ a2.msd = a.msd /\ a2.cleared /\ Keeps(p, p2)
    BY <1>4, <2>3, SilentKeeps, SaysAdds DEF Queue, Plain
  <2>5. Agree(a2, p2, Tail(q), b) BY <1>4, <1>6, <1>7, <2>1, <2>4, RejectMove
  <2> QED BY <1>11, <2>3, <2>5
<1> QED BY <1>12, <1>13, <1>14, <1>15 DEF Determines

\* A timer of an end runs out.
LEMMA TimeoutKeeps ==
  ASSUME Inv, NEW e \in Ends, MSDTimeout(e) \/ TCSTimeout(e) \/ OLCTimeout(e)
  PROVE  Inv'
<1> DEFINE a == ends[e]
<1>1. Good(a) BY QueueType DEF Inv
<1>2. wire' = wire /\ starts' \in [Ends -> SUBSET {"connection", "answer"}]
  BY DEF Inv, Typed, MSDTimeout, TCSTimeout, OLCTimeout
<1>3. \E a2 : Good(a2) /\ Plain(a, a2) /\ ends' = [ends EXCEPT ![e] = a2]
  <2>1. CASE MSDTimeout(e)
    <3>1. a.msdTimers > 0 /\ ends' = [ends EXCEPT ![e] = MSDTimerExpired(a)]
      BY <2>1 DEF MSDTimeout
    <3>2. Good(MSDTimerExpired(a)) /\ Plain(a, MSDTimerExpired(a))
      BY <1>1, <3>1, MSDTimerExpiredPlain
    <3> QED BY <3>1, <3>2
  <2>2. CASE TCSTimeout(e)
    <3>1. a.tcsTimers > 0 /\ ends' = [ends EXCEPT ![e] = TCSTimerExpired(a)]
      BY <2>2 DEF TCSTimeout
    <3>2. Good(TCSTimerExpired(a)) /\ Plain(a, TCSTimerExpired(a))
      BY <1>1, <3>1, TCSTimerExpiredPlain
    <3> QED BY <3>1, <3>2
  <2>3. CASE OLCTimeout(e)
    <3>1. PICK no \in a.olcTimers :
            ends' = [ends EXCEPT ![e] = OpenLogicalChannelTimerExpired(a, no)]
      BY <2>3 DEF OLCTimeout
    <3>2. no \in Nat BY <1>1 DEF Good, Endpoint
    <3>3. LET a2 == OpenLogicalChannelTimerExpired(a, no) IN Good(a2) /\ Plain(a, a2)
      BY <1>1, <3>2, OpenLogicalChannelTimerExpiredPlain
    <3> QED BY <3>1, <3>3
  <2> QED BY <2>1, <2>2, <2>3
<1> QED BY <1>2, <1>3, OwnStep

\* Two ends that have not started are quiescent.
LEMMA InitInv == ASSUME Init PROVE Inv
<1>1. PICK term \in TermTypes, send \in [Ends -> BOOLEAN] :
        ends = [e \in Ends |-> NewEndpoint(term[e], send[e])]
  BY DEF Init
<1>2. \A e \in Ends : term[e] \in Nat /\ send[e] \in BOOLEAN BY TermTypesAssumption
<1>3. /\ <<>> \in Seq(Channel) /\ <<>> \in Seq(Message) /\ 0 \in Numbers
      /\ {} \in SUBSET Nat /\ 0 \in Nat /\ 1 \in Nat
  BY NumModAssumption DEF Numbers
<1>4. \A t \in Nat, s \in BOOLEAN :
        /\ NewEndpoint(t, s) \in Endpoint
        /\ NewEndpoint(t, s).chans = <<>> /\ NewEndpoint(t, s).out = <<>>
        /\ NewEndpoint(t, s).msd = "Idle"
  BY <1>3 DEF NewEndpoint, Endpoint
<1>5. \A e \in Ends :
        /\ ends[e] \in Endpoint
        /\ ends[e].chans = <<>> /\ ends[e].out = <<>> /\ ends[e].msd = "Idle"
        /\ wire[e] = <<>>
  BY <1>1, <1>2, <1>4 DEF Init
<1>6. ends \in [Ends -> Endpoint] BY <1>1, <1>5
<1>7. \A e \in Ends : Numbering(ends[e])
  <2>1. DOMAIN <<>> = {} OBVIOUS
  <2>2. TAKE e \in Ends
  <2>3. ends[e].chans = <<>> BY <1>5
  <2>4. PICK c : c = ends[e].chans OBVIOUS
  <2>5. DOMAIN c = {} BY <2>1, <2>3, <2>4
  <2> QED BY <2>4, <2>5 DEF Numbering
<1>8. wire \in [Ends -> Seq(Message)] BY <1>3 DEF Init
<1>9. starts \in [Ends -> SUBSET {"connection", "answer"}]
  BY DEF Init, Tunneled, Separate, Ends
<1>10. \A e \in Ends : Queue(e) = <<>> /\ None(Queue(e)) /\ Idles(ends[e])
  <2> TAKE e \in Ends
  <2>1. <<>> \o <<>> = <<>> /\ None(<<>>) BY DEF None
  <2>2. Queue(e) = <<>> BY <1>5, <2>1 DEF Queue
  <2> QED BY <1>5, <2>1, <2>2 DEF Idles
<1>11. \A e \in Ends : Agree(ends[e], Queue(e), Queue(Peer(e)), ends[Peer(e)])
  BY <1>10, Peers DEF Agree, Phase, Quiescent
<1> QED BY <1>6, <1>7, <1>8, <1>9, <1>11 DEF Inv, Typed

\* Every step keeps the invariant.
LEMMA NextInv == ASSUME Inv, [Next]_vars PROVE Inv'
<1>1. CASE Next
  <2>1. PICK e \in Ends :
          \/ \E kind \in {"connection", "answer"} : Start(e, kind)
          \/ Send(e)
          \/ Receive(e)
          \/ MSDTimeout(e)
          \/ TCSTimeout(e)
          \/ OLCTimeout(e)
    BY <1>1 DEF Next
  <2> QED BY <2>1, StartKeeps, SendKeeps, ReceiveKeeps, TimeoutKeeps
<1>2. CASE UNCHANGED vars
  <2>1. Typed' BY <1>2 DEF vars, Inv, Typed, Numbering
  <2>2. \A e \in Ends : Agree(ends'[e], wire'[e] \o ends'[e].out,
                              wire'[Peer(e)] \o ends'[Peer(e)].out, ends'[Peer(e)])
    BY <1>2 DEF vars, Inv, Queue
  <2>3. (\A e \in Ends : Agree(ends[e], Queue(e), Queue(Peer(e)), ends[Peer(e)]))'
    BY <2>2 DEF Queue
  <2> QED BY <2>1, <2>3 DEF Inv
<1> QED BY <1>1, <1>2

\* The invariant holds in every reachable state.
THEOREM InvHolds == Spec => []Inv
BY InitInv, NextInv, PTL DEF Spec

-----------------------------------------------------------------------------
(* What follows                                                               *)

\* Every record of an end, every queue and every connection has its type, whatever
\* the modulus, the retries and the terminal types.
THEOREM TypeCorrect == Spec => []TypeOK
<1>1. Inv => TypeOK BY DEF Inv, Typed, TypeOK
<1> QED BY <1>1, InvHolds, PTL

\* The transmit channels of an end have different numbers, all of them handed out
\* (logicalChanNoCur in ooOpenChannel, ooRemoveLogicalChannel).
THEOREM NumbersFreshHolds == Spec => []NumbersFresh
<1>1. Inv => NumbersFresh BY DEF Inv, Typed, Numbering, NumbersFresh
<1> QED BY <1>1, InvHolds, PTL

\* The peer of a master is the slave, or is about to be.
LEMMA RolesFit ==
  ASSUME NEW a, NEW p, NEW q, NEW b, Agree(a, p, q, b), a.msd = "Master"
  PROVE  b.msd \in {"DetermineSent", "AckSent", "Slave"}
<1>2. \A d \in Roles :
        /\ a.msd = RoleState(d) => d = "master"
        /\ a.msd = RoleState(Opposite(d)) => d = "slave"
  BY DEF Roles, RoleState, Opposite
<1>3. /\ RoleState("slave") = "Slave" /\ RoleState(Opposite("master")) = "Slave"
  BY DEF RoleState, Opposite
<1>4. ~ Idles(a) /\ ~ Asked(a) /\ ~ Acked(a) BY DEF Idles, Asked, Acked
<1>5. CASE Phase(a, p, q, b)
  <2>1. PICK d \in Roles : Taken(a, p, q, b, d) \/ Determined(a, p, q, b, d)
    BY <1>4, <1>5
    DEF Phase, Quiescent, Asking, Refused, Crossing, RefusedCrossing, BothRefused,
        AskedAgain, Granted, GrantedCrossing, BothGranted
  <2> QED BY <1>2, <1>3, <2>1 DEF Taken, Determined, Acked
<1>6. CASE Phase(b, q, p, a)
  <2>1. PICK d \in Roles : Determined(b, q, p, a, d)
    BY <1>4, <1>6
    DEF Phase, Quiescent, Asking, Refused, Crossing, RefusedCrossing, BothRefused,
        AskedAgain, Granted, Taken, GrantedCrossing, BothGranted
  <2> QED BY <1>2, <1>3, <2>1 DEF Determined
<1> QED BY <1>5, <1>6 DEF Agree

\* Two ends that finished the determination never have the same role, however
\* requests, answers and rejections crossed (ooHandleMasterSlave,
\* ooHandleMasterSlaveAck, ooHandleMasterSlaveReject).
THEOREM RolesOppositeHolds == Spec => []RolesOpposite
<1>1. Inv => RolesOpposite BY RolesFit DEF Inv, RolesOpposite
<1> QED BY <1>1, InvHolds, PTL
=============================================================================
