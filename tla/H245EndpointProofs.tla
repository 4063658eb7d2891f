------------------------ MODULE H245EndpointProofs ------------------------
(* What the operators of H245Endpoint preserve. Good is the part of the        *)
(* invariant that speaks of one end alone; Plain, Asks and Says tell what an    *)
(* operator does to the determination of master and slave: nothing, its         *)
(* request, an answer.                                                          *)
EXTENDS H245Endpoint, SequenceTheorems, WellFoundedInduction, TLAPS

\* The messages of the determination that an end acts on.
Determines == {"MSD", "MSDAck", "MSDReject"}

None(s) == \A i \in DOMAIN s : s[i].type \notin Determines

One(s, m) ==
  \E i \in DOMAIN s :
    s[i] = m /\ \A j \in DOMAIN s : j # i => s[j].type \notin Determines

Two(s, m, n) ==
  \E i, k \in DOMAIN s :
    /\ i < k /\ s[i] = m /\ s[k] = n
    /\ \A j \in DOMAIN s : j # i /\ j # k => s[j].type \notin Determines

Numbering(ep) ==
  \A i, j \in DOMAIN ep.chans :
    ep.chans[i].dir = "transmit" =>
      /\ ep.chans[i].no < ep.nextNo
      /\ ep.chans[j].dir = "transmit" /\ ep.chans[i].no = ep.chans[j].no => i = j

Good(ep) == ep \in Endpoint /\ Numbering(ep)

\* d is c with the messages x queued; a cleared end stays cleared.
Extends(c, d, x) ==
  /\ d.termType = c.termType
  /\ c.cleared => d.cleared
  /\ x \in Seq(Message)
  /\ d.out = c.out \o x

Silent(c, d) == \E x : Extends(c, d, x) /\ None(x)
Says(c, d, m) == \E x : Extends(c, d, x) /\ One(x, m)

Plain(c, d) == Silent(c, d) /\ d.msd = c.msd /\ d.num = c.num

Request(ep) == [type |-> "MSD", term |-> ep.termType, num |-> ep.num]
Ack(decision) == [type |-> "MSDAck", decision |-> decision]
Reject == [type |-> "MSDReject"]

Asks(c, d) == c.msd = "Idle" /\ d.msd = "DetermineSent" /\ Says(c, d, Request(d))

-----------------------------------------------------------------------------
(* Sequences                                                                  *)

\* What a handler draws is a number, what it matches is capabilities.
LEMMA DrawnMatched ==
  ASSUME NEW m
  PROVE  /\ Drawn(m) \subseteq Numbers
         /\ Matched(m) \subseteq SUBSET ({"transmit", "receive"} \X MediaKinds)
<1>1. 0 \in Numbers BY NumModAssumption DEF Numbers
<1> QED BY <1>1 DEF Drawn, Matched

\* Of a nonempty set of numbers one is the least.
LEMMA Least ==
  ASSUME NEW S \in SUBSET Nat, S # {}
  PROVE  \E i \in S : \A j \in S : i <= j
<1>1. PICK i \in S : \A j \in S : ~ (<<j, i>> \in OpToRel(<, Nat))
  BY NatLessThanWellFounded, WFMin, Zenon
<1>2. \A j \in S : ~ (j < i) BY <1>1 DEF OpToRel
<1> QED BY <1>2

\* Of two pieces without such a message.
LEMMA NoneNone ==
  ASSUME NEW S, NEW s \in Seq(S), NEW t \in Seq(S), None(s), None(t)
  PROVE  None(s \o t)
BY DEF None

\* The message is in the first piece ...
LEMMA OneNone ==
  ASSUME NEW S, NEW s \in Seq(S), NEW t \in Seq(S), NEW m, One(s, m), None(t)
  PROVE  One(s \o t, m)
<1>1. PICK i \in DOMAIN s :
        s[i] = m /\ \A j \in DOMAIN s : j # i => s[j].type \notin Determines
  BY DEF One
<1>2. i \in DOMAIN (s \o t) /\ (s \o t)[i] = m BY <1>1
<1>3. \A j \in DOMAIN (s \o t) : j # i => (s \o t)[j].type \notin Determines
  BY <1>1 DEF None
<1> QED BY <1>2, <1>3 DEF One

\* ... or in the second.
LEMMA NoneOne ==
  ASSUME NEW S, NEW s \in Seq(S), NEW t \in Seq(S), NEW m, None(s), One(t, m)
  PROVE  One(s \o t, m)
<1>1. PICK i \in DOMAIN t :
        t[i] = m /\ \A j \in DOMAIN t : j # i => t[j].type \notin Determines
  BY DEF One
<1>2. Len(s) + i \in DOMAIN (s \o t) /\ (s \o t)[Len(s) + i] = m BY <1>1
<1>3. \A j \in DOMAIN (s \o t) :
        j # Len(s) + i => (s \o t)[j].type \notin Determines
  <2> TAKE j \in DOMAIN (s \o t)
  <2>1. CASE j <= Len(s) BY <2>1 DEF None
  <2>2. CASE j > Len(s)
    <3>1. j - Len(s) \in DOMAIN t /\ (s \o t)[j] = t[j - Len(s)] BY <2>2
    <3> QED BY <1>1, <3>1
  <2> QED BY <2>1, <2>2
<1> QED BY <1>2, <1>3 DEF One

\* Both messages are in the first piece.
LEMMA TwoNone ==
  ASSUME NEW S, NEW s \in Seq(S), NEW t \in Seq(S), NEW m, NEW n, Two(s, m, n), None(t)
  PROVE  Two(s \o t, m, n)
<1>1. PICK i \in DOMAIN s, k \in DOMAIN s :
        /\ i < k /\ s[i] = m /\ s[k] = n
        /\ \A j \in DOMAIN s : j # i /\ j # k => s[j].type \notin Determines
  BY DEF Two
<1>2. /\ i \in DOMAIN (s \o t) /\ (s \o t)[i] = m
      /\ k \in DOMAIN (s \o t) /\ (s \o t)[k] = n
  BY <1>1
<1>3. \A j \in DOMAIN (s \o t) : j # i /\ j # k => (s \o t)[j].type \notin Determines
  BY <1>1 DEF None
<1> QED BY <1>1, <1>2, <1>3 DEF Two

\* Each piece has one message.
LEMMA OneOne ==
  ASSUME NEW S, NEW s \in Seq(S), NEW t \in Seq(S), NEW m, NEW n, One(s, m), One(t, n)
  PROVE  Two(s \o t, m, n)
<1>1. PICK i \in DOMAIN s :
        s[i] = m /\ \A j \in DOMAIN s : j # i => s[j].type \notin Determines
  BY DEF One
<1>2. PICK k \in DOMAIN t :
        t[k] = n /\ \A j \in DOMAIN t : j # k => t[j].type \notin Determines
  BY DEF One
<1>3. /\ i \in DOMAIN (s \o t) /\ (s \o t)[i] = m
      /\ Len(s) + k \in DOMAIN (s \o t) /\ (s \o t)[Len(s) + k] = n
      /\ i < Len(s) + k
  BY <1>1, <1>2
<1>4. \A j \in DOMAIN (s \o t) :
        j # i /\ j # Len(s) + k => (s \o t)[j].type \notin Determines
  <2> TAKE j \in DOMAIN (s \o t)
  <2>1. CASE j <= Len(s)
    <3>1. j \in DOMAIN s /\ (s \o t)[j] = s[j] BY <2>1
    <3> QED BY <1>1, <3>1
  <2>2. CASE j > Len(s)
    <3>1. j - Len(s) \in DOMAIN t /\ (s \o t)[j] = t[j - Len(s)] BY <2>2
    <3> QED BY <1>2, <3>1
  <2> QED BY <2>1, <2>2
<1> QED BY <1>3, <1>4 DEF Two

\* A queue without such a message, read.
LEMMA NoneTail ==
  ASSUME NEW S, NEW s \in Seq(S), s # <<>>, None(s)
  PROVE  Head(s).type \notin Determines /\ None(Tail(s))
BY HeadTailProperties DEF None

\* A queue with one: it is read, or something else is.
LEMMA OneTail ==
  ASSUME NEW S, NEW s \in Seq(S), s # <<>>, NEW m, One(s, m)
  PROVE  \/ Head(s) = m /\ None(Tail(s))
         \/ Head(s).type \notin Determines /\ One(Tail(s), m)
<1>1. PICK i \in DOMAIN s :
        s[i] = m /\ \A j \in DOMAIN s : j # i => s[j].type \notin Determines
  BY DEF One
<1>2. /\ Tail(s) \in Seq(S) /\ Len(Tail(s)) = Len(s) - 1
      /\ \A j \in 1 .. Len(Tail(s)) : Tail(s)[j] = s[j + 1]
  BY HeadTailProperties
<1>3. CASE i = 1 BY <1>1, <1>2, <1>3 DEF None
<1>4. CASE i # 1
  <2>1. i - 1 \in DOMAIN Tail(s) /\ Tail(s)[i - 1] = m BY <1>1, <1>2, <1>4
  <2>2. \A j \in DOMAIN Tail(s) : j # i - 1 => Tail(s)[j].type \notin Determines
    BY <1>1, <1>2
  <2>3. Head(s).type \notin Determines BY <1>1, <1>4
  <2> QED BY <2>1, <2>2, <2>3 DEF One
<1> QED BY <1>3, <1>4

\* A queue with two.
LEMMA TwoTail ==
  ASSUME NEW S, NEW s \in Seq(S), s # <<>>, NEW m, NEW n, Two(s, m, n)
  PROVE  \/ Head(s) = m /\ One(Tail(s), n)
         \/ Head(s).type \notin Determines /\ Two(Tail(s), m, n)
<1>1. PICK i \in DOMAIN s, k \in DOMAIN s :
        /\ i < k /\ s[i] = m /\ s[k] = n
        /\ \A j \in DOMAIN s : j # i /\ j # k => s[j].type \notin Determines
  BY DEF Two
<1>2. /\ Tail(s) \in Seq(S) /\ Len(Tail(s)) = Len(s) - 1
      /\ \A j \in 1 .. Len(Tail(s)) : Tail(s)[j] = s[j + 1]
  BY HeadTailProperties
<1>3. k - 1 \in DOMAIN Tail(s) /\ Tail(s)[k - 1] = n BY <1>1, <1>2
<1>4. CASE i = 1
  <2>1. \A j \in DOMAIN Tail(s) : j # k - 1 => Tail(s)[j].type \notin Determines
    BY <1>1, <1>2, <1>4
  <2> QED BY <1>1, <1>3, <1>4, <2>1 DEF One
<1>5. CASE i # 1
  <2>1. i - 1 \in DOMAIN Tail(s) /\ Tail(s)[i - 1] = m /\ i - 1 < k - 1
    BY <1>1, <1>2, <1>5
  <2>2. \A j \in DOMAIN Tail(s) :
          j # i - 1 /\ j # k - 1 => Tail(s)[j].type \notin Determines
    BY <1>1, <1>2
  <2>3. Head(s).type \notin Determines BY <1>1, <1>5
  <2> QED BY <1>3, <2>1, <2>2, <2>3 DEF Two
<1> QED BY <1>4, <1>5

-----------------------------------------------------------------------------
(* The relations compose                                                      *)

\* Two extensions are one.
LEMMA ExtendsTwice ==
  ASSUME NEW c \in Endpoint, NEW d, NEW e, NEW x, NEW y, Extends(c, d, x), Extends(d, e, y)
  PROVE  Extends(c, e, x \o y)
<1>1. c.out \in Seq(Message) BY DEF Endpoint
<1>2. x \in Seq(Message) /\ y \in Seq(Message) BY DEF Extends
<1>3. (c.out \o x) \o y = c.out \o (x \o y)
  <2>1. PICK o : o = c.out OBVIOUS
  <2>2. o \in Seq(Message) BY <1>1, <2>1
  <2>3. (o \o x) \o y = o \o (x \o y) BY <1>2, <2>2, ConcatAssociative
  <2> QED BY <2>1, <2>3
<1>4. x \o y \in Seq(Message) BY <1>2, ConcatProperties
<1> QED BY <1>3, <1>4 DEF Extends

\* Silence, then silence.
LEMMA SilentTwice ==
  ASSUME NEW c \in Endpoint, NEW d, NEW e, Silent(c, d), Silent(d, e) PROVE Silent(c, e)
<1>1. PICK x : Extends(c, d, x) /\ None(x) BY DEF Silent
<1>2. PICK y : Extends(d, e, y) /\ None(y) BY DEF Silent
<1>3. None(x \o y) BY <1>1, <1>2, NoneNone DEF Extends
<1> QED BY <1>1, <1>2, <1>3, ExtendsTwice DEF Silent

\* Silence, then a message.
LEMMA SilentSays ==
  ASSUME NEW c \in Endpoint, NEW d, NEW e, NEW m, Silent(c, d), Says(d, e, m)
  PROVE  Says(c, e, m)
<1>1. PICK x : Extends(c, d, x) /\ None(x) BY DEF Silent
<1>2. PICK y : Extends(d, e, y) /\ One(y, m) BY DEF Says
<1>3. One(x \o y, m) BY <1>1, <1>2, NoneOne DEF Extends
<1> QED BY <1>1, <1>2, <1>3, ExtendsTwice DEF Says

\* Two operators that leave the determination alone.
LEMMA PlainTwice ==
  ASSUME NEW c \in Endpoint, NEW d, NEW e, Plain(c, d), Plain(d, e) PROVE Plain(c, e)
BY SilentTwice DEF Plain

\* One that does, then a request.
LEMMA PlainAsks ==
  ASSUME NEW c \in Endpoint, NEW d, NEW e, Plain(c, d), Asks(d, e) PROVE Asks(c, e)
BY SilentSays DEF Plain, Asks

\* An end whose determination and queue did not change.
Quiet(c, d) ==
  /\ d.termType = c.termType /\ d.msd = c.msd /\ d.num = c.num
  /\ c.cleared => d.cleared
  /\ d.out = c.out

\* It was left alone.
LEMMA QuietPlain == ASSUME NEW c \in Endpoint, NEW d, Quiet(c, d) PROVE Plain(c, d)
<1>1. c.out \in Seq(Message) BY DEF Endpoint
<1>2. c.out \o <<>> = c.out BY <1>1, ConcatEmptySeq
<1>3. Extends(c, d, <<>>) BY <1>2 DEF Extends, Quiet
<1>4. None(<<>>) BY DEF None
<1> QED BY <1>3, <1>4 DEF Plain, Silent, Quiet

\* Nothing done.
LEMMA PlainReflexive == ASSUME NEW c \in Endpoint PROVE Plain(c, c)
BY QuietPlain DEF Quiet

\* The same channels and the same next number.
LEMMA SameNumbering ==
  ASSUME NEW c, NEW d, Numbering(c), d.chans = c.chans, d.nextNo = c.nextNo
  PROVE  Numbering(d)
BY DEF Numbering

-----------------------------------------------------------------------------
(* Queue, clearing, timers                                                    *)

\* A message is queued.
LEMMA EnqueueGood ==
  ASSUME NEW c, Good(c), NEW m \in Message
  PROVE  /\ Good(Enqueue(c, m))
         /\ Enqueue(c, m).msd = c.msd /\ Enqueue(c, m).num = c.num
         /\ Enqueue(c, m).termType = c.termType /\ Enqueue(c, m).cleared = c.cleared
         /\ Extends(c, Enqueue(c, m), <<m>>)
<1> DEFINE d == Enqueue(c, m)
<1>1. c \in Endpoint /\ c.out \in Seq(Message) BY DEF Good, Endpoint
<1>2. Append(c.out, m) \in Seq(Message) /\ Append(c.out, m) = c.out \o <<m>>
  BY <1>1, AppendProperties, AppendIsConcat
<1>3. d \in Endpoint BY <1>1, <1>2, ZenonT(30) DEF Enqueue, Endpoint
<1>4. /\ d.termType = c.termType /\ d.msd = c.msd /\ d.num = c.num
      /\ d.cleared = c.cleared /\ d.out = Append(c.out, m)
      /\ d.chans = c.chans /\ d.nextNo = c.nextNo
  BY <1>1 DEF Enqueue, Endpoint
<1>5. Numbering(d) BY <1>4, SameNumbering DEF Good
<1> HIDE DEF d
<1>6. Extends(c, d, <<m>>) BY <1>2, <1>4 DEF Extends
<1> QED BY <1>3, <1>4, <1>5, <1>6 DEF Good, d

\* A message that is none of the determination's.
LEMMA EnqueuePlain ==
  ASSUME NEW c, Good(c), NEW m \in Message, m.type \notin Determines
  PROVE  Good(Enqueue(c, m)) /\ Plain(c, Enqueue(c, m))
<1>1. None(<<m>>) BY DEF None
<1> QED BY <1>1, EnqueueGood DEF Plain, Silent

\* A message of the determination.
LEMMA EnqueueSays ==
  ASSUME NEW c, Good(c), NEW m \in Message
  PROVE  Good(Enqueue(c, m)) /\ Says(c, Enqueue(c, m), m)
<1>1. One(<<m>>, m) BY DEF One
<1> QED BY <1>1, EnqueueGood DEF Says

\* The call is marked for clearing.
LEMMA ClearCallPlain ==
  ASSUME NEW c, Good(c)
  PROVE  Good(ClearCall(c)) /\ Plain(c, ClearCall(c)) /\ ClearCall(c).cleared
<1> DEFINE d == ClearCall(c)
<1>1. c \in Endpoint BY DEF Good
<1>2. d \in Endpoint BY <1>1, ZenonT(30) DEF ClearCall, Endpoint
<1>3. Quiet(c, d) /\ d.cleared /\ d.chans = c.chans /\ d.nextNo = c.nextNo
  BY <1>1 DEF ClearCall, Endpoint, Quiet
<1>4. Numbering(d) BY <1>3, SameNumbering DEF Good
<1> HIDE DEF d
<1> QED BY <1>1, <1>2, <1>3, <1>4, QuietPlain DEF Good, d

\* A handler deletes one timer, if there is one.
LEMMA DeleteTimerType == ASSUME NEW n \in Nat PROVE DeleteTimer(n) \in Nat
BY DEF DeleteTimer

-----------------------------------------------------------------------------
(* Logical channels                                                           *)

\* Both kinds of media an end may open are media.
LEMMA Media == "audio" \in MediaKinds /\ (Video => "video" \in MediaKinds)
BY DEF MediaKinds

\* A channel the other end proposed.
LEMMA AddReceivePlain ==
  ASSUME NEW c, Good(c), NEW no \in Nat, NEW media \in MediaKinds
  PROVE  LET d == AddChannel(c, no, "receive", media, "ESTABLISHED")
         IN Good(d) /\ Plain(c, d)
<1> DEFINE r == [no |-> no, dir |-> "receive", media |-> media, state |-> "ESTABLISHED"]
           d == [c EXCEPT !.chans = Append(@, r)]
<1>1. c \in Endpoint /\ c.chans \in Seq(Channel) BY DEF Good, Endpoint
<1>2. r \in Channel /\ r.dir = "receive" BY DEF Channel
<1>3. AddChannel(c, no, "receive", media, "ESTABLISHED") = d BY DEF AddChannel
<1> HIDE DEF r
<1>4. Append(c.chans, r) \in Seq(Channel) BY <1>1, <1>2
<1>5. d \in Endpoint BY <1>1, <1>4, ZenonT(30) DEF Endpoint
<1>6. Quiet(c, d) /\ d.chans = Append(c.chans, r) /\ d.nextNo = c.nextNo
  BY <1>1 DEF Endpoint, Quiet
<1> HIDE DEF d
<1>7. Numbering(d) BY <1>1, <1>2, <1>6 DEF Numbering, Good
<1> QED BY <1>1, <1>3, <1>5, <1>6, <1>7, QuietPlain DEF Good

\* A channel of this end, with the number that is next.
LEMMA OpenLogicalChannelPlain ==
  ASSUME NEW c, Good(c), NEW media \in MediaKinds, NEW able
  PROVE  Good(OpenLogicalChannel(c, media, able))
         /\ Plain(c, OpenLogicalChannel(c, media, able))
<1> DEFINE r == [no |-> c.nextNo, dir |-> "transmit", media |-> media,
                 state |-> "PROPOSED"]
           n == [c EXCEPT !.nextNo = @ + 1]
           d == [n EXCEPT !.chans = Append(@, r)]
           m == [type |-> "OLC", no |-> c.nextNo, media |-> media]
<1>1. c \in Endpoint /\ c.chans \in Seq(Channel) /\ c.nextNo \in Nat
  BY DEF Good, Endpoint
<1>2. r \in Channel /\ r.dir = "transmit" /\ r.no = c.nextNo BY <1>1 DEF Channel
<1>3. m \in Message /\ m.type \notin Determines BY <1>1 DEF Message, Determines
<1>4. OpenLogicalChannel(c, media, able) =
        IF <<"transmit", media>> \notin able THEN ClearCall(c) ELSE Enqueue(d, m)
  BY DEF OpenLogicalChannel, AddChannel
<1> HIDE DEF r, m
<1>5. Append(c.chans, r) \in Seq(Channel) /\ c.nextNo + 1 \in Nat BY <1>1, <1>2
<1>6. n \in Endpoint BY <1>1, <1>5, ZenonT(30) DEF Endpoint
<1>7. Quiet(c, n) /\ n.chans = c.chans /\ n.nextNo = c.nextNo + 1
  BY <1>1 DEF Endpoint, Quiet
<1> HIDE DEF n
<1>8. d \in Endpoint BY <1>5, <1>6, <1>7, ZenonT(30) DEF Endpoint
<1>9. Quiet(n, d) /\ d.chans = Append(c.chans, r) /\ d.nextNo = c.nextNo + 1
  BY <1>6, <1>7 DEF Endpoint, Quiet
<1> HIDE DEF d
<1>10. Numbering(d)
  <2>1. Numbering(c) BY DEF Good
  <2>2. \A i \in DOMAIN d.chans :
          d.chans[i] = IF i = Len(c.chans) + 1 THEN r ELSE c.chans[i]
    BY <1>1, <1>2, <1>9
  <2>3. DOMAIN d.chans = 1 .. Len(c.chans) + 1 BY <1>1, <1>2, <1>9
  <2>4. \A i \in DOMAIN c.chans : c.chans[i].no \in Nat
    <3>1. \A i \in DOMAIN c.chans : c.chans[i] \in Channel BY <1>1
    <3> QED BY <3>1 DEF Channel
  <2> QED BY <1>1, <1>2, <1>9, <2>1, <2>2, <2>3, <2>4 DEF Numbering
<1>11. Good(d) /\ Plain(c, d)
  BY <1>1, <1>6, <1>7, <1>8, <1>9, <1>10, QuietPlain, PlainTwice DEF Good
<1>12. Good(Enqueue(d, m)) /\ Plain(d, Enqueue(d, m)) BY <1>3, <1>11, EnqueuePlain
<1> QED BY <1>1, <1>4, <1>11, <1>12, ClearCallPlain, PlainTwice

\* All channels of this end.
LEMMA OpenLogicalChannelsPlain ==
  ASSUME NEW c, Good(c), NEW able
  PROVE  Good(OpenLogicalChannels(c, able)) /\ Plain(c, OpenLogicalChannels(c, able))
<1> DEFINE audio == OpenLogicalChannel(c, "audio", able)
<1>1. Good(audio) /\ Plain(c, audio) BY Media, OpenLogicalChannelPlain
<1>2. Video => Good(OpenLogicalChannel(audio, "video", able))
               /\ Plain(audio, OpenLogicalChannel(audio, "video", able))
  BY <1>1, Media, OpenLogicalChannelPlain
<1> HIDE DEF audio
<1>3. Video => Plain(c, OpenLogicalChannel(audio, "video", able))
  BY <1>1, <1>2, PlainTwice DEF Good
<1> QED BY <1>1, <1>2, <1>3 DEF OpenLogicalChannels, audio

\* The channels are opened if all is ready.
LEMMA OpenIfReadyPlain ==
  ASSUME NEW c, Good(c), NEW able
  PROVE  Good(OpenIfReady(c, able)) /\ Plain(c, OpenIfReady(c, able))
BY OpenLogicalChannelsPlain, PlainReflexive DEF OpenIfReady, Good

\* The channel found has the number looked for.
LEMMA FindChannelFinds ==
  ASSUME NEW c, c.chans \in Seq(Channel), NEW no, Numbered(c, no) # {}
  PROVE  FindChannel(c, no) \in Numbered(c, no)
<1>1. Numbered(c, no) \in SUBSET Nat BY DEF Numbered
<1>2. \E i \in Numbered(c, no) : \A j \in Numbered(c, no) : i <= j BY <1>1, Least
<1> QED BY <1>2 DEF FindChannel

\* An element is cut out of a list.
LEMMA CutElement ==
  ASSUME NEW S, NEW l \in Seq(S), NEW i \in DOMAIN l
  PROVE  LET s == SubSeq(l, 1, i - 1) \o SubSeq(l, i + 1, Len(l))
         IN /\ s \in Seq(S) /\ Len(s) = Len(l) - 1
            /\ \A k \in 1 .. Len(s) : s[k] = l[IF k < i THEN k ELSE k + 1]
<1> DEFINE a == SubSeq(l, 1, i - 1)
           b == SubSeq(l, i + 1, Len(l))
           s == a \o b
<1>1. i \in Nat /\ Len(l) \in Nat /\ 1 <= i /\ i <= Len(l) OBVIOUS
<1>2. a \in Seq(S) /\ Len(a) = i - 1 /\ \A k \in 1 .. Len(a) : a[k] = l[k]
  OBVIOUS
<1>3. b \in Seq(S) /\ Len(b) = Len(l) - i /\ \A k \in 1 .. Len(b) : b[k] = l[k + i]
  <2>1. PICK n : n = Len(l) OBVIOUS
  <2>2. n = Len(l) /\ i + 1 \in 1 .. n + 1 /\ n \in Nat BY <1>1, <2>1
  <2>3. PICK u : u = SubSeq(l, i + 1, n) OBVIOUS
  <2>4. u \in Seq(S) /\ Len(u) = n - i BY <1>1, <2>2, <2>3
  <2>5. \A k \in 1 .. n - i : u[k] = l[k + i] BY <1>1, <2>2, <2>3
  <2> QED BY <2>1, <2>3, <2>4, <2>5
<1> HIDE DEF a, b
<1>4. /\ s \in Seq(S) /\ Len(s) = Len(a) + Len(b)
      /\ \A k \in 1 .. Len(a) + Len(b) : s[k] = IF k <= Len(a) THEN a[k] ELSE b[k - Len(a)]
  BY <1>2, <1>3, ConcatProperties
<1> HIDE DEF s
<1>5. Len(s) = Len(l) - 1 BY <1>1, <1>2, <1>3, <1>4
<1>6. ASSUME NEW k \in 1 .. Len(s) PROVE s[k] = l[IF k < i THEN k ELSE k + 1]
  <2>1. CASE k < i BY <1>1, <1>2, <1>4, <1>6, <2>1
  <2>2. CASE k >= i
    <3>1. k - Len(a) \in 1 .. Len(b) /\ k - Len(a) + i = k + 1
      BY <1>1, <1>2, <1>3, <1>5, <1>6, <2>2
    <3>2. ~ (k <= Len(a)) /\ ~ (k < i) BY <1>1, <1>2, <1>6, <2>2
    <3>3. b[k - Len(a)] = l[k + 1] BY <1>3, <3>1, Zenon
    <3> QED BY <1>4, <1>6, <3>2, <3>3
  <2> QED BY <1>1, <1>5, <1>6, <2>1, <2>2
<1> QED BY <1>4, <1>5, <1>6 DEF s, a, b

\* A channel is removed.
LEMMA ClearLogicalChannelPlain ==
  ASSUME NEW c, Good(c), NEW no
  PROVE  Good(ClearLogicalChannel(c, no)) /\ Plain(c, ClearLogicalChannel(c, no))
<1>1. c \in Endpoint /\ c.chans \in Seq(Channel) BY DEF Good, Endpoint
<1>2. CASE Numbered(c, no) = {}
  BY <1>1, <1>2, PlainReflexive DEF ClearLogicalChannel
<1>3. CASE Numbered(c, no) # {}
  <2> DEFINE i == FindChannel(c, no)
             s == SubSeq(c.chans, 1, i - 1) \o SubSeq(c.chans, i + 1, Len(c.chans))
             d == [c EXCEPT !.chans = s]
  <2>1. i \in DOMAIN c.chans BY <1>1, <1>3, FindChannelFinds DEF Numbered
  <2>2. ClearLogicalChannel(c, no) = d BY <1>3 DEF ClearLogicalChannel
  <2> HIDE DEF i
  <2>3. /\ s \in Seq(Channel) /\ Len(s) = Len(c.chans) - 1
        /\ \A k \in 1 .. Len(s) : s[k] = c.chans[IF k < i THEN k ELSE k + 1]
    BY <1>1, <2>1, CutElement
  <2> HIDE DEF s
  <2>4. d \in Endpoint BY <1>1, <2>3, ZenonT(30) DEF Endpoint
  <2>5. Quiet(c, d) /\ d.chans = s /\ d.nextNo = c.nextNo BY <1>1 DEF Endpoint, Quiet
  <2> HIDE DEF d
  <2>6. Numbering(d)
    <3> DEFINE f(k) == IF k < i THEN k ELSE k + 1
    <3>1. \A k \in DOMAIN d.chans :
            f(k) \in DOMAIN c.chans /\ d.chans[k] = c.chans[f(k)]
      BY <1>1, <2>1, <2>3, <2>5
    <3>2. \A k, l \in DOMAIN d.chans : f(k) = f(l) => k = l BY <1>1, <2>1, <2>3, <2>5
    <3> HIDE DEF f
    <3> QED BY <2>5, <3>1, <3>2 DEF Numbering, Good
  <2> QED BY <1>1, <2>2, <2>4, <2>5, <2>6, QuietPlain DEF Good
<1> QED BY <1>2, <1>3

-----------------------------------------------------------------------------
(* Capability exchange                                                        *)

\* A capability set is sent once.
LEMMA SendTermCapMsgPlain ==
  ASSUME NEW c, Good(c)
  PROVE  Good(SendTermCapMsg(c)) /\ Plain(c, SendTermCapMsg(c))
<1> DEFINE d == [c EXCEPT !.local = "SetSent", !.localSeq = @ + 1]
           m == [type |-> "TCS", seq |-> c.localSeq + 1]
<1>1. c \in Endpoint /\ c.localSeq + 1 \in Nat BY DEF Good, Endpoint
<1>2. d \in Endpoint BY <1>1, ZenonT(30) DEF Endpoint
<1>3. Quiet(c, d) /\ d.chans = c.chans /\ d.nextNo = c.nextNo
  BY <1>1 DEF Endpoint, Quiet
<1>4. m \in Message /\ m.type \notin Determines BY <1>1 DEF Message, Determines
<1>5. SendTermCapMsg(c) = IF c.local = "SetSent" THEN c ELSE Enqueue(d, m)
  BY DEF SendTermCapMsg
<1> HIDE DEF d, m
<1>6. Good(d) /\ Plain(c, d) BY <1>1, <1>2, <1>3, SameNumbering, QuietPlain DEF Good
<1>7. Good(Enqueue(d, m)) /\ Plain(d, Enqueue(d, m)) BY <1>4, <1>6, EnqueuePlain
<1> QED BY <1>1, <1>5, <1>6, <1>7, PlainTwice, PlainReflexive

\* An idle end may ask for a determination, no other does.
LEMMA SendMasterSlaveDeterminationAsks ==
  ASSUME NEW c, Good(c), NEW num \in Numbers, NEW force
  PROVE  LET d == SendMasterSlaveDetermination(c, num, force)
         IN /\ Good(d)
            /\ Plain(c, d) \/ Asks(c, d)
            /\ c.msd = "Idle" /\ force = TRUE => Asks(c, d)
<1> DEFINE d == [c EXCEPT !.msd = "DetermineSent", !.num = num]
           m == [type |-> "MSD", term |-> c.termType, num |-> num]
           e == Enqueue(d, m)
<1>1. c \in Endpoint /\ c.termType \in Nat BY DEF Good, Endpoint
<1>2. d \in Endpoint BY <1>1, ZenonT(30) DEF Endpoint
<1>3. /\ d.termType = c.termType /\ d.msd = "DetermineSent" /\ d.num = num
      /\ d.cleared = c.cleared /\ d.out = c.out
      /\ d.chans = c.chans /\ d.nextNo = c.nextNo
  BY <1>1 DEF Endpoint
<1>4. m \in Message BY <1>1 DEF Message
<1>5. SendMasterSlaveDetermination(c, num, force) =
        IF c.msd # "Idle" \/ (~c.sendMSD /\ ~force) THEN c ELSE e
  BY DEF SendMasterSlaveDetermination
<1> HIDE DEF d, m
<1>6. Good(d) BY <1>2, <1>3, SameNumbering DEF Good
<1>7. /\ Good(e) /\ e.msd = "DetermineSent" /\ e.num = num
      /\ e.termType = c.termType /\ Says(d, e, m)
  BY <1>3, <1>4, <1>6, EnqueueGood, EnqueueSays
<1>8. m = Request(e) BY <1>7 DEF m, Request
<1>9. Says(c, e, m) BY <1>3, <1>7 DEF Says, Extends
<1> HIDE DEF e
<1>10. c.msd = "Idle" => Asks(c, e) BY <1>7, <1>8, <1>9 DEF Asks
<1> QED BY <1>1, <1>5, <1>7, <1>10, PlainReflexive

\* A set is sent if none was.
LEMMA SendTCSIfIdlePlain ==
  ASSUME NEW c, Good(c)
  PROVE  Good(SendTCSIfIdle(c)) /\ Plain(c, SendTCSIfIdle(c))
BY SendTermCapMsgPlain, PlainReflexive DEF SendTCSIfIdle, Good

\* A set is acknowledged.
LEMMA AcceptTermCapPlain ==
  ASSUME NEW c, Good(c), NEW seq \in Nat
  PROVE  Good(AcceptTermCap(c, seq)) /\ Plain(c, AcceptTermCap(c, seq))
<1> DEFINE d == [c EXCEPT !.remoteSeq = seq, !.remote = "AckSent"]
           m == [type |-> "TCSAck"]
<1>1. c \in Endpoint BY DEF Good
<1>2. d \in Endpoint BY <1>1, ZenonT(30) DEF Endpoint
<1>3. Quiet(c, d) /\ d.chans = c.chans /\ d.nextNo = c.nextNo
  BY <1>1 DEF Endpoint, Quiet
<1>4. m \in Message /\ m.type \notin Determines BY DEF Message, Determines
<1>5. AcceptTermCap(c, seq) = Enqueue(d, m) BY DEF AcceptTermCap
<1> HIDE DEF d, m
<1>6. Good(d) /\ Plain(c, d) BY <1>1, <1>2, <1>3, SameNumbering, QuietPlain DEF Good
<1> QED BY <1>1, <1>4, <1>5, <1>6, EnqueuePlain, PlainTwice

\* A received set makes an end answer, send its own, and ask for a determination or
\* open its channels.
LEMMA OnReceivedTerminalCapabilitySetKeeps ==
  ASSUME NEW c, Good(c), NEW seq \in Nat, NEW num \in Numbers, NEW able
  PROVE  LET d == OnReceivedTerminalCapabilitySet(c, seq, num, able)
         IN Good(d) /\ (Plain(c, d) \/ Asks(c, d))
<1> DEFINE r == [c EXCEPT !.remote = "Idle"]
           m == [type |-> "TCSReject", seq |-> seq]
           rejected == SendTCSIfIdle(Enqueue(r, m))
           acked == SendTCSIfIdle(AcceptTermCap(c, seq))
           asked == SendMasterSlaveDetermination(acked, num, TRUE)
           open == OpenIfReady(acked, able)
<1>1. c \in Endpoint BY DEF Good
<1>2. Good(rejected) /\ Plain(c, rejected)
  <2>1. r \in Endpoint BY <1>1, ZenonT(30) DEF Endpoint
  <2>2. Quiet(c, r) /\ r.chans = c.chans /\ r.nextNo = c.nextNo
    BY <1>1 DEF Endpoint, Quiet
  <2>3. m \in Message /\ m.type \notin Determines BY DEF Message, Determines
  <2> HIDE DEF r, m
  <2>4. Good(r) /\ Plain(c, r)
    BY <1>1, <2>1, <2>2, SameNumbering, QuietPlain DEF Good
  <2>5. Good(Enqueue(r, m)) /\ Plain(r, Enqueue(r, m)) BY <2>3, <2>4, EnqueuePlain
  <2>6. Good(rejected) /\ Plain(Enqueue(r, m), rejected) BY <2>5, SendTCSIfIdlePlain
  <2> HIDE DEF rejected
  <2>7. Plain(c, Enqueue(r, m)) BY <1>1, <2>4, <2>5, PlainTwice
  <2> QED BY <1>1, <2>6, <2>7, PlainTwice
<1>3. Good(acked) /\ Plain(c, acked)
  <2>1. Good(AcceptTermCap(c, seq)) /\ Plain(c, AcceptTermCap(c, seq))
    BY AcceptTermCapPlain
  <2>2. Good(acked) /\ Plain(AcceptTermCap(c, seq), acked) BY <2>1, SendTCSIfIdlePlain
  <2> HIDE DEF acked
  <2> QED BY <1>1, <2>1, <2>2, PlainTwice
<1>4. OnReceivedTerminalCapabilitySet(c, seq, num, able) \in {rejected, asked, open}
  BY DEF OnReceivedTerminalCapabilitySet
<1> HIDE DEF acked
<1>5. Good(asked) /\ (Plain(acked, asked) \/ Asks(acked, asked))
  BY <1>3, SendMasterSlaveDeterminationAsks
<1>6. Good(open) /\ Plain(acked, open) BY <1>3, OpenIfReadyPlain
<1> HIDE DEF rejected, asked, open
<1>7. Plain(c, asked) \/ Asks(c, asked) BY <1>1, <1>3, <1>5, PlainTwice, PlainAsks
<1>8. Plain(c, open) BY <1>1, <1>3, <1>6, PlainTwice
<1> QED BY <1>2, <1>4, <1>5, <1>6, <1>7, <1>8

\* An acknowledged set.
LEMMA OnReceivedTerminalCapabilitySetAckPlain ==
  ASSUME NEW c, Good(c), NEW able
  PROVE  LET d == OnReceivedTerminalCapabilitySetAck(c, able)
         IN Good(d) /\ Plain(c, d)
<1> DEFINE n == DeleteTimer(c.tcsTimers)
           h == [c EXCEPT !.local = "AckRecvd", !.tcsTimers = n]
<1>1. c \in Endpoint /\ c.tcsTimers \in Nat BY DEF Good, Endpoint
<1>2. n \in Nat BY <1>1, DeleteTimerType
<1>3. OnReceivedTerminalCapabilitySetAck(c, able) = OpenIfReady(h, able)
  BY DEF OnReceivedTerminalCapabilitySetAck
<1> HIDE DEF n
<1>4. h \in Endpoint BY <1>1, <1>2, ZenonT(30) DEF Endpoint
<1>5. Quiet(c, h) /\ h.chans = c.chans /\ h.nextNo = c.nextNo
  BY <1>1 DEF Endpoint, Quiet
<1> HIDE DEF h
<1>6. Good(h) /\ Plain(c, h) BY <1>1, <1>4, <1>5, SameNumbering, QuietPlain DEF Good
<1> QED BY <1>1, <1>3, <1>6, OpenIfReadyPlain, PlainTwice

\* A rejected set.
LEMMA OnReceivedTerminalCapabilitySetRejectPlain ==
  ASSUME NEW c, Good(c), NEW seq
  PROVE  LET d == OnReceivedTerminalCapabilitySetReject(c, seq)
         IN Good(d) /\ Plain(c, d)
<1> DEFINE n == DeleteTimer(c.tcsTimers)
           h == [c EXCEPT !.tcsTimers = n]
<1>1. c \in Endpoint /\ c.tcsTimers \in Nat BY DEF Good, Endpoint
<1>2. n \in Nat BY <1>1, DeleteTimerType
<1>3. OnReceivedTerminalCapabilitySetReject(c, seq) \in {c, ClearCall(h)}
  BY DEF OnReceivedTerminalCapabilitySetReject
<1> HIDE DEF n
<1>4. h \in Endpoint BY <1>1, <1>2, ZenonT(30) DEF Endpoint
<1>5. Quiet(c, h) /\ h.chans = c.chans /\ h.nextNo = c.nextNo
  BY <1>1 DEF Endpoint, Quiet
<1> HIDE DEF h
<1>6. Good(h) /\ Plain(c, h) BY <1>1, <1>4, <1>5, SameNumbering, QuietPlain DEF Good
<1>7. Good(ClearCall(h)) /\ Plain(c, ClearCall(h))
  BY <1>1, <1>6, ClearCallPlain, PlainTwice
<1> QED BY <1>1, <1>3, <1>7, PlainReflexive

-----------------------------------------------------------------------------
(* Master-slave determination                                                 *)

\* The difference of two numbers, and of the same two the other way round.
LEMMA DifferenceOpposite ==
  ASSUME NEW a \in Numbers, NEW b \in Numbers
  PROVE  /\ a = b => Difference(a, b) = 0 /\ Difference(b, a) = 0
         /\ a # b => Difference(a, b) + Difference(b, a) = NumMod
         /\ Difference(a, b) \in Nat /\ Difference(b, a) \in Nat
BY NumModAssumption DEF Difference, Numbers

\* Half of the modulus is half of it.
LEMMA Half == NumMod \div 2 \in Nat /\ (NumMod \div 2) + (NumMod \div 2) = NumMod
BY NumModAssumption

\* Two ends that compare the same two requests come to opposite roles, or to none,
\* whatever their types and numbers (ooHandleMasterSlave).
LEMMA RolesAgree ==
  ASSUME NEW s \in Nat, NEW t \in Nat, NEW a \in Numbers, NEW b \in Numbers
  PROVE  /\ PeerRole(t, b, s, a) = Opposite(PeerRole(s, a, t, b))
         /\ PeerRole(s, a, t, b) \in {"master", "slave", "tie"}
<1>1. CASE s # t BY <1>1 DEF PeerRole, Opposite
<1>2. CASE s = t
  <2> DEFINE x == Difference(b, a)
             y == Difference(a, b)
             h == NumMod \div 2
             role(z) == IF z \in {0, h} THEN "tie" ELSE IF z < h THEN "slave" ELSE "master"
  <2>1. PeerRole(s, a, t, b) = role(x) /\ PeerRole(t, b, s, a) = role(y)
    BY <1>2 DEF PeerRole
  <2>2. /\ x \in Nat /\ y \in Nat /\ h \in Nat
        /\ (x = 0 /\ y = 0) \/ x + y = h + h
    BY DifferenceOpposite, Half
  <2>3. x < h + h /\ y < h + h BY Half, NumModAssumption DEF Difference, Numbers
  <2> HIDE DEF x, y, h
  <2>4. role(y) = Opposite(role(x)) /\ role(x) \in {"master", "slave", "tie"}
    BY <2>2, <2>3 DEF Opposite
  <2> QED BY <2>1, <2>4
<1> QED BY <1>1, <1>2

\* Roles and their opposites.
LEMMA OppositeRoles ==
  ASSUME NEW r \in {"master", "slave"}
  PROVE  /\ Opposite(r) \in {"master", "slave"}
         /\ Opposite(Opposite(r)) = r /\ Opposite(r) # r
         /\ RoleState(r) \in {"Master", "Slave"}
         /\ RoleState(r) # RoleState(Opposite(r))
BY DEF Opposite, RoleState

\* The answer to a request.
LEMMA SendAckSays ==
  ASSUME NEW c, Good(c), NEW role \in {"master", "slave"},
         NEW state \in {"AckSent", "Master", "Slave"}
  PROVE  LET d == SendAck(c, role, state)
         IN Good(d) /\ Says(c, d, Ack(role)) /\ d.msd = state /\ d.num = c.num
<1> DEFINE h == [c EXCEPT !.msd = state]
           d == Enqueue(h, Ack(role))
<1>1. c \in Endpoint BY DEF Good
<1>2. h \in Endpoint BY <1>1, ZenonT(30) DEF Endpoint
<1>3. /\ h.termType = c.termType /\ h.msd = state /\ h.num = c.num
      /\ h.cleared = c.cleared /\ h.out = c.out
      /\ h.chans = c.chans /\ h.nextNo = c.nextNo
  BY <1>1 DEF Endpoint
<1>4. Ack(role) \in Message BY DEF Ack, Message
<1>5. SendAck(c, role, state) = d BY DEF SendAck, Ack
<1> HIDE DEF h
<1>6. Good(h) BY <1>2, <1>3, SameNumbering DEF Good
<1>7. Good(d) /\ d.msd = state /\ d.num = c.num /\ Says(h, d, Ack(role))
  BY <1>3, <1>4, <1>6, EnqueueGood, EnqueueSays
<1>8. Says(c, d, Ack(role)) BY <1>3, <1>7 DEF Says, Extends
<1> QED BY <1>5, <1>7, <1>8

\* The number an end answers a request with.
OwnNumber(c, term, num) ==
  IF term # c.termType \/ c.msd = "DetermineSent" THEN c.num ELSE num

\* A request is answered with the role of the peer, or rejected.
LEMMA OnMasterSlaveDeterminationSays ==
  ASSUME NEW c, Good(c), NEW term \in Nat, NEW peerNum \in Numbers, NEW num \in Numbers
  PROVE  LET d == OnMasterSlaveDetermination(c, term, peerNum, num)
             own == OwnNumber(c, term, num)
             role == PeerRole(c.termType, own, term, peerNum)
         IN /\ Good(d)
            /\ d.num = own /\ own \in Numbers
            /\ \/ role = "tie" /\ d.msd = c.msd /\ Says(c, d, Reject)
               \/ role \in {"master", "slave"} /\ d.msd = "AckSent" /\ Says(c, d, Ack(role))
<1> DEFINE own == OwnNumber(c, term, num)
           h == [c EXCEPT !.num = own]
           role == PeerRole(c.termType, own, term, peerNum)
<1>1. c \in Endpoint /\ c.num \in Numbers /\ c.termType \in Nat BY DEF Good, Endpoint
<1>2. own \in Numbers BY <1>1 DEF OwnNumber
<1>3. OnMasterSlaveDetermination(c, term, peerNum, num) =
        IF PeerRole(h.termType, own, term, peerNum) = "tie" THEN Enqueue(h, Reject)
        ELSE SendAck(h, PeerRole(h.termType, own, term, peerNum), "AckSent")
  BY DEF OnMasterSlaveDetermination, OwnNumber, Reject
<1> HIDE DEF own
<1>4. h \in Endpoint BY <1>1, <1>2, ZenonT(30) DEF Endpoint
<1>5. /\ h.termType = c.termType /\ h.msd = c.msd /\ h.num = own
      /\ h.cleared = c.cleared /\ h.out = c.out
      /\ h.chans = c.chans /\ h.nextNo = c.nextNo
  BY <1>1 DEF Endpoint
<1> HIDE DEF h
<1>6. Good(h) BY <1>4, <1>5, SameNumbering DEF Good
<1>7. role \in {"master", "slave", "tie"} BY <1>1, <1>2, RolesAgree
<1>8. \A d, m : Says(h, d, m) => Says(c, d, m) BY <1>5 DEF Says, Extends
<1>9. CASE role = "tie"
  <2>1. Reject \in Message BY DEF Reject, Message
  <2>2. /\ Good(Enqueue(h, Reject)) /\ Says(h, Enqueue(h, Reject), Reject)
        /\ Enqueue(h, Reject).msd = c.msd /\ Enqueue(h, Reject).num = own
    BY <1>5, <1>6, <2>1, EnqueueGood, EnqueueSays
  <2> QED BY <1>2, <1>3, <1>5, <1>8, <1>9, <2>2 DEF own
<1>10. CASE role # "tie"
  <2>1. LET d == SendAck(h, role, "AckSent")
        IN Good(d) /\ Says(h, d, Ack(role)) /\ d.msd = "AckSent" /\ d.num = own
    BY <1>5, <1>6, <1>7, <1>10, SendAckSays
  <2> QED BY <1>2, <1>3, <1>5, <1>7, <1>8, <1>10, <2>1 DEF own
<1> QED BY <1>9, <1>10

\* A timer of the determination is deleted.
LEMMA HeardPlain ==
  ASSUME NEW c, Good(c)
  PROVE  LET h == [c EXCEPT !.msdTimers = DeleteTimer(@)]
         IN Good(h) /\ Quiet(c, h)
<1> DEFINE n == DeleteTimer(c.msdTimers)
           h == [c EXCEPT !.msdTimers = n]
<1>1. c \in Endpoint /\ c.msdTimers \in Nat BY DEF Good, Endpoint
<1>2. n \in Nat BY <1>1, DeleteTimerType
<1> HIDE DEF n
<1>3. h \in Endpoint BY <1>1, <1>2, ZenonT(30) DEF Endpoint
<1>4. Quiet(c, h) /\ h.chans = c.chans /\ h.nextNo = c.nextNo
  BY <1>1 DEF Endpoint, Quiet
<1> HIDE DEF h
<1>5. Good(h) BY <1>3, <1>4, SameNumbering DEF Good
<1> QED BY <1>4, <1>5 DEF h, n

\* An acknowledged end that answered before takes its role; one that only asked
\* also answers.
LEMMA OnMasterSlaveAckSays ==
  ASSUME NEW c, Good(c), NEW decision \in {"master", "slave"}, NEW able
  PROVE  LET d == OnMasterSlaveAck(c, decision, able)
         IN /\ Good(d) /\ d.num = c.num
            /\ c.msd = "AckSent" => d.msd = RoleState(decision) /\ Silent(c, d)
            /\ c.msd = "DetermineSent" =>
                 d.msd = RoleState(decision) /\ Says(c, d, Ack(Opposite(decision)))
            /\ c.msd \notin {"AckSent", "DetermineSent"} => Plain(c, d)
<1> DEFINE h == [c EXCEPT !.msdTimers = DeleteTimer(@)]
           r == RoleState(decision)
           g == [h EXCEPT !.msd = r]
           b == decision = "master"
           k == [h EXCEPT !.silent = b]
           d == OnMasterSlaveAck(c, decision, able)
<1>1. Good(h) /\ Quiet(c, h) BY HeardPlain
<1>2. d = CASE c.msd = "AckSent" -> OpenIfReady(g, able)
            [] c.msd = "DetermineSent" -> SendAck(k, Opposite(decision), r)
            [] OTHER -> OpenIfReady(h, able)
  BY DEF OnMasterSlaveAck
<1>3. r \in {"Master", "Slave"} /\ Opposite(decision) \in {"master", "slave"}
  BY OppositeRoles
<1>4. b \in BOOLEAN OBVIOUS
<1> HIDE DEF h, r, b, d
<1>5. h \in Endpoint /\ Numbering(h) BY <1>1 DEF Good
<1>6. c \in Endpoint BY DEF Good
<1>7. CASE c.msd = "AckSent"
  <2>1. g \in Endpoint BY <1>3, <1>5, ZenonT(30) DEF Endpoint
  <2>2. /\ g.termType = h.termType /\ g.msd = r /\ g.num = h.num
        /\ g.cleared = h.cleared /\ g.out = h.out
        /\ g.chans = h.chans /\ g.nextNo = h.nextNo
    BY <1>5 DEF Endpoint
  <2> HIDE DEF g
  <2>3. Good(g) BY <1>5, <2>1, <2>2, SameNumbering DEF Good
  <2>4. Good(d) /\ Plain(g, d) BY <1>2, <1>7, <2>3, OpenIfReadyPlain
  <2>5. Silent(c, d) BY <1>1, <2>2, <2>4 DEF Plain, Silent, Extends, Quiet
  <2> QED BY <1>1, <1>7, <2>2, <2>4, <2>5 DEF Plain, Quiet, d, r
<1>8. CASE c.msd = "DetermineSent"
  <2>1. k \in Endpoint BY <1>4, <1>5, ZenonT(30) DEF Endpoint
  <2>2. /\ k.termType = h.termType /\ k.num = h.num
        /\ k.cleared = h.cleared /\ k.out = h.out
        /\ k.chans = h.chans /\ k.nextNo = h.nextNo
    BY <1>5 DEF Endpoint
  <2> HIDE DEF k
  <2>3. Good(k) BY <1>5, <2>1, <2>2, SameNumbering DEF Good
  <2>4. /\ Good(d) /\ Says(k, d, Ack(Opposite(decision))) /\ d.msd = r
        /\ d.num = k.num
    BY <1>2, <1>3, <1>8, <2>3, SendAckSays
  <2>5. Says(c, d, Ack(Opposite(decision)))
    BY <1>1, <2>2, <2>4 DEF Says, Extends, Quiet
  <2> QED BY <1>1, <1>8, <2>2, <2>4, <2>5 DEF Quiet, d, r
<1>9. CASE c.msd \notin {"AckSent", "DetermineSent"}
  <2>1. Good(d) /\ Plain(h, d) BY <1>1, <1>2, <1>9, OpenIfReadyPlain
  <2>2. Plain(c, d) BY <1>1, <1>6, <2>1, QuietPlain, PlainTwice
  <2> QED BY <1>9, <2>1, <2>2 DEF Plain, d
<1> QED BY <1>7, <1>8, <1>9

\* A rejected end asks once more, or gives up.
LEMMA OnMasterSlaveRejectSays ==
  ASSUME NEW c, Good(c), NEW num \in Numbers
  PROVE  LET d == OnMasterSlaveReject(c, num)
         IN /\ Good(d)
            /\ \/ d.msd = "DetermineSent" /\ Says(c, d, Request(d))
               \/ Plain(c, d) /\ d.cleared
<1> DEFINE h == [c EXCEPT !.msdTimers = DeleteTimer(@)]
           r == [h EXCEPT !.retries = @ + 1, !.msd = "Idle"]
           d == OnMasterSlaveReject(c, num)
<1>1. Good(h) /\ Quiet(c, h) BY HeardPlain
<1>2. d = IF c.retries < MaxRetries THEN SendMasterSlaveDetermination(r, num, TRUE)
          ELSE ClearCall(h)
  BY DEF OnMasterSlaveReject
<1> HIDE DEF h, d
<1>3. h \in Endpoint /\ Numbering(h) /\ h.retries + 1 \in Nat
  <2>1. h \in Endpoint /\ Numbering(h) BY <1>1 DEF Good
  <2>2. h.retries \in Nat BY <2>1 DEF Endpoint
  <2> QED BY <2>1, <2>2
<1>4. c \in Endpoint BY DEF Good
<1>5. CASE c.retries < MaxRetries
  <2>1. r \in Endpoint BY <1>3, ZenonT(30) DEF Endpoint
  <2>2. /\ r.termType = h.termType /\ r.msd = "Idle"
        /\ r.cleared = h.cleared /\ r.out = h.out
        /\ r.chans = h.chans /\ r.nextNo = h.nextNo
    BY <1>3 DEF Endpoint
  <2> HIDE DEF r
  <2>3. Good(r) BY <1>3, <2>1, <2>2, SameNumbering DEF Good
  <2>4. Good(d) /\ Asks(r, d)
    BY <1>2, <1>5, <2>2, <2>3, SendMasterSlaveDeterminationAsks
  <2>5. Says(c, d, Request(d))
    BY <1>1, <2>2, <2>4 DEF Asks, Says, Extends, Quiet
  <2> QED BY <2>4, <2>5 DEF Asks, d
<1>6. CASE ~ (c.retries < MaxRetries)
  <2>1. Good(d) /\ Plain(h, d) /\ d.cleared BY <1>1, <1>2, <1>6, ClearCallPlain
  <2>2. Plain(c, d) BY <1>1, <1>4, <2>1, QuietPlain, PlainTwice
  <2> QED BY <2>1, <2>2 DEF d
<1> QED BY <1>5, <1>6

-----------------------------------------------------------------------------
(* Requests about channels                                                    *)

\* A proposed channel is answered, and by a slave with a channel of its own.
LEMMA OnOpenLogicalChannelPlain ==
  ASSUME NEW c, Good(c), NEW no \in Nat, NEW media \in MediaKinds, NEW able
  PROVE  LET d == OnOpenLogicalChannel(c, no, media, able)
         IN Good(d) /\ Plain(c, d)
<1> DEFINE a == AddChannel(c, no, "receive", media, "ESTABLISHED")
           rx == Enqueue(a, [type |-> "OLCAck", no |-> no])
           open == OpenLogicalChannel(rx, media, able)
           rejected == Enqueue(c, [type |-> "OLCReject", no |-> no])
<1>1. c \in Endpoint BY DEF Good
<1>2. /\ [type |-> "OLCAck", no |-> no] \in Message
      /\ [type |-> "OLCReject", no |-> no] \in Message
      /\ [type |-> "OLCAck", no |-> no].type \notin Determines
      /\ [type |-> "OLCReject", no |-> no].type \notin Determines
  BY DEF Message, Determines
<1>3. Good(rejected) /\ Plain(c, rejected) BY <1>2, EnqueuePlain
<1>4. Good(a) /\ Plain(c, a) BY AddReceivePlain
<1>5. OnOpenLogicalChannel(c, no, media, able) \in {rejected, open, rx}
  BY DEF OnOpenLogicalChannel
<1> HIDE DEF a, rejected
<1>6. Good(rx) /\ Plain(a, rx) BY <1>2, <1>4, EnqueuePlain
<1> HIDE DEF rx
<1>7. Plain(c, rx) BY <1>1, <1>4, <1>6, PlainTwice
<1>8. Good(open) /\ Plain(rx, open) BY <1>6, OpenLogicalChannelPlain
<1> HIDE DEF open
<1>9. Plain(c, open) BY <1>1, <1>7, <1>8, PlainTwice
<1> QED BY <1>3, <1>5, <1>6, <1>7, <1>8, <1>9

\* A timer of a channel is deleted.
LEMMA ChannelTimerPlain ==
  ASSUME NEW c, Good(c), NEW S \in SUBSET Nat
  PROVE  /\ LET d == [c EXCEPT !.olcTimers = S]
            IN Good(d) /\ Plain(c, d) /\ d.chans = c.chans
         /\ LET d == [c EXCEPT !.clcTimers = S] IN Good(d) /\ Plain(c, d)
<1> DEFINE d == [c EXCEPT !.olcTimers = S]
           e == [c EXCEPT !.clcTimers = S]
<1>1. c \in Endpoint BY DEF Good
<1>2. d \in Endpoint /\ e \in Endpoint BY <1>1, ZenonT(30) DEF Endpoint
<1>3. /\ Quiet(c, d) /\ d.chans = c.chans /\ d.nextNo = c.nextNo
      /\ Quiet(c, e) /\ e.chans = c.chans /\ e.nextNo = c.nextNo
  BY <1>1 DEF Endpoint, Quiet
<1> HIDE DEF d, e
<1>4. Good(d) /\ Plain(c, d) /\ Good(e) /\ Plain(c, e)
  BY <1>1, <1>2, <1>3, SameNumbering, QuietPlain DEF Good
<1> QED BY <1>3, <1>4 DEF d, e

\* The acknowledged channel is established.
LEMMA OnOpenLogicalChannelAckPlain ==
  ASSUME NEW c, Good(c), NEW no
  PROVE  LET d == OnOpenLogicalChannelAck(c, no) IN Good(d) /\ Plain(c, d)
<1> DEFINE S == c.olcTimers \ {no}
           h == [c EXCEPT !.olcTimers = S]
           i == FindChannel(c, no)
           s == [c.chans EXCEPT ![i].state = "ESTABLISHED"]
           d == [h EXCEPT !.chans = s]
<1>1. c \in Endpoint /\ c.chans \in Seq(Channel) /\ S \in SUBSET Nat
  BY DEF Good, Endpoint
<1> HIDE DEF S
<1>2. Good(h) /\ Plain(c, h) /\ h.chans = c.chans BY <1>1, ChannelTimerPlain
<1>3. CASE Numbered(c, no) = {}
  BY <1>2, <1>3 DEF OnOpenLogicalChannelAck, S
<1>4. CASE Numbered(c, no) # {}
  <2>1. i \in DOMAIN c.chans BY <1>1, <1>4, FindChannelFinds DEF Numbered
  <2>2. OnOpenLogicalChannelAck(c, no) = d
    BY <1>2, <1>4 DEF OnOpenLogicalChannelAck, S
  <2> HIDE DEF i, h
  <2>3. c.chans[i] \in Channel BY <1>1, <2>1
  <2>4. /\ [c.chans[i] EXCEPT !.state = "ESTABLISHED"] \in Channel
        /\ [c.chans[i] EXCEPT !.state = "ESTABLISHED"].dir = c.chans[i].dir
        /\ [c.chans[i] EXCEPT !.state = "ESTABLISHED"].no = c.chans[i].no
    BY <2>3 DEF Channel
  <2>5. /\ s \in Seq(Channel) /\ Len(s) = Len(c.chans)
        /\ \A j \in DOMAIN s : s[j].dir = c.chans[j].dir /\ s[j].no = c.chans[j].no
    BY <1>1, <2>1, <2>4
  <2> HIDE DEF s
  <2>6. h \in Endpoint BY <1>2 DEF Good
  <2>7. d \in Endpoint BY <2>5, <2>6, ZenonT(30) DEF Endpoint
  <2>8. Quiet(h, d) /\ d.chans = s /\ d.nextNo = h.nextNo
    BY <2>6 DEF Endpoint, Quiet
  <2> HIDE DEF d
  <2>9. Numbering(d)
    <3>1. DOMAIN s = DOMAIN c.chans BY <1>1, <2>5
    <3>2. Numbering(h) BY <1>2 DEF Good
    <3> QED BY <1>2, <2>5, <2>8, <3>1, <3>2 DEF Numbering
  <2>10. Plain(c, d) BY <1>1, <1>2, <2>6, <2>8, QuietPlain, PlainTwice
  <2> QED BY <2>2, <2>7, <2>9, <2>10 DEF Good
<1> QED BY <1>3, <1>4

\* A rejected channel ends the call.
LEMMA OnOpenLogicalChannelRejectedPlain ==
  ASSUME NEW c, Good(c), NEW no
  PROVE  LET d == OnOpenLogicalChannelRejected(c, no) IN Good(d) /\ Plain(c, d)
<1> DEFINE S == c.olcTimers \ {no}
           h == [c EXCEPT !.olcTimers = S]
<1>1. c \in Endpoint /\ S \in SUBSET Nat BY DEF Good, Endpoint
<1>2. OnOpenLogicalChannelRejected(c, no) = ClearCall(h)
  BY DEF OnOpenLogicalChannelRejected
<1> HIDE DEF S
<1>3. Good(h) /\ Plain(c, h) BY <1>1, ChannelTimerPlain
<1> HIDE DEF h
<1> QED BY <1>1, <1>2, <1>3, ClearCallPlain, PlainTwice

\* A closed channel is removed, its request answered.
LEMMA OnCloseLogicalChannelPlain ==
  ASSUME NEW c, Good(c), NEW no \in Nat
  PROVE  LET d == OnCloseLogicalChannel(c, no) IN Good(d) /\ Plain(c, d)
<1> DEFINE h == ClearLogicalChannel(c, no)
<1>1. c \in Endpoint BY DEF Good
<1>2. [type |-> "CLCAck", no |-> no] \in Message
      /\ [type |-> "CLCAck", no |-> no].type \notin Determines
  BY DEF Message, Determines
<1>3. Good(h) /\ Plain(c, h) BY ClearLogicalChannelPlain
<1> HIDE DEF h
<1>4. LET d == Enqueue(h, [type |-> "CLCAck", no |-> no]) IN Good(d) /\ Plain(h, d)
  BY <1>2, <1>3, EnqueuePlain
<1> QED BY <1>1, <1>3, <1>4, PlainTwice DEF OnCloseLogicalChannel, h

\* The answer to a closed channel deletes its timer.
LEMMA OnCloseLogicalChannelAckPlain ==
  ASSUME NEW c, Good(c), NEW no
  PROVE  LET d == OnCloseLogicalChannelAck(c, no) IN Good(d) /\ Plain(c, d)
<1>1. c.clcTimers \ {no} \in SUBSET Nat BY DEF Good, Endpoint
<1> QED BY <1>1, ChannelTimerPlain DEF OnCloseLogicalChannelAck

\* A message that is none of the determination's makes an end at most ask.
LEMMA OtherMessageKeeps ==
  ASSUME NEW c, Good(c), NEW m \in Message, m.type \notin Determines,
         NEW num \in Numbers, NEW able
  PROVE  LET d == HandleH245Message(c, m, num, able)
         IN Good(d) /\ (Plain(c, d) \/ Asks(c, d))
<1> DEFINE d == HandleH245Message(c, m, num, able)
<1>1. c \in Endpoint BY DEF Good
<1>2. CASE m.type = "TCS"
  <2>1. m.seq \in Nat BY <1>2 DEF Message
  <2>2. d = OnReceivedTerminalCapabilitySet(c, m.seq, num, able)
    BY <1>2 DEF HandleH245Message
  <2> QED BY <2>1, <2>2, OnReceivedTerminalCapabilitySetKeeps
<1>3. CASE m.type = "TCSAck"
  <2>1. d = OnReceivedTerminalCapabilitySetAck(c, able)
    BY <1>3 DEF HandleH245Message
  <2> QED BY <2>1, OnReceivedTerminalCapabilitySetAckPlain
<1>4. CASE m.type = "TCSReject"
  <2>1. d = OnReceivedTerminalCapabilitySetReject(c, m.seq)
    BY <1>4 DEF HandleH245Message
  <2> QED BY <2>1, OnReceivedTerminalCapabilitySetRejectPlain
<1>5. CASE m.type = "OLC"
  <2>1. m.no \in Nat /\ m.media \in MediaKinds BY <1>5 DEF Message
  <2>2. d = OnOpenLogicalChannel(c, m.no, m.media, able)
    BY <1>5 DEF HandleH245Message
  <2> QED BY <2>1, <2>2, OnOpenLogicalChannelPlain
<1>6. CASE m.type = "OLCAck"
  <2>1. d = OnOpenLogicalChannelAck(c, m.no) BY <1>6 DEF HandleH245Message
  <2> QED BY <2>1, OnOpenLogicalChannelAckPlain
<1>7. CASE m.type = "OLCReject"
  <2>1. d = OnOpenLogicalChannelRejected(c, m.no) BY <1>7 DEF HandleH245Message
  <2> QED BY <2>1, OnOpenLogicalChannelRejectedPlain
<1>8. CASE m.type = "CLC"
  <2>1. m.no \in Nat BY <1>8 DEF Message
  <2>2. d = OnCloseLogicalChannel(c, m.no) BY <1>8 DEF HandleH245Message
  <2> QED BY <2>1, <2>2, OnCloseLogicalChannelPlain
<1>9. CASE m.type = "CLCAck"
  <2>1. d = OnCloseLogicalChannelAck(c, m.no) BY <1>9 DEF HandleH245Message
  <2> QED BY <2>1, OnCloseLogicalChannelAckPlain
<1>10. CASE m.type \in {"TCSRelease", "MSDRelease"}
  <2>1. d = c BY <1>10 DEF HandleH245Message
  <2> QED BY <1>1, <2>1, PlainReflexive
<1>11. m.type \in {"TCS", "TCSReject", "TCSAck", "TCSRelease", "MSDRelease", "OLC",
                   "OLCAck", "OLCReject", "CLC", "CLCAck"}
  BY DEF Message, Determines
<1> QED BY <1>2, <1>3, <1>4, <1>5, <1>6, <1>7, <1>8, <1>9, <1>10, <1>11

-----------------------------------------------------------------------------
(* Timers                                                                     *)

\* A message that leaves the queue starts its timer and no more.
LEMMA OnSentQuiet ==
  ASSUME NEW c, Good(c), NEW m \in Message
  PROVE  Good(OnSent(c, m)) /\ Quiet(c, OnSent(c, m))
<1> DEFINE d1 == [c EXCEPT !.msdTimers = c.msdTimers + 1]
           d2 == [c EXCEPT !.tcsTimers = c.tcsTimers + 1]
           d3 == [c EXCEPT !.olcTimers = c.olcTimers \cup {m.no}]
           d4 == [c EXCEPT !.clcTimers = c.clcTimers \cup {m.no}]
<1>1. /\ c \in Endpoint /\ c.msdTimers + 1 \in Nat /\ c.tcsTimers + 1 \in Nat
      /\ c.olcTimers \in SUBSET Nat /\ c.clcTimers \in SUBSET Nat
  <2>1. c \in Endpoint BY DEF Good
  <2>2. /\ c.msdTimers \in Nat /\ c.tcsTimers \in Nat
        /\ c.olcTimers \in SUBSET Nat /\ c.clcTimers \in SUBSET Nat
    BY <2>1 DEF Endpoint
  <2> HIDE DEF d1, d2, d3, d4
  <2> QED BY <2>1, <2>2
<1>2. m.type \in {"OLC", "CLC"} =>
        /\ c.olcTimers \cup {m.no} \in SUBSET Nat /\ c.clcTimers \cup {m.no} \in SUBSET Nat
  <2>1. m.type \in {"OLC", "CLC"} => m.no \in Nat BY DEF Message
  <2> QED BY <1>1, <2>1
<1>3. OnSent(c, m) = CASE m.type = "MSD" -> d1 [] m.type = "TCS" -> d2
                       [] m.type = "OLC" -> d3 [] m.type = "CLC" -> d4 [] OTHER -> c
  BY DEF OnSent
<1>4. d1 \in Endpoint /\ d2 \in Endpoint BY <1>1, ZenonT(30) DEF Endpoint
<1>5. m.type \in {"OLC", "CLC"} => d3 \in Endpoint /\ d4 \in Endpoint
  BY <1>1, <1>2, ZenonT(30) DEF Endpoint
<1>6. /\ Quiet(c, d1) /\ d1.chans = c.chans /\ d1.nextNo = c.nextNo
      /\ Quiet(c, d2) /\ d2.chans = c.chans /\ d2.nextNo = c.nextNo
  BY <1>1 DEF Endpoint, Quiet
<1>7. /\ Quiet(c, d3) /\ d3.chans = c.chans /\ d3.nextNo = c.nextNo
      /\ Quiet(c, d4) /\ d4.chans = c.chans /\ d4.nextNo = c.nextNo
  BY <1>1 DEF Endpoint, Quiet
<1>8. Quiet(c, c) BY DEF Quiet
<1> HIDE DEF d1, d2, d3, d4
<1>9. Good(d1) /\ Good(d2) BY <1>4, <1>6, SameNumbering DEF Good
<1>10. m.type \in {"OLC", "CLC"} => Good(d3) /\ Good(d4)
  BY <1>5, <1>7, SameNumbering DEF Good
<1> QED BY <1>3, <1>6, <1>7, <1>8, <1>9, <1>10

\* A timer of the determination runs out.
LEMMA MSDTimerExpiredPlain ==
  ASSUME NEW c, Good(c), c.msdTimers > 0
  PROVE  LET d == MSDTimerExpired(c) IN Good(d) /\ Plain(c, d)
<1> DEFINE h == [c EXCEPT !.msdTimers = c.msdTimers - 1]
           m == [type |-> "MSDRelease"]
           e == Enqueue(h, m)
<1>1. c \in Endpoint /\ c.msdTimers - 1 \in Nat BY DEF Good, Endpoint
<1>2. m \in Message /\ m.type \notin Determines BY DEF Message, Determines
<1>3. MSDTimerExpired(c) = ClearCall(e) BY DEF MSDTimerExpired
<1> HIDE DEF m
<1>4. h \in Endpoint BY <1>1, ZenonT(30) DEF Endpoint
<1>5. Quiet(c, h) /\ h.chans = c.chans /\ h.nextNo = c.nextNo
  BY <1>1 DEF Endpoint, Quiet
<1> HIDE DEF h
<1>6. Good(h) /\ Plain(c, h) BY <1>1, <1>4, <1>5, SameNumbering, QuietPlain DEF Good
<1>7. Good(e) /\ Plain(h, e) BY <1>2, <1>6, EnqueuePlain
<1> HIDE DEF e
<1>8. Good(ClearCall(e)) /\ Plain(e, ClearCall(e)) BY <1>7, ClearCallPlain
<1>9. Plain(c, e) BY <1>1, <1>6, <1>7, PlainTwice
<1> QED BY <1>1, <1>3, <1>8, <1>9, PlainTwice

\* A timer of the capability exchange runs out.
LEMMA TCSTimerExpiredPlain ==
  ASSUME NEW c, Good(c), c.tcsTimers > 0
  PROVE  LET d == TCSTimerExpired(c) IN Good(d) /\ Plain(c, d)
<1> DEFINE h == [c EXCEPT !.tcsTimers = c.tcsTimers - 1]
           m == [type |-> "TCSRelease"]
           e == Enqueue(h, m)
<1>1. c \in Endpoint /\ c.tcsTimers - 1 \in Nat BY DEF Good, Endpoint
<1>2. m \in Message /\ m.type \notin Determines BY DEF Message, Determines
<1>3. TCSTimerExpired(c) = ClearCall(e) BY DEF TCSTimerExpired
<1> HIDE DEF m
<1>4. h \in Endpoint BY <1>1, ZenonT(30) DEF Endpoint
<1>5. Quiet(c, h) /\ h.chans = c.chans /\ h.nextNo = c.nextNo
  BY <1>1 DEF Endpoint, Quiet
<1> HIDE DEF h
<1>6. Good(h) /\ Plain(c, h) BY <1>1, <1>4, <1>5, SameNumbering, QuietPlain DEF Good
<1>7. Good(e) /\ Plain(h, e) BY <1>2, <1>6, EnqueuePlain
<1> HIDE DEF e
<1>8. Good(ClearCall(e)) /\ Plain(e, ClearCall(e)) BY <1>7, ClearCallPlain
<1>9. Plain(c, e) BY <1>1, <1>6, <1>7, PlainTwice
<1> QED BY <1>1, <1>3, <1>8, <1>9, PlainTwice

\* A timer of a channel runs out.
LEMMA OpenLogicalChannelTimerExpiredPlain ==
  ASSUME NEW c, Good(c), NEW no \in Nat
  PROVE  LET d == OpenLogicalChannelTimerExpired(c, no) IN Good(d) /\ Plain(c, d)
<1> DEFINE S == c.olcTimers \ {no}
           h == [c EXCEPT !.olcTimers = S]
           m == [type |-> "CLC", no |-> no]
           e == Enqueue(h, m)
           f == ClearLogicalChannel(e, no)
<1>1. c \in Endpoint /\ S \in SUBSET Nat BY DEF Good, Endpoint
<1>2. OpenLogicalChannelTimerExpired(c, no) \in {ClearCall(h), ClearCall(f)}
  BY DEF OpenLogicalChannelTimerExpired
<1>3. m \in Message /\ m.type \notin Determines BY DEF Message, Determines
<1> HIDE DEF S, m
<1>4. Good(h) /\ Plain(c, h) BY <1>1, ChannelTimerPlain
<1> HIDE DEF h
<1>5. Good(e) /\ Plain(h, e) BY <1>3, <1>4, EnqueuePlain
<1> HIDE DEF e
<1>6. Good(f) /\ Plain(e, f) BY <1>5, ClearLogicalChannelPlain
<1> HIDE DEF f
<1>7. Plain(c, e) BY <1>1, <1>4, <1>5, PlainTwice
<1>8. Plain(c, f) BY <1>1, <1>6, <1>7, PlainTwice
<1>9. /\ Good(ClearCall(h)) /\ Plain(h, ClearCall(h))
      /\ Good(ClearCall(f)) /\ Plain(f, ClearCall(f))
  BY <1>4, <1>6, ClearCallPlain
<1>10. Plain(c, ClearCall(h)) /\ Plain(c, ClearCall(f))
  BY <1>1, <1>4, <1>8, <1>9, PlainTwice
<1> QED BY <1>2, <1>9, <1>10
=============================================================================
