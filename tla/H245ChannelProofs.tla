------------------------- MODULE H245ChannelProofs -------------------------
(* The channels the two ends hold and the timers they wait with, for every    *)
(* number of retries, every modulus and every pair of terminal types.         *)
(*                                                                            *)
(* An end that handles a message, starts, or lets a timer run out becomes     *)
(* another end and queues a set of messages. Effect says what the handlers of *)
(* H245Endpoint make of an end in these terms. Facing says which channels the *)
(* ends hold and have offered each other, Waits what a timer waits for; both  *)
(* are kept by whatever has such an effect.                                   *)
EXTENDS H245Proofs

\* The messages of some types.
Of(types) == {m \in Message : m.type \in types}

Sets       == Of({"TCS"})
SetAnswers == Of({"TCSAck", "TCSReject"})
Requests   == Of({"MSD"})
Answers    == Of({"MSDAck", "MSDReject"})
Acks       == Of({"MSDAck"})
AnyOffer   == Of({"OLC"})
Closings   == Of({"CLC"})

Offers(media)   == {m \in Of({"OLC"}) : m.media = media}
OfferOf(no)     == {m \in Of({"OLC"}) : m.no = no}
OfferAnswers(no) == {m \in Of({"OLCAck", "OLCReject"}) : m.no = no}

-----------------------------------------------------------------------------
(* Queues                                                                     *)

\* A message of K is in the queue; at most one is; it is the last.
Has(s, K) == \E i \in DOMAIN s : s[i] \in K
Few(s, K) == \A i, j \in DOMAIN s : s[i] \in K /\ s[j] \in K => i = j
Last(s, K) == \A i \in DOMAIN s : s[i] \in K => i = Len(s)

\* One of K comes before any of L.
Ahead(s, K, L) ==
  \A i \in DOMAIN s : s[i] \in L => \E j \in DOMAIN s : j < i /\ s[j] \in K

\* The messages of A, each once.
Lists(x, A) ==
  /\ x \in Seq(Message)
  /\ \A i \in DOMAIN x : x[i] \in A
  /\ \A m \in A : \E i \in DOMAIN x : x[i] = m
  /\ \A i, j \in DOMAIN x : x[i] = x[j] => i = j

\* d has queued the messages of A.
Gains(c, d, A) == \E x : Lists(x, A) /\ d.out = c.out \o x

\* The queue s became t when the messages of A were added to it.
Grown(s, t, A) ==
  /\ A = {} => t = s
  /\ \A K : Has(t, K) <=> Has(s, K) \/ A \cap K # {}
  /\ \A K : Few(s, K) /\ (\A m, n \in A \cap K : m = n) /\ (Has(s, K) => A \cap K = {})
              => Few(t, K)
  /\ \A K : ~ Has(s, K) /\ (\A m, n \in A : m = n) => Last(t, K)
  /\ \A K, L : Ahead(s, K, L) /\ (A \cap L = {} \/ Has(s, K)) => Ahead(t, K, L)

\* The queue s became t when the messages of B, at most one, were read from it.
Read(s, t, B) ==
  /\ B = {} => t = s
  /\ t # <<>> => s # <<>>
  /\ \A K : Has(s, K) <=> Has(t, K) \/ B \cap K # {}
  /\ \A K : Few(s, K) => Few(t, K) /\ (Has(t, K) => B \cap K = {})
  /\ \A K : Last(s, K) => Last(t, K) /\ (B \cap K # {} => t = <<>>)
  /\ \A K, L : Ahead(s, K, L) => B \cap L = {} /\ (B \cap K = {} => Ahead(t, K, L))

\* What is in two queues is in both together.
LEMMA HasConcat ==
  ASSUME NEW s \in Seq(Message), NEW t \in Seq(Message), NEW K
  PROVE  Has(s \o t, K) <=> Has(s, K) \/ Has(t, K)
<1>1. /\ s \o t \in Seq(Message) /\ Len(s \o t) = Len(s) + Len(t)
      /\ \A i \in 1 .. Len(s) + Len(t) :
           (s \o t)[i] = IF i <= Len(s) THEN s[i] ELSE t[i - Len(s)]
  BY ConcatProperties
<1>2. ASSUME NEW i \in DOMAIN s, s[i] \in K PROVE Has(s \o t, K)
  BY <1>1, <1>2 DEF Has
<1>3. ASSUME NEW i \in DOMAIN t, t[i] \in K PROVE Has(s \o t, K)
  <2>1. /\ Len(s) + i \in DOMAIN (s \o t) /\ Len(s) + i - Len(s) = i
        /\ ~ (Len(s) + i <= Len(s))
    BY <1>1
  <2>2. (s \o t)[Len(s) + i] = t[i] BY <1>1, <2>1
  <2> QED BY <1>3, <2>1, <2>2 DEF Has
<1>4. ASSUME NEW i \in DOMAIN (s \o t), (s \o t)[i] \in K PROVE Has(s, K) \/ Has(t, K)
  BY <1>1, <1>4 DEF Has
<1> QED BY <1>2, <1>3, <1>4 DEF Has

\* At most one of two queues has what both together have at most once.
LEMMA FewConcat ==
  ASSUME NEW s \in Seq(Message), NEW t \in Seq(Message), NEW K
  PROVE  Few(s \o t, K) <=> Few(s, K) /\ Few(t, K) /\ ~ (Has(s, K) /\ Has(t, K))
<1>1. /\ s \o t \in Seq(Message) /\ Len(s \o t) = Len(s) + Len(t)
      /\ \A i \in 1 .. Len(s) + Len(t) :
           (s \o t)[i] = IF i <= Len(s) THEN s[i] ELSE t[i - Len(s)]
  BY ConcatProperties
<1>2. \A i \in DOMAIN s : i \in DOMAIN (s \o t) /\ (s \o t)[i] = s[i] BY <1>1
<1>3. \A i \in DOMAIN t : Len(s) + i \in DOMAIN (s \o t) /\ (s \o t)[Len(s) + i] = t[i]
  <2> TAKE i \in DOMAIN t
  <2>1. /\ Len(s) + i \in DOMAIN (s \o t) /\ Len(s) + i - Len(s) = i
        /\ ~ (Len(s) + i <= Len(s))
    BY <1>1
  <2> QED BY <1>1, <2>1
<1>4. \A k \in DOMAIN (s \o t) :
        \/ k \in DOMAIN s /\ (s \o t)[k] = s[k]
        \/ k - Len(s) \in DOMAIN t /\ (s \o t)[k] = t[k - Len(s)]
  BY <1>1
<1>5. ASSUME Few(s \o t, K) PROVE Few(s, K) BY <1>2, <1>5 DEF Few
<1>6. ASSUME Few(s \o t, K) PROVE Few(t, K)
  <2> SUFFICES ASSUME NEW i \in DOMAIN t, NEW j \in DOMAIN t, t[i] \in K, t[j] \in K
               PROVE  i = j
    BY DEF Few
  <2>1. Len(s) + i = Len(s) + j BY <1>3, <1>6 DEF Few
  <2> QED BY <2>1
<1>7. ASSUME Few(s \o t, K), NEW i \in DOMAIN s, s[i] \in K,
             NEW j \in DOMAIN t, t[j] \in K
      PROVE  FALSE
  <2>1. i = Len(s) + j BY <1>2, <1>3, <1>7 DEF Few
  <2> QED BY <2>1
<1>8. ASSUME Few(s, K), Few(t, K), ~ (Has(s, K) /\ Has(t, K)),
             NEW i \in DOMAIN (s \o t), (s \o t)[i] \in K,
             NEW j \in DOMAIN (s \o t), (s \o t)[j] \in K
      PROVE  i = j
  <2>1. CASE i \in DOMAIN s /\ j \in DOMAIN s /\ s[i] \in K /\ s[j] \in K
    BY <1>8, <2>1 DEF Few
  <2>2. CASE /\ i - Len(s) \in DOMAIN t /\ j - Len(s) \in DOMAIN t
             /\ t[i - Len(s)] \in K /\ t[j - Len(s)] \in K
    <3>1. i - Len(s) = j - Len(s) BY <1>8, <2>2 DEF Few
    <3> QED BY <1>1, <3>1
  <2> QED BY <1>4, <1>8, <2>1, <2>2 DEF Has
<1>9. ~ (Has(s, K) /\ Has(t, K)) <=>
        \A i \in DOMAIN s, j \in DOMAIN t : ~ (s[i] \in K /\ t[j] \in K)
  BY DEF Has
<1> QED BY <1>5, <1>6, <1>7, <1>8, <1>9 DEF Few

\* Messages are added at the end of a queue.
LEMMA ListsGrow ==
  ASSUME NEW s \in Seq(Message), NEW x, NEW A, Lists(x, A)
  PROVE  Grown(s, s \o x, A)
<1>1. x \in Seq(Message) BY DEF Lists
<1>2. \A K : Has(x, K) <=> A \cap K # {} BY DEF Lists, Has
<1>3. \A K : (\A m, n \in A \cap K : m = n) => Few(x, K) BY DEF Lists, Few
<1>4. A = {} => s \o x = s
  <2> SUFFICES ASSUME A = {} PROVE s \o x = s OBVIOUS
  <2>1. DOMAIN x = {} BY DEF Lists
  <2>2. x = <<>> BY <1>1, <2>1, EmptySeq
  <2> QED BY <2>2, ConcatEmptySeq
<1>5. ASSUME NEW K, ~ Has(s, K), \A m, n \in A : m = n PROVE Last(s \o x, K)
  <2>1. \A i, j \in DOMAIN x : i = j BY <1>5 DEF Lists
  <2>2. Len(x) \in {0, 1}
    <3>1. Len(x) \in Nat /\ DOMAIN x = 1 .. Len(x) BY <1>1
    <3>2. CASE Len(x) >= 2
      <4>1. 1 \in DOMAIN x /\ 2 \in DOMAIN x BY <3>1, <3>2
      <4> QED BY <2>1, <4>1
    <3> QED BY <3>1, <3>2
  <2>3. /\ s \o x \in Seq(Message) /\ Len(s \o x) = Len(s) + Len(x)
        /\ \A i \in 1 .. Len(s) + Len(x) :
             (s \o x)[i] = IF i <= Len(s) THEN s[i] ELSE x[i - Len(s)]
    BY <1>1, ConcatProperties
  <2> SUFFICES ASSUME NEW i \in DOMAIN (s \o x), (s \o x)[i] \in K
               PROVE  i = Len(s \o x)
    BY DEF Last
  <2>4. ~ (i <= Len(s)) BY <1>5, <2>3 DEF Has
  <2> QED BY <2>2, <2>3, <2>4
<1>6. ASSUME NEW K, NEW L, Ahead(s, K, L), A \cap L = {} \/ Has(s, K)
      PROVE  Ahead(s \o x, K, L)
  <2>1. /\ Len(s) \in Nat /\ DOMAIN s = 1 .. Len(s) /\ DOMAIN x = 1 .. Len(x)
        /\ Len(x) \in Nat
    BY <1>1
  <2>2. /\ DOMAIN (s \o x) = 1 .. Len(s) + Len(x)
        /\ \A i \in 1 .. Len(s) + Len(x) :
             (s \o x)[i] = IF i <= Len(s) THEN s[i] ELSE x[i - Len(s)]
    BY <1>1, ConcatProperties
  <2> SUFFICES ASSUME NEW i \in DOMAIN (s \o x), (s \o x)[i] \in L
               PROVE  \E j \in DOMAIN (s \o x) : j < i /\ (s \o x)[j] \in K
    BY DEF Ahead
  <2>3. \A j \in DOMAIN s : j \in DOMAIN (s \o x) /\ (s \o x)[j] = s[j] /\ j <= Len(s)
    BY <2>1, <2>2
  <2>4. CASE i <= Len(s)
    <3>1. i \in DOMAIN s /\ s[i] \in L BY <2>1, <2>2, <2>4
    <3>2. PICK j \in DOMAIN s : j < i /\ s[j] \in K BY <1>6, <3>1 DEF Ahead
    <3> QED BY <2>3, <3>2
  <2>5. CASE ~ (i <= Len(s))
    <3>1. i - Len(s) \in DOMAIN x /\ x[i - Len(s)] \in L BY <2>1, <2>2, <2>5
    <3>2. A \cap L # {} BY <3>1 DEF Lists
    <3>3. PICK j \in DOMAIN s : s[j] \in K BY <1>6, <3>2 DEF Has
    <3>4. j < i BY <2>1, <2>2, <2>5, <3>3
    <3> QED BY <2>3, <3>3, <3>4
  <2> QED BY <2>4, <2>5
<1> QED BY <1>1, <1>2, <1>3, <1>4, <1>5, <1>6, HasConcat, FewConcat DEF Grown

\* What an end queued is added to what is on its way.
LEMMA GainsGrow ==
  ASSUME NEW w \in Seq(Message), NEW c, c.out \in Seq(Message), NEW d, NEW A, Gains(c, d, A)
  PROVE  Grown(w \o c.out, w \o d.out, A) /\ Grown(c.out, d.out, A)
<1>1. PICK x : Lists(x, A) /\ d.out = c.out \o x BY DEF Gains
<1>2. PICK o : o = c.out OBVIOUS
<1>3. o \in Seq(Message) /\ x \in Seq(Message) BY <1>1, <1>2 DEF Lists
<1>4. (w \o o) \o x = w \o (o \o x) /\ w \o o \in Seq(Message)
  BY <1>3, Regroup, ConcatProperties
<1>5. Grown(w \o o, (w \o o) \o x, A) /\ Grown(o, o \o x, A) BY <1>1, <1>3, <1>4, ListsGrow
<1> QED BY <1>1, <1>2, <1>4, <1>5

\* Nothing is read.
LEMMA ReadNothing == ASSUME NEW s PROVE Read(s, s, {})
BY DEF Read

\* The first message is read.
LEMMA ReadHead ==
  ASSUME NEW s \in Seq(Message), s # <<>> PROVE Read(s, Tail(s), {Head(s)})
<1>1. /\ Len(s) \in Nat /\ Len(s) >= 1 /\ DOMAIN s = 1 .. Len(s) /\ Head(s) = s[1]
      /\ Tail(s) \in Seq(Message) /\ Len(Tail(s)) = Len(s) - 1
      /\ DOMAIN Tail(s) = 1 .. Len(s) - 1
      /\ \A j \in DOMAIN Tail(s) : Tail(s)[j] = s[j + 1]
  BY HeadTailProperties
<1>2. \A j \in DOMAIN Tail(s) : j + 1 \in DOMAIN s /\ Tail(s)[j] = s[j + 1] BY <1>1
<1>3. \A j \in DOMAIN s : j = 1 \/ (j - 1 \in DOMAIN Tail(s) /\ Tail(s)[j - 1] = s[j])
  BY <1>1
<1>4. ASSUME NEW K PROVE Has(s, K) <=> Has(Tail(s), K) \/ {Head(s)} \cap K # {}
  <2>1. 1 \in DOMAIN s BY <1>1
  <2> QED BY <1>1, <1>2, <1>3, <2>1 DEF Has
<1>5. ASSUME NEW K, Few(s, K)
      PROVE  Few(Tail(s), K) /\ (Has(Tail(s), K) => {Head(s)} \cap K = {})
  <2>1. ASSUME NEW i \in DOMAIN Tail(s), NEW j \in DOMAIN Tail(s),
               Tail(s)[i] \in K, Tail(s)[j] \in K
        PROVE  i = j
    <3>1. i + 1 = j + 1 BY <1>2, <1>5, <2>1 DEF Few
    <3> QED BY <1>1, <3>1
  <2>2. ASSUME NEW i \in DOMAIN Tail(s), Tail(s)[i] \in K, Head(s) \in K PROVE FALSE
    <3>1. i + 1 = 1 BY <1>1, <1>2, <1>5, <2>2 DEF Few
    <3> QED BY <1>1, <3>1
  <2> QED BY <2>1, <2>2 DEF Few, Has
<1>6. ASSUME NEW K, Last(s, K)
      PROVE  Last(Tail(s), K) /\ ({Head(s)} \cap K # {} => Tail(s) = <<>>)
  <2>1. ASSUME NEW i \in DOMAIN Tail(s), Tail(s)[i] \in K PROVE i = Len(Tail(s))
    <3>1. i + 1 = Len(s) BY <1>2, <1>6, <2>1 DEF Last
    <3> QED BY <1>1, <3>1
  <2>2. ASSUME Head(s) \in K PROVE Tail(s) = <<>>
    <3>1. 1 = Len(s) BY <1>1, <1>6, <2>2 DEF Last
    <3>2. PICK t : t = Tail(s) OBVIOUS
    <3>3. t \in Seq(Message) /\ Len(t) = 0 BY <1>1, <3>1, <3>2
    <3> QED BY <3>2, <3>3, EmptySeq
  <2> QED BY <2>1, <2>2 DEF Last
<1>7. (Tail(s) # <<>> => s # <<>>) /\ {Head(s)} # {} OBVIOUS
<1>8. ASSUME NEW K, NEW L, Ahead(s, K, L)
      PROVE  {Head(s)} \cap L = {} /\ ({Head(s)} \cap K = {} => Ahead(Tail(s), K, L))
  <2>1. Head(s) \notin L
    <3>1. 1 \in DOMAIN s /\ ~ \E j \in DOMAIN s : j < 1 BY <1>1
    <3> QED BY <1>1, <1>8, <3>1 DEF Ahead
  <2>2. ASSUME Head(s) \notin K, NEW i \in DOMAIN Tail(s), Tail(s)[i] \in L
        PROVE  \E j \in DOMAIN Tail(s) : j < i /\ Tail(s)[j] \in K
    <3>1. PICK j \in DOMAIN s : j < i + 1 /\ s[j] \in K BY <1>2, <1>8, <2>2 DEF Ahead
    <3>2. j # 1 BY <1>1, <2>2, <3>1
    <3>3. j - 1 \in DOMAIN Tail(s) /\ Tail(s)[j - 1] \in K BY <1>3, <3>1, <3>2
    <3>4. j - 1 < i BY <1>1, <3>1
    <3> QED BY <3>3, <3>4
  <2> QED BY <2>1, <2>2 DEF Ahead
<1> QED BY <1>4, <1>5, <1>6, <1>7, <1>8 DEF Read

-----------------------------------------------------------------------------
(* What an operator alters and queues                                         *)

Fields ==
  { "termType", "sendMSD", "local", "remote", "localSeq", "remoteSeq", "msd", "num",
    "retries", "chans", "nextNo", "cleared", "out", "msdTimers", "tcsTimers",
    "olcTimers", "clcTimers", "silent" }

\* d is c, but for the fields F.
Alters(c, d, F) == \A f \in Fields \ F : d[f] = c[f]

\* An endpoint has these fields, a queue and counters.
LEMMA EndpointFields ==
  ASSUME NEW c \in Endpoint
  PROVE  /\ DOMAIN c = Fields
         /\ c.out \in Seq(Message) /\ c.chans \in Seq(Channel)
         /\ c.nextNo \in Nat /\ c.localSeq \in Nat
         /\ c.tcsTimers \in Nat /\ c.msdTimers \in Nat
BY DEF Endpoint, Fields

\* Nothing was queued.
LEMMA GainsNothing ==
  ASSUME NEW c, c.out \in Seq(Message), NEW d, d.out = c.out
  PROVE  Gains(c, d, {})
<1>1. PICK o : o = c.out OBVIOUS
<1>2. o \o <<>> = o BY <1>1, ConcatEmptySeq
<1>3. Lists(<<>>, {}) BY DEF Lists
<1> QED BY <1>1, <1>2, <1>3 DEF Gains

\* One message after others, none of them twice.
LEMMA GainsTwice ==
  ASSUME NEW c, c.out \in Seq(Message), NEW d, NEW e, NEW A, NEW B,
         Gains(c, d, A), Gains(d, e, B), A \cap B = {}
  PROVE  Gains(c, e, A \cup B)
<1>1. PICK x : Lists(x, A) /\ d.out = c.out \o x BY DEF Gains
<1>2. PICK y : Lists(y, B) /\ e.out = d.out \o y BY DEF Gains
<1>3. PICK o : o = c.out OBVIOUS
<1>4. o \in Seq(Message) /\ x \in Seq(Message) /\ y \in Seq(Message)
  BY <1>1, <1>2, <1>3 DEF Lists
<1>5. (o \o x) \o y = o \o (x \o y) BY <1>4, Regroup
<1>6. /\ x \o y \in Seq(Message) /\ Len(x \o y) = Len(x) + Len(y)
      /\ \A i \in 1 .. Len(x) + Len(y) :
           (x \o y)[i] = IF i <= Len(x) THEN x[i] ELSE y[i - Len(x)]
  BY <1>4, ConcatProperties
<1>7. \A i \in DOMAIN x : i \in DOMAIN (x \o y) /\ (x \o y)[i] = x[i] BY <1>4, <1>6
<1>8. \A i \in DOMAIN y : Len(x) + i \in DOMAIN (x \o y) /\ (x \o y)[Len(x) + i] = y[i]
  <2> TAKE i \in DOMAIN y
  <2>1. /\ Len(x) + i \in DOMAIN (x \o y) /\ Len(x) + i - Len(x) = i
        /\ ~ (Len(x) + i <= Len(x))
    BY <1>4, <1>6
  <2> QED BY <1>6, <2>1
<1>9. \A k \in DOMAIN (x \o y) :
        \/ k \in DOMAIN x /\ (x \o y)[k] = x[k]
        \/ k - Len(x) \in DOMAIN y /\ (x \o y)[k] = y[k - Len(x)]
  BY <1>4, <1>6
<1>10. \A i, j \in DOMAIN (x \o y) : (x \o y)[i] = (x \o y)[j] => i = j
  <2> SUFFICES ASSUME NEW i \in DOMAIN (x \o y), NEW j \in DOMAIN (x \o y),
                      (x \o y)[i] = (x \o y)[j]
               PROVE  i = j
    OBVIOUS
  <2>1. CASE i \in DOMAIN x /\ (x \o y)[i] = x[i] /\ j \in DOMAIN x /\ (x \o y)[j] = x[j]
    BY <1>1, <2>1 DEF Lists
  <2>2. CASE /\ i - Len(x) \in DOMAIN y /\ (x \o y)[i] = y[i - Len(x)]
             /\ j - Len(x) \in DOMAIN y /\ (x \o y)[j] = y[j - Len(x)]
    <3>1. i - Len(x) = j - Len(x) BY <1>2, <2>2 DEF Lists
    <3> QED BY <1>4, <1>6, <3>1
  <2>3. ASSUME NEW k \in DOMAIN x, NEW l \in DOMAIN y, x[k] = y[l] PROVE FALSE
    BY <1>1, <1>2, <2>3 DEF Lists
  <2> QED BY <1>9, <2>1, <2>2, <2>3
<1>11. Lists(x \o y, A \cup B)
  <2>1. \A i \in DOMAIN (x \o y) : (x \o y)[i] \in A \cup B
    BY <1>1, <1>2, <1>9 DEF Lists
  <2>2. \A m \in A : \E i \in DOMAIN (x \o y) : (x \o y)[i] = m
    BY <1>1, <1>7 DEF Lists
  <2>3. ASSUME NEW m \in B PROVE \E i \in DOMAIN (x \o y) : (x \o y)[i] = m
    <3>1. PICK i \in DOMAIN y : y[i] = m BY <1>2 DEF Lists
    <3> QED BY <1>8, <3>1
  <2> QED BY <1>6, <1>10, <2>1, <2>2, <2>3 DEF Lists
<1> QED BY <1>1, <1>2, <1>3, <1>5, <1>11 DEF Gains

\* A message is queued.
LEMMA EnqueueGains ==
  ASSUME NEW c \in Endpoint, NEW m \in Message
  PROVE  Alters(c, Enqueue(c, m), {"out"}) /\ Gains(c, Enqueue(c, m), {m})
<1>1. DOMAIN c = Fields /\ c.out \in Seq(Message) BY EndpointFields
<1>2. Enqueue(c, m).out = Append(c.out, m) BY <1>1 DEF Enqueue, Fields
<1>3. Append(c.out, m) = c.out \o <<m>> BY <1>1
<1>4. Lists(<<m>>, {m}) BY DEF Lists
<1>5. Alters(c, Enqueue(c, m), {"out"}) BY <1>1 DEF Enqueue, Alters
<1> QED BY <1>2, <1>3, <1>4, <1>5 DEF Gains

\* The call is marked for clearing.
LEMMA ClearCallGains ==
  ASSUME NEW c \in Endpoint
  PROVE  /\ Alters(c, ClearCall(c), {"cleared"}) /\ ClearCall(c).cleared
         /\ Gains(c, ClearCall(c), {})
<1>1. DOMAIN c = Fields /\ c.out \in Seq(Message) BY EndpointFields
<1>2. ClearCall(c).out = c.out /\ ClearCall(c).cleared BY <1>1 DEF ClearCall, Fields
<1>3. Alters(c, ClearCall(c), {"cleared"}) BY <1>1 DEF ClearCall, Alters
<1> QED BY <1>1, <1>2, <1>3, GainsNothing

\* The request of a capability exchange.
SetOf(seq) == [type |-> "TCS", seq |-> seq]

\* A capability set is sent, unless one waits for its answer.
LEMMA SendTermCapMsgGains ==
  ASSUME NEW c, Good(c)
  PROVE  LET d == SendTermCapMsg(c)
         IN \/ c.local = "SetSent" /\ d = c
            \/ /\ c.local # "SetSent" /\ d.local = "SetSent"
               /\ Alters(c, d, {"local", "localSeq", "out"})
               /\ Gains(c, d, {SetOf(d.localSeq)})
<1> DEFINE h == [c EXCEPT !.local = "SetSent", !.localSeq = @ + 1]
           m == SetOf(c.localSeq + 1)
           d == Enqueue(h, m)
<1>1. c \in Endpoint /\ DOMAIN c = Fields /\ c.localSeq + 1 \in Nat
  BY EndpointFields DEF Good
<1>2. h \in Endpoint BY <1>1, ZenonT(30) DEF Endpoint
<1>3. /\ h.local = "SetSent" /\ h.localSeq = c.localSeq + 1 /\ h.out = c.out
      /\ Alters(c, h, {"local", "localSeq"})
  BY <1>1 DEF Fields, Alters
<1>4. m \in Message BY <1>1 DEF Message, SetOf
<1>5. SendTermCapMsg(c) = IF c.local = "SetSent" THEN c ELSE d
  BY DEF SendTermCapMsg, SetOf
<1> HIDE DEF h, m
<1>6. Alters(h, d, {"out"}) /\ Gains(h, d, {m}) BY <1>2, <1>4, EnqueueGains
<1> HIDE DEF d
<1>7. d.local = "SetSent" /\ d.localSeq = c.localSeq + 1 BY <1>3, <1>6 DEF Alters, Fields
<1>8. Alters(c, d, {"local", "localSeq", "out"}) BY <1>3, <1>6 DEF Alters
<1>9. Gains(c, d, {m}) BY <1>3, <1>6 DEF Gains
<1> QED BY <1>5, <1>7, <1>8, <1>9 DEF m

\* A determination is asked for by an idle end, or nothing is done.
LEMMA SendMasterSlaveDeterminationGains ==
  ASSUME NEW c, Good(c), NEW num \in Numbers, NEW force
  PROVE  LET d == SendMasterSlaveDetermination(c, num, force)
         IN \/ d = c
            \/ /\ c.msd = "Idle" /\ d.msd = "DetermineSent"
               /\ Alters(c, d, {"msd", "num", "out"})
               /\ Gains(c, d, {Request(d)}) /\ Request(d) \in Requests
<1> DEFINE h == [c EXCEPT !.msd = "DetermineSent", !.num = num]
           m == [type |-> "MSD", term |-> c.termType, num |-> num]
           d == Enqueue(h, m)
<1>1. c \in Endpoint /\ DOMAIN c = Fields BY EndpointFields DEF Good
<1>2. h \in Endpoint BY <1>1, ZenonT(30) DEF Endpoint
<1>3. /\ h.msd = "DetermineSent" /\ h.num = num /\ h.termType = c.termType
      /\ h.out = c.out /\ Alters(c, h, {"msd", "num"})
  BY <1>1 DEF Fields, Alters
<1>4. m \in Message /\ m \in Requests
  <2>1. c.termType \in Nat BY <1>1 DEF Endpoint
  <2> QED BY <2>1 DEF Message, Requests, Of
<1>5. SendMasterSlaveDetermination(c, num, force) =
        IF c.msd # "Idle" \/ (~c.sendMSD /\ ~force) THEN c ELSE d
  BY DEF SendMasterSlaveDetermination
<1> HIDE DEF h, m
<1>6. Alters(h, d, {"out"}) /\ Gains(h, d, {m}) BY <1>2, <1>4, EnqueueGains
<1> HIDE DEF d
<1>7. d.msd = "DetermineSent" /\ d.num = num /\ d.termType = c.termType
  BY <1>3, <1>6 DEF Alters, Fields
<1>8. Alters(c, d, {"msd", "num", "out"}) BY <1>3, <1>6 DEF Alters
<1>9. Gains(c, d, {m}) BY <1>3, <1>6 DEF Gains
<1>10. m = Request(d) BY <1>7 DEF m, Request
<1> QED BY <1>4, <1>5, <1>7, <1>8, <1>9, <1>10

-----------------------------------------------------------------------------
(* The list of channels                                                       *)

\* The channels of a list: direction, number and medium of each.
Listed(s) == {<<s[i].dir, s[i].no, s[i].media>> : i \in DOMAIN s}

Held(c) == Listed(c.chans)

Holds(c, dir, media) == \E no : <<dir, no, media>> \in Held(c)

\* No medium twice in a direction.
OnceIn(s) ==
  \A i, j \in DOMAIN s : s[i].dir = s[j].dir /\ s[i].media = s[j].media => i = j

Once(c) == OnceIn(c.chans)

OfferMsg(no, media) == [type |-> "OLC", no |-> no, media |-> media]

\* A channel is added to the list.
LEMMA AppendListed ==
  ASSUME NEW s \in Seq(Channel), NEW r \in Channel
  PROVE  /\ Append(s, r) \in Seq(Channel)
         /\ Listed(Append(s, r)) = Listed(s) \cup {<<r.dir, r.no, r.media>>}
         /\ OnceIn(s) /\ (\A no : <<r.dir, no, r.media>> \notin Listed(s))
              => OnceIn(Append(s, r))
<1>1. /\ Append(s, r) \in Seq(Channel) /\ Len(s) \in Nat
      /\ DOMAIN s = 1 .. Len(s) /\ DOMAIN Append(s, r) = 1 .. Len(s) + 1
      /\ \A i \in DOMAIN s : Append(s, r)[i] = s[i]
      /\ Append(s, r)[Len(s) + 1] = r
  OBVIOUS
<1>2. PICK t : t = Append(s, r) OBVIOUS
<1>3. /\ \A i \in DOMAIN s : i \in DOMAIN t /\ t[i] = s[i]
      /\ Len(s) + 1 \in DOMAIN t /\ t[Len(s) + 1] = r
      /\ \A i \in DOMAIN t : i \in DOMAIN s \/ i = Len(s) + 1
  BY <1>1, <1>2
<1>4. Listed(t) = Listed(s) \cup {<<r.dir, r.no, r.media>>}
  <2>1. ASSUME NEW x \in Listed(t) PROVE x \in Listed(s) \cup {<<r.dir, r.no, r.media>>}
    BY <1>3, <2>1 DEF Listed
  <2>2. ASSUME NEW x \in Listed(s) PROVE x \in Listed(t) BY <1>3, <2>2 DEF Listed
  <2>3. <<r.dir, r.no, r.media>> \in Listed(t) BY <1>3 DEF Listed
  <2> QED BY <2>1, <2>2, <2>3
<1>5. ASSUME OnceIn(s), \A no : <<r.dir, no, r.media>> \notin Listed(s)
      PROVE  OnceIn(t)
  <2>1. \A i \in DOMAIN s : ~ (s[i].dir = r.dir /\ s[i].media = r.media)
    BY <1>5 DEF Listed
  <2> QED BY <1>3, <1>5, <2>1 DEF OnceIn
<1> QED BY <1>1, <1>2, <1>4, <1>5

\* A channel of this end is proposed, or the call is cleared.
LEMMA OpenLogicalChannelGains ==
  ASSUME NEW c, Good(c), NEW media \in MediaKinds, NEW able
  PROVE  LET d == OpenLogicalChannel(c, media, able)
         IN \/ d.cleared /\ Alters(c, d, {"cleared"}) /\ Gains(c, d, {})
            \/ /\ Alters(c, d, {"chans", "nextNo", "out"})
               /\ d.nextNo = c.nextNo + 1
               /\ Held(d) = Held(c) \cup {<<"transmit", c.nextNo, media>>}
               /\ Once(c) /\ ~ Holds(c, "transmit", media) => Once(d)
               /\ Gains(c, d, {OfferMsg(c.nextNo, media)})
               /\ OfferMsg(c.nextNo, media) \in Message
<1> DEFINE r == [no |-> c.nextNo, dir |-> "transmit", media |-> media,
                 state |-> "PROPOSED"]
           n == [c EXCEPT !.nextNo = @ + 1]
           h == [n EXCEPT !.chans = Append(@, r)]
           m == OfferMsg(c.nextNo, media)
           d == Enqueue(h, m)
<1>1. /\ c \in Endpoint /\ DOMAIN c = Fields /\ c.nextNo \in Nat
      /\ c.chans \in Seq(Channel)
  BY EndpointFields DEF Good
<1>2. r \in Channel /\ r.dir = "transmit" /\ r.no = c.nextNo /\ r.media = media
  BY <1>1 DEF Channel
<1>3. m \in Message BY <1>1 DEF Message, OfferMsg
<1>4. OpenLogicalChannel(c, media, able) =
        IF <<"transmit", media>> \notin able THEN ClearCall(c) ELSE d
  BY <1>1 DEF OpenLogicalChannel, AddChannel, OfferMsg
<1> HIDE DEF r, m
<1>5. Append(c.chans, r) \in Seq(Channel) /\ c.nextNo + 1 \in Nat BY <1>1, <1>2
<1>6. n \in Endpoint BY <1>1, <1>5, ZenonT(30) DEF Endpoint
<1>7. n.nextNo = c.nextNo + 1 /\ n.chans = c.chans /\ Alters(c, n, {"nextNo"})
      /\ DOMAIN n = Fields
  BY <1>1 DEF Fields, Alters
<1> HIDE DEF n
<1>8. h \in Endpoint BY <1>5, <1>6, <1>7, ZenonT(30) DEF Endpoint
<1>9. h.chans = Append(c.chans, r) /\ Alters(n, h, {"chans"})
  BY <1>7 DEF Fields, Alters
<1> HIDE DEF h
<1>10. Alters(h, d, {"out"}) /\ Gains(h, d, {m}) BY <1>3, <1>8, EnqueueGains
<1> HIDE DEF d
<1>11. Alters(c, d, {"chans", "nextNo", "out"}) BY <1>7, <1>9, <1>10 DEF Alters
<1>12. d.nextNo = c.nextNo + 1 /\ d.chans = Append(c.chans, r) /\ h.out = c.out
  BY <1>7, <1>9, <1>10 DEF Alters, Fields
<1>13. Gains(c, d, {m}) BY <1>10, <1>12 DEF Gains
<1>14. /\ Held(d) = Held(c) \cup {<<"transmit", c.nextNo, media>>}
       /\ Once(c) /\ ~ Holds(c, "transmit", media) => Once(d)
  BY <1>1, <1>2, <1>12, AppendListed DEF Held, Once, Holds
<1>15. CASE <<"transmit", media>> \notin able BY <1>1, <1>4, <1>15, ClearCallGains
<1>16. CASE <<"transmit", media>> \in able
  BY <1>3, <1>4, <1>11, <1>12, <1>13, <1>14, <1>16 DEF m
<1> QED BY <1>15, <1>16

\* A master opened its channels: it had none, and offered each.
Opens(c, d, A) ==
  /\ d.msd = "Master"
  /\ Held(c) = {} /\ Held(d) # {} /\ Once(d)
  /\ d.nextNo > c.nextNo
  /\ Held(d) = {<<"transmit", m.no, m.media>> : m \in A \cap Of({"OLC"})}
  /\ \A media : \A m, n \in A \cap Offers(media) : m = n
  /\ A \cap Closings = {} /\ A \cap Acks = {}

\* Every medium, unless it cleared the call.
OpensAll(d) == d.cleared \/ \A media \in MediaKinds : Holds(d, "transmit", media)

\* An empty list holds nothing.
LEMMA NoneHeld ==
  ASSUME NEW c, c.chans = <<>> PROVE Held(c) = {} /\ Once(c) /\ \A d, m : ~ Holds(c, d, m)
<1>1. DOMAIN <<>> = {} OBVIOUS
<1>2. PICK s : s = c.chans OBVIOUS
<1>3. DOMAIN s = {} BY <1>1, <1>2
<1> QED BY <1>2, <1>3 DEF Held, Listed, Once, OnceIn, Holds

\* All channels of this end are opened.
LEMMA OpenLogicalChannelsGains ==
  ASSUME NEW c, Good(c), NEW able, c.msd = "Master", c.chans = <<>>
  PROVE  LET d == OpenLogicalChannels(c, able)
         IN /\ Alters(c, d, {"chans", "nextNo", "cleared", "out"})
            /\ \/ d.cleared /\ Alters(c, d, {"cleared"}) /\ Gains(c, d, {})
               \/ /\ OpensAll(d)
                  /\ \E A : A \subseteq Of({"OLC"}) /\ Gains(c, d, A) /\ Opens(c, d, A)
<1> DEFINE a == OpenLogicalChannel(c, "audio", able)
           v == OpenLogicalChannel(a, "video", able)
           m == OfferMsg(c.nextNo, "audio")
           n == OfferMsg(c.nextNo + 1, "video")
<1>1. /\ c \in Endpoint /\ c.nextNo \in Nat /\ c.out \in Seq(Message)
      /\ Held(c) = {} /\ Once(c) /\ \A d, k : ~ Holds(c, d, k)
  BY EndpointFields, NoneHeld DEF Good
<1>2. OpenLogicalChannels(c, able) = IF Video /\ ~a.cleared THEN v ELSE a
  BY DEF OpenLogicalChannels
<1>3. /\ m.type = "OLC" /\ m.no = c.nextNo /\ m.media = "audio"
      /\ n.type = "OLC" /\ n.no = c.nextNo + 1 /\ n.media = "video"
  BY DEF OfferMsg
<1>4. "audio" \in MediaKinds BY Media
<1>5. Good(a) BY <1>4, OpenLogicalChannelPlain
<1>6. \/ a.cleared /\ Alters(c, a, {"cleared"}) /\ Gains(c, a, {})
      \/ /\ Alters(c, a, {"chans", "nextNo", "out"})
         /\ a.nextNo = c.nextNo + 1
         /\ Held(a) = Held(c) \cup {<<"transmit", c.nextNo, "audio">>}
         /\ Once(c) /\ ~ Holds(c, "transmit", "audio") => Once(a)
         /\ Gains(c, a, {m})
         /\ m \in Message
  BY <1>4, OpenLogicalChannelGains
<1> HIDE DEF m, n
<1>7. Video =>
        /\ Good(v)
        /\ \/ v.cleared /\ Alters(a, v, {"cleared"}) /\ Gains(a, v, {})
           \/ /\ Alters(a, v, {"chans", "nextNo", "out"})
              /\ v.nextNo = a.nextNo + 1
              /\ Held(v) = Held(a) \cup {<<"transmit", a.nextNo, "video">>}
              /\ Once(a) /\ ~ Holds(a, "transmit", "video") => Once(v)
              /\ Gains(a, v, {OfferMsg(a.nextNo, "video")})
              /\ OfferMsg(a.nextNo, "video") \in Message
  BY <1>5, Media, OpenLogicalChannelPlain, OpenLogicalChannelGains
<1> HIDE DEF a, v
<1>8. CASE a.cleared /\ Alters(c, a, {"cleared"}) /\ Gains(c, a, {})
  <2>1. Alters(c, a, {"chans", "nextNo", "cleared", "out"}) BY <1>8 DEF Alters
  <2> QED BY <1>2, <1>8, <2>1
<1>9. CASE /\ Alters(c, a, {"chans", "nextNo", "out"})
           /\ a.nextNo = c.nextNo + 1
           /\ Held(a) = Held(c) \cup {<<"transmit", c.nextNo, "audio">>}
           /\ Once(c) /\ ~ Holds(c, "transmit", "audio") => Once(a)
           /\ Gains(c, a, {m})
           /\ m \in Message
  <2>1. /\ Held(a) = {<<"transmit", m.no, m.media>>} /\ Once(a)
        /\ m \in Of({"OLC"}) /\ a.msd = "Master" /\ a.nextNo > c.nextNo
    BY <1>1, <1>3, <1>9 DEF Of, Alters, Fields
  <2>2. /\ Alters(c, a, {"chans", "nextNo", "cleared", "out"})
        /\ {m} \subseteq Of({"OLC"}) /\ Opens(c, a, {m})
    <3>1. Alters(c, a, {"chans", "nextNo", "cleared", "out"}) BY <1>9 DEF Alters
    <3>2. {m} \cap Of({"OLC"}) = {m} /\ {m} \cap Closings = {} /\ {m} \cap Acks = {}
      BY <1>3, <2>1 DEF Of, Closings, Acks
    <3> QED BY <1>1, <2>1, <3>1, <3>2 DEF Opens, Offers
  <2>3. CASE ~ Video \/ a.cleared
    <3>1. ~ Video => MediaKinds = {"audio"} BY DEF MediaKinds
    <3>2. OpensAll(a) BY <1>3, <2>1, <2>3, <3>1 DEF OpensAll, Holds
    <3> QED BY <1>2, <1>9, <2>2, <2>3, <3>2
  <2>4. CASE Video /\ ~ a.cleared
    <3>1. OpenLogicalChannels(c, able) = v BY <1>2, <2>4
    <3>2. CASE v.cleared /\ Alters(a, v, {"cleared"}) /\ Gains(a, v, {})
      <4>1. /\ v.chans = a.chans /\ v.nextNo = a.nextNo /\ v.msd = a.msd
        BY <3>2 DEF Alters, Fields
      <4>2. Opens(c, v, {m}) BY <2>2, <4>1 DEF Opens, Held, Once
      <4>3. Alters(c, v, {"chans", "nextNo", "cleared", "out"})
        BY <2>2, <3>2 DEF Alters
      <4>4. Gains(c, v, {m} \cup {}) BY <1>1, <1>9, <3>2, GainsTwice
      <4>5. OpensAll(v) BY <3>2 DEF OpensAll
      <4> QED BY <2>2, <3>1, <4>2, <4>3, <4>4, <4>5
    <3>3. CASE /\ Alters(a, v, {"chans", "nextNo", "out"})
               /\ v.nextNo = a.nextNo + 1
               /\ Held(v) = Held(a) \cup {<<"transmit", a.nextNo, "video">>}
               /\ Once(a) /\ ~ Holds(a, "transmit", "video") => Once(v)
               /\ Gains(a, v, {OfferMsg(a.nextNo, "video")})
               /\ OfferMsg(a.nextNo, "video") \in Message
      <4>1. OfferMsg(a.nextNo, "video") = n BY <1>9 DEF n
      <4>2. m # n /\ n \in Of({"OLC"}) BY <1>3, <3>3, <4>1 DEF Of
      <4>3. Alters(c, v, {"chans", "nextNo", "cleared", "out"})
        BY <2>2, <3>3 DEF Alters
      <4>4. Gains(c, v, {m} \cup {n}) BY <1>1, <1>9, <3>3, <4>1, <4>2, GainsTwice
      <4>5. ~ Holds(a, "transmit", "video") BY <1>3, <2>1 DEF Holds
      <4>6. Held(v) = {<<"transmit", k.no, k.media>> : k \in {m, n}}
        BY <1>3, <1>9, <2>1, <3>3
      <4>7. /\ {m, n} \cap Of({"OLC"}) = {m, n} /\ {m, n} \cap Closings = {}
            /\ {m, n} \cap Acks = {}
        BY <1>3, <2>1, <4>2 DEF Of, Closings, Acks
      <4>8. \A media : \A k, l \in {m, n} \cap Offers(media) : k = l
        BY <1>3 DEF Offers
      <4>9. v.msd = "Master" /\ v.nextNo > c.nextNo
        BY <1>1, <1>9, <2>1, <3>3 DEF Alters, Fields
      <4>10. Opens(c, v, {m, n})
        BY <1>1, <2>1, <3>3, <4>5, <4>6, <4>7, <4>8, <4>9 DEF Opens
      <4>11. {m} \cup {n} = {m, n} /\ {m, n} \subseteq Of({"OLC"}) BY <4>7
      <4>12. OpensAll(v)
        <5>1. \A media \in MediaKinds : media = "audio" \/ media = "video"
          BY DEF MediaKinds
        <5>2. Holds(v, "transmit", "audio") /\ Holds(v, "transmit", "video")
          BY <1>3, <4>6 DEF Holds
        <5> QED BY <5>1, <5>2 DEF OpensAll
      <4> QED BY <3>1, <4>3, <4>4, <4>10, <4>11, <4>12
    <3> QED BY <1>7, <2>4, <3>2, <3>3
  <2> QED BY <2>3, <2>4
<1> QED BY <1>6, <1>8, <1>9

\* The channels are opened if all is ready and there are none.
LEMMA OpenIfReadyGains ==
  ASSUME NEW c, Good(c), NEW able
  PROVE  LET d == OpenIfReady(c, able)
         IN /\ Alters(c, d, {"chans", "nextNo", "cleared", "out"})
            /\ \/ (d.cleared \/ d = c) /\ Alters(c, d, {"cleared"}) /\ Gains(c, d, {})
               \/ /\ OpensAll(d)
                  /\ \E A : A \subseteq Of({"OLC"}) /\ Gains(c, d, A) /\ Opens(c, d, A)
<1>1. c.out \in Seq(Message) BY EndpointFields DEF Good
<1>2. OpenIfReady(c, able) = c \/
      /\ OpenIfReady(c, able) = OpenLogicalChannels(c, able)
      /\ c.msd = "Master" /\ c.chans = <<>>
  BY DEF OpenIfReady, Idle
<1>3. CASE OpenIfReady(c, able) = c BY <1>1, <1>3, GainsNothing DEF Alters
<1>4. CASE /\ OpenIfReady(c, able) = OpenLogicalChannels(c, able)
           /\ c.msd = "Master" /\ c.chans = <<>>
  BY <1>4, OpenLogicalChannelsGains
<1> QED BY <1>2, <1>3, <1>4

\* A channel is removed, or there is none of the number.
LEMMA ClearLogicalChannelGains ==
  ASSUME NEW c, Good(c), NEW no
  PROVE  LET d == ClearLogicalChannel(c, no)
         IN /\ Alters(c, d, {"chans"})
            /\ Held(d) \subseteq Held(c) /\ (Once(c) => Once(d))
<1>1. c \in Endpoint /\ DOMAIN c = Fields /\ c.chans \in Seq(Channel)
  BY EndpointFields DEF Good
<1>2. CASE Numbered(c, no) = {} BY <1>2 DEF ClearLogicalChannel, Alters
<1>3. CASE Numbered(c, no) # {}
  <2> DEFINE i == FindChannel(c, no)
             s == SubSeq(c.chans, 1, i - 1) \o SubSeq(c.chans, i + 1, Len(c.chans))
             d == [c EXCEPT !.chans = s]
             f(k) == IF k < i THEN k ELSE k + 1
  <2>1. i \in DOMAIN c.chans BY <1>1, <1>3, FindChannelFinds DEF Numbered
  <2>2. ClearLogicalChannel(c, no) = d BY <1>3 DEF ClearLogicalChannel
  <2> HIDE DEF i
  <2>3. /\ s \in Seq(Channel) /\ Len(s) = Len(c.chans) - 1
        /\ \A k \in 1 .. Len(s) : s[k] = c.chans[f(k)]
    BY <1>1, <2>1, CutElement
  <2> HIDE DEF s
  <2>4. d.chans = s /\ Alters(c, d, {"chans"}) BY <1>1 DEF Alters, Fields
  <2> HIDE DEF d
  <2>5. \A k \in DOMAIN s : f(k) \in DOMAIN c.chans /\ s[k] = c.chans[f(k)]
    BY <1>1, <2>1, <2>3
  <2>6. \A k, l \in DOMAIN s : f(k) = f(l) => k = l BY <1>1, <2>1, <2>3
  <2> HIDE DEF f
  <2>7. Held(d) \subseteq Held(c) BY <2>4, <2>5 DEF Held, Listed
  <2>8. Once(c) => Once(d) BY <2>4, <2>5, <2>6 DEF Once, OnceIn
  <2> QED BY <2>2, <2>4, <2>7, <2>8
<1> QED BY <1>2, <1>3

-----------------------------------------------------------------------------
(* The effect of a step of one end                                            *)

\* In all that follows the end c read the messages B, at most one, became d, and
\* queued the messages A.

\* The capability set: nothing was done about it, one was sent, the answer came,
\* or a rejection of an older set did.
CapsOwn(c, d, A, B) ==
  \/ d.cleared
  \/ /\ d.local = c.local /\ d.localSeq = c.localSeq /\ d.tcsTimers = c.tcsTimers
     /\ A \cap Sets = {} /\ B \cap SetAnswers = {}
  \/ /\ c.local # "SetSent" /\ d.local = "SetSent" /\ d.tcsTimers = c.tcsTimers
     /\ A \cap Sets = {SetOf(d.localSeq)} /\ B \cap SetAnswers = {}
  \/ /\ d.localSeq = c.localSeq /\ d.tcsTimers = DeleteTimer(c.tcsTimers)
     /\ A \cap Sets = {} /\ B \cap SetAnswers # {}
  \/ \E m \in B : m.type = "TCSReject" /\ m.seq # c.localSeq

\* A set that was read was answered, once.
CapsAnswer(A, B) ==
  \/ B \cap Sets = {} /\ A \cap SetAnswers = {}
  \/ \E m \in B \cap Sets, r \in SetAnswers :
       A \cap SetAnswers = {r} /\ (r.type = "TCSReject" => r.seq = m.seq)

\* The request for a determination: nothing, a request, or an answer to one.
RoleOwn(c, d, A, B) ==
  \/ d.cleared
  \/ /\ d.msdTimers = c.msdTimers
     /\ A \cap Requests = {} \/ c.msd = "Idle"
     /\ B \cap Answers = {}
  \/ d.msdTimers = DeleteTimer(c.msdTimers) /\ B \cap Answers # {}

RoleAnswer(A, B) == B \cap Requests # {} => A \cap Answers # {}

\* The channels offered: their timers wait for answers that were not read.
OfferOwn(c, d, B) ==
  \A no \in d.olcTimers : no \in c.olcTimers /\ B \cap OfferAnswers(no) = {}

OfferAnswer(A, B) == \A no : B \cap OfferOf(no) # {} => A \cap OfferAnswers(no) # {}

\* The list of channels stayed as it was, ...
Stays(c, d, A) ==
  /\ Held(d) = Held(c) /\ (Once(c) => Once(d)) /\ d.nextNo = c.nextNo
  /\ A \cap Of({"OLC", "CLC"}) = {}

\* ... got the channel offered, ...
Accepts(c, d, A, B) ==
  \E m \in B \cap Of({"OLC"}) :
    /\ Held(d) = Held(c) \cup {<<"receive", m.no, m.media>>}
    /\ Once(c) /\ ~ Holds(c, "receive", m.media) => Once(d)
    /\ d.nextNo = c.nextNo /\ d.msd = c.msd
    /\ c.msd = "Slave" => d.cleared
    /\ A \cap Of({"OLC", "CLC"}) = {}

\* ... and a slave's own of the same medium, ...
Follows(c, d, A, B) ==
  \E m \in B \cap Of({"OLC"}) :
    /\ c.msd = "Slave" /\ d.msd = "Slave"
    /\ Held(d) = Held(c) \cup {<<"receive", m.no, m.media>>,
                               <<"transmit", c.nextNo, m.media>>}
    /\ Once(c) /\ ~ Holds(c, "receive", m.media) /\ ~ Holds(c, "transmit", m.media)
         => Once(d)
    /\ d.nextNo = c.nextNo + 1
    /\ A \cap Of({"OLC"}) = {OfferMsg(c.nextNo, m.media)}
    /\ A \cap Closings = {} /\ A \cap Acks = {}

\* ... or lost the channel that was closed, by the peer or with the call.
Drops(c, d, A, B) ==
  /\ B \cap Closings # {} \/ d.cleared
  /\ Held(d) \subseteq Held(c) /\ (Once(c) => Once(d)) /\ d.nextNo = c.nextNo
  /\ A \cap Of({"OLC"}) = {}
  /\ A \cap Closings # {} => d.cleared /\ \A m, n \in A : m = n

ListEffect(c, d, A, B) ==
  \/ Stays(c, d, A)
  \/ Opens(c, d, A) /\ OpensAll(d) /\ B # {}
  \/ Accepts(c, d, A, B)
  \/ Follows(c, d, A, B)
  \/ Drops(c, d, A, B)

Effect(c, d, A, B) ==
  /\ Gains(c, d, A)
  /\ CapsOwn(c, d, A, B) /\ CapsAnswer(A, B)
  /\ RoleOwn(c, d, A, B) /\ RoleAnswer(A, B)
  /\ OfferOwn(c, d, B) /\ OfferAnswer(A, B)
  /\ ListEffect(c, d, A, B)

\* A step that does not touch the list.
LEMMA StaysAsItWas ==
  ASSUME NEW c, NEW d, d.chans = c.chans, d.nextNo = c.nextNo,
         NEW A, A \cap Of({"OLC", "CLC"}) = {}
  PROVE  Stays(c, d, A)
BY DEF Stays, Held, Once

\* A set is answered, and the own set sent if none was.
LEMMA ReplyGains ==
  ASSUME NEW c, NEW h, Good(h), Alters(c, h, {"remote", "remoteSeq"}),
         NEW m \in SetAnswers
  PROVE  LET y == SendTCSIfIdle(Enqueue(h, m))
         IN /\ Good(y)
            /\ Alters(c, y, {"remote", "remoteSeq", "local", "localSeq", "out"})
            /\ \/ /\ y.local = c.local /\ y.localSeq = c.localSeq
                  /\ Gains(c, y, {m})
               \/ /\ c.local # "SetSent" /\ y.local = "SetSent"
                  /\ Gains(c, y, {m, SetOf(y.localSeq)})
<1> DEFINE x == Enqueue(h, m)
           y == SendTCSIfIdle(x)
<1>1. m \in Message /\ m.type # "TCS" /\ h \in Endpoint BY DEF SetAnswers, Of, Good
<1>2. Good(x) /\ Alters(h, x, {"out"}) /\ Gains(h, x, {m})
  BY <1>1, EnqueueGood, EnqueueGains
<1> HIDE DEF x
<1>3. /\ Alters(c, x, {"remote", "remoteSeq", "out"}) /\ Gains(c, x, {m})
      /\ x.local = c.local /\ x.localSeq = c.localSeq
      /\ c.out = h.out
  BY <1>2 DEF Alters, Fields, Gains
<1>4. Good(y) BY <1>2, SendTCSIfIdlePlain
<1>5. \/ y = x
      \/ /\ x.local # "SetSent" /\ y.local = "SetSent"
         /\ Alters(x, y, {"local", "localSeq", "out"})
         /\ Gains(x, y, {SetOf(y.localSeq)})
  BY <1>2, SendTermCapMsgGains DEF SendTCSIfIdle
<1> HIDE DEF y
<1>6. CASE y = x BY <1>3, <1>4, <1>6 DEF Alters, y, x
<1>7. CASE /\ x.local # "SetSent" /\ y.local = "SetSent"
           /\ Alters(x, y, {"local", "localSeq", "out"})
           /\ Gains(x, y, {SetOf(y.localSeq)})
  <2>1. SetOf(y.localSeq).type = "TCS" BY DEF SetOf
  <2>2. c.out \in Seq(Message) BY <1>1, <1>3, EndpointFields
  <2>3. Gains(c, y, {m} \cup {SetOf(y.localSeq)})
    BY <1>1, <1>3, <1>7, <2>1, <2>2, GainsTwice
  <2>4. {m} \cup {SetOf(y.localSeq)} = {m, SetOf(y.localSeq)} OBVIOUS
  <2>5. Alters(c, y, {"remote", "remoteSeq", "local", "localSeq", "out"})
    BY <1>3, <1>7 DEF Alters
  <2> QED BY <1>3, <1>4, <1>7, <2>3, <2>4, <2>5 DEF y, x
<1> QED BY <1>5, <1>6, <1>7

-----------------------------------------------------------------------------
(* The handlers                                                               *)

\* What has to do with channels has no part in the other two procedures.
LEMMA Elsewhere ==
  ASSUME NEW c, NEW d, NEW A, NEW B,
         Alters(c, d, {"chans", "nextNo", "cleared", "out", "olcTimers", "clcTimers"}),
         \A m \in A \cup B : m.type \notin {"TCS", "TCSAck", "TCSReject",
                                            "MSD", "MSDAck", "MSDReject"}
  PROVE  /\ CapsOwn(c, d, A, B) /\ CapsAnswer(A, B)
         /\ RoleOwn(c, d, A, B) /\ RoleAnswer(A, B)
<1>1. /\ d.local = c.local /\ d.localSeq = c.localSeq
      /\ d.tcsTimers = c.tcsTimers /\ d.msdTimers = c.msdTimers
  BY DEF Alters, Fields
<1>2. /\ A \cap Sets = {} /\ A \cap SetAnswers = {} /\ A \cap Requests = {}
      /\ B \cap Sets = {} /\ B \cap SetAnswers = {} /\ B \cap Requests = {}
      /\ B \cap Answers = {}
  BY DEF Sets, SetAnswers, Requests, Answers, Of
<1> QED BY <1>1, <1>2 DEF CapsOwn, CapsAnswer, RoleOwn, RoleAnswer

\* What has to do with neither offers nor their answers.
LEMMA NoOffer ==
  ASSUME NEW c, NEW d, d.olcTimers \subseteq c.olcTimers, NEW A, NEW B,
         \A m \in B : m.type \notin {"OLC", "OLCAck", "OLCReject"}
  PROVE  OfferOwn(c, d, B) /\ OfferAnswer(A, B)
<1>1. \A no : B \cap OfferOf(no) = {} /\ B \cap OfferAnswers(no) = {}
  BY DEF OfferOf, OfferAnswers, Of
<1> QED BY <1>1 DEF OfferOwn, OfferAnswer

\* An offer that is read is answered.
LEMMA OfferAnswered ==
  ASSUME NEW m \in Message, m.type = "OLC", NEW c, NEW d, d.olcTimers = c.olcTimers,
         NEW A, NEW r \in A, r \in Message, r.type \in {"OLCAck", "OLCReject"}, r.no = m.no
  PROVE  OfferOwn(c, d, {m}) /\ OfferAnswer(A, {m})
<1>1. \A no : {m} \cap OfferAnswers(no) = {} BY DEF OfferAnswers, Of
<1>2. \A no : {m} \cap OfferOf(no) # {} => r \in OfferAnswers(no)
  BY DEF OfferOf, OfferAnswers, Of
<1> QED BY <1>1, <1>2 DEF OfferOwn, OfferAnswer

\* The other end proposes a channel.
LEMMA OnOpenLogicalChannelEffect ==
  ASSUME NEW c, Good(c), NEW m \in Message, m.type = "OLC", NEW able
  PROVE  \E A : Effect(c, OnOpenLogicalChannel(c, m.no, m.media, able), A, {m})
<1> DEFINE k == [type |-> "OLCAck", no |-> m.no]
           j == [type |-> "OLCReject", no |-> m.no]
           a == AddChannel(c, m.no, "receive", m.media, "ESTABLISHED")
           x == Enqueue(a, k)
           r == [no |-> m.no, dir |-> "receive", media |-> m.media,
                 state |-> "ESTABLISHED"]
           d == OnOpenLogicalChannel(c, m.no, m.media, able)
<1>1. /\ c \in Endpoint /\ DOMAIN c = Fields /\ c.chans \in Seq(Channel)
      /\ c.out \in Seq(Message)
  BY EndpointFields DEF Good
<1>2. m.no \in Nat /\ m.media \in MediaKinds BY DEF Message
<1>3. k \in Message /\ j \in Message BY <1>2 DEF Message
<1>4. d = IF <<"receive", m.media>> \notin able THEN Enqueue(c, j)
          ELSE IF c.msd = "Slave" THEN OpenLogicalChannel(x, m.media, able) ELSE x
  <2>1. x.msd = c.msd BY DEF Enqueue, AddChannel
  <2> QED BY <2>1 DEF OnOpenLogicalChannel
<1>5. k.type = "OLCAck" /\ k.no = m.no /\ j.type = "OLCReject" /\ j.no = m.no
  OBVIOUS
<1>6. Good(a) BY <1>2, AddReceivePlain
<1>7. r \in Channel /\ r.dir = "receive" /\ r.no = m.no /\ r.media = m.media
  BY <1>2 DEF Channel
<1>8. a.chans = Append(c.chans, r) /\ Alters(c, a, {"chans"})
  BY <1>1 DEF AddChannel, Fields, Alters
<1>9. m \in {m} \cap Of({"OLC"}) BY DEF Of
<1> HIDE DEF k, j, r, a
<1>10. Good(x) /\ Alters(a, x, {"out"}) /\ Gains(a, x, {k})
  BY <1>3, <1>6, EnqueueGood, EnqueueGains DEF Good
<1> HIDE DEF x, d
<1>11. /\ Alters(c, x, {"chans", "out"}) /\ Gains(c, x, {k})
       /\ x.chans = Append(c.chans, r) /\ x.nextNo = c.nextNo /\ x.msd = c.msd
       /\ x.olcTimers = c.olcTimers
  <2>1. a.out = c.out BY <1>8 DEF Alters, Fields
  <2> QED BY <1>8, <1>10, <2>1 DEF Alters, Fields, Gains
<1>12. /\ Held(x) = Held(c) \cup {<<"receive", m.no, m.media>>}
       /\ Once(c) /\ ~ Holds(c, "receive", m.media) => Once(x)
  BY <1>1, <1>7, <1>11, AppendListed DEF Held, Once, Holds
<1>13. {k} \cap Of({"OLC", "CLC"}) = {} /\ {j} \cap Of({"OLC", "CLC"}) = {}
  BY <1>5 DEF Of
<1>14. CASE d = Enqueue(c, j)
  <2>1. Alters(c, d, {"out"}) /\ Gains(c, d, {j}) BY <1>1, <1>3, <1>14, EnqueueGains
  <2>2. Alters(c, d, {"chans", "nextNo", "cleared", "out", "olcTimers", "clcTimers"})
    BY <2>1 DEF Alters
  <2>3. d.chans = c.chans /\ d.nextNo = c.nextNo /\ d.olcTimers = c.olcTimers
    BY <2>1 DEF Alters, Fields
  <2>4. Stays(c, d, {j}) BY <1>13, <2>3, StaysAsItWas
  <2>5. /\ CapsOwn(c, d, {j}, {m}) /\ CapsAnswer({j}, {m})
        /\ RoleOwn(c, d, {j}, {m}) /\ RoleAnswer({j}, {m})
    BY <1>5, <2>2, Elsewhere
  <2>6. OfferOwn(c, d, {m}) /\ OfferAnswer({j}, {m})
    BY <1>3, <1>5, <2>3, OfferAnswered
  <2> QED BY <2>1, <2>4, <2>5, <2>6 DEF Effect, ListEffect, d
<1>15. ASSUME \/ d = x /\ c.msd # "Slave"
              \/ d.cleared /\ Alters(x, d, {"cleared"}) /\ Gains(x, d, {})
       PROVE  Effect(c, d, {k}, {m})
  <2>1. /\ Alters(c, d, {"chans", "nextNo", "cleared", "out", "olcTimers", "clcTimers"})
        /\ d.chans = x.chans /\ d.nextNo = c.nextNo /\ d.olcTimers = c.olcTimers
        /\ d.msd = c.msd
    BY <1>11, <1>15 DEF Alters, Fields
  <2>2. Gains(c, d, {k})
    <3>1. CASE d = x BY <1>11, <3>1
    <3>2. CASE Gains(x, d, {})
      <4>1. {k} \cap {} = {} /\ {k} \cup {} = {k} OBVIOUS
      <4>2. Gains(c, d, {k} \cup {}) BY <1>1, <1>11, <3>2, <4>1, GainsTwice
      <4> QED BY <4>1, <4>2
    <3> QED BY <1>15, <3>1, <3>2
  <2>3. Accepts(c, d, {k}, {m})
    BY <1>9, <1>12, <1>13, <1>15, <2>1 DEF Accepts, Held, Once
  <2>4. /\ CapsOwn(c, d, {k}, {m}) /\ CapsAnswer({k}, {m})
        /\ RoleOwn(c, d, {k}, {m}) /\ RoleAnswer({k}, {m})
    BY <1>5, <2>1, Elsewhere
  <2>5. OfferOwn(c, d, {m}) /\ OfferAnswer({k}, {m})
    BY <1>3, <1>5, <2>1, OfferAnswered
  <2> QED BY <2>2, <2>3, <2>4, <2>5 DEF Effect, ListEffect
<1>16. CASE d = x /\ c.msd # "Slave" BY <1>15, <1>16 DEF d
<1>17. CASE c.msd = "Slave" /\ d = OpenLogicalChannel(x, m.media, able)
  <2> DEFINE o == OfferMsg(x.nextNo, m.media)
  <2>1. \/ d.cleared /\ Alters(x, d, {"cleared"}) /\ Gains(x, d, {})
        \/ /\ Alters(x, d, {"chans", "nextNo", "out"})
           /\ d.nextNo = x.nextNo + 1
           /\ Held(d) = Held(x) \cup {<<"transmit", x.nextNo, m.media>>}
           /\ Once(x) /\ ~ Holds(x, "transmit", m.media) => Once(d)
           /\ Gains(x, d, {o})
           /\ o \in Message
    BY <1>2, <1>10, <1>17, OpenLogicalChannelGains
  <2>2. o.type = "OLC" /\ o = OfferMsg(c.nextNo, m.media) BY <1>11 DEF OfferMsg
  <2> HIDE DEF o
  <2>3. CASE /\ Alters(x, d, {"chans", "nextNo", "out"})
             /\ d.nextNo = x.nextNo + 1
             /\ Held(d) = Held(x) \cup {<<"transmit", x.nextNo, m.media>>}
             /\ Once(x) /\ ~ Holds(x, "transmit", m.media) => Once(d)
             /\ Gains(x, d, {o})
             /\ o \in Message
    <3> DEFINE A == {k, o}
    <3>1. /\ Alters(c, d, {"chans", "nextNo", "cleared", "out", "olcTimers", "clcTimers"})
          /\ d.msd = "Slave" /\ d.olcTimers = c.olcTimers /\ d.nextNo = c.nextNo + 1
      BY <1>11, <1>17, <2>3 DEF Alters, Fields
    <3>2. Gains(c, d, {k} \cup {o}) /\ {k} \cup {o} = A
      BY <1>1, <1>5, <1>11, <2>2, <2>3, GainsTwice
    <3>3. A \cap Of({"OLC"}) = {o} /\ A \cap Closings = {} /\ A \cap Acks = {}
      BY <1>3, <1>5, <2>2, <2>3 DEF Of, Closings, Acks
    <3>4. ~ Holds(c, "transmit", m.media) => ~ Holds(x, "transmit", m.media)
      BY <1>12 DEF Holds
    <3>5. Held(d) = Held(c) \cup {<<"receive", m.no, m.media>>,
                                  <<"transmit", c.nextNo, m.media>>}
      BY <1>11, <1>12, <2>3
    <3>6. Follows(c, d, A, {m})
      BY <1>9, <1>12, <1>17, <2>2, <2>3, <3>1, <3>3, <3>4, <3>5 DEF Follows
    <3>7. /\ CapsOwn(c, d, A, {m}) /\ CapsAnswer(A, {m})
          /\ RoleOwn(c, d, A, {m}) /\ RoleAnswer(A, {m})
      <4>1. \A n \in A \cup {m} : n.type \notin {"TCS", "TCSAck", "TCSReject",
                                                 "MSD", "MSDAck", "MSDReject"}
        BY <1>5, <2>2
      <4> QED BY <3>1, <4>1, Elsewhere
    <3>8. OfferOwn(c, d, {m}) /\ OfferAnswer(A, {m})
      <4>1. k \in A OBVIOUS
      <4> QED BY <1>3, <1>5, <3>1, <4>1, OfferAnswered
    <3> QED BY <3>2, <3>6, <3>7, <3>8 DEF Effect, ListEffect, d
  <2> QED BY <1>15, <2>1, <2>3 DEF d
<1> QED BY <1>4, <1>14, <1>16, <1>17

\* An end that lists its channels with other states lists the same channels.
LEMMA SameListed ==
  ASSUME NEW s, NEW t, DOMAIN t = DOMAIN s,
         \A i \in DOMAIN s :
           t[i].dir = s[i].dir /\ t[i].no = s[i].no /\ t[i].media = s[i].media
  PROVE  Listed(t) = Listed(s) /\ (OnceIn(s) => OnceIn(t))
BY DEF Listed, OnceIn

\* Nothing is queued, and of the channels only their states are touched.
LEMMA SilentEffect ==
  ASSUME NEW c, Good(c), NEW d,
         Alters(c, d, {"chans", "cleared", "olcTimers", "clcTimers"}),
         Held(d) = Held(c), Once(c) => Once(d), NEW B,
         \A m \in B : m.type \notin {"TCS", "TCSAck", "TCSReject",
                                     "MSD", "MSDAck", "MSDReject", "OLC"},
         OfferOwn(c, d, B)
  PROVE  Effect(c, d, {}, B)
<1>1. d.out = c.out /\ d.nextNo = c.nextNo BY DEF Alters, Fields
<1>2. Gains(c, d, {}) BY <1>1, GainsNothing, EndpointFields DEF Good
<1>3. Alters(c, d, {"chans", "nextNo", "cleared", "out", "olcTimers", "clcTimers"})
  BY DEF Alters
<1>4. \A m \in {} \cup B : m.type \notin {"TCS", "TCSAck", "TCSReject",
                                          "MSD", "MSDAck", "MSDReject"}
  OBVIOUS
<1>5. Stays(c, d, {}) BY <1>1 DEF Stays
<1>6. \A no : B \cap OfferOf(no) = {} BY DEF OfferOf, Of
<1> QED BY <1>2, <1>3, <1>4, <1>5, <1>6, Elsewhere DEF Effect, ListEffect, OfferAnswer

\* A channel of this end is accepted.
LEMMA OnOpenLogicalChannelAckEffect ==
  ASSUME NEW c, Good(c), NEW m \in Message, m.type = "OLCAck"
  PROVE  Effect(c, OnOpenLogicalChannelAck(c, m.no), {}, {m})
<1> DEFINE S == c.olcTimers \ {m.no}
           h == [c EXCEPT !.olcTimers = S]
           i == FindChannel(c, m.no)
           s == [c.chans EXCEPT ![i].state = "ESTABLISHED"]
           d == OnOpenLogicalChannelAck(c, m.no)
<1>1. /\ c \in Endpoint /\ DOMAIN c = Fields /\ c.chans \in Seq(Channel)
  BY EndpointFields DEF Good
<1>2. \/ Numbered(c, m.no) = {} /\ d = h
      \/ Numbered(c, m.no) # {} /\ d = [h EXCEPT !.chans = s]
  <2>1. h.chans = c.chans OBVIOUS
  <2> QED BY <1>1, <2>1 DEF OnOpenLogicalChannelAck, Fields
<1>3. h.olcTimers = S /\ h.chans = c.chans /\ Alters(c, h, {"olcTimers"})
      /\ DOMAIN h = Fields
  BY <1>1 DEF Fields, Alters
<1>4. /\ \A k \in DOMAIN c.chans :
           s[k].dir = c.chans[k].dir /\ s[k].no = c.chans[k].no
           /\ s[k].media = c.chans[k].media
      /\ DOMAIN s = DOMAIN c.chans
  <2>1. \A k \in DOMAIN c.chans : c.chans[k] \in Channel BY <1>1
  <2>2. \A k \in DOMAIN c.chans :
          s[k] = IF k = i THEN [c.chans[k] EXCEPT !.state = "ESTABLISHED"] ELSE c.chans[k]
    OBVIOUS
  <2>3. \A x \in Channel : LET y == [x EXCEPT !.state = "ESTABLISHED"]
                           IN y.dir = x.dir /\ y.no = x.no /\ y.media = x.media
    BY DEF Channel
  <2>4. DOMAIN s = DOMAIN c.chans OBVIOUS
  <2> HIDE DEF s, i
  <2> QED BY <2>1, <2>2, <2>3, <2>4
<1>5. Listed(s) = Listed(c.chans) /\ (OnceIn(c.chans) => OnceIn(s))
  BY <1>4, SameListed
<1> HIDE DEF s, i, h
<1>6. /\ Alters(c, d, {"chans", "cleared", "olcTimers", "clcTimers"})
      /\ d.olcTimers = S /\ Held(d) = Held(c) /\ (Once(c) => Once(d))
  <2>1. CASE d = h
    <3>1. Alters(c, h, {"chans", "cleared", "olcTimers", "clcTimers"})
      BY <1>3 DEF Alters
    <3> QED BY <1>3, <2>1, <3>1 DEF Held, Once
  <2>2. CASE d = [h EXCEPT !.chans = s]
    <3>1. d.chans = s /\ d.olcTimers = S /\ Alters(h, d, {"chans"})
      BY <1>3, <2>2 DEF Fields, Alters
    <3>2. Alters(c, d, {"chans", "cleared", "olcTimers", "clcTimers"})
      BY <1>3, <3>1 DEF Alters
    <3> QED BY <1>5, <3>1, <3>2 DEF Held, Once
  <2> QED BY <1>2, <2>1, <2>2
<1> HIDE DEF d
<1>7. OfferOwn(c, d, {m}) BY <1>6 DEF OfferOwn, OfferAnswers, Of
<1> QED BY <1>6, <1>7, SilentEffect DEF d

\* A channel of this end is refused: the call is cleared.
LEMMA OnOpenLogicalChannelRejectedEffect ==
  ASSUME NEW c, Good(c), NEW m \in Message, m.type = "OLCReject"
  PROVE  Effect(c, OnOpenLogicalChannelRejected(c, m.no), {}, {m})
<1> DEFINE S == c.olcTimers \ {m.no}
           h == [c EXCEPT !.olcTimers = S]
           d == ClearCall(h)
<1>1. c \in Endpoint /\ DOMAIN c = Fields BY EndpointFields DEF Good
<1>2. /\ OnOpenLogicalChannelRejected(c, m.no) = d
      /\ d.olcTimers = S /\ d.chans = c.chans
      /\ Alters(c, d, {"chans", "cleared", "olcTimers", "clcTimers"})
  BY <1>1 DEF OnOpenLogicalChannelRejected, ClearCall, Fields, Alters
<1> HIDE DEF d
<1>3. OfferOwn(c, d, {m}) BY <1>2 DEF OfferOwn, OfferAnswers, Of
<1> QED BY <1>2, <1>3, SilentEffect DEF Held, Once

\* The acknowledgement of a closed channel is heard.
LEMMA OnCloseLogicalChannelAckEffect ==
  ASSUME NEW c, Good(c), NEW m \in Message, m.type = "CLCAck"
  PROVE  Effect(c, OnCloseLogicalChannelAck(c, m.no), {}, {m})
<1> DEFINE d == OnCloseLogicalChannelAck(c, m.no)
<1>1. c \in Endpoint /\ DOMAIN c = Fields BY EndpointFields DEF Good
<1>2. /\ d.olcTimers = c.olcTimers /\ d.chans = c.chans
      /\ Alters(c, d, {"chans", "cleared", "olcTimers", "clcTimers"})
  BY <1>1 DEF OnCloseLogicalChannelAck, Fields, Alters
<1> HIDE DEF d
<1>3. OfferOwn(c, d, {m}) BY <1>2 DEF OfferOwn, OfferAnswers, Of
<1> QED BY <1>2, <1>3, SilentEffect DEF Held, Once, d

\* The notice that a timer of the peer ran out changes nothing.
LEMMA ReleaseEffect ==
  ASSUME NEW c, Good(c), NEW m \in Message, m.type \in {"TCSRelease", "MSDRelease"}
  PROVE  Effect(c, c, {}, {m})
<1>1. OfferOwn(c, c, {m}) BY DEF OfferOwn, OfferAnswers, Of
<1> QED BY <1>1, SilentEffect DEF Alters

\* The other end closes a channel.
LEMMA OnCloseLogicalChannelEffect ==
  ASSUME NEW c, Good(c), NEW m \in Message, m.type = "CLC"
  PROVE  \E A : Effect(c, OnCloseLogicalChannel(c, m.no), A, {m})
<1> DEFINE x == ClearLogicalChannel(c, m.no)
           k == [type |-> "CLCAck", no |-> m.no]
           d == Enqueue(x, k)
<1>1. m.no \in Nat /\ m \in Closings BY DEF Message, Closings, Of
<1>2. k \in Message /\ k.type = "CLCAck" BY <1>1 DEF Message
<1>3. OnCloseLogicalChannel(c, m.no) = d BY DEF OnCloseLogicalChannel
<1> HIDE DEF k
<1>4. /\ Alters(c, x, {"chans"}) /\ Held(x) \subseteq Held(c) /\ (Once(c) => Once(x))
      /\ Good(x)
  BY ClearLogicalChannelGains, ClearLogicalChannelPlain
<1> HIDE DEF x
<1>5. Alters(x, d, {"out"}) /\ Gains(x, d, {k}) BY <1>2, <1>4, EnqueueGains DEF Good
<1> HIDE DEF d
<1>6. /\ Alters(c, d, {"chans", "nextNo", "cleared", "out", "olcTimers", "clcTimers"})
      /\ x.out = c.out /\ d.chans = x.chans /\ d.nextNo = c.nextNo
      /\ d.olcTimers = c.olcTimers
  BY <1>4, <1>5 DEF Alters, Fields
<1>7. Gains(c, d, {k}) BY <1>5, <1>6 DEF Gains
<1>8. {k} \cap Of({"OLC"}) = {} /\ {k} \cap Closings = {} BY <1>2 DEF Of, Closings
<1>9. Drops(c, d, {k}, {m}) BY <1>1, <1>4, <1>6, <1>8 DEF Drops, Held, Once
<1>10. /\ CapsOwn(c, d, {k}, {m}) /\ CapsAnswer({k}, {m})
       /\ RoleOwn(c, d, {k}, {m}) /\ RoleAnswer({k}, {m})
  BY <1>2, <1>6, Elsewhere
<1>11. OfferOwn(c, d, {m}) /\ OfferAnswer({k}, {m}) BY <1>6, NoOffer
<1> QED BY <1>3, <1>7, <1>9, <1>10, <1>11 DEF Effect, ListEffect

\* An end that is ready opens its channels after what it did about the message.
LEMMA ThenOpens ==
  ASSUME NEW c, Good(c), NEW y, Good(y), y.chans = c.chans, y.nextNo = c.nextNo,
         NEW A, A \cap Of({"OLC", "CLC"}) = {}, A \cap Acks = {}, NEW B, B # {},
         Effect(c, y, A, B), NEW able
  PROVE  \E Z : Effect(c, OpenIfReady(y, able), Z, B)
<1> DEFINE d == OpenIfReady(y, able)
<1>1. c.out \in Seq(Message) BY EndpointFields DEF Good
<1>2. /\ Alters(y, d, {"chans", "nextNo", "cleared", "out"})
      /\ \/ (d.cleared \/ d = y) /\ Alters(y, d, {"cleared"}) /\ Gains(y, d, {})
         \/ /\ OpensAll(d)
            /\ \E O : O \subseteq Of({"OLC"}) /\ Gains(y, d, O) /\ Opens(y, d, O)
  BY OpenIfReadyGains
<1> HIDE DEF d
<1>3. /\ d.local = y.local /\ d.localSeq = y.localSeq /\ d.tcsTimers = y.tcsTimers
      /\ d.msdTimers = y.msdTimers /\ d.olcTimers = y.olcTimers /\ d.msd = y.msd
  BY <1>2 DEF Alters, Fields
<1>4. CASE d = y BY <1>4 DEF d
<1>5. CASE d.cleared /\ Alters(y, d, {"cleared"}) /\ Gains(y, d, {})
  <2>1. d.chans = c.chans /\ d.nextNo = c.nextNo BY <1>5 DEF Alters, Fields
  <2>2. A \cap {} = {} /\ A \cup {} = A OBVIOUS
  <2>3. Gains(c, d, A \cup {}) BY <1>1, <1>5, <2>2, GainsTwice DEF Effect
  <2>4. CapsOwn(c, d, A, B) /\ RoleOwn(c, d, A, B) BY <1>5 DEF CapsOwn, RoleOwn
  <2>5. OfferOwn(c, d, B) BY <1>3 DEF Effect, OfferOwn
  <2>6. Stays(c, d, A) BY <2>1, StaysAsItWas
  <2>7. Effect(c, d, A, B)
    BY <2>2, <2>3, <2>4, <2>5, <2>6 DEF Effect, ListEffect
  <2> QED BY <2>7 DEF d
<1>6. ASSUME NEW O, O \subseteq Of({"OLC"}), Gains(y, d, O), Opens(y, d, O), OpensAll(d)
      PROVE  Effect(c, d, A \cup O, B)
  <2> DEFINE Z == A \cup O
  <2>1. /\ O \cap Sets = {} /\ O \cap SetAnswers = {} /\ O \cap Requests = {}
        /\ O \cap Answers = {} /\ O \cap Closings = {} /\ A \cap Closings = {}
        /\ A \cap O = {} /\ Z \cap Of({"OLC"}) = O /\ Z \cap Acks = {}
    BY <1>6 DEF Acks, Sets, SetAnswers, Requests, Answers, Closings, Of
  <2>2. Gains(c, d, Z) BY <1>1, <1>6, <2>1, GainsTwice DEF Effect
  <2>3. /\ Z \cap Sets = A \cap Sets /\ Z \cap SetAnswers = A \cap SetAnswers
        /\ Z \cap Requests = A \cap Requests /\ Z \cap Answers = A \cap Answers
        /\ Z \cap Closings = {}
    BY <2>1
  <2>4. A \subseteq Z /\ \A media : Z \cap Offers(media) = O \cap Offers(media)
    BY <2>1 DEF Offers
  <2>5. Held(y) = Held(c) BY DEF Held
  <2> HIDE DEF Z
  <2>6. Opens(c, d, Z)
    <3>1. O \cap Of({"OLC"}) = O BY <1>6
    <3> QED BY <1>6, <2>1, <2>3, <2>4, <2>5, <3>1 DEF Opens
  <2>7. d.cleared \/ CapsOwn(c, d, Z, B)
    <3>1. CASE y.cleared
      <4>1. d.cleared BY <3>1, OpenIfReadyPlain DEF Plain, Silent, Extends, d
      <4> QED BY <4>1
    <3>2. CASE ~ y.cleared
      <4>1. CapsOwn(c, y, A, B) BY DEF Effect
      <4> QED BY <1>3, <2>3, <3>2, <4>1 DEF CapsOwn
    <3> QED BY <3>1, <3>2
  <2>8. d.cleared \/ RoleOwn(c, d, Z, B)
    <3>1. CASE y.cleared
      <4>1. d.cleared BY <3>1, OpenIfReadyPlain DEF Plain, Silent, Extends, d
      <4> QED BY <4>1
    <3>2. CASE ~ y.cleared
      <4>1. RoleOwn(c, y, A, B) BY DEF Effect
      <4> QED BY <1>3, <2>3, <3>2, <4>1 DEF RoleOwn
    <3> QED BY <3>1, <3>2
  <2>9. CapsOwn(c, d, Z, B) /\ RoleOwn(c, d, Z, B)
    BY <2>7, <2>8 DEF CapsOwn, RoleOwn
  <2>10. CapsAnswer(Z, B) /\ RoleAnswer(Z, B)
    BY <2>3 DEF Effect, CapsAnswer, RoleAnswer
  <2>11. OfferOwn(c, d, B) /\ OfferAnswer(Z, B)
    BY <1>3, <2>4 DEF Effect, OfferOwn, OfferAnswer
  <2> QED BY <1>6, <2>2, <2>6, <2>9, <2>10, <2>11 DEF Effect, ListEffect, Z
<1> QED BY <1>2, <1>4, <1>5, <1>6 DEF d

\* What has to do with the two first procedures leaves the channels alone.
LEMMA NoChannel ==
  ASSUME NEW c, NEW d, d.chans = c.chans, d.nextNo = c.nextNo,
         d.olcTimers = c.olcTimers, NEW A, NEW B,
         \A m \in A \cup B : m.type \notin {"OLC", "OLCAck", "OLCReject", "CLC"}
  PROVE  OfferOwn(c, d, B) /\ OfferAnswer(A, B) /\ Stays(c, d, A)
<1>1. A \cap Of({"OLC", "CLC"}) = {} BY DEF Of
<1> QED BY <1>1, NoOffer, StaysAsItWas

\* The other end's capability set.
LEMMA OnReceivedTerminalCapabilitySetEffect ==
  ASSUME NEW c, Good(c), NEW m \in Message, m.type = "TCS", NEW num \in Numbers, NEW able
  PROVE  \E A : Effect(c, OnReceivedTerminalCapabilitySet(c, m.seq, num, able), A, {m})
<1> DEFINE d == OnReceivedTerminalCapabilitySet(c, m.seq, num, able)
           k == [type |-> "TCSAck"]
           j == [type |-> "TCSReject", seq |-> m.seq]
           h1 == [c EXCEPT !.remote = "Idle"]
           h2 == [c EXCEPT !.remoteSeq = m.seq, !.remote = "AckSent"]
           y1 == SendTCSIfIdle(Enqueue(h1, j))
           y2 == SendTCSIfIdle(Enqueue(h2, k))
           mine == SendMasterSlaveDetermination(y2, num, TRUE)
<1>1. c \in Endpoint /\ DOMAIN c = Fields /\ c.out \in Seq(Message)
  BY EndpointFields DEF Good
<1>2. m.seq \in Nat BY DEF Message
<1>3. /\ k \in Message /\ j \in Message /\ k.type = "TCSAck" /\ j.type = "TCSReject"
      /\ j.seq = m.seq
  BY <1>2 DEF Message
<1>4. d = IF c.remoteSeq >= m.seq THEN y1
          ELSE IF y2.local = "AckRecvd" /\ y2.msd = "Idle" THEN mine
               ELSE OpenIfReady(y2, able)
  BY DEF OnReceivedTerminalCapabilitySet, AcceptTermCap
<1>5. Alters(c, h1, {"remote", "remoteSeq"}) /\ Alters(c, h2, {"remote", "remoteSeq"})
  BY <1>1 DEF Alters, Fields
<1>6. Good(h1) /\ Good(h2)
  <2>1. h1 \in Endpoint /\ h2 \in Endpoint BY <1>1, <1>2, ZenonT(30) DEF Endpoint
  <2>2. h1.chans = c.chans /\ h1.nextNo = c.nextNo /\ h2.chans = c.chans
        /\ h2.nextNo = c.nextNo
    BY <1>5 DEF Alters, Fields
  <2> HIDE DEF h1, h2
  <2> QED BY <2>1, <2>2, SameNumbering DEF Good
<1>7. k \in SetAnswers /\ j \in SetAnswers BY <1>3 DEF SetAnswers, Of
<1> HIDE DEF k, j, h1, h2
<1> DEFINE Replies(y, r) ==
             /\ Good(y)
             /\ Alters(c, y, {"remote", "remoteSeq", "local", "localSeq", "out"})
             /\ \/ /\ y.local = c.local /\ y.localSeq = c.localSeq
                   /\ Gains(c, y, {r})
                \/ /\ c.local # "SetSent" /\ y.local = "SetSent"
                   /\ Gains(c, y, {r, SetOf(y.localSeq)})
<1>8. Replies(y1, j) /\ Replies(y2, k) BY <1>5, <1>6, <1>7, ReplyGains
<1> HIDE DEF y1, y2
<1>9. \A seq : SetOf(seq).type = "TCS" BY DEF SetOf
<1>10. {m} \cap Sets = {m} /\ {m} \cap SetAnswers = {} /\ {m} \cap Answers = {}
       /\ {m} \cap Requests = {}
  BY DEF Sets, SetAnswers, Answers, Requests, Of
<1>11. ASSUME NEW y, NEW r \in SetAnswers, Replies(y, r),
              r.type = "TCSReject" => r.seq = m.seq, NEW z, Gains(y, z, {}),
              Alters(y, z, {"msd", "num"})
       PROVE  \E A : /\ Effect(c, z, A, {m})
                     /\ \A n \in A : n.type \in {"TCS", "TCSAck", "TCSReject"}
  <2>1. /\ z.chans = c.chans /\ z.nextNo = c.nextNo /\ z.olcTimers = c.olcTimers
        /\ z.msdTimers = c.msdTimers /\ z.tcsTimers = c.tcsTimers
        /\ z.local = y.local /\ z.localSeq = y.localSeq /\ z.out = y.out
    BY <1>11 DEF Alters, Fields
  <2>2. r.type \in {"TCSAck", "TCSReject"} BY DEF SetAnswers, Of
  <2>3. \E A : /\ Gains(c, z, A) /\ \A n \in A : n.type \in {"TCS", "TCSAck", "TCSReject"}
               /\ A \cap SetAnswers = {r}
               /\ \/ z.local = c.local /\ z.localSeq = c.localSeq /\ A \cap Sets = {}
                  \/ /\ c.local # "SetSent" /\ z.local = "SetSent"
                     /\ A \cap Sets = {SetOf(z.localSeq)}
    <3>1. CASE y.local = c.local /\ y.localSeq = c.localSeq /\ Gains(c, y, {r})
      <4>1. Gains(c, z, {r}) BY <2>1, <3>1 DEF Gains
      <4>2. {r} \cap Sets = {} BY <2>2 DEF Sets, Of
      <4> QED BY <2>1, <2>2, <3>1, <4>1, <4>2
    <3>2. CASE /\ c.local # "SetSent" /\ y.local = "SetSent"
               /\ Gains(c, y, {r, SetOf(y.localSeq)})
      <4>1. Gains(c, z, {r, SetOf(z.localSeq)}) BY <2>1, <3>2 DEF Gains
      <4>2. {r, SetOf(z.localSeq)} \cap SetAnswers = {r}
        BY <1>9 DEF SetAnswers, Of
      <4>3. SetOf(z.localSeq) \in Message
        <5>1. y \in Endpoint BY <1>11 DEF Good
        <5>2. y.localSeq \in Nat BY <5>1, EndpointFields
        <5> QED BY <2>1, <5>2 DEF SetOf, Message
      <4>4. {r, SetOf(z.localSeq)} \cap Sets = {SetOf(z.localSeq)}
        BY <1>9, <2>2, <4>3 DEF Sets, Of
      <4>5. \A n \in {r, SetOf(z.localSeq)} : n.type \in {"TCS", "TCSAck", "TCSReject"}
        BY <1>9, <2>2
      <4> QED BY <2>1, <3>2, <4>1, <4>2, <4>4, <4>5
    <3> QED BY <1>11, <3>1, <3>2
  <2>4. PICK A :
          /\ Gains(c, z, A) /\ \A n \in A : n.type \in {"TCS", "TCSAck", "TCSReject"}
          /\ A \cap SetAnswers = {r}
          /\ \/ z.local = c.local /\ z.localSeq = c.localSeq /\ A \cap Sets = {}
             \/ /\ c.local # "SetSent" /\ z.local = "SetSent"
                /\ A \cap Sets = {SetOf(z.localSeq)}
    BY <2>3
  <2>5. CapsOwn(c, z, A, {m}) BY <1>10, <2>1, <2>4 DEF CapsOwn
  <2>6. CapsAnswer(A, {m}) BY <1>10, <1>11, <2>4 DEF CapsAnswer
  <2>7. A \cap Requests = {} /\ A \cap Of({"OLC", "CLC"}) = {}
    BY <2>4 DEF Requests, Of
  <2>8. RoleOwn(c, z, A, {m}) /\ RoleAnswer(A, {m})
    BY <1>10, <2>1, <2>7 DEF RoleOwn, RoleAnswer
  <2>9. \A n \in A \cup {m} : n.type \notin {"OLC", "OLCAck", "OLCReject", "CLC"}
    BY <2>4
  <2>10. OfferOwn(c, z, {m}) /\ OfferAnswer(A, {m}) /\ Stays(c, z, A)
    BY <2>1, <2>9, NoChannel
  <2> QED BY <2>4, <2>5, <2>6, <2>7, <2>8, <2>10 DEF Effect, ListEffect
<1>12. \A y : Good(y) => Gains(y, y, {}) /\ Alters(y, y, {"msd", "num"})
  BY GainsNothing, EndpointFields DEF Good, Alters
<1>13. CASE c.remoteSeq >= m.seq
  <2>1. d = y1 BY <1>4, <1>13
  <2> HIDE DEF d
  <2>2. \E A : Effect(c, y1, A, {m}) BY <1>3, <1>7, <1>8, <1>11, <1>12
  <2> QED BY <2>1, <2>2 DEF d
<1>14. PICK A : /\ Effect(c, y2, A, {m})
                /\ \A n \in A : n.type \in {"TCS", "TCSAck", "TCSReject"}
  BY <1>3, <1>7, <1>8, <1>11, <1>12
<1>15. /\ y2.chans = c.chans /\ y2.nextNo = c.nextNo /\ y2.msd = c.msd
       /\ y2.olcTimers = c.olcTimers /\ y2.cleared = c.cleared /\ Good(y2)
  BY <1>8 DEF Alters, Fields
<1>16. CASE d = OpenIfReady(y2, able)
  <2>1. A \cap Of({"OLC", "CLC"}) = {} BY <1>14 DEF Of
  <2>2. A \cap Acks = {} BY <1>14 DEF Acks, Of
  <2>3. \E Z : Effect(c, OpenIfReady(y2, able), Z, {m})
    BY <1>14, <1>15, <2>1, <2>2, ThenOpens
  <2> QED BY <1>16, <2>3
<1>17. CASE d = mine /\ y2.msd = "Idle"
  <2>1. \/ mine = y2
        \/ /\ y2.msd = "Idle" /\ mine.msd = "DetermineSent"
           /\ Alters(y2, mine, {"msd", "num", "out"})
           /\ Gains(y2, mine, {Request(mine)}) /\ Request(mine) \in Requests
    BY <1>15, SendMasterSlaveDeterminationGains
  <2> HIDE DEF mine, d
  <2>2. CASE mine = y2 BY <1>14, <1>17, <2>2 DEF d
  <2>3. CASE /\ mine.msd = "DetermineSent"
             /\ Alters(y2, mine, {"msd", "num", "out"})
             /\ Gains(y2, mine, {Request(mine)}) /\ Request(mine) \in Requests
    <3> DEFINE r == Request(mine)
               Z == A \cup {r}
    <3>1. r.type = "MSD" BY Kinds
    <3> HIDE DEF r
    <3>2. /\ mine.chans = c.chans /\ mine.nextNo = c.nextNo
          /\ mine.olcTimers = c.olcTimers /\ mine.cleared = y2.cleared
          /\ mine.msdTimers = y2.msdTimers /\ mine.tcsTimers = y2.tcsTimers
          /\ mine.local = y2.local /\ mine.localSeq = y2.localSeq
      BY <1>15, <2>3 DEF Alters, Fields
    <3>3. /\ Z \cap Sets = A \cap Sets /\ Z \cap SetAnswers = A \cap SetAnswers
          /\ Z \cap Of({"OLC", "CLC"}) = {}
      BY <1>14, <3>1 DEF Sets, SetAnswers, Of
    <3>4. CapsOwn(c, mine, Z, {m}) /\ CapsAnswer(Z, {m})
      BY <1>14, <3>2, <3>3 DEF Effect, CapsOwn, CapsAnswer
    <3>5. RoleOwn(c, mine, Z, {m}) /\ RoleAnswer(Z, {m})
      BY <1>10, <1>14, <1>15, <1>17, <3>2 DEF Effect, RoleOwn, RoleAnswer
    <3>6. OfferOwn(c, mine, {m}) /\ OfferAnswer(Z, {m})
      BY <3>2, NoOffer
    <3>7. Stays(c, mine, Z) BY <3>2, <3>3, StaysAsItWas
    <3>8. Gains(c, mine, Z)
      <4>1. A \cap {r} = {} BY <1>14, <3>1
      <4>2. Gains(c, y2, A) /\ Gains(y2, mine, {r}) BY <1>14, <2>3 DEF Effect, r
      <4> HIDE DEF Effect
      <4> QED BY <1>1, <4>1, <4>2, GainsTwice
    <3> QED BY <1>17, <3>4, <3>5, <3>6, <3>7, <3>8 DEF Effect, ListEffect, d
  <2> QED BY <1>17, <2>1, <2>2, <2>3
<1> QED BY <1>4, <1>13, <1>16, <1>17

\* An answer of the peer was heard: its timer is deleted, nothing is queued, and
\* at most the call is cleared.
LEMMA HeardEffect ==
  ASSUME NEW c, Good(c), NEW d, d.out = c.out, d.chans = c.chans, d.nextNo = c.nextNo,
         d.olcTimers = c.olcTimers, NEW m \in Message,
         m.type \in {"TCSAck", "TCSReject", "MSDAck", "MSDReject"},
         CapsOwn(c, d, {}, {m}), RoleOwn(c, d, {}, {m})
  PROVE  Effect(c, d, {}, {m})
<1>1. Gains(c, d, {}) BY GainsNothing, EndpointFields DEF Good
<1>2. {m} \cap Sets = {} /\ {m} \cap Requests = {} BY DEF Sets, Requests, Of
<1>3. CapsAnswer({}, {m}) /\ RoleAnswer({}, {m}) BY <1>2 DEF CapsAnswer, RoleAnswer
<1>4. OfferOwn(c, d, {m}) /\ OfferAnswer({}, {m}) /\ Stays(c, d, {})
  BY NoChannel
<1> QED BY <1>1, <1>3, <1>4 DEF Effect, ListEffect

\* The own set is acknowledged.
LEMMA OnReceivedTerminalCapabilitySetAckEffect ==
  ASSUME NEW c, Good(c), NEW m \in Message, m.type = "TCSAck", NEW able
  PROVE  \E A : Effect(c, OnReceivedTerminalCapabilitySetAck(c, able), A, {m})
<1> DEFINE n == DeleteTimer(c.tcsTimers)
           h == [c EXCEPT !.local = "AckRecvd", !.tcsTimers = n]
<1>1. c \in Endpoint /\ DOMAIN c = Fields /\ n \in Nat
  BY EndpointFields, DeleteTimerType DEF Good
<1>2. /\ h.tcsTimers = n /\ h.localSeq = c.localSeq /\ h.msdTimers = c.msdTimers
      /\ h.chans = c.chans /\ h.nextNo = c.nextNo /\ h.olcTimers = c.olcTimers
      /\ h.out = c.out
  BY <1>1 DEF Fields
<1>3. h \in Endpoint BY <1>1, ZenonT(30) DEF Endpoint
<1>4. OnReceivedTerminalCapabilitySetAck(c, able) = OpenIfReady(h, able)
  BY DEF OnReceivedTerminalCapabilitySetAck
<1> HIDE DEF h
<1>5. Good(h) BY <1>2, <1>3, SameNumbering DEF Good
<1>6. {m} \cap SetAnswers # {} /\ {m} \cap Answers = {}
  BY DEF SetAnswers, Answers, Of
<1>7. CapsOwn(c, h, {}, {m}) /\ RoleOwn(c, h, {}, {m})
  BY <1>2, <1>6 DEF CapsOwn, RoleOwn
<1>8. Effect(c, h, {}, {m}) BY <1>2, <1>7, HeardEffect
<1>9. \E Z : Effect(c, OpenIfReady(h, able), Z, {m}) BY <1>2, <1>5, <1>8, ThenOpens
<1> QED BY <1>4, <1>9

\* The own set, or one sent before it, is rejected.
LEMMA OnReceivedTerminalCapabilitySetRejectEffect ==
  ASSUME NEW c, Good(c), NEW m \in Message, m.type = "TCSReject"
  PROVE  Effect(c, OnReceivedTerminalCapabilitySetReject(c, m.seq), {}, {m})
<1> DEFINE h == [c EXCEPT !.tcsTimers = DeleteTimer(@)]
           d == ClearCall(h)
<1>1. DOMAIN c = Fields BY EndpointFields DEF Good
<1>2. /\ d.cleared /\ d.chans = c.chans /\ d.nextNo = c.nextNo
      /\ d.olcTimers = c.olcTimers /\ d.out = c.out
  BY <1>1 DEF Fields, ClearCall
<1>3. OnReceivedTerminalCapabilitySetReject(c, m.seq) =
        IF m.seq # c.localSeq THEN c ELSE d
  BY DEF OnReceivedTerminalCapabilitySetReject
<1> HIDE DEF d
<1>4. CASE m.seq # c.localSeq
  <2>1. CapsOwn(c, c, {}, {m}) BY <1>4 DEF CapsOwn
  <2>2. RoleOwn(c, c, {}, {m}) BY DEF RoleOwn, Answers, Of
  <2>3. Effect(c, c, {}, {m}) BY <2>1, <2>2, HeardEffect
  <2> QED BY <1>3, <1>4, <2>3
<1>5. CASE m.seq = c.localSeq
  <2>1. CapsOwn(c, d, {}, {m}) /\ RoleOwn(c, d, {}, {m})
    BY <1>2 DEF CapsOwn, RoleOwn
  <2>2. Effect(c, d, {}, {m}) BY <1>2, <2>1, HeardEffect
  <2> QED BY <1>3, <1>5, <2>2
<1> QED BY <1>4, <1>5

\* An answer of the determination is queued by an end that did nothing else to it.
LEMMA AnswerEffect ==
  ASSUME NEW c, Good(c), NEW h \in Endpoint,
         Alters(c, h, {"msd", "num", "msdTimers", "silent"}), NEW k \in Answers,
         NEW m \in Message, m.type \in {"MSD", "MSDAck"},
         m.type = "MSD" => h.msdTimers = c.msdTimers,
         m.type = "MSDAck" => h.msdTimers = DeleteTimer(c.msdTimers)
  PROVE  Effect(c, Enqueue(h, k), {k}, {m})
<1> DEFINE d == Enqueue(h, k)
<1>1. k \in Message /\ k.type \in {"MSDAck", "MSDReject"} BY DEF Answers, Of
<1>2. Alters(h, d, {"out"}) /\ Gains(h, d, {k}) BY <1>1, EnqueueGains
<1> HIDE DEF d
<1>3. /\ d.local = c.local /\ d.localSeq = c.localSeq /\ d.tcsTimers = c.tcsTimers
      /\ d.msdTimers = h.msdTimers /\ d.chans = c.chans /\ d.nextNo = c.nextNo
      /\ d.olcTimers = c.olcTimers /\ h.out = c.out
  BY <1>2 DEF Alters, Fields
<1>4. Gains(c, d, {k}) BY <1>2, <1>3 DEF Gains
<1>5. /\ {k} \cap Sets = {} /\ {k} \cap SetAnswers = {} /\ {k} \cap Requests = {}
      /\ {k} \cap Answers # {}
      /\ {m} \cap SetAnswers = {} /\ {m} \cap Sets = {}
      /\ m.type = "MSDAck" => {m} \cap Answers # {}
      /\ m.type = "MSD" => {m} \cap Answers = {}
  BY <1>1 DEF Sets, SetAnswers, Requests, Answers, Of
<1>6. CapsOwn(c, d, {k}, {m}) /\ CapsAnswer({k}, {m})
  BY <1>3, <1>5 DEF CapsOwn, CapsAnswer
<1>7. RoleOwn(c, d, {k}, {m}) /\ RoleAnswer({k}, {m})
  BY <1>3, <1>5 DEF RoleOwn, RoleAnswer
<1>8. \A n \in {k} \cup {m} : n.type \notin {"OLC", "OLCAck", "OLCReject", "CLC"}
  BY <1>1
<1>9. OfferOwn(c, d, {m}) /\ OfferAnswer({k}, {m}) /\ Stays(c, d, {k})
  BY <1>3, <1>8, NoChannel
<1> QED BY <1>4, <1>6, <1>7, <1>9 DEF Effect, ListEffect, d

\* The peer's request is answered or rejected.
LEMMA OnMasterSlaveDeterminationEffect ==
  ASSUME NEW c, Good(c), NEW m \in Message, m.type = "MSD", NEW num \in Numbers
  PROVE  \E A : Effect(c, OnMasterSlaveDetermination(c, m.term, m.num, num), A, {m})
<1> DEFINE own == OwnNumber(c, m.term, num)
           h == [c EXCEPT !.num = own]
           g == [h EXCEPT !.msd = "AckSent"]
           role == PeerRole(c.termType, own, m.term, m.num)
           d == OnMasterSlaveDetermination(c, m.term, m.num, num)
<1>1. c \in Endpoint /\ DOMAIN c = Fields BY EndpointFields DEF Good
<1>2. m.term \in Nat /\ m.num \in Numbers /\ c.termType \in Nat /\ own \in Numbers
  BY <1>1 DEF Message, Endpoint, OwnNumber
<1>3. d = IF role = "tie" THEN Enqueue(h, Reject) ELSE Enqueue(g, Ack(role))
  BY <1>1 DEF OnMasterSlaveDetermination, OwnNumber, SendAck, Reject, Ack
<1>4. role \in {"master", "slave", "tie"} BY <1>2, RolesAgree
<1> HIDE DEF own, role, d
<1>5. h \in Endpoint BY <1>1, <1>2, ZenonT(30) DEF Endpoint
<1>6. g \in Endpoint BY <1>5, ZenonT(30) DEF Endpoint
<1>7. /\ Alters(c, h, {"msd", "num", "msdTimers", "silent"})
      /\ Alters(c, g, {"msd", "num", "msdTimers", "silent"})
      /\ h.msdTimers = c.msdTimers /\ g.msdTimers = c.msdTimers
  BY <1>1 DEF Alters, Fields
<1> HIDE DEF h, g
<1>8. Reject \in Answers BY DEF Reject, Answers, Of, Message
<1>9. role # "tie" => Ack(role) \in Answers BY <1>4 DEF Ack, Answers, Of, Message
<1>10. Effect(c, Enqueue(h, Reject), {Reject}, {m}) BY <1>5, <1>7, <1>8, AnswerEffect
<1>11. role # "tie" => Effect(c, Enqueue(g, Ack(role)), {Ack(role)}, {m})
  BY <1>6, <1>7, <1>9, AnswerEffect
<1> QED BY <1>3, <1>10, <1>11 DEF d

\* The own request was answered.
LEMMA OnMasterSlaveAckEffect ==
  ASSUME NEW c, Good(c), NEW m \in Message, m.type = "MSDAck", NEW able
  PROVE  \E A : Effect(c, OnMasterSlaveAck(c, m.decision, able), A, {m})
<1> DEFINE r == RoleState(m.decision)
           n == DeleteTimer(c.msdTimers)
           h == [c EXCEPT !.msdTimers = n]
           g == [h EXCEPT !.msd = r]
           s == [h EXCEPT !.silent = m.decision = "master"]
           t == [s EXCEPT !.msd = r]
           k == Ack(Opposite(m.decision))
           d == OnMasterSlaveAck(c, m.decision, able)
<1>1. c \in Endpoint /\ DOMAIN c = Fields /\ n \in Nat
  BY EndpointFields, DeleteTimerType DEF Good
<1>2. m.decision \in Roles BY DEF Message, Roles
<1>3. /\ r \in {"Master", "Slave"} /\ Opposite(m.decision) \in Roles
  BY <1>2, OppositeRoles DEF Roles
<1>4. \/ d = OpenIfReady(g, able)
      \/ d = OpenIfReady(h, able)
      \/ d = Enqueue(t, k)
  BY DEF OnMasterSlaveAck, SendAck, Ack
<1>5. k \in Answers BY <1>3 DEF Ack, Answers, Of, Message, Roles
<1> HIDE DEF d, r, n, k
<1>6. h \in Endpoint BY <1>1, ZenonT(30) DEF Endpoint
<1>7. g \in Endpoint BY <1>3, <1>6, ZenonT(30) DEF Endpoint
<1>8. s \in Endpoint BY <1>6, ZenonT(30) DEF Endpoint
<1>9. t \in Endpoint BY <1>3, <1>8, ZenonT(30) DEF Endpoint
<1>10. /\ Alters(c, h, {"msd", "num", "msdTimers", "silent"}) /\ h.msdTimers = n
       /\ Alters(c, g, {"msd", "num", "msdTimers", "silent"}) /\ g.msdTimers = n
       /\ Alters(c, t, {"msd", "num", "msdTimers", "silent"}) /\ t.msdTimers = n
  BY <1>1 DEF Alters, Fields
<1> HIDE DEF h, g, s, t
<1>11. ASSUME NEW y \in Endpoint, Alters(c, y, {"msd", "num", "msdTimers", "silent"}),
              y.msdTimers = n
       PROVE  \E Z : Effect(c, OpenIfReady(y, able), Z, {m})
  <2>1. /\ y.local = c.local /\ y.localSeq = c.localSeq /\ y.tcsTimers = c.tcsTimers
        /\ y.chans = c.chans /\ y.nextNo = c.nextNo /\ y.olcTimers = c.olcTimers
        /\ y.out = c.out
    BY <1>11 DEF Alters, Fields
  <2>2. Good(y) BY <1>11, <2>1, SameNumbering DEF Good
  <2>3. {m} \cap Answers # {} /\ {m} \cap SetAnswers = {}
    BY DEF SetAnswers, Answers, Of
  <2>4. CapsOwn(c, y, {}, {m}) /\ RoleOwn(c, y, {}, {m})
    BY <1>11, <2>1, <2>3 DEF CapsOwn, RoleOwn, n
  <2>5. Effect(c, y, {}, {m}) BY <2>1, <2>4, HeardEffect
  <2> QED BY <2>1, <2>2, <2>5, ThenOpens
<1>12. Effect(c, Enqueue(t, k), {k}, {m}) BY <1>5, <1>9, <1>10, AnswerEffect DEF n
<1>13. CASE d = Enqueue(t, k) BY <1>12, <1>13 DEF d
<1>14. CASE d = OpenIfReady(g, able) BY <1>7, <1>10, <1>11, <1>14 DEF d
<1>15. CASE d = OpenIfReady(h, able) BY <1>6, <1>10, <1>11, <1>15 DEF d
<1> QED BY <1>4, <1>13, <1>14, <1>15

\* The own request was rejected: another is sent, or the call is cleared.
LEMMA OnMasterSlaveRejectEffect ==
  ASSUME NEW c, Good(c), NEW m \in Message, m.type = "MSDReject", NEW num \in Numbers
  PROVE  \E A : Effect(c, OnMasterSlaveReject(c, num), A, {m})
<1> DEFINE n == DeleteTimer(c.msdTimers)
           h == [c EXCEPT !.msdTimers = n]
           i == [h EXCEPT !.retries = @ + 1]
           g == [i EXCEPT !.msd = "Idle"]
           d == SendMasterSlaveDetermination(g, num, TRUE)
           e == ClearCall(h)
<1>1. c \in Endpoint /\ DOMAIN c = Fields /\ n \in Nat
  BY EndpointFields, DeleteTimerType DEF Good
<1>2. OnMasterSlaveReject(c, num) = IF c.retries < MaxRetries THEN d ELSE e
  BY DEF OnMasterSlaveReject
<1>3. {m} \cap Answers # {} /\ {m} \cap SetAnswers = {} /\ {m} \cap Sets = {}
      /\ {m} \cap Requests = {}
  BY DEF Answers, SetAnswers, Sets, Requests, Of
<1> HIDE DEF n
<1>4. h \in Endpoint BY <1>1, ZenonT(30) DEF Endpoint
<1>5. h.retries + 1 \in Nat BY <1>4 DEF Endpoint
<1>6. i \in Endpoint BY <1>4, <1>5, ZenonT(30) DEF Endpoint
<1>7. g \in Endpoint BY <1>6, ZenonT(30) DEF Endpoint
<1>8. Alters(c, g, {"msd", "msdTimers", "retries"}) /\ g.msdTimers = n /\ g.msd = "Idle"
  BY <1>1 DEF Alters, Fields
<1>9. /\ e.cleared /\ e.out = c.out /\ e.chans = c.chans /\ e.nextNo = c.nextNo
      /\ e.olcTimers = c.olcTimers
  BY <1>1 DEF ClearCall, Fields
<1> HIDE DEF g, e
<1>10. CASE OnMasterSlaveReject(c, num) = e
  <2>1. CapsOwn(c, e, {}, {m}) /\ RoleOwn(c, e, {}, {m}) BY <1>9 DEF CapsOwn, RoleOwn
  <2>2. Effect(c, e, {}, {m}) BY <1>9, <2>1, HeardEffect
  <2> QED BY <1>10, <2>2
<1>11. CASE OnMasterSlaveReject(c, num) = d
  <2>1. /\ g.local = c.local /\ g.localSeq = c.localSeq /\ g.tcsTimers = c.tcsTimers
        /\ g.chans = c.chans /\ g.nextNo = c.nextNo /\ g.olcTimers = c.olcTimers
        /\ g.out = c.out
    BY <1>8 DEF Alters, Fields
  <2>2. Good(g) BY <1>7, <2>1, SameNumbering DEF Good
  <2>3. \/ d = g
        \/ /\ g.msd = "Idle" /\ d.msd = "DetermineSent"
           /\ Alters(g, d, {"msd", "num", "out"})
           /\ Gains(g, d, {Request(d)}) /\ Request(d) \in Requests
    BY <2>2, SendMasterSlaveDeterminationGains
  <2> HIDE DEF d
  <2>4. CASE d = g
    <3>1. CapsOwn(c, g, {}, {m}) /\ RoleOwn(c, g, {}, {m})
      BY <1>3, <1>8, <2>1 DEF CapsOwn, RoleOwn, n
    <3>2. Effect(c, g, {}, {m}) BY <2>1, <3>1, HeardEffect
    <3> QED BY <1>11, <2>4, <3>2
  <2>5. CASE /\ Alters(g, d, {"msd", "num", "out"})
             /\ Gains(g, d, {Request(d)}) /\ Request(d) \in Requests
    <3> DEFINE k == Request(d)
    <3>1. k.type = "MSD" BY Kinds
    <3> HIDE DEF k
    <3>2. /\ d.local = c.local /\ d.localSeq = c.localSeq /\ d.tcsTimers = c.tcsTimers
          /\ d.chans = c.chans /\ d.nextNo = c.nextNo /\ d.olcTimers = c.olcTimers
          /\ d.msdTimers = n
      BY <1>8, <2>1, <2>5 DEF Alters, Fields
    <3>3. Gains(c, d, {k}) BY <2>1, <2>5 DEF Gains, k
    <3>4. {k} \cap Sets = {} /\ {k} \cap SetAnswers = {}
      BY <3>1 DEF Sets, SetAnswers, Of
    <3>5. CapsOwn(c, d, {k}, {m}) /\ CapsAnswer({k}, {m})
      BY <1>3, <3>2, <3>4 DEF CapsOwn, CapsAnswer
    <3>6. RoleOwn(c, d, {k}, {m}) /\ RoleAnswer({k}, {m})
      BY <1>3, <3>2 DEF RoleOwn, RoleAnswer, n
    <3>7. \A x \in {k} \cup {m} : x.type \notin {"OLC", "OLCAck", "OLCReject", "CLC"}
      BY <3>1
    <3>8. OfferOwn(c, d, {m}) /\ OfferAnswer({k}, {m}) /\ Stays(c, d, {k})
      BY <3>2, <3>7, NoChannel
    <3>9. Effect(c, d, {k}, {m})
      BY <3>3, <3>5, <3>6, <3>8 DEF Effect, ListEffect
    <3> QED BY <1>11, <3>9
  <2> QED BY <2>3, <2>4, <2>5
<1> QED BY <1>2, <1>10, <1>11

\* Whatever message is read.
LEMMA HandleEffect ==
  ASSUME NEW c, Good(c), NEW m \in Message, NEW num \in Numbers, NEW able
  PROVE  \E A : Effect(c, HandleH245Message(c, m, num, able), A, {m})
<1> DEFINE d == HandleH245Message(c, m, num, able)
<1>1. CASE m.type = "TCS"
  <2>1. d = OnReceivedTerminalCapabilitySet(c, m.seq, num, able)
    BY <1>1 DEF HandleH245Message
  <2> QED BY <1>1, <2>1, OnReceivedTerminalCapabilitySetEffect
<1>2. CASE m.type = "TCSAck"
  <2>1. d = OnReceivedTerminalCapabilitySetAck(c, able) BY <1>2 DEF HandleH245Message
  <2> QED BY <1>2, <2>1, OnReceivedTerminalCapabilitySetAckEffect
<1>3. CASE m.type = "TCSReject"
  <2>1. d = OnReceivedTerminalCapabilitySetReject(c, m.seq)
    BY <1>3 DEF HandleH245Message
  <2> QED BY <1>3, <2>1, OnReceivedTerminalCapabilitySetRejectEffect
<1>4. CASE m.type = "MSD"
  <2>1. d = OnMasterSlaveDetermination(c, m.term, m.num, num)
    BY <1>4 DEF HandleH245Message
  <2> QED BY <1>4, <2>1, OnMasterSlaveDeterminationEffect
<1>5. CASE m.type = "MSDAck"
  <2>1. d = OnMasterSlaveAck(c, m.decision, able) BY <1>5 DEF HandleH245Message
  <2> QED BY <1>5, <2>1, OnMasterSlaveAckEffect
<1>6. CASE m.type = "MSDReject"
  <2>1. d = OnMasterSlaveReject(c, num) BY <1>6 DEF HandleH245Message
  <2> QED BY <1>6, <2>1, OnMasterSlaveRejectEffect
<1>7. CASE m.type = "OLC"
  <2>1. d = OnOpenLogicalChannel(c, m.no, m.media, able) BY <1>7 DEF HandleH245Message
  <2> QED BY <1>7, <2>1, OnOpenLogicalChannelEffect
<1>8. CASE m.type = "OLCAck"
  <2>1. d = OnOpenLogicalChannelAck(c, m.no) BY <1>8 DEF HandleH245Message
  <2> QED BY <1>8, <2>1, OnOpenLogicalChannelAckEffect
<1>9. CASE m.type = "OLCReject"
  <2>1. d = OnOpenLogicalChannelRejected(c, m.no) BY <1>9 DEF HandleH245Message
  <2> QED BY <1>9, <2>1, OnOpenLogicalChannelRejectedEffect
<1>10. CASE m.type = "CLC"
  <2>1. d = OnCloseLogicalChannel(c, m.no) BY <1>10 DEF HandleH245Message
  <2> QED BY <1>10, <2>1, OnCloseLogicalChannelEffect
<1>11. CASE m.type = "CLCAck"
  <2>1. d = OnCloseLogicalChannelAck(c, m.no) BY <1>11 DEF HandleH245Message
  <2> QED BY <1>11, <2>1, OnCloseLogicalChannelAckEffect
<1>12. CASE m.type \in {"TCSRelease", "MSDRelease"}
  <2>1. d = c BY <1>12 DEF HandleH245Message
  <2> QED BY <1>12, <2>1, ReleaseEffect
<1>13. m.type \in {"TCS", "TCSAck", "TCSReject", "MSD", "MSDAck", "MSDReject", "OLC",
                   "OLCAck", "OLCReject", "CLC", "CLCAck", "TCSRelease", "MSDRelease"}
  BY DEF Message
<1> HIDE DEF d
<1> QED BY <1>1, <1>2, <1>3, <1>4, <1>5, <1>6, <1>7, <1>8, <1>9, <1>10, <1>11, <1>12,
          <1>13 DEF d

\* An end starts.
LEMMA StartEffect ==
  ASSUME NEW c, Good(c), NEW num \in Numbers, NEW force
  PROVE  \E A : Effect(c, SendMasterSlaveDetermination(SendTermCapMsg(c), num, force),
                       A, {})
<1> DEFINE x == SendTermCapMsg(c)
           d == SendMasterSlaveDetermination(x, num, force)
<1>1. c.out \in Seq(Message) BY EndpointFields DEF Good
<1>2. Good(x) BY SendTermCapMsgPlain
<1>3. \/ c.local = "SetSent" /\ x = c
      \/ /\ c.local # "SetSent" /\ x.local = "SetSent"
         /\ Alters(c, x, {"local", "localSeq", "out"})
         /\ Gains(c, x, {SetOf(x.localSeq)})
  BY SendTermCapMsgGains
<1>4. \/ d = x
      \/ /\ x.msd = "Idle" /\ d.msd = "DetermineSent"
         /\ Alters(x, d, {"msd", "num", "out"})
         /\ Gains(x, d, {Request(d)}) /\ Request(d) \in Requests
  BY <1>2, SendMasterSlaveDeterminationGains
<1>5. x.localSeq \in Nat /\ x.out \in Seq(Message) BY <1>2, EndpointFields DEF Good
<1> HIDE DEF x, d
<1>6. /\ x.msd = c.msd /\ d.local = x.local /\ d.localSeq = x.localSeq
      /\ d.tcsTimers = c.tcsTimers /\ d.msdTimers = c.msdTimers
      /\ d.chans = c.chans /\ d.nextNo = c.nextNo /\ d.olcTimers = c.olcTimers
  BY <1>3, <1>4 DEF Alters, Fields
<1>7. SetOf(x.localSeq).type = "TCS" /\ SetOf(x.localSeq) \in Sets
  BY <1>5 DEF SetOf, Sets, Of, Message
<1>8. \E S : /\ Gains(c, x, S)
             /\ \/ S = {} /\ x = c
                \/ S = {SetOf(d.localSeq)} /\ c.local # "SetSent" /\ d.local = "SetSent"
  <2>1. CASE x = c BY <1>1, <2>1, GainsNothing
  <2>2. CASE /\ c.local # "SetSent" /\ x.local = "SetSent"
             /\ Gains(c, x, {SetOf(x.localSeq)})
    BY <1>6, <2>2
  <2> QED BY <1>3, <2>1, <2>2
<1>9. PICK S : /\ Gains(c, x, S)
               /\ \/ S = {} /\ x = c
                  \/ S = {SetOf(d.localSeq)} /\ c.local # "SetSent" /\ d.local = "SetSent"
  BY <1>8
<1>10. \E R : Gains(x, d, R) /\ R \subseteq Requests /\ (R # {} => c.msd = "Idle")
  <2>1. CASE d = x
    <3>1. Gains(x, d, {}) BY <1>5, <2>1, GainsNothing
    <3> QED BY <3>1
  <2>2. CASE /\ x.msd = "Idle" /\ Gains(x, d, {Request(d)}) /\ Request(d) \in Requests
    BY <1>6, <2>2
  <2> QED BY <1>4, <2>1, <2>2
<1>11. PICK R : Gains(x, d, R) /\ R \subseteq Requests /\ (R # {} => c.msd = "Idle")
  BY <1>10
<1> DEFINE A == S \cup R
<1>12. /\ \A m \in S : m.type = "TCS"
       /\ \A m \in R : m.type = "MSD"
       /\ S \subseteq Sets
  BY <1>6, <1>7, <1>9, <1>11 DEF Requests, Of
<1>13. /\ A \cap Sets = S /\ A \cap SetAnswers = {} /\ A \cap Requests = R
       /\ S \cap R = {}
  BY <1>11, <1>12 DEF Sets, SetAnswers, Requests, Of
<1>14. Gains(c, d, A) BY <1>1, <1>9, <1>11, <1>13, GainsTwice
<1>15. CapsOwn(c, d, A, {}) /\ CapsAnswer(A, {})
  BY <1>6, <1>9, <1>13 DEF CapsOwn, CapsAnswer
<1>16. RoleOwn(c, d, A, {}) /\ RoleAnswer(A, {})
  BY <1>6, <1>11, <1>13 DEF RoleOwn, RoleAnswer
<1>17. \A m \in A \cup {} : m.type \notin {"OLC", "OLCAck", "OLCReject", "CLC"}
  BY <1>12
<1> HIDE DEF A
<1>18. OfferOwn(c, d, {}) /\ OfferAnswer(A, {}) /\ Stays(c, d, A)
  BY <1>6, <1>17, NoChannel
<1>19. Effect(c, d, A, {}) BY <1>14, <1>15, <1>16, <1>18 DEF Effect, ListEffect
<1> QED BY <1>19 DEF d, x

\* A call that is cleared on a timer.
LEMMA TimeoutEffect ==
  ASSUME NEW c, NEW d, d.cleared, d.olcTimers \subseteq c.olcTimers,
         NEW A, Gains(c, d, A), \A m \in A : m.type \in {"MSDRelease", "TCSRelease", "CLC"},
         ListEffect(c, d, A, {})
  PROVE  Effect(c, d, A, {})
<1>1. A \cap SetAnswers = {} BY DEF SetAnswers, Of
<1>2. CapsOwn(c, d, A, {}) /\ CapsAnswer(A, {}) BY <1>1 DEF CapsOwn, CapsAnswer
<1>3. RoleOwn(c, d, A, {}) /\ RoleAnswer(A, {}) BY DEF RoleOwn, RoleAnswer
<1>4. OfferOwn(c, d, {}) /\ OfferAnswer(A, {}) BY NoOffer
<1> QED BY <1>2, <1>3, <1>4 DEF Effect

\* The timer of a determination or of a capability set runs out.
LEMMA RequestTimerExpiredEffect ==
  ASSUME NEW c, Good(c)
  PROVE  /\ c.msdTimers > 0 => \E A : Effect(c, MSDTimerExpired(c), A, {})
         /\ c.tcsTimers > 0 => \E A : Effect(c, TCSTimerExpired(c), A, {})
<1>1. c \in Endpoint /\ DOMAIN c = Fields /\ c.msdTimers \in Nat /\ c.tcsTimers \in Nat
  BY EndpointFields DEF Good
<1>2. ASSUME NEW h \in Endpoint, Alters(c, h, {"msdTimers", "tcsTimers"}),
             NEW m \in Message, m.type \in {"MSDRelease", "TCSRelease"}
      PROVE  Effect(c, ClearCall(Enqueue(h, m)), {m}, {})
  <2> DEFINE x == Enqueue(h, m)
             d == ClearCall(x)
  <2>1. Alters(h, x, {"out"}) /\ Gains(h, x, {m}) BY <1>2, EnqueueGains
  <2>2. x \in Endpoint
    <3>1. h.chans = c.chans /\ h.nextNo = c.nextNo BY <1>2 DEF Alters, Fields
    <3>2. Good(h) BY <1>2, <3>1, SameNumbering DEF Good
    <3> QED BY <3>2, EnqueueGood DEF Good
  <2> HIDE DEF x
  <2>3. Alters(x, d, {"cleared"}) /\ d.cleared BY <2>2, ClearCallGains
  <2>4. d.out = x.out
    BY <2>3 DEF Alters, Fields
  <2> HIDE DEF d
  <2>5. /\ d.chans = c.chans /\ d.nextNo = c.nextNo /\ d.olcTimers = c.olcTimers
        /\ h.out = c.out
    BY <1>2, <2>1, <2>3 DEF Alters, Fields
  <2>6. Gains(c, d, {m}) BY <2>1, <2>4, <2>5 DEF Gains
  <2>7. {m} \cap Of({"OLC", "CLC"}) = {} BY <1>2 DEF Of
  <2>8. Stays(c, d, {m}) BY <2>5, <2>7, StaysAsItWas
  <2>9. Effect(c, d, {m}, {})
    BY <1>2, <2>3, <2>5, <2>6, <2>8, TimeoutEffect DEF ListEffect
  <2> QED BY <2>9 DEF d, x
<1>3. ASSUME c.msdTimers > 0 PROVE \E A : Effect(c, MSDTimerExpired(c), A, {})
  <2> DEFINE n == c.msdTimers - 1
             h == [c EXCEPT !.msdTimers = n]
             m == [type |-> "MSDRelease"]
  <2>1. n \in Nat BY <1>1, <1>3
  <2>2. MSDTimerExpired(c) = ClearCall(Enqueue(h, m)) BY DEF MSDTimerExpired
  <2>3. m \in Message /\ m.type = "MSDRelease" BY DEF Message
  <2>4. Alters(c, h, {"msdTimers", "tcsTimers"}) BY <1>1 DEF Alters, Fields
  <2> HIDE DEF n
  <2>5. h \in Endpoint BY <1>1, <2>1, ZenonT(30) DEF Endpoint
  <2> QED BY <1>2, <2>2, <2>3, <2>4, <2>5
<1>4. ASSUME c.tcsTimers > 0 PROVE \E A : Effect(c, TCSTimerExpired(c), A, {})
  <2> DEFINE n == c.tcsTimers - 1
             h == [c EXCEPT !.tcsTimers = n]
             m == [type |-> "TCSRelease"]
  <2>1. n \in Nat BY <1>1, <1>4
  <2>2. TCSTimerExpired(c) = ClearCall(Enqueue(h, m)) BY DEF TCSTimerExpired
  <2>3. m \in Message /\ m.type = "TCSRelease" BY DEF Message
  <2>4. Alters(c, h, {"msdTimers", "tcsTimers"}) BY <1>1 DEF Alters, Fields
  <2> HIDE DEF n
  <2>5. h \in Endpoint BY <1>1, <2>1, ZenonT(30) DEF Endpoint
  <2> QED BY <1>2, <2>2, <2>3, <2>4, <2>5
<1> QED BY <1>3, <1>4

\* The timer of a channel runs out.
LEMMA OpenLogicalChannelTimerExpiredEffect ==
  ASSUME NEW c, Good(c), NEW no \in Nat
  PROVE  \E A : Effect(c, OpenLogicalChannelTimerExpired(c, no), A, {})
<1> DEFINE S == c.olcTimers \ {no}
           h == [c EXCEPT !.olcTimers = S]
           m == [type |-> "CLC", no |-> no]
           x == Enqueue(h, m)
           y == ClearLogicalChannel(x, no)
           d == ClearCall(y)
           e == ClearCall(h)
<1>1. /\ c \in Endpoint /\ DOMAIN c = Fields /\ S \in SUBSET Nat
      /\ c.out \in Seq(Message)
  <2>1. c \in Endpoint /\ DOMAIN c = Fields BY EndpointFields DEF Good
  <2> QED BY <2>1 DEF Endpoint
<1>2. OpenLogicalChannelTimerExpired(c, no) = d \/ OpenLogicalChannelTimerExpired(c, no) = e
  BY DEF OpenLogicalChannelTimerExpired
<1>3. Good(h) BY <1>1, ChannelTimerPlain
<1>4. Alters(c, h, {"olcTimers"}) /\ h.olcTimers = S BY <1>1 DEF Alters, Fields
<1>5. m \in Message /\ m.type = "CLC" BY DEF Message
<1> HIDE DEF h, m
<1>6. /\ h \in Endpoint /\ h.chans = c.chans /\ h.nextNo = c.nextNo /\ h.out = c.out
  BY <1>3, <1>4 DEF Alters, Fields, Good
<1>7. CASE OpenLogicalChannelTimerExpired(c, no) = e
  <2>1. Alters(h, e, {"cleared"}) /\ e.cleared /\ Gains(h, e, {})
    BY <1>6, ClearCallGains
  <2> HIDE DEF e
  <2>2. e.chans = c.chans /\ e.nextNo = c.nextNo /\ e.olcTimers \subseteq c.olcTimers
    BY <1>4, <1>6, <2>1 DEF Alters, Fields
  <2>3. Gains(c, e, {}) BY <1>6, <2>1 DEF Gains
  <2>4. Stays(c, e, {}) BY <2>2, StaysAsItWas
  <2>5. Effect(c, e, {}, {}) BY <2>1, <2>2, <2>3, <2>4, TimeoutEffect DEF ListEffect
  <2> QED BY <1>7, <2>5
<1>8. CASE OpenLogicalChannelTimerExpired(c, no) = d
  <2>1. Alters(h, x, {"out"}) /\ Gains(h, x, {m}) /\ Good(x)
    BY <1>3, <1>5, <1>6, EnqueueGains, EnqueueGood
  <2> HIDE DEF x
  <2>2. /\ Alters(x, y, {"chans"}) /\ Held(y) \subseteq Held(x) /\ (Once(x) => Once(y))
        /\ Good(y)
    BY <2>1, ClearLogicalChannelGains, ClearLogicalChannelPlain
  <2> HIDE DEF y
  <2>3. Alters(y, d, {"cleared"}) /\ d.cleared BY <2>2, ClearCallGains DEF Good
  <2> HIDE DEF d
  <2>4. /\ x.chans = c.chans /\ d.chans = y.chans /\ d.nextNo = c.nextNo /\ d.out = x.out
        /\ d.olcTimers \subseteq c.olcTimers
    BY <1>4, <1>6, <2>1, <2>2, <2>3 DEF Alters, Fields
  <2>5. Gains(c, d, {m}) BY <1>6, <2>1, <2>4 DEF Gains
  <2>6. {m} \cap Of({"OLC"}) = {} BY <1>5 DEF Of
  <2>7. Drops(c, d, {m}, {}) BY <2>2, <2>3, <2>4, <2>6 DEF Drops, Held, Once
  <2>8. Effect(c, d, {m}, {})
    BY <1>5, <2>3, <2>4, <2>5, <2>7, TimeoutEffect DEF ListEffect
  <2> QED BY <1>8, <2>8
<1> QED BY <1>2, <1>7, <1>8

-----------------------------------------------------------------------------
(* The channels of the two ends                                               *)

\* On the way from a to b is p, on the way from b to a is q.

\* A medium is offered once, and not when the other end receives it already.
OfferedOnce(p, b) ==
  \A media : Few(p, Offers(media))
             /\ (Has(p, Offers(media)) => ~ Holds(b, "receive", media))

\* An end that is not master has not opened a medium that it is still to follow.
Awaits(a, p, q, b) ==
  a.msd # "Master" =>
    \A media : Has(q, Offers(media)) =>
      /\ ~ Has(p, Offers(media))
      /\ ~ Holds(a, "transmit", media) /\ ~ Holds(b, "receive", media)

\* An end that has opened nothing has offered nothing.
Unopened(a, p, b) ==
  a.nextNo = 1 =>
    \A media : /\ ~ Has(p, Offers(media))
               /\ ~ Holds(a, "transmit", media) /\ ~ Holds(b, "receive", media)

\* A list is empty because nothing was opened, or because the other end closed its
\* channel with its last message.
EmptyIsUnopened(a, q, b) ==
  ~ a.cleared /\ Held(a) = {} /\ (q # <<>> \/ ~ b.cleared) => a.nextNo = 1

\* An end closes a channel last of all, when its call is cleared.
ClosesLast(a, p) == Last(p, Closings) /\ (Has(p, Closings) => a.cleared)

\* Channels are opened by an end with a role; a slave does it after the master.
OpensInTurn(a, b) ==
  /\ a.nextNo # 1 => a.msd \in {"Master", "Slave"}
  /\ a.nextNo # 1 /\ a.msd # "Master" => b.nextNo # 1

\* What a offered and what b accepted, a has.
Paired(a, p, b) ==
  ~ a.cleared /\ ~ b.cleared =>
    /\ \A m \in Of({"OLC"}) : Has(p, {m}) => <<"transmit", m.no, m.media>> \in Held(a)
    /\ \A no, media :
         <<"receive", no, media>> \in Held(b) => <<"transmit", no, media>> \in Held(a)

\* An end without a role gets one before it reads an offer.
Led(a, q) == a.msd \notin {"Master", "Slave"} => Ahead(q, Acks, AnyOffer)

Side(a, p, q, b) ==
  /\ Once(a) /\ a.nextNo \in Nat \ {0}
  /\ OfferedOnce(p, b)
  /\ Awaits(a, p, q, b)
  /\ Unopened(a, p, b)
  /\ EmptyIsUnopened(a, q, b)
  /\ ClosesLast(a, p)
  /\ OpensInTurn(a, b)
  /\ Paired(a, p, b)

Facing(a, p, q, b) == Side(a, p, q, b) /\ Side(b, q, p, a)

\* An end a, not cleared, becomes a2 as it queues A and reads B; a role stays.
Moves(a, a2, p, p2, q, q2, A, B) ==
  /\ ~ a.cleared
  /\ Grown(p, p2, A) /\ Read(q, q2, B)
  /\ a.msd \in {"Master", "Slave"} => a2.msd = a.msd

\* What is not there is not last.
LEMMA NoneLast == ASSUME NEW s, NEW K, ~ Has(s, K) PROVE Last(s, K)
BY DEF Has, Last

\* What is read was there, and no offer of a medium that is read is there twice.
LEMMA MoveQueues ==
  ASSUME NEW a, NEW a2, NEW p, NEW p2, NEW q, NEW q2, NEW b, NEW A, NEW B,
         Facing(a, p, q, b), Moves(a, a2, p, p2, q, q2, A, B)
  PROVE  /\ \A K : Has(q2, K) => Has(q, K)
         /\ \A K : B \cap K # {} => Has(q, K)
         /\ \A K : A \cap K = {} => (Has(p2, K) <=> Has(p, K)) /\ (Few(p, K) => Few(p2, K))
         /\ \A media : Few(q2, Offers(media))
         /\ \A media : B \cap Offers(media) # {} => ~ Has(q2, Offers(media))
         /\ Last(q2, Closings) /\ (Has(q2, Closings) => b.cleared)
         /\ B \cap Closings # {} => q2 = <<>> /\ b.cleared
         /\ B # {} \/ q2 # <<>> => q # <<>>
         /\ ~ Has(p, Closings)
         /\ a.msd = "Master" => a2.msd = "Master"
<1>1. Grown(p, p2, A) /\ Read(q, q2, B) /\ ~ a.cleared BY DEF Moves
<1>2. ClosesLast(a, p) /\ ClosesLast(b, q) /\ OfferedOnce(q, a) BY DEF Facing, Side
<1>3. \A K : Has(q, K) <=> Has(q2, K) \/ B \cap K # {} BY <1>1 DEF Read
<1>4. \A K : Few(q, K) => Few(q2, K) /\ (Has(q2, K) => B \cap K = {})
  BY <1>1 DEF Read
<1>5. \A K : Last(q, K) => Last(q2, K) /\ (B \cap K # {} => q2 = <<>>)
  BY <1>1 DEF Read
<1>6. \A K : A \cap K = {} => (Has(p2, K) <=> Has(p, K)) BY <1>1 DEF Grown
<1>7. \A K : A \cap K = {} => (Few(p, K) => Few(p2, K)) BY <1>1 DEF Grown
<1>8. B # {} \/ q2 # <<>> => q # <<>>
  <2>1. CASE B # {}
    <3>1. B \cap B # {} BY <2>1
    <3>2. Has(q, B) BY <1>3, <3>1
    <3> QED BY <3>2 DEF Has
  <2>2. CASE q2 # <<>> BY <1>1, <2>2 DEF Read
  <2> QED BY <2>1, <2>2
<1>9. ~ Has(p, Closings) BY <1>1, <1>2 DEF ClosesLast
<1>10. a.msd = "Master" => a2.msd = "Master" BY DEF Moves
<1>11. \A media : Few(q2, Offers(media))
                 /\ (B \cap Offers(media) # {} => ~ Has(q2, Offers(media)))
  BY <1>2, <1>4 DEF OfferedOnce
<1>12. /\ Last(q2, Closings) /\ (Has(q2, Closings) => b.cleared)
       /\ B \cap Closings # {} => q2 = <<>> /\ b.cleared
  BY <1>2, <1>3, <1>5 DEF ClosesLast
<1> QED BY <1>3, <1>6, <1>7, <1>8, <1>9, <1>10, <1>11, <1>12

\* The list of an end stays as it was.
LEMMA StaysMove ==
  ASSUME NEW a, NEW a2, NEW p, NEW p2, NEW q, NEW q2, NEW b, NEW A, NEW B,
         Facing(a, p, q, b), Moves(a, a2, p, p2, q, q2, A, B), Stays(a, a2, A)
  PROVE  Facing(a2, p2, q2, b)
<1>1. /\ \A K : Has(q2, K) => Has(q, K)
      /\ \A K : A \cap K = {} => (Has(p2, K) <=> Has(p, K)) /\ (Few(p, K) => Few(p2, K))
      /\ \A media : Few(q2, Offers(media))
      /\ Last(q2, Closings) /\ (Has(q2, Closings) => b.cleared)
      /\ q2 # <<>> => q # <<>>
      /\ ~ Has(p, Closings)
      /\ a.msd = "Master" => a2.msd = "Master"
  BY MoveQueues
<1>2. ~ a.cleared /\ (a.msd \in {"Master", "Slave"} => a2.msd = a.msd) BY DEF Moves
<1>3. /\ A \cap Closings = {} /\ \A media : A \cap Offers(media) = {}
      /\ \A m \in Of({"OLC"}) : A \cap {m} = {}
  BY DEF Stays, Closings, Offers, Of
<1>4. /\ Held(a2) = Held(a) /\ (Once(a) => Once(a2)) /\ a2.nextNo = a.nextNo
      /\ \A dir, media : Holds(a2, dir, media) <=> Holds(a, dir, media)
  BY DEF Stays, Holds
<1>5. /\ ~ Has(p2, Closings) /\ Last(p2, Closings)
      /\ \A media : Has(p2, Offers(media)) <=> Has(p, Offers(media))
      /\ \A media : Few(p, Offers(media)) => Few(p2, Offers(media))
      /\ \A m \in Of({"OLC"}) : Has(p2, {m}) <=> Has(p, {m})
  BY <1>1, <1>3, NoneLast
<1>6. Side(a2, p2, q2, b)
  <2>1. Side(a, p, q, b) BY DEF Facing
  <2>2. OfferedOnce(p2, b) BY <1>5, <2>1 DEF Side, OfferedOnce
  <2>3. Awaits(a2, p2, q2, b) BY <1>1, <1>4, <1>5, <2>1 DEF Side, Awaits
  <2>4. Unopened(a2, p2, b) BY <1>4, <1>5, <2>1 DEF Side, Unopened
  <2>5. EmptyIsUnopened(a2, q2, b) BY <1>1, <1>2, <1>4, <2>1 DEF Side, EmptyIsUnopened
  <2>6. ClosesLast(a2, p2) BY <1>5 DEF ClosesLast
  <2>7. OpensInTurn(a2, b) BY <1>1, <1>2, <1>4, <2>1 DEF Side, OpensInTurn
  <2>8. Paired(a2, p2, b) BY <1>2, <1>4, <1>5, <2>1 DEF Side, Paired
  <2> QED BY <1>4, <2>1, <2>2, <2>3, <2>4, <2>5, <2>6, <2>7, <2>8 DEF Side
<1>7. Side(b, q2, p2, a2)
  <2>1. Side(b, q, p, a) BY DEF Facing
  <2>2. OfferedOnce(q2, a2) BY <1>1, <1>4, <2>1 DEF Side, OfferedOnce
  <2>3. Awaits(b, q2, p2, a2) BY <1>1, <1>4, <1>5, <2>1 DEF Side, Awaits
  <2>4. Unopened(b, q2, a2) BY <1>1, <1>4, <2>1 DEF Side, Unopened
  <2>5. EmptyIsUnopened(b, p2, a2) BY <1>2, <2>1 DEF Side, EmptyIsUnopened
  <2>6. ClosesLast(b, q2) BY <1>1 DEF ClosesLast
  <2>7. OpensInTurn(b, a2) BY <1>4, <2>1 DEF Side, OpensInTurn
  <2>8. Paired(b, q2, a2) BY <1>1, <1>2, <1>4, <2>1 DEF Side, Paired
  <2> QED BY <2>1, <2>2, <2>3, <2>4, <2>5, <2>6, <2>7, <2>8 DEF Side
<1> QED BY <1>6, <1>7 DEF Facing

\* A master opens its channels.
LEMMA OpensMove ==
  ASSUME NEW a, NEW a2, NEW p, NEW p2, NEW q, NEW q2, NEW b, NEW A, NEW B,
         Facing(a, p, q, b), Moves(a, a2, p, p2, q, q2, A, B), Opens(a, a2, A), B # {},
         a2.nextNo \in Nat
  PROVE  Facing(a2, p2, q2, b)
<1>1. /\ \A K : Has(q2, K) => Has(q, K)
      /\ \A K : A \cap K = {} => (Has(p2, K) <=> Has(p, K)) /\ (Few(p, K) => Few(p2, K))
      /\ \A media : Few(q2, Offers(media))
      /\ Last(q2, Closings) /\ (Has(q2, Closings) => b.cleared)
      /\ q # <<>>
      /\ ~ Has(p, Closings)
  BY MoveQueues
<1>2. ~ a.cleared /\ Grown(p, p2, A) BY DEF Moves
<1>3. Side(a, p, q, b) /\ Side(b, q, p, a) BY DEF Facing
<1>4. /\ a2.msd = "Master" /\ Held(a) = {} /\ Held(a2) # {} /\ Once(a2)
      /\ a2.nextNo > a.nextNo
      /\ \A m \in A \cap Of({"OLC"}) : <<"transmit", m.no, m.media>> \in Held(a2)
      /\ \A no, media : <<"receive", no, media>> \notin Held(a2)
      /\ \A media : \A m, n \in A \cap Offers(media) : m = n
      /\ A \cap Closings = {}
  BY DEF Opens
<1>5. a.nextNo = 1 BY <1>1, <1>2, <1>3, <1>4 DEF Side, EmptyIsUnopened
<1>6. a2.nextNo \in Nat \ {0, 1} BY <1>4, <1>5
<1>7. \A media : ~ Has(p, Offers(media)) /\ ~ Holds(b, "receive", media)
  BY <1>3, <1>5 DEF Side, Unopened
<1>8. /\ ~ Has(p2, Closings) /\ Last(p2, Closings)
      /\ \A media : Few(p2, Offers(media))
      /\ \A m \in Of({"OLC"}) : Has(p2, {m}) => m \in A
  <2>1. \A media : Few(p, Offers(media)) BY <1>3 DEF Side, OfferedOnce
  <2>2. \A media : Few(p2, Offers(media)) BY <1>2, <1>4, <1>7, <2>1 DEF Grown
  <2>3. \A m \in Of({"OLC"}) : ~ Has(p, {m}) BY <1>7 DEF Has, Offers
  <2>4. \A m \in Of({"OLC"}) : Has(p2, {m}) => m \in A
    BY <1>1, <2>3
  <2> QED BY <1>1, <1>4, <2>2, <2>4, NoneLast
<1>9. \A media : ~ Holds(a2, "receive", media) BY <1>4 DEF Holds
<1>10. Side(a2, p2, q2, b)
  <2>1. OfferedOnce(p2, b) BY <1>7, <1>8 DEF OfferedOnce
  <2>2. Awaits(a2, p2, q2, b) BY <1>4 DEF Awaits
  <2>3. Unopened(a2, p2, b) BY <1>6 DEF Unopened
  <2>4. EmptyIsUnopened(a2, q2, b) BY <1>4 DEF EmptyIsUnopened
  <2>5. ClosesLast(a2, p2) BY <1>8 DEF ClosesLast
  <2>6. OpensInTurn(a2, b) BY <1>4 DEF OpensInTurn
  <2>7. Paired(a2, p2, b) BY <1>4, <1>7, <1>8 DEF Paired, Holds
  <2> QED BY <1>4, <1>6, <2>1, <2>2, <2>3, <2>4, <2>5, <2>6, <2>7 DEF Side
<1>11. Side(b, q2, p2, a2)
  <2>1. OfferedOnce(q2, a2) BY <1>1, <1>9 DEF OfferedOnce
  <2>2. Awaits(b, q2, p2, a2)
    <3>1. b.msd # "Master" => b.nextNo = 1 BY <1>3, <1>5 DEF Side, OpensInTurn
    <3>2. b.nextNo = 1 => \A media : ~ Has(q, Offers(media)) /\ ~ Holds(b, "transmit", media)
      BY <1>3 DEF Side, Unopened
    <3> QED BY <1>1, <1>9, <3>1, <3>2 DEF Awaits
  <2>3. Unopened(b, q2, a2) BY <1>1, <1>3, <1>9 DEF Side, Unopened
  <2>4. EmptyIsUnopened(b, p2, a2) BY <1>2, <1>3 DEF Side, EmptyIsUnopened
  <2>5. ClosesLast(b, q2) BY <1>1 DEF ClosesLast
  <2>6. OpensInTurn(b, a2) BY <1>3, <1>6 DEF Side, OpensInTurn
  <2>7. Paired(b, q2, a2) BY <1>1, <1>2, <1>3, <1>4 DEF Side, Paired
  <2> QED BY <1>3, <2>1, <2>2, <2>3, <2>4, <2>5, <2>6, <2>7 DEF Side
<1> QED BY <1>10, <1>11 DEF Facing

\* An end accepts the channel offered.
LEMMA AcceptsMove ==
  ASSUME NEW a, NEW a2, NEW p, NEW p2, NEW q, NEW q2, NEW b, NEW A, NEW B,
         Facing(a, p, q, b), Moves(a, a2, p, p2, q, q2, A, B), Accepts(a, a2, A, B)
  PROVE  Facing(a2, p2, q2, b)
<1>1. /\ \A K : Has(q2, K) => Has(q, K)
      /\ \A K : B \cap K # {} => Has(q, K)
      /\ \A K : A \cap K = {} => (Has(p2, K) <=> Has(p, K)) /\ (Few(p, K) => Few(p2, K))
      /\ \A media : Few(q2, Offers(media))
      /\ \A media : B \cap Offers(media) # {} => ~ Has(q2, Offers(media))
      /\ Last(q2, Closings) /\ (Has(q2, Closings) => b.cleared)
      /\ ~ Has(p, Closings)
      /\ a.msd = "Master" => a2.msd = "Master"
  BY MoveQueues
<1>2. ~ a.cleared /\ (a.msd \in {"Master", "Slave"} => a2.msd = a.msd) BY DEF Moves
<1>3. Side(a, p, q, b) /\ Side(b, q, p, a) BY DEF Facing
<1>4. PICK m \in B \cap Of({"OLC"}) :
        /\ Held(a2) = Held(a) \cup {<<"receive", m.no, m.media>>}
        /\ Once(a) /\ ~ Holds(a, "receive", m.media) => Once(a2)
        /\ a2.nextNo = a.nextNo
        /\ A \cap Of({"OLC", "CLC"}) = {}
  BY DEF Accepts
<1>5. m \in B \cap Offers(m.media) BY DEF Offers
<1>6. /\ Has(q, Offers(m.media)) /\ ~ Has(q2, Offers(m.media)) /\ Has(q, {m})
      /\ ~ Has(p, Offers(m.media)) \/ b.msd = "Master"
  <2>1. B \cap Offers(m.media) # {} /\ B \cap {m} # {} BY <1>5
  <2>2. Has(q, Offers(m.media)) /\ ~ Has(q2, Offers(m.media)) /\ Has(q, {m})
    BY <1>1, <2>1
  <2> QED BY <1>3, <2>2 DEF Side, Awaits
<1>7. Once(a2) BY <1>3, <1>4, <1>6 DEF Side, OfferedOnce
<1>8. b.nextNo # 1 BY <1>3, <1>6 DEF Side, Unopened
<1>9. /\ A \cap Closings = {} /\ \A media : A \cap Offers(media) = {}
      /\ \A n \in Of({"OLC"}) : A \cap {n} = {}
  BY <1>4 DEF Closings, Offers, Of
<1>10. /\ ~ Has(p2, Closings) /\ Last(p2, Closings)
       /\ \A media : Has(p2, Offers(media)) <=> Has(p, Offers(media))
       /\ \A media : Few(p, Offers(media)) => Few(p2, Offers(media))
       /\ \A n \in Of({"OLC"}) : Has(p2, {n}) <=> Has(p, {n})
  BY <1>1, <1>9, NoneLast
<1>11. /\ Held(a) \subseteq Held(a2) /\ Held(a2) # {}
       /\ \A media : Holds(a2, "transmit", media) => Holds(a, "transmit", media)
       /\ \A media : Holds(a2, "receive", media) => Holds(a, "receive", media)
                                                    \/ media = m.media
       /\ \A no, media : <<"receive", no, media>> \in Held(a2) =>
            <<"receive", no, media>> \in Held(a) \/ (no = m.no /\ media = m.media)
  BY <1>4 DEF Holds
<1>12. Side(a2, p2, q2, b)
  <2>1. OfferedOnce(p2, b) BY <1>3, <1>10 DEF Side, OfferedOnce
  <2>2. Awaits(a2, p2, q2, b) BY <1>1, <1>3, <1>10, <1>11 DEF Side, Awaits
  <2>3. Unopened(a2, p2, b) BY <1>3, <1>4, <1>10, <1>11 DEF Side, Unopened
  <2>4. EmptyIsUnopened(a2, q2, b) BY <1>11 DEF EmptyIsUnopened
  <2>5. ClosesLast(a2, p2) BY <1>10 DEF ClosesLast
  <2>6. OpensInTurn(a2, b) BY <1>1, <1>2, <1>3, <1>4 DEF Side, OpensInTurn
  <2>7. Paired(a2, p2, b) BY <1>2, <1>3, <1>10, <1>11 DEF Side, Paired
  <2> QED BY <1>3, <1>4, <1>7, <2>1, <2>2, <2>3, <2>4, <2>5, <2>6, <2>7 DEF Side
<1>13. Side(b, q2, p2, a2)
  <2>1. OfferedOnce(q2, a2) BY <1>1, <1>3, <1>6, <1>11 DEF Side, OfferedOnce
  <2>2. Awaits(b, q2, p2, a2)
    BY <1>1, <1>3, <1>6, <1>10, <1>11 DEF Side, Awaits
  <2>3. Unopened(b, q2, a2) BY <1>8 DEF Unopened
  <2>4. EmptyIsUnopened(b, p2, a2) BY <1>2, <1>3 DEF Side, EmptyIsUnopened
  <2>5. ClosesLast(b, q2) BY <1>1 DEF ClosesLast
  <2>6. OpensInTurn(b, a2) BY <1>3, <1>4 DEF Side, OpensInTurn
  <2>7. Paired(b, q2, a2) BY <1>1, <1>2, <1>3, <1>6, <1>11 DEF Side, Paired
  <2> QED BY <1>3, <2>1, <2>2, <2>3, <2>4, <2>5, <2>6, <2>7 DEF Side
<1> QED BY <1>12, <1>13 DEF Facing

\* A slave accepts the channel offered and opens its own of the medium.
LEMMA FollowsMove ==
  ASSUME NEW a, NEW a2, NEW p, NEW p2, NEW q, NEW q2, NEW b, NEW A, NEW B,
         Facing(a, p, q, b), Moves(a, a2, p, p2, q, q2, A, B), Follows(a, a2, A, B),
         b.msd # "Slave"
  PROVE  Facing(a2, p2, q2, b)
<1>1. /\ \A K : Has(q2, K) => Has(q, K)
      /\ \A K : B \cap K # {} => Has(q, K)
      /\ \A K : A \cap K = {} => (Has(p2, K) <=> Has(p, K)) /\ (Few(p, K) => Few(p2, K))
      /\ \A media : Few(q2, Offers(media))
      /\ \A media : B \cap Offers(media) # {} => ~ Has(q2, Offers(media))
      /\ Last(q2, Closings) /\ (Has(q2, Closings) => b.cleared)
      /\ ~ Has(p, Closings)
  BY MoveQueues
<1>2. ~ a.cleared /\ Grown(p, p2, A) BY DEF Moves
<1>3. Side(a, p, q, b) /\ Side(b, q, p, a) BY DEF Facing
<1>4. PICK m \in B \cap Of({"OLC"}) :
        /\ a.msd = "Slave" /\ a2.msd = "Slave"
        /\ Held(a2) = Held(a) \cup {<<"receive", m.no, m.media>>,
                                    <<"transmit", a.nextNo, m.media>>}
        /\ Once(a) /\ ~ Holds(a, "receive", m.media) /\ ~ Holds(a, "transmit", m.media)
             => Once(a2)
        /\ a2.nextNo = a.nextNo + 1
        /\ A \cap Of({"OLC"}) = {OfferMsg(a.nextNo, m.media)}
        /\ A \cap Closings = {}
  BY DEF Follows
<1> DEFINE o == OfferMsg(a.nextNo, m.media)
<1>5. m \in B \cap Offers(m.media) /\ o.media = m.media /\ o.no = a.nextNo
  BY DEF Offers, OfferMsg
<1> HIDE DEF o
<1>6. /\ Has(q, Offers(m.media)) /\ ~ Has(q2, Offers(m.media)) /\ Has(q, {m})
      /\ ~ Has(p, Offers(m.media)) /\ ~ Holds(a, "receive", m.media)
      /\ ~ Holds(a, "transmit", m.media) /\ ~ Holds(b, "receive", m.media)
  <2>1. B \cap Offers(m.media) # {} /\ B \cap {m} # {} BY <1>5
  <2>2. Has(q, Offers(m.media)) /\ ~ Has(q2, Offers(m.media)) /\ Has(q, {m})
    BY <1>1, <2>1
  <2> QED BY <1>3, <1>4, <2>2 DEF Side, Awaits, OfferedOnce
<1>7. Once(a2) BY <1>3, <1>4, <1>6 DEF Side
<1>8. b.nextNo # 1 /\ b.msd = "Master"
  <2>1. b.nextNo # 1 BY <1>3, <1>6 DEF Side, Unopened
  <2> QED BY <1>3, <2>1 DEF Side, OpensInTurn
<1>9. a2.nextNo \in Nat \ {0, 1}
  <2>1. a.nextNo \in Nat \ {0} BY <1>3 DEF Side
  <2> QED BY <1>4, <2>1
<1>10. /\ A \cap Offers(m.media) = {o}
       /\ \A media : media # m.media => A \cap Offers(media) = {}
       /\ \A n \in Of({"OLC"}) : n # o => A \cap {n} = {}
  BY <1>4, <1>5 DEF Offers, Of, o
<1>11. /\ ~ Has(p2, Closings) /\ Last(p2, Closings)
       /\ \A media : media # m.media => (Has(p2, Offers(media)) <=> Has(p, Offers(media)))
       /\ \A n \in Of({"OLC"}) : Has(p2, {n}) => Has(p, {n}) \/ n = o
       /\ \A media : Few(p2, Offers(media))
  <2>1. \A media : Few(p, Offers(media)) BY <1>3 DEF Side, OfferedOnce
  <2>2. Few(p2, Offers(m.media))
    <3>1. \A x, y \in A \cap Offers(m.media) : x = y BY <1>10
    <3> QED BY <1>2, <1>6, <2>1, <3>1 DEF Grown
  <2>3. \A media : media # m.media => Few(p2, Offers(media)) BY <1>1, <1>10, <2>1
  <2>4. \A media : Few(p2, Offers(media)) BY <2>2, <2>3
  <2> QED BY <1>1, <1>4, <1>10, <2>4, NoneLast
<1>12. /\ Held(a) \subseteq Held(a2) /\ Held(a2) # {}
       /\ \A media : Holds(a2, "transmit", media) => Holds(a, "transmit", media)
                                                    \/ media = m.media
       /\ \A media : Holds(a2, "receive", media) => Holds(a, "receive", media)
                                                    \/ media = m.media
       /\ \A no, media : <<"receive", no, media>> \in Held(a2) =>
            <<"receive", no, media>> \in Held(a) \/ (no = m.no /\ media = m.media)
       /\ <<"transmit", o.no, o.media>> \in Held(a2)
  BY <1>4, <1>5 DEF Holds
<1>13. Side(a2, p2, q2, b)
  <2>1. OfferedOnce(p2, b) BY <1>3, <1>6, <1>11 DEF Side, OfferedOnce
  <2>2. Awaits(a2, p2, q2, b)
    BY <1>1, <1>3, <1>4, <1>6, <1>11, <1>12 DEF Side, Awaits
  <2>3. Unopened(a2, p2, b) BY <1>9 DEF Unopened
  <2>4. EmptyIsUnopened(a2, q2, b) BY <1>12 DEF EmptyIsUnopened
  <2>5. ClosesLast(a2, p2) BY <1>11 DEF ClosesLast
  <2>6. OpensInTurn(a2, b) BY <1>4, <1>8 DEF OpensInTurn
  <2>7. Paired(a2, p2, b) BY <1>2, <1>3, <1>11, <1>12 DEF Side, Paired
  <2> QED BY <1>7, <1>9, <2>1, <2>2, <2>3, <2>4, <2>5, <2>6, <2>7 DEF Side
<1>14. Side(b, q2, p2, a2)
  <2>1. OfferedOnce(q2, a2) BY <1>1, <1>3, <1>6, <1>12 DEF Side, OfferedOnce
  <2>2. Awaits(b, q2, p2, a2) BY <1>8 DEF Awaits
  <2>3. Unopened(b, q2, a2) BY <1>8 DEF Unopened
  <2>4. EmptyIsUnopened(b, p2, a2) BY <1>2, <1>3 DEF Side, EmptyIsUnopened
  <2>5. ClosesLast(b, q2) BY <1>1 DEF ClosesLast
  <2>6. OpensInTurn(b, a2) BY <1>8 DEF OpensInTurn
  <2>7. Paired(b, q2, a2) BY <1>1, <1>2, <1>3, <1>6, <1>12 DEF Side, Paired
  <2> QED BY <1>3, <2>1, <2>2, <2>3, <2>4, <2>5, <2>6, <2>7 DEF Side
<1> QED BY <1>13, <1>14 DEF Facing

\* A channel is closed, by the other end or with the call.
LEMMA DropsMove ==
  ASSUME NEW a, NEW a2, NEW p, NEW p2, NEW q, NEW q2, NEW b, NEW A, NEW B,
         Facing(a, p, q, b), Moves(a, a2, p, p2, q, q2, A, B), Drops(a, a2, A, B)
  PROVE  Facing(a2, p2, q2, b)
<1>1. /\ \A K : Has(q2, K) => Has(q, K)
      /\ \A K : A \cap K = {} => (Has(p2, K) <=> Has(p, K)) /\ (Few(p, K) => Few(p2, K))
      /\ \A media : Few(q2, Offers(media))
      /\ Last(q2, Closings) /\ (Has(q2, Closings) => b.cleared)
      /\ B \cap Closings # {} => q2 = <<>> /\ b.cleared
      /\ ~ Has(p, Closings)
      /\ a.msd = "Master" => a2.msd = "Master"
  BY MoveQueues
<1>2. ~ a.cleared /\ (a.msd \in {"Master", "Slave"} => a2.msd = a.msd) /\ Grown(p, p2, A)
  BY DEF Moves
<1>3. Side(a, p, q, b) /\ Side(b, q, p, a) BY DEF Facing
<1>4. /\ B \cap Closings # {} \/ a2.cleared
      /\ Held(a2) \subseteq Held(a) /\ (Once(a) => Once(a2)) /\ a2.nextNo = a.nextNo
      /\ A \cap Of({"OLC"}) = {}
      /\ A \cap Closings # {} => a2.cleared /\ \A m, n \in A : m = n
      /\ \A dir, media : Holds(a2, dir, media) => Holds(a, dir, media)
  BY DEF Drops, Holds
<1>5. \A media : A \cap Offers(media) = {} BY <1>4 DEF Offers
<1>6. /\ \A media : Has(p2, Offers(media)) <=> Has(p, Offers(media))
      /\ \A media : Few(p, Offers(media)) => Few(p2, Offers(media))
  BY <1>1, <1>5
<1>7. ClosesLast(a2, p2)
  <2>1. CASE A \cap Closings = {}
    <3>1. ~ Has(p2, Closings) BY <1>1, <2>1
    <3> QED BY <3>1, NoneLast DEF ClosesLast
  <2>2. CASE A \cap Closings # {} BY <1>1, <1>2, <1>4, <2>2 DEF ClosesLast, Grown
  <2> QED BY <2>1, <2>2
<1>8. a2.cleared \/ (b.cleared /\ q2 = <<>>) BY <1>1, <1>4
<1>9. Side(a2, p2, q2, b)
  <2>1. OfferedOnce(p2, b) BY <1>3, <1>6 DEF Side, OfferedOnce
  <2>2. Awaits(a2, p2, q2, b) BY <1>1, <1>3, <1>4, <1>6 DEF Side, Awaits
  <2>3. Unopened(a2, p2, b) BY <1>3, <1>4, <1>6 DEF Side, Unopened
  <2>4. EmptyIsUnopened(a2, q2, b) BY <1>8 DEF EmptyIsUnopened
  <2>5. OpensInTurn(a2, b) BY <1>1, <1>2, <1>3, <1>4 DEF Side, OpensInTurn
  <2>6. Paired(a2, p2, b) BY <1>8 DEF Paired
  <2> QED BY <1>3, <1>4, <1>7, <2>1, <2>2, <2>3, <2>4, <2>5, <2>6 DEF Side
<1>10. Side(b, q2, p2, a2)
  <2>1. OfferedOnce(q2, a2) BY <1>1, <1>3, <1>4 DEF Side, OfferedOnce
  <2>2. Awaits(b, q2, p2, a2) BY <1>1, <1>3, <1>4, <1>6 DEF Side, Awaits
  <2>3. Unopened(b, q2, a2) BY <1>1, <1>3, <1>4 DEF Side, Unopened
  <2>4. EmptyIsUnopened(b, p2, a2) BY <1>2, <1>3 DEF Side, EmptyIsUnopened
  <2>5. ClosesLast(b, q2) BY <1>1 DEF ClosesLast
  <2>6. OpensInTurn(b, a2) BY <1>3, <1>4 DEF Side, OpensInTurn
  <2>7. Paired(b, q2, a2) BY <1>8 DEF Paired
  <2> QED BY <1>3, <2>1, <2>2, <2>3, <2>4, <2>5, <2>6, <2>7 DEF Side
<1> QED BY <1>9, <1>10 DEF Facing

\* Whatever an end does to its list, the two still face each other.
LEMMA FacingMove ==
  ASSUME NEW a, NEW a2, Good(a2), NEW p, NEW p2, NEW q, NEW q2, NEW b, NEW A, NEW B,
         Facing(a, p, q, b), Moves(a, a2, p, p2, q, q2, A, B), Effect(a, a2, A, B),
         a.msd = "Slave" => b.msd # "Slave"
  PROVE  Facing(a2, p2, q2, b)
<1>1. a2.nextNo \in Nat BY EndpointFields DEF Good
<1>2. ListEffect(a, a2, A, B) BY DEF Effect
<1>3. Follows(a, a2, A, B) => b.msd # "Slave" BY DEF Follows
<1> QED BY <1>1, <1>2, <1>3, StaysMove, OpensMove, AcceptsMove, FollowsMove, DropsMove
       DEF ListEffect

-----------------------------------------------------------------------------
(* What a timer waits for                                                     *)

\* One capability set is under way or answered, the last sent; its timer, if armed,
\* waits for it, and is not armed before it left the queue.
CapsWait(a, p, q) ==
  /\ a.tcsTimers \in {0, 1}
  /\ Has(a.out, Sets) => a.tcsTimers = 0
  /\ a.tcsTimers # 0 => Has(p, Sets) \/ Has(q, SetAnswers)
  /\ Few(p, Sets) /\ Few(q, SetAnswers) /\ ~ (Has(p, Sets) /\ Has(q, SetAnswers))
  /\ Has(p, Sets) \/ Has(q, SetAnswers) => a.local = "SetSent"
  /\ \A m \in Sets : Has(p, {m}) => m.seq = a.localSeq
  /\ \A m \in SetAnswers : m.type = "TCSReject" /\ Has(q, {m}) => m.seq = a.localSeq

\* The same of a request for a determination.
RoleWait(a, p, q) ==
  /\ a.msdTimers \in {0, 1}
  /\ Has(a.out, Requests) => a.msdTimers = 0
  /\ a.msdTimers # 0 => Has(p, Requests) \/ Has(q, Answers)

\* The same of the offer of a channel.
ChanWait(a, p, q) ==
  \A no \in a.olcTimers : Has(p, OfferOf(no)) \/ Has(q, OfferAnswers(no))

Waits(a, p, q) == CapsWait(a, p, q) /\ RoleWait(a, p, q) /\ ChanWait(a, p, q)

\* What is in a queue is one of its messages.
LEMMA HasOne ==
  ASSUME NEW s, NEW K PROVE Has(s, K) <=> \E m \in K : Has(s, {m})
BY DEF Has

\* The capability set of the end that moves.
LEMMA CapsOwnMove ==
  ASSUME NEW a, NEW a2, NEW p, NEW p2, NEW q, NEW q2, NEW A, NEW B \in SUBSET Message,
         CapsWait(a, p, q), CapsOwn(a, a2, A, B), ~ a2.cleared,
         Grown(a.out, a2.out, A), Grown(p, p2, A), Read(q, q2, B)
  PROVE  CapsWait(a2, p2, q2)
<1>1. /\ \A K : Has(p2, K) <=> Has(p, K) \/ A \cap K # {}
      /\ \A K : Few(p, K) /\ (\A m, n \in A \cap K : m = n) /\ (Has(p, K) => A \cap K = {})
                  => Few(p2, K)
      /\ \A K : Has(a2.out, K) <=> Has(a.out, K) \/ A \cap K # {}
  BY DEF Grown
<1>2. /\ \A K : Has(q, K) <=> Has(q2, K) \/ B \cap K # {}
      /\ \A K : Few(q, K) => Few(q2, K) /\ (Has(q2, K) => B \cap K = {})
  BY DEF Read
<1>3. Few(q2, SetAnswers) BY <1>2 DEF CapsWait
<1>4. \A m \in SetAnswers : Has(q2, {m}) => Has(q, {m}) BY <1>2
<1>5. \A m \in Sets : A \cap Sets = {} /\ Has(p2, {m}) => Has(p, {m}) BY <1>1
<1>6. CASE /\ a2.local = a.local /\ a2.localSeq = a.localSeq
           /\ a2.tcsTimers = a.tcsTimers /\ A \cap Sets = {} /\ B \cap SetAnswers = {}
  <2>1. /\ Has(p2, Sets) <=> Has(p, Sets)
        /\ Has(q2, SetAnswers) <=> Has(q, SetAnswers)
        /\ Has(a2.out, Sets) <=> Has(a.out, Sets)
        /\ Few(p2, Sets)
    BY <1>1, <1>2, <1>6 DEF CapsWait
  <2> QED BY <1>3, <1>4, <1>5, <1>6, <2>1 DEF CapsWait
<1>7. CASE /\ a.local # "SetSent" /\ a2.local = "SetSent" /\ a2.tcsTimers = a.tcsTimers
           /\ A \cap Sets = {SetOf(a2.localSeq)} /\ B \cap SetAnswers = {}
  <2>1. ~ Has(p, Sets) /\ ~ Has(q, SetAnswers) /\ a2.tcsTimers = 0
    BY <1>7 DEF CapsWait
  <2>2. ~ Has(q2, SetAnswers) /\ Few(p2, Sets) BY <1>1, <1>2, <1>7, <2>1 DEF CapsWait
  <2>3. ASSUME NEW m \in Sets, Has(p2, {m}) PROVE m.seq = a2.localSeq
    <3>1. ~ Has(p, {m}) BY <2>1, HasOne
    <3>2. m \in A BY <1>1, <2>3, <3>1
    <3>3. m = SetOf(a2.localSeq) BY <1>7, <3>2
    <3> QED BY <3>3 DEF SetOf
  <2>4. \A m \in SetAnswers : ~ Has(q2, {m}) BY <2>2, HasOne
  <2> QED BY <1>3, <1>7, <2>1, <2>2, <2>3, <2>4 DEF CapsWait
<1>8. CASE /\ a2.localSeq = a.localSeq /\ a2.tcsTimers = DeleteTimer(a.tcsTimers)
           /\ A \cap Sets = {} /\ B \cap SetAnswers # {}
  <2>1. Has(q, SetAnswers) /\ ~ Has(q2, SetAnswers) BY <1>2, <1>8 DEF CapsWait
  <2>2. ~ Has(p, Sets) BY <2>1 DEF CapsWait
  <2>3. ~ Has(p2, Sets) /\ Few(p2, Sets) BY <1>1, <1>8, <2>2 DEF CapsWait
  <2>4. a2.tcsTimers = 0 BY <1>8 DEF CapsWait, DeleteTimer
  <2>5. (\A m \in Sets : ~ Has(p2, {m})) /\ \A m \in SetAnswers : ~ Has(q2, {m})
    BY <2>1, <2>3, HasOne
  <2> QED BY <1>3, <2>1, <2>3, <2>4, <2>5 DEF CapsWait
<1>9. ASSUME NEW m \in B, m.type = "TCSReject", m.seq # a.localSeq PROVE FALSE
  <2>1. m \in SetAnswers BY <1>9 DEF SetAnswers, Of
  <2>2. B \cap {m} # {} BY <1>9
  <2>3. Has(q, {m}) BY <1>2, <2>2
  <2> QED BY <1>9, <2>1, <2>3 DEF CapsWait
<1> QED BY <1>6, <1>7, <1>8, <1>9 DEF CapsOwn

\* The capability set of the other end.
LEMMA CapsAnswerMove ==
  ASSUME NEW b, NEW p, NEW p2, NEW q, NEW q2, NEW A, NEW B,
         CapsWait(b, q, p), CapsAnswer(A, B), Grown(p, p2, A), Read(q, q2, B)
  PROVE  CapsWait(b, q2, p2)
<1>1. /\ \A K : Has(p2, K) <=> Has(p, K) \/ A \cap K # {}
      /\ \A K : Few(p, K) /\ (\A m, n \in A \cap K : m = n) /\ (Has(p, K) => A \cap K = {})
                  => Few(p2, K)
  BY DEF Grown
<1>2. /\ \A K : Has(q, K) <=> Has(q2, K) \/ B \cap K # {}
      /\ \A K : Few(q, K) => Few(q2, K) /\ (Has(q2, K) => B \cap K = {})
  BY DEF Read
<1>3. Few(q2, Sets) /\ \A m \in Sets : Has(q2, {m}) => m.seq = b.localSeq
  BY <1>2 DEF CapsWait
<1>4. CASE B \cap Sets = {} /\ A \cap SetAnswers = {}
  <2>1. /\ Has(q2, Sets) <=> Has(q, Sets)
        /\ Has(p2, SetAnswers) <=> Has(p, SetAnswers)
        /\ Few(p2, SetAnswers)
        /\ \A m \in SetAnswers : Has(p2, {m}) => Has(p, {m})
    BY <1>1, <1>2, <1>4 DEF CapsWait
  <2> QED BY <1>3, <2>1 DEF CapsWait
<1>5. ASSUME NEW m \in B \cap Sets, NEW r \in SetAnswers, A \cap SetAnswers = {r},
             r.type = "TCSReject" => r.seq = m.seq
      PROVE  CapsWait(b, q2, p2)
  <2>1. Has(q, Sets) /\ ~ Has(q2, Sets) /\ Has(q, {m})
    <3>1. B \cap Sets # {} /\ B \cap {m} # {} BY <1>5
    <3> QED BY <1>2, <3>1 DEF CapsWait
  <2>2. m.seq = b.localSeq /\ b.local = "SetSent" /\ ~ Has(p, SetAnswers)
    BY <2>1 DEF CapsWait
  <2>3. Has(p2, SetAnswers) /\ Few(p2, SetAnswers) BY <1>1, <1>5, <2>2 DEF CapsWait
  <2>4. ASSUME NEW n \in SetAnswers, n.type = "TCSReject", Has(p2, {n})
        PROVE  n.seq = b.localSeq
    <3>1. ~ Has(p, {n}) BY <2>2, HasOne
    <3>2. n \in A BY <1>1, <2>4, <3>1
    <3>3. n = r BY <1>5, <3>2
    <3> QED BY <1>5, <2>2, <2>4, <3>3
  <2> QED BY <1>3, <2>1, <2>2, <2>3, <2>4 DEF CapsWait
<1> QED BY <1>4, <1>5 DEF CapsAnswer

\* The determination: of the end that moves, and of the other.
LEMMA RoleMove ==
  ASSUME NEW a, NEW a2, NEW b, NEW p, NEW p2, NEW q, NEW q2, NEW A, NEW B,
         RoleOwn(a, a2, A, B), RoleAnswer(A, B), ~ a2.cleared,
         a.msd = "Idle" => ~ Has(p, Requests) /\ ~ Has(q, Answers),
         Grown(a.out, a2.out, A), Grown(p, p2, A), Read(q, q2, B)
  PROVE  /\ RoleWait(a, p, q) => RoleWait(a2, p2, q2)
         /\ RoleWait(b, q, p) => RoleWait(b, q2, p2)
<1>1. /\ \A K : Has(p2, K) <=> Has(p, K) \/ A \cap K # {}
      /\ \A K : Has(a2.out, K) <=> Has(a.out, K) \/ A \cap K # {}
  BY DEF Grown
<1>2. \A K : Has(q, K) <=> Has(q2, K) \/ B \cap K # {} BY DEF Read
<1>3. ASSUME RoleWait(a, p, q) PROVE RoleWait(a2, p2, q2)
  <2>1. CASE /\ a2.msdTimers = a.msdTimers /\ A \cap Requests = {} /\ B \cap Answers = {}
    <3>1. /\ Has(p2, Requests) <=> Has(p, Requests)
          /\ Has(q2, Answers) <=> Has(q, Answers)
          /\ Has(a2.out, Requests) <=> Has(a.out, Requests)
      BY <1>1, <1>2, <2>1
    <3> QED BY <1>3, <2>1, <3>1 DEF RoleWait
  <2>2. CASE a2.msdTimers = a.msdTimers /\ a.msd = "Idle"
    <3>1. a2.msdTimers = 0 BY <1>3, <2>2 DEF RoleWait
    <3> QED BY <3>1 DEF RoleWait
  <2>3. CASE a2.msdTimers = DeleteTimer(a.msdTimers)
    <3>1. a2.msdTimers = 0 BY <1>3, <2>3 DEF RoleWait, DeleteTimer
    <3> QED BY <3>1 DEF RoleWait
  <2> QED BY <2>1, <2>2, <2>3 DEF RoleOwn
<1>4. ASSUME RoleWait(b, q, p) PROVE RoleWait(b, q2, p2)
  <2>1. Has(q, Requests) => Has(q2, Requests) \/ Has(p2, Answers)
    BY <1>1, <1>2 DEF RoleAnswer
  <2>2. Has(p, Answers) => Has(p2, Answers) BY <1>1
  <2> QED BY <1>4, <2>1, <2>2 DEF RoleWait
<1> QED BY <1>3, <1>4

\* The offers: of the end that moves, and of the other.
LEMMA ChanMove ==
  ASSUME NEW a, NEW a2, NEW b, NEW p, NEW p2, NEW q, NEW q2, NEW A, NEW B,
         OfferOwn(a, a2, B), OfferAnswer(A, B), Grown(p, p2, A), Read(q, q2, B)
  PROVE  /\ ChanWait(a, p, q) => ChanWait(a2, p2, q2)
         /\ ChanWait(b, q, p) => ChanWait(b, q2, p2)
<1>1. \A K : Has(p2, K) <=> Has(p, K) \/ A \cap K # {} BY DEF Grown
<1>2. \A K : Has(q, K) <=> Has(q2, K) \/ B \cap K # {} BY DEF Read
<1>3. ASSUME ChanWait(a, p, q), NEW no \in a2.olcTimers
      PROVE  Has(p2, OfferOf(no)) \/ Has(q2, OfferAnswers(no))
  <2>1. no \in a.olcTimers /\ B \cap OfferAnswers(no) = {} BY DEF OfferOwn
  <2> QED BY <1>1, <1>2, <1>3, <2>1 DEF ChanWait
<1>4. ASSUME ChanWait(b, q, p), NEW no \in b.olcTimers
      PROVE  Has(q2, OfferOf(no)) \/ Has(p2, OfferAnswers(no))
  <2>1. Has(q, OfferOf(no)) => Has(q2, OfferOf(no)) \/ Has(p2, OfferAnswers(no))
    BY <1>1, <1>2 DEF OfferAnswer
  <2> QED BY <1>1, <1>4, <2>1 DEF ChanWait
<1> QED BY <1>3, <1>4 DEF ChanWait

\* Of all timers of both ends.
LEMMA WaitsMove ==
  ASSUME NEW a, NEW a2, NEW b, NEW p, NEW p2, NEW q, NEW q2, NEW A,
         NEW B \in SUBSET Message, Effect(a, a2, A, B), ~ a2.cleared,
         a.msd = "Idle" => ~ Has(p, Requests) /\ ~ Has(q, Answers),
         Grown(a.out, a2.out, A), Grown(p, p2, A), Read(q, q2, B),
         Waits(a, p, q), Waits(b, q, p)
  PROVE  Waits(a2, p2, q2) /\ Waits(b, q2, p2)
<1>1. CapsWait(a2, p2, q2) BY CapsOwnMove DEF Waits, Effect
<1>2. CapsWait(b, q2, p2) BY CapsAnswerMove DEF Waits, Effect
<1>3. RoleWait(a2, p2, q2) /\ RoleWait(b, q2, p2) BY RoleMove DEF Waits, Effect
<1>4. ChanWait(a2, p2, q2) /\ ChanWait(b, q2, p2) BY ChanMove DEF Waits, Effect
<1> QED BY <1>1, <1>2, <1>3, <1>4 DEF Waits

-----------------------------------------------------------------------------
(* What the phase of the determination says                                   *)

\* Of what Inv says of two ends: one request at most is on its way, ...
LEMMA AgreeRequests ==
  ASSUME NEW a, NEW p, NEW q, NEW b, Agree(a, p, q, b) PROVE Few(p, Requests)
<1>1. \A m \in Requests : m.type = "MSD" /\ m.type \in Determines
  BY DEF Requests, Of, Determines
<1>2. None(p) => Few(p, Requests) BY <1>1 DEF None, Few
<1>3. \A m : One(p, m) => Few(p, Requests) BY <1>1 DEF One, Few
<1>4. ASSUME NEW m, NEW n, Two(p, m, n), m.type # "MSD" \/ n.type # "MSD"
      PROVE  Few(p, Requests)
  <2>1. PICK i, k \in DOMAIN p :
          /\ i < k /\ p[i] = m /\ p[k] = n
          /\ \A j \in DOMAIN p : j # i /\ j # k => p[j].type \notin Determines
    BY <1>4 DEF Two
  <2> QED BY <1>1, <1>4, <2>1 DEF Few
<1>5. Reject.type = "MSDReject" /\ \A d : Ack(d).type = "MSDAck" BY Kinds
<1>6. \/ None(p) \/ (\E m : One(p, m))
      \/ \E m : Two(p, m, Reject) \/ Two(p, Reject, m) \/ \E d : Two(p, m, Ack(d))
  BY DEF Agree, Phase, Quiescent, Asking, Refused, Crossing, RefusedCrossing,
         BothRefused, AskedAgain, Granted, Taken, Determined, GrantedCrossing, BothGranted
<1> QED BY <1>2, <1>3, <1>4, <1>5, <1>6

\* ... an end that is idle has no request on its way and no answer coming, ...
LEMMA AgreeIdle ==
  ASSUME NEW a, NEW p, NEW q, NEW b, Agree(a, p, q, b), a.msd = "Idle"
  PROVE  ~ Has(p, Requests) /\ ~ Has(q, Answers)
<1>1. /\ \A m \in Requests : m.type = "MSD" /\ m.type \in Determines
      /\ \A m \in Answers : m.type \in {"MSDAck", "MSDReject"} /\ m.type \in Determines
  BY DEF Requests, Answers, Of, Determines
<1>2. \A s : None(s) => ~ Has(s, Requests) /\ ~ Has(s, Answers)
  BY <1>1 DEF None, Has
<1>3. One(q, Request(b)) => ~ Has(q, Answers)
  <2>1. Request(b).type = "MSD" BY Kinds
  <2> QED BY <1>1, <2>1 DEF One, Has
<1>4. One(p, Reject) => ~ Has(p, Requests)
  <2>1. Reject.type = "MSDReject" BY Kinds
  <2> QED BY <1>1, <2>1 DEF One, Has
<1>5. \/ None(p) /\ None(q)
      \/ None(p) /\ One(q, Request(b))
      \/ One(p, Reject) /\ None(q)
  BY IdlePhases DEF Quiescent, Asking, Refused
<1> QED BY <1>2, <1>3, <1>4, <1>5

\* ... and two ends are not both slaves.
LEMMA AgreeSlaves ==
  ASSUME NEW a, NEW p, NEW q, NEW b, Agree(a, p, q, b), a.msd = "Slave"
  PROVE  b.msd # "Slave"
<1>1. \A d \in Roles :
        /\ a.msd = RoleState(d) => d = "slave"
        /\ a.msd = RoleState(Opposite(d)) => d = "master"
  BY DEF Roles, RoleState, Opposite
<1>2. RoleState("master") = "Master" /\ RoleState(Opposite("slave")) = "Master"
  BY DEF RoleState, Opposite
<1>3. ~ Idles(a) /\ ~ Asked(a) /\ ~ Acked(a) BY DEF Idles, Asked, Acked
<1>4. CASE Phase(a, p, q, b)
  <2>1. PICK d \in Roles : Taken(a, p, q, b, d) \/ Determined(a, p, q, b, d)
    BY <1>3, <1>4
    DEF Phase, Quiescent, Asking, Refused, Crossing, RefusedCrossing, BothRefused,
        AskedAgain, Granted, GrantedCrossing, BothGranted
  <2> QED BY <1>1, <1>2, <2>1 DEF Taken, Determined, Acked
<1>5. CASE Phase(b, q, p, a)
  <2>1. PICK d \in Roles : Determined(b, q, p, a, d)
    BY <1>3, <1>5
    DEF Phase, Quiescent, Asking, Refused, Crossing, RefusedCrossing, BothRefused,
        AskedAgain, Granted, Taken, GrantedCrossing, BothGranted
  <2> QED BY <1>1, <1>2, <2>1 DEF Determined
<1> QED BY <1>4, <1>5 DEF Agree

\* An end that has a role, and the other not, told it so.
LEMMA AgreeTaken ==
  ASSUME NEW a, NEW p, NEW q, NEW b, Agree(a, p, q, b), a.msd \in {"Master", "Slave"},
         b.msd \notin {"Master", "Slave"}, p \in Seq(Message)
  PROVE  Has(p, Acks)
<1>1. \A d \in Roles :
        RoleState(d) \in {"Master", "Slave"} /\ RoleState(Opposite(d)) \in {"Master", "Slave"}
  BY DEF Roles, RoleState, Opposite
<1>2. ~ Idles(a) /\ ~ Asked(a) /\ ~ Acked(a) BY DEF Idles, Asked, Acked
<1>3. ~ Phase(b, q, p, a)
  <2>1. ASSUME Phase(b, q, p, a) PROVE \E d \in Roles : Determined(b, q, p, a, d)
    BY <1>2, <2>1
    DEF Phase, Quiescent, Asking, Refused, Crossing, RefusedCrossing, BothRefused,
        AskedAgain, Granted, Taken, GrantedCrossing, BothGranted
  <2> QED BY <1>1, <2>1 DEF Determined
<1>4. Phase(a, p, q, b) BY <1>3 DEF Agree
<1>5. PICK d \in Roles : Taken(a, p, q, b, d) \/ Determined(a, p, q, b, d)
  BY <1>2, <1>4
  DEF Phase, Quiescent, Asking, Refused, Crossing, RefusedCrossing, BothRefused,
      AskedAgain, Granted, GrantedCrossing, BothGranted
<1>6. One(p, Ack(Opposite(d))) BY <1>1, <1>5 DEF Taken, Determined
<1>7. PICK i \in DOMAIN p : p[i] = Ack(Opposite(d)) BY <1>6 DEF One
<1>8. p[i] \in Message BY <1>7
<1>9. Ack(Opposite(d)).type = "MSDAck" BY DEF Ack
<1> QED BY <1>7, <1>8, <1>9 DEF Has, Acks, Of

\* A role is final: a message that could change it does not come.
LEMMA RoleFinal ==
  ASSUME NEW a, Good(a), NEW b, NEW p, NEW q \in Seq(Message), Agree(a, p, q, b),
         q # <<>>, a.msd \in {"Master", "Slave"}, NEW num \in Numbers, NEW able
  PROVE  HandleH245Message(a, Head(q), num, able).msd = a.msd
<1> DEFINE m == Head(q)
<1>1. m \in Message BY HeadTailProperties
<1>2. ~ Idles(a) /\ ~ Asked(a) /\ ~ Acked(a) BY DEF Idles, Asked, Acked
<1>3. m.type # "MSD" BY <1>2, RequestPhases
<1>4. m.type # "MSDAck"
  <2>1. SUFFICES ASSUME m.type = "MSDAck" PROVE FALSE OBVIOUS
  <2>2. PICK d \in Roles : d = m.decision BY <1>1, <2>1 DEF Message, Roles
  <2>3. m = Ack(d) BY <1>1, <2>1, <2>2 DEF Message, Ack
  <2> QED BY <1>2, <2>3, AckPhases
<1>5. m.type # "MSDReject"
  <2>1. SUFFICES ASSUME m.type = "MSDReject" PROVE FALSE OBVIOUS
  <2>2. m = Reject BY <1>1, <2>1 DEF Message, Reject
  <2> QED BY <1>2, <2>2, RejectPhases
<1>6. m.type \notin Determines BY <1>3, <1>4, <1>5 DEF Determines
<1>7. Plain(a, HandleH245Message(a, m, num, able))
      \/ Asks(a, HandleH245Message(a, m, num, able))
  BY <1>1, <1>6, OtherMessageKeeps
<1> QED BY <1>7 DEF Plain, Asks

-----------------------------------------------------------------------------
(* The steps                                                                  *)

\* The two ends face each other, and while neither call is cleared every timer has
\* something to wait for.
ChannelInv ==
  \A e \in Ends :
    /\ Side(ends[e], Queue(e), Queue(Peer(e)), ends[Peer(e)])
    /\ Led(ends[e], Queue(Peer(e)))
    /\ Alive => Waits(ends[e], Queue(e), Queue(Peer(e)))

\* The end e becomes a2 as it queues A and reads B.
EndStep(e, a2, A, B) ==
  /\ Good(a2) /\ ends' = [ends EXCEPT ![e] = a2] /\ ~ ends[e].cleared
  /\ wire' \in [Ends -> Seq(Message)] /\ wire'[e] = wire[e]
  /\ B \in SUBSET Message
  /\ Effect(ends[e], a2, A, B)
  /\ Read(Queue(Peer(e)), wire'[Peer(e)] \o ends[Peer(e)].out, B)
  /\ ends[e].msd \in {"Master", "Slave"} => a2.msd = ends[e].msd
  /\ B \cap Acks # {} /\ ends[e].msd # "Idle" => a2.msd \in {"Master", "Slave"}

\* A step in which nothing is read.
LEMMA OwnEndStep ==
  ASSUME Inv, NEW e \in Ends, NEW a2, Good(a2), ends' = [ends EXCEPT ![e] = a2],
         ~ ends[e].cleared, wire' = wire,
         Plain(ends[e], a2) \/ Asks(ends[e], a2), NEW A, Effect(ends[e], a2, A, {})
  PROVE  EndStep(e, a2, A, {})
<1>1. wire' \in [Ends -> Seq(Message)] /\ wire'[e] = wire[e] BY DEF Inv, Typed
<1>2. Read(Queue(Peer(e)), wire'[Peer(e)] \o ends[Peer(e)].out, {})
  BY ReadNothing DEF Queue
<1>3. ends[e].msd \in {"Master", "Slave"} => a2.msd = ends[e].msd
  BY DEF Plain, Asks
<1>4. {} \cap Acks = {} OBVIOUS
<1> QED BY <1>1, <1>2, <1>3, <1>4 DEF EndStep

\* A start is such a step.
LEMMA StartSteps ==
  ASSUME Inv, NEW e \in Ends, NEW kind \in {"connection", "answer"}, Start(e, kind)
  PROVE  \E a2, A, B : EndStep(e, a2, A, B)
<1>1. PICK num \in Numbers :
        ends' = [ends EXCEPT ![e] =
          SendMasterSlaveDetermination(SendTermCapMsg(@), num,
                                       e = "callee" /\ kind = "answer")]
  BY DEF Start
<1> DEFINE a == ends[e]
           c == SendTermCapMsg(a)
           a2 == SendMasterSlaveDetermination(c, num, e = "callee" /\ kind = "answer")
<1>2. Good(a) /\ a \in Endpoint BY QueueType DEF Inv
<1>3. ends' = [ends EXCEPT ![e] = a2] /\ ~ a.cleared /\ wire' = wire
  BY <1>1 DEF Start
<1>4. \E A : Effect(a, a2, A, {}) BY <1>2, StartEffect
<1>5. Good(c) /\ Plain(a, c) BY <1>2, SendTermCapMsgPlain
<1> HIDE DEF c
<1>6. Good(a2) /\ (Plain(c, a2) \/ Asks(c, a2))
  BY <1>5, SendMasterSlaveDeterminationAsks
<1> HIDE DEF a2
<1>7. Plain(a, a2) \/ Asks(a, a2) BY <1>2, <1>5, <1>6, PlainTwice, PlainAsks
<1>8. PICK A : Effect(a, a2, A, {}) BY <1>4
<1>9. EndStep(e, a2, A, {}) BY <1>3, <1>6, <1>7, <1>8, OwnEndStep
<1> QED BY <1>9

\* A timer that runs out is.
LEMMA TimeoutSteps ==
  ASSUME Inv, NEW e \in Ends, MSDTimeout(e) \/ TCSTimeout(e) \/ OLCTimeout(e)
  PROVE  \E a2, A, B : EndStep(e, a2, A, B)
<1> DEFINE a == ends[e]
<1>1. Good(a) /\ a \in Endpoint BY QueueType DEF Inv
<1>2. wire' = wire /\ ~ a.cleared BY DEF MSDTimeout, TCSTimeout, OLCTimeout
<1>3. ASSUME NEW a2, Good(a2), Plain(a, a2), ends' = [ends EXCEPT ![e] = a2],
             \E A : Effect(a, a2, A, {})
      PROVE  \E x, A, B : EndStep(e, x, A, B)
  <2>1. PICK A : Effect(a, a2, A, {}) BY <1>3
  <2>2. EndStep(e, a2, A, {}) BY <1>2, <1>3, <2>1, OwnEndStep
  <2> QED BY <2>2
<1>4. CASE MSDTimeout(e)
  <2>1. a.msdTimers > 0 /\ ends' = [ends EXCEPT ![e] = MSDTimerExpired(a)]
    BY <1>4 DEF MSDTimeout
  <2>2. Good(MSDTimerExpired(a)) /\ Plain(a, MSDTimerExpired(a))
    BY <1>1, <2>1, MSDTimerExpiredPlain
  <2> QED BY <1>1, <1>3, <2>1, <2>2, RequestTimerExpiredEffect
<1>5. CASE TCSTimeout(e)
  <2>1. a.tcsTimers > 0 /\ ends' = [ends EXCEPT ![e] = TCSTimerExpired(a)]
    BY <1>5 DEF TCSTimeout
  <2>2. Good(TCSTimerExpired(a)) /\ Plain(a, TCSTimerExpired(a))
    BY <1>1, <2>1, TCSTimerExpiredPlain
  <2> QED BY <1>1, <1>3, <2>1, <2>2, RequestTimerExpiredEffect
<1>6. CASE OLCTimeout(e)
  <2>1. PICK no \in a.olcTimers :
          ends' = [ends EXCEPT ![e] = OpenLogicalChannelTimerExpired(a, no)]
    BY <1>6 DEF OLCTimeout
  <2>2. no \in Nat BY <1>1, <2>1 DEF Endpoint
  <2>3. /\ Good(OpenLogicalChannelTimerExpired(a, no))
        /\ Plain(a, OpenLogicalChannelTimerExpired(a, no))
    BY <1>1, <2>2, OpenLogicalChannelTimerExpiredPlain
  <2> QED BY <1>1, <1>3, <2>1, <2>2, <2>3, OpenLogicalChannelTimerExpiredEffect
<1> QED BY <1>4, <1>5, <1>6

\* A message that is read and handled is.
LEMMA ReceiveSteps ==
  ASSUME Inv, NEW e \in Ends, Receive(e)
  PROVE  \E a2, A, B : EndStep(e, a2, A, B)
<1> DEFINE a == ends[e]
           b == ends[Peer(e)]
           q == Queue(Peer(e))
           m == Head(wire[Peer(e)])
<1>1. PICK num \in Numbers, able \in SUBSET ({"transmit", "receive"} \X MediaKinds) :
        ends' = [ends EXCEPT ![e] = HandleH245Message(@, m, num, able)]
  BY DrawnMatched DEF Receive
<1> DEFINE a2 == HandleH245Message(a, m, num, able)
<1>2. /\ wire[Peer(e)] # <<>> /\ ~ a.cleared
      /\ wire' = [wire EXCEPT ![Peer(e)] = Tail(@)] /\ starts' = starts
  BY DEF Receive
<1>3. ends' = [ends EXCEPT ![e] = a2] BY <1>1
<1>4. /\ Good(a) /\ wire[Peer(e)] \in Seq(Message)
      /\ b.out \in Seq(Message) /\ q \in Seq(Message)
  BY QueueType, Peers DEF Inv
<1>5. m \in Message /\ Tail(wire[Peer(e)]) \in Seq(Message)
  BY <1>2, <1>4, HeadTailProperties
<1>6. q # <<>> /\ Head(q) = m /\ Tail(q) = Tail(wire[Peer(e)]) \o b.out
  <2>1. PICK w : w = wire[Peer(e)] OBVIOUS
  <2>2. PICK o : o = b.out OBVIOUS
  <2>3. w \in Seq(Message) /\ w # <<>> /\ o \in Seq(Message) BY <1>2, <1>4, <2>1, <2>2
  <2>4. w \o o # <<>> /\ Head(w \o o) = Head(w) /\ Tail(w \o o) = Tail(w) \o o
    BY <2>3
  <2> QED BY <2>1, <2>2, <2>4 DEF Queue
<1>7. Agree(a, Queue(e), q, b) BY DEF Inv
<1>8. wire \in [Ends -> Seq(Message)] BY DEF Inv, Typed
<1>9. /\ wire' \in [Ends -> Seq(Message)]
      /\ wire'[e] = wire[e] /\ wire'[Peer(e)] = Tail(wire[Peer(e)])
  BY <1>2, <1>5, <1>8, Peers
<1>10. PICK A : Effect(a, a2, A, {m}) BY <1>4, <1>5, HandleEffect
<1>11. Read(q, wire'[Peer(e)] \o b.out, {m})
  <2>1. Read(q, Tail(q), {Head(q)}) BY <1>4, <1>6, ReadHead
  <2> HIDE DEF q, m
  <2> QED BY <1>6, <1>9, <2>1
<1>12. a.msd \in {"Master", "Slave"} => a2.msd = a.msd
  <2>1. SUFFICES ASSUME a.msd \in {"Master", "Slave"} PROVE a2.msd = a.msd OBVIOUS
  <2> HIDE DEF q, m, a, b
  <2>2. HandleH245Message(a, Head(q), num, able).msd = a.msd
    BY <1>4, <1>6, <1>7, <2>1, RoleFinal
  <2> QED BY <1>6, <2>2
<1>13. Good(a2)
  <2>1. CASE m.type \notin Determines BY <1>4, <1>5, <2>1, OtherMessageKeeps
  <2>2. CASE m.type = "MSD"
    <3>1. m.term \in Nat /\ m.num \in Numbers BY <1>5, <2>2 DEF Message
    <3>2. a2 = OnMasterSlaveDetermination(a, m.term, m.num, num)
      BY <2>2 DEF HandleH245Message
    <3> QED BY <1>4, <3>1, <3>2, OnMasterSlaveDeterminationSays
  <2>3. CASE m.type = "MSDAck"
    <3>1. m.decision \in {"master", "slave"} BY <1>5, <2>3 DEF Message
    <3>2. a2 = OnMasterSlaveAck(a, m.decision, able) BY <2>3 DEF HandleH245Message
    <3> QED BY <1>4, <3>1, <3>2, OnMasterSlaveAckSays
  <2>4. CASE m.type = "MSDReject"
    <3>1. a2 = OnMasterSlaveReject(a, num) BY <2>4 DEF HandleH245Message
    <3> QED BY <1>4, <3>1, OnMasterSlaveRejectSays
  <2> QED BY <2>1, <2>2, <2>3, <2>4 DEF Determines
<1>14. {m} \cap Acks # {} /\ a.msd # "Idle" => a2.msd \in {"Master", "Slave"}
  <2>1. SUFFICES ASSUME m.type = "MSDAck", a.msd # "Idle"
                 PROVE  a2.msd \in {"Master", "Slave"}
    BY DEF Acks, Of
  <2>2. m.decision \in {"master", "slave"} BY <1>5, <2>1 DEF Message
  <2>3. a2 = OnMasterSlaveAck(a, m.decision, able) BY <2>1 DEF HandleH245Message
  <2>4. RoleState(m.decision) \in {"Master", "Slave"} BY DEF RoleState
  <2>5. a.msd \in {"Idle", "DetermineSent", "AckSent", "Master", "Slave"}
    BY <1>4 DEF Good, Endpoint
  <2> HIDE DEF a, a2, m
  <2>6. /\ a.msd \in {"AckSent", "DetermineSent"} => a2.msd = RoleState(m.decision)
        /\ a.msd \notin {"AckSent", "DetermineSent"} => Plain(a, a2)
    BY <1>4, <2>2, <2>3, OnMasterSlaveAckSays
  <2> QED BY <2>1, <2>4, <2>5, <2>6 DEF Plain
<1> HIDE DEF a2, m
<1>15. EndStep(e, a2, A, {m})
  BY <1>2, <1>3, <1>5, <1>9, <1>10, <1>11, <1>12, <1>13, <1>14 DEF EndStep
<1> QED BY <1>15

\* An end that is offered a channel has a role, and so has one that offers.
LEMMA LedMove ==
  ASSUME NEW a, NEW a2, NEW p, NEW p2 \in Seq(Message), NEW q, NEW q2, NEW b,
         NEW A, NEW B, Effect(a, a2, A, B), Grown(p, p2, A), Read(q, q2, B),
         Led(a, q), Led(b, p), Agree(a, p, q, b), Agree(a2, p2, q2, b),
         a.msd \in {"Master", "Slave"} => a2.msd = a.msd,
         B \cap Acks # {} /\ a.msd # "Idle" => a2.msd \in {"Master", "Slave"}
  PROVE  /\ Led(a2, q2) /\ Led(b, p2)
         /\ B \cap AnyOffer # {} => a.msd \in {"Master", "Slave"}
<1>1. B \cap AnyOffer # {} => a.msd \in {"Master", "Slave"}
  BY DEF Led, Read
<1>2. Led(a2, q2)
  <2> SUFFICES ASSUME a2.msd \notin {"Master", "Slave"} PROVE Ahead(q2, Acks, AnyOffer)
    BY DEF Led
  <2>1. a.msd \notin {"Master", "Slave"} OBVIOUS
  <2>2. Ahead(q, Acks, AnyOffer) BY <2>1 DEF Led
  <2>3. B \cap Acks = {}
    <3>1. CASE a.msd # "Idle" BY <3>1
    <3>2. CASE a.msd = "Idle"
      <4>1. ~ Has(q, Answers) BY <3>2, AgreeIdle
      <4>2. B \cap Answers = {} BY <4>1 DEF Read
      <4> QED BY <4>2 DEF Acks, Answers, Of
    <3> QED BY <3>1, <3>2
  <2> QED BY <2>2, <2>3 DEF Read
<1>3. Led(b, p2)
  <2> SUFFICES ASSUME b.msd \notin {"Master", "Slave"} PROVE Ahead(p2, Acks, AnyOffer)
    BY DEF Led
  <2>1. Ahead(p, Acks, AnyOffer) BY DEF Led
  <2>2. CASE A \cap AnyOffer = {} BY <2>1, <2>2 DEF Grown
  <2>3. CASE A \cap AnyOffer # {}
    <3>1. ListEffect(a, a2, A, B) BY DEF Effect
    <3>2. ~ Stays(a, a2, A) /\ ~ Accepts(a, a2, A, B) /\ ~ Drops(a, a2, A, B)
      BY <2>3 DEF Stays, Accepts, Drops, AnyOffer, Of
    <3>3. a2.msd \in {"Master", "Slave"} /\ A \cap Acks = {}
      BY <3>1, <3>2 DEF ListEffect, Opens, Follows
    <3>4. Has(p2, Acks) BY <3>3, AgreeTaken
    <3>5. Has(p, Acks) BY <3>3, <3>4 DEF Grown
    <3> QED BY <2>1, <3>5 DEF Grown
  <2> QED BY <2>2, <2>3
<1> QED BY <1>1, <1>2, <1>3

\* A step of one end keeps what is between the two.
LEMMA EndStepKeeps ==
  ASSUME Inv, Inv', ChannelInv, NEW e \in Ends, NEW a2, NEW A, NEW B,
         EndStep(e, a2, A, B)
  PROVE  ChannelInv'
<1> DEFINE a == ends[e]
           b == ends[Peer(e)]
           p == Queue(e)
           q == Queue(Peer(e))
           p2 == wire[e] \o a2.out
           q2 == wire'[Peer(e)] \o b.out
<1>1. /\ Good(a2) /\ ends' = [ends EXCEPT ![e] = a2] /\ ~ a.cleared
      /\ wire'[e] = wire[e] /\ B \in SUBSET Message
      /\ Effect(a, a2, A, B) /\ Read(q, q2, B)
      /\ a.msd \in {"Master", "Slave"} => a2.msd = a.msd
      /\ B \cap Acks # {} /\ a.msd # "Idle" => a2.msd \in {"Master", "Slave"}
  BY DEF EndStep
<1>2. /\ wire[e] \in Seq(Message) /\ a.out \in Seq(Message) /\ Agree(a, p, q, b)
  BY QueueType DEF Inv
<1>3. Grown(p, p2, A) /\ Grown(a.out, a2.out, A)
  BY <1>1, <1>2, GainsGrow DEF Effect, Queue
<1>4. ends \in [Ends -> Endpoint] BY DEF Inv, Typed
<1>5. ends'[e] = a2 /\ ends'[Peer(e)] = b BY <1>1, <1>4, Peers
<1>6. Peer(e) \in Ends /\ Peer(Peer(e)) = e /\ \A f \in Ends : f = e \/ f = Peer(e)
  BY Peers
<1>7. Facing(a, p, q, b) BY <1>6 DEF ChannelInv, Facing
<1>8. (a.msd = "Slave" => b.msd # "Slave")
      /\ (a.msd = "Idle" => ~ Has(p, Requests) /\ ~ Has(q, Answers))
  BY <1>2, AgreeSlaves, AgreeIdle
<1>9. (~ a.cleared /\ ~ b.cleared) => Waits(a, p, q) /\ Waits(b, q, p)
  BY <1>6 DEF ChannelInv, Alive
<1> HIDE DEF a, b, p, q, p2, q2
<1>10. Moves(a, a2, p, p2, q, q2, A, B) BY <1>1, <1>3 DEF Moves
<1>11. Facing(a2, p2, q2, b) BY <1>1, <1>7, <1>8, <1>10, FacingMove
<1>12. ~ a2.cleared /\ ~ b.cleared => Waits(a2, p2, q2) /\ Waits(b, q2, p2)
  BY <1>1, <1>3, <1>8, <1>9, WaitsMove
<1>13. /\ Queue(e)' = p2 /\ Queue(Peer(e))' = q2
  BY <1>1, <1>5, <1>6 DEF Queue, p2, q2
<1>14. Alive' => ~ a2.cleared /\ ~ b.cleared BY <1>5, <1>6 DEF Alive
<1>15. Led(a2, q2) /\ Led(b, p2)
  <2>1. Led(a, q) /\ Led(b, p) BY <1>6 DEF ChannelInv, a, b, p, q
  <2>2. Agree(a2, p2, q2, b) BY <1>5, <1>13 DEF Inv
  <2>3. p2 \in Seq(Message)
    <3>1. PICK w : w = wire[e] OBVIOUS
    <3>2. PICK o : o = a2.out OBVIOUS
    <3>3. w \in Seq(Message) /\ o \in Seq(Message)
      BY <1>1, <1>2, <3>1, <3>2, EndpointFields DEF Good
    <3>4. w \o o \in Seq(Message) BY <3>3, ConcatProperties
    <3> QED BY <3>1, <3>2, <3>4 DEF p2
  <2>4. Effect(a, a2, A, B) /\ Grown(p, p2, A) /\ Read(q, q2, B) BY <1>1, <1>3
  <2>5. a.msd \in {"Master", "Slave"} => a2.msd = a.msd BY <1>1
  <2>6. B \cap Acks # {} /\ a.msd # "Idle" => a2.msd \in {"Master", "Slave"} BY <1>1
  <2>7. Agree(a, p, q, b) BY <1>2
  <2> QED BY <2>1, <2>2, <2>3, <2>4, <2>5, <2>6, <2>7, LedMove
<1>16. \A f \in Ends :
         /\ Side(ends'[f], Queue(f)', Queue(Peer(f))', ends'[Peer(f)])
         /\ Led(ends'[f], Queue(Peer(f))')
         /\ Alive' => Waits(ends'[f], Queue(f)', Queue(Peer(f))')
  <2> TAKE f \in Ends
  <2>1. CASE f = e BY <1>5, <1>11, <1>12, <1>13, <1>14, <1>15, <2>1 DEF Facing
  <2>2. CASE f = Peer(e) BY <1>5, <1>6, <1>11, <1>12, <1>13, <1>14, <1>15, <2>2 DEF Facing
  <2> QED BY <1>6, <2>1, <2>2
<1> QED BY <1>16 DEF ChannelInv

\* Timers and the queue are not what the two ends face each other with.
LEMMA SameFacing ==
  ASSUME NEW a, NEW a2, NEW p, NEW q, NEW b, Facing(a, p, q, b),
         Alters(a, a2, {"out", "msdTimers", "tcsTimers", "olcTimers", "clcTimers"})
  PROVE  Facing(a2, p, q, b)
<1>1. /\ a2.chans = a.chans /\ a2.nextNo = a.nextNo /\ a2.msd = a.msd
      /\ a2.cleared = a.cleared
  BY DEF Alters, Fields
<1>2. /\ Held(a2) = Held(a) /\ Once(a2) = Once(a)
      /\ \A dir, media : Holds(a2, dir, media) <=> Holds(a, dir, media)
  BY <1>1 DEF Held, Once, Holds
<1>3. Side(a2, p, q, b)
  <2>1. Side(a, p, q, b) BY DEF Facing
  <2>2. Awaits(a2, p, q, b) /\ Unopened(a2, p, b) BY <1>1, <1>2, <2>1 DEF Side, Awaits, Unopened
  <2>3. EmptyIsUnopened(a2, q, b) /\ ClosesLast(a2, p)
    BY <1>1, <1>2, <2>1 DEF Side, EmptyIsUnopened, ClosesLast
  <2>4. OpensInTurn(a2, b) /\ Paired(a2, p, b)
    BY <1>1, <1>2, <2>1 DEF Side, OpensInTurn, Paired
  <2> QED BY <1>1, <1>2, <2>1, <2>2, <2>3, <2>4 DEF Side
<1>4. Side(b, q, p, a2)
  <2>1. Side(b, q, p, a) BY DEF Facing
  <2>2. OfferedOnce(q, a2) /\ Awaits(b, q, p, a2) /\ Unopened(b, q, a2)
    BY <1>2, <2>1 DEF Side, OfferedOnce, Awaits, Unopened
  <2>3. EmptyIsUnopened(b, p, a2) /\ OpensInTurn(b, a2) /\ Paired(b, q, a2)
    BY <1>1, <1>2, <2>1 DEF Side, EmptyIsUnopened, OpensInTurn, Paired
  <2> QED BY <2>1, <2>2, <2>3 DEF Side
<1> QED BY <1>3, <1>4 DEF Facing

\* A message that leaves the queue arms the timer it needs.
LEMMA OnSentAlters ==
  ASSUME NEW c \in Endpoint, NEW m \in Message
  PROVE  LET d == OnSent(c, m)
         IN /\ Alters(c, d, {"msdTimers", "tcsTimers", "olcTimers", "clcTimers"})
            /\ d.msdTimers = c.msdTimers + (IF m.type = "MSD" THEN 1 ELSE 0)
            /\ d.tcsTimers = c.tcsTimers + (IF m.type = "TCS" THEN 1 ELSE 0)
            /\ d.olcTimers = c.olcTimers \cup (IF m.type = "OLC" THEN {m.no} ELSE {})
<1>1. DOMAIN c = Fields /\ c.msdTimers \in Nat /\ c.tcsTimers \in Nat
  BY EndpointFields
<1>2. CASE m.type = "MSD" BY <1>1, <1>2 DEF OnSent, Alters, Fields
<1>3. CASE m.type = "TCS" BY <1>1, <1>3 DEF OnSent, Alters, Fields
<1>4. CASE m.type = "OLC" BY <1>1, <1>4 DEF OnSent, Alters, Fields
<1>5. CASE m.type = "CLC" BY <1>1, <1>5 DEF OnSent, Alters, Fields
<1>6. CASE m.type \notin {"MSD", "TCS", "OLC", "CLC"} BY <1>1, <1>6 DEF OnSent, Alters
<1> QED BY <1>2, <1>3, <1>4, <1>5, <1>6

\* A timer that is armed waits for the message that left.
LEMMA SentWaits ==
  ASSUME NEW a, NEW a2, NEW m \in Message, NEW t \in Seq(Message),
         NEW w \in Seq(Message), NEW q,
         a.out \in Seq(Message), a.out = <<m>> \o t, a2.out = t,
         a2.local = a.local, a2.localSeq = a.localSeq,
         a2.msdTimers = a.msdTimers + (IF m.type = "MSD" THEN 1 ELSE 0),
         a2.tcsTimers = a.tcsTimers + (IF m.type = "TCS" THEN 1 ELSE 0),
         a2.olcTimers = a.olcTimers \cup (IF m.type = "OLC" THEN {m.no} ELSE {}),
         Few(w \o a.out, Requests), Waits(a, w \o a.out, q)
  PROVE  Waits(a2, w \o a.out, q)
<1> DEFINE p == w \o a.out
<1>1. PICK o : o = a.out OBVIOUS
<1>2. \A K : Has(p, K) <=> Has(w, K) \/ Has(a.out, K)
  <2>1. \A K : Has(w \o o, K) <=> Has(w, K) \/ Has(o, K) BY <1>1, HasConcat
  <2> QED BY <1>1, <2>1
<1>3. \A K : Few(p, K) => Few(a.out, K)
  <2>1. \A K : Few(w \o o, K) => Few(o, K) BY <1>1, FewConcat
  <2> QED BY <1>1, <2>1
<1>4. <<m>> \in Seq(Message) /\ \A K : Has(<<m>>, K) <=> m \in K
  <2>1. <<m>> \in Seq(Message) /\ DOMAIN <<m>> = {1} /\ <<m>>[1] = m OBVIOUS
  <2> QED BY <2>1 DEF Has
<1>5. \A K : Has(a.out, K) <=> m \in K \/ Has(t, K)
  <2>1. \A K : Has(<<m>> \o t, K) <=> Has(<<m>>, K) \/ Has(t, K) BY <1>4, HasConcat
  <2> QED BY <1>4, <2>1
<1>6. \A K : Few(a.out, K) /\ m \in K => ~ Has(t, K)
  <2>1. \A K : Few(<<m>> \o t, K) => ~ (Has(<<m>>, K) /\ Has(t, K)) BY <1>4, FewConcat
  <2> QED BY <1>4, <2>1
<1>7. \A K : m \in K => Has(p, K) BY <1>2, <1>5
<1> HIDE DEF p
<1>8. Waits(a, p, q) /\ Few(p, Requests) BY DEF p
<1>9. CapsWait(a2, p, q)
  <2>1. CASE m.type = "TCS"
    <3>1. m \in Sets BY <2>1 DEF Sets, Of
    <3>2. a.tcsTimers = 0 BY <1>5, <1>8, <3>1 DEF Waits, CapsWait
    <3>3. a2.tcsTimers = 1 /\ ~ Has(a2.out, Sets) /\ Has(p, Sets)
      BY <1>3, <1>6, <1>7, <1>8, <2>1, <3>1, <3>2 DEF Waits, CapsWait
    <3> QED BY <1>8, <3>3 DEF Waits, CapsWait
  <2>2. CASE m.type # "TCS"
    <3>1. a2.tcsTimers = a.tcsTimers BY <1>8, <2>2 DEF Waits, CapsWait
    <3>2. Has(a2.out, Sets) => Has(a.out, Sets) BY <1>5
    <3> QED BY <1>8, <3>1, <3>2 DEF Waits, CapsWait
  <2> QED BY <2>1, <2>2
<1>10. RoleWait(a2, p, q)
  <2>1. CASE m.type = "MSD"
    <3>1. m \in Requests BY <2>1 DEF Requests, Of
    <3>2. a.msdTimers = 0 BY <1>5, <1>8, <3>1 DEF Waits, RoleWait
    <3>3. a2.msdTimers = 1 /\ ~ Has(a2.out, Requests) /\ Has(p, Requests)
      BY <1>3, <1>6, <1>7, <1>8, <2>1, <3>1, <3>2
    <3> QED BY <3>3 DEF RoleWait
  <2>2. CASE m.type # "MSD"
    <3>1. a2.msdTimers = a.msdTimers BY <1>8, <2>2 DEF Waits, RoleWait
    <3>2. Has(a2.out, Requests) => Has(a.out, Requests) BY <1>5
    <3> QED BY <1>8, <3>1, <3>2 DEF Waits, RoleWait
  <2> QED BY <2>1, <2>2
<1>11. ChanWait(a2, p, q)
  <2> SUFFICES ASSUME NEW no \in a2.olcTimers
               PROVE  Has(p, OfferOf(no)) \/ Has(q, OfferAnswers(no))
    BY DEF ChanWait
  <2>1. CASE no \in a.olcTimers BY <1>8, <2>1 DEF Waits, ChanWait
  <2>2. CASE m.type = "OLC" /\ no = m.no
    <3>1. m \in OfferOf(no) BY <2>2 DEF OfferOf, Of
    <3> QED BY <1>7, <3>1
  <2> QED BY <2>1, <2>2
<1> QED BY <1>9, <1>10, <1>11 DEF Waits, p

\* A message leaves the queue.
LEMMA SendChannels ==
  ASSUME Inv, ChannelInv, NEW e \in Ends, Send(e)
  PROVE  ChannelInv'
<1> DEFINE a == ends[e]
           b == ends[Peer(e)]
           w == wire[e]
           m == Head(a.out)
           t == Tail(a.out)
           g == [a EXCEPT !.out = t]
           a2 == OnSent(g, m)
           q == Queue(Peer(e))
<1>1. /\ a \in Endpoint /\ a.out \in Seq(Message) /\ w \in Seq(Message)
      /\ Agree(a, Queue(e), q, b)
  BY QueueType DEF Inv
<1>2. /\ a.out # <<>>
      /\ wire' = [wire EXCEPT ![e] = Append(@, m)]
      /\ ends' = [ends EXCEPT ![e] = a2]
  <2>1. a.out # <<>> BY DEF Send
  <2>2. wire' = [wire EXCEPT ![e] = Append(@, m)] BY Zenon DEF Send
  <2>3. ends' = [ends EXCEPT ![e] = a2] BY Zenon DEF Send
  <2> QED BY <2>1, <2>2, <2>3
<1>3. m \in Message /\ t \in Seq(Message) /\ a.out = <<m>> \o t
  BY <1>1, <1>2, HeadTailProperties
<1> HIDE DEF m, t
<1>4. g \in Endpoint BY <1>1, <1>3, ZenonT(30) DEF Endpoint
<1>5. DOMAIN a = Fields BY <1>1, EndpointFields
<1>6. Alters(a, g, {"out"}) /\ g.out = t BY <1>5 DEF Alters, Fields
<1> HIDE DEF g
<1>7. /\ Alters(g, a2, {"msdTimers", "tcsTimers", "olcTimers", "clcTimers"})
      /\ a2.msdTimers = g.msdTimers + (IF m.type = "MSD" THEN 1 ELSE 0)
      /\ a2.tcsTimers = g.tcsTimers + (IF m.type = "TCS" THEN 1 ELSE 0)
      /\ a2.olcTimers = g.olcTimers \cup (IF m.type = "OLC" THEN {m.no} ELSE {})
  BY <1>3, <1>4, OnSentAlters
<1> HIDE DEF a2
<1>8. /\ Alters(a, a2, {"out", "msdTimers", "tcsTimers", "olcTimers", "clcTimers"})
      /\ a2.out = t /\ a2.local = a.local /\ a2.localSeq = a.localSeq
      /\ a2.cleared = a.cleared
      /\ g.msdTimers = a.msdTimers /\ g.tcsTimers = a.tcsTimers
      /\ g.olcTimers = a.olcTimers
  BY <1>6, <1>7 DEF Alters, Fields
<1>9. Append(w, m) \o t = Queue(e)
  <2>1. PICK v : v = w OBVIOUS
  <2>2. PICK o : o = a.out OBVIOUS
  <2>3. v \in Seq(Message) /\ <<m>> \in Seq(Message) BY <1>1, <1>3, <2>1
  <2>4. Append(v, m) = v \o <<m>> BY <1>3, <2>3, AppendIsConcat
  <2>5. (v \o <<m>>) \o t = v \o (<<m>> \o t) BY <1>3, <2>3, Regroup
  <2> QED BY <1>3, <2>1, <2>2, <2>4, <2>5 DEF Queue
<1>10. ends \in [Ends -> Endpoint] /\ wire \in [Ends -> Seq(Message)]
  BY DEF Inv, Typed
<1>11. Peer(e) \in Ends /\ Peer(e) # e /\ Peer(Peer(e)) = e
       /\ \A f \in Ends : f = e \/ f = Peer(e)
  BY Peers
<1>12. ends'[e] = a2 /\ ends'[Peer(e)] = b /\ wire'[e] = Append(w, m)
       /\ wire'[Peer(e)] = wire[Peer(e)]
  BY <1>2, <1>10, <1>11
<1>13. Queue(e)' = Queue(e) /\ Queue(Peer(e))' = q
  BY <1>8, <1>9, <1>12 DEF Queue
<1>14. Facing(a, Queue(e), q, b) BY <1>11 DEF ChannelInv, Facing
<1>15. Facing(a2, Queue(e), q, b) BY <1>8, <1>14, SameFacing
<1>16. (~ a.cleared /\ ~ b.cleared) => Waits(a, Queue(e), q) /\ Waits(b, q, Queue(e))
  BY <1>11 DEF ChannelInv, Alive
<1>17. Few(Queue(e), Requests) BY <1>1, AgreeRequests
<1>18. Queue(e) = w \o a.out BY DEF Queue
<1>19. (~ a2.cleared /\ ~ b.cleared) => Waits(a2, Queue(e), q) /\ Waits(b, q, Queue(e))
  <2> HIDE DEF a, b, q, w
  <2> SUFFICES ASSUME ~ a2.cleared, ~ b.cleared
               PROVE  Waits(a2, Queue(e), q) /\ Waits(b, q, Queue(e))
    OBVIOUS
  <2>1. Waits(a, w \o a.out, q) /\ Waits(b, q, Queue(e)) BY <1>8, <1>16, <1>18
  <2>2. /\ a2.msdTimers = a.msdTimers + (IF m.type = "MSD" THEN 1 ELSE 0)
        /\ a2.tcsTimers = a.tcsTimers + (IF m.type = "TCS" THEN 1 ELSE 0)
        /\ a2.olcTimers = a.olcTimers \cup (IF m.type = "OLC" THEN {m.no} ELSE {})
    BY <1>7, <1>8
  <2>3. Few(w \o a.out, Requests) BY <1>17, <1>18
  <2>4. a2.out = t /\ a2.local = a.local /\ a2.localSeq = a.localSeq BY <1>8
  <2>5. Waits(a2, w \o a.out, q)
    BY <1>1, <1>3, <2>1, <2>2, <2>3, <2>4, SentWaits
  <2> QED BY <1>18, <2>1, <2>5
<1>20. Alive' => ~ a2.cleared /\ ~ b.cleared BY <1>11, <1>12 DEF Alive
<1>21. Led(a2, q) /\ Led(b, Queue(e))
  <2>1. Led(a, q) /\ Led(b, Queue(e)) BY <1>11 DEF ChannelInv
  <2>2. a2.msd = a.msd BY <1>8 DEF Alters, Fields
  <2> QED BY <2>1, <2>2 DEF Led
<1>22. \A f \in Ends :
         /\ Side(ends'[f], Queue(f)', Queue(Peer(f))', ends'[Peer(f)])
         /\ Led(ends'[f], Queue(Peer(f))')
         /\ Alive' => Waits(ends'[f], Queue(f)', Queue(Peer(f))')
  <2> HIDE DEF a, b, q, w
  <2> TAKE f \in Ends
  <2>1. CASE f = e BY <1>12, <1>13, <1>15, <1>19, <1>20, <1>21, <2>1 DEF Facing, q
  <2>2. CASE f = Peer(e)
    BY <1>11, <1>12, <1>13, <1>15, <1>19, <1>20, <1>21, <2>2 DEF Facing
  <2> QED BY <1>11, <2>1, <2>2
<1> QED BY <1>22 DEF ChannelInv

\* Two ends that did nothing yet.
LEMMA InitChannels == ASSUME Init PROVE ChannelInv
<1>1. PICK term \in TermTypes, send \in [Ends -> BOOLEAN] :
        ends = [e \in Ends |-> NewEndpoint(term[e], send[e])]
  BY DEF Init
<1>2. \A e \in Ends :
        /\ ends[e].chans = <<>> /\ ends[e].out = <<>> /\ ends[e].nextNo = 1
        /\ ends[e].tcsTimers = 0 /\ ends[e].msdTimers = 0 /\ ends[e].olcTimers = {}
        /\ wire[e] = <<>>
  BY <1>1 DEF Init, NewEndpoint
<1>3. \A e \in Ends : Queue(e) = <<>>
  <2> TAKE e \in Ends
  <2>1. <<>> \o <<>> = <<>> BY ConcatEmptySeq
  <2> QED BY <1>2, <2>1 DEF Queue
<1>4. DOMAIN <<>> = {} OBVIOUS
<1>5. \A K, L : ~ Has(<<>>, K) /\ Few(<<>>, K) /\ Last(<<>>, K) /\ Ahead(<<>>, K, L)
  BY <1>4 DEF Has, Few, Last, Ahead
<1>6. \A e \in Ends : Held(ends[e]) = {} /\ Once(ends[e])
                      /\ \A d, m : ~ Holds(ends[e], d, m)
  BY <1>2, NoneHeld
<1> SUFFICES ASSUME NEW e \in Ends
             PROVE  /\ Side(ends[e], <<>>, <<>>, ends[Peer(e)])
                    /\ Led(ends[e], <<>>)
                    /\ Waits(ends[e], <<>>, <<>>)
  BY <1>3, Peers DEF ChannelInv
<1>7. Peer(e) \in Ends BY Peers
<1>8. Side(ends[e], <<>>, <<>>, ends[Peer(e)])
  <2> DEFINE a == ends[e]
             b == ends[Peer(e)]
  <2>1. /\ Held(a) = {} /\ Held(b) = {} /\ Once(a) /\ a.nextNo = 1
        /\ \A d, m : ~ Holds(a, d, m) /\ ~ Holds(b, d, m)
    BY <1>2, <1>6, <1>7
  <2> HIDE DEF a, b
  <2>2. OfferedOnce(<<>>, b) /\ Awaits(a, <<>>, <<>>, b) /\ Unopened(a, <<>>, b)
    BY <1>5, <2>1 DEF OfferedOnce, Awaits, Unopened
  <2>3. EmptyIsUnopened(a, <<>>, b) /\ ClosesLast(a, <<>>) /\ OpensInTurn(a, b)
    BY <1>5, <2>1 DEF EmptyIsUnopened, ClosesLast, OpensInTurn
  <2>4. Paired(a, <<>>, b) BY <1>5, <2>1 DEF Paired
  <2>5. Side(a, <<>>, <<>>, b) BY <2>1, <2>2, <2>3, <2>4 DEF Side
  <2> QED BY <2>5 DEF a, b
<1>9. Waits(ends[e], <<>>, <<>>)
  BY <1>2, <1>5 DEF Waits, CapsWait, RoleWait, ChanWait
<1>10. Led(ends[e], <<>>) BY <1>5 DEF Led
<1> QED BY <1>8, <1>9, <1>10

\* Every step keeps it.
LEMMA NextChannels == ASSUME Inv, ChannelInv, [Next]_vars PROVE ChannelInv'
<1>1. CASE Next
  <2>1. PICK e \in Ends :
          \/ \E kind \in {"connection", "answer"} : Start(e, kind)
          \/ Send(e)
          \/ Receive(e)
          \/ MSDTimeout(e)
          \/ TCSTimeout(e)
          \/ OLCTimeout(e)
    BY <1>1 DEF Next
  <2>2. CASE Send(e) BY <2>2, SendChannels
  <2>3. CASE \E a2, A, B : EndStep(e, a2, A, B)
    <3>1. Inv' BY NextInv
    <3> QED BY <2>3, <3>1, EndStepKeeps
  <2> QED BY <2>1, <2>2, <2>3, StartSteps, ReceiveSteps, TimeoutSteps
<1>2. CASE UNCHANGED vars
  BY <1>2 DEF vars, ChannelInv, Alive, Queue
<1> QED BY <1>1, <1>2 DEF vars

\* What the two ends hold, have offered and wait for fits together at all times.
THEOREM ChannelInvHolds == Spec => []ChannelInv
BY InvHolds, InitChannels, NextChannels, PTL DEF Spec

-----------------------------------------------------------------------------
(* What follows                                                               *)

\* No medium is opened twice in one direction, although three handlers open channels
\* and an end may be started twice (the tests of call->logicalChans in
\* ooHandleMasterSlave and both TerminalCapabilitySet handlers).
THEOREM EachMediumOnceHolds == Spec => []EachMediumOnce
<1>1. ChannelInv => EachMediumOnce
  <2>1. ASSUME ChannelInv, NEW e \in Ends PROVE OnceIn(ends[e].chans)
    BY <2>1 DEF ChannelInv, Side, Once
  <2> QED BY <2>1 DEF OnceIn, EachMediumOnce
<1> QED BY <1>1, ChannelInvHolds, PTL

\* What an end receives the other end sends under the same number, while neither call
\* is cleared (ooHandleOpenLogicalChannel_helper, ooOpenChannel).
THEOREM ChannelsPairHolds == Spec => []ChannelsPair
<1>1. ASSUME ChannelInv, Alive, NEW e \in Ends, NEW c \in MsgRange(ends[e].chans),
             c.dir = "receive"
      PROVE  \E d \in MsgRange(ends[Peer(e)].chans) :
               d.dir = "transmit" /\ d.no = c.no /\ d.media = c.media
  <2> DEFINE a == ends[e]
             b == ends[Peer(e)]
  <2>1. Paired(b, Queue(Peer(e)), a)
    <3>1. Peer(e) \in Ends /\ Peer(Peer(e)) = e BY Peers
    <3> QED BY <1>1, <3>1 DEF ChannelInv, Side
  <2>2. ~ a.cleared /\ ~ b.cleared BY <1>1, Peers DEF Alive
  <2>3. PICK i \in DOMAIN a.chans : a.chans[i] = c BY <1>1 DEF MsgRange
  <2>4. <<"receive", c.no, c.media>> \in Held(a) BY <1>1, <2>3 DEF Held, Listed
  <2>5. <<"transmit", c.no, c.media>> \in Held(b) BY <2>1, <2>2, <2>4 DEF Paired
  <2>6. PICK j \in DOMAIN b.chans :
          <<"transmit", c.no, c.media>>
            = <<b.chans[j].dir, b.chans[j].no, b.chans[j].media>>
    BY <2>5 DEF Held, Listed
  <2>7. b.chans[j] \in MsgRange(b.chans) BY DEF MsgRange
  <2> QED BY <2>6, <2>7
<1>2. ChannelInv => ChannelsPair BY <1>1 DEF ChannelsPair
<1> QED BY <1>2, ChannelInvHolds, PTL

\* A message of the queue is coming.
LEMMA QueueComing ==
  ASSUME Inv, NEW e \in Ends, NEW K, Has(Queue(e), K)
  PROVE  \E m \in Coming(e) : m \in K
<1>1. wire[e] \in Seq(Message) /\ ends[e].out \in Seq(Message)
  BY QueueType DEF Inv
<1>2. PICK w : w = wire[e] OBVIOUS
<1>3. PICK o : o = ends[e].out OBVIOUS
<1>4. Has(w \o o, K) BY <1>2, <1>3 DEF Queue
<1>5. Has(w, K) \/ Has(o, K) BY <1>1, <1>2, <1>3, <1>4, HasConcat
<1> QED BY <1>2, <1>3, <1>5 DEF Has, Coming, MsgRange

\* While neither call is cleared, every timer waits for a request that is still on its
\* way or for an answer that is: none is left over that would clear the call later
\* (ooH245MessageTimer of ooSendAsTunneledMessage and ooSendMsg, and the searches of
\* call->timerList in the handlers of the answers).
THEOREM NoStaleTimerHolds == Spec => []NoStaleTimer
<1>1. ASSUME Inv, ChannelInv, Alive, NEW e \in Ends
      PROVE  /\ ends[e].msdTimers > 0 =>
                  \/ \E m \in Coming(e) : m.type = "MSD"
                  \/ \E m \in Coming(Peer(e)) : m.type \in {"MSDAck", "MSDReject"}
             /\ ends[e].tcsTimers > 0 =>
                  \/ \E m \in Coming(e) : m.type = "TCS"
                  \/ \E m \in Coming(Peer(e)) : m.type \in {"TCSAck", "TCSReject"}
             /\ \A no \in ends[e].olcTimers :
                  \/ \E m \in Coming(e) : m.type = "OLC" /\ m.no = no
                  \/ \E m \in Coming(Peer(e)) :
                       m.type \in {"OLCAck", "OLCReject"} /\ m.no = no
  <2> DEFINE a == ends[e]
             p == Queue(e)
             q == Queue(Peer(e))
  <2>1. Waits(a, p, q) BY <1>1 DEF ChannelInv
  <2>2. /\ \A K : Has(p, K) => \E m \in Coming(e) : m \in K
        /\ \A K : Has(q, K) => \E m \in Coming(Peer(e)) : m \in K
    BY <1>1, Peers, QueueComing
  <2>3. ASSUME a.msdTimers > 0
        PROVE  \/ \E m \in Coming(e) : m.type = "MSD"
               \/ \E m \in Coming(Peer(e)) : m.type \in {"MSDAck", "MSDReject"}
    <3>1. Has(p, Requests) \/ Has(q, Answers) BY <2>1, <2>3 DEF Waits, RoleWait
    <3> QED BY <2>2, <3>1 DEF Requests, Answers, Of
  <2>4. ASSUME a.tcsTimers > 0
        PROVE  \/ \E m \in Coming(e) : m.type = "TCS"
               \/ \E m \in Coming(Peer(e)) : m.type \in {"TCSAck", "TCSReject"}
    <3>1. Has(p, Sets) \/ Has(q, SetAnswers) BY <2>1, <2>4 DEF Waits, CapsWait
    <3> QED BY <2>2, <3>1 DEF Sets, SetAnswers, Of
  <2>5. ASSUME NEW no \in a.olcTimers
        PROVE  \/ \E m \in Coming(e) : m.type = "OLC" /\ m.no = no
               \/ \E m \in Coming(Peer(e)) :
                    m.type \in {"OLCAck", "OLCReject"} /\ m.no = no
    <3>1. Has(p, OfferOf(no)) \/ Has(q, OfferAnswers(no))
      BY <2>1 DEF Waits, ChanWait
    <3> QED BY <2>2, <3>1 DEF OfferOf, OfferAnswers, Of
  <2> QED BY <2>3, <2>4, <2>5
<1>2. Inv /\ ChannelInv => NoStaleTimer BY <1>1 DEF NoStaleTimer
<1> QED BY <1>2, InvHolds, ChannelInvHolds, PTL

\* The media of the channels of an end.
LEMMA HeldMedia ==
  ASSUME NEW c
  PROVE  /\ \A media : media \in Transmitted(c) <=> Holds(c, "transmit", media)
         /\ \A media : media \in Received(c) <=> Holds(c, "receive", media)
<1>1. ASSUME NEW dir, NEW media PROVE media \in MediaOf(c, dir) <=> Holds(c, dir, media)
  <2>1. ASSUME media \in MediaOf(c, dir) PROVE Holds(c, dir, media)
    <3>1. PICK i \in DOMAIN c.chans : c.chans[i].dir = dir /\ c.chans[i].media = media
      BY <2>1 DEF MediaOf
    <3>2. <<dir, c.chans[i].no, media>> \in Held(c) BY <3>1 DEF Held, Listed
    <3> QED BY <3>2 DEF Holds
  <2>2. ASSUME Holds(c, dir, media) PROVE media \in MediaOf(c, dir)
    <3>1. PICK no : <<dir, no, media>> \in Held(c) BY <2>2 DEF Holds
    <3>2. PICK i \in DOMAIN c.chans :
            <<dir, no, media>> = <<c.chans[i].dir, c.chans[i].no, c.chans[i].media>>
      BY <3>1 DEF Held, Listed
    <3> QED BY <3>2 DEF MediaOf
  <2> QED BY <2>1, <2>2
<1> QED BY <1>1 DEF Transmitted, Received

\* The end that does not become master opens only what it accepted in the step.
LEMMA FollowsInStep ==
  ASSUME Inv, ChannelInv, NEW e \in Ends, NEW a2, NEW A, NEW B, EndStep(e, a2, A, B),
         a2.msd # "Master",
         NEW media, Holds(a2, "transmit", media), ~ Holds(ends[e], "transmit", media)
  PROVE  Holds(a2, "receive", media) /\ ~ Holds(ends[e], "receive", media)
<1> DEFINE a == ends[e]
           q == Queue(Peer(e))
<1>1. ListEffect(a, a2, A, B) /\ \A K : B \cap K # {} => Has(q, K)
  BY DEF EndStep, Effect, Read
<1>2. OfferedOnce(q, a)
  <2>1. Peer(e) \in Ends /\ Peer(Peer(e)) = e BY Peers
  <2> QED BY <2>1 DEF ChannelInv, Side
<1> HIDE DEF a, q
<1>3. PICK no : <<"transmit", no, media>> \in Held(a2) BY DEF Holds
<1>4. <<"transmit", no, media>> \notin Held(a) BY DEF Holds, a
<1>5. ~ Stays(a, a2, A) /\ ~ Opens(a, a2, A) /\ ~ Drops(a, a2, A, B)
  BY <1>3, <1>4 DEF Stays, Opens, Drops
<1>6. ~ Accepts(a, a2, A, B) BY <1>3, <1>4 DEF Accepts
<1>7. Follows(a, a2, A, B) BY <1>1, <1>5, <1>6 DEF ListEffect
<1>8. PICK m \in B \cap Of({"OLC"}) :
        Held(a2) = Held(a) \cup {<<"receive", m.no, m.media>>,
                                 <<"transmit", a.nextNo, m.media>>}
  BY <1>7 DEF Follows
<1>9. m.media = media BY <1>3, <1>4, <1>8
<1>10. Holds(a2, "receive", media) BY <1>8, <1>9 DEF Holds
<1>11. ~ Holds(a, "receive", media)
  <2>1. B \cap Offers(media) # {} BY <1>8, <1>9 DEF Offers
  <2> QED BY <1>1, <1>2, <2>1 DEF OfferedOnce
<1> QED BY <1>10, <1>11 DEF a

\* A message that leaves the queue leaves roles and channels alone.
LEMMA SendLeaves ==
  ASSUME Inv, NEW e \in Ends, Send(e)
  PROVE  \A f \in Ends :
           /\ ends'[f].chans = ends[f].chans
           /\ ends'[f].msd = ends[f].msd
           /\ ends'[f].cleared = ends[f].cleared
<1> DEFINE a == ends[e]
           m == Head(a.out)
           g == [a EXCEPT !.out = Tail(a.out)]
           d == OnSent(g, m)
<1>1. a \in Endpoint /\ a.out \in Seq(Message) /\ a.out # <<>>
  BY QueueType DEF Inv, Send
<1>2. m \in Message /\ Tail(a.out) \in Seq(Message) BY <1>1, HeadTailProperties
<1>3. ends' = [ends EXCEPT ![e] = d] BY Zenon DEF Send
<1>4. /\ g.chans = a.chans /\ g.msd = a.msd /\ g.cleared = a.cleared
      /\ g \in Endpoint
  <2>1. g.chans = a.chans /\ g.msd = a.msd /\ g.cleared = a.cleared
    BY <1>1, EndpointFields DEF Fields
  <2>2. g \in Endpoint BY <1>1, <1>2, ZenonT(30) DEF Endpoint
  <2> QED BY <2>1, <2>2
<1> HIDE DEF g, m
<1>5. d.chans = g.chans /\ d.msd = g.msd /\ d.cleared = g.cleared
  BY <1>2, <1>4, OnSentAlters DEF Alters, Fields
<1>6. ends \in [Ends -> Endpoint] BY DEF Inv, Typed
<1> HIDE DEF d
<1>7. ends'[e] = d /\ \A f \in Ends \ {e} : ends'[f] = ends[f] BY <1>3, <1>6
<1>8. d.chans = a.chans /\ d.msd = a.msd /\ d.cleared = a.cleared BY <1>4, <1>5
<1> SUFFICES ASSUME NEW f \in Ends
             PROVE  /\ ends'[f].chans = ends[f].chans
                    /\ ends'[f].msd = ends[f].msd
                    /\ ends'[f].cleared = ends[f].cleared
  OBVIOUS
<1>9. CASE f = e BY <1>7, <1>8, <1>9
<1>10. CASE f # e BY <1>7, <1>10
<1> QED BY <1>9, <1>10

\* An end that is not master opens a medium only in the step that accepted the master's
\* channel of that medium (the slave branch at the end of
\* ooHandleOpenLogicalChannel_helper).
THEOREM SlaveFollowsHolds == Spec => SlaveFollows
<1> DEFINE Follow ==
      \A e \in Ends :
        ends'[e].msd # "Master" =>
          \A media \in Transmitted(ends'[e]) \ Transmitted(ends[e]) :
            media \in Received(ends'[e]) \ Received(ends[e])
<1>1. ASSUME NEW e \in Ends, ends'[e].chans = ends[e].chans
      PROVE  Transmitted(ends'[e]) \ Transmitted(ends[e]) = {}
  BY <1>1 DEF Transmitted, MediaOf
<1>2. ASSUME Inv, ChannelInv, NEW e \in Ends, NEW a2, NEW A, NEW B, EndStep(e, a2, A, B)
      PROVE  Follow
  <2>1. ends' = [ends EXCEPT ![e] = a2] /\ ends \in [Ends -> Endpoint]
    BY <1>2 DEF EndStep, Inv, Typed
  <2> SUFFICES ASSUME NEW f \in Ends, ends'[f].msd # "Master",
                      NEW media \in Transmitted(ends'[f]) \ Transmitted(ends[f])
               PROVE  media \in Received(ends'[f]) \ Received(ends[f])
    OBVIOUS
  <2>2. f = e /\ ends'[f] = a2 BY <1>1, <2>1
  <2>3. Holds(a2, "transmit", media) /\ ~ Holds(ends[e], "transmit", media)
    BY <2>2, HeldMedia
  <2>4. Holds(a2, "receive", media) /\ ~ Holds(ends[e], "receive", media)
    BY <1>2, <2>2, <2>3, FollowsInStep
  <2> QED BY <2>2, <2>4, HeldMedia
<1>3. ASSUME Inv, ChannelInv, [Next]_vars PROVE Follow
  <2>1. CASE UNCHANGED vars BY <1>1, <2>1 DEF vars
  <2>2. ASSUME NEW e \in Ends, Send(e) PROVE Follow
    <3>1. \A f \in Ends : ends'[f].chans = ends[f].chans BY <1>3, <2>2, SendLeaves
    <3> QED BY <1>1, <3>1
  <2>3. ASSUME NEW e \in Ends, \E a2, A, B : EndStep(e, a2, A, B) PROVE Follow
    <3>1. PICK a2, A, B : EndStep(e, a2, A, B) BY <2>3
    <3> QED BY <1>2, <1>3, <3>1
  <2>4. CASE Next
    <3>1. PICK e \in Ends :
            \/ \E kind \in {"connection", "answer"} : Start(e, kind)
            \/ Send(e)
            \/ Receive(e)
            \/ MSDTimeout(e)
            \/ TCSTimeout(e)
            \/ OLCTimeout(e)
      BY <2>4 DEF Next
    <3> HIDE DEF Follow
    <3> QED BY <1>3, <2>2, <2>3, <3>1, StartSteps, ReceiveSteps, TimeoutSteps
  <2> QED BY <1>3, <2>1, <2>4
<1> QED BY <1>3, InvHolds, ChannelInvHolds, PTL DEF Spec, SlaveFollows

-----------------------------------------------------------------------------
(* The promise of MediaSession                                                *)

\* The media of an end are media.
LEMMA MediaTyped ==
  ASSUME NEW c \in Endpoint
  PROVE  Transmitted(c) \subseteq MediaKinds /\ Received(c) \subseteq MediaKinds
<1>1. c.chans \in Seq(Channel) BY DEF Endpoint
<1>2. \A i \in DOMAIN c.chans : c.chans[i] \in Channel BY <1>1
<1>3. \A i \in DOMAIN c.chans : c.chans[i].media \in MediaKinds BY <1>2 DEF Channel
<1> QED BY <1>3 DEF Transmitted, Received, MediaOf

\* An end with another list of channels has the media of that list.
LEMMA SameHeld ==
  ASSUME NEW c, NEW d, Held(d) = Held(c)
  PROVE  Transmitted(d) = Transmitted(c) /\ Received(d) = Received(c)
<1>1. \A dir, media : Holds(d, dir, media) <=> Holds(c, dir, media) BY DEF Holds
<1> QED BY <1>1, HeldMedia

\* Nobody has a role or a channel.
LEMMA InitSession == ASSUME Init PROVE Session!Init
<1>1. PICK term \in TermTypes, send \in [Ends -> BOOLEAN] :
        ends = [e \in Ends |-> NewEndpoint(term[e], send[e])]
  BY DEF Init
<1>2. \A e \in Ends : /\ ends[e].chans = <<>> /\ ends[e].msd = "Idle"
                      /\ ~ ends[e].cleared
  BY <1>1 DEF NewEndpoint
<1>3. \A e \in Ends : Role(ends[e]) = "none" BY <1>2 DEF Role
<1>4. \A e \in Ends : Transmitted(ends[e]) = {} /\ Received(ends[e]) = {}
  BY <1>2, NoneHeld, HeldMedia
<1>5. Alive BY <1>2 DEF Alive
<1> QED BY <1>3, <1>4, <1>5 DEF Session!Init

\* What a step makes of the media of the end that moves, while both calls stay up.
LEMMA MediaMove ==
  ASSUME NEW a, NEW a2 \in Endpoint, NEW p, NEW q, NEW q2, NEW b, NEW A, NEW B,
         Facing(a, p, q, b), ListEffect(a, a2, A, B), Read(q, q2, B),
         ~ a.cleared, ~ a2.cleared, ~ b.cleared,
         B \cap AnyOffer # {} => a.msd \in {"Master", "Slave"}
  PROVE  \/ Transmitted(a2) = Transmitted(a) /\ Received(a2) = Received(a)
         \/ /\ a2.msd = "Master" /\ Transmitted(a) = {}
            /\ Transmitted(a2) = MediaKinds /\ Received(a2) = Received(a)
         \/ \E media \in Transmitted(b) \ Received(a) :
              /\ a.msd = "Master" /\ a2.msd = "Master"
              /\ Transmitted(a2) = Transmitted(a)
              /\ Received(a2) = Received(a) \cup {media}
         \/ \E media \in (Transmitted(b) \ Received(a)) \ Transmitted(a) :
              /\ a.msd = "Slave" /\ a2.msd = "Slave"
              /\ Transmitted(a2) = Transmitted(a) \cup {media}
              /\ Received(a2) = Received(a) \cup {media}
<1>1. /\ Paired(b, q, a) /\ OfferedOnce(q, a) /\ ClosesLast(b, q) /\ Awaits(a, p, q, b)
  BY DEF Facing, Side
<1>2. \A K : B \cap K # {} => Has(q, K) BY DEF Read
<1>3. ASSUME NEW m \in B \cap Of({"OLC"})
      PROVE  /\ m.media \in Transmitted(b) \ Received(a)
             /\ a.msd \in {"Master", "Slave"}
             /\ a.msd = "Slave" => m.media \notin Transmitted(a)
  <2>1. B \cap {m} # {} /\ B \cap AnyOffer # {} /\ B \cap Offers(m.media) # {}
    BY DEF AnyOffer, Offers
  <2>2. Has(q, {m}) /\ Has(q, Offers(m.media)) BY <1>2, <2>1
  <2>3. Holds(b, "transmit", m.media)
    <3>1. <<"transmit", m.no, m.media>> \in Held(b) BY <1>1, <2>2 DEF Paired
    <3> QED BY <3>1 DEF Holds
  <2>4. ~ Holds(a, "receive", m.media) BY <1>1, <2>2 DEF OfferedOnce
  <2>5. a.msd = "Slave" => ~ Holds(a, "transmit", m.media) BY <1>1, <2>2 DEF Awaits
  <2> QED BY <2>1, <2>3, <2>4, <2>5, HeldMedia
<1>4. CASE Stays(a, a2, A) BY <1>4, SameHeld DEF Stays
<1>5. CASE Opens(a, a2, A) /\ OpensAll(a2)
  <2>1. \A dir, media : ~ Holds(a, dir, media) BY <1>5 DEF Opens, Holds
  <2>2. \A media : ~ Holds(a2, "receive", media) BY <1>5 DEF Opens, Holds
  <2>3. Transmitted(a) = {} /\ Received(a) = {} /\ Received(a2) = {}
    BY <2>1, <2>2, HeldMedia
  <2>4. \A media \in MediaKinds : media \in Transmitted(a2)
    BY <1>5, HeldMedia DEF OpensAll
  <2>5. Transmitted(a2) = MediaKinds BY <2>4, MediaTyped
  <2> QED BY <1>5, <2>3, <2>5 DEF Opens
<1>6. CASE Accepts(a, a2, A, B)
  <2>1. PICK m \in B \cap Of({"OLC"}) :
          /\ Held(a2) = Held(a) \cup {<<"receive", m.no, m.media>>}
          /\ a2.msd = a.msd /\ (a.msd = "Slave" => a2.cleared)
    BY <1>6 DEF Accepts
  <2>2. a.msd = "Master" /\ a2.msd = "Master" BY <1>3, <2>1
  <2>3. /\ \A media : Holds(a2, "transmit", media) <=> Holds(a, "transmit", media)
        /\ \A media : Holds(a2, "receive", media)
                        <=> Holds(a, "receive", media) \/ media = m.media
    BY <2>1 DEF Holds
  <2>4. /\ Transmitted(a2) = Transmitted(a)
        /\ Received(a2) = Received(a) \cup {m.media}
    BY <2>3, HeldMedia
  <2> QED BY <1>3, <2>2, <2>4
<1>7. CASE Follows(a, a2, A, B)
  <2>1. PICK m \in B \cap Of({"OLC"}) :
          /\ Held(a2) = Held(a) \cup {<<"receive", m.no, m.media>>,
                                      <<"transmit", a.nextNo, m.media>>}
          /\ a.msd = "Slave" /\ a2.msd = "Slave"
    BY <1>7 DEF Follows
  <2>2. /\ \A media : Holds(a2, "transmit", media)
                        <=> Holds(a, "transmit", media) \/ media = m.media
        /\ \A media : Holds(a2, "receive", media)
                        <=> Holds(a, "receive", media) \/ media = m.media
    BY <2>1 DEF Holds
  <2>3. /\ Transmitted(a2) = Transmitted(a) \cup {m.media}
        /\ Received(a2) = Received(a) \cup {m.media}
    BY <2>2, HeldMedia
  <2> QED BY <1>3, <2>1, <2>3
<1>8. ~ Drops(a, a2, A, B)
  <2>1. ~ Has(q, Closings) BY <1>1 DEF ClosesLast
  <2> QED BY <1>2, <2>1 DEF Drops
<1> QED BY <1>4, <1>5, <1>6, <1>7, <1>8 DEF ListEffect

\* The step of an end is one of MediaSession, or a stutter.
LEMMA EndStepFollows ==
  ASSUME Inv, Inv', ChannelInv, NEW e \in Ends, NEW a2, NEW A, NEW B, EndStep(e, a2, A, B)
  PROVE  [Session!Next]_(Session!sessionVars)
<1> DEFINE a == ends[e]
           b == ends[Peer(e)]
           p == Queue(e)
           q == Queue(Peer(e))
           q2 == wire'[Peer(e)] \o b.out
           R == [f \in Ends |-> Role(ends[f])]
           S == [f \in Ends |-> Transmitted(ends[f])]
           G == [f \in Ends |-> Received(ends[f])]
<1>1. /\ Good(a2) /\ ends' = [ends EXCEPT ![e] = a2] /\ ~ a.cleared
      /\ wire'[e] = wire[e] /\ Effect(a, a2, A, B) /\ Read(q, q2, B)
      /\ a.msd \in {"Master", "Slave"} => a2.msd = a.msd
  BY DEF EndStep
<1>2. ends \in [Ends -> Endpoint] /\ ends' \in [Ends -> Endpoint] BY DEF Inv, Typed
<1>3. ends'[e] = a2 /\ ends'[Peer(e)] = b BY <1>1, <1>2, Peers
<1>4. /\ Peer(e) \in Ends /\ Peer(Peer(e)) = e /\ Ends \ {e} = {Peer(e)}
      /\ \A f \in Ends : f = e \/ f = Peer(e)
  BY Peers
<1>5. /\ R' = [R EXCEPT ![e] = Role(a2)]
      /\ S' = [S EXCEPT ![e] = Transmitted(a2)]
      /\ G' = [G EXCEPT ![e] = Received(a2)]
  BY <1>1, <1>2
<1>6. Role(a2) # Role(b) \/ Role(a2) = "none"
  <2>1. Agree(a2, Queue(e)', Queue(Peer(e))', b) BY <1>3 DEF Inv
  <2>2. a2.msd = "Master" => b.msd # "Master" BY <2>1, RolesFit
  <2>3. a2.msd = "Slave" => b.msd # "Slave" BY <2>1, AgreeSlaves
  <2> QED BY <2>2, <2>3 DEF Role
<1>7. Role(a) \in {"none", Role(a2)} /\ Role(a2) \in {"none", "Master", "Slave"}
  BY <1>1 DEF Role
<1>8. /\ Role(a2) \in {"Master", "Slave"} => Session!Takes(e, Role(a2))
      /\ Role(a2) = "none" => R' = R
  <2>1. CASE Role(a2) = "none" BY <1>5, <1>7, <2>1
  <2>2. CASE Role(a2) \in {"Master", "Slave"}
    BY <1>4, <1>5, <1>6, <1>7, <2>2 DEF Session!Takes
  <2> QED BY <2>1, <2>2
<1>9. CASE ~ Alive'
  <2>1. /\ S' \in [Ends -> SUBSET MediaKinds] /\ G' \in [Ends -> SUBSET MediaKinds]
    BY <1>2, MediaTyped
  <2>2. R' = R \/ \E f \in Ends, r \in Session!Roles : Session!Takes(f, r)
    BY <1>7, <1>8 DEF Session!Roles
  <2>3. Session!End BY <1>9, <2>1, <2>2 DEF Session!End
  <2> QED BY <2>3 DEF Session!Next
<1>10. CASE Alive'
  <2>1. ~ a2.cleared /\ ~ b.cleared BY <1>3, <1>4, <1>10 DEF Alive
  <2>2. Alive BY <1>1, <1>4, <2>1 DEF Alive
  <2>3. B \cap AnyOffer # {} => a.msd \in {"Master", "Slave"}
    <3>1. Led(a, q) BY DEF ChannelInv
    <3> QED BY <1>1, <3>1 DEF Led, Read
  <2>4. Facing(a, p, q, b) BY <1>4 DEF ChannelInv, Facing
  <2>5. Session!Offered(e) = Transmitted(b) \ Received(a)
    <3>1. S[Peer(e)] = Transmitted(b) /\ G[e] = Received(a) BY <1>4
    <3>2. Session!Offered(e) = (UNION {S[f] : f \in Ends \ {e}}) \ G[e]
      BY DEF Session!Offered
    <3> HIDE DEF a, b, S, G
    <3>3. UNION {S[f] : f \in {Peer(e)}} = S[Peer(e)] OBVIOUS
    <3> QED BY <1>4, <3>1, <3>2, <3>3
  <2>6. /\ S[e] = Transmitted(a) /\ G[e] = Received(a) /\ R[e] = Role(a)
        /\ (~ Alive) = FALSE /\ (~ Alive)' = (~ Alive)
    BY <1>10, <2>2
  <2>7. CASE Transmitted(a2) = Transmitted(a) /\ Received(a2) = Received(a)
    <3>1. S' = S /\ G' = G BY <1>5, <2>7
    <3>2. CASE Role(a2) = "none"
      BY <1>8, <1>10, <2>2, <3>1, <3>2 DEF Session!sessionVars
    <3>3. CASE Role(a2) \in {"Master", "Slave"}
      <4>1. Session!Decide(e)
        BY <1>8, <1>10, <2>2, <3>1, <3>3 DEF Session!Decide, Session!Roles
      <4> QED BY <4>1 DEF Session!Next
    <3> QED BY <1>7, <3>2, <3>3
  <2>8. CASE /\ a2.msd = "Master" /\ Transmitted(a) = {}
             /\ Transmitted(a2) = MediaKinds /\ Received(a2) = Received(a)
    <3>1. Session!Takes(e, "Master") BY <1>8, <2>8 DEF Role
    <3>2. G' = G /\ S' = [S EXCEPT ![e] = MediaKinds] BY <1>5, <2>8
    <3>3. Session!Open(e)
      BY <1>10, <2>2, <2>6, <2>8, <3>1, <3>2 DEF Session!Open
    <3> QED BY <3>3 DEF Session!Next
  <2>9. ASSUME NEW media \in Transmitted(b) \ Received(a),
               a.msd = "Master", a2.msd = "Master",
               Transmitted(a2) = Transmitted(a),
               Received(a2) = Received(a) \cup {media}
        PROVE  Session!Next
    <3>1. Role(a2) = "Master" /\ Role(a) = "Master" BY <2>9 DEF Role
    <3>2. R' = [R EXCEPT ![e] = R[e]] /\ S' = [S EXCEPT ![e] = S[e]]
      BY <1>5, <2>6, <2>9, <3>1
    <3>3. R' = R /\ S' = S /\ R[e] = "Master" BY <2>6, <3>1, <3>2
    <3>4. G' = [G EXCEPT ![e] = G[e] \cup {media}] BY <1>5, <2>6, <2>9
    <3>5. Session!Accept(e)
      BY <1>10, <2>2, <2>5, <2>9, <3>3, <3>4 DEF Session!Accept
    <3> QED BY <3>5 DEF Session!Next
  <2>10. ASSUME NEW media \in (Transmitted(b) \ Received(a)) \ Transmitted(a),
                a.msd = "Slave", a2.msd = "Slave",
                Transmitted(a2) = Transmitted(a) \cup {media},
                Received(a2) = Received(a) \cup {media}
         PROVE  Session!Next
    <3>1. Role(a2) = "Slave" /\ Role(a) = "Slave" BY <2>10 DEF Role
    <3>2. R' = [R EXCEPT ![e] = R[e]] BY <1>5, <2>6, <3>1
    <3>3. R' = R /\ R[e] = "Slave" BY <2>6, <3>1, <3>2
    <3>4. /\ G' = [G EXCEPT ![e] = G[e] \cup {media}]
          /\ S' = [S EXCEPT ![e] = S[e] \cup {media}]
      BY <1>5, <2>6, <2>10
    <3>5. media \in Session!Offered(e) \ S[e] BY <2>5, <2>6, <2>10
    <3>6. Session!Follow(e)
      BY <1>10, <2>2, <3>3, <3>4, <3>5 DEF Session!Follow
    <3> QED BY <3>6 DEF Session!Next
  <2> HIDE DEF a, b, p, q, q2, R, S, G
  <2>11. a2 \in Endpoint BY <1>1 DEF Good
  <2>12. ListEffect(a, a2, A, B) BY <1>1 DEF Effect
  <2> QED
    BY <1>1, <2>1, <2>3, <2>4, <2>7, <2>8, <2>9, <2>10, <2>11, <2>12, MediaMove
<1> QED BY <1>9, <1>10

\* A message that leaves the queue changes nothing of the session.
LEMMA SendStutters ==
  ASSUME Inv, NEW e \in Ends, Send(e)
  PROVE  UNCHANGED Session!sessionVars
<1>1. \A f \in Ends : /\ ends'[f].chans = ends[f].chans
                      /\ ends'[f].msd = ends[f].msd
                      /\ ends'[f].cleared = ends[f].cleared
  BY SendLeaves
<1>2. \A f \in Ends : /\ Role(ends'[f]) = Role(ends[f])
                      /\ Transmitted(ends'[f]) = Transmitted(ends[f])
                      /\ Received(ends'[f]) = Received(ends[f])
  BY <1>1 DEF Role, Transmitted, Received, MediaOf
<1>3. Alive' = Alive BY <1>1 DEF Alive
<1> QED BY <1>2, <1>3 DEF Session!sessionVars

\* The negotiation keeps the promise of MediaSession: whatever crosses, is retried or
\* times out, each end takes one role, not the other's, and keeps it; until the call is
\* cleared the master opens all its media in one step, and the slave follows medium by
\* medium, so that no medium stays one-way (the order in which ooHandleMasterSlave,
\* ooOpenLogicalChannels and ooHandleOpenLogicalChannel_helper queue their messages).
THEOREM FollowsMediaSessionHolds == Spec => FollowsMediaSession
<1>1. ASSUME Inv, Inv', ChannelInv, [Next]_vars
      PROVE  [Session!Next]_(Session!sessionVars)
  <2>1. CASE UNCHANGED vars BY <2>1 DEF vars, Session!sessionVars, Alive
  <2>2. CASE Next
    <3>1. PICK e \in Ends :
            \/ \E kind \in {"connection", "answer"} : Start(e, kind)
            \/ Send(e)
            \/ Receive(e)
            \/ MSDTimeout(e)
            \/ TCSTimeout(e)
            \/ OLCTimeout(e)
      BY <2>2 DEF Next
    <3>2. CASE Send(e) BY <1>1, <3>2, SendStutters
    <3>3. CASE \E a2, A, B : EndStep(e, a2, A, B)
      <4>1. PICK a2, A, B : EndStep(e, a2, A, B) BY <3>3
      <4> QED BY <1>1, <4>1, EndStepFollows
    <3> QED BY <1>1, <3>1, <3>2, <3>3, StartSteps, ReceiveSteps, TimeoutSteps
  <2> QED BY <1>1, <2>1, <2>2
<1> QED
  BY <1>1, InitSession, InvHolds, ChannelInvHolds, PTL
  DEF Spec, FollowsMediaSession, Session!Spec
=============================================================================
