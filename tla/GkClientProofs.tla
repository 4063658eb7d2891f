--------------------------- MODULE GkClientProofs ---------------------------
(* Proofs about the gatekeeper client, for every set of calls and references   *)
(* and every limit of retries.                                                *)
EXTENDS GkClient, TLAPS

\* KeepsTrying, of any client.
Waits(g) ==
  /\ g.state = "Idle" => g.timers["GRQ"] > 0
  /\ g.state = "Discovered" => g.timers["RRQ"] > 0
  /\ g.state = "Registered" /\ g.ttl => g.timers["RRQ"] + g.timers["REG"] > 0

\* A client that exists and waits with a timer.
Waiting(g) == g \in Clients /\ g.state # "none" /\ Waits(g)

\* A client that was destroyed took its timers and its lists along.
NothingLeft ==
  gk.state = "none" =>
    /\ \A k \in Kinds : gk.timers[k] = 0
    /\ \A e \in Requests \cup {NoInfo} : arq[e] = 0
    /\ \A e \in Requests : ~Listed(e)

\* An entry that is not out of the pending list has set up nothing, one that is has
\* set up its call once. Only calls that exist have made requests.
Admission(e) ==
  /\ adm[e].at \in {"none", "unsent", "pending"} => adm[e].setups = 0
  /\ adm[e].setups <= 1
  /\ call[e[1]] = "none" => adm[e].at = "none"

\* While calls have references of their own: one request for a call, a listed entry
\* has its call, and no other call that exists has its reference.
Own ==
  ~shared =>
    /\ \A e, i \in Requests :
         e[1] = i[1] /\ adm[e].at # "none" /\ adm[i].at # "none" => e = i
    /\ \A e \in Requests : Listed(e) => Exists(e[1])
    /\ \A e \in Requests, d \in Calls :
         adm[e].at # "none" /\ Exists(e[1]) /\ Exists(d) /\ ref[d] = ref[e[1]] => d = e[1]

\* A pending request without a timer: its client has failed, and the pass has not
\* come to the end of the timers yet.
Timed(e) ==
  adm[e].at = "pending" =>
    \/ arq[e] > 0
    \/ gk.state = "none"
    \/ pc \in {"timers", "crashed"} /\ Broken

AllTimed == ~shared => \A e \in Requests : Timed(e)

\* TimersPoint, with at most one timer for each entry.
Points ==
  ~shared /\ ~rejected =>
    /\ arq[NoInfo] = 0
    /\ \A e \in Requests : arq[e] <= 1 /\ (arq[e] > 0 => e \in Pending)

IInv ==
  /\ TypeOK
  /\ gk.state = "none" \/ Waiting(gk)
  /\ NothingLeft
  /\ \A e \in Requests : Admission(e)
  /\ Own
  /\ AllTimed
  /\ Points
  /\ StaleUnread

-----------------------------------------------------------------------------
(* Discovery and registration                                                 *)

\* Deleting a timer takes one of a kind at most, and leaves the rest of the client.
LEMMA DeletedFacts ==
  ASSUME NEW g \in Clients, NEW k \in Kinds
  PROVE  /\ Deleted(g, k) \in Clients
         /\ Deleted(g, k).state = g.state
         /\ Deleted(g, k).ttl = g.ttl
         /\ \A j \in Kinds : j # k => Deleted(g, k).timers[j] = g.timers[j]
BY DEF Deleted, Clients, Kinds

\* Arming a timer adds one of a kind, and leaves the rest of the client.
LEMMA ArmedFacts ==
  ASSUME NEW g \in Clients, NEW k \in Kinds
  PROVE  /\ Armed(g, k) \in Clients
         /\ Armed(g, k).state = g.state
         /\ Armed(g, k).ttl = g.ttl
         /\ Armed(g, k).timers[k] > 0
         /\ \A j \in Kinds : j # k => Armed(g, k).timers[j] = g.timers[j]
BY DEF Armed, Clients, Kinds

\* A client that failed waits for nothing.
LEMMA BrokenWaits ==
  ASSUME NEW g \in Clients, g.state \in {"Failed", "GkErr"}
  PROVE  Waiting(g)
BY DEF Waiting, Waits

\* What an assignment to the state leaves.
LEMMA StateFacts ==
  ASSUME NEW g \in Clients,
         NEW s \in {"Idle", "Discovered", "Registered", "GkErr", "Failed"}
  PROVE  LET n == [g EXCEPT !.state = s] IN
         n \in Clients /\ n.state = s /\ n.timers = g.timers /\ n.ttl = g.ttl
BY DEF Clients

\* A request is sent with its timer, or the client fails.
LEMMA SendWaits ==
  ASSUME NEW g \in Clients, NEW k \in Kinds, NEW ok \in BOOLEAN, g.state # "none",
         g.state = "Idle" => k = "GRQ" \/ g.timers["GRQ"] > 0,
         g.state = "Discovered" => k = "RRQ" \/ g.timers["RRQ"] > 0,
         g.state = "Registered" /\ g.ttl =>
           k \in {"RRQ", "REG"} \/ g.timers["RRQ"] + g.timers["REG"] > 0
  PROVE  Waiting(Send(g, k, ok))
<1>1. CASE ok
  <2>1. Send(g, k, ok) = Armed(g, k) BY <1>1 DEF Send
  <2>2. \A j \in Kinds : Armed(g, k).timers[j] \in Nat /\ g.timers[j] \in Nat
    BY ArmedFacts DEF Clients
  <2> QED BY <2>1, <2>2, ArmedFacts DEF Waiting, Waits, Kinds
<1>2. CASE ~ok
  <2>1. Send(g, k, ok) = [g EXCEPT !.state = "Failed"] BY <1>2 DEF Send
  <2> QED BY <2>1, StateFacts, BrokenWaits
<1> QED BY <1>1, <1>2

\* The answers about discovery keep the client waiting with a timer.
LEMMA DiscoveryWaits ==
  ASSUME NEW g, Waiting(g), NEW ok \in BOOLEAN
  PROVE  Waiting(HandleGatekeeperReject(g)) /\ Waiting(HandleGatekeeperConfirm(g, ok))
<1> DEFINE d == Deleted(g, "GRQ")
<1>1. g \in Clients /\ d \in Clients BY DeletedFacts DEF Waiting, Kinds
<1> HIDE DEF d
<1>2. Waiting(HandleGatekeeperReject(g))
  <2>1. Waiting([d EXCEPT !.state = "GkErr"]) BY <1>1, StateFacts, BrokenWaits
  <2> QED BY <2>1 DEF HandleGatekeeperReject, d
<1>3. Waiting(HandleGatekeeperConfirm(g, ok))
  <2> DEFINE n == [d EXCEPT !.discovered = TRUE, !.state = "Discovered"]
  <2>1. n \in Clients /\ n.state = "Discovered" BY <1>1 DEF Clients
  <2> HIDE DEF n
  <2>2. Waiting(Send(n, "RRQ", ok)) BY <2>1, SendWaits DEF Kinds
  <2> QED BY <2>2 DEF HandleGatekeeperConfirm, n, d
<1> QED BY <1>2, <1>3

\* A confirmed registration waits for its end.
LEMMA ConfirmWaits ==
  ASSUME NEW g, Waiting(g), NEW ttl \in BOOLEAN
  PROVE  Waiting(HandleRegistrationConfirm(g, ttl))
<1> DEFINE a == IF ttl THEN Armed(g, "REG") ELSE g
           d == Deleted(a, "RRQ")
           n == [d EXCEPT !.state = "Registered", !.ttl = ttl]
<1>1. a \in Clients /\ (ttl => a.timers["REG"] > 0)
  BY ArmedFacts DEF Waiting, Kinds
<1> HIDE DEF a
<1>2. d \in Clients /\ d.timers["REG"] = a.timers["REG"]
  BY <1>1, DeletedFacts DEF Kinds
<1>3. d.timers["RRQ"] \in Nat /\ d.timers["REG"] \in Nat BY <1>2 DEF Clients, Kinds
<1> HIDE DEF d
<1>4. n \in Clients /\ n.state = "Registered" /\ n.ttl = ttl /\ n.timers = d.timers
  BY <1>2 DEF Clients
<1> HIDE DEF n
<1>5. Waiting(n) BY <1>1, <1>2, <1>3, <1>4 DEF Waiting, Waits
<1> QED BY <1>5 DEF HandleRegistrationConfirm, n, d, a

\* A rejected registration starts again, or the client gives up.
LEMMA RejectWaits ==
  ASSUME NEW g, Waiting(g), NEW ok \in BOOLEAN,
         NEW reason \in {"discoveryRequired", "fullRegistrationRequired", "other"}
  PROVE  Waiting(HandleRegistrationReject(g, reason, ok))
<1> DEFINE d == Deleted(g, "RRQ")
           i == [d EXCEPT !.discovered = FALSE, !.state = "Idle", !.rrqRetries = 0,
                          !.grqRetries = 0]
           r == [d EXCEPT !.state = "Discovered", !.rrqRetries = 0]
<1>1. d \in Clients BY DeletedFacts DEF Waiting, Kinds
<1> HIDE DEF d
<1>2. i \in Clients /\ i.state = "Idle" BY <1>1 DEF Clients
<1>3. r \in Clients /\ r.state = "Discovered" BY <1>1 DEF Clients
<1> HIDE DEF i, r
<1>4. Waiting(Send(i, "GRQ", ok)) BY <1>2, SendWaits DEF Kinds
<1>5. Waiting(Send(r, "RRQ", ok)) BY <1>3, SendWaits DEF Kinds
<1>6. Waiting([d EXCEPT !.state = "GkErr"]) BY <1>1, StateFacts, BrokenWaits
<1> QED BY <1>4, <1>5, <1>6 DEF HandleRegistrationReject, d, i, r

\* An unregistered client registers again.
LEMMA UnregistrationWaits ==
  ASSUME NEW g, Waiting(g), NEW ok \in BOOLEAN
  PROVE  Waiting(HandleUnregistrationRequest(g, ok))
<1> DEFINE n == [g EXCEPT !.rrqRetries = 0, !.state = "Discovered"]
<1>1. n \in Clients /\ n.state = "Discovered" BY DEF Waiting, Clients
<1> HIDE DEF n
<1>2. Waiting(Send(n, "RRQ", ok)) BY <1>1, SendWaits DEF Kinds
<1> QED BY <1>2 DEF HandleUnregistrationRequest, n

\* A timer that expires is armed again, or the client gives up.
LEMMA ExpiryWaits ==
  ASSUME NEW g, Waiting(g), NEW ok \in BOOLEAN
  PROVE  /\ Waiting(GRQTimerExpired(g, ok))
         /\ Waiting(RRQTimerExpired(g, ok))
         /\ Waiting(REGTimerExpired(g, ok))
<1> DEFINE d(k) == Deleted(g, k)
           q(k) == [d(k) EXCEPT !.grqRetries = IF ok THEN @ + 1 ELSE @]
           r(k) == [d(k) EXCEPT !.rrqRetries = IF ok THEN @ + 1 ELSE @]
<1>1. \A k \in Kinds : /\ d(k) \in Clients /\ d(k).state = g.state /\ d(k).ttl = g.ttl
                       /\ \A j \in Kinds : j # k => d(k).timers[j] = g.timers[j]
  BY DeletedFacts DEF Waiting
<1> HIDE DEF d
<1>2. \A k \in Kinds : /\ q(k) \in Clients /\ q(k).state = g.state /\ q(k).ttl = g.ttl
                       /\ q(k).timers = d(k).timers
  BY <1>1 DEF Clients
<1>3. \A k \in Kinds : /\ r(k) \in Clients /\ r(k).state = g.state /\ r(k).ttl = g.ttl
                       /\ r(k).timers = d(k).timers
  BY <1>1 DEF Clients
<1> HIDE DEF q, r
<1>4. g.state # "none" /\ Waits(g) BY DEF Waiting
<1>5. \A k \in Kinds : Waiting([d(k) EXCEPT !.state = "GkErr"])
  BY <1>1, StateFacts, BrokenWaits
<1>6. Waiting(Send(q("GRQ"), "GRQ", ok))
  BY <1>1, <1>2, <1>4, SendWaits DEF Waits, Kinds
<1>7. Waiting(Send(r("RRQ"), "RRQ", ok))
  BY <1>1, <1>3, <1>4, SendWaits DEF Waits, Kinds
<1>8. Waiting(Send(d("REG"), "RRQ", ok))
  BY <1>1, <1>4, SendWaits DEF Waits, Kinds
<1>9. Waiting(GRQTimerExpired(g, ok)) BY <1>5, <1>6 DEF GRQTimerExpired, d, q, Kinds
<1>10. Waiting(RRQTimerExpired(g, ok)) BY <1>5, <1>7 DEF RRQTimerExpired, d, r, Kinds
<1>11. Waiting(REGTimerExpired(g, ok)) BY <1>8 DEF REGTimerExpired, d
<1> QED BY <1>9, <1>10, <1>11

-----------------------------------------------------------------------------
(* The entries                                                                *)

\* An entry is no pointer to nowhere, and belongs to a call.
LEMMA RequestFacts ==
  ASSUME NEW e \in Requests
  PROVE  e # NoInfo /\ e[1] \in Calls
BY DEF Requests, NoInfo

\* The lists hold entries, in one of three places.
LEMMA ListFacts ==
  /\ Pending \subseteq Requests /\ Admitted \subseteq Requests
  /\ \A e \in Requests : Listed(e) <=> adm[e].at \in {"unsent", "pending", "admitted"}
  /\ \A e \in Requests : e \in Pending <=> adm[e].at \in {"unsent", "pending"}
  /\ \A e \in Requests : e \in Admitted <=> adm[e].at = "admitted"
BY DEF Pending, Admitted, Listed

\* An entry that is freed keeps nothing of its admission.
LEMMA FreedFacts ==
  ASSUME NEW i \in Infos
  PROVE  Freed(i) \in Infos /\ Freed(i).at = "freed" /\ Freed(i).setups = 0
BY DEF Freed, Infos

\* All entries that were made are freed with the client.
LEMMA AllFreedFacts ==
  ASSUME adm \in [Requests -> Infos]
  PROVE  /\ AllFreed \in [Requests -> Infos]
         /\ \A e \in Requests :
              /\ adm[e].at = "none" => AllFreed[e] = adm[e]
              /\ adm[e].at # "none" => AllFreed[e].at = "freed" /\ AllFreed[e].setups = 0
<1> SUFFICES ASSUME NEW e \in Requests
             PROVE  /\ AllFreed[e] \in Infos
                    /\ adm[e].at = "none" => AllFreed[e] = adm[e]
                    /\ adm[e].at # "none" => AllFreed[e].at = "freed" /\ AllFreed[e].setups = 0
  BY DEF AllFreed
<1>1. adm[e] \in Infos OBVIOUS
<1>2. AllFreed[e] = IF adm[e].at = "none" THEN adm[e] ELSE [Freed(adm[e]) EXCEPT !.retries = 0]
  BY DEF AllFreed
<1>3. CASE adm[e].at = "none" BY <1>1, <1>2, <1>3
<1>4. CASE adm[e].at # "none"
  <2> DEFINE f == Freed(adm[e])
             g == [f EXCEPT !.retries = 0]
  <2>1. f \in Infos /\ f.at = "freed" /\ f.setups = 0 BY <1>1, FreedFacts
  <2> HIDE DEF f
  <2>2. g \in Infos /\ g.at = "freed" /\ g.setups = 0 BY <2>1 DEF Infos
  <2> QED BY <1>2, <1>4, <2>2 DEF f
<1> QED BY <1>3, <1>4

\* While calls have references of their own a search finds the entry of the call it
\* is made for, or none but stale ones.
LEMMA SearchOwn ==
  ASSUME Own, ~shared, NEW c \in Calls, Exists(c),
         NEW S \in SUBSET Requests, NEW e \in Found(S, ref[c]), e # NoInfo
  PROVE  e \in S /\ (Listed(e) => e[1] = c)
<1>1. e \in S /\ (Stale(e) \/ ref[e[1]] = ref[c]) BY DEF Found
<1>2. e \in Requests BY <1>1
<1>3. ASSUME Listed(e) PROVE e[1] = c
  <2>1. Exists(e[1]) /\ adm[e].at # "none" BY <1>2, <1>3, ListFacts DEF Own
  <2>2. ref[e[1]] = ref[c] BY <1>1, <1>3, <2>1 DEF Stale
  <2> QED BY <1>2, <2>1, <2>2 DEF Own
<1> QED BY <1>1, <1>3

\* It finds that entry.
LEMMA SearchFinds ==
  ASSUME Own, ~shared, NEW S \in SUBSET Requests, NEW e \in S, Listed(e)
  PROVE  NoInfo \notin Found(S, ref[e[1]])
<1>1. ~Stale(e) BY DEF Own, Stale
<1>2. \A i \in S : i # NoInfo BY RequestFacts
<1> QED BY <1>1, <1>2 DEF Found

-----------------------------------------------------------------------------
(* The steps                                                                  *)

\* The client that was started satisfies the invariant.
LEMMA InitIInv == Init => IInv
<1> SUFFICES ASSUME Init PROVE IInv OBVIOUS
<1>1. gk \in Clients /\ gk.state = "Idle" /\ gk.timers["GRQ"] = 1
  BY DEF Init, NoClient, Clients, Kinds
<1>2. \A e \in Requests : adm[e].at = "none" /\ adm[e].setups = 0 BY DEF Init
<1>3. TypeOK BY <1>1 DEF Init, TypeOK, Infos, Phases
<1>4. Waiting(gk) BY <1>1 DEF Waiting, Waits
<1>5. NothingLeft BY <1>1 DEF NothingLeft
<1>6. \A e \in Requests : Admission(e) /\ Timed(e) /\ ~Listed(e)
  BY <1>2, ListFacts DEF Admission, Timed
<1>7. Own BY <1>2, <1>6 DEF Own
<1>8. Points /\ StaleUnread BY RequestFacts DEF Init, Points, StaleUnread
<1> QED BY <1>3, <1>4, <1>5, <1>6, <1>7, <1>8 DEF IInv, AllTimed

\* A step that leaves the calls and their admission alone, and does not destroy
\* the client or end the timers of a broken one, keeps the invariant.
LEMMA ClientStep ==
  ASSUME IInv, gk' \in Clients, Waiting(gk'), gk.state # "none",
         pc' \in Phases, pc' # "crashed" \/ shared \/ rejected,
         UNCHANGED <<arq, adm, calls, history>>,
         pc \in {"timers", "crashed"} /\ Broken => pc' \in {"timers", "crashed"} /\ Broken'
  PROVE  IInv'
<1>1. UNCHANGED <<call, ref, rejected, shared>> BY DEF calls, history
<1>2. TypeOK' BY <1>1 DEF IInv, TypeOK
<1>3. gk'.state # "none" BY DEF Waiting
<1>4. NothingLeft' BY <1>3 DEF NothingLeft
<1>5. \A e \in Requests : Admission(e)' BY <1>1 DEF IInv, Admission
<1>6. Own' BY <1>1 DEF IInv, Own, Listed, Pending, Admitted, Exists
<1>7. AllTimed' BY <1>1, <1>3 DEF IInv, AllTimed, Timed
<1>8. Points' /\ StaleUnread' BY <1>1 DEF IInv, Points, StaleUnread, Pending
<1> QED BY <1>2, <1>4, <1>5, <1>6, <1>7, <1>8 DEF IInv

\* A timer of discovery or registration expires.
LEMMA ExpireStep ==
  ASSUME IInv, NEW k \in Kinds, Expire(k)
  PROVE  IInv'
<1>1. gk.timers[k] \in Nat /\ gk.timers[k] > 0 BY DEF IInv, TypeOK, Clients, Expire
<1>2. gk.state # "none" BY <1>1 DEF IInv, NothingLeft
<1>3. Waiting(gk) BY <1>2 DEF IInv
<1>4. Waiting(gk') BY <1>3, ExpiryWaits DEF Expire, Kinds
<1>5. ASSUME Broken PROVE Broken'
  <2>1. gk \in Clients /\ gk.state \in {"Failed", "GkErr"} BY <1>5 DEF Broken, IInv, TypeOK
  <2> QED BY <2>1 DEF Expire, Broken, GRQTimerExpired, RRQTimerExpired, REGTimerExpired,
                      Send, Armed, Deleted, Clients, Kinds
<1>6. pc' \in Phases /\ pc' # "crashed" BY DEF Expire, IInv, TypeOK
<1>7. UNCHANGED <<arq, adm, calls, history>> /\ pc' = pc BY DEF Expire
<1>8. gk' \in Clients BY <1>4 DEF Waiting
<1> QED BY <1>2, <1>4, <1>5, <1>6, <1>7, <1>8, ClientStep

\* What an expired ARQ timer does, but for the client's state.
LEMMA ARQFacts ==
  ASSUME IInv, NEW t \in Requests, ARQTimerExpired(t)
  PROVE  /\ gk' \in Clients /\ gk.state # "none" /\ gk'.state # "none" /\ Waiting(gk')
         /\ pc = "timers" /\ UNCHANGED <<call, ref, pc, rejected, shared>>
         /\ \E e \in Requests :
              /\ e \in Readable(t)
              /\ \/ Resend(t, e) /\ UNCHANGED gk
                 \/ Broken' /\ arq' = [arq EXCEPT ![t] = @ - 1] /\ UNCHANGED adm
<1>1. arq[t] \in Nat /\ arq[t] > 0 BY DEF IInv, TypeOK, ARQTimerExpired
<1>2. gk \in Clients /\ gk.state # "none" BY <1>1 DEF IInv, TypeOK, NothingLeft
<1>3. gk' = gk \/ gk' = [gk EXCEPT !.state = "Failed"] \/ gk' = [gk EXCEPT !.state = "GkErr"]
  BY DEF ARQTimerExpired
<1>4. gk' \in Clients /\ gk'.state # "none" BY <1>2, <1>3 DEF Clients
<1>5. gk' = gk \/ gk'.state \in {"Failed", "GkErr"} BY <1>2, <1>3 DEF Clients
<1>6. Waiting(gk') BY <1>2, <1>4, <1>5, BrokenWaits DEF IInv
<1>7. pc = "timers" /\ UNCHANGED <<call, ref, pc, rejected, shared>>
  BY DEF ARQTimerExpired, calls, history
<1>8. Readable(t) \subseteq Requests BY ListFacts DEF Readable
<1>9. PICK e \in Readable(t) :
        \/ Resend(t, e) /\ UNCHANGED gk
        \/ /\ gk' = [gk EXCEPT !.state = IF adm[e].retries < MaxARQs THEN "Failed" ELSE "GkErr"]
           /\ arq' = [arq EXCEPT ![t] = @ - 1]
           /\ UNCHANGED adm
  BY DEF ARQTimerExpired
<1>10. gk' = [gk EXCEPT !.state = IF adm[e].retries < MaxARQs THEN "Failed" ELSE "GkErr"]
         => Broken'
  BY <1>2 DEF Clients, Broken
<1> QED BY <1>2, <1>4, <1>6, <1>7, <1>8, <1>9, <1>10

\* What a repeated request does to the entries and their timers.
LEMMA ResendFacts ==
  ASSUME IInv, NEW t \in Requests, arq[t] > 0, NEW e \in Readable(t), Resend(t, e)
  PROVE  /\ adm' \in [Requests -> Infos]
         /\ \A d \in Requests : /\ adm'[d].setups = adm[d].setups
                                /\ \/ adm'[d].at = adm[d].at
                                   \/ adm[d].at = "unsent" /\ adm'[d].at = "pending"
                                      /\ arq'[d] > 0
         /\ \E i \in Requests \cup {NoInfo} :
              /\ arq' = MoveTimer(t, i)
              /\ ~shared /\ t \in Pending => i = t
<1>1. e \in Requests /\ (Listed(t) => e = t) BY ListFacts DEF Readable
<1>2. adm \in [Requests -> Infos] /\ arq \in [Requests \cup {NoInfo} -> Nat]
  BY DEF IInv, TypeOK
<1> DEFINE again == [adm EXCEPT ![e].retries = @ + 1]
<1>3. /\ again \in [Requests -> Infos]
      /\ \A d \in Requests : again[d].at = adm[d].at /\ again[d].setups = adm[d].setups
  BY <1>1, <1>2 DEF Infos
<1> HIDE DEF again
<1>4. PICK r \in IF Stale(e) THEN Refs \cup {0} ELSE {ref[e[1]]} :
        \/ \E i \in Found(Pending, r) \ {NoInfo} :
             arq' = MoveTimer(t, i) /\ adm' = [again EXCEPT ![i].at = "pending"]
        \/ /\ NoInfo \in Found(Pending, r)
           /\ \E i \in IF Pending = {} THEN {NoInfo} ELSE Pending : arq' = MoveTimer(t, i)
           /\ adm' = again
  BY DEF Resend, again
<1>5. Found(Pending, r) \subseteq Pending \cup {NoInfo} BY DEF Found
<1>6. ASSUME ~shared, t \in Pending
      PROVE  NoInfo \notin Found(Pending, r) /\ \A i \in Found(Pending, r) : i = t
  <2>1. Listed(t) /\ e = t /\ Own BY <1>1, <1>6, ListFacts DEF IInv
  <2>2. Exists(t[1]) /\ ~Stale(t) BY <1>6, <2>1 DEF Own, Stale
  <2>3. r = ref[t[1]] BY <1>4, <2>1, <2>2
  <2>4. Pending \in SUBSET Requests /\ t[1] \in Calls BY ListFacts, RequestFacts
  <2>5. NoInfo \notin Found(Pending, r) BY <1>6, <2>1, <2>3, <2>4, SearchFinds
  <2>6. ASSUME NEW i \in Found(Pending, r) PROVE i = t
    <3>1. i # NoInfo BY <2>5
    <3>2. i \in Pending /\ (Listed(i) => i[1] = t[1])
      BY <1>6, <2>1, <2>2, <2>3, <2>4, <3>1, SearchOwn
    <3>3. i \in Requests /\ i[1] = t[1] /\ adm[i].at # "none" /\ adm[t].at # "none"
      BY <1>6, <3>2, ListFacts
    <3> QED BY <1>6, <2>1, <3>3 DEF Own
  <2> QED BY <2>5, <2>6
<1>7. CASE \E i \in Found(Pending, r) \ {NoInfo} :
             arq' = MoveTimer(t, i) /\ adm' = [again EXCEPT ![i].at = "pending"]
  <2>1. PICK i \in Found(Pending, r) \ {NoInfo} :
          arq' = MoveTimer(t, i) /\ adm' = [again EXCEPT ![i].at = "pending"]
    BY <1>7
  <2>2. i \in Pending /\ i \in Requests BY <1>5, <2>1, ListFacts
  <2>3. arq'[i] > 0
    BY <1>2, <2>1, <2>2, RequestFacts DEF MoveTimer
  <2>4. /\ adm' \in [Requests -> Infos]
        /\ \A d \in Requests : adm'[d].setups = adm[d].setups
        /\ \A d \in Requests : d # i => adm'[d].at = adm[d].at
        /\ adm'[i].at = "pending"
    BY <1>3, <2>1, <2>2 DEF Infos
  <2>5. adm[i].at \in {"unsent", "pending"} BY <2>2, ListFacts
  <2>6. ~shared /\ t \in Pending => i = t BY <1>6, <2>1
  <2>7. \A d \in Requests : \/ adm'[d].at = adm[d].at
                            \/ adm[d].at = "unsent" /\ adm'[d].at = "pending" /\ arq'[d] > 0
    BY <2>3, <2>4, <2>5
  <2> QED BY <2>1, <2>2, <2>4, <2>6, <2>7
<1>8. CASE /\ NoInfo \in Found(Pending, r)
           /\ \E i \in IF Pending = {} THEN {NoInfo} ELSE Pending : arq' = MoveTimer(t, i)
           /\ adm' = again
  <2>1. ~(~shared /\ t \in Pending) BY <1>6, <1>8
  <2>2. PICK i \in IF Pending = {} THEN {NoInfo} ELSE Pending : arq' = MoveTimer(t, i)
    BY <1>8
  <2>3. i \in Requests \cup {NoInfo} BY <2>2, ListFacts
  <2> QED BY <1>3, <1>8, <2>1, <2>2, <2>3
<1> QED BY <1>4, <1>7, <1>8

\* The ARQ timer of an entry expires: its request is repeated or the client fails.
LEMMA ARQStep ==
  ASSUME IInv, NEW t \in Requests, ARQTimerExpired(t)
  PROVE  IInv'
<1>1. /\ gk' \in Clients /\ gk.state # "none" /\ gk'.state # "none" /\ Waiting(gk')
      /\ pc = "timers" /\ UNCHANGED <<call, ref, pc, rejected, shared>>
  BY ARQFacts
<1>2. PICK e \in Requests :
        /\ e \in Readable(t)
        /\ \/ Resend(t, e) /\ UNCHANGED gk
           \/ Broken' /\ arq' = [arq EXCEPT ![t] = @ - 1] /\ UNCHANGED adm
  BY ARQFacts
<1>3. arq[t] \in Nat /\ arq[t] > 0 /\ arq \in [Requests \cup {NoInfo} -> Nat]
      /\ adm \in [Requests -> Infos]
  BY DEF IInv, TypeOK, ARQTimerExpired
<1>4. /\ adm' \in [Requests -> Infos]
      /\ \A d \in Requests : /\ adm'[d].setups = adm[d].setups
                             /\ \/ adm'[d].at = adm[d].at
                                \/ adm[d].at = "unsent" /\ adm'[d].at = "pending"
                                   /\ arq'[d] > 0
  BY <1>2, <1>3, ResendFacts
<1>5. \/ \E i \in Requests \cup {NoInfo} :
           arq' = MoveTimer(t, i) /\ (~shared /\ t \in Pending => i = t)
      \/ Broken' /\ arq' = [arq EXCEPT ![t] = @ - 1]
  BY <1>2, <1>3, ResendFacts
<1>6. arq' \in [Requests \cup {NoInfo} -> Nat]
  BY <1>3, <1>5 DEF MoveTimer
<1>7. TypeOK' BY <1>1, <1>4, <1>6 DEF IInv, TypeOK
<1>8. NothingLeft' BY <1>1 DEF NothingLeft
<1>9. \A d \in Requests : adm[d].at # "none" <=> adm'[d].at # "none" BY <1>4
<1>10. \A d \in Requests : Listed(d) <=> Listed(d)' BY <1>4 DEF Listed, Pending, Admitted
<1>11. \A d \in Requests : d \in Pending <=> d \in Pending' BY <1>4 DEF Pending
<1>12. \A d \in Requests : Admission(d)' BY <1>1, <1>4, <1>9 DEF IInv, Admission
<1>13. Own' BY <1>1, <1>9, <1>10 DEF IInv, Own, Exists
<1>14. AllTimed'
  <2> SUFFICES ASSUME ~shared, NEW d \in Requests, adm'[d].at = "pending", ~Broken'
               PROVE  arq'[d] > 0
    BY <1>1 DEF AllTimed, Timed
  <2>1. CASE adm[d].at = "unsent" BY <1>4, <2>1
  <2>2. CASE adm[d].at = "pending"
    <3>1. ~Broken BY <1>2 DEF Broken
    <3>2. arq[d] > 0 BY <1>1, <2>2, <3>1 DEF IInv, AllTimed, Timed
    <3>3. PICK i \in Requests \cup {NoInfo} :
            arq' = MoveTimer(t, i) /\ (~shared /\ t \in Pending => i = t)
      BY <1>5
    <3>4. CASE d # t BY <1>3, <3>2, <3>3, <3>4 DEF MoveTimer
    <3>5. CASE d = t
      <4>1. i = t BY <2>2, <3>3, <3>5, ListFacts
      <4> QED BY <1>3, <3>2, <3>3, <3>5, <4>1 DEF MoveTimer
    <3> QED BY <3>4, <3>5
  <2> QED BY <1>4, <2>1, <2>2
<1>15. Points'
  <2> SUFFICES ASSUME ~shared, ~rejected
               PROVE  arq'[NoInfo] = 0
                      /\ \A d \in Requests : arq'[d] <= 1 /\ (arq'[d] > 0 => d \in Pending)
    BY <1>1, <1>11 DEF Points
  <2>1. /\ arq[NoInfo] = 0
        /\ \A d \in Requests : arq[d] <= 1 /\ (arq[d] > 0 => d \in Pending)
    BY DEF IInv, Points
  <2>2. t \in Pending BY <1>3, <2>1
  <2>3. arq' = MoveTimer(t, t) \/ arq' = [arq EXCEPT ![t] = @ - 1] BY <1>5, <2>2
  <2> QED BY <1>3, <2>1, <2>3, RequestFacts DEF MoveTimer
<1>16. StaleUnread' BY <1>1 DEF StaleUnread
<1> QED BY <1>1, <1>7, <1>8, <1>12, <1>13, <1>14, <1>15, <1>16 DEF IInv

\* The monitor is stopped: nothing of the client is left.
LEMMA StopStep ==
  ASSUME IInv, StopMonitor
  PROVE  IInv'
<1>1. gk' \in Clients /\ gk'.state = "none" /\ \A k \in Kinds : gk'.timers[k] = 0
  BY DEF StopMonitor, NoClient, Clients, Kinds
<1>2. /\ adm' \in [Requests -> Infos]
      /\ \A e \in Requests : /\ adm[e].at = "none" => adm'[e] = adm[e]
                             /\ adm[e].at # "none" => adm'[e].at = "freed" /\ adm'[e].setups = 0
  BY AllFreedFacts DEF StopMonitor, IInv, TypeOK
<1>3. /\ UNCHANGED <<ref, rejected, shared>> /\ pc' = "stopped"
      /\ arq' = [e \in Requests \cup {NoInfo} |-> 0]
      /\ call' = [c \in Calls |-> IF call[c] = "none" THEN "none" ELSE "gone"]
  BY DEF StopMonitor, history
<1>4. TypeOK' BY <1>1, <1>2, <1>3 DEF IInv, TypeOK, Phases
<1>5. \A e \in Requests : ~Listed(e)' BY <1>2, ListFacts DEF Listed, Pending, Admitted
<1>6. NothingLeft' BY <1>1, <1>3, <1>5 DEF NothingLeft
<1>7. \A e \in Requests : Admission(e)'
  <2> SUFFICES ASSUME NEW e \in Requests PROVE Admission(e)' OBVIOUS
  <2>1. Admission(e) /\ e[1] \in Calls BY RequestFacts DEF IInv
  <2> QED BY <1>2, <1>3, <2>1 DEF Admission
<1>8. Own'
  <2>1. \A c \in Calls : ~Exists(c)' BY <1>3 DEF Exists
  <2> QED BY <1>2, <1>3, <1>5, <2>1, RequestFacts DEF IInv, Own
<1>9. AllTimed' BY <1>1 DEF AllTimed, Timed
<1>10. Points' /\ StaleUnread' BY <1>3 DEF Points, StaleUnread
<1> QED BY <1>1, <1>4, <1>6, <1>7, <1>8, <1>9, <1>10 DEF IInv

\* Freed memory is read, with everything as it was.
LEMMA CrashStep ==
  ASSUME IInv, Crash, pc \in {"timers", "ras", "calls"}, shared \/ rejected,
         pc = "timers" \/ gk.state # "none"
  PROVE  IInv'
<1>1. UNCHANGED <<gk, arq, adm, call, ref, rejected, shared>> /\ pc' = "crashed"
  BY DEF Crash, calls, history
<1>2. TypeOK' BY <1>1 DEF IInv, TypeOK, Phases
<1>3. NothingLeft' BY <1>1 DEF IInv, NothingLeft, Listed, Pending, Admitted
<1>4. \A e \in Requests : Admission(e)' BY <1>1 DEF IInv, Admission
<1>5. Own' BY <1>1 DEF IInv, Own, Listed, Pending, Admitted, Exists
<1>6. AllTimed' BY <1>1 DEF IInv, AllTimed, Timed, Broken
<1>7. Points' /\ StaleUnread' BY <1>1 DEF IInv, Points, StaleUnread, Pending
<1> QED BY <1>1, <1>2, <1>3, <1>4, <1>5, <1>6, <1>7 DEF IInv

\* Until a call is rejected or shares its reference, no timer points to freed memory
\* and no list holds any.
LEMMA NoneStale ==
  ASSUME IInv, ~shared, ~rejected
  PROVE  /\ arq[NoInfo] = 0
         /\ \A e \in Requests : arq[e] > 0 \/ Listed(e) => ~Stale(e)
<1>1. \A e \in Requests : arq[e] > 0 => Listed(e) BY ListFacts DEF IInv, Points
<1> QED BY <1>1 DEF IInv, Points, Own, Stale

\* Reading freed memory takes a rejected call or a shared reference.
LEMMA StaleStep ==
  ASSUME IInv, \/ StaleTimerExpired \/ StaleAnswered
               \/ \E c \in Calls : SearchStale(c)
  PROVE  IInv'
<1> USE DEF StaleTimerExpired, StaleAnswered, SearchStale
<1>1. Crash /\ pc \in {"timers", "ras", "calls"} /\ (pc = "timers" \/ gk.state # "none")
  OBVIOUS
<1>2. ASSUME ~shared, ~rejected PROVE FALSE
  <2>1. /\ arq[NoInfo] = 0
        /\ \A e \in Requests : arq[e] > 0 \/ Listed(e) => ~Stale(e)
    BY <1>2, NoneStale
  <2>2. CASE StaleTimerExpired BY <2>1, <2>2, ListFacts
  <2>3. CASE StaleAnswered BY <2>1, <2>3, ListFacts
  <2>4. ASSUME NEW c \in Calls, SearchStale(c) PROVE FALSE BY <2>1, <2>4, ListFacts
  <2> QED BY <2>2, <2>3, <2>4
<1> QED BY <1>1, <1>2, CrashStep

\* The phases follow each other.
LEMMA PhaseStep ==
  ASSUME IInv, EndTimers \/ EndCommands \/ NothingReceived \/ EndCalls
  PROVE  IInv'
<1> USE DEF EndTimers, EndCommands, NothingReceived, EndCalls
<1>1. UNCHANGED <<gk, arq, adm, call, ref, rejected, shared>> /\ pc' # "crashed"
      /\ (pc \in {"timers", "crashed"} => ~Broken)
  BY DEF calls, history
<1>2. TypeOK' BY <1>1 DEF IInv, TypeOK, Phases
<1>3. NothingLeft' BY <1>1 DEF IInv, NothingLeft, Listed, Pending, Admitted
<1>4. \A e \in Requests : Admission(e)' BY <1>1 DEF IInv, Admission
<1>5. Own' BY <1>1 DEF IInv, Own, Listed, Pending, Admitted, Exists
<1>6. AllTimed' BY <1>1 DEF IInv, AllTimed, Timed
<1>7. Points' /\ StaleUnread' BY <1>1 DEF IInv, Points, StaleUnread, Pending
<1> QED BY <1>1, <1>2, <1>3, <1>4, <1>5, <1>6, <1>7 DEF IInv


\* A call asks for admission, with a reference of its own.
LEMMA RequestStep ==
  ASSUME IInv, NEW c \in Calls, NEW e \in NextRequests(c), SendAdmissionRequest(e),
         NEW r \in Refs, Refer(c, r, TRUE), call' = [call EXCEPT ![c] = "live"],
         gk.state # "none", pc \in {"commands", "calls"}, UNCHANGED <<pc, rejected>>
  PROVE  IInv'
<1>1. e \in Requests /\ e[1] = c /\ adm[e].at = "none" BY DEF NextRequests
<1>2. /\ gk \in Clients /\ arq \in [Requests \cup {NoInfo} -> Nat]
      /\ adm \in [Requests -> Infos] /\ ref \in [Calls -> Refs \cup {0}]
      /\ call \in [Calls -> {"none", "live", "clear", "gone"}]
  BY DEF IInv, TypeOK
<1>3. gk' = gk \/ gk' = [gk EXCEPT !.state = "Failed"] BY DEF SendAdmissionRequest
<1>4. gk' \in Clients /\ gk'.state # "none" /\ Waiting(gk')
  <2>1. CASE gk' = gk BY <1>2, <2>1 DEF IInv
  <2>2. CASE gk' = [gk EXCEPT !.state = "Failed"] BY <1>2, <2>2, StateFacts, BrokenWaits
  <2> QED BY <1>3, <2>1, <2>2
<1>5. /\ adm' \in [Requests -> Infos]
      /\ \A d \in Requests : adm'[d].setups = adm[d].setups
      /\ \A d \in Requests : d # e => adm'[d] = adm[d]
      /\ adm'[e].at \in {"none", "unsent", "pending"}
  <2>1. \/ adm' = [adm EXCEPT ![e].at = "pending"]
        \/ adm' = [adm EXCEPT ![e].at = "unsent"]
        \/ adm' = adm
    BY DEF SendAdmissionRequest
  <2> QED BY <1>1, <1>2, <2>1 DEF Infos
<1>6. \/ arq' = [arq EXCEPT ![e] = @ + 1] /\ adm'[e].at = "pending"
      \/ arq' = arq /\ adm'[e].at # "pending"
  BY <1>1, <1>2 DEF SendAdmissionRequest, Infos
<1>7. /\ ref' = [ref EXCEPT ![c] = r] /\ rejected' = rejected /\ pc' = pc
      /\ shared' \in BOOLEAN
      /\ ~shared' => /\ ~shared /\ Made(c) = {}
                     /\ \A d \in Calls \ {c} : Exists(d) => ref[d] # r
  BY DEF Refer, IInv, TypeOK
<1>8. /\ TypeOK' /\ NothingLeft' /\ StaleUnread'
  <2>1. arq' \in [Requests \cup {NoInfo} -> Nat] BY <1>1, <1>2, <1>6
  <2>2. TypeOK' BY <1>2, <1>4, <1>5, <1>7, <2>1 DEF IInv, TypeOK
  <2>3. NothingLeft' BY <1>4 DEF NothingLeft
  <2>4. StaleUnread' BY <1>7 DEF StaleUnread
  <2> QED BY <2>2, <2>3, <2>4
<1>9. \A d \in Requests : Admission(d)'
  <2> SUFFICES ASSUME NEW d \in Requests PROVE Admission(d)' OBVIOUS
  <2>1. Admission(d) /\ d[1] \in Calls BY RequestFacts DEF IInv
  <2> QED BY <1>1, <1>2, <1>5, <2>1 DEF Admission
<1>10. Own'
  <2> SUFFICES ASSUME ~shared' PROVE Own' BY DEF Own
  <2>1. \A d \in Requests : d[1] = c => adm[d].at = "none" BY <1>7 DEF Made
  <2>2. \A d \in Requests : d # e /\ adm'[d].at # "none" => d[1] # c BY <1>5, <2>1
  <2>3. \A x \in Calls : /\ x # c => (Exists(x)' <=> Exists(x)) /\ ref'[x] = ref[x]
                         /\ x = c => Exists(x)' /\ ref'[x] = r
    BY <1>2, <1>7 DEF Exists
  <2>4. \A d, i \in Requests :
          d[1] = i[1] /\ adm'[d].at # "none" /\ adm'[i].at # "none" => d = i
    BY <1>1, <1>5, <1>7, <2>2 DEF IInv, Own
  <2>5. ASSUME NEW d \in Requests, Listed(d)' PROVE Exists(d[1])'
    <3>1. d[1] \in Calls BY RequestFacts
    <3>2. CASE d = e BY <1>1, <2>3, <3>2
    <3>3. CASE d # e
      <4>1. Listed(d) BY <1>5, <2>5, <3>3 DEF Listed, Pending, Admitted
      <4> QED BY <1>7, <2>3, <3>1, <4>1 DEF IInv, Own
    <3> QED BY <3>2, <3>3
  <2>6. ASSUME NEW d \in Requests, NEW x \in Calls,
               adm'[d].at # "none", Exists(d[1])', Exists(x)', ref'[x] = ref'[d[1]]
        PROVE  x = d[1]
    <3>1. d[1] \in Calls BY RequestFacts
    <3>2. CASE d = e BY <1>1, <1>7, <2>3, <2>6, <3>2
    <3>3. CASE d # e
      <4>1. d[1] # c /\ Exists(d[1]) /\ ref'[d[1]] = ref[d[1]] /\ adm[d].at # "none"
        BY <1>5, <2>2, <2>3, <2>6, <3>1, <3>3
      <4>2. x # c BY <1>7, <2>3, <2>6, <3>1, <4>1
      <4> QED BY <1>7, <2>3, <2>6, <4>1, <4>2 DEF IInv, Own
    <3> QED BY <3>2, <3>3
  <2> QED BY <2>4, <2>5, <2>6 DEF Own
<1>11. AllTimed'
  <2> SUFFICES ASSUME ~shared', NEW d \in Requests, adm'[d].at = "pending"
               PROVE  arq'[d] > 0
    BY DEF AllTimed, Timed
  <2>1. CASE d = e BY <1>1, <1>2, <1>6, <2>1
  <2>2. CASE d # e
    <3>1. arq[d] > 0 BY <1>5, <1>7, <2>2 DEF IInv, AllTimed, Timed
    <3> QED BY <1>2, <1>6, <2>2, <3>1
  <2> QED BY <2>1, <2>2
<1>12. Points'
  <2> SUFFICES ASSUME ~shared', ~rejected
               PROVE  arq'[NoInfo] = 0
                      /\ \A d \in Requests : arq'[d] <= 1 /\ (arq'[d] > 0 => (d \in Pending)')
    BY <1>7 DEF Points
  <2>1. /\ arq[NoInfo] = 0
        /\ \A d \in Requests : arq[d] <= 1 /\ (arq[d] > 0 => d \in Pending)
    BY <1>7 DEF IInv, Points
  <2>2. arq[e] = 0 BY <1>1, <1>2, <2>1, ListFacts
  <2>3. \A d \in Requests : d # e => ((d \in Pending)' <=> d \in Pending)
    BY <1>5 DEF Pending
  <2>4. adm'[e].at = "pending" => (e \in Pending)' BY <1>1 DEF Pending
  <2> QED BY <1>1, <1>2, <1>6, <2>1, <2>2, <2>3, <2>4, RequestFacts
<1> QED BY <1>4, <1>8, <1>9, <1>10, <1>11, <1>12 DEF IInv

\* A call has another reference and asks for nothing.
LEMMA ReferStep ==
  ASSUME IInv, NEW c \in Calls, NEW r \in Refs \cup {0}, Refer(c, r, FALSE),
         NEW s \in {"live", "clear", "gone"}, call' = [call EXCEPT ![c] = s],
         UNCHANGED <<gk, arq, adm, pc, rejected>>
  PROVE  IInv'
<1>1. /\ ref \in [Calls -> Refs \cup {0}]
      /\ call \in [Calls -> {"none", "live", "clear", "gone"}]
  BY DEF IInv, TypeOK
<1>2. /\ ref' = [ref EXCEPT ![c] = r] /\ shared' \in BOOLEAN
      /\ ~shared' => /\ ~shared /\ Made(c) = {}
                     /\ \A d \in Calls \ {c} : Exists(d) /\ ref[d] = r => Made(d) = {}
  BY DEF Refer, IInv, TypeOK
<1>3. TypeOK' BY <1>1, <1>2 DEF IInv, TypeOK
<1>4. \A d \in Requests : Admission(d)'
  <2> SUFFICES ASSUME NEW d \in Requests PROVE Admission(d)' OBVIOUS
  <2>1. Admission(d) /\ d[1] \in Calls BY RequestFacts DEF IInv
  <2> QED BY <1>1, <2>1 DEF Admission
<1>5. Own'
  <2> SUFFICES ASSUME ~shared' PROVE Own' BY DEF Own
  <2>1. \A d \in Requests : adm[d].at # "none" => d[1] # c BY <1>2 DEF Made
  <2>2. \A x \in Calls : x # c => (Exists(x)' <=> Exists(x)) /\ ref'[x] = ref[x]
    BY <1>1, <1>2 DEF Exists
  <2>3. ASSUME NEW d \in Requests, Listed(d)' PROVE Exists(d[1])'
    <3>1. d[1] \in Calls /\ Listed(d) /\ adm[d].at # "none"
      BY <2>3, RequestFacts DEF Listed, Pending, Admitted
    <3> QED BY <1>2, <2>1, <2>2, <3>1 DEF IInv, Own
  <2>4. ASSUME NEW d \in Requests, NEW x \in Calls,
               adm[d].at # "none", Exists(d[1])', Exists(x)', ref'[x] = ref'[d[1]]
        PROVE  x = d[1]
    <3>1. d[1] \in Calls BY RequestFacts
    <3>2. d[1] # c /\ Exists(d[1]) /\ ref'[d[1]] = ref[d[1]] BY <2>1, <2>2, <2>4, <3>1
    <3>3. Made(d[1]) # {} BY <2>4 DEF Made
    <3>4. ref'[c] = r BY <1>1, <1>2
    <3>5. x # c BY <1>2, <2>4, <3>1, <3>2, <3>3, <3>4
    <3> QED BY <1>2, <2>2, <2>4, <3>2, <3>5 DEF IInv, Own
  <2> QED BY <1>2, <2>3, <2>4 DEF IInv, Own
<1>6. /\ NothingLeft' /\ AllTimed' /\ Points' /\ StaleUnread'
  <2>1. NothingLeft' BY DEF IInv, NothingLeft, Listed, Pending, Admitted
  <2>2. AllTimed' BY <1>2 DEF IInv, AllTimed, Timed, Broken
  <2>3. Points' /\ StaleUnread' BY <1>2 DEF IInv, Points, StaleUnread, Pending
  <2> QED BY <2>1, <2>2, <2>3
<1> QED BY <1>3, <1>4, <1>5, <1>6 DEF IInv

\* A call is placed or accepted, or its Setup is received.
LEMMA CallStep ==
  ASSUME IInv, NEW c \in Calls, PlaceCall(c) \/ AcceptCall(c) \/ ReceiveSetup(c)
  PROVE  IInv'
<1>1. CASE PlaceCall(c)
  <2>1. /\ gk.state # "none" /\ pc \in {"commands", "calls"} /\ UNCHANGED <<pc, rejected>>
        /\ call' = [call EXCEPT ![c] = "live"]
        /\ \E r \in Refs : Refer(c, r, TRUE)
        /\ \E e \in NextRequests(c) : SendAdmissionRequest(e)
    BY <1>1 DEF PlaceCall
  <2> QED BY <2>1, RequestStep
<1>2. CASE AcceptCall(c)
  <2>1. /\ call' = [call EXCEPT ![c] = "live"] /\ Refer(c, 0, FALSE)
        /\ UNCHANGED <<gk, arq, adm, pc, rejected>>
    BY <1>2 DEF AcceptCall
  <2> QED BY <2>1, ReferStep
<1>3. CASE ReceiveSetup(c)
  <2>1. /\ pc = "calls" /\ gk.state # "none" /\ Exists(c) /\ UNCHANGED <<pc, rejected>>
    BY <1>3 DEF ReceiveSetup
  <2>2. CASE /\ \E r \in Refs : Refer(c, r, TRUE)
             /\ \E e \in NextRequests(c) : SendAdmissionRequest(e)
             /\ call' = [call EXCEPT ![c] = "live"]
    BY <2>1, <2>2, RequestStep
  <2>3. CASE /\ \E r \in Refs : Refer(c, r, FALSE)
             /\ \/ call' = [call EXCEPT ![c] = "gone"]
                \/ UNCHANGED call
             /\ UNCHANGED <<gk, arq, adm>>
    <3>1. PICK r \in Refs : Refer(c, r, FALSE) BY <2>3
    <3>2. call \in [Calls -> {"none", "live", "clear", "gone"}] BY DEF IInv, TypeOK
    <3>3. call' = [call EXCEPT ![c] = "gone"] \/ call' = [call EXCEPT ![c] = call[c]]
      BY <2>3, <3>2
    <3>4. call[c] \in {"live", "clear", "gone"} BY <2>1 DEF Exists
    <3>5. UNCHANGED <<gk, arq, adm, pc, rejected>> BY <2>1, <2>3
    <3> QED BY <3>1, <3>3, <3>4, <3>5, ReferStep
  <2> QED BY <1>3, <2>2, <2>3 DEF ReceiveSetup
<1> QED BY <1>1, <1>2, <1>3

\* A call is cleared: it exists still.
LEMMA ClearStep ==
  ASSUME IInv, NEW c \in Calls, ClearCall(c)
  PROVE  IInv'
<1>1. /\ UNCHANGED <<gk, arq, adm, ref, pc, rejected, shared>>
      /\ call[c] = "live" /\ call' = [call EXCEPT ![c] = "clear"]
  BY DEF ClearCall, history
<1>2. call \in [Calls -> {"none", "live", "clear", "gone"}] BY DEF IInv, TypeOK
<1>3. \A x \in Calls : (Exists(x)' <=> Exists(x)) /\ (call'[x] = "none" <=> call[x] = "none")
  BY <1>1, <1>2 DEF Exists
<1>4. TypeOK' BY <1>1 DEF IInv, TypeOK
<1>5. NothingLeft' BY <1>1 DEF IInv, NothingLeft, Listed, Pending, Admitted
<1>6. \A e \in Requests : Admission(e)' BY <1>1, <1>3, RequestFacts DEF IInv, Admission
<1>7. Own' BY <1>1, <1>3, RequestFacts DEF IInv, Own, Listed, Pending, Admitted
<1>8. AllTimed' BY <1>1 DEF IInv, AllTimed, Timed, Broken
<1>9. Points' /\ StaleUnread' BY <1>1 DEF IInv, Points, StaleUnread, Pending
<1> QED BY <1>1, <1>4, <1>5, <1>6, <1>7, <1>8, <1>9 DEF IInv

\* One entry is freed, or none.
LEMMA FreeFacts ==
  ASSUME IInv, NEW e \in Requests \cup {NoInfo}, Free(e)
  PROVE  /\ adm' \in [Requests -> Infos]
         /\ \A d \in Requests : IF d = e THEN adm'[d].at = "freed" /\ adm'[d].setups = 0
                                ELSE adm'[d] = adm[d]
<1>1. adm \in [Requests -> Infos] BY DEF IInv, TypeOK
<1>2. CASE e = NoInfo BY <1>1, <1>2, RequestFacts DEF Free
<1>3. CASE e # NoInfo
  <2> DEFINE f == Freed(adm[e])
  <2>1. e \in Requests /\ f \in Infos /\ f.at = "freed" /\ f.setups = 0
    BY <1>1, <1>3, FreedFacts
  <2>2. adm' = [adm EXCEPT ![e] = f] BY <1>3 DEF Free
  <2> HIDE DEF f
  <2> QED BY <1>1, <2>1, <2>2
<1> QED BY <1>2, <1>3

\* A request for disengagement frees one admitted entry, or none.
LEMMA DisengageStep ==
  ASSUME IInv, NEW c \in Calls, Disengage(c)
  PROVE  IInv'
<1>1. /\ gk.state = "Registered" /\ pc = "calls"
      /\ gk' \in {gk, [gk EXCEPT !.state = "Failed"]}
      /\ UNCHANGED <<arq, call, ref, pc, rejected, shared>>
  BY DEF Disengage, calls, history
<1>2. PICK e \in Found(Admitted, ref[c]) : Free(e) BY DEF Disengage
<1>3. e \in Admitted \cup {NoInfo} BY DEF Found
<1>4. e \in Requests \cup {NoInfo} BY <1>3, ListFacts
<1>5. /\ adm' \in [Requests -> Infos]
      /\ \A d \in Requests : IF d = e THEN adm'[d].at = "freed" /\ adm'[d].setups = 0
                             ELSE adm'[d] = adm[d]
  BY <1>2, <1>4, FreeFacts
<1>6. \A d \in Requests : d = e => adm[d].at = "admitted" BY <1>3, RequestFacts, ListFacts
<1>7. gk' \in Clients /\ gk'.state # "none" /\ Waiting(gk')
  <2>1. gk \in Clients BY DEF IInv, TypeOK
  <2> QED BY <1>1, <2>1, StateFacts, BrokenWaits DEF IInv
<1>8. TypeOK' BY <1>1, <1>5, <1>7 DEF IInv, TypeOK
<1>9. NothingLeft' BY <1>7 DEF NothingLeft
<1>10. \A d \in Requests : Admission(d)' BY <1>1, <1>5, <1>6 DEF IInv, Admission
<1>11. \A d \in Requests : /\ adm'[d].at # "none" <=> adm[d].at # "none"
                           /\ Listed(d)' => Listed(d)
                           /\ (d \in Pending)' <=> d \in Pending
  BY <1>5, <1>6 DEF Listed, Pending, Admitted
<1>12. Own' BY <1>1, <1>11 DEF IInv, Own, Exists
<1>13. AllTimed' BY <1>1, <1>5 DEF IInv, AllTimed, Timed
<1>14. Points' /\ StaleUnread' BY <1>1, <1>11 DEF IInv, Points, StaleUnread
<1> QED BY <1>7, <1>8, <1>9, <1>10, <1>12, <1>13, <1>14 DEF IInv

\* What the clean-up of a call leaves of the client, while calls have references of
\* their own: no entry of the call, and the timers of the others.
LEMMA CleanInfoFacts ==
  ASSUME IInv, NEW c \in Calls, Exists(c), CleanInfo(ref[c])
  PROVE  /\ adm' \in [Requests -> Infos] /\ arq' \in [Requests \cup {NoInfo} -> Nat]
         /\ \A d \in Requests : \/ adm'[d] = adm[d]
                                \/ /\ Listed(d)
                                   /\ adm'[d].at = "freed" /\ adm'[d].setups = 0
         /\ ~shared => \A d \in Requests :
              Listed(d) => IF d[1] = c THEN adm'[d].at = "freed"
                           ELSE adm'[d] = adm[d] /\ arq'[d] = arq[d]
         /\ ~shared /\ ~rejected =>
              /\ arq'[NoInfo] = 0
              /\ \A d \in Requests : /\ arq'[d] <= 1
                                     /\ arq'[d] > 0 => d \in Pending /\ adm'[d] = adm[d]
<1> DEFINE r == ref[c]
           timed == {e \in Requests : arq[e] > 0}
<1>1. /\ arq \in [Requests \cup {NoInfo} -> Nat] /\ adm \in [Requests -> Infos] /\ Own
  BY DEF IInv, TypeOK
<1>2. /\ Admitted \in SUBSET Requests /\ Pending \in SUBSET Requests
      /\ timed \in SUBSET Requests
  BY ListFacts
<1>3. ASSUME ~shared, NEW S \in SUBSET Requests, NEW e \in Found(S, r), e # NoInfo
      PROVE  e \in S /\ (Listed(e) => e[1] = c)
  BY <1>1, <1>3, SearchOwn
<1>4. ASSUME ~shared, NEW S \in SUBSET Requests, NEW e \in S, Listed(e), e[1] = c
      PROVE  NoInfo \notin Found(S, r)
  BY <1>1, <1>4, SearchFinds
<1>5. ASSUME ~shared, NEW e \in Requests, NEW i \in Requests, Listed(e), Listed(i),
             e[1] = c, i[1] = c
      PROVE  e = i
  <2>1. adm[e].at # "none" /\ adm[i].at # "none" BY <1>5, ListFacts
  <2> QED BY <1>1, <1>5, <2>1 DEF Own
<1>6. CASE \E e \in Found(Admitted, r) \ {NoInfo} : Free(e) /\ UNCHANGED arq
  <2>1. PICK e \in Found(Admitted, r) \ {NoInfo} : Free(e) /\ UNCHANGED arq BY <1>6
  <2>2. e \in Admitted /\ e \in Requests /\ Listed(e) /\ adm[e].at = "admitted"
    BY <2>1, ListFacts DEF Found
  <2>3. /\ adm' \in [Requests -> Infos]
        /\ \A d \in Requests : IF d = e THEN adm'[d].at = "freed" /\ adm'[d].setups = 0
                               ELSE adm'[d] = adm[d]
    BY <2>1, <2>2, FreeFacts
  <2>4. ~shared => e[1] = c BY <1>2, <1>3, <2>1, <2>2
  <2>5. ~shared => \A d \in Requests :
          Listed(d) => IF d[1] = c THEN adm'[d].at = "freed"
                       ELSE adm'[d] = adm[d] /\ arq'[d] = arq[d]
    BY <1>5, <2>1, <2>2, <2>3, <2>4
  <2>6. ~shared /\ ~rejected =>
          /\ arq'[NoInfo] = 0
          /\ \A d \in Requests : /\ arq'[d] <= 1
                                 /\ arq'[d] > 0 => d \in Pending /\ adm'[d] = adm[d]
    <3> SUFFICES ASSUME ~shared, ~rejected
                 PROVE  /\ arq'[NoInfo] = 0
                        /\ \A d \in Requests :
                             /\ arq'[d] <= 1
                             /\ arq'[d] > 0 => d \in Pending /\ adm'[d] = adm[d]
      OBVIOUS
    <3>1. e \notin Pending BY <2>2, ListFacts
    <3> QED BY <2>1, <2>3, <3>1 DEF IInv, Points
  <2> QED BY <1>1, <2>1, <2>2, <2>3, <2>5, <2>6
<1>7. CASE /\ NoInfo \in Found(Admitted, r)
           /\ \E t \in Found(timed, r) :
                arq' = IF t = NoInfo THEN arq ELSE [arq EXCEPT ![t] = @ - 1]
           /\ \E e \in Found(Pending, r) : Free(e)
  <2>1. PICK t \in Found(timed, r) :
          arq' = IF t = NoInfo THEN arq ELSE [arq EXCEPT ![t] = @ - 1]
    BY <1>7
  <2>2. PICK e \in Found(Pending, r) : Free(e) BY <1>7
  <2>3. t \in timed \cup {NoInfo} /\ e \in Pending \cup {NoInfo} BY DEF Found
  <2>4. e \in Requests \cup {NoInfo} BY <1>2, <2>3
  <2>5. /\ adm' \in [Requests -> Infos]
        /\ \A d \in Requests : IF d = e THEN adm'[d].at = "freed" /\ adm'[d].setups = 0
                               ELSE adm'[d] = adm[d]
    BY <2>2, <2>4, FreeFacts
  <2>6. /\ arq' \in [Requests \cup {NoInfo} -> Nat]
        /\ \A d \in Requests : d # t => arq'[d] = arq[d]
        /\ t # NoInfo => arq'[t] = arq[t] - 1
        /\ arq'[NoInfo] = arq[NoInfo]
    BY <1>1, <2>1, <2>3, RequestFacts
  <2>7. \A d \in Requests : d = e => Listed(d) BY <2>3, RequestFacts, ListFacts
  <2>8. ~shared /\ e # NoInfo => e[1] = c BY <1>2, <1>3, <2>2, <2>3, <2>7
  <2>9. ~shared /\ t # NoInfo /\ Listed(t) => t[1] = c BY <1>2, <1>3, <2>1
  <2>10. ASSUME ~shared, NEW d \in Requests, Listed(d)
         PROVE  IF d[1] = c THEN d = e ELSE d # e /\ d # t
    <3>1. CASE d[1] = c
      <4>1. d \notin Admitted BY <1>2, <1>4, <1>7, <2>10, <3>1
      <4>2. d \in Pending BY <2>10, <4>1 DEF Listed
      <4>3. e # NoInfo BY <1>2, <1>4, <2>2, <2>10, <3>1, <4>2
      <4>4. e \in Requests /\ Listed(e) /\ e[1] = c BY <2>4, <2>7, <2>8, <2>10, <4>3
      <4> QED BY <1>5, <2>10, <3>1, <4>4
    <3>2. CASE d[1] # c BY <2>8, <2>9, <2>10, <3>2, RequestFacts
    <3> QED BY <3>1, <3>2
  <2>11. ASSUME ~shared, ~rejected
         PROVE  /\ arq'[NoInfo] = 0
                /\ \A d \in Requests : /\ arq'[d] <= 1
                                       /\ arq'[d] > 0 => d \in Pending /\ adm'[d] = adm[d]
    <3>1. /\ arq[NoInfo] = 0
          /\ \A d \in Requests : arq[d] <= 1 /\ (arq[d] > 0 => d \in Pending)
      BY <2>11 DEF IInv, Points
    <3>2. ASSUME NEW d \in Requests
          PROVE  arq'[d] <= 1 /\ (arq'[d] > 0 => d \in Pending /\ adm'[d] = adm[d])
      <4>1. CASE d = t
        <5>1. arq'[d] = arq[d] - 1 BY <2>6, <4>1, RequestFacts
        <5>2. arq[d] \in Nat /\ arq[d] <= 1 BY <1>1, <3>1
        <5>3. arq'[d] <= 1 /\ ~(arq'[d] > 0) BY <5>1, <5>2
        <5> QED BY <5>3
      <4>2. CASE d # t /\ d # e BY <2>5, <2>6, <3>1, <4>2
      <4>3. CASE d # t /\ d = e
        <5>1. Listed(d) /\ d[1] = c /\ d # NoInfo BY <2>7, <2>8, <2>11, <4>3, RequestFacts
        <5>2. ASSUME arq[d] > 0 PROVE FALSE
          <6>1. t # NoInfo BY <1>2, <1>4, <2>1, <2>11, <5>1, <5>2
          <6>2. t \in Requests /\ Listed(t) BY <2>3, <3>1, <6>1, ListFacts
          <6> QED BY <1>5, <2>9, <2>11, <4>3, <5>1, <6>1, <6>2
        <5>3. arq'[d] = arq[d] /\ arq[d] \in Nat BY <1>1, <2>6, <4>3
        <5> QED BY <5>2, <5>3
      <4> QED BY <4>1, <4>2, <4>3
    <3>3. arq'[NoInfo] = 0 BY <2>6, <3>1
    <3> QED BY <3>2, <3>3
  <2>12. ~shared => \A d \in Requests :
           Listed(d) => IF d[1] = c THEN adm'[d].at = "freed"
                        ELSE adm'[d] = adm[d] /\ arq'[d] = arq[d]
    BY <2>5, <2>6, <2>10
  <2> QED BY <2>5, <2>6, <2>7, <2>11, <2>12
<1> QED BY <1>6, <1>7 DEF CleanInfo

\* A call is cleaned up with its entry.
LEMMA CleanStep ==
  ASSUME IInv, NEW c \in Calls, CleanCall(c)
  PROVE  IInv'
<1>1. /\ UNCHANGED <<gk, pc, rejected, shared>> /\ pc = "calls" /\ call[c] = "clear"
      /\ call' = [call EXCEPT ![c] = "gone"] /\ ref' = [ref EXCEPT ![c] = 0]
  BY DEF CleanCall, history
<1>2. /\ call \in [Calls -> {"none", "live", "clear", "gone"}] /\ Exists(c)
      /\ ref \in [Calls -> Refs \cup {0}]
      /\ arq \in [Requests \cup {NoInfo} -> Nat] /\ adm \in [Requests -> Infos]
  BY <1>1 DEF IInv, TypeOK, Exists
<1>3. /\ adm' \in [Requests -> Infos] /\ arq' \in [Requests \cup {NoInfo} -> Nat]
      /\ \A d \in Requests : \/ adm'[d] = adm[d]
                             \/ Listed(d) /\ adm'[d].at = "freed" /\ adm'[d].setups = 0
      /\ ~shared => \A d \in Requests :
           Listed(d) => IF d[1] = c THEN adm'[d].at = "freed"
                        ELSE adm'[d] = adm[d] /\ arq'[d] = arq[d]
      /\ ~shared /\ ~rejected =>
           /\ arq'[NoInfo] = 0
           /\ \A d \in Requests : /\ arq'[d] <= 1
                                  /\ arq'[d] > 0 => d \in Pending /\ adm'[d] = adm[d]
      /\ gk.state = "none" => UNCHANGED <<arq, adm>>
  <2>1. CASE gk.state = "none"
    <3>1. UNCHANGED <<arq, adm>> BY <2>1 DEF CleanCall
    <3>2. \A d \in Requests : ~Listed(d) BY <2>1 DEF IInv, NothingLeft
    <3> QED BY <1>2, <3>1, <3>2 DEF IInv, Points
  <2>2. CASE gk.state # "none"
    <3>1. CleanInfo(ref[c]) BY <2>2 DEF CleanCall
    <3> QED BY <1>2, <2>2, <3>1, CleanInfoFacts
  <2> QED BY <2>1, <2>2
<1>4. TypeOK' BY <1>1, <1>3 DEF IInv, TypeOK
<1>5. NothingLeft' BY <1>1, <1>3 DEF IInv, NothingLeft, Listed, Pending, Admitted
<1>6. \A x \in Calls : /\ x # c => (Exists(x)' <=> Exists(x)) /\ ref'[x] = ref[x]
                       /\ call'[x] = "none" <=> call[x] = "none"
                       /\ ~Exists(c)'
  BY <1>1, <1>2 DEF Exists
<1>7. \A d \in Requests : Admission(d)'
  <2> SUFFICES ASSUME NEW d \in Requests PROVE Admission(d)' OBVIOUS
  <2>1. Admission(d) /\ d[1] \in Calls BY RequestFacts DEF IInv
  <2>2. Listed(d) => adm[d].at # "none" BY ListFacts
  <2> QED BY <1>3, <1>6, <2>1, <2>2 DEF Admission
<1>8. Own'
  <2> SUFFICES ASSUME ~shared PROVE Own' BY <1>1 DEF Own
  <2>1. \A d \in Requests : (adm'[d].at # "none" <=> adm[d].at # "none")
    <3>1. \A d \in Requests : Listed(d) => adm[d].at # "none" BY ListFacts
    <3> QED BY <1>3, <3>1
  <2>2. ASSUME NEW d \in Requests, Listed(d)' PROVE Listed(d) /\ d[1] # c
    <3>1. adm'[d].at \in {"unsent", "pending", "admitted"}
      BY <2>2 DEF Listed, Pending, Admitted
    <3>2. adm'[d] = adm[d] /\ Listed(d) BY <1>3, <3>1, ListFacts
    <3> QED BY <1>3, <3>1, <3>2
  <2>3. ASSUME NEW d \in Requests, Listed(d)' PROVE Exists(d[1])'
    BY <1>6, <2>2, <2>3, RequestFacts DEF IInv, Own
  <2>4. ASSUME NEW d \in Requests, NEW x \in Calls, adm'[d].at # "none",
               Exists(d[1])', Exists(x)', ref'[x] = ref'[d[1]]
        PROVE  x = d[1]
    <3>1. d[1] \in Calls /\ d[1] # c /\ x # c BY <1>6, <2>4, RequestFacts
    <3> QED BY <1>6, <2>1, <2>4, <3>1 DEF IInv, Own
  <2> QED BY <2>1, <2>3, <2>4 DEF IInv, Own
<1>9. AllTimed'
  <2> SUFFICES ASSUME ~shared, NEW d \in Requests, adm'[d].at = "pending", gk.state # "none"
               PROVE  arq'[d] > 0
    BY <1>1 DEF AllTimed, Timed
  <2>1. adm'[d] = adm[d] /\ Listed(d) BY <1>3, ListFacts
  <2>2. arq'[d] = arq[d] BY <1>3, <2>1
  <2> QED BY <1>1, <2>1, <2>2 DEF IInv, AllTimed, Timed
<1>10. Points' BY <1>1, <1>3 DEF Points, Pending
<1>11. StaleUnread' BY <1>1 DEF IInv, StaleUnread
<1> QED BY <1>1, <1>4, <1>5, <1>7, <1>8, <1>9, <1>10, <1>11 DEF IInv

-----------------------------------------------------------------------------
(* The answers                                                                *)

\* An answer to a client that is broken then, or was: the client is destroyed.
LEMMA DestroyedStep ==
  ASSUME IInv, gk' = NoClient, arq' = [e \in Requests \cup {NoInfo} |-> 0],
         adm' = AllFreed, pc' = "calls", UNCHANGED <<ref, shared>>, rejected' \in BOOLEAN,
         call' \in [Calls -> {"none", "live", "clear", "gone"}],
         \A c \in Calls : /\ Exists(c)' => Exists(c)
                          /\ call'[c] = "none" => call[c] = "none"
  PROVE  IInv'
<1>1. gk' \in Clients /\ gk'.state = "none" /\ \A k \in Kinds : gk'.timers[k] = 0
  BY DEF NoClient, Clients, Kinds
<1>2. /\ adm' \in [Requests -> Infos]
      /\ \A e \in Requests : /\ adm[e].at = "none" => adm'[e] = adm[e]
                             /\ adm[e].at # "none" => adm'[e].at = "freed" /\ adm'[e].setups = 0
  BY AllFreedFacts DEF IInv, TypeOK
<1>3. TypeOK' BY <1>1, <1>2 DEF IInv, TypeOK, Phases
<1>4. \A e \in Requests : ~Listed(e)' BY <1>2, ListFacts DEF Listed, Pending, Admitted
<1>5. NothingLeft' BY <1>1, <1>4 DEF NothingLeft
<1>6. \A e \in Requests : Admission(e)'
  <2> SUFFICES ASSUME NEW e \in Requests PROVE Admission(e)' OBVIOUS
  <2>1. Admission(e) /\ e[1] \in Calls BY RequestFacts DEF IInv
  <2> QED BY <1>2, <2>1 DEF Admission
<1>7. Own' BY <1>2, <1>4, RequestFacts DEF IInv, Own
<1>8. AllTimed' BY <1>1 DEF AllTimed, Timed
<1>9. Points'
  <2>1. arq'[NoInfo] = 0 /\ \A e \in Requests : arq'[e] = 0 OBVIOUS
  <2> QED BY <2>1 DEF Points
<1>10. StaleUnread' BY DEF StaleUnread
<1> QED BY <1>1, <1>3, <1>5, <1>6, <1>7, <1>8, <1>9, <1>10 DEF IInv

\* An answer that is no answer to a request for admission.
LEMMA ClientMessageStep ==
  ASSUME IInv, NEW g, Waiting(g), AfterReceive(g, arq, adm), UNCHANGED <<calls, history>>
  PROVE  IInv'
<1>1. /\ pc = "ras" /\ pc' = "calls" /\ gk.state # "none" /\ g \in Clients
      /\ UNCHANGED <<call, ref, rejected, shared>>
  BY DEF AfterReceive, calls, history, Waiting
<1>2. CASE g.state \in {"Failed", "GkErr"}
  <2>1. gk' = NoClient /\ arq' = [e \in Requests \cup {NoInfo} |-> 0] /\ adm' = AllFreed
    BY <1>2 DEF AfterReceive
  <2>2. call \in [Calls -> {"none", "live", "clear", "gone"}] /\ rejected \in BOOLEAN
    BY DEF IInv, TypeOK
  <2>3. \A c \in Calls : (Exists(c)' => Exists(c)) /\ (call'[c] = "none" => call[c] = "none")
    BY <1>1 DEF Exists
  <2> QED BY <1>1, <2>1, <2>2, <2>3, DestroyedStep
<1>3. CASE g.state \notin {"Failed", "GkErr"}
  <2>1. gk' = g /\ UNCHANGED <<arq, adm>> BY <1>3 DEF AfterReceive
  <2>2. pc' \in Phases /\ pc' # "crashed" BY <1>1 DEF Phases
  <2>3. gk' \in Clients /\ Waiting(gk') BY <1>1, <2>1
  <2>4. ~(pc \in {"timers", "crashed"}) BY <1>1
  <2>5. UNCHANGED <<arq, adm, calls, history>> BY <2>1
  <2> QED BY <1>1, <2>2, <2>3, <2>4, <2>5, ClientStep
<1> QED BY <1>2, <1>3

\* An answer about discovery or registration.
LEMMA RegistrationStep ==
  ASSUME IInv, ReceiveDiscovery \/ ReceiveRegistration
  PROVE  IInv'
<1>1. ASSUME NEW g, NEW a, NEW i, AfterReceive(g, a, i) PROVE Waiting(gk)
  BY <1>1 DEF AfterReceive, IInv
<1>2. CASE ReceiveDiscovery
  <2>1. UNCHANGED <<calls, history>> BY <1>2 DEF ReceiveDiscovery
  <2>2. PICK ok \in BOOLEAN : \/ AfterReceive(HandleGatekeeperReject(gk), arq, adm)
                              \/ AfterReceive(HandleGatekeeperConfirm(gk, ok), arq, adm)
    BY <1>2 DEF ReceiveDiscovery
  <2> QED BY <1>1, <2>1, <2>2, DiscoveryWaits, ClientMessageStep
<1>3. CASE ReceiveRegistration
  <2>1. UNCHANGED <<calls, history>> BY <1>3 DEF ReceiveRegistration
  <2>2. PICK ok \in BOOLEAN, ttl \in BOOLEAN :
          \/ AfterReceive(HandleRegistrationConfirm(gk, ttl), arq, adm)
          \/ AfterReceive(HandleRegistrationReject(gk, "fullRegistrationRequired", ok), arq, adm)
          \/ AfterReceive(HandleRegistrationReject(gk, "discoveryRequired", ok), arq, adm)
          \/ AfterReceive(HandleRegistrationReject(gk, "other", ok), arq, adm)
          \/ AfterReceive(HandleUnregistrationRequest(gk, ok), arq, adm)
    BY <1>3 DEF ReceiveRegistration
  <2>3. Waiting(gk) BY <1>1, <2>2
  <2>4. /\ Waiting(HandleRegistrationConfirm(gk, ttl))
        /\ Waiting(HandleRegistrationReject(gk, "fullRegistrationRequired", ok))
        /\ Waiting(HandleRegistrationReject(gk, "discoveryRequired", ok))
        /\ Waiting(HandleRegistrationReject(gk, "other", ok))
        /\ Waiting(HandleUnregistrationRequest(gk, ok))
    BY <2>3, ConfirmWaits, RejectWaits, UnregistrationWaits
  <2> QED BY <2>1, <2>2, <2>4, ClientMessageStep
<1> QED BY <1>2, <1>3

\* A call is admitted: its entry leaves the pending list, with its timer.
LEMMA AdmitStep ==
  ASSUME IInv, NEW e \in Requests, HandleAdmissionConfirm(e)
  PROVE  IInv'
<1> DEFINE i == [adm EXCEPT ![e].at = "admitted", ![e].setups = @ + 1]
<1>1. /\ pc = "ras" /\ pc' = "calls" /\ gk.state # "none" /\ adm[e].at = "pending"
      /\ UNCHANGED <<call, ref, rejected, shared>>
  BY DEF HandleAdmissionConfirm, AfterReceive, calls, history
<1>2. /\ gk \in Clients /\ arq \in [Requests \cup {NoInfo} -> Nat]
      /\ adm \in [Requests -> Infos] /\ rejected \in BOOLEAN
      /\ call \in [Calls -> {"none", "live", "clear", "gone"}]
  BY DEF IInv, TypeOK
<1>3. CASE gk.state \in {"Failed", "GkErr"}
  <2>1. gk' = NoClient /\ arq' = [d \in Requests \cup {NoInfo} |-> 0] /\ adm' = AllFreed
    BY <1>3 DEF HandleAdmissionConfirm, AfterReceive
  <2>2. \A c \in Calls : (Exists(c)' => Exists(c)) /\ (call'[c] = "none" => call[c] = "none")
    BY <1>1 DEF Exists
  <2> QED BY <1>1, <1>2, <2>1, <2>2, DestroyedStep
<1>4. CASE gk.state \notin {"Failed", "GkErr"}
  <2>1. gk' = gk /\ arq' = Untimed(e) /\ adm' = i
    BY <1>4 DEF HandleAdmissionConfirm, AfterReceive
  <2>2. /\ i \in [Requests -> Infos] /\ i[e].at = "admitted" /\ i[e].setups = adm[e].setups + 1
        /\ \A d \in Requests : d # e => i[d] = adm[d]
    <3> DEFINE n == [adm[e] EXCEPT !.at = "admitted", !.setups = adm[e].setups + 1]
    <3>1. adm[e] \in Infos BY <1>2
    <3>2. n \in Infos /\ n.at = "admitted" /\ n.setups = adm[e].setups + 1
      <4>1. adm[e].setups + 1 \in Nat BY <3>1 DEF Infos
      <4> DEFINE m == [adm[e] EXCEPT !.at = "admitted"]
                 s == adm[e].setups + 1
      <4>2. m \in Infos /\ m.at = "admitted" BY <3>1 DEF Infos
      <4>3. n = [m EXCEPT !.setups = s] OBVIOUS
      <4> HIDE DEF m, s, n
      <4>4. n \in Infos /\ n.at = m.at /\ n.setups = s BY <4>1, <4>2, <4>3 DEF Infos, s
      <4> QED BY <4>2, <4>4 DEF s
    <3>3. i = [adm EXCEPT ![e] = n] BY <1>2
    <3> HIDE DEF n, i
    <3> QED BY <1>2, <3>2, <3>3
  <2> HIDE DEF i
  <2>3. /\ arq' \in [Requests \cup {NoInfo} -> Nat]
        /\ \A d \in Requests \cup {NoInfo} : d # e => arq'[d] = arq[d]
        /\ arq'[e] = IF arq[e] > 0 THEN arq[e] - 1 ELSE 0
    BY <1>2, <2>1 DEF Untimed
  <2>4. TypeOK' BY <1>1, <1>2, <2>1, <2>2, <2>3 DEF IInv, TypeOK, Phases
  <2>5. NothingLeft' BY <1>1, <2>1 DEF NothingLeft
  <2>6. \A d \in Requests : Admission(d)'
    <3> SUFFICES ASSUME NEW d \in Requests PROVE Admission(d)' OBVIOUS
    <3>1. Admission(d) /\ adm[d].setups \in Nat BY <1>2 DEF IInv, Infos
    <3> QED BY <1>1, <2>1, <2>2, <3>1 DEF Admission
  <2>7. \A d \in Requests : /\ adm'[d].at # "none" <=> adm[d].at # "none"
                            /\ Listed(d)' <=> Listed(d)
                            /\ d # e => ((d \in Pending)' <=> d \in Pending)
    BY <1>1, <2>1, <2>2 DEF Listed, Pending, Admitted
  <2>8. Own' BY <1>1, <2>7 DEF IInv, Own, Exists
  <2>9. AllTimed'
    <3> SUFFICES ASSUME ~shared, NEW d \in Requests, adm'[d].at = "pending"
                 PROVE  arq'[d] > 0
      BY <1>1 DEF AllTimed, Timed
    <3>1. d # e /\ adm[d].at = "pending" BY <2>1, <2>2
    <3>2. arq[d] > 0 BY <1>1, <3>1 DEF IInv, AllTimed, Timed
    <3> QED BY <2>3, <3>1, <3>2
  <2>10. Points'
    <3> SUFFICES ASSUME ~shared, ~rejected
                 PROVE  /\ arq'[NoInfo] = 0
                        /\ \A d \in Requests : /\ arq'[d] <= 1
                                               /\ arq'[d] > 0 => (d \in Pending)'
      BY <1>1 DEF Points
    <3>1. /\ arq[NoInfo] = 0
          /\ \A d \in Requests : arq[d] <= 1 /\ (arq[d] > 0 => d \in Pending)
      BY DEF IInv, Points
    <3>2. arq'[e] = 0
      <4>1. arq[e] \in Nat /\ arq[e] <= 1 BY <1>2, <3>1
      <4> QED BY <2>3, <4>1
    <3> QED BY <2>3, <2>7, <3>1, <3>2, RequestFacts
  <2>11. StaleUnread' BY <1>1 DEF StaleUnread
  <2>12. Waiting(gk') BY <1>1, <2>1 DEF IInv
  <2> QED BY <2>4, <2>5, <2>6, <2>8, <2>9, <2>10, <2>11, <2>12 DEF IInv
<1> QED BY <1>3, <1>4

\* A call is refused: its entry is freed.
LEMMA RefuseStep ==
  ASSUME IInv, NEW e \in Requests, HandleAdmissionReject(e)
  PROVE  IInv'
<1> DEFINE f == Freed(adm[e])
           i == [adm EXCEPT ![e] = f]
           k == [call EXCEPT ![e[1]] = IF @ = "live" THEN "clear" ELSE @]
<1>1. /\ pc = "ras" /\ pc' = "calls" /\ gk.state # "none" /\ adm[e].at = "pending"
      /\ UNCHANGED <<ref, shared>> /\ rejected' = TRUE /\ call' = k
  BY DEF HandleAdmissionReject, AfterReceive
<1>2. /\ gk \in Clients /\ arq \in [Requests \cup {NoInfo} -> Nat]
      /\ adm \in [Requests -> Infos] /\ e[1] \in Calls
      /\ call \in [Calls -> {"none", "live", "clear", "gone"}]
  BY RequestFacts DEF IInv, TypeOK
<1>3. /\ k \in [Calls -> {"none", "live", "clear", "gone"}]
      /\ \A c \in Calls : /\ k[c] \in {"live", "clear"} <=> call[c] \in {"live", "clear"}
                          /\ k[c] = "none" <=> call[c] = "none"
  BY <1>2
<1> HIDE DEF k
<1>4. \A c \in Calls : (Exists(c)' <=> Exists(c)) /\ (call'[c] = "none" <=> call[c] = "none")
  BY <1>1, <1>3 DEF Exists
<1>5. CASE gk.state \in {"Failed", "GkErr"}
  <2>1. gk' = NoClient /\ arq' = [d \in Requests \cup {NoInfo} |-> 0] /\ adm' = AllFreed
    BY <1>5 DEF HandleAdmissionReject, AfterReceive
  <2>2. call' \in [Calls -> {"none", "live", "clear", "gone"}] /\ rejected' \in BOOLEAN
    BY <1>1, <1>3
  <2> QED BY <1>1, <1>4, <2>1, <2>2, DestroyedStep
<1>6. CASE gk.state \notin {"Failed", "GkErr"}
  <2>1. gk' = gk /\ arq' = arq /\ adm' = i
    BY <1>6 DEF HandleAdmissionReject, AfterReceive
  <2>2. f \in Infos /\ f.at = "freed" /\ f.setups = 0 BY <1>2, FreedFacts
  <2> HIDE DEF f
  <2>3. /\ i \in [Requests -> Infos] /\ i[e].at = "freed" /\ i[e].setups = 0
        /\ \A d \in Requests : d # e => i[d] = adm[d]
    BY <1>2, <2>2
  <2> HIDE DEF i
  <2>4. TypeOK' BY <1>1, <1>2, <1>3, <2>1, <2>3 DEF IInv, TypeOK, Phases
  <2>5. NothingLeft' BY <1>1, <2>1 DEF NothingLeft
  <2>6. \A d \in Requests : Admission(d)'
    <3> SUFFICES ASSUME NEW d \in Requests PROVE Admission(d)' OBVIOUS
    <3>1. Admission(d) /\ d[1] \in Calls BY RequestFacts DEF IInv
    <3> QED BY <1>1, <1>4, <2>1, <2>3, <3>1 DEF Admission
  <2>7. \A d \in Requests : /\ adm'[d].at # "none" <=> adm[d].at # "none"
                            /\ Listed(d)' => Listed(d)
    BY <1>1, <2>1, <2>3 DEF Listed, Pending, Admitted
  <2>8. Own' BY <1>1, <1>4, <2>7, RequestFacts DEF IInv, Own
  <2>9. AllTimed'
    <3> SUFFICES ASSUME ~shared, NEW d \in Requests, adm'[d].at = "pending"
                 PROVE  arq'[d] > 0
      BY <1>1 DEF AllTimed, Timed
    <3>1. adm[d].at = "pending" BY <2>1, <2>3
    <3> QED BY <1>1, <2>1, <3>1 DEF IInv, AllTimed, Timed
  <2>10. Points' /\ StaleUnread' BY <1>1 DEF Points, StaleUnread
  <2>11. Waiting(gk') BY <1>1, <2>1 DEF IInv
  <2> QED BY <2>4, <2>5, <2>6, <2>8, <2>9, <2>10, <2>11 DEF IInv
<1> QED BY <1>5, <1>6

-----------------------------------------------------------------------------
\* Every step keeps the invariant.
LEMMA NextIInv ==
  ASSUME IInv, [Next]_vars
  PROVE  IInv'
<1>1. CASE UNCHANGED vars
  BY <1>1 DEF vars, calls, history, IInv, TypeOK, NothingLeft, Admission, Own, AllTimed,
              Timed, Points, StaleUnread, Listed, Pending, Admitted, Exists, Broken
<1>2. ASSUME NEW k \in Kinds, Expire(k) PROVE IInv' BY <1>2, ExpireStep
<1>3. ASSUME NEW c \in Calls, PlaceCall(c) \/ AcceptCall(c) \/ ReceiveSetup(c) PROVE IInv'
  BY <1>3, CallStep
<1>4. ASSUME NEW c \in Calls, ClearCall(c) PROVE IInv' BY <1>4, ClearStep
<1>5. ASSUME NEW c \in Calls, Disengage(c) PROVE IInv' BY <1>5, DisengageStep
<1>6. ASSUME NEW c \in Calls, CleanCall(c) PROVE IInv' BY <1>6, CleanStep
<1>7. ASSUME NEW e \in Requests, ARQTimerExpired(e) PROVE IInv' BY <1>7, ARQStep
<1>8. ASSUME NEW e \in Requests, HandleAdmissionConfirm(e) PROVE IInv' BY <1>8, AdmitStep
<1>9. ASSUME NEW e \in Requests, HandleAdmissionReject(e) PROVE IInv' BY <1>9, RefuseStep
<1>10. CASE ReceiveDiscovery \/ ReceiveRegistration BY <1>10, RegistrationStep
<1>11. CASE StaleTimerExpired \/ StaleAnswered \/ \E c \in Calls : SearchStale(c)
  BY <1>11, StaleStep
<1>12. CASE EndPhase BY <1>12, StopStep, PhaseStep DEF EndPhase
<1> QED BY <1>1, <1>2, <1>3, <1>4, <1>5, <1>6, <1>7, <1>8, <1>9, <1>10, <1>11, <1>12
        DEF Next

\* The invariant holds in every behaviour.
THEOREM IInvHolds == Spec => []IInv
BY InitIInv, NextIInv, PTL DEF Spec

\* The variables keep their types, a timer count never falls below zero.
THEOREM TypeCorrect == Spec => []TypeOK
<1>1. IInv => TypeOK BY DEF IInv
<1> QED BY <1>1, IInvHolds, PTL

\* The client never waits without a timer, whatever the limits of retries.
THEOREM KeepsTryingHolds == Spec => []KeepsTrying
<1>1. IInv => KeepsTrying BY DEF IInv, KeepsTrying, Waiting, Waits
<1> QED BY <1>1, IInvHolds, PTL

\* A pending request of a working client has its timer, while calls have references
\* of their own.
THEOREM PendingTimedHolds == Spec => []PendingTimed
<1>1. IInv => PendingTimed BY DEF IInv, AllTimed, Timed, PendingTimed, Broken
<1> QED BY <1>1, IInvHolds, PTL

\* However often a request is repeated and confirmed, its call is set up once.
THEOREM SetupOnceHolds == Spec => []SetupOnce
<1>1. IInv => SetupOnce BY DEF IInv, Admission, SetupOnce
<1> QED BY <1>1, IInvHolds, PTL

\* While calls have references of their own, the lists hold no call that is gone.
THEOREM ListsLiveHolds == Spec => []ListsLive
<1>1. IInv => ListsLive BY DEF IInv, Own, ListsLive
<1> QED BY <1>1, IInvHolds, PTL

\* A timer of an entry that is not pending follows a rejection or a shared reference.
THEOREM TimersPointHolds == Spec => []TimersPoint
<1>1. IInv => TimersPoint BY DEF IInv, Points, TimersPoint
<1> QED BY <1>1, IInvHolds, PTL

\* Freed memory is read only after a rejection, or with a shared reference.
THEOREM StaleUnreadHolds == Spec => []StaleUnread
<1>1. IInv => StaleUnread BY DEF IInv
<1> QED BY <1>1, IInvHolds, PTL
=============================================================================
