----------------------------- MODULE GkClient -----------------------------
(* The gatekeeper client of the stack (ooGkClient.c): discovery,              *)
(* registration and the admission of calls over RAS, in the passes of the     *)
(* monitor thread (ooProcessFDSETsAndTimers).                                 *)
(*                                                                            *)
(* RAS runs over UDP: what the gatekeeper says may be lost, late or repeated, *)
(* so any answer may be received at any time and no datagram is kept. Only    *)
(* the answer to an admission request carries a number that is compared, and  *)
(* one that is out of date is ignored: it is as good as lost here.            *)
(*                                                                            *)
(* The client looks a call up by its call reference, which the peer chose     *)
(* for an incoming call. The order of its lists is left out: a search finds   *)
(* any of the entries that compare equal.                                     *)
EXTENDS Naturals, FiniteSets

CONSTANTS
  Calls,        \* structures of calls without OO_M_DISABLEGK at first
  Refs,         \* call references
  Specific,     \* RasUseSpecificGatekeeper (else RasDiscoverGatekeeper)
  MaxGRQs,      \* OO_MAX_GRQ_RETRIES
  MaxRRQs,      \* OO_MAX_RRQ_RETRIES
  MaxARQs,      \* OO_MAX_ARQ_RETRIES
  MaxTimers,    \* bound: timers of discovery, and of registration, at a time
  MaxRequests   \* bound: requests for admission

ASSUME SpecificAssumption == Specific \in BOOLEAN
ASSUME MaxRetriesAssumption == MaxGRQs \in Nat /\ MaxRRQs \in Nat /\ MaxARQs \in Nat
ASSUME MaxTimersAssumption == MaxTimers \in Nat
ASSUME MaxRequestsAssumption == MaxRequests \in Nat

VARIABLES
  gk,        \* gH323ep.gkClient, its timers but those of admissions
  arq,       \* how many ARQ timers point to a RasCallAdmissionInfo
  adm,       \* the RasCallAdmissionInfo of a request, and the list it is in
  call,      \* the calls: ended ("clear"), and out of the client's sight ("gone")
  ref,       \* their callReference
  pc,        \* phase of the pass
  rejected,  \* history: a request was rejected
  shared     \* history: a call had the reference of one with a request, or two

calls == <<call, ref>>
history == <<rejected, shared>>
vars == <<gk, arq, adm, calls, pc, history>>

\* The requests of a call, in order; each has an entry of its own.
Requests == Calls \X (1..MaxRequests)

NoInfo == <<>>

Kinds == {"GRQ", "RRQ", "REG"}

Clients == [state : {"none", "Idle", "Discovered", "Registered", "GkErr", "Failed"},
            discovered : BOOLEAN, grqRetries : Nat, rrqRetries : Nat, ttl : BOOLEAN,
            timers : [Kinds -> Nat]]

\* An entry that was not sent is in the pending list too, but has no answer. How
\* often ooH323CallAdmitted was called for it is history.
Infos == [at : {"none", "unsent", "pending", "admitted", "freed"}, retries : Nat,
          setups : Nat]

Phases == {"timers", "commands", "ras", "calls", "stopped", "crashed"}

NoClient == [state |-> "none", discovered |-> FALSE, grqRetries |-> 0, rrqRetries |-> 0,
             ttl |-> FALSE, timers |-> [k \in Kinds |-> 0]]

\* After ooGkClientStart. The reference of a call is 0 before its Setup.
Init ==
  /\ gk = [NoClient EXCEPT !.state = "Idle", !.timers["GRQ"] = 1]
  /\ arq = [e \in Requests \cup {NoInfo} |-> 0]
  /\ adm = [e \in Requests |-> [at |-> "none", retries |-> 0, setups |-> 0]]
  /\ call = [c \in Calls |-> "none"]
  /\ ref = [c \in Calls |-> 0]
  /\ pc = "timers"
  /\ rejected = FALSE
  /\ shared = FALSE

-----------------------------------------------------------------------------
(* Discovery and registration                                                 *)

Armed(g, k) == [g EXCEPT !.timers[k] = @ + 1]

\* Mutant of Deleted: a timer is deleted that need not be there.
DeletedBlindly(g, k) == [g EXCEPT !.timers[k] = @ - 1]

\* The handlers delete the first timer of a kind, if there is one.
Deleted(g, k) == [g EXCEPT !.timers[k] = IF @ > 0 THEN @ - 1 ELSE 0]

\* ooGkClientSendGRQ, ooGkClientSendRRQ: the timer is armed once the request is out.
Send(g, k, ok) == IF ok THEN Armed(g, k) ELSE [g EXCEPT !.state = "Failed"]

HandleGatekeeperReject(g) ==
  IF Specific THEN [Deleted(g, "GRQ") EXCEPT !.state = "GkErr"] ELSE g

HandleGatekeeperConfirm(g, ok) ==
  IF g.discovered THEN g
  ELSE Send([Deleted(g, "GRQ") EXCEPT !.discovered = TRUE, !.state = "Discovered"],
            "RRQ", ok)

\* Mutant of HandleRegistrationConfirm: the lifetime is noted, no timer armed.
HandleRegistrationConfirmOnce(g, ttl) ==
  [Deleted(g, "RRQ") EXCEPT !.state = "Registered", !.ttl = ttl]

\* The REG timer is armed before the RRQ timer is deleted.
HandleRegistrationConfirm(g, ttl) ==
  [Deleted(IF ttl THEN Armed(g, "REG") ELSE g, "RRQ")
     EXCEPT !.state = "Registered", !.ttl = ttl]

HandleRegistrationReject(g, reason, ok) ==
  LET d == Deleted(g, "RRQ") IN
  CASE reason = "discoveryRequired" ->
         Send([d EXCEPT !.discovered = FALSE, !.state = "Idle", !.rrqRetries = 0,
                        !.grqRetries = 0], "GRQ", ok)
    [] reason = "fullRegistrationRequired" ->
         Send([d EXCEPT !.state = "Discovered", !.rrqRetries = 0], "RRQ", ok)
    [] reason = "other" -> [d EXCEPT !.state = "GkErr"]

\* For all aliases; for some of them the registration stands.
HandleUnregistrationRequest(g, ok) ==
  Send([g EXCEPT !.rrqRetries = 0, !.state = "Discovered"], "RRQ", ok)

GRQTimerExpired(g, ok) ==
  LET d == Deleted(g, "GRQ") IN
  IF g.grqRetries < MaxGRQs
  THEN Send([d EXCEPT !.grqRetries = IF ok THEN @ + 1 ELSE @], "GRQ", ok)
  ELSE [d EXCEPT !.state = "GkErr"]

RRQTimerExpired(g, ok) ==
  LET d == Deleted(g, "RRQ") IN
  IF g.rrqRetries < MaxRRQs
  THEN Send([d EXCEPT !.rrqRetries = IF ok THEN @ + 1 ELSE @], "RRQ", ok)
  ELSE [d EXCEPT !.state = "GkErr"]

REGTimerExpired(g, ok) == Send(Deleted(g, "REG"), "RRQ", ok)

Broken == gk.state \in {"Failed", "GkErr"}

-----------------------------------------------------------------------------
(* Timers: the first phase of a pass                                          *)

Expire(k) ==
  /\ pc = "timers"
  /\ gk.timers[k] > 0
  /\ \E ok \in BOOLEAN :
       gk' = CASE k = "GRQ" -> GRQTimerExpired(gk, ok)
               [] k = "RRQ" -> RRQTimerExpired(gk, ok)
               [] k = "REG" -> REGTimerExpired(gk, ok)
  /\ UNCHANGED <<arq, adm, calls, pc, history>>

Pending == {e \in Requests : adm[e].at \in {"unsent", "pending"}}
Admitted == {e \in Requests : adm[e].at = "admitted"}
Listed(e) == e \in Pending \cup Admitted
Exists(c) == call[c] \in {"live", "clear"}

\* The entry or its call was freed: what is read of it may be anything.
Stale(e) == ~Listed(e) \/ ~Exists(e[1])

\* What a search of entries for a call reference may find.
Found(entries, r) ==
  LET like == {e \in entries : Stale(e) \/ ref[e[1]] = r} IN
  like \cup IF \E e \in like : ~Stale(e) THEN {} ELSE {NoInfo}

Crash ==
  /\ pc' = "crashed"
  /\ UNCHANGED <<gk, arq, adm, calls, history>>

\* What an ARQ timer takes for the entry it points to: that entry, or if it was
\* freed what is still there of it or another one in its place.
Readable(t) == IF Listed(t) THEN {t} ELSE {t} \cup Pending \cup Admitted

MoveTimer(t, e) == [[arq EXCEPT ![t] = @ - 1] EXCEPT ![e] = @ + 1]

\* ooGkClientSendAdmissionRequest for the call of entry e, when timer t expired:
\* the new timer points to the pending entry found by the call's reference, or
\* if there is none to the last one looked at.
Resend(t, e) ==
  LET again == [adm EXCEPT ![e].retries = @ + 1] IN
  \E r \in IF Stale(e) THEN Refs \cup {0} ELSE {ref[e[1]]} :
    \/ \E i \in Found(Pending, r) \ {NoInfo} :
         arq' = MoveTimer(t, i) /\ adm' = [again EXCEPT ![i].at = "pending"]
    \/ /\ NoInfo \in Found(Pending, r)
       /\ \E i \in IF Pending = {} THEN {NoInfo} ELSE Pending : arq' = MoveTimer(t, i)
       /\ adm' = again

ARQTimerExpired(t) ==
  /\ pc = "timers"
  /\ arq[t] > 0
  /\ \E e \in Readable(t) :
       \/ /\ adm[e].retries < MaxARQs
          /\ Resend(t, e)
          /\ UNCHANGED gk
       \/ /\ gk' = [gk EXCEPT !.state = IF adm[e].retries < MaxARQs THEN "Failed"
                                         ELSE "GkErr"]
          /\ arq' = [arq EXCEPT ![t] = @ - 1]
          /\ UNCHANGED adm
  /\ UNCHANGED <<calls, pc, history>>

\* An ARQ timer that points nowhere, or comes upon freed memory.
StaleTimerExpired ==
  /\ pc = "timers"
  /\ \/ arq[NoInfo] > 0
     \/ \E t \in Requests : arq[t] > 0 /\ \E e \in {t} \cup Pending : Stale(e)
  /\ Crash

Freed(info) == [info EXCEPT !.at = "freed", !.setups = 0]

\* ooGkClientDestroy frees the memory of the client.
AllFreed == [e \in Requests |-> IF adm[e].at = "none" THEN adm[e]
                                ELSE [Freed(adm[e]) EXCEPT !.retries = 0]]

\* ooGkClientHandleClientOrGkFailure ends the monitor: ooStopMonitorCalls cleans
\* every call.
StopMonitor ==
  /\ pc = "timers" /\ Broken
  /\ gk' = NoClient
  /\ arq' = [e \in Requests \cup {NoInfo} |-> 0]
  /\ adm' = AllFreed
  /\ call' = [c \in Calls |-> IF call[c] = "none" THEN "none" ELSE "gone"]
  /\ pc' = "stopped"
  /\ UNCHANGED <<ref, history>>

EndTimers ==
  /\ pc = "timers" /\ ~Broken
  /\ pc' = "commands"
  /\ UNCHANGED <<gk, arq, adm, calls, history>>

-----------------------------------------------------------------------------
(* Commands and calls                                                         *)

Made(c) == {e \in Requests : e[1] = c /\ adm[e].at # "none"}

\* The entry of the call's next request, within the bound.
NextRequests(c) ==
  {e \in Requests : /\ e[1] = c /\ adm[e].at = "none"
                    /\ \A n \in 1..e[2] - 1 : adm[<<c, n>>].at # "none"
                    /\ Cardinality({i \in Requests : adm[i].at # "none"}) < MaxRequests}

\* Mutant of SendAdmissionRequest: no timer for a request that did go out.
SendAdmissionRequestUntimed(e) ==
  \/ /\ adm' = [adm EXCEPT ![e].at = "pending"]
     /\ UNCHANGED arq
     /\ UNCHANGED gk
  \/ /\ gk' = [gk EXCEPT !.state = "Failed"]
     /\ adm' \in {adm, [adm EXCEPT ![e].at = "unsent"]}
     /\ UNCHANGED arq

\* ooGkClientSendAdmissionRequest: the entry is made when the request was built, and
\* before it is sent.
SendAdmissionRequest(e) ==
  \/ /\ adm' = [adm EXCEPT ![e].at = "pending"]
     /\ arq' = [arq EXCEPT ![e] = @ + 1]
     /\ UNCHANGED gk
  \/ /\ gk' = [gk EXCEPT !.state = "Failed"]
     /\ adm' \in {adm, [adm EXCEPT ![e].at = "unsent"]}
     /\ UNCHANGED arq

\* The call has reference r from now on, and asks for admission or does not.
Refer(c, r, asks) ==
  /\ ref' = [ref EXCEPT ![c] = r]
  /\ shared' = \/ shared
               \/ Made(c) # {}
               \/ \E d \in Calls \ {c} : Exists(d) /\ ref[d] = r /\ (asks \/ Made(d) # {})

\* ooH323MakeCall among the commands, or ooH323HandleCallFwdRequest in ooCleanCall.
PlaceCall(c) ==
  /\ \/ pc = "commands" /\ gk.state = "Registered"
     \/ pc = "calls" /\ gk.state # "none" /\ \E d \in Calls : call[d] = "gone"
  /\ call[c] = "none"
  /\ call' = [call EXCEPT ![c] = "live"]
  /\ \E r \in Refs : Refer(c, r, TRUE)
  /\ \E e \in NextRequests(c) : SendAdmissionRequest(e)
  /\ UNCHANGED <<pc, rejected>>

\* ooAcceptH225Connection
AcceptCall(c) ==
  /\ pc = "calls"
  /\ call[c] = "none"
  /\ call' = [call EXCEPT ![c] = "live"]
  /\ Refer(c, 0, FALSE)
  /\ UNCHANGED <<gk, arq, adm, pc, rejected>>

\* A Setup is received, at any time: the call takes the peer's reference and asks
\* for admission, unless the application says that it needs none or the client is
\* not registered. (Without a client the reference is of no use.)
ReceiveSetup(c) ==
  /\ pc = "calls" /\ gk.state # "none"
  /\ Exists(c)
  /\ \/ /\ gk.state = "Registered"
        /\ \E r \in Refs : Refer(c, r, TRUE)
        /\ \E e \in NextRequests(c) : SendAdmissionRequest(e)
        /\ call' = [call EXCEPT ![c] = "live"]
     \/ /\ \E r \in Refs : Refer(c, r, FALSE)
        /\ \/ call' = [call EXCEPT ![c] = "gone"]
           \/ gk.state # "Registered" /\ UNCHANGED call
        /\ UNCHANGED <<gk, arq, adm>>
  /\ UNCHANGED <<pc, rejected>>

\* A command hangs up (none is read before registration), or the peer ends the call.
ClearCall(c) ==
  /\ \/ pc = "commands" /\ gk.state \in {"none", "Registered"}
     \/ pc = "calls"
  /\ call[c] = "live"
  /\ call' = [call EXCEPT ![c] = "clear"]
  /\ UNCHANGED <<gk, arq, adm, ref, pc, history>>

EndCommands ==
  /\ pc = "commands"
  /\ pc' = "ras"
  /\ UNCHANGED <<gk, arq, adm, calls, history>>

\* The entry that was found, if any, is freed.
Free(e) == adm' = IF e = NoInfo THEN adm ELSE [adm EXCEPT ![e] = Freed(@)]

\* ooGkClientSendDisengageRequest when a ReleaseComplete was sent or received: the
\* admitted entry is freed, also when the request could not be sent.
Disengage(c) ==
  /\ pc = "calls"
  /\ gk.state = "Registered"
  /\ call[c] = "clear"
  /\ \E e \in Found(Admitted, ref[c]) : Free(e)
  /\ gk' \in {gk, [gk EXCEPT !.state = "Failed"]}
  /\ UNCHANGED <<arq, calls, pc, history>>

\* Mutant of CleanInfo: only admitted calls are looked for.
CleanInfoAdmitted(r) == \E e \in Found(Admitted, r) : Free(e) /\ UNCHANGED arq

\* ooGkClientCleanCall: it looks for the ARQ timer and the pending entry only if no
\* admitted one is found.
CleanInfo(r) ==
  \/ \E e \in Found(Admitted, r) \ {NoInfo} : Free(e) /\ UNCHANGED arq
  \/ /\ NoInfo \in Found(Admitted, r)
     /\ \E t \in Found({e \in Requests : arq[e] > 0}, r) :
          arq' = IF t = NoInfo THEN arq ELSE [arq EXCEPT ![t] = @ - 1]
     /\ \E e \in Found(Pending, r) : Free(e)

\* ooCleanCall, and ooGkClientCleanCall if there is a client.
CleanCall(c) ==
  /\ pc = "calls"
  /\ call[c] = "clear"
  /\ IF gk.state = "none" THEN UNCHANGED <<adm, arq>> ELSE CleanInfo(ref[c])
  /\ call' = [call EXCEPT ![c] = "gone"]
  /\ ref' = [ref EXCEPT ![c] = 0]
  /\ UNCHANGED <<gk, pc, history>>

\* A search comes upon a timer that points nowhere, or freed memory.
SearchStale(c) ==
  /\ pc = "calls" /\ gk.state # "none"
  /\ call[c] = "clear"
  /\ \/ \E e \in Admitted : Stale(e)
     \/ /\ NoInfo \in Found(Admitted, ref[c])
        /\ \/ arq[NoInfo] > 0
           \/ \E e \in Requests : Stale(e) /\ (arq[e] > 0 \/ e \in Pending)
  /\ Crash

EndCalls ==
  /\ pc = "calls"
  /\ pc' = "timers"
  /\ UNCHANGED <<gk, arq, adm, calls, history>>

-----------------------------------------------------------------------------
(* RAS messages: at most one a pass. After it a broken client is destroyed,   *)
(* and the pass goes on.                                                      *)

\* ooGkClientReceive with client g, ARQ timers a and entries i afterwards.
AfterReceive(g, a, i) ==
  /\ pc = "ras" /\ gk.state # "none"
  /\ pc' = "calls"
  /\ IF g.state \in {"Failed", "GkErr"}
     THEN gk' = NoClient /\ arq' = [e \in Requests \cup {NoInfo} |-> 0] /\ adm' = AllFreed
     ELSE gk' = g /\ arq' = a /\ adm' = i

NothingReceived ==
  /\ pc = "ras"
  /\ pc' = "calls"
  /\ UNCHANGED <<gk, arq, adm, calls, history>>

Registration == gk.timers["RRQ"] + gk.timers["REG"]

ReceiveDiscovery ==
  /\ \E ok \in BOOLEAN :
       \/ AfterReceive(HandleGatekeeperReject(gk), arq, adm)
       \/ Registration < MaxTimers /\ AfterReceive(HandleGatekeeperConfirm(gk, ok), arq, adm)
  /\ UNCHANGED <<calls, history>>

ReceiveRegistration ==
  /\ \E ok, ttl \in BOOLEAN :
       \/ /\ gk.timers["RRQ"] > 0 \/ Registration < MaxTimers
          /\ \/ AfterReceive(HandleRegistrationConfirm(gk, ttl), arq, adm)
             \/ AfterReceive(HandleRegistrationReject(gk, "fullRegistrationRequired", ok),
                             arq, adm)
       \/ /\ gk.timers["GRQ"] < MaxTimers
          /\ AfterReceive(HandleRegistrationReject(gk, "discoveryRequired", ok), arq, adm)
       \/ AfterReceive(HandleRegistrationReject(gk, "other", ok), arq, adm)
       \/ /\ Registration < MaxTimers
          /\ AfterReceive(HandleUnregistrationRequest(gk, ok), arq, adm)
  /\ UNCHANGED <<calls, history>>

\* One timer less points to the entry.
Untimed(e) == [arq EXCEPT ![e] = IF @ > 0 THEN @ - 1 ELSE 0]

\* Mutant of HandleAdmissionConfirm: the entry stays in the pending list.
HandleAdmissionConfirmTwice(e) ==
  /\ adm[e].at = "pending"
  /\ AfterReceive(gk, Untimed(e), [adm EXCEPT ![e].setups = @ + 1])
  /\ UNCHANGED <<calls, history>>

\* Mutant of HandleAdmissionConfirm: the timer is forgotten.
HandleAdmissionConfirmTimed(e) ==
  /\ adm[e].at = "pending"
  /\ AfterReceive(gk, arq, [adm EXCEPT ![e].at = "admitted", ![e].setups = @ + 1])
  /\ UNCHANGED <<calls, history>>

\* One ARQ timer of the entry is deleted, the call goes on, also if it was cleared.
HandleAdmissionConfirm(e) ==
  /\ adm[e].at = "pending"
  /\ AfterReceive(gk, Untimed(e), [adm EXCEPT ![e].at = "admitted", ![e].setups = @ + 1])
  /\ UNCHANGED <<calls, history>>

\* The entry is freed, its ARQ timer goes on.
HandleAdmissionReject(e) ==
  /\ adm[e].at = "pending"
  /\ AfterReceive(gk, arq, [adm EXCEPT ![e] = Freed(@)])
  /\ call' = [call EXCEPT ![e[1]] = IF @ = "live" THEN "clear" ELSE @]
  /\ rejected' = TRUE
  /\ UNCHANGED <<ref, shared>>

\* The answer is to a request of a call that was freed.
StaleAnswered ==
  /\ pc = "ras" /\ gk.state # "none"
  /\ \E e \in Requests : adm[e].at = "pending" /\ Stale(e)
  /\ Crash

-----------------------------------------------------------------------------
EndPhase == StopMonitor \/ EndTimers \/ EndCommands \/ NothingReceived \/ EndCalls

Next ==
  \/ \E k \in Kinds : Expire(k)
  \/ \E c \in Calls : \/ PlaceCall(c) \/ AcceptCall(c) \/ ReceiveSetup(c) \/ ClearCall(c)
                      \/ Disengage(c) \/ CleanCall(c) \/ SearchStale(c)
  \/ \E e \in Requests : \/ ARQTimerExpired(e)
                         \/ HandleAdmissionConfirm(e) \/ HandleAdmissionReject(e)
  \/ ReceiveDiscovery
  \/ ReceiveRegistration
  \/ StaleTimerExpired \/ StaleAnswered
  \/ EndPhase

Spec == Init /\ [][Next]_vars

-----------------------------------------------------------------------------
(* Properties                                                                 *)

TypeOK ==
  /\ gk \in Clients
  /\ arq \in [Requests \cup {NoInfo} -> Nat]
  /\ adm \in [Requests -> Infos]
  /\ call \in [Calls -> {"none", "live", "clear", "gone"}]
  /\ ref \in [Calls -> Refs \cup {0}]
  /\ pc \in Phases
  /\ rejected \in BOOLEAN
  /\ shared \in BOOLEAN

\* The client never waits without a timer: for a gatekeeper, for its registration,
\* or for the end of a registration with a lifetime, whatever the order and number
\* of the answers (every handler deletes one timer and a send arms one).
KeepsTrying ==
  /\ gk.state = "Idle" => gk.timers["GRQ"] > 0
  /\ gk.state = "Discovered" => gk.timers["RRQ"] > 0
  /\ gk.state = "Registered" /\ gk.ttl => gk.timers["RRQ"] + gk.timers["REG"] > 0

\* While calls have references of their own, a request for admission that is
\* pending in a client that works will be repeated or given up: it has its timer,
\* unless it could not be sent and an answer about the registration then hid the
\* failure.
PendingTimed ==
  ~shared /\ gk.state \in {"Idle", "Discovered", "Registered"} =>
    \A e \in Requests : adm[e].at = "pending" => arq[e] > 0

\* ooH323CallAdmitted is called once for a request, however often that is repeated
\* and confirmed: it opens a connection and sends Setup.
SetupOnce == \A e \in Requests : adm[e].setups <= 1

\* While calls have references of their own, the lists of the client hold no call
\* that is gone: entries point to calls, and answers and timers follow the pointer
\* (ooGkClientCleanCall).
ListsLive ==
  ~shared /\ gk.state # "none" => \A e \in Requests : Listed(e) => Exists(e[1])

\* While calls have references of their own, no ARQ timer outlives the entry it
\* points to, but those of rejected calls, which HandleAdmissionReject leaves
\* running.
TimersPoint ==
  ~shared /\ ~rejected =>
    /\ arq[NoInfo] = 0
    /\ \A e \in Requests : arq[e] > 0 => e \in Pending

\* Freed memory is read only after a call was rejected or calls had one reference:
\* no search, expiry or answer comes upon it otherwise.
StaleUnread == pc = "crashed" => shared \/ rejected
=============================================================================
