------------------------------ MODULE CallData ------------------------------
(* The call record of the ooh323c stack (OOH323CallData, ooCalls.h) and the   *)
(* stack functions that change it, as operators from a call to a call.        *)
(*                                                                            *)
(* A message is reduced to what its handling tells apart:                     *)
(*   "Setup" "Connect" "ReleaseComplete"  Q.931 messages with an effect when  *)
(*                                        they are sent                       *)
(*   "TCS" "MSD" "Chan" "EndSession"      H.245 messages that start a timer   *)
(*                                        when sent ("Chan" is one of         *)
(*                                        OpenLogicalChannel, Close... and    *)
(*                                        RequestChannelClose)                *)
(*   "Plain"                              any other message                   *)
(* An H.245 message in the Q.931 queue is a Facility that tunnels it.         *)
EXTENDS Naturals, Sequences

CONSTANTS
  MaxConnectRetry,   \* DEFAULT_MAX_CONNECT_RETRY
  MaxRetries         \* DEFAULT_MAX_RETRIES, of master-slave determination

ASSUME RetryAssumption == MaxConnectRetry \in Nat /\ MaxRetries \in Nat

Clearing == {"CLEAR", "CLEAR_RELEASERECVD", "CLEAR_RELEASESENT", "CLEARED"}
CallStates == {"CREATED", "PAUSED"} \cup Clearing

SessionStates == {"IDLE", "PAUSED", "ACTIVE", "ENDSENT", "ENDRECVD", "CLOSED"}

TimerKinds == {"CALLESTB", "MSD", "TCS", "CHAN", "SESSION", "H245CONNECT"}

H245Kinds == {"TCS", "MSD", "Chan", "EndSession", "Plain"}
Q931Kinds == {"Setup", "Connect", "ReleaseComplete"} \cup H245Kinds

Call == [ callType   : {"incoming", "outgoing"},
          callState  : CallStates,
          session    : SessionStates,
          tunneling  : BOOLEAN,                    \* OO_M_TUNNELING
          endBuilt   : BOOLEAN,                    \* OO_M_ENDSESSION_BUILT
          relBuilt   : BOOLEAN,                    \* OO_M_RELEASE_BUILT
          localTCS   : {"Idle", "SetSent", "AckRecvd"},
          remoteTCS  : {"Idle", "AckSent"},
          msd        : {"Idle", "DetermineSent", "AckSent", "Master", "Slave"},
          msdRetries : Nat,
          chans      : BOOLEAN,                    \* logicalChans # NULL
          h225       : {"none", "nosock", "open"}, \* pH225Channel and its sock
          q931Out    : Seq(Q931Kinds),
          h245       : {"none", "nosock", "open"}, \* pH245Channel and its sock
          h245Out    : Seq(H245Kinds),
          newSock    : BOOLEAN,                    \* H.245 socket newer than select
          listener   : BOOLEAN,                    \* h245listener # NULL
          attempts   : Nat,                        \* h245ConnectionAttempts
          h245Port   : BOOLEAN,                    \* remoteH245Port # 0
          setup      : BOOLEAN,                    \* the application knows of the call
          fwd        : BOOLEAN,                    \* pCallFwdData->fwdedByRemote
          timers     : [TimerKinds -> Nat],        \* armed timers of each kind
          gone       : {"no", "cleared", "forwarded"},
          \* what no code keeps: history for the properties
          hung       : BOOLEAN,                    \* a HANGCALL found the call alive
          retunneled : BOOLEAN,                    \* tunneling came on after H.245 started
          rcSent     : Nat,                        \* ReleaseCompletes put on the wire
          rcRecvd    : BOOLEAN,
          endSent    : BOOLEAN,                    \* EndSession put on the wire
          leak       : BOOLEAN,                    \* a socket was dropped unclosed
          crashed    : BOOLEAN ]                   \* NULL pH225Channel dereferenced

NewCall(type, tunneling) ==
  [ callType |-> type, callState |-> "CREATED", session |-> "IDLE",
    tunneling |-> tunneling, endBuilt |-> FALSE, relBuilt |-> FALSE,
    localTCS |-> "Idle", remoteTCS |-> "Idle", msd |-> "Idle", msdRetries |-> 0,
    chans |-> FALSE, h225 |-> "open", q931Out |-> <<>>, h245 |-> "none",
    h245Out |-> <<>>, newSock |-> FALSE, listener |-> FALSE, attempts |-> 0,
    h245Port |-> FALSE, setup |-> FALSE, fwd |-> FALSE,
    timers |-> [k \in TimerKinds |-> 0], gone |-> "no", hung |-> FALSE, retunneled |-> FALSE,
    rcSent |-> 0, rcRecvd |-> FALSE, endSent |-> FALSE, leak |-> FALSE,
    crashed |-> FALSE ]

-----------------------------------------------------------------------------
(* State, timers, queues                                                      *)

\* if(call->callState < OO_CALL_CLEAR) call->callState = OO_CALL_CLEAR
MarkClear(c) ==
  IF c.callState \in Clearing THEN c ELSE [c EXCEPT !.callState = "CLEAR"]

ArmTimer(c, k) == [c EXCEPT !.timers[k] = @ + 1]

\* Mutant of DeleteTimer: the timer is taken to be in the list.
DeleteTimerBlindly(c, k) == [c EXCEPT !.timers[k] = @ - 1]

\* Deletes the first timer of the kind, when there is one.
DeleteTimer(c, k) ==
  [c EXCEPT !.timers[k] = IF c.timers[k] = 0 THEN 0 ELSE c.timers[k] - 1]

\* A ReleaseComplete or a tunneled EndSession empties the queue first.
SendH225Msg(c, m) ==
  IF c.h225 = "none" THEN [c EXCEPT !.crashed = TRUE]
  ELSE IF m \in {"ReleaseComplete", "EndSession"} THEN [c EXCEPT !.q931Out = <<m>>]
  ELSE [c EXCEPT !.q931Out = Append(@, m)]

CloseH245Connection(c) ==
  [c EXCEPT !.h245 = "none", !.h245Out = <<>>, !.session = "CLOSED"]

CloseH225Connection(c) == [c EXCEPT !.h225 = "none", !.q931Out = <<>>]

\* pH245Channel is allocated on first use, without a socket.
WithH245Channel(c) == [c EXCEPT !.h245 = IF @ = "none" THEN "nosock" ELSE @]

-----------------------------------------------------------------------------
(* Sending                                                                    *)

OnSentReleaseComplete(c) ==
  LET sent == [c EXCEPT !.rcSent = @ + 1,
                 !.callState = IF @ = "CLEAR_RELEASERECVD" THEN "CLEARED"
                               ELSE "CLEAR_RELEASESENT"]
      timed == IF sent.callState = "CLEAR_RELEASESENT" /\ c.session = "IDLE"
               THEN ArmTimer(sent, "SESSION") ELSE sent
  IN IF c.session = "CLOSED" THEN [timed EXCEPT !.callState = "CLEARED"] ELSE timed

OnSentTCS(c) ==
  LET active == IF c.tunneling /\ c.session \in {"IDLE", "PAUSED"}
                THEN [c EXCEPT !.session = "ACTIVE"] ELSE c
  IN ArmTimer(active, "TCS")

\* Mutant of OnSentEndSession: no session timer.
OnSentEndSessionUntimed(c) ==
  LET sent == [c EXCEPT !.endSent = TRUE]
  IN IF c.session = "ACTIVE" THEN [sent EXCEPT !.session = "ENDSENT"]
     ELSE CloseH245Connection(sent)

OnSentEndSession(c) ==
  LET sent == [c EXCEPT !.endSent = TRUE]
  IN IF c.session = "ACTIVE"
     THEN ArmTimer([sent EXCEPT !.session = "ENDSENT"], "SESSION")
     ELSE CloseH245Connection(sent)

OnSendMsg(c, m) ==
  CASE m = "Setup"           -> ArmTimer(c, "CALLESTB")
    [] m = "ReleaseComplete" -> OnSentReleaseComplete(c)
    [] m = "MSD"             -> ArmTimer(c, "MSD")
    [] m = "TCS"             -> OnSentTCS(c)
    [] m = "Chan"            -> ArmTimer(c, "CHAN")
    [] m = "EndSession"      -> OnSentEndSession(c)
    [] OTHER                 -> c

\* Of a CLEARED call only a ReleaseComplete at the head of the queue leaves.
MaySend(c) ==
  \/ c.callState # "CLEARED"
  \/ c.q931Out # <<>> /\ Head(c.q931Out) = "ReleaseComplete"

\* Mutant of SendMsgQ931: what was sent stays in the queue.
SendMsgQ931Repeats(c, ok) ==
  IF ~MaySend(c) \/ c.q931Out = <<>> THEN c
  ELSE IF ok THEN OnSendMsg(c, Head(c.q931Out)) ELSE MarkClear(c)

\* ooSendMsg(call, OOQ931MSG); ok is the outcome of the socket send.
SendMsgQ931(c, ok) ==
  IF ~MaySend(c) \/ c.q931Out = <<>> THEN c
  ELSE LET rest == [c EXCEPT !.q931Out = Tail(@)]
       IN IF ok THEN OnSendMsg(rest, Head(c.q931Out)) ELSE MarkClear(rest)

\* ooSendMsg(call, OOH245MSG): over the H.245 socket, else tunneled, else lost.
SendMsgH245(c, ok) ==
  IF ~MaySend(c) \/ c.h245Out = <<>> THEN c
  ELSE LET m == Head(c.h245Out)
           rest == [c EXCEPT !.h245Out = Tail(@)]
       IN IF c.h245 = "open"
          THEN IF ok THEN OnSendMsg(rest, m) ELSE MarkClear(rest)
          ELSE IF c.tunneling THEN SendH225Msg(rest, m) ELSE rest

\* ooSendH245Msg of anything but an EndSession: it waits in a queue.
QueueH245(c, m) ==
  LET d == WithH245Channel(c)
  IN IF c.tunneling THEN SendH225Msg(d, m) ELSE [d EXCEPT !.h245Out = Append(@, m)]

\* ooSendH245Msg of an EndSession: flushed to the socket when not tunneling.
SendEndSession(c, ok) ==
  IF c.tunneling THEN QueueH245(c, "EndSession")
  ELSE SendMsgH245([WithH245Channel(c) EXCEPT !.h245Out = <<"EndSession">>], ok)

SendTermCapMsg(c) ==
  IF c.localTCS = "SetSent" THEN c
  ELSE [QueueH245(c, "TCS") EXCEPT !.localTCS = "SetSent"]

\* Its switch, SendMSD, is left at its default: what turns it off is not built.
SendMasterSlaveDetermination(c) ==
  IF c.msd # "Idle" THEN c
  ELSE [QueueH245(c, "MSD") EXCEPT !.msd = "DetermineSent"]

-----------------------------------------------------------------------------
(* H.245 connections                                                          *)

\* The new socket takes the place of the channel's old one, open or not.
H245Connected(c) ==
  SendMasterSlaveDetermination(SendTermCapMsg(
    [c EXCEPT !.h245 = "open", !.session = "ACTIVE", !.newSock = TRUE,
              !.leak = @ \/ c.h245 = "open"]))

\* A socket that cannot connect is neither kept nor closed.
H245ConnectFailed(c) ==
  LET d == [WithH245Channel(c) EXCEPT !.leak = TRUE]
  IN IF c.attempts >= MaxConnectRetry THEN MarkClear(d)
     ELSE ArmTimer(d, "H245CONNECT")

CreateH245Connection(c, connected) ==
  IF connected THEN H245Connected(c) ELSE H245ConnectFailed(c)

AcceptH245Connection(c) == H245Connected(c)

-----------------------------------------------------------------------------
(* Received H.245 messages.  An operator that ends in "Outcomes" is the set   *)
(* of calls the handler may leave: it depends on channel and capability data  *)
(* that the call record abstracts.                                            *)

OpenLogicalChannelsOutcomes(c) ==
  IF c.chans THEN {c} ELSE {[QueueH245(c, "Chan") EXCEPT !.chans = TRUE], MarkClear(c)}

BothTCSDone(c) == c.localTCS = "AckRecvd" /\ c.remoteTCS = "AckSent"

MasterOpensOutcomes(c) ==
  IF BothTCSDone(c) /\ c.msd = "Master" THEN OpenLogicalChannelsOutcomes(c) ELSE {c}

\* A sequence number that was seen before: rejected, but answered with our set.
OnRejectedTCS(c) ==
  LET d == [c EXCEPT !.session = IF @ = "IDLE" THEN "ACTIVE" ELSE @]
      r == [QueueH245(d, "Plain") EXCEPT !.remoteTCS = "Idle"]
  IN IF r.localTCS = "Idle" THEN SendTermCapMsg(r) ELSE r

\* A new set: an empty one pauses the session.
OnTCSOutcomes(c, empty) ==
  LET d == [c EXCEPT !.session = IF empty THEN "PAUSED"
                                 ELSE IF @ = "IDLE" THEN "ACTIVE" ELSE @]
      a == [QueueH245(d, "Plain") EXCEPT !.remoteTCS = "AckSent"]
      s == IF a.localTCS = "Idle" THEN SendTermCapMsg(a) ELSE a
  IN IF s.localTCS = "AckRecvd" /\ s.msd = "Idle"
     THEN {SendMasterSlaveDetermination(s)}
     ELSE MasterOpensOutcomes(s)

OnTCSAckOutcomes(c) ==
  MasterOpensOutcomes([DeleteTimer(c, "TCS") EXCEPT !.localTCS = "AckRecvd"])

OnTCSReject(c) == MarkClear(DeleteTimer(c, "TCS"))

\* Our verdict on the peer's MasterSlaveDetermination: a reject changes no state.
OnMSDOutcomes(c) ==
  {QueueH245(c, "Plain"), [QueueH245(c, "Plain") EXCEPT !.msd = "AckSent"]}

OnMSDAckOutcomes(c, role) ==
  LET d == DeleteTimer(c, "MSD")
  IN CASE c.msd = "AckSent" /\ role = "Slave" -> {[d EXCEPT !.msd = "Slave"]}
       [] c.msd = "AckSent" /\ role = "Master" ->
            MasterOpensOutcomes([d EXCEPT !.msd = "Master"])
       [] c.msd = "DetermineSent" -> {[QueueH245(d, "Plain") EXCEPT !.msd = role]}
       [] OTHER -> MasterOpensOutcomes(d)

OnMSDReject(c) ==
  LET d == DeleteTimer(c, "MSD")
  IN IF c.msdRetries < MaxRetries
     THEN SendMasterSlaveDetermination(
            [d EXCEPT !.msdRetries = @ + 1, !.msd = "Idle"])
     ELSE MarkClear(d)

\* Open, close and request-close of logical channels, with their answers.
OnChanOutcomes(c) ==
  LET answer == QueueH245(c, "Plain")
      answered == DeleteTimer(c, "CHAN")
  IN { c,                                                    \* unknown channel
       answer,                                               \* refused
       [answer EXCEPT !.chans = TRUE],                       \* opened by the peer
       [QueueH245(answer, "Chan") EXCEPT !.chans = TRUE],    \* and ours opened
       QueueH245(answer, "Chan"),                            \* closed on request
       [answer EXCEPT !.chans = FALSE],                      \* last one closed
       answered,
       [answered EXCEPT !.chans = TRUE],                     \* our open is acked
       [answered EXCEPT !.chans = FALSE],
       MarkClear(answered) }                                 \* our open is rejected

OnEndSession(c, ok) ==
  IF c.session = "ENDSENT" THEN CloseH245Connection(DeleteTimer(c, "SESSION"))
  ELSE SendEndSession([c EXCEPT !.session = "ENDRECVD", !.chans = FALSE], ok)

HandleH245Outcomes(c, m, ok) ==
  CASE m = "TCS"        -> OnTCSOutcomes(c, FALSE)
    [] m = "EmptyTCS"   -> OnTCSOutcomes(c, TRUE)
    [] m = "OldTCS"     -> {OnRejectedTCS(c)}
    [] m = "TCSAck"     -> OnTCSAckOutcomes(c)
    [] m = "TCSReject"  -> {c, OnTCSReject(c)}        \* ignored: of an older set
    [] m = "MSD"        -> OnMSDOutcomes(c)
    [] m = "MSDMaster"  -> OnMSDAckOutcomes(c, "Master")
    [] m = "MSDSlave"   -> OnMSDAckOutcomes(c, "Slave")
    [] m = "MSDReject"  -> {OnMSDReject(c)}
    [] m = "Chan"       -> OnChanOutcomes(c)
    [] m = "EndSession" -> {OnEndSession(c, ok)}
    [] OTHER            -> {c, QueueH245(c, "Plain"),
                            QueueH245(QueueH245(c, "Plain"), "Plain")}

\* What ooH245Receive does first, for any read, once the session is paused.
\* closing: some transmit channel was established, so a close is sent for it.
PauseReset(c, closing) ==
  LET d == IF c.chans /\ closing THEN QueueH245(c, "Chan") ELSE c
  IN [d EXCEPT !.msd = "Idle", !.callState = "PAUSED", !.localTCS = "Idle",
               !.remoteTCS = "Idle", !.session = "IDLE", !.chans = FALSE]

-----------------------------------------------------------------------------
(* Received Q.931 messages                                                    *)

\* ooCreateH225Connection and ooH323MakeCall_helper: the new socket takes the place
\* of the old one. A multihomed endpoint may not learn its address, a socket that
\* cannot connect is not kept.
PlaceCallOutcomes(c, connected) ==
  LET d == [c EXCEPT !.h225 = "open", !.leak = @ \/ c.h225 = "open"]
      f == [c EXCEPT !.h225 = IF @ = "none" THEN "nosock" ELSE @, !.leak = TRUE]
  IN IF connected THEN {SendH225Msg(d, "Setup"), MarkClear(d)} ELSE {MarkClear(f)}

\* The call has, or was told how to have, an H.245 connection of its own.
H245Separate(c) == c.h245 # "none" \/ c.listener \/ c.h245Port

\* A Setup is answered with CallProceeding, also when it could not be decoded, and
\* the call is admitted: an incoming one is alerted unless ringback is manual, an
\* outgoing one is placed, again.
OnSetupOutcomes(c, tunneling, connected) ==
  LET s == [c EXCEPT !.setup = TRUE, !.tunneling = tunneling,
                     !.retunneled = @ \/ (tunneling /\ ~c.tunneling /\ H245Separate(c))]
      proceeding == { SendH225Msg(d, "Plain") : d \in {s, MarkClear(s)} }
  IN IF c.callType = "incoming"
     THEN proceeding \cup { SendH225Msg(d, "Plain") : d \in proceeding }
     ELSE UNION { PlaceCallOutcomes(d, connected) : d \in proceeding }

\* Mutant of OnH245Address: tunneling stays on.
OnH245AddressTunneled(c) == [c EXCEPT !.h245Port = TRUE]

\* CallProceeding or Alerting that carries an H.245 address.
OnH245Address(c) == [c EXCEPT !.tunneling = FALSE, !.h245Port = TRUE]

\* CallProceeding or Alerting: with an address, without, or with one of another
\* type than IP; with the wrong body or a fast start that cannot be decoded.
OnProgressOutcomes(c) ==
  {c, MarkClear(c), OnH245Address(c), MarkClear([c EXCEPT !.tunneling = FALSE])}

\* A Connect that has none of the errors.
OnGoodConnectOutcomes(c, control, connected, m, ok) ==
  LET a == IF control = "address" THEN OnH245Address(c) ELSE c
      n == IF a.h245Port THEN CreateH245Connection(a, connected) ELSE a
      t == [n EXCEPT !.tunneling = @ /\ control = "tunnel"]
      hs == IF m = "none" THEN {t} ELSE HandleH245Outcomes(t, m, ok)
      Start(d) == LET s == IF d.localTCS = "Idle" THEN SendTermCapMsg(d) ELSE d
                  IN SendMasterSlaveDetermination(s)
  IN IF a.h245Port /\ ~connected /\ a.attempts >= MaxConnectRetry THEN {n}
     ELSE IF t.tunneling THEN {Start(d) : d \in hs} ELSE {t}

\* The wrong body, a fast start that cannot be decoded or taken, an address of
\* another type than IP: the handler returns, most often with the call marked.
OnConnectOutcomes(c, control, connected, m, ok) ==
  LET u == DeleteTimer(c, "CALLESTB")
  IN {u, MarkClear(u), MarkClear([u EXCEPT !.tunneling = FALSE])}
     \cup OnGoodConnectOutcomes(u, control, connected, m, ok)

\* Mutant of OnReleaseComplete: the H.245 session is left open.
OnReleaseCompleteOpen(c) ==
  [DeleteTimer(c, "SESSION") EXCEPT !.callState = "CLEARED", !.rcRecvd = TRUE]

OnReleaseComplete(c) ==
  LET d == DeleteTimer(c, "SESSION")
      e == IF c.session \in {"IDLE", "CLOSED"} THEN d ELSE CloseH245Connection(d)
  IN [e EXCEPT !.callState = "CLEARED", !.rcRecvd = TRUE]

OnFacilityStartH245(c, connected) ==
  CreateH245Connection([c EXCEPT !.tunneling = FALSE, !.h245Port = TRUE], connected)

\* Without an address, with one, with one of another type than IP.
OnFacilityForwardedOutcomes(c) ==
  LET f == [c EXCEPT !.fwd = TRUE] IN {MarkClear(c), MarkClear(f), f}

-----------------------------------------------------------------------------
(* Commands of the application                                                *)

\* Mutants of HangCall: the release goes out before the call is marked; only a
\* call with an H.245 session is marked.
HangCallReleases(c) ==
  SendH225Msg([c EXCEPT !.hung = TRUE, !.relBuilt = TRUE], "ReleaseComplete")

HangCallInSession(c) ==
  LET h == [c EXCEPT !.hung = TRUE]
  IN IF c.session = "ACTIVE" THEN MarkClear(h) ELSE h

HangCall(c) == MarkClear([c EXCEPT !.hung = TRUE])

\* ooSendConnect -> ooAcceptCall, without fast start.  No call state is tested.
AcceptCall(c) ==
  LET l == IF c.tunneling THEN c
           ELSE [c EXCEPT !.listener = TRUE, !.leak = @ \/ c.listener]
  IN SendMasterSlaveDetermination(SendTermCapMsg(SendH225Msg(l, "Connect")))

-----------------------------------------------------------------------------
(* Timer callbacks                                                            *)

\* Mutant of SessionTimerExpired: the session is not closed.
SessionTimerKeepsSession(c) ==
  IF c.callState = "CLEAR_RELEASESENT" THEN [c EXCEPT !.callState = "CLEARED"] ELSE c

SessionTimerExpired(c) ==
  LET d == IF c.session \in {"IDLE", "CLOSED", "PAUSED"} THEN c
           ELSE CloseH245Connection(c)
  IN IF d.callState = "CLEAR_RELEASESENT" THEN [d EXCEPT !.callState = "CLEARED"] ELSE d

ChanTimerOutcomes(c) ==
  { MarkClear(d) : d \in { c, QueueH245(c, "Chan"), QueueH245(c, "Plain") } }
  \cup { MarkClear([d EXCEPT !.chans = FALSE]) :
           d \in { c, QueueH245(c, "Chan"), QueueH245(c, "Plain") } }

\* The timer leaves the list, then its callback runs.
TimerOutcomes(c, k, connected) ==
  LET d == DeleteTimer(c, k)
  IN CASE k = "CALLESTB"    -> {MarkClear(d)}
       [] k \in {"MSD", "TCS"} -> {MarkClear(QueueH245(d, "Plain"))}
       [] k = "CHAN"        -> ChanTimerOutcomes(d)
       [] k = "SESSION"     -> {SessionTimerExpired(d)}
       [] k = "H245CONNECT" ->
            {CreateH245Connection([d EXCEPT !.attempts = @ + 1], connected)}

-----------------------------------------------------------------------------
(* Ending                                                                     *)

\* The memory of a call is freed: only what lies outside it remains.
Forget(c) ==
  [NewCall(c.callType, FALSE) EXCEPT
     !.callState = c.callState, !.session = c.session, !.h225 = c.h225,
     !.h245 = c.h245, !.listener = c.listener, !.timers = c.timers,
     !.hung = c.hung, !.retunneled = c.retunneled, !.rcSent = c.rcSent, !.rcRecvd = c.rcRecvd,
     !.endSent = c.endSent, !.leak = c.leak, !.crashed = c.crashed]

\* Mutant of CleanCall: the listener stays open.
CleanCallKeepsListener(c) ==
  LET h == CloseH245Connection(c)
      q == IF h.h225 = "open" THEN CloseH225Connection(h) ELSE h
  IN [Forget(q) EXCEPT !.timers = [k \in TimerKinds |-> 0],
                       !.gone = IF c.fwd THEN "forwarded" ELSE "cleared"]

CleanCall(c) ==
  LET h == IF c.session # "CLOSED" THEN CloseH245Connection(c)
           ELSE [c EXCEPT !.h245Out = <<>>]
      q == IF h.h225 = "open" THEN CloseH225Connection(h) ELSE h
  IN [Forget(q) EXCEPT !.listener = FALSE, !.timers = [k \in TimerKinds |-> 0],
                       !.gone = IF c.fwd THEN "forwarded" ELSE "cleared"]

\* Mutant of EndCall: a call without signalling connection is not cleared.
EndCallWaits(c, ok) ==
  IF c.callState = "CLEARED" THEN CleanCall(c)
  ELSE LET d == [c EXCEPT !.chans = FALSE]
           e == IF ~d.endBuilt /\ d.session \in {"ACTIVE", "ENDRECVD"}
                THEN [SendEndSession(d, ok) EXCEPT !.endBuilt = TRUE] ELSE d
       IN IF e.h225 = "open" /\ ~e.relBuilt /\ e.callState = "CLEAR"
          THEN [SendH225Msg(e, "ReleaseComplete") EXCEPT !.relBuilt = TRUE] ELSE e

EndCall(c, ok) ==
  IF c.callState = "CLEARED" THEN CleanCall(c)
  ELSE LET d == [c EXCEPT !.chans = FALSE]
           e == IF ~d.endBuilt /\ d.session \in {"ACTIVE", "ENDRECVD"}
                THEN [SendEndSession(d, ok) EXCEPT !.endBuilt = TRUE] ELSE d
       IN CASE e.h225 # "open" -> [e EXCEPT !.callState = "CLEARED"]
            [] e.h225 = "open" /\ ~e.relBuilt /\ e.callState \in {"CLEAR", "CLEAR_RELEASERECVD"} ->
                 [SendH225Msg(e, "ReleaseComplete") EXCEPT !.relBuilt = TRUE]
            [] OTHER -> e
=============================================================================
