---------------------------- MODULE SessionProofs ----------------------------
(* How the session timer watches the end of a call, and what a call leaves    *)
(* behind, for every value of the constants.                                  *)
EXTENDS H323CallProofs

\* What is read of the call record here.
Fields ==
  { "callState", "session", "timers", "h225", "h245", "h245Out", "listener", "gone",
    "rcSent", "rcRecvd" }
USE DEF Fields

\* A call in the list whose wait for an EndSession is watched by a session
\* timer, and whose H.245 session is not closed while it has a socket.
Timed(c) ==
  /\ Fields \subseteq DOMAIN c
  /\ c.gone = "no"
  /\ c.timers \in [TimerKinds -> Nat]
  /\ c.rcSent \in Nat
  /\ c.session = "ENDSENT" => c.timers["SESSION"] > 0
  /\ c.session = "CLOSED" => c.h245 # "open"
  /\ c.callState = "CLEAR_RELEASESENT" => c.rcSent > 0

\* It sent its ReleaseComplete, and has a session timer of its own for that, if
\* it has no listener.
Watched(c) ==
  /\ c.callState = "CLEAR_RELEASESENT"
  /\ \/ c.listener
     \/ c.session = "ENDSENT" /\ c.timers["SESSION"] > 1
     \/ c.session # "ENDSENT" /\ c.timers["SESSION"] > 0

\* What the handlers preserve: Timed, and each of these traits.
Sound(c, traits) ==
  /\ Timed(c)
  /\ "unpaused" \in traits => (c.session = "IDLE" => c.h245 # "open")
  /\ "listening" \in traits => c.listener
  /\ "unreleased" \in traits => ~c.rcRecvd
  /\ "ending" \in traits => c.callState = "CLEARED" \/ Watched(c)

-----------------------------------------------------------------------------
(* Every operator of CallData preserves it.                                   *)

\* A call that is ending is not marked again.
LEMMA MarkClearTimed ==
  ASSUME NEW c, NEW traits, Sound(c, traits) PROVE Sound(MarkClear(c), traits)
BY DEF Sound, Timed, Watched, MarkClear, Clearing

\* An armed timer adds to those there are.
LEMMA ArmTimerTimed ==
  ASSUME NEW c, NEW traits, NEW k \in TimerKinds, Sound(c, traits)
  PROVE  Sound(ArmTimer(c, k), traits)
<1> DEFINE d == ArmTimer(c, k)
<1>1. /\ Fields \subseteq DOMAIN d
      /\ d.rcSent = c.rcSent /\ d.rcRecvd = c.rcRecvd
      /\ d.gone = c.gone /\ d.session = c.session /\ d.callState = c.callState
      /\ d.h245 = c.h245 /\ d.listener = c.listener
      /\ d.timers = [c.timers EXCEPT ![k] = @ + 1]
  BY DEF ArmTimer, Sound, Timed
<1>2. c.timers \in [TimerKinds -> Nat] BY DEF Sound, Timed
<1>3. "SESSION" \in TimerKinds BY DEF TimerKinds
<1>4. d.timers \in [TimerKinds -> Nat] /\ d.timers["SESSION"] >= c.timers["SESSION"]
  BY <1>1, <1>2, <1>3
<1> HIDE DEF d
<1>5. c.timers["SESSION"] \in Nat /\ d.timers["SESSION"] \in Nat BY <1>2, <1>3, <1>4
<1>6. Sound(d, traits) BY <1>1, <1>4, <1>5 DEF Sound, Timed, Watched
<1> QED BY <1>6 DEF d

\* A deleted timer that is not the session's takes nothing from it.
LEMMA DeleteTimerTimed ==
  ASSUME NEW c, NEW traits, NEW k \in TimerKinds \ {"SESSION"}, Sound(c, traits)
  PROVE  Sound(DeleteTimer(c, k), traits)
<1> DEFINE d == DeleteTimer(c, k)
<1>1. /\ Fields \subseteq DOMAIN d
      /\ d.rcSent = c.rcSent /\ d.rcRecvd = c.rcRecvd
      /\ d.gone = c.gone /\ d.session = c.session /\ d.callState = c.callState
      /\ d.h245 = c.h245 /\ d.listener = c.listener
      /\ d.timers = [c.timers EXCEPT ![k] = IF c.timers[k] = 0 THEN 0 ELSE c.timers[k] - 1]
  BY DEF DeleteTimer, Sound, Timed
<1>2. c.timers \in [TimerKinds -> Nat] BY DEF Sound, Timed
<1>3. "SESSION" \in TimerKinds BY DEF TimerKinds
<1>4. d.timers \in [TimerKinds -> Nat] /\ d.timers["SESSION"] = c.timers["SESSION"]
  BY <1>1, <1>2, <1>3
<1> HIDE DEF d
<1>5. Sound(d, traits) BY <1>1, <1>4 DEF Sound, Timed, Watched
<1> QED BY <1>5 DEF d

\* A queued Q.931 message changes none of the fields.
LEMMA SendH225MsgTimed ==
  ASSUME NEW c, NEW m, NEW traits, Sound(c, traits) PROVE Sound(SendH225Msg(c, m), traits)
BY DEF Sound, Timed, Watched, SendH225Msg

\* Closing the session ends the wait.
LEMMA CloseH245ConnectionTimed ==
  ASSUME NEW c, NEW traits, Sound(c, traits) PROVE Sound(CloseH245Connection(c), traits)
BY DEF Sound, Timed, Watched, CloseH245Connection

\* An allocated channel has no socket.
LEMMA WithH245ChannelTimed ==
  ASSUME NEW c, NEW traits, Sound(c, traits) PROVE Sound(WithH245Channel(c), traits)
BY DEF Sound, Timed, Watched, WithH245Channel

\* A ReleaseComplete that is sent takes a cleared call back: then the session
\* must be idle or closed, or the call has a listener.
LEMMA OnSentReleaseCompleteTimed ==
  ASSUME NEW c, NEW traits, Sound(c, traits),
         "ending" \in traits /\ c.callState = "CLEARED" =>
           c.session \in {"IDLE", "CLOSED"} \/ c.listener
  PROVE  Sound(OnSentReleaseComplete(c), traits)
<1> DEFINE sent == [c EXCEPT !.rcSent = @ + 1,
                      !.callState = IF @ = "CLEAR_RELEASERECVD" THEN "CLEARED"
                                    ELSE "CLEAR_RELEASESENT"]
           timed == IF sent.callState = "CLEAR_RELEASESENT" /\ c.session = "IDLE"
                    THEN ArmTimer(sent, "SESSION") ELSE sent
           d == IF c.session = "CLOSED" THEN [timed EXCEPT !.callState = "CLEARED"]
                ELSE timed
<1>1. OnSentReleaseComplete(c) = d BY DEF OnSentReleaseComplete
<1>2. /\ Timed(sent) /\ sent.session = c.session /\ sent.timers = c.timers
      /\ sent.h245 = c.h245 /\ sent.rcSent = c.rcSent + 1 /\ sent.rcRecvd = c.rcRecvd
      /\ sent.listener = c.listener
      /\ sent.callState = IF c.callState = "CLEAR_RELEASERECVD" THEN "CLEARED"
                          ELSE "CLEAR_RELEASESENT"
  BY DEF Sound, Timed
<1>3. "SESSION" \in TimerKinds BY DEF TimerKinds
<1> HIDE DEF sent
<1>4. CASE c.session = "CLOSED"
  <2>1. timed = sent BY <1>4
  <2>2. d = [sent EXCEPT !.callState = "CLEARED"] BY <1>4, <2>1
  <2>3. Sound(d, traits) BY <1>2, <2>2 DEF Sound, Timed
  <2> QED BY <1>1, <2>3
<1>5. CASE /\ c.session # "CLOSED"
           /\ ~(sent.callState = "CLEAR_RELEASESENT" /\ c.session = "IDLE")
  <2>1. d = sent BY <1>5
  <2>2. Sound(sent, traits) BY <1>2, <1>5 DEF Sound, Watched
  <2> QED BY <1>1, <2>1, <2>2
<1>6. CASE sent.callState = "CLEAR_RELEASESENT" /\ c.session = "IDLE"
  <2>1. d = ArmTimer(sent, "SESSION") BY <1>6
  <2>2. Sound(sent, {}) BY <1>2 DEF Sound
  <2> DEFINE a == ArmTimer(sent, "SESSION")
  <2>3. Timed(a)
    <3>1. Sound(a, {}) BY <1>3, <2>2, ArmTimerTimed
    <3> QED BY <3>1 DEF Sound
  <2>4. /\ a.callState = sent.callState /\ a.session = sent.session
        /\ a.h245 = sent.h245 /\ a.rcSent = sent.rcSent /\ a.rcRecvd = sent.rcRecvd
        /\ a.listener = sent.listener
        /\ a.timers["SESSION"] = sent.timers["SESSION"] + 1
        /\ sent.timers["SESSION"] \in Nat
    BY <1>2, <1>3 DEF ArmTimer, Timed
  <2> HIDE DEF a
  <2>5. Sound(a, traits) BY <1>2, <1>6, <2>3, <2>4 DEF Sound, Watched
  <2> QED BY <1>1, <2>1, <2>5 DEF a
<1> QED BY <1>4, <1>5, <1>6

\* A tunneled capability set that is sent makes the session active.
LEMMA OnSentTCSTimed ==
  ASSUME NEW c, NEW traits, Sound(c, traits) PROVE Sound(OnSentTCS(c), traits)
<1> DEFINE a == [c EXCEPT !.session = "ACTIVE"]
<1>1. "TCS" \in TimerKinds BY DEF TimerKinds
<1>2. c.session \in {"IDLE", "PAUSED"} => Sound(a, traits) BY DEF Sound, Timed, Watched
<1> HIDE DEF a
<1>3. CASE c.tunneling /\ c.session \in {"IDLE", "PAUSED"}
  <2>1. OnSentTCS(c) = ArmTimer(a, "TCS") BY <1>3 DEF OnSentTCS, a
  <2> QED BY <1>1, <1>2, <1>3, <2>1, ArmTimerTimed
<1>4. CASE ~(c.tunneling /\ c.session \in {"IDLE", "PAUSED"})
  <2>1. OnSentTCS(c) = ArmTimer(c, "TCS") BY <1>4 DEF OnSentTCS
  <2> QED BY <1>1, <2>1, ArmTimerTimed
<1> QED BY <1>3, <1>4

\* The EndSession that starts the wait arms the timer that watches it.
LEMMA OnSentEndSessionTimed ==
  ASSUME NEW c, NEW traits, Sound(c, traits) PROVE Sound(OnSentEndSession(c), traits)
<1> DEFINE sent == [c EXCEPT !.endSent = TRUE]
           w == [sent EXCEPT !.session = "ENDSENT"]
           a == ArmTimer(w, "SESSION")
<1>1. Sound(sent, traits) /\ sent.session = c.session BY DEF Sound, Timed, Watched
<1>2. CASE c.session # "ACTIVE"
  <2>1. OnSentEndSession(c) = CloseH245Connection(sent) BY <1>2 DEF OnSentEndSession
  <2> HIDE DEF sent
  <2> QED BY <1>1, <2>1, CloseH245ConnectionTimed
<1>3. CASE c.session = "ACTIVE"
  <2>1. OnSentEndSession(c) = a BY <1>3 DEF OnSentEndSession
  <2>2. "SESSION" \in TimerKinds /\ c.timers \in [TimerKinds -> Nat]
    BY DEF TimerKinds, Sound, Timed
  <2>3. /\ a.session = "ENDSENT" /\ a.h245 = c.h245
        /\ a.rcSent = c.rcSent /\ a.rcRecvd = c.rcRecvd
 /\ a.gone = c.gone /\ a.callState = c.callState
        /\ a.listener = c.listener
        /\ a.timers = [c.timers EXCEPT !["SESSION"] = @ + 1]
        /\ Fields \subseteq DOMAIN a
    BY DEF ArmTimer, Sound, Timed
  <2> HIDE DEF a
  <2>4. a.timers \in [TimerKinds -> Nat] /\ a.timers["SESSION"] = c.timers["SESSION"] + 1
    BY <2>2, <2>3
  <2>5. c.timers["SESSION"] \in Nat BY <2>2
  <2>6. Sound(a, traits) BY <1>3, <2>3, <2>4, <2>5 DEF Sound, Timed, Watched
  <2> QED BY <2>1, <2>6
<1> QED BY <1>2, <1>3

\* What a sent message does.
LEMMA OnSendMsgTimed ==
  ASSUME NEW c, NEW m, NEW traits, Sound(c, traits),
         "ending" \in traits /\ c.callState = "CLEARED" /\ m = "ReleaseComplete" =>
           c.session \in {"IDLE", "CLOSED"} \/ c.listener
  PROVE  Sound(OnSendMsg(c, m), traits)
<1>1. {"CALLESTB", "MSD", "CHAN"} \subseteq TimerKinds BY DEF TimerKinds
<1>2. CASE m = "ReleaseComplete"
  <2>1. OnSendMsg(c, m) = OnSentReleaseComplete(c) BY <1>2 DEF OnSendMsg
  <2> QED BY <1>2, <2>1, OnSentReleaseCompleteTimed
<1>3. CASE m # "ReleaseComplete"
  <2>1. \/ OnSendMsg(c, m) = c
        \/ \E k \in {"CALLESTB", "MSD", "CHAN"} : OnSendMsg(c, m) = ArmTimer(c, k)
        \/ OnSendMsg(c, m) = OnSentTCS(c)
        \/ OnSendMsg(c, m) = OnSentEndSession(c)
    BY <1>3 DEF OnSendMsg
  <2> QED BY <1>1, <2>1, ArmTimerTimed, OnSentTCSTimed, OnSentEndSessionTimed
<1> QED BY <1>2, <1>3

\* The head of the Q.931 queue is sent, or the send fails.
LEMMA SendMsgQ931Timed ==
  ASSUME NEW c, NEW ok \in BOOLEAN, NEW traits, Sound(c, traits),
         "ending" \in traits /\ c.callState = "CLEARED" /\ ReleaseQueued(c) =>
           c.session \in {"IDLE", "CLOSED"} \/ c.listener
  PROVE  Sound(SendMsgQ931(c, ok), traits)
<1> DEFINE rest == [c EXCEPT !.q931Out = Tail(@)]
<1>1. CASE ~MaySend(c) \/ c.q931Out = <<>> BY <1>1 DEF SendMsgQ931
<1>2. CASE MaySend(c) /\ c.q931Out # <<>>
  <2>1. /\ Sound(rest, traits) /\ rest.session = c.session /\ rest.callState = c.callState
        /\ rest.listener = c.listener
    BY DEF Sound, Timed, Watched
  <2>2. SendMsgQ931(c, ok) = IF ok THEN OnSendMsg(rest, Head(c.q931Out)) ELSE MarkClear(rest)
    BY <1>2 DEF SendMsgQ931
  <2>3. Head(c.q931Out) = "ReleaseComplete" => ReleaseQueued(c)
    BY <1>2 DEF ReleaseQueued
  <2> HIDE DEF rest
  <2> QED BY <2>1, <2>2, <2>3, OnSendMsgTimed, MarkClearTimed
<1> QED BY <1>1, <1>2

\* The H.245 queue holds no ReleaseComplete.
LEMMA SendMsgH245Timed ==
  ASSUME NEW c, c.h245Out = <<>> \/ Head(c.h245Out) # "ReleaseComplete",
         NEW ok \in BOOLEAN, NEW traits, Sound(c, traits)
  PROVE  Sound(SendMsgH245(c, ok), traits)
<1> DEFINE rest == [c EXCEPT !.h245Out = Tail(@)]
<1>1. CASE ~MaySend(c) \/ c.h245Out = <<>> BY <1>1 DEF SendMsgH245
<1>2. CASE MaySend(c) /\ c.h245Out # <<>>
  <2>1. Sound(rest, traits) BY DEF Sound, Timed, Watched
  <2>2. SendMsgH245(c, ok) \in { OnSendMsg(rest, Head(c.h245Out)), MarkClear(rest),
                                 SendH225Msg(rest, Head(c.h245Out)), rest }
    BY <1>2 DEF SendMsgH245
  <2> HIDE DEF rest
  <2> QED BY <1>2, <2>1, <2>2, OnSendMsgTimed, MarkClearTimed, SendH225MsgTimed
<1> QED BY <1>1, <1>2

\* A queued H.245 message, tunneled or not.
LEMMA QueueH245Timed ==
  ASSUME NEW c, NEW m, NEW traits, Sound(c, traits) PROVE Sound(QueueH245(c, m), traits)
<1> DEFINE w == WithH245Channel(c)
<1>1. Sound(w, traits) BY WithH245ChannelTimed
<1>2. QueueH245(c, m) \in {SendH225Msg(w, m), [w EXCEPT !.h245Out = Append(@, m)]}
  BY DEF QueueH245
<1> HIDE DEF w
<1>3. Sound([w EXCEPT !.h245Out = Append(@, m)], traits) BY <1>1 DEF Sound, Timed, Watched
<1> QED BY <1>1, <1>2, <1>3, SendH225MsgTimed

\* Our EndSession, flushed or tunneled.
LEMMA SendEndSessionTimed ==
  ASSUME NEW c, NEW ok \in BOOLEAN, NEW traits,
         Sound(c, traits)
  PROVE  Sound(SendEndSession(c, ok), traits)
<1> DEFINE w == WithH245Channel(c)
           e == [w EXCEPT !.h245Out = <<"EndSession">>]
<1>1. Sound(w, traits) BY WithH245ChannelTimed
<1>2. "h245Out" \in DOMAIN w BY DEF WithH245Channel, Sound, Timed
<1>3. SendEndSession(c, ok) \in {QueueH245(c, "EndSession"), SendMsgH245(e, ok)}
  BY DEF SendEndSession
<1> HIDE DEF w
<1>4. Sound(e, traits) BY <1>1 DEF Sound, Timed, Watched
<1>5. e.h245Out = <<"EndSession">> BY <1>2
<1> HIDE DEF e
<1>6. Head(e.h245Out) # "ReleaseComplete" BY <1>5
<1> QED BY <1>3, <1>4, <1>6, QueueH245Timed, SendMsgH245Timed

\* Our capability set is queued once ...
LEMMA SendTermCapMsgTimed ==
  ASSUME NEW c, NEW traits, Sound(c, traits) PROVE Sound(SendTermCapMsg(c), traits)
<1> DEFINE q == QueueH245(c, "TCS")
<1>1. Sound(q, traits) BY QueueH245Timed
<1>2. SendTermCapMsg(c) \in {c, [q EXCEPT !.localTCS = "SetSent"]} BY DEF SendTermCapMsg
<1> HIDE DEF q
<1>3. Sound([q EXCEPT !.localTCS = "SetSent"], traits) BY <1>1 DEF Sound, Timed, Watched
<1> QED BY <1>2, <1>3

\* ... and so is our determination.
LEMMA SendMasterSlaveDeterminationTimed ==
  ASSUME NEW c, NEW traits, Sound(c, traits)
  PROVE  Sound(SendMasterSlaveDetermination(c), traits)
<1> DEFINE q == QueueH245(c, "MSD")
<1>1. Sound(q, traits) BY QueueH245Timed
<1>2. SendMasterSlaveDetermination(c) \in {c, [q EXCEPT !.msd = "DetermineSent"]}
  BY DEF SendMasterSlaveDetermination
<1> HIDE DEF q
<1>3. Sound([q EXCEPT !.msd = "DetermineSent"], traits) BY <1>1 DEF Sound, Timed, Watched
<1> QED BY <1>2, <1>3

-----------------------------------------------------------------------------
(* H.245 connections and messages.                                            *)

\* A session that becomes active no longer waits for an EndSession.
LEMMA H245ConnectedTimed ==
  ASSUME NEW c, NEW traits, Sound(c, traits) PROVE Sound(H245Connected(c), traits)
<1> DEFINE d == [c EXCEPT !.h245 = "open", !.session = "ACTIVE", !.newSock = TRUE,
                          !.leak = @ \/ c.h245 = "open"]
<1>1. Sound(d, traits) BY DEF Sound, Timed, Watched
<1>2. H245Connected(c) = SendMasterSlaveDetermination(SendTermCapMsg(d))
  BY DEF H245Connected
<1> HIDE DEF d
<1> QED BY <1>1, <1>2, SendTermCapMsgTimed, SendMasterSlaveDeterminationTimed

\* A connection that is made, tried again or given up.
LEMMA CreateH245ConnectionTimed ==
  ASSUME NEW c, NEW connected, NEW traits, Sound(c, traits)
  PROVE  Sound(CreateH245Connection(c, connected), traits)
<1> DEFINE w == WithH245Channel(c)
           d == [w EXCEPT !.leak = TRUE]
<1>1. Sound(w, traits) BY WithH245ChannelTimed
<1>2. "H245CONNECT" \in TimerKinds BY DEF TimerKinds
<1>3. CreateH245Connection(c, connected) \in
        {H245Connected(c), MarkClear(d), ArmTimer(d, "H245CONNECT")}
  BY DEF CreateH245Connection, H245ConnectFailed
<1> HIDE DEF w
<1>4. Sound(d, traits) BY <1>1 DEF Sound, Timed, Watched
<1> HIDE DEF d
<1> QED BY <1>2, <1>3, <1>4, H245ConnectedTimed, MarkClearTimed, ArmTimerTimed

\* Opening our channels, or failing to,
LEMMA OpenLogicalChannelsTimed ==
  ASSUME NEW c, NEW traits, Sound(c, traits), NEW d \in OpenLogicalChannelsOutcomes(c)
  PROVE  Sound(d, traits)
<1> DEFINE q == QueueH245(c, "Chan")
<1>1. Sound(q, traits) BY QueueH245Timed
<1>2. d \in {c, [q EXCEPT !.chans = TRUE], MarkClear(c)} BY DEF OpenLogicalChannelsOutcomes
<1> HIDE DEF q
<1>3. Sound([q EXCEPT !.chans = TRUE], traits) BY <1>1 DEF Sound, Timed, Watched
<1> QED BY <1>2, <1>3, MarkClearTimed

\* which only the master does.
LEMMA MasterOpensTimed ==
  ASSUME NEW c, NEW traits, Sound(c, traits), NEW d \in MasterOpensOutcomes(c)
  PROVE  Sound(d, traits)
BY OpenLogicalChannelsTimed DEF MasterOpensOutcomes

\* Activating an idle session, or pausing one, ends no wait unwatched.
LEMMA NewSessionTimed ==
  ASSUME NEW c, NEW traits, Sound(c, traits), NEW s,
         s \in {"PAUSED", "ACTIVE", "ENDRECVD"} \/ s = c.session
  PROVE  Sound([c EXCEPT !.session = s], traits)
BY DEF Sound, Timed, Watched

\* A capability set that is rejected.
LEMMA OnRejectedTCSTimed ==
  ASSUME NEW c, NEW traits, Sound(c, traits) PROVE Sound(OnRejectedTCS(c), traits)
<1> DEFINE s == IF c.session = "IDLE" THEN "ACTIVE" ELSE c.session
           d == [c EXCEPT !.session = s]
           q == QueueH245(d, "Plain")
           r == [q EXCEPT !.remoteTCS = "Idle"]
<1>1. Sound(d, traits) BY NewSessionTimed
<1>2. OnRejectedTCS(c) \in {r, SendTermCapMsg(r)} BY DEF OnRejectedTCS
<1> HIDE DEF d
<1>3. Sound(q, traits) BY <1>1, QueueH245Timed
<1> HIDE DEF q
<1>4. Sound(r, traits) BY <1>3 DEF Sound, Timed, Watched
<1> HIDE DEF r
<1> QED BY <1>2, <1>4, SendTermCapMsgTimed

\* A capability set that is new, also the empty one that pauses the session.
LEMMA OnTCSTimed ==
  ASSUME NEW c, NEW traits, Sound(c, traits), NEW empty \in BOOLEAN,
         NEW e \in OnTCSOutcomes(c, empty)
  PROVE  Sound(e, traits)
<1> DEFINE s == IF empty THEN "PAUSED"
                ELSE IF c.session = "IDLE" THEN "ACTIVE" ELSE c.session
           d == [c EXCEPT !.session = s]
           q == QueueH245(d, "Plain")
           a == [q EXCEPT !.remoteTCS = "AckSent"]
           t == IF a.localTCS = "Idle" THEN SendTermCapMsg(a) ELSE a
<1>1. Sound(d, traits) BY NewSessionTimed
<1>2. e = SendMasterSlaveDetermination(t) \/ e \in MasterOpensOutcomes(t)
  BY DEF OnTCSOutcomes
<1> HIDE DEF d
<1>3. Sound(q, traits) BY <1>1, QueueH245Timed
<1> HIDE DEF q
<1>4. Sound(a, traits) BY <1>3 DEF Sound, Timed, Watched
<1> HIDE DEF a
<1>5. Sound(t, traits) BY <1>4, SendTermCapMsgTimed
<1> HIDE DEF t
<1> QED BY <1>2, <1>5, SendMasterSlaveDeterminationTimed, MasterOpensTimed

\* The answer to our capability set.
LEMMA OnTCSAckTimed ==
  ASSUME NEW c, NEW traits, Sound(c, traits), NEW e \in OnTCSAckOutcomes(c)
  PROVE  Sound(e, traits)
<1> DEFINE t == DeleteTimer(c, "TCS")
           d == [t EXCEPT !.localTCS = "AckRecvd"]
<1>1. "TCS" \in TimerKinds \ {"SESSION"} BY DEF TimerKinds
<1>2. Sound(t, traits) BY <1>1, DeleteTimerTimed
<1>3. e \in MasterOpensOutcomes(d) BY DEF OnTCSAckOutcomes
<1> HIDE DEF t
<1>4. Sound(d, traits) BY <1>2 DEF Sound, Timed, Watched
<1> HIDE DEF d
<1> QED BY <1>3, <1>4, MasterOpensTimed

\* The peer's determination.
LEMMA OnMSDTimed ==
  ASSUME NEW c, NEW traits, Sound(c, traits), NEW e \in OnMSDOutcomes(c)
  PROVE  Sound(e, traits)
<1> DEFINE q == QueueH245(c, "Plain")
<1>1. Sound(q, traits) BY QueueH245Timed
<1>2. e \in {q, [q EXCEPT !.msd = "AckSent"]} BY DEF OnMSDOutcomes
<1> HIDE DEF q
<1>3. Sound([q EXCEPT !.msd = "AckSent"], traits) BY <1>1 DEF Sound, Timed, Watched
<1> QED BY <1>1, <1>2, <1>3

\* The answer to ours.
LEMMA OnMSDAckTimed ==
  ASSUME NEW c, NEW traits, Sound(c, traits), NEW role, NEW e \in OnMSDAckOutcomes(c, role)
  PROVE  Sound(e, traits)
<1> DEFINE d == DeleteTimer(c, "MSD")
           q == QueueH245(d, "Plain")
           m == [d EXCEPT !.msd = "Master"]
<1>1. "MSD" \in TimerKinds \ {"SESSION"} BY DEF TimerKinds
<1>2. Sound(d, traits) BY <1>1, DeleteTimerTimed
<1>3. \/ e \in { [d EXCEPT !.msd = "Slave"], [q EXCEPT !.msd = role] }
      \/ e \in MasterOpensOutcomes(m) \/ e \in MasterOpensOutcomes(d)
  BY DEF OnMSDAckOutcomes
<1> HIDE DEF d
<1>4. Sound(q, traits) BY <1>2, QueueH245Timed
<1> HIDE DEF q
<1>5. Sound([q EXCEPT !.msd = role], traits) BY <1>4 DEF Sound, Timed, Watched
<1>6. Sound([d EXCEPT !.msd = "Slave"], traits) BY <1>2 DEF Sound, Timed, Watched
<1>7. Sound(m, traits) BY <1>2 DEF Sound, Timed, Watched
<1> HIDE DEF m
<1> QED BY <1>2, <1>3, <1>5, <1>6, <1>7, MasterOpensTimed

\* Its rejection, with retries.
LEMMA OnMSDRejectTimed ==
  ASSUME NEW c, NEW traits, Sound(c, traits) PROVE Sound(OnMSDReject(c), traits)
<1> DEFINE d == DeleteTimer(c, "MSD")
           r == [d EXCEPT !.msdRetries = @ + 1, !.msd = "Idle"]
<1>1. "MSD" \in TimerKinds \ {"SESSION"} BY DEF TimerKinds
<1>2. Sound(d, traits) BY <1>1, DeleteTimerTimed
<1>3. OnMSDReject(c) \in {SendMasterSlaveDetermination(r), MarkClear(d)} BY DEF OnMSDReject
<1> HIDE DEF d
<1>4. Sound(r, traits) BY <1>2 DEF Sound, Timed, Watched
<1> HIDE DEF r
<1> QED BY <1>2, <1>3, <1>4, SendMasterSlaveDeterminationTimed, MarkClearTimed

\* The logical channels are beside the point.
LEMMA ChansTimed ==
  ASSUME NEW c, NEW traits, Sound(c, traits), NEW b
  PROVE  Sound([c EXCEPT !.chans = b], traits)
BY DEF Sound, Timed, Watched

\* Every message about logical channels.
LEMMA OnChanTimed ==
  ASSUME NEW c, NEW traits, Sound(c, traits), NEW e \in OnChanOutcomes(c)
  PROVE  Sound(e, traits)
<1> DEFINE a == QueueH245(c, "Plain")
           q == QueueH245(a, "Chan")
           d == DeleteTimer(c, "CHAN")
<1>1. "CHAN" \in TimerKinds \ {"SESSION"} BY DEF TimerKinds
<1>2. Sound(a, traits) /\ Sound(d, traits) BY <1>1, DeleteTimerTimed, QueueH245Timed
<1>3. Sound(q, traits) BY <1>2, QueueH245Timed
<1>4. e \in { c, a, [a EXCEPT !.chans = TRUE], [q EXCEPT !.chans = TRUE], q,
              [a EXCEPT !.chans = FALSE], d, [d EXCEPT !.chans = TRUE],
              [d EXCEPT !.chans = FALSE], MarkClear(d) }
  BY DEF OnChanOutcomes
<1> HIDE DEF a, q, d
<1> QED BY <1>2, <1>3, <1>4, ChansTimed, MarkClearTimed

\* The peer's EndSession deletes the timer of the wait it ends; the other one,
\* if any, stays.
LEMMA OnEndSessionTimed ==
  ASSUME NEW c, NEW ok \in BOOLEAN, NEW traits, Sound(c, traits)
  PROVE  Sound(OnEndSession(c, ok), traits)
<1>1. CASE c.session = "ENDSENT"
  <2> DEFINE t == DeleteTimer(c, "SESSION")
             d == CloseH245Connection(t)
  <2>1. OnEndSession(c, ok) = d BY <1>1 DEF OnEndSession
  <2>2. "SESSION" \in TimerKinds /\ c.timers \in [TimerKinds -> Nat]
    BY DEF TimerKinds, Sound, Timed
  <2>3. /\ Fields \subseteq DOMAIN t
        /\ t.rcSent = c.rcSent /\ t.rcRecvd = c.rcRecvd
        /\ t.gone = c.gone /\ t.callState = c.callState /\ t.listener = c.listener
        /\ t.timers = [c.timers EXCEPT !["SESSION"] =
                         IF c.timers["SESSION"] = 0 THEN 0 ELSE c.timers["SESSION"] - 1]
    BY DEF DeleteTimer, Sound, Timed
  <2>4. c.timers["SESSION"] \in Nat /\ c.timers["SESSION"] > 0
    BY <1>1, <2>2 DEF Sound, Timed
  <2>5. t.timers \in [TimerKinds -> Nat] /\ t.timers["SESSION"] = c.timers["SESSION"] - 1
    BY <2>2, <2>3, <2>4
  <2> HIDE DEF t
  <2>6. /\ Fields \subseteq DOMAIN d
        /\ d.rcSent = c.rcSent /\ d.rcRecvd = c.rcRecvd
        /\ d.gone = c.gone /\ d.callState = c.callState /\ d.listener = c.listener
        /\ d.timers = t.timers /\ d.session = "CLOSED" /\ d.h245 = "none"
    BY <2>3 DEF CloseH245Connection
  <2> HIDE DEF d
  <2>7. Sound(d, traits) BY <1>1, <2>4, <2>5, <2>6 DEF Sound, Timed, Watched
  <2> QED BY <2>1, <2>7
<1>2. CASE c.session # "ENDSENT"
  <2> DEFINE s == [c EXCEPT !.session = "ENDRECVD"]
             d == [s EXCEPT !.chans = FALSE]
  <2>1. OnEndSession(c, ok) = SendEndSession(d, ok)
    BY <1>2 DEF OnEndSession
  <2>2. Sound(s, traits) BY NewSessionTimed
  <2> HIDE DEF s
  <2>3. Sound(d, traits) BY <2>2, ChansTimed
  <2> HIDE DEF d
  <2> QED BY <2>1, <2>3, SendEndSessionTimed
<1> QED BY <1>1, <1>2

\* So every H.245 message.
LEMMA HandleH245Timed ==
  ASSUME NEW c, NEW m, NEW ok \in BOOLEAN, NEW traits, Sound(c, traits),
         NEW e \in HandleH245Outcomes(c, m, ok)
  PROVE  Sound(e, traits)
<1> DEFINE t == DeleteTimer(c, "TCS")
           q == QueueH245(c, "Plain")
<1>1. "TCS" \in TimerKinds \ {"SESSION"} BY DEF TimerKinds
<1>2. Sound(t, traits) /\ Sound(q, traits) BY <1>1, DeleteTimerTimed, QueueH245Timed
<1>3. Sound(MarkClear(t), traits) /\ Sound(QueueH245(q, "Plain"), traits)
  BY <1>2, MarkClearTimed, QueueH245Timed
<1>4. \/ \E empty \in BOOLEAN : e \in OnTCSOutcomes(c, empty)
      \/ e \in {OnRejectedTCS(c), OnEndSession(c, ok), OnMSDReject(c)}
      \/ e \in OnTCSAckOutcomes(c) \/ e \in OnMSDOutcomes(c)
      \/ \E role \in {"Master", "Slave"} : e \in OnMSDAckOutcomes(c, role)
      \/ e \in OnChanOutcomes(c)
      \/ e \in {c, MarkClear(t), q, QueueH245(q, "Plain")}
  BY DEF HandleH245Outcomes, OnTCSReject
<1> HIDE DEF t, q
<1> QED
  BY <1>2, <1>3, <1>4, OnTCSTimed, OnRejectedTCSTimed, OnEndSessionTimed, OnMSDRejectTimed,
     OnTCSAckTimed, OnMSDTimed, OnMSDAckTimed, OnChanTimed

\* The reset of a paused session forgets that the call was ending.
LEMMA PauseResetTimed ==
  ASSUME NEW c, NEW closing, Sound(c, {}) PROVE Sound(PauseReset(c, closing), {})
<1> DEFINE d == IF c.chans /\ closing THEN QueueH245(c, "Chan") ELSE c
<1>1. Sound(d, {}) BY QueueH245Timed
<1>2. PauseReset(c, closing) =
        [d EXCEPT !.msd = "Idle", !.callState = "PAUSED", !.localTCS = "Idle",
                  !.remoteTCS = "Idle", !.session = "IDLE", !.chans = FALSE]
  BY DEF PauseReset
<1> HIDE DEF d
<1> QED BY <1>1, <1>2 DEF Sound, Timed

-----------------------------------------------------------------------------
(* Q.931 messages, commands and timers.                                       *)

\* A call that is placed, or could not be: none of the fields but the channel.
LEMMA PlaceCallTimed ==
  ASSUME NEW c, NEW connected, NEW traits, Sound(c, traits),
         NEW e \in PlaceCallOutcomes(c, connected)
  PROVE  Sound(e, traits)
<1> DEFINE o == [c EXCEPT !.h225 = "open", !.leak = @ \/ c.h225 = "open"]
           f == [c EXCEPT !.h225 = IF @ = "none" THEN "nosock" ELSE @, !.leak = TRUE]
<1>1. Sound(o, traits) BY DEF Sound, Timed, Watched
<1>2. Sound(f, traits) BY DEF Sound, Timed, Watched
<1>3. e \in {SendH225Msg(o, "Setup"), MarkClear(o), MarkClear(f)} BY DEF PlaceCallOutcomes
<1> HIDE DEF o, f
<1> QED BY <1>1, <1>2, <1>3, MarkClearTimed, SendH225MsgTimed

\* A Setup, of an incoming call or met by an outgoing one.
LEMMA OnSetupTimed ==
  ASSUME NEW c, NEW b, NEW connected, NEW traits, Sound(c, traits),
         NEW e \in OnSetupOutcomes(c, b, connected)
  PROVE  Sound(e, traits)
<1> DEFINE s == [c EXCEPT !.setup = TRUE, !.tunneling = b,
                          !.retunneled = @ \/ (b /\ ~c.tunneling /\ H245Separate(c))]
           p == { SendH225Msg(d, "Plain") : d \in {s, MarkClear(s)} }
<1>1. Sound(s, traits) BY DEF Sound, Timed, Watched
<1>2. \/ e \in p \/ \E d \in p : e = SendH225Msg(d, "Plain")
      \/ \E d \in p : e \in PlaceCallOutcomes(d, connected)
  BY DEF OnSetupOutcomes
<1> HIDE DEF s
<1>3. ASSUME NEW d \in p PROVE Sound(d, traits)
  BY <1>1, <1>3, MarkClearTimed, SendH225MsgTimed
<1> HIDE DEF p
<1> QED BY <1>2, <1>3, SendH225MsgTimed, PlaceCallTimed

\* An H.245 address ends tunneling only.
LEMMA OnH245AddressTimed ==
  ASSUME NEW c, NEW traits, Sound(c, traits) PROVE Sound(OnH245Address(c), traits)
BY DEF Sound, Timed, Watched, OnH245Address

\* The peer asks for a separate H.245 connection.
LEMMA OnFacilityStartH245Timed ==
  ASSUME NEW c, NEW connected, NEW traits, Sound(c, traits)
  PROVE  Sound(OnFacilityStartH245(c, connected), traits)
<1> DEFINE d == [c EXCEPT !.tunneling = FALSE, !.h245Port = TRUE]
<1>1. Sound(d, traits) BY DEF Sound, Timed, Watched
<1>2. OnFacilityStartH245(c, connected) = CreateH245Connection(d, connected)
  BY DEF OnFacilityStartH245
<1> HIDE DEF d
<1> QED BY <1>1, <1>2, CreateH245ConnectionTimed

\* The peer forwards the call.
LEMMA OnFacilityForwardedTimed ==
  ASSUME NEW c, NEW traits, Sound(c, traits), NEW e \in OnFacilityForwardedOutcomes(c)
  PROVE  Sound(e, traits)
<1>1. Sound([c EXCEPT !.fwd = TRUE], traits) BY DEF Sound, Timed, Watched
<1> QED BY <1>1, MarkClearTimed DEF OnFacilityForwardedOutcomes

\* The end of tunneling.
LEMMA TunnelingOffTimed ==
  ASSUME NEW c, NEW traits, Sound(c, traits) PROVE Sound([c EXCEPT !.tunneling = FALSE], traits)
BY DEF Sound, Timed, Watched

\* CallProceeding or Alerting, with its errors.
LEMMA OnProgressTimed ==
  ASSUME NEW c, NEW traits, Sound(c, traits), NEW e \in OnProgressOutcomes(c)
  PROVE  Sound(e, traits)
BY TunnelingOffTimed, OnH245AddressTimed, MarkClearTimed DEF OnProgressOutcomes

\* A good Connect, with what it carries and starts.
LEMMA OnGoodConnectTimed ==
  ASSUME NEW u, NEW control, NEW connected, NEW m, NEW ok \in BOOLEAN, NEW traits,
         Sound(u, traits), NEW e \in OnGoodConnectOutcomes(u, control, connected, m, ok)
  PROVE  Sound(e, traits)
<1> DEFINE a == IF control = "address" THEN OnH245Address(u) ELSE u
           n == IF a.h245Port THEN CreateH245Connection(a, connected) ELSE a
           t == [n EXCEPT !.tunneling = @ /\ control = "tunnel"]
           hs == IF m = "none" THEN {t} ELSE HandleH245Outcomes(t, m, ok)
           Started(d) == IF d.localTCS = "Idle" THEN SendTermCapMsg(d) ELSE d
<1>1. e \in {n, t} \/ \E d \in hs : e = SendMasterSlaveDetermination(Started(d))
  BY DEF OnGoodConnectOutcomes
<1>2. Sound(a, traits) BY OnH245AddressTimed
<1> HIDE DEF a
<1>3. Sound(n, traits) BY <1>2, CreateH245ConnectionTimed
<1> HIDE DEF n
<1>4. Sound(t, traits) BY <1>3 DEF Sound, Timed, Watched
<1> HIDE DEF t
<1>5. ASSUME NEW d \in hs PROVE Sound(d, traits) BY <1>4, <1>5, HandleH245Timed
<1> HIDE DEF hs
<1>6. ASSUME NEW d \in hs PROVE Sound(SendMasterSlaveDetermination(Started(d)), traits)
  BY <1>5, <1>6, SendTermCapMsgTimed, SendMasterSlaveDeterminationTimed
<1> HIDE DEF Started
<1> QED BY <1>1, <1>3, <1>4, <1>6

\* Any Connect.
LEMMA OnConnectTimed ==
  ASSUME NEW c, NEW control, NEW connected, NEW m, NEW ok \in BOOLEAN, NEW traits,
         Sound(c, traits), NEW e \in OnConnectOutcomes(c, control, connected, m, ok)
  PROVE  Sound(e, traits)
<1> DEFINE u == DeleteTimer(c, "CALLESTB")
<1>1. "CALLESTB" \in TimerKinds \ {"SESSION"} BY DEF TimerKinds
<1>2. Sound(u, traits) BY <1>1, DeleteTimerTimed
<1>3. \/ e \in {u, MarkClear(u), MarkClear([u EXCEPT !.tunneling = FALSE])}
      \/ e \in OnGoodConnectOutcomes(u, control, connected, m, ok)
  BY DEF OnConnectOutcomes
<1> HIDE DEF u
<1> QED BY <1>2, <1>3, MarkClearTimed, TunnelingOffTimed, OnGoodConnectTimed

\* The peer's ReleaseComplete clears any call, and ends a session with a socket.
LEMMA OnReleaseCompleteTimed ==
  ASSUME NEW c, NEW traits, "unreleased" \notin traits, Sound(c, traits)
  PROVE  LET e == OnReleaseComplete(c)
         IN  Sound(e, traits) /\ e.callState = "CLEARED" /\ e.session \in {"IDLE", "CLOSED"}
<1> DEFINE t == DeleteTimer(c, "SESSION")
           d == IF c.session \in {"IDLE", "CLOSED"} THEN t ELSE CloseH245Connection(t)
           e == [d EXCEPT !.callState = "CLEARED", !.rcRecvd = TRUE]
<1>1. OnReleaseComplete(c) = e BY DEF OnReleaseComplete
<1>2. "SESSION" \in TimerKinds /\ c.timers \in [TimerKinds -> Nat]
  BY DEF TimerKinds, Sound, Timed
<1>3. /\ Fields \subseteq DOMAIN t /\ t.gone = "no"
      /\ t.rcSent = c.rcSent /\ t.session = c.session
      /\ t.h245 = c.h245 /\ t.listener = c.listener
      /\ t.timers = [c.timers EXCEPT !["SESSION"] =
                       IF c.timers["SESSION"] = 0 THEN 0 ELSE c.timers["SESSION"] - 1]
  BY DEF DeleteTimer, Sound, Timed
<1>4. t.timers \in [TimerKinds -> Nat] BY <1>2, <1>3
<1> HIDE DEF t
<1>5. /\ Fields \subseteq DOMAIN d /\ d.gone = "no" /\ d.rcSent = c.rcSent
      /\ d.timers = t.timers /\ d.listener = c.listener
      /\ \/ d.session = c.session /\ d.h245 = c.h245 /\ c.session \in {"IDLE", "CLOSED"}
         \/ d.session = "CLOSED" /\ d.h245 = "none"
  BY <1>3 DEF CloseH245Connection
<1> HIDE DEF d
<1>6. /\ Fields \subseteq DOMAIN e /\ e.gone = "no"
      /\ e.rcSent = c.rcSent /\ e.timers = d.timers
      /\ e.session = d.session /\ e.h245 = d.h245 /\ e.callState = "CLEARED"
      /\ e.listener = d.listener
  BY <1>5
<1> HIDE DEF e
<1>7. Timed(e) BY <1>4, <1>5, <1>6 DEF Sound, Timed
<1>8. Sound(e, traits) BY <1>5, <1>6, <1>7 DEF Sound
<1> QED BY <1>1, <1>5, <1>6, <1>8

\* The application hangs up ...
LEMMA HangCallTimed ==
  ASSUME NEW c, NEW traits, Sound(c, traits) PROVE Sound(HangCall(c), traits)
<1>1. Sound([c EXCEPT !.hung = TRUE], traits) BY DEF Sound, Timed, Watched
<1> QED BY <1>1, MarkClearTimed DEF HangCall

\* ... or answers, which may open a listener.
LEMMA AcceptCallTimed ==
  ASSUME NEW c, NEW traits, Sound(c, traits) PROVE Sound(AcceptCall(c), traits)
<1> DEFINE l == IF c.tunneling THEN c
                ELSE [c EXCEPT !.listener = TRUE, !.leak = @ \/ c.listener]
<1>1. Sound(l, traits) BY DEF Sound, Timed, Watched
<1>2. AcceptCall(c) =
        SendMasterSlaveDetermination(SendTermCapMsg(SendH225Msg(l, "Connect")))
  BY DEF AcceptCall
<1> HIDE DEF l
<1> QED
  BY <1>1, <1>2, SendH225MsgTimed, SendTermCapMsgTimed, SendMasterSlaveDeterminationTimed

\* An expired session timer closes the session, and clears a released call.
LEMMA SessionTimerTimed ==
  ASSUME NEW c, NEW traits, Sound(c, traits)
  PROVE  Sound(SessionTimerExpired(DeleteTimer(c, "SESSION")), traits)
<1> DEFINE t == DeleteTimer(c, "SESSION")
           d == IF t.session \in {"IDLE", "CLOSED", "PAUSED"} THEN t
                ELSE CloseH245Connection(t)
           e == IF d.callState = "CLEAR_RELEASESENT" THEN [d EXCEPT !.callState = "CLEARED"]
                ELSE d
<1>1. SessionTimerExpired(t) = e BY DEF SessionTimerExpired
<1>2. "SESSION" \in TimerKinds /\ c.timers \in [TimerKinds -> Nat]
  BY DEF TimerKinds, Sound, Timed
<1>3. /\ Fields \subseteq DOMAIN t /\ t.gone = "no"
      /\ t.rcSent = c.rcSent /\ t.rcRecvd = c.rcRecvd
      /\ t.listener = c.listener /\ t.session = c.session
      /\ t.h245 = c.h245 /\ t.callState = c.callState
      /\ t.timers = [c.timers EXCEPT !["SESSION"] =
                       IF c.timers["SESSION"] = 0 THEN 0 ELSE c.timers["SESSION"] - 1]
  BY DEF DeleteTimer, Sound, Timed
<1>4. t.timers \in [TimerKinds -> Nat] BY <1>2, <1>3
<1> HIDE DEF t
<1>5. /\ Fields \subseteq DOMAIN d /\ d.gone = "no"
      /\ d.rcSent = c.rcSent /\ d.rcRecvd = c.rcRecvd
      /\ d.listener = c.listener /\ d.timers = t.timers
      /\ d.callState = c.callState
      /\ \/ d.session = c.session /\ d.h245 = c.h245 /\ c.session # "ENDSENT"
         \/ d.session = "CLOSED" /\ d.h245 = "none"
  BY <1>3 DEF CloseH245Connection
<1> HIDE DEF d
<1>6. /\ Fields \subseteq DOMAIN e /\ e.gone = "no"
      /\ e.rcSent = c.rcSent /\ e.rcRecvd = c.rcRecvd
      /\ e.listener = c.listener /\ e.timers = d.timers
      /\ e.session = d.session /\ e.h245 = d.h245
      /\ e.callState = IF d.callState = "CLEAR_RELEASESENT" THEN "CLEARED" ELSE d.callState
  BY <1>5
<1> HIDE DEF e
<1>7. Timed(e) BY <1>4, <1>5, <1>6 DEF Sound, Timed
<1>8. Sound(e, traits) BY <1>5, <1>6, <1>7 DEF Sound, Watched
<1> QED BY <1>1, <1>8 DEF t

\* A timer of the logical channels.
LEMMA ChanTimerTimed ==
  ASSUME NEW c, NEW traits, Sound(c, traits), NEW e \in ChanTimerOutcomes(c)
  PROVE  Sound(e, traits)
<1>1. PICK d \in {c, QueueH245(c, "Chan"), QueueH245(c, "Plain")} :
        e = MarkClear(d) \/ e = MarkClear([d EXCEPT !.chans = FALSE])
  BY DEF ChanTimerOutcomes
<1>2. Sound(d, traits) BY <1>1, QueueH245Timed
<1> QED BY <1>1, <1>2, ChansTimed, MarkClearTimed

\* So every timer.
LEMMA TimerTimed ==
  ASSUME NEW c, NEW traits, Sound(c, traits), NEW k \in TimerKinds, NEW connected,
         NEW e \in TimerOutcomes(c, k, connected)
  PROVE  Sound(e, traits)
<1> DEFINE d == DeleteTimer(c, k)
           r == [d EXCEPT !.attempts = @ + 1]
<1>1. CASE k = "SESSION"
  <2>1. e = SessionTimerExpired(DeleteTimer(c, "SESSION")) BY <1>1 DEF TimerOutcomes
  <2> QED BY <2>1, SessionTimerTimed
<1>2. CASE k # "SESSION"
  <2>1. Sound(d, traits) BY <1>2, DeleteTimerTimed
  <2>2. \/ e \in {MarkClear(d), MarkClear(QueueH245(d, "Plain")),
                  CreateH245Connection(r, connected)}
        \/ e \in ChanTimerOutcomes(d)
    BY <1>2 DEF TimerOutcomes, TimerKinds
  <2> HIDE DEF d
  <2>3. Sound(r, traits) BY <2>1 DEF Sound, Timed, Watched
  <2> HIDE DEF r
  <2> QED
    BY <2>1, <2>2, <2>3, MarkClearTimed, QueueH245Timed, CreateH245ConnectionTimed,
       ChanTimerTimed
<1> QED BY <1>1, <1>2

-----------------------------------------------------------------------------
(* The end of a call.                                                         *)

\* A cleaned call is gone and keeps nothing.
LEMMA CleanCallClean ==
  ASSUME NEW c, Timed(c)
  PROVE  LET e == CleanCall(c)
         IN  /\ e.gone # "no" /\ e.h225 # "open" /\ e.h245 # "open" /\ ~e.listener
             /\ \A k \in TimerKinds : e.timers[k] = 0
<1> DEFINE h == IF c.session # "CLOSED" THEN CloseH245Connection(c)
                ELSE [c EXCEPT !.h245Out = <<>>]
           q == IF h.h225 = "open" THEN CloseH225Connection(h) ELSE h
           f == Forget(q)
           e == [f EXCEPT !.listener = FALSE, !.timers = [k \in TimerKinds |-> 0],
                          !.gone = IF c.fwd THEN "forwarded" ELSE "cleared"]
<1>1. CleanCall(c) = e BY DEF CleanCall
<1>2. Fields \subseteq DOMAIN h /\ h.h245 # "open"
  BY DEF Timed, CloseH245Connection
<1> HIDE DEF h
<1>3. q.h225 # "open" /\ q.h245 # "open" BY <1>2 DEF CloseH225Connection
<1> HIDE DEF q
<1>4. Fields \subseteq DOMAIN f /\ f.h225 = q.h225 /\ f.h245 = q.h245
  <2> DEFINE n == NewCall(q.callType, FALSE)
  <2>1. Fields \subseteq DOMAIN n BY DEF NewCall
  <2> HIDE DEF n
  <2>2. f = [n EXCEPT
             !.callState = q.callState, !.session = q.session, !.h225 = q.h225,
             !.h245 = q.h245, !.listener = q.listener, !.timers = q.timers,
             !.hung = q.hung, !.retunneled = q.retunneled,
             !.rcSent = q.rcSent, !.rcRecvd = q.rcRecvd,
             !.endSent = q.endSent, !.leak = q.leak, !.crashed = q.crashed]
    BY DEF Forget, n
  <2> QED BY <2>1, <2>2
<1> HIDE DEF f
<1>5. /\ e.gone # "no" /\ e.h225 = f.h225 /\ e.h245 = f.h245 /\ ~e.listener
      /\ e.timers = [k \in TimerKinds |-> 0]
  BY <1>4
<1> HIDE DEF e
<1> QED BY <1>1, <1>3, <1>4, <1>5

\* Of a call that is not cleared yet, the end of the pass sends what is missing.
LEMMA EndCallTimed ==
  ASSUME NEW c, NEW traits, Sound(c, traits), NEW ok \in BOOLEAN, c.callState # "CLEARED"
  PROVE  Sound(EndCall(c, ok), traits)
<1> DEFINE d == [c EXCEPT !.chans = FALSE]
           s == SendEndSession(d, ok)
           b == [s EXCEPT !.endBuilt = TRUE]
           e == IF ~d.endBuilt /\ d.session \in {"ACTIVE", "ENDRECVD"} THEN b ELSE d
           q == SendH225Msg(e, "ReleaseComplete")
<1>1. EndCall(c, ok) \in
        {[e EXCEPT !.callState = "CLEARED"], [q EXCEPT !.relBuilt = TRUE], e}
  BY DEF EndCall
<1>2. Sound(d, traits) BY ChansTimed
<1> HIDE DEF d
<1>3. Sound(s, traits) BY <1>2, SendEndSessionTimed
<1> HIDE DEF s
<1>4. Sound(b, traits) BY <1>3 DEF Sound, Timed, Watched
<1> HIDE DEF b
<1>5. Sound(e, traits) BY <1>2, <1>4
<1> HIDE DEF e
<1>6. Sound(q, traits) BY <1>5, SendH225MsgTimed
<1> HIDE DEF q
<1>7. Sound([q EXCEPT !.relBuilt = TRUE], traits) BY <1>6 DEF Sound, Timed, Watched
<1>8. Sound([e EXCEPT !.callState = "CLEARED"], traits) BY <1>5 DEF Sound, Timed
<1> QED BY <1>1, <1>5, <1>7, <1>8

-----------------------------------------------------------------------------
(* The actions.  Only a ReleaseComplete that is received ends the trait of    *)
(* being unreleased, and only a pause those of not being paused.              *)

\* A command of the application.
LEMMA CommandSound ==
  ASSUME NEW traits, Sound(call, traits), Command PROVE Sound(call', traits)
BY HangCallTimed, AcceptCallTimed, QueueH245Timed, SendH225MsgTimed DEF Command

\* An expired timer.
LEMMA FireTimerSound ==
  ASSUME NEW traits, Sound(call, traits), NEW k \in TimerKinds, FireTimer(k)
  PROVE  Sound(call', traits)
BY TimerTimed DEF FireTimer

\* A message on the signalling connection, or its end.
LEMMA ReceivesQ931Sound ==
  ASSUME NEW traits, Sound(call, traits), ReceivesQ931,
         "unreleased" \notin traits \/ ~ReceiveReleaseComplete
  PROVE  Sound(call', traits)
<1>1. CASE ReceiveH225Closed
  <2> DEFINE d == CloseH225Connection(call)
  <2>1. Sound(d, traits) BY DEF CloseH225Connection, Sound, Timed, Watched
  <2>2. call' = [d EXCEPT !.callState = "CLEARED"] BY <1>1 DEF ReceiveH225Closed
  <2> HIDE DEF d
  <2>3. Sound([d EXCEPT !.callState = "CLEARED"], traits) BY <2>1 DEF Sound, Timed
  <2> QED BY <2>2, <2>3
<1>2. CASE ReceiveBadQ931 BY <1>2, MarkClearTimed DEF ReceiveBadQ931
<1>3. CASE ReceiveSetup BY <1>3, OnSetupTimed DEF ReceiveSetup
<1>4. CASE ReceiveProgress BY <1>4, OnProgressTimed DEF ReceiveProgress
<1>5. CASE ReceiveConnect BY <1>5, OnConnectTimed DEF ReceiveConnect, SendOutcomes
<1>6. CASE ReceiveReleaseComplete
  <2>1. "unreleased" \notin traits BY <1>6
  <2>2. call' = OnReleaseComplete(call) BY <1>6 DEF ReceiveReleaseComplete
  <2> QED BY <2>1, <2>2, OnReleaseCompleteTimed
<1>7. CASE ReceiveTunneled BY <1>7, HandleH245Timed DEF ReceiveTunneled, SendOutcomes
<1>8. CASE ReceiveStartH245 BY <1>8, OnFacilityStartH245Timed DEF ReceiveStartH245
<1>9. CASE ReceiveForward BY <1>9, OnFacilityForwardedTimed DEF ReceiveForward
<1> QED BY <1>1, <1>2, <1>3, <1>4, <1>5, <1>6, <1>7, <1>8, <1>9 DEF ReceivesQ931

\* A message on the H.245 connection: the reset of a paused call spares no trait.
LEMMA ReceivesH245Sound ==
  ASSUME NEW traits, Sound(call, traits), ReceivesH245,
         traits = {} \/ call.session # "PAUSED"
  PROVE  Sound(call', traits)
<1>1. ASSUME NEW c \in BeforeH245 PROVE Sound(c, traits)
  <2>1. CASE call.session # "PAUSED" BY <1>1, <2>1 DEF BeforeH245
  <2>2. CASE traits = {}
    <3>1. Sound(call, {}) BY <2>2
    <3>2. c = call \/ \E closing \in BOOLEAN : c = PauseReset(call, closing)
      BY <1>1 DEF BeforeH245
    <3>3. Sound(c, {}) BY <3>1, <3>2, PauseResetTimed
    <3> QED BY <2>2, <3>3
  <2> QED BY <2>1, <2>2
<1>2. CASE ReceiveH245Closed
  BY <1>1, <1>2, CloseH245ConnectionTimed, MarkClearTimed DEF ReceiveH245Closed
<1>3. CASE ReceiveBadH245 BY <1>1, <1>3, MarkClearTimed DEF ReceiveBadH245
<1>4. CASE ReceiveH245
  <2>1. PICK c \in BeforeH245, m \in PeerH245, ok \in BOOLEAN :
          call' \in HandleH245Outcomes(c, m, ok)
    BY <1>4 DEF ReceiveH245, SendOutcomes
  <2> QED BY <1>1, <2>1, HandleH245Timed
<1> QED BY <1>2, <1>3, <1>4 DEF ReceivesH245

\* What is in the H.245 queue of a good call is an H.245 message.
LEMMA QueueHead ==
  ASSUME NEW c, Good(c) PROVE c.h245Out = <<>> \/ Head(c.h245Out) # "ReleaseComplete"
<1>1. c.h245Out \in Seq(H245Kinds) BY DEF Good, Call
<1>2. c.h245Out # <<>> => Head(c.h245Out) \in H245Kinds BY <1>1
<1> QED BY <1>2 DEF H245Kinds

\* Our ReleaseComplete may leave a cleared call that has settled.
LEMMA SendsSound ==
  ASSUME NEW traits, Sound(call, traits), Sends, Good(call),
         "ending" \in traits /\ call.callState = "CLEARED" /\ ReleaseQueued(call)
           /\ call.h225 = "open" => call.session \in {"IDLE", "CLOSED"} \/ call.listener
  PROVE  Sound(call', traits)
<1>1. CASE SendH245
  <2>1. PICK ok \in BOOLEAN : call' = SendMsgH245(call, ok)
    BY <1>1 DEF SendH245, SendOutcomes
  <2> QED BY <2>1, QueueHead, SendMsgH245Timed
<1>2. CASE AcceptH245 BY <1>2, H245ConnectedTimed DEF AcceptH245, AcceptH245Connection
<1>3. CASE SendQ931
  <2>1. PICK ok \in BOOLEAN, ok245 \in BOOLEAN :
          call' = LET sent == SendMsgQ931(call, ok)
                  IN IF sent.tunneling /\ sent.h245Out # <<>>
                     THEN SendMsgH245(sent, ok245) ELSE sent
    BY <1>3 DEF SendQ931, SendOutcomes
  <2> DEFINE s == SendMsgQ931(call, ok)
  <2>2. call.h225 = "open" /\ call.gone = "no" BY <1>3 DEF SendQ931, Takes, Alive
  <2>3. Sound(s, traits) BY <2>2, SendMsgQ931Timed
  <2>4. Good(s) BY <2>2, SendMsgQ931Keeps
  <2>5. call' \in {s, SendMsgH245(s, ok245)} BY <2>1
  <2> HIDE DEF s
  <2> QED BY <2>3, <2>4, <2>5, QueueHead, SendMsgH245Timed
<1>4. CASE \E p \in Ports : Vanished(p) BY <1>4 DEF Vanished
<1> QED BY <1>1, <1>2, <1>3, <1>4 DEF Sends

\* The end of the pass, unless it cleans the call.
LEMMA EndPassSound ==
  ASSUME NEW traits, Sound(call, traits), EndPass, call.callState # "CLEARED"
  PROVE  Sound(call', traits)
BY EndCallTimed DEF EndPass, SendOutcomes

\* The start of a pass.
LEMMA SelectSound ==
  ASSUME NEW traits, Sound(call, traits), Select PROVE Sound(call', traits)
BY DEF Select, Sound, Timed, Watched

\* A call starts idle, without a timer, connection of H.245 or listener.
LEMMA InitSound == Init => Sound(call, {"unpaused", "unreleased"})
<1> DEFINE Blank(c) == Sound(c, {"unpaused", "unreleased"})
<1>1. ASSUME NEW type, NEW t PROVE Blank(NewCall(type, t))
  BY DEF NewCall, Sound, Timed, TimerKinds
<1>2. Blank(IncomingCall) BY <1>1 DEF IncomingCall
<1>3. Blank(MarkClear(IncomingCall)) BY <1>2, MarkClearTimed
<1>4. ASSUME NEW t, call \in OutgoingCalls(t) PROVE Blank(call)
  <2> DEFINE n == NewCall("outgoing", t)
             u == [n EXCEPT !.h225 = "none"]
  <2>1. Blank(n) BY <1>1
  <2>2. PICK connected \in BOOLEAN : call \in PlaceCallOutcomes(u, connected)
    BY <1>4 DEF OutgoingCalls
  <2> HIDE DEF n
  <2>3. Blank(u) BY <2>1 DEF Sound, Timed
  <2> HIDE DEF u
  <2> QED BY <2>2, <2>3, PlaceCallTimed
<1> HIDE DEF Blank
<1>5. Init => Blank(call) BY <1>2, <1>3, <1>4 DEF Init
<1> QED BY <1>5 DEF Blank

-----------------------------------------------------------------------------
(* In the list a call is timed, out of it it is clean.                        *)

Clean(c) ==
  /\ c.gone # "no" /\ c.h225 # "open" /\ c.h245 # "open" /\ ~c.listener
  /\ \A k \in TimerKinds : c.timers[k] = 0

SInv == IInv /\ (Timed(call) \/ Clean(call))

\* Nothing but the call in the list makes a step.
LEMMA StepAlive ==
  ASSUME Step PROVE Alive
BY ZenonT(30) DEF Step, Pass, Select, Command, FireTimer, ReceivesQ931, ReceiveH225Closed,
       ReceiveBadQ931, ReceiveSetup, ReceiveProgress, ReceiveConnect,
       ReceiveReleaseComplete, ReceiveTunneled, ReceiveStartH245, ReceiveForward,
       Q931Receive, ReceivesH245, ReceiveH245Closed, ReceiveBadH245, ReceiveH245,
       H245Receive, Sends, SendH245, AcceptH245, SendQ931, Vanished, Takes, EndPass,
       PeerClosesH245, PeerClosesH225

\* The end of the pass cleans a cleared call.
LEMMA EndPassClean ==
  ASSUME Timed(call), EndPass, call.callState = "CLEARED" PROVE Clean(call')
<1>1. call.callState \in Clearing BY DEF Clearing
<1>2. PICK ok \in BOOLEAN : call' = EndCall(call, ok) BY <1>1 DEF EndPass, SendOutcomes
<1>3. call' = CleanCall(call) BY <1>2 DEF EndCall
<1> QED BY <1>3, CleanCallClean DEF Clean

\* The invariant holds at first ...
LEMMA InitSInv == Init => SInv
<1>1. Init => Timed(call) BY InitSound DEF Sound
<1> QED BY <1>1, InitIInv DEF SInv

\* ... and is inductive.
LEMMA SInvNext == SInv /\ [Step]_vars => SInv'
<1> SUFFICES ASSUME SInv, [Step]_vars PROVE (Timed(call) \/ Clean(call))'
  BY IInvNext DEF SInv
<1>1. CASE UNCHANGED call BY <1>1 DEF SInv, Timed, Clean
<1>2. CASE Step /\ ~UNCHANGED call
  <2>1. Timed(call) /\ Good(call) BY <1>2, StepAlive DEF Alive, SInv, Clean, IInv
  <2>2. Sound(call, {}) BY <2>1 DEF Sound
  <2>3. ASSUME Sound(call', {}) PROVE Timed(call)' BY <2>3 DEF Sound
  <2>4. CASE EndPass /\ call.callState = "CLEARED" BY <2>1, <2>4, EndPassClean
  <2>5. CASE ~(EndPass /\ call.callState = "CLEARED")
    <3>1. Pass BY <1>2 DEF Step, PeerClosesH245, PeerClosesH225
    <3>2. Sound(call', {})
      BY <2>1, <2>2, <2>5, <3>1, SelectSound, CommandSound, FireTimerSound,
         ReceivesQ931Sound, ReceivesH245Sound, SendsSound, EndPassSound
      DEF Pass
    <3> QED BY <2>3, <3>2
  <2> QED BY <2>4, <2>5
<1>3. UNCHANGED vars => UNCHANGED call BY DEF vars
<1> QED BY <1>1, <1>2, <1>3

\* Nothing leaves a session that waits for the peer's EndSession without the
\* timer that watches it, pauses included.
THEOREM EndSentIsTimedHolds == Spec => []EndSentIsTimed
<1>1. SInv => EndSentIsTimed BY DEF SInv, Timed, Clean, EndSentIsTimed
<1> QED BY <1>1, InitSInv, SInvNext, PTL DEF Spec

\* Whenever and however a call leaves the list, its connections, listener and
\* timers have gone.
THEOREM GoneIsCleanHolds == Spec => []GoneIsClean
<1>1. SInv => GoneIsClean BY DEF SInv, Timed, Clean, GoneIsClean
<1> QED BY <1>1, InitSInv, SInvNext, PTL DEF Spec

-----------------------------------------------------------------------------
(* After the peer's ReleaseComplete, of a call that it never paused.          *)

\* A ReleaseComplete that waits for a cleared call waits for the end of the
\* pass in which the peer's came, and meanwhile only a listener makes a session.
Waiting == call.rcRecvd /\ call.callState = "CLEARED" /\ ReleaseQueued(call)
             /\ call.h225 = "open"

Settled ==
  Waiting =>
    /\ pc = "io" /\ "q931In" \notin ready
    /\ call.session \in {"IDLE", "CLOSED"} \/ call.listener

Ended ==
  /\ Sound(call, {"unpaused"})
  /\ call.rcRecvd => Sound(call, {"unpaused", "ending"})

RInv == LInv /\ (call.gone = "no" => Ended /\ Settled)

\* What RInv says of a call in the list, ready for use.
LEMMA RInvAlive ==
  ASSUME RInv, Alive
  PROVE  /\ LInv /\ IInv /\ Good(call) /\ Timed(call) /\ Ended /\ Settled
         /\ call.session # "PAUSED"
BY DEF RInv, LInv, IInv, Ends, Ended, Sound, Alive

\* A pass that neither receives a ReleaseComplete nor cleans the call.
Quiet == Pass /\ ~ReceiveReleaseComplete /\ ~(EndPass /\ call.callState = "CLEARED")

\* Such a pass preserves every trait.
LEMMA QuietSound ==
  ASSUME RInv, Quiet, NEW traits, Sound(call, traits), "ending" \in traits => call.rcRecvd
  PROVE  Sound(call', traits)
<1>1. Alive BY StepAlive DEF Quiet, Step
<1>2. Good(call) /\ Settled /\ call.session # "PAUSED" BY <1>1, RInvAlive
<1>3. "ending" \in traits /\ call.callState = "CLEARED" /\ ReleaseQueued(call)
        /\ call.h225 = "open" => call.session \in {"IDLE", "CLOSED"} \/ call.listener
  BY <1>2 DEF Settled, Waiting
<1> QED
  BY <1>2, <1>3, SelectSound, CommandSound, FireTimerSound, ReceivesQ931Sound,
     ReceivesH245Sound, SendsSound, EndPassSound
  DEF Quiet, Pass

\* It neither loses the end of a released call nor releases one.
LEMMA QuietEnded == ASSUME RInv, Quiet PROVE Ended' /\ (call'.rcRecvd => call.rcRecvd)
<1>1. Alive BY StepAlive DEF Quiet, Step
<1>2. Ended BY <1>1, RInvAlive
<1>3. Sound(call', {"unpaused"}) BY <1>2, QuietSound DEF Ended
<1>4. CASE call.rcRecvd
  <2>1. Sound(call', {"unpaused", "ending"}) BY <1>2, <1>4, QuietSound DEF Ended
  <2> QED BY <1>3, <1>4, <2>1 DEF Ended
<1>5. CASE ~call.rcRecvd
  <2>1. Sound(call, {"unreleased"}) BY <1>2, <1>5 DEF Ended, Sound
  <2>2. Sound(call', {"unreleased"}) BY <2>1, QuietSound
  <2>3. ~call'.rcRecvd BY <2>2 DEF Sound
  <2> QED BY <1>3, <2>3 DEF Ended
<1> QED BY <1>4, <1>5

\* Of a released call that waits or will wait, only a cleared one is meant.
LEMMA ReleaseWaits ==
  ASSUME RInv, Alive, call.rcRecvd, ReleaseQueued(call), call.h225 = "open" PROVE Waiting
<1>1. Good(call) /\ Ended BY RInvAlive
<1>2. call.rcSent = 0 BY <1>1 DEF Good, ReleaseOK
<1>3. call.callState # "CLEAR_RELEASESENT" BY <1>1, <1>2 DEF Ended, Sound, Timed
<1> QED BY <1>1, <1>3 DEF Ended, Sound, Watched, Waiting

\* A ReleaseComplete that reaches the head of the queue leaves it when its turn
\* comes, sent or not.
LEMMA ReleaseLeaves ==
  ASSUME NEW c, Good(c), NEW ok \in BOOLEAN, ReleaseQueued(c)
  PROVE  ~ReleaseQueued(SendMsgQ931(c, ok))
<1> DEFINE rest == [c EXCEPT !.q931Out = Tail(@)]
<1>1. c \in Call /\ c.q931Out \in Seq(Q931Kinds) /\ c.q931Out # <<>>
  BY DEF Good, Call, ReleaseQueued
<1>2. Head(c.q931Out) = "ReleaseComplete" BY <1>1 DEF ReleaseQueued
<1>3. Tail(c.q931Out) # <<>> => Tail(c.q931Out)[1] # "ReleaseComplete"
  BY <1>1 DEF Good, ReleaseOK
<1>4. /\ rest.q931Out = Tail(c.q931Out)
      /\ {"q931Out", "rcSent", "callState", "timers"} \subseteq DOMAIN rest
  BY <1>1 DEF Call
<1>5. SendMsgQ931(c, ok) = IF ok THEN OnSentReleaseComplete(rest) ELSE MarkClear(rest)
  BY <1>1, <1>2 DEF SendMsgQ931, MaySend, OnSendMsg
<1> HIDE DEF rest
<1>6. OnSentReleaseComplete(rest).q931Out = rest.q931Out
  BY <1>4 DEF OnSentReleaseComplete, ArmTimer
<1>7. MarkClear(rest).q931Out = rest.q931Out BY <1>4 DEF MarkClear
<1> QED BY <1>3, <1>4, <1>5, <1>6, <1>7 DEF ReleaseQueued

\* After a Q.931 message is sent, no ReleaseComplete is left in the queue.
LEMMA SendQ931Leaves == ASSUME RInv, SendQ931 PROVE ~ReleaseQueued(call')
<1>1. /\ Good(call) /\ call.gone = "no"
  BY RInvAlive DEF SendQ931, Takes, Alive
<1>2. PICK ok \in BOOLEAN, ok245 \in BOOLEAN :
        call' = LET sent == SendMsgQ931(call, ok)
                IN IF sent.tunneling /\ sent.h245Out # <<>>
                   THEN SendMsgH245(sent, ok245) ELSE sent
  BY DEF SendQ931, SendOutcomes
<1> DEFINE s == SendMsgQ931(call, ok)
<1>3. Good(s) /\ (ReleaseQueued(s) => ReleaseQueued(call))
  BY <1>1, SendMsgQ931Keeps DEF Frame
<1>4. ~ReleaseQueued(s) BY <1>1, <1>3, ReleaseLeaves
<1>5. call' \in {s, SendMsgH245(s, ok245)} BY <1>2
<1> HIDE DEF s
<1>6. ReleaseQueued(SendMsgH245(s, ok245)) => ReleaseQueued(s)
  BY <1>3, SendMsgH245Keeps DEF Keeps, Steady, Frame
<1> QED BY <1>4, <1>5, <1>6

\* Who comes to wait was waiting: no other step makes a call wait.
LEMMA QuietWaits ==
  ASSUME NoPause, RInv, Quiet, Waiting' PROVE Waiting
<1>1. Alive BY StepAlive DEF Quiet, Step
<1>2. LInv /\ Good(call) /\ Timed(call) /\ Ended BY <1>1, RInvAlive
<1>3. call.rcRecvd BY QuietEnded DEF Waiting
<1>4. SUFFICES ReleaseQueued(call) /\ call.h225 = "open" BY <1>1, <1>3, ReleaseWaits
<1>5. /\ call'.rcRecvd /\ call'.callState = "CLEARED" /\ ReleaseQueued(call')
      /\ call'.h225 = "open"
  BY DEF Waiting, ReleaseQueued
<1>6. ASSUME Lives(call, call') PROVE ReleaseQueued(call) /\ call.h225 = "open"
  BY <1>5, <1>6 DEF Lives
<1>7. CASE Select BY <1>2, <1>5, <1>7 DEF Select, ReleaseQueued, Good, Call
<1>8. CASE Command \/ \E k \in TimerKinds : FireTimer(k)
  BY <1>2, <1>6, <1>8, CommandLives, FireTimerLives
<1>9. CASE ReceiveH225Closed
  <2> DEFINE d == CloseH225Connection(call)
  <2>1. call' = [d EXCEPT !.callState = "CLEARED"] BY <1>9 DEF ReceiveH225Closed
  <2>2. d.h225 = "none" /\ Fields \subseteq DOMAIN d
    BY <1>2 DEF CloseH225Connection, Timed
  <2> HIDE DEF d
  <2> QED BY <1>5, <2>1, <2>2
<1>10. CASE ReceivesQ931 /\ ~ReceiveH225Closed BY <1>2, <1>6, <1>10, ReceivesQ931Lives
<1>11. CASE ReceivesH245 BY <1>2, <1>6, <1>11, ReceivesH245Lives
<1>12. CASE SendQ931 BY <1>5, <1>12, SendQ931Leaves
<1>13. CASE Sends /\ ~SendQ931 BY <1>2, <1>6, <1>13, SendsLives
<1>14. CASE EndPass
  <2>1. call.callState = "CLEAR_RELEASESENT"
    BY <1>2, <1>3, <1>14 DEF Quiet, Ended, Sound, Watched
  <2>2. call.callState \in Clearing /\ call.rcSent > 0
    BY <1>2, <2>1 DEF Clearing, Timed
  <2>3. PICK ok \in BOOLEAN : call' = EndCall(call, ok)
    BY <1>14, <2>2 DEF EndPass, SendOutcomes
  <2>4. call.gone = "no" BY <1>1 DEF Alive
  <2>5. Good(call') /\ call'.rcSent = call.rcSent BY <1>2, <2>2, <2>3, <2>4, EndCallGood
  <2>6. ~ReleaseQueued(call') BY <1>2, <2>2, <2>5 DEF Good, Call, ReleaseOK
  <2> QED BY <1>5, <2>6
<1> QED
  BY <1>7, <1>8, <1>9, <1>10, <1>11, <1>12, <1>13, <1>14 DEF Quiet, Pass

\* While it waits, a session can only come from a listener.
LEMMA QuietSettled ==
  ASSUME NoPause, RInv, Quiet PROVE Settled'
<1> SUFFICES ASSUME Waiting'
             PROVE  /\ pc' = "io" /\ "q931In" \notin ready'
                    /\ call'.session \in {"IDLE", "CLOSED"} \/ call'.listener
  BY DEF Settled
<1>1. Alive BY StepAlive DEF Quiet, Step
<1>2. Waiting /\ Ended /\ Timed(call) BY <1>1, QuietWaits, RInvAlive
<1>3. /\ pc = "io" /\ "q931In" \notin ready
      /\ call.session \in {"IDLE", "CLOSED"} \/ call.listener
  BY <1>1, <1>2, RInvAlive DEF Settled
<1>4. ~Select /\ ~Command /\ \A k \in TimerKinds : ~FireTimer(k)
  BY <1>3 DEF Select, Command, FireTimer
<1>5. ~ReceivesQ931
  BY <1>3
  DEF ReceivesQ931, ReceiveH225Closed, ReceiveBadQ931, ReceiveSetup, ReceiveProgress,
      ReceiveConnect, ReceiveReleaseComplete, ReceiveTunneled, ReceiveStartH245,
      ReceiveForward, Q931Receive, Takes
<1>6. ReceivesH245 \/ Sends BY <1>2, <1>4, <1>5 DEF Quiet, Pass, Waiting
<1>7. pc' = "io" /\ "q931In" \notin ready'
  BY <1>3, <1>6
  DEF ReceivesH245, ReceiveH245Closed, ReceiveBadH245, ReceiveH245, H245Receive,
      Sends, SendH245, AcceptH245, SendQ931, Vanished, Takes
<1>8. CASE call.listener
  <2>1. Sound(call, {"listening"}) BY <1>2, <1>8 DEF Ended, Sound
  <2>2. Sound(call', {"listening"}) BY <2>1, QuietSound
  <2> QED BY <1>7, <2>2 DEF Sound
<1>9. CASE ~call.listener
  <2>1. call.session \in {"IDLE", "CLOSED"} /\ call.h245 # "open"
    BY <1>2, <1>3, <1>9 DEF Ended, Sound, Timed
  <2>2. ~SendQ931 BY SendQ931Leaves DEF Waiting, ReleaseQueued
  <2>3. UNCHANGED call
    BY <1>6, <1>9, <2>1, <2>2
    DEF ReceivesH245, ReceiveH245Closed, ReceiveBadH245, ReceiveH245, H245Receive,
        Sends, SendH245, AcceptH245, Vanished
  <2> QED BY <1>7, <2>1, <2>3
<1> QED BY <1>8, <1>9

\* The peer's ReleaseComplete settles the session of the call that it clears.
LEMMA ReceiveReleaseCompleteEnds ==
  ASSUME RInv, ReceiveReleaseComplete PROVE Ended' /\ Settled'
<1>1. Alive /\ pc' = "io" /\ "q931In" \notin ready'
  BY DEF ReceiveReleaseComplete, Q931Receive, Takes
<1>2. Sound(call, {"unpaused"}) BY <1>1, RInvAlive DEF Ended
<1>3. /\ Sound(call', {"unpaused"}) /\ call'.callState = "CLEARED"
      /\ call'.session \in {"IDLE", "CLOSED"}
  BY <1>2, OnReleaseCompleteTimed DEF ReceiveReleaseComplete
<1>4. Sound(call', {"unpaused", "ending"}) BY <1>3 DEF Sound
<1> QED BY <1>1, <1>3, <1>4 DEF Ended, Settled

\* The invariant holds at first ...
LEMMA InitRInv == Init => RInv
<1> SUFFICES ASSUME Init PROVE RInv OBVIOUS
<1>1. Sound(call, {"unpaused"}) /\ ~call.rcRecvd BY InitSound DEF Sound
<1> QED BY <1>1, InitLInv DEF RInv, Ended, Settled, Waiting

\* ... and is inductive.
LEMMA RInvNext == ASSUME NoPause PROVE RInv /\ [Step]_vars => RInv'
<1> SUFFICES ASSUME RInv, [Step]_vars PROVE call'.gone = "no" => Ended' /\ Settled'
  BY LInvNext DEF RInv
<1>1. CASE Quiet BY <1>1, QuietEnded, QuietSettled
<1>2. CASE ReceiveReleaseComplete BY <1>2, ReceiveReleaseCompleteEnds
<1>3. CASE EndPass /\ call.callState = "CLEARED"
  <2>1. Timed(call) BY <1>3, RInvAlive DEF EndPass
  <2> QED BY <1>3, <2>1, EndPassClean DEF Clean
<1>4. CASE PeerClosesH245 \/ PeerClosesH225 \/ UNCHANGED vars
  <2>1. UNCHANGED <<call, pc, ready>> BY <1>4 DEF PeerClosesH245, PeerClosesH225, vars
  <2>2. Ended => Ended' BY <2>1 DEF Ended, Sound, Timed, Watched
  <2>3. Settled => Settled' BY <2>1 DEF Settled, Waiting, ReleaseQueued
  <2> QED BY <2>1, <2>2, <2>3 DEF RInv
<1> QED BY <1>1, <1>2, <1>3, <1>4 DEF Step, Quiet

\* A call whose peer sent a ReleaseComplete is cleared, or a session timer will
\* clear it, whatever else is queued, received or timed out in the same pass.
THEOREM PeerReleaseEndsHolds ==
  ASSUME NoPause PROVE Spec => []PeerReleaseEnds
<1>1. RInv => PeerReleaseEnds
  BY DEF RInv, LInv, IInv, Good, Call, Ended, Sound, Timed, Watched, PeerReleaseEnds,
         TimerKinds
<1> QED BY <1>1, InitRInv, RInvNext, PTL DEF Spec
=============================================================================
