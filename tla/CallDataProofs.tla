--------------------------- MODULE CallDataProofs ---------------------------
(* What the stack functions of CallData preserve.  Good is the part of the    *)
(* invariant that speaks of the call record alone; Frame, Steady and Keeps    *)
(* say, from weak to strong, what a function leaves as it found it.           *)
EXTENDS CallData, TLAPS

ReleaseQueued(c) == c.q931Out # <<>> /\ c.q931Out[1] = "ReleaseComplete"

\* Neither has nor expects a separate H.245 connection.
NoSocket(c) ==
  c.h245 # "open" /\ ~c.listener /\ ~c.h245Port /\ c.timers["H245CONNECT"] = 0

\* While it tunnels it has none, but for what a Setup met that turned tunneling on;
\* a connection is tried only where an address says, and only a channel has a queue.
TunnelOK(c) ==
  /\ c.tunneling /\ ~c.retunneled => NoSocket(c) /\ c.h245Out = <<>>
  /\ c.h245Port \/ c.timers["H245CONNECT"] = 0
  /\ c.h245 = "none" => c.h245Out = <<>>

\* It may have a separate H.245 connection.
Apart(c) == ~c.tunneling \/ c.retunneled

\* A ReleaseComplete is first in its queue, and is queued or sent only once.
ReleaseOK(c) ==
  /\ \A i \in 2..Len(c.q931Out) : c.q931Out[i] # "ReleaseComplete"
  /\ c.rcSent <= 1
  /\ ReleaseQueued(c) => c.rcSent = 0
  /\ c.gone = "no" /\ ~c.relBuilt => c.rcSent = 0 /\ ~ReleaseQueued(c)

Good(c) == c \in Call /\ TunnelOK(c) /\ ReleaseOK(c)

\* No send on a freed channel: there is one, or nothing is tunneled over it.
Sendable(c) == c.h225 # "none" \/ Apart(c)

\* Only a Setup that turned tunneling on beside an H.245 socket excuses one.
Excused(c) == c.crashed => c.retunneled

Frame(c, d) ==
  /\ d.callType = c.callType /\ d.setup = c.setup /\ d.gone = c.gone
  /\ d.h225 = c.h225 /\ d.relBuilt = c.relBuilt
  /\ d.tunneling => c.tunneling
  /\ d.retunneled = c.retunneled
  /\ ReleaseQueued(d) => ReleaseQueued(c)
  /\ Sendable(c) /\ Excused(c) => Excused(d)

Steady(c, d) ==
  /\ Frame(c, d)
  /\ d.rcSent = c.rcSent
  /\ c.callState \in Clearing => d.callState \in Clearing
  /\ c.callState = "CLEARED" => d.callState = "CLEARED"
  /\ c.session # "PAUSED" => d.session # "PAUSED"

Keeps(c, d) ==
  /\ Steady(c, d)
  /\ d.tunneling = c.tunneling
  /\ NoSocket(c) => NoSocket(d)

\* What two functions leave alone in turn, their composition leaves alone.
LEMMA FrameTransitive ==
  ASSUME NEW c, NEW d, NEW e, Frame(c, d), Frame(d, e) PROVE Frame(c, e)
BY DEF Frame, Sendable, Apart

\* The same for Steady ...
LEMMA SteadyTransitive ==
  ASSUME NEW c, NEW d, NEW e, Steady(c, d), Steady(d, e) PROVE Steady(c, e)
BY FrameTransitive DEF Steady

\* ... and for Keeps.
LEMMA KeepsTransitive ==
  ASSUME NEW c, NEW d, NEW e, Keeps(c, d), Keeps(d, e) PROVE Keeps(c, e)
BY SteadyTransitive DEF Keeps

\* A handler that returns early keeps the call.
LEMMA KeepsReflexive == \A c : Keeps(c, c)
BY DEF Keeps, Steady, Frame

\* The fields that Good and the relations read.
Same(c, d) ==
  /\ d.callType = c.callType /\ d.setup = c.setup /\ d.gone = c.gone
  /\ d.h225 = c.h225 /\ d.relBuilt = c.relBuilt /\ d.rcSent = c.rcSent
  /\ d.tunneling = c.tunneling /\ d.retunneled = c.retunneled /\ d.crashed = c.crashed
  /\ d.q931Out = c.q931Out /\ d.h245Out = c.h245Out
  /\ d.h245 = c.h245 /\ d.listener = c.listener /\ d.h245Port = c.h245Port
  /\ d.timers = c.timers

\* A function that assigns none of these fields preserves Good and keeps the call.
LEMMA SameKeeps ==
  ASSUME NEW c, NEW d \in Call, Good(c), Same(c, d),
         c.callState \in Clearing => d.callState \in Clearing,
         c.callState = "CLEARED" => d.callState = "CLEARED",
         c.session # "PAUSED" => d.session # "PAUSED"
  PROVE  Good(d) /\ Keeps(c, d)
BY DEF Good, Same, Keeps, Steady, Frame, Sendable, Apart, Excused, TunnelOK, ReleaseOK,
       ReleaseQueued, NoSocket

-----------------------------------------------------------------------------
\* The test callState < OO_CALL_CLEAR never takes a call back.
LEMMA MarkClearKeeps ==
  ASSUME NEW c, Good(c)
  PROVE  Good(MarkClear(c)) /\ Keeps(c, MarkClear(c))
<1>1. "CLEAR" \in CallStates /\ "CLEAR" \in Clearing BY DEF CallStates, Clearing
<1>2. [c EXCEPT !.callState = "CLEAR"] \in Call
  BY <1>1, ZenonT(30) DEF Good, Call
<1>3. MarkClear(c) \in Call BY <1>2 DEF MarkClear, Good
<1>4. Same(c, MarkClear(c)) /\ MarkClear(c).session = c.session
  BY DEF Good, Call, MarkClear, Same
<1>5. MarkClear(c).callState \in Clearing
  BY <1>1 DEF Good, Call, MarkClear
<1>6. c.callState = "CLEARED" => MarkClear(c) = c BY DEF MarkClear, Clearing
<1> QED BY <1>3, <1>4, <1>5, <1>6, SameKeeps DEF Good

\* Arming any timer but the one that retries the H.245 connection.
LEMMA ArmTimerKeeps ==
  ASSUME NEW c, Good(c), NEW k \in TimerKinds \ {"H245CONNECT"}
  PROVE  Good(ArmTimer(c, k)) /\ Keeps(c, ArmTimer(c, k))
<1>1. [c.timers EXCEPT ![k] = @ + 1] \in [TimerKinds -> Nat] BY DEF Good, Call
<1>2. ArmTimer(c, k) \in Call BY <1>1, ZenonT(30) DEF ArmTimer, Good, Call
<1>3. ArmTimer(c, k).timers["H245CONNECT"] = c.timers["H245CONNECT"]
  BY DEF ArmTimer, Good, Call, TimerKinds
<1>4. TunnelOK(ArmTimer(c, k))
  BY <1>3 DEF ArmTimer, Good, Call, TunnelOK, NoSocket
<1>5. ReleaseOK(ArmTimer(c, k))
  BY DEF ArmTimer, Good, Call, ReleaseOK, ReleaseQueued
<1>6. Keeps(c, ArmTimer(c, k))
  BY <1>3 DEF ArmTimer, Good, Call, Keeps, Steady, Frame, Sendable, Apart, Excused,
              ReleaseQueued, NoSocket
<1> QED BY <1>2, <1>4, <1>5, <1>6 DEF Good

\* Deleting a timer, armed or not.
LEMMA DeleteTimerKeeps ==
  ASSUME NEW c, Good(c), NEW k \in TimerKinds
  PROVE  Good(DeleteTimer(c, k)) /\ Keeps(c, DeleteTimer(c, k))
<1> DEFINE n == IF c.timers[k] = 0 THEN 0 ELSE c.timers[k] - 1
           t == [c.timers EXCEPT ![k] = n]
<1>1. c \in Call /\ c.timers \in [TimerKinds -> Nat] BY DEF Good, Call
<1>2. t \in [TimerKinds -> Nat] BY <1>1
<1>3. DeleteTimer(c, k) = [c EXCEPT !.timers = t] BY <1>1, Zenon DEF DeleteTimer, Call
<1>4. t["H245CONNECT"] \in {0, c.timers["H245CONNECT"], c.timers["H245CONNECT"] - 1}
  BY <1>1 DEF TimerKinds
<1>5. c.timers["H245CONNECT"] = 0 => t["H245CONNECT"] = 0 BY <1>1 DEF TimerKinds
<1> HIDE DEF t
<1>6. [c EXCEPT !.timers = t] \in Call BY <1>1, <1>2, ZenonT(30) DEF Call
<1>7. TunnelOK([c EXCEPT !.timers = t])
  BY <1>5 DEF Good, Call, TunnelOK, NoSocket
<1>8. ReleaseOK([c EXCEPT !.timers = t])
  BY DEF Good, Call, ReleaseOK, ReleaseQueued
<1>9. Keeps(c, [c EXCEPT !.timers = t])
  BY <1>5 DEF Good, Call, Keeps, Steady, Frame, Sendable, Apart, Excused, ReleaseQueued, NoSocket
<1> QED BY <1>3, <1>6, <1>7, <1>8, <1>9 DEF Good

\* Queueing on the signalling channel, also the flush for a tunneled EndSession.
LEMMA SendH225MsgKeeps ==
  ASSUME NEW c, Good(c), NEW m \in Q931Kinds \ {"ReleaseComplete"},
         c.h225 # "none" \/ c.tunneling
  PROVE  Good(SendH225Msg(c, m)) /\ Keeps(c, SendH225Msg(c, m))
<1>1. c \in Call /\ c.q931Out \in Seq(Q931Kinds) BY DEF Good, Call
<1>2. CASE c.h225 = "none"
  <2>1. [c EXCEPT !.crashed = TRUE] \in Call BY <1>1, ZenonT(30) DEF Call
  <2>2. Keeps(c, [c EXCEPT !.crashed = TRUE])
    BY <1>1, <1>2 DEF Call, Keeps, Steady, Frame, Sendable, Apart, Excused, ReleaseQueued, NoSocket
  <2>3. TunnelOK([c EXCEPT !.crashed = TRUE])
    BY DEF Good, Call, TunnelOK, NoSocket
  <2>4. ReleaseOK([c EXCEPT !.crashed = TRUE])
    BY DEF Good, Call, ReleaseOK, ReleaseQueued
  <2> QED BY <1>2, <2>1, <2>2, <2>3, <2>4 DEF SendH225Msg, Good
<1>3. CASE c.h225 # "none"
  <2> DEFINE q == IF m = "EndSession" THEN <<m>> ELSE Append(c.q931Out, m)
  <2>1. q \in Seq(Q931Kinds) BY <1>1
  <2>2. \A i \in 2..Len(q) : q[i] # "ReleaseComplete"
    BY <1>1 DEF Good, ReleaseOK
  <2>3. q # <<>> /\ q[1] = "ReleaseComplete" => ReleaseQueued(c)
    BY <1>1 DEF ReleaseQueued
  <2>4. SendH225Msg(c, m) = [c EXCEPT !.q931Out = q]
    BY <1>1, <1>3 DEF SendH225Msg
  <2> HIDE DEF q
  <2>5. [c EXCEPT !.q931Out = q] \in Call BY <1>1, <2>1, ZenonT(30) DEF Call
  <2>6. TunnelOK([c EXCEPT !.q931Out = q])
    BY DEF Good, Call, TunnelOK, NoSocket
  <2>7. ReleaseOK([c EXCEPT !.q931Out = q])
    BY <2>2, <2>3 DEF Good, Call, ReleaseOK, ReleaseQueued
  <2>8. Keeps(c, [c EXCEPT !.q931Out = q])
    BY <2>3 DEF Good, Call, Keeps, Steady, Frame, Sendable, Apart, Excused, ReleaseQueued, NoSocket
  <2> QED BY <2>4, <2>5, <2>6, <2>7, <2>8 DEF Good
<1> QED BY <1>2, <1>3

\* ooCloseH245Connection leaves the session closed.
LEMMA CloseH245ConnectionKeeps ==
  ASSUME NEW c, Good(c)
  PROVE  /\ Good(CloseH245Connection(c)) /\ Keeps(c, CloseH245Connection(c))
         /\ CloseH245Connection(c).session = "CLOSED"
<1>1. CloseH245Connection(c) \in Call
  <2>1. "CLOSED" \in SessionStates BY DEF SessionStates
  <2>2. <<>> \in Seq(H245Kinds) OBVIOUS
  <2>3. "none" \in {"none", "nosock", "open"} OBVIOUS
  <2> QED BY <2>1, <2>2, <2>3, ZenonT(30) DEF CloseH245Connection, Call, Good
<1>2. Keeps(c, CloseH245Connection(c))
  BY DEF CloseH245Connection, Good, Call, Keeps, Steady, Frame, Sendable, Apart, Excused,
         ReleaseQueued, NoSocket
<1>3. TunnelOK(CloseH245Connection(c))
  BY DEF CloseH245Connection, Good, Call, TunnelOK, NoSocket
<1>4. ReleaseOK(CloseH245Connection(c))
  BY DEF CloseH245Connection, Good, Call, ReleaseOK, ReleaseQueued
<1>5. CloseH245Connection(c).session = "CLOSED"
  BY DEF CloseH245Connection, Good, Call
<1> QED BY <1>1, <1>2, <1>3, <1>4, <1>5 DEF Good

\* Allocating the H.245 channel gives it no socket.
LEMMA WithH245ChannelKeeps ==
  ASSUME NEW c, Good(c)
  PROVE  /\ Good(WithH245Channel(c)) /\ Keeps(c, WithH245Channel(c))
         /\ WithH245Channel(c).h245 # "none"
<1> DEFINE v == IF c.h245 = "none" THEN "nosock" ELSE c.h245
<1>1. v \in {"nosock", "open"} /\ (v = "open" <=> c.h245 = "open")
  BY DEF Good, Call
<1>7. v \in {"none", "nosock", "open"} BY <1>1
<1>2. WithH245Channel(c) = [c EXCEPT !.h245 = v] BY DEF WithH245Channel
<1> HIDE DEF v
<1>3. [c EXCEPT !.h245 = v] \in Call BY <1>7, ZenonT(30) DEF Good, Call
<1>4. Keeps(c, [c EXCEPT !.h245 = v])
  BY <1>1 DEF Good, Call, Keeps, Steady, Frame, Sendable, Apart, Excused, ReleaseQueued, NoSocket
<1>5. TunnelOK([c EXCEPT !.h245 = v])
  BY <1>1 DEF Good, Call, TunnelOK, NoSocket
<1>6. ReleaseOK([c EXCEPT !.h245 = v])
  BY DEF Good, Call, ReleaseOK, ReleaseQueued
<1>8. [c EXCEPT !.h245 = v].h245 # "none" BY <1>1 DEF Good, Call
<1> QED BY <1>2, <1>3, <1>4, <1>5, <1>6, <1>8 DEF Good

\* Queueing an H.245 message: tunneled in the Q.931 queue, else for the socket.
LEMMA QueueH245Keeps ==
  ASSUME NEW c, Good(c), NEW m \in H245Kinds
  PROVE  Good(QueueH245(c, m)) /\ Keeps(c, QueueH245(c, m))
<1> DEFINE d == WithH245Channel(c)
           q == Append(d.h245Out, m)
<1>1. Good(d) /\ Keeps(c, d) /\ d.h245 # "none" BY WithH245ChannelKeeps
<1>2. d.tunneling = c.tunneling BY <1>1 DEF Keeps
<1>3. CASE c.tunneling
  <2>1. m \in Q931Kinds \ {"ReleaseComplete"} BY DEF Q931Kinds, H245Kinds
  <2>2. Good(SendH225Msg(d, m)) /\ Keeps(d, SendH225Msg(d, m))
    BY <1>1, <1>2, <1>3, <2>1, SendH225MsgKeeps
  <2> QED BY <1>1, <1>3, <2>2, KeepsTransitive DEF QueueH245
<1>4. CASE ~c.tunneling
  <2>1. q \in Seq(H245Kinds) BY <1>1 DEF Good, Call
  <2>2. QueueH245(c, m) = [d EXCEPT !.h245Out = q] BY <1>4 DEF QueueH245
  <2> HIDE DEF q, d
  <2>3. [d EXCEPT !.h245Out = q] \in Call BY <1>1, <2>1, ZenonT(30) DEF Good, Call
  <2>4. Keeps(d, [d EXCEPT !.h245Out = q])
    BY <1>1 DEF Good, Call, Keeps, Steady, Frame, Sendable, Apart, Excused, ReleaseQueued, NoSocket
  <2>5. TunnelOK([d EXCEPT !.h245Out = q])
    BY <1>1, <1>2, <1>4 DEF Good, Call, TunnelOK, NoSocket
  <2>6. ReleaseOK([d EXCEPT !.h245Out = q])
    BY <1>1 DEF Good, Call, ReleaseOK, ReleaseQueued
  <2> QED BY <1>1, <2>2, <2>3, <2>4, <2>5, <2>6, KeepsTransitive DEF Good
<1>5. c.tunneling \in BOOLEAN BY DEF Good, Call
<1> QED BY <1>3, <1>4, <1>5
-----------------------------------------------------------------------------
\* Changes of a single field that Good does not read.
LEMMA SessionKeeps ==
  ASSUME NEW c, Good(c), NEW s \in SessionStates \ {"PAUSED"}
  PROVE  /\ Good([c EXCEPT !.session = s]) /\ Keeps(c, [c EXCEPT !.session = s])
         /\ [c EXCEPT !.session = s].session = s
<1>1. [c EXCEPT !.session = s] \in Call BY ZenonT(30) DEF Good, Call
<1>2. Same(c, [c EXCEPT !.session = s]) BY DEF Good, Call, Same
<1>3. /\ [c EXCEPT !.session = s].session = s
      /\ [c EXCEPT !.session = s].callState = c.callState
  BY DEF Good, Call
<1> QED BY <1>1, <1>2, <1>3, SameKeeps

\* Assignments to the state of capability exchange and master-slave determination.
LEMMA NegotiationKeeps ==
  ASSUME NEW c, Good(c), NEW l \in {"Idle", "SetSent", "AckRecvd"},
         NEW r \in {"Idle", "AckSent"}, NEW n \in Nat, NEW b \in BOOLEAN,
         NEW m \in {"Idle", "DetermineSent", "AckSent", "Master", "Slave"}
  PROVE  /\ Good([c EXCEPT !.localTCS = l]) /\ Keeps(c, [c EXCEPT !.localTCS = l])
         /\ Good([c EXCEPT !.remoteTCS = r]) /\ Keeps(c, [c EXCEPT !.remoteTCS = r])
         /\ Good([c EXCEPT !.msd = m]) /\ Keeps(c, [c EXCEPT !.msd = m])
         /\ Good([c EXCEPT !.msdRetries = n]) /\ Keeps(c, [c EXCEPT !.msdRetries = n])
         /\ Good([c EXCEPT !.chans = b]) /\ Keeps(c, [c EXCEPT !.chans = b])
         /\ Good([c EXCEPT !.endSent = b]) /\ Keeps(c, [c EXCEPT !.endSent = b])
         /\ Good([c EXCEPT !.endBuilt = b]) /\ Keeps(c, [c EXCEPT !.endBuilt = b])
<1>1. Good([c EXCEPT !.localTCS = l]) /\ Keeps(c, [c EXCEPT !.localTCS = l])
  <2>1. [c EXCEPT !.localTCS = l] \in Call BY ZenonT(30) DEF Good, Call
  <2>2. /\ Same(c, [c EXCEPT !.localTCS = l])
        /\ [c EXCEPT !.localTCS = l].session = c.session
        /\ [c EXCEPT !.localTCS = l].callState = c.callState
    BY DEF Good, Call, Same
  <2> QED BY <2>1, <2>2, SameKeeps
<1>2. Good([c EXCEPT !.remoteTCS = r]) /\ Keeps(c, [c EXCEPT !.remoteTCS = r])
  <2>1. [c EXCEPT !.remoteTCS = r] \in Call BY ZenonT(30) DEF Good, Call
  <2>2. /\ Same(c, [c EXCEPT !.remoteTCS = r])
        /\ [c EXCEPT !.remoteTCS = r].session = c.session
        /\ [c EXCEPT !.remoteTCS = r].callState = c.callState
    BY DEF Good, Call, Same
  <2> QED BY <2>1, <2>2, SameKeeps
<1>3. Good([c EXCEPT !.msd = m]) /\ Keeps(c, [c EXCEPT !.msd = m])
  <2>1. [c EXCEPT !.msd = m] \in Call BY ZenonT(30) DEF Good, Call
  <2>2. /\ Same(c, [c EXCEPT !.msd = m])
        /\ [c EXCEPT !.msd = m].session = c.session
        /\ [c EXCEPT !.msd = m].callState = c.callState
    BY DEF Good, Call, Same
  <2> QED BY <2>1, <2>2, SameKeeps
<1>4. Good([c EXCEPT !.msdRetries = n]) /\ Keeps(c, [c EXCEPT !.msdRetries = n])
  <2>1. [c EXCEPT !.msdRetries = n] \in Call BY ZenonT(30) DEF Good, Call
  <2>2. /\ Same(c, [c EXCEPT !.msdRetries = n])
        /\ [c EXCEPT !.msdRetries = n].session = c.session
        /\ [c EXCEPT !.msdRetries = n].callState = c.callState
    BY DEF Good, Call, Same
  <2> QED BY <2>1, <2>2, SameKeeps
<1>5. Good([c EXCEPT !.chans = b]) /\ Keeps(c, [c EXCEPT !.chans = b])
  <2>1. [c EXCEPT !.chans = b] \in Call BY ZenonT(30) DEF Good, Call
  <2>2. /\ Same(c, [c EXCEPT !.chans = b])
        /\ [c EXCEPT !.chans = b].session = c.session
        /\ [c EXCEPT !.chans = b].callState = c.callState
    BY DEF Good, Call, Same
  <2> QED BY <2>1, <2>2, SameKeeps
<1>6. Good([c EXCEPT !.endSent = b]) /\ Keeps(c, [c EXCEPT !.endSent = b])
  <2>1. [c EXCEPT !.endSent = b] \in Call BY ZenonT(30) DEF Good, Call
  <2>2. /\ Same(c, [c EXCEPT !.endSent = b])
        /\ [c EXCEPT !.endSent = b].session = c.session
        /\ [c EXCEPT !.endSent = b].callState = c.callState
    BY DEF Good, Call, Same
  <2> QED BY <2>1, <2>2, SameKeeps
<1>7. Good([c EXCEPT !.endBuilt = b]) /\ Keeps(c, [c EXCEPT !.endBuilt = b])
  <2>1. [c EXCEPT !.endBuilt = b] \in Call BY ZenonT(30) DEF Good, Call
  <2>2. /\ Same(c, [c EXCEPT !.endBuilt = b])
        /\ [c EXCEPT !.endBuilt = b].session = c.session
        /\ [c EXCEPT !.endBuilt = b].callState = c.callState
    BY DEF Good, Call, Same
  <2> QED BY <2>1, <2>2, SameKeeps
<1> QED BY <1>1, <1>2, <1>3, <1>4, <1>5, <1>6, <1>7

-----------------------------------------------------------------------------
\* A capability set was sent.
LEMMA OnSentTCSKeeps ==
  ASSUME NEW c, Good(c) PROVE Good(OnSentTCS(c)) /\ Keeps(c, OnSentTCS(c))
<1> DEFINE d == IF c.tunneling /\ c.session \in {"IDLE", "PAUSED"}
                THEN [c EXCEPT !.session = "ACTIVE"] ELSE c
<1>1. "ACTIVE" \in SessionStates \ {"PAUSED"} BY DEF SessionStates
<1>2. Good(d) /\ Keeps(c, d) BY <1>1, SessionKeeps, KeepsReflexive
<1>3. OnSentTCS(c) = ArmTimer(d, "TCS") BY DEF OnSentTCS
<1>4. "TCS" \in TimerKinds \ {"H245CONNECT"} BY DEF TimerKinds
<1> QED BY <1>2, <1>3, <1>4, ArmTimerKeeps, KeepsTransitive

\* An EndSession was sent: the session waits for the answer or is closed.
LEMMA OnSentEndSessionKeeps ==
  ASSUME NEW c, Good(c)
  PROVE  Good(OnSentEndSession(c)) /\ Keeps(c, OnSentEndSession(c))
<1> DEFINE d == [c EXCEPT !.endSent = TRUE]
           e == [d EXCEPT !.session = "ENDSENT"]
<1>1. Good(d) /\ Keeps(c, d) BY NegotiationKeeps
<1>2. "ENDSENT" \in SessionStates \ {"PAUSED"} BY DEF SessionStates
<1>3. Good(e) /\ Keeps(d, e) BY <1>1, <1>2, SessionKeeps
<1>4. "SESSION" \in TimerKinds \ {"H245CONNECT"} BY DEF TimerKinds
<1>5. Good(ArmTimer(e, "SESSION")) /\ Keeps(c, ArmTimer(e, "SESSION"))
  BY <1>1, <1>3, <1>4, ArmTimerKeeps, KeepsTransitive
<1>6. Good(CloseH245Connection(d)) /\ Keeps(c, CloseH245Connection(d))
  BY <1>1, CloseH245ConnectionKeeps, KeepsTransitive
<1>7. OnSentEndSession(c) \in {ArmTimer(e, "SESSION"), CloseH245Connection(d)}
  BY DEF OnSentEndSession
<1> QED BY <1>5, <1>6, <1>7

\* ooOnSendMsg of any message but a ReleaseComplete.
LEMMA OnSendMsgKeeps ==
  ASSUME NEW c, Good(c), NEW m, m # "ReleaseComplete"
  PROVE  Good(OnSendMsg(c, m)) /\ Keeps(c, OnSendMsg(c, m))
<1>1. {"CALLESTB", "MSD", "CHAN"} \subseteq TimerKinds \ {"H245CONNECT"}
  BY DEF TimerKinds
<1> QED
  BY <1>1, ArmTimerKeeps, OnSentTCSKeeps, OnSentEndSessionKeeps, KeepsReflexive
  DEF OnSendMsg

\* The one function that counts a ReleaseComplete as sent.
LEMMA OnSentReleaseCompleteSends ==
  ASSUME NEW c, Good(c), ~ReleaseQueued(c), c.rcSent = 0, c.relBuilt
  PROVE  LET d == OnSentReleaseComplete(c) IN
         /\ Good(d) /\ Frame(c, d) /\ d.tunneling = c.tunneling
         /\ NoSocket(c) => NoSocket(d)
         /\ d.rcSent = 1 /\ d.callState \in Clearing /\ d.session = c.session
<1> DEFINE st == IF c.callState = "CLEAR_RELEASERECVD" THEN "CLEARED"
                 ELSE "CLEAR_RELEASESENT"
           sent == [c EXCEPT !.rcSent = @ + 1, !.callState = st]
           timed == IF sent.callState = "CLEAR_RELEASESENT" /\ c.session = "IDLE"
                    THEN ArmTimer(sent, "SESSION") ELSE sent
           done == [timed EXCEPT !.callState = "CLEARED"]
           Sent(d) == /\ Good(d) /\ Frame(c, d) /\ d.tunneling = c.tunneling
                      /\ NoSocket(c) => NoSocket(d)
                      /\ d.rcSent = 1 /\ d.callState \in Clearing
                      /\ d.session = c.session
<1>1. st \in Clearing /\ st \in CallStates /\ "CLEARED" \in Clearing
      /\ "CLEARED" \in CallStates
  BY DEF Clearing, CallStates
<1>2. c \in Call /\ c.rcSent + 1 \in Nat BY DEF Good, Call
<1>3. Sent(sent)
  <2> HIDE DEF st
  <2>1. sent \in Call BY <1>1, <1>2, ZenonT(30) DEF Call
  <2>2. TunnelOK(sent) BY <1>2 DEF Good, Call, TunnelOK, NoSocket
  <2>3. ReleaseOK(sent) BY <1>2 DEF Good, Call, ReleaseOK, ReleaseQueued
  <2>4. Frame(c, sent) /\ sent.tunneling = c.tunneling /\ sent.session = c.session
    BY <1>2 DEF Call, Frame, Sendable, Apart, Excused, ReleaseQueued
  <2>5. (NoSocket(c) => NoSocket(sent)) /\ sent.rcSent = 1 /\ sent.callState = st
    BY <1>2 DEF Call, NoSocket
  <2> QED BY <1>1, <2>1, <2>2, <2>3, <2>4, <2>5 DEF Good
<1>4. "SESSION" \in TimerKinds \ {"H245CONNECT"} BY DEF TimerKinds
<1> HIDE DEF sent
<1>5. Good(sent) /\ ArmTimer(sent, "SESSION").session = sent.session
  BY <1>3 DEF Good, Call, ArmTimer
<1>6. Sent(ArmTimer(sent, "SESSION"))
  BY <1>3, <1>4, <1>5, ArmTimerKeeps, FrameTransitive DEF Keeps, Steady
<1>7. Sent(timed) BY <1>3, <1>6
<1> HIDE DEF timed
<1>8. Sent(done)
  <2>1. done \in Call BY <1>1, <1>7, ZenonT(30) DEF Good, Call
  <2>2. Same(timed, done) /\ done.session = timed.session /\ done.callState = "CLEARED"
    BY <1>7 DEF Good, Call, Same
  <2>3. Good(done) /\ Keeps(timed, done) BY <1>1, <1>7, <2>1, <2>2, SameKeeps
  <2> QED BY <1>1, <1>7, <2>2, <2>3, FrameTransitive DEF Keeps, Steady
<1>9. OnSentReleaseComplete(c) \in {timed, done}
  BY DEF OnSentReleaseComplete, timed, sent
<1> QED BY <1>7, <1>8, <1>9

\* Sending the head of the Q.931 queue: a ReleaseComplete is counted, and only
\* a ReleaseComplete changes the count.
LEMMA SendMsgQ931Keeps ==
  ASSUME NEW c, Good(c), NEW ok \in BOOLEAN, c.gone = "no"
  PROVE  LET d == SendMsgQ931(c, ok) IN
         /\ Good(d) /\ Frame(c, d) /\ d.tunneling = c.tunneling
         /\ NoSocket(c) => NoSocket(d)
         /\ c.callState \in Clearing => d.callState \in Clearing
         /\ c.session # "PAUSED" => d.session # "PAUSED"
         /\ \/ d.rcSent = c.rcSent
            \/ ReleaseQueued(c) /\ c.rcSent = 0 /\ d.rcSent = 1
<1> DEFINE rest == [c EXCEPT !.q931Out = Tail(@)]
           m == Head(c.q931Out)
<1>1. CASE ~MaySend(c) \/ c.q931Out = <<>>
  BY <1>1, KeepsReflexive DEF SendMsgQ931, Keeps, Steady
<1>2. CASE ~(~MaySend(c) \/ c.q931Out = <<>>)
  <2>1. c \in Call /\ c.q931Out \in Seq(Q931Kinds) /\ c.q931Out # <<>>
    BY <1>2 DEF Good, Call
  <2>2. Tail(c.q931Out) \in Seq(Q931Kinds) BY <2>1
  <2>3. \A i \in 1..Len(Tail(c.q931Out)) : Tail(c.q931Out)[i] # "ReleaseComplete"
    BY <2>1 DEF Good, ReleaseOK
  <2>4. rest \in Call BY <2>1, <2>2, ZenonT(30) DEF Call
  <2>5. TunnelOK(rest) BY <2>1 DEF Good, Call, TunnelOK, NoSocket
  <2>6. rest.q931Out = Tail(c.q931Out) BY <2>1 DEF Call
  <2>7. ~ReleaseQueued(rest) BY <2>2, <2>3, <2>6 DEF ReleaseQueued
  <2>8. ReleaseOK(rest)
    BY <2>1, <2>2, <2>3, <2>6, <2>7 DEF Good, Call, ReleaseOK
  <2>9. Good(rest) BY <2>4, <2>5, <2>8 DEF Good
  <2>10. Keeps(c, rest) /\ rest.relBuilt = c.relBuilt
    BY <2>1, <2>7 DEF Call, Keeps, Steady, Frame, Sendable, Apart, Excused, NoSocket
  <2> HIDE DEF rest
  <2>11. CASE ok /\ m = "ReleaseComplete"
    <3>1. ReleaseQueued(c) BY <2>1, <2>11 DEF ReleaseQueued
    <3>2. c.rcSent = 0 /\ c.relBuilt BY <3>1 DEF Good, Call, ReleaseOK
    <3>3. rest.rcSent = 0 BY <3>2, <2>10 DEF Keeps, Steady
    <3>4. SendMsgQ931(c, ok) = OnSentReleaseComplete(rest)
      BY <1>2, <2>11 DEF SendMsgQ931, OnSendMsg, rest
    <3> DEFINE d == OnSentReleaseComplete(rest)
    <3>5. /\ Good(d) /\ Frame(rest, d) /\ d.tunneling = rest.tunneling
          /\ NoSocket(rest) => NoSocket(d)
          /\ d.rcSent = 1 /\ d.callState \in Clearing /\ d.session = rest.session
      BY <2>7, <2>9, <2>10, <3>2, <3>3, OnSentReleaseCompleteSends
    <3> HIDE DEF d
    <3>6. Frame(c, d) BY <2>10, <3>5, FrameTransitive DEF Keeps, Steady
    <3>7. /\ d.tunneling = c.tunneling /\ (NoSocket(c) => NoSocket(d))
          /\ c.session # "PAUSED" => d.session # "PAUSED"
      BY <2>10, <3>5 DEF Keeps, Steady
    <3> QED BY <3>1, <3>2, <3>4, <3>5, <3>6, <3>7 DEF d
  <2>12. CASE ok /\ m # "ReleaseComplete"
    <3>1. SendMsgQ931(c, ok) = OnSendMsg(rest, m)
      BY <1>2, <2>12 DEF SendMsgQ931, rest
    <3>2. Good(OnSendMsg(rest, m)) /\ Keeps(rest, OnSendMsg(rest, m))
      BY <2>9, <2>12, OnSendMsgKeeps
    <3> QED BY <2>10, <3>1, <3>2, KeepsTransitive DEF Keeps, Steady
  <2>13. CASE ~ok
    <3>1. SendMsgQ931(c, ok) = MarkClear(rest)
      BY <1>2, <2>13 DEF SendMsgQ931, rest
    <3> QED BY <2>9, <2>10, <3>1, MarkClearKeeps, KeepsTransitive DEF Keeps, Steady
  <2> QED BY <2>11, <2>12, <2>13
<1> QED BY <1>1, <1>2

\* Sending the head of the H.245 queue, whether the socket takes it or not.
LEMMA SendMsgH245Keeps ==
  ASSUME NEW c, Good(c), NEW ok \in BOOLEAN
  PROVE  Good(SendMsgH245(c, ok)) /\ Keeps(c, SendMsgH245(c, ok))
<1> DEFINE rest == [c EXCEPT !.h245Out = Tail(@)]
           m == Head(c.h245Out)
<1>1. CASE ~MaySend(c) \/ c.h245Out = <<>>
  BY <1>1, KeepsReflexive DEF SendMsgH245
<1>2. CASE ~(~MaySend(c) \/ c.h245Out = <<>>)
  <2>1. c \in Call /\ c.h245Out \in Seq(H245Kinds) /\ c.h245Out # <<>>
    BY <1>2 DEF Good, Call
  <2>2. Tail(c.h245Out) \in Seq(H245Kinds) /\ m \in H245Kinds BY <2>1
  <2>3. m \in Q931Kinds \ {"ReleaseComplete"} BY <2>2 DEF Q931Kinds, H245Kinds
  <2>4. rest \in Call BY <2>1, <2>2, ZenonT(30) DEF Call
  <2>5. TunnelOK(rest) BY <2>1 DEF Good, Call, TunnelOK, NoSocket
  <2>6. ReleaseOK(rest) BY <2>1 DEF Good, Call, ReleaseOK, ReleaseQueued
  <2>10. Keeps(c, rest)
    BY <2>1 DEF Call, Keeps, Steady, Frame, Sendable, Apart, Excused, ReleaseQueued, NoSocket
  <2>7. Good(rest) /\ Keeps(c, rest) BY <2>4, <2>5, <2>6, <2>10 DEF Good
  <2>8. rest.tunneling = c.tunneling BY <2>7 DEF Keeps
  <2> HIDE DEF rest
  <2>9. \/ SendMsgH245(c, ok) = OnSendMsg(rest, m)
        \/ SendMsgH245(c, ok) = MarkClear(rest)
        \/ SendMsgH245(c, ok) = rest
        \/ c.tunneling /\ SendMsgH245(c, ok) = SendH225Msg(rest, m)
    BY <1>2, Zenon DEF SendMsgH245, rest
  <2> QED BY <2>3, <2>7, <2>8, <2>9, OnSendMsgKeeps, MarkClearKeeps,
             SendH225MsgKeeps, KeepsTransitive
<1> QED BY <1>1, <1>2

\* ooSendEndSessionCommand, tunneled or flushed to the socket.
LEMMA SendEndSessionKeeps ==
  ASSUME NEW c, Good(c), NEW ok \in BOOLEAN
  PROVE  Good(SendEndSession(c, ok)) /\ Keeps(c, SendEndSession(c, ok))
<1> DEFINE w == WithH245Channel(c)
           d == [w EXCEPT !.h245Out = <<"EndSession">>]
<1>1. Good(w) /\ Keeps(c, w) /\ w.h245 # "none" BY WithH245ChannelKeeps
<1>2. "EndSession" \in H245Kinds BY DEF H245Kinds
<1>3. CASE c.tunneling
  BY <1>2, <1>3, QueueH245Keeps DEF SendEndSession
<1>4. CASE ~c.tunneling
  <2>1. <<"EndSession">> \in Seq(H245Kinds) BY <1>2
  <2>2. ~w.tunneling BY <1>1, <1>4 DEF Keeps
  <2> HIDE DEF w
  <2>3. d \in Call BY <1>1, <2>1, ZenonT(30) DEF Good, Call
  <2>4. TunnelOK(d) BY <1>1, <2>2 DEF Good, Call, TunnelOK
  <2>5. ReleaseOK(d) BY <1>1 DEF Good, Call, ReleaseOK, ReleaseQueued
  <2>6. Keeps(w, d)
    BY <1>1 DEF Good, Call, Keeps, Steady, Frame, Sendable, Apart, Excused, ReleaseQueued, NoSocket
  <2>7. SendEndSession(c, ok) = SendMsgH245(d, ok) BY <1>4 DEF SendEndSession, w
  <2> HIDE DEF d
  <2>8. Good(SendMsgH245(d, ok)) /\ Keeps(d, SendMsgH245(d, ok))
    BY <2>3, <2>4, <2>5, SendMsgH245Keeps DEF Good
  <2> QED BY <1>1, <2>6, <2>7, <2>8, KeepsTransitive
<1> QED BY <1>3, <1>4

\* ooSendTermCapMsg, sent or refused.
LEMMA SendTermCapMsgKeeps ==
  ASSUME NEW c, Good(c)
  PROVE  Good(SendTermCapMsg(c)) /\ Keeps(c, SendTermCapMsg(c))
<1> DEFINE q == QueueH245(c, "TCS")
<1>1. Good(q) /\ Keeps(c, q) BY QueueH245Keeps DEF H245Kinds
<1> HIDE DEF q
<1>2. Good([q EXCEPT !.localTCS = "SetSent"]) /\ Keeps(q, [q EXCEPT !.localTCS = "SetSent"])
  BY <1>1, NegotiationKeeps
<1> QED BY <1>1, <1>2, KeepsTransitive, KeepsReflexive DEF SendTermCapMsg, q

\* ooSendMasterSlaveDetermination, sent or refused.
LEMMA SendMasterSlaveDeterminationKeeps ==
  ASSUME NEW c, Good(c)
  PROVE  /\ Good(SendMasterSlaveDetermination(c))
         /\ Keeps(c, SendMasterSlaveDetermination(c))
<1> DEFINE q == QueueH245(c, "MSD")
<1>1. Good(q) /\ Keeps(c, q) BY QueueH245Keeps DEF H245Kinds
<1> HIDE DEF q
<1>2. Good([q EXCEPT !.msd = "DetermineSent"]) /\ Keeps(q, [q EXCEPT !.msd = "DetermineSent"])
  BY <1>1, NegotiationKeeps
<1> QED BY <1>1, <1>2, KeepsTransitive, KeepsReflexive
        DEF SendMasterSlaveDetermination, q

-----------------------------------------------------------------------------
\* A separate H.245 connection is made only for a call that may have one.
LEMMA H245ConnectedSteady ==
  ASSUME NEW c, Good(c), Apart(c)
  PROVE  /\ Good(H245Connected(c)) /\ Steady(c, H245Connected(c))
         /\ H245Connected(c).tunneling = c.tunneling
<1> DEFINE l == c.leak \/ c.h245 = "open"
           d == [c EXCEPT !.h245 = "open", !.session = "ACTIVE", !.newSock = TRUE,
                          !.leak = l]
           t == SendTermCapMsg(d)
<1>1. c \in Call /\ l \in BOOLEAN BY DEF Good, Call
<1>2. H245Connected(c) = SendMasterSlaveDetermination(t) BY DEF H245Connected
<1> HIDE DEF l
<1>3. "ACTIVE" \in SessionStates \ {"PAUSED"} BY DEF SessionStates
<1>4. "open" \in {"none", "nosock", "open"} /\ TRUE \in BOOLEAN OBVIOUS
<1>5. d \in Call BY <1>1, <1>3, <1>4, ZenonT(30) DEF Call
<1>6. TunnelOK(d) BY <1>1 DEF Good, Call, TunnelOK, NoSocket, Apart
<1>7. ReleaseOK(d) BY <1>1 DEF Good, Call, ReleaseOK, ReleaseQueued
<1>8. Steady(c, d) /\ d.tunneling = c.tunneling
  BY <1>1 DEF Call, Steady, Frame, Sendable, Apart, Excused, ReleaseQueued
<1> HIDE DEF d
<1>9. Good(t) /\ Keeps(d, t) BY <1>5, <1>6, <1>7, SendTermCapMsgKeeps DEF Good
<1> HIDE DEF t
<1>10. Good(SendMasterSlaveDetermination(t)) /\ Keeps(t, SendMasterSlaveDetermination(t))
  BY <1>9, SendMasterSlaveDeterminationKeeps
<1> QED BY <1>2, <1>8, <1>9, <1>10, SteadyTransitive DEF Keeps

\* A failed H.245 connect marks the call or arms the timer of the next try.
LEMMA H245ConnectFailedSteady ==
  ASSUME NEW c, Good(c), Apart(c), c.h245Port
  PROVE  /\ Good(H245ConnectFailed(c)) /\ Steady(c, H245ConnectFailed(c))
         /\ H245ConnectFailed(c).tunneling = c.tunneling
<1> DEFINE w == WithH245Channel(c)
           d == [w EXCEPT !.leak = TRUE]
           a == ArmTimer(d, "H245CONNECT")
           t == [d.timers EXCEPT !["H245CONNECT"] = @ + 1]
<1>1. Good(w) /\ Keeps(c, w) BY WithH245ChannelKeeps
<1>0. w.h245Port BY DEF WithH245Channel, Good, Call
<1> HIDE DEF w
<1>2. d \in Call BY <1>1, ZenonT(30) DEF Good, Call
<1>3. Same(w, d) /\ d.callState = w.callState /\ d.session = w.session
  BY <1>1 DEF Good, Call, Same
<1>4. Good(d) /\ Keeps(w, d) BY <1>1, <1>2, <1>3, SameKeeps
<1>5. H245ConnectFailed(c) \in {MarkClear(d), a} BY DEF H245ConnectFailed, w
<1> HIDE DEF d
<1>6. Keeps(c, d) BY <1>1, <1>4, KeepsTransitive
<1>7. t \in [TimerKinds -> Nat]
  <2>1. d.timers \in [TimerKinds -> Nat] BY <1>4 DEF Good, Call
  <2> QED BY <2>1 DEF TimerKinds
<1>8. a = [d EXCEPT !.timers = t] BY <1>4, Zenon DEF ArmTimer, Good, Call
<1> HIDE DEF t, a
<1>9. [d EXCEPT !.timers = t] \in Call BY <1>4, <1>7, ZenonT(30) DEF Good, Call
<1>10. Apart(d) /\ d.h245Port BY <1>0, <1>3, <1>6 DEF Keeps, Steady, Frame, Apart, Same
<1>11. TunnelOK([d EXCEPT !.timers = t])
  BY <1>4, <1>10 DEF Good, Call, TunnelOK, NoSocket, Apart
<1>12. ReleaseOK([d EXCEPT !.timers = t])
  BY <1>4 DEF Good, Call, ReleaseOK, ReleaseQueued
<1>13. Steady(d, [d EXCEPT !.timers = t]) /\ [d EXCEPT !.timers = t].tunneling = d.tunneling
  BY <1>4 DEF Good, Call, Steady, Frame, Sendable, Apart, Excused, ReleaseQueued
<1>14. Good(a) /\ Steady(d, a) /\ a.tunneling = d.tunneling
  BY <1>8, <1>9, <1>11, <1>12, <1>13 DEF Good
<1>15. Good(MarkClear(d)) /\ Keeps(d, MarkClear(d)) BY <1>4, MarkClearKeeps
<1> QED BY <1>5, <1>6, <1>14, <1>15, SteadyTransitive DEF Keeps

\* ooCreateH245Connection, when there may be one and its address is known.
LEMMA CreateH245ConnectionSteady ==
  ASSUME NEW c, Good(c), Apart(c), c.h245Port, NEW connected \in BOOLEAN
  PROVE  LET d == CreateH245Connection(c, connected) IN
         Good(d) /\ Steady(c, d) /\ d.tunneling = c.tunneling
BY H245ConnectedSteady, H245ConnectFailedSteady DEF CreateH245Connection
-----------------------------------------------------------------------------
\* The handlers of received H.245 messages.
LEMMA OpenLogicalChannelsKeeps ==
  ASSUME NEW c, Good(c), NEW d \in OpenLogicalChannelsOutcomes(c)
  PROVE  Good(d) /\ Keeps(c, d)
<1> DEFINE q == QueueH245(c, "Chan")
<1>1. Good(q) /\ Keeps(c, q) BY QueueH245Keeps DEF H245Kinds
<1> HIDE DEF q
<1>2. Good([q EXCEPT !.chans = TRUE]) /\ Keeps(q, [q EXCEPT !.chans = TRUE])
  BY <1>1, NegotiationKeeps
<1>3. d \in {c, [q EXCEPT !.chans = TRUE], MarkClear(c)}
  BY DEF OpenLogicalChannelsOutcomes, q
<1> QED BY <1>1, <1>2, <1>3, MarkClearKeeps, KeepsTransitive, KeepsReflexive

\* The master opens its channels once both capability sets are done.
LEMMA MasterOpensKeeps ==
  ASSUME NEW c, Good(c), NEW d \in MasterOpensOutcomes(c)
  PROVE  Good(d) /\ Keeps(c, d)
BY OpenLogicalChannelsKeeps, KeepsReflexive DEF MasterOpensOutcomes

\* A capability set that is refused.
LEMMA OnRejectedTCSKeeps ==
  ASSUME NEW c, Good(c) PROVE Good(OnRejectedTCS(c)) /\ Keeps(c, OnRejectedTCS(c))
<1> DEFINE d == [c EXCEPT !.session = IF @ = "IDLE" THEN "ACTIVE" ELSE @]
           s == IF c.session = "IDLE" THEN "ACTIVE" ELSE c.session
           q == QueueH245(d, "Plain")
           r == [q EXCEPT !.remoteTCS = "Idle"]
<1>1. c \in Call /\ s \in SessionStates /\ (c.session # "PAUSED" => s # "PAUSED")
  BY DEF Good, Call, SessionStates
<1>2. d = [c EXCEPT !.session = s] BY <1>1, Zenon DEF Call
<1> HIDE DEF s
<1>3. [c EXCEPT !.session = s] \in Call BY <1>1, ZenonT(30) DEF Call
<1>4. /\ Same(c, [c EXCEPT !.session = s])
      /\ [c EXCEPT !.session = s].callState = c.callState
      /\ [c EXCEPT !.session = s].session = s
  BY <1>1 DEF Call, Same
<1>5. Good(d) /\ Keeps(c, d) BY <1>1, <1>2, <1>3, <1>4, SameKeeps
<1>6. OnRejectedTCS(c) = IF r.localTCS = "Idle" THEN SendTermCapMsg(r) ELSE r
  BY DEF OnRejectedTCS
<1> HIDE DEF d
<1>7. Good(q) /\ Keeps(d, q) BY <1>5, QueueH245Keeps DEF H245Kinds
<1> HIDE DEF q
<1>8. Good(r) /\ Keeps(q, r) BY <1>7, NegotiationKeeps
<1> HIDE DEF r
<1>9. Good(SendTermCapMsg(r)) /\ Keeps(r, SendTermCapMsg(r))
  BY <1>8, SendTermCapMsgKeeps
<1> QED BY <1>5, <1>6, <1>7, <1>8, <1>9, KeepsTransitive

\* The answer to a new capability set, whatever it does to the session.
LEMMA OnTCSAnswerKeeps ==
  ASSUME NEW d, Good(d),
         NEW e \in LET a == [QueueH245(d, "Plain") EXCEPT !.remoteTCS = "AckSent"]
                       s == IF a.localTCS = "Idle" THEN SendTermCapMsg(a) ELSE a
                   IN IF s.localTCS = "AckRecvd" /\ s.msd = "Idle"
                      THEN {SendMasterSlaveDetermination(s)}
                      ELSE MasterOpensOutcomes(s)
  PROVE  Good(e) /\ Keeps(d, e)
<1> DEFINE q == QueueH245(d, "Plain")
           a == [q EXCEPT !.remoteTCS = "AckSent"]
           s == IF a.localTCS = "Idle" THEN SendTermCapMsg(a) ELSE a
<1>1. e \in {SendMasterSlaveDetermination(s)} \cup MasterOpensOutcomes(s)
  OBVIOUS
<1>2. Good(q) /\ Keeps(d, q) BY QueueH245Keeps DEF H245Kinds
<1> HIDE DEF q
<1>3. Good(a) /\ Keeps(q, a) BY <1>2, NegotiationKeeps
<1> HIDE DEF a
<1>4. Good(s) /\ Keeps(a, s)
  BY <1>3, SendTermCapMsgKeeps, KeepsReflexive
<1> HIDE DEF s
<1>5. Good(e) /\ Keeps(s, e)
  BY <1>1, <1>4, SendMasterSlaveDeterminationKeeps, MasterOpensKeeps
<1> QED BY <1>2, <1>3, <1>4, <1>5, KeepsTransitive

\* A capability set with capabilities.
LEMMA OnTCSKeeps ==
  ASSUME NEW c, Good(c), NEW d \in OnTCSOutcomes(c, FALSE)
  PROVE  Good(d) /\ Keeps(c, d)
<1> DEFINE s == IF c.session = "IDLE" THEN "ACTIVE" ELSE c.session
           b == [c EXCEPT !.session = s]
<1>1. c \in Call /\ s \in SessionStates /\ (c.session # "PAUSED" => s # "PAUSED")
  BY DEF Good, Call, SessionStates
<1>2. [c EXCEPT !.session = IF FALSE THEN "PAUSED" ELSE IF @ = "IDLE" THEN "ACTIVE" ELSE @] = b
  BY <1>1, Zenon DEF Call
<1> HIDE DEF s
<1>3. b \in Call BY <1>1, ZenonT(30) DEF Call
<1>4. Same(c, b) /\ b.callState = c.callState /\ b.session = s
  BY <1>1 DEF Call, Same
<1>5. Good(b) /\ Keeps(c, b) BY <1>1, <1>3, <1>4, SameKeeps
<1> HIDE DEF b
<1>6. Good(d) /\ Keeps(b, d)
  BY <1>2, <1>5, OnTCSAnswerKeeps DEF OnTCSOutcomes
<1> QED BY <1>5, <1>6, KeepsTransitive

\* An empty set pauses the session: all but that is kept.
LEMMA OnEmptyTCSFrame ==
  ASSUME NEW c, Good(c), NEW d \in OnTCSOutcomes(c, TRUE)
  PROVE  Good(d) /\ Frame(c, d) /\ d.tunneling = c.tunneling /\ (NoSocket(c) => NoSocket(d))
<1> DEFINE b == [c EXCEPT !.session = "PAUSED"]
<1>1. c \in Call /\ "PAUSED" \in SessionStates BY DEF Good, SessionStates
<1>2. [c EXCEPT !.session = IF TRUE THEN "PAUSED" ELSE IF @ = "IDLE" THEN "ACTIVE" ELSE @] = b
  BY <1>1, Zenon DEF Call
<1>3. b \in Call BY <1>1, ZenonT(30) DEF Call
<1>4. Same(c, b) BY <1>1 DEF Call, Same
<1>5. Good(b)
  BY <1>3, <1>4 DEF Good, Same, TunnelOK, ReleaseOK, ReleaseQueued, NoSocket
<1>6. Frame(c, b) /\ b.tunneling = c.tunneling /\ (NoSocket(c) => NoSocket(b))
  BY <1>4 DEF Same, Frame, Sendable, Apart, Excused, ReleaseQueued, NoSocket
<1> HIDE DEF b
<1>7. Good(d) /\ Keeps(b, d)
  BY <1>2, <1>5, OnTCSAnswerKeeps DEF OnTCSOutcomes
<1> QED BY <1>6, <1>7, FrameTransitive DEF Keeps, Steady

\* The peer accepts our capability set ...
LEMMA OnTCSAckKeeps ==
  ASSUME NEW c, Good(c), NEW d \in OnTCSAckOutcomes(c)
  PROVE  Good(d) /\ Keeps(c, d)
<1> DEFINE t == DeleteTimer(c, "TCS")
           a == [t EXCEPT !.localTCS = "AckRecvd"]
<1>1. Good(t) /\ Keeps(c, t) BY DeleteTimerKeeps DEF TimerKinds
<1> HIDE DEF t
<1>2. Good(a) /\ Keeps(t, a) BY <1>1, NegotiationKeeps
<1>3. d \in MasterOpensOutcomes(a) BY DEF OnTCSAckOutcomes, t
<1> HIDE DEF a
<1> QED BY <1>1, <1>2, <1>3, MasterOpensKeeps, KeepsTransitive

\* ... or refuses it.
LEMMA OnTCSRejectKeeps ==
  ASSUME NEW c, Good(c) PROVE Good(OnTCSReject(c)) /\ Keeps(c, OnTCSReject(c))
<1>1. "TCS" \in TimerKinds BY DEF TimerKinds
<1> QED BY <1>1, DeleteTimerKeeps, MarkClearKeeps, KeepsTransitive DEF OnTCSReject

\* The peer's master-slave determination.
LEMMA OnMSDKeeps ==
  ASSUME NEW c, Good(c), NEW d \in OnMSDOutcomes(c)
  PROVE  Good(d) /\ Keeps(c, d)
<1> DEFINE q == QueueH245(c, "Plain")
<1>1. Good(q) /\ Keeps(c, q) BY QueueH245Keeps DEF H245Kinds
<1>2. d \in {q, [q EXCEPT !.msd = "AckSent"]} BY DEF OnMSDOutcomes
<1> HIDE DEF q
<1>3. Good([q EXCEPT !.msd = "AckSent"]) /\ Keeps(q, [q EXCEPT !.msd = "AckSent"])
  BY <1>1, NegotiationKeeps
<1> QED BY <1>1, <1>2, <1>3, KeepsTransitive

\* The peer accepts our determination ...
LEMMA OnMSDAckKeeps ==
  ASSUME NEW c, Good(c), NEW role \in {"Master", "Slave"},
         NEW d \in OnMSDAckOutcomes(c, role)
  PROVE  Good(d) /\ Keeps(c, d)
<1> DEFINE t == DeleteTimer(c, "MSD")
           q == QueueH245(t, "Plain")
           s == [t EXCEPT !.msd = "Slave"]
           m == [t EXCEPT !.msd = "Master"]
           r == [q EXCEPT !.msd = role]
<1>1. Good(t) /\ Keeps(c, t) BY DeleteTimerKeeps DEF TimerKinds
<1>2. d \in {s, r} \/ d \in MasterOpensOutcomes(m) \/ d \in MasterOpensOutcomes(t)
  BY Zenon DEF OnMSDAckOutcomes
<1> HIDE DEF t
<1>3. Good(q) /\ Keeps(t, q) BY <1>1, QueueH245Keeps DEF H245Kinds
<1> HIDE DEF q
<1>4. Good(s) /\ Keeps(t, s) /\ Good(m) /\ Keeps(t, m) BY <1>1, NegotiationKeeps
<1>5. Good(r) /\ Keeps(q, r) BY <1>3, NegotiationKeeps
<1> HIDE DEF s, m, r
<1>6. CASE d = s BY <1>1, <1>4, <1>6, KeepsTransitive
<1>7. CASE d = r BY <1>1, <1>3, <1>5, <1>7, KeepsTransitive
<1>8. CASE d \in MasterOpensOutcomes(m)
  BY <1>1, <1>4, <1>8, MasterOpensKeeps, KeepsTransitive
<1>9. CASE d \in MasterOpensOutcomes(t)
  BY <1>1, <1>9, MasterOpensKeeps, KeepsTransitive
<1> QED BY <1>2, <1>6, <1>7, <1>8, <1>9

\* ... or refuses it.
LEMMA OnMSDRejectKeeps ==
  ASSUME NEW c, Good(c) PROVE Good(OnMSDReject(c)) /\ Keeps(c, OnMSDReject(c))
<1> DEFINE t == DeleteTimer(c, "MSD")
           n == t.msdRetries + 1
           a == [t EXCEPT !.msdRetries = n]
           b == [a EXCEPT !.msd = "Idle"]
<1>1. Good(t) /\ Keeps(c, t) BY DeleteTimerKeeps DEF TimerKinds
<1>2. OnMSDReject(c) \in {SendMasterSlaveDetermination(b), MarkClear(t)}
  BY DEF OnMSDReject
<1> HIDE DEF t
<1>3. n \in Nat BY <1>1 DEF Good, Call
<1> HIDE DEF n
<1>4. Good(a) /\ Keeps(t, a) BY <1>1, <1>3, NegotiationKeeps
<1> HIDE DEF a
<1>5. Good(b) /\ Keeps(a, b) BY <1>4, NegotiationKeeps
<1> HIDE DEF b
<1>6. Good(SendMasterSlaveDetermination(b)) /\ Keeps(b, SendMasterSlaveDetermination(b))
  BY <1>5, SendMasterSlaveDeterminationKeeps
<1>7. Good(MarkClear(t)) /\ Keeps(t, MarkClear(t)) BY <1>1, MarkClearKeeps
<1> QED BY <1>1, <1>2, <1>4, <1>5, <1>6, <1>7, KeepsTransitive

\* Messages about logical channels.
LEMMA OnChanKeeps ==
  ASSUME NEW c, Good(c), NEW d \in OnChanOutcomes(c)
  PROVE  Good(d) /\ Keeps(c, d)
<1> DEFINE a == QueueH245(c, "Plain")
           b == QueueH245(a, "Chan")
           t == DeleteTimer(c, "CHAN")
           Chans(x, y) == [x EXCEPT !.chans = y]
<1>1. "Plain" \in H245Kinds /\ "Chan" \in H245Kinds /\ "CHAN" \in TimerKinds
  BY DEF H245Kinds, TimerKinds
<1>2. Good(a) /\ Keeps(c, a) BY <1>1, QueueH245Keeps
<1>3. Good(t) /\ Keeps(c, t) BY <1>1, DeleteTimerKeeps
<1>4. d \in {c, a, Chans(a, TRUE), Chans(b, TRUE), b, Chans(a, FALSE), t,
             Chans(t, TRUE), Chans(t, FALSE), MarkClear(t)}
  BY DEF OnChanOutcomes
<1> HIDE DEF a, t
<1>5. Good(b) /\ Keeps(c, b) BY <1>1, <1>2, QueueH245Keeps, KeepsTransitive
<1> HIDE DEF b
<1>6. Good(Chans(a, TRUE)) /\ Keeps(a, Chans(a, TRUE)) BY <1>2, NegotiationKeeps
<1>7. Good(Chans(a, FALSE)) /\ Keeps(a, Chans(a, FALSE)) BY <1>2, NegotiationKeeps
<1>8. Good(Chans(b, TRUE)) /\ Keeps(b, Chans(b, TRUE)) BY <1>5, NegotiationKeeps
<1>9. Good(Chans(t, TRUE)) /\ Keeps(t, Chans(t, TRUE)) BY <1>3, NegotiationKeeps
<1>10. Good(Chans(t, FALSE)) /\ Keeps(t, Chans(t, FALSE)) BY <1>3, NegotiationKeeps
<1> HIDE DEF Chans
<1>11. Good(MarkClear(t)) /\ Keeps(t, MarkClear(t)) BY <1>3, MarkClearKeeps
<1>12. CASE d \in {c, a, b, t} BY <1>2, <1>3, <1>5, <1>12, KeepsReflexive
<1>13. CASE d = Chans(a, TRUE) BY <1>2, <1>6, <1>13, KeepsTransitive
<1>14. CASE d = Chans(a, FALSE) BY <1>2, <1>7, <1>14, KeepsTransitive
<1>15. CASE d = Chans(b, TRUE) BY <1>5, <1>8, <1>15, KeepsTransitive
<1>16. CASE d = Chans(t, TRUE) BY <1>3, <1>9, <1>16, KeepsTransitive
<1>17. CASE d = Chans(t, FALSE) BY <1>3, <1>10, <1>17, KeepsTransitive
<1>18. CASE d = MarkClear(t) BY <1>3, <1>11, <1>18, KeepsTransitive
<1> QED BY <1>4, <1>12, <1>13, <1>14, <1>15, <1>16, <1>17, <1>18

\* The peer's EndSession, as the answer to ours or answered.
LEMMA OnEndSessionKeeps ==
  ASSUME NEW c, Good(c), NEW ok \in BOOLEAN
  PROVE  Good(OnEndSession(c, ok)) /\ Keeps(c, OnEndSession(c, ok))
<1> DEFINE t == DeleteTimer(c, "SESSION")
           s == [c EXCEPT !.session = "ENDRECVD"]
           e == [s EXCEPT !.chans = FALSE]
<1>1. "SESSION" \in TimerKinds /\ "ENDRECVD" \in SessionStates \ {"PAUSED"}
  BY DEF TimerKinds, SessionStates
<1>2. OnEndSession(c, ok) \in {CloseH245Connection(t), SendEndSession(e, ok)}
  BY DEF OnEndSession
<1>3. Good(t) /\ Keeps(c, t) BY <1>1, DeleteTimerKeeps
<1>4. Good(s) /\ Keeps(c, s) BY <1>1, SessionKeeps
<1> HIDE DEF t, s
<1>5. Good(e) /\ Keeps(s, e) BY <1>4, NegotiationKeeps
<1> HIDE DEF e
<1>6. Good(SendEndSession(e, ok)) /\ Keeps(e, SendEndSession(e, ok))
  BY <1>5, SendEndSessionKeeps
<1>7. Good(CloseH245Connection(t)) /\ Keeps(t, CloseH245Connection(t))
  BY <1>3, CloseH245ConnectionKeeps
<1> QED BY <1>2, <1>3, <1>4, <1>5, <1>6, <1>7, KeepsTransitive

\* Whatever H.245 message is handled, but an empty capability set.
LEMMA HandleH245Keeps ==
  ASSUME NEW c, Good(c), NEW m, m # "EmptyTCS", NEW ok \in BOOLEAN,
         NEW d \in HandleH245Outcomes(c, m, ok)
  PROVE  Good(d) /\ Keeps(c, d)
<1> DEFINE a == QueueH245(c, "Plain")
           b == QueueH245(a, "Plain")
<1>0. "Plain" \in H245Kinds BY DEF H245Kinds
<1>1. Good(a) /\ Keeps(c, a) BY <1>0, QueueH245Keeps
<1>2. \/ d \in OnTCSOutcomes(c, FALSE)
      \/ d = OnRejectedTCS(c)
      \/ d \in OnTCSAckOutcomes(c)
      \/ d = OnTCSReject(c)
      \/ d \in OnMSDOutcomes(c)
      \/ d \in OnMSDAckOutcomes(c, "Master")
      \/ d \in OnMSDAckOutcomes(c, "Slave")
      \/ d = OnMSDReject(c)
      \/ d \in OnChanOutcomes(c)
      \/ d = OnEndSession(c, ok)
      \/ d \in {c, a, b}
  BY DEF HandleH245Outcomes
<1> HIDE DEF a
<1>3. Good(b) /\ Keeps(c, b) BY <1>0, <1>1, QueueH245Keeps, KeepsTransitive
<1> HIDE DEF b
<1> QED
  BY <1>1, <1>2, <1>3, OnTCSKeeps, OnRejectedTCSKeeps, OnTCSAckKeeps,
     OnTCSRejectKeeps, OnMSDKeeps, OnMSDAckKeeps, OnMSDRejectKeeps, OnChanKeeps, OnEndSessionKeeps,
     KeepsReflexive

\* ooHandleH245Message: even the empty capability set keeps the frame.
LEMMA HandleH245Frame ==
  ASSUME NEW c, Good(c), NEW m, NEW ok \in BOOLEAN,
         NEW d \in HandleH245Outcomes(c, m, ok)
  PROVE  Good(d) /\ Frame(c, d) /\ d.tunneling = c.tunneling
         /\ (NoSocket(c) => NoSocket(d))
<1>1. CASE m = "EmptyTCS"
  <2>1. d \in OnTCSOutcomes(c, TRUE) BY <1>1 DEF HandleH245Outcomes
  <2> QED BY <2>1, OnEmptyTCSFrame
<1>2. CASE m # "EmptyTCS"
  BY <1>2, HandleH245Keeps DEF Keeps, Steady
<1> QED BY <1>1, <1>2

\* Leaving the pause: what is kept when the clearing states are not.
LEMMA PauseResetFrame ==
  ASSUME NEW c, Good(c), NEW closing \in BOOLEAN
  PROVE  LET d == PauseReset(c, closing) IN
         Good(d) /\ Frame(c, d) /\ d.tunneling = c.tunneling
<1> DEFINE q == IF c.chans /\ closing THEN QueueH245(c, "Chan") ELSE c
           p == [q EXCEPT !.msd = "Idle", !.callState = "PAUSED", !.localTCS = "Idle",
                          !.remoteTCS = "Idle", !.session = "IDLE", !.chans = FALSE]
<1>1. Good(q) /\ Keeps(c, q)
  BY QueueH245Keeps, KeepsReflexive DEF H245Kinds
<1>2. PauseReset(c, closing) = p BY DEF PauseReset
<1> HIDE DEF q
<1>3. p \in Call
  <2>1. "PAUSED" \in CallStates /\ "IDLE" \in SessionStates
        /\ "Idle" \in {"Idle", "SetSent", "AckRecvd"}
        /\ "Idle" \in {"Idle", "AckSent"} /\ FALSE \in BOOLEAN
        /\ "Idle" \in {"Idle", "DetermineSent", "AckSent", "Master", "Slave"}
    BY DEF CallStates, SessionStates
  <2> DEFINE r == [q EXCEPT !.msd = "Idle", !.localTCS = "Idle", !.remoteTCS = "Idle"]
             s == [r EXCEPT !.callState = "PAUSED", !.session = "IDLE", !.chans = FALSE]
  <2>2. r \in Call BY <1>1, <2>1, ZenonT(30) DEF Good, Call
  <2>3. p = s BY <1>1 DEF Good, Call
  <2> HIDE DEF r, p
  <2>4. s \in Call BY <2>1, <2>2, ZenonT(30) DEF Call
  <2> QED BY <2>3, <2>4
<1>4. Same(q, p) BY <1>1 DEF Good, Call, Same
<1>5. Good(p)
  BY <1>1, <1>3, <1>4 DEF Good, Same, TunnelOK, ReleaseOK, ReleaseQueued, NoSocket
<1>6. Frame(q, p) /\ p.tunneling = q.tunneling
  BY <1>4 DEF Same, Frame, Sendable, Apart, Excused, ReleaseQueued
<1> QED BY <1>1, <1>2, <1>5, <1>6, FrameTransitive DEF Keeps, Steady

-----------------------------------------------------------------------------
\* The handlers of Q.931 messages, the commands and the timers.
LEMMA OnH245AddressSteady ==
  ASSUME NEW c, Good(c)
  PROVE  /\ Good(OnH245Address(c)) /\ Steady(c, OnH245Address(c))
         /\ ~OnH245Address(c).tunneling /\ OnH245Address(c).h245Port
<1>1. c \in Call BY DEF Good
<1>2. OnH245Address(c) \in Call BY <1>1, ZenonT(30) DEF OnH245Address, Call
<1>3. TunnelOK(OnH245Address(c)) BY <1>1 DEF Good, OnH245Address, Call, TunnelOK
<1>4. ReleaseOK(OnH245Address(c))
  BY <1>1 DEF Good, OnH245Address, Call, ReleaseOK, ReleaseQueued
<1>5. /\ Steady(c, OnH245Address(c)) /\ ~OnH245Address(c).tunneling
      /\ OnH245Address(c).h245Port
  BY <1>1 DEF OnH245Address, Call, Steady, Frame, Sendable, Apart, Excused, ReleaseQueued
<1> QED BY <1>2, <1>3, <1>4, <1>5 DEF Good

\* A Facility that starts a separate H.245 connection ends the tunneling.
LEMMA OnFacilityStartH245Steady ==
  ASSUME NEW c, Good(c), NEW connected \in BOOLEAN
  PROVE  /\ Good(OnFacilityStartH245(c, connected))
         /\ Steady(c, OnFacilityStartH245(c, connected))
<1> DEFINE a == OnH245Address(c)
<1>1. Good(a) /\ Steady(c, a) /\ Apart(a) /\ a.h245Port
  BY OnH245AddressSteady DEF Apart
<1>2. OnFacilityStartH245(c, connected) = CreateH245Connection(a, connected)
  BY DEF OnFacilityStartH245, OnH245Address
<1> HIDE DEF a
<1> QED BY <1>1, <1>2, CreateH245ConnectionSteady, SteadyTransitive

\* Every timer callback, after its timer left the list.
LEMMA TimerKeeps ==
  ASSUME NEW c, Good(c), NEW k \in TimerKinds, c.timers[k] > 0,
         NEW connected \in BOOLEAN, NEW d \in TimerOutcomes(c, k, connected)
  PROVE  /\ Good(d) /\ Steady(c, d) /\ d.tunneling = c.tunneling
         /\ NoSocket(c) => NoSocket(d)
<1> DEFINE t == DeleteTimer(c, k)
<1>1. Good(t) /\ Keeps(c, t) BY DeleteTimerKeeps
<1>2. CASE k = "CALLESTB"
  <2>1. d = MarkClear(t) BY <1>2 DEF TimerOutcomes
  <2> HIDE DEF t
  <2> QED BY <1>1, <2>1, MarkClearKeeps, KeepsTransitive DEF Keeps
<1>3. CASE k \in {"MSD", "TCS"}
  <2>1. d = MarkClear(QueueH245(t, "Plain")) BY <1>3 DEF TimerOutcomes
  <2> HIDE DEF t
  <2>2. Good(QueueH245(t, "Plain")) /\ Keeps(t, QueueH245(t, "Plain"))
    BY <1>1, QueueH245Keeps DEF H245Kinds
  <2> QED BY <1>1, <2>1, <2>2, MarkClearKeeps, KeepsTransitive DEF Keeps
<1>4. CASE k = "CHAN"
  <2>1. d \in ChanTimerOutcomes(t) BY <1>4 DEF TimerOutcomes
  <2> HIDE DEF t
  <2>2. PICK e \in {t, QueueH245(t, "Chan"), QueueH245(t, "Plain")} :
          d = MarkClear(e) \/ d = MarkClear([e EXCEPT !.chans = FALSE])
    BY <2>1 DEF ChanTimerOutcomes
  <2>3. Good(e) /\ Keeps(t, e)
    BY <1>1, QueueH245Keeps, KeepsReflexive DEF H245Kinds
  <2>4. Good([e EXCEPT !.chans = FALSE]) /\ Keeps(e, [e EXCEPT !.chans = FALSE])
    BY <2>3, NegotiationKeeps
  <2>5. Good(d) /\ Keeps(e, d)
    BY <2>2, <2>3, <2>4, MarkClearKeeps, KeepsTransitive
  <2> QED BY <1>1, <2>3, <2>5, KeepsTransitive DEF Keeps
<1>5. CASE k = "SESSION"
  <2> DEFINE s == IF t.session \in {"IDLE", "CLOSED", "PAUSED"} THEN t
                  ELSE CloseH245Connection(t)
  <2>1. d = IF s.callState = "CLEAR_RELEASESENT"
            THEN [s EXCEPT !.callState = "CLEARED"] ELSE s
    BY <1>5 DEF TimerOutcomes, SessionTimerExpired
  <2> HIDE DEF t
  <2>2. Good(s) /\ Keeps(t, s) BY <1>1, CloseH245ConnectionKeeps, KeepsReflexive
  <2> HIDE DEF s
  <2>3. "CLEARED" \in CallStates /\ "CLEARED" \in Clearing BY DEF CallStates, Clearing
  <2>4. [s EXCEPT !.callState = "CLEARED"] \in Call
    BY <2>2, <2>3, ZenonT(30) DEF Good, Call
  <2>5. /\ Same(s, [s EXCEPT !.callState = "CLEARED"])
        /\ [s EXCEPT !.callState = "CLEARED"].session = s.session
        /\ [s EXCEPT !.callState = "CLEARED"].callState = "CLEARED"
    BY <2>2 DEF Good, Call, Same
  <2>6. Good(d) /\ Keeps(s, d)
    BY <2>1, <2>2, <2>3, <2>4, <2>5, SameKeeps, KeepsReflexive
  <2> QED BY <1>1, <2>2, <2>6, KeepsTransitive DEF Keeps
<1>6. CASE k = "H245CONNECT"
  <2> DEFINE n == t.attempts + 1
             a == [t EXCEPT !.attempts = n]
  <2>1. d = CreateH245Connection(a, connected) BY <1>6 DEF TimerOutcomes
  <2>2. Apart(c) /\ ~NoSocket(c) /\ c.h245Port
    <3>1. c.timers["H245CONNECT"] # 0 BY <1>6
    <3> QED BY <3>1 DEF Good, TunnelOK, NoSocket, Apart
  <2>9. t.h245Port = c.h245Port BY DEF DeleteTimer, Good, Call
  <2> HIDE DEF t
  <2>3. n \in Nat BY <1>1 DEF Good, Call
  <2> HIDE DEF n
  <2>4. a \in Call BY <1>1, <2>3, ZenonT(30) DEF Good, Call
  <2>5. Same(t, a) /\ a.session = t.session /\ a.callState = t.callState
    BY <1>1 DEF Good, Call, Same
  <2>6. Good(a) /\ Keeps(t, a) BY <1>1, <2>4, <2>5, SameKeeps
  <2> HIDE DEF a
  <2>7. Apart(a) /\ a.h245Port
    BY <1>1, <2>2, <2>5, <2>6, <2>9 DEF Keeps, Steady, Frame, Apart, Same
  <2>8. Good(d) /\ Steady(a, d) /\ d.tunneling = a.tunneling
    BY <2>1, <2>6, <2>7, CreateH245ConnectionSteady
  <2> QED BY <1>1, <2>2, <2>6, <2>8, SteadyTransitive DEF Keeps
<1> QED BY <1>2, <1>3, <1>4, <1>5, <1>6 DEF TimerKinds

\* What was tunneled goes to an H.245 connection of its own from now on.
LEMMA TunnelingOffSteady ==
  ASSUME NEW c, Good(c)
  PROVE  Good([c EXCEPT !.tunneling = FALSE]) /\ Steady(c, [c EXCEPT !.tunneling = FALSE])
<1> DEFINE d == [c EXCEPT !.tunneling = FALSE]
<1>1. c \in Call BY DEF Good
<1>2. d \in Call BY <1>1, ZenonT(30) DEF Call
<1>3. TunnelOK(d) BY <1>1 DEF Good, Call, TunnelOK
<1>4. ReleaseOK(d) BY <1>1 DEF Good, Call, ReleaseOK, ReleaseQueued
<1>5. Steady(c, d)
  BY <1>1 DEF Call, Steady, Frame, Sendable, Apart, Excused, ReleaseQueued
<1> QED BY <1>2, <1>3, <1>4, <1>5 DEF Good

\* CallProceeding or Alerting, with its errors.
LEMMA OnProgressSteady ==
  ASSUME NEW c, Good(c), NEW d \in OnProgressOutcomes(c)
  PROVE  Good(d) /\ Steady(c, d)
<1> DEFINE o == [c EXCEPT !.tunneling = FALSE]
<1>1. Good(o) /\ Steady(c, o) BY TunnelingOffSteady
<1>2. d \in {c, MarkClear(c), OnH245Address(c), MarkClear(o)} BY DEF OnProgressOutcomes
<1> HIDE DEF o
<1>3. Good(MarkClear(o)) /\ Steady(c, MarkClear(o))
  BY <1>1, MarkClearKeeps, SteadyTransitive DEF Keeps
<1> QED BY <1>2, <1>3, MarkClearKeeps, OnH245AddressSteady, KeepsReflexive DEF Keeps

\* What a Setup keeps, and what the call it places again keeps.
Placed(c, d) ==
  /\ d.callType = c.callType /\ d.gone = c.gone
  /\ d.relBuilt = c.relBuilt /\ d.rcSent = c.rcSent
  /\ d.crashed = c.crashed /\ (c.retunneled => d.retunneled)
  /\ c.h225 = "open" => d.h225 = "open"
  /\ c.callState \in Clearing => d.callState \in Clearing
  /\ c.callState = "CLEARED" => d.callState = "CLEARED"
  /\ c.session # "PAUSED" => d.session # "PAUSED"
  /\ ReleaseQueued(d) => ReleaseQueued(c)

\* What two of them keep in turn ...
LEMMA PlacedTransitive ==
  ASSUME NEW c, NEW d, NEW e, Placed(c, d), Placed(d, e) PROVE Placed(c, e)
BY DEF Placed

\* ... also when the second keeps more, and a channel.
LEMMA PlacedKeeps ==
  ASSUME NEW c, NEW d, Keeps(c, d), c.h225 = "open", d.crashed = c.crashed PROVE Placed(c, d)
BY DEF Placed, Keeps, Steady, Frame

\* Marking the call, and queueing on an open channel, crash nothing.
LEMMA QuietlyKept ==
  ASSUME NEW c, Good(c), c.h225 = "open", NEW m \in Q931Kinds \ {"ReleaseComplete"}
  PROVE  /\ Good(MarkClear(c)) /\ Placed(c, MarkClear(c)) /\ MarkClear(c).setup = c.setup
         /\ Good(SendH225Msg(c, m)) /\ Placed(c, SendH225Msg(c, m))
         /\ SendH225Msg(c, m).setup = c.setup
<1>1. MarkClear(c).crashed = c.crashed BY DEF MarkClear, Good, Call
<1>2. SendH225Msg(c, m).crashed = c.crashed BY DEF SendH225Msg, Good, Call
<1> QED BY <1>1, <1>2, MarkClearKeeps, SendH225MsgKeeps, PlacedKeeps
        DEF Keeps, Steady, Frame

\* A connection that is made again, or not: the record says nothing of the old one.
LEMMA ChannelPlaced ==
  ASSUME NEW c, Good(c), NEW v \in {"nosock", "open"}, NEW l \in BOOLEAN,
         c.h225 = "open" => v = "open"
  PROVE  LET d == [c EXCEPT !.h225 = v, !.leak = l]
         IN  Good(d) /\ Placed(c, d) /\ d.h225 = v /\ d.setup = c.setup
<1> DEFINE d == [c EXCEPT !.h225 = v, !.leak = l]
<1>1. c \in Call BY DEF Good
<1>2. v \in {"none", "nosock", "open"} OBVIOUS
<1>3. d \in Call BY <1>1, <1>2, ZenonT(30) DEF Call
<1>4. TunnelOK(d) BY <1>1 DEF Good, Call, TunnelOK, NoSocket
<1>5. ReleaseOK(d) BY <1>1 DEF Good, Call, ReleaseOK, ReleaseQueued
<1>6. Placed(c, d) /\ d.h225 = v /\ d.setup = c.setup
  BY <1>1 DEF Call, Placed, ReleaseQueued
<1> QED BY <1>3, <1>4, <1>5, <1>6 DEF Good

\* Placing a call: after it there is a signalling channel, with a socket or without.
LEMMA PlaceCallPlaced ==
  ASSUME NEW c, Good(c), NEW connected \in BOOLEAN,
         NEW d \in PlaceCallOutcomes(c, connected)
  PROVE  Good(d) /\ Placed(c, d) /\ d.h225 # "none" /\ d.setup = c.setup
<1> DEFINE l == c.leak \/ c.h225 = "open"
           v == IF c.h225 = "none" THEN "nosock" ELSE c.h225
           o == [c EXCEPT !.h225 = "open", !.leak = l]
           f == [c EXCEPT !.h225 = v, !.leak = TRUE]
<1>1. c \in Call /\ l \in BOOLEAN /\ TRUE \in BOOLEAN BY DEF Good, Call
<1>2. v \in {"nosock", "open"} /\ (c.h225 = "open" => v = "open") BY <1>1 DEF Call
<1>3. \/ d \in {SendH225Msg(o, "Setup"), MarkClear(o)}
      \/ d = MarkClear(f)
  BY Zenon DEF PlaceCallOutcomes
<1> HIDE DEF l, v
<1>4. Good(o) /\ Placed(c, o) /\ o.h225 = "open" /\ o.setup = c.setup
  BY <1>1, ChannelPlaced
<1>9. Good(f) /\ Placed(c, f) /\ f.h225 = v /\ f.setup = c.setup
  BY <1>1, <1>2, ChannelPlaced
<1>5. f.crashed = c.crashed BY <1>9 DEF Placed
<1> HIDE DEF o, f
<1>6. "Setup" \in Q931Kinds \ {"ReleaseComplete"} BY DEF Q931Kinds
<1>7. CASE d \in {SendH225Msg(o, "Setup"), MarkClear(o)}
  <2>1. Good(d) /\ Placed(o, d) /\ d.setup = o.setup BY <1>4, <1>6, <1>7, QuietlyKept
  <2>2. d.h225 = "open" BY <1>4, <2>1 DEF Placed
  <2> QED BY <1>4, <2>1, <2>2, PlacedTransitive
<1>8. CASE d = MarkClear(f)
  <2>1. Good(d) /\ Keeps(f, d) BY <1>8, <1>9, MarkClearKeeps
  <2>2. d.crashed = f.crashed BY <1>8, <1>9 DEF MarkClear, Good, Call
  <2>3. d.h225 = v /\ d.setup = c.setup BY <1>9, <2>1 DEF Keeps, Steady, Frame
  <2>4. Placed(f, d) BY <1>9, <2>1, <2>2 DEF Placed, Keeps, Steady, Frame
  <2>5. Placed(c, d) BY <1>9, <2>4, PlacedTransitive
  <2> QED BY <1>2, <2>1, <2>3, <2>5
<1> QED BY <1>3, <1>7, <1>8

\* A Setup may turn tunneling on: beside a separate H.245 connection only with the
\* mark that says so.
LEMMA OnSetupPlaced ==
  ASSUME NEW c, Good(c), c.h225 = "open", NEW b \in BOOLEAN, NEW connected \in BOOLEAN,
         NEW d \in OnSetupOutcomes(c, b, connected)
  PROVE  Good(d) /\ Placed(c, d) /\ d.setup
<1> DEFINE r == c.retunneled \/ (b /\ ~c.tunneling /\ H245Separate(c))
           s == [c EXCEPT !.setup = TRUE, !.tunneling = b, !.retunneled = r]
           proceeding == { SendH225Msg(x, "Plain") : x \in {s, MarkClear(s)} }
<1>1. c \in Call BY DEF Good
<1>2. r \in BOOLEAN BY <1>1 DEF Call, H245Separate
<1>3. b /\ ~r => /\ NoSocket(c) /\ c.h245Out = <<>>
  <2>1. CASE c.tunneling BY <2>1 DEF Good, TunnelOK
  <2>2. CASE ~c.tunneling BY <2>2 DEF Good, TunnelOK, H245Separate, NoSocket
  <2> QED BY <2>1, <2>2
<1>4. c.retunneled => r OBVIOUS
<1>5. \/ d \in proceeding
      \/ \E x \in proceeding : d = SendH225Msg(x, "Plain")
      \/ \E x \in proceeding : d \in PlaceCallOutcomes(x, connected)
  <2>1. d \in LET t == [c EXCEPT !.setup = TRUE, !.tunneling = b,
                          !.retunneled = @ \/ (b /\ ~c.tunneling /\ H245Separate(c))]
                  pr == { SendH225Msg(x, "Plain") : x \in {t, MarkClear(t)} }
              IN IF c.callType = "incoming"
                 THEN pr \cup { SendH225Msg(x, "Plain") : x \in pr }
                 ELSE UNION { PlaceCallOutcomes(x, connected) : x \in pr }
    BY DEF OnSetupOutcomes
  <2>2. s = [c EXCEPT !.setup = TRUE, !.tunneling = b,
                      !.retunneled = @ \/ (b /\ ~c.tunneling /\ H245Separate(c))]
    OBVIOUS
  <2>3. d \in IF c.callType = "incoming"
              THEN proceeding \cup { SendH225Msg(x, "Plain") : x \in proceeding }
              ELSE UNION { PlaceCallOutcomes(x, connected) : x \in proceeding }
    BY <2>1, <2>2, Zenon
  <2> HIDE DEF proceeding
  <2> QED BY <2>3
<1> HIDE DEF r
<1>6. s \in Call BY <1>1, <1>2, ZenonT(30) DEF Call
<1>7. TunnelOK(s) BY <1>1, <1>2, <1>3 DEF Good, Call, TunnelOK, NoSocket
<1>8. ReleaseOK(s) BY <1>1 DEF Good, Call, ReleaseOK, ReleaseQueued
<1>9. Placed(c, s) /\ s.h225 = "open" /\ s.setup
  BY <1>1, <1>4 DEF Call, Placed, ReleaseQueued
<1>10. Good(s) BY <1>6, <1>7, <1>8 DEF Good
<1> HIDE DEF s
<1>11. "Plain" \in Q931Kinds \ {"ReleaseComplete"} BY DEF Q931Kinds, H245Kinds
<1>12. ASSUME NEW x \in {s, MarkClear(s)}
       PROVE  Good(x) /\ Placed(c, x) /\ x.h225 = "open" /\ x.setup
  <2>1. Good(MarkClear(s)) /\ Placed(s, MarkClear(s)) /\ MarkClear(s).setup = s.setup
    BY <1>9, <1>10, <1>11, QuietlyKept
  <2>2. Placed(c, MarkClear(s)) BY <1>9, <2>1, PlacedTransitive
  <2> QED BY <1>9, <1>10, <2>1, <2>2 DEF Placed
<1>13. ASSUME NEW x, Good(x), Placed(c, x), x.h225 = "open", x.setup
       PROVE  LET y == SendH225Msg(x, "Plain")
              IN  Good(y) /\ Placed(c, y) /\ y.h225 = "open" /\ y.setup
  <2> DEFINE y == SendH225Msg(x, "Plain")
  <2>1. Good(y) /\ Placed(x, y) /\ y.setup = x.setup BY <1>11, <1>13, QuietlyKept
  <2> HIDE DEF y
  <2>2. Placed(c, y) BY <1>13, <2>1, PlacedTransitive
  <2> QED BY <1>13, <2>1, <2>2 DEF Placed, y
<1>14. \A x \in proceeding : Good(x) /\ Placed(c, x) /\ x.h225 = "open" /\ x.setup
  BY <1>12, <1>13
<1> HIDE DEF proceeding
<1>15. ASSUME NEW x \in proceeding, d \in PlaceCallOutcomes(x, connected)
       PROVE  Good(d) /\ Placed(c, d) /\ d.setup
  BY <1>14, <1>15, PlaceCallPlaced, PlacedTransitive
<1> QED BY <1>5, <1>13, <1>14, <1>15

\* A Connect that has none of the errors, with its tunneled message, if any.
LEMMA OnGoodConnectFrame ==
  ASSUME NEW u, Good(u), NEW control, NEW connected \in BOOLEAN,
         NEW m, NEW ok \in BOOLEAN,
         NEW d \in OnGoodConnectOutcomes(u, control, connected, m, ok)
  PROVE  Good(d) /\ Frame(u, d) /\ (m # "EmptyTCS" => Steady(u, d))
<1> DEFINE a == IF control = "address" THEN OnH245Address(u) ELSE u
           n == IF a.h245Port THEN CreateH245Connection(a, connected) ELSE a
           b == n.tunneling /\ control = "tunnel"
           t == [n EXCEPT !.tunneling = b]
           hs == IF m = "none" THEN {t} ELSE HandleH245Outcomes(t, m, ok)
           Start(x) == LET s == IF x.localTCS = "Idle" THEN SendTermCapMsg(x) ELSE x
                       IN SendMasterSlaveDetermination(s)
<1>1. Good(a) /\ Steady(u, a) BY OnH245AddressSteady, KeepsReflexive DEF Keeps
<1>2. d = n \/ d = t \/ \E x \in hs : d = Start(x)
  BY Zenon DEF OnGoodConnectOutcomes, t, n, a
<1> HIDE DEF a
<1>3. a.h245Port => Apart(a) BY <1>1 DEF Good, Call, TunnelOK, NoSocket, Apart
<1>4. Good(n) /\ Steady(u, n)
  BY <1>1, <1>3, CreateH245ConnectionSteady, SteadyTransitive
<1> HIDE DEF n
<1>5. Good(t) /\ Steady(n, t)
  <2>1. b \in BOOLEAN /\ (b => n.tunneling) BY <1>4 DEF Good, Call
  <2> HIDE DEF b
  <2>2. t \in Call BY <1>4, <2>1, ZenonT(30) DEF Good, Call
  <2>3. TunnelOK(t) BY <1>4, <2>1 DEF Good, Call, TunnelOK, NoSocket
  <2>4. ReleaseOK(t) BY <1>4 DEF Good, Call, ReleaseOK, ReleaseQueued
  <2>5. Steady(n, t)
    BY <1>4, <2>1
    DEF Good, Call, Steady, Frame, Sendable, Apart, Excused, ReleaseQueued
  <2> QED BY <2>2, <2>3, <2>4, <2>5 DEF Good
<1> HIDE DEF t
<1>6. \A x \in hs : Good(x) /\ Frame(t, x) /\ (m # "EmptyTCS" => Steady(t, x))
  BY <1>5, HandleH245Frame, HandleH245Keeps, KeepsReflexive DEF Keeps, Steady
<1>7. ASSUME NEW x \in hs, d = Start(x)
      PROVE  Good(d) /\ Frame(t, d) /\ (m # "EmptyTCS" => Steady(t, d))
  <2> DEFINE s == IF x.localTCS = "Idle" THEN SendTermCapMsg(x) ELSE x
  <2>1. Good(x) /\ Frame(t, x) /\ (m # "EmptyTCS" => Steady(t, x)) BY <1>6
  <2>2. Good(s) /\ Keeps(x, s) BY <2>1, SendTermCapMsgKeeps, KeepsReflexive
  <2>3. d = SendMasterSlaveDetermination(s) BY <1>7
  <2> HIDE DEF s
  <2>4. Good(d) /\ Keeps(x, d)
    BY <2>2, <2>3, SendMasterSlaveDeterminationKeeps, KeepsTransitive
  <2> QED BY <2>1, <2>4, FrameTransitive, SteadyTransitive DEF Keeps, Steady
<1>8. Good(d) /\ Frame(n, d) /\ (m # "EmptyTCS" => Steady(n, d))
  BY <1>2, <1>4, <1>5, <1>7, KeepsReflexive, FrameTransitive, SteadyTransitive
  DEF Keeps, Steady
<1> QED BY <1>4, <1>8, FrameTransitive, SteadyTransitive DEF Steady

\* Any Connect.
LEMMA OnConnectFrame ==
  ASSUME NEW c, Good(c), NEW control, NEW connected \in BOOLEAN,
         NEW m, NEW ok \in BOOLEAN,
         NEW d \in OnConnectOutcomes(c, control, connected, m, ok)
  PROVE  Good(d) /\ Frame(c, d) /\ (m # "EmptyTCS" => Steady(c, d))
<1> DEFINE u == DeleteTimer(c, "CALLESTB")
           o == [u EXCEPT !.tunneling = FALSE]
<1>1. Good(u) /\ Keeps(c, u) BY DeleteTimerKeeps DEF TimerKinds
<1>2. d \in {u, MarkClear(u), MarkClear(o)}
      \/ d \in OnGoodConnectOutcomes(u, control, connected, m, ok)
  BY DEF OnConnectOutcomes
<1> HIDE DEF u
<1>3. Good(o) /\ Steady(u, o) BY <1>1, TunnelingOffSteady
<1> HIDE DEF o
<1>4. Good(MarkClear(o)) /\ Steady(u, MarkClear(o))
  BY <1>3, MarkClearKeeps, SteadyTransitive DEF Keeps
<1>5. CASE d \in {u, MarkClear(u), MarkClear(o)}
  <2>1. Good(d) /\ Steady(u, d)
    BY <1>1, <1>4, <1>5, MarkClearKeeps, KeepsReflexive DEF Keeps
  <2>2. Steady(c, d) BY <1>1, <2>1, SteadyTransitive DEF Keeps
  <2> QED BY <2>1, <2>2 DEF Steady
<1>6. CASE d \in OnGoodConnectOutcomes(u, control, connected, m, ok)
  <2>1. Good(d) /\ Frame(u, d) /\ (m # "EmptyTCS" => Steady(u, d))
    BY <1>1, <1>6, OnGoodConnectFrame
  <2> QED BY <1>1, <2>1, FrameTransitive, SteadyTransitive DEF Keeps, Steady
<1> QED BY <1>2, <1>5, <1>6

\* The peer's ReleaseComplete clears the call.
LEMMA OnReleaseCompleteKeeps ==
  ASSUME NEW c, Good(c)
  PROVE  /\ Good(OnReleaseComplete(c)) /\ Keeps(c, OnReleaseComplete(c))
         /\ OnReleaseComplete(c).callState = "CLEARED"
<1> DEFINE t == DeleteTimer(c, "SESSION")
           e == IF c.session \in {"IDLE", "CLOSED"} THEN t ELSE CloseH245Connection(t)
           r == [e EXCEPT !.callState = "CLEARED", !.rcRecvd = TRUE]
<1>1. Good(t) /\ Keeps(c, t) BY DeleteTimerKeeps DEF TimerKinds
<1>2. OnReleaseComplete(c) = r BY DEF OnReleaseComplete
<1> HIDE DEF t
<1>3. Good(e) /\ Keeps(t, e) BY <1>1, CloseH245ConnectionKeeps, KeepsReflexive
<1> HIDE DEF e
<1>4. "CLEARED" \in CallStates /\ "CLEARED" \in Clearing /\ TRUE \in BOOLEAN
  BY DEF CallStates, Clearing
<1>5. r \in Call BY <1>3, <1>4, ZenonT(30) DEF Good, Call
<1>6. Same(e, r) /\ r.session = e.session /\ r.callState = "CLEARED"
  BY <1>3 DEF Good, Call, Same
<1> HIDE DEF r
<1>7. Good(r) /\ Keeps(e, r) BY <1>3, <1>4, <1>5, <1>6, SameKeeps
<1> QED BY <1>1, <1>2, <1>3, <1>6, <1>7, KeepsTransitive

\* A Facility that forwards the call.
LEMMA OnFacilityForwardedKeeps ==
  ASSUME NEW c, Good(c), NEW d \in OnFacilityForwardedOutcomes(c)
  PROVE  Good(d) /\ Keeps(c, d)
<1> DEFINE f == [c EXCEPT !.fwd = TRUE]
<1>1. f \in Call BY ZenonT(30) DEF Good, Call
<1>2. Same(c, f) /\ f.session = c.session /\ f.callState = c.callState
  BY DEF Good, Call, Same
<1>3. Good(f) /\ Keeps(c, f) BY <1>1, <1>2, SameKeeps
<1>4. d \in {MarkClear(c), MarkClear(f), f} BY DEF OnFacilityForwardedOutcomes
<1> HIDE DEF f
<1> QED BY <1>3, <1>4, MarkClearKeeps, KeepsTransitive

\* The command OO_CMD_HANGCALL.
LEMMA HangCallKeeps ==
  ASSUME NEW c, Good(c) PROVE Good(HangCall(c)) /\ Keeps(c, HangCall(c))
<1> DEFINE h == [c EXCEPT !.hung = TRUE]
<1>1. h \in Call BY ZenonT(30) DEF Good, Call
<1>2. Same(c, h) /\ h.session = c.session /\ h.callState = c.callState
  BY DEF Good, Call, Same
<1>3. Good(h) /\ Keeps(c, h) BY <1>1, <1>2, SameKeeps
<1> HIDE DEF h
<1> QED BY <1>3, MarkClearKeeps, KeepsTransitive DEF HangCall, h

\* The command OO_CMD_ANSCALL, while the signalling channel exists.
LEMMA AcceptCallSteady ==
  ASSUME NEW c, Good(c), c.h225 # "none"
  PROVE  /\ Good(AcceptCall(c)) /\ Steady(c, AcceptCall(c))
         /\ AcceptCall(c).tunneling = c.tunneling
<1> DEFINE k == c.leak \/ c.listener
           o == [c EXCEPT !.listener = TRUE, !.leak = k]
           l == IF c.tunneling THEN c ELSE o
           s == SendH225Msg(l, "Connect")
           t == SendTermCapMsg(s)
<1>1. AcceptCall(c) = SendMasterSlaveDetermination(t)
  BY Zenon DEF AcceptCall
<1>2. Good(l) /\ Steady(c, l) /\ l.tunneling = c.tunneling
  <2>1. c \in Call /\ k \in BOOLEAN /\ TRUE \in BOOLEAN BY DEF Good, Call
  <2> HIDE DEF k
  <2>2. o \in Call BY <2>1, ZenonT(30) DEF Call
  <2>3. ~c.tunneling => TunnelOK(o) BY <2>1 DEF Good, Call, TunnelOK
  <2>4. ReleaseOK(o) BY <2>1 DEF Good, Call, ReleaseOK, ReleaseQueued
  <2>5. Steady(c, o) /\ o.tunneling = c.tunneling
    BY <2>1 DEF Call, Steady, Frame, Sendable, Apart, Excused, ReleaseQueued
  <2> QED BY <2>2, <2>3, <2>4, <2>5, KeepsReflexive DEF Good, Keeps
<1> HIDE DEF l
<1>3. "Connect" \in Q931Kinds \ {"ReleaseComplete"} BY DEF Q931Kinds
<1>4. l.h225 # "none" BY <1>2 DEF Steady, Frame
<1>5. Good(s) /\ Keeps(l, s) BY <1>2, <1>3, <1>4, SendH225MsgKeeps
<1> HIDE DEF s
<1>6. Good(t) /\ Keeps(s, t) BY <1>5, SendTermCapMsgKeeps
<1> HIDE DEF t
<1>7. Good(AcceptCall(c)) /\ Keeps(l, AcceptCall(c))
  BY <1>1, <1>5, <1>6, SendMasterSlaveDeterminationKeeps, KeepsTransitive
<1> QED BY <1>2, <1>7, SteadyTransitive DEF Keeps

\* A command may find the signalling channel freed: even then the record stays
\* a good one.
LEMMA SendH225MsgGood ==
  ASSUME NEW c, Good(c), NEW m \in Q931Kinds \ {"ReleaseComplete"}
  PROVE  Good(SendH225Msg(c, m))
<1> DEFINE d == [c EXCEPT !.crashed = TRUE]
<1>1. CASE c.h225 = "none"
  <2>1. d \in Call BY ZenonT(30) DEF Good, Call
  <2>2. TunnelOK(d) BY DEF Good, Call, TunnelOK, NoSocket
  <2>3. ReleaseOK(d) BY DEF Good, Call, ReleaseOK, ReleaseQueued
  <2> QED BY <1>1, <2>1, <2>2, <2>3 DEF Good, SendH225Msg
<1>2. CASE c.h225 # "none" BY <1>2, SendH225MsgKeeps
<1> QED BY <1>1, <1>2

\* The command OO_CMD_ANSCALL, in any state.
LEMMA AcceptCallGood == ASSUME NEW c, Good(c) PROVE Good(AcceptCall(c))
<1> DEFINE k == c.leak \/ c.listener
           o == [c EXCEPT !.listener = TRUE, !.leak = k]
           l == IF c.tunneling THEN c ELSE o
           s == SendH225Msg(l, "Connect")
           t == SendTermCapMsg(s)
<1>1. AcceptCall(c) = SendMasterSlaveDetermination(t)
  BY Zenon DEF AcceptCall
<1>2. Good(l)
  <2>1. c \in Call /\ k \in BOOLEAN /\ TRUE \in BOOLEAN BY DEF Good, Call
  <2> HIDE DEF k
  <2>2. o \in Call BY <2>1, ZenonT(30) DEF Call
  <2>3. ~c.tunneling => TunnelOK(o) BY <2>1 DEF Good, Call, TunnelOK
  <2>4. ReleaseOK(o) BY <2>1 DEF Good, Call, ReleaseOK, ReleaseQueued
  <2> QED BY <2>2, <2>3, <2>4 DEF Good
<1> HIDE DEF l
<1>3. "Connect" \in Q931Kinds \ {"ReleaseComplete"} BY DEF Q931Kinds
<1>4. Good(s) BY <1>2, <1>3, SendH225MsgGood
<1> HIDE DEF s
<1>5. Good(t) BY <1>4, SendTermCapMsgKeeps
<1> HIDE DEF t
<1> QED BY <1>1, <1>5, SendMasterSlaveDeterminationKeeps

-----------------------------------------------------------------------------
\* Creating and ending a call.
LEMMA NewCallGood ==
  ASSUME NEW type \in {"incoming", "outgoing"}, NEW b \in BOOLEAN
  PROVE  Good(NewCall(type, b))
<1>1. NewCall(type, b) \in Call
  BY DEF NewCall, Call, CallStates, Clearing, SessionStates, TimerKinds
<1>2. TunnelOK(NewCall(type, b))
  BY DEF NewCall, TunnelOK, NoSocket, TimerKinds
<1>3. ReleaseOK(NewCall(type, b)) BY DEF NewCall, ReleaseOK, ReleaseQueued
<1> QED BY <1>1, <1>2, <1>3 DEF Good

\* ooCloseH225Connection frees the channel with its queue.
LEMMA CloseH225ConnectionGood ==
  ASSUME NEW c, Good(c)
  PROVE  LET d == CloseH225Connection(c) IN
         /\ Good(d) /\ d.rcSent = c.rcSent /\ d.gone = c.gone
         /\ d.crashed = c.crashed /\ d.retunneled = c.retunneled
         /\ d.session = c.session /\ d.callState = c.callState
         /\ d.h225 = "none" /\ ~ReleaseQueued(d) /\ d.fwd = c.fwd
<1> DEFINE d == CloseH225Connection(c)
<1>1. c \in Call /\ <<>> \in Seq(Q931Kinds) BY DEF Good
<1>2. "none" \in {"none", "nosock", "open"} OBVIOUS
<1>3. d \in Call BY <1>1, <1>2, ZenonT(30) DEF CloseH225Connection, Call
<1>4. TunnelOK(d) BY <1>1 DEF CloseH225Connection, Good, Call, TunnelOK, NoSocket
<1>5. ReleaseOK(d)
  BY <1>1 DEF CloseH225Connection, Good, Call, ReleaseOK, ReleaseQueued
<1> QED BY <1>1, <1>3, <1>4, <1>5
        DEF CloseH225Connection, Good, Call, NoSocket, ReleaseQueued

\* ooCleanCall: the call leaves the list.
LEMMA CleanCallGood ==
  ASSUME NEW c, Good(c)
  PROVE  LET d == CleanCall(c) IN
         /\ Good(d) /\ d.gone # "no" /\ d.rcSent = c.rcSent
         /\ d.crashed = c.crashed /\ d.retunneled = c.retunneled
<1> DEFINE e == [c EXCEPT !.h245Out = <<>>]
           h == IF c.session # "CLOSED" THEN CloseH245Connection(c) ELSE e
           q == IF h.h225 = "open" THEN CloseH225Connection(h) ELSE h
           nt == [k \in TimerKinds |-> 0]
           g == IF c.fwd THEN "forwarded" ELSE "cleared"
           f == Forget(q)
           d == [f EXCEPT !.listener = FALSE, !.timers = nt, !.gone = g]
<1>1. CleanCall(c) = d BY Zenon DEF CleanCall
<1>2. Good(h) /\ Steady(c, h) /\ h.crashed = c.crashed
  <2>1. e \in Call
    <3>1. <<>> \in Seq(H245Kinds) OBVIOUS
    <3> QED BY <3>1, ZenonT(30) DEF Good, Call
  <2>2. TunnelOK(e) BY DEF Good, Call, TunnelOK, NoSocket
  <2>3. ReleaseOK(e) BY DEF Good, Call, ReleaseOK, ReleaseQueued
  <2>4. Steady(c, e) BY DEF Good, Call, Steady, Frame, Sendable, Apart, Excused, ReleaseQueued
  <2>5. e.crashed = c.crashed /\ CloseH245Connection(c).crashed = c.crashed
    BY DEF Good, Call, CloseH245Connection
  <2> QED BY <2>1, <2>2, <2>3, <2>4, <2>5, CloseH245ConnectionKeeps DEF Good, Keeps
<1> HIDE DEF h
<1>3. /\ Good(q) /\ q.rcSent = c.rcSent
      /\ q.crashed = c.crashed /\ q.retunneled = c.retunneled
  BY <1>2, CloseH225ConnectionGood DEF Steady, Frame
<1> HIDE DEF q
<1>4. /\ f \in Call /\ f.rcSent = q.rcSent /\ ~f.tunneling
      /\ f.crashed = q.crashed /\ f.retunneled = q.retunneled
      /\ f.q931Out = <<>> /\ f.h245Out = <<>>
  <2>1. q \in Call /\ q.callType \in {"incoming", "outgoing"} BY <1>3 DEF Good, Call
  <2> DEFINE n == NewCall(q.callType, FALSE)
             n1 == [n EXCEPT !.callState = q.callState, !.session = q.session,
                             !.h225 = q.h225, !.h245 = q.h245]
             n2 == [n1 EXCEPT !.listener = q.listener, !.timers = q.timers,
                              !.hung = q.hung, !.retunneled = q.retunneled]
             n4 == [n2 EXCEPT !.rcSent = q.rcSent]
             n3 == [n4 EXCEPT !.rcRecvd = q.rcRecvd, !.endSent = q.endSent,
                              !.leak = q.leak, !.crashed = q.crashed]
  <2>2. n \in Call /\ n.q931Out = <<>> /\ n.h245Out = <<>> /\ n.tunneling = FALSE
    BY <2>1, NewCallGood DEF Good, NewCall
  <2>3. f = n3 BY DEF Forget, NewCall
  <2> HIDE DEF n
  <2>4. /\ q.callState \in CallStates /\ q.session \in SessionStates
        /\ q.h225 \in {"none", "nosock", "open"} /\ q.h245 \in {"none", "nosock", "open"}
    BY <2>1 DEF Call
  <2>5. n1 \in Call BY <2>2, <2>4, ZenonT(30) DEF Call
  <2>6. n1.q931Out = <<>> /\ n1.h245Out = <<>> /\ n1.tunneling = FALSE BY <2>2 DEF Call
  <2> HIDE DEF n1
  <2>7. /\ q.listener \in BOOLEAN /\ q.timers \in [TimerKinds -> Nat]
        /\ q.hung \in BOOLEAN /\ q.retunneled \in BOOLEAN /\ q.rcSent \in Nat
    BY <2>1 DEF Call
  <2>8. n2 \in Call BY <2>5, <2>7, ZenonT(30) DEF Call
  <2>9. /\ n2.q931Out = <<>> /\ n2.h245Out = <<>> /\ n2.tunneling = FALSE
        /\ n2.retunneled = q.retunneled
    BY <2>5, <2>6 DEF Call
  <2> HIDE DEF n2
  <2>13. n4 \in Call BY <2>7, <2>8, ZenonT(30) DEF Call
  <2>14. /\ n4.q931Out = <<>> /\ n4.h245Out = <<>> /\ n4.tunneling = FALSE
         /\ n4.retunneled = q.retunneled /\ n4.rcSent = q.rcSent
    BY <2>8, <2>9 DEF Call
  <2> HIDE DEF n4
  <2>10. /\ q.rcRecvd \in BOOLEAN /\ q.endSent \in BOOLEAN
         /\ q.leak \in BOOLEAN /\ q.crashed \in BOOLEAN
    BY <2>1 DEF Call
  <2>11. n3 \in Call BY <2>10, <2>13, ZenonT(30) DEF Call
  <2>12. /\ n3.q931Out = <<>> /\ n3.h245Out = <<>> /\ n3.tunneling = FALSE
         /\ n3.retunneled = q.retunneled /\ n3.rcSent = q.rcSent
         /\ n3.crashed = q.crashed
    BY <2>13, <2>14 DEF Call
  <2> QED BY <2>3, <2>11, <2>12
<1> HIDE DEF f
<1>5. nt \in [TimerKinds -> Nat] /\ g \in {"no", "cleared", "forwarded"} /\ g # "no"
      /\ FALSE \in BOOLEAN
  OBVIOUS
<1> HIDE DEF nt, g
<1>11. f \in Call BY <1>4
<1>12. nt \in [TimerKinds -> Nat] /\ g \in {"no", "cleared", "forwarded"} BY <1>5
<1>6. d \in Call
  <2> DEFINE m == [f EXCEPT !.listener = FALSE, !.timers = nt]
  <2>1. m \in Call BY <1>11, <1>12, ZenonT(30) DEF Call
  <2>2. d = [m EXCEPT !.gone = g] BY <1>11 DEF Call
  <2> HIDE DEF m, d
  <2>3. [m EXCEPT !.gone = g] \in Call BY <1>12, <2>1, ZenonT(30) DEF Call
  <2> QED BY <2>2, <2>3
<1>7. /\ d.gone = g /\ d.rcSent = f.rcSent /\ d.crashed = f.crashed
      /\ d.retunneled = f.retunneled /\ d.timers = nt /\ d.h245Out = f.h245Out
      /\ d.tunneling = f.tunneling /\ d.q931Out = f.q931Out
  BY <1>4 DEF Call
<1>10. nt["H245CONNECT"] = 0 BY DEF nt, TimerKinds
<1> HIDE DEF d
<1>8. TunnelOK(d) BY <1>4, <1>7, <1>10 DEF TunnelOK
<1>9. ReleaseOK(d)
  BY <1>3, <1>4, <1>5, <1>7 DEF Good, ReleaseOK, ReleaseQueued
<1> QED BY <1>1, <1>3, <1>4, <1>5, <1>6, <1>7, <1>8, <1>9 DEF Good

\* ooEndCall: one step further, never on a freed channel it did not clear.
LEMMA EndCallGood ==
  ASSUME NEW c, Good(c), c.gone = "no", c.callState \in Clearing, NEW ok \in BOOLEAN
  PROVE  LET d == EndCall(c, ok) IN
         /\ Good(d) /\ d.rcSent = c.rcSent
         /\ (Sendable(c) \/ c.callState = "CLEARED") /\ Excused(c) => Excused(d)
         /\ IF c.callState = "CLEARED" THEN d.gone # "no"
            ELSE /\ d.callType = c.callType /\ d.setup = c.setup /\ d.gone = "no"
                 /\ d.h225 = c.h225 /\ d.tunneling = c.tunneling
                 /\ NoSocket(c) => NoSocket(d)
                 /\ d.callState \in Clearing
                 /\ c.session # "PAUSED" => d.session # "PAUSED"
<1>1. CASE c.callState = "CLEARED"
  <2>1. EndCall(c, ok) = CleanCall(c) BY <1>1 DEF EndCall
  <2> QED BY <1>1, <2>1, CleanCallGood DEF Excused
<1>2. CASE c.callState # "CLEARED"
  <2> DEFINE b == [c EXCEPT !.chans = FALSE]
             s == SendEndSession(b, ok)
             e == IF ~b.endBuilt /\ b.session \in {"ACTIVE", "ENDRECVD"}
                  THEN [s EXCEPT !.endBuilt = TRUE] ELSE b
             x == [e EXCEPT !.callState = "CLEARED"]
             y == [SendH225Msg(e, "ReleaseComplete") EXCEPT !.relBuilt = TRUE]
             q == [e EXCEPT !.q931Out = <<"ReleaseComplete">>]
             z == [q EXCEPT !.relBuilt = TRUE]
             Ended(d) == /\ Good(d) /\ d.rcSent = c.rcSent
                         /\ Sendable(c) /\ Excused(c) => Excused(d)
                         /\ d.callType = c.callType /\ d.setup = c.setup
                         /\ d.gone = "no" /\ d.h225 = c.h225
                         /\ d.tunneling = c.tunneling
                         /\ NoSocket(c) => NoSocket(d)
                         /\ d.callState \in Clearing
                         /\ c.session # "PAUSED" => d.session # "PAUSED"
  <2>1. Good(b) /\ Keeps(c, b) BY NegotiationKeeps
  <2>2. \/ EndCall(c, ok) = x
        \/ EndCall(c, ok) = y /\ e.h225 = "open" /\ ~e.relBuilt
        \/ EndCall(c, ok) = e
    BY <1>2, Zenon DEF EndCall
  <2> HIDE DEF b
  <2>3. Good(s) /\ Keeps(b, s) BY <2>1, SendEndSessionKeeps
  <2> HIDE DEF s
  <2>4. Good([s EXCEPT !.endBuilt = TRUE]) /\ Keeps(s, [s EXCEPT !.endBuilt = TRUE])
    BY <2>3, NegotiationKeeps
  <2>5. Good(e) /\ Keeps(c, e)
    BY <2>1, <2>3, <2>4, KeepsTransitive
  <2> HIDE DEF e
  <2>6. Ended(e) BY <2>5 DEF Keeps, Steady, Frame
  <2>7. Ended(x)
    <3>1. "CLEARED" \in CallStates /\ "CLEARED" \in Clearing BY DEF CallStates, Clearing
    <3>2. x \in Call BY <2>5, <3>1, ZenonT(30) DEF Good, Call
    <3>3. Same(e, x) /\ x.session = e.session /\ x.callState = "CLEARED"
      BY <2>5 DEF Good, Call, Same
    <3> HIDE DEF x
    <3>4. Good(x) /\ Keeps(e, x) BY <2>5, <3>1, <3>2, <3>3, SameKeeps
    <3>5. Keeps(c, x) BY <2>5, <3>4, KeepsTransitive
    <3> QED BY <3>4, <3>5 DEF Keeps, Steady, Frame
  <2>8. ASSUME e.h225 = "open", ~e.relBuilt PROVE Ended(y)
    <3>1. y = z
      BY <2>8 DEF SendH225Msg
    <3>2. e \in Call /\ "ReleaseComplete" \in Q931Kinds BY <2>5 DEF Good, Q931Kinds
    <3>3. <<"ReleaseComplete">> \in Seq(Q931Kinds) BY <3>2
    <3>4. z \in Call
      <4>1. q \in Call BY <3>2, <3>3, ZenonT(30) DEF Call
      <4> HIDE DEF q
      <4> QED BY <4>1, ZenonT(30) DEF Call
    <3>5. e.rcSent = 0 BY <2>6, <2>8 DEF Good, Call, ReleaseOK
    <3>6. TunnelOK(z) BY <2>5 DEF Good, Call, TunnelOK, NoSocket
    <3>7. ReleaseOK(z) BY <2>5, <3>5 DEF Good, Call, ReleaseOK, ReleaseQueued
    <3>8. /\ z.rcSent = e.rcSent /\ z.crashed = e.crashed
          /\ z.retunneled = e.retunneled /\ z.callType = e.callType
          /\ z.setup = e.setup /\ z.gone = e.gone /\ z.h225 = e.h225
          /\ z.tunneling = e.tunneling /\ z.callState = e.callState
          /\ z.session = e.session /\ (NoSocket(e) => NoSocket(z))
      BY <3>2 DEF Call, NoSocket
    <3> HIDE DEF z
    <3> QED BY <2>6, <3>1, <3>4, <3>6, <3>7, <3>8 DEF Good, Excused
  <2> QED BY <1>2, <2>2, <2>6, <2>7, <2>8
<1> QED BY <1>1, <1>2
=============================================================================
