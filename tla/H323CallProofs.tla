--------------------------- MODULE H323CallProofs ---------------------------
(* Proofs about a call in the monitor thread, for every value of the          *)
(* constants.                                                                 *)
EXTENDS H323Call, CallDataProofs

Others ==
  /\ pc \in Phases
  /\ ready \subseteq Ports
  /\ peer \in Peers
  /\ cmds \in 0..MaxCmds

IInv == Others /\ Good(call)

\* The pass starts with nothing ready.
LEMMA InitOthers == Init => Others
BY ConfigAssumption DEF Init, Others, Phases, Ports, Peers

\* A call just created, accepted, made or not reached: its channel is there, and it
\* has sent nothing, released nothing and paused nothing yet.
Newborn(c) ==
  /\ Good(c) /\ ~c.crashed /\ c.session # "PAUSED" /\ c.h225 # "none"
  /\ ~ReleaseQueued(c) /\ c.rcSent = 0 /\ c.gone = "no"

\* No call starts paused, released or without its signalling channel.
LEMMA InitCall == Init => Newborn(call)
<1> SUFFICES ASSUME Init PROVE Newborn(call) OBVIOUS
<1>1. EpTunneling \in BOOLEAN BY ConfigAssumption
<1>2. ASSUME NEW type \in {"incoming", "outgoing"}, NEW t \in BOOLEAN
      PROVE  Newborn(NewCall(type, t))
  <2>1. Good(NewCall(type, t)) BY NewCallGood
  <2> QED BY <2>1 DEF Newborn, NewCall, ReleaseQueued
<1>3. CASE call = IncomingCall BY <1>1, <1>2, <1>3 DEF IncomingCall
<1>4. CASE call = MarkClear(IncomingCall)
  <2> DEFINE i == IncomingCall
  <2>1. Newborn(i) BY <1>1, <1>2 DEF IncomingCall
  <2> HIDE DEF i
  <2>2. Good(MarkClear(i)) /\ Keeps(i, MarkClear(i)) BY <2>1, MarkClearKeeps DEF Newborn
  <2>3. MarkClear(i).crashed = i.crashed BY <2>1 DEF Newborn, MarkClear, Good, Call
  <2>4. Newborn(MarkClear(i)) BY <2>1, <2>2, <2>3 DEF Newborn, Keeps, Steady, Frame
  <2> QED BY <1>4, <2>4 DEF i
<1>5. ASSUME NEW t \in {FALSE, EpTunneling}, call \in OutgoingCalls(t) PROVE Newborn(call)
  <2> DEFINE n == NewCall("outgoing", t)
             u == [n EXCEPT !.h225 = "none"]
  <2>1. Newborn(n) BY <1>1, <1>2
  <2>2. PICK connected \in BOOLEAN : call \in PlaceCallOutcomes(u, connected)
    BY <1>5 DEF OutgoingCalls
  <2> HIDE DEF n
  <2>3. n \in Call /\ "none" \in {"none", "nosock", "open"} BY <2>1 DEF Newborn, Good
  <2>4. u \in Call BY <2>3, ZenonT(30) DEF Call
  <2>5. TunnelOK(u) BY <2>1, <2>3 DEF Newborn, Good, Call, TunnelOK, NoSocket
  <2>6. ReleaseOK(u) BY <2>1, <2>3 DEF Newborn, Good, Call, ReleaseOK, ReleaseQueued
  <2>7. /\ ~u.crashed /\ u.session # "PAUSED" /\ ~ReleaseQueued(u) /\ u.rcSent = 0
        /\ u.gone = "no"
    BY <2>1, <2>3 DEF Newborn, Call, ReleaseQueued
  <2> HIDE DEF u
  <2>8. Good(call) /\ Placed(u, call) /\ call.h225 # "none"
    BY <2>2, <2>4, <2>5, <2>6, PlaceCallPlaced DEF Good
  <2> QED BY <2>7, <2>8 DEF Newborn, Placed
<1> QED BY <1>3, <1>4, <1>5 DEF Init

\* Such a call satisfies the invariant.
LEMMA InitIInv == Init => IInv
BY InitOthers, InitCall DEF IInv, Newborn

-----------------------------------------------------------------------------
\* What the actions do to the peer keeps its type.
LEMMA PeerTypes ==
  ASSUME Others, NEW b \in {"up", "closed"}
  PROVE  /\ [peer EXCEPT !.h225 = b] \in Peers /\ [peer EXCEPT !.h245 = b] \in Peers
         /\ peer.budget > 0 =>
              /\ [peer EXCEPT !.budget = @ - 1] \in Peers
              /\ [peer EXCEPT !.budget = @ - 1, !.h245 = b] \in Peers
              /\ [peer EXCEPT !.budget = @ - 1, !.h225 = b] \in Peers
<1>1. peer \in Peers BY DEF Others
<1>2. peer.budget > 0 => peer.budget - 1 \in 0..MaxMsgs
  BY <1>1, ConfigAssumption DEF Peers
<1>3. [peer EXCEPT !.h225 = b] \in Peers /\ [peer EXCEPT !.h245 = b] \in Peers
  BY <1>1 DEF Peers
<1>4. ASSUME peer.budget > 0
      PROVE  /\ [peer EXCEPT !.budget = @ - 1] \in Peers
             /\ [peer EXCEPT !.budget = @ - 1, !.h245 = b] \in Peers
             /\ [peer EXCEPT !.budget = @ - 1, !.h225 = b] \in Peers
  BY <1>1, <1>2, <1>4 DEF Peers
<1> QED BY <1>3, <1>4

\* So does a message of the peer.
LEMMA PeerSaysTypes == ASSUME Others, PeerSays PROVE peer' \in Peers
<1>1. "up" \in {"up", "closed"} OBVIOUS
<1> QED BY <1>1, PeerTypes DEF PeerSays

\* Coming to a port keeps the types of the pass.
LEMMA TakesTypes ==
  ASSUME Others, NEW p \in Ports, Takes(p) PROVE pc' \in Phases /\ ready' \subseteq Ports
BY DEF Others, Takes, Phases

\* Every step keeps the types of what is not the call record.
LEMMA OthersNext == Others /\ [Step]_vars => Others'
<1> SUFFICES ASSUME Others, [Step]_vars PROVE Others' OBVIOUS
<1>1. {"q931In", "h245In", "accept", "h245Out", "q931Out"} \subseteq Ports BY DEF Ports
<1>2. peer \in Peers /\ peer.h245 \in {"up", "closed"} /\ peer.h225 \in {"up", "closed"}
  BY DEF Others, Peers
<1>3. CASE Select BY <1>3 DEF Others, Phases, Select, Ports
<1>4. CASE Command
  <2>1. cmds - 1 \in 0..MaxCmds
    BY <1>4, ConfigAssumption DEF Others, Command
  <2> QED BY <1>4, <2>1 DEF Others, Phases, Command
<1>5. ASSUME NEW k \in TimerKinds, FireTimer(k) PROVE Others'
  BY <1>5, PeerTypes DEF FireTimer, Others, Phases
<1>6. CASE ReceiveH225Closed
  BY <1>1, <1>6, TakesTypes DEF ReceiveH225Closed, Q931Receive, Others
<1>7. CASE \/ ReceiveBadQ931 \/ ReceiveProgress
           \/ ReceiveReleaseComplete \/ ReceiveTunneled \/ ReceiveForward
  BY <1>1, <1>7, TakesTypes, PeerSaysTypes
  DEF ReceiveBadQ931, ReceiveProgress, ReceiveReleaseComplete,
      ReceiveTunneled, ReceiveForward, Q931Receive, Others
<1>16. CASE ReceiveSetup
  <2>1. PICK b \in {"up", "closed"} : peer' = [peer EXCEPT !.budget = @ - 1, !.h225 = b]
    BY <1>2, <1>16 DEF ReceiveSetup
  <2>2. peer' \in Peers BY <1>16, <2>1, PeerTypes DEF ReceiveSetup
  <2>3. pc' \in Phases /\ ready' \subseteq Ports /\ UNCHANGED cmds
    BY <1>16 DEF ReceiveSetup, Others, Phases
  <2> QED BY <2>2, <2>3 DEF Others
<1>8. CASE ReceiveConnect
  <2>1. PICK b \in {"up", "closed"} : peer' = [peer EXCEPT !.budget = @ - 1, !.h245 = b]
    BY <1>2, <1>8 DEF ReceiveConnect
  <2>2. peer' \in Peers BY <1>8, <2>1, PeerTypes DEF ReceiveConnect
  <2> QED BY <1>1, <1>8, <2>2, TakesTypes DEF ReceiveConnect, Q931Receive, Others
<1>9. CASE ReceiveStartH245
  <2>1. PICK b \in {"up", "closed"} : peer' = [peer EXCEPT !.budget = @ - 1, !.h245 = b]
    BY <1>2, <1>9 DEF ReceiveStartH245
  <2>2. peer' \in Peers BY <1>9, <2>1, PeerTypes DEF ReceiveStartH245
  <2> QED BY <1>1, <1>9, <2>2, TakesTypes DEF ReceiveStartH245, Q931Receive, Others
<1>10. CASE ReceivesH245
  BY <1>1, <1>10, TakesTypes, PeerSaysTypes
  DEF ReceivesH245, ReceiveH245Closed, ReceiveBadH245, ReceiveH245, H245Receive, Others
<1>11. CASE SendH245 \/ SendQ931 \/ \E p \in Ports : Vanished(p)
  BY <1>1, <1>11, TakesTypes DEF SendH245, SendQ931, Vanished, Others
<1>12. CASE AcceptH245
  <2>1. peer' \in Peers BY <1>12, PeerTypes DEF AcceptH245
  <2> QED BY <1>1, <1>12, <2>1, TakesTypes DEF AcceptH245, Others
<1>13. CASE EndPass BY <1>13 DEF EndPass, Others, Phases
<1>14. CASE PeerClosesH245 \/ PeerClosesH225
  BY <1>14, PeerTypes DEF PeerClosesH245, PeerClosesH225, Others
<1>15. CASE UNCHANGED vars BY <1>15 DEF vars, Others
<1> QED
  BY <1>3, <1>4, <1>5, <1>6, <1>7, <1>8, <1>9, <1>10, <1>11, <1>12, <1>13, <1>14, <1>15,
     <1>16
  DEF Step, Pass, ReceivesQ931, Sends
-----------------------------------------------------------------------------
\* The commands of the application preserve the invariant.
LEMMA CommandIInv == ASSUME IInv, Command PROVE Good(call')
<1>1. Good(call) BY DEF IInv
<1>2. "Plain" \in H245Kinds \ {"EndSession"} /\ "Plain" \in Q931Kinds \ {"ReleaseComplete"}
  BY DEF Q931Kinds, H245Kinds
<1> QED BY <1>1, <1>2, HangCallKeeps, AcceptCallGood, QueueH245Keeps, SendH225MsgGood
        DEF Command

\* The timers preserve it.
LEMMA FireTimerIInv ==
  ASSUME IInv, NEW k \in TimerKinds, FireTimer(k) PROVE Good(call')
<1>1. Good(call) /\ call.timers[k] > 0 BY DEF IInv, FireTimer
<1>2. PICK connected \in BOOLEAN : call' \in TimerOutcomes(call, k, connected)
  BY DEF FireTimer
<1> QED BY <1>1, <1>2, TimerKeeps

\* The Q.931 handlers preserve it, whatever the peer says and when.
LEMMA ReceivesQ931IInv == ASSUME IInv, ReceivesQ931 PROVE Good(call')
<1>1. Good(call) /\ Others BY DEF IInv
<1>2. EpTunneling \in BOOLEAN BY ConfigAssumption
<1>3. CASE ReceiveH225Closed
  <2> DEFINE d == CloseH225Connection(call)
             e == [d EXCEPT !.callState = "CLEARED"]
  <2>1. Good(d) BY <1>1, CloseH225ConnectionGood
  <2>2. call' = e BY <1>3 DEF ReceiveH225Closed
  <2> HIDE DEF d
  <2>3. "CLEARED" \in CallStates /\ "CLEARED" \in Clearing BY DEF CallStates, Clearing
  <2>4. e \in Call BY <2>1, <2>3, ZenonT(30) DEF Good, Call
  <2>5. Same(d, e) /\ e.session = d.session /\ e.callState = "CLEARED"
    BY <2>1 DEF Good, Call, Same
  <2>6. Good(e) BY <2>1, <2>3, <2>4, <2>5, SameKeeps
  <2> QED BY <2>2, <2>6
<1>4. CASE ReceiveBadQ931 BY <1>1, <1>4, MarkClearKeeps DEF ReceiveBadQ931
<1>5. CASE ReceiveSetup
  <2>1. PICK b \in {FALSE, EpTunneling}, connected \in BOOLEAN :
          call' \in OnSetupOutcomes(call, b, connected)
    BY <1>5 DEF ReceiveSetup
  <2>2. call.h225 = "open" BY <1>5 DEF ReceiveSetup
  <2> QED BY <1>1, <1>2, <2>1, <2>2, OnSetupPlaced
<1>6. CASE ReceiveProgress BY <1>1, <1>6, OnProgressSteady DEF ReceiveProgress
<1>7. CASE ReceiveConnect
  <2>1. PICK control \in {"tunnel", "address", "noTunnel"}, connected \in BOOLEAN,
            m \in PeerH245 \cup {"none"}, ok \in BOOLEAN :
          call' \in OnConnectOutcomes(call, control, connected, m, ok)
    BY <1>7 DEF ReceiveConnect, SendOutcomes
  <2> QED BY <1>1, <2>1, OnConnectFrame
<1>8. CASE ReceiveReleaseComplete
  BY <1>1, <1>8, OnReleaseCompleteKeeps DEF ReceiveReleaseComplete
<1>9. CASE ReceiveTunneled
  <2>1. CASE UNCHANGED call BY <1>1, <2>1
  <2>2. ASSUME NEW m, NEW ok \in BOOLEAN, call' \in HandleH245Outcomes(call, m, ok)
        PROVE  Good(call')
    BY <1>1, <2>2, HandleH245Frame
  <2> QED BY <1>9, <2>1, <2>2 DEF ReceiveTunneled, SendOutcomes
<1>10. CASE ReceiveStartH245
  BY <1>1, <1>10, OnFacilityStartH245Steady DEF ReceiveStartH245
<1>11. CASE ReceiveForward
  BY <1>1, <1>11, OnFacilityForwardedKeeps DEF ReceiveForward
<1> QED
  BY <1>3, <1>4, <1>5, <1>6, <1>7, <1>8, <1>9, <1>10, <1>11 DEF ReceivesQ931

\* What a read from the H.245 socket does before it handles the message.
LEMMA BeforeH245Frame ==
  ASSUME Good(call), NEW c \in BeforeH245 PROVE Good(c) /\ Frame(call, c)
BY PauseResetFrame, KeepsReflexive DEF BeforeH245, Keeps, Steady

\* Reads from the H.245 socket preserve it.
LEMMA ReceivesH245IInv == ASSUME IInv, ReceivesH245 PROVE Good(call')
<1>1. Good(call) BY DEF IInv
<1>4. CASE ReceiveH245Closed
  <2>1. PICK c : Good(c) /\ Frame(call, c) /\ call' = MarkClear(c)
    BY <1>1, <1>4, BeforeH245Frame, CloseH245ConnectionKeeps
    DEF ReceiveH245Closed, Keeps, Steady
  <2> QED BY <2>1, MarkClearKeeps
<1>5. CASE ReceiveBadH245
  <2>1. PICK c \in BeforeH245 : call' \in {c, MarkClear(c)} BY <1>5 DEF ReceiveBadH245
  <2> QED BY <1>1, <2>1, BeforeH245Frame, MarkClearKeeps
<1>6. CASE ReceiveH245
  <2>1. PICK c \in BeforeH245, m \in PeerH245, ok \in BOOLEAN :
          call' \in HandleH245Outcomes(c, m, ok)
    BY <1>6 DEF ReceiveH245, SendOutcomes
  <2> QED BY <1>1, <2>1, BeforeH245Frame, HandleH245Frame
<1> QED BY <1>4, <1>5, <1>6 DEF ReceivesH245

\* Sends and an accepted H.245 connection preserve it.
LEMMA SendsIInv == ASSUME IInv, Sends PROVE Good(call')
<1>1. Good(call) BY DEF IInv
<1>2. CASE SendH245
  <2>1. PICK ok \in BOOLEAN : call' = SendMsgH245(call, ok)
    BY <1>2 DEF SendH245, SendOutcomes
  <2> QED BY <1>1, <2>1, SendMsgH245Keeps
<1>3. CASE AcceptH245
  <2>1. Apart(call) BY <1>1, <1>3 DEF AcceptH245, Good, TunnelOK, NoSocket, Apart
  <2> QED BY <1>1, <1>3, <2>1, H245ConnectedSteady DEF AcceptH245, AcceptH245Connection
<1>4. CASE SendQ931
  <2>1. PICK ok \in BOOLEAN, ok245 \in BOOLEAN :
          call' = LET sent == SendMsgQ931(call, ok)
                  IN IF sent.tunneling /\ sent.h245Out # <<>>
                     THEN SendMsgH245(sent, ok245) ELSE sent
    BY <1>4 DEF SendQ931, SendOutcomes
  <2> DEFINE sent == SendMsgQ931(call, ok)
  <2>2. Good(sent) BY <1>1, <1>4, SendMsgQ931Keeps DEF SendQ931, Takes, Alive
  <2>3. call' \in {sent, SendMsgH245(sent, ok245)} BY <2>1
  <2> HIDE DEF sent
  <2> QED BY <2>2, <2>3, SendMsgH245Keeps
<1>5. CASE \E p \in Ports : Vanished(p) BY <1>1, <1>5 DEF Vanished
<1> QED BY <1>2, <1>3, <1>4, <1>5 DEF Sends

\* ooEndCall at the end of the pass preserves it.
LEMMA EndPassIInv == ASSUME IInv, EndPass PROVE Good(call')
<1>1. Good(call) /\ call.gone = "no" BY DEF IInv, EndPass, Alive
<1>2. CASE UNCHANGED call BY <1>1, <1>2
<1>3. CASE call.callState \in Clearing /\ ~UNCHANGED call
  <2>1. PICK ok \in BOOLEAN : call' = EndCall(call, ok)
    BY <1>3 DEF EndPass, SendOutcomes
  <2> QED BY <1>1, <1>3, <2>1, EndCallGood
<1> QED BY <1>2, <1>3 DEF EndPass

\* The start of the pass preserves it.
LEMMA SelectIInv == ASSUME IInv, Select PROVE Good(call')
<1> DEFINE d == [call EXCEPT !.newSock = FALSE]
<1>1. Good(call) /\ call \in Call BY DEF IInv, Good
<1>2. call' = d BY DEF Select
<1>3. d \in Call BY <1>1, ZenonT(30) DEF Call
<1>4. Same(call, d) /\ d.session = call.session /\ d.callState = call.callState
  BY <1>1 DEF Call, Same
<1> HIDE DEF d
<1> QED BY <1>1, <1>2, <1>3, <1>4, SameKeeps

\* IInv is inductive.
LEMMA IInvNext == IInv /\ [Step]_vars => IInv'
<1> SUFFICES ASSUME IInv, [Step]_vars PROVE IInv' OBVIOUS
<1>1. Others' BY OthersNext DEF IInv
<1>2. Good(call') => IInv' BY <1>1 DEF IInv, Good
<1>3. CASE UNCHANGED vars \/ PeerClosesH245 \/ PeerClosesH225
  BY <1>2, <1>3 DEF IInv, vars, PeerClosesH245, PeerClosesH225
<1> QED
  BY <1>2, <1>3, SelectIInv, CommandIInv, FireTimerIInv, ReceivesQ931IInv,
     ReceivesH245IInv, SendsIInv, EndPassIInv
  DEF Step, Pass

-----------------------------------------------------------------------------
(* The theorems                                                               *)

\* The call record, the pass, the peer and the commands keep their types.
THEOREM TypeCorrect == Spec => []TypeOK
<1>1. IInv => TypeOK BY DEF IInv, Others, Good, TypeOK
<1> QED BY <1>1, InitIInv, IInvNext, PTL DEF Spec

\* While H.245 is tunneled, no handler, timer or command, in whatever order they
\* come, leaves a separate H.245 connection, a listener or a queue for one; the one
\* exception is a call for which a Setup turned tunneling on beside one.
THEOREM TunnelingExclusive == Spec => []TunnelExclusive
<1>1. IInv => TunnelExclusive
  BY DEF IInv, Good, TunnelOK, NoSocket, TunnelExclusive
<1> QED BY <1>1, InitIInv, IInvNext, PTL DEF Spec

\* Whatever clears the call, and however often, one ReleaseComplete is sent.
THEOREM OneReleaseHolds == Spec => []OneRelease
<1>1. IInv => OneRelease BY DEF IInv, Good, ReleaseOK, OneRelease
<1> QED BY <1>1, InitIInv, IInvNext, PTL DEF Spec

-----------------------------------------------------------------------------
(* The life of a call. A peer that never pauses it with an empty capability   *)
(* set leaves it the life CallLifecycle promises.                             *)

\* A freed signalling channel is left behind only until the end of the pass, by
\* a call that the end of the pass removes; a ReleaseComplete is queued only for
\* a call that is being cleared.
Ends(c) ==
  /\ Excused(c)
  /\ c.gone = "no" =>
       /\ c.session # "PAUSED"
       /\ c.h225 = "none" => pc = "io" /\ c.callState = "CLEARED"
       /\ ReleaseQueued(c) => c.callState \in Clearing

LInv == IInv /\ Ends(call)

\* What a step that only changes the call record may do.
Lives(c, d) ==
  /\ d.gone = "no" /\ d.rcSent = c.rcSent /\ d.h225 = c.h225
  /\ d.session # "PAUSED" /\ Excused(d)
  /\ c.callState \in Clearing => d.callState \in Clearing
  /\ c.callState = "CLEARED" => d.callState = "CLEARED"
  /\ ReleaseQueued(d) => ReleaseQueued(c)

\* The invariant holds at first.
LEMMA InitLInv == Init => LInv
BY InitIInv, InitCall DEF LInv, Ends, Newborn, Excused

\* Sending is safe: the channel is there, or the call has an H.245 socket or a
\* listener, so that nothing is tunneled or a Setup has its part in it.
LEMMA LInvSendable ==
  ASSUME LInv, Alive,
         pc # "io" \/ call.h225 = "open" \/ call.h245 = "open" \/ call.listener
  PROVE  /\ Good(call) /\ Sendable(call) /\ ~call.crashed /\ call.gone = "no"
         /\ call.session # "PAUSED"
BY DEF LInv, IInv, Ends, Alive, Good, Sendable, Apart, TunnelOK, NoSocket

\* What is steady lives.
LEMMA SteadyLives ==
  ASSUME LInv, Alive, NEW d, Steady(call, d), Sendable(call)
  PROVE  Lives(call, d)
BY DEF LInv, Ends, Alive, Steady, Frame, Lives, Excused

\* A step that lives, taken while the channel exists or among the ports.
LEMMA LivesEnds ==
  ASSUME LInv, Alive, NEW d, Lives(call, d),
         call.h225 # "none" \/ (pc = "io" /\ pc' = "io")
  PROVE  /\ d.h225 = "none" => pc' = "io" /\ d.callState = "CLEARED"
         /\ ReleaseQueued(d) => d.callState \in Clearing
BY DEF LInv, Ends, Alive, Lives
-----------------------------------------------------------------------------
(* What each action does to the call, when the peer never sends an empty      *)
(* capability set.                                                            *)

NoPause == "EmptyTCS" \notin PeerH245

\* A command finds the signalling channel: the pass that freed it has ended.
LEMMA CommandLives == ASSUME LInv, Command PROVE Lives(call, call')
<1>1. Good(call) /\ Sendable(call) /\ Alive /\ call.h225 # "none" /\ ~call.crashed
  BY LInvSendable DEF Command, LInv, Ends, Alive
<1>2. "Plain" \in H245Kinds \ {"EndSession"} /\ "Plain" \in Q931Kinds \ {"ReleaseComplete"}
  BY DEF Q931Kinds, H245Kinds
<1>3. Steady(call, call')
  BY <1>1, <1>2, HangCallKeeps, AcceptCallSteady, QueueH245Keeps, SendH225MsgKeeps
  DEF Command, Keeps
<1> QED BY <1>1, <1>3, SteadyLives

\* So does a timer.
LEMMA FireTimerLives ==
  ASSUME LInv, NEW k \in TimerKinds, FireTimer(k) PROVE Lives(call, call')
<1>1. Good(call) /\ Sendable(call) /\ Alive /\ call.timers[k] > 0
  BY LInvSendable DEF FireTimer
<1>2. PICK connected \in BOOLEAN : call' \in TimerOutcomes(call, k, connected)
  BY DEF FireTimer
<1> QED BY <1>1, <1>2, TimerKeeps, SteadyLives

\* The peer's Connect.
LEMMA ReceiveConnectLives ==
  ASSUME NoPause, LInv, ReceiveConnect PROVE Lives(call, call')
<1>1. Good(call) /\ Sendable(call) /\ Alive
  BY LInvSendable DEF ReceiveConnect, Q931Receive, Takes
<1>2. PICK control \in {"tunnel", "address", "noTunnel"}, connected \in BOOLEAN,
          m \in PeerH245 \cup {"none"}, ok \in BOOLEAN :
        call' \in OnConnectOutcomes(call, control, connected, m, ok)
  BY DEF ReceiveConnect, SendOutcomes
<1>3. m # "EmptyTCS" BY DEF NoPause
<1>4. Steady(call, call') BY <1>1, <1>2, <1>3, OnConnectFrame
<1> QED BY <1>1, <1>4, SteadyLives

\* The peer's Setup.
LEMMA ReceiveSetupLives ==
  ASSUME LInv, ReceiveSetup PROVE Lives(call, call')
<1>1. /\ Good(call) /\ Alive /\ call.h225 = "open" /\ ~call.crashed
      /\ call.gone = "no" /\ call.session # "PAUSED"
  BY LInvSendable DEF ReceiveSetup
<1>2. PICK b \in {FALSE, EpTunneling}, connected \in BOOLEAN :
        call' \in OnSetupOutcomes(call, b, connected)
  BY DEF ReceiveSetup
<1>3. b \in BOOLEAN BY ConfigAssumption
<1>4. Placed(call, call') BY <1>1, <1>2, <1>3, OnSetupPlaced
<1> QED BY <1>1, <1>4 DEF Lives, Placed, Excused

\* Every Q.931 handler, as long as the connection is there.
LEMMA ReceivesQ931Lives ==
  ASSUME NoPause, LInv, ReceivesQ931, ~ReceiveH225Closed PROVE Lives(call, call')
<1>1. CASE ReceiveConnect BY <1>1, ReceiveConnectLives
<1>2. CASE ReceiveSetup BY <1>2, ReceiveSetupLives
<1>3. CASE \/ ReceiveBadQ931 \/ ReceiveProgress \/ ReceiveReleaseComplete
           \/ ReceiveTunneled \/ ReceiveStartH245 \/ ReceiveForward
  <2>1. Good(call) /\ Sendable(call) /\ Alive
    BY <1>3, LInvSendable
    DEF ReceiveBadQ931, ReceiveProgress, ReceiveReleaseComplete, ReceiveTunneled,
        ReceiveStartH245, ReceiveForward, Q931Receive, Takes
  <2>2. CASE ReceiveBadQ931 BY <2>1, <2>2, MarkClearKeeps, SteadyLives DEF ReceiveBadQ931, Keeps
  <2>3. CASE ReceiveProgress
    BY <2>1, <2>3, OnProgressSteady, SteadyLives DEF ReceiveProgress
  <2>4. CASE ReceiveReleaseComplete
    BY <2>1, <2>4, OnReleaseCompleteKeeps, SteadyLives DEF ReceiveReleaseComplete, Keeps
  <2>5. CASE ReceiveTunneled
    <3>1. \/ UNCHANGED call
          \/ \E m \in PeerH245, ok \in BOOLEAN :
               m # "EmptyTCS" /\ call' \in HandleH245Outcomes(call, m, ok)
      BY <2>5 DEF ReceiveTunneled, NoPause, SendOutcomes
    <3> QED BY <2>1, <3>1, HandleH245Keeps, KeepsReflexive, SteadyLives DEF Keeps
  <2>6. CASE ReceiveStartH245
    BY <2>1, <2>6, OnFacilityStartH245Steady, SteadyLives DEF ReceiveStartH245
  <2>7. CASE ReceiveForward
    BY <2>1, <2>7, OnFacilityForwardedKeeps, SteadyLives DEF ReceiveForward, Keeps
  <2> QED BY <1>3, <2>2, <2>3, <2>4, <2>5, <2>6, <2>7
<1> QED BY <1>1, <1>2, <1>3 DEF ReceivesQ931

\* Every H.245 handler: the session is never paused, so it is never reset.
LEMMA ReceivesH245Lives ==
  ASSUME NoPause, LInv, ReceivesH245 PROVE Lives(call, call')
<1>1. Good(call) /\ Sendable(call) /\ Alive /\ BeforeH245 = {call} /\ call.session # "PAUSED"
  BY LInvSendable
  DEF ReceivesH245, ReceiveH245Closed, ReceiveBadH245, ReceiveH245, H245Receive, Takes,
      BeforeH245
<1>2. CASE ReceiveH245Closed
  BY <1>1, <1>2, CloseH245ConnectionKeeps, MarkClearKeeps, KeepsTransitive, SteadyLives
  DEF ReceiveH245Closed, Keeps
<1>3. CASE ReceiveBadH245
  BY <1>1, <1>3, KeepsReflexive, MarkClearKeeps, SteadyLives DEF ReceiveBadH245, Keeps
<1>4. CASE ReceiveH245
  <2>1. PICK m \in PeerH245, ok \in BOOLEAN : call' \in HandleH245Outcomes(call, m, ok)
    BY <1>1, <1>4 DEF ReceiveH245, SendOutcomes
  <2> QED BY <1>1, <2>1, HandleH245Keeps, SteadyLives DEF NoPause, Keeps
<1> QED BY <1>2, <1>3, <1>4 DEF ReceivesH245

\* A send on the H.245 socket, an accepted connection, a port that vanished.
LEMMA SendsLives ==
  ASSUME LInv, Sends, ~SendQ931 PROVE Lives(call, call')
<1>1. Good(call) /\ Alive BY DEF LInv, IInv, Sends, SendH245, AcceptH245, Vanished, Takes
<1>2. CASE SendH245
  <2>1. PICK ok \in BOOLEAN : call' = SendMsgH245(call, ok)
    BY <1>2 DEF SendH245, SendOutcomes
  <2>2. Sendable(call) BY <1>1, <1>2, LInvSendable DEF SendH245
  <2> QED BY <1>1, <2>1, <2>2, SendMsgH245Keeps, SteadyLives DEF Keeps
<1>3. CASE AcceptH245
  <2>1. Sendable(call) /\ Apart(call)
    BY <1>1, <1>3, LInvSendable DEF AcceptH245, Good, TunnelOK, NoSocket, Apart
  <2> QED BY <1>1, <1>3, <2>1, H245ConnectedSteady, SteadyLives
          DEF AcceptH245, AcceptH245Connection
<1>4. CASE \E p \in Ports : Vanished(p)
  BY <1>1, <1>4 DEF Vanished, LInv, Ends, Alive, Lives
<1> QED BY <1>2, <1>3, <1>4 DEF Sends

\* A ReleaseComplete leaves the queue of a call that is being cleared.
LEMMA SendQ931Lives ==
  ASSUME LInv, SendQ931
  PROVE  /\ call'.gone = "no" /\ call'.h225 = call.h225 /\ call.h225 = "open"
         /\ call'.session # "PAUSED" /\ Excused(call')
         /\ call.callState \in Clearing => call'.callState \in Clearing
         /\ ReleaseQueued(call') => ReleaseQueued(call)
         /\ \/ call'.rcSent = call.rcSent
            \/ call.callState \in Clearing /\ call.rcSent = 0 /\ call'.rcSent = 1
<1>1. /\ Good(call) /\ Sendable(call) /\ ~call.crashed /\ call.gone = "no" /\ Alive
      /\ call.h225 = "open" /\ call.session # "PAUSED"
  BY LInvSendable DEF SendQ931, Takes
<1>2. PICK ok \in BOOLEAN, ok245 \in BOOLEAN :
        call' = LET sent == SendMsgQ931(call, ok)
                IN IF sent.tunneling /\ sent.h245Out # <<>>
                   THEN SendMsgH245(sent, ok245) ELSE sent
  BY DEF SendQ931, SendOutcomes
<1> DEFINE s == SendMsgQ931(call, ok)
<1>3. /\ Good(s) /\ Frame(call, s)
      /\ call.callState \in Clearing => s.callState \in Clearing
      /\ call.session # "PAUSED" => s.session # "PAUSED"
      /\ \/ s.rcSent = call.rcSent
         \/ ReleaseQueued(call) /\ call.rcSent = 0 /\ s.rcSent = 1
  BY <1>1, SendMsgQ931Keeps
<1>4. call' \in {s, SendMsgH245(s, ok245)} BY <1>2
<1> HIDE DEF s
<1>5. Steady(s, call') BY <1>3, <1>4, SendMsgH245Keeps, KeepsReflexive DEF Keeps
<1>6. ReleaseQueued(call) => call.callState \in Clearing BY <1>1 DEF LInv, Ends
<1> QED BY <1>1, <1>3, <1>5, <1>6 DEF Steady, Frame, Sendable, Excused

\* The peer closes the signalling connection: the call is cleared at once.
LEMMA ReceiveH225ClosedLives ==
  ASSUME LInv, ReceiveH225Closed
  PROVE  /\ call'.gone = "no" /\ call'.rcSent = call.rcSent
         /\ call'.session # "PAUSED" /\ Excused(call')
         /\ call'.callState = "CLEARED" /\ pc' = "io"
<1>1. /\ Good(call) /\ ~call.crashed /\ call.gone = "no" /\ call.session # "PAUSED"
      /\ pc' = "io"
  BY LInvSendable DEF ReceiveH225Closed, Q931Receive, Takes
<1> DEFINE d == CloseH225Connection(call)
<1>2. /\ Good(d) /\ d.rcSent = call.rcSent /\ d.crashed = call.crashed
      /\ d.gone = call.gone /\ d.session = call.session
  BY <1>1, CloseH225ConnectionGood
<1>3. call' = [d EXCEPT !.callState = "CLEARED"] BY DEF ReceiveH225Closed
<1> HIDE DEF d
<1> QED BY <1>1, <1>2, <1>3 DEF Good, Call, Excused

\* The end of the pass removes the call whose channel was freed.
LEMMA EndPassLives ==
  ASSUME LInv, EndPass, call.callState \in Clearing
  PROVE  /\ call'.rcSent = call.rcSent /\ Excused(call')
         /\ call'.gone = "no" =>
              /\ call'.callState \in Clearing /\ call'.session # "PAUSED"
              /\ call'.h225 # "none"
<1>1. Good(call) /\ ~call.crashed /\ call.gone = "no" /\ call.session # "PAUSED"
  BY DEF EndPass, Alive, LInv, IInv, Ends
<1>2. call.callState = "CLEARED" \/ call.h225 # "none" BY <1>1 DEF LInv, Ends
<1>3. PICK ok \in BOOLEAN : call' = EndCall(call, ok) BY DEF EndPass, SendOutcomes
<1> QED BY <1>1, <1>2, <1>3, EndCallGood DEF Sendable, Excused
-----------------------------------------------------------------------------
\* LInv is inductive when the peer never pauses the call.
LEMMA LInvNext == ASSUME NoPause PROVE LInv /\ [Step]_vars => LInv'
<1> SUFFICES ASSUME LInv, [Step]_vars PROVE Ends(call)' BY IInvNext DEF LInv
<1>1. ASSUME Lives(call, call'), Alive, call.h225 # "none" \/ (pc = "io" /\ pc' = "io")
      PROVE  Ends(call)'
  BY <1>1, LivesEnds DEF Ends, Lives, ReleaseQueued, Excused
<1>2. CASE Select
  <2>1. Lives(call, call') /\ Alive /\ call.h225 # "none"
    BY <1>2
    DEF Select, Lives, LInv, IInv, Good, Call, Ends, Alive, ReleaseQueued, Excused
  <2> QED BY <1>1, <2>1
<1>3. CASE Command
  BY <1>1, <1>3, CommandLives DEF Command, LInv, Ends, Alive
<1>4. ASSUME NEW k \in TimerKinds, FireTimer(k) PROVE Ends(call)'
  BY <1>1, <1>4, FireTimerLives DEF FireTimer, LInv, Ends, Alive
<1>5. CASE ReceiveH225Closed
  BY <1>5, ReceiveH225ClosedLives, Zenon DEF Ends, Clearing, ReleaseQueued, Excused
<1>6. CASE ReceivesQ931 /\ ~ReceiveH225Closed
  BY <1>1, <1>6, ReceivesQ931Lives, ZenonT(30)
  DEF ReceivesQ931, ReceiveBadQ931, ReceiveSetup, ReceiveProgress, ReceiveConnect,
      ReceiveReleaseComplete, ReceiveTunneled, ReceiveStartH245, ReceiveForward,
      Q931Receive, Takes
<1>7. Alive /\ (ReceivesH245 \/ Sends) => pc' = "io" /\ (call.h225 = "none" => pc = "io")
  BY DEF ReceivesH245, ReceiveH245Closed, ReceiveBadH245, ReceiveH245, H245Receive,
         Sends, SendH245, AcceptH245, SendQ931, Vanished, Takes, LInv, Ends, Alive
<1>8. ReceivesH245 \/ Sends => Alive
  BY DEF ReceivesH245, ReceiveH245Closed, ReceiveBadH245, ReceiveH245, H245Receive,
         Sends, SendH245, AcceptH245, SendQ931, Vanished, Takes
<1>9. CASE ReceivesH245 BY <1>1, <1>7, <1>8, <1>9, ReceivesH245Lives
<1>10. CASE Sends /\ ~SendQ931 BY <1>1, <1>7, <1>8, <1>10, SendsLives
<1>11. CASE SendQ931
  <2>1. ReleaseQueued(call) => call.callState \in Clearing
    BY <1>11 DEF SendQ931, Takes, Alive, LInv, Ends
  <2> QED BY <1>11, <2>1, SendQ931Lives DEF Ends, ReleaseQueued, Excused
<1>12. CASE EndPass
  <2>1. CASE call.callState \in Clearing
    BY <1>12, <2>1, EndPassLives DEF Ends, ReleaseQueued, Excused
  <2>2. CASE call.callState \notin Clearing
    <3>1. UNCHANGED call /\ call.gone = "no" /\ "CLEARED" \in Clearing
      BY <1>12, <2>2 DEF EndPass, Alive, Clearing
    <3>2. call.h225 # "none" BY <2>2, <3>1 DEF LInv, Ends
    <3> QED BY <3>1, <3>2 DEF LInv, Ends, ReleaseQueued, Excused
  <2> QED BY <2>1, <2>2
<1>13. CASE PeerClosesH245 \/ PeerClosesH225 \/ UNCHANGED vars
  BY <1>13
  DEF PeerClosesH245, PeerClosesH225, vars, LInv, Ends, ReleaseQueued, Excused
<1> QED
  BY <1>2, <1>3, <1>4, <1>5, <1>6, <1>9, <1>10, <1>11, <1>12, <1>13
  DEF Step, Pass

\* No handler sends on a signalling channel that was freed, in whatever order
\* the connection breaks, messages come and timers fire, unless a Setup turned
\* tunneling on beside an H.245 connection.
THEOREM NoFreedChannelHolds ==
  ASSUME NoPause PROVE Spec => []NoFreedChannel
<1>1. LInv => NoFreedChannel BY DEF LInv, Ends, Excused, NoFreedChannel
<1> QED BY <1>1, InitLInv, LInvNext, PTL DEF Spec

\* Every step of the call is a step of CallLifecycle or leaves it alone.
LEMMA StepFollows ==
  ASSUME NoPause, LInv, LInv', [Step]_vars
  PROVE  [Lifecycle!Next]_<<Phase, call.rcSent>>
<1> USE DEF Lifecycle!Next, Lifecycle!Clear, Lifecycle!Release, Lifecycle!Remove
<1>1. ASSUME Lives(call, call'), Alive PROVE [Lifecycle!Next]_<<Phase, call.rcSent>>
  BY <1>1 DEF Lives, Alive, Phase
<1>2. CASE UNCHANGED call BY <1>2 DEF Phase
<1>3. CASE Select
  BY <1>3 DEF Select, Phase, LInv, IInv, Good, Call
<1>4. CASE Command BY <1>1, <1>4, CommandLives DEF Command
<1>5. ASSUME NEW k \in TimerKinds, FireTimer(k)
      PROVE  [Lifecycle!Next]_<<Phase, call.rcSent>>
  BY <1>1, <1>5, FireTimerLives DEF FireTimer
<1>6. CASE ReceivesQ931 \/ ReceivesH245 \/ Sends
  <2>1. Alive
    BY <1>6, ZenonT(30)
    DEF ReceivesQ931, ReceiveH225Closed, ReceiveBadQ931, ReceiveSetup, ReceiveProgress,
        ReceiveConnect, ReceiveReleaseComplete, ReceiveTunneled, ReceiveStartH245,
        ReceiveForward, Q931Receive, ReceivesH245, ReceiveH245Closed, ReceiveBadH245,
        ReceiveH245, H245Receive, Sends, SendH245, AcceptH245, SendQ931, Vanished, Takes
  <2>2. CASE ReceiveH225Closed
    BY <2>1, <2>2, ReceiveH225ClosedLives DEF Phase, Alive, Clearing
  <2>3. CASE SendQ931
    BY <2>1, <2>3, SendQ931Lives, ZenonT(30) DEF Phase, Alive
  <2> QED BY <1>1, <1>6, <2>1, <2>2, <2>3, ReceivesQ931Lives, ReceivesH245Lives, SendsLives
<1>7. CASE EndPass
  <2>1. CASE call.callState \in Clearing
    BY <1>7, <2>1, EndPassLives DEF Phase, EndPass, Alive
  <2>2. CASE call.callState \notin Clearing BY <1>2, <1>7, <2>2 DEF EndPass
  <2> QED BY <2>1, <2>2
<1>8. PeerClosesH245 \/ PeerClosesH225 \/ UNCHANGED vars => UNCHANGED call
  BY DEF PeerClosesH245, PeerClosesH225, vars
<1> QED BY <1>2, <1>3, <1>4, <1>5, <1>6, <1>7, <1>8 DEF Step, Pass

\* The call lives the life CallLifecycle promises: it is never live again once
\* it was marked for clearing, and only then a ReleaseComplete leaves, once.
THEOREM FollowsLifecycleHolds ==
  ASSUME NoPause PROVE Spec => FollowsLifecycle
<1>1. Init => Lifecycle!Init
  BY InitCall DEF Lifecycle!Init, Phase, Newborn
<1> QED
  BY <1>1, InitLInv, LInvNext, StepFollows, PTL
  DEF Spec, FollowsLifecycle, Lifecycle!Spec, Lifecycle!lifecycleVars
=============================================================================
