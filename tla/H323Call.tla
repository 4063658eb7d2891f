----------------------------- MODULE H323Call -----------------------------
(* One call in the monitor thread of an ooh323c endpoint without gatekeeper   *)
(* (ooMonitorChannels, ooProcessFDSETsAndTimers), its peer and the commands   *)
(* of the application.                                                        *)
(*                                                                            *)
(* The thread makes passes.  A pass samples with select() what can be read    *)
(* and written (Select), handles a command, fires expired timers, then takes  *)
(* the descriptors that were ready in a fixed order, each only if it still    *)
(* exists, and ends by moving a call in a clearing state on (EndPass).  What  *)
(* the peer says is chosen when it is read.                                   *)
EXTENDS CallData

CONSTANTS
  EpTunneling,   \* OO_M_TUNNELING of the endpoint
  PeerH245,      \* the H.245 messages the peer may send
  MaxMsgs,       \* bound: messages and connections of the peer
  MaxCmds        \* bound: commands of the application

H245In == {"TCS", "EmptyTCS", "OldTCS", "TCSAck", "TCSReject", "MSD", "MSDMaster",
           "MSDSlave", "MSDReject", "Chan", "EndSession", "Other"}

ASSUME ConfigAssumption ==
  /\ EpTunneling \in BOOLEAN
  /\ PeerH245 \subseteq H245In
  /\ MaxMsgs \in Nat
  /\ MaxCmds \in Nat

VARIABLES
  call,    \* the call record
  pc,      \* phase of the pass
  ready,   \* what select() found ready and the pass has not come to yet
  peer,    \* which of the peer's ends are open, and what it may still say
  cmds     \* commands the application may still give

vars == <<call, pc, ready, peer, cmds>>

Phases == {"select", "command", "timers", "io"}

Ports == {"q931In", "h245In", "accept", "h245Out", "q931Out"}

\* The order of ooProcessFDSETsAndTimers.
Before == [ q931In |-> {}, h245In |-> {"q931In"}, accept |-> {"q931In", "h245In"},
            h245Out |-> {"q931In", "h245In"}, q931Out |-> Ports \ {"q931Out"} ]

Peers == [h225 : {"up", "closed"}, h245 : {"up", "closed"}, budget : 0..MaxMsgs]

TypeOK ==
  /\ call \in Call
  /\ pc \in Phases
  /\ ready \subseteq Ports
  /\ peer \in Peers
  /\ cmds \in 0..MaxCmds

-----------------------------------------------------------------------------
(* ooAcceptH225Connection (a multihomed endpoint may not learn its address),  *)
(* or ooMakeCall up to the queued Setup: the call is in the list and its      *)
(* signalling connection is open, or could not be made.                       *)
IncomingCall == NewCall("incoming", EpTunneling)

OutgoingCalls(tunneling) ==
  UNION { PlaceCallOutcomes([NewCall("outgoing", tunneling) EXCEPT !.h225 = "none"], connected)
          : connected \in BOOLEAN }

Init ==
  /\ call \in {IncomingCall, MarkClear(IncomingCall)}
             \cup UNION {OutgoingCalls(t) : t \in {FALSE, EpTunneling}}
  /\ pc = "select"
  /\ ready = {}
  /\ peer = [h225 |-> "up", h245 |-> "up", budget |-> MaxMsgs]
  /\ cmds = MaxCmds

Alive == call.gone = "no" /\ ~call.crashed

\* The peer speaks, while it has anything to say.
PeerSays == peer.budget > 0 /\ peer' = [peer EXCEPT !.budget = @ - 1]

\* A send on a connection the peer has closed may or may not fail.
SendOutcomes(end) == IF end = "closed" THEN BOOLEAN ELSE {TRUE}

\* The pass comes to a port that was ready: those before it are done.
Takes(port) ==
  /\ Alive
  /\ pc # "select" /\ pc' = "io"
  /\ port \in ready /\ ready \cap Before[port] = {}
  /\ ready' = ready \ {port}

-----------------------------------------------------------------------------
(* ooSetFDSETs and select(): what has pending input is up to the peer, output *)
(* is ready when something waits in the queue.                                *)
Readable(end) ==
  IF end = "closed" THEN {TRUE} ELSE IF peer.budget > 0 THEN BOOLEAN ELSE {FALSE}

Select ==
  /\ Alive
  /\ pc = "select" /\ pc' = "command"
  /\ \E q \in Readable(peer.h225), h \in Readable(peer.h245) :
       ready' = { p \in Ports :
         CASE p = "q931In"  -> q /\ call.h225 = "open"
           [] p = "h245In"  -> h /\ call.h245 = "open"
           [] p = "accept"  -> h /\ call.h245 # "open" /\ call.listener
                                 /\ peer.budget > 0
           [] p = "h245Out" -> call.h245 = "open" /\ call.h245Out # <<>>
           [] p = "q931Out" -> call.h225 = "open" /\
                               (call.q931Out # <<>> \/
                                (call.tunneling /\ call.h245Out # <<>>)) }
  /\ call' = [call EXCEPT !.newSock = FALSE]
  /\ UNCHANGED <<peer, cmds>>

\* ooReadAndProcessStackCommand: one of the commands that were read.
Command ==
  /\ Alive
  /\ pc = "command"
  /\ cmds > 0 /\ cmds' = cmds - 1
  /\ \/ call' = HangCall(call)
     \/ call.callType = "incoming" /\ call.setup /\ call' = AcceptCall(call)
     \/ call' = QueueH245(call, "Plain")      \* digits, fast update
     \/ call' = SendH225Msg(call, "Plain")    \* ringback, forward, keypad
  /\ UNCHANGED <<pc, ready, peer>>

\* ooTimerFireExpired: any number of armed timers may have expired.
FireTimer(k) ==
  /\ Alive
  /\ pc \in {"command", "timers"} /\ pc' = "timers"
  /\ call.timers[k] > 0
  /\ \E connected \in BOOLEAN :
       /\ call' \in TimerOutcomes(call, k, connected)
       /\ peer' = IF k = "H245CONNECT" /\ connected
                  THEN [peer EXCEPT !.h245 = "up"] ELSE peer
  /\ UNCHANGED <<ready, cmds>>

-----------------------------------------------------------------------------
(* ooH2250Receive and ooHandleH2250Message                                    *)
Q931Receive == Takes("q931In") /\ call.h225 = "open"

\* Mutant of ReceiveH225Closed: the call is only marked.
ReceiveH225ClosedMarks ==
  /\ Q931Receive
  /\ peer.h225 = "closed"
  /\ call' = MarkClear(CloseH225Connection(call))
  /\ UNCHANGED <<peer, cmds>>

\* The connection is closed or broken: the call goes, whatever its state.
ReceiveH225Closed ==
  /\ Q931Receive
  /\ peer.h225 = "closed"
  /\ call' = [CloseH225Connection(call) EXCEPT !.callState = "CLEARED"]
  /\ UNCHANGED <<peer, cmds>>

ReceiveBadQ931 ==
  /\ Q931Receive
  /\ PeerSays
  /\ call' = MarkClear(call)
  /\ UNCHANGED cmds

\* The peer may send any message at any time: no handler asks for the type of the
\* call or for what came before. A socket that takes the place of the one select()
\* looked at is not written to in this pass.
ReceiveSetup ==
  /\ Alive /\ pc # "select" /\ pc' = "io"
  /\ "q931In" \in ready /\ call.h225 = "open"
  /\ peer.budget > 0
  /\ \E tunneling \in {FALSE, EpTunneling}, connected \in BOOLEAN :
       LET again == call.callType = "outgoing" /\ connected
       IN /\ call' \in OnSetupOutcomes(call, tunneling, connected)
          /\ ready' = ready \ (IF again THEN {"q931In", "q931Out"} ELSE {"q931In"})
          /\ peer' = [peer EXCEPT !.budget = @ - 1, !.h225 = IF again THEN "up" ELSE @]
  /\ UNCHANGED cmds

ReceiveProgress ==
  /\ Q931Receive
  /\ PeerSays
  /\ call' \in OnProgressOutcomes(call)
  /\ UNCHANGED cmds

ReceiveConnect ==
  /\ Q931Receive
  /\ peer.budget > 0
  /\ \E control \in {"tunnel", "address", "noTunnel"}, connected \in BOOLEAN,
        m \in PeerH245 \cup {"none"}, ok \in SendOutcomes(peer.h245) :
       /\ call' \in OnConnectOutcomes(call, control, connected, m, ok)
       /\ peer' = [peer EXCEPT !.budget = @ - 1,
                     !.h245 = IF connected /\ call'.newSock THEN "up" ELSE @]
  /\ UNCHANGED cmds

ReceiveReleaseComplete ==
  /\ Q931Receive
  /\ PeerSays
  /\ call' = OnReleaseComplete(call)
  /\ UNCHANGED cmds

\* A Facility that transports H.245 is ignored while tunneling is off, an empty one
\* is not.
ReceiveTunneled ==
  /\ Q931Receive
  /\ PeerSays
  /\ \E m \in PeerH245, ok \in SendOutcomes(peer.h245) :
       call' \in {call} \cup HandleH245Outcomes(call, m, ok)
  /\ UNCHANGED cmds

ReceiveStartH245 ==
  /\ Q931Receive
  /\ peer.budget > 0
  /\ \E connected \in BOOLEAN :
       /\ call' = OnFacilityStartH245(call, connected)
       /\ peer' = [peer EXCEPT !.budget = @ - 1,
                     !.h245 = IF connected THEN "up" ELSE @]
  /\ UNCHANGED cmds

ReceiveForward ==
  /\ Q931Receive
  /\ PeerSays
  /\ call' \in OnFacilityForwardedOutcomes(call)
  /\ UNCHANGED cmds

-----------------------------------------------------------------------------
(* ooH245Receive                                                              *)
H245Receive == Takes("h245In") /\ call.h245 = "open" /\ ~call.newSock

\* Of a paused session any read, also one that fails, first resets the call.
BeforeH245 ==
  IF call.session = "PAUSED" THEN {PauseReset(call, TRUE), PauseReset(call, FALSE)}
  ELSE {call}

ReceiveH245Closed ==
  /\ H245Receive
  /\ peer.h245 = "closed"
  /\ IF call.session = "PAUSED" THEN \E c \in BeforeH245 : call' = MarkClear(c)
     ELSE call' = MarkClear(CloseH245Connection(call))
  /\ UNCHANGED <<peer, cmds>>

\* A broken frame clears the call, a message that cannot be decoded does not.
ReceiveBadH245 ==
  /\ H245Receive
  /\ PeerSays
  /\ \E c \in BeforeH245 : call' \in {c, MarkClear(c)}
  /\ UNCHANGED cmds

ReceiveH245 ==
  /\ H245Receive
  /\ PeerSays
  /\ \E c \in BeforeH245, m \in PeerH245, ok \in SendOutcomes(peer.h245) :
       call' \in HandleH245Outcomes(c, m, ok)
  /\ UNCHANGED cmds

-----------------------------------------------------------------------------
(* One message leaves each ready connection, and a connection on the H.245    *)
(* listener is accepted when there is no H.245 socket.                        *)
SendH245 ==
  /\ Takes("h245Out")
  /\ call.h245 = "open" /\ ~call.newSock
  /\ \E ok \in SendOutcomes(peer.h245) : call' = SendMsgH245(call, ok)
  /\ UNCHANGED <<peer, cmds>>

AcceptH245 ==
  /\ Takes("accept")
  /\ call.h245 # "open" /\ call.listener /\ peer.budget > 0
  /\ call' = AcceptH245Connection(call)
  /\ peer' = [peer EXCEPT !.budget = @ - 1, !.h245 = "up"]
  /\ UNCHANGED cmds

SendQ931 ==
  /\ Takes("q931Out")
  /\ call.h225 = "open"
  /\ \E ok \in SendOutcomes(peer.h225), ok245 \in SendOutcomes(peer.h245) :
       LET sent == SendMsgQ931(call, ok)
       IN call' = IF sent.tunneling /\ sent.h245Out # <<>>
                  THEN SendMsgH245(sent, ok245) ELSE sent
  /\ UNCHANGED <<peer, cmds>>

\* The socket select() reported is gone, or is not the one in its place now, or
\* (a bound) the peer spent its last message on another port of this pass.
Vanished(port) ==
  /\ Takes(port)
  /\ \/ port \in {"q931In", "q931Out"} /\ call.h225 # "open"
     \/ port \in {"h245In", "h245Out"} /\ (call.h245 # "open" \/ call.newSock)
     \/ port = "accept" /\ (call.h245 = "open" \/ ~call.listener \/ peer.budget = 0)
     \/ port = "q931In" /\ peer.h225 = "up" /\ peer.budget = 0
     \/ port = "h245In" /\ peer.h245 = "up" /\ peer.budget = 0
  /\ UNCHANGED <<call, peer, cmds>>

\* The end of the pass: a call in a clearing state is taken one step further.
EndPass ==
  /\ Alive
  /\ pc # "select" /\ ready = {} /\ pc' = "select"
  /\ IF call.callState \in Clearing
     THEN \E ok \in SendOutcomes(peer.h245) : call' = EndCall(call, ok)
     ELSE UNCHANGED call
  /\ UNCHANGED <<ready, peer, cmds>>

-----------------------------------------------------------------------------
(* The peer closes a connection: for no reason, or (PeerReleases) because the *)
(* call is over for it, having sent or been sent a ReleaseComplete.  Within a *)
(* pass only the sends can tell when, so it closes before them, EndPass being *)
(* one, or at Select.                                                         *)
PeerClosesH245 ==
  /\ Alive /\ call.h245 = "open" /\ peer.h245 = "up"
  /\ \/ pc = "select"
     \/ pc = "io" /\ "h245Out" \in ready
     \/ pc # "select" /\ ready = {}
  /\ peer' = [peer EXCEPT !.h245 = "closed"]
  /\ UNCHANGED <<call, pc, ready, cmds>>

PeerClosesH225 ==
  /\ Alive /\ call.h225 = "open" /\ peer.h225 = "up"
  /\ pc = "select" \/ ready = {"q931Out"}
  /\ peer' = [peer EXCEPT !.h225 = "closed"]
  /\ UNCHANGED <<call, pc, ready, cmds>>

PeerReleases == (call.rcSent > 0 \/ call.rcRecvd) /\ PeerClosesH225

ReceivesQ931 ==
  \/ ReceiveH225Closed \/ ReceiveBadQ931 \/ ReceiveSetup
  \/ ReceiveProgress \/ ReceiveConnect \/ ReceiveReleaseComplete
  \/ ReceiveTunneled \/ ReceiveStartH245 \/ ReceiveForward

ReceivesH245 == ReceiveH245Closed \/ ReceiveBadH245 \/ ReceiveH245

Sends == SendH245 \/ AcceptH245 \/ SendQ931 \/ (\E p \in Ports : Vanished(p))

\* The monitor thread.
Pass ==
  \/ Select \/ Command
  \/ (\E k \in TimerKinds : FireTimer(k))
  \/ ReceivesQ931 \/ ReceivesH245 \/ Sends \/ EndPass

Step == Pass \/ PeerClosesH245 \/ PeerClosesH225

Spec == Init /\ [][Step]_vars

\* The thread keeps going and an armed session timer expires in the end.
LoopSpec == Spec /\ WF_vars(Pass) /\ SF_vars(FireTimer("SESSION"))

-----------------------------------------------------------------------------
(* Properties                                                                 *)

\* While H.245 is tunneled there is no separate H.245 connection: no socket, no
\* listener, nothing queued for one, whatever Connect, Facility, timer or command
\* comes. One handler breaks this: a Setup that turns tunneling on does not ask
\* whether H.245 was started without (ooOnReceivedSetup).
TunnelExclusive ==
  call.tunneling /\ ~call.retunneled =>
    call.h245 # "open" /\ call.h245Out = <<>> /\ ~call.listener

\* No handler sends on a signalling channel that was freed (ooSendH225Msg
\* dereferences pH225Channel without a test): a call that is tunneled has no other
\* descriptor that could bring a handler to it in the rest of the pass, unless that
\* Setup turned tunneling on beside an H.245 socket.
NoFreedChannel == call.crashed => call.retunneled

\* A session that waits for the peer's EndSession is watched by a session
\* timer until it is closed: it cannot wait for ever.
EndSentIsTimed ==
  call.session = "ENDSENT" /\ call.gone = "no" => call.timers["SESSION"] > 0

\* Once the peer's ReleaseComplete was handled, the call is cleared or a
\* session timer will clear it, though our own ReleaseComplete, still queued,
\* may take it back to CLEAR_RELEASESENT.  Not so with a listener: the H.245
\* connection that is accepted between the two makes the session active, no
\* timer is armed, and if the EndSession cannot be sent the call stays.
PeerReleaseEnds ==
  pc = "select" /\ call.rcRecvd /\ call.gone = "no" =>
    \/ call.callState = "CLEARED"
    \/ call.callState = "CLEAR_RELEASESENT"
       /\ (call.timers["SESSION"] > 0 \/ call.listener)

\* The peer is sent at most one ReleaseComplete.
OneRelease == call.rcSent <= 1

\* A call that left the list keeps no connection, listener or timer.
GoneIsClean ==
  call.gone # "no" =>
    /\ call.h225 # "open" /\ call.h245 # "open" /\ ~call.listener
    /\ \A k \in TimerKinds : call.timers[k] = 0

\* The life of the call as CallLifecycle tells it.
Phase ==
  IF call.gone # "no" THEN "gone"
  ELSE IF call.callState \in Clearing THEN "clearing" ELSE "live"

Lifecycle == INSTANCE CallLifecycle WITH phase <- Phase, releases <- call.rcSent

\* Unless the peer pauses the call with an empty capability set, the call lives
\* the life CallLifecycle promises: once marked for clearing it is never taken
\* for a live one again, whatever is received, sent or timed out meanwhile, and
\* only then it sends a ReleaseComplete, once.
FollowsLifecycle == Lifecycle!Spec

\* ooHangCall terminates the call: after the pass it is being cleared, or the
\* ReleaseComplete is on its way, or a timer, armed or to be armed by a message
\* in the queue, will clear it.
HangCallEnds ==
  pc = "select" /\ call.hung /\ call.gone = "no" =>
    \/ call.callState \in Clearing
    \/ call.relBuilt \/ call.h245Out # <<>>
    \/ \E k \in TimerKinds : call.timers[k] > 0

\* The peer of an outgoing call sent a Setup: the call was placed again, over a new
\* connection, whatever was lost on the old one.
PlacedAgain == call.callType = "outgoing" /\ call.setup

\* Whatever marked it, a call in a clearing state leaves the list, or waits only
\* for a peer that was sent the ReleaseComplete to close its connection, unless the
\* call was placed again.
ClearingEnds ==
  call.callState \in Clearing ~>
    \/ call.gone # "no"
    \/ call.callState = "CLEAR_RELEASESENT" /\ call.rcSent = 1
    \/ PlacedAgain

\* The wait for the peer's EndSession ends, also if the peer never answers.
EndSessionEnds == call.session = "ENDSENT" ~> call.session # "ENDSENT"

\* ooHangCall is used "to terminate a call": with a peer that closes its end once
\* it has the ReleaseComplete, the call leaves the list, unless it was placed again.
HangTerminates ==
  SF_vars(PeerReleases) => (call.hung ~> call.gone # "no" \/ PlacedAgain)

\* An EndSession that was built is queued or was sent, unless a connection broke
\* ("We need to send EndSessionCommand immediately").
EndSessionNotDiscarded ==
  call.endBuilt =>
    \/ call.endSent
    \/ \E i \in 1..Len(call.q931Out) : call.q931Out[i] = "EndSession"
    \/ \E i \in 1..Len(call.h245Out) : call.h245Out[i] = "EndSession"
    \/ call.h225 # "open" \/ "closed" \in {peer.h225, peer.h245}

\* ooCleanCall "closes all associated sockets".
CleanClosesSockets == call.gone # "no" => ~call.leak
=============================================================================
