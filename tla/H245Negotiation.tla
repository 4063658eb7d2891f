-------------------------- MODULE H245Negotiation --------------------------
(* The two ends of a call negotiate over one H.245 session, each running the  *)
(* code of H245Endpoint: the queue of each end drains into a reliable, ordered *)
(* connection (a TCP connection of its own, or the tunnel) to the other.      *)
(*                                                                            *)
(* Each end starts when its H.245 connection comes up; the callee also when   *)
(* the user answers (ooSendConnect), and the caller of a tunneled call when   *)
(* it learns of that. What ends a session is H323Call's: here a cleared call  *)
(* only drains its queue.                                                     *)
EXTENDS H245Endpoint, FiniteSets

CONSTANT TermTypes    \* the terminal types the two ends may be configured with

VARIABLES
  ends,     \* the record of each end
  wire,     \* what each end has sent and the other has not read
  starts    \* the starts each end has before it

vars == <<ends, wire, starts>>

Ends == {"caller", "callee"}

ASSUME TermTypesAssumption == TermTypes \subseteq [Ends -> Nat]

Peer(e) == IF e = "caller" THEN "callee" ELSE "caller"

Tunneled == [caller |-> {"answer"}, callee |-> {"answer"}]
Separate == [caller |-> {"connection"}, callee |-> {"connection", "answer"}]

Init ==
  /\ \E term \in TermTypes, send \in [Ends -> BOOLEAN] :
        ends = [e \in Ends |-> NewEndpoint(term[e], send[e])]
  /\ wire = [e \in Ends |-> <<>>]
  /\ starts \in {Tunneled, Separate}

\* An H.245 connection has to be up before anything crosses it.
Connected(e) == "connection" \notin starts[e]

Started(e) == ends[e].localSeq > 0

-----------------------------------------------------------------------------
\* A start sends what was not sent yet; a capability set whose predecessor was
\* acknowledged is sent again. Only ooSendConnect asks for a determination
\* whatever SendMSD says.
Start(e, kind) ==
  /\ kind \in starts[e]
  /\ e = "caller" /\ kind = "answer" => "answer" \notin starts["callee"]
  /\ ~ends[e].cleared
  /\ starts' = [starts EXCEPT ![e] = @ \ {kind}]
  /\ \E num \in Numbers :
       ends' = [ends EXCEPT ![e] =
         SendMasterSlaveDetermination(SendTermCapMsg(@), num,
                                      e = "callee" /\ kind = "answer")]
  /\ UNCHANGED wire

Send(e) ==
  /\ Connected(e)
  /\ ends[e].out # <<>>
  /\ LET m == Head(ends[e].out)
         rest == [ends[e] EXCEPT !.out = Tail(@)]
     IN /\ wire' = [wire EXCEPT ![e] = Append(@, m)]
        /\ ends' = [ends EXCEPT ![e] = OnSent(rest, m)]
  /\ UNCHANGED starts

Receive(e) ==
  /\ Connected(e)
  /\ Started(e)
  /\ ~ends[e].cleared
  /\ wire[Peer(e)] # <<>>
  /\ LET m == Head(wire[Peer(e)])
     IN \E num \in Drawn(m), able \in Matched(m) :
          ends' = [ends EXCEPT ![e] = HandleH245Message(@, m, num, able)]
  /\ wire' = [wire EXCEPT ![Peer(e)] = Tail(@)]
  /\ UNCHANGED starts

MSDTimeout(e) ==
  /\ ~ends[e].cleared
  /\ ends[e].msdTimers > 0
  /\ ends' = [ends EXCEPT ![e] = MSDTimerExpired(@)]
  /\ UNCHANGED <<wire, starts>>

TCSTimeout(e) ==
  /\ ~ends[e].cleared
  /\ ends[e].tcsTimers > 0
  /\ ends' = [ends EXCEPT ![e] = TCSTimerExpired(@)]
  /\ UNCHANGED <<wire, starts>>

OLCTimeout(e) ==
  /\ ~ends[e].cleared
  /\ \E no \in ends[e].olcTimers :
       ends' = [ends EXCEPT ![e] = OpenLogicalChannelTimerExpired(@, no)]
  /\ UNCHANGED <<wire, starts>>

Next ==
  \E e \in Ends :
    \/ \E kind \in {"connection", "answer"} : Start(e, kind)
    \/ Send(e)
    \/ Receive(e)
    \/ MSDTimeout(e)
    \/ TCSTimeout(e)
    \/ OLCTimeout(e)

\* The monitor thread keeps reading and writing; a user who answers is assumed.
\* No timer has to fire.
Fairness ==
  \A e \in Ends :
    /\ \A kind \in {"connection", "answer"} : WF_vars(Start(e, kind))
    /\ WF_vars(Send(e))
    /\ WF_vars(Receive(e))

Spec == Init /\ [][Next]_vars /\ Fairness

-----------------------------------------------------------------------------
(* Properties                                                                 *)

TypeOK ==
  /\ ends \in [Ends -> Endpoint]
  /\ wire \in [Ends -> Seq(Message)]
  /\ starts \in [Ends -> SUBSET {"connection", "answer"}]

MsgRange(s) == {s[i] : i \in DOMAIN s}

\* What e has queued or sent and the other end has not read.
Coming(e) == MsgRange(ends[e].out) \cup MsgRange(wire[e])

Alive == \A e \in Ends : ~ends[e].cleared

\* Two ends that both finished the determination have opposite roles, whatever
\* requests crossed, were rejected and were sent again with new numbers
\* (ooHandleMasterSlave, ooHandleMasterSlaveReject).
RolesOpposite ==
  \A e \in Ends :
    ends[e].msd = "Master" => ends[Peer(e)].msd \in {"DetermineSent", "AckSent", "Slave"}

\* A timer armed for a request of a live negotiation has something left to wait
\* for: the request is on its way, or an answer to it is (the loops over
\* timerList in ooHandleH245Message; a timer left behind clears a call that
\* already talks).
NoStaleTimer ==
  Alive => \A e \in Ends :
    /\ ends[e].msdTimers > 0 =>
         \/ \E m \in Coming(e) : m.type = "MSD"
         \/ \E m \in Coming(Peer(e)) : m.type \in {"MSDAck", "MSDReject"}
    /\ ends[e].tcsTimers > 0 =>
         \/ \E m \in Coming(e) : m.type = "TCS"
         \/ \E m \in Coming(Peer(e)) : m.type \in {"TCSAck", "TCSReject"}
    /\ \A no \in ends[e].olcTimers :
         \/ \E m \in Coming(e) : m.type = "OLC" /\ m.no = no
         \/ \E m \in Coming(Peer(e)) : m.type \in {"OLCAck", "OLCReject"} /\ m.no = no

\* No medium is opened twice in one direction, although three handlers open
\* channels and the callee may start twice (the tests of call->logicalChans in
\* ooHandleMasterSlave and both TerminalCapabilitySet handlers).
EachMediumOnce ==
  \A e \in Ends :
    \A i, j \in DOMAIN ends[e].chans :
      /\ ends[e].chans[i].dir = ends[e].chans[j].dir
      /\ ends[e].chans[i].media = ends[e].chans[j].media
      => i = j

\* The numbers of an end's transmit channels are distinct and below the next one
\* to hand out: a timer or an answer names one request (logicalChanNoCur in
\* ooOpenChannel).
NumbersFresh ==
  \A e \in Ends :
    \A i, j \in DOMAIN ends[e].chans :
      ends[e].chans[i].dir = "transmit" =>
        /\ ends[e].chans[i].no < ends[e].nextNo
        /\ /\ ends[e].chans[j].dir = "transmit"
           /\ ends[e].chans[i].no = ends[e].chans[j].no
           => i = j

\* Each receive channel is the other end's transmit channel, of the same number
\* and medium (ooHandleOpenLogicalChannel_helper, ooOpenChannel).
ChannelsPair ==
  Alive => \A e \in Ends :
    \A c \in MsgRange(ends[e].chans) :
      c.dir = "receive" =>
        \E d \in MsgRange(ends[Peer(e)].chans) :
          d.dir = "transmit" /\ d.no = c.no /\ d.media = c.media

MediaOf(ep, dir) ==
  {ep.chans[i].media : i \in {j \in DOMAIN ep.chans : ep.chans[j].dir = dir}}

Transmitted(ep) == MediaOf(ep, "transmit")
Received(ep) == MediaOf(ep, "receive")

\* An end that is not master opens a medium only in the step that accepted the
\* master's channel of that medium (the slave branch at the end of
\* ooHandleOpenLogicalChannel_helper).
SlaveFollows ==
  [][\A e \in Ends :
       ends'[e].msd # "Master" =>
         \A media \in Transmitted(ends'[e]) \ Transmitted(ends[e]) :
           media \in Received(ends'[e]) \ Received(ends[e])]_vars

Role(ep) == IF ep.msd \in {"Master", "Slave"} THEN ep.msd ELSE "none"

Session == INSTANCE MediaSession WITH
  Parties <- Ends,
  Media   <- MediaKinds,
  role    <- [e \in Ends |-> Role(ends[e])],
  sends   <- [e \in Ends |-> Transmitted(ends[e])],
  gets    <- [e \in Ends |-> Received(ends[e])],
  over    <- ~Alive

\* The negotiation keeps the promise of MediaSession: whatever crosses, each end takes
\* one role and keeps it; the master opens all its media in one step, and a channel is
\* only ever accepted by an end that knows its role, so that a slave never leaves a
\* medium one-way (the order in which ooHandleMasterSlave, ooOpenLogicalChannels and
\* the helper of ooHandleOpenLogicalChannel queue their messages).
FollowsMediaSession == Session!Spec

\* Both directions of every medium are there.
Up(ep) ==
  /\ ep.local = "AckRecvd"
  /\ ep.remote = "AckSent"
  /\ ep.msd \in {"Master", "Slave"}
  /\ Transmitted(ep) = MediaKinds
  /\ Received(ep) = MediaKinds

\* The master that ooHandleMasterSlave forgets: it took its role from the answer
\* of a peer that sends no request of its own (SendMSD off, or another stack that
\* waits), after which nothing looks at the channels again.
Forgotten(e) ==
  /\ ends[e].msd = "Master" /\ ends[e].silent /\ ends[e].chans = <<>>
  /\ ~ends[Peer(e)].sendMSD

\* Every answered call comes to have all its media in both directions, or is
\* cleared, or is the one of a forgotten master (the monitor loop, ooMonitorCalls,
\* over the handlers of ooh245.c).
NegotiationEnds ==
  <>[](~Alive \/ (\A e \in Ends : Up(ends[e])) \/ (\E e \in Ends : Forgotten(e)))

\* A transmit channel whose acknowledgement was read is established: what is
\* still PROPOSED waits for its request or the answer (ooh245.h and ooLogChan.h
\* on ooOnReceivedOpenLogicalChannelAck and the lookup by number).
AckedIsEstablished ==
  Alive => \A e \in Ends :
    \A c \in MsgRange(ends[e].chans) :
      c.dir = "transmit" /\ c.state = "PROPOSED" =>
        \/ \E m \in Coming(e) : m.type = "OLC" /\ m.no = c.no
        \/ \E m \in Coming(Peer(e)) : m.type \in {"OLCAck", "OLCReject"} /\ m.no = c.no
=============================================================================
