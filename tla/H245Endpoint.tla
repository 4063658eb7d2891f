---------------------------- MODULE H245Endpoint ----------------------------
(* One side of an H.245 negotiation: capability exchange, master-slave        *)
(* determination and the opening of logical channels (ooh245.c, ooLogChan.c), *)
(* as operators from an endpoint to an endpoint. An endpoint is the part of   *)
(* OOH323CallData that these procedures use, with the queue of its H.245      *)
(* channel. A choice the code leaves to data is a parameter: `num`, the       *)
(* number rand() draws, and `able`, whether a capability both sides share was   *)
(* found for the channel at hand.                                             *)
EXTENDS Integers, Sequences

CONSTANTS
  NumMod,       \* the modulus of status determination numbers, 2^24
  MaxRetries,   \* DEFAULT_MAX_RETRIES
  Video         \* gH323ep.callMode is OO_CALLMODE_VIDEOCALL (else an audio call)

ASSUME NumModAssumption == NumMod \in Nat /\ NumMod >= 4 /\ NumMod % 2 = 0
ASSUME MaxRetriesAssumption == MaxRetries \in Nat

ASSUME VideoAssumption == Video \in BOOLEAN

MediaKinds == IF Video THEN {"audio", "video"} ELSE {"audio"}

\* rand() % 16777215
Numbers == 0 .. NumMod - 2

Message ==
  [type : {"TCS", "TCSReject"}, seq : Nat]
    \cup [type : {"TCSAck", "TCSRelease", "MSDReject", "MSDRelease"}]
    \cup [type : {"MSD"}, term : Nat, num : Numbers]
    \cup [type : {"MSDAck"}, decision : {"master", "slave"}]
    \cup [type : {"OLC"}, no : Nat, media : MediaKinds]
    \cup [type : {"OLCAck", "OLCReject", "CLC", "CLCAck"}, no : Nat]

Channel == [no : Nat, dir : {"transmit", "receive"}, media : MediaKinds,
            state : {"PROPOSED", "ESTABLISHED"}]

Endpoint ==
  [ termType  : Nat,                                    \* gH323ep.termType
    sendMSD   : BOOLEAN,                                \* SendMSD
    local     : {"Idle", "SetSent", "AckRecvd"},        \* localTermCapState
    remote    : {"Idle", "AckSent"},                    \* remoteTermCapState
    localSeq  : Nat,                                    \* localTermCapSeqNo
    remoteSeq : Nat,                                    \* remoteTermCapSeqNo
    msd       : {"Idle", "DetermineSent", "AckSent", "Master", "Slave"},
    num       : Numbers,                                \* statusDeterminationNumber
    retries   : Nat,                                    \* msdRetries
    chans     : Seq(Channel),                           \* logicalChans
    nextNo    : Nat,                                    \* logicalChanNoCur
    cleared   : BOOLEAN,                                \* callState >= OO_CALL_CLEAR
    out       : Seq(Message),                           \* the H.245 channel's queue
    msdTimers : Nat, tcsTimers : Nat,                   \* armed timers of the kind
    olcTimers : SUBSET Nat, clcTimers : SUBSET Nat,     \* by channel number
    silent    : BOOLEAN ]    \* history: became master on an answer to its request

NewEndpoint(termType, sendMSD) ==
  [ termType |-> termType, sendMSD |-> sendMSD, local |-> "Idle", remote |-> "Idle",
    localSeq |-> 0, remoteSeq |-> 0, msd |-> "Idle", num |-> 0, retries |-> 0,
    chans |-> <<>>, nextNo |-> 1, cleared |-> FALSE, out |-> <<>>,
    msdTimers |-> 0, tcsTimers |-> 0, olcTimers |-> {}, clcTimers |-> {},
    silent |-> FALSE ]

Enqueue(ep, m) == [ep EXCEPT !.out = Append(@, m)]

ClearCall(ep) == [ep EXCEPT !.cleared = TRUE]

-----------------------------------------------------------------------------
(* Logical channels                                                           *)

Idle(ep) == ep.chans = <<>>

Numbered(ep, no) == {i \in DOMAIN ep.chans : ep.chans[i].no = no}

\* The first channel of the list with the number, of either direction.
FindChannel(ep, no) ==
  CHOOSE i \in Numbered(ep, no) : \A j \in Numbered(ep, no) : i <= j

AddChannel(ep, no, dir, media, state) ==
  [ep EXCEPT !.chans = Append(@, [no |-> no, dir |-> dir, media |-> media,
                                  state |-> state])]

ClearLogicalChannel(ep, no) ==
  IF Numbered(ep, no) = {} THEN ep
  ELSE LET i == FindChannel(ep, no)
       IN [ep EXCEPT !.chans = SubSeq(@, 1, i - 1) \o SubSeq(@, i + 1, Len(@))]

\* Mutant of OpenLogicalChannel: the number moves on before it is announced.
OpenLogicalChannelAhead(ep, media, able) ==
  IF <<"transmit", media>> \notin able THEN ClearCall(ep)
  ELSE LET ch == AddChannel([ep EXCEPT !.nextNo = @ + 1], ep.nextNo, "transmit",
                            media, "PROPOSED")
       IN Enqueue(ch, [type |-> "OLC", no |-> ch.nextNo, media |-> media])

\* Mutant of OpenLogicalChannel: the number does not move on.
OpenLogicalChannelSameNo(ep, media, able) ==
  IF <<"transmit", media>> \notin able THEN ClearCall(ep)
  ELSE LET ch == AddChannel(ep, ep.nextNo, "transmit", media, "PROPOSED")
       IN Enqueue(ch, [type |-> "OLC", no |-> ep.nextNo, media |-> media])

\* Adds the transmit channel and proposes it; no shared capability clears the call.
\* A capability the switch of ooOpenLogicalChannel does not know would do neither; the
\* driver registers none.
OpenLogicalChannel(ep, media, able) ==
  IF <<"transmit", media>> \notin able THEN ClearCall(ep)
  ELSE LET ch == AddChannel([ep EXCEPT !.nextNo = @ + 1], ep.nextNo, "transmit",
                            media, "PROPOSED")
       IN Enqueue(ch, [type |-> "OLC", no |-> ep.nextNo, media |-> media])

OpenLogicalChannels(ep, able) ==
  LET audio == OpenLogicalChannel(ep, "audio", able)
  IN IF Video /\ ~audio.cleared THEN OpenLogicalChannel(audio, "video", able) ELSE audio

\* Mutant of OpenIfReady: whoever is done opens, master or not.
OpenIfReadyAnyRole(ep, able) ==
  IF /\ ep.local = "AckRecvd"
     /\ ep.remote = "AckSent"
     /\ ep.msd \in {"Master", "Slave"}
     /\ Idle(ep)
  THEN OpenLogicalChannels(ep, able) ELSE ep

\* Mutant of OpenIfReady: the list of channels is not looked at.
OpenIfReadyAlways(ep, able) ==
  IF ep.local = "AckRecvd" /\ ep.remote = "AckSent" /\ ep.msd = "Master"
  THEN OpenLogicalChannels(ep, able) ELSE ep

OpenIfReady(ep, able) ==
  IF /\ ep.local = "AckRecvd"
     /\ ep.remote = "AckSent"
     /\ ep.msd = "Master"
     /\ Idle(ep)
  THEN OpenLogicalChannels(ep, able) ELSE ep

-----------------------------------------------------------------------------
(* Capability exchange                                                        *)

SendTermCapMsg(ep) ==
  IF ep.local = "SetSent" THEN ep
  ELSE Enqueue([ep EXCEPT !.local = "SetSent", !.localSeq = @ + 1],
               [type |-> "TCS", seq |-> ep.localSeq + 1])

SendMasterSlaveDetermination(ep, num, force) ==
  IF ep.msd # "Idle" \/ (~ep.sendMSD /\ ~force) THEN ep
  ELSE Enqueue([ep EXCEPT !.msd = "DetermineSent", !.num = num],
               [type |-> "MSD", term |-> ep.termType, num |-> num])

SendTCSIfIdle(ep) == IF ep.local = "Idle" THEN SendTermCapMsg(ep) ELSE ep

AcceptTermCap(ep, seq) ==
  Enqueue([ep EXCEPT !.remoteSeq = seq, !.remote = "AckSent"], [type |-> "TCSAck"])

\* A set not newer than the last one accepted is rejected.
OnReceivedTerminalCapabilitySet(ep, seq, num, able) ==
  IF ep.remoteSeq >= seq
  THEN SendTCSIfIdle(Enqueue([ep EXCEPT !.remote = "Idle"],
                             [type |-> "TCSReject", seq |-> seq]))
  ELSE LET acked == SendTCSIfIdle(AcceptTermCap(ep, seq))
       IN IF acked.local = "AckRecvd" /\ acked.msd = "Idle"
          THEN SendMasterSlaveDetermination(acked, num, TRUE)
          ELSE OpenIfReady(acked, able)

\* Mutant of DeleteTimer: the timer is taken to be armed.
DeleteTimerBlindly(n) == n - 1

\* Mutant of DeleteTimer: no timer is deleted.
DeleteNoTimer(n) == n

DeleteTimer(n) == IF n = 0 THEN 0 ELSE n - 1

OnReceivedTerminalCapabilitySetAck(ep, able) ==
  OpenIfReady([ep EXCEPT !.local = "AckRecvd", !.tcsTimers = DeleteTimer(@)], able)

OnReceivedTerminalCapabilitySetReject(ep, seq) ==
  IF seq # ep.localSeq THEN ep
  ELSE ClearCall([ep EXCEPT !.tcsTimers = DeleteTimer(@)])

-----------------------------------------------------------------------------
(* Master-slave determination                                                 *)

\* (remote - local) & 0xffffff
Difference(peerNum, ownNum) ==
  IF peerNum >= ownNum THEN peerNum - ownNum ELSE peerNum - ownNum + NumMod

\* The role of the peer, as one endpoint computes it from both requests.
PeerRole(ownType, ownNum, peerType, peerNum) ==
  IF peerType # ownType THEN IF peerType < ownType THEN "slave" ELSE "master"
  ELSE IF Difference(peerNum, ownNum) \in {0, NumMod \div 2} THEN "tie"
  ELSE IF Difference(peerNum, ownNum) < NumMod \div 2 THEN "slave" ELSE "master"

Opposite(role) ==
  IF role = "master" THEN "slave" ELSE IF role = "slave" THEN "master" ELSE role

SendAck(ep, peerRole, state) ==
  Enqueue([ep EXCEPT !.msd = state], [type |-> "MSDAck", decision |-> peerRole])

\* Mutant of OnMasterSlaveDetermination: a number is drawn even if one was sent.
OnMasterSlaveDeterminationRedraws(ep, term, peerNum, num) ==
  LET kept == [ep EXCEPT !.num = num]
      role == PeerRole(ep.termType, num, term, peerNum)
  IN IF role = "tie" THEN Enqueue(kept, [type |-> "MSDReject"])
     ELSE SendAck(kept, role, "AckSent")

\* With equal types the number is the one sent, or else a new one, kept.
OnMasterSlaveDetermination(ep, term, peerNum, num) ==
  LET own  == IF term # ep.termType \/ ep.msd = "DetermineSent" THEN ep.num ELSE num
      kept == [ep EXCEPT !.num = own]
      role == PeerRole(ep.termType, own, term, peerNum)
  IN IF role = "tie" THEN Enqueue(kept, [type |-> "MSDReject"])
     ELSE SendAck(kept, role, "AckSent")

RoleState(decision) == IF decision = "master" THEN "Master" ELSE "Slave"

\* Mutant of OnMasterSlaveAck: an endpoint that answered already waits on.
OnMasterSlaveAckOnce(ep, decision, able) ==
  LET heard == [ep EXCEPT !.msdTimers = DeleteTimer(@)]
  IN IF ep.msd = "DetermineSent"
     THEN SendAck(heard, Opposite(decision), RoleState(decision))
     ELSE OpenIfReady(heard, able)

\* Mutant of OnMasterSlaveAck: the channels are opened before the answer is queued.
OnMasterSlaveAckOpensFirst(ep, decision, able) ==
  LET taken == [ep EXCEPT !.msdTimers = DeleteTimer(@), !.msd = RoleState(decision)]
  IN IF ep.msd = "DetermineSent"
     THEN SendAck(OpenIfReady(taken, able), Opposite(decision), RoleState(decision))
     ELSE OpenIfReady(taken, able)

\* Answered while its own request waits, an endpoint takes its role and returns
\* before it looks at the channels.
OnMasterSlaveAck(ep, decision, able) ==
  LET heard == [ep EXCEPT !.msdTimers = DeleteTimer(@)]
  IN CASE ep.msd = "AckSent" ->
            OpenIfReady([heard EXCEPT !.msd = RoleState(decision)], able)
       [] ep.msd = "DetermineSent" ->
            SendAck([heard EXCEPT !.silent = decision = "master"],
                    Opposite(decision), RoleState(decision))
       [] OTHER -> OpenIfReady(heard, able)

OnMasterSlaveReject(ep, num) ==
  LET heard == [ep EXCEPT !.msdTimers = DeleteTimer(@)]
  IN IF ep.retries < MaxRetries
     THEN SendMasterSlaveDetermination(
            [heard EXCEPT !.retries = @ + 1, !.msd = "Idle"], num, TRUE)
     ELSE ClearCall(heard)

-----------------------------------------------------------------------------
(* Requests about channels                                                    *)

\* A slave answers a channel with one of the same medium. The code's other branch
\* asks for an empty list right after it added a channel, and never runs.
OnOpenLogicalChannel(ep, no, media, able) ==
  IF <<"receive", media>> \notin able THEN Enqueue(ep, [type |-> "OLCReject", no |-> no])
  ELSE LET rx == Enqueue(AddChannel(ep, no, "receive", media, "ESTABLISHED"),
                         [type |-> "OLCAck", no |-> no])
       IN IF ep.msd = "Slave" THEN OpenLogicalChannel(rx, media, able) ELSE rx

OnOpenLogicalChannelAck(ep, no) ==
  LET heard == [ep EXCEPT !.olcTimers = @ \ {no}]
  IN IF Numbered(ep, no) = {} THEN heard
     ELSE [heard EXCEPT !.chans[FindChannel(ep, no)].state = "ESTABLISHED"]

OnOpenLogicalChannelRejected(ep, no) ==
  ClearCall([ep EXCEPT !.olcTimers = @ \ {no}])

OnCloseLogicalChannel(ep, no) ==
  Enqueue(ClearLogicalChannel(ep, no), [type |-> "CLCAck", no |-> no])

OnCloseLogicalChannelAck(ep, no) == [ep EXCEPT !.clcTimers = @ \ {no}]

HandleH245Message(ep, m, num, able) ==
  CASE m.type = "TCS"       -> OnReceivedTerminalCapabilitySet(ep, m.seq, num, able)
    [] m.type = "TCSAck"    -> OnReceivedTerminalCapabilitySetAck(ep, able)
    [] m.type = "TCSReject" -> OnReceivedTerminalCapabilitySetReject(ep, m.seq)
    [] m.type = "MSD"       -> OnMasterSlaveDetermination(ep, m.term, m.num, num)
    [] m.type = "MSDAck"    -> OnMasterSlaveAck(ep, m.decision, able)
    [] m.type = "MSDReject" -> OnMasterSlaveReject(ep, num)
    [] m.type = "OLC"       -> OnOpenLogicalChannel(ep, m.no, m.media, able)
    [] m.type = "OLCAck"    -> OnOpenLogicalChannelAck(ep, m.no)
    [] m.type = "OLCReject" -> OnOpenLogicalChannelRejected(ep, m.no)
    [] m.type = "CLC"       -> OnCloseLogicalChannel(ep, m.no)
    [] m.type = "CLCAck"    -> OnCloseLogicalChannelAck(ep, m.no)
    [] OTHER                -> ep

\* What the handler of m may draw with rand(): only these look at the number.
Drawn(m) == IF m.type \in {"TCS", "MSD", "MSDReject"} THEN Numbers ELSE {0}

\* The directions and media it may find a shared capability for.
Matched(m) ==
  IF m.type \in {"TCS", "TCSAck", "MSDAck", "OLC"}
  THEN SUBSET ({"transmit", "receive"} \X MediaKinds) ELSE {{}}

-----------------------------------------------------------------------------
(* Timers                                                                     *)

\* The timer of a request starts when the request leaves the queue.
OnSent(ep, m) ==
  CASE m.type = "MSD" -> [ep EXCEPT !.msdTimers = @ + 1]
    [] m.type = "TCS" -> [ep EXCEPT !.tcsTimers = @ + 1]
    [] m.type = "OLC" -> [ep EXCEPT !.olcTimers = @ \cup {m.no}]
    [] m.type = "CLC" -> [ep EXCEPT !.clcTimers = @ \cup {m.no}]
    [] OTHER          -> ep

MSDTimerExpired(ep) ==
  ClearCall(Enqueue([ep EXCEPT !.msdTimers = @ - 1], [type |-> "MSDRelease"]))

TCSTimerExpired(ep) ==
  ClearCall(Enqueue([ep EXCEPT !.tcsTimers = @ - 1], [type |-> "TCSRelease"]))

OpenLogicalChannelTimerExpired(ep, no) ==
  LET fired == [ep EXCEPT !.olcTimers = @ \ {no}]
  IN ClearCall(IF Numbered(ep, no) = {} THEN fired
               ELSE ClearLogicalChannel(Enqueue(fired, [type |-> "CLC", no |-> no]), no))
=============================================================================
