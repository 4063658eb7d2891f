# Verification of asterisk-addons: the ooh323c stack and its channel driver

This directory models the H.323 protocol stack `ooh323c`
(`src/channels/ooh323c/src/`) of asterisk-addons and the threads of the channel
driver around it (`src/channels/chan_ooh323.c`), the parts of the repository that
carry its concurrent and failure-handling logic, in TLA+: the modules are checked
with TLC on small instances and the main safety results are proved with TLAPS for
all values of the constants.

## The system

| component | files | state | operations |
|---|---|---|---|
| call record, signalling, monitor loop | `ooCalls.c`, `oochannels.c`, `ooh323.c`, `ooq931.c`, `ooTimer.c` | one `OOH323CallData` per call: call state, H.245 session state, flags, two channels with output queues, listener, timer list; the global call list | handlers of Q.931 messages, sends, timers, `ooEndCall`, `ooCleanCall` |
| H.245 negotiation, logical channels | `ooh245.c`, `ooLogChan.c` | capability exchange and master-slave states, table of channels | handlers and senders of H.245 messages, timeouts |
| command channel | `ooCmdChannel.c`, `ooStackCmds.c` | a pipe, the pipe lock, the lock PBX threads wait on | one handler per command |
| gatekeeper client | `ooGkClient.c` | registration state, pending and admitted calls, timers | GRQ, RRQ, ARQ, DRQ, URQ and their answers |
| capabilities | `ooCapability.c` | lists of codecs | matching, joint capabilities |
| ports, sockets | `ooports.c`, `ooSocket.c` | port ranges | bind, connect, send, receive |
| channel driver | `../chan_ooh323.c`, `../ooh323cDriver.c` | list of private structures, locks | Asterisk's channel technology, callbacks of the stack |
| MySQL modules | `cdr_addon_mysql.c`, `res_config_mysql.c`, `app_addon_sql_mysql.c` | a connection, an identifier list | records, queries, reconnection |
| others | `app_saycountpl.c`, MP3 format, ASN.1 code, menuselect | | vendored, generated or pure |

One monitor thread (`ooMonitorChannels`) owns every call. Each pass it waits in
`select()`, executes the commands the application threads wrote to a pipe, and
then, for each call, fires its expired timers, reads one message of each ready
connection, writes one message to each ready connection and takes a call in a
clearing state one step further (`ooEndCall`). The application talks to it by
commands; the remote endpoint by two TCP connections, or by one when H.245 is
tunneled in Q.931 messages.

What is hard in this code:

* Ending a call. It needs up to four messages (an EndSession and a
  ReleaseComplete each way) that either side may start at any moment, over one or
  two connections that may be closed at any moment, with timers that must end each
  wait, with flags that record what was *built* while queues may still lose it, and
  with handlers that run after an earlier handler of the same pass freed the
  channel they use.
* Negotiating. Both ends run the same code at once: a capability exchange, a
  determination that may end in equal numbers and start again, and the opening of
  channels, which three handlers may start and only one must.
* The threads. A PBX thread holds its channel's lock while it waits for the stack's
  thread, which in its callbacks wants that lock, and while it wants the lock of the
  private structure, which the stack's thread keeps while it wants the channel's;
  private structures are freed by a third thread when the two others have both let go,
  as one flag says that several places set.
* RAS. Answers come over UDP, late, twice or not at all, and drive timers that
  point to structures other handlers free; calls are looked up by a number that
  others chose.

`PROJECT.json` lists these hazards line by line.

What makes the components correct:

* call: one state machine from live to gone that never goes back, one
  ReleaseComplete, no send on a freed channel, no wait without a timer or a
  peer that must answer, nothing left open when it is gone;
* negotiation: both sides agree who is master, the master opens each medium once
  and the slave follows, no timer is left behind, every call gets its media or is
  cleared;
* command channel: every waiting thread is released;
* gatekeeper client: no wait is without a timer, a request sets its call up once, no
  list or timer points to what was freed, and nothing freed is read;
* driver: a private structure is destroyed once, after both its call and its
  channel let go of it, and nobody uses it or its channel afterwards.

## Modules

| module | models |
|---|---|
| `CallData` | the call record (`Call`) and, as operators from a call to a call, every stack function that changes it: sending, H.245 and Q.931 handlers, commands, timers, `ooEndCall`, `ooCleanCall` |
| `H323Call` | one call in the monitor loop with its peer and its application: the state machine, its properties |
| `CallLifecycle` | the abstract specification: live, clearing, gone, at most one ReleaseComplete |
| `MCH323Call` | `H323Call` for TLC |
| `H245Endpoint` | one end of a negotiation and, as operators from an end to an end, the handlers, senders and timers of `ooh245.c` and the channel table of `ooLogChan.c` |
| `H245Negotiation` | two ends that run `H245Endpoint` over two ordered connections |
| `MediaSession` | the abstract specification of a negotiation: who takes which role, and who may open and accept which medium |
| `MCH245Negotiation` | `H245Negotiation` for TLC: the terminal types |
| `Driver` | the PBX threads, the stack's thread with command pipe and callbacks, and `do_monitor`, around the list of private structures |
| `Ownership` | the abstract specification of a private structure: two parties make it, join it and let go of it, and it is freed after both, or after one if the channel forfeited it |
| `MCDriver` | `Driver` for TLC |
| `GkClient` | the gatekeeper client in the passes of the monitor thread, with the calls it admits |
| `MCGkClient` | `GkClient` for TLC: the symmetry of its calls |
| `CallDataProofs` | one lemma per operator of `CallData` |
| `H323CallProofs` | the inductive invariants of `H323Call` and the theorems they give, that it implements `CallLifecycle` among them |
| `SessionProofs` | that the ends of sessions and calls are timed, and that a gone call is clean |
| `H245EndpointProofs` | one lemma per operator of `H245Endpoint`, and that two ends that compare the same two requests give each other opposite roles |
| `H245Proofs` | the inductive invariant of the determination in `H245Negotiation` and the theorems it gives |
| `H245ChannelProofs` | the inductive invariant of its channels and timers, and that it implements `MediaSession` |
| `DriverProofs` | the inductive invariant of `Driver` and the theorems it gives, that it implements `Ownership` among them |
| `GkClientProofs` | the inductive invariant of `GkClient` and the theorems it gives |

`H323Call`, `H245Negotiation`, `Driver` and `GkClient` look at the same stack from
four sides and share no variable. Each leaves open what another settles: the
outcome of a determination is any in `H323Call` and computed in `H245Negotiation`;
a call only ends in `Driver` and `GkClient`, and how it ends is `H323Call`.

### How the model corresponds to the code

#### The call

`call` is the `OOH323CallData`. Fields keep their meaning under shorter names
(`session` is `h245SessionState`, `h225` and `h245` are the two channel pointers
with their sockets: `"none"` is a NULL pointer, `"nosock"` a channel without a
socket). The states `CONNECTING` and `CONNECTED` are missing because the code
never assigns them: a call stays `CREATED` until it is paused or cleared. `TCS` states keep the values that are tested. A timer list is
the number of timers of each kind, since handlers delete the first of a kind.
Queues are sequences of message kinds; a kind is kept apart only when sending
it has an effect. The last fields of `Call` are history the code does not keep.

A handler whose result depends on data the record leaves out (channel tables,
codecs, status determination numbers, fast start elements, a body of the wrong kind, an
address that is not IP) is an operator whose name ends in `Outcomes`: the set of calls
it may leave, those of its error returns among them. A Q.931 message without User-User
element has no outcome of its own: `ooQ931Decode` fails for it, which is `ReceiveBadQ931`.

A pass of the loop is a sequence of actions under `pc`: `Select` (what is ready
is sampled once, `ready`), `Command`, `FireTimer`, then one action for each ready
port in the order of the code (`Before`), and `EndPass`, which is `ooEndCall`. A
port whose socket went away or was replaced in the meantime is passed over
(`Vanished`); so `newSock` marks a socket younger than the `select()`. What the
peer says is chosen when it is read; what it may say is `PeerH245` for H.245 and
every Q.931 message at any time, whatever the type of the call and whatever came
before, because `ooHandleH2250Message` asks for neither: a Setup may come again, for an
outgoing call too, which is then placed once more over a new connection. `setup` says
that one came, `retunneled` that one turned tunneling on when H.245 had already been
started on its own. A Facility tunnels one H.245 message. The peer closes a connection at any
moment (`PeerClosesH225`, `PeerClosesH245`), which the stack learns when it reads
or writes. A connect may fail, a write to a closed connection may fail or not.

Time is not modelled: an armed timer may expire in any pass.

#### The negotiation

`ends[e]` is what these procedures use of the `OOH323CallData` of end `e`, with the
queue of its H.245 channel (`out`) and the timers in its list; `wire[e]` is what it
has sent and the other has not read. Both directions are ordered and reliable: a TCP
connection, or the tunnel. `starts` is which starts are still to come: of a tunneled
call the answer (`ooSendConnect` at the callee, the received Connect at the caller),
of another the connection at each end and the answer at the callee. Each action
runs one whole handler. What the code takes from data is chosen: `num`, what
`rand()` gives, and `able`, for which directions and media a shared capability is
found. A capability of a kind that the switch of `ooOpenLogicalChannel` does not know
(ooh245.c:3666-3690) would leave the call as it is, neither opened nor cleared; this
driver registers none, so it is left out. `SendMSD` (ooh245.c:1024) is a switch of builds
with `CONFIG_CUSTOM`, which nothing in the repository defines: an end without it is here
an end that, like another stack, waits for its peer's request. A cleared call only
drains its queue.

In `OnOpenLogicalChannel` the slave opens a channel of the medium it just accepted;
the code's other branch, which opens all media, asks whether the list of channels is
empty right after adding to it.

`MediaSession` sees of an end its role (`Role`, of `masterSlaveState`), the media it
transmits and receives (`Transmitted` and `Received`, of its list of channels), and
whether either end has cleared the call. All else, the queues, the capability sets,
the determination, the numbers and the timers, is stuttering. Once a call is
cleared the abstract media may be anything, the roles not.

#### The driver

`pvt`, `chan` and `call` are the private structure, the `ast_channel` and the call of
the stack. `pbx` is where the channel's thread is: between two methods (`ringing`,
`talking`), in `ooSyncLock` (`waiting`), or in a method that wants `p->lock`
(`blocked`); in the last two it keeps its channel locked (`Held`). `stack` is where the
stack's thread is: in its loop, or in a callback that wants `iflock` (`alloc`, `find`),
tries for the owner's lock (`try`, `retry`), uses the owner after it gave `p->lock` back
(`use`), or queues a hang-up with `p->lock` kept (`queue`). `monitor` is the structure
for whose owner `do_monitor` tries, with `iflock` kept. So each lock that a thread keeps
while it waits for another one is in the model, and what is done under a lock without
waiting is one action. A find_call that starts from a head of `iflist` freed since it was
read (`stack.head`), a loop that comes round to an owner that left, and an owner used
after it was freed are the crashes of `CallbackCrashes`; that it goes well is the other
outcome.

`ALREADYGONE` is `pvt.gone`. Three places set it: the hang-up and the end of the call,
which tell each other by it who is last, and `ooh323_indicate` for busy and congestion
(`Indicate`), which lets go of nothing. From then on the channel is in `refused`: the
first of the two to leave marks the structure, `do_monitor` takes it from a channel that
lives on (`Bereft`), and a method called on that channel dereferences NULL
(`MethodCrashes`). The other indications, digits, picture updates and transfers queue a
command that changes none of this state.

A command is read into a buffer and processed from there: `batch` counts the commands
that were read. The buffer, MAXMSGLEN of 4096 bytes, holds `ReadMax` whole commands (102
of 40 bytes, 204 of 20) and a part of another, which is dropped; the next read then
starts in the middle of a command (`aligned`) and finds none that it knows, or pointers
that are none. `unlocked` is the mutex of `ooSyncLock`, locked in its initial state and
unlocked by another thread than the one that locks it: an unlock is kept for one waiter,
whoever it is, and two with nobody between count once. `lost` remembers a wake-up that
went astray and the end of the process.

Asterisk itself is external: a method runs with the channel locked, and a channel
is freed after its hangup method. The peer sends the Setup of a call once here: a
repeated one would allocate a second structure of the same token
(`ooh323_onReceivedSetup`), which then hides the first from `find_call`; what that does
to the call is in `H323Call`, what it does to the structures is not modelled.

`Ownership` sees of a structure where it is (`pvt.at`, an unlinked one still being there)
and what part two parties have in it (`Part`): its channel, from `ooh323_request` or
`onAlerting` to the hang-up, and the stack's call, from the command or the Setup that
gives the structure its token until the call is over or its MAKECALL is dropped. An
indication of busy or congestion forfeits it. A structure whose command was dropped is
left by the stack but never marked: `Ownership` says when it may be freed, `PvtFreed`
when it is.

#### The gatekeeper client

`gk` is the client and its timers of discovery and registration. A call asks for
admission when it is placed, by a command or for a forwarded call (`PlaceCall`), and with
every Setup it receives (`ReceiveSetup`), so a request, not a call, has an entry:
`adm[e]` is the `RasCallAdmissionInfo` of a request with the list it is in, `arq[e]` how
many admission timers point to it, or to nothing (`NoInfo`). `ref` is the
`callReference`: the peer's choice for an incoming call (ooh323.c:151), a counter for an
outgoing one; any values may meet. Clean-up, disengage and retransmission look for an
entry by that number and take the first that fits. `Found` is what they may find: any
entry that compares equal, since the order of the lists is left out, and any whose call
was freed, since then what is compared is whatever is there. `shared` remembers that two
calls with a request had one reference, or a call two requests. A call is `gone` when it
was freed or when the client has nothing to do with it any more: an application that
sets OO_M_DISABLEGK at its Setup.

A pass is `timers`, `commands`, `ras`, `calls` (`pc`). Any answer may be received at any
time: a UDP datagram may be lost, repeated and late, and the client compares only the
number of an admission's answer. Every send may fail. A timer, a search or an answer
that comes upon a freed entry or call either breaks the process (`crashed`, by
`StaleTimerExpired`, `SearchStale`, `StaleAnswered`) or goes by what is there, its old
content or another entry's (`Readable`).

## Runs

The constants of the call are `MaxConnectRetry` and `MaxRetries` (5 and 3 in the
code, here 0 or 1: a limit that is reached and, with 1, one retry before it),
`EpTunneling` (the endpoint's flag), `PeerH245` (what the peer may send), and the two
bounds of the environment: `MaxMsgs` (messages and connections of the peer) and
`MaxCmds` (commands). Those of the negotiation are `NumMod` (2^24 in the code, 4
here: numbers that are equal, half the modulus apart, and on either side),
`MaxRetries`, `Video` and `TermTypes`. Those of the driver are `Calls`, `Gatekeeper`,
`Refusing` (whose channel may indicate busy or congestion: one of two, so that the other
shows what holds without) and `ReadMax` (2 here: a third command is cut); of the client
`Calls`, `Refs` (the references there are, 0 being that of a call before its Setup and a
number like others), `Specific`, the three limits of retries `MaxGRQs`, `MaxRRQs` and
`MaxARQs` (0 for discovery, whose retries are those of the registration once more), and
the two bounds `MaxTimers`, of the timers late answers can pile up, and `MaxRequests`.
Calls of the client are alike, so they are symmetric; its run checks invariants only.
Deadlock is not checked: a call that left the list, a negotiation that is over, a
driver whose calls are destroyed and a client that was stopped take no more steps.

| run | specification, bounds | shows |
|---|---|---|
| `call_messages` | `Spec`, all 12 H.245 messages, 2 messages, 1 command, tunneling allowed; 2.6 million states | types; tunneling and a separate H.245 connection exclude each other, but for a Setup that turns tunneling on later; the wait for an EndSession is timed; one ReleaseComplete; nothing stays open |
| `call_safety` | `Spec`, capability set, channel and EndSession messages, one connect retry; 2.1 million states | no freed channel is used, but after such a Setup; the peer's ReleaseComplete ends a call without listener; `FollowsLifecycle`, the refinement of `CallLifecycle` |
| `call_liveness` | `LoopSpec`, no tunneling, EndSession messages; 0.25 million states | calls being cleared get out of the list or wait for the peer's close; the wait for an EndSession ends; a hang-up removes the call |
| `hang_stuck` | `LoopSpec`, tunneling | violated, below |
| `hang_lost` | `Spec`, pause | violated, below |
| `endsession_discarded` | `Spec`, tunneling | violated, below |
| `sockets_leak` | `Spec` | violated, below |
| `negotiation` | video call, one retry, equal types or the caller's greater, either end with and without `SendMSD`, tunneled or not; 0.4 million states | the roles are opposite; no timer without its request or answer; each medium once; numbers fresh; channels pair; the slave only follows; `FollowsMediaSession`, the refinement of `MediaSession`; the negotiation ends |
| `ack_wrong_channel` | audio call, equal types | violated, below |
| `driver` | two calls, either direction, one of them refused, a buffer of two commands, a registration that comes and goes; 0.22 million states | no callback uses a freed structure, owners match and a structure is destroyed after both let go, but where busy or congestion was indicated; then it is destroyed in the end; a waiting thread returns or is stranded in one of five ways; `FollowsOwnership`, the refinement of `Ownership` |
| `answer_stuck` | one call, no gatekeeper | violated, below |
| `ras` | two calls with references of their own or one, two requests, a specific gatekeeper, one retry; 2.3 million states up to symmetry | the client keeps a timer; one Setup for a request; with references of their own: pending requests are timed, lists and timers point to what is alive, and nothing freed is read but after a rejection |

For the call, two messages suffice for what these properties are about: each relates a message
to one more (an EndSession or a ReleaseComplete, ours or the peer's, or a closed
connection, which is not counted) and to one command; without tunneling and
with it, and with every timer in every pass. The negotiation has no bound on its
messages: they run out. Its two retries each way (one and the last) come with every
crossing of requests, because a rejected request may meet a new one. Two calls are
what the list of private structures, the one mutex of all waiters and the search of
the client's lists are about: one more call adds no new relation between two. The
proofs below remove the bounds.

### Fairness

`LoopSpec` is `Spec` with `WF_vars(Pass)`: the monitor thread keeps taking steps
(its `while` loop, and `select()` has a timeout), and
`SF_vars(FireTimer("SESSION"))`: `ooTimerFireExpired` looks at the timer list in
every pass, and an armed timer has a finite expiry time. Strong fairness is what
that amounts to: the action is enabled in the part of each pass where timers are
fired and disabled in the others. No other timer and no action of the peer is
fair. `HangTerminates` states its assumption on the peer itself: a peer that has
exchanged a ReleaseComplete closes its connection.

`H245Negotiation` has weak fairness of each end's sends, receipts and starts: the
monitor threads run and TCP delivers; that the user answers is an assumption. No
timer has to expire, and none may be needed.

`Driver` has strong fairness of `ReadAndProcess`, since each round of the stack's
thread looks at the pipe whatever its calls do in between, and weak fairness of a
callback in progress, of a thread whose mutex is free, and of `do_monitor`. No user,
peer or gatekeeper owes anything.

`GkClient` states no fairness: that an admission is decided follows, for a client that
goes on working, from `PendingTimed` and an expiry time that is finite.

### What the code does not keep

* `hang_stuck`: with tunneled H.245 a hung-up call may stay in the list for ever.
  Appending an EndSession or a ReleaseComplete empties the signalling queue first;
  the EndSession that answers the peer's thus removes a queued ReleaseComplete,
  which `OO_M_RELEASE_BUILT` keeps from being built again, and no timer is armed.
  `call_liveness` shows the same property holds with a connection for H.245.
* `endsession_discarded`: for the same reason the EndSession that `ooEndCall`
  queues is removed by the ReleaseComplete it queues next.
* `hang_lost`: when an empty capability set has paused the session, the next read
  on its connection sets the call state to PAUSED, also over CLEAR; the hang-up
  is forgotten. The properties of `call_safety` therefore assume that the
  peer sends no empty capability set (`NoPause` in the proofs).
* `sockets_leak`: the socket of a failed connect is neither kept nor closed.
* `ack_wrong_channel`: a slave gives its channel the number the master gave its own;
  the acknowledgement is looked up by number alone and establishes the master's
  channel, already established, while the slave's stays PROPOSED.
* `answer_stuck`: `ooh323_answer` waits for the stack with its channel locked; if the
  call ends, or its media come up, before the command is read, the stack's thread spins
  for that lock for ever, and with it every call of the process.

What the other properties have to allow for, since the code does not prevent it:

* `PeerReleaseEnds`: when a call with a listener accepts its H.245 connection in the
  pass between the peer's ReleaseComplete and its own, the session is active when its
  own is sent and no timer is armed; if the EndSession of the same pass cannot be sent
  either, the call waits in CLEAR_RELEASESENT for the peer to close (found with three
  messages, two commands and no H.245 message; a bound the runs do not reach).
* `NegotiationEnds`: a master that took its role from the answer to its own request
  looks at the channels no more (the `return` in `ooHandleMasterSlave`); a peer that
  sends no request of its own leaves it so (`Forgotten`).
* `TunnelExclusive` and `NoFreedChannel`: a Setup that turns tunneling on
  (ooh323.c:254) does not ask whether there is an H.245 socket, listener or address
  already. What the open socket then brings is answered through the signalling channel,
  which may be gone: `retunneled` excepts these calls.
* `ClearingEnds` and `HangTerminates`: an outgoing call that receives a Setup is placed
  again over a new connection, and what was sent or built on the old one is not sent
  again (`PlacedAgain`).
* `WaitersReturn`: a waiting thread is stranded when the stack's thread waits, directly
  or for an `iflock` that `do_monitor` keeps, for a channel whose thread is in
  `ooSyncLock` or wants a `p->lock` that is kept (`Embraced`), when its command is
  dropped because the client is not registered, when it is cut by the reader's buffer,
  when two unlocks meet no waiter, and when the process ends (`lost`).
* `PvtSafe`, `OwnersMatch`, `DestroyedLast` and `FollowsOwnership`: a channel that
  indicated busy or congestion (`refused`) gives up all four, as told above; what is left
  is that the structure goes after one of the two.
* `PvtFreed`: not while `do_monitor` is kept by another channel (`monitor`).
* `PendingTimed`, `ListsLive`, `TimersPoint` and `StaleUnread`: two calls of one
  reference, or two requests of one call, break each of them (`shared`). With a
  retransmission one request gets the other's timer, a confirm deletes one of the two,
  a clean-up removes the wrong entry and leaves one that points to the freed call. A
  request whose send failed, in a client that an answer then makes work again, is in the
  pending list and has no timer (`unsent`).
* `TimersPoint` and `StaleUnread`: a rejected call's admission timer goes on to point to
  its freed entry (`rejected`).

## Proofs

### The call

`TypeCorrect`, `TunnelingExclusive` and `OneReleaseHolds` (in `H323CallProofs`)
hold for every value of the constants; `NoFreedChannelHolds` and
`FollowsLifecycleHolds` (there too) for every value for which
`"EmptyTCS" \notin PeerH245`; `EndSentIsTimedHolds` and `GoneIsCleanHolds` (in
`SessionProofs`) for every value, and `PeerReleaseEndsHolds` without "EmptyTCS". They use the assumptions of `CallData`
(`RetryAssumption`) and `H323Call` (`ConfigAssumption`), which only give the
constants their types.

The invariants are not inductive. `TunnelExclusive` needs that a tunneled call has no
address to connect to and no timer for another try either, that connections are tried
only to an address and that only a channel has a queue (`TunnelOK`): each handler that
starts H.245 turns tunneling off first, and a Setup that turns it on is `retunneled`
exactly if there was one of these. `OneRelease` needs
that a ReleaseComplete in the queue or on the wire was marked as built, that the
queue holds at most one, and none once one was sent (`ReleaseOK`). So
`IInv == Others /\ Good(call)`, where `Good` is the type of the
call with these two facts about it. `CallDataProofs` proves for each operator
that it keeps `Good` and says what else it leaves alone (`Same`, `Frame`,
`Steady`, `Keeps`: from nothing but negotiation data changed to no clearing
state left; `Placed` for a Setup, which may replace the signalling channel); these compose, so the proof that a handler keeps the invariant is
the chain of the operators it calls, and the step proof has one case per action.

For the lifecycle, `LInv == IInv /\ Ends(call)`. A freed signalling channel exists
only within a pass, in the state CLEARED, in which nothing is taken from a queue
but a ReleaseComplete; a queued ReleaseComplete implies a clearing state; and
without a pause no operator leaves the clearing states. From `LInv` each step of
`H323Call` maps to a step of `CallLifecycle` or to a stutter.

For the session timer, `SessionProofs` goes through the operators once more with one
predicate, `Sound(c, traits)`. A call in the list is `Timed`: an ENDSENT session has a
session timer, a closed one no socket, a released call has sent its ReleaseComplete.
The traits say more: the call was never paused, has a listener, got no ReleaseComplete,
or is about to end. That `PeerReleaseEnds` needs two timers counted (`Watched`): the
peer's EndSession deletes a session timer, and the one of the ReleaseComplete must
be left. And it needs that a ReleaseComplete still queued for a cleared call leaves in
the pass in which the peer's came, after which no handler without a listener can make
a session before it does (`Settled`).

### The negotiation

`TypeCorrect`, `NumbersFreshHolds` and `RolesOppositeHolds` (in `H245Proofs`) hold for
every even modulus of at least 4 (`NumModAssumption`), every number of retries, both
call modes and all pairs of terminal types; in particular for the modulus 2^24 that
TLC cannot reach.

That the roles are opposite depends on what is under way between the ends, not only on
their states: an end that answers while its own request still travels must be answered
by the same comparison. The invariant `Inv` adds to the types and to the numbering of
each end (`Numbering`) that the two ends and the two queues between them, each the
connection with the unsent rest behind it, are in one of twelve phases (`Agree`), from
`Quiescent` over `Asking`, `Crossing`, `Refused` and `Granted` to `Determined`, in one
direction or the other. A phase says what each end waits for and which requests,
answers and rejections are on the way, in order, between any other messages.
`H245EndpointProofs` proves of every operator that it keeps an end `Good` and what it
does to the determination: nothing (`Plain`), its request (`Asks`), or one message
(`Says`). `RolesAgree` is the arithmetic: the two differences of unequal numbers add up
to the modulus, so both ends see a tie or neither, and else opposite roles. In
`H245Proofs` one lemma per kind of step then moves the phase (`SameMove`, `AskMove`,
`RequestMove`, `AckMove`, `RejectMove`).

`NoStaleTimerHolds`, `EachMediumOnceHolds`, `ChannelsPairHolds`, `SlaveFollowsHolds` and
`FollowsMediaSessionHolds` (in `H245ChannelProofs`) hold for the same constants. None of
the five is inductive, and none follows from the state of one end: an end has its
channels from what it read, and its timers are there for what the other end has yet to
read or to answer. `ChannelInv` says of each end, in terms of the two queues `p` and `q`
towards the other and back:

* `Side`, about channels. A medium is offered once, and not to an end that has it
  (`OfferedOnce`); a slave has not opened a medium it has yet to follow (`Awaits`); an
  end whose channel numbers are unused has offered nothing (`Unopened`), and its list is
  empty for no other reason while the call is up (`EmptyIsUnopened`), so that
  `OpenIfReady`, which asks for an empty list, opens once; channels are closed last of
  all (`ClosesLast`); the slave has channels after the master (`OpensInTurn`); and what
  is offered or accepted, the offering end has (`Paired`).
* `Led`. An end without a role reads an acknowledgement of the determination before any
  offer. This is where the order of the messages in a queue counts, and why it matters
  that `ooHandleMasterSlave` acknowledges before channels are opened: the acceptance of
  a channel tests the role, and an end without one would leave the medium one-way.
* `Waits`, while neither call is cleared. One capability set is under way or answered,
  the last one sent, and a timer for it is armed only once it left the queue
  (`CapsWait`); likewise for a request of the determination (`RoleWait`), whose retries
  send another, and for each offered channel (`ChanWait`).

`Effect` is what a step does, whichever it is: the set `A` of messages it queued and the
set `B` of those it read, with what follows for the capabilities (`CapsOwn`), the
determination (`RoleOwn`), the offers (`OfferOwn`) and the list of channels
(`ListEffect`: it stays, all is opened, a channel is accepted, accepted and followed, or
dropped). One lemma per handler shows its `Effect`, one lemma per part of the invariant
that an `Effect` keeps it, for the end that moves and for the end that does not. That a
role is never given up comes from the phases of `Agree`, and so does that no two ends
take the same. For the refinement, `MediaMove` maps what became of the list to `Open`,
`Accept`, `Follow` or nothing, and `EndStepFollows` adds the role.

### The driver

`TypeCorrect`, `PvtSafeHolds`, `OwnersMatchHolds` and `DestroyedLastHolds` (in
`DriverProofs`) hold for every set of calls, whichever of them may be refused, with and
without a gatekeeper and for every size of the reader's buffer. None of the properties is inductive by itself: that a
structure is not destroyed under a callback depends on the call not being over, which
depends on no command that could still make it. The invariant `IInv` adds to the
types (`FlowOK`, `CallsOK`) that `iflist` holds each listed structure once (`ListOK`), the
possible combinations of structure, channel, thread and call, and which of them only a
refused channel may have (`Life`), that a MAKECALL is in the pipe at most once and for a
call not yet made whose structure is listed (`Commands`), and that the call of a running
callback is not over, and that `p->lock` is kept only for a structure whose flag was set
and whose channel was not refused (`Busy`).

`FollowsOwnershipHolds` is the refinement of `Ownership`, for the same constants. Each
step is matched with what it does to the parts of a structure: a request and a Setup
make it, by the channel and by the stack; the dialled command and the alert of an
incoming call join it; a hang-up, a callback that ends the call and a MAKECALL that is
dropped or cut let go; an indication of busy or congestion forfeits it; `do_monitor`
frees. Every other step leaves every part as it was (`Kept`), also where the call moves
from the pipe to the stack or to the callback that gives it up. The step theorem proves
`IInv` and the step of `Ownership` together, action by action.

### The gatekeeper client

`TypeCorrect` and one theorem for each of `KeepsTrying`, `PendingTimed`, `SetupOnce`,
`ListsLive`, `TimersPoint` and `StaleUnread` (in `GkClientProofs`) hold for every set of
calls and of references and all limits. `IInv` adds to the types, per request, what its
entry says about its call and its Setups (`Admission`), which requests have timers
(`AllTimed`) and where timers point before the first rejection (`Points`), that the client
is in no state without the timer for it (`Waiting`), and that a client that is gone left
nothing behind (`NothingLeft`). All that is about searches rests on `Own`: until a
reference is shared, a call has one request, a listed entry has a call that exists, and no
other call that exists has its reference, so that a search finds the call's own entry and
no other (`SearchFinds`).

### Only model-checked

Every invariant and every action property that a run finds to hold is proved. The temporal
properties are not: `ClearingEnds`, `EndSessionEnds`, `HangTerminates`, `NegotiationEnds`,
`PvtFreed` and `WaitersReturn` need fairness, whose proof needs
ENABLED, which is out of the prover's reach. `CommandsProcessed` and the other violated
properties are counterexamples of TLC.

## Not modelled

* in the call: the state WAITING_ADMISSION and the gatekeeper's address for a call,
  fast start, where a forwarded call goes, and the several calls of the list (calls share the loop, the
  command pipe, modelled in `Driver`, and the client, modelled in `GkClient`);
* in the negotiation: the pause by an empty capability set (in `H323Call` for one end),
  the closing of channels on request, capability sets that differ from one to the next;
* in the driver: digits, the indications other than busy and congestion, picture updates
  and transfers, which queue a command or a frame and wait for nothing; the second
  structure that a repeated Setup allocates; the media path; the configuration and its
  reload; the shutdown; the command line;
* in the client: the requests for information and location, the unregistration by the
  client, which is sent and forgotten, and the contents of messages;
* failures of memory, of creating and binding sockets, and of encoding;
* the bytes below a message, in particular the loop that reads the rest of an
  H.245 message and spins when the peer closes in the middle of it;
* the use of freed memory other than `pH225Channel`, channels, private structures and
  admission entries (the loop that closes the channels of a paused session reads a
  freed element);
* capabilities, ports, lists, timers' order in their list: pure data structures whose
  outcomes are choices here; the outcome of a capability the driver does not register;
* the MySQL modules, the application that reads numerals aloud, the MP3 format: thin
  layers over a library;
* generated (ASN.1: three quarters of the repository's lines), vendored (menuselect,
  MP3) and configuration code.

## Plan

Done: the call, the negotiation, the driver with the command channel, the gatekeeper
client. What would add most next, in order:

1. The pause in `H245Negotiation`: the reset of `ooH245Receive` at one end while the
   other goes on, with the timers it leaves armed.
2. The closing of channels from both sides (`ooSendCloseLogicalChannel`,
   `ooSendRequestCloseLogicalChannel`) on the same table of channels.
3. `H323Call` with `GkClient`: WAITING_ADMISSION, and the shutdown that cleans calls
   while their clean-up makes new ones.
4. The shutdown of the driver, with threads in `ooSyncLock` when the mutex goes.
5. An abstract specification of an admission, with `GkClient` shown to implement it, as
   `H323Call` implements `CallLifecycle`, `H245Negotiation` implements `MediaSession` and
   `Driver` implements `Ownership`.
