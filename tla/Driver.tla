------------------------------- MODULE Driver -------------------------------
(* The threads of the Asterisk channel driver around the stack: the PBX thread *)
(* of each channel (chan_ooh323.c), the stack's own thread, which reads the   *)
(* command pipe (ooCmdChannel.c) and calls back into the driver, and the      *)
(* thread that destroys private structures (do_monitor).                      *)
(*                                                                            *)
(* Locks are modelled where a thread keeps one while it waits for another: a  *)
(* channel's lock while its thread is in ooSyncLock or wants p->lock, p->lock *)
(* while a hang-up is queued (onCallCleared), iflock while do_monitor tries   *)
(* for a channel. What is done under a lock without waiting is one step.      *)
(*                                                                            *)
(* What Asterisk does itself is external and taken from how the driver relies *)
(* on it: a method of the driver runs with the channel locked, and a channel  *)
(* is freed when its hangup method returned. What happens to a call inside    *)
(* the stack is H323Call's: here a call is live, told to end, or over. A peer *)
(* sends the Setup of a call once: a repeated one would make a second private *)
(* structure of the same token, of which find_call sees the newer.            *)
EXTENDS Naturals, Sequences

CONSTANTS
  Calls,        \* the calls, each with its private structure and its channel
  Refusing,     \* the calls whose PBX may indicate busy or congestion
  Gatekeeper,   \* whether a gatekeeper client exists
  ReadMax       \* whole commands in the reader's buffer: 102, or 204 on 32 bits

NoCall == "none"

ASSUME GatekeeperAssumption == Gatekeeper \in BOOLEAN
ASSUME RefusingAssumption == Refusing \subseteq Calls
ASSUME ReadMaxAssumption == ReadMax \in Nat \ {0}
ASSUME NoCallAssumption == NoCall \notin Calls

VARIABLES
  dir,          \* "incoming" or "outgoing"
  pvt,          \* ooh323_pvt of the call
  iflist,       \* the private structures, the newest first
  chan,         \* ast_channel of the call
  pbx,          \* where the channel's PBX thread is
  call,         \* the call in the stack
  pipe,         \* commands written and not processed
  batch,        \* the front commands of the pipe that were read and not processed
  aligned,      \* the next read starts at the start of a command
  unlocked,     \* thSync is not locked
  registered,   \* gkClient->state = GkClientRegistered
  stack,        \* what the stack's thread is in
  monitor,      \* the call whose structure do_monitor is destroying, under iflock
  refused,      \* history: calls whose channel indicated busy or congestion first
  lost          \* history: a wake-up went astray ("unlock"), freed memory or a null
                \* pointer ended the process ("process")

vars == <<dir, pvt, iflist, chan, pbx, call, pipe, batch, aligned, unlocked, registered,
          stack, monitor, refused, lost>>

\* What only the stack's thread and do_monitor write.
stackVars == <<call, batch, aligned, unlocked, registered, stack>>
readerVars == <<pipe, batch, aligned, registered>>

\* The callbacks, at the steps where other threads may come between: iflock is
\* wanted to list a new structure; the head of iflist was read; the lock of the
\* owner is tried for; a pointer to the owner is used after p->lock was released;
\* the owner is told to hang up with p->lock held.
Steps == {"alloc", "find", "try", "retry", "use", "queue"}
Callbacks == {"onReceivedSetup", "onNewCallCreated", "onAlerting",
              "onCallEstablished", "onCallCleared"}

InLoop == [at |-> "loop"]

StackStates ==
  {InLoop} \cup
    [at : Steps, cb : Callbacks, call : Calls, head : Calls \cup {NoCall}, unlock : BOOLEAN]

Pvt == [at : {"none", "listed", "unlinked", "freed"}, token : BOOLEAN, owner : BOOLEAN,
        gone : BOOLEAN, destroy : BOOLEAN]
Chan == [at : {"none", "alive", "freed"}, up : BOOLEAN]
Command == [type : {"MAKECALL", "ANSCALL", "HANGCALL"}, call : Calls]

NewPvt(owner, token) ==
  [at |-> "listed", token |-> token, owner |-> owner, gone |-> FALSE, destroy |-> FALSE]

Init ==
  /\ dir \in [Calls -> {"incoming", "outgoing"}]
  /\ pvt = [c \in Calls |-> [NewPvt(FALSE, FALSE) EXCEPT !.at = "none"]]
  /\ iflist = <<>>
  /\ chan = [c \in Calls |-> [at |-> "none", up |-> FALSE]]
  /\ pbx = [c \in Calls |-> "none"]
  /\ call = [c \in Calls |-> "none"]
  /\ pipe = <<>>
  /\ batch = [left |-> 0, whole |-> TRUE]
  /\ aligned = TRUE
  /\ unlocked = FALSE
  /\ registered = ~Gatekeeper
  /\ stack = InLoop
  /\ monitor = NoCall
  /\ refused = {}
  /\ lost = {}

\* A PBX thread keeps its channel locked while it waits in a method of the driver.
Held(c) == pbx[c] \in {"waiting", "blocked"}

\* onCallCleared keeps p->lock while it queues the hang-up.
PvtLockFree(c) == ~(stack.at = "queue" /\ stack.call = c)

IfLockFree == monitor = NoCall

Alive == "process" \notin lost

Crash ==
  /\ lost' = lost \cup {"process"}
  /\ UNCHANGED <<dir, pvt, iflist, chan, pbx, pipe, monitor, refused, stackVars>>

-----------------------------------------------------------------------------
(* PBX threads                                                                *)

WriteStackCommand(type, c) == pipe' = Append(pipe, [type |-> type, call |-> c])

\* ooh323_alloc prepends the structure to iflist.
Alloc(c, owner, token) ==
  /\ IfLockFree
  /\ pvt' = [pvt EXCEPT ![c] = NewPvt(owner, token)]
  /\ iflist' = <<c>> \o iflist

Request(c) ==
  /\ dir[c] = "outgoing" /\ pvt[c].at = "none"
  /\ Alloc(c, TRUE, FALSE)
  /\ chan' = [chan EXCEPT ![c].at = "alive"]
  /\ pbx' = [pbx EXCEPT ![c] = "requested"]
  /\ UNCHANGED <<dir, pipe, monitor, refused, lost, stackVars>>

\* ooh323_call: writes the command and goes to wait for the stack, the channel
\* still locked.
Dial(c) ==
  /\ pbx[c] = "requested"
  /\ pvt' = [pvt EXCEPT ![c].token = TRUE]
  /\ WriteStackCommand("MAKECALL", c)
  /\ pbx' = [pbx EXCEPT ![c] = "waiting"]
  /\ UNCHANGED <<dir, iflist, chan, monitor, refused, lost, stackVars>>

\* The channel is in the hands of the PBX: rung, or answered.
Talks(c) == pbx[c] \in {"ringing", "talking"}

\* do_monitor cleared the tech_pvt of a channel that lives on.
Bereft(c) == Talks(c) /\ pvt[c].at = "freed"

\* ooh323_answer: does nothing for a channel the stack has already set up.
Answer(c) ==
  /\ pbx[c] = "ringing"
  /\ IF chan[c].up
     THEN pbx' = [pbx EXCEPT ![c] = "talking"] /\ UNCHANGED pipe
     ELSE /\ ~Bereft(c)
          /\ pbx' = [pbx EXCEPT ![c] = "waiting"]
          /\ WriteStackCommand("ANSCALL", c)
  /\ UNCHANGED <<dir, pvt, iflist, chan, monitor, refused, lost, stackVars>>

\* ooSyncLock returns, whoever the unlock was for.
Wake(c) ==
  /\ pbx[c] = "waiting" /\ unlocked
  /\ unlocked' = FALSE
  /\ pbx' = [pbx EXCEPT ![c] = "talking"]
  /\ UNCHANGED <<dir, pvt, iflist, chan, call, readerVars, stack, monitor, refused, lost>>

\* ooh323_indicate of busy or congestion: the call is to end, and the flag says so
\* before either side let go. Other indications write commands that change none of
\* this state.
Indicate(c) ==
  /\ c \in Refusing
  /\ Talks(c) /\ ~Bereft(c) /\ PvtLockFree(c)
  /\ pvt[c].token /\ ~pvt[c].gone
  /\ pvt' = [pvt EXCEPT ![c].gone = TRUE]
  /\ WriteStackCommand("HANGCALL", c)
  /\ refused' = refused \cup {c}
  /\ UNCHANGED <<dir, iflist, chan, pbx, monitor, lost, stackVars>>

\* ooh323_hangup, ooh323_read or ooh323_indicate is called while p->lock is held.
Blocks(c) ==
  /\ Talks(c) /\ ~PvtLockFree(c)
  /\ pbx' = [pbx EXCEPT ![c] = "blocked"]
  /\ UNCHANGED <<dir, pvt, iflist, chan, pipe, monitor, refused, lost, stackVars>>

\* Any method but hangup takes tech_pvt without a check.
MethodCrashes(c) ==
  /\ Bereft(c)
  /\ Crash

\* Mutant of Detached: the channel forgets the structure, not the other way round.
DetachedHalf(p) == p

Detached(p) == [p EXCEPT !.owner = FALSE]

\* Mutant of Hangup: the structure is marked for do_monitor at once.
HangupMarks(c) ==
  /\ pbx[c] = "requested" \/ Talks(c)
  /\ PvtLockFree(c)
  /\ pbx' = [pbx EXCEPT ![c] = "gone"]
  /\ chan' = [chan EXCEPT ![c].at = "freed"]
  /\ pvt' = [pvt EXCEPT ![c] = [Detached(@) EXCEPT !.gone = TRUE, !.destroy = TRUE]]
  /\ IF pvt[c].token THEN WriteStackCommand("HANGCALL", c) ELSE UNCHANGED pipe
  /\ UNCHANGED <<dir, iflist, monitor, refused, lost, stackVars>>

\* ooh323_hangup; the channel is freed when it returns, also when it found no
\* structure.
Hangup(c) ==
  /\ pbx[c] = "requested" \/ Talks(c)
  /\ PvtLockFree(c)
  /\ pbx' = [pbx EXCEPT ![c] = "gone"]
  /\ chan' = [chan EXCEPT ![c].at = "freed"]
  /\ \/ /\ Bereft(c)
        /\ UNCHANGED <<pvt, pipe>>
     \/ /\ ~Bereft(c) /\ ~pvt[c].gone
        /\ pvt' = [pvt EXCEPT ![c] = [Detached(@) EXCEPT !.gone = TRUE]]
        /\ IF pvt[c].token THEN WriteStackCommand("HANGCALL", c) ELSE UNCHANGED pipe
     \/ /\ ~Bereft(c) /\ pvt[c].gone
        /\ pvt' = [pvt EXCEPT ![c] = [Detached(@) EXCEPT !.destroy = TRUE]]
        /\ UNCHANGED pipe
  /\ UNCHANGED <<dir, iflist, monitor, refused, lost, stackVars>>

-----------------------------------------------------------------------------
(* The stack's thread: commands                                               *)

\* What processing commands and calling back leaves alone.
pbxVars == <<dir, chan, pbx, monitor, refused>>

\* read() fills a buffer that holds ReadMax whole commands and a part of another:
\* of more commands it cuts one, and the next read starts in the middle of it.
ReadCommands ==
  /\ stack = InLoop /\ batch.left = 0
  /\ pipe # <<>>
  /\ batch' = [left |-> IF Len(pipe) <= ReadMax THEN Len(pipe) ELSE ReadMax,
               whole |-> aligned]
  /\ aligned' = (Len(pipe) <= ReadMax)
  /\ UNCHANGED <<pbxVars, pvt, iflist, call, pipe, unlocked, registered, stack, lost>>

\* The next command of those read.
Take ==
  /\ stack = InLoop /\ batch.left > 0
  /\ pipe' = Tail(pipe)
  /\ batch' = [batch EXCEPT !.left = @ - 1]
  /\ UNCHANGED <<pbxVars, pvt, iflist, aligned, registered>>

\* What starts in the middle of a command is none, and pointers read from it are
\* freed.
TakeGarbled ==
  /\ ~batch.whole
  /\ \/ /\ Take
        /\ lost' = lost \cup {"unlock"}
        /\ UNCHANGED <<call, unlocked, stack>>
     \/ /\ stack = InLoop /\ batch.left > 0
        /\ Crash

\* Commands read while the gatekeeper client is not registered are dropped.
Ignore ==
  /\ batch.whole /\ ~registered
  /\ Take
  /\ lost' = IF Head(pipe).type = "HANGCALL" THEN lost ELSE lost \cup {"unlock"}
  /\ UNCHANGED <<call, unlocked, stack>>

Process(type) ==
  /\ batch.whole /\ registered
  /\ Take
  /\ Head(pipe).type = type

\* An unlock of a mutex nobody locked is an unlock no thread will see.
SyncUnLock ==
  /\ unlocked' = TRUE
  /\ lost' = IF unlocked THEN lost \cup {"unlock"} ELSE lost

\* Enters a callback: find_call reads the head of iflist before it takes iflock.
Callback(cb, c, unlock) ==
  stack' = [at |-> "find", cb |-> cb, call |-> c, unlock |-> unlock,
            head |-> IF iflist = <<>> THEN NoCall ELSE Head(iflist)]

MakeCall ==
  /\ Process("MAKECALL")
  /\ call' = [call EXCEPT ![Head(pipe).call] = "live"]
  /\ Callback("onNewCallCreated", Head(pipe).call, TRUE)
  /\ UNCHANGED <<unlocked, lost>>

\* Mutant of AnswerCall: a call that is gone is not answered, nor its thread.
AnswerCallGone ==
  /\ Process("ANSCALL")
  /\ IF call[Head(pipe).call] = "over" THEN UNCHANGED <<unlocked, lost>> ELSE SyncUnLock
  /\ UNCHANGED <<call, stack>>

\* The call may be gone: the waiting thread is let go all the same.
AnswerCall ==
  /\ Process("ANSCALL")
  /\ SyncUnLock
  /\ UNCHANGED <<call, stack>>

HangCall ==
  /\ Process("HANGCALL")
  /\ call' = [call EXCEPT ![Head(pipe).call] = IF @ = "live" THEN "ending" ELSE @]
  /\ UNCHANGED <<unlocked, stack, lost>>

-----------------------------------------------------------------------------
(* The stack's thread: calls and callbacks                                    *)

\* The commands that were read are done; what else a round of the loop looks at.
Idle == stack = InLoop /\ batch.left = 0

RegistrationChanges ==
  /\ Gatekeeper
  /\ Idle
  /\ registered' = ~registered
  /\ UNCHANGED <<pbxVars, pvt, iflist, call, pipe, batch, aligned, unlocked, stack, lost>>

\* A Setup arrives: ooh323_onReceivedSetup, which allocates a structure.
Setup(c) ==
  /\ Idle
  /\ dir[c] = "incoming" /\ pvt[c].at = "none"
  /\ stack' = [at |-> "alloc", cb |-> "onReceivedSetup", call |-> c, unlock |-> FALSE,
               head |-> NoCall]
  /\ UNCHANGED <<pbxVars, readerVars, pvt, iflist, call, unlocked, lost>>

\* Mutant of Event: the peer of an incoming call is alerted again.
EventAgain(c) ==
  /\ Idle
  /\ \/ /\ call[c] = "live"
        /\ Callback("onAlerting", c, FALSE)
     \/ /\ call[c] \in {"live", "ending"}
        /\ \E cb \in {"onCallEstablished", "onCallCleared"} : Callback(cb, c, FALSE)
  /\ UNCHANGED <<pbxVars, readerVars, pvt, iflist, call, unlocked, lost>>

\* Alerting was sent (incoming, once) or received, media starts, the call is over. A
\* digit takes the owner as an alerting does.
Event(c) ==
  /\ Idle
  /\ \/ /\ call[c] = "live"
        /\ dir[c] = "incoming" => chan[c].at = "none"
        /\ Callback("onAlerting", c, FALSE)
     \/ /\ call[c] \in {"live", "ending"}
        /\ \E cb \in {"onCallEstablished", "onCallCleared"} : Callback(cb, c, FALSE)
  /\ UNCHANGED <<pbxVars, readerVars, pvt, iflist, call, unlocked, lost>>

At(step, cb) == stack.at = step /\ stack.cb = cb

Listed(c) == pvt[c].at = "listed" /\ pvt[c].token

\* ooh323_alloc gets iflock.
SetupAlloc ==
  /\ stack.at = "alloc"
  /\ Alloc(stack.call, FALSE, TRUE)
  /\ call' = [call EXCEPT ![stack.call] = "live"]
  /\ stack' = InLoop
  /\ UNCHANGED <<pbxVars, readerVars, unlocked, lost>>

\* The callback of a call that is over returns.
CallOver ==
  /\ call' = [call EXCEPT ![stack.call] = "over"]
  /\ stack' = InLoop
  /\ IF stack.unlock THEN SyncUnLock ELSE UNCHANGED <<unlocked, lost>>

\* find_call walks the list from the head it read, under iflock.
Found ==
  /\ stack.at = "find" /\ IfLockFree
  /\ Listed(stack.call)
  /\ stack' = [stack EXCEPT !.at = "try", !.head = NoCall]
  /\ UNCHANGED <<pbxVars, readerVars, pvt, iflist, call, unlocked, lost>>

\* The structure went before its call: every callback returns.
NotFound ==
  /\ stack.at = "find" /\ IfLockFree
  /\ ~Listed(stack.call)
  /\ IF stack.cb = "onCallCleared" THEN CallOver
     ELSE /\ stack' = IF stack.cb # "onNewCallCreated" THEN InLoop
                      ELSE [stack EXCEPT !.at = "try", !.head = NoCall]
          /\ UNCHANGED <<call, unlocked, lost>>
  /\ UNCHANGED <<pbxVars, readerVars, pvt, iflist>>

\* ooH323MakeCall goes on, and lets the waiting thread go.
CallMade ==
  /\ At("try", "onNewCallCreated")
  /\ stack' = InLoop
  /\ SyncUnLock
  /\ UNCHANGED <<pbxVars, readerVars, pvt, iflist, call>>

\* A destination that cannot be parsed: the call is cleaned, with its callback,
\* before the waiting thread is let go.
MakeCallFails ==
  /\ At("try", "onNewCallCreated")
  /\ Callback("onCallCleared", stack.call, TRUE)
  /\ UNCHANGED <<pbxVars, readerVars, pvt, iflist, call, unlocked, lost>>

\* ooh323_new gives an incoming call its channel, and a PBX thread.
AlertIncoming ==
  /\ At("try", "onAlerting")
  /\ dir[stack.call] = "incoming"
  /\ pvt' = [pvt EXCEPT ![stack.call].owner = TRUE]
  /\ chan' = [chan EXCEPT ![stack.call].at = "alive"]
  /\ pbx' = [pbx EXCEPT ![stack.call] = "ringing"]
  /\ stack' = InLoop
  /\ UNCHANGED <<dir, iflist, call, readerVars, unlocked, monitor, refused, lost>>

\* Reads p->owner under p->lock and goes on to use it without.
AlertOutgoing ==
  /\ At("try", "onAlerting")
  /\ dir[stack.call] = "outgoing"
  /\ stack' = IF pvt[stack.call].owner THEN [stack EXCEPT !.at = "use"] ELSE InLoop
  /\ UNCHANGED <<pbxVars, readerVars, pvt, iflist, call, unlocked, lost>>

\* ast_setstate and ast_queue_control on the owner, which take its lock.
UseOwner ==
  /\ stack.at = "use"
  /\ ~Held(stack.call)
  /\ stack' = InLoop
  /\ UNCHANGED <<pbxVars, readerVars, pvt, iflist, call, unlocked, lost>>

\* onCallEstablished looks whether there is an owner once, before its loop.
EstablishedUnowned ==
  /\ At("try", "onCallEstablished")
  /\ ~pvt[stack.call].owner
  /\ stack' = InLoop
  /\ UNCHANGED <<pbxVars, readerVars, pvt, iflist, call, unlocked, lost>>

\* Somebody has the owner's lock, for long or only for now.
EstablishedBusy ==
  /\ At("try", "onCallEstablished")
  /\ pvt[stack.call].owner
  /\ stack' = [stack EXCEPT !.at = "retry"]
  /\ UNCHANGED <<pbxVars, readerVars, pvt, iflist, call, unlocked, lost>>

\* The state of an outgoing channel is looked at only before it is dialled.
Established ==
  /\ At("try", "onCallEstablished") \/ At("retry", "onCallEstablished")
  /\ pvt[stack.call].owner /\ ~Held(stack.call)
  /\ chan' = [chan EXCEPT ![stack.call].up = (dir[stack.call] = "incoming")]
  /\ stack' = IF dir[stack.call] = "outgoing" THEN [stack EXCEPT !.at = "use"] ELSE InLoop
  /\ UNCHANGED <<dir, pvt, iflist, pbx, call, readerVars, unlocked, monitor, refused, lost>>

\* find_call starts at a structure that was freed since the head was read, or gave
\* back one that was freed since; the loop of onCallEstablished comes round to an
\* owner that left; the pointer to an owner is used after its channel was freed.
\* Reading freed memory may also do no harm: the other actions are not excluded.
CallbackCrashes ==
  /\ \/ stack.at = "find" /\ stack.head # NoCall /\ pvt[stack.head].at = "freed"
     \/ stack.at \in {"try", "retry"} /\ pvt[stack.call].at = "freed"
     \/ At("retry", "onCallEstablished") /\ ~pvt[stack.call].owner
     \/ stack.at = "use" /\ chan[stack.call].at = "freed"
  /\ Crash

\* onCallCleared tries for the owner's lock until it has it or there is no owner.
Owned == pvt[stack.call].owner /\ ~Held(stack.call)

\* Mutant of ClearedFirst: the structure is destroyed as soon as its call is over.
ClearedFirstMarks ==
  /\ At("try", "onCallCleared")
  /\ Owned /\ ~pvt[stack.call].gone
  /\ pvt' = [pvt EXCEPT ![stack.call].gone = TRUE, ![stack.call].destroy = TRUE]
  /\ stack' = [stack EXCEPT !.at = "queue"]
  /\ UNCHANGED <<pbxVars, readerVars, iflist, call, unlocked, lost>>

\* The channel is to hang up, the structure stays for it; the owner's lock is given
\* back, p->lock is kept.
ClearedFirst ==
  /\ At("try", "onCallCleared")
  /\ Owned /\ ~pvt[stack.call].gone
  /\ pvt' = [pvt EXCEPT ![stack.call].gone = TRUE]
  /\ stack' = [stack EXCEPT !.at = "queue"]
  /\ UNCHANGED <<pbxVars, readerVars, iflist, call, unlocked, lost>>

\* ast_queue_hangup locks the channel once more.
HangupQueued ==
  /\ stack.at = "queue"
  /\ ~Held(stack.call)
  /\ CallOver
  /\ UNCHANGED <<pbxVars, readerVars, pvt, iflist>>

\* Mutant of ClearedLast: a structure without a channel is left to the hangup.
ClearedLastForgets ==
  /\ At("try", "onCallCleared")
  /\ ~pvt[stack.call].owner \/ (Owned /\ pvt[stack.call].gone)
  /\ pvt' = [pvt EXCEPT ![stack.call].gone = TRUE]
  /\ CallOver
  /\ UNCHANGED <<pbxVars, readerVars, iflist>>

\* No owner, or the flag says that it let go: the structure may go.
ClearedLast ==
  /\ At("try", "onCallCleared")
  /\ ~pvt[stack.call].owner \/ (Owned /\ pvt[stack.call].gone)
  /\ pvt' = [pvt EXCEPT ![stack.call].destroy = TRUE]
  /\ CallOver
  /\ UNCHANGED <<pbxVars, readerVars, iflist>>

-----------------------------------------------------------------------------
(* do_monitor                                                                 *)

\* What do_monitor leaves alone.
othersVars == <<dir, chan, pbx, pipe, refused, stackVars>>

Unlinked(c) ==
  \E i \in DOMAIN iflist :
    /\ iflist[i] = c
    /\ iflist' = SubSeq(iflist, 1, i - 1) \o SubSeq(iflist, i + 1, Len(iflist))

\* Mutant of Destroy: the structure stays linked.
DestroyLinked(c) ==
  /\ IfLockFree
  /\ pvt[c].at = "listed" /\ pvt[c].destroy /\ ~pvt[c].owner
  /\ pvt' = [pvt EXCEPT ![c].at = "freed"]
  /\ UNCHANGED <<iflist, othersVars, monitor, lost>>

\* A marked structure without an owner is unlinked and freed, under iflock.
Destroy(c) ==
  /\ IfLockFree
  /\ pvt[c].at = "listed" /\ pvt[c].destroy /\ ~pvt[c].owner
  /\ pvt' = [pvt EXCEPT ![c].at = "freed"]
  /\ Unlinked(c)
  /\ UNCHANGED <<othersVars, monitor, lost>>

\* The owner's lock is tried for, iflock held and p->lock given back in between.
DestroySpins(c) ==
  /\ IfLockFree
  /\ pvt[c].at = "listed" /\ pvt[c].destroy /\ pvt[c].owner
  /\ pvt' = [pvt EXCEPT ![c].at = "unlinked"]
  /\ Unlinked(c)
  /\ monitor' = c
  /\ UNCHANGED <<othersVars, lost>>

\* The owner loses its structure.
DestroyDone(c) ==
  /\ monitor = c
  /\ pvt[c].owner /\ ~Held(c)
  /\ pvt' = [pvt EXCEPT ![c].at = "freed", ![c].owner = FALSE]
  /\ monitor' = NoCall
  /\ UNCHANGED <<iflist, othersVars, lost>>

\* The loop of ooh323_destroy comes round to an owner that left.
DestroyCrashes(c) ==
  /\ monitor = c
  /\ ~pvt[c].owner
  /\ Crash

DestroyStep(c) ==
  /\ Alive
  /\ Destroy(c) \/ DestroySpins(c) \/ DestroyDone(c) \/ DestroyCrashes(c)

ReadAndProcess ==
  /\ Alive
  /\ ReadCommands \/ TakeGarbled \/ Ignore \/ MakeCall \/ AnswerCall \/ HangCall

CallbackStep ==
  /\ Alive
  /\ \/ SetupAlloc \/ Found \/ NotFound \/ CallMade \/ MakeCallFails
     \/ AlertIncoming \/ AlertOutgoing \/ UseOwner
     \/ EstablishedUnowned \/ EstablishedBusy \/ Established
     \/ ClearedFirst \/ HangupQueued \/ ClearedLast \/ CallbackCrashes

PbxStep(c) ==
  /\ Alive
  /\ \/ Request(c) \/ Dial(c) \/ Answer(c) \/ Wake(c) \/ Indicate(c) \/ Blocks(c)
     \/ MethodCrashes(c) \/ Hangup(c)

LoopStep ==
  /\ Alive
  /\ RegistrationChanges \/ \E c \in Calls : Setup(c) \/ Event(c)

Next ==
  \/ \E c \in Calls : PbxStep(c) \/ DestroyStep(c)
  \/ ReadAndProcess \/ CallbackStep \/ LoopStep

\* The stack's thread runs and each of its rounds looks at the pipe, whatever the
\* calls do in between (strong fairness); a thread whose mutex is free gets it;
\* do_monitor comes round. No user, peer or gatekeeper has to do anything.
Fairness ==
  /\ SF_vars(ReadAndProcess)
  /\ WF_vars(CallbackStep)
  /\ \A c \in Calls : WF_vars(Alive /\ Wake(c)) /\ WF_vars(DestroyStep(c))

Spec == Init /\ [][Next]_vars /\ Fairness

-----------------------------------------------------------------------------
(* Properties                                                                 *)

TypeOK ==
  /\ dir \in [Calls -> {"incoming", "outgoing"}]
  /\ pvt \in [Calls -> Pvt]
  /\ iflist \in Seq(Calls)
  /\ \A c \in Calls : pvt[c].at = "listed" <=> \E i \in DOMAIN iflist : iflist[i] = c
  /\ chan \in [Calls -> Chan]
  /\ pbx \in [Calls -> {"none", "requested", "ringing", "waiting", "talking", "blocked",
                        "gone"}]
  /\ call \in [Calls -> {"none", "live", "ending", "over"}]
  /\ pipe \in Seq(Command)
  /\ batch \in [left : 0 .. Len(pipe), whole : BOOLEAN]
  /\ aligned \in BOOLEAN
  /\ unlocked \in BOOLEAN
  /\ registered \in BOOLEAN
  /\ stack \in StackStates
  /\ monitor \in Calls \cup {NoCall}
  /\ refused \subseteq Calls
  /\ lost \subseteq {"unlock", "process"}

\* A callback finds the private structure of its call, and nobody frees it before
\* the callback is done with it, although find_call gives back an unlocked pointer
\* and do_monitor frees whatever is marked (find_call, ooh323_destroy). A channel
\* that indicated busy or congestion gives this up: its hang-up marks the structure
\* while the call lives.
PvtSafe ==
  stack.at \in {"find", "try", "retry", "queue"} /\ stack.call \notin refused =>
    Listed(stack.call)

\* p->owner never dangles, and neither does the tech_pvt of a channel, which every
\* method of the driver takes without a check (ooh323_hangup, ooh323_destroy): but
\* for a channel that indicated busy or congestion, whose structure the end of the
\* call takes away.
OwnersMatch ==
  \A c \in Calls :
    /\ pvt[c].owner => chan[c].at = "alive"
    /\ chan[c].at = "alive" /\ c \notin refused => pvt[c].at = "listed" /\ pvt[c].owner

\* A private structure is marked for destruction only after both sides let go: the
\* stack's call is over and the channel is hung up or never was (onCallCleared and
\* ooh323_hangup pass H323_ALREADYGONE between them). Where ooh323_indicate set the
\* flag before, only after one of them did.
DestroyedLast ==
  \A c \in Calls :
    pvt[c].destroy =>
      IF c \in refused THEN call[c] = "over" \/ chan[c].at # "alive"
      ELSE call[c] = "over" /\ chan[c].at # "alive"

Queued(c) == \E i \in DOMAIN pipe : pipe[i].type = "MAKECALL" /\ pipe[i].call = c

ChannelPart(c) ==
  IF chan[c].at = "none" THEN "new"
  ELSE IF chan[c].at = "alive" THEN "holds" ELSE "left"

\* The stack holds a structure from the command that is to make the call.
StackPart(c) ==
  IF ~pvt[c].token THEN "new"
  ELSE IF call[c] \in {"live", "ending"} \/ Queued(c) THEN "holds" ELSE "left"

Part(c, party) == IF party = "channel" THEN ChannelPart(c) ELSE StackPart(c)

Owners == INSTANCE Ownership WITH
  Structures <- Calls,
  stage      <- [c \in Calls |-> IF pvt[c].at = "unlinked" THEN "listed" ELSE pvt[c].at],
  part       <- [c \in Calls |-> [party \in {"channel", "stack"} |-> Part(c, party)]],
  forfeited  <- refused

\* The driver keeps the promise of Ownership: the channel and the stack's call come to a
\* private structure while the other holds it, from the command that makes the call to
\* the callback that ends it, whatever commands are dropped, calls fail or threads wait;
\* none comes back, and the structure goes after the later one, or, once the channel
\* indicated busy or congestion, after either (ooh323_call, ooh323_indicate,
\* ooh323_hangup, onAlerting, onCallCleared, ooh323_destroy, over three threads).
FollowsOwnership == Owners!Spec

\* Once a call is over and its channel freed, in either order, its private
\* structure is freed, unless the process died or do_monitor is kept by the channel
\* of another.
PvtFreed ==
  \A c \in Calls :
    (call[c] = "over" /\ chan[c].at = "freed")
      ~> (pvt[c].at = "freed" \/ monitor # NoCall \/ ~Alive)

\* The stack's thread waits for a channel whose PBX thread waits for it, in
\* ooSyncLock or for p->lock; or for iflock, which do_monitor keeps while it waits
\* for such a channel.
Embraced ==
  \/ /\ stack.at \in {"retry", "use", "queue"} \/ At("try", "onCallCleared")
     /\ Held(stack.call)
  \/ /\ stack.at \in {"alloc", "find"}
     /\ monitor \in Calls /\ Held(monitor)

\* A PBX thread that waits in ooSyncLock is let go, but for five ways to be
\* stranded: the stack waits for a channel whose thread waits for the stack, a
\* command was dropped for want of a registration or cut by the reader's buffer, two
\* unlocks came before anyone locked, the process died.
WaitersReturn ==
  \A c \in Calls :
    pbx[c] = "waiting" ~> (pbx[c] # "waiting" \/ Embraced \/ lost # {})

\* Every command that is written is read and acted on by the stack's thread, so a
\* thread that waits for its command comes back (ooCmdChannel.h on
\* ooReadAndProcessStackCommand).
CommandsProcessed == \A c \in Calls : pbx[c] = "waiting" ~> pbx[c] # "waiting"
=============================================================================
