---------------------------- MODULE DriverProofs ----------------------------
(* Proofs about the threads of the channel driver, for every set of calls,    *)
(* with and without a gatekeeper, whichever channels refuse their calls.      *)
EXTENDS Driver, SequenceTheorems, TLAPS

-----------------------------------------------------------------------------
(* The inductive invariant                                                    *)

\* iflist holds the listed structures, each once.
ListOK ==
  /\ iflist \in Seq(Calls)
  /\ \A i, j \in DOMAIN iflist : iflist[i] = iflist[j] => i = j
  /\ \A c \in Calls : pvt[c].at = "listed" <=> \E i \in DOMAIN iflist : iflist[i] = c

\* The types of what the pipe, its reader and the mutex are made of.
FlowOK ==
  /\ dir \in [Calls -> {"incoming", "outgoing"}]
  /\ pipe \in Seq(Command)
  /\ batch \in [left : 0 .. Len(pipe), whole : BOOLEAN]
  /\ aligned \in BOOLEAN /\ unlocked \in BOOLEAN /\ registered \in BOOLEAN
  /\ lost \subseteq {"unlock", "process"}

Threads == {"none", "requested", "ringing", "waiting", "talking", "blocked", "gone"}
CallStates == {"none", "live", "ending", "over"}

\* The types of what is kept for each call.
CallsOK ==
  /\ pvt \in [Calls -> Pvt]
  /\ chan \in [Calls -> Chan]
  /\ pbx \in [Calls -> Threads]
  /\ call \in [Calls -> CallStates]
  /\ monitor \in Calls \cup {NoCall}
  /\ refused \subseteq Calls
  /\ stack \in StackStates

\* How far the private structure, the channel, its PBX thread and the stack's call
\* may be apart.
Life(c) ==
  /\ pvt[c].at = "none" =>
       /\ pbx[c] = "none" /\ call[c] = "none"
       /\ ~pvt[c].token /\ ~pvt[c].owner /\ ~pvt[c].gone /\ ~pvt[c].destroy
  /\ pvt[c].at \in {"unlinked", "freed"} => pvt[c].destroy
  /\ pvt[c].at = "freed" => ~pvt[c].owner
  /\ monitor = c => pvt[c].at = "unlinked"
  /\ chan[c].at = "none" <=> pbx[c] = "none"
  /\ chan[c].at = "freed" <=> pbx[c] = "gone"
  /\ pvt[c].owner => chan[c].at = "alive"
  /\ chan[c].at = "alive" /\ c \notin refused => pvt[c].owner
  /\ pbx[c] = "requested" => call[c] = "none" /\ ~pvt[c].token
  /\ c \in refused => pvt[c].gone /\ pvt[c].token /\ chan[c].at # "none"
  /\ pvt[c].gone /\ pbx[c] # "gone" /\ c \notin refused =>
       call[c] = "over" \/ ~PvtLockFree(c)
  /\ call[c] # "none" => pvt[c].token
  /\ call[c] \in {"live", "ending"} /\ c \notin refused => pvt[c].at = "listed"
  /\ pvt[c].destroy =>
       IF c \in refused THEN call[c] = "over" \/ chan[c].at # "alive"
       ELSE call[c] = "over" /\ chan[c].at # "alive"

\* A call that is still to be made.
Unmade(c) ==
  /\ pvt[c].token /\ call[c] = "none" /\ pbx[c] \notin {"none", "requested"}
  /\ c \notin refused => pvt[c].at = "listed"

Makes(i, c) == pipe[i].type = "MAKECALL" /\ pipe[i].call = c

\* A call is made by one command, and after its structure is listed.
Commands ==
  \A i \in DOMAIN pipe, c \in Calls :
    Makes(i, c) => Unmade(c) /\ \A j \in DOMAIN pipe : Makes(j, c) => i = j

\* A callback is for a call that was made and is not over; the lock of a structure is
\* kept only after its flag was set; a structure is wanted for a call that has none.
Busy ==
  /\ stack.at \in {"find", "try", "retry", "queue"} =>
       /\ call[stack.call] \in {"live", "ending"}
       /\ stack.cb = "onAlerting" /\ dir[stack.call] = "incoming" =>
            chan[stack.call].at = "none"
  /\ stack.at = "queue" => stack.call \notin refused /\ pvt[stack.call].gone
  /\ stack.at = "alloc" => pvt[stack.call].at = "none" /\ dir[stack.call] = "incoming"

IInv == ListOK /\ FlowOK /\ CallsOK /\ (\A c \in Calls : Life(c)) /\ Commands /\ Busy

-----------------------------------------------------------------------------
(* The promise of Ownership, in terms of one structure                        *)

Stage(c) == IF pvt[c].at = "unlinked" THEN "listed" ELSE pvt[c].at

Sides == {"channel", "stack"}

\* What a step shows of Ownership.
Follows == Owners!Next \/ UNCHANGED Owners!ownershipVars

\* The structure of d stays with those who hold it.
Kept(d) ==
  /\ Stage(d)' = Stage(d)
  /\ ChannelPart(d)' = ChannelPart(d)
  /\ StackPart(d)' = StackPart(d)

\* Whoever holds the structures, holds them after a step that changes no part.
LEMMA NobodyMoves ==
  ASSUME \A d \in Calls : Kept(d), UNCHANGED refused
  PROVE  Follows
<1>1. \A d \in Calls, h \in Sides : Part(d, h)' = Part(d, h) BY DEF Kept, Part
<1>2. UNCHANGED Owners!ownershipVars
  BY <1>1 DEF Kept, Stage, Sides, Owners!ownershipVars
<1> QED BY <1>2 DEF Follows

\* The variables of Ownership, as the lemmas about its actions have them.
Stages == [d \in Calls |-> Stage(d)]
Holders == [d \in Calls |-> [g \in Sides |-> Part(d, g)]]

\* One party of one structure moves, or its place does.
LEMMA OneMoves ==
  ASSUME NEW c \in Calls, \A d \in Calls : d # c => Kept(d), NEW h \in Sides,
         \A g \in Sides : g # h => Part(c, g)' = Part(c, g)
  PROVE  /\ Stages' = [Stages EXCEPT ![c] = Stage(c)']
         /\ Holders' = [Holders EXCEPT ![c][h] = Part(c, h)']
<1>1. \A d \in Calls, g \in Sides : d # c => Part(d, g)' = Part(d, g) BY DEF Kept, Part
<1>2. [d \in Calls |-> Stage(d)]' = [[d \in Calls |-> Stage(d)] EXCEPT ![c] = Stage(c)']
  BY DEF Kept
<1> DEFINE F(d) == [g \in Sides |-> Part(d, g)]
           G(d) == [g \in Sides |-> Part(d, g)']
<1>3. [F(c) EXCEPT ![h] = Part(c, h)'] = G(c) OBVIOUS
<1>4. \A d \in Calls : d # c => F(d) = G(d) BY <1>1
<1>5. [d \in Calls |-> G(d)] = [[d \in Calls |-> F(d)] EXCEPT ![c] = G(c)]
  <2> HIDE DEF F, G
  <2> QED BY <1>4
<1>6. [[d \in Calls |-> F(d)] EXCEPT ![c][h] = Part(c, h)']
        = [[d \in Calls |-> F(d)] EXCEPT ![c] = [F(c) EXCEPT ![h] = Part(c, h)']]
  <2> HIDE DEF F
  <2> QED OBVIOUS
<1> QED BY <1>2, <1>3, <1>5, <1>6 DEF Sides, Stages, Holders

\* What a party does to one structure, once it is said of Stages and Holders.
LEMMA Acts ==
  ASSUME NEW c \in Calls, NEW h \in Sides
  PROVE  /\ Owners!Make(c, h) <=>
              /\ Stages[c] = "none" /\ Holders[c][h] = "new"
              /\ Stages' = [Stages EXCEPT ![c] = "listed"]
              /\ Holders' = [Holders EXCEPT ![c][h] = "holds"]
              /\ UNCHANGED refused
         /\ Owners!Join(c, h) <=>
              /\ Stages[c] = "listed" /\ Holders[c][h] = "new"
              /\ \E o \in Sides : Holders[c][o] = "holds"
              /\ Holders' = [Holders EXCEPT ![c][h] = "holds"]
              /\ UNCHANGED <<Stages, refused>>
         /\ Owners!LetGo(c, h) <=>
              /\ Stages[c] = "listed" \/ c \in refused
              /\ Holders[c][h] = "holds"
              /\ Holders' = [Holders EXCEPT ![c][h] = "left"]
              /\ UNCHANGED <<Stages, refused>>
         /\ Owners!Forfeit(c) <=>
              /\ Stages[c] = "listed" /\ Holders[c]["channel"] = "holds"
              /\ refused' = refused \cup {c}
              /\ UNCHANGED <<Stages, Holders>>
         /\ Owners!Free(c) <=>
              /\ Stages[c] = "listed"
              /\ IF c \in refused THEN \E g \in Sides : Holders[c][g] # "holds"
                 ELSE \A g \in Sides : Holders[c][g] # "holds"
              /\ Stages' = [Stages EXCEPT ![c] = "freed"]
              /\ UNCHANGED <<Holders, refused>>
BY DEF Owners!Make, Owners!Join, Owners!LetGo, Owners!Forfeit, Owners!Free,
       Owners!Takes, Owners!Holds, Owners!Parties, Stages, Holders, Sides, Stage

\* What one party does is a step of Ownership.
LEMMA StepFollows ==
  ASSUME NEW c \in Calls, NEW h \in Sides,
         \/ Owners!Make(c, h) \/ Owners!Join(c, h) \/ Owners!LetGo(c, h)
         \/ Owners!Forfeit(c) \/ Owners!Free(c)
  PROVE  Follows
<1>1. h \in Owners!Parties BY DEF Sides, Owners!Parties
<1> QED BY <1>1, Zenon DEF Follows, Owners!Next

\* A party makes the structure.
LEMMA Creates ==
  ASSUME NEW c \in Calls, \A d \in Calls : d # c => Kept(d), UNCHANGED refused,
         NEW h \in Sides, Part(c, h) = "new", Part(c, h)' = "holds",
         \A g \in Sides : g # h => Part(c, g)' = Part(c, g),
         Stage(c) = "none", Stage(c)' = "listed"
  PROVE  Follows
<1>1. Stages[c] = "none" /\ Holders[c][h] = "new" BY DEF Stages, Holders
<1>2. /\ Stages' = [Stages EXCEPT ![c] = "listed"]
      /\ Holders' = [Holders EXCEPT ![c][h] = "holds"]
  <2>1. /\ Stages' = [Stages EXCEPT ![c] = Stage(c)']
        /\ Holders' = [Holders EXCEPT ![c][h] = Part(c, h)']
    BY OneMoves
  <2> QED BY <2>1
<1>3. Owners!Make(c, h) BY <1>1, <1>2, Acts
<1> QED BY <1>3, StepFollows

\* A party takes the structure up, while the other holds it.
LEMMA Joins ==
  ASSUME NEW c \in Calls, \A d \in Calls : d # c => Kept(d), UNCHANGED refused,
         NEW h \in Sides, Part(c, h) = "new", Part(c, h)' = "holds",
         \E o \in Sides : Part(c, o) = "holds",
         \A g \in Sides : g # h => Part(c, g)' = Part(c, g),
         Stage(c) = "listed", Stage(c)' = "listed"
  PROVE  Follows
<1>1. /\ Stages[c] = "listed" /\ Holders[c][h] = "new"
      /\ \E o \in Sides : Holders[c][o] = "holds"
  BY DEF Stages, Holders
<1>2. /\ Stages' = [Stages EXCEPT ![c] = "listed"]
      /\ Holders' = [Holders EXCEPT ![c][h] = "holds"]
  <2>1. /\ Stages' = [Stages EXCEPT ![c] = Stage(c)']
        /\ Holders' = [Holders EXCEPT ![c][h] = Part(c, h)']
    BY OneMoves
  <2> QED BY <2>1
<1>3. [Stages EXCEPT ![c] = "listed"] = Stages BY <1>1 DEF Stages
<1>4. Owners!Join(c, h) BY <1>1, <1>2, <1>3, Acts, ZenonT(40)
<1> QED BY <1>4, StepFollows

\* A party lets go of what is listed, or was forfeited.
LEMMA Leaves ==
  ASSUME NEW c \in Calls, \A d \in Calls : d # c => Kept(d), UNCHANGED refused,
         NEW h \in Sides, Part(c, h) = "holds", Part(c, h)' = "left",
         \A g \in Sides : g # h => Part(c, g)' = Part(c, g),
         Stage(c) = "listed" \/ c \in refused, Stage(c)' = Stage(c)
  PROVE  Follows
<1>1. Stages[c] = Stage(c) /\ Holders[c][h] = "holds" BY DEF Stages, Holders
<1>2. /\ Stages' = [Stages EXCEPT ![c] = Stage(c)]
      /\ Holders' = [Holders EXCEPT ![c][h] = "left"]
  <2>1. /\ Stages' = [Stages EXCEPT ![c] = Stage(c)']
        /\ Holders' = [Holders EXCEPT ![c][h] = Part(c, h)']
    BY OneMoves
  <2> QED BY <2>1
<1>3. [Stages EXCEPT ![c] = Stage(c)] = Stages BY <1>1 DEF Stages
<1>4. Stages' = Stages /\ (Stages[c] = "listed" \/ c \in refused) BY <1>1, <1>2, <1>3
<1>5. UNCHANGED <<Stages, refused>> BY <1>4
<1>6. Owners!LetGo(c, h) BY <1>1, <1>2, <1>4, <1>5, Acts
<1> QED BY <1>6, StepFollows

\* A channel forfeits its structure.
LEMMA Forfeits ==
  ASSUME NEW c \in Calls, \A d \in Calls : Kept(d), refused' = refused \cup {c},
         Stage(c) = "listed", ChannelPart(c) = "holds"
  PROVE  Follows
<1>1. "channel" \in Sides BY DEF Sides
<1>2. Stages[c] = "listed" /\ Holders[c]["channel"] = "holds"
  BY <1>1 DEF Stages, Holders, Part
<1>3. UNCHANGED <<Stages, Holders>> BY DEF Stages, Holders, Kept, Part
<1>4. Owners!Forfeit(c) BY <1>1, <1>2, <1>3, Acts
<1> QED BY <1>1, <1>4, StepFollows

\* A structure nobody holds is freed, or one that was forfeited and one party left.
LEMMA Frees ==
  ASSUME NEW c \in Calls, \A d \in Calls : d # c => Kept(d), UNCHANGED refused,
         \A g \in Sides : Part(c, g)' = Part(c, g),
         IF c \in refused THEN \E g \in Sides : Part(c, g) # "holds"
         ELSE \A g \in Sides : Part(c, g) # "holds",
         Stage(c) = "listed", Stage(c)' = "freed"
  PROVE  Follows
<1>1. PICK h \in Sides : TRUE BY DEF Sides
<1>2. Stages[c] = "listed" /\ \A g \in Sides : Holders[c][g] = Part(c, g)
  BY DEF Stages, Holders
<1>3. /\ Stages' = [Stages EXCEPT ![c] = "freed"]
      /\ Holders' = [Holders EXCEPT ![c][h] = Part(c, h)]
  <2>1. /\ Stages' = [Stages EXCEPT ![c] = Stage(c)']
        /\ Holders' = [Holders EXCEPT ![c][h] = Part(c, h)']
    BY <1>1, OneMoves
  <2> QED BY <1>1, <2>1
<1>4. [Holders EXCEPT ![c][h] = Part(c, h)] = Holders BY DEF Holders
<1>5. UNCHANGED <<Holders, refused>> BY <1>3, <1>4
<1>6. IF c \in refused THEN \E g \in Sides : Holders[c][g] # "holds"
      ELSE \A g \in Sides : Holders[c][g] # "holds"
  BY <1>2
<1>7. Owners!Free(c) BY <1>1, <1>2, <1>3, <1>5, <1>6, Acts
<1> QED BY <1>1, <1>7, StepFollows

\* Neither a call nor its channel moved.
LEMMA StaysKept ==
  ASSUME NEW d, pvt'[d].at = pvt[d].at, pvt'[d].token = pvt[d].token,
         chan'[d].at = chan[d].at, call'[d] = call[d], Queued(d)' <=> Queued(d)
  PROVE  Kept(d)
BY DEF Kept, Stage, ChannelPart, StackPart

-----------------------------------------------------------------------------
(* What a step may change                                                     *)

\* A command was written.
LEMMA Written ==
  ASSUME pipe \in Seq(Command), NEW type \in {"MAKECALL", "ANSCALL", "HANGCALL"},
         NEW c \in Calls, WriteStackCommand(type, c)
  PROVE  /\ pipe' \in Seq(Command) /\ Len(pipe') = Len(pipe) + 1
         /\ DOMAIN pipe' = DOMAIN pipe \cup {Len(pipe) + 1}
         /\ Len(pipe) + 1 \notin DOMAIN pipe
         /\ \A i \in DOMAIN pipe : pipe'[i] = pipe[i]
         /\ pipe'[Len(pipe) + 1] = [type |-> type, call |-> c]
BY DEF WriteStackCommand, Command

\* A command was read.
LEMMA Read ==
  ASSUME pipe \in Seq(Command), pipe # <<>>, pipe' = Tail(pipe)
  PROVE  /\ pipe' \in Seq(Command) /\ Len(pipe') = Len(pipe) - 1
         /\ 1 \in DOMAIN pipe /\ Head(pipe) = pipe[1] /\ pipe[1] \in Command
         /\ \A i \in DOMAIN pipe' : i + 1 \in DOMAIN pipe /\ pipe'[i] = pipe[i + 1]
                                     /\ i + 1 # 1 /\ i \in Nat
         /\ \A i \in DOMAIN pipe : i # 1 => i - 1 \in DOMAIN pipe' /\ pipe'[i - 1] = pipe[i]
<1>1. Len(pipe) \in Nat \ {0} /\ DOMAIN pipe = 1 .. Len(pipe)
      /\ \A i \in 1 .. Len(pipe) : pipe[i] \in Command
  OBVIOUS
<1>2. pipe' \in Seq(Command) /\ Len(pipe') = Len(pipe) - 1
      /\ DOMAIN pipe' = 1 .. Len(pipe')
  OBVIOUS
<1>3. \A i \in 1 .. Len(pipe) - 1 : pipe'[i] = pipe[i + 1] OBVIOUS
<1>4. Head(pipe) = pipe[1] OBVIOUS
<1>5. ASSUME NEW i \in DOMAIN pipe, i # 1
      PROVE  i - 1 \in DOMAIN pipe' /\ pipe'[i - 1] = pipe[i]
  <2>1. i - 1 \in 1 .. Len(pipe) - 1 /\ (i - 1) + 1 = i BY <1>1, <1>5
  <2> QED BY <1>2, <1>3, <2>1
<1> QED BY <1>1, <1>2, <1>3, <1>4, <1>5

\* The pipe after a step that makes no call and gives none up.
QuietPipe ==
  \/ UNCHANGED pipe
  \/ pipe # <<>> /\ pipe' = Tail(pipe) /\ Head(pipe).type # "MAKECALL"
  \/ \E c \in Calls, type \in {"ANSCALL", "HANGCALL"} : WriteStackCommand(type, c)

\* Whose call is to be made stays.
LEMMA QueuedKept ==
  ASSUME pipe \in Seq(Command), QuietPipe, NEW d
  PROVE  Queued(d)' <=> Queued(d)
<1>1. CASE UNCHANGED pipe BY <1>1 DEF Queued
<1>2. CASE pipe # <<>> /\ pipe' = Tail(pipe) /\ Head(pipe).type # "MAKECALL"
  <2>1. /\ Head(pipe) = pipe[1]
        /\ \A i \in DOMAIN pipe' : i + 1 \in DOMAIN pipe /\ pipe'[i] = pipe[i + 1]
        /\ \A i \in DOMAIN pipe : i # 1 => i - 1 \in DOMAIN pipe' /\ pipe'[i - 1] = pipe[i]
    BY <1>2, Read
  <2>2. Queued(d)' => Queued(d) BY <2>1 DEF Queued
  <2>3. Queued(d) => Queued(d)' BY <1>2, <2>1 DEF Queued
  <2> QED BY <2>2, <2>3
<1>3. ASSUME NEW c \in Calls, NEW type \in {"ANSCALL", "HANGCALL"},
             WriteStackCommand(type, c)
      PROVE  Queued(d)' <=> Queued(d)
  <2>1. type \in {"MAKECALL", "ANSCALL", "HANGCALL"} /\ type # "MAKECALL" OBVIOUS
  <2>2. /\ DOMAIN pipe' = DOMAIN pipe \cup {Len(pipe) + 1}
        /\ \A i \in DOMAIN pipe : pipe'[i] = pipe[i]
        /\ pipe'[Len(pipe) + 1] = [type |-> type, call |-> c]
    BY <1>3, <2>1, Written
  <2> QED BY <2>1, <2>2 DEF Queued
<1> QED BY <1>1, <1>2, <1>3 DEF QuietPipe

\* A call is to be made by the one command it was, if no such call is touched.
LEMMA CommandsKept ==
  ASSUME IInv, \A c \in Calls : Unmade(c) => Unmade(c)', QuietPipe
  PROVE  Commands'
<1>1. pipe \in Seq(Command) BY DEF IInv, FlowOK
<1>2. CASE UNCHANGED pipe BY <1>1, <1>2 DEF IInv, Commands, Makes
<1>3. CASE pipe # <<>> /\ pipe' = Tail(pipe)
  <2>1. \A i \in DOMAIN pipe' : i + 1 \in DOMAIN pipe /\ pipe'[i] = pipe[i + 1] /\ i \in Nat
    BY <1>1, <1>3, Read
  <2>2. \A c \in Calls, i \in DOMAIN pipe' : Makes(i, c)' => Makes(i + 1, c)
    BY <2>1 DEF Makes
  <2>3. \A i, j \in DOMAIN pipe' : i + 1 = j + 1 => i = j BY <2>1
  <2> QED BY <2>1, <2>2, <2>3 DEF IInv, Commands
<1>4. ASSUME NEW c \in Calls, NEW type \in {"ANSCALL", "HANGCALL"},
             WriteStackCommand(type, c)
      PROVE  Commands'
  <2>1. type \in {"MAKECALL", "ANSCALL", "HANGCALL"} /\ type # "MAKECALL" OBVIOUS
  <2>2. /\ DOMAIN pipe' = DOMAIN pipe \cup {Len(pipe) + 1}
        /\ \A i \in DOMAIN pipe : pipe'[i] = pipe[i]
        /\ pipe'[Len(pipe) + 1] = [type |-> type, call |-> c]
    BY <1>1, <1>4, <2>1, Written
  <2>3. \A d \in Calls, i \in DOMAIN pipe' : Makes(i, d)' => i \in DOMAIN pipe /\ Makes(i, d)
    BY <2>1, <2>2 DEF Makes
  <2> QED BY <2>3 DEF IInv, Commands
<1> QED BY <1>2, <1>3, <1>4 DEF QuietPipe

\* The pipe's types after a command is written.
LEMMA FlowWritten ==
  ASSUME FlowOK, NEW type \in {"MAKECALL", "ANSCALL", "HANGCALL"}, NEW c \in Calls,
         WriteStackCommand(type, c) \/ UNCHANGED pipe,
         UNCHANGED <<dir, batch, aligned, unlocked, registered, lost>>
  PROVE  FlowOK'
<1>1. CASE UNCHANGED pipe BY <1>1 DEF FlowOK
<1>2. CASE WriteStackCommand(type, c)
  <2>1. pipe' \in Seq(Command) /\ Len(pipe') = Len(pipe) + 1
    BY <1>2, Written DEF FlowOK
  <2>2. Len(pipe) \in Nat BY DEF FlowOK
  <2>3. 0 .. Len(pipe) \subseteq 0 .. Len(pipe') BY <2>1, <2>2
  <2>4. batch' \in [left : 0 .. Len(pipe'), whole : BOOLEAN] BY <2>3 DEF FlowOK
  <2> QED BY <2>1, <2>4 DEF FlowOK
<1> QED BY <1>1, <1>2

\* The pipe's types after a command is taken from it, and that there was one.
LEMMA FlowTaken ==
  ASSUME FlowOK, Take, unlocked' \in BOOLEAN, lost' \subseteq {"unlock", "process"}
  PROVE  FlowOK' /\ pipe # <<>> /\ pipe' = Tail(pipe) /\ Head(pipe) \in Command
<1>1. /\ batch.left \in 0 .. Len(pipe) /\ batch.whole \in BOOLEAN /\ Len(pipe) \in Nat
      /\ batch.left > 0
  BY DEF FlowOK, Take
<1>2. pipe # <<>> /\ pipe' = Tail(pipe) BY <1>1 DEF Take
<1>3. pipe' \in Seq(Command) /\ Len(pipe') = Len(pipe) - 1 /\ Head(pipe) \in Command
  BY <1>2, Read DEF FlowOK
<1>4. batch' = [left |-> batch.left - 1, whole |-> batch.whole]
  BY DEF FlowOK, Take
<1>5. batch.left - 1 \in 0 .. Len(pipe') BY <1>1, <1>3
<1>6. batch' \in [left : 0 .. Len(pipe'), whole : BOOLEAN] BY <1>1, <1>4, <1>5
<1>7. UNCHANGED <<dir, aligned, registered>> BY DEF Take, pbxVars
<1> QED BY <1>2, <1>3, <1>6, <1>7 DEF FlowOK

\* Within a callback: its call and its next step.
LEMMA StackStep ==
  ASSUME stack \in StackStates, stack.at \in Steps
  PROVE  /\ stack.call \in Calls /\ stack.unlock \in BOOLEAN /\ stack.cb \in Callbacks
         /\ stack # InLoop
         /\ \A s \in Steps : [stack EXCEPT !.at = s] \in StackStates
                             /\ [stack EXCEPT !.at = s].at = s
                             /\ [stack EXCEPT !.at = s].cb = stack.cb
                             /\ [stack EXCEPT !.at = s].call = stack.call
<1> DEFINE R == [at : Steps, cb : Callbacks, call : Calls, head : Calls \cup {NoCall},
                 unlock : BOOLEAN]
<1>1. stack # InLoop BY DEF InLoop, Steps
<1>2. stack \in R BY <1>1 DEF StackStates
<1>3. stack.call \in Calls /\ stack.unlock \in BOOLEAN /\ stack.cb \in Callbacks
  BY <1>2, Zenon
<1>4. ASSUME NEW s \in Steps
      PROVE  /\ [stack EXCEPT !.at = s] \in R
             /\ [stack EXCEPT !.at = s].at = s
             /\ [stack EXCEPT !.at = s].cb = stack.cb
             /\ [stack EXCEPT !.at = s].call = stack.call
  <2>1. [stack EXCEPT !.at = s] \in R BY <1>2, Zenon
  <2> QED BY <1>2, <2>1
<1> QED BY <1>1, <1>3, <1>4 DEF StackStates

\* In the loop no callback is under way and no lock is kept.
LEMMA Looping ==
  /\ InLoop \in StackStates
  /\ stack = InLoop => stack.at \notin Steps /\ \A c : PvtLockFree(c)
BY DEF StackStates, InLoop, Steps, PvtLockFree

\* A callback goes on while its call is not touched.
LEMMA BusyKept ==
  ASSUME IInv, UNCHANGED <<stack, dir>>,
         \A c \in Calls : call[c] \in {"live", "ending"} =>
           /\ call'[c] \in {"live", "ending"}
           /\ chan[c].at = "none" => chan'[c].at = "none",
         \A c \in Calls : ~PvtLockFree(c) /\ c \notin refused /\ pvt[c].gone =>
           c \notin refused' /\ pvt'[c].gone,
         \A c \in Calls : pvt[c].at = "none" /\ dir[c] = "incoming" => pvt'[c].at = "none"
  PROVE  Busy'
<1>1. stack.at \in Steps => stack.call \in Calls BY StackStep DEF IInv, CallsOK
<1> QED BY <1>1 DEF IInv, Busy, Steps, PvtLockFree

\* The places a PBX thread with a channel goes round in.
Active == {"ringing", "waiting", "talking", "blocked"}

\* A step that changes no call, no structure and no place of a channel.
LEMMA Quiet ==
  ASSUME IInv, FlowOK', stack' \in StackStates, Busy', QuietPipe,
         UNCHANGED <<pvt, iflist, call, monitor, refused>>,
         chan' \in [Calls -> Chan], \A d \in Calls : chan'[d].at = chan[d].at,
         pbx' \in [Calls -> Threads],
         \A d \in Calls : pbx'[d] = pbx[d] \/ (pbx[d] \in Active /\ pbx'[d] \in Active),
         \A d \in Calls : ~PvtLockFree(d) => ~PvtLockFree(d)'
  PROVE  IInv' /\ Follows
<1>1. ListOK' /\ CallsOK' BY DEF IInv, ListOK, CallsOK
<1>2. ASSUME NEW d \in Calls PROVE Life(d)'
  <2>1. /\ Life(d) /\ chan'[d].at = chan[d].at
        /\ pbx'[d] = pbx[d] \/ (pbx[d] \in Active /\ pbx'[d] \in Active)
        /\ ~PvtLockFree(d) => ~PvtLockFree(d)'
    BY DEF IInv
  <2>2. /\ pbx'[d] = "none" <=> pbx[d] = "none"
        /\ pbx'[d] = "gone" <=> pbx[d] = "gone"
        /\ pbx'[d] = "requested" <=> pbx[d] = "requested"
    BY <2>1 DEF Active
  <2> HIDE DEF PvtLockFree
  <2> QED BY <2>1, <2>2 DEF Life
<1>3. \A d \in Calls : Unmade(d) => Unmade(d)' BY DEF Unmade, Active
<1>4. Commands' BY <1>3, CommandsKept
<1>5. \A d \in Calls : Queued(d)' <=> Queued(d) BY QueuedKept DEF IInv, FlowOK
<1>6. \A d \in Calls : Kept(d) BY <1>5, StaysKept
<1>7. Follows BY <1>6, NobodyMoves
<1> QED BY <1>1, <1>2, <1>4, <1>7 DEF IInv

-----------------------------------------------------------------------------
(* Steps that move no call                                                    *)

\* The process dies, whoever did it.
LEMMA CrashStep ==
  ASSUME IInv, Crash
  PROVE  IInv' /\ Follows
<1>1. /\ UNCHANGED <<dir, pvt, iflist, chan, pbx, call, pipe, batch, aligned, unlocked,
                     registered, stack, monitor, refused>>
      /\ lost' = lost \cup {"process"}
  BY DEF Crash, stackVars
<1>2. FlowOK' BY <1>1 DEF IInv, FlowOK
<1>3. Busy' BY <1>1, BusyKept
<1>4. QuietPipe BY <1>1 DEF QuietPipe
<1>5. \A d \in Calls : ~PvtLockFree(d) => ~PvtLockFree(d)' BY <1>1 DEF PvtLockFree
<1>6. /\ stack' \in StackStates /\ chan' \in [Calls -> Chan] /\ pbx' \in [Calls -> Threads]
  BY <1>1 DEF IInv, CallsOK
<1> QED BY <1>1, <1>2, <1>3, <1>4, <1>5, <1>6, Quiet

\* A PBX thread with a channel answers, waits or is let go.
LEMMA ThreadStep ==
  ASSUME IInv, NEW c \in Calls, Answer(c) \/ Wake(c) \/ Blocks(c)
  PROVE  IInv' /\ Follows
<1>1. /\ pbx[c] \in Active /\ \E t \in Active : pbx' = [pbx EXCEPT ![c] = t]
      /\ UNCHANGED pipe \/ WriteStackCommand("ANSCALL", c)
      /\ UNCHANGED <<dir, pvt, iflist, chan, call, batch, aligned, registered, stack,
                     monitor, refused, lost>>
      /\ (unlocked' = FALSE /\ UNCHANGED pipe) \/ UNCHANGED unlocked
  BY DEF Answer, Wake, Blocks, Talks, Active, stackVars, readerVars
<1>2. FlowOK'
  <2>1. CASE UNCHANGED pipe BY <1>1, <2>1 DEF IInv, FlowOK
  <2>2. CASE WriteStackCommand("ANSCALL", c) /\ UNCHANGED unlocked
    BY <1>1, <2>2, FlowWritten DEF IInv
  <2> QED BY <1>1, <2>1, <2>2
<1>3. Busy' BY <1>1, BusyKept
<1>4. QuietPipe BY <1>1 DEF QuietPipe
<1>5. \A d \in Calls : ~PvtLockFree(d) => ~PvtLockFree(d)' BY <1>1 DEF PvtLockFree
<1>6. /\ stack' \in StackStates /\ chan' \in [Calls -> Chan] /\ pbx' \in [Calls -> Threads]
  BY <1>1 DEF IInv, CallsOK, Active, Threads
<1>7. \A d \in Calls : pbx'[d] = pbx[d] \/ (pbx[d] \in Active /\ pbx'[d] \in Active)
  BY <1>1 DEF IInv, CallsOK
<1> QED BY <1>1, <1>2, <1>3, <1>4, <1>5, <1>6, <1>7, Quiet

\* The stack's thread reads the pipe, finds its registration changed or answers.
LEMMA LoopsOn ==
  ASSUME IInv, FlowOK', QuietPipe, stack = InLoop,
         UNCHANGED <<dir, pvt, iflist, chan, pbx, call, stack, monitor, refused>>
  PROVE  IInv' /\ Follows
<1>1. Busy' BY BusyKept
<1>2. \A d \in Calls : ~PvtLockFree(d) => ~PvtLockFree(d)' BY DEF PvtLockFree
<1>3. /\ stack' \in StackStates /\ chan' \in [Calls -> Chan] /\ pbx' \in [Calls -> Threads]
  BY DEF IInv, CallsOK
<1> QED BY <1>1, <1>2, <1>3, Quiet

\* A read fills the buffer.
LEMMA ReadCommandsStep ==
  ASSUME IInv, ReadCommands
  PROVE  IInv' /\ Follows
<1>1. /\ UNCHANGED <<dir, pvt, iflist, chan, pbx, call, stack, monitor, refused>>
      /\ UNCHANGED <<pipe, unlocked, registered, lost>> /\ stack = InLoop
  BY DEF ReadCommands, pbxVars
<1>2. /\ (IF Len(pipe) <= ReadMax THEN Len(pipe) ELSE ReadMax) \in 0 .. Len(pipe)
      /\ (Len(pipe) <= ReadMax) \in BOOLEAN
  BY ReadMaxAssumption DEF IInv, FlowOK
<1>3. batch' \in [left : 0 .. Len(pipe), whole : BOOLEAN] /\ aligned' \in BOOLEAN
  BY <1>2 DEF ReadCommands, IInv, FlowOK
<1>4. FlowOK' BY <1>1, <1>3 DEF IInv, FlowOK
<1>5. QuietPipe BY <1>1 DEF QuietPipe
<1> QED BY <1>1, <1>4, <1>5, LoopsOn

\* The client registers or loses its registration.
LEMMA RegistrationStep ==
  ASSUME IInv, RegistrationChanges
  PROVE  IInv' /\ Follows
<1>1. /\ UNCHANGED <<dir, pvt, iflist, chan, pbx, call, stack, monitor, refused>>
      /\ UNCHANGED <<pipe, batch, aligned, unlocked, lost>> /\ stack = InLoop
      /\ registered' = ~registered
  BY DEF RegistrationChanges, pbxVars, Idle
<1>2. FlowOK' BY <1>1 DEF IInv, FlowOK
<1>3. QuietPipe BY <1>1 DEF QuietPipe
<1> QED BY <1>1, <1>2, <1>3, LoopsOn

\* A command that makes no call is answered or dropped.
LEMMA QuietCommand ==
  ASSUME IInv, Take, Head(pipe).type # "MAKECALL", UNCHANGED <<call, stack>>,
         unlocked' \in BOOLEAN, lost' \subseteq {"unlock", "process"}
  PROVE  IInv' /\ Follows
<1>1. FlowOK' /\ pipe # <<>> /\ pipe' = Tail(pipe) BY FlowTaken DEF IInv
<1>2. /\ UNCHANGED <<dir, pvt, iflist, chan, pbx, call, stack, monitor, refused>>
      /\ stack = InLoop
  BY DEF Take, pbxVars
<1>3. QuietPipe BY <1>1 DEF QuietPipe
<1> QED BY <1>1, <1>2, <1>3, LoopsOn

\* A call is answered, and the waiting thread let go.
LEMMA AnswerCallStep ==
  ASSUME IInv, AnswerCall
  PROVE  IInv' /\ Follows
<1>1. Take /\ Head(pipe).type # "MAKECALL" /\ UNCHANGED <<call, stack>>
  BY DEF AnswerCall, Process
<1>2. unlocked' \in BOOLEAN /\ lost' \subseteq {"unlock", "process"}
  BY DEF AnswerCall, SyncUnLock, IInv, FlowOK
<1> QED BY <1>1, <1>2, QuietCommand

\* A callback is entered for a call.
LEMMA CallbackFacts ==
  ASSUME IInv, NEW cb \in Callbacks, NEW c \in Calls, NEW unlock \in BOOLEAN,
         Callback(cb, c, unlock)
  PROVE  /\ stack' \in StackStates
         /\ stack'.at = "find" /\ stack'.cb = cb /\ stack'.call = c
<1>1. (IF iflist = <<>> THEN NoCall ELSE Head(iflist)) \in Calls \cup {NoCall}
  BY DEF IInv, ListOK
<1> QED BY <1>1 DEF Callback, StackStates, Steps

\* The stack's thread goes on in a callback, or comes back from one.
LEMMA CallbackGoes ==
  ASSUME IInv, PvtLockFree(stack.call) \/ stack.at # "queue", stack' \in StackStates, Busy',
         UNCHANGED <<dir, pvt, iflist, pbx, call, monitor, refused, pipe, batch, aligned,
                     registered>>,
         unlocked' \in BOOLEAN, lost' \subseteq {"unlock", "process"},
         chan' \in [Calls -> Chan], \A d \in Calls : chan'[d].at = chan[d].at
  PROVE  IInv' /\ Follows
<1>1. FlowOK' BY DEF IInv, FlowOK
<1>2. QuietPipe BY DEF QuietPipe
<1>3. \A d \in Calls : PvtLockFree(d) BY DEF PvtLockFree
<1>4. pbx' \in [Calls -> Threads] BY DEF IInv, CallsOK
<1> QED BY <1>1, <1>2, <1>3, <1>4, Quiet

\* Something happens to a call that is not over.
LEMMA EventStep ==
  ASSUME IInv, NEW c \in Calls, Event(c)
  PROVE  IInv' /\ Follows
<1>1. PICK cb \in Callbacks :
        /\ Callback(cb, c, FALSE) /\ call[c] \in {"live", "ending"}
        /\ cb = "onAlerting" /\ dir[c] = "incoming" => chan[c].at = "none"
  BY DEF Event, Callbacks
<1>2. /\ UNCHANGED <<dir, pvt, iflist, chan, pbx, call, monitor, refused, pipe, batch,
                     aligned, registered, unlocked, lost>>
      /\ stack = InLoop
  BY DEF Event, pbxVars, readerVars, Idle
<1>3. stack' \in StackStates /\ stack'.at = "find" /\ stack'.cb = cb /\ stack'.call = c
  BY <1>1, CallbackFacts
<1>4. Busy' BY <1>1, <1>2, <1>3 DEF Busy
<1>5. stack.at # "queue" BY <1>2 DEF InLoop
<1>6. /\ unlocked' \in BOOLEAN /\ lost' \subseteq {"unlock", "process"}
      /\ chan' \in [Calls -> Chan]
  BY <1>2 DEF IInv, FlowOK, CallsOK
<1> QED BY <1>2, <1>3, <1>4, <1>5, <1>6, CallbackGoes

\* A destination that cannot be parsed: the call's last callback is entered.
LEMMA MakeCallFailsStep ==
  ASSUME IInv, MakeCallFails
  PROVE  IInv' /\ Follows
<1>1. stack.at = "try" /\ stack.at \in Steps BY DEF MakeCallFails, At, Steps
<1>2. PICK c \in Calls : c = stack.call BY <1>1, StackStep DEF IInv, CallsOK
<1>3. /\ UNCHANGED <<dir, pvt, iflist, chan, pbx, call, monitor, refused, pipe, batch,
                     aligned, registered, unlocked, lost>>
      /\ Callback("onCallCleared", c, TRUE)
  BY <1>2 DEF MakeCallFails, pbxVars, readerVars
<1>4. /\ stack' \in StackStates
      /\ stack'.at = "find" /\ stack'.cb = "onCallCleared" /\ stack'.call = c
  BY <1>2, <1>3, CallbackFacts DEF Callbacks
<1>5. call[c] \in {"live", "ending"} BY <1>1, <1>2 DEF IInv, Busy
<1>6. Busy' BY <1>3, <1>4, <1>5 DEF Busy
<1>7. /\ unlocked' \in BOOLEAN /\ lost' \subseteq {"unlock", "process"}
      /\ chan' \in [Calls -> Chan]
  BY <1>3 DEF IInv, FlowOK, CallsOK
<1> QED BY <1>1, <1>3, <1>4, <1>6, <1>7, CallbackGoes

\* A Setup arrives for a call that has no structure.
LEMMA SetupStep ==
  ASSUME IInv, NEW c \in Calls, Setup(c)
  PROVE  IInv' /\ Follows
<1>1. /\ UNCHANGED <<dir, pvt, iflist, chan, pbx, call, monitor, refused, pipe, batch,
                     aligned, registered, unlocked, lost>>
      /\ stack = InLoop /\ dir[c] = "incoming" /\ pvt[c].at = "none"
      /\ stack' = [at |-> "alloc", cb |-> "onReceivedSetup", call |-> c, unlock |-> FALSE,
                   head |-> NoCall]
  BY DEF Setup, pbxVars, readerVars, Idle
<1>2. stack' \in StackStates BY <1>1 DEF StackStates, Steps, Callbacks
<1>3. stack'.at = "alloc" /\ stack'.call = c BY <1>1
<1>4. Busy' BY <1>1, <1>3 DEF Busy
<1>5. stack.at # "queue" BY <1>1 DEF InLoop
<1>6. /\ unlocked' \in BOOLEAN /\ lost' \subseteq {"unlock", "process"}
      /\ chan' \in [Calls -> Chan]
  BY <1>1 DEF IInv, FlowOK, CallsOK
<1> QED BY <1>1, <1>2, <1>4, <1>5, <1>6, CallbackGoes

\* A channel comes or goes, the others stay.
LEMMA ChanMoved ==
  ASSUME chan \in [Calls -> Chan], NEW c \in Calls, NEW s \in {"alive", "freed"},
         chan' = [chan EXCEPT ![c].at = s]
  PROVE  /\ chan' \in [Calls -> Chan] /\ chan'[c].at = s
         /\ \A d \in Calls : d # c => chan'[d] = chan[d]
<1> DEFINE h == [chan[c] EXCEPT !.at = s]
<1>1. chan[c] \in Chan OBVIOUS
<1>2. h \in Chan BY <1>1, Zenon DEF Chan
<1>3. h.at = s BY <1>1 DEF Chan
<1>4. chan' = [chan EXCEPT ![c] = h] OBVIOUS
<1> HIDE DEF h
<1> QED BY <1>2, <1>3, <1>4

\* Bringing a channel up leaves it where it is.
LEMMA ChanUp ==
  ASSUME chan \in [Calls -> Chan], NEW c \in Calls, NEW b \in BOOLEAN,
         chan' = [chan EXCEPT ![c].up = b]
  PROVE  chan' \in [Calls -> Chan] /\ \A d \in Calls : chan'[d].at = chan[d].at
<1> DEFINE u == [chan[c] EXCEPT !.up = b]
<1>1. chan[c] \in Chan OBVIOUS
<1>2. u \in Chan BY <1>1, Zenon DEF Chan
<1>3. u.at = chan[c].at BY <1>1 DEF Chan
<1>4. chan' = [chan EXCEPT ![c] = u] OBVIOUS
<1> HIDE DEF u
<1> QED BY <1>2, <1>3, <1>4

\* A callback takes a step, or returns, with its call as it was.
LEMMA CallbackStays ==
  ASSUME IInv, stack.at \in {"find", "try", "retry", "use"},
         \/ stack' = InLoop
         \/ \E s \in {"try", "retry"} :
               /\ \/ stack' = [stack EXCEPT !.at = s]
                  \/ stack' = [[stack EXCEPT !.at = s] EXCEPT !.head = NoCall]
               /\ stack.at # "use"
         \/ stack' = [stack EXCEPT !.at = "use"],
         UNCHANGED <<dir, pvt, iflist, pbx, call, monitor, refused, pipe, batch, aligned,
                     registered>>,
         UNCHANGED <<unlocked, lost>> \/ SyncUnLock,
         chan' \in [Calls -> Chan], \A d \in Calls : chan'[d].at = chan[d].at
  PROVE  IInv' /\ Follows
<1>1. stack.at \in Steps /\ stack.at # "queue" BY DEF Steps
<1>2. /\ stack.call \in Calls
      /\ \A s \in Steps : [stack EXCEPT !.at = s] \in StackStates
                             /\ [stack EXCEPT !.at = s].at = s
                             /\ [stack EXCEPT !.at = s].cb = stack.cb
                             /\ [stack EXCEPT !.at = s].call = stack.call
  BY <1>1, StackStep DEF IInv, CallsOK
<1>3. \A s \in Steps :
        /\ [[stack EXCEPT !.at = s] EXCEPT !.head = NoCall] \in StackStates
        /\ [[stack EXCEPT !.at = s] EXCEPT !.head = NoCall].at = s
        /\ [[stack EXCEPT !.at = s] EXCEPT !.head = NoCall].cb = stack.cb
        /\ [[stack EXCEPT !.at = s] EXCEPT !.head = NoCall].call = stack.call
  <2> SUFFICES ASSUME NEW s \in Steps
               PROVE  /\ [[stack EXCEPT !.at = s] EXCEPT !.head = NoCall] \in StackStates
                      /\ [[stack EXCEPT !.at = s] EXCEPT !.head = NoCall].at = s
                      /\ [[stack EXCEPT !.at = s] EXCEPT !.head = NoCall].cb = stack.cb
                      /\ [[stack EXCEPT !.at = s] EXCEPT !.head = NoCall].call = stack.call
    OBVIOUS
  <2> DEFINE R == [at : Steps, cb : Callbacks, call : Calls, head : Calls \cup {NoCall},
                   unlock : BOOLEAN]
             r == [stack EXCEPT !.at = s]
             q == [r EXCEPT !.head = NoCall]
  <2>1. r \in R
    <3>1. r \in StackStates /\ r.at # "loop" BY <1>2 DEF Steps
    <3>2. r # InLoop BY <3>1 DEF InLoop
    <3> QED BY <3>1, <3>2 DEF StackStates
  <2>2. r.at = s /\ r.cb = stack.cb /\ r.call = stack.call BY <1>2
  <2> HIDE DEF r
  <2>3. q \in R BY <2>1, Zenon
  <2>4. q.at = r.at /\ q.cb = r.cb /\ q.call = r.call BY <2>1
  <2>5. q \in StackStates BY <2>3 DEF StackStates
  <2> QED BY <2>2, <2>4, <2>5 DEF r
<1>4. stack' \in StackStates
  BY <1>2, <1>3, Looping DEF Steps
<1>5. /\ stack'.at \in {"find", "queue", "alloc"} => FALSE
      /\ stack'.at \in {"try", "retry"} =>
           /\ stack.at \in {"find", "try", "retry"}
           /\ stack'.cb = stack.cb /\ stack'.call = stack.call
  <2>1. CASE stack' = InLoop
    <3>1. stack'.at = "loop" BY <2>1 DEF InLoop
    <3> QED BY <3>1
  <2>2. ASSUME NEW s \in {"try", "retry"}, stack.at # "use",
               \/ stack' = [stack EXCEPT !.at = s]
               \/ stack' = [[stack EXCEPT !.at = s] EXCEPT !.head = NoCall]
        PROVE  /\ stack'.at \in {"find", "queue", "alloc"} => FALSE
               /\ stack.at \in {"find", "try", "retry"}
               /\ stack'.cb = stack.cb /\ stack'.call = stack.call
    <3>1. s \in Steps BY DEF Steps
    <3>2. stack'.at = s /\ stack'.cb = stack.cb /\ stack'.call = stack.call
      BY <1>2, <1>3, <2>2, <3>1
    <3> QED BY <2>2, <3>2
  <2>3. CASE stack' = [stack EXCEPT !.at = "use"]
    <3>1. stack'.at = "use" BY <1>2, <2>3 DEF Steps
    <3> QED BY <3>1
  <2> QED BY <2>1, <2>2, <2>3
<1>6. Busy' BY <1>2, <1>5 DEF IInv, Busy
<1>7. unlocked' \in BOOLEAN /\ lost' \subseteq {"unlock", "process"}
  BY DEF SyncUnLock, IInv, FlowOK
<1> QED BY <1>1, <1>4, <1>6, <1>7, CallbackGoes

\* The steps of a callback that leave the driver's structures alone.
LEMMA CallbackSteps ==
  ASSUME IInv,
         \/ Found \/ CallMade \/ AlertOutgoing \/ UseOwner \/ EstablishedUnowned
         \/ EstablishedBusy \/ Established
         \/ NotFound /\ stack.cb # "onCallCleared"
  PROVE  IInv' /\ Follows
<1>1. stack.at \in {"find", "try", "retry", "use"}
  BY DEF Found, CallMade, AlertOutgoing, UseOwner, EstablishedUnowned, EstablishedBusy,
         Established, NotFound, At
<1>2. /\ UNCHANGED <<dir, pvt, iflist, pbx, call, monitor, refused, pipe, batch, aligned,
                     registered>>
      /\ UNCHANGED <<unlocked, lost>> \/ SyncUnLock
  BY DEF Found, CallMade, AlertOutgoing, UseOwner, EstablishedUnowned, EstablishedBusy,
         Established, NotFound, pbxVars, readerVars
<1>3. \/ stack' = InLoop
      \/ \E s \in {"try", "retry"} :
            /\ \/ stack' = [stack EXCEPT !.at = s]
               \/ stack' = [[stack EXCEPT !.at = s] EXCEPT !.head = NoCall]
            /\ stack.at # "use"
      \/ stack' = [stack EXCEPT !.at = "use"]
  BY DEF Found, CallMade, AlertOutgoing, UseOwner, EstablishedUnowned, EstablishedBusy,
         Established, NotFound, At
<1>4. chan' \in [Calls -> Chan] /\ \A d \in Calls : chan'[d].at = chan[d].at
  <2>1. CASE UNCHANGED chan BY <2>1 DEF IInv, CallsOK
  <2>2. CASE Established
    <3>1. stack.call \in Calls BY <1>1, StackStep DEF IInv, CallsOK, Steps
    <3>2. (dir[stack.call] = "incoming") \in BOOLEAN OBVIOUS
    <3>3. chan' = [chan EXCEPT ![stack.call].up = (dir[stack.call] = "incoming")]
      BY <2>2 DEF Established
    <3>4. chan \in [Calls -> Chan] BY DEF IInv, CallsOK
    <3> QED BY <3>1, <3>2, <3>3, <3>4, ChanUp
  <2> QED BY <2>1, <2>2
       DEF Found, CallMade, AlertOutgoing, UseOwner, EstablishedUnowned, EstablishedBusy,
           NotFound, pbxVars
<1> QED BY <1>1, <1>2, <1>3, <1>4, CallbackStays

-----------------------------------------------------------------------------
(* The private structures                                                     *)

\* What became of the structure of c, the others being as they were.
PvtNow(c, at, token, owner, gone, destroy) ==
  /\ pvt' \in [Calls -> Pvt]
  /\ pvt'[c].at = at /\ pvt'[c].token = token /\ pvt'[c].owner = owner
  /\ pvt'[c].gone = gone /\ pvt'[c].destroy = destroy
  /\ \A d \in Calls : d # c => pvt'[d] = pvt[d]

\* One structure is exchanged for another value.
LEMMA PvtMoved ==
  ASSUME pvt \in [Calls -> Pvt], NEW c \in Calls, NEW p \in Pvt,
         pvt' = [pvt EXCEPT ![c] = p]
  PROVE  PvtNow(c, p.at, p.token, p.owner, p.gone, p.destroy)
BY DEF PvtNow

\* The structure has a token.
LEMMA PvtToken ==
  ASSUME pvt \in [Calls -> Pvt], NEW c \in Calls, pvt' = [pvt EXCEPT ![c].token = TRUE]
  PROVE  PvtNow(c, pvt[c].at, TRUE, pvt[c].owner, pvt[c].gone, pvt[c].destroy)
<1> DEFINE p == [pvt[c] EXCEPT !.token = TRUE]
<1>1. pvt[c] \in Pvt OBVIOUS
<1>2. p \in Pvt BY <1>1, Zenon DEF Pvt
<1>3. /\ p.at = pvt[c].at /\ p.token = TRUE /\ p.owner = pvt[c].owner
      /\ p.gone = pvt[c].gone /\ p.destroy = pvt[c].destroy
  BY <1>1 DEF Pvt
<1>4. pvt' = [pvt EXCEPT ![c] = p] BY <1>1 DEF Detached
<1> HIDE DEF p
<1>5. PvtNow(c, p.at, p.token, p.owner, p.gone, p.destroy) BY <1>2, <1>4, PvtMoved
<1> QED BY <1>3, <1>5

\* The structure has an owner.
LEMMA PvtOwner ==
  ASSUME pvt \in [Calls -> Pvt], NEW c \in Calls, pvt' = [pvt EXCEPT ![c].owner = TRUE]
  PROVE  PvtNow(c, pvt[c].at, pvt[c].token, TRUE, pvt[c].gone, pvt[c].destroy)
<1> DEFINE p == [pvt[c] EXCEPT !.owner = TRUE]
<1>1. pvt[c] \in Pvt OBVIOUS
<1>2. p \in Pvt BY <1>1, Zenon DEF Pvt
<1>3. /\ p.at = pvt[c].at /\ p.token = pvt[c].token /\ p.owner = TRUE
      /\ p.gone = pvt[c].gone /\ p.destroy = pvt[c].destroy
  BY <1>1 DEF Pvt
<1>4. pvt' = [pvt EXCEPT ![c] = p] BY <1>1 DEF Detached
<1> HIDE DEF p
<1>5. PvtNow(c, p.at, p.token, p.owner, p.gone, p.destroy) BY <1>2, <1>4, PvtMoved
<1> QED BY <1>3, <1>5

\* The structure is flagged.
LEMMA PvtGone ==
  ASSUME pvt \in [Calls -> Pvt], NEW c \in Calls, pvt' = [pvt EXCEPT ![c].gone = TRUE]
  PROVE  PvtNow(c, pvt[c].at, pvt[c].token, pvt[c].owner, TRUE, pvt[c].destroy)
<1> DEFINE p == [pvt[c] EXCEPT !.gone = TRUE]
<1>1. pvt[c] \in Pvt OBVIOUS
<1>2. p \in Pvt BY <1>1, Zenon DEF Pvt
<1>3. /\ p.at = pvt[c].at /\ p.token = pvt[c].token /\ p.owner = pvt[c].owner
      /\ p.gone = TRUE /\ p.destroy = pvt[c].destroy
  BY <1>1 DEF Pvt
<1>4. pvt' = [pvt EXCEPT ![c] = p] BY <1>1 DEF Detached
<1> HIDE DEF p
<1>5. PvtNow(c, p.at, p.token, p.owner, p.gone, p.destroy) BY <1>2, <1>4, PvtMoved
<1> QED BY <1>3, <1>5

\* The structure is marked.
LEMMA PvtDestroy ==
  ASSUME pvt \in [Calls -> Pvt], NEW c \in Calls, pvt' = [pvt EXCEPT ![c].destroy = TRUE]
  PROVE  PvtNow(c, pvt[c].at, pvt[c].token, pvt[c].owner, pvt[c].gone, TRUE)
<1> DEFINE p == [pvt[c] EXCEPT !.destroy = TRUE]
<1>1. pvt[c] \in Pvt OBVIOUS
<1>2. p \in Pvt BY <1>1, Zenon DEF Pvt
<1>3. /\ p.at = pvt[c].at /\ p.token = pvt[c].token /\ p.owner = pvt[c].owner
      /\ p.gone = pvt[c].gone /\ p.destroy = TRUE
  BY <1>1 DEF Pvt
<1>4. pvt' = [pvt EXCEPT ![c] = p] BY <1>1 DEF Detached
<1> HIDE DEF p
<1>5. PvtNow(c, p.at, p.token, p.owner, p.gone, p.destroy) BY <1>2, <1>4, PvtMoved
<1> QED BY <1>3, <1>5

\* The owner leaves a structure and flags it.
LEMMA PvtLeft ==
  ASSUME pvt \in [Calls -> Pvt], NEW c \in Calls,
         pvt' = [pvt EXCEPT ![c] = [Detached(@) EXCEPT !.gone = TRUE]]
  PROVE  PvtNow(c, pvt[c].at, pvt[c].token, FALSE, TRUE, pvt[c].destroy)
<1> DEFINE p == [[pvt[c] EXCEPT !.owner = FALSE] EXCEPT !.gone = TRUE]
<1>1. pvt[c] \in Pvt OBVIOUS
<1>2. p \in Pvt BY <1>1, Zenon DEF Pvt
<1>3. /\ p.at = pvt[c].at /\ p.token = pvt[c].token /\ p.owner = FALSE
      /\ p.gone = TRUE /\ p.destroy = pvt[c].destroy
  BY <1>1 DEF Pvt
<1>4. pvt' = [pvt EXCEPT ![c] = p] BY <1>1 DEF Detached
<1> HIDE DEF p
<1>5. PvtNow(c, p.at, p.token, p.owner, p.gone, p.destroy) BY <1>2, <1>4, PvtMoved
<1> QED BY <1>3, <1>5

\* The owner leaves a structure and marks it.
LEMMA PvtLeftLast ==
  ASSUME pvt \in [Calls -> Pvt], NEW c \in Calls,
         pvt' = [pvt EXCEPT ![c] = [Detached(@) EXCEPT !.destroy = TRUE]]
  PROVE  PvtNow(c, pvt[c].at, pvt[c].token, FALSE, pvt[c].gone, TRUE)
<1> DEFINE p == [[pvt[c] EXCEPT !.owner = FALSE] EXCEPT !.destroy = TRUE]
<1>1. pvt[c] \in Pvt OBVIOUS
<1>2. p \in Pvt BY <1>1, Zenon DEF Pvt
<1>3. /\ p.at = pvt[c].at /\ p.token = pvt[c].token /\ p.owner = FALSE
      /\ p.gone = pvt[c].gone /\ p.destroy = TRUE
  BY <1>1 DEF Pvt
<1>4. pvt' = [pvt EXCEPT ![c] = p] BY <1>1 DEF Detached
<1> HIDE DEF p
<1>5. PvtNow(c, p.at, p.token, p.owner, p.gone, p.destroy) BY <1>2, <1>4, PvtMoved
<1> QED BY <1>3, <1>5

\* The structure is freed.
LEMMA PvtIsFreed ==
  ASSUME pvt \in [Calls -> Pvt], NEW c \in Calls,
         pvt' = [pvt EXCEPT ![c].at = "freed"]
  PROVE  PvtNow(c, "freed", pvt[c].token, pvt[c].owner, pvt[c].gone, pvt[c].destroy)
<1> DEFINE p == [pvt[c] EXCEPT !.at = "freed"]
<1>1. pvt[c] \in Pvt OBVIOUS
<1>2. p \in Pvt BY <1>1, Zenon DEF Pvt
<1>3. /\ p.at = "freed" /\ p.token = pvt[c].token /\ p.owner = pvt[c].owner
      /\ p.gone = pvt[c].gone /\ p.destroy = pvt[c].destroy
  BY <1>1 DEF Pvt
<1>4. pvt' = [pvt EXCEPT ![c] = p] BY <1>1 DEF Detached
<1> HIDE DEF p
<1>5. PvtNow(c, p.at, p.token, p.owner, p.gone, p.destroy) BY <1>2, <1>4, PvtMoved
<1> QED BY <1>3, <1>5

\* The structure is unlinked.
LEMMA PvtUnlinked ==
  ASSUME pvt \in [Calls -> Pvt], NEW c \in Calls, pvt' = [pvt EXCEPT ![c].at = "unlinked"]
  PROVE  PvtNow(c, "unlinked", pvt[c].token, pvt[c].owner, pvt[c].gone, pvt[c].destroy)
<1> DEFINE p == [pvt[c] EXCEPT !.at = "unlinked"]
<1>1. pvt[c] \in Pvt OBVIOUS
<1>2. p \in Pvt BY <1>1, Zenon DEF Pvt
<1>3. /\ p.at = "unlinked" /\ p.token = pvt[c].token /\ p.owner = pvt[c].owner
      /\ p.gone = pvt[c].gone /\ p.destroy = pvt[c].destroy
  BY <1>1 DEF Pvt
<1>4. pvt' = [pvt EXCEPT ![c] = p] BY <1>1 DEF Detached
<1> HIDE DEF p
<1>5. PvtNow(c, p.at, p.token, p.owner, p.gone, p.destroy) BY <1>2, <1>4, PvtMoved
<1> QED BY <1>3, <1>5

\* The structure is freed and its owner loses it.
LEMMA PvtTaken ==
  ASSUME pvt \in [Calls -> Pvt], NEW c \in Calls,
         pvt' = [pvt EXCEPT ![c].at = "freed", ![c].owner = FALSE]
  PROVE  PvtNow(c, "freed", pvt[c].token, FALSE, pvt[c].gone, pvt[c].destroy)
<1> DEFINE p == [[pvt[c] EXCEPT !.at = "freed"] EXCEPT !.owner = FALSE]
<1>1. pvt[c] \in Pvt OBVIOUS
<1>2. p \in Pvt BY <1>1, Zenon DEF Pvt
<1>3. /\ p.at = "freed" /\ p.token = pvt[c].token /\ p.owner = FALSE
      /\ p.gone = pvt[c].gone /\ p.destroy = pvt[c].destroy
  BY <1>1 DEF Pvt
<1>4. pvt' = [pvt EXCEPT ![c] = p] BY <1>1 DEF Detached
<1> HIDE DEF p
<1>5. PvtNow(c, p.at, p.token, p.owner, p.gone, p.destroy) BY <1>2, <1>4, PvtMoved
<1> QED BY <1>3, <1>5

\* A new private structure comes to the head of the list.
LEMMA Alloced ==
  ASSUME IInv, NEW c \in Calls, NEW owner \in BOOLEAN, NEW token \in BOOLEAN,
         pvt[c].at = "none", Alloc(c, owner, token)
  PROVE  PvtNow(c, "listed", token, owner, FALSE, FALSE) /\ ListOK'
<1>1. pvt \in [Calls -> Pvt] /\ iflist \in Seq(Calls) BY DEF IInv, CallsOK, ListOK
<1>2. PvtNow(c, "listed", token, owner, FALSE, FALSE)
  <2> DEFINE p == NewPvt(owner, token)
  <2>1. p \in Pvt BY DEF NewPvt, Pvt
  <2>2. pvt' = [pvt EXCEPT ![c] = p] BY DEF Alloc
  <2>3. /\ p.at = "listed" /\ p.token = token /\ p.owner = owner /\ p.gone = FALSE
        /\ p.destroy = FALSE
    BY DEF NewPvt
  <2> HIDE DEF p
  <2>4. PvtNow(c, p.at, p.token, p.owner, p.gone, p.destroy) BY <1>1, <2>1, <2>2, PvtMoved
  <2> QED BY <2>3, <2>4
<1>3. iflist' = <<c>> \o iflist BY DEF Alloc
<1>4. /\ iflist' \in Seq(Calls) /\ DOMAIN iflist' = 1 .. Len(iflist) + 1
      /\ iflist'[1] = c
      /\ \A i \in DOMAIN iflist : i + 1 \in DOMAIN iflist' /\ iflist'[i + 1] = iflist[i]
      /\ \A i \in DOMAIN iflist' : i # 1 => i - 1 \in DOMAIN iflist /\ iflist'[i] = iflist[i - 1]
  BY <1>1, <1>3
<1>5. \A i \in DOMAIN iflist : iflist[i] # c BY DEF IInv, ListOK
<1>6. ASSUME NEW i \in DOMAIN iflist', NEW j \in DOMAIN iflist', iflist'[i] = iflist'[j]
      PROVE  i = j
  <2>1. CASE i = 1 \/ j = 1 BY <1>4, <1>5, <1>6, <2>1
  <2>2. CASE i # 1 /\ j # 1
    <3>1. i - 1 \in DOMAIN iflist /\ j - 1 \in DOMAIN iflist /\ iflist[i - 1] = iflist[j - 1]
      BY <1>4, <1>6, <2>2
    <3>2. i - 1 = j - 1 BY <3>1 DEF IInv, ListOK
    <3> QED BY <1>1, <1>4, <3>2
  <2> QED BY <2>1, <2>2
<1>7. ASSUME NEW d \in Calls
      PROVE  pvt'[d].at = "listed" <=> \E i \in DOMAIN iflist' : iflist'[i] = d
  <2>1. CASE d = c BY <1>2, <1>4, <2>1 DEF PvtNow
  <2>2. CASE d # c
    <3>1. pvt'[d].at = "listed" <=> \E i \in DOMAIN iflist : iflist[i] = d
      BY <1>2, <2>2 DEF IInv, ListOK, PvtNow
    <3> QED BY <1>4, <2>2, <3>1
  <2> QED BY <2>1, <2>2
<1> QED BY <1>2, <1>4, <1>6, <1>7 DEF ListOK

\* A structure leaves the list.
LEMMA Unlinks ==
  ASSUME IInv, NEW c \in Calls, Unlinked(c), pvt'[c].at # "listed",
         \A d \in Calls : d # c => pvt'[d].at = pvt[d].at
  PROVE  ListOK'
<1>1. PICK i \in DOMAIN iflist :
        /\ iflist[i] = c
        /\ iflist' = SubSeq(iflist, 1, i - 1) \o SubSeq(iflist, i + 1, Len(iflist))
  BY DEF Unlinked
<1>2. /\ iflist \in Seq(Calls) /\ Len(iflist) \in Nat /\ i \in 1 .. Len(iflist)
      /\ DOMAIN iflist = 1 .. Len(iflist)
  BY DEF IInv, ListOK
<1>3. /\ iflist' \in Seq(Calls) /\ Len(iflist') = Len(iflist) - 1
      /\ DOMAIN iflist' = 1 .. Len(iflist) - 1
      /\ \A j \in 1 .. Len(iflist) - 1 : iflist'[j] = IF j < i THEN iflist[j] ELSE iflist[j + 1]
  <2> DEFINE f == SubSeq(iflist, 1, i - 1)
             g == SubSeq(iflist, i + 1, Len(iflist))
  <2>1. /\ f \in Seq(Calls) /\ Len(f) = i - 1
        /\ \A j \in 1 .. i - 1 : f[j] = iflist[j]
    BY <1>2
  <2>2. /\ g \in Seq(Calls) /\ Len(g) = Len(iflist) - i
        /\ \A j \in 1 .. Len(iflist) - i : g[j] = iflist[j + i]
    BY <1>2
  <2>3. iflist' = f \o g BY <1>1
  <2> HIDE DEF f, g
  <2>4. iflist' \in Seq(Calls) /\ Len(iflist') = Len(iflist) - 1
    <3>1. f \o g \in Seq(Calls) BY <2>1, <2>2, ConcatProperties
    <3>2. Len(f \o g) = Len(f) + Len(g) BY <2>1, <2>2, ConcatProperties
    <3>3. Len(f) + Len(g) = Len(iflist) - 1 BY <1>2, <2>1, <2>2
    <3> QED BY <2>3, <3>1, <3>2, <3>3
  <2>5. ASSUME NEW j \in 1 .. Len(iflist) - 1
        PROVE  iflist'[j] = IF j < i THEN iflist[j] ELSE iflist[j + 1]
    <3>1. CASE j < i BY <1>2, <2>1, <2>2, <2>3, <3>1, SMTT(30)
    <3>2. CASE j >= i
      <4>1. iflist'[j] = g[j - (i - 1)]
        <5>1. j \in 1 .. Len(f) + Len(g) /\ ~(j <= Len(f)) BY <1>2, <2>1, <2>2, <3>2, SMTT(30)
        <5> QED BY <2>1, <2>2, <2>3, <5>1, ConcatProperties, SMTT(30)
      <4>2. j - (i - 1) \in 1 .. Len(iflist) - i /\ j - (i - 1) + i = j + 1
        BY <1>2, <3>2
      <4> QED BY <1>2, <2>2, <3>2, <4>1, <4>2, SMTT(30)
    <3> QED BY <1>2, <3>1, <3>2
  <2> QED BY <2>4, <2>5
<1>4. ASSUME NEW j \in DOMAIN iflist', NEW k \in DOMAIN iflist', iflist'[j] = iflist'[k]
      PROVE  j = k
  <2> DEFINE at(n) == IF n < i THEN n ELSE n + 1
  <2>1. at(j) \in DOMAIN iflist /\ at(k) \in DOMAIN iflist /\ iflist[at(j)] = iflist[at(k)]
    BY <1>2, <1>3, <1>4
  <2>2. at(j) = at(k) BY <2>1 DEF IInv, ListOK
  <2> QED BY <1>2, <1>3, <2>2
<1>5. ASSUME NEW d \in Calls
      PROVE  pvt'[d].at = "listed" <=> \E j \in DOMAIN iflist' : iflist'[j] = d
  <2>1. pvt[d].at = "listed" <=> \E j \in DOMAIN iflist : iflist[j] = d
    BY DEF IInv, ListOK
  <2>2. CASE d = c
    <3>1. ASSUME NEW j \in DOMAIN iflist', iflist'[j] = c PROVE FALSE
      <4>1. (IF j < i THEN j ELSE j + 1) \in DOMAIN iflist
            /\ iflist[IF j < i THEN j ELSE j + 1] = c
        BY <1>2, <1>3, <3>1
      <4>2. (IF j < i THEN j ELSE j + 1) = i BY <1>1, <4>1 DEF IInv, ListOK
      <4> QED BY <1>2, <1>3, <4>2
    <3> QED BY <2>2, <3>1
  <2>3. CASE d # c
    <3>1. ASSUME NEW j \in DOMAIN iflist, iflist[j] = d
          PROVE  \E k \in DOMAIN iflist' : iflist'[k] = d
      <4>1. j # i BY <1>1, <2>3, <3>1
      <4>2. CASE j < i
        <5>1. j \in DOMAIN iflist' /\ iflist'[j] = iflist[j] BY <1>2, <1>3, <4>2
        <5> QED BY <3>1, <5>1
      <4>3. CASE j > i
        <5>1. j - 1 \in DOMAIN iflist' /\ iflist'[j - 1] = iflist[j] BY <1>2, <1>3, <4>3
        <5> QED BY <3>1, <5>1
      <4> QED BY <1>2, <4>1, <4>2, <4>3
    <3>2. ASSUME NEW k \in DOMAIN iflist', iflist'[k] = d
          PROVE  \E j \in DOMAIN iflist : iflist[j] = d
      <4>1. k \in 1 .. Len(iflist) - 1 BY <1>3
      <4>2. CASE k < i
        <5>1. k \in DOMAIN iflist /\ iflist[k] = d BY <1>2, <1>3, <3>2, <4>1, <4>2
        <5> QED BY <5>1
      <4>3. CASE ~(k < i)
        <5>1. k + 1 \in DOMAIN iflist /\ iflist[k + 1] = d BY <1>2, <1>3, <3>2, <4>1, <4>3
        <5> QED BY <5>1
      <4> QED BY <4>2, <4>3
    <3> QED BY <2>1, <2>3, <3>1, <3>2
  <2> QED BY <2>2, <2>3
<1> QED BY <1>3, <1>4, <1>5 DEF ListOK

-----------------------------------------------------------------------------
(* Steps that move one call                                                   *)

\* Nothing but c moves.
Apart(c) ==
  \A d \in Calls : d # c =>
    /\ pvt'[d] = pvt[d] /\ chan'[d].at = chan[d].at /\ pbx'[d] = pbx[d]
    /\ call'[d] = call[d]
    /\ d \in refused' <=> d \in refused
    /\ monitor' = d <=> monitor = d
    /\ ~PvtLockFree(d) => ~PvtLockFree(d)'

\* The others keep what is known of them.
LEMMA OthersKept ==
  ASSUME IInv, NEW c \in Calls, Apart(c)
  PROVE  \A d \in Calls : d # c => Life(d)' /\ (Unmade(d) => Unmade(d)')
<1> SUFFICES ASSUME NEW d \in Calls, d # c PROVE Life(d)' /\ (Unmade(d) => Unmade(d)')
  OBVIOUS
<1>1. /\ pvt'[d] = pvt[d] /\ chan'[d].at = chan[d].at /\ pbx'[d] = pbx[d]
      /\ call'[d] = call[d]
      /\ d \in refused' <=> d \in refused
      /\ monitor' = d <=> monitor = d
      /\ ~PvtLockFree(d) => ~PvtLockFree(d)'
  BY DEF Apart
<1>2. Life(d) BY DEF IInv
<1>3. Life(d)'
  <2> HIDE DEF PvtLockFree
  <2> QED BY <1>1, <1>2 DEF Life
<1>4. Unmade(d) => Unmade(d)' BY <1>1 DEF Unmade
<1> QED BY <1>3, <1>4

\* The others stay with those who hold them.
LEMMA OthersHold ==
  ASSUME NEW c \in Calls, Apart(c),
         \A d \in Calls : d # c => (Queued(d)' <=> Queued(d))
  PROVE  \A d \in Calls : d # c => Kept(d)
BY StaysKept DEF Apart

\* A channel is requested: it makes the structure.
LEMMA RequestStep ==
  ASSUME IInv, NEW c \in Calls, Request(c)
  PROVE  IInv' /\ Follows
<1>1. /\ pvt[c].at = "none" /\ dir[c] = "outgoing" /\ Alloc(c, TRUE, FALSE)
      /\ chan' = [chan EXCEPT ![c].at = "alive"]
      /\ pbx' = [pbx EXCEPT ![c] = "requested"]
      /\ UNCHANGED <<dir, pipe, monitor, refused, lost, call, batch, aligned, unlocked,
                     registered, stack>>
  BY DEF Request, stackVars
<1>2. PvtNow(c, "listed", FALSE, TRUE, FALSE, FALSE) /\ ListOK' BY <1>1, Alloced
<1>3. /\ chan' \in [Calls -> Chan] /\ chan'[c].at = "alive"
      /\ \A d \in Calls : d # c => chan'[d] = chan[d]
  BY <1>1, ChanMoved DEF IInv, CallsOK
<1>4. /\ pbx' \in [Calls -> Threads] /\ pbx'[c] = "requested"
      /\ \A d \in Calls : d # c => pbx'[d] = pbx[d]
  BY <1>1 DEF IInv, CallsOK, Threads
<1>5. call[c] = "none" /\ chan[c].at = "none" /\ ~pvt[c].token /\ c \notin refused
      /\ monitor # c
  BY <1>1 DEF IInv, Life
<1>6. FlowOK' /\ CallsOK' BY <1>1, <1>2, <1>3, <1>4 DEF IInv, FlowOK, CallsOK, PvtNow
<1>7. Apart(c) BY <1>1, <1>2, <1>3, <1>4 DEF Apart, PvtNow, PvtLockFree
<1>8. Life(c)' BY <1>1, <1>2, <1>3, <1>4, <1>5 DEF Life, PvtNow
<1>9. ~Unmade(c) BY <1>5 DEF Unmade
<1>10. QuietPipe /\ \A d : Queued(d)' <=> Queued(d) BY <1>1 DEF QuietPipe, Queued
<1>11. \A d \in Calls : Life(d)' /\ (Unmade(d) => Unmade(d)')
  BY <1>7, <1>8, <1>9, OthersKept
<1>12. Commands' BY <1>10, <1>11, CommandsKept
<1>13. Busy'
  <2>1. \A d \in Calls : pvt[d].at = "none" /\ dir[d] = "incoming" => d # c BY <1>1
  <2>2. \A d \in Calls : call[d] \in {"live", "ending"} => d # c BY <1>5
  <2>3. \A d \in Calls : pvt[d].gone => d # c BY <1>1 DEF IInv, Life
  <2> QED BY <1>1, <1>2, <1>3, <2>1, <2>2, <2>3, BusyKept DEF PvtNow
<1>14. \A d \in Calls : d # c => Kept(d) BY <1>7, <1>10, OthersHold
<1>15. Part(c, "channel") = "new" /\ Part(c, "channel")' = "holds"
  BY <1>3, <1>5 DEF Part, ChannelPart
<1>16. Part(c, "stack")' = Part(c, "stack") BY <1>2, <1>5 DEF Part, StackPart, PvtNow
<1>17. Stage(c) = "none" /\ Stage(c)' = "listed" BY <1>1, <1>2 DEF Stage, PvtNow
<1>18. Follows BY <1>1, <1>14, <1>15, <1>16, <1>17, Creates DEF Sides
<1> QED BY <1>2, <1>6, <1>11, <1>12, <1>13, <1>18 DEF IInv

\* The call is dialled: from here on its command is in the pipe, and the stack takes
\* the structure up from its channel.
LEMMA DialStep ==
  ASSUME IInv, NEW c \in Calls, Dial(c)
  PROVE  IInv' /\ Follows
<1>1. /\ pbx[c] = "requested" /\ pvt' = [pvt EXCEPT ![c].token = TRUE]
      /\ WriteStackCommand("MAKECALL", c)
      /\ pbx' = [pbx EXCEPT ![c] = "waiting"]
      /\ UNCHANGED <<dir, iflist, chan, monitor, refused, lost, call, batch, aligned,
                     unlocked, registered, stack>>
  BY DEF Dial, stackVars
<1>2. PvtNow(c, pvt[c].at, TRUE, pvt[c].owner, pvt[c].gone, pvt[c].destroy)
  BY <1>1, PvtToken DEF IInv, CallsOK
<1>3. /\ pbx' \in [Calls -> Threads] /\ pbx'[c] = "waiting"
      /\ \A d \in Calls : d # c => pbx'[d] = pbx[d]
  BY <1>1 DEF IInv, CallsOK, Threads
<1>4. /\ call[c] = "none" /\ chan[c].at = "alive" /\ pvt[c].at = "listed"
      /\ ~pvt[c].token /\ c \notin refused
  <2>1. /\ chan[c].at \in {"none", "alive", "freed"}
        /\ pvt[c].at \in {"none", "listed", "unlinked", "freed"}
    BY DEF IInv, CallsOK, Chan, Pvt
  <2> QED BY <1>1, <2>1 DEF IInv, Life
<1>5. /\ pipe' \in Seq(Command)
      /\ DOMAIN pipe' = DOMAIN pipe \cup {Len(pipe) + 1}
      /\ Len(pipe) + 1 \notin DOMAIN pipe
      /\ \A i \in DOMAIN pipe : pipe'[i] = pipe[i]
      /\ pipe'[Len(pipe) + 1] = [type |-> "MAKECALL", call |-> c]
  BY <1>1, Written DEF IInv, FlowOK
<1>6. FlowOK' BY <1>1, FlowWritten DEF IInv
<1>7. CallsOK' BY <1>1, <1>2, <1>3 DEF IInv, CallsOK, PvtNow
<1>8. ListOK'
  <2>1. \A d \in Calls : pvt'[d].at = pvt[d].at BY <1>2 DEF PvtNow
  <2> QED BY <1>1, <2>1 DEF IInv, ListOK
<1>9. Apart(c) BY <1>1, <1>2, <1>3 DEF Apart, PvtNow, PvtLockFree
<1>10. Life(c) BY DEF IInv
<1>11. Life(c)'
  <2>1. PvtLockFree(c)' <=> PvtLockFree(c) BY <1>1 DEF PvtLockFree
  <2> HIDE DEF PvtLockFree
  <2> QED BY <1>1, <1>2, <1>3, <1>4, <1>10, <2>1 DEF Life, PvtNow
<1>12. Unmade(c)' /\ ~Unmade(c) BY <1>1, <1>2, <1>3, <1>4 DEF Unmade, PvtNow
<1>13. \A d \in Calls : Life(d)' /\ (Unmade(d) => Unmade(d)')
  BY <1>9, <1>11, <1>12, OthersKept
<1>14. \A d \in Calls, i \in DOMAIN pipe' :
         Makes(i, d)' <=> (i \in DOMAIN pipe /\ Makes(i, d)) \/ (i = Len(pipe) + 1 /\ d = c)
  BY <1>5 DEF Makes
<1>15. \A i \in DOMAIN pipe : ~Makes(i, c) BY <1>12 DEF IInv, Commands
<1>16. Commands' BY <1>5, <1>12, <1>13, <1>14, <1>15 DEF IInv, Commands
<1>17. Busy' BY <1>1, <1>2, BusyKept DEF PvtNow
<1>18. /\ Queued(c)'
       /\ \A d \in Calls : d # c => (Queued(d)' <=> Queued(d))
  BY <1>5 DEF Queued
<1>19. \A d \in Calls : d # c => Kept(d) BY <1>9, <1>18, OthersHold
<1>20. Part(c, "stack") = "new" /\ Part(c, "stack")' = "holds"
  BY <1>2, <1>4, <1>18 DEF Part, StackPart, PvtNow
<1>21. Part(c, "channel") = "holds" /\ Part(c, "channel")' = "holds"
  BY <1>1, <1>4 DEF Part, ChannelPart
<1>22. Stage(c) = "listed" /\ Stage(c)' = "listed" BY <1>2, <1>4 DEF Stage, PvtNow
<1>23. Follows
  BY <1>1, <1>19, <1>20, <1>21, <1>22, Joins DEF Sides
<1> QED BY <1>6, <1>7, <1>8, <1>13, <1>16, <1>17, <1>23 DEF IInv

\* A channel indicates busy or congestion: it forfeits the structure.
LEMMA IndicateStep ==
  ASSUME IInv, NEW c \in Calls, Indicate(c)
  PROVE  IInv' /\ Follows
<1>1. /\ Talks(c) /\ ~Bereft(c) /\ PvtLockFree(c) /\ pvt[c].token /\ ~pvt[c].gone
      /\ pvt' = [pvt EXCEPT ![c].gone = TRUE]
      /\ WriteStackCommand("HANGCALL", c)
      /\ refused' = refused \cup {c}
      /\ UNCHANGED <<dir, iflist, chan, pbx, monitor, lost, call, batch, aligned,
                     unlocked, registered, stack>>
  BY DEF Indicate, stackVars
<1>2. PvtNow(c, pvt[c].at, pvt[c].token, pvt[c].owner, TRUE, pvt[c].destroy)
  BY <1>1, PvtGone DEF IInv, CallsOK
<1>3. /\ chan[c].at = "alive" /\ pvt[c].at \in {"listed", "unlinked"}
      /\ pbx[c] \notin {"none", "requested", "gone"}
  <2>1. /\ chan[c].at \in {"none", "alive", "freed"}
        /\ pvt[c].at \in {"none", "listed", "unlinked", "freed"}
    BY DEF IInv, CallsOK, Chan, Pvt
  <2>2. pbx[c] \in {"ringing", "talking"} BY <1>1 DEF Talks
  <2>3. pvt[c].at # "freed" BY <1>1 DEF Bereft
  <2> QED BY <2>1, <2>2, <2>3 DEF IInv, Life
<1>4. FlowOK' BY <1>1, FlowWritten DEF IInv
<1>5. CallsOK' BY <1>1, <1>2 DEF IInv, CallsOK, PvtNow
<1>6. ListOK'
  <2>1. \A d \in Calls : pvt'[d].at = pvt[d].at BY <1>2 DEF PvtNow
  <2> QED BY <1>1, <2>1 DEF IInv, ListOK
<1>7. Apart(c) BY <1>1, <1>2 DEF Apart, PvtNow, PvtLockFree
<1>8. Life(c) BY DEF IInv
<1>9. Life(c)' BY <1>1, <1>2, <1>3, <1>8 DEF Life, PvtNow
<1>10. Unmade(c) => Unmade(c)' BY <1>1, <1>2 DEF Unmade, PvtNow
<1>11. \A d \in Calls : Life(d)' /\ (Unmade(d) => Unmade(d)')
  BY <1>7, <1>9, <1>10, OthersKept
<1>12. QuietPipe BY <1>1 DEF QuietPipe
<1>13. Commands' BY <1>11, <1>12, CommandsKept
<1>14. Busy'
  <2>1. \A d \in Calls : pvt[d].gone => d # c BY <1>1
  <2>2. \A d \in Calls : pvt[d].at = "none" => d # c BY <1>3
  <2> QED BY <1>1, <1>2, <2>1, <2>2, BusyKept DEF PvtNow
<1>15. \A d \in Calls : Queued(d)' <=> Queued(d)
  BY <1>12, QueuedKept DEF IInv, FlowOK
<1>16. \A d \in Calls : Kept(d) BY <1>1, <1>2, <1>15, StaysKept DEF PvtNow
<1>17. Stage(c) = "listed" /\ ChannelPart(c) = "holds"
  BY <1>3 DEF Stage, ChannelPart
<1>18. Follows BY <1>1, <1>16, <1>17, Forfeits
<1> QED BY <1>4, <1>5, <1>6, <1>11, <1>13, <1>14, <1>18 DEF IInv

\* A channel is hung up and freed: the structure is marked only if the stack had let
\* go of it before, or the channel had forfeited it.
LEMMA HangupStep ==
  ASSUME IInv, NEW c \in Calls, Hangup(c)
  PROVE  IInv' /\ Follows
<1>1. /\ pbx[c] = "requested" \/ Talks(c)
      /\ PvtLockFree(c)
      /\ pbx' = [pbx EXCEPT ![c] = "gone"]
      /\ chan' = [chan EXCEPT ![c].at = "freed"]
      /\ UNCHANGED pipe \/ WriteStackCommand("HANGCALL", c)
      /\ UNCHANGED <<dir, iflist, monitor, refused, lost, call, batch, aligned,
                     unlocked, registered, stack>>
  BY DEF Hangup, stackVars
<1>2. /\ chan' \in [Calls -> Chan] /\ chan'[c].at = "freed"
      /\ \A d \in Calls : d # c => chan'[d] = chan[d]
  BY <1>1, ChanMoved DEF IInv, CallsOK
<1>3. /\ pbx' \in [Calls -> Threads] /\ pbx'[c] = "gone"
      /\ \A d \in Calls : d # c => pbx'[d] = pbx[d]
  BY <1>1 DEF IInv, CallsOK, Threads
<1>4. /\ chan[c].at = "alive" /\ pvt[c].at # "none"
      /\ pbx[c] \in {"requested", "ringing", "talking"}
  <2>1. chan[c].at \in {"none", "alive", "freed"} BY DEF IInv, CallsOK, Chan
  <2>2. pbx[c] \in {"requested", "ringing", "talking"} BY <1>1 DEF Talks
  <2> QED BY <2>1, <2>2 DEF IInv, Life
<1>5. \/ PvtNow(c, pvt[c].at, pvt[c].token, FALSE, TRUE, pvt[c].destroy)
      \/ /\ pvt[c].gone
         /\ PvtNow(c, pvt[c].at, pvt[c].token, FALSE, pvt[c].gone, TRUE)
      \/ UNCHANGED pvt /\ pvt[c].at = "freed"
  <2>1. CASE pvt' = [pvt EXCEPT ![c] = [Detached(@) EXCEPT !.gone = TRUE]]
    BY <2>1, PvtLeft DEF IInv, CallsOK
  <2>2. CASE pvt[c].gone /\ pvt' = [pvt EXCEPT ![c] = [Detached(@) EXCEPT !.destroy = TRUE]]
    BY <2>2, PvtLeftLast DEF IInv, CallsOK
  <2>3. CASE UNCHANGED pvt /\ pvt[c].at = "freed" BY <2>3
  <2> QED BY <2>1, <2>2, <2>3 DEF Hangup, Bereft
<1>6. /\ pvt' \in [Calls -> Pvt]
      /\ pvt'[c].at = pvt[c].at /\ pvt'[c].token = pvt[c].token /\ ~pvt'[c].owner
      /\ pvt[c].gone => pvt'[c].gone
      /\ c \in refused \/ call[c] = "over" \/ pvt'[c].gone
      /\ pvt[c].destroy => pvt'[c].destroy
      /\ pvt'[c].destroy => pvt[c].destroy \/ pvt[c].gone
      /\ \A d \in Calls : d # c => pvt'[d] = pvt[d]
  BY <1>5 DEF PvtNow, IInv, Life, CallsOK
<1>7. FlowOK' BY <1>1, FlowWritten DEF IInv
<1>8. CallsOK' BY <1>1, <1>2, <1>3, <1>6 DEF IInv, CallsOK
<1>9. ListOK'
  <2>1. \A d \in Calls : pvt'[d].at = pvt[d].at BY <1>6
  <2> QED BY <1>1, <2>1 DEF IInv, ListOK
<1>10. Apart(c) BY <1>1, <1>2, <1>3, <1>6 DEF Apart, PvtLockFree
<1>11. Life(c) BY DEF IInv
<1>12. Life(c)'
  <2> HIDE DEF PvtLockFree
  <2> QED BY <1>1, <1>2, <1>3, <1>4, <1>6, <1>11 DEF Life
<1>13. Unmade(c) => Unmade(c)' BY <1>1, <1>3, <1>6 DEF Unmade
<1>14. \A d \in Calls : Life(d)' /\ (Unmade(d) => Unmade(d)')
  BY <1>10, <1>12, <1>13, OthersKept
<1>15. QuietPipe BY <1>1 DEF QuietPipe
<1>16. Commands' BY <1>14, <1>15, CommandsKept
<1>17. Busy'
  <2>1. \A d \in Calls : chan[d].at = "none" => d # c BY <1>4
  <2>2. \A d \in Calls : pvt[d].at = "none" => d # c BY <1>4
  <2>3. \A d \in Calls : pvt[d].gone => pvt'[d].gone BY <1>6
  <2> QED BY <1>1, <1>2, <1>6, <2>1, <2>2, <2>3, BusyKept
<1>18. \A d \in Calls : Queued(d)' <=> Queued(d)
  BY <1>15, QueuedKept DEF IInv, FlowOK
<1>19. \A d \in Calls : d # c => Kept(d) BY <1>10, <1>18, OthersHold
<1>20. Part(c, "channel") = "holds" /\ Part(c, "channel")' = "left"
  BY <1>2, <1>4 DEF Part, ChannelPart
<1>21. Part(c, "stack")' = Part(c, "stack")
  BY <1>1, <1>6, <1>18 DEF Part, StackPart
<1>22. Stage(c)' = Stage(c) BY <1>6 DEF Stage
<1>23. Stage(c) = "listed" \/ c \in refused
  <2>1. pvt[c].at \in {"none", "listed", "unlinked", "freed"} BY DEF IInv, CallsOK, Pvt
  <2> QED BY <1>4, <1>11, <2>1 DEF Life, Stage
<1>24. Follows BY <1>1, <1>19, <1>20, <1>21, <1>22, <1>23, Leaves DEF Sides
<1> QED BY <1>7, <1>8, <1>9, <1>14, <1>16, <1>17, <1>24 DEF IInv

\* A Setup gets its structure: the stack makes it.
LEMMA SetupAllocStep ==
  ASSUME IInv, SetupAlloc
  PROVE  IInv' /\ Follows
<1>1. stack.at = "alloc" /\ stack.at \in Steps BY DEF SetupAlloc, Steps
<1>2. PICK c \in Calls : c = stack.call BY <1>1, StackStep DEF IInv, CallsOK
<1>3. /\ Alloc(c, FALSE, TRUE)
      /\ call' = [call EXCEPT ![c] = "live"]
      /\ stack' = InLoop
      /\ UNCHANGED <<dir, chan, pbx, monitor, refused, pipe, batch, aligned, registered,
                     unlocked, lost>>
  BY <1>2 DEF SetupAlloc, pbxVars, readerVars
<1>4. pvt[c].at = "none" BY <1>1, <1>2 DEF IInv, Busy
<1>5. PvtNow(c, "listed", TRUE, FALSE, FALSE, FALSE) /\ ListOK' BY <1>3, <1>4, Alloced
<1>6. /\ call' \in [Calls -> CallStates] /\ call'[c] = "live"
      /\ \A d \in Calls : d # c => call'[d] = call[d]
  BY <1>3 DEF IInv, CallsOK, CallStates
<1>7. /\ call[c] = "none" /\ chan[c].at = "none" /\ pbx[c] = "none" /\ ~pvt[c].token
      /\ c \notin refused /\ monitor # c
  BY <1>4 DEF IInv, Life
<1>8. stack' \in StackStates /\ \A d : PvtLockFree(d)'
  BY <1>3 DEF StackStates, InLoop, PvtLockFree
<1>9. \A d : PvtLockFree(d) BY <1>1 DEF PvtLockFree
<1>10. FlowOK' /\ CallsOK' BY <1>3, <1>5, <1>6, <1>8 DEF IInv, FlowOK, CallsOK, PvtNow
<1>11. Apart(c) BY <1>3, <1>5, <1>6, <1>9 DEF Apart, PvtNow
<1>12. Life(c)' BY <1>3, <1>5, <1>6, <1>7 DEF Life, PvtNow
<1>13. ~Unmade(c) BY <1>7 DEF Unmade
<1>14. \A d \in Calls : Life(d)' /\ (Unmade(d) => Unmade(d)')
  BY <1>11, <1>12, <1>13, OthersKept
<1>15. QuietPipe /\ \A d : Queued(d)' <=> Queued(d) BY <1>3 DEF QuietPipe, Queued
<1>16. Commands' BY <1>14, <1>15, CommandsKept
<1>17. Busy' BY <1>3 DEF Busy, InLoop
<1>18. \A d \in Calls : d # c => Kept(d) BY <1>11, <1>15, OthersHold
<1>19. Part(c, "stack") = "new" /\ Part(c, "stack")' = "holds"
  BY <1>5, <1>6, <1>7 DEF Part, StackPart, PvtNow
<1>20. Part(c, "channel")' = Part(c, "channel") BY <1>3 DEF Part, ChannelPart
<1>21. Stage(c) = "none" /\ Stage(c)' = "listed" BY <1>4, <1>5 DEF Stage, PvtNow
<1>22. Follows BY <1>3, <1>18, <1>19, <1>20, <1>21, Creates DEF Sides
<1> QED BY <1>5, <1>10, <1>14, <1>16, <1>17, <1>22 DEF IInv

\* An incoming call gets its channel, which takes the structure up from the stack.
LEMMA AlertIncomingStep ==
  ASSUME IInv, AlertIncoming
  PROVE  IInv' /\ Follows
<1>1. /\ stack.at = "try" /\ stack.at \in Steps /\ stack.cb = "onAlerting"
      /\ dir[stack.call] = "incoming"
  BY DEF AlertIncoming, At, Steps
<1>2. PICK c \in Calls : c = stack.call BY <1>1, StackStep DEF IInv, CallsOK
<1>3. /\ pvt' = [pvt EXCEPT ![c].owner = TRUE]
      /\ chan' = [chan EXCEPT ![c].at = "alive"]
      /\ pbx' = [pbx EXCEPT ![c] = "ringing"]
      /\ stack' = InLoop
      /\ UNCHANGED <<dir, iflist, call, pipe, batch, aligned, registered, unlocked,
                     monitor, refused, lost>>
  BY <1>2 DEF AlertIncoming, readerVars
<1>4. call[c] \in {"live", "ending"} /\ chan[c].at = "none"
  BY <1>1, <1>2 DEF IInv, Busy
<1>5. /\ pvt[c].at = "listed" /\ pvt[c].token /\ ~pvt[c].destroy /\ ~pvt[c].gone
      /\ c \notin refused /\ pbx[c] = "none"
  <2>1. \A d : PvtLockFree(d) BY <1>1 DEF PvtLockFree
  <2> QED BY <1>4, <2>1 DEF IInv, Life
<1>6. PvtNow(c, pvt[c].at, pvt[c].token, TRUE, pvt[c].gone, pvt[c].destroy)
  BY <1>3, PvtOwner DEF IInv, CallsOK
<1>7. /\ chan' \in [Calls -> Chan] /\ chan'[c].at = "alive"
      /\ \A d \in Calls : d # c => chan'[d] = chan[d]
  BY <1>3, ChanMoved DEF IInv, CallsOK
<1>8. /\ pbx' \in [Calls -> Threads] /\ pbx'[c] = "ringing"
      /\ \A d \in Calls : d # c => pbx'[d] = pbx[d]
  BY <1>3 DEF IInv, CallsOK, Threads
<1>9. stack' \in StackStates BY <1>3 DEF StackStates
<1>10. \A d : PvtLockFree(d) BY <1>1 DEF PvtLockFree
<1>11. FlowOK' /\ CallsOK'
  BY <1>3, <1>6, <1>7, <1>8, <1>9 DEF IInv, FlowOK, CallsOK, PvtNow
<1>12. ListOK'
  <2>1. \A d \in Calls : pvt'[d].at = pvt[d].at BY <1>6 DEF PvtNow
  <2> QED BY <1>3, <2>1 DEF IInv, ListOK
<1>13. Apart(c) BY <1>3, <1>6, <1>7, <1>8, <1>10 DEF Apart, PvtNow
<1>14. Life(c) BY DEF IInv
<1>15. Life(c)' BY <1>3, <1>4, <1>5, <1>6, <1>7, <1>8, <1>14 DEF Life, PvtNow
<1>16. ~Unmade(c) BY <1>4 DEF Unmade
<1>17. \A d \in Calls : Life(d)' /\ (Unmade(d) => Unmade(d)')
  BY <1>13, <1>15, <1>16, OthersKept
<1>18. QuietPipe /\ \A d : Queued(d)' <=> Queued(d) BY <1>3 DEF QuietPipe, Queued
<1>19. Commands' BY <1>17, <1>18, CommandsKept
<1>20. Busy' BY <1>3 DEF Busy, InLoop
<1>21. \A d \in Calls : d # c => Kept(d) BY <1>13, <1>18, OthersHold
<1>22. Part(c, "channel") = "new" /\ Part(c, "channel")' = "holds"
  BY <1>4, <1>7 DEF Part, ChannelPart
<1>23. Part(c, "stack") = "holds" /\ Part(c, "stack")' = "holds"
  BY <1>3, <1>4, <1>5, <1>6 DEF Part, StackPart, PvtNow
<1>24. Stage(c) = "listed" /\ Stage(c)' = "listed" BY <1>5, <1>6 DEF Stage, PvtNow
<1>25. Follows BY <1>3, <1>21, <1>22, <1>23, <1>24, Joins DEF Sides
<1> QED BY <1>11, <1>12, <1>17, <1>19, <1>20, <1>25 DEF IInv

-----------------------------------------------------------------------------
(* Steps of the stack's call                                                  *)

\* The command to make a call was taken: it was the only one for its call.
LEMMA MakeCallTaken ==
  ASSUME IInv, Take, Head(pipe).type = "MAKECALL", pipe # <<>>, pipe' = Tail(pipe),
         NEW h, h = Head(pipe).call
  PROVE  /\ h \in Calls /\ Unmade(h)
         /\ \A i \in DOMAIN pipe' : ~Makes(i, h)'
         /\ Queued(h) /\ ~Queued(h)'
         /\ \A d \in Calls : d # h => (Queued(d)' <=> Queued(d))
         /\ (\A d \in Calls : d # h => (Unmade(d) => Unmade(d)')) => Commands'
<1>1. pipe \in Seq(Command) BY DEF IInv, FlowOK
<1>2. /\ 1 \in DOMAIN pipe /\ Head(pipe) = pipe[1] /\ pipe[1] \in Command
      /\ \A i \in DOMAIN pipe' : i + 1 \in DOMAIN pipe /\ pipe'[i] = pipe[i + 1]
                                 /\ i + 1 # 1 /\ i \in Nat
      /\ \A i \in DOMAIN pipe : i # 1 => i - 1 \in DOMAIN pipe' /\ pipe'[i - 1] = pipe[i]
  BY <1>1, Read
<1>3. h \in Calls BY <1>2 DEF Command
<1>4. Makes(1, h) BY <1>2 DEF Makes
<1>5. Unmade(h) /\ \A i \in DOMAIN pipe : Makes(i, h) => i = 1
  BY <1>2, <1>3, <1>4 DEF IInv, Commands
<1>6. \A i \in DOMAIN pipe', d \in Calls : Makes(i, d)' => Makes(i + 1, d)
  BY <1>2 DEF Makes
<1>7. \A i \in DOMAIN pipe' : ~Makes(i, h)' BY <1>2, <1>3, <1>5, <1>6
<1>8. Queued(h) BY <1>2 DEF Queued
<1>9. ~Queued(h)' BY <1>7 DEF Queued, Makes
<1>10. ASSUME NEW d \in Calls, d # h PROVE Queued(d)' <=> Queued(d)
  <2>1. Queued(d)' => Queued(d) BY <1>2 DEF Queued
  <2>2. Queued(d) => Queued(d)'
    <3>1. ASSUME NEW i \in DOMAIN pipe, pipe[i].type = "MAKECALL", pipe[i].call = d
          PROVE  Queued(d)'
      <4>1. i # 1 BY <1>2, <1>10, <3>1
      <4> QED BY <1>2, <3>1, <4>1 DEF Queued
    <3> QED BY <3>1 DEF Queued
  <2> QED BY <2>1, <2>2
<1>11. ASSUME \A d \in Calls : d # h => (Unmade(d) => Unmade(d)') PROVE Commands'
  <2> SUFFICES ASSUME NEW i \in DOMAIN pipe', NEW d \in Calls, Makes(i, d)'
               PROVE  Unmade(d)' /\ \A j \in DOMAIN pipe' : Makes(j, d)' => i = j
    BY DEF Commands
  <2>1. d # h BY <1>7
  <2>2. Unmade(d) /\ \A j \in DOMAIN pipe : Makes(j, d) => i + 1 = j
    BY <1>2, <1>6 DEF IInv, Commands
  <2>3. \A j \in DOMAIN pipe' : Makes(j, d)' => i + 1 = j + 1 BY <1>2, <1>6, <2>2
  <2> QED BY <1>2, <1>11, <2>1, <2>2, <2>3
<1> QED BY <1>3, <1>5, <1>7, <1>8, <1>9, <1>10, <1>11

\* The stack makes the call, and holds the structure still.
LEMMA MakeCallStep ==
  ASSUME IInv, MakeCall
  PROVE  IInv' /\ Follows
<1>1. PICK c : c = Head(pipe).call OBVIOUS
<1>2. /\ Take /\ Head(pipe).type = "MAKECALL" /\ stack = InLoop
      /\ call' = [call EXCEPT ![c] = "live"]
      /\ Callback("onNewCallCreated", c, TRUE)
      /\ UNCHANGED <<dir, pvt, iflist, chan, pbx, monitor, refused, aligned, registered,
                     unlocked, lost>>
  BY <1>1 DEF MakeCall, Process, Take, pbxVars
<1>3. FlowOK' /\ pipe # <<>> /\ pipe' = Tail(pipe)
  <2>1. unlocked' \in BOOLEAN /\ lost' \subseteq {"unlock", "process"}
    BY <1>2 DEF IInv, FlowOK
  <2> QED BY <1>2, <2>1, FlowTaken DEF IInv
<1>4. /\ c \in Calls /\ Unmade(c) /\ Queued(c) /\ ~Queued(c)'
      /\ \A d \in Calls : d # c => (Queued(d)' <=> Queued(d))
      /\ (\A d \in Calls : d # c => (Unmade(d) => Unmade(d)')) => Commands'
  BY <1>1, <1>2, <1>3, MakeCallTaken
<1>5. /\ stack' \in StackStates
      /\ stack'.at = "find" /\ stack'.cb = "onNewCallCreated" /\ stack'.call = c
  BY <1>2, <1>4, CallbackFacts DEF Callbacks
<1>6. /\ call' \in [Calls -> CallStates] /\ call'[c] = "live"
      /\ \A d \in Calls : d # c => call'[d] = call[d]
  BY <1>2, <1>4 DEF IInv, CallsOK, CallStates
<1>7. \A d : PvtLockFree(d) BY <1>2 DEF PvtLockFree, InLoop
<1>8. ListOK' /\ CallsOK' BY <1>2, <1>5, <1>6 DEF IInv, ListOK, CallsOK
<1>9. Apart(c) BY <1>2, <1>6, <1>7 DEF Apart
<1>10. Life(c) BY <1>4 DEF IInv
<1>11. Life(c)' BY <1>2, <1>4, <1>6, <1>7, <1>10 DEF Life, Unmade
<1>12. \A d \in Calls : d # c => Life(d)' /\ (Unmade(d) => Unmade(d)')
  BY <1>4, <1>9, OthersKept
<1>13. Commands' BY <1>4, <1>12
<1>14. Busy' BY <1>5, <1>6 DEF Busy
<1>15. StackPart(c) = "holds" /\ StackPart(c)' = "holds"
  BY <1>2, <1>4, <1>6 DEF StackPart, Unmade
<1>16. \A d \in Calls : d # c => Kept(d) BY <1>4, <1>9, OthersHold
<1>17. Kept(c) BY <1>2, <1>15 DEF Kept, Stage, ChannelPart
<1>18. Follows BY <1>2, <1>16, <1>17, NobodyMoves
<1> QED BY <1>3, <1>8, <1>11, <1>12, <1>13, <1>14, <1>18 DEF IInv

\* A command is dropped, or read as something else: with one that makes a call, the
\* stack lets go of the structure.
LEMMA DroppedStep ==
  ASSUME IInv, Take, UNCHANGED <<call, stack, unlocked>>,
         lost' \subseteq {"unlock", "process"}
  PROVE  IInv' /\ Follows
<1>1. FlowOK' /\ pipe # <<>> /\ pipe' = Tail(pipe)
  <2>1. unlocked' \in BOOLEAN BY DEF IInv, FlowOK
  <2> QED BY <2>1, FlowTaken DEF IInv
<1>2. CASE Head(pipe).type # "MAKECALL"
  <2>1. unlocked' \in BOOLEAN BY DEF IInv, FlowOK
  <2> QED BY <1>2, <2>1, QuietCommand
<1>3. CASE Head(pipe).type = "MAKECALL"
  <2>1. PICK c : c = Head(pipe).call OBVIOUS
  <2>2. /\ c \in Calls /\ Unmade(c) /\ Queued(c) /\ ~Queued(c)'
        /\ \A d \in Calls : d # c => (Queued(d)' <=> Queued(d))
        /\ (\A d \in Calls : d # c => (Unmade(d) => Unmade(d)')) => Commands'
    BY <1>1, <1>3, <2>1, MakeCallTaken
  <2>3. /\ UNCHANGED <<dir, pvt, iflist, chan, pbx, call, stack, monitor, refused>>
        /\ stack = InLoop
    BY DEF Take, pbxVars
  <2>4. ListOK' /\ CallsOK' BY <2>3 DEF IInv, ListOK, CallsOK
  <2>5. \A d \in Calls : Life(d)'
    <3>1. \A d : PvtLockFree(d)' <=> PvtLockFree(d) BY <2>3 DEF PvtLockFree
    <3> HIDE DEF PvtLockFree
    <3> QED BY <2>3, <3>1 DEF IInv, Life
  <2>6. Commands' BY <2>2, <2>3 DEF Unmade
  <2>7. Busy' BY <2>3, BusyKept
  <2>8. \A d \in Calls : d # c => Kept(d) BY <2>2, <2>3, StaysKept
  <2>9. Part(c, "stack") = "holds" /\ Part(c, "stack")' = "left"
    BY <2>2, <2>3 DEF Part, StackPart, Unmade
  <2>10. Part(c, "channel")' = Part(c, "channel") BY <2>3 DEF Part, ChannelPart
  <2>11. Stage(c)' = Stage(c) BY <2>3 DEF Stage
  <2>12. Stage(c) = "listed" \/ c \in refused BY <2>2 DEF Stage, Unmade
  <2>13. Follows BY <2>2, <2>3, <2>8, <2>9, <2>10, <2>11, <2>12, Leaves DEF Sides
  <2> QED BY <1>1, <2>4, <2>5, <2>6, <2>7, <2>13 DEF IInv
<1> QED BY <1>2, <1>3

\* A live call is told to end.
LEMMA HangCallStep ==
  ASSUME IInv, HangCall
  PROVE  IInv' /\ Follows
<1>1. PICK h : h = Head(pipe).call OBVIOUS
<1>2. /\ Take /\ Head(pipe).type # "MAKECALL" /\ stack = InLoop
      /\ call' = [call EXCEPT ![h] = IF @ = "live" THEN "ending" ELSE @]
      /\ UNCHANGED <<dir, pvt, iflist, chan, pbx, monitor, refused, aligned, registered,
                     unlocked, lost, stack>>
  BY <1>1 DEF HangCall, Process, Take, pbxVars
<1>3. FlowOK' /\ pipe # <<>> /\ pipe' = Tail(pipe)
  <2>1. unlocked' \in BOOLEAN /\ lost' \subseteq {"unlock", "process"}
    BY <1>2 DEF IInv, FlowOK
  <2> QED BY <1>2, <2>1, FlowTaken DEF IInv
<1>4. /\ call' \in [Calls -> CallStates]
      /\ \A d \in Calls : call'[d] = call[d] \/ (call[d] = "live" /\ call'[d] = "ending")
  BY <1>2 DEF IInv, CallsOK, CallStates
<1>5. ListOK' /\ CallsOK' BY <1>2, <1>4 DEF IInv, ListOK, CallsOK
<1>6. \A d : PvtLockFree(d)' <=> PvtLockFree(d) BY <1>2 DEF PvtLockFree
<1>7. \A d \in Calls : Life(d)'
  <2> HIDE DEF PvtLockFree
  <2> QED BY <1>2, <1>4, <1>6 DEF IInv, Life
<1>8. QuietPipe BY <1>2, <1>3 DEF QuietPipe
<1>9. \A d \in Calls : Unmade(d) => Unmade(d)' BY <1>2, <1>4 DEF Unmade
<1>10. Commands' BY <1>8, <1>9, CommandsKept
<1>11. Busy' BY <1>2, <1>4, BusyKept
<1>12. \A d \in Calls : Queued(d)' <=> Queued(d) BY <1>8, QueuedKept DEF IInv, FlowOK
<1>13. \A d \in Calls : Kept(d)
  BY <1>2, <1>4, <1>12 DEF Kept, Stage, ChannelPart, StackPart
<1>14. Follows BY <1>2, <1>13, NobodyMoves
<1> QED BY <1>3, <1>5, <1>7, <1>10, <1>11, <1>14 DEF IInv

\* A call is over while its channel lives: the structure is flagged for the channel,
\* and its lock kept.
LEMMA ClearedFirstStep ==
  ASSUME IInv, ClearedFirst
  PROVE  IInv' /\ Follows
<1>1. stack.at = "try" /\ stack.at \in Steps BY DEF ClearedFirst, At, Steps
<1>2. PICK c \in Calls : c = stack.call BY <1>1, StackStep DEF IInv, CallsOK
<1>3. /\ pvt' = [pvt EXCEPT ![c].gone = TRUE] /\ ~pvt[c].gone
      /\ stack' = [stack EXCEPT !.at = "queue"]
      /\ UNCHANGED <<dir, iflist, chan, pbx, call, pipe, batch, aligned, registered,
                     unlocked, monitor, refused, lost>>
      /\ stack.cb = "onCallCleared"
  BY <1>2 DEF ClearedFirst, At, pbxVars, readerVars
<1>4. /\ stack' \in StackStates
      /\ stack'.at = "queue" /\ stack'.cb = stack.cb /\ stack'.call = c
  BY <1>1, <1>2, <1>3, StackStep DEF IInv, CallsOK, Steps
<1>5. PvtNow(c, pvt[c].at, pvt[c].token, pvt[c].owner, TRUE, pvt[c].destroy)
  BY <1>3, PvtGone DEF IInv, CallsOK
<1>6. call[c] \in {"live", "ending"} /\ c \notin refused /\ pvt[c].at # "none"
  BY <1>1, <1>2, <1>3 DEF IInv, Busy, Life
<1>7. ListOK'
  <2>1. \A d \in Calls : pvt'[d].at = pvt[d].at BY <1>5 DEF PvtNow
  <2> QED BY <1>3, <2>1 DEF IInv, ListOK
<1>8. FlowOK' /\ CallsOK' BY <1>3, <1>4, <1>5 DEF IInv, FlowOK, CallsOK, PvtNow
<1>9. ~PvtLockFree(c)' /\ \A d : PvtLockFree(d) BY <1>1, <1>4 DEF PvtLockFree
<1>10. Apart(c) BY <1>3, <1>5, <1>9 DEF Apart, PvtNow
<1>11. Life(c) BY DEF IInv
<1>12. Life(c)'
  <2> HIDE DEF PvtLockFree
  <2> QED BY <1>3, <1>5, <1>6, <1>9, <1>11 DEF Life, PvtNow
<1>13. ~Unmade(c) BY <1>6 DEF Unmade
<1>14. \A d \in Calls : Life(d)' /\ (Unmade(d) => Unmade(d)')
  BY <1>10, <1>12, <1>13, OthersKept
<1>15. QuietPipe /\ \A d : Queued(d)' <=> Queued(d) BY <1>3 DEF QuietPipe, Queued
<1>16. Commands' BY <1>14, <1>15, CommandsKept
<1>17. Busy' BY <1>3, <1>4, <1>5, <1>6 DEF Busy, PvtNow
<1>18. \A d \in Calls : Kept(d) BY <1>3, <1>5, <1>15, StaysKept DEF PvtNow
<1>19. Follows BY <1>3, <1>18, NobodyMoves
<1> QED BY <1>7, <1>8, <1>14, <1>16, <1>17, <1>19 DEF IInv

\* A call's last callback returns: the stack lets go.
LEMMA CallOverStep ==
  ASSUME IInv, stack.at \in {"find", "try", "queue"}, CallOver, NEW c \in Calls, c = stack.call,
         pvt' \in [Calls -> Pvt], \A d \in Calls : d # c => pvt'[d] = pvt[d],
         pvt'[c].at = pvt[c].at, pvt'[c].token = pvt[c].token, pvt'[c].owner = pvt[c].owner,
         pvt'[c].gone = pvt[c].gone,
         \/ pvt'[c].destroy = pvt[c].destroy
         \/ /\ stack.at = "try" /\ pvt'[c].destroy
            /\ ~pvt[c].owner \/ pvt[c].gone,
         UNCHANGED <<dir, iflist, chan, pbx, pipe, batch, aligned, registered, monitor,
                     refused>>
  PROVE  IInv' /\ Follows
<1>1. call' = [call EXCEPT ![c] = "over"] /\ stack' = InLoop BY DEF CallOver
<1>2. unlocked' \in BOOLEAN /\ lost' \subseteq {"unlock", "process"}
  BY DEF CallOver, SyncUnLock, IInv, FlowOK
<1>3. /\ call' \in [Calls -> CallStates] /\ call'[c] = "over"
      /\ \A d \in Calls : d # c => call'[d] = call[d]
  BY <1>1 DEF IInv, CallsOK, CallStates
<1>4. call[c] \in {"live", "ending"} BY DEF IInv, Busy
<1>5. Life(c) BY DEF IInv
<1>6. pvt[c].token /\ pvt[c].at # "none" /\ (c \in refused \/ pvt[c].at = "listed")
  BY <1>4, <1>5 DEF Life
<1>7. ListOK'
  <2>1. \A d \in Calls : pvt'[d].at = pvt[d].at OBVIOUS
  <2> QED BY <2>1 DEF IInv, ListOK
<1>8. stack' \in StackStates BY <1>1 DEF StackStates
<1>9. FlowOK' /\ CallsOK' BY <1>2, <1>3, <1>8 DEF IInv, FlowOK, CallsOK
<1>10. \A d \in Calls : d # c => PvtLockFree(d) BY DEF PvtLockFree
<1>11. Apart(c) BY <1>3, <1>10 DEF Apart
<1>12. stack.at = "try" => PvtLockFree(c) BY DEF PvtLockFree
<1>13. Life(c)'
  <2> HIDE DEF PvtLockFree
  <2> QED BY <1>3, <1>4, <1>5, <1>12 DEF Life
<1>14. ~Unmade(c) /\ ~Queued(c)
  <2>1. ~Unmade(c) BY <1>4 DEF Unmade
  <2> QED BY <2>1 DEF IInv, Commands, Makes, Queued
<1>15. \A d \in Calls : Life(d)' /\ (Unmade(d) => Unmade(d)')
  BY <1>11, <1>13, <1>14, OthersKept
<1>16. QuietPipe /\ \A d : Queued(d)' <=> Queued(d) BY DEF QuietPipe, Queued
<1>17. Commands' BY <1>15, <1>16, CommandsKept
<1>18. Busy' BY <1>1 DEF Busy, InLoop
<1>19. \A d \in Calls : d # c => Kept(d) BY <1>11, <1>16, OthersHold
<1>20. Part(c, "stack") = "holds" /\ Part(c, "stack")' = "left"
  BY <1>3, <1>4, <1>6, <1>14, <1>16 DEF Part, StackPart
<1>21. Part(c, "channel")' = Part(c, "channel") BY DEF Part, ChannelPart
<1>22. Stage(c)' = Stage(c) /\ (Stage(c) = "listed" \/ c \in refused)
  BY <1>6 DEF Stage
<1>23. Follows BY <1>19, <1>20, <1>21, <1>22, Leaves DEF Sides
<1> QED BY <1>7, <1>9, <1>15, <1>17, <1>18, <1>23 DEF IInv

\* The ways in which a call's last callback returns.
LEMMA ClearedSteps ==
  ASSUME IInv,
         \/ NotFound /\ stack.cb = "onCallCleared"
         \/ HangupQueued \/ ClearedLast
  PROVE  IInv' /\ Follows
<1>1. /\ CallOver /\ stack.at \in {"find", "try", "queue"} /\ stack.at \in Steps
      /\ UNCHANGED <<dir, iflist, chan, pbx, pipe, batch, aligned, registered, monitor,
                     refused>>
  BY DEF NotFound, HangupQueued, ClearedLast, At, pbxVars, readerVars, Steps
<1>2. PICK c \in Calls : c = stack.call BY <1>1, StackStep DEF IInv, CallsOK
<1>3. CASE UNCHANGED pvt BY <1>1, <1>2, <1>3, CallOverStep DEF IInv, CallsOK
<1>4. CASE ClearedLast
  <2>1. /\ pvt' = [pvt EXCEPT ![c].destroy = TRUE] /\ stack.at = "try"
        /\ ~pvt[c].owner \/ pvt[c].gone
    BY <1>2, <1>4 DEF ClearedLast, At
  <2>2. PvtNow(c, pvt[c].at, pvt[c].token, pvt[c].owner, pvt[c].gone, TRUE)
    BY <2>1, PvtDestroy DEF IInv, CallsOK
  <2>3. /\ pvt' \in [Calls -> Pvt] /\ \A d \in Calls : d # c => pvt'[d] = pvt[d]
        /\ pvt'[c].at = pvt[c].at /\ pvt'[c].token = pvt[c].token
        /\ pvt'[c].owner = pvt[c].owner /\ pvt'[c].gone = pvt[c].gone
        /\ pvt'[c].destroy
    BY <2>2 DEF PvtNow
  <2> QED BY <1>1, <1>2, <2>1, <2>3, CallOverStep
<1> QED BY <1>3, <1>4 DEF NotFound, HangupQueued

-----------------------------------------------------------------------------
(* do_monitor                                                                 *)

\* A marked structure goes: both parties let go of it, or it was forfeited and one did.
LEMMA FreedStep ==
  ASSUME IInv, NEW c \in Calls, pvt[c].destroy, pvt[c].at \in {"listed", "unlinked"},
         PvtNow(c, "freed", pvt[c].token, FALSE, pvt[c].gone, pvt[c].destroy),
         ListOK', monitor' = monitor \/ monitor' = NoCall, monitor' # c,
         UNCHANGED <<dir, chan, pbx, pipe, refused, call, batch, aligned, unlocked,
                     registered, stack, lost>>,
         monitor = c \/ monitor = NoCall,
         pvt[c].owner => c \in refused
  PROVE  IInv' /\ Follows
<1>1. Life(c) BY DEF IInv
<1>2. FlowOK' /\ CallsOK' BY DEF IInv, FlowOK, CallsOK, PvtNow
<1>3. \A d \in Calls : d # NoCall BY NoCallAssumption
<1>4. Apart(c) BY <1>3 DEF Apart, PvtNow, PvtLockFree
<1>5. PvtLockFree(c)' <=> PvtLockFree(c) BY DEF PvtLockFree
<1>6. Life(c)'
  <2> HIDE DEF PvtLockFree
  <2> QED BY <1>1, <1>5 DEF Life, PvtNow
<1>7. Unmade(c) => Unmade(c)' BY <1>1 DEF Life, Unmade, PvtNow
<1>8. \A d \in Calls : Life(d)' /\ (Unmade(d) => Unmade(d)')
  BY <1>4, <1>6, <1>7, OthersKept
<1>9. QuietPipe /\ \A d : Queued(d)' <=> Queued(d) BY DEF QuietPipe, Queued
<1>10. Commands' BY <1>8, <1>9, CommandsKept
<1>11. Busy'
  <2>1. \A d \in Calls : pvt'[d].gone = pvt[d].gone BY DEF PvtNow
  <2>2. \A d \in Calls : pvt[d].at = "none" => pvt'[d].at = "none" BY DEF PvtNow
  <2> QED BY <2>1, <2>2, BusyKept
<1>12. \A d \in Calls : d # c => Kept(d) BY <1>4, <1>9, OthersHold
<1>13. \A g \in Sides : Part(c, g)' = Part(c, g)
  BY <1>9 DEF Part, ChannelPart, StackPart, PvtNow
<1>14. Stage(c) = "listed" /\ Stage(c)' = "freed" BY DEF Stage, PvtNow
<1>15. call[c] = "over" => Part(c, "stack") # "holds"
  <2>1. call[c] = "over" => ~Queued(c) BY DEF IInv, Commands, Unmade, Makes, Queued
  <2> QED BY <2>1 DEF Part, StackPart
<1>16. chan[c].at # "alive" => Part(c, "channel") # "holds" BY DEF Part, ChannelPart
<1>17. IF c \in refused THEN \E g \in Sides : Part(c, g) # "holds"
       ELSE \A g \in Sides : Part(c, g) # "holds"
  BY <1>1, <1>15, <1>16 DEF Life, Sides
<1>18. Follows BY <1>12, <1>13, <1>14, <1>17, Frees
<1> QED BY <1>2, <1>8, <1>10, <1>11, <1>18 DEF IInv

\* A structure without an owner is unlinked and freed.
LEMMA DestroyedStep ==
  ASSUME IInv, NEW c \in Calls, Destroy(c)
  PROVE  IInv' /\ Follows
<1>1. /\ monitor = NoCall /\ pvt[c].at = "listed" /\ pvt[c].destroy /\ ~pvt[c].owner
      /\ pvt' = [pvt EXCEPT ![c].at = "freed"]
      /\ Unlinked(c)
      /\ UNCHANGED <<dir, chan, pbx, pipe, refused, call, batch, aligned, unlocked,
                     registered, stack, lost, monitor>>
  BY DEF Destroy, IfLockFree, othersVars, stackVars
<1>2. PvtNow(c, "freed", pvt[c].token, pvt[c].owner, pvt[c].gone, pvt[c].destroy)
  BY <1>1, PvtIsFreed DEF IInv, CallsOK
<1>3. pvt[c].owner = FALSE BY <1>1 DEF IInv, CallsOK, Pvt
<1>4. ListOK'
  <2>1. pvt'[c].at # "listed" /\ \A d \in Calls : d # c => pvt'[d].at = pvt[d].at
    BY <1>2 DEF PvtNow
  <2> QED BY <1>1, <2>1, Unlinks
<1>5. monitor' # c BY <1>1, NoCallAssumption
<1>6. PvtNow(c, "freed", pvt[c].token, FALSE, pvt[c].gone, pvt[c].destroy)
  BY <1>2, <1>3
<1> QED BY <1>1, <1>4, <1>5, <1>6, FreedStep

\* do_monitor waits for the owner of a forfeited structure, with iflock.
LEMMA DestroySpinsStep ==
  ASSUME IInv, NEW c \in Calls, DestroySpins(c)
  PROVE  IInv' /\ Follows
<1>1. /\ monitor = NoCall /\ pvt[c].at = "listed" /\ pvt[c].destroy /\ pvt[c].owner
      /\ pvt' = [pvt EXCEPT ![c].at = "unlinked"]
      /\ Unlinked(c) /\ monitor' = c
      /\ UNCHANGED <<dir, chan, pbx, pipe, refused, call, batch, aligned, unlocked,
                     registered, stack, lost>>
  BY DEF DestroySpins, IfLockFree, othersVars, stackVars
<1>2. PvtNow(c, "unlinked", pvt[c].token, pvt[c].owner, pvt[c].gone, pvt[c].destroy)
  BY <1>1, PvtUnlinked DEF IInv, CallsOK
<1>3. ListOK'
  <2>1. pvt'[c].at # "listed" /\ \A d \in Calls : d # c => pvt'[d].at = pvt[d].at
    BY <1>2 DEF PvtNow
  <2> QED BY <1>1, <2>1, Unlinks
<1>4. Life(c) BY DEF IInv
<1>5. c \in refused BY <1>1, <1>4 DEF Life
<1>6. FlowOK' /\ CallsOK' BY <1>1, <1>2 DEF IInv, FlowOK, CallsOK, PvtNow
<1>7. Apart(c)
  <2>1. \A d \in Calls : d # NoCall BY NoCallAssumption
  <2> QED BY <1>1, <1>2, <2>1 DEF Apart, PvtNow, PvtLockFree
<1>8. PvtLockFree(c)' <=> PvtLockFree(c) BY <1>1 DEF PvtLockFree
<1>9. Life(c)'
  <2> HIDE DEF PvtLockFree
  <2> QED BY <1>1, <1>2, <1>4, <1>5, <1>8 DEF Life, PvtNow
<1>10. Unmade(c) => Unmade(c)' BY <1>1, <1>2, <1>5 DEF Unmade, PvtNow
<1>11. \A d \in Calls : Life(d)' /\ (Unmade(d) => Unmade(d)')
  BY <1>7, <1>9, <1>10, OthersKept
<1>12. QuietPipe /\ \A d : Queued(d)' <=> Queued(d) BY <1>1 DEF QuietPipe, Queued
<1>13. Commands' BY <1>11, <1>12, CommandsKept
<1>14. Busy'
  <2>1. \A d \in Calls : pvt'[d].gone = pvt[d].gone BY <1>2 DEF PvtNow
  <2>2. \A d \in Calls : pvt[d].at = "none" => pvt'[d].at = "none"
    BY <1>1, <1>2 DEF PvtNow
  <2> QED BY <1>1, <2>1, <2>2, BusyKept
<1>15. \A d \in Calls : d # c => Kept(d) BY <1>7, <1>12, OthersHold
<1>16. Kept(c) BY <1>1, <1>2, <1>12 DEF Kept, Stage, ChannelPart, StackPart, PvtNow
<1>17. Follows BY <1>1, <1>15, <1>16, NobodyMoves
<1> QED BY <1>3, <1>6, <1>11, <1>13, <1>14, <1>17 DEF IInv

\* The owner of a forfeited structure loses it.
LEMMA DestroyDoneStep ==
  ASSUME IInv, NEW c \in Calls, DestroyDone(c)
  PROVE  IInv' /\ Follows
<1>1. /\ monitor = c /\ pvt[c].owner
      /\ pvt' = [pvt EXCEPT ![c].at = "freed", ![c].owner = FALSE]
      /\ monitor' = NoCall
      /\ UNCHANGED <<dir, chan, pbx, pipe, refused, call, batch, aligned, unlocked,
                     registered, stack, lost, iflist>>
  BY DEF DestroyDone, othersVars, stackVars
<1>2. PvtNow(c, "freed", pvt[c].token, FALSE, pvt[c].gone, pvt[c].destroy)
  BY <1>1, PvtTaken DEF IInv, CallsOK
<1>3. pvt[c].at = "unlinked" /\ pvt[c].destroy /\ c \in refused
  BY <1>1 DEF IInv, Life
<1>4. ListOK'
  <2>1. \A d \in Calls : pvt'[d].at = "listed" <=> pvt[d].at = "listed"
    BY <1>2, <1>3 DEF PvtNow
  <2> QED BY <1>1, <2>1 DEF IInv, ListOK
<1>5. monitor' # c BY <1>1, NoCallAssumption
<1> QED BY <1>1, <1>2, <1>3, <1>4, <1>5, FreedStep

-----------------------------------------------------------------------------
\* Nothing exists at first.
LEMMA InitIInv == Init => IInv /\ Owners!Init
<1> SUFFICES ASSUME Init PROVE IInv /\ Owners!Init OBVIOUS
<1>1. pvt \in [Calls -> Pvt] BY DEF Init, NewPvt, Pvt
<1>2. chan \in [Calls -> Chan] BY DEF Init, Chan
<1>3. \A c \in Calls : /\ pvt[c].at = "none" /\ ~pvt[c].owner /\ ~pvt[c].destroy
                       /\ ~pvt[c].gone /\ ~pvt[c].token /\ call[c] = "none"
                       /\ chan[c].at = "none" /\ pbx[c] = "none"
  BY DEF Init, NewPvt
<1>4. /\ iflist = <<>> /\ pipe = <<>> /\ stack = InLoop /\ refused = {}
      /\ monitor = NoCall
  BY DEF Init
<1>5. ListOK
  <2>1. \A i \in DOMAIN iflist : FALSE BY <1>4
  <2>2. \A c \in Calls : pvt[c].at # "listed" BY <1>3
  <2> QED BY <1>4, <2>1, <2>2 DEF ListOK
<1>6. FlowOK
  <2>1. Len(pipe) = 0 /\ pipe \in Seq(Command) BY <1>4
  <2>2. 0 \in 0 .. Len(pipe) BY <2>1
  <2>3. TRUE \in BOOLEAN OBVIOUS
  <2>4. [left |-> 0, whole |-> TRUE] \in [left : 0 .. Len(pipe), whole : BOOLEAN]
    BY <2>2, <2>3, ZenonT(30)
  <2>5. batch = [left |-> 0, whole |-> TRUE] BY DEF Init
  <2>6. batch \in [left : 0 .. Len(pipe), whole : BOOLEAN] BY <2>4, <2>5
  <2>7. dir \in [Calls -> {"incoming", "outgoing"}] BY DEF Init
  <2>8. registered \in BOOLEAN BY GatekeeperAssumption DEF Init
  <2>9. aligned \in BOOLEAN /\ unlocked \in BOOLEAN /\ lost \subseteq {"unlock", "process"}
    BY DEF Init
  <2> QED BY <2>1, <2>6, <2>7, <2>8, <2>9 DEF FlowOK
<1>7. CallsOK
  <2>1. pbx \in [Calls -> Threads] /\ call \in [Calls -> CallStates]
    BY DEF Init, Threads, CallStates
  <2> QED BY <1>1, <1>2, <1>4, <2>1 DEF CallsOK, StackStates
<1>8. \A c \in Calls : Life(c) BY <1>3, <1>4, NoCallAssumption DEF Life
<1>9. Commands BY <1>4 DEF Commands
<1>10. Busy BY <1>4 DEF Busy, InLoop
<1>11. \A c \in Calls, h \in {"channel", "stack"} : Part(c, h) = "new"
  BY <1>3 DEF Part, ChannelPart, StackPart
<1>12. Owners!Init BY <1>3, <1>4, <1>11 DEF Owners!Init, Owners!Parties
<1> QED BY <1>5, <1>6, <1>7, <1>8, <1>9, <1>10, <1>12 DEF IInv

\* Every step keeps the invariant, and is one of Ownership or none.
LEMMA NextIInv == IInv /\ [Next]_vars => IInv' /\ Follows
<1> SUFFICES ASSUME IInv, [Next]_vars PROVE IInv' /\ Follows OBVIOUS
<1>1. CASE UNCHANGED vars
  <2>1. FlowOK' BY <1>1 DEF vars, IInv, FlowOK
  <2>2. Busy' BY <1>1, BusyKept DEF vars
  <2>3. QuietPipe BY <1>1 DEF vars, QuietPipe
  <2>4. \A d \in Calls : ~PvtLockFree(d) => ~PvtLockFree(d)' BY <1>1 DEF vars, PvtLockFree
  <2>5. /\ stack' \in StackStates /\ chan' \in [Calls -> Chan] /\ pbx' \in [Calls -> Threads]
    BY <1>1 DEF vars, IInv, CallsOK
  <2>6. UNCHANGED <<pvt, iflist, call, monitor, refused, chan, pbx>> BY <1>1 DEF vars
  <2> QED BY <2>1, <2>2, <2>3, <2>4, <2>5, <2>6, Quiet
<1>2. ASSUME NEW c \in Calls, PbxStep(c) PROVE IInv' /\ Follows
  <2>1. CASE Request(c) BY <2>1, RequestStep
  <2>2. CASE Dial(c) BY <2>2, DialStep
  <2>3. CASE Answer(c) \/ Wake(c) \/ Blocks(c) BY <2>3, ThreadStep
  <2>4. CASE Indicate(c) BY <2>4, IndicateStep
  <2>5. CASE MethodCrashes(c) BY <2>5, CrashStep DEF MethodCrashes
  <2>6. CASE Hangup(c) BY <2>6, HangupStep
  <2> QED BY <1>2, <2>1, <2>2, <2>3, <2>4, <2>5, <2>6 DEF PbxStep
<1>3. ASSUME NEW c \in Calls, DestroyStep(c) PROVE IInv' /\ Follows
  <2>1. CASE DestroyCrashes(c) BY <2>1, CrashStep DEF DestroyCrashes
  <2> QED BY <1>3, <2>1, DestroyedStep, DestroySpinsStep, DestroyDoneStep DEF DestroyStep
<1>4. CASE ReadAndProcess
  <2>1. CASE TakeGarbled
    <3>1. CASE Crash BY <3>1, CrashStep
    <3>2. CASE Take /\ lost' = lost \cup {"unlock"} /\ UNCHANGED <<call, unlocked, stack>>
      <4>1. lost' \subseteq {"unlock", "process"} BY <3>2 DEF IInv, FlowOK
      <4> QED BY <3>2, <4>1, DroppedStep
    <3> QED BY <2>1, <3>1, <3>2 DEF TakeGarbled
  <2>2. CASE Ignore
    <3>1. lost' \subseteq {"unlock", "process"} BY <2>2 DEF Ignore, IInv, FlowOK
    <3> QED BY <2>2, <3>1, DroppedStep DEF Ignore
  <2> QED BY <1>4, <2>1, <2>2, ReadCommandsStep, MakeCallStep, AnswerCallStep, HangCallStep
       DEF ReadAndProcess
<1>5. CASE CallbackStep
  <2>1. CASE CallbackCrashes BY <2>1, CrashStep DEF CallbackCrashes
  <2>2. CASE NotFound BY <2>2, CallbackSteps, ClearedSteps
  <2> QED BY <1>5, <2>1, <2>2, SetupAllocStep, CallbackSteps, MakeCallFailsStep,
             AlertIncomingStep, ClearedFirstStep, ClearedSteps
       DEF CallbackStep
<1>6. CASE LoopStep BY <1>6, RegistrationStep, SetupStep, EventStep DEF LoopStep
<1> QED BY <1>1, <1>2, <1>3, <1>4, <1>5, <1>6 DEF Next

\* The invariant holds throughout.
LEMMA IInvHolds == Spec => []IInv
<1>1. Init => IInv BY InitIInv
<1>2. IInv /\ [Next]_vars => IInv' BY NextIInv
<1> QED BY <1>1, <1>2, PTL DEF Spec

\* The driver's structures keep their types, and iflist holds those that are listed.
THEOREM TypeCorrect == Spec => []TypeOK
<1>1. IInv => TypeOK
  BY DEF IInv, ListOK, FlowOK, CallsOK, Threads, CallStates, TypeOK
<1> QED BY <1>1, IInvHolds, PTL

\* A callback works on a structure that is in the list, and stays there until it is
\* done, but for a channel that indicated busy or congestion (find_call,
\* ooh323_destroy).
THEOREM PvtSafeHolds == Spec => []PvtSafe
<1>1. IInv => PvtSafe
  <2> SUFFICES ASSUME IInv, stack.at \in {"find", "try", "retry", "queue"},
                      stack.call \notin refused
               PROVE  Listed(stack.call)
    BY DEF PvtSafe
  <2>1. stack.call \in Calls BY StackStep DEF IInv, CallsOK, Steps
  <2>2. call[stack.call] \in {"live", "ending"} BY DEF IInv, Busy
  <2> QED BY <2>1, <2>2 DEF IInv, Life, Listed
<1> QED BY <1>1, IInvHolds, PTL

\* A structure and its channel point to each other or not at all, and a structure that
\* was not forfeited is there while its channel is (ooh323_hangup, ooh323_indicate,
\* ooh323_new, ooh323_destroy).
THEOREM OwnersMatchHolds == Spec => []OwnersMatch
<1>1. IInv => OwnersMatch
  <2>1. IInv => \A c \in Calls : pvt[c].at \in {"none", "listed", "unlinked", "freed"}
    BY DEF IInv, CallsOK, Pvt
  <2> QED BY <2>1 DEF IInv, Life, OwnersMatch
<1> QED BY <1>1, IInvHolds, PTL

\* A structure is marked only after the stack and the channel both let go of it, or,
\* where the channel had indicated busy or congestion, one of them (onCallCleared,
\* ooh323_hangup).
THEOREM DestroyedLastHolds == Spec => []DestroyedLast
<1>1. IInv => DestroyedLast BY DEF IInv, Life, DestroyedLast
<1> QED BY <1>1, IInvHolds, PTL

\* The channel and the stack's call share a private structure as Ownership has it:
\* whoever comes finds the other there, and it is freed when the later one has gone, or
\* the first one if the channel forfeited it (ooh323_call, ooh323_indicate,
\* ooh323_hangup, onAlerting, onCallCleared, ooh323_destroy).
THEOREM FollowsOwnershipHolds == Spec => FollowsOwnership
<1>1. IInv /\ [Next]_vars => [Owners!Next]_(Owners!ownershipVars)
  BY NextIInv DEF Follows
<1>2. Init => Owners!Init BY InitIInv
<1> QED BY <1>1, <1>2, IInvHolds, PTL DEF Spec, FollowsOwnership, Owners!Spec

=============================================================================
