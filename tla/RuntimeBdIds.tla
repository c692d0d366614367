---------------------------- MODULE RuntimeBdIds ----------------------------
(***************************************************************************)
(* --aie-assign-runtime-sequence-bd-ids on one tile, next to the DMA whose *)
(* registers the compiled sequence writes. A runtime sequence configures   *)
(* tasks (chains of buffer descriptors, BDs), starts them on the channels  *)
(* of the tile, awaits completion tokens and frees tasks. The pass hands   *)
(* out BD ids, takes them back where it knows or is told that a task has   *)
(* finished, and guards the task queue of each channel.                    *)
(*                                                                         *)
(* The pass walks straight-line code, so what it does at an operation only *)
(* depends on the operations before it (and on the starts still to come,   *)
(* which a task is configured with here): each step of the host below does *)
(* both what the pass does at an operation and what the compiled operation *)
(* does on the array. An operation is chosen first (next), and executes    *)
(* once the polls and the token it waits for let it.                       *)
(***************************************************************************)
EXTENDS DmaQueueModel, FiniteSets

CONSTANTS
  Channels,           \* the channels of the tile, numbered
  NumIds,             \* BD ids of the tile, from 0
  StaticIds,          \* ids the static DMAs of the device took
  Parity,             \* a mem tile: even channels reach the low half of the ids
  Shapes,             \* what tasks may look like: channel, BDs, issue_token,
                      \* how often started, the id its first BD pins (or NoId)
  NoId,
  MaxTasks,           \* bound: tasks a sequence configures
  EnforceQueueDepth,  \* the pass's options
  ReclaimBds,
  DoubleReleases,     \* sequences may free or await a task they have freed
  Loads,              \* PDI loads a sequence may contain, one in a run:
                      \* "named", "opaque" when the device is not in the module
  LoadedIds,          \* ids the static DMAs of the named device take
  Needs               \* per shape: how many of the pushes issued after its own a
                      \* task needs, through a core or another tile, to complete

ASSUME BdAssumption ==
  /\ Channels \subseteq Nat /\ NumIds \in Nat \ {0}
  /\ StaticIds \subseteq 0..NumIds - 1 /\ LoadedIds \subseteq 0..NumIds - 1
  /\ Loads \subseteq {"named", "opaque"}
  /\ Shapes \subseteq [channel : Channels, bds : 1..NumIds, token : BOOLEAN,
                       starts : Nat, pin : 0..NumIds - 1 \cup {NoId}]

ASSUME NeedsAssumption == Needs \in [Shapes -> Nat]

\* Task_Queue_Size ranges over 0..FieldMax: its field has one bit more than
\* Depth - 1 needs, and does not count the task that runs.
FieldMax == 2 * Depth - 1

VARIABLES
  next,           \* the operation the host executes next
  \* the sequence so far
  shape,          \* the tasks configured, in program order
  left,           \* starts of a task still to come in the program
  \* verifyChannelUsage
  avail,          \* per channel: tokens no await has claimed
  model,          \* per channel: pushes it may still hold, unknownTokens
  \* the allocation
  assigned,       \* ids handed out on the tile
  ids,            \* the ids of each task
  pushes,         \* per channel: pushes whose tokens no await consumed
  finished,       \* how many of those a poll proved finished
  pushCount,
  knownComplete, pollProven, reclaimed, releasedTasks,
  awaitedConfigures, pendingAwaitReleases,
  freedInFlight,  \* per id: the task a free took it from (0: none)
  warned,         \* tasks some id of which was handed on with a warning
  loaded,         \* the latest load_pdi, or "none"
  unloaded,       \* tasks configured before it
  \* the array
  queue,          \* per channel: pushes it has not completed
  running,        \* the head of the queue has left it and runs
  tokens,         \* tokens produced and not consumed
  programmed,     \* per id: the task whose BD it describes (0: none)
  dropped         \* a push hit a full queue

program == <<shape, left>>
usage == <<avail, model>>
history == <<pushes, finished, pushCount, knownComplete, pollProven>>
loads == <<loaded, unloaded>>
pool == <<assigned, ids, reclaimed, releasedTasks, awaitedConfigures,
          pendingAwaitReleases, freedInFlight, warned, loads>>
array == <<queue, running, tokens, programmed, dropped>>
vars == <<next, program, usage, history, pool, array>>

Tasks == DOMAIN shape

Idle == [op |-> "idle"]
Refused == [op |-> "refused"]

-----------------------------------------------------------------------------
(* The array. A channel takes the head of its queue, runs it and, where the  *)
(* push asks for one, produces a token.                                      *)

Waiting(c) == Len(queue[c]) - (IF running[c] THEN 1 ELSE 0)

Run(c) ==
  /\ queue[c] # <<>> /\ ~running[c]
  /\ running' = [running EXCEPT ![c] = TRUE]
  /\ UNCHANGED <<next, program, usage, history, pool,
                 queue, tokens, programmed, dropped>>

Complete(c) ==
  /\ running[c]
  /\ queue' = [queue EXCEPT ![c] = Tail(@)]
  /\ running' = [running EXCEPT ![c] = FALSE]
  /\ tokens' = [tokens EXCEPT ![c] = IF queue[c][1].token THEN @ + 1 ELSE @]
  /\ UNCHANGED <<next, program, usage, history, pool, programmed, dropped>>

-----------------------------------------------------------------------------
(* What the allocation knows of the pushes. *)

\* The tasks among the first n pushes of a channel none of whose pushes come
\* after those.
Through(s, n) ==
  {s[i].task : i \in 1..n} \ {s[i].task : i \in n + 1..Len(s)}

\* Fault: a token is taken to retire all that was pushed.
RetiredAll(c) == Len(pushes[c])

\* The pushes a token of the channel retires: the oldest that issues one and
\* those ahead of it.
Retired(c) ==
  LET issuing == {i \in DOMAIN pushes[c] : pushes[c][i].token}
  IN IF issuing = {} THEN 0 ELSE Min(issuing)

\* Fault: pushes an await retires are counted out though no poll counted them.
StillFinishedUnclamped(c, n) == finished[c] - n

StillFinished(c, n) == Max({0, finished[c] - n})

CompleteAfter(c) == knownComplete \cup Through(pushes[c], Retired(c))

NoteAwaited(c) ==
  LET n == Retired(c)
  IN /\ pushes' = [pushes EXCEPT ![c] = SubSeq(@, n + 1, Len(@))]
     /\ finished' = [finished EXCEPT ![c] = StillFinished(c, n)]
     /\ knownComplete' = CompleteAfter(c)
     /\ UNCHANGED <<pushCount, pollProven>>

\* At most `unfinished` pushes of the channel are queued or running.
Done(c, unfinished) == Max({finished[c], Len(pushes[c]) - unfinished})

ProvenBy(c, unfinished) ==
  {t \in Through(pushes[c], Done(c, unfinished)) :
     \E i \in finished[c] + 1..Done(c, unfinished) : pushes[c][i].task = t}

-----------------------------------------------------------------------------
(* Ids go back to the pool. *)

\* Fault: a redundant release of a task whose ids went back is not recognised.
RedundantNever(t) == FALSE

\* A release of a task that an await, a reclaim or a load has released before.
Redundant(t) == t \in awaitedConfigures \cup reclaimed \cup unloaded

Held(t) == ids[t] \subseteq assigned

\* The channel whose next token the operation waits for.
TokenChannel ==
  IF next.op = "await" THEN shape[next.task].channel ELSE next.channel

\* The tasks an await has named whose ids have not gone back.
Due ==
  pendingAwaitReleases \cup IF next.op = "await" THEN {next.task} ELSE {}

\* Those that are complete once the token is consumed; a task that is started
\* again keeps its ids.
Recyclable == {t \in Due : t \in CompleteAfter(TokenChannel) /\ left[t] = 0}

Giving == {t \in Recyclable : ~Redundant(t)}

Recycle ==
  /\ \A t \in Giving : Held(t)
  /\ assigned' = assigned \ UNION {ids[t] : t \in Giving}
  /\ releasedTasks' = releasedTasks \cup Giving
  /\ awaitedConfigures' = awaitedConfigures \cup Giving
  /\ pendingAwaitReleases' = Due \ Recyclable
  /\ UNCHANGED <<ids, reclaimed, freedInFlight, warned, loads>>

\* The channel's next token is consumed, whichever task it is of.
TakeToken(c) ==
  /\ tokens[c] > 0
  /\ tokens' = [tokens EXCEPT ![c] = @ - 1]
  /\ avail' = [avail EXCEPT ![c] = Max({0, @ - 1})]
  /\ model' = [model EXCEPT ![c] = AwaitModel(@)]
  /\ NoteAwaited(c)
  /\ UNCHANGED <<program, queue, running, programmed, dropped>>

\* dma_await_task names a task whose release is due.
Await == next.op = "await" /\ TakeToken(TokenChannel) /\ Recycle /\ next' = Idle

\* A raw aiex.npu.sync names none.
Sync == next.op = "sync" /\ TakeToken(TokenChannel) /\ Recycle /\ next' = Idle

NoteFreed(t) ==
  IF \E i \in DOMAIN pushes[shape[t].channel] :
       pushes[shape[t].channel][i].task = t
  THEN [id \in DOMAIN freedInFlight |->
          IF id \in ids[t] THEN t ELSE freedInFlight[id]]
  ELSE freedInFlight

Free ==
  /\ next.op = "free"
  /\ LET t == next.task
     IN /\ pendingAwaitReleases' = pendingAwaitReleases \ {t}
        /\ \/ /\ Redundant(t)
              /\ UNCHANGED <<assigned, releasedTasks, freedInFlight>>
           \/ /\ ~Redundant(t) /\ Held(t)
              /\ assigned' = assigned \ ids[t]
              /\ releasedTasks' = releasedTasks \cup {t}
              /\ freedInFlight' = NoteFreed(t)
  /\ next' = Idle
  /\ UNCHANGED <<program, usage, history, array,
                 ids, reclaimed, awaitedConfigures, warned, loads>>

-----------------------------------------------------------------------------
(* A push on the channel's queue: dma_start_task. *)

\* A maskpoll on the status register waits until a slot is free.
Polls(c) == EnforceQueueDepth /\ WouldOverflow(model[c])

Start ==
  /\ next.op = "start"
  /\ LET t == next.task
         c == shape[t].channel
         entry == [task |-> t, token |-> next.token, order |-> pushCount]
     IN /\ Polls(c) => Waiting(c) < Depth
        /\ model' = [model EXCEPT ![c] =
             PushModel(IF Polls(c) THEN SpaceModel(@) ELSE @, next.token)]
        /\ avail' = [avail EXCEPT ![c] = IF next.token THEN @ + 1 ELSE @]
        /\ pushes' = [pushes EXCEPT ![c] = Append(@, entry)]
        /\ finished' = [finished EXCEPT ![c] = IF Polls(c) THEN Done(c, Depth) ELSE @]
        /\ knownComplete' = knownComplete \ {t}
        /\ pollProven' =
             (pollProven \cup IF Polls(c) THEN ProvenBy(c, Depth) ELSE {}) \ {t}
        /\ pushCount' = pushCount + 1
        /\ left' = [left EXCEPT ![t] = @ - 1]
        /\ queue' = IF Waiting(c) < Depth
                    THEN [queue EXCEPT ![c] = Append(@, [task |-> t, token |-> next.token])]
                    ELSE queue
        /\ dropped' = (dropped \/ Waiting(c) >= Depth)
  /\ next' = Idle
  /\ UNCHANGED <<shape, pool, running, tokens, programmed>>

-----------------------------------------------------------------------------
(* dma_configure_task takes an id for each BD of the chain. *)

Accessible(id, c) ==
  Parity => ((id < NumIds \div 2) <=> (c % 2 = 0))

Available(c) ==
  {id \in 0..NumIds - 1 : id \notin assigned /\ Accessible(id, c)}

Pinned(t) == shape[t].pin # NoId /\ ids[t] = {}

\* checkReallocation: the id was freed while its task could be running, and
\* nothing has shown since that the task is complete.
Unsafe(id) ==
  freedInFlight[id] # 0 /\ freedInFlight[id] \notin knownComplete \cup pollProven

\* Once the last BD has its id the configure writes the BDs of the chain.
TakeId ==
  /\ next.op = "configure"
  /\ LET t == next.task
     IN \E id \in 0..NumIds - 1 :
          /\ Pinned(t) \/ loaded # "opaque"
          /\ \/ Pinned(t) /\ id = shape[t].pin
             \/ /\ ~Pinned(t)
                /\ id \in Available(shape[t].channel)
                /\ \A other \in Available(shape[t].channel) : id <= other
          /\ assigned' = assigned \cup {id}
          /\ ids' = [ids EXCEPT ![t] = @ \cup {id}]
          /\ warned' = warned \cup IF Unsafe(id) THEN {freedInFlight[id]} ELSE {}
          /\ freedInFlight' = [freedInFlight EXCEPT ![id] = 0]
          /\ IF Cardinality(ids'[t]) = shape[t].bds
             THEN /\ programmed' = [i \in DOMAIN programmed |->
                                      IF i \in ids'[t] THEN t ELSE programmed[i]]
                  /\ next' = Idle
             ELSE UNCHANGED <<programmed, next>>
  /\ UNCHANGED <<program, usage, history, reclaimed, releasedTasks,
                 awaitedConfigures, pendingAwaitReleases, loads,
                 queue, running, tokens, dropped>>

-----------------------------------------------------------------------------
(* reclaimFor takes the ids of a task that was never released.             *)

OutOfIds ==
  /\ next.op = "configure" /\ ~Pinned(next.task) /\ loaded # "opaque"
  /\ Available(shape[next.task].channel) = {}

Candidate(t) ==
  /\ t \notin releasedTasks \cup unloaded /\ left[t] = 0
  /\ \E id \in ids[t] : Accessible(id, shape[next.task].channel)

Proven == {t \in Tasks : Candidate(t) /\ t \in knownComplete \cup pollProven}

PushesOf(t) ==
  {i \in DOMAIN pushes[shape[t].channel] :
     pushes[shape[t].channel][i].task = t}

Behind(t) == Len(pushes[shape[t].channel]) - Max(PushesOf(t))

\* Fault: a task with nothing queued behind it is not waited for.
VictimsBehind ==
  {t \in Tasks : /\ Candidate(t) /\ PushesOf(t) # {} /\ Behind(t) > 0
                 /\ Max(PushesOf(t)) > finished[shape[t].channel]}

\* The last push of the task is not known to have finished.
Victims ==
  {t \in Tasks : /\ Candidate(t) /\ PushesOf(t) # {}
                 /\ Max(PushesOf(t)) > finished[shape[t].channel]}

Oldest(t) == pushes[shape[t].channel][Max(PushesOf(t))].order

\* Tasks with pushes queued behind them come first, then the oldest.
Victim(t) ==
  /\ t \in Victims
  /\ \A other \in Victims \ {t} :
       \/ Behind(t) > 0 /\ Behind(other) = 0
       \/ (Behind(t) > 0 <=> Behind(other) > 0) /\ Oldest(t) < Oldest(other)

\* The most tasks the poll leaves waiting: the largest 2^k - 1 below `behind`
\* that the field can tell.
PollBound(behind) ==
  Max({b \in {0, 1, 3, 7} : b < behind /\ b <= FieldMax \div 2})

TakeBack(t) ==
  /\ assigned' = assigned \ ids[t]
  /\ reclaimed' = reclaimed \cup {t}
  /\ releasedTasks' = releasedTasks \cup {t}
  /\ pendingAwaitReleases' = pendingAwaitReleases \ {t}
  /\ UNCHANGED <<next, program, usage, array,
                 ids, awaitedConfigures, freedInFlight, warned, loads>>

ReclaimProven ==
  /\ OutOfIds /\ ReclaimBds
  /\ \E t \in Proven : (\A other \in Proven : t <= other) /\ TakeBack(t)
  /\ UNCHANGED history

\* Behind a poll until the victim has pushes enough behind it, or its channel
\* is idle.
ReclaimPolled ==
  /\ OutOfIds /\ ReclaimBds /\ Proven = {}
  /\ \E t \in Victims :
       LET c == shape[t].channel
           unfinished == IF Behind(t) = 0 THEN 0 ELSE PollBound(Behind(t)) + 1
       IN /\ Victim(t)
          /\ IF Behind(t) = 0 THEN queue[c] = <<>>
                              ELSE Waiting(c) <= PollBound(Behind(t))
          /\ TakeBack(t)
          /\ finished' = [finished EXCEPT ![c] = Done(c, unfinished)]
          /\ pollProven' = pollProven \cup ProvenBy(c, unfinished)
          /\ UNCHANGED <<pushes, pushCount, knownComplete>>

-----------------------------------------------------------------------------
(* aiex.npu.load_pdi reconfigures the array. *)

\* The ids static DMAs hold: the device's, and those of the device it loaded.
Static == StaticIds \cup IF loaded = "named" THEN LoadedIds ELSE {}

\* Fault: the ids of the loaded device are not set aside.
LoadUnseeded ==
  /\ next.op = "load"
  /\ loaded' = next.pdi
  /\ unloaded' = Tasks
  /\ assigned' = StaticIds
  /\ pendingAwaitReleases' = {}
  /\ freedInFlight' = [id \in DOMAIN freedInFlight |-> 0]
  /\ queue' = [c \in Channels |-> <<>>]
  /\ running' = [c \in Channels |-> FALSE]
  /\ tokens' \in {tokens, [c \in Channels |-> 0]}
  /\ programmed' = [id \in DOMAIN programmed |-> 0]
  /\ next' = Idle
  /\ UNCHANGED <<program, usage, history, ids, reclaimed, releasedTasks,
                 awaitedConfigures, warned, dropped>>

\* Allocation starts over around the new static BDs; what is known of pushes
\* and tokens is kept. On the array nothing is left of what was queued; a token
\* nobody consumed may be lost or not.
Load ==
  /\ next.op = "load"
  /\ loaded' = next.pdi
  /\ unloaded' = Tasks
  /\ assigned' = Static'
  /\ pendingAwaitReleases' = {}
  /\ freedInFlight' = [id \in DOMAIN freedInFlight |-> 0]
  /\ queue' = [c \in Channels |-> <<>>]
  /\ running' = [c \in Channels |-> FALSE]
  /\ tokens' \in {tokens, [c \in Channels |-> 0]}
  /\ programmed' = [id \in DOMAIN programmed |-> 0]
  /\ next' = Idle
  /\ UNCHANGED <<program, usage, history, ids, reclaimed, releasedTasks,
                 awaitedConfigures, warned, dropped>>

-----------------------------------------------------------------------------
(* The sequence goes on with an operation the pass does not reject out of   *)
(* hand.                                                                    *)

ChooseConfigure ==
  /\ Len(shape) < MaxTasks
  /\ \E s \in Shapes :
       /\ s.pin # NoId => s.pin \notin assigned /\ Accessible(s.pin, s.channel)
       /\ shape' = Append(shape, s)
       /\ left' = Append(left, s.starts)
  /\ ids' = Append(ids, {})
  /\ next' = [op |-> "configure", task |-> Len(shape')]
  /\ UNCHANGED <<usage, history, assigned, reclaimed, releasedTasks,
                 awaitedConfigures, pendingAwaitReleases, freedInFlight,
                 warned, loads, array>>

\* A start may drop its task's token (no_token); a task that was released, or
\* configured before a load, cannot be started.
ChooseStart ==
  \E t \in Tasks, token \in BOOLEAN :
    /\ left[t] > 0 /\ t \notin releasedTasks \cup unloaded
    /\ token => shape[t].token
    /\ next' = [op |-> "start", task |-> t, token |-> token]

FreedByHand(t) == t \in releasedTasks /\ ~Redundant(t)

\* Fault: an await is let through whatever tokens are due.
TokenDueAlways(c) == TRUE

TokenDue(c) == avail[c] > 0

ChooseAwait ==
  \E t \in Tasks :
    /\ shape[t].token /\ TokenDue(shape[t].channel)
    /\ FreedByHand(t) => DoubleReleases
    /\ next' = [op |-> "await", task |-> t]

\* Bound: a raw sync waits for a token of this sequence.
ChooseSync ==
  \E c \in Channels : avail[c] > 0 /\ next' = [op |-> "sync", channel |-> c]

ChooseFree ==
  \E t \in Tasks :
    /\ left[t] = 0
    /\ FreedByHand(t) => DoubleReleases
    /\ next' = [op |-> "free", task |-> t]

ChooseLoad ==
  \E pdi \in Loads : loaded = "none" /\ next' = [op |-> "load", pdi |-> pdi]

Choose ==
  /\ next = Idle
  /\ \/ ChooseConfigure
     \/ /\ ChooseStart \/ ChooseAwait \/ ChooseSync \/ ChooseFree \/ ChooseLoad
        /\ UNCHANGED <<program, usage, history, pool, array>>

\* The sequence does not compile: too many BDs are active, nobody knows which
\* ids an opaque load has taken, or a release hits ids that are not in use.
Refuse ==
  /\ \/ next.op = "configure" /\ ~Pinned(next.task) /\ loaded = "opaque"
     \/ OutOfIds /\ (ReclaimBds => Proven \cup Victims = {})
     \/ next.op = "free" /\ ~Redundant(next.task) /\ ~Held(next.task)
     \/ next.op \in {"await", "sync"} /\ \E t \in Giving : ~Held(t)
  /\ next' = Refused
  /\ UNCHANGED <<program, usage, history, pool, array>>

-----------------------------------------------------------------------------
Init ==
  /\ next = Idle
  /\ shape = <<>> /\ left = <<>> /\ ids = <<>>
  /\ avail = [c \in Channels |-> 0]
  /\ model = [c \in Channels |-> Empty]
  /\ assigned = StaticIds
  /\ pushes = [c \in Channels |-> <<>>]
  /\ finished = [c \in Channels |-> 0]
  /\ pushCount = 0
  /\ knownComplete = {} /\ pollProven = {}
  /\ reclaimed = {} /\ releasedTasks = {}
  /\ awaitedConfigures = {} /\ pendingAwaitReleases = {}
  /\ freedInFlight = [id \in 0..NumIds - 1 |-> 0]
  /\ warned = {}
  /\ loaded = "none" /\ unloaded = {}
  /\ queue = [c \in Channels |-> <<>>]
  /\ running = [c \in Channels |-> FALSE]
  /\ tokens = [c \in Channels |-> 0]
  /\ programmed = [id \in 0..NumIds - 1 |-> 0]
  /\ dropped = FALSE

Execute ==
  \/ Start \/ Await \/ Sync \/ Free \/ Load
  \/ TakeId \/ ReclaimProven \/ ReclaimPolled \/ Refuse

Next == Choose \/ Execute \/ \E c \in Channels : Run(c) \/ Complete(c)

Spec == Init /\ [][Next]_vars

\* The head of the queue needs a push that was not issued yet. (The pushes the
\* channel still has are the latest of those no token has retired.)
HeldUp(c) ==
  /\ queue[c] # <<>>
  /\ LET head == pushes[c][Len(pushes[c]) - Len(queue[c]) + 1]
     IN pushCount - 1 - head.order < Needs[shape[head.task]]

\* The controller goes through the instruction stream, and a channel works
\* off its queue, up to a task that needs a push still to come.
FairSpec ==
  /\ Spec
  /\ WF_vars(Execute)
  /\ \A c \in Channels :
       WF_vars(Run(c)) /\ WF_vars(~HeldUp(c) /\ Complete(c))

-----------------------------------------------------------------------------
TypeOK ==
  /\ shape \in Seq(Shapes)
  /\ left \in Seq(Nat) /\ ids \in Seq(SUBSET (0..NumIds - 1))
  /\ Len(left) = Len(shape) /\ Len(ids) = Len(shape)
  /\ next \in {Idle, Refused}
       \cup [op : {"configure", "await", "free"}, task : Tasks]
       \cup [op : {"start"}, task : Tasks, token : BOOLEAN]
       \cup [op : {"sync"}, channel : Channels]
       \cup [op : {"load"}, pdi : Loads]
  /\ avail \in [Channels -> Nat]
  /\ model \in [Channels -> [pushes : Seq(BOOLEAN), unknownTokens : BOOLEAN]]
  /\ assigned \subseteq 0..NumIds - 1
  /\ pushes \in [Channels -> Seq([task : Tasks, token : BOOLEAN, order : Nat])]
  /\ finished \in [Channels -> Nat] /\ pushCount \in Nat
  /\ knownComplete \subseteq Tasks /\ pollProven \subseteq Tasks
  /\ reclaimed \subseteq Tasks /\ releasedTasks \subseteq Tasks
  /\ awaitedConfigures \subseteq Tasks /\ pendingAwaitReleases \subseteq Tasks
  /\ warned \subseteq Tasks /\ unloaded \subseteq Tasks
  /\ loaded \in Loads \cup {"none"}
  /\ freedInFlight \in [0..NumIds - 1 -> Tasks \cup {0}]
  /\ queue \in [Channels -> Seq([task : Tasks, token : BOOLEAN])]
  /\ running \in [Channels -> BOOLEAN] /\ tokens \in [Channels -> Nat]
  /\ programmed \in [0..NumIds - 1 -> Tasks \cup {0}]
  /\ dropped \in BOOLEAN

InFlight(t) == \E c \in Channels : \E i \in DOMAIN queue[c] : queue[c][i].task = t

\* The BDs of a task that is queued or runs describe this task: no id of it
\* is handed on underneath, unless a free gave it away and the pass has warned.
\* The static BDs of the device, and of the device a PDI load has brought in,
\* are nobody's task.
BdsIntact ==
  /\ \A t \in Tasks \ warned :
       InFlight(t) => \A id \in ids[t] : programmed[id] = t
  /\ \A id \in Static : programmed[id] = 0

\* What an await or a poll is taken to prove has happened.
ProvenIsFinished == \A t \in knownComplete \cup pollProven : ~InFlight(t)

\* With the queue depth enforced no push hits a full queue.
NoPushDropped == EnforceQueueDepth => ~dropped

\* A task keeps its ids until a release of its own or a PDI load: no release
\* of another task takes them away.
OwnersKeepIds ==
  \A t \in Tasks \ (releasedTasks \cup unloaded) : ids[t] \subseteq assigned

\* Where the pass may reclaim ids it only gives up when every task that holds
\* one the channel can use is not started yet or is started again later.
GivesUpOnlyWhenStuck ==
  next.op = "configure" /\ ReclaimBds /\ OutOfIds
    /\ Proven \cup Victims = {} =>
  \A t \in Tasks \ (releasedTasks \cup unloaded) :
    (\E id \in ids[t] : Accessible(id, shape[next.task].channel)) =>
      left[t] > 0 \/ t = next.task \/ shape[t].starts = 0

\* The channel whose queue or token the operation waits for: that of a push, of
\* an await, or of the task whose ids a configure is to take back.
WaitsOn(c) ==
  \/ next.op = "start" /\ shape[next.task].channel = c
  \/ next.op \in {"await", "sync"} /\ TokenChannel = c
  \/ /\ OutOfIds /\ ReclaimBds /\ Proven = {}
     /\ \E t \in Victims : Victim(t) /\ shape[t].channel = c

\* Each operation gets through, awaits find their token and polls come true,
\* unless what it waits for needs a push issued after it ("The poll never returns
\* if that task's inputs come from a later push through a core"). A load may lose
\* a token the pass still counts on, so this is said up to a load.
OperationsReturn ==
  \/ []<>(next \in {Idle, Refused} \/ loaded # "none")
  \/ <>[](\E c \in Channels : WaitsOn(c) /\ HeldUp(c))
=============================================================================
