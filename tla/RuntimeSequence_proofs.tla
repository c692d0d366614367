----------------------- MODULE RuntimeSequence_proofs -----------------------
(***************************************************************************)
(* Runtime sequences, for every depth of the task queues. Both parts rest  *)
(* on what the queue model promises of a channel (Models), which a push,   *)
(* an await and a poll keep.                                               *)
(*                                                                         *)
(* RuntimeBdIds: a task keeps its BD ids until a release of its own,       *)
(* whatever the tile, the shapes of the tasks and the length of the        *)
(* sequence, while no program frees a task twice: what an await, a free or *)
(* a reclaim gives back is of a task nobody has released (DueOnce), no two *)
(* such tasks share an id (IdsApart), and an id that is handed out is      *)
(* nobody's (PinIsFree).                                                   *)
(*                                                                         *)
(* RuntimeQueueGuard: whatever the flow of control, the queue is at each   *)
(* place in one of the states the analysis has there (Followed), or in a   *)
(* region it does not follow, where every push waits for a free slot.      *)
(***************************************************************************)
EXTENDS RuntimeBdIdsInv, RuntimeQueueGuard, FiniteSetTheorems, SequenceTheorems,
        WellFoundedInduction, TLAPS

-----------------------------------------------------------------------------
(* Sequences, smallest and largest elements.                               *)

LEMMA MinIsLeast ==
  ASSUME NEW S \in SUBSET Nat, S # {}
  PROVE  Min(S) \in S /\ \A y \in S : Min(S) <= y
<1> DEFINE R == OpToRel(<, Nat)
<1>1. IsWellFoundedOn(R, Nat)
  BY NatLessThanWellFounded, Zenon
<1>2. R = {ss \in Nat \X Nat : ss[1] < ss[2]}
  BY Zenon DEF OpToRel
<1> HIDE DEF R
<1>3. PICK x \in S : \A y \in S : <<y, x>> \notin R
  BY <1>1, WFMin, Zenon
<1>4. ASSUME NEW y \in S, y < x  PROVE FALSE
  <2>1. <<y, x>> \in Nat \X Nat /\ <<y, x>>[1] < <<y, x>>[2]
    BY <1>4
  <2>2. <<y, x>> \in R
    BY <1>2, <2>1, Zenon
  <2> QED
    BY <1>3, <2>2
<1>5. \A y \in S : x <= y
  BY <1>4
<1> QED
  BY <1>5 DEF Min

LEMMA MaxOfBounded ==
  ASSUME NEW n \in Nat, NEW S \in SUBSET (0..n), S # {}
  PROVE  Max(S) \in S /\ \A y \in S : Max(S) >= y
<1> DEFINE D == {n - i : i \in S}
<1>1. D \in SUBSET Nat /\ D # {}
  <2>1. \A i \in S : n - i \in Nat
    OBVIOUS
  <2> QED
    BY <2>1
<1>2. Min(D) \in D /\ \A y \in D : Min(D) <= y
  BY <1>1, MinIsLeast
<1>3. PICK x \in S : Min(D) = n - x
  BY <1>2
<1>4. \A y \in S : x >= y
  <2>1. \A y \in S : n - x <= n - y
    BY <1>2, <1>3
  <2> QED
    BY <2>1
<1> QED
  BY <1>4 DEF Max

LEMMA MaxIsGreatest ==
  ASSUME NEW n \in Nat, NEW S \in SUBSET (1..n), S # {}
  PROVE  Max(S) \in S /\ \A y \in S : Max(S) >= y
<1>1. S \in SUBSET (0..n)
  OBVIOUS
<1> QED
  BY <1>1, MaxOfBounded

LEMMA MaxOfTwo ==
  ASSUME NEW a \in Int, NEW b \in Int
  PROVE  Max({a, b}) = IF a >= b THEN a ELSE b
  BY DEF Max

LEMMA MaxWithZero ==
  ASSUME NEW b \in Int
  PROVE  Max({0, b}) \in Nat /\ Max({0, b}) = IF b >= 0 THEN b ELSE 0
  BY DEF Max

\* The Boolean sequences SpaceModel builds.
LEMMA BooleanSeq ==
  ASSUME NEW n \in Nat, NEW f, f \in [1..n -> BOOLEAN]
  PROVE  f \in Seq(BOOLEAN)
  BY SeqDef

LEMMA SubSeqTyped ==
  ASSUME NEW S, NEW s \in Seq(S), NEW n \in 0..Len(s)
  PROVE  /\ SubSeq(s, n + 1, Len(s)) \in Seq(S)
         /\ Len(SubSeq(s, n + 1, Len(s))) = Len(s) - n
         /\ \A j \in 1..Len(s) - n : SubSeq(s, n + 1, Len(s))[j] = s[n + j]
<1> DEFINE l == Len(s)
           a == SubSeq(s, n + 1, l)
<1>1. l \in Nat /\ n \in 0..l /\ \A i \in n + 1..l : s[i] \in S
  BY ElementOfSeq, LenProperties
<1>2. /\ a \in Seq(S) /\ Len(a) = IF n + 1 <= l THEN l - (n + 1) + 1 ELSE 0
      /\ \A i \in 1..l - (n + 1) + 1 : a[i] = s[n + 1 + i - 1]
  <2> HIDE DEF l
  <2> QED
    BY <1>1, SubSeqProperties
<1> HIDE DEF a, l
<1>3. Len(a) = l - n /\ l - (n + 1) + 1 = l - n
  BY <1>1, <1>2
<1>4. \A i \in 1..l - n : n + 1 + i - 1 = n + i
  BY <1>1
<1> QED
  BY <1>2, <1>3, <1>4 DEF a, l

-----------------------------------------------------------------------------
(* What the queue model returns.                                           *)

QueueModels == [pushes : Seq(BOOLEAN), unknownTokens : BOOLEAN]

LEMMA ModelTyped ==
  ASSUME NEW m \in QueueModels
  PROVE  /\ \A token \in BOOLEAN : PushModel(m, token) \in QueueModels
         /\ AwaitModel(m) \in QueueModels
         /\ SpaceModel(m) \in QueueModels
<1> DEFINE n == Len(m.pushes)
           issuing == {i \in DOMAIN m.pushes : m.pushes[i]}
           over == n - (Depth - 1)
<1>1. m.pushes \in Seq(BOOLEAN) /\ n \in Nat /\ DOMAIN m.pushes = 1..n
  BY LenProperties DEF QueueModels
<1>2. \A token \in BOOLEAN : PushModel(m, token) \in QueueModels
  BY <1>1, AppendProperties DEF PushModel, QueueModels
<1>3. AwaitModel(m) \in QueueModels
  <2>1. CASE m.unknownTokens \/ issuing = {}
    BY <2>1 DEF AwaitModel
  <2>2. CASE ~(m.unknownTokens \/ issuing = {})
    <3>1. issuing \in SUBSET Nat /\ issuing \subseteq 1..n
      BY <1>1
    <3>2. Min(issuing) \in 0..n
      <4>1. Min(issuing) \in issuing
        BY <2>2, <3>1, MinIsLeast
      <4> QED
        BY <3>1, <4>1, <1>1
    <3>3. SubSeq(m.pushes, Min(issuing) + 1, n) \in Seq(BOOLEAN)
      BY <1>1, <3>2, SubSeqTyped
    <3> QED
      BY <2>2, <3>3 DEF AwaitModel, QueueModels
  <2> QED
    BY <2>1, <2>2
<1>4. SpaceModel(m) \in QueueModels
  <2>1. CASE over <= 0
    BY <2>1 DEF SpaceModel
  <2>2. CASE ~(over <= 0)
    <3> DEFINE kept == SubSeq(m.pushes, over + 1, n)
               lost == m.unknownTokens \/ \E i \in 1..over : m.pushes[i]
    <3>1. over \in 0..n
      BY <1>1, <2>2, DepthAssumption
    <3>2. kept \in Seq(BOOLEAN)
      BY <1>1, <3>1, SubSeqTyped
    <3>3. DOMAIN kept = 1..Len(kept) /\ Len(kept) \in Nat
      BY <3>2, LenProperties
    <3>4. [i \in DOMAIN kept |-> kept[i] /\ ~lost] \in Seq(BOOLEAN)
      <4> HIDE DEF kept, lost
      <4> QED
        BY <3>3, BooleanSeq
    <3>5. lost \in BOOLEAN
      OBVIOUS
    <3>6. SpaceModel(m) = [pushes |-> [i \in DOMAIN kept |-> kept[i] /\ ~lost],
                           unknownTokens |-> lost]
      BY <2>2, Zenon DEF SpaceModel
    <3> HIDE DEF kept, lost
    <3> QED
      BY <3>4, <3>5, <3>6 DEF QueueModels
  <2> QED
    BY <2>1, <2>2
<1> QED
  BY <1>2, <1>3, <1>4

-----------------------------------------------------------------------------
(* What the types say of the operation at hand and of the pushes.          *)

LEMMA NextTyped ==
  ASSUME TypeOK
  PROVE  /\ next.op \in {"configure", "await", "free", "start"} => next.task \in Tasks
         /\ next.op = "start" => next.token \in BOOLEAN
         /\ next.op = "sync" => next.channel \in Channels
         /\ next.op = "load" => next.pdi \in Loads
  BY DEF TypeOK, Idle, Refused

LEMMA TaskTyped ==
  ASSUME TypeOK
  PROVE  /\ Len(shape) \in Nat /\ Tasks = 1..Len(shape)
         /\ DOMAIN left = Tasks /\ DOMAIN ids = Tasks
         /\ \A t \in Tasks : /\ shape[t] \in Shapes
                            /\ shape[t].channel \in Channels
                            /\ left[t] \in Nat
                            /\ ids[t] \in SUBSET (0..NumIds - 1)
<1>1. /\ Len(shape) \in Nat /\ Tasks = 1..Len(shape)
      /\ DOMAIN left = Tasks /\ DOMAIN ids = Tasks
  BY LenProperties DEF TypeOK, Tasks
<1>2. \A t \in Tasks : /\ shape[t] \in Shapes
                       /\ left[t] \in Nat
                       /\ ids[t] \in SUBSET (0..NumIds - 1)
  BY <1>1, ElementOfSeq DEF TypeOK
<1> QED
  BY <1>1, <1>2, BdAssumption

Pushes == [task : Tasks, token : BOOLEAN, order : Nat]

LEMMA PushTyped ==
  ASSUME TypeOK, NEW c \in Channels
  PROVE  /\ pushes[c] \in Seq(Pushes) /\ Len(pushes[c]) \in Nat
         /\ DOMAIN pushes[c] = 1..Len(pushes[c])
         /\ \A i \in 1..Len(pushes[c]) : pushes[c][i].task \in Tasks
<1>1. pushes[c] \in Seq(Pushes)
  BY DEF TypeOK, Pushes
<1>2. \A i \in 1..Len(pushes[c]) : pushes[c][i] \in Pushes
  BY <1>1, ElementOfSeq
<1> QED
  BY <1>1, <1>2, LenProperties DEF Pushes

LEMMA ThroughTyped ==
  ASSUME TypeOK, NEW c \in Channels, NEW n \in 0..Len(pushes[c])
  PROVE  Through(pushes[c], n) \subseteq Tasks
  BY PushTyped DEF Through

\* A token retires no more than there is.
LEMMA RetiredTyped ==
  ASSUME TypeOK, NEW c \in Channels
  PROVE  Retired(c) \in 0..Len(pushes[c])
<1> DEFINE issuing == {i \in DOMAIN pushes[c] : pushes[c][i].token}
<1>1. CASE issuing = {}
  BY <1>1, PushTyped DEF Retired
<1>2. CASE issuing # {}
  <2>1. issuing \in SUBSET Nat /\ issuing \subseteq 1..Len(pushes[c])
    BY PushTyped
  <2>2. Min(issuing) \in issuing
    BY <1>2, <2>1, MinIsLeast
  <2> QED
    BY <1>2, <2>1, <2>2, PushTyped DEF Retired
<1> QED
  BY <1>1, <1>2

\* Nor does a poll prove more finished, or less than the last one.
LEMMA DoneTyped ==
  ASSUME TypeOK, Counted, NEW c \in Channels, NEW n \in Nat
  PROVE  /\ Done(c, n) \in finished[c]..Len(pushes[c])
         /\ ProvenBy(c, n) \subseteq Tasks
<1>1. /\ finished[c] \in Nat /\ Len(pushes[c]) \in Nat
      /\ finished[c] <= Len(pushes[c])
  BY PushTyped DEF TypeOK, Counted
<1>2. Done(c, n) \in finished[c]..Len(pushes[c])
  BY <1>1, MaxOfTwo DEF Done
<1>3. Through(pushes[c], Done(c, n)) \subseteq Tasks
  BY <1>1, <1>2, ThroughTyped
<1> QED
  BY <1>2, <1>3 DEF ProvenBy

LEMMA MaxOfBounds ==
  ASSUME NEW S \in SUBSET {0, 1, 3, 7}, 0 \in S
  PROVE  Max(S) \in S /\ Max(S) \in Nat
<1>1. \E x \in S : \A y \in S : x >= y
  <2>1. CASE 7 \in S
    BY <2>1
  <2>2. CASE 7 \notin S /\ 3 \in S
    BY <2>2
  <2>3. CASE 7 \notin S /\ 3 \notin S
    BY <2>3
  <2> QED
    BY <2>1, <2>2, <2>3
<1>2. Max(S) \in S
  BY <1>1 DEF Max
<1>3. S \subseteq Nat
  OBVIOUS
<1> QED
  BY <1>2, <1>3

\* The bound of a poll is a number of the field, below what is behind.
LEMMA BoundTyped ==
  ASSUME TypeOK, NEW t \in Victims, Behind(t) # 0
  PROVE  PollBound(Behind(t)) \in Nat /\ PollBound(Behind(t)) < Behind(t)
<1> DEFINE c == shape[t].channel
           S == {b \in {0, 1, 3, 7} : b < Behind(t) /\ b <= FieldMax \div 2}
<1>1. t \in Tasks /\ c \in Channels /\ PushesOf(t) # {}
  BY TaskTyped DEF Victims
<1>2. Len(pushes[c]) \in Nat /\ PushesOf(t) \in SUBSET (1..Len(pushes[c]))
  BY <1>1, PushTyped DEF PushesOf
<1>3. Max(PushesOf(t)) \in 1..Len(pushes[c])
  BY <1>1, <1>2, MaxIsGreatest
<1>4. Behind(t) \in Nat /\ 0 < Behind(t)
  BY <1>2, <1>3 DEF Behind
<1>5. FieldMax \div 2 \in Nat
  BY DepthAssumption DEF FieldMax
<1>6. 0 \in S /\ S \subseteq {0, 1, 3, 7}
  BY <1>4, <1>5
<1>7. Max(S) \in Nat /\ Max(S) \in S
  BY <1>6, MaxOfBounds
<1> QED
  BY <1>7 DEF PollBound

-----------------------------------------------------------------------------
(* TypeOK and Counted are inductive: one lemma per action.                 *)

Entries == [task : Tasks, token : BOOLEAN]

LEMMA TypedInit == Init => Typed
<1> SUFFICES ASSUME Init PROVE Typed
  OBVIOUS
<1>1. Empty \in QueueModels
  BY EmptySeq DEF Empty, QueueModels
<1>2. TypeOK
  BY <1>1, BdAssumption, EmptySeq
    DEF Init, TypeOK, Tasks, QueueModels, Idle
<1>3. Counted
  BY EmptySeq DEF Init, Counted, Idle
<1> QED
  BY <1>2, <1>3 DEF Typed

LEMMA TypedRun ==
  ASSUME Typed, NEW c \in Channels, Run(c)
  PROVE  Typed'
<1>1. TypeOK'
  BY DEF Typed, TypeOK, Run, Tasks, program, usage, history, pool, loads
<1>2. Counted'
  BY DEF Typed, TypeOK, Counted, Run, program, history
<1> QED
  BY <1>1, <1>2 DEF Typed

LEMMA TypedComplete ==
  ASSUME Typed, NEW c \in Channels, Complete(c)
  PROVE  Typed'
<1>1. TypeOK'
  <2>1. queue[c] \in Seq(Entries) /\ queue[c] # <<>>
    BY DEF Typed, TypeOK, Counted, Complete, Entries
  <2>2. Tail(queue[c]) \in Seq(Entries) /\ queue[c][1] \in Entries
    BY <2>1, HeadTailProperties
  <2>3. queue' \in [Channels -> Seq(Entries)]
    BY <2>2 DEF Typed, TypeOK, Complete, Entries
  <2>4. tokens' \in [Channels -> Nat] /\ running' \in [Channels -> BOOLEAN]
    BY <2>2 DEF Typed, TypeOK, Complete
  <2> QED
    BY <2>3, <2>4
      DEF Typed, TypeOK, Complete, Tasks, Entries,
          program, usage, history, pool, loads
<1>2. Counted'
  BY DEF Typed, TypeOK, Counted, Complete, program, history
<1> QED
  BY <1>1, <1>2 DEF Typed

\* What a token retires is counted out of the pushes.
LEMMA TypedToken ==
  ASSUME Typed, NEW c \in Channels, TakeToken(c)
  PROVE  /\ avail' \in [Channels -> Nat] /\ tokens' \in [Channels -> Nat]
         /\ model' \in [Channels -> QueueModels]
         /\ pushes' \in [Channels -> Seq(Pushes)]
         /\ finished' \in [Channels -> Nat] /\ knownComplete' \subseteq Tasks
         /\ \A d \in Channels : finished'[d] <= Len(pushes'[d])
         /\ UNCHANGED <<program, pushCount, pollProven, queue, running,
                        programmed, dropped>>
<1> DEFINE n == Retired(c)
<1>1. /\ TypeOK
      /\ avail \in [Channels -> Nat] /\ tokens \in [Channels -> Nat]
      /\ model \in [Channels -> QueueModels] /\ finished \in [Channels -> Nat]
      /\ pushes \in [Channels -> Seq(Pushes)] /\ knownComplete \subseteq Tasks
      /\ \A d \in Channels : finished[d] <= Len(pushes[d])
  BY DEF Typed, TypeOK, Counted, QueueModels, Pushes
<1>2. Len(pushes[c]) \in Nat /\ n \in 0..Len(pushes[c])
  BY <1>1, PushTyped, RetiredTyped
<1>3. avail' \in [Channels -> Nat]
  <2>1. avail[c] - 1 \in Int
    BY <1>1
  <2>2. Max({0, avail[c] - 1}) \in Nat
    BY <2>1, MaxWithZero, Zenon
  <2> QED
    BY <1>1, <2>2 DEF TakeToken
<1>4. tokens' \in [Channels -> Nat]
  BY <1>1 DEF TakeToken
<1>5. model' \in [Channels -> QueueModels]
  <2>1. AwaitModel(model[c]) \in QueueModels
    BY <1>1, ModelTyped
  <2> QED
    BY <1>1, <2>1 DEF TakeToken
<1>6. /\ SubSeq(pushes[c], n + 1, Len(pushes[c])) \in Seq(Pushes)
      /\ Len(SubSeq(pushes[c], n + 1, Len(pushes[c]))) = Len(pushes[c]) - n
  BY <1>1, <1>2, SubSeqTyped
<1>7. pushes' = [pushes EXCEPT ![c] = SubSeq(@, n + 1, Len(@))]
  BY DEF TakeToken, NoteAwaited
<1>8. StillFinished(c, n) \in Nat /\ StillFinished(c, n) <= Len(pushes[c]) - n
  <2> DEFINE f == finished[c] - n
  <2>1. f \in Int /\ f <= Len(pushes[c]) - n
    BY <1>1, <1>2
  <2>2. /\ StillFinished(c, n) \in Nat
        /\ StillFinished(c, n) = IF f >= 0 THEN f ELSE 0
    BY <2>1, MaxWithZero, Zenon DEF StillFinished
  <2> HIDE DEF f
  <2> QED
    BY <1>2, <2>1, <2>2
<1>9. finished' = [finished EXCEPT ![c] = StillFinished(c, n)]
  BY DEF TakeToken, NoteAwaited
<1> HIDE DEF n
<1>10. pushes' \in [Channels -> Seq(Pushes)]
  BY <1>1, <1>6, <1>7
<1>11. finished' \in [Channels -> Nat]
  BY <1>1, <1>8, <1>9
<1>12. \A d \in Channels : finished'[d] <= Len(pushes'[d])
  BY <1>1, <1>6, <1>7, <1>8, <1>9
<1>13. knownComplete' \subseteq Tasks
  <2>1. Through(pushes[c], n) \subseteq Tasks
    BY <1>1, <1>2, ThroughTyped
  <2> QED
    BY <1>1, <2>1 DEF TakeToken, NoteAwaited, CompleteAfter, n
<1> QED
  BY <1>3, <1>4, <1>5, <1>10, <1>11, <1>12, <1>13 DEF TakeToken, NoteAwaited

LEMMA DueTyped ==
  ASSUME TypeOK, next.op \in {"await", "sync"}
  PROVE  TokenChannel \in Channels /\ Due \subseteq Tasks
<1>1. next.op = "await" => next.task \in Tasks /\ shape[next.task].channel \in Channels
  BY NextTyped, TaskTyped
<1>2. TokenChannel \in Channels
  BY <1>1, NextTyped DEF TokenChannel
<1>3. Due \subseteq Tasks
  BY <1>1 DEF Due, TypeOK
<1> QED
  BY <1>2, <1>3

LEMMA TypedAwaitSync ==
  ASSUME Typed, next.op \in {"await", "sync"},
         TakeToken(TokenChannel), Recycle, next' = Idle
  PROVE  Typed'
<1> DEFINE c == TokenChannel
<1>1. c \in Channels /\ Due \subseteq Tasks
  BY DueTyped DEF Typed
<1>2. /\ avail' \in [Channels -> Nat] /\ tokens' \in [Channels -> Nat]
      /\ model' \in [Channels -> QueueModels]
      /\ pushes' \in [Channels -> Seq(Pushes)]
      /\ finished' \in [Channels -> Nat] /\ knownComplete' \subseteq Tasks
      /\ \A d \in Channels : finished'[d] <= Len(pushes'[d])
      /\ UNCHANGED <<program, pushCount, pollProven, queue, running,
                     programmed, dropped>>
  BY <1>1, TypedToken
<1>3. /\ assigned' \subseteq assigned /\ pendingAwaitReleases' \subseteq Tasks
      /\ releasedTasks' \subseteq Tasks /\ awaitedConfigures' \subseteq Tasks
      /\ UNCHANGED <<ids, reclaimed, freedInFlight, warned, loads>>
  BY <1>1 DEF Typed, TypeOK, Recycle, Giving, Recyclable
<1>4. TypeOK'
  BY <1>2, <1>3
    DEF Typed, TypeOK, Tasks, Pushes, QueueModels, Idle, program, loads
<1>5. Counted'
  BY <1>2 DEF Typed, Counted, Idle
<1> QED
  BY <1>4, <1>5 DEF Typed

LEMMA TypedFree ==
  ASSUME Typed, Free
  PROVE  Typed'
<1>1. next.task \in Tasks
  BY NextTyped DEF Typed, Free
<1>2. /\ assigned' \subseteq assigned
      /\ pendingAwaitReleases' \subseteq pendingAwaitReleases
      /\ releasedTasks' \subseteq releasedTasks \cup {next.task}
  BY DEF Free
<1>3. freedInFlight' \in [0..NumIds - 1 -> Tasks \cup {0}]
  BY <1>1 DEF Typed, TypeOK, Free, NoteFreed
<1>4. TypeOK'
  BY <1>1, <1>2, <1>3
    DEF Typed, TypeOK, Tasks, Free, Idle, program, usage, history, array, loads
<1>5. Counted'
  BY DEF Typed, Counted, Free, Idle, history, array
<1> QED
  BY <1>4, <1>5 DEF Typed

\* The push joins the pushes of its channel, and its queue where there is room.
LEMMA TypedStart ==
  ASSUME Typed, Start
  PROVE  Typed'
<1> DEFINE t == next.task
           c == shape[t].channel
           entry == [task |-> t, token |-> next.token, order |-> pushCount]
           item == [task |-> t, token |-> next.token]
           m == IF Polls(c) THEN SpaceModel(model[c]) ELSE model[c]
           f == IF Polls(c) THEN Done(c, Depth) ELSE finished[c]
<1>1. /\ TypeOK /\ Counted /\ t \in Tasks /\ next.token \in BOOLEAN
      /\ c \in Channels /\ left[t] \in Nat /\ left[t] > 0
  BY NextTyped, TaskTyped DEF Typed, Counted, Start
<1>2. /\ avail \in [Channels -> Nat] /\ model \in [Channels -> QueueModels]
      /\ pushes \in [Channels -> Seq(Pushes)] /\ pushCount \in Nat
      /\ finished \in [Channels -> Nat] /\ left \in Seq(Nat)
      /\ queue \in [Channels -> Seq(Entries)]
      /\ \A d \in Channels : finished[d] <= Len(pushes[d])
      /\ Len(pushes[c]) \in Nat /\ Len(left) = Len(shape)
  BY <1>1, PushTyped DEF TypeOK, Counted, QueueModels, Pushes, Entries
<1>3. model' \in [Channels -> QueueModels]
  <2>1. m \in QueueModels
    BY <1>1, <1>2, ModelTyped
  <2>2. PushModel(m, next.token) \in QueueModels
    BY <1>1, <2>1, ModelTyped
  <2>3. model' = [model EXCEPT ![c] = PushModel(m, next.token)]
    BY DEF Start
  <2> HIDE DEF m
  <2> QED
    BY <1>2, <2>2, <2>3
<1>4. avail' \in [Channels -> Nat]
  <2>1. avail' = avail \/ avail' = [avail EXCEPT ![c] = avail[c] + 1]
    BY <1>2 DEF Start
  <2>2. avail \in [Channels -> Nat] /\ c \in Channels
    BY <1>1, <1>2
  <2> HIDE DEF c
  <2> QED
    BY <2>1, <2>2
<1>5. /\ Append(pushes[c], entry) \in Seq(Pushes)
      /\ Len(Append(pushes[c], entry)) = Len(pushes[c]) + 1
  <2>1. entry \in Pushes
    BY <1>1, <1>2 DEF Pushes
  <2> HIDE DEF entry
  <2> QED
    BY <1>1, <1>2, <2>1, AppendProperties
<1>6. pushes' = [pushes EXCEPT ![c] = Append(pushes[c], entry)]
  BY DEF Start
<1>7. f \in Nat /\ f <= Len(pushes[c])
  <2>1. Done(c, Depth) \in finished[c]..Len(pushes[c])
    BY <1>1, DoneTyped, DepthAssumption
  <2>2. finished[c] \in Nat /\ finished[c] <= Len(pushes[c])
    BY <1>1, <1>2
  <2> QED
    BY <1>2, <2>1, <2>2
<1>8. finished' = [finished EXCEPT ![c] = f]
  BY DEF Start
<1>9. knownComplete' \subseteq Tasks /\ pollProven' \subseteq Tasks
  BY <1>1, DoneTyped, DepthAssumption DEF TypeOK, Start
<1>10. left' \in Seq(Nat) /\ Len(left') = Len(shape)
  <2>1. left' = [left EXCEPT ![t] = left[t] - 1]
    BY DEF Start
  <2>2. left[t] - 1 \in Nat /\ t \in 1..Len(left)
    BY <1>1, <1>2, TaskTyped
  <2> QED
    BY <1>2, <2>1, <2>2, ExceptSeq
<1>11. Append(queue[c], item) \in Seq(Entries) /\ Append(queue[c], item) # <<>>
  <2>1. item \in Entries /\ queue[c] \in Seq(Entries)
    BY <1>1, <1>2 DEF Entries
  <2> HIDE DEF item
  <2> QED
    BY <2>1, AppendProperties
<1>12. queue' = queue \/ queue' = [queue EXCEPT ![c] = Append(queue[c], item)]
  BY DEF Start
<1>13. dropped' \in BOOLEAN
  BY <1>1 DEF TypeOK, Start
<1>14. /\ next' = Idle /\ pushCount' = pushCount + 1
       /\ UNCHANGED <<shape, pool, running, tokens, programmed>>
  BY DEF Start
<1> HIDE DEF f, entry, item
<1>15. /\ pushes' \in [Channels -> Seq(Pushes)]
       /\ finished' \in [Channels -> Nat]
       /\ \A d \in Channels : finished'[d] <= Len(pushes'[d])
  <2>1. pushes' \in [Channels -> Seq(Pushes)]
    BY <1>1, <1>2, <1>5, <1>6
  <2>2. finished' \in [Channels -> Nat]
    BY <1>1, <1>2, <1>7, <1>8
  <2>3. ASSUME NEW d \in Channels  PROVE finished'[d] <= Len(pushes'[d])
    <3>1. CASE d = c
      <4>1. finished'[d] = f /\ Len(pushes'[d]) = Len(pushes[c]) + 1
        BY <1>1, <1>2, <1>5, <1>6, <1>8, <3>1
      <4> QED
        BY <1>2, <1>7, <4>1
    <3>2. CASE d # c
      BY <1>1, <1>2, <1>6, <1>8, <3>2
    <3> QED
      BY <3>1, <3>2
  <2> QED
    BY <2>1, <2>2, <2>3
<1>16. queue' \in [Channels -> Seq(Entries)]
  BY <1>2, <1>11, <1>12
<1> HIDE DEF t, c
<1>17. TypeOK'
  <2>1. Tasks' = Tasks /\ shape' = shape /\ ids' = ids
    BY <1>14 DEF Tasks, pool
  <2>2. /\ pushes' \in [Channels -> Seq(Pushes')] /\ queue' \in [Channels -> Seq(Entries')]
        /\ knownComplete' \subseteq Tasks' /\ pollProven' \subseteq Tasks'
    BY <1>9, <1>15, <1>16, <2>1 DEF Pushes, Entries
  <2>3. /\ left' \in Seq(Nat) /\ Len(left') = Len(shape') /\ Len(ids') = Len(shape')
        /\ shape' \in Seq(Shapes) /\ ids' \in Seq(SUBSET (0..NumIds - 1))
    BY <1>1, <1>10, <2>1 DEF TypeOK
  <2>4. /\ assigned' \subseteq 0..NumIds - 1
        /\ reclaimed' \subseteq Tasks' /\ releasedTasks' \subseteq Tasks'
        /\ awaitedConfigures' \subseteq Tasks' /\ pendingAwaitReleases' \subseteq Tasks'
        /\ warned' \subseteq Tasks' /\ unloaded' \subseteq Tasks'
        /\ loaded' \in Loads \cup {"none"}
        /\ freedInFlight' \in [0..NumIds - 1 -> Tasks' \cup {0}]
        /\ running' \in [Channels -> BOOLEAN] /\ tokens' \in [Channels -> Nat]
        /\ programmed' \in [0..NumIds - 1 -> Tasks' \cup {0}]
    BY <1>1, <1>14, <2>1 DEF TypeOK, pool, loads
  <2>5. finished' \in [Channels -> Nat] /\ pushCount' \in Nat
    BY <1>2, <1>14, <1>15
  <2> QED
    BY <1>3, <1>4, <1>13, <1>14, <2>2, <2>3, <2>4, <2>5
      DEF TypeOK, QueueModels, Pushes, Entries
<1>18. Counted'
  BY <1>1, <1>2, <1>11, <1>12, <1>14, <1>15 DEF Counted, Idle
<1> QED
  BY <1>17, <1>18 DEF Typed

LEMMA TypedTakeId ==
  ASSUME Typed, TakeId
  PROVE  Typed'
<1> DEFINE t == next.task
<1>1. TypeOK /\ t \in Tasks
  BY NextTyped DEF Typed, TakeId
<1>2. PICK id \in 0..NumIds - 1 :
         /\ assigned' = assigned \cup {id}
         /\ ids' = [ids EXCEPT ![t] = @ \cup {id}]
         /\ warned' = warned \cup IF Unsafe(id) THEN {freedInFlight[id]} ELSE {}
         /\ freedInFlight' = [freedInFlight EXCEPT ![id] = 0]
         /\ \/ /\ programmed' = [i \in DOMAIN programmed |->
                                   IF i \in ids'[t] THEN t ELSE programmed[i]]
               /\ next' = Idle
            \/ UNCHANGED <<programmed, next>>
  BY DEF TakeId
<1>3. ids' \in Seq(SUBSET (0..NumIds - 1)) /\ Len(ids') = Len(shape)
  <2>1. ids[t] \cup {id} \in SUBSET (0..NumIds - 1) /\ t \in 1..Len(ids)
    BY <1>1, TaskTyped DEF TypeOK
  <2> QED
    BY <1>1, <1>2, <2>1, ExceptSeq DEF TypeOK
<1>4. warned' \subseteq Tasks
  BY <1>1, <1>2 DEF TypeOK, Unsafe
<1>5. programmed' \in [0..NumIds - 1 -> Tasks \cup {0}]
  BY <1>1, <1>2 DEF TypeOK
<1>6. next' = Idle \/ next' = next
  BY <1>2
<1>7. TypeOK'
  BY <1>1, <1>2, <1>3, <1>4, <1>5, <1>6
    DEF TypeOK, TakeId, Tasks, program, usage, history, loads
<1>8. Counted'
  BY <1>6 DEF Typed, Counted, TakeId, Idle, program, history
<1> QED
  BY <1>7, <1>8 DEF Typed

LEMMA TypedTakeBack ==
  ASSUME Typed, NEW t \in Tasks, TakeBack(t),
         finished' \in [Channels -> Nat],
         \A c \in Channels : finished'[c] <= Len(pushes[c]),
         pollProven' \subseteq Tasks,
         UNCHANGED <<pushes, pushCount, knownComplete>>
  PROVE  Typed'
<1>1. TypeOK'
  BY DEF Typed, TypeOK, TakeBack, Tasks, program, usage, array, loads
<1>2. Counted'
  BY DEF Typed, Counted, TakeBack, program, array
<1> QED
  BY <1>1, <1>2 DEF Typed

LEMMA TypedReclaim ==
  ASSUME Typed, ReclaimProven \/ ReclaimPolled
  PROVE  Typed'
<1>1. CASE ReclaimProven
  <2>1. PICK t \in Tasks : TakeBack(t)
    BY <1>1 DEF ReclaimProven, Proven
  <2> QED
    BY <1>1, <2>1, TypedTakeBack
      DEF ReclaimProven, Typed, TypeOK, Counted, history
<1>2. CASE ReclaimPolled
  <2>1. PICK t \in Victims :
          LET c == shape[t].channel
              unfinished == IF Behind(t) = 0 THEN 0 ELSE PollBound(Behind(t)) + 1
          IN /\ TakeBack(t)
             /\ finished' = [finished EXCEPT ![c] = Done(c, unfinished)]
             /\ pollProven' = pollProven \cup ProvenBy(c, unfinished)
             /\ UNCHANGED <<pushes, pushCount, knownComplete>>
    BY <1>2 DEF ReclaimPolled
  <2> DEFINE c == shape[t].channel
             n == IF Behind(t) = 0 THEN 0 ELSE PollBound(Behind(t)) + 1
  <2>2. t \in Tasks /\ c \in Channels /\ n \in Nat
    BY TaskTyped, BoundTyped DEF Typed, Victims
  <2> HIDE DEF n
  <2>3. Done(c, n) \in finished[c]..Len(pushes[c]) /\ ProvenBy(c, n) \subseteq Tasks
    BY <2>2, DoneTyped DEF Typed
  <2>4. /\ finished' = [finished EXCEPT ![c] = Done(c, n)]
        /\ pollProven' = pollProven \cup ProvenBy(c, n)
    BY <2>1 DEF n
  <2>5. /\ finished' \in [Channels -> Nat]
        /\ \A d \in Channels : finished'[d] <= Len(pushes[d])
        /\ pollProven' \subseteq Tasks
    <3>1. /\ finished \in [Channels -> Nat] /\ Len(pushes[c]) \in Nat
          /\ \A d \in Channels : finished[d] <= Len(pushes[d])
          /\ pollProven \subseteq Tasks
      BY PushTyped, <2>2 DEF Typed, TypeOK, Counted
    <3>2. Done(c, n) \in Nat /\ Done(c, n) <= Len(pushes[c])
      BY <2>2, <2>3, <3>1
    <3> HIDE DEF c
    <3> QED
      BY <2>2, <2>3, <2>4, <3>1, <3>2
  <2> QED
    BY <2>1, <2>2, <2>5, TypedTakeBack
<1> QED
  BY <1>1, <1>2

LEMMA TypedLoad ==
  ASSUME Typed, Load
  PROVE  Typed'
<1>1. TypeOK /\ next.pdi \in Loads
  BY NextTyped DEF Typed, Load
<1>2. /\ queue' \in [Channels -> Seq(Entries)] /\ running' \in [Channels -> BOOLEAN]
      /\ \A c \in Channels : ~running'[c]
  BY EmptySeq DEF Load
<1>3. assigned' \subseteq 0..NumIds - 1
  BY BdAssumption DEF Load, Static
<1>4. tokens' \in [Channels -> Nat]
  <2>1. tokens \in [Channels -> Nat]
    BY <1>1 DEF TypeOK
  <2>2. tokens' \in {tokens, [c \in Channels |-> 0]}
    BY DEF Load
  <2> QED
    BY <2>1, <2>2
<1>5. TypeOK'
  <2>1. /\ Tasks' = Tasks
        /\ UNCHANGED <<shape, left, avail, model, ids, pushes, finished, pushCount,
                       knownComplete, pollProven, reclaimed, releasedTasks,
                       awaitedConfigures, warned, dropped>>
    BY DEF Load, Tasks, program, usage, history
  <2>2. /\ next' = Idle /\ pendingAwaitReleases' = {} /\ unloaded' = Tasks
        /\ loaded' \in Loads
    BY <1>1 DEF Load
  <2>3. /\ freedInFlight' \in [0..NumIds - 1 -> Tasks \cup {0}]
        /\ programmed' \in [0..NumIds - 1 -> Tasks \cup {0}]
    BY <1>1 DEF Load, TypeOK
  <2> QED
    BY <1>1, <1>2, <1>3, <1>4, <2>1, <2>2, <2>3 DEF TypeOK, Entries
<1>6. Counted'
  BY <1>2 DEF Typed, Counted, Load, Idle, history
<1> QED
  BY <1>5, <1>6 DEF Typed

\* A new task: what was said of the others still holds of them.
LEMMA TypedChooseConfigure ==
  ASSUME Typed, ChooseConfigure
  PROVE  Typed'
<1> DEFINE n == Len(shape)
<1>1. PICK s \in Shapes : /\ shape' = Append(shape, s)
                          /\ left' = Append(left, s.starts)
                          /\ s.pin # NoId => s.pin \notin assigned
  BY DEF ChooseConfigure
<1>2. /\ ids' = Append(ids, {})
      /\ next' = [op |-> "configure", task |-> Len(shape')]
      /\ UNCHANGED <<usage, history, assigned, reclaimed, releasedTasks,
                     awaitedConfigures, pendingAwaitReleases, freedInFlight,
                     warned, loads, array>>
  BY DEF ChooseConfigure
<1>3. TypeOK /\ Counted /\ n \in Nat /\ Tasks = 1..n
  BY TaskTyped DEF Typed
<1>4. /\ shape' \in Seq(Shapes) /\ Len(shape') = n + 1
      /\ left' \in Seq(Nat) /\ Len(left') = n + 1
      /\ ids' \in Seq(SUBSET (0..NumIds - 1)) /\ Len(ids') = n + 1
  <2>1. s.starts \in Nat /\ {} \in SUBSET (0..NumIds - 1)
    BY BdAssumption
  <2> QED
    BY <1>1, <1>2, <1>3, <2>1, AppendProperties DEF TypeOK
<1>5. Tasks \subseteq Tasks' /\ n + 1 \in Tasks'
  BY <1>3, <1>4, LenProperties DEF Tasks
<1>6. \A c \in Channels : pushes[c] \in Seq(Pushes') /\ queue[c] \in Seq(Entries')
  <2>1. Pushes \subseteq Pushes' /\ Entries \subseteq Entries'
    BY <1>5 DEF Pushes, Entries
  <2>2. \A c \in Channels : pushes[c] \in Seq(Pushes) /\ queue[c] \in Seq(Entries)
    BY <1>3 DEF TypeOK, Pushes, Entries
  <2> QED
    BY <2>1, <2>2, SeqMonotonic
<1>7. pushes' \in [Channels -> Seq(Pushes')] /\ queue' \in [Channels -> Seq(Entries')]
  <2>1. pushes' = pushes /\ queue' = queue
    BY <1>2 DEF history, array
  <2>2. pushes = [c \in Channels |-> pushes[c]] /\ queue = [c \in Channels |-> queue[c]]
    BY <1>3 DEF TypeOK
  <2> QED
    BY <1>6, <2>1, <2>2
<1>8. next' \in [op : {"configure", "await", "free"}, task : Tasks']
  BY <1>2, <1>4, <1>5
<1>9. /\ freedInFlight' \in [0..NumIds - 1 -> Tasks' \cup {0}]
      /\ programmed' \in [0..NumIds - 1 -> Tasks' \cup {0}]
  BY <1>2, <1>3, <1>5 DEF TypeOK, array
<1>10. /\ knownComplete' \subseteq Tasks' /\ pollProven' \subseteq Tasks'
       /\ reclaimed' \subseteq Tasks' /\ releasedTasks' \subseteq Tasks'
       /\ awaitedConfigures' \subseteq Tasks' /\ pendingAwaitReleases' \subseteq Tasks'
       /\ warned' \subseteq Tasks' /\ unloaded' \subseteq Tasks'
  BY <1>2, <1>3, <1>5 DEF TypeOK, history, loads
<1>11. TypeOK'
  BY <1>2, <1>3, <1>4, <1>7, <1>8, <1>9, <1>10
    DEF TypeOK, Pushes, Entries, usage, history, loads, array
<1>12. Counted'
  BY <1>2, <1>3 DEF Counted, history, array
<1> QED
  BY <1>11, <1>12 DEF Typed

LEMMA TypedChoose ==
  ASSUME Typed, Choose
  PROVE  Typed'
<1>1. CASE ChooseConfigure
  BY <1>1, TypedChooseConfigure
<1>2. CASE /\ ChooseStart \/ ChooseAwait \/ ChooseSync \/ ChooseFree \/ ChooseLoad
           /\ UNCHANGED <<program, usage, history, pool, array>>
  <2>1. /\ next' \in [op : {"configure", "await", "free"}, task : Tasks]
               \cup [op : {"start"}, task : Tasks, token : BOOLEAN]
               \cup [op : {"sync"}, channel : Channels]
               \cup [op : {"load"}, pdi : Loads]
        /\ next'.op = "start" => left[next'.task] > 0
    BY <1>2 DEF ChooseStart, ChooseAwait, ChooseSync, ChooseFree, ChooseLoad
  <2>2. TypeOK'
    BY <1>2, <2>1
      DEF Typed, TypeOK, Tasks, program, usage, history, pool, loads, array
  <2>3. Counted'
    BY <1>2, <2>1 DEF Typed, Counted, program, history, array
  <2> QED
    BY <2>2, <2>3 DEF Typed
<1> QED
  BY <1>1, <1>2 DEF Choose

LEMMA TypedRefuse ==
  ASSUME Typed, Refuse
  PROVE  Typed'
<1>1. TypeOK'
  BY DEF Typed, TypeOK, Refuse, Refused, Tasks,
         program, usage, history, pool, loads, array
<1>2. Counted'
  BY DEF Typed, Counted, Refuse, Refused, program, history, array
<1> QED
  BY <1>1, <1>2 DEF Typed

LEMMA TypedStutter ==
  ASSUME Typed, UNCHANGED vars
  PROVE  Typed'
  BY DEF Typed, TypeOK, Counted, Tasks, vars,
         program, usage, history, pool, loads, array

LEMMA TypedNext ==
  ASSUME Typed, [Next]_vars
  PROVE  Typed'
<1>1. CASE Choose
  BY <1>1, TypedChoose
<1>2. CASE Start
  BY <1>2, TypedStart
<1>3. CASE Await
  BY <1>3, TypedAwaitSync DEF Await
<1>4. CASE Sync
  BY <1>4, TypedAwaitSync DEF Sync
<1>5. CASE Free
  BY <1>5, TypedFree
<1>6. CASE Load
  BY <1>6, TypedLoad
<1>7. CASE TakeId
  BY <1>7, TypedTakeId
<1>8. CASE ReclaimProven \/ ReclaimPolled
  BY <1>8, TypedReclaim
<1>9. CASE Refuse
  BY <1>9, TypedRefuse
<1>10. CASE \E c \in Channels : Run(c) \/ Complete(c)
  BY <1>10, TypedRun, TypedComplete
<1>11. CASE UNCHANGED vars
  BY <1>11, TypedStutter
<1> QED
  BY <1>1, <1>2, <1>3, <1>4, <1>5, <1>6, <1>7, <1>8, <1>9, <1>10, <1>11
    DEF Next, Execute

\* Every variable keeps its type, each start is one of those to come, a poll
\* counts only pushes there are and a channel that runs has something to run.
THEOREM TypeCorrect == Spec => [](TypeOK /\ Counted)
<1>1. Spec => []Typed
  BY TypedInit, TypedNext, PTL DEF Spec
<1>2. Typed => TypeOK /\ Counted
  BY DEF Typed
<1> QED
  BY <1>1, <1>2, PTL

-----------------------------------------------------------------------------
(* OwnersKeepIds is inductive with IdsApart, DueOnce and PinIsFree.        *)

\* Ids given back with the release of their own tasks are nobody else's.
LEMMA GivenBack ==
  ASSUME OwnersKeepIds, IdsApart, NEW G \in SUBSET Live,
         assigned' = assigned \ UNION {ids[t] : t \in G},
         releasedTasks' = releasedTasks \cup G,
         UNCHANGED <<shape, ids, unloaded>>
  PROVE  OwnersKeepIds' /\ IdsApart'
<1>1. Live' = Live \ G /\ G \subseteq Live
  BY DEF Live, Tasks
<1>2. ASSUME NEW t \in Live'  PROVE ids'[t] \subseteq assigned'
  <2>1. t \in Live /\ ids[t] \subseteq assigned
    BY <1>1, <1>2 DEF OwnersKeepIds, Live
  <2>2. \A u \in G : ids[t] \cap ids[u] = {}
    BY <1>1, <1>2 DEF IdsApart, Live
  <2> QED
    BY <2>1, <2>2
<1>3. \A t, u \in Live' : t # u => ids'[t] \cap ids'[u] = {}
  BY <1>1 DEF IdsApart, Live
<1> QED
  BY <1>2, <1>3 DEF OwnersKeepIds, IdsApart, Live

\* No await and no free gives back what a free has given back before.
LEMMA IdsAwaitSync ==
  ASSUME Typed, IdsInv, next.op \in {"await", "sync"},
         TakeToken(TokenChannel), Recycle, next' = Idle
  PROVE  IdsInv'
<1>1. Due \subseteq Tasks /\ \A t \in Due : ~FreedByHand(t)
  BY DueTyped DEF Typed, IdsInv, DueOnce, Due
<1>2. Giving \in SUBSET Live
  BY <1>1 DEF Giving, Recyclable, FreedByHand, Redundant, Live
<1>3. /\ assigned' = assigned \ UNION {ids[t] : t \in Giving}
      /\ releasedTasks' = releasedTasks \cup Giving
      /\ awaitedConfigures' = awaitedConfigures \cup Giving
      /\ pendingAwaitReleases' \subseteq Due
      /\ UNCHANGED <<shape, ids, reclaimed, unloaded>>
  BY DEF Recycle, TakeToken, program, loads
<1>4. OwnersKeepIds' /\ IdsApart'
  BY <1>2, <1>3, GivenBack DEF IdsInv
<1>5. DueOnce'
  BY <1>1, <1>3 DEF DueOnce, FreedByHand, Redundant, Idle
<1>6. PinIsFree'
  BY DEF PinIsFree, Idle
<1> QED
  BY <1>4, <1>5, <1>6 DEF IdsInv

LEMMA IdsFree ==
  ASSUME Typed, IdsInv, Free
  PROVE  IdsInv'
<1> DEFINE t == next.task
<1>1. t \in Tasks /\ ~FreedByHand(t)
  BY NextTyped DEF Typed, IdsInv, DueOnce, Free
<1>2. /\ pendingAwaitReleases' = pendingAwaitReleases \ {t} /\ next' = Idle
      /\ UNCHANGED <<shape, ids, unloaded, reclaimed, awaitedConfigures>>
      /\ \/ UNCHANGED <<assigned, releasedTasks>>
         \/ /\ ~Redundant(t) /\ assigned' = assigned \ ids[t]
            /\ releasedTasks' = releasedTasks \cup {t}
  BY DEF Free, program, loads
<1>3. OwnersKeepIds' /\ IdsApart'
  <2>1. CASE UNCHANGED <<assigned, releasedTasks>>
    BY <1>2, <2>1 DEF IdsInv, OwnersKeepIds, IdsApart, Live, Tasks
  <2>2. CASE /\ ~Redundant(t) /\ assigned' = assigned \ ids[t]
             /\ releasedTasks' = releasedTasks \cup {t}
    <3>1. {t} \in SUBSET Live
      BY <1>1, <2>2 DEF FreedByHand, Redundant, Live
    <3>2. assigned' = assigned \ UNION {ids[u] : u \in {t}}
      BY <2>2
    <3> QED
      BY <1>2, <2>2, <3>1, <3>2, GivenBack DEF IdsInv
  <2> QED
    BY <1>2, <2>1, <2>2
<1>4. DueOnce'
  BY <1>2 DEF IdsInv, DueOnce, FreedByHand, Redundant, Idle
<1>5. PinIsFree'
  BY <1>2 DEF PinIsFree, Idle
<1> QED
  BY <1>3, <1>4, <1>5 DEF IdsInv

LEMMA IdsTakeBack ==
  ASSUME Typed, IdsInv, NEW t \in Tasks, TakeBack(t), OutOfIds, Candidate(t)
  PROVE  IdsInv'
<1>1. /\ assigned' = assigned \ ids[t]
      /\ reclaimed' = reclaimed \cup {t}
      /\ releasedTasks' = releasedTasks \cup {t}
      /\ pendingAwaitReleases' = pendingAwaitReleases \ {t}
      /\ UNCHANGED <<next, shape, ids, unloaded, awaitedConfigures>>
  BY DEF TakeBack, program, loads
<1>2. OwnersKeepIds' /\ IdsApart'
  <2>1. {t} \in SUBSET Live
    BY DEF Candidate, Live
  <2>2. assigned' = assigned \ UNION {ids[u] : u \in {t}}
    BY <1>1
  <2> QED
    BY <1>1, <2>1, <2>2, GivenBack DEF IdsInv
<1>3. DueOnce'
  BY <1>1 DEF IdsInv, DueOnce, FreedByHand, Redundant, OutOfIds
<1>4. PinIsFree'
  BY <1>1 DEF PinIsFree, OutOfIds, Pinned
<1> QED
  BY <1>2, <1>3, <1>4 DEF IdsInv

LEMMA IdsReclaim ==
  ASSUME Typed, IdsInv, ReclaimProven \/ ReclaimPolled
  PROVE  IdsInv'
<1>1. PICK t \in Tasks : TakeBack(t) /\ Candidate(t)
  BY DEF ReclaimProven, ReclaimPolled, Proven, Victims
<1>2. OutOfIds
  BY DEF ReclaimProven, ReclaimPolled
<1> QED
  BY <1>1, <1>2, IdsTakeBack

\* An id that is handed out was free, so it is no other task's.
LEMMA IdsTakeId ==
  ASSUME Typed, IdsInv, TakeId
  PROVE  IdsInv'
<1> DEFINE t == next.task
<1>1. t \in Tasks /\ next.op = "configure"
  BY NextTyped DEF Typed, TakeId
<1>2. PICK id \in 0..NumIds - 1 :
         /\ \/ Pinned(t) /\ id = shape[t].pin
            \/ id \in Available(shape[t].channel)
         /\ assigned' = assigned \cup {id}
         /\ ids' = [ids EXCEPT ![t] = @ \cup {id}]
         /\ next' = Idle \/ next' = next
  BY DEF TakeId
<1>3. id \notin assigned
  BY <1>1, <1>2 DEF IdsInv, PinIsFree, Available
<1>4. UNCHANGED <<shape, reclaimed, releasedTasks, awaitedConfigures,
                  pendingAwaitReleases, unloaded>>
  BY DEF TakeId, program, loads
<1>5. /\ ids'[t] = ids[t] \cup {id}
      /\ \A u \in Tasks \ {t} : ids'[u] = ids[u]
  BY <1>1, <1>2, TaskTyped DEF Typed
<1>6. Live' = Live /\ Live \subseteq Tasks
  BY <1>4 DEF Live, Tasks
<1>7. \A u \in Live : ids[u] \subseteq assigned /\ id \notin ids[u]
  BY <1>3 DEF IdsInv, OwnersKeepIds, Live
<1>8. OwnersKeepIds'
  BY <1>2, <1>5, <1>6, <1>7 DEF OwnersKeepIds, Live
<1>9. IdsApart'
  <2>1. ASSUME NEW u \in Live, NEW v \in Live, u # v
        PROVE  ids'[u] \cap ids'[v] = {}
    <3>1. ids[u] \cap ids[v] = {}
      BY <2>1 DEF IdsInv, IdsApart, Live
    <3> QED
      BY <1>5, <1>6, <1>7, <2>1, <3>1
  <2> QED
    BY <1>6, <2>1 DEF IdsApart, Live
<1>10. DueOnce'
  BY <1>1, <1>2, <1>4 DEF IdsInv, DueOnce, FreedByHand, Redundant, Idle
<1>11. PinIsFree'
  <2>1. ids'[t] # {}
    BY <1>5
  <2>2. CASE next' = Idle
    BY <2>2 DEF PinIsFree, Idle
  <2>3. CASE next' = next
    BY <2>1, <2>3 DEF PinIsFree, Pinned
  <2> QED
    BY <1>2, <2>2, <2>3
<1> QED
  BY <1>8, <1>9, <1>10, <1>11 DEF IdsInv

LEMMA IdsLoad ==
  ASSUME Typed, IdsInv, Load
  PROVE  IdsInv'
<1>1. Live' = {} /\ pendingAwaitReleases' = {} /\ next' = Idle
  BY DEF Load, Live, Tasks, program
<1> QED
  BY <1>1 DEF IdsInv, OwnersKeepIds, IdsApart, DueOnce, PinIsFree, Idle, Live

LEMMA IdsChooseConfigure ==
  ASSUME Typed, IdsInv, ChooseConfigure
  PROVE  IdsInv'
<1> DEFINE n == Len(shape)
<1>1. PICK s \in Shapes : /\ shape' = Append(shape, s)
                          /\ s.pin # NoId => s.pin \notin assigned
  BY DEF ChooseConfigure
<1>2. /\ ids' = Append(ids, {})
      /\ next' = [op |-> "configure", task |-> Len(shape')]
      /\ UNCHANGED <<assigned, reclaimed, releasedTasks, awaitedConfigures,
                     pendingAwaitReleases, unloaded>>
  BY DEF ChooseConfigure, loads
<1>3. /\ TypeOK /\ n \in Nat /\ Tasks = 1..n /\ Len(ids) = n
      /\ shape \in Seq(Shapes) /\ ids \in Seq(SUBSET (0..NumIds - 1))
  BY TaskTyped DEF Typed, TypeOK
<1>4. /\ shape' \in Seq(Shapes) /\ Len(shape') = n + 1 /\ shape'[n + 1] = s
      /\ ids'[n + 1] = {} /\ \A t \in 1..n : ids'[t] = ids[t]
  BY <1>1, <1>2, <1>3, AppendProperties
<1>5. Tasks' = Tasks \cup {n + 1}
  BY <1>3, <1>4, LenProperties DEF Tasks
<1>6. OwnersKeepIds' /\ IdsApart'
  BY <1>2, <1>3, <1>4, <1>5 DEF IdsInv, OwnersKeepIds, IdsApart, Live
<1>7. DueOnce'
  BY <1>2 DEF IdsInv, DueOnce, FreedByHand, Redundant
<1>8. PinIsFree'
  <2>1. next'.task = n + 1 /\ shape'[next'.task].pin = s.pin
    BY <1>2, <1>4
  <2>2. s.pin # NoId => s.pin \notin assigned'
    BY <1>1, <1>2
  <2> QED
    BY <2>1, <2>2 DEF PinIsFree, Pinned
<1> QED
  BY <1>6, <1>7, <1>8 DEF IdsInv

LEMMA IdsChoose ==
  ASSUME Typed, IdsInv, ~DoubleReleases, Choose
  PROVE  IdsInv'
<1>1. CASE ChooseConfigure
  BY <1>1, IdsChooseConfigure
<1>2. CASE /\ ChooseStart \/ ChooseAwait \/ ChooseSync \/ ChooseFree \/ ChooseLoad
           /\ UNCHANGED <<program, usage, history, pool, array>>
  <2>1. /\ next'.op \in {"free", "await"} => ~FreedByHand(next'.task)
        /\ next'.op # "configure"
    BY <1>2 DEF ChooseStart, ChooseAwait, ChooseSync, ChooseFree, ChooseLoad
  <2> QED
    BY <1>2, <2>1
      DEF IdsInv, OwnersKeepIds, IdsApart, Live, DueOnce, PinIsFree,
          FreedByHand, Redundant, Tasks, program, pool, loads
<1> QED
  BY <1>1, <1>2 DEF Choose

\* Steps that leave the ids alone.
LEMMA IdsSame ==
  ASSUME IdsInv, UNCHANGED <<shape, pool>>,
         next' = next \/ next' = Idle \/ next' = Refused
  PROVE  IdsInv'
  BY DEF IdsInv, OwnersKeepIds, IdsApart, Live, DueOnce, PinIsFree, FreedByHand,
         Redundant, Pinned, Tasks, Idle, Refused, pool, loads

LEMMA IdsInit == Init => IdsInv
  BY DEF Init, IdsInv, OwnersKeepIds, IdsApart, Live, DueOnce, PinIsFree, Tasks, Idle

LEMMA IdsNext ==
  ASSUME Typed, IdsInv, ~DoubleReleases, [Next]_vars
  PROVE  IdsInv'
<1>1. CASE Choose
  BY <1>1, IdsChoose
<1>2. CASE Start
  BY <1>2, IdsSame DEF Start
<1>3. CASE Await
  BY <1>3, IdsAwaitSync DEF Await
<1>4. CASE Sync
  BY <1>4, IdsAwaitSync DEF Sync
<1>5. CASE Free
  BY <1>5, IdsFree
<1>6. CASE Load
  BY <1>6, IdsLoad
<1>7. CASE TakeId
  BY <1>7, IdsTakeId
<1>8. CASE ReclaimProven \/ ReclaimPolled
  BY <1>8, IdsReclaim
<1>9. CASE Refuse
  BY <1>9, IdsSame DEF Refuse, program
<1>10. CASE \E c \in Channels : Run(c) \/ Complete(c)
  BY <1>10, IdsSame DEF Run, Complete, program
<1>11. CASE UNCHANGED vars
  BY <1>11, IdsSame DEF vars, program
<1> QED
  BY <1>1, <1>2, <1>3, <1>4, <1>5, <1>6, <1>7, <1>8, <1>9, <1>10, <1>11
    DEF Next, Execute

\* The invariant of the ids holds of every sequence in which no program frees a
\* task twice.
THEOREM IdsInvariant == ~DoubleReleases => (Spec => []IdsInv)
<1> SUFFICES ASSUME ~DoubleReleases  PROVE Spec => []IdsInv
  OBVIOUS
<1>1. Typed /\ IdsInv /\ [Next]_vars => Typed' /\ IdsInv'
  BY TypedNext, IdsNext
<1> QED
  BY TypedInit, IdsInit, <1>1, PTL DEF Spec

\* No release takes ids away from a task that was not released.
THEOREM IdsStay == ~DoubleReleases => (Spec => []OwnersKeepIds)
<1>1. IdsInv => OwnersKeepIds
  BY DEF IdsInv
<1> QED
  BY IdsInvariant, <1>1, PTL

-----------------------------------------------------------------------------
(* Accounted is inductive: every start is followed to its end.             *)

\* What a poll finds finished is counted, or proves the task complete.
LEMMA UnfinishedPoll ==
  ASSUME NEW R, NEW p \in Seq(R), NEW done \in 0..Len(p), NEW now \in done..Len(p),
         NEW t, Unfinished(p, done, t), ~Unfinished(p, now, t)
  PROVE  t \in {u \in Through(p, now) : \E i \in done + 1..now : p[i].task = u}
<1>1. Len(p) \in Nat
  BY LenProperties
<1>2. PICK i \in done + 1..Len(p) : p[i].task = t
  BY DEF Unfinished
<1>3. \A j \in now + 1..Len(p) : p[j].task # t
  BY DEF Unfinished
<1>4. i \in done + 1..now /\ i \in 1..now
  BY <1>1, <1>2, <1>3
<1> QED
  BY <1>2, <1>3, <1>4 DEF Through

\* So does a token with the pushes it retires.
LEMMA UnfinishedAwait ==
  ASSUME NEW R, NEW p \in Seq(R), NEW done \in 0..Len(p), NEW n \in 0..Len(p),
         NEW now \in Nat, now = IF done - n >= 0 THEN done - n ELSE 0,
         NEW t, Unfinished(p, done, t),
         ~Unfinished(SubSeq(p, n + 1, Len(p)), now, t)
  PROVE  t \in Through(p, n)
<1>1. /\ Len(p) \in Nat /\ Len(SubSeq(p, n + 1, Len(p))) = Len(p) - n
      /\ \A j \in 1..Len(p) - n : SubSeq(p, n + 1, Len(p))[j] = p[n + j]
  BY LenProperties, SubSeqTyped
<1>2. PICK i \in done + 1..Len(p) : p[i].task = t
  BY DEF Unfinished
<1>3. ASSUME NEW j \in n + 1..Len(p), j > done, p[j].task = t  PROVE FALSE
  <2>1. j - n \in now + 1..Len(p) - n /\ j - n \in 1..Len(p) - n /\ n + (j - n) = j
    BY <1>1, <1>3
  <2>2. SubSeq(p, n + 1, Len(p))[j - n].task = t
    BY <1>1, <1>3, <2>1
  <2> QED
    BY <1>1, <2>1, <2>2 DEF Unfinished
<1>4. i \in 1..n
  BY <1>1, <1>2, <1>3
<1>5. \A j \in n + 1..Len(p) : p[j].task # t
  <2>1. \A j \in n + 1..Len(p) : j > done
    BY <1>1, <1>2, <1>4
  <2> QED
    BY <1>3, <2>1
<1> QED
  BY <1>2, <1>4, <1>5 DEF Through

\* A push is unfinished until then.
LEMMA UnfinishedPush ==
  ASSUME NEW R, NEW p \in Seq(R), NEW e \in R, NEW done \in 0..Len(p), NEW t,
         Unfinished(p, done, t) \/ e.task = t
  PROVE  Unfinished(Append(p, e), done, t)
<1>1. /\ Len(p) \in Nat /\ Len(Append(p, e)) = Len(p) + 1
      /\ \A i \in 1..Len(p) : Append(p, e)[i] = p[i]
      /\ Append(p, e)[Len(p) + 1] = e
  BY LenProperties, AppendProperties
<1>2. CASE Unfinished(p, done, t)
  <2>1. PICK i \in done + 1..Len(p) : p[i].task = t
    BY <1>2 DEF Unfinished
  <2>2. i \in 1..Len(p) /\ i \in done + 1..Len(p) + 1
    BY <1>1, <2>1
  <2> QED
    BY <1>1, <2>1, <2>2 DEF Unfinished
<1>3. CASE e.task = t
  <2>1. Len(p) + 1 \in done + 1..Len(p) + 1
    BY <1>1
  <2> QED
    BY <1>1, <1>3, <2>1 DEF Unfinished
<1> QED
  BY <1>2, <1>3

LEMMA PushesCounted ==
  ASSUME Typed, NEW c \in Channels
  PROVE  /\ pushes[c] \in Seq(Pushes) /\ Len(pushes[c]) \in Nat
         /\ finished[c] \in 0..Len(pushes[c])
         /\ DOMAIN pushes[c] = 1..Len(pushes[c])
         /\ DOMAIN pushes = Channels /\ DOMAIN finished = Channels
<1>1. TypeOK /\ finished[c] <= Len(pushes[c])
  BY DEF Typed, Counted
<1>2. /\ finished[c] \in Nat /\ DOMAIN pushes = Channels
      /\ DOMAIN finished = Channels
  BY <1>1 DEF TypeOK
<1>3. /\ pushes[c] \in Seq(Pushes) /\ Len(pushes[c]) \in Nat
      /\ DOMAIN pushes[c] = 1..Len(pushes[c])
  BY <1>1, PushTyped
<1> QED
  BY <1>1, <1>2, <1>3

LEMMA AccountedInit == Init => Accounted
  BY EmptySeq DEF Init, Accounted, Tasks

LEMMA AccountedToken ==
  ASSUME Typed, Accounted, NEW c \in Channels, TakeToken(c)
  PROVE  Accounted'
<1>1. PICK n \in Nat : n = Retired(c) /\ n \in 0..Len(pushes[c])
  BY RetiredTyped, PushTyped DEF Typed
<1>2. /\ pushes' = [pushes EXCEPT ![c] = SubSeq(@, n + 1, Len(@))]
      /\ finished' = [finished EXCEPT ![c] = StillFinished(c, n)]
      /\ knownComplete' = knownComplete \cup Through(pushes[c], n)
      /\ UNCHANGED <<shape, left, pollProven>>
  BY <1>1 DEF TakeToken, NoteAwaited, CompleteAfter, program
<1>3. /\ pushes[c] \in Seq(Pushes) /\ Len(pushes[c]) \in Nat
      /\ finished[c] \in 0..Len(pushes[c])
      /\ DOMAIN pushes = Channels /\ DOMAIN finished = Channels
  BY PushesCounted
<1>4. PICK now \in Nat : /\ now = StillFinished(c, n)
                         /\ now = IF finished[c] - n >= 0 THEN finished[c] - n ELSE 0
  <2>1. finished[c] - n \in Int
    BY <1>1, <1>3
  <2> QED
    BY <2>1, MaxWithZero, Zenon DEF StillFinished
<1>5. /\ pushes'[c] = SubSeq(pushes[c], n + 1, Len(pushes[c])) /\ finished'[c] = now
      /\ \A d \in Channels \ {c} : pushes'[d] = pushes[d] /\ finished'[d] = finished[d]
  BY <1>2, <1>3, <1>4
<1>6. ASSUME NEW t, Unfinished(pushes[c], finished[c], t),
             ~Unfinished(pushes'[c], finished'[c], t)
      PROVE  t \in knownComplete'
  <2>1. t \in Through(pushes[c], n)
    BY <1>1, <1>3, <1>4, <1>5, <1>6, UnfinishedAwait
  <2> QED
    BY <1>2, <2>1
<1>7. \A t \in Tasks : shape[t].channel \in Channels
  BY TaskTyped DEF Typed
<1> QED
  BY <1>2, <1>5, <1>6, <1>7 DEF Accounted, Tasks

\* A poll leaves all but n pushes finished, and the tasks they end proved.
LEMMA AccountedPoll ==
  ASSUME Typed, NEW c \in Channels, NEW n \in Nat, NEW t,
         Unfinished(pushes[c], finished[c], t), t \notin ProvenBy(c, n)
  PROVE  Unfinished(pushes[c], Done(c, n), t)
<1>1. /\ pushes[c] \in Seq(Pushes) /\ Len(pushes[c]) \in Nat
      /\ finished[c] \in 0..Len(pushes[c])
      /\ Done(c, n) \in finished[c]..Len(pushes[c])
  BY PushesCounted, DoneTyped DEF Typed
<1> QED
  BY <1>1, UnfinishedPoll DEF ProvenBy

LEMMA AccountedReclaim ==
  ASSUME Typed, Accounted, ReclaimProven \/ ReclaimPolled
  PROVE  Accounted'
<1>1. CASE ReclaimProven
  BY <1>1 DEF ReclaimProven, TakeBack, history, program, Accounted, Tasks
<1>2. CASE ReclaimPolled
  <2>1. PICK t \in Victims :
          LET c == shape[t].channel
              n == IF Behind(t) = 0 THEN 0 ELSE PollBound(Behind(t)) + 1
          IN /\ finished' = [finished EXCEPT ![c] = Done(c, n)]
             /\ pollProven' = pollProven \cup ProvenBy(c, n)
             /\ UNCHANGED <<shape, left, pushes, knownComplete>>
    BY <1>2 DEF ReclaimPolled, TakeBack, program
  <2>2. PICK c \in Channels, n \in Nat :
          /\ finished' = [finished EXCEPT ![c] = Done(c, n)]
          /\ pollProven' = pollProven \cup ProvenBy(c, n)
    <3>1. shape[t].channel \in Channels
      BY TaskTyped DEF Victims, Typed
    <3>2. Behind(t) # 0 => PollBound(Behind(t)) \in Nat
      BY BoundTyped DEF Typed
    <3>3. PICK n \in Nat : n = IF Behind(t) = 0 THEN 0 ELSE PollBound(Behind(t)) + 1
      BY <3>2
    <3> QED
      BY <2>1, <3>1, <3>3
  <2>3. /\ finished'[c] = Done(c, n)
        /\ \A d \in Channels \ {c} : finished'[d] = finished[d]
    BY <2>2 DEF Typed, TypeOK
  <2>4. \A u : Unfinished(pushes[c], finished[c], u) /\ u \notin ProvenBy(c, n)
               => Unfinished(pushes[c], Done(c, n), u)
    BY AccountedPoll
  <2>5. \A u \in Tasks : shape[u].channel \in Channels
    BY TaskTyped DEF Typed
  <2> QED
    BY <2>1, <2>2, <2>3, <2>4, <2>5 DEF Accounted, Tasks
<1> QED
  BY <1>1, <1>2

LEMMA AccountedStart ==
  ASSUME Typed, Accounted, Start
  PROVE  Accounted'
<1>1. PICK t \in Tasks, c \in Channels :
        /\ t = next.task /\ c = shape[t].channel /\ next.token \in BOOLEAN
  BY NextTyped, TaskTyped DEF Typed, Start
<1>2. PICK e \in Pushes, f \in Nat, B \in SUBSET Tasks :
        /\ e.task = t /\ pushes' = [pushes EXCEPT ![c] = Append(@, e)]
        /\ f = IF Polls(c) THEN Done(c, Depth) ELSE finished[c]
        /\ B = IF Polls(c) THEN ProvenBy(c, Depth) ELSE {}
        /\ finished' = [finished EXCEPT ![c] = f]
        /\ pollProven' = (pollProven \cup B) \ {t}
        /\ f \in 0..Len(pushes[c])
  <2>1. [task |-> t, token |-> next.token, order |-> pushCount] \in Pushes
    BY <1>1 DEF Pushes, Typed, TypeOK
  <2>2. /\ finished[c] \in 0..Len(pushes[c]) /\ Len(pushes[c]) \in Nat
        /\ Done(c, Depth) \in finished[c]..Len(pushes[c])
        /\ ProvenBy(c, Depth) \subseteq Tasks
    BY DoneTyped, PushesCounted, DepthAssumption DEF Typed
  <2>3. PICK f \in Nat : /\ f = IF Polls(c) THEN Done(c, Depth) ELSE finished[c]
                         /\ f \in 0..Len(pushes[c])
    BY <2>2
  <2>4. PICK B \in SUBSET Tasks : B = IF Polls(c) THEN ProvenBy(c, Depth) ELSE {}
    BY <2>2
  <2> QED
    BY <1>1, <2>1, <2>3, <2>4 DEF Start
<1>3. /\ left' = [left EXCEPT ![t] = @ - 1] /\ shape' = shape
      /\ knownComplete' = knownComplete \ {t}
  BY <1>1 DEF Start
<1>4. /\ pushes[c] \in Seq(Pushes) /\ Len(pushes[c]) \in Nat
      /\ finished[c] \in 0..Len(pushes[c])
      /\ DOMAIN pushes = Channels /\ DOMAIN finished = Channels
  BY PushesCounted
<1>5. /\ pushes'[c] = Append(pushes[c], e) /\ finished'[c] = f
      /\ \A d \in Channels \ {c} : pushes'[d] = pushes[d] /\ finished'[d] = finished[d]
  BY <1>2, <1>4
<1>6. Unfinished(pushes'[c], finished'[c], t)
  BY <1>2, <1>4, <1>5, UnfinishedPush
<1>7. ASSUME NEW u, Unfinished(pushes[c], finished[c], u), u \notin B
      PROVE  Unfinished(pushes'[c], finished'[c], u)
  <2>1. Unfinished(pushes[c], f, u)
    <3>1. CASE Polls(c)
      BY <1>2, <1>7, <3>1, AccountedPoll, DepthAssumption
    <3>2. CASE ~Polls(c)
      BY <1>2, <1>7, <3>2
    <3> QED
      BY <3>1, <3>2
  <2> QED
    BY <1>2, <1>4, <1>5, <2>1, UnfinishedPush
<1>8. \A u \in Tasks : shape[u].channel \in Channels /\ (u # t => left'[u] = left[u])
  BY <1>3, TaskTyped DEF Typed
<1> QED
  BY <1>1, <1>2, <1>3, <1>5, <1>6, <1>7, <1>8 DEF Accounted, Tasks

LEMMA AccountedChooseConfigure ==
  ASSUME Typed, Accounted, ChooseConfigure
  PROVE  Accounted'
<1> DEFINE n == Len(shape)
<1>1. PICK s \in Shapes : /\ shape' = Append(shape, s)
                          /\ left' = Append(left, s.starts)
  BY DEF ChooseConfigure
<1>2. UNCHANGED <<pushes, finished, knownComplete, pollProven>>
  BY DEF ChooseConfigure, history
<1>3. /\ n \in Nat /\ Tasks = 1..n /\ Len(left) = n /\ s.starts \in Nat
      /\ shape \in Seq(Shapes) /\ left \in Seq(Nat)
  BY TaskTyped, BdAssumption DEF Typed, TypeOK
<1>4. /\ Len(shape') = n + 1 /\ shape'[n + 1] = s /\ left'[n + 1] = s.starts
      /\ shape' \in Seq(Shapes)
      /\ \A t \in Tasks : shape'[t] = shape[t] /\ left'[t] = left[t]
  BY <1>1, <1>3, AppendProperties
<1>5. Tasks' = Tasks \cup {n + 1} /\ ~(left'[n + 1] < shape'[n + 1].starts)
  BY <1>3, <1>4, LenProperties DEF Tasks
<1> HIDE DEF n
<1> QED
  BY <1>2, <1>4, <1>5 DEF Accounted

\* Steps that push nothing and learn of nothing.
LEMMA AccountedSame ==
  ASSUME Accounted,
         UNCHANGED <<shape, left, pushes, finished, knownComplete, pollProven>>
  PROVE  Accounted'
  BY DEF Accounted, Tasks

LEMMA AccountedNext ==
  ASSUME Typed, Accounted, [Next]_vars
  PROVE  Accounted'
<1>1. CASE Choose
  BY <1>1, AccountedChooseConfigure, AccountedSame DEF Choose, program, history
<1>2. CASE Start
  BY <1>2, AccountedStart
<1>3. CASE Await \/ Sync
  <2>1. next.op \in {"await", "sync"} /\ TakeToken(TokenChannel)
    BY <1>3 DEF Await, Sync
  <2> QED
    BY <2>1, DueTyped, AccountedToken DEF Typed
<1>4. CASE Free
  BY <1>4, AccountedSame DEF Free, program, history
<1>5. CASE Load
  BY <1>5, AccountedSame DEF Load, program, history
<1>6. CASE TakeId
  BY <1>6, AccountedSame DEF TakeId, program, history
<1>7. CASE ReclaimProven \/ ReclaimPolled
  BY <1>7, AccountedReclaim
<1>8. CASE Refuse
  BY <1>8, AccountedSame DEF Refuse, program, history
<1>9. CASE \E c \in Channels : Run(c) \/ Complete(c)
  BY <1>9, AccountedSame DEF Run, Complete, program, history
<1>10. CASE UNCHANGED vars
  BY <1>10, AccountedSame DEF vars, program, history
<1> QED
  BY <1>1, <1>2, <1>3, <1>4, <1>5, <1>6, <1>7, <1>8, <1>9, <1>10
    DEF Next, Execute

\* The pass only gives up on a configure when every task that holds an id it
\* could take is not started yet, or is started again later.
THEOREM ReclaimGoesOn == Spec => []GivesUpOnlyWhenStuck
<1>1. Typed /\ Accounted /\ [Next]_vars => Typed' /\ Accounted'
  BY TypedNext, AccountedNext
<1>2. Typed /\ Accounted => GivesUpOnlyWhenStuck
  <2> SUFFICES ASSUME Typed, Accounted, Proven \cup Victims = {}, OutOfIds,
                      NEW t \in Tasks \ (releasedTasks \cup unloaded),
                      \E id \in ids[t] : Accessible(id, shape[next.task].channel),
                      ~(left[t] > 0), shape[t].starts # 0
               PROVE  FALSE
    BY DEF GivesUpOnlyWhenStuck
  <2>1. PICK c \in Channels : c = shape[t].channel
    BY TaskTyped DEF Typed
  <2>2. /\ left[t] = 0 /\ left[t] < shape[t].starts
        /\ Len(pushes[c]) \in Nat /\ DOMAIN pushes[c] = 1..Len(pushes[c])
        /\ finished[c] \in Nat
    <3>1. left[t] \in Nat /\ shape[t].starts \in Nat
      BY TaskTyped, BdAssumption DEF Typed
    <3>2. left[t] = 0 /\ left[t] < shape[t].starts
      BY <3>1
    <3> QED
      BY <3>2, PushesCounted
  <2>3. Candidate(t)
    BY <2>2 DEF Candidate
  <2>4. t \notin knownComplete \cup pollProven
    BY <2>3 DEF Proven
  <2>5. PICK i \in finished[c] + 1..Len(pushes[c]) : pushes[c][i].task = t
    BY <2>1, <2>2, <2>4 DEF Accounted, Unfinished
  <2>6. i \in PushesOf(t) /\ PushesOf(t) \in SUBSET (1..Len(pushes[c]))
    BY <2>1, <2>2, <2>5 DEF PushesOf
  <2>7. Max(PushesOf(t)) \in 1..Len(pushes[c]) /\ Max(PushesOf(t)) >= i
    BY <2>2, <2>6, MaxIsGreatest
  <2>8. Max(PushesOf(t)) > finished[c]
    BY <2>2, <2>5, <2>7
  <2>9. t \in Victims
    BY <2>1, <2>3, <2>6, <2>8 DEF Victims
  <2> QED
    BY <2>9
<1> QED
  BY TypedInit, AccountedInit, <1>1, <1>2, PTL DEF Spec

-----------------------------------------------------------------------------
(* Counting what owes a token.                                             *)

LEMMA FiniteBelow ==
  ASSUME NEW n \in Nat, NEW S \in SUBSET (0..n - 1)
  PROVE  IsFiniteSet(S) /\ Cardinality(S) \in Nat
<1>1. IsFiniteSet(0..n - 1)
  BY FS_Interval
<1> QED
  BY <1>1, FS_Subset, FS_CardinalityType

\* A push moves all others one place back.
LEMMA ShiftCount ==
  ASSUME NEW n \in Nat, NEW S \in SUBSET (0..n - 1), NEW T \in SUBSET (0..n),
         \A k \in 0..n - 1 : k + 1 \in T <=> k \in S
  PROVE  Cardinality(T) = IF 0 \in T THEN Cardinality(S) + 1 ELSE Cardinality(S)
<1> DEFINE U == T \ {0}
           f == [k \in S |-> k + 1]
<1>1. IsFiniteSet(S) /\ Cardinality(S) \in Nat
  BY FiniteBelow
<1>2. f \in [S -> U]
  OBVIOUS
<1>3. \A k \in U : k - 1 \in S /\ f[k - 1] = k
  OBVIOUS
<1>4. \A j, k \in S : f[j] = f[k] => j = k
  OBVIOUS
<1> HIDE DEF f
<1>5. f \in Surjection(S, U)
  <2>1. \A k \in U : \E j \in S : f[j] = k
    BY <1>3
  <2> QED
    BY <1>2, <2>1, Zenon DEF Surjection
<1>6. f \in Injection(S, U)
  <2>1. DOMAIN f = S
    BY <1>2
  <2>2. IsInjective(f)
    BY <1>4, <2>1 DEF IsInjective
  <2> QED
    BY <1>2, <2>2, Zenon DEF Injection
<1>7. IsFiniteSet(U) /\ Cardinality(U) = Cardinality(S)
  BY <1>1, <1>5, <1>6, FS_Surjection, Zenon
<1>8. CASE 0 \in T
  <2>1. T = U \cup {0} /\ 0 \notin U
    BY <1>8
  <2> QED
    BY <1>7, <1>8, <2>1, FS_AddElement
<1>9. CASE 0 \notin T
  <2>1. T = U
    BY <1>9
  <2> QED
    BY <1>7, <1>9, <2>1
<1> QED
  BY <1>8, <1>9

\* Of the pushes S that owe a token, counted from the newest, some are still
\* in the queue (Q), which agrees on the newest `waiting`. Once a token is there
\* to take, the oldest of S has left the queue.
LEMMA Overtaken ==
  ASSUME NEW n \in Nat, NEW S \in SUBSET (0..n - 1),
         NEW m \in Nat, NEW Q \in SUBSET (0..m - 1),
         NEW produced \in Nat, produced > 0,
         produced + Cardinality(Q) <= Cardinality(S),
         NEW waiting \in Nat, \A k \in 0..waiting - 1 : k \in S => k \in Q,
         NEW r \in Nat, \A k \in S : k <= r
  PROVE  waiting <= r
<1> SUFFICES ASSUME waiting > r  PROVE FALSE
  OBVIOUS
<1>1. S \in SUBSET Q
  OBVIOUS
<1>2. IsFiniteSet(Q) /\ Cardinality(Q) \in Nat /\ Cardinality(S) \in Nat
  BY FiniteBelow
<1>3. Cardinality(S) <= Cardinality(Q)
  BY <1>1, <1>2, FS_Subset
<1> QED
  BY <1>2, <1>3

LEMMA OwingTyped ==
  ASSUME NEW R, NEW s \in Seq(R)
  PROVE  /\ Len(s) \in Nat /\ Owing(s) \in SUBSET (0..Len(s) - 1)
         /\ IsFiniteSet(Owing(s)) /\ Cardinality(Owing(s)) \in Nat
<1>1. Len(s) \in Nat
  BY LenProperties
<1>2. Owing(s) \in SUBSET (0..Len(s) - 1)
  BY DEF Owing
<1> QED
  BY <1>1, <1>2, FiniteBelow

LEMMA OwingAppend ==
  ASSUME NEW R, NEW s \in Seq(R), NEW x \in R
  PROVE  /\ Len(Append(s, x)) = Len(s) + 1 /\ Append(s, x) \in Seq(R)
         /\ 0 \in Owing(Append(s, x)) <=> x.token
         /\ \A k \in 0..Len(s) - 1 : k + 1 \in Owing(Append(s, x)) <=> k \in Owing(s)
         /\ Cardinality(Owing(Append(s, x)))
              = IF x.token THEN Cardinality(Owing(s)) + 1 ELSE Cardinality(Owing(s))
<1> DEFINE a == Append(s, x)
           n == Len(s)
<1>1. /\ a \in Seq(R) /\ Len(a) = n + 1 /\ n \in Nat /\ a[n + 1] = x
      /\ \A i \in 1..n : a[i] = s[i]
  BY AppendProperties, LenProperties
<1> HIDE DEF a, n
<1>2. 0 \in Owing(a) <=> x.token
  BY <1>1 DEF Owing
<1>3. ASSUME NEW k \in 0..n - 1  PROVE k + 1 \in Owing(a) <=> k \in Owing(s)
  <2>1. n - k \in 1..n /\ Len(a) - (k + 1) = n - k /\ k + 1 \in 0..Len(a) - 1
    BY <1>1
  <2>2. a[Len(a) - (k + 1)] = s[n - k]
    BY <1>1, <2>1
  <2> QED
    BY <2>1, <2>2, <1>1 DEF Owing, n
<1>4. Owing(a) \in SUBSET (0..n) /\ Owing(s) \in SUBSET (0..n - 1)
  BY <1>1 DEF Owing, n
<1>5. Cardinality(Owing(a)) = IF 0 \in Owing(a) THEN Cardinality(Owing(s)) + 1
                                               ELSE Cardinality(Owing(s))
  BY <1>1, <1>3, <1>4, ShiftCount
<1> QED
  BY <1>1, <1>2, <1>3, <1>5 DEF a, n

\* What is left of a queue without its oldest n.
LEMMA OwingRest ==
  ASSUME NEW R, NEW s \in Seq(R), NEW n \in 0..Len(s)
  PROVE  Owing(SubSeq(s, n + 1, Len(s))) = Owing(s) \cap 0..Len(s) - n - 1
<1> DEFINE l == Len(s)
           a == SubSeq(s, n + 1, l)
<1>1. l \in Nat /\ n \in Nat /\ \A i \in n + 1..l : s[i] \in R
  BY LenProperties, ElementOfSeq
<1>2. Len(a) = l - n /\ \A i \in 1..l - n : a[i] = s[n + i]
  BY <1>1, SubSeqProperties
<1> HIDE DEF a, l
<1>3. ASSUME NEW k \in 0..l - n - 1  PROVE k \in Owing(a) <=> k \in Owing(s)
  <2>1. l - n - k \in 1..l - n /\ n + (l - n - k) = l - k /\ k \in 0..l - 1
    BY <1>1
  <2>2. a[Len(a) - k] = s[l - k]
    BY <1>2, <2>1
  <2> QED
    BY <1>2, <2>1, <2>2 DEF Owing, l
<1>4. Owing(a) \subseteq 0..l - n - 1
  BY <1>2 DEF Owing
<1> QED
  BY <1>3, <1>4 DEF a, l

LEMMA OwingTail ==
  ASSUME NEW R, NEW s \in Seq(R), s # <<>>
  PROVE  /\ Tail(s) \in Seq(R) /\ Len(Tail(s)) = Len(s) - 1 /\ Len(s) > 0
         /\ Owing(Tail(s)) = Owing(s) \ {Len(s) - 1}
         /\ Cardinality(Owing(Tail(s)))
              = IF s[1].token THEN Cardinality(Owing(s)) - 1 ELSE Cardinality(Owing(s))
<1>1. /\ Tail(s) \in Seq(R) /\ Len(Tail(s)) = Len(s) - 1 /\ Len(s) \in Nat /\ Len(s) > 0
      /\ Tail(s) = SubSeq(s, 2, Len(s))
  BY HeadTailProperties, TailIsSubSeq, LenProperties, EmptySeq
<1>2. Owing(Tail(s)) = Owing(s) \cap 0..Len(s) - 2
  <2>1. ASSUME NEW n \in 0..Len(s), n = 1
        PROVE  Owing(Tail(s)) = Owing(s) \cap 0..Len(s) - n - 1
    <3>1. Tail(s) = SubSeq(s, n + 1, Len(s))
      BY <1>1, <2>1
    <3> QED
      BY <3>1, OwingRest
  <2>2. 1 \in 0..Len(s)
    BY <1>1
  <2> QED
    BY <1>1, <2>1, <2>2
<1>3. Owing(Tail(s)) = Owing(s) \ {Len(s) - 1}
  BY <1>1, <1>2, OwingTyped
<1>4. Len(s) - 1 \in Owing(s) <=> s[1].token
  BY <1>1 DEF Owing
<1> QED
  BY <1>1, <1>3, <1>4, OwingTyped, FS_RemoveElement

\* The same of the queue model, whose pushes are their tokens.
LEMMA OwingModelTyped ==
  ASSUME NEW m \in QueueModels
  PROVE  /\ Len(m.pushes) \in Nat /\ m.pushes \in Seq(BOOLEAN)
         /\ m.unknownTokens \in BOOLEAN
         /\ OwingInModel(m) \in SUBSET (0..Len(m.pushes) - 1)
         /\ IsFiniteSet(OwingInModel(m)) /\ Cardinality(OwingInModel(m)) \in Nat
<1>1. Len(m.pushes) \in Nat /\ m.pushes \in Seq(BOOLEAN) /\ m.unknownTokens \in BOOLEAN
  BY LenProperties DEF QueueModels
<1>2. OwingInModel(m) \in SUBSET (0..Len(m.pushes) - 1)
  BY DEF OwingInModel
<1> QED
  BY <1>1, <1>2, FiniteBelow

\* What a poll and an await leave of the pushes.
LEMMA SpaceLength ==
  ASSUME NEW m \in QueueModels
  PROVE  Len(SpaceModel(m).pushes)
           = IF Len(m.pushes) < Depth THEN Len(m.pushes) ELSE Depth - 1
<1> DEFINE n == Len(m.pushes)
           over == n - (Depth - 1)
           kept == SubSeq(m.pushes, over + 1, n)
           lost == m.unknownTokens \/ \E i \in 1..over : m.pushes[i]
           f == [i \in DOMAIN kept |-> kept[i] /\ ~lost]
<1>1. n \in Nat /\ m.pushes \in Seq(BOOLEAN)
  BY OwingModelTyped
<1>2. CASE over <= 0
  BY <1>1, <1>2, DepthAssumption DEF SpaceModel
<1>3. CASE ~(over <= 0)
  <2>1. over \in 0..n /\ n - over = Depth - 1 /\ Depth - 1 \in Nat /\ ~(n < Depth)
    BY <1>1, <1>3, DepthAssumption
  <2>2. SpaceModel(m).pushes = f
    BY <1>3, Zenon DEF SpaceModel
  <2>3. kept \in Seq(BOOLEAN) /\ Len(kept) = Depth - 1
    <3> HIDE DEF over
    <3> QED
      BY <1>1, <2>1, SubSeqTyped
  <2>4. DOMAIN kept = 1..Depth - 1
    <3> HIDE DEF kept
    <3> QED
      BY <2>3, LenProperties
  <2>5. f \in [1..Depth - 1 -> BOOLEAN]
    <3> HIDE DEF kept, lost
    <3> QED
      BY <2>4
  <2>6. f \in Seq(BOOLEAN) /\ DOMAIN f = 1..Depth - 1
    <3> HIDE DEF f
    <3> QED
      BY <2>1, <2>5, BooleanSeq
  <2>7. Len(f) = Depth - 1
    <3> HIDE DEF f
    <3>1. Len(f) \in Nat /\ DOMAIN f = 1..Len(f)
      BY <2>6, LenProperties
    <3> QED
      BY <2>1, <2>6, <3>1
  <2> HIDE DEF f
  <2> QED
    BY <2>1, <2>2, <2>7
<1> QED
  BY <1>2, <1>3

LEMMA AwaitLength ==
  ASSUME NEW m \in QueueModels
  PROVE  Len(AwaitModel(m).pushes) <= Len(m.pushes)
<1> DEFINE n == Len(m.pushes)
           issuing == {i \in DOMAIN m.pushes : m.pushes[i]}
<1>1. n \in Nat /\ m.pushes \in Seq(BOOLEAN) /\ DOMAIN m.pushes = 1..n
  BY OwingModelTyped, LenProperties
<1>2. CASE m.unknownTokens \/ issuing = {}
  BY <1>1, <1>2 DEF AwaitModel
<1>3. CASE ~(m.unknownTokens \/ issuing = {})
  <2>1. issuing \in SUBSET Nat /\ issuing \subseteq 1..n
    BY <1>1
  <2>2. Min(issuing) \in 1..n
    <3>1. Min(issuing) \in issuing
      BY <1>3, <2>1, MinIsLeast
    <3> QED
      BY <2>1, <3>1
  <2>3. AwaitModel(m).pushes = SubSeq(m.pushes, Min(issuing) + 1, n)
    BY <1>3 DEF AwaitModel, QueueModels
  <2>4. Len(SubSeq(m.pushes, Min(issuing) + 1, n)) = n - Min(issuing)
    <3> HIDE DEF issuing
    <3>1. Min(issuing) \in 0..n
      BY <1>1, <2>2
    <3> QED
      BY <1>1, <3>1, SubSeqTyped
  <2> HIDE DEF issuing
  <2> QED
    BY <1>1, <2>2, <2>3, <2>4
<1> QED
  BY <1>2, <1>3

LEMMA OwingModelPush ==
  ASSUME NEW m \in QueueModels, NEW token \in BOOLEAN
  PROVE  LET p == PushModel(m, token)
             n == Len(m.pushes)
         IN /\ Len(p.pushes) = n + 1 /\ p.unknownTokens = m.unknownTokens
            /\ ~m.unknownTokens =>
                 /\ 0 \in OwingInModel(p) <=> token
                 /\ \A k \in 0..n - 1 : k + 1 \in OwingInModel(p) <=> k \in OwingInModel(m)
                 /\ Cardinality(OwingInModel(p))
                      = IF token THEN Cardinality(OwingInModel(m)) + 1
                                 ELSE Cardinality(OwingInModel(m))
<1> DEFINE p == PushModel(m, token)
           x == token /\ ~m.unknownTokens
           n == Len(m.pushes)
<1>1. m.pushes \in Seq(BOOLEAN) /\ n \in Nat /\ x \in BOOLEAN
  BY OwingModelTyped
<1>2. p.pushes = Append(m.pushes, x) /\ p.unknownTokens = m.unknownTokens
  BY DEF PushModel, QueueModels
<1>3. /\ Len(p.pushes) = n + 1 /\ p.pushes[n + 1] = x
      /\ \A i \in 1..n : p.pushes[i] = m.pushes[i]
  <2> HIDE DEF x, p
  <2> QED
    BY <1>1, <1>2, AppendProperties
<1> HIDE DEF p, n
<1>4. 0 \in OwingInModel(p) <=> x
  <2>1. 0 \in 0..Len(p.pushes) - 1 /\ Len(p.pushes) - 0 = n + 1
    BY <1>1, <1>3
  <2>2. p.pushes[Len(p.pushes) - 0] <=> x
    BY <1>3, <2>1, Zenon
  <2> QED
    BY <2>1, <2>2, Zenon DEF OwingInModel
<1>5. ASSUME NEW k \in 0..n - 1  PROVE k + 1 \in OwingInModel(p) <=> k \in OwingInModel(m)
  <2>1. n - k \in 1..n /\ n + 1 - (k + 1) = n - k /\ k + 1 \in 0..n + 1 - 1
    BY <1>1
  <2> QED
    BY <1>3, <2>1 DEF OwingInModel, n
<1>6. OwingInModel(p) \in SUBSET (0..n) /\ OwingInModel(m) \in SUBSET (0..n - 1)
  BY <1>1, <1>3 DEF OwingInModel, n
<1>7. Cardinality(OwingInModel(p))
       = IF 0 \in OwingInModel(p) THEN Cardinality(OwingInModel(m)) + 1
                                  ELSE Cardinality(OwingInModel(m))
  BY <1>1, <1>5, <1>6, ShiftCount
<1> QED
  BY <1>2, <1>3, <1>4, <1>5, <1>7 DEF p, n

-----------------------------------------------------------------------------
(* The queue model through what happens to a channel.                      *)

\* A token is taken.
LEMMA ModelsAwait ==
  ASSUME NEW m \in QueueModels, NEW R, NEW q \in Seq(R), NEW w \in Nat,
         NEW produced \in Nat, produced > 0, Models(m, q, w, produced)
  PROVE  Models(AwaitModel(m), q, w, produced - 1)
<1> DEFINE n == Len(m.pushes)
           issuing == {i \in DOMAIN m.pushes : m.pushes[i]}
           S == OwingInModel(m)
           a == AwaitModel(m)
<1>1. /\ n \in Nat /\ m.pushes \in Seq(BOOLEAN) /\ DOMAIN m.pushes = 1..n
      /\ S \in SUBSET (0..n - 1) /\ IsFiniteSet(S) /\ Cardinality(S) \in Nat
  BY OwingModelTyped, LenProperties
<1>2. /\ Len(q) \in Nat /\ Owing(q) \in SUBSET (0..Len(q) - 1)
      /\ Cardinality(Owing(q)) \in Nat
  BY OwingTyped
<1>3. CASE m.unknownTokens
  BY <1>3 DEF AwaitModel, Models
<1>4. CASE ~m.unknownTokens
  <2>1. /\ w <= n /\ produced + Cardinality(Owing(q)) <= Cardinality(S)
        /\ \A k \in 0..w - 1 : k \in S <=> k \in Owing(q)
    BY <1>4 DEF Models
  <2>2. S # {}
    BY <1>1, <1>2, <2>1, FS_EmptySet
  <2>3. \A k \in 0..n - 1 : k \in S <=> n - k \in issuing
    BY <1>1 DEF OwingInModel
  <2>4. issuing # {} /\ issuing \in SUBSET Nat /\ issuing \subseteq 1..n
    <3>1. issuing \subseteq 1..n
      BY <1>1
    <3>2. PICK k \in S : k \in 0..n - 1
      BY <1>1, <2>2
    <3>3. n - k \in issuing
      BY <2>3, <3>2
    <3> HIDE DEF issuing
    <3> QED
      BY <3>1, <3>3
  <2> DEFINE i == Min(issuing)
             r == n - i
  <2>5. i \in issuing /\ \A j \in issuing : i <= j
    BY <2>4, MinIsLeast
  <2>6. i \in 1..n /\ r \in 0..n - 1
    BY <1>1, <2>4, <2>5
  <2>7. a = [m EXCEPT !.pushes = SubSeq(@, i + 1, n)]
    BY <1>4, <2>4 DEF AwaitModel
  <2>8. a.pushes = SubSeq(m.pushes, i + 1, n) /\ a.unknownTokens = m.unknownTokens
    BY <2>7 DEF QueueModels
  <2> HIDE DEF i, a, issuing, S, n
  <2>9. \A k \in S : k <= r
    BY <1>1, <2>3, <2>5, <2>6
  <2>10. r \in S
    BY <1>1, <2>3, <2>5, <2>6
  <2>11. w <= r
    <3>1. r \in Nat /\ \A k \in 0..w - 1 : k \in S => k \in Owing(q)
      BY <1>1, <2>1, <2>6
    <3> QED
      BY <1>1, <1>2, <2>1, <2>9, <3>1, Overtaken
  <2>12. Len(a.pushes) = r /\ \A j \in 1..r : a.pushes[j] = m.pushes[i + j]
    <3>1. i \in 0..n
      BY <1>1, <2>6
    <3>2. /\ Len(SubSeq(m.pushes, i + 1, n)) = n - i
          /\ \A j \in 1..n - i : SubSeq(m.pushes, i + 1, n)[j] = m.pushes[i + j]
      BY <1>1, <3>1, SubSeqTyped DEF n
    <3> QED
      BY <2>8, <3>2
  <2>13. OwingInModel(a) = S \ {r}
    <3>1. ASSUME NEW k \in 0..r - 1  PROVE k \in OwingInModel(a) <=> k \in S
      <4>1. r - k \in 1..r /\ i + (r - k) = n - k /\ k \in 0..n - 1
        BY <1>1, <2>6
      <4> QED
        BY <2>12, <4>1 DEF OwingInModel, S, n
    <3>2. OwingInModel(a) \subseteq 0..r - 1
      BY <2>12 DEF OwingInModel
    <3>3. \A k \in S : k \in 0..n - 1 /\ (k \in 0..r - 1 \/ k = r)
      BY <1>1, <2>6, <2>9
    <3>4. r \notin 0..r - 1
      BY <1>1, <2>6
    <3> HIDE DEF r
    <3> QED
      BY <3>1, <3>2, <3>3, <3>4
  <2>14. Cardinality(OwingInModel(a)) = Cardinality(S) - 1
    BY <1>1, <2>10, <2>13, FS_RemoveElement
  <2>15. /\ w <= Len(a.pushes)
         /\ produced - 1 + Cardinality(Owing(q)) <= Cardinality(OwingInModel(a))
         /\ \A k \in 0..w - 1 : k \in OwingInModel(a) <=> k \in Owing(q)
    BY <1>1, <1>2, <2>1, <2>6, <2>11, <2>12, <2>13, <2>14
  <2> QED
    BY <2>15 DEF Models, a
<1> QED
  BY <1>3, <1>4

LEMMA ModelsPush ==
  ASSUME NEW m \in QueueModels, NEW R, NEW q \in Seq(R), NEW x \in R,
         x.token \in BOOLEAN, NEW w \in 0..Len(q), NEW produced \in Nat,
         Models(m, q, w, produced)
  PROVE  Models(PushModel(m, x.token), Append(q, x), w + 1, produced)
<1> DEFINE p == PushModel(m, x.token)
           a == Append(q, x)
           n == Len(m.pushes)
<1>1. n \in Nat /\ Len(q) \in Nat /\ w <= n
  BY OwingModelTyped, LenProperties DEF Models
<1>2. Len(p.pushes) = n + 1 /\ p.unknownTokens = m.unknownTokens
  BY OwingModelPush
<1>3. CASE m.unknownTokens
  BY <1>1, <1>2, <1>3 DEF Models
<1>4. CASE ~m.unknownTokens
  <2>1. /\ produced + Cardinality(Owing(q)) <= Cardinality(OwingInModel(m))
        /\ \A k \in 0..w - 1 : k \in OwingInModel(m) <=> k \in Owing(q)
    BY <1>4 DEF Models
  <2>2. /\ 0 \in OwingInModel(p) <=> x.token
        /\ \A k \in 0..n - 1 : k + 1 \in OwingInModel(p) <=> k \in OwingInModel(m)
        /\ Cardinality(OwingInModel(p))
             = IF x.token THEN Cardinality(OwingInModel(m)) + 1
                          ELSE Cardinality(OwingInModel(m))
    BY <1>4, OwingModelPush
  <2>3. /\ 0 \in Owing(a) <=> x.token
        /\ \A k \in 0..Len(q) - 1 : k + 1 \in Owing(a) <=> k \in Owing(q)
        /\ Cardinality(Owing(a))
             = IF x.token THEN Cardinality(Owing(q)) + 1 ELSE Cardinality(Owing(q))
    BY OwingAppend
  <2>4. Cardinality(OwingInModel(m)) \in Nat /\ Cardinality(Owing(q)) \in Nat
    BY OwingModelTyped, OwingTyped
  <2> HIDE DEF p, a, n
  <2>5. produced + Cardinality(Owing(a)) <= Cardinality(OwingInModel(p))
    BY <2>1, <2>2, <2>3, <2>4
  <2>6. ASSUME NEW k \in 0..w  PROVE k \in OwingInModel(p) <=> k \in Owing(a)
    <3>1. CASE k = 0
      BY <2>2, <2>3, <3>1
    <3>2. CASE k # 0
      <4>1. k - 1 \in 0..w - 1 /\ k - 1 \in 0..n - 1 /\ k - 1 \in 0..Len(q) - 1
            /\ k - 1 + 1 = k
        BY <1>1, <3>2
      <4> QED
        BY <2>1, <2>2, <2>3, <4>1
    <3> QED
      BY <3>1, <3>2
  <2>7. w + 1 <= Len(p.pushes) /\ w + 1 - 1 = w
    BY <1>1, <1>2
  <2> QED
    BY <2>5, <2>6, <2>7 DEF Models, p, a
<1> QED
  BY <1>3, <1>4

\* A poll has found a free slot.
LEMMA ModelsSpace ==
  ASSUME NEW m \in QueueModels, NEW q, NEW w \in Nat, w <= Depth - 1,
         NEW produced \in Nat, Models(m, q, w, produced)
  PROVE  Models(SpaceModel(m), q, w, produced)
<1> DEFINE n == Len(m.pushes)
           over == n - (Depth - 1)
           kept == SubSeq(m.pushes, over + 1, n)
           lost == m.unknownTokens \/ \E i \in 1..over : m.pushes[i]
           s == SpaceModel(m)
<1>1. n \in Nat /\ m.pushes \in Seq(BOOLEAN) /\ m.unknownTokens \in BOOLEAN
  BY OwingModelTyped
<1>2. CASE over <= 0
  BY <1>2 DEF SpaceModel
<1>3. CASE ~(over <= 0)
  <2>1. over \in 1..n /\ Depth - 1 \in Nat /\ n - over = Depth - 1
    BY <1>1, <1>3, DepthAssumption
  <2>2. s = [pushes |-> [i \in DOMAIN kept |-> kept[i] /\ ~lost], unknownTokens |-> lost]
    BY <1>3, Zenon DEF SpaceModel
  <2>3. /\ Len(kept) = Depth - 1 /\ kept \in Seq(BOOLEAN)
        /\ \A i \in 1..Depth - 1 : kept[i] = m.pushes[over + i]
    <3>1. \A j \in over + 1..n : m.pushes[j] \in BOOLEAN
      BY <1>1, <2>1, ElementOfSeq
    <3> HIDE DEF over, n
    <3> QED
      BY <1>1, <2>1, <3>1, SubSeqProperties
  <2>4. DOMAIN kept = 1..Depth - 1
    BY <2>3, LenProperties
  <2>5. s.unknownTokens = lost /\ s.pushes = [i \in 1..Depth - 1 |-> kept[i] /\ ~lost]
    <3> HIDE DEF kept, lost, s
    <3> QED
      BY <2>2, <2>4
  <2>6. lost \in BOOLEAN
    OBVIOUS
  <2> HIDE DEF kept, lost, s, over, n
  <2>7. Len(s.pushes) = Depth - 1
    <3>1. ~(n < Depth)
      BY <1>1, <2>1, DepthAssumption
    <3> QED
      BY <3>1, SpaceLength DEF s, n
  <2>8. CASE lost
    BY <2>5, <2>7, <2>8 DEF Models, s
  <2>9. CASE ~lost
    <3>1. ~m.unknownTokens /\ \A i \in 1..over : ~m.pushes[i]
      BY <2>9 DEF lost
    <3>2. \A i \in 1..Depth - 1 : s.pushes[i] <=> m.pushes[over + i]
      BY <2>3, <2>5, <2>9
    <3>3. ASSUME NEW k \in 0..Depth - 2
          PROVE  k \in OwingInModel(s) <=> k \in OwingInModel(m)
      <4>1. /\ Depth - 1 - k \in 1..Depth - 1 /\ over + (Depth - 1 - k) = n - k
            /\ k \in 0..n - 1 /\ k \in 0..Depth - 1 - 1
        BY <1>1, <2>1, DepthAssumption
      <4> QED
        BY <2>7, <3>2, <4>1 DEF OwingInModel, n
    <3>4. ASSUME NEW k \in OwingInModel(m)  PROVE k \in 0..Depth - 2
      <4>1. k \in 0..n - 1 /\ m.pushes[n - k]
        BY DEF OwingInModel, n
      <4>2. n - k \notin 1..over
        BY <3>1, <4>1
      <4> QED
        BY <1>1, <2>1, <4>1, <4>2, DepthAssumption
    <3>5. OwingInModel(s) \subseteq 0..Depth - 2
      BY <2>1, <2>7, DepthAssumption DEF OwingInModel
    <3>6. OwingInModel(s) = OwingInModel(m)
      BY <3>3, <3>4, <3>5
    <3> QED
      BY <2>7, <3>1, <3>6 DEF Models, s
  <2> QED
    BY <2>8, <2>9
<1> QED
  BY <1>2, <1>3

\* The push at the head runs, and is through.
LEMMA ModelsRun ==
  ASSUME NEW m \in QueueModels, NEW q, NEW w \in Nat, NEW v \in Nat, v <= w,
         NEW produced, Models(m, q, w, produced)
  PROVE  Models(m, q, v, produced)
<1>1. Len(m.pushes) \in Nat
  BY OwingModelTyped
<1> QED
  BY <1>1 DEF Models

LEMMA ModelsComplete ==
  ASSUME NEW m \in QueueModels, NEW R, NEW q \in Seq(R), q # <<>>,
         q[1].token \in BOOLEAN, NEW produced \in Nat,
         Models(m, q, Len(q) - 1, produced)
  PROVE  Models(m, Tail(q), Len(q) - 1, IF q[1].token THEN produced + 1 ELSE produced)
<1>1. /\ Len(q) \in Nat /\ Cardinality(Owing(q)) \in Nat
      /\ Owing(Tail(q)) = Owing(q) \ {Len(q) - 1}
      /\ Cardinality(Owing(Tail(q)))
           = IF q[1].token THEN Cardinality(Owing(q)) - 1 ELSE Cardinality(Owing(q))
  BY OwingTyped, OwingTail
<1> QED
  BY <1>1, OwingModelTyped DEF Models

LEMMA OwingOfNone ==
  Owing(<<>>) = {} /\ Cardinality(Owing(<<>>)) = 0
<1>1. Owing(<<>>) = {}
  BY EmptySeq DEF Owing
<1> QED
  BY <1>1, FS_EmptySet, Zenon

\* A load empties the queue, and may lose tokens.
LEMMA ModelsLoad ==
  ASSUME NEW m \in QueueModels, NEW R, NEW q \in Seq(R), NEW w \in Nat,
         NEW produced \in Nat, NEW kept \in 0..produced, Models(m, q, w, produced)
  PROVE  Models(m, <<>>, 0, kept)
<1>1. Cardinality(Owing(<<>>)) = 0
  BY OwingOfNone
<1>2. Cardinality(Owing(q)) \in Nat /\ Len(m.pushes) \in Nat
      /\ Cardinality(OwingInModel(m)) \in Nat
  BY OwingTyped, OwingModelTyped
<1>3. ~m.unknownTokens => kept + Cardinality(Owing(<<>>)) <= Cardinality(OwingInModel(m))
  <2>1. ~m.unknownTokens => produced + Cardinality(Owing(q)) <= Cardinality(OwingInModel(m))
    BY DEF Models
  <2> QED
    BY <1>1, <1>2, <2>1
<1>4. 0..0 - 1 = {}
  OBVIOUS
<1> QED
  BY <1>2, <1>3, <1>4 DEF Models

-----------------------------------------------------------------------------
(* The recorded pushes through the same.                                   *)

\* With a token to take, some push is known that issues one.
LEMMA RecordsOwe ==
  ASSUME NEW R, NEW p \in Seq(R), NEW E, NEW q \in Seq(E),
         NEW done, NEW produced \in Nat, produced > 0, Records(p, done, q, produced)
  PROVE  \E i \in 1..Len(p) : p[i].token
<1>1. /\ Len(p) \in Nat /\ Owing(p) \in SUBSET (0..Len(p) - 1)
      /\ IsFiniteSet(Owing(p)) /\ Cardinality(Owing(p)) \in Nat
      /\ Cardinality(Owing(q)) \in Nat
  BY OwingTyped
<1>2. Cardinality(Owing(p)) # 0
  BY <1>1 DEF Records
<1>3. Owing(p) # {}
  BY <1>1, <1>2, FS_EmptySet, Zenon
<1>4. PICK k \in Owing(p) : k \in 0..Len(p) - 1 /\ p[Len(p) - k].token
  BY <1>3 DEF Owing
<1>5. Len(p) - k \in 1..Len(p)
  BY <1>1, <1>4
<1> QED
  BY <1>4, <1>5

\* A token retires the oldest push that issues one, and those ahead of it.
LEMMA RecordsAwait ==
  ASSUME NEW R, NEW p \in Seq(R), NEW E, NEW q \in Seq(E),
         NEW done \in Nat, done <= Len(p), NEW produced \in Nat, produced > 0,
         Records(p, done, q, produced),
         NEW n \in 1..Len(p), p[n].token, \A j \in 1..n - 1 : ~p[j].token
  PROVE  /\ Len(q) <= Len(p) - n
         /\ Records(SubSeq(p, n + 1, Len(p)), IF done - n >= 0 THEN done - n ELSE 0,
                    q, produced - 1)
<1> DEFINE l == Len(p)
           S == Owing(p)
           r == l - n
           a == SubSeq(p, n + 1, l)
<1>1. /\ l \in Nat /\ S \in SUBSET (0..l - 1)
      /\ IsFiniteSet(S) /\ Cardinality(S) \in Nat
      /\ \A i \in 1..l : p[i] \in R
  BY OwingTyped, LenProperties, ElementOfSeq
<1>2. /\ Len(q) \in Nat /\ Owing(q) \in SUBSET (0..Len(q) - 1)
      /\ Cardinality(Owing(q)) \in Nat
  BY OwingTyped
<1>3. /\ Len(q) <= l - done
      /\ produced + Cardinality(Owing(q)) <= Cardinality(S)
      /\ \A k \in 0..Len(q) - 1 : /\ p[l - k].task = q[Len(q) - k].task
                                 /\ p[l - k].token = q[Len(q) - k].token
  BY DEF Records
<1>5. \A k \in 0..l - 1 : k \in S <=> p[l - k].token
  BY DEF Owing
<1>7. p[n].token /\ \A j \in 1..n - 1 : ~p[j].token
  OBVIOUS
<1>8. n \in 1..l /\ r \in 0..l - 1
  BY <1>1
<1> HIDE DEF l, S, a
<1>9. \A k \in S : k <= r
  <2>1. ASSUME NEW k \in S, k > r  PROVE FALSE
    <3>1. k \in 0..l - 1 /\ l - k \in 1..n - 1
      BY <1>1, <1>8, <2>1
    <3> QED
      BY <1>5, <1>7, <3>1
  <2> QED
    BY <1>1, <1>8, <2>1
<1>10. r \in S
  <2>1. l - r = n
    BY <1>1, <1>8
  <2> QED
    BY <1>5, <1>7, <1>8, <2>1
<1>11. Len(q) <= r
  <2>1. r \in Nat /\ \A k \in 0..Len(q) - 1 : k \in S => k \in Owing(q)
    BY <1>1, <1>3, <1>8 DEF Owing, S, l
  <2> QED
    BY <1>1, <1>2, <1>3, <1>9, <2>1, Overtaken
<1>12. Len(a) = r /\ \A j \in 1..r : a[j] = p[n + j]
  <2>1. \A j \in n + 1..l : p[j] \in R
    BY <1>1, <1>8
  <2> QED
    BY <1>1, <1>8, <2>1, SubSeqProperties DEF a
<1>13. Owing(a) = S \ {r}
  <2>1. Owing(a) = S \cap 0..l - n - 1
    BY <1>1, <1>8, OwingRest DEF a, S, l
  <2>2. \A k \in S : k \in 0..l - 1 /\ (k \in 0..r - 1 \/ k = r)
    BY <1>1, <1>8, <1>9
  <2>3. r \notin 0..r - 1 /\ l - n - 1 = r - 1
    BY <1>1, <1>8
  <2> HIDE DEF r
  <2> QED
    BY <2>1, <2>2, <2>3
<1>14. Cardinality(Owing(a)) = Cardinality(S) - 1
  BY <1>1, <1>10, <1>13, FS_RemoveElement
<1>15. ASSUME NEW k \in 0..Len(q) - 1
       PROVE  /\ a[Len(a) - k].task = q[Len(q) - k].task
              /\ a[Len(a) - k].token = q[Len(q) - k].token
  <2>1. r - k \in 1..r /\ n + (r - k) = l - k
    BY <1>1, <1>2, <1>8, <1>11
  <2>2. a[Len(a) - k] = p[l - k]
    BY <1>12, <2>1
  <2> QED
    BY <1>3, <2>2
<1> DEFINE d == IF done - n >= 0 THEN done - n ELSE 0
<1>16. Len(q) <= Len(a) - d
  BY <1>1, <1>2, <1>3, <1>8, <1>11, <1>12
<1>17. produced - 1 + Cardinality(Owing(q)) <= Cardinality(Owing(a))
  BY <1>1, <1>2, <1>3, <1>14
<1> HIDE DEF d
<1>18. Records(a, d, q, produced - 1)
  BY <1>15, <1>16, <1>17 DEF Records
<1> QED
  BY <1>1, <1>8, <1>11, <1>18 DEF a, d, l

LEMMA RecordsPush ==
  ASSUME NEW R, NEW p \in Seq(R), NEW x \in R, NEW E, NEW q \in Seq(E), NEW y \in E,
         x.task = y.task, x.token = y.token,
         NEW done \in Nat, NEW produced \in Nat, Records(p, done, q, produced)
  PROVE  Records(Append(p, x), done, Append(q, y), produced)
<1> DEFINE a == Append(p, x)
           b == Append(q, y)
<1>1. /\ Len(p) \in Nat /\ Len(q) \in Nat /\ Len(a) = Len(p) + 1 /\ Len(b) = Len(q) + 1
      /\ a[Len(p) + 1] = x /\ \A i \in 1..Len(p) : a[i] = p[i]
      /\ b[Len(q) + 1] = y /\ \A i \in 1..Len(q) : b[i] = q[i]
  BY AppendProperties, LenProperties
<1>2. /\ Len(q) <= Len(p) - done
      /\ produced + Cardinality(Owing(q)) <= Cardinality(Owing(p))
      /\ \A k \in 0..Len(q) - 1 : /\ p[Len(p) - k].task = q[Len(q) - k].task
                                 /\ p[Len(p) - k].token = q[Len(q) - k].token
  BY DEF Records
<1>3. produced + Cardinality(Owing(b)) <= Cardinality(Owing(a))
  <2>1. /\ Cardinality(Owing(p)) \in Nat /\ Cardinality(Owing(q)) \in Nat
        /\ Cardinality(Owing(a))
             = IF x.token THEN Cardinality(Owing(p)) + 1 ELSE Cardinality(Owing(p))
        /\ Cardinality(Owing(b))
             = IF y.token THEN Cardinality(Owing(q)) + 1 ELSE Cardinality(Owing(q))
    BY OwingTyped, OwingAppend
  <2> HIDE DEF a, b
  <2> QED
    BY <1>2, <2>1
<1> HIDE DEF a, b
<1>4. ASSUME NEW k \in 0..Len(b) - 1
      PROVE  /\ a[Len(a) - k].task = b[Len(b) - k].task
             /\ a[Len(a) - k].token = b[Len(b) - k].token
  <2>1. CASE k = 0
    BY <1>1, <2>1
  <2>2. CASE k # 0
    <3>1. /\ k - 1 \in 0..Len(q) - 1 /\ Len(a) - k = Len(p) - (k - 1)
          /\ Len(b) - k = Len(q) - (k - 1) /\ Len(p) - (k - 1) \in 1..Len(p)
          /\ Len(q) - (k - 1) \in 1..Len(q)
      BY <1>1, <1>2, <2>2
    <3> QED
      BY <1>1, <1>2, <3>1
  <2> QED
    BY <2>1, <2>2
<1>5. Len(b) <= Len(a) - done
  BY <1>1, <1>2
<1> QED
  BY <1>3, <1>4, <1>5 DEF Records, a, b

LEMMA RecordsComplete ==
  ASSUME NEW p, NEW E, NEW q \in Seq(E), q # <<>>, q[1].token \in BOOLEAN,
         Len(p) \in Nat, Cardinality(Owing(p)) \in Nat,
         NEW done \in Nat, NEW produced \in Nat, Records(p, done, q, produced)
  PROVE  Records(p, done, Tail(q), IF q[1].token THEN produced + 1 ELSE produced)
<1> DEFINE b == Tail(q)
<1>1. /\ Len(q) \in Nat /\ Cardinality(Owing(q)) \in Nat /\ Len(b) = Len(q) - 1
      /\ \A i \in 1..Len(b) : b[i] = q[i + 1]
      /\ Cardinality(Owing(b))
           = IF q[1].token THEN Cardinality(Owing(q)) - 1 ELSE Cardinality(Owing(q))
  BY OwingTyped, OwingTail, HeadTailProperties
<1> HIDE DEF b
<1>2. /\ Len(q) <= Len(p) - done
      /\ produced + Cardinality(Owing(q)) <= Cardinality(Owing(p))
      /\ \A k \in 0..Len(q) - 1 : /\ p[Len(p) - k].task = q[Len(q) - k].task
                                 /\ p[Len(p) - k].token = q[Len(q) - k].token
  BY DEF Records
<1>3. ASSUME NEW k \in 0..Len(b) - 1
      PROVE  k \in 0..Len(q) - 1 /\ b[Len(b) - k] = q[Len(q) - k]
  <2>1. Len(b) = Len(q) - 1 /\ Len(b) \in Int
    BY <1>1
  <2>2. Len(b) - k \in 1..Len(b) /\ Len(b) - k + 1 = Len(q) - k
    BY <1>1, <2>1
  <2>3. k \in 0..Len(q) - 1
    BY <1>1, <2>1
  <2>4. b[Len(b) - k] = q[Len(b) - k + 1]
    BY <1>1, <2>2
  <2> QED
    BY <2>2, <2>3, <2>4
<1> QED
  BY <1>1, <1>2, <1>3 DEF Records, b

LEMMA RecordsLoad ==
  ASSUME NEW p, NEW E, NEW q \in Seq(E), Len(p) \in Nat, Cardinality(Owing(p)) \in Nat,
         NEW done \in Nat, NEW produced \in Nat, NEW kept \in 0..produced,
         Records(p, done, q, produced)
  PROVE  Records(p, done, <<>>, kept)
<1>1. Len(q) \in Nat /\ Cardinality(Owing(q)) \in Nat
  BY OwingTyped
<1>2. Cardinality(Owing(<<>>)) = 0 /\ Len(<<>>) = 0
  BY OwingOfNone, EmptySeq
<1>3. Len(q) <= Len(p) - done /\ produced + Cardinality(Owing(q)) <= Cardinality(Owing(p))
  BY DEF Records
<1>4. Len(<<>>) <= Len(p) - done /\ kept + Cardinality(Owing(<<>>)) <= Cardinality(Owing(p))
  BY <1>1, <1>2, <1>3
<1>5. 0..Len(<<>>) - 1 = {}
  BY <1>2
<1> QED
  BY <1>4, <1>5 DEF Records

-----------------------------------------------------------------------------
(* QueueInv is inductive while the queue depth is enforced.                *)

LEMMA ChannelTyped ==
  ASSUME Typed, NEW c \in Channels
  PROVE  /\ model[c] \in QueueModels /\ tokens[c] \in Nat
         /\ pushes[c] \in Seq(Pushes) /\ queue[c] \in Seq(Entries)
         /\ Len(pushes[c]) \in Nat /\ Len(queue[c]) \in Nat
         /\ finished[c] \in Nat /\ finished[c] <= Len(pushes[c])
         /\ Waiting(c) \in 0..Len(queue[c]) /\ Len(queue[c]) <= Waiting(c) + 1
         /\ \A i \in 1..Len(pushes[c]) :
              pushes[c][i].task \in Tasks /\ pushes[c][i].token \in BOOLEAN
         /\ DOMAIN queue[c] = 1..Len(queue[c])
         /\ \A i \in 1..Len(queue[c]) :
              queue[c][i].task \in Tasks /\ queue[c][i].token \in BOOLEAN
<1>1. /\ model[c] \in QueueModels /\ tokens[c] \in Nat
      /\ pushes[c] \in Seq(Pushes) /\ queue[c] \in Seq(Entries)
      /\ finished[c] \in Nat /\ finished[c] <= Len(pushes[c])
      /\ running[c] \in BOOLEAN /\ running[c] => queue[c] # <<>>
  BY DEF Typed, TypeOK, Counted, QueueModels, Pushes, Entries
<1>2. /\ Len(pushes[c]) \in Nat /\ Len(queue[c]) \in Nat
      /\ queue[c] # <<>> => Len(queue[c]) > 0
      /\ DOMAIN queue[c] = 1..Len(queue[c])
  BY <1>1, LenProperties, EmptySeq
<1>3. Waiting(c) \in 0..Len(queue[c]) /\ Len(queue[c]) <= Waiting(c) + 1
  <2>1. CASE running[c]
    <3>1. Waiting(c) = Len(queue[c]) - 1 /\ Len(queue[c]) > 0
      BY <1>1, <1>2, <2>1 DEF Waiting
    <3> QED
      BY <1>2, <3>1
  <2>2. CASE ~running[c]
    <3>1. Waiting(c) = Len(queue[c])
      BY <1>2, <2>2 DEF Waiting
    <3> QED
      BY <1>2, <3>1
  <2> QED
    BY <2>1, <2>2
<1>4. /\ \A i \in 1..Len(pushes[c]) :
           pushes[c][i].task \in Tasks /\ pushes[c][i].token \in BOOLEAN
      /\ \A i \in 1..Len(queue[c]) :
           queue[c][i].task \in Tasks /\ queue[c][i].token \in BOOLEAN
  <2>1. \A i \in 1..Len(pushes[c]) : pushes[c][i] \in Pushes
    BY <1>1, ElementOfSeq
  <2>2. \A i \in 1..Len(queue[c]) : queue[c][i] \in Entries
    BY <1>1, ElementOfSeq
  <2> QED
    BY <2>1, <2>2 DEF Pushes, Entries
<1> QED
  BY <1>1, <1>2, <1>3, <1>4

LEMMA FromTheEnd ==
  ASSUME NEW a \in Nat, NEW b \in Nat, NEW j \in 1..b
  PROVE  LET i == a - (b - j) IN i \in Int /\ a - b + 1 <= i /\ i <= a
  OBVIOUS

LEMMA AmongTheNewest ==
  ASSUME NEW a \in Nat, NEW b \in Nat, NEW n \in Nat, b <= a - n,
         NEW i \in a - b + 1..a
  PROVE  i \in n + 1..a
  OBVIOUS

\* What is in flight is recorded, on the channel of its task.
LEMMA InFlightIsRecorded ==
  ASSUME Typed, PushesCover, OnItsChannel, NEW t, InFlight(t)
  PROVE  LET c == shape[t].channel
         IN /\ t \in Tasks /\ c \in Channels
            /\ \E i \in Len(pushes[c]) - Len(queue[c]) + 1..Len(pushes[c]) :
                 i \in 1..Len(pushes[c]) /\ pushes[c][i].task = t
<1>1. PICK d \in Channels : \E j \in DOMAIN queue[d] : queue[d][j].task = t
  BY DEF InFlight
<1>2. PICK j \in 1..Len(queue[d]) : queue[d][j].task = t
  BY <1>1, ChannelTyped
<1> DEFINE k == Len(queue[d]) - j
           i == Len(pushes[d]) - k
<1>3. /\ Len(queue[d]) \in Nat /\ Len(pushes[d]) \in Nat
      /\ finished[d] \in Nat /\ t \in Tasks
  BY <1>2, ChannelTyped
<1>4. /\ Len(queue[d]) <= Len(pushes[d]) - finished[d]
      /\ \A m \in 0..Len(queue[d]) - 1 :
           pushes[d][Len(pushes[d]) - m].task = queue[d][Len(queue[d]) - m].task
  BY DEF PushesCover, Records
<1>5. /\ k \in 0..Len(queue[d]) - 1 /\ Len(queue[d]) - k = j
      /\ i \in Len(pushes[d]) - Len(queue[d]) + 1..Len(pushes[d])
      /\ i \in 1..Len(pushes[d])
  <2>1. Len(queue[d]) <= Len(pushes[d])
    BY <1>3, <1>4
  <2>2. j \in 1..Len(queue[d])
    BY <1>2
  <2>3. /\ k \in 0..Len(queue[d]) - 1 /\ Len(queue[d]) - k = j
    BY <1>3, <2>2
  <2>4. i \in Int /\ Len(pushes[d]) - Len(queue[d]) + 1 <= i /\ i <= Len(pushes[d])
    BY <1>3, <2>2, FromTheEnd
  <2>5. 1 <= i
    BY <1>3, <2>1, <2>4
  <2> HIDE DEF i, k
  <2> QED
    BY <1>3, <2>3, <2>4, <2>5
<1>6. pushes[d][i].task = t
  BY <1>2, <1>4, <1>5
<1>7. DOMAIN pushes[d] = 1..Len(pushes[d])
  BY PushTyped DEF Typed
<1>8. shape[t].channel = d
  BY <1>5, <1>6, <1>7 DEF OnItsChannel
<1> HIDE DEF i
<1> QED
  BY <1>3, <1>5, <1>6, <1>8

\* Once all but the newest pushes of a channel have left its queue, tasks with
\* pushes among the others only are through.
LEMMA ThroughIsDone ==
  ASSUME Typed, PushesCover, OnItsChannel, NEW c \in Channels,
         NEW n \in 0..Len(pushes[c]), Len(queue[c]) <= Len(pushes[c]) - n,
         NEW t \in Through(pushes[c], n)
  PROVE  ~InFlight(t)
<1> SUFFICES ASSUME InFlight(t)  PROVE FALSE
  OBVIOUS
<1>1. /\ Len(queue[c]) \in Nat /\ Len(pushes[c]) \in Nat
      /\ DOMAIN pushes[c] = 1..Len(pushes[c])
  BY ChannelTyped, PushTyped DEF Typed
<1>2. PICK j \in 1..n : pushes[c][j].task = t
  BY DEF Through
<1>3. \A k \in n + 1..Len(pushes[c]) : pushes[c][k].task # t
  BY DEF Through
<1>4. shape[t].channel = c
  BY <1>1, <1>2 DEF OnItsChannel
<1>5. PICK i \in Len(pushes[c]) - Len(queue[c]) + 1..Len(pushes[c]) :
         pushes[c][i].task = t
  BY <1>4, InFlightIsRecorded
<1>6. i \in n + 1..Len(pushes[c])
  <2>1. n \in Nat
    OBVIOUS
  <2> QED
    BY <1>1, <2>1, AmongTheNewest
<1> QED
  BY <1>3, <1>5, <1>6

LEMMA QueueInit == Init => QueueInv
<1> SUFFICES ASSUME Init  PROVE QueueInv
  OBVIOUS
<1>1. Owing(<<>>) = {} /\ Cardinality(Owing(<<>>)) = 0 /\ Len(<<>>) = 0
  BY OwingOfNone, EmptySeq
<1>2. OwingInModel(Empty) = {} /\ Cardinality(OwingInModel(Empty)) = 0
      /\ Len(Empty.pushes) = 0
  <2>1. OwingInModel(Empty) = {} /\ Len(Empty.pushes) = 0
    BY EmptySeq DEF OwingInModel, Empty
  <2> QED
    BY <2>1, FS_EmptySet, Zenon
<1>3. 0..0 - 1 = {}
  OBVIOUS
<1>4. Models(Empty, <<>>, 0, 0) /\ Records(<<>>, 0, <<>>, 0)
  BY <1>1, <1>2, <1>3 DEF Models, Records
<1>5. \A c \in Channels : /\ model[c] = Empty /\ queue[c] = <<>> /\ tokens[c] = 0
                         /\ pushes[c] = <<>> /\ finished[c] = 0 /\ Waiting(c) = 0
  BY <1>1 DEF Init, Waiting
<1> QED
  BY <1>4, <1>5, EmptySeq
    DEF Init, QueueInv, ModelCovers, PushesCover, OnItsChannel, ProvenIsFinished

LEMMA QueueRun ==
  ASSUME Typed, QueueInv, NEW c \in Channels, Run(c)
  PROVE  QueueInv'
<1>1. /\ running' = [running EXCEPT ![c] = TRUE] /\ queue[c] # <<>> /\ ~running[c]
      /\ running \in [Channels -> BOOLEAN]
      /\ UNCHANGED <<shape, model, pushes, finished, knownComplete, pollProven,
                     queue, tokens, dropped>>
  BY DEF Run, Typed, TypeOK, program, usage, history
<1>2. \A d \in Channels : Waiting(d) \in Nat /\ Len(queue[d]) \in Nat
  BY ChannelTyped
<1>3. \A d \in Channels : Waiting(d)' <= Waiting(d) /\ Waiting(d)' \in Nat
  <2>1. \A d \in Channels \ {c} : Waiting(d)' = Waiting(d)
    BY <1>1 DEF Waiting
  <2>2. Waiting(c) = Len(queue[c]) /\ Waiting(c)' = Len(queue[c]) - 1 /\ Len(queue[c]) > 0
    BY <1>1, <1>2, ChannelTyped, EmptySeq DEF Waiting
  <2> QED
    BY <1>2, <2>1, <2>2
<1>4. ModelCovers'
  <2>1. ASSUME NEW d \in Channels
        PROVE  Models(model[d], queue[d], Waiting(d)', tokens[d])
    BY <1>2, <1>3, ChannelTyped, ModelsRun DEF QueueInv, ModelCovers
  <2> QED
    BY <1>1, <2>1 DEF ModelCovers
<1> QED
  BY <1>1, <1>4
    DEF QueueInv, PushesCover, OnItsChannel, ProvenIsFinished, InFlight

LEMMA CompleteShrinks ==
  ASSUME Typed, NEW c \in Channels, Complete(c)
  PROVE  \A t : InFlight(t)' => InFlight(t)
<1> DEFINE q == queue[c]
<1>1. /\ queue' = [queue EXCEPT ![c] = Tail(q)] /\ DOMAIN queue = Channels
      /\ q # <<>>
  BY DEF Complete, Typed, TypeOK, Counted
<1>2. /\ q \in Seq(Entries) /\ Len(q) \in Nat /\ Tail(q) \in Seq(Entries)
      /\ Len(Tail(q)) = Len(q) - 1 /\ \A i \in 1..Len(q) - 1 : Tail(q)[i] = q[i + 1]
  BY <1>1, ChannelTyped, HeadTailProperties, EmptySeq
<1> SUFFICES ASSUME NEW t, InFlight(t)'  PROVE InFlight(t)
  OBVIOUS
<1>3. PICK d \in Channels : \E i \in DOMAIN queue'[d] : queue'[d][i].task = t
  BY DEF InFlight
<1>4. CASE d # c
  BY <1>1, <1>3, <1>4 DEF InFlight
<1>5. CASE d = c
  <2>1. PICK i \in DOMAIN Tail(q) : Tail(q)[i].task = t
    BY <1>1, <1>3, <1>5
  <2>2. i \in 1..Len(q) - 1
    BY <1>2, <2>1, LenProperties
  <2>3. i + 1 \in DOMAIN q /\ q[i + 1].task = t
    BY <1>2, <2>1, <2>2, LenProperties
  <2> QED
    BY <2>3 DEF InFlight
<1> QED
  BY <1>4, <1>5

LEMMA QueueComplete ==
  ASSUME Typed, QueueInv, NEW c \in Channels, Complete(c)
  PROVE  QueueInv'
<1> DEFINE q == queue[c]
           produced == IF q[1].token THEN tokens[c] + 1 ELSE tokens[c]
<1>1. /\ queue' = [queue EXCEPT ![c] = Tail(q)]
      /\ running' = [running EXCEPT ![c] = FALSE] /\ running[c]
      /\ tokens' = [tokens EXCEPT ![c] = produced]
      /\ UNCHANGED <<shape, model, pushes, finished, knownComplete, pollProven, dropped>>
  BY DEF Complete, program, usage, history
<1>2. /\ queue \in [Channels -> Seq(Entries)] /\ running \in [Channels -> BOOLEAN]
      /\ tokens \in [Channels -> Nat] /\ q # <<>>
  BY <1>1 DEF Typed, TypeOK, Counted, Entries
<1>3. /\ q \in Seq(Entries) /\ Len(q) \in Nat /\ Len(q) > 0 /\ q[1].token \in BOOLEAN
      /\ Len(Tail(q)) = Len(q) - 1 /\ \A i \in 1..Len(q) - 1 : Tail(q)[i] = q[i + 1]
      /\ Tail(q) \in Seq(Entries)
  BY <1>2, ChannelTyped, HeadTailProperties, EmptySeq
<1>4. Waiting(c) = Len(q) - 1 /\ Waiting(c)' = Len(q) - 1
  BY <1>1, <1>2, <1>3 DEF Waiting
<1>5. ASSUME NEW d \in Channels, d # c
      PROVE  queue'[d] = queue[d] /\ tokens'[d] = tokens[d] /\ Waiting(d)' = Waiting(d)
  BY <1>1, <1>2, <1>5 DEF Waiting
<1>6. queue'[c] = Tail(q) /\ tokens'[c] = produced
  BY <1>1, <1>2
<1>7. ModelCovers'
  <2>1. Models(model[c], Tail(q), Len(q) - 1, produced)
    BY <1>2, <1>3, <1>4, ChannelTyped, ModelsComplete DEF QueueInv, ModelCovers
  <2> HIDE DEF q, produced
  <2> QED
    BY <1>1, <1>4, <1>5, <1>6, <2>1 DEF QueueInv, ModelCovers
<1>8. PushesCover'
  <2>1. Cardinality(Owing(pushes[c])) \in Nat
    BY ChannelTyped, OwingTyped
  <2>2. Records(pushes[c], finished[c], Tail(q), produced)
    BY <1>2, <1>3, <2>1, ChannelTyped, RecordsComplete DEF QueueInv, PushesCover
  <2> HIDE DEF q, produced
  <2> QED
    BY <1>1, <1>5, <1>6, <2>2 DEF QueueInv, PushesCover
<1>9. \A t : InFlight(t)' => InFlight(t)
  BY CompleteShrinks
<1>10. ProvenIsFinished'
  BY <1>1, <1>9 DEF QueueInv, ProvenIsFinished
<1>11. OnItsChannel' /\ ~dropped'
  BY <1>1 DEF QueueInv, OnItsChannel
<1> QED
  BY <1>7, <1>8, <1>10, <1>11 DEF QueueInv

\* A token is taken: what it retires has left the queue.
LEMMA QueueToken ==
  ASSUME Typed, QueueInv, NEW c \in Channels, TakeToken(c)
  PROVE  QueueInv'
<1> DEFINE n == Retired(c)
           p == pushes[c]
           q == queue[c]
           issuing == {i \in DOMAIN p : p[i].token}
           done == IF finished[c] - n >= 0 THEN finished[c] - n ELSE 0
<1>1. /\ tokens[c] > 0 /\ tokens' = [tokens EXCEPT ![c] = @ - 1]
      /\ model' = [model EXCEPT ![c] = AwaitModel(@)]
      /\ pushes' = [pushes EXCEPT ![c] = SubSeq(p, n + 1, Len(p))]
      /\ finished' = [finished EXCEPT ![c] = StillFinished(c, n)]
      /\ knownComplete' = knownComplete \cup Through(p, n) /\ pollProven' = pollProven
      /\ UNCHANGED <<shape, queue, running, dropped>>
  BY DEF TakeToken, NoteAwaited, CompleteAfter, program
<1>2. /\ tokens \in [Channels -> Nat] /\ DOMAIN model = Channels
      /\ DOMAIN pushes = Channels /\ DOMAIN finished = Channels
      /\ p \in Seq(Pushes) /\ q \in Seq(Entries) /\ Len(p) \in Nat
      /\ finished[c] \in Nat /\ finished[c] <= Len(p) /\ DOMAIN p = 1..Len(p)
  BY ChannelTyped, PushTyped DEF Typed, TypeOK
<1>3. Records(p, finished[c], q, tokens[c])
  BY DEF QueueInv, PushesCover
<1>4. n \in 1..Len(p) /\ p[n].token /\ \A j \in 1..n - 1 : ~p[j].token
  <2>1. issuing \in SUBSET Nat /\ issuing \subseteq 1..Len(p)
    BY <1>2
  <2>2. issuing # {}
    BY <1>1, <1>2, <1>3, RecordsOwe
  <2>3. Min(issuing) \in issuing /\ \A j \in issuing : Min(issuing) <= j
    BY <2>1, <2>2, MinIsLeast
  <2>4. n = Min(issuing)
    BY <2>2 DEF Retired
  <2>5. n \in issuing /\ n \in 1..Len(p) /\ \A j \in issuing : n <= j
    BY <2>1, <2>3, <2>4
  <2>6. p[n].token
    BY <2>5
  <2>7. ASSUME NEW j \in 1..n - 1, p[j].token  PROVE FALSE
    <3>1. j \in issuing /\ j < n
      BY <1>2, <2>5, <2>7
    <3> HIDE DEF issuing, n
    <3> QED
      BY <1>2, <2>5, <3>1
  <2> QED
    BY <2>5, <2>6, <2>7
<1>5. /\ Len(q) <= Len(p) - n
      /\ Records(SubSeq(p, n + 1, Len(p)), done, q, tokens[c] - 1)
  <2> HIDE DEF n, p, q, issuing
  <2> QED
    BY <1>1, <1>2, <1>3, <1>4, RecordsAwait
<1>6. StillFinished(c, n) = done
  <2>1. finished[c] - n \in Int
    BY <1>2, <1>4
  <2> QED
    BY <2>1, MaxWithZero, Zenon DEF StillFinished
<1>7. PushesCover'
  <2>1. /\ pushes'[c] = SubSeq(p, n + 1, Len(p)) /\ finished'[c] = done
        /\ tokens'[c] = tokens[c] - 1 /\ queue' = queue
        /\ \A d \in Channels \ {c} : /\ pushes'[d] = pushes[d]
                                    /\ finished'[d] = finished[d]
                                    /\ tokens'[d] = tokens[d]
    BY <1>1, <1>2, <1>6
  <2> HIDE DEF n, p, done
  <2> QED
    BY <1>5, <2>1 DEF QueueInv, PushesCover
<1>8. ModelCovers'
  <2>1. Models(AwaitModel(model[c]), q, Waiting(c), tokens[c] - 1)
    BY <1>1, ChannelTyped, ModelsAwait DEF QueueInv, ModelCovers
  <2>2. /\ model'[c] = AwaitModel(model[c]) /\ tokens'[c] = tokens[c] - 1
        /\ queue' = queue /\ \A d \in Channels : Waiting(d)' = Waiting(d)
        /\ \A d \in Channels \ {c} : model'[d] = model[d] /\ tokens'[d] = tokens[d]
    BY <1>1, <1>2 DEF Waiting
  <2> QED
    BY <2>1, <2>2 DEF QueueInv, ModelCovers
<1>9. OnItsChannel'
  <2>1. ASSUME NEW d \in Channels, NEW i \in DOMAIN pushes'[d]
        PROVE  shape[pushes'[d][i].task].channel = d
    <3>1. CASE d # c
      BY <1>1, <1>2, <2>1, <3>1 DEF QueueInv, OnItsChannel
    <3>2. CASE d = c
      <4>1. pushes'[d] = SubSeq(p, n + 1, Len(p))
        BY <1>1, <1>2, <3>2
      <4> DEFINE a == SubSeq(p, n + 1, Len(p))
      <4>3. /\ Len(a) = Len(p) - n /\ a \in Seq(Pushes)
            /\ \A j \in 1..Len(p) - n : a[j] = p[n + j]
        <5>1. n \in 0..Len(p)
          BY <1>2, <1>4
        <5> HIDE DEF n, p
        <5> QED
          BY <1>2, <5>1, SubSeqTyped
      <4>4. i \in 1..Len(p) - n
        BY <2>1, <4>1, <4>3, LenProperties
      <4>5. pushes'[d][i] = p[n + i] /\ n + i \in DOMAIN p
        <5>1. n + i \in 1..Len(p)
          <6>1. n \in 1..Len(p) /\ Len(p) \in Nat
            BY <1>2, <1>4
          <6> HIDE DEF n, p
          <6> QED
            BY <4>4, <6>1
        <5> QED
          BY <1>2, <4>1, <4>3, <4>4, <5>1
      <4> QED
        BY <3>2, <4>5 DEF QueueInv, OnItsChannel
    <3> QED
      BY <3>1, <3>2
  <2> QED
    BY <1>1, <2>1 DEF OnItsChannel
<1>10. ProvenIsFinished'
  <2>1. \A t \in Through(p, n) : ~InFlight(t)
    BY <1>4, <1>5, ThroughIsDone DEF QueueInv
  <2>2. \A t : InFlight(t)' <=> InFlight(t)
    BY <1>1 DEF InFlight
  <2> QED
    BY <1>1, <2>1, <2>2 DEF QueueInv, ProvenIsFinished
<1> QED
  BY <1>1, <1>7, <1>8, <1>9, <1>10 DEF QueueInv

\* A poll has seen at most n pushes of the channel queued or running.
LEMMA PollIsTrue ==
  ASSUME Typed, QueueInv, NEW c \in Channels, NEW n \in Nat, Len(queue[c]) <= n
  PROVE  /\ Records(pushes[c], Done(c, n), queue[c], tokens[c])
         /\ \A t \in ProvenBy(c, n) : ~InFlight(t)
<1>1. /\ Len(queue[c]) \in Nat /\ Len(pushes[c]) \in Nat /\ finished[c] \in Nat
      /\ finished[c] <= Len(pushes[c])
  BY ChannelTyped
<1>2. Records(pushes[c], finished[c], queue[c], tokens[c])
  BY DEF QueueInv, PushesCover
<1>3. Done(c, n) = IF finished[c] >= Len(pushes[c]) - n THEN finished[c]
                                                        ELSE Len(pushes[c]) - n
  <2>1. finished[c] \in Int /\ Len(pushes[c]) - n \in Int
    BY <1>1
  <2> QED
    BY <2>1, MaxOfTwo, Zenon DEF Done
<1>4. Len(queue[c]) <= Len(pushes[c]) - finished[c]
  BY <1>2 DEF Records
<1>5. Len(queue[c]) <= Len(pushes[c]) - Done(c, n) /\ Done(c, n) \in 0..Len(pushes[c])
  BY <1>1, <1>3, <1>4
<1>6. Records(pushes[c], Done(c, n), queue[c], tokens[c])
  BY <1>2, <1>5 DEF Records
<1>7. \A t \in Through(pushes[c], Done(c, n)) : ~InFlight(t)
  BY <1>5, ThroughIsDone DEF QueueInv
<1> QED
  BY <1>6, <1>7 DEF ProvenBy

\* The model tells when to poll: no push meets a full queue.
LEMMA RoomToPush ==
  ASSUME Typed, QueueInv, EnforceQueueDepth, NEW c \in Channels,
         Polls(c) => Waiting(c) < Depth
  PROVE  Waiting(c) < Depth
<1>1. CASE Polls(c)
  BY <1>1
<1>2. CASE ~Polls(c)
  <2>1. Len(model[c].pushes) \in Nat /\ Waiting(c) \in Nat
    BY ChannelTyped, OwingModelTyped
  <2>2. Len(model[c].pushes) < Depth
    BY <1>2, <2>1, DepthAssumption DEF Polls, WouldOverflow
  <2>3. Waiting(c) <= Len(model[c].pushes)
    BY DEF QueueInv, ModelCovers, Models
  <2> QED
    BY <2>1, <2>2, <2>3, DepthAssumption
<1> QED
  BY <1>1, <1>2

LEMMA QueueStart ==
  ASSUME Typed, QueueInv, EnforceQueueDepth, Start
  PROVE  QueueInv'
<1>0. PICK t \in Tasks, c \in Channels : t = next.task /\ c = shape[t].channel
  BY NextTyped, TaskTyped DEF Typed, Start
<1> DEFINE p == pushes[c]
           q == queue[c]
           entry == [task |-> t, token |-> next.token, order |-> pushCount]
           item == [task |-> t, token |-> next.token]
           m == IF Polls(c) THEN SpaceModel(model[c]) ELSE model[c]
           f == IF Polls(c) THEN Done(c, Depth) ELSE finished[c]
<1>1. /\ t \in Tasks /\ next.token \in BOOLEAN /\ c \in Channels /\ pushCount \in Nat
  BY NextTyped DEF Typed, TypeOK, Start
<1>2. /\ p \in Seq(Pushes) /\ q \in Seq(Entries) /\ Len(p) \in Nat /\ Len(q) \in Nat
      /\ Waiting(c) \in 0..Len(q) /\ Len(q) <= Waiting(c) + 1
      /\ finished[c] \in Nat /\ tokens[c] \in Nat /\ model[c] \in QueueModels
      /\ entry \in Pushes /\ item \in Entries
  BY <1>1, ChannelTyped DEF Pushes, Entries
<1>3. /\ DOMAIN queue = Channels /\ DOMAIN pushes = Channels /\ DOMAIN model = Channels
      /\ DOMAIN finished = Channels
  BY DEF Typed, TypeOK
<1>4. Waiting(c) < Depth
  BY <1>0, RoomToPush DEF Start
<1>5. /\ model' = [model EXCEPT ![c] = PushModel(m, next.token)]
      /\ pushes' = [pushes EXCEPT ![c] = Append(p, entry)]
      /\ finished' = [finished EXCEPT ![c] = f]
      /\ queue' = [queue EXCEPT ![c] = Append(q, item)]
      /\ knownComplete' = knownComplete \ {t}
      /\ pollProven' = (pollProven \cup IF Polls(c) THEN ProvenBy(c, Depth) ELSE {}) \ {t}
      /\ UNCHANGED <<shape, running, tokens>>
  BY <1>0, <1>4 DEF Start
<1>6. ~dropped'
  <2>1. ~(Waiting(c) >= Depth)
    BY <1>2, <1>4, DepthAssumption
  <2> QED
    BY <1>0, <2>1 DEF Start, QueueInv
<1>7. /\ model'[c] = PushModel(m, next.token) /\ pushes'[c] = Append(p, entry)
      /\ finished'[c] = f /\ queue'[c] = Append(q, item) /\ tokens' = tokens
      /\ \A d \in Channels \ {c} : /\ model'[d] = model[d] /\ pushes'[d] = pushes[d]
                                  /\ finished'[d] = finished[d] /\ queue'[d] = queue[d]
                                  /\ Waiting(d)' = Waiting(d)
  BY <1>1, <1>3, <1>5 DEF Waiting
<1>8. Waiting(c)' = Waiting(c) + 1 /\ Len(Append(q, item)) = Len(q) + 1
  <2>1. Len(Append(q, item)) = Len(q) + 1
    BY <1>2, AppendProperties
  <2>2. Len(queue'[c]) = Len(queue[c]) + 1 /\ running'[c] = running[c]
    BY <1>5, <1>7, <2>1
  <2>3. Len(queue[c]) \in Nat
    BY <1>2
  <2>4. Waiting(c)' = Waiting(c) + 1
    BY <2>2, <2>3 DEF Waiting
  <2> QED
    BY <2>1, <2>4
<1>9. Polls(c) => Records(p, Done(c, Depth), q, tokens[c])
                  /\ \A u \in ProvenBy(c, Depth) : ~InFlight(u)
  <2>1. Len(q) <= Depth
    BY <1>2, <1>4, DepthAssumption
  <2> QED
    BY <1>1, <2>1, PollIsTrue, DepthAssumption
<1>10. ModelCovers'
  <2>1. m \in QueueModels
    BY <1>2, ModelTyped
  <2>2. Models(model[c], q, Waiting(c), tokens[c])
    BY <1>1 DEF QueueInv, ModelCovers
  <2>3. Models(m, q, Waiting(c), tokens[c])
    <3>1. Waiting(c) \in Nat /\ Waiting(c) <= Depth - 1
      BY <1>2, <1>4, DepthAssumption
    <3> QED
      BY <1>2, <2>2, <3>1, ModelsSpace
  <2>4. item.token = next.token
    OBVIOUS
  <2> HIDE DEF m, item, q
  <2>5. Models(PushModel(m, next.token), Append(q, item), Waiting(c) + 1, tokens[c])
    BY <1>1, <1>2, <2>1, <2>3, <2>4, ModelsPush
  <2>6. Models(model'[c], queue'[c], Waiting(c)', tokens'[c])
    BY <1>7, <1>8, <2>5
  <2>7. ASSUME NEW d \in Channels, d # c
        PROVE  Models(model'[d], queue'[d], Waiting(d)', tokens'[d])
    BY <1>7, <2>7 DEF QueueInv, ModelCovers
  <2> QED
    BY <2>6, <2>7 DEF ModelCovers
<1>11. PushesCover'
  <2>1. Records(p, finished[c], q, tokens[c])
    BY <1>1 DEF QueueInv, PushesCover
  <2>2. Records(p, f, q, tokens[c]) /\ f \in Nat
    <3>1. Done(c, Depth) \in finished[c]..Len(p)
      BY <1>1, DoneTyped, DepthAssumption DEF Typed
    <3> QED
      BY <1>2, <1>9, <2>1, <3>1
  <2>3. entry.task = item.task /\ entry.token = item.token
    OBVIOUS
  <2> HIDE DEF entry, item, f, p, q
  <2>4. Records(Append(p, entry), f, Append(q, item), tokens[c])
    BY <1>2, <2>2, <2>3, RecordsPush
  <2> QED
    BY <1>1, <1>7, <2>4 DEF QueueInv, PushesCover
<1>12. OnItsChannel'
  <2>1. /\ Len(Append(p, entry)) = Len(p) + 1 /\ Append(p, entry) \in Seq(Pushes)
        /\ Append(p, entry)[Len(p) + 1] = entry
        /\ \A i \in 1..Len(p) : Append(p, entry)[i] = p[i]
    BY <1>2, AppendProperties
  <2>2. ASSUME NEW d \in Channels, NEW i \in DOMAIN pushes'[d]
        PROVE  shape[pushes'[d][i].task].channel = d
    <3>1. CASE d # c
      BY <1>7, <2>2, <3>1 DEF QueueInv, OnItsChannel
    <3>2. CASE d = c
      <4>1. i \in 1..Len(p) + 1
        BY <1>2, <1>7, <2>1, <2>2, <3>2, LenProperties
      <4>2. CASE i = Len(p) + 1
        <5>1. pushes'[d][i] = entry
          BY <1>7, <2>1, <3>2, <4>2
        <5>2. entry.task = t
          OBVIOUS
        <5> QED
          BY <1>0, <3>2, <5>1, <5>2
      <4>3. CASE i # Len(p) + 1
        <5>1. i \in 1..Len(p) /\ i \in DOMAIN p
          <6>1. DOMAIN p = 1..Len(p)
            BY <1>2, LenProperties
          <6> HIDE DEF p
          <6> QED
            BY <1>2, <4>1, <4>3, <6>1
        <5>2. pushes'[d][i] = p[i]
          BY <1>7, <2>1, <3>2, <5>1
        <5> QED
          BY <1>1, <3>2, <5>1, <5>2 DEF QueueInv, OnItsChannel
      <4> QED
        BY <4>2, <4>3
    <3> QED
      BY <3>1, <3>2
  <2> QED
    BY <1>5, <2>2 DEF OnItsChannel
<1>13. ASSUME NEW u, u # t, InFlight(u)'  PROVE InFlight(u)
  <2>1. PICK d \in Channels : \E i \in DOMAIN queue'[d] : queue'[d][i].task = u
    BY <1>13 DEF InFlight
  <2>2. CASE d # c
    BY <1>7, <2>1, <2>2 DEF InFlight
  <2>3. CASE d = c
    <3>1. PICK i \in DOMAIN Append(q, item) : Append(q, item)[i].task = u
      BY <1>7, <2>1, <2>3
    <3>2. /\ Append(q, item) \in Seq(Entries) /\ Append(q, item)[Len(q) + 1] = item
          /\ \A j \in 1..Len(q) : Append(q, item)[j] = q[j]
      BY <1>2, AppendProperties
    <3>3. i \in 1..Len(q) + 1
      BY <1>8, <3>1, <3>2, LenProperties
    <3>4. i # Len(q) + 1
      BY <1>13, <3>1, <3>2
    <3>5. i \in DOMAIN q /\ q[i].task = u
      BY <1>2, <3>1, <3>2, <3>3, <3>4, LenProperties
    <3> QED
      BY <1>1, <3>5 DEF InFlight
  <2> QED
    BY <2>2, <2>3
<1>14. ProvenIsFinished'
  BY <1>5, <1>9, <1>13 DEF QueueInv, ProvenIsFinished
<1> QED
  BY <1>6, <1>10, <1>11, <1>12, <1>14 DEF QueueInv

\* Steps that leave the channels, and what is known of them, alone.
LEMMA QueueSame ==
  ASSUME QueueInv,
         UNCHANGED <<model, pushes, finished, knownComplete, pollProven,
                     queue, running, tokens, dropped>>,
         \A c \in Channels : \A i \in DOMAIN pushes[c] :
           shape'[pushes[c][i].task] = shape[pushes[c][i].task]
  PROVE  QueueInv'
<1>1. /\ \A c \in Channels : Waiting(c)' = Waiting(c)
      /\ \A t : InFlight(t)' <=> InFlight(t)
  BY DEF Waiting, InFlight
<1>2. ModelCovers' /\ PushesCover'
  BY <1>1 DEF QueueInv, ModelCovers, PushesCover
<1>3. OnItsChannel' /\ ProvenIsFinished'
  BY <1>1 DEF QueueInv, OnItsChannel, ProvenIsFinished
<1> QED
  BY <1>2, <1>3 DEF QueueInv

LEMMA QueueChooseConfigure ==
  ASSUME Typed, QueueInv, ChooseConfigure
  PROVE  QueueInv'
<1>1. PICK s \in Shapes : shape' = Append(shape, s)
  BY DEF ChooseConfigure
<1>2. \A t \in Tasks : shape'[t] = shape[t]
  <2>1. shape \in Seq(Shapes)
    BY DEF Typed, TypeOK
  <2>2. \A t \in 1..Len(shape) : Append(shape, s)[t] = shape[t]
    BY <2>1, AppendProperties
  <2>3. Tasks = 1..Len(shape)
    BY <2>1 DEF Tasks
  <2> QED
    BY <1>1, <2>2, <2>3
<1>3. \A c \in Channels : \A i \in DOMAIN pushes[c] : pushes[c][i].task \in Tasks
  BY PushTyped DEF Typed
<1>4. UNCHANGED <<model, pushes, finished, knownComplete, pollProven,
                  queue, running, tokens, dropped>>
  BY DEF ChooseConfigure, usage, history, array
<1> QED
  BY <1>2, <1>3, <1>4, QueueSame

LEMMA QueueReclaim ==
  ASSUME Typed, QueueInv, ReclaimProven \/ ReclaimPolled
  PROVE  QueueInv'
<1>1. CASE ReclaimProven
  BY <1>1, QueueSame DEF ReclaimProven, TakeBack, history, program, usage, array
<1>2. CASE ReclaimPolled
  <2>1. PICK t \in Victims, c \in Channels :
          /\ c = shape[t].channel
          /\ IF Behind(t) = 0 THEN queue[c] = <<>>
                              ELSE Waiting(c) <= PollBound(Behind(t))
          /\ LET n == IF Behind(t) = 0 THEN 0 ELSE PollBound(Behind(t)) + 1
             IN /\ finished' = [finished EXCEPT ![c] = Done(c, n)]
                /\ pollProven' = pollProven \cup ProvenBy(c, n)
          /\ UNCHANGED <<shape, model, pushes, knownComplete, array>>
    BY <1>2, TaskTyped DEF ReclaimPolled, Victims, TakeBack, program, usage, Typed
  <2>2. PICK n \in Nat : /\ n = IF Behind(t) = 0 THEN 0 ELSE PollBound(Behind(t)) + 1
                         /\ Len(queue[c]) <= n
    <3>1. Behind(t) # 0 => PollBound(Behind(t)) \in Nat
      BY BoundTyped DEF Typed
    <3>2. Len(queue[c]) <= Waiting(c) + 1 /\ Len(queue[c]) \in Nat /\ Waiting(c) \in Nat
      BY ChannelTyped
    <3> QED
      BY <2>1, <3>1, <3>2, EmptySeq
  <2>3. /\ Records(pushes[c], Done(c, n), queue[c], tokens[c])
        /\ \A u \in ProvenBy(c, n) : ~InFlight(u)
    BY <2>2, PollIsTrue
  <2>4. /\ finished' = [finished EXCEPT ![c] = Done(c, n)] /\ DOMAIN finished = Channels
        /\ pollProven' = pollProven \cup ProvenBy(c, n)
        /\ UNCHANGED <<shape, model, pushes, knownComplete,
                       queue, running, tokens, dropped>>
    BY <2>1, <2>2 DEF array, Typed, TypeOK
  <2>5. /\ \A d \in Channels : Waiting(d)' = Waiting(d)
        /\ \A u : InFlight(u)' <=> InFlight(u)
    BY <2>4 DEF Waiting, InFlight
  <2>6. PushesCover'
    BY <2>3, <2>4 DEF QueueInv, PushesCover
  <2>7. ModelCovers'
    BY <2>4, <2>5 DEF QueueInv, ModelCovers
  <2>8. OnItsChannel' /\ ProvenIsFinished'
    BY <2>3, <2>4, <2>5 DEF QueueInv, OnItsChannel, ProvenIsFinished
  <2> QED
    BY <2>4, <2>6, <2>7, <2>8 DEF QueueInv
<1> QED
  BY <1>1, <1>2

LEMMA QueueLoad ==
  ASSUME Typed, QueueInv, Load
  PROVE  QueueInv'
<1>1. /\ queue' = [c \in Channels |-> <<>>] /\ running' = [c \in Channels |-> FALSE]
      /\ tokens' \in {tokens, [c \in Channels |-> 0]}
      /\ UNCHANGED <<shape, model, pushes, finished, knownComplete, pollProven, dropped>>
  BY DEF Load, program, usage, history
<1>2. ASSUME NEW c \in Channels
      PROVE  /\ queue'[c] = <<>> /\ Waiting(c)' = 0 /\ tokens'[c] \in 0..tokens[c]
             /\ tokens[c] \in Nat
  <2>1. tokens[c] \in Nat
    BY ChannelTyped
  <2> QED
    BY <1>1, <2>1, EmptySeq DEF Waiting
<1>3. ModelCovers'
  <2>1. ASSUME NEW c \in Channels  PROVE Models(model[c], <<>>, 0, tokens'[c])
    <3>1. Models(model[c], queue[c], Waiting(c), tokens[c])
      BY DEF QueueInv, ModelCovers
    <3>2. /\ model[c] \in QueueModels /\ queue[c] \in Seq(Entries)
          /\ Waiting(c) \in Nat /\ tokens[c] \in Nat
      BY ChannelTyped
    <3> QED
      BY <1>2, <3>1, <3>2, ModelsLoad
  <2> QED
    BY <1>1, <1>2, <2>1 DEF ModelCovers
<1>4. PushesCover'
  <2>1. ASSUME NEW c \in Channels  PROVE Records(pushes[c], finished[c], <<>>, tokens'[c])
    <3>1. Records(pushes[c], finished[c], queue[c], tokens[c])
      BY DEF QueueInv, PushesCover
    <3>2. /\ queue[c] \in Seq(Entries) /\ Len(pushes[c]) \in Nat /\ finished[c] \in Nat
          /\ tokens[c] \in Nat /\ Cardinality(Owing(pushes[c])) \in Nat
      BY ChannelTyped, OwingTyped
    <3> QED
      BY <1>2, <3>1, <3>2, RecordsLoad
  <2> QED
    BY <1>1, <1>2, <2>1 DEF PushesCover
<1>5. \A t : ~InFlight(t)'
  BY <1>2, EmptySeq DEF InFlight
<1>6. OnItsChannel' /\ ProvenIsFinished' /\ ~dropped'
  BY <1>1, <1>5 DEF QueueInv, OnItsChannel, ProvenIsFinished
<1> QED
  BY <1>3, <1>4, <1>6 DEF QueueInv

LEMMA QueueNext ==
  ASSUME Typed, QueueInv, EnforceQueueDepth, [Next]_vars
  PROVE  QueueInv'
<1>1. CASE Choose
  <2>1. CASE ChooseConfigure
    BY <2>1, QueueChooseConfigure
  <2>2. CASE UNCHANGED <<program, usage, history, pool, array>>
    BY <2>2, QueueSame DEF program, usage, history, array
  <2> QED
    BY <1>1, <2>1, <2>2 DEF Choose
<1>2. CASE Start
  BY <1>2, QueueStart
<1>3. CASE Await \/ Sync
  <2>1. PICK c \in Channels : TakeToken(c)
    <3>1. next.op \in {"await", "sync"} /\ TakeToken(TokenChannel)
      BY <1>3 DEF Await, Sync
    <3> QED
      BY <3>1, DueTyped DEF Typed
  <2> QED
    BY <2>1, QueueToken
<1>4. CASE Free
  BY <1>4, QueueSame DEF Free, program, usage, history, array
<1>5. CASE Load
  BY <1>5, QueueLoad
<1>6. CASE TakeId
  BY <1>6, QueueSame DEF TakeId, program, usage, history
<1>7. CASE ReclaimProven \/ ReclaimPolled
  BY <1>7, QueueReclaim
<1>8. CASE Refuse
  BY <1>8, QueueSame DEF Refuse, program, usage, history, array
<1>9. CASE \E c \in Channels : Run(c) \/ Complete(c)
  BY <1>9, QueueRun, QueueComplete
<1>10. CASE UNCHANGED vars
  BY <1>10, QueueSame DEF vars, program, usage, history, array
<1> QED
  BY <1>1, <1>2, <1>3, <1>4, <1>5, <1>6, <1>7, <1>8, <1>9, <1>10
    DEF Next, Execute

\* What the pass knows of the queues covers them while their depth is enforced.
THEOREM QueueInvariant == EnforceQueueDepth => (Spec => []QueueInv)
<1> SUFFICES ASSUME EnforceQueueDepth  PROVE Spec => []QueueInv
  OBVIOUS
<1>1. Typed /\ QueueInv /\ [Next]_vars => Typed' /\ QueueInv'
  BY TypedNext, QueueNext
<1> QED
  BY TypedInit, QueueInit, <1>1, PTL DEF Spec

\* No push ever meets a full queue.
THEOREM NoPushIsDropped == Spec => []NoPushDropped
<1>1. CASE EnforceQueueDepth
  <2>1. QueueInv => NoPushDropped
    BY DEF QueueInv, NoPushDropped
  <2> QED
    BY <1>1, <2>1, QueueInvariant, PTL
<1>2. CASE ~EnforceQueueDepth
  <2>1. NoPushDropped
    BY <1>2 DEF NoPushDropped
  <2> QED
    BY <2>1, PTL
<1> QED
  BY <1>1, <1>2

\* What an await or a poll is taken to prove has happened.
THEOREM ProofsAreSound == EnforceQueueDepth => (Spec => []ProvenIsFinished)
<1>1. QueueInv => ProvenIsFinished
  BY DEF QueueInv
<1> QED
  BY QueueInvariant, <1>1, PTL

-----------------------------------------------------------------------------
(* ArrayInv is inductive with the others.                                  *)

LEMMA ArrayInit == Init => ArrayInv
<1> SUFFICES ASSUME Init  PROVE ArrayInv
  OBVIOUS
<1>1. Tasks = {} /\ Owners = {}
  BY EmptySeq DEF Init, Tasks, Owners, Live
<1>2. \A t : ~InFlight(t)
  BY EmptySeq DEF Init, InFlight
<1>3. Static = StaticIds /\ \A id \in Static : programmed[id] = 0
  BY BdAssumption DEF Init, Static
<1> QED
  BY <1>1, <1>2, <1>3
    DEF Init, ArrayInv, AtHand, ReleasedDone, FreedNoted, OwnersApart,
        OwnersProgrammed, StaticKept, Idle

\* The BDs stay as long as nobody new owns any.
LEMMA ArrayKept ==
  ASSUME ArrayInv, UNCHANGED <<shape, ids, programmed, loaded>>,
         Owners' \subseteq Owners, Static \subseteq assigned',
         next.op \in {"configure", "refused"} =>
           /\ next'.op \in {"configure", "refused"}
           /\ \A t : InFlight(t)' => InFlight(t)
  PROVE  OwnersApart' /\ OwnersProgrammed' /\ StaticKept'
<1>1. Static' = Static
  BY DEF Static
<1>2. OwnersApart' /\ StaticKept'
  BY <1>1 DEF ArrayInv, OwnersApart, StaticKept
<1>3. OwnersProgrammed'
  BY DEF ArrayInv, OwnersProgrammed
<1> QED
  BY <1>2, <1>3

\* Steps that leave what the pass keeps alone.
LEMMA ArraySame ==
  ASSUME ArrayInv,
         UNCHANGED <<shape, pushes, knownComplete, pollProven, pool, programmed>>,
         \A t : InFlight(t)' => InFlight(t),
         \/ next' = next
         \/ next' = Refused
         \/ /\ next.op \notin {"configure", "refused"} /\ next'.op # "configure"
            /\ next'.op = "start" => next'.task \in Live
  PROVE  ArrayInv'
<1>1. /\ UNCHANGED <<assigned, ids, reclaimed, releasedTasks, awaitedConfigures,
                     freedInFlight, warned, loaded, unloaded>>
      /\ Tasks' = Tasks
  BY DEF pool, loads, Tasks
<1>2. Live' = Live /\ Owners' \subseteq Owners
  BY <1>1 DEF Live, Owners
<1>3. AtHand'
  BY <1>1, <1>2 DEF ArrayInv, AtHand, Refused
<1>4. ReleasedDone' /\ FreedNoted'
  BY <1>1 DEF ArrayInv, ReleasedDone, FreedNoted
<1>5. OwnersApart' /\ OwnersProgrammed' /\ StaticKept'
  <2>1. Static \subseteq assigned'
    BY <1>1 DEF ArrayInv, StaticKept
  <2>2. next.op \in {"configure", "refused"} => next'.op \in {"configure", "refused"}
    BY DEF Refused
  <2> QED
    BY <1>1, <1>2, <2>1, <2>2, ArrayKept
<1> QED
  BY <1>3, <1>4, <1>5 DEF ArrayInv

\* A task that is pushed keeps BDs that were its own before.
LEMMA ArrayStart ==
  ASSUME Typed, ArrayInv, Start
  PROVE  ArrayInv'
<1>1. PICK t \in Tasks : t = next.task /\ t \in Live
  BY NextTyped DEF Typed, ArrayInv, AtHand, Start
<1>2. /\ next.op = "start" /\ next' = Idle
      /\ UNCHANGED <<shape, assigned, ids, reclaimed, releasedTasks,
                     awaitedConfigures, freedInFlight, warned, loaded, unloaded,
                     programmed>>
  BY DEF Start, pool, loads
<1>3. ASSUME NEW u, InFlight(u)'  PROVE InFlight(u) \/ u = t
  <2>1. PICK d \in Channels : \E i \in DOMAIN queue'[d] : queue'[d][i].task = u
    BY <1>3 DEF InFlight
  <2>2. CASE queue'[d] = queue[d]
    BY <2>1, <2>2 DEF InFlight
  <2>3. CASE queue'[d] # queue[d]
    <3> DEFINE item == [task |-> t, token |-> next.token]
    <3>1. queue'[d] = Append(queue[d], item)
      BY <1>1, <2>3 DEF Start, Typed, TypeOK
    <3>2. /\ queue[d] \in Seq(Entries) /\ item \in Entries
          /\ DOMAIN queue[d] = 1..Len(queue[d]) /\ Len(queue[d]) \in Nat
      BY ChannelTyped, NextTyped, <1>1, <1>2 DEF Entries, Typed
    <3>3. /\ DOMAIN Append(queue[d], item) = 1..Len(queue[d]) + 1
          /\ \A i \in 1..Len(queue[d]) : Append(queue[d], item)[i] = queue[d][i]
          /\ Append(queue[d], item)[Len(queue[d]) + 1] = item
      BY <3>2, AppendProperties, LenProperties
    <3>4. PICK i \in 1..Len(queue[d]) + 1 : Append(queue[d], item)[i].task = u
      BY <2>1, <3>1, <3>3
    <3>5. CASE i = Len(queue[d]) + 1
      BY <3>3, <3>4, <3>5
    <3>6. CASE i \in 1..Len(queue[d])
      <4>1. i \in DOMAIN queue[d] /\ queue[d][i].task = u
        BY <3>2, <3>3, <3>4, <3>6
      <4> QED
        BY <4>1 DEF InFlight
    <3> QED
      BY <3>2, <3>5, <3>6
  <2> QED
    BY <2>2, <2>3
<1>4. Tasks' = Tasks /\ Live' = Live /\ Owners' \subseteq Owners
  BY <1>1, <1>2, <1>3 DEF Tasks, Live, Owners
<1>5. AtHand'
  BY <1>2 DEF AtHand, Idle
<1>6. ReleasedDone' /\ FreedNoted'
  BY <1>1, <1>2, <1>3 DEF ArrayInv, ReleasedDone, FreedNoted, Live
<1>7. OwnersApart' /\ OwnersProgrammed' /\ StaticKept'
  <2>1. Static \subseteq assigned'
    BY <1>2 DEF ArrayInv, StaticKept
  <2> QED
    BY <1>2, <1>4, <2>1, ArrayKept
<1> QED
  BY <1>5, <1>6, <1>7 DEF ArrayInv

\* Ids given back with the release of tasks that own them.
LEMMA ArrayReleased ==
  ASSUME ArrayInv, NEW G \in SUBSET Live,
         assigned' = assigned \ UNION {ids[u] : u \in G},
         releasedTasks' = releasedTasks \cup G,
         UNCHANGED <<shape, ids, programmed, loaded, unloaded, warned, queue>>,
         next.op \in {"configure", "refused"} => next'.op \in {"configure", "refused"}
  PROVE  /\ Live' = Live \ G
         /\ \A t : InFlight(t)' <=> InFlight(t)
         /\ OwnersApart' /\ OwnersProgrammed' /\ StaticKept'
<1>1. Live' = Live \ G /\ \A t : InFlight(t)' <=> InFlight(t)
  BY DEF Live, Tasks, InFlight
<1>2. Owners' \subseteq Owners /\ G \subseteq Owners
  BY <1>1 DEF Owners, Tasks
<1>3. Static \subseteq assigned'
  <2>1. \A u \in G : ids[u] \cap Static = {}
    BY <1>2 DEF ArrayInv, OwnersApart
  <2> QED
    BY <2>1 DEF ArrayInv, StaticKept
<1> QED
  BY <1>1, <1>2, <1>3, ArrayKept

LEMMA ArrayAwaitSync ==
  ASSUME Typed, IdsInv, ArrayInv, ProvenIsFinished', next.op \in {"await", "sync"},
         TakeToken(TokenChannel), Recycle, next' = Idle
  PROVE  ArrayInv'
<1>1. Giving \in SUBSET Live
  BY DueTyped
    DEF Typed, IdsInv, DueOnce, Due, Giving, Recyclable, FreedByHand, Redundant, Live
<1>2. /\ assigned' = assigned \ UNION {ids[u] : u \in Giving}
      /\ releasedTasks' = releasedTasks \cup Giving
      /\ awaitedConfigures' = awaitedConfigures \cup Giving
      /\ knownComplete' = CompleteAfter(TokenChannel)
      /\ UNCHANGED <<shape, ids, reclaimed, freedInFlight, warned, loaded,
                     unloaded, queue, programmed>>
  BY DEF Recycle, TakeToken, NoteAwaited, program, loads
<1>3. /\ \A t : InFlight(t)' <=> InFlight(t)
      /\ OwnersApart' /\ OwnersProgrammed' /\ StaticKept'
  BY <1>1, <1>2, ArrayReleased
<1>4. \A t \in Giving : ~InFlight(t)
  BY <1>2, <1>3 DEF Giving, Recyclable, ProvenIsFinished
<1>5. ReleasedDone' /\ FreedNoted'
  BY <1>2, <1>3, <1>4 DEF ArrayInv, ReleasedDone, FreedNoted
<1>6. AtHand'
  BY DEF AtHand, Idle
<1> QED
  BY <1>3, <1>5, <1>6 DEF ArrayInv

\* What is freed in flight is noted, as its pushes are still recorded.
LEMMA ArrayFree ==
  ASSUME Typed, IdsInv, QueueInv, ArrayInv, Free
  PROVE  ArrayInv'
<1>1. PICK t \in Tasks : t = next.task /\ ~FreedByHand(t)
  BY NextTyped DEF Typed, IdsInv, DueOnce, Free
<1>2. /\ next.op = "free" /\ next' = Idle
      /\ UNCHANGED <<shape, ids, reclaimed, awaitedConfigures, warned, loaded,
                     unloaded, queue, programmed>>
      /\ \/ UNCHANGED <<assigned, releasedTasks, freedInFlight>>
         \/ /\ ~Redundant(t) /\ assigned' = assigned \ ids[t]
            /\ releasedTasks' = releasedTasks \cup {t}
            /\ freedInFlight' = NoteFreed(t)
  BY <1>1 DEF Free, program, loads, array
<1>3. AtHand'
  BY <1>2 DEF AtHand, Idle
<1>4. CASE UNCHANGED <<assigned, releasedTasks, freedInFlight>>
  <2>1. {} \in SUBSET Live /\ assigned' = assigned \ UNION {ids[u] : u \in {}}
        /\ releasedTasks' = releasedTasks \cup {}
    BY <1>4
  <2>2. /\ \A u : InFlight(u)' <=> InFlight(u)
        /\ OwnersApart' /\ OwnersProgrammed' /\ StaticKept'
    BY <1>2, <2>1, ArrayReleased
  <2>3. ReleasedDone' /\ FreedNoted'
    BY <1>2, <1>4, <2>2 DEF ArrayInv, ReleasedDone, FreedNoted
  <2> QED
    BY <1>3, <2>2, <2>3 DEF ArrayInv
<1>5. CASE /\ ~Redundant(t) /\ assigned' = assigned \ ids[t]
           /\ releasedTasks' = releasedTasks \cup {t}
           /\ freedInFlight' = NoteFreed(t)
  <2>1. t \in Live /\ {t} \in SUBSET Live
    BY <1>1, <1>5 DEF FreedByHand, Redundant, Live
  <2>2. assigned' = assigned \ UNION {ids[u] : u \in {t}}
    BY <1>5
  <2>3. /\ \A u : InFlight(u)' <=> InFlight(u)
        /\ OwnersApart' /\ OwnersProgrammed' /\ StaticKept'
    BY <1>2, <1>5, <2>1, <2>2, ArrayReleased
  <2>4. ReleasedDone'
    BY <1>2, <1>5, <2>3 DEF ArrayInv, ReleasedDone
  <2>5. \A id \in ids[t] : id \in DOMAIN freedInFlight
    BY TaskTyped DEF Typed, TypeOK
  <2>6. ASSUME InFlight(t)
        PROVE  freedInFlight' = [id \in DOMAIN freedInFlight |->
                                   IF id \in ids[t] THEN t ELSE freedInFlight[id]]
    <3>1. \E i \in DOMAIN pushes[shape[t].channel] :
             pushes[shape[t].channel][i].task = t
      BY <2>6, InFlightIsRecorded, PushTyped DEF QueueInv, Typed
    <3> QED
      BY <1>5, <3>1 DEF NoteFreed
  <2>7. ASSUME NEW u \in releasedTasks \ warned, InFlight(u), NEW id \in ids[u]
        PROVE  freedInFlight'[id] = u
    <3>1. u \in Tasks /\ u # t
      BY <2>1 DEF Typed, TypeOK, Live
    <3>2. u \in Owners /\ t \in Owners
      BY <2>1, <2>7, <3>1 DEF Owners
    <3>3. id \notin ids[t]
      BY <2>7, <3>1, <3>2 DEF ArrayInv, OwnersApart
    <3>4. freedInFlight[id] = u /\ id \in DOMAIN freedInFlight
      BY <2>7, <3>1, TaskTyped DEF ArrayInv, FreedNoted, Typed, TypeOK
    <3> QED
      BY <1>5, <3>3, <3>4 DEF NoteFreed
  <2>8. FreedNoted'
    <3>1. ASSUME NEW u \in releasedTasks' \ warned', InFlight(u)', NEW id \in ids'[u]
          PROVE  freedInFlight'[id] = u
      <4>1. CASE u = t
        BY <1>2, <2>3, <2>5, <2>6, <3>1, <4>1
      <4>2. CASE u # t
        BY <1>2, <1>5, <2>3, <2>7, <3>1, <4>2
      <4> QED
        BY <4>1, <4>2
    <3> QED
      BY <3>1 DEF FreedNoted
  <2> QED
    BY <1>3, <2>3, <2>4, <2>8 DEF ArrayInv
<1> QED
  BY <1>2, <1>4, <1>5

\* The poll of a reclaim waits until the last push of the victim is through.
LEMMA VictimIsDone ==
  ASSUME Typed, QueueInv, NEW t \in Victims,
         LET c == shape[t].channel
         IN IF Behind(t) = 0 THEN queue[c] = <<>>
                             ELSE Waiting(c) <= PollBound(Behind(t))
  PROVE  ~InFlight(t)
<1> SUFFICES ASSUME InFlight(t)  PROVE FALSE
  OBVIOUS
<1>1. PICK c \in Channels : c = shape[t].channel
  BY TaskTyped DEF Victims, Typed
<1>2. PICK i \in 1..Len(pushes[c]) :
         /\ Len(pushes[c]) - Len(queue[c]) + 1 <= i
         /\ pushes[c][i].task = t
  BY <1>1, InFlightIsRecorded DEF QueueInv
<1>3. /\ Len(pushes[c]) \in Nat /\ Len(queue[c]) \in Nat /\ Waiting(c) \in Nat
      /\ Len(queue[c]) <= Waiting(c) + 1 /\ DOMAIN pushes[c] = 1..Len(pushes[c])
  BY ChannelTyped, PushTyped DEF Typed
<1>4. PushesOf(t) \in SUBSET (1..Len(pushes[c])) /\ i \in PushesOf(t)
  BY <1>1, <1>2, <1>3 DEF PushesOf
<1>5. Max(PushesOf(t)) \in 1..Len(pushes[c]) /\ i <= Max(PushesOf(t))
  BY <1>3, <1>4, MaxIsGreatest
<1>6. PICK last \in 1..Len(pushes[c]) :
         /\ last = Max(PushesOf(t)) /\ i <= last
         /\ Behind(t) = Len(pushes[c]) - last
  BY <1>1, <1>5 DEF Behind
<1>7. Behind(t) < Len(queue[c])
  <2>1. Len(pushes[c]) - last < Len(queue[c])
    <3>1. \A m, n \in Nat : m - n + 1 <= i /\ i <= last => m - last < n
      BY <1>6
    <3> QED
      BY <1>2, <1>3, <1>6, <3>1
  <2> QED
    BY <1>6, <2>1
<1>8. CASE Behind(t) = 0
  BY <1>1, <1>3, <1>7, <1>8, EmptySeq
<1>9. CASE Behind(t) # 0
  <2>1. PollBound(Behind(t)) \in Nat /\ PollBound(Behind(t)) < Behind(t)
    BY <1>9, BoundTyped DEF Typed
  <2>2. Waiting(c) <= PollBound(Behind(t))
    BY <1>1, <1>9
  <2>3. Behind(t) \in Int
    BY <1>3, <1>6
  <2> QED
    BY <1>3, <1>7, <2>1, <2>2, <2>3
<1> QED
  BY <1>8, <1>9

LEMMA ArrayTakeBack ==
  ASSUME Typed, ArrayInv, OutOfIds, NEW t \in Tasks, Candidate(t), ~InFlight(t),
         t # next.task, TakeBack(t), UNCHANGED <<pushes, knownComplete>>,
         next.task \notin pollProven'
  PROVE  ArrayInv'
<1>1. /\ assigned' = assigned \ ids[t]
      /\ reclaimed' = reclaimed \cup {t}
      /\ releasedTasks' = releasedTasks \cup {t}
      /\ UNCHANGED <<next, shape, ids, awaitedConfigures, freedInFlight, warned,
                     loaded, unloaded, queue, programmed>>
  BY DEF TakeBack, program, loads, array
<1>2. {t} \in SUBSET Live /\ assigned' = assigned \ UNION {ids[u] : u \in {t}}
  BY <1>1 DEF Candidate, Live
<1>3. /\ Live' = Live \ {t} /\ \A u : InFlight(u)' <=> InFlight(u)
      /\ OwnersApart' /\ OwnersProgrammed' /\ StaticKept'
  BY <1>1, <1>2, ArrayReleased
<1>4. ReleasedDone' /\ FreedNoted'
  BY <1>1, <1>3 DEF ArrayInv, ReleasedDone, FreedNoted
<1>5. AtHand'
  BY <1>1, <1>3 DEF ArrayInv, AtHand, OutOfIds
<1> QED
  BY <1>3, <1>4, <1>5 DEF ArrayInv

LEMMA ArrayReclaim ==
  ASSUME Typed, QueueInv, ArrayInv, ReclaimProven \/ ReclaimPolled
  PROVE  ArrayInv'
<1>1. /\ OutOfIds /\ next.op = "configure"
      /\ next.task \notin knownComplete \cup pollProven
      /\ \A c \in Channels : \A i \in DOMAIN pushes[c] : pushes[c][i].task # next.task
  BY DEF ReclaimProven, ReclaimPolled, OutOfIds, ArrayInv, AtHand
<1>2. CASE ReclaimProven
  <2>1. PICK t \in Proven : TakeBack(t)
    BY <1>2 DEF ReclaimProven
  <2>2. UNCHANGED <<pushes, knownComplete, pollProven>>
    BY <1>2 DEF ReclaimProven, history
  <2>3. t \in Tasks /\ Candidate(t) /\ t \in knownComplete \cup pollProven
    BY DEF Proven
  <2>4. ~InFlight(t)
    BY <2>3 DEF QueueInv, ProvenIsFinished
  <2> QED
    BY <1>1, <2>1, <2>2, <2>3, <2>4, ArrayTakeBack
<1>3. CASE ReclaimPolled
  <2>1. PICK t \in Victims :
          LET c == shape[t].channel
              n == IF Behind(t) = 0 THEN 0 ELSE PollBound(Behind(t)) + 1
          IN /\ IF Behind(t) = 0 THEN queue[c] = <<>>
                                 ELSE Waiting(c) <= PollBound(Behind(t))
             /\ TakeBack(t)
             /\ pollProven' = pollProven \cup ProvenBy(c, n)
             /\ UNCHANGED <<pushes, knownComplete>>
    BY <1>3 DEF ReclaimPolled
  <2>2. t \in Tasks /\ Candidate(t) /\ PushesOf(t) # {} /\ shape[t].channel \in Channels
    BY TaskTyped DEF Victims, Typed
  <2>3. ~InFlight(t)
    BY <2>1, VictimIsDone
  <2>4. t # next.task
    BY <1>1, <2>2 DEF PushesOf
  <2>5. PICK c \in Channels, n \in Nat :
          /\ pollProven' = pollProven \cup ProvenBy(c, n)
          /\ Done(c, n) \in 0..Len(pushes[c])
    <3>1. Behind(t) # 0 => PollBound(Behind(t)) \in Nat
      BY BoundTyped DEF Typed
    <3>2. PICK n \in Nat : n = IF Behind(t) = 0 THEN 0 ELSE PollBound(Behind(t)) + 1
      BY <3>1
    <3>3. PICK c \in Channels : c = shape[t].channel
      BY <2>2
    <3>4. /\ Done(c, n) \in finished[c]..Len(pushes[c]) /\ finished[c] \in Nat
          /\ Len(pushes[c]) \in Nat
      BY DoneTyped, ChannelTyped DEF Typed
    <3>5. Done(c, n) \in 0..Len(pushes[c])
      BY <3>4
    <3> QED
      BY <2>1, <3>2, <3>3, <3>5
  <2>6. next.task \notin pollProven'
    <3>1. \A i \in 1..Len(pushes[c]) : pushes[c][i].task # next.task
      BY <1>1, PushTyped DEF Typed
    <3>2. \A i \in 1..Done(c, n) : i \in 1..Len(pushes[c])
      BY <2>5, ChannelTyped
    <3>3. next.task \notin ProvenBy(c, n)
      BY <3>1, <3>2 DEF ProvenBy, Through
    <3> QED
      BY <1>1, <2>5, <3>3
  <2> QED
    BY <1>1, <2>1, <2>2, <2>3, <2>4, <2>6, ArrayTakeBack
<1> QED
  BY <1>2, <1>3

LEMMA ArrayLoad ==
  ASSUME Typed, ArrayInv, Load
  PROVE  ArrayInv'
<1>1. /\ next' = Idle /\ assigned' = Static' /\ unloaded' = Tasks
      /\ programmed' = [id \in DOMAIN programmed |-> 0]
      /\ queue' = [c \in Channels |-> <<>>]
      /\ UNCHANGED <<shape, ids, reclaimed, releasedTasks, awaitedConfigures, warned>>
  BY DEF Load, program
<1>2. \A t : ~InFlight(t)'
  BY <1>1, EmptySeq DEF InFlight
<1>3. Live' = {} /\ Owners' = {}
  BY <1>1, <1>2 DEF Live, Owners, Tasks
<1>4. AtHand'
  BY <1>1 DEF AtHand, Idle
<1>5. ReleasedDone' /\ FreedNoted'
  <2>1. awaitedConfigures' \cup reclaimed' \subseteq releasedTasks'
    BY <1>1 DEF ReleasedDone, ArrayInv
  <2> QED
    BY <1>2, <2>1 DEF ReleasedDone, FreedNoted
<1>6. OwnersApart' /\ OwnersProgrammed'
  BY <1>3 DEF OwnersApart, OwnersProgrammed
<1>7. StaticKept'
  <2>1. Static' \subseteq DOMAIN programmed
    BY BdAssumption DEF Static, Typed, TypeOK
  <2> QED
    BY <1>1, <2>1 DEF StaticKept
<1> QED
  BY <1>4, <1>5, <1>6, <1>7 DEF ArrayInv

\* The task that is configured is not in flight.
LEMMA AtHandIsNew ==
  ASSUME Typed, QueueInv, ArrayInv, next.op = "configure"
  PROVE  next.task = Len(shape) /\ next.task \in Live /\ ~InFlight(next.task)
<1>1. /\ next.task = Len(shape) /\ next.task \in Live
      /\ \A c \in Channels : \A i \in DOMAIN pushes[c] : pushes[c][i].task # next.task
  BY DEF ArrayInv, AtHand
<1>2. ASSUME InFlight(next.task)  PROVE FALSE
  <2>1. PICK c \in Channels : \E i \in 1..Len(pushes[c]) : pushes[c][i].task = next.task
    BY <1>2, InFlightIsRecorded DEF QueueInv
  <2> QED
    BY <1>1, <2>1, PushTyped DEF Typed
<1> QED
  BY <1>1, <1>2

\* An id of a task that was freed in flight is handed on with a warning, or
\* never again.
LEMMA ArrayTakeId ==
  ASSUME Typed, IdsInv, QueueInv, ArrayInv, TakeId
  PROVE  ArrayInv'
<1>1. PICK t \in Live : /\ t = next.task /\ t = Len(shape) /\ t \in Tasks
                        /\ ~InFlight(t) /\ next.op = "configure"
  BY AtHandIsNew DEF TakeId, Live
<1>2. PICK id \in 0..NumIds - 1 :
         /\ \/ Pinned(t) /\ id = shape[t].pin
            \/ id \in Available(shape[t].channel)
         /\ assigned' = assigned \cup {id}
         /\ ids' = [ids EXCEPT ![t] = @ \cup {id}]
         /\ warned' = warned \cup IF Unsafe(id) THEN {freedInFlight[id]} ELSE {}
         /\ freedInFlight' = [freedInFlight EXCEPT ![id] = 0]
         /\ \/ /\ programmed' = [i \in DOMAIN programmed |->
                                   IF i \in ids'[t] THEN t ELSE programmed[i]]
               /\ next' = Idle
            \/ UNCHANGED <<programmed, next>>
  BY <1>1 DEF TakeId
<1>3. id \notin assigned
  BY <1>1, <1>2 DEF IdsInv, PinIsFree, Available
<1>4. UNCHANGED <<shape, pushes, knownComplete, pollProven, reclaimed,
                  releasedTasks, awaitedConfigures, loaded, unloaded, queue>>
  BY DEF TakeId, program, history, loads
<1>5. /\ ids'[t] = ids[t] \cup {id} /\ \A u \in Tasks \ {t} : ids'[u] = ids[u]
      /\ ids'[t] \subseteq 0..NumIds - 1
  BY <1>1, <1>2, TaskTyped DEF Typed
<1>6. /\ Tasks' = Tasks /\ Live' = Live /\ \A u : InFlight(u)' <=> InFlight(u)
      /\ Static' = Static
  BY <1>4 DEF Tasks, Live, InFlight, Static
<1>7. Owners' \subseteq Owners /\ t \in Owners' /\ Owners' \subseteq Tasks
  BY <1>1, <1>2, <1>6 DEF Owners, Live
<1>8. ASSUME NEW u \in Owners', u # t  PROVE id \notin ids[u]
  <2>1. CASE u \in Live
    BY <1>3, <2>1 DEF IdsInv, OwnersKeepIds, Live
  <2>2. CASE u \notin Live
    <3>1. u \in Tasks \ warned' /\ InFlight(u)
      BY <1>6, <1>8, <2>2 DEF Owners
    <3>2. u \in releasedTasks \ warned
      BY <1>2, <2>2, <3>1 DEF ArrayInv, ReleasedDone, Live
    <3>3. id \in ids[u] => freedInFlight[id] = u
      BY <3>1, <3>2 DEF ArrayInv, FreedNoted
    <3>4. u # 0 /\ u \notin knownComplete \cup pollProven
      BY <3>1, TaskTyped DEF QueueInv, ProvenIsFinished, Typed
    <3> QED
      BY <1>2, <3>1, <3>3, <3>4 DEF Unsafe
  <2> QED
    BY <2>1, <2>2
<1>9. AtHand'
  BY <1>2, <1>4, <1>6 DEF ArrayInv, AtHand, Idle
<1>10. ReleasedDone'
  BY <1>4, <1>6 DEF ArrayInv, ReleasedDone
<1>11. FreedNoted'
  <2>1. ASSUME NEW u \in releasedTasks' \ warned', InFlight(u)', NEW i \in ids'[u]
        PROVE  freedInFlight'[i] = u
    <3>1. u \in releasedTasks \ warned /\ InFlight(u) /\ u \in Tasks /\ u # t
      BY <1>1, <1>2, <1>4, <1>6, <2>1 DEF Typed, TypeOK, Live
    <3>2. u \in Owners'
      BY <1>6, <2>1, <3>1 DEF Owners
    <3>3. i \in ids[u] /\ i # id
      BY <1>5, <1>8, <2>1, <3>1, <3>2
    <3>4. freedInFlight[i] = u
      BY <3>1, <3>3 DEF ArrayInv, FreedNoted
    <3> QED
      BY <1>2, <3>3, <3>4 DEF Typed, TypeOK
  <2> QED
    BY <2>1 DEF FreedNoted
<1>12. OwnersApart'
  <2>1. id \notin Static
    BY <1>3 DEF ArrayInv, StaticKept
  <2>2. ASSUME NEW u \in Owners'
        PROVE  /\ ids'[u] \cap Static = {}
               /\ \A v \in Owners' \ {u} : ids'[u] \cap ids'[v] = {}
    <3>1. /\ ids[u] \cap Static = {}
          /\ \A v \in Owners' \ {u} : ids[u] \cap ids[v] = {}
      BY <1>7 DEF ArrayInv, OwnersApart
    <3> QED
      BY <1>5, <1>7, <1>8, <2>1, <3>1
  <2> QED
    BY <1>6, <2>2 DEF OwnersApart
<1>13. ASSUME NEW u \in Owners', u # t
       PROVE  \A i \in ids'[u] : programmed[i] = u
  <2>1. u \in Owners /\ u # Len(shape) /\ ids'[u] = ids[u]
    BY <1>1, <1>5, <1>7, <1>13
  <2> QED
    BY <2>1 DEF ArrayInv, OwnersProgrammed
<1>14. CASE UNCHANGED <<programmed, next>>
  <2>1. OwnersProgrammed'
    BY <1>1, <1>4, <1>6, <1>13, <1>14 DEF OwnersProgrammed
  <2>2. StaticKept'
    BY <1>2, <1>6, <1>14 DEF ArrayInv, StaticKept
  <2> QED
    BY <1>9, <1>10, <1>11, <1>12, <2>1, <2>2 DEF ArrayInv
<1>15. CASE /\ programmed' = [i \in DOMAIN programmed |->
                                IF i \in ids'[t] THEN t ELSE programmed[i]]
            /\ next' = Idle
  <2>1. DOMAIN programmed = 0..NumIds - 1 /\ Static \subseteq 0..NumIds - 1
    BY BdAssumption DEF Typed, TypeOK, Static
  <2>2. ASSUME NEW u \in Owners', NEW i \in ids'[u]
        PROVE  programmed'[i] = u
    <3>1. i \in DOMAIN programmed
      BY <1>5, <1>7, <2>1, <2>2, TaskTyped DEF Typed
    <3>2. CASE u = t
      BY <1>15, <2>2, <3>1, <3>2
    <3>3. CASE u # t
      <4>1. i \notin ids'[t]
        BY <1>7, <1>12, <2>2, <3>3 DEF OwnersApart
      <4>2. programmed[i] = u
        BY <1>13, <2>2, <3>3
      <4> QED
        BY <1>15, <3>1, <4>1, <4>2
    <3> QED
      BY <3>2, <3>3
  <2>3. StaticKept'
    <3>1. ids'[t] \cap Static = {}
      BY <1>6, <1>7, <1>12 DEF OwnersApart
    <3> QED
      BY <1>2, <1>6, <1>15, <2>1, <3>1 DEF ArrayInv, StaticKept
  <2>4. OwnersProgrammed'
    BY <2>2 DEF OwnersProgrammed
  <2> QED
    BY <1>9, <1>10, <1>11, <1>12, <2>3, <2>4 DEF ArrayInv
<1> QED
  BY <1>2, <1>14, <1>15

LEMMA ArrayChooseConfigure ==
  ASSUME Typed, ArrayInv, Choose, ChooseConfigure
  PROVE  ArrayInv'
<1> DEFINE n == Len(shape)
<1>1. PICK s \in Shapes : shape' = Append(shape, s)
  BY DEF ChooseConfigure
<1>2. /\ next = Idle /\ ids' = Append(ids, {})
      /\ next' = [op |-> "configure", task |-> Len(shape')]
      /\ UNCHANGED <<assigned, pushes, knownComplete, pollProven, reclaimed,
                     releasedTasks, awaitedConfigures, freedInFlight, warned,
                     loaded, unloaded, queue, programmed>>
  BY DEF Choose, ChooseConfigure, history, loads, array
<1>3. /\ n \in Nat /\ Tasks = 1..n /\ Len(ids) = n
      /\ shape \in Seq(Shapes) /\ ids \in Seq(SUBSET (0..NumIds - 1))
      /\ knownComplete \subseteq Tasks /\ pollProven \subseteq Tasks
      /\ releasedTasks \subseteq Tasks /\ unloaded \subseteq Tasks
      /\ awaitedConfigures \subseteq Tasks /\ reclaimed \subseteq Tasks
  BY TaskTyped DEF Typed, TypeOK
<1>4. /\ shape' \in Seq(Shapes) /\ Len(shape') = n + 1
      /\ ids'[n + 1] = {} /\ \A t \in Tasks : ids'[t] = ids[t]
  BY <1>1, <1>2, <1>3, AppendProperties
<1>5. Tasks' = Tasks \cup {n + 1} /\ n + 1 \notin Tasks
  BY <1>3, <1>4, LenProperties DEF Tasks
<1>6. \A t : InFlight(t)' <=> InFlight(t)
  BY <1>2 DEF InFlight
<1> HIDE DEF n
<1>7. Live' = Live \cup {n + 1} /\ Owners' = Owners \cup {n + 1}
  <2>1. Live' = Live \cup {n + 1}
    BY <1>2, <1>3, <1>5 DEF Live
  <2>2. Owners' = Owners \cup {n + 1}
    BY <1>2, <1>5, <1>6, <2>1 DEF Owners
  <2> QED
    BY <2>1, <2>2
<1>8. Owners \subseteq Tasks
  BY DEF Owners, Live
<1>9. AtHand'
  <2>1. \A c \in Channels : \A i \in DOMAIN pushes[c] : pushes[c][i].task # n + 1
    BY <1>5, PushTyped DEF Typed
  <2> QED
    BY <1>2, <1>3, <1>4, <1>5, <1>7, <2>1 DEF AtHand
<1>10. ReleasedDone' /\ FreedNoted'
  BY <1>2, <1>3, <1>4, <1>6 DEF ArrayInv, ReleasedDone, FreedNoted
<1>11. Static' = Static /\ StaticKept'
  BY <1>2 DEF ArrayInv, StaticKept, Static
<1>12. OwnersApart'
  BY <1>4, <1>5, <1>7, <1>8, <1>11 DEF ArrayInv, OwnersApart
<1>13. OwnersProgrammed'
  <2>1. \A t \in Owners : \A id \in ids[t] : programmed[id] = t
    BY <1>2 DEF ArrayInv, OwnersProgrammed, Idle
  <2> QED
    BY <1>2, <1>4, <1>7, <1>8, <2>1 DEF OwnersProgrammed
<1> QED
  BY <1>9, <1>10, <1>11, <1>12, <1>13 DEF ArrayInv

LEMMA ArrayNext ==
  ASSUME Typed, IdsInv, QueueInv, ArrayInv, ProvenIsFinished', [Next]_vars
  PROVE  ArrayInv'
<1>1. CASE Choose
  <2>1. CASE ChooseConfigure
    BY <1>1, <2>1, ArrayChooseConfigure
  <2>2. CASE /\ ChooseStart \/ ChooseAwait \/ ChooseSync \/ ChooseFree \/ ChooseLoad
             /\ UNCHANGED <<program, usage, history, pool, array>>
    <3>1. /\ next.op \notin {"configure", "refused"} /\ next'.op # "configure"
          /\ next'.op = "start" => next'.task \in Live
      BY <1>1, <2>2
        DEF Choose, Idle, ChooseStart, ChooseAwait, ChooseSync, ChooseFree,
            ChooseLoad, Live
    <3>2. /\ UNCHANGED <<shape, pushes, knownComplete, pollProven, pool, programmed>>
          /\ \A t : InFlight(t)' => InFlight(t)
      BY <2>2 DEF program, history, array, InFlight
    <3> QED
      BY <3>1, <3>2, ArraySame
  <2> QED
    BY <1>1, <2>1, <2>2 DEF Choose
<1>2. CASE Start
  BY <1>2, ArrayStart
<1>3. CASE Await
  BY <1>3, ArrayAwaitSync DEF Await
<1>4. CASE Sync
  BY <1>4, ArrayAwaitSync DEF Sync
<1>5. CASE Free
  BY <1>5, ArrayFree
<1>6. CASE Load
  BY <1>6, ArrayLoad
<1>7. CASE TakeId
  BY <1>7, ArrayTakeId
<1>8. CASE ReclaimProven \/ ReclaimPolled
  BY <1>8, ArrayReclaim
<1>9. CASE Refuse
  <2>1. \A t : InFlight(t)' => InFlight(t)
    BY <1>9 DEF Refuse, array, InFlight
  <2> QED
    BY <1>9, <2>1, ArraySame DEF Refuse, program, history, array
<1>10. CASE \E c \in Channels : Run(c)
  <2>1. \A t : InFlight(t)' => InFlight(t)
    BY <1>10 DEF Run, InFlight
  <2> QED
    BY <1>10, <2>1, ArraySame DEF Run, program, history
<1>11. CASE \E c \in Channels : Complete(c)
  <2>1. PICK c \in Channels : Complete(c)
    BY <1>11
  <2>2. \A t : InFlight(t)' => InFlight(t)
    BY <2>1, CompleteShrinks
  <2> QED
    BY <2>1, <2>2, ArraySame DEF Complete, program, history
<1>12. CASE UNCHANGED vars
  <2>1. \A t : InFlight(t)' => InFlight(t)
    BY <1>12 DEF vars, array, InFlight
  <2> QED
    BY <1>12, <2>1, ArraySame DEF vars, program, history, array
<1> QED
  BY <1>1, <1>2, <1>3, <1>4, <1>5, <1>6, <1>7, <1>8, <1>9, <1>10, <1>11, <1>12
    DEF Next, Execute

\* The whole invariant of the pass and the array it drives.
THEOREM BdInvariant == Spec => []BdInv
<1>1. Init => BdInv
  BY TypedInit, AccountedInit, IdsInit, QueueInit, ArrayInit DEF BdInv
<1>2. BdInv /\ [Next]_vars => BdInv'
  <2> SUFFICES ASSUME BdInv, [Next]_vars  PROVE BdInv'
    OBVIOUS
  <2>1. Typed' /\ Accounted'
    BY TypedNext, AccountedNext DEF BdInv
  <2>2. ~DoubleReleases => IdsInv'
    BY IdsNext DEF BdInv
  <2>3. EnforceQueueDepth => QueueInv'
    BY QueueNext DEF BdInv
  <2>4. ~DoubleReleases /\ EnforceQueueDepth => ArrayInv'
    BY <2>3, ArrayNext DEF BdInv, QueueInv
  <2> QED
    BY <2>1, <2>2, <2>3, <2>4 DEF BdInv
<1> QED
  BY <1>1, <1>2, PTL DEF Spec

\* Where pushes are not dropped and no sequence frees a task twice, a task that
\* is queued or runs finds its own BDs, unless the pass has warned.
THEOREM BdsStayIntact ==
  ~DoubleReleases /\ EnforceQueueDepth => (Spec => []BdsIntact)
<1> SUFFICES ASSUME ~DoubleReleases, EnforceQueueDepth  PROVE Spec => []BdsIntact
  OBVIOUS
<1>1. BdInv => BdsIntact
  BY DEF BdInv, ArrayInv, OwnersProgrammed, StaticKept, Owners, BdsIntact
<1> QED
  BY <1>1, BdInvariant, PTL

-----------------------------------------------------------------------------
(* The queue guard: what is known of a sequence and of the states reached. *)

LEMMA OperationTyped ==
  ASSUME GuardTyped, NEW p \in DOMAIN sequence
  PROVE  /\ Len(sequence) \in Nat /\ DOMAIN sequence = 1..Len(sequence)
         /\ End \in Nat /\ p \in 1..End /\ p # End
         /\ sequence[p].token \in BOOLEAN
         /\ sequence[p].next \subseteq 1..End
         /\ sequence[p].op = "while" =>
              /\ sequence[p].body \subseteq DOMAIN sequence
              /\ \A i \in sequence[p].body :
                   sequence[i].next \subseteq sequence[p].body \cup {p}
<1>1. sequence \in Seq(Operations)
  BY DEF GuardTyped, IsSequence
<1>2. Len(sequence) \in Nat /\ DOMAIN sequence = 1..Len(sequence)
  BY <1>1, LenProperties
<1>3. sequence[p] \in Operations
  BY <1>1, <1>2, ElementOfSeq
<1>4. sequence[p].token \in BOOLEAN
  BY <1>3 DEF Operations
<1> QED
  BY <1>2, <1>4 DEF GuardTyped, IsSequence, End

LEMMA StateAt ==
  ASSUME GuardTyped, NEW p, NEW m
  PROVE  /\ m \in StatesAt(p) <=> <<p, m>> \in reached
         /\ m \in StatesAt(p) =>
              m \in QueueModels /\ Len(m.pushes) \in Nat /\ Len(m.pushes) <= Depth
<1>1. m \in StatesAt(p) => <<p, m>> \in reached
  BY DEF StatesAt, GuardTyped
<1>2. <<p, m>> \in reached => m \in StatesAt(p)
  BY DEF StatesAt
<1>3. <<p, m>> \in reached => m \in QueueModels /\ Len(m.pushes) <= Depth
  <2>1. <<p, m>>[2] = m
    OBVIOUS
  <2> QED
    BY <2>1 DEF GuardTyped, States, QueueModels
<1> QED
  BY <1>1, <1>2, <1>3, OwingModelTyped

LEMMA QueuedTyped ==
  ASSUME GuardTyped
  PROVE  Len(fifo) \in Nat /\ Queued \in 0..Len(fifo)
<1>1. Len(fifo) \in Nat
  BY LenProperties DEF GuardTyped
<1>2. busy => Len(fifo) # 0
  BY EmptySeq DEF GuardTyped
<1> QED
  BY <1>1, <1>2 DEF Queued, GuardTyped

-----------------------------------------------------------------------------
(* A queue state stays within the depth of the queue.                      *)

LEMMA FullTyped ==
  Full \in QueueModels /\ Len(Full.pushes) = Depth /\ Full.unknownTokens
<1>1. Full.pushes \in [1..Depth -> BOOLEAN] /\ Depth \in Nat
  BY DepthAssumption DEF Full
<1>2. Full.pushes \in Seq(BOOLEAN) /\ DOMAIN Full.pushes = 1..Depth
  BY <1>1, BooleanSeq
<1>3. Len(Full.pushes) \in Nat /\ DOMAIN Full.pushes = 1..Len(Full.pushes)
  BY <1>2, LenProperties
<1>4. Len(Full.pushes) = Depth
  BY <1>1, <1>2, <1>3
<1> QED
  BY <1>2, <1>4 DEF Full, QueueModels

LEMMA EmptyTyped ==
  Empty \in QueueModels /\ Len(Empty.pushes) = 0
  BY EmptySeq DEF Empty, QueueModels

LEMMA StateAfterTyped ==
  ASSUME GuardTyped, NEW p \in DOMAIN sequence, NEW m \in QueueModels,
         Len(m.pushes) <= Depth
  PROVE  StateAfter(p, m) \in QueueModels /\ Len(StateAfter(p, m).pushes) <= Depth
<1> DEFINE o == sequence[p]
<1>1. o.token \in BOOLEAN /\ Len(m.pushes) \in Nat /\ Depth \in Nat \ {0}
  BY OperationTyped, OwingModelTyped, DepthAssumption
<1>2. CASE o.op = "push"
  <2> DEFINE s == IF WouldOverflow(m) THEN SpaceModel(m) ELSE m
  <2>1. s \in QueueModels /\ Len(s.pushes) + 1 <= Depth
    BY <1>1, ModelTyped, SpaceLength DEF WouldOverflow
  <2>2. /\ PushModel(s, o.token) \in QueueModels
        /\ Len(PushModel(s, o.token).pushes) = Len(s.pushes) + 1
    <3> HIDE DEF s
    <3> QED
      BY <1>1, <2>1, ModelTyped, OwingModelPush
  <2>3. StateAfter(p, m) = PushModel(s, o.token)
    BY <1>2 DEF StateAfter, GuardedPushModel
  <2> HIDE DEF s
  <2> QED
    BY <2>1, <2>2, <2>3
<1>3. CASE o.op = "await"
  <2>1. StateAfter(p, m) = AwaitModel(m)
    BY <1>3 DEF StateAfter
  <2>2. AwaitModel(m) \in QueueModels /\ Len(AwaitModel(m).pushes) <= Len(m.pushes)
    BY ModelTyped, AwaitLength
  <2>3. Len(AwaitModel(m).pushes) \in Nat
    BY <2>2, OwingModelTyped
  <2> QED
    BY <1>1, <2>1, <2>2, <2>3
<1>4. CASE o.op = "poll"
  <2>1. StateAfter(p, m) = SpaceModel(m)
    BY <1>4 DEF StateAfter
  <2>2. SpaceModel(m) \in QueueModels
    BY ModelTyped
  <2>3. Len(SpaceModel(m).pushes) <= Depth
    BY <1>1, SpaceLength
  <2> QED
    BY <2>1, <2>2, <2>3
<1>5. CASE o.op \notin {"push", "await", "poll"}
  <2>1. StateAfter(p, m) \in {m, Full}
    BY <1>5 DEF StateAfter, UnknownRegion
  <2> QED
    BY <1>1, <2>1, FullTyped
<1> QED
  BY <1>2, <1>3, <1>4, <1>5

LEMMA PlacesTyped ==
  ASSUME GuardTyped, NEW p \in DOMAIN sequence
  PROVE  PlacesAfter(p) \subseteq 1..End
  BY OperationTyped DEF PlacesAfter

\* Where a state goes on to is a place with a state.
LEMMA SuccessorsTyped ==
  ASSUME GuardTyped, NEW x \in Successors
  PROVE  /\ x[1] \in 1..End /\ x[2] \in States /\ Len(x[2].pushes) <= Depth
         /\ x = <<x[1], x[2]>>
<1>1. PICK y \in reached : y[1] # End /\ \E n \in PlacesAfter(y[1]) :
                             x = <<n, StateAfter(y[1], y[2])>>
  BY DEF Successors
<1>2. /\ y[1] \in 1..End /\ y[2] \in QueueModels /\ Len(y[2].pushes) <= Depth
      /\ Len(sequence) \in Nat /\ DOMAIN sequence = 1..Len(sequence)
  <2>1. sequence \in Seq(Operations)
    BY DEF GuardTyped, IsSequence
  <2> QED
    BY <2>1, LenProperties DEF GuardTyped, States, QueueModels
<1>3. y[1] \in DOMAIN sequence
  BY <1>1, <1>2 DEF End
<1> PICK n \in PlacesAfter(y[1]) : x = <<n, StateAfter(y[1], y[2])>>
  BY <1>1
<1>4. n \in 1..End
  BY <1>3, PlacesTyped
<1>5. /\ StateAfter(y[1], y[2]) \in QueueModels
      /\ Len(StateAfter(y[1], y[2]).pushes) <= Depth
  BY <1>2, <1>3, StateAfterTyped
<1> QED
  BY <1>1, <1>4, <1>5 DEF States, QueueModels

\* Once nothing new appears, what goes on from a state is among the states.
LEMMA FollowOn ==
  ASSUME GuardTyped, Analyzed, place # 0, NEW p \in DOMAIN sequence,
         NEW n \in PlacesAfter(p), NEW m \in StatesAt(p)
  PROVE  StateAfter(p, m) \in StatesAt(n)
<1>1. <<p, m>> \in reached /\ p # End
  BY StateAt, OperationTyped
<1>2. <<n, StateAfter(p, m)>> \in Successors
  <2>1. PICK x : x = <<p, m>>
    OBVIOUS
  <2>2. x \in {y \in reached : y[1] # End}
    BY <1>1, <2>1
  <2>3. <<n, StateAfter(p, m)>> \in {<<k, StateAfter(x[1], x[2])>> : k \in PlacesAfter(x[1])}
    BY <2>1
  <2> QED
    BY <2>2, <2>3, Zenon DEF Successors
<1>3. <<n, StateAfter(p, m)>> \in reached
  BY <1>2 DEF Analyzed
<1> QED
  BY <1>3, StateAt

\* A full queue that tells no tokens apart covers whatever waits.
LEMMA FullModels ==
  ASSUME NEW q, NEW w \in Nat, w <= Depth, NEW produced
  PROVE  Models(Full, q, w, produced)
  BY FullTyped DEF Models

\* Tokens that are gone are not owed.
LEMMA ModelsFewer ==
  ASSUME NEW m \in QueueModels, NEW R, NEW q \in Seq(R), NEW w,
         NEW produced \in Nat, produced > 0, Models(m, q, w, produced)
  PROVE  Models(m, q, w, produced - 1)
  BY OwingTyped, OwingModelTyped DEF Models

\* An unknown region leaves at most a full queue.
LEMMA UnknownRegionModels ==
  ASSUME NEW m \in QueueModels, Len(m.pushes) <= Depth, NEW q, NEW w \in Nat,
         NEW produced, NEW r,
         IF PushesIn(r) = {} THEN Models(m, q, w, produced) ELSE w <= Depth
  PROVE  Models(UnknownRegion(r, m), q, w, produced)
  BY FullModels DEF UnknownRegion

-----------------------------------------------------------------------------
(* The analysis and the sequence stay while the controller and the channel *)
(* take their steps.                                                       *)

LEMMA AnalysisKept ==
  ASSUME UNCHANGED <<sequence, analysis>>
  PROVE  /\ \A p : StatesAt(p)' = StatesAt(p)
         /\ \A w : PushesIn(w)' = PushesIn(w)
         /\ End' = End
         /\ \A p, m : StateAfter(p, m)' = StateAfter(p, m)
         /\ Successors' = Successors /\ Overflowing' = Overflowing
<1>1. \A p : StatesAt(p)' = StatesAt(p)
  BY DEF StatesAt, analysis
<1>2. \A w : PushesIn(w)' = PushesIn(w)
  BY DEF PushesIn
<1>3. End' = End
  BY DEF End
<1>4. \A p, m : StateAfter(p, m)' = StateAfter(p, m)
  BY DEF StateAfter, UnknownRegion, PushesIn
<1>5. Successors' = Successors
  BY DEF Successors, StateAfter, UnknownRegion, PushesIn, PlacesAfter, End, analysis
<1>6. Overflowing' = Overflowing
  BY DEF Overflowing, StatesAt, PushesIn, analysis
<1> QED
  BY <1>1, <1>2, <1>3, <1>4, <1>5, <1>6

LEMMA AnalyzedKept ==
  ASSUME Analyzed, UNCHANGED <<sequence, analysis>>, place # 0
  PROVE  Analyzed'
<1>1. Successors \subseteq reached /\ guarded = Overflowing
  BY DEF Analyzed
<1>2. exit = ExitState(StatesAt(End))
  BY DEF Analyzed
<1>3. ExitState(StatesAt(End))' = ExitState(StatesAt(End))
  BY DEF ExitState, StatesAt, End, analysis
<1>4. <<1, Empty>>' \in reached'
  BY DEF Analyzed, Empty, analysis
<1> QED
  BY <1>1, <1>2, <1>3, <1>4, AnalysisKept DEF Analyzed, analysis

LEMMA FollowedBy ==
  ASSUME UNCHANGED <<sequence, analysis>>, NEW m \in StatesAt(place'),
         Models(m, fifo', Queued', credit')
  PROVE  Covered'
  BY AnalysisKept DEF Covered, Followed

LEMMA CoveredByRegion ==
  ASSUME UNCHANGED <<sequence, analysis>>, NEW w \in DOMAIN sequence,
         sequence[w].op = "while", place' \in sequence[w].body \cup {w},
         NEW m \in StatesAt(w),
         IF PushesIn(w) = {} THEN Models(m, fifo', Queued', credit')
                             ELSE Queued' <= Depth
  PROVE  Covered'
<1>1. InRegion(w)'
  BY AnalysisKept DEF InRegion
<1> QED
  BY <1>1 DEF Covered


-----------------------------------------------------------------------------
(* The invariant of the queue guard, step by step.                         *)

LEMMA GuardStart == GuardInit => GuardInv
<1> SUFFICES ASSUME GuardInit  PROVE GuardInv
  OBVIOUS
<1>1. IsSequence(sequence)
  BY SequencesAssumption DEF GuardInit
<1>2. Len(sequence) \in Nat
  BY <1>1, LenProperties DEF IsSequence
<1>3. GuardTyped
  <2>1. \A x \in reached : x = <<1, Empty>>
    BY DEF GuardInit
  <2>2. Empty \in States /\ Len(Empty.pushes) <= Depth
    BY EmptyTyped, DepthAssumption DEF States, QueueModels
  <2>3. fifo \in Seq([token : BOOLEAN])
    BY EmptySeq DEF GuardInit
  <2>4. 1 \in 1..End /\ 0 \in 0..End
    BY <1>2 DEF End
  <2>5. \A x \in reached : /\ x[1] \in 1..End /\ x[2] \in States
                            /\ Len(x[2].pushes) <= Depth /\ x = <<x[1], x[2]>>
    BY <2>1, <2>2, <2>4
  <2> QED
    BY <1>1, <2>3, <2>4, <2>5 DEF GuardTyped, GuardInit
<1>4. Analyzed /\ Unstarted /\ NoPushLost /\ place = 0
  BY DEF GuardInit, Analyzed, Unstarted, NoPushLost
<1> QED
  BY <1>3, <1>4 DEF GuardInv

LEMMA GuardAnalyze ==
  ASSUME GuardInv, Analyze
  PROVE  GuardInv'
<1>1. /\ GuardTyped /\ reached' = reached \cup Successors /\ place = 0 /\ place' = 0
      /\ UNCHANGED <<sequence, guarded, exit, trips, fifo, busy, credit, overrun>>
  BY DEF GuardInv, Analyze, channel
<1>2. GuardTyped'
  <2>1. IsSequence(sequence)' /\ End' = End /\ Len(sequence) \in Nat
    BY <1>1, LenProperties DEF GuardTyped, IsSequence, End
  <2>2. ASSUME NEW x \in reached'
        PROVE  /\ x[1] \in 1..End /\ x[2] \in States /\ Len(x[2].pushes) <= Depth
               /\ x = <<x[1], x[2]>>
    <3>1. CASE x \in reached
      BY <1>1, <3>1 DEF GuardTyped
    <3>2. CASE x \in Successors
      BY <1>1, <3>2, SuccessorsTyped
    <3> QED
      BY <1>1, <3>1, <3>2
  <2>3. (\A x \in reached : /\ x[1] \in 1..End /\ x[2] \in States
                            /\ Len(x[2].pushes) <= Depth /\ x = <<x[1], x[2]>>)'
    BY <2>1, <2>2
  <2> QED
    BY <1>1, <2>1, <2>3 DEF GuardTyped
<1>3. Analyzed' /\ Unstarted' /\ NoPushLost'
  BY <1>1 DEF GuardInv, Analyzed, Unstarted, NoPushLost, Empty
<1> QED
  BY <1>1, <1>2, <1>3 DEF GuardInv

LEMMA GuardCompiled ==
  ASSUME GuardInv, Guard
  PROVE  GuardInv'
<1>1. /\ GuardTyped /\ Successors \subseteq reached /\ place = 0 /\ place' = 1
      /\ guarded' = Overflowing /\ exit' = ExitState(StatesAt(End))
      /\ UNCHANGED <<sequence, reached, trips, fifo, busy, credit, overrun>>
      /\ fifo = <<>> /\ ~busy /\ credit = 0
  BY DEF GuardInv, Guard, channel, Unstarted
<1>2. sequence \in Seq(Operations) /\ Len(sequence) \in Nat
  BY <1>1, LenProperties DEF GuardTyped, IsSequence
<1>3. GuardTyped'
  <2>1. Overflowing \subseteq DOMAIN sequence
    BY <1>1, OperationTyped DEF Overflowing, PushesIn
  <2>2. 1 \in 0..End /\ End' = End
    BY <1>1, <1>2 DEF End
  <2>3. guarded' \subseteq DOMAIN sequence'
    BY <1>1, <2>1
  <2> QED
    BY <1>1, <2>2, <2>3 DEF GuardTyped
<1>4. Analyzed'
  <2>1. /\ Successors' = Successors /\ Overflowing' = Overflowing
    BY <1>1 DEF Successors, StateAfter, UnknownRegion, PushesIn, PlacesAfter, End,
                Overflowing, StatesAt
  <2>2. ExitState(StatesAt(End))' = ExitState(StatesAt(End))
    BY <1>1 DEF ExitState, StatesAt, End
  <2>3. (<<1, Empty>> \in reached)'
    BY <1>1 DEF GuardInv, Analyzed, Empty
  <2> QED
    BY <1>1, <2>1, <2>2, <2>3 DEF Analyzed
<1>5. Covered'
  <2>1. Empty \in StatesAt(1)
    BY <1>1, StateAt DEF GuardInv, Analyzed
  <2>2. Models(Empty, <<>>, 0, 0)
    <3>1. Cardinality(Owing(<<>>)) = 0
      BY OwingOfNone
    <3>2. Cardinality(OwingInModel(Empty)) \in Nat
      BY EmptyTyped, OwingModelTyped
    <3>3. 0 <= Len(Empty.pushes)
      BY EmptyTyped
    <3>4. 0 + Cardinality(Owing(<<>>)) <= Cardinality(OwingInModel(Empty))
      BY <3>1, <3>2
    <3>5. \A k \in 0..0 - 1 : k \in OwingInModel(Empty) <=> k \in Owing(<<>>)
      OBVIOUS
    <3> QED
      BY <3>3, <3>4, <3>5 DEF Models
  <2>3. Queued' = 0
    BY <1>1, EmptySeq DEF Queued
  <2>4. StatesAt(1)' = StatesAt(1)
    BY <1>1 DEF StatesAt
  <2> QED
    BY <1>1, <2>1, <2>2, <2>3, <2>4 DEF Covered, Followed
<1>6. Unstarted' /\ NoPushLost'
  BY <1>1 DEF GuardInv, Unstarted, NoPushLost
<1> QED
  BY <1>3, <1>4, <1>5, <1>6 DEF GuardInv

\* Control at an operation in an unknown region goes on within the region or
\* comes back to the operation it belongs to.
LEMMA RegionGoesOn ==
  ASSUME GuardTyped, NEW w \in DOMAIN sequence, InRegion(w),
         place # w, NEW n \in sequence[place].next
  PROVE  n \in sequence[w].body \cup {w}
  BY OperationTyped DEF InRegion

\* The next place is one of the sequence.
LEMMA PlaceOn ==
  ASSUME GuardTyped, place \in DOMAIN sequence, NEW n \in sequence[place].next
  PROVE  n \in 1..End /\ n \in 0..End /\ n # 0
<1>1. n \in 1..End /\ End \in Nat
  BY OperationTyped
<1> QED
  BY <1>1

\* What a step of the controller or the channel leaves as it is.
LEMMA StepKeeps ==
  ASSUME GuardInv, UNCHANGED <<sequence, analysis>>, place # 0, place' \in 1..End,
         trips' \in Nat, fifo' \in Seq([token : BOOLEAN]), busy' \in BOOLEAN,
         credit' \in Nat, busy' => fifo' # <<>>, Covered', ~overrun'
  PROVE  GuardInv'
<1>1. End' = End /\ Len(sequence) \in Nat /\ place' # 0 /\ place' \in 0..End
  BY LenProperties DEF GuardInv, GuardTyped, IsSequence, End
<1>2. GuardTyped'
  BY <1>1 DEF GuardInv, GuardTyped, analysis
<1>3. Analyzed'
  BY AnalyzedKept DEF GuardInv
<1> QED
  BY <1>1, <1>2, <1>3 DEF GuardInv, Unstarted, NoPushLost

\* A push that finds the queue full by what the analysis knows is behind a poll.
LEMMA PushHasRoom ==
  ASSUME GuardInv, IssuePush
  PROVE  Queued < Depth
<1>1. GuardTyped /\ Analyzed /\ Covered /\ place \in DOMAIN sequence /\ place # 0
  BY OperationTyped DEF GuardInv, IssuePush, At
<1>2. sequence[place].op = "push" /\ guarded = Overflowing
  BY <1>1 DEF IssuePush, At, Analyzed
<1>3. place \in guarded => Queued < Depth
  BY DEF IssuePush
<1>4. CASE Followed
  <2>1. PICK m \in StatesAt(place) : Models(m, fifo, Queued, credit)
    BY <1>4 DEF Followed
  <2>2. CASE WouldOverflow(m)
    <3>1. place \in Overflowing
      BY <1>1, <1>2, <2>2 DEF Overflowing
    <3> QED
      BY <1>2, <1>3, <3>1
  <2>3. CASE ~WouldOverflow(m)
    <3>1. Len(m.pushes) \in Nat /\ Queued \in Nat /\ Queued <= Len(m.pushes)
      BY <1>1, <2>1, StateAt, QueuedTyped DEF Models
    <3> QED
      BY <2>3, <3>1, DepthAssumption DEF WouldOverflow
  <2> QED
    BY <2>2, <2>3
<1>5. CASE \E w \in DOMAIN sequence : InRegion(w)
  <2>1. PICK w \in DOMAIN sequence : InRegion(w)
    BY <1>5
  <2>2. sequence[w].op = "while" /\ place \in sequence[w].body /\ StatesAt(w) # {}
    BY <1>2, <2>1 DEF InRegion
  <2>3. place \in PushesIn(w)
    BY <1>2, <2>2 DEF PushesIn
  <2>4. place \in Overflowing
    BY <2>1, <2>2, <2>3 DEF Overflowing
  <2> QED
    BY <1>2, <1>3, <2>4
<1> QED
  BY <1>1, <1>4, <1>5 DEF Covered

LEMMA GuardPush ==
  ASSUME GuardInv, IssuePush
  PROVE  GuardInv'
<1> DEFINE o == sequence[place]
           x == [token |-> o.token]
<1>1. /\ GuardTyped /\ Analyzed /\ Covered /\ place \in DOMAIN sequence /\ place # 0
      /\ UNCHANGED <<sequence, analysis>> /\ Queued < Depth /\ ~overrun
  BY PushHasRoom, OperationTyped DEF GuardInv, IssuePush, At, GoOn, NoPushLost
<1>2. o.op = "push" /\ o.token \in BOOLEAN
  BY <1>1, OperationTyped DEF IssuePush, At
<1>3. /\ place' \in o.next /\ trips' = trips /\ busy' = busy /\ credit' = credit
      /\ fifo' = Append(fifo, x) /\ ~overrun'
  <2>1. ~(Queued >= Depth)
    BY <1>1, QueuedTyped, DepthAssumption
  <2> QED
    BY <1>1, <2>1 DEF IssuePush, GoOn
<1>4. place' \in 1..End
  BY <1>1, <1>3, PlaceOn
<1>5. fifo \in Seq([token : BOOLEAN]) /\ credit \in Nat /\ x \in [token : BOOLEAN]
  BY <1>1, <1>2 DEF GuardTyped
<1>6. Queued \in 0..Len(fifo) /\ Len(fifo) \in Nat
  BY <1>1, QueuedTyped
<1>7. /\ fifo' \in Seq([token : BOOLEAN]) /\ Len(fifo') = Len(fifo) + 1
      /\ fifo' # <<>>
  <2> HIDE DEF x
  <2>1. fifo' \in Seq([token : BOOLEAN]) /\ Len(fifo') = Len(fifo) + 1
    BY <1>3, <1>5, AppendProperties
  <2> QED
    BY <1>6, <2>1, EmptySeq
<1>8. Queued' = Queued + 1
  BY <1>3, <1>6, <1>7 DEF Queued
<1>9. Covered'
  <2>1. CASE Followed
    <3>1. PICK m \in StatesAt(place) : Models(m, fifo, Queued, credit)
      BY <2>1 DEF Followed
    <3>2. m \in QueueModels
      BY <1>1, StateAt
    <3> DEFINE s == IF WouldOverflow(m) THEN SpaceModel(m) ELSE m
    <3>3. s \in QueueModels /\ Models(s, fifo, Queued, credit)
      <4>1. Queued \in Nat /\ Queued <= Depth - 1
        BY <1>1, <1>6, DepthAssumption
      <4>2. SpaceModel(m) \in QueueModels
        BY <3>2, ModelTyped
      <4>3. Models(SpaceModel(m), fifo, Queued, credit)
        BY <1>5, <3>1, <3>2, <4>1, ModelsSpace
      <4> QED
        BY <3>1, <3>2, <4>2, <4>3
    <3>4. Models(PushModel(s, x.token), Append(fifo, x), Queued + 1, credit)
      <4> HIDE DEF s
      <4>1. x.token \in BOOLEAN
        BY <1>2
      <4> HIDE DEF x
      <4> QED
        BY <1>5, <1>6, <3>3, <4>1, ModelsPush
    <3>5. StateAfter(place, m) = PushModel(s, x.token)
      BY <1>2 DEF StateAfter, GuardedPushModel
    <3>6. StateAfter(place, m) \in StatesAt(place')
      <4>1. place' \in PlacesAfter(place)
        BY <1>2, <1>3 DEF PlacesAfter
      <4> QED
        BY <1>1, <4>1, FollowOn
    <3>7. Models(StateAfter(place, m), fifo', Queued', credit')
      BY <1>3, <1>8, <3>4, <3>5
    <3> QED
      BY <1>1, <3>6, <3>7, FollowedBy
  <2>2. CASE \E w \in DOMAIN sequence : InRegion(w)
    <3>1. PICK w \in DOMAIN sequence : InRegion(w)
      BY <2>2
    <3>2. sequence[w].op = "while" /\ place # w /\ place \in sequence[w].body
      BY <1>2, <3>1 DEF InRegion
    <3>3. place' \in sequence[w].body \cup {w}
      BY <1>1, <1>3, <3>1, <3>2, RegionGoesOn
    <3>4. PushesIn(w) # {}
      BY <1>2, <3>2 DEF PushesIn
    <3>5. PICK m \in StatesAt(w) : TRUE
      BY <3>1 DEF InRegion
    <3>6. Queued' <= Depth
      BY <1>1, <1>6, <1>8, DepthAssumption
    <3> QED
      BY <1>1, <3>1, <3>2, <3>3, <3>4, <3>5, <3>6, CoveredByRegion
  <2> QED
    BY <1>1, <2>1, <2>2 DEF Covered
<1>10. trips' \in Nat /\ busy' \in BOOLEAN /\ credit' \in Nat
  BY <1>1, <1>3 DEF GuardTyped
<1> QED
  BY <1>1, <1>3, <1>4, <1>7, <1>9, <1>10, StepKeeps

LEMMA GuardAwait ==
  ASSUME GuardInv, IssueAwait
  PROVE  GuardInv'
<1>1. /\ GuardTyped /\ Analyzed /\ Covered /\ place \in DOMAIN sequence /\ place # 0
      /\ UNCHANGED <<sequence, analysis>> /\ ~overrun
  BY OperationTyped DEF GuardInv, IssueAwait, At, GoOn, NoPushLost
<1>2. /\ sequence[place].op = "await" /\ place' \in sequence[place].next
      /\ credit > 0 /\ credit' = credit - 1
      /\ UNCHANGED <<trips, fifo, busy, overrun>>
  BY DEF IssueAwait, At, GoOn
<1>3. place' \in 1..End
  BY <1>1, <1>2, PlaceOn
<1>4. /\ fifo \in Seq([token : BOOLEAN]) /\ credit \in Nat /\ credit' \in Nat
      /\ Queued \in Nat /\ Queued' = Queued
  BY <1>1, <1>2, QueuedTyped DEF GuardTyped, Queued
<1>5. Covered'
  <2>1. CASE Followed
    <3>1. PICK m \in StatesAt(place) : Models(m, fifo, Queued, credit)
      BY <2>1 DEF Followed
    <3>2. m \in QueueModels
      BY <1>1, StateAt
    <3>3. Models(AwaitModel(m), fifo, Queued, credit - 1)
      BY <1>2, <1>4, <3>1, <3>2, ModelsAwait
    <3>4. StateAfter(place, m) = AwaitModel(m) /\ place' \in PlacesAfter(place)
      BY <1>2 DEF StateAfter, PlacesAfter
    <3>5. AwaitModel(m) \in StatesAt(place')
      BY <1>1, <3>4, FollowOn
    <3> QED
      BY <1>1, <1>2, <1>4, <3>3, <3>5, FollowedBy
  <2>2. CASE \E w \in DOMAIN sequence : InRegion(w)
    <3>1. PICK w \in DOMAIN sequence : InRegion(w)
      BY <2>2
    <3>2. sequence[w].op = "while" /\ place # w
      BY <1>2, <3>1 DEF InRegion
    <3>3. place' \in sequence[w].body \cup {w}
      BY <1>1, <1>2, <3>1, <3>2, RegionGoesOn
    <3>4. PICK m \in StatesAt(w) :
            IF PushesIn(w) = {} THEN Models(m, fifo, Queued, credit) ELSE Queued <= Depth
      BY <3>1 DEF InRegion
    <3>5. Models(m, fifo, Queued, credit) => Models(m, fifo, Queued, credit - 1)
      BY <1>1, <1>2, <1>4, StateAt, ModelsFewer
    <3>6. IF PushesIn(w) = {} THEN Models(m, fifo', Queued', credit') ELSE Queued' <= Depth
      BY <1>2, <1>4, <3>4, <3>5
    <3> QED
      BY <1>1, <3>2, <3>3, <3>6, CoveredByRegion
  <2> QED
    BY <1>1, <2>1, <2>2 DEF Covered
<1> QED
  BY <1>1, <1>2, <1>3, <1>4, <1>5, StepKeeps DEF GuardTyped

\* A step inside an unknown region that leaves the channel as it is.
LEMMA RegionStays ==
  ASSUME GuardInv, UNCHANGED <<sequence, analysis, channel>>,
         NEW w \in DOMAIN sequence, InRegion(w), place # w,
         place \in DOMAIN sequence, place' \in sequence[place].next
  PROVE  Covered'
<1>1. sequence[w].op = "while" /\ place' \in sequence[w].body \cup {w}
  BY RegionGoesOn DEF InRegion, GuardInv
<1>2. fifo' = fifo /\ credit' = credit /\ Queued' = Queued
  BY DEF Queued, channel
<1> QED
  BY <1>1, <1>2, CoveredByRegion DEF InRegion

\* A step of the controller that leaves the channel as it is.
LEMMA ControlKeeps ==
  ASSUME GuardInv, UNCHANGED <<sequence, analysis, channel>>,
         place \in DOMAIN sequence, place' \in sequence[place].next, trips' \in Nat,
         Covered'
  PROVE  GuardInv'
<1>1. place' \in 1..End /\ place # 0
  BY PlaceOn, OperationTyped DEF GuardInv
<1> QED
  BY <1>1, StepKeeps DEF GuardInv, GuardTyped, NoPushLost, channel

LEMMA GuardPoll ==
  ASSUME GuardInv, IssuePoll
  PROVE  GuardInv'
<1>1. /\ GuardTyped /\ Analyzed /\ Covered /\ place \in DOMAIN sequence /\ place # 0
      /\ UNCHANGED <<sequence, analysis, channel>>
  BY OperationTyped DEF GuardInv, IssuePoll, At, GoOn
<1>2. /\ sequence[place].op = "poll" /\ place' \in sequence[place].next
      /\ Queued < Depth /\ UNCHANGED <<trips, fifo, busy, credit>>
  BY DEF IssuePoll, At, GoOn, channel
<1>3. credit \in Nat /\ Queued \in Nat /\ Queued' = Queued /\ trips' \in Nat
  BY <1>1, <1>2, QueuedTyped DEF GuardTyped, Queued
<1>4. Covered'
  <2>1. CASE Followed
    <3>1. PICK m \in StatesAt(place) : Models(m, fifo, Queued, credit)
      BY <2>1 DEF Followed
    <3>2. m \in QueueModels /\ Queued <= Depth - 1
      <4>1. m \in QueueModels
        BY <1>1, StateAt
      <4> QED
        BY <1>2, <1>3, <4>1, DepthAssumption
    <3>3. Models(SpaceModel(m), fifo, Queued, credit)
      BY <1>3, <3>1, <3>2, ModelsSpace
    <3>4. StateAfter(place, m) = SpaceModel(m) /\ place' \in PlacesAfter(place)
      BY <1>2 DEF StateAfter, PlacesAfter
    <3>5. SpaceModel(m) \in StatesAt(place')
      BY <1>1, <3>4, FollowOn
    <3> QED
      BY <1>1, <1>2, <1>3, <3>3, <3>5, FollowedBy
  <2>2. CASE \E w \in DOMAIN sequence : InRegion(w)
    <3>1. PICK w \in DOMAIN sequence : InRegion(w) /\ place # w
      BY <1>2, <2>2 DEF InRegion
    <3> QED
      BY <1>1, <1>2, <3>1, RegionStays
  <2> QED
    BY <1>1, <2>1, <2>2 DEF Covered
<1> QED
  BY <1>1, <1>2, <1>3, <1>4, ControlKeeps

\* The places of a "for" or an "if" are followed, those in a "while" are not.
LEMMA GuardControl ==
  ASSUME GuardInv, Enter \/ Leave \/ Branch
  PROVE  GuardInv'
<1>1. /\ GuardTyped /\ Analyzed /\ Covered /\ place \in DOMAIN sequence /\ place # 0
      /\ UNCHANGED <<sequence, analysis, channel>>
      /\ sequence[place].op \in {"for", "while", "if"}
      /\ place' \in sequence[place].next
  BY OperationTyped DEF GuardInv, Enter, Leave, Branch, At, GoOn
<1>2. /\ trips' \in Nat /\ UNCHANGED <<fifo, busy, credit>>
      /\ Queued \in Nat /\ Queued' = Queued
  BY <1>1, QueuedTyped DEF GuardTyped, Queued, Enter, Leave, Branch, GoOn, channel
<1>3. ASSUME sequence[place].op = "while", NEW m \in StatesAt(place),
             IF PushesIn(place) = {} THEN Models(m, fifo, Queued, credit)
                                     ELSE Queued <= Depth
      PROVE  Covered'
  <2>1. CASE place' \in sequence[place].body
    BY <1>1, <1>2, <1>3, <2>1, CoveredByRegion
  <2>2. CASE place' \notin sequence[place].body
    <3>1. StateAfter(place, m) = UnknownRegion(place, m) /\ place' \in PlacesAfter(place)
      BY <1>1, <1>3, <2>2 DEF StateAfter, PlacesAfter
    <3>2. UnknownRegion(place, m) \in StatesAt(place')
      BY <1>1, <3>1, FollowOn
    <3>3. m \in QueueModels /\ Len(m.pushes) <= Depth
      BY <1>1, StateAt
    <3>4. Models(UnknownRegion(place, m), fifo, Queued, credit)
      BY <1>2, <1>3, <3>3, UnknownRegionModels
    <3> QED
      BY <1>1, <1>2, <3>2, <3>4, FollowedBy
  <2> QED
    BY <2>1, <2>2
<1>4. Covered'
  <2>1. CASE Followed
    <3>1. PICK m \in StatesAt(place) : Models(m, fifo, Queued, credit)
      BY <2>1 DEF Followed
    <3>2. CASE sequence[place].op = "while"
      <4>1. Len(m.pushes) \in Nat /\ Len(m.pushes) <= Depth /\ Queued <= Len(m.pushes)
        BY <1>1, <3>1, StateAt DEF Models
      <4>2. Queued <= Depth
        BY <1>2, <4>1, DepthAssumption
      <4> QED
        BY <1>3, <3>1, <3>2, <4>2
    <3>3. CASE sequence[place].op # "while"
      <4>1. StateAfter(place, m) = m /\ place' \in PlacesAfter(place)
        BY <1>1, <3>3 DEF StateAfter, PlacesAfter
      <4>2. m \in StatesAt(place')
        BY <1>1, <4>1, FollowOn
      <4> QED
        BY <1>1, <1>2, <3>1, <4>2, FollowedBy
    <3> QED
      BY <3>2, <3>3
  <2>2. CASE \E w \in DOMAIN sequence : InRegion(w)
    <3>1. PICK w \in DOMAIN sequence : InRegion(w)
      BY <2>2
    <3>2. CASE place = w
      BY <1>3, <3>1, <3>2 DEF InRegion
    <3>3. CASE place # w
      BY <1>1, <3>1, <3>3, RegionStays
    <3> QED
      BY <3>2, <3>3
  <2> QED
    BY <1>1, <2>1, <2>2 DEF Covered
<1> QED
  BY <1>1, <1>2, <1>4, ControlKeeps

\* The channel works the queue off.
LEMMA GuardChannel ==
  ASSUME GuardInv, TakeTask \/ CompleteTask
  PROVE  GuardInv'
<1>1. GuardTyped /\ UNCHANGED <<sequence, analysis, place, trips>> /\ fifo # <<>>
  BY DEF GuardInv, GuardTyped, TakeTask, CompleteTask
<1>2. /\ fifo \in Seq([token : BOOLEAN]) /\ Len(fifo) \in Nat \ {0}
      /\ Queued \in 0..Len(fifo) /\ credit \in Nat
      /\ fifo[1].token \in BOOLEAN
  <2>1. fifo \in Seq([token : BOOLEAN]) /\ Len(fifo) \in Nat /\ Queued \in 0..Len(fifo)
    BY <1>1, QueuedTyped DEF GuardTyped
  <2>2. Len(fifo) # 0
    BY <1>1, <2>1, EmptySeq
  <2>3. fifo[1] \in [token : BOOLEAN]
    <3>1. 1 \in 1..Len(fifo)
      BY <2>1, <2>2
    <3> QED
      BY <2>1, <3>1, ElementOfSeq
  <2>4. fifo[1].token \in BOOLEAN
    BY <2>3
  <2> QED
    BY <1>1, <2>1, <2>2, <2>4 DEF GuardTyped
<1>3. place # 0 /\ Covered
  BY <1>1, <1>2 DEF GuardInv, Unstarted
<1>4. /\ fifo' \in Seq([token : BOOLEAN]) /\ busy' \in BOOLEAN /\ credit' \in Nat
      /\ (busy' => fifo' # <<>>) /\ Queued' \in Nat /\ Queued' <= Queued
      /\ \A m \in QueueModels : Models(m, fifo, Queued, credit) =>
                                Models(m, fifo', Queued', credit')
  <2>1. CASE TakeTask
    <3>1. fifo' = fifo /\ busy' = TRUE /\ credit' = credit /\ ~busy
      BY <2>1 DEF TakeTask
    <3>2. Queued = Len(fifo) /\ Queued' = Len(fifo) - 1
      BY <1>2, <3>1 DEF Queued
    <3>3. Queued' \in Nat /\ Queued' <= Queued
      BY <1>2, <3>2
    <3>4. \A m \in QueueModels : Models(m, fifo, Queued, credit) =>
                                 Models(m, fifo, Queued', credit)
      BY <1>2, <3>3, ModelsRun
    <3> QED
      BY <1>1, <1>2, <3>1, <3>3, <3>4
  <2>2. CASE CompleteTask
    <3>1. /\ fifo' = Tail(fifo) /\ busy' = FALSE /\ busy
          /\ credit' = IF fifo[1].token THEN credit + 1 ELSE credit
      BY <2>2 DEF CompleteTask
    <3>2. Tail(fifo) \in Seq([token : BOOLEAN]) /\ Len(Tail(fifo)) = Len(fifo) - 1
      BY <1>1, <1>2, HeadTailProperties
    <3>3. Queued = Len(fifo) - 1 /\ Queued' = Len(fifo) - 1
      BY <1>2, <3>1, <3>2 DEF Queued
    <3>4. \A m \in QueueModels : Models(m, fifo, Queued, credit) =>
                                 Models(m, fifo', Queued', credit')
      <4> SUFFICES ASSUME NEW m \in QueueModels, Models(m, fifo, Queued, credit)
                   PROVE  Models(m, fifo', Queued', credit')
        OBVIOUS
      <4> QED
        BY <1>1, <1>2, <3>1, <3>3, ModelsComplete
    <3>5. credit' \in Nat /\ Queued' \in Nat /\ Queued' <= Queued
      BY <1>2, <3>1, <3>3
    <3> QED
      BY <3>1, <3>2, <3>4, <3>5
  <2> QED
    BY <2>1, <2>2
<1>5. Covered'
  <2>1. CASE Followed
    <3>1. PICK m \in StatesAt(place) : Models(m, fifo, Queued, credit)
      BY <2>1 DEF Followed
    <3>2. m \in QueueModels
      BY <1>1, StateAt
    <3> QED
      BY <1>1, <1>4, <3>1, <3>2, FollowedBy
  <2>2. CASE \E w \in DOMAIN sequence : InRegion(w)
    <3>1. PICK w \in DOMAIN sequence : InRegion(w)
      BY <2>2
    <3>2. PICK m \in StatesAt(w) :
            IF PushesIn(w) = {} THEN Models(m, fifo, Queued, credit) ELSE Queued <= Depth
      BY <3>1 DEF InRegion
    <3>3. m \in QueueModels
      BY <1>1, StateAt
    <3>4. Queued <= Depth => Queued' <= Depth
      BY <1>2, <1>4, DepthAssumption
    <3>5. IF PushesIn(w) = {} THEN Models(m, fifo', Queued', credit') ELSE Queued' <= Depth
      BY <1>4, <3>2, <3>3, <3>4
    <3> QED
      BY <1>1, <3>1, <3>5, CoveredByRegion DEF InRegion
  <2> QED
    BY <1>3, <2>1, <2>2 DEF Covered
<1>6. place' \in 1..End /\ trips' \in Nat /\ ~overrun'
  <2>1. place \in 0..End /\ Len(sequence) \in Nat
    BY LenProperties DEF GuardInv, GuardTyped, IsSequence
  <2>2. place' \in 1..End
    BY <1>1, <1>3, <2>1 DEF End
  <2> QED
    BY <1>1, <2>2 DEF GuardInv, GuardTyped, NoPushLost, TakeTask, CompleteTask
<1> QED
  BY <1>1, <1>3, <1>4, <1>5, <1>6, StepKeeps

LEMMA GuardStep == GuardInv /\ [GuardNext]_guardVars => GuardInv'
<1> SUFFICES ASSUME GuardInv, [GuardNext]_guardVars  PROVE GuardInv'
  OBVIOUS
<1>1. CASE UNCHANGED guardVars
  <2>1. /\ UNCHANGED <<sequence, analysis, reached, guarded, exit, place, trips>>
        /\ UNCHANGED <<fifo, busy, credit, overrun>>
    BY <1>1 DEF guardVars, analysis, channel
  <2>2. GuardTyped' /\ Unstarted' /\ NoPushLost'
    BY <2>1 DEF GuardInv, GuardTyped, IsSequence, End, Unstarted, NoPushLost
  <2>3. Analyzed'
    BY <2>1, AnalyzedKept DEF GuardInv, Analyzed, Empty
  <2>4. place' # 0 => Covered'
    BY <2>1, AnalysisKept DEF GuardInv, Covered, Followed, InRegion, Queued
  <2> QED
    BY <2>2, <2>3, <2>4 DEF GuardInv
<1>2. CASE GuardNext
  BY <1>2, GuardAnalyze, GuardCompiled, GuardPush, GuardAwait, GuardPoll, GuardControl,
    GuardChannel DEF GuardNext
<1> QED
  BY <1>1, <1>2

\* The analysis covers what the controller and the channel do, for every flow of
\* control and every depth of the queue.
THEOREM GuardInvariant == GuardSpec => []GuardInv
<1> QED
  BY GuardStart, GuardStep, PTL DEF GuardSpec

\* No push of a guarded sequence hits a full queue, on any path through its
\* loops, conditionals and regions of unknown semantics.
THEOREM GuardedPushesArrive == GuardSpec => []NoPushLost
<1>1. GuardInv => NoPushLost
  BY DEF GuardInv
<1> QED
  BY <1>1, GuardInvariant, PTL

-----------------------------------------------------------------------------
(* The state the caller is told.                                           *)

\* It holds the pushes of every path, and tells tokens apart only where all
\* paths agree.
LEMMA ExitStateCovers ==
  ASSUME NEW S, NEW m \in S, NEW q, NEW w \in Nat, NEW produced,
         \A s \in S : s \in QueueModels /\ Len(s.pushes) <= Depth,
         Models(m, q, w, produced)
  PROVE  Models(ExitState(S), q, w, produced)
<1>1. CASE \E s \in S : S = {s}
  <2>1. S = {m}
    BY <1>1
  <2>2. ExitState(S) = m
    BY <1>1, <2>1 DEF ExitState
  <2> QED
    BY <2>2
<1>2. CASE ~\E s \in S : S = {s}
  <2> DEFINE L == {Len(s.pushes) : s \in S}
             f == [i \in 1..Max(L) |-> FALSE]
  <2>1. L \in SUBSET (0..Depth) /\ Len(m.pushes) \in L
    BY OwingModelTyped, DepthAssumption
  <2> HIDE DEF L
  <2> m \in QueueModels
    OBVIOUS
  <2>2. Max(L) \in L /\ Max(L) >= Len(m.pushes)
    BY <2>1, MaxOfBounded, DepthAssumption
  <2>3. Max(L) \in Nat /\ Len(m.pushes) \in Nat
    <3>1. Len(m.pushes) \in Nat
      BY OwingModelTyped
    <3>2. Max(L) \in 0..Depth
      BY <2>1, <2>2, Zenon
    <3> QED
      BY <3>1, <3>2, DepthAssumption
  <2>4. f \in Seq(BOOLEAN) /\ DOMAIN f = 1..Max(L)
    BY <2>3, BooleanSeq
  <2>5. Len(f) = Max(L)
    <3> HIDE DEF f
    <3>1. Len(f) \in Nat /\ DOMAIN f = 1..Len(f)
      BY <2>4, LenProperties
    <3> QED
      BY <2>3, <2>4, <3>1
  <2>6. ExitState(S) = [pushes |-> f, unknownTokens |-> TRUE]
    BY <1>2, Zenon DEF ExitState, L
  <2> HIDE DEF f
  <2>7. w <= Len(f)
    BY <2>2, <2>3, <2>5 DEF Models
  <2> QED
    BY <2>6, <2>7 DEF Models
<1> QED
  BY <1>1, <1>2

\* At the end of the sequence the exit state covers the queue and its tokens,
\* whichever path control has taken.
THEOREM ExitStateHolds == GuardSpec => []ExitCovers
<1>1. GuardInv => ExitCovers
  <2> SUFFICES ASSUME GuardInv, place = End  PROVE Models(exit, fifo, Queued, credit)
    BY DEF ExitCovers
  <2>1. GuardTyped /\ Analyzed /\ Queued \in Nat
    BY QueuedTyped DEF GuardInv
  <2>2. Len(sequence) \in Nat /\ DOMAIN sequence = 1..Len(sequence)
    BY <2>1, LenProperties DEF GuardTyped, IsSequence
  <2>3. place # 0 /\ place \notin DOMAIN sequence
    BY <2>2 DEF End
  <2>4. Followed
    <3>1. ASSUME NEW w \in DOMAIN sequence, InRegion(w)  PROVE FALSE
      <4>1. place \in DOMAIN sequence
        BY <2>1, <3>1, OperationTyped DEF InRegion
      <4> QED
        BY <2>3, <4>1
    <3> QED
      BY <2>3, <3>1 DEF GuardInv, Covered
  <2>5. PICK m \in StatesAt(End) : Models(m, fifo, Queued, credit)
    BY <2>4 DEF Followed
  <2>6. \A s \in StatesAt(End) : s \in QueueModels /\ Len(s.pushes) <= Depth
    BY <2>1, StateAt
  <2>7. exit = ExitState(StatesAt(End))
    BY <2>1, <2>3 DEF Analyzed
  <2> QED
    BY <2>1, <2>5, <2>6, <2>7, ExitStateCovers
<1> QED
  BY <1>1, GuardInvariant, PTL
=============================================================================
