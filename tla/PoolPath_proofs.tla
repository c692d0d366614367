--------------------------- MODULE PoolPath_proofs ---------------------------
(***************************************************************************)
(* Both pools of a path are sound, whatever their sizes, segments and      *)
(* repeat counts: the near one because to it the path is but one more      *)
(* behaviour of a pool, the far one because the stream brings it exactly   *)
(* the objects a pool's filler would have numbered.                        *)
(***************************************************************************)
EXTENDS PoolPath, ObjectFifoPool_proofs, SequenceTheorems, TLAPS

FarProofs == INSTANCE ObjectFifoPool_proofs WITH
  Depth <- FarDepth, Repeat <- FarRepeat, Filled <- 0, Segments <- FarSegments,
  Endpoints <- FarEndpoints, Role <- FarRole,
  Kind <- [e \in FarEndpoints |-> "dma"],
  MaxAcquire <- [e \in FarEndpoints |-> 1],
  Selected <- FarSelected, Objects <- FarObjects, CoresExtend <- FALSE,
  produceLock <- farProduceLock, consumeLock <- farConsumeLock,
  data <- farData, pc <- farPc, todo <- farTodo, obj <- farObj,
  copy <- farCopy, own <- farOwn, held <- farHeld, arg <- farArg

-----------------------------------------------------------------------------
(* The near pool.                                                          *)

\* What moves from a draining end is nobody's choice, so that to the near pool
\* every step of the path is one of its own, or none.
LEMMA NearStep == [PathNext]_pathVars => [Next]_vars
<1> SUFFICES ASSUME [PathNext]_pathVars PROVE [Next]_vars
  OBVIOUS
<1>1. CASE UNCHANGED pathVars
  BY <1>1 DEF pathVars
<1>2. ASSUME NEW e \in Endpoints, NearCore(e) PROVE Next
  BY <1>2 DEF NearCore, Next
<1>3. ASSUME (DmaTakeLock(Sender) \/ DmaGiveLock(Sender)) PROVE Next
  BY <1>3, PathAssumption DEF DmaStep, Next
<1>4. ASSUME Send PROVE Next
  <2>1. DmaMove(Sender, NumberOf(Sender, obj[Sender]))
    BY <1>4, PathAssumption DEF Send, DmaMove, Fills, Drains
  <2> QED
    BY <2>1, PathAssumption DEF DmaStep, Next
<1>5. ASSUME FarDma PROVE UNCHANGED vars
  BY <1>5 DEF FarDma, Receive
<1>6. ASSUME NEW e \in FarEndpoints, FarOther(e) PROVE UNCHANGED vars
  BY <1>6 DEF FarOther
<1>7. ASSUME PathRest PROVE UNCHANGED vars
  BY <1>7 DEF PathRest, pathVars
<1> QED
  BY <1>1, <1>2, <1>3, <1>4, <1>5, <1>6, <1>7 DEF PathNext, NearDma

\* A path is a behaviour of its near pool.
THEOREM NearIsPool == PathSpec => Spec
<1>1. PathInit => Init
  BY DEF PathInit
<1> QED
  BY <1>1, NearStep, PTL DEF PathSpec, Spec

-----------------------------------------------------------------------------
(* The stream.                                                             *)

\* The sender's one segment is always the one it works.
LEMMA SenderShape ==
  ASSUME PoolInv
  PROVE  /\ todo[Sender] = {0} /\ Current(Sender, 0)
         /\ obj[Sender] \in Nat /\ copy[Sender] \in Nat /\ copy[Sender] < Repeat
         /\ pc[Sender] \in {"ready", "move", "give"}
         /\ 0 \in Selected[Sender]
<1>1. Selected[Sender] = {0}
  BY PathAssumption, PoolAssumption
<1>2. todo[Sender] = {0}
  BY <1>1, PathAssumption DEF PoolInv, StepShape
<1>3. Current(Sender, 0)
  BY <1>2 DEF Current
<1>4. pc[Sender] \in {"ready", "move", "give"}
  BY PathAssumption DEF PoolInv, StepShape
<1>5. /\ obj[Sender] \in Nat
      /\ copy[Sender] \in Nat /\ copy[Sender] < Repeat
  BY PathAssumption, PoolAssumption DEF PoolInv, TypeOK
<1> QED
  BY <1>1, <1>2, <1>3, <1>4, <1>5

\* What leaves is the copy of the object that is next.
LEMMA SentIsNext ==
  ASSUME Regime, PoolInv, pc[Sender] = "move"
  PROVE  ArrivalOf(data[Slot(Sender, obj[Sender])][0], copy[Sender]) = Moved + 1
<1>1. InOrder
  BY ContentsInOrder DEF PoolInv, Typing
<1>2. Touches(Sender, obj[Sender], 0) /\ obj[Sender] \in Nearby(Sender)
  <2>1. Touches(Sender, obj[Sender], 0)
    BY SenderShape, PathAssumption DEF Touches
  <2>2. obj[Sender] \in Nearby(Sender)
    BY SenderShape, PoolAssumption DEF Nearby
  <2> QED
    BY <2>1, <2>2
<1>3. data[Slot(Sender, obj[Sender])][0] = obj[Sender] + 1
  <2>1. data[Slot(Sender, obj[Sender])][0] = NumberOf(Sender, obj[Sender])
    BY <1>1, <1>2, PathAssumption DEF InOrder
  <2>2. NumberOf(Sender, obj[Sender]) = obj[Sender] + 1
    BY SenderShape, PathAssumption DEF NumberOf, Fills, Drains
  <2> QED
    BY <2>1, <2>2
<1> DEFINE n == obj[Sender]
<1>4. (n + 1 - 1) * Repeat = n * Repeat /\ n * Repeat \in Nat
  BY SenderShape, PoolAssumption
<1> HIDE DEF n
<1> QED
  BY <1>3, <1>4, SenderShape DEF ArrivalOf, Moved, n

\* A step of the path leaves a core's counterpart, the sender, where it is,
\* or takes it one transfer further, or neither.
LEMMA SenderMoves ==
  ASSUME PoolInv, [PathNext]_pathVars, ~Send
  PROVE  Moved' = Moved
<1>1. UNCHANGED <<obj, copy, pc>> => Moved' = Moved
  BY DEF Moved
<1>2. ASSUME NEW e \in Endpoints, NearCore(e)
      PROVE  Moved' = Moved
  <2>1. e # Sender
    BY <1>2, PathAssumption DEF NearCore, CoreStep, CoreAcquire, CoreTakeLock,
      CoreRelease, CoreGiveLock, IsCore, IsDma
  <2>2. obj'[Sender] = obj[Sender] /\ copy' = copy /\ pc'[Sender] = pc[Sender]
    BY <1>2, <2>1, PathAssumption DEF NearCore, CoreStep, CoreAcquire,
      CoreTakeLock, CoreRelease, CoreGiveLock, PoolInv, TypeOK
  <2> QED
    BY <2>2 DEF Moved
<1>3. ASSUME DmaTakeLock(Sender)
      PROVE  Moved' = Moved
  <2>1. /\ UNCHANGED <<obj, copy>> /\ pc[Sender] = "ready"
        /\ pc'[Sender] = "move"
    BY <1>3, PathAssumption DEF DmaTakeLock, PoolInv, TypeOK
  <2> QED
    BY <2>1 DEF Moved
<1>4. ASSUME DmaGiveLock(Sender)
      PROVE  Moved' = Moved
  <2>1. pc[Sender] = "give" /\ pc'[Sender] = "ready"
    BY <1>4, PathAssumption DEF DmaGiveLock, PoolInv, TypeOK
  <2>2. \/ copy'[Sender] = copy[Sender] + 1 /\ obj' = obj
        \/ /\ copy[Sender] + 1 = Repeat /\ copy'[Sender] = 0
           /\ obj'[Sender] = obj[Sender] + 1
    <3>1. \A s \in Segments : todo[Sender] = {s}
      BY SenderShape, PathAssumption
    <3>2. copy[Sender] + 1 < Copies(Sender) \/ copy[Sender] + 1 = Repeat
      BY SenderShape, PathAssumption, PoolAssumption DEF Copies
    <3> QED
      BY <1>4, <3>1, <3>2, PathAssumption DEF DmaGiveLock, PoolInv, TypeOK
  <2>3. (obj[Sender] + 1) * Repeat = obj[Sender] * Repeat + Repeat
    BY SenderShape, PoolAssumption
  <2>4. obj[Sender] * Repeat \in Nat
    BY SenderShape, PoolAssumption
  <2> QED
    BY <2>1, <2>2, <2>3, <2>4, SenderShape, PoolAssumption DEF Moved
<1>5. FarDma => UNCHANGED vars
  BY DEF FarDma, Receive
<1>6. \A e \in FarEndpoints : FarOther(e) => UNCHANGED vars
  BY DEF FarOther
<1>7. PathRest \/ UNCHANGED pathVars => UNCHANGED vars
  BY DEF PathRest, pathVars
<1> QED
  BY <1>1, <1>2, <1>3, <1>4, <1>5, <1>6, <1>7 DEF PathNext, NearDma, vars

LEMMA SendMoves ==
  ASSUME PoolInv, Send
  PROVE  Moved' = Moved + 1
<1>1. /\ UNCHANGED <<obj, copy>> /\ pc[Sender] = "move"
      /\ pc'[Sender] = "give"
  BY PathAssumption DEF Send, DmaMove, PoolInv, TypeOK
<1>2. obj[Sender] * Repeat \in Nat
  BY SenderShape, PoolAssumption
<1> QED
  BY <1>1, <1>2, SenderShape DEF Moved

-----------------------------------------------------------------------------
(* The far pool.                                                           *)

FarNext == [Far!Next]_farVars

\* The proofs about a pool speak of the far one too.
LEMMA FarIsSame ==
  /\ Far!Init <=> FarProofs!Init
  /\ Far!PoolInv <=> FarProofs!PoolInv
  /\ Far!NoConflict <=> FarProofs!NoConflict
  /\ Far!InOrder <=> FarProofs!InOrder
  /\ FarNext <=> [FarProofs!Next]_FarProofs!vars
  BY DEF FarNext, farVars,
    Far!PoolInv, Far!TypeOK, Far!StepShape, Far!HeldCountsObjects,
    Far!LocksCount, Far!QueuedContents, Far!Buffers, Far!Steps, Far!Fills,
    Far!Drains, Far!IsCore, Far!IsDma, Far!Current, Far!Larger, Far!Delta,
    Far!TakenUnits, Far!DoneUnits, Far!DoneObjects, Far!Count,
    Far!WrittenObjects, Far!NoConflict, Far!Touches, Far!Nearby, Far!Slot,
    Far!FirstObject, Far!InOrder, Far!NumberOf, Far!Init, Far!ProduceUnits,
    Far!ConsumeUnits, Far!Next, Far!CoreStep, Far!DmaStep, Far!DmaTakeLock,
    Far!DmaMove, Far!DmaGiveLock, Far!CoreAcquire, Far!CoreTakeLock,
    Far!CoreRelease, Far!CoreGiveLock, Far!UseLockAcquire,
    Far!UseLockRelease, Far!Rest, Far!vars, Far!locks, Far!core,
    Far!Returned, Far!Copies, FarProofs!PoolInv, FarProofs!TypeOK,
    FarProofs!StepShape, FarProofs!HeldCountsObjects, FarProofs!LocksCount,
    FarProofs!QueuedContents, FarProofs!Buffers, FarProofs!Steps,
    FarProofs!Fills, FarProofs!Drains, FarProofs!IsCore, FarProofs!IsDma,
    FarProofs!Current, FarProofs!Larger, FarProofs!Delta,
    FarProofs!TakenUnits, FarProofs!DoneUnits, FarProofs!DoneObjects,
    FarProofs!Count, FarProofs!WrittenObjects, FarProofs!NoConflict,
    FarProofs!Touches, FarProofs!Nearby, FarProofs!Slot,
    FarProofs!FirstObject, FarProofs!InOrder, FarProofs!NumberOf,
    FarProofs!Init, FarProofs!ProduceUnits, FarProofs!ConsumeUnits,
    FarProofs!Next, FarProofs!CoreStep, FarProofs!DmaStep,
    FarProofs!DmaTakeLock, FarProofs!DmaMove, FarProofs!DmaGiveLock,
    FarProofs!CoreAcquire, FarProofs!CoreTakeLock, FarProofs!CoreRelease,
    FarProofs!CoreGiveLock, FarProofs!UseLockAcquire,
    FarProofs!UseLockRelease, FarProofs!Rest, FarProofs!vars,
    FarProofs!locks, FarProofs!core, FarProofs!Returned, FarProofs!Copies

LEMMA FarRegime == FarProofs!PoolAssumption /\ FarProofs!Regime
<1>1. FarProofs!PoolAssumption
  BY PathAssumption DEF FarProofs!Roles, FarProofs!Kinds, Far!Roles, Far!Kinds
<1> QED
  BY <1>1 DEF FarProofs!Regime

LEMMA FarStart == Far!Init => Far!PoolInv
  BY FarIsSame, FarRegime, FarProofs!IndInvInit

LEMMA FarInvSame == Far!PoolInv <=> FarProofs!PoolInv
  BY FarIsSame

LEMMA FarStep == Far!PoolInv /\ FarNext => Far!PoolInv'
<1>1. Far!PoolInv' <=> FarProofs!PoolInv'
  BY FarInvSame, PTL
<1>2. FarProofs!PoolInv /\ [FarProofs!Next]_FarProofs!vars => FarProofs!PoolInv'
  BY FarRegime, FarProofs!IndInvNext
<1> QED
  BY <1>1, <1>2, FarIsSame

LEMMA FarFollows == Far!PoolInv => Far!NoConflict /\ Far!InOrder
<1>1. FarProofs!PoolInv => FarProofs!NoConflict
  BY FarRegime, FarProofs!CountsPreventConflict DEF FarProofs!PoolInv, FarProofs!Typing
<1>2. FarProofs!PoolInv => FarProofs!InOrder
  BY FarRegime, FarProofs!ContentsInOrder DEF FarProofs!PoolInv, FarProofs!Typing
<1> QED
  BY <1>1, <1>2, FarIsSame

\* The receiver is a DMA that fills, one pass over its segments per arrival.
LEMMA ReceiverShape ==
  ASSUME Far!PoolInv
  PROVE  /\ farObj[Receiver] \in Nat
         /\ farPc[Receiver] \in {"ready", "move", "give"}
         /\ farTodo[Receiver] \in SUBSET FarSegments
         /\ farCopy[Receiver] = 0
  BY PathAssumption DEF Far!PoolInv, Far!TypeOK, Far!StepShape, Far!IsDma,
    Far!Fills

LEMMA TakenType == Far!PoolInv => Taken \in Nat
  BY ReceiverShape DEF Taken

\* Only the last segment of an arrival takes it off the stream.
LEMMA ReceiveMoves ==
  ASSUME Far!PoolInv, Receive
  PROVE  /\ Taken = farObj[Receiver]
         /\ Taken' = Taken + (IF LastSegment THEN 1 ELSE 0)
<1>1. /\ farPc[Receiver] = "move" /\ farPc'[Receiver] = "give"
      /\ farObj' = farObj /\ farTodo' = farTodo
  BY PathAssumption DEF Receive, Far!DmaMove, Far!PoolInv, Far!TypeOK
<1>2. LastSegment' <=> LastSegment
  BY <1>1 DEF LastSegment
<1> QED
  BY <1>1, <1>2, ReceiverShape DEF Taken

LEMMA TakenStays ==
  ASSUME Far!PoolInv, [PathNext]_pathVars, ~Receive
  PROVE  Taken' = Taken
<1> DEFINE Same == /\ farObj'[Receiver] = farObj[Receiver]
                   /\ farPc'[Receiver] = farPc[Receiver]
                   /\ farTodo'[Receiver] = farTodo[Receiver]
<1>1. Same => Taken' = Taken
  BY DEF Taken, LastSegment
<1>2. UNCHANGED farVars => Same
  BY DEF farVars
<1>3. ASSUME NEW e \in FarEndpoints, FarOther(e)
      PROVE  Same
  BY <1>3, PathAssumption DEF FarOther, Far!DmaStep, Far!DmaTakeLock,
    Far!DmaMove, Far!DmaGiveLock, Far!PoolInv, Far!TypeOK
<1>4. ASSUME Far!DmaTakeLock(Receiver)
      PROVE  Taken' = Taken
  <2>1. /\ farObj' = farObj /\ farPc[Receiver] = "ready"
        /\ farPc'[Receiver] = "move"
    BY <1>4, PathAssumption DEF Far!DmaTakeLock, Far!PoolInv, Far!TypeOK
  <2> QED
    BY <2>1 DEF Taken
<1>5. ASSUME Far!DmaGiveLock(Receiver)
      PROVE  Taken' = Taken
  <2>1. /\ farPc[Receiver] = "give" /\ farPc'[Receiver] = "ready"
    BY <1>5, PathAssumption DEF Far!DmaGiveLock, Far!PoolInv, Far!TypeOK
  <2>2. farObj'[Receiver] = farObj[Receiver] + (IF LastSegment THEN 1 ELSE 0)
    <3>1. Far!Copies(Receiver) = 1
      BY PathAssumption DEF Far!Copies, Far!Drains
    <3>2. PICK s \in FarSegments :
            /\ Far!Current(Receiver, s)
            /\ IF farTodo[Receiver] = {s}
               THEN farObj'[Receiver] = farObj[Receiver] + 1
               ELSE farObj' = farObj
      BY <1>5, <3>1, ReceiverShape, PathAssumption
        DEF Far!DmaGiveLock, Far!PoolInv, Far!TypeOK
    <3>3. LastSegment <=> farTodo[Receiver] = {s}
      BY <3>2 DEF LastSegment, Far!Current
    <3> QED
      BY <3>2, <3>3, ReceiverShape
  <2> QED
    BY <2>1, <2>2, ReceiverShape DEF Taken
<1> QED
  BY <1>1, <1>2, <1>3, <1>4, <1>5
    DEF PathNext, NearCore, NearDma, Send, FarDma, PathRest, pathVars

\* Only what is received is written.
LEMMA WrittenStays ==
  ASSUME Far!PoolInv, [PathNext]_pathVars, ~Receive, NEW s \in FarSegments
  PROVE  Far!WrittenObjects(Receiver, s)' = Far!WrittenObjects(Receiver, s)
<1> DEFINE W(t) == Far!WrittenObjects(Receiver, t)
           Same == /\ farObj'[Receiver] = farObj[Receiver]
                   /\ farPc'[Receiver] = farPc[Receiver]
                   /\ farTodo'[Receiver] = farTodo[Receiver]
<1>0. /\ Far!IsDma(Receiver) /\ Far!Copies(Receiver) = 1
      /\ FarSegments \subseteq Nat
  BY PathAssumption DEF Far!IsDma, Far!Copies, Far!Drains, Far!PoolAssumption
<1>1. Same => W(s)' = W(s)
  BY <1>0 DEF Far!WrittenObjects, Far!DoneObjects, Far!Current, Far!IsDma
<1>2. UNCHANGED farVars => Same
  BY DEF farVars
<1>3. ASSUME NEW e \in FarEndpoints, FarOther(e)
      PROVE  Same
  BY <1>3, PathAssumption DEF FarOther, Far!DmaStep, Far!DmaTakeLock,
    Far!DmaMove, Far!DmaGiveLock, Far!PoolInv, Far!TypeOK
<1>4. ASSUME Far!DmaTakeLock(Receiver)
      PROVE  W(s)' = W(s)
  <2>1. /\ farObj' = farObj /\ farTodo' = farTodo /\ farPc[Receiver] = "ready"
        /\ farPc'[Receiver] = "move"
    BY <1>4, PathAssumption DEF Far!DmaTakeLock, Far!PoolInv, Far!TypeOK
  <2> QED
    BY <1>0, <2>1 DEF Far!WrittenObjects, Far!DoneObjects, Far!IsDma
<1>5. ASSUME Far!DmaGiveLock(Receiver)
      PROVE  W(s)' = W(s)
  <2>1. farPc[Receiver] = "give" /\ farPc'[Receiver] = "ready"
    BY <1>5, PathAssumption DEF Far!DmaGiveLock, Far!PoolInv, Far!TypeOK
  <2>2. PICK t \in FarSegments :
          /\ Far!Current(Receiver, t)
          /\ IF farTodo[Receiver] = {t}
             THEN /\ farTodo'[Receiver] = FarSegments
                  /\ farObj'[Receiver] = farObj[Receiver] + 1
             ELSE /\ farTodo'[Receiver] = farTodo[Receiver] \ {t}
                  /\ farObj' = farObj
    <3>1. PICK t \in FarSegments :
            /\ Far!Current(Receiver, t)
            /\ IF farTodo[Receiver] = {t}
               THEN /\ farTodo' = [farTodo EXCEPT ![Receiver] = FarSelected[Receiver]]
                    /\ farObj' = [farObj EXCEPT ![Receiver] = @ + 1]
               ELSE /\ farTodo' = [farTodo EXCEPT ![Receiver] = @ \ {t}]
                    /\ farObj' = farObj
      BY <1>0, <1>5, ReceiverShape DEF Far!DmaGiveLock
    <3>2. /\ farTodo \in [FarEndpoints -> SUBSET FarSegments]
          /\ farObj \in [FarEndpoints -> Nat]
      BY DEF Far!PoolInv, Far!TypeOK
    <3> QED
      BY <3>1, <3>2, PathAssumption
  <2>3. t \in farTodo[Receiver] /\ (Far!Current(Receiver, s) <=> s = t)
    BY <1>0, <2>2 DEF Far!Current
  <2>4. W(s) = farObj[Receiver] + (IF s \in farTodo[Receiver] THEN 0 ELSE 1)
                 + (IF s = t THEN 1 ELSE 0)
    BY <1>0, <2>1, <2>3 DEF Far!WrittenObjects, Far!DoneObjects, Far!IsDma
  <2>5. W(s)' = farObj'[Receiver] + (IF s \in farTodo'[Receiver] THEN 0 ELSE 1) + 0
    BY <1>0, <2>1 DEF Far!WrittenObjects, Far!DoneObjects, Far!IsDma
  <2> QED
    BY <2>2, <2>3, <2>4, <2>5, ReceiverShape
<1> QED
  BY <1>1, <1>2, <1>3, <1>4, <1>5
    DEF PathNext, NearCore, NearDma, Send, FarDma, PathRest, pathVars

\* What is written of the next arrival was taken from the stream or stands at
\* its head.
LEMMA WrittenNext ==
  ASSUME Far!PoolInv, NEW s \in FarSegments
  PROVE  /\ Far!WrittenObjects(Receiver, s) \in Nat
         /\ Taken <= Far!WrittenObjects(Receiver, s)
         /\ Far!WrittenObjects(Receiver, s) <= farObj[Receiver] + 1
<1>1. Far!IsDma(Receiver)
  BY PathAssumption DEF Far!IsDma
<1>2. Far!WrittenObjects(Receiver, s) =
        farObj[Receiver] + (IF s \in farTodo[Receiver] THEN 0 ELSE 1)
          + (IF farPc[Receiver] = "give" /\ Far!Current(Receiver, s) THEN 1 ELSE 0)
  BY <1>1 DEF Far!WrittenObjects, Far!DoneObjects, Far!IsDma
<1>3. Far!Current(Receiver, s) => s \in farTodo[Receiver]
  BY DEF Far!Current
<1>4. LastSegment /\ s \in farTodo[Receiver] => Far!Current(Receiver, s)
  BY PathAssumption DEF LastSegment, Far!Current, Far!PoolAssumption
<1> QED
  BY <1>2, <1>3, <1>4, ReceiverShape DEF Taken

-----------------------------------------------------------------------------
(* Both pools and the stream.                                              *)

PathInv == PoolInv /\ Far!PoolInv /\ StreamInOrder

\* What arrives is what a filler would have numbered.
LEMMA ArrivesInOrder ==
  ASSUME PathInv, Receive
  PROVE  Far!DmaStep(Receiver)
<1>1. Head(stream) = Far!NumberOf(Receiver, farObj[Receiver])
  <2>1. Head(stream) = Taken + 1
    BY TakenType DEF PathInv, StreamInOrder, Receive
  <2>2. Far!NumberOf(Receiver, farObj[Receiver]) = farObj[Receiver] + 1
    BY PathAssumption, ReceiverShape DEF PathInv, Far!NumberOf, Far!Fills
  <2> QED
    BY <2>1, <2>2, ReceiveMoves DEF PathInv
<1> QED
  BY <1>1 DEF Receive, Far!DmaStep

LEMMA FarPoolStep ==
  ASSUME PathInv, [PathNext]_pathVars
  PROVE  FarNext
<1>1. CASE Receive
  BY <1>1, ArrivesInOrder, PathAssumption DEF FarNext, Far!Next
<1>2. ASSUME Far!DmaTakeLock(Receiver) \/ Far!DmaGiveLock(Receiver)
      PROVE  FarNext
  BY <1>2, PathAssumption DEF FarNext, Far!Next, Far!DmaStep
<1>3. ASSUME NEW e \in FarEndpoints, FarOther(e)
      PROVE  FarNext
  BY <1>3 DEF FarNext, FarOther, Far!Next
<1>4. UNCHANGED farVars => FarNext
  BY DEF FarNext
<1> QED
  BY <1>1, <1>2, <1>3, <1>4
    DEF PathNext, NearCore, NearDma, Send, FarDma, PathRest, pathVars

LEMMA StreamStays ==
  ASSUME PathInv, [PathNext]_pathVars, ~Send, ~Receive
  PROVE  stream' = stream
  BY DEF PathNext, NearCore, NearDma, FarDma, FarOther, PathRest, pathVars

LEMMA MovedType == PoolInv => Moved \in Nat
<1> SUFFICES ASSUME PoolInv PROVE Moved \in Nat
  OBVIOUS
<1>1. obj[Sender] * Repeat \in Nat
  BY SenderShape, PoolAssumption
<1> QED
  BY <1>1, SenderShape DEF Moved

LEMMA StreamStep ==
  ASSUME Regime, PathInv, [PathNext]_pathVars
  PROVE  StreamInOrder'
<1> DEFINE Within(s) == Far!WrittenObjects(Receiver, s) <= Moved
<1>1. Taken \in Nat /\ Moved \in Nat
  BY TakenType, MovedType DEF PathInv
<1>2. ASSUME Send PROVE StreamInOrder'
  <2>1. stream' = Append(stream, Moved + 1)
    BY <1>2, SentIsNext DEF Send, DmaMove, PathInv
  <2>2. Moved' = Moved + 1 /\ Taken' = Taken
    BY <1>2, SendMoves DEF Send, PathInv, farVars, Taken, LastSegment
  <2>3. /\ stream' \in Seq(Nat) /\ Len(stream') = Len(stream) + 1
        /\ DOMAIN stream' = 1 .. Len(stream) + 1
        /\ \A i \in 1 .. Len(stream) : stream'[i] = stream[i]
        /\ stream'[Len(stream) + 1] = Moved + 1
    BY <1>1, <2>1 DEF PathInv, StreamInOrder
  <2>4. \A i \in 1 .. Len(stream) : stream'[i] = Taken' + i
    BY <2>2, <2>3 DEF PathInv, StreamInOrder
  <2>5. stream'[Len(stream) + 1] = Taken' + (Len(stream) + 1)
    BY <1>1, <2>2, <2>3 DEF PathInv, StreamInOrder
  <2>6. Len(stream') = Moved' - Taken'
    BY <1>1, <2>2, <2>3 DEF PathInv, StreamInOrder
  <2>7. Len(stream) \in Nat /\ Len(stream') <= StreamSize
    BY <1>2, <2>3, PathAssumption DEF PathInv, StreamInOrder, Send
  <2>8. ASSUME NEW s \in FarSegments PROVE Within(s)'
    <3>1. Far!WrittenObjects(Receiver, s)' = Far!WrittenObjects(Receiver, s)
      BY <1>2 DEF Send, farVars, Far!WrittenObjects, Far!DoneObjects, Far!Current,
        Far!IsDma
    <3> QED
      BY <1>1, <2>2, <3>1, WrittenNext DEF PathInv, StreamInOrder
  <2> QED
    BY <2>3, <2>4, <2>5, <2>6, <2>7, <2>8 DEF StreamInOrder
<1>3. ASSUME Receive PROVE StreamInOrder'
  <2>1. Moved' = Moved
    BY <1>3 DEF Receive, vars, Moved
  <2>2. Taken' = Taken + (IF LastSegment THEN 1 ELSE 0)
    BY <1>3, ReceiveMoves DEF PathInv
  <2>5. ASSUME NEW s \in FarSegments PROVE Within(s)'
    <3>1. /\ farPc'[Receiver] = "give" /\ farObj' = farObj /\ farTodo' = farTodo
          /\ Far!IsDma(Receiver)
      BY <1>3, PathAssumption DEF Receive, Far!DmaMove, Far!PoolInv, Far!TypeOK,
        Far!IsDma, PathInv
    <3>2. Far!WrittenObjects(Receiver, s)' <= farObj[Receiver] + 1
      <4>1. Far!Current(Receiver, s)' => s \in farTodo[Receiver]
        BY <3>1 DEF Far!Current
      <4> QED
        BY <3>1, <4>1, ReceiverShape
          DEF PathInv, Far!WrittenObjects, Far!DoneObjects, Far!IsDma
    <3>3. Len(stream) > 0 /\ Len(stream) = Moved - Taken
      BY <1>3 DEF Receive, PathInv, StreamInOrder
    <3>4. Taken = farObj[Receiver]
      BY <1>3, ReceiveMoves DEF PathInv
    <3>5. Far!WrittenObjects(Receiver, s)' \in Nat
      BY <3>1, ReceiverShape DEF PathInv, Far!WrittenObjects, Far!DoneObjects, Far!IsDma
    <3> QED
      BY <1>1, <2>1, <3>2, <3>3, <3>4, <3>5
  <2>3. CASE LastSegment
    <3>1. stream' = Tail(stream) /\ stream # <<>>
      BY <1>3, <2>3 DEF Receive
    <3>2. /\ stream' \in Seq(Nat) /\ Len(stream') = Len(stream) - 1
          /\ \A i \in 1 .. Len(stream) - 1 : stream'[i] = stream[i + 1]
      BY <3>1 DEF PathInv, StreamInOrder
    <3>3. Taken' = Taken + 1
      BY <2>2, <2>3
    <3>4. ASSUME NEW i \in 1 .. Len(stream) - 1
          PROVE  stream'[i] = Taken' + i
      <4>1. i + 1 \in DOMAIN stream
        BY DEF PathInv, StreamInOrder
      <4>2. stream[i + 1] = Taken + (i + 1)
        BY <4>1 DEF PathInv, StreamInOrder
      <4> QED
        BY <1>1, <3>2, <3>3, <4>2
    <3>5. DOMAIN stream' = 1 .. Len(stream) - 1
      BY <3>2 DEF PathInv, StreamInOrder
    <3>6. Len(stream') = Moved' - Taken'
      BY <1>1, <2>1, <3>2, <3>3 DEF PathInv, StreamInOrder
    <3>7. Len(stream') <= StreamSize
      BY <3>2, PathAssumption DEF PathInv, StreamInOrder
    <3> QED
      BY <2>5, <3>2, <3>4, <3>5, <3>6, <3>7 DEF StreamInOrder
  <2>4. CASE ~LastSegment
    BY <1>1, <1>3, <2>1, <2>2, <2>4, <2>5 DEF Receive, PathInv, StreamInOrder
  <2> QED
    BY <2>3, <2>4
<1>4. CASE ~Send /\ ~Receive
  BY <1>4, StreamStays, SenderMoves, TakenStays, WrittenStays DEF PathInv, StreamInOrder
<1> QED
  BY <1>2, <1>3, <1>4

LEMMA PathStart == PathInit => PathInv
<1> SUFFICES ASSUME PathInit PROVE PathInv
  OBVIOUS
<1>1. PoolInv /\ Far!PoolInv
  BY IndInvInit, FarStart DEF PathInit
<1>2. Moved = 0 /\ Taken = 0
  BY PathAssumption, PoolAssumption DEF PathInit, Init, Far!Init, Moved, Taken
<1>3. ASSUME NEW s \in FarSegments
      PROVE  Far!WrittenObjects(Receiver, s) = 0
  BY PathAssumption DEF PathInit, Far!Init, Far!WrittenObjects, Far!DoneObjects,
    Far!IsDma
<1> QED
  BY <1>1, <1>2, <1>3, PathAssumption DEF PathInv, PathInit, StreamInOrder

LEMMA PathStep == Regime /\ PathInv /\ [PathNext]_pathVars => PathInv'
  BY NearStep, IndInvNext, FarPoolStep, FarStep, StreamStep DEF PathInv

\* Whatever a stream delivers between two pools that are cut differently, both
\* pools stay sound and the stream stays in order (the locks, the rotation and
\* the segment chains of --aie-objectfifo-split's two halves).
THEOREM PathSound ==
  ASSUME Regime
  PROVE  PathSpec => [](PoolInv /\ NoConflict /\ InOrder /\ FarSound)
<1>1. PathSpec => []PathInv
  BY PathStart, PathStep, PTL DEF PathSpec
<1>2. PathInv => PoolInv /\ FarSound
  BY FarFollows DEF PathInv, FarSound
<1>3. PathInv => NoConflict /\ InOrder
  BY CountsPreventConflict, ContentsInOrder DEF PathInv, PoolInv, Typing
<1> QED
  BY <1>1, <1>2, <1>3, PTL

-----------------------------------------------------------------------------
(* The path as one channel.                                                *)

\* The arrivals after the a-th up to the b-th.
Numbers(a, b) == [i \in 1 .. b - a |-> a + i]

LEMMA NumbersSeq ==
  ASSUME NEW a \in Nat, NEW b \in Nat, a <= b
  PROVE  /\ Numbers(a, b) \in Seq(Nat) /\ Len(Numbers(a, b)) = b - a
         /\ \A i \in 1 .. b - a : Numbers(a, b)[i] = a + i
  BY DEF Numbers

LEMMA NumbersJoin ==
  ASSUME NEW a \in Nat, NEW b \in Nat, NEW c \in Nat, a <= b, b <= c
  PROVE  Numbers(a, b) \o Numbers(b, c) = Numbers(a, c)
<1>0. a <= c
  OBVIOUS
<1>1. PICK l \in Seq(Nat) : l = Numbers(a, b)
  BY NumbersSeq
<1>2. PICK r \in Seq(Nat) : r = Numbers(b, c)
  BY NumbersSeq
<1>3. PICK w \in Seq(Nat) : w = Numbers(a, c)
  BY <1>0, NumbersSeq
<1>4. Len(l) = b - a /\ \A i \in 1 .. b - a : l[i] = a + i
  BY <1>1, NumbersSeq
<1>5. Len(r) = c - b /\ \A i \in 1 .. c - b : r[i] = b + i
  BY <1>2, NumbersSeq
<1>6. Len(w) = c - a /\ \A i \in 1 .. c - a : w[i] = a + i
  BY <1>0, <1>3, NumbersSeq
<1>7. /\ l \o r \in Seq(Nat) /\ Len(l \o r) = Len(l) + Len(r)
      /\ \A i \in 1 .. Len(l) + Len(r) :
           (l \o r)[i] = IF i <= Len(l) THEN l[i] ELSE r[i - Len(l)]
  BY ConcatProperties
<1>8. Len(l) + Len(r) = c - a
  BY <1>4, <1>5
<1>9. ASSUME NEW i \in 1 .. c - a
      PROVE  (l \o r)[i] = w[i]
  <2>1. CASE i <= b - a
    BY <1>4, <1>6, <1>7, <1>8, <2>1
  <2>2. CASE ~(i <= b - a)
    <3>1. i - (b - a) \in 1 .. c - b
      BY <2>2
    <3>2. (l \o r)[i] = r[i - (b - a)]
      BY <1>4, <1>7, <1>8, <2>2
    <3>3. r[i - (b - a)] = b + (i - (b - a))
      BY <1>5, <3>1
    <3> QED
      BY <1>6, <3>2, <3>3
  <2> QED
    BY <2>1, <2>2
<1>10. l \o r = w
  <2>1. PICK q \in Seq(Nat) : q = l \o r
    BY <1>7
  <2>2. Len(q) = Len(w) /\ \A i \in 1 .. Len(q) : q[i] = w[i]
    BY <1>6, <1>7, <1>8, <1>9, <2>1
  <2>3. q = w
    BY <2>2, SeqEqual
  <2> QED
    BY <2>1, <2>3
<1> QED
  BY <1>1, <1>2, <1>3, <1>10

LEMMA NumbersCut ==
  ASSUME NEW a \in Nat, NEW b \in Nat, NEW c \in Nat, a <= b, b <= c
  PROVE  SubSeq(Numbers(a, c), b - a + 1, c - a) = Numbers(b, c)
<1>1. PICK r \in Seq(Nat) : r = Numbers(b, c)
  BY NumbersSeq
<1>2. Len(r) = c - b /\ \A i \in 1 .. c - b : r[i] = b + i
  BY <1>1, NumbersSeq
<1>3. PICK w : w = Numbers(a, c)
  OBVIOUS
<1>4. \A i \in 1 .. c - a : w[i] = a + i
  BY <1>3 DEF Numbers
<1>5. PICK m \in Int : m = b - a + 1
  OBVIOUS
<1>6. PICK n \in Int : n = c - a
  OBVIOUS
<1>7. \A i \in m .. n : w[i] \in Nat
  BY <1>4, <1>5, <1>6
<1>8. /\ SubSeq(w, m, n) \in Seq(Nat)
      /\ Len(SubSeq(w, m, n)) = IF m <= n THEN n - m + 1 ELSE 0
      /\ \A i \in 1 .. n - m + 1 : SubSeq(w, m, n)[i] = w[m + i - 1]
  BY <1>7, SubSeqProperties
<1>9. PICK q \in Seq(Nat) : q = SubSeq(w, m, n)
  BY <1>8
<1>10. Len(q) = c - b
  BY <1>5, <1>6, <1>8, <1>9
<1>11. ASSUME NEW i \in 1 .. c - b
       PROVE  q[i] = r[i]
  <2>1. q[i] = w[m + i - 1]
    BY <1>5, <1>6, <1>8, <1>9
  <2>2. m + i - 1 \in 1 .. c - a /\ m + i - 1 = b - a + i
    BY <1>5
  <2>3. w[m + i - 1] = a + (b - a + i)
    BY <1>4, <2>2
  <2> QED
    BY <1>2, <2>1, <2>3
<1>12. q = r
  BY <1>2, <1>10, <1>11, SeqEqual
<1> QED
  BY <1>1, <1>3, <1>5, <1>6, <1>9, <1>12

LEMMA FarCounts ==
  ASSUME NEW e \in FarEndpoints, NEW s
  PROVE  /\ Far!DoneObjects(e, s) = FarProofs!DoneObjects(e, s)
         /\ Far!WrittenObjects(e, s) = FarProofs!WrittenObjects(e, s)
  BY DEF Far!DoneObjects, FarProofs!DoneObjects, Far!WrittenObjects,
    FarProofs!WrittenObjects, Far!Current, FarProofs!Current, Far!IsDma,
    FarProofs!IsDma

LEMMA FarDrainer ==
  ASSUME NEW s \in FarSegments
  PROVE  /\ Far!Drainer(s) \in FarEndpoints \ {Receiver}
         /\ Far!Drains(Far!Drainer(s)) /\ s \in FarSelected[Far!Drainer(s)]
<1>1. "drain" \in Far!Roles
  BY DEF Far!Roles
<1>2. \E e \in FarEndpoints : Far!Drains(e) /\ s \in FarSelected[e]
  BY <1>1, PathAssumption DEF Far!PoolAssumption, Far!Drains
<1> QED
  BY <1>2, PathAssumption DEF Far!Drainer, Far!Drains

\* Where a segment of the far pool stands.
LEMMA FarBounds ==
  ASSUME Far!PoolInv, NEW s \in FarSegments
  PROVE  /\ Far!Retired(s) \in Nat /\ Far!WrittenObjects(Receiver, s) \in Nat
         /\ Far!Retired(s) <= Far!WrittenObjects(Receiver, s)
         /\ Far!WrittenObjects(Receiver, s) <= Far!Retired(s) + FarDepth
<1> DEFINE d == Far!Drainer(s)
<1>1. d \in FarEndpoints /\ Receiver \in FarEndpoints
      /\ FarProofs!Drains(d) /\ FarProofs!Fills(Receiver)
      /\ s \in FarSelected[Receiver] \cap FarSelected[d]
  BY FarDrainer, PathAssumption DEF Far!Drains, FarProofs!Drains, FarProofs!Fills
<1>2. FarProofs!Regime /\ FarProofs!Typing /\ FarProofs!LocksCount
  BY FarIsSame, FarRegime DEF FarProofs!PoolInv, FarProofs!Typing
<1>3. /\ FarProofs!DoneObjects(Receiver, s) \in Nat
      /\ FarProofs!DoneObjects(d, s) \in Nat
      /\ FarProofs!WrittenObjects(Receiver, s) \in Nat
      /\ FarProofs!DoneObjects(d, s) <= 0 + FarProofs!DoneObjects(Receiver, s)
      /\ FarProofs!DoneObjects(Receiver, s) <= FarProofs!WrittenObjects(Receiver, s)
      /\ 0 + FarProofs!WrittenObjects(Receiver, s) <= FarProofs!DoneObjects(d, s) + FarDepth
  <2> HIDE DEF d
  <2> QED
    BY <1>1, <1>2, FarRegime, FarProofs!PoolBounds
<1>4. FarDepth \in Nat
  BY PathAssumption DEF Far!PoolAssumption
<1>5. /\ Far!Retired(s) = FarProofs!DoneObjects(d, s)
      /\ Far!WrittenObjects(Receiver, s) = FarProofs!WrittenObjects(Receiver, s)
  BY <1>1, FarCounts DEF Far!Retired
<1> HIDE DEF d
<1> QED
  BY <1>3, <1>4, <1>5

\* What the far pool holds of a segment.
LEMMA FarNumbers ==
  ASSUME Far!PoolInv, NEW s \in FarSegments
  PROVE  FarPart(s) = Numbers(Far!Retired(s), Far!WrittenObjects(Receiver, s))
<1> DEFINE d == Far!Drainer(s)
           w == Far!WrittenObjects(Receiver, s)
           r == Far!Retired(s)
<1>1. d \in FarEndpoints /\ Far!Drains(d) /\ s \in FarSelected[d]
      /\ Receiver \in FarEndpoints /\ Far!Fills(Receiver)
      /\ s \in FarSelected[Receiver]
  BY FarDrainer, PathAssumption DEF Far!Fills
<1>2. r \in Nat /\ w \in Nat /\ FarDepth \in Nat \ {0}
  BY FarBounds, PathAssumption DEF Far!PoolAssumption
<1>3. \A j \in r .. 0 + w - 1 : farData[j % FarDepth][s] = j + 1
  BY <1>1 DEF Far!PoolInv, Far!QueuedContents, Far!Retired
<1>4. ASSUME NEW i \in 1 .. w - r
      PROVE  farData[Far!Slot(d, r + i - 1)][s] = r + i
  <2>1. Far!Slot(d, r + i - 1) = (0 + (r + i - 1)) % FarDepth
    BY <1>1 DEF Far!Slot, Far!FirstObject, Far!Fills, Far!Drains
  <2>2. r + i - 1 \in r .. 0 + w - 1 /\ 0 + (r + i - 1) = r + i - 1
        /\ (r + i - 1) + 1 = r + i
    BY <1>2
  <2> HIDE DEF r, w, d
  <2>3. PICK j \in r .. 0 + w - 1 : j = r + i - 1
    BY <2>2
  <2>4. farData[j % FarDepth][s] = j + 1
    BY <1>3
  <2> QED
    BY <2>1, <2>2, <2>3, <2>4
<1>5. FarPart(s) = [i \in 1 .. w - r |-> farData[Far!Slot(d, r + i - 1)][s]]
  BY DEF FarPart
<1> HIDE DEF d, r, w
<1>6. FarPart(s) = [i \in 1 .. w - r |-> r + i]
  BY <1>4, <1>5
<1> QED
  BY <1>6 DEF Numbers, r, w

\* What the stream still holds of a segment.
LEMMA StreamNumbers ==
  ASSUME PathInv, NEW s \in FarSegments
  PROVE  StreamPart(s) = Numbers(Far!WrittenObjects(Receiver, s), Moved)
<1>1. PICK w \in Nat : w = Far!WrittenObjects(Receiver, s)
  BY FarBounds DEF PathInv
<1>2. PICK t \in Nat : t = Taken
  BY TakenType DEF PathInv
<1>3. PICK m \in Nat : m = Moved
  BY MovedType DEF PathInv
<1>4. t <= w /\ w <= m
  BY <1>1, <1>2, <1>3, WrittenNext DEF PathInv, StreamInOrder
<1>5. stream = Numbers(t, m)
  <2>1. stream \in Seq(Nat) /\ Len(stream) = m - t
        /\ \A i \in DOMAIN stream : stream[i] = t + i
    BY <1>2, <1>3 DEF PathInv, StreamInOrder
  <2>2. DOMAIN stream = 1 .. m - t
    BY <2>1
  <2>3. stream = [i \in 1 .. m - t |-> stream[i]]
    BY <2>1, <2>2
  <2> QED
    BY <2>1, <2>2, <2>3 DEF Numbers
<1>6. StreamPart(s) = SubSeq(Numbers(t, m), w - t + 1, m - t)
  <2>1. Len(stream) = m - t
    BY <1>2, <1>3 DEF PathInv, StreamInOrder
  <2> QED
    BY <1>1, <1>2, <1>5, <2>1 DEF StreamPart
<1> QED
  BY <1>1, <1>3, <1>4, <1>6, NumbersCut

\* The near pool is filled by one core and drained by the sender.
LEMMA NearFiller ==
  /\ Filler(0) \in Endpoints \ {Sender} /\ Fills(Filler(0))
  /\ ~IsDma(Filler(0)) /\ 0 \in Selected[Filler(0)] \cap Selected[Sender]
<1>1. "fill" \in Roles /\ 0 \in Segments /\ Selected[Sender] = {0}
  BY PathAssumption, PoolAssumption DEF Roles
<1>2. \E e \in Endpoints : Fills(e) /\ 0 \in Selected[e]
  BY <1>1, PoolAssumption DEF Fills
<1>3. Filler(0) \in Endpoints /\ Fills(Filler(0)) /\ 0 \in Selected[Filler(0)]
  BY <1>2 DEF Filler
<1>4. Filler(0) # Sender
  BY <1>3, PathAssumption DEF Fills, Drains
<1>5. ~IsDma(Filler(0))
  BY <1>3, <1>4, PathAssumption DEF IsCore, IsDma
<1> QED
  BY <1>1, <1>3, <1>4, <1>5

LEMMA NearBounds ==
  ASSUME Regime, PoolInv
  PROVE  /\ PublishedArrivals \in Nat /\ Moved <= PublishedArrivals
         /\ PublishedArrivals <= Moved + Depth * Repeat
<1> DEFINE f == Filler(0)
<1>1. /\ f \in Endpoints /\ Sender \in Endpoints /\ Fills(f) /\ Drains(Sender)
      /\ ~IsDma(f) /\ 0 \in Segments /\ 0 \in Selected[f] \cap Selected[Sender]
      /\ IsDma(Sender)
  BY NearFiller, PathAssumption
<1>2. Typing /\ LocksCount /\ TypeOK
  BY DEF PoolInv, Typing
<1> HIDE DEF f
<1>3. Repeat \in Nat \ {0} /\ Filled \in Nat /\ Depth \in Nat
  BY PoolAssumption
<1>4. PICK u \in Nat : u = DoneObjects(f, 0)
  BY <1>1, <1>2, UnitsTyped
<1>5. PublishedArrivals = (Filled + u) * Repeat
  BY <1>4 DEF PublishedArrivals, Published, f
<1>6. PublishedArrivals \in Nat
  BY <1>3, <1>4, <1>5, UnitsNat
<1>7. obj[Sender] \in Nat /\ copy[Sender] \in Nat /\ DoneObjects(Sender, 0) = obj[Sender]
      /\ Current(Sender, 0)
  BY <1>1, SenderShape DEF DoneObjects
<1>8. PICK o \in Nat : o = obj[Sender] * Repeat
  BY <1>3, <1>7
<1>9. Moved = o + copy[Sender] + (IF pc[Sender] = "give" THEN 1 ELSE 0)
  BY <1>8 DEF Moved
<1>10. Moved <= PublishedArrivals
  <2>1. TakenUnits(Sender, 0) =
          o + copy[Sender] + (IF pc[Sender] # "ready" THEN 1 ELSE 0)
    BY <1>1, <1>7, <1>8 DEF TakenUnits, DoneUnits, Count
  <2>2. DoneUnits(f, 0) = u * Repeat + 0
    BY <1>1, <1>4 DEF DoneUnits
  <2>3. consumeLock[0] = Filled * Repeat - TakenUnits(Sender, 0) + DoneUnits(f, 0)
        /\ consumeLock[0] \in Nat
    BY <1>1, <1>2 DEF LocksCount, TypeOK
  <2>4. Filled * Repeat \in Nat /\ u * Repeat \in Nat
        /\ (Filled + u) * Repeat = Filled * Repeat + u * Repeat
    BY <1>3, <1>4, UnitsNat
  <2> QED
    BY <1>5, <1>7, <1>9, <2>1, <2>2, <2>3, <2>4
<1>11. PublishedArrivals <= Moved + Depth * Repeat
  <2>1. Filled + u <= obj[Sender] + Depth
    <3>1. /\ u <= WrittenObjects(f, 0) /\ WrittenObjects(f, 0) \in Nat
          /\ Filled + WrittenObjects(f, 0) <= obj[Sender] + Depth
      BY <1>1, <1>2, <1>4, <1>7, PoolBounds
    <3> QED
      BY <1>3, <1>4, <1>7, <3>1
  <2>2. (Filled + u) * Repeat <= (obj[Sender] + Depth) * Repeat
    BY <1>3, <1>4, <1>7, <2>1, UnitsMonotone
  <2>3. (obj[Sender] + Depth) * Repeat = o + Depth * Repeat
        /\ Depth * Repeat \in Nat
    BY <1>3, <1>7, <1>8, UnitsNat
  <2> QED
    BY <1>5, <1>6, <1>7, <1>8, <1>9, <2>2, <2>3
<1> QED
  BY <1>6, <1>10, <1>11

\* What the near pool still has to send.
LEMMA NearNumbers ==
  ASSUME Regime, PoolInv
  PROVE  NearPart = Numbers(Moved, PublishedArrivals)
<1> DEFINE f == Filler(0)
           Arrival(k) == ArrivalOf(data[Slot(Sender, k \div Repeat)][0], k % Repeat)
<1>1. /\ f \in Endpoints /\ Sender \in Endpoints /\ Fills(f) /\ Drains(Sender)
      /\ 0 \in Segments /\ 0 \in Selected[f] \cap Selected[Sender] /\ IsDma(Sender)
  BY NearFiller, PathAssumption
<1>2. Typing /\ LocksCount /\ QueuedContents
  BY DEF PoolInv, Typing
<1>3. Repeat \in Nat \ {0} /\ Filled \in Nat /\ Depth \in Nat
  BY PoolAssumption
<1>4. /\ obj[Sender] \in Nat /\ copy[Sender] \in Nat
      /\ DoneObjects(Sender, 0) = obj[Sender]
  BY <1>1, SenderShape DEF DoneObjects
<1>5. PICK m \in Nat : m = Moved
  BY MovedType
<1>6. PICK p \in Nat : p = PublishedArrivals
  BY NearBounds
<1>7. PICK u \in Int : u = Filled + DoneObjects(f, 0)
  BY <1>1, <1>2, <1>3, UnitsTyped
<1>8. p = u * Repeat
  BY <1>6, <1>7 DEF PublishedArrivals, Published
<1>9. u <= Filled + WrittenObjects(f, 0) /\ WrittenObjects(f, 0) \in Nat
  <2> HIDE DEF f
  <2>1. /\ DoneObjects(f, 0) \in Nat /\ WrittenObjects(f, 0) \in Nat
        /\ DoneObjects(f, 0) <= WrittenObjects(f, 0)
    BY <1>1, <1>2, PoolBounds
  <2> QED
    BY <1>3, <1>7, <2>1
<1>10. obj[Sender] * Repeat <= m
  <2>1. obj[Sender] * Repeat \in Nat
    BY <1>3, <1>4, UnitsNat
  <2> QED
    BY <1>4, <1>5, <2>1 DEF Moved
<1> HIDE DEF f
<1>11. ASSUME NEW k \in m .. p - 1
       PROVE  Arrival(k) = k + 1
  <2>1. k \in Nat /\ k \in Int
    OBVIOUS
  <2>2. PICK q \in Int, r \in 0 .. Repeat - 1 :
          q = k \div Repeat /\ r = k % Repeat /\ k = q * Repeat + r
    BY <1>3, <2>1, DivMod
  <2>3. obj[Sender] <= q
    <3>1. obj[Sender] * Repeat <= q * Repeat + r
      BY <1>10, <1>4, <1>3, <2>1, <2>2
    <3> QED
      BY <1>3, <1>4, <2>2, <3>1, UnitsOrder
  <2>4. q <= u - 1
    <3>1. q * Repeat \in Int /\ u * Repeat = (u - 1) * Repeat + Repeat
          /\ (u - 1) * Repeat \in Int
      BY <1>3, <1>7, <2>2
    <3>2. q * Repeat <= (u - 1) * Repeat + (Repeat - 1)
      BY <1>3, <1>8, <2>1, <2>2, <3>1
    <3>3. Repeat - 1 \in 0 .. Repeat - 1 /\ u - 1 \in Int
      BY <1>3, <1>7
    <3> QED
      BY <1>3, <2>2, <3>2, <3>3, UnitsOrder
  <2>5. q \in DoneObjects(Sender, 0) .. Filled + WrittenObjects(f, 0) - 1
    BY <1>3, <1>4, <1>7, <1>9, <2>2, <2>3, <2>4
  <2>6. data[q % Depth][0] = q + 1
    BY <1>1, <1>2, <2>5 DEF QueuedContents
  <2>7. Slot(Sender, q) = q % Depth
    <3>1. q \in Nat
      BY <1>4, <2>2, <2>3
    <3> QED
      BY <1>1, <3>1, SlotInOrder
  <2>8. Arrival(k) = (q + 1 - 1) * Repeat + r + 1
    BY <2>2, <2>6, <2>7 DEF ArrivalOf
  <2>9. q + 1 - 1 = q /\ q * Repeat \in Int
    BY <1>3, <2>2
  <2> QED
    BY <2>2, <2>8, <2>9
<1> HIDE DEF Arrival
<1>12. NearPart = [i \in 1 .. p - m |-> Arrival(m + i - 1)]
  BY <1>5, <1>6 DEF NearPart, Arrival
<1>13. ASSUME NEW i \in 1 .. p - m
       PROVE  Arrival(m + i - 1) = m + i
  <2>1. PICK k \in m .. p - 1 : k = m + i - 1
    OBVIOUS
  <2> QED
    BY <1>11, <2>1
<1>14. NearPart = [i \in 1 .. p - m |-> m + i]
  BY <1>12, <1>13
<1> QED
  BY <1>5, <1>6, <1>14 DEF Numbers

\* The path holds the arrivals published and not retired, in order, and no more
\* than fit into its parts.
PathShape ==
  /\ PublishedArrivals \in Nat
  /\ \A s \in FarSegments :
        /\ Far!Retired(s) \in Nat /\ Far!Retired(s) <= PublishedArrivals
        /\ InPath(s) = Numbers(Far!Retired(s), PublishedArrivals)
        /\ PublishedArrivals <=
             Far!Retired(s) + (Depth * Repeat + StreamSize + FarDepth)

LEMMA PathHolds ==
  ASSUME Regime, PathInv
  PROVE  PathShape
<1>1. PICK p \in Nat : p = PublishedArrivals
  BY NearBounds DEF PathInv
<1>2. PICK m \in Nat : m = Moved
  BY MovedType DEF PathInv
<1>3. PICK t \in Nat : t = Taken
  BY TakenType DEF PathInv
<1>4. Depth * Repeat \in Nat /\ FarDepth \in Nat /\ StreamSize \in Nat
  BY PathAssumption, PoolAssumption, UnitsNat DEF Far!PoolAssumption
<1>5. m <= p /\ p <= m + Depth * Repeat
  BY <1>1, <1>2, NearBounds DEF PathInv
<1>6. m - t <= StreamSize
  BY <1>2, <1>3 DEF PathInv, StreamInOrder
<1>7. ASSUME NEW s \in FarSegments
      PROVE  /\ Far!Retired(s) \in Nat /\ Far!Retired(s) <= p
             /\ InPath(s) = Numbers(Far!Retired(s), p)
             /\ p <= Far!Retired(s) + (Depth * Repeat + StreamSize + FarDepth)
  <2>1. PICK r \in Nat : r = Far!Retired(s)
    BY FarBounds DEF PathInv
  <2>2. PICK w \in Nat : w = Far!WrittenObjects(Receiver, s)
    BY FarBounds DEF PathInv
  <2>3. r <= w /\ w <= r + FarDepth
    BY <2>1, <2>2, FarBounds DEF PathInv
  <2>4. t <= w /\ w <= m
    BY <1>2, <1>3, <2>2, WrittenNext DEF PathInv, StreamInOrder
  <2>5. InPath(s) = Numbers(r, w) \o Numbers(w, m) \o Numbers(m, p)
    BY <1>1, <1>2, <2>1, <2>2, FarNumbers, StreamNumbers, NearNumbers
      DEF PathInv, InPath
  <2>6. r <= m /\ r <= p /\ p <= r + (Depth * Repeat + StreamSize + FarDepth)
    BY <1>4, <1>5, <1>6, <2>3, <2>4
  <2>7. Numbers(r, w) \o Numbers(w, m) = Numbers(r, m)
    BY <2>3, <2>4, NumbersJoin
  <2>8. Numbers(r, m) \o Numbers(m, p) = Numbers(r, p)
    BY <1>5, <2>6, NumbersJoin
  <2> QED
    BY <2>1, <2>5, <2>6, <2>7, <2>8
<1> QED
  BY <1>1, <1>7 DEF PathShape

\* What the two steps of the channel ask of the path.
LEMMA PathPublish ==
  ASSUME NEW s \in FarSegments, NEW m \in Nat,
         Len(InPath(s)) + m <= Depth * Repeat + StreamSize + FarDepth,
         InPath(s)' = InPath(s) \o [i \in 1 .. m |-> PublishedArrivals + i],
         PublishedArrivals' = PublishedArrivals + m
  PROVE  Path(s)!Publish(s, m)
  BY DEF Path!Publish

LEMMA PathRetire ==
  ASSUME NEW s \in FarSegments, NEW m \in Nat, m <= Len(InPath(s)),
         InPath(s)' = SubSeq(InPath(s), m + 1, Len(InPath(s))),
         PublishedArrivals' = PublishedArrivals
  PROVE  Path(s)!Retire(s, m)
  BY DEF Path!Retire

LEMMA PathBegins ==
  ASSUME PathInit, PathShape, NEW s \in FarSegments
  PROVE  Path(s)!Init
<1>1. PublishedArrivals = Filled * Repeat
  <2>1. Published(0) = Filled + 0
    BY NearFiller DEF PathInit, Init, Published, DoneObjects
  <2> QED
    BY <2>1, PoolAssumption DEF PublishedArrivals
<1>2. Far!Retired(s) = 0
  BY FarDrainer DEF PathInit, Far!Init, Far!Retired, Far!DoneObjects, Far!IsDma
<1>3. InPath(s) = [i \in 1 .. Filled * Repeat |-> i]
  <2>1. PICK p \in Nat : p = Filled * Repeat
    BY <1>1 DEF PathShape
  <2>2. InPath(s) = [i \in 1 .. p - 0 |-> 0 + i]
    BY <1>1, <1>2, <2>1 DEF PathShape, Numbers
  <2>3. p - 0 = p /\ \A i \in 1 .. p : 0 + i = i
    OBVIOUS
  <2> QED
    BY <2>1, <2>2, <2>3
<1> QED
  BY <1>1, <1>3 DEF Path!Init

\* No step of the path works both pools at once.
LEMMA OnePool ==
  ASSUME [PathNext]_pathVars
  PROVE  UNCHANGED vars \/ UNCHANGED farVars
  BY DEF PathNext, NearCore, NearDma, Send, FarDma, Receive, FarOther, PathRest,
    pathVars

LEMMA NearStays ==
  ASSUME UNCHANGED vars
  PROVE  PublishedArrivals' = PublishedArrivals
  BY DEF vars, PublishedArrivals, Published, DoneObjects

LEMMA FarStays ==
  ASSUME UNCHANGED farVars, NEW s \in FarSegments
  PROVE  Far!Retired(s)' = Far!Retired(s)
  BY DEF farVars, Far!Retired, Far!DoneObjects

LEMMA PublishedGrows ==
  ASSUME PoolInv, PoolInv', [PathNext]_pathVars
  PROVE  PublishedArrivals <= PublishedArrivals'
<1> DEFINE f == Filler(0)
<1>1. f \in Endpoints /\ 0 \in Selected[f] /\ 0 \in Segments
  BY NearFiller, PathAssumption
<1>2. Typing /\ Typing' /\ [Next]_vars
  BY NearStep DEF PoolInv, Typing
<1> HIDE DEF f
<1>3. DoneObjects(f, 0) <= DoneObjects(f, 0)'
  BY <1>1, <1>2, DoneGrows
<1>4. PICK a \in Nat : a = DoneObjects(f, 0)
  BY <1>1, <1>2, UnitsTyped
<1>5. PICK b \in Nat : b = DoneObjects(f, 0)'
  <2>1. DoneObjects(f, 0)' \in Nat
    BY <1>1, <1>2 DEF DoneObjects, Typing, TypeOK
  <2> QED
    BY <2>1
<1>6. Filled \in Nat /\ Repeat \in Nat
  BY PoolAssumption
<1>7. (Filled + a) * Repeat <= (Filled + b) * Repeat
  BY <1>3, <1>4, <1>5, <1>6, UnitsMonotone
<1> QED
  BY <1>4, <1>5, <1>7 DEF PublishedArrivals, Published, f

LEMMA RetiredGrows ==
  ASSUME PathInv, PathInv', [PathNext]_pathVars, NEW s \in FarSegments
  PROVE  Far!Retired(s) <= Far!Retired(s)'
<1> DEFINE d == Far!Drainer(s)
<1>1. d \in FarEndpoints /\ s \in FarSelected[d]
  BY FarDrainer
<1>2. Far!PoolInv' <=> FarProofs!PoolInv'
  BY FarInvSame, PTL
<1>3. /\ FarProofs!Typing /\ FarProofs!Typing'
      /\ [FarProofs!Next]_FarProofs!vars
  BY <1>2, FarInvSame, FarIsSame, FarPoolStep
    DEF PathInv, FarProofs!PoolInv, FarProofs!Typing
<1>4. FarProofs!DoneObjects(d, s) <= FarProofs!DoneObjects(d, s)'
  <2> HIDE DEF d
  <2> QED
    BY <1>1, <1>3, FarRegime, FarProofs!DoneGrows
<1>5. /\ Far!Retired(s) = FarProofs!DoneObjects(d, s)
      /\ Far!Retired(s)' = FarProofs!DoneObjects(d, s)'
  BY DEF Far!Retired, Far!DoneObjects, FarProofs!DoneObjects, Far!IsDma,
    FarProofs!IsDma
<1> QED
  BY <1>4, <1>5

\* A step of the path is a step of the channel of every segment, or none.
LEMMA PathSimulates ==
  ASSUME PathInv, PathInv', PathShape, PathShape', [PathNext]_pathVars,
         NEW s \in FarSegments
  PROVE  [ \/ Path(s)!Publish(s, PublishedArrivals' - PublishedArrivals)
           \/ Path(s)!Retire(s, Far!Retired(s)' - Far!Retired(s))
         ]_<<PublishedArrivals, InPath(s)>>
<1>1. PICK p \in Nat : p = PublishedArrivals
  BY DEF PathShape
<1>2. PICK q \in Nat : q = PublishedArrivals'
  BY DEF PathShape
<1>3. PICK r \in Nat : r = Far!Retired(s)
  BY DEF PathShape
<1>4. PICK t \in Nat : t = Far!Retired(s)'
  BY DEF PathShape
<1>5. /\ InPath(s) = Numbers(r, p) /\ r <= p
      /\ InPath(s)' = Numbers(t, q) /\ t <= q
      /\ q <= t + (Depth * Repeat + StreamSize + FarDepth)
  BY <1>1, <1>2, <1>3, <1>4 DEF PathShape
<1>6. Len(InPath(s)) = p - r
  BY <1>5, NumbersSeq
<1>7. PICK cap \in Int : cap = Depth * Repeat + StreamSize + FarDepth
  BY PathAssumption, PoolAssumption DEF Far!PoolAssumption
<1>8. CASE UNCHANGED farVars
  <2>1. t = r
    BY <1>3, <1>4, <1>8, FarStays
  <2>2. p <= q
    BY <1>1, <1>2, PublishedGrows DEF PathInv
  <2>3. PICK m \in Nat : m = q - p
    BY <2>2
  <2>4. Len(InPath(s)) + m <= cap
    BY <1>5, <1>6, <1>7, <2>1, <2>3
  <2>5. InPath(s)' = InPath(s) \o [i \in 1 .. m |-> p + i]
    <3>1. Numbers(r, p) \o Numbers(p, q) = Numbers(r, q)
      BY <1>5, <2>2, NumbersJoin
    <3> QED
      BY <1>5, <2>1, <2>3, <3>1 DEF Numbers
  <2>6. q = p + m
    BY <2>3
  <2>7. Path(s)!Publish(s, m)
    BY <1>1, <1>2, <1>7, <2>4, <2>5, <2>6, PathPublish
  <2> QED
    BY <1>1, <1>2, <2>3, <2>7
<1>9. CASE UNCHANGED vars
  <2>1. q = p
    BY <1>1, <1>2, <1>9, NearStays
  <2>2. r <= t
    BY <1>3, <1>4, RetiredGrows
  <2>3. PICK m \in Nat : m = t - r
    BY <2>2
  <2>4. m <= Len(InPath(s))
    BY <1>5, <1>6, <2>1, <2>3
  <2>5. InPath(s)' = SubSeq(InPath(s), m + 1, Len(InPath(s)))
    <3>1. SubSeq(Numbers(r, p), t - r + 1, p - r) = Numbers(t, p)
      BY <1>5, <2>1, <2>2, NumbersCut
    <3> QED
      BY <1>5, <1>6, <2>1, <2>3, <3>1
  <2>6. Path(s)!Retire(s, m)
    BY <1>1, <1>2, <2>1, <2>4, <2>5, PathRetire
  <2> QED
    BY <1>3, <1>4, <2>3, <2>6
<1> QED
  BY <1>8, <1>9, OnePool

\* From the core to each draining end of the far pool the two pools, their
\* DMAs and the stream implement one bounded first-in-first-out channel, for
\* any depths, segments, repeat counts and stream (--aie-objectfifo-split's
\* two halves and what lies between them).
THEOREM PathImplements ==
  ASSUME Regime
  PROVE  PathSpec => ImplementsPath
<1>1. PathInit => PathInv /\ \A s \in FarSegments : Path(s)!Init
  BY PathStart, PathHolds, PathBegins
<1>2. PathInv /\ [PathNext]_pathVars => PathInv'
  BY PathStep
<1>3. PathInv => PathShape
  BY PathHolds
<1>4. PathInv /\ PathInv' /\ PathShape /\ PathShape' /\ [PathNext]_pathVars
        => [\A s \in FarSegments :
              [ \/ Path(s)!Publish(s, PublishedArrivals' - PublishedArrivals)
                \/ Path(s)!Retire(s, Far!Retired(s)' - Far!Retired(s))
              ]_<<PublishedArrivals, InPath(s)>>]_pathVars
  BY PathSimulates
<1> QED
  BY <1>1, <1>2, <1>3, <1>4, PTL DEF PathSpec, ImplementsPath

-----------------------------------------------------------------------------
(* Where the chains stop.                                                  *)

\* A DMA that is in the middle of an object has not come to its last.
SenderWithin ==
  /\ obj[Sender] <= DrainTotal
  /\ copy[Sender] > 0 \/ pc[Sender] # "ready" => obj[Sender] < DrainTotal

LEMMA WithinStart == PathInit => SenderWithin
  BY PathAssumption, PoolAssumption DEF PathInit, Init, SenderWithin

LEMMA WithinStep ==
  ASSUME PoolInv, SenderWithin, [PathNext]_pathVars
  PROVE  SenderWithin'
<1>0. /\ DrainTotal \in Nat /\ obj[Sender] \in Nat /\ copy[Sender] \in Nat
      /\ Sender \in Endpoints /\ Objects[Sender] = DrainTotal
  BY SenderShape, PathAssumption, PoolAssumption
<1>1. UNCHANGED <<obj, copy, pc>> => SenderWithin'
  BY DEF SenderWithin
<1>2. ASSUME NEW e \in Endpoints, NearCore(e)
      PROVE  SenderWithin'
  <2>1. e # Sender
    BY <1>2, PathAssumption DEF NearCore, CoreStep, CoreAcquire, CoreTakeLock,
      CoreRelease, CoreGiveLock, IsCore, IsDma
  <2>2. obj'[Sender] = obj[Sender] /\ copy' = copy /\ pc'[Sender] = pc[Sender]
    BY <1>2, <2>1, PathAssumption DEF NearCore, CoreStep, CoreAcquire,
      CoreTakeLock, CoreRelease, CoreGiveLock, PoolInv, TypeOK
  <2> QED
    BY <2>2 DEF SenderWithin
<1>3. ASSUME DmaTakeLock(Sender)
      PROVE  SenderWithin'
  BY <1>0, <1>3 DEF DmaTakeLock, SenderWithin
<1>4. ASSUME Send
      PROVE  SenderWithin'
  <2>1. UNCHANGED <<obj, copy>> /\ pc[Sender] = "move"
    BY <1>4 DEF Send, DmaMove
  <2> QED
    BY <1>0, <2>1 DEF SenderWithin
<1>5. ASSUME DmaGiveLock(Sender)
      PROVE  SenderWithin'
  <2>1. pc[Sender] = "give" /\ pc'[Sender] = "ready"
    BY <1>5, PathAssumption DEF DmaGiveLock, PoolInv, TypeOK
  <2>2. \/ obj' = obj
        \/ copy'[Sender] = 0 /\ obj'[Sender] = obj[Sender] + 1
    <3>1. \A s \in Segments : todo[Sender] = {s}
      BY SenderShape, PathAssumption
    <3> QED
      BY <1>5, <3>1, PathAssumption DEF DmaGiveLock, PoolInv, TypeOK
  <2> QED
    BY <1>0, <2>1, <2>2 DEF SenderWithin
<1>6. FarDma => UNCHANGED vars
  BY DEF FarDma, Receive
<1>7. \A e \in FarEndpoints : FarOther(e) => UNCHANGED vars
  BY DEF FarOther
<1>8. PathRest \/ UNCHANGED pathVars => UNCHANGED vars
  BY DEF PathRest, pathVars
<1> QED
  BY <1>1, <1>2, <1>3, <1>4, <1>5, <1>6, <1>7, <1>8 DEF PathNext, NearDma, vars

LEMMA MovedWithin ==
  ASSUME PoolInv, SenderWithin
  PROVE  Moved <= DrainTotal * Repeat
<1>1. /\ DrainTotal \in Nat /\ Repeat \in Nat \ {0}
      /\ obj[Sender] \in Nat /\ copy[Sender] \in Nat /\ copy[Sender] < Repeat
  BY SenderShape, PathAssumption, PoolAssumption
<1>2. PICK o \in Nat : o = obj[Sender] * Repeat
  BY <1>1, UnitsNat
<1>3. PICK n \in Nat : n = DrainTotal
  BY <1>1
<1>4. PICK k \in Nat : k = obj[Sender]
  BY <1>1
<1>5. CASE k < n
  <2>1. (k + 1) * Repeat <= n * Repeat /\ n * Repeat \in Nat
    BY <1>1, <1>5, UnitsMonotone, UnitsNat
  <2>2. (k + 1) * Repeat = o + Repeat
    BY <1>1, <1>2, <1>4
  <2> QED
    BY <1>1, <1>2, <1>3, <2>1, <2>2 DEF Moved
<1>6. CASE k = n
  <2>1. copy[Sender] = 0 /\ pc[Sender] = "ready"
    BY <1>1, <1>3, <1>4, <1>6 DEF SenderWithin
  <2> QED
    BY <1>2, <1>3, <1>4, <1>6, <2>1 DEF Moved
<1> QED
  BY <1>3, <1>4, <1>5, <1>6 DEF SenderWithin

\* The ends' work is bounded by the sender's passes, and the stream has the rest.
LEMMA EndsWithin ==
  ASSUME PathInv, SenderWithin
  PROVE  /\ Moved \in Nat /\ Taken \in Nat
         /\ Taken <= Moved /\ Moved <= DrainTotal * Repeat
         /\ stream = <<>> <=> Moved = Taken
<1>1. Moved \in Nat /\ Taken \in Nat
  BY MovedType, TakenType DEF PathInv
<1>2. Moved <= DrainTotal * Repeat
  BY MovedWithin DEF PathInv
<1>3. Len(stream) = Moved - Taken /\ stream \in Seq(Nat)
  BY DEF PathInv, StreamInOrder
<1>4. /\ Len(stream) \in Nat
      /\ stream = <<>> <=> Len(stream) = 0
  BY <1>3
<1> QED
  BY <1>1, <1>2, <1>3, <1>4

\* With an iter_count the passes are worth the same exactly at equal depths.
LEMMA PassesWorth ==
  ASSUME IterCount # 0
  PROVE  /\ DrainTotal * Repeat \in Nat /\ FillTotal \in Nat
         /\ FarDepth = Depth <=> DrainTotal * Repeat = FillTotal
<1>1. /\ Depth \in Nat /\ FarDepth \in Nat
      /\ IterCount \in Nat \ {0} /\ Repeat \in Nat \ {0}
  BY PathAssumption, PoolAssumption DEF Far!PoolAssumption
<1>2. PICK a \in Nat : a = Depth * IterCount
  BY <1>1, UnitsNat
<1>3. PICK b \in Nat : b = FarDepth * IterCount
  BY <1>1, UnitsNat
<1>4. DrainTotal * Repeat = a * Repeat /\ FillTotal = b * Repeat
  BY <1>2, <1>3 DEF DrainTotal, FillTotal
<1>5. \A m, n \in Nat, k \in Nat \ {0} : m < n => m * k < n * k
  <2> SUFFICES ASSUME NEW m \in Nat, NEW n \in Nat, NEW k \in Nat \ {0}, m < n
               PROVE  m * k < n * k
    OBVIOUS
  <2>1. (m + 1) * k <= n * k /\ m * k \in Nat /\ n * k \in Nat
    BY UnitsMonotone, UnitsNat
  <2>2. (m + 1) * k = m * k + k
    OBVIOUS
  <2> QED
    BY <2>1, <2>2
<1>6. a * Repeat \in Nat /\ b * Repeat \in Nat
  BY <1>1, UnitsNat
<1>7. CASE Depth < FarDepth
  <2>1. a < b
    BY <1>1, <1>2, <1>3, <1>5, <1>7
  <2>2. a * Repeat < b * Repeat
    BY <1>1, <1>5, <2>1
  <2> QED
    BY <1>1, <1>4, <1>6, <1>7, <2>2
<1>8. CASE FarDepth < Depth
  <2>1. b < a
    BY <1>1, <1>2, <1>3, <1>5, <1>8
  <2>2. b * Repeat < a * Repeat
    BY <1>1, <1>5, <2>1
  <2> QED
    BY <1>1, <1>4, <1>6, <1>8, <2>2
<1>9. CASE FarDepth = Depth
  BY <1>2, <1>3, <1>4, <1>6, <1>9
<1> QED
  BY <1>1, <1>7, <1>8, <1>9

LEMMA SenderWithinAlways ==
  ASSUME Regime
  PROVE  PathSpec => [](PathInv /\ SenderWithin)
<1>1. PathInit => PathInv /\ SenderWithin
  BY PathStart, WithinStart
<1>2. PathInv /\ SenderWithin /\ [PathNext]_pathVars => PathInv' /\ SenderWithin'
  BY PathStep, WithinStep DEF PathInv
<1> QED
  BY <1>1, <1>2, PTL DEF PathSpec

\* Where the pools of a fifo with an iter_count are of one depth, its ends carry
\* the same objects: the receiver is through when, and only when, the sender is and
\* nothing is on the stream (the counts createDmaEndpoint gives the two chains).
THEOREM EndsAgree ==
  ASSUME Regime, FarDepth = Depth
  PROVE  PathSpec => []EndsCarryTheSame
<1>1. PathInv /\ SenderWithin => EndsCarryTheSame
  <2> SUFFICES ASSUME PathInv, SenderWithin, IterCount # 0
               PROVE  ReceiverDone <=> SenderDone
    BY DEF EndsCarryTheSame
  <2>1. DrainTotal * Repeat = FillTotal /\ FillTotal \in Nat
    BY PassesWorth
  <2> QED
    BY <2>1, EndsWithin DEF ReceiverDone, SenderDone
<1> QED
  BY <1>1, SenderWithinAlways, PTL

\* Where they are not, the ends are never both through: one is left with passes
\* the other has no objects for.
THEOREM EndsDisagree ==
  ASSUME Regime, FarDepth # Depth, IterCount # 0
  PROVE  PathSpec => []~(ReceiverDone /\ SenderDone)
<1>1. PathInv /\ SenderWithin => ~(ReceiverDone /\ SenderDone)
  BY EndsWithin, PassesWorth DEF ReceiverDone, SenderDone
<1> QED
  BY <1>1, SenderWithinAlways, PTL
=============================================================================
