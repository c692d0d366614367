------------------------------ MODULE PoolPath ------------------------------
(***************************************************************************)
(* An objectFifo whose ends are apart, as --aie-objectfifo-split leaves    *)
(* it: a near pool a core fills, drained by a DMA onto a stream, and a far *)
(* pool that a DMA fills from it, the pool of a link, from which further   *)
(* DMAs take segments.                                                     *)
(*                                                                         *)
(* The near pool is the ObjectFifoPool this module extends. The far pool   *)
(* is another; what arrives there is what left here. An object that leaves *)
(* Repeat times arrives as many times, and arrivals are numbered.          *)
(***************************************************************************)
EXTENDS ObjectFifoPool, Sequences

CONSTANTS
  Size,          \* the fifo's elemNumber
  IterCount,     \* its iter_count, 0 when it states none
  StreamSize,    \* transfers the stream can hold
  Sender,        \* the draining DMA of the near pool
  Receiver,      \* the filling DMA of the far pool
  FarDepth, FarRepeat, FarSegments, FarEndpoints, FarRole, FarSelected,
  FarObjects

\* objectCountOn: the objects a fifo gets on a tile whose core acquires at most
\* `largest` at once, or on a tile without accesses.
ObjectCount(largest) ==
  IF largest = 0 \/ (Size = 1 /\ largest = 1) THEN Size ELSE largest + 1

Unbounded == 1000

\* The objects a chain moves before it stops: iter_count passes where objects
\* leave, Repeat times as many where they arrive, over pools that need not be
\* of one depth.
DrainTotal == IF IterCount = 0 THEN Unbounded ELSE Depth * IterCount

\* Fault: the count of the last pass, which a channel is given, is taken for the
\* number of passes.
FillTotalLast ==
  IF IterCount = 0 THEN Unbounded ELSE FarDepth * (IterCount * Repeat - 1)

FillTotal == IF IterCount = 0 THEN Unbounded ELSE FarDepth * IterCount * Repeat

VARIABLES
  stream,  \* numbers of the arrivals to come, oldest first
  farProduceLock, farConsumeLock, farData, farPc, farTodo, farObj, farCopy,
  farOwn, farHeld, farArg

Far == INSTANCE ObjectFifoPool WITH
  Depth <- FarDepth, Repeat <- FarRepeat, Filled <- 0, Segments <- FarSegments,
  Endpoints <- FarEndpoints, Role <- FarRole,
  Kind <- [e \in FarEndpoints |-> "dma"],
  MaxAcquire <- [e \in FarEndpoints |-> 1],
  Selected <- FarSelected, Objects <- FarObjects, CoresExtend <- FALSE,
  produceLock <- farProduceLock, consumeLock <- farConsumeLock,
  data <- farData, pc <- farPc, todo <- farTodo, obj <- farObj,
  copy <- farCopy, own <- farOwn, held <- farHeld, arg <- farArg

ASSUME PathAssumption ==
  /\ Segments = {0}
  /\ Sender \in Endpoints /\ Drains(Sender) /\ IsDma(Sender)
  /\ \A e \in Endpoints \ {Sender} : Fills(e) /\ IsCore(e)
  /\ Objects[Sender] = DrainTotal
  /\ Receiver \in FarEndpoints
  /\ FarRole[Receiver] = "fill"
  /\ \A e \in FarEndpoints \ {Receiver} : FarRole[e] = "drain"
  /\ FarSelected[Receiver] = FarSegments
  /\ Far!PoolAssumption
  /\ FarObjects[Receiver] = FillTotal
  /\ StreamSize \in Nat \ {0} /\ IterCount \in Nat

farVars == <<farProduceLock, farConsumeLock, farData, farPc, farTodo, farObj,
             farCopy, farOwn, farHeld, farArg>>
pathVars == <<vars, farVars, stream>>

PathInit == Init /\ Far!Init /\ stream = <<>>

-----------------------------------------------------------------------------
(* The stream couples the two DMAs.                                        *)

\* The arrival that is the copy-th of the object in a near buffer.
ArrivalOf(object, nth) == (object - 1) * Repeat + nth + 1

Send ==
  /\ Len(stream) < StreamSize
  /\ DmaMove(Sender, 0)
  /\ stream' = Append(stream, ArrivalOf(data[Slot(Sender, obj[Sender])][0],
                                        copy[Sender]))
  /\ UNCHANGED farVars

\* Fault: the first segment to arrive uses up the object.
LastSegmentAny == TRUE

LastSegment == \E s \in FarSegments : farTodo[Receiver] = {s}

\* An object that is cut into segments arrives segment by segment.
Receive ==
  /\ stream # <<>>
  /\ Far!DmaMove(Receiver, Head(stream))
  /\ stream' = IF LastSegment THEN Tail(stream) ELSE stream
  /\ UNCHANGED vars

NearCore(e) == CoreStep(e) /\ UNCHANGED <<farVars, stream>>

NearDma ==
  \/ (DmaTakeLock(Sender) \/ DmaGiveLock(Sender)) /\ UNCHANGED <<farVars, stream>>
  \/ Send

FarOther(e) ==
  /\ e # Receiver
  /\ Far!DmaStep(e)
  /\ UNCHANGED <<vars, stream>>

FarDma ==
  \/ /\ Far!DmaTakeLock(Receiver) \/ Far!DmaGiveLock(Receiver)
     /\ UNCHANGED <<vars, stream>>
  \/ Receive

\* The path comes to rest only when everything was sent.
PathRest == Rest /\ UNCHANGED pathVars

PathNext ==
  \/ \E e \in Endpoints : NearCore(e)
  \/ NearDma \/ FarDma
  \/ \E e \in FarEndpoints : FarOther(e)
  \/ PathRest

PathSpec == PathInit /\ [][PathNext]_pathVars

\* DMAs run on their own; a core's program comes back to its acquires and to
\* its releases.
PathFairness ==
  /\ WF_pathVars(NearDma) /\ WF_pathVars(FarDma)
  /\ \A e \in Endpoints :
       /\ WF_pathVars((CoreTakeLock(e) \/ CoreGiveLock(e)) /\ NearCore(e))
       /\ WF_pathVars((\E n \in 1 .. Depth : CoreAcquire(e, n)) /\ NearCore(e))
       /\ SF_pathVars((\E m \in 1 .. Depth : CoreRelease(e, m)) /\ NearCore(e))
  /\ \A e \in FarEndpoints : WF_pathVars(FarOther(e))

FairPathSpec == PathSpec /\ PathFairness

-----------------------------------------------------------------------------
(* The path as one channel per far segment, counted in arrivals.           *)

Moved == obj[Sender] * Repeat + copy[Sender] + (IF pc[Sender] = "give" THEN 1 ELSE 0)

PublishedArrivals == Published(0) * Repeat

\* What is still in the near pool, on the stream, and in the far pool.
NearPart ==
  [i \in 1 .. PublishedArrivals - Moved |->
     LET k == Moved + i - 1
     IN ArrivalOf(data[Slot(Sender, k \div Repeat)][0], k % Repeat)]

\* Arrivals that have left the stream.
Taken ==
  farObj[Receiver] + (IF farPc[Receiver] = "give" /\ LastSegment THEN 1 ELSE 0)

StreamPart(s) ==
  SubSeq(stream, Far!WrittenObjects(Receiver, s) - Taken + 1, Len(stream))

FarPart(s) ==
  [i \in 1 .. Far!WrittenObjects(Receiver, s) - Far!Retired(s) |->
     farData[Far!Slot(Far!Drainer(s), Far!Retired(s) + i - 1)][s]]

InPath(s) == FarPart(s) \o StreamPart(s) \o NearPart

Path(s) == INSTANCE ObjectFifoChannel WITH
  Segments <- {s},
  Depth <- Depth * Repeat + StreamSize + FarDepth,
  Filled <- Filled * Repeat,
  sent <- [t \in {s} |-> PublishedArrivals],
  queue <- [t \in {s} |-> InPath(t)]

-----------------------------------------------------------------------------
(* Properties.                                                             *)

\* From the core to each draining end of the far pool, two pools, their DMAs
\* and the stream behave like one bounded first-in-first-out channel: nothing
\* is lost, overtakes, or arrives more often than it was sent.
ImplementsPath ==
  /\ \A s \in FarSegments : Path(s)!Init
  /\ [][\A s \in FarSegments :
          [ \/ Path(s)!Publish(s, PublishedArrivals' - PublishedArrivals)
            \/ Path(s)!Retire(s, Far!Retired(s)' - Far!Retired(s))
          ]_<<PublishedArrivals, InPath(s)>>]_pathVars

\* The stream holds the arrivals that have left and not arrived, in order and
\* no more than fit, and no segment of the far pool is ahead of what has left.
StreamInOrder ==
  /\ stream \in Seq(Nat)
  /\ Len(stream) = Moved - Taken /\ Len(stream) <= StreamSize
  /\ \A i \in DOMAIN stream : stream[i] = Taken + i
  /\ \A s \in FarSegments : Far!WrittenObjects(Receiver, s) <= Moved

\* The far pool is as sound as one whose filler numbers its objects itself,
\* though what fills it is whatever the stream brings.
FarSound == StreamInOrder /\ Far!PoolInv /\ Far!NoConflict /\ Far!InOrder

\* What the core writes, and what it found written, is drained at every end of
\* the far pool, once for each time it was to be sent.
PathDrained ==
  <>[](\A d \in FarEndpoints \ {Receiver} :
         farObj[d] >= (Filled + Objects[Filler(0)]) * Repeat)

\* Everything the sender's passes are worth has left, everything the receiver's
\* passes take has arrived, and nothing is on the way.
SenderDone == Moved = DrainTotal * Repeat /\ stream = <<>>
ReceiverDone == Taken = FillTotal

\* "Both ends of the fifo carry `depth * repeat_count * iter_count` objects"
\* (createDmaEndpoint): a bounded fifo's filling end has made its last pass exactly
\* when the draining end has and nothing is left to arrive. It holds of ends of
\* one depth only.
EndsCarryTheSame == IterCount # 0 => (ReceiverDone <=> SenderDone)
=============================================================================
