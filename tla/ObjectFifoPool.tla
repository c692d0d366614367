--------------------------- MODULE ObjectFifoPool ---------------------------
(***************************************************************************)
(* One objectFifo pool of an AIE2 device after the lowering passes have    *)
(* run: the counting locks --aie-objectfifo-allocate created, the code     *)
(* --aie-objectfifo-lower-cores left in the cores that work the pool, and  *)
(* the buffer descriptor chains --aie-objectfifo-lower-dmas gave its DMA   *)
(* channels, all running concurrently.                                     *)
(*                                                                         *)
(* The pool holds Depth buffers that take turns.  Every object is cut into *)
(* segments, each with a pair of locks: the produce lock counts what a     *)
(* filler may still claim, the consume lock what a drainer may.  A filler  *)
(* acquires the former and releases the latter, a drainer the reverse.     *)
(* The draining end of a pool with a repeat count puts every object on its *)
(* stream Repeat times, so locks count Repeat units per object.            *)
(***************************************************************************)
EXTENDS Integers

CONSTANTS
  Depth,        \* buffers in rotation
  Repeat,       \* the pool's repeatCount
  Filled,       \* number of buffers that start with initial contents
  Segments,     \* segments of one object, numbered in offset order
  Endpoints,    \* the actors that fill or drain the pool
  Role,         \* [Endpoints -> {"fill", "drain"}]
  Kind,         \* [Endpoints -> {"core", "dma"}]
  Selected,     \* [Endpoints -> segments the endpoint works]
  MaxAcquire,   \* [Endpoints -> largest acquire in a core's program]
  Objects,      \* [Endpoints -> objects moved before the endpoint stops]
  CoresExtend   \* may a core acquire more while it still holds objects?

Roles == {"fill", "drain"}
Kinds == {"core", "dma"}

\* Every segment has one filler and one drainer, a core acquires at most the
\* whole pool, and initial contents fill at most the whole pool.
ASSUME PoolAssumption ==
  /\ Depth \in Nat \ {0}
  /\ Repeat \in Nat \ {0}
  /\ Filled \in 0 .. Depth
  /\ Segments \subseteq Nat
  /\ Role \in [Endpoints -> Roles]
  /\ Kind \in [Endpoints -> Kinds]
  /\ Selected \in [Endpoints -> (SUBSET Segments) \ {{}}]
  /\ MaxAcquire \in [Endpoints -> 1 .. Depth]
  /\ Objects \in [Endpoints -> Nat]
  /\ CoresExtend \in BOOLEAN
  /\ \A s \in Segments, r \in Roles :
        \E e \in Endpoints : Role[e] = r /\ s \in Selected[e]
  /\ \A e, o \in Endpoints :
        Role[e] = Role[o] /\ Selected[e] \cap Selected[o] # {} => e = o

VARIABLES
  produceLock,  \* [Segments -> units a filler may still acquire]
  consumeLock,  \* [Segments -> units a drainer may still acquire]
  data,         \* [buffer -> [Segments -> number of the object stored there]]
  pc,           \* [Endpoints -> where the endpoint is in its protocol]
  todo,         \* [Endpoints -> segments the current step still has to work]
  obj,          \* [Endpoints -> objects the endpoint is finished with]
  copy,         \* [Endpoints -> copies of the current descriptor already run]
  own,          \* [Endpoints -> objects the core may access]
  held,         \* [Endpoints -> the counter the lowering keeps in the core]
  arg           \* [Endpoints -> operand of the acquire or release under way]

locks == <<produceLock, consumeLock>>
core  == <<own, held, arg>>
vars  == <<produceLock, consumeLock, data, pc, todo, obj, copy, own, held, arg>>

Buffers == 0 .. Depth - 1

\* What the running code may be doing: a core between two accesses, inside an
\* acquire or inside a release; a DMA waiting, transferring or handing back.
Steps == {"ready", "acquire", "release", "move", "give"}

Fills(e)  == Role[e] = "fill"
Drains(e) == Role[e] = "drain"
IsCore(e) == Kind[e] = "core"
IsDma(e)  == Kind[e] = "dma"

Larger(a, b) == IF a >= b THEN a ELSE b

-----------------------------------------------------------------------------
(* The rotation.                                                           *)

\* A filling core starts behind the initial contents; a descriptor chain
\* always starts with the first buffer.
FirstObject(e) == IF IsCore(e) /\ Fills(e) THEN Filled % Depth ELSE 0

\* The buffer that holds the endpoint's k-th object, counted from 0.
Slot(e, k) == (FirstObject(e) + k) % Depth

\* Objects are numbered in the order they pass through the pool, from 1: the
\* initial contents first, then what the filler writes.
NumberOf(e, k) == (IF Fills(e) THEN Filled ELSE 0) + k + 1

\* The segment the endpoint works next: segments are taken in offset order.
Current(e, s) == s \in todo[e] /\ \A t \in todo[e] : s <= t

-----------------------------------------------------------------------------
(* Counting locks: an acquire blocks until the lock covers the amount.     *)

UseLockAcquire(e, s, amount) ==
  \/ /\ Fills(e)
     /\ produceLock[s] >= amount
     /\ produceLock' = [produceLock EXCEPT ![s] = @ - amount]
     /\ UNCHANGED consumeLock
  \/ /\ Drains(e)
     /\ consumeLock[s] >= amount
     /\ consumeLock' = [consumeLock EXCEPT ![s] = @ - amount]
     /\ UNCHANGED produceLock

UseLockRelease(e, s, amount) ==
  \/ /\ Fills(e)
     /\ consumeLock' = [consumeLock EXCEPT ![s] = @ + amount]
     /\ UNCHANGED produceLock
  \/ /\ Drains(e)
     /\ produceLock' = [produceLock EXCEPT ![s] = @ + amount]
     /\ UNCHANGED consumeLock

-----------------------------------------------------------------------------
(* Cores.  An acquire names every object the core wants to hold; the       *)
(* lowered code takes the difference to the counter it keeps, in lock      *)
(* units, from the lock of each of its segments in turn.                   *)

\* Fault: an acquire of fewer objects than are held takes a negative amount.
DeltaSigned(e) == (arg[e] - held[e]) * Repeat

Delta(e) == Larger(arg[e] - held[e], 0) * Repeat

\* Fault: a release gives back the whole window.
ReturnedAll(e) == held[e]

Returned(e) == arg[e] * Repeat

CoreAcquire(e, n) ==
  /\ IsCore(e)
  /\ pc[e] = "ready"
  /\ n \in 1 .. MaxAcquire[e]
  /\ n <= own[e] \/ own[e] = 0 \/ CoresExtend
  /\ obj[e] + n <= Objects[e]
  /\ arg' = [arg EXCEPT ![e] = n]
  /\ pc' = [pc EXCEPT ![e] = "acquire"]
  /\ todo' = [todo EXCEPT ![e] = Selected[e]]
  /\ UNCHANGED <<locks, data, obj, copy, own, held>>

CoreTakeLock(e) ==
  /\ IsCore(e)
  /\ pc[e] = "acquire"
  /\ \E s \in Segments :
        /\ Current(e, s)
        /\ UseLockAcquire(e, s, Delta(e))
        /\ todo' = [todo EXCEPT ![e] = @ \ {s}]
        /\ IF todo[e] = {s}
           THEN /\ held' = [held EXCEPT ![e] = @ + Delta(e)]
                /\ own' = [own EXCEPT ![e] = Larger(@, arg[e])]
                /\ pc' = [pc EXCEPT ![e] = "ready"]
           ELSE UNCHANGED <<held, own, pc>>
  /\ UNCHANGED <<data, obj, copy, arg>>

\* By the time a core releases objects it has written them.
CoreRelease(e, m) ==
  /\ IsCore(e)
  /\ pc[e] = "ready"
  /\ m \in 1 .. own[e]
  /\ arg' = [arg EXCEPT ![e] = m]
  /\ pc' = [pc EXCEPT ![e] = "release"]
  /\ todo' = [todo EXCEPT ![e] = Selected[e]]
  /\ IF Fills(e)
     THEN data' = [b \in Buffers |-> [s \in Segments |->
            IF s \in Selected[e] /\ \E i \in 0 .. m - 1 : b = Slot(e, obj[e] + i)
            THEN NumberOf(e, CHOOSE k \in obj[e] .. obj[e] + m - 1 : b = Slot(e, k))
            ELSE data[b][s]]]
     ELSE UNCHANGED data
  /\ UNCHANGED <<locks, obj, copy, own, held>>

CoreGiveLock(e) ==
  /\ IsCore(e)
  /\ pc[e] = "release"
  /\ \E s \in Segments :
        /\ Current(e, s)
        /\ UseLockRelease(e, s, Returned(e))
        /\ todo' = [todo EXCEPT ![e] = @ \ {s}]
        /\ IF todo[e] = {s}
           THEN /\ held' = [held EXCEPT ![e] = @ - Returned(e)]
                /\ own' = [own EXCEPT ![e] = @ - arg[e]]
                /\ obj' = [obj EXCEPT ![e] = @ + arg[e]]
                /\ pc' = [pc EXCEPT ![e] = "ready"]
           ELSE UNCHANGED <<held, own, obj, pc>>
  /\ UNCHANGED <<data, copy, arg>>

-----------------------------------------------------------------------------
(* DMA channels.  The chain is buffer-major and segment-minor; the         *)
(* draining end runs Repeat copies of each descriptor, one unit each, and  *)
(* the filling end covers a whole batch of units with one descriptor.      *)

\* Fault: a filling descriptor gives one unit for the whole batch.
CountSingle(e) == 1

Count(e) == IF Drains(e) THEN 1 ELSE Repeat

Copies(e) == IF Drains(e) THEN Repeat ELSE 1

DmaTakeLock(e) ==
  /\ IsDma(e)
  /\ pc[e] = "ready"
  /\ obj[e] < Objects[e]
  /\ \E s \in Segments : Current(e, s) /\ UseLockAcquire(e, s, Count(e))
  /\ pc' = [pc EXCEPT ![e] = "move"]
  /\ UNCHANGED <<data, todo, obj, copy, core>>

\* The transfer itself: what arrives on a filling channel is object `number`.
DmaMove(e, number) ==
  /\ IsDma(e)
  /\ pc[e] = "move"
  /\ IF Fills(e)
     THEN \E s \in Segments :
             /\ Current(e, s)
             /\ data' = [data EXCEPT ![Slot(e, obj[e])][s] = number]
     ELSE UNCHANGED data
  /\ pc' = [pc EXCEPT ![e] = "give"]
  /\ UNCHANGED <<locks, todo, obj, copy, core>>

DmaGiveLock(e) ==
  /\ IsDma(e)
  /\ pc[e] = "give"
  /\ pc' = [pc EXCEPT ![e] = "ready"]
  /\ \E s \in Segments :
        /\ Current(e, s)
        /\ UseLockRelease(e, s, Count(e))
        /\ IF copy[e] + 1 < Copies(e)
           THEN /\ copy' = [copy EXCEPT ![e] = @ + 1]
                /\ UNCHANGED <<todo, obj>>
           ELSE /\ copy' = [copy EXCEPT ![e] = 0]
                /\ IF todo[e] = {s}
                   THEN /\ todo' = [todo EXCEPT ![e] = Selected[e]]
                        /\ obj' = [obj EXCEPT ![e] = @ + 1]
                   ELSE /\ todo' = [todo EXCEPT ![e] = @ \ {s}]
                        /\ UNCHANGED obj
  /\ UNCHANGED <<data, core>>

-----------------------------------------------------------------------------
(* The locks count the buffers that are free and those that start full.    *)

\* Fault: the buffers that start full count as free too.
ProduceUnitsFull == Depth * Repeat

ProduceUnits == (Depth - Filled) * Repeat

ConsumeUnits == Filled * Repeat

Init ==
  /\ produceLock = [s \in Segments |-> ProduceUnits]
  /\ consumeLock = [s \in Segments |-> ConsumeUnits]
  /\ data = [b \in Buffers |-> [s \in Segments |-> IF b < Filled THEN b + 1 ELSE 0]]
  /\ pc = [e \in Endpoints |-> "ready"]
  /\ todo = [e \in Endpoints |-> IF IsDma(e) THEN Selected[e] ELSE {}]
  /\ obj = [e \in Endpoints |-> 0]
  /\ copy = [e \in Endpoints |-> 0]
  /\ own = [e \in Endpoints |-> 0]
  /\ held = [e \in Endpoints |-> 0]
  /\ arg = [e \in Endpoints |-> 0]

CoreStep(e) ==
  \/ \E n \in 1 .. Depth : CoreAcquire(e, n)
  \/ CoreTakeLock(e)
  \/ \E m \in 1 .. Depth : CoreRelease(e, m)
  \/ CoreGiveLock(e)

DmaStep(e) ==
  \/ DmaTakeLock(e)
  \/ DmaMove(e, NumberOf(e, obj[e]))
  \/ DmaGiveLock(e)

\* A pool comes to rest only when everything its fillers send went through.
Rest ==
  /\ \A e \in Endpoints : Fills(e) => obj[e] = Objects[e] /\ pc[e] = "ready"
  /\ UNCHANGED vars

Next == (\E e \in Endpoints : CoreStep(e) \/ DmaStep(e)) \/ Rest

Spec == Init /\ [][Next]_vars

-----------------------------------------------------------------------------
(* Where the endpoints stand on one segment, in objects and in lock units. *)

DoneObjects(e, s) ==
  obj[e] + (IF IsDma(e) THEN (IF s \in todo[e] THEN 0 ELSE 1)
            ELSE IF pc[e] = "release" /\ s \notin todo[e] THEN arg[e] ELSE 0)

DoneUnits(e, s) ==
  DoneObjects(e, s) * Repeat + (IF IsDma(e) /\ Current(e, s) THEN copy[e] ELSE 0)

TakenUnits(e, s) ==
  IF IsDma(e)
  THEN DoneUnits(e, s) + (IF pc[e] # "ready" /\ Current(e, s) THEN Count(e) ELSE 0)
  ELSE held[e] + obj[e] * Repeat
         + (IF pc[e] = "acquire" /\ s \notin todo[e] THEN Delta(e) ELSE 0)

\* May the endpoint at this moment read or write segment s of its k-th object?
Touches(e, k, s) ==
  /\ s \in Selected[e]
  /\ IF IsDma(e)
     THEN pc[e] = "move" /\ k = obj[e] /\ Current(e, s)
     ELSE /\ k \in obj[e] .. obj[e] + own[e] - 1
          /\ pc[e] = "release" => k >= obj[e] + arg[e]

\* The objects an endpoint can be working on.
Nearby(e) == obj[e] .. obj[e] + Depth - 1

-----------------------------------------------------------------------------
(* Properties.                                                             *)

\* Every variable has its type; `held` and the locks never go negative.
TypeOK ==
  /\ produceLock \in [Segments -> Nat]
  /\ consumeLock \in [Segments -> Nat]
  /\ data \in [Buffers -> [Segments -> Nat]]
  /\ pc \in [Endpoints -> Steps]
  /\ todo \in [Endpoints -> SUBSET Segments]
  /\ obj \in [Endpoints -> Nat]
  /\ copy \in [Endpoints -> 0 .. Repeat - 1]
  /\ own \in [Endpoints -> 0 .. Depth]
  /\ held \in [Endpoints -> Nat]
  /\ arg \in [Endpoints -> 0 .. Depth]

\* No two endpoints may access the same segment of the same buffer at the same
\* time: neither a core and a DMA, nor two DMAs, nor two cores (the access
\* contract of the pool's locks).
NoConflict ==
  \A e, o \in Endpoints : e # o =>
     \A s \in Segments, k \in Nearby(e), l \in Nearby(o) :
        Touches(e, k, s) /\ Touches(o, l, s) => Slot(e, k) # Slot(o, l)

\* A drainer that may access an object finds the object whose turn it is: none
\* is lost, repeated beyond the repeat count, or overwritten before it is read.
InOrder ==
  \A e \in Endpoints : Drains(e) =>
     \A s \in Segments, k \in Nearby(e) :
        Touches(e, k, s) => data[Slot(e, k)][s] = NumberOf(e, k)

\* A filler never claims a buffer whose object its drainer has not put on the
\* stream Repeat times, and a drainer never claims one that is not written:
\* what each lock holds is exactly what the other side gave and this side took.
LocksCount ==
  \A f, d \in Endpoints : Fills(f) /\ Drains(d) =>
     \A s \in Selected[f] \cap Selected[d] :
        /\ produceLock[s] = (Depth - Filled) * Repeat - TakenUnits(f, s) + DoneUnits(d, s)
        /\ consumeLock[s] = Filled * Repeat - TakenUnits(d, s) + DoneUnits(f, s)

-----------------------------------------------------------------------------
(* The inductive invariant behind the safety properties.                   *)

\* Pools whose end points and repeat counts fit together: a core of a pool
\* that repeats only acquires when it holds nothing, and a chain fills a pool
\* that starts empty or full.
Regime ==
  /\ CoresExtend => Repeat = 1
  /\ \A e \in Endpoints : IsDma(e) /\ Fills(e) => Filled \in {0, Depth}

\* A core holds, in lock units, exactly the objects it may access.
HeldCountsObjects ==
  \A e \in Endpoints : IsCore(e) => held[e] = own[e] * Repeat

\* Where a step can be: the segments left are ones the endpoint works, and an
\* operand is one the endpoint could have named.
StepShape ==
  \A e \in Endpoints :
     /\ todo[e] \subseteq Selected[e]
     /\ IsCore(e) =>
          /\ pc[e] \in {"ready", "acquire", "release"}
          /\ todo[e] = {} <=> pc[e] = "ready"
          /\ copy[e] = 0
          /\ pc[e] = "release" => arg[e] \in 1 .. own[e]
          /\ pc[e] = "acquire" => arg[e] <= own[e] \/ own[e] = 0 \/ CoresExtend
     /\ IsDma(e) =>
          /\ pc[e] \in {"ready", "move", "give"}
          /\ todo[e] # {}
          /\ own[e] = 0
          /\ Fills(e) => copy[e] = 0

\* Objects a filler has written to a segment, released or not.
WrittenObjects(f, s) ==
  IF IsDma(f)
  THEN DoneObjects(f, s) + (IF pc[f] = "give" /\ Current(f, s) THEN 1 ELSE 0)
  ELSE obj[f] + (IF pc[f] = "release" THEN arg[f] ELSE 0)

\* Every object written and not yet given back is in the buffer it belongs to.
QueuedContents ==
  \A f, d \in Endpoints : Fills(f) /\ Drains(d) =>
     \A s \in Selected[f] \cap Selected[d] :
        \A j \in DoneObjects(d, s) .. Filled + WrittenObjects(f, s) - 1 :
           data[j % Depth][s] = j + 1

PoolInv ==
  /\ TypeOK
  /\ StepShape
  /\ HeldCountsObjects
  /\ LocksCount
  /\ QueuedContents

-----------------------------------------------------------------------------
(* How far each segment has come, in objects.                              *)

Filler(s)  == CHOOSE e \in Endpoints : Fills(e) /\ s \in Selected[e]
Drainer(s) == CHOOSE e \in Endpoints : Drains(e) /\ s \in Selected[e]

Published(s) == Filled + DoneObjects(Filler(s), s)
Retired(s)   == DoneObjects(Drainer(s), s)
=============================================================================
