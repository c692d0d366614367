----------------------- MODULE ObjectFifoPool_proofs -----------------------
(***************************************************************************)
(* Safety of an objectFifo pool for every depth, repeat count, number of   *)
(* segments and choice of endpoints.                                       *)
(***************************************************************************)
EXTENDS ObjectFifoPool, TLAPS

-----------------------------------------------------------------------------
(* Arithmetic of lock units.                                               *)

LEMMA UnitsNat ==
  ASSUME NEW a \in Nat, NEW r \in Nat
  PROVE  a * r \in Nat
  BY SMT

LEMMA UnitsOrder ==
  ASSUME NEW a \in Int, NEW b \in Int, NEW r \in Nat \ {0}, NEW c \in 0 .. r - 1,
         a * r <= b * r + c
  PROVE  a <= b
<1>1. SUFFICES ASSUME a >= b + 1 PROVE FALSE
  BY SMT
<1>2. DEFINE d == a - b - 1
<1>3. d \in Nat
  BY <1>1
<1>4. d * r \in Nat
  BY <1>3, UnitsNat
<1>5. a * r = b * r + r + d * r
  BY SMT
<1> QED
  BY <1>4, <1>5

LEMMA UnitsMonotone ==
  ASSUME NEW a \in Int, NEW b \in Int, NEW r \in Nat, a <= b
  PROVE  a * r <= b * r
<1>1. DEFINE d == b - a
<1>2. d * r \in Nat
  BY UnitsNat
<1>3. b * r = a * r + d * r
  BY SMT
<1> QED
  BY <1>2, <1>3

\* Two ways to write a number as a multiple plus a remainder are the same.
LEMMA RemainderUnique ==
  ASSUME NEW m \in Nat \ {0}, NEW p \in Int, NEW q \in Int,
         NEW a \in 0 .. m - 1, NEW b \in 0 .. m - 1,
         p * m + a = q * m + b
  PROVE  p = q /\ a = b
<1>1. p * m <= q * m + b
  BY SMT
<1>2. q * m <= p * m + a
  BY SMT
<1>3. p <= q /\ q <= p
  BY <1>1, <1>2, UnitsOrder
<1> QED
  BY <1>3

LEMMA DivMod ==
  ASSUME NEW m \in Nat \ {0}, NEW i \in Int
  PROVE  /\ i \div m \in Int
         /\ i % m \in 0 .. m - 1
         /\ i = (i \div m) * m + (i % m)
  BY SMT

\* Numbers closer than the modulus have different remainders.
LEMMA ModDistinct ==
  ASSUME NEW m \in Nat \ {0}, NEW i \in Int, NEW j \in Int, i < j, j < i + m
  PROVE  i % m # j % m
<1>1. SUFFICES ASSUME i % m = j % m PROVE FALSE
  OBVIOUS
<1>2. DEFINE q == i \div m
             p == j \div m
             r == i % m
<1>3. /\ q \in Int /\ p \in Int /\ r \in 0 .. m - 1
      /\ i = q * m + r
      /\ j = p * m + r
  BY <1>1, DivMod
<1>4. HIDE DEF q, p, r
<1>5. p * m <= q * m + (m - 1)
  BY <1>3
<1>6. p <= q
  BY <1>3, <1>5, UnitsOrder
<1>7. p * m <= q * m
  BY <1>3, <1>6, UnitsMonotone
<1> QED
  BY <1>3, <1>7

LEMMA ModSelf ==
  ASSUME NEW m \in Nat \ {0}
  PROVE  m % m = 0
<1>1. PICK p \in Int, a \in 0 .. m - 1 : p = m \div m /\ a = m % m /\ m = p * m + a
  <2>1. m \in Int
    OBVIOUS
  <2> QED
    BY <2>1, DivMod
<1>2. 1 * m + 0 = p * m + a
  BY <1>1
<1>3. 1 \in Int /\ 0 \in 0 .. m - 1
  OBVIOUS
<1> QED
  BY <1>1, <1>2, <1>3, RemainderUnique

\* Starting behind the initial contents is adding their number.
LEMMA ModAdd ==
  ASSUME NEW m \in Nat \ {0}, NEW i \in Int, NEW k \in Int
  PROVE  ((i % m) + k) % m = (i + k) % m
<1>1. DEFINE p == i \div m
             a == i % m
             q == (a + k) \div m
             b == (a + k) % m
             u == (i + k) \div m
             c == (i + k) % m
<1>2. /\ p \in Int /\ q \in Int /\ u \in Int
      /\ a \in 0 .. m - 1 /\ b \in 0 .. m - 1 /\ c \in 0 .. m - 1
      /\ i = p * m + a
      /\ a + k = q * m + b
      /\ i + k = u * m + c
  <2>1. /\ p \in Int /\ a \in 0 .. m - 1
        /\ i = p * m + a
    BY DivMod
  <2>2. a + k \in Int /\ i + k \in Int
    BY <2>1
  <2>3. /\ q \in Int /\ b \in 0 .. m - 1
        /\ a + k = q * m + b
    BY <2>2, DivMod
  <2>4. /\ u \in Int /\ c \in 0 .. m - 1
        /\ i + k = u * m + c
    BY <2>2, DivMod
  <2> QED
    BY <2>1, <2>3, <2>4
<1>3. HIDE DEF p, a, q, b, u, c
<1>4. PICK w \in Int : w = p + q
  BY <1>2
<1>5. b = c
  <2>1. w * m + b = u * m + c
    BY <1>2, <1>4
  <2> QED
    BY <1>2, <2>1, RemainderUnique
<1> QED
  BY <1>5 DEF a, b, c

-----------------------------------------------------------------------------
(* Types, the shape of steps, and the counter cores keep.                  *)

Typing == TypeOK /\ StepShape /\ HeldCountsObjects

\* What the constants are, in the form the steps below use.
LEMMA Constants ==
  /\ Depth \in Nat \ {0} /\ Repeat \in Nat \ {0} /\ Filled \in 0 .. Depth
  /\ Segments \subseteq Nat
  /\ \A e \in Endpoints : /\ Selected[e] \subseteq Segments
                          /\ Selected[e] # {}
                          /\ Fills(e) \/ Drains(e)
                          /\ ~(Fills(e) /\ Drains(e))
                          /\ IsCore(e) \/ IsDma(e)
                          /\ ~(IsCore(e) /\ IsDma(e))
                          /\ MaxAcquire[e] \in 1 .. Depth
  BY PoolAssumption DEF PoolAssumption, Roles, Kinds, Fills, Drains, IsCore, IsDma

\* Every object has a buffer of the pool.
LEMMA SlotBuffer ==
  ASSUME NEW e \in Endpoints, NEW k \in Nat
  PROVE  /\ FirstObject(e) \in Nat
         /\ Slot(e, k) \in Buffers
<1>1. FirstObject(e) \in Nat
  BY Constants, DivMod DEF FirstObject
<1>2. FirstObject(e) + k \in Int
  BY <1>1
<1> QED
  BY <1>1, <1>2, Constants, DivMod DEF Slot, Buffers

\* What an acquire takes from each lock: the units of the objects it adds.
LEMMA DeltaUnits ==
  ASSUME Regime, Typing, NEW e \in Endpoints, IsCore(e), pc[e] = "acquire"
  PROVE  /\ Larger(own[e], arg[e]) \in 0 .. Depth
         /\ Larger(own[e], arg[e]) >= own[e]
         /\ Delta(e) = (Larger(own[e], arg[e]) - own[e]) * Repeat
         /\ Delta(e) \in Nat
<1>1. /\ own[e] \in 0 .. Depth /\ arg[e] \in 0 .. Depth
      /\ held[e] = own[e] * Repeat
      /\ Repeat \in Nat \ {0} /\ Depth \in Nat
      /\ arg[e] <= own[e] \/ own[e] = 0 \/ Repeat = 1
  BY Constants DEF Typing, TypeOK, StepShape, HeldCountsObjects, Regime
<1>2. CASE arg[e] <= own[e]
  <2>1. held[e] >= own[e]
    <3>1. own[e] * 1 <= own[e] * Repeat
      BY <1>1, UnitsMonotone
    <3> QED
      BY <1>1, <3>1
  <2>2. arg[e] - held[e] <= 0
    BY <1>1, <1>2, <2>1
  <2> QED
    BY <1>1, <1>2, <2>2 DEF Delta, Larger
<1>3. CASE arg[e] > own[e]
  <2>1. held[e] = own[e]
    BY <1>1, <1>3
  <2>2. (arg[e] - own[e]) * Repeat \in Nat
    BY <1>1, <1>3, UnitsNat
  <2> QED
    BY <1>1, <1>3, <2>1, <2>2 DEF Delta, Larger
<1> QED
  BY <1>1, <1>2, <1>3

\* The initial state is well formed.
LEMMA TypingInit ==
  ASSUME Init
  PROVE  Typing
<1>1. (Depth - Filled) * Repeat \in Nat /\ Filled * Repeat \in Nat
  BY Constants, UnitsNat
<1>2. TypeOK
  BY <1>1, Constants DEF Init, ProduceUnits, ConsumeUnits, TypeOK, Buffers, Steps
<1>3. StepShape
  BY Constants DEF Init, StepShape
<1>4. HeldCountsObjects
  BY Constants DEF Init, HeldCountsObjects
<1> QED
  BY <1>2, <1>3, <1>4 DEF Typing

LEMMA TypingCoreAcquire ==
  ASSUME Typing, NEW e \in Endpoints, NEW n \in 1 .. Depth, CoreAcquire(e, n)
  PROVE  Typing'
<1>1. TypeOK'
  BY Constants DEF Typing, TypeOK, CoreAcquire, Steps, locks
<1>2. StepShape'
  BY Constants DEF Typing, TypeOK, StepShape, CoreAcquire, locks, Steps
<1>3. HeldCountsObjects'
  BY DEF Typing, HeldCountsObjects, CoreAcquire
<1> QED
  BY <1>1, <1>2, <1>3 DEF Typing

LEMMA TypingCoreTakeLock ==
  ASSUME Regime, Typing, NEW e \in Endpoints, CoreTakeLock(e)
  PROVE  Typing'
<1>1. PICK s \in Segments :
        /\ Current(e, s)
        /\ UseLockAcquire(e, s, Delta(e))
        /\ todo' = [todo EXCEPT ![e] = @ \ {s}]
        /\ IF todo[e] = {s}
           THEN /\ held' = [held EXCEPT ![e] = @ + Delta(e)]
                /\ own' = [own EXCEPT ![e] = Larger(@, arg[e])]
                /\ pc' = [pc EXCEPT ![e] = "ready"]
           ELSE UNCHANGED <<held, own, pc>>
  BY DEF CoreTakeLock
<1>2. /\ IsCore(e) /\ pc[e] = "acquire"
      /\ UNCHANGED <<data, obj, copy, arg>>
  BY DEF CoreTakeLock
<1>3. /\ Larger(own[e], arg[e]) \in 0 .. Depth
      /\ Larger(own[e], arg[e]) >= own[e]
      /\ Delta(e) = (Larger(own[e], arg[e]) - own[e]) * Repeat
      /\ Delta(e) \in Nat
  BY <1>2, DeltaUnits
<1>4. produceLock' \in [Segments -> Nat] /\ consumeLock' \in [Segments -> Nat]
  BY <1>1, <1>3 DEF Typing, TypeOK, UseLockAcquire
<1>5. TypeOK'
  <2>1. pc' \in [Endpoints -> Steps] /\ todo' \in [Endpoints -> SUBSET Segments]
    BY <1>1 DEF Typing, TypeOK, Steps
  <2>2. own' \in [Endpoints -> 0 .. Depth]
    BY <1>1, <1>3 DEF Typing, TypeOK
  <2>3. held' \in [Endpoints -> Nat]
    BY <1>1, <1>3 DEF Typing, TypeOK
  <2> QED
    BY <1>2, <1>4, <2>1, <2>2, <2>3 DEF Typing, TypeOK
<1>6. StepShape'
  BY <1>1, <1>2, Constants DEF Typing, TypeOK, StepShape, Current
<1>7. HeldCountsObjects'
  <2>1. own[e] * Repeat + Delta(e) = Larger(own[e], arg[e]) * Repeat
    BY <1>3, Constants DEF Typing, TypeOK
  <2> QED
    BY <1>1, <2>1 DEF Typing, TypeOK, HeldCountsObjects
<1> QED
  BY <1>5, <1>6, <1>7 DEF Typing

\* A core that releases has written the objects it gives back.
LEMMA TypingCoreRelease ==
  ASSUME Typing, NEW e \in Endpoints, NEW m \in 1 .. Depth, CoreRelease(e, m)
  PROVE  Typing'
<1>1. data' \in [Buffers -> [Segments -> Nat]]
  <2>1. CASE Drains(e)
    BY <2>1, Constants DEF CoreRelease, Typing, TypeOK
  <2>2. CASE Fills(e)
    <3>1. \A b \in Buffers :
            (\E i \in 0 .. m - 1 : b = Slot(e, obj[e] + i))
            => NumberOf(e, CHOOSE k \in obj[e] .. obj[e] + m - 1 : b = Slot(e, k)) \in Nat
      <4>1. SUFFICES ASSUME NEW b \in Buffers, NEW i \in 0 .. m - 1,
                            b = Slot(e, obj[e] + i)
                     PROVE  NumberOf(e, CHOOSE k \in obj[e] .. obj[e] + m - 1 :
                                           b = Slot(e, k)) \in Nat
        OBVIOUS
      <4>2. obj[e] \in Nat
        BY DEF Typing, TypeOK
      <4>3. obj[e] + i \in obj[e] .. obj[e] + m - 1
        BY <4>2
      <4>4. (CHOOSE k \in obj[e] .. obj[e] + m - 1 : b = Slot(e, k)) \in Nat
        BY <4>1, <4>2, <4>3
      <4> QED
        BY <4>4, <2>2, Constants DEF NumberOf
    <3>2. data \in [Buffers -> [Segments -> Nat]]
      BY DEF Typing, TypeOK
    <3>3. data' = [b \in Buffers |-> [s \in Segments |->
            IF s \in Selected[e] /\ \E i \in 0 .. m - 1 : b = Slot(e, obj[e] + i)
            THEN NumberOf(e, CHOOSE k \in obj[e] .. obj[e] + m - 1 : b = Slot(e, k))
            ELSE data[b][s]]]
      BY <2>2 DEF CoreRelease
    <3> QED
      BY <3>1, <3>2, <3>3
  <2> QED
    BY <2>1, <2>2, Constants
<1>2. TypeOK'
  BY <1>1, Constants DEF Typing, TypeOK, CoreRelease, Steps, locks
<1>3. StepShape'
  BY Constants DEF Typing, TypeOK, StepShape, CoreRelease
<1>4. HeldCountsObjects'
  BY DEF Typing, HeldCountsObjects, CoreRelease
<1> QED
  BY <1>2, <1>3, <1>4 DEF Typing

LEMMA TypingCoreGiveLock ==
  ASSUME Typing, NEW e \in Endpoints, CoreGiveLock(e)
  PROVE  Typing'
<1>1. PICK s \in Segments :
        /\ Current(e, s)
        /\ UseLockRelease(e, s, arg[e] * Repeat)
        /\ todo' = [todo EXCEPT ![e] = @ \ {s}]
        /\ IF todo[e] = {s}
           THEN /\ held' = [held EXCEPT ![e] = @ - arg[e] * Repeat]
                /\ own' = [own EXCEPT ![e] = @ - arg[e]]
                /\ obj' = [obj EXCEPT ![e] = @ + arg[e]]
                /\ pc' = [pc EXCEPT ![e] = "ready"]
           ELSE UNCHANGED <<held, own, obj, pc>>
  BY DEF CoreGiveLock, Returned
<1>2. /\ IsCore(e) /\ pc[e] = "release"
      /\ UNCHANGED <<data, copy, arg>>
  BY DEF CoreGiveLock
<1>3. /\ own[e] \in 0 .. Depth /\ arg[e] \in 1 .. own[e] /\ arg[e] \in Nat
      /\ obj[e] \in Nat
      /\ held[e] = own[e] * Repeat
  BY <1>2 DEF Typing, TypeOK, StepShape, HeldCountsObjects
<1>4. /\ arg[e] * Repeat \in Nat
      /\ held[e] - arg[e] * Repeat = (own[e] - arg[e]) * Repeat
      /\ (own[e] - arg[e]) * Repeat \in Nat
  <2>1. own[e] - arg[e] \in Nat
    BY <1>3
  <2> QED
    BY <1>3, <2>1, Constants, UnitsNat
<1>5. produceLock' \in [Segments -> Nat] /\ consumeLock' \in [Segments -> Nat]
  BY <1>1, <1>4 DEF Typing, TypeOK, UseLockRelease
<1>6. TypeOK'
  <2>1. pc' \in [Endpoints -> Steps] /\ todo' \in [Endpoints -> SUBSET Segments]
    BY <1>1 DEF Typing, TypeOK, Steps
  <2>2. own' \in [Endpoints -> 0 .. Depth] /\ obj' \in [Endpoints -> Nat]
    <3>1. own[e] - arg[e] \in 0 .. Depth /\ obj[e] + arg[e] \in Nat
      BY <1>3, Constants
    <3> QED
      BY <1>1, <3>1 DEF Typing, TypeOK
  <2>3. held' \in [Endpoints -> Nat]
    BY <1>1, <1>4 DEF Typing, TypeOK
  <2> QED
    BY <1>2, <1>5, <2>1, <2>2, <2>3 DEF Typing, TypeOK
<1>7. StepShape'
  BY <1>1, <1>2, Constants DEF Typing, TypeOK, StepShape, Current
<1>8. HeldCountsObjects'
  BY <1>1, <1>4 DEF Typing, TypeOK, HeldCountsObjects
<1> QED
  BY <1>6, <1>7, <1>8 DEF Typing

LEMMA TypingDma ==
  ASSUME Typing, NEW e \in Endpoints, DmaStep(e)
  PROVE  Typing'
<1>1. Count(e) \in Nat /\ Copies(e) \in 1 .. Repeat /\ obj[e] \in Nat
  BY Constants DEF Count, Copies, Typing, TypeOK
<1>2. CASE DmaTakeLock(e)
  <2>1. TypeOK'
    BY <1>1, <1>2 DEF DmaTakeLock, UseLockAcquire, core, Typing, TypeOK, Steps
  <2>2. StepShape'
    BY <1>2, Constants DEF DmaTakeLock, core, Typing, TypeOK, StepShape
  <2> QED
    BY <1>2, <2>1, <2>2 DEF DmaTakeLock, core, Typing, HeldCountsObjects
<1>3. CASE DmaMove(e, NumberOf(e, obj[e]))
  <2>1. NumberOf(e, obj[e]) \in Nat
    BY <1>1, Constants DEF NumberOf
  <2>2. data' \in [Buffers -> [Segments -> Nat]]
    <3>1. Slot(e, obj[e]) \in Buffers
      BY <1>1, SlotBuffer
    <3>2. data \in [Buffers -> [Segments -> Nat]]
      BY DEF Typing, TypeOK
    <3>3. CASE Fills(e)
      <4>1. PICK s \in Segments :
              data' = [data EXCEPT ![Slot(e, obj[e])][s] = NumberOf(e, obj[e])]
        BY <1>3, <3>3 DEF DmaMove
      <4>2. [data[Slot(e, obj[e])] EXCEPT ![s] = NumberOf(e, obj[e])] \in [Segments -> Nat]
        BY <2>1, <3>1, <3>2
      <4> QED
        BY <3>1, <3>2, <4>1, <4>2
    <3>4. CASE ~Fills(e)
      BY <1>3, <3>2, <3>4 DEF DmaMove
    <3> QED
      BY <3>3, <3>4
  <2>3. TypeOK'
    BY <1>3, <2>2 DEF DmaMove, locks, core, Typing, TypeOK, Steps
  <2>4. StepShape'
    BY <1>3, Constants DEF DmaMove, core, Typing, TypeOK, StepShape
  <2> QED
    BY <1>3, <2>3, <2>4 DEF DmaMove, core, Typing, HeldCountsObjects
<1>4. CASE DmaGiveLock(e)
  <2>1. produceLock' \in [Segments -> Nat] /\ consumeLock' \in [Segments -> Nat]
    <3>1. produceLock \in [Segments -> Nat] /\ consumeLock \in [Segments -> Nat]
      BY DEF Typing, TypeOK
    <3>2. PICK s \in Segments : UseLockRelease(e, s, Count(e))
      BY <1>4 DEF DmaGiveLock
    <3> QED
      BY <1>1, <3>1, <3>2 DEF UseLockRelease
  <2>2. copy' \in [Endpoints -> 0 .. Repeat - 1]
    BY <1>1, <1>4, Constants DEF DmaGiveLock, Typing, TypeOK
  <2>3. TypeOK'
    BY <1>1, <1>4, <2>1, <2>2, Constants DEF DmaGiveLock, core, Typing, TypeOK, Steps
  <2>4. StepShape'
    BY <1>4, Constants DEF DmaGiveLock, core, Typing, TypeOK, StepShape, Current, Copies
  <2> QED
    BY <1>4, <2>3, <2>4 DEF DmaGiveLock, core, Typing, HeldCountsObjects
<1> QED
  BY <1>2, <1>3, <1>4 DEF DmaStep

\* The locks and `held` never go negative and every step keeps its shape.
LEMMA TypingNext ==
  ASSUME Regime, Typing, [Next]_vars
  PROVE  Typing'
<1>1. ASSUME NEW e \in Endpoints, CoreStep(e)
      PROVE  Typing'
  BY <1>1, TypingCoreAcquire, TypingCoreTakeLock, TypingCoreRelease, TypingCoreGiveLock
     DEF CoreStep
<1>2. CASE UNCHANGED vars
  BY <1>2 DEF vars, Typing, TypeOK, StepShape, HeldCountsObjects
<1> QED
  BY <1>1, <1>2, TypingDma DEF Next, Rest

-----------------------------------------------------------------------------
(* What every lock counts.                                                 *)

\* Everything an endpoint keeps for itself.
Untouched(x) ==
  /\ pc'[x] = pc[x] /\ todo'[x] = todo[x] /\ obj'[x] = obj[x]
  /\ copy'[x] = copy[x] /\ own'[x] = own[x] /\ held'[x] = held[x]
  /\ arg'[x] = arg[x]

\* A step of e that takes `taken` units of one lock of every segment and gives
\* `given` units of the other.
Effect(e, taken, given) ==
  /\ \A x \in Endpoints \ {e} : Untouched(x)
  /\ \A s \in Selected[e] :
        /\ TakenUnits(e, s)' = TakenUnits(e, s) + taken[s]
        /\ DoneUnits(e, s)' = DoneUnits(e, s) + given[s]
  /\ \A s \in Segments :
        /\ s \notin Selected[e] => taken[s] = 0 /\ given[s] = 0
        /\ Fills(e) => /\ produceLock'[s] = produceLock[s] - taken[s]
                       /\ consumeLock'[s] = consumeLock[s] + given[s]
        /\ Drains(e) => /\ consumeLock'[s] = consumeLock[s] - taken[s]
                        /\ produceLock'[s] = produceLock[s] + given[s]

LEMMA UnitsTyped ==
  ASSUME Typing, NEW x \in Endpoints, NEW s \in Segments
  PROVE  /\ DoneObjects(x, s) \in Nat
         /\ DoneUnits(x, s) \in Nat
         /\ TakenUnits(x, s) \in Int
<1>1. DoneObjects(x, s) \in Nat
  BY DEF DoneObjects, Typing, TypeOK
<1>2. DoneObjects(x, s) * Repeat \in Nat /\ obj[x] * Repeat \in Nat
  BY <1>1, Constants, UnitsNat DEF Typing, TypeOK
<1>3. DoneUnits(x, s) \in Nat
  BY <1>2, Constants DEF DoneUnits, Typing, TypeOK
<1>4. Larger(arg[x] - held[x], 0) \in Nat
  BY Constants DEF Larger, Typing, TypeOK
<1>5. Delta(x) \in Nat
  BY <1>4, Constants, UnitsNat DEF Delta
<1>6. Count(x) \in Nat
  BY Constants DEF Count
<1> QED
  BY <1>1, <1>2, <1>3, <1>5, <1>6 DEF TakenUnits, Typing, TypeOK

LEMMA UntouchedUnits ==
  ASSUME NEW x \in Endpoints, NEW s \in Segments, Untouched(x)
  PROVE  /\ TakenUnits(x, s)' = TakenUnits(x, s)
         /\ DoneUnits(x, s)' = DoneUnits(x, s)
         /\ DoneObjects(x, s)' = DoneObjects(x, s)
  BY DEF Untouched, TakenUnits, DoneUnits, DoneObjects, Delta, Current

\* A step with such an effect keeps what the locks count.
LEMMA EffectKeepsCount ==
  ASSUME Typing, LocksCount, NEW e \in Endpoints,
         NEW taken \in [Segments -> Int], NEW given \in [Segments -> Int],
         Effect(e, taken, given)
  PROVE  LocksCount'
<1>1. SUFFICES ASSUME NEW f \in Endpoints, NEW d \in Endpoints, Fills(f), Drains(d),
                      NEW s \in Selected[f] \cap Selected[d]
      PROVE  /\ produceLock'[s] =
                  (Depth - Filled) * Repeat - TakenUnits(f, s)' + DoneUnits(d, s)'
             /\ consumeLock'[s] =
                  Filled * Repeat - TakenUnits(d, s)' + DoneUnits(f, s)'
  BY DEF LocksCount
<1>2. s \in Segments /\ f # d
  BY <1>1, Constants
<1>3. /\ produceLock[s] = (Depth - Filled) * Repeat - TakenUnits(f, s) + DoneUnits(d, s)
      /\ consumeLock[s] = Filled * Repeat - TakenUnits(d, s) + DoneUnits(f, s)
      /\ produceLock[s] \in Nat /\ consumeLock[s] \in Nat
  BY <1>1, <1>2 DEF LocksCount, Typing, TypeOK
<1>4. /\ TakenUnits(f, s) \in Int /\ DoneUnits(f, s) \in Int
      /\ TakenUnits(d, s) \in Int /\ DoneUnits(d, s) \in Int
      /\ (Depth - Filled) * Repeat \in Int /\ Filled * Repeat \in Int
      /\ taken[s] \in Int /\ given[s] \in Int
  BY <1>2, UnitsTyped, Constants
<1>5. CASE e = f
  <2>1. /\ TakenUnits(d, s)' = TakenUnits(d, s)
        /\ DoneUnits(d, s)' = DoneUnits(d, s)
    BY <1>2, <1>5, UntouchedUnits DEF Effect
  <2>2. /\ TakenUnits(f, s)' = TakenUnits(f, s) + taken[s]
        /\ DoneUnits(f, s)' = DoneUnits(f, s) + given[s]
        /\ produceLock'[s] = produceLock[s] - taken[s]
        /\ consumeLock'[s] = consumeLock[s] + given[s]
    BY <1>1, <1>2, <1>5 DEF Effect
  <2> QED
    BY <1>3, <1>4, <2>1, <2>2
<1>6. CASE e = d
  <2>1. /\ TakenUnits(f, s)' = TakenUnits(f, s)
        /\ DoneUnits(f, s)' = DoneUnits(f, s)
    BY <1>2, <1>6, UntouchedUnits DEF Effect
  <2>2. /\ TakenUnits(d, s)' = TakenUnits(d, s) + taken[s]
        /\ DoneUnits(d, s)' = DoneUnits(d, s) + given[s]
        /\ consumeLock'[s] = consumeLock[s] - taken[s]
        /\ produceLock'[s] = produceLock[s] + given[s]
    BY <1>1, <1>2, <1>6 DEF Effect
  <2> QED
    BY <1>3, <1>4, <2>1, <2>2
<1>7. CASE e # f /\ e # d
  <2>1. s \notin Selected[e]
    BY <1>1, <1>7, Constants, PoolAssumption DEF PoolAssumption, Fills, Drains
  <2>2. taken[s] = 0 /\ given[s] = 0
    BY <1>2, <2>1 DEF Effect
  <2>3. produceLock'[s] = produceLock[s] /\ consumeLock'[s] = consumeLock[s]
    BY <1>2, <1>3, <2>2, Constants DEF Effect
  <2>4. /\ TakenUnits(f, s)' = TakenUnits(f, s) /\ DoneUnits(f, s)' = DoneUnits(f, s)
        /\ TakenUnits(d, s)' = TakenUnits(d, s) /\ DoneUnits(d, s)' = DoneUnits(d, s)
    BY <1>2, <1>7, UntouchedUnits DEF Effect
  <2> QED
    BY <1>3, <2>3, <2>4
<1> QED
  BY <1>5, <1>6, <1>7

\* An amount at one segment, none at the others.
At(s, n) == [t \in Segments |-> IF t = s THEN n ELSE 0]

LEMMA CurrentUnique ==
  ASSUME Typing, NEW e \in Endpoints, NEW s \in Segments, NEW t \in Segments,
         Current(e, s), Current(e, t)
  PROVE  s = t
  BY Constants DEF Current

\* Beginning an acquire or a release moves no units, nor does a transfer.
LEMMA EffectNothing ==
  ASSUME Typing, NEW e \in Endpoints, NEW n \in 1 .. Depth,
         CoreAcquire(e, n) \/ CoreRelease(e, n) \/ DmaMove(e, NumberOf(e, obj[e]))
  PROVE  \E s \in Segments : Effect(e, At(s, 0), At(s, 0))
<1>1. PICK s \in Segments : TRUE
  BY Constants
<1>2. \A t \in Segments : At(s, 0)[t] = 0
  BY DEF At
<1>3. \A x \in Endpoints \ {e} : Untouched(x)
  BY DEF CoreAcquire, CoreRelease, DmaMove, core, Untouched, Typing, TypeOK
<1>4. \A t \in Segments : produceLock'[t] = produceLock[t] /\ consumeLock'[t] = consumeLock[t]
  BY DEF CoreAcquire, CoreRelease, DmaMove, locks
<1>5. ASSUME NEW t \in Selected[e]
      PROVE  TakenUnits(e, t)' = TakenUnits(e, t) /\ DoneUnits(e, t)' = DoneUnits(e, t)
  <2>1. CASE CoreAcquire(e, n)
    BY <2>1, Constants DEF CoreAcquire, TakenUnits, DoneUnits, DoneObjects, Typing, TypeOK
  <2>2. CASE CoreRelease(e, n)
    BY <2>2, Constants DEF CoreRelease, TakenUnits, DoneUnits, DoneObjects, Typing, TypeOK
  <2>3. CASE DmaMove(e, NumberOf(e, obj[e]))
    BY <2>3, Constants DEF DmaMove, core, TakenUnits, DoneUnits, DoneObjects, Current, Count,
                           Typing, TypeOK
  <2> QED
    BY <2>1, <2>2, <2>3
<1>6. ASSUME NEW t \in Selected[e]
      PROVE  TakenUnits(e, t) \in Int /\ DoneUnits(e, t) \in Int
  <2>1. t \in Segments
    BY Constants
  <2> QED
    BY <2>1, UnitsTyped
<1>7. \A t \in Selected[e] :
        /\ TakenUnits(e, t)' = TakenUnits(e, t) + At(s, 0)[t]
        /\ DoneUnits(e, t)' = DoneUnits(e, t) + At(s, 0)[t]
  <2>1. SUFFICES ASSUME NEW t \in Selected[e]
                 PROVE  /\ TakenUnits(e, t)' = TakenUnits(e, t) + At(s, 0)[t]
                        /\ DoneUnits(e, t)' = DoneUnits(e, t) + At(s, 0)[t]
    OBVIOUS
  <2>2. At(s, 0)[t] = 0
    BY <1>2, Constants
  <2>3. TakenUnits(e, t)' = TakenUnits(e, t) /\ DoneUnits(e, t)' = DoneUnits(e, t)
    BY <1>5
  <2>4. TakenUnits(e, t) \in Int /\ DoneUnits(e, t) \in Int
    BY <1>6
  <2> QED
    BY <2>2, <2>3, <2>4
<1>8. \A t \in Segments :
        /\ produceLock'[t] = produceLock[t] - At(s, 0)[t]
        /\ produceLock'[t] = produceLock[t] + At(s, 0)[t]
        /\ consumeLock'[t] = consumeLock[t] - At(s, 0)[t]
        /\ consumeLock'[t] = consumeLock[t] + At(s, 0)[t]
  BY <1>2, <1>4 DEF Typing, TypeOK
<1>9. Effect(e, At(s, 0), At(s, 0))
  BY <1>2, <1>3, <1>7, <1>8 DEF Effect
<1> QED
  BY <1>9

\* A core that takes a lock takes what it will count once the last is taken.
LEMMA EffectCoreTakeLock ==
  ASSUME Regime, Typing, NEW e \in Endpoints, CoreTakeLock(e)
  PROVE  \E s \in Segments : Effect(e, At(s, Delta(e)), At(s, 0))
<1>1. PICK s \in Segments :
        /\ Current(e, s)
        /\ UseLockAcquire(e, s, Delta(e))
        /\ todo' = [todo EXCEPT ![e] = @ \ {s}]
        /\ IF todo[e] = {s}
           THEN /\ held' = [held EXCEPT ![e] = @ + Delta(e)]
                /\ own' = [own EXCEPT ![e] = Larger(@, arg[e])]
                /\ pc' = [pc EXCEPT ![e] = "ready"]
           ELSE UNCHANGED <<held, own, pc>>
  BY DEF CoreTakeLock
<1>2. /\ IsCore(e) /\ pc[e] = "acquire" /\ ~IsDma(e)
      /\ UNCHANGED <<data, obj, copy, arg>>
  BY Constants DEF CoreTakeLock
<1>3. Delta(e) \in Nat
  BY <1>2, DeltaUnits
<1>4. \A x \in Endpoints \ {e} : Untouched(x)
  BY <1>1, <1>2 DEF Untouched, Typing, TypeOK
<1>5. ASSUME NEW t \in Selected[e]
      PROVE  /\ TakenUnits(e, t)' = TakenUnits(e, t) + At(s, Delta(e))[t]
             /\ DoneUnits(e, t)' = DoneUnits(e, t) + At(s, 0)[t]
  <2>1. /\ t \in Segments /\ s \in todo[e]
        /\ held[e] \in Nat /\ obj[e] * Repeat \in Nat
    BY <1>1, Constants, UnitsNat DEF Current, Typing, TypeOK
  <2>2. DoneUnits(e, t)' = DoneUnits(e, t)
    BY <1>1, <1>2 DEF DoneUnits, DoneObjects, Typing, TypeOK
  <2>3. TakenUnits(e, t)' = TakenUnits(e, t) + At(s, Delta(e))[t]
    <3>1. CASE todo[e] = {s}
      <4>1. pc'[e] = "ready" /\ held'[e] = held[e] + Delta(e) /\ obj' = obj
        BY <1>1, <1>2, <3>1 DEF Typing, TypeOK
      <4>2. TakenUnits(e, t)' = held[e] + Delta(e) + obj[e] * Repeat
        BY <1>2, <1>3, <2>1, <4>1 DEF TakenUnits
      <4>3. TakenUnits(e, t) = held[e] + obj[e] * Repeat + (IF t = s THEN 0 ELSE Delta(e))
        BY <1>2, <3>1 DEF TakenUnits
      <4> QED
        BY <1>3, <2>1, <4>2, <4>3 DEF At
    <3>2. CASE todo[e] # {s}
      <4>1. /\ pc' = pc /\ held' = held /\ obj' = obj /\ arg' = arg
            /\ todo'[e] = todo[e] \ {s}
        BY <1>1, <1>2, <3>2 DEF Typing, TypeOK
      <4>2. Delta(e)' = Delta(e)
        BY <4>1 DEF Delta
      <4>3. TakenUnits(e, t)' = held[e] + obj[e] * Repeat
                                  + (IF t \notin todo[e] \/ t = s THEN Delta(e) ELSE 0)
        BY <1>2, <4>1, <4>2 DEF TakenUnits
      <4>4. TakenUnits(e, t) = held[e] + obj[e] * Repeat
                                 + (IF t \notin todo[e] THEN Delta(e) ELSE 0)
        BY <1>2 DEF TakenUnits
      <4> QED
        BY <1>3, <2>1, <4>3, <4>4 DEF At
    <3> QED
      BY <3>1, <3>2
  <2> QED
    BY <2>1, <2>2, <2>3, UnitsTyped DEF At
<1>6. \A t \in Segments :
        /\ t \notin Selected[e] => At(s, Delta(e))[t] = 0 /\ At(s, 0)[t] = 0
        /\ Fills(e) => /\ produceLock'[t] = produceLock[t] - At(s, Delta(e))[t]
                       /\ consumeLock'[t] = consumeLock[t] + At(s, 0)[t]
        /\ Drains(e) => /\ consumeLock'[t] = consumeLock[t] - At(s, Delta(e))[t]
                        /\ produceLock'[t] = produceLock[t] + At(s, 0)[t]
  BY <1>1, <1>3, Constants DEF UseLockAcquire, At, Current, Typing, TypeOK, StepShape
<1>7. Effect(e, At(s, Delta(e)), At(s, 0))
  BY <1>4, <1>5, <1>6 DEF Effect
<1> QED
  BY <1>7

\* A core that gives to a lock gives what it will stop counting.
LEMMA EffectCoreGiveLock ==
  ASSUME Typing, NEW e \in Endpoints, CoreGiveLock(e)
  PROVE  \E s \in Segments : Effect(e, At(s, 0), At(s, arg[e] * Repeat))
<1>1. PICK s \in Segments :
        /\ Current(e, s)
        /\ UseLockRelease(e, s, arg[e] * Repeat)
        /\ todo' = [todo EXCEPT ![e] = @ \ {s}]
        /\ IF todo[e] = {s}
           THEN /\ held' = [held EXCEPT ![e] = @ - arg[e] * Repeat]
                /\ own' = [own EXCEPT ![e] = @ - arg[e]]
                /\ obj' = [obj EXCEPT ![e] = @ + arg[e]]
                /\ pc' = [pc EXCEPT ![e] = "ready"]
           ELSE UNCHANGED <<held, own, obj, pc>>
  BY DEF CoreGiveLock, Returned
<1>2. /\ IsCore(e) /\ pc[e] = "release" /\ ~IsDma(e)
      /\ UNCHANGED <<data, copy, arg>>
  BY Constants DEF CoreGiveLock
<1>3. /\ arg[e] \in Nat /\ obj[e] \in Nat /\ held[e] \in Nat /\ Repeat \in Nat
      /\ arg[e] * Repeat \in Nat /\ obj[e] * Repeat \in Nat
      /\ (obj[e] + arg[e]) * Repeat = obj[e] * Repeat + arg[e] * Repeat
  BY Constants, UnitsNat DEF Typing, TypeOK
<1>4. \A x \in Endpoints \ {e} : Untouched(x)
  BY <1>1, <1>2 DEF Untouched, Typing, TypeOK
<1>5. ASSUME NEW t \in Selected[e]
      PROVE  /\ TakenUnits(e, t)' = TakenUnits(e, t) + At(s, 0)[t]
             /\ DoneUnits(e, t)' = DoneUnits(e, t) + At(s, arg[e] * Repeat)[t]
  <2>1. t \in Segments /\ s \in todo[e] /\ At(s, 0)[t] = 0
    BY <1>1, Constants DEF Current, At
  <2>2. CASE todo[e] = {s}
    <3>1. /\ pc'[e] = "ready" /\ held'[e] = held[e] - arg[e] * Repeat
          /\ obj'[e] = obj[e] + arg[e]
      BY <1>1, <1>2, <2>2 DEF Typing, TypeOK
    <3>2. TakenUnits(e, t)' = TakenUnits(e, t)
      BY <1>2, <1>3, <3>1 DEF TakenUnits
    <3>3. DoneUnits(e, t)' = obj[e] * Repeat + arg[e] * Repeat
      BY <1>2, <1>3, <3>1 DEF DoneUnits, DoneObjects
    <3>4. DoneUnits(e, t) = obj[e] * Repeat + (IF t = s THEN 0 ELSE arg[e] * Repeat)
      <4>1. DoneUnits(e, t) = (obj[e] + (IF t = s THEN 0 ELSE arg[e])) * Repeat
        BY <1>2, <1>3, <2>2 DEF DoneUnits, DoneObjects
      <4> QED
        BY <1>3, <4>1
    <3> QED
      BY <1>3, <2>1, <3>2, <3>3, <3>4, UnitsTyped DEF At
  <2>3. CASE todo[e] # {s}
    <3>1. /\ pc' = pc /\ held' = held /\ obj' = obj /\ arg' = arg
          /\ todo'[e] = todo[e] \ {s}
      BY <1>1, <1>2, <2>3 DEF Typing, TypeOK
    <3>2. TakenUnits(e, t)' = TakenUnits(e, t)
      BY <1>2, <3>1 DEF TakenUnits
    <3>3. DoneUnits(e, t)' = (obj[e] + (IF t \notin todo[e] \/ t = s THEN arg[e] ELSE 0)) * Repeat
      BY <1>2, <1>3, <3>1 DEF DoneUnits, DoneObjects
    <3>4. DoneUnits(e, t) = (obj[e] + (IF t \notin todo[e] THEN arg[e] ELSE 0)) * Repeat
      BY <1>2, <1>3 DEF DoneUnits, DoneObjects
    <3> QED
      BY <1>3, <2>1, <3>2, <3>3, <3>4, UnitsTyped DEF At
  <2> QED
    BY <2>2, <2>3
<1>6. \A t \in Segments :
        /\ t \notin Selected[e] => At(s, 0)[t] = 0 /\ At(s, arg[e] * Repeat)[t] = 0
        /\ Fills(e) => /\ produceLock'[t] = produceLock[t] - At(s, 0)[t]
                       /\ consumeLock'[t] = consumeLock[t] + At(s, arg[e] * Repeat)[t]
        /\ Drains(e) => /\ consumeLock'[t] = consumeLock[t] - At(s, 0)[t]
                        /\ produceLock'[t] = produceLock[t] + At(s, arg[e] * Repeat)[t]
  BY <1>1, <1>3, Constants DEF UseLockRelease, At, Current, Typing, TypeOK, StepShape
<1>7. Effect(e, At(s, 0), At(s, arg[e] * Repeat))
  BY <1>4, <1>5, <1>6 DEF Effect
<1> QED
  BY <1>7

\* A descriptor takes the units of one copy before it moves the data ...
LEMMA EffectDmaTakeLock ==
  ASSUME Typing, NEW e \in Endpoints, DmaTakeLock(e)
  PROVE  \E s \in Segments : Effect(e, At(s, Count(e)), At(s, 0))
<1>1. PICK s \in Segments : Current(e, s) /\ UseLockAcquire(e, s, Count(e))
  BY DEF DmaTakeLock
<1>2. /\ IsDma(e) /\ pc[e] = "ready" /\ pc' = [pc EXCEPT ![e] = "move"]
      /\ UNCHANGED <<data, todo, obj, copy, own, held, arg>>
  BY DEF DmaTakeLock, core
<1>3. Count(e) \in Nat
  BY Constants DEF Count
<1>4. \A x \in Endpoints \ {e} : Untouched(x)
  BY <1>2 DEF Untouched, Typing, TypeOK
<1>5. ASSUME NEW t \in Selected[e]
      PROVE  /\ TakenUnits(e, t)' = TakenUnits(e, t) + At(s, Count(e))[t]
             /\ DoneUnits(e, t)' = DoneUnits(e, t) + At(s, 0)[t]
  <2>1. /\ t \in Segments /\ pc'[e] = "move" /\ At(s, 0)[t] = 0
        /\ DoneUnits(e, t) \in Nat
    BY <1>2, Constants, UnitsTyped DEF Typing, TypeOK, At
  <2>2. DoneUnits(e, t)' = DoneUnits(e, t) /\ Current(e, t)' = Current(e, t)
    BY <1>2 DEF DoneUnits, DoneObjects, Current
  <2>3. Current(e, t) <=> t = s
    BY <1>1, <2>1, CurrentUnique
  <2>4. TakenUnits(e, t)' = DoneUnits(e, t) + (IF t = s THEN Count(e) ELSE 0)
    <3>1. Count(e)' = Count(e)
      BY DEF Count
    <3> QED
      BY <1>2, <2>1, <2>2, <2>3, <3>1 DEF TakenUnits
  <2>5. TakenUnits(e, t) = DoneUnits(e, t) + 0
    BY <1>2 DEF TakenUnits
  <2> QED
    BY <1>3, <2>1, <2>2, <2>4, <2>5 DEF At
<1>6. \A t \in Segments :
        /\ t \notin Selected[e] => At(s, Count(e))[t] = 0 /\ At(s, 0)[t] = 0
        /\ Fills(e) => /\ produceLock'[t] = produceLock[t] - At(s, Count(e))[t]
                       /\ consumeLock'[t] = consumeLock[t] + At(s, 0)[t]
        /\ Drains(e) => /\ consumeLock'[t] = consumeLock[t] - At(s, Count(e))[t]
                        /\ produceLock'[t] = produceLock[t] + At(s, 0)[t]
  BY <1>1, <1>3, Constants DEF UseLockAcquire, At, Current, Typing, TypeOK, StepShape
<1>7. Effect(e, At(s, Count(e)), At(s, 0))
  BY <1>4, <1>5, <1>6 DEF Effect
<1> QED
  BY <1>7

\* ... and gives them once the copy is done: the last copy of the last segment
\* finishes the object.
LEMMA EffectDmaGiveLock ==
  ASSUME Typing, NEW e \in Endpoints, DmaGiveLock(e)
  PROVE  \E s \in Segments : Effect(e, At(s, 0), At(s, Count(e)))
<1>1. PICK s \in Segments :
        /\ Current(e, s)
        /\ UseLockRelease(e, s, Count(e))
        /\ IF copy[e] + 1 < Copies(e)
           THEN /\ copy' = [copy EXCEPT ![e] = @ + 1]
                /\ UNCHANGED <<todo, obj>>
           ELSE /\ copy' = [copy EXCEPT ![e] = 0]
                /\ IF todo[e] = {s}
                   THEN /\ todo' = [todo EXCEPT ![e] = Selected[e]]
                        /\ obj' = [obj EXCEPT ![e] = @ + 1]
                   ELSE /\ todo' = [todo EXCEPT ![e] = @ \ {s}]
                        /\ UNCHANGED obj
  BY DEF DmaGiveLock
<1>2. /\ IsDma(e) /\ pc[e] = "give" /\ pc' = [pc EXCEPT ![e] = "ready"]
      /\ UNCHANGED <<data, own, held, arg>>
  BY DEF DmaGiveLock, core
<1>3. /\ Count(e) \in Nat /\ obj[e] \in Nat /\ copy[e] \in 0 .. Repeat - 1
      /\ Repeat \in Nat \ {0}
      /\ obj[e] * Repeat \in Nat
      /\ (obj[e] + 1) * Repeat = obj[e] * Repeat + Repeat
  BY Constants, UnitsNat DEF Count, Typing, TypeOK
<1>4. \A x \in Endpoints \ {e} : Untouched(x)
  BY <1>1, <1>2 DEF Untouched, Typing, TypeOK
<1>5. ASSUME NEW t \in Selected[e]
      PROVE  /\ TakenUnits(e, t)' = TakenUnits(e, t) + At(s, 0)[t]
             /\ DoneUnits(e, t)' = DoneUnits(e, t) + At(s, Count(e))[t]
  <2>1. /\ t \in Segments /\ s \in todo[e] /\ At(s, 0)[t] = 0
        /\ todo[e] \subseteq Selected[e] /\ Selected[e] \subseteq Segments
    BY <1>1, Constants DEF Current, At, Typing, TypeOK, StepShape
  <2>2. Current(e, t) <=> t = s
    BY <1>1, <2>1, CurrentUnique
  <2>3. TakenUnits(e, t) = DoneUnits(e, t) + (IF t = s THEN Count(e) ELSE 0)
    BY <1>2, <2>2 DEF TakenUnits
  <2>4. TakenUnits(e, t)' = DoneUnits(e, t)'
    <3>1. IsDma(e)' /\ pc'[e] = "ready"
      BY <1>2 DEF Typing, TypeOK, IsDma
    <3>2. TakenUnits(e, t)' = DoneUnits(e, t)' + 0
      BY <3>1 DEF TakenUnits
    <3>3. DoneUnits(e, t)' \in Int
      <4>1. /\ obj'[e] \in Nat /\ copy'[e] \in Int
        BY <1>1, <1>3 DEF Typing, TypeOK
      <4>2. obj'[e] * Repeat \in Nat /\ (obj'[e] + 1) * Repeat \in Nat
        BY <1>3, <4>1, UnitsNat
      <4> QED
        BY <1>2, <4>1, <4>2 DEF DoneUnits, DoneObjects
    <3> QED
      BY <3>2, <3>3
  <2>5. DoneUnits(e, t) = obj[e] * Repeat
                            + (IF t = s THEN copy[e] ELSE IF t \in todo[e] THEN 0 ELSE Repeat)
    BY <1>2, <1>3, <2>1, <2>2 DEF DoneUnits, DoneObjects
  <2>6. CASE copy[e] + 1 < Copies(e)
    <3>1. Drains(e) /\ Count(e) = 1
      BY <1>3, <2>6, Constants DEF Copies, Count
    <3>2. /\ copy'[e] = copy[e] + 1 /\ todo' = todo /\ obj' = obj
      BY <1>1, <2>6 DEF Typing, TypeOK
    <3>3. Current(e, t)' <=> t = s
      BY <2>2, <3>2 DEF Current
    <3>4. DoneUnits(e, t)' = obj[e] * Repeat
                 + (IF t = s THEN copy[e] + 1 ELSE IF t \in todo[e] THEN 0 ELSE Repeat)
      BY <1>2, <1>3, <2>1, <3>2, <3>3 DEF DoneUnits, DoneObjects, IsDma
    <3>5. DoneUnits(e, t)' = DoneUnits(e, t) + (IF t = s THEN Count(e) ELSE 0)
      BY <1>3, <2>5, <3>1, <3>4
    <3> QED
      BY <2>1, <2>3, <2>4, <3>5, <1>3, UnitsTyped DEF At
  <2>7. CASE ~(copy[e] + 1 < Copies(e))
    <3>1. Count(e) = Repeat - copy[e]
      BY <1>2, <1>3, <2>7, Constants DEF Copies, Count, Typing, TypeOK, StepShape
    <3>2. copy'[e] = 0
      BY <1>1, <2>7 DEF Typing, TypeOK
    <3>3. DoneUnits(e, t)' =
            (obj'[e] + (IF t \in todo'[e] THEN 0 ELSE 1)) * Repeat + 0
      BY <1>2, <3>2 DEF DoneUnits, DoneObjects, IsDma
    <3>4. DoneUnits(e, t)' = obj[e] * Repeat
                 + (IF t = s THEN Repeat ELSE IF t \in todo[e] THEN 0 ELSE Repeat)
      <4>1. CASE todo[e] = {s}
        <5>1. todo'[e] = Selected[e] /\ obj'[e] = obj[e] + 1
          BY <1>1, <2>7, <4>1 DEF Typing, TypeOK
        <5> QED
          BY <1>3, <3>3, <4>1, <5>1
      <4>2. CASE todo[e] # {s}
        <5>1. todo'[e] = todo[e] \ {s} /\ obj'[e] = obj[e]
          BY <1>1, <2>7, <4>2 DEF Typing, TypeOK
        <5> QED
          BY <1>3, <2>1, <3>3, <5>1
      <4> QED
        BY <4>1, <4>2
    <3>5. DoneUnits(e, t)' = DoneUnits(e, t) + (IF t = s THEN Count(e) ELSE 0)
      BY <1>3, <2>5, <3>1, <3>4
    <3> QED
      BY <2>1, <2>3, <2>4, <3>5, <1>3, UnitsTyped DEF At
  <2> QED
    BY <2>6, <2>7
<1>6. \A t \in Segments :
        /\ t \notin Selected[e] => At(s, 0)[t] = 0 /\ At(s, Count(e))[t] = 0
        /\ Fills(e) => /\ produceLock'[t] = produceLock[t] - At(s, 0)[t]
                       /\ consumeLock'[t] = consumeLock[t] + At(s, Count(e))[t]
        /\ Drains(e) => /\ consumeLock'[t] = consumeLock[t] - At(s, 0)[t]
                        /\ produceLock'[t] = produceLock[t] + At(s, Count(e))[t]
  BY <1>1, <1>3, Constants DEF UseLockRelease, At, Current, Typing, TypeOK, StepShape
<1>7. Effect(e, At(s, 0), At(s, Count(e)))
  BY <1>4, <1>5, <1>6 DEF Effect
<1> QED
  BY <1>7

LEMMA LocksCountInit ==
  ASSUME Init
  PROVE  LocksCount
<1>1. SUFFICES ASSUME NEW f \in Endpoints, NEW d \in Endpoints, Fills(f), Drains(d),
                      NEW s \in Selected[f] \cap Selected[d]
      PROVE  /\ produceLock[s] = (Depth - Filled) * Repeat - TakenUnits(f, s) + DoneUnits(d, s)
             /\ consumeLock[s] = Filled * Repeat - TakenUnits(d, s) + DoneUnits(f, s)
  BY DEF LocksCount
<1>2. \A x \in {f, d} : TakenUnits(x, s) = 0 /\ DoneUnits(x, s) = 0
  BY <1>1, Constants DEF Init, TakenUnits, DoneUnits, DoneObjects
<1>3. (Depth - Filled) * Repeat \in Int /\ Filled * Repeat \in Int
  BY Constants
<1> QED
  BY <1>1, <1>2, <1>3, Constants DEF Init, ProduceUnits, ConsumeUnits

LEMMA LocksCountNext ==
  ASSUME Regime, Typing, LocksCount, [Next]_vars
  PROVE  LocksCount'
<1>1. ASSUME NEW e \in Endpoints, NEW s \in Segments, NEW m \in Int, NEW n \in Int,
             Effect(e, At(s, m), At(s, n))
      PROVE  LocksCount'
  <2>1. At(s, m) \in [Segments -> Int] /\ At(s, n) \in [Segments -> Int]
    BY DEF At
  <2> QED
    BY <1>1, <2>1, EffectKeepsCount
<1>2. ASSUME NEW e \in Endpoints PROVE Count(e) \in Int
  BY Constants DEF Count
<1>3. ASSUME NEW e \in Endpoints, CoreStep(e)
      PROVE  LocksCount'
  <2>1. ASSUME NEW n \in 1 .. Depth, CoreAcquire(e, n) \/ CoreRelease(e, n)
        PROVE  LocksCount'
    BY <1>1, <2>1, EffectNothing
  <2>2. CASE CoreTakeLock(e)
    <3>1. Delta(e) \in Int
      BY <2>2, DeltaUnits DEF CoreTakeLock
    <3> QED
      BY <1>1, <2>2, <3>1, EffectCoreTakeLock
  <2>3. CASE CoreGiveLock(e)
    <3>1. arg[e] * Repeat \in Int
      BY Constants DEF Typing, TypeOK
    <3> QED
      BY <1>1, <2>3, <3>1, EffectCoreGiveLock
  <2> QED
    BY <1>3, <2>1, <2>2, <2>3 DEF CoreStep
<1>4. ASSUME NEW e \in Endpoints, DmaStep(e)
      PROVE  LocksCount'
  <2>1. CASE DmaMove(e, NumberOf(e, obj[e]))
    <3>1. 1 \in 1 .. Depth
      BY Constants
    <3> QED
      BY <1>1, <2>1, <3>1, EffectNothing
  <2> QED
    BY <1>1, <1>2, <1>4, <2>1, EffectDmaTakeLock, EffectDmaGiveLock DEF DmaStep
<1>5. CASE UNCHANGED vars
  BY <1>5 DEF vars, LocksCount, TakenUnits, DoneUnits, DoneObjects, Delta, Current
<1> QED
  BY <1>3, <1>4, <1>5 DEF Next, Rest

-----------------------------------------------------------------------------
(* From lock units to windows of objects.                                  *)

\* Objects an endpoint may have claimed of a segment, the finished included.
Claimed(x, s) ==
  IF IsDma(x)
  THEN DoneObjects(x, s) + (IF pc[x] # "ready" /\ Current(x, s) THEN 1 ELSE 0)
  ELSE obj[x] + own[x]

LEMMA ClaimedTyped ==
  ASSUME Typing, NEW x \in Endpoints, NEW s \in Segments
  PROVE  Claimed(x, s) \in Nat
  BY UnitsTyped DEF Claimed, Typing, TypeOK

\* Every object claimed is paid for in lock units, the last one of a repeating
\* chain at least with one unit.
LEMMA ClaimedUnits ==
  ASSUME Regime, Typing, NEW x \in Endpoints, NEW s \in Selected[x]
  PROVE  \E c \in 0 .. Repeat - 1 :
            /\ Claimed(x, s) * Repeat <= TakenUnits(x, s) + c
            /\ Fills(x) => c = 0
<1>1. /\ s \in Segments /\ Repeat \in Nat \ {0} /\ obj[x] \in Nat /\ own[x] \in Nat
      /\ copy[x] \in 0 .. Repeat - 1
      /\ DoneObjects(x, s) \in Nat
  <2>1. s \in Segments
    BY Constants
  <2> QED
    BY <2>1, Constants, UnitsTyped DEF Typing, TypeOK
<1>2. CASE IsDma(x)
  <2>1. CASE pc[x] # "ready" /\ Current(x, s)
    <3>1. TakenUnits(x, s) = DoneObjects(x, s) * Repeat + copy[x] + Count(x)
      BY <1>2, <2>1 DEF TakenUnits, DoneUnits
    <3>2. Claimed(x, s) * Repeat = DoneObjects(x, s) * Repeat + Repeat
      <4>1. Claimed(x, s) = DoneObjects(x, s) + 1
        BY <1>2, <2>1 DEF Claimed
      <4>2. (DoneObjects(x, s) + 1) * Repeat = DoneObjects(x, s) * Repeat + Repeat
        BY <1>1
      <4> QED
        BY <4>1, <4>2
    <3>3. DoneObjects(x, s) * Repeat \in Nat
      BY <1>1, UnitsNat
    <3>4. CASE Fills(x)
      <4>1. Count(x) = Repeat /\ copy[x] = 0
        BY <1>2, <3>4, Constants DEF Count, Typing, StepShape
      <4> QED
        BY <1>1, <3>1, <3>2, <3>3, <4>1
    <3>5. CASE Drains(x)
      <4>1. Count(x) = 1
        BY <3>5 DEF Count
      <4> QED
        BY <1>1, <3>1, <3>2, <3>3, <3>5, <4>1, Constants
    <3> QED
      BY <3>4, <3>5, Constants
  <2>2. CASE ~(pc[x] # "ready" /\ Current(x, s))
    <3>1. Claimed(x, s) = DoneObjects(x, s)
      BY <1>1, <1>2, <2>2 DEF Claimed
    <3>2. DoneObjects(x, s) * Repeat \in Nat
      BY <1>1, UnitsNat
    <3>3. TakenUnits(x, s) >= DoneObjects(x, s) * Repeat
      <4>1. DoneUnits(x, s) >= DoneObjects(x, s) * Repeat
        BY <1>1, <3>2 DEF DoneUnits
      <4>2. TakenUnits(x, s) = DoneUnits(x, s) + 0
        BY <1>2, <2>2 DEF TakenUnits
      <4> QED
        BY <1>1, <4>1, <4>2, UnitsTyped
    <3>4. TakenUnits(x, s) \in Int
      BY <1>1, UnitsTyped
    <3> QED
      BY <1>1, <3>1, <3>2, <3>3, <3>4
  <2> QED
    BY <2>1, <2>2
<1>3. CASE IsCore(x)
  <2>1. /\ held[x] = own[x] * Repeat /\ ~IsDma(x)
        /\ own[x] * Repeat \in Nat /\ obj[x] * Repeat \in Nat
    BY <1>1, <1>3, Constants, UnitsNat DEF Typing, HeldCountsObjects
  <2>2. Claimed(x, s) * Repeat = obj[x] * Repeat + own[x] * Repeat
    <3>1. Claimed(x, s) = obj[x] + own[x]
      BY <2>1 DEF Claimed
    <3>2. (obj[x] + own[x]) * Repeat = obj[x] * Repeat + own[x] * Repeat
      BY <1>1
    <3> QED
      BY <3>1, <3>2
  <2>3. TakenUnits(x, s) >= own[x] * Repeat + obj[x] * Repeat /\ TakenUnits(x, s) \in Int
    <3>1. pc[x] = "acquire" => Delta(x) \in Nat
      BY <1>3, DeltaUnits
    <3> QED
      BY <1>1, <2>1, <3>1, UnitsTyped DEF TakenUnits
  <2>4. Claimed(x, s) * Repeat <= TakenUnits(x, s) + 0
    BY <2>1, <2>2, <2>3
  <2> QED
    BY <1>1, <2>4
<1> QED
  BY <1>2, <1>3, Constants

\* A filler is never a whole turn ahead of its drainer, and a drainer never
\* ahead of its filler.
LEMMA Window ==
  ASSUME Regime, Typing, LocksCount,
         NEW f \in Endpoints, NEW d \in Endpoints, Fills(f), Drains(d),
         NEW s \in Selected[f] \cap Selected[d]
  PROVE  /\ Filled + Claimed(f, s) <= DoneObjects(d, s) + Depth
         /\ Claimed(d, s) <= Filled + DoneObjects(f, s)
<1>1. /\ s \in Segments /\ Repeat \in Nat \ {0} /\ Filled \in Nat /\ Depth \in Nat
      /\ Claimed(f, s) \in Nat /\ Claimed(d, s) \in Nat
      /\ DoneObjects(f, s) \in Nat /\ DoneObjects(d, s) \in Nat
      /\ TakenUnits(f, s) \in Int /\ TakenUnits(d, s) \in Int
      /\ produceLock[s] \in Nat /\ consumeLock[s] \in Nat
  <2>1. s \in Segments
    BY Constants
  <2> QED
    BY <2>1, Constants, ClaimedTyped, UnitsTyped DEF Typing, TypeOK
<1>2. /\ produceLock[s] = (Depth - Filled) * Repeat - TakenUnits(f, s) + DoneUnits(d, s)
      /\ consumeLock[s] = Filled * Repeat - TakenUnits(d, s) + DoneUnits(f, s)
  BY DEF LocksCount
<1>3. PICK a \in 0 .. Repeat - 1 : DoneUnits(d, s) = DoneObjects(d, s) * Repeat + a
  BY <1>1 DEF DoneUnits, Typing, TypeOK
<1>4. DoneUnits(f, s) = DoneObjects(f, s) * Repeat
  <2>1. IsDma(f) => copy[f] = 0
    BY DEF Typing, StepShape
  <2>2. DoneUnits(f, s) = DoneObjects(f, s) * Repeat + 0
    BY <2>1 DEF DoneUnits
  <2>3. DoneObjects(f, s) * Repeat \in Nat
    BY <1>1, UnitsNat
  <2> QED
    BY <2>2, <2>3
<1>5. PICK u \in Int : u = Depth - Filled + DoneObjects(d, s)
  BY <1>1
<1>6. PICK v \in Int : v = Filled + DoneObjects(f, s)
  BY <1>1
<1>7. Claimed(f, s) <= u
  <2>1. Claimed(f, s) * Repeat <= TakenUnits(f, s)
    <3>1. PICK c \in 0 .. Repeat - 1 :
            /\ Claimed(f, s) * Repeat <= TakenUnits(f, s) + c
            /\ Fills(f) => c = 0
      BY ClaimedUnits
    <3> QED
      BY <1>1, <3>1
  <2>2. (Depth - Filled) * Repeat + DoneObjects(d, s) * Repeat = u * Repeat
    BY <1>1, <1>5
  <2>3. (Depth - Filled) * Repeat \in Int /\ DoneObjects(d, s) * Repeat \in Int
    BY <1>1
  <2>4. TakenUnits(f, s) <= u * Repeat + a
    BY <1>1, <1>2, <1>3, <2>2, <2>3
  <2>5. Claimed(f, s) * Repeat <= u * Repeat + a
    BY <1>1, <2>1, <2>4
  <2> QED
    BY <1>1, <2>5, UnitsOrder
<1>8. Claimed(d, s) <= v
  <2>1. PICK c \in 0 .. Repeat - 1 : Claimed(d, s) * Repeat <= TakenUnits(d, s) + c
    BY ClaimedUnits
  <2>2. Filled * Repeat + DoneObjects(f, s) * Repeat = v * Repeat
    BY <1>1, <1>6
  <2>3. Filled * Repeat \in Int /\ DoneObjects(f, s) * Repeat \in Int
    BY <1>1
  <2>4. TakenUnits(d, s) <= v * Repeat
    BY <1>1, <1>2, <1>4, <2>2, <2>3
  <2>5. Claimed(d, s) * Repeat <= v * Repeat + c
    BY <1>1, <2>1, <2>4
  <2> QED
    BY <1>1, <2>5, UnitsOrder
<1> QED
  BY <1>1, <1>5, <1>6, <1>7, <1>8

\* What an endpoint touches is claimed and not finished.
LEMMA TouchesClaimed ==
  ASSUME Typing, NEW x \in Endpoints, NEW s \in Segments, NEW k \in Nat, Touches(x, k, s)
  PROVE  DoneObjects(x, s) <= k /\ k < Claimed(x, s)
<1>1. CASE IsDma(x)
  BY <1>1 DEF Touches, DoneObjects, Claimed, Current, Typing, TypeOK
<1>2. CASE ~IsDma(x)
  BY <1>2, Constants DEF Touches, DoneObjects, Claimed, Typing, TypeOK, StepShape
<1> QED
  BY <1>1, <1>2

\* The buffers of both ends, counted in the order objects pass the pool.
LEMMA SlotInOrder ==
  ASSUME Regime, NEW x \in Endpoints, NEW k \in Nat
  PROVE  /\ Fills(x) => /\ Slot(x, k) = (Filled + k) % Depth
                        /\ NumberOf(x, k) = Filled + k + 1
         /\ Drains(x) => /\ Slot(x, k) = k % Depth
                         /\ NumberOf(x, k) = k + 1
<1>1. Depth \in Nat \ {0} /\ Filled \in Nat
  BY Constants
<1>2. CASE Drains(x)
  <2>1. FirstObject(x) = 0 /\ ~Fills(x)
    BY <1>2, Constants DEF FirstObject
  <2>2. 0 + k = k /\ 0 + k + 1 = k + 1
    OBVIOUS
  <2> QED
    BY <1>2, <2>1, <2>2 DEF Slot, NumberOf
<1>3. CASE Fills(x) /\ IsCore(x)
  <2>1. Slot(x, k) = ((Filled % Depth) + k) % Depth
    BY <1>3 DEF Slot, FirstObject
  <2>2. Filled \in Int /\ k \in Int
    BY <1>1
  <2>3. ((Filled % Depth) + k) % Depth = (Filled + k) % Depth
    BY <1>1, <2>2, ModAdd
  <2> QED
    BY <1>3, <2>1, <2>3, Constants DEF NumberOf
<1>4. CASE Fills(x) /\ IsDma(x)
  <2>1. Slot(x, k) = k % Depth
    BY <1>1, <1>4, Constants DEF Slot, FirstObject
  <2>2. Depth % Depth = 0
    <3>1. Depth \in Int
      BY <1>1
    <3> QED
      BY <1>1, <3>1, ModSelf
  <2>3. (Depth + k) % Depth = k % Depth
    <3>1. Depth \in Int /\ k \in Int
      BY <1>1
    <3>2. ((Depth % Depth) + k) % Depth = (Depth + k) % Depth
      BY <1>1, <3>1, ModAdd
    <3>3. 0 + k = k
      BY <3>1
    <3> QED
      BY <2>2, <3>2, <3>3
  <2>4. Filled = 0 \/ Filled = Depth
    BY <1>4 DEF Regime
  <2> QED
    BY <1>1, <1>4, <2>1, <2>3, <2>4, Constants DEF NumberOf
<1> QED
  BY <1>2, <1>3, <1>4, Constants

LEMMA CountsPreventConflict ==
  ASSUME Regime, Typing, LocksCount
  PROVE  NoConflict
<1>1. ASSUME NEW f \in Endpoints, NEW d \in Endpoints, Fills(f), Drains(d),
             NEW s \in Segments, NEW k \in Nat, NEW l \in Nat,
             Touches(f, k, s), Touches(d, l, s)
      PROVE  Slot(f, k) # Slot(d, l)
  <2>1. s \in Selected[f] \cap Selected[d]
    BY <1>1 DEF Touches
  <2>2. /\ DoneObjects(f, s) <= k /\ k < Claimed(f, s)
        /\ DoneObjects(d, s) <= l /\ l < Claimed(d, s)
    BY <1>1, TouchesClaimed
  <2>3. /\ Filled + Claimed(f, s) <= DoneObjects(d, s) + Depth
        /\ Claimed(d, s) <= Filled + DoneObjects(f, s)
    BY <1>1, <2>1, Window
  <2>4. l < Filled + k /\ Filled + k < l + Depth
    BY <1>1, <2>2, <2>3, Constants, ClaimedTyped, UnitsTyped
  <2>5. l % Depth # (Filled + k) % Depth
    <3>1. Filled + k \in Int /\ l \in Int
      BY Constants
    <3> QED
      BY <2>4, <3>1, Constants, ModDistinct
  <2> QED
    BY <1>1, <2>5, SlotInOrder
<1>2. SUFFICES ASSUME NEW e \in Endpoints, NEW o \in Endpoints, e # o, NEW s \in Segments,
                      NEW k \in Nearby(e), NEW l \in Nearby(o),
                      Touches(e, k, s), Touches(o, l, s)
               PROVE  Slot(e, k) # Slot(o, l)
  BY DEF NoConflict
<1>3. k \in Nat /\ l \in Nat
  BY Constants DEF Nearby, Typing, TypeOK
<1>4. Role[e] # Role[o]
  <2>1. s \in Selected[e] \cap Selected[o]
    BY <1>2 DEF Touches
  <2> QED
    BY <1>2, <2>1, PoolAssumption DEF PoolAssumption
<1>5. CASE Fills(e)
  <2>1. Drains(o)
    BY <1>4, <1>5, Constants DEF Fills
  <2> QED
    BY <1>1, <1>2, <1>3, <1>5, <2>1
<1>6. CASE Drains(e)
  <2>1. Fills(o)
    BY <1>4, <1>6, Constants DEF Drains
  <2> QED
    BY <1>1, <1>2, <1>3, <1>6, <2>1
<1> QED
  BY <1>5, <1>6, Constants

-----------------------------------------------------------------------------
(* What the buffers hold.                                                  *)

LEMMA WrittenClaimed ==
  ASSUME Typing, NEW f \in Endpoints, NEW s \in Segments
  PROVE  WrittenObjects(f, s) \in Nat /\ WrittenObjects(f, s) <= Claimed(f, s)
<1>1. DoneObjects(f, s) \in Nat
  BY UnitsTyped
<1>2. CASE IsDma(f)
  BY <1>1, <1>2 DEF WrittenObjects, Claimed
<1>3. CASE ~IsDma(f)
  BY <1>3, Constants DEF WrittenObjects, Claimed, Typing, TypeOK, StepShape
<1> QED
  BY <1>2, <1>3

\* How far apart the two ends of a segment can be.
LEMMA PoolBounds ==
  ASSUME Regime, Typing, LocksCount,
         NEW f \in Endpoints, NEW d \in Endpoints, Fills(f), Drains(d),
         NEW s \in Selected[f] \cap Selected[d]
  PROVE  /\ DoneObjects(f, s) \in Nat /\ DoneObjects(d, s) \in Nat
         /\ WrittenObjects(f, s) \in Nat
         /\ DoneObjects(d, s) <= Filled + DoneObjects(f, s)
         /\ DoneObjects(f, s) <= WrittenObjects(f, s)
         /\ Filled + WrittenObjects(f, s) <= DoneObjects(d, s) + Depth
<1>1. /\ s \in Segments /\ Filled \in Nat /\ Depth \in Nat
      /\ DoneObjects(f, s) \in Nat /\ DoneObjects(d, s) \in Nat
      /\ Claimed(f, s) \in Nat /\ Claimed(d, s) \in Nat
  <2>1. s \in Segments
    BY Constants
  <2> QED
    BY <2>1, Constants, UnitsTyped, ClaimedTyped
<1>2. /\ Filled + Claimed(f, s) <= DoneObjects(d, s) + Depth
      /\ Claimed(d, s) <= Filled + DoneObjects(f, s)
  BY Window
<1>3. WrittenObjects(f, s) \in Nat /\ WrittenObjects(f, s) <= Claimed(f, s)
  BY <1>1, WrittenClaimed
<1>4. DoneObjects(d, s) <= Claimed(d, s)
  BY <1>1, Constants DEF DoneObjects, Claimed, Typing, TypeOK, StepShape
<1>5. DoneObjects(f, s) <= WrittenObjects(f, s)
  BY <1>1, Constants DEF DoneObjects, WrittenObjects, Typing, TypeOK, StepShape
<1> QED
  BY <1>1, <1>2, <1>3, <1>4, <1>5

\* A step that writes nothing keeps the contents, as long as no object counts
\* as written that was not and none that was given back returns.
LEMMA ContentsKept ==
  ASSUME Typing, Typing', QueuedContents, data' = data,
         \A x \in Endpoints : \A s \in Selected[x] :
            /\ Fills(x) => WrittenObjects(x, s)' <= WrittenObjects(x, s)
            /\ Drains(x) => DoneObjects(x, s) <= DoneObjects(x, s)'
  PROVE  QueuedContents'
<1>1. SUFFICES ASSUME NEW f \in Endpoints, NEW d \in Endpoints, Fills(f), Drains(d),
                      NEW s \in Selected[f] \cap Selected[d],
                      NEW j \in DoneObjects(d, s)' .. Filled + WrittenObjects(f, s)' - 1
               PROVE  data'[j % Depth][s] = j + 1
  BY DEF QueuedContents, Fills, Drains
<1>2. /\ s \in Segments
      /\ WrittenObjects(f, s)' <= WrittenObjects(f, s)
      /\ DoneObjects(d, s) <= DoneObjects(d, s)'
  BY <1>1, Constants
<1>3. /\ DoneObjects(d, s) \in Nat /\ DoneObjects(d, s)' \in Nat
      /\ WrittenObjects(f, s) \in Nat /\ WrittenObjects(f, s)' \in Nat
      /\ Filled \in Nat
  <2>1. WrittenObjects(f, s)' \in Nat /\ DoneObjects(d, s)' \in Nat
    <3>1. DoneObjects(f, s)' \in Nat /\ DoneObjects(d, s)' \in Nat
      BY <1>2, Constants DEF DoneObjects, Typing, TypeOK
    <3> QED
      BY <3>1, Constants DEF WrittenObjects, Typing, TypeOK
  <2> QED
    BY <1>2, <2>1, Constants, UnitsTyped, WrittenClaimed
<1>4. j \in DoneObjects(d, s) .. Filled + WrittenObjects(f, s) - 1
  BY <1>2, <1>3
<1> QED
  BY <1>1, <1>4 DEF QueuedContents

LEMMA UntouchedObjects ==
  ASSUME NEW x \in Endpoints, NEW s \in Segments, Untouched(x)
  PROVE  /\ DoneObjects(x, s)' = DoneObjects(x, s)
         /\ WrittenObjects(x, s)' = WrittenObjects(x, s)
  BY DEF Untouched, DoneObjects, WrittenObjects, Current

\* The objects a step of e publishes: it keeps every other buffer, and those
\* it writes hold the next objects in turn.
Writes(e, s, m) ==
  LET first == Filled + WrittenObjects(e, s) IN
  /\ \A b \in Buffers :
        (\A i \in 0 .. m - 1 : b # (first + i) % Depth) => data'[b][s] = data[b][s]
  /\ \A i \in 0 .. m - 1 : data'[(first + i) % Depth][s] = first + i + 1

\* Writing behind what is written, inside the window, disturbs nothing.
LEMMA ContentsWritten ==
  ASSUME Regime, Typing, Typing', LocksCount, QueuedContents,
         NEW e \in Endpoints, Fills(e), NEW m \in [Segments -> Nat],
         \A x \in Endpoints \ {e} : Untouched(x),
         \A s \in Segments \ Selected[e], b \in Buffers : data'[b][s] = data[b][s],
         \A s \in Selected[e] :
            /\ WrittenObjects(e, s)' = WrittenObjects(e, s) + m[s]
            /\ WrittenObjects(e, s) + m[s] <= Claimed(e, s)
            /\ Writes(e, s, m[s])
  PROVE  QueuedContents'
<1>1. SUFFICES ASSUME NEW f \in Endpoints, NEW d \in Endpoints, Fills(f), Drains(d),
                      NEW s \in Selected[f] \cap Selected[d],
                      NEW j \in DoneObjects(d, s)' .. Filled + WrittenObjects(f, s)' - 1
               PROVE  data'[j % Depth][s] = j + 1
  BY DEF QueuedContents, Fills, Drains
<1>2. s \in Segments /\ d # e
  BY <1>1, Constants
<1>3. DoneObjects(d, s)' = DoneObjects(d, s)
  BY <1>2, UntouchedObjects
<1>4. /\ DoneObjects(d, s) \in Nat /\ WrittenObjects(f, s) \in Nat
      /\ Filled \in Nat /\ Depth \in Nat \ {0} /\ m[s] \in Nat
      /\ Claimed(f, s) \in Nat
  BY <1>2, Constants, UnitsTyped, WrittenClaimed, ClaimedTyped
<1>5. CASE f # e
  <2>1. s \notin Selected[e]
    BY <1>1, <1>5, PoolAssumption DEF PoolAssumption, Fills
  <2>2. WrittenObjects(f, s)' = WrittenObjects(f, s)
    BY <1>2, <1>5, UntouchedObjects
  <2>3. data[j % Depth][s] = j + 1
    BY <1>1, <1>3, <2>2 DEF QueuedContents
  <2>4. j \in Int
    BY <1>1
  <2>5. j % Depth \in Buffers
    BY <1>4, <2>4, DivMod DEF Buffers
  <2> QED
    BY <1>2, <2>1, <2>3, <2>5
<1>6. CASE f = e
  <2>1. PICK first \in Nat : first = Filled + WrittenObjects(e, s)
    BY <1>4, <1>6
  <2>2. /\ WrittenObjects(e, s)' = WrittenObjects(e, s) + m[s]
        /\ WrittenObjects(e, s) + m[s] <= Claimed(e, s)
        /\ Writes(e, s, m[s])
    BY <1>1, <1>6
  <2>3. Filled + Claimed(e, s) <= DoneObjects(d, s) + Depth
    BY <1>1, <1>6, Window
  <2>4. /\ j \in Int /\ DoneObjects(d, s) <= j
        /\ j < first + m[s] /\ first + m[s] <= j + Depth
    BY <1>1, <1>3, <1>4, <1>6, <2>1, <2>2, <2>3
  <2>5. j % Depth \in Buffers
    BY <1>4, <2>4, DivMod DEF Buffers
  <2>6. CASE j >= first
    <3>1. j - first \in 0 .. m[s] - 1 /\ first + (j - first) = j
      BY <1>4, <2>1, <2>4, <2>6
    <3> QED
      BY <2>1, <2>2, <3>1 DEF Writes
  <2>7. CASE j < first
    <3>1. data[j % Depth][s] = j + 1
      <4>1. j \in DoneObjects(d, s) .. Filled + WrittenObjects(e, s) - 1
        BY <2>1, <2>4, <2>7, <1>4, <1>6
      <4> QED
        BY <1>1, <1>6, <4>1 DEF QueuedContents
    <3>2. ASSUME NEW i \in 0 .. m[s] - 1
          PROVE  j % Depth # (first + i) % Depth
      <4>1. first + i \in Int /\ j < first + i /\ first + i < j + Depth
        BY <1>4, <2>1, <2>4, <2>7
      <4> QED
        BY <1>4, <2>4, <4>1, ModDistinct
    <3> QED
      BY <2>1, <2>2, <2>5, <3>1, <3>2 DEF Writes
  <2> QED
    BY <2>1, <2>4, <2>6, <2>7
<1> QED
  BY <1>5, <1>6

\* Steps that leave the buffers alone.
LEMMA StepUntouched ==
  ASSUME Typing, NEW e \in Endpoints, CoreStep(e) \/ DmaStep(e)
  PROVE  \A x \in Endpoints \ {e} : Untouched(x)
  BY DEF CoreStep, DmaStep, CoreAcquire, CoreTakeLock, CoreRelease, CoreGiveLock,
         DmaTakeLock, DmaMove, DmaGiveLock, core, Untouched, Typing, TypeOK

\* An endpoint finishes objects one after the other and takes none back, and
\* only a release it begins and a transfer write.
LEMMA StepObjects ==
  ASSUME Typing, Typing', NEW e \in Endpoints, CoreStep(e) \/ DmaStep(e),
         NEW s \in Selected[e]
  PROVE  /\ DoneObjects(e, s) <= DoneObjects(e, s)'
         /\ \/ WrittenObjects(e, s)' <= WrittenObjects(e, s)
            \/ \E m \in 1 .. Depth : CoreRelease(e, m)
            \/ DmaMove(e, NumberOf(e, obj[e]))
<1>1. s \in Segments /\ obj[e] \in Nat /\ arg[e] \in Nat
  BY Constants DEF Typing, TypeOK
<1>2. CASE \E n \in 1 .. Depth : CoreAcquire(e, n)
  BY <1>1, <1>2, Constants DEF CoreAcquire, WrittenObjects, DoneObjects, Typing, TypeOK
<1>3. CASE CoreTakeLock(e)
  BY <1>1, <1>3, Constants DEF CoreTakeLock, WrittenObjects, DoneObjects, Typing, TypeOK
<1>4. CASE \E m \in 1 .. Depth : CoreRelease(e, m)
  <2>1. DoneObjects(e, s) <= DoneObjects(e, s)'
    BY <1>1, <1>4, Constants DEF CoreRelease, DoneObjects, Typing, TypeOK
  <2> QED
    BY <1>4, <2>1
<1>5. CASE CoreGiveLock(e)
  BY <1>1, <1>5, Constants DEF CoreGiveLock, WrittenObjects, DoneObjects, Typing, TypeOK
<1>6. CASE DmaTakeLock(e)
  BY <1>1, <1>6, Constants DEF DmaTakeLock, core, WrittenObjects, DoneObjects, Current,
                               Typing, TypeOK
<1>7. CASE DmaMove(e, NumberOf(e, obj[e]))
  BY <1>1, <1>7, Constants DEF DmaMove, core, DoneObjects, Typing, TypeOK
<1>8. CASE DmaGiveLock(e)
  <2>1. IsDma(e) /\ pc'[e] = "ready" /\ pc[e] = "give"
    BY <1>8 DEF DmaGiveLock, Typing, TypeOK
  <2>2. PICK t \in Segments :
          /\ Current(e, t)
          /\ IF copy[e] + 1 < Copies(e)
             THEN UNCHANGED <<todo, obj>>
             ELSE IF todo[e] = {t}
                  THEN /\ todo' = [todo EXCEPT ![e] = Selected[e]]
                       /\ obj' = [obj EXCEPT ![e] = @ + 1]
                  ELSE /\ todo' = [todo EXCEPT ![e] = @ \ {t}]
                       /\ UNCHANGED obj
    BY <1>8 DEF DmaGiveLock
  <2>3. t \in todo[e] /\ (Current(e, s) <=> s = t)
    BY <1>1, <2>2, CurrentUnique DEF Current
  <2>4. DoneObjects(e, s) <= DoneObjects(e, s)'
    BY <1>1, <2>1, <2>2, <2>3 DEF DoneObjects, Typing, TypeOK
  <2>5. DoneObjects(e, s)' <= DoneObjects(e, s) + (IF s = t THEN 1 ELSE 0)
    BY <1>1, <2>1, <2>2, <2>3 DEF DoneObjects, Typing, TypeOK, StepShape
  <2>6. WrittenObjects(e, s)' = DoneObjects(e, s)' + 0
    <3>1. ~(pc'[e] = "give")
      BY <2>1
    <3> QED
      BY <2>1, <3>1 DEF WrittenObjects
  <2>7. WrittenObjects(e, s) = DoneObjects(e, s) + (IF s = t THEN 1 ELSE 0)
    BY <2>1, <2>3 DEF WrittenObjects
  <2>8. DoneObjects(e, s) \in Nat /\ DoneObjects(e, s)' \in Nat
    BY <1>1, UnitsTyped DEF DoneObjects, Typing, TypeOK
  <2> QED
    BY <2>4, <2>5, <2>6, <2>7, <2>8
<1> QED
  BY <1>2, <1>3, <1>4, <1>5, <1>6, <1>7, <1>8 DEF CoreStep, DmaStep

\* Whoever steps, no endpoint takes back what it finished.
LEMMA DoneGrows ==
  ASSUME Typing, Typing', [Next]_vars, NEW x \in Endpoints, NEW s \in Selected[x]
  PROVE  DoneObjects(x, s) <= DoneObjects(x, s)'
<1>1. s \in Segments
  BY Constants
<1>2. CASE UNCHANGED vars
  <2>1. DoneObjects(x, s)' = DoneObjects(x, s)
    BY <1>2 DEF vars, DoneObjects
  <2> QED
    BY <1>1, <2>1, UnitsTyped
<1>3. ASSUME NEW e \in Endpoints, CoreStep(e) \/ DmaStep(e)
      PROVE  DoneObjects(x, s) <= DoneObjects(x, s)'
  <2>1. CASE x = e
    BY <1>3, <2>1, StepObjects
  <2>2. CASE x # e
    <3>1. DoneObjects(x, s)' = DoneObjects(x, s)
      BY <1>1, <1>3, <2>2, StepUntouched, UntouchedObjects
    <3> QED
      BY <1>1, <3>1, UnitsTyped
  <2> QED
    BY <2>1, <2>2
<1> QED
  BY <1>2, <1>3 DEF Next, Rest

LEMMA ContentsQuiet ==
  ASSUME Regime, Typing, Typing', QueuedContents,
         NEW e \in Endpoints, CoreStep(e) \/ DmaStep(e), data' = data,
         Fills(e) => /\ ~ \E m \in 1 .. Depth : CoreRelease(e, m)
                     /\ ~ DmaMove(e, NumberOf(e, obj[e]))
  PROVE  QueuedContents'
<1>1. \A x \in Endpoints \ {e} : Untouched(x)
  BY StepUntouched
<1>2. ASSUME NEW s \in Selected[e]
      PROVE  /\ Fills(e) => WrittenObjects(e, s)' <= WrittenObjects(e, s)
             /\ Drains(e) => DoneObjects(e, s) <= DoneObjects(e, s)'
  BY StepObjects
<1>3. ASSUME NEW x \in Endpoints, NEW s \in Selected[x]
      PROVE  /\ Fills(x) => WrittenObjects(x, s)' <= WrittenObjects(x, s)
             /\ Drains(x) => DoneObjects(x, s) <= DoneObjects(x, s)'
  <2>1. s \in Segments
    BY Constants
  <2>2. CASE x # e
    <3>1. /\ DoneObjects(x, s)' = DoneObjects(x, s)
          /\ WrittenObjects(x, s)' = WrittenObjects(x, s)
      BY <1>1, <2>1, <2>2, UntouchedObjects
    <3> QED
      BY <2>1, <3>1, UnitsTyped, WrittenClaimed
  <2> QED
    BY <1>2, <2>2
<1> QED
  BY <1>3, ContentsKept

\* A filling core writes the objects it is about to release.
LEMMA ContentsCoreRelease ==
  ASSUME Regime, Typing, Typing', LocksCount, QueuedContents,
         NEW e \in Endpoints, Fills(e), NEW n \in 1 .. Depth, CoreRelease(e, n)
  PROVE  QueuedContents'
<1>1. /\ IsCore(e) /\ ~IsDma(e) /\ pc[e] = "ready" /\ n \in 1 .. own[e]
      /\ obj[e] \in Nat /\ own[e] \in Nat /\ n \in Nat
      /\ Depth \in Nat \ {0} /\ Filled \in Nat
  BY Constants DEF CoreRelease, Typing, TypeOK
<1>2. PICK first \in Nat : first = Filled + obj[e]
  BY <1>1
<1>3. \A x \in Endpoints \ {e} : Untouched(x)
  BY DEF CoreRelease, Untouched, Typing, TypeOK
<1>4. data' = [b \in Buffers |-> [s \in Segments |->
            IF s \in Selected[e] /\ \E i \in 0 .. n - 1 : b = Slot(e, obj[e] + i)
            THEN NumberOf(e, CHOOSE k \in obj[e] .. obj[e] + n - 1 : b = Slot(e, k))
            ELSE data[b][s]]]
  BY DEF CoreRelease
<1>5. ASSUME NEW k \in obj[e] .. obj[e] + n - 1
      PROVE  /\ k \in Nat
             /\ Slot(e, k) = (Filled + k) % Depth
             /\ NumberOf(e, k) = Filled + k + 1
             /\ Slot(e, k) \in Buffers
  <2>1. k \in Nat
    BY <1>1
  <2> QED
    BY <2>1, SlotInOrder, SlotBuffer
<1>6. ASSUME NEW k \in obj[e] .. obj[e] + n - 1, NEW l \in obj[e] .. obj[e] + n - 1,
             Slot(e, k) = Slot(e, l)
      PROVE  k = l
  <2>1. /\ Filled + k \in Int /\ Filled + l \in Int
        /\ Filled + l < (Filled + k) + Depth /\ Filled + k < (Filled + l) + Depth
    BY <1>1, Constants
  <2>2. /\ ~ (Filled + k < Filled + l)
        /\ ~ (Filled + l < Filled + k)
    BY <1>1, <1>5, <1>6, <2>1, ModDistinct
  <2> QED
    BY <1>1, <2>2
<1>7. ASSUME NEW s \in Selected[e]
      PROVE  /\ WrittenObjects(e, s) = obj[e]
             /\ WrittenObjects(e, s)' = WrittenObjects(e, s) + n
             /\ WrittenObjects(e, s) + n <= Claimed(e, s)
             /\ Writes(e, s, n)
  <2>1. s \in Segments
    BY Constants
  <2>2. WrittenObjects(e, s) = obj[e]
    BY <1>1 DEF WrittenObjects
  <2>3. WrittenObjects(e, s)' = obj[e] + n
    BY <1>1 DEF WrittenObjects, CoreRelease, Typing, TypeOK
  <2>4. obj[e] + n <= Claimed(e, s)
    BY <1>1 DEF Claimed
  <2>5. ASSUME NEW b \in Buffers, \A i \in 0 .. n - 1 : b # (first + i) % Depth
        PROVE  data'[b][s] = data[b][s]
    <3>1. ASSUME NEW i \in 0 .. n - 1
          PROVE  b # Slot(e, obj[e] + i)
      <4>1. obj[e] + i \in obj[e] .. obj[e] + n - 1
        BY <1>1
      <4>2. Filled + (obj[e] + i) = first + i
        BY <1>1, <1>2
      <4> QED
        BY <1>5, <2>5, <4>1, <4>2
    <3> QED
      BY <1>4, <2>1, <3>1
  <2>6. ASSUME NEW i \in 0 .. n - 1
        PROVE  data'[(first + i) % Depth][s] = first + i + 1
    <3>1. PICK k \in obj[e] .. obj[e] + n - 1 : k = obj[e] + i
      BY <1>1
    <3>2. Filled + k = first + i
      BY <1>1, <1>2, <3>1
    <3>3. /\ (first + i) % Depth = Slot(e, k) /\ Slot(e, k) \in Buffers
          /\ NumberOf(e, k) = first + i + 1
      BY <1>5, <3>2
    <3>4. (CHOOSE l \in obj[e] .. obj[e] + n - 1 : Slot(e, k) = Slot(e, l)) = k
      BY <1>6
    <3> QED
      BY <1>4, <2>1, <3>1, <3>3, <3>4
  <2>7. Writes(e, s, n)
    BY <1>2, <2>2, <2>5, <2>6 DEF Writes
  <2> QED
    BY <2>2, <2>3, <2>4, <2>7
<1>8. PICK m \in [Segments -> Nat] : \A s \in Segments : m[s] = n
  <2>1. [s \in Segments |-> n] \in [Segments -> Nat]
    BY <1>1
  <2> QED
    BY <2>1
<1>9. \A s \in Segments \ Selected[e], b \in Buffers : data'[b][s] = data[b][s]
  BY <1>4
<1>10. \A s \in Selected[e] : m[s] = n
  BY <1>8, Constants
<1>11. \A s \in Selected[e] :
            /\ WrittenObjects(e, s)' = WrittenObjects(e, s) + m[s]
            /\ WrittenObjects(e, s) + m[s] <= Claimed(e, s)
            /\ Writes(e, s, m[s])
  BY <1>7, <1>10
<1> QED
  BY <1>3, <1>9, <1>11, ContentsWritten

\* A filling DMA writes one segment of the next object.
LEMMA ContentsDmaMove ==
  ASSUME Regime, Typing, Typing', LocksCount, QueuedContents,
         NEW e \in Endpoints, Fills(e), DmaMove(e, NumberOf(e, obj[e]))
  PROVE  QueuedContents'
<1>1. PICK t \in Segments :
        /\ Current(e, t)
        /\ data' = [data EXCEPT ![Slot(e, obj[e])][t] = NumberOf(e, obj[e])]
  BY DEF DmaMove
<1>2. /\ IsDma(e) /\ pc[e] = "move" /\ pc'[e] = "give"
      /\ todo' = todo /\ obj' = obj /\ obj[e] \in Nat
      /\ data \in [Buffers -> [Segments -> Nat]]
      /\ t \in todo[e]
  BY <1>1 DEF DmaMove, core, Typing, TypeOK, Current
<1>3. \A x \in Endpoints \ {e} : Untouched(x)
  BY DEF DmaMove, core, Untouched, Typing, TypeOK
<1>4. /\ Slot(e, obj[e]) = (Filled + obj[e]) % Depth
      /\ NumberOf(e, obj[e]) = Filled + obj[e] + 1
      /\ Slot(e, obj[e]) \in Buffers
      /\ Filled \in Nat
  <2>1. obj[e] \in Nat
    BY <1>2
  <2>2. Slot(e, obj[e]) = (Filled + obj[e]) % Depth
    BY <2>1, SlotInOrder
  <2>3. NumberOf(e, obj[e]) = Filled + obj[e] + 1
    BY <2>1, SlotInOrder
  <2> QED
    BY <2>1, <2>2, <2>3, SlotBuffer, Constants
<1>5. /\ data'[Slot(e, obj[e])][t] = Filled + obj[e] + 1
      /\ \A b \in Buffers, s \in Segments :
            b # Slot(e, obj[e]) \/ s # t => data'[b][s] = data[b][s]
  BY <1>1, <1>2, <1>4
<1>6. PICK m \in [Segments -> Nat] : \A s \in Segments : m[s] = IF s = t THEN 1 ELSE 0
  <2>1. [s \in Segments |-> IF s = t THEN 1 ELSE 0] \in [Segments -> Nat]
    OBVIOUS
  <2> QED
    BY <2>1
<1>7. ASSUME NEW s \in Selected[e]
      PROVE  /\ WrittenObjects(e, s)' = WrittenObjects(e, s) + m[s]
             /\ WrittenObjects(e, s) + m[s] <= Claimed(e, s)
             /\ Writes(e, s, m[s])
  <2>1. s \in Segments /\ DoneObjects(e, s) \in Nat
    <3>1. s \in Segments
      BY Constants
    <3> QED
      BY <3>1, UnitsTyped
  <2>2. Current(e, s) <=> s = t
    BY <1>1, <2>1, CurrentUnique
  <2>3. DoneObjects(e, s)' = DoneObjects(e, s) /\ (Current(e, s)' <=> Current(e, s))
    BY <1>2 DEF DoneObjects, Current
  <2>4. WrittenObjects(e, s) = DoneObjects(e, s)
    BY <1>2, <2>1 DEF WrittenObjects
  <2>5. WrittenObjects(e, s)' = DoneObjects(e, s) + m[s]
    <3>1. WrittenObjects(e, s)' = DoneObjects(e, s)' + (IF Current(e, s)' THEN 1 ELSE 0)
      BY <1>2 DEF WrittenObjects
    <3> QED
      BY <1>6, <2>1, <2>2, <2>3, <3>1
  <2>6. DoneObjects(e, s) + m[s] <= Claimed(e, s)
    BY <1>2, <1>6, <2>1, <2>2 DEF Claimed
  <2>7. Writes(e, s, m[s])
    <3>1. CASE s # t
      <4>1. m[s] = 0
        BY <1>6, <2>1, <3>1
      <4> QED
        BY <1>5, <2>1, <3>1, <4>1 DEF Writes
    <3>2. CASE s = t
      <4>1. m[s] = 1 /\ WrittenObjects(e, s) = obj[e]
        BY <1>2, <1>6, <2>1, <2>4, <3>2 DEF DoneObjects
      <4>2. PICK first \in Nat : first = Filled + WrittenObjects(e, s)
        BY <1>2, <1>4, <4>1
      <4>3. 0 .. m[s] - 1 = {0} /\ first + 0 = first /\ first = Filled + obj[e]
        BY <4>1, <4>2
      <4>4. \A b \in Buffers :
              (\A i \in 0 .. m[s] - 1 : b # (first + i) % Depth) => data'[b][s] = data[b][s]
        BY <1>4, <1>5, <2>1, <4>3
      <4>5. \A i \in 0 .. m[s] - 1 : data'[(first + i) % Depth][s] = first + i + 1
        BY <1>4, <1>5, <3>2, <4>3
      <4> QED
        BY <4>2, <4>4, <4>5 DEF Writes
    <3> QED
      BY <3>1, <3>2
  <2> QED
    BY <2>4, <2>5, <2>6, <2>7
<1>8. \A s \in Segments \ Selected[e], b \in Buffers : data'[b][s] = data[b][s]
  BY <1>2, <1>5 DEF Typing, StepShape
<1> QED
  BY <1>3, <1>6, <1>7, <1>8, ContentsWritten

LEMMA ContentsInit ==
  ASSUME Init
  PROVE  QueuedContents
<1>1. SUFFICES ASSUME NEW f \in Endpoints, NEW d \in Endpoints, Fills(f), Drains(d),
                      NEW s \in Selected[f] \cap Selected[d],
                      NEW j \in DoneObjects(d, s) .. Filled + WrittenObjects(f, s) - 1
               PROVE  data[j % Depth][s] = j + 1
  BY DEF QueuedContents
<1>2. s \in Segments /\ DoneObjects(d, s) = 0 /\ WrittenObjects(f, s) = 0
  BY <1>1, Constants DEF Init, DoneObjects, WrittenObjects
<1>3. j \in Nat /\ j < Filled /\ j < Depth
  BY <1>1, <1>2, Constants
<1>4. j % Depth = j
  <2>1. PICK q \in Int, r \in 0 .. Depth - 1 : j = q * Depth + r /\ r = j % Depth
    <3>1. j \in Int
      BY <1>3
    <3> QED
      BY <3>1, Constants, DivMod
  <2>2. 0 * Depth + j = q * Depth + r /\ j \in 0 .. Depth - 1
    BY <1>3, <2>1, Constants
  <2> QED
    BY <2>1, <2>2, Constants, RemainderUnique
<1>5. j \in Buffers
  BY <1>3, Constants DEF Buffers
<1> QED
  BY <1>2, <1>3, <1>4, <1>5 DEF Init

LEMMA ContentsNext ==
  ASSUME Regime, Typing, Typing', LocksCount, QueuedContents, [Next]_vars
  PROVE  QueuedContents'
<1>1. ASSUME NEW e \in Endpoints, CoreStep(e) \/ DmaStep(e)
      PROVE  QueuedContents'
  <2>1. CASE Fills(e) /\ \E n \in 1 .. Depth : CoreRelease(e, n)
    BY <2>1, ContentsCoreRelease
  <2>2. CASE Fills(e) /\ DmaMove(e, NumberOf(e, obj[e]))
    BY <2>2, ContentsDmaMove
  <2>3. CASE ~Fills(e) \/ /\ ~ \E n \in 1 .. Depth : CoreRelease(e, n)
                          /\ ~ DmaMove(e, NumberOf(e, obj[e]))
    <3>1. data' = data
      BY <1>1, <2>3 DEF CoreStep, DmaStep, CoreAcquire, CoreTakeLock, CoreRelease,
                        CoreGiveLock, DmaTakeLock, DmaMove, DmaGiveLock, core
    <3> QED
      BY <1>1, <2>3, <3>1, ContentsQuiet
  <2> QED
    BY <2>1, <2>2, <2>3
<1>2. CASE UNCHANGED vars
  BY <1>2 DEF vars, QueuedContents, DoneObjects, WrittenObjects, Current
<1> QED
  BY <1>1, <1>2 DEF Next, Rest

LEMMA ContentsInOrder ==
  ASSUME Regime, Typing, LocksCount, QueuedContents
  PROVE  InOrder
<1>1. SUFFICES ASSUME NEW d \in Endpoints, Drains(d), NEW s \in Segments,
                      NEW k \in Nearby(d), Touches(d, k, s)
               PROVE  data[Slot(d, k)][s] = NumberOf(d, k)
  BY DEF InOrder
<1>2. k \in Nat /\ s \in Selected[d]
  BY <1>1, Constants DEF Nearby, Touches, Typing, TypeOK
<1>3. PICK f \in Endpoints : Fills(f) /\ s \in Selected[f]
  BY PoolAssumption DEF PoolAssumption, Roles, Fills
<1>4. DoneObjects(d, s) <= k /\ k < Claimed(d, s)
  BY <1>1, <1>2, TouchesClaimed
<1>5. Claimed(d, s) <= Filled + DoneObjects(f, s)
  BY <1>1, <1>2, <1>3, Window
<1>6. DoneObjects(f, s) <= WrittenObjects(f, s)
  BY UnitsTyped, Constants DEF WrittenObjects, DoneObjects, Typing, TypeOK
<1>7. k \in DoneObjects(d, s) .. Filled + WrittenObjects(f, s) - 1
  BY <1>2, <1>4, <1>5, <1>6, Constants, UnitsTyped, ClaimedTyped, WrittenClaimed
<1>8. data[k % Depth][s] = k + 1
  BY <1>1, <1>2, <1>3, <1>7 DEF QueuedContents
<1> QED
  BY <1>1, <1>2, <1>8, SlotInOrder

-----------------------------------------------------------------------------
(* The theorems.                                                           *)

LEMMA IndInvInit ==
  ASSUME Init
  PROVE  PoolInv
  BY TypingInit, LocksCountInit, ContentsInit DEF PoolInv, Typing

LEMMA IndInvNext ==
  ASSUME Regime, PoolInv, [Next]_vars
  PROVE  PoolInv'
<1>1. Typing'
  BY TypingNext DEF PoolInv, Typing
<1>2. LocksCount'
  BY LocksCountNext DEF PoolInv, Typing
<1>3. QueuedContents'
  BY <1>1, ContentsNext DEF PoolInv, Typing
<1> QED
  BY <1>1, <1>2, <1>3 DEF PoolInv, Typing

\* Locks, window counters, rotation and buffer contents of the lowered pool
\* agree with one another in every reachable state.
THEOREM Invariance ==
  ASSUME Regime
  PROVE  Spec => []PoolInv
<1>1. Init => PoolInv
  BY IndInvInit
<1>2. PoolInv /\ [Next]_vars => PoolInv'
  BY IndInvNext
<1> QED
  BY <1>1, <1>2, PTL DEF Spec

\* Every variable keeps its type: no lock and no window counter goes negative.
THEOREM TypeCorrect ==
  ASSUME Regime
  PROVE  Spec => []TypeOK
<1>1. PoolInv => TypeOK
  BY DEF PoolInv
<1> QED
  BY <1>1, Invariance, PTL

\* A pool gives no two endpoints the same segment of a buffer at once.
THEOREM AccessExclusive ==
  ASSUME Regime
  PROVE  Spec => []NoConflict
<1>1. PoolInv => NoConflict
  BY CountsPreventConflict DEF PoolInv, Typing
<1> QED
  BY <1>1, Invariance, PTL

\* Every drainer finds the objects in order, unrepeated and not overwritten.
THEOREM ObjectsInOrder ==
  ASSUME Regime
  PROVE  Spec => []InOrder
<1>1. PoolInv => InOrder
  BY ContentsInOrder DEF PoolInv, Typing
<1> QED
  BY <1>1, Invariance, PTL
=============================================================================
