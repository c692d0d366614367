-------------------------- MODULE ObjectFifoVerify --------------------------
(***************************************************************************)
(* verifyOverRelease of --aie-objectfifo-verify: every loop of a core is   *)
(* scanned for a body that releases more objects of an objectFifo than it  *)
(* acquires. Next to the scan stands what the core does once it is lowered *)
(* (--aie-objectfifo-lower-cores): a counter of the objects held, which an *)
(* acquire raises to the number it names and a release lowers. A core the  *)
(* scan rejects is run as well, as the option skip-verify lets it.         *)
(*                                                                         *)
(* A core is the sequence of its accesses to one objectFifo and the loops  *)
(* around them, each from a first to a last access; loops nest. There are  *)
(* no conditionals; the scan keeps its sums per objectFifo and per loop.   *)
(***************************************************************************)
EXTENDS Integers, Sequences, FiniteSets

CONSTANTS
  Depth,      \* the largest operand of an acquire or a release
  MaxLength,  \* bound: accesses in a core
  MaxLoops,   \* bound: loops in a core
  MaxTrips    \* bound: trips of the loop that is watched

ASSUME CoreAssumption ==
  /\ Depth \in Nat \ {0} /\ MaxLength \in Nat
  /\ MaxLoops \in Nat /\ MaxTrips \in Nat

Accesses == [kind : {"acquire", "release"}, count : 1..Depth]

Bodies == UNION {[1..n -> Accesses] : n \in 1..MaxLength}

\* Access i stands in loop l; loop k stands in loop l, or is l.
In(i, l) == l[1] <= i /\ i <= l[2]
Within(k, l) == l[1] <= k[1] /\ k[2] <= l[2]
Apart(k, l) == k[2] < l[1] \/ l[2] < k[1]

Loops(n) == {l \in (1..n) \X (1..n) : l[1] <= l[2]}

Nests(n) ==
  {L \in SUBSET Loops(n) :
     /\ L # {} /\ Cardinality(L) <= MaxLoops
     /\ \A k, l \in L : Within(k, l) \/ Within(l, k) \/ Apart(k, l)}

-----------------------------------------------------------------------------
VARIABLES
  body,    \* the core's accesses
  loops,   \* its loops
  loop,    \* the loop that is watched
  pos,     \* the access the core executes next
  active,  \* the loops the core is in
  held,    \* the counter the lowering keeps
  trips,   \* history: trips the watched loop completed since it was entered,
  entry,   \* what was held then, and
  found    \* what the acquires directly in it have found held since

program == <<body, loops, loop>>
vars == <<program, pos, active, held, trips, entry, found>>

-----------------------------------------------------------------------------
(* The scan. It sums up the operands of the accesses directly in a loop.   *)

\* No loop around the access is closer than l.
DirectlyIn(i, l) == In(i, l) /\ \A k \in loops : In(i, k) => Within(l, k)

\* Fault: accesses that are split across nesting levels are scanned too.
SpansNestedLoopNever(l) == FALSE

SpansNestedLoop(l) == \E i \in l[1]..l[2] : ~DirectlyIn(i, l)

Size(l) == l[2] - l[1] + 1

\* Sums(l, kind)[n]: the sum over the first n accesses of the loop.
Sums(l, kind) ==
  LET sum[n \in 0..Size(l)] ==
        IF n = 0 THEN 0
        ELSE LET i == l[1] + n - 1
             IN sum[n - 1]
                + IF body[i].kind = kind /\ DirectlyIn(i, l) THEN body[i].count ELSE 0
  IN sum

Total(l, kind) == Sums(l, kind)[Size(l)]

\* Fault: one object more may be released than is acquired.
WithinBoundLoose(l) == Total(l, "release") <= Total(l, "acquire") + 1

WithinBound(l) == Total(l, "release") <= Total(l, "acquire")

Rejected(l) == ~SpansNestedLoop(l) /\ ~WithinBound(l)

\* The walk goes through every loop of the core, nested ones too.
Accepted == \A l \in loops : ~Rejected(l)

-----------------------------------------------------------------------------
(* The core. Its counter may have run below zero, where nothing is said of *)
(* what comes next.                                                        *)

Init ==
  /\ body \in Bodies
  /\ loops \in Nests(Len(body))
  /\ loop \in loops
  /\ pos = 1 /\ active = {} /\ held = 0
  /\ trips = 0 /\ entry = 0 /\ found = 0

\* Control is before an access, or a loop, of the innermost active loop.
Inside == held >= 0 /\ pos <= Len(body) /\ \A l \in active : pos <= l[2]

Larger(a, b) == IF a >= b THEN a ELSE b
Smaller(a, b) == IF a <= b THEN a ELSE b

Acquire ==
  /\ body[pos].kind = "acquire"
  /\ held' = Larger(body[pos].count, held)
  /\ found' = found + IF DirectlyIn(pos, loop) THEN Smaller(body[pos].count, held) ELSE 0

Release ==
  /\ body[pos].kind = "release"
  /\ held' = held - body[pos].count
  /\ UNCHANGED found

Access ==
  /\ Inside
  /\ \A l \in loops : l[1] = pos => l \in active
  /\ Acquire \/ Release
  /\ pos' = pos + 1
  /\ UNCHANGED <<program, active, trips, entry>>

\* l is the outermost loop that begins here and was not entered.
AtLoop(l) ==
  /\ Inside /\ pos = l[1]
  /\ \A k \in loops : Within(l, k) => (k \in active <=> k # l)

Enter(l) ==
  /\ AtLoop(l)
  /\ active' = active \cup {l}
  /\ trips' = IF l = loop THEN 0 ELSE trips
  /\ entry' = IF l = loop THEN held ELSE entry
  /\ found' = IF l = loop THEN 0 ELSE found
  /\ UNCHANGED <<program, pos, held>>

\* A loop may make no trip at all.
Skip(l) ==
  /\ AtLoop(l)
  /\ pos' = l[2] + 1
  /\ UNCHANGED <<program, active, held, trips, entry, found>>

\* A trip of the innermost active loop ends.
TripEnds(l) ==
  /\ held >= 0 /\ l \in active /\ pos = l[2] + 1
  /\ \A k \in active : Within(k, l) => k = l
  /\ trips' = IF l = loop THEN trips + 1 ELSE trips

GoBack(l) ==
  /\ TripEnds(l)
  /\ l = loop => trips + 1 < MaxTrips
  /\ pos' = l[1]
  /\ UNCHANGED <<program, active, held, entry, found>>

Leave(l) ==
  /\ TripEnds(l)
  /\ active' = active \ {l}
  /\ UNCHANGED <<program, pos, held, entry, found>>

Finished == held >= 0 /\ pos > Len(body) /\ active = {}

Ended == (held < 0 \/ Finished) /\ UNCHANGED vars

Next ==
  \/ Access \/ Ended
  \/ \E l \in loops : Enter(l) \/ Skip(l) \/ GoBack(l) \/ Leave(l)

Spec == Init /\ [][Next]_vars

-----------------------------------------------------------------------------
TypeOK ==
  /\ body \in Bodies
  /\ loops \in Nests(Len(body))
  /\ loop \in loops
  /\ pos \in 1 .. Len(body) + 1
  /\ active \subseteq loops
  /\ held \in Int
  /\ trips \in Nat /\ entry \in Nat /\ found \in Nat

\* Control is in the loops that are active, and they are those around the
\* innermost one.
ActiveNest ==
  /\ \A l \in active : l[1] <= pos /\ pos <= l[2] + 1
  /\ \A l \in active, k \in loops : Within(l, k) => k \in active
  /\ \A k, l \in active : Within(k, l) \/ Within(l, k)

\* What the first n accesses of the watched loop take beyond what they give
\* back.
Gain(n) == Sums(loop, "acquire")[n] - Sums(loop, "release")[n]

Gained == Gain(pos - loop[1])

\* Each completed trip of a rejected loop has cost it an object, and an acquire
\* raises the counter by no more than its operand.
RejectedLoses ==
  Rejected(loop) =>
    /\ trips <= entry
    /\ loop \in active => held <= entry - trips + Gained

\* What the counter has less than the accesses of this trip come to, acquires
\* have found held.
FoundIsMissing ==
  ~SpansNestedLoop(loop) /\ WithinBound(loop) /\ loop \in active =>
    held + found >= entry + Gained

LoopInv == TypeOK /\ ActiveNest /\ RejectedLoses /\ FoundIsMissing

\* A loop that verifyOverRelease rejects loses at least one object per trip: it never
\* completes more trips than there were objects held as it was entered, in
\* whatever loops it stands and however often these enter it.
RejectedUnderflows == Rejected(loop) => trips <= entry

\* In a core it accepts, a loop without a loop in it holds at the end of a trip what
\* it held as it was entered, less only what its acquires found held: operands are
\* summed, while an acquire names a total, and that is all the scan can miss.
AcceptedStaysWhole ==
  Accepted /\ ~SpansNestedLoop(loop) /\ loop \in active /\ pos = loop[2] + 1 =>
    held + found >= entry
=============================================================================
