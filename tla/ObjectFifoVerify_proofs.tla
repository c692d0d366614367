----------------------- MODULE ObjectFifoVerify_proofs -----------------------
(***************************************************************************)
(* What verifyOverRelease rejects loses an object per trip, and what it    *)
(* accepts loses no more than its acquires found held, for cores of any    *)
(* length, operands of any size, and loops nested, entered and repeated in *)
(* any way.                                                                *)
(***************************************************************************)
EXTENDS ObjectFifoVerify, WellFoundedInduction, TLAPS

-----------------------------------------------------------------------------
(* The sums of the scan.                                                   *)

LEMMA LeastOf ==
  ASSUME NEW S \in SUBSET Nat, S # {}
  PROVE  \E x \in S : \A y \in S : x <= y
<1> DEFINE R == OpToRel(<, Nat)
<1>1. IsWellFoundedOn(R, Nat)
  BY NatLessThanWellFounded, Zenon
<1>2. R = {ss \in Nat \X Nat : ss[1] < ss[2]}
  BY Zenon DEF OpToRel
<1> HIDE DEF R
<1>3. PICK x \in S : \A y \in S : <<y, x>> \notin R
  BY <1>1, WFMin, Zenon
<1>4. ASSUME NEW y \in S, y < x  PROVE FALSE
  <2>1. <<y, x>> \in Nat \X Nat /\ <<y, x>>[1] < <<y, x>>[2]
    BY <1>4
  <2>2. <<y, x>> \in R
    BY <1>2, <2>1, Zenon
  <2> QED
    BY <1>3, <2>2
<1> QED
  BY <1>4

\* Every finite series of integers has its partial sums.
LEMMA PartialSums ==
  ASSUME NEW m \in Nat, NEW a \in [1..m -> Int]
  PROVE  \E f \in [0..m -> Int] :
           f[0] = 0 /\ \A n \in 1..m : f[n] = f[n - 1] + a[n]
<1> DEFINE Solves(f, k) == f[0] = 0 /\ \A n \in 1..k : f[n] = f[n - 1] + a[n]
           Unsolved == {k \in 0..m : ~ \E f \in [0..k -> Int] : Solves(f, k)}
<1>1. SUFFICES ASSUME Unsolved # {}  PROVE FALSE
  <2>1. m \in 0..m
    OBVIOUS
  <2> QED
    BY <1>1, <2>1
<1>2. PICK k \in Unsolved : \A j \in Unsolved : k <= j
  <2>1. Unsolved \in SUBSET Nat
    OBVIOUS
  <2> HIDE DEF Unsolved
  <2> QED
    BY <1>1, <2>1, LeastOf
<1>3. k # 0
  <2>1. [n \in 0..0 |-> 0] \in [0..0 -> Int] /\ Solves([n \in 0..0 |-> 0], 0)
    OBVIOUS
  <2> QED
    BY <2>1
<1>4. k - 1 \in 0..m /\ k - 1 \notin Unsolved /\ k \in 1..m
  <2>1. k \in 0..m
    BY <1>2
  <2>2. k - 1 \in 0..m /\ k \in 1..m /\ k \in Nat /\ ~(k <= k - 1)
    BY <2>1, <1>3
  <2> HIDE DEF Unsolved
  <2> QED
    BY <1>2, <2>2
<1>5. PICK f \in [0..k - 1 -> Int] : Solves(f, k - 1)
  BY <1>4
<1> DEFINE g == [n \in 0..k |-> IF n = k THEN f[k - 1] + a[k] ELSE f[n]]
<1>6. g \in [0..k -> Int]
  <2>1. ASSUME NEW n \in 0..k  PROVE g[n] \in Int
    <3>1. CASE n = k
      BY <3>1, <1>4
    <3>2. CASE n # k
      BY <3>2, <1>4
    <3> QED
      BY <3>1, <3>2
  <2> QED
    BY <2>1
<1>7. Solves(g, k)
  <2>1. g[0] = 0
    BY <1>4, <1>5
  <2>2. ASSUME NEW n \in 1..k  PROVE g[n] = g[n - 1] + a[n]
    <3>1. n - 1 \in 0..k - 1 /\ g[n - 1] = f[n - 1]
      BY <1>4
    <3>2. CASE n = k
      BY <3>1, <3>2
    <3>3. CASE n # k
      BY <3>1, <3>3, <1>4, <1>5
    <3> QED
      BY <3>2, <3>3
  <2> QED
    BY <2>1, <2>2
<1> QED
  BY <1>6, <1>7

\* The accesses and the loops of a core.
LEMMA CoreFacts ==
  ASSUME TypeOK
  PROVE  /\ Len(body) \in Nat
         /\ \A i \in 1 .. Len(body) :
              /\ body[i].kind \in {"acquire", "release"}
              /\ body[i].count \in Nat \ {0}
         /\ \A l \in loops :
              /\ l \in Nat \X Nat /\ l[1] \in Nat /\ l[2] \in Nat
              /\ 1 <= l[1] /\ l[1] <= l[2] /\ l[2] <= Len(body)
         /\ \A k, l \in loops : Within(k, l) \/ Within(l, k) \/ Apart(k, l)
<1>1. PICK n \in 1..MaxLength : body \in [1..n -> Accesses]
  BY DEF TypeOK, Bodies
<1>2. n \in Nat /\ Len(body) = n
  BY <1>1, CoreAssumption DEF CoreAssumption
<1>3. ASSUME NEW i \in 1 .. Len(body)
      PROVE  body[i].kind \in {"acquire", "release"} /\ body[i].count \in Nat \ {0}
  <2>1. body[i] \in Accesses
    BY <1>1, <1>2
  <2> QED
    BY <2>1, CoreAssumption DEF Accesses, CoreAssumption
<1>4. loops \subseteq Loops(Len(body))
      /\ \A k, l \in loops : Within(k, l) \/ Within(l, k) \/ Apart(k, l)
  BY Zenon DEF TypeOK, Nests
<1>5. ASSUME NEW l \in loops
      PROVE  /\ l \in Nat \X Nat /\ l[1] \in Nat /\ l[2] \in Nat
             /\ 1 <= l[1] /\ l[1] <= l[2] /\ l[2] <= Len(body)
  <2>1. l \in (1 .. Len(body)) \X (1 .. Len(body)) /\ l[1] <= l[2]
    BY <1>4 DEF Loops
  <2> QED
    BY <1>2, <2>1
<1> QED
  BY <1>2, <1>3, <1>4, <1>5

\* The first n accesses of a loop sum up to what the scan adds up over them.
LEMMA SumsOfLoop ==
  ASSUME TypeOK, NEW l \in loops, NEW kind
  PROVE  /\ Size(l) \in Nat
         /\ Sums(l, kind) \in [0 .. Size(l) -> Int]
         /\ Sums(l, kind)[0] = 0
         /\ \A n \in 1 .. Size(l) :
              Sums(l, kind)[n] =
                Sums(l, kind)[n - 1]
                + IF body[l[1] + n - 1].kind = kind /\ DirectlyIn(l[1] + n - 1, l)
                  THEN body[l[1] + n - 1].count ELSE 0
<1> DEFINE Adds(n) ==
             IF body[l[1] + n - 1].kind = kind /\ DirectlyIn(l[1] + n - 1, l)
             THEN body[l[1] + n - 1].count ELSE 0
           a == [n \in 1 .. Size(l) |-> Adds(n)]
           Unfold(f) ==
             [n \in 0 .. Size(l) |-> IF n = 0 THEN 0 ELSE f[n - 1] + Adds(n)]
           s == Sums(l, kind)
<1>1. Size(l) \in Nat /\ l[1] \in Nat /\ l[2] \in Nat /\ l[1] >= 1
      /\ l[2] <= Len(body) /\ Len(body) \in Nat /\ Size(l) = l[2] - l[1] + 1
  BY CoreFacts DEF Size
<1>2. a \in [1 .. Size(l) -> Int]
  <2>1. ASSUME NEW n \in 1 .. Size(l)  PROVE Adds(n) \in Int
    <3>1. l[1] + n - 1 \in 1 .. Len(body)
      BY <1>1
    <3>2. body[l[1] + n - 1].count \in Int
      BY <3>1, CoreFacts
    <3> QED
      BY <3>2
  <2> QED
    BY <2>1
<1>3. PICK f \in [0 .. Size(l) -> Int] :
        f[0] = 0 /\ \A n \in 1 .. Size(l) : f[n] = f[n - 1] + a[n]
  BY <1>1, <1>2, PartialSums
<1> HIDE DEF a
<1>4. f = Unfold(f)
  BY <1>1, <1>3 DEF a
<1>5. s = CHOOSE g : g = Unfold(g)
  BY DEF Sums
<1>6. s = Unfold(s)
  <2> HIDE DEF Unfold, s
  <2> QED
    BY <1>4, <1>5, Zenon
<1> HIDE DEF s, Adds
<1>7. s = f
  <2> DEFINE Wrong == {n \in 0 .. Size(l) : s[n] # f[n]}
  <2>1. SUFFICES ASSUME Wrong # {}  PROVE FALSE
    BY <2>1, <1>6
  <2>2. PICK n \in Wrong : \A j \in Wrong : n <= j
    <3>1. Wrong \in SUBSET Nat
      BY <1>1
    <3> HIDE DEF Wrong
    <3> QED
      BY <2>1, <3>1, LeastOf
  <2>3. s[0] = 0 /\ n # 0 /\ n \in 1 .. Size(l)
    BY <2>2, <1>6, <1>3, <1>1
  <2>4. n - 1 \in 0 .. Size(l) /\ s[n - 1] = f[n - 1]
    BY <2>2, <2>3, <1>1
  <2>5. s[n] = s[n - 1] + Adds(n) /\ f[n] = f[n - 1] + Adds(n)
    BY <2>3, <1>6, <1>3 DEF a
  <2> QED
    BY <2>2, <2>4, <2>5
<1> QED
  BY <1>1, <1>3, <1>7 DEF s, a, Adds

-----------------------------------------------------------------------------
(* What the sums come to over the loop that is watched.                    *)

\* What one access directly in the loop is worth to Gain.
LEMMA GainSteps ==
  ASSUME TypeOK
  PROVE  /\ \A n \in 0 .. Size(loop) : Gain(n) \in Int
         /\ Gain(0) = 0
         /\ \A i \in loop[1] .. loop[2] : DirectlyIn(i, loop) =>
              /\ body[i].kind = "acquire" =>
                   Gain(i + 1 - loop[1]) = Gain(i - loop[1]) + body[i].count
              /\ body[i].kind = "release" =>
                   Gain(i + 1 - loop[1]) = Gain(i - loop[1]) - body[i].count
<1> DEFINE Acq == Sums(loop, "acquire")
           Rel == Sums(loop, "release")
           Adds(n, kind) ==
             IF body[loop[1] + n - 1].kind = kind /\ DirectlyIn(loop[1] + n - 1, loop)
             THEN body[loop[1] + n - 1].count ELSE 0
<1>1. loop \in loops /\ loop[1] \in Nat /\ loop[2] \in Nat /\ Size(loop) \in Nat
      /\ 1 <= loop[1] /\ loop[2] <= Len(body) /\ Len(body) \in Nat
      /\ Size(loop) = loop[2] - loop[1] + 1
  BY CoreFacts DEF TypeOK, Size
<1>2. /\ Acq \in [0 .. Size(loop) -> Int] /\ Acq[0] = 0
      /\ \A n \in 1 .. Size(loop) : Acq[n] = Acq[n - 1] + Adds(n, "acquire")
  BY <1>1, SumsOfLoop
<1>3. /\ Rel \in [0 .. Size(loop) -> Int] /\ Rel[0] = 0
      /\ \A n \in 1 .. Size(loop) : Rel[n] = Rel[n - 1] + Adds(n, "release")
  BY <1>1, SumsOfLoop
<1>4. \A n : Gain(n) = Acq[n] - Rel[n]
  BY DEF Gain
<1> HIDE DEF Acq, Rel
<1>5. ASSUME NEW i \in loop[1] .. loop[2], DirectlyIn(i, loop)
      PROVE  /\ body[i].kind = "acquire" =>
                  Gain(i + 1 - loop[1]) = Gain(i - loop[1]) + body[i].count
             /\ body[i].kind = "release" =>
                  Gain(i + 1 - loop[1]) = Gain(i - loop[1]) - body[i].count
  <2> DEFINE n == i + 1 - loop[1]
  <2>1. n \in 1 .. Size(loop) /\ n - 1 = i - loop[1] /\ loop[1] + n - 1 = i
    BY <1>1
  <2> HIDE DEF n
  <2>2. body[i].count \in Nat /\ n - 1 \in 0 .. Size(loop) /\ n \in 0 .. Size(loop)
    BY <1>1, <2>1, CoreFacts
  <2>3. Acq[n - 1] \in Int /\ Rel[n - 1] \in Int
    BY <1>2, <1>3, <2>2
  <2>4. Acq[n] = Acq[n - 1] + (IF body[i].kind = "acquire" THEN body[i].count ELSE 0)
        /\ Rel[n] = Rel[n - 1] + (IF body[i].kind = "release" THEN body[i].count ELSE 0)
    BY <1>2, <1>3, <1>5, <2>1
  <2>5. Gain(n) = Acq[n] - Rel[n] /\ Gain(n - 1) = Acq[n - 1] - Rel[n - 1]
    BY <1>4
  <2> QED
    BY <2>1, <2>2, <2>3, <2>4, <2>5 DEF n
<1>6. \A n \in 0 .. Size(loop) : Gain(n) \in Int
  BY <1>2, <1>3, <1>4
<1>7. Gain(0) = 0
  BY <1>2, <1>3, <1>4
<1> QED
  BY <1>5, <1>6, <1>7

\* A loop that no access is in at a deeper level has no other loop within it.
LEMMA Innermost ==
  ASSUME TypeOK, ~SpansNestedLoop(loop)
  PROVE  /\ \A i \in loop[1] .. loop[2] : DirectlyIn(i, loop)
         /\ \A k \in loops : Within(k, loop) => k = loop
<1>1. \A i \in loop[1] .. loop[2] : DirectlyIn(i, loop)
  BY DEF SpansNestedLoop
<1>2. ASSUME NEW k \in loops, Within(k, loop)  PROVE k = loop
  <2>1. loop \in loops
    BY DEF TypeOK
  <2>2. /\ k \in Nat \X Nat /\ loop \in Nat \X Nat
        /\ k[1] \in Nat /\ k[2] \in Nat /\ loop[1] \in Nat /\ loop[2] \in Nat
        /\ k[1] <= k[2]
    BY <2>1, CoreFacts
  <2>3. k[1] \in loop[1] .. loop[2] /\ In(k[1], k)
    BY <1>2, <2>2 DEF Within, In
  <2>4. Within(loop, k)
    BY <1>1, <2>3 DEF DirectlyIn
  <2>5. k[1] = loop[1] /\ k[2] = loop[2]
    BY <1>2, <2>2, <2>4 DEF Within
  <2>6. k = <<k[1], k[2]>> /\ loop = <<loop[1], loop[2]>>
    BY <2>2
  <2> QED
    BY <2>5, <2>6
<1> QED
  BY <1>1, <1>2

\* Over a whole trip a rejected loop loses, and one within the bound does not.
LEMMA GainOfTrip ==
  ASSUME TypeOK
  PROVE  /\ Gain(Size(loop)) \in Int
         /\ Rejected(loop) => Gain(Size(loop)) <= -1
         /\ WithinBound(loop) => Gain(Size(loop)) >= 0
<1>1. loop \in loops
  BY DEF TypeOK
<1>2. PICK a \in Int : a = Total(loop, "acquire")
  BY <1>1, SumsOfLoop DEF Total
<1>3. PICK r \in Int : r = Total(loop, "release")
  BY <1>1, SumsOfLoop DEF Total
<1>4. Gain(Size(loop)) = a - r
  BY <1>2, <1>3 DEF Gain, Total
<1>5. WithinBound(loop) <=> r <= a
  BY <1>2, <1>3 DEF WithinBound
<1> QED
  BY <1>4, <1>5 DEF Rejected

\* What the scan says of a core is settled before it runs.
LEMMA SameProgram ==
  ASSUME UNCHANGED program
  PROVE  /\ body' = body /\ loops' = loops /\ loop' = loop
         /\ SpansNestedLoop(loop)' = SpansNestedLoop(loop)
         /\ WithinBound(loop)' = WithinBound(loop)
         /\ Rejected(loop)' = Rejected(loop)
         /\ \A n : Gain(n)' = Gain(n)
<1>1. body' = body /\ loops' = loops /\ loop' = loop
  BY DEF program
<1>2. \A i, l : DirectlyIn(i, l)' = DirectlyIn(i, l)
  BY <1>1 DEF DirectlyIn
<1>3. \A l, kind : Sums(l, kind)' = Sums(l, kind)
  BY <1>1 DEF Sums, DirectlyIn
<1>4. SpansNestedLoop(loop)' = SpansNestedLoop(loop)
  BY <1>1, <1>2 DEF SpansNestedLoop
<1>5. WithinBound(loop)' = WithinBound(loop)
  BY <1>1, <1>3 DEF WithinBound, Total
<1>6. \A n : Gain(n)' = Gain(n)
  BY <1>1, <1>3 DEF Gain
<1> QED
  BY <1>1, <1>4, <1>5, <1>6 DEF Rejected

-----------------------------------------------------------------------------
(* LoopInv is inductive.                                                   *)

LEMMA LoopInit == Init => LoopInv
<1> SUFFICES ASSUME Init  PROVE LoopInv
  OBVIOUS
<1>1. TypeOK
  <2>1. Len(body) \in Nat
    <3>1. PICK n \in 1..MaxLength : body \in [1..n -> Accesses]
      BY DEF Init, Bodies
    <3> QED
      BY <3>1, CoreAssumption DEF CoreAssumption
  <2> QED
    BY <2>1 DEF Init, TypeOK
<1> QED
  BY <1>1 DEF Init, LoopInv, ActiveNest, RejectedLoses, FoundIsMissing

\* What an access does to the counter.
LEMMA AccessFacts ==
  ASSUME LoopInv, Access
  PROVE  /\ pos \in 1 .. Len(body) /\ pos' = pos + 1
         /\ UNCHANGED <<program, active, trips, entry>>
         /\ held \in Nat /\ held' \in Int /\ found' \in Nat
         /\ \/ /\ body[pos].kind = "acquire"
               /\ held' = Larger(body[pos].count, held)
               /\ found' = found + IF DirectlyIn(pos, loop)
                                   THEN Smaller(body[pos].count, held) ELSE 0
            \/ /\ body[pos].kind = "release"
               /\ held' = held - body[pos].count
               /\ found' = found
<1>1. pos \in 1 .. Len(body) /\ held \in Nat /\ found \in Nat /\ Len(body) \in Nat
  BY CoreFacts DEF LoopInv, TypeOK, Access, Inside
<1>2. body[pos].count \in Nat
  BY <1>1, CoreFacts DEF LoopInv
<1>3. CASE Acquire
  BY <1>1, <1>2, <1>3 DEF Acquire, Access, Larger, Smaller
<1>4. CASE Release
  BY <1>1, <1>2, <1>4 DEF Release, Access
<1> QED
  BY <1>3, <1>4 DEF Access

\* While an innermost loop is active, control is in it.
LEMMA AccessInLoop ==
  ASSUME LoopInv, Access, ~SpansNestedLoop(loop), loop \in active
  PROVE  /\ pos \in loop[1] .. loop[2] /\ DirectlyIn(pos, loop)
         /\ pos - loop[1] \in 0 .. Size(loop)
         /\ pos' - loop[1] \in 0 .. Size(loop)
         /\ Gained \in Int
         /\ body[pos].kind = "acquire" => Gained' = Gained + body[pos].count
         /\ body[pos].kind = "release" => Gained' = Gained - body[pos].count
<1>1. loop \in loops /\ loop[1] \in Nat /\ loop[2] \in Nat
  BY CoreFacts DEF LoopInv, TypeOK
<1>2. pos \in loop[1] .. loop[2]
  BY <1>1 DEF Access, Inside, LoopInv, ActiveNest, TypeOK
<1>3. DirectlyIn(pos, loop)
  BY <1>2, Innermost DEF LoopInv
<1>4. pos' = pos + 1 /\ UNCHANGED program
  BY AccessFacts
<1>5. Gained = Gain(pos - loop[1]) /\ Gained' = Gain(pos + 1 - loop[1])
  <2>1. Gained' = Gain(pos' - loop[1])
    BY <1>4, SameProgram DEF Gained
  <2>2. pos' - loop[1] = pos + 1 - loop[1]
    BY <1>1, <1>2, <1>4
  <2>3. Gained' = Gain(pos + 1 - loop[1])
    BY <2>1, <2>2, Zenon
  <2> QED
    BY <2>3 DEF Gained
<1>6. pos - loop[1] \in 0 .. Size(loop) /\ pos' - loop[1] \in 0 .. Size(loop)
  BY <1>1, <1>2, <1>4 DEF Size
<1> QED
  BY <1>2, <1>3, <1>5, <1>6, GainSteps DEF LoopInv

\* An access moves the counter in step with Gained, or finds objects held and
\* raises it by less.
LEMMA LoopAccess ==
  ASSUME LoopInv, Access
  PROVE  LoopInv'
<1>1. /\ pos \in 1 .. Len(body) /\ pos' = pos + 1
      /\ UNCHANGED <<program, active, trips, entry>>
      /\ held \in Nat /\ held' \in Int /\ found' \in Nat
  BY AccessFacts
<1>2. body' = body /\ loops' = loops /\ loop' = loop /\ active' = active
      /\ trips' = trips /\ entry' = entry
  BY <1>1 DEF program
<1>3. TypeOK'
  BY <1>1, <1>2, CoreFacts DEF LoopInv, TypeOK
<1>4. ActiveNest'
  <2>1. \A l \in active : l[1] <= pos /\ pos <= l[2] /\ l[1] \in Nat /\ l[2] \in Nat
    BY CoreFacts DEF Access, Inside, LoopInv, ActiveNest, TypeOK
  <2>2. \A l \in active : l[1] <= pos' /\ pos' <= l[2] + 1
    BY <1>1, <2>1
  <2> QED
    BY <1>2, <2>2 DEF LoopInv, ActiveNest
<1>5. /\ SpansNestedLoop(loop)' = SpansNestedLoop(loop)
      /\ WithinBound(loop)' = WithinBound(loop)
      /\ Rejected(loop)' = Rejected(loop)
  BY <1>1, SameProgram
<1>6. body[pos].count \in Nat \ {0} /\ entry \in Nat /\ trips \in Nat /\ found \in Nat
  BY <1>1, CoreFacts DEF LoopInv, TypeOK
<1>7. RejectedLoses'
  <2>1. SUFFICES ASSUME Rejected(loop)
                 PROVE  trips <= entry
                        /\ (loop \in active => held' <= entry - trips + Gained')
    BY <1>2, <1>5 DEF RejectedLoses
  <2>2. trips <= entry /\ (loop \in active => held <= entry - trips + Gained)
    BY <2>1 DEF LoopInv, RejectedLoses
  <2>3. ASSUME loop \in active
        PROVE  held' <= entry - trips + Gained'
    <3>1. /\ Gained \in Int
          /\ body[pos].kind = "acquire" => Gained' = Gained + body[pos].count
          /\ body[pos].kind = "release" => Gained' = Gained - body[pos].count
      BY <2>1, <2>3, AccessInLoop DEF Rejected
    <3>2. CASE body[pos].kind = "acquire"
      <4>1. held' = Larger(body[pos].count, held)
        BY <3>2, AccessFacts
      <4> QED
        BY <1>1, <1>6, <2>2, <2>3, <3>1, <3>2, <4>1 DEF Larger
    <3>3. CASE body[pos].kind = "release"
      <4>1. held' = held - body[pos].count
        BY <3>3, AccessFacts
      <4> QED
        BY <1>1, <1>6, <2>2, <2>3, <3>1, <3>3, <4>1
    <3> QED
      BY <3>2, <3>3, AccessFacts
  <2> QED
    BY <2>2, <2>3
<1>8. FoundIsMissing'
  <2>1. SUFFICES ASSUME ~SpansNestedLoop(loop), WithinBound(loop), loop \in active
                 PROVE  held' + found' >= entry + Gained'
    BY <1>2, <1>5 DEF FoundIsMissing
  <2>2. held + found >= entry + Gained
    BY <2>1 DEF LoopInv, FoundIsMissing
  <2>3. /\ DirectlyIn(pos, loop) /\ Gained \in Int
        /\ body[pos].kind = "acquire" => Gained' = Gained + body[pos].count
        /\ body[pos].kind = "release" => Gained' = Gained - body[pos].count
    BY <2>1, AccessInLoop
  <2>4. CASE body[pos].kind = "acquire"
    <3>1. held' = Larger(body[pos].count, held)
          /\ found' = found + Smaller(body[pos].count, held)
      BY <2>3, <2>4, AccessFacts
    <3> QED
      BY <1>1, <1>6, <2>2, <2>3, <2>4, <3>1 DEF Larger, Smaller
  <2>5. CASE body[pos].kind = "release"
    <3>1. held' = held - body[pos].count /\ found' = found
      BY <2>5, AccessFacts
    <3> QED
      BY <1>1, <1>6, <2>2, <2>3, <2>5, <3>1
  <2> QED
    BY <2>4, <2>5, AccessFacts
<1> QED
  BY <1>3, <1>4, <1>7, <1>8 DEF LoopInv

\* Where a loop is about to be entered or skipped, it is not active, it stands in
\* every loop that is, and so the watched loop is not active if no loop is in it.
LEMMA AtLoopFacts ==
  ASSUME LoopInv, NEW l \in loops, AtLoop(l)
  PROVE  /\ l \notin active /\ held \in Nat
         /\ \A k \in active : Within(l, k)
         /\ \A k \in loops : Within(l, k) => k \in active \cup {l}
         /\ ~SpansNestedLoop(loop) => loop \notin active
<1>1. /\ l[1] \in Nat /\ l[2] \in Nat /\ l[1] <= l[2] /\ pos = l[1]
      /\ active \subseteq loops /\ loop \in loops
  BY CoreFacts DEF LoopInv, TypeOK, AtLoop
<1>2. Within(l, l)
  BY <1>1 DEF Within
<1>3. l \notin active
  BY <1>2 DEF AtLoop
<1>4. \A k \in loops : Within(l, k) => k \in active \cup {l}
  BY DEF AtLoop
<1>5. ASSUME NEW k \in active  PROVE Within(l, k)
  <2>1. k \in loops /\ k[1] \in Nat /\ k[2] \in Nat /\ k[1] <= k[2]
    BY <1>1, CoreFacts DEF LoopInv
  <2>2. k[1] <= pos /\ pos <= k[2]
    BY DEF LoopInv, ActiveNest, AtLoop, Inside
  <2>3. ~Apart(l, k)
    BY <1>1, <2>1, <2>2 DEF Apart
  <2>4. ~Within(k, l)
    BY <1>3 DEF LoopInv, ActiveNest
  <2> QED
    BY <2>1, <2>3, <2>4, CoreFacts DEF LoopInv
<1>6. ~SpansNestedLoop(loop) => loop \notin active
  BY <1>3, <1>5, Innermost DEF LoopInv
<1>7. held \in Nat
  BY DEF LoopInv, TypeOK, AtLoop, Inside
<1> QED
  BY <1>3, <1>4, <1>5, <1>6, <1>7

LEMMA LoopEnter ==
  ASSUME LoopInv, NEW l \in loops, Enter(l)
  PROVE  LoopInv'
<1>1. /\ l \notin active /\ held \in Nat
      /\ \A k \in active : Within(l, k)
      /\ \A k \in loops : Within(l, k) => k \in active \cup {l}
      /\ ~SpansNestedLoop(loop) => loop \notin active
  BY AtLoopFacts DEF Enter
<1>2. /\ UNCHANGED program /\ body' = body /\ loops' = loops /\ loop' = loop
      /\ pos' = pos /\ held' = held /\ active' = active \cup {l} /\ pos = l[1]
      /\ trips' = (IF l = loop THEN 0 ELSE trips)
      /\ entry' = (IF l = loop THEN held ELSE entry)
      /\ found' = (IF l = loop THEN 0 ELSE found)
  BY DEF Enter, AtLoop, program
<1>3. TypeOK'
  BY <1>1, <1>2 DEF LoopInv, TypeOK
<1>4. ActiveNest'
  <2>1. l[1] \in Nat /\ l[2] \in Nat /\ l[1] <= l[2]
    BY CoreFacts DEF LoopInv
  <2>2. Within(l, l) /\ l[1] <= pos /\ pos <= l[2] + 1
    BY <1>2, <2>1 DEF Within
  <2>3. \A k \in active \cup {l} : k[1] <= pos /\ pos <= k[2] + 1
    BY <2>2 DEF LoopInv, ActiveNest
  <2>4. \A k \in active \cup {l}, m \in loops : Within(k, m) => m \in active \cup {l}
    BY <1>1 DEF LoopInv, ActiveNest
  <2>5. \A k, m \in active \cup {l} : Within(k, m) \/ Within(m, k)
    BY <1>1, <2>2 DEF LoopInv, ActiveNest
  <2> QED
    BY <1>2, <2>3, <2>4, <2>5 DEF ActiveNest
<1>5. /\ SpansNestedLoop(loop)' = SpansNestedLoop(loop)
      /\ WithinBound(loop)' = WithinBound(loop)
      /\ Rejected(loop)' = Rejected(loop)
  BY <1>2, SameProgram
<1>6. l = loop => Gained' = 0
  <2>1. ASSUME l = loop  PROVE pos - loop[1] = 0
    BY <1>2, <2>1, CoreFacts DEF LoopInv
  <2>2. Gained' = Gain(pos - loop[1])
    BY <1>2, SameProgram DEF Gained
  <2> QED
    BY <2>1, <2>2, GainSteps DEF LoopInv
<1>7. RejectedLoses'
  <2>1. SUFFICES ASSUME Rejected(loop)
                 PROVE  trips' <= entry'
                        /\ (loop \in active' => held <= entry' - trips' + Gained')
    BY <1>2, <1>5 DEF RejectedLoses
  <2>2. loop \notin active
    BY <1>1, <2>1 DEF Rejected
  <2>3. CASE l = loop
    BY <1>1, <1>2, <1>6, <2>3
  <2>4. CASE l # loop
    BY <1>2, <2>1, <2>2, <2>4 DEF LoopInv, RejectedLoses
  <2> QED
    BY <2>3, <2>4
<1>8. FoundIsMissing'
  <2>1. SUFFICES ASSUME ~SpansNestedLoop(loop), WithinBound(loop), loop \in active'
                 PROVE  held + found' >= entry' + Gained'
    BY <1>2, <1>5 DEF FoundIsMissing
  <2>2. l = loop
    BY <1>1, <1>2, <2>1
  <2> QED
    BY <1>1, <1>2, <1>6, <2>2
<1> QED
  BY <1>3, <1>4, <1>7, <1>8 DEF LoopInv

LEMMA LoopSkip ==
  ASSUME LoopInv, NEW l \in loops, Skip(l)
  PROVE  LoopInv'
<1>1. /\ \A k \in active : Within(l, k)
      /\ ~SpansNestedLoop(loop) => loop \notin active
  BY AtLoopFacts DEF Skip
<1>2. /\ UNCHANGED program /\ body' = body /\ loops' = loops /\ loop' = loop
      /\ pos' = l[2] + 1 /\ pos = l[1]
      /\ UNCHANGED <<active, held, trips, entry, found>>
  BY DEF Skip, AtLoop, program
<1>3. l[1] \in Nat /\ l[2] \in Nat /\ l[1] <= l[2] /\ l[2] <= Len(body)
      /\ Len(body) \in Nat
  BY CoreFacts DEF LoopInv
<1>4. TypeOK'
  BY <1>2, <1>3 DEF LoopInv, TypeOK
<1>5. ActiveNest'
  <2>1. ASSUME NEW k \in active  PROVE k[1] <= pos' /\ pos' <= k[2] + 1
    <3>1. k[1] \in Nat /\ k[2] \in Nat /\ Within(l, k)
      BY <1>1, CoreFacts DEF LoopInv, TypeOK
    <3> QED
      BY <1>2, <1>3, <3>1 DEF Within
  <2> QED
    BY <1>2, <2>1 DEF LoopInv, ActiveNest
<1>6. /\ SpansNestedLoop(loop)' = SpansNestedLoop(loop)
      /\ WithinBound(loop)' = WithinBound(loop)
      /\ Rejected(loop)' = Rejected(loop)
  BY <1>2, SameProgram
<1>7. RejectedLoses' /\ FoundIsMissing'
  BY <1>1, <1>2, <1>6 DEF LoopInv, RejectedLoses, FoundIsMissing, Rejected
<1> QED
  BY <1>4, <1>5, <1>7 DEF LoopInv

\* Where a trip ends, the loops that are active stand around its loop. If that is not
\* the watched loop, and no loop is in that one, it is not active.
LEMMA TripEndFacts ==
  ASSUME LoopInv, NEW l \in loops, TripEnds(l)
  PROVE  /\ \A k \in active : Within(l, k)
         /\ ~SpansNestedLoop(loop) /\ loop \in active => l = loop
         /\ held \in Nat
<1>1. l \in active /\ active \subseteq loops
      /\ \A k \in active : Within(k, l) => k = l
  BY DEF LoopInv, TypeOK, TripEnds
<1>2. \A k \in active : Within(l, k)
  BY <1>1 DEF LoopInv, ActiveNest
<1>3. ~SpansNestedLoop(loop) /\ loop \in active => l = loop
  BY <1>2, Innermost DEF LoopInv
<1> QED
  BY <1>2, <1>3 DEF LoopInv, TypeOK, TripEnds

\* A trip of a rejected loop has lost at least one object.
LEMMA TripOfLoop ==
  ASSUME LoopInv, loop \in active, pos = loop[2] + 1, held \in Nat, Rejected(loop)
  PROVE  trips + 1 <= entry /\ held <= entry - (trips + 1)
<1>1. loop[1] \in Nat /\ loop[2] \in Nat /\ trips \in Nat /\ entry \in Nat
  BY CoreFacts DEF LoopInv, TypeOK
<1>2. Gained = Gain(Size(loop))
  <2>1. pos - loop[1] = Size(loop)
    BY <1>1 DEF Size
  <2> QED
    BY <2>1 DEF Gained
<1>3. held <= entry - trips + Gained
  BY DEF LoopInv, RejectedLoses
<1>4. Gain(Size(loop)) \in Int /\ Gain(Size(loop)) <= -1
  BY GainOfTrip DEF LoopInv
<1> QED
  BY <1>1, <1>2, <1>3, <1>4

LEMMA LoopGoBack ==
  ASSUME LoopInv, NEW l \in loops, GoBack(l)
  PROVE  LoopInv'
<1>1. /\ \A k \in active : Within(l, k)
      /\ ~SpansNestedLoop(loop) /\ loop \in active => l = loop
      /\ held \in Nat
  BY TripEndFacts DEF GoBack
<1>2. /\ UNCHANGED program /\ body' = body /\ loops' = loops /\ loop' = loop
      /\ pos' = l[1] /\ pos = l[2] + 1 /\ l \in active
      /\ trips' = (IF l = loop THEN trips + 1 ELSE trips)
      /\ UNCHANGED <<active, held, entry, found>>
  BY DEF GoBack, TripEnds, program
<1>3. l[1] \in Nat /\ l[2] \in Nat /\ 1 <= l[1] /\ l[1] <= l[2] /\ l[2] <= Len(body)
      /\ Len(body) \in Nat
  BY CoreFacts DEF LoopInv
<1>4. TypeOK'
  BY <1>2, <1>3 DEF LoopInv, TypeOK
<1>5. ActiveNest'
  <2>1. ASSUME NEW k \in active  PROVE k[1] <= pos' /\ pos' <= k[2] + 1
    <3>1. k[1] \in Nat /\ k[2] \in Nat /\ Within(l, k)
      BY <1>1, CoreFacts DEF LoopInv, TypeOK
    <3> QED
      BY <1>2, <1>3, <3>1 DEF Within
  <2> QED
    BY <1>2, <2>1 DEF LoopInv, ActiveNest
<1>6. /\ SpansNestedLoop(loop)' = SpansNestedLoop(loop)
      /\ WithinBound(loop)' = WithinBound(loop)
      /\ Rejected(loop)' = Rejected(loop)
  BY <1>2, SameProgram
<1>7. l = loop => Gained' = 0
  <2>1. ASSUME l = loop  PROVE pos' - loop[1] = 0
    BY <1>2, <1>3, <2>1
  <2>2. Gained' = Gain(pos' - loop[1])
    BY <1>2, SameProgram DEF Gained
  <2> QED
    BY <2>1, <2>2, GainSteps DEF LoopInv
<1>8. RejectedLoses'
  <2>1. SUFFICES ASSUME Rejected(loop)
                 PROVE  trips' <= entry
                        /\ (loop \in active => held <= entry - trips' + Gained')
    BY <1>2, <1>6 DEF RejectedLoses
  <2>2. CASE l = loop
    BY <1>1, <1>2, <1>7, <2>1, <2>2, TripOfLoop DEF LoopInv, TypeOK
  <2>3. CASE l # loop
    BY <1>1, <1>2, <2>1, <2>3 DEF LoopInv, RejectedLoses, Rejected
  <2> QED
    BY <2>2, <2>3
<1>9. FoundIsMissing'
  <2>1. SUFFICES ASSUME ~SpansNestedLoop(loop), WithinBound(loop), loop \in active
                 PROVE  held + found >= entry + Gained'
    BY <1>2, <1>6 DEF FoundIsMissing
  <2>2. l = loop
    BY <1>1, <2>1
  <2>3. Gained \in Int /\ Gained >= 0
    <3>1. pos - loop[1] = Size(loop)
      BY <1>2, <1>3, <2>2 DEF Size
    <3> QED
      BY <2>1, <3>1, GainOfTrip DEF LoopInv, Gained
  <2>4. held + found >= entry + Gained
    BY <2>1 DEF LoopInv, FoundIsMissing
  <2> QED
    BY <1>1, <1>7, <2>2, <2>3, <2>4 DEF LoopInv, TypeOK
<1> QED
  BY <1>4, <1>5, <1>8, <1>9 DEF LoopInv

LEMMA LoopLeave ==
  ASSUME LoopInv, NEW l \in loops, Leave(l)
  PROVE  LoopInv'
<1>1. /\ \A k \in active : Within(k, l) => k = l
      /\ ~SpansNestedLoop(loop) /\ loop \in active => l = loop
      /\ held \in Nat
  BY TripEndFacts DEF Leave, TripEnds
<1>2. /\ UNCHANGED program /\ body' = body /\ loops' = loops /\ loop' = loop
      /\ pos = l[2] + 1 /\ l \in active /\ active' = active \ {l}
      /\ trips' = (IF l = loop THEN trips + 1 ELSE trips)
      /\ UNCHANGED <<pos, held, entry, found>>
  BY DEF Leave, TripEnds, program
<1>3. TypeOK'
  BY <1>2 DEF LoopInv, TypeOK
<1>4. ActiveNest'
  BY <1>1, <1>2 DEF LoopInv, ActiveNest
<1>5. /\ SpansNestedLoop(loop)' = SpansNestedLoop(loop)
      /\ WithinBound(loop)' = WithinBound(loop)
      /\ Rejected(loop)' = Rejected(loop)
  BY <1>2, SameProgram
<1>6. RejectedLoses'
  <2>1. SUFFICES ASSUME Rejected(loop)  PROVE trips' <= entry /\ loop \notin active'
    BY <1>2, <1>5 DEF RejectedLoses
  <2>2. CASE l = loop
    BY <1>1, <1>2, <2>1, <2>2, TripOfLoop
  <2>3. CASE l # loop
    BY <1>1, <1>2, <2>1, <2>3 DEF LoopInv, RejectedLoses, Rejected
  <2> QED
    BY <2>2, <2>3
<1>7. FoundIsMissing'
  BY <1>1, <1>2, <1>5 DEF LoopInv, FoundIsMissing
<1> QED
  BY <1>3, <1>4, <1>6, <1>7 DEF LoopInv

\* Whatever the core, its loops and the loop that is watched, LoopInv is kept.
THEOREM LoopInvariance == Spec => []LoopInv
<1>1. LoopInv /\ [Next]_vars => LoopInv'
  <2> SUFFICES ASSUME LoopInv, [Next]_vars  PROVE LoopInv'
    OBVIOUS
  <2>1. CASE UNCHANGED vars
    <3>1. /\ UNCHANGED program /\ body' = body /\ loops' = loops /\ loop' = loop
          /\ UNCHANGED <<pos, active, held, trips, entry, found>>
      BY <2>1 DEF vars, program
    <3>2. Gained' = Gained
      BY <3>1, SameProgram DEF Gained
    <3>3. TypeOK' /\ ActiveNest'
      BY <3>1 DEF LoopInv, TypeOK, ActiveNest
    <3>4. RejectedLoses' /\ FoundIsMissing'
      BY <3>1, <3>2, SameProgram DEF LoopInv, RejectedLoses, FoundIsMissing
    <3> QED
      BY <3>3, <3>4 DEF LoopInv
  <2>2. CASE Access
    BY <2>2, LoopAccess
  <2>3. CASE \E l \in loops : Enter(l) \/ Skip(l) \/ GoBack(l) \/ Leave(l)
    BY <2>3, LoopEnter, LoopSkip, LoopGoBack, LoopLeave
  <2> QED
    BY <2>1, <2>2, <2>3 DEF Next, Ended
<1> QED
  BY <1>1, LoopInit, PTL DEF Spec

-----------------------------------------------------------------------------
(* What the scan promises.                                                 *)

\* A loop that verifyOverRelease rejects, the outermost or a nested one, is no false
\* alarm: it does not complete more trips than objects were held as it was entered.
THEOREM RejectedBodiesUnderflow == Spec => []RejectedUnderflows
<1>1. LoopInv => RejectedUnderflows
  BY DEF LoopInv, RejectedLoses, RejectedUnderflows
<1> QED
  BY <1>1, LoopInvariance, PTL

\* In a core it accepts, a trip of a loop without a loop in it loses no more than what
\* its acquires found held.
THEOREM AcceptedBodiesStayWhole == Spec => []AcceptedStaysWhole
<1>1. LoopInv => AcceptedStaysWhole
  <2> SUFFICES ASSUME LoopInv, Accepted, ~SpansNestedLoop(loop), loop \in active,
                      pos = loop[2] + 1
               PROVE  held + found >= entry
    BY DEF AcceptedStaysWhole
  <2>1. WithinBound(loop)
    BY DEF LoopInv, TypeOK, Accepted, Rejected
  <2>2. loop[1] \in Nat /\ loop[2] \in Nat
    BY CoreFacts DEF LoopInv, TypeOK
  <2>3. Gained \in Int /\ Gained >= 0
    <3>1. pos - loop[1] = Size(loop)
      BY <2>2 DEF Size
    <3> QED
      BY <2>1, <3>1, GainOfTrip DEF LoopInv, Gained
  <2>4. held + found >= entry + Gained
    BY <2>1 DEF LoopInv, FoundIsMissing
  <2> QED
    BY <2>3, <2>4 DEF LoopInv, TypeOK
<1> QED
  BY <1>1, LoopInvariance, PTL
=============================================================================
