----------------------- MODULE AieccScheduler_proofs -----------------------
(***************************************************************************)
(* Safety of the execution engine of aiecc for every finite graph, every   *)
(* choice of outputs, restored edges and failing tasks, and every number   *)
(* of threads: the engine implements the data flow (IndInv), leaves no     *)
(* work behind (Progress), ends only when the build is over and complete   *)
(* (Truthful), and reads nothing that was taken (OneReader).               *)
(***************************************************************************)
EXTENDS AieccScheduler, FiniteSetTheorems, WellFoundedInduction, TLAPS

-----------------------------------------------------------------------------
(* What the graph guarantees.                                              *)

LEMMA ReachableFinite == Reachable \subseteq Edges /\ IsFiniteSet(Reachable)
<1>1. Reachable \subseteq Edges
  BY DEF Reachable
<1> QED
  BY <1>1, GraphShape, FS_Subset DEF GraphShape

LEMMA TaskEdge ==
  ASSUME NEW t \in BuildTasks
  PROVE  /\ t[1] \in Reachable \ Satisfied /\ t \in TasksOf(t[1])
         /\ t[1] \in Edges /\ t # NoTask
<1>1. PICK u \in Reachable \ Satisfied : t \in TasksOf(u)
  BY DEF BuildTasks
<1>2. t[1] = u
  BY <1>1 DEF TasksOf
<1>3. u \in Edges /\ u # None
  BY <1>1, ReachableFinite, GraphShape DEF GraphShape
<1> QED
  BY <1>1, <1>2, <1>3 DEF NoTask

-----------------------------------------------------------------------------
(* The recursive definitions over the graph. Each is the least relation    *)
(* closed under its own equation, which shows that the equation has a      *)
(* solution.                                                               *)

LEMMA LeastOf ==
  ASSUME NEW S \in SUBSET Nat, S # {}
  PROVE  \E x \in S : \A y \in S : x <= y
<1> DEFINE R == OpToRel(<, Nat)
<1>1. IsWellFoundedOn(R, Nat)
  BY NatLessThanWellFounded, Zenon
<1>2. R = {ss \in Nat \X Nat : ss[1] < ss[2]}
  BY Zenon DEF OpToRel
<1> HIDE DEF R
<1>3. PICK x \in S : \A y \in S : <<y, x>> \notin R
  BY <1>1, WFMin, Zenon
<1>4. ASSUME NEW y \in S, y < x  PROVE FALSE
  <2>1. <<y, x>> \in Nat \X Nat /\ <<y, x>>[1] < <<y, x>>[2]
    BY <1>4
  <2>2. <<y, x>> \in R
    BY <1>2, <2>1, Zenon
  <2> QED
    BY <1>3, <2>2
<1> QED
  BY <1>4

LEMMA FeedsBefore ==
  ASSUME NEW u \in Edges
  PROVE  \A n \in Feeds(u) : n \in Edges /\ n < u
<1>1. Inputs[u] \in Seq({v \in Edges : v < u})
  BY GraphShape DEF GraphShape
<1>2. \A i \in DOMAIN Inputs[u] : Inputs[u][i] \in {v \in Edges : v < u}
  BY <1>1
<1> QED
  BY <1>2 DEF Feeds

\* The least set of edges closed under the walk from the roots is a solution
\* of the equation that defines Reached.
LEMMA ReachedUnfolds ==
  \A u \in Edges : Reached[u] <=>
     \/ u \in Outputs \cup BuildAlso
     \/ \E v \in Edges \ Satisfied : u \in Feeds(v) /\ Reached[v]
<1> DEFINE Eq(g) == g = [u \in Edges |->
                          \/ u \in Outputs \cup BuildAlso
                          \/ \E v \in Edges \ Satisfied : u \in Feeds(v) /\ g[v]]
<1> DEFINE Entered(u, X) == \/ u \in Outputs \cup BuildAlso
                            \/ \E v \in Edges \ Satisfied : u \in Feeds(v) /\ v \in X
<1> DEFINE Closed(X) == \A u \in Edges : Entered(u, X) => u \in X
<1> DEFINE R == {u \in Edges : \A X \in SUBSET Edges : Closed(X) => u \in X}
<1>1. \A u \in Edges : Entered(u, R) => u \in R
  OBVIOUS
<1>2. ASSUME NEW u \in R PROVE Entered(u, R)
  <2> SUFFICES ASSUME ~Entered(u, R) PROVE FALSE
    OBVIOUS
  <2> DEFINE X == R \ {u}
  <2>1. \A w \in Edges : Entered(w, X) => Entered(w, R)
    OBVIOUS
  <2> HIDE DEF Entered
  <2>2. \A w \in Edges : Entered(w, X) => w \in R /\ w # u
    BY <1>1, <2>1
  <2>3. Closed(X) /\ X \in SUBSET Edges
    BY <2>2
  <2>4. u \in X
    BY <2>3
  <2> QED
    BY <2>4
<1>3. \A u \in Edges : (u \in R) <=> Entered(u, R)
  BY <1>1, <1>2
<1> HIDE DEF R
<1> DEFINE f == [u \in Edges |-> u \in R]
<1>4. \A u \in Edges : (\E v \in Edges \ Satisfied : u \in Feeds(v) /\ f[v])
                         <=> \E v \in Edges \ Satisfied : u \in Feeds(v) /\ v \in R
  BY Zenon
<1>5. Eq(f)
  <2>1. \A u \in Edges : (u \in R) = (\/ u \in Outputs \cup BuildAlso
             \/ \E v \in Edges \ Satisfied : u \in Feeds(v) /\ f[v])
    <3> SUFFICES ASSUME NEW u \in Edges
                 PROVE  (u \in R) = (\/ u \in Outputs \cup BuildAlso
             \/ \E v \in Edges \ Satisfied : u \in Feeds(v) /\ f[v])
      OBVIOUS
    <3>1. u \in R <=> Entered(u, R)
      BY <1>3
    <3>2. (\E v \in Edges \ Satisfied : u \in Feeds(v) /\ f[v])
            <=> \E v \in Edges \ Satisfied : u \in Feeds(v) /\ v \in R
      BY <1>4
    <3> HIDE DEF f
    <3> QED
      BY <3>1, <3>2
  <2> QED
    BY <2>1, Zenon
<1> HIDE DEF f
<1>6. Eq(Reached)
  <2>1. Reached = CHOOSE g : Eq(g)
    BY Zenon DEF Reached
  <2> HIDE DEF Eq
  <2> QED
    BY <1>5, <2>1, Zenon
<1> QED
  BY <1>6, Zenon

LEMMA InputsReachable ==
  ASSUME NEW u \in Reachable \ Satisfied
  PROVE  /\ \A n \in Feeds(u) : n \in Reachable /\ n < u
         /\ u \in Edges
BY ReachedUnfolds, FeedsBefore DEF Reachable

LEMMA KeyMakersUnfold ==
  \A u \in Edges : KeyMakers[u] =
     IF u \in Satisfied THEN {}
     ELSE IF u \in Fan THEN UNION {KeyMakers[n] : n \in Feeds(u)}
     ELSE {<<u, Whole>>}
<1> DEFINE Eq(g) == g = [u \in Edges |->
                          IF u \in Satisfied THEN {}
                          ELSE IF u \in Fan THEN UNION {g[n] : n \in Feeds(u)}
                          ELSE {<<u, Whole>>}]
<1> DEFINE T == {<<u, Whole>> : u \in Edges}
<1> DEFINE Entered(u, t, X) ==
      /\ u \notin Satisfied
      /\ IF u \in Fan THEN \E n \in Feeds(u) : <<n, t>> \in X ELSE t = <<u, Whole>>
<1> DEFINE Closed(X) == \A u \in Edges, t \in T : Entered(u, t, X) => <<u, t>> \in X
<1> DEFINE K == {r \in Edges \X T : \A X \in SUBSET (Edges \X T) : Closed(X) => r \in X}
<1>1. ASSUME NEW u \in Edges, NEW t \in T, Entered(u, t, K)
      PROVE  <<u, t>> \in K
  <2>1. \A X \in SUBSET (Edges \X T) : Closed(X) => <<u, t>> \in X
    <3> SUFFICES ASSUME NEW X \in SUBSET (Edges \X T), Closed(X)
                 PROVE  Entered(u, t, X)
      OBVIOUS
    <3> QED
      BY <1>1
  <2> QED
    BY <2>1
<1>2. ASSUME NEW u \in Edges, NEW t \in T, <<u, t>> \in K
      PROVE  Entered(u, t, K)
  <2> SUFFICES ASSUME ~Entered(u, t, K) PROVE FALSE
    OBVIOUS
  <2> DEFINE X == K \ {<<u, t>>}
  <2>1. \A v \in Edges, s \in T : Entered(v, s, X) => Entered(v, s, K)
    OBVIOUS
  <2>2. ASSUME NEW v \in Edges, NEW s \in T, Entered(v, s, X)
        PROVE  <<v, s>> \in X
    <3>1. <<v, s>> \in K /\ Entered(v, s, K)
      BY <1>1, <2>1, <2>2
    <3> HIDE DEF Entered, K
    <3>2. ~(v = u /\ s = t)
      BY <3>1
    <3> QED
      BY <3>1, <3>2
  <2>3. X \in SUBSET (Edges \X T) /\ Closed(X)
    <3>1. X \in SUBSET (Edges \X T)
      OBVIOUS
    <3> HIDE DEF Entered, K, X
    <3> QED
      BY <2>2, <3>1
  <2>4. <<u, t>> \in X
    <3> HIDE DEF X, Closed
    <3> QED
      BY <1>2, <2>3
  <2> QED
    BY <2>4
<1> HIDE DEF K
<1> DEFINE f == [u \in Edges |-> {t \in T : <<u, t>> \in K}]
<1>3. Eq(f)
  <2>1. ASSUME NEW u \in Edges
        PROVE  f[u] = IF u \in Satisfied THEN {}
                      ELSE IF u \in Fan THEN UNION {f[n] : n \in Feeds(u)}
                      ELSE {<<u, Whole>>}
    <3>1. \A t \in T : t \in f[u] <=> Entered(u, t, K)
      BY <1>1, <1>2
    <3>2. f[u] \subseteq T /\ \A n \in Feeds(u) : n \in Edges
      BY FeedsBefore
    <3>3. \A n \in Feeds(u) : \A t : t \in f[n] <=> t \in T /\ <<n, t>> \in K
      BY <3>2
    <3>4. <<u, Whole>> \in T
      OBVIOUS
    <3> HIDE DEF f, T
    <3>5. CASE u \in Satisfied
      BY <3>1, <3>2, <3>5
    <3>6. CASE u \in Fan \ Satisfied
      BY <3>1, <3>2, <3>3, <3>6
    <3>7. CASE u \notin Fan \cup Satisfied
      BY <3>1, <3>2, <3>4, <3>7
    <3> QED
      BY <3>5, <3>6, <3>7
  <2> DEFINE E(u) == IF u \in Satisfied THEN {}
                     ELSE IF u \in Fan THEN UNION {f[n] : n \in Feeds(u)}
                     ELSE {<<u, Whole>>}
  <2>2. f = [u \in Edges |-> E(u)]
    <3>1. \A u \in Edges : {t \in T : <<u, t>> \in K} = E(u)
      BY <2>1
    <3> HIDE DEF E
    <3> QED
      BY <3>1
  <2> QED
    BY <2>2
<1> HIDE DEF f
<1>4. Eq(KeyMakers)
  <2>1. KeyMakers = CHOOSE g : Eq(g)
    BY Zenon DEF KeyMakers
  <2> HIDE DEF Eq
  <2> QED
    BY <1>3, <2>1, Zenon
<1> QED
  BY <1>4, Zenon

LastInput(n) == Inputs[n][Len(Inputs[n])]

LEMMA LastInputIs ==
  ASSUME NEW n \in Alias
  PROVE  n \in Edges /\ Len(Inputs[n]) \in DOMAIN Inputs[n]
         /\ LastInput(n) \in Feeds(n) /\ LastInput(n) \in Edges /\ LastInput(n) < n
<1>1. n \in Edges /\ Len(Inputs[n]) > 0 /\ Inputs[n] \in Seq({v \in Edges : v < n})
  BY GraphShape DEF GraphShape
<1>2. Len(Inputs[n]) \in DOMAIN Inputs[n]
  BY <1>1
<1>3. LastInput(n) \in Feeds(n)
  BY <1>2 DEF Feeds, LastInput
<1> QED
  BY <1>1, <1>2, <1>3, FeedsBefore

LEMMA PayloadUnfolds ==
  \A n \in Edges : PayloadOf[n] =
     IF n \in Alias \ Satisfied THEN PayloadOf[LastInput(n)] ELSE n
<1> DEFINE Eq(g) == g = [n \in Edges |->
       IF n \in Alias \ Satisfied THEN g[Inputs[n][Len(Inputs[n])]] ELSE n]
<1> DEFINE Entered(n, p, X) ==
      IF n \in Alias \ Satisfied THEN <<LastInput(n), p>> \in X ELSE p = n
<1> DEFINE Closed(X) == \A n, p \in Edges : Entered(n, p, X) => <<n, p>> \in X
<1> DEFINE K == {r \in Edges \X Edges : \A X \in SUBSET (Edges \X Edges) : Closed(X) => r \in X}
<1>1. ASSUME NEW n \in Edges, NEW p \in Edges, Entered(n, p, K)
      PROVE  <<n, p>> \in K
  <2>1. \A X \in SUBSET (Edges \X Edges) : Closed(X) => <<n, p>> \in X
    <3> SUFFICES ASSUME NEW X \in SUBSET (Edges \X Edges), Closed(X)
                 PROVE  Entered(n, p, X)
      OBVIOUS
    <3> QED
      BY <1>1
  <2> QED
    BY <2>1
<1>2. ASSUME NEW n \in Edges, NEW p \in Edges, <<n, p>> \in K
      PROVE  Entered(n, p, K)
  <2> SUFFICES ASSUME ~Entered(n, p, K) PROVE FALSE
    OBVIOUS
  <2> DEFINE X == K \ {<<n, p>>}
  <2>1. \A m, q \in Edges : Entered(m, q, X) => Entered(m, q, K)
    OBVIOUS
  <2>2. ASSUME NEW m \in Edges, NEW q \in Edges, Entered(m, q, X)
        PROVE  <<m, q>> \in X
    <3>1. <<m, q>> \in K /\ Entered(m, q, K)
      BY <1>1, <2>1, <2>2
    <3> HIDE DEF Entered, K
    <3>2. ~(m = n /\ q = p)
      BY <3>1
    <3> QED
      BY <3>1, <3>2
  <2>3. X \in SUBSET (Edges \X Edges) /\ Closed(X)
    <3>1. X \in SUBSET (Edges \X Edges)
      OBVIOUS
    <3> HIDE DEF Entered, K, X
    <3> QED
      BY <2>2, <3>1
  <2>4. <<n, p>> \in X
    <3> HIDE DEF X, Closed
    <3> QED
      BY <1>2, <2>3
  <2> QED
    BY <2>4
<1> HIDE DEF K
<1> DEFINE Img(n) == {p \in Edges : <<n, p>> \in K}
<1> DEFINE f == [n \in Edges |-> CHOOSE p : p \in Img(n)]
<1>3. ASSUME NEW n \in Alias \ Satisfied PROVE Img(n) = Img(LastInput(n))
  BY <1>1, <1>2, <1>3, LastInputIs
<1>4. ASSUME NEW n \in Edges, n \notin Alias \ Satisfied PROVE Img(n) = {n}
  <2>1. \A p \in Edges : Entered(n, p, K) <=> p = n
    BY <1>4
  <2> HIDE DEF Entered
  <2>2. \A p \in Edges : <<n, p>> \in K <=> p = n
    BY <1>1, <1>2, <2>1
  <2> QED
    BY <2>2
<1>5. ASSUME NEW n \in Edges
      PROVE  f[n] = IF n \in Alias \ Satisfied
                    THEN f[Inputs[n][Len(Inputs[n])]] ELSE n
  <2> HIDE DEF Img
  <2>1. CASE n \in Alias \ Satisfied
    <3>1. LastInput(n) \in Edges /\ Img(n) = Img(LastInput(n))
      BY <1>3, <2>1, LastInputIs
    <3>2. f[n] = f[LastInput(n)]
      BY <3>1
    <3> QED
      BY <2>1, <3>2 DEF LastInput
  <2>2. CASE n \notin Alias \ Satisfied
    <3>1. f[n] = CHOOSE p : p \in {n}
      BY <1>4, <2>2
    <3> QED
      BY <2>2, <3>1
  <2> QED
    BY <2>1, <2>2
<1>6. Eq(f)
  <2> DEFINE E(n) == IF n \in Alias \ Satisfied
                     THEN f[Inputs[n][Len(Inputs[n])]] ELSE n
  <2>1. \A n \in Edges : (CHOOSE p : p \in Img(n)) = E(n)
    BY <1>5
  <2>2. f = [n \in Edges |-> E(n)]
    <3> HIDE DEF E, Img
    <3> QED
      BY <2>1
  <2> QED
    BY <2>2
<1> HIDE DEF f
<1>7. Eq(PayloadOf)
  <2>1. PayloadOf = CHOOSE g : Eq(g)
    BY Zenon DEF PayloadOf
  <2> HIDE DEF Eq
  <2> QED
    BY <1>6, <2>1, Zenon
<1> QED
  BY <1>7, Zenon DEF LastInput

-----------------------------------------------------------------------------
(* Which threads run what, before and after a step.                        *)

\* No thread starts or ends a task.
Quiet == /\ Running' = Running /\ work' = work
         /\ inFlight' = inFlight /\ exclusiveBusy' = exclusiveBusy

Starts(w, t) ==
  /\ ~Over /\ t \in Dispatchable
  /\ w \notin Running /\ Running' = Running \cup {w}
  /\ work' = [work EXCEPT ![w] = t]
  /\ inFlight' = inFlight + 1
  /\ exclusiveBusy' = (exclusiveBusy \/ IsExclusive(t))

Ends(w) ==
  /\ w \in Running /\ Running' = Running \ {w}
  /\ ReturnSlot(w)

LEMMA PickStarts ==
  ASSUME TypeOK, NEW w \in Workers, Pick(w)
  PROVE  \E t \in Dispatchable : Starts(w, t) /\ ready' = ready \ {t}
BY DEF TypeOK, Pick, Starts, Running, AtLoopHead

LEMMA TaskEnds ==
  ASSUME TypeOK, NEW w \in Workers, FailTask(w) \/ Succeed(w)
  PROVE  Ends(w)
<1>1. pc[w] = "running" /\ ReturnSlot(w)
  BY DEF FailTask, Succeed, Returns
<1>2. \/ pc' = [NotifyAll(pc) EXCEPT ![w] = "awake"]
      \/ pc' = [NotifyAll(pc) EXCEPT ![w] = "exited"]
  BY DEF FailTask, Succeed
<1>3. ASSUME NEW x \in Workers PROVE pc'[x] = "running" <=> x # w /\ pc[x] = "running"
  BY <1>2 DEF NotifyAll
<1> QED
  BY <1>1, <1>3 DEF Ends, Running

LEMMA StepKinds ==
  ASSUME TypeOK, [Next]_vars
  PROVE  \/ Quiet
         \/ \E w \in Workers : Pick(w)
         \/ \E w \in Workers : FailTask(w) \/ Succeed(w)
<1>1. CASE Main \/ Ended \/ UNCHANGED vars
  BY <1>1 DEF Main, Ended, Preload, PreloadFails, Join, vars, Quiet, Running
<1>2. ASSUME NEW w \in Workers, Leave(w) \/ Rest(w) \/ SpuriousWake(w)
      PROVE  Quiet
  <2>1. UNCHANGED <<work, inFlight, exclusiveBusy>>
    BY <1>2 DEF Leave, Rest, SpuriousWake
  <2>2. ASSUME NEW x \in Workers PROVE pc'[x] = "running" <=> pc[x] = "running"
    BY <1>2 DEF Leave, Rest, SpuriousWake, NotifyAll, AtLoopHead, TypeOK
  <2> QED
    BY <2>1, <2>2 DEF Quiet, Running
<1> QED
  BY <1>1, <1>2 DEF Next, Worker

-----------------------------------------------------------------------------
(* The exclusive slot and the number of tasks in flight.                   *)

InFlightCounted == inFlight = Cardinality(Running)

LEMMA RunningFinite == IsFiniteSet(Running)
BY GraphShape, FS_Subset DEF GraphShape, Running

LEMMA ExclusiveNext ==
  ASSUME TypeOK, ExclusiveAlone, [Next]_vars
  PROVE  ExclusiveAlone'
<1>1. CASE Quiet
  BY <1>1 DEF Quiet, ExclusiveAlone, IsExclusive
<1>2. ASSUME NEW w \in Workers, NEW t \in Dispatchable, Starts(w, t)
      PROVE  ExclusiveAlone'
  <2>1. work'[w] = t /\ \A x \in Running : x # w /\ work'[x] = work[x]
    BY <1>2 DEF Starts, TypeOK, Running
  <2>2. IsExclusive(t) => ~exclusiveBusy
    BY DEF Dispatchable
  <2>3. ASSUME IsExclusive(t), NEW x \in Running PROVE ~IsExclusive(work[x])
    BY <2>2, <2>3 DEF ExclusiveAlone
  <2>4. Running' = Running \cup {w} /\ exclusiveBusy' = (exclusiveBusy \/ IsExclusive(t))
    BY <1>2 DEF Starts
  <2>5. \A x, y \in Running' :
          IsExclusive(work'[x]) /\ IsExclusive(work'[y]) => x = y
    BY <2>1, <2>3, <2>4 DEF ExclusiveAlone
  <2>6. exclusiveBusy' <=> \E x \in Running' : IsExclusive(work'[x])
    BY <2>1, <2>4 DEF ExclusiveAlone
  <2> QED
    BY <2>5, <2>6 DEF ExclusiveAlone, IsExclusive
<1>3. ASSUME NEW w \in Workers, Ends(w)
      PROVE  ExclusiveAlone'
  <2>1. \A x \in Running' : x \in Running /\ x # w /\ work'[x] = work[x]
    BY <1>3 DEF Ends, ReturnSlot, TypeOK, Running
  <2>2. w \in Running /\ Running' = Running \ {w}
        /\ exclusiveBusy' = (exclusiveBusy /\ ~IsExclusive(work[w]))
    BY <1>3 DEF Ends, ReturnSlot
  <2>3. \A x, y \in Running' :
          IsExclusive(work'[x]) /\ IsExclusive(work'[y]) => x = y
    BY <2>1 DEF ExclusiveAlone
  <2>4. exclusiveBusy' <=> \E x \in Running' : IsExclusive(work'[x])
    BY <2>1, <2>2 DEF ExclusiveAlone
  <2> QED
    BY <2>3, <2>4 DEF ExclusiveAlone, IsExclusive
<1> QED
  BY <1>1, <1>2, <1>3, StepKinds, PickStarts, TaskEnds

LEMMA InFlightNext ==
  ASSUME TypeOK, InFlightCounted, [Next]_vars
  PROVE  InFlightCounted' /\ inFlight' \in 0..Cardinality(Workers)
<1>1. CASE Quiet
  BY <1>1 DEF Quiet, InFlightCounted, TypeOK
<1>2. ASSUME NEW w \in Workers, NEW t \in Dispatchable, Starts(w, t)
      PROVE  InFlightCounted'
  BY <1>2, RunningFinite, FS_AddElement DEF Starts, InFlightCounted
<1>3. ASSUME NEW w \in Workers, Ends(w)
      PROVE  InFlightCounted'
  BY <1>3, RunningFinite, FS_RemoveElement DEF Ends, ReturnSlot, InFlightCounted
<1>4. InFlightCounted'
  BY <1>1, <1>2, <1>3, StepKinds, PickStarts, TaskEnds
<1>5. Running' \subseteq Workers
  BY DEF Running
<1>6. Cardinality(Workers) \in Nat /\ Cardinality(Running') \in Nat
      /\ Cardinality(Running') <= Cardinality(Workers)
  BY <1>5, GraphShape, FS_Subset, FS_CardinalityType DEF GraphShape
<1> QED
  BY <1>4, <1>6 DEF InFlightCounted

-----------------------------------------------------------------------------
(* rescan.                                                                 *)

LEMMA RescanOpens ==
  ASSUME NEW open, NEW fin, NEW done, Rescan(open, fin, done),
         open \subseteq Reachable, fin \subseteq Reachable
  PROVE  /\ opened' \subseteq Reachable /\ open \subseteq opened'
         /\ finished' \subseteq Reachable /\ fin \subseteq finished'
         /\ \A u \in finished' \ fin : u \in Fan /\ KeysOf[u] = {}
<1>1. opened' \subseteq Reachable /\ open \subseteq opened'
  BY DEF Rescan
<1>2. \A u \in opened' \ open : u \in Fan
  BY DEF Rescan, Openable
<1> QED
  BY <1>1, <1>2 DEF Rescan

LEMMA RescanCounts ==
  ASSUME NEW open, NEW fin, NEW done, Rescan(open, fin, done),
         finished \subseteq fin, fin \subseteq Reachable, open \subseteq Reachable,
         finishedEdges = Cardinality(finished)
  PROVE  finishedEdges' = Cardinality(finished') /\ finishedEdges' \in Nat
<1>1. finished' \subseteq Reachable /\ finished \subseteq finished'
  BY RescanOpens
<1>2. IsFiniteSet(finished') /\ IsFiniteSet(finished) /\ IsFiniteSet(finished' \ finished)
  BY <1>1, ReachableFinite, FS_Subset
<1>3. finished \cup (finished' \ finished) = finished'
      /\ finished \cap (finished' \ finished) = {}
  BY <1>1
<1>4. Cardinality(finished') =
        Cardinality(finished) + Cardinality(finished' \ finished) - Cardinality({})
  BY <1>2, <1>3, FS_Union
<1>5. finishedEdges' = finishedEdges + Cardinality(finished' \ finished)
  BY DEF Rescan
<1> QED
  BY <1>2, <1>4, <1>5, FS_EmptySet, FS_CardinalityType

LEMMA RescanEnqueues ==
  ASSUME NEW open, NEW fin, NEW done, Rescan(open, fin, done)
  PROVE  /\ \A t \in enqueued' \ enqueued :
              t \in Runnable(opened', finished', done)
         /\ enqueued \subseteq enqueued' /\ ready \subseteq ready'
         /\ ready' \ ready \subseteq enqueued' \ enqueued
         /\ ready' \subseteq ready \cup enqueued'
BY DEF Rescan, Runnable

-----------------------------------------------------------------------------
(* What a task that succeeds leaves behind.                                *)

IsLast(u) == u \in Fan => itemsDone[u] + 1 = Cardinality(KeysOf[u])
NowFinished(u) == IF IsLast(u) THEN finished \cup {u} ELSE finished
NowOpen(u) == IF u \in Fan THEN opened ELSE opened \cup {u}
NowDone(t) == completed \cup {t}

LEMMA SucceedEffect ==
  ASSUME NEW w \in Workers, Succeed(w)
  PROVE  LET t == work[w]
             u == t[1]
         IN /\ completed' = NowDone(t)
            /\ itemsDone' = [itemsDone EXCEPT ![u] = IF u \in Fan THEN @ + 1 ELSE @]
            /\ main = "pool" /\ main' = main
            /\ stalled' = stalled /\ failedEdge' = failedEdge
            /\ \/ /\ failed' /\ opened' = NowOpen(u) /\ finished' = NowFinished(u)
                  /\ finishedEdges' = finishedEdges + (IF IsLast(u) THEN 1 ELSE 0)
                  /\ UNCHANGED <<ready, enqueued>>
               \/ Rescan(NowOpen(u), NowFinished(u), NowDone(t))
            /\ failed => failed'
            /\ pc' = [NotifyAll(pc) EXCEPT ![w] =
                        IF finishedEdges' >= NumEdges THEN "exited" ELSE "awake"]
            /\ holder' = IF finishedEdges' >= NumEdges THEN None ELSE w
BY DEF Succeed, Returns, IsLast, NowFinished, NowOpen, NowDone

LEMMA RunningTask ==
  ASSUME TypeOK, OnePlace, NEW w \in Running
  PROVE  /\ work[w] \in BuildTasks /\ work[w] \notin completed
         /\ work[w][1] \in Reachable \ Satisfied /\ work[w][1] \in Edges
         /\ work[w] \in TasksOf(work[w][1])
<1>1. work[w] \in BuildTasks /\ work[w] \notin completed
  BY DEF OnePlace, TypeOK
<1> QED
  BY <1>1, TaskEdge

LEMMA NotFinishedYet ==
  ASSUME TypeOK, OnePlace, ResultsInPlace, NEW w \in Running
  PROVE  work[w][1] \notin finished
BY RunningTask DEF ResultsInPlace

LEMMA TasksCounted ==
  ASSUME NEW u \in Fan
  PROVE  IsFiniteSet(TasksOf(u)) /\ Cardinality(TasksOf(u)) = Cardinality(KeysOf[u])
<1>1. IsFiniteSet(KeysOf[u])
  BY KeysFinite, GraphShape DEF GraphShape
<1> DEFINE f == [k \in KeysOf[u] |-> <<u, k>>]
<1>2. f \in Bijection(KeysOf[u], TasksOf(u))
  <2>1. TasksOf(u) = {<<u, k>> : k \in KeysOf[u]}
    BY DEF TasksOf
  <2>2. f \in [KeysOf[u] -> TasksOf(u)]
    BY <2>1
  <2>3. \A j, k \in KeysOf[u] : f[j] = f[k] => j = k
    BY SMT
  <2>4. \A t \in TasksOf(u) : \E k \in KeysOf[u] : f[k] = t
    BY <2>1
  <2> QED
    BY <2>2, <2>3, <2>4 DEF Bijection, Injection, Surjection, IsInjective
<1>3. ExistsBijection(KeysOf[u], TasksOf(u))
  BY <1>2 DEF ExistsBijection
<1> QED
  BY <1>1, <1>3, FS_Bijection

DoneOf(u) == {t \in completed : t[1] = u}
ItemsCounted == \A u \in Fan \cap Reachable : itemsDone[u] = Cardinality(DoneOf(u))

LEMMA DoneOfFinite ==
  ASSUME TypeOK, ResultsInPlace, NEW u
  PROVE  /\ IsFiniteSet(DoneOf(u)) /\ DoneOf(u) \subseteq TasksOf(u)
         /\ Cardinality(DoneOf(u)) \in Nat
<1>1. DoneOf(u) \subseteq completed
  BY DEF DoneOf
<1>2. IsFiniteSet(DoneOf(u))
  BY <1>1, FS_Subset DEF ResultsInPlace
<1>3. DoneOf(u) \subseteq TasksOf(u)
  BY TaskEdge DEF DoneOf, TypeOK
<1> QED
  BY <1>2, <1>3, FS_CardinalityType

\* When the last item of an edge is counted, every item is there.
LEMMA LastCompletes ==
  ASSUME TypeOK, OnePlace, ResultsInPlace, ItemsCounted, NEW w \in Running,
         IsLast(work[w][1])
  PROVE  TasksOf(work[w][1]) \subseteq NowDone(work[w])
<1> DEFINE t == work[w]
<1> DEFINE u == t[1]
<1> DEFINE D == DoneOf(u) \cup {t}
<1>1. t \notin DoneOf(u) /\ t \in TasksOf(u) /\ u \in Reachable
  BY RunningTask DEF DoneOf
<1>2. CASE u \notin Fan
  BY <1>1, <1>2 DEF TasksOf, NowDone
<1>3. CASE u \in Fan
  <2>1. D \subseteq TasksOf(u)
    BY <1>1, DoneOfFinite
  <2>2. Cardinality(D) = Cardinality(DoneOf(u)) + 1
    BY <1>1, DoneOfFinite, FS_AddElement
  <2>3. Cardinality(D) = Cardinality(TasksOf(u))
    BY <1>1, <1>3, <2>2, TasksCounted DEF IsLast, ItemsCounted
  <2>4. D = TasksOf(u)
    BY <1>3, <2>1, <2>3, TasksCounted, FS_Subset
  <2> QED
    BY <2>4 DEF DoneOf, NowDone
<1> QED
  BY <1>2, <1>3

LEMMA RunnableNeeds ==
  ASSUME NEW open, NEW fin, NEW done,
         \A u \in fin \ Satisfied : TasksOf(u) \subseteq done,
         NEW t \in Runnable(open, fin, done)
  PROVE  NeedsOf(t) \subseteq done
<1>1. CASE t[1] \notin Fan
  <2>1. Feeds(t[1]) \subseteq fin
    BY <1>1 DEF Runnable
  <2> QED
    BY <1>1, <2>1 DEF NeedsOf
<1>2. CASE t[1] \in Fan
  <2>1. SUFFICES ASSUME NEW n \in Feeds(t[1]) \ Satisfied
                 PROVE  (IF n \in Fan THEN {<<n, t[2]>>} \cap TasksOf(n)
                         ELSE TasksOf(n)) \subseteq done
    BY <1>2 DEF NeedsOf
  <2>2. ItemDone(n, t[2], open, fin, done)
    BY <1>2, <2>1 DEF Runnable
  <2>3. CASE n \in fin
    BY <2>1, <2>3
  <2>4. CASE n \in Fan /\ (t[2] \in KeysOf[n] => <<n, t[2]>> \in done)
    BY <2>4 DEF TasksOf
  <2> QED
    BY <2>2, <2>3, <2>4 DEF ItemDone
<1> QED
  BY <1>1, <1>2

LEMMA FinishedComplete ==
  ASSUME TypeOK, OnePlace, ResultsInPlace, ItemsCounted, NEW w \in Running
  PROVE  \A u \in NowFinished(work[w][1]) \ Satisfied :
            TasksOf(u) \subseteq NowDone(work[w])
BY LastCompletes DEF NowFinished, NowDone, ResultsInPlace

-----------------------------------------------------------------------------
(* Each part of the invariant is preserved.                                *)

\* The parts of the invariant but for the sleeping threads.
State == /\ TypeOK /\ OnePlace /\ ResultsInPlace /\ ItemsCounted /\ Phases
         /\ finishedEdges = Cardinality(finished)

LEMMA SucceedTypes ==
  ASSUME State, NEW w \in Running
  PROVE  LET t == work[w]
             u == t[1]
         IN /\ NowDone(t) \subseteq BuildTasks /\ completed \subseteq NowDone(t)
            /\ NowOpen(u) \subseteq Reachable
            /\ NowFinished(u) \subseteq Reachable /\ finished \subseteq NowFinished(u)
            /\ u \in Edges
BY RunningTask DEF State, TypeOK, NowDone, NowOpen, NowFinished

LEMMA RescanTyped ==
  ASSUME TypeOK, NEW open, NEW fin, NEW done, Rescan(open, fin, done)
  PROVE  ready' \subseteq BuildTasks /\ enqueued' \subseteq BuildTasks
BY DEF Rescan, Runnable, TypeOK

LEMMA PreloadRescans ==
  ASSUME State, Preload
  PROVE  /\ Rescan(Restored, Restored, {})
         /\ enqueued = {} /\ finished = {} /\ opened = {} /\ ready = {}
         /\ completed = {} /\ Running = {} /\ ~failed /\ finishedEdges = 0
         /\ UNCHANGED <<completed, itemsDone, pc, work, failed>>
         /\ Restored \subseteq Reachable /\ Restored \subseteq Edges
         /\ IsFiniteSet(Restored)
<1>1. Restored \subseteq Reachable /\ Restored \subseteq Edges /\ IsFiniteSet(Restored)
  BY ReachableFinite, FS_Subset DEF Restored
<1>2. main = "preload" /\ Rescan(Restored, Restored, {})
      /\ UNCHANGED <<completed, itemsDone, pc, work, failed>>
  BY DEF Preload
<1> QED
  BY <1>1, <1>2, FS_EmptySet DEF State, Phases, OnePlace

LEMMA CountersNext ==
  ASSUME State, [Next]_vars
  PROVE  /\ ItemsCounted'
         /\ finishedEdges' = Cardinality(finished') /\ finishedEdges' \in Nat
<1> USE DEF State
<1>1. ASSUME NEW w \in Workers, Succeed(w)
      PROVE  ItemsCounted' /\ finishedEdges' = Cardinality(finished') /\ finishedEdges' \in Nat
  <2> DEFINE t == work[w]
  <2> DEFINE u == t[1]
  <2>1. w \in Running
    BY <1>1, TaskEnds DEF Ends
  <2>2. /\ completed' = NowDone(t)
        /\ itemsDone' = [itemsDone EXCEPT ![u] = IF u \in Fan THEN @ + 1 ELSE @]
    BY <1>1, SucceedEffect
  <2>3. t \notin completed /\ u \in Reachable /\ u \in Edges
    BY <2>1, RunningTask
  <2>4. ItemsCounted'
    <3>1. SUFFICES ASSUME NEW v \in Fan \cap Reachable
                   PROVE  itemsDone'[v] = Cardinality(DoneOf(v)')
      BY DEF ItemsCounted
    <3>2. CASE v = u
      <4>1. DoneOf(v)' = DoneOf(v) \cup {t} /\ t \notin DoneOf(v)
        BY <2>2, <2>3, <3>2 DEF DoneOf, NowDone
      <4>2. Cardinality(DoneOf(v) \cup {t}) = Cardinality(DoneOf(v)) + 1
        BY <4>1, DoneOfFinite, FS_AddElement
      <4>3. itemsDone'[v] = itemsDone[v] + 1
        BY <2>2, <2>3, <3>1, <3>2 DEF TypeOK
      <4> QED
        BY <3>1, <4>1, <4>2, <4>3 DEF ItemsCounted
    <3>3. CASE v # u
      <4>1. DoneOf(v)' = DoneOf(v)
        BY <2>2, <3>3 DEF DoneOf, NowDone
      <4>2. itemsDone'[v] = itemsDone[v]
        BY <2>2, <2>3, <3>1, <3>3, ReachableFinite DEF TypeOK
      <4> QED
        BY <3>1, <4>1, <4>2 DEF ItemsCounted
    <3> QED
      BY <3>2, <3>3
  <2>5. finishedEdges' = Cardinality(finished') /\ finishedEdges' \in Nat
    <3>1. IsFiniteSet(finished) /\ Cardinality(finished) \in Nat
      BY ReachableFinite, FS_Subset, FS_CardinalityType DEF TypeOK
    <3>2. u \notin finished
      BY <2>1, NotFinishedYet
    <3>3. Cardinality(NowFinished(u)) = finishedEdges + (IF IsLast(u) THEN 1 ELSE 0)
      <4>1. Cardinality(finished \cup {u}) = Cardinality(finished) + 1
        BY <3>1, <3>2, FS_AddElement
      <4> QED
        BY <3>1, <4>1 DEF NowFinished
    <3>4. CASE /\ finished' = NowFinished(u)
               /\ finishedEdges' = finishedEdges + (IF IsLast(u) THEN 1 ELSE 0)
      BY <3>1, <3>3, <3>4
    <3>5. CASE Rescan(NowOpen(u), NowFinished(u), NowDone(t))
      BY <2>1, <3>5, SucceedTypes, RescanCounts
    <3> QED
      BY <1>1, <3>4, <3>5, SucceedEffect
  <2> QED
    BY <2>4, <2>5
<1>2. CASE Preload
  <2>1. ItemsCounted'
    BY <1>2, PreloadRescans DEF ItemsCounted, DoneOf
  <2> QED
    BY <1>2, <2>1, PreloadRescans, RescanCounts
<1>3. ASSUME NEW u \in Restored, NEW loads \in BOOLEAN, PreloadFails(u, loads)
      PROVE  ItemsCounted' /\ finishedEdges' = Cardinality(finished') /\ finishedEdges' \in Nat
  <2>1. finished' \subseteq Reachable /\ UNCHANGED <<completed, itemsDone>>
        /\ finishedEdges' = Cardinality(finished')
    BY <1>3 DEF PreloadFails, Restored
  <2> QED
    BY <2>1, ReachableFinite, FS_Subset, FS_CardinalityType DEF ItemsCounted, DoneOf
<1>4. CASE UNCHANGED <<completed, itemsDone, finished, finishedEdges>>
  BY <1>4 DEF ItemsCounted, DoneOf, TypeOK
<1>5. \/ UNCHANGED <<completed, itemsDone, finished, finishedEdges>>
      \/ Preload \/ (\E u \in Restored, loads \in BOOLEAN : PreloadFails(u, loads))
      \/ \E w \in Workers : Succeed(w)
  BY DEF Next, Main, Worker, Ended, Join, Leave, Pick, Rest, SpuriousWake,
         FailTask, graph, vars
<1> QED
  BY <1>1, <1>2, <1>3, <1>4, <1>5

\* Where a step moves tasks at all, it starts one, ends one or enqueues some.
LEMMA OtherSteps ==
  ASSUME TypeOK, [Next]_vars
  PROVE  \/ Quiet /\ UNCHANGED <<ready, enqueued, completed>>
         \/ Preload
         \/ \E w \in Workers : Pick(w) \/ FailTask(w) \/ Succeed(w)
<1>1. CASE Ended \/ Join \/ UNCHANGED vars
           \/ \E u \in Restored, loads \in BOOLEAN : PreloadFails(u, loads)
  BY <1>1 DEF Ended, PreloadFails, Join, vars, graph, Quiet, Running
<1>2. ASSUME NEW w \in Workers, Leave(w) \/ Rest(w) \/ SpuriousWake(w)
      PROVE  Quiet /\ UNCHANGED <<ready, enqueued, completed>>
  <2>1. UNCHANGED <<work, inFlight, exclusiveBusy, ready, enqueued, completed>>
    BY <1>2 DEF Leave, Rest, SpuriousWake, graph
  <2>2. ASSUME NEW x \in Workers PROVE pc'[x] = "running" <=> pc[x] = "running"
    BY <1>2 DEF Leave, Rest, SpuriousWake, NotifyAll, AtLoopHead, TypeOK
  <2> QED
    BY <2>1, <2>2 DEF Quiet, Running
<1> QED
  BY <1>1, <1>2 DEF Next, Worker, Main

LEMMA OnePlaceNext ==
  ASSUME State, [Next]_vars
  PROVE  OnePlace'
<1> USE DEF State
<1>1. CASE Quiet /\ UNCHANGED <<ready, enqueued, completed>>
  BY <1>1 DEF Quiet, OnePlace
<1>2. CASE Preload
  <2>1. Running' = {}
    BY <1>2, PreloadRescans DEF Running
  <2>2. completed' = {} /\ ready' \subseteq enqueued'
    BY <1>2, PreloadRescans, RescanEnqueues
  <2> QED
    BY <2>1, <2>2 DEF OnePlace
<1>3. ASSUME NEW w \in Workers, Pick(w)
      PROVE  OnePlace'
  <2>1. PICK t \in Dispatchable : Starts(w, t) /\ ready' = ready \ {t}
    BY <1>3, PickStarts
  <2>2. UNCHANGED <<enqueued, completed>>
    BY <1>3 DEF Pick
  <2>3. work'[w] = t /\ \A x \in Running : x # w /\ work'[x] = work[x]
    BY <2>1 DEF Starts, TypeOK, Running
  <2>4. Running' = Running \cup {w} /\ t \in ready
    BY <2>1 DEF Starts, Dispatchable
  <2>5. \A x \in Running' : work'[x] \in enqueued /\ work'[x] \notin ready' \cup completed
    BY <2>1, <2>3, <2>4 DEF OnePlace
  <2>6. \A x, y \in Running' : work'[x] = work'[y] => x = y
    BY <2>3, <2>4 DEF OnePlace
  <2> QED
    BY <2>1, <2>2, <2>5, <2>6 DEF OnePlace
<1>4. ASSUME NEW w \in Workers, FailTask(w)
      PROVE  OnePlace'
  <2>1. UNCHANGED <<ready, enqueued, completed>>
    BY <1>4 DEF FailTask, graph
  <2>2. \A x \in Running' : x \in Running /\ work'[x] = work[x]
    BY <1>4, TaskEnds DEF Ends, ReturnSlot, TypeOK, Running
  <2> QED
    BY <2>1, <2>2 DEF OnePlace
<1>5. ASSUME NEW w \in Workers, Succeed(w)
      PROVE  OnePlace'
  <2> DEFINE t == work[w]
  <2>1. w \in Running /\ Running' = Running \ {w}
    BY <1>5, TaskEnds DEF Ends
  <2>2. \A x \in Running' : x \in Running /\ x # w /\ work'[x] = work[x]
    BY <1>5, TaskEnds DEF Ends, ReturnSlot, TypeOK, Running
  <2>3. completed' = completed \cup {t}
    BY <1>5, SucceedEffect DEF NowDone
  <2>4. t \in enqueued /\ t \notin ready
    BY <2>1 DEF OnePlace
  <2>5. /\ enqueued \subseteq enqueued' /\ ready' \subseteq enqueued'
        /\ (ready' \ ready) \cap enqueued = {}
    <3>1. CASE UNCHANGED <<ready, enqueued>>
      BY <3>1 DEF OnePlace
    <3>2. CASE Rescan(NowOpen(t[1]), NowFinished(t[1]), NowDone(t))
      BY <3>2, RescanEnqueues DEF OnePlace
    <3> QED
      BY <1>5, <3>1, <3>2, SucceedEffect
  <2>6. ready' \cap completed' = {}
    BY <2>3, <2>4, <2>5 DEF OnePlace
  <2>7. \A x \in Running' : work'[x] \in enqueued' /\ work'[x] \notin ready' \cup completed'
    BY <2>1, <2>2, <2>3, <2>5 DEF OnePlace
  <2> QED
    BY <2>2, <2>3, <2>4, <2>5, <2>6, <2>7 DEF OnePlace
<1> QED
  BY <1>1, <1>2, <1>3, <1>4, <1>5, OtherSteps

LEMMA ResultsNext ==
  ASSUME State, [Next]_vars
  PROVE  ResultsInPlace'
<1> USE DEF State
<1>1. ASSUME NEW w \in Workers, Succeed(w)
      PROVE  ResultsInPlace'
  <2> DEFINE t == work[w]
  <2> DEFINE u == t[1]
  <2>1. w \in Running
    BY <1>1, TaskEnds DEF Ends
  <2>2. completed' = NowDone(t) /\ completed \subseteq completed'
    BY <1>1, SucceedEffect DEF NowDone
  <2>3. \A v \in NowFinished(u) \ Satisfied : TasksOf(v) \subseteq completed'
    BY <2>1, <2>2, FinishedComplete
  <2>4. IsFiniteSet(completed')
    BY <2>2, FS_AddElement DEF NowDone, ResultsInPlace
  <2>5. CASE finished' = NowFinished(u) /\ enqueued' = enqueued
    BY <2>2, <2>3, <2>4, <2>5 DEF ResultsInPlace
  <2>6. CASE Rescan(NowOpen(u), NowFinished(u), NowDone(t))
    <3>1. \A v \in finished' \ Satisfied : TasksOf(v) \subseteq completed'
      <4>1. \A v \in finished' \ NowFinished(u) : TasksOf(v) = {}
        BY <2>1, <2>6, SucceedTypes, RescanOpens DEF TasksOf
      <4> QED
        BY <2>3, <4>1
    <3>2. \A r \in enqueued' \ enqueued : NeedsOf(r) \subseteq completed'
      BY <2>2, <2>6, <3>1, RescanEnqueues, RunnableNeeds
    <3> QED
      BY <2>2, <2>4, <3>1, <3>2 DEF ResultsInPlace
  <2> QED
    BY <1>1, <2>5, <2>6, SucceedEffect
<1>2. CASE Preload
  <2>1. finished' \subseteq Reachable
        /\ \A v \in finished' \ Satisfied : TasksOf(v) \subseteq {}
    <3>1. \A v \in finished' \ Restored : TasksOf(v) = {}
      BY <1>2, PreloadRescans, RescanOpens DEF TasksOf
    <3> QED
      BY <1>2, <3>1, PreloadRescans, RescanOpens DEF Restored
  <2>2. \A r \in enqueued' : NeedsOf(r) \subseteq {}
    BY <1>2, <2>1, PreloadRescans, RescanEnqueues, RunnableNeeds
  <2> QED
    BY <1>2, <2>1, <2>2, PreloadRescans, FS_EmptySet DEF ResultsInPlace
<1>3. ASSUME NEW u \in Restored, NEW loads \in BOOLEAN, PreloadFails(u, loads)
      PROVE  ResultsInPlace'
  <2>1. finished' \subseteq Satisfied /\ UNCHANGED <<completed, enqueued>>
    BY <1>3 DEF PreloadFails, Restored
  <2> QED
    BY <2>1 DEF ResultsInPlace
<1>4. CASE UNCHANGED <<completed, enqueued, finished>>
  BY <1>4 DEF ResultsInPlace
<1>5. \/ UNCHANGED <<completed, enqueued, finished>>
      \/ Preload \/ (\E u \in Restored, loads \in BOOLEAN : PreloadFails(u, loads))
      \/ \E w \in Workers : Succeed(w)
  BY DEF Next, Main, Worker, Ended, Join, Leave, Pick, Rest, SpuriousWake,
         FailTask, graph, vars
<1> QED
  BY <1>1, <1>2, <1>3, <1>4, <1>5

LEMMA WakeNext ==
  ASSUME State, NoLostWakeup, [Next]_vars
  PROVE  NoLostWakeup'
<1> USE DEF State
<1>1. CASE Preload \/ \E u \in Restored, loads \in BOOLEAN : PreloadFails(u, loads)
  <2>1. pc' = [w \in Workers |-> "awake"]
    BY <1>1 DEF Preload, PreloadFails, Phases
  <2> QED
    BY <2>1 DEF NoLostWakeup
<1>2. CASE Join \/ Ended \/ UNCHANGED vars
  BY <1>2 DEF Join, Ended, vars, graph, NoLostWakeup, Over, Dispatchable
<1>3. ASSUME NEW w \in Workers, Leave(w) \/ FailTask(w) \/ Succeed(w)
      PROVE  NoLostWakeup'
  <2>1. \E v \in {"exited", "awake"} : pc' = [NotifyAll(pc) EXCEPT ![w] = v]
    BY <1>3, SucceedEffect DEF Leave, FailTask
  <2>2. \A x \in Workers : pc'[x] # "waiting"
    BY <2>1 DEF NotifyAll
  <2> QED
    BY <2>2 DEF NoLostWakeup
<1>4. ASSUME NEW w \in Workers, Pick(w)
      PROVE  NoLostWakeup'
  <2>1. \A x \in Workers : pc[x] # "waiting"
    BY <1>4 DEF Pick, NoLostWakeup
  <2>2. \A x \in Workers : pc'[x] # "waiting"
    BY <1>4, <2>1 DEF Pick, TypeOK
  <2> QED
    BY <2>2 DEF NoLostWakeup
<1>5. ASSUME NEW w \in Workers, Rest(w)
      PROVE  NoLostWakeup'
  <2>1. CASE ready = {} /\ inFlight = 0
    <3>1. pc' = [NotifyAll(pc) EXCEPT ![w] = "exited"]
      BY <1>5, <2>1 DEF Rest
    <3>2. \A x \in Workers : pc'[x] # "waiting"
      BY <3>1 DEF NotifyAll
    <3> QED
      BY <3>2 DEF NoLostWakeup
  <2>2. CASE ~(ready = {} /\ inFlight = 0)
    <3>1. ~failed' /\ UNCHANGED <<finishedEdges, ready, exclusiveBusy>>
          /\ ~Over /\ Dispatchable = {}
      BY <1>5, <2>2 DEF Rest, graph
    <3> QED
      BY <3>1 DEF NoLostWakeup, Over, Dispatchable
  <2> QED
    BY <2>1, <2>2
<1>6. ASSUME NEW w \in Workers, SpuriousWake(w)
      PROVE  NoLostWakeup'
  <2>1. \A x \in Workers : pc'[x] = "waiting" => pc[x] = "waiting"
    BY <1>6 DEF SpuriousWake, TypeOK
  <2>2. UNCHANGED <<failed, finishedEdges, ready, exclusiveBusy>>
    BY <1>6 DEF SpuriousWake, graph
  <2> QED
    BY <2>1, <2>2 DEF NoLostWakeup, Over, Dispatchable
<1> QED
  BY <1>1, <1>2, <1>3, <1>4, <1>5, <1>6 DEF Next, Main, Worker

LEMMA PhasesNext ==
  ASSUME State, [Next]_vars
  PROVE  Phases'
<1> USE DEF State
<1>1. CASE Preload
  BY <1>1, PreloadRescans DEF Preload, Phases
<1>2. ASSUME NEW u \in Restored, NEW loads \in BOOLEAN, PreloadFails(u, loads)
      PROVE  Phases'
  <2>1. main = "preload" /\ main' = "done" /\ pc' = pc
    BY <1>2 DEF PreloadFails
  <2> QED
    BY <2>1 DEF Phases, Running
<1>3. CASE Join
  <2>1. main' = "done" /\ \A w \in Workers : pc'[w] = "exited"
    BY <1>3 DEF Join
  <2> QED
    BY <2>1 DEF Phases, Running
<1>4. CASE Ended \/ UNCHANGED vars
  BY <1>4 DEF Ended, vars, graph, Phases, Running
<1>5. ASSUME NEW w \in Workers, Worker(w)
      PROVE  Phases'
  <2>1. main = "pool" /\ main' = main
    BY <1>5, SucceedEffect DEF Worker, Leave, Pick, Rest, FailTask, Returns, AtLoopHead
  <2> QED
    BY <2>1 DEF Phases
<1>6. ASSUME NEW w \in Workers, SpuriousWake(w)
      PROVE  Phases'
  <2>1. main' = main /\ main # "preload"
    BY <1>6 DEF SpuriousWake, Phases
  <2>2. \A x \in Workers : pc'[x] = "running" => pc[x] = "running"
    BY <1>6 DEF SpuriousWake, TypeOK
  <2> QED
    BY <2>1, <2>2 DEF Phases, Running
<1> QED
  BY <1>1, <1>2, <1>3, <1>4, <1>5, <1>6 DEF Next, Main

\* TypeOK, but for the bound on the tasks in flight.
LEMMA TypeNext ==
  ASSUME State, InFlightCounted, [Next]_vars
  PROVE  TypeOK'
<1> USE DEF State
<1>1. inFlight' \in 0..Cardinality(Workers)
  BY InFlightNext
<1>2. finishedEdges' \in Nat
  BY CountersNext
<1>3. CASE Preload
  <2>1. opened' \subseteq Reachable /\ finished' \subseteq Reachable
    BY <1>3, PreloadRescans, RescanOpens
  <2>2. ready' \subseteq BuildTasks /\ enqueued' \subseteq BuildTasks
    BY <1>3, PreloadRescans, RescanTyped
  <2> QED
    BY <1>1, <1>2, <1>3, <2>1, <2>2 DEF Preload, TypeOK
<1>4. ASSUME NEW u \in Restored, NEW loads \in BOOLEAN, PreloadFails(u, loads)
      PROVE  TypeOK'
  <2>1. u \in Edges /\ opened' \subseteq Reachable /\ finished' \subseteq Reachable
    BY <1>4, ReachableFinite DEF PreloadFails, Restored
  <2> QED
    BY <1>1, <1>2, <1>4, <2>1 DEF PreloadFails, TypeOK
<1>5. CASE Join
  BY <1>5 DEF Join, graph, TypeOK
<1>6. ASSUME NEW w \in Workers, Leave(w) \/ Rest(w) \/ SpuriousWake(w)
      PROVE  TypeOK'
  <2>1. NotifyAll(pc) \in [Workers -> {"awake", "waiting", "running", "exited"}]
    BY DEF NotifyAll, TypeOK
  <2>2. pc' \in [Workers -> {"awake", "waiting", "running", "exited"}]
    BY <1>6, <2>1 DEF Leave, Rest, SpuriousWake, TypeOK
  <2>3. failed' \in BOOLEAN /\ stalled' \in BOOLEAN /\ holder' \in Workers \cup {None}
    BY <1>6 DEF Leave, Rest, SpuriousWake, TypeOK
  <2>4. UNCHANGED <<main, work, graph, inFlight, exclusiveBusy, failedEdge>>
    BY <1>6 DEF Leave, Rest, SpuriousWake
  <2> QED
    BY <1>1, <2>2, <2>3, <2>4 DEF TypeOK, graph
<1>7. ASSUME NEW w \in Workers, Pick(w)
      PROVE  TypeOK'
  <2>1. PICK t \in Dispatchable : Starts(w, t) /\ ready' = ready \ {t}
    BY <1>7, PickStarts
  <2>2. t \in BuildTasks /\ ready' \subseteq BuildTasks
    BY <2>1 DEF Dispatchable, TypeOK
  <2>3. work' \in [Workers -> BuildTasks \cup {NoTask}]
    BY <2>1, <2>2 DEF Starts, TypeOK
  <2>4. exclusiveBusy' \in BOOLEAN
    BY <1>7 DEF Pick, TypeOK
  <2>5. pc' \in [Workers -> {"awake", "waiting", "running", "exited"}] /\ holder' = None
    BY <1>7 DEF Pick, TypeOK
  <2> QED
    BY <1>1, <1>7, <2>2, <2>3, <2>4, <2>5 DEF Pick, TypeOK
<1>8. ASSUME NEW w \in Workers, FailTask(w)
      PROVE  TypeOK'
  <2>1. w \in Running
    BY <1>8, TaskEnds DEF Ends
  <2>2. pc' \in [Workers -> {"awake", "waiting", "running", "exited"}]
    BY <1>8 DEF FailTask, NotifyAll, TypeOK
  <2>3. failedEdge' \in Edges \cup {None}
    BY <1>8, <2>1, RunningTask DEF FailTask, FirstFailure, TypeOK
  <2>4. work' \in [Workers -> BuildTasks \cup {NoTask}] /\ exclusiveBusy' \in BOOLEAN
    BY <1>8 DEF FailTask, Returns, ReturnSlot, TypeOK
  <2> QED
    BY <1>1, <1>8, <2>2, <2>3, <2>4 DEF FailTask, graph, TypeOK
<1>9. ASSUME NEW w \in Workers, Succeed(w)
      PROVE  TypeOK'
  <2> DEFINE t == work[w]
  <2> DEFINE u == t[1]
  <2>1. w \in Running
    BY <1>9, TaskEnds DEF Ends
  <2>2. pc' \in [Workers -> {"awake", "waiting", "running", "exited"}]
        /\ holder' \in Workers \cup {None}
    <3>1. NotifyAll(pc) \in [Workers -> {"awake", "waiting", "running", "exited"}]
      BY DEF NotifyAll, TypeOK
    <3> QED
      BY <1>9, <3>1, SucceedEffect
  <2>3. work' \in [Workers -> BuildTasks \cup {NoTask}] /\ exclusiveBusy' \in BOOLEAN
    BY <1>9 DEF Succeed, Returns, ReturnSlot, TypeOK
  <2>4. completed' \subseteq BuildTasks
    BY <1>9, <2>1, SucceedEffect, SucceedTypes
  <2>5. itemsDone' \in [Edges -> Nat]
    BY <1>9, SucceedEffect DEF TypeOK
  <2>6. /\ opened' \subseteq Reachable /\ finished' \subseteq Reachable
        /\ ready' \subseteq BuildTasks /\ enqueued' \subseteq BuildTasks
    <3>1. CASE /\ opened' = NowOpen(u) /\ finished' = NowFinished(u)
               /\ UNCHANGED <<ready, enqueued>>
      BY <2>1, <3>1, SucceedTypes DEF TypeOK
    <3>2. CASE Rescan(NowOpen(u), NowFinished(u), NowDone(t))
      BY <2>1, <3>2, SucceedTypes, RescanOpens, RescanTyped
    <3> QED
      BY <1>9, <3>1, <3>2, SucceedEffect
  <2>7. failed' \in BOOLEAN /\ UNCHANGED <<main, stalled, failedEdge>>
    BY <1>9 DEF Succeed, TypeOK
  <2> QED
    BY <1>1, <1>2, <2>2, <2>3, <2>4, <2>5, <2>6, <2>7 DEF TypeOK
<1>10. CASE Ended \/ UNCHANGED vars
  BY <1>10 DEF Ended, vars, graph, TypeOK
<1> QED
  BY <1>3, <1>4, <1>5, <1>6, <1>7, <1>8, <1>9, <1>10 DEF Next, Main, Worker

-----------------------------------------------------------------------------
(* The theorems.                                                           *)

LEMMA IndInvState ==
  ASSUME IndInv
  PROVE  State /\ InFlightCounted
BY DEF IndInv, State, CountersAgree, ItemsCounted, DoneOf, InFlightCounted

LEMMA SchedInit == Init => IndInv
<1> SUFFICES ASSUME Init PROVE IndInv
  OBVIOUS
<1>1. Running = {} /\ Cardinality({}) = 0 /\ IsFiniteSet({})
  BY FS_EmptySet DEF Init, Running
<1>2. Cardinality(Workers) \in Nat
  BY GraphShape, FS_CardinalityType DEF GraphShape
<1>3. TypeOK
  <2>1. pc \in [Workers -> {"awake", "waiting", "running", "exited"}]
        /\ work \in [Workers -> BuildTasks \cup {NoTask}]
        /\ itemsDone \in [Edges -> Nat]
    BY DEF Init
  <2>2. inFlight \in 0..Cardinality(Workers)
    BY <1>2 DEF Init
  <2> QED
    BY <2>1, <2>2 DEF Init, TypeOK
<1>4. ExclusiveAlone /\ NoLostWakeup /\ OnePlace /\ Phases
  BY <1>1 DEF Init, ExclusiveAlone, NoLostWakeup, OnePlace, Phases
<1>5. CountersAgree
  <2>1. \A u \in Fan \cap Reachable : itemsDone[u] = 0
    BY ReachableFinite DEF Init
  <2>2. \A u : {t \in completed : t[1] = u} = {}
    BY DEF Init
  <2> QED
    BY <1>1, <2>1, <2>2 DEF Init, CountersAgree
<1>6. ResultsInPlace
  BY <1>1 DEF Init, ResultsInPlace
<1> QED
  BY <1>3, <1>4, <1>5, <1>6 DEF IndInv

LEMMA IndInvNext == IndInv /\ [Next]_vars => IndInv'
<1> SUFFICES ASSUME IndInv, [Next]_vars PROVE IndInv'
  OBVIOUS
<1>1. State /\ InFlightCounted
  BY IndInvState
<1>2. TypeOK /\ ExclusiveAlone /\ NoLostWakeup
  BY DEF IndInv
<1>3. TypeOK' /\ ExclusiveAlone' /\ NoLostWakeup' /\ OnePlace'
      /\ ResultsInPlace' /\ Phases'
  BY <1>1, <1>2, TypeNext, ExclusiveNext, WakeNext, OnePlaceNext, ResultsNext,
     PhasesNext
<1>4. CountersAgree'
  BY <1>1, <1>2, InFlightNext, CountersNext
     DEF CountersAgree, InFlightCounted, ItemsCounted, DoneOf
<1> QED
  BY <1>3, <1>4 DEF IndInv

\* The counters, the exclusive slot, the sleeping threads and the places of
\* the tasks agree with each other in every reachable state of the engine
\* (IndInv: Scheduler's members, ExecutionEngine.h).
THEOREM Invariance == Spec => []IndInv
BY SchedInit, IndInvNext, PTL DEF Spec

\* Type correctness of the engine's state (Scheduler's members): only edges
\* that execute are queued, run or completed.
THEOREM TypeCorrect == Spec => []TypeOK
<1>1. IndInv => TypeOK
  BY DEF IndInv
<1> QED
  BY <1>1, Invariance, PTL

\* Two tasks that touch the shared MLIR context never run at once: pickTask
\* hands out an exclusive task only while exclusiveBusy is clear, and the
\* flag is set exactly while one runs.
THEOREM ExclusiveTasksAlone == Spec => []ExclusiveAlone
<1>1. IndInv => ExclusiveAlone
  BY DEF IndInv
<1> QED
  BY <1>1, Invariance, PTL

\* No thread sleeps in cv.wait while a task it may run is queued, or while
\* the build is over.
THEOREM WakeupsNotLost == Spec => []NoLostWakeup
<1>1. IndInv => NoLostWakeup
  BY DEF IndInv
<1> QED
  BY <1>1, Invariance, PTL

\* After a failure no task starts and the first failed edge stays the one
\* the diagnostic names (worker's catch path and the head of its loop).
THEOREM FailureStopsBuild == Spec => FailureStops
<1> DEFINE Stops == failed => /\ \A w \in Workers : pc'[w] = "running" => pc[w] = "running"
                              /\ failedEdge' = failedEdge
<1>1. ASSUME IndInv, [Next]_vars PROVE [Stops]_vars
  <2> SUFFICES ASSUME failed PROVE Stops
    OBVIOUS
  <2>1. main # "preload" /\ Over
    BY <1>1 DEF IndInv, Phases, Over
  <2>2. CASE Join \/ Ended \/ UNCHANGED vars
    BY <2>2 DEF Join, Ended, vars
  <2>3. ASSUME NEW w \in Workers, Leave(w)
        PROVE  Stops
    BY <2>3 DEF Leave, NotifyAll
  <2>4. ASSUME NEW w \in Workers, SpuriousWake(w)
        PROVE  Stops
    BY <1>1, <2>4 DEF SpuriousWake, IndInv, TypeOK
  <2>5. ASSUME NEW w \in Workers, FailTask(w)
        PROVE  Stops
    BY <2>5 DEF FailTask, NotifyAll, FirstFailure
  <2>6. ASSUME NEW w \in Workers, Succeed(w)
        PROVE  Stops
    BY <2>6, SucceedEffect DEF NotifyAll
  <2>7. ~Preload /\ \A u \in Restored, loads \in BOOLEAN : ~PreloadFails(u, loads)
    BY <2>1 DEF Preload, PreloadFails
  <2>8. \A w \in Workers : ~Pick(w) /\ ~Rest(w)
    BY <2>1 DEF Pick, Rest
  <2> QED
    BY <1>1, <2>2, <2>3, <2>4, <2>5, <2>6, <2>7, <2>8 DEF Next, Main, Worker
<1> QED
  BY <1>1, Invariance, PTL DEF Spec, FailureStops

-----------------------------------------------------------------------------
(* The engine implements the abstract data flow.                           *)

InWork == {work[w] : w \in Running}

LEMMA StartMaps ==
  ASSUME IndInv, NEW w \in Workers, Pick(w)
  PROVE  \E t \in BuildTasks : Dataflow!Start(t)
<1>1. PICK t \in Dispatchable : Starts(w, t) /\ ready' = ready \ {t}
  BY PickStarts DEF IndInv
<1>2. t \in ready /\ t \in enqueued /\ t \in BuildTasks
      /\ (IsExclusive(t) => ~exclusiveBusy)
  BY DEF Dispatchable, IndInv, OnePlace, TypeOK
<1>3. t \notin InWork \cup completed
  BY <1>2 DEF IndInv, OnePlace, InWork
<1>4. NeedsOf(t) \subseteq completed
  BY <1>2 DEF IndInv, ResultsInPlace
<1>5. IsExclusive(t) => InWork \cap {r \in BuildTasks : IsExclusive(r)} = {}
  BY <1>2 DEF IndInv, ExclusiveAlone, InWork
<1>6. InWork' = InWork \cup {t}
  <2>1. Running' = Running \cup {w} /\ w \notin Running /\ work' = [work EXCEPT ![w] = t]
    BY <1>1 DEF Starts
  <2>2. work'[w] = t /\ \A x \in Running : work'[x] = work[x]
    BY <2>1 DEF IndInv, TypeOK, Running
  <2> QED
    BY <2>1, <2>2 DEF InWork
<1>7. ~failed /\ UNCHANGED <<completed, failed>>
  BY DEF Pick, Over
<1> QED
  BY <1>2, <1>3, <1>4, <1>5, <1>6, <1>7 DEF Dataflow!Start, InWork

LEMMA EndMaps ==
  ASSUME IndInv, NEW w \in Workers, FailTask(w) \/ Succeed(w)
  PROVE  \E t \in BuildTasks : Dataflow!Finish(t) \/ Dataflow!Fail(t)
<1> DEFINE t == work[w]
<1>1. Ends(w)
  BY TaskEnds DEF IndInv
<1>2. t \in InWork /\ t \in BuildTasks
  BY <1>1, RunningTask DEF IndInv, Ends, InWork
<1>3. InWork' = InWork \ {t}
  <2>1. w \in Running /\ Running' = Running \ {w}
        /\ work' = [work EXCEPT ![w] = NoTask]
    BY <1>1 DEF Ends, ReturnSlot
  <2>2. \A x \in Running' : work'[x] = work[x]
    BY <2>1 DEF IndInv, TypeOK
  <2>3. \A x \in Running : work[x] = t => x = w
    BY <2>1 DEF IndInv, OnePlace
  <2> QED
    BY <2>1, <2>2, <2>3 DEF InWork
<1>4. CASE FailTask(w)
  <2>1. failed' = TRUE /\ completed' = completed
    BY <1>4 DEF FailTask, graph
  <2> QED
    BY <1>2, <1>3, <2>1 DEF Dataflow!Fail, InWork
<1>5. CASE Succeed(w)
  <2>1. completed' = completed \cup {t} /\ failed' \in {failed, TRUE}
    BY <1>5 DEF Succeed, IndInv, TypeOK
  <2> QED
    BY <1>2, <1>3, <2>1 DEF Dataflow!Finish, InWork
<1> QED
  BY <1>4, <1>5

LEMMA RestMaps ==
  ASSUME IndInv, NEW w \in Workers, Rest(w)
  PROVE  Dataflow!Abort \/ UNCHANGED Dataflow!vars
<1>1. UNCHANGED <<completed, work>> /\ ~failed
  BY DEF Rest, graph, Over
<1>2. InWork' = InWork
  <2>1. \A x \in Workers : pc'[x] = "running" <=> pc[x] = "running"
    BY DEF Rest, AtLoopHead, NotifyAll, IndInv, TypeOK
  <2> QED
    BY <1>1, <2>1 DEF InWork, Running
<1>3. CASE ready = {} /\ inFlight = 0
  <2>1. Running = {}
    BY <1>3, RunningFinite, FS_EmptySet DEF IndInv, CountersAgree
  <2>2. failed' = TRUE
    BY <1>3 DEF Rest
  <2> QED
    BY <1>1, <1>2, <2>1, <2>2 DEF Dataflow!Abort, InWork
<1>4. CASE ~(ready = {} /\ inFlight = 0)
  <2>1. failed' = failed
    BY <1>1, <1>4 DEF Rest, IndInv, TypeOK
  <2> QED
    BY <1>1, <1>2, <2>1 DEF Dataflow!vars, InWork
<1> QED
  BY <1>3, <1>4

LEMMA StepMaps ==
  ASSUME IndInv, [Next]_vars
  PROVE  [Dataflow!Next]_(Dataflow!vars)
<1>1. CASE Preload \/ Join \/ Ended \/ UNCHANGED vars
  BY <1>1 DEF Preload, Join, Ended, vars, graph, Dataflow!vars, Running
<1>2. ASSUME NEW u \in Restored, NEW loads \in BOOLEAN, PreloadFails(u, loads)
      PROVE  Dataflow!Abort
  <2>1. Running = {} /\ Running' = {}
    BY <1>2 DEF PreloadFails, IndInv, Phases, Running
  <2> QED
    BY <1>2, <2>1 DEF PreloadFails, Dataflow!Abort
<1>3. ASSUME NEW w \in Workers, Leave(w) \/ SpuriousWake(w)
      PROVE  UNCHANGED Dataflow!vars
  <2>1. UNCHANGED <<work, completed, failed>>
    BY <1>3 DEF Leave, SpuriousWake, graph
  <2>2. \A x \in Workers : pc'[x] = "running" <=> pc[x] = "running"
    BY <1>3 DEF Leave, SpuriousWake, NotifyAll, AtLoopHead, IndInv, TypeOK
  <2> QED
    BY <2>1, <2>2 DEF Dataflow!vars, Running
<1> QED
  BY <1>1, <1>2, <1>3, StartMaps, EndMaps, RestMaps
     DEF Next, Main, Worker, Dataflow!Next

\* The engine implements the data flow: no task runs twice or before what it
\* reads is in place, none starts after a failure, and exclusive tasks do not
\* overlap, whatever the interleaving of the worker threads.
THEOREM EngineImplementsDataflow == Spec => ImplementsDataflow
<1>1. Init => Dataflow!Init
  BY DEF Init, Dataflow!Init, Running
<1>2. IndInv /\ [Next]_vars => [Dataflow!Next]_(Dataflow!vars)
  BY StepMaps
<1> QED
  BY <1>1, <1>2, Invariance, PTL DEF Spec, ImplementsDataflow, Dataflow!Spec

-----------------------------------------------------------------------------
(* Nothing is left behind.                                                 *)

\* What a rescan makes of an engine in which all that is done is counted.
LEMMA RescanProgress ==
  ASSUME NEW open, NEW fin, NEW done, Rescan(open, fin, done),
         Restored \subseteq fin, fin \subseteq open, completed' = done,
         enqueued \subseteq ready \cup done \cup {work'[w] : w \in Running'},
         \A t \in enqueued : t[1] \in Fan => t[1] \in open,
         \A u \in Fan \ open : TasksOf(u) \cap done = {},
         \A u \in Reachable \ Satisfied :
            (u \in Fan => u \in open) /\ TasksOf(u) \subseteq done => u \in fin
  PROVE  NothingLeft'
<1>1. open \subseteq opened' /\ opened' = open \cup {u \in Reachable : Openable(u, opened', open)}
  BY DEF Rescan
<1>2. finished' = fin \cup {u \in opened' \ open : KeysOf[u] = {}}
  BY DEF Rescan
<1>3. /\ ready' = ready \cup Runnable(opened', finished', done)
      /\ enqueued' = enqueued \cup Runnable(opened', finished', done)
  BY DEF Rescan
<1>4. Restored \subseteq finished' /\ finished' \subseteq opened'
  BY <1>1, <1>2
<1>5. enqueued' \subseteq ready' \cup completed' \cup {work'[w] : w \in Running'}
  BY <1>3
<1>6. \A t \in enqueued' : t[1] \in Fan => t[1] \in opened'
  BY <1>1, <1>3 DEF Runnable
<1>7. \A u \in Fan \cap Reachable : Feeds(u) \subseteq opened' => u \in opened'
  BY <1>1 DEF Openable
<1>8. Runnable(opened, finished, completed)' = {}
  BY <1>3 DEF Runnable, ItemDone
<1>9. ASSUME NEW u \in Reachable \ Satisfied,
             u \in Fan => u \in opened', TasksOf(u) \subseteq completed'
      PROVE  u \in finished'
  <2>1. CASE u \in Fan => u \in open
    BY <1>2, <1>9, <2>1
  <2>2. CASE u \in Fan \ open
    <3>1. TasksOf(u) = {} /\ u \in opened'
      BY <1>9, <2>2
    <3>2. \A k \in KeysOf[u] : <<u, k>> \in TasksOf(u)
      BY <2>2 DEF TasksOf
    <3>3. KeysOf[u] = {}
      BY <3>1, <3>2
    <3> QED
      BY <1>2, <2>2, <3>1, <3>3
  <2> QED
    BY <2>1, <2>2
<1> QED
  BY <1>4, <1>5, <1>6, <1>7, <1>8, <1>9 DEF NothingLeft

LEMMA SucceedProgress ==
  ASSUME State, ~failed => NothingLeft, NEW w \in Workers, Succeed(w), ~failed'
  PROVE  NothingLeft'
<1> USE DEF State
<1> DEFINE t == work[w]
<1> DEFINE u == t[1]
<1>1. w \in Running /\ Running' = Running \ {w} /\ work' = [work EXCEPT ![w] = NoTask]
  BY TaskEnds DEF Ends, ReturnSlot
<1>2. /\ completed' = NowDone(t) /\ NothingLeft
      /\ Rescan(NowOpen(u), NowFinished(u), NowDone(t))
  BY SucceedEffect
<1>3. /\ t \in BuildTasks /\ t \notin completed /\ u \in Reachable \ Satisfied
      /\ t \in TasksOf(u) /\ t \in enqueued
  BY <1>1, RunningTask DEF OnePlace
<1>4. u \in NowOpen(u)
  BY <1>2, <1>3 DEF NothingLeft, NowOpen
<1>5. Restored \subseteq NowFinished(u) /\ NowFinished(u) \subseteq NowOpen(u)
  BY <1>2, <1>4 DEF NothingLeft, NowFinished, NowOpen
<1>6. enqueued \subseteq ready \cup NowDone(t) \cup {work'[x] : x \in Running'}
  <2>1. \A x \in Running : x = w \/ (x \in Running' /\ work'[x] = work[x])
    BY <1>1 DEF TypeOK, Running
  <2> QED
    BY <1>2, <2>1 DEF NothingLeft, NowDone
<1>7. \A r \in enqueued : r[1] \in Fan => r[1] \in NowOpen(u)
  BY <1>2 DEF NothingLeft, NowOpen
<1>8. \A v \in Fan \ NowOpen(u) : TasksOf(v) \cap NowDone(t) = {}
  <2> SUFFICES ASSUME NEW v \in Fan \ NowOpen(u), NEW r \in TasksOf(v), r \in NowDone(t)
               PROVE  FALSE
    OBVIOUS
  <2>1. r[1] = v
    BY DEF TasksOf
  <2>2. r \in enqueued
    BY <1>3 DEF NowDone, OnePlace
  <2> QED
    BY <1>7, <2>1, <2>2
<1>9. ASSUME NEW v \in Reachable \ Satisfied,
             v \in Fan => v \in NowOpen(u), TasksOf(v) \subseteq NowDone(t)
      PROVE  v \in NowFinished(u)
  <2>1. CASE v # u
    <3>1. t \notin TasksOf(v)
      BY <2>1 DEF TasksOf
    <3>2. TasksOf(v) \subseteq completed /\ (v \in Fan => v \in opened)
      BY <1>9, <2>1, <3>1 DEF NowDone, NowOpen
    <3> QED
      BY <1>2, <3>2 DEF NothingLeft, NowFinished
  <2>2. CASE v = u /\ u \notin Fan
    BY <2>2 DEF NowFinished, IsLast
  <2>3. CASE v = u /\ u \in Fan
    <3> DEFINE D == DoneOf(u) \cup {t}
    <3>1. D = TasksOf(u) /\ t \notin DoneOf(u)
      <4>1. D \subseteq TasksOf(u) /\ t \notin DoneOf(u)
        BY <1>3, DoneOfFinite DEF DoneOf
      <4>2. \A r \in TasksOf(u) : r[1] = u
        BY DEF TasksOf
      <4> QED
        BY <1>9, <2>3, <4>1, <4>2 DEF DoneOf, NowDone
    <3>2. Cardinality(D) = Cardinality(DoneOf(u)) + 1
      BY <3>1, DoneOfFinite, FS_AddElement
    <3>3. Cardinality(KeysOf[u]) = itemsDone[u] + 1
      BY <1>3, <2>3, <3>1, <3>2, TasksCounted DEF ItemsCounted
    <3> QED
      BY <2>3, <3>3 DEF NowFinished, IsLast
  <2> QED
    BY <2>1, <2>2, <2>3
<1> QED
  BY <1>2, <1>5, <1>6, <1>7, <1>8, <1>9, RescanProgress

LEMMA PreloadProgress ==
  ASSUME State, Preload
  PROVE  NothingLeft'
<1>1. /\ Rescan(Restored, Restored, {}) /\ completed' = {}
      /\ enqueued = {} /\ Restored \subseteq Reachable
  BY PreloadRescans
<1>2. \A u \in Reachable \ Satisfied :
        (u \in Fan => u \in Restored) /\ TasksOf(u) \subseteq {} => u \in Restored
  BY DEF TasksOf, Restored
<1> QED
  BY <1>1, <1>2, RescanProgress

LEMMA PickProgress ==
  ASSUME State, NothingLeft, NEW w \in Workers, Pick(w)
  PROVE  NothingLeft'
<1> USE DEF State
<1>1. PICK t \in Dispatchable : Starts(w, t) /\ ready' = ready \ {t}
  BY PickStarts
<1>2. UNCHANGED <<enqueued, completed, opened, finished>>
  BY DEF Pick
<1>3. {work[x] : x \in Running} \cup {t} \subseteq {work'[x] : x \in Running'}
  <2>1. work'[w] = t /\ \A x \in Running : x # w /\ work'[x] = work[x]
    BY <1>1 DEF Starts, TypeOK, Running
  <2>2. Running' = Running \cup {w}
    BY <1>1 DEF Starts
  <2> QED
    BY <2>1, <2>2
<1>4. enqueued' \subseteq ready' \cup completed' \cup {work'[x] : x \in Running'}
  BY <1>1, <1>2, <1>3 DEF NothingLeft
<1>5. Runnable(opened, finished, completed)' = Runnable(opened, finished, completed)
  BY <1>2 DEF Runnable, ItemDone
<1> QED
  BY <1>2, <1>4, <1>5 DEF NothingLeft

\* With nothing left behind, an engine that has run out of tasks is through.
LEMMA DryIsOver ==
  ASSUME State, NothingLeft, ready = {}, Running = {}
  PROVE  finishedEdges = NumEdges
<1> USE DEF State
<1> DEFINE B == Reachable \ finished
<1>1. SUFFICES ASSUME B # {} PROVE FALSE
  <2>1. finished = Reachable
    BY <1>1 DEF TypeOK
  <2> QED
    BY <2>1 DEF NumEdges
<1>2. B \in SUBSET Nat
  BY ReachableFinite, GraphShape DEF GraphShape
<1>3. PICK u \in B : \A v \in B : u <= v
  BY <1>1, <1>2, LeastOf
<1>4. u \in Reachable \ Satisfied /\ u \notin finished
  BY DEF NothingLeft, Restored
<1>5. Feeds(u) \subseteq finished
  <2> SUFFICES ASSUME NEW n \in Feeds(u), n \notin finished PROVE FALSE
    OBVIOUS
  <2>1. n \in B /\ n < u
    BY <1>4, InputsReachable
  <2>2. n \in Nat /\ u \in Nat
    BY <1>2, <2>1
  <2> QED
    BY <1>3, <2>1, <2>2
<1>6. u \in Fan => u \in opened
  BY <1>4, <1>5 DEF NothingLeft
<1>7. ASSUME NEW t \in TasksOf(u) PROVE t \in completed
  <2>1. t \in BuildTasks /\ t[1] = u
    BY <1>4 DEF BuildTasks, TasksOf
  <2>2. t \in enqueued
    <3> SUFFICES ASSUME t \notin enqueued PROVE t \in Runnable(opened, finished, completed)
      BY DEF NothingLeft
    <3> QED
      BY <1>4, <1>5, <1>6, <2>1 DEF Runnable, ItemDone
  <2> QED
    BY <2>2 DEF NothingLeft
<1> QED
  BY <1>4, <1>6, <1>7 DEF NothingLeft

LEMMA ProgressNext ==
  ASSUME State, InFlightCounted, Progress, [Next]_vars
  PROVE  Progress'
<1> USE DEF State
<1>1. CASE Preload
  BY <1>1, PreloadProgress DEF Progress, Preload
<1>2. ASSUME NEW u \in Restored, NEW loads \in BOOLEAN, PreloadFails(u, loads)
      PROVE  Progress'
  BY <1>2 DEF Progress, PreloadFails
<1>3. ASSUME NEW w \in Workers, Succeed(w)
      PROVE  Progress'
  BY <1>3, SucceedEffect, SucceedProgress DEF Progress
<1>4. ASSUME NEW w \in Workers, Pick(w)
      PROVE  Progress'
  BY <1>4, PickProgress DEF Progress, Pick, AtLoopHead, Over
<1>5. ASSUME NEW w \in Workers, FailTask(w)
      PROVE  Progress'
  BY <1>5 DEF Progress, FailTask
<1>6. ASSUME Quiet, UNCHANGED graph, failed' <=> failed, stalled' <=> stalled,
             main' # "preload" => main # "preload"
      PROVE  Progress'
  <2>1. Runnable(opened, finished, completed)' = Runnable(opened, finished, completed)
    BY <1>6 DEF graph, Runnable, ItemDone
  <2> QED
    BY <1>6, <2>1 DEF Progress, NothingLeft, Quiet, graph
<1>7. ASSUME NEW w \in Workers, Rest(w)
      PROVE  Progress'
  <2>1. ~failed /\ finishedEdges < NumEdges /\ main # "preload"
    <3>1. NumEdges \in Nat
      BY ReachableFinite, FS_CardinalityType DEF NumEdges
    <3> QED
      BY <1>7, <3>1 DEF Rest, Over, AtLoopHead, TypeOK
  <2>2. ~(ready = {} /\ inFlight = 0)
    <3> SUFFICES ASSUME ready = {}, inFlight = 0 PROVE FALSE
      OBVIOUS
    <3>1. Running = {}
      BY RunningFinite, FS_EmptySet DEF InFlightCounted
    <3>2. finishedEdges = NumEdges
      BY <2>1, <3>1, DryIsOver DEF Progress
    <3> QED
      BY <2>1, <3>2 DEF TypeOK
  <2>3. ~failed' /\ ~stalled' /\ UNCHANGED <<graph, main, work, inFlight, exclusiveBusy>>
        /\ pc' = [pc EXCEPT ![w] = "waiting"]
    BY <1>7, <2>2 DEF Rest
  <2>4. Running' = Running
    BY <1>7, <2>3 DEF Rest, AtLoopHead, Running, TypeOK
  <2>5. (failed' <=> failed) /\ (stalled' <=> stalled)
    BY <2>1, <2>3 DEF Progress
  <2> QED
    BY <1>6, <2>3, <2>4, <2>5 DEF Quiet
<1>8. ASSUME NEW w \in Workers, Leave(w) \/ SpuriousWake(w)
      PROVE  Progress'
  <2>1. UNCHANGED <<main, work, graph, inFlight, exclusiveBusy, failed, stalled>>
    BY <1>8 DEF Leave, SpuriousWake
  <2>2. \A x \in Workers : pc'[x] = "running" <=> pc[x] = "running"
    BY <1>8 DEF Leave, SpuriousWake, NotifyAll, AtLoopHead, TypeOK
  <2> QED
    BY <1>6, <2>1, <2>2 DEF Quiet, Running
<1>9. CASE Join \/ Ended \/ UNCHANGED vars
  BY <1>6, <1>9 DEF Join, Ended, vars, Quiet, Running
<1> QED
  BY <1>1, <1>2, <1>3, <1>4, <1>5, <1>7, <1>8, <1>9 DEF Next, Main, Worker

-----------------------------------------------------------------------------
(* What the end of a build tells.                                          *)

LEMMA FinishedGrows ==
  ASSUME State, [Next]_vars
  PROVE  failed' \/ (~failed /\ finished \subseteq finished')
<1> USE DEF State
<1>1. CASE Preload
  BY <1>1, PreloadRescans
<1>2. ASSUME NEW w \in Workers, Succeed(w)
      PROVE  failed' \/ (~failed /\ finished \subseteq finished')
  <2>1. w \in Running
    BY <1>2, TaskEnds DEF Ends
  <2> QED
    BY <1>2, <2>1, SucceedEffect, SucceedTypes, RescanOpens
<1>3. ASSUME failed => failed', UNCHANGED finished
      PROVE  failed' \/ (~failed /\ finished \subseteq finished')
  BY <1>3
<1>4. \/ (failed => failed') /\ UNCHANGED finished
      \/ Preload \/ (\E u \in Restored, loads \in BOOLEAN : PreloadFails(u, loads))
      \/ \E w \in Workers : Succeed(w)
  BY DEF Next, Main, Worker, Ended, Join, Leave, Pick, Rest, SpuriousWake,
         FailTask, graph, vars, Over
<1> QED
  BY <1>1, <1>2, <1>3, <1>4 DEF PreloadFails

LEMMA OverStays ==
  ASSUME State, InFlightCounted, Over, [Next]_vars
  PROVE  Over'
<1>1. SUFFICES ASSUME ~failed, finished \subseteq finished', ~failed' PROVE Over'
  BY FinishedGrows DEF Over
<1>2. /\ finishedEdges = Cardinality(finished) /\ finishedEdges' = Cardinality(finished')
      /\ finishedEdges \in Nat /\ finishedEdges' \in Nat
  BY CountersNext DEF State, TypeOK
<1>3. IsFiniteSet(finished')
  BY TypeNext, ReachableFinite, FS_Subset DEF TypeOK
<1>4. finishedEdges <= finishedEdges'
  BY <1>1, <1>2, <1>3, FS_Subset
<1>5. NumEdges \in Nat /\ NumEdges' = NumEdges
  BY ReachableFinite, FS_CardinalityType DEF NumEdges
<1> QED
  BY <1>1, <1>2, <1>4, <1>5 DEF Over

EndsOver == main = "done" \/ (\E w \in Workers : pc[w] = "exited") => Over

AllAgree == \A t \in completed : KeysAgree(t)
Apart(U) == \A u, v \in U : \A i \in DOMAIN Paths[u], j \in DOMAIN Paths[v] :
              Paths[u][i] = Paths[v][j] => u = v /\ i = j

PathsApart == ~failed => PathsIn(finished) \subseteq seenPaths /\ Apart(finished)

LEMMA EndsOverNext ==
  ASSUME State, InFlightCounted, EndsOver, [Next]_vars
  PROVE  EndsOver'
<1> USE DEF State
<1>1. CASE Over
  BY <1>1, OverStays DEF EndsOver
<1>2. CASE ~Over
  <2>1. main # "done" /\ \A w \in Workers : pc[w] # "exited"
    BY <1>2 DEF EndsOver
  <2>2. CASE Preload
    BY <2>1, <2>2 DEF Preload, EndsOver
  <2>3. ASSUME NEW u \in Restored, NEW loads \in BOOLEAN, PreloadFails(u, loads)
        PROVE  EndsOver'
    BY <2>3 DEF PreloadFails, EndsOver, Over
  <2>4. CASE Join
    BY <2>1, <2>4, GraphShape DEF Join, GraphShape
  <2>5. CASE Ended \/ UNCHANGED vars
    BY <2>1, <2>5 DEF Ended, vars, EndsOver
  <2>6. ASSUME NEW w \in Workers, Pick(w) \/ SpuriousWake(w) \/ FailTask(w)
        PROVE  EndsOver'
    <3>1. main' = main /\ \A x \in Workers : pc'[x] # "exited"
      BY <2>1, <2>6 DEF Pick, SpuriousWake, FailTask, NotifyAll, TypeOK
    <3> QED
      BY <2>1, <3>1 DEF EndsOver
  <2>7. ASSUME NEW w \in Workers, Rest(w)
        PROVE  EndsOver'
    <3>1. CASE ready = {} /\ inFlight = 0
      BY <2>7, <3>1 DEF Rest, EndsOver, Over
    <3>2. CASE ~(ready = {} /\ inFlight = 0)
      <4>1. main' = main /\ \A x \in Workers : pc'[x] # "exited"
        BY <2>1, <2>7, <3>2 DEF Rest, TypeOK
      <4> QED
        BY <2>1, <4>1 DEF EndsOver
    <3> QED
      BY <3>1, <3>2
  <2>8. ASSUME NEW w \in Workers, Succeed(w)
        PROVE  EndsOver'
    <3>1. CASE finishedEdges' >= NumEdges
      BY <3>1 DEF EndsOver, Over, NumEdges
    <3>2. CASE ~(finishedEdges' >= NumEdges)
      <4>1. main' = main /\ pc' = [NotifyAll(pc) EXCEPT ![w] = "awake"]
        BY <2>8, <3>2, SucceedEffect
      <4>2. \A x \in Workers : pc'[x] # "exited"
        BY <2>1, <4>1 DEF NotifyAll
      <4> QED
        BY <2>1, <4>1, <4>2 DEF EndsOver
    <3> QED
      BY <3>1, <3>2
  <2>9. ASSUME NEW w \in Workers PROVE ~Leave(w)
    BY <1>2 DEF Leave
  <2> QED
    BY <2>2, <2>3, <2>4, <2>5, <2>6, <2>7, <2>8, <2>9 DEF Next, Main, Worker
<1> QED
  BY <1>1, <1>2

LEMMA AgreeNext ==
  ASSUME State, AllAgree, [Next]_vars
  PROVE  AllAgree'
<1>1. ASSUME NEW w \in Workers, Succeed(w)
      PROVE  AllAgree'
  BY <1>1 DEF Succeed, AllAgree, KeysAgree
<1>2. CASE UNCHANGED completed
  BY <1>2 DEF AllAgree, KeysAgree
<1>3. UNCHANGED completed \/ \E w \in Workers : Succeed(w)
  BY DEF Next, Main, Worker, Ended, Preload, PreloadFails, Join, Leave, Pick,
         Rest, SpuriousWake, FailTask, graph, vars
<1> QED
  BY <1>1, <1>2, <1>3

\* Edges without items add no path.
LEMMA EmptyAddNone ==
  ASSUME NEW U, NEW V, U \subseteq V, Apart(U),
         \A u \in V \ U : u \in Fan /\ KeysOf[u] = {}
  PROVE  Apart(V) /\ PathsIn(V) = PathsIn(U)
<1>1. \A u \in V \ U : DOMAIN Paths[u] = {}
  BY PathsOfItems
<1>2. Apart(V)
  BY <1>1 DEF Apart
<1>3. PathsIn(V) \subseteq PathsIn(U)
  <2> SUFFICES ASSUME NEW u \in V, NEW i \in DOMAIN Paths[u]
               PROVE  Paths[u][i] \in PathsIn(U)
    BY DEF PathsIn
  <2>1. u \in U
    BY <1>1
  <2> QED
    BY <2>1 DEF PathsIn
<1>4. PathsIn(U) \subseteq PathsIn(V)
  <2> DEFINE P(W) == {{Paths[u][i] : i \in DOMAIN Paths[u]} : u \in W}
  <2>1. P(U) \subseteq P(V)
    OBVIOUS
  <2> QED
    BY <2>1, Zenon DEF PathsIn
<1> QED
  BY <1>2, <1>3, <1>4

LEMMA RestoredApart ==
  ASSUME \A u \in Restored : ~Collides(u, PathsBefore(u))
  PROVE  Apart(Restored)
<1>1. Restored \subseteq Nat
  BY ReachableFinite, GraphShape DEF Restored, GraphShape
<1> SUFFICES ASSUME NEW u \in Restored, NEW v \in Restored,
                    NEW i \in DOMAIN Paths[u], NEW j \in DOMAIN Paths[v],
                    Paths[u][i] = Paths[v][j]
             PROVE  u = v /\ i = j
  BY DEF Apart
<1>2. CASE u = v
  BY <1>2 DEF Collides
<1>3. CASE u < v
  <2>1. Paths[u][i] \in PathsBefore(v)
    BY <1>3 DEF PathsBefore, PathsIn
  <2> QED
    BY <2>1 DEF Collides
<1>4. CASE v < u
  <2>1. Paths[v][j] \in PathsBefore(u)
    BY <1>4 DEF PathsBefore, PathsIn
  <2> QED
    BY <2>1 DEF Collides
<1> QED
  BY <1>1, <1>2, <1>3, <1>4

LEMMA PathsNext ==
  ASSUME State, PathsApart, [Next]_vars
  PROVE  PathsApart'
<1> USE DEF State
<1>1. CASE Preload
  <2>1. seenPaths' = PathsIn(Restored) /\ Apart(Restored)
    BY <1>1, RestoredApart DEF Preload
  <2>2. /\ Restored \subseteq finished'
        /\ \A u \in finished' \ Restored : u \in Fan /\ KeysOf[u] = {}
    BY <1>1, PreloadRescans, RescanOpens
  <2>3. Apart(finished') /\ PathsIn(finished') = seenPaths'
    BY <2>1, <2>2, EmptyAddNone
  <2> QED
    BY <2>3 DEF PathsApart, Apart, PathsIn
<1>2. ASSUME NEW w \in Workers, Succeed(w), ~failed'
      PROVE  PathsApart'
  <2> DEFINE u == work[w][1]
  <2>1. w \in Running
    BY <1>2, TaskEnds DEF Ends
  <2>2. ~failed /\ Rescan(NowOpen(u), NowFinished(u), NowDone(work[w]))
    BY <1>2, SucceedEffect
  <2>3. /\ NowFinished(u) \subseteq finished'
        /\ \A v \in finished' \ NowFinished(u) : v \in Fan /\ KeysOf[v] = {}
    BY <2>1, <2>2, RescanOpens, SucceedTypes
  <2>4. PathsIn(finished) \subseteq seenPaths /\ Apart(finished)
    BY <2>2 DEF PathsApart
  <2>5. Apart(NowFinished(u)) /\ PathsIn(NowFinished(u)) \subseteq seenPaths'
    <3>1. CASE ~IsLast(u)
      <4>1. seenPaths' = seenPaths
        BY <1>2, <3>1 DEF Succeed, IsLast
      <4> QED
        BY <2>4, <3>1, <4>1 DEF NowFinished
    <3>2. CASE IsLast(u)
      <4>1. ~Collides(u, seenPaths) /\ seenPaths' = seenPaths \cup PathsIn({u})
        BY <1>2, <3>2 DEF Succeed, IsLast
      <4>2. \A i, j \in DOMAIN Paths[u] : Paths[u][i] = Paths[u][j] => i = j
        BY <4>1 DEF Collides
      <4>3. \A v \in finished : \A i \in DOMAIN Paths[u], j \in DOMAIN Paths[v] :
              Paths[u][i] # Paths[v][j]
        BY <2>4, <4>1 DEF Collides, PathsIn
      <4>4. NowFinished(u) = finished \cup {u}
        BY <3>2 DEF NowFinished
      <4>5. Apart(finished \cup {u})
        BY <2>4, <4>2, <4>3 DEF Apart
      <4>6. PathsIn(finished \cup {u}) \subseteq seenPaths'
        BY <2>4, <4>1 DEF PathsIn
      <4> QED
        BY <4>4, <4>5, <4>6
    <3> QED
      BY <3>1, <3>2
  <2>6. Apart(finished') /\ PathsIn(finished') \subseteq seenPaths'
    BY <2>3, <2>5, EmptyAddNone
  <2> QED
    BY <2>6 DEF PathsApart, Apart, PathsIn
<1>3. ASSUME UNCHANGED <<finished, seenPaths>>, failed => failed'
      PROVE  PathsApart'
  BY <1>3 DEF PathsApart, Apart, PathsIn
<1>4. \/ (failed => failed') /\ UNCHANGED <<finished, seenPaths>>
      \/ Preload \/ (\E u \in Restored, loads \in BOOLEAN : PreloadFails(u, loads))
      \/ \E w \in Workers : Succeed(w)
  BY DEF Next, Main, Worker, Ended, Join, Leave, Pick, Rest, SpuriousWake,
         FailTask, graph, vars, Over
<1>5. failed' => PathsApart'
  BY DEF PathsApart
<1> QED
  BY <1>1, <1>2, <1>3, <1>4, <1>5 DEF PreloadFails

\* What is opened together is opened in order, each edge on inputs with final
\* keys.
LEMMA RescanKeys ==
  ASSUME NEW open, NEW fin, NEW done, Rescan(open, fin, done),
         open \subseteq Reachable,
         \A u \in open : KeyMakers[u] \subseteq done
  PROVE  \A u \in opened' : KeyMakers[u] \subseteq done
<1> DEFINE B == {u \in opened' : ~(KeyMakers[u] \subseteq done)}
<1>1. SUFFICES ASSUME B # {} PROVE FALSE
  BY <1>1
<1>2. /\ opened' \subseteq Edges
      /\ opened' = open \cup {u \in Reachable : Openable(u, opened', open)}
  BY ReachableFinite DEF Rescan
<1>3. B \in SUBSET Nat
  BY <1>2, GraphShape DEF GraphShape
<1>4. PICK u \in B : \A v \in B : u <= v
  BY <1>1, <1>3, LeastOf
<1>5. u \in Edges /\ u \in Fan /\ Feeds(u) \subseteq opened'
  BY <1>2 DEF Openable
<1>6. \A n \in Feeds(u) : KeyMakers[n] \subseteq done
  <2> SUFFICES ASSUME NEW n \in Feeds(u), n \in B PROVE FALSE
    BY <1>5
  <2>1. n < u /\ u \in Nat /\ n \in Nat
    BY <1>3, <1>5, FeedsBefore
  <2> QED
    BY <1>4, <2>1
<1>7. KeyMakers[u] \subseteq UNION {KeyMakers[n] : n \in Feeds(u)}
  BY <1>5, KeyMakersUnfold
<1>8. KeyMakers[u] \subseteq done
  BY <1>6, <1>7
<1> QED
  BY <1>8

LEMMA KeysNext ==
  ASSUME State, KeysAreFinal, [Next]_vars
  PROVE  KeysAreFinal'
<1> USE DEF State
<1>1. ASSUME NEW u \in Restored PROVE KeyMakers[u] = {}
  BY ReachableFinite, KeyMakersUnfold DEF Restored
<1>2. CASE Preload
  BY <1>1, <1>2, PreloadRescans, RescanKeys DEF KeysAreFinal
<1>3. ASSUME NEW u \in Restored, NEW loads \in BOOLEAN, PreloadFails(u, loads)
      PROVE  KeysAreFinal'
  BY <1>1, <1>3 DEF PreloadFails, KeysAreFinal
<1>4. ASSUME NEW w \in Workers, Succeed(w)
      PROVE  KeysAreFinal'
  <2> DEFINE t == work[w]
  <2> DEFINE u == t[1]
  <2>1. w \in Running
    BY <1>4, TaskEnds DEF Ends
  <2>2. u \in Edges \ Satisfied /\ t \in TasksOf(u)
    BY <2>1, RunningTask
  <2>3. \A v \in NowOpen(u) : KeyMakers[v] \subseteq NowDone(t)
    <3>1. u \notin Fan => KeyMakers[u] = {t}
      BY <2>2, KeyMakersUnfold DEF TasksOf
    <3> QED
      BY <3>1 DEF KeysAreFinal, NowOpen, NowDone
  <2>4. completed' = NowDone(t)
    BY <1>4, SucceedEffect
  <2>5. CASE opened' = NowOpen(u)
    BY <2>3, <2>4, <2>5 DEF KeysAreFinal
  <2>6. CASE Rescan(NowOpen(u), NowFinished(u), NowDone(t))
    BY <2>1, <2>3, <2>4, <2>6, SucceedTypes, RescanKeys DEF KeysAreFinal
  <2> QED
    BY <1>4, <2>5, <2>6, SucceedEffect
<1>5. CASE UNCHANGED <<opened, completed>>
  BY <1>5 DEF KeysAreFinal
<1>6. \/ UNCHANGED <<opened, completed>>
      \/ Preload \/ (\E u \in Restored, loads \in BOOLEAN : PreloadFails(u, loads))
      \/ \E w \in Workers : Succeed(w)
  BY DEF Next, Main, Worker, Ended, Join, Leave, Pick, Rest, SpuriousWake,
         FailTask, graph, vars
<1> QED
  BY <1>2, <1>3, <1>4, <1>5, <1>6

-----------------------------------------------------------------------------
(* Taken payloads.                                                         *)

LEMMA ReadsFinite == \A n : IsFiniteSet(Reads(n))
<1> DEFINE D == {DOMAIN Inputs[u] : u \in Edges}
<1>1. IsFiniteSet(D)
  <2> DEFINE f == [u \in Edges |-> DOMAIN Inputs[u]]
  <2>1. f \in Surjection(Edges, D)
    BY DEF Surjection
  <2> QED
    BY <2>1, GraphShape, FS_Surjection DEF GraphShape
<1>2. \A u \in Edges : IsFiniteSet(DOMAIN Inputs[u])
  <2> SUFFICES ASSUME NEW u \in Edges PROVE IsFiniteSet(DOMAIN Inputs[u])
    OBVIOUS
  <2>1. Inputs[u] \in Seq({v \in Edges : v < u})
    BY GraphShape DEF GraphShape
  <2>2. DOMAIN Inputs[u] = 1..Len(Inputs[u]) /\ Len(Inputs[u]) \in Int
    BY <2>1
  <2> QED
    BY <2>2, FS_Interval
<1>3. IsFiniteSet(Positions)
  <2>1. \A X \in D : IsFiniteSet(X)
    BY <1>2
  <2> QED
    BY <1>1, <2>1, FS_UNION DEF Positions
<1>4. IsFiniteSet(Reachable \ Satisfied)
  BY GraphShape, FS_Subset DEF GraphShape, Reachable
<1>5. IsFiniteSet((Reachable \ Satisfied) \X Positions)
  BY <1>3, <1>4, FS_Product
<1> QED
  BY <1>5, FS_Subset DEF Reads

\* An edge that may take its input is the only edge to read it.
LEMMA OneReader ==
  ASSUME NEW u \in Reachable \ Satisfied, OwnsInput(u),
         NEW x \in Reachable \ Satisfied, Inputs[u][1] \in Feeds(x)
  PROVE  x = u
<1> DEFINE p == Inputs[u][1]
<1>1. PICK i \in DOMAIN Inputs[x] : Inputs[x][i] = p
  BY DEF Feeds
<1>2. PICK r : Reads(p) = {r}
  BY ReadsFinite, FS_Singleton DEF OwnsInput
<1>3. u \in Edges /\ x \in Edges
  BY DEF Reachable
<1>4. 1 \in DOMAIN Inputs[u]
  <2>1. Inputs[u] \in Seq({v \in Edges : v < u}) /\ Len(Inputs[u]) = 1
    BY <1>3, GraphShape DEF GraphShape, OwnsInput
  <2> QED
    BY <2>1
<1>5. <<x, i>> \in Reads(p) /\ <<u, 1>> \in Reads(p)
  <2>1. i \in Positions /\ 1 \in Positions
    BY <1>1, <1>3, <1>4 DEF Positions
  <2> QED
    BY <1>1, <1>4, <2>1 DEF Reads
<1>6. <<x, i>> = <<u, 1>>
  BY <1>2, <1>5
<1> QED
  BY <1>6

\* No other node of the build forwards to a payload that may be taken.
LEMMA TakenNotForwarded ==
  ASSUME NEW u \in Reachable \ Satisfied, OwnsInput(u),
         NEW n \in Reachable, PayloadOf[n] = Inputs[u][1]
  PROVE  n = Inputs[u][1]
<1> DEFINE p == Inputs[u][1]
<1> DEFINE B == {m \in Reachable : PayloadOf[m] = p /\ m # p}
<1>1. SUFFICES ASSUME B # {} PROVE FALSE
  BY <1>1
<1>2. B \in SUBSET Nat /\ B \subseteq Edges
  BY GraphShape DEF GraphShape, Reachable
<1>3. PICK m \in B : \A k \in B : m <= k
  BY <1>1, <1>2, LeastOf
<1>4. m \in Edges /\ m \in Reachable /\ PayloadOf[m] = p /\ m # p
  BY <1>2
<1>5. m \in Alias \ Satisfied /\ PayloadOf[LastInput(m)] = p
  BY <1>4, PayloadUnfolds
<1>6. LastInput(m) \in Feeds(m) /\ LastInput(m) < m /\ LastInput(m) \in Edges
  BY <1>5, LastInputIs
<1>7. LastInput(m) \in Reachable
  BY <1>4, <1>5, <1>6, InputsReachable
<1>8. LastInput(m) = p
  <2> HIDE DEF p
  <2>1. LastInput(m) \notin B
    <3>1. m \in Nat /\ LastInput(m) \in Nat
      BY <1>4, <1>6, GraphShape DEF GraphShape
    <3> QED
      BY <1>3, <1>6, <3>1
  <2> QED
    BY <1>5, <1>7, <2>1
<1>9. m = u
  BY <1>4, <1>5, <1>6, <1>8, OneReader
<1> QED
  BY <1>5, <1>9, TakersOwn DEF OwnsInput

LEMMA TakenAlone ==
  ASSUME TypeOK, OnePlace
  PROVE  TakenIsNotRead
<1> SUFFICES ASSUME NEW u \in Reachable \ Restored, HasTaken(u)
             PROVE  /\ \A w \in Running : work[w][1] # u =>
                         Inputs[u][1] \notin {PayloadOf[n] : n \in Feeds(work[w][1])}
                    /\ Inputs[u][1] \notin {PayloadOf[n] : n \in Outputs \cup BuildAlso}
  BY DEF TakenIsNotRead
<1>1. u \in Reachable \ Satisfied /\ OwnsInput(u)
  BY DEF Restored, HasTaken
<1>2. ASSUME NEW w \in Running, NEW n \in Feeds(work[w][1]), PayloadOf[n] = Inputs[u][1]
      PROVE  work[w][1] = u
  <2>1. work[w][1] \in Reachable \ Satisfied
    BY RunningTask
  <2>2. n \in Reachable
    BY <1>2, <2>1, InputsReachable
  <2>3. n = Inputs[u][1]
    BY <1>1, <1>2, <2>2, TakenNotForwarded
  <2> QED
    BY <1>1, <1>2, <2>1, <2>3, OneReader
<1>3. ASSUME NEW n \in Outputs \cup BuildAlso, PayloadOf[n] = Inputs[u][1]
      PROVE  FALSE
  <2>1. n \in Reachable
    BY ReachedUnfolds, GraphShape DEF GraphShape, Reachable
  <2>2. n = Inputs[u][1]
    BY <1>1, <1>3, <2>1, TakenNotForwarded
  <2> QED
    BY <1>1, <2>2 DEF OwnsInput
<1> QED
  BY <1>2, <1>3

-----------------------------------------------------------------------------
(* The theorems about whole builds.                                        *)

LEMMA BuildInit == Init => BuildInv /\ KeysAreFinal
<1> SUFFICES ASSUME Init PROVE BuildInv /\ KeysAreFinal
  OBVIOUS
<1>1. IndInv
  BY SchedInit
<1>2. Progress /\ KeysAreFinal
  BY DEF Init, Progress, KeysAreFinal
<1>3. Truthful
  BY DEF Init, Truthful, PathsIn
<1> QED
  BY <1>1, <1>2, <1>3 DEF BuildInv

LEMMA TruthfulParts == Truthful <=> EndsOver /\ AllAgree /\ PathsApart
BY DEF Truthful, EndsOver, AllAgree, PathsApart, Apart

LEMMA BuildNext == BuildInv /\ KeysAreFinal /\ [Next]_vars => BuildInv' /\ KeysAreFinal'
<1> SUFFICES ASSUME BuildInv, KeysAreFinal, [Next]_vars
             PROVE  BuildInv' /\ KeysAreFinal'
  OBVIOUS
<1>1. State /\ InFlightCounted /\ IndInv'
  BY IndInvState, IndInvNext DEF BuildInv
<1>2. Progress' /\ KeysAreFinal'
  BY <1>1, ProgressNext, KeysNext DEF BuildInv
<1>3. EndsOver' /\ AllAgree' /\ PathsApart'
  BY <1>1, TruthfulParts, EndsOverNext, AgreeNext, PathsNext DEF BuildInv
<1>4. Truthful'
  BY <1>3 DEF Truthful, EndsOver, AllAgree, PathsApart, Apart
<1> QED
  BY <1>1, <1>2, <1>4 DEF BuildInv

\* Beside the agreement of counters and queue (IndInv): rescan leaves nothing
\* behind that could run, open or finish, and threads leave only when the
\* build is over (Scheduler::rescan, Scheduler::worker).
THEOREM BuildInvariance == Spec => []BuildInv
BY BuildInit, BuildNext, PTL DEF Spec

\* No worker finds an empty queue with nothing in flight while edges are left
\* to build: the diagnostic of a stalled scheduler is never reached.
THEOREM NeverRunsDry == Spec => []NeverStalls
<1>1. BuildInv => NeverStalls
  BY DEF BuildInv, Progress, NeverStalls
<1> QED
  BY <1>1, BuildInvariance, PTL

\* rescan opens a fan-out edge only when the tasks that decide its keys,
\* through any number of fan-out edges, are done.
THEOREM KeysFinalWhenOpened == Spec => []KeysAreFinal
BY BuildInit, BuildNext, PTL DEF Spec

LEMMA DoneIsComplete ==
  ASSUME BuildInv
  PROVE  SuccessIsComplete
<1> SUFFICES ASSUME main = "done", ~failed
             PROVE  /\ finished = Reachable /\ completed = BuildTasks
                    /\ \A u \in (Fan \cap Reachable) \ Satisfied :
                         \A n \in Feeds(u) : KeysOf[u] \subseteq KeysOf[n]
                    /\ Apart(Reachable)
  BY DEF SuccessIsComplete, Apart
<1>1. State /\ EndsOver /\ AllAgree /\ PathsApart
  BY IndInvState, TruthfulParts DEF BuildInv
<1>2. finished = Reachable
  <2>1. finished \subseteq Reachable /\ finishedEdges = Cardinality(finished)
    BY <1>1 DEF State, TypeOK
  <2>2. Cardinality(finished) >= Cardinality(Reachable)
    BY <1>1, <2>1 DEF EndsOver, Over, NumEdges
  <2>3. /\ Cardinality(finished) <= Cardinality(Reachable)
        /\ Cardinality(finished) \in Nat /\ Cardinality(Reachable) \in Nat
    BY <2>1, ReachableFinite, FS_Subset, FS_CardinalityType
  <2>4. Cardinality(finished) = Cardinality(Reachable)
    BY <2>2, <2>3
  <2> QED
    BY <2>1, <2>4, ReachableFinite, FS_Subset
<1>3. completed = BuildTasks
  BY <1>1, <1>2 DEF State, ResultsInPlace, TypeOK, BuildTasks
<1>4. ASSUME NEW u \in (Fan \cap Reachable) \ Satisfied, NEW n \in Feeds(u),
             NEW k \in KeysOf[u]
      PROVE  k \in KeysOf[n]
  <2>1. <<u, k>> \in completed
    BY <1>3 DEF BuildTasks, TasksOf
  <2>2. KeysAgree(<<u, k>>)
    BY <1>1, <2>1 DEF AllAgree
  <2> QED
    BY <2>2 DEF KeysAgree
<1> QED
  BY <1>1, <1>2, <1>3, <1>4 DEF PathsApart

\* A run that returns success has finished every reachable edge and run every
\* task, no item of a bundle lacked its key, and no two files of the build
\* share a path (Scheduler::run, recordPaths).
THEOREM SuccessMeansComplete == Spec => []SuccessIsComplete
<1>1. BuildInv => SuccessIsComplete
  BY DoneIsComplete
<1> QED
  BY <1>1, BuildInvariance, PTL

\* A payload an edge was let to take (ownsInput) is neither read by a task of
\* another edge, also through aliases, nor written out after the run.
THEOREM TakenNotReadAgain == Spec => []TakenIsNotRead
<1>1. IndInv => TakenIsNotRead
  BY TakenAlone DEF IndInv
<1> QED
  BY <1>1, Invariance, PTL
=============================================================================
