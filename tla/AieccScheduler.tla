--------------------------- MODULE AieccScheduler ---------------------------
(***************************************************************************)
(* The execution engine of aiecc (tools/aiecc/ExecutionEngine.h): a        *)
(* compilation graph is run by a pool of worker threads that share one     *)
(* mutex and one condition variable. An edge of the graph produces one     *)
(* node; a fan-out edge (map, bundle) runs one task per key of the node,   *)
(* every other edge runs as a single task.                                 *)
(*                                                                         *)
(* Edges are numbered in insertion order, which is a topological order of  *)
(* the graph, and a node is named by the edge that produces it. The order  *)
(* of the ready queue is abstracted: any dispatchable task may be picked.  *)
(***************************************************************************)
EXTENDS Integers, Sequences, FiniteSets

CONSTANTS
  Edges,       \* every edge of the graph, as positive integers
  Inputs,      \* Inputs[u]: the nodes u reads, in order
  Fan,         \* edges that run one task per key
  ThreadSafe,  \* edges that may run beside any other
  Alias,       \* edges whose items forward to an item of their last input
  MayTake,     \* edges marked takesInput()
  Produced,    \* Produced[u]: the keys a structural or restored edge produces
  Paths,       \* Paths[u]: the output paths of u's items
  Outputs,     \* the requested outputs
  BuildAlso,   \* further roots, such as a checkpoint frontier
  Satisfied,   \* edges restored from a checkpoint
  KeepItems,   \* keepIntermediates or keepInputs is set
  Faulty,      \* edges whose tasks, or whose restoration, may fail
  Workers,     \* the threads of the pool
  Whole,       \* stands for the key of a whole-edge task
  None         \* no thread, no edge, no task

Feeds(u) == {Inputs[u][i] : i \in DOMAIN Inputs[u]}

ASSUME GraphShape ==
  /\ Edges \subseteq Nat \ {0} /\ IsFiniteSet(Edges)
  /\ IsFiniteSet(Workers) /\ Workers # {}
  /\ Fan \subseteq Edges /\ Satisfied \subseteq Edges
  /\ \A u \in Edges : Inputs[u] \in Seq({v \in Edges : v < u})
  /\ \A u \in Fan \cup Alias : Len(Inputs[u]) > 0
  /\ Alias \cup Outputs \cup BuildAlso \subseteq Edges
  /\ None \notin Edges \cup Workers

\* An edge that asks to take its input produces a payload of its own.
ASSUME TakersOwn == Alias \cap MayTake = {}

-----------------------------------------------------------------------------
(* Which edges run, and what each consists of.                             *)

\* An edge runs if it is a root, or an edge that runs and is not restored
\* reads its node.
Reached[u \in Edges] ==
  \/ u \in Outputs \cup BuildAlso
  \/ \E v \in Edges \ Satisfied : u \in Feeds(v) /\ Reached[v]

Reachable == {u \in Edges : Reached[u]}
Restored == Satisfied \cap Reachable

\* A map or a bundle takes the keys of its first input.
KeysOf[u \in Edges] ==
  IF u \in Fan \ Satisfied THEN KeysOf[Inputs[u][1]] ELSE Produced[u]

ASSUME KeysFinite == \A u \in Edges : IsFiniteSet(KeysOf[u])

\* Paths are those of the items an edge has.
ASSUME PathsOfItems == \A u \in Fan : KeysOf[u] = {} => DOMAIN Paths[u] = {}

TasksOf(u) == IF u \in Fan THEN {<<u, k>> : k \in KeysOf[u]} ELSE {<<u, Whole>>}
BuildTasks == UNION {TasksOf(u) : u \in Reachable \ Satisfied}
NoTask == <<None, Whole>>

IsExclusive(t) == t[1] \notin ThreadSafe

\* Every position at which an edge that executes reads node n.
Positions == UNION {DOMAIN Inputs[u] : u \in Edges}
Reads(n) == {r \in (Reachable \ Satisfied) \X Positions :
               r[2] \in DOMAIN Inputs[r[1]] /\ Inputs[r[1]][r[2]] = n}

\* Fault: every edge that asks for its input gets it.
OwnsAsked(u) == u \in MayTake \cap Reachable /\ Len(Inputs[u]) = 1

\* An edge may take its input only as that node's one reader, and only if
\* nothing writes the node out after the run.
OwnsInput(u) ==
  /\ u \in MayTake \cap Reachable
  /\ ~KeepItems
  /\ Len(Inputs[u]) = 1
  /\ Cardinality(Reads(Inputs[u][1])) = 1
  /\ Inputs[u][1] \notin Outputs \cup BuildAlso

-----------------------------------------------------------------------------
VARIABLES
  main,           \* "preload", "pool" or "done": where Scheduler::run is
  pc,             \* pc[w]: "awake", "waiting", "running" or "exited"
  work,           \* work[w]: the task thread w runs
  holder,         \* the thread that kept mtx from its last task, or None
  ready,          \* the ready queue
  enqueued,       \* tasks ever enqueued: itemState > 0, wholeQueued
  completed,      \* tasks whose result is in place: itemState = 2
  itemsDone,      \* itemsDone[u]: count of u's completed items
  opened,         \* edges whose key set is final
  finished,       \* edges all of whose work is done
  finishedEdges,  \* count of finished edges
  inFlight,       \* count of tasks being run
  exclusiveBusy,  \* an exclusive task is being run
  failed, stalled,
  failedEdge,     \* the edge named in the failure diagnostic
  seenPaths       \* output paths of the finished edges

graph == <<ready, enqueued, completed, itemsDone, opened, finished,
           finishedEdges, seenPaths>>
vars == <<main, pc, work, holder, graph, inFlight, exclusiveBusy, failed,
          stalled, failedEdge>>

NumEdges == Cardinality(Reachable)
Running == {w \in Workers : pc[w] = "running"}

\* Faults: no thread, or one thread only, is woken.
NotifyNone(p) == p
NotifyOne(p) ==
  IF \E w \in Workers : p[w] = "waiting"
  THEN [p EXCEPT ![CHOOSE w \in Workers : p[w] = "waiting"] = "awake"] ELSE p

NotifyAll(p) == [w \in Workers |-> IF p[w] = "waiting" THEN "awake" ELSE p[w]]

\* recordPaths: an output path is produced twice.
Collides(u, seen) ==
  \/ \E i \in DOMAIN Paths[u] : Paths[u][i] \in seen
  \/ \E i, j \in DOMAIN Paths[u] : i # j /\ Paths[u][i] = Paths[u][j]

PathsIn(U) == UNION {{Paths[u][i] : i \in DOMAIN Paths[u]} : u \in U}

-----------------------------------------------------------------------------
(* rescan: open every fan-out edge whose inputs have final keys, finish    *)
(* those that turn out empty, and enqueue every task that may now run.     *)

\* Fault: an item is taken for done when its node is open.
ItemDoneOpen(n, k, open, fin, done) == n \in fin \/ (n \in Fan /\ n \in open)

\* A key that an opened producer lacks counts as done: the task that needs
\* it reports the incompatible keys.
ItemDone(n, k, open, fin, done) ==
  \/ n \in fin
  \/ n \in Fan /\ n \in open /\ (k \in KeysOf[n] => <<n, k>> \in done)

\* Fault: a task that was enqueued before is enqueued again.
RunnableAgain(open, fin, done) ==
  {t \in BuildTasks \ done :
     /\ t[1] \notin fin
     /\ IF t[1] \in Fan
        THEN t[1] \in open
             /\ \A n \in Feeds(t[1]) : ItemDone(n, t[2], open, fin, done)
        ELSE Feeds(t[1]) \subseteq fin}

Runnable(open, fin, done) ==
  {t \in BuildTasks \ enqueued :
     /\ t[1] \notin fin
     /\ IF t[1] \in Fan
        THEN t[1] \in open
             /\ \A n \in Feeds(t[1]) : ItemDone(n, t[2], open, fin, done)
        ELSE Feeds(t[1]) \subseteq fin}

\* Faults: one pass, which opens nothing behind an edge it has just opened;
\* only the first input's keys have to be final.
OpenableOnce(u, open, before) == u \in Fan \cap Reachable /\ Feeds(u) \subseteq before
OpenableFirst(u, open, before) == u \in Fan \cap Reachable /\ Inputs[u][1] \in open

\* The keys of every input are final.
Openable(u, open, before) == u \in Fan \cap Reachable /\ Feeds(u) \subseteq open

Rescan(open, fin, done) ==
  /\ opened' \in {open \cup more : more \in SUBSET ((Fan \cap Reachable) \ open)}
  /\ opened' = open \cup {u \in Reachable : Openable(u, opened', open)}
  /\ finished' = fin \cup {u \in opened' \ open : KeysOf[u] = {}}
  /\ finishedEdges' = finishedEdges + Cardinality(finished' \ finished)
  /\ LET new == Runnable(opened', finished', done)
     IN ready' = ready \cup new /\ enqueued' = enqueued \cup new

-----------------------------------------------------------------------------
(* Scheduler::run, on the thread that owns the pool.                       *)

Init ==
  /\ main = "preload"
  /\ pc = [w \in Workers |-> "awake"]
  /\ work = [w \in Workers |-> NoTask]
  /\ holder = None
  /\ ready = {} /\ enqueued = {} /\ completed = {}
  /\ itemsDone = [u \in Edges |-> 0]
  /\ opened = {} /\ finished = {} /\ finishedEdges = 0
  /\ inFlight = 0 /\ exclusiveBusy = FALSE
  /\ failed = FALSE /\ stalled = FALSE /\ failedEdge = None
  /\ seenPaths = {}

PathsBefore(u) == PathsIn({v \in Restored : v < u})

\* Every restored edge loads and the pool is started on the first tasks.
Preload ==
  /\ main = "preload"
  /\ \A u \in Restored : ~Collides(u, PathsBefore(u))
  /\ Rescan(Restored, Restored, {})
  /\ seenPaths' = PathsIn(Restored)
  /\ main' = "pool"
  /\ UNCHANGED <<pc, work, holder, completed, itemsDone, inFlight,
                 exclusiveBusy, failed, stalled, failedEdge>>

\* The restored edges before u are in place; u does not load, or loads and
\* repeats a path. The pool is never started.
PreloadFails(u, loads) ==
  /\ main = "preload"
  /\ \A v \in Restored : v < u => ~Collides(v, PathsBefore(v))
  /\ IF loads THEN Collides(u, PathsBefore(u)) ELSE u \in Faulty
  /\ failedEdge' = IF loads THEN None ELSE u
  /\ failed' = TRUE
  /\ main' = "done"
  /\ opened' = {v \in Restored : v < u \/ (v = u /\ loads)}
  /\ finished' = opened'
  /\ finishedEdges' = Cardinality(finished')
  /\ seenPaths' = PathsIn(finished')
  /\ UNCHANGED <<pc, work, holder, ready, enqueued, completed, itemsDone,
                 inFlight, exclusiveBusy, stalled>>

Join ==
  /\ main = "pool"
  /\ \A w \in Workers : pc[w] = "exited"
  /\ main' = "done"
  /\ UNCHANGED <<pc, work, holder, graph, inFlight, exclusiveBusy, failed,
                 stalled, failedEdge>>

-----------------------------------------------------------------------------
(* Scheduler::worker. A thread at the head of its loop looks at the queue  *)
(* under mtx, which it may still hold from the task it has just completed. *)

AtLoopHead(w) ==
  /\ main = "pool" /\ pc[w] = "awake"
  /\ holder \in {None, w}

\* Fault: the last edge need not be finished.
OverEarly == failed \/ finishedEdges >= NumEdges - 1

Over == failed \/ finishedEdges >= NumEdges

\* pickTask: thread-safe tasks always qualify, an exclusive one only when
\* the exclusive slot is free.
Dispatchable == {t \in ready : IsExclusive(t) => ~exclusiveBusy}

Leave(w) ==
  /\ AtLoopHead(w)
  /\ Over
  /\ pc' = [NotifyAll(pc) EXCEPT ![w] = "exited"]
  /\ holder' = None
  /\ UNCHANGED <<main, work, graph, inFlight, exclusiveBusy, failed, stalled,
                 failedEdge>>

Pick(w) ==
  /\ AtLoopHead(w)
  /\ ~Over
  /\ \E t \in Dispatchable :
       /\ ready' = ready \ {t}
       /\ work' = [work EXCEPT ![w] = t]
       /\ exclusiveBusy' = (exclusiveBusy \/ IsExclusive(t))
  /\ pc' = [pc EXCEPT ![w] = "running"]
  /\ inFlight' = inFlight + 1
  /\ holder' = None
  /\ UNCHANGED <<main, enqueued, completed, itemsDone, opened, finished,
                 finishedEdges, seenPaths, failed, stalled, failedEdge>>

\* Nothing to pick. With nothing in flight either the build has stalled and
\* is given up; otherwise cv.wait releases mtx and sleeps in one step.
Rest(w) ==
  /\ AtLoopHead(w)
  /\ ~Over
  /\ Dispatchable = {}
  /\ LET stall == ready = {} /\ inFlight = 0
     IN /\ stalled' = stall
        /\ failed' = stall
        /\ pc' = IF stall THEN [NotifyAll(pc) EXCEPT ![w] = "exited"]
                 ELSE [pc EXCEPT ![w] = "waiting"]
  /\ holder' = None
  /\ UNCHANGED <<main, work, graph, inFlight, exclusiveBusy, failedEdge>>

\* A condition variable may return without having been notified.
SpuriousWake(w) ==
  /\ pc[w] = "waiting"
  /\ pc' = [pc EXCEPT ![w] = "awake"]
  /\ UNCHANGED <<main, work, holder, graph, inFlight, exclusiveBusy, failed,
                 stalled, failedEdge>>

\* What a returning task gives back. Fault: any task frees the exclusive slot.
ReturnSlotAny(w) ==
  /\ inFlight' = inFlight - 1
  /\ exclusiveBusy' = FALSE
  /\ work' = [work EXCEPT ![w] = NoTask]

ReturnSlot(w) ==
  /\ inFlight' = inFlight - 1
  /\ exclusiveBusy' = (exclusiveBusy /\ ~IsExclusive(work[w]))
  /\ work' = [work EXCEPT ![w] = NoTask]

Returns(w) ==
  /\ main = "pool" /\ pc[w] = "running"
  /\ holder = None
  /\ ReturnSlot(w)

\* Every input of a bundle has the key of the item.
KeysAgree(t) == t[1] \in Fan => \A n \in Feeds(t[1]) : t[2] \in KeysOf[n]

\* The first failure is the one reported. Fault: the last one is.
LastFailure(u) == u
FirstFailure(u) == IF failed THEN failedEdge ELSE u

FailTask(w) ==
  /\ Returns(w)
  /\ work[w][1] \in Faulty \/ ~KeysAgree(work[w])
  /\ failed' = TRUE
  /\ failedEdge' = FirstFailure(work[w][1])
  /\ pc' = [NotifyAll(pc) EXCEPT ![w] = "awake"]
  /\ holder' = w
  /\ UNCHANGED <<main, graph, stalled>>

Succeed(w) ==
  LET t == work[w]
      u == t[1]
      last == u \in Fan => itemsDone[u] + 1 = Cardinality(KeysOf[u])
      fin == IF last THEN finished \cup {u} ELSE finished
      open == IF u \in Fan THEN opened ELSE opened \cup {u}
      done == completed \cup {t}
  IN
  /\ Returns(w)
  /\ KeysAgree(t)
  /\ completed' = done
  /\ itemsDone' = [itemsDone EXCEPT ![u] = IF u \in Fan THEN @ + 1 ELSE @]
  /\ failed' = (failed \/ (last /\ Collides(u, seenPaths)))
  /\ seenPaths' = IF last THEN seenPaths \cup PathsIn({u}) ELSE seenPaths
  /\ IF failed'
     THEN /\ opened' = open /\ finished' = fin
          /\ finishedEdges' = finishedEdges + (IF last THEN 1 ELSE 0)
          /\ UNCHANGED <<ready, enqueued>>
     ELSE Rescan(open, fin, done)
  /\ LET over == finishedEdges' >= NumEdges
     IN /\ pc' = [NotifyAll(pc) EXCEPT ![w] = IF over THEN "exited" ELSE "awake"]
        /\ holder' = IF over THEN None ELSE w
  /\ UNCHANGED <<main, stalled, failedEdge>>

-----------------------------------------------------------------------------
Worker(w) == Leave(w) \/ Pick(w) \/ Rest(w) \/ FailTask(w) \/ Succeed(w)

Ended == main = "done" /\ UNCHANGED vars

Main == Preload \/ Join \/ \E u \in Restored, loads \in BOOLEAN : PreloadFails(u, loads)

Next ==
  \/ Main \/ Ended
  \/ \E w \in Workers : Worker(w) \/ SpuriousWake(w)

Spec == Init /\ [][Next]_vars

\* The operating system runs every thread that can run, and every action of
\* the graph comes to an end.
FairSpec ==
  /\ Spec
  /\ WF_vars(Main)
  /\ \A w \in Workers : WF_vars(Worker(w))

-----------------------------------------------------------------------------
(* Properties.                                                             *)

\* The state is well formed; no more tasks are in flight than there are
\* threads, and only started threads hold a task.
TypeOK ==
  /\ main \in {"preload", "pool", "done"}
  /\ pc \in [Workers -> {"awake", "waiting", "running", "exited"}]
  /\ work \in [Workers -> BuildTasks \cup {NoTask}]
  /\ holder \in Workers \cup {None}
  /\ ready \subseteq BuildTasks /\ enqueued \subseteq BuildTasks
  /\ completed \subseteq BuildTasks
  /\ itemsDone \in [Edges -> Nat]
  /\ opened \subseteq Reachable /\ finished \subseteq Reachable
  /\ finishedEdges \in Nat
  /\ inFlight \in 0..Cardinality(Workers)
  /\ exclusiveBusy \in BOOLEAN /\ failed \in BOOLEAN /\ stalled \in BOOLEAN
  /\ failedEdge \in Edges \cup {None}

\* At most one task that touches the shared MLIR context runs at a time, and
\* the slot is taken exactly while one does.
ExclusiveAlone ==
  /\ \A w, x \in Running :
       IsExclusive(work[w]) /\ IsExclusive(work[x]) => w = x
  /\ exclusiveBusy <=> \E w \in Running : IsExclusive(work[w])

\* The counters the workers decide by agree with the work they stand for.
CountersAgree ==
  /\ inFlight = Cardinality(Running)
  /\ finishedEdges = Cardinality(finished)
  /\ \A u \in Fan \cap Reachable :
       itemsDone[u] = Cardinality({t \in completed : t[1] = u})

\* A thread sleeps only while it has nothing to do: whatever it could be
\* woken for has woken it.
NoLostWakeup ==
  (\E w \in Workers : pc[w] = "waiting") => ~Over /\ Dispatchable = {}

\* The scheduler never runs out of work with edges left to build.
NeverStalls == ~stalled

\* A build that reports success has finished every edge and run every task,
\* every item of a bundle found its key in every input, and no two files
\* share a path.
SuccessIsComplete ==
  main = "done" /\ ~failed =>
    /\ finished = Reachable
    /\ completed = BuildTasks
    /\ \A u \in (Fan \cap Reachable) \ Satisfied :
         \A n \in Feeds(u) : KeysOf[u] \subseteq KeysOf[n]
    /\ \A u, v \in Reachable : \A i \in DOMAIN Paths[u], j \in DOMAIN Paths[v] :
         Paths[u][i] = Paths[v][j] => u = v /\ i = j

\* The tasks that decide which keys node u has.
KeyMakers[u \in Edges] ==
  IF u \in Satisfied THEN {}
  ELSE IF u \in Fan THEN UNION {KeyMakers[n] : n \in Feeds(u)}
  ELSE {<<u, Whole>>}

\* An edge is opened only when the key set it copies, through any number of
\* fan-out edges, can no longer change.
KeysAreFinal == \A u \in opened : KeyMakers[u] \subseteq completed

\* The edge a node's payload lives in.
PayloadOf[n \in Edges] ==
  IF n \in Alias \ Satisfied THEN PayloadOf[Inputs[n][Len(Inputs[n])]] ELSE n

\* A task of u that runs, or has run, was handed its input to move from.
HasTaken(u) ==
  /\ u \in Fan /\ OwnsInput(u) /\ PayloadOf[Inputs[u][1]] = Inputs[u][1]
  /\ \E t \in TasksOf(u) : t \in completed \/ \E w \in Running : work[w] = t

\* A payload that a task has taken is neither read by a task of another edge
\* nor written out after the run.
TakenIsNotRead ==
  \A u \in Reachable \ Restored : HasTaken(u) =>
    /\ \A w \in Running : work[w][1] # u =>
         Inputs[u][1] \notin {PayloadOf[n] : n \in Feeds(work[w][1])}
    /\ main = "done" /\ ~failed =>
         Inputs[u][1] \notin {PayloadOf[n] : n \in Outputs \cup BuildAlso}

\* Once the build has failed no further task starts, and the edge reported
\* is the one that failed first.
FailureStops ==
  [][failed => /\ \A w \in Workers : pc'[w] = "running" => pc[w] = "running"
               /\ failedEdge' = failedEdge]_vars

\* The pool always comes to an end, also after a failure.
Terminates == <>(main = "done")

-----------------------------------------------------------------------------
(* The engine implements the abstract data flow. What a task needs is      *)
(* stated from the graph alone: the tasks that produce the items it reads. *)

NeedsOf(t) ==
  IF t[1] \in Fan
  THEN UNION {IF n \in Fan
              THEN {<<n, t[2]>>} \cap TasksOf(n) ELSE TasksOf(n)
                : n \in Feeds(t[1]) \ Satisfied}
  ELSE UNION {TasksOf(n) : n \in Feeds(t[1]) \ Satisfied}

Dataflow == INSTANCE AieccDataflow WITH
  Tasks <- BuildTasks,
  Needs <- [t \in BuildTasks |-> NeedsOf(t)],
  Exclusive <- {t \in BuildTasks : IsExclusive(t)},
  running <- {work[w] : w \in Running},
  done <- completed,
  failed <- failed

\* The engine is an implementation of the data flow.
ImplementsDataflow == Dataflow!Spec

-----------------------------------------------------------------------------
(* The inductive invariant behind the theorems.                            *)

\* A task enqueued once is in one place at most: in the queue, with one
\* thread, or done.
OnePlace ==
  /\ ready \cup completed \cup {work[w] : w \in Running} \subseteq enqueued
  /\ ready \cap completed = {}
  /\ \A w \in Running : work[w] \notin ready \cup completed
  /\ \A w, x \in Running : work[w] = work[x] => w = x

\* What an enqueued task reads is in place, and a finished edge is complete.
ResultsInPlace ==
  /\ \A t \in enqueued : NeedsOf(t) \subseteq completed
  /\ \A u \in finished \ Satisfied : TasksOf(u) \subseteq completed
  /\ IsFiniteSet(completed)

\* Threads move only while the pool is up.
Phases ==
  /\ main = "preload" => /\ pc = [w \in Workers |-> "awake"]
                         /\ enqueued = {} /\ finished = {} /\ opened = {}
                         /\ ~failed
  /\ main # "pool" => Running = {}

\* Nothing is left behind: what may run was enqueued and what was enqueued is
\* in one place at least, what may open is open, and an edge whose tasks are
\* done is finished.
NothingLeft ==
  /\ Restored \subseteq finished /\ finished \subseteq opened
  /\ enqueued \subseteq ready \cup completed \cup {work[w] : w \in Running}
  /\ \A t \in enqueued : t[1] \in Fan => t[1] \in opened
  /\ \A u \in Fan \cap Reachable : Feeds(u) \subseteq opened => u \in opened
  /\ Runnable(opened, finished, completed) = {}
  /\ \A u \in Reachable \ Satisfied :
       (u \in Fan => u \in opened) /\ TasksOf(u) \subseteq completed
         => u \in finished

\* So it is while the build goes on, which then never runs dry.
Progress == ~stalled /\ (main # "preload" /\ ~failed => NothingLeft)

\* Threads leave, and the run ends, only when the build is over; the items
\* that are done found their keys; the paths of the finished edges are apart.
Truthful ==
  /\ main = "done" \/ (\E w \in Workers : pc[w] = "exited") => Over
  /\ \A t \in completed : KeysAgree(t)
  /\ ~failed =>
       /\ PathsIn(finished) \subseteq seenPaths
       /\ \A u, v \in finished : \A i \in DOMAIN Paths[u], j \in DOMAIN Paths[v] :
            Paths[u][i] = Paths[v][j] => u = v /\ i = j

IndInv ==
  /\ TypeOK /\ ExclusiveAlone /\ CountersAgree /\ NoLostWakeup
  /\ OnePlace /\ ResultsInPlace /\ Phases

BuildInv == IndInv /\ Progress /\ Truthful
=============================================================================
