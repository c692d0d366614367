---------------------------- MODULE DynamicBdPool ----------------------------
(***************************************************************************)
(* Buffer descriptor ids of a runtime sequence whose loops stay rolled     *)
(* (AIELowerDynamicBDPool.cpp): the pass lets every configure pop an id    *)
(* from a free list and every free push it back (TxnEncoding.h), carries   *)
(* the ids along with the tasks through loops and conditionals, and        *)
(* rejects a start that may run after its task was freed.                  *)
(*                                                                         *)
(* A sequence is written first, then lowered, then run. It has at most one *)
(* loop and one conditional, either in the other or apart, and at most one *)
(* configure in each of their blocks. Tasks are of one BD on one channel;  *)
(* an await neither pushes nor pops and is left out.                       *)
(***************************************************************************)
EXTENDS Integers, FiniteSets, SequencesExt

CONSTANTS
  BdBegin, BdEnd,  \* the ids the channel can submit: BdBegin .. BdEnd - 1
  StaticIds,       \* those among them that static DMAs own
  kMaxBDsPerTile,  \* the length of a free list's array
  MaxUses,         \* bound: starts and frees in a sequence
  MaxConfigures,   \* bound: its configures
  MaxTrips,        \* bound: trips of the loop
  None

PoolIds == (BdBegin .. BdEnd - 1) \ StaticIds

\* A task is known by the block of its configure, and by the loop's argument,
\* the loop's result and the conditional's result.
Names == {"top", "late", "loop", "then", "else", "arg", "result", "phi"}

ASSUME NoneAssumption == None \notin Names
ASSUME IdsAssumption ==
  /\ BdBegin \in Nat /\ BdEnd \in Nat /\ PoolIds # {}
  /\ kMaxBDsPerTile \in Nat /\ BdEnd <= kMaxBDsPerTile

VARIABLES
  text,     \* the operations of the sequence, in order
  open,     \* the blocks that are open where it is being written
  phase,    \* "write", "run", "over", "rejected", or "refused" at run time
  pc,       \* the operation that runs next
  trips,    \* trips made
  pool,     \* the free list; ids are popped and pushed at its end
  ids,      \* ids[n]: the id that is carried along with name n
  task,     \* task[n]: the task that n names, by number
  popped,   \* history: popped[t]: the id task t was given
  freed,    \* history: tasks that were freed
  twice,    \* history: one was freed twice
  strayed   \* history: one was started with an id that is not its own

written == <<text, open>>
history == <<popped, freed, twice, strayed>>
vars == <<written, phase, pc, trips, pool, ids, task, history>>

-----------------------------------------------------------------------------
(* The text of a sequence. *)

Has(op) == \E i \in DOMAIN text : text[i].op = op

At(op) == CHOOSE i \in DOMAIN text : text[i].op = op

\* Where what an operation defines can be used.
Scope(o) == IF o.op = "for" THEN Append(o.in, "loop") ELSE o.in

InScope ==
  {text[i].def : i \in {j \in DOMAIN text : IsPrefix(Scope(text[j]), open)}} \ {None}

DefinedInLoop(n) ==
  \E i \in DOMAIN text : text[i].def = n /\ "loop" \in ToSet(Scope(text[i]))

Uses == {i \in DOMAIN text : text[i].op \in {"start", "free"}}

Innermost == IF open = <<>> THEN "top" ELSE Last(open)

Write(op, n, def, in) ==
  text' = Append(text, [op |-> op, task |-> n, def |-> def, in |-> in])

WriteUse ==
  /\ Cardinality(Uses) < MaxUses
  /\ \E op \in {"start", "free"}, n \in InScope : Write(op, n, None, open)
  /\ UNCHANGED open

WriteConfigure ==
  /\ Cardinality({i \in DOMAIN text : text[i].op = "configure"}) < MaxConfigures
  /\ LET def == IF open = <<>> /\ Has("for") THEN "late" ELSE Innermost
     IN /\ \A i \in DOMAIN text : text[i].def # def
        /\ Write("configure", None, def, open)
  /\ UNCHANGED open

WriteFor ==
  /\ ~Has("for")
  /\ \E n \in InScope \cup {None} :
       Write("for", n, IF n = None THEN None ELSE "arg", open)
  /\ open' = Append(open, "loop")

WriteNext ==
  /\ Innermost = "loop"
  /\ open' = Front(open)
  /\ IF text[At("for")].task = None
     THEN Write("next", None, None, open')
     ELSE \E n \in InScope : Write("next", n, "result", open')

WriteIf ==
  /\ ~Has("if")
  /\ Write("if", None, None, open)
  /\ open' = Append(open, "then")

WriteElse ==
  /\ Innermost = "then"
  /\ open' = Append(Front(open), "else")
  /\ \E n \in InScope \cup {None} : Write("else", n, None, Front(open))

WriteFi ==
  /\ Innermost = "else"
  /\ open' = Front(open)
  /\ \E n \in InScope \cup {None} :
       Write("fi", n, IF n = None THEN None ELSE "phi", open')

Writes ==
  /\ phase = "write"
  /\ WriteUse \/ WriteConfigure \/ WriteFor \/ WriteNext \/ WriteIf \/ WriteElse
       \/ WriteFi
  /\ UNCHANGED <<phase, pc, trips, pool, ids, task, history>>

-----------------------------------------------------------------------------
(* The pass. *)

\* Where a name is handed on: loop operands to the argument and the result,
\* also without a trip, what the arms yield to the conditional's result.
Flows ==
  {<<text[i].task, n>> : i \in {j \in DOMAIN text : text[j].op \in {"for", "next"}},
                         n \in {"arg", "result"}}
  \cup {<<text[i].task, "phi">> : i \in {j \in DOMAIN text : text[j].op \in {"else", "fi"}}}

\* aliasesAfter: every name that may carry the id after n.
AliasesAfter(n) ==
  LET derived == {"arg", "result", "phi"}
      Closed(S) == \A f \in Flows : f[1] \in S \cup {n} => f[2] \in S
  IN {n} \cup {m \in derived : \A S \in SUBSET derived : Closed(S) => m \in S}

\* Later in the block the two operations share; the arms of a conditional
\* share none.
LaterInBlock(f, s) ==
  /\ f < s
  /\ ~("then" \in ToSet(text[f].in) /\ "else" \in ToSet(text[s].in))

\* Fault: only the loop's own argument is looked at.
NextTripArg(f, s) ==
  /\ {"loop"} \subseteq ToSet(text[f].in) \cap ToSet(text[s].in)
  /\ text[s].task = "arg" /\ text[At("next")].task \in AliasesAfter(text[f].task)

\* In a loop around both, whose next trip still names the freed task.
NextTrip(f, s) ==
  /\ {"loop"} \subseteq ToSet(text[f].in) \cap ToSet(text[s].in)
  /\ \/ ~DefinedInLoop(text[s].task)
     \/ text[s].task = "arg" /\ text[At("next")].task \in AliasesAfter(text[f].task)

\* verifyNoStartAfterFree.
StartAfterFree(f, s) ==
  /\ text[f].op = "free" /\ text[s].op = "start"
  /\ text[s].task \in AliasesAfter(text[f].task)
  /\ LaterInBlock(f, s) \/ NextTrip(f, s)

\* carryIdsThroughIf wants a task from both arms or from neither.
DivergentYield == Has("if") /\ (text[At("else")].task = None) # (text[At("fi")].task = None)

Accepted == ~DivergentYield /\ \A f, s \in DOMAIN text : ~StartAfterFree(f, s)

\* Only a sequence with a loop or a conditional comes to the pass.
Lower ==
  /\ phase = "write" /\ open = <<>> /\ Cardinality(Uses) = MaxUses
  /\ Has("for") \/ Has("if")
  /\ phase' = IF Accepted THEN "run" ELSE "rejected"
  /\ UNCHANGED <<written, pc, trips, pool, ids, task, history>>

-----------------------------------------------------------------------------
(* The builder the sequence becomes, at run time. *)

\* bd_pool_init_range and bd_pool_reserve: ids are stacked from the highest
\* down, so that the lowest is popped first, and those in use are withheld.
FreshPool ==
  LET stack[n \in 0 .. BdEnd - BdBegin] ==
        IF n = 0 THEN <<>>
        ELSE IF BdEnd - n \in StaticIds THEN stack[n - 1]
        ELSE Append(stack[n - 1], BdEnd - n)
  IN stack[BdEnd - BdBegin]

\* Fault: the placeholder yield of a loop stays in place.
CarriedPlaceholder(n) == IF text[pc].op = "next" THEN "arg" ELSE n

\* wireFixups: an id is yielded where its task is.
Carried(n) == n

Goto(i) == pc' = i /\ UNCHANGED <<written, phase>>

\* A task is handed on to a name, and its id to the name beside it.
HandOn(to, n) ==
  IF n = None THEN UNCHANGED <<ids, task>>
  ELSE /\ ids' = [ids EXCEPT ![to] = ids[Carried(n)]]
       /\ task' = [task EXCEPT ![to] = task[n]]

Op(op) == phase = "run" /\ pc \in DOMAIN text /\ text[pc].op = op

\* dma_bd_pool_pop, for which an empty pool is the end of the stream.
Configure ==
  /\ Op("configure")
  /\ IF pool = <<>>
     THEN /\ phase' = "refused"
          /\ UNCHANGED <<written, pc, pool, ids, task, popped>>
     ELSE /\ Goto(pc + 1)
          /\ pool' = Front(pool)
          /\ ids' = [ids EXCEPT ![text[pc].def] = Last(pool)]
          /\ task' = [task EXCEPT ![text[pc].def] = Len(popped) + 1]
          /\ popped' = Append(popped, Last(pool))
  /\ UNCHANGED <<trips, freed, twice, strayed>>

Start ==
  /\ Op("start")
  /\ Goto(pc + 1)
  /\ LET n == text[pc].task
     IN strayed' = (strayed \/ task[n] \in freed \/ ids[n] # popped[task[n]])
  /\ UNCHANGED <<trips, pool, ids, task, popped, freed, twice>>

\* dma_bd_pool_push, which drops an id for which the list has no room.
Free ==
  /\ Op("free")
  /\ Goto(pc + 1)
  /\ LET n == text[pc].task
     IN /\ pool' = IF Len(pool) < kMaxBDsPerTile THEN Append(pool, ids[n]) ELSE pool
        /\ freed' = freed \cup {task[n]}
        /\ twice' = (twice \/ task[n] \in freed)
  /\ UNCHANGED <<trips, ids, task, popped, strayed>>

For ==
  /\ Op("for")
  /\ \/ Goto(pc + 1) /\ trips' = 1 /\ HandOn("arg", text[pc].task)
     \/ Goto(At("next") + 1) /\ HandOn("result", text[pc].task) /\ UNCHANGED trips
  /\ UNCHANGED <<pool, history>>

NextTripOrOut ==
  /\ Op("next")
  /\ \/ /\ trips < MaxTrips /\ trips' = trips + 1
        /\ Goto(At("for") + 1) /\ HandOn("arg", text[pc].task)
     \/ Goto(pc + 1) /\ HandOn("result", text[pc].task) /\ UNCHANGED trips
  /\ UNCHANGED <<pool, history>>

If ==
  /\ Op("if")
  /\ Goto(pc + 1) \/ Goto(At("else") + 1)
  /\ UNCHANGED <<trips, pool, ids, task, history>>

\* The end of either arm.
EndArm ==
  /\ Op("else") \/ Op("fi")
  /\ Goto(At("fi") + 1) /\ HandOn("phi", text[pc].task)
  /\ UNCHANGED <<trips, pool, history>>

End ==
  /\ phase = "run" /\ pc > Len(text)
  /\ phase' = "over"
  /\ UNCHANGED <<written, pc, trips, pool, ids, task, history>>

Init ==
  /\ text = <<>> /\ open = <<>> /\ phase = "write"
  /\ pc = 1 /\ trips = 0
  /\ pool = FreshPool
  /\ ids = [n \in Names |-> None] /\ task = [n \in Names |-> 0]
  /\ popped = <<>> /\ freed = {} /\ twice = FALSE /\ strayed = FALSE

Next ==
  \/ Writes \/ Lower
  \/ Configure \/ Start \/ Free \/ For \/ NextTripOrOut \/ If \/ EndArm \/ End

Spec == Init /\ [][Next]_vars

-----------------------------------------------------------------------------
(* Properties. *)

Opposite(i, j) ==
  \/ "then" \in ToSet(text[i].in) /\ "else" \in ToSet(text[j].in)
  \/ text[i].op = "else" /\ (text[j].op = "fi" \/ "else" \in ToSet(text[j].in))

\* Each task goes by one name at a time: a name that is handed on is not used
\* after it, and none from outside a loop is handed on inside it.
OneNameEach ==
  \A i \in DOMAIN text :
    text[i].op \in {"for", "next", "else", "fi"} /\ text[i].task # None =>
      /\ \A j \in i + 1 .. Len(text) :
           text[j].task = text[i].task => Opposite(i, j)
      /\ text[i].op = "next" \/ (text[i].op # "for" /\ "loop" \in ToSet(text[i].in)) =>
           DefinedInLoop(text[i].task)
      /\ text[i].op \in {"else", "fi"} /\ "loop" \in ToSet(text[i].in) =>
           text[i].task # "arg"

\* In a sequence the pass accepts, whose tasks go by one name each and are
\* freed at most once, every start finds the id its task was given, still its
\* own, on every path and in every trip: verifyNoStartAfterFree and the ids
\* that are carried beside the tasks.
StartsOwnIds == OneNameEach /\ ~twice => ~strayed

\* The same of every sequence the pass accepts, whatever its tasks go by: no
\* start runs after the free of its task (the comment of
\* verifyNoStartAfterFree).
NoStartAfterFree == ~twice => ~strayed

\* While no task is freed twice the pool has exactly the ids that no unfreed
\* task has, each once (bd_pool_pop, bd_pool_push, bd_pool_reserve and the ids
\* carried to each push): none is lost, handed to two tasks, or taken from a
\* static DMA, and a sequence is refused only when its tasks have them all.
PoolIsExact ==
  ~twice /\ phase # "write" =>
    /\ IsInjective(pool)
    /\ ToSet(pool) = PoolIds \ {popped[t] : t \in DOMAIN popped \ freed}
=============================================================================
