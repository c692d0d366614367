-------------------------- MODULE RuntimeQueueGuard --------------------------
(***************************************************************************)
(* guardSequenceQueueDepth: which pushes of a runtime sequence with loops  *)
(* and conditionals can find the task queue of their channel full, so that *)
(* a poll for a free slot is put before them. The analysis carries the     *)
(* states the queue may be in along all paths of the sequence, until no    *)
(* operation adds a state; then a controller runs the guarded sequence on  *)
(* the channel.                                                            *)
(*                                                                         *)
(* A sequence is the operations on one channel, each at a place and with   *)
(* the places control may go to next: pushes, awaits, polls for a free     *)
(* slot that earlier passes put there, and the "for", "if" and "while"     *)
(* operations. The body of one of these stands at places of its own, and   *)
(* the last operation of a loop's body goes back to the loop. A loop whose *)
(* constant bounds allow no trip only goes on to what follows it.          *)
(***************************************************************************)
EXTENDS DmaQueueModel

CONSTANTS
  Sequences,  \* the runtime sequences
  MaxTrips    \* bound: loop trips in a run, over all loops

Operations ==
  [op : {"push", "await", "poll", "for", "if", "while"}, token : BOOLEAN,
   next : SUBSET Nat, body : SUBSET Nat]

\* Control leaves the region of a "while" through the operation itself.
IsSequence(s) ==
  /\ s \in Seq(Operations)
  /\ \A p \in DOMAIN s :
       /\ s[p].next \subseteq 1..Len(s) + 1
       /\ s[p].op = "while" =>
            /\ s[p].body \subseteq DOMAIN s
            /\ \A i \in s[p].body : s[i].next \subseteq s[p].body \cup {p}

ASSUME SequencesAssumption == \A s \in Sequences : IsSequence(s)

VARIABLES
  sequence,  \* the runtime sequence
  reached,   \* the places the analysis has come to, each with a queue state
  guarded,   \* the places of the pushes that get a poll
  exit,      \* the state the analysis leaves to its caller
  place,     \* where the controller is; 0 before the sequence is compiled
  trips,     \* loop trips so far
  fifo,      \* the pushes the channel has not completed
  busy,      \* the head of them runs
  credit,    \* tokens produced and not consumed
  overrun    \* a push hit a full queue

analysis == <<reached, guarded, exit>>
channel == <<fifo, busy, credit, overrun>>
guardVars == <<sequence, analysis, place, trips, channel>>

End == Len(sequence) + 1

-----------------------------------------------------------------------------
(* The analysis: the queue states after an operation. *)

Full == [pushes |-> [i \in 1..Depth |-> FALSE], unknownTokens |-> TRUE]

\* The pushes in a region whose semantics is not known.
PushesIn(w) == {p \in sequence[w].body : sequence[p].op = "push"}

\* Such a region is not followed: if there are pushes in it the queue may be
\* full after it, and no token can be told apart any more.
UnknownRegion(w, m) == IF PushesIn(w) = {} THEN m ELSE Full

StateAfter(p, m) ==
  CASE sequence[p].op = "push" -> GuardedPushModel(m, sequence[p].token)
    [] sequence[p].op = "await" -> AwaitModel(m)
    [] sequence[p].op = "poll" -> SpaceModel(m)
    [] sequence[p].op = "while" -> UnknownRegion(p, m)
    [] OTHER -> m

PlacesAfter(p) ==
  IF sequence[p].op = "while" THEN sequence[p].next \ sequence[p].body
                              ELSE sequence[p].next

\* Fault: a place a state has come to is done with, a loop's header like any.
SuccessorsOnce ==
  UNION {{<<n, StateAfter(x[1], x[2])>> :
            n \in PlacesAfter(x[1]) \ {y[1] : y \in reached}} :
           x \in {y \in reached : y[1] # End}}

Successors ==
  UNION {{<<n, StateAfter(x[1], x[2])>> : n \in PlacesAfter(x[1])} :
           x \in {y \in reached : y[1] # End}}

\* Every state reached goes on through the operation at its place. A loop's
\* header so collects the states of any number of trips, none included.
Analyze ==
  /\ place = 0 /\ ~(Successors \subseteq reached)
  /\ reached' = reached \cup Successors
  /\ UNCHANGED <<sequence, guarded, exit, place, trips, channel>>

StatesAt(p) == {x[2] : x \in {y \in reached : y[1] = p}}

\* The pushes some path brings to a full queue, and all in an unknown region.
Overflowing ==
  {p \in DOMAIN sequence :
     sequence[p].op = "push" /\ \E m \in StatesAt(p) : WouldOverflow(m)}
  \cup UNION {PushesIn(w) : w \in {v \in DOMAIN sequence :
                sequence[v].op = "while" /\ StatesAt(v) # {}}}

\* Fault: the paths agree on the shortest queue.
ExitShortest(states) ==
  [pushes |-> [i \in 1..Min({Len(s.pushes) : s \in states}) |-> FALSE],
   unknownTokens |-> TRUE]

\* What a caller is told the sequence leaves behind.
ExitState(states) ==
  IF \E s \in states : states = {s} THEN CHOOSE s \in states : TRUE
  ELSE [pushes |-> [i \in 1..Max({Len(s.pushes) : s \in states}) |-> FALSE],
        unknownTokens |-> TRUE]

\* Nothing new appears: the polls are put in, and the sequence is loaded.
Guard ==
  /\ place = 0 /\ Successors \subseteq reached
  /\ guarded' = Overflowing
  /\ exit' = ExitState(StatesAt(End))
  /\ place' = 1
  /\ UNCHANGED <<sequence, reached, trips, channel>>

-----------------------------------------------------------------------------
(* The controller executes the guarded sequence. *)

Queued == Len(fifo) - (IF busy THEN 1 ELSE 0)

At(op) == place \in DOMAIN sequence /\ sequence[place].op = op

GoOn == place' \in sequence[place].next /\ UNCHANGED <<sequence, analysis, trips>>

IssuePush ==
  /\ At("push") /\ GoOn
  /\ place \in guarded => Queued < Depth
  /\ fifo' = IF Queued < Depth
             THEN Append(fifo, [token |-> sequence[place].token]) ELSE fifo
  /\ overrun' = (overrun \/ Queued >= Depth)
  /\ UNCHANGED <<busy, credit>>

IssueAwait ==
  /\ At("await") /\ GoOn
  /\ credit > 0 /\ credit' = credit - 1
  /\ UNCHANGED <<fifo, busy, overrun>>

IssuePoll ==
  /\ At("poll") /\ GoOn
  /\ Queued < Depth
  /\ UNCHANGED channel

Enter ==
  /\ At("for") \/ At("while")
  /\ place' \in sequence[place].next \cap sequence[place].body
  /\ trips < MaxTrips /\ trips' = trips + 1
  /\ UNCHANGED <<sequence, analysis, channel>>

Leave ==
  /\ At("for") \/ At("while")
  /\ place' \in sequence[place].next \ sequence[place].body
  /\ UNCHANGED <<sequence, analysis, trips, channel>>

Branch == At("if") /\ GoOn /\ UNCHANGED channel

-----------------------------------------------------------------------------
(* The channel. *)

TakeTask ==
  /\ fifo # <<>> /\ ~busy
  /\ busy' = TRUE
  /\ UNCHANGED <<sequence, analysis, place, trips, fifo, credit, overrun>>

CompleteTask ==
  /\ busy
  /\ fifo' = Tail(fifo) /\ busy' = FALSE
  /\ credit' = IF fifo[1].token THEN credit + 1 ELSE credit
  /\ UNCHANGED <<sequence, analysis, place, trips, overrun>>

-----------------------------------------------------------------------------
GuardInit ==
  /\ sequence \in Sequences
  /\ reached = {<<1, Empty>>}
  /\ guarded = {} /\ exit = Empty
  /\ place = 0 /\ trips = 0
  /\ fifo = <<>> /\ busy = FALSE /\ credit = 0
  /\ overrun = FALSE

GuardNext ==
  \/ Analyze \/ Guard
  \/ IssuePush \/ IssueAwait \/ IssuePoll \/ Enter \/ Leave \/ Branch
  \/ TakeTask \/ CompleteTask

GuardSpec == GuardInit /\ [][GuardNext]_guardVars

-----------------------------------------------------------------------------
\* On no path of the sequence does a push hit a full queue: the pushes that
\* could are behind a poll.
NoPushLost == ~overrun

\* What the caller is told covers every path: no more pushes wait than the
\* exit state holds, and where it tells tokens apart it owes those that come.
ExitCovers == place = End => Models(exit, fifo, Queued, credit)

-----------------------------------------------------------------------------
(* The inductive invariant. *)

States == [pushes : Seq(BOOLEAN), unknownTokens : BOOLEAN]

GuardTyped ==
  /\ IsSequence(sequence)
  /\ \A x \in reached : /\ x[1] \in 1..End /\ x[2] \in States
                        /\ Len(x[2].pushes) <= Depth
                        /\ x = <<x[1], x[2]>>
  /\ guarded \subseteq DOMAIN sequence
  /\ place \in 0..End /\ trips \in Nat
  /\ fifo \in Seq([token : BOOLEAN]) /\ busy \in BOOLEAN /\ credit \in Nat
  /\ busy => fifo # <<>>

\* The analysis starts with an empty queue; once it is through, every state
\* has gone through the operation at its place.
Analyzed ==
  /\ <<1, Empty>> \in reached
  /\ place # 0 =>
       /\ Successors \subseteq reached
       /\ guarded = Overflowing /\ exit = ExitState(StatesAt(End))

\* One of the states the analysis has for the place is the queue's.
Followed == \E m \in StatesAt(place) : Models(m, fifo, Queued, credit)

\* Or control is in an unknown region, and the states are those before it.
InRegion(w) ==
  /\ sequence[w].op = "while"
  /\ place \in sequence[w].body \cup {w}
  /\ \E m \in StatesAt(w) :
       IF PushesIn(w) = {} THEN Models(m, fifo, Queued, credit)
                           ELSE Queued <= Depth

Covered == Followed \/ \E w \in DOMAIN sequence : InRegion(w)

Unstarted == place = 0 => fifo = <<>> /\ ~busy /\ credit = 0

GuardInv ==
  /\ GuardTyped /\ Analyzed /\ Unstarted
  /\ place # 0 => Covered
  /\ NoPushLost
=============================================================================
