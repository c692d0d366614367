--------------------------- MODULE DmaQueueModel ---------------------------
(***************************************************************************)
(* DmaQueueModel: what the compiler knows of the task queue of one DMA     *)
(* channel along a path of the runtime sequence. A queue is the sequence   *)
(* of the pushes it may still hold, oldest first, each TRUE when it issues *)
(* a completion token an await can be credited to.                         *)
(***************************************************************************)
EXTENDS Integers, Sequences, FiniteSetsExt

CONSTANT Depth  \* slots of a channel's task queue

ASSUME DepthAssumption == Depth \in Nat \ {0}

Empty == [pushes |-> <<>>, unknownTokens |-> FALSE]

PushModel(m, token) ==
  [m EXCEPT !.pushes = Append(@, token /\ ~m.unknownTokens)]

\* A token names no task: it retires the oldest push that issues one, and
\* what is queued ahead of it.
AwaitModel(m) ==
  LET issuing == {i \in DOMAIN m.pushes : m.pushes[i]}
  IN IF m.unknownTokens \/ issuing = {} THEN m
     ELSE [m EXCEPT !.pushes = SubSeq(@, Min(issuing) + 1, Len(@))]

\* A poll for a free slot leaves the newest Depth - 1 pushes. Once it has let
\* go of a push that issues a token, no token can be told apart any more.
SpaceModel(m) ==
  LET over == Len(m.pushes) - (Depth - 1)
      lost == m.unknownTokens \/ \E i \in 1..over : m.pushes[i]
      kept == SubSeq(m.pushes, over + 1, Len(m.pushes))
  IN IF over <= 0 THEN m
     ELSE [pushes |-> [i \in DOMAIN kept |-> kept[i] /\ ~lost],
           unknownTokens |-> lost]

\* Fault: the push that finds the queue full passes for the last that fits.
WouldOverflowLate(m) == Len(m.pushes) > Depth

WouldOverflow(m) == Len(m.pushes) >= Depth

\* A push on a queue that may be full, behind a poll for a free slot.
GuardedPushModel(m, token) ==
  PushModel(IF WouldOverflow(m) THEN SpaceModel(m) ELSE m, token)

-----------------------------------------------------------------------------
(* What the model promises of the queue of the channel, a sequence of pushes *)
(* that issue a token or not.                                               *)

\* The pushes of a queue that issue a token, counted from the newest.
Owing(s) == {k \in 0..Len(s) - 1 : s[Len(s) - k].token}

OwingInModel(m) == {k \in 0..Len(m.pushes) - 1 : m.pushes[Len(m.pushes) - k]}

\* The queue model holds all that waits. While it tells tokens apart, it owes
\* every token that was produced or will be, and agrees on what waits.
Models(m, q, waiting, produced) ==
  /\ waiting <= Len(m.pushes)
  /\ ~m.unknownTokens =>
       /\ produced + Cardinality(Owing(q)) <= Cardinality(OwingInModel(m))
       /\ \A k \in 0..waiting - 1 : k \in OwingInModel(m) <=> k \in Owing(q)
=============================================================================
