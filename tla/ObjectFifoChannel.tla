------------------------- MODULE ObjectFifoChannel -------------------------
(***************************************************************************)
(* What an objectFifo pool promises, without its locks, buffers and        *)
(* descriptor chains: every segment is a first-in-first-out channel of at  *)
(* most Depth objects.  A filler publishes objects in order, several at    *)
(* once if it likes; a drainer retires them in the same order.             *)
(***************************************************************************)
EXTENDS Integers, Sequences

CONSTANTS Segments, Depth, Filled

VARIABLES
  queue,   \* [Segments -> numbers of the objects published and not retired]
  sent     \* [Segments -> objects published so far, initial contents included]

ChannelTypeOK ==
  /\ queue \in [Segments -> Seq(Nat)]
  /\ sent \in [Segments -> Nat]

Init ==
  /\ queue = [s \in Segments |-> [i \in 1 .. Filled |-> i]]
  /\ sent = [s \in Segments |-> Filled]

Publish(s, m) ==
  /\ Len(queue[s]) + m <= Depth
  /\ queue' = [queue EXCEPT ![s] = @ \o [i \in 1 .. m |-> sent[s] + i]]
  /\ sent' = [sent EXCEPT ![s] = @ + m]

Retire(s, m) ==
  /\ m <= Len(queue[s])
  /\ queue' = [queue EXCEPT ![s] = SubSeq(@, m + 1, Len(@))]
  /\ UNCHANGED sent

Next == \E s \in Segments, m \in 1 .. Depth : Publish(s, m) \/ Retire(s, m)

Spec == Init /\ [][Next]_<<queue, sent>>
=============================================================================
