--------------------------- MODULE RuntimeBdIdsInv ---------------------------
(***************************************************************************)
(* Why the BD ids stay right: the inductive invariant behind the safety    *)
(* properties of RuntimeBdIds. What the pass keeps of a channel (model,    *)
(* pushes, finished) is compared with the queue of the array from the      *)
(* newest push backwards, since both lose their oldest pushes first.       *)
(***************************************************************************)
EXTENDS RuntimeBdIds

\* A start is one of those to come, a poll counts pushes there are, and what
\* runs is at the head of its queue.
Counted ==
  /\ next.op = "start" => left[next.task] > 0
  /\ \A c \in Channels : /\ finished[c] <= Len(pushes[c])
                         /\ running[c] => queue[c] # <<>>

Typed == TypeOK /\ Counted

-----------------------------------------------------------------------------
(* Which tasks a reclaim can turn to.                                      *)

Unfinished(p, done, t) == \E i \in done + 1..Len(p) : p[i].task = t

\* A task that was started is known to be complete or has a push that is not
\* known to be finished, which a poll can wait for.
Accounted ==
  \A t \in Tasks :
    LET c == shape[t].channel
    IN left[t] < shape[t].starts =>
         t \in knownComplete \cup pollProven \/ Unfinished(pushes[c], finished[c], t)

-----------------------------------------------------------------------------
(* The ids, while no program frees a task twice.                           *)

Live == Tasks \ (releasedTasks \cup unloaded)

\* The ids of tasks that were not released are apart.
IdsApart ==
  \A t, u \in Live : t # u => ids[t] \cap ids[u] = {}

\* A release that is due is of a task no free has taken the ids of.
DueOnce ==
  /\ \A t \in pendingAwaitReleases : ~FreedByHand(t)
  /\ next.op \in {"free", "await"} => ~FreedByHand(next.task)

\* A pinned id is free until its configure has taken it.
PinIsFree ==
  next.op = "configure" /\ Pinned(next.task) => shape[next.task].pin \notin assigned

IdsInv == OwnersKeepIds /\ IdsApart /\ DueOnce /\ PinIsFree

-----------------------------------------------------------------------------
(* What the pass knows of a channel covers what the array holds, while the  *)
(* queue depth is enforced.                                                 *)

ModelCovers ==
  \A c \in Channels : Models(model[c], queue[c], Waiting(c), tokens[c])

\* So do the pushes no await has retired, but for those a poll proved finished.
Records(p, done, q, produced) ==
  /\ Len(q) <= Len(p) - done
  /\ produced + Cardinality(Owing(q)) <= Cardinality(Owing(p))
  /\ \A k \in 0..Len(q) - 1 : /\ p[Len(p) - k].task = q[Len(q) - k].task
                             /\ p[Len(p) - k].token = q[Len(q) - k].token

PushesCover ==
  \A c \in Channels : Records(pushes[c], finished[c], queue[c], tokens[c])

\* A task is pushed on its channel.
OnItsChannel ==
  \A c \in Channels : \A i \in DOMAIN pushes[c] : shape[pushes[c][i].task].channel = c

QueueInv == ~dropped /\ ModelCovers /\ PushesCover /\ OnItsChannel /\ ProvenIsFinished

-----------------------------------------------------------------------------
(* Whose BDs the array holds.                                              *)

\* The task that is configured has not been pushed, released or proved
\* anything of; one that is started was not released.
AtHand ==
  /\ next.op = "configure" =>
       LET t == next.task
       IN /\ t = Len(shape) /\ t \in Live \ (knownComplete \cup pollProven)
          /\ \A c \in Channels : \A i \in DOMAIN pushes[c] : pushes[c][i].task # t
  /\ next.op = "start" => next.task \in Live

\* What an await, a reclaim or a load has released is through.
ReleasedDone ==
  /\ awaitedConfigures \cup reclaimed \subseteq releasedTasks
  /\ \A t \in awaitedConfigures \cup reclaimed \cup unloaded : ~InFlight(t)

\* What a free has given away in flight is noted until the id is handed on.
FreedNoted ==
  \A t \in releasedTasks \ warned :
    InFlight(t) => \A id \in ids[t] : freedInFlight[id] = t

\* The BDs of these must stay.
Owners == Live \cup {t \in Tasks \ warned : InFlight(t)}

OwnersApart ==
  \A t \in Owners :
    /\ ids[t] \cap Static = {}
    /\ \A u \in Owners \ {t} : ids[t] \cap ids[u] = {}

\* They are there, but for the last task while it is configured.
OwnersProgrammed ==
  \A t \in Owners :
    \/ \A id \in ids[t] : programmed[id] = t
    \/ /\ t = Len(shape) /\ next.op \in {"configure", "refused"}
       /\ ~InFlight(t)

StaticKept ==
  Static \subseteq assigned /\ \A id \in Static : programmed[id] = 0

ArrayInv ==
  AtHand /\ ReleasedDone /\ FreedNoted /\ OwnersApart /\ OwnersProgrammed /\ StaticKept

\* The inductive invariant of the pass and the array it drives.
BdInv ==
  /\ Typed /\ Accounted
  /\ ~DoubleReleases => IdsInv
  /\ EnforceQueueDepth => QueueInv
  /\ ~DoubleReleases /\ EnforceQueueDepth => ArrayInv
=============================================================================
