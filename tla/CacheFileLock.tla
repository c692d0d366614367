--------------------------- MODULE CacheFileLock ---------------------------
(***************************************************************************)
(* file_lock of python/utils/compile/cache/utils.py, as POSIX systems run  *)
(* it. A call tries the lock once; when it is taken, a helper thread of    *)
(* the call blocks in flock and hands what it won over a queue, while the  *)
(* call waits on the queue with a timeout. The thread cannot be stopped,   *)
(* so a call that gives up leaves word, and the thread drops what it wins. *)
(*                                                                         *)
(* flock belongs to the open file, so calls exclude each other whether     *)
(* they are threads of a process or processes. Here each call stands for a *)
(* process; when it dies the system closes its files.                      *)
(***************************************************************************)
CONSTANTS
  Calls,  \* the calls of file_lock on one path
  None

ASSUME NoneAssumption == None \notin Calls

VARIABLES
  pc,         \* pc[c]: the step call c is at
  thread,     \* thread[c]: its helper thread
  handoff,    \* handoff[c]: the queue holds the lock the thread won
  cancelled,  \* cancelled[c]: the call has given up
  flock       \* the call whose file has the lock, or None

lockVars == <<pc, thread, handoff, cancelled, flock>>

Ended == {"raised", "done", "dead"}

LockTypeOK ==
  /\ pc \in [Calls -> {"start", "waiting", "expired", "held"} \cup Ended]
  /\ thread \in [Calls -> {"none", "blocked", "won", "dropping", "ended"}]
  /\ handoff \in [Calls -> BOOLEAN]
  /\ cancelled \in [Calls -> BOOLEAN]
  /\ flock \in Calls \cup {None}

LockInit ==
  /\ pc = [c \in Calls |-> "start"]
  /\ thread = [c \in Calls |-> "none"]
  /\ handoff = [c \in Calls |-> FALSE]
  /\ cancelled = [c \in Calls |-> FALSE]
  /\ flock = None

Go(c, from, to) == pc[c] = from /\ pc' = [pc EXCEPT ![c] = to]

ThreadGo(c, from, to) == thread[c] = from /\ thread' = [thread EXCEPT ![c] = to]

-----------------------------------------------------------------------------
(* The call. *)

\* The first try does not block; a call that fails it starts the thread.
TryAcquire(c) ==
  /\ \/ /\ flock = None
        /\ Go(c, "start", "held")
        /\ flock' = c
        /\ UNCHANGED thread
     \/ /\ flock # None
        /\ Go(c, "start", "waiting")
        /\ thread' = [thread EXCEPT ![c] = "blocked"]
        /\ UNCHANGED flock
  /\ UNCHANGED <<handoff, cancelled>>

\* The lock file cannot be created or opened.
OpenFails(c) ==
  Go(c, "start", "raised") /\ UNCHANGED <<thread, handoff, cancelled, flock>>

\* handoff.get returns what the thread has put.
TakeHandoff(c) ==
  /\ handoff[c]
  /\ Go(c, "waiting", "held")
  /\ handoff' = [handoff EXCEPT ![c] = FALSE]
  /\ UNCHANGED <<thread, cancelled, flock>>

\* Fault: the call waits for what the thread never puts.
TimeOutNever(c) == FALSE

\* handoff.get times out on an empty queue; `state` is not yet taken.
TimeOut(c) ==
  /\ ~handoff[c]
  /\ Go(c, "waiting", "expired")
  /\ UNCHANGED <<thread, handoff, cancelled, flock>>

\* Fault: what landed as the call gave up stays in the queue.
CancelUndrained(c) ==
  /\ Go(c, "expired", "raised")
  /\ cancelled' = [cancelled EXCEPT ![c] = TRUE]
  /\ UNCHANGED <<thread, handoff, flock>>

\* Under `state`: leave word, and release what landed since the timeout.
Cancel(c) ==
  /\ Go(c, "expired", "raised")
  /\ cancelled' = [cancelled EXCEPT ![c] = TRUE]
  /\ handoff' = [handoff EXCEPT ![c] = FALSE]
  /\ flock' = IF handoff[c] THEN None ELSE flock
  /\ UNCHANGED thread

\* The context ends, by return or by exception: unlock and close.
Release(c, to) ==
  /\ Go(c, "held", to)
  /\ flock' = None
  /\ UNCHANGED <<thread, handoff, cancelled>>

-----------------------------------------------------------------------------
(* Its helper thread. *)

\* flock returns to one of those blocked in it, or fails and the thread ends.
ThreadReturns(c) ==
  /\ \/ flock = None /\ ThreadGo(c, "blocked", "won") /\ flock' = c
     \/ ThreadGo(c, "blocked", "ended") /\ UNCHANGED flock
  /\ UNCHANGED <<pc, handoff, cancelled>>

\* Fault: the thread hands the lock over without looking for the word.
HandOverAlways(c) ==
  /\ ThreadGo(c, "won", "ended")
  /\ handoff' = [handoff EXCEPT ![c] = TRUE]
  /\ UNCHANGED <<pc, cancelled, flock>>

\* Under `state`: hand the lock over unless the call has left word.
HandOver(c) ==
  /\ ThreadGo(c, "won", IF cancelled[c] THEN "dropping" ELSE "ended")
  /\ handoff' = [handoff EXCEPT ![c] = ~cancelled[c]]
  /\ UNCHANGED <<pc, cancelled, flock>>

\* The abandoned thread releases what it won.
Drop(c) ==
  /\ ThreadGo(c, "dropping", "ended")
  /\ flock' = None
  /\ UNCHANGED <<pc, handoff, cancelled>>

\* The process dies, with its thread, also one an abandoned call left behind.
Die(c) ==
  /\ pc[c] # "dead" /\ (pc[c] \in Ended => thread[c] \notin {"none", "ended"})
  /\ pc' = [pc EXCEPT ![c] = "dead"]
  /\ thread' = [thread EXCEPT ![c] = "ended"]
  /\ handoff' = [handoff EXCEPT ![c] = FALSE]
  /\ flock' = IF flock = c THEN None ELSE flock
  /\ UNCHANGED cancelled

\* What the call and its thread do by themselves, the context aside.
CallStep(c) == TryAcquire(c) \/ TakeHandoff(c) \/ TimeOut(c) \/ Cancel(c)

ThreadStep(c) == ThreadReturns(c) \/ HandOver(c) \/ Drop(c)

LockNext ==
  \E c \in Calls :
    \/ CallStep(c) \/ OpenFails(c) \/ ThreadStep(c)
    \/ Release(c, "done") \/ Release(c, "raised") \/ Die(c)

LockSpec == LockInit /\ [][LockNext]_lockVars

-----------------------------------------------------------------------------
(* Properties. *)

\* The lock is never left with nobody to release it: it belongs to a call
\* inside its context, to a thread that still runs, or to a queue that its
\* call is yet to look into ("the thread can win the lock in the instant the
\* caller gives up, hand it to nobody, and hold it until the process exits").
LockHasAKeeper ==
  flock # None =>
    \/ pc[flock] = "held"
    \/ thread[flock] \in {"won", "dropping"}
    \/ handoff[flock] /\ pc[flock] \in {"waiting", "expired"}

\* The same from the side of each call: whoever could release the lock has it,
\* and a call, its queue and its thread never have it at once.
KeeperHasLock ==
  \A c \in Calls :
    /\ pc[c] = "held" \/ thread[c] \in {"won", "dropping"} \/ handoff[c] => flock = c
    /\ pc[c] = "held" => thread[c] \in {"none", "ended"} /\ ~handoff[c]
    /\ handoff[c] => thread[c] = "ended" /\ pc[c] \in {"waiting", "expired"}

\* A thread outlives its call only with the word that the call has given up.
AbandonedHasWord ==
  \A c \in Calls :
    /\ pc[c] \in {"start", "waiting", "expired", "held"} =>
         ~cancelled[c] /\ thread[c] # "dropping"
    /\ pc[c] = "start" => thread[c] = "none"
    /\ pc[c] \in {"raised", "done"} => cancelled[c] \/ thread[c] \in {"none", "ended"}
    /\ pc[c] = "dead" => thread[c] = "ended"

\* The inductive invariant.
LockInv == LockTypeOK /\ LockHasAKeeper /\ KeeperHasLock /\ AbandonedHasWord
=============================================================================
