--------------------------- MODULE AieccDataflow ---------------------------
(***************************************************************************)
(* What the compilation-graph engine of aiecc promises, without queue,     *)
(* counters, locks or threads: a task runs at most once and only after     *)
(* everything it needs, tasks that share the MLIR context run one at a     *)
(* time, and no task starts after the build has failed.                    *)
(***************************************************************************)
CONSTANTS
  Tasks,      \* the tasks of a build
  Needs,      \* Needs[t]: the tasks whose results t reads
  Exclusive   \* the tasks that touch shared, non-thread-safe state

VARIABLES running, done, failed

vars == <<running, done, failed>>

Init == running = {} /\ done = {} /\ failed = FALSE

\* The build is given up while nothing runs.
Abort ==
  /\ running = {}
  /\ failed' = TRUE
  /\ UNCHANGED <<running, done>>

Start(t) ==
  /\ ~failed
  /\ t \notin running \cup done
  /\ Needs[t] \subseteq done
  /\ t \in Exclusive => running \cap Exclusive = {}
  /\ running' = running \cup {t}
  /\ UNCHANGED <<done, failed>>

\* A task's result is in place; what it produced may still fail the build.
Finish(t) ==
  /\ t \in running
  /\ running' = running \ {t}
  /\ done' = done \cup {t}
  /\ failed' \in {failed, TRUE}

Fail(t) ==
  /\ t \in running
  /\ running' = running \ {t}
  /\ failed' = TRUE
  /\ UNCHANGED done

Next == Abort \/ \E t \in Tasks : Start(t) \/ Finish(t) \/ Fail(t)

Spec == Init /\ [][Next]_vars
=============================================================================
