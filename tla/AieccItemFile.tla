--------------------------- MODULE AieccItemFile ---------------------------
(***************************************************************************)
(* Item::asFile of tools/aiecc/Graph.h: the first task that needs an item  *)
(* as a file writes it to disk, later ones find it there. Tasks of edges   *)
(* marked threadSafe call it concurrently for an item they share. A call   *)
(* checks fileWritten without the mutex, then again under it; the stream   *)
(* it writes through is a local of the call, so what it buffers reaches    *)
(* the disk when the call returns, after fileWritten has been set and      *)
(* before the mutex is released.                                           *)
(***************************************************************************)
CONSTANTS
  Readers,     \* the tasks that ask for the file
  OpenMayFail, \* the file system may refuse to open the file
  None

VARIABLES
  pc,           \* pc[r]: where r's call is; "use" when r reads the file
  fileWritten,
  mutex,        \* the holder of fileWriteMutex(), or None
  disk,         \* "absent", "partial" or "complete": the file's contents
  how           \* how[r]: "fast" or "locked", how r came by the path; "none"
                \* before that, "failed" when the file did not open

vars == <<pc, fileWritten, mutex, disk, how>>

Go(r, from, to) == pc[r] = from /\ pc' = [pc EXCEPT ![r] = to]

Init ==
  /\ pc = [r \in Readers |-> "call"]
  /\ fileWritten = FALSE
  /\ mutex = None
  /\ disk = "absent"
  /\ how = [r \in Readers |-> "none"]

\* The check without the mutex.
FastPath(r) ==
  /\ Go(r, "call", IF fileWritten THEN "use" ELSE "lock")
  /\ how' = [how EXCEPT ![r] = IF fileWritten THEN "fast" ELSE @]
  /\ UNCHANGED <<fileWritten, mutex, disk>>

\* Taking the mutex, and the second check under it.
Lock(r) ==
  /\ mutex = None
  /\ Go(r, "lock", IF fileWritten THEN "use" ELSE "open")
  /\ mutex' = IF fileWritten THEN mutex ELSE r
  /\ how' = [how EXCEPT ![r] = "locked"]
  /\ UNCHANGED <<fileWritten, disk>>

\* Opening the stream truncates the file; a failure returns the path anyway.
Open(r) ==
  \/ /\ Go(r, "open", "write")
     /\ disk' = "partial"
     /\ UNCHANGED <<fileWritten, mutex, how>>
  \/ /\ OpenMayFail
     /\ Go(r, "open", "use")
     /\ mutex' = None
     /\ how' = [how EXCEPT ![r] = "failed"]
     /\ UNCHANGED <<fileWritten, disk>>

\* The payload is in the stream's buffer and the flag is set.
Write(r) ==
  /\ Go(r, "write", "flush")
  /\ fileWritten' = TRUE
  /\ UNCHANGED <<mutex, disk, how>>

\* Leaving the call destroys the stream, which flushes it, then the lock.
Return(r) ==
  /\ Go(r, "flush", "use")
  /\ disk' = "complete"
  /\ mutex' = None
  /\ UNCHANGED <<fileWritten, how>>

Use(r) ==
  /\ Go(r, "use", "done")
  /\ UNCHANGED <<fileWritten, mutex, disk, how>>

Ended == (\A r \in Readers : pc[r] = "done") /\ UNCHANGED vars

Reader(r) == FastPath(r) \/ Lock(r) \/ Open(r) \/ Write(r) \/ Return(r) \/ Use(r)

Next == Ended \/ \E r \in Readers : Reader(r)

Spec == Init /\ [][Next]_vars

-----------------------------------------------------------------------------
\* Concurrent edges can safely materialize an intermediate: whoever asked for
\* the file, and was not told that it could not be opened, reads all of it.
ReadsWhole ==
  \A r \in Readers :
    pc[r] = "use" /\ how[r] \in {"fast", "locked"} => disk = "complete"
=============================================================================
