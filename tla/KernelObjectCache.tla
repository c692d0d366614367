------------------------- MODULE KernelObjectCache -------------------------
(***************************************************************************)
(* One entry of the store of kernel objects that designs share             *)
(* (KernelObjectCache.fetch, python/utils/compile/jit/_object_cache.py),   *)
(* with the manifest of the inputs its compile read (_manifest.py). All of *)
(* a fetch is under the entry's file_lock: a valid object is copied out; a *)
(* missing or invalid one is removed, compiled anew and recorded. A fetch  *)
(* may raise or die at any point, and the input is edited whenever its     *)
(* author likes.                                                           *)
(*                                                                         *)
(* The entry has one input, a header that the compiler looks up in the     *)
(* include directories, in their order. A file has a stamp, which is its   *)
(* size and modification time; contents stand for digests. Each call       *)
(* belongs to another build, whose other kernels may read the header too.  *)
(***************************************************************************)
EXTENDS CacheFileLock, Naturals

CONSTANTS
  Contents,  \* what the input may contain
  Dirs,      \* the include directories, the first to be searched the least
  MaxEdits   \* bound: edits of the input

ASSUME ContentsAssumption == Contents \cap {"none", "partial"} = {}
ASSUME DirsAssumption == Dirs \subseteq Nat
ASSUME MaxEditsAssumption == MaxEdits \in Nat

VARIABLES
  at,        \* at[c]: the step of c's fetch, "out" when c has no lock
  files,     \* files[d]: the header in directory d, None if there is none
  edits,     \* how often the author has edited
  obj,       \* the object file: "none", "partial", or the content it is of
  manifest,  \* None, or what deps.json records
  digests,   \* digests[c][d]: the digest that c's build has of d's header
  read,      \* read[c]: what c's compile read, and where
  stamp,     \* stamp[c]: the stamp that c's record saw
  limit,     \* history: an edit was one of _manifest.py's "known limits"
  steady,    \* history: no edit since c's build first read the input
  settled,   \* history: the build that recorded the entry was steady then
  since,     \* history: the contents the input had since c's fetch began
  result     \* history: what c copied out, and how well its manifest knew it

inputVars == <<files, edits, limit, steady, since>>
entry == <<obj, manifest, digests, read, stamp, settled, result>>
entryVars == <<at, entry>>
vars == <<lockVars, entryVars, inputVars>>

Stamps == 0 .. MaxEdits + 1
Files == [content : Contents, stamp : Stamps]
Reads == [dir : Dirs, content : Contents]
Inputs == [dir : Dirs, content : Contents, stamp : Stamps]
Manifests == [complete : BOOLEAN, inputs : SUBSET Inputs]
Results == [obj : Contents \cup {"none", "partial"},
            checked : BOOLEAN, settled : BOOLEAN]

\* What `_write` leaves when the inputs cannot be known.
Incomplete == [complete |-> FALSE, inputs |-> {}]

\* The stamp of a file that is saved now.
Now == edits + 1

ASSUME NoneAssumptions ==
  /\ None \notin Contents \cup {"none", "partial"}
  /\ None \notin Files \cup Reads /\ None \notin Manifests /\ None \notin Results

Building == {"compiling", "stat", "digest"}

\* The header the search finds, and what it contains.
Found(d) == files[d] # None /\ \A e \in Dirs : e < d => files[e] = None

Current == {files[d].content : d \in {d \in Dirs : Found(d)}}

TypeOK ==
  /\ LockTypeOK
  /\ at \in [Calls -> {"out", "check", "clean", "compile", "undo", "copy", "end"}
                        \cup Building]
  /\ files \in [Dirs -> Files \cup {None}]
  /\ edits \in 0..MaxEdits
  /\ obj \in Contents \cup {"none", "partial"}
  /\ manifest \in Manifests \cup {None}
  /\ digests \in [Calls -> [Dirs -> Contents \cup {None}]]
  /\ read \in [Calls -> Reads \cup {None}]
  /\ stamp \in [Calls -> Stamps]
  /\ limit \in BOOLEAN /\ settled \in BOOLEAN
  /\ steady \in [Calls -> BOOLEAN]
  /\ since \in [Calls -> SUBSET Contents]
  /\ result \in [Calls -> Results \cup {None}]

\* The header is what input i says of it if it has the stamp i says.
StampTells(i) ==
  /\ i.stamp <= Now
  /\ files[i.dir] # None /\ files[i.dir].stamp = i.stamp =>
       files[i.dir].content = i.content

\* A complete manifest names the input of the object it stands beside, and no
\* header comes before that in the search.
ManifestOfObject ==
  manifest # None /\ manifest.complete =>
    /\ manifest.inputs # {}
    /\ \A i \in manifest.inputs :
         /\ obj # "none" => obj = i.content
         /\ StampTells(i)
         /\ \A e \in Dirs : e < i.dir => files[e] = None

\* Earlier fetches, and what they died of, left an entry.
Init ==
  /\ LockInit
  /\ at = [c \in Calls |-> "out"]
  /\ files \in [Dirs -> [content : Contents, stamp : {1}] \cup {None}]
  /\ edits = 0
  /\ obj \in Contents \cup {"none", "partial"}
  /\ manifest \in {[complete |-> TRUE, inputs |-> {i}] :
                     i \in [dir : Dirs, content : Contents, stamp : {0, 1}]}
                  \cup {None, Incomplete}
  /\ ManifestOfObject
  /\ manifest # None => obj # "partial"
  /\ digests = [c \in Calls |-> [d \in Dirs |-> None]]
  /\ read = [c \in Calls |-> None]
  /\ stamp = [c \in Calls |-> 0]
  /\ limit = FALSE /\ settled = TRUE
  /\ steady = [c \in Calls |-> TRUE]
  /\ since = [c \in Calls |-> {}]
  /\ result = [c \in Calls |-> None]

\* A step of c's fetch, inside the lock.
At(c, from, to) == at[c] = from /\ at' = [at EXCEPT ![c] = to]

\* The lock and the input are not the fetch's to change.
Inside == UNCHANGED <<lockVars, inputVars>>

-----------------------------------------------------------------------------
(* Into the lock and out of it. *)

Enter(c) ==
  /\ TryAcquire(c) \/ TakeHandoff(c)
  /\ at' = [at EXCEPT ![c] = IF pc'[c] = "held" THEN "check" ELSE @]
  /\ since' = [since EXCEPT ![c] = @ \cup Current]
  /\ UNCHANGED <<files, edits, limit, steady, entry>>

\* The steps of the lock that do not concern the entry.
LockOnly(c) ==
  /\ TimeOut(c) \/ Cancel(c) \/ OpenFails(c) \/ ThreadStep(c)
  /\ UNCHANGED <<entryVars, inputVars>>

\* The call is over, and what it and its build have read is not used again.
Forget(c) ==
  /\ digests' = [digests EXCEPT ![c] = [d \in Dirs |-> None]]
  /\ read' = [read EXCEPT ![c] = None]
  /\ stamp' = [stamp EXCEPT ![c] = 0]
  /\ UNCHANGED <<obj, manifest, settled, result, inputVars>>

\* fetch returns.
Return(c) == At(c, "end", "out") /\ Release(c, "done") /\ Forget(c)

\* A removal or a copy raises; the entry stays as it is then.
Raise(c) ==
  /\ at[c] \in {"clean", "undo", "copy"}
  /\ at' = [at EXCEPT ![c] = "out"] /\ Release(c, "raised") /\ Forget(c)

Dies(c) ==
  /\ Die(c)
  /\ at' = [at EXCEPT ![c] = "out"] /\ Forget(c)

-----------------------------------------------------------------------------
(* The fetch. *)

\* Fault: a manifest that parses is enough.
ValidUnchecked == manifest # None

\* is_valid: every input is there, and its stamp agrees, or else its digest. A
\* manifest that calls itself incomplete has nothing to check.
Valid ==
  /\ manifest # None
  /\ manifest.complete =>
       \A i \in manifest.inputs :
         /\ files[i.dir] # None
         /\ files[i.dir].stamp = i.stamp \/ files[i.dir].content = i.content

\* Fault: where there is no object there is nothing to remove.
CheckPresent(c) ==
  /\ at[c] = "check"
  /\ at' = [at EXCEPT ![c] = CASE obj = "none" -> "compile"
                               [] obj # "none" /\ Valid -> "copy"
                               [] OTHER -> "clean"]
  /\ Inside /\ UNCHANGED entry

\* A hit needs the object's file and a valid manifest.
Check(c) ==
  /\ At(c, "check", IF obj # "none" /\ Valid THEN "copy" ELSE "clean")
  /\ Inside /\ UNCHANGED entry

\* _cleanup_failed_compilation: the files go in the directory's order, before
\* a compile and after one that failed.
Remove(c) ==
  /\ at[c] \in {"clean", "undo"} /\ UNCHANGED at
  /\ \/ obj # "none" /\ obj' = "none" /\ UNCHANGED manifest
     \/ manifest # None /\ manifest' = None /\ UNCHANGED obj
  /\ Inside /\ UNCHANGED <<digests, read, stamp, settled, result>>

\* Fault: the manifest stays until the record replaces it.
CleanedObject(c) ==
  /\ obj = "none"
  /\ \/ At(c, "clean", "compile") /\ Inside /\ UNCHANGED entry
     \/ At(c, "undo", "out") /\ Release(c, "raised") /\ Forget(c)

\* The directory is empty but for the lock file.
Cleaned(c) ==
  /\ obj = "none" /\ manifest = None
  /\ \/ At(c, "clean", "compile") /\ Inside /\ UNCHANGED entry
     \/ At(c, "undo", "out") /\ Release(c, "raised") /\ Forget(c)

\* _compile_external_kernel: the compiler reads the header that it finds, and
\* writes the object. It may fail, and does where it finds none.
StartCompile(c) ==
  /\ At(c, "compile", "compiling")
  /\ \E d \in Dirs :
       /\ Found(d)
       /\ read' = [read EXCEPT ![c] = [dir |-> d, content |-> files[d].content]]
  /\ obj' = "partial"
  /\ Inside /\ UNCHANGED <<manifest, digests, stamp, settled, result>>

EndCompile(c) ==
  /\ At(c, "compiling", "stat")
  /\ obj' = read[c].content
  /\ Inside /\ UNCHANGED <<manifest, digests, read, stamp, settled, result>>

CompileFails(c) ==
  /\ At(c, "compile", "undo") \/ At(c, "compiling", "undo")
  /\ Inside /\ UNCHANGED entry

\* record begins with the stat of the path that was read.
StatInput(c) ==
  /\ At(c, "stat", "digest")
  /\ files[read[c].dir] # None
  /\ stamp' = [stamp EXCEPT ![c] = files[read[c].dir].stamp]
  /\ Inside /\ UNCHANGED <<obj, manifest, digests, read, settled, result>>

\* A manifest is written, once it can be.
Write(c, m) == manifest' = m /\ settled' = steady[c]

\* The digest is the one that the build has of the path, whoever took it, or
\* else the file's.
Record(c) ==
  /\ At(c, "digest", "copy")
  /\ LET d == read[c].dir
     IN \E content \in Contents :
          /\ \/ digests[c][d] = content
             \/ digests[c][d] = None /\ files[d] # None /\ files[d].content = content
          /\ digests' = [digests EXCEPT ![c][d] = content]
          /\ Write(c, [complete |-> TRUE,
                       inputs |-> {[dir |-> d, content |-> content,
                                    stamp |-> stamp[c]]}])
  /\ Inside /\ UNCHANGED <<obj, read, stamp, result>>

\* The compile left no depfile, or what that names is no longer to be read.
RecordIncomplete(c) ==
  /\ At(c, "stat", "copy") \/ At(c, "digest", "copy")
  /\ Write(c, Incomplete)
  /\ Inside /\ UNCHANGED <<obj, digests, read, stamp, result>>

RecordFails(c) ==
  /\ At(c, "stat", "undo") \/ At(c, "digest", "undo")
  /\ Inside /\ UNCHANGED entry

\* The object is copied to the design's directory.
CopyOut(c) ==
  /\ At(c, "copy", "end")
  /\ result' = [result EXCEPT ![c] = [obj |-> obj, checked |-> manifest.complete,
                                      settled |-> settled]]
  /\ Inside /\ UNCHANGED <<obj, manifest, digests, read, stamp, settled>>

FetchStep(c) ==
  \/ Check(c) \/ Remove(c) \/ Cleaned(c)
  \/ StartCompile(c) \/ EndCompile(c) \/ CompileFails(c)
  \/ StatInput(c) \/ Record(c) \/ RecordIncomplete(c) \/ RecordFails(c)
  \/ CopyOut(c)

-----------------------------------------------------------------------------
(* Around the fetch. *)

\* c looks at its input no more.
IsThrough(c) == at[c] \in {"copy", "end"}

\* Another kernel of c's build is recorded, which has read directory d's header,
\* while that can still be of use to c.
DigestElsewhere(c, d) ==
  /\ pc[c] \notin Ended /\ ~IsThrough(c)
  /\ digests[c][d] = None /\ files[d] # None
  /\ digests' = [digests EXCEPT ![c][d] = files[d].content]
  /\ UNCHANGED <<lockVars, inputVars, at, obj, manifest, read, stamp, settled, result>>

\* c's build has read the input, and may yet record it.
HasRead(c) ==
  ~IsThrough(c) /\ (at[c] \in Building \/ \E d \in Dirs : digests[c][d] # None)

\* Known limit 1: a file appears in the search before a recorded header.
Shadows(d, f) ==
  f # None /\ manifest # None /\ \E i \in manifest.inputs : d < i.dir

\* Known limit 2: what is saved has not got a stamp of its own.
KeepsStamp(f) == f # None /\ f.stamp < Now + 1

\* The author saves or removes the header of directory d. (Nothing is said of
\* what is current after an edit at a limit, so none follows.)
Edit(d, f) ==
  /\ edits < MaxEdits /\ ~limit
  /\ f # files[d]
  /\ f # None => f.stamp \in 1 .. Now + 1
  /\ files' = [files EXCEPT ![d] = f]
  /\ edits' = edits + 1
  /\ limit' = (Shadows(d, f) \/ KeepsStamp(f))
  /\ steady' = [c \in Calls |-> steady[c] /\ ~HasRead(c)]
  /\ since' = [c \in Calls |-> IF pc[c] \in {"start"} \cup Ended THEN since[c]
                               ELSE since[c] \cup Current']
  /\ UNCHANGED <<lockVars, entryVars>>

Next ==
  \/ \E c \in Calls :
       Enter(c) \/ LockOnly(c) \/ FetchStep(c) \/ Return(c) \/ Raise(c) \/ Dies(c)
  \/ \E c \in Calls, d \in Dirs : DigestElsewhere(c, d)
  \/ \E d \in Dirs, f \in Files \cup {None} : Edit(d, f)

Spec == Init /\ [][Next]_vars

\* A call that has begun goes on, a compile comes to an end, the timeout of
\* the queue fires, and a thread runs once flock has returned.
Fairness ==
  \A c \in Calls :
    /\ WF_vars(pc[c] # "start" /\ Enter(c))
    /\ WF_vars((TimeOut(c) \/ Cancel(c)) /\ LockOnly(c))
    /\ WF_vars((HandOver(c) \/ Drop(c)) /\ LockOnly(c))
    /\ WF_vars(FetchStep(c) \/ Return(c))

FairSpec == Spec /\ Fairness

-----------------------------------------------------------------------------
(* Properties. *)

\* What a fetch copies out is of a content that the input had while the fetch
\* ran, if the manifest is complete and the input was left alone from when the
\* build that recorded it first read it until it was recorded: a fetch whose
\* entry was made, edited, half removed or abandoned by others never passes on
\* an old object ("Everything here fails closed"), but for the known limits.
FetchedIsCurrent ==
  ~limit =>
    \A c \in Calls :
      result[c] # None /\ result[c].checked /\ result[c].settled =>
        result[c].obj \in since[c]

\* "Two paths fail open rather than closed": but for those, what is reported
\* valid is not stale. (It may be: what is recorded is the header as it is then,
\* or as another kernel of the build found it, and not as the compile read it.)
FailsOpenOnlyAsDocumented ==
  ~limit =>
    \A c \in Calls : result[c] # None /\ result[c].checked => result[c].obj \in since[c]

\* No fetch copies out an object that a dying compile left behind.
FetchedIsWhole ==
  \A c \in Calls : result[c] # None => result[c].obj \in Contents

\* Every fetch that begins comes to an end, with the object, with an exception
\* or with its process: the wait for the lock is bounded also when the helper
\* thread fails without a word.
CallsReturn == \A c \in Calls : pc[c] # "start" ~> pc[c] \in Ended

\* Whoever has the lock, some other call or a thread its call gave up on, the
\* lock comes free.
LockComesFree == flock # None ~> flock = None

-----------------------------------------------------------------------------
(* The inductive invariant. *)

\* At most the call that has the lock is inside its fetch.
OneInside == \A c \in Calls : at[c] # "out" <=> pc[c] = "held"

\* From its compile to its record a fetch has removed the manifest, so that
\* no manifest stands beside a partial object.
RecordedIsWhole ==
  /\ manifest # None => obj # "partial"
  /\ \A c \in Calls :
       /\ at[c] \in {"compile"} \cup Building => manifest = None
       /\ at[c] \in Building => read[c] # None
       /\ at[c] \in {"stat", "digest"} => obj = read[c].content
       /\ at[c] = "copy" => manifest # None /\ obj \in Contents

\* The contents that a fetch may pass on: what is found while it runs, and what
\* it compiled.
KnowsItsTime ==
  \A c \in Calls :
    /\ pc[c] \in {"waiting", "expired", "held"} => Current \subseteq since[c]
    /\ at[c] \in Building => read[c].content \in since[c]

\* While its build is steady, a fetch knows the input: the digests the build has,
\* and what it compiled and is about to record.
KnowsItsInput ==
  \A c \in Calls : steady[c] /\ ~IsThrough(c) =>
    /\ \A d \in Dirs : digests[c][d] # None =>
         files[d] # None /\ files[d].content = digests[c][d]
    /\ at[c] \in Building =>
         Found(read[c].dir) /\ files[read[c].dir].content = read[c].content
    /\ at[c] = "digest" => stamp[c] = files[read[c].dir].stamp

\* What was recorded by a steady build tells when the input has changed.
EntryKnowsItsInput ==
  /\ \A d \in Dirs : files[d] # None => files[d].stamp <= Now
  /\ ~limit /\ settled =>
       /\ ManifestOfObject
       /\ \A c \in Calls : at[c] = "copy" /\ manifest.complete => obj \in since[c]

StoreInv ==
  /\ TypeOK /\ LockInv /\ OneInside
  /\ RecordedIsWhole /\ FetchedIsWhole
  /\ KnowsItsTime /\ KnowsItsInput /\ EntryKnowsItsInput /\ FetchedIsCurrent
=============================================================================
