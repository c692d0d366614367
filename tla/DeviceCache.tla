---------------------------- MODULE DeviceCache ----------------------------
(***************************************************************************)
(* One entry of the device cache of aiecc (tools/aiecc/DeviceCache.h): a   *)
(* directory with the placed and the linked form of a device and the ELF   *)
(* of each of its cores. Builds are separate processes that may look the   *)
(* entry up, use the ELFs where they stand, compile on a miss, and store   *)
(* what they compiled. Looking up takes no lock; storing takes a lock file *)
(* without waiting for it, writes beside the entry, removes a damaged      *)
(* entry file by file and renames the new one into its place.              *)
(*                                                                         *)
(* Any call on the file system may fail and any build may die between two  *)
(* of its calls. An absent directory and an empty one are one state here:  *)
(* both load as a miss and both let a rename take their place.             *)
(***************************************************************************)
CONSTANTS
  Builds,  \* the builds that come upon this entry
  Elfs,    \* the ELF files of the device's cores
  None

ASSUME NoneAssumption == None \notin Builds
ASSUME BuildsAssumption == Builds # {}
ASSUME FormsAssumption == {"placed", "linked"} \cap Elfs = {}

\* The files of a complete entry: placedFile, linkedFile, one ELF per core.
Files == {"placed", "linked"} \cup Elfs

VARIABLES
  pc,    \* pc[b]: the step build b is at, or how it ended
  disk,  \* disk[f]: "absent", "damaged" or "good", for f in the entry
  lock,  \* the holder of the lock file, or None
  todo,  \* todo[b]: the files that load, the copy or the removal has ahead
  tmp    \* tmp[b]: the files in b's own temporary directory

vars == <<pc, disk, lock, todo, tmp>>

\* What load accepts of one file: the two forms must parse, an ELF must exist.
Loads(f) == IF f \in Elfs THEN disk[f] # "absent" ELSE disk[f] = "good"

Whole == \A f \in Files : Loads(f)

Ended == {"failed", "denied", "kept", "stored", "dead"}

\* Holding the lock: from the second load to the end of the store.
Locked == {"recheck", "create", "write", "clear", "rename", "cleanup"}

Steps == {"lookup", "load", "using", "compile", "lock"} \cup Locked \cup Ended

TypeOK ==
  /\ pc \in [Builds -> Steps]
  /\ disk \in [Files -> {"absent", "damaged", "good"}]
  /\ lock \in Builds \cup {None}
  /\ todo \in [Builds -> SUBSET Files]
  /\ tmp \in [Builds -> SUBSET Files]

\* Earlier builds, and whoever else touched the directory, left anything.
Init ==
  /\ pc = [b \in Builds |-> "lookup"]
  /\ disk \in [Files -> {"absent", "damaged", "good"}]
  /\ lock = None
  /\ todo = [b \in Builds |-> {}]
  /\ tmp = [b \in Builds |-> {}]

Go(b, from, to) == pc[b] = from /\ pc' = [pc EXCEPT ![b] = to]

\* The forms come first, then the ELFs.
IsNext(f, ahead) == f \in ahead /\ (f \in Elfs => ahead \subseteq Elfs)

-----------------------------------------------------------------------------
(* Looking the entry up, and building. *)

\* lookup: a directory that does not exist is a miss without a load.
Lookup(b) ==
  /\ \/ Go(b, "lookup", "load")
     \/ /\ \A f \in Files : disk[f] = "absent"
        /\ Go(b, "lookup", "compile")
  /\ todo' = [todo EXCEPT ![b] = Files]
  /\ UNCHANGED <<disk, lock, tmp>>

\* Fault: only the two forms are looked at.
LoadFormsOnly(b, from, hit, miss) ==
  \/ \E f \in todo[b] \ Elfs :
       /\ Go(b, from, IF Loads(f) THEN from ELSE miss)
       /\ todo' = [todo EXCEPT ![b] = @ \ {f}]
  \/ todo[b] \subseteq Elfs /\ Go(b, from, hit) /\ UNCHANGED todo

\* load: one file after the other; what does not load makes it a miss.
Load(b, from, hit, miss) ==
  \/ \E f \in todo[b] :
       /\ IsNext(f, todo[b])
       /\ Go(b, from, IF Loads(f) THEN from ELSE miss)
       /\ todo' = [todo EXCEPT ![b] = @ \ {f}]
  \/ todo[b] = {} /\ Go(b, from, hit) /\ UNCHANGED todo

\* A hit puts the linked form in: its ELFs are read where the entry has them.
LookupLoad(b) == Load(b, "load", "using", "compile") /\ UNCHANGED <<disk, lock, tmp>>

\* A miss compiles. Placement or a core may fail, and then nothing is stored.
Compile(b) ==
  /\ Go(b, "compile", "lock") \/ Go(b, "compile", "failed")
  /\ UNCHANGED <<disk, lock, todo, tmp>>

-----------------------------------------------------------------------------
(* Storing. *)

\* Fault: a build that finds the lock taken goes on without it.
TryLockAnyway(b) ==
  \/ /\ Go(b, "lock", "recheck")
     /\ lock' = IF lock = None THEN b ELSE lock
     /\ todo' = [todo EXCEPT ![b] = Files]
  \/ Go(b, "lock", "failed") /\ UNCHANGED <<lock, todo>>

\* tryLockFor(0) neither waits nor insists; the lock file may not open.
TryLock(b) ==
  \/ /\ lock = None
     /\ Go(b, "lock", "recheck")
     /\ lock' = b
     /\ todo' = [todo EXCEPT ![b] = Files]
  \/ lock # None /\ Go(b, "lock", "denied") /\ UNCHANGED <<lock, todo>>
  \/ Go(b, "lock", "failed") /\ UNCHANGED <<lock, todo>>

TakeLock(b) == TryLock(b) /\ UNCHANGED <<disk, tmp>>

\* Fault: that the lookup missed is taken to hold still.
RecheckNot(b) ==
  /\ Go(b, "recheck", "create")
  /\ UNCHANGED <<disk, lock, todo, tmp>>

\* Fault: a directory with anything in it counts as an entry.
RecheckExists(b) ==
  /\ Go(b, "recheck", IF \A f \in Files : disk[f] = "absent" THEN "create" ELSE "kept")
  /\ lock' = IF \A f \in Files : disk[f] = "absent" THEN lock ELSE None
  /\ UNCHANGED <<disk, todo, tmp>>

\* The entry may have been repaired since the lookup: load it once more.
Recheck(b) ==
  /\ Load(b, "recheck", "kept", "create")
  /\ lock' = IF todo[b] = {} THEN None ELSE lock
  /\ UNCHANGED <<disk, tmp>>

\* createUniqueDirectory.
CreateTmp(b) ==
  /\ \/ Go(b, "create", "write") /\ UNCHANGED lock
     \/ Go(b, "create", "failed") /\ lock' = None
  /\ todo' = [todo EXCEPT ![b] = Files]
  /\ UNCHANGED <<disk, tmp>>

\* Fault: an ELF that cannot be copied is left out.
WriteTmpSkipping(b) ==
  /\ \/ \E f \in todo[b] :
          /\ pc[b] = "write" /\ UNCHANGED pc
          /\ todo' = [todo EXCEPT ![b] = @ \ {f}]
          /\ \/ tmp' = [tmp EXCEPT ![b] = @ \cup {f}]
             \/ f \in Elfs /\ UNCHANGED tmp
     \/ /\ todo[b] = {} /\ Go(b, "write", "clear")
        /\ todo' = [todo EXCEPT ![b] = Files]
        /\ UNCHANGED tmp
  /\ UNCHANGED <<disk, lock>>

\* writeText and copy_file, up to the first that fails.
WriteTmp(b) ==
  /\ \/ \E f \in todo[b] :
          /\ IsNext(f, todo[b])
          /\ pc[b] = "write" /\ UNCHANGED pc
          /\ todo' = [todo EXCEPT ![b] = @ \ {f}]
          /\ tmp' = [tmp EXCEPT ![b] = @ \cup {f}]
     \/ /\ todo[b] # {}
        /\ Go(b, "write", "cleanup")
        /\ UNCHANGED <<todo, tmp>>
     \/ /\ todo[b] = {}
        /\ Go(b, "write", "clear")
        /\ todo' = [todo EXCEPT ![b] = Files]
        /\ UNCHANGED tmp
  /\ UNCHANGED <<disk, lock>>

\* remove_directories of the damaged entry, file by file in the order of the
\* directory; it ignores errors and returns none, so a file may stay.
Clear(b) ==
  /\ \/ \E f \in todo[b] :
          /\ pc[b] = "clear" /\ UNCHANGED pc
          /\ todo' = [todo EXCEPT ![b] = @ \ {f}]
          /\ disk' \in {disk, [disk EXCEPT ![f] = "absent"]}
     \/ /\ todo[b] = {}
        /\ Go(b, "clear", "rename")
        /\ UNCHANGED <<disk, todo>>
  /\ UNCHANGED <<lock, tmp>>

\* rename takes the place of an empty directory and of no other.
Rename(b) ==
  /\ \/ /\ \A f \in Files : disk[f] = "absent"
        /\ Go(b, "rename", "stored")
        /\ disk' = [f \in Files |-> IF f \in tmp[b] THEN "good" ELSE "absent"]
        /\ tmp' = [tmp EXCEPT ![b] = {}]
        /\ lock' = None
     \/ Go(b, "rename", "cleanup") /\ UNCHANGED <<disk, lock, tmp>>
  /\ UNCHANGED todo

\* The error path removes the temporary directory.
Cleanup(b) ==
  /\ Go(b, "cleanup", "failed")
  /\ tmp' = [tmp EXCEPT ![b] = {}]
  /\ lock' = None
  /\ UNCHANGED <<disk, todo>>

\* A build dies; the system drops its lock and leaves its files.
Die(b) ==
  /\ pc[b] \notin Ended
  /\ pc' = [pc EXCEPT ![b] = "dead"]
  /\ lock' = IF lock = b THEN None ELSE lock
  /\ UNCHANGED <<disk, todo, tmp>>

Step(b) ==
  \/ Lookup(b) \/ LookupLoad(b) \/ Compile(b)
  \/ TakeLock(b) \/ Recheck(b) \/ CreateTmp(b) \/ WriteTmp(b)
  \/ Clear(b) \/ Rename(b) \/ Cleanup(b)
  \/ Die(b)

Next == \E b \in Builds : Step(b)

Spec == Init /\ [][Next]_vars

-----------------------------------------------------------------------------
(* Properties. *)

\* A build that hit finds its ELFs in the entry for as long as it runs: it
\* goes on reading them where they stand, without a lock, and no store
\* removes them ("Never remove a valid entry: other builds may already be
\* using its ELF paths").
HitFindsItsElfs ==
  \A b \in Builds : pc[b] = "using" => \A f \in Elfs : disk[f] # "absent"

\* Once an entry loads, no build changes a file of it: a build that missed
\* before the entry was repaired finds out before it removes anything.
WholeEntriesStay == [][Whole => UNCHANGED disk]_vars

\* A store that reports success leaves an entry that loads, whatever the
\* other builds did or failed to do meanwhile.
StoredIsWhole == \A b \in Builds : pc[b] = "stored" => Whole

\* Contention costs no entry: when every build has come to its end and none
\* died or met an error, the entry loads, also for those the lock was denied.
ContentionStillStores ==
  (\A b \in Builds : pc[b] \in {"using", "denied", "kept", "stored"}) => Whole

\* Part of the inductive invariant: the lock has the holder it says.
LockHeld == \A b \in Builds : (pc[b] \in Locked) <=> (lock = b)

\* While a build stores, the entry does not load; what it has not written
\* yet is what its temporary directory lacks.
StoresOverDamage ==
  \A b \in Builds :
    /\ pc[b] \in Locked \ {"recheck"} => ~Whole
    /\ pc[b] = "write" => Files \subseteq tmp[b] \cup todo[b]
    /\ pc[b] \in {"clear", "rename"} => Files \subseteq tmp[b]

\* A load that has passed some files of a damaged entry has one ahead that
\* stops it.
LoadMeetsDamage ==
  \A b \in Builds :
    pc[b] \in {"load", "recheck"} => Whole \/ \E f \in todo[b] : ~Loads(f)

\* What a build relies on after its load or its store.
RelyOnWhole == \A b \in Builds : pc[b] \in {"using", "kept", "stored"} => Whole

\* A denied build has lost the store to one that still has the lock, has
\* left the entry whole, or was itself stopped.
DeniedForAReason ==
  (\E b \in Builds : pc[b] = "denied") =>
    Whole \/ lock # None \/ \E b \in Builds : pc[b] \in {"failed", "dead"}

\* The inductive invariant the proofs rest on: whoever relies on the entry
\* finds it whole, and whoever may remove files of it has found it damaged.
EntryInv ==
  /\ TypeOK
  /\ LockHeld
  /\ StoresOverDamage
  /\ LoadMeetsDamage
  /\ RelyOnWhole
  /\ DeniedForAReason
=============================================================================
