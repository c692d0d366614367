----------------------- MODULE KernelObjectCache_proofs -----------------------
(***************************************************************************)
(* Safety of an entry of the store of kernel objects, for any number of    *)
(* calls, contents, include directories and edits at any time, whoever     *)
(* raises, gives up or dies. That the file lock has a keeper whatever is   *)
(* done under it comes first.                                              *)
(***************************************************************************)
EXTENDS KernelObjectCache, TLAPS

-----------------------------------------------------------------------------
(* The lock, for any number of calls, whoever times out, fails or dies.    *)

\* The lock is taken only when it is free, so nobody else keeps it.
LEMMA LockTryAcquire ==
  ASSUME LockInv, NEW c \in Calls, TryAcquire(c)
  PROVE  LockInv'
<1>1. LockTypeOK'
  BY DEF LockInv, LockTypeOK, TryAcquire, Go
<1>2. LockHasAKeeper'
  BY DEF LockInv, LockTypeOK, LockHasAKeeper, AbandonedHasWord, TryAcquire, Go
<1>3. KeeperHasLock'
  BY NoneAssumption DEF LockInv, LockTypeOK, KeeperHasLock, AbandonedHasWord,
    TryAcquire, Go
<1>4. AbandonedHasWord'
  BY DEF LockInv, LockTypeOK, AbandonedHasWord, TryAcquire, Go
<1> QED
  BY <1>1, <1>2, <1>3, <1>4 DEF LockInv

LEMMA LockOpenFails ==
  ASSUME LockInv, NEW c \in Calls, OpenFails(c)
  PROVE  LockInv'
<1>1. LockTypeOK'
  BY DEF LockInv, LockTypeOK, OpenFails, Go, Ended
<1>2. LockHasAKeeper'
  BY DEF LockInv, LockHasAKeeper, OpenFails, Go
<1>3. KeeperHasLock'
  BY DEF LockInv, KeeperHasLock, OpenFails, Go
<1>4. AbandonedHasWord'
  BY DEF LockInv, AbandonedHasWord, OpenFails, Go
<1> QED
  BY <1>1, <1>2, <1>3, <1>4 DEF LockInv

\* The lock passes from the queue to the call.
LEMMA LockTakeHandoff ==
  ASSUME LockInv, NEW c \in Calls, TakeHandoff(c)
  PROVE  LockInv'
<1>1. LockTypeOK'
  BY DEF LockInv, LockTypeOK, TakeHandoff, Go
<1>2. LockHasAKeeper'
  BY DEF LockInv, LockTypeOK, LockHasAKeeper, TakeHandoff, Go
<1>3. KeeperHasLock'
  BY DEF LockInv, LockTypeOK, KeeperHasLock, TakeHandoff, Go
<1>4. AbandonedHasWord'
  BY DEF LockInv, AbandonedHasWord, TakeHandoff, Go
<1> QED
  BY <1>1, <1>2, <1>3, <1>4 DEF LockInv

LEMMA LockTimeOut ==
  ASSUME LockInv, NEW c \in Calls, TimeOut(c)
  PROVE  LockInv'
<1>1. LockTypeOK'
  BY DEF LockInv, LockTypeOK, TimeOut, Go
<1>2. LockHasAKeeper'
  BY DEF LockInv, LockHasAKeeper, TimeOut, Go
<1>3. KeeperHasLock'
  BY DEF LockInv, KeeperHasLock, TimeOut, Go
<1>4. AbandonedHasWord'
  BY DEF LockInv, AbandonedHasWord, TimeOut, Go
<1> QED
  BY <1>1, <1>2, <1>3, <1>4 DEF LockInv

\* The queue is emptied as the word is left, and what was in it released.
LEMMA LockCancel ==
  ASSUME LockInv, NEW c \in Calls, Cancel(c)
  PROVE  LockInv'
<1>1. LockTypeOK'
  BY DEF LockInv, LockTypeOK, Cancel, Go, Ended
<1>2. LockHasAKeeper'
  BY DEF LockInv, LockHasAKeeper, Cancel, Go
<1>3. KeeperHasLock'
  BY DEF LockInv, LockTypeOK, KeeperHasLock, Cancel, Go
<1>4. AbandonedHasWord'
  BY DEF LockInv, LockTypeOK, AbandonedHasWord, Cancel, Go
<1> QED
  BY <1>1, <1>2, <1>3, <1>4 DEF LockInv

LEMMA LockRelease ==
  ASSUME LockInv, NEW c \in Calls, Release(c, "done") \/ Release(c, "raised")
  PROVE  LockInv'
<1>1. LockTypeOK'
  BY DEF LockInv, LockTypeOK, Release, Go, Ended
<1>2. LockHasAKeeper'
  BY DEF LockHasAKeeper, Release
<1>3. KeeperHasLock'
  BY DEF LockInv, LockTypeOK, KeeperHasLock, Release, Go
<1>4. AbandonedHasWord'
  BY DEF LockInv, LockTypeOK, KeeperHasLock, AbandonedHasWord, Release, Go
<1> QED
  BY <1>1, <1>2, <1>3, <1>4 DEF LockInv

\* A thread wins only a free lock.
LEMMA LockThreadReturns ==
  ASSUME LockInv, NEW c \in Calls, ThreadReturns(c)
  PROVE  LockInv'
<1>1. LockTypeOK'
  BY DEF LockInv, LockTypeOK, ThreadReturns, ThreadGo
<1>2. LockHasAKeeper'
  BY DEF LockInv, LockTypeOK, LockHasAKeeper, ThreadReturns, ThreadGo
<1>3. KeeperHasLock'
  BY NoneAssumption DEF LockInv, LockTypeOK, KeeperHasLock, ThreadReturns,
    ThreadGo
<1>4. AbandonedHasWord'
  BY DEF LockInv, LockTypeOK, AbandonedHasWord, ThreadReturns, ThreadGo
<1> QED
  BY <1>1, <1>2, <1>3, <1>4 DEF LockInv

\* The thread looks for the word as it hands over: either its call still waits
\* and will look into the queue, or the thread keeps the lock to drop it.
LEMMA LockHandOver ==
  ASSUME LockInv, NEW c \in Calls, HandOver(c)
  PROVE  LockInv'
<1>1. LockTypeOK'
  BY DEF LockInv, LockTypeOK, HandOver, ThreadGo
<1>2. LockHasAKeeper'
  BY DEF LockInv, LockTypeOK, LockHasAKeeper, AbandonedHasWord, HandOver,
    ThreadGo, Ended
<1>3. KeeperHasLock'
  BY DEF LockInv, LockTypeOK, KeeperHasLock, AbandonedHasWord, HandOver,
    ThreadGo, Ended
<1>4. AbandonedHasWord'
  BY DEF LockInv, AbandonedHasWord, HandOver, ThreadGo
<1> QED
  BY <1>1, <1>2, <1>3, <1>4 DEF LockInv

LEMMA LockDrop ==
  ASSUME LockInv, NEW c \in Calls, Drop(c)
  PROVE  LockInv'
<1>1. LockTypeOK'
  BY DEF LockInv, LockTypeOK, Drop, ThreadGo
<1>2. LockHasAKeeper'
  BY DEF LockHasAKeeper, Drop
<1>3. KeeperHasLock'
  BY DEF LockInv, LockTypeOK, KeeperHasLock, Drop, ThreadGo
<1>4. AbandonedHasWord'
  BY DEF LockInv, AbandonedHasWord, Drop, ThreadGo
<1> QED
  BY <1>1, <1>2, <1>3, <1>4 DEF LockInv

\* The system closes whatever file of the process has the lock.
LEMMA LockDie ==
  ASSUME LockInv, NEW c \in Calls, Die(c)
  PROVE  LockInv'
<1>1. LockTypeOK'
  BY DEF LockInv, LockTypeOK, Die, Ended
<1>2. LockHasAKeeper'
  BY DEF LockInv, LockHasAKeeper, Die
<1>3. KeeperHasLock'
  BY DEF LockInv, LockTypeOK, KeeperHasLock, Die
<1>4. AbandonedHasWord'
  BY DEF LockInv, LockTypeOK, AbandonedHasWord, Die
<1> QED
  BY <1>1, <1>2, <1>3, <1>4 DEF LockInv

LEMMA LockStep == LockInv /\ [LockNext]_lockVars => LockInv'
<1>1. CASE UNCHANGED lockVars
  BY <1>1 DEF lockVars, LockInv, LockTypeOK, LockHasAKeeper, KeeperHasLock,
    AbandonedHasWord
<1>2. ASSUME LockInv, LockNext PROVE LockInv'
  BY <1>2, LockTryAcquire, LockOpenFails, LockTakeHandoff, LockTimeOut,
    LockCancel, LockRelease, LockThreadReturns, LockHandOver, LockDrop, LockDie
    DEF LockNext, CallStep, ThreadStep
<1> QED
  BY <1>1, <1>2

LEMMA LockStart == LockInit => LockInv
  BY NoneAssumption DEF LockInit, LockInv, LockTypeOK, LockHasAKeeper,
    KeeperHasLock,
    AbandonedHasWord, Ended

\* The invariant of the lock, for whatever is done while it is held.
THEOREM LockSafe == LockSpec => []LockInv
<1> QED
  BY LockStart, LockStep, PTL DEF LockSpec

\* The lock never stays with nobody: a call that gives up leaves it to no
\* queue, and a thread that wins it for nobody drops it.
THEOREM LockIsKept == LockSpec => []LockHasAKeeper
<1>1. LockInv => LockHasAKeeper
  BY DEF LockInv
<1> QED
  BY <1>1, LockSafe, PTL

-----------------------------------------------------------------------------
(* StoreInv is inductive: one lemma per action, one step per conjunct but  *)
(* for the lock's.                                                         *)

\* What the search finds is what the directories hold.
LEMMA SameFiles ==
  ASSUME files' = files
  PROVE  Current' = Current /\ \A d : Found(d)' = Found(d)
BY DEF Current, Found

LEMMA FoundIsCurrent ==
  ASSUME NEW d \in Dirs, Found(d)
  PROVE  files[d] # None /\ files[d].content \in Current
BY DEF Current, Found

\* What the search finds is of the contents there are.
LEMMA CurrentType == TypeOK => Current \subseteq Contents
BY DEF TypeOK, Current, Found, Files

\* What a fetch knows while it builds.
LEMMA ReadType ==
  ASSUME StoreInv, NEW c \in Calls, at[c] \in Building
  PROVE  /\ read[c] \in [dir : Dirs, content : Contents]
         /\ read[c].dir \in Dirs /\ read[c].content \in Contents
         /\ manifest = None
<1>1. read[c] \in [dir : Dirs, content : Contents] /\ manifest = None
  BY DEF StoreInv, TypeOK, RecordedIsWhole, Reads
<1> QED
  BY <1>1

\* A manifest that is written is one.
LEMMA IncompleteIsManifest == Incomplete \in Manifests /\ Incomplete # None
<1>1. {} \in SUBSET Inputs
  OBVIOUS
<1>2. Incomplete \in Manifests
  BY <1>1 DEF Incomplete, Manifests
<1> QED
  BY <1>2, NoneAssumptions

LEMMA RecordTypes ==
  ASSUME StoreInv, NEW c \in Calls, Record(c)
  PROVE  /\ manifest' \in Manifests /\ manifest' # None
         /\ settled' \in BOOLEAN
         /\ digests' \in [Calls -> [Dirs -> Contents \cup {None}]]
<1>1. PICK content \in Contents :
        /\ \/ digests[c][read[c].dir] = content
           \/ /\ digests[c][read[c].dir] = None /\ files[read[c].dir] # None
              /\ files[read[c].dir].content = content
        /\ digests' = [digests EXCEPT ![c][read[c].dir] = content]
        /\ Write(c, [complete |-> TRUE,
                     inputs |-> {[dir |-> read[c].dir, content |-> content,
                                  stamp |-> stamp[c]]}])
  BY Zenon DEF Record
<1>2. read[c].dir \in Dirs /\ stamp[c] \in Stamps
  BY ReadType DEF StoreInv, TypeOK, Building, Record, At
<1>3. [dir |-> read[c].dir, content |-> content, stamp |-> stamp[c]] \in Inputs
  BY <1>2 DEF Inputs
<1>4. manifest' \in Manifests /\ settled' \in BOOLEAN
  BY <1>1, <1>3 DEF StoreInv, TypeOK, Manifests, Write
<1>5. digests' \in [Calls -> [Dirs -> Contents \cup {None}]]
  BY <1>1, <1>2 DEF StoreInv, TypeOK
<1> QED
  BY <1>4, <1>5, NoneAssumptions

LEMMA ForgetTypes ==
  ASSUME TypeOK, NEW c \in Calls, Forget(c)
  PROVE  /\ digests' \in [Calls -> [Dirs -> Contents \cup {None}]]
         /\ read' \in [Calls -> Reads \cup {None}]
         /\ stamp' \in [Calls -> Stamps]
<1>1. 0 \in Stamps
  BY MaxEditsAssumption DEF Stamps
<1>2. [d \in Dirs |-> None] \in [Dirs -> Contents \cup {None}]
  OBVIOUS
<1> QED
  BY <1>1, <1>2 DEF TypeOK, Forget

\* Whoever has the lock is at the check, and the input it finds counts.
LEMMA StoreEnter ==
  ASSUME StoreInv, LockInv', NEW c \in Calls, Enter(c)
  PROVE  StoreInv'
<1>1. TypeOK'
  BY CurrentType DEF StoreInv, TypeOK, LockInv, Building, Enter, entry, TryAcquire, TakeHandoff, Go
<1>2. OneInside'
  BY DEF StoreInv, TypeOK, LockTypeOK, OneInside, Enter, entry, TryAcquire, TakeHandoff, Go
<1>3. RecordedIsWhole'
  BY DEF StoreInv, TypeOK, Building, RecordedIsWhole, OneInside, LockInv, KeeperHasLock, Enter, entry, TryAcquire, TakeHandoff, Go
<1>4. FetchedIsWhole'
  BY DEF StoreInv, FetchedIsWhole, Enter, entry, TryAcquire, TakeHandoff, Go
<1>5. KnowsItsTime'
  BY SameFiles DEF StoreInv, TypeOK, LockTypeOK, LockInv, Building, KnowsItsTime, OneInside, Enter, entry, TryAcquire, TakeHandoff, Go
<1>6. KnowsItsInput'
  BY SameFiles DEF StoreInv, TypeOK, LockTypeOK, Building, KnowsItsInput, IsThrough, OneInside, Enter, entry, TryAcquire, TakeHandoff, Go
<1>7. EntryKnowsItsInput'
  BY DEF StoreInv, TypeOK, Building, EntryKnowsItsInput, ManifestOfObject, StampTells, Now, OneInside, LockInv, KeeperHasLock, Enter, entry, TryAcquire, TakeHandoff, Go
<1>8. FetchedIsCurrent'
  BY DEF StoreInv, FetchedIsCurrent, Enter, entry, TryAcquire, TakeHandoff, Go
<1> QED
  BY <1>1, <1>2, <1>3, <1>4, <1>5, <1>6, <1>7, <1>8 DEF StoreInv

LEMMA StoreLockOnly ==
  ASSUME StoreInv, LockInv', NEW c \in Calls, LockOnly(c)
  PROVE  StoreInv'
<1>1. TypeOK'
  BY DEF StoreInv, TypeOK, LockInv, Building, LockOnly, entryVars, entry, inputVars, TimeOut, Cancel, OpenFails, ThreadStep, ThreadReturns, HandOver, Drop, Go
<1>2. OneInside'
  BY DEF StoreInv, TypeOK, LockTypeOK, OneInside, LockOnly, entryVars, entry, inputVars, TimeOut, Cancel, OpenFails, ThreadStep, ThreadReturns, HandOver, Drop, Go
<1>3. RecordedIsWhole'
  BY DEF StoreInv, TypeOK, Building, RecordedIsWhole, OneInside, LockInv, KeeperHasLock, LockOnly, entryVars, entry, inputVars, TimeOut, Cancel, OpenFails, ThreadStep, ThreadReturns, HandOver, Drop, Go
<1>4. FetchedIsWhole'
  BY DEF StoreInv, FetchedIsWhole, LockOnly, entryVars, entry, inputVars, TimeOut, Cancel, OpenFails, ThreadStep, ThreadReturns, HandOver, Drop, Go
<1>5. KnowsItsTime'
  BY SameFiles DEF StoreInv, TypeOK, LockTypeOK, LockInv, Building, KnowsItsTime, OneInside, LockOnly, entryVars, entry, inputVars, TimeOut, Cancel, OpenFails, ThreadStep, ThreadReturns, HandOver, Drop, Go
<1>6. KnowsItsInput'
  BY SameFiles DEF StoreInv, TypeOK, LockTypeOK, Building, KnowsItsInput, IsThrough, OneInside, LockOnly, entryVars, entry, inputVars, TimeOut, Cancel, OpenFails, ThreadStep, ThreadReturns, HandOver, Drop, Go
<1>7. EntryKnowsItsInput'
  BY DEF StoreInv, TypeOK, Building, EntryKnowsItsInput, ManifestOfObject, StampTells, Now, OneInside, LockInv, KeeperHasLock, LockOnly, entryVars, entry, inputVars, TimeOut, Cancel, OpenFails, ThreadStep, ThreadReturns, HandOver, Drop, Go
<1>8. FetchedIsCurrent'
  BY DEF StoreInv, FetchedIsCurrent, LockOnly, entryVars, entry, inputVars, TimeOut, Cancel, OpenFails, ThreadStep, ThreadReturns, HandOver, Drop, Go
<1> QED
  BY <1>1, <1>2, <1>3, <1>4, <1>5, <1>6, <1>7, <1>8 DEF StoreInv

LEMMA StoreReturn ==
  ASSUME StoreInv, LockInv', NEW c \in Calls, Return(c)
  PROVE  StoreInv'
<1>1. TypeOK'
  <2>1. /\ digests' \in [Calls -> [Dirs -> Contents \cup {None}]]
        /\ read' \in [Calls -> Reads \cup {None}]
        /\ stamp' \in [Calls -> Stamps]
    BY ForgetTypes DEF StoreInv, Return
  <2> QED
    BY <2>1 DEF StoreInv, TypeOK, LockInv, Building, Return, Forget, inputVars, At
<1>2. OneInside'
  BY DEF StoreInv, TypeOK, LockTypeOK, OneInside, Return, Forget, inputVars, At, Release, Go
<1>3. RecordedIsWhole'
  BY DEF StoreInv, TypeOK, Building, RecordedIsWhole, OneInside, LockInv, KeeperHasLock, Return, Forget, inputVars, At, Release, Go
<1>4. FetchedIsWhole'
  BY DEF StoreInv, FetchedIsWhole, Return, Forget, inputVars, At, Release, Go
<1>5. KnowsItsTime'
  BY SameFiles DEF StoreInv, TypeOK, LockTypeOK, LockInv, Building, KnowsItsTime, OneInside, Return, Forget, inputVars, At, Release, Go
<1>6. KnowsItsInput'
  BY SameFiles DEF StoreInv, TypeOK, LockTypeOK, Building, KnowsItsInput, IsThrough, OneInside, Return, Forget, inputVars, At, Release, Go
<1>7. EntryKnowsItsInput'
  BY DEF StoreInv, TypeOK, Building, EntryKnowsItsInput, ManifestOfObject, StampTells, Now, OneInside, LockInv, KeeperHasLock, Return, Forget, inputVars, At, Release, Go
<1>8. FetchedIsCurrent'
  BY DEF StoreInv, FetchedIsCurrent, Return, Forget, inputVars, At, Release, Go
<1> QED
  BY <1>1, <1>2, <1>3, <1>4, <1>5, <1>6, <1>7, <1>8 DEF StoreInv

LEMMA StoreRaise ==
  ASSUME StoreInv, LockInv', NEW c \in Calls, Raise(c)
  PROVE  StoreInv'
<1>1. TypeOK'
  <2>1. /\ digests' \in [Calls -> [Dirs -> Contents \cup {None}]]
        /\ read' \in [Calls -> Reads \cup {None}]
        /\ stamp' \in [Calls -> Stamps]
    BY ForgetTypes DEF StoreInv, Raise
  <2> QED
    BY <2>1 DEF StoreInv, TypeOK, LockInv, Building, Raise, Forget, inputVars
<1>2. OneInside'
  BY DEF StoreInv, TypeOK, LockTypeOK, OneInside, Raise, Forget, inputVars, Release, Go
<1>3. RecordedIsWhole'
  BY DEF StoreInv, TypeOK, Building, RecordedIsWhole, OneInside, LockInv, KeeperHasLock, Raise, Forget, inputVars, Release, Go
<1>4. FetchedIsWhole'
  BY DEF StoreInv, FetchedIsWhole, Raise, Forget, inputVars, Release, Go
<1>5. KnowsItsTime'
  BY SameFiles DEF StoreInv, TypeOK, LockTypeOK, LockInv, Building, KnowsItsTime, OneInside, Raise, Forget, inputVars, Release, Go
<1>6. KnowsItsInput'
  BY SameFiles DEF StoreInv, TypeOK, LockTypeOK, Building, KnowsItsInput, IsThrough, OneInside, Raise, Forget, inputVars, Release, Go
<1>7. EntryKnowsItsInput'
  BY DEF StoreInv, TypeOK, Building, EntryKnowsItsInput, ManifestOfObject, StampTells, Now, OneInside, LockInv, KeeperHasLock, Raise, Forget, inputVars, Release, Go
<1>8. FetchedIsCurrent'
  BY DEF StoreInv, FetchedIsCurrent, Raise, Forget, inputVars, Release, Go
<1> QED
  BY <1>1, <1>2, <1>3, <1>4, <1>5, <1>6, <1>7, <1>8 DEF StoreInv

LEMMA StoreDies ==
  ASSUME StoreInv, LockInv', NEW c \in Calls, Dies(c)
  PROVE  StoreInv'
<1>1. TypeOK'
  <2>1. /\ digests' \in [Calls -> [Dirs -> Contents \cup {None}]]
        /\ read' \in [Calls -> Reads \cup {None}]
        /\ stamp' \in [Calls -> Stamps]
    BY ForgetTypes DEF StoreInv, Dies
  <2> QED
    BY <2>1 DEF StoreInv, TypeOK, LockInv, Building, Dies, Forget, inputVars
<1>2. OneInside'
  BY DEF StoreInv, TypeOK, LockTypeOK, OneInside, Dies, Forget, inputVars, Die
<1>3. RecordedIsWhole'
  BY DEF StoreInv, TypeOK, Building, RecordedIsWhole, OneInside, LockInv, KeeperHasLock, Dies, Forget, inputVars, Die
<1>4. FetchedIsWhole'
  BY DEF StoreInv, FetchedIsWhole, Dies, Forget, inputVars, Die
<1>5. KnowsItsTime'
  BY SameFiles DEF StoreInv, TypeOK, LockTypeOK, LockInv, Building, KnowsItsTime, OneInside, Dies, Forget, inputVars, Die
<1>6. KnowsItsInput'
  BY SameFiles DEF StoreInv, TypeOK, LockTypeOK, Building, KnowsItsInput, IsThrough, OneInside, Dies, Forget, inputVars, Die
<1>7. EntryKnowsItsInput'
  BY DEF StoreInv, TypeOK, Building, EntryKnowsItsInput, ManifestOfObject, StampTells, Now, OneInside, LockInv, KeeperHasLock, Dies, Forget, inputVars, Die
<1>8. FetchedIsCurrent'
  BY DEF StoreInv, FetchedIsCurrent, Dies, Forget, inputVars, Die
<1> QED
  BY <1>1, <1>2, <1>3, <1>4, <1>5, <1>6, <1>7, <1>8 DEF StoreInv

LEMMA StoreCheck ==
  ASSUME StoreInv, LockInv', NEW c \in Calls, Check(c)
  PROVE  StoreInv'
<1>1. TypeOK'
  BY DEF StoreInv, TypeOK, LockInv, Building, Check, Inside, inputVars, entry, lockVars, At
<1>2. OneInside'
  BY DEF StoreInv, TypeOK, LockTypeOK, OneInside, Check, Inside, inputVars, entry, lockVars, At
<1>3. RecordedIsWhole'
  BY DEF StoreInv, TypeOK, Building, RecordedIsWhole, OneInside, LockInv, KeeperHasLock, Valid, Check, entry, At
<1>4. FetchedIsWhole'
  BY DEF StoreInv, FetchedIsWhole, Check, Inside, inputVars, entry, lockVars, At
<1>5. KnowsItsTime'
  BY SameFiles DEF StoreInv, TypeOK, LockTypeOK, LockInv, Building, KnowsItsTime, OneInside, Check, Inside, inputVars, entry, lockVars, At
<1>6. KnowsItsInput'
  BY SameFiles DEF StoreInv, TypeOK, LockTypeOK, Building, KnowsItsInput, IsThrough, OneInside, Check, Inside, inputVars, entry, lockVars, At
<1>7. EntryKnowsItsInput'
  <2>1. SUFFICES ASSUME ~limit, settled, NEW d \in Calls, at'[d] = "copy",
                        manifest.complete
                 PROVE  obj \in since[d]
    BY DEF StoreInv, EntryKnowsItsInput, ManifestOfObject, StampTells, Now, Check, Inside,
      inputVars, entry
  <2>2. CASE d # c
    BY <2>1, <2>2 DEF StoreInv, TypeOK, EntryKnowsItsInput, Check, At
  <2>3. CASE d = c
    <3>1. obj # "none" /\ Valid /\ manifest # None
      BY <2>1, <2>3 DEF StoreInv, TypeOK, Check, At, Valid
    <3>2. manifest \in Manifests /\ ManifestOfObject
      BY <2>1, <3>1 DEF StoreInv, TypeOK, EntryKnowsItsInput
    <3>3. PICK i \in manifest.inputs : i \in Inputs
      BY <2>1, <3>1, <3>2 DEF ManifestOfObject, Manifests
    <3>4. i.dir \in Dirs
      BY <3>3 DEF Inputs
    <3>5. /\ obj = i.content /\ files[i.dir] # None
          /\ files[i.dir].content = i.content
          /\ \A e \in Dirs : e < i.dir => files[e] = None
      BY <2>1, <3>1, <3>2, <3>3 DEF ManifestOfObject, StampTells, Valid
    <3>6. obj \in Current
      BY <3>4, <3>5, FoundIsCurrent DEF Found
    <3>7. Current \subseteq since[c]
      BY DEF StoreInv, OneInside, KnowsItsTime, Check, At
    <3> QED
      BY <2>3, <3>6, <3>7
  <2> QED
    BY <2>2, <2>3
<1>8. FetchedIsCurrent'
  BY DEF StoreInv, FetchedIsCurrent, Check, Inside, inputVars, entry, lockVars, At
<1> QED
  BY <1>1, <1>2, <1>3, <1>4, <1>5, <1>6, <1>7, <1>8 DEF StoreInv

LEMMA StoreRemove ==
  ASSUME StoreInv, LockInv', NEW c \in Calls, Remove(c)
  PROVE  StoreInv'
<1>1. TypeOK'
  BY DEF StoreInv, TypeOK, LockInv, Building, Remove, Inside, inputVars, lockVars
<1>2. OneInside'
  BY DEF StoreInv, TypeOK, LockTypeOK, OneInside, Remove, Inside, inputVars, lockVars
<1>3. RecordedIsWhole'
  BY DEF StoreInv, TypeOK, Building, RecordedIsWhole, OneInside, LockInv, KeeperHasLock, Remove, Inside, inputVars, lockVars
<1>4. FetchedIsWhole'
  BY DEF StoreInv, FetchedIsWhole, Remove, Inside, inputVars, lockVars
<1>5. KnowsItsTime'
  BY SameFiles DEF StoreInv, TypeOK, LockTypeOK, LockInv, Building, KnowsItsTime, OneInside, Remove, Inside, inputVars, lockVars
<1>6. KnowsItsInput'
  BY SameFiles DEF StoreInv, TypeOK, LockTypeOK, Building, KnowsItsInput, IsThrough, OneInside, Remove, Inside, inputVars, lockVars
<1>7. EntryKnowsItsInput'
  BY DEF StoreInv, TypeOK, Building, EntryKnowsItsInput, ManifestOfObject, StampTells, Now, OneInside, LockInv, KeeperHasLock, Remove, Inside, inputVars, lockVars
<1>8. FetchedIsCurrent'
  BY DEF StoreInv, FetchedIsCurrent, Remove, Inside, inputVars, lockVars
<1> QED
  BY <1>1, <1>2, <1>3, <1>4, <1>5, <1>6, <1>7, <1>8 DEF StoreInv

\* Without object and manifest the compile starts from nothing.
LEMMA StoreCleaned ==
  ASSUME StoreInv, LockInv', NEW c \in Calls, Cleaned(c)
  PROVE  StoreInv'
<1>1. TypeOK'
  <2>1. CASE Forget(c)
    <3>1. /\ digests' \in [Calls -> [Dirs -> Contents \cup {None}]]
          /\ read' \in [Calls -> Reads \cup {None}]
          /\ stamp' \in [Calls -> Stamps]
      BY <2>1, ForgetTypes DEF StoreInv
    <3> QED
      BY <2>1, <3>1 DEF StoreInv, TypeOK, LockInv, Building, Cleaned, Forget, inputVars, At
  <2>2. CASE Inside /\ UNCHANGED entry
    BY <2>2 DEF StoreInv, TypeOK, LockInv, Building, Cleaned, Inside, inputVars, lockVars,
      entry, At
  <2> QED
    BY <2>1, <2>2 DEF Cleaned
<1>2. OneInside'
  BY DEF StoreInv, TypeOK, LockTypeOK, OneInside, Cleaned, Forget, Inside, inputVars, lockVars, entry, At, Release, Go
<1>3. RecordedIsWhole'
  BY DEF StoreInv, TypeOK, Building, RecordedIsWhole, OneInside, LockInv, KeeperHasLock, Cleaned, Forget, Inside, inputVars, lockVars, entry, At, Release, Go
<1>4. FetchedIsWhole'
  BY DEF StoreInv, FetchedIsWhole, Cleaned, Forget, Inside, inputVars, lockVars, entry, At, Release, Go
<1>5. KnowsItsTime'
  BY SameFiles DEF StoreInv, TypeOK, LockTypeOK, LockInv, Building, KnowsItsTime, OneInside, Cleaned, Forget, Inside, inputVars, lockVars, entry, At, Release, Go
<1>6. KnowsItsInput'
  BY SameFiles DEF StoreInv, TypeOK, LockTypeOK, Building, KnowsItsInput, IsThrough, OneInside, Cleaned, Forget, Inside, inputVars, lockVars, entry, At, Release, Go
<1>7. EntryKnowsItsInput'
  BY DEF StoreInv, TypeOK, Building, EntryKnowsItsInput, ManifestOfObject, StampTells, Now, OneInside, LockInv, KeeperHasLock, Cleaned, Forget, Inside, inputVars, lockVars, entry, At, Release, Go
<1>8. FetchedIsCurrent'
  BY DEF StoreInv, FetchedIsCurrent, Cleaned, Forget, Inside, inputVars, lockVars, entry, At, Release, Go
<1> QED
  BY <1>1, <1>2, <1>3, <1>4, <1>5, <1>6, <1>7, <1>8 DEF StoreInv

\* The object is partial now; the manifest was removed before.
LEMMA StoreStartCompile ==
  ASSUME StoreInv, LockInv', NEW c \in Calls, StartCompile(c)
  PROVE  StoreInv'
<1>1. TypeOK'
  <2>1. \A d \in Dirs : files[d] # None =>
          [dir |-> d, content |-> files[d].content] \in Reads
    BY DEF StoreInv, TypeOK, Files, Reads
  <2> QED
    BY <2>1 DEF StoreInv, TypeOK, LockInv, Building, StartCompile, Found, Inside,
      inputVars, lockVars, At
<1>2. OneInside'
  BY DEF StoreInv, TypeOK, LockTypeOK, OneInside, StartCompile, Inside, inputVars, lockVars, At
<1>3. RecordedIsWhole'
  <2>1. manifest = None
    BY DEF StoreInv, RecordedIsWhole, StartCompile, At
  <2>2. PICK d \in Dirs :
          /\ Found(d)
          /\ read' = [read EXCEPT ![c] = [dir |-> d, content |-> files[d].content]]
    BY DEF StartCompile
  <2>3. [dir |-> d, content |-> files[d].content] # None
    BY <2>2, NoneAssumptions DEF StoreInv, TypeOK, Found, Files, Reads
  <2> QED
    BY <2>1, <2>2, <2>3 DEF StoreInv, TypeOK, Building, RecordedIsWhole, OneInside, LockInv,
      KeeperHasLock, StartCompile, At
<1>4. FetchedIsWhole'
  BY DEF StoreInv, FetchedIsWhole, StartCompile, Inside, inputVars, lockVars, At
<1>5. KnowsItsTime'
  <2>1. PICK d \in Dirs :
          /\ Found(d)
          /\ read' = [read EXCEPT ![c] = [dir |-> d, content |-> files[d].content]]
    BY DEF StartCompile
  <2>2. files[d].content \in Current /\ Current' = Current
    BY <2>1, FoundIsCurrent, SameFiles DEF StartCompile, Inside, inputVars
  <2>3. Current \subseteq since[c]
    BY DEF StoreInv, OneInside, KnowsItsTime, StartCompile, At
  <2> QED
    BY <2>1, <2>2, <2>3 DEF StoreInv, TypeOK, Building, KnowsItsTime, StartCompile, Inside,
      inputVars, lockVars, At
<1>6. KnowsItsInput'
  <2>1. PICK d \in Dirs :
          /\ Found(d)
          /\ read' = [read EXCEPT ![c] = [dir |-> d, content |-> files[d].content]]
    BY DEF StartCompile
  <2>2. \A e : Found(e)' = Found(e)
    BY SameFiles DEF StartCompile, Inside, inputVars
  <2> QED
    BY <2>1, <2>2 DEF StoreInv, TypeOK, Building, KnowsItsInput, IsThrough, StartCompile,
      Inside, inputVars, At
<1>7. EntryKnowsItsInput'
  BY DEF StoreInv, TypeOK, Building, EntryKnowsItsInput, ManifestOfObject, StampTells, Now, OneInside, LockInv, KeeperHasLock, RecordedIsWhole, StartCompile, Inside, inputVars, At
<1>8. FetchedIsCurrent'
  BY DEF StoreInv, FetchedIsCurrent, StartCompile, Inside, inputVars, lockVars, At
<1> QED
  BY <1>1, <1>2, <1>3, <1>4, <1>5, <1>6, <1>7, <1>8 DEF StoreInv

LEMMA StoreEndCompile ==
  ASSUME StoreInv, LockInv', NEW c \in Calls, EndCompile(c)
  PROVE  StoreInv'
<1>1. TypeOK'
  BY ReadType DEF StoreInv, TypeOK, LockInv, Building, EndCompile, Inside, inputVars, lockVars, At
<1>2. OneInside'
  BY DEF StoreInv, TypeOK, LockTypeOK, OneInside, EndCompile, Inside, inputVars, lockVars, At
<1>3. RecordedIsWhole'
  BY ReadType DEF StoreInv, TypeOK, Building, RecordedIsWhole, OneInside, LockInv, KeeperHasLock, EndCompile, Inside, inputVars, lockVars, At
<1>4. FetchedIsWhole'
  BY DEF StoreInv, FetchedIsWhole, EndCompile, Inside, inputVars, lockVars, At
<1>5. KnowsItsTime'
  BY SameFiles DEF StoreInv, TypeOK, LockTypeOK, LockInv, Building, KnowsItsTime, OneInside, EndCompile, Inside, inputVars, lockVars, At
<1>6. KnowsItsInput'
  BY SameFiles DEF StoreInv, TypeOK, LockTypeOK, Building, KnowsItsInput, IsThrough, OneInside, EndCompile, Inside, inputVars, lockVars, At
<1>7. EntryKnowsItsInput'
  BY ReadType DEF StoreInv, TypeOK, Building, EntryKnowsItsInput, ManifestOfObject, StampTells, Now, OneInside, LockInv, KeeperHasLock, EndCompile, Inside, inputVars, At
<1>8. FetchedIsCurrent'
  BY DEF StoreInv, FetchedIsCurrent, EndCompile, Inside, inputVars, lockVars, At
<1> QED
  BY <1>1, <1>2, <1>3, <1>4, <1>5, <1>6, <1>7, <1>8 DEF StoreInv

LEMMA StoreCompileFails ==
  ASSUME StoreInv, LockInv', NEW c \in Calls, CompileFails(c)
  PROVE  StoreInv'
<1>1. TypeOK'
  BY DEF StoreInv, TypeOK, LockInv, Building, CompileFails, Inside, inputVars, lockVars, entry, At
<1>2. OneInside'
  BY DEF StoreInv, TypeOK, LockTypeOK, OneInside, CompileFails, Inside, inputVars, lockVars, entry, At
<1>3. RecordedIsWhole'
  BY DEF StoreInv, TypeOK, Building, RecordedIsWhole, OneInside, LockInv, KeeperHasLock, CompileFails, Inside, inputVars, lockVars, entry, At
<1>4. FetchedIsWhole'
  BY DEF StoreInv, FetchedIsWhole, CompileFails, Inside, inputVars, lockVars, entry, At
<1>5. KnowsItsTime'
  BY SameFiles DEF StoreInv, TypeOK, LockTypeOK, LockInv, Building, KnowsItsTime, OneInside, CompileFails, Inside, inputVars, lockVars, entry, At
<1>6. KnowsItsInput'
  BY SameFiles DEF StoreInv, TypeOK, LockTypeOK, Building, KnowsItsInput, IsThrough, OneInside, CompileFails, Inside, inputVars, lockVars, entry, At
<1>7. EntryKnowsItsInput'
  BY DEF StoreInv, TypeOK, Building, EntryKnowsItsInput, ManifestOfObject, StampTells, Now, OneInside, LockInv, KeeperHasLock, CompileFails, Inside, inputVars, lockVars, entry, At
<1>8. FetchedIsCurrent'
  BY DEF StoreInv, FetchedIsCurrent, CompileFails, Inside, inputVars, lockVars, entry, At
<1> QED
  BY <1>1, <1>2, <1>3, <1>4, <1>5, <1>6, <1>7, <1>8 DEF StoreInv

LEMMA StoreStatInput ==
  ASSUME StoreInv, LockInv', NEW c \in Calls, StatInput(c)
  PROVE  StoreInv'
<1>1. TypeOK'
  <2>1. files[read[c].dir] \in Files
    BY ReadType DEF StoreInv, TypeOK, Building, StatInput, At
  <2>2. files[read[c].dir].stamp \in Stamps
    BY <2>1 DEF Files
  <2> QED
    BY <2>2 DEF StoreInv, TypeOK, LockInv, Building, StatInput, Inside, inputVars,
      lockVars, At
<1>2. OneInside'
  BY DEF StoreInv, TypeOK, LockTypeOK, OneInside, StatInput, Inside, inputVars, lockVars, At
<1>3. RecordedIsWhole'
  BY DEF StoreInv, TypeOK, Building, RecordedIsWhole, OneInside, LockInv, KeeperHasLock, StatInput, Inside, inputVars, lockVars, At
<1>4. FetchedIsWhole'
  BY DEF StoreInv, FetchedIsWhole, StatInput, Inside, inputVars, lockVars, At
<1>5. KnowsItsTime'
  BY SameFiles DEF StoreInv, TypeOK, LockTypeOK, LockInv, Building, KnowsItsTime, OneInside, StatInput, Inside, inputVars, lockVars, At
<1>6. KnowsItsInput'
  BY SameFiles DEF StoreInv, TypeOK, LockTypeOK, Building, KnowsItsInput, IsThrough, OneInside, StatInput, Inside, inputVars, lockVars, At
<1>7. EntryKnowsItsInput'
  BY DEF StoreInv, TypeOK, Building, EntryKnowsItsInput, ManifestOfObject, StampTells, Now, OneInside, LockInv, KeeperHasLock, StatInput, Inside, inputVars, lockVars, At
<1>8. FetchedIsCurrent'
  BY DEF StoreInv, FetchedIsCurrent, StatInput, Inside, inputVars, lockVars, At
<1> QED
  BY <1>1, <1>2, <1>3, <1>4, <1>5, <1>6, <1>7, <1>8 DEF StoreInv

\* The manifest written is of the object beside it if the build is steady.
LEMMA StoreRecord ==
  ASSUME StoreInv, LockInv', NEW c \in Calls, Record(c)
  PROVE  StoreInv'
<1>1. TypeOK'
  BY RecordTypes DEF StoreInv, TypeOK, LockInv, Building, Record, Inside, inputVars, lockVars, At
<1>2. OneInside'
  BY DEF StoreInv, TypeOK, LockTypeOK, OneInside, Record, Write, Inside, inputVars, lockVars, At
<1>3. RecordedIsWhole'
  <2>1. manifest' # None
    BY RecordTypes
  <2>2. obj \in Contents /\ obj # "partial"
    BY ReadType, ContentsAssumption DEF StoreInv, RecordedIsWhole, Building, Record, At
  <2> QED
    BY <2>1, <2>2 DEF StoreInv, TypeOK, Building, RecordedIsWhole, OneInside, LockInv,
      KeeperHasLock, Record, Inside, At
<1>4. FetchedIsWhole'
  BY DEF StoreInv, FetchedIsWhole, Record, Write, Inside, inputVars, lockVars, At
<1>5. KnowsItsTime'
  <2>1. Current' = Current
    BY SameFiles DEF Record, Inside, inputVars
  <2> QED
    BY <2>1 DEF StoreInv, TypeOK, Building, KnowsItsTime, Record, Inside, inputVars,
      lockVars, At
<1>6. KnowsItsInput'
  <2>1. \A d \in Calls \ {c} : digests'[d] = digests[d] /\ at'[d] = at[d]
    BY DEF StoreInv, TypeOK, Record, At
  <2>2. IsThrough(c)'
    BY DEF StoreInv, TypeOK, IsThrough, Record, At
  <2>3. \A d : Found(d)' = Found(d)
    BY SameFiles DEF Record, Inside, inputVars
  <2> QED
    BY <2>1, <2>2, <2>3 DEF StoreInv, KnowsItsInput, IsThrough, Record, Inside, inputVars
<1>7. EntryKnowsItsInput'
  <2>1. PICK content \in Contents :
          /\ \/ digests[c][read[c].dir] = content
             \/ /\ digests[c][read[c].dir] = None /\ files[read[c].dir] # None
                /\ files[read[c].dir].content = content
          /\ digests' = [digests EXCEPT ![c][read[c].dir] = content]
          /\ Write(c, [complete |-> TRUE,
                       inputs |-> {[dir |-> read[c].dir, content |-> content,
                                    stamp |-> stamp[c]]}])
    BY Zenon DEF Record
  <2> DEFINE i == [dir |-> read[c].dir, content |-> content, stamp |-> stamp[c]]
  <2>2. manifest' = [complete |-> TRUE, inputs |-> {i}] /\ settled' = steady[c]
    BY <2>1 DEF Write
  <2>3. /\ read[c].dir \in Dirs /\ read[c].content \in since[c] /\ obj = read[c].content
        /\ at[c] = "digest" /\ ~IsThrough(c)
    BY ReadType DEF StoreInv, RecordedIsWhole, KnowsItsTime, Building, IsThrough, Record, At
  <2>4. SUFFICES ASSUME steady[c]
                 PROVE  /\ ManifestOfObject'
                        /\ \A d \in Calls : at'[d] = "copy" => obj \in since[d]
    BY <2>2 DEF StoreInv, EntryKnowsItsInput, Now, Record, Inside, inputVars
  <2>5. /\ Found(read[c].dir) /\ files[read[c].dir].content = read[c].content
        /\ stamp[c] = files[read[c].dir].stamp
        /\ digests[c][read[c].dir] # None =>
             files[read[c].dir].content = digests[c][read[c].dir]
    BY <2>3, <2>4 DEF StoreInv, KnowsItsInput, Building
  <2>6. content = obj /\ content # None
    BY <2>1, <2>3, <2>5, NoneAssumptions
  <2>7. i.dir = read[c].dir /\ i.content = obj /\ i.stamp = files[read[c].dir].stamp
    BY <2>5, <2>6
  <2>8. i.stamp <= Now
    BY <2>3, <2>5, <2>7 DEF StoreInv, EntryKnowsItsInput, Found
  <2>9. ManifestOfObject'
    <3>1. manifest'.inputs = {i}
      BY <2>2
    <3>2. obj' = obj /\ files' = files /\ edits' = edits
      BY DEF Record, Inside, inputVars
    <3>3. \A e \in Dirs : e < i.dir => files[e] = None
      BY <2>5, <2>7 DEF Found
    <3> HIDE DEF i
    <3> QED
      BY <2>3, <2>5, <2>7, <2>8, <3>1, <3>2, <3>3 DEF ManifestOfObject, StampTells, Now
  <2>10. ASSUME NEW d \in Calls, at'[d] = "copy"  PROVE d = c
    BY <2>3, <2>10 DEF StoreInv, TypeOK, OneInside, LockInv, KeeperHasLock, Record, At
  <2> QED
    BY <2>3, <2>9, <2>10
<1>8. FetchedIsCurrent'
  BY DEF StoreInv, FetchedIsCurrent, Record, Write, Inside, inputVars, lockVars, At
<1> QED
  BY <1>1, <1>2, <1>3, <1>4, <1>5, <1>6, <1>7, <1>8 DEF StoreInv

LEMMA StoreRecordIncomplete ==
  ASSUME StoreInv, LockInv', NEW c \in Calls, RecordIncomplete(c)
  PROVE  StoreInv'
<1>1. TypeOK'
  BY IncompleteIsManifest DEF StoreInv, TypeOK, LockInv, Building, RecordIncomplete, Write, Inside, inputVars, lockVars, At
<1>2. OneInside'
  BY DEF StoreInv, TypeOK, LockTypeOK, OneInside, RecordIncomplete, Write, Incomplete, Inside, inputVars, lockVars, At
<1>3. RecordedIsWhole'
  <2>1. manifest' # None
    BY IncompleteIsManifest DEF RecordIncomplete, Write
  <2>2. obj \in Contents /\ obj # "partial"
    BY ReadType, ContentsAssumption DEF StoreInv, RecordedIsWhole, Building,
      RecordIncomplete, At
  <2> QED
    BY <2>1, <2>2 DEF StoreInv, TypeOK, Building, RecordedIsWhole, OneInside, LockInv,
      KeeperHasLock, RecordIncomplete, At
<1>4. FetchedIsWhole'
  BY DEF StoreInv, FetchedIsWhole, RecordIncomplete, Write, Incomplete, Inside, inputVars, lockVars, At
<1>5. KnowsItsTime'
  BY SameFiles DEF StoreInv, TypeOK, LockTypeOK, LockInv, Building, KnowsItsTime, OneInside, RecordIncomplete, Write, Incomplete, Inside, inputVars, lockVars, At
<1>6. KnowsItsInput'
  BY SameFiles DEF StoreInv, TypeOK, LockTypeOK, Building, KnowsItsInput, IsThrough, OneInside, RecordIncomplete, Write, Incomplete, Inside, inputVars, lockVars, At
<1>7. EntryKnowsItsInput'
  BY DEF StoreInv, TypeOK, Building, EntryKnowsItsInput, ManifestOfObject, StampTells, Now, OneInside, LockInv, KeeperHasLock, RecordIncomplete, Write, Incomplete, Inside, inputVars, At
<1>8. FetchedIsCurrent'
  BY DEF StoreInv, FetchedIsCurrent, RecordIncomplete, Write, Incomplete, Inside, inputVars, lockVars, At
<1> QED
  BY <1>1, <1>2, <1>3, <1>4, <1>5, <1>6, <1>7, <1>8 DEF StoreInv

LEMMA StoreRecordFails ==
  ASSUME StoreInv, LockInv', NEW c \in Calls, RecordFails(c)
  PROVE  StoreInv'
<1>1. TypeOK'
  BY DEF StoreInv, TypeOK, LockInv, Building, RecordFails, Inside, inputVars, lockVars, entry, At
<1>2. OneInside'
  BY DEF StoreInv, TypeOK, LockTypeOK, OneInside, RecordFails, Inside, inputVars, lockVars, entry, At
<1>3. RecordedIsWhole'
  BY DEF StoreInv, TypeOK, Building, RecordedIsWhole, OneInside, LockInv, KeeperHasLock, RecordFails, Inside, inputVars, lockVars, entry, At
<1>4. FetchedIsWhole'
  BY DEF StoreInv, FetchedIsWhole, RecordFails, Inside, inputVars, lockVars, entry, At
<1>5. KnowsItsTime'
  BY SameFiles DEF StoreInv, TypeOK, LockTypeOK, LockInv, Building, KnowsItsTime, OneInside, RecordFails, Inside, inputVars, lockVars, entry, At
<1>6. KnowsItsInput'
  BY SameFiles DEF StoreInv, TypeOK, LockTypeOK, Building, KnowsItsInput, IsThrough, OneInside, RecordFails, Inside, inputVars, lockVars, entry, At
<1>7. EntryKnowsItsInput'
  BY DEF StoreInv, TypeOK, Building, EntryKnowsItsInput, ManifestOfObject, StampTells, Now, OneInside, LockInv, KeeperHasLock, RecordFails, Inside, inputVars, lockVars, entry, At
<1>8. FetchedIsCurrent'
  BY DEF StoreInv, FetchedIsCurrent, RecordFails, Inside, inputVars, lockVars, entry, At
<1> QED
  BY <1>1, <1>2, <1>3, <1>4, <1>5, <1>6, <1>7, <1>8 DEF StoreInv

\* What is copied out is whole, for the manifest is there.
LEMMA StoreCopyOut ==
  ASSUME StoreInv, LockInv', NEW c \in Calls, CopyOut(c)
  PROVE  StoreInv'
<1>1. TypeOK'
  <2>1. manifest \in Manifests
    BY DEF StoreInv, TypeOK, RecordedIsWhole, CopyOut, At
  <2>2. [obj |-> obj, checked |-> manifest.complete, settled |-> settled] \in Results
    BY <2>1 DEF StoreInv, TypeOK, Results, Manifests
  <2>3. result' \in [Calls -> Results \cup {None}]
    BY <2>2 DEF StoreInv, TypeOK, CopyOut
  <2> QED
    BY <2>3 DEF StoreInv, TypeOK, LockInv, Building, CopyOut, Inside, inputVars,
      lockVars, At
<1>2. OneInside'
  BY DEF StoreInv, TypeOK, LockTypeOK, OneInside, CopyOut, Inside, inputVars, lockVars, At
<1>3. RecordedIsWhole'
  BY DEF StoreInv, TypeOK, Building, RecordedIsWhole, OneInside, LockInv, KeeperHasLock, CopyOut, Inside, inputVars, lockVars, At
<1>4. FetchedIsWhole'
  BY DEF StoreInv, TypeOK, FetchedIsWhole, RecordedIsWhole, CopyOut, At
<1>5. KnowsItsTime'
  BY SameFiles DEF StoreInv, TypeOK, LockTypeOK, LockInv, Building, KnowsItsTime, OneInside, CopyOut, Inside, inputVars, lockVars, At
<1>6. KnowsItsInput'
  BY SameFiles DEF StoreInv, TypeOK, LockTypeOK, Building, KnowsItsInput, IsThrough, OneInside, CopyOut, Inside, inputVars, lockVars, At
<1>7. EntryKnowsItsInput'
  BY DEF StoreInv, TypeOK, Building, EntryKnowsItsInput, ManifestOfObject, StampTells, Now, OneInside, LockInv, KeeperHasLock, CopyOut, Inside, inputVars, lockVars, At
<1>8. FetchedIsCurrent'
  BY DEF StoreInv, TypeOK, FetchedIsCurrent, EntryKnowsItsInput, CopyOut, Inside, inputVars, At
<1> QED
  BY <1>1, <1>2, <1>3, <1>4, <1>5, <1>6, <1>7, <1>8 DEF StoreInv

\* A digest taken now is of what the header is.
LEMMA StoreDigestElsewhere ==
  ASSUME StoreInv, LockInv', NEW c \in Calls, NEW d \in Dirs, DigestElsewhere(c, d)
  PROVE  StoreInv'
<1>1. TypeOK'
  BY DEF StoreInv, TypeOK, LockInv, DigestElsewhere, inputVars, Files, Building
<1>2. OneInside' /\ RecordedIsWhole' /\ FetchedIsWhole' /\ FetchedIsCurrent'
  BY DEF StoreInv, OneInside, RecordedIsWhole, FetchedIsWhole, FetchedIsCurrent,
    DigestElsewhere, lockVars, inputVars
<1>3. KnowsItsTime' /\ EntryKnowsItsInput'
  BY SameFiles DEF StoreInv, KnowsItsTime, EntryKnowsItsInput, ManifestOfObject,
    StampTells, Now, DigestElsewhere, lockVars, inputVars
<1>4. KnowsItsInput'
  BY SameFiles DEF StoreInv, TypeOK, KnowsItsInput, IsThrough, DigestElsewhere, inputVars
<1> QED
  BY <1>1, <1>2, <1>3, <1>4 DEF StoreInv

\* After an edit nothing is claimed of a build that has read the input and is yet
\* to record it; and what is recorded tells the edit by its stamp, or it is at one
\* of the limits.
LEMMA StoreEdit ==
  ASSUME StoreInv, LockInv', NEW d \in Dirs, NEW f \in Files \cup {None}, Edit(d, f)
  PROVE  StoreInv'
<1>1. /\ files' = [files EXCEPT ![d] = f] /\ edits' = edits + 1 /\ edits \in Nat
      /\ UNCHANGED <<lockVars, entryVars>>
      /\ Now \in Nat /\ Now' = Now + 1
      /\ f # None => f.stamp \in 1 .. Now + 1
  BY MaxEditsAssumption DEF StoreInv, TypeOK, Edit, Now
<1>2. files' \in [Dirs -> Files \cup {None}] /\ edits' \in 0..MaxEdits
  BY <1>1, MaxEditsAssumption DEF StoreInv, TypeOK, Edit
<1>3. Current' \subseteq Contents
  BY <1>2 DEF Current, Found, Files
<1>4. TypeOK'
  BY <1>1, <1>2, <1>3 DEF StoreInv, TypeOK, LockInv, Edit, entryVars, entry, Building
<1>5. OneInside' /\ RecordedIsWhole' /\ FetchedIsWhole'
  BY <1>1 DEF StoreInv, OneInside, RecordedIsWhole, FetchedIsWhole, entryVars, entry,
    lockVars
<1>6. \A c \in Calls :
        /\ since[c] \subseteq since'[c]
        /\ pc[c] \in {"waiting", "expired", "held"} => Current' \subseteq since'[c]
  BY DEF StoreInv, TypeOK, Edit, Ended
<1>7. KnowsItsTime'
  BY <1>1, <1>6 DEF StoreInv, KnowsItsTime, entryVars, entry, lockVars
<1>8. KnowsItsInput'
  <2>1. ASSUME NEW c \in Calls, steady'[c], ~IsThrough(c)
        PROVE  at[c] \notin Building /\ \A e \in Dirs : digests[c][e] = None
    BY <2>1 DEF Edit, HasRead
  <2> QED
    BY <1>1, <2>1 DEF KnowsItsInput, IsThrough, Building, entryVars, entry
<1>9. EntryKnowsItsInput'
  <2>1. ASSUME NEW e \in Dirs, files'[e] # None
        PROVE  files'[e].stamp <= Now'
    <3>1. files[e] # None => files[e].stamp <= Now /\ files[e].stamp \in Nat
      BY DEF StoreInv, TypeOK, EntryKnowsItsInput, Files, Stamps
    <3> QED
      BY <1>1, <2>1, <3>1 DEF StoreInv, TypeOK
  <2>2. ASSUME ~limit', settled
        PROVE  /\ ManifestOfObject'
               /\ \A c \in Calls : at[c] = "copy" /\ manifest.complete => obj \in since'[c]
    <3>1. /\ ~limit /\ ~Shadows(d, f) /\ ~KeepsStamp(f)
          /\ ManifestOfObject
          /\ \A c \in Calls : at[c] = "copy" /\ manifest.complete => obj \in since[c]
      BY <2>2 DEF StoreInv, EntryKnowsItsInput, Edit
    <3>2. f # None => f.stamp = Now + 1
      BY <1>1, <3>1 DEF KeepsStamp
    <3>3. ASSUME manifest # None, manifest.complete, NEW i \in manifest.inputs
          PROVE  /\ i.stamp <= Now'
                 /\ files'[i.dir] # None /\ files'[i.dir].stamp = i.stamp =>
                      files'[i.dir].content = i.content
                 /\ \A e \in Dirs : e < i.dir => files'[e] = None
      <4>1. i.dir \in Dirs /\ i.stamp \in Nat
        BY <3>3 DEF StoreInv, TypeOK, Manifests, Inputs, Stamps
      <4>2. /\ i.stamp <= Now
            /\ files[i.dir] # None /\ files[i.dir].stamp = i.stamp =>
                 files[i.dir].content = i.content
            /\ \A e \in Dirs : e < i.dir => files[e] = None
        BY <3>1, <3>3 DEF ManifestOfObject, StampTells
      <4>3. \A e \in Dirs : files'[e] = IF e = d THEN f ELSE files[e]
        BY <1>1 DEF StoreInv, TypeOK
      <4>4. d < i.dir => f = None
        BY <3>1, <3>3 DEF Shadows
      <4>5. files'[i.dir] # None /\ files'[i.dir].stamp = i.stamp =>
              files'[i.dir].content = i.content
        BY <1>1, <3>2, <4>1, <4>2, <4>3
      <4> QED
        BY <1>1, <4>1, <4>2, <4>3, <4>4, <4>5
    <3>4. ManifestOfObject'
      BY <1>1, <3>1, <3>3 DEF ManifestOfObject, StampTells, entryVars, entry
    <3> QED
      BY <1>6, <3>1, <3>4
  <2> QED
    BY <1>1, <2>1, <2>2 DEF EntryKnowsItsInput, entryVars, entry
<1>10. FetchedIsCurrent'
  BY <1>1, <1>6 DEF StoreInv, FetchedIsCurrent, Edit, entryVars, entry
<1> QED
  BY <1>4, <1>5, <1>7, <1>8, <1>9, <1>10 DEF StoreInv

-----------------------------------------------------------------------------
(* All steps together.                                                     *)

\* To the lock every step is one of its own, or none.
LEMMA StepOfLock == StoreInv /\ [Next]_vars => [LockNext]_lockVars
<1>1. CASE UNCHANGED vars
  BY <1>1 DEF vars
<1>2. ASSUME NEW c \in Calls,
             Enter(c) \/ LockOnly(c) \/ Return(c) \/ Raise(c) \/ Dies(c)
      PROVE  LockNext
  BY <1>2 DEF Enter, LockOnly, Return, Raise, Dies, LockNext, CallStep
<1>3. ASSUME NEW c \in Calls, Cleaned(c)
      PROVE  [LockNext]_lockVars
  BY <1>3 DEF Cleaned, Inside, LockNext
<1>4. ASSUME NEW c \in Calls, FetchStep(c), ~Cleaned(c)
      PROVE  UNCHANGED lockVars
  BY <1>4 DEF FetchStep, Check, Remove, StartCompile, EndCompile, CompileFails,
    StatInput, Record, RecordIncomplete, RecordFails, CopyOut, Inside
<1>5. ASSUME NEW c \in Calls, NEW d \in Dirs, DigestElsewhere(c, d)
      PROVE  UNCHANGED lockVars
  BY <1>5 DEF DigestElsewhere
<1>6. ASSUME NEW d \in Dirs, NEW f, Edit(d, f)
      PROVE  UNCHANGED lockVars
  BY <1>6 DEF Edit
<1> QED
  BY <1>1, <1>2, <1>3, <1>4, <1>5, <1>6 DEF Next

LEMMA StoreStep == StoreInv /\ [Next]_vars => StoreInv'
<1> SUFFICES ASSUME StoreInv, [Next]_vars PROVE StoreInv'
  OBVIOUS
<1>1. LockInv'
  BY StepOfLock, LockStep DEF StoreInv
<1>2. CASE UNCHANGED vars
  <2>1. UNCHANGED <<lockVars, entryVars, inputVars>>
    BY <1>2 DEF vars
  <2>2. TypeOK' /\ OneInside' /\ RecordedIsWhole' /\ FetchedIsWhole' /\ FetchedIsCurrent'
    BY <1>1, <2>1 DEF StoreInv, LockInv, TypeOK, OneInside, RecordedIsWhole, FetchedIsWhole,
      FetchedIsCurrent, lockVars, entryVars, entry, inputVars
  <2>3. KnowsItsTime' /\ KnowsItsInput' /\ EntryKnowsItsInput'
    BY <2>1, SameFiles DEF StoreInv, KnowsItsTime, KnowsItsInput, IsThrough,
      EntryKnowsItsInput, ManifestOfObject, StampTells, Now, lockVars, entryVars, entry,
      inputVars
  <2> QED
    BY <1>1, <2>2, <2>3 DEF StoreInv
<1>3. ASSUME NEW c \in Calls,
             Enter(c) \/ LockOnly(c) \/ FetchStep(c) \/ Return(c) \/ Raise(c) \/ Dies(c)
      PROVE  StoreInv'
  BY <1>1, <1>3, StoreEnter, StoreLockOnly, StoreReturn, StoreRaise, StoreDies,
    StoreCheck, StoreRemove, StoreCleaned, StoreStartCompile, StoreEndCompile,
    StoreCompileFails, StoreStatInput, StoreRecord, StoreRecordIncomplete,
    StoreRecordFails, StoreCopyOut DEF FetchStep
<1> QED
  BY <1>1, <1>2, <1>3, StoreDigestElsewhere, StoreEdit DEF Next

LEMMA StoreInit == Init => StoreInv
<1> SUFFICES ASSUME Init PROVE StoreInv
  OBVIOUS
<1>1. LockInv
  BY LockStart DEF Init
<1>2. TypeOK
  <2>1. 0 \in Stamps /\ 1 \in Stamps /\ 0 \in 0..MaxEdits
    BY MaxEditsAssumption DEF Stamps
  <2>2. files \in [Dirs -> Files \cup {None}]
    BY <2>1 DEF Init, Files
  <2>3. manifest \in Manifests \cup {None}
    <3>1. ASSUME NEW i \in [dir : Dirs, content : Contents, stamp : {0, 1}]
          PROVE  [complete |-> TRUE, inputs |-> {i}] \in Manifests
      <4>1. i \in Inputs
        BY <2>1 DEF Inputs
      <4> QED
        BY <4>1 DEF Manifests
    <3> QED
      BY <3>1, IncompleteIsManifest DEF Init
  <2> QED
    BY <1>1, <2>1, <2>2, <2>3 DEF Init, TypeOK, LockInv
<1>3. OneInside /\ RecordedIsWhole /\ FetchedIsWhole
  BY DEF Init, LockInit, OneInside, RecordedIsWhole, FetchedIsWhole, Building
<1>4. KnowsItsTime /\ KnowsItsInput /\ FetchedIsCurrent
  BY DEF Init, LockInit, KnowsItsTime, KnowsItsInput, FetchedIsCurrent, Building
<1>5. EntryKnowsItsInput
  <2>1. \A d \in Dirs : files[d] # None => files[d].stamp = 1
    BY DEF Init
  <2> QED
    BY <2>1 DEF Init, EntryKnowsItsInput, Now
<1> QED
  BY <1>1, <1>2, <1>3, <1>4, <1>5 DEF StoreInv

\* The inductive invariant holds in every reachable state.
THEOREM EntrySafe == Spec => []StoreInv
<1> QED
  BY StoreInit, StoreStep, PTL DEF Spec

\* Around an entry too, the lock never stays with nobody.
THEOREM EntryLockIsKept == Spec => []LockHasAKeeper
<1>1. StoreInv => LockHasAKeeper
  BY DEF StoreInv, LockInv
<1> QED
  BY <1>1, EntrySafe, PTL

\* No fetch copies out what a dead or failed compile left, wherever it died.
THEOREM FetchesAreWhole == Spec => []FetchedIsWhole
<1>1. StoreInv => FetchedIsWhole
  BY DEF StoreInv
<1> QED
  BY <1>1, EntrySafe, PTL

\* Nor an object of an input older than the fetch, whoever edits the input and
\* when: unless the edit is at one of the known limits, or fell between the first
\* read of the build that recorded the object and its record.
THEOREM FetchesAreCurrent == Spec => []FetchedIsCurrent
<1>1. StoreInv => FetchedIsCurrent
  BY DEF StoreInv
<1> QED
  BY <1>1, EntrySafe, PTL
=============================================================================
