-------------------------- MODULE DeviceCache_proofs --------------------------
(***************************************************************************)
(* Safety of the device cache for every set of builds and cores, whatever  *)
(* fails and whoever dies. Who relies on the entry finds it whole because  *)
(* who removes files has found it damaged, under the lock, and a damaged   *)
(* entry never becomes whole but by the rename of the lock's holder.       *)
(***************************************************************************)
EXTENDS DeviceCache, TLAPS

-----------------------------------------------------------------------------
(* EntryInv is inductive: one lemma per action, one step per conjunct.       *)

\* A lookup starts with every file ahead of it.
LEMMA IndLookup ==
  ASSUME EntryInv, NEW b \in Builds, Lookup(b)
  PROVE  EntryInv'
<1>1. TypeOK'
  BY DEF EntryInv, TypeOK, Lookup, Go, Steps
<1>2. LockHeld'
  BY DEF EntryInv, TypeOK, LockHeld, Lookup, Go, Locked
<1>3. StoresOverDamage'
  BY DEF EntryInv, TypeOK, StoresOverDamage, Lookup, Go, Locked, Whole, Loads
<1>4. LoadMeetsDamage'
  BY DEF EntryInv, TypeOK, LoadMeetsDamage, Lookup, Go, Whole, Loads
<1>5. RelyOnWhole'
  BY DEF EntryInv, TypeOK, RelyOnWhole, Lookup, Go, Whole, Loads
<1>6. DeniedForAReason'
  BY DEF EntryInv, TypeOK, DeniedForAReason, Lookup, Go, Whole, Loads
<1> QED
  BY <1>1, <1>2, <1>3, <1>4, <1>5, <1>6 DEF EntryInv

\* A load passes only files that are there, so damage stays ahead of it; with
\* nothing ahead the entry is whole.
LEMMA IndLookupLoad ==
  ASSUME EntryInv, NEW b \in Builds, LookupLoad(b)
  PROVE  EntryInv'
<1>1. TypeOK'
  BY DEF EntryInv, TypeOK, LookupLoad, Load, Go, Steps
<1>2. LockHeld'
  BY DEF EntryInv, TypeOK, LockHeld, LookupLoad, Load, Go, Locked
<1>3. StoresOverDamage'
  BY DEF EntryInv, TypeOK, StoresOverDamage, LookupLoad, Load, Go, Locked,
    Whole, Loads
<1>4. LoadMeetsDamage'
  BY DEF EntryInv, TypeOK, LoadMeetsDamage, LookupLoad, Load, Go, Whole, Loads
<1>5. RelyOnWhole'
  BY DEF EntryInv, TypeOK, LoadMeetsDamage, RelyOnWhole, LookupLoad, Load, Go,
    Whole, Loads
<1>6. DeniedForAReason'
  BY DEF EntryInv, TypeOK, DeniedForAReason, LookupLoad, Load, Go, Whole, Loads
<1> QED
  BY <1>1, <1>2, <1>3, <1>4, <1>5, <1>6 DEF EntryInv

LEMMA IndCompile ==
  ASSUME EntryInv, NEW b \in Builds, Compile(b)
  PROVE  EntryInv'
<1>1. TypeOK'
  BY DEF EntryInv, TypeOK, Compile, Go, Steps, Ended
<1>2. LockHeld'
  BY DEF EntryInv, TypeOK, LockHeld, Compile, Go, Locked
<1>3. StoresOverDamage'
  BY DEF EntryInv, TypeOK, StoresOverDamage, Compile, Go, Locked, Whole, Loads
<1>4. LoadMeetsDamage'
  BY DEF EntryInv, TypeOK, LoadMeetsDamage, Compile, Go, Whole, Loads
<1>5. RelyOnWhole'
  BY DEF EntryInv, TypeOK, RelyOnWhole, Compile, Go, Whole, Loads
<1>6. DeniedForAReason'
  BY DEF EntryInv, TypeOK, DeniedForAReason, Compile, Go, Whole, Loads
<1> QED
  BY <1>1, <1>2, <1>3, <1>4, <1>5, <1>6 DEF EntryInv

\* The lock is free when it is taken, so no other build is storing.
LEMMA IndTakeLock ==
  ASSUME EntryInv, NEW b \in Builds, TakeLock(b)
  PROVE  EntryInv'
<1>1. TypeOK'
  BY DEF EntryInv, TypeOK, TakeLock, TryLock, Go, Steps, Locked, Ended
<1>2. LockHeld'
  BY NoneAssumption DEF EntryInv, TypeOK, LockHeld, TakeLock, TryLock, Go, Locked
<1>3. StoresOverDamage'
  BY DEF EntryInv, TypeOK, StoresOverDamage, TakeLock, TryLock, Go, Locked,
    Whole, Loads
<1>4. LoadMeetsDamage'
  BY DEF EntryInv, TypeOK, LoadMeetsDamage, TakeLock, TryLock, Go, Whole, Loads
<1>5. RelyOnWhole'
  BY DEF EntryInv, TypeOK, RelyOnWhole, TakeLock, TryLock, Go, Whole, Loads
<1>6. DeniedForAReason'
  BY DEF EntryInv, TypeOK, DeniedForAReason, TakeLock, TryLock, Go, Whole, Loads
<1> QED
  BY <1>1, <1>2, <1>3, <1>4, <1>5, <1>6 DEF EntryInv

\* The second load ends the store or finds the file that is damaged.
LEMMA IndRecheck ==
  ASSUME EntryInv, NEW b \in Builds, Recheck(b)
  PROVE  EntryInv'
<1>1. TypeOK'
  BY DEF EntryInv, TypeOK, Recheck, Load, Go, Steps, Locked, Ended
<1>2. LockHeld'
  BY NoneAssumption DEF EntryInv, TypeOK, LockHeld, Recheck, Load, Go, Locked
<1>3. StoresOverDamage'
  BY DEF EntryInv, TypeOK, StoresOverDamage, Recheck, Load, Go, Locked, Whole,
    Loads
<1>4. LoadMeetsDamage'
  BY DEF EntryInv, TypeOK, LoadMeetsDamage, Recheck, Load, Go, Whole, Loads
<1>5. RelyOnWhole'
  BY DEF EntryInv, TypeOK, LoadMeetsDamage, RelyOnWhole, Recheck, Load, Go,
    Whole, Loads
<1>6. DeniedForAReason'
  BY DEF EntryInv, TypeOK, LoadMeetsDamage, DeniedForAReason, Recheck, Load, Go,
    Whole, Loads
<1> QED
  BY <1>1, <1>2, <1>3, <1>4, <1>5, <1>6 DEF EntryInv

LEMMA IndCreateTmp ==
  ASSUME EntryInv, NEW b \in Builds, CreateTmp(b)
  PROVE  EntryInv'
<1>1. TypeOK'
  BY DEF EntryInv, TypeOK, CreateTmp, Go, Steps, Locked, Ended
<1>2. LockHeld'
  BY NoneAssumption DEF EntryInv, TypeOK, LockHeld, CreateTmp, Go, Locked
<1>3. StoresOverDamage'
  BY DEF EntryInv, TypeOK, StoresOverDamage, CreateTmp, Go, Locked, Whole, Loads
<1>4. LoadMeetsDamage'
  BY DEF EntryInv, TypeOK, LoadMeetsDamage, CreateTmp, Go, Whole, Loads
<1>5. RelyOnWhole'
  BY DEF EntryInv, TypeOK, RelyOnWhole, CreateTmp, Go, Whole, Loads
<1>6. DeniedForAReason'
  BY DEF EntryInv, TypeOK, DeniedForAReason, CreateTmp, Go, Whole, Loads
<1> QED
  BY <1>1, <1>2, <1>3, <1>4, <1>5, <1>6 DEF EntryInv

\* Files move from those ahead to the temporary directory.
LEMMA IndWriteTmp ==
  ASSUME EntryInv, NEW b \in Builds, WriteTmp(b)
  PROVE  EntryInv'
<1>1. TypeOK'
  BY DEF EntryInv, TypeOK, WriteTmp, Go, Steps, Locked
<1>2. LockHeld'
  BY DEF EntryInv, TypeOK, LockHeld, WriteTmp, Go, Locked
<1>3. StoresOverDamage'
  BY DEF EntryInv, TypeOK, StoresOverDamage, WriteTmp, Go, Locked, Whole, Loads
<1>4. LoadMeetsDamage'
  BY DEF EntryInv, TypeOK, LoadMeetsDamage, WriteTmp, Go, Whole, Loads
<1>5. RelyOnWhole'
  BY DEF EntryInv, TypeOK, RelyOnWhole, WriteTmp, Go, Whole, Loads
<1>6. DeniedForAReason'
  BY DEF EntryInv, TypeOK, DeniedForAReason, WriteTmp, Go, Whole, Loads
<1> QED
  BY <1>1, <1>2, <1>3, <1>4, <1>5, <1>6 DEF EntryInv

\* The entry that is removed is damaged, so nobody relies on it.
LEMMA IndClear ==
  ASSUME EntryInv, NEW b \in Builds, Clear(b)
  PROVE  EntryInv'
<1>1. TypeOK'
  <2>1. disk' \in [Files -> {"absent", "damaged", "good"}]
    BY DEF EntryInv, TypeOK, Clear
  <2>2. /\ pc' \in [Builds -> Steps]
        /\ lock' \in Builds \cup {None}
    BY DEF EntryInv, TypeOK, Clear, Go, Steps, Locked, Ended
  <2>3. /\ todo' \in [Builds -> SUBSET Files]
        /\ tmp' \in [Builds -> SUBSET Files]
    BY DEF EntryInv, TypeOK, Clear
  <2> QED
    BY <2>1, <2>2, <2>3 DEF TypeOK
<1>2. LockHeld'
  BY DEF EntryInv, TypeOK, LockHeld, Clear, Go, Locked
<1>3. StoresOverDamage'
  BY DEF EntryInv, TypeOK, StoresOverDamage, Clear, Go, Locked, Whole, Loads
<1>4. LoadMeetsDamage'
  BY DEF EntryInv, TypeOK, StoresOverDamage, LoadMeetsDamage, Clear, Go, Locked,
    Loads
<1>5. RelyOnWhole'
  BY DEF EntryInv, TypeOK, StoresOverDamage, RelyOnWhole, Clear, Go, Locked
<1>6. DeniedForAReason'
  BY DEF EntryInv, TypeOK, StoresOverDamage, DeniedForAReason, Clear, Go, Locked
<1> QED
  BY <1>1, <1>2, <1>3, <1>4, <1>5, <1>6 DEF EntryInv

\* The temporary directory that takes the entry's place has every file.
LEMMA IndRename ==
  ASSUME EntryInv, NEW b \in Builds, Rename(b)
  PROVE  EntryInv'
<1>1. TypeOK'
  <2>1. disk' \in [Files -> {"absent", "damaged", "good"}]
    BY DEF EntryInv, TypeOK, Rename
  <2>2. /\ pc' \in [Builds -> Steps]
        /\ lock' \in Builds \cup {None}
    BY DEF EntryInv, TypeOK, Rename, Go, Steps, Locked, Ended
  <2>3. /\ todo' \in [Builds -> SUBSET Files]
        /\ tmp' \in [Builds -> SUBSET Files]
    BY DEF EntryInv, TypeOK, Rename
  <2> QED
    BY <2>1, <2>2, <2>3 DEF TypeOK
<1>2. LockHeld'
  BY NoneAssumption DEF EntryInv, TypeOK, LockHeld, Rename, Go, Locked
<1>3. StoresOverDamage'
  BY DEF EntryInv, TypeOK, LockHeld, StoresOverDamage, Rename, Go, Locked,
    Whole, Loads
<1>4. LoadMeetsDamage'
  BY DEF EntryInv, TypeOK, StoresOverDamage, LoadMeetsDamage, Rename, Go, Whole,
    Loads
<1>5. RelyOnWhole'
  BY DEF EntryInv, TypeOK, StoresOverDamage, RelyOnWhole, Rename, Go, Whole, Loads
<1>6. DeniedForAReason'
  BY DEF EntryInv, TypeOK, StoresOverDamage, DeniedForAReason, Rename, Go,
    Whole, Loads
<1> QED
  BY <1>1, <1>2, <1>3, <1>4, <1>5, <1>6 DEF EntryInv

LEMMA IndCleanup ==
  ASSUME EntryInv, NEW b \in Builds, Cleanup(b)
  PROVE  EntryInv'
<1>1. TypeOK'
  BY DEF EntryInv, TypeOK, Cleanup, Go, Steps, Ended
<1>2. LockHeld'
  BY NoneAssumption DEF EntryInv, TypeOK, LockHeld, Cleanup, Go, Locked
<1>3. StoresOverDamage'
  BY DEF EntryInv, StoresOverDamage, Cleanup, Go, Locked, Whole, Loads
<1>4. LoadMeetsDamage'
  BY DEF EntryInv, LoadMeetsDamage, Cleanup, Go, Whole, Loads
<1>5. RelyOnWhole'
  BY DEF EntryInv, RelyOnWhole, Cleanup, Go, Whole, Loads
<1>6. DeniedForAReason'
  BY DEF EntryInv, TypeOK, DeniedForAReason, Cleanup, Go
<1> QED
  BY <1>1, <1>2, <1>3, <1>4, <1>5, <1>6 DEF EntryInv

LEMMA IndDie ==
  ASSUME EntryInv, NEW b \in Builds, Die(b)
  PROVE  EntryInv'
<1>1. TypeOK'
  BY DEF EntryInv, TypeOK, Die, Steps, Ended
<1>2. LockHeld'
  BY NoneAssumption DEF EntryInv, TypeOK, LockHeld, Die, Locked
<1>3. StoresOverDamage'
  BY DEF EntryInv, StoresOverDamage, Die, Locked, Whole, Loads
<1>4. LoadMeetsDamage'
  BY DEF EntryInv, LoadMeetsDamage, Die, Whole, Loads
<1>5. RelyOnWhole'
  BY DEF EntryInv, RelyOnWhole, Die, Whole, Loads
<1>6. DeniedForAReason'
  BY DEF EntryInv, TypeOK, DeniedForAReason, Die
<1> QED
  BY <1>1, <1>2, <1>3, <1>4, <1>5, <1>6 DEF EntryInv

LEMMA IndStep == EntryInv /\ [Next]_vars => EntryInv'
<1>1. CASE UNCHANGED vars
  BY <1>1 DEF vars, EntryInv, TypeOK, LockHeld, StoresOverDamage,
    LoadMeetsDamage, RelyOnWhole, DeniedForAReason, Whole, Loads
<1>2. ASSUME EntryInv, NEW b \in Builds, Step(b) PROVE EntryInv'
  BY <1>2, IndLookup, IndLookupLoad, IndCompile, IndTakeLock, IndRecheck,
    IndCreateTmp, IndWriteTmp, IndClear, IndRename, IndCleanup, IndDie
    DEF Step
<1> QED
  BY <1>1, <1>2 DEF Next

LEMMA IndInit == Init => EntryInv
<1> SUFFICES ASSUME Init PROVE EntryInv
  OBVIOUS
<1>1. TypeOK
  BY DEF Init, TypeOK, Steps
<1>2. LockHeld /\ StoresOverDamage /\ LoadMeetsDamage
  BY NoneAssumption DEF Init, LockHeld, StoresOverDamage, LoadMeetsDamage, Locked
<1>3. RelyOnWhole /\ DeniedForAReason
  BY DEF Init, RelyOnWhole, DeniedForAReason
<1> QED
  BY <1>1, <1>2, <1>3 DEF EntryInv

\* The inductive invariant holds in every reachable state.
THEOREM Inductive == Spec => []EntryInv
<1> QED
  BY IndInit, IndStep, PTL DEF Spec

-----------------------------------------------------------------------------
(* What follows from it.                                                   *)

\* A build that hit keeps its ELFs: no store removes a file of an entry that
\* some other build has found whole.
THEOREM HitsKeepTheirElfs == Spec => []HitFindsItsElfs
<1>1. EntryInv => HitFindsItsElfs
  BY DEF EntryInv, RelyOnWhole, Whole, Loads, Files, HitFindsItsElfs
<1> QED
  BY <1>1, Inductive, PTL

\* A store that reported success has left, and leaves for good, an entry that
\* loads.
THEOREM StoresAreWhole == Spec => []StoredIsWhole
<1>1. EntryInv => StoredIsWhole
  BY DEF EntryInv, RelyOnWhole, StoredIsWhole
<1> QED
  BY <1>1, Inductive, PTL

\* Builds that only contend for an entry do not lose it among them.
THEOREM ContentionCostsNothing == Spec => []ContentionStillStores
<1>1. EntryInv => ContentionStillStores
  <2> SUFFICES ASSUME EntryInv, NEW b \in Builds,
                      \A c \in Builds : pc[c] \in {"using", "denied", "kept", "stored"}
               PROVE  Whole
    BY BuildsAssumption DEF ContentionStillStores
  <2>1. CASE pc[b] = "denied"
    <3>1. lock = None
      BY DEF EntryInv, TypeOK, LockHeld, Locked
    <3> QED
      BY <2>1, <3>1 DEF EntryInv, DeniedForAReason
  <2>2. CASE pc[b] # "denied"
    BY <2>2 DEF EntryInv, RelyOnWhole
  <2> QED
    BY <2>1, <2>2
<1> QED
  BY <1>1, Inductive, PTL

\* Only a build whose second load failed removes or replaces files, so an
\* entry that loads is never touched again.
THEOREM EntriesStay == Spec => WholeEntriesStay
<1>1. EntryInv /\ [Next]_vars => [Whole => UNCHANGED disk]_vars
  <2>1. ASSUME EntryInv, Whole, NEW b \in Builds, Step(b)
        PROVE  UNCHANGED disk
    <3>1. ~ (Clear(b) \/ Rename(b))
      BY <2>1 DEF EntryInv, StoresOverDamage, Clear, Rename, Go, Locked
    <3> QED
      BY <2>1, <3>1 DEF Step, Lookup, LookupLoad, Compile, TakeLock, Recheck,
        CreateTmp, WriteTmp, Cleanup, Die
  <2> QED
    BY <2>1 DEF Next
<1> QED
  BY <1>1, Inductive, PTL DEF Spec, WholeEntriesStay
=============================================================================
