------------------------------ MODULE ConfigProofs ------------------------------
(* The configuration in memory and on the card.  In memory, for any number of       *)
(* guards and writers: the reader counters count the guards that pin a slot, so a    *)
(* slot the writer finds at zero is borrowed by nobody; a guard that pins it later   *)
(* reads _publishedSlot again, finds another slot there and lets go.  On the card,   *)
(* for any domains and any order of their files: whatever fails and wherever the     *)
(* power is lost, a file is replaced by a whole one; and until something fails one   *)
(* of the two copies of what a save acknowledged is where the boot will look.        *)
EXTENDS ConfigSnapshot, ConfigStorage, Integers, FiniteSetTheorems, WellFoundedInduction, TLAPS

--------------------------------------------------------------------------------
(* The snapshots.                                                                 *)
(* _readers[s] is the number of guards between fetch_add and fetch_sub on s.   *)
ReadersCountPins == \A s \in Slots : readers[s] = Cardinality(Pins(s))

(* pc is the program counter of the owner of _mutex.                           *)
OwnerRuns ==
    /\ pc = "idle" <=> mutex = Nobody
    /\ workerPc = "locked" <=> mutex = Worker
    /\ pc = "recheck" => mutex = Worker
    /\ pc = "mutate" => mutex # Worker

(* The slot being written is neither published nor borrowed.                   *)
TargetPrivate ==
    Filling => /\ target # publishedSlot
               /\ \A g \in Guards : gpc[g] = "held" => gslot[g] # target

(* Only the slot being written is incomplete.                                  *)
OthersSealed == \A s \in Slots : ~snapshots[s].sealed => pc = "seal" /\ s = target

(* What the published slot and the slot about to be published contain.         *)
Contents ==
    /\ \A s \in Slots : snapshots[s].payload <= live /\ snapshots[s].version <= configVersion
    /\ pc \in {"idle", "mutate", "recheck"} /\ ~publishPending =>
         snapshots[publishedSlot].payload = live
    /\ pc = "clear" => snapshots[publishedSlot].payload = live
    /\ pc \in {"seal", "store"} => snapshots[publishedSlot].version < configVersion
    /\ pc = "store" => /\ snapshots[target].payload = live
                       /\ snapshots[target].version = configVersion

IInv ==
    /\ TypeOK
    /\ ReadersCountPins
    /\ OwnerRuns
    /\ TargetPrivate
    /\ OthersSealed
    /\ Contents

-----------------------------------------------------------------------------
(* The guards that pin a slot are finitely many.                               *)
LEMMA PinsFinite ==
  ASSUME NEW s \in Slots
  PROVE  IsFiniteSet(Pins(s)) /\ Cardinality(Pins(s)) \in Nat
<1>1. IsFiniteSet(Pins(s))
  BY ConfigAssumption, FS_Subset DEF ConfigAssumption, Pins
<1>2. QED
  BY <1>1, FS_CardinalityType

(* fetch_add: one more guard pins its slot, one more is counted there.         *)
LEMMA PinCounted ==
  ASSUME TypeOK, ReadersCountPins, NEW g \in Guards, AcquirePin(g)
  PROVE  ReadersCountPins'
<1> SUFFICES ASSUME NEW s \in Slots PROVE readers'[s] = Cardinality(Pins(s)')
  BY DEF ReadersCountPins
<1>1. CASE s = gslot[g]
  <2>1. Pins(s)' = Pins(s) \cup {g} /\ g \notin Pins(s)
    BY <1>1 DEF AcquirePin, Pins, Pinning, TypeOK
  <2>2. Cardinality(Pins(s)') = Cardinality(Pins(s)) + 1
    BY <2>1, PinsFinite, FS_AddElement
  <2>3. readers'[s] = readers[s] + 1
    BY <1>1 DEF AcquirePin, TypeOK
  <2>4. QED
    BY <2>2, <2>3 DEF ReadersCountPins
<1>2. CASE s # gslot[g]
  <2>1. Pins(s)' = Pins(s)
    BY <1>2 DEF AcquirePin, Pins, Pinning, TypeOK
  <2>2. readers'[s] = readers[s]
    BY <1>2 DEF AcquirePin, TypeOK
  <2>3. QED
    BY <2>1, <2>2 DEF ReadersCountPins
<1>3. QED
  BY <1>1, <1>2

(* fetch_sub, of a guard that gives up a stale slot or of one that is          *)
(* destroyed: the counter was not zero and counts one guard less.              *)
LEMMA UnpinCounted ==
  ASSUME TypeOK, ReadersCountPins, NEW g \in Guards, AcquireUndo(g) \/ Release(g)
  PROVE  /\ readers[gslot[g]] > 0
         /\ readers' \in [Slots -> Nat]
         /\ ReadersCountPins'
<1> DEFINE t == gslot[g]
<1>1. t \in Slots /\ g \in Pins(t)
  BY DEF AcquireUndo, Release, Pins, Pinning, TypeOK
<1>2. Cardinality(Pins(t) \ {g}) = Cardinality(Pins(t)) - 1
  BY <1>1, PinsFinite, FS_RemoveElement
<1>3. Cardinality(Pins(t) \ {g}) \in Nat
  BY <1>1, PinsFinite, FS_RemoveElement, FS_CardinalityType
<1>4. readers[t] > 0 /\ readers[t] - 1 \in Nat
  BY <1>1, <1>2, <1>3 DEF ReadersCountPins, TypeOK
<1>5. readers' = [readers EXCEPT ![t] = readers[t] - 1]
  BY DEF AcquireUndo, Release
<1>6. ASSUME NEW s \in Slots PROVE readers'[s] = Cardinality(Pins(s)')
  <2>1. CASE s = t
    <3>1. Pins(s)' = Pins(s) \ {g}
      BY <2>1 DEF AcquireUndo, Release, Pins, Pinning, TypeOK
    <3>2. QED
      BY <3>1, <2>1, <1>2, <1>5 DEF ReadersCountPins, TypeOK
  <2>2. CASE s # t
    <3>1. Pins(s)' = Pins(s)
      BY <2>2 DEF AcquireUndo, Release, Pins, Pinning, TypeOK
    <3>2. QED
      BY <3>1, <2>2, <1>5 DEF ReadersCountPins, TypeOK
  <2>3. QED
    BY <2>1, <2>2
<1>7. QED
  BY <1>4, <1>5, <1>6 DEF ReadersCountPins, TypeOK

(* Every other step leaves both sides as they are.                             *)
LEMMA PinsUnchanged ==
  ASSUME TypeOK, ReadersCountPins, readers' = readers,
         \A s \in Slots : Pins(s)' = Pins(s)
  PROVE  ReadersCountPins'
BY DEF ReadersCountPins

LEMMA SameGuards ==
  ASSUME UNCHANGED guardVars
  PROVE  \A s \in Slots : Pins(s)' = Pins(s)
BY DEF guardVars, Pins

(* At zero, no guard borrows the slot.                                         *)
LEMMA ZeroMeansFree ==
  ASSUME TypeOK, ReadersCountPins, NEW s \in Slots, readers[s] = 0
  PROVE  \A g \in Guards : gpc[g] = "held" => gslot[g] # s
<1>1. Pins(s) = {}
  BY PinsFinite, FS_EmptySet DEF ReadersCountPins
<1>2. QED
  BY <1>1 DEF Pins, Pinning

-----------------------------------------------------------------------------
(* The invariant holds when the constructor returns.                           *)
LEMMA InitInvariant ==
  Init => IInv
<1> SUFFICES ASSUME Init PROVE IInv
  OBVIOUS
<1>1. TypeOK
  <2>1. snapshots \in [Slots -> Snapshot]
    BY DEF Init, Slots, Snapshot
  <2>2. /\ readers \in [Slots -> Nat] /\ gslot \in [Guards -> Slots]
        /\ publishedSlot \in Slots /\ target \in Slots
    BY DEF Init, Slots
  <2>3. publishPending \in BOOLEAN /\ notified \in BOOLEAN
    BY Zenon DEF Init
  <2>4. QED
    BY <2>1, <2>2, <2>3 DEF Init, TypeOK
<1>2. ReadersCountPins
  <2>1. \A s \in Slots : Pins(s) = {}
    BY DEF Init, Pins, Pinning
  <2>2. QED
    BY <2>1, FS_EmptySet DEF Init, ReadersCountPins
<1>3. OwnerRuns
  BY ConfigAssumption DEF ConfigAssumption, Init, OwnerRuns
<1>4. TargetPrivate /\ OthersSealed
  BY DEF Init, TargetPrivate, OthersSealed, Filling
<1>5. Contents
  BY DEF Init, Contents, Slots
<1>6. QED
  BY <1>1, <1>2, <1>3, <1>4, <1>5 DEF IInv

(* The steps of a guard: between them they move the counters and their own pc. *)
LEMMA GuardStepInvariant ==
  ASSUME IInv, NEW g \in Guards, AcquireCall(g) \/ AcquireStep(g) \/ ReleaseStep(g)
  PROVE  IInv'
<1> USE DEF IInv
<1>1. UNCHANGED <<publishedSlot, publishPending, writerVars, workerPc>>
  BY DEF AcquireCall, AcquireStep, ReleaseStep, AcquireLoad, AcquirePin, AcquireCheck,
         AcquireUndo, Release, ReleaseSignal
<1>2. OwnerRuns' /\ OthersSealed' /\ Contents'
  BY <1>1 DEF writerVars, OwnerRuns, OthersSealed, Contents
<1>3. Filling' = Filling
  BY <1>1 DEF writerVars, Filling
<1>4. CASE AcquireCall(g)
  <2>1. TypeOK'
    BY <1>4 DEF AcquireCall, writerVars, TypeOK
  <2>2. \A s \in Slots : Pins(s)' = Pins(s)
    BY <1>4 DEF AcquireCall, Pins, Pinning, TypeOK
  <2>3. ReadersCountPins'
    BY <1>4, <2>2, PinsUnchanged DEF AcquireCall
  <2>4. TargetPrivate'
    BY <1>1, <1>3, <1>4 DEF AcquireCall, writerVars, TargetPrivate, TypeOK
  <2>5. QED
    BY <1>2, <2>1, <2>3, <2>4
<1>5. CASE AcquireLoad(g)
  <2>1. TypeOK'
    BY <1>5 DEF AcquireLoad, writerVars, TypeOK
  <2>2. \A s \in Slots : Pins(s)' = Pins(s)
    BY <1>5 DEF AcquireLoad, Pins, Pinning, TypeOK
  <2>3. ReadersCountPins'
    BY <1>5, <2>2, PinsUnchanged DEF AcquireLoad
  <2>4. TargetPrivate'
    BY <1>1, <1>3, <1>5 DEF AcquireLoad, writerVars, TargetPrivate, TypeOK
  <2>5. QED
    BY <1>2, <2>1, <2>3, <2>4
<1>6. CASE AcquirePin(g)
  <2>1. TypeOK'
    BY <1>6 DEF AcquirePin, writerVars, TypeOK, Pinning
  <2>2. ReadersCountPins'
    BY <1>6, PinCounted
  <2>3. TargetPrivate'
    BY <1>1, <1>3, <1>6 DEF AcquirePin, writerVars, TargetPrivate, TypeOK
  <2>4. QED
    BY <1>2, <2>1, <2>2, <2>3
<1>7. CASE AcquireCheck(g)
  <2>1. TypeOK'
    BY <1>7 DEF AcquireCheck, writerVars, TypeOK, Pinning
  <2>2. \A s \in Slots : Pins(s)' = Pins(s)
    BY <1>7 DEF AcquireCheck, Pins, Pinning, TypeOK
  <2>3. ReadersCountPins'
    BY <1>7, <2>2, PinsUnchanged DEF AcquireCheck
  <2>4. TargetPrivate'
    BY <1>1, <1>3, <1>7 DEF AcquireCheck, writerVars, TargetPrivate, TypeOK
  <2>5. QED
    BY <1>2, <2>1, <2>3, <2>4
<1>8. CASE AcquireUndo(g) \/ Release(g)
  <2>1. readers' \in [Slots -> Nat] /\ ReadersCountPins'
    BY <1>8, UnpinCounted
  <2>2. TypeOK'
    BY <1>8, <2>1 DEF AcquireUndo, Release, writerVars, TypeOK, Pinning
  <2>3. TargetPrivate'
    BY <1>1, <1>3, <1>8 DEF AcquireUndo, Release, writerVars, TargetPrivate, TypeOK
  <2>4. QED
    BY <1>2, <2>1, <2>2, <2>3
<1>9. CASE ReleaseSignal(g)
  <2>1. TypeOK'
    BY <1>9 DEF ReleaseSignal, writerVars, TypeOK
  <2>2. \A s \in Slots : Pins(s)' = Pins(s)
    BY <1>9 DEF ReleaseSignal, Pins, Pinning, TypeOK
  <2>3. ReadersCountPins'
    BY <1>9, <2>2, PinsUnchanged DEF ReleaseSignal
  <2>4. TargetPrivate'
    BY <1>1, <1>3, <1>9 DEF ReleaseSignal, writerVars, TargetPrivate, TypeOK
  <2>5. QED
    BY <1>2, <2>1, <2>3, <2>4
<1>10. QED
  BY <1>4, <1>5, <1>6, <1>7, <1>8, <1>9 DEF AcquireStep, ReleaseStep

(* The steps of whoever holds the mutex: they leave the guards alone.          *)
LEMMA WriterStepInvariant ==
  ASSUME IInv, PublishStep \/ \E w \in Writers : Lock(w)
  PROVE  IInv'
<1> USE DEF IInv
<1>1. ReadersCountPins' /\ UNCHANGED <<gpc, gslot>>
  <2>1. readers' = readers /\ UNCHANGED guardVars
    BY DEF PublishStep, Lock, Mutator, Republish, Refuse, ScanSlot, Defer, Fill, Seal, Store, Clear,
           Recheck
  <2>2. QED
    BY <2>1, SameGuards, PinsUnchanged DEF guardVars
<1>2. CASE \E w \in Writers : Lock(w)
  <2>1. TypeOK' /\ OwnerRuns'
    BY <1>2, ConfigAssumption DEF Lock, TypeOK, OwnerRuns, ConfigAssumption, guardVars
  <2>2. TargetPrivate' /\ OthersSealed'
    BY <1>2 DEF Lock, TargetPrivate, OthersSealed, OwnerRuns, Filling, guardVars
  <2>3. Contents'
    BY <1>2 DEF Lock, Contents, OwnerRuns
  <2>4. QED
    BY <1>1, <2>1, <2>2, <2>3
<1>3. CASE Mutator
  <2>1. TypeOK' /\ OwnerRuns'
    BY <1>3, ConfigAssumption DEF Mutator, TypeOK, OwnerRuns, ConfigAssumption, guardVars
  <2>2. TargetPrivate'
    BY <1>3 DEF Mutator, TargetPrivate, Filling, TypeOK
  <2>3. OthersSealed' /\ Contents'
    BY <1>3 DEF Mutator, OthersSealed, Contents, TypeOK, Snapshot
  <2>4. QED
    BY <1>1, <2>1, <2>2, <2>3
<1>4. CASE Refuse
  <2>1. TypeOK' /\ OwnerRuns'
    BY <1>4, ConfigAssumption DEF Refuse, TypeOK, OwnerRuns, ConfigAssumption, guardVars
  <2>2. TargetPrivate'
    BY <1>4 DEF Refuse, TargetPrivate, Filling, TypeOK
  <2>3. OthersSealed' /\ Contents'
    BY <1>4 DEF Refuse, OthersSealed, Contents, OwnerRuns, TypeOK
  <2>4. QED
    BY <1>1, <2>1, <2>2, <2>3
<1>5. CASE ScanSlot
  <2>1. TypeOK' /\ OwnerRuns'
    BY <1>5, ConfigAssumption DEF ScanSlot, TypeOK, OwnerRuns, ConfigAssumption, Slots, guardVars
  <2>2. TargetPrivate'
    <3>1. CASE pc' = "fill"
      <4>1. target' \in Slots /\ readers[target'] = 0 /\ target' # publishedSlot
        BY <1>5, <3>1 DEF ScanSlot
      <4>2. \A g \in Guards : gpc[g] = "held" => gslot[g] # target'
        BY <4>1, ZeroMeansFree
      <4>3. publishedSlot' = publishedSlot
        BY <1>5 DEF ScanSlot
      <4>4. QED
        BY <1>1, <4>1, <4>2, <4>3 DEF TargetPrivate
    <3>2. CASE pc' # "fill"
      <4>1. pc' = "scan"
        BY <1>5, <3>2 DEF ScanSlot
      <4>2. QED
        BY <4>1 DEF TargetPrivate, Filling
    <3>3. QED
      BY <3>1, <3>2
  <2>3. OthersSealed' /\ Contents'
    BY <1>5 DEF ScanSlot, OthersSealed, Contents
  <2>4. QED
    BY <1>1, <2>1, <2>2, <2>3
<1>6. CASE Defer
  <2>1. TypeOK' /\ OwnerRuns'
    BY <1>6, ConfigAssumption DEF Defer, TypeOK, OwnerRuns, ConfigAssumption, guardVars, Unlock
  <2>2. TargetPrivate'
    BY <1>6 DEF Defer, TargetPrivate, Filling, TypeOK, Unlock
  <2>3. OthersSealed' /\ Contents'
    BY <1>6 DEF Defer, OthersSealed, Contents, OwnerRuns, TypeOK, Unlock
  <2>4. QED
    BY <1>1, <2>1, <2>2, <2>3
<1>7. CASE Fill
  <2>1. snapshots' \in [Slots -> Snapshot]
    BY <1>7 DEF Fill, TypeOK, Snapshot, Unsealed
  <2>2. TypeOK' /\ OwnerRuns'
    BY <1>7, <2>1 DEF Fill, TypeOK, OwnerRuns, guardVars
  <2>3. TargetPrivate'
    BY <1>1, <1>7 DEF Fill, TargetPrivate, Filling
  <2>4. OthersSealed' /\ Contents'
    BY <1>7 DEF Fill, OthersSealed, Contents, TypeOK, TargetPrivate, Filling, Snapshot, Unsealed
  <2>5. QED
    BY <1>1, <2>2, <2>3, <2>4
<1>8. CASE Seal
  <2>1. snapshots' \in [Slots -> Snapshot]
    BY <1>8 DEF Seal, TypeOK, Snapshot
  <2>2. TypeOK' /\ OwnerRuns'
    BY <1>8, <2>1 DEF Seal, TypeOK, OwnerRuns, guardVars
  <2>3. TargetPrivate'
    BY <1>1, <1>8 DEF Seal, TargetPrivate, Filling
  <2>4. OthersSealed' /\ Contents'
    BY <1>8 DEF Seal, OthersSealed, Contents, TypeOK, TargetPrivate, Filling, Snapshot
  <2>5. QED
    BY <1>1, <2>2, <2>3, <2>4
<1>9. CASE Store
  <2>1. TypeOK' /\ OwnerRuns'
    BY <1>9, ConfigAssumption DEF Store, TypeOK, OwnerRuns, ConfigAssumption, guardVars
  <2>2. TargetPrivate'
    BY <1>9 DEF Store, TargetPrivate, Filling, TypeOK
  <2>3. OthersSealed' /\ Contents'
    BY <1>9 DEF Store, OthersSealed, Contents, OwnerRuns, TypeOK
  <2>4. QED
    BY <1>1, <2>1, <2>2, <2>3
<1>10. CASE Clear
  <2>1. TypeOK' /\ OwnerRuns'
    BY <1>10, ConfigAssumption DEF Clear, TypeOK, OwnerRuns, ConfigAssumption, guardVars, Unlock
  <2>2. TargetPrivate'
    BY <1>10 DEF Clear, TargetPrivate, Filling, TypeOK, Unlock
  <2>3. OthersSealed' /\ Contents'
    BY <1>10 DEF Clear, OthersSealed, Contents, OwnerRuns, TypeOK, Unlock
  <2>4. QED
    BY <1>1, <2>1, <2>2, <2>3
<1>11. CASE Recheck
  <2>1. TypeOK' /\ OwnerRuns'
    BY <1>11, ConfigAssumption DEF Recheck, TypeOK, OwnerRuns, ConfigAssumption, guardVars, Unlock
  <2>2. TargetPrivate'
    BY <1>11 DEF Recheck, TargetPrivate, Filling, TypeOK, Unlock
  <2>3. OthersSealed' /\ Contents'
    BY <1>11 DEF Recheck, OthersSealed, Contents, OwnerRuns, TypeOK, Unlock
  <2>4. QED
    BY <1>1, <2>1, <2>2, <2>3
<1>12. CASE Republish
  <2>1. TypeOK' /\ OwnerRuns'
    BY <1>12, ConfigAssumption DEF Republish, TypeOK, OwnerRuns, ConfigAssumption, guardVars
  <2>2. TargetPrivate'
    BY <1>12 DEF Republish, TargetPrivate, Filling, TypeOK
  <2>3. OthersSealed' /\ Contents'
    BY <1>12 DEF Republish, OthersSealed, Contents
  <2>4. QED
    BY <1>1, <2>1, <2>2, <2>3
<1>13. QED
  BY <1>2, <1>3, <1>4, <1>5, <1>6, <1>7, <1>8, <1>9, <1>10, <1>11, <1>12 DEF PublishStep

(* The steps of the lifecycle task outside the mutex.                          *)
LEMMA WorkerStepInvariant ==
  ASSUME IInv, WorkerStep
  PROVE  IInv'
<1> USE DEF IInv
<1>1. UNCHANGED <<publishedSlot, readers, publishPending, configVersion, snapshots, live,
                  scan, target, guardVars>>
  BY DEF WorkerStep, Wake, TestPending, TryLock, TryLockFails, writerVars
<1>2. ReadersCountPins'
  BY <1>1, SameGuards, PinsUnchanged
<1>3. TypeOK' /\ OwnerRuns'
  BY ConfigAssumption DEF WorkerStep, Wake, TestPending, TryLock, TryLockFails, writerVars,
     guardVars, TypeOK, OwnerRuns, ConfigAssumption
<1>4. TargetPrivate' /\ OthersSealed' /\ Contents'
  <2>1. CASE TryLock
    BY <1>1, <2>1 DEF TryLock, guardVars, OwnerRuns, TargetPrivate, OthersSealed, Contents,
       Filling
  <2>2. CASE Wake \/ TestPending \/ TryLockFails
    <3>1. pc' = pc
      BY <2>2 DEF Wake, TestPending, TryLockFails, writerVars
    <3>2. QED
      BY <1>1, <3>1 DEF guardVars, TargetPrivate, OthersSealed, Contents, Filling
  <2>3. QED
    BY <2>1, <2>2 DEF WorkerStep
<1>5. QED
  BY <1>2, <1>3, <1>4

LEMMA StepInvariant ==
  IInv /\ [Next]_vars => IInv'
<1>1. ASSUME IInv, UNCHANGED vars PROVE IInv'
  <2>1. UNCHANGED <<readers, guardVars>>
    BY <1>1 DEF vars, guardVars
  <2>2. ReadersCountPins'
    BY <1>1, <2>1, SameGuards, PinsUnchanged DEF IInv
  <2>3. QED
    BY <1>1, <2>2 DEF vars, IInv, TypeOK, OwnerRuns, TargetPrivate, OthersSealed, Contents,
       Filling
<1>2. QED
  BY <1>1, GuardStepInvariant, WriterStepInvariant, WorkerStepInvariant DEF Next

(* The invariant of the whole construction: counters, ownership of the mutex,  *)
(* privacy of the slot being written and what every slot contains.             *)
THEOREM Invariance == Spec => []IInv
BY InitInvariant, StepInvariant, PTL DEF Spec

(* Every variable stays in its type; in particular no reader counter is ever   *)
(* decremented below zero, whatever the number of guards.                      *)
THEOREM TypeCorrect == Spec => []TypeOK
<1>1. IInv => TypeOK
  BY DEF IInv
<1>2. QED
  BY <1>1, Invariance, PTL

(* The memory behind a live ConfigSnapshotGuard is complete and is not being   *)
(* written: publishSnapshot_locked() never picks a slot somebody borrows.      *)
THEOREM BorrowsAreStable == Spec => []BorrowedSlotStable
<1>1. IInv => BorrowedSlotStable
  BY DEF IInv, BorrowedSlotStable, TargetPrivate, OthersSealed, Filling, TypeOK
<1>2. QED
  BY <1>1, Invariance, PTL

(* A mutation is in the published snapshot or its publication is recorded as   *)
(* pending, whenever nobody is inside mutate().                                *)
THEOREM NoMutationLost == Spec => []NothingLost
<1>1. IInv => NothingLost
  BY DEF IInv, NothingLost, OwnerRuns, Contents
<1>2. QED
  BY <1>1, Invariance, PTL

(* A new published slot carries a larger version and no fewer mutations than   *)
(* the one it replaces: the store of publishSnapshot_locked() moves forward.   *)
THEOREM PublicationMovesForward == Spec => PublicationAdvances
<1> DEFINE Forward == publishedSlot' # publishedSlot =>
                        /\ snapshots'[publishedSlot'].version > snapshots[publishedSlot].version
                        /\ snapshots'[publishedSlot'].payload >= snapshots[publishedSlot].payload
<1>1. ASSUME IInv, [Next]_vars PROVE Forward
  <2>1. CASE Store
    BY <1>1, <2>1 DEF IInv, Store, Contents, TypeOK, Snapshot
  <2>2. CASE ~Store
    <3>1. publishedSlot' = publishedSlot
      BY <1>1, <2>2 DEF Next, vars, AcquireStep, ReleaseStep, PublishStep, WorkerStep,
         AcquireCall, AcquireLoad, AcquirePin, AcquireCheck, AcquireUndo, Release,
         ReleaseSignal, Lock, Mutator, Republish, Refuse, ScanSlot, Defer, Fill, Seal, Clear, Wake,
         TestPending, TryLock, TryLockFails, Recheck
    <3>2. QED
      BY <3>1
  <2>3. QED
    BY <2>1, <2>2
<1>2. IInv /\ [Next]_vars => [Forward]_vars
  BY <1>1
<1>3. QED
  BY <1>2, Invariance, PTL DEF Spec, PublicationAdvances

-----------------------------------------------------------------------------
(* A step that keeps the current contents and every guard's view is a stutter  *)
(* of the register.                                                            *)
LEMMA RegisterStutters ==
  ASSUME live' = live, Current' = Current, \A g \in Guards : ViewOf(g)' = ViewOf(g)
  PROVE  UNCHANGED Register!vars
BY DEF Register!vars

(* What a guard does, seen by the register: the second read of _publishedSlot  *)
(* is the borrow, the decrement is the return, the rest is invisible.          *)
LEMMA GuardRefines ==
  ASSUME IInv, NEW g \in Guards, AcquireCall(g) \/ AcquireStep(g) \/ ReleaseStep(g)
  PROVE  Register!Borrow(g) \/ Register!Return(g) \/ UNCHANGED Register!vars
<1>1. live' = live /\ Current' = Current /\ snapshots' = snapshots
  BY DEF AcquireCall, AcquireStep, ReleaseStep, AcquireLoad, AcquirePin, AcquireCheck,
         AcquireUndo, Release, ReleaseSignal, writerVars, Current
<1>2. ASSUME NEW h \in Guards, h # g PROVE ViewOf(h)' = ViewOf(h)
  BY <1>2 DEF IInv, TypeOK, AcquireCall, AcquireStep, ReleaseStep, AcquireLoad, AcquirePin,
     AcquireCheck, AcquireUndo, Release, ReleaseSignal, writerVars, ViewOf
<1>3. CASE AcquireCheck(g) /\ publishedSlot = gslot[g]
  <2>1. ViewOf(g) = NoView /\ ViewOf(g)' = Current
    BY <1>3 DEF IInv, TypeOK, AcquireCheck, writerVars, ViewOf, Current
  <2>2. QED
    BY <1>1, <1>2, <2>1 DEF Register!Borrow
<1>4. CASE Release(g)
  <2>1. ViewOf(g) \in Nat
    BY <1>4 DEF IInv, TypeOK, Snapshot, Release, ViewOf
  <2>2. ViewOf(g)' = NoView
    BY <1>4 DEF IInv, TypeOK, Release, ViewOf
  <2>3. ViewOf(g) # NoView
    BY <2>1, ConfigAssumption DEF ConfigAssumption
  <2>4. QED
    BY <1>1, <1>2, <2>2, <2>3 DEF Register!Return
<1>5. CASE ~Release(g) /\ ~(AcquireCheck(g) /\ publishedSlot = gslot[g])
  <2>1. ViewOf(g)' = ViewOf(g)
    BY <1>5 DEF IInv, TypeOK, AcquireCall, AcquireStep, ReleaseStep, AcquireLoad, AcquirePin,
       AcquireCheck, AcquireUndo, ReleaseSignal, writerVars, ViewOf
  <2>2. QED
    BY <1>1, <1>2, <2>1, RegisterStutters
<1>6. QED
  BY <1>3, <1>4, <1>5

(* What the holder of the mutex does, seen by the register: the mutator, the   *)
(* store to _publishedSlot, and nothing else.                                  *)
LEMMA WriterRefines ==
  ASSUME IInv, PublishStep \/ \E w \in Writers : Lock(w)
  PROVE  Register!Mutate \/ Register!Publish \/ UNCHANGED Register!vars
<1>1. gpc' = gpc /\ gslot' = gslot
  BY DEF PublishStep, Lock, Mutator, Republish, Refuse, ScanSlot, Defer, Fill, Seal, Store, Clear,
         Recheck, guardVars
<1>2. CASE Mutator
  <2>1. Current' = Current /\ \A g \in Guards : ViewOf(g)' = ViewOf(g)
    BY <1>1, <1>2 DEF Mutator, Current, ViewOf
  <2>2. QED
    BY <1>2, <2>1 DEF Mutator, Register!Mutate
<1>3. CASE Store
  <2>1. Current' = live /\ \A g \in Guards : ViewOf(g)' = ViewOf(g)
    BY <1>1, <1>3 DEF IInv, Contents, Store, Current, ViewOf
  <2>2. QED
    BY <1>3, <2>1 DEF Store, Register!Publish
<1>4. CASE Fill \/ Seal
  <2>1. live' = live /\ publishedSlot' = publishedSlot /\ Filling /\ target \in Slots
    BY <1>4 DEF IInv, TypeOK, Fill, Seal, Filling
  <2>2. ASSUME NEW s \in Slots, s # target PROVE snapshots'[s].payload = snapshots[s].payload
    BY <1>4, <2>2 DEF IInv, TypeOK, Fill, Seal
  <2>3. Current' = Current
    BY <2>1, <2>2 DEF IInv, TypeOK, TargetPrivate, Current
  <2>4. ASSUME NEW g \in Guards PROVE ViewOf(g)' = ViewOf(g)
    BY <1>1, <2>1, <2>2 DEF IInv, TypeOK, TargetPrivate, ViewOf
  <2>5. QED
    BY <2>1, <2>3, <2>4, RegisterStutters
<1>5. CASE ~Mutator /\ ~Store /\ ~(Fill \/ Seal)
  <2>1. UNCHANGED <<live, snapshots, publishedSlot>>
    BY <1>5 DEF PublishStep, Lock, Republish, Refuse, ScanSlot, Defer, Clear, Recheck
  <2>2. QED
    BY <1>1, <2>1, RegisterStutters DEF Current, ViewOf
<1>6. QED
  BY <1>2, <1>3, <1>4, <1>5

(* The lifecycle task outside the mutex is invisible to the register.          *)
LEMMA WorkerRefines ==
  ASSUME WorkerStep \/ UNCHANGED vars
  PROVE  UNCHANGED Register!vars
<1>1. UNCHANGED <<live, snapshots, publishedSlot, gpc, gslot>>
  BY DEF WorkerStep, Wake, TestPending, TryLock, TryLockFails, writerVars, guardVars, vars
<1>2. QED
  BY <1>1, RegisterStutters DEF Current, ViewOf

(* The triple buffer implements one atomic register holding the last published *)
(* configuration: every borrow of a task is linearizable, for any number of    *)
(* guards and writers.                                                         *)
THEOREM Linearizable == Spec => ImplementsRegister
<1>1. Init => Register!Init
  BY DEF Init, Register!Init, Current, ViewOf, Slots
<1>2. IInv /\ [Next]_vars => [Register!Next]_(Register!vars)
  BY GuardRefines, WriterRefines, WorkerRefines DEF Next, Register!Next
<1>3. QED
  BY <1>1, <1>2, Invariance, PTL DEF Spec, ImplementsRegister, Register!Spec

--------------------------------------------------------------------------------
(* The storage.  Where a job is tells what is left of it to do.                    *)
Writing == {"write", "remove", "rename", "copy"}
Rewriting == {"unback", "rotate", "rewrite", "finish"}
JobShape ==
    /\ step \in {"off", "idle"} => job = NoJob
    /\ step \notin {"off", "idle"} => job.kind # "none"
    /\ step \in Writing => job.todo # {} /\ (job.todo = {Bak} \/ job.todo \subseteq Domains)
    /\ step \in Rewriting \cup {"decide", "restore"} =>
        job.todo = {} /\ job.kind \in {"save", "repair"}
    /\ job.kind \in {"save", "repair"} => job.files # <<>> /\ job.todo \subseteq Domains
    /\ job.kind = "save" => job.files = <<Legacy>>
    /\ job.kind \in {"migrate", "backup"} => Exists(Legacy)
    /\ Bak \in job.todo => job.kind = "backup"

(* What is on its way fits the file it is for, and what will be the file of a      *)
(* domain is whole.                                                                *)
TextFits ==
    /\ step \in {"remove", "rename", "copy"} =>
        /\ text \in Content(Holds(Target), clock)
        /\ Target \in Domains => text.whole
    /\ step \in Rewriting => text \in Content(Items, clock) /\ text.whole

--------------------------------------------------------------------------------
(* What the storage keeps, on a card that came with a /config.json: of every item, *)
(* or, after a power loss, of those the boot looks for twice.                      *)
Calm ==
    /\ board.seeded /\ faults = 0
    /\ cuts = 0 \/ (cuts = 1 /\ ~board.copies /\ ~board.low)
Claimed == IF cuts = 0 THEN Items ELSE Twice

Kept(f, x) == Whole(f) /\ disk[f].value[x] >= acked[x]
LegacyKept == \A x \in Claimed : Kept(Legacy, x)

FieldsKept == \A x \in Claimed : acked[x] >= 1 /\ (step # "off" => fields[x] >= acked[x])
FilesKept ==
    \A x \in Claimed :
        /\ step # "off" => FileOf(x) \in job.todo \/ Kept(FileOf(x), x)
        /\ ~board.copies => (Exists(FileOf(x)) => Kept(FileOf(x), x))
AskedKept ==
    job.kind = "save" =>
        \A x \in Claimed : FileOf(x) \in job.mask =>
            /\ job.asked[x] >= acked[x] /\ fields[x] >= job.asked[x]
            /\ FileOf(x) \in job.todo \/ (Whole(FileOf(x)) /\ disk[FileOf(x)].value[x] >= job.asked[x])
TextKept ==
    /\ step \in {"remove", "rename", "copy"} =>
        \A x \in Claimed : FileOf(x) = Target =>
            /\ text.value[x] >= acked[x]
            /\ job.kind = "save" /\ Target \in job.mask => text.value[x] >= job.asked[x]
    /\ step \in Rewriting =>
        \A x \in Claimed :
            /\ text.value[x] >= acked[x]
            /\ job.kind = "save" /\ FileOf(x) \in job.mask => text.value[x] >= job.asked[x]
SecondCopyKept ==
    cuts = 0 /\ ~board.copies /\ ~board.low => LegacyKept \/ step \in {"rewrite", "finish"}
(* When the power is off: every file, or /config.json.                             *)
BootKept ==
    step = "off" =>
        \/ \A x \in Claimed : Kept(FileOf(x), x)
        \/ LegacyKept /\ (cuts = 0 => \A d \in Domains : ~Exists(d))
NoRepair == job.kind # "repair" /\ step # "restore"

AllKept ==
    /\ FieldsKept /\ FilesKept /\ AskedKept /\ TextKept
    /\ SecondCopyKept /\ BootKept /\ NoRepair

StorageInv == StorageTypeOK /\ JobShape /\ TextFits /\ NeverTorn /\ (Calm => AllKept)

(* The type invariant in parts.                                                    *)
DiskFits(x, n) == DOMAIN x \subseteq Files /\ \A f \in DOMAIN x : x[f] \in Content(Holds(f), n)
TypedText == DOMAIN text.value \subseteq Items /\ text \in Content(DOMAIN text.value, clock)
TypedFields == fields \in [Items -> 0 .. clock] /\ acked \in [Items -> 0 .. clock]
TypedRest ==
    /\ clock \in 0 .. LastVersion /\ board \in Boards
    /\ cuts \in 0 .. MaxCuts /\ faults \in 0 .. MaxFaults
TypedStep ==
    step \in {"off", "idle", "write", "remove", "rename", "copy",
              "decide", "unback", "rotate", "rewrite", "finish", "restore"}

LEMMA StorageTypeParts ==
    StorageTypeOK <=> /\ DiskFits(disk, clock) /\ TypedText /\ TypedFields /\ TypedRest
                      /\ TypedStep /\ job \in Jobs(clock)
  BY Zenon DEF StorageTypeOK, DiskFits, TypedText, TypedFields, TypedRest, TypedStep
LEMMA StorageTypePartsNext ==
    ASSUME DiskFits(disk', clock'), TypedText', TypedFields', TypedRest', TypedStep',
           job' \in Jobs(clock')
    PROVE  StorageTypeOK'
  BY Zenon DEF StorageTypeOK, DiskFits, TypedText, TypedFields, TypedRest, TypedStep

(* The file of a domain is none of the three monolithic ones.                      *)
LEMMA Names ==
    /\ Legacy \notin Domains /\ Bak \notin Domains /\ BakBak \notin Domains
    /\ Legacy # Bak /\ Bak # BakBak /\ Legacy # BakBak
    /\ Network \in Domains /\ Gate \subseteq Domains /\ Gate # {}
    /\ Links \notin Domains /\ Domains \subseteq Items /\ Links \in Items
    /\ \A x \in Items : FileOf(x) \in Domains
    /\ \A d \in Domains : FileOf(d) = d
    /\ {Legacy, Bak, BakBak} \subseteq Files /\ Domains \subseteq Files
    /\ Holds(Legacy) = Items /\ Holds(Bak) = Items /\ Holds(BakBak) = Items
    /\ \A d \in Domains : Holds(d) = {x \in Items : FileOf(x) = d} /\ d \in Holds(d)
    /\ \A f \in Files : Holds(f) \subseteq Items
  <1>1. /\ Legacy \notin Domains /\ Bak \notin Domains /\ BakBak \notin Domains
        /\ Legacy # Bak /\ Bak # BakBak /\ Legacy # BakBak
        /\ Network \in Domains /\ Gate \subseteq Domains /\ Gate # {} /\ Links \notin Domains
    BY StorageAssumption
  <1>2. /\ Domains \subseteq Items /\ Links \in Items
        /\ \A x \in Items : x = Links \/ x \in Domains
    BY DEF Items
  <1>3. /\ \A x \in Items : FileOf(x) \in Domains
        /\ \A d \in Domains : FileOf(d) = d
    BY Zenon, <1>1, <1>2 DEF FileOf
  <1>4. \A f \in Files : Holds(f) \subseteq Items
    BY DEF Holds
  <1>5. \A d \in Domains : Holds(d) = {x \in Items : FileOf(x) = d} /\ d \in Holds(d)
    BY <1>2, <1>3 DEF Holds
  <1>6. Holds(Legacy) = Items /\ Holds(Bak) = Items /\ Holds(BakBak) = Items
    BY <1>1 DEF Holds
  <1>7. {Legacy, Bak, BakBak} \subseteq Files /\ Domains \subseteq Files
    BY DEF Files
  <1> QED  BY Zenon, <1>1, <1>2, <1>3, <1>4, <1>5, <1>6, <1>7

(* What a file or a text holds.                                                    *)
LEMMA ContentMade ==
    ASSUME NEW D, NEW n, NEW b \in BOOLEAN, NEW v \in [D -> 0 .. n]
    PROVE  [whole |-> b, value |-> v] \in Content(D, n)
  BY DEF Content
LEMMA ContentParts ==
    ASSUME NEW D, NEW n, NEW c \in Content(D, n)
    PROVE  /\ c.whole \in BOOLEAN /\ c.value \in [D -> 0 .. n] /\ DOMAIN c.value = D
           /\ \A d \in D : c.value[d] \in 0 .. n
           /\ Torn(c) \in Content(D, n) /\ Torn(c).value = c.value /\ ~Torn(c).whole
  BY DEF Content, Torn
LEMMA ContentGrows ==
    ASSUME NEW D, NEW n \in Nat, NEW m \in Nat, n <= m, NEW c \in Content(D, n)
    PROVE  c \in Content(D, m)
  <1>1. 0 .. n \subseteq 0 .. m
    OBVIOUS
  <1>2. \A v \in [D -> 0 .. n] : v \in [D -> 0 .. m]
    BY <1>1
  <1> QED  BY <1>2 DEF Content
LEMMA NoTextTyped ==
    ASSUME NEW n \in Nat
    PROVE  /\ DOMAIN NoText.value \subseteq Items
           /\ NoText \in Content(DOMAIN NoText.value, n)
  <1>1. NoText.value = [d \in {} |-> 0] /\ DOMAIN NoText.value = {}
    BY DEF NoText
  <1>2. [d \in {} |-> 0] \in [{} -> 0 .. n]
    OBVIOUS
  <1> QED  BY <1>1, <1>2, ContentMade DEF NoText

(* The three things that happen to a file.                                         *)
LEMMA WithFits ==
    ASSUME NEW n, DiskFits(disk, n), NEW f \in Files, NEW c \in Content(Holds(f), n)
    PROVE  /\ DiskFits(With(f, c), n)
           /\ DOMAIN With(f, c) = DOMAIN disk \cup {f}
           /\ With(f, c)[f] = c
           /\ \A g \in DOMAIN disk : g # f => With(f, c)[g] = disk[g]
  BY DEF DiskFits, With
LEMMA WithoutFits ==
    ASSUME NEW n, DiskFits(disk, n), NEW f
    PROVE  /\ DiskFits(Without(f), n)
           /\ DOMAIN Without(f) = DOMAIN disk \ {f}
           /\ \A g \in DOMAIN disk : g # f => Without(f)[g] = disk[g]
  BY DEF DiskFits, Without
LEMMA RenamedFits ==
    ASSUME NEW n, DiskFits(disk, n), NEW f \in DOMAIN disk, NEW b \in Files, b # f,
           Holds(b) = Holds(f)
    PROVE  /\ DiskFits(Renamed(f, b), n)
           /\ DOMAIN Renamed(f, b) = (DOMAIN disk \ {f}) \cup {b}
           /\ Renamed(f, b)[b] = disk[f]
           /\ \A g \in DOMAIN disk : g # f /\ g # b => Renamed(f, b)[g] = disk[g]
  BY DEF DiskFits, Renamed

(* The first of a set of places, and the file that is due.                         *)
LEMMA FirstIn ==
    ASSUME NEW S \in SUBSET Nat, S # {}
    PROVE  First(S) \in S /\ \A m \in S : First(S) <= m
  <1>1. PICK k \in S : \A m \in S : ~(<<m, k>> \in OpToRel(<, Nat))
    BY Zenon, NatLessThanWellFounded, WFMin
  <1>2. \A m \in S : ~(m < k)
    BY <1>1 DEF OpToRel
  <1>3. \A m \in S : k <= m
    BY <1>2
  <1> QED  BY <1>3 DEF First

LEMMA TargetDue ==
    ASSUME JobShape, step \in Writing
    PROVE  /\ Target \in job.todo /\ Target \in Domains \cup {Bak} /\ Target \in Files
           /\ Target # Legacy
           /\ Target = Bak => job.kind = "backup" /\ Exists(Legacy)
           /\ Target = Bak <=> job.todo = {Bak}
  <1>1. job.todo # {} /\ (job.todo = {Bak} \/ job.todo \subseteq Domains)
    BY DEF JobShape
  <1>2. CASE job.todo = {Bak}
    BY <1>2, Names DEF Target, JobShape
  <1>3. CASE job.todo # {Bak}
    <2> DEFINE S == {k \in DOMAIN Order : Order[k] \in job.todo}
    <2>1. job.todo \subseteq Domains
      BY <1>1, <1>3
    <2>2. DOMAIN Order \subseteq Nat
      BY StorageAssumption
    <2>3. S # {}
      BY <1>1, <2>1 DEF Domains
    <2>4. First(S) \in S
      BY <2>2, <2>3, FirstIn
    <2>5. Target = Order[First(S)]
      BY <1>3 DEF Target
    <2>6. Target \in job.todo
      BY <2>4, <2>5
    <2> QED  BY <1>3, <2>1, <2>6, Names
  <1> QED  BY <1>2, <1>3

LEMMA NoJobTyped == ASSUME NEW n \in Nat PROVE NoJob \in Jobs(n) /\ Defaults \in [Items -> 0 .. n]
  <1>1. Defaults \in [Items -> 0 .. n]
    BY DEF Defaults
  <1> QED  BY <1>1 DEF NoJob, Jobs

(* Jobs: their parts, and the changes the actions make to them.                    *)
Kinds == {"none", "save", "repair", "heal", "migrate", "backup"}
Dues == SUBSET (Domains \cup {Bak})
LEMMA JobMade ==
    ASSUME NEW n, NEW k \in Kinds, NEW t \in SUBSET (Domains \cup {Bak}), NEW b \in BOOLEAN,
           NEW s \in Seq({Legacy, Bak}), NEW m \in SUBSET Domains,
           NEW a \in [Items -> 0 .. n]
    PROVE  [kind |-> k, todo |-> t, ok |-> b, files |-> s, mask |-> m, asked |-> a] \in Jobs(n)
  BY DEF Jobs, Kinds
LEMMA JobParts ==
    ASSUME NEW n, NEW j \in Jobs(n)
    PROVE  /\ j.kind \in Kinds /\ j.todo \in SUBSET (Domains \cup {Bak}) /\ j.ok \in BOOLEAN
           /\ j.files \in Seq({Legacy, Bak}) /\ j.mask \in SUBSET Domains
           /\ j.asked \in [Items -> 0 .. n]
           /\ j = [kind |-> j.kind, todo |-> j.todo, ok |-> j.ok, files |-> j.files,
                   mask |-> j.mask, asked |-> j.asked]
  BY DEF Jobs, Kinds
Left(j, t, b) == [j EXCEPT !.todo = t, !.ok = b]
ToBackup(j) == [j EXCEPT !.kind = "backup", !.todo = {Bak}]
LEMMA JobLeft ==
    ASSUME NEW n, NEW j \in Jobs(n), NEW t \in Dues, NEW b \in BOOLEAN
    PROVE  /\ Left(j, t, b) \in Jobs(n)
           /\ Left(j, t, b).kind = j.kind
           /\ Left(j, t, b).todo = t
           /\ Left(j, t, b).files = j.files
           /\ Left(j, t, b).mask = j.mask
           /\ Left(j, t, b).asked = j.asked
  BY DEF Jobs, Dues, Left
LEMMA JobToBackup ==
    ASSUME NEW n, NEW j \in Jobs(n)
    PROVE  /\ ToBackup(j) \in Jobs(n)
           /\ ToBackup(j).kind = "backup" /\ ToBackup(j).todo = {Bak}
  BY DEF Jobs, ToBackup

(* A call of saveDomainsToSD(), as it starts.                                      *)
DomainSets == SUBSET Domains
Called(j, k, m, s) ==
    /\ j.kind = k /\ j.files = s /\ j.mask = m /\ j.asked = fields
    /\ j.todo \subseteq m /\ (Head(s) = Legacy => j.todo = m)
LEMMA CallFacts ==
    ASSUME NEW n, fields \in [Items -> 0 .. n], NEW k \in Kinds, NEW m \in DomainSets,
           NEW s \in Seq({Legacy, Bak}), s # <<>>
    PROVE  Call(k, m, s) \in Jobs(n) /\ Called(Call(k, m, s), k, m, s)
  <1> DEFINE t == IF Head(s) = Legacy THEN m ELSE {}
             b == Head(s) = Legacy
  <1>1. t \in SUBSET (Domains \cup {Bak}) /\ b \in BOOLEAN /\ m \in SUBSET Domains
    BY DEF DomainSets
  <1>2. Call(k, m, s) = [kind |-> k, todo |-> t, ok |-> b, files |-> s,
                         mask |-> m, asked |-> fields]
    BY Zenon DEF Call
  <1>3. Call(k, m, s) \in Jobs(n)
    <2> HIDE DEF t, b
    <2>1. [kind |-> k, todo |-> t, ok |-> b, files |-> s,
           mask |-> m, asked |-> fields] \in Jobs(n)
      BY Zenon, <1>1, JobMade
    <2> QED  BY Zenon, <1>2, <2>1
  <1>4. /\ Call(k, m, s).kind = k /\ Call(k, m, s).files = s /\ Call(k, m, s).mask = m
        /\ Call(k, m, s).asked = fields /\ Call(k, m, s).todo = t
    BY <1>2
  <1>5. t \subseteq m /\ (Head(s) = Legacy => t = m)
    OBVIOUS
  <1> HIDE DEF t, b
  <1> QED  BY Zenon, <1>3, <1>4, <1>5 DEF Called

(* writeStringAtomic() returned: what is left, and where the job goes on.          *)
LEMMA ProceedFacts ==
    ASSUME NEW n, job \in Jobs(n), JobShape, step \in Writing,
           NEW good \in BOOLEAN, Proceed(good)
    PROVE  /\ text' = NoText
           /\ job' \in Jobs(n) \/ job' = NoJob
           /\ step' \in {"write", "decide", "idle"}
           /\ step' = "idle" => job' = NoJob
           /\ step' # "idle" => /\ job'.kind # "none"
                                /\ job'.kind \in {"migrate", "backup"} =>
                                      job.kind \in {"migrate", "backup"}
           /\ step' = "write" => /\ job'.todo # {}
                                 /\ job'.todo = {Bak} \/ job'.todo \subseteq Domains
           /\ step' = "decide" => job'.todo = {} /\ job'.kind \in {"save", "repair"}
           /\ job'.kind \in {"save", "repair"} =>
                 /\ job'.kind = job.kind /\ job'.files = job.files /\ job'.mask = job.mask
                 /\ job'.asked = job.asked
           /\ job'.todo = {Bak} => job'.kind = "backup"
           /\ Bak \in job'.todo => job'.kind = "backup"
           /\ job'.kind \in Kinds
           /\ \A d \in Domains : d \in job.todo /\ d # Target => d \in job'.todo
           /\ \A d \in Domains : d \in job'.todo => d \in job.todo
  <1> DEFINE rest == job.todo \ {Target}
             sofar == job.ok /\ good
             j == [job EXCEPT !.todo = @ \ {Target}, !.ok = @ /\ good]
  <1>1. /\ job.kind \in Kinds /\ job.todo \in SUBSET (Domains \cup {Bak}) /\ job.ok \in BOOLEAN
    BY Zenon, JobParts
  <1>2. rest \in Dues /\ sofar \in BOOLEAN
    BY <1>1 DEF Dues
  <1>3. j = Left(job, rest, sofar)
    BY DEF Left
  <1>4. /\ j \in Jobs(n)
        /\ j.kind = job.kind /\ j.todo = rest /\ j.files = job.files
        /\ j.mask = job.mask /\ j.asked = job.asked
    <2> HIDE DEF rest, sofar, j
    <2>1. /\ Left(job, rest, sofar) \in Jobs(n)
          /\ Left(job, rest, sofar).kind = job.kind
          /\ Left(job, rest, sofar).todo = rest
          /\ Left(job, rest, sofar).files = job.files
          /\ Left(job, rest, sofar).mask = job.mask
          /\ Left(job, rest, sofar).asked = job.asked
      BY <1>1, <1>2, JobLeft
    <2> QED  BY Zenon, <1>3, <2>1
  <1>5. /\ j.kind = job.kind /\ j.todo = rest /\ j.files = job.files
        /\ j.mask = job.mask /\ j.asked = job.asked
    BY Zenon, <1>4
  <1>6. Target \in job.todo /\ (Target = Bak => job.kind = "backup")
        /\ (Target = Bak <=> job.todo = {Bak})
    BY Zenon, TargetDue
  <1>7. job.todo = {Bak} \/ job.todo \subseteq Domains
    BY Zenon DEF JobShape
  <1>8. rest \subseteq Domains /\ Bak \notin rest
    BY <1>1, <1>6, <1>7, Names
  <1>9. job.kind # "none" /\ (Bak \in job.todo => job.kind = "backup")
    BY DEF JobShape, Writing
  <1>10. text' = NoText
    BY Zenon DEF Proceed
  <1>11. \/ rest # {} /\ Run(j)
         \/ rest = {} /\ job.kind \in {"save", "repair"} /\ Run(j)
         \/ rest = {} /\ job.kind = "migrate" /\ Run([j EXCEPT !.kind = "backup", !.todo = {Bak}])
         \/ rest = {} /\ job.kind \in {"migrate", "heal", "backup"} /\ Finished
    <2> HIDE DEF rest, sofar
    <2> QED  BY <1>5 DEF Proceed
  <1> HIDE DEF j
  <1>12. CASE rest # {} /\ Run(j)
    <2>1. job' = j /\ step' = "write"
      BY <1>5, <1>12 DEF Run
    <2>2. job'.kind = job.kind /\ job'.todo = rest /\ job'.files = job.files
          /\ job'.mask = job.mask /\ job'.asked = job.asked
      BY <1>5, <2>1
    <2>3. job' \in Jobs(n)
      BY <1>4, <2>1
    <2>4. rest # {Bak}
      BY <1>8
    <2> HIDE DEF rest
    <2> QED  BY <1>1, <1>8, <1>9, <1>10, <1>12, <2>1, <2>2, <2>3, <2>4 DEF rest
  <1>13. CASE rest = {} /\ job.kind \in {"save", "repair"} /\ Run(j)
    <2>1. job' = j /\ step' = "decide"
      BY <1>5, <1>13 DEF Run
    <2>2. job'.kind = job.kind /\ job'.todo = rest /\ job'.files = job.files
          /\ job'.mask = job.mask /\ job'.asked = job.asked
      BY <1>5, <2>1
    <2>3. job' \in Jobs(n)
      BY <1>4, <2>1
    <2> QED  BY <1>1, <1>8, <1>9, <1>10, <1>13, <2>1, <2>2, <2>3
  <1>14. CASE rest = {} /\ job.kind = "migrate" /\ Run([j EXCEPT !.kind = "backup", !.todo = {Bak}])
    <2> DEFINE b == ToBackup(j)
    <2>2. b \in Jobs(n) /\ b.kind = "backup" /\ b.todo = {Bak}
      BY Zenon, <1>4, JobToBackup
    <2> HIDE DEF b
    <2>3. job' = b /\ step' = "write"
      BY <1>14, <2>2 DEF Run, ToBackup, b
    <2>4. \A d \in Domains : d # Bak
      BY Names
    <2> QED  BY <1>10, <1>14, <2>2, <2>3, <2>4 DEF Kinds
  <1>15. CASE rest = {} /\ job.kind \in {"migrate", "heal", "backup"} /\ Finished
    <2>1. job' = NoJob /\ step' = "idle"
      BY <1>15 DEF Finished
    <2>2. job'.kind = "none" /\ job'.todo = {}
      BY <2>1 DEF NoJob
    <2> QED  BY <1>10, <1>15, <2>1, <2>2 DEF Kinds
  <1> QED  BY Zenon, <1>11, <1>12, <1>13, <1>14, <1>15

Saves == {"save", "repair"}
LEMMA TailOf ==
    ASSUME NEW S, NEW s \in Seq(S), Len(s) >= 2
    PROVE  Tail(s) \in Seq(S) /\ Tail(s) # <<>> /\ \A x : s # <<x>>
  <1> DEFINE t == Tail(s)
  <1>1. t \in Seq(S)
    OBVIOUS
  <1>2. /\ Len(s) \in Nat /\ Len(t) = Len(s) - 1
    OBVIOUS
  <1> HIDE DEF t
  <1>3. Len(t) \in Nat /\ Len(t) # 0
    BY <1>2
  <1>4. t # <<>>
    BY <1>1, <1>3
  <1>5. ASSUME NEW x, s = <<x>> PROVE FALSE
    <2>1. Len(<<x>>) = 1
      OBVIOUS
    <2> QED  BY <1>5, <2>1
  <1> QED  BY <1>1, <1>4, <1>5 DEF t

(* saveDomainsToSD() returned: the call is over, or the next file is saved.        *)
LEMMA AnswerFacts ==
    ASSUME StorageTypeOK, JobShape, job.kind \in Saves, NEW r \in BOOLEAN, Answer(r)
    PROVE  /\ text' = NoText /\ acked' \in [Items -> 0 .. clock]
           /\ job' \in Jobs(clock)
           /\ step' \in {"write", "decide", "idle"}
           /\ step' = "idle" => job' = NoJob
           /\ step' # "idle" => /\ job'.kind = "repair" /\ job'.files # <<>>
                                /\ job'.todo \subseteq Domains
           /\ step' = "write" => job'.todo # {}
           /\ step' = "decide" => job'.todo = {}
           /\ job.kind = "save" => step' = "idle"
           /\ \A x \in Items :
                 acked'[x] = IF r /\ job.kind = "save" /\ FileOf(x) \in job.mask
                             THEN job.asked[x] ELSE acked[x]
  <1>1. /\ TypedFields /\ TypedRest /\ job \in Jobs(clock) /\ clock \in Nat
    <2>1. TypedFields /\ TypedRest /\ job \in Jobs(clock)
      BY Zenon, StorageTypeParts
    <2> QED  BY <2>1, StorageAssumption DEF TypedRest
  <1>2. job.files \in Seq({Legacy, Bak}) /\ job.asked \in [Items -> 0 .. clock]
        /\ job.kind \in Kinds
    BY Zenon, <1>1, JobParts
  <1>11. job.files \in Seq({Legacy, Bak})
    BY Zenon, <1>2
  <1>3. job.files # <<>> /\ (job.kind = "save" => job.files = <<Legacy>>)
    BY DEF JobShape, Saves
  <1>4. fields \in [Items -> 0 .. clock] /\ acked \in [Items -> 0 .. clock]
    BY <1>1 DEF TypedFields
  <1>5. acked' = [x \in Items |-> IF r /\ job.kind = "save" /\ FileOf(x) \in job.mask
                                  THEN job.asked[x] ELSE acked[x]]
    BY Zenon DEF Answer
  <1>6. \A x \in Items :
            acked'[x] = IF r /\ job.kind = "save" /\ FileOf(x) \in job.mask
                        THEN job.asked[x] ELSE acked[x]
    BY Zenon, <1>5
  <1>7. acked' \in [Items -> 0 .. clock]
    <2>1. \A x \in Items : job.asked[x] \in 0 .. clock /\ acked[x] \in 0 .. clock
      BY <1>2, <1>4
    <2> QED  BY Zenon, <1>5, <2>1
  <1>8. text' = NoText
    BY Zenon DEF Answer
  <1>9. CASE Len(job.files) >= 2 /\ Run(Call(job.kind, Domains, Tail(job.files)))
    <2> DEFINE s == Tail(job.files)
               j == Call(job.kind, Domains, s)
    <2>1. /\ s \in Seq({Legacy, Bak}) /\ s # <<>>
          /\ job.files # <<Legacy>>
      <3>1. Len(job.files) >= 2
        BY Zenon, <1>9
      <3> QED  BY Zenon, <1>11, <3>1, TailOf
    <2>2. job.kind # "save"
      BY Zenon, <1>3, <2>1
    <2>3. job.kind = "repair"
      BY <2>2 DEF Saves
    <2>4. Domains \in DomainSets
      BY DEF DomainSets
    <2> HIDE DEF s
    <2>5. /\ j \in Jobs(clock) /\ j.kind = job.kind /\ j.files = s
          /\ j.todo \subseteq Domains
      <3>1. j \in Jobs(clock) /\ Called(j, job.kind, Domains, s)
        BY Zenon, <1>2, <1>4, <2>1, <2>4, CallFacts
      <3> HIDE DEF j
      <3> QED  BY Zenon, <3>1 DEF Called
    <2> HIDE DEF j
    <2>6. job' = j /\ step' = IF j.todo # {} THEN "write" ELSE "decide"
      BY <1>9 DEF Run, j, s
    <2> QED  BY <1>6, <1>7, <1>8, <2>1, <2>2, <2>3, <2>5, <2>6
  <1>10. CASE Len(job.files) = 1 /\ Finished
    <2>1. job' = NoJob /\ step' = "idle"
      BY <1>10 DEF Finished
    <2>2. job' \in Jobs(clock)
      BY <1>1, <2>1, NoJobTyped
    <2> QED  BY <1>6, <1>7, <1>8, <2>1, <2>2
  <1> QED  BY Zenon, <1>9, <1>10 DEF Answer

(* What both leave behind.                                                         *)
LEMMA Settled ==
    ASSUME StorageTypeOK, clock' = clock, board' = board, cuts' = cuts,
           fields' \in [Items -> 0 .. clock], acked' \in [Items -> 0 .. clock],
           faults' \in 0 .. MaxFaults, DiskFits(disk', clock), TypedText',
           job' \in Jobs(clock), step' \in {"write", "decide", "idle"},
           step' = "idle" => job' = NoJob,
           step' = "write" => /\ job'.todo # {}
                              /\ job'.todo = {Bak} \/ job'.todo \subseteq Domains,
           step' = "decide" => job'.todo = {} /\ job'.kind \in {"save", "repair"},
           step' # "idle" =>
               /\ job'.kind # "none"
               /\ job'.kind \in {"save", "repair"} => job'.files # <<>> /\ job'.todo \subseteq Domains
               /\ job'.kind = "save" => job'.files = <<Legacy>>
               /\ job'.kind \in {"migrate", "backup"} => Legacy \in DOMAIN disk'
               /\ Bak \in job'.todo => job'.kind = "backup"
    PROVE  StorageTypeOK' /\ JobShape' /\ TextFits'
  <1>1. TypedRest
    BY Zenon, StorageTypeParts
  <1>2. StorageTypeOK'
    <2>1. DiskFits(disk', clock') /\ job' \in Jobs(clock')
      BY Zenon
    <2>3. TypedFields'
      BY Zenon DEF TypedFields
    <2>4. TypedRest'
      BY Zenon, <1>1 DEF TypedRest
    <2>5. TypedStep'
      BY DEF TypedStep
    <2> QED  BY Zenon, <2>1, <2>3, <2>4, <2>5, StorageTypePartsNext
  <1>3. JobShape'
    <2>1. CASE step' = "idle"
      <3>1. job' = NoJob /\ job'.kind = "none" /\ job'.todo = {}
        BY <2>1 DEF NoJob
      <3> QED  BY <2>1, <3>1 DEF JobShape, Writing, Rewriting
    <2>2. CASE step' # "idle"
      BY <2>2 DEF JobShape, Writing, Rewriting, Exists
    <2> QED  BY <2>1, <2>2
  <1>4. TextFits'
    BY DEF TextFits, Rewriting
  <1> QED  BY <1>2, <1>3, <1>4

LEMMA AfterProceed ==
    ASSUME StorageTypeOK, JobShape, step \in Writing, NEW good \in BOOLEAN, Proceed(good),
           UNCHANGED <<fields, clock, acked, board, cuts>>, faults' \in 0 .. MaxFaults,
           DiskFits(disk', clock), Legacy \in DOMAIN disk => Legacy \in DOMAIN disk'
    PROVE  StorageTypeOK' /\ JobShape' /\ TextFits'
  <1>1. /\ TypedFields /\ job \in Jobs(clock) /\ clock \in Nat
    <2>1. TypedFields /\ TypedRest /\ job \in Jobs(clock)
      BY Zenon, StorageTypeParts
    <2> QED  BY <2>1, StorageAssumption DEF TypedRest
  <1>2. /\ acked' \in [Items -> 0 .. clock] /\ fields' \in [Items -> 0 .. clock]
        /\ clock' = clock /\ board' = board /\ cuts' = cuts
    BY <1>1 DEF TypedFields
  <1>3. NoJob \in Jobs(clock)
    BY <1>1, NoJobTyped
  <1>4. /\ text' = NoText /\ job' \in Jobs(clock) /\ step' \in {"write", "decide", "idle"}
        /\ step' = "idle" => job' = NoJob
        /\ step' = "write" => /\ job'.todo # {}
                              /\ job'.todo = {Bak} \/ job'.todo \subseteq Domains
        /\ step' = "decide" => job'.todo = {} /\ job'.kind \in {"save", "repair"}
    BY Zenon, <1>1, <1>3, ProceedFacts
  <1>5. /\ step' # "idle" => /\ job'.kind # "none"
                             /\ job'.kind \in {"migrate", "backup"} =>
                                    job.kind \in {"migrate", "backup"}
        /\ job'.kind \in {"save", "repair"} => job'.kind = job.kind /\ job'.files = job.files
        /\ job'.todo = {Bak} => job'.kind = "backup"
        /\ Bak \in job'.todo => job'.kind = "backup"
    BY Zenon, <1>1, ProceedFacts
  <1>6. /\ job.kind \in {"save", "repair"} => job.files # <<>>
        /\ job.kind = "save" => job.files = <<Legacy>>
        /\ job.kind \in {"migrate", "backup"} => Legacy \in DOMAIN disk
    BY DEF JobShape, Exists
  <1>7. job'.kind \in {"save", "repair"} => Bak \notin job'.todo
    BY <1>5
  <1>8. job'.todo \subseteq Domains \cup {Bak}
    <2>1. job'.todo \in SUBSET (Domains \cup {Bak})
      BY Zenon, <1>4, JobParts
    <2> QED  BY <2>1
  <1>9. step' # "idle" =>
            /\ job'.kind # "none"
            /\ job'.kind \in {"save", "repair"} => job'.files # <<>> /\ job'.todo \subseteq Domains
            /\ job'.kind = "save" => job'.files = <<Legacy>>
            /\ job'.kind \in {"migrate", "backup"} => Legacy \in DOMAIN disk'
            /\ Bak \in job'.todo => job'.kind = "backup"
    BY <1>5, <1>6, <1>7, <1>8
  <1>10. TypedText'
    BY Zenon, <1>1, <1>2, <1>4, NoTextTyped DEF TypedText
  <1> QED  BY Zenon, <1>2, <1>4, <1>9, <1>10, Settled

LEMMA AfterAnswer ==
    ASSUME StorageTypeOK, JobShape, job.kind \in Saves, NEW r \in BOOLEAN, Answer(r),
           UNCHANGED <<fields, clock, board, cuts>>, faults' \in 0 .. MaxFaults,
           DiskFits(disk', clock)
    PROVE  StorageTypeOK' /\ JobShape' /\ TextFits'
  <1>1. /\ text' = NoText /\ acked' \in [Items -> 0 .. clock] /\ job' \in Jobs(clock)
        /\ step' \in {"write", "decide", "idle"}
        /\ step' = "idle" => job' = NoJob
        /\ step' # "idle" => /\ job'.kind = "repair" /\ job'.files # <<>>
                             /\ job'.todo \subseteq Domains
        /\ step' = "write" => job'.todo # {}
        /\ step' = "decide" => job'.todo = {}
    BY Zenon, AnswerFacts
  <1>5. TypedFields /\ clock \in Nat
    <2>1. TypedFields /\ TypedRest
      BY Zenon, StorageTypeParts
    <2> QED  BY <2>1, StorageAssumption DEF TypedRest
  <1>2. fields' \in [Items -> 0 .. clock] /\ clock' = clock /\ board' = board /\ cuts' = cuts
    BY <1>5 DEF TypedFields
  <1>6. TypedText'
    BY Zenon, <1>1, <1>2, <1>5, NoTextTyped DEF TypedText
  <1>3. Bak \notin Domains
    BY Names
  <1>4. /\ step' = "write" => /\ job'.todo # {}
                              /\ job'.todo = {Bak} \/ job'.todo \subseteq Domains
        /\ step' = "decide" => job'.todo = {} /\ job'.kind \in {"save", "repair"}
        /\ step' # "idle" =>
            /\ job'.kind # "none"
            /\ job'.kind \in {"save", "repair"} => job'.files # <<>> /\ job'.todo \subseteq Domains
            /\ job'.kind = "save" => job'.files = <<Legacy>>
            /\ job'.kind \in {"migrate", "backup"} => Legacy \in DOMAIN disk'
            /\ Bak \in job'.todo => job'.kind = "backup"
    BY <1>1, <1>3
  <1> QED  BY Zenon, <1>1, <1>2, <1>4, <1>6, Settled

(* The three facts of every step, and what the steps within a job leave.           *)
Sound == StorageTypeOK /\ JobShape /\ TextFits /\ NeverTorn
DomainFilesSame ==
    \A d \in Domains :
        /\ d \in DOMAIN disk' <=> d \in DOMAIN disk
        /\ d \in DOMAIN disk => disk'[d] = disk[d]

LEMMA SoundParts ==
    ASSUME Sound
    PROVE  /\ StorageTypeOK /\ JobShape /\ TextFits /\ NeverTorn
           /\ DiskFits(disk, clock) /\ TypedText /\ TypedFields /\ TypedRest /\ TypedStep
           /\ job \in Jobs(clock) /\ clock \in Nat /\ faults \in 0 .. MaxFaults
  <1>1. /\ StorageTypeOK /\ JobShape /\ TextFits /\ NeverTorn
        /\ DiskFits(disk, clock) /\ TypedText /\ TypedFields /\ TypedRest /\ TypedStep
        /\ job \in Jobs(clock)
    BY Zenon, StorageTypeParts DEF Sound
  <1>2. clock \in Nat /\ faults \in 0 .. MaxFaults
    BY <1>1, StorageAssumption DEF TypedRest
  <1> QED  BY Zenon, <1>1, <1>2
LEMMA FaultTyped ==
    ASSUME Sound
    PROVE  /\ Fault => faults' \in 0 .. MaxFaults /\ faults' # 0 /\ faults' = faults + 1
           /\ faults' = faults => faults' \in 0 .. MaxFaults
  <1>1. faults \in 0 .. MaxFaults
    BY Zenon, SoundParts
  <1> QED  BY <1>1, StorageAssumption DEF Fault
LEMMA TextTyped ==
    ASSUME NEW n, NEW D, D \subseteq Items, NEW c \in Content(D, n)
    PROVE  DOMAIN c.value \subseteq Items /\ c \in Content(DOMAIN c.value, n)
  BY Zenon, ContentParts
LEMMA StillWhole ==
    ASSUME NeverTorn, board' = board,
           \A d \in Domains : d \in DOMAIN disk' =>
              board.copies \/ disk'[d].whole \/ (d \in DOMAIN disk /\ disk'[d] = disk[d])
    PROVE  NeverTorn'
  BY Zenon DEF NeverTorn, Exists, Whole
LEMMA SamePlace == ASSUME job' = job PROVE Target' = Target /\ Path' = Path
  BY Zenon DEF Target, Path

LEMMA MovedOn ==
    ASSUME Sound, UNCHANGED <<fields, clock, acked, job, board, cuts>>,
           faults' \in 0 .. MaxFaults, DiskFits(disk', clock),
           NEW D, D \subseteq Items, text' \in Content(D, clock),
           \/ step \in Writing /\ step' \in Writing
           \/ step \in Rewriting \cup {"decide"} /\ step' \in Rewriting \cup {"restore"},
           job.kind \in {"migrate", "backup"} => Legacy \in DOMAIN disk'
    PROVE  StorageTypeOK' /\ JobShape'
  <1>1. /\ JobShape /\ TypedFields /\ TypedRest /\ job \in Jobs(clock)
    BY Zenon, SoundParts
  <1>2. DiskFits(disk', clock') /\ job' \in Jobs(clock')
    BY Zenon, <1>1
  <1>3. TypedText'
    BY Zenon, TextTyped DEF TypedText
  <1>4. TypedFields'
    BY Zenon, <1>1 DEF TypedFields
  <1>5. TypedRest'
    BY Zenon, <1>1 DEF TypedRest
  <1>6. step' \in Writing \cup Rewriting \cup {"restore"}
    OBVIOUS
  <1>7. TypedStep'
    BY <1>6 DEF TypedStep, Writing, Rewriting
  <1>8. StorageTypeOK'
    BY Zenon, <1>2, <1>3, <1>4, <1>5, <1>7, StorageTypePartsNext
  <1>9. JobShape'
    <2>1. job' = job
      OBVIOUS
    <2> QED  BY <1>1, <2>1 DEF JobShape, Writing, Rewriting, Exists
  <1> QED  BY Zenon, <1>8, <1>9

LEMMA TextOf ==
    ASSUME Sound, step \in Writing
    PROVE  /\ Text(Target) \in Content(Holds(Target), clock)
           /\ Target \in Domains => /\ Text(Target).whole
                                    /\ \A x \in Items : FileOf(x) = Target =>
                                          Text(Target).value[x] = fields[x]
  <1>1. /\ DiskFits(disk, clock) /\ TypedFields /\ JobShape /\ clock \in Nat
    BY Zenon, SoundParts
  <1>2. Target \in Domains \cup {Bak} /\ (Target = Bak => Exists(Legacy))
    BY Zenon, <1>1, TargetDue
  <1>3. CASE Target = Bak
    <2>1. Text(Target) = disk[Legacy] /\ Legacy \in DOMAIN disk
      BY Zenon, <1>2, <1>3 DEF Text, Exists
    <2>2. disk[Legacy] \in Content(Holds(Legacy), clock)
      BY Zenon, <1>1, <2>1 DEF DiskFits
    <2> QED  BY <1>3, <2>1, <2>2, Names
  <1>4. CASE Target # Bak
    <2> DEFINE v == [x \in Holds(Target) |-> fields[x]]
    <2>1. /\ Target \in Domains /\ Holds(Target) = {x \in Items : FileOf(x) = Target}
          /\ Holds(Target) \subseteq Items
      BY <1>2, <1>4, Names
    <2>2. Text(Target) = [whole |-> TRUE, value |-> v]
      BY Zenon, <1>4 DEF Text
    <2>3. \A x \in Holds(Target) : fields[x] \in 0 .. clock
      BY <1>1, <2>1 DEF TypedFields
    <2>4. /\ v \in [Holds(Target) -> 0 .. clock]
          /\ \A x \in Items : FileOf(x) = Target => v[x] = fields[x]
      BY <2>1, <2>3
    <2> HIDE DEF v
    <2>5. Text(Target) \in Content(Holds(Target), clock)
      BY Zenon, <2>2, <2>4, ContentMade
    <2>6. Text(Target).whole /\ Text(Target).value = v
      BY <2>2
    <2> QED  BY Zenon, <2>1, <2>4, <2>5, <2>6
  <1> QED  BY Zenon, <1>3, <1>4

LEMMA PathFacts ==
    ASSUME Sound, job.kind \in Saves
    PROVE  /\ Path \in {Legacy, Bak} /\ Path \in Files /\ Backup(Path) \in Files
           /\ Path \notin Domains /\ Backup(Path) \notin Domains /\ Path # Backup(Path)
           /\ Holds(Path) = Items /\ Holds(Backup(Path)) = Items
           /\ job.kind = "save" => Path = Legacy /\ Backup(Path) = Bak
  <1>1. job \in Jobs(clock) /\ JobShape
    BY Zenon, SoundParts
  <1>2. job.files \in Seq({Legacy, Bak})
    BY Zenon, <1>1, JobParts
  <1>3. job.files # <<>> /\ (job.kind = "save" => job.files = <<Legacy>>)
    BY <1>1 DEF JobShape, Saves
  <1>4. Path \in {Legacy, Bak}
    BY <1>2, <1>3 DEF Path
  <1>5. job.kind = "save" => Path = Legacy
    BY <1>3 DEF Path
  <1> QED  BY <1>4, <1>5, Names DEF Backup

(* writeStringAtomic().                                                            *)
LEMMA SoundWriteTmp == ASSUME Sound, WriteTmp PROVE Sound'
  <1>1. /\ step \in Writing /\ step = "write" /\ disk' = disk /\ board' = board
        /\ UNCHANGED <<fields, clock, acked, board, cuts>>
    BY DEF WriteTmp, Writing
  <1>2. /\ JobShape /\ StorageTypeOK /\ NeverTorn /\ DiskFits(disk, clock)
    BY Zenon, SoundParts
  <1>3. NeverTorn'
    BY Zenon, <1>1, <1>2, StillWhole
  <1>4. Target \in Domains \cup {Bak} /\ Target \in Files
    BY Zenon, <1>1, <1>2, TargetDue
  <1>5. DiskFits(disk', clock)
    BY Zenon, <1>1, <1>2
  <1>6. CASE text' = Text(Target) /\ step' = "remove" /\ UNCHANGED <<job, faults>>
    <2>1. /\ text' \in Content(Holds(Target), clock) /\ (Target \in Domains => text'.whole)
      BY Zenon, <1>1, <1>6, TextOf
    <2>2. Holds(Target) \subseteq Items
      BY Zenon, <1>4, Names
    <2>3. step' \in Writing
      BY <1>6 DEF Writing
    <2>4. faults' \in 0 .. MaxFaults
      BY Zenon, <1>6, FaultTyped
    <2>5. job.kind \in {"migrate", "backup"} => Legacy \in DOMAIN disk'
      BY <1>1, <1>2 DEF JobShape, Exists
    <2>6. UNCHANGED <<fields, clock, acked, job, board, cuts>>
      BY Zenon, <1>1, <1>6
    <2>7. StorageTypeOK' /\ JobShape'
      BY Zenon, <1>1, <1>5, <2>1, <2>2, <2>3, <2>4, <2>5, <2>6, MovedOn
    <2>8. Target' = Target
      BY Zenon, <1>6, SamePlace
    <2>9. clock' = clock
      BY Zenon, <1>1
    <2>10. TextFits'
      BY <1>6, <2>1, <2>8, <2>9 DEF TextFits, Rewriting
    <2> QED  BY Zenon, <1>3, <2>7, <2>10 DEF Sound
  <1>7. CASE Fault /\ Proceed(FALSE)
    <2>1. faults' \in 0 .. MaxFaults
      BY Zenon, <1>7, FaultTyped
    <2>2. Legacy \in DOMAIN disk => Legacy \in DOMAIN disk'
      BY Zenon, <1>1
    <2>3. FALSE \in BOOLEAN
      OBVIOUS
    <2>4. StorageTypeOK' /\ JobShape' /\ TextFits'
      BY Zenon, <1>1, <1>2, <1>5, <1>7, <2>1, <2>2, <2>3, AfterProceed
    <2> QED  BY Zenon, <1>3, <2>4 DEF Sound
  <1> QED  BY Zenon, <1>6, <1>7 DEF WriteTmp

LEMMA SoundRemoveOld == ASSUME Sound, RemoveOld PROVE Sound'
  <1>1. /\ step \in Writing /\ step = "remove" /\ step' = "rename" /\ disk' = Without(Target)
        /\ UNCHANGED <<fields, clock, acked, job, board, cuts>> /\ text' = text /\ faults' = faults
    BY DEF RemoveOld, Writing
  <1>2. /\ JobShape /\ StorageTypeOK /\ NeverTorn /\ TextFits /\ DiskFits(disk, clock)
    BY Zenon, SoundParts
  <1>3. /\ Target \in Domains \cup {Bak} /\ Target \in Files /\ Target # Legacy
    BY Zenon, <1>1, <1>2, TargetDue
  <1>4. /\ DiskFits(disk', clock) /\ DOMAIN disk' = DOMAIN disk \ {Target}
        /\ \A g \in DOMAIN disk : g # Target => disk'[g] = disk[g]
    BY Zenon, <1>1, <1>2, WithoutFits
  <1>5. NeverTorn'
    <2>1. \A d \in Domains : d \in DOMAIN disk' => d \in DOMAIN disk /\ disk'[d] = disk[d]
      BY <1>4
    <2> QED  BY Zenon, <1>1, <1>2, <2>1, StillWhole
  <1>6. text \in Content(Holds(Target), clock) /\ (Target \in Domains => text.whole)
    BY <1>1, <1>2 DEF TextFits
  <1>7. Holds(Target) \subseteq Items
    BY <1>3, Names
  <1>8. step' \in Writing
    BY <1>1 DEF Writing
  <1>9. faults' \in 0 .. MaxFaults
    BY Zenon, <1>1, FaultTyped
  <1>10. job.kind \in {"migrate", "backup"} => Legacy \in DOMAIN disk'
    BY <1>2, <1>3, <1>4 DEF JobShape, Exists
  <1>11. StorageTypeOK' /\ JobShape'
    BY Zenon, <1>1, <1>4, <1>6, <1>7, <1>8, <1>9, <1>10, MovedOn
  <1>12. Target' = Target /\ clock' = clock
    BY Zenon, <1>1, SamePlace
  <1>13. TextFits'
    BY <1>1, <1>6, <1>12 DEF TextFits, Rewriting
  <1> QED  BY Zenon, <1>5, <1>11, <1>13 DEF Sound

(* A text that fits is put under the name of its file, whole or not.               *)
LEMMA PutFits ==
    ASSUME Sound, step \in {"rename", "copy"}, NEW c \in {text, Torn(text)}
    PROVE  /\ DiskFits(With(Target, c), clock)
           /\ Legacy \in DOMAIN disk => Legacy \in DOMAIN With(Target, c)
           /\ DOMAIN With(Target, c) = DOMAIN disk \cup {Target}
           /\ With(Target, c)[Target] = c
           /\ \A g \in DOMAIN disk : g # Target => With(Target, c)[g] = disk[g]
           /\ Target \in Files
           /\ Target \in Domains => text.whole
           /\ text \in Content(Holds(Target), clock) /\ Holds(Target) \subseteq Items
  <1>1. /\ step \in Writing /\ JobShape /\ TextFits /\ DiskFits(disk, clock)
    BY SoundParts DEF Writing
  <1>2. Target \in Domains \cup {Bak} /\ Target \in Files
    BY Zenon, <1>1, TargetDue
  <1>3. text \in Content(Holds(Target), clock) /\ (Target \in Domains => text.whole)
    BY <1>1 DEF TextFits
  <1>4. Torn(text) \in Content(Holds(Target), clock)
    BY Zenon, <1>3, ContentParts
  <1>5. c \in Content(Holds(Target), clock)
    BY <1>3, <1>4
  <1>6. /\ DiskFits(With(Target, c), clock)
        /\ DOMAIN With(Target, c) = DOMAIN disk \cup {Target}
        /\ With(Target, c)[Target] = c
        /\ \A g \in DOMAIN disk : g # Target => With(Target, c)[g] = disk[g]
    BY <1>1, <1>2, <1>5 DEF DiskFits, With
  <1>7. Holds(Target) \subseteq Items
    BY <1>2, Names
  <1> QED  BY Zenon, <1>2, <1>3, <1>6, <1>7

LEMMA SoundRename == ASSUME Sound, Rename PROVE Sound'
  <1>1. /\ step \in Writing /\ step \in {"rename", "copy"} /\ step = "rename"
        /\ UNCHANGED <<fields, clock, acked, board, cuts>>
    BY DEF Rename, Writing
  <1>2. /\ JobShape /\ StorageTypeOK /\ NeverTorn /\ TextFits /\ DiskFits(disk, clock)
    BY Zenon, SoundParts
  <1>3. text \in {text, Torn(text)} /\ Torn(text) \in {text, Torn(text)}
    OBVIOUS
  <1>4. TRUE \in BOOLEAN /\ FALSE \in BOOLEAN
    OBVIOUS
  <1>5. CASE ~board.copies /\ disk' = With(Target, text) /\ Proceed(TRUE) /\ UNCHANGED faults
    <2>1. /\ DiskFits(disk', clock) /\ (Legacy \in DOMAIN disk => Legacy \in DOMAIN disk')
          /\ DOMAIN disk' = DOMAIN disk \cup {Target} /\ disk'[Target] = text
          /\ \A g \in DOMAIN disk : g # Target => disk'[g] = disk[g]
          /\ (Target \in Domains => text.whole)
      BY Zenon, <1>1, <1>3, <1>5, PutFits
    <2>2. \A d \in Domains : d \in DOMAIN disk' =>
              disk'[d].whole \/ (d \in DOMAIN disk /\ disk'[d] = disk[d])
      BY <2>1
    <2>3. NeverTorn'
      BY Zenon, <1>1, <1>2, <2>2, StillWhole
    <2>4. faults' \in 0 .. MaxFaults
      BY Zenon, <1>5, FaultTyped
    <2>5. StorageTypeOK' /\ JobShape' /\ TextFits'
      BY Zenon, <1>1, <1>2, <1>4, <1>5, <2>1, <2>4, AfterProceed
    <2> QED  BY Zenon, <2>3, <2>5 DEF Sound
  <1>6. CASE /\ board.copies /\ disk' = With(Target, Torn(text)) /\ step' = "copy"
             /\ UNCHANGED <<job, text, faults>>
    <2>1. /\ DiskFits(disk', clock) /\ (Legacy \in DOMAIN disk => Legacy \in DOMAIN disk')
          /\ (Target \in Domains => text.whole)
          /\ text \in Content(Holds(Target), clock) /\ Holds(Target) \subseteq Items
      BY Zenon, <1>1, <1>3, <1>6, PutFits
    <2>2. NeverTorn'
      BY Zenon, <1>1, <1>2, <1>6, StillWhole
    <2>3. faults' \in 0 .. MaxFaults
      BY Zenon, <1>6, FaultTyped
    <2>4. step' \in Writing
      BY <1>6 DEF Writing
    <2>5. job.kind \in {"migrate", "backup"} => Legacy \in DOMAIN disk'
      BY <1>2, <2>1 DEF JobShape, Exists
    <2>6. UNCHANGED <<fields, clock, acked, job, board, cuts>> /\ text' = text
      BY Zenon, <1>1, <1>6
    <2>7. StorageTypeOK' /\ JobShape'
      BY Zenon, <1>1, <2>1, <2>3, <2>4, <2>5, <2>6, MovedOn
    <2>8. Target' = Target /\ clock' = clock
      BY Zenon, <2>6, SamePlace
    <2>9. TextFits'
      BY <1>6, <2>1, <2>8 DEF TextFits, Rewriting
    <2> QED  BY Zenon, <2>2, <2>7, <2>9 DEF Sound
  <1>7. CASE /\ Fault /\ Proceed(FALSE)
             /\ disk' = disk \/ (board.copies /\ disk' = With(Target, Torn(text)))
    <2>1. /\ DiskFits(disk', clock) /\ (Legacy \in DOMAIN disk => Legacy \in DOMAIN disk')
      BY Zenon, <1>1, <1>2, <1>3, <1>7, PutFits
    <2>2. NeverTorn'
      BY Zenon, <1>1, <1>2, <1>7, StillWhole
    <2>3. faults' \in 0 .. MaxFaults
      BY Zenon, <1>7, FaultTyped
    <2>4. StorageTypeOK' /\ JobShape' /\ TextFits'
      BY Zenon, <1>1, <1>2, <1>4, <1>7, <2>1, <2>3, AfterProceed
    <2> QED  BY Zenon, <2>2, <2>4 DEF Sound
  <1> QED  BY Zenon, <1>5, <1>6, <1>7 DEF Rename

LEMMA SoundCopy == ASSUME Sound, Copy PROVE Sound'
  <1>1. /\ step \in Writing /\ step \in {"rename", "copy"} /\ step = "copy" /\ Proceed(TRUE)
        /\ UNCHANGED <<fields, clock, acked, board, cuts>>
        /\ \/ disk' = With(Target, text) /\ faults' = faults
           \/ disk' = disk /\ Fault
    BY DEF Copy, Writing
  <1>2. /\ JobShape /\ StorageTypeOK /\ NeverTorn /\ DiskFits(disk, clock)
    BY Zenon, SoundParts
  <1>3. text \in {text, Torn(text)} /\ TRUE \in BOOLEAN
    OBVIOUS
  <1>4. /\ DiskFits(With(Target, text), clock)
        /\ Legacy \in DOMAIN disk => Legacy \in DOMAIN With(Target, text)
        /\ DOMAIN With(Target, text) = DOMAIN disk \cup {Target}
        /\ With(Target, text)[Target] = text
        /\ \A g \in DOMAIN disk : g # Target => With(Target, text)[g] = disk[g]
        /\ Target \in Domains => text.whole
    BY Zenon, <1>1, <1>3, PutFits
  <1>5. DiskFits(disk', clock) /\ (Legacy \in DOMAIN disk => Legacy \in DOMAIN disk')
    BY Zenon, <1>1, <1>2, <1>4
  <1>6. faults' \in 0 .. MaxFaults
    BY Zenon, <1>1, FaultTyped
  <1>7. \A d \in Domains : d \in DOMAIN disk' =>
            disk'[d].whole \/ (d \in DOMAIN disk /\ disk'[d] = disk[d])
    BY <1>1, <1>4
  <1>8. NeverTorn'
    BY Zenon, <1>1, <1>2, <1>7, StillWhole
  <1>9. StorageTypeOK' /\ JobShape' /\ TextFits'
    BY Zenon, <1>1, <1>2, <1>3, <1>5, <1>6, AfterProceed
  <1> QED  BY Zenon, <1>8, <1>9 DEF Sound

(* The rewrite of a monolithic file touches no file of a domain.                   *)
LEMMA RewriteShape ==
    ASSUME Sound, step \in Rewriting \cup {"decide", "restore"}
    PROVE  job.kind \in Saves /\ job.todo = {} /\ ~(job.kind \in {"migrate", "backup"})
  <1>1. JobShape
    BY Zenon, SoundParts
  <1>2. job.todo = {} /\ job.kind \in {"save", "repair"}
    BY <1>1 DEF JobShape
  <1> QED  BY <1>2 DEF Saves
LEMMA SameStaysWhole ==
    ASSUME Sound, board' = board, DomainFilesSame PROVE NeverTorn'
  <1>1. NeverTorn /\ \A d \in Domains : d \in DOMAIN disk' => d \in DOMAIN disk /\ disk'[d] = disk[d]
    BY Zenon, SoundParts DEF DomainFilesSame
  <1> QED  BY Zenon, <1>1, StillWhole
LEMMA Undisturbed == ASSUME disk' = disk PROVE DomainFilesSame
  BY Zenon DEF DomainFilesSame
LEMMA PathRemoved ==
    ASSUME Sound, job.kind \in Saves, NEW f, f \notin Domains, disk' = Without(f)
    PROVE  DiskFits(disk', clock) /\ DomainFilesSame
  <1>1. DiskFits(disk, clock)
    BY Zenon, SoundParts
  <1>2. /\ DiskFits(disk', clock) /\ DOMAIN disk' = DOMAIN disk \ {f}
        /\ \A g \in DOMAIN disk : g # f => disk'[g] = disk[g]
    BY Zenon, <1>1, WithoutFits
  <1> QED  BY <1>2 DEF DomainFilesSame
LEMMA PathRenamed ==
    ASSUME Sound, job.kind \in Saves, NEW f \in DOMAIN disk, NEW b,
           (f = Path /\ b = Backup(Path)) \/ (f = Backup(Path) /\ b = Path),
           disk' = Renamed(f, b)
    PROVE  /\ DiskFits(disk', clock) /\ DomainFilesSame
           /\ disk'[b] = disk[f] /\ b \in DOMAIN disk'
  <1>1. DiskFits(disk, clock)
    BY Zenon, SoundParts
  <1>2. /\ f \notin Domains /\ b \notin Domains /\ b # f /\ b \in Files
        /\ Holds(b) = Holds(f)
    BY PathFacts
  <1>3. /\ DiskFits(disk', clock) /\ DOMAIN disk' = (DOMAIN disk \ {f}) \cup {b}
        /\ disk'[b] = disk[f]
        /\ \A g \in DOMAIN disk : g # f /\ g # b => disk'[g] = disk[g]
    BY <1>1, <1>2 DEF DiskFits, Renamed
  <1> QED  BY <1>2, <1>3 DEF DomainFilesSame
LEMMA PathPut ==
    ASSUME Sound, step \in Rewriting, NEW c, c \in {text, Torn(text)}, disk' = With(Path, c)
    PROVE  /\ DiskFits(disk', clock) /\ DomainFilesSame
           /\ disk'[Path] = c /\ Path \in DOMAIN disk'
           /\ \A g \in DOMAIN disk : g # Path => g \in DOMAIN disk' /\ disk'[g] = disk[g]
  <1>1. DiskFits(disk, clock) /\ TextFits
    BY Zenon, SoundParts
  <1>2. job.kind \in Saves
    BY Zenon, RewriteShape
  <1>3. Path \notin Domains /\ Path \in Files /\ Holds(Path) = Items
    BY Zenon, <1>2, PathFacts
  <1>4. text \in Content(Items, clock)
    BY <1>1 DEF TextFits
  <1>5. Torn(text) \in Content(Items, clock)
    BY Zenon, <1>4, ContentParts
  <1>6. c \in Content(Holds(Path), clock)
    BY <1>3, <1>4, <1>5
  <1>7. /\ DiskFits(disk', clock) /\ DOMAIN disk' = DOMAIN disk \cup {Path}
        /\ disk'[Path] = c
        /\ \A g \in DOMAIN disk : g # Path => disk'[g] = disk[g]
    BY <1>1, <1>3, <1>6 DEF DiskFits, With
  <1> QED  BY <1>3, <1>7 DEF DomainFilesSame
LEMMA PathRestored ==
    ASSUME Sound, job.kind \in Saves, disk' = Restored
    PROVE  DiskFits(disk', clock) /\ DomainFilesSame
  <1>1. CASE Exists(Backup(Path))
    <2>1. disk' = Renamed(Backup(Path), Path) /\ Backup(Path) \in DOMAIN disk
      BY Zenon, <1>1 DEF Restored, Exists
    <2> QED  BY Zenon, <2>1, PathRenamed
  <1>2. CASE ~Exists(Backup(Path))
    <2>1. disk' = disk /\ DiskFits(disk, clock)
      BY Zenon, <1>2, SoundParts DEF Restored
    <2> QED  BY Zenon, <2>1, Undisturbed
  <1> QED  BY Zenon, <1>1, <1>2

(* Within a rewrite, and at its end.                                               *)
LEMMA SoundRewriting ==
    ASSUME Sound, UNCHANGED <<fields, clock, acked, job, board, cuts>>,
           faults' \in 0 .. MaxFaults, DiskFits(disk', clock), DomainFilesSame,
           step \in Rewriting \cup {"decide"}, step' \in Rewriting \cup {"restore"},
           text' \in Content(Items, clock), text'.whole
    PROVE  Sound'
  <1>1. /\ step \in Rewriting \cup {"decide", "restore"}
    OBVIOUS
  <1>2. ~(job.kind \in {"migrate", "backup"})
    BY Zenon, <1>1, RewriteShape
  <1>3. Items \subseteq Items
    OBVIOUS
  <1>4. StorageTypeOK' /\ JobShape'
    BY Zenon, <1>2, <1>3, MovedOn
  <1>5. TextFits'
    BY DEF TextFits, Rewriting
  <1>6. NeverTorn'
    BY Zenon, SameStaysWhole
  <1> QED  BY Zenon, <1>4, <1>5, <1>6 DEF Sound
LEMMA SoundAnswer ==
    ASSUME Sound, UNCHANGED <<fields, clock, board, cuts>>, NEW r \in BOOLEAN, Answer(r),
           step \in Rewriting \cup {"decide", "restore"},
           faults' \in 0 .. MaxFaults, DiskFits(disk', clock), DomainFilesSame
    PROVE  Sound'
  <1>1. /\ StorageTypeOK /\ JobShape /\ job.kind \in Saves
    BY Zenon, SoundParts, RewriteShape
  <1>2. StorageTypeOK' /\ JobShape' /\ TextFits'
    BY Zenon, <1>1, AfterAnswer
  <1>3. NeverTorn'
    BY Zenon, SameStaysWhole
  <1> QED  BY Zenon, <1>2, <1>3 DEF Sound
LEMMA JobOk == ASSUME Sound PROVE job.ok \in BOOLEAN /\ TRUE \in BOOLEAN /\ FALSE \in BOOLEAN
  <1>1. job \in Jobs(clock)
    BY Zenon, SoundParts
  <1> QED  BY Zenon, <1>1, JobParts
LEMMA Document ==
    ASSUME Sound
    PROVE  /\ step \in Rewriting => text \in Content(Items, clock) /\ text.whole
           /\ [whole |-> TRUE, value |-> fields] \in Content(Items, clock)
           /\ [whole |-> TRUE, value |-> fields].whole
  <1>1. TextFits /\ TypedFields
    BY Zenon, SoundParts
  <1>2. fields \in [Items -> 0 .. clock]
    BY <1>1 DEF TypedFields
  <1>3. [whole |-> TRUE, value |-> fields] \in Content(Items, clock)
    BY Zenon, <1>2, ContentMade
  <1>4. [whole |-> TRUE, value |-> fields].whole
    OBVIOUS
  <1> QED  BY Zenon, <1>1, <1>3, <1>4 DEF TextFits

LEMMA SoundDecide == ASSUME Sound, Decide PROVE Sound'
  <1>1. /\ step \in Rewriting \cup {"decide"} /\ step \in Rewriting \cup {"decide", "restore"}
        /\ disk' = disk /\ UNCHANGED <<fields, clock, board, cuts>>
    BY DEF Decide
  <1>2. DiskFits(disk', clock) /\ DomainFilesSame
    BY Zenon, <1>1, SoundParts, Undisturbed
  <1>3. ASSUME NEW r \in BOOLEAN, Answer(r), Fault \/ UNCHANGED faults PROVE Sound'
    <2>1. faults' \in 0 .. MaxFaults
      BY Zenon, <1>3, FaultTyped
    <2> QED  BY Zenon, <1>1, <1>2, <1>3, <2>1, SoundAnswer
  <1>4. ASSUME text' = [whole |-> TRUE, value |-> fields], step' = "unback",
               UNCHANGED <<acked, job, faults>>
        PROVE  Sound'
    <2>1. faults' \in 0 .. MaxFaults
      BY Zenon, <1>4, FaultTyped
    <2>2. step' \in Rewriting \cup {"restore"}
      BY <1>4 DEF Rewriting
    <2>3. text' \in Content(Items, clock) /\ text'.whole
      BY Zenon, <1>4, Document
    <2>4. UNCHANGED <<fields, clock, acked, job, board, cuts>>
      BY Zenon, <1>1, <1>4
    <2> QED  BY Zenon, <1>1, <1>2, <2>1, <2>2, <2>3, <2>4, SoundRewriting
  <1> QED  BY Zenon, <1>3, <1>4, JobOk DEF Decide

LEMMA SoundUnback == ASSUME Sound, Unback PROVE Sound'
  <1>1. /\ step \in Rewriting \cup {"decide"} /\ step \in Rewriting \cup {"decide", "restore"}
        /\ step \in Rewriting /\ step' \in Rewriting \cup {"restore"}
        /\ disk' = Without(Backup(Path)) /\ text' = text /\ faults' = faults
        /\ UNCHANGED <<fields, clock, acked, job, board, cuts>>
    BY DEF Unback, Rewriting
  <1>2. job.kind \in Saves /\ Backup(Path) \notin Domains
    BY Zenon, <1>1, RewriteShape, PathFacts
  <1>3. DiskFits(disk', clock) /\ DomainFilesSame
    BY Zenon, <1>1, <1>2, PathRemoved
  <1>4. faults' \in 0 .. MaxFaults /\ text' \in Content(Items, clock) /\ text'.whole
    BY Zenon, <1>1, FaultTyped, Document
  <1> QED  BY Zenon, <1>1, <1>3, <1>4, SoundRewriting

LEMMA SoundRotate == ASSUME Sound, Rotate PROVE Sound'
  <1>1. /\ step \in Rewriting \cup {"decide"} /\ step \in Rewriting \cup {"decide", "restore"}
        /\ step \in Rewriting /\ step' \in Rewriting \cup {"restore"}
        /\ text' = text /\ (Fault \/ faults' = faults)
        /\ UNCHANGED <<fields, clock, acked, job, board, cuts>>
        /\ disk' = disk \/ (Exists(Path) /\ disk' = Renamed(Path, Backup(Path)))
    BY DEF Rotate, Rewriting
  <1>2. job.kind \in Saves
    BY Zenon, <1>1, RewriteShape
  <1>3. DiskFits(disk', clock) /\ DomainFilesSame
    <2>1. CASE disk' = disk
      BY Zenon, <2>1, SoundParts, Undisturbed
    <2>2. CASE Exists(Path) /\ disk' = Renamed(Path, Backup(Path))
      <3>1. Path \in DOMAIN disk
        BY <2>2 DEF Exists
      <3> QED  BY Zenon, <1>2, <2>2, <3>1, PathRenamed
    <2> QED  BY Zenon, <1>1, <2>1, <2>2
  <1>4. faults' \in 0 .. MaxFaults /\ text' \in Content(Items, clock) /\ text'.whole
    BY Zenon, <1>1, FaultTyped, Document
  <1> QED  BY Zenon, <1>1, <1>3, <1>4, SoundRewriting

LEMMA SoundRewrite == ASSUME Sound, Rewrite PROVE Sound'
  <1>1. /\ step \in Rewriting \cup {"decide"} /\ step \in Rewriting \cup {"decide", "restore"}
        /\ step \in Rewriting /\ UNCHANGED <<fields, clock, board, cuts>>
    BY DEF Rewrite, Rewriting
  <1>2. job.kind \in Saves
    BY Zenon, <1>1, RewriteShape
  <1>3. CASE disk' = With(Path, Torn(text)) /\ step' = "finish" /\ UNCHANGED <<text, acked, job, faults>>
    <2>1. Torn(text) \in {text, Torn(text)}
      OBVIOUS
    <2>2. DiskFits(disk', clock) /\ DomainFilesSame
      BY Zenon, <1>1, <1>3, <2>1, PathPut
    <2>3. faults' \in 0 .. MaxFaults /\ text' \in Content(Items, clock) /\ text'.whole
      BY Zenon, <1>1, <1>3, FaultTyped, Document
    <2>4. step' \in Rewriting \cup {"restore"}
      BY <1>3 DEF Rewriting
    <2>5. UNCHANGED <<fields, clock, acked, job, board, cuts>>
      BY Zenon, <1>1, <1>3
    <2> QED  BY Zenon, <1>1, <2>2, <2>3, <2>4, <2>5, SoundRewriting
  <1>4. CASE Fault /\ disk' = Restored /\ Answer(job.ok)
    <2>1. DiskFits(disk', clock) /\ DomainFilesSame
      BY Zenon, <1>2, <1>4, PathRestored
    <2>2. faults' \in 0 .. MaxFaults
      BY Zenon, <1>4, FaultTyped
    <2> QED  BY Zenon, <1>1, <1>4, <2>1, <2>2, JobOk, SoundAnswer
  <1> QED  BY Zenon, <1>3, <1>4 DEF Rewrite

LEMMA SoundFinishRewrite == ASSUME Sound, FinishRewrite PROVE Sound'
  <1>1. /\ step \in Rewriting \cup {"decide"} /\ step \in Rewriting \cup {"decide", "restore"}
        /\ step \in Rewriting /\ UNCHANGED <<fields, clock, board, cuts>>
    BY DEF FinishRewrite, Rewriting
  <1>2. job.kind \in Saves /\ Path \notin Domains
    BY Zenon, <1>1, RewriteShape, PathFacts
  <1>3. CASE Answer(TRUE) /\ \/ disk' = With(Path, text) /\ UNCHANGED faults
                             \/ Fault /\ UNCHANGED disk
    <2>1. text \in {text, Torn(text)}
      OBVIOUS
    <2>2. DiskFits(disk', clock) /\ DomainFilesSame
      BY Zenon, <1>1, <1>3, <2>1, PathPut, SoundParts, Undisturbed
    <2>3. faults' \in 0 .. MaxFaults
      BY Zenon, <1>3, FaultTyped
    <2> QED  BY Zenon, <1>1, <1>3, <2>2, <2>3, JobOk, SoundAnswer
  <1>4. CASE Fault /\ disk' = Without(Path) /\ step' = "restore" /\ UNCHANGED <<text, acked, job>>
    <2>1. DiskFits(disk', clock) /\ DomainFilesSame
      BY Zenon, <1>2, <1>4, PathRemoved
    <2>2. faults' \in 0 .. MaxFaults /\ text' \in Content(Items, clock) /\ text'.whole
      BY Zenon, <1>1, <1>4, FaultTyped, Document
    <2>3. step' \in Rewriting \cup {"restore"}
      BY <1>4
    <2>4. UNCHANGED <<fields, clock, acked, job, board, cuts>>
      BY Zenon, <1>1, <1>4
    <2> QED  BY Zenon, <1>1, <2>1, <2>2, <2>3, <2>4, SoundRewriting
  <1> QED  BY Zenon, <1>3, <1>4 DEF FinishRewrite

LEMMA SoundRestore == ASSUME Sound, Restore PROVE Sound'
  <1>1. /\ step \in Rewriting \cup {"decide", "restore"} /\ disk' = Restored /\ Answer(FALSE)
        /\ UNCHANGED <<fields, clock, board, cuts>> /\ faults' = faults
    BY DEF Restore
  <1>2. job.kind \in Saves
    BY Zenon, <1>1, RewriteShape
  <1>3. DiskFits(disk', clock) /\ DomainFilesSame
    BY Zenon, <1>1, <1>2, PathRestored
  <1>4. faults' \in 0 .. MaxFaults
    BY Zenon, <1>1, FaultTyped
  <1> QED  BY Zenon, <1>1, <1>3, <1>4, JobOk, SoundAnswer

(* The boot: what it reads, and the jobs it starts.                                *)
LEMMA FileRead ==
    ASSUME Sound, NEW f \in DOMAIN disk
    PROVE  /\ \A x \in Holds(f) : disk[f].value[x] \in 0 .. clock
           /\ Holds(f) = Items => disk[f].value \in [Items -> 0 .. clock]
  <1>1. DiskFits(disk, clock)
    BY Zenon, SoundParts
  <1>2. disk[f] \in Content(Holds(f), clock)
    BY Zenon, <1>1 DEF DiskFits
  <1>3. disk[f].value \in [Holds(f) -> 0 .. clock] /\ \A d \in Holds(f) : disk[f].value[d] \in 0 .. clock
    BY Zenon, <1>2, ContentParts
  <1> QED  BY Zenon, <1>3
LEMMA ReadTyped == ASSUME Sound PROVE [x \in Items |-> Read(x)] \in [Items -> 0 .. clock]
  <1>1. clock \in Nat
    BY Zenon, SoundParts
  <1>2. ASSUME NEW x \in Items PROVE Read(x) \in 0 .. clock
    <2>1. CASE Whole(FileOf(x))
      <3>1. Read(x) = disk[FileOf(x)].value[x] /\ FileOf(x) \in DOMAIN disk
        BY Zenon, <2>1 DEF Read, Whole, Exists
      <3>2. x \in Holds(FileOf(x))
        BY Names
      <3> QED  BY Zenon, <3>1, <3>2, FileRead
    <2>2. CASE ~Whole(FileOf(x))
      <3>1. Read(x) = 0
        BY Zenon, <2>2 DEF Read
      <3> QED  BY <1>1, <3>1
    <2> QED  BY Zenon, <2>1, <2>2
  <1> QED  BY Zenon, <1>2
Source == Candidates[First(HealSources)]
LEMMA HealSource ==
    ASSUME Sound, HealSources # {}
    PROVE  /\ disk[Source].value \in [Items -> 0 .. clock]
           /\ 1 \in HealSources => Source = Legacy
  <1> DEFINE f == Source
  <1>1. HealSources \in SUBSET Nat
    BY DEF HealSources, Candidates
  <1>2. First(HealSources) \in HealSources /\ \A m \in HealSources : First(HealSources) <= m
    BY Zenon, <1>1, FirstIn
  <1>3. First(HealSources) \in {1, 2} /\ f \in {Legacy, Bak}
    <2>1. DOMAIN Candidates = {1, 2} /\ Candidates[1] = Legacy /\ Candidates[2] = Bak
      BY DEF Candidates
    <2>2. First(HealSources) \in DOMAIN Candidates
      BY Zenon, <1>2 DEF HealSources
    <2> QED  BY <2>1, <2>2 DEF Source
  <1>4. Whole(f) /\ disk[f].value[Network] # 0
    BY Zenon, <1>2 DEF HealSources, Source
  <1>5. 1 \in HealSources => First(HealSources) = 1
    BY <1>2, <1>3
  <1>6. 1 \in HealSources => f = Legacy
    BY <1>5 DEF Candidates, Source
  <1> HIDE DEF f
  <1>7. Holds(f) = Items /\ Network \in Domains
    BY <1>3, Names
  <1>8. f \in DOMAIN disk
    BY Zenon, <1>4 DEF Whole, Exists
  <1>9. disk[f].value \in [Items -> 0 .. clock]
    BY Zenon, <1>7, <1>8, FileRead
  <1> QED  BY Zenon, <1>6, <1>9 DEF f
(* What a heal leaves alone, but for the connections of network.json.              *)
HealsTo(h, read, source) ==
    /\ h[Network] = source[Network]
    /\ \A x \in Items : x # Network /\ x # Links => h[x] = read[x]
LEMMA HealedFacts ==
    ASSUME NEW n, NEW read \in [Items -> 0 .. n], NEW source \in [Items -> 0 .. n],
           NEW h \in Healed(read, source)
    PROVE  h \in [Items -> 0 .. n] /\ HealsTo(h, read, source)
  <1>1. PICK links \in {read[Links]} \cup ({source[Links]} \ {0}) :
            h = [read EXCEPT ![Network] = source[Network], ![Links] = links]
    BY DEF Healed
  <1>2. Network \in Items /\ Links \in Items /\ Network # Links
    BY Names
  <1>3. links \in 0 .. n /\ source[Network] \in 0 .. n
    BY <1>1, <1>2
  <1> QED  BY <1>1, <1>2, <1>3 DEF HealsTo
ToHeal == [NoJob EXCEPT !.kind = "heal", !.todo = {Network}]
ToMigrate == [NoJob EXCEPT !.kind = "migrate", !.todo = Domains]
ToRepair(s) == [Call("repair", Domains, s) EXCEPT !.asked = Defaults]
LEMMA BootJobs ==
    ASSUME NEW n \in Nat
    PROVE  /\ ToHeal \in Jobs(n) /\ ToHeal.kind = "heal" /\ ToHeal.todo = {Network}
           /\ ToMigrate \in Jobs(n) /\ ToMigrate.kind = "migrate" /\ ToMigrate.todo = Domains
  <1>1. NoJob \in Jobs(n)
    BY NoJobTyped
  <1>2. ToHeal \in Jobs(n) /\ ToHeal.kind = "heal" /\ ToHeal.todo = {Network}
    BY <1>1, Names DEF Jobs, ToHeal
  <1>3. ToMigrate \in Jobs(n) /\ ToMigrate.kind = "migrate" /\ ToMigrate.todo = Domains
    BY <1>1 DEF Jobs, ToMigrate
  <1> QED  BY Zenon, <1>2, <1>3
LEMMA RepairJob ==
    ASSUME NEW n \in Nat, fields \in [Items -> 0 .. n], NEW s \in Seq({Legacy, Bak}), s # <<>>
    PROVE  /\ ToRepair(s) \in Jobs(n) /\ ToRepair(s).kind = "repair"
           /\ ToRepair(s).files = s /\ ToRepair(s).todo \subseteq Domains
  <1> DEFINE j == Call("repair", Domains, s)
  <1>1. "repair" \in Kinds /\ Domains \in DomainSets
    BY DEF Kinds, DomainSets
  <1>2. j \in Jobs(n) /\ Called(j, "repair", Domains, s)
    BY Zenon, <1>1, CallFacts
  <1>3. Defaults \in [Items -> 0 .. n]
    BY NoJobTyped
  <1>4. ToRepair(s) = [j EXCEPT !.asked = Defaults]
    BY Zenon DEF ToRepair
  <1> HIDE DEF j
  <1>5. /\ ToRepair(s) \in Jobs(n) /\ ToRepair(s).kind = j.kind
        /\ ToRepair(s).files = j.files /\ ToRepair(s).todo = j.todo
    BY <1>2, <1>3, <1>4 DEF Jobs
  <1> QED  BY Zenon, <1>2, <1>5 DEF Called

LEMMA SoundStart ==
    ASSUME Sound, UNCHANGED <<disk, text, clock, acked, board, cuts, faults>>,
           fields' \in [Items -> 0 .. clock], job' \in Jobs(clock),
           \/ step' = "idle" /\ job' = NoJob
           \/ /\ step' = IF job'.todo # {} THEN "write" ELSE "decide"
              /\ job'.todo \subseteq Domains
              /\ \/ job'.kind = "save" /\ job'.files = <<Legacy>>
                 \/ job'.kind = "repair" /\ job'.files # <<>>
                 \/ job'.kind = "heal" /\ job'.todo # {}
                 \/ job'.kind = "migrate" /\ job'.todo # {} /\ Exists(Legacy)
    PROVE  Sound'
  <1>1. /\ StorageTypeOK /\ NeverTorn /\ DiskFits(disk, clock) /\ TypedText /\ TypedFields
        /\ TypedRest
    BY Zenon, SoundParts
  <1>2. DiskFits(disk', clock) /\ TypedText' /\ NeverTorn'
    BY Zenon, <1>1, StillWhole DEF TypedText
  <1>3. acked' \in [Items -> 0 .. clock] /\ clock' = clock /\ board' = board /\ cuts' = cuts
    BY <1>1 DEF TypedFields
  <1>4. faults' \in 0 .. MaxFaults
    BY <1>1 DEF TypedRest
  <1>5. CASE step' = "idle" /\ job' = NoJob
    <2>1. StorageTypeOK' /\ JobShape' /\ TextFits'
      BY Zenon, <1>1, <1>2, <1>3, <1>4, <1>5, Settled
    <2> QED  BY Zenon, <1>2, <2>1 DEF Sound
  <1>6. CASE ~(step' = "idle" /\ job' = NoJob)
    <2>1. Bak \notin job'.todo /\ job'.todo \subseteq Domains
      BY <1>6, Names
    <2>2. /\ step' = IF job'.todo # {} THEN "write" ELSE "decide"
          /\ \/ job'.kind = "save" /\ job'.files = <<Legacy>>
             \/ job'.kind = "repair" /\ job'.files # <<>>
             \/ job'.kind = "heal" /\ job'.todo # {}
             \/ job'.kind = "migrate" /\ job'.todo # {} /\ Exists(Legacy)
      BY Zenon, <1>6
    <2>3. step' \in {"write", "decide", "idle"} /\ (step' = "idle" => job' = NoJob)
      BY <2>2
    <2>4. step' = "write" => /\ job'.todo # {}
                             /\ job'.todo = {Bak} \/ job'.todo \subseteq Domains
      BY <2>1, <2>2
    <2>5. step' = "decide" => job'.todo = {} /\ job'.kind \in {"save", "repair"}
      BY <2>2
    <2>6. <<Legacy>> # <<>> /\ disk' = disk
      OBVIOUS
    <2>7. step' # "idle" =>
               /\ job'.kind # "none"
               /\ job'.kind \in {"save", "repair"} => job'.files # <<>> /\ job'.todo \subseteq Domains
               /\ job'.kind = "save" => job'.files = <<Legacy>>
               /\ job'.kind \in {"migrate", "backup"} => Legacy \in DOMAIN disk'
               /\ Bak \in job'.todo => job'.kind = "backup"
      BY <2>1, <2>2, <2>6 DEF Exists
    <2>8. StorageTypeOK' /\ JobShape' /\ TextFits'
      BY Zenon, <1>1, <1>2, <1>3, <1>4, <2>3, <2>4, <2>5, <2>7, Settled
    <2> QED  BY Zenon, <1>2, <2>8 DEF Sound
  <1> QED  BY Zenon, <1>5, <1>6

LEMMA RepairFiles ==
    ASSUME NEW f \in {Legacy, Bak}
    PROVE  /\ <<Legacy, f>> \in Seq({Legacy, Bak}) /\ <<Legacy, f>> # <<>>
           /\ <<f>> \in Seq({Legacy, Bak}) /\ <<f>> # <<>>
  OBVIOUS
LEMMA SoundPowerOn == ASSUME Sound, PowerOn PROVE Sound'
  <1>1. UNCHANGED <<disk, text, clock, acked, board, cuts, faults>> /\ step = "off"
    BY Zenon DEF PowerOn
  <1>2. clock \in Nat /\ DiskFits(disk, clock)
    BY Zenon, SoundParts
  <1>3. NoJob \in Jobs(clock) /\ Defaults \in [Items -> 0 .. clock]
    BY <1>2, NoJobTyped
  <1>4. ASSUME fields' \in [Items -> 0 .. clock], Finished PROVE Sound'
    <2>1. step' = "idle" /\ job' = NoJob /\ job' \in Jobs(clock)
      BY Zenon, <1>3, <1>4 DEF Finished
    <2> QED  BY Zenon, <1>1, <1>4, <2>1, SoundStart
  <1>5. CASE LoadModular
    <2> DEFINE read == [x \in Items |-> Read(x)]
    <2>1. read \in [Items -> 0 .. clock]
      BY Zenon, ReadTyped
    <2>2. \/ fields' = read /\ Finished
          \/ /\ HealSources # {}
             /\ fields' \in Healed(read, disk[Source].value)
             /\ Run(ToHeal)
      BY Zenon, <1>5 DEF LoadModular, ToHeal, Source
    <2>3. CASE fields' = read /\ Finished
      BY Zenon, <1>4, <2>1, <2>3
    <2> HIDE DEF read
    <2>4. CASE /\ HealSources # {}
               /\ fields' \in Healed(read, disk[Source].value)
               /\ Run(ToHeal)
      <3>1. disk[Source].value \in [Items -> 0 .. clock]
        BY Zenon, <2>4, HealSource
      <3>2. fields' \in [Items -> 0 .. clock]
        BY Zenon, <2>1, <2>4, <3>1, HealedFacts
      <3>3. ToHeal \in Jobs(clock) /\ ToHeal.kind = "heal" /\ ToHeal.todo = {Network}
        BY Zenon, <1>2, BootJobs
      <3>4. job' = ToHeal /\ step' = IF job'.todo # {} THEN "write" ELSE "decide"
        BY Zenon, <2>4 DEF Run
      <3>5. job' \in Jobs(clock) /\ job'.kind = "heal" /\ job'.todo # {} /\ job'.todo \subseteq Domains
        BY <3>3, <3>4, Names
      <3> QED  BY Zenon, <1>1, <3>2, <3>4, <3>5, SoundStart
    <2> QED  BY Zenon, <2>2, <2>3, <2>4
  <1>6. CASE Migrate
    <2>1. fields' = disk[Legacy].value /\ Exists(Legacy) /\ Legacy \in DOMAIN disk
      BY Zenon, <1>6 DEF Migrate, Whole, Exists
    <2>2. fields' \in [Items -> 0 .. clock]
      BY Zenon, <2>1, Names, FileRead
    <2>3. ToMigrate \in Jobs(clock) /\ ToMigrate.kind = "migrate" /\ ToMigrate.todo = Domains
      BY Zenon, <1>2, BootJobs
    <2>4. job' = ToMigrate /\ step' = IF job'.todo # {} THEN "write" ELSE "decide"
      BY Zenon, <1>6 DEF Migrate, Run, ToMigrate
    <2>5. /\ job' \in Jobs(clock) /\ job'.kind = "migrate" /\ job'.todo # {}
          /\ job'.todo \subseteq Domains
      BY <2>3, <2>4, Names
    <2> QED  BY Zenon, <1>1, <2>1, <2>2, <2>4, <2>5, SoundStart
  <1>7. CASE LoadBackup
    <2>1. fields' = disk[Bak].value /\ Bak \in DOMAIN disk /\ Finished
      BY Zenon, <1>7 DEF LoadBackup, Whole, Exists
    <2>2. fields' \in [Items -> 0 .. clock]
      BY Zenon, <2>1, Names, FileRead
    <2> QED  BY Zenon, <1>4, <2>1, <2>2
  <1>8. CASE LoadDefaults
    <2>1. fields' = Defaults /\ Finished
      BY Zenon, <1>8 DEF LoadDefaults
    <2> QED  BY Zenon, <1>3, <1>4, <2>1
  <1>9. ASSUME NEW f \in {Legacy, Bak}, LoadRepaired(f) PROVE Sound'
    <2>1. PICK kept \in SUBSET Items, resave \in BOOLEAN :
            /\ fields' = [x \in Items |-> IF x \in kept THEN disk[f].value[x] ELSE 0]
            /\ Run([Call("repair", Domains, IF resave THEN <<Legacy, f>> ELSE <<f>>)
                    EXCEPT !.asked = Defaults])
      BY Zenon, <1>9 DEF LoadRepaired
    <2> DEFINE s == IF resave THEN <<Legacy, f>> ELSE <<f>>
    <2>2. s \in Seq({Legacy, Bak}) /\ s # <<>>
      BY Zenon, RepairFiles
    <2>3. Run(ToRepair(s))
      BY Zenon, <2>1 DEF ToRepair
    <2> HIDE DEF s
    <2>4. f \in DOMAIN disk /\ Holds(f) = Items
      <3>1. f \in DOMAIN disk
        BY Zenon, <1>9 DEF LoadRepaired, Exists
      <3> QED  BY <3>1, Names
    <2>5. \A x \in Items : disk[f].value[x] \in 0 .. clock
      <3>1. disk[f].value \in [Items -> 0 .. clock]
        BY Zenon, <2>4, FileRead
      <3> QED  BY Zenon, <3>1
    <2>6. 0 \in 0 .. clock
      BY <1>2
    <2>7. fields' \in [Items -> 0 .. clock]
      BY Zenon, <2>1, <2>5, <2>6
    <2>8. TypedFields /\ fields \in [Items -> 0 .. clock]
      BY Zenon, SoundParts DEF TypedFields
    <2>9. /\ ToRepair(s) \in Jobs(clock) /\ ToRepair(s).kind = "repair"
          /\ ToRepair(s).files = s /\ ToRepair(s).todo \subseteq Domains
      BY Zenon, <1>2, <2>2, <2>8, RepairJob
    <2>10. job' = ToRepair(s) /\ step' = IF job'.todo # {} THEN "write" ELSE "decide"
      BY Zenon, <2>3 DEF Run
    <2>11. /\ job' \in Jobs(clock) /\ job'.kind = "repair" /\ job'.files # <<>>
           /\ job'.todo \subseteq Domains
      BY Zenon, <2>2, <2>9, <2>10
    <2> QED  BY Zenon, <1>1, <2>7, <2>10, <2>11, SoundStart
  <1> QED  BY Zenon, <1>5, <1>6, <1>7, <1>8, <1>9 DEF PowerOn

(* Callers and the environment.                                                    *)
LEMMA SoundSave == ASSUME Sound, NEW mask \in Masks, Save(mask) PROVE Sound'
  <1>1. /\ UNCHANGED <<disk, text, clock, acked, board, cuts, faults>> /\ fields' = fields
        /\ Run(Call("save", mask, <<Legacy>>))
    BY Zenon DEF Save
  <1>2. TypedFields /\ fields' \in [Items -> 0 .. clock] /\ fields \in [Items -> 0 .. clock]
    BY Zenon, <1>1, SoundParts DEF TypedFields
  <1> DEFINE s == <<Legacy>>
             j == Call("save", mask, s)
  <1>3. /\ "save" \in Kinds /\ mask \in DomainSets /\ mask \subseteq Domains
        /\ s \in Seq({Legacy, Bak}) /\ s # <<>>
    BY StorageAssumption DEF Kinds, DomainSets
  <1>4. job' = j /\ step' = IF job'.todo # {} THEN "write" ELSE "decide"
    BY Zenon, <1>1 DEF Run
  <1>5. s = <<Legacy>>
    OBVIOUS
  <1> HIDE DEF s
  <1>6. j \in Jobs(clock) /\ Called(j, "save", mask, s)
    BY Zenon, <1>2, <1>3, CallFacts
  <1> HIDE DEF j
  <1>7. /\ job' \in Jobs(clock) /\ job'.kind = "save" /\ job'.files = <<Legacy>>
        /\ job'.todo \subseteq Domains
    BY Zenon, <1>3, <1>4, <1>5, <1>6 DEF Called
  <1> QED  BY Zenon, <1>1, <1>2, <1>4, <1>7, SoundStart

LEMMA SoundOff ==
    ASSUME Sound, SwitchOff, UNCHANGED <<disk, clock, acked, board, faults>>,
           cuts' \in 0 .. MaxCuts
    PROVE  Sound'
  <1>1. /\ DiskFits(disk, clock) /\ NeverTorn /\ TypedFields /\ TypedRest /\ clock \in Nat
    BY Zenon, SoundParts
  <1>2. /\ step' = "off" /\ job' = NoJob /\ text' = NoText /\ fields' = Defaults
        /\ disk' = disk /\ clock' = clock /\ acked' = acked /\ board' = board /\ faults' = faults
    BY DEF SwitchOff
  <1>3. NoJob \in Jobs(clock) /\ Defaults \in [Items -> 0 .. clock]
    BY <1>1, NoJobTyped
  <1>4. DiskFits(disk', clock') /\ job' \in Jobs(clock')
    BY Zenon, <1>1, <1>2, <1>3
  <1>5. TypedText'
    BY Zenon, <1>1, <1>2, NoTextTyped DEF TypedText
  <1>6. TypedFields'
    BY Zenon, <1>1, <1>2, <1>3 DEF TypedFields
  <1>7. TypedRest'
    BY Zenon, <1>1, <1>2 DEF TypedRest
  <1>8. TypedStep'
    BY <1>2 DEF TypedStep
  <1>9. StorageTypeOK'
    BY Zenon, <1>4, <1>5, <1>6, <1>7, <1>8, StorageTypePartsNext
  <1>10. JobShape'
    <2>1. job'.kind = "none" /\ job'.todo = {}
      BY <1>2 DEF NoJob
    <2> QED  BY <1>2, <2>1 DEF JobShape, Writing, Rewriting
  <1>11. TextFits'
    BY <1>2 DEF TextFits, Rewriting
  <1>12. NeverTorn'
    BY Zenon, <1>1, <1>2, StillWhole
  <1> QED  BY Zenon, <1>9, <1>10, <1>11, <1>12 DEF Sound
LEMMA SoundRestart == ASSUME Sound, Restart PROVE Sound'
  <1>1. SwitchOff /\ UNCHANGED <<disk, clock, acked, board, faults>> /\ cuts' = cuts
    BY Zenon DEF Restart
  <1>2. cuts' \in 0 .. MaxCuts
    BY Zenon, <1>1, SoundParts DEF TypedRest
  <1> QED  BY Zenon, <1>1, <1>2, SoundOff
LEMMA SoundPowerLoss == ASSUME Sound, PowerLoss PROVE Sound'
  <1>1. SwitchOff /\ UNCHANGED <<disk, clock, acked, board, faults>>
    BY Zenon DEF PowerLoss
  <1>2. cuts' \in 0 .. MaxCuts
    <2>1. cuts \in 0 .. MaxCuts
      BY Zenon, SoundParts DEF TypedRest
    <2>2. cuts < MaxCuts /\ cuts' = cuts + 1
      BY DEF PowerLoss
    <2> QED  BY <2>1, <2>2, StorageAssumption
  <1> QED  BY Zenon, <1>1, <1>2, SoundOff

LEMMA SoundChange == ASSUME Sound, NEW x \in Items, Change(x) PROVE Sound'
  <1>1. /\ clock < LastVersion /\ clock' = clock + 1
        /\ fields' = [fields EXCEPT ![x] = clock + 1]
        /\ disk' = disk /\ text' = text /\ acked' = acked /\ step' = step /\ job' = job
        /\ board' = board /\ cuts' = cuts /\ faults' = faults
    BY DEF Change
  <1>2. /\ DiskFits(disk, clock) /\ NeverTorn /\ TypedFields /\ TypedRest /\ TypedText /\ TypedStep
        /\ clock \in Nat /\ job \in Jobs(clock) /\ JobShape /\ TextFits
    BY Zenon, SoundParts
  <1>3. clock' \in Nat /\ clock <= clock' /\ clock' \in 0 .. LastVersion
    BY <1>1, <1>2, StorageAssumption DEF TypedRest
  <1>4. \A D : \A c \in Content(D, clock) : c \in Content(D, clock')
    BY Zenon, <1>2, <1>3, ContentGrows
  <1>5. DiskFits(disk', clock')
    BY Zenon, <1>1, <1>2, <1>4 DEF DiskFits
  <1>6. TypedText'
    BY Zenon, <1>1, <1>2, <1>4 DEF TypedText
  <1>7. 0 .. clock \subseteq 0 .. clock' /\ clock + 1 \in 0 .. clock'
    BY <1>1, <1>2
  <1>8. \A v \in [Items -> 0 .. clock] : v \in [Items -> 0 .. clock']
    BY <1>7
  <1>9. TypedFields'
    <2>1. acked' \in [Items -> 0 .. clock'] /\ fields \in [Items -> 0 .. clock']
      BY Zenon, <1>1, <1>2, <1>8 DEF TypedFields
    <2>2. fields' \in [Items -> 0 .. clock']
      BY <1>1, <1>7, <2>1
    <2> QED  BY Zenon, <2>1, <2>2 DEF TypedFields
  <1>10. TypedRest'
    BY Zenon, <1>1, <1>2, <1>3 DEF TypedRest
  <1>11. TypedStep'
    BY Zenon, <1>1, <1>2 DEF TypedStep
  <1>12. job' \in Jobs(clock')
    <2>1. job.asked \in [Items -> 0 .. clock']
      BY Zenon, <1>2, <1>8, JobParts
    <2>2. /\ job.kind \in Kinds /\ job.todo \in SUBSET (Domains \cup {Bak}) /\ job.ok \in BOOLEAN
          /\ job.files \in Seq({Legacy, Bak}) /\ job.mask \in SUBSET Domains
          /\ job = [kind |-> job.kind, todo |-> job.todo, ok |-> job.ok, files |-> job.files,
                    mask |-> job.mask, asked |-> job.asked]
      BY Zenon, <1>2, JobParts
    <2>3. [kind |-> job.kind, todo |-> job.todo, ok |-> job.ok, files |-> job.files,
           mask |-> job.mask, asked |-> job.asked] \in Jobs(clock')
      BY Zenon, <2>1, <2>2, JobMade
    <2> QED  BY Zenon, <1>1, <2>2, <2>3
  <1>13. StorageTypeOK'
    BY Zenon, <1>5, <1>6, <1>9, <1>10, <1>11, <1>12, StorageTypePartsNext
  <1>14. JobShape'
    BY Zenon, <1>1, <1>2 DEF JobShape, Exists
  <1>15. Target' = Target
    BY Zenon, <1>1, SamePlace
  <1>16. TextFits'
    BY Zenon, <1>1, <1>2, <1>4, <1>15 DEF TextFits
  <1>17. NeverTorn'
    BY Zenon, <1>1, <1>2, StillWhole
  <1> QED  BY Zenon, <1>13, <1>14, <1>16, <1>17 DEF Sound

LEMMA SoundInit == ASSUME StorageInit PROVE Sound
  <1>1. /\ board \in Boards /\ clock = (IF board.seeded THEN 1 ELSE 0)
        /\ disk = [f \in IF board.seeded THEN {Legacy} ELSE {} |->
                      [whole |-> TRUE, value |-> [x \in Items |-> 1]]]
        /\ acked = [x \in Items |-> clock]
        /\ fields = Defaults /\ text = NoText /\ step = "off" /\ job = NoJob
        /\ cuts = 0 /\ faults = 0
    BY DEF StorageInit
  <1>2. clock \in {0, 1} /\ clock \in Nat /\ (board.seeded => clock = 1)
    BY <1>1
  <1>3. /\ NoJob \in Jobs(clock) /\ Defaults \in [Items -> 0 .. clock]
    BY <1>2, NoJobTyped
  <1>4. DiskFits(disk, clock)
    <2> DEFINE v == [x \in Items |-> 1]
    <2>1. CASE board.seeded
      <3>1. v \in [Items -> 0 .. clock]
        BY <1>2, <2>1
      <3>2. disk = [f \in {Legacy} |-> [whole |-> TRUE, value |-> v]]
        BY Zenon, <1>1, <2>1
      <3> HIDE DEF v
      <3>3. [whole |-> TRUE, value |-> v] \in Content(Items, clock)
        BY Zenon, <3>1, ContentMade
      <3>4. DOMAIN disk = {Legacy} /\ disk[Legacy] = [whole |-> TRUE, value |-> v]
        BY <3>2
      <3> QED  BY <3>3, <3>4, Names DEF DiskFits
    <2>2. CASE ~board.seeded
      <3>1. DOMAIN disk = {}
        BY <1>1, <2>2
      <3> QED  BY <3>1 DEF DiskFits
    <2> QED  BY Zenon, <2>1, <2>2
  <1>5. TypedText
    BY Zenon, <1>1, <1>2, NoTextTyped DEF TypedText
  <1>6. TypedFields
    BY <1>1, <1>2, <1>3 DEF TypedFields
  <1>7. TypedRest
    <2>1. clock \in 0 .. LastVersion /\ cuts \in 0 .. MaxCuts /\ faults \in 0 .. MaxFaults
      BY <1>1, <1>2, StorageAssumption
    <2> QED  BY Zenon, <1>1, <2>1 DEF TypedRest
  <1>8. TypedStep
    BY <1>1 DEF TypedStep
  <1>9. StorageTypeOK
    BY Zenon, <1>1, <1>3, <1>4, <1>5, <1>6, <1>7, <1>8, StorageTypeParts
  <1>10. job.kind = "none" /\ job.todo = {}
    BY <1>1 DEF NoJob
  <1>11. JobShape
    BY <1>1, <1>10 DEF JobShape, Writing, Rewriting
  <1>12. TextFits
    BY <1>1 DEF TextFits, Rewriting
  <1>13. NeverTorn
    <2>1. \A d \in Domains : d \notin DOMAIN disk
      BY <1>1, Names
    <2> QED  BY Zenon, <2>1 DEF NeverTorn, Exists
  <1> QED  BY Zenon, <1>9, <1>11, <1>12, <1>13 DEF Sound

LEMMA SoundStutter == ASSUME Sound, UNCHANGED storageVars PROVE Sound'
  <1>1. /\ disk' = disk /\ text' = text /\ fields' = fields /\ clock' = clock /\ acked' = acked
        /\ step' = step /\ job' = job /\ board' = board /\ cuts' = cuts /\ faults' = faults
    BY DEF storageVars
  <1>2. Target' = Target
    BY Zenon, <1>1, SamePlace
  <1>3. StorageTypeOK' /\ NeverTorn'
    BY Zenon, <1>1, SoundParts, StillWhole DEF StorageTypeOK
  <1>4. JobShape' /\ TextFits'
    BY Zenon, <1>1, <1>2, SoundParts DEF JobShape, TextFits, Exists
  <1> QED  BY Zenon, <1>3, <1>4 DEF Sound

LEMMA SoundStep == ASSUME Sound, [StorageNext]_storageVars PROVE Sound'
  BY Zenon, SoundPowerOn, SoundChange, SoundSave, SoundWriteTmp, SoundRemoveOld, SoundRename,
     SoundCopy, SoundDecide, SoundUnback, SoundRotate, SoundRewrite, SoundFinishRewrite,
     SoundRestore, SoundRestart, SoundPowerLoss, SoundStutter DEF StorageNext

(* Every file, field and job keeps its kind through faults and losses of power: no    *)
(* read of the boot finds a version that no caller ever gave a domain                 *)
(* (ConfigLoader.cpp:681-1014).                                                       *)
THEOREM StorageTypeCorrect == StorageSpec => []StorageTypeOK
  <1>1. StorageInit => Sound
    BY SoundInit
  <1>2. Sound /\ [StorageNext]_storageVars => Sound'
    BY SoundStep
  <1>3. Sound => StorageTypeOK
    BY DEF Sound
  <1> QED  BY <1>1, <1>2, <1>3, PTL DEF StorageSpec

(* Where renames work, writeStringAtomic() leaves the file of a domain whole or       *)
(* absent, whichever operation fails and wherever the power is lost, for any domains  *)
(* and any number of faults and losses (SdConfigStorage.cpp).                         *)
THEOREM FilesNeverTorn == StorageSpec => []NeverTorn
  <1>1. StorageInit => Sound
    BY SoundInit
  <1>2. Sound /\ [StorageNext]_storageVars => Sound'
    BY SoundStep
  <1>3. Sound => NeverTorn
    BY DEF Sound
  <1> QED  BY <1>1, <1>2, <1>3, PTL DEF StorageSpec

--------------------------------------------------------------------------------
(* Nothing has failed: the steps keep what was acknowledged.                       *)
LEMMA ClaimedIn ==
    /\ Claimed \subseteq Items /\ Network \in Claimed /\ Twice \subseteq Claimed
    /\ \A x \in Items : FileOf(x) \in Gate => x \in Claimed
    /\ Gate \subseteq Claimed
    /\ \A x \in Claimed : FileOf(x) \in Domains
  BY Names DEF Claimed, Twice
LEMMA StillCalm ==
    ASSUME Sound, Calm', board' = board, cuts' = cuts, Fault \/ faults' = faults
    PROVE  /\ faults' = faults /\ faults = 0 /\ ~Fault /\ Calm /\ Claimed' = Claimed
  <1>1. faults' = 0
    BY DEF Calm
  <1>2. ~Fault /\ faults' = faults /\ faults = 0
    BY Zenon, <1>1, FaultTyped
  <1>3. Calm
    BY Zenon, <1>2 DEF Calm
  <1> QED  BY Zenon, <1>2, <1>3 DEF Claimed
LEMMA Numbers ==
    ASSUME Sound, NEW x \in Items
    PROVE  /\ acked[x] \in Nat /\ fields[x] \in 0 .. clock /\ fields[x] \in Nat
           /\ job.asked[x] \in Nat /\ clock \in Nat
  <1>1. TypedFields /\ job \in Jobs(clock) /\ clock \in Nat
    BY Zenon, SoundParts
  <1>2. job.asked \in [Items -> 0 .. clock]
    BY Zenon, <1>1, JobParts
  <1> QED  BY <1>1, <1>2 DEF TypedFields
LEMMA KeptStays ==
    ASSUME NEW f, NEW x, Kept(f, x), f \in DOMAIN disk', disk'[f] = disk[f], acked' = acked
    PROVE  Kept(f, x)'
  BY Zenon DEF Kept, Whole, Exists
LEMMA LegacyStays ==
    ASSUME LegacyKept \/ step \in {"rewrite", "finish"}, step \notin {"rewrite", "finish"},
           Legacy \in DOMAIN disk', disk'[Legacy] = disk[Legacy], acked' = acked,
           Claimed' = Claimed
    PROVE  LegacyKept'
  <1>1. \A x \in Claimed : Kept(Legacy, x)
    BY Zenon DEF LegacyKept
  <1>2. \A x \in Claimed : Kept(Legacy, x)'
    BY Zenon, <1>1, KeptStays
  <1> QED  BY Zenon, <1>2 DEF LegacyKept

LEMMA KeptWithin ==
    ASSUME Sound, AllKept, Claimed' = Claimed, UNCHANGED <<fields, acked, job, board, cuts>>,
           step # "off", step' \notin {"off", "restore"},
           \A f \in Domains :
              f \in job.todo \/ (f \in DOMAIN disk => f \in DOMAIN disk' /\ disk'[f] = disk[f]),
           \A f \in Domains :
              ~board.copies /\ f \in DOMAIN disk' => f \in DOMAIN disk /\ disk'[f] = disk[f],
           TextKept', SecondCopyKept'
    PROVE  AllKept'
  <1>1. FieldsKept /\ FilesKept /\ AskedKept /\ NoRepair
    BY Zenon DEF AllKept
  <1>2. fields' = fields /\ acked' = acked /\ job' = job /\ board' = board
    OBVIOUS
  <1>3. FieldsKept'
    BY Zenon, <1>1, <1>2 DEF FieldsKept
  <1>4. FilesKept'
    <2>1. ASSUME NEW x \in Claimed PROVE FileOf(x) \in job.todo \/ Kept(FileOf(x), x)'
      <3>1. FileOf(x) \in job.todo \/ Kept(FileOf(x), x)
        BY Zenon, <1>1 DEF FilesKept
      <3>2. Kept(FileOf(x), x) => FileOf(x) \in DOMAIN disk
        BY Zenon DEF Kept, Whole, Exists
      <3> QED  BY Zenon, <1>2, <3>1, <3>2, KeptStays, ClaimedIn
    <2>2. ASSUME NEW x \in Claimed, ~board.copies, FileOf(x) \in DOMAIN disk' PROVE Kept(FileOf(x), x)'
      <3>1. FileOf(x) \in DOMAIN disk /\ disk'[FileOf(x)] = disk[FileOf(x)]
        BY Zenon, <2>2, ClaimedIn
      <3>2. Kept(FileOf(x), x)
        BY Zenon, <1>1, <2>2, <3>1 DEF FilesKept, Exists
      <3> QED  BY Zenon, <1>2, <2>2, <3>1, <3>2, KeptStays
    <2> QED  BY Zenon, <1>2, <2>1, <2>2 DEF FilesKept, Exists
  <1>5. AskedKept'
    <2>1. ASSUME job.kind = "save", NEW x \in Claimed, FileOf(x) \in job.mask
          PROVE  /\ job.asked[x] >= acked[x] /\ fields[x] >= job.asked[x]
                 /\ \/ FileOf(x) \in job.todo
                    \/ Whole(FileOf(x))' /\ disk'[FileOf(x)].value[x] >= job.asked[x]
      <3>1. /\ job.asked[x] >= acked[x] /\ fields[x] >= job.asked[x]
            /\ FileOf(x) \in job.todo \/ (Whole(FileOf(x)) /\ disk[FileOf(x)].value[x] >= job.asked[x])
        BY Zenon, <1>1, <2>1 DEF AskedKept
      <3>2. \/ FileOf(x) \in job.todo
            \/ Whole(FileOf(x)) => FileOf(x) \in DOMAIN disk' /\ disk'[FileOf(x)] = disk[FileOf(x)]
        BY Zenon, ClaimedIn DEF Whole, Exists
      <3> QED  BY Zenon, <3>1, <3>2 DEF Whole, Exists
    <2> QED  BY Zenon, <1>2, <2>1 DEF AskedKept
  <1>6. BootKept'
    BY Zenon DEF BootKept
  <1>7. NoRepair'
    BY Zenon, <1>1, <1>2 DEF NoRepair
  <1> QED  BY Zenon, <1>3, <1>4, <1>5, <1>6, <1>7 DEF AllKept

(* A domain's file is complete: it holds the text.                                 *)
LEMMA KeptPut ==
    ASSUME Sound, AllKept, Claimed' = Claimed, step \in {"rename", "copy"},
           NEW good \in BOOLEAN, Proceed(good), disk' = With(Target, text),
           UNCHANGED <<fields, clock, acked, board, cuts>>
    PROVE  AllKept'
  <1>1. FieldsKept /\ FilesKept /\ AskedKept /\ TextKept /\ SecondCopyKept /\ NoRepair
    BY Zenon DEF AllKept
  <1>2. fields' = fields /\ acked' = acked /\ board' = board /\ cuts' = cuts
    OBVIOUS
  <1>3. step \in Writing /\ job \in Jobs(clock) /\ JobShape
    BY SoundParts DEF Writing
  <1>4. /\ step' \in {"write", "decide", "idle"}
        /\ job'.kind \in {"save", "repair"} =>
              job'.kind = job.kind /\ job'.mask = job.mask /\ job'.asked = job.asked
        /\ \A d \in Domains : d \in job.todo /\ d # Target => d \in job'.todo
    BY Zenon, <1>3, ProceedFacts
  <1>5. text \in {text, Torn(text)}
    OBVIOUS
  <1>6. /\ DOMAIN disk' = DOMAIN disk \cup {Target} /\ disk'[Target] = text
        /\ \A g \in DOMAIN disk : g # Target => disk'[g] = disk[g]
        /\ Target \in Domains => text.whole
    BY Zenon, <1>5, PutFits
  <1>7. Target # Legacy
    BY Zenon, <1>3, TargetDue
  <1>8. \A g \in DOMAIN disk : g # Target => g \in DOMAIN disk' /\ disk'[g] = disk[g]
    BY <1>6
  <1>9. ASSUME NEW t \in Claimed, FileOf(t) = Target PROVE Kept(FileOf(t), t)'
    <2>1. text.whole /\ text.value[t] >= acked[t]
      BY Zenon, <1>1, <1>6, <1>9, ClaimedIn DEF TextKept
    <2>2. FileOf(t) \in DOMAIN disk' /\ disk'[FileOf(t)] = text
      BY <1>6, <1>9
    <2> QED  BY Zenon, <1>2, <2>1, <2>2 DEF Kept, Whole, Exists
  <1>10. FieldsKept'
    <2>1. step # "off"
      OBVIOUS
    <2> QED  BY Zenon, <1>1, <1>2, <2>1 DEF FieldsKept
  <1>11. FilesKept'
    <2>1. step # "off"
      OBVIOUS
    <2>2. ASSUME NEW x \in Claimed PROVE FileOf(x) \in job'.todo \/ Kept(FileOf(x), x)'
      <3>1. FileOf(x) \in job.todo \/ Kept(FileOf(x), x)
        BY Zenon, <1>1, <2>1 DEF FilesKept
      <3>2. Kept(FileOf(x), x) => FileOf(x) \in DOMAIN disk
        BY Zenon DEF Kept, Whole, Exists
      <3> QED  BY Zenon, <1>2, <1>4, <1>8, <1>9, <3>1, <3>2, KeptStays, ClaimedIn
    <2>3. ASSUME NEW x \in Claimed, ~board.copies, FileOf(x) \in DOMAIN disk' PROVE Kept(FileOf(x), x)'
      <3>1. FileOf(x) = Target \/ (FileOf(x) # Target /\ FileOf(x) \in DOMAIN disk)
        BY <1>6, <2>3
      <3>2. FileOf(x) \in DOMAIN disk => Kept(FileOf(x), x)
        BY Zenon, <1>1, <2>3 DEF FilesKept, Exists
      <3> QED  BY Zenon, <1>2, <1>8, <1>9, <3>1, <3>2, KeptStays
    <2> QED  BY Zenon, <1>2, <2>2, <2>3 DEF FilesKept, Exists
  <1>12. AskedKept'
    <2>1. ASSUME job'.kind = "save", NEW x \in Claimed, FileOf(x) \in job'.mask
          PROVE  /\ job'.asked[x] >= acked'[x] /\ fields'[x] >= job'.asked[x]
                 /\ \/ FileOf(x) \in job'.todo
                    \/ Whole(FileOf(x))' /\ disk'[FileOf(x)].value[x] >= job'.asked[x]
      <3>1. job.kind = "save" /\ job'.mask = job.mask /\ job'.asked = job.asked
        BY <1>4, <2>1
      <3>2. FileOf(x) \in Domains /\ x \in Claimed /\ FileOf(x) \in job.mask
        BY Zenon, <2>1, <3>1, ClaimedIn
      <3>3. /\ job.asked[x] >= acked[x] /\ fields[x] >= job.asked[x]
            /\ FileOf(x) \in job.todo \/ (Whole(FileOf(x)) /\ disk[FileOf(x)].value[x] >= job.asked[x])
        BY Zenon, <1>1, <3>1, <3>2 DEF AskedKept
      <3>4. CASE FileOf(x) = Target
        <4>1. text.value[x] >= job.asked[x] /\ text.whole
          BY Zenon, <1>1, <1>6, <3>1, <3>2, <3>4 DEF TextKept
        <4>2. FileOf(x) \in DOMAIN disk' /\ disk'[FileOf(x)] = text
          BY <1>6, <3>4
        <4> QED  BY Zenon, <1>2, <3>1, <3>3, <4>1, <4>2 DEF Whole, Exists
      <3>5. CASE FileOf(x) # Target
        <4>1. Whole(FileOf(x)) => FileOf(x) \in DOMAIN disk' /\ disk'[FileOf(x)] = disk[FileOf(x)]
          BY Zenon, <1>8, <3>5 DEF Whole, Exists
        <4> QED  BY Zenon, <1>2, <1>4, <3>1, <3>2, <3>3, <3>5, <4>1 DEF Whole, Exists
      <3> QED  BY Zenon, <3>4, <3>5
    <2> QED  BY Zenon, <2>1 DEF AskedKept
  <1>13. TextKept'
    BY <1>4 DEF TextKept, Rewriting
  <1>14. SecondCopyKept'
    <2>1. step \notin {"rewrite", "finish"}
      OBVIOUS
    <2>2. ASSUME LegacyKept PROVE LegacyKept'
      <3>1. Legacy \in DOMAIN disk
        BY Zenon, <2>2, ClaimedIn DEF LegacyKept, Kept, Whole, Exists
      <3>2. Legacy \in DOMAIN disk' /\ disk'[Legacy] = disk[Legacy]
        BY Zenon, <1>7, <1>8, <3>1
      <3> QED  BY Zenon, <1>2, <2>1, <2>2, <3>2, LegacyStays
    <2> QED  BY Zenon, <1>1, <1>2, <2>1, <2>2 DEF SecondCopyKept
  <1>15. BootKept'
    BY <1>4 DEF BootKept
  <1>16. NoRepair'
    BY <1>1, <1>4 DEF NoRepair
  <1> QED  BY Zenon, <1>10, <1>11, <1>12, <1>13, <1>14, <1>15, <1>16 DEF AllKept

(* A save is acknowledged.                                                         *)
LEMMA KeptAnswer ==
    ASSUME Sound, AllKept, Claimed' = Claimed, step \in Rewriting \cup {"decide"},
           Answer(TRUE), DomainFilesSame, UNCHANGED <<fields, clock, board, cuts>>,
           (\A x \in Claimed :
                acked'[x] = acked[x] \/ (FileOf(x) \in job.mask /\ acked'[x] = job.asked[x]))
               => SecondCopyKept'
    PROVE  AllKept'
  <1>1. FieldsKept /\ FilesKept /\ AskedKept /\ NoRepair
    BY Zenon DEF AllKept
  <1>2. step \in Rewriting \cup {"decide", "restore"} /\ step # "off"
    BY DEF Rewriting
  <1>3. StorageTypeOK /\ JobShape /\ job.kind \in Saves /\ job.todo = {}
    BY Zenon, <1>2, SoundParts, RewriteShape
  <1>4. job.kind = "save"
    BY <1>1, <1>3 DEF NoRepair, Saves
  <1>5. /\ step' = "idle" /\ job' = NoJob
        /\ \A x \in Items : acked'[x] = IF FileOf(x) \in job.mask THEN job.asked[x] ELSE acked[x]
    <2>1. TRUE \in BOOLEAN
      OBVIOUS
    <2>2. /\ step' = "idle" => job' = NoJob
          /\ job.kind = "save" => step' = "idle"
          /\ \A x \in Items :
                acked'[x] = IF TRUE /\ job.kind = "save" /\ FileOf(x) \in job.mask
                            THEN job.asked[x] ELSE acked[x]
      BY Zenon, <1>3, <2>1, AnswerFacts
    <2> QED  BY Zenon, <1>4, <2>2
  <1>6. job'.kind = "none" /\ job'.todo = {} /\ fields' = fields /\ board' = board
    BY <1>5 DEF NoJob
  <1>7. ASSUME NEW x \in Claimed
        PROVE  /\ acked'[x] >= 1 /\ fields[x] >= acked'[x] /\ Kept(FileOf(x), x)'
               /\ acked'[x] = acked[x] \/ (FileOf(x) \in job.mask /\ acked'[x] = job.asked[x])
    <2>1. x \in Items /\ FileOf(x) \in Domains
      BY ClaimedIn
    <2>2. acked[x] \in Nat /\ fields[x] \in Nat /\ job.asked[x] \in Nat
      BY Zenon, <2>1, Numbers
    <2>3. acked[x] >= 1 /\ fields[x] >= acked[x]
      BY Zenon, <1>1, <1>2 DEF FieldsKept
    <2>4. Kept(FileOf(x), x)
      BY Zenon, <1>1, <1>2, <1>3 DEF FilesKept
    <2>5. /\ FileOf(x) \in DOMAIN disk /\ disk[FileOf(x)].whole /\ disk[FileOf(x)].value[x] >= acked[x]
      BY Zenon, <2>4 DEF Kept, Whole, Exists
    <2>6. FileOf(x) \in DOMAIN disk' /\ disk'[FileOf(x)] = disk[FileOf(x)]
      BY Zenon, <2>1, <2>5 DEF DomainFilesSame
    <2>7. CASE FileOf(x) \in job.mask
      <3>1. acked'[x] = job.asked[x]
        BY Zenon, <1>5, <2>1, <2>7
      <3>2. /\ job.asked[x] >= acked[x] /\ fields[x] >= job.asked[x]
            /\ disk[FileOf(x)].value[x] >= job.asked[x]
        BY Zenon, <1>1, <1>3, <1>4, <2>7 DEF AskedKept
      <3>3. acked'[x] >= 1
        BY <2>2, <2>3, <3>1, <3>2
      <3> QED  BY Zenon, <2>5, <2>6, <2>7, <3>1, <3>2, <3>3 DEF Kept, Whole, Exists
    <2>8. CASE FileOf(x) \notin job.mask
      <3>1. acked'[x] = acked[x]
        BY Zenon, <1>5, <2>1, <2>8
      <3> QED  BY Zenon, <2>3, <2>5, <2>6, <2>8, <3>1 DEF Kept, Whole, Exists
    <2> QED  BY Zenon, <2>7, <2>8
  <1>8. FieldsKept'
    BY Zenon, <1>6, <1>7 DEF FieldsKept
  <1>9. FilesKept'
    BY Zenon, <1>7 DEF FilesKept
  <1>10. AskedKept'
    BY <1>6 DEF AskedKept
  <1>11. TextKept'
    BY <1>5 DEF TextKept, Rewriting
  <1>12. BootKept' /\ NoRepair'
    BY <1>5, <1>6 DEF BootKept, NoRepair
  <1>13. SecondCopyKept'
    BY Zenon, <1>7
  <1> QED  BY Zenon, <1>8, <1>9, <1>10, <1>11, <1>12, <1>13 DEF AllKept

LEMMA LegacyWhole == ASSUME LegacyKept PROVE Legacy \in DOMAIN disk /\ disk[Legacy].whole
  BY Zenon, ClaimedIn DEF LegacyKept, Kept, Whole, Exists
LEMMA SecondCopyStays ==
    ASSUME SecondCopyKept, cuts' = cuts, board' = board, acked' = acked, Claimed' = Claimed,
           step' \in {"rewrite", "finish"} \/
              (/\ step \notin {"rewrite", "finish"}
               /\ Legacy \in DOMAIN disk => Legacy \in DOMAIN disk' /\ disk'[Legacy] = disk[Legacy])
    PROVE  SecondCopyKept'
  <1>1. ASSUME LegacyKept, step \notin {"rewrite", "finish"},
               Legacy \in DOMAIN disk => Legacy \in DOMAIN disk' /\ disk'[Legacy] = disk[Legacy]
        PROVE  LegacyKept'
    BY Zenon, <1>1, LegacyWhole, LegacyStays
  <1> QED  BY Zenon, <1>1 DEF SecondCopyKept

LEMMA KeptWriteTmp == ASSUME Sound, AllKept, Calm', WriteTmp PROVE AllKept'
  <1>1. /\ step = "write" /\ step \in Writing /\ board' = board /\ cuts' = cuts /\ disk' = disk
        /\ UNCHANGED <<fields, clock, acked, board, cuts>> /\ (Fault \/ faults' = faults)
    BY DEF WriteTmp, Writing
  <1>2. faults' = faults /\ ~Fault /\ Claimed' = Claimed
    BY Zenon, <1>1, StillCalm
  <1>3. text' = Text(Target) /\ step' = "remove" /\ job' = job
    BY Zenon, <1>2 DEF WriteTmp
  <1>4. FieldsKept /\ AskedKept /\ SecondCopyKept
    BY Zenon DEF AllKept
  <1>5. Target' = Target
    BY Zenon, <1>3, SamePlace
  <1>6. TextKept'
    <2>1. ASSUME NEW x \in Claimed, FileOf(x) = Target
          PROVE  /\ text'.value[x] >= acked[x]
                 /\ job.kind = "save" /\ Target \in job.mask => text'.value[x] >= job.asked[x]
      <3>1. x \in Items /\ Target \in Domains
        BY Zenon, <2>1, ClaimedIn
      <3>2. text'.value[x] = fields[x]
        BY Zenon, <1>1, <1>3, <2>1, <3>1, TextOf
      <3>3. fields[x] >= acked[x]
        BY <1>1, <1>4, <2>1 DEF FieldsKept
      <3>4. job.kind = "save" /\ Target \in job.mask => fields[x] >= job.asked[x]
        BY Zenon, <1>4, <2>1 DEF AskedKept
      <3> QED  BY Zenon, <3>2, <3>3, <3>4
    <2>2. acked' = acked
      BY Zenon, <1>1
    <2>3. step' \notin Rewriting
      BY <1>3 DEF Rewriting
    <2> QED  BY Zenon, <1>2, <1>3, <1>5, <2>1, <2>2, <2>3 DEF TextKept
  <1>7. SecondCopyKept'
    <2>1. step \notin {"rewrite", "finish"}
      BY <1>1
    <2> QED  BY Zenon, <1>1, <1>2, <1>4, <2>1, SecondCopyStays
  <1>8. step # "off" /\ step' \notin {"off", "restore"}
    BY <1>1, <1>3
  <1>9. UNCHANGED <<fields, acked, job, board, cuts>>
    BY Zenon, <1>1, <1>3
  <1> QED  BY Zenon, <1>1, <1>2, <1>6, <1>7, <1>8, <1>9, KeptWithin

LEMMA KeptRemoveOld == ASSUME Sound, AllKept, Calm', RemoveOld PROVE AllKept'
  <1>1. /\ step \in Writing /\ step = "remove" /\ step' = "rename" /\ disk' = Without(Target)
        /\ UNCHANGED <<fields, clock, acked, job, board, cuts>> /\ text' = text /\ faults' = faults
        /\ board' = board /\ cuts' = cuts /\ acked' = acked /\ job' = job
    BY DEF RemoveOld, Writing
  <1>2. Claimed' = Claimed
    BY Zenon, <1>1, StillCalm
  <1>3. TextKept /\ SecondCopyKept
    BY Zenon DEF AllKept
  <1>4. JobShape /\ DiskFits(disk, clock)
    BY Zenon, SoundParts
  <1>5. Target \in job.todo /\ Target # Legacy
    BY Zenon, <1>1, <1>4, TargetDue
  <1>6. /\ DOMAIN disk' = DOMAIN disk \ {Target}
        /\ \A g \in DOMAIN disk : g # Target => disk'[g] = disk[g]
    BY Zenon, <1>1, <1>4, WithoutFits
  <1>7. Target' = Target
    BY Zenon, <1>1, SamePlace
  <1>8. TextKept'
    <2>1. \A x \in Claimed : FileOf(x) = Target =>
             /\ text.value[x] >= acked[x]
             /\ job.kind = "save" /\ Target \in job.mask => text.value[x] >= job.asked[x]
      BY <1>1, <1>3 DEF TextKept
    <2>2. step' \notin Rewriting
      BY <1>1 DEF Rewriting
    <2> QED  BY Zenon, <1>1, <1>2, <1>7, <2>1, <2>2 DEF TextKept
  <1>9. \A g : g # Target => (g \in DOMAIN disk' <=> g \in DOMAIN disk)
    BY <1>6
  <1>10. SecondCopyKept'
    <2>1. step \notin {"rewrite", "finish"}
      BY <1>1
    <2> QED  BY Zenon, <1>1, <1>2, <1>3, <1>5, <1>6, <1>9, <2>1, SecondCopyStays
  <1>11. step # "off" /\ step' \notin {"off", "restore"}
    BY <1>1
  <1>12. \A f \in Domains :
            f \in job.todo \/ (f \in DOMAIN disk => f \in DOMAIN disk' /\ disk'[f] = disk[f])
    BY Zenon, <1>5, <1>6, <1>9
  <1>13. \A f \in Domains : f \in DOMAIN disk' => f \in DOMAIN disk /\ disk'[f] = disk[f]
    BY <1>6
  <1> QED  BY Zenon, <1>1, <1>2, <1>8, <1>10, <1>11, <1>12, <1>13, KeptWithin

LEMMA KeptRename == ASSUME Sound, AllKept, Calm', Rename PROVE AllKept'
  <1>1. /\ step \in {"rename", "copy"} /\ step \in Writing /\ step = "rename"
        /\ UNCHANGED <<fields, clock, acked, board, cuts>> /\ board' = board /\ cuts' = cuts
        /\ acked' = acked /\ (Fault \/ faults' = faults)
    BY DEF Rename, Writing
  <1>2. Claimed' = Claimed /\ ~Fault /\ Calm
    BY Zenon, <1>1, StillCalm
  <1>3. TRUE \in BOOLEAN /\ Torn(text) \in {text, Torn(text)}
    OBVIOUS
  <1>4. CASE disk' = With(Target, text) /\ Proceed(TRUE)
    BY Zenon, <1>1, <1>2, <1>3, <1>4, KeptPut
  <1>5. CASE /\ board.copies /\ disk' = With(Target, Torn(text)) /\ step' = "copy"
             /\ UNCHANGED <<job, text, faults>>
    <2>1. TextKept /\ SecondCopyKept
      BY Zenon DEF AllKept
    <2>2. Target' = Target /\ job' = job /\ text' = text
      BY Zenon, <1>5, SamePlace
    <2>3. TextKept'
      <3>1. \A x \in Claimed : FileOf(x) = Target =>
               /\ text.value[x] >= acked[x]
               /\ job.kind = "save" /\ Target \in job.mask => text.value[x] >= job.asked[x]
        BY <1>1, <2>1 DEF TextKept
      <3>2. step' \notin Rewriting
        BY <1>5 DEF Rewriting
      <3> QED  BY Zenon, <1>1, <1>2, <1>5, <2>2, <3>1, <3>2 DEF TextKept
    <2>4. SecondCopyKept'
      BY Zenon, <1>1, <1>5 DEF SecondCopyKept
    <2>5. JobShape
      BY Zenon, SoundParts
    <2>6. Target \in job.todo
      BY Zenon, <1>1, <2>5, TargetDue
    <2>7. /\ DOMAIN disk' = DOMAIN disk \cup {Target}
          /\ \A g \in DOMAIN disk : g # Target => disk'[g] = disk[g]
      BY Zenon, <1>1, <1>3, <1>5, PutFits
    <2>8. \A f \in Domains :
            f \in job.todo \/ (f \in DOMAIN disk => f \in DOMAIN disk' /\ disk'[f] = disk[f])
      BY <2>6, <2>7
    <2>9. step # "off" /\ step' \notin {"off", "restore"}
      BY <1>1, <1>5
    <2>10. UNCHANGED <<fields, acked, job, board, cuts>>
      BY Zenon, <1>1, <1>5
    <2> QED  BY Zenon, <1>2, <1>5, <2>3, <2>4, <2>8, <2>9, <2>10, KeptWithin
  <1> QED  BY Zenon, <1>2, <1>4, <1>5 DEF Rename

LEMMA KeptCopy == ASSUME Sound, AllKept, Calm', Copy PROVE AllKept'
  <1>1. /\ step \in {"rename", "copy"} /\ Proceed(TRUE)
        /\ UNCHANGED <<fields, clock, acked, board, cuts>> /\ board' = board /\ cuts' = cuts
        /\ \/ disk' = With(Target, text) /\ faults' = faults
           \/ Fault
    BY DEF Copy
  <1>2. Claimed' = Claimed /\ ~Fault
    BY Zenon, <1>1, StillCalm
  <1>3. TRUE \in BOOLEAN
    OBVIOUS
  <1> QED  BY Zenon, <1>1, <1>2, <1>3, KeptPut

LEMMA KeptRewriting ==
    ASSUME Sound, AllKept, Claimed' = Claimed, UNCHANGED <<fields, acked, job, board, cuts>>,
           step \in Rewriting \cup {"decide"}, step' \in Rewriting, DomainFilesSame,
           TextKept', SecondCopyKept'
    PROVE  AllKept'
  <1>1. step # "off" /\ step' \notin {"off", "restore"}
    BY DEF Rewriting
  <1>2. /\ \A f \in Domains : f \in DOMAIN disk => f \in DOMAIN disk' /\ disk'[f] = disk[f]
        /\ \A f \in Domains : f \in DOMAIN disk' => f \in DOMAIN disk /\ disk'[f] = disk[f]
    BY Zenon DEF DomainFilesSame
  <1> QED  BY Zenon, <1>1, <1>2, KeptWithin
LEMMA DocumentStays ==
    ASSUME TextKept, Claimed' = Claimed, text' = text, acked' = acked, job' = job,
           step \in Rewriting, step' \in Rewriting
    PROVE  TextKept'
  <1>1. step' \notin {"remove", "rename", "copy"}
    BY DEF Rewriting
  <1>2. \A x \in Claimed : /\ text.value[x] >= acked[x]
                           /\ job.kind = "save" /\ FileOf(x) \in job.mask => text.value[x] >= job.asked[x]
    BY Zenon DEF TextKept
  <1> QED  BY Zenon, <1>1, <1>2 DEF TextKept
LEMMA SavePath ==
    ASSUME Sound, AllKept, step \in Rewriting \cup {"decide"}
    PROVE  /\ job.kind = "save" /\ job.kind \in Saves /\ job.todo = {}
           /\ Path = Legacy /\ Backup(Path) = Bak
  <1>1. step \in Rewriting \cup {"decide", "restore"}
    OBVIOUS
  <1>2. job.kind \in Saves /\ job.todo = {}
    BY Zenon, <1>1, RewriteShape
  <1>3. job.kind = "save"
    BY <1>2 DEF AllKept, NoRepair, Saves
  <1> QED  BY Zenon, <1>2, <1>3, PathFacts

LEMMA KeptDecide == ASSUME Sound, AllKept, Calm', Decide PROVE AllKept'
  <1>1. /\ step \in Rewriting \cup {"decide"} /\ step = "decide" /\ disk' = disk
        /\ UNCHANGED <<fields, clock, board, cuts>> /\ board' = board /\ cuts' = cuts
        /\ (Fault \/ faults' = faults)
    BY DEF Decide
  <1>2. Claimed' = Claimed /\ ~Fault /\ DomainFilesSame
    BY Zenon, <1>1, StillCalm, Undisturbed
  <1>3. CASE board.low /\ Answer(TRUE)
    <2>1. SecondCopyKept'
      BY Zenon, <1>1, <1>3 DEF SecondCopyKept
    <2> QED  BY Zenon, <1>1, <1>2, <1>3, <2>1, KeptAnswer
  <1>4. CASE text' = [whole |-> TRUE, value |-> fields] /\ step' = "unback" /\ UNCHANGED <<acked, job, faults>>
    <2>1. FieldsKept /\ AskedKept /\ SecondCopyKept
      BY Zenon DEF AllKept
    <2>2. text'.value = fields /\ acked' = acked /\ job' = job
      BY <1>4
    <2>3. TextKept'
      <3>1. ASSUME NEW x \in Claimed
            PROVE  /\ fields[x] >= acked[x]
                   /\ job.kind = "save" /\ FileOf(x) \in job.mask => fields[x] >= job.asked[x]
        <4>1. step # "off"
          BY <1>1
        <4> QED  BY Zenon, <2>1, <4>1 DEF FieldsKept, AskedKept
      <3>2. step' \notin {"remove", "rename", "copy"}
        BY <1>4
      <3> QED  BY Zenon, <1>2, <2>2, <3>1, <3>2 DEF TextKept
    <2>4. SecondCopyKept'
      <3>1. step \notin {"rewrite", "finish"}
        BY <1>1
      <3> QED  BY Zenon, <1>1, <1>2, <2>1, <2>2, <3>1, SecondCopyStays
    <2>5. step' \in Rewriting /\ UNCHANGED <<fields, acked, job, board, cuts>>
      BY <1>1, <1>4 DEF Rewriting
    <2> QED  BY Zenon, <1>1, <1>2, <2>3, <2>4, <2>5, KeptRewriting
  <1> QED  BY Zenon, <1>2, <1>3, <1>4 DEF Decide

LEMMA KeptUnback == ASSUME Sound, AllKept, Calm', Unback PROVE AllKept'
  <1>1. /\ step \in Rewriting \cup {"decide"} /\ step \in Rewriting /\ step = "unback"
        /\ step' \in Rewriting /\ disk' = Without(Backup(Path))
        /\ text' = text /\ faults' = faults /\ board' = board /\ cuts' = cuts /\ acked' = acked /\ job' = job
        /\ UNCHANGED <<fields, clock, acked, job, board, cuts>>
    BY DEF Unback, Rewriting
  <1>2. Claimed' = Claimed
    BY Zenon, <1>1, StillCalm
  <1>3. TextKept /\ SecondCopyKept /\ DiskFits(disk, clock)
    BY Zenon, SoundParts DEF AllKept
  <1>4. job.kind \in Saves /\ Path = Legacy /\ Backup(Path) = Bak
    BY Zenon, <1>1, SavePath
  <1>5. DomainFilesSame
    BY Zenon, <1>1, <1>4, Names, PathRemoved
  <1>6. Legacy \in DOMAIN disk => Legacy \in DOMAIN disk' /\ disk'[Legacy] = disk[Legacy]
    <2>1. /\ DOMAIN disk' = DOMAIN disk \ {Bak}
          /\ \A g \in DOMAIN disk : g # Bak => disk'[g] = disk[g]
      BY Zenon, <1>1, <1>3, <1>4, WithoutFits
    <2> QED  BY <2>1, Names
  <1>7. step \notin {"rewrite", "finish"}
    BY <1>1
  <1>8. TextKept' /\ SecondCopyKept'
    BY Zenon, <1>1, <1>2, <1>3, <1>6, <1>7, DocumentStays, SecondCopyStays
  <1> QED  BY Zenon, <1>1, <1>2, <1>5, <1>8, KeptRewriting

LEMMA KeptRotate == ASSUME Sound, AllKept, Calm', Rotate PROVE AllKept'
  <1>1. /\ step \in Rewriting \cup {"decide"} /\ step \in Rewriting
        /\ step' \in Rewriting /\ step' \in {"rewrite", "finish"}
        /\ disk' = disk \/ (Exists(Path) /\ disk' = Renamed(Path, Backup(Path)))
        /\ text' = text /\ (Fault \/ faults' = faults) /\ board' = board /\ cuts' = cuts
        /\ acked' = acked /\ job' = job
        /\ UNCHANGED <<fields, clock, acked, job, board, cuts>>
    BY DEF Rotate, Rewriting
  <1>2. Claimed' = Claimed
    BY Zenon, <1>1, StillCalm
  <1>3. TextKept /\ SecondCopyKept
    BY Zenon DEF AllKept
  <1>4. job.kind \in Saves
    BY Zenon, <1>1, SavePath
  <1>5. DomainFilesSame
    BY Zenon, <1>1, <1>4, PathRenamed, Undisturbed DEF Exists
  <1>6. TextKept' /\ SecondCopyKept'
    BY Zenon, <1>1, <1>2, <1>3, DocumentStays, SecondCopyStays
  <1> QED  BY Zenon, <1>1, <1>2, <1>5, <1>6, KeptRewriting

LEMMA KeptRewrite == ASSUME Sound, AllKept, Calm', Rewrite PROVE AllKept'
  <1>1. /\ step \in Rewriting \cup {"decide"} /\ step \in Rewriting
        /\ UNCHANGED <<fields, clock, board, cuts>> /\ board' = board /\ cuts' = cuts
        /\ (Fault \/ faults' = faults)
    BY DEF Rewrite, Rewriting
  <1>2. Claimed' = Claimed /\ ~Fault
    BY Zenon, <1>1, StillCalm
  <1>3. disk' = With(Path, Torn(text)) /\ step' = "finish" /\ UNCHANGED <<text, acked, job, faults>>
    BY Zenon, <1>2 DEF Rewrite
  <1>4. /\ step' \in Rewriting /\ step' \in {"rewrite", "finish"} /\ text' = text
        /\ acked' = acked /\ job' = job /\ UNCHANGED <<fields, acked, job, board, cuts>>
    BY <1>1, <1>3 DEF Rewriting
  <1>5. TextKept /\ SecondCopyKept /\ Torn(text) \in {text, Torn(text)}
    BY DEF AllKept
  <1>6. DomainFilesSame
    BY Zenon, <1>1, <1>3, <1>5, PathPut
  <1>7. TextKept' /\ SecondCopyKept'
    BY Zenon, <1>1, <1>2, <1>4, <1>5, DocumentStays, SecondCopyStays
  <1> QED  BY Zenon, <1>1, <1>2, <1>4, <1>6, <1>7, KeptRewriting

LEMMA KeptFinishRewrite == ASSUME Sound, AllKept, Calm', FinishRewrite PROVE AllKept'
  <1>1. /\ step \in Rewriting \cup {"decide"} /\ step \in Rewriting
        /\ UNCHANGED <<fields, clock, board, cuts>> /\ board' = board /\ cuts' = cuts
        /\ (Fault \/ faults' = faults)
    BY DEF FinishRewrite, Rewriting
  <1>2. Claimed' = Claimed /\ ~Fault
    BY Zenon, <1>1, StillCalm
  <1>3. disk' = With(Path, text) /\ Answer(TRUE)
    BY Zenon, <1>2 DEF FinishRewrite
  <1>4. text \in {text, Torn(text)}
    OBVIOUS
  <1>5. job.kind = "save" /\ Path = Legacy
    BY Zenon, <1>1, SavePath
  <1>6. DomainFilesSame /\ disk'[Legacy] = text /\ Legacy \in DOMAIN disk'
    BY Zenon, <1>1, <1>3, <1>4, <1>5, PathPut
  <1>7. TextKept /\ text.whole
    BY Zenon, <1>1, Document DEF AllKept
  <1>8. ASSUME \A x \in Claimed :
                  acked'[x] = acked[x] \/ (FileOf(x) \in job.mask /\ acked'[x] = job.asked[x])
        PROVE  SecondCopyKept'
    <2>1. ASSUME NEW x \in Claimed PROVE Kept(Legacy, x)'
      <3>1. /\ text.value[x] >= acked[x]
            /\ FileOf(x) \in job.mask => text.value[x] >= job.asked[x]
        BY Zenon, <1>1, <1>5, <1>7 DEF TextKept
      <3>2. acked'[x] = acked[x] \/ (FileOf(x) \in job.mask /\ acked'[x] = job.asked[x])
        BY Zenon, <1>8
      <3>3. text.value[x] >= acked'[x]
        BY Zenon, <3>1, <3>2
      <3> QED  BY Zenon, <1>6, <1>7, <3>3 DEF Kept, Whole, Exists
    <2> QED  BY Zenon, <1>2, <2>1 DEF SecondCopyKept, LegacyKept
  <1> QED  BY Zenon, <1>1, <1>2, <1>3, <1>6, <1>8, KeptAnswer

LEMMA KeptRestore == ASSUME AllKept, Restore PROVE FALSE
  BY DEF AllKept, NoRepair, Restore

(* The boot finds what was kept.                                                   *)
LEMMA KeptStart ==
    ASSUME Sound, AllKept, Claimed' = Claimed, step = "off",
           disk' = disk, acked' = acked, board' = board, cuts' = cuts,
           step' \in {"idle", "write", "decide"}, job'.kind \notin {"save", "repair"},
           \A x \in Claimed : fields'[x] >= acked[x] /\ (FileOf(x) \in job'.todo \/ Kept(FileOf(x), x))
    PROVE  AllKept'
  <1>1. FieldsKept /\ FilesKept /\ SecondCopyKept
    BY Zenon DEF AllKept
  <1>2. \A f, x : Kept(f, x) => Kept(f, x)'
    BY Zenon DEF Kept, Whole, Exists
  <1>3. FieldsKept'
    BY Zenon, <1>1 DEF FieldsKept
  <1>4. FilesKept'
    BY Zenon, <1>1, <1>2 DEF FilesKept, Exists
  <1>5. SecondCopyKept'
    <2>1. step \notin {"rewrite", "finish"}
      OBVIOUS
    <2> QED  BY Zenon, <1>1, <2>1, SecondCopyStays
  <1>6. step' \notin {"off", "restore", "remove", "rename", "copy"} /\ step' \notin Rewriting
        /\ step' # "off" /\ step' # "restore" /\ job'.kind # "save" /\ job'.kind # "repair"
    BY DEF Rewriting
  <1>7. AskedKept' /\ BootKept' /\ NoRepair'
    BY Zenon, <1>6 DEF AskedKept, BootKept, NoRepair
  <1>8. TextKept'
    BY <1>6 DEF TextKept
  <1> QED  BY Zenon, <1>3, <1>4, <1>5, <1>7, <1>8 DEF AllKept

GateKept == \A x \in Items : FileOf(x) \in Gate => Kept(FileOf(x), x)
LEMMA FoundSomewhere ==
    ASSUME Sound, Calm, AllKept, step = "off"
    PROVE  /\ \A x \in Claimed : acked[x] \in Nat /\ acked[x] >= 1
           /\ \/ HasModular /\ \A x \in Claimed : Kept(FileOf(x), x)
              \/ LegacyKept /\ (HasModular => GateKept)
           /\ HasModular => (Exists(Network) => Kept(Network, Network))
  <1>1. FieldsKept /\ FilesKept /\ BootKept
    BY Zenon DEF AllKept
  <1>2. \A x \in Claimed : acked[x] \in Nat /\ acked[x] >= 1
    BY Zenon, <1>1, ClaimedIn, Numbers DEF FieldsKept
  <1>3. CASE \A x \in Claimed : Kept(FileOf(x), x)
    <2>1. HasModular
      <3>1. \A d \in Gate : d \in Claimed /\ FileOf(d) = d
        BY Names, ClaimedIn
      <3>2. \A d \in Gate : Exists(d)
        BY Zenon, <1>3, <3>1 DEF Kept, Whole
      <3> QED  BY Zenon, <3>2 DEF HasModular
    <2>2. FileOf(Network) = Network
      BY Names
    <2>3. HasModular => (Exists(Network) => Kept(Network, Network))
      BY Zenon, <1>3, <2>2, ClaimedIn
    <2> QED  BY Zenon, <1>2, <1>3, <2>1, <2>3
  <1>4. CASE LegacyKept /\ (cuts = 0 => \A d \in Domains : ~Exists(d))
    <2>1. ASSUME HasModular PROVE ~board.copies
      <3>1. PICK g \in Gate : TRUE
        BY Names
      <3>2. Exists(g) /\ g \in Domains
        BY Zenon, <2>1, <3>1, Names DEF HasModular
      <3>3. cuts # 0
        BY Zenon, <1>4, <3>2
      <3> QED  BY Zenon, <3>3 DEF Calm
    <2>2. ASSUME HasModular, NEW x \in Claimed, Exists(FileOf(x)) PROVE Kept(FileOf(x), x)
      BY Zenon, <1>1, <2>1, <2>2 DEF FilesKept
    <2>3. HasModular => GateKept
      BY Zenon, <2>2, ClaimedIn DEF HasModular, GateKept
    <2>4. FileOf(Network) = Network
      BY Names
    <2> QED  BY Zenon, <1>2, <1>4, <2>2, <2>3, <2>4, ClaimedIn
  <1> QED  BY Zenon, <1>1, <1>3, <1>4 DEF BootKept

LEMMA ReadKept ==
    ASSUME NEW x, Kept(FileOf(x), x)
    PROVE  Read(x) >= acked[x] /\ Read(x) = disk[FileOf(x)].value[x] /\ Whole(FileOf(x))
  BY Zenon DEF Kept, Read

LEMMA KeptPowerOn == ASSUME Sound, Calm, AllKept, PowerOn, Claimed' = Claimed PROVE AllKept'
  <1>1. /\ disk' = disk /\ acked' = acked /\ board' = board /\ cuts' = cuts /\ step = "off"
    BY DEF PowerOn
  <1>2. /\ \A x \in Claimed : acked[x] \in Nat /\ acked[x] >= 1
        /\ \/ HasModular /\ \A x \in Claimed : Kept(FileOf(x), x)
           \/ LegacyKept /\ (HasModular => GateKept)
        /\ HasModular => (Exists(Network) => Kept(Network, Network))
    BY Zenon, <1>1, FoundSomewhere
  <1>3. /\ Network \in Claimed /\ Network \in Items /\ Claimed \subseteq Items
        /\ FileOf(Network) = Network /\ FileOf(Links) = Network /\ Network # Links
        /\ \A x \in Claimed : FileOf(x) \in Domains
    BY Zenon, ClaimedIn, Names DEF FileOf
  <1>4. ASSUME ~HasModular PROVE LegacyKept /\ Whole(Legacy)
    BY Zenon, <1>2, <1>3, <1>4 DEF LegacyKept, Kept
  <1>5. CASE LoadModular
    <2> DEFINE read == [x \in Items |-> Read(x)]
    <2>1. HasModular
      BY Zenon, <1>5 DEF LoadModular
    <2>2. \A x \in Items : read[x] = Read(x)
      OBVIOUS
    <2>3. \/ /\ fields' = read /\ Finished
             /\ read[Network] # 0 \/ HealSources = {}
          \/ /\ HealSources # {} /\ read[Network] = 0
             /\ fields' \in Healed(read, disk[Source].value)
             /\ Run(ToHeal)
      BY Zenon, <1>5 DEF LoadModular, ToHeal, Source
    <2>4. read \in [Items -> 0 .. clock]
      BY Zenon, ReadTyped
    <2> HIDE DEF read
    <2>5. ASSUME LegacyKept PROVE 1 \in HealSources
      <3>1. Kept(Legacy, Network)
        BY Zenon, <1>3, <2>5 DEF LegacyKept
      <3>2. Whole(Legacy) /\ disk[Legacy].value[Network] >= acked[Network] /\ Legacy \in DOMAIN disk
        BY Zenon, <3>1 DEF Kept, Whole, Exists
      <3>3. disk[Legacy].value \in [Items -> 0 .. clock]
        BY Zenon, <3>2, Names, FileRead
      <3>4. disk[Legacy].value[Network] \in 0 .. clock /\ acked[Network] \in Nat /\ acked[Network] >= 1
        BY Zenon, <1>2, <1>3, <3>3
      <3>5. disk[Legacy].value[Network] # 0
        BY <3>2, <3>4
      <3>6. DOMAIN Candidates = {1, 2} /\ Candidates[1] = Legacy
        BY DEF Candidates
      <3>7. 1 \in DOMAIN Candidates
        BY <3>6
      <3> QED  BY Zenon, <3>2, <3>5, <3>6, <3>7 DEF HealSources
    <2>6. Kept(Network, Network) => Read(Network) # 0
      <3>1. ASSUME Kept(Network, Network) PROVE Read(Network) # 0
        <4>1. Read(Network) >= acked[Network]
          BY Zenon, <1>3, <3>1, ReadKept
        <4>2. acked[Network] \in Nat /\ acked[Network] >= 1
          BY Zenon, <1>2, <1>3
        <4>3. ~(0 >= acked[Network])
          BY <4>2
        <4> QED  BY Zenon, <4>1, <4>3
      <3> QED  BY <3>1
    <2>7. CASE /\ fields' = read /\ Finished
               /\ read[Network] # 0 \/ HealSources = {}
      <3>1. \A x \in Claimed : Kept(FileOf(x), x)
        <4>1. CASE HasModular /\ \A x \in Claimed : Kept(FileOf(x), x)
          BY Zenon, <4>1
        <4>2. CASE LegacyKept /\ (HasModular => GateKept)
          <5>1. HealSources # {}
            BY <2>5, <4>2
          <5>2. Read(Network) # 0
            BY Zenon, <1>3, <2>2, <2>7, <5>1
          <5>3. Exists(Network)
            BY Zenon, <1>3, <5>2 DEF Read, Whole
          <5>4. Kept(Network, Network)
            BY Zenon, <1>2, <2>1, <5>3
          <5>5. GateKept
            BY Zenon, <2>1, <4>2
          <5>6. ASSUME cuts = 0, NEW x \in Items PROVE Kept(FileOf(x), x)
            <6>1. BootKept /\ ~(\A g \in Domains : ~Exists(g))
              <7>1. PICK g \in Gate : TRUE
                BY Names
              <7>2. Exists(g) /\ g \in Domains
                BY Zenon, <2>1, <7>1, Names DEF HasModular
              <7> QED  BY Zenon, <7>2 DEF AllKept
            <6>2. \A g \in Claimed : Kept(FileOf(g), g)
              BY Zenon, <1>1, <5>6, <6>1 DEF BootKept
            <6>3. Claimed = Items
              BY Zenon, <5>6 DEF Claimed
            <6> QED  BY Zenon, <6>2, <6>3
          <5>7. ASSUME NEW x \in Claimed, cuts # 0 PROVE Kept(FileOf(x), x)
            <6>1. x = Network \/ (x \in Items /\ FileOf(x) \in Gate)
              BY <5>7 DEF Claimed, Twice
            <6> QED  BY Zenon, <1>3, <5>4, <5>5, <6>1 DEF GateKept
          <5> QED  BY Zenon, <1>3, <5>6, <5>7
        <4> QED  BY Zenon, <1>2, <4>1, <4>2
      <3>2. \A x \in Claimed : fields'[x] >= acked[x]
        BY Zenon, <1>3, <2>2, <2>7, <3>1, ReadKept
      <3>3. step' = "idle" /\ job' = NoJob
        BY Zenon, <2>7 DEF Finished
      <3>4. step' \in {"idle", "write", "decide"} /\ job'.kind \notin {"save", "repair"}
        BY <3>3 DEF NoJob
      <3> QED  BY Zenon, <1>1, <3>1, <3>2, <3>4, KeptStart
    <2>8. CASE /\ HealSources # {} /\ read[Network] = 0
               /\ fields' \in Healed(read, disk[Source].value)
               /\ Run(ToHeal)
      <3>1. ~Kept(Network, Network)
        BY Zenon, <1>3, <2>2, <2>6, <2>8
      <3>2. LegacyKept /\ GateKept
        BY Zenon, <1>2, <1>3, <2>1, <3>1
      <3>3. cuts # 0
        <4>1. ASSUME cuts = 0 PROVE FALSE
          <5>1. PICK g \in Gate : TRUE
            BY Names
          <5>2. Exists(g) /\ g \in Domains
            BY Zenon, <2>1, <5>1, Names DEF HasModular
          <5> QED  BY Zenon, <1>1, <1>3, <3>1, <4>1, <5>2 DEF AllKept, BootKept
        <4> QED  BY <4>1
      <3>4. Source = Legacy
        <4>1. 1 \in HealSources
          BY <2>5, <3>2
        <4> QED  BY Zenon, <2>8, <4>1, HealSource
      <3>5. /\ fields'[Network] = disk[Legacy].value[Network]
            /\ \A x \in Items : x # Network /\ x # Links => fields'[x] = Read(x)
        <4>1. disk[Source].value \in [Items -> 0 .. clock]
          BY Zenon, <2>8, HealSource
        <4>2. HealsTo(fields', read, disk[Source].value)
          BY Zenon, <2>4, <2>8, <4>1, HealedFacts
        <4> QED  BY Zenon, <2>2, <3>4, <4>2 DEF HealsTo
      <3>6. Kept(Legacy, Network)
        BY Zenon, <1>3, <3>2 DEF LegacyKept
      <3>7. clock \in Nat
        BY Zenon, SoundParts
      <3>8. ToHeal.kind = "heal" /\ ToHeal.todo = {Network}
        BY Zenon, <3>7, BootJobs
      <3>9. job' = ToHeal /\ step' = IF job'.todo # {} THEN "write" ELSE "decide"
        BY Zenon, <2>8 DEF Run
      <3>10. step' \in {"idle", "write", "decide"} /\ job'.kind \notin {"save", "repair"}
        BY <3>8, <3>9
      <3>11. \A x \in Claimed : x # Network => FileOf(x) \in Gate /\ x \in Items /\ x # Links
        <4>1. Network \notin Gate
          BY Zenon, <1>3, <3>1, <3>2 DEF GateKept
        <4>2. \A x \in Claimed : x # Network => FileOf(x) \in Gate /\ x \in Items
          BY <1>3, <3>3 DEF Claimed, Twice
        <4> QED  BY Zenon, <1>3, <4>1, <4>2
      <3>12. ASSUME NEW x \in Claimed
             PROVE  fields'[x] >= acked[x] /\ (FileOf(x) \in job'.todo \/ Kept(FileOf(x), x))
        <4>1. CASE x = Network
          <5>1. fields'[x] >= acked[x]
            BY Zenon, <3>5, <3>6, <4>1 DEF Kept
          <5>2. FileOf(x) \in job'.todo
            BY <1>3, <3>8, <3>9, <4>1
          <5> QED  BY <5>1, <5>2
        <4>2. CASE x # Network
          BY Zenon, <3>2, <3>5, <3>11, <4>2, ReadKept DEF GateKept
        <4> QED  BY Zenon, <4>1, <4>2
      <3> QED  BY Zenon, <1>1, <3>10, <3>12, KeptStart
    <2> QED  BY Zenon, <2>3, <2>7, <2>8
  <1>6. CASE Migrate
    <2>1. fields' = disk[Legacy].value /\ ~HasModular /\ Run(ToMigrate)
      BY Zenon, <1>6 DEF Migrate, ToMigrate
    <2>2. \A x \in Claimed : fields'[x] >= acked[x]
      BY Zenon, <1>4, <2>1 DEF LegacyKept, Kept
    <2>3. clock \in Nat
      BY Zenon, SoundParts
    <2>4. ToMigrate.kind = "migrate" /\ ToMigrate.todo = Domains
      BY Zenon, <2>3, BootJobs
    <2>5. job' = ToMigrate /\ step' = IF job'.todo # {} THEN "write" ELSE "decide"
      BY Zenon, <2>1 DEF Run
    <2>6. step' \in {"idle", "write", "decide"} /\ job'.kind \notin {"save", "repair"}
          /\ \A x \in Claimed : FileOf(x) \in job'.todo
      BY <1>3, <2>4, <2>5
    <2> QED  BY Zenon, <1>1, <2>2, <2>6, KeptStart
  <1>7. CASE LoadBackup \/ LoadDefaults \/ \E f \in {Legacy, Bak} : LoadRepaired(f)
    <2>1. ~HasModular /\ ~Whole(Legacy)
      BY Zenon, <1>7 DEF LoadBackup, LoadDefaults, LoadRepaired
    <2> QED  BY Zenon, <1>4, <2>1
  <1> QED  BY Zenon, <1>5, <1>6, <1>7 DEF PowerOn

(* Callers, a restart and the power loss.                                          *)
LEMMA KeptSave ==
    ASSUME Sound, AllKept, NEW mask \in Masks, Save(mask), Claimed' = Claimed
    PROVE  AllKept'
  <1>1. /\ step = "idle" /\ Run(Call("save", mask, <<Legacy>>)) /\ disk' = disk
        /\ fields' = fields /\ acked' = acked /\ board' = board /\ cuts' = cuts
    BY Zenon DEF Save
  <1> DEFINE s == <<Legacy>>
             j == Call("save", mask, s)
  <1>2. /\ "save" \in Kinds /\ mask \in DomainSets /\ mask \subseteq Domains
        /\ s \in Seq({Legacy, Bak}) /\ s # <<>> /\ Head(s) = Legacy
    BY StorageAssumption DEF Kinds, DomainSets
  <1>3. job' = j /\ step' = IF job'.todo # {} THEN "write" ELSE "decide"
    BY Zenon, <1>1 DEF Run
  <1> HIDE DEF s
  <1>4. fields \in [Items -> 0 .. clock] /\ JobShape
    BY Zenon, SoundParts DEF TypedFields
  <1>5. Called(j, "save", mask, s)
    BY Zenon, <1>2, <1>4, CallFacts
  <1> HIDE DEF j
  <1>6. job'.kind = "save" /\ job'.mask = mask /\ job'.asked = fields /\ job'.todo = mask
    BY Zenon, <1>2, <1>3, <1>5 DEF Called
  <1>7. step' \in {"write", "decide"}
    BY <1>3
  <1>8. job.todo = {}
    BY <1>1, <1>4 DEF JobShape, NoJob
  <1>9. FieldsKept /\ FilesKept /\ SecondCopyKept
    BY Zenon DEF AllKept
  <1>10. step # "off" /\ step \notin {"rewrite", "finish"}
    BY <1>1
  <1>11. \A f, x : Kept(f, x) => Kept(f, x)'
    BY Zenon, <1>1 DEF Kept, Whole, Exists
  <1>12. \A x \in Claimed : Kept(FileOf(x), x)
    BY Zenon, <1>8, <1>9, <1>10 DEF FilesKept
  <1>13. FieldsKept'
    BY Zenon, <1>1, <1>9, <1>10 DEF FieldsKept
  <1>14. FilesKept'
    BY Zenon, <1>11, <1>12 DEF FilesKept
  <1>15. AskedKept'
    <2>1. ASSUME NEW x \in Claimed PROVE fields[x] >= acked[x] /\ fields[x] >= fields[x]
      <3>1. fields[x] >= acked[x]
        BY Zenon, <1>9, <1>10 DEF FieldsKept
      <3>2. fields[x] \in Nat
        BY Zenon, ClaimedIn, Numbers
      <3> QED  BY <3>1, <3>2
    <2> QED  BY Zenon, <1>1, <1>6, <2>1 DEF AskedKept
  <1>16. TextKept'
    BY <1>7 DEF TextKept, Rewriting
  <1>17. SecondCopyKept'
    BY Zenon, <1>1, <1>9, <1>10, SecondCopyStays
  <1>18. BootKept' /\ NoRepair'
    BY <1>6, <1>7 DEF BootKept, NoRepair
  <1> QED  BY Zenon, <1>13, <1>14, <1>15, <1>16, <1>17, <1>18 DEF AllKept

LEMMA KeptChange ==
    ASSUME Sound, AllKept, NEW x \in Items, Change(x), Claimed' = Claimed
    PROVE  AllKept'
  <1>1. /\ fields' = [fields EXCEPT ![x] = clock + 1]
        /\ disk' = disk /\ text' = text /\ acked' = acked /\ step' = step /\ job' = job
        /\ board' = board /\ cuts' = cuts
    BY DEF Change
  <1>2. FieldsKept /\ FilesKept /\ AskedKept /\ TextKept /\ SecondCopyKept /\ BootKept /\ NoRepair
    BY Zenon DEF AllKept
  <1>3. Target' = Target
    BY Zenon, <1>1, SamePlace
  <1>4. \A f, g : Kept(f, g) => Kept(f, g)'
    BY Zenon, <1>1 DEF Kept, Whole, Exists
  <1>5. ASSUME NEW g \in Claimed
        PROVE  /\ fields[g] >= acked[g] => fields'[g] >= acked[g]
               /\ fields[g] >= job.asked[g] => fields'[g] >= job.asked[g]
    <2>1. g \in Items
      BY ClaimedIn
    <2>2. /\ acked[g] \in Nat /\ fields[g] \in 0 .. clock /\ job.asked[g] \in Nat
          /\ clock \in Nat
      BY Zenon, <2>1, Numbers
    <2>3. TypedFields
      BY Zenon, SoundParts
    <2>4. fields \in [Items -> 0 .. clock]
      BY Zenon, <2>3 DEF TypedFields
    <2>5. fields'[g] = IF g = x THEN clock + 1 ELSE fields[g]
      BY <1>1, <2>1, <2>4
    <2> QED  BY <2>2, <2>5
  <1>6. FieldsKept'
    BY Zenon, <1>1, <1>2, <1>5 DEF FieldsKept
  <1>7. FilesKept'
    BY Zenon, <1>1, <1>2, <1>4 DEF FilesKept, Exists
  <1>8. AskedKept'
    <2>1. ASSUME job.kind = "save", NEW g \in Claimed, FileOf(g) \in job.mask
          PROVE  /\ job.asked[g] >= acked[g] /\ fields'[g] >= job.asked[g]
                 /\ \/ FileOf(g) \in job.todo
                    \/ Whole(FileOf(g)) /\ disk[FileOf(g)].value[g] >= job.asked[g]
      BY Zenon, <1>2, <1>5, <2>1 DEF AskedKept
    <2> QED  BY Zenon, <1>1, <2>1 DEF AskedKept, Whole, Exists
  <1>9. TextKept'
    BY Zenon, <1>1, <1>2, <1>3 DEF TextKept
  <1>10. SecondCopyKept' /\ BootKept' /\ NoRepair'
    BY Zenon, <1>1, <1>2, <1>4 DEF SecondCopyKept, BootKept, NoRepair, LegacyKept, Exists
  <1> QED  BY Zenon, <1>6, <1>7, <1>8, <1>9, <1>10 DEF AllKept

LEMMA KeptOff ==
    ASSUME Sound, AllKept, SwitchOff, UNCHANGED <<disk, acked, board>>, step # "off",
           Claimed' \subseteq Claimed, SecondCopyKept', BootKept'
    PROVE  AllKept'
  <1>1. /\ step' = "off" /\ job' = NoJob /\ disk' = disk /\ acked' = acked /\ board' = board
    BY DEF SwitchOff
  <1>2. FieldsKept /\ FilesKept
    BY Zenon DEF AllKept
  <1>3. \A f, g : Kept(f, g) => Kept(f, g)'
    BY Zenon, <1>1 DEF Kept, Whole, Exists
  <1>4. FieldsKept'
    BY Zenon, <1>1, <1>2 DEF FieldsKept
  <1>5. FilesKept'
    BY Zenon, <1>1, <1>2, <1>3 DEF FilesKept, Exists
  <1>6. job'.kind = "none"
    BY <1>1 DEF NoJob
  <1>7. AskedKept' /\ NoRepair'
    BY <1>1, <1>6 DEF AskedKept, NoRepair
  <1>8. TextKept'
    BY <1>1 DEF TextKept, Rewriting
  <1> QED  BY Zenon, <1>4, <1>5, <1>7, <1>8 DEF AllKept
LEMMA KeptRestart == ASSUME Sound, AllKept, Restart, Claimed' = Claimed PROVE AllKept'
  <1>1. /\ step = "idle" /\ SwitchOff /\ UNCHANGED <<disk, acked, board>> /\ disk' = disk
        /\ cuts' = cuts /\ board' = board /\ acked' = acked /\ step # "off"
        /\ step \notin {"rewrite", "finish"}
    BY DEF Restart
  <1>2. JobShape /\ FilesKept /\ SecondCopyKept
    BY Zenon, SoundParts DEF AllKept
  <1>3. job.todo = {}
    BY <1>1, <1>2 DEF JobShape, NoJob
  <1>4. \A x \in Claimed : Kept(FileOf(x), x)
    BY Zenon, <1>1, <1>2, <1>3 DEF FilesKept
  <1>5. \A f, g : Kept(f, g) => Kept(f, g)'
    BY Zenon, <1>1 DEF Kept, Whole, Exists
  <1>6. SecondCopyKept' /\ BootKept'
    BY Zenon, <1>1, <1>2, <1>4, <1>5, SecondCopyStays DEF BootKept
  <1> QED  BY Zenon, <1>1, <1>6, KeptOff
LEMMA KeptPowerLoss == ASSUME Sound, Calm => AllKept, PowerLoss, Calm' PROVE AllKept'
  <1>1. /\ SwitchOff /\ UNCHANGED <<disk, acked, board>> /\ disk' = disk /\ faults' = faults
        /\ board' = board /\ acked' = acked /\ step # "off" /\ step # "idle"
        /\ cuts' = cuts + 1
    BY DEF PowerLoss
  <1>2. cuts \in Nat
    <2>1. cuts \in 0 .. MaxCuts
      BY Zenon, SoundParts DEF TypedRest
    <2> QED  BY <2>1, StorageAssumption
  <1>3. cuts' # 0
    BY <1>1, <1>2
  <1>4. cuts' = 1 /\ ~board.copies /\ ~board.low /\ board.seeded /\ faults = 0
    BY Zenon, <1>1, <1>3 DEF Calm
  <1>5. cuts = 0
    BY <1>1, <1>2, <1>4
  <1>6. Calm /\ AllKept
    BY Zenon, <1>4, <1>5 DEF Calm
  <1>7. Claimed = Items /\ Claimed' = Twice /\ Claimed' \subseteq Claimed
    BY <1>3, <1>5, Names DEF Claimed, Twice
  <1>8. \A f, g : Kept(f, g) => Kept(f, g)'
    BY Zenon, <1>1 DEF Kept, Whole, Exists
  <1>9. SecondCopyKept /\ FilesKept /\ JobShape
    BY Zenon, <1>6, SoundParts DEF AllKept
  <1>10. SecondCopyKept'
    BY Zenon, <1>3 DEF SecondCopyKept
  <1>11. CASE LegacyKept
    <2>1. LegacyKept'
      BY Zenon, <1>7, <1>8, <1>11 DEF LegacyKept
    <2>2. BootKept'
      BY Zenon, <1>3, <2>1 DEF BootKept
    <2> QED  BY Zenon, <1>1, <1>6, <1>7, <1>10, <2>2, KeptOff
  <1>12. CASE step \in {"rewrite", "finish"}
    <2>1. job.todo = {}
      BY <1>9, <1>12 DEF JobShape, Rewriting
    <2>2. \A x \in Claimed : Kept(FileOf(x), x)
      BY Zenon, <1>1, <1>9, <2>1 DEF FilesKept
    <2>3. BootKept'
      BY Zenon, <1>7, <1>8, <2>2 DEF BootKept
    <2> QED  BY Zenon, <1>1, <1>6, <1>7, <1>10, <2>3, KeptOff
  <1> QED  BY Zenon, <1>4, <1>5, <1>9, <1>11, <1>12 DEF SecondCopyKept

LEMMA KeptStutter == ASSUME Sound, Calm => AllKept, UNCHANGED storageVars, Calm' PROVE AllKept'
  <1>1. /\ disk' = disk /\ text' = text /\ fields' = fields /\ acked' = acked
        /\ step' = step /\ job' = job /\ board' = board /\ cuts' = cuts /\ faults' = faults
    BY DEF storageVars
  <1>2. Target' = Target
    BY Zenon, <1>1, SamePlace
  <1>3. AllKept
    BY Zenon, <1>1 DEF Calm
  <1> QED  BY Zenon, <1>1, <1>2, <1>3 DEF AllKept, FieldsKept, FilesKept, AskedKept, TextKept,
              SecondCopyKept, BootKept, NoRepair, Claimed, LegacyKept, Kept, Whole, Exists

LEMMA KeptInit == ASSUME StorageInit, Calm PROVE AllKept
  <1>1. /\ board.seeded /\ clock = 1 /\ acked = [x \in Items |-> clock] /\ cuts = 0
        /\ disk = [f \in {Legacy} |-> [whole |-> TRUE, value |-> [x \in Items |-> 1]]]
        /\ step = "off" /\ job = NoJob
    BY DEF StorageInit, Calm
  <1>2. /\ DOMAIN disk = {Legacy} /\ disk[Legacy].whole
        /\ \A x \in Items : disk[Legacy].value[x] = 1 /\ acked[x] = 1
    BY <1>1
  <1>3. job.kind = "none" /\ job.todo = {}
    BY <1>1 DEF NoJob
  <1>4. \A d \in Domains : ~Exists(d)
    BY <1>2, Names DEF Exists
  <1>5. 1 >= 1
    OBVIOUS
  <1>6. Legacy \in DOMAIN disk
    BY <1>2
  <1>7. LegacyKept
    BY Zenon, <1>2, <1>5, <1>6, ClaimedIn DEF LegacyKept, Kept, Whole, Exists
  <1>8. FieldsKept
    BY Zenon, <1>1, <1>2, <1>5, ClaimedIn DEF FieldsKept
  <1>9. FilesKept
    BY Zenon, <1>1, <1>4, ClaimedIn DEF FilesKept
  <1>10. AskedKept /\ TextKept /\ NoRepair
    BY <1>1, <1>3 DEF AskedKept, TextKept, NoRepair, Rewriting
  <1>11. SecondCopyKept /\ BootKept
    BY Zenon, <1>4, <1>7 DEF SecondCopyKept, BootKept
  <1> QED  BY Zenon, <1>8, <1>9, <1>10, <1>11 DEF AllKept

LEMMA KeptStep ==
    ASSUME Sound, Calm => AllKept, [StorageNext]_storageVars, Calm' PROVE AllKept'
  <1>1. ASSUME board' = board, cuts' = cuts, Fault \/ faults' = faults
        PROVE  Calm /\ AllKept /\ Claimed' = Claimed
    BY Zenon, <1>1, StillCalm
  <1>2. CASE WriteTmp \/ RemoveOld \/ Rename \/ Copy
    <2>1. board' = board /\ cuts' = cuts /\ (Fault \/ faults' = faults)
      BY <1>2 DEF WriteTmp, RemoveOld, Rename, Copy
    <2> QED  BY Zenon, <1>1, <1>2, <2>1, KeptWriteTmp, KeptRemoveOld, KeptRename, KeptCopy
  <1>3. CASE Decide \/ Unback \/ Rotate \/ Rewrite \/ FinishRewrite \/ Restore
    <2>1. board' = board /\ cuts' = cuts /\ (Fault \/ faults' = faults)
      BY <1>3 DEF Decide, Unback, Rotate, Rewrite, FinishRewrite, Restore
    <2> QED  BY Zenon, <1>1, <1>3, <2>1, KeptDecide, KeptUnback, KeptRotate, KeptRewrite,
                KeptFinishRewrite, KeptRestore
  <1>4. CASE PowerOn \/ Restart
    <2>1. board' = board /\ cuts' = cuts /\ faults' = faults
      BY <1>4 DEF PowerOn, Restart
    <2> QED  BY Zenon, <1>1, <1>4, <2>1, KeptPowerOn, KeptRestart
  <1>5. ASSUME NEW x \in Items, Change(x) PROVE AllKept'
    <2>1. board' = board /\ cuts' = cuts /\ faults' = faults
      BY <1>5 DEF Change
    <2> QED  BY Zenon, <1>1, <1>5, <2>1, KeptChange
  <1>6. ASSUME NEW mask \in Masks, Save(mask) PROVE AllKept'
    <2>1. board' = board /\ cuts' = cuts /\ faults' = faults
      BY <1>6 DEF Save
    <2> QED  BY Zenon, <1>1, <1>6, <2>1, KeptSave
  <1> QED  BY Zenon, <1>2, <1>3, <1>4, <1>5, <1>6, KeptPowerLoss, KeptStutter DEF StorageNext

(* Every step keeps both halves of the invariant.                                     *)
LEMMA StorageInductive ==
    /\ StorageInit => StorageInv
    /\ StorageInv /\ [StorageNext]_storageVars => StorageInv'
  <1>1. StorageInit => StorageInv
    BY Zenon, SoundInit, KeptInit DEF StorageInv, Sound
  <1>2. ASSUME StorageInv, [StorageNext]_storageVars PROVE StorageInv'
    <2>1. Sound /\ (Calm => AllKept)
      BY Zenon, <1>2 DEF StorageInv, Sound
    <2>2. Sound'
      BY Zenon, <1>2, <2>1, SoundStep
    <2>3. Calm' => AllKept'
      BY Zenon, <1>2, <2>1, KeptStep
    <2> QED  BY Zenon, <2>2, <2>3 DEF StorageInv, Sound
  <1> QED  BY <1>1, <1>2

(* On a card that came with a /config.json, as long as no operation fails and the      *)
(* power is not lost, what saveDomainsToSD() answered good is in the fields after      *)
(* every boot, whether the heap was low, the renames were copies or another task       *)
(* changed an item meanwhile  (ConfigLoader.cpp:907-1013).                             *)
THEOREM SeededKept == StorageSpec => []SeededSurvives
  <1>1. ASSUME StorageInv PROVE SeededSurvives
    <2>1. ASSUME board.seeded, cuts = 0, faults = 0, step = "idle", NEW x \in Items
          PROVE  fields[x] >= acked[x]
      <3>1. FieldsKept /\ Claimed = Items
        BY Zenon, <1>1, <2>1 DEF StorageInv, Calm, AllKept, Claimed
      <3>2. step # "off"
        BY <2>1
      <3> QED  BY Zenon, <3>1, <3>2 DEF FieldsKept
    <2> QED  BY Zenon, <2>1 DEF SeededSurvives, SurvivesWithoutFailure, SavedSurvives
  <1> QED  BY <1>1, StorageInductive, PTL DEF StorageSpec

(* On such a card, where renames work and the heap lets every save rewrite             *)
(* /config.json, one loss of power between any two operations of any save, migration   *)
(* or heal costs nothing saved in a file in Gate, nor the Wi-Fi credentials: one of    *)
(* the two copies still has what was acknowledged, and the boot finds it.  A heal is   *)
(* not claimed to bring back the connections in the same file (ConfigLoader.cpp:       *)
(* 846-849).                                                                           *)
THEOREM SecondCopyHolds == StorageSpec => []SecondCopySurvives
  <1>1. ASSUME StorageInv PROVE SecondCopySurvives
    <2>1. ASSUME OnePowerLoss, ~board.low, step = "idle", NEW x \in Twice
          PROVE  fields[x] >= acked[x]
      <3>1. cuts \in Nat
        <4>1. cuts \in 0 .. MaxCuts
          BY Zenon, <1>1 DEF StorageInv, StorageTypeOK
        <4> QED  BY <4>1, StorageAssumption
      <3>2. cuts = 0 \/ cuts = 1
        BY <2>1, <3>1 DEF OnePowerLoss
      <3>3. board.seeded /\ faults = 0 /\ ~board.copies
        BY Zenon, <2>1 DEF OnePowerLoss
      <3>4. Calm
        BY Zenon, <2>1, <3>2, <3>3 DEF Calm
      <3>5. FieldsKept
        BY Zenon, <1>1, <3>4 DEF StorageInv, AllKept
      <3>6. step # "off" /\ x \in Claimed
        BY <2>1, ClaimedIn
      <3> QED  BY Zenon, <3>5, <3>6 DEF FieldsKept
    <2> QED  BY Zenon, <2>1 DEF SecondCopySurvives
  <1> QED  BY <1>1, StorageInductive, PTL DEF StorageSpec
================================================================================
