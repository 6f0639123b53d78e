---------------------------- MODULE ConfigSnapshot ----------------------------
(* The triple buffer of ConfigLoader: writers change the live configuration    *)
(* and publish it under a mutex, readers borrow the published slot without a   *)
(* lock, and a publication that finds every other slot pinned is deferred to   *)
(* the lifecycle worker of Core 0.  Each step is one atomic access of the code *)
(* (or a stretch of code that touches nothing another task can see).           *)
EXTENDS Naturals, FiniteSets

CONSTANTS
    Guards,     \* ConfigSnapshotGuard objects; one task may hold several, nested
    Writers,    \* tasks that call mutate(), addInstance(), removeInstance()
    Worker,     \* the lifecycle task of Core 0
    Nobody,     \* the mutex's owner when it is free
    NoView,     \* the abstract view of a guard that borrows nothing
    MaxLive,    \* bound: mutations a behaviour makes
    MaxVersion  \* bound: _configVersion up to which a save publishes once more

ASSUME ConfigAssumption ==
    /\ IsFiniteSet(Guards)
    /\ Worker \notin Writers
    /\ Nobody \notin Writers \cup {Worker}
    /\ NoView \notin Nat
    /\ MaxLive \in Nat /\ MaxVersion \in Nat

VARIABLES
    publishedSlot,   \* _publishedSlot
    readers,         \* _readers[3]
    publishPending,  \* _publishPending
    configVersion,   \* _configVersion
    snapshots,       \* _snapshots[3]; sealed is FALSE while the slot is being written
    live,            \* the public fields of ConfigLoader: mutations applied so far
    mutex,           \* owner of _mutex
    pc,              \* where the owner of the mutex is in publishSnapshot_locked()
    scan,            \* i of its slot search
    target,          \* its targetSlot
    workerPc,        \* where the lifecycle task is
    notified,        \* its task notification
    gpc,             \* where each guard is between acquireSnapshot() and its destructor
    gslot            \* _slot of each guard

writerVars == <<snapshots, live, mutex, pc, scan, target, configVersion>>
guardVars == <<gpc, gslot>>
vars == <<publishedSlot, readers, publishPending, configVersion, snapshots, live,
          mutex, pc, scan, target, workerPc, notified, gpc, gslot>>

Slots == 0..2
Snapshot == [version : Nat, payload : Nat, sealed : BOOLEAN]
Unsealed(s) == [s EXCEPT !.sealed = FALSE]

Pinning == {"check", "undo", "held"}
Pins(s) == {g \in Guards : gpc[g] \in Pinning /\ gslot[g] = s}
Filling == pc \in {"fill", "seal", "store"}

TypeOK ==
    /\ publishedSlot \in Slots
    /\ readers \in [Slots -> Nat]
    /\ publishPending \in BOOLEAN
    /\ configVersion \in Nat
    /\ snapshots \in [Slots -> Snapshot]
    /\ live \in Nat
    /\ mutex \in Writers \cup {Worker, Nobody}
    /\ pc \in {"idle", "mutate", "recheck", "scan", "fill", "seal", "store", "clear"}
    /\ scan \in 0..3
    /\ target \in Slots
    /\ workerPc \in {"sleep", "test", "try", "locked"}
    /\ notified \in BOOLEAN
    /\ gpc \in [Guards -> {"free", "load", "pin", "signal"} \cup Pinning]
    /\ gslot \in [Guards -> Slots]

(* The constructor has run: setDefaults() published version 2 into slot 1.     *)
Init ==
    /\ publishedSlot = 1
    /\ readers = [s \in Slots |-> 0]
    /\ publishPending = FALSE
    /\ configVersion = 2
    /\ snapshots = [s \in Slots |->
                      [version |-> IF s = 1 THEN 2 ELSE 1, payload |-> 0, sealed |-> TRUE]]
    /\ live = 0
    /\ mutex = Nobody
    /\ pc = "idle"
    /\ scan = 0
    /\ target = 1
    /\ workerPc = "sleep"
    /\ notified = FALSE
    /\ gpc = [g \in Guards |-> "free"]
    /\ gslot = [g \in Guards |-> 0]

-----------------------------------------------------------------------------
(* acquireSnapshot() *)

AcquireCall(g) ==
    /\ gpc[g] = "free"
    /\ gpc' = [gpc EXCEPT ![g] = "load"]
    /\ UNCHANGED <<publishedSlot, readers, publishPending, writerVars, workerPc, notified, gslot>>

AcquireLoad(g) ==
    /\ gpc[g] = "load"
    /\ gslot' = [gslot EXCEPT ![g] = publishedSlot]
    /\ gpc' = [gpc EXCEPT ![g] = "pin"]
    /\ UNCHANGED <<publishedSlot, readers, publishPending, writerVars, workerPc, notified>>

AcquirePin(g) ==
    /\ gpc[g] = "pin"
    /\ readers' = [readers EXCEPT ![gslot[g]] = @ + 1]
    /\ gpc' = [gpc EXCEPT ![g] = "check"]
    /\ UNCHANGED <<publishedSlot, publishPending, writerVars, workerPc, notified, gslot>>

AcquireUnchecked(g) ==      \* mutant: the slot is not read again after the pin
    /\ gpc[g] = "check"
    /\ gpc' = [gpc EXCEPT ![g] = "held"]
    /\ UNCHANGED <<publishedSlot, readers, publishPending, writerVars, workerPc, notified, gslot>>

AcquireCheck(g) ==
    /\ gpc[g] = "check"
    /\ gpc' = [gpc EXCEPT ![g] = IF publishedSlot = gslot[g] THEN "held" ELSE "undo"]
    /\ UNCHANGED <<publishedSlot, readers, publishPending, writerVars, workerPc, notified, gslot>>

AcquireUndo(g) ==
    /\ gpc[g] = "undo"
    /\ readers' = [readers EXCEPT ![gslot[g]] = @ - 1]
    /\ gpc' = [gpc EXCEPT ![g] = "load"]
    /\ UNCHANGED <<publishedSlot, publishPending, writerVars, workerPc, notified, gslot>>

(* ~ConfigSnapshotGuard() and releaseSnapshot(): unpin, then look for a        *)
(* deferred publication and wake the worker.                                   *)
Release(g) ==
    /\ gpc[g] = "held"
    /\ readers' = [readers EXCEPT ![gslot[g]] = @ - 1]
    /\ gpc' = [gpc EXCEPT ![g] = "signal"]
    /\ UNCHANGED <<publishedSlot, publishPending, writerVars, workerPc, notified, gslot>>

ReleaseSignal(g) ==
    /\ gpc[g] = "signal"
    /\ notified' = (notified \/ publishPending)
    /\ gpc' = [gpc EXCEPT ![g] = "free"]
    /\ UNCHANGED <<publishedSlot, readers, publishPending, writerVars, workerPc, gslot>>

-----------------------------------------------------------------------------
(* mutate(), addInstance(), removeInstance() and publishSnapshot(), up to the  *)
(* search for a slot                                                           *)

Lock(w) ==
    /\ mutex = Nobody
    /\ live < MaxLive
    /\ mutex' = w
    /\ pc' = "mutate"
    /\ UNCHANGED <<publishedSlot, readers, publishPending, configVersion, snapshots, live,
                   scan, target, workerPc, notified, guardVars>>

Mutator ==
    /\ pc = "mutate"
    /\ live' = live + 1
    /\ pc' = "scan"
    /\ scan' = 0
    /\ UNCHANGED <<publishedSlot, readers, publishPending, configVersion, snapshots, mutex,
                   target, workerPc, notified, guardVars>>

(* publishSnapshot(), which a save calls before it writes the files.           *)
Republish ==
    /\ pc = "mutate"
    /\ configVersion < MaxVersion
    /\ pc' = "scan"
    /\ scan' = 0
    /\ UNCHANGED <<publishedSlot, readers, publishPending, configVersion, snapshots, live,
                   mutex, target, workerPc, notified, guardVars>>

(* addInstance() of a known id, removeInstance() of an unknown one.            *)
Refuse ==
    /\ pc = "mutate"
    /\ mutex' = Nobody
    /\ pc' = "idle"
    /\ UNCHANGED <<publishedSlot, readers, publishPending, configVersion, snapshots, live,
                   scan, target, workerPc, notified, guardVars>>

-----------------------------------------------------------------------------
(* publishSnapshot_locked() *)

ScanUnpinned ==             \* mutant: the reader counters are not consulted
    /\ pc = "scan" /\ scan \in Slots
    /\ IF scan # publishedSlot
       THEN pc' = "fill" /\ target' = scan /\ scan' = scan
       ELSE scan' = scan + 1 /\ UNCHANGED <<pc, target>>
    /\ UNCHANGED <<publishedSlot, readers, publishPending, configVersion, snapshots, live,
                   mutex, workerPc, notified, guardVars>>

ScanSlot ==
    /\ pc = "scan" /\ scan \in Slots
    /\ IF scan # publishedSlot /\ readers[scan] = 0
       THEN pc' = "fill" /\ target' = scan /\ scan' = scan
       ELSE scan' = scan + 1 /\ UNCHANGED <<pc, target>>
    /\ UNCHANGED <<publishedSlot, readers, publishPending, configVersion, snapshots, live,
                   mutex, workerPc, notified, guardVars>>

Unlock ==
    /\ mutex' = Nobody
    /\ pc' = "idle"
    /\ workerPc' = IF mutex = Worker THEN "sleep" ELSE workerPc

DeferForgotten ==           \* mutant: the publication is dropped, not deferred
    /\ pc = "scan" /\ scan = 3
    /\ Unlock
    /\ UNCHANGED <<publishedSlot, readers, publishPending, configVersion, snapshots, live,
                   scan, target, notified, guardVars>>

Defer ==
    /\ pc = "scan" /\ scan = 3
    /\ publishPending' = TRUE
    /\ Unlock
    /\ UNCHANGED <<publishedSlot, readers, configVersion, snapshots, live,
                   scan, target, notified, guardVars>>

Fill ==
    /\ pc = "fill"
    /\ configVersion' = configVersion + 1
    /\ snapshots' = [snapshots EXCEPT ![target] = Unsealed(@)]
    /\ pc' = "seal"
    /\ UNCHANGED <<publishedSlot, readers, publishPending, live, mutex, scan, target,
                   workerPc, notified, guardVars>>

Seal ==
    /\ pc = "seal"
    /\ snapshots' = [snapshots EXCEPT ![target] =
                       [version |-> configVersion, payload |-> live, sealed |-> TRUE]]
    /\ pc' = "store"
    /\ UNCHANGED <<publishedSlot, readers, publishPending, configVersion, live, mutex, scan,
                   target, workerPc, notified, guardVars>>

Store ==
    /\ pc = "store"
    /\ publishedSlot' = target
    /\ pc' = "clear"
    /\ UNCHANGED <<readers, publishPending, configVersion, snapshots, live, mutex, scan,
                   target, workerPc, notified, guardVars>>

Clear ==
    /\ pc = "clear"
    /\ publishPending' = FALSE
    /\ Unlock
    /\ UNCHANGED <<publishedSlot, readers, configVersion, snapshots, live, scan, target,
                   notified, guardVars>>

-----------------------------------------------------------------------------
(* lifecycleTaskFunc() and checkDeferredPublish() *)

WakeNotifiedOnly ==         \* mutant: the wait has no timeout
    /\ workerPc = "sleep" /\ notified
    /\ notified' = FALSE
    /\ workerPc' = "test"
    /\ UNCHANGED <<publishedSlot, readers, publishPending, writerVars, guardVars>>

Wake ==                     \* by notification or after the 1000 ms timeout
    /\ workerPc = "sleep"
    /\ notified' = FALSE
    /\ workerPc' = "test"
    /\ UNCHANGED <<publishedSlot, readers, publishPending, writerVars, guardVars>>

TestPending ==
    /\ workerPc = "test"
    /\ workerPc' = IF publishPending THEN "try" ELSE "sleep"
    /\ UNCHANGED <<publishedSlot, readers, publishPending, writerVars, notified, guardVars>>

TryLock ==
    /\ workerPc = "try"
    /\ mutex = Nobody
    /\ mutex' = Worker
    /\ pc' = "recheck"
    /\ workerPc' = "locked"
    /\ UNCHANGED <<publishedSlot, readers, publishPending, configVersion, snapshots, live,
                   scan, target, notified, guardVars>>

TryLockFails ==
    /\ workerPc = "try"
    /\ mutex # Nobody
    /\ workerPc' = "sleep"
    /\ UNCHANGED <<publishedSlot, readers, publishPending, writerVars, notified, guardVars>>

Recheck ==
    /\ pc = "recheck"
    /\ IF publishPending
       THEN pc' = "scan" /\ scan' = 0 /\ UNCHANGED <<mutex, workerPc>>
       ELSE Unlock /\ scan' = scan
    /\ UNCHANGED <<publishedSlot, readers, publishPending, configVersion, snapshots, live,
                   target, notified, guardVars>>

-----------------------------------------------------------------------------
AcquireStep(g) == AcquireLoad(g) \/ AcquirePin(g) \/ AcquireCheck(g) \/ AcquireUndo(g)
ReleaseStep(g) == Release(g) \/ ReleaseSignal(g)
PublishStep ==
    Mutator \/ Republish \/ Refuse \/ ScanSlot \/ Defer \/ Fill \/ Seal \/ Store \/ Clear \/ Recheck
WorkerStep == Wake \/ TestPending \/ TryLock \/ TryLockFails

Next ==
    \/ \E g \in Guards : AcquireCall(g) \/ AcquireStep(g) \/ ReleaseStep(g)
    \/ \E w \in Writers : Lock(w)
    \/ PublishStep
    \/ WorkerStep

Spec == Init /\ [][Next]_vars

(* Both cores run; a borrow is a scope that ends; the worker's wait times out; *)
(* its attempts, one a second, are not in step with the mutations, which hold   *)
(* the mutex for microseconds: not every attempt falls into one.               *)
Fairness ==
    /\ \A g \in Guards : WF_vars(AcquireStep(g)) /\ WF_vars(ReleaseStep(g))
    /\ WF_vars(PublishStep)
    /\ WF_vars(WorkerStep)
    /\ SF_vars(mutex = Nobody /\ Wake)
    /\ SF_vars(mutex = Nobody /\ TestPending)
    /\ SF_vars(TryLock)

FairSpec == Spec /\ Fairness

-----------------------------------------------------------------------------
(* A slot some guard borrows is complete and nobody is writing into it: the    *)
(* memory behind a ConfigSnapshotGuard never changes while the guard lives.    *)
BorrowedSlotStable ==
    \A g \in Guards : gpc[g] = "held" =>
        /\ snapshots[gslot[g]].sealed
        /\ Filling => target # gslot[g]

(* Outside publishSnapshot_locked(), either the published snapshot contains    *)
(* every mutation made or a deferred publication is recorded for the worker:   *)
(* a full buffer delays a setting, it never loses one.                         *)
NothingLost ==
    mutex = Nobody /\ ~publishPending => snapshots[publishedSlot].payload = live

(* Publication moves forward: a store to _publishedSlot shows a larger version *)
(* (the number update() compares with m_lastReconciledVersion) and a           *)
(* configuration that contains all the mutations of the one it replaces.       *)
PublicationAdvances ==
    [][publishedSlot' # publishedSlot =>
         /\ snapshots'[publishedSlot'].version > snapshots[publishedSlot].version
         /\ snapshots'[publishedSlot'].payload >= snapshots[publishedSlot].payload]_vars

(* A deferred publication is completed, although the reader that unpins the    *)
(* slot can miss the flag (it is set after the search) and then wakes nobody.  *)
DeferralEnds == publishPending ~> ~publishPending

(* The register of the abstract specification, seen through the slots.         *)
Current == snapshots[publishedSlot].payload
ViewOf(g) == IF gpc[g] = "held" THEN snapshots[gslot[g]].payload ELSE NoView
Register == INSTANCE ConfigRegister WITH
    published <- Current,
    view <- [g \in Guards |-> ViewOf(g)]

(* Every borrow is linearizable: the slots implement one atomic register.      *)
ImplementsRegister == Register!Spec
=============================================================================
