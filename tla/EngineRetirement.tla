--------------------------- MODULE EngineRetirement ---------------------------
(* The retirement path: Core0LifecycleDispatcher::retire() on Core 1 pushes an *)
(* engine into the lock-free ring of EngineRetirementQueue, the lifecycle      *)
(* task of Core 0 drains the ring, stops each engine and destroys it, or keeps *)
(* it in the quarantine.  Core 1 polls hasPending() before it allocates again. *)
(* Each step is one atomic access or one access to a slot of the ring.         *)
EXTENDS Naturals, Sequences, FiniteSets

CONSTANTS
    Engines,             \* engine objects Core 1 owns at the start
    Null,                \* an empty unique_ptr
    Capacity,            \* template argument of the ring (8 in the firmware)
    QuarantineCapacity   \* QUARANTINE_CAPACITY (4 in the firmware)

ASSUME RetirementAssumption ==
    /\ IsFiniteSet(Engines)
    /\ Null \notin Engines
    /\ Capacity \in 1..253      \* _activeRetirements is a uint8_t
    /\ QuarantineCapacity \in Nat

VARIABLES
    slots,       \* _slots
    head,        \* _head
    tail,        \* _tail
    active,      \* _activeRetirements
    notified,    \* the lifecycle task's notification
    owned,       \* engines in activeEngines[] of the rotation manager
    pc1,         \* where Core 1 is in retire() or hasPending()
    engine1,     \* the argument of retire()
    pc0,         \* where the lifecycle task is in processRetirements()
    engine0,     \* its local variable engine
    quarantine,  \* _quarantine
    leaked,      \* engines released without being deleted
    destroyed    \* engines deleted

core1Vars == <<owned, pc1, engine1, tail>>
core0Vars == <<pc0, engine0, quarantine, leaked, destroyed, head>>
vars == <<slots, head, tail, active, notified, owned, pc1, engine1,
          pc0, engine0, quarantine, leaked, destroyed>>

BUFFER_SIZE == Capacity + 1
Indices == 0..Capacity
Succ(i) == (i + 1) % BUFFER_SIZE

TypeOK ==
    /\ slots \in [Indices -> Engines \cup {Null}]
    /\ head \in Indices
    /\ tail \in Indices
    /\ active \in 0..255
    /\ notified \in BOOLEAN
    /\ owned \subseteq Engines
    /\ pc1 \in {"run", "room", "write", "publish", "notify", "full", "empty", "reclaimed"}
    /\ engine1 \in Engines \cup {Null}
    /\ pc0 \in {"sleep", "retry", "pop", "move", "advance", "stop", "count"}
    /\ engine0 \in Engines \cup {Null}
    /\ quarantine \subseteq Engines
    /\ leaked \subseteq Engines
    /\ destroyed \subseteq Engines

Init ==
    /\ slots = [i \in Indices |-> Null]
    /\ head = 0
    /\ tail = 0
    /\ active = 0
    /\ notified = FALSE
    /\ owned = Engines
    /\ pc1 = "run"
    /\ engine1 = Null
    /\ pc0 = "sleep"
    /\ engine0 = Null
    /\ quarantine = {}
    /\ leaked = {}
    /\ destroyed = {}

-----------------------------------------------------------------------------
(* Core 1: retire() *)

Retire(e) ==
    /\ pc1 = "run" /\ e \in owned
    /\ active' = (active + 1) % 256
    /\ engine1' = e
    /\ pc1' = "room"
    /\ UNCHANGED <<slots, tail, notified, owned, core0Vars>>

PushBlind ==                \* mutant: the ring is used to its last slot
    /\ pc1 = "room"
    /\ pc1' = "write"
    /\ UNCHANGED <<slots, tail, active, notified, owned, engine1, core0Vars>>

PushRoom ==
    /\ pc1 = "room"
    /\ pc1' = IF Succ(tail) = head THEN "full" ELSE "write"
    /\ UNCHANGED <<slots, tail, active, notified, owned, engine1, core0Vars>>

PushWrite ==
    /\ pc1 = "write"
    /\ slots' = [slots EXCEPT ![tail] = engine1]
    /\ owned' = owned \ {engine1}
    /\ pc1' = "publish"
    /\ UNCHANGED <<tail, active, notified, engine1, core0Vars>>

PushPublish ==
    /\ pc1 = "publish"
    /\ tail' = Succ(tail)
    /\ pc1' = "notify"
    /\ UNCHANGED <<slots, active, notified, owned, engine1, core0Vars>>

RetireNotify ==
    /\ pc1 = "notify"
    /\ notified' = TRUE
    /\ engine1' = Null
    /\ pc1' = "run"
    /\ UNCHANGED <<slots, tail, active, owned, core0Vars>>

RetireFull ==
    /\ pc1 = "full"
    /\ active' = (active - 1) % 256
    /\ engine1' = Null
    /\ pc1' = "run"
    /\ UNCHANGED <<slots, tail, notified, owned, core0Vars>>

(* Core 1: hasPending(), which returns FALSE in state "reclaimed" *)
PollRingOnly ==             \* mutant: only the ring is looked at
    /\ pc1 = "run"
    /\ pc1' = "empty"
    /\ UNCHANGED <<slots, tail, active, notified, owned, engine1, core0Vars>>

PollActive ==
    /\ pc1 = "run"
    /\ active = 0
    /\ pc1' = "empty"
    /\ UNCHANGED <<slots, tail, active, notified, owned, engine1, core0Vars>>

PollEmpty ==
    /\ pc1 = "empty"
    /\ pc1' = IF head = tail THEN "reclaimed" ELSE "run"
    /\ UNCHANGED <<slots, tail, active, notified, owned, engine1, core0Vars>>

Resume ==
    /\ pc1 = "reclaimed"
    /\ pc1' = "run"
    /\ UNCHANGED <<slots, tail, active, notified, owned, engine1, core0Vars>>

-----------------------------------------------------------------------------
(* Core 0: lifecycleTaskFunc() and processRetirements() *)

Wake ==                     \* by notification or after the 1000 ms timeout
    /\ pc0 = "sleep"
    /\ notified' = FALSE
    /\ pc0' = "retry"
    /\ UNCHANGED <<slots, active, core1Vars, engine0, quarantine, leaked, destroyed, head>>

RetryQuarantine ==
    /\ pc0 = "retry"
    /\ \E stopped \in SUBSET quarantine :
         /\ quarantine' = quarantine \ stopped
         /\ destroyed' = destroyed \cup stopped
    /\ pc0' = "pop"
    /\ UNCHANGED <<slots, active, notified, core1Vars, engine0, leaked, head>>

PopTestLast ==              \* mutant: the last engine is taken for the empty ring
    /\ pc0 = "pop"
    /\ pc0' = IF tail \in {head, Succ(head)} THEN "sleep" ELSE "move"
    /\ UNCHANGED <<slots, active, notified, core1Vars, engine0, quarantine, leaked, destroyed, head>>

PopTest ==
    /\ pc0 = "pop"
    /\ pc0' = IF head = tail THEN "sleep" ELSE "move"
    /\ UNCHANGED <<slots, active, notified, core1Vars, engine0, quarantine, leaked, destroyed, head>>

PopMove ==
    /\ pc0 = "move"
    /\ engine0' = slots[head]
    /\ slots' = [slots EXCEPT ![head] = Null]
    /\ pc0' = "advance"
    /\ UNCHANGED <<active, notified, core1Vars, quarantine, leaked, destroyed, head>>

PopAdvance ==
    /\ pc0 = "advance"
    /\ head' = Succ(head)
    /\ pc0' = "stop"
    /\ UNCHANGED <<slots, active, notified, core1Vars, engine0, quarantine, leaked, destroyed>>

ShutdownOverfull ==         \* mutant: the quarantine takes one engine too many
    /\ pc0 = "stop"
    /\ \/ destroyed' = destroyed \cup {engine0} /\ UNCHANGED <<quarantine, leaked>>
       \/ /\ Cardinality(quarantine) <= QuarantineCapacity
          /\ quarantine' = quarantine \cup {engine0}
          /\ UNCHANGED <<destroyed, leaked>>
    /\ engine0' = Null
    /\ pc0' = "count"
    /\ UNCHANGED <<slots, active, notified, core1Vars, head>>

ShutdownForDestruction ==
    /\ pc0 = "stop"
    /\ \/ /\ destroyed' = destroyed \cup {engine0}
          /\ UNCHANGED <<quarantine, leaked>>
       \/ /\ Cardinality(quarantine) < QuarantineCapacity
          /\ quarantine' = quarantine \cup {engine0}
          /\ UNCHANGED <<destroyed, leaked>>
       \/ /\ Cardinality(quarantine) >= QuarantineCapacity
          /\ leaked' = leaked \cup {engine0}
          /\ UNCHANGED <<destroyed, quarantine>>
    /\ engine0' = Null
    /\ pc0' = "count"
    /\ UNCHANGED <<slots, active, notified, core1Vars, head>>

Count ==
    /\ pc0 = "count"
    /\ active' = (active - 1) % 256
    /\ pc0' = "pop"
    /\ UNCHANGED <<slots, notified, core1Vars, engine0, quarantine, leaked, destroyed, head>>

-----------------------------------------------------------------------------
RetireStep == PushRoom \/ PushWrite \/ PushPublish \/ RetireNotify \/ RetireFull
PollStep == PollActive \/ PollEmpty \/ Resume

Core0Step ==
    \/ Wake \/ RetryQuarantine \/ PopTest \/ PopMove \/ PopAdvance
    \/ ShutdownForDestruction \/ Count

Next ==
    \/ \E e \in Engines : Retire(e)
    \/ RetireStep
    \/ PollStep
    \/ Core0Step

Spec == Init /\ [][Next]_vars

(* Both tasks are scheduled; Core 1 ends a call of retire() it began, it need  *)
(* not begin another one or poll.                                              *)
FairSpec == Spec /\ WF_vars(Core0Step) /\ WF_vars(RetireStep)

-----------------------------------------------------------------------------
(* The engines in the ring, and those not yet stopped.                         *)
Ring == {slots[i] : i \in Indices} \ {Null}
InRing(e) == \E i \in Indices : slots[i] = e
InFlight == Ring \cup ({engine0} \ {Null})

(* The two cores never touch the same slot of the ring at the same time.       *)
NoSlotRace == pc1 = "write" /\ pc0 = "move" => head # tail

(* hasPending() = FALSE means what the rotation manager waits for: nothing it  *)
(* retired is still to be stopped, so the heap it is about to use was freed    *)
(* (or belongs to an engine that does not stop).                               *)
ReclaimedWhenNotPending ==
    pc1 = "reclaimed" => /\ InFlight = {} /\ active = 0
                         /\ owned \cup quarantine \cup leaked \cup destroyed = Engines

(* An engine in the ring is stopped and destroyed, or kept, also when the      *)
(* notification came while the task was about to sleep.                        *)
RetiredEnginesLeave == \A e \in Engines : InRing(e) ~> ~InRing(e)

First == IF pc0 = "advance" THEN Succ(head) ELSE head
Handover == INSTANCE EngineHandover WITH
    owned <- IF pc1 = "publish" THEN owned \cup {engine1} ELSE owned,
    queue <- [k \in 1 .. (tail + BUFFER_SIZE - First) % BUFFER_SIZE |->
                slots[(First + k - 1) % BUFFER_SIZE]],
    stopping <- {engine0} \ {Null}

(* The ring is a bounded first-in first-out queue, the dispatcher its server.  *)
ImplementsHandover == Handover!Spec
=============================================================================
