------------------------- MODULE EngineLifecycleProofs -------------------------
(* What becomes of an engine.  While the display sessions have it, it is activated *)
(* when it is drawn, and the preempted sessions wait in their order, however many  *)
(* sources there are and however deep the stack is.  When the rotation has retired *)
(* it, for every ring, quarantine and set of engines, no slot is touched by both   *)
(* cores, hasPending() never answers FALSE too early, and the ring with its        *)
(* dispatcher is a bounded queue with a server.                                    *)
EXTENDS EngineRetirement, DisplaySessions, Integers, FiniteSetTheorems, SequenceTheorems,
        WellFoundedInduction, TLAPS

--------------------------------------------------------------------------------
(* The slots from _head up to _tail, and how many they are.                        *)
Occupied(i) == IF head =< tail THEN head =< i /\ i < tail ELSE head =< i \/ i < tail
Length == IF head =< tail THEN tail - head ELSE tail + BUFFER_SIZE - head

(* Each core works on a slot the other one cannot reach: the decision that the     *)
(* ring has room, or an engine, stays true while it acts on it.                    *)
RoomKept == pc1 \in {"write", "publish"} => Succ(tail) # head
EngineKept == pc0 \in {"move", "advance"} => head # tail

(* A slot holds an engine exactly when it is occupied, but for the one each core   *)
(* has moved out of, or into, and not yet published.                               *)
Filled(i) ==
    \/ Occupied(i) /\ ~(pc0 = "advance" /\ i = head)
    \/ pc1 = "publish" /\ i = tail
Contents ==
    /\ \A i \in Indices : slots[i] # Null <=> Filled(i)
    /\ pc0 \in {"advance", "stop"} <=> engine0 # Null
    /\ pc1 \in {"room", "write", "full"} => engine1 \in owned
    /\ pc1 = "publish" => engine1 \notin owned /\ slots[tail] = engine1

(* The counter counts the ring and the engine at either end of it.                 *)
Giving == IF pc1 \in {"room", "write", "publish", "full"} THEN 1 ELSE 0
Stopping == IF pc0 \in {"stop", "count"} THEN 1 ELSE 0
Counted == active = Length + Giving + Stopping
Polled == pc1 \in {"empty", "reclaimed"} => active = 0

(* No engine falls between two owners.                                             *)
Left == quarantine \cup leaked \cup destroyed
Accounted == \A e \in Engines : e \in owned \/ InRing(e) \/ e = engine0 \/ e \in Left

IInv == TypeOK /\ RoomKept /\ EngineKept /\ Contents /\ Counted /\ Polled /\ Accounted

--------------------------------------------------------------------------------
(* The arithmetic of the two indices. *)
LEMMA SuccWraps ==
    ASSUME NEW i \in Indices
    PROVE  /\ Succ(i) = IF i = Capacity THEN 0 ELSE i + 1
           /\ Succ(i) \in Indices
           /\ Succ(i) # i
  <1>1. i \in Nat /\ i =< Capacity /\ Capacity \in Nat /\ Capacity > 0 /\ Capacity =< 253
    BY RetirementAssumption DEF Indices
  <1>2. CASE i = Capacity
    <2>1. i + 1 = BUFFER_SIZE /\ BUFFER_SIZE > 0 /\ BUFFER_SIZE \in Nat
      BY <1>1, <1>2 DEF BUFFER_SIZE
    <2>2. (i + 1) % BUFFER_SIZE = 0
      BY <2>1
    <2> QED  BY <1>1, <1>2, <2>2 DEF Succ, Indices
  <1>3. CASE i # Capacity
    <2>1. i + 1 \in 0..(BUFFER_SIZE - 1) /\ BUFFER_SIZE > 0 /\ BUFFER_SIZE \in Nat
      BY <1>1, <1>3 DEF BUFFER_SIZE
    <2>2. (i + 1) % BUFFER_SIZE = i + 1
      BY <2>1
    <2> QED  BY <1>1, <1>3, <2>2 DEF Succ, Indices
  <1> QED  BY <1>2, <1>3

(* Two indices have the same successor only if they are the same.                  *)
LEMMA SuccInjective ==
    ASSUME NEW i \in Indices, NEW j \in Indices, Succ(i) = Succ(j)
    PROVE  i = j
  BY SuccWraps, RetirementAssumption DEF Indices

(* A slot is published at the tail: the ring gets one slot longer, at its end.     *)
LEMMA PublishMoves ==
    ASSUME head \in Indices, tail \in Indices, Succ(tail) # head,
           tail' = Succ(tail), head' = head
    PROVE  /\ Length' = Length + 1
           /\ \A i \in Indices : Occupied(i)' <=> Occupied(i) \/ i = tail
  BY SuccWraps, RetirementAssumption DEF Indices, BUFFER_SIZE, Length, Occupied

(* A slot is given back at the head: the ring gets one slot shorter, at its start. *)
LEMMA AdvanceMoves ==
    ASSUME head \in Indices, tail \in Indices, head # tail,
           head' = Succ(head), tail' = tail
    PROVE  /\ Length' = Length - 1
           /\ \A i \in Indices : Occupied(i)' <=> Occupied(i) /\ i # head
           /\ Occupied(head)
  BY SuccWraps, RetirementAssumption DEF Indices, BUFFER_SIZE, Length, Occupied

(* The ring is never longer than its capacity, and the slot at the tail is free.   *)
LEMMA LengthBounds ==
    ASSUME head \in Indices, tail \in Indices
    PROVE  /\ Length \in 0..Capacity
           /\ Length = 0 <=> head = tail
           /\ head = tail => \A i \in Indices : ~Occupied(i)
           /\ ~Occupied(tail)
           /\ head # tail => Occupied(head)
  BY RetirementAssumption DEF Indices, BUFFER_SIZE, Length, Occupied

(* The counter has room for all it counts, so neither step of it wraps around.     *)
LEMMA CountStep ==
    ASSUME NEW n \in 0..255
    PROVE  /\ n < 255 => (n + 1) % 256 = n + 1
           /\ n > 0 => (n - 1) % 256 = n - 1
  OBVIOUS
--------------------------------------------------------------------------------
(* The invariant holds at the start and is kept by every step. *)
LEMMA InitInv == Init => IInv
  <1> SUFFICES ASSUME Init  PROVE IInv
    OBVIOUS
  <1> USE DEF Init
  <1>1. 0 \in Indices /\ Length = 0 /\ \A i \in Indices : ~Occupied(i)
    BY RetirementAssumption DEF Indices, Length, Occupied
  <1>2. TypeOK
    <2>1. slots \in [Indices -> Engines \cup {Null}]
      OBVIOUS
    <2>2. engine1 = Null /\ engine0 = Null /\ owned = Engines /\ active = 0 /\ notified = FALSE
      BY Zenon
    <2>3. quarantine = {} /\ leaked = {} /\ destroyed = {} /\ pc1 = "run" /\ pc0 = "sleep"
      BY Zenon
    <2>4. notified \in BOOLEAN
      BY <2>2, Zenon
    <2> QED  BY <1>1, <2>1, <2>2, <2>3, <2>4, 0 \in 0..255 DEF TypeOK
  <1>3. RoomKept /\ EngineKept /\ Polled
    BY DEF RoomKept, EngineKept, Polled
  <1>4. Contents
    BY <1>1 DEF Contents, Filled
  <1>5. Counted
    BY <1>1 DEF Counted, Giving, Stopping
  <1>6. Accounted
    BY DEF Accounted
  <1> QED  BY <1>2, <1>3, <1>4, <1>5, <1>6 DEF IInv

(* What a step that leaves the two indices alone leaves alone.                     *)
LEMMA IndicesUntouched ==
    ASSUME UNCHANGED <<head, tail>>
    PROVE  /\ Length' = Length
           /\ \A i \in Indices : Occupied(i)' <=> Occupied(i)
  BY DEF Length, Occupied, BUFFER_SIZE

(* Core 1: retire(). *)
LEMMA RetireInv == ASSUME IInv, NEW e \in Engines, Retire(e)  PROVE IInv'
  <1> USE DEF IInv, Retire, core0Vars
  <1>1. Length \in 0..Capacity /\ Length' = Length /\ \A i \in Indices : Occupied(i)' <=> Occupied(i)
    BY LengthBounds, IndicesUntouched DEF TypeOK
  <1>2. active < 255 /\ active' = active + 1
    BY <1>1, CountStep, RetirementAssumption DEF TypeOK, Counted, Giving, Stopping
  <1>3. TypeOK'
    BY <1>2 DEF TypeOK
  <1>4. RoomKept' /\ EngineKept' /\ Polled'
    BY DEF RoomKept, EngineKept, Polled
  <1>5. Contents'
    BY <1>1, RetirementAssumption DEF Contents, Filled
  <1>6. Counted'
    BY <1>1, <1>2 DEF Counted, Giving, Stopping
  <1>7. Accounted'
    BY DEF Accounted, InRing, Left
  <1> QED  BY <1>3, <1>4, <1>5, <1>6, <1>7

LEMMA PushRoomInv == IInv /\ PushRoom => IInv'
  <1> SUFFICES ASSUME IInv, PushRoom  PROVE IInv'
    OBVIOUS
  <1> USE DEF IInv, PushRoom, core0Vars
  <1>1. Length' = Length /\ \A i \in Indices : Occupied(i)' <=> Occupied(i)
    BY IndicesUntouched
  <1>2. TypeOK' /\ RoomKept' /\ EngineKept' /\ Polled'
    BY DEF TypeOK, RoomKept, EngineKept, Polled, Succ, BUFFER_SIZE
  <1>3. Contents'
    BY <1>1 DEF Contents, Filled
  <1>4. Counted'
    BY <1>1 DEF Counted, Giving, Stopping
  <1>5. Accounted'
    BY DEF Accounted, InRing, Left
  <1> QED  BY <1>2, <1>3, <1>4, <1>5

LEMMA PushWriteInv == IInv /\ PushWrite => IInv'
  <1> SUFFICES ASSUME IInv, PushWrite  PROVE IInv'
    OBVIOUS
  <1> USE DEF IInv, PushWrite, core0Vars
  <1>1. Length' = Length /\ \A i \in Indices : Occupied(i)' <=> Occupied(i)
    BY IndicesUntouched
  <1>2. engine1 \in Engines /\ engine1 # Null /\ engine1 \in owned /\ tail \in Indices
    BY RetirementAssumption DEF TypeOK, Contents
  <1>3. TypeOK' /\ RoomKept' /\ EngineKept' /\ Polled'
    BY <1>2 DEF TypeOK, RoomKept, EngineKept, Polled, Succ, BUFFER_SIZE
  <1>4. slots[tail] = Null
    BY <1>2, LengthBounds DEF TypeOK, Contents, Filled
  <1>5. Contents'
    BY <1>1, <1>2 DEF TypeOK, Contents, Filled
  <1>6. Counted'
    BY <1>1 DEF Counted, Giving, Stopping
  <1>7. ASSUME NEW e \in Engines  PROVE (e \in owned \/ InRing(e) \/ e = engine0 \/ e \in Left)'
    <2>1. CASE e = engine1
      BY <1>2, <2>1 DEF TypeOK, InRing
    <2>2. CASE InRing(e)
      <3>1. PICK i \in Indices : slots[i] = e
        BY <2>2 DEF InRing
      <3>2. i # tail
        BY <1>4, <3>1, RetirementAssumption
      <3> QED  BY <3>1, <3>2 DEF TypeOK, InRing
    <2>3. CASE e # engine1 /\ ~InRing(e)
      BY <2>3 DEF Accounted, Left
    <2> QED  BY <2>1, <2>2, <2>3
  <1> QED  BY <1>3, <1>5, <1>6, <1>7 DEF Accounted

LEMMA PushPublishInv == IInv /\ PushPublish => IInv'
  <1> SUFFICES ASSUME IInv, PushPublish  PROVE IInv'
    OBVIOUS
  <1> USE DEF IInv, PushPublish, core0Vars
  <1>1. /\ Length' = Length + 1 /\ tail' \in Indices
        /\ \A i \in Indices : Occupied(i)' <=> Occupied(i) \/ i = tail
    BY PublishMoves, SuccWraps DEF TypeOK, RoomKept
  <1>2. TypeOK' /\ RoomKept' /\ Polled'
    BY <1>1 DEF TypeOK, RoomKept, Polled
  <1>3. EngineKept'
    BY DEF EngineKept, RoomKept
  <1>4. Contents'
    <2>1. pc0 = "advance" => head # tail
      BY DEF EngineKept
    <2>2. \A i \in Indices : Filled(i)' <=> Filled(i)
      BY <1>1, <2>1 DEF Filled
    <2> QED  BY <2>2 DEF Contents
  <1>5. Counted'
    BY <1>1, LengthBounds DEF TypeOK, Counted, Giving, Stopping
  <1>6. Accounted'
    BY DEF Accounted, InRing, Left
  <1> QED  BY <1>2, <1>3, <1>4, <1>5, <1>6

LEMMA RetireNotifyInv == IInv /\ RetireNotify => IInv'
  <1> SUFFICES ASSUME IInv, RetireNotify  PROVE IInv'
    OBVIOUS
  <1> USE DEF IInv, RetireNotify, core0Vars
  <1>1. Length' = Length /\ \A i \in Indices : Occupied(i)' <=> Occupied(i)
    BY IndicesUntouched
  <1>2. TypeOK' /\ RoomKept' /\ EngineKept' /\ Polled'
    BY DEF TypeOK, RoomKept, EngineKept, Polled
  <1>3. Contents' /\ Counted'
    BY <1>1 DEF Contents, Filled, Counted, Giving, Stopping
  <1>4. Accounted'
    BY DEF Accounted, InRing, Left
  <1> QED  BY <1>2, <1>3, <1>4

LEMMA RetireFullInv == IInv /\ RetireFull => IInv'
  <1> SUFFICES ASSUME IInv, RetireFull  PROVE IInv'
    OBVIOUS
  <1> USE DEF IInv, RetireFull, core0Vars
  <1>1. Length \in 0..Capacity /\ Length' = Length /\ \A i \in Indices : Occupied(i)' <=> Occupied(i)
    BY LengthBounds, IndicesUntouched DEF TypeOK
  <1>2. active > 0 /\ active' = active - 1
    BY <1>1, CountStep, RetirementAssumption DEF TypeOK, Counted, Giving, Stopping
  <1>3. TypeOK' /\ RoomKept' /\ EngineKept' /\ Polled'
    BY <1>2 DEF TypeOK, RoomKept, EngineKept, Polled
  <1>4. Contents'
    BY <1>1 DEF Contents, Filled
  <1>5. Counted'
    BY <1>1, <1>2 DEF Counted, Giving, Stopping
  <1>6. Accounted'
    BY DEF Accounted, InRing, Left
  <1> QED  BY <1>3, <1>4, <1>5, <1>6

(* Core 1: hasPending(). *)
LEMMA PollInv == IInv /\ PollStep => IInv'
  <1> SUFFICES ASSUME IInv, PollStep  PROVE IInv'
    OBVIOUS
  <1> USE DEF IInv, PollStep, PollActive, PollEmpty, Resume, core0Vars
  <1>1. Length' = Length /\ \A i \in Indices : Occupied(i)' <=> Occupied(i)
    BY IndicesUntouched
  <1>2. TypeOK' /\ RoomKept' /\ EngineKept' /\ Polled'
    BY DEF TypeOK, RoomKept, EngineKept, Polled
  <1>3. Contents' /\ Counted'
    BY <1>1 DEF Contents, Filled, Counted, Giving, Stopping
  <1>4. Accounted'
    BY DEF Accounted, InRing, Left
  <1> QED  BY <1>2, <1>3, <1>4

(* Core 0: processRetirements(). *)
LEMMA WakeInv == IInv /\ (Wake \/ RetryQuarantine) => IInv'
  <1> SUFFICES ASSUME IInv, Wake \/ RetryQuarantine  PROVE IInv'
    OBVIOUS
  <1> USE DEF IInv, Wake, RetryQuarantine, core1Vars
  <1>1. Length' = Length /\ \A i \in Indices : Occupied(i)' <=> Occupied(i)
    BY IndicesUntouched
  <1>2. TypeOK'
    <2>1. CASE Wake
      BY <2>1 DEF TypeOK
    <2>2. CASE RetryQuarantine
      BY <2>2 DEF TypeOK
    <2> QED  BY <2>1, <2>2
  <1>3. RoomKept' /\ EngineKept' /\ Polled'
    BY DEF RoomKept, EngineKept, Polled
  <1>4. Contents' /\ Counted'
    BY <1>1 DEF Contents, Filled, Counted, Giving, Stopping
  <1>5. Left' = Left
    BY DEF Left
  <1>6. Accounted'
    BY <1>5 DEF Accounted, InRing
  <1> QED  BY <1>2, <1>3, <1>4, <1>6

LEMMA PopTestInv == IInv /\ PopTest => IInv'
  <1> SUFFICES ASSUME IInv, PopTest  PROVE IInv'
    OBVIOUS
  <1> USE DEF IInv, PopTest, core1Vars
  <1>1. Length' = Length /\ \A i \in Indices : Occupied(i)' <=> Occupied(i)
    BY IndicesUntouched
  <1>2. TypeOK' /\ RoomKept' /\ EngineKept' /\ Polled'
    BY DEF TypeOK, RoomKept, EngineKept, Polled
  <1>3. Contents' /\ Counted'
    BY <1>1 DEF Contents, Filled, Counted, Giving, Stopping
  <1>4. Accounted'
    BY DEF Accounted, InRing, Left
  <1> QED  BY <1>2, <1>3, <1>4

LEMMA PopMoveInv == IInv /\ PopMove => IInv'
  <1> SUFFICES ASSUME IInv, PopMove  PROVE IInv'
    OBVIOUS
  <1> USE DEF IInv, PopMove, core1Vars
  <1>1. Length' = Length /\ \A i \in Indices : Occupied(i)' <=> Occupied(i)
    BY IndicesUntouched
  <1>2. head # tail /\ head \in Indices /\ Occupied(head) /\ engine0 = Null
    BY LengthBounds DEF TypeOK, EngineKept, Contents
  <1>3. slots[head] \in Engines /\ slots[head] # Null
    BY <1>2 DEF TypeOK, Contents, Filled
  <1>4. TypeOK' /\ RoomKept' /\ EngineKept' /\ Polled'
    BY <1>2, <1>3 DEF TypeOK, RoomKept, EngineKept, Polled, Succ, BUFFER_SIZE
  <1>5. Contents'
    BY <1>1, <1>2, <1>3 DEF TypeOK, Contents, Filled
  <1>6. Counted'
    BY <1>1 DEF Counted, Giving, Stopping
  <1>7. ASSUME NEW e \in Engines  PROVE (e \in owned \/ InRing(e) \/ e = engine0 \/ e \in Left)'
    <2>1. CASE e = slots[head]
      BY <2>1
    <2>2. CASE InRing(e) /\ e # slots[head]
      BY <2>2 DEF TypeOK, InRing
    <2>3. CASE ~InRing(e)
      BY <1>2, <2>3, RetirementAssumption DEF Accounted, Left
    <2> QED  BY <2>1, <2>2, <2>3
  <1> QED  BY <1>4, <1>5, <1>6, <1>7 DEF Accounted

LEMMA PopAdvanceInv == IInv /\ PopAdvance => IInv'
  <1> SUFFICES ASSUME IInv, PopAdvance  PROVE IInv'
    OBVIOUS
  <1> USE DEF IInv, PopAdvance, core1Vars
  <1>1. head \in Indices /\ tail \in Indices /\ head # tail
    BY DEF TypeOK, EngineKept
  <1>2. /\ Length' = Length - 1 /\ head' \in Indices
        /\ \A i \in Indices : Occupied(i)' <=> Occupied(i) /\ i # head
    BY <1>1, AdvanceMoves, SuccWraps
  <1>3. TypeOK' /\ EngineKept' /\ Polled'
    BY <1>2 DEF TypeOK, EngineKept, Polled
  <1>4. RoomKept'
    BY <1>1, SuccInjective DEF RoomKept, Succ, BUFFER_SIZE
  <1>5. Contents'
    BY <1>1, <1>2 DEF Contents, Filled
  <1>6. Counted'
    BY <1>2, LengthBounds DEF TypeOK, Counted, Giving, Stopping
  <1>7. Accounted'
    BY DEF Accounted, InRing, Left
  <1> QED  BY <1>3, <1>4, <1>5, <1>6, <1>7

LEMMA ShutdownInv == IInv /\ ShutdownForDestruction => IInv'
  <1> SUFFICES ASSUME IInv, ShutdownForDestruction  PROVE IInv'
    OBVIOUS
  <1> USE DEF IInv, ShutdownForDestruction, core1Vars
  <1>1. Length' = Length /\ \A i \in Indices : Occupied(i)' <=> Occupied(i)
    BY IndicesUntouched
  <1>2. engine0 \in Engines
    BY DEF TypeOK, Contents
  <1>3. TypeOK'
    BY <1>2 DEF TypeOK
  <1>4. RoomKept' /\ EngineKept' /\ Polled'
    BY DEF RoomKept, EngineKept, Polled, Succ, BUFFER_SIZE
  <1>5. Contents' /\ Counted'
    BY <1>1 DEF Contents, Filled, Counted, Giving, Stopping
  <1>6. Left' = Left \cup {engine0}
    BY DEF Left
  <1>7. Accounted'
    BY <1>6 DEF Accounted, InRing
  <1> QED  BY <1>3, <1>4, <1>5, <1>7

LEMMA CountInv == IInv /\ Count => IInv'
  <1> SUFFICES ASSUME IInv, Count  PROVE IInv'
    OBVIOUS
  <1> USE DEF IInv, Count, core1Vars
  <1>1. Length \in 0..Capacity /\ Length' = Length /\ \A i \in Indices : Occupied(i)' <=> Occupied(i)
    BY LengthBounds, IndicesUntouched DEF TypeOK
  <1>2. active > 0 /\ active' = active - 1
    BY <1>1, CountStep, RetirementAssumption DEF TypeOK, Counted, Giving, Stopping
  <1>3. TypeOK' /\ RoomKept' /\ EngineKept' /\ Polled'
    BY <1>2 DEF TypeOK, RoomKept, EngineKept, Polled, Succ, BUFFER_SIZE
  <1>4. Contents'
    BY <1>1 DEF Contents, Filled
  <1>5. Counted'
    BY <1>1, <1>2 DEF Counted, Giving, Stopping
  <1>6. Accounted'
    BY DEF Accounted, InRing, Left
  <1> QED  BY <1>3, <1>4, <1>5, <1>6

LEMMA StepInv == IInv /\ [Next]_vars => IInv'
  <1> SUFFICES ASSUME IInv, [Next]_vars  PROVE IInv'
    OBVIOUS
  <1>1. ASSUME NEW e \in Engines, Retire(e)  PROVE IInv'
    BY <1>1, RetireInv
  <1>2. CASE RetireStep
    BY <1>2, PushRoomInv, PushWriteInv, PushPublishInv, RetireNotifyInv, RetireFullInv DEF RetireStep
  <1>3. CASE PollStep
    BY <1>3, PollInv
  <1>4. CASE Core0Step
    BY <1>4, WakeInv, PopTestInv, PopMoveInv, PopAdvanceInv, ShutdownInv, CountInv DEF Core0Step
  <1>5. CASE UNCHANGED vars
    <2> USE <1>5 DEF vars
    <2>1. TypeOK'
      BY DEF IInv, TypeOK
    <2>2. RoomKept' /\ EngineKept' /\ Polled'
      BY DEF IInv, RoomKept, EngineKept, Polled, Succ, BUFFER_SIZE
    <2>3. Contents'
      BY DEF IInv, Contents, Filled, Occupied
    <2>4. Counted'
      BY DEF IInv, Counted, Length, Giving, Stopping, BUFFER_SIZE
    <2>5. Accounted'
      BY DEF IInv, Accounted, InRing, Left
    <2> QED  BY <2>1, <2>2, <2>3, <2>4, <2>5 DEF IInv
  <1> QED  BY <1>1, <1>2, <1>3, <1>4, <1>5 DEF Next

LEMMA AlwaysInv == Spec => []IInv
  BY InitInv, StepInv, PTL DEF Spec

(* Every variable keeps its type; in particular the counter of eight bits never    *)
(* wraps below zero and both indices name slots.                                   *)
THEOREM RetirementTypeCorrect == Spec => []TypeOK
  <1>1. IInv => TypeOK
    BY DEF IInv
  <1> QED  BY <1>1, AlwaysInv, PTL

(* Core 1 moves an engine into a slot and Core 0 moves one out without a lock:     *)
(* they never do so in the same slot.                                              *)
THEOREM SlotsNeverRace == Spec => []NoSlotRace
  <1>1. IInv => NoSlotRace
    BY DEF IInv, EngineKept, NoSlotRace
  <1> QED  BY <1>1, AlwaysInv, PTL

(* hasPending() answers FALSE only when nothing that was retired is still to be    *)
(* stopped, whatever the capacity of the ring.                                     *)
THEOREM ReclaimedIsReclaimed == Spec => []ReclaimedWhenNotPending
  <1>1. IInv => ReclaimedWhenNotPending
    <2> SUFFICES ASSUME IInv, pc1 = "reclaimed"
                 PROVE  /\ InFlight = {} /\ active = 0
                        /\ owned \cup quarantine \cup leaked \cup destroyed = Engines
      BY DEF ReclaimedWhenNotPending
    <2>1. active = 0 /\ Length = 0 /\ Stopping = 0
      BY LengthBounds DEF IInv, TypeOK, Polled, Counted, Giving, Stopping
    <2>2. head = tail /\ \A i \in Indices : ~Occupied(i)
      BY <2>1, LengthBounds DEF IInv, TypeOK
    <2>3. engine0 = Null
      BY <2>1, <2>2 DEF IInv, EngineKept, Contents, Stopping
    <2>4. \A i \in Indices : slots[i] = Null
      BY <2>2 DEF IInv, Contents, Filled
    <2>5. InFlight = {}
      BY <2>3, <2>4 DEF InFlight, Ring
    <2>6. \A e \in Engines : e \in owned \/ e \in Left
      BY <2>3, <2>4, RetirementAssumption DEF IInv, Accounted, InRing
    <2> QED  BY <2>1, <2>5, <2>6 DEF IInv, TypeOK, Left
  <1> QED  BY <1>1, AlwaysInv, PTL
--------------------------------------------------------------------------------
(* The refinement: the slots from First up to _tail are the queue. *)
Between(f, t) == (t + BUFFER_SIZE - f) % BUFFER_SIZE
At(f, k) == (f + k - 1) % BUFFER_SIZE

LEMMA Modulo ==
    ASSUME NEW a \in 0..(2 * Capacity + 1)
    PROVE  a % BUFFER_SIZE = IF a < BUFFER_SIZE THEN a ELSE a - BUFFER_SIZE
  <1>1. a \in Nat /\ BUFFER_SIZE \in Nat /\ BUFFER_SIZE > 0 /\ a < 2 * BUFFER_SIZE
    BY RetirementAssumption DEF BUFFER_SIZE
  <1>2. ASSUME a >= BUFFER_SIZE  PROVE a % BUFFER_SIZE = a - BUFFER_SIZE
    BY <1>1, <1>2
  <1>3. ASSUME a < BUFFER_SIZE  PROVE a % BUFFER_SIZE = a
    BY <1>1, <1>3
  <1> QED  BY <1>1, <1>2, <1>3

(* The places of the queue are slots before the tail.                              *)
LEMMA Span ==
    ASSUME NEW f \in Indices, NEW t \in Indices
    PROVE  /\ Between(f, t) = IF f =< t THEN t - f ELSE t + BUFFER_SIZE - f
           /\ Between(f, t) \in 0..Capacity
           /\ \A k \in 1..Capacity :
                At(f, k) = IF f + k - 1 < BUFFER_SIZE THEN f + k - 1 ELSE f + k - 1 - BUFFER_SIZE
           /\ \A k \in 1..Between(f, t) : At(f, k) \in Indices /\ At(f, k) # t
  <1>1. /\ f \in Int /\ t \in Int /\ 0 =< f /\ f =< Capacity /\ 0 =< t /\ t =< Capacity
        /\ Capacity \in Int /\ Capacity > 0 /\ BUFFER_SIZE = Capacity + 1
    BY RetirementAssumption DEF Indices, BUFFER_SIZE
  <1>2. Between(f, t) = IF f =< t THEN t - f ELSE t + BUFFER_SIZE - f
    <2> DEFINE a == t + BUFFER_SIZE - f
    <2>1. a \in 0..(2 * Capacity + 1) /\ (a < BUFFER_SIZE <=> t < f)
      BY <1>1
    <2> HIDE DEF a
    <2>2. a % BUFFER_SIZE = IF a < BUFFER_SIZE THEN a ELSE a - BUFFER_SIZE
      BY <2>1, Modulo
    <2>3. Between(f, t) = IF a < BUFFER_SIZE THEN a ELSE a - BUFFER_SIZE
      BY <2>2 DEF Between, a
    <2> QED  BY <1>1, <2>1, <2>3 DEF a
  <1>3. ASSUME NEW k \in 1..Capacity
        PROVE  At(f, k) = IF f + k - 1 < BUFFER_SIZE THEN f + k - 1 ELSE f + k - 1 - BUFFER_SIZE
    <2> DEFINE a == f + k - 1
    <2>1. a \in 0..(2 * Capacity + 1)
      BY <1>1
    <2> HIDE DEF a
    <2>2. a % BUFFER_SIZE = IF a < BUFFER_SIZE THEN a ELSE a - BUFFER_SIZE
      BY <2>1, Modulo
    <2>3. At(f, k) = IF a < BUFFER_SIZE THEN a ELSE a - BUFFER_SIZE
      BY <2>2 DEF At, a
    <2> QED  BY <1>1, <2>3 DEF a
  <1>4. Between(f, t) \in 0..Capacity
    BY <1>1, <1>2
  <1>5. ASSUME NEW k \in 1..Between(f, t)  PROVE At(f, k) \in Indices /\ At(f, k) # t
    <2>1. k \in 1..Capacity
      BY <1>1, <1>4
    <2> QED  BY <1>1, <1>2, <1>3, <2>1 DEF Indices
  <1> QED  BY <1>2, <1>3, <1>4, <1>5

(* A slot more at the tail is a place more at the end of the queue.                *)
LEMMA SpanGrows ==
    ASSUME NEW f \in Indices, NEW t \in Indices, Succ(t) # f
    PROVE  /\ Between(f, Succ(t)) = Between(f, t) + 1
           /\ Between(f, t) < Capacity
           /\ At(f, Between(f, t) + 1) = t
  <1>1. /\ f \in Int /\ t \in Int /\ 0 =< f /\ f =< Capacity /\ 0 =< t /\ t =< Capacity
        /\ Capacity \in Int /\ Capacity > 0 /\ BUFFER_SIZE = Capacity + 1
    BY RetirementAssumption DEF Indices, BUFFER_SIZE
  <1>2. Succ(t) = (IF t = Capacity THEN 0 ELSE t + 1) /\ Succ(t) \in Indices
    BY SuccWraps
  <1>3. /\ Between(f, t) = IF f =< t THEN t - f ELSE t + BUFFER_SIZE - f
        /\ Between(f, Succ(t)) = IF f =< Succ(t) THEN Succ(t) - f ELSE Succ(t) + BUFFER_SIZE - f
    BY <1>2, Span
  <1>4. Between(f, Succ(t)) = Between(f, t) + 1 /\ Between(f, t) \in 0..(Capacity - 1)
    BY <1>1, <1>2, <1>3
  <1>5. Between(f, t) + 1 \in 1..Capacity
    BY <1>1, <1>4
  <1>6. At(f, Between(f, t) + 1) = t
    <2> DEFINE k == Between(f, t) + 1
    <2>1. At(f, k) = IF f + k - 1 < BUFFER_SIZE THEN f + k - 1 ELSE f + k - 1 - BUFFER_SIZE
      BY <1>5, Span
    <2> QED  BY <1>1, <1>3, <2>1
  <1> QED  BY <1>1, <1>4, <1>6

(* A slot less at the front is a place less at the start of the queue.             *)
LEMMA SpanShrinks ==
    ASSUME NEW f \in Indices, NEW t \in Indices, f # t
    PROVE  /\ Between(Succ(f), t) = Between(f, t) - 1
           /\ Between(f, t) > 0
           /\ At(f, 1) = f
           /\ \A k \in 1..Between(Succ(f), t) :
                At(Succ(f), k) = At(f, k + 1) /\ At(Succ(f), k) # f
  <1>1. /\ f \in Int /\ t \in Int /\ 0 =< f /\ f =< Capacity /\ 0 =< t /\ t =< Capacity
        /\ Capacity \in Int /\ Capacity > 0 /\ BUFFER_SIZE = Capacity + 1
    BY RetirementAssumption DEF Indices, BUFFER_SIZE
  <1>2. Succ(f) = (IF f = Capacity THEN 0 ELSE f + 1) /\ Succ(f) \in Indices
    BY SuccWraps
  <1>3. /\ Between(f, t) = IF f =< t THEN t - f ELSE t + BUFFER_SIZE - f
        /\ Between(Succ(f), t) = IF Succ(f) =< t THEN t - Succ(f) ELSE t + BUFFER_SIZE - Succ(f)
    BY <1>2, Span
  <1>4. Between(Succ(f), t) = Between(f, t) - 1 /\ Between(f, t) \in 1..Capacity
    BY <1>1, <1>2, <1>3
  <1>5. At(f, 1) = f
    <2>1. 1 \in 1..Capacity
      BY <1>1
    <2>2. At(f, 1) = IF f + 1 - 1 < BUFFER_SIZE THEN f + 1 - 1 ELSE f + 1 - 1 - BUFFER_SIZE
      BY <2>1, Span
    <2> QED  BY <1>1, <2>2
  <1>6. ASSUME NEW k \in 1..Between(Succ(f), t)
        PROVE  At(Succ(f), k) = At(f, k + 1) /\ At(Succ(f), k) # f
    <2>1. k \in 1..Capacity /\ k + 1 \in 1..Capacity
      BY <1>1, <1>4
    <2> DEFINE g == Succ(f)
               l == k + 1
    <2>2. At(g, k) = IF g + k - 1 < BUFFER_SIZE THEN g + k - 1 ELSE g + k - 1 - BUFFER_SIZE
      BY <1>2, <2>1, Span
    <2>3. At(f, l) = IF f + l - 1 < BUFFER_SIZE THEN f + l - 1 ELSE f + l - 1 - BUFFER_SIZE
      BY <2>1, Span
    <2> QED  BY <1>1, <1>2, <1>4, <2>1, <2>2, <2>3
  <1> QED  BY <1>1, <1>4, <1>5, <1>6
--------------------------------------------------------------------------------
(* The substitution of the refinement. *)
ownedBar == IF pc1 = "publish" THEN owned \cup {engine1} ELSE owned
queueBar == [k \in 1..Between(First, tail) |-> slots[At(First, k)]]
stoppingBar == {engine0} \ {Null}

LEMMA FirstInIndices == ASSUME TypeOK  PROVE First \in Indices
  BY SuccWraps DEF TypeOK, First

(* What leaves the ring alone leaves the queue alone.                              *)
LEMMA QueueUntouched ==
    ASSUME UNCHANGED <<slots, tail>>, First' = First
    PROVE  queueBar' = queueBar
  BY DEF queueBar, Between, At, BUFFER_SIZE

(* A step that changes nothing the abstract server sees is a stutter.              *)
LEMMA Stutter ==
    ASSUME ownedBar' = ownedBar, queueBar' = queueBar, stoppingBar' = stoppingBar,
           UNCHANGED <<quarantine, leaked, destroyed>>
    PROVE  UNCHANGED Handover!vars
  BY DEF Handover!vars, ownedBar, queueBar, stoppingBar, Between, At

(* The engine is moved into a slot behind the last place of the queue.             *)
LEMMA PushWriteRefines == IInv /\ PushWrite => UNCHANGED Handover!vars
  <1> SUFFICES ASSUME IInv, PushWrite  PROVE UNCHANGED Handover!vars
    OBVIOUS
  <1> USE DEF IInv, PushWrite, core0Vars
  <1>1. First \in Indices /\ First' = First /\ tail \in Indices
    BY FirstInIndices DEF TypeOK, First, Succ, BUFFER_SIZE
  <1>2. \A k \in 1..Between(First, tail) : At(First, k) \in Indices /\ At(First, k) # tail
    BY <1>1, Span
  <1>3. queueBar' = queueBar
    <2>1. \A k \in 1..Between(First, tail) : slots'[At(First, k)] = slots[At(First, k)]
      BY <1>2 DEF TypeOK
    <2>2. Between(First, tail)' = Between(First, tail) /\ \A k : At(First, k)' = At(First, k)
      BY <1>1 DEF Between, At, BUFFER_SIZE
    <2> QED  BY <2>1, <2>2 DEF queueBar
  <1>4. ownedBar' = ownedBar
    BY DEF ownedBar, Contents
  <1>5. stoppingBar' = stoppingBar /\ UNCHANGED <<quarantine, leaked, destroyed>>
    BY DEF stoppingBar
  <1> QED  BY <1>3, <1>4, <1>5, Stutter

(* A sequence with one element more, as a function.                                *)
LEMMA AppendIs ==
    ASSUME NEW S, NEW q \in Seq(S), NEW x \in S
    PROVE  Append(q, x) = [k \in 1..(Len(q) + 1) |-> IF k = Len(q) + 1 THEN x ELSE q[k]]
  <1> DEFINE a == Append(q, x)
  <1>0. a = Append(q, x)
    OBVIOUS
  <1> HIDE DEF a
  <1>1. /\ a \in Seq(S) /\ Len(q) \in Nat /\ Len(a) = Len(q) + 1 /\ a[Len(q) + 1] = x
        /\ \A k \in 1..Len(q) : a[k] = q[k]
    BY <1>0, AppendProperties
  <1>2. a = [k \in 1..(Len(q) + 1) |-> a[k]]
    BY <1>1, LenProperties
  <1>3. \A k \in 1..(Len(q) + 1) : a[k] = IF k = Len(q) + 1 THEN x ELSE q[k]
    BY <1>1
  <1>4. a = [k \in 1..(Len(q) + 1) |-> IF k = Len(q) + 1 THEN x ELSE q[k]]
    BY <1>2, <1>3, Zenon
  <1> QED  BY <1>0, <1>4

(* The store of _tail is the moment an engine is given away.                       *)
LEMMA PushPublishRefines == IInv /\ PushPublish => Handover!Next
  <1> SUFFICES ASSUME IInv, PushPublish  PROVE Handover!Next
    OBVIOUS
  <1> USE DEF IInv, PushPublish, core0Vars
  <1>1. First \in Indices /\ First' = First /\ tail \in Indices
    BY FirstInIndices DEF TypeOK, First, Succ, BUFFER_SIZE
  <1>2. Succ(tail) # First
    <2>1. CASE pc0 = "advance"
      BY <2>1, SuccInjective DEF TypeOK, EngineKept, First
    <2>2. CASE pc0 # "advance"
      BY <2>2 DEF RoomKept, First
    <2> QED  BY <2>1, <2>2
  <1> DEFINE n == Between(First, tail)
  <1>3. n \in Nat /\ n < Capacity /\ Between(First, tail)' = n + 1 /\ At(First, n + 1) = tail
    <2>1. n \in Nat /\ n < Capacity /\ Between(First, Succ(tail)) = n + 1 /\ At(First, n + 1) = tail
      BY <1>1, <1>2, Span, SpanGrows
    <2>2. Between(First, tail)' = Between(First, Succ(tail))
      BY <1>1 DEF Between, BUFFER_SIZE
    <2> QED  BY <2>1, <2>2
  <1>4. \A k : At(First, k)' = At(First, k)
    BY <1>1 DEF At, BUFFER_SIZE
  <1>5. engine1 \in Engines /\ slots[tail] = engine1 /\ engine1 \notin owned
    BY <1>1 DEF TypeOK, Contents, Filled
  <1>6. \A k \in 1..n : slots[At(First, k)] \in Engines \cup {Null}
    BY <1>1, Span DEF TypeOK
  <1> HIDE DEF n
  <1>7. queueBar \in Seq(Engines \cup {Null}) /\ Len(queueBar) = n
    BY <1>3, <1>6 DEF queueBar, n
  <1>8. queueBar' = Append(queueBar, engine1)
    <2>1. queueBar' = [k \in 1..(n + 1) |-> slots[At(First, k)]]
      BY <1>3, <1>4 DEF queueBar
    <2>2. queueBar = [k \in 1..n |-> slots[At(First, k)]]
      BY DEF queueBar, n
    <2> DEFINE Q == queueBar
    <2> HIDE DEF Q
    <2>0. Q \in Seq(Engines \cup {Null}) /\ Len(Q) = n
      BY <1>7 DEF Q
    <2>3. Append(queueBar, engine1) = [k \in 1..(n + 1) |-> IF k = n + 1 THEN engine1 ELSE queueBar[k]]
      BY <1>3, <1>5, <2>0, AppendIs DEF Q
    <2>4. ASSUME NEW k \in 1..(n + 1)
          PROVE  slots[At(First, k)] = IF k = n + 1 THEN engine1 ELSE queueBar[k]
      BY <1>3, <1>5, <2>2
    <2> QED  BY <2>1, <2>3, <2>4
  <1>9. PICK e \in Engines : e = engine1
    BY <1>5
  <1>10. Handover!GiveAway(e)
    <2>1. e \in ownedBar /\ ownedBar' = ownedBar \ {e}
      BY <1>5, <1>9 DEF ownedBar
    <2>2. Len(queueBar) < Capacity /\ queueBar' = Append(queueBar, e)
      BY <1>3, <1>7, <1>8, <1>9
    <2>3. stoppingBar' = stoppingBar
      BY DEF stoppingBar
    <2> QED  BY <2>1, <2>2, <2>3 DEF Handover!GiveAway, ownedBar, queueBar, stoppingBar, Between, At
  <1>11. e \in IF pc1 = "publish" THEN owned \cup {engine1} ELSE owned
    BY <1>9
  <1> QED  BY <1>10, <1>11 DEF Handover!Next

(* The move out of a slot is the moment an engine is taken.                        *)
LEMMA PopMoveRefines == IInv /\ PopMove => Handover!Next
  <1> SUFFICES ASSUME IInv, PopMove  PROVE Handover!Next
    OBVIOUS
  <1> USE DEF IInv, PopMove, core1Vars
  <1>1. /\ First = head /\ First' = Succ(head) /\ head \in Indices /\ tail \in Indices
        /\ head # tail /\ Succ(head) \in Indices
    BY SuccWraps DEF TypeOK, First, EngineKept, Succ, BUFFER_SIZE
  <1> DEFINE n == Between(head, tail)
  <1>2. n \in 1..Capacity /\ Between(First, tail)' = n - 1 /\ At(head, 1) = head
    <2>1. n \in 0..Capacity /\ n > 0 /\ Between(Succ(head), tail) = n - 1 /\ At(head, 1) = head
      BY <1>1, Span, SpanShrinks
    <2>2. Between(First, tail)' = Between(Succ(head), tail)
      BY <1>1 DEF Between, BUFFER_SIZE
    <2> QED  BY <2>1, <2>2, RetirementAssumption
  <1>3. \A k \in 1..(n - 1) : /\ At(First, k)' = At(head, k + 1)
                              /\ At(head, k + 1) # head /\ At(head, k + 1) \in Indices
    <2>1. \A k : At(First, k)' = At(Succ(head), k)
      BY <1>1 DEF At, BUFFER_SIZE
    <2>2. \A k \in 1..(n - 1) : /\ At(Succ(head), k) = At(head, k + 1)
                                /\ At(Succ(head), k) # head
                                /\ At(Succ(head), k) \in Indices
      BY <1>1, Span, SpanShrinks
    <2> QED  BY <2>1, <2>2
  <1>4. engine0 = Null /\ slots[head] \in Engines /\ slots[head] # Null
    BY <1>1, LengthBounds DEF TypeOK, Contents, Filled
  <1>5. \A k \in 1..n : slots[At(head, k)] \in Engines \cup {Null}
    BY <1>1, Span DEF TypeOK
  <1> HIDE DEF n
  <1>6. /\ queueBar = [k \in 1..n |-> slots[At(head, k)]]
        /\ queueBar \in Seq(Engines \cup {Null}) /\ Len(queueBar) = n
    <2>1. queueBar = [k \in 1..n |-> slots[At(head, k)]]
      BY <1>1 DEF queueBar, n
    <2> QED  BY <1>2, <1>5, <2>1
  <1>7. queueBar # <<>> /\ Head(queueBar) = slots[head]
    BY <1>2, <1>6
  <1>8. queueBar' = Tail(queueBar)
    <2>1. queueBar' = [k \in 1..(n - 1) |-> slots'[At(First, k)']]
      BY <1>2 DEF queueBar
    <2>2. Tail(queueBar) = [k \in 1..(n - 1) |-> queueBar[k + 1]]
      BY <1>2, <1>6
    <2>3. ASSUME NEW k \in 1..(n - 1)  PROVE slots'[At(First, k)'] = queueBar[k + 1]
      <3>1. k + 1 \in 1..n /\ queueBar[k + 1] = slots[At(head, k + 1)]
        BY <1>2, <1>6
      <3>2. slots'[At(head, k + 1)] = slots[At(head, k + 1)]
        BY <1>3 DEF TypeOK
      <3> QED  BY <1>3, <3>1, <3>2
    <2> QED  BY <2>1, <2>2, <2>3
  <1>9. Handover!Take
    <2>1. stoppingBar = {} /\ stoppingBar' = {Head(queueBar)}
      BY <1>4, <1>7 DEF stoppingBar
    <2>2. ownedBar' = ownedBar /\ UNCHANGED <<quarantine, leaked, destroyed>>
      BY DEF ownedBar
    <2> QED  BY <1>7, <1>8, <2>1, <2>2 DEF Handover!Take, ownedBar, queueBar, stoppingBar, Between, At
  <1> QED  BY <1>9 DEF Handover!Next

(* The instance has a copy of Cardinality of its own.                              *)
LEMMA SameCardinality == \A S : Handover!Cardinality(S) = Cardinality(S)
  BY DEF Handover!Cardinality, Cardinality

(* The end of an engine is the end of it in the abstract server.                   *)
LEMMA ShutdownRefines == IInv /\ ShutdownForDestruction => Handover!Next
  <1> SUFFICES ASSUME IInv, ShutdownForDestruction  PROVE Handover!Next
    OBVIOUS
  <1> USE DEF IInv, ShutdownForDestruction, core1Vars
  <1>1. First' = First /\ queueBar' = queueBar /\ ownedBar' = ownedBar
    BY QueueUntouched DEF First, Succ, BUFFER_SIZE, ownedBar
  <1>2. stoppingBar = {engine0} /\ stoppingBar # {} /\ stoppingBar' = {}
    BY DEF Contents, stoppingBar
  <1>3. Cardinality(quarantine) \in Nat /\ QuarantineCapacity \in Nat
    BY RetirementAssumption, FS_Subset, FS_CardinalityType DEF TypeOK
  <1>4. CASE destroyed' = destroyed \cup {engine0} /\ UNCHANGED <<quarantine, leaked>>
    <2>1. Handover!Stopped
      BY <1>1, <1>2, <1>4 DEF Handover!Stopped, ownedBar, queueBar, stoppingBar, Between, At
    <2> QED  BY <2>1 DEF Handover!Next
  <1>5. CASE ~(destroyed' = destroyed \cup {engine0} /\ UNCHANGED <<quarantine, leaked>>)
    <2>1. /\ Cardinality(quarantine) < QuarantineCapacity =>
               quarantine' = quarantine \cup stoppingBar /\ leaked' = leaked
          /\ ~(Cardinality(quarantine) < QuarantineCapacity) =>
               leaked' = leaked \cup stoppingBar /\ quarantine' = quarantine
          /\ destroyed' = destroyed
      BY <1>2, <1>3, <1>5
    <2>2. CASE Cardinality(quarantine) < QuarantineCapacity
      BY <1>1, <1>2, <2>1, <2>2, SameCardinality DEF Handover!Next, Handover!Stuck, ownedBar, queueBar, stoppingBar, Between, At
    <2>3. CASE ~(Cardinality(quarantine) < QuarantineCapacity)
      BY <1>1, <1>2, <2>1, <2>3, SameCardinality DEF Handover!Next, Handover!Stuck, ownedBar, queueBar, stoppingBar, Between, At
    <2> QED  BY <2>2, <2>3
  <1> QED  BY <1>4, <1>5

LEMMA RetryRefines == IInv /\ RetryQuarantine => Handover!Next
  <1> SUFFICES ASSUME IInv, RetryQuarantine  PROVE Handover!Next
    OBVIOUS
  <1> USE DEF IInv, RetryQuarantine, core1Vars
  <1>1. First' = First /\ queueBar' = queueBar /\ ownedBar' = ownedBar /\ stoppingBar' = stoppingBar
    BY QueueUntouched DEF First, Succ, BUFFER_SIZE, ownedBar, stoppingBar
  <1>2. PICK S \in SUBSET quarantine : quarantine' = quarantine \ S /\ destroyed' = destroyed \cup S
    OBVIOUS
  <1>3. Handover!StoppedLate(S)
    BY <1>1, <1>2 DEF Handover!StoppedLate, ownedBar, queueBar, stoppingBar, Between, At
  <1> QED  BY <1>3 DEF Handover!Next

(* Every other step changes nothing the abstract server sees.                      *)
LEMMA OthersStutter ==
    ASSUME IInv,
           \/ \E e \in Engines : Retire(e)
           \/ PushRoom \/ RetireNotify \/ RetireFull \/ PollStep
           \/ Wake \/ PopTest \/ PopAdvance \/ Count \/ UNCHANGED vars
    PROVE  UNCHANGED Handover!vars
  <1> USE DEF Retire, PushRoom, RetireNotify, RetireFull, PollStep, PollActive, PollEmpty, Resume,
              Wake, PopTest, PopAdvance, Count, vars, core0Vars, core1Vars
  <1>1. First' = First
    BY DEF First, Succ, BUFFER_SIZE
  <1>2. queueBar' = queueBar
    BY <1>1, QueueUntouched
  <1>3. ownedBar' = ownedBar
    BY DEF ownedBar
  <1>4. stoppingBar' = stoppingBar /\ UNCHANGED <<quarantine, leaked, destroyed>>
    BY DEF stoppingBar
  <1> QED  BY <1>2, <1>3, <1>4, Stutter

LEMMA InitRefines == Init => Handover!Init
  <1> SUFFICES ASSUME Init  PROVE Handover!Init
    OBVIOUS
  <1> USE DEF Init
  <1>1. ownedBar = Engines /\ stoppingBar = {}
    BY DEF ownedBar, stoppingBar
  <1>2. queueBar = <<>>
    <2>1. First = 0 /\ 0 \in Indices
      BY RetirementAssumption DEF First, Indices
    <2>2. Between(0, 0) = 0
      BY <2>1, Span
    <2> QED  BY <2>1, <2>2 DEF queueBar
  <1> QED  BY <1>1, <1>2 DEF Handover!Init, ownedBar, queueBar, stoppingBar, Between, At

LEMMA StepRefines == IInv /\ [Next]_vars => [Handover!Next]_Handover!vars
  <1> SUFFICES ASSUME IInv, [Next]_vars  PROVE [Handover!Next]_Handover!vars
    OBVIOUS
  <1>1. CASE PushWrite
    BY <1>1, PushWriteRefines
  <1>2. CASE PushPublish
    BY <1>2, PushPublishRefines
  <1>3. CASE PopMove
    BY <1>3, PopMoveRefines
  <1>4. CASE ShutdownForDestruction
    BY <1>4, ShutdownRefines
  <1>5. CASE RetryQuarantine
    BY <1>5, RetryRefines
  <1>6. CASE \/ \E e \in Engines : Retire(e)
             \/ PushRoom \/ RetireNotify \/ RetireFull \/ PollStep
             \/ Wake \/ PopTest \/ PopAdvance \/ Count \/ UNCHANGED vars
    BY <1>6, OthersStutter
  <1> QED  BY <1>1, <1>2, <1>3, <1>4, <1>5, <1>6 DEF Next, RetireStep, Core0Step

(* The ring with its dispatcher implements the abstract hand-over: a bounded       *)
(* first in, first out queue, and a server that destroys or keeps what it takes.   *)
THEOREM RingImplementsHandover == Spec => ImplementsHandover
  BY InitRefines, StepRefines, AlwaysInv, PTL DEF Spec, ImplementsHandover, Handover!Spec
--------------------------------------------------------------------------------
(* The display sessions.  A session has the engine its source resolves to, or that *)
(* of the rotation's that had the same name, and an alert's own engine is on as    *)
(* long as its session is the current one.                                         *)
EngineOfSource == session.engine \in Sources => session.engine = session.source
OwnEngineOn ==
    Own(session.source) => session.engine = session.source /\ life[session.source] = "on"

(* What is marked as current is a request that stands; the stacked ones are less   *)
(* urgent than the session above them, and of other sources.                       *)
FreshRequested ==
    /\ session.fresh /\ session.source # Rotation => session.source \in requested
    /\ \A i \in DOMAIN stack :
        stack[i].fresh /\ stack[i].source # Rotation => stack[i].source \in requested
Above ==
    \A i \in DOMAIN stack :
        stack[i].fresh /\ stack[i].source # Rotation =>
            /\ stack[i].source # session.source
            /\ session.fresh /\ session.source # Rotation =>
                Priority[stack[i].source] <= Priority[session.source]

SessionInv ==
    SessionTypeOK /\ EngineOfSource /\ OwnEngineOn /\ FreshRequested /\ Above /\ ParentsInOrder

Lives == {"off", "on", "paused"}

LEMMA FunctionIsSeq ==
    ASSUME NEW n \in Nat, NEW S, NEW f \in [1 .. n -> S]
    PROVE  f \in Seq(S) /\ Len(f) = n
  OBVIOUS

LEMMA StackTyped ==
    ASSUME SessionTypeOK
    PROVE  /\ Len(stack) \in Nat /\ DOMAIN stack = 1 .. Len(stack)
           /\ \A i \in DOMAIN stack :
                /\ stack[i] \in Entries
                /\ stack[i].source \in AllSources /\ stack[i].fresh \in BOOLEAN
  <1>1. stack \in Seq(Entries)
    BY DEF SessionTypeOK
  <1>2. Len(stack) \in Nat /\ DOMAIN stack = 1 .. Len(stack)
    BY <1>1
  <1>3. \A i \in DOMAIN stack : stack[i] \in Entries
    BY <1>1, <1>2
  <1>4. \A e \in Entries : e.source \in AllSources /\ e.fresh \in BOOLEAN
    BY DEF Entries
  <1> QED  BY <1>2, <1>3, <1>4

LEMMA SessionTyped ==
    ASSUME SessionTypeOK
    PROVE  /\ session.source \in AllSources /\ session.fresh \in BOOLEAN
           /\ session.engine \in AllEngines \cup {None}
  BY DEF SessionTypeOK

(* What a handle resolves to is a source's engine only if it is its own.           *)
LEMMA ResolveTyped ==
    ASSUME SessionTypeOK, NEW d \in AllSources
    PROVE  /\ Resolve(d) \in AllEngines \cup {None}
           /\ Resolve(d) \in Sources => Resolve(d) = d
           /\ Own(d) => Resolve(d) = d /\ d \in Sources /\ d \notin Screens
  <1>1. loaded \subseteq Screens /\ screen \in Screens \cup {None}
    BY DEF SessionTypeOK
  <1>2. /\ Rotation \notin Sources /\ Sources \cap Screens = {} /\ None \notin Screens
        /\ None \notin Sources
    BY SessionsAssumption DEF AllEngines
  <1> QED  BY <1>1, <1>2 DEF Resolve, Own, AllSources, AllEngines

LEMMA CallTyped ==
    ASSUME NEW l \in [AllEngines -> Lives], NEW engines, NEW to \in Lives
    PROVE  Call(l, engines, to) \in [AllEngines -> Lives]
  BY DEF Call

LEMMA CallElsewhere ==
    ASSUME NEW l \in [AllEngines -> Lives], NEW engines, engines \cap Sources = {}, NEW to
    PROVE  \A s \in Sources : Call(l, engines, to)[s] = l[s]
  BY DEF Call, AllEngines

(* The arbiter's decision: a request that stands and that none surpasses, or the   *)
(* rotation.                                                                       *)
LEMMA DominantFacts ==
    ASSUME SessionTypeOK, NEW d \in Dominant
    PROVE  /\ d \in AllSources
           /\ d # Rotation => /\ d \in requested
                              /\ \A t \in requested : Priority[t] <= Priority[d]
  <1>1. requested \subseteq Sources
    BY DEF SessionTypeOK
  <1> QED  BY <1>1 DEF Dominant, AllSources

LEMMA EntryTyped ==
    ASSUME NEW s \in AllSources, NEW b \in BOOLEAN, NEW e \in AllEngines \cup {None}
    PROVE  /\ [source |-> s, fresh |-> b, engine |-> e]
                \in [source : AllSources, fresh : BOOLEAN, engine : AllEngines \cup {None}]
           /\ [source |-> s, fresh |-> b] \in Entries
  BY DEF Entries

(* The topmost of a set of places of the stack.                                    *)
LEMMA TopIn ==
    ASSUME NEW n \in Nat, NEW S \in SUBSET (1 .. n), S # {}
    PROVE  Top(S) \in S
  <1> DEFINE D == {m \in Nat : n - m \in S}
  <1>1. D # {}
    <2>1. PICK i \in S : TRUE
      OBVIOUS
    <2>2. i \in Nat /\ i =< n
      OBVIOUS
    <2>3. n - i \in Nat /\ n - (n - i) = i
      BY <2>2
    <2> QED  BY <2>1, <2>3
  <1>2. PICK m \in D : \A k \in D : ~(<<k, m>> \in OpToRel(<, Nat))
    BY <1>1, NatLessThanWellFounded, WFMin, Zenon
  <1>3. m \in Nat /\ n - m \in S /\ \A k \in D : ~(k < m)
    BY <1>2 DEF OpToRel
  <1>4. \A j \in S : j <= n - m
    <2> SUFFICES ASSUME NEW j \in S  PROVE j <= n - m
      OBVIOUS
    <2>1. j \in Nat /\ j =< n /\ n - j \in Nat /\ n - (n - j) = j
      OBVIOUS
    <2>2. n - j \in D
      BY <2>1
    <2>3. ~(n - j < m)
      BY <1>3, <2>2
    <2> QED  BY <1>3, <2>1, <2>3
  <1> QED  BY <1>3, <1>4 DEF Top

LEMMA ParentIn ==
    ASSUME SessionTypeOK, NEW d, Parents(d) # {}
    PROVE  /\ Top(Parents(d)) \in 1 .. Len(stack)
           /\ stack[Top(Parents(d))].source = d
           /\ d # Rotation => stack[Top(Parents(d))].fresh
  <1>1. Parents(d) \in SUBSET (1 .. Len(stack)) /\ Len(stack) \in Nat
    BY StackTyped DEF Parents
  <1>2. Top(Parents(d)) \in Parents(d)
    BY <1>1, TopIn
  <1> QED  BY <1>1, <1>2 DEF Parents

LEMMA SessionInitInv == SessionInit => SessionInv
  <1> SUFFICES ASSUME SessionInit  PROVE SessionInv
    OBVIOUS
  <1>1. SessionTypeOK
    <2>1. <<>> \in Seq(Entries) /\ Len(<<>>) = 0 /\ 0 <= MaxDepth
      BY SessionsAssumption
    <2> QED  BY <2>1 DEF SessionInit, SessionTypeOK, AllSources
  <1>2. Rotation \notin Sources /\ None \notin Sources
    BY SessionsAssumption DEF AllEngines
  <1>3. DOMAIN stack = {}
    BY DEF SessionInit
  <1> QED
    BY <1>1, <1>2, <1>3 DEF SessionInit, SessionInv, EngineOfSource, OwnEngineOn, Own,
                            FreshRequested, Above, ParentsInOrder

--------------------------------------------------------------------------------
(* Steps that leave the session and its stack alone: requests that come, and what  *)
(* the rotation does with its screens.                                             *)
LEMMA QuietInv ==
    ASSUME SessionInv, SessionTypeOK', UNCHANGED <<session, stack>>, requested \subseteq requested',
           \A s \in Sources : life'[s] = life[s]
    PROVE  SessionInv'
  <1>1. EngineOfSource' /\ OwnEngineOn'
    BY DEF SessionInv, EngineOfSource, OwnEngineOn, Own
  <1>2. FreshRequested' /\ Above' /\ ParentsInOrder'
    BY DEF SessionInv, FreshRequested, Above, ParentsInOrder
  <1> QED  BY <1>1, <1>2 DEF SessionInv

LEMMA AskInv ==
    ASSUME SessionInv, NEW s \in Sources, Ask(s)
    PROVE  SessionInv'
  <1>1. SessionTypeOK'
    BY DEF SessionInv, SessionTypeOK, Ask, rotation
  <1> QED  BY <1>1, QuietInv DEF Ask

LEMMA EditInv ==
    ASSUME SessionInv, Suspend \/ Unsuspend \/ EditRotation
    PROVE  SessionInv'
  <1>0. SessionTypeOK
    BY DEF SessionInv
  <1>1. /\ UNCHANGED <<requested, decision, session, stack, screen, loaded, pc>>
        /\ suspended' \in {suspended, TRUE, FALSE} /\ listed' \in {listed, ~listed}
    BY DEF Suspend, Unsuspend, EditRotation
  <1>2. \/ life' = life
        \/ screen # None /\ life' = [life EXCEPT ![screen] = "off"]
        \/ screen # None /\ life' = [life EXCEPT ![screen] = "on"]
    BY DEF Suspend, Unsuspend, EditRotation
  <1>3. screen # None => screen \notin Sources
    BY <1>0, SessionsAssumption DEF SessionTypeOK
  <1>4. life' \in [AllEngines -> {"off", "on", "paused"}]
    BY <1>0, <1>2 DEF SessionTypeOK
  <1>5. \A s \in Sources : life'[s] = life[s]
    BY <1>0, <1>2, <1>3 DEF SessionTypeOK, AllEngines
  <1>6. suspended' \in BOOLEAN /\ listed' \in BOOLEAN
    BY <1>0, <1>1 DEF SessionTypeOK
  <1>7. SessionTypeOK'
    BY <1>0, <1>1, <1>4, <1>6 DEF SessionTypeOK
  <1> QED  BY <1>1, <1>5, <1>7, QuietInv

LEMMA RenderInv ==
    ASSUME SessionInv, RenderAlert \/ RotateToNothing \/ \E s \in Screens : Rotate(s)
    PROVE  SessionInv'
  <1>0. SessionTypeOK
    BY DEF SessionInv
  <1>1. UNCHANGED <<requested, decision, session, stack, suspended, listed>> /\ pc' = "update"
    BY DEF RenderAlert, RotateToNothing, Rotate, rotation
  <1>2. /\ screen \in Screens \cup {None} /\ loaded \subseteq Screens
        /\ life \in [AllEngines -> Lives] /\ Screens \cap Sources = {} /\ None \notin Sources
    BY <1>0, SessionsAssumption DEF SessionTypeOK, Lives, AllEngines
  <1>3. /\ screen' \in Screens \cup {None} /\ loaded' \subseteq Screens
        /\ life' \in [AllEngines -> Lives]
        /\ \A s \in Sources : life'[s] = life[s]
    <2>1. CASE RenderAlert
      BY <1>2, <2>1 DEF RenderAlert
    <2>2. CASE RotateToNothing
      <3>1. screen' = None /\ loaded' = loaded /\ life' = Call(life, {screen}, "off")
        BY <2>2 DEF RotateToNothing
      <3> QED  BY <1>2, <3>1, CallTyped, CallElsewhere DEF Lives
    <2>3. ASSUME NEW next \in Screens, Rotate(next)
          PROVE  /\ screen' \in Screens \cup {None} /\ loaded' \subseteq Screens
                 /\ life' \in [AllEngines -> Lives]
                 /\ \A s \in Sources : life'[s] = life[s]
      <3>1. /\ screen' = next /\ loaded' = loaded \cup {next}
            /\ life' = IF next = screen THEN life
                       ELSE Call(Call(life, {screen}, "off"), {next}, "on")
        BY <2>3 DEF Rotate
      <3> DEFINE mid == Call(life, {screen}, "off")
      <3>2. mid \in [AllEngines -> Lives] /\ \A s \in Sources : mid[s] = life[s]
        BY <1>2, CallTyped, CallElsewhere DEF Lives
      <3>3. /\ Call(mid, {next}, "on") \in [AllEngines -> Lives]
            /\ \A s \in Sources : Call(mid, {next}, "on")[s] = mid[s]
        BY <1>2, <3>2, CallTyped, CallElsewhere DEF Lives
      <3> QED  BY <1>2, <3>1, <3>2, <3>3
    <2> QED  BY <2>1, <2>2, <2>3
  <1>4. SessionTypeOK'
    BY <1>0, <1>1, <1>3 DEF SessionTypeOK, Lives
  <1> QED  BY <1>1, <1>3, <1>4, QuietInv

(* A request that is withdrawn is the request of no session any more.              *)
LEMMA WithdrawInv ==
    ASSUME SessionInv, NEW s \in Sources, Withdraw(s)
    PROVE  SessionInv'
  <1>0. SessionTypeOK /\ Rotation \notin Sources
    BY SessionsAssumption DEF SessionInv
  <1>1. /\ UNCHANGED <<decision, screen, loaded, suspended, listed, life, pc>>
        /\ requested' = requested \ {s}
        /\ session' = [session EXCEPT !.fresh = session.fresh /\ session.source # s]
        /\ stack' = [i \in DOMAIN stack |->
                        [stack[i] EXCEPT !.fresh = stack[i].fresh /\ stack[i].source # s]]
    BY DEF Withdraw, Outdate, rotation
  <1>2. /\ session' \in [source : AllSources, fresh : BOOLEAN, engine : AllEngines \cup {None}]
        /\ session'.source = session.source /\ session'.engine = session.engine
        /\ session'.fresh => session.fresh /\ session.source # s
    BY <1>0, <1>1 DEF SessionTypeOK
  <1>3. /\ DOMAIN stack' = DOMAIN stack
        /\ \A i \in DOMAIN stack :
             /\ stack'[i] \in Entries /\ stack'[i].source = stack[i].source
             /\ stack'[i].fresh => stack[i].fresh /\ stack[i].source # s
    BY <1>0, <1>1, StackTyped DEF Entries
  <1>4. stack' \in Seq(Entries) /\ Len(stack') = Len(stack)
    <2>1. stack' \in [1 .. Len(stack) -> Entries] /\ Len(stack) \in Nat
      BY <1>0, <1>1, <1>3, StackTyped
    <2> QED  BY <2>1
  <1>5. SessionTypeOK'
    BY <1>0, <1>1, <1>2, <1>4 DEF SessionTypeOK
  <1>6. EngineOfSource' /\ OwnEngineOn'
    BY <1>1, <1>2 DEF SessionInv, EngineOfSource, OwnEngineOn, Own
  <1>7. FreshRequested'
    <2>1. session'.fresh /\ session'.source # Rotation => session'.source \in requested'
      BY <1>1, <1>2 DEF SessionInv, FreshRequested
    <2>2. \A i \in DOMAIN stack' :
             stack'[i].fresh /\ stack'[i].source # Rotation => stack'[i].source \in requested'
      <3> SUFFICES ASSUME NEW i \in DOMAIN stack', stack'[i].fresh, stack'[i].source # Rotation
                   PROVE  stack'[i].source \in requested'
        OBVIOUS
      <3>1. i \in DOMAIN stack
        BY <1>3
      <3>2. stack'[i].source = stack[i].source /\ stack[i].fresh /\ stack[i].source # s
        BY <1>3, <3>1
      <3>3. stack[i].source \in requested
        BY <3>1, <3>2 DEF SessionInv, FreshRequested
      <3>4. requested' = requested \ {s}
        BY <1>1
      <3> QED  BY <3>2, <3>3, <3>4
    <2> QED  BY <2>1, <2>2, Zenon DEF FreshRequested
  <1>8. Above'
    BY <1>2, <1>3 DEF SessionInv, Above
  <1>9. ParentsInOrder'
    BY <1>3 DEF SessionInv, ParentsInOrder
  <1> QED  BY <1>5, <1>6, <1>7, <1>8, <1>9 DEF SessionInv

(* An instance that the rotation gives up takes the entries that are named after   *)
(* it out of the stack; the others keep their order.                               *)
LEMMA RetireInstanceInv ==
    ASSUME SessionInv, NEW gone \in Screens, RetireInstance(gone)
    PROVE  SessionInv'
  <1>0. /\ SessionTypeOK /\ Screens \cap Sources = {} /\ None \notin Sources
        /\ None \notin Screens
    BY SessionsAssumption DEF SessionInv, AllEngines
  <1>1. /\ UNCHANGED <<requested, decision, suspended, listed, pc>>
        /\ loaded' = loaded \ {gone} /\ screen' \in {screen, None}
        /\ life' = Call(life, {gone}, "off") /\ Purge(gone)
    BY DEF RetireInstance, rotation
  <1>2. /\ session' \in [source : AllSources, fresh : BOOLEAN, engine : AllEngines \cup {None}]
        /\ session'.source = session.source /\ session'.fresh = session.fresh
        /\ session'.engine \in {session.engine, None}
        /\ session.engine # gone /\ ~Named(session.source, gone) => session' = session
    BY <1>0, <1>1 DEF Purge, SessionTypeOK
  <1> DEFINE others == {i \in DOMAIN stack : ~Named(stack[i].source, gone)}
  <1>3. PICK kept \in [1 .. Cardinality(others) -> others] :
            /\ \A m, n \in DOMAIN kept : m < n => kept[m] < kept[n]
            /\ stack' = [k \in DOMAIN kept |-> stack[kept[k]]]
    BY <1>1 DEF Purge
  <1>4. Cardinality(others) \in Nat /\ Cardinality(others) <= Len(stack)
    <2>1. Len(stack) \in Nat /\ DOMAIN stack = 1 .. Len(stack)
      BY <1>0, StackTyped
    <2>2. IsFiniteSet(1 .. Len(stack)) /\ Cardinality(1 .. Len(stack)) = Len(stack)
      <3>1. 1 \in Int /\ Len(stack) \in Int
        BY <2>1
      <3>2. /\ IsFiniteSet(1 .. Len(stack))
            /\ Cardinality(1 .. Len(stack))
                   = IF 1 > Len(stack) THEN 0 ELSE Len(stack) - 1 + 1
        BY <3>1, FS_Interval, Zenon
      <3> QED  BY <2>1, <3>2
    <2>3. others \in SUBSET (1 .. Len(stack))
      BY <2>1
    <2>4. IsFiniteSet(others) /\ Cardinality(others) <= Cardinality(1 .. Len(stack))
      BY <2>2, <2>3, FS_Subset
    <2>5. Cardinality(others) \in Nat
      BY <2>4, FS_CardinalityType
    <2> QED  BY <2>2, <2>4, <2>5
  <1>5. /\ DOMAIN stack' = DOMAIN kept /\ DOMAIN kept = 1 .. Cardinality(others)
        /\ \A k \in DOMAIN kept : kept[k] \in DOMAIN stack /\ stack'[k] = stack[kept[k]]
    BY <1>3
  <1>6. stack' \in Seq(Entries) /\ Len(stack') = Cardinality(others)
    <2>1. stack' \in [1 .. Cardinality(others) -> Entries]
      BY <1>0, <1>3, <1>5, StackTyped
    <2> HIDE DEF others
    <2> QED  BY <1>4, <2>1, FunctionIsSeq
  <1>7. life' \in [AllEngines -> Lives] /\ \A s \in Sources : life'[s] = life[s]
    <2>1. life \in [AllEngines -> Lives] /\ {gone} \cap Sources = {}
      BY <1>0 DEF SessionTypeOK, Lives
    <2> QED  BY <1>1, <2>1, CallTyped, CallElsewhere DEF Lives
  <1>8. SessionTypeOK'
    <2>1. Len(stack') <= MaxDepth
      BY <1>0, <1>4, <1>6, SessionsAssumption, StackTyped DEF SessionTypeOK
    <2>2. loaded' \subseteq Screens /\ screen' \in Screens \cup {None}
      BY <1>0, <1>1 DEF SessionTypeOK
    <2> QED  BY <1>0, <1>1, <1>2, <1>6, <1>7, <2>1, <2>2 DEF SessionTypeOK, Lives
  <1>9. EngineOfSource'
    BY <1>0, <1>2 DEF SessionInv, EngineOfSource
  <1>10. OwnEngineOn'
    <2> SUFFICES ASSUME Own(session.source)
                 PROVE  session'.engine = session.source /\ life'[session.source] = "on"
      BY <1>2 DEF OwnEngineOn, Own
    <2>1. session.engine = session.source /\ life[session.source] = "on"
      BY DEF SessionInv, OwnEngineOn
    <2>2. session.engine # gone /\ ~Named(session.source, gone) /\ session.source \in Sources
      BY <1>0, <2>1 DEF Own, Named
    <2> QED  BY <1>2, <1>7, <2>1, <2>2
  <1>11. FreshRequested' /\ Above'
    BY <1>1, <1>2, <1>5 DEF SessionInv, FreshRequested, Above
  <1>12. ParentsInOrder'
    BY <1>3, <1>5 DEF SessionInv, ParentsInOrder
  <1> QED  BY <1>8, <1>9, <1>10, <1>11, <1>12 DEF SessionInv

--------------------------------------------------------------------------------
(* update(): the four cases of a transition. *)
LEMMA RefreshInv ==
    ASSUME SessionInv, NEW d \in Dominant, Refresh(d), UNCHANGED <<requested, suspended, listed>>,
           decision' = d, pc' = "render"
    PROVE  SessionInv'
  <1>0. SessionTypeOK
    BY DEF SessionInv
  <1>d. /\ d \in AllSources
        /\ d # Rotation => d \in requested /\ \A t \in requested : Priority[t] <= Priority[d]
    BY <1>0, DominantFacts
  <1>1. /\ UNCHANGED <<stack, screen, loaded, life>> /\ d = session.source
        /\ session' = [session EXCEPT !.fresh = TRUE]
    BY DEF Refresh, Same
  <1>2. /\ session' \in [source : AllSources, fresh : BOOLEAN, engine : AllEngines \cup {None}]
        /\ session'.source = session.source /\ session'.engine = session.engine
    BY <1>0, <1>1 DEF SessionTypeOK
  <1>3. SessionTypeOK'
    BY <1>0, <1>d, <1>1, <1>2 DEF SessionTypeOK
  <1>4. EngineOfSource' /\ OwnEngineOn'
    BY <1>1, <1>2 DEF SessionInv, EngineOfSource, OwnEngineOn, Own
  <1>5. FreshRequested'
    BY <1>d, <1>1, <1>2 DEF SessionInv, FreshRequested
  <1>6. Above'
    BY <1>d, <1>1, <1>2 DEF SessionInv, FreshRequested, Above
  <1>7. ParentsInOrder'
    BY <1>1 DEF SessionInv, ParentsInOrder
  <1> QED  BY <1>3, <1>4, <1>5, <1>6, <1>7 DEF SessionInv

(* The parent's session comes back with its own engine on, and below it lie the    *)
(* less urgent ones, as before.                                                    *)
LEMMA ResumeInv ==
    ASSUME SessionInv, NEW d \in Dominant, ResumeParent(d),
           UNCHANGED <<requested, suspended, listed>>, decision' = d, pc' = "render"
    PROVE  SessionInv'
  <1>0. SessionTypeOK
    BY DEF SessionInv
  <1>d. /\ d \in AllSources
        /\ d # Rotation => d \in requested /\ \A t \in requested : Priority[t] <= Priority[d]
    BY <1>0, DominantFacts
  <1> DEFINE parent == Top(Parents(d))
             expired == {Resolve(stack[i].source) : i \in parent + 1 .. Len(stack)}
             left == Call(life, {session.engine} \cup expired, "off")
  <1>1. /\ parent \in 1 .. Len(stack) /\ stack[parent].source = d
        /\ d # Rotation => stack[parent].fresh
    BY <1>0, ParentIn DEF ResumeParent
  <1>2. /\ life' = Call(left, {Resolve(d)}, "on")
        /\ stack' = SubSeq(stack, 1, parent - 1)
        /\ session' = [source |-> d, fresh |-> stack[parent].fresh, engine |-> Resolve(d)]
        /\ UNCHANGED <<screen, loaded>>
    BY DEF ResumeParent
  <1>3. /\ Len(stack) \in Nat /\ DOMAIN stack = 1 .. Len(stack) /\ stack \in Seq(Entries)
        /\ stack[parent].fresh \in BOOLEAN /\ Len(stack) <= MaxDepth
    BY <1>0, <1>1, StackTyped DEF SessionTypeOK
  <1> HIDE DEF parent
  <1>4. /\ stack' \in Seq(Entries) /\ Len(stack') = parent - 1
        /\ DOMAIN stack' = 1 .. parent - 1
        /\ \A i \in 1 .. parent - 1 : stack'[i] = stack[i] /\ i \in DOMAIN stack
    BY <1>1, <1>2, <1>3
  <1>5. /\ Resolve(d) \in AllEngines \cup {None}
        /\ Resolve(d) \in Sources => Resolve(d) = d
        /\ Own(d) => Resolve(d) = d /\ d \in Sources
    BY <1>0, <1>d, ResolveTyped
  <1>6. /\ session' \in [source : AllSources, fresh : BOOLEAN, engine : AllEngines \cup {None}]
        /\ session'.source = d /\ session'.engine = Resolve(d)
        /\ session'.fresh = stack[parent].fresh
    BY <1>d, <1>2, <1>3, <1>5
  <1>7. left \in [AllEngines -> Lives] /\ life' \in [AllEngines -> Lives]
    <2>1. life \in [AllEngines -> Lives]
      BY <1>0 DEF SessionTypeOK, Lives
    <2>2. left \in [AllEngines -> Lives]
      BY <2>1, CallTyped DEF Lives
    <2> QED  BY <1>2, <2>2, CallTyped DEF Lives
  <1>8. SessionTypeOK'
    <2>1. Len(stack') <= MaxDepth
      BY <1>1, <1>3, <1>4, SessionsAssumption
    <2> QED  BY <1>0, <1>d, <1>2, <1>4, <1>6, <1>7, <2>1 DEF SessionTypeOK, Lives
  <1>9. EngineOfSource'
    BY <1>5, <1>6 DEF EngineOfSource
  <1>10. OwnEngineOn'
    <2>1. ASSUME Own(d)  PROVE life'[d] = "on"
      BY <1>2, <1>5, <2>1 DEF Call, AllEngines
    <2> QED  BY <1>5, <1>6, <2>1 DEF OwnEngineOn, Own
  <1>11. FreshRequested'
    BY <1>d, <1>4, <1>6 DEF SessionInv, FreshRequested
  <1>12. Above'
    <2> SUFFICES ASSUME NEW i \in 1 .. parent - 1, stack[i].fresh, stack[i].source # Rotation
                 PROVE  /\ stack[i].source # d
                        /\ d # Rotation => Priority[stack[i].source] <= Priority[d]
      BY <1>4, <1>6 DEF Above
    <2>1. i \in DOMAIN stack /\ parent \in DOMAIN stack /\ i < parent
      BY <1>1, <1>3, <1>4
    <2> QED  BY <1>1, <2>1 DEF SessionInv, ParentsInOrder
  <1>13. ParentsInOrder'
    BY <1>4 DEF SessionInv, ParentsInOrder
  <1> QED  BY <1>8, <1>9, <1>10, <1>11, <1>12, <1>13 DEF SessionInv

(* A preempted session is pushed under a request that surpasses it.                *)
LEMMA PreemptInv ==
    ASSUME SessionInv, NEW d \in Dominant, Preempt(d),
           UNCHANGED <<requested, suspended, listed>>, decision' = d, pc' = "render"
    PROVE  SessionInv'
  <1>0. SessionTypeOK /\ Rotation \notin Sources
    BY SessionsAssumption DEF SessionInv
  <1> DEFINE entry == [source |-> session.source, fresh |-> session.fresh]
  <1>1. /\ d \in Alerts /\ d # session.source /\ Parents(d) = {} /\ Len(stack) < MaxDepth
        /\ stack' = Append(stack, entry)
        /\ session' = [source |-> d, fresh |-> TRUE, engine |-> Resolve(d)]
        /\ UNCHANGED <<screen, loaded>>
    BY DEF Preempt, Preempts
  <1>2. life' = IF Resolve(d) = session.engine THEN life
               ELSE Call(Call(life, {session.engine}, "paused"), {Resolve(d)}, "on")
    BY DEF Preempt
  <1>d. /\ d \in AllSources /\ d \in Sources /\ d # Rotation /\ d \in requested
        /\ \A t \in requested : Priority[t] <= Priority[d]
    BY <1>0, <1>1, DominantFacts DEF Sources
  <1>3. /\ Len(stack) \in Nat /\ DOMAIN stack = 1 .. Len(stack) /\ stack \in Seq(Entries)
        /\ entry \in Entries /\ entry.source = session.source /\ entry.fresh = session.fresh
    BY <1>0, StackTyped, SessionTyped, EntryTyped DEF SessionTypeOK
  <1> HIDE DEF entry
  <1>4. /\ stack' \in Seq(Entries) /\ Len(stack') = Len(stack) + 1
        /\ DOMAIN stack' = 1 .. Len(stack) + 1
        /\ \A i \in 1 .. Len(stack) : stack'[i] = stack[i] /\ i \in DOMAIN stack
        /\ stack'[Len(stack) + 1] = entry
    BY <1>1, <1>3
  <1>5. /\ Resolve(d) \in AllEngines \cup {None}
        /\ Resolve(d) \in Sources => Resolve(d) = d
        /\ Own(d) => Resolve(d) = d /\ d \in Sources
    BY <1>0, <1>d, ResolveTyped
  <1>6. /\ session' \in [source : AllSources, fresh : BOOLEAN, engine : AllEngines \cup {None}]
        /\ session'.source = d /\ session'.engine = Resolve(d) /\ session'.fresh = TRUE
    BY <1>d, <1>1, <1>5
  <1>7. life' \in [AllEngines -> Lives]
    <2>1. life \in [AllEngines -> Lives]
      BY <1>0 DEF SessionTypeOK, Lives
    <2>2. Call(life, {session.engine}, "paused") \in [AllEngines -> Lives]
      BY <2>1, CallTyped DEF Lives
    <2>3. Call(Call(life, {session.engine}, "paused"), {Resolve(d)}, "on") \in [AllEngines -> Lives]
      BY <2>2, CallTyped DEF Lives
    <2> QED  BY <1>2, <2>1, <2>3
  <1>8. SessionTypeOK'
    <2>1. Len(stack') <= MaxDepth
      BY <1>1, <1>3, <1>4, SessionsAssumption
    <2> QED  BY <1>0, <1>d, <1>1, <1>4, <1>6, <1>7, <2>1 DEF SessionTypeOK, Lives
  <1>9. EngineOfSource'
    BY <1>5, <1>6 DEF EngineOfSource
  <1>10. OwnEngineOn'
    <2>1. ASSUME Own(d)  PROVE life'[d] = "on"
      <3>1. Resolve(d) # session.engine
        BY <1>1, <1>5, <2>1 DEF SessionInv, EngineOfSource
      <3> QED  BY <1>2, <1>5, <2>1, <3>1 DEF Call, AllEngines
    <2> QED  BY <1>5, <1>6, <2>1 DEF OwnEngineOn, Own
  <1>11. FreshRequested'
    BY <1>d, <1>3, <1>4, <1>6 DEF SessionInv, FreshRequested
  <1>12. Above'
    <2> SUFFICES ASSUME NEW i \in 1 .. Len(stack) + 1,
                        stack'[i].fresh, stack'[i].source # Rotation
                 PROVE  /\ stack'[i].source # d
                        /\ Priority[stack'[i].source] <= Priority[d]
      BY <1>4, <1>6 DEF Above
    <2>1. CASE i \in 1 .. Len(stack)
      <3>1. stack'[i] = stack[i] /\ i \in DOMAIN stack
        BY <1>4, <2>1
      <3>2. stack[i].source # d
        BY <1>1, <3>1 DEF Parents
      <3> QED  BY <1>d, <3>1, <3>2 DEF SessionInv, FreshRequested
    <2>2. CASE i = Len(stack) + 1
      BY <1>d, <1>1, <1>3, <1>4, <2>2 DEF SessionInv, FreshRequested
    <2> QED  BY <1>3, <2>1, <2>2
  <1>13. ParentsInOrder'
    <2> SUFFICES ASSUME NEW i \in 1 .. Len(stack) + 1, NEW j \in 1 .. Len(stack) + 1, i < j,
                        stack'[i].fresh, stack'[j].fresh,
                        stack'[i].source # Rotation, stack'[j].source # Rotation
                 PROVE  /\ stack'[i].source # stack'[j].source
                        /\ Priority[stack'[i].source] <= Priority[stack'[j].source]
      BY <1>4 DEF ParentsInOrder
    <2>1. i \in 1 .. Len(stack)
      BY <1>3
    <2>2. stack'[i] = stack[i] /\ i \in DOMAIN stack
      BY <1>4, <2>1
    <2>3. CASE j \in 1 .. Len(stack)
      BY <1>4, <2>2, <2>3 DEF SessionInv, ParentsInOrder
    <2>4. CASE j = Len(stack) + 1
      BY <1>3, <1>4, <2>2, <2>4 DEF SessionInv, Above
    <2> QED  BY <1>3, <2>3, <2>4
  <1> QED  BY <1>8, <1>9, <1>10, <1>11, <1>12, <1>13 DEF SessionInv

(* A session that replaces another has the stack only if it is an alert that none  *)
(* of the stack's requests is.                                                     *)
LEMMA ReplaceInv ==
    ASSUME SessionInv, NEW d \in Dominant, Replace(d),
           UNCHANGED <<requested, suspended, listed>>, decision' = d, pc' = "render"
    PROVE  SessionInv'
  <1>0. SessionTypeOK /\ Rotation \notin Sources
    BY SessionsAssumption DEF SessionInv
  <1>d. /\ d \in AllSources
        /\ d # Rotation => d \in requested /\ \A t \in requested : Priority[t] <= Priority[d]
    BY <1>0, DominantFacts
  <1> DEFINE within == d = Rotation /\ session.source = Rotation
             orphans == IF d \in Alerts THEN {}
                        ELSE {Resolve(stack[i].source) : i \in DOMAIN stack}
             evicted == IF d = WebUi /\ ~Psram THEN loaded ELSE {}
             stopped == (IF within THEN {} ELSE {session.engine}) \cup orphans
             left == Call(life, (stopped \ {Resolve(d)}) \cup evicted, "off")
  <1>1. /\ ~Same(d) /\ Parents(d) = {}
        /\ stack' = IF d \in Alerts THEN stack ELSE <<>>
        /\ session' = [source |-> d, fresh |-> TRUE, engine |-> Resolve(d)]
        /\ loaded' = loaded \ evicted /\ screen' \in {None, screen}
    BY DEF Replace
  <1>2. life' = IF within \/ Resolve(d) = session.engine THEN left
               ELSE Call(left, {Resolve(d)}, "on")
    BY DEF Replace
  <1> HIDE DEF evicted, orphans, stopped
  <1>3. /\ stack' \in Seq(Entries) /\ Len(stack') <= MaxDepth
        /\ \A i \in DOMAIN stack' : d \in Alerts /\ stack' = stack /\ i \in DOMAIN stack
    <2>1. CASE d \in Alerts
      BY <1>0, <1>1, <2>1 DEF SessionTypeOK
    <2>2. CASE d \notin Alerts
      <3>1. <<>> \in Seq(Entries) /\ Len(<<>>) = 0 /\ DOMAIN <<>> = {} /\ 0 <= MaxDepth
        BY SessionsAssumption
      <3> QED  BY <1>1, <2>2, <3>1
    <2> QED  BY <2>1, <2>2
  <1>5. /\ Resolve(d) \in AllEngines \cup {None}
        /\ Resolve(d) \in Sources => Resolve(d) = d
        /\ Own(d) => Resolve(d) = d /\ d \in Sources
    BY <1>0, <1>d, ResolveTyped
  <1>6. /\ session' \in [source : AllSources, fresh : BOOLEAN, engine : AllEngines \cup {None}]
        /\ session'.source = d /\ session'.engine = Resolve(d) /\ session'.fresh = TRUE
    BY <1>d, <1>1, <1>5
  <1>7. left \in [AllEngines -> Lives] /\ life' \in [AllEngines -> Lives]
    <2>1. life \in [AllEngines -> Lives]
      BY <1>0 DEF SessionTypeOK, Lives
    <2>2. left \in [AllEngines -> Lives]
      BY <2>1, CallTyped DEF Lives
    <2>3. Call(left, {Resolve(d)}, "on") \in [AllEngines -> Lives]
      BY <2>2, CallTyped DEF Lives
    <2> QED  BY <1>2, <2>2, <2>3
  <1>8. SessionTypeOK'
    <2>1. loaded' \subseteq Screens /\ screen' \in Screens \cup {None}
      BY <1>0, <1>1 DEF SessionTypeOK
    <2> QED  BY <1>0, <1>d, <1>3, <1>6, <1>7, <2>1 DEF SessionTypeOK, Lives
  <1>9. EngineOfSource'
    BY <1>5, <1>6 DEF EngineOfSource
  <1>10. OwnEngineOn'
    <2>1. ASSUME Own(d)  PROVE life'[d] = "on"
      <3>1. Resolve(d) # session.engine
        BY <1>1, <1>5, <2>1 DEF SessionInv, EngineOfSource, Same
      <3>2. ~within
        BY <1>0, <2>1 DEF Own
      <3>3. life' = Call(left, {Resolve(d)}, "on")
        BY <1>2, <3>1, <3>2
      <3> HIDE DEF left
      <3> QED  BY <1>5, <2>1, <3>3 DEF Call, AllEngines
    <2> QED  BY <1>5, <1>6, <2>1 DEF OwnEngineOn, Own
  <1>11. FreshRequested'
    BY <1>d, <1>3, <1>6 DEF SessionInv, FreshRequested
  <1>12. Above'
    <2> SUFFICES ASSUME NEW i \in DOMAIN stack', stack'[i].fresh, stack'[i].source # Rotation
                 PROVE  /\ stack'[i].source # d
                        /\ d # Rotation => Priority[stack'[i].source] <= Priority[d]
      BY <1>6 DEF Above
    <2>1. stack' = stack /\ i \in DOMAIN stack
      BY <1>3
    <2>2. stack[i].source # d
      BY <1>1, <2>1 DEF Parents
    <2> QED  BY <1>d, <2>1, <2>2 DEF SessionInv, FreshRequested
  <1>13. ParentsInOrder'
    BY <1>3 DEF SessionInv, ParentsInOrder
  <1> QED  BY <1>8, <1>9, <1>10, <1>11, <1>12, <1>13 DEF SessionInv

LEMMA UpdateInv == SessionInv /\ Update => SessionInv'
  <1> SUFFICES ASSUME SessionInv, Update  PROVE SessionInv'
    OBVIOUS
  <1>1. PICK d \in Dominant : decision' = d /\ Transition(d)
    BY DEF Update
  <1>2. UNCHANGED <<requested, suspended, listed>> /\ pc' = "render"
    BY DEF Update, rotation
  <1>3. CASE RejectResume(d) \/ RejectPreempt(d)
    <2>1. UNCHANGED <<session, stack, screen, loaded, life>>
      BY <1>3 DEF RejectResume, RejectPreempt
    <2>2. d \in AllSources
      BY DominantFacts DEF SessionInv
    <2>3. SessionTypeOK'
      BY <1>1, <1>2, <2>1, <2>2 DEF SessionInv, SessionTypeOK
    <2> QED  BY <1>2, <2>1, <2>3, QuietInv
  <1> QED
    BY <1>1, <1>2, <1>3, RefreshInv, ResumeInv, PreemptInv, ReplaceInv DEF Transition

LEMMA SessionNextInv == SessionInv /\ [SessionNext]_sessionVars => SessionInv'
  <1> SUFFICES ASSUME SessionInv, [SessionNext]_sessionVars  PROVE SessionInv'
    OBVIOUS
  <1>1. CASE Update
    BY <1>1, UpdateInv
  <1>2. CASE Render
    BY <1>2, RenderInv, RetireInstanceInv DEF Render
  <1>3. CASE \E s \in Sources : Ask(s) \/ Withdraw(s)
    BY <1>3, AskInv, WithdrawInv
  <1>4. CASE Suspend \/ Unsuspend \/ EditRotation
    BY <1>4, EditInv
  <1>5. CASE UNCHANGED sessionVars
    <2>1. SessionTypeOK'
      BY <1>5 DEF SessionInv, SessionTypeOK, sessionVars
    <2> QED  BY <1>5, <2>1, QuietInv DEF sessionVars
  <1> QED  BY <1>1, <1>2, <1>3, <1>4, <1>5 DEF SessionNext

THEOREM SessionSpecInv == SessionSpec => []SessionInv
  BY SessionInitInv, SessionNextInv, PTL DEF SessionSpec

(* The session, its stack and the engines' states keep their kind: the stack of     *)
(* preempted sessions never outgrows its MaxDepth places.                          *)
THEOREM SessionTypeCorrect == SessionSpec => []SessionTypeOK
  <1>1. SessionInv => SessionTypeOK
    BY DEF SessionInv
  <1> QED  BY <1>1, SessionSpecInv, PTL

(* No path through REFRESH, RESUME, PREEMPT and REPLACE leads back to an alert's    *)
(* own engine that was paused or deactivated on another (DisplayRuntime.cpp:120-340).*)
THEOREM AlertsActivated == SessionSpec => []DrawnIsActivated
  <1>1. SessionInv => DrawnIsActivated
    BY DEF SessionInv, OwnEngineOn, DrawnIsActivated
  <1> QED  BY <1>1, SessionSpecInv, PTL

(* The requests that wait in the stack are of different sources, the more urgent   *)
(* above, so that the search from the top finds the session that is due            *)
(* (DisplayRuntime.cpp:180-237).                                                   *)
THEOREM ParentsStayInOrder == SessionSpec => []ParentsInOrder
  <1>1. SessionInv => ParentsInOrder
    BY DEF SessionInv
  <1> QED  BY <1>1, SessionSpecInv, PTL
================================================================================
