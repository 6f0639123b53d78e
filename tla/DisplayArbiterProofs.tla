-------------------------- MODULE DisplayArbiterProofs --------------------------
(* For any set of engines that is smaller than the table and any number of web      *)
(* requests: a source never finds the table full, no two requests have the same id, *)
(* and, where the queue holds what one iteration pushes, the slots agree with the   *)
(* producers as long as the panel has been lit throughout.                          *)
EXTENDS DisplayArbiter, Integers, FiniteSetTheorems, SequenceTheorems, WellFoundedInduction, TLAPS

--------------------------------------------------------------------------------
(* What the loop and the queue hold; the last decision is none of it.              *)
LoopType ==
    /\ queue \in Seq(Commands)
    /\ wanted \in [Engines -> AllForms \cup {Idle}]
    /\ next \in 1 .. Len(Order) + 1
    /\ nextId \in Nat \ {0}
    /\ slots \in [Indices -> Requests \cup {Idle}]

(* Slot 0 is the rotation's for ever, the others belong to sources, one to each.   *)
TableOf(t) ==
    /\ t[0] # Idle /\ t[0].source = Rotation
    /\ \A i \in Indices \ {0} : t[i] # Idle => t[i].source \in Sources
    /\ \A i, j \in Indices : t[i] # Idle /\ t[j] # Idle /\ t[i].source = t[j].source => i = j

(* Ids are handed out in increasing order.                                         *)
IdsOf(t) ==
    /\ \A i \in Indices : t[i] # Idle => t[i].id < nextId
    /\ \A i, j \in Indices : t[i] # Idle /\ t[j] # Idle /\ i # j => t[i].id # t[j].id

IInv == LoopType /\ TableOf(slots) /\ IdsOf(slots)

--------------------------------------------------------------------------------
(* Facts about the constants and the table. *)

(* The table has a slot for the rotation, and one for each source.                 *)
LEMMA TableIsLarge ==
    /\ IsFiniteSet(Sources) /\ Cardinality(Sources) \in Nat
    /\ MaxRequests \in Nat /\ MaxRequests > Cardinality(Sources)
    /\ 0 \in Indices
  <1>1. IsFiniteSet(Sources)
    BY ArbiterAssumption, FS_AddElement DEF Sources
  <1>2. Cardinality(Sources) \in Nat
    BY <1>1, FS_CardinalityType
  <1> QED  BY <1>1, <1>2, ArbiterAssumption DEF Indices

(* The first of some indices is one of them.                                       *)
LEMMA LeastIsOne ==
    ASSUME NEW S \in SUBSET Indices, S # {}
    PROVE  Least(S) \in S
  <1>1. S \subseteq Nat
    BY DEF Indices
  <1>2. PICK m \in S : \A y \in S : <<y, m>> \notin OpToRel(<, Nat)
    BY <1>1, NatLessThanWellFounded, WFMin, Zenon
  <1>3. \A y \in S : ~(y < m)
    BY <1>1, <1>2, Zenon DEF OpToRel
  <1>4. \A y \in S : m <= y
    BY <1>1, <1>3
  <1> QED  BY <1>4 DEF Least

(* A form of a source is a form, and its request one the table has room for.       *)
LEMMA FormsAreForms ==
    ASSUME NEW s \in Sources \cup {Rotation}
    PROVE  Forms[s] \subseteq AllForms
  BY DEF AllForms

LEMMA RequestIs ==
    ASSUME NEW s \in Sources \cup {Rotation}, NEW f \in AllForms, NEW n \in Nat
    PROVE  /\ [source |-> s, form |-> f, id |-> n] \in Requests
           /\ [source |-> s, form |-> f, id |-> n] # Idle
  BY ArbiterAssumption DEF Requests

(* The fallback is a request of the rotation.                                      *)
LEMMA FallbackIs == Fallback \in Requests /\ Fallback # Idle /\ Fallback.source = Rotation /\ Fallback.id = 1
  <1>1. (CHOOSE f \in Forms[Rotation] : TRUE) \in AllForms
    BY ArbiterAssumption, FormsAreForms
  <1> QED  BY <1>1, RequestIs DEF Fallback

--------------------------------------------------------------------------------
(* The queue only ever holds commands of the sources.                              *)

LEMMA PushKeeps ==
    ASSUME queue \in Seq(Commands), NEW c \in Commands, Push(c)
    PROVE  queue' \in Seq(Commands)
  BY AppendProperties DEF Push

LEMMA SubmitKeeps ==
    ASSUME queue \in Seq(Commands), NEW s \in Sources, NEW f \in AllForms, NEW r \in BOOLEAN,
           Submit(s, f, r)
    PROVE  queue' \in Seq(Commands)
  <1> DEFINE c == [type |-> "SUBMIT", source |-> s, form |-> f, restart |-> r]
  <1>1. c \in Commands
    BY DEF Commands
  <1>2. Push(c)
    BY DEF Submit
  <1> HIDE DEF c
  <1> QED  BY <1>1, <1>2, PushKeeps

LEMMA CancelKeeps ==
    ASSUME queue \in Seq(Commands), NEW s \in Sources, Cancel(s)
    PROVE  queue' \in Seq(Commands)
  <1> DEFINE c == [type |-> "CANCEL", source |-> s]
  <1>1. c \in Commands
    BY DEF Commands
  <1>2. Push(c)
    BY DEF Cancel
  <1> HIDE DEF c
  <1> QED  BY <1>1, <1>2, PushKeeps

--------------------------------------------------------------------------------
(* The invariant holds at the start and is kept by every step. *)

LEMMA InitInv == Init => IInv
  <1> SUFFICES ASSUME Init  PROVE IInv
    OBVIOUS
  <1> USE DEF Init
  <1>1. 0 \in Indices /\ \A i \in Indices : i # 0 => slots[i] = Idle
    BY TableIsLarge
  <1>2. slots[0] = Fallback /\ nextId = 2
    BY <1>1
  <1>3. LoopType
    <2>1. queue \in Seq(Commands) /\ wanted \in [Engines -> AllForms \cup {Idle}]
      OBVIOUS
    <2>2. next \in 1 .. Len(Order) + 1
      <3>1. Len(Order) \in Nat
        BY ArbiterAssumption
      <3> QED  BY <3>1
    <2>3. slots \in [Indices -> Requests \cup {Idle}]
      BY FallbackIs
    <2> QED  BY <1>2, <2>1, <2>2, <2>3 DEF LoopType
  <1>4. TableOf(slots)
    BY <1>1, <1>2, FallbackIs DEF TableOf
  <1>5. IdsOf(slots)
    BY <1>1, <1>2, FallbackIs DEF IdsOf
  <1> QED  BY <1>3, <1>4, <1>5 DEF IInv

(* A SUBMIT takes the slot its source has, or a free one: no source gets a second. *)
LEMMA ApplySubmitInv ==
    ASSUME IInv, NEW c \in Commands, c.type = "SUBMIT", ApplySubmit(c)
    PROVE  /\ slots' \in [Indices -> Requests \cup {Idle}]
           /\ nextId' \in Nat \ {0}
           /\ TableOf(slots') /\ IdsOf(slots)'
  <1> USE DEF IInv, LoopType
  <1>1. c.source \in Sources /\ c.form \in AllForms /\ c.source # Rotation
    BY ArbiterAssumption DEF Commands, Sources
  <1>2. ASSUME NEW i \in Indices, i # 0, NEW n \in Nat,
               slots' = [slots EXCEPT ![i] = [source |-> c.source, form |-> c.form, id |-> n]],
               \A j \in Indices \ {i} : slots[j] # Idle => slots[j].source # c.source
        PROVE  slots' \in [Indices -> Requests \cup {Idle}] /\ TableOf(slots')
    <2> DEFINE q == [source |-> c.source, form |-> c.form, id |-> n]
    <2>1. q \in Requests /\ q # Idle /\ q.source = c.source
      BY <1>1, RequestIs
    <2>2. slots' = [slots EXCEPT ![i] = q]
      BY <1>2
    <2> HIDE DEF q
    <2>3. slots'[i] = q /\ \A j \in Indices \ {i} : slots'[j] = slots[j]
      BY <2>2
    <2>4. slots' \in [Indices -> Requests \cup {Idle}]
      BY <2>1, <2>2
    <2>5. slots'[0] = slots[0]
      BY <1>2, <2>3, TableIsLarge
    <2>6. \A j \in Indices \ {0} : slots'[j] # Idle => slots'[j].source \in Sources
      BY <1>1, <2>1, <2>3 DEF TableOf
    <2>7. ASSUME NEW j \in Indices, NEW k \in Indices, slots'[j] # Idle, slots'[k] # Idle,
                 slots'[j].source = slots'[k].source
          PROVE  j = k
      <3>1. CASE j = i \/ k = i
        BY <1>2, <2>1, <2>3, <2>7, <3>1
      <3>2. CASE j # i /\ k # i
        BY <2>3, <2>7, <3>2 DEF TableOf
      <3> QED  BY <3>1, <3>2
    <2> QED  BY <2>4, <2>5, <2>6, <2>7 DEF TableOf
  <1>3. CASE HasActiveSource(c.source)
    <2> DEFINE i == Least(SlotsOf(c.source))
    <2>1. i \in Indices /\ slots[i] # Idle /\ slots[i].source = c.source
      <3>1. SlotsOf(c.source) \in SUBSET Indices /\ SlotsOf(c.source) # {}
        BY <1>3 DEF HasActiveSource, SlotsOf
      <3>2. i \in SlotsOf(c.source)
        BY <3>1, LeastIsOne
      <3> QED  BY <3>2 DEF SlotsOf, Active
    <2> DEFINE n == IF c.restart THEN nextId ELSE slots[i].id
    <2>2. /\ slots' = [slots EXCEPT ![i] = [source |-> c.source, form |-> c.form, id |-> n]]
          /\ nextId' = IF c.restart THEN nextId + 1 ELSE nextId
      BY <1>3, <2>1 DEF ApplySubmit
    <2>3. i # 0 /\ \A j \in Indices \ {i} : slots[j] # Idle => slots[j].source # c.source
      BY <1>1, <2>1 DEF TableOf
    <2>4. slots[i].id \in Nat /\ n \in Nat
      BY <2>1 DEF Requests
    <2> HIDE DEF i, n
    <2>5. slots' \in [Indices -> Requests \cup {Idle}] /\ TableOf(slots')
      BY <1>2, <2>1, <2>2, <2>3, <2>4
    <2>6. nextId' \in Nat \ {0}
      BY <2>2
    <2>7. IdsOf(slots)'
      <3>1. slots'[i].id = n /\ \A j \in Indices \ {i} : slots'[j] = slots[j]
        BY <2>1, <2>2
      <3>2. n < nextId' /\ nextId <= nextId'
        BY <2>1, <2>2, <2>4 DEF n, IdsOf
      <3>3. \A j \in Indices \ {i} : slots[j] # Idle => slots[j].id # n
        BY <2>1 DEF n, IdsOf
      <3>4. \A j \in Indices : slots[j] # Idle => slots[j].id \in Nat
        BY DEF Requests
      <3>5. ASSUME NEW j \in Indices, slots'[j] # Idle  PROVE slots'[j].id < nextId'
        <4>1. CASE j = i
          BY <3>1, <3>2, <4>1
        <4>2. CASE j # i
          <5>1. slots[j].id < nextId
            BY <3>1, <3>5, <4>2 DEF IdsOf
          <5>2. slots[j].id \in Nat /\ slots'[j].id = slots[j].id
            BY <3>1, <3>4, <3>5, <4>2
          <5> QED  BY <2>6, <3>2, <5>1, <5>2
        <4> QED  BY <4>1, <4>2
      <3>6. ASSUME NEW j \in Indices, NEW k \in Indices, slots'[j] # Idle, slots'[k] # Idle, j # k
            PROVE  slots'[j].id # slots'[k].id
        <4>1. CASE j = i \/ k = i
          BY <3>1, <3>3, <3>6, <4>1
        <4>2. CASE j # i /\ k # i
          BY <3>1, <3>6, <4>2 DEF IdsOf
        <4> QED  BY <4>1, <4>2
      <3> QED  BY <3>5, <3>6 DEF IdsOf
    <2> QED  BY <2>5, <2>6, <2>7
  <1>4. CASE ~HasActiveSource(c.source) /\ FreeSlots # {}
    <2> DEFINE i == Least(FreeSlots)
    <2>1. i \in Indices /\ i # 0 /\ slots[i] = Idle
      <3>1. FreeSlots \in SUBSET Indices
        BY DEF FreeSlots
      <3>2. i \in FreeSlots
        BY <1>4, <3>1, LeastIsOne
      <3> QED  BY <3>2 DEF FreeSlots, Active
    <2>2. /\ slots' = [slots EXCEPT ![i] = [source |-> c.source, form |-> c.form, id |-> nextId]]
          /\ nextId' = nextId + 1
      BY <1>4 DEF ApplySubmit
    <2>3. \A j \in Indices : slots[j] # Idle => slots[j].source # c.source
      BY <1>4 DEF HasActiveSource, SlotsOf, Active
    <2> HIDE DEF i
    <2>4. slots' \in [Indices -> Requests \cup {Idle}] /\ TableOf(slots')
      BY <1>2, <2>1, <2>2, <2>3
    <2>5. IdsOf(slots)'
      <3>1. slots'[i].id = nextId /\ \A j \in Indices \ {i} : slots'[j] = slots[j]
        BY <2>1, <2>2
      <3>2. \A j \in Indices : slots[j] # Idle => slots[j].id \in Nat
        BY DEF Requests
      <3> QED  BY <2>1, <2>2, <3>1, <3>2 DEF IdsOf
    <2> QED  BY <2>2, <2>4, <2>5
  <1>5. CASE UNCHANGED <<slots, nextId>>
    BY <1>5 DEF IdsOf
  <1> QED  BY <1>3, <1>4, <1>5 DEF ApplySubmit

(* A table from which requests other than the rotation's are taken.                *)
LEMMA ClearInv ==
    ASSUME IInv, NEW gone \in SUBSET (Indices \ {0}),
           slots' = [i \in Indices |-> IF i \in gone THEN Idle ELSE slots[i]],
           nextId' = nextId
    PROVE  slots' \in [Indices -> Requests \cup {Idle}] /\ TableOf(slots') /\ IdsOf(slots)'
  <1>1. \A i \in Indices : slots'[i] = IF i \in gone THEN Idle ELSE slots[i]
    OBVIOUS
  <1>2. slots' \in [Indices -> Requests \cup {Idle}]
    BY DEF IInv, LoopType
  <1>3. 0 \in Indices
    BY TableIsLarge
  <1>4. TableOf(slots')
    BY <1>1, <1>3 DEF IInv, TableOf
  <1>5. IdsOf(slots)'
    BY <1>1 DEF IInv, IdsOf
  <1> QED  BY <1>2, <1>4, <1>5

LEMMA DrainInv == IInv /\ Drain => IInv'
  <1> SUFFICES ASSUME IInv, Drain  PROVE IInv'
    OBVIOUS
  <1>1. Head(queue) \in Commands /\ queue' \in Seq(Commands)
    <2>1. queue \in Seq(Commands) /\ queue # <<>> /\ queue' = Tail(queue)
      BY DEF IInv, LoopType, Drain
    <2> QED  BY <2>1, HeadTailProperties
  <1>c. PICK c \in Commands : c = Head(queue)
    BY <1>1
  <1>2. \/ c.type = "SUBMIT" /\ ApplySubmit(c)
        \/ c.type # "SUBMIT" /\ ApplyCancel(c)
    BY <1>c DEF Drain, ApplySubmit, ApplyCancel
  <1>3. UNCHANGED <<wanted, next>>
    BY DEF Drain, envVars
  <1>4. CASE c.type = "SUBMIT" /\ ApplySubmit(c)
    <2>1. /\ slots' \in [Indices -> Requests \cup {Idle}] /\ nextId' \in Nat \ {0}
          /\ TableOf(slots') /\ IdsOf(slots)'
      BY <1>1, <1>4, ApplySubmitInv
    <2> QED  BY <1>1, <1>3, <2>1 DEF IInv, LoopType, TableOf
  <1>5. CASE c.type # "SUBMIT" /\ ApplyCancel(c)
    <2> DEFINE gone == SlotsOf(c.source) \ {0}
    <2>1. gone \in SUBSET (Indices \ {0})
      BY DEF SlotsOf
    <2>2. slots' = [i \in Indices |-> IF i \in gone THEN Idle ELSE slots[i]] /\ nextId' = nextId
      BY <1>5 DEF ApplyCancel
    <2> HIDE DEF gone
    <2>3. slots' \in [Indices -> Requests \cup {Idle}] /\ TableOf(slots') /\ IdsOf(slots)'
      BY <2>1, <2>2, ClearInv
    <2> QED  BY <1>1, <1>3, <2>2, <2>3 DEF IInv, LoopType, TableOf
  <1> QED  BY <1>2, <1>4, <1>5
LEMMA DecideInv == IInv /\ Decide => IInv'
  <1> SUFFICES ASSUME IInv, Decide  PROVE IInv'
    OBVIOUS
  <1>1. PICK expired \in SUBSET SlotsOf(WebUi) :
          slots' = [i \in Indices |-> IF i \in expired THEN Idle ELSE slots[i]]
    BY DEF Decide
  <1>2. expired \in SUBSET (Indices \ {0})
    BY ArbiterAssumption DEF IInv, TableOf, SlotsOf, Active, Sources
  <1>3. nextId' = nextId /\ UNCHANGED <<queue, wanted>> /\ next' = 1
    BY DEF Decide, envVars
  <1>4. slots' \in [Indices -> Requests \cup {Idle}] /\ TableOf(slots') /\ IdsOf(slots)'
    BY <1>1, <1>2, <1>3, ClearInv
  <1>5. next' \in 1 .. Len(Order) + 1
    <2>1. Len(Order) \in Nat
      BY ArbiterAssumption
    <2> QED  BY <1>3, <2>1
  <1> QED  BY <1>3, <1>4, <1>5 DEF IInv, LoopType, TableOf

(* Every other step leaves the table alone and adds at most a command.             *)
LEMMA TableUntouched ==
    ASSUME IInv, LoopType', UNCHANGED <<slots, nextId>>
    PROVE  IInv'
  BY DEF IInv, TableOf, IdsOf

LEMMA EvaluateInv == IInv /\ EvaluateDisplayRequest => IInv'
  <1> SUFFICES ASSUME IInv, EvaluateDisplayRequest  PROVE IInv'
    OBVIOUS
  <1>1. UNCHANGED <<slots, nextId, wanted>> /\ next' = next + 1 /\ next <= Len(Order)
    BY DEF EvaluateDisplayRequest, envVars
  <1>2. next \in 1 .. Len(Order) /\ next' \in 1 .. Len(Order) + 1 /\ Order[next] \in Engines
    <2>1. Len(Order) \in Nat /\ Order \in Seq(Engines)
      BY ArbiterAssumption
    <2> QED  BY <1>1, <2>1 DEF IInv, LoopType
  <1>3. PICK s \in Engines : s = Order[next]
    BY <1>2
  <1>4. queue' \in Seq(Commands)
    <2>1. \/ wanted[s] # Idle /\ Submit(s, wanted[s], FALSE)
          \/ Cancel(s)
          \/ queue' = queue
      BY <1>3 DEF EvaluateDisplayRequest, Submit, Cancel
    <2>2. s \in Sources /\ queue \in Seq(Commands)
      BY DEF Sources, IInv, LoopType
    <2>3. CASE wanted[s] # Idle /\ Submit(s, wanted[s], FALSE)
      <3>1. PICK f \in AllForms : f = wanted[s]
        BY <2>3 DEF IInv, LoopType
      <3>2. Submit(s, f, FALSE)
        BY <2>3, <3>1 DEF Submit
      <3> QED  BY <2>2, <3>2, SubmitKeeps
    <2>4. CASE Cancel(s)
      BY <2>2, <2>4, CancelKeeps
    <2> QED  BY <2>1, <2>2, <2>3, <2>4
  <1>5. LoopType'
    BY <1>1, <1>2, <1>4 DEF IInv, LoopType
  <1> QED  BY <1>1, <1>5, TableUntouched

LEMMA WebInv == IInv /\ RequestWebUiSyncWindow => IInv'
  <1> SUFFICES ASSUME IInv, RequestWebUiSyncWindow  PROVE IInv'
    OBVIOUS
  <1>1. UNCHANGED <<slots, nextId, wanted, next>>
    BY DEF RequestWebUiSyncWindow, envVars
  <1>2. queue' \in Seq(Commands)
    <2>1. CASE queue' = queue
      BY <2>1 DEF IInv, LoopType
    <2>2. ASSUME NEW f \in Forms[WebUi], Submit(WebUi, f, TRUE)
          PROVE  queue' \in Seq(Commands)
      <3>1. WebUi \in Sources /\ f \in AllForms /\ queue \in Seq(Commands)
        BY FormsAreForms DEF Sources, IInv, LoopType
      <3> QED  BY <2>2, <3>1, SubmitKeeps
    <2> QED  BY <2>1, <2>2 DEF RequestWebUiSyncWindow
  <1>3. LoopType'
    BY <1>1, <1>2 DEF IInv, LoopType
  <1> QED  BY <1>1, <1>3, TableUntouched

LEMMA OthersInv ==
    ASSUME IInv,
           \/ \E s \in Engines : Want(s)
           \/ Stall \/ LightUp \/ EvaluateDone \/ Gate \/ UNCHANGED vars
    PROVE  IInv'
  <1>1. UNCHANGED <<slots, nextId, queue>>
    BY DEF Want, Stall, LightUp, EvaluateDone, Gate, vars
  <1>2. wanted' \in [Engines -> AllForms \cup {Idle}]
    <2>1. CASE wanted' = wanted
      BY <2>1 DEF IInv, LoopType
    <2>2. ASSUME NEW s \in Engines, Want(s)  PROVE wanted' \in [Engines -> AllForms \cup {Idle}]
      <3>1. Forms[s] \subseteq AllForms
        BY FormsAreForms DEF Sources
      <3> QED  BY <2>2, <3>1 DEF Want, IInv, LoopType
    <2> QED  BY <2>1, <2>2 DEF Stall, LightUp, EvaluateDone, Gate, vars, envVars
  <1>3. next' \in 1 .. Len(Order) + 1
    <2>1. next' = next \/ next' = 1
      BY DEF Want, Stall, LightUp, EvaluateDone, Gate, vars
    <2>2. Len(Order) \in Nat
      BY ArbiterAssumption
    <2> QED  BY <2>1, <2>2 DEF IInv, LoopType
  <1>4. LoopType'
    BY <1>1, <1>2, <1>3 DEF IInv, LoopType
  <1> QED  BY <1>1, <1>4, TableUntouched

LEMMA StepInv == IInv /\ [Next]_vars => IInv'
  <1> SUFFICES ASSUME IInv, [Next]_vars  PROVE IInv'
    OBVIOUS
  <1>1. CASE Drain
    BY <1>1, DrainInv
  <1>2. CASE Decide
    BY <1>2, DecideInv
  <1>3. CASE EvaluateDisplayRequest
    BY <1>3, EvaluateInv
  <1>4. CASE RequestWebUiSyncWindow
    BY <1>4, WebInv
  <1>5. CASE \/ \E s \in Engines : Want(s)
             \/ Stall \/ LightUp \/ EvaluateDone \/ Gate \/ UNCHANGED vars
    BY <1>5, OthersInv
  <1> QED  BY <1>1, <1>2, <1>3, <1>4, <1>5 DEF Next, Update

LEMMA AlwaysInv == Spec => []IInv
  BY InitInv, StepInv, PTL DEF Spec

--------------------------------------------------------------------------------
(* Were a source without a slot and the table full, the slots behind the first one *)
(* would name as many different sources as they are, and that one would be left.   *)
LEMMA TableHasRoom == IInv => RoomForEverySource
  <1> SUFFICES ASSUME IInv, NEW s \in Sources, ~HasActiveSource(s), FreeSlots = {}
               PROVE  FALSE
    BY DEF RoomForEverySource
  <1> DEFINE I == 1 .. MaxRequests - 1
             O == Sources \ {s}
             f == [i \in I |-> slots[i].source]
  <1>1. I = Indices \ {0} /\ \A i \in I : slots[i] # Idle
    <2>1. I = Indices \ {0}
      BY TableIsLarge DEF Indices
    <2> QED  BY <2>1 DEF FreeSlots, Active
  <1>2. \A i \in I : slots[i].source \in O
    BY <1>1 DEF IInv, TableOf, HasActiveSource, SlotsOf, Active
  <1>3. \A i, j \in I : slots[i].source = slots[j].source => i = j
    BY <1>1 DEF IInv, TableOf
  <1>4. f \in Injection(I, O)
    <2>1. f \in [I -> O]
      BY <1>2
    <2>2. \A i, j \in I : f[i] = f[j] => i = j
      BY <1>3
    <2> HIDE DEF I, O, f
    <2> QED  BY <2>1, <2>2 DEF Injection, IsInjective
  <1>5. IsFiniteSet(O) /\ Cardinality(O) = Cardinality(Sources) - 1
    BY TableIsLarge, FS_RemoveElement
  <1>6. Cardinality(I) = MaxRequests - 1
    <2>1. 1 \in Int /\ MaxRequests - 1 \in Int /\ MaxRequests >= 1
      BY TableIsLarge
    <2>2. Cardinality(1 .. MaxRequests - 1) = IF 1 > MaxRequests - 1 THEN 0 ELSE MaxRequests - 1 - 1 + 1
      BY <2>1, FS_Interval
    <2> QED  BY <2>1, <2>2, TableIsLarge
  <1>7. Cardinality(I) <= Cardinality(O)
    <2> HIDE DEF I, O, f
    <2> QED  BY <1>4, <1>5, FS_Injection
  <1> HIDE DEF I, O
  <1> QED  BY <1>5, <1>6, <1>7, TableIsLarge

(* A source that wants to be shown always finds a slot: applySubmit() never has to *)
(* drop a request for want of one.                                                 *)
THEOREM SourcesFindRoom == Spec => []RoomForEverySource
  BY TableHasRoom, AlwaysInv, PTL

(* Active requests have different ids, which transitionSession() relies on when it *)
(* looks for the parent to resume.                                                 *)
THEOREM RequestIdsDiffer == Spec => []DistinctIds
  <1>1. IInv => DistinctIds
    BY DEF IInv, IdsOf, DistinctIds, Active
  <1> QED  BY <1>1, AlwaysInv, PTL
--------------------------------------------------------------------------------
(* What an engine sent last is what the table holds of it, once the commands that  *)
(* are still waiting are applied: the latest of them decides.                      *)
SlotForms(s) == {slots[i].form : i \in SlotsOf(s)}
Outcome(c) == IF c.type = "SUBMIT" THEN {c.form} ELSE {}
Sent(s) == {sync[s]} \ {Idle}

LatestOf(s, k) == queue[k].source = s /\ \A l \in 1 .. Len(queue) : l > k => queue[l].source # s
Delivered(s) ==
    /\ \A k \in 1 .. Len(queue) : LatestOf(s, k) => Outcome(queue[k]) = Sent(s)
    /\ (\A k \in 1 .. Len(queue) : queue[k].source # s) => SlotForms(s) = Sent(s)

Agreement == ~dropped => \A s \in Engines : Delivered(s)
SyncType == sync \in [Engines -> AllForms \cup {Idle}]

(* Without a night or a turning panel, an iteration sends a command for each engine *)
(* it has visited and for each web request, and every iteration drains them all.   *)
QuietLoop ==
    /\ web \in 0 .. WebBurst
    /\ ~mayStall => panel = "lit" /\ ~dropped /\ Len(queue) <= next - 1 + web

AInv == IInv /\ SyncType /\ Agreement /\ QuietLoop

(* A command that is queued is the latest of its source.                           *)
LEMMA QueuedDelivers ==
    ASSUME queue \in Seq(Commands), NEW c \in Commands, queue' = Append(queue, c),
           slots' = slots, NEW s \in Engines, Delivered(s),
           c.source = s => Outcome(c) = Sent(s)',
           c.source # s => Sent(s)' = Sent(s)
    PROVE  Delivered(s)'
  <1> DEFINE n == Len(queue)
  <1>1. /\ n \in Nat /\ Len(queue') = n + 1 /\ queue'[n + 1] = c
        /\ \A k \in 1 .. n : queue'[k] = queue[k]
    BY AppendProperties
  <1> HIDE DEF n
  <1>2. SlotForms(s)' = SlotForms(s)
    BY DEF SlotForms, SlotsOf, Active
  <1>3. ASSUME NEW k \in 1 .. n + 1, LatestOf(s, k)'  PROVE Outcome(queue'[k]) = Sent(s)'
    <2>1. CASE k = n + 1
      BY <1>1, <1>3, <2>1 DEF LatestOf
    <2>2. CASE k # n + 1
      <3>1. k \in 1 .. n /\ queue'[k] = queue[k] /\ c.source # s
        BY <1>1, <1>3, <2>2 DEF LatestOf
      <3>2. LatestOf(s, k)
        BY <1>1, <1>3, <3>1 DEF LatestOf, n
      <3> QED  BY <3>1, <3>2 DEF Delivered, n
    <2> QED  BY <2>1, <2>2
  <1>4. (\A k \in 1 .. n + 1 : queue'[k].source # s) => SlotForms(s)' = Sent(s)'
    <2> SUFFICES ASSUME \A k \in 1 .. n + 1 : queue'[k].source # s
                 PROVE  SlotForms(s)' = Sent(s)'
      OBVIOUS
    <2>1. c.source # s /\ \A k \in 1 .. n : queue[k].source # s
      BY <1>1
    <2> QED  BY <1>2, <2>1 DEF Delivered, n
  <1> QED  BY <1>1, <1>3, <1>4 DEF Delivered

(* Applying a command gives its source what it asks for, and nobody else anything. *)
LEMMA AppliedForms ==
    ASSUME IInv, NEW c \in Commands, NEW s \in Engines,
           \/ c.type = "SUBMIT" /\ ApplySubmit(c)
           \/ c.type # "SUBMIT" /\ ApplyCancel(c)
    PROVE  SlotForms(s)' = IF c.source = s THEN Outcome(c) ELSE SlotForms(s)
  <1> USE DEF SlotForms, SlotsOf, Active
  <1>1. /\ s \in Sources /\ s # Rotation /\ c.source \in Sources /\ slots[0].source # s
        /\ 0 \in Indices /\ slots \in [Indices -> Requests \cup {Idle}]
    BY ArbiterAssumption, TableIsLarge DEF Sources, Commands, IInv, LoopType, TableOf
  <1>2. ASSUME NEW i \in Indices, NEW n \in Nat, c.type = "SUBMIT",
               slots' = [slots EXCEPT ![i] = [source |-> c.source, form |-> c.form, id |-> n]],
               slots[i] = Idle \/ slots[i].source = c.source,
               \A j \in Indices \ {i} : slots[j] # Idle => slots[j].source # c.source
        PROVE  SlotForms(s)' = IF c.source = s THEN Outcome(c) ELSE SlotForms(s)
    <2> DEFINE q == [source |-> c.source, form |-> c.form, id |-> n]
    <2>1. q # Idle /\ q.source = c.source /\ q.form = c.form
      BY <1>1, <1>2, RequestIs DEF Commands
    <2>2. slots' = [slots EXCEPT ![i] = q]
      BY <1>2
    <2> HIDE DEF q
    <2>3. slots'[i] = q /\ \A j \in Indices \ {i} : slots'[j] = slots[j]
      BY <1>1, <2>2
    <2>4. CASE c.source = s
      <3>1. SlotsOf(s)' = {i}
        BY <1>2, <2>1, <2>3, <2>4
      <3> QED  BY <1>2, <2>1, <2>3, <2>4, <3>1 DEF Outcome
    <2>5. CASE c.source # s
      <3>1. SlotsOf(s)' = SlotsOf(s) /\ i \notin SlotsOf(s)
        BY <1>2, <2>1, <2>3, <2>5
      <3> QED  BY <2>3, <2>5, <3>1
    <2> QED  BY <2>4, <2>5
  <1>3. CASE c.type = "SUBMIT" /\ ApplySubmit(c)
    <2>1. HasActiveSource(c.source) \/ FreeSlots # {}
      BY <1>1, TableHasRoom DEF RoomForEverySource
    <2>2. CASE HasActiveSource(c.source)
      <3> DEFINE i == Least(SlotsOf(c.source))
                 n == IF c.restart THEN nextId ELSE slots[i].id
      <3>1. i \in Indices /\ slots[i] # Idle /\ slots[i].source = c.source
        <4>1. SlotsOf(c.source) \in SUBSET Indices /\ SlotsOf(c.source) # {}
          BY <2>2 DEF HasActiveSource
        <4>2. i \in SlotsOf(c.source)
          BY <4>1, LeastIsOne
        <4> QED  BY <4>2
      <3>2. slots' = [slots EXCEPT ![i] = [source |-> c.source, form |-> c.form, id |-> n]]
        BY <1>3, <2>2, <3>1 DEF ApplySubmit
      <3>3. n \in Nat
        BY <1>1, <3>1 DEF Requests, IInv, LoopType
      <3>4. \A j \in Indices \ {i} : slots[j] # Idle => slots[j].source # c.source
        BY <3>1 DEF IInv, TableOf
      <3> HIDE DEF i, n
      <3> QED  BY <1>2, <1>3, <3>1, <3>2, <3>3, <3>4
    <2>3. CASE ~HasActiveSource(c.source)
      <3> DEFINE i == Least(FreeSlots)
      <3>1. i \in Indices /\ slots[i] = Idle
        <4>1. FreeSlots \in SUBSET Indices /\ FreeSlots # {}
          BY <2>1, <2>3 DEF FreeSlots
        <4>2. i \in FreeSlots
          BY <4>1, LeastIsOne
        <4> QED  BY <4>2 DEF FreeSlots
      <3>2. slots' = [slots EXCEPT ![i] = [source |-> c.source, form |-> c.form, id |-> nextId]]
        BY <1>3, <2>1, <2>3 DEF ApplySubmit
      <3>3. nextId \in Nat /\ \A j \in Indices : slots[j] # Idle => slots[j].source # c.source
        BY <2>3 DEF HasActiveSource, IInv, LoopType
      <3> HIDE DEF i
      <3> QED  BY <1>2, <1>3, <3>1, <3>2, <3>3
    <2> QED  BY <2>2, <2>3
  <1>4. CASE c.type # "SUBMIT" /\ ApplyCancel(c)
    <2>1. \A i \in Indices : slots'[i] = IF i # 0 /\ i \in SlotsOf(c.source) THEN Idle ELSE slots[i]
      BY <1>4 DEF ApplyCancel
    <2>2. SlotsOf(s)' = IF c.source = s THEN {} ELSE SlotsOf(s)
      BY <1>1, <2>1
    <2>3. CASE c.source = s
      BY <1>4, <2>2, <2>3 DEF Outcome
    <2>4. CASE c.source # s
      <3>1. \A i \in SlotsOf(s) : slots'[i] = slots[i]
        BY <2>1, <2>4
      <3> QED  BY <2>2, <2>4, <3>1
    <2> QED  BY <2>3, <2>4
  <1> QED  BY <1>3, <1>4

(* Taking the first command out leaves the latest of each source where it was,     *)
(* unless it was the first.                                                        *)
LEMMA AppliedDelivers ==
    ASSUME IInv, Drain, NEW s \in Engines, Delivered(s)
    PROVE  Delivered(s)'
  <1>1. /\ queue \in Seq(Commands) /\ queue # <<>> /\ queue' = Tail(queue)
        /\ sync' = sync
    BY DEF IInv, LoopType, Drain
  <1> DEFINE n == Len(queue)
  <1>2. /\ n \in Nat \ {0} /\ Len(queue') = n - 1 /\ Head(queue) = queue[1] /\ Head(queue) \in Commands
        /\ \A k \in 1 .. n - 1 : queue'[k] = queue[k + 1]
    BY <1>1, HeadTailProperties
  <1>c. PICK c \in Commands : c = Head(queue)
    BY <1>2
  <1>3. \/ c.type = "SUBMIT" /\ ApplySubmit(c)
        \/ c.type # "SUBMIT" /\ ApplyCancel(c)
    BY <1>c DEF Drain, ApplySubmit, ApplyCancel
  <1>4. SlotForms(s)' = IF c.source = s THEN Outcome(c) ELSE SlotForms(s)
    BY <1>3, AppliedForms
  <1>5. Sent(s)' = Sent(s)
    BY <1>1 DEF Sent
  <1> HIDE DEF n
  <1>6. ASSUME NEW k \in 1 .. n - 1, LatestOf(s, k)'  PROVE Outcome(queue'[k]) = Sent(s)'
    <2>1. k + 1 \in 1 .. n /\ queue'[k] = queue[k + 1]
      BY <1>2
    <2>2. ASSUME NEW l \in 1 .. n, l > k + 1  PROVE queue[l].source # s
      <3>1. l - 1 \in 1 .. n - 1 /\ l - 1 > k /\ queue'[l - 1] = queue[l]
        BY <1>2, <2>2
      <3> QED  BY <1>2, <1>6, <3>1 DEF LatestOf
    <2>3. LatestOf(s, k + 1)
      BY <1>6, <2>1, <2>2 DEF LatestOf, n
    <2> QED  BY <1>5, <2>1, <2>3 DEF Delivered, n
  <1>7. (\A k \in 1 .. n - 1 : queue'[k].source # s) => SlotForms(s)' = Sent(s)'
    <2> SUFFICES ASSUME \A k \in 1 .. n - 1 : queue'[k].source # s
                 PROVE  SlotForms(s)' = Sent(s)'
      OBVIOUS
    <2>1. \A k \in 1 .. n : k > 1 => queue[k].source # s
      <3>1. ASSUME NEW k \in 1 .. n, k > 1  PROVE queue[k].source # s
        <4>1. k - 1 \in 1 .. n - 1 /\ queue'[k - 1] = queue[k]
          BY <1>2, <3>1
        <4> QED  BY <4>1
      <3> QED  BY <3>1
    <2>2. CASE c.source = s
      <3>1. LatestOf(s, 1) /\ 1 \in 1 .. n /\ queue[1] = c
        BY <1>2, <1>c, <2>1, <2>2 DEF LatestOf, n
      <3> QED  BY <1>4, <1>5, <2>2, <3>1 DEF Delivered, n
    <2>3. CASE c.source # s
      <3>1. \A k \in 1 .. n : queue[k].source # s
        BY <1>2, <1>c, <2>1, <2>3
      <3> QED  BY <1>4, <1>5, <2>3, <3>1 DEF Delivered, n
    <2> QED  BY <2>2, <2>3
  <1> QED  BY <1>2, <1>6, <1>7 DEF Delivered
--------------------------------------------------------------------------------
(* The agreement, and the bound of a loop that never stalls. The firmware's queue  *)
(* of 16 has room for what the engines and the web server send in one iteration.   *)
QueueHoldsIteration == QueueCapacity >= Len(Order) + WebBurst

LEMMA AgreementInit == Init => SyncType /\ Agreement /\ QuietLoop
  <1> SUFFICES ASSUME Init  PROVE SyncType /\ Agreement /\ QuietLoop
    OBVIOUS
  <1> USE DEF Init
  <1>1. SyncType
    BY DEF SyncType
  <1>2. ASSUME NEW s \in Engines  PROVE Delivered(s)
    <2>1. SlotsOf(s) = {}
      <3>1. s # Rotation /\ Fallback.source = Rotation
        BY ArbiterAssumption, FallbackIs DEF Sources
      <3> QED  BY <3>1 DEF SlotsOf, Active
    <2>2. SlotForms(s) = {} /\ Sent(s) = {} /\ Len(queue) = 0
      BY <2>1 DEF SlotForms, Sent
    <2> QED  BY <2>2 DEF Delivered
  <1>3. QuietLoop
    <2>1. web = 0 /\ next = 1 /\ Len(queue) = 0 /\ WebBurst \in Nat
      BY ArbiterAssumption
    <2>2. panel = "lit" /\ ~dropped
      OBVIOUS
    <2> QED  BY <2>1, <2>2 DEF QuietLoop
  <1> QED  BY <1>1, <1>2, <1>3 DEF Agreement

(* What a push does: the command is appended, or dropped for want of room.         *)
LEMMA PushIs ==
    ASSUME NEW c, Push(c)
    PROVE  \/ queue' = Append(queue, c) /\ dropped' = dropped
           \/ queue' = queue /\ dropped' = TRUE /\ ~(Len(queue) < QueueCapacity)
  BY DEF Push

(* A push of a command that says what its engine's sync says keeps the agreement.  *)
LEMMA PushAgrees ==
    ASSUME AInv, NEW c \in Commands, Push(c), slots' = slots,
           \A s \in Engines : IF c.source = s THEN Outcome(c) = Sent(s)' ELSE Sent(s)' = Sent(s)
    PROVE  Agreement'
  <1>1. CASE queue' = Append(queue, c) /\ dropped' = dropped
    <2>1. queue \in Seq(Commands)
      BY DEF AInv, IInv, LoopType
    <2> SUFFICES ASSUME ~dropped', NEW s \in Engines  PROVE Delivered(s)'
      BY DEF Agreement
    <2>2. Delivered(s)
      BY <1>1 DEF AInv, Agreement
    <2> QED  BY <1>1, <2>1, <2>2, QueuedDelivers
  <1>2. CASE dropped' = TRUE
    BY <1>2 DEF Agreement
  <1> QED  BY <1>1, <1>2, PushIs

(* What touches neither the table nor the queue nor sync.                          *)
LEMMA AgreementUntouched ==
    ASSUME AInv, UNCHANGED <<slots, queue, dropped, sync>>
    PROVE  SyncType' /\ Agreement'
  <1>1. ASSUME NEW s \in Engines  PROVE Delivered(s)' <=> Delivered(s)
    <2>1. SlotForms(s)' = SlotForms(s) /\ Sent(s)' = Sent(s)
      BY DEF SlotForms, SlotsOf, Active, Sent
    <2>2. \A k : LatestOf(s, k)' <=> LatestOf(s, k)
      BY DEF LatestOf
    <2> QED  BY <2>1, <2>2 DEF Delivered
  <1>2. Agreement'
    BY <1>1 DEF AInv, Agreement
  <1> QED  BY <1>2 DEF AInv, SyncType

(* The count of an iteration's commands: len queued so far, n sources asked, *)
(* w pushes of the web server, each bounded.                                *)
LEMMA RoomForOneMore ==
    ASSUME NEW len \in Nat, NEW n \in Nat, NEW w \in Nat, NEW n2 \in Nat, NEW w2 \in Nat,
           NEW order \in Nat, NEW burst \in Nat,
           len <= n - 1 + w, n2 + w2 = n + w + 1, n2 <= order + 1, w2 <= burst
    PROVE  len < order + burst /\ len + 1 <= n2 - 1 + w2
  <1>1. n + w <= order + burst
    OBVIOUS
  <1>2. len < order + burst
    BY <1>1
  <1>3. len + 1 <= n2 - 1 + w2
    OBVIOUS
  <1> QED  BY <1>2, <1>3

(* A push in an iteration that has room for it.                                    *)
LEMMA PushQuiet ==
    ASSUME QueueHoldsIteration, AInv, NEW c \in Commands, Push(c), UNCHANGED <<panel, mayStall>>,
           next' \in Nat, web' \in 0 .. WebBurst, next' + web' = next + web + 1,
           next' <= Len(Order) + 1
    PROVE  QuietLoop'
  <1> SUFFICES ASSUME ~mayStall
               PROVE  panel' = "lit" /\ ~dropped' /\ Len(queue') <= next' - 1 + web'
    BY DEF QuietLoop
  <1>1. panel = "lit" /\ ~dropped /\ queue \in Seq(Commands) /\ Len(queue) \in Nat
    BY DEF AInv, IInv, LoopType, QuietLoop
  <1>a. /\ web \in Nat /\ next \in Nat /\ WebBurst \in Nat /\ QueueCapacity \in Nat
        /\ Len(Order) \in Nat /\ Len(queue) <= next - 1 + web
    BY ArbiterAssumption DEF AInv, IInv, LoopType, QuietLoop
  <1>b. web' \in Nat /\ web' <= WebBurst
    BY <1>a
  <1>d. next' \in Nat /\ next' + web' = next + web + 1 /\ next' <= Len(Order) + 1
    OBVIOUS
  <1>e. Len(queue) \in Nat
    BY <1>1
  <1>c. Len(queue) < Len(Order) + WebBurst /\ Len(queue) + 1 <= next' - 1 + web'
    BY ONLY <1>a, <1>b, <1>d, <1>e, RoomForOneMore
  <1>2. Len(queue) < QueueCapacity
    BY <1>1, <1>a, <1>c DEF QueueHoldsIteration
  <1>3. queue' = Append(queue, c) /\ dropped' = dropped
    BY <1>2, PushIs
  <1>4. Len(queue') = Len(queue) + 1
    BY <1>1, <1>3, AppendProperties
  <1>5. ~dropped' /\ panel' = "lit"
    BY <1>1, <1>3
  <1>6. Len(queue') <= next' - 1 + web'
    BY <1>c, <1>4
  <1> QED  BY <1>5, <1>6

LEMMA EvaluateAgrees ==
    ASSUME QueueHoldsIteration, AInv, EvaluateDisplayRequest
    PROVE  SyncType' /\ Agreement' /\ QuietLoop'
  <1>1. /\ UNCHANGED <<slots, wanted, panel, mayStall, web>> /\ next' = next + 1 /\ next <= Len(Order)
    BY DEF EvaluateDisplayRequest, envVars
  <1>2. /\ next \in Nat /\ next' \in Nat /\ next' <= Len(Order) + 1 /\ Order[next] \in Engines
        /\ web \in 0 .. WebBurst /\ next' + web' = next + web + 1
    <2>1. Len(Order) \in Nat /\ Order \in Seq(Engines) /\ WebBurst \in Nat
      BY ArbiterAssumption
    <2>2. next \in 1 .. Len(Order) /\ web \in 0 .. WebBurst
      BY <1>1, <2>1 DEF AInv, IInv, LoopType, QuietLoop
    <2> QED  BY <1>1, <2>1, <2>2
  <1>3. PICK s \in Engines : s = Order[next]
    BY <1>2
  <1>4. wanted[s] \in AllForms \cup {Idle} /\ s \in Sources /\ sync \in [Engines -> AllForms \cup {Idle}]
    BY DEF AInv, IInv, LoopType, SyncType, Sources
  <1>5. CASE wanted[s] # Idle /\ Submit(s, wanted[s], FALSE) /\ sync' = [sync EXCEPT ![s] = wanted[s]]
    <2> DEFINE c == [type |-> "SUBMIT", source |-> s, form |-> wanted[s], restart |-> FALSE]
    <2>1. PICK d \in Commands : d = c
      BY <1>4, <1>5 DEF Commands
    <2>2. Push(d)
      BY <1>5, <2>1 DEF Submit, Push
    <2>3. d.type = "SUBMIT" /\ d.source = s /\ d.form = wanted[s]
      BY <2>1
    <2>4. \A t \in Engines : IF d.source = t THEN Outcome(d) = Sent(t)' ELSE Sent(t)' = Sent(t)
      BY <1>4, <1>5, <2>3 DEF Outcome, Sent
    <2>5. SyncType'
      BY <1>4, <1>5 DEF SyncType
    <2> QED  BY <1>1, <1>2, <2>2, <2>4, <2>5, PushAgrees, PushQuiet
  <1>6. CASE Cancel(s) /\ sync' = [sync EXCEPT ![s] = Idle]
    <2> DEFINE c == [type |-> "CANCEL", source |-> s]
    <2>1. PICK d \in Commands : d = c
      BY <1>4 DEF Commands
    <2>2. Push(d)
      BY <1>6, <2>1 DEF Cancel, Push
    <2>3. d.type = "CANCEL" /\ d.source = s
      BY <2>1
    <2>4. \A t \in Engines : IF d.source = t THEN Outcome(d) = Sent(t)' ELSE Sent(t)' = Sent(t)
      BY <1>4, <1>6, <2>3 DEF Outcome, Sent
    <2>5. SyncType'
      BY <1>4, <1>6 DEF SyncType
    <2> QED  BY <1>1, <1>2, <2>2, <2>4, <2>5, PushAgrees, PushQuiet
  <1>7. CASE UNCHANGED <<queue, dropped, sync>>
    <2>1. SyncType' /\ Agreement'
      BY <1>1, <1>7, AgreementUntouched
    <2>2. QuietLoop'
      <3>1. Len(queue) \in Nat
        BY DEF AInv, IInv, LoopType
      <3> QED  BY <1>1, <1>2, <1>7, <3>1 DEF AInv, QuietLoop
    <2> QED  BY <2>1, <2>2
  <1> QED  BY <1>3, <1>5, <1>6, <1>7 DEF EvaluateDisplayRequest, Submit, Cancel

LEMMA WebAgrees ==
    ASSUME QueueHoldsIteration, AInv, RequestWebUiSyncWindow
    PROVE  SyncType' /\ Agreement' /\ QuietLoop'
  <1>1. /\ UNCHANGED <<slots, wanted, panel, mayStall, next, sync>>
        /\ web' = web + 1 /\ web < WebBurst
    BY DEF RequestWebUiSyncWindow, envVars
  <1>2. /\ next \in Nat /\ next' <= Len(Order) + 1 /\ web' \in 0 .. WebBurst
        /\ next' + web' = next + web + 1
    <2>1. Len(Order) \in Nat /\ WebBurst \in Nat
      BY ArbiterAssumption
    <2>2. next \in 1 .. Len(Order) + 1 /\ web \in 0 .. WebBurst
      BY DEF AInv, IInv, LoopType, QuietLoop
    <2> QED  BY <1>1, <2>1, <2>2
  <1>3. SyncType'
    BY <1>1 DEF AInv, SyncType
  <1>4. ASSUME NEW f \in Forms[WebUi], Submit(WebUi, f, TRUE)  PROVE Agreement' /\ QuietLoop'
    <2> DEFINE c == [type |-> "SUBMIT", source |-> WebUi, form |-> f, restart |-> TRUE]
    <2>1. PICK d \in Commands : d = c
      BY FormsAreForms DEF Commands, Sources
    <2>2. Push(d)
      BY <1>4, <2>1 DEF Submit, Push
    <2>3. \A t \in Engines : IF d.source = t THEN Outcome(d) = Sent(t)' ELSE Sent(t)' = Sent(t)
      BY <1>1, <2>1, ArbiterAssumption DEF Sent
    <2> QED  BY <1>1, <1>2, <2>2, <2>3, PushAgrees, PushQuiet
  <1>5. CASE UNCHANGED <<queue, dropped>>
    <2>1. Agreement'
      BY <1>1, <1>5, AgreementUntouched
    <2>2. QuietLoop'
      <3>1. Len(queue) \in Nat /\ web \in Nat /\ Len(queue') = Len(queue)
        BY <1>1, <1>5, ArbiterAssumption DEF AInv, IInv, LoopType, QuietLoop
      <3>2. ~mayStall => panel' = "lit" /\ ~dropped'
        BY <1>1, <1>5 DEF AInv, QuietLoop
      <3>3. ~mayStall => Len(queue) <= next - 1 + web
        BY DEF AInv, QuietLoop
      <3>4. ~mayStall => Len(queue') <= next' - 1 + web'
        BY <1>1, <1>2, <3>1, <3>3
      <3>5. mayStall' = mayStall /\ web' \in 0 .. WebBurst
        BY <1>1, <1>2
      <3> QED  BY ONLY <3>2, <3>4, <3>5 DEF QuietLoop
    <2> QED  BY <1>3, <2>1, <2>2
  <1> QED  BY <1>3, <1>4, <1>5 DEF RequestWebUiSyncWindow

LEMMA DrainAgrees ==
    ASSUME AInv, Drain
    PROVE  SyncType' /\ Agreement' /\ QuietLoop'
  <1>1. UNCHANGED <<dropped, panel, mayStall, sync, next, web>>
    BY DEF Drain, envVars
  <1>2. SyncType'
    BY <1>1 DEF AInv, SyncType
  <1>3. Agreement'
    BY <1>1, AppliedDelivers DEF AInv, Agreement
  <1>4. QuietLoop'
    <2>1. queue \in Seq(Commands) /\ queue # <<>> /\ queue' = Tail(queue)
      BY DEF AInv, IInv, LoopType, Drain
    <2>2. Len(queue') = Len(queue) - 1 /\ Len(queue) \in Nat
      BY <2>1, HeadTailProperties
    <2>3. next \in Nat /\ web \in Nat
      BY ArbiterAssumption DEF AInv, IInv, LoopType, QuietLoop
    <2> QED  BY <1>1, <2>2, <2>3 DEF AInv, QuietLoop
  <1> QED  BY <1>2, <1>3, <1>4

(* What expires is the web server's.                                               *)
LEMMA DecideAgrees ==
    ASSUME AInv, Decide
    PROVE  SyncType' /\ Agreement' /\ QuietLoop'
  <1>1. /\ UNCHANGED <<queue, dropped, panel, mayStall, sync>> /\ queue = <<>>
        /\ next' = 1 /\ web' = 0
    BY DEF Decide, envVars
  <1>2. PICK expired \in SUBSET SlotsOf(WebUi) :
          slots' = [i \in Indices |-> IF i \in expired THEN Idle ELSE slots[i]]
    BY DEF Decide
  <1>3. ASSUME NEW s \in Engines  PROVE SlotForms(s)' = SlotForms(s)
    <2>1. s # WebUi /\ \A i \in Indices : slots'[i] = IF i \in expired THEN Idle ELSE slots[i]
      BY <1>2, ArbiterAssumption
    <2>2. SlotsOf(s)' = SlotsOf(s) /\ \A i \in SlotsOf(s) : slots'[i] = slots[i]
      BY <2>1 DEF SlotsOf, Active
    <2> QED  BY <2>2 DEF SlotForms
  <1>4. SyncType' /\ Agreement'
    BY <1>1, <1>3 DEF AInv, SyncType, Agreement, Delivered, LatestOf, Sent
  <1>5. QuietLoop'
    <2>1. Len(queue) = 0 /\ WebBurst \in Nat
      BY <1>1, ArbiterAssumption
    <2> QED  BY <1>1, <2>1 DEF AInv, QuietLoop
  <1> QED  BY <1>4, <1>5

(* A loop that cannot stall goes from its gate to the queue.                       *)
LEMMA OthersAgree ==
    ASSUME AInv,
           \/ \E s \in Engines : Want(s)
           \/ Stall \/ LightUp \/ EvaluateDone \/ Gate \/ UNCHANGED vars
    PROVE  SyncType' /\ Agreement' /\ QuietLoop'
  <1>1. UNCHANGED <<slots, queue, dropped, sync, web, mayStall>>
    BY DEF Want, Stall, LightUp, EvaluateDone, Gate, vars, envVars
  <1>2. SyncType' /\ Agreement'
    BY <1>1, AgreementUntouched
  <1>3. ~mayStall => next' = next /\ panel' = "lit"
    BY DEF AInv, QuietLoop, Want, Stall, LightUp, EvaluateDone, Gate, ReachesQueue, vars, envVars
  <1> QED  BY <1>1, <1>2, <1>3 DEF AInv, QuietLoop

LEMMA AlwaysAgrees ==
    ASSUME QueueHoldsIteration
    PROVE  Spec => []AInv
  <1>1. Init => AInv
    BY InitInv, AgreementInit DEF AInv
  <1>2. AInv /\ [Next]_vars => AInv'
    <2> SUFFICES ASSUME AInv, [Next]_vars  PROVE AInv'
      OBVIOUS
    <2>1. IInv'
      BY StepInv DEF AInv
    <2>2. CASE Drain
      BY <2>1, <2>2, DrainAgrees DEF AInv
    <2>3. CASE Decide
      BY <2>1, <2>3, DecideAgrees DEF AInv
    <2>4. CASE EvaluateDisplayRequest
      BY <2>1, <2>4, EvaluateAgrees DEF AInv
    <2>5. CASE RequestWebUiSyncWindow
      BY <2>1, <2>5, WebAgrees DEF AInv
    <2>6. CASE \/ \E s \in Engines : Want(s)
               \/ Stall \/ LightUp \/ EvaluateDone \/ Gate \/ UNCHANGED vars
      BY <2>1, <2>6, OthersAgree DEF AInv
    <2> QED  BY <2>2, <2>3, <2>4, <2>5, <2>6 DEF Next, Update
  <1> QED  BY <1>1, <1>2, PTL DEF Spec

(* The table agrees with what the engines sent, unless a loop that stalls dropped  *)
(* a command, when the queue holds what one iteration sends.                       *)
THEOREM TableAgrees ==
    ASSUME QueueHoldsIteration
    PROVE  Spec => []AgreesUnlessDropped
  <1>1. AInv => AgreesUnlessDropped
    <2> SUFFICES ASSUME AInv, ~(mayStall /\ dropped), queue = <<>>, NEW s \in Engines
                 PROVE  {slots[i].form : i \in SlotsOf(s)} = {sync[s]} \ {Idle}
      BY DEF AgreesUnlessDropped, ActiveUntilCancelled
    <2>1. ~dropped
      BY DEF AInv, QuietLoop
    <2>2. Delivered(s) /\ Len(queue) = 0
      BY <2>1 DEF AInv, Agreement
    <2> QED  BY <2>2 DEF Delivered, SlotForms, Sent
  <1> QED  BY <1>1, AlwaysAgrees, PTL
--------------------------------------------------------------------------------
(* The decision.  A request is beaten by one of higher priority, and by one of the *)
(* same priority in an earlier slot.                                               *)
Beats(table, j, i) ==
    /\ table[j] # Idle
    /\ \/ Priority[table[j].form] > Priority[table[i].form]
       \/ Priority[table[j].form] = Priority[table[i].form] /\ j < i
Above(table, i) == {j \in Indices : Beats(table, j, i)}

(* A table with an active slot has a best one: of the requests that are beaten by  *)
(* the fewest others, none is beaten at all.                                       *)
LEMMA BestIsBest ==
    ASSUME NEW table \in [Indices -> Requests \cup {Idle}], \E i \in Indices : table[i] # Idle
    PROVE  /\ Best(table) \in Indices /\ table[Best(table)] # Idle
           /\ \A j \in Indices : table[j] # Idle =>
                  Priority[table[Best(table)].form] >= Priority[table[j].form]
  <1> DEFINE S == {i \in Indices : table[i] # Idle}
             N == {Cardinality(Above(table, i)) : i \in S}
  <1>1. /\ \A i \in S : Priority[table[i].form] \in Nat
        /\ Indices \subseteq Nat /\ IsFiniteSet(Indices)
    <2>1. MaxRequests - 1 \in Int /\ Indices = 0 .. MaxRequests - 1
      BY TableIsLarge DEF Indices
    <2>2. Indices \subseteq Nat /\ IsFiniteSet(Indices)
      BY <2>1, FS_Interval
    <2>3. ASSUME NEW i \in S  PROVE Priority[table[i].form] \in Nat
      <3>1. table[i] \in Requests
        OBVIOUS
      <3> QED  BY <3>1, ArbiterAssumption DEF Requests
    <2> QED  BY <2>2, <2>3
  <1>2. \A i \in S : /\ Above(table, i) \in SUBSET Indices /\ IsFiniteSet(Above(table, i))
                     /\ Cardinality(Above(table, i)) \in Nat
    BY <1>1, FS_Subset, FS_CardinalityType DEF Above
  <1>3. PICK i \in S : \A j \in S :
            Cardinality(Above(table, i)) <= Cardinality(Above(table, j))
    <2>1. N \subseteq Nat /\ N # {}
      BY <1>2
    <2> HIDE DEF N
    <2>2. PICK n \in N : \A m \in N : <<m, n>> \notin OpToRel(<, Nat)
      BY <2>1, NatLessThanWellFounded, WFMin, Zenon
    <2>3. \A m \in N : ~(m < n)
      BY <2>1, <2>2, Zenon DEF OpToRel
    <2>4. n \in Nat /\ \A m \in N : m \in Nat /\ n <= m
      BY <2>1, <2>3
    <2> QED  BY <2>4 DEF N
  <1>4. Above(table, i) = {}
    <2> SUFFICES ASSUME NEW j \in Above(table, i)  PROVE FALSE
      OBVIOUS
    <2>1. j \in S /\ j \notin Above(table, j)
      BY <1>1 DEF Above, Beats
    <2>2. Above(table, j) \in SUBSET Above(table, i)
      <3> SUFFICES ASSUME NEW k \in Above(table, j)  PROVE k \in Above(table, i)
        OBVIOUS
      <3>1. k \in S /\ Beats(table, k, j) /\ Beats(table, j, i)
        BY DEF Above, Beats
      <3> QED  BY <1>1, <2>1, <3>1 DEF Above, Beats
    <2>3. Above(table, j) # Above(table, i)
      BY <2>1
    <2>4. Cardinality(Above(table, j)) < Cardinality(Above(table, i))
      <3>1. /\ Cardinality(Above(table, j)) <= Cardinality(Above(table, i))
            /\ Cardinality(Above(table, i)) # Cardinality(Above(table, j))
        BY <1>2, <2>2, <2>3, FS_Subset
      <3> QED  BY <1>2, <2>1, <3>1
    <2> QED  BY <1>2, <1>3, <2>1, <2>4
  <1> DEFINE isBest(k) == /\ table[k] # Idle
                          /\ \A j \in DOMAIN table \ {k} : table[j] # Idle => Beats(table, k, j)
  <1>5. isBest(i)
    <2> SUFFICES ASSUME NEW j \in Indices \ {i}, table[j] # Idle  PROVE Beats(table, i, j)
      OBVIOUS
    <2>1. ~Beats(table, j, i)
      BY <1>4 DEF Above
    <2>2. i \in Nat /\ j \in Nat /\ i # j
      BY <1>1
    <2> QED  BY <1>1, <2>1, <2>2 DEF Beats
  <1>6. PICK b : b = Best(table)
    OBVIOUS
  <1>7. b \in DOMAIN table /\ isBest(b)
    <2>1. b = CHOOSE k \in DOMAIN table : table[k] # Idle /\
                  \A j \in DOMAIN table \ {k} : table[j] # Idle =>
                      \/ Priority[table[k].form] > Priority[table[j].form]
                      \/ Priority[table[k].form] = Priority[table[j].form] /\ k < j
      BY <1>6, Zenon DEF Best
    <2>2. \E k \in DOMAIN table : table[k] # Idle /\
              \A j \in DOMAIN table \ {k} : table[j] # Idle =>
                  \/ Priority[table[k].form] > Priority[table[j].form]
                  \/ Priority[table[k].form] = Priority[table[j].form] /\ k < j
      BY <1>5 DEF Beats
    <2>3. b \in DOMAIN table /\ table[b] # Idle /\
              \A j \in DOMAIN table \ {b} : table[j] # Idle =>
                  \/ Priority[table[b].form] > Priority[table[j].form]
                  \/ Priority[table[b].form] = Priority[table[j].form] /\ b < j
      BY <2>1, <2>2, Zenon
    <2>4. isBest(b)
      BY <1>5, <2>3 DEF Beats
    <2> QED  BY <2>3, <2>4
  <1>8. \A j \in Indices : table[j] # Idle =>
            Priority[table[b].form] >= Priority[table[j].form]
    <2> SUFFICES ASSUME NEW j \in Indices, table[j] # Idle
                 PROVE  Priority[table[b].form] >= Priority[table[j].form]
      OBVIOUS
    <2>1. Priority[table[b].form] \in Nat /\ Priority[table[j].form] \in Nat
      BY <1>1, <1>7
    <2>2. CASE j = b
      BY <2>1, <2>2
    <2>3. CASE j # b
      <3>1. Beats(table, b, j)
        BY <1>7, <2>3
      <3> QED  BY <2>1, <3>1 DEF Beats
    <2> QED  BY <2>2, <2>3
  <1> QED  BY <1>6, <1>7, <1>8

(* evaluate() answers with an active request, and no active one is more urgent.    *)
LEMMA Decided ==
    ASSUME IInv, Decide
    PROVE  /\ decision' \in Requests
           /\ \A i \in Indices : slots'[i] # Idle =>
                  Priority[decision'.form] >= Priority[slots'[i].form]
  <1>1. slots' \in [Indices -> Requests \cup {Idle}] /\ 0 \in Indices /\ slots'[0] # Idle
    BY DecideInv, TableIsLarge DEF IInv, LoopType, TableOf
  <1>2. decision' = slots'[Best(slots')]
    BY Zenon DEF Decide
  <1>3. /\ Best(slots') \in Indices /\ slots'[Best(slots')] # Idle
        /\ \A j \in Indices : slots'[j] # Idle =>
               Priority[slots'[Best(slots')].form] >= Priority[slots'[j].form]
    BY <1>1, BestIsBest
  <1>4. PICK b \in Indices : b = Best(slots')
    BY <1>3
  <1>5. slots'[b] \in Requests
    BY <1>1, <1>3, <1>4
  <1> QED  BY <1>2, <1>3, <1>4, <1>5

(* The rest of the types.                                                          *)
RestType ==
    /\ Len(queue) <= QueueCapacity /\ sync \in [Engines -> AllForms \cup {Idle}]
    /\ panel \in {"lit", "dark", "turning"} /\ pc \in {"produce", "gate", "drain"}
    /\ web \in 0 .. WebBurst /\ decision \in Requests
BitType == dropped \in BOOLEAN /\ requested \in BOOLEAN /\ mayStall \in Stalls

LEMMA TypeParts == TypeOK <=> LoopType /\ RestType /\ BitType
  BY Zenon DEF TypeOK, LoopType, RestType, BitType

LEMMA PushFits ==
    ASSUME queue \in Seq(Commands), Len(queue) <= QueueCapacity, NEW c, Push(c)
    PROVE  Len(queue') <= QueueCapacity
  <1>1. CASE Len(queue) < QueueCapacity
    BY <1>1, ArbiterAssumption, AppendProperties DEF Push
  <1>2. CASE ~(Len(queue) < QueueCapacity)
    BY <1>2 DEF Push
  <1> QED  BY <1>1, <1>2

LEMMA PushBits == ASSUME dropped \in BOOLEAN, NEW c, Push(c)  PROVE dropped' \in BOOLEAN
  <1>1. dropped' = dropped \/ dropped' = TRUE
    BY Zenon DEF Push
  <1> QED  BY <1>1, Zenon

LEMMA InitTypes == Init => RestType /\ BitType
  <1> SUFFICES ASSUME Init  PROVE RestType /\ BitType
    OBVIOUS
  <1>1. RestType
    BY FallbackIs, ArbiterAssumption DEF Init, RestType
  <1>2. BitType
    BY Zenon DEF Init, BitType
  <1> QED  BY <1>1, <1>2

LEMMA StepTypes == IInv /\ RestType /\ BitType /\ [Next]_vars => RestType' /\ BitType'
  <1> SUFFICES ASSUME IInv, RestType, BitType, [Next]_vars  PROVE RestType' /\ BitType'
    OBVIOUS
  <1>0. queue \in Seq(Commands) /\ Order \in Seq(Engines) /\ Len(queue) \in Nat
    BY ArbiterAssumption DEF IInv, LoopType
  <1> USE DEF envVars
  <1>1. CASE EvaluateDisplayRequest
    <2>1. PICK s : s = Order[next] /\ s \in Engines
      BY <1>1, ArbiterAssumption DEF EvaluateDisplayRequest, IInv, LoopType
    <2>2. \/ \E c : Push(c)
          \/ UNCHANGED <<queue, dropped>>
      BY <1>1, Zenon DEF EvaluateDisplayRequest, Submit, Cancel
    <2>3. Len(queue') <= QueueCapacity
      BY <1>0, <2>2, PushFits DEF RestType
    <2>4. sync' = sync \/ sync' = [sync EXCEPT ![s] = wanted[s]] \/ sync' = [sync EXCEPT ![s] = Idle]
      BY <1>1, <2>1 DEF EvaluateDisplayRequest
    <2>5. sync' \in [Engines -> AllForms \cup {Idle}]
      BY <2>1, <2>4 DEF RestType, IInv, LoopType
    <2>6. UNCHANGED <<panel, pc, web, decision>>
      BY <1>1 DEF EvaluateDisplayRequest
    <2>7. BitType'
      <3>1. UNCHANGED <<requested, mayStall>>
        BY <1>1 DEF EvaluateDisplayRequest
      <3>2. dropped' \in BOOLEAN
        BY <2>2, PushBits, Zenon DEF BitType
      <3> QED  BY <3>1, <3>2, Zenon DEF BitType
    <2> QED  BY <2>3, <2>5, <2>6, <2>7 DEF RestType
  <1>2. CASE RequestWebUiSyncWindow
    <2>1. (\E c : Push(c)) \/ UNCHANGED <<queue, dropped>>
      BY <1>2, Zenon DEF RequestWebUiSyncWindow, Submit
    <2>2. Len(queue') <= QueueCapacity
      BY <1>0, <2>1, PushFits DEF RestType
    <2>3. web' \in 0 .. WebBurst /\ UNCHANGED <<sync, panel, pc, decision>>
      BY <1>2, ArbiterAssumption DEF RequestWebUiSyncWindow, RestType
    <2>4. BitType'
      <3>1. requested' = TRUE /\ mayStall' = mayStall
        BY <1>2 DEF RequestWebUiSyncWindow
      <3>2. dropped' \in BOOLEAN
        BY <2>1, PushBits, Zenon DEF BitType
      <3> QED  BY <3>1, <3>2, Zenon DEF BitType
    <2> QED  BY <2>2, <2>3, <2>4 DEF RestType
  <1>3. CASE Drain
    <2>1. UNCHANGED <<dropped, wanted, panel, mayStall, sync, requested, pc, web, decision>>
      BY <1>3 DEF Drain
    <2>2. Len(queue') <= QueueCapacity
      <3>1. queue # <<>> /\ queue' = Tail(queue)
        BY <1>3 DEF Drain
      <3>2. Len(queue') = Len(queue) - 1
        BY <1>0, <3>1, HeadTailProperties
      <3> QED  BY <1>0, <3>2, ArbiterAssumption DEF RestType
    <2>3. BitType'
      BY <2>1, Zenon DEF BitType
    <2> QED  BY <2>1, <2>2, <2>3 DEF RestType
  <1>4. CASE Decide
    <2>1. UNCHANGED <<dropped, panel, mayStall, sync, queue>> /\ pc' = "produce" /\ web' = 0
          /\ requested' = (requested /\ ~(decision.source = WebUi /\ decision'.source # WebUi))
      BY <1>4 DEF Decide
    <2>2. BitType'
      BY <2>1, Zenon DEF BitType
    <2> QED  BY <1>4, <2>1, <2>2, Decided, ArbiterAssumption DEF RestType
  <1>5. CASE \/ \E s \in Engines : Want(s)
             \/ Stall \/ LightUp \/ EvaluateDone \/ Gate \/ UNCHANGED vars
    <2>1. UNCHANGED <<dropped, requested, mayStall>>
      BY <1>5 DEF Want, Stall, LightUp, EvaluateDone, Gate, vars
    <2>2. UNCHANGED <<queue, sync, web, decision>>
      BY <1>5 DEF Want, Stall, LightUp, EvaluateDone, Gate, vars
    <2>3. panel' \in {"lit", "dark", "turning"} /\ pc' \in {"produce", "gate", "drain"}
      BY <1>5 DEF Want, Stall, LightUp, EvaluateDone, Gate, vars, RestType
    <2>4. BitType'
      BY <2>1, Zenon DEF BitType
    <2> QED  BY <2>2, <2>3, <2>4 DEF RestType
  <1> QED  BY <1>1, <1>2, <1>3, <1>4, <1>5 DEF Next, Update

LEMMA AlwaysTyped == Spec => [](IInv /\ RestType /\ BitType)
  <1>1. Init => IInv /\ RestType /\ BitType
    BY InitInv, InitTypes
  <1>2. IInv /\ RestType /\ BitType /\ [Next]_vars => (IInv /\ RestType /\ BitType)'
    BY StepInv, StepTypes
  <1> QED  BY <1>1, <1>2, PTL DEF Spec

(* Every variable keeps its type; in particular the decision is always a request   *)
(* and the queue never holds more than it has places for.                          *)
THEOREM ArbiterTypeCorrect == Spec => []TypeOK
  <1>1. IInv /\ RestType /\ BitType => TypeOK
    BY TypeParts DEF IInv
  <1> QED  BY <1>1, AlwaysTyped, PTL

(* The decision of evaluate() is an active request, and no active one, of any source *)
(* and in any slot, is more urgent.                                                *)
DecidesMostUrgent ==
    [][Decide => /\ \E i \in Indices : slots'[i] = decision'
                 /\ \A i \in Indices : slots'[i] # Idle =>
                        Priority[decision'.form] >= Priority[slots'[i].form]]_vars

THEOREM MostUrgentDecided == Spec => DecidesMostUrgent
  <1>1. ASSUME IInv, Decide
        PROVE  /\ \E i \in Indices : slots'[i] = decision'
               /\ \A i \in Indices : slots'[i] # Idle =>
                      Priority[decision'.form] >= Priority[slots'[i].form]
    <2>1. decision' = slots'[Best(slots')]
      BY <1>1, Zenon DEF Decide
    <2>2. slots' \in [Indices -> Requests \cup {Idle}] /\ 0 \in Indices /\ slots'[0] # Idle
      BY <1>1, DecideInv, TableIsLarge DEF IInv, LoopType, TableOf
    <2>3. Best(slots') \in Indices
      BY <2>2, BestIsBest
    <2>4. \A i \in Indices : slots'[i] # Idle =>
              Priority[decision'.form] >= Priority[slots'[i].form]
      BY <1>1, Decided
    <2> QED  BY <2>1, <2>3, <2>4
  <1>2. IInv /\ [Next]_vars =>
            [Decide => /\ \E i \in Indices : slots'[i] = decision'
                       /\ \A i \in Indices : slots'[i] # Idle =>
                              Priority[decision'.form] >= Priority[slots'[i].form]]_vars
    BY <1>1, Zenon
  <1> QED  BY <1>2, AlwaysInv, PTL DEF Spec, DecidesMostUrgent

(* The decision is at least as urgent as what any engine last asked for: whatever  *)
(* commands, web requests and expiries came in between, no engine is passed over.  *)
UrgentShown ==
    [][Decide => \/ mayStall /\ dropped
                 \/ \A s \in Engines : sync[s] # Idle =>
                        Priority[decision'.form] >= Priority[sync[s]]]_vars

(* With the table in agreement and the best slot chosen, no engine is passed over, *)
(* when the queue holds what one iteration sends.                                  *)
THEOREM NoEnginePassedOver ==
    ASSUME QueueHoldsIteration
    PROVE  Spec => UrgentShown
  <1> DEFINE shown == \/ mayStall /\ dropped
                      \/ \A s \in Engines : sync[s] # Idle =>
                             Priority[decision'.form] >= Priority[sync[s]]
  <1>1. ASSUME AInv, AInv', Decide  PROVE shown
    <2> SUFFICES ASSUME ~(mayStall /\ dropped), NEW s \in Engines, sync[s] # Idle
                 PROVE  Priority[decision'.form] >= Priority[sync[s]]
      OBVIOUS
    <2>1. UNCHANGED <<dropped, sync, mayStall, queue>> /\ queue = <<>>
      BY <1>1 DEF Decide, envVars
    <2>2. ~dropped' /\ Len(queue') = 0
      BY <1>1, <2>1 DEF AInv, QuietLoop
    <2>3. SlotForms(s)' = {sync[s]}
      BY <1>1, <2>1, <2>2 DEF AInv, Agreement, Delivered, Sent
    <2>4. PICK i \in Indices : slots'[i] # Idle /\ slots'[i].form = sync[s]
      BY <2>3 DEF SlotForms, SlotsOf, Active
    <2> QED  BY <1>1, <2>4, Decided DEF AInv
  <1>2. AInv /\ AInv' /\ [Next]_vars => [Decide => shown]_vars
    BY <1>1, Zenon
  <1> QED  BY <1>2, AlwaysAgrees, PTL DEF Spec, UrgentShown
================================================================================
