----------------------------- MODULE RotationProofs ------------------------------
(* The rotation, for any number of instances, slots and requests: the display       *)
(* runtime keeps no pointer to an engine that was handed over, no engine but the      *)
(* current one is activated on its paths, and once the queue is empty no engine is    *)
(* out of date, and none shown or kept whose instance is not listed.                 *)
EXTENDS Rotation, Integers, FiniteSetTheorems, WellFoundedInduction, TLAPS

--------------------------------------------------------------------------------
(* An engine in the pool was made from a configuration.                            *)
Made == \A i \in Instances : pool[i] # None => built[i] \in Settings

(* The slot loop() is about to draw, or to switch to before it draws it, is one of *)
(* the list it has a guard on.                                                     *)
InView == pc = "draw" \/ (pc = "switch" /\ back = "draw") => index \in DOMAIN view

(* What the web server has announced and Core 1 has not done yet ...               *)
Ahead(action) == action \in In(queue) \cup In(web)

(* ... or has done before the change was published.                               *)
Due(action) == Ahead(action) \/ action \in late
Telling(i) == Due(Notify(i)) \/ Tell \in In(web)

(* POST /api/settings changes the fields, and then tells, at the end of its work.  *)
LastInWeb == \A k \in DOMAIN web : web[k] \in {Mutate, Tell} => k = Len(web)

(* Whatever is out of date about an engine, or about the configuration the next     *)
(* one will be made from, is due.                                                  *)
SameKind(i) ==
    /\ conf[i] = None <=> live.conf[i] = None
    /\ conf[i] # None => conf[i].type = live.conf[i].type
    /\ pool[i] # None => conf[i] # None /\ built[i].type = conf[i].type
SameText(i) ==
    /\ conf[i] # None /\ live.conf[i] # None => conf[i].text = live.conf[i].text
    /\ conf[i] # None /\ pool[i] # None => built[i].text = conf[i].text
UpToDate(i) == SameKind(i) /\ (SameText(i) \/ Telling(i))
Announced == \A i \in Instances : Due(Recreate(i)) \/ UpToDate(i)

(* Unless a RESET is due, the list of the fields is published, and all that loop()   *)
(* has kept of a list is of this one.                                              *)
Settled ==
    /\ list = live.list
    /\ \A i \in Instances : pool[i] # None => i \in In(list)
    /\ pc # "switch" => current \in In(list) \cup {None}
    /\ pc = "switch" => list = <<>> \/ index \in DOMAIN list
    /\ pc = "draw" \/ (pc = "switch" /\ back = "draw") => view = list
Listed == Due(Reset) \/ Settled

IInv ==
    /\ TypeOK /\ Made /\ InView /\ LastInWeb
    /\ SessionEngineLives /\ OneActive
    /\ ~dropped => Announced /\ Listed

--------------------------------------------------------------------------------
(* Lemmas about the operators of the model.                                        *)

LEMMA ActionTypes ==
    /\ \A i \in Instances : Notify(i) \in Actions /\ Recreate(i) \in Actions
    /\ Reset \in Actions /\ Mutate \notin Actions /\ Tell \notin Actions /\ Mutate # Tell
  BY DEF Actions, Notify, Recreate, Reset, Mutate, Tell

LEMMA ActionsDiffer ==
    \A i, j \in Instances :
        /\ Notify(i) # Recreate(j) /\ Notify(i) # Reset /\ Recreate(i) # Reset
        /\ Notify(i) = Notify(j) => i = j
        /\ Recreate(i) = Recreate(j) => i = j
  BY DEF Notify, Recreate, Reset

(* A non-empty set of naturals has a first element.                                *)
LEMMA FirstIn == ASSUME NEW S \in SUBSET Nat, S # {}  PROVE First(S) \in S
  <1>1. PICK k \in S : \A m \in S : ~(<<m, k>> \in OpToRel(<, Nat))
    BY NatLessThanWellFounded, WFMin
  <1>2. \A m \in S : ~(m < k)
    BY <1>1 DEF OpToRel
  <1>3. \A m \in S : k <= m
    BY <1>2
  <1> QED  BY <1>3 DEF First

(* What is in a sequence after its head is taken away, or an element added.        *)
LEMMA InTail ==
    ASSUME NEW S, NEW s \in Seq(S), s # <<>>
    PROVE  /\ In(s) = {Head(s)} \cup In(Tail(s))
           /\ \A k \in DOMAIN Tail(s) : k + 1 \in DOMAIN s /\ Tail(s)[k] = s[k + 1]
           /\ \A k \in DOMAIN s : k # 1 => k - 1 \in DOMAIN Tail(s) /\ Tail(s)[k - 1] = s[k]
  <1>1. /\ Len(s) \in Nat \ {0} /\ DOMAIN s = 1 .. Len(s) /\ Head(s) = s[1]
        /\ DOMAIN Tail(s) = 1 .. Len(s) - 1
        /\ \A k \in 1 .. Len(s) - 1 : Tail(s)[k] = s[k + 1]
    OBVIOUS
  <1>2. /\ \A k \in DOMAIN Tail(s) : k + 1 \in DOMAIN s /\ Tail(s)[k] = s[k + 1]
        /\ \A k \in DOMAIN s : k # 1 => k - 1 \in DOMAIN Tail(s) /\ Tail(s)[k - 1] = s[k]
    BY <1>1
  <1>3. 1 \in DOMAIN s
    BY <1>1
  <1>4. In(s) \subseteq {Head(s)} \cup In(Tail(s))
    BY <1>1, <1>2 DEF In
  <1>5. {Head(s)} \cup In(Tail(s)) \subseteq In(s)
    BY <1>1, <1>2, <1>3 DEF In
  <1> QED  BY <1>2, <1>4, <1>5

LEMMA InAppend ==
    ASSUME NEW S, NEW s \in Seq(S), NEW e \in S
    PROVE  In(Append(s, e)) = In(s) \cup {e}
  <1> DEFINE t == Append(s, e)
  <1>a. Len(s) \in Nat /\ DOMAIN s = 1 .. Len(s)
    OBVIOUS
  <1>b. /\ DOMAIN t = 1 .. Len(s) + 1
        /\ \A k \in 1 .. Len(s) : t[k] = s[k]
        /\ t[Len(s) + 1] = e
    OBVIOUS
  <1>c. 1 .. Len(s) + 1 = (1 .. Len(s)) \cup {Len(s) + 1}
    BY <1>a
  <1>1. /\ DOMAIN t = DOMAIN s \cup {Len(s) + 1}
        /\ \A k \in DOMAIN s : t[k] = s[k]
        /\ t[Len(s) + 1] = e
    <2> HIDE DEF t
    <2> QED  BY <1>a, <1>b, <1>c
  <1> HIDE DEF t
  <1>2. In(t) = In(s) \cup {e}
    <2>1. ASSUME NEW x \in In(t)  PROVE x \in In(s) \cup {e}
      <3>1. PICK k \in DOMAIN t : x = t[k]
        BY Zenon DEF In
      <3>2. CASE k \in DOMAIN s
        <4>1. x = s[k]
          BY <1>1, <3>1, <3>2
        <4> QED  BY Zenon, <3>2, <4>1 DEF In
      <3>3. CASE k = Len(s) + 1
        BY <1>1, <3>1, <3>3
      <3> QED  BY <1>1, <3>2, <3>3
    <2>2. ASSUME NEW k \in DOMAIN s  PROVE s[k] \in In(t)
      <3>1. k \in DOMAIN t /\ t[k] = s[k]
        BY <1>1
      <3> QED  BY Zenon, <3>1 DEF In
    <2>3. e \in In(t)
      <3>1. Len(s) + 1 \in DOMAIN t
        BY <1>1
      <3> QED  BY Zenon, <1>1, <3>1 DEF In
    <2>4. In(s) \subseteq In(t)
      BY Zenon, <2>2 DEF In
    <2> QED  BY Zenon, <2>1, <2>3, <2>4
  <1> QED  BY <1>2 DEF t

LEMMA EnginesFinite == IsFiniteSet(Engines)
  <1>1. IsFiniteSet(1 .. Objects)
    BY RotationAssumption, FS_Interval
  <1> QED  BY <1>1, RotationAssumption, FS_Product DEF Engines

LEMMA AliveType == TypeOK => Alive \subseteq Engines
  BY DEF TypeOK, Alive

LEMMA EngineType == TypeOK => Engine(current) \in Engines \cup {None}
  BY DEF TypeOK, Engine

(* An instance has as many objects as there are numbers for them.                  *)
LEMMA ObjectsCounted == Cardinality(1 .. Objects) = Objects
  <1>1. Objects \in Nat
    BY RotationAssumption
  <1>2. 1 \in Int /\ Objects \in Int
    BY <1>1
  <1>3. Cardinality(1 .. Objects) = IF 1 > Objects THEN 0 ELSE Objects - 1 + 1
    BY <1>2, FS_Interval, Zenon
  <1> QED  BY <1>1, <1>3

(* A slot that is free leaves an object of every instance: what is in slots and on *)
(* its way to destruction is fewer than there are.                                 *)
LEMMA ObjectLeft ==
    ASSUME TypeOK, NEW i, NEW taken \in SUBSET Engines, NEW rest \in SUBSET Engines,
           Alive \cup pending \cup ring \subseteq taken \cup rest,
           Cardinality(rest) <= RingCapacity, Create(i, taken) # None
    PROVE  /\ Create(i, taken) \in Engines \ (Alive \cup pending \cup ring)
           /\ i \in Instances /\ conf[i] \in Settings
  <1>1. i \in Instances /\ conf[i] # None /\ ~(Cardinality(taken) >= MaxSlots)
    BY Zenon DEF Create
  <1>2. /\ IsFiniteSet(taken) /\ Cardinality(taken) \in Nat
        /\ IsFiniteSet(rest) /\ Cardinality(rest) \in Nat
    BY EnginesFinite, FS_Subset, FS_CardinalityType
  <1>3. /\ IsFiniteSet(taken \cup rest)
        /\ Cardinality(taken \cup rest) \in Nat
        /\ Cardinality(taken \cup rest) <= Cardinality(taken) + Cardinality(rest)
    <2>1. IsFiniteSet(taken \cap rest) /\ Cardinality(taken \cap rest) \in Nat
      BY <1>2, FS_Intersection, FS_CardinalityType
    <2>2. IsFiniteSet(taken \cup rest) /\ Cardinality(taken \cup rest) \in Nat
      BY <1>2, FS_Union, FS_CardinalityType
    <2>3. Cardinality(taken \cup rest)
              = Cardinality(taken) + Cardinality(rest) - Cardinality(taken \cap rest)
      BY <1>2, FS_Union
    <2> QED  BY <1>2, <2>1, <2>2, <2>3
  <1>4. \E n \in 1 .. Objects : <<i, n>> \notin Alive \cup pending \cup ring
    <2> SUFFICES ASSUME \A n \in 1 .. Objects : <<i, n>> \in taken \cup rest  PROVE FALSE
      OBVIOUS
    <2> DEFINE f == [n \in 1 .. Objects |-> <<i, n>>]
    <2>1. f \in Injection(1 .. Objects, taken \cup rest)
      <3>1. f \in [1 .. Objects -> taken \cup rest]
        OBVIOUS
      <3>2. \A m, n \in 1 .. Objects : f[m] = f[n] => m = n
        OBVIOUS
      <3> QED  BY <3>1, <3>2 DEF Injection, IsInjective
    <2>2. Cardinality(1 .. Objects) <= Cardinality(taken \cup rest)
      BY <2>1, <1>3, FS_Injection
    <2>3. Cardinality(1 .. Objects) = Objects
      BY ObjectsCounted
    <2> QED  BY <1>1, <1>2, <1>3, <2>2, <2>3, RotationAssumption
  <1> DEFINE free(n) == <<i, n>> \notin Alive \cup pending \cup ring
  <1>5. Create(i, taken) = <<i, CHOOSE n \in 1 .. Objects : free(n)>>
    BY <1>1, Zenon DEF Create
  <1>6. /\ (CHOOSE n \in 1 .. Objects : free(n)) \in 1 .. Objects
        /\ free(CHOOSE n \in 1 .. Objects : free(n))
    BY <1>4, Zenon
  <1>7. Create(i, taken) \in Engines \ (Alive \cup pending \cup ring)
    <2> DEFINE n == CHOOSE n \in 1 .. Objects : free(n)
    <2>1. Create(i, taken) = <<i, n>> /\ n \in 1 .. Objects /\ free(n)
      BY <1>5, <1>6, Zenon
    <2> HIDE DEF n
    <2> QED  BY <1>1, <2>1 DEF Engines
  <1> QED  BY <1>1, <1>7 DEF TypeOK

--------------------------------------------------------------------------------
(* retireEngineSlot(), flushPendingRetirements() and switchToModule().             *)

(* What goes over to Core 0 is what fits.                                          *)
LEMMA RingFits ==
    ASSUME TypeOK, NEW objects \in SUBSET Engines, NEW pushed \in SUBSET objects,
           IF Cardinality(objects) <= Room THEN pushed = objects
           ELSE Cardinality(pushed) = Room
    PROVE  ring \cup pushed \subseteq Engines /\ Cardinality(ring \cup pushed) <= RingCapacity
  <1>1. /\ IsFiniteSet(ring) /\ Cardinality(ring) \in Nat
        /\ IsFiniteSet(pushed) /\ Cardinality(pushed) \in Nat
        /\ IsFiniteSet(ring \cap pushed) /\ Cardinality(ring \cap pushed) \in Nat
    BY EnginesFinite, FS_Subset, FS_CardinalityType DEF TypeOK
  <1>2. Cardinality(ring \cup pushed)
            = Cardinality(ring) + Cardinality(pushed) - Cardinality(ring \cap pushed)
    BY <1>1, FS_Union
  <1>3. Cardinality(pushed) <= Room
    BY <1>1, RotationAssumption DEF Room, TypeOK
  <1>4. Cardinality(ring \cup pushed) <= RingCapacity
    BY <1>1, <1>2, <1>3, RotationAssumption DEF Room
  <1> QED  BY <1>4 DEF TypeOK

LEMMA Retired ==
    ASSUME TypeOK, NEW gone \in SUBSET Instances, Retire(gone)
    PROVE  /\ pool' \in [Instances -> Engines \cup {None}]
           /\ built' \in [Instances -> Settings \cup {None}]
           /\ \A i \in gone : pool'[i] = None
           /\ \A i \in Instances \ gone : pool'[i] = pool[i] /\ built'[i] = built[i]
           /\ ring' \subseteq Engines /\ Cardinality(ring') <= RingCapacity
           /\ pending' \subseteq Engines /\ session' \in Engines \cup {None}
           /\ session' # None =>
                  session' = session /\ \A i \in gone : pool[i] # session
  <1> DEFINE objects == {pool[i] : i \in gone} \ {None}
  <1>1. objects \subseteq Engines
    BY DEF TypeOK
  <1>2. PICK pushed \in SUBSET objects :
            /\ IF Cardinality(objects) <= Room THEN pushed = objects
               ELSE Cardinality(pushed) = Room
            /\ ring' = ring \cup pushed /\ pending' = pending \cup (objects \ pushed)
    BY Zenon DEF Retire
  <1>3. ring' \subseteq Engines /\ Cardinality(ring') <= RingCapacity
    BY <1>1, <1>2, RingFits
  <1>4. pending' \subseteq Engines
    BY <1>1, <1>2 DEF TypeOK
  <1>5. /\ pool' = [i \in Instances |-> IF i \in gone THEN None ELSE pool[i]]
        /\ built' = [i \in Instances |-> IF i \in gone THEN None ELSE built[i]]
        /\ session' = IF session \in objects THEN None ELSE session
    BY Zenon DEF Retire
  <1>6. /\ pool' \in [Instances -> Engines \cup {None}]
        /\ built' \in [Instances -> Settings \cup {None}]
        /\ \A i \in gone : pool'[i] = None
        /\ \A i \in Instances \ gone : pool'[i] = pool[i] /\ built'[i] = built[i]
    BY <1>5 DEF TypeOK
  <1>7. session' \in Engines \cup {None}
    BY <1>5 DEF TypeOK
  <1>8. session' # None => session' = session /\ \A i \in gone : pool[i] # session
    BY <1>5
  <1> QED  BY <1>3, <1>4, <1>6, <1>7, <1>8

(* switchToModule() retires the engine it leaves, or keeps it, and finds or makes  *)
(* the next one.                                                                   *)
LEMMA Switched ==
    ASSUME TypeOK, NEW new \in Instances \cup {Garbage}, SwitchTo(new)
    PROVE  /\ pool' \in [Instances -> Engines \cup {None}]
           /\ built' \in [Instances -> Settings \cup {None}]
           /\ ring' \subseteq Engines /\ Cardinality(ring') <= RingCapacity
           /\ pending' \subseteq Engines /\ on' \subseteq Engines
           /\ session' \in {session, None}
           /\ \A i \in Instances \ {new} :
                  pool'[i] # None => pool'[i] = pool[i] /\ built'[i] = built[i]
           /\ new \in Instances /\ pool[new] # None =>
                  pool'[new] = pool[new] /\ built'[new] = built[new]
           /\ new \in Instances /\ pool[new] = None /\ pool'[new] # None =>
                  built'[new] = conf[new] /\ conf[new] \in Settings
           /\ session' # None => \A i \in Instances : pool[i] = session => pool'[i] = session
           /\ \A e \in on' :
                  (e \in on /\ e # Engine(current)) \/ (new \in Instances /\ e = pool'[new])
  <1> DEFINE old == IF current = new THEN None ELSE Engine(current)
             evict == ~Psram /\ old # None /\ current \in Heavy
             left == IF old # None THEN {old} ELSE {}
             moved == IF evict /\ Room > 0 THEN left ELSE {}
             stuck == IF evict /\ Room = 0 THEN left ELSE {}
             made == Create(new, (Alive \cup pending) \ moved)
             engine == IF Engine(new) # None THEN Engine(new) ELSE made
             kept == IF evict THEN [pool EXCEPT ![current] = None] ELSE pool
             forgotten == IF evict THEN [built EXCEPT ![current] = None] ELSE built
  <1>1. /\ ring' = ring \cup moved /\ pending' = pending \cup stuck
        /\ session' = IF evict /\ session = old THEN None ELSE session
        /\ pool' = IF engine = None THEN kept ELSE [kept EXCEPT ![new] = engine]
        /\ built' = IF engine # None /\ engine = made /\ Engine(new) = None
                    THEN [forgotten EXCEPT ![new] = conf[new]] ELSE forgotten
        /\ \E active \in SUBSET ({engine} \ {None}) : on' = (on \ left) \cup active
    BY Zenon DEF SwitchTo
  <1>2. /\ pool \in [Instances -> Engines \cup {None}]
        /\ built \in [Instances -> Settings \cup {None}]
        /\ None \notin Instances \cup Engines /\ Garbage \notin Instances
        /\ Heavy \subseteq Instances
    BY RotationAssumption DEF TypeOK
  <1>3. old \in Engines \cup {None} /\ left \subseteq Engines
    BY EngineType, <1>2
  <1>4. moved \subseteq Engines /\ stuck \subseteq Engines
    BY <1>3
  <1>5. ring' \subseteq Engines /\ Cardinality(ring') <= RingCapacity
    <2>1. IsFiniteSet(ring) /\ Cardinality(ring) \in Nat
      BY EnginesFinite, FS_Subset, FS_CardinalityType DEF TypeOK
    <2>2. CASE moved = {}
      BY <1>1, <2>2 DEF TypeOK
    <2>3. CASE moved # {}
      <3>1. moved = {old} /\ Room > 0
        BY <2>3
      <3>2. Cardinality(ring \cup {old}) <= Cardinality(ring) + 1
        <4> HIDE DEF old
        <4>1. Cardinality(ring \cup {old})
                  = IF old \in ring THEN Cardinality(ring) ELSE Cardinality(ring) + 1
          BY <2>1, FS_AddElement
        <4> QED  BY <2>1, <4>1
      <3>3. IsFiniteSet(ring \cup {old}) /\ Cardinality(ring \cup {old}) \in Nat
        BY <2>1, FS_AddElement, FS_CardinalityType
      <3>4. Cardinality(ring \cup {old}) <= RingCapacity
        BY <2>1, <3>1, <3>2, <3>3, RotationAssumption DEF Room
      <3> HIDE DEF moved, old
      <3> QED  BY <1>1, <1>4, <3>1, <3>4 DEF TypeOK
    <2> QED  BY <2>2, <2>3
  <1>6. pending' \subseteq Engines
    BY <1>1, <1>4 DEF TypeOK
  <1>7. made # None => made \in Engines /\ new \in Instances /\ conf[new] \in Settings
    <2> DEFINE taken == (Alive \cup pending) \ moved
               rest == ring \cup moved
    <2>1. taken \in SUBSET Engines /\ rest \in SUBSET Engines
      BY AliveType, <1>4 DEF TypeOK
    <2>2. Alive \cup pending \cup ring \subseteq taken \cup rest
      BY Zenon
    <2>3. Cardinality(rest) <= RingCapacity
      BY <1>1, <1>5
    <2>4. made = Create(new, taken)
      OBVIOUS
    <2> HIDE DEF taken, rest, made
    <2> QED  BY <2>1, <2>2, <2>3, <2>4, ObjectLeft
  <1> HIDE DEF made
  <1>8. engine # None => engine \in Engines /\ new \in Instances
    BY <1>2, <1>7 DEF Engine
  <1>9. /\ kept \in [Instances -> Engines \cup {None}]
        /\ forgotten \in [Instances -> Settings \cup {None}]
        /\ \A i \in Instances : kept[i] # None => kept[i] = pool[i] /\ forgotten[i] = built[i]
        /\ ~evict => kept = pool /\ forgotten = built
        /\ evict => \A i \in Instances \ {current} : kept[i] = pool[i] /\ forgotten[i] = built[i]
    BY <1>2
  <1>10. evict => current # new /\ current \in Instances /\ old = pool[current]
    BY <1>2 DEF Engine
  <1>11. new \in Instances => Engine(new) = pool[new] /\ kept[new] = pool[new]
                              /\ forgotten[new] = built[new]
    BY <1>9, <1>10 DEF Engine
  <1>12. /\ engine = None => pool' = kept
         /\ engine # None => pool' = [kept EXCEPT ![new] = engine]
         /\ built' = forgotten \/ built' = [forgotten EXCEPT ![new] = conf[new]]
         /\ built' # forgotten => engine = made /\ engine # None /\ Engine(new) = None
         /\ engine # None /\ engine = made /\ Engine(new) = None =>
                built' = [forgotten EXCEPT ![new] = conf[new]]
    BY <1>1, Zenon
  <1> HIDE DEF kept, forgotten
  <1>13. pool' \in [Instances -> Engines \cup {None}]
    BY <1>8, <1>9, <1>12
  <1>14. built' \in [Instances -> Settings \cup {None}]
    BY <1>7, <1>9, <1>12
  <1>15. \A i \in Instances \ {new} :
             pool'[i] # None => pool'[i] = pool[i] /\ built'[i] = built[i]
    BY <1>9, <1>12
  <1>16. new \in Instances /\ pool[new] # None =>
             pool'[new] = pool[new] /\ built'[new] = built[new]
    BY <1>9, <1>11, <1>12
  <1>17. new \in Instances /\ pool[new] = None /\ pool'[new] # None =>
             built'[new] = conf[new] /\ conf[new] \in Settings
    BY <1>7, <1>9, <1>11, <1>12
  <1>18. on' \subseteq Engines
    BY <1>1, <1>8 DEF TypeOK
  <1>19. session' # None => \A i \in Instances : pool[i] = session => pool'[i] = session
    <2> SUFFICES ASSUME session' # None, NEW i \in Instances, pool[i] = session
                 PROVE  pool'[i] = session
      OBVIOUS
    <2>1. session' = session /\ ~(evict /\ session = old)
      BY <1>1
    <2>2. kept[i] = pool[i]
      BY <1>9, <1>10, <2>1
    <2>3. i = new => engine = None \/ engine = pool[new]
      BY <2>1, <1>11
    <2> QED  BY <1>9, <1>12, <2>2, <2>3
  <1>20. ASSUME NEW e \in on'
         PROVE  (e \in on /\ e # Engine(current)) \/ (new \in Instances /\ e = pool'[new])
    <2>1. (e \in on /\ e \notin left) \/ (e = engine /\ engine # None)
      BY <1>1
    <2>2. engine # None => new \in Instances /\ pool'[new] = engine
      BY <1>8, <1>9, <1>12
    <2>3. CASE e = engine /\ engine # None
      BY <2>2, <2>3
    <2>4. CASE e \in on /\ e \notin left
      <3>1. e # None
        BY <1>2, <2>4 DEF TypeOK
      <3>2. CASE current # new
        BY <2>4, <3>1, <3>2
      <3>3. CASE current = new
        BY <1>11, <1>16, <2>4, <3>1, <3>3 DEF Engine
      <3> QED  BY <3>2, <3>3
    <2> QED  BY <2>1, <2>3, <2>4
  <1>21. session' \in {session, None}
    BY <1>1
  <1> QED  BY <1>5, <1>6, <1>13, <1>14, <1>15, <1>16, <1>17, <1>18, <1>19, <1>20, <1>21

--------------------------------------------------------------------------------
(* The initial states. *)

LEMMA InitInv == Init => IInv
  <1> SUFFICES ASSUME Init  PROVE IInv
    OBVIOUS
  <1>1. /\ pool = [i \in Instances |-> None] /\ session = None /\ on = {} /\ web = <<>>
        /\ pc = "idle" /\ queue = <<Reset>> /\ ring = {} /\ conf = live.conf
    BY DEF Init
  <1>2. TypeOK
    <2>1. list \in Seq(Instances) /\ view \in Seq(Instances)
      BY RotationAssumption DEF Init
    <2>2. queue \in Seq(Actions) /\ Len(queue) <= QueueCapacity
      BY <1>1, ActionTypes, RotationAssumption
    <2>3. Cardinality(ring) <= RingCapacity
      BY <1>1, FS_EmptySet, RotationAssumption
    <2>4. conf \in [Instances -> Settings \cup {None}]
      BY DEF Init, Settings
    <2>9. live \in [list : Seq(Instances), conf : [Instances -> Settings \cup {None}]]
      BY <2>1, <2>4 DEF Init
    <2>5. /\ pool \in [Instances -> Engines \cup {None}]
          /\ built \in [Instances -> Settings \cup {None}]
      BY DEF Init
    <2>6. edits \in 0 .. MaxEdits /\ index \in Nat \ {0} /\ web \in Seq(Actions \cup {Mutate, Tell})
      BY RotationAssumption DEF Init
    <2>7. /\ pending \subseteq Engines /\ ring \subseteq Engines /\ on \subseteq Engines
          /\ stray \subseteq Engines /\ late \subseteq Actions
          /\ current \in Instances \cup {None, Garbage} /\ session \in Engines \cup {None}
          /\ held \in Engines \cup {None}
          /\ pc \in {"idle", "actions", "draw", "switch"}
          /\ back \in {"idle", "actions", "draw"}
      BY DEF Init
    <2>8. /\ dropped \in BOOLEAN /\ missing \in BOOLEAN /\ suspended \in BOOLEAN
      BY Zenon DEF Init
    <2> QED  BY <2>1, <2>2, <2>3, <2>4, <2>5, <2>6, <2>7, <2>8, <2>9, Zenon DEF TypeOK
  <1>3. Made /\ SessionEngineLives /\ Announced
    BY <1>1 DEF Made, SessionEngineLives, Announced, UpToDate, SameKind, SameText
  <1>4. InView /\ LastInWeb /\ OneActive
    BY <1>1 DEF InView, LastInWeb, OneActive
  <1>5. Listed
    <2>1. Reset \in In(queue)
      BY <1>1 DEF In
    <2> QED  BY <2>1 DEF Listed, Due, Ahead
  <1> QED  BY <1>2, <1>3, <1>4, <1>5 DEF IInv

--------------------------------------------------------------------------------
(* Types.  The steps of the web server and of the task that calls setSuspended().  *)

LEMMA ServeType ==
    ASSUME TypeOK, NEW actions \in Seq(Actions \cup {Mutate, Tell}), Serve(actions),
           list' \in Seq(Instances), conf' \in [Instances -> Settings \cup {None}],
           live' \in [list : Seq(Instances), conf : [Instances -> Settings \cup {None}]]
    PROVE  TypeOK'
  BY RotationAssumption
  DEF Serve, TypeOK, engines, place, suspension

(* The parts of the fields, and what mutate() makes of them.                       *)
LEMMA LiveType ==
    ASSUME TypeOK
    PROVE  /\ live.list \in Seq(Instances) /\ live.conf \in [Instances -> Settings \cup {None}]
           /\ \A l \in Seq(Instances), c \in [Instances -> Settings \cup {None}] :
                [list |-> l, conf |-> c]
                    \in [list : Seq(Instances), conf : [Instances -> Settings \cup {None}]]
           /\ live = [list |-> live.list, conf |-> live.conf]
  BY DEF TypeOK

LEMMA PublishType ==
    ASSUME TypeOK, Publish \/ UNCHANGED published
    PROVE  list' \in Seq(Instances) /\ conf' \in [Instances -> Settings \cup {None}]
  BY DEF TypeOK, Publish, published

LEMMA InOrderOf ==
    ASSUME NEW S \in SUBSET Instances
    PROVE  /\ Cardinality(S) \in Nat
           /\ InOrder(S) \in [1 .. Cardinality(S) -> S]
           /\ \A i \in S : \E k \in DOMAIN InOrder(S) : InOrder(S)[k] = i
  <1> DEFINE enumerates(s) == \A i \in S : \E k \in DOMAIN s : s[k] = i
  <1>1. IsFiniteSet(S) /\ Cardinality(S) \in Nat
        /\ ExistsBijection(1 .. Cardinality(S), S)
    BY RotationAssumption, FS_Subset, FS_CardinalityType
  <1>2. PICK s \in Bijection(1 .. Cardinality(S), S) : TRUE
    BY <1>1 DEF ExistsBijection
  <1>3. s \in [1 .. Cardinality(S) -> S] /\ enumerates(s)
    BY <1>2 DEF Bijection, Surjection
  <1>4. InOrder(S) \in [1 .. Cardinality(S) -> S] /\ enumerates(InOrder(S))
    BY <1>3, Zenon DEF InOrder
  <1> QED  BY <1>1, <1>4

(* Telling a set of instances queues a NOTIFY for each.                            *)
LEMMA ToldAll ==
    ASSUME NEW S \in SUBSET Instances
    PROVE  Told(S) \in Seq(Actions) /\ \A i \in S : Notify(i) \in In(Told(S))
  <1>1. Cardinality(S) \in Nat /\ InOrder(S) \in [1 .. Cardinality(S) -> S]
    BY InOrderOf
  <1>2. Told(S) \in [1 .. Cardinality(S) -> Actions]
    BY <1>1, ActionTypes DEF Told
  <1>3. ASSUME NEW i \in S  PROVE Notify(i) \in In(Told(S))
    <2>1. PICK k \in 1 .. Cardinality(S) : InOrder(S)[k] = i
      BY <1>1, InOrderOf
    <2>2. k \in DOMAIN Told(S) /\ Told(S)[k] = Notify(i)
      BY <2>1 DEF Told
    <2> QED  BY <2>2 DEF In
  <1> QED  BY <1>1, <1>2, <1>3

(* A new entry is one of the settings an instance may have.                        *)
LEMMA PostedType ==
    ASSUME TypeOK, NEW i \in Instances, NEW asked \in {None, 1, 2}
    PROVE  Posted(i, asked) \in Settings \cup {None}
  <1> DEFINE type == IF asked # None THEN asked
                     ELSE IF live.conf[i] = None THEN 1 ELSE live.conf[i].type
  <1>1. live.conf[i] # None => live.conf[i].type \in 1 .. 2 /\ 3 - live.conf[i].text \in 1 .. 2
    BY LiveType DEF Settings
  <1>2. type \in 1 .. 2
    BY <1>1
  <1>3. \/ Posted(i, asked) = [type |-> type, text |-> 3 - live.conf[i].text] /\ live.conf[i] # None
        \/ Posted(i, asked) = [type |-> type, text |-> 1]
        \/ Posted(i, asked) = None
    BY DEF Posted
  <1> HIDE DEF type
  <1> QED  BY <1>1, <1>2, <1>3 DEF Settings

LEMMA EditType == TypeOK /\ Edit => TypeOK'
  <1> SUFFICES ASSUME TypeOK, Edit  PROVE TypeOK'
    OBVIOUS
  <1>0. /\ list \in Seq(Instances) /\ conf \in [Instances -> Settings \cup {None}]
        /\ <<Reset>> \in Seq(Actions \cup {Mutate, Tell})
        /\ \A i \in Instances : /\ <<Recreate(i), Reset>> \in Seq(Actions \cup {Mutate, Tell})
                                /\ <<Notify(i)>> \in Seq(Actions \cup {Mutate, Tell})
    BY ActionTypes DEF TypeOK
  <1>1. CASE PostRotation
    <2>1. PICK l \in Lists : live' = [live EXCEPT !.list = l]
      BY <1>1 DEF PostRotation
    <2>2. live' = [list |-> l, conf |-> live.conf]
      BY <2>1, LiveType
    <2>3. list' = list /\ conf' = conf /\ Serve(<<Reset>>)
      BY <1>1 DEF PostRotation, published
    <2> QED  BY <1>0, <2>2, <2>3, LiveType, ServeType, RotationAssumption
  <1>2. CASE PostSettings
    <2>1. PICK early \in SUBSET Configured(live.conf) : Serve(Told(early) \o <<Mutate>>)
      BY <1>2 DEF PostSettings
    <2>2. early \in SUBSET Instances
      BY DEF Configured
    <2>3. Told(early) \in Seq(Actions)
      BY <2>2, ToldAll
    <2>4. Told(early) \o <<Mutate>> \in Seq(Actions \cup {Mutate, Tell})
      BY <2>3
    <2>5. UNCHANGED <<list, conf, live>>
      BY <1>2 DEF PostSettings, published
    <2>6. live' \in [list : Seq(Instances), conf : [Instances -> Settings \cup {None}]]
      BY <2>5 DEF TypeOK
    <2> QED  BY <1>0, <2>1, <2>4, <2>5, <2>6, ServeType
  <1>3. ASSUME NEW i \in Instances, PostInstance(i)  PROVE TypeOK'
    <2>1. PICK asked \in {None, 1, 2} :
              /\ live' = [live EXCEPT !.conf[i] = Posted(i, asked)]
              /\ Serve(IF Structural(i, asked) THEN <<Recreate(i), Reset>> ELSE <<Notify(i)>>)
              /\ Publish \/ UNCHANGED published
      BY <1>3 DEF PostInstance
    <2>2. live' = [list |-> live.list, conf |-> [live.conf EXCEPT ![i] = Posted(i, asked)]]
      BY <2>1, LiveType
    <2>3. [live.conf EXCEPT ![i] = Posted(i, asked)] \in [Instances -> Settings \cup {None}]
      BY LiveType, PostedType
    <2>4. live' \in [list : Seq(Instances), conf : [Instances -> Settings \cup {None}]]
      BY <2>2, <2>3, LiveType
    <2>5. CASE Structural(i, asked)
      BY <1>0, <2>1, <2>4, <2>5, PublishType, ServeType
    <2>6. CASE ~Structural(i, asked)
      BY <1>0, <2>1, <2>4, <2>6, PublishType, ServeType
    <2> QED  BY <2>5, <2>6
  <1>4. ASSUME NEW i \in Instances, DeleteInstance(i)  PROVE TypeOK'
    <2> DEFINE others == {k \in DOMAIN live.list : live.list[k] # i}
    <2>1. /\ Serve(<<Recreate(i), Reset>>) /\ list' = list /\ conf' = conf
          /\ \E kept \in [1 .. Cardinality(others) -> others] :
                 live' = [list |-> [k \in DOMAIN kept |-> live.list[kept[k]]],
                          conf |-> [live.conf EXCEPT ![i] = None]]
      BY <1>4 DEF DeleteInstance, published
    <2>2. [live.conf EXCEPT ![i] = None] \in [Instances -> Settings \cup {None}]
      BY LiveType
    <2>3. others \in SUBSET (1 .. Len(live.list)) /\ IsFiniteSet(1 .. Len(live.list))
      <3> DEFINE n == Len(live.list)
      <3>1. n \in Nat /\ DOMAIN live.list = 1 .. n
        BY LiveType
      <3>2. IsFiniteSet(1 .. n)
        <4> HIDE DEF n
        <4> QED  BY <3>1, FS_Interval
      <3> QED  BY <3>1, <3>2
    <2>4. Cardinality(others) \in Nat
      <3> HIDE DEF others
      <3> QED  BY <2>3, FS_Subset, FS_CardinalityType
    <2>5. PICK kept \in [1 .. Cardinality(others) -> others] :
              live' = [list |-> [k \in DOMAIN kept |-> live.list[kept[k]]],
                       conf |-> [live.conf EXCEPT ![i] = None]]
      BY <2>1
    <2>6. [k \in DOMAIN kept |-> live.list[kept[k]]] \in [1 .. Cardinality(others) -> Instances]
      BY LiveType
    <2>7. [k \in DOMAIN kept |-> live.list[kept[k]]] \in Seq(Instances)
      <3> HIDE DEF others
      <3> QED  BY <2>4, <2>6
    <2>8. live' \in [list : Seq(Instances), conf : [Instances -> Settings \cup {None}]]
      BY <2>2, <2>5, <2>7, LiveType
    <2> QED  BY <1>0, <2>1, <2>8, ServeType
  <1> QED  BY <1>1, <1>2, <1>3, <1>4 DEF Edit

LEMMA PushType ==
    ASSUME TypeOK, NEW action \in Actions, Push(action)
    PROVE  queue' \in Seq(Actions) /\ Len(queue') <= QueueCapacity /\ dropped' \in BOOLEAN
  <1>1. CASE Len(queue) < QueueCapacity
    <2>1. queue' = Append(queue, action) /\ dropped' = dropped
      BY <1>1 DEF Push
    <2> QED  BY <1>1, <2>1, RotationAssumption DEF TypeOK
  <1>2. CASE ~(Len(queue) < QueueCapacity)
    <2>1. queue' = queue /\ dropped' = TRUE
      BY <1>2, Zenon DEF Push
    <2> QED  BY <2>1, Zenon DEF TypeOK
  <1> QED  BY <1>1, <1>2

LEMMA OtherText ==
    \A c \in Settings : [c EXCEPT !.text = 3 - @] \in Settings
                        /\ [c EXCEPT !.text = 3 - @].type = c.type
  <1> SUFFICES ASSUME NEW c \in Settings  PROVE [c EXCEPT !.text = 3 - @] \in Settings
                        /\ [c EXCEPT !.text = 3 - @].type = c.type
    OBVIOUS
  <1>1. c.type \in 1 .. 2 /\ 3 - c.text \in 1 .. 2
    BY DEF Settings
  <1> QED  BY <1>1 DEF Settings

LEMMA Core0Type ==
    TypeOK /\ (MutateSettings \/ TellInstances \/ PublishSnapshot \/ QueueAction
               \/ Suspend \/ Unsuspend \/ CallHeld \/ \E e \in Engines : Destroy(e)) => TypeOK'
  <1> SUFFICES ASSUME TypeOK
               PROVE  MutateSettings \/ TellInstances \/ PublishSnapshot \/ QueueAction
                      \/ Suspend \/ Unsuspend \/ CallHeld \/ (\E e \in Engines : Destroy(e))
                          => TypeOK'
    OBVIOUS
  <1> USE DEF published, config, channel, engines, place, suspension
  <1>1. ASSUME MutateSettings  PROVE TypeOK'
    <2> DEFINE texts == [i \in Instances |-> IF live.conf[i] = None THEN None
                                             ELSE [live.conf[i] EXCEPT !.text = 3 - @]]
    <2>1. texts \in [Instances -> Settings \cup {None}]
      BY LiveType, OtherText
    <2>2. live' = [list |-> live.list, conf |-> texts]
      BY <1>1, LiveType DEF MutateSettings
    <2>3. live' \in [list : Seq(Instances), conf : [Instances -> Settings \cup {None}]]
      <3> HIDE DEF texts
      <3> QED  BY <2>1, <2>2, LiveType
    <2>4. web' \in Seq(Actions \cup {Mutate, Tell})
      BY <1>1 DEF MutateSettings
    <2> HIDE DEF texts
    <2> QED  BY <1>1, <2>3, <2>4 DEF MutateSettings, TypeOK
  <1>7. ASSUME TellInstances  PROVE TypeOK'
    <2>1. Told(Configured(conf)) \in Seq(Actions)
      BY ToldAll DEF Configured
    <2>2. web' \in Seq(Actions \cup {Mutate, Tell})
      BY <1>7, <2>1 DEF TellInstances
    <2> QED  BY <1>7, <2>2 DEF TellInstances, TypeOK
  <1>8. ASSUME PublishSnapshot  PROVE TypeOK'
    BY <1>8, PublishType DEF PublishSnapshot, TypeOK
  <1>2. ASSUME QueueAction  PROVE TypeOK'
    <2>1. web \in Seq(Actions \cup {Mutate, Tell}) /\ web # <<>> /\ Head(web) \in Actions
      BY <1>2 DEF QueueAction, TypeOK
    <2>2. Tail(web) \in Seq(Actions \cup {Mutate, Tell})
      BY <2>1
    <2>3. queue' \in Seq(Actions) /\ Len(queue') <= QueueCapacity /\ dropped' \in BOOLEAN
      BY <1>2, <2>1, PushType DEF QueueAction
    <2> QED  BY <1>2, <2>2, <2>3 DEF QueueAction, TypeOK
  <1>3. ASSUME Suspend  PROVE TypeOK'
    BY <1>3, EngineType, RotationAssumption DEF Suspend, TypeOK
  <1>4. ASSUME Unsuspend  PROVE TypeOK'
    <2>1. queue' \in Seq(Actions) /\ Len(queue') <= QueueCapacity /\ dropped' \in BOOLEAN
      BY <1>4, PushType, ActionTypes DEF Unsuspend, TypeOK
    <2> QED  BY <1>4, <2>1, EngineType DEF Unsuspend, TypeOK
  <1>5. ASSUME CallHeld  PROVE TypeOK'
    BY <1>5 DEF CallHeld, Astray, TypeOK
  <1>6. ASSUME NEW e \in Engines, Destroy(e)  PROVE TypeOK'
    <2>1. IsFiniteSet(ring) /\ Cardinality(ring) \in Nat
      BY EnginesFinite, FS_Subset, FS_CardinalityType DEF TypeOK
    <2>2. Cardinality(ring') <= Cardinality(ring) /\ Cardinality(ring') \in Nat
      BY <1>6, <2>1, FS_Subset, FS_CardinalityType DEF Destroy
    <2>3. Cardinality(ring') <= RingCapacity
      BY <2>1, <2>2, RotationAssumption DEF TypeOK
    <2> QED  BY <1>6, <2>3 DEF Destroy, Astray, TypeOK
  <1> QED  BY <1>1, <1>2, <1>3, <1>4, <1>5, <1>6, <1>7, <1>8

(* The steps of Core 1.                                                            *)

LEMMA PoppedType ==
    ASSUME TypeOK, NEW action, Popped(action)
    PROVE  /\ queue' \in Seq(Actions) /\ Len(queue') <= QueueCapacity
           /\ action \in Actions
           /\ In(queue) = {action} \cup In(queue')
           /\ UNCHANGED <<list, conf, live, edits, web, dropped, suspended, held, view>>
  <1>1. queue \in Seq(Actions) /\ queue # <<>> /\ Head(queue) = action /\ queue' = Tail(queue)
        /\ Len(queue) <= QueueCapacity
    BY DEF Popped, TypeOK
  <1>2. Tail(queue) \in Seq(Actions) /\ Len(Tail(queue)) = Len(queue) - 1
        /\ Len(queue) \in Nat /\ Head(queue) \in Actions
    BY <1>1
  <1>3. Len(queue') <= QueueCapacity
    BY <1>1, <1>2, RotationAssumption
  <1>4. In(queue) = {action} \cup In(queue')
    BY <1>1, InTail
  <1>5. UNCHANGED <<list, conf, live, edits, web, dropped, suspended, held, view>>
    BY DEF Popped, published, config, suspension
  <1> QED  BY <1>1, <1>2, <1>3, <1>4, <1>5

LEMMA DrawnType ==
    ASSUME TypeOK, InView, DrawSlot
    PROVE  /\ pool' \in [Instances -> Engines \cup {None}]
           /\ built' \in [Instances -> Settings \cup {None}]
           /\ missing' \in BOOLEAN
           /\ index' \in Nat \ {0}
           /\ \A i \in Instances : pool[i] # None => pool'[i] = pool[i] /\ built'[i] = built[i]
           /\ \A i \in Instances :
                  pool[i] = None /\ pool'[i] # None =>
                      built'[i] = conf[i] /\ conf[i] \in Settings
  <1> DEFINE slot == view[index]
             made == IF missing \/ pool[slot] # None THEN None
                     ELSE Create(slot, Alive \cup pending)
             engine == IF pool[slot] # None THEN pool[slot] ELSE made
  <1>1. slot \in Instances /\ index \in 1 .. Len(view) /\ Len(view) \in Nat
    BY DEF InView, DrawSlot, TypeOK
  <1>2. /\ pool' = [pool EXCEPT ![slot] = engine]
        /\ built' = IF made = None THEN built ELSE [built EXCEPT ![slot] = conf[slot]]
        /\ missing' = (missing \/ engine = None)
        /\ index' = index \/ index' = (index % Len(view)) + 1
    BY Zenon DEF DrawSlot
  <1>3. Alive \cup pending \in SUBSET Engines /\ ring \in SUBSET Engines
        /\ Cardinality(ring) <= RingCapacity
    BY AliveType DEF TypeOK
  <1>4. made # None => made \in Engines /\ conf[slot] \in Settings /\ pool[slot] = None
    <2> SUFFICES ASSUME made # None
                 PROVE  made \in Engines /\ conf[slot] \in Settings /\ pool[slot] = None
      OBVIOUS
    <2>1. made = Create(slot, Alive \cup pending) /\ pool[slot] = None
      BY Zenon
    <2> QED  BY <1>3, <2>1, ObjectLeft
  <1>5. index' \in Nat \ {0}
    BY <1>1, <1>2
  <1>6. missing' \in BOOLEAN
    BY <1>2
  <1> HIDE DEF made, slot
  <1>7. pool' \in [Instances -> Engines \cup {None}]
    BY <1>1, <1>2, <1>4 DEF TypeOK
  <1>8. built' \in [Instances -> Settings \cup {None}]
    BY <1>1, <1>2, <1>4 DEF TypeOK
  <1>9. \A i \in Instances : pool[i] # None => pool'[i] = pool[i] /\ built'[i] = built[i]
    BY <1>1, <1>2, <1>4 DEF TypeOK
  <1>10. \A i \in Instances :
             pool[i] = None /\ pool'[i] # None => built'[i] = conf[i] /\ conf[i] \in Settings
    BY <1>1, <1>2, <1>4 DEF TypeOK
  <1> QED  BY <1>5, <1>6, <1>7, <1>8, <1>9, <1>10

(* What is activated is the engine of the slot.                                    *)
LEMMA DrawnOn ==
    ASSUME TypeOK, InView, DrawSlot
    PROVE  \E again : /\ again \subseteq {pool'[view[index]]} \ {None}
                      /\ on' = on \cup again /\ Astray(again)
  <1> DEFINE slot == view[index]
             made == IF missing \/ pool[slot] # None THEN None
                     ELSE Create(slot, Alive \cup pending)
             engine == IF pool[slot] # None THEN pool[slot] ELSE made
  <1>1. slot \in Instances
    BY DEF InView, DrawSlot, TypeOK
  <1>2. /\ pool' = [pool EXCEPT ![slot] = engine]
        /\ \E again \in SUBSET ({engine} \ {None}) : on' = on \cup again /\ Astray(again)
    BY Zenon DEF DrawSlot
  <1> HIDE DEF engine, made
  <1>3. pool'[slot] = engine
    BY <1>1, <1>2 DEF TypeOK
  <1> HIDE DEF slot
  <1>4. PICK again \in SUBSET ({engine} \ {None}) : on' = on \cup again /\ Astray(again)
    BY <1>2
  <1>5. again \subseteq {pool'[slot]} \ {None}
    BY <1>3
  <1> QED  BY <1>4, <1>5, Zenon DEF slot

LEMMA FirstType ==
    ASSUME NEW l \in Seq(Instances), NEW i \in In(l)
    PROVE  First({k \in DOMAIN l : l[k] = i}) \in DOMAIN l
                /\ First({k \in DOMAIN l : l[k] = i}) \in Nat \ {0}
  <1> DEFINE S == {k \in DOMAIN l : l[k] = i}
  <1>1. S \in SUBSET Nat /\ S # {} /\ S \subseteq DOMAIN l /\ DOMAIN l \subseteq Nat \ {0}
    BY DEF In
  <1> HIDE DEF S
  <1>2. First(S) \in S
    BY <1>1, FirstIn
  <1> QED  BY <1>1, <1>2 DEF S

LEMMA Core1Type ==
    TypeOK /\ Made /\ InView /\ (Core1 \/ FallBack \/ DrawAlert \/ EvictAll) => TypeOK'
  <1> SUFFICES ASSUME TypeOK, Made, InView
               PROVE  Core1 \/ FallBack \/ DrawAlert \/ EvictAll => TypeOK'
    OBVIOUS
  <1> USE DEF published, config, channel, engines, place, suspension
  <1>1. ASSUME Loop  PROVE TypeOK'
    <2>1. PICK pushed \in SUBSET pending :
              /\ IF Cardinality(pending) <= Room THEN pushed = pending
                 ELSE Cardinality(pushed) = Room
              /\ ring' = ring \cup pushed /\ pending' = pending \ pushed
      BY <1>1, Zenon DEF Loop
    <2>2. ring' \subseteq Engines /\ Cardinality(ring') <= RingCapacity
      BY <2>1, RingFits DEF TypeOK
    <2>3. pending' \subseteq Engines
      BY <2>1 DEF TypeOK
    <2> QED  BY <1>1, <2>2, <2>3, EngineType DEF Loop, TypeOK
  <1>2. ASSUME DoReset  PROVE TypeOK'
    <2> DEFINE gone == {i \in Instances : pool[i] # None} \ In(list)
    <2>1. Popped(Reset) /\ Retire(gone) /\ on' = on \ {pool[i] : i \in gone}
      BY <1>2 DEF DoReset
    <2>2. current' \in Instances \cup {None, Garbage}
      BY <1>2 DEF DoReset, TypeOK
    <2>3. index' \in Nat \ {0}
      <3>1. index' = 1 \/ (/\ current \in In(list)
                           /\ index' = First({k \in DOMAIN list : list[k] = current}))
        BY <1>2 DEF DoReset
      <3>2. current \in In(list) =>
                First({k \in DOMAIN list : list[k] = current}) \in Nat \ {0}
        BY FirstType DEF TypeOK
      <3> QED  BY <3>1, <3>2
    <2>4. gone \in SUBSET Instances
      OBVIOUS
    <2> HIDE DEF gone
    <2>5. queue' \in Seq(Actions) /\ Len(queue') <= QueueCapacity
          /\ UNCHANGED <<list, conf, live, edits, web, dropped, suspended, held, view>>
      BY <2>1, PoppedType
    <2>6. /\ pool' \in [Instances -> Engines \cup {None}]
          /\ built' \in [Instances -> Settings \cup {None}]
          /\ ring' \subseteq Engines /\ Cardinality(ring') <= RingCapacity
          /\ pending' \subseteq Engines /\ session' \in Engines \cup {None}
      BY <2>1, <2>4, Retired
    <2>7. on' \subseteq Engines
      BY <2>1 DEF TypeOK
    <2>8. pc' = "switch" /\ back' = "actions" /\ missing' = missing
      BY <1>2 DEF DoReset
    <2>9. late' \subseteq Actions /\ stray' \subseteq Engines
      BY <1>2, <2>7, ActionTypes DEF DoReset, Repaired, TooLate, Astray, TypeOK
    <2> QED  BY <2>2, <2>3, <2>5, <2>6, <2>7, <2>8, <2>9 DEF TypeOK
  <1>3. ASSUME NEW i \in Instances, DoNotify(i)  PROVE TypeOK'
    <2>1. queue' \in Seq(Actions) /\ Len(queue') <= QueueCapacity
          /\ UNCHANGED <<list, conf, live, edits, web, dropped, suspended, held, view>>
      BY <1>3, PoppedType DEF DoNotify
    <2>2. built' \in [Instances -> Settings \cup {None}]
      <3>1. CASE pool[i] = None \/ conf[i] = None
        BY <1>3, <3>1 DEF DoNotify, TypeOK
      <3>2. CASE ~(pool[i] = None \/ conf[i] = None)
        <4>1. built[i] \in Settings /\ conf[i] \in Settings
          BY <3>2 DEF Made, TypeOK
        <4>2. built' = [built EXCEPT ![i] = [built[i] EXCEPT !.text = conf[i].text]]
          BY <1>3, <3>2 DEF DoNotify
        <4>3. [built[i] EXCEPT !.text = conf[i].text] \in Settings
          BY <4>1 DEF Settings
        <4> QED  BY <4>2, <4>3 DEF TypeOK
      <3> QED  BY <3>1, <3>2
    <2>3. late' \subseteq Actions
      BY <1>3, ActionTypes DEF DoNotify, Repaired, TooLate, TypeOK
    <2> QED  BY <1>3, <2>1, <2>2, <2>3 DEF DoNotify, TypeOK
  <1>4. ASSUME NEW i \in Instances, DoRecreate(i)  PROVE TypeOK'
    <2>1. queue' \in Seq(Actions) /\ Len(queue') <= QueueCapacity
          /\ UNCHANGED <<list, conf, live, edits, web, dropped, suspended, held, view>>
      BY <1>4, PoppedType DEF DoRecreate
    <2>2. /\ pool' \in [Instances -> Engines \cup {None}]
          /\ built' \in [Instances -> Settings \cup {None}]
          /\ ring' \subseteq Engines /\ Cardinality(ring') <= RingCapacity
          /\ pending' \subseteq Engines /\ session' \in Engines \cup {None}
      BY <1>4, Retired DEF DoRecreate
    <2>3. on' \subseteq Engines /\ current' \in Instances \cup {None, Garbage}
      BY <1>4 DEF DoRecreate, TypeOK
    <2>4. UNCHANGED <<index, missing, pc, back>>
      BY <1>4 DEF DoRecreate
    <2>5. late' \subseteq Actions /\ stray' \subseteq Engines
      BY <1>4, <2>3, ActionTypes DEF DoRecreate, Repaired, TooLate, Astray, TypeOK
    <2> QED  BY <2>1, <2>2, <2>3, <2>4, <2>5 DEF TypeOK
  <1>5. ASSUME SwitchToNothing  PROVE TypeOK'
    BY <1>5 DEF SwitchToNothing, Astray, TypeOK
  <1>6. ASSUME NEW new \in Instances \cup {Garbage}, SwitchTo(new)  PROVE TypeOK'
    <2>1. /\ pool' \in [Instances -> Engines \cup {None}]
          /\ built' \in [Instances -> Settings \cup {None}]
          /\ ring' \subseteq Engines /\ Cardinality(ring') <= RingCapacity
          /\ pending' \subseteq Engines /\ on' \subseteq Engines
          /\ session' \in {session, None}
      BY <1>6, Switched
    <2>2. /\ pc' = back /\ back' = "idle" /\ missing' = FALSE /\ current' = new
          /\ UNCHANGED <<list, conf, live, edits, queue, web, dropped, late, index, suspended,
                         held, view>>
      BY <1>6 DEF SwitchTo
    <2>3. missing' \in BOOLEAN
      BY <2>2, Zenon
    <2>4. stray' \subseteq Engines
      BY <1>6, <2>1 DEF SwitchTo, Astray
    <2> QED  BY <2>1, <2>2, <2>3, <2>4 DEF TypeOK
  <1>7. ASSUME EnterNothing  PROVE TypeOK'
    BY <1>7 DEF EnterNothing, Enter, Astray, TypeOK
  <1>8. ASSUME EnterSlot  PROVE TypeOK'
    <2>1. index' \in Nat \ {0}
      BY <1>8 DEF EnterSlot, TypeOK
    <2>2. pc' \in {"switch", "draw"} /\ back' \in {"idle", "actions", "draw"}
      BY <1>8 DEF EnterSlot, TypeOK
    <2>3. view' \in Seq(Instances) /\ UNCHANGED <<on, stray, current>>
      BY <1>8 DEF EnterSlot, TypeOK
    <2> QED  BY <1>8, <2>1, <2>2, <2>3 DEF EnterSlot, Enter, TypeOK
  <1>9. ASSUME DrawSlot  PROVE TypeOK'
    <2>1. /\ pool' \in [Instances -> Engines \cup {None}]
          /\ built' \in [Instances -> Settings \cup {None}]
          /\ missing' \in BOOLEAN /\ index' \in Nat \ {0}
      BY <1>9, DrawnType
    <2>2. /\ pc' \in {"idle", "switch"} /\ back' \in {"idle", "actions", "draw"}
          /\ view' \in Seq(Instances)
      BY <1>9 DEF DrawSlot, TypeOK
    <2>3. UNCHANGED <<list, conf, live, edits, queue, web, dropped, late, pending, ring, current,
                      session, suspended, held>>
      BY <1>9 DEF DrawSlot
    <2>4. on' \subseteq Engines /\ stray' \subseteq Engines
      <3>1. PICK again : on' = on \cup again /\ again \subseteq {pool'[view[index]]} \ {None}
                         /\ Astray(again)
        BY <1>9, DrawnOn
      <3>2. view[index] \in Instances
        BY <1>9 DEF InView, DrawSlot, TypeOK
      <3>3. on' \subseteq Engines
        BY <2>1, <3>1, <3>2 DEF TypeOK
      <3> QED  BY <3>1, <3>3 DEF Astray
    <2> QED  BY <2>1, <2>2, <2>3, <2>4 DEF TypeOK
  <1>10. ASSUME FallBack  PROVE TypeOK'
    <2>1. index' \in Nat \ {0}
      BY <1>10, FirstType DEF FallBack, TypeOK
    <2> QED  BY <1>10, <2>1 DEF FallBack, TypeOK
  <1>11. ASSUME DrawAlert  PROVE TypeOK'
    BY <1>11 DEF DrawAlert, TypeOK
  <1>12. ASSUME EvictAll  PROVE TypeOK'
    <2>1. /\ pool' \in [Instances -> Engines \cup {None}]
          /\ built' \in [Instances -> Settings \cup {None}]
          /\ ring' \subseteq Engines /\ Cardinality(ring') <= RingCapacity
          /\ pending' \subseteq Engines /\ session' \in Engines \cup {None}
      BY <1>12, Retired DEF EvictAll
    <2>2. /\ on' \subseteq Engines /\ edits' \in 0 .. MaxEdits /\ current' = None
          /\ missing' = FALSE
      BY <1>12, RotationAssumption DEF EvictAll, TypeOK
    <2>3. missing' \in BOOLEAN
      BY <2>2, Zenon
    <2>4. UNCHANGED <<list, conf, live, queue, web, dropped, late, index, suspended, held, view,
                      pc, back>>
      BY <1>12 DEF EvictAll
    <2>5. stray' \subseteq Engines
      BY <1>12, <2>2 DEF EvictAll, Astray
    <2> QED  BY <2>1, <2>2, <2>3, <2>4, <2>5 DEF TypeOK
  <1> QED  BY <1>1, <1>2, <1>3, <1>4, <1>5, <1>6, <1>7, <1>8, <1>9, <1>10, <1>11, <1>12 DEF Core1

LEMMA StutterType == TypeOK /\ UNCHANGED vars => TypeOK'
  BY DEF TypeOK, vars, published, config, channel, engines, place, suspension

--------------------------------------------------------------------------------
(* What each step does to the rest of the invariant.                               *)

(* The steps of the web server, and those that publish the configuration.          *)
Web == Edit \/ MutateSettings \/ TellInstances \/ PublishSnapshot \/ QueueAction

LEMMA WebKeeps ==
    Web => /\ UNCHANGED <<pool, pending, ring, built, on, stray, current, index, missing>>
           /\ UNCHANGED <<session, suspended, held, view, pc, back, late>>
  <1> USE DEF engines, place, suspension, channel
  <1> DEFINE kept == /\ UNCHANGED <<pool, pending, ring, built, on, stray, current, index, missing>>
                     /\ UNCHANGED <<session, suspended, held, view, pc, back, late>>
  <1>1. ASSUME NEW actions, Serve(actions)  PROVE kept
    BY <1>1 DEF Serve
  <1> HIDE DEF kept
  <1>2. Edit => kept
    BY Zenon, <1>1 DEF Edit, PostRotation, PostSettings, PostInstance, DeleteInstance
  <1> USE DEF kept
  <1>3. MutateSettings \/ TellInstances => kept
    BY DEF MutateSettings, TellInstances
  <1>4. PublishSnapshot \/ QueueAction => kept
    BY DEF PublishSnapshot, QueueAction
  <1> HIDE DEF kept
  <1>5. Web => kept
    BY <1>2, <1>3, <1>4 DEF Web
  <1> QED  BY <1>5 DEF kept

(* The steps that leave every slot, and what its engine was made from, alone.      *)
Quiet ==
    \/ Loop \/ DrawAlert \/ SwitchToNothing \/ EnterNothing \/ EnterSlot \/ FallBack
    \/ Web \/ Suspend \/ Unsuspend \/ CallHeld
    \/ \E e \in Engines : Destroy(e)
    \/ UNCHANGED vars

LEMMA Steps ==
    [Next]_vars => \/ Quiet \/ DoReset \/ DrawSlot \/ EvictAll
                   \/ \E i \in Instances : DoNotify(i) \/ DoRecreate(i)
                   \/ \E new \in Instances \cup {Garbage} : SwitchTo(new)
  BY Zenon DEF Next, Core1, Quiet, Web

LEMMA QuietKeeps == Quiet => pool' = pool /\ built' = built
  <1> USE DEF engines
  <1>1. Loop \/ DrawAlert \/ SwitchToNothing \/ EnterNothing \/ EnterSlot \/ FallBack =>
            pool' = pool /\ built' = built
    BY DEF Loop, DrawAlert, SwitchToNothing, EnterNothing, EnterSlot, Enter, FallBack
  <1>2. Web => pool' = pool /\ built' = built
    BY WebKeeps
  <1>3. Suspend \/ Unsuspend \/ CallHeld => pool' = pool /\ built' = built
    BY DEF Suspend, Unsuspend, CallHeld
  <1>4. ASSUME NEW e \in Engines, Destroy(e)  PROVE pool' = pool /\ built' = built
    BY <1>4 DEF Destroy
  <1>5. UNCHANGED vars => pool' = pool /\ built' = built
    BY DEF vars
  <1> QED  BY <1>1, <1>2, <1>3, <1>4, <1>5 DEF Quiet

(* The other steps change the slots.                                               *)
LEMMA DoResetSlots ==
    ASSUME TypeOK, DoReset
    PROVE  \E gone \in SUBSET Instances :
               /\ Popped(Reset) /\ Retire(gone) /\ on' = on \ {pool[i] : i \in gone}
               /\ current' = IF current \in gone THEN None ELSE current
               /\ Astray({})
  BY Zenon DEF DoReset

LEMMA NotifySlots ==
    ASSUME TypeOK, Made, NEW i \in Instances, DoNotify(i)
    PROVE  /\ pool' = pool
           /\ \A j \in Instances \ {i} : built'[j] = built[j]
           /\ pool[i] = None \/ conf[i] = None => built'[i] = built[i]
           /\ pool[i] # None /\ conf[i] # None =>
                  /\ built'[i] \in Settings /\ built'[i].type = built[i].type
                  /\ built'[i].text = conf[i].text
  <1>1. CASE pool[i] = None \/ conf[i] = None
    BY <1>1 DEF DoNotify
  <1>2. CASE ~(pool[i] = None \/ conf[i] = None)
    <2>1. built[i] \in Settings /\ conf[i] \in Settings
      BY <1>2 DEF Made, TypeOK
    <2>2. built' = [built EXCEPT ![i] = [built[i] EXCEPT !.text = conf[i].text]]
      BY <1>2 DEF DoNotify
    <2>3. /\ [built[i] EXCEPT !.text = conf[i].text] \in Settings
          /\ [built[i] EXCEPT !.text = conf[i].text].type = built[i].type
          /\ [built[i] EXCEPT !.text = conf[i].text].text = conf[i].text
      BY <2>1 DEF Settings
    <2>4. pool' = pool
      BY DEF DoNotify
    <2> QED  BY <1>2, <2>2, <2>3, <2>4 DEF TypeOK
  <1> QED  BY <1>1, <1>2

LEMMA MadeStep == TypeOK /\ Made /\ InView /\ [Next]_vars => Made'
  <1> SUFFICES ASSUME TypeOK, Made, InView, [Next]_vars  PROVE Made'
    OBVIOUS
  <1>1. CASE Quiet
    BY <1>1, QuietKeeps DEF Made
  <1>2. ASSUME NEW gone \in SUBSET Instances, Retire(gone)  PROVE Made'
    BY <1>2, Retired DEF Made
  <1>3. CASE DoReset
    BY <1>2, <1>3, DoResetSlots
  <1>4. CASE DrawSlot
    BY <1>4, DrawnType DEF Made
  <1>5. CASE EvictAll
    BY <1>2, <1>5 DEF EvictAll
  <1>6. ASSUME NEW i \in Instances, DoNotify(i)  PROVE Made'
    BY <1>6, NotifySlots DEF Made
  <1>7. ASSUME NEW i \in Instances, DoRecreate(i)  PROVE Made'
    BY <1>2, <1>7 DEF DoRecreate
  <1>8. ASSUME NEW new \in Instances \cup {Garbage}, SwitchTo(new)  PROVE Made'
    BY <1>8, Switched DEF Made
  <1> QED  BY Steps, <1>1, <1>3, <1>4, <1>5, <1>6, <1>7, <1>8

LEMMA ViewStep == TypeOK /\ InView /\ [Next]_vars => InView'
  <1> SUFFICES ASSUME TypeOK, InView, [Next]_vars  PROVE InView'
    OBVIOUS
  <1> USE DEF suspension, place
  <1>1. CASE UNCHANGED <<view, pc, back, index>>
    BY <1>1 DEF InView
  <1>2. Suspend \/ Unsuspend \/ CallHeld \/ DrawAlert \/ EvictAll \/ UNCHANGED vars
            => UNCHANGED <<view, pc, back, index>>
    BY Zenon DEF Suspend, Unsuspend, CallHeld, DrawAlert, EvictAll, vars
  <1>9. Web => UNCHANGED <<view, pc, back, index>>
    BY WebKeeps
  <1>3. ASSUME NEW e \in Engines, Destroy(e)  PROVE UNCHANGED <<view, pc, back, index>>
    BY <1>3 DEF Destroy
  <1>4. ASSUME NEW i \in Instances, DoNotify(i) \/ DoRecreate(i)
        PROVE  UNCHANGED <<view, pc, back, index>>
    BY <1>4 DEF DoNotify, DoRecreate, Popped
  <1>5. Loop \/ DoReset \/ EnterNothing \/ FallBack =>
            pc' # "draw" /\ ~(pc' = "switch" /\ back' = "draw")
    BY DEF Loop, DoReset, EnterNothing, FallBack
  <1>6. DrawSlot => pc' # "draw" /\ ~(pc' = "switch" /\ back' = "draw")
    BY DEF DrawSlot
  <1>7. ASSUME SwitchToNothing \/ \E new \in Instances \cup {Garbage} : SwitchTo(new)
        PROVE  InView'
    <2>1. pc = "switch" /\ pc' = back /\ back' = "idle" /\ index' = index /\ view' = view
      BY <1>7 DEF SwitchToNothing, SwitchTo
    <2> QED  BY <2>1 DEF InView
  <1>8. CASE EnterSlot
    <2>1. list \in Seq(Instances) /\ list # <<>> /\ view' = list /\ index \in Nat \ {0}
          /\ index' = IF index > Len(list) THEN 1 ELSE index
      BY <1>8 DEF EnterSlot, TypeOK
    <2>2. index' \in DOMAIN view'
      BY <2>1
    <2> QED  BY <2>2 DEF InView
  <1> QED  BY <1>1, <1>2, <1>3, <1>4, <1>5, <1>6, <1>7, <1>8, <1>9, Steps DEF InView, Quiet

(* A pointer the display runtime keeps is cleared before its engine leaves.        *)
LEMMA SessionStep == TypeOK /\ InView /\ SessionEngineLives /\ [Next]_vars => SessionEngineLives'
  <1> SUFFICES ASSUME TypeOK, InView, SessionEngineLives, [Next]_vars, session' # None
               PROVE  \E i \in Instances : pool'[i] = session'
    BY DEF SessionEngineLives, Alive
  <1>0. session # None => \E i \in Instances : pool[i] = session
    BY DEF SessionEngineLives, Alive
  <1>1. CASE Quiet
    <2>1. pool' = pool
      BY <1>1, QuietKeeps
    <2>2. CASE Loop
      BY <2>1, <2>2 DEF Loop, Engine
    <2>3. CASE ~Loop
      <3>1. session' = session
        <4> USE DEF suspension
        <4>1. SwitchToNothing \/ EnterNothing \/ EnterSlot \/ FallBack => session' = session
          BY DEF SwitchToNothing, EnterNothing, EnterSlot, Enter, FallBack
        <4>2. Web => session' = session
          BY WebKeeps
        <4>3. Suspend \/ Unsuspend \/ CallHeld \/ UNCHANGED vars => session' = session
          BY DEF Suspend, Unsuspend, CallHeld, vars
        <4>4. (\E e \in Engines : Destroy(e)) => session' = session
          BY DEF Destroy
        <4>5. ~DrawAlert
          BY DEF DrawAlert
        <4> QED  BY <1>1, <2>3, <4>1, <4>2, <4>3, <4>4, <4>5 DEF Quiet
      <3> QED  BY <1>0, <2>1, <3>1
    <2> QED  BY <2>2, <2>3
  <1>2. ASSUME NEW gone \in SUBSET Instances, Retire(gone)
        PROVE  \E i \in Instances : pool'[i] = session'
    <2>1. session' = session /\ \A i \in gone : pool[i] # session
      BY <1>2, Retired
    <2>2. PICK i \in Instances : pool[i] = session
      BY <1>0, <2>1
    <2>3. pool'[i] = pool[i]
      BY <1>2, <2>1, <2>2, Retired
    <2> QED  BY <2>1, <2>2, <2>3
  <1>3. CASE DoReset
    BY <1>2, <1>3, DoResetSlots
  <1>4. CASE DrawSlot
    <2>1. session' = session
      BY <1>4 DEF DrawSlot
    <2> QED  BY <1>0, <1>4, <2>1, DrawnType DEF TypeOK
  <1>5. CASE EvictAll
    BY <1>2, <1>5 DEF EvictAll
  <1>6. ASSUME NEW i \in Instances, DoNotify(i)  PROVE \E j \in Instances : pool'[j] = session'
    BY <1>0, <1>6 DEF DoNotify
  <1>7. ASSUME NEW i \in Instances, DoRecreate(i)  PROVE \E j \in Instances : pool'[j] = session'
    BY <1>2, <1>7 DEF DoRecreate
  <1>8. ASSUME NEW new \in Instances \cup {Garbage}, SwitchTo(new)
        PROVE  \E i \in Instances : pool'[i] = session'
    <2>1. session' = session
      BY <1>8, Switched
    <2> QED  BY <1>0, <1>8, <2>1, Switched
  <1> QED  BY Steps, <1>1, <1>3, <1>4, <1>5, <1>6, <1>7, <1>8

(* What is activated is the current engine, or is called and so strays.            *)
LEMMA Strayed ==
    ASSUME TypeOK', NEW called, Astray(called),
           on' \subseteq on \cup called \cup {Engine(current)'},
           (on \ stray) \cap on' \subseteq {Engine(current)'}
    PROVE  OneActive'
  <1>1. None \notin on'
    BY RotationAssumption DEF TypeOK
  <1>2. stray' = ((stray \cup called) \cap on') \ {Engine(current)'}
    BY DEF Astray
  <1> QED  BY <1>1, <1>2 DEF OneActive

(* The engine that is left is deactivated before another one is activated.         *)
LEMMA ActiveStep == TypeOK /\ TypeOK' /\ InView /\ OneActive /\ [Next]_vars => OneActive'
  <1> SUFFICES ASSUME TypeOK, TypeOK', InView, OneActive, [Next]_vars  PROVE OneActive'
    OBVIOUS
  <1> USE DEF suspension, place, engines
  <1>0. on \ stray \subseteq {Engine(current)} \ {None}
    BY DEF OneActive
  <1>1. ASSUME on' = on, stray' = stray, pool' = pool, current' = current  PROVE OneActive'
    BY <1>1 DEF OneActive, Engine
  <1>2. ASSUME pool' = pool, current' = current  PROVE Engine(current)' = Engine(current)
    BY <1>2 DEF Engine
  <1>3. CASE Loop \/ DrawAlert \/ EnterSlot \/ FallBack \/ Suspend \/ Unsuspend \/ UNCHANGED vars
    <2>1. UNCHANGED <<on, stray, pool, current>>
      BY <1>3 DEF Loop, DrawAlert, EnterSlot, Enter, FallBack, Suspend, Unsuspend, vars
    <2> QED  BY <1>1, <2>1
  <1>4. CASE Web
    BY <1>1, <1>4, WebKeeps
  <1>5. CASE SwitchToNothing \/ EnterNothing
    <2>1. on' = on \ {Engine(current)} /\ Astray({})
      BY <1>5 DEF SwitchToNothing, EnterNothing
    <2> QED  BY <1>0, <2>1, Strayed
  <1>6. CASE CallHeld
    <2>1. on' \subseteq on \cup {held} /\ Astray({held}) /\ pool' = pool /\ current' = current
      BY <1>6 DEF CallHeld
    <2> QED  BY <1>0, <1>2, <2>1, Strayed
  <1>7. ASSUME NEW e \in Engines, Destroy(e)  PROVE OneActive'
    <2>1. on' \subseteq on /\ Astray({}) /\ pool' = pool /\ current' = current
      BY <1>7 DEF Destroy
    <2> QED  BY <1>0, <1>2, <2>1, Strayed
  <1>8. CASE EvictAll
    <2>1. on' = on \ Alive /\ Astray({})
      BY <1>8 DEF EvictAll
    <2>2. Engine(current) # None => Engine(current) \in Alive
      BY DEF Engine, Alive
    <2> QED  BY <1>0, <2>1, <2>2, Strayed
  <1>9. ASSUME NEW gone \in SUBSET Instances, Retire(gone), on' = on \ {pool[i] : i \in gone},
               current' = current \/ current \in gone, Astray({})
        PROVE  OneActive'
    <2>1. CASE current \in gone
      <3>1. Engine(current) \in {pool[i] : i \in gone}
        BY <2>1 DEF Engine
      <3> QED  BY <1>0, <1>9, <3>1, Strayed
    <2>2. CASE current \notin gone
      <3>1. Engine(current)' = Engine(current)
        BY <1>9, <2>2, Retired DEF Engine
      <3> QED  BY <1>0, <1>9, <3>1, Strayed
    <2> QED  BY <2>1, <2>2
  <1>10. CASE DoReset
    <2>1. PICK gone \in SUBSET Instances :
              /\ Retire(gone) /\ on' = on \ {pool[i] : i \in gone}
              /\ current' = IF current \in gone THEN None ELSE current
              /\ Astray({})
      BY <1>10, DoResetSlots
    <2>2. current' = current \/ current \in gone
      BY <2>1
    <2> QED  BY <1>9, <2>1, <2>2
  <1>11. ASSUME NEW i \in Instances, DoRecreate(i)  PROVE OneActive'
    <2>1. /\ Retire({i}) /\ on' = on \ {pool[i]} /\ Astray({})
          /\ current' = current \/ current \in {i}
      BY <1>11 DEF DoRecreate
    <2>2. {i} \in SUBSET Instances /\ {pool[j] : j \in {i}} = {pool[i]}
      OBVIOUS
    <2> QED  BY <1>9, <2>1, <2>2
  <1>12. ASSUME NEW i \in Instances, DoNotify(i)  PROVE OneActive'
    BY <1>1, <1>12 DEF DoNotify
  <1>13. CASE DrawSlot
    <2>1. PICK again : on' = on \cup again /\ Astray(again)
      BY <1>13, DrawnOn
    <2>2. current' = current
      BY <1>13 DEF DrawSlot
    <2>3. Engine(current) # None => Engine(current)' = Engine(current)
      BY <1>13, <2>2, DrawnType DEF Engine
    <2> QED  BY <1>0, <2>1, <2>3, Strayed
  <1>14. ASSUME NEW new \in Instances \cup {Garbage}, SwitchTo(new)  PROVE OneActive'
    <2>1. current' = new /\ Astray({})
      BY <1>14 DEF SwitchTo
    <2>2. \A e \in on' :
              (e \in on /\ e # Engine(current)) \/ (new \in Instances /\ e = pool'[new])
      BY <1>14, Switched
    <2>3. \A e \in on' : (e \in on /\ e # Engine(current)) \/ e = Engine(current)'
      BY <2>1, <2>2 DEF Engine
    <2> QED  BY <1>0, <2>1, <2>3, Strayed
  <1>15. CASE Quiet
    BY <1>3, <1>4, <1>5, <1>6, <1>7, <1>15 DEF Quiet
  <1> QED  BY Steps, <1>8, <1>10, <1>11, <1>12, <1>13, <1>14, <1>15

(* Only the web server changes what it has still to queue; it and its publications  *)
(* change the configuration.                                                       *)
LEMMA WebSteps ==
    [Next]_vars => Web \/ (web' = web /\ conf' = conf /\ live' = live /\ list' = list)
  <1> SUFFICES ASSUME [Next]_vars, ~Web
               PROVE  web' = web /\ conf' = conf /\ live' = live /\ list' = list
    OBVIOUS
  <1> USE DEF published, config, channel
  <1>1. Loop \/ DrawAlert \/ SwitchToNothing \/ EnterNothing \/ EnterSlot \/ FallBack =>
            web' = web /\ conf' = conf /\ live' = live /\ list' = list
    BY DEF Loop, DrawAlert, SwitchToNothing, EnterNothing, EnterSlot, Enter, FallBack
  <1>2. Suspend \/ Unsuspend \/ CallHeld \/ UNCHANGED vars =>
            web' = web /\ conf' = conf /\ live' = live /\ list' = list
    BY DEF Suspend, Unsuspend, CallHeld, vars
  <1>3. (\E e \in Engines : Destroy(e)) => web' = web /\ conf' = conf /\ live' = live /\ list' = list
    BY DEF Destroy
  <1>4. DoReset \/ DrawSlot \/ EvictAll \/ (\E i \in Instances : DoNotify(i) \/ DoRecreate(i))
            => web' = web /\ conf' = conf /\ live' = live /\ list' = list
    BY DEF DoReset, DrawSlot, EvictAll, DoNotify, DoRecreate, Popped
  <1>5. (\E new \in Instances \cup {Garbage} : SwitchTo(new)) =>
            web' = web /\ conf' = conf /\ live' = live /\ list' = list
    BY DEF SwitchTo
  <1> QED  BY Steps, <1>1, <1>2, <1>3, <1>4, <1>5 DEF Quiet

(* The end of the handler of the settings is at the head only when all else is done. *)
LEMMA HeadIsLast ==
    ASSUME TypeOK, LastInWeb, web # <<>>, Head(web) \in {Mutate, Tell}
    PROVE  In(web) = {Head(web)}
  <1>1. web \in Seq(Actions \cup {Mutate, Tell}) /\ 1 \in DOMAIN web /\ Head(web) = web[1]
        /\ DOMAIN web = 1 .. Len(web)
    BY DEF TypeOK
  <1>2. Len(web) = 1
    BY <1>1 DEF LastInWeb
  <1> QED  BY <1>1, <1>2 DEF In

LEMMA LastStep == TypeOK /\ LastInWeb /\ [Next]_vars => LastInWeb'
  <1> SUFFICES ASSUME TypeOK, LastInWeb, [Next]_vars  PROVE LastInWeb'
    OBVIOUS
  <1>0. web \in Seq(Actions \cup {Mutate, Tell})
    BY DEF TypeOK
  <1>1. CASE web' = web
    BY <1>1 DEF LastInWeb
  <1>2. ASSUME web' \in Seq(Actions)  PROVE LastInWeb'
    <2>1. \A k \in DOMAIN web' : web'[k] \in Actions
      BY <1>2
    <2> QED  BY <2>1, ActionTypes DEF LastInWeb
  <1>3. ASSUME PostRotation  PROVE LastInWeb'
    <2>1. web' = <<Reset>>
      BY <1>3 DEF PostRotation, Serve
    <2> QED  BY <1>2, <2>1, ActionTypes
  <1>4. ASSUME PostSettings  PROVE LastInWeb'
    <2>1. PICK early \in SUBSET Configured(live.conf) : web' = Told(early) \o <<Mutate>>
      BY <1>4 DEF PostSettings, Serve
    <2>2. early \in SUBSET Instances
      BY DEF Configured
    <2>3. Told(early) \in Seq(Actions)
      BY <2>2, ToldAll
    <2> DEFINE told == Told(early)
    <2> HIDE DEF told
    <2>4. told \in Seq(Actions) /\ web' = told \o <<Mutate>>
      BY <2>1, <2>3 DEF told
    <2>5. /\ Len(web') = Len(told) + 1 /\ Len(told) \in Nat
          /\ \A k \in 1 .. Len(told) : web'[k] \in Actions
          /\ DOMAIN web' = 1 .. Len(told) + 1
      BY <2>4
    <2> QED  BY <2>5, ActionTypes DEF LastInWeb
  <1>5. ASSUME NEW i \in Instances, PostInstance(i) \/ DeleteInstance(i)  PROVE LastInWeb'
    <2>1. web' = <<Recreate(i), Reset>> \/ web' = <<Notify(i)>>
      BY <1>5 DEF PostInstance, DeleteInstance, Serve
    <2>2. <<Recreate(i), Reset>> \in Seq(Actions) /\ <<Notify(i)>> \in Seq(Actions)
      BY ActionTypes
    <2> QED  BY <1>2, <2>1, <2>2
  <1>6. ASSUME MutateSettings  PROVE LastInWeb'
    <2>1. web' = <<Tell>>
      BY <1>6 DEF MutateSettings
    <2> QED  BY <2>1 DEF LastInWeb
  <1>7. ASSUME TellInstances  PROVE LastInWeb'
    <2>1. web' \in Seq(Actions)
      BY <1>7, ToldAll DEF TellInstances, Configured
    <2> QED  BY <1>2, <2>1
  <1>8. ASSUME PublishSnapshot  PROVE LastInWeb'
    BY <1>1, <1>8 DEF PublishSnapshot, channel
  <1>9. ASSUME QueueAction  PROVE LastInWeb'
    <2>1. web # <<>> /\ web' = Tail(web)
      BY <1>9 DEF QueueAction
    <2>2. Len(web') = Len(web) - 1 /\ Len(web) \in Nat
          /\ \A k \in DOMAIN web' : k + 1 \in DOMAIN web /\ web'[k] = web[k + 1] /\ k \in Nat
      BY <1>0, <2>1, InTail
    <2> QED  BY <2>2 DEF LastInWeb
  <1> QED  BY WebSteps, <1>1, <1>3, <1>4, <1>5, <1>6, <1>7, <1>8, <1>9 DEF Web, Edit

(* What is announced stays so until it is done, unless the queue is full.          *)
LEMMA StillAhead ==
    ASSUME TypeOK, LastInWeb, [Next]_vars, ~dropped'
    PROVE  /\ ~dropped
           /\ \A a \in Actions : Ahead(a) =>
                  \/ Ahead(a)'
                  \/ a = Reset /\ DoReset
                  \/ \E i \in Instances : \/ a = Notify(i) /\ DoNotify(i)
                                          \/ a = Recreate(i) /\ DoRecreate(i)
  <1> USE DEF channel
  <1>0. web \in Seq(Actions \cup {Mutate, Tell}) /\ queue \in Seq(Actions)
    BY DEF TypeOK
  <1>1. CASE UNCHANGED <<queue, web, dropped>>
    BY <1>1 DEF Ahead, In
  <1>2. Loop \/ DrawAlert \/ SwitchToNothing \/ EnterNothing \/ EnterSlot \/ FallBack
            \/ DrawSlot \/ EvictAll \/ Suspend \/ CallHeld \/ UNCHANGED vars
            => UNCHANGED channel
    BY Zenon DEF Loop, DrawAlert, SwitchToNothing, EnterNothing, EnterSlot, Enter, FallBack,
       DrawSlot, EvictAll, Suspend, CallHeld, vars
  <1>3. (\E e \in Engines : Destroy(e)) \/ (\E new \in Instances \cup {Garbage} : SwitchTo(new))
            \/ PublishSnapshot => UNCHANGED channel
    BY Zenon DEF Destroy, SwitchTo, PublishSnapshot
  <1>4. ASSUME \A a \in Actions : a \notin In(web), queue' = queue, dropped' = dropped
        PROVE  ~dropped /\ \A a \in Actions : Ahead(a) => Ahead(a)'
    BY <1>4 DEF Ahead, In
  <1>5. ASSUME Edit  PROVE ~dropped /\ \A a \in Actions : Ahead(a) => Ahead(a)'
    <2>1. web = <<>> /\ queue' = queue /\ dropped' = dropped
      BY <1>5, Zenon DEF Edit, PostRotation, PostSettings, PostInstance, DeleteInstance, Serve
    <2>2. In(web) = {}
      BY <2>1 DEF In
    <2> QED  BY <1>4, <2>1, <2>2
  <1>6. ASSUME MutateSettings \/ TellInstances
        PROVE  ~dropped /\ \A a \in Actions : Ahead(a) => Ahead(a)'
    <2>1. /\ web # <<>> /\ Head(web) \in {Mutate, Tell}
          /\ queue' = queue /\ dropped' = dropped
      BY <1>6 DEF MutateSettings, TellInstances
    <2>2. In(web) = {Head(web)}
      BY <2>1, HeadIsLast
    <2> QED  BY <1>4, <2>1, <2>2, ActionTypes
  <1>7. ASSUME NEW action \in Actions, Push(action)
        PROVE  ~dropped /\ In(queue') = In(queue) \cup {action}
    <2>1. Len(queue) < QueueCapacity
      BY <1>7, Zenon DEF Push
    <2>2. queue' = Append(queue, action) /\ dropped' = dropped
      BY <1>7, <2>1 DEF Push
    <2> QED  BY <1>0, <2>2, InAppend
  <1>8. ASSUME QueueAction  PROVE ~dropped /\ \A a \in Actions : Ahead(a) => Ahead(a)'
    <2>1. web # <<>> /\ Head(web) \in Actions /\ web' = Tail(web) /\ Push(Head(web))
      BY <1>8 DEF QueueAction
    <2>3. ~dropped /\ In(queue') = In(queue) \cup {Head(web)}
      BY <1>7, <2>1
    <2>4. In(web) = {Head(web)} \cup In(web')
      BY <1>0, <2>1, InTail
    <2> QED  BY <2>3, <2>4 DEF Ahead, In
  <1>9. ASSUME Unsuspend  PROVE ~dropped /\ \A a \in Actions : Ahead(a) => Ahead(a)'
    <2>1. web' = web /\ (Push(Reset) \/ UNCHANGED <<queue, dropped>>)
      BY <1>9 DEF Unsuspend
    <2>2. CASE Push(Reset)
      <3>1. ~dropped /\ In(queue') = In(queue) \cup {Reset}
        BY <1>7, <2>2, ActionTypes
      <3> QED  BY <2>1, <3>1 DEF Ahead, In
    <2>3. CASE UNCHANGED <<queue, dropped>>
      BY <2>1, <2>3 DEF Ahead, In
    <2> QED  BY <2>1, <2>2, <2>3
  <1>10. ASSUME NEW action, Popped(action)
         PROVE  ~dropped /\ \A a \in Actions : Ahead(a) => Ahead(a)' \/ a = action
    <2>1. dropped' = dropped /\ web' = web /\ In(queue) = {action} \cup In(queue')
      BY <1>10, PoppedType
    <2> QED  BY <2>1 DEF Ahead, In
  <1>11. DoReset => Popped(Reset)
    BY DEF DoReset
  <1>12. \A i \in Instances : /\ DoNotify(i) => Popped(Notify(i))
                              /\ DoRecreate(i) => Popped(Recreate(i))
    BY Zenon DEF DoNotify, DoRecreate
  <1>13. CASE Quiet
    BY <1>1, <1>2, <1>3, <1>5, <1>6, <1>8, <1>9, <1>13 DEF Quiet, Web
  <1>14. CASE DoReset
    BY <1>10, <1>11, <1>14
  <1>15. ASSUME NEW i \in Instances, DoNotify(i)
         PROVE  ~dropped /\ \A a \in Actions : Ahead(a) => Ahead(a)' \/ a = Notify(i)
    BY <1>10, <1>12, <1>15
  <1>16. ASSUME NEW i \in Instances, DoRecreate(i)
         PROVE  ~dropped /\ \A a \in Actions : Ahead(a) => Ahead(a)' \/ a = Recreate(i)
    BY <1>10, <1>12, <1>16
  <1>17. CASE DrawSlot \/ EvictAll \/ \E new \in Instances \cup {Garbage} : SwitchTo(new)
    BY <1>1, <1>2, <1>3, <1>17
  <1> QED  BY Steps, <1>13, <1>14, <1>15, <1>16, <1>17

(* What was done too late is remembered until it is repaired.                      *)
LEMMA LateKept ==
    ASSUME TypeOK, [Next]_vars, NEW i \in Instances
    PROVE  /\ Recreate(i) \in late => Recreate(i) \in late' \/ DoRecreate(i)
           /\ Notify(i) \in late => Notify(i) \in late' \/ DoNotify(i) \/ DoRecreate(i)
           /\ Reset \in late => Reset \in late' \/ DoReset
  <1> USE DEF channel
  <1>1. Loop \/ DrawAlert \/ SwitchToNothing \/ EnterNothing \/ EnterSlot \/ FallBack
            \/ DrawSlot \/ EvictAll \/ Suspend \/ CallHeld \/ UNCHANGED vars
            => late' = late
    BY Zenon DEF Loop, DrawAlert, SwitchToNothing, EnterNothing, EnterSlot, Enter, FallBack,
       DrawSlot, EvictAll, Suspend, CallHeld, vars
  <1>2. (\E e \in Engines : Destroy(e)) \/ (\E new \in Instances \cup {Garbage} : SwitchTo(new))
            \/ Unsuspend => late' = late
    BY Zenon DEF Destroy, SwitchTo, Unsuspend
  <1>3. Web => late' = late
    BY WebKeeps
  <1>4. DoReset => late \ {Reset} \subseteq late'
    BY DEF DoReset, Repaired, TooLate
  <1>5. ASSUME NEW j \in Instances
        PROVE  /\ DoNotify(j) => late \ {Notify(j)} \subseteq late'
               /\ DoRecreate(j) => late \ {Notify(j), Recreate(j)} \subseteq late'
    BY DEF DoNotify, DoRecreate, Repaired, TooLate
  <1> QED  BY Steps, <1>1, <1>2, <1>3, <1>4, <1>5, ActionsDiffer DEF Quiet

(* What is due stays due until it is done.                                         *)
LEMMA StillDue ==
    ASSUME TypeOK, LastInWeb, [Next]_vars, ~dropped', NEW i \in Instances
    PROVE  /\ Due(Recreate(i)) => Due(Recreate(i))' \/ DoRecreate(i)
           /\ Telling(i) => Telling(i)' \/ DoNotify(i) \/ DoRecreate(i) \/ TellInstances
  <1>1. Recreate(i) \in Actions /\ Notify(i) \in Actions
    BY ActionTypes
  <1>2. /\ Ahead(Recreate(i)) => Ahead(Recreate(i))' \/ DoRecreate(i)
        /\ Ahead(Notify(i)) => Ahead(Notify(i))' \/ DoNotify(i)
    BY <1>1, StillAhead, ActionsDiffer
  <1>3. Recreate(i)' = Recreate(i) /\ Notify(i)' = Notify(i) /\ Tell' = Tell
    BY DEF Recreate, Notify, Tell
  <1>4. Due(Recreate(i)) => Due(Recreate(i))' \/ DoRecreate(i)
    BY <1>2, <1>3, LateKept DEF Due
  <1>5. Due(Notify(i)) => Due(Notify(i))' \/ DoNotify(i) \/ DoRecreate(i)
    BY <1>2, <1>3, LateKept DEF Due
  <1>6. Tell \in In(web) => Tell \in In(web') \/ TellInstances
    <2> SUFFICES ASSUME Tell \in In(web), ~TellInstances  PROVE Tell \in In(web')
      OBVIOUS
    <2>0. web \in Seq(Actions \cup {Mutate, Tell})
      BY DEF TypeOK
    <2>1. CASE web' = web
      BY <2>1
    <2>2. ~Edit
      <3>1. Edit => web = <<>>
        BY Zenon DEF Edit, PostRotation, PostSettings, PostInstance, DeleteInstance, Serve
      <3>2. web # <<>>
        BY DEF In
      <3> QED  BY <3>1, <3>2
    <2>3. ~MutateSettings
      <3>1. MutateSettings => web # <<>> /\ Head(web) = Mutate
        BY DEF MutateSettings
      <3> QED  BY <3>1, HeadIsLast, ActionTypes
    <2>4. CASE PublishSnapshot
      BY <2>4 DEF PublishSnapshot, channel
    <2>5. CASE QueueAction
      <3>1. web # <<>> /\ Head(web) \in Actions /\ web' = Tail(web)
        BY <2>5 DEF QueueAction
      <3>2. In(web) = {Head(web)} \cup In(web')
        BY <2>0, <3>1, InTail
      <3> QED  BY <3>1, <3>2, ActionTypes
    <2> QED  BY WebSteps, <2>1, <2>2, <2>3, <2>4, <2>5 DEF Web
  <1>7. In(web)' = In(web')
    BY DEF In
  <1> QED  BY <1>3, <1>4, <1>5, <1>6, <1>7 DEF Telling

(* A publication, and an engine that is new or gone, leave an instance up to date.  *)
LEMMA Preserved ==
    ASSUME NEW i \in Instances, SameKind(i), SameText(i) \/ Telling(i),
           Telling(i) => Telling(i)',
           live'.conf[i] = live.conf[i], conf'[i] = conf[i] \/ conf'[i] = live.conf[i],
           \/ pool'[i] = None
           \/ pool[i] # None /\ pool'[i] = pool[i] /\ built'[i] = built[i]
           \/ built'[i] = conf[i] /\ conf'[i] = conf[i] /\ conf[i] # None
    PROVE  UpToDate(i)'
  <1>1. SameKind(i)'
    BY DEF SameKind
  <1>2. SameText(i) => SameText(i)'
    BY DEF SameKind, SameText
  <1> QED  BY <1>1, <1>2 DEF UpToDate

(* The requests and the publication change the configuration, never the engines.   *)
LEMMA WebAnnounces ==
    ASSUME TypeOK, LastInWeb, Web, [Next]_vars, ~dropped', NEW i \in Instances,
           ~Due(Recreate(i))', UpToDate(i)
    PROVE  UpToDate(i)'
  <1>0. pool' = pool /\ built' = built /\ late' = late
    BY WebKeeps
  <1>1. SameKind(i) /\ (SameText(i) \/ Telling(i))
    BY DEF UpToDate
  <1>2. conf[i] \in Settings \cup {None} /\ live.conf[i] \in Settings \cup {None}
    BY LiveType DEF TypeOK
  <1>3. ASSUME live'.conf[i] = live.conf[i], conf'[i] = conf[i] \/ conf'[i] = live.conf[i],
               Telling(i) => Telling(i)'
        PROVE  UpToDate(i)'
    <2>1. \/ pool'[i] = None
          \/ pool[i] # None /\ pool'[i] = pool[i] /\ built'[i] = built[i]
      BY <1>0
    <2> QED  BY <1>1, <1>3, <2>1, Preserved
  <1>4. ASSUME pc' = pc, queue' = queue  PROVE ~DoNotify(i) /\ ~DoRecreate(i)
    <2>1. DoNotify(i) \/ DoRecreate(i) => queue # <<>> /\ queue' = Tail(queue)
      BY DEF DoNotify, DoRecreate, Popped
    <2>2. queue \in Seq(Actions)
      BY DEF TypeOK
    <2> QED  BY <1>4, <2>1, <2>2
  <1>5. CASE Edit
    <2>1. web = <<>>
      BY <1>5, Zenon DEF Edit, PostRotation, PostSettings, PostInstance, DeleteInstance, Serve
    <2>2. queue' = queue /\ pc' = pc
      <3>1. queue' = queue
        BY <1>5, Zenon DEF Edit, PostRotation, PostSettings, PostInstance, DeleteInstance, Serve
      <3> QED  BY <3>1, WebKeeps
    <2>3. ~TellInstances
      BY <2>1 DEF TellInstances
    <2>4. Telling(i) => Telling(i)'
      BY <1>4, <2>2, <2>3, StillDue
    <2>5. CASE PostRotation \/ PostSettings
      <3>1. conf' = conf /\ live'.conf = live.conf
        BY <2>5, LiveType DEF PostRotation, PostSettings, published
      <3> QED  BY <1>3, <2>4, <3>1
    <2>6. ASSUME NEW j \in Instances \ {i}, PostInstance(j)  PROVE UpToDate(i)'
      <3>1. PICK asked \in {None, 1, 2} : live' = [live EXCEPT !.conf[j] = Posted(j, asked)]
        BY <2>6 DEF PostInstance
      <3>2. live'.conf[i] = live.conf[i]
        BY <3>1, LiveType
      <3>3. conf'[i] = conf[i] \/ conf'[i] = live.conf[i]
        BY <2>6 DEF PostInstance, Publish, published
      <3> QED  BY <1>3, <2>4, <3>2, <3>3
    <2>7. ASSUME NEW j \in Instances \ {i}, DeleteInstance(j)  PROVE UpToDate(i)'
      <3>1. live'.conf = [live.conf EXCEPT ![j] = None] /\ conf' = conf
        BY <2>7 DEF DeleteInstance, published
      <3>2. live'.conf[i] = live.conf[i]
        BY <3>1, LiveType
      <3> QED  BY <1>3, <2>4, <3>1, <3>2
    <2>8. ASSUME web' = <<Recreate(i), Reset>>  PROVE FALSE
      <3>1. Recreate(i) \in In(web')
        BY <2>8 DEF In
      <3> QED  BY <3>1 DEF Due, Ahead, Recreate, In
    <2>9. CASE DeleteInstance(i)
      BY <2>8, <2>9 DEF DeleteInstance, Serve
    <2>10. CASE PostInstance(i)
      <3>1. PICK asked \in {None, 1, 2} :
                /\ live' = [live EXCEPT !.conf[i] = Posted(i, asked)]
                /\ Serve(IF Structural(i, asked) THEN <<Recreate(i), Reset>> ELSE <<Notify(i)>>)
                /\ Publish \/ UNCHANGED published
        BY <2>10 DEF PostInstance
      <3>2. ~Structural(i, asked) /\ web' = <<Notify(i)>>
        BY <2>8, <3>1 DEF Serve
      <3>3. Telling(i)'
        <4>1. Notify(i) \in In(web')
          BY <3>2 DEF In
        <4> QED  BY <4>1 DEF Telling, Due, Ahead, Notify, In
      <3>4. live'.conf[i] = Posted(i, asked)
        BY <3>1, LiveType
      <3>5. /\ conf[i] \in Settings /\ live.conf[i] \in Settings
            /\ conf[i] # None /\ live.conf[i] # None
            /\ conf[i].type = live.conf[i].type
            /\ asked = None \/ asked = conf[i].type
        BY <1>1, <1>2, <3>2 DEF Structural, SameKind
      <3>6. /\ Posted(i, asked) = [type |-> IF asked # None THEN asked ELSE live.conf[i].type,
                                   text |-> 3 - live.conf[i].text]
        BY <3>5 DEF Posted
      <3>7. live'.conf[i].type = conf[i].type
        BY <3>4, <3>5, <3>6
      <3>8. live'.conf[i] # None
        <4>1. [type |-> conf[i].type, text |-> 3 - live.conf[i].text] \in Settings
          BY <3>5 DEF Settings
        <4>2. live'.conf[i] = [type |-> conf[i].type, text |-> 3 - live.conf[i].text]
          BY <3>4, <3>5, <3>6
        <4> QED  BY <4>1, <4>2, RotationAssumption
      <3>9. conf'[i] # None /\ conf'[i].type = conf[i].type
        BY <3>1, <3>5 DEF Publish, published
      <3>10. SameKind(i)'
        BY <1>0, <1>1, <3>5, <3>7, <3>8, <3>9 DEF SameKind
      <3> QED  BY <3>3, <3>10 DEF UpToDate
    <2> QED  BY <1>5, <2>5, <2>6, <2>7, <2>9, <2>10 DEF Edit
  <1>6. CASE MutateSettings
    <2>1. web' = <<Tell>> /\ conf' = conf
      BY <1>6 DEF MutateSettings, published
    <2>2. Telling(i)'
      <3>1. Tell \in In(web')
        BY <2>1 DEF In
      <3> QED  BY <3>1 DEF Telling, Tell, In
    <2>3. live'.conf[i] = IF live.conf[i] = None THEN None
                          ELSE [live.conf[i] EXCEPT !.text = 3 - @]
      BY <1>6, LiveType DEF MutateSettings
    <2>4. /\ live'.conf[i] = None <=> live.conf[i] = None
          /\ live.conf[i] # None => live'.conf[i].type = live.conf[i].type
      BY <1>2, <2>3, OtherText, RotationAssumption
    <2>5. SameKind(i)'
      BY <1>0, <1>1, <2>1, <2>4 DEF SameKind
    <2> QED  BY <2>2, <2>5 DEF UpToDate
  <1>7. CASE TellInstances
    <2>1. web' = Told(Configured(conf)) /\ conf' = conf /\ live' = live
      BY <1>7 DEF TellInstances, published, config
    <2>2. SameKind(i)'
      BY <1>0, <1>1, <2>1 DEF SameKind
    <2>3. CASE conf[i] # None
      <3>1. Notify(i) \in In(web')
        BY <2>1, <2>3, ToldAll DEF Configured
      <3>2. Telling(i)'
        BY <3>1 DEF Telling, Due, Ahead, Notify, In
      <3> QED  BY <2>2, <3>2 DEF UpToDate
    <2>4. CASE conf[i] = None
      BY <2>1, <2>2, <2>4 DEF UpToDate, SameText
    <2> QED  BY <2>3, <2>4
  <1>8. CASE PublishSnapshot
    <2>1. conf' = live.conf /\ live' = live /\ UNCHANGED <<queue, web, late, pc>>
      BY <1>8 DEF PublishSnapshot, Publish, channel
    <2>2. Telling(i) => Telling(i)'
      BY <2>1 DEF Telling, Due, Ahead, In, Notify, Tell
    <2> QED  BY <1>3, <2>1, <2>2
  <1>9. CASE QueueAction
    <2>1. conf' = conf /\ live' = live
      BY <1>9 DEF QueueAction, config, published
    <2>2. pc' = pc
      BY WebKeeps
    <2>3. ~DoNotify(i) /\ ~DoRecreate(i) /\ ~TellInstances
      <3>1. web # <<>> /\ web' = Tail(web) /\ web \in Seq(Actions \cup {Mutate, Tell})
            /\ Head(web) # Tell
        BY <1>9, ActionTypes DEF QueueAction, TypeOK
      <3>2. DoNotify(i) \/ DoRecreate(i) => web' = web
        BY PoppedType DEF DoNotify, DoRecreate
      <3>3. web' # web
        BY <3>1
      <3>4. TellInstances => Head(web) = Tell
        BY DEF TellInstances
      <3> QED  BY <3>1, <3>2, <3>3, <3>4
    <2> QED  BY <1>3, <2>1, <2>3, StillDue
  <1> QED  BY <1>5, <1>6, <1>7, <1>8, <1>9 DEF Web

LEMMA AnnouncedStep ==
    ASSUME TypeOK, Made, InView, LastInWeb, Announced, [Next]_vars, ~dropped'
    PROVE  Announced'
  <1> SUFFICES ASSUME NEW i \in Instances, ~Due(Recreate(i))'  PROVE UpToDate(i)'
    BY DEF Announced, Recreate
  <1>0. Due(Recreate(i)) \/ UpToDate(i)
    BY DEF Announced
  <1>1. CASE DoRecreate(i)
    <2>1. pool'[i] = None
      BY <1>1, Retired DEF DoRecreate
    <2>2. conf' = conf /\ live' = live
      BY <1>1, PoppedType DEF DoRecreate
    <2>3. conf[i] = live.conf[i]
      <3>1. Recreate(i) \notin late'
        BY DEF Due, Recreate
      <3> QED  BY <1>1, <3>1 DEF DoRecreate, TooLate
    <2> QED  BY <2>1, <2>2, <2>3 DEF UpToDate, SameKind, SameText
  <1> SUFFICES ASSUME ~DoRecreate(i)  PROVE UpToDate(i)'
    BY <1>1
  <1>2. UpToDate(i)
    BY <1>0, StillDue
  <1>3. SameKind(i) /\ (SameText(i) \/ Telling(i))
    BY <1>2 DEF UpToDate
  <1>4. CASE Web
    BY <1>2, <1>4, WebAnnounces
  <1>5. CASE ~Web
    <2>0. conf' = conf /\ live' = live /\ web' = web /\ ~TellInstances
      BY <1>5, WebSteps DEF Web
    <2>1. CASE DoNotify(i)
      <3>1. /\ pool' = pool
            /\ pool[i] = None \/ conf[i] = None => built'[i] = built[i]
            /\ pool[i] # None /\ conf[i] # None =>
                  built'[i].type = built[i].type /\ built'[i].text = conf[i].text
        BY <2>1, NotifySlots
      <3>2. SameKind(i)'
        BY <1>3, <2>0, <3>1 DEF SameKind
      <3>3. CASE conf[i] = live.conf[i]
        <4>1. SameText(i)'
          BY <2>0, <3>1, <3>3 DEF SameText
        <4> QED  BY <3>2, <4>1 DEF UpToDate
      <3>4. CASE conf[i] # live.conf[i]
        <4>1. Notify(i) \in late'
          BY <2>1, <3>4 DEF DoNotify, TooLate
        <4> QED  BY <3>2, <4>1 DEF UpToDate, Telling, Due, Notify
      <3> QED  BY <3>3, <3>4
    <2>2. CASE ~DoNotify(i)
      <3>1. Telling(i) => Telling(i)'
        BY <2>0, <2>2, StillDue
      <3> DEFINE fine == \/ pool'[i] = None
                         \/ pool[i] # None /\ pool'[i] = pool[i] /\ built'[i] = built[i]
                         \/ built'[i] = conf[i] /\ conf[i] # None
      <3>2. ASSUME fine  PROVE UpToDate(i)'
        BY <1>3, <2>0, <3>1, <3>2, Preserved
      <3>3. ASSUME NEW gone \in SUBSET Instances, Retire(gone)  PROVE fine
        BY <3>3, Retired
      <3>4. Quiet => fine
        BY QuietKeeps
      <3>5. DoReset => fine
        BY <3>3, DoResetSlots
      <3>6. EvictAll => fine
        BY <3>3 DEF EvictAll
      <3>7. DrawSlot => fine
        BY DrawnType, RotationAssumption
      <3>8. ASSUME NEW j \in Instances \ {i}, DoNotify(j) \/ DoRecreate(j)  PROVE fine
        <4>1. DoNotify(j) => fine
          BY NotifySlots
        <4>2. DoRecreate(j) => fine
          BY <3>3 DEF DoRecreate
        <4> QED  BY <3>8, <4>1, <4>2
      <3>9. ASSUME NEW new \in Instances \cup {Garbage}, SwitchTo(new)  PROVE fine
        BY <3>9, Switched, RotationAssumption
      <3> HIDE DEF fine
      <3> QED  BY Steps, <2>2, <3>2, <3>4, <3>5, <3>6, <3>7, <3>8, <3>9
    <2> QED  BY <2>1, <2>2
  <1> QED  BY <1>4, <1>5

--------------------------------------------------------------------------------
(* The list.  A handler that changes it owes a RESET.                              *)
LEMMA WebLists ==
    ASSUME TypeOK, Web, list = live.list
    PROVE  Reset \in In(web') \/ (list' = list /\ live'.list = live.list)
  <1> USE DEF published, config
  <1>1. ASSUME NEW l \in Seq(Actions), web' = l, NEW k \in DOMAIN l, l[k] = Reset
        PROVE  Reset \in In(web')
    BY <1>1 DEF In
  <1>2. CASE PostRotation
    <2>1. web' = <<Reset>>
      BY <1>2 DEF PostRotation, Serve
    <2> QED  BY <2>1 DEF In
  <1>3. ASSUME NEW i \in Instances, DeleteInstance(i)  PROVE Reset \in In(web')
    <2>1. web' = <<Recreate(i), Reset>>
      BY <1>3 DEF DeleteInstance, Serve
    <2>2. 2 \in DOMAIN web' /\ web'[2] = Reset
      BY <2>1
    <2> QED  BY <2>2 DEF In
  <1>4. ASSUME NEW i \in Instances, PostInstance(i)
        PROVE  list' = list /\ live'.list = live.list
    <2>1. PICK entry : live' = [live EXCEPT !.conf[i] = entry]
      BY <1>4 DEF PostInstance
    <2>2. live'.list = live.list
      BY <2>1 DEF TypeOK
    <2>3. list' = live.list \/ list' = list
      BY <1>4, Zenon DEF PostInstance, Publish
    <2> QED  BY <2>2, <2>3
  <1>5. CASE PostSettings
    BY <1>5 DEF PostSettings
  <1>6. CASE MutateSettings
    BY <1>6 DEF MutateSettings, TypeOK
  <1>7. CASE TellInstances \/ QueueAction
    BY <1>7 DEF TellInstances, QueueAction
  <1>8. CASE PublishSnapshot
    BY <1>8 DEF PublishSnapshot, Publish
  <1> QED  BY <1>2, <1>3, <1>4, <1>5, <1>6, <1>7, <1>8 DEF Web, Edit

(* A step that leaves the list alone, gives up engines or the current one, and goes  *)
(* on where it was, disturbs nothing.                                              *)
LEMMA SettledKept ==
    ASSUME Settled, list' = list, live'.list = live.list,
           \A i \in Instances : pool'[i] # None => pool[i] # None,
           current' = current \/ current' = None, UNCHANGED <<pc, index, back, view>>
    PROVE  Settled'
  BY DEF Settled, In

(* The switch, and what comes before and after it, on the list of now.             *)
LEMMA LoopSettled ==
    ASSUME TypeOK, InView, Settled, list' = list, live' = live,
           \/ Loop \/ SwitchToNothing \/ EnterNothing \/ EnterSlot \/ FallBack \/ DrawSlot
           \/ \E new \in Instances \cup {Garbage} : SwitchTo(new)
    PROVE  Settled'
  <1> USE DEF engines, place
  <1>0. /\ list \in Seq(Instances) /\ view \in Seq(Instances) /\ index \in Nat \ {0}
        /\ back \in {"idle", "actions", "draw"}
        /\ list = live.list /\ \A i \in Instances : pool[i] # None => i \in In(list)
    BY DEF TypeOK, Settled
  <1>1. CASE Loop
    <2>1. pool' = pool /\ current' = current /\ pc = "idle" /\ pc' = "actions"
      BY <1>1 DEF Loop
    <2> QED  BY <2>1 DEF Settled, In
  <1>2. CASE SwitchToNothing
    <2>1. pool' = pool /\ current' = None /\ pc = "switch" /\ pc' = back /\ view' = view
      BY <1>2 DEF SwitchToNothing
    <2> QED  BY <1>0, <2>1 DEF Settled, In
  <1>3. CASE EnterNothing
    <2>1. pool' = pool /\ current' = None /\ pc' = "idle"
      BY <1>3 DEF EnterNothing, Enter
    <2> QED  BY <1>0, <2>1 DEF Settled, In
  <1>4. CASE EnterSlot
    <2>1. /\ pool' = pool /\ current' = current /\ pc = "actions" /\ pc' \in {"switch", "draw"}
          /\ list # <<>> /\ view' = list /\ index' = IF index > Len(list) THEN 1 ELSE index
      BY <1>4 DEF EnterSlot, Enter
    <2>2. index' \in DOMAIN list
      BY <1>0, <2>1
    <2> QED  BY <1>0, <2>1, <2>2 DEF Settled, In
  <1>5. CASE FallBack
    <2>1. /\ pool' = pool /\ pc = "draw" /\ pc' = "switch" /\ back' = "idle"
          /\ Fallback \in In(view) /\ index' = First({k \in DOMAIN view : view[k] = Fallback})
      BY <1>5 DEF FallBack
    <2>2. view = list
      BY <2>1 DEF Settled
    <2>3. index' \in DOMAIN list
      BY <1>0, <2>1, <2>2, FirstType, RotationAssumption
    <2> QED  BY <1>0, <2>1, <2>3 DEF Settled, In
  <1>6. CASE DrawSlot
    <2>1. pc = "draw" /\ view = list /\ index \in DOMAIN view
      BY <1>6 DEF DrawSlot, Settled, InView
    <2>2. view[index] \in In(list) /\ view[index] \in Instances
      BY <1>0, <2>1 DEF In
    <2>3. \E e : pool' = [pool EXCEPT ![view[index]] = e]
      BY <1>6, Zenon DEF DrawSlot
    <2>4. \A i \in Instances : pool'[i] # None => i \in In(list)
      BY <1>0, <2>2, <2>3 DEF TypeOK
    <2>5. \/ pc' = "idle"
          \/ pc' = "switch" /\ back' = "idle" /\ index' = (index % Len(view)) + 1
      BY <1>6, Zenon DEF DrawSlot
    <2>6. (index % Len(view)) + 1 \in DOMAIN list
      <3>1. Len(list) \in Nat \ {0} /\ DOMAIN list = 1 .. Len(list) /\ index \in Nat
        BY <1>0, <2>1 DEF TypeOK
      <3>2. index % Len(list) \in 0 .. (Len(list) - 1)
        BY <3>1
      <3> QED  BY <2>1, <3>1, <3>2
    <2>7. current' = current
      BY <1>6 DEF DrawSlot
    <2> QED  BY <1>0, <2>1, <2>4, <2>5, <2>6, <2>7 DEF Settled, In
  <1>7. ASSUME NEW new \in Instances \cup {Garbage}, SwitchTo(new)  PROVE Settled'
    <2>1. /\ pc = "switch" /\ list # <<>> /\ new \in Target /\ pc' = back /\ back' = "idle"
          /\ current' = new /\ view' = view
      BY <1>7 DEF SwitchTo
    <2>2. new = list[index] /\ index \in DOMAIN list
      BY <1>0, <2>1 DEF Settled, Target
    <2>3. new \in In(list)
      BY <2>2 DEF In
    <2>4. \A i \in Instances : pool'[i] # None => i \in In(list)
      BY <1>0, <1>7, <2>3, Switched
    <2> QED  BY <1>0, <2>1, <2>3, <2>4 DEF Settled, In
  <1> QED  BY <1>1, <1>2, <1>3, <1>4, <1>5, <1>6, <1>7

(* A RESET that comes in time leaves nothing of an older list.                      *)
LEMMA ResetSettles ==
    ASSUME TypeOK, DoReset  PROVE Reset \in late' \/ Settled'
  <1> DEFINE gone == {i \in Instances : pool[i] # None} \ In(list)
  <1>1. /\ Retire(gone) /\ pc' = "switch" /\ back' = "actions"
        /\ index' = IF current \in In(list) \ gone
                    THEN First({k \in DOMAIN list : list[k] = current}) ELSE 1
        /\ IF list = live.list THEN Repaired({Reset}) ELSE TooLate(Reset)
    BY Zenon DEF DoReset
  <1>2. list' = list /\ live' = live
    BY PoppedType DEF DoReset
  <1>3. CASE list # live.list
    BY <1>1, <1>3 DEF TooLate
  <1>4. CASE list = live.list
    <2>1. gone \in SUBSET Instances
      OBVIOUS
    <2>2. \A i \in Instances : pool'[i] # None => i \notin gone /\ pool[i] # None
      BY <1>1, <2>1, Retired
    <2>3. \A i \in Instances : pool'[i] # None => i \in In(list)
      BY <2>2
    <2>4. list \in Seq(Instances)
      BY DEF TypeOK
    <2>5. ASSUME current \in In(list)
          PROVE  First({k \in DOMAIN list : list[k] = current}) \in DOMAIN list
      BY <2>4, <2>5, FirstType
    <2>6. \/ index' = 1
          \/ current \in In(list) /\ index' = First({k \in DOMAIN list : list[k] = current})
      BY <1>1
    <2>7. list = <<>> \/ index' \in DOMAIN list
      <3>1. list = <<>> \/ 1 \in DOMAIN list
        BY <2>4
      <3> QED  BY <2>5, <2>6, <3>1
    <2> QED  BY <1>1, <1>2, <1>4, <2>3, <2>7 DEF Settled, In
  <1> QED  BY <1>3, <1>4

LEMMA ListedStep ==
    ASSUME TypeOK, InView, LastInWeb, Listed, [Next]_vars, ~dropped'
    PROVE  Listed'
  <1> USE DEF engines, place, suspension, published, config
  <1>0. Reset' = Reset /\ In(web)' = In(web')
    BY DEF Reset, In
  <1>1. CASE DoReset
    BY <1>0, <1>1, ResetSettles DEF Listed, Due
  <1>2. ASSUME Due(Reset), ~DoReset  PROVE Due(Reset)'
    <2>1. Ahead(Reset) => Ahead(Reset)'
      BY <1>0, <1>2, StillAhead, ActionTypes, ActionsDiffer
    <2>2. Reset \in late => Reset \in late'
      BY <1>2, LateKept, RotationAssumption
    <2> QED  BY <1>0, <1>2, <2>1, <2>2 DEF Due
  <1>3. ASSUME Settled, Web  PROVE Listed'
    <2>1. UNCHANGED <<pool, current, index, view, pc, back>>
      BY <1>3, WebKeeps
    <2>2. CASE Reset \in In(web')
      BY <1>0, <2>2 DEF Listed, Due, Ahead
    <2>3. CASE list' = list /\ live'.list = live.list
      BY <1>3, <2>1, <2>3, SettledKept DEF Listed
    <2> QED  BY <1>3, <2>2, <2>3, WebLists DEF Settled
  <1>4. ASSUME Settled, ~Web, ~DoReset  PROVE Settled'
    <2>0. list' = list /\ live' = live
      BY <1>4, WebSteps
    <2>1. ASSUME UNCHANGED <<pool, current, index, view, pc, back>>  PROVE Settled'
      BY <1>4, <2>0, <2>1, SettledKept
    <2>2. Suspend \/ Unsuspend \/ CallHeld \/ DrawAlert \/ UNCHANGED vars
              => UNCHANGED <<pool, current, index, view, pc, back>>
      BY Zenon DEF Suspend, Unsuspend, CallHeld, DrawAlert, vars
    <2>3. ASSUME NEW e \in Engines, Destroy(e)
          PROVE  UNCHANGED <<pool, current, index, view, pc, back>>
      BY <2>3 DEF Destroy
    <2>4. ASSUME NEW i \in Instances, DoNotify(i)
          PROVE  UNCHANGED <<pool, current, index, view, pc, back>>
      BY <2>4 DEF DoNotify, Popped
    <2>5. ASSUME NEW gone \in SUBSET Instances, Retire(gone), current' \in {current, None},
                 UNCHANGED <<index, view, pc, back>>
          PROVE  Settled'
      <3>1. \A i \in Instances : pool'[i] # None => pool[i] # None
        BY <2>5, Retired
      <3> QED  BY <1>4, <2>0, <2>5, <3>1, SettledKept
    <2>6. CASE EvictAll
      BY <2>5, <2>6 DEF EvictAll
    <2>7. ASSUME NEW i \in Instances, DoRecreate(i)  PROVE Settled'
      BY <2>5, <2>7 DEF DoRecreate, Popped
    <2>8. CASE \/ Loop \/ SwitchToNothing \/ EnterNothing \/ EnterSlot \/ FallBack \/ DrawSlot
               \/ \E new \in Instances \cup {Garbage} : SwitchTo(new)
      BY <1>4, <2>0, <2>8, LoopSettled
    <2> QED  BY <1>4, <2>1, <2>2, <2>3, <2>4, <2>6, <2>7, <2>8, Steps DEF Quiet
  <1> QED  BY <1>1, <1>2, <1>3, <1>4 DEF Listed

--------------------------------------------------------------------------------
(* The theorems. *)

LEMMA StepInv == IInv /\ [Next]_vars => IInv'
  <1> SUFFICES ASSUME IInv, [Next]_vars  PROVE IInv'
    OBVIOUS
  <1>1. TypeOK /\ Made /\ InView /\ LastInWeb /\ SessionEngineLives /\ OneActive
    BY DEF IInv
  <1>2. TypeOK'
    BY <1>1, EditType, Core0Type, Core1Type, StutterType, Zenon DEF Next
  <1>3. Made' /\ InView' /\ LastInWeb'
    BY <1>1, MadeStep, ViewStep, LastStep
  <1>4. SessionEngineLives' /\ OneActive'
    BY <1>1, <1>2, SessionStep, ActiveStep
  <1>5. ASSUME ~dropped'  PROVE Announced' /\ Listed'
    <2>1. ~dropped
      BY <1>1, <1>5, StillAhead
    <2>2. Announced /\ Listed
      BY <2>1 DEF IInv
    <2> QED  BY <1>1, <1>5, <2>2, AnnouncedStep, ListedStep
  <1> QED  BY <1>2, <1>3, <1>4, <1>5 DEF IInv

(* The inductive invariant holds of every reachable state.                         *)
THEOREM Invariant == Spec => []IInv
  <1> QED  BY InitInv, StepInv, PTL DEF Spec

(* Core 0 never holds more engines than its ring and its hands take, whatever is     *)
(* retired, and every object that is made is one there is room for.                *)
THEOREM TypeCorrect == Spec => []TypeOK
  <1>1. IInv => TypeOK
    BY DEF IInv
  <1> QED  BY Invariant, <1>1, PTL

(* However engines are retired, evicted or left out of a new list, the display      *)
(* runtime holds no pointer to one that is on its way to destruction.              *)
THEOREM NoPointerKept == Spec => []SessionEngineLives
  <1>1. IInv => SessionEngineLives
    BY DEF IInv
  <1> QED  BY Invariant, <1>1, PTL

(* No path through the queue, the switch, an eviction or a changed list leaves two   *)
(* engines activated, or one that is not the current one, but for an engine that    *)
(* was called when another was the current one: by setSuspended(), or by loop() for  *)
(* the only slot of a shorter list.  Such an engine is one no more as soon as it is  *)
(* deactivated, or the current one.                                                *)
THEOREM OneEngineActive == Spec => []OneActive
  <1>1. IInv => OneActive
    BY DEF IInv
  <1> QED  BY Invariant, <1>1, PTL

(* Whenever no request was dropped and all are done, every engine there is has the  *)
(* type and the settings of the published configuration, at whatever time it is      *)
(* published; but those of an instance an action was handled for before the change  *)
(* it was about was published.                                                     *)
THEOREM NoneOutOfDate == Spec => []RecreatedUnlessDropped
  <1>1. IInv => RecreatedUnlessDropped
    <2> SUFFICES ASSUME IInv, ~dropped, queue = <<>>, web = <<>>,
                        NEW i \in Instances, pool[i] # None, ~Late(i)
                 PROVE  built[i] = conf[i]
      BY DEF RecreatedUnlessDropped, RecreatedWhenDrained
    <2>1. /\ ~Ahead(Recreate(i)) /\ ~Ahead(Notify(i)) /\ Tell \notin In(web)
          /\ Notify(i) \notin late /\ Recreate(i) \notin late
      BY DEF Ahead, In, Late
    <2>2. SameKind(i) /\ SameText(i)
      BY <2>1 DEF IInv, Announced, Due, Telling, UpToDate
    <2>3. conf[i] # None /\ built[i].type = conf[i].type /\ built[i].text = conf[i].text
      BY <2>2 DEF SameKind, SameText
    <2>4. built[i] \in Settings /\ conf[i] \in Settings
      BY <2>3 DEF IInv, Made, TypeOK
    <2> QED  BY <2>3, <2>4 DEF Settings
  <1> QED  BY Invariant, <1>1, PTL

(* Whenever no RESET was dropped or handled before its list was published, and all   *)
(* are done, what is shown is listed and no engine is left of an instance that is    *)
(* not, whichever of the lists each step of loop() read.                           *)
THEOREM NothingUnlisted == Spec => []ListedWhenDrained
  <1>1. IInv => ListedWhenDrained
    <2> SUFFICES ASSUME IInv, ~dropped, Reset \notin late, queue = <<>>, web = <<>>, pc = "idle"
                 PROVE  /\ \A i \in Instances : pool[i] # None => i \in In(list)
                        /\ current # None => current \in In(list)
      BY DEF ListedWhenDrained
    <2>1. ~Due(Reset)
      BY DEF Due, Ahead, In
    <2>2. Settled
      BY <2>1 DEF IInv, Listed
    <2> QED  BY <2>2 DEF Settled
  <1> QED  BY Invariant, <1>1, PTL
================================================================================
