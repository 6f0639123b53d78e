------------------------------- MODULE Rotation -------------------------------
(* RotationManager: the engines it creates, shows one after the other and hands   *)
(* over for destruction.  The web server on Core 0 changes the configuration and  *)
(* then queues what Core 1 has to do about it; the snapshot with the change is     *)
(* published at once, or later when its readers hold the two other slots.  loop()  *)
(* on Core 1 empties the queue when the rotation is shown, and reads the published *)
(* snapshot several times in one call.  setSuspended() runs on Core 0 and calls    *)
(* engines itself.                                                               *)
EXTENDS Naturals, Sequences, FiniteSets

CONSTANTS
    Instances,      \* instance ids
    Objects,        \* how many engine objects of an instance are ever alive together
    None,           \* no object, no instance, no configuration entry
    Garbage,        \* what a read past the end of the rotation list yields
    Lists,          \* the rotation lists a user may send
    Heavy,          \* the instances of engines that evictOnInactiveLowMemory()
    Fallback,       \* the 'clock' instance shown during bulk transfers
    Psram,          \* hardwareHAL.capabilities().hasPsram
    QueueCapacity,  \* pendingActions (8)
    MaxSlots,       \* MAX_ACTIVE_ENGINES (32)
    RingCapacity,   \* engines Core 0 takes over at a time, its ring (8) and its hands
    MaxEdits        \* bound: changes of the configuration, suspensions, evictions

Engines == Instances \X (1 .. Objects)     \* the objects, by the instance they serve
Settings == [type : 1 .. 2, text : 1 .. 2] \* of an instance: its engine's type, the rest

ASSUME RotationAssumption ==
    /\ IsFiniteSet(Instances)
    /\ None \notin Instances \cup Engines \cup Settings /\ Garbage \notin Instances \cup {None}
    /\ \A l \in Lists : l \in Seq(Instances)
    /\ MaxSlots \in Nat /\ Objects \in Nat /\ Objects >= MaxSlots + RingCapacity
    /\ Heavy \subseteq Instances /\ Fallback \in Instances \ Heavy
    /\ Psram \in BOOLEAN
    /\ QueueCapacity \in Nat \ {0} /\ RingCapacity \in Nat \ {0} /\ MaxEdits \in Nat

VARIABLES
    list,       \* rotation of the published snapshot
    conf,       \* its instances: the engine type and the settings of each
    live,       \* both in the fields of ConfigLoader, published or not yet
    queue,      \* pendingActions
    web,        \* what the web server has still to queue for the request it serves
    dropped,    \* a push found the queue full (history)
    late,       \* actions handled on a snapshot older than the fields (history)
    edits,      \* changes so far
    pool,       \* activeEngines, by instance id
    pending,    \* objects in slots with pendingRetirement
    ring,       \* objects handed over to Core 0 and not destroyed yet
    built,      \* the configuration the engine of an instance was made from
    on,         \* the objects activate() was called on, and deactivate() not since
    stray,      \* those of them activated when they were not the current one (history)
    current,    \* currentActiveInstanceId
    index,      \* currentIndex + 1
    missing,    \* m_slotMissing
    session,    \* m_session.activeEngine of DisplayRuntime
    suspended,  \* suspended
    held,       \* the engine setSuspended() is about to call
    view,       \* the rotation list loop() has a guard on
    pc,         \* where Core 1 is
    back        \* where switchToModule() returns to

published == <<list, conf>>
config == <<published, live, edits>>
channel == <<queue, web, dropped, late>>
engines == <<pool, pending, ring, built, on, stray>>
place == <<current, index, missing>>
suspension == <<suspended, held>>
vars == <<config, channel, engines, place, session, suspension, view, pc, back>>

Actions == [do : {"NOTIFY", "RECREATE"}, who : Instances] \cup [do : {"RESET"}]
Notify(i) == [do |-> "NOTIFY", who |-> i]
Recreate(i) == [do |-> "RECREATE", who |-> i]
Reset == [do |-> "RESET"]
Mutate == [do |-> "MUTATE"]     \* of POST /api/settings: change the fields,
Tell == [do |-> "TELL"]         \* and notify every published instance

TypeOK ==
    /\ list \in Seq(Instances) /\ view \in Seq(Instances)
    /\ conf \in [Instances -> Settings \cup {None}] /\ edits \in 0 .. MaxEdits
    /\ live \in [list : Seq(Instances), conf : [Instances -> Settings \cup {None}]]
    /\ queue \in Seq(Actions) /\ Len(queue) <= QueueCapacity
    /\ web \in Seq(Actions \cup {Mutate, Tell}) /\ dropped \in BOOLEAN /\ late \subseteq Actions
    /\ pool \in [Instances -> Engines \cup {None}]
    /\ pending \subseteq Engines /\ ring \subseteq Engines
    /\ Cardinality(ring) <= RingCapacity
    /\ built \in [Instances -> Settings \cup {None}]
    /\ on \subseteq Engines /\ stray \subseteq Engines
    /\ current \in Instances \cup {None, Garbage} /\ index \in Nat \ {0}
    /\ missing \in BOOLEAN /\ session \in Engines \cup {None}
    /\ suspended \in BOOLEAN /\ held \in Engines \cup {None}
    /\ pc \in {"idle", "actions", "draw", "switch"}
    /\ back \in {"idle", "actions", "draw"}

Init ==
    /\ list \in Lists
    /\ conf = [i \in Instances |-> [type |-> 1, text |-> 1]]
    /\ live = [list |-> list, conf |-> conf]
    /\ queue = <<Reset>> /\ web = <<>> /\ dropped = FALSE /\ late = {} /\ edits = 0
    /\ pool = [i \in Instances |-> None]
    /\ pending = {} /\ ring = {} /\ on = {} /\ stray = {}
    /\ built = [i \in Instances |-> None]
    /\ current = None /\ index = 1 /\ missing = FALSE
    /\ session = None
    /\ suspended = FALSE /\ held = None
    /\ view = <<>> /\ pc = "idle" /\ back = "idle"

-------------------------------------------------------------------------------
(* publishSnapshot_locked(): by mutate(), by the save that follows it, or by the   *)
(* lifecycle task, and by none of them while a handler is inside mutate().        *)
In(l) == {l[k] : k \in DOMAIN l}
Publish == list' = live.list /\ conf' = live.conf

PublishSnapshot ==
    /\ live # [list |-> list, conf |-> conf] /\ Mutate \notin In(web)
    /\ Publish
    /\ UNCHANGED <<live, edits, channel, engines, place, session, suspension, view, pc, back>>

(* Core 0, the web server: a handler changes the fields inside mutate(), and queues *)
(* the actions that follow from the change one by one.                           *)
Serve(actions) ==
    /\ web = <<>> /\ edits < MaxEdits
    /\ web' = actions /\ edits' = edits + 1
    /\ UNCHANGED <<queue, dropped, late, engines, place, session, suspension, view, pc, back>>

PostRotation ==
    /\ \E l \in Lists : live' = [live EXCEPT !.list = l]
    /\ Serve(<<Reset>>)
    /\ UNCHANGED published

(* An instance is new or the type asked for is another one, as the snapshot has it *)
(* that is published when the request comes; when mutate() is called, the fields   *)
(* may have gone further, and what was late may have been published.              *)
Posted(i, asked) ==
    LET found == conf[i]
        entry == live.conf[i]
        type == IF asked # None THEN asked ELSE IF entry = None THEN 1 ELSE entry.type
    IN  CASE entry # None -> [type |-> type, text |-> 3 - entry.text]
          [] entry = None /\ found = None -> [type |-> type, text |-> 1]
          [] OTHER -> None

Structural(i, asked) == conf[i] = None \/ asked \notin {None, conf[i].type}

PostInstanceKept(i) ==  \* mutant
    \E asked \in {None, 1, 2} :
        /\ live' = [live EXCEPT !.conf[i] = Posted(i, asked)]
        /\ Serve(IF Structural(i, asked) THEN <<Reset>> ELSE <<Notify(i)>>)
        /\ Publish \/ UNCHANGED published

PostInstance(i) ==
    \E asked \in {None, 1, 2} :
        /\ live' = [live EXCEPT !.conf[i] = Posted(i, asked)]
        /\ Serve(IF Structural(i, asked) THEN <<Recreate(i), Reset>> ELSE <<Notify(i)>>)
        /\ Publish \/ UNCHANGED published

DeleteInstance(i) ==
    /\ live.conf[i] # None
    /\ LET others == {k \in DOMAIN live.list : live.list[k] # i}
       IN  \E kept \in [1 .. Cardinality(others) -> others] :
             /\ \A m, n \in DOMAIN kept : m < n => kept[m] < kept[n]
             /\ live' = [list |-> [k \in DOMAIN kept |-> live.list[kept[k]]],
                         conf |-> [live.conf EXCEPT ![i] = None]]
    /\ Serve(<<Recreate(i), Reset>>)
    /\ UNCHANGED published

(* POST /api/settings: instances whose settings it names are told inside mutate(),  *)
(* before the change can be published, and every published instance after it.     *)
InOrder(S) == CHOOSE s \in [1 .. Cardinality(S) -> S] : \A i \in S : \E k \in DOMAIN s : s[k] = i
Told(S) == [k \in 1 .. Cardinality(S) |-> Notify(InOrder(S)[k])]
Configured(c) == {i \in Instances : c[i] # None}

PostSettings ==
    /\ \E early \in SUBSET Configured(live.conf) : Serve(Told(early) \o <<Mutate>>)
    /\ UNCHANGED <<published, live>>

MutateSettings ==
    /\ web # <<>> /\ Head(web) = Mutate /\ web' = <<Tell>>
    /\ live' = [live EXCEPT !.conf = [i \in Instances |->
                  IF live.conf[i] = None THEN None ELSE [live.conf[i] EXCEPT !.text = 3 - @]]]
    /\ UNCHANGED <<published, edits, queue, dropped, late, engines, place, session, suspension,
                   view, pc, back>>

TellInstances ==
    /\ web # <<>> /\ Head(web) = Tell /\ web' = Told(Configured(conf))
    /\ UNCHANGED <<config, queue, dropped, late, engines, place, session, suspension,
                   view, pc, back>>

(* queueAction(): a full queue forgets the action.                               *)
Push(action) ==
    IF Len(queue) < QueueCapacity
    THEN queue' = Append(queue, action) /\ UNCHANGED dropped
    ELSE dropped' = TRUE /\ UNCHANGED queue

QueueAction ==
    /\ web # <<>> /\ Head(web) \in Actions
    /\ Push(Head(web)) /\ web' = Tail(web)
    /\ UNCHANGED <<config, late, engines, place, session, suspension, view, pc, back>>

Engine(i) == IF i \in Instances THEN pool[i] ELSE None

(* setSuspended(): findActiveEngine(), and then the call.                        *)
Suspend ==
    /\ held = None /\ ~suspended /\ edits < MaxEdits
    /\ suspended' = TRUE /\ held' = Engine(current) /\ edits' = edits + 1
    /\ UNCHANGED <<published, live, channel, engines, place, session, view, pc, back>>

Unsuspend ==
    /\ held = None /\ suspended
    /\ suspended' = FALSE /\ held' = Engine(current)
    /\ IF current = None THEN Push(Reset) ELSE UNCHANGED <<queue, dropped>>
    /\ UNCHANGED <<config, web, late, engines, place, session, view, pc, back>>

(* The engines called although they are not the current one, in the step that     *)
(* leaves on' activated; they are stray until deactivated, or the current one.    *)
Astray(called) == stray' = ((stray \cup called) \cap on') \ {Engine(current)'}

CallHeld ==
    /\ held # None /\ held' = None
    /\ on' = IF suspended THEN on \ {held} ELSE on \cup {held}
    /\ UNCHANGED <<config, channel, pool, pending, ring, built, place, session,
                   suspended, view, pc, back>>
    /\ Astray({held})

(* The lifecycle task of Core 0 stops an engine and destroys it.                 *)
Destroy(e) ==
    /\ e \in ring
    /\ ring' = ring \ {e}
    /\ on' = on \ {e}
    /\ UNCHANGED <<config, channel, pool, pending, built, place, session, suspension, view, pc, back>>
    /\ Astray({})

-------------------------------------------------------------------------------
(* retireEngineSlot() of the instances in gone, in order of their slots; ring is   *)
(* the one after the calls of Core 0 that come in between.                       *)
Room == RingCapacity - Cardinality(ring)

RetireUnpurged(gone) ==  \* mutant
    LET objects == {pool[i] : i \in gone} \ {None}
    IN  /\ \E pushed \in SUBSET objects :
             /\ Cardinality(pushed) = IF Cardinality(objects) <= Room THEN Cardinality(objects) ELSE Room
             /\ ring' = ring \cup pushed /\ pending' = pending \cup (objects \ pushed)
        /\ pool' = [i \in Instances |-> IF i \in gone THEN None ELSE pool[i]]
        /\ built' = [i \in Instances |-> IF i \in gone THEN None ELSE built[i]]
        /\ UNCHANGED session

Retire(gone) ==
    LET objects == {pool[i] : i \in gone} \ {None}
    IN  /\ \E pushed \in SUBSET objects :
             /\ IF Cardinality(objects) <= Room THEN pushed = objects
                ELSE Cardinality(pushed) = Room
             /\ ring' = ring \cup pushed /\ pending' = pending \cup (objects \ pushed)
        /\ pool' = [i \in Instances |-> IF i \in gone THEN None ELSE pool[i]]
        /\ built' = [i \in Instances |-> IF i \in gone THEN None ELSE built[i]]
        /\ session' = IF session \in objects THEN None ELSE session

Alive == {pool[i] : i \in Instances} \ {None}

(* getOrCreateEngine(): nothing for an instance that is not configured, and the     *)
(* new engine does not outlive the call when every slot is taken.                *)
Create(i, taken) ==
    IF i \notin Instances \/ conf[i] = None \/ Cardinality(taken) >= MaxSlots THEN None
    ELSE <<i, CHOOSE n \in 1 .. Objects : <<i, n>> \notin Alive \cup pending \cup ring>>

(* update() of the display runtime, then render(): an alert is drawn, or the       *)
(* rotation; m_session.activeEngine is the engine of the one it follows.  The     *)
(* NOTIFY that reconcile() adds for the engine shown is left out.                *)
DrawAlert ==
    /\ pc = "idle" /\ session' = None
    /\ UNCHANGED <<config, channel, engines, place, suspension, view, pc, back>>

(* WEBUI_SYNC without PSRAM: evictAllActiveEnginesForMemory().                    *)
EvictAll ==
    /\ pc = "idle" /\ ~Psram /\ session = None
    /\ Retire(Instances) /\ on' = on \ Alive
    /\ current' = None /\ missing' = FALSE /\ Astray({})
    /\ edits < MaxEdits /\ edits' = edits + 1
    /\ UNCHANGED <<published, live, channel, index, suspension, view, pc, back>>

(* The rotation's loop() begins with the engines the ring had no room for.       *)
Loop ==
    /\ pc = "idle" /\ pc' = "actions"
    /\ session' = Engine(current)
    /\ \E pushed \in SUBSET pending :
         /\ IF Cardinality(pending) <= Room THEN pushed = pending
            ELSE Cardinality(pushed) = Room
         /\ ring' = ring \cup pushed /\ pending' = pending \ pushed
    /\ UNCHANGED <<config, channel, pool, built, on, stray, place, suspension, view, back>>

-------------------------------------------------------------------------------
(* processPendingActions(), one action ...                                        *)
Popped(action) ==
    /\ pc = "actions" /\ queue # <<>> /\ Head(queue) = action
    /\ queue' = Tail(queue)
    /\ UNCHANGED <<config, web, dropped, suspension, view>>

(* ... which comes too late to repair anything when what it is about is published  *)
(* only after it.                                                                *)
Repaired(actions) == late' = late \ actions
TooLate(action) == late' = late \cup {action}

DoNotify(i) ==
    /\ Popped(Notify(i))
    /\ IF conf[i] = live.conf[i] THEN Repaired({Notify(i)}) ELSE TooLate(Notify(i))
    /\ built' = IF pool[i] = None \/ conf[i] = None THEN built
                ELSE [built EXCEPT ![i].text = conf[i].text]
    /\ UNCHANGED <<pool, pending, ring, on, stray, place, session, pc, back>>

DoRecreate(i) ==
    /\ Popped(Recreate(i))
    /\ IF conf[i] = live.conf[i] THEN Repaired({Notify(i), Recreate(i)}) ELSE TooLate(Recreate(i))
    /\ Retire({i}) /\ on' = on \ {pool[i]}
    /\ current' = IF current = i /\ pool[i] # None THEN None ELSE current
    /\ Astray({})
    /\ UNCHANGED <<index, missing, pc, back>>

First(S) == CHOOSE k \in S : \A m \in S : k <= m

DoResetUnpruned ==  \* mutant
    /\ Popped(Reset)
    /\ IF list = live.list THEN Repaired({Reset}) ELSE TooLate(Reset)
    /\ index' = IF current \in In(list) THEN First({k \in DOMAIN list : list[k] = current}) ELSE 1
    /\ pc' = "switch" /\ back' = "actions"
    /\ UNCHANGED <<pool, pending, ring, built, on, stray, current, session, missing>>

DoReset ==
    /\ Popped(Reset)
    /\ IF list = live.list THEN Repaired({Reset}) ELSE TooLate(Reset)
    /\ LET gone == {i \in Instances : pool[i] # None} \ In(list)
       IN  /\ Retire(gone) /\ on' = on \ {pool[i] : i \in gone}
           /\ current' = IF current \in gone THEN None ELSE current
           /\ index' = IF current \in In(list) \ gone
                       THEN First({k \in DOMAIN list : list[k] = current}) ELSE 1
    /\ pc' = "switch" /\ back' = "actions"
    /\ UNCHANGED missing /\ Astray({})

-------------------------------------------------------------------------------
(* switchToModule(index), on the list published by now.                          *)
SwitchToNothing ==
    /\ pc = "switch" /\ list = <<>> /\ pc' = back /\ back' = "idle"
    /\ on' = on \ {Engine(current)} /\ current' = None
    /\ UNCHANGED <<config, channel, pool, pending, ring, built, index, missing, session,
                   suspension, view>>
    /\ Astray({})

Target == IF index <= Len(list) THEN {list[index]} ELSE Instances \cup {Garbage}

(* An engine that is shown already is activated when it is self-paced and finished. *)
SwitchTo(new) ==
    /\ pc = "switch" /\ list # <<>> /\ new \in Target /\ pc' = back /\ back' = "idle"
    /\ missing' = FALSE
    /\ LET old == IF current = new THEN None ELSE Engine(current)
           evict == ~Psram /\ old # None /\ current \in Heavy
           left == IF old # None THEN {old} ELSE {}
           moved == IF evict /\ Room > 0 THEN left ELSE {}
           stuck == IF evict /\ Room = 0 THEN left ELSE {}
           made == Create(new, (Alive \cup pending) \ moved)
           engine == IF Engine(new) # None THEN Engine(new) ELSE made
           kept == IF evict THEN [pool EXCEPT ![current] = None] ELSE pool
           forgotten == IF evict THEN [built EXCEPT ![current] = None] ELSE built
       IN  /\ ring' = ring \cup moved /\ pending' = pending \cup stuck
           /\ session' = IF evict /\ session = old THEN None ELSE session
           /\ pool' = IF engine = None THEN kept ELSE [kept EXCEPT ![new] = engine]
           /\ built' = IF engine # None /\ engine = made /\ Engine(new) = None
                       THEN [forgotten EXCEPT ![new] = conf[new]] ELSE forgotten
           /\ \E active \in SUBSET ({engine} \ {None}) :
                 /\ current # new => active = {engine} \ {None}
                 /\ on' = (on \ left) \cup active
    /\ current' = new
    /\ UNCHANGED <<config, channel, index, suspension, view>>
    /\ Astray({})

-------------------------------------------------------------------------------
(* No more actions: loop() takes a guard of its own.                             *)
Enter ==
    /\ pc = "actions" /\ queue = <<>>
    /\ UNCHANGED <<config, channel, pool, pending, ring, built, missing, session, suspension>>

EnterNothingActive ==  \* mutant
    /\ Enter /\ (suspended \/ list = <<>>)
    /\ pc' = "idle" /\ current' = None
    /\ UNCHANGED <<on, index, view, back>> /\ Astray({})

EnterNothing ==
    /\ Enter /\ (suspended \/ list = <<>>)
    /\ pc' = "idle" /\ on' = on \ {Engine(current)} /\ current' = None
    /\ UNCHANGED <<index, view, back>> /\ Astray({})

EnterSlot ==
    /\ Enter /\ ~suspended /\ list # <<>> /\ view' = list
    /\ LET wrapped == index > Len(list)
       IN  /\ index' = IF wrapped THEN 1 ELSE index
           /\ IF wrapped \/ (current = None /\ ~missing)
              THEN pc' = "switch" /\ back' = "draw" ELSE pc' = "draw" /\ back' = back
    /\ UNCHANGED <<on, stray, current>>

(* A bulk transfer on a board without PSRAM: a heavy engine makes room.          *)
FallBack ==
    /\ pc = "draw" /\ ~Psram /\ current \in Heavy /\ conf[current] # None
    /\ Fallback \in In(view) /\ conf[Fallback] # None
    /\ index' = First({k \in DOMAIN view : view[k] = Fallback}) /\ index' # index
    /\ pc' = "switch" /\ back' = "idle" /\ view' = <<>>
    /\ UNCHANGED <<config, channel, engines, current, missing, session, suspension>>

(* The engine of the slot is drawn, and created for it when it is not there; the   *)
(* slot goes on, is over, or is skipped because it has no engine.  The only slot   *)
(* goes on for ever: a self-paced engine that has finished is activated again,    *)
(* whether it is the current one or the RESET of a shorter list is still to come.  *)
DrawSlot ==
    /\ pc = "draw" /\ view' = <<>>
    /\ UNCHANGED <<config, channel, pending, ring, current, session, suspension>>
    /\ LET slot == view[index]
           made == IF missing \/ pool[slot] # None THEN None ELSE Create(slot, Alive \cup pending)
           engine == IF pool[slot] # None THEN pool[slot] ELSE made
       IN  /\ pool' = [pool EXCEPT ![slot] = engine]
           /\ built' = IF made = None THEN built ELSE [built EXCEPT ![slot] = conf[slot]]
           /\ missing' = (missing \/ engine = None)
           /\ \/ /\ engine # None \/ Len(view) = 1
                 /\ pc' = "idle" /\ UNCHANGED <<index, back>>
              \/ /\ Len(view) > 1
                 /\ index' = (index % Len(view)) + 1
                 /\ pc' = "switch" /\ back' = "idle"
           /\ \E again \in SUBSET ({engine} \ {None}) :
                 /\ Len(view) > 1 => again = {}
                 /\ on' = on \cup again /\ Astray(again)

-------------------------------------------------------------------------------
Core1 ==
    \/ Loop \/ DoReset
    \/ \E i \in Instances : DoNotify(i) \/ DoRecreate(i)
    \/ SwitchToNothing \/ \E new \in Instances \cup {Garbage} : SwitchTo(new)
    \/ EnterNothing \/ EnterSlot \/ DrawSlot

Edit == PostRotation \/ PostSettings \/ \E i \in Instances : PostInstance(i) \/ DeleteInstance(i)

Next ==
    \/ Core1 \/ FallBack \/ DrawAlert \/ EvictAll
    \/ Edit \/ MutateSettings \/ TellInstances \/ QueueAction \/ PublishSnapshot
    \/ Suspend \/ Unsuspend \/ CallHeld
    \/ \E e \in Engines : Destroy(e)

Spec == Init /\ [][Next]_vars

(* Every task runs, alerts end, and so does a deferral of the publication: the     *)
(* rotation is drawn again and again.                                            *)
FairSpec ==
    /\ Spec
    /\ WF_vars(Core1) /\ WF_vars(QueueAction \/ MutateSettings \/ TellInstances)
    /\ WF_vars(PublishSnapshot) /\ WF_vars(CallHeld)
    /\ WF_vars(\E e \in Engines : Destroy(e))

-------------------------------------------------------------------------------
(* DisplayRuntime never keeps a pointer to an engine that was handed over: the     *)
(* release barrier of retireEngineSlot().                                        *)
SessionEngineLives == session # None => session \in Alive

(* One engine at most is activated, the current one, on every path through the     *)
(* queue, the switch, an eviction and a changed list; but for an engine that was   *)
(* called when another was current, by setSuspended() from the other core or by    *)
(* loop() for the only slot of a list whose RESET is still to come, and only until *)
(* it is deactivated or becomes the current one.                                 *)
OneActive == on \ stray \subseteq {Engine(current)} \ {None}

(* When the queue is empty no engine is left of a type that was changed, nor one    *)
(* with settings that were, unless an action about it was dropped by a full queue   *)
(* or handled before the change was published: publishing it queues nothing more. *)
Late(i) == {Notify(i), Recreate(i)} \cap late # {}

RecreatedWhenDrained ==
    queue = <<>> /\ web = <<>> /\ pc = "idle" =>
        \A i \in Instances : pool[i] # None /\ ~Late(i) => built[i] = conf[i]

RecreatedUnlessDropped == ~dropped => RecreatedWhenDrained

(* When the queue is empty what is shown is listed, and no engine is kept for an    *)
(* instance that is not, whichever list each step of loop() read (RotationManager   *)
(* .cpp:142-197, 344-346, 494-504), unless a RESET was dropped by a full queue or   *)
(* handled before its list was published.                                        *)
ListedWhenDrained ==
    ~dropped /\ Reset \notin late /\ queue = <<>> /\ web = <<>> /\ pc = "idle" =>
        /\ \A i \in Instances : pool[i] # None => i \in In(list)
        /\ current # None => current \in In(list)

(* docs/ARCHITECTURE.md promises "zero use-after-free" from the release barrier: an *)
(* engine somebody is about to call has not been destroyed.                      *)
HeldLives == held # None => held \in Alive \cup pending \cup ring

(* Once edits stop, none was dropped, a slot was free all along and no RESET was   *)
(* handled before its list was published, the rotation shows what is listed and no *)
(* engine is kept for an instance that is not.  What is shown is activated, when   *)
(* every listed instance had been configured and no entry was read past the end   *)
(* of the list (an engine made for a slot that was shown without is not activated). *)
SlotFree == Cardinality(Alive \cup pending) < MaxSlots
SlotSound == In(list) \subseteq Configured(conf) /\ (pc = "switch" => index <= Len(list) \/ list = <<>>)

EditTakesEffect ==
    [](~dropped /\ SlotFree) /\ <>[](~suspended /\ Reset \notin late) =>
        /\ <>[](\A i \in Instances : pool[i] # None => i \in In(list))
        /\ []<>(pc = "idle" /\ (list # <<>> => current \in In(list)))
        /\ []SlotSound => <>[](pc = "idle" /\ Engine(current) # None => Engine(current) \in on)
===============================================================================
