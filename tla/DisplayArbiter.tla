----------------------------- MODULE DisplayArbiter -----------------------------
(* The display arbiter and the loop that feeds it.  AppRuntime::update() on      *)
(* Core 1 compares what every engine wants with what it last told the arbiter    *)
(* and sends the difference as a command; the web server sends WEBUI_SYNC        *)
(* requests of its own.  evaluate() drains the commands into eight slots and     *)
(* picks the slot of highest priority.  The queue refuses a command when it is   *)
(* full, and is not drained while the panel is dark.                             *)
EXTENDS Naturals, Sequences, FiniteSets

CONSTANTS
    Engines,        \* sources driven by an engine: VISUALIZER, MARQUEE, MQTT, GIF, ...
    Rotation,       \* DisplaySourceId::ROTATION, the fallback in slot 0
    WebUi,          \* DisplaySourceId::WEBUI_SYNC
    Order,          \* the engines in the order evaluateDisplayRequests() visits them
    Forms,          \* Forms[s]: the requests s can make (its handles and priorities)
    Priority,       \* the DisplayPriority of a form
    Idle,           \* an engine that wants nothing, a slot that is not active
    MaxRequests,    \* MAX_REQUESTS (8)
    QueueCapacity,  \* QUEUE_CAPACITY (16)
    Stalls,         \* of BOOLEAN: whether the loop may leave the queue alone in a
                    \* behaviour (panel off, orientation turning)
    WebBurst,       \* bound: WEBUI_SYNC requests between two drains of the queue
    MaxId           \* bound: request ids a behaviour hands out

Sources == Engines \cup {WebUi}
AllForms == UNION {Forms[s] : s \in Sources \cup {Rotation}}

ASSUME ArbiterAssumption ==
    /\ IsFiniteSet(Engines) /\ Rotation \notin Sources /\ WebUi \notin Engines
    /\ Order \in Seq(Engines) /\ \A s \in Engines : \E k \in DOMAIN Order : Order[k] = s
    /\ \A s \in Sources \cup {Rotation} : Forms[s] # {}
    /\ Idle \notin AllForms /\ Idle \notin Sources
    /\ Idle \notin [source : Sources \cup {Rotation}, form : AllForms, id : Nat]
    /\ Priority \in [AllForms -> Nat]
    /\ \A s \in Sources : \A f \in Forms[s], r \in Forms[Rotation] : Priority[f] > Priority[r]
    /\ MaxRequests \in Nat /\ MaxRequests > Cardinality(Sources)
    /\ QueueCapacity \in Nat /\ WebBurst \in Nat /\ MaxId \in Nat
    /\ Stalls \subseteq BOOLEAN

VARIABLES
    slots,      \* slots[i]: the request of an active slot, Idle for an inactive one
    nextId,     \* _nextRequestId
    queue,      \* _commandQueue
    dropped,    \* _droppedCommands > 0
    wanted,     \* what each engine asks for (isActive(), priority_mode, isPlaying(), ...)
    sync,       \* m_syncVis, m_syncMarquee, ...: what AppRuntime last sent
    panel,      \* displayActive, dark, or turning (isTransitioning())
    requested,  \* WebUiSyncEngine::s_requested
    pc,         \* where update() is
    next,       \* the engine evaluateDisplayRequests() looks at next
    web,        \* WEBUI_SYNC requests since the queue was last drained
    decision,   \* the last DisplayDecision
    mayStall    \* this behaviour has nights and turning panels; it never changes

envVars == <<wanted, panel, mayStall>>
vars == <<slots, nextId, queue, dropped, wanted, sync, panel, requested,
          pc, next, web, decision, mayStall>>

Indices == 0 .. MaxRequests - 1
Requests == [source : Sources \cup {Rotation}, form : AllForms, id : Nat]
Commands == [type : {"SUBMIT"}, source : Sources, form : AllForms, restart : BOOLEAN]
            \cup [type : {"CANCEL"}, source : Sources]

TypeOK ==
    /\ slots \in [Indices -> Requests \cup {Idle}]
    /\ nextId \in Nat \ {0}
    /\ queue \in Seq(Commands) /\ Len(queue) <= QueueCapacity
    /\ dropped \in BOOLEAN
    /\ wanted \in [Engines -> AllForms \cup {Idle}]
    /\ sync \in [Engines -> AllForms \cup {Idle}]
    /\ panel \in {"lit", "dark", "turning"}
    /\ requested \in BOOLEAN
    /\ pc \in {"produce", "gate", "drain"}
    /\ next \in 1 .. Len(Order) + 1
    /\ web \in 0 .. WebBurst
    /\ decision \in Requests /\ mayStall \in Stalls

Fallback == [source |-> Rotation, form |-> CHOOSE f \in Forms[Rotation] : TRUE, id |-> 1]

(* The constructor has put the rotation into slot 0.                             *)
Init ==
    /\ slots = [i \in Indices |-> IF i = 0 THEN Fallback ELSE Idle]
    /\ nextId = 2
    /\ queue = <<>>
    /\ dropped = FALSE
    /\ wanted = [s \in Engines |-> Idle]
    /\ sync = [s \in Engines |-> Idle]
    /\ panel = "lit"
    /\ requested = FALSE
    /\ pc = "produce"
    /\ next = 1
    /\ web = 0
    /\ decision = Fallback
    /\ mayStall \in Stalls

-------------------------------------------------------------------------------
(* The engines change what they want, the user and the clock switch the panel.   *)

Want(s) ==
    /\ nextId + Len(queue) < MaxId
    /\ \E f \in Forms[s] \cup {Idle} : f # wanted[s] /\ wanted' = [wanted EXCEPT ![s] = f]
    /\ UNCHANGED <<slots, nextId, queue, dropped, sync, panel, requested, pc, next, web, decision, mayStall>>

Stall ==
    /\ mayStall /\ panel = "lit"
    /\ panel' \in {"dark", "turning"}
    /\ UNCHANGED <<slots, nextId, queue, dropped, wanted, sync, requested, pc, next, web, decision, mayStall>>

LightUp ==
    /\ panel # "lit"
    /\ panel' = "lit"
    /\ UNCHANGED <<slots, nextId, queue, dropped, wanted, sync, requested, pc, next, web, decision, mayStall>>

-------------------------------------------------------------------------------
(* submitRequest() and cancelRequest(): the mutex makes the producers one, a     *)
(* command the ring has no room for is counted and forgotten.                    *)
Push(command) ==
    IF Len(queue) < QueueCapacity
    THEN queue' = Append(queue, command) /\ UNCHANGED dropped
    ELSE dropped' = TRUE /\ UNCHANGED queue

Submit(s, f, restart) ==
    Push([type |-> "SUBMIT", source |-> s, form |-> f, restart |-> restart])

Cancel(s) == Push([type |-> "CANCEL", source |-> s])

(* AppRuntime::requestWebUiSyncWindow(), called by the web server: a window that *)
(* is long enough already is not extended, the request flag is set all the same. *)
RequestWebUiSyncWindow ==
    /\ web < WebBurst
    /\ nextId + Len(queue) < MaxId
    /\ \/ \E f \in Forms[WebUi] : Submit(WebUi, f, TRUE)
       \/ (requested \/ decision.source = WebUi) /\ UNCHANGED <<queue, dropped>>
    /\ requested' = TRUE
    /\ web' = web + 1
    /\ UNCHANGED <<slots, nextId, envVars, sync, pc, next, decision>>

(* evaluateDisplayRequests(), one engine: the command is an edge, sent once.     *)
EvaluateLevel ==            \* mutant: a change of form is not sent
    /\ pc = "produce" /\ next <= Len(Order)
    /\ LET s == Order[next] IN
         \/ /\ wanted[s] # Idle /\ sync[s] = Idle
            /\ Submit(s, wanted[s], FALSE)
            /\ sync' = [sync EXCEPT ![s] = wanted[s]]
         \/ /\ wanted[s] = Idle /\ sync[s] # Idle
            /\ Cancel(s)
            /\ sync' = [sync EXCEPT ![s] = Idle]
         \/ /\ wanted[s] = sync[s] \/ (wanted[s] # Idle /\ sync[s] # Idle)
            /\ UNCHANGED <<queue, dropped, sync>>
    /\ next' = next + 1
    /\ UNCHANGED <<slots, nextId, envVars, requested, pc, web, decision>>

EvaluateDisplayRequest ==
    /\ pc = "produce" /\ next <= Len(Order)
    /\ LET s == Order[next] IN
         \/ /\ wanted[s] # Idle /\ wanted[s] # sync[s]
            /\ Submit(s, wanted[s], FALSE)
            /\ sync' = [sync EXCEPT ![s] = wanted[s]]
         \/ /\ wanted[s] = Idle /\ sync[s] # Idle
            /\ Cancel(s)
            /\ sync' = [sync EXCEPT ![s] = Idle]
         \/ /\ wanted[s] = sync[s]
            /\ UNCHANGED <<queue, dropped, sync>>
    /\ next' = next + 1
    /\ UNCHANGED <<slots, nextId, envVars, requested, pc, web, decision>>

EvaluateDone ==
    /\ pc = "produce" /\ next > Len(Order)
    /\ pc' = "gate"
    /\ UNCHANGED <<slots, nextId, queue, dropped, envVars, sync, requested, next, web, decision>>

-------------------------------------------------------------------------------
(* update(): while the orientation turns, and while the panel is dark, the        *)
(* iteration ends before the queue is looked at; a WEBUI_SYNC request or session  *)
(* is the exception to the second.                                               *)
ReachesQueue ==
    \/ panel = "lit"
    \/ panel = "dark" /\ (requested \/ decision.source = WebUi)

Gate ==
    /\ pc = "gate"
    /\ \/ ReachesQueue /\ pc' = "drain" /\ next' = next
       \/ ~ReachesQueue /\ pc' = "produce" /\ next' = 1
    /\ UNCHANGED <<slots, nextId, queue, dropped, envVars, sync, requested, web, decision>>

Active(i) == slots[i] # Idle
SlotsOf(s) == {i \in Indices : Active(i) /\ slots[i].source = s}
HasActiveSource(s) == SlotsOf(s) # {}
FreeSlots == {i \in Indices \ {0} : ~Active(i)}
Least(S) == CHOOSE i \in S : \A j \in S : i <= j

(* applySubmit(): the slot of the source keeps its request id unless the timer   *)
(* is restarted; a source without a slot takes the first free one, if any.       *)
ApplySubmitFresh(c) ==      \* mutant: the slot the source already has is not looked for
    IF FreeSlots # {}
    THEN /\ slots' = [slots EXCEPT ![Least(FreeSlots)] =
                        [source |-> c.source, form |-> c.form, id |-> nextId]]
         /\ nextId' = nextId + 1
    ELSE UNCHANGED <<slots, nextId>>

ApplySubmit(c) ==
    \/ /\ HasActiveSource(c.source)
       /\ LET i == Least(SlotsOf(c.source)) IN
            slots' = [slots EXCEPT ![i] = [source |-> c.source, form |-> c.form,
                                           id |-> IF c.restart THEN nextId ELSE @.id]]
       /\ nextId' = IF c.restart THEN nextId + 1 ELSE nextId
    \/ /\ ~HasActiveSource(c.source) /\ FreeSlots # {}
       /\ slots' = [slots EXCEPT ![Least(FreeSlots)] =
                      [source |-> c.source, form |-> c.form, id |-> nextId]]
       /\ nextId' = nextId + 1
    \/ /\ ~HasActiveSource(c.source) /\ FreeSlots = {}
       /\ UNCHANGED <<slots, nextId>>

ApplyCancel(c) ==
    /\ slots' = [i \in Indices |-> IF i # 0 /\ i \in SlotsOf(c.source) THEN Idle ELSE slots[i]]
    /\ UNCHANGED nextId

DrainNewest ==              \* mutant: the latest command is applied first
    /\ pc = "drain" /\ queue # <<>>
    /\ LET c == queue[Len(queue)] IN
         IF c.type = "SUBMIT" THEN ApplySubmit(c) ELSE ApplyCancel(c)
    /\ queue' = SubSeq(queue, 1, Len(queue) - 1)
    /\ UNCHANGED <<dropped, envVars, sync, requested, pc, next, web, decision>>

Drain ==
    /\ pc = "drain" /\ queue # <<>>
    /\ LET c == Head(queue) IN
         IF c.type = "SUBMIT" THEN ApplySubmit(c) ELSE ApplyCancel(c)
    /\ queue' = Tail(queue)
    /\ UNCHANGED <<dropped, envVars, sync, requested, pc, next, web, decision>>

(* The slot of highest priority, the first one of equals.                        *)
Best(table) ==
    CHOOSE i \in DOMAIN table : table[i] # Idle /\
        \A j \in DOMAIN table \ {i} : table[j] # Idle =>
            \/ Priority[table[i].form] > Priority[table[j].form]
            \/ Priority[table[i].form] = Priority[table[j].form] /\ i < j

(* clearExpired() and the choice of evaluate(); the session that ends with it    *)
(* calls WebUiSyncEngine::deactivate(), which takes the request flag back.       *)
Decide ==
    /\ pc = "drain" /\ queue = <<>>
    /\ \E expired \in SUBSET SlotsOf(WebUi) :
         LET kept == [i \in Indices |-> IF i \in expired THEN Idle ELSE slots[i]] IN
           slots' = kept /\ decision' = kept[Best(kept)]
    /\ requested' = (requested /\ ~(decision.source = WebUi /\ decision'.source # WebUi))
    /\ pc' = "produce"
    /\ next' = 1
    /\ web' = 0
    /\ UNCHANGED <<nextId, queue, dropped, envVars, sync>>

-------------------------------------------------------------------------------
Update == EvaluateDisplayRequest \/ EvaluateDone \/ Gate \/ Drain \/ Decide

Next ==
    \/ Update
    \/ \E s \in Engines : Want(s)
    \/ Stall \/ LightUp
    \/ RequestWebUiSyncWindow

Spec == Init /\ [][Next]_vars

(* loop() calls update() for ever; nights end.                                   *)
FairSpec == Spec /\ WF_vars(Update) /\ WF_vars(LightUp)

-------------------------------------------------------------------------------
(* With the ring drained, the active requests of the engines are those that were *)
(* submitted and not cancelled since: UNTIL_CANCELLED means what it says.        *)
ActiveUntilCancelled ==
    queue = <<>> =>
        \A s \in Engines : {slots[i].form : i \in SlotsOf(s)} = {sync[s]} \ {Idle}

(* It does so unless a loop that stalls dropped a command: the commands of one     *)
(* iteration fit into the ring, and those that wait in it are applied in order.    *)
AgreesUnlessDropped == (mayStall /\ dropped) \/ ActiveUntilCancelled

(* A source finds a slot whenever it needs one: seven free slots are enough for  *)
(* the seven sources only because none ever occupies two.                        *)
RoomForEverySource == \A s \in Sources : HasActiveSource(s) \/ FreeSlots # {}

(* Active requests have different ids, which transitionSession() relies on when  *)
(* it looks for the parent to resume.                                            *)
DistinctIds ==
    \A i, j \in Indices : Active(i) /\ Active(j) /\ i # j => slots[i].id # slots[j].id

(* What an engine goes on asking for is shown, or something at least as urgent,   *)
(* once the panel stays lit, if no command was dropped.                          *)
StandingRequestShown ==
    [](~dropped) /\ <>[](panel = "lit") =>
        \A s \in Engines : \A f \in Forms[s] :
            <>[](wanted[s] = f) => <>[](Priority[decision.form] >= Priority[f])
=============================================================================
