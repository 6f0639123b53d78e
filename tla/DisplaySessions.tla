----------------------------- MODULE DisplaySessions -----------------------------
(* DisplayRuntime on Core 1: one session, the sessions it preempted in a stack of  *)
(* four, and the calls activate(), pause(), resume() and deactivate() it makes on  *)
(* the engines.  Every frame, update() takes the arbiter's decision and moves the  *)
(* session towards it (REFRESH, RESUME, PREEMPT or REPLACE), or refuses to;        *)
(* render() draws the engine of the decision whether the session followed or not.  *)
(* The engine behind ROTATION belongs to RotationManager and changes in render().  *)
EXTENDS Naturals, Sequences, FiniteSets

CONSTANTS
    Rotation,       \* DisplaySourceId::ROTATION
    Alerts,         \* the sources of preemptive requests: GIF, MARQUEE, MQTT, ...
    WebUi,          \* DisplaySourceId::WEBUI_SYNC, the source of non-preemptive ones
    Priority,       \* the DisplayPriority of a source
    Screens,        \* the engine instances of the rotation
    Alias,          \* Alias[s]: the screen whose instance id is the one in the handle
                    \* of s, None when the rotation has no such instance
    None,           \* no engine
    Psram,          \* hardwareHAL.capabilities().hasPsram
    MaxDepth        \* MAX_PREEMPTION_DEPTH (4)

Sources == Alerts \cup {WebUi}
AllEngines == Sources \cup Screens     \* a source names the engine registered for it

ASSUME SessionsAssumption ==
    /\ Rotation \notin Sources /\ WebUi \notin Alerts
    /\ Sources \cap Screens = {} /\ None \notin AllEngines
    /\ Priority \in [Sources -> Nat] /\ \A s \in Alerts : Priority[WebUi] > Priority[s]
    /\ Alias \in [Sources -> Screens \cup {None}]
    /\ MaxDepth \in Nat \ {0} /\ Psram \in BOOLEAN

VARIABLES
    requested,  \* the sources with an active request in the arbiter
    decision,   \* the source of the last DisplayDecision
    session,    \* m_session: its source, its activeEngine and whether its requestId
                \* is still the one of the source's request
    stack,      \* m_preemptionStack[0 .. m_preemptionDepth - 1], oldest first
    screen,     \* RotationManager::currentActiveInstanceId
    loaded,     \* the instances RotationManager has in activeEngines
    suspended,  \* RotationManager::suspended
    listed,     \* the rotation list has an entry that can be shown
    life,       \* what the last lifecycle call left each engine in
    pc          \* the next half of the frame

rotation == <<suspended, listed>>
sessionVars == <<requested, decision, session, stack, screen, loaded, suspended,
          listed, life, pc>>

AllSources == Sources \cup {Rotation}
Entries == [source : AllSources, fresh : BOOLEAN]

SessionTypeOK ==
    /\ requested \subseteq Sources
    /\ decision \in AllSources
    /\ session \in [source : AllSources, fresh : BOOLEAN, engine : AllEngines \cup {None}]
    /\ stack \in Seq(Entries) /\ Len(stack) <= MaxDepth
    /\ loaded \subseteq Screens /\ screen \in Screens \cup {None}
    /\ suspended \in BOOLEAN /\ listed \in BOOLEAN
    /\ life \in [AllEngines -> {"off", "on", "paused"}]
    /\ pc \in {"update", "render"}

SessionInit ==
    /\ requested = {}
    /\ decision = Rotation
    /\ session = [source |-> Rotation, fresh |-> TRUE, engine |-> None]
    /\ stack = <<>>
    /\ screen = None /\ loaded = {} /\ suspended = FALSE /\ listed = TRUE
    /\ life = [e \in AllEngines |-> "off"]
    /\ pc = "update"

-------------------------------------------------------------------------------
(* evaluate() applies the commands that came in since the last frame: a source   *)
(* asks, or withdraws its request; the id it gets the next time is another one.  *)

Ask(s) ==
    /\ pc = "update" /\ s \notin requested
    /\ requested' = requested \cup {s}
    /\ UNCHANGED <<decision, session, stack, screen, loaded, rotation, life, pc>>

OutdateNothing(entry, s) == entry \* mutant: the source alone is compared
Outdate(entry, s) == [entry EXCEPT !.fresh = @ /\ entry.source # s]

Withdraw(s) ==
    /\ pc = "update" /\ s \in requested
    /\ requested' = requested \ {s}
    /\ session' = Outdate(session, s)
    /\ stack' = [i \in DOMAIN stack |-> Outdate(stack[i], s)]
    /\ UNCHANGED <<decision, screen, loaded, rotation, life, pc>>

(* RotationManager::setSuspended(), called by the web server at any time.        *)
Suspend ==
    /\ ~suspended /\ suspended' = TRUE
    /\ life' = IF screen = None THEN life ELSE [life EXCEPT ![screen] = "off"]
    /\ UNCHANGED <<requested, decision, session, stack, screen, loaded, listed, pc>>

Unsuspend ==
    /\ suspended /\ suspended' = FALSE
    /\ life' = IF screen = None THEN life ELSE [life EXCEPT ![screen] = "on"]
    /\ UNCHANGED <<requested, decision, session, stack, screen, loaded, listed, pc>>

(* The user empties the rotation list, or fills it again.                        *)
EditRotation ==
    /\ listed' = ~listed
    /\ UNCHANGED <<requested, decision, session, stack, screen, loaded, suspended, life, pc>>

-------------------------------------------------------------------------------
(* resolveEngine(): an instance of the rotation with the handle's instance id    *)
(* comes first, then the rotation's own engine, then the registered ones.        *)
Resolve(s) ==
    IF s = Rotation THEN screen
    ELSE IF Alias[s] \in loaded THEN Alias[s] ELSE s

Call(l, engines, to) == [e \in AllEngines |-> IF e \in engines THEN to ELSE l[e]]

(* evaluate(): the request of highest priority, the rotation when there is none. *)
Dominant ==
    IF requested = {} THEN {Rotation}
    ELSE {s \in requested : \A t \in requested : Priority[t] <= Priority[s]}

Same(d) ==
    /\ d = session.source /\ Resolve(d) = session.engine

(* CASE 1                                                                        *)
Refresh(d) ==
    /\ Same(d)
    /\ session' = [session EXCEPT !.fresh = TRUE]
    /\ UNCHANGED <<stack, screen, loaded, life>>

(* CASE 2: the topmost entry that is the decision's own request, or ROTATION.    *)
Parents(d) == {i \in DOMAIN stack : stack[i].source = d /\ (d = Rotation \/ stack[i].fresh)}
Top(S) == CHOOSE i \in S : \A j \in S : j <= i

ResumeEarly(d) == \* mutant: resumes first, and the clean-up reaches the parent
    /\ ~Same(d) /\ Parents(d) # {} /\ Resolve(d) # None
    /\ LET parent == Top(Parents(d))
           expired == {Resolve(stack[i].source) : i \in parent .. Len(stack)}
       IN  /\ life' = Call(Call(life, {Resolve(d)}, "on"), {session.engine} \cup expired, "off")
           /\ stack' = SubSeq(stack, 1, parent - 1)
           /\ session' = [source |-> d, fresh |-> stack[parent].fresh, engine |-> Resolve(d)]
    /\ UNCHANGED <<screen, loaded>>

ResumeParent(d) ==
    /\ ~Same(d) /\ Parents(d) # {} /\ Resolve(d) # None
    /\ LET parent == Top(Parents(d))
           expired == {Resolve(stack[i].source) : i \in parent + 1 .. Len(stack)}
       IN  /\ life' = Call(Call(life, {session.engine} \cup expired, "off"), {Resolve(d)}, "on")
           /\ stack' = SubSeq(stack, 1, parent - 1)
           /\ session' = [source |-> d, fresh |-> stack[parent].fresh, engine |-> Resolve(d)]
    /\ UNCHANGED <<screen, loaded>>

RejectResume(d) ==
    /\ ~Same(d) /\ Parents(d) # {} /\ Resolve(d) = None
    /\ UNCHANGED <<session, stack, screen, loaded, life>>

(* CASE 3                                                                        *)
Preempts(d) ==
    /\ ~Same(d) /\ Parents(d) = {}
    /\ d \in Alerts /\ d # session.source
    /\ session.source = Rotation \/ session.source \in requested

Preempt(d) ==
    /\ Preempts(d) /\ Len(stack) < MaxDepth
    /\ stack' = Append(stack, [source |-> session.source, fresh |-> session.fresh])
    /\ session' = [source |-> d, fresh |-> TRUE, engine |-> Resolve(d)]
    /\ life' = IF Resolve(d) = session.engine THEN life
               ELSE Call(Call(life, {session.engine}, "paused"), {Resolve(d)}, "on")
    /\ UNCHANGED <<screen, loaded>>

RejectPreempt(d) ==
    /\ Preempts(d) /\ Len(stack) = MaxDepth
    /\ UNCHANGED <<session, stack, screen, loaded, life>>

(* CASE 4: a decision that is not preemptive empties the stack; without PSRAM,    *)
(* WEBUI_SYNC also has the rotation give up every engine it holds.               *)
Replace(d) ==
    /\ ~Same(d) /\ Parents(d) = {} /\ ~Preempts(d)
    /\ LET target == Resolve(d)
           within == d = Rotation /\ session.source = Rotation
           orphans == IF d \in Alerts THEN {}
                      ELSE {Resolve(stack[i].source) : i \in DOMAIN stack}
           evicted == IF d = WebUi /\ ~Psram THEN loaded ELSE {}
           stopped == (IF within THEN {} ELSE {session.engine}) \cup orphans
           left == Call(life, (stopped \ {target}) \cup evicted, "off")
       IN  /\ life' = IF within \/ target = session.engine THEN left
                      ELSE Call(left, {target}, "on")
           /\ stack' = IF d \in Alerts THEN stack ELSE <<>>
           /\ loaded' = loaded \ evicted
           /\ screen' = IF d = WebUi /\ ~Psram THEN None ELSE screen
           /\ session' = [source |-> d, fresh |-> TRUE, engine |-> target]

Transition(d) ==
    \/ Refresh(d) \/ ResumeParent(d) \/ RejectResume(d)
    \/ Preempt(d) \/ RejectPreempt(d) \/ Replace(d)

Update ==
    /\ pc = "update" /\ pc' = "render"
    /\ \E d \in Dominant : decision' = d /\ Transition(d)
    /\ UNCHANGED <<requested, rotation>>

-------------------------------------------------------------------------------
(* render(): the rotation runs only when it is shown.                            *)
Drawn == IF decision = Rotation THEN screen ELSE Resolve(decision)

RenderAlert ==
    /\ pc = "render" /\ decision # Rotation
    /\ pc' = "update"
    /\ UNCHANGED <<requested, decision, session, stack, screen, loaded, rotation, life>>

(* RotationManager::loop() with nothing to show.                                 *)
RotateToNothing ==
    /\ pc = "render" /\ decision = Rotation /\ (suspended \/ ~listed)
    /\ pc' = "update"
    /\ life' = Call(life, {screen}, "off")
    /\ screen' = None
    /\ UNCHANGED <<requested, decision, session, stack, loaded, rotation>>

RotateInSession(next) == \* mutant: loop() runs only in a session of its own
    /\ pc = "render" /\ decision = Rotation /\ ~suspended /\ listed
    /\ pc' = "update"
    /\ IF session.source # Rotation THEN UNCHANGED <<screen, loaded, life>>
       ELSE /\ screen' = next /\ loaded' = loaded \cup {next}
            /\ life' = IF next = screen THEN life
                       ELSE Call(Call(life, {screen}, "off"), {next}, "on")
    /\ UNCHANGED <<requested, decision, session, stack, rotation>>

(* The slot stays, or the rotation goes on to another one, or restarts.          *)
Rotate(next) ==
    /\ pc = "render" /\ decision = Rotation /\ ~suspended /\ listed
    /\ pc' = "update"
    /\ screen' = next /\ loaded' = loaded \cup {next}
    /\ life' = IF next = screen THEN life ELSE Call(Call(life, {screen}, "off"), {next}, "on")
    /\ UNCHANGED <<requested, decision, session, stack, rotation>>

(* An instance is recreated or leaves the rotation: retireEngineSlot() and        *)
(* purgeEngineReferences().  A ROTATION entry stays: the current instance has been   *)
(* cleared by then, and resolves to nothing.                                     *)
Named(source, instance) == source # Rotation /\ Alias[source] = instance

Purge(gone) ==
    /\ session' = IF session.engine = gone \/ Named(session.source, gone)
                  THEN [session EXCEPT !.engine = None] ELSE session
    /\ LET others == {i \in DOMAIN stack : ~Named(stack[i].source, gone)}
       IN  \E kept \in [1 .. Cardinality(others) -> others] :
             /\ \A m, n \in DOMAIN kept : m < n => kept[m] < kept[n]
             /\ stack' = [k \in DOMAIN kept |-> stack[kept[k]]]

RetireInstance(gone) ==
    /\ pc = "render" /\ decision = Rotation /\ gone \in loaded
    /\ loaded' = loaded \ {gone}
    /\ screen' = IF screen = gone THEN None ELSE screen
    /\ life' = Call(life, {gone}, "off")
    /\ Purge(gone)
    /\ UNCHANGED <<requested, decision, rotation, pc>>

Render == RenderAlert \/ RotateToNothing \/ \E s \in Screens : Rotate(s) \/ RetireInstance(s)

SessionNext ==
    \/ Update \/ Render
    \/ \E s \in Sources : Ask(s) \/ Withdraw(s)
    \/ Suspend \/ Unsuspend \/ EditRotation

SessionSpec == SessionInit /\ [][SessionNext]_sessionVars

(* loop() calls update() and render() for ever.                                  *)
Frame == Update \/ RenderAlert \/ RotateToNothing \/ \E s \in Screens : Rotate(s)
FairSessionSpec == SessionSpec /\ WF_sessionVars(Frame)

-------------------------------------------------------------------------------
Own(s) == s \in Sources /\ Alias[s] = None

(* The engine of an alert is activated when it is drawn, if the session followed  *)
(* the decision: no path through REFRESH, RESUME, PREEMPT and REPLACE leads back  *)
(* to an engine that was paused or deactivated on another.                       *)
DrawnIsActivated ==
    pc = "render" /\ session.source = decision /\ Own(decision) => life[decision] = "on"

(* The wanted ones lie in the stack once each, the more urgent ones above: the    *)
(* search from the top finds the session that is due.                            *)
ParentsInOrder ==
    \A i, j \in DOMAIN stack :
        /\ i < j /\ stack[i].fresh /\ stack[j].fresh
        /\ stack[i].source # Rotation /\ stack[j].source # Rotation
        => /\ stack[i].source # stack[j].source
           /\ Priority[stack[i].source] <= Priority[stack[j].source]

(* docs/ARCHITECTURE.md says of a preempted session that ends that it is          *)
(* discarded from the stack; with at most MaxDepth sources there is room for      *)
(* every preemption, then.                                                       *)
PreemptionFollowed == pc = "render" /\ decision \in Alerts => session.source = decision

(* When the alerts are over the rotation is shown again, and shows something.      *)
RotationReturns ==
    <>[](requested = {} /\ ~suspended /\ listed)
        => <>[](session.source = Rotation) /\ []<>(screen # None)
=============================================================================
