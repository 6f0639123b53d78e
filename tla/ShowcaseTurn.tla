----------------------------- MODULE ShowcaseTurn ------------------------------
(* One turn of a Media Showcase engine (src/engines/MediaShowcaseEngines.cpp).     *)
(* Core 1 activates the engine, asks every tick whether the turn is over, applies  *)
(* configuration changes and deactivates it; a worker task on Core 0 looks for an  *)
(* item on the server, shows it and decides when the turn is done.  The two share  *)
(* only flags, and Core 1 waits for the worker at most 1.5 s before it goes on.    *)
EXTENDS Naturals, FiniteSets

CONSTANTS Workers,   \* identities for worker tasks; two tell whether two ever run
          Budget,    \* items of one turn on a playlist of several slots
          MaxEdits,  \* bound on configuration changes
          Faults     \* what may happen besides: a worker outlasts a wait ("late"), a task
                     \* or a buffer is refused ("spawn", "heap"), the playlist is edited ("slots")

ASSUME BudgetAssumption == Budget \in Nat \ {0} /\ MaxEdits \in Nat
ASSUME FaultsAssumption == Faults \subseteq {"late", "spawn", "heap", "slots"}

VARIABLES
    attached,   \* Core 1's view: "off", "on", "retiring", "dead"
    core1,      \* what Core 1 is in the middle of: "idle", "allocating", "stopping"
    purpose,    \* why it stops the worker: "deactivate", "config", "destroy"
    want,       \* m_wantActive
    alive,      \* m_taskAlive
    ready,      \* m_buffersReady
    cfg,        \* m_cfg: "ok", "off" (not enabled), "badurl"
    multi,      \* m_rotationSlotCount > 1
    turn,       \* the flags of the turn
    played,     \* m_itemsPlayedInTurn, counted up to Budget
    live,       \* m_liveCard.hasData
    scratch,    \* m_ioScratch is allocated
    poster,     \* m_poster565 is allocated
    worker,     \* the worker tasks
    spawned,    \* the last xTaskCreate of activate() succeeded
    late,       \* the last deactivation did not outlast the worker
    revived,    \* a new turn found the worker of an earlier one alive
    several,    \* the playlist has had several slots since the turn began
    edits       \* configuration changes so far

core1vars == <<attached, core1, purpose, spawned, late>>
buffers   == <<scratch, poster, ready>>
setup     == <<cfg, multi, edits>>
vars == <<core1vars, want, alive, buffers, setup, turn, played, live, worker, revived, several>>

Fresh == [evaluated |-> FALSE, readyState |-> FALSE, hasReady |-> FALSE,
          skip |-> FALSE, done |-> FALSE]
Asleep == [pc |-> "none", follow |-> FALSE, stale |-> FALSE, solo |-> FALSE,
           held |-> "none", out |-> "none"]
Outcomes == {"none", "aborted", "ready", "warming", "offline", "unreachable"}
UsesScratch == {"mqtt", "http", "play"}

TypeOK ==
    /\ attached \in {"off", "on", "retiring", "dead"}
    /\ core1 \in {"idle", "allocating", "stopping"}
    /\ purpose \in {"deactivate", "config", "destroy"}
    /\ {want, alive, ready, multi, live, scratch, poster, spawned, late, revived, several}
          \subseteq BOOLEAN
    /\ cfg \in {"ok", "off", "badurl"}
    /\ turn \in [evaluated: BOOLEAN, readyState: BOOLEAN, hasReady: BOOLEAN, skip: BOOLEAN,
                 done: BOOLEAN]
    /\ played \in 0..Budget
    /\ edits \in 0..MaxEdits
    /\ worker \in [Workers -> [pc: {"none", "wait", "top", "after", "publish", "played",
                                    "hold", "leaving"} \cup UsesScratch,
                               follow: BOOLEAN, stale: BOOLEAN, solo: BOOLEAN,
                               held: {"none", "live", "freed"}, out: Outcomes]]

Init ==
    /\ attached = "off" /\ core1 = "idle" /\ purpose = "deactivate"
    /\ want = FALSE /\ alive = FALSE /\ ready = FALSE
    /\ cfg \in {"ok", "off", "badurl"} /\ multi \in BOOLEAN
    /\ turn = Fresh /\ played = 0 /\ live = FALSE
    /\ scratch = FALSE /\ poster = FALSE
    /\ worker = [w \in Workers |-> Asleep]
    /\ spawned = TRUE /\ late = FALSE /\ revived = FALSE /\ several = FALSE /\ edits = 0

--------------------------------------------------------------------------------
(* isFinished(), without its timeout of at least 45 s per item: nothing below may  *)
(* rely on that one.                                                               *)
Finished == turn.skip \/ turn.done \/ (cfg = "off" /\ multi)

(* The turn has nothing to show: on a playlist of several slots it is given up.    *)
GivenUp(t, slots) ==
    [t EXCEPT !.evaluated = TRUE, !.readyState = TRUE,
              !.skip = @ \/ slots, !.done = @ \/ slots]

Running == {w \in Workers : worker[w].pc # "none"}

(* What freeing m_ioScratch does to a task that is using it.                       *)
Pulled(ws) == [w \in Workers |->
    [ws[w] EXCEPT !.held = IF @ = "live" THEN "freed" ELSE @]]

(* startWorkerTask() for a turn with the flags t, over the tasks ws: nothing when   *)
(* the engine is not enabled, and no new task while one is alive.                  *)
Spawn(t, ws, ok) ==
    /\ want' = TRUE /\ turn' = t /\ alive' = ok /\ revived' = FALSE
    /\ \E w \in Workers :
          /\ ws[w].pc = "none"
          /\ worker' = IF ok THEN [ws EXCEPT ![w] = [Asleep EXCEPT !.pc = "wait"]] ELSE ws
Disabled(t, ws) ==
    /\ turn' = GivenUp(t, multi) /\ worker' = ws /\ revived' = (revived \/ alive)
    /\ UNCHANGED <<want, alive>>
StartAlways(t, ws, ok) ==                                          \* mutant
    IF cfg' = "off" THEN Disabled(t, ws) ELSE Spawn(t, ws, ok)
StartWorkerTask(t, ws, ok) ==
    \/ cfg' = "off" /\ Disabled(t, ws)
    \/ /\ cfg' # "off" /\ alive
       /\ want' = TRUE /\ turn' = t /\ revived' = TRUE /\ worker' = ws
       /\ UNCHANGED alive
    \/ cfg' # "off" /\ ~alive /\ Spawn(t, ws, ok)

SpawnOutcomes == IF "spawn" \in Faults THEN BOOLEAN ELSE {TRUE}
HeapOutcomes == IF "heap" \in Faults THEN BOOLEAN ELSE {TRUE}

--------------------------------------------------------------------------------
(* Core 1. *)

(* activate(): called when the engine comes on, and again without a deactivation   *)
(* when a solo slot, or the same instance twice in a row, has finished its turn.   *)
(* The worker is started before the buffers it will use are allocated.             *)
Activate ==
    /\ core1 = "idle"
    /\ \/ attached = "off"
       \/ attached = "on" /\ Finished
    /\ attached' = "on" /\ core1' = "allocating"
    /\ played' = 0 /\ live' = FALSE /\ ready' = FALSE /\ several' = multi
    /\ UNCHANGED <<cfg, multi, edits, scratch, poster, purpose, late>>
    /\ \E ok \in SpawnOutcomes :
          StartWorkerTask(Fresh, worker, ok) /\ spawned' = (ok \/ alive \/ cfg = "off")

(* The second half of activate(): allocateBuffers(), which frees first, when a     *)
(* buffer is missing; then the worker may start.  A worker that could not be       *)
(* spawned gives the turn up.                                                      *)
Allocate ==
    /\ core1 = "allocating"
    /\ IF poster /\ scratch
       THEN UNCHANGED <<poster, scratch, worker>>
       ELSE /\ poster' \in HeapOutcomes /\ scratch' \in HeapOutcomes
            /\ worker' = Pulled(worker)
    /\ ready' = TRUE /\ core1' = "idle"
    /\ turn' = IF spawned THEN turn ELSE GivenUp(turn, multi)
    /\ UNCHANGED <<attached, purpose, spawned, late, want, alive, cfg, multi, edits,
                   played, live, revived, several>>

(* deactivate() (also pause()) up to its wait for the worker.                      *)
Deactivate ==
    /\ attached = "on" /\ core1 = "idle"
    /\ want' = FALSE /\ core1' = "stopping" /\ purpose' = "deactivate"
    /\ UNCHANGED <<attached, spawned, late, alive, buffers, setup, turn, played, live,
                   worker, revived, several>>

(* shutdownForDestruction(), by the Core 0 dispatcher, of an engine that was handed *)
(* to it; tried again until it succeeds.                                           *)
Shutdown ==
    /\ attached \in {"off", "retiring"} /\ core1 = "idle"
    /\ attached' = "retiring" /\ want' = FALSE
    /\ core1' = "stopping" /\ purpose' = "destroy"
    /\ UNCHANGED <<spawned, late, alive, buffers, setup, turn, played, live, worker, revived,
                   several>>

(* onConfigChanged(): a wanted worker is stopped first.  An engine whose worker is *)
(* not wanted takes the new configuration and starts nothing.                      *)
EditWanted ==
    /\ want /\ core1 = "idle" /\ edits < MaxEdits
    /\ want' = FALSE /\ core1' = "stopping" /\ purpose' = "config" /\ edits' = edits + 1
    /\ UNCHANGED <<attached, spawned, late, alive, buffers, cfg, multi, turn, played, live,
                   worker, revived, several>>
Outdated == [w \in Workers |-> [worker[w] EXCEPT !.stale = @ \/ w \in Running]]
EditUnwanted ==
    /\ ~want /\ core1 = "idle" /\ edits < MaxEdits /\ attached \in {"off", "on"}
    /\ cfg' \in {"ok", "off", "badurl"} /\ edits' = edits + 1
    /\ worker' = Outdated
    /\ UNCHANGED <<core1vars, want, alive, buffers, multi, turn, played, live, revived,
                   several>>

(* The rotation list grows or shrinks to one slot.                                 *)
EditRotation ==
    /\ "slots" \in Faults /\ edits < MaxEdits /\ edits' = edits + 1 /\ multi' = ~multi
    /\ several' = (several /\ multi')
    /\ UNCHANGED <<core1vars, want, alive, buffers, cfg, turn, played, live, worker, revived>>

(* stopWorkerTaskBounded() returns: the worker is gone, or 1.5 s have passed.      *)
WaitOver == core1 = "stopping" /\ (~alive \/ "late" \in Faults)

Free ==
    /\ scratch' = FALSE /\ poster' = FALSE /\ worker' = Pulled(worker)
FreeAnyway == Free                                                 \* mutant
NeverFree == UNCHANGED <<scratch, poster, worker>>                 \* mutant
FreeIfGone ==
    IF alive THEN UNCHANGED <<scratch, poster, worker>> ELSE Free

Deactivated ==
    /\ WaitOver /\ purpose = "deactivate"
    /\ attached' = "off" /\ core1' = "idle" /\ late' = alive
    /\ ready' = FALSE /\ live' = FALSE /\ FreeIfGone
    /\ turn' = [turn EXCEPT !.hasReady = FALSE, !.evaluated = FALSE, !.readyState = FALSE]
    /\ UNCHANGED <<purpose, spawned, want, alive, setup, played, revived, several>>

Destroyed ==
    /\ WaitOver /\ purpose = "destroy"
    /\ attached' = IF alive THEN "retiring" ELSE "dead"
    /\ core1' = "idle" /\ ready' = FALSE /\ live' = FALSE /\ FreeIfGone
    /\ turn' = [turn EXCEPT !.hasReady = FALSE]
    /\ UNCHANGED <<purpose, spawned, late, want, alive, setup, played, revived, several>>

(* The rest of onConfigChanged() for an engine whose worker was wanted.  Nobody    *)
(* looks at whether the new worker could be spawned.                               *)
Reconfigured ==
    /\ WaitOver /\ purpose = "config"
    /\ cfg' \in {"ok", "off", "badurl"}
    /\ core1' = "idle" /\ ready' = TRUE /\ live' = FALSE /\ several' = multi
    /\ \E ok \in SpawnOutcomes : StartWorkerTask(Fresh, Outdated, ok)
    /\ UNCHANGED <<attached, purpose, spawned, late, scratch, poster, multi, edits, played>>

(* The gate of update(): until the turn is evaluated, an item that is ready keeps  *)
(* it, a verdict without an item, a dead worker or a deadline of 250 ms to 4.5 s   *)
(* ends it on a playlist of several slots.                                         *)
Gate ==
    /\ attached = "on" /\ core1 = "idle" /\ ~turn.evaluated
    /\ \/ /\ turn.hasReady
          /\ turn' = [turn EXCEPT !.evaluated = TRUE]
       \/ /\ ~turn.hasReady /\ turn.readyState
          /\ turn' = [turn EXCEPT !.evaluated = TRUE, !.skip = @ \/ multi]
       \/ /\ ~turn.hasReady /\ ~turn.readyState /\ multi
          /\ turn' = [turn EXCEPT !.evaluated = TRUE, !.skip = TRUE]
    /\ UNCHANGED <<core1vars, want, alive, buffers, setup, played, live, worker,
                   revived, several>>

--------------------------------------------------------------------------------
(* The worker, runWorkerLoop(). *)
Core1Still == UNCHANGED <<core1vars, want, ready, setup, revived, several>>
Step(w, from, to) ==
    /\ worker[w].pc = from
    /\ worker' = [worker EXCEPT ![w].pc = to]

(* Until the buffers are there.                                                    *)
AwaitBuffers(w) ==
    /\ ~want \/ ready
    /\ Step(w, "wait", "top")
    /\ Core1Still /\ UNCHANGED <<alive, scratch, poster, turn, played, live>>

(* The head of the loop: leave, give the turn up, or look for an item.             *)
Leave(w) ==
    /\ ~want /\ Step(w, "top", "leaving")
    /\ Core1Still /\ UNCHANGED <<alive, scratch, poster, turn, played, live>>
NotConfigured(w) ==
    /\ want /\ cfg # "ok" /\ Step(w, "top", "leaving")
    /\ turn' = [GivenUp(turn, multi) EXCEPT !.hasReady = FALSE] /\ live' = FALSE
    /\ Core1Still /\ UNCHANGED <<alive, scratch, poster, played>>
NoScratch(w) ==
    /\ want /\ cfg = "ok" /\ ~scratch
    /\ Step(w, "top", IF multi THEN "leaving" ELSE "top")
    /\ turn' = GivenUp(turn, multi)
    /\ Core1Still /\ UNCHANGED <<alive, scratch, poster, played, live>>
Look(w) ==
    /\ want /\ cfg = "ok" /\ scratch /\ worker[w].pc = "top"
    /\ \E transport \in {"mqtt", "http"} :
          worker' = [worker EXCEPT ![w] = [@ EXCEPT !.pc = transport, !.solo = ~multi,
                                                    !.stale = FALSE, !.held = "live"]]
    /\ Core1Still /\ UNCHANGED <<alive, scratch, poster, turn, played, live>>

(* acquireItemViaMqtt() and acquireItemViaHttp(): the item is announced as soon as *)
(* it is parsed.  An unreachable broker leads to HTTP in the same turn.            *)
Answer(w, out, next) ==
    /\ worker' = [worker EXCEPT ![w] = [@ EXCEPT !.pc = next, !.out = out,
                     !.held = IF next = "after" THEN "none" ELSE "live"]]
    /\ turn' = [turn EXCEPT !.hasReady = @ \/ out = "ready"]
    /\ out = "aborted" => ~want
    /\ Core1Still /\ UNCHANGED <<alive, scratch, poster, played, live>>
ViaMqtt(w) ==
    /\ worker[w].pc = "mqtt"
    /\ \/ \E out \in {"aborted", "ready", "warming", "offline"} : Answer(w, out, "after")
       \/ Answer(w, "unreachable", IF want /\ ~worker[w].stale THEN "http" ELSE "after")
ViaHttp(w) ==
    /\ worker[w].pc = "http"
    /\ \E out \in {"aborted", "ready", "warming", "offline"} : Answer(w, out, "after")

(* What the worker makes of the answer, in the order of the code.                  *)
Unwanted(w, at) ==
    /\ ~want /\ Step(w, at, "leaving")
    /\ Core1Still /\ UNCHANGED <<alive, scratch, poster, turn, played, live>>
StartOver(w, at) ==
    /\ want /\ worker[w].stale /\ worker[w].pc = at
    /\ worker' = [worker EXCEPT ![w].pc = "top", ![w].follow = FALSE]
    /\ turn' = [turn EXCEPT !.skip = FALSE, !.done = FALSE, !.hasReady = FALSE]
    /\ live' = FALSE
    /\ Core1Still /\ UNCHANGED <<alive, scratch, poster, played>>
Current(w, at) == worker[w].pc = at /\ want /\ ~worker[w].stale

TryAgain(w) ==
    /\ Current(w, "after") /\ worker[w].out = "aborted" /\ Step(w, "after", "top")
    /\ Core1Still /\ UNCHANGED <<alive, scratch, poster, turn, played, live>>
TakeItem(w) ==
    /\ Current(w, "after") /\ worker[w].out = "ready" /\ Step(w, "after", "publish")
    /\ Core1Still /\ UNCHANGED <<alive, scratch, poster, turn, played, live>>

Negative(w) == Current(w, "after") /\ worker[w].out \in {"warming", "offline", "unreachable"}
NoFollowUp(w) ==
    /\ Negative(w) /\ worker[w].follow /\ ~worker[w].solo
    /\ Step(w, "after", "leaving")
    /\ turn' = [turn EXCEPT !.skip = TRUE, !.done = TRUE]
    /\ Core1Still /\ UNCHANGED <<alive, scratch, poster, played, live>>
HoldBannerAlways(w) ==                                             \* mutant
    /\ Negative(w) /\ ~worker[w].solo
    /\ Step(w, "after", "hold")
    /\ live' = FALSE /\ turn' = [turn EXCEPT !.hasReady = FALSE]
    /\ Core1Still /\ UNCHANGED <<alive, scratch, poster, played>>
(* A banner is held for a while, then the turn is given up.                        *)
HoldBanner(w) ==
    /\ Negative(w) /\ ~worker[w].follow /\ ~worker[w].solo
    /\ Step(w, "after", "hold")
    /\ IF worker[w].out = "warming" THEN UNCHANGED <<live, turn>>
       ELSE live' = FALSE /\ turn' = [turn EXCEPT !.hasReady = FALSE]
    /\ Core1Still /\ UNCHANGED <<alive, scratch, poster, played>>
EndHoldQuietly(w) ==                                               \* mutant
    /\ Step(w, "hold", "leaving")
    /\ turn' = [turn EXCEPT !.evaluated = TRUE, !.readyState = TRUE]
    /\ Core1Still /\ UNCHANGED <<alive, scratch, poster, played, live>>
EndHold(w) ==
    /\ Step(w, "hold", "leaving")
    /\ turn' = GivenUp(turn, TRUE)
    /\ Core1Still /\ UNCHANGED <<alive, scratch, poster, played, live>>
(* A solo slot keeps asking; after several failures it clears the card.            *)
KeepAsking(w) ==
    /\ Negative(w) /\ worker[w].solo
    /\ Step(w, "after", "top")
    /\ \/ /\ UNCHANGED live
          /\ turn' = [turn EXCEPT !.evaluated = TRUE, !.readyState = TRUE]
       \/ /\ live' = FALSE
          /\ turn' = [turn EXCEPT !.evaluated = TRUE, !.readyState = TRUE, !.hasReady = FALSE]
    /\ Core1Still /\ UNCHANGED <<alive, scratch, poster, played>>

(* executeAcquiredItem(): the card goes out, with a poster buffer if there is one  *)
(* to be had; its stream needs the scratch for as long as it lasts, and frees the  *)
(* poster when it begins.                                                          *)
PublishCard(w) ==
    /\ worker[w].pc = "publish"
    /\ worker' = [worker EXCEPT ![w].pc = "play", ![w].held = "live"]
    /\ poster' \in {poster} \cup HeapOutcomes
    /\ live' = TRUE
    /\ turn' = [turn EXCEPT !.hasReady = TRUE, !.readyState = TRUE, !.evaluated = TRUE]
    /\ Core1Still /\ UNCHANGED <<alive, scratch, played>>
BeginStream(w) ==
    /\ worker[w].pc = "play" /\ poster
    /\ poster' = FALSE
    /\ Core1Still /\ UNCHANGED <<alive, scratch, turn, played, live, worker>>
EndItem(w) ==
    /\ worker[w].pc = "play"
    /\ worker' = [worker EXCEPT ![w].pc = "played", ![w].held = "none"]
    /\ Core1Still /\ UNCHANGED <<alive, scratch, poster, turn, played, live>>

Counted == IF played < Budget THEN played + 1 ELSE Budget
NextItem(w) ==
    /\ Current(w, "played") /\ (worker[w].solo \/ Counted < Budget)
    /\ played' = Counted
    /\ worker' = [worker EXCEPT ![w].pc = "top", ![w].follow = ~worker[w].solo]
    /\ Core1Still /\ UNCHANGED <<alive, scratch, poster, turn, live>>
LastItem(w) ==
    /\ Current(w, "played") /\ ~worker[w].solo /\ Counted = Budget
    /\ played' = Counted /\ Step(w, "played", "leaving")
    /\ turn' = [turn EXCEPT !.done = TRUE]
    /\ Core1Still /\ UNCHANGED <<alive, scratch, poster, live>>

(* workerTaskEntry(): the flag goes down when the loop has returned.               *)
Gone(w) ==
    /\ worker[w].pc = "leaving" /\ alive' = FALSE
    /\ worker' = [worker EXCEPT ![w] = Asleep]
    /\ Core1Still /\ UNCHANGED <<scratch, poster, turn, played, live>>

Worker(w) ==
    \/ AwaitBuffers(w) \/ Leave(w) \/ NotConfigured(w) \/ NoScratch(w) \/ Look(w)
    \/ ViaMqtt(w) \/ ViaHttp(w)
    \/ \E at \in {"after", "played"} : Unwanted(w, at) \/ StartOver(w, at)
    \/ TryAgain(w) \/ TakeItem(w) \/ NoFollowUp(w) \/ HoldBanner(w) \/ EndHold(w)
    \/ KeepAsking(w) \/ PublishCard(w) \/ EndItem(w) \/ NextItem(w) \/ LastItem(w) \/ Gone(w)

StopEnds == Deactivated \/ Destroyed \/ Reconfigured
Next ==
    \/ Activate \/ Allocate \/ Deactivate \/ Shutdown \/ StopEnds
    \/ EditWanted \/ EditUnwanted \/ EditRotation \/ Gate
    \/ \E w \in Workers : Worker(w) \/ BeginStream(w)

(* The loop runs every tick, and no step of the worker waits for ever: its sockets *)
(* have deadlines, an item has a duration and a held banner an end.                *)
Fairness ==
    /\ WF_vars(Allocate) /\ WF_vars(StopEnds) /\ WF_vars(Gate)
    /\ \A w \in Workers : WF_vars(Worker(w))
Spec == Init /\ [][Next]_vars /\ Fairness

--------------------------------------------------------------------------------
(* Never two workers: they would share the scratch buffer and the card, which have *)
(* one writer (MediaShowcaseEngines.cpp:1208-1240, 1258-1267).                      *)
OneWorker == Cardinality(Running) <= 1

(* Nobody frees the scratch buffer under the worker that is parsing or streaming   *)
(* into it, not even when a wait for it timed out: only the activation of a new    *)
(* turn over a worker that outlived the last one may (deactivate() 1133-1148,      *)
(* activate() 1055-1115).                                                          *)
ScratchSafe ==
    (\E w \in Workers : worker[w].pc \in UsesScratch /\ worker[w].held = "freed") => revived

(* On a playlist of several slots every turn ends by what the worker and the gate  *)
(* do, whatever the network answers, without the safety timeout of isFinished().   *)
TurnEnds ==
    attached = "on" /\ several ~> Finished \/ attached # "on" \/ ~several

(* Off the panel the engine holds no buffer, unless its worker outlasted the wait  *)
(* of the deactivation (the outgoing engine surrenders its transient buffers).     *)
Surrendered ==
    attached = "off" /\ core1 = "idle" /\ ~late => ~scratch /\ ~poster

(* While the worker looks for the next item of a turn the card of the last one     *)
(* stays, so that the banner of a waiting engine does not flash in between.        *)
FollowUpKeepsCard ==
    \A w \in Workers :
        several /\ worker[w].follow /\ ~worker[w].stale /\ want /\ core1 = "idle" /\ ~revived
        => live

(* An enabled engine that is alone on the playlist is served by a worker, also     *)
(* when it was enabled while it was on the panel (docs/ARCHITECTURE.md:336, 338).   *)
EnabledIsServed ==
    attached = "on" /\ cfg = "ok" /\ ~multi
        ~> alive \/ Finished \/ attached # "on" \/ cfg # "ok" \/ multi
================================================================================
