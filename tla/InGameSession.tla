----------------------------- MODULE InGameSession -----------------------------
(* The showcase of the game that is being played on a connected console            *)
(* (src/engines/FrontendSyncEngine.cpp, on a board without PSRAM).  Core 1 handles *)
(* the console's messages: a launch writes a job under a fresh token, leaving the  *)
(* game writes a cancellation.  A worker on Core 0, started when there is none and *)
(* leaving when there is nothing to do, takes the job, has the server prepare the  *)
(* clip, plays it when its first frame is buffered, and empties the server's queue *)
(* when the session is over.                                                       *)
EXTENDS Naturals

CONSTANT Events      \* bound on the console's messages, edits and replacements
ASSUME EventsAssumption == Events \in Nat \ {0}

VARIABLES
    token,      \* m_playSessionToken; also the name of the game it launched
    slot,       \* m_jobSlot
    latch,      \* m_workerWakeLatch
    dispatched, \* m_remoteSyncDispatched
    allowed,    \* showcase and in-game showcase are enabled
    checked,    \* m_cfgGen is the generation the worker has checked
    stop,       \* m_workerStopRequested
    c1,         \* where Core 1 is in its handler
    wants,      \* m_wantsInGameDisplay
    engaged,    \* the in-game engine has the panel
    wpc,        \* where the worker is, "none" when there is none
    job,        \* its copy of the slot
    mayPlay,    \* its copy of allowed
    done,       \* lastProcessedJobToken
    purged,     \* lastPurgedAtToken
    dirty,      \* remoteSyncDirtyOnWorker
    settled,    \* brokerCheckSettled
    queue,      \* the game the server prepares or keeps for this board, 0 for none
    lost,       \* the server still has it because a DELETE did not reach it
    events,
    missed,     \* the last wake-up found a worker that was leaving, or no task
    odd         \* the job was copied in the middle of its writing, or taken with an
                \* allowance that was out of date

core1  == <<token, slot, dispatched, allowed, stop, c1>>
worker == <<job, mayPlay, done, purged, dirty, settled, odd>>
server == <<queue, lost>>
gameVars == <<core1, worker, latch, checked, wants, engaged, wpc, server, events, missed>>

NoJob == [game |-> 0, token |-> 0, active |-> FALSE, cancel |-> FALSE]
Jobs == [game: 0..Events, token: 0..Events, active: BOOLEAN, cancel: BOOLEAN]
Leaving == {"last purge", "last free", "gone"}

GameTypeOK ==
    /\ token \in 0..Events /\ done \in 0..Events /\ purged \in 0..Events
    /\ queue \in 0..Events /\ events \in 0..Events
    /\ slot \in Jobs /\ job \in Jobs
    /\ latch \in BOOLEAN /\ dispatched \in BOOLEAN /\ allowed \in BOOLEAN
    /\ checked \in BOOLEAN /\ stop \in BOOLEAN /\ wants \in BOOLEAN /\ engaged \in BOOLEAN
    /\ mayPlay \in BOOLEAN /\ dirty \in BOOLEAN /\ settled \in BOOLEAN
    /\ missed \in BOOLEAN /\ odd \in BOOLEAN /\ lost \in BOOLEAN
    /\ c1 \in {"idle", "quiet", "token", "fields", "wake", "ensure", "drop", "bump",
               "void", "clear", "halt"}
    /\ wpc \in {"none", "top", "probe", "read", "purge", "free", "take", "post", "clean", "prepare",
                "session", "live", "played", "pause", "after", "after free", "look",
                "latch"} \cup Leaving

GameInit ==
    /\ token = 0 /\ slot = NoJob /\ latch = FALSE /\ dispatched = FALSE
    /\ allowed = TRUE /\ checked = FALSE /\ stop = FALSE /\ c1 = "idle"
    /\ wants = FALSE /\ engaged = FALSE
    /\ wpc = "none" /\ job = NoJob /\ mayPlay = TRUE /\ done = 0 /\ purged = 0
    /\ dirty = FALSE /\ settled = FALSE
    /\ queue = 0 /\ lost = FALSE /\ events = 0 /\ missed = FALSE /\ odd = FALSE

--------------------------------------------------------------------------------
(* Core 1. *)
Step(from, to) == c1 = from /\ c1' = to
WorkerStill == UNCHANGED <<worker, wpc, server>>

(* A message of the console, an edit of the settings, a new broker.                *)
Event == c1 = "idle" /\ events < Events /\ events' = events + 1

(* startInGameShowcaseSession(): the token, then the job; one that is not allowed  *)
(* is a cancellation.                                                              *)
Launch ==
    /\ Event /\ allowed /\ c1' = "quiet" /\ token' = events'
    /\ WorkerStill
    /\ UNCHANGED <<slot, latch, dispatched, allowed, checked, stop, wants, engaged, missed>>
Quiet ==
    /\ Step("quiet", "token") /\ wants' = FALSE /\ dispatched' = TRUE
    /\ WorkerStill
    /\ UNCHANGED <<token, slot, latch, allowed, checked, stop, engaged, events, missed>>
WriteToken ==
    /\ Step("token", "fields") /\ slot' = [slot EXCEPT !.game = token, !.token = token]
    /\ WorkerStill
    /\ UNCHANGED <<token, latch, dispatched, allowed, checked, stop, wants, engaged, events,
                   missed>>
WriteActive ==
    /\ Step("fields", "wake") /\ slot' = [slot EXCEPT !.active = TRUE, !.cancel = FALSE]
    /\ WorkerStill
    /\ UNCHANGED <<token, latch, dispatched, allowed, checked, stop, wants, engaged, events,
                   missed>>

(* cancelInGameShowcaseSession(): nothing is said to the server about a game that  *)
(* was not dispatched.                                                             *)
Dropped(next) == c1' = (IF dispatched THEN next ELSE "idle") /\ wants' = FALSE
Leave ==
    /\ Event /\ Dropped("bump") /\ dispatched' = FALSE
    /\ WorkerStill
    /\ UNCHANGED <<token, slot, latch, allowed, checked, stop, engaged, missed>>
(* The token moves, so that whatever the worker is doing for the old one ends.     *)
BumpForgotten ==                                                   \* mutant
    /\ Step("bump", "void") /\ UNCHANGED token
    /\ WorkerStill
    /\ UNCHANGED <<slot, latch, dispatched, allowed, checked, stop, wants, engaged, events,
                   missed>>
Bump ==
    /\ Step("bump", "void") /\ token' = events
    /\ WorkerStill
    /\ UNCHANGED <<slot, latch, dispatched, allowed, checked, stop, wants, engaged, events,
                   missed>>
VoidToken ==
    /\ Step("void", "clear") /\ slot' = [slot EXCEPT !.token = token]
    /\ WorkerStill
    /\ UNCHANGED <<token, latch, dispatched, allowed, checked, stop, wants, engaged, events,
                   missed>>
Void ==
    /\ c1 = "clear" /\ c1' = (IF stop THEN "halt" ELSE "wake")
    /\ slot' = [slot EXCEPT !.active = FALSE, !.cancel = TRUE, !.game = 0]
    /\ WorkerStill
    /\ UNCHANGED <<token, latch, dispatched, allowed, checked, stop, wants, engaged, events,
                   missed>>

(* updateRuntimeConfig(): the worker gets the new settings, and is woken for a new *)
(* broker; a session that is no longer allowed is cancelled.                       *)
Edit ==
    /\ Event /\ allowed' \in BOOLEAN /\ checked' = FALSE
    /\ IF allowed' THEN c1' \in {"idle", "wake"} /\ UNCHANGED wants ELSE Dropped("bump")
    /\ dispatched' = (dispatched /\ allowed')
    /\ WorkerStill /\ UNCHANGED <<token, slot, latch, stop, engaged, missed>>

(* m_workerWakeLatch, then ensureShowcaseWorkerRunning(): a task is created unless *)
(* one is there, which may fail.                                                   *)
Wake ==
    /\ Step("wake", "ensure") /\ latch' = TRUE
    /\ WorkerStill
    /\ UNCHANGED <<token, slot, dispatched, allowed, checked, stop, wants, engaged, events,
                   missed>>
Fresh ==
    /\ wpc' = "top" /\ done' = 0 /\ purged' = 0 /\ dirty' = FALSE /\ settled' = FALSE
    /\ checked' = FALSE /\ job' = NoJob /\ missed' = FALSE
Ensure ==
    /\ Step("ensure", "idle")
    /\ \/ wpc = "none" /\ Fresh
       \/ wpc = "none" /\ missed' = TRUE
          /\ UNCHANGED <<wpc, done, purged, dirty, settled, checked, job>>
       \/ wpc # "none" /\ missed' = (wpc \in Leaving)
          /\ UNCHANGED <<wpc, done, purged, dirty, settled, checked, job>>
    /\ UNCHANGED <<token, slot, latch, dispatched, allowed, stop, wants, engaged, mayPlay, odd,
                   server, events>>

(* syncMqtt() replaces the engine when the broker was edited: stop() cancels,      *)
(* waits for the worker, gives up its buffers; begin() starts over.                *)
Replace ==
    /\ Event /\ stop' = TRUE /\ dispatched' = FALSE
    /\ c1' = (IF dispatched THEN "bump" ELSE "halt") /\ wants' = FALSE
    /\ WorkerStill /\ UNCHANGED <<token, slot, latch, allowed, checked, engaged, missed>>
Replaced ==
    /\ Step("halt", "wake") /\ wpc = "none"
    /\ stop' = FALSE /\ slot' = NoJob /\ latch' = FALSE /\ wants' = FALSE
    /\ token' = events
    /\ WorkerStill /\ UNCHANGED <<dispatched, allowed, checked, engaged, events, missed>>

(* evaluateDisplayRequests() and the arbiter.                                      *)
Show ==
    /\ c1 = "idle" /\ engaged # wants /\ engaged' = wants
    /\ WorkerStill
    /\ UNCHANGED <<token, slot, latch, dispatched, allowed, checked, stop, c1, wants, events,
                   missed>>

Handling ==
    \/ Quiet \/ WriteToken \/ WriteActive \/ Bump \/ VoidToken \/ Void
    \/ Wake \/ Ensure \/ Replaced \/ Show

--------------------------------------------------------------------------------
(* The worker. *)
At(from, to) == wpc = from /\ wpc' = to
Core1Still == UNCHANGED <<core1, engaged, events, missed>>
Same == UNCHANGED <<job, mayPlay, done, odd>>

Stale == stop \/ token # job.token
(* deleteAllShowcaseQueueHttp(): one attempt of which nobody learns the outcome.    *)
(* The host may not resolve, the request may not get through.                      *)
Delete ==
    \/ queue' = 0 /\ lost' = FALSE
    \/ queue # 0 /\ lost' = TRUE /\ UNCHANGED queue
Cleanup ==
    /\ dirty' = FALSE
    /\ IF dirty THEN Delete /\ purged' = token ELSE UNCHANGED <<server, purged>>
(* freeStreamBuffersSafely() withdraws the display, then waits for Core 1 to stop  *)
(* drawing from the buffers, 250 ms at most.                                       *)
FreeKeeps == UNCHANGED wants                                       \* mutant
FreeBuffers == wants' = FALSE

Top ==
    /\ wpc = "top" /\ wpc' = (IF stop THEN "last purge" ELSE "probe")
    /\ mayPlay' = allowed
    /\ Core1Still
    /\ UNCHANGED <<job, done, purged, dirty, settled, odd, latch, checked, wants, server>>
(* The health of the showcase server; two failures settle the matter too.  Other   *)
(* traffic of the board puts the probe off.                                        *)
Probe ==
    /\ At("probe", "read")
    /\ \/ checked' = TRUE /\ settled' \in BOOLEAN
       \/ UNCHANGED <<checked, settled>>
    /\ Core1Still /\ Same /\ UNCHANGED <<purged, dirty, latch, wants, server>>

(* readJobSlot() tries four times in a row and then copies whatever is there.      *)
Read ==
    /\ wpc = "read"
    /\ IF slot.token # done
       THEN /\ wpc' = "purge" /\ job' = slot
            /\ odd' = (c1 \in {"fields", "clear"} \/ mayPlay # allowed)
       ELSE wpc' = "look" /\ UNCHANGED <<job, odd>>
    /\ Core1Still
    /\ UNCHANGED <<mayPlay, done, purged, dirty, settled, latch, checked, wants, server>>
Purge ==
    /\ At("purge", "free") /\ Cleanup
    /\ Core1Still /\ Same /\ UNCHANGED <<settled, latch, checked, wants>>
FreeOld ==
    /\ At("free", "take") /\ FreeBuffers /\ done' = job.token
    /\ Core1Still /\ UNCHANGED <<job, mayPlay, purged, dirty, settled, odd, latch, checked, server>>

(* A cancellation that was not purged yet empties the queue; a launch is posted.   *)
(* Either needs the server's address.                                              *)
Take ==
    /\ wpc = "take"
    /\ \/ wpc' = "look" /\ UNCHANGED <<purged, server>>
       \/ ~job.active /\ job.cancel /\ job.token # purged /\ wpc' = "look"
          /\ Delete /\ purged' = job.token
       \/ job.active /\ mayPlay /\ job.game # 0 /\ wpc' = "post" /\ UNCHANGED <<purged, server>>
    /\ Core1Still /\ Same /\ UNCHANGED <<dirty, settled, latch, checked, wants>>
(* The answer may be lost after the server has taken the job, or the request on its *)
(* way there.                                                                      *)
Accepted == queue' = job.game /\ lost' = FALSE
PostArmedLate ==                                                   \* mutant
    /\ wpc = "post"
    /\ \/ wpc' = "prepare" /\ Accepted /\ dirty' = TRUE
       \/ wpc' = "clean" /\ Accepted /\ UNCHANGED dirty
       \/ wpc' = "look" /\ UNCHANGED <<server, dirty>>
    /\ Core1Still /\ Same /\ UNCHANGED <<purged, settled, latch, checked, wants>>
Post ==
    /\ wpc = "post"
    /\ \/ wpc' \in {"prepare", "clean"} /\ Accepted /\ dirty' = TRUE
       \/ wpc' = "clean" /\ dirty' = TRUE /\ UNCHANGED server
       \/ wpc' = "look" /\ dirty' = FALSE /\ UNCHANGED server
    /\ Core1Still /\ Same /\ UNCHANGED <<purged, settled, latch, checked, wants>>
Clean ==
    /\ At("clean", "look") /\ Cleanup
    /\ Core1Still /\ Same /\ UNCHANGED <<settled, latch, checked, wants>>
(* The clip is ready, or failed, or took 120 s, or nobody waits for it.            *)
Prepare ==
    /\ wpc = "prepare"
    /\ wpc' \in {"after"} \cup (IF Stale THEN {"clean"} ELSE {"session"})
    /\ Core1Still /\ Same /\ UNCHANGED <<purged, dirty, settled, latch, checked, wants, server>>
(* runStreamSession(): the panel is asked for when the first frame is buffered.    *)
Session ==
    /\ wpc = "session" /\ wpc' \in {"after"} \cup (IF Stale THEN {} ELSE {"live"})
    /\ Core1Still /\ Same /\ UNCHANGED <<purged, dirty, settled, latch, checked, wants, server>>
Live ==
    /\ At("live", "played") /\ wants' = TRUE
    /\ Core1Still /\ Same /\ UNCHANGED <<purged, dirty, settled, latch, checked, server>>
(* Once, again at once, or again after a pause with the marquee.                   *)
Played ==
    /\ wpc = "played"
    /\ \/ wpc' = "after" /\ UNCHANGED wants
       \/ ~Stale /\ wpc' = "session" /\ UNCHANGED wants
       \/ ~Stale /\ wpc' = "pause" /\ wants' = FALSE
    /\ Core1Still /\ Same /\ UNCHANGED <<purged, dirty, settled, latch, checked, server>>
Pause ==
    /\ wpc = "pause" /\ wpc' = (IF Stale THEN "after" ELSE "session")
    /\ Core1Still /\ Same /\ UNCHANGED <<purged, dirty, settled, latch, checked, wants, server>>
After ==
    /\ At("after", "after free") /\ Cleanup
    /\ Core1Still /\ Same /\ UNCHANGED <<settled, latch, checked, wants>>
FreeNew ==
    /\ At("after free", "look") /\ FreeBuffers
    /\ Core1Still /\ Same /\ UNCHANGED <<purged, dirty, settled, latch, checked, server>>

(* It leaves when there is no job, no cancellation to carry out, no open question  *)
(* about the broker, and nobody has woken it since.                                *)
LookAgain ==
    /\ wpc = "look"
    /\ wpc' = IF slot.active \/ (slot.cancel /\ slot.token # done) \/ ~settled \/ ~checked
              THEN "top" ELSE "latch"
    /\ Core1Still /\ Same /\ UNCHANGED <<purged, dirty, settled, latch, checked, wants, server>>
LatchIgnored ==                                                    \* mutant
    /\ At("latch", "last purge") /\ latch' = FALSE
    /\ Core1Still /\ Same /\ UNCHANGED <<purged, dirty, settled, checked, wants, server>>
Latch ==
    /\ wpc = "latch" /\ wpc' = (IF latch THEN "top" ELSE "last purge")
    /\ latch' = FALSE
    /\ Core1Still /\ Same /\ UNCHANGED <<purged, dirty, settled, checked, wants, server>>
LastPurge ==
    /\ At("last purge", "last free") /\ Cleanup
    /\ Core1Still /\ Same /\ UNCHANGED <<settled, latch, checked, wants>>
LastFree ==
    /\ At("last free", "gone") /\ FreeBuffers
    /\ Core1Still /\ Same /\ UNCHANGED <<purged, dirty, settled, latch, checked, server>>
Gone ==
    /\ At("gone", "none")
    /\ Core1Still /\ Same /\ UNCHANGED <<purged, dirty, settled, latch, checked, wants, server>>

Work ==
    \/ Top \/ Probe \/ Read \/ Purge \/ FreeOld \/ Take \/ Post \/ Clean \/ Prepare
    \/ Session \/ Live \/ Played \/ Pause \/ After \/ FreeNew \/ LookAgain \/ Latch
    \/ LastPurge \/ LastFree \/ Gone

GameNext == Launch \/ Leave \/ Edit \/ Replace \/ Handling \/ Work
(* Both cores run; a broker that cannot be reached is settled after two probes.    *)
GameSpec ==
    /\ GameInit /\ [][GameNext]_gameVars
    /\ WF_gameVars(Handling) /\ WF_gameVars(Work) /\ SF_gameVars(Probe /\ checked' /\ settled')

--------------------------------------------------------------------------------
(* A session that no token stops is for the game that is being played              *)
(* (FrontendSyncEngine.cpp:981-999, 1110-1117).                                    *)
PlayedGameOnly ==
    wpc \in {"session", "live", "played", "pause"} /\ ~Stale =>
        odd \/ (slot.game = job.game /\ slot.active) \/ c1 # "idle"

(* A game's clip leaves the panel when the game was left, whatever the worker was  *)
(* doing: the display it asks for too late is withdrawn with its buffers.          *)
ExitedGameLeaves == engaged /\ ~slot.active ~> ~engaged \/ slot.active \/ odd

(* Nothing of a game that was left stays on the server, even when the answer to    *)
(* the POST was lost (FrontendSyncEngine.cpp:1382-1386): the worker asks the server *)
(* to drop it.  It asks once and takes no notice of the outcome (:1215-1218), so a *)
(* DELETE that is lost is the one way for the game to stay.                        *)
QueueEmptied ==
    queue # 0 /\ queue # slot.game ~> queue = 0 \/ queue = slot.game \/ lost \/ odd

(* A launch is taken by a worker, unless its wake-up came while the worker was     *)
(* leaving or no task could be made: the latch closes every other gap              *)
(* (FrontendSyncEngine.cpp:974-976, 1602-1620).                                    *)
LaunchTaken ==
    c1 = "idle" /\ slot.active ~> done = slot.game \/ ~slot.active \/ missed
================================================================================
