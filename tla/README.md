# ArcadeMatrix in TLA+

ArcadeMatrix is the firmware of an LED matrix on a dual-core ESP32. Core 1 runs the render loop
(`AppRuntime::update()`), Core 0 the network services, the web server, the showcase workers and a
lifecycle worker. The cores share a configuration, a queue of display requests, the engines that draw
and the buffers they draw from; most of that sharing is lock-free. This directory holds TLA+ modules
for those parts, the TLC configurations that check them on small instances, and proofs, checked by
TLAPS, of what holds for every instance. Source paths below are relative to `src/` of the repository.

## 1. Inventory

| Component | Source | State | Operations | Hard part | What makes it correct |
|---|---|---|---|---|---|
| Configuration snapshots | `core/ConfigLoader.*` | three slots, a reader counter each, the published index, the live fields, `_publishPending` | borrow, release, mutate, publish, deferred publish | readers without a lock against a writer that refills slots; a publication with no free slot | a borrowed slot never changes, no mutation is lost, versions advance, borrows are linearizable |
| Engine retirement | `core/EngineRetirementQueue.h`, `Core0Lifecycle.*` | ring, two indices, pending counter, quarantine | retire, poll, drain, retry | ownership crosses the cores through a ring without a lock | first in first out, `hasPending()` exact, everything retired leaves |
| Display arbiter | `core/DisplayArbiter.*` | command queue, eight slots, next id | submit, cancel, evaluate | bounded queue, commands that are edges, a loop that stalls | what is shown is what the producers want most |
| Application loop | `core/AppRuntime.*` | what it last sent for each engine, panel state | `update()`, `evaluateDisplayRequests()`, `requestWebUiSyncWindow()` | early returns before the queue is drained | every edge reaches the arbiter |
| Display sessions | `core/DisplayRuntime.*` | session, stack of four preempted ones | transition, resolve, purge, render | reject, preempt, resume; engines that vanish | the drawn engine is activated, the due parent is resumed |
| Rotation | `core/RotationManager.*` | action queue, module index, engine slots | loop, switch, create, retire, evict, suspend | index from one snapshot, list from another; changes published after their actions; engines destroyed by the other core | no pointer to a retired engine, one active engine, edits take effect |
| Storage | `core/storage/*`, `core/ConfigLoader.cpp` | files, temporary files, backups | save, load, migrate, heal | power lost between two file operations; one of several saves fails; a heal that brings back only part of a file | a saved domain survives |
| WEBUI_SYNC window | `engines/WebUiSyncEngine.*`, `core/NetworkBudget.h` | request and ready flag, deadline, activity register | ask, open, extend, reset, enter and leave a transfer | three parties store the same atomics without a lock | the register tells the truth, a granted window lasts, a window ends |
| Media showcase | `engines/MediaShowcaseEngines.*` | worker task, scratch and poster buffers, card under a sequence lock | activate, deactivate, edit, acquire, publish, stream | a worker that outlasts the wait for it; buffers freed while the other core draws | one worker, no buffer freed in use, a turn ends |
| Showcase stream | `core/net/DmdzStreamClient.h`, `engines/showcase/ShowcaseStreamPlayer.*` | byte ring, two indices, wake-up flag | fill, decode, arm, free | indices to twice the capacity, frames longer than the ring, two waits that face each other, reads of the card that fail | bytes arrive in order, every frame is shown, a session ends |
| In-game showcase | `engines/FrontendSyncEngine.cpp` | job slot, token, wake-up latch, the queue on the server | launch, leave, edit, prepare, play, purge | a console's messages against a worker in a request of seconds; requests that are lost | only the game being played is shown, nothing of an old one stays |

The remaining parts (other engines, pipelines, the HTTP layer, data providers, audio, board support,
tables, diagnostics, assets) are drawing, I/O or tables; `PROJECT.json` lists each with the reason it is
left out, and the hazards of the code line by line.

*How they interact.* The web server writes the configuration (snapshots), then queues what the rotation
has to do about it, and asks the arbiter for WEBUI_SYNC windows. The arbiter's decision drives the
sessions, the sessions activate engines, the rotation retires them through the retirement ring, and
`hasPending()` holds a new allocation back until they are gone. A showcase engine is one of these
engines with a worker of its own on Core 0, which looks at the window's flags before it goes to the
network and feeds the stream ring that Core 1 decodes.

## 2. Plan

The order is that of what would hurt most: first the memory both cores share without a lock, then the
queue that decides what is shown, then what survives a power cut, then the machines on top.

| Step | Module | Composes | Abstract specification | State |
|---|---|---|---|---|
| 1 | `ConfigSnapshot` | writers, readers and the lifecycle worker | `ConfigRegister`: one atomic register | checked; safety and refinement proved |
| 2 | `EngineRetirement` | ring, dispatcher, quarantine, `hasPending()` | `EngineHandover`: a bounded queue and its server | checked; safety and refinement proved |
| 3 | `DisplayArbiter` | arbiter, its producers in `AppRuntime`, the WEBUI_SYNC flag | none: its invariants relate producers and slots | checked; safety proved |
| 4 | `ConfigStorage` | atomic writes, saves, migration, heal, repair, boot | none: its invariants relate files and what was saved | checked; safety proved |
| 5 | `DisplaySessions` | arbiter's decision, session stack, engines | none | checked; safety proved |
| 6 | `Rotation` | web server's edits, action queue, published configurations, retirement, Core 0's destruction | none | checked; safety proved |
| 7 | `WebUiWindow` | web server, engine, two network workers, the arbiter reduced to one slot | none | checked; safety proved |
| 8 | `ShowcaseTurn`, `ShowcaseCard` | engine on Core 1 and its worker on Core 0 | none | checked; safety proved |
| 9 | `StreamRing` | producer, ring, decoder | `ByteChannel`: a bounded channel of bytes | checked; safety and refinement proved |
| 10 | `InGameSession` | console, engine, worker, server queue | none | checked; safety proved |

What would come next: the SD lock (`core/SdLockGuard.h`) as a re-entrant lock with the web server's and
the workers' timeouts; the reconnect task that shares `PubSubClient` with the loop of Core 1; the
instance files of `WorkingSetCache`; and the audio session manager.

## 3. Modules

A step of a model is one atomic access, one access to a shared slot, one file operation, or a
stretch of code no other task can observe. Definitions keep the names of the code. A definition whose
comment says "mutant" is no part of a specification: it is a plausible mistake that the property it
is paired with in `PROJECT.json` must detect.

**`ConfigSnapshot`** (`ConfigLoader.cpp:15-119`, `ConfigLoader.h`, `Core0Lifecycle.cpp`).
`readers`, `publishedSlot`, `publishPending` and `configVersion` are the atomics of the same names.
A snapshot is its version and the number of mutations it contains (`payload`), and `sealed` is FALSE
while the owner of the mutex writes it. Actions: `AcquireCall` to `AcquireUndo` are
`acquireSnapshot()` with the second look at `_publishedSlot`; `Release` and `ReleaseSignal` the
destructor of the guard; `Lock`, `Mutator` and `Refuse` `mutate()`, `addInstance()` and
`removeInstance()`; `Republish` the bare `publishSnapshot()` of a save; `ScanSlot` to `Clear`
`publishSnapshot_locked()`, with `Defer` when all other slots are pinned; `Wake` to `Recheck` the
lifecycle worker and `checkDeferredPublish()`. **`ConfigRegister`** is what this promises: a
published value that moves forward and borrows that each see one of its values.

**`EngineRetirement`** (`EngineRetirementQueue.h`, `Core0Lifecycle.cpp`). The ring has `Capacity + 1`
slots and two indices, as in the code; `active` is `_activeRetirements` with its eight bits.
`Retire` to `RetireFull` are `retire()` on Core 1, `PollActive` to `Resume` a call of `hasPending()`,
`Wake` to `Count` one round of `processRetirements()` on Core 0, where an engine may refuse to stop
(`ShutdownForDestruction`: destroyed, quarantined, or leaked when the quarantine is full).
**`EngineHandover`** is the abstract side: a bounded queue and a server.

**`DisplayArbiter`** (`DisplayArbiter.cpp`, `DisplayArbiter.h`, `AppRuntime.cpp:946-1174`). `Want`
changes what an engine asks for; `EvaluateDisplayRequest` compares it with what was last sent
(`sync`) and sends the difference; `Gate` is the early returns of `update()`; `Drain` and `Decide`
are `evaluate()`; `RequestWebUiSyncWindow` is the web server. `Stall` and `LightUp` are the night
mode, the panel switch and a turning orientation; `mayStall` fixes for a behaviour whether they happen
at all.

**`ConfigStorage`** (`SdConfigStorage.cpp`, `ModularConfigManager.cpp`, `ConfigLoader.cpp:681-1014`).
`disk` holds the files that exist, each a set of versions, one for each item in it, whole or torn. An item
is a domain, but `network.json` holds two: the Wi-Fi credentials (`Network`), and beside them the
connections (`Links`: `mqtt`, `dataMqtt`, `showcase`). The heal takes the credentials from the second copy;
a connection comes with them only if it is off in the fields and on in the copy, which its version does
not tell, so `Healed` leaves both open; then it saves the mixture. `job` is the call in
progress and `step` its next file operation: `WriteTmp`, `RemoveOld`, `Rename` and `Copy` are
`writeStringAtomic()`; `Decide` to `Restore` the rest of `saveDomainsToSD()`, which `Answer` ends; `PowerOn` is
`loadFromSD()`, which loads, heals, migrates, repairs or gives up, and may start a job of its own.
`PowerLoss` may come between any two operations, and `Fault` makes one fail.

**`DisplaySessions`** (`DisplayRuntime.cpp`). `Ask` and `Withdraw` change the arbiter's table; `Update`
takes its dominant request and is `transitionSession()`: `Refresh`, `ResumeParent`, `Preempt`, `Replace`,
and the rejections of the middle two. `Render` draws the engine of the *decision*, whether the session
followed it or not. `life` is the last of `activate()`, `pause()`, `resume()`, `deactivate()` an engine was
given; `RetireInstance` is the rotation giving one up, with `purgeEngineReferences()`.

**`Rotation`** (`RotationManager.cpp`, the handlers of `WebServerAPI.cpp` that edit it). A handler changes
the fields (`live`) and then queues NOTIFY, RECREATE or RESET (`Edit`, `MutateSettings`, `TellInstances`,
`QueueAction`); the change is published by `PublishSnapshot`, which may come before, between or after
those actions and after Core 1 has handled them: `mutate()` puts a publication off when readers hold
the two other slots (`ConfigLoader.cpp:84`), and what publishes it later queues nothing. `late` are the
actions that were handled before the change they are about was published. Whether an instance is new, or
of another type, a handler reads from the published snapshot before it changes the fields (`Posted`,
`Structural`). `Loop` empties the queue (`DoNotify`, `DoRecreate`, `DoReset`), `SwitchTo`, `Enter` and
`DrawSlot` are the rest of `loop()`. `DrawSlot` activates the finished self-paced engine of the only slot
of a list, whether it is the current one or not; such an engine, and one that `setSuspended()` calls out
of turn, is in `stray` until it is deactivated or shown. Each read of the published list is its own step, so an index computed from one list meets
another. `Suspend` and `CallHeld` are `setSuspended()`, which runs on Core 0; `Destroy` is Core 0's
side of the retirement.

**`WebUiWindow`** (`WebUiSyncEngine.*`, `NetworkBudget.h`). `Ask` to `Submit` are a handler's call of
`requestWebUiSyncWindow()`, `Update`, `Activated` and `Reset` Core 1, `Look`, `Enter` and `Leave` a
worker with its `ScopedDmdNetActivity`; every load and store of an atomic is a step. `Tick` is a tick
of `millis()`.

**`ShowcaseTurn`** (`MediaShowcaseEngines.cpp`). One turn: `Activate`, `Allocate`, `Deactivate`, `Shutdown`,
the three kinds of edit, the gate of `update()`, and the worker with every verdict of an acquisition
(`Answer`, `ViaMqtt`, `ViaHttp`), its held banner, its items and its end. `Faults` says what happens
besides: a worker that outlasts a wait of Core 1, a refused task or buffer, an edited playlist.

**`ShowcaseCard`** (`MediaShowcaseEngines.cpp`, `ShowcaseStreamPlayer.cpp`). What is on the panel during
the turn: the worker writes the card under the sequence lock, fetches the poster, cuts to black, frees
the poster, allocates the ring, and frees it again; `Look` to `Drawn` are one frame of Core 1, from its
copy of the card to its drawing, behind the flag the worker waits for.

**`InGameSession`** (`FrontendSyncEngine.cpp`). `Launch` and `Leave` are the messages of a console,
`Handling` what Core 1 then writes, store by store; `Top` to `Gone` the worker, which takes the job,
lets the server prepare the clip, plays it, empties the server's queue and goes when nothing is left.
The POST, its answer and the DELETE may each be lost. The DELETE is one attempt whose outcome nobody looks
at (`Delete`); `lost` says that the server still has something because of that.

**`StreamRing`** (`DmdzStreamClient.h:148-330`, `ShowcaseStreamPlayer.cpp`). The n-th byte put into
the ring is the number n. `ShouldRefill` to `Commit` are the producer, which fills the ring once before
it arms the decoder; `Mark` and `Look` the decision of the decoder, `Begin` a frame longer than the ring,
`Feed` and `Consume` the rest. Each index is read once where the code reads it once. A read of the card
that fails (`ReadFails`) skips what is on the card: `gap` counts the bytes before the first one lost, and
behind it the decoder takes any two bytes for a length (`misread`) and may find that it cannot decode
them (`over`). `GiveUp` is the producer ending a session in which nothing moves any more. **`ByteChannel`** is the abstract side: a bounded channel of bytes in order.

## 4. Runs

| Run | Instance | States | Shows |
|---|---|---|---|
| `config_snapshot` | 2 guards, 1 writer, the worker; 2 mutations, versions to 4 | 192,133 | `BorrowedSlotStable`, `NothingLost`, `DeferralEnds`, and that it implements `ConfigRegister` |
| `engine_retirement` | 4 engines, ring of 2, quarantine of 1 | 28,509 | `NoSlotRace`, `ReclaimedWhenNotPending`, `RetiredEnginesLeave`, and that it implements `EngineHandover` |
| `arbiter` | 2 engines, one with two priorities, and the web server; queue of 3; lit throughout or going dark | 1,105,620 | `AgreesUnlessDropped`, `RoomForEverySource`, `StandingRequestShown` |
| `storage` | 3 domains and the connections of one, 2 versions; 1 power loss, or 2 failed operations | 8,764,115 | `SeededSurvives`, `SecondCopySurvives`, `NeverTorn` |
| `display_sessions` | 3 alerts and WEBUI_SYNC; a rotation of two screens, one shared with an alert | 638,728 | `DrawnIsActivated`, `ParentsInOrder`, `RotationReturns` |
| `rotation` | 2 instances, 3 objects, 2 edits, queue of 2, 2 slots, no PSRAM | 6,405,060 | `SessionEngineLives`, `OneActive`, `RecreatedUnlessDropped`, `ListedWhenDrained` |
| `webui_window` | 2 workers, windows of 1 and 3 ticks, 2 commands | 2,049,032 | `RegisterTruthful`, `ShortenedOnlyInReset`, `WindowEnds` |
| `showcase_turn` | 2 worker ids, turns of 2 items, 2 edits, all faults | 872,952 | `OneWorker`, `ScratchSafe`, `Surrendered`, `FollowUpKeepsCard`, `TurnEnds` |
| `showcase_enable` | the same without faults, 1 edit | violation | an engine enabled while it is on the panel is never served |
| `showcase_card` | 3 items | 260,749 | `PosterNotDangling`, `RingThereWhenDecoded`, `CardWhole`, `PosterBesideItsCard`, `CutEnds` |
| `ingame_session` | 4 messages and edits; any POST, answer or DELETE lost | 673,021 | `PlayedGameOnly`, `ExitedGameLeaves`, `QueueEmptied`, `LaunchTaken` |
| `stream_ring` | ring of 4 bytes; frames of 2, 5 and 0 bytes; any read of the card fails | 1,528,233 | `EveryFrameShown`, and that it implements `ByteChannel` |

Why the bounds are enough:

- *Snapshots.* Two guards pin both slots that are not published, which is the only way a publication is
  deferred; a third could only pin a slot again. Two mutations let one be deferred while the next
  arrives, and `MaxVersion` leaves room for publications without a mutation. The proofs have no such
  bound.
- *Retirement.* Four engines fill a ring of two, are refused, wrap the indices around and overflow a
  quarantine of one. `Capacity` is at most 253 in the assumption because the counter has eight bits.
- *Arbiter.* `MaxId` bounds request ids, `WebBurst` the web requests of one iteration. The queue has
  exactly room for one command of each engine and one web request; the firmware's 16 places have room
  for its five engines and eleven. In the dark the queue fills in the same way after more frames.
- *Storage.* One domain gates the boot (`hardware`, standing for it and `system`), one is healed
  (`network`) and one is neither (`playlist`); callers save all of them, or `network` alone, as the Wi-Fi
  handlers do. Two failed
  operations reach the rollback of `saveDomainsToSD()`, which needs a domain file and `/config.json`
  to fail together. Power losses and failed operations are not mixed.
- *Sessions.* Three alerts of different priority nest to the depth of three and leave in any order; one
  of them names an instance of the rotation, the case `purgeEngineReferences()` is about.
- *Rotation.* One heavy instance and one that is not, an object more than there are slots so that one is
  being destroyed while the next is made, a queue that two edits can fill, and lists of different length.
  Safety is checked on the board that is tight: no PSRAM, so that engines are evicted, and as many slots
  as instances, so that the slots run out. Two edits let a publication be late while the next change is
  made.
- *Window.* One window is longer than the other by more than the margin of 100 ms, so that shortening can
  be told from extending; two workers can overlap.
- *Showcase.* Two worker identities show whether two ever run. Two items end a turn after a follow-up.
  Three items let every kind (card only, poster, stream) follow every kind. Without PSRAM, the tightest
  case, the poster and the ring never exist together.
- *In-game.* A launch, its end, a second launch and one more message cover every pair of messages
  around a worker that is starting, busy or leaving, with a lost DELETE between the two games.
- *Stream.* A frame that fills the ring, one longer than it, and an empty one; reads, passes and batches of
  different lengths, the batch longer than half the ring so that the two waits meet. Any number of reads
  may fail, and behind a gap two bytes read as the length of an empty frame, of a short one, or of one
  longer than the ring (`Noise`).

Deadlock is checked where the system never stops: `config_snapshot`, `engine_retirement`, `arbiter`
and `rotation`. Elsewhere `CHECK_DEADLOCK FALSE` stands for a behaviour that may end: the last version is
saved, the last item shown, the clip over, or the last message of the bound handled, or the browsers
silent for good.

### What the violation says

`showcase_enable`: `onConfigChanged()` restarts the worker only if the engine was wanted before
(`MediaShowcaseEngines.cpp:875`, `:1034`). An engine that is activated while it is disabled is not, and
one that is alone on the playlist is never finished and so never activated again. Enabled while it is on
the panel, it shows its placeholder until the playlist changes or the board restarts.
`docs/ARCHITECTURE.md:336` and `:338` say that the running instance re-reads its settings in place and
that no reboot is required. The run has no fault in it and assumes the fairness of section 5: in TLC's
counterexample the engine is activated, enabled, and then nothing is left that would have to happen.

### Further configurations

These are kept beside the runs, for a reader who wants to see the counterexample. TLC refutes the
statement each one names.

| Configuration | Refuted | Why |
|---|---|---|
| `MCDisplayArbiterDark.cfg` | `ActiveUntilCancelled` | `update()` drains nothing while the panel is dark, a full queue drops commands, and what was dropped is recorded as sent. `DisplayArbiter.h:34`: "Stays active until explicitly cancelled" |
| `MCConfigStorageFirst.cfg` | `SurvivesWithoutFailure` | with less than 16 KB in one block a partial save on an empty card writes only the domain file (`ConfigLoader.cpp:933`), and `loadFromSD()` reads domain files only if `hardware.json` and `system.json` exist |
| `MCConfigStorageFault.cfg` | `AnswerIsTrue` | a domain file fails, `/config.json` is written, the answer is true (`ConfigLoader.cpp:992`), and the next boot prefers the file that failed |
| `MCDisplaySessionsFull.cfg` | `PreemptionFollowed` | cancelled requests that lie below others stay in the stack of four (`DisplayRuntime.cpp:249`), which then refuses a preemption; `docs/ARCHITECTURE.md:718` says they are discarded |
| `MCRotationHeld.cfg` | `HeldLives` | `setSuspended()` on Core 0 calls an engine that Core 1 may retire and Core 0 destroy meanwhile (`RotationManager.cpp:460`); `docs/ARCHITECTURE.md:522` promises "zero use-after-free" |

One more is confirmed: `MCRotationSettles.cfg` checks `EditTakesEffect` under `FairSpec`, on a board with
PSRAM, 4 objects and 3 slots, because it speaks of behaviours in which a slot is always free (998,790
states, little more than two minutes). Once edits stop, what is shown is what is listed, it is activated,
and no engine is kept for an instance that is not listed. Its safety counterpart, `ListedWhenDrained`, is
checked on the tight board and proved.

## 5. Assumptions

- *Memory.* Atomic accesses are sequentially consistent in the models. The code uses acquire and
  release orders. The one place where the difference matters is a reader that pins a slot and then
  reads `_publishedSlot`, against a writer that stored `_publishedSlot` and then reads the counters;
  there the models lean on the unlock and lock of `_mutex` between two publications and on the atomic
  read-modify-write of the counter. Plain data (a snapshot being written, a slot or a cell of a ring,
  the card, a poster) is not assumed to be safe: `BorrowedSlotStable`, `NoSlotRace`, `UnreadIntact`,
  `CardWhole` and `PosterNotDangling` say what two tasks may do to it.
- *`config_snapshot`.* Weak fairness for each guard's acquisition and its release (a guard
  is a C++ scope), for the owner of the mutex and for the worker, whose wait has a timeout of one
  second. Strong fairness for the worker's attempts, because `checkDeferredPublish()` uses `try_lock()`
  and goes back to sleep when the mutex is taken: without it a schedule in which every attempt falls
  into a mutation defers for ever. The mutex is held for microseconds and attempts are a second
  apart. `AcquireCall` and `Lock` have no fairness: nobody has to borrow or to mutate.
- *`engine_retirement`.* Weak fairness for the lifecycle task and for a call of `retire()`
  that has begun; nothing forces Core 1 to retire or to poll.
- *`arbiter`, `display_sessions`, `MCRotationSettles.cfg`.* Weak fairness for the loop of Core 1, which
  runs for ever; in the arbiter also for `LightUp` (nights end); in the rotation, whose run is about
  safety only, for the web server to finish a handler it
  has begun, for a publication that was put off (`DeferralEnds` of `config_snapshot` is why it comes), for
  `setSuspended()` to return and for Core 0 to destroy what it took. Nobody has to edit,
  ask or withdraw: `RotationReturns` and `EditTakesEffect` are about behaviours in which they stop.
- *`webui_window`.* Weak fairness for Core 1, the clock, a handler that has begun and a worker that is in
  its scope. Handlers are short against a tick; a frame need not be.
- *`showcase_turn`.* Weak fairness for Core 1's allocation, its waits and the gate of `update()`, and for the
  worker, all of whose requests have deadlines. The safety timeout of `isFinished()` is left out, so that
  `TurnEnds` does not rest on it.
- *`showcase_card`.* Strong fairness for the worker: it waits for the drawing flag with a bound of 40 or
  50 ms, so a Core 1 that draws frame after frame cannot shut it out. The model lets it go on only when
  the flag is down: that a drawing is over within the bound is assumed, and so is that a card is
  on the panel for its dwell time before the worker cuts it.
- *`ingame_session`.* Weak fairness for the handler and the worker. Strong fairness for a probe that settles
  whether there is a broker: after two failed probes the code takes it for unreachable. Nothing makes a
  DELETE arrive.
- *`stream_ring`.* Weak fairness for the download, the producer and the decoder. Nothing makes a read of the
  card succeed.
- *`storage`.* A file operation that returned is durable, an open for writing truncates, and a rename
  is atomic. `ConfigSanitizer` leaves a whole file as it is. No liveness is claimed.

## 6. Proofs

Eight modules hold proofs. Three of them cover two models each, which share no variable:
`ConfigProofs` the configuration in memory (`ConfigSnapshot`) and on the card (`ConfigStorage`),
`EngineLifecycleProofs` the engines in the ring (`EngineRetirement`) and in the sessions
(`DisplaySessions`), `StreamProofs` the clips of the card (`StreamRing`) and of the network
(`InGameSession`). Each proof rests on the ASSUMEs of its model alone, which TLC evaluates for the
constants of the runs (two theorems of the arbiter state one hypothesis more, see below), and holds
whatever value the bounds have that make the state spaces finite. Every invariant and every action
property that a passing run checks is stated by one of these theorems, and so are the three
refinements.

| Theorem | Statement |
|---|---|
| `ConfigProofs!TypeCorrect` | `Spec => []TypeOK`; in particular no reader counter falls below zero |
| `ConfigProofs!BorrowsAreStable` | `Spec => []BorrowedSlotStable` |
| `ConfigProofs!NoMutationLost` | `Spec => []NothingLost` |
| `ConfigProofs!PublicationMovesForward` | `Spec => PublicationAdvances` |
| `ConfigProofs!Linearizable` | `Spec => ImplementsRegister`, the refinement of `ConfigRegister` |
| `ConfigProofs!StorageTypeCorrect` | `StorageSpec => []StorageTypeOK`; no file holds a version that was never given |
| `ConfigProofs!FilesNeverTorn` | `StorageSpec => []NeverTorn`, for any number of faults and of power losses |
| `ConfigProofs!SeededKept` | `StorageSpec => []SeededSurvives` |
| `ConfigProofs!SecondCopyHolds` | `StorageSpec => []SecondCopySurvives`, for the gating files and the Wi-Fi credentials |
| `EngineLifecycleProofs!RetirementTypeCorrect` | `Spec => []TypeOK`; the eight-bit counter neither overflows nor falls below zero |
| `EngineLifecycleProofs!SlotsNeverRace` | `Spec => []NoSlotRace` |
| `EngineLifecycleProofs!ReclaimedIsReclaimed` | `Spec => []ReclaimedWhenNotPending` |
| `EngineLifecycleProofs!RingImplementsHandover` | `Spec => ImplementsHandover`, the refinement of `EngineHandover` |
| `EngineLifecycleProofs!SessionTypeCorrect` | `SessionSpec => []SessionTypeOK`; the stack never outgrows its places |
| `EngineLifecycleProofs!AlertsActivated` | `SessionSpec => []DrawnIsActivated` |
| `EngineLifecycleProofs!ParentsStayInOrder` | `SessionSpec => []ParentsInOrder` |
| `DisplayArbiterProofs!SourcesFindRoom` | `Spec => []RoomForEverySource` |
| `DisplayArbiterProofs!RequestIdsDiffer` | `Spec => []DistinctIds` |
| `DisplayArbiterProofs!TableAgrees` | if the queue holds the commands of one iteration, `Spec => []AgreesUnlessDropped` |
| `DisplayArbiterProofs!ArbiterTypeCorrect` | `Spec => []TypeOK`; the decision is always a request |
| `DisplayArbiterProofs!MostUrgentDecided` | `Spec => DecidesMostUrgent`: no active request is more urgent than the decision |
| `DisplayArbiterProofs!NoEnginePassedOver` | if the queue holds the commands of one iteration, `Spec => UrgentShown`: no decision is less urgent than what an engine last asked for |
| `RotationProofs!TypeCorrect` | `Spec => []TypeOK`; a free object for every engine that is made |
| `RotationProofs!NoPointerKept` | `Spec => []SessionEngineLives` |
| `RotationProofs!OneEngineActive` | `Spec => []OneActive`, but for the engines called out of turn |
| `RotationProofs!NoneOutOfDate` | `Spec => []RecreatedUnlessDropped`, but for actions handled before their change was published |
| `RotationProofs!NothingUnlisted` | `Spec => []ListedWhenDrained`, unless a RESET was dropped or handled before its list was published |
| `WebUiWindowProofs!WindowTypeCorrect` | `Spec => []TypeOK` |
| `WebUiWindowProofs!RegisterAlwaysTruthful` | `Spec => []RegisterTruthful` |
| `WebUiWindowProofs!NoWindowShortened` | `Spec => []ShortenedOnlyInReset` |
| `ShowcaseTurnProofs!TypeCorrect` | `Spec => []TypeOK` |
| `ShowcaseTurnProofs!NeverTwoWorkers` | `Spec => []OneWorker` |
| `ShowcaseTurnProofs!ScratchNeverFreed` | `Spec => []ScratchSafe` |
| `ShowcaseTurnProofs!BuffersSurrendered` | `Spec => []Surrendered` |
| `ShowcaseTurnProofs!CardKeptBetweenItems` | `Spec => []FollowUpKeepsCard` |
| `ShowcaseCardProofs!TypeCorrect` | `Spec => []TypeOK` |
| `ShowcaseCardProofs!PosterSafe` | `Spec => []PosterNotDangling` |
| `ShowcaseCardProofs!RingSafe` | `Spec => []RingThereWhenDecoded` |
| `ShowcaseCardProofs!CardNeverTorn` | `Spec => []CardWhole` |
| `ShowcaseCardProofs!PosterBeside` | `Spec => []PosterBesideItsCard` |
| `StreamProofs!RingTypeCorrect` | `Spec => []TypeOK`; both indices stay below twice the capacity |
| `StreamProofs!UnreadBytesStay` | `Spec => []UnreadIntact` |
| `StreamProofs!RingImplementsChannel` | `Spec => ImplementsChannel`, the refinement of `ByteChannel` |
| `StreamProofs!GameTypeCorrect` | `GameSpec => []GameTypeOK` |
| `StreamProofs!PlayedGame` | `GameSpec => []PlayedGameOnly` |

Few of these invariants are inductive as they stand; `IInv` in each module, and `StorageInv`,
`SessionInv` and `GameInv` for the second model of the three, say what has to be added.

**Snapshots.** That a borrowed slot is not written says nothing about a reader that has loaded the index
and not yet pinned it.

- `ReadersCountPins`: each counter is the number of guards between their `fetch_add` and `fetch_sub`,
  so a slot the writer finds at zero has no borrower (`ZeroMeansFree`). This needs finite sets and
  cardinality, hence `PinCounted` and `UnpinCounted`.
- `OwnerRuns`: the program counter of the publication belongs to the owner of the mutex.
- `TargetPrivate`: the slot being written is neither published nor borrowed. A guard may pin it
  *after* the search; it then reads `_publishedSlot` again, finds another slot and lets go. That is why
  the invariant speaks of guards that hold, not of guards that pin.
- `OthersSealed`: only the slot being written may be incomplete.
- `Contents`: what the published slot and the target contain, in each phase.

`GuardStepInvariant`, `WriterStepInvariant` and `WorkerStepInvariant` show that the actions keep it,
and `GuardRefines`, `WriterRefines` and `WorkerRefines` map each step to a step of the register or
to a stutter: `AcquireCheck` is the borrow, `Store` the publication, `Mutator` the mutation.

**Retirement.** `RoomKept` and `EngineKept` say that what each core found out about the ring stays true
while it acts on it, since only the other core can move the other index, and only in its favour.
`Contents` tells which places hold an engine, `Counted` that the eight-bit counter is the length of the
ring plus the engine at either end of it, `Polled` that the polling core hands nothing over meanwhile,
and `Accounted` that no engine falls between two owners. `ReclaimedWhenNotPending` follows from the last
three. The wrap-around of the indices is in `SuccWraps`, `PublishMoves` and their neighbours, and the
refinement maps the ring to a sequence.

**Sessions.** `DrawnIsActivated` speaks of a frame in which the session follows the decision. Its
strengthening `OwnEngineOn` speaks of every state: the session of a source with an engine of its own has that
engine and the engine is on, because a transition activates or resumes what becomes current *after* it has
paused or deactivated what ceases to be, the expired entries of the stack included; and an engine
that has no instance in the rotation is nobody else's (`EngineOfSource`).
For the stack, `FreshRequested` says that what is marked as current, in the session or below it, is a request
that stands (a cancelled one is not purged at once, but loses its mark), and `Above` that no marked entry is
more urgent than the session on top of it, or of its source. Together they are kept by a push, since the
arbiter decides for the most urgent request, and by a pop, since the search from the top of the stack
takes away everything it passed over.

**Storage.** The invariant has two halves, because a fault takes one of them away. `Sound` holds through
every fault and loss of power: `JobShape` says what a call still has to do at each of its operations,
`TextFits` that what will be the file of a domain is whole before it gets its name, and with them
`NeverTorn` is kept. `AllKept` holds while `Calm`: nothing has failed, or power was lost once where renames
work and the heap is not low. `Claimed` are the items it then speaks of, all of them or those the boot looks for
twice (`Twice`): the files that gate the boot and the Wi-Fi credentials, but not the connections beside
them, which the heal may leave as they are. `FieldsKept` says of the fields, `FilesKept` of the domain files, `TextKept` of what is on
its way and `AskedKept` of the files already written by a save, that they are as recent as what was
acknowledged or asked; `SecondCopyKept` that `/config.json` is, except while it is being rewritten, when
all domain files are there. From these follows `BootKept`: when the power is off, either every domain
file has what was acknowledged or `/config.json` has. `NoRepair` keeps the torn-file repair out of that case.
The boot is then a matter of cases (`FoundSomewhere`): the domain files, the migration, or the network
healed from the first backup that has it. The order of the files matters only through its having a least
place for every set that is due (`FirstIn`), which is well-foundedness of the natural numbers and no
induction over data.

**Arbiter.** `TableOf` (slot 0 is the rotation's, every other one belongs to a source, one to each) and a
count of the occupied slots give `SourcesFindRoom`; `IdsOf` gives `RequestIdsDiffer`. `TableAgrees` needs
more: `Agreement` says of every engine that the *latest* command of it that still waits in the queue, or
its slot if none waits, is what was last sent, and `QuietLoop` counts the commands of an iteration that
never stalls (`RoomForOneMore`), so that the queue is never full. The assumption
`QueueHoldsIteration == QueueCapacity >= Len(Order) + WebBurst` is stated with the theorem; the firmware
meets it as long as at most eleven web requests fall into one frame.

What `evaluate()` decides rests on `selectBestSlot()`, whose order compares three keys. `BestIsBest` shows
that every table with an active slot has one that nothing beats: a slot that the fewest others beat, which
exists because a set of numbers has a least one. `MostUrgentDecided` needs nothing else of the
producers; `NoEnginePassedOver` joins it to `Agreement`: with the queue drained, each engine's last
request is in the table, and so the decision is no less urgent.

**Rotation.** `SessionEngineLives` and `OneActive` are nearly inductive: they need that the slot about to
be drawn is one of the list Core 1 has a guard on (`InView`), and that each handler takes the engine from
the session *before* it hands it to the ring (`Retired`, `Switched`). `Strayed` is the step of `OneActive`
that every action shares: an action that activates nothing but the current engine, or accounts for the
ones it called out of turn, keeps it. That an eviction always leaves a free slot and a free object is
counted in `ObjectLeft` and `RingFits`: the objects are fresh names, and
`Objects >= MaxSlots + RingCapacity` says that the model never runs out of them. `RecreatedUnlessDropped`
speaks of an empty queue, its strengthening `Announced` of every state: for each instance a RECREATE is
due (in the queue, in the hands of the web server, or handled too late), or its engine and the published
configuration are of the type in the fields (`SameKind`), and of their settings unless a NOTIFY is due or the
web server has yet to tell the instances (`SameText`, `Telling`). It speaks of engine, published snapshot
and fields at once, because an engine that is made now is made from a snapshot that may be replaced later
without another action. `ListedWhenDrained` has `Settled` in the same way: unless a RESET is due, the list in
the fields is the published one, the pool and the current instance are of it, the index is one of its
positions whenever a switch is about to use it, and the list `loop()` has a guard on is this one
(`LoopSettled` for the steps of the loop, `ResetSettles` for the RESET that is handled in time). `LastInWeb` says that a handler of the settings changes the fields before it tells
the published instances.

**Window.** For the register: `MarkedFirst` (the engine marks it before it says it is ready),
`ClearedLast` (it clears it after saying that it is not) and `MarkOwned` (a worker's mark is that of a
worker in its scope). For the window a browser was granted, `WindowInv`: unless a command was lost, what
the arbiter holds reaches as far as the deadline (`Reaches`) and as every grant (`Owing`); and as long as no
handler has met the reset, the atomics tell each handler, at each of its loads, of the window that is owed,
or nothing is up and it asks for a cold one (`Handled`). The proof follows the loads and stores of
`requestWebUiSyncWindow()` in turn.

**Showcase, the turn.** `Single` makes `m_taskAlive` the truth about the tasks, from which
`NeverTwoWorkers` follows at once. `Placed` and `Awaiting` say where Core 1 may be while a worker exists,
`Emptied` that nothing is left that could allocate once an engine is off the panel. `TaskGood` collects what
a worker knows: in particular that it was told of a new configuration only at the end of its turn
(`Told`), without which a follow-up could lose its card. The exceptions in the properties are those the
code has: a worker that outlasts the wait (`late`), a turn that takes such a worker over (`revived`).

**Showcase, the card.** `SeqLock` and `CopyOfNow` are the argument of a sequence lock: as long as the number
Core 1 began with is still there, its copy, half or whole, is the card of now. The poster is safe because
the drawing flag is up whenever its pointer is held (`Flagged`, `DrawnFrom`), and the worker frees it only
with the flag down, after taking the pointer away; `RingFirst` is the same for the ring. `PosterOf` and
`PhaseOf` tie the buffer and the phase to the card that is out, which gives `PosterBesideItsCard`.

**Stream.** `UnreadIntact`, `ProducerInv` and `ConsumerInv`: what each side knows of the other's index is
an under-estimate of the room, or of the bytes, it has. `sent = got + Used` ties the bytes put into the
ring to those in it, so that a read that fails, which moves `read` but neither index, disturbs nothing. The length of the clip is assumed to be a
natural number (`TotalAssumption`): it follows from the frames' being numbers only by induction over
their sequence.

**In-game.** `PlayedGameOnly` compares the worker's copy of the job with what Core 1 knows. `Tokens` says
that tokens only grow and that Core 1 takes a new one *before* it touches the fields of the job, so a copy
with the token of now that was not taken in the middle of a change is the job of now (`CopyIsJob`). A
copy that was taken in the middle, or with an allowance out of date, is marked (`odd`): it is the exception
the property makes, because `readJobSlot()` gives up after four tries and copies what is there.
`LaunchOnly` adds that the worker gets as far as a session only for a launch.

Only model-checked, because the provers cannot reach it: all liveness (`DeferralEnds`,
`RetiredEnginesLeave`, `StandingRequestShown`, `RotationReturns`, `EditTakesEffect`, `WindowEnds`,
`TurnEnds`, `CutEnds`, `EveryFrameShown`, `ExitedGameLeaves`, `QueueEmptied`, `LaunchTaken`), which rests on
fairness and so on ENABLED, and what needs induction over data, such as `TotalAssumption` above.

## 7. Not modelled

- *Sharing that is left out.* The SD lock, the memory watermarks of the network budget and the TLS
  handshake lock; the reconnect task, which shares `PubSubClient` with the loop of Core 1; the marquee
  art of `handleGameEvent()` and the two MQTT transports; the audio session manager.
- *Showcase and in-game engine.* JSON and MQTT messages, layout and drawing, the PSRAM paths, the safety
  timeout of `isFinished()`; `stop()` of the in-game engine going on after 2 s (the reconnect task:
  1.2 s) while its worker is still in a request. A DELETE is never tried again: the code has no retry.
- *Stream.* Frames without a length, a decoder that rejects intact bytes, a download that ends early, the
  wait for the first frame of an in-game stream, the time limit of a session, frame pacing and the PSRAM
  preload. The 60 ms, 400 ms and 5 s without progress after which the producer ends a session are one step
  (`GiveUp`), taken when nothing can move any more.
- *Rotation and sessions.* A second entry for one instance, which two POSTs that create it leave when the
  first is not yet published. Transition effects, the duration of a slot (it may end at any time), the choice
  of pipeline and depth, and what `getOrCreateEngine()` does when every slot is taken by an engine that
  outlives the call.
- *Storage.* The instance files of `WorkingSetCache`, a legacy file the sanitizer has to change (its parse
  saves, even from a transient copy), headless builds. The arbiter's `ONE_SHOT` requests, which no code
  submits.
- *Timing.* Priorities of tasks, the duration of a frame and of waits, and exact deadlines: outside
  `WebUiWindow`, which has a clock, a timeout is a step that may happen.
- *The rest of the code base.* Drawing, HTTP, MQTT parsing, audio streaming, board support, boot, OTA,
  tables and assets: no shared protocol, or only I/O. Most lines of the repository are of this kind
  (embedded web pages, font and sprite data, decoders, pixel loops).
