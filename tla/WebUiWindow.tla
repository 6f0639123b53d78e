------------------------------ MODULE WebUiWindow ------------------------------
(* The WEBUI_SYNC window of a board without PSRAM.  The web server (Core 0) asks   *)
(* for it with a request flag, a deadline, the activity register of NetworkBudget  *)
(* and a TIMED display request; Core 1 opens it when the request wins and resets   *)
(* the same atomics when it has expired; the network workers (Core 0) look at them *)
(* before a transfer and mark the register during one.  Every load and store of an *)
(* atomic is a step.  The arbiter is reduced to what it does with WEBUI_SYNC: its  *)
(* priority is the highest, so the window is shown when its slot is active.        *)
EXTENDS Integers, Sequences

CONSTANTS
    Workers,        \* the tasks that open MQTT or stream sockets
    TailWindow,     \* kBootstrapTailWindowMs, in ticks of the clock
    ColdWindow,     \* the longer windows (staging, cold load, low heap)
    Room            \* WEBUI_SYNC commands the arbiter's queue has room for

Windows == {TailWindow, ColdWindow}
Margin == 1         \* the 100 ms of acquireOrExtendWindowMs()
Past == -1          \* a deadline that is over
Never == 0          \* no active slot, nothing owed

ASSUME WindowAssumption == TailWindow \in Nat /\ ColdWindow \in Nat /\ 0 < TailWindow /\ TailWindow < ColdWindow /\ Room \in Nat \ {0}

VARIABLES
    requested,      \* s_requested
    ready,          \* s_readyForServing
    hasDeadline,    \* s_hasDeadline
    deadline,       \* s_syncDeadlineMs - millis()
    activity,       \* dmdNetActivityStorage()
    queue,          \* SUBMIT commands in flight: their timeout_ms
    slot,           \* what is left of the TIMED request of WEBUI_SYNC
    shown,          \* the session of DisplayRuntime is WEBUI_SYNC
    dark,           \* the loop takes its early return: the panel is off
    web,            \* the handler: its next step, the window it asks for, `active`
    core1,          \* Core 1's next step
    worker,         \* what each worker is doing
    \* what the properties compare with
    owed,           \* time until the last window granted to a browser is over
    lost,           \* the last SUBMIT found the queue full
    raced           \* a handler asked while Core 1 was resetting

flags == <<requested, ready>>
display == <<queue, slot, shown, dark>>
ghosts == <<owed, lost, raced>>
vars == <<flags, hasDeadline, deadline, activity, display, web, core1, worker, ghosts>>

Transfers == {"Mqtt", "Stream"}

TypeOK ==
    /\ requested \in BOOLEAN /\ ready \in BOOLEAN /\ hasDeadline \in BOOLEAN
    /\ deadline \in Past .. ColdWindow
    /\ activity \in Transfers \cup {"Idle", "WebUiSync"}
    /\ queue \in Seq(Windows) /\ Len(queue) <= Room
    /\ slot \in Never .. ColdWindow /\ shown \in BOOLEAN /\ dark \in BOOLEAN
    /\ web \in [at : {"idle", "active", "has", "left", "deadline", "mark", "request", "covered",
                      "register", "ask", "submit"},
                window : Windows, active : BOOLEAN]
    /\ core1 \in {"loop", "ready", "reset1", "reset2", "reset3", "reset4", "reset5"}
    /\ worker \in [Workers -> Transfers \cup {"idle", "clear"}]
    /\ owed \in Never .. ColdWindow /\ lost \in BOOLEAN /\ raced \in BOOLEAN

Init ==
    /\ requested = FALSE /\ ready = FALSE /\ hasDeadline = FALSE /\ deadline = Past
    /\ activity = "Idle" /\ queue = <<>> /\ slot = Never /\ shown = FALSE /\ dark = FALSE
    /\ web = [at |-> "idle", window |-> ColdWindow, active |-> FALSE]
    /\ core1 = "loop" /\ worker = [w \in Workers |-> "idle"]
    /\ owed = Never /\ lost = FALSE /\ raced = FALSE

--------------------------------------------------------------------------------
(* The web server: AppRuntime::requestWebUiSyncWindow(), one request at a time.    *)

At(step) == web.at = step
Goto(step) == web' = [web EXCEPT !.at = step]
Resetting == core1 \notin {"loop", "ready"}
HandlerKeeps == UNCHANGED <<display, core1, worker>>

(* A cold page or a lack of memory asks for a long window at any time, the requests  *)
(* after it only keep one alive that is already there.                             *)
Ask(d) ==
    /\ At("idle") /\ (d = TailWindow => requested \/ ready)
    /\ web' = [web EXCEPT !.at = "active", !.window = d]
    /\ raced' = (Resetting \/ (raced /\ (owed # Never \/ slot # Never \/ queue # <<>>)))
    /\ HandlerKeeps /\ UNCHANGED <<flags, hasDeadline, deadline, activity, owed, lost>>

ReadActive ==
    /\ At("active")
    /\ web' = [web EXCEPT !.at = "has", !.active = requested \/ ready]
    /\ HandlerKeeps /\ UNCHANGED <<flags, hasDeadline, deadline, activity, ghosts>>

ReadNothing ==                  \* mutant
    /\ At("has") /\ Goto("deadline")
    /\ HandlerKeeps /\ UNCHANGED <<flags, hasDeadline, deadline, activity, ghosts>>

ReadHasDeadline ==
    /\ At("has")
    /\ Goto(IF web.active /\ hasDeadline THEN "left" ELSE "deadline")
    /\ HandlerKeeps /\ UNCHANGED <<flags, hasDeadline, deadline, activity, ghosts>>

ReadDeadline ==
    /\ At("left")
    /\ Goto(IF deadline >= web.window + Margin THEN "register" ELSE "deadline")
    /\ HandlerKeeps /\ UNCHANGED <<flags, hasDeadline, deadline, activity, ghosts>>

WriteDeadline ==
    /\ At("deadline") /\ Goto("mark") /\ deadline' = web.window
    /\ HandlerKeeps /\ UNCHANGED <<flags, hasDeadline, activity, ghosts>>

WriteHasDeadline ==
    /\ At("mark") /\ Goto("request") /\ hasDeadline' = TRUE
    /\ HandlerKeeps /\ UNCHANGED <<flags, deadline, activity, ghosts>>

(* markRequested(), and the answer 0 of a window that covers what is asked.         *)
MarkActivity ==
    /\ web.at \in {"request", "register"}
    /\ Goto(IF At("request") THEN "ask" ELSE "covered") /\ activity' = "WebUiSync"
    /\ HandlerKeeps /\ UNCHANGED <<flags, hasDeadline, deadline, ghosts>>

MarkRequested ==
    /\ web.at \in {"ask", "covered"} /\ requested' = TRUE
    /\ Goto(IF At("ask") THEN "submit" ELSE "idle")
    /\ owed' = IF At("covered") /\ owed < web.window THEN web.window ELSE owed
    /\ HandlerKeeps /\ UNCHANGED <<ready, hasDeadline, deadline, activity, lost, raced>>

(* The queue is shared with every other source: it may be full at any time.         *)
Submit ==
    /\ At("submit") /\ Goto("idle")
    /\ \/ /\ Len(queue) < Room
          /\ queue' = Append(queue, web.window) /\ lost' = FALSE
          /\ owed' = IF owed < web.window THEN web.window ELSE owed
       \/ lost' = TRUE /\ UNCHANGED <<queue, owed>>
    /\ UNCHANGED <<flags, hasDeadline, deadline, activity, slot, shown, dark, core1, worker, raced>>

Web == \/ \E d \in Windows : Ask(d)
       \/ ReadActive \/ ReadHasDeadline \/ ReadDeadline \/ WriteDeadline
       \/ WriteHasDeadline \/ MarkActivity \/ MarkRequested \/ Submit

--------------------------------------------------------------------------------
(* Core 1: DisplayRuntime::update(), and the lifecycle of WebUiSyncEngine.          *)

Expired(s) == s = Never
Last(s) == s[Len(s)]

(* evaluate() drains the queue, each SUBMIT restarting the timer, and clears what    *)
(* has expired.  The session follows: activate() marks the register first, the     *)
(* deactivate() of the engine is resetState().  A dark panel is served only while   *)
(* somebody asks.                                                                  *)
SyncWanted == requested \/ ready
ServedWhenReady == ready        \* mutant
ServedInTheDark == SyncWanted

Update ==
    /\ core1 = "loop" /\ (dark => ServedInTheDark)
    /\ LET left == IF queue = <<>> THEN slot ELSE Last(queue) IN
       /\ queue' = <<>> /\ slot' = left
       /\ IF Expired(left) /\ shown THEN core1' = "reset1" /\ UNCHANGED activity
          ELSE IF ~Expired(left) /\ ~shown THEN core1' = "ready" /\ activity' = "WebUiSync"
          ELSE UNCHANGED <<core1, activity>>
       /\ shown' = ~Expired(left)
       /\ raced' = (raced \/ (Expired(left) /\ shown /\ ~At("idle")))
    /\ UNCHANGED <<flags, hasDeadline, deadline, dark, web, worker, owed, lost>>

Activated ==
    /\ core1 = "ready" /\ core1' = "loop" /\ ready' = TRUE
    /\ UNCHANGED <<requested, hasDeadline, deadline, activity, display, web, worker, ghosts>>

(* resetState(), store by store; clearDmdNetActivityIf(WebUiSync) is a CAS.         *)
ClearIf(act) == IF activity = act THEN "Idle" ELSE activity
Reset ==
    /\ Resetting
    /\ core1' = CASE core1 = "reset1" -> "reset2" [] core1 = "reset2" -> "reset3"
                  [] core1 = "reset3" -> "reset4" [] core1 = "reset4" -> "reset5"
                  [] core1 = "reset5" -> "loop"
    /\ hasDeadline' = (hasDeadline /\ core1 # "reset1")
    /\ deadline' = IF core1 = "reset2" THEN Past ELSE deadline
    /\ ready' = (ready /\ core1 # "reset3")
    /\ requested' = (requested /\ core1 # "reset4")
    /\ activity' = IF core1 = "reset5" THEN ClearIf("WebUiSync") ELSE activity
    /\ UNCHANGED <<display, web, worker, ghosts>>

PowerPanel ==
    /\ dark' = ~dark
    /\ UNCHANGED <<flags, hasDeadline, deadline, activity, queue, slot, shown, web, core1, worker, ghosts>>

Core1 == Update \/ Activated \/ Reset

--------------------------------------------------------------------------------
(* The workers.                                                                    *)

WorkerKeeps == UNCHANGED <<flags, hasDeadline, deadline, display, web, core1, ghosts>>

(* The loop of a worker goes on when no window is asked for, open or marked ...     *)
Look(w) ==
    /\ worker[w] = "idle" /\ ~requested /\ ~ready /\ activity # "WebUiSync"
    /\ worker' = [worker EXCEPT ![w] = "clear"]
    /\ UNCHANGED activity /\ WorkerKeeps

(* ... and some time later enters the scope of ScopedDmdNetActivity, whose store    *)
(* never overwrites WebUiSync, or gives up before it.                              *)
RegisteredAlways(act) == act            \* mutant
Registered(act) == IF activity = "WebUiSync" THEN activity ELSE act
Enter(w, act) ==
    /\ worker[w] = "clear"
    /\ worker' = [worker EXCEPT ![w] = act]
    /\ activity' = Registered(act) /\ WorkerKeeps

GiveUp(w) ==
    /\ worker[w] = "clear" /\ worker' = [worker EXCEPT ![w] = "idle"]
    /\ UNCHANGED activity /\ WorkerKeeps

Leave(w) ==
    /\ worker[w] \in Transfers
    /\ worker' = [worker EXCEPT ![w] = "idle"]
    /\ activity' = ClearIf(worker[w]) /\ WorkerKeeps

Work(w) == Look(w) \/ GiveUp(w) \/ Leave(w) \/ \E act \in Transfers : Enter(w, act)

--------------------------------------------------------------------------------
(* One tick of millis().  A handler is short against a tick, a frame need not be.   *)
Older(t, floor) == IF t > floor THEN t - 1 ELSE t
Tick ==
    /\ At("idle")
    /\ deadline' = Older(deadline, Past)
    /\ slot' = Older(slot, Never)
    /\ owed' = Older(owed, Never)
    /\ UNCHANGED <<flags, hasDeadline, activity, queue, shown, dark, web, core1, worker, lost, raced>>

Next == Web \/ Core1 \/ PowerPanel \/ Tick \/ \E w \in Workers : Work(w)

(* The handler's steps after Ask are one call, Core 1 runs its loop, time passes.   *)
Fairness ==
    /\ WF_vars(Web /\ ~At("idle")) /\ WF_vars(Core1) /\ WF_vars(Tick)
    /\ \A w \in Workers : WF_vars(Leave(w))

Spec == Init /\ [][Next]_vars /\ Fairness

--------------------------------------------------------------------------------

(* While the window is open the register says so, and a worker's mark is in it only *)
(* while such a worker is in its scope: the network tasks wait for an Idle register *)
(* and must neither be let in early nor be kept out for ever.                       *)
RegisterTruthful ==
    /\ ready => activity = "WebUiSync"
    /\ activity \in Transfers => \E w \in Workers : worker[w] = activity

(* Once the browsers are silent the window ends: flags down, register free.  The    *)
(* flags are set before the request that leads to their reset is sent; the only way *)
(* to leave them up for good is that this very request was lost.                   *)
WindowEnds ==
    <>[](At("idle") /\ ~lost) => <>[](~SyncWanted /\ activity # "WebUiSync")

(* A browser that was granted a window has it for as long as it asked, up to the    *)
(* margin, whatever later requests ask for ("without shortening a longer window    *)
(* already in flight", WebUiSyncEngine.h:66).                                      *)
Covered == IF queue # <<>> THEN Last(queue) ELSE slot
NeverShortened == ~lost => Covered >= owed - Margin

(* ... and the only exception is a request made while the last window is being      *)
(* taken down, whose deadline the reset overwrites.                                *)
ShortenedOnlyInReset == raced \/ NeverShortened
================================================================================
