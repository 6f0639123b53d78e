---------------------------- MODULE WebUiWindowProofs ----------------------------
(* The activity register tells the truth, whatever the number of workers, the      *)
(* length of the windows and the room in the arbiter's queue: no store of the      *)
(* three parties that share it without a lock undoes what another one relies on,   *)
(* and a window that was granted is shortened only by a request that met the reset *)
(* of the last one.                                                                *)
EXTENDS WebUiWindow, SequenceTheorems, TLAPS

--------------------------------------------------------------------------------
(* The engine marks the register before it says it is ready, and clears it after   *)
(* it has said it is not: both flanks of the window are inside the mark.           *)
MarkedFirst == ready \/ core1 = "ready" => activity = "WebUiSync"
ClearedLast == core1 \in {"reset4", "reset5"} => ~ready

(* A worker's mark in the register is that of a worker in its scope.               *)
MarkOwned == activity \in Transfers => \E w \in Workers : worker[w] = activity

IInv == TypeOK /\ MarkedFirst /\ ClearedLast /\ MarkOwned

(* What a handler holds between two of its steps.                                  *)
Handlers == [at : {"idle", "active", "has", "left", "deadline", "mark", "request", "covered",
                   "register", "ask", "submit"},
             window : Windows, active : BOOLEAN]

--------------------------------------------------------------------------------
(* What a step that touches neither the register nor Core 1 nor a worker keeps.    *)
LEMMA Untouched ==
    ASSUME MarkedFirst, ClearedLast, MarkOwned,
           UNCHANGED <<ready, core1, activity, worker>>
    PROVE  MarkedFirst' /\ ClearedLast' /\ MarkOwned'
  BY DEF MarkedFirst, ClearedLast, MarkOwned

LEMMA InitInv == Init => IInv
  <1> SUFFICES ASSUME Init  PROVE IInv
    OBVIOUS
  <1>1. TypeOK
    <2> USE DEF Init
    <2>1. /\ requested \in BOOLEAN /\ ready \in BOOLEAN /\ hasDeadline \in BOOLEAN
          /\ shown \in BOOLEAN /\ dark \in BOOLEAN /\ lost \in BOOLEAN /\ raced \in BOOLEAN
      BY Zenon
    <2>2. deadline \in Past .. ColdWindow /\ slot \in Never .. ColdWindow /\ owed \in Never .. ColdWindow
      BY WindowAssumption DEF Past, Never
    <2>3. activity \in Transfers \cup {"Idle", "WebUiSync"}
      OBVIOUS
    <2>4. queue \in Seq(Windows) /\ Len(queue) <= Room
      BY WindowAssumption
    <2>5. web \in [at : {"idle", "active", "has", "left", "deadline", "mark", "request", "covered",
                         "register", "ask", "submit"},
                   window : Windows, active : BOOLEAN]
      BY DEF Windows
    <2>6. core1 = "loop" /\ worker \in [Workers -> Transfers \cup {"idle", "clear"}]
      OBVIOUS
    <2> QED  BY <2>1, <2>2, <2>3, <2>4, <2>5, <2>6 DEF TypeOK
  <1>2. MarkedFirst /\ ClearedLast /\ MarkOwned
    BY DEF Init, MarkedFirst, ClearedLast, MarkOwned, Transfers
  <1> QED  BY <1>1, <1>2 DEF IInv

(* The web server marks the register and the flag, Core 1 only looks at both.      *)
LEMMA WebInv == IInv /\ Web => IInv'
  <1> SUFFICES ASSUME IInv, Web  PROVE IInv'
    OBVIOUS
  <1> USE DEF IInv, HandlerKeeps, flags, display, ghosts
  <1>1. Windows \subseteq Nat /\ Windows \subseteq Never .. ColdWindow /\ Windows \subseteq Past .. ColdWindow
    BY WindowAssumption DEF Windows, Never, Past
  <1>2. TypeOK'
    <2> web \in Handlers
      BY DEF TypeOK, Handlers
    <2>1. CASE \E d \in Windows : Ask(d)
      <3>1. PICK d \in Windows : Ask(d)
        BY <2>1
      <3>2. web' \in Handlers
        BY <3>1 DEF Ask, Handlers
      <3>3. raced' \in BOOLEAN
        BY <3>1 DEF Ask, Resetting, TypeOK
      <3> QED  BY <3>1, <3>2, <3>3 DEF TypeOK, Ask, Handlers
    <2>2. CASE ReadActive
      <3>1. web' \in Handlers
        BY <2>2 DEF ReadActive, Handlers, TypeOK
      <3> QED  BY <2>2, <3>1 DEF TypeOK, ReadActive, Handlers
    <2>3. CASE ReadHasDeadline
      BY <2>3 DEF TypeOK, ReadHasDeadline, Goto
    <2>4. CASE ReadDeadline
      BY <2>4 DEF TypeOK, ReadDeadline, Goto
    <2>5. CASE WriteDeadline
      BY <1>1, <2>5 DEF TypeOK, WriteDeadline, Goto
    <2>6. CASE WriteHasDeadline
      BY <2>6 DEF TypeOK, WriteHasDeadline, Goto
    <2>7. CASE MarkActivity
      BY <2>7 DEF TypeOK, MarkActivity, Goto
    <2>8. CASE MarkRequested
      BY <1>1, <2>8 DEF TypeOK, MarkRequested, Goto
    <2>9. CASE Submit
      <3>1. queue' \in Seq(Windows) /\ Len(queue') <= Room
        BY <2>9, AppendProperties, WindowAssumption DEF TypeOK, Submit
      <3>2. owed' \in Never .. ColdWindow /\ lost' \in BOOLEAN
        BY <1>1, <2>9 DEF TypeOK, Submit
      <3> QED  BY <2>9, <3>1, <3>2 DEF TypeOK, Submit, Goto
    <2> QED  BY <2>1, <2>2, <2>3, <2>4, <2>5, <2>6, <2>7, <2>8, <2>9 DEF Web
  <1>3. UNCHANGED <<ready, core1, worker>> /\ (activity' = activity \/ activity' = "WebUiSync")
    BY DEF Web, Ask, ReadActive, ReadHasDeadline, ReadDeadline, WriteDeadline, WriteHasDeadline,
           MarkActivity, MarkRequested, Submit
  <1>4. MarkedFirst' /\ ClearedLast' /\ MarkOwned'
    BY <1>3 DEF MarkedFirst, ClearedLast, MarkOwned, Transfers
  <1> QED  BY <1>2, <1>4

(* Core 1 marks the register before the flag goes up, and clears it, if it still   *)
(* is its own, after the flag is down.                                             *)
LEMMA Core1Inv == IInv /\ Core1 => IInv'
  <1> SUFFICES ASSUME IInv, Core1  PROVE IInv'
    OBVIOUS
  <1> USE DEF IInv, flags, display, ghosts
  <1>1. CASE Update
    <2> USE <1>1 DEF Update
    <2>1. slot' \in Never .. ColdWindow /\ queue' = <<>>
      <3>1. queue # <<>> => Last(queue) \in Windows
        BY DEF TypeOK, Last
      <3>2. Windows \subseteq Never .. ColdWindow
        BY WindowAssumption DEF Windows, Never
      <3> QED  BY <3>1, <3>2 DEF TypeOK
    <2>2. /\ core1' \in {"loop", "reset1", "ready"}
          /\ activity' = activity \/ activity' = "WebUiSync"
          /\ core1' = "ready" => activity' = "WebUiSync"
      BY DEF TypeOK
    <2>3. shown' \in BOOLEAN /\ raced' \in BOOLEAN
      BY DEF Expired, TypeOK
    <2>4. Room \in Nat /\ queue' \in Seq(Windows) /\ Len(queue') <= Room
      BY <2>1, WindowAssumption
    <2>5. TypeOK'
      BY <2>1, <2>2, <2>3, <2>4 DEF TypeOK
    <2>6. MarkedFirst' /\ ClearedLast' /\ MarkOwned'
      BY <2>2 DEF MarkedFirst, ClearedLast, MarkOwned, Transfers
    <2> QED  BY <2>5, <2>6
  <1>2. CASE Activated
    <2>1. TypeOK'
      BY <1>2 DEF TypeOK, Activated
    <2>2. MarkedFirst' /\ ClearedLast' /\ MarkOwned'
      BY <1>2 DEF Activated, MarkedFirst, ClearedLast, MarkOwned
    <2> QED  BY <2>1, <2>2
  <1>3. CASE Reset
    <2>1. core1 \in {"reset1", "reset2", "reset3", "reset4", "reset5"}
      BY <1>3 DEF Reset, Resetting, TypeOK
    <2>2. core1' \in {"loop", "reset2", "reset3", "reset4", "reset5"}
      BY <1>3, <2>1 DEF Reset
    <2>3. hasDeadline' \in BOOLEAN /\ ready' \in BOOLEAN /\ requested' \in BOOLEAN
      BY <1>3 DEF Reset, TypeOK
    <2>4. deadline' \in Past .. ColdWindow
      BY <1>3, WindowAssumption DEF Reset, TypeOK, Past
    <2>5. activity' = IF core1 = "reset5" /\ activity = "WebUiSync" THEN "Idle" ELSE activity
      BY <1>3 DEF Reset, ClearIf
    <2>u. UNCHANGED <<queue, slot, shown, dark, web, worker, owed, lost, raced>>
      BY <1>3 DEF Reset
    <2>6. TypeOK'
      <3>1. activity' \in Transfers \cup {"Idle", "WebUiSync"}
        BY <2>5 DEF TypeOK
      <3>2. /\ (queue \in Seq(Windows) /\ Len(queue) <= Room)'
            /\ (slot \in Never .. ColdWindow /\ shown \in BOOLEAN /\ dark \in BOOLEAN)'
            /\ (owed \in Never .. ColdWindow /\ lost \in BOOLEAN /\ raced \in BOOLEAN)'
        BY <2>u DEF TypeOK
      <3>3. web' \in Handlers
        BY <2>u DEF TypeOK, Handlers
      <3>4. worker' \in [Workers -> Transfers \cup {"idle", "clear"}]
        BY <2>u DEF TypeOK
      <3>5. core1' \in {"loop", "ready", "reset1", "reset2", "reset3", "reset4", "reset5"}
        BY <2>2
      <3> QED
        BY ONLY <2>3, <2>4, <3>1, <3>2, <3>3, <3>4, <3>5 DEF TypeOK, Handlers
    <2>7. MarkedFirst'
      BY <1>3, <2>1, <2>2, <2>5 DEF Reset, MarkedFirst, ClearedLast
    <2>8. ClearedLast'
      BY <1>3, <2>1 DEF Reset, ClearedLast
    <2>9. MarkOwned'
      BY <2>5, <2>u DEF MarkOwned, Transfers
    <2> QED  BY <2>6, <2>7, <2>8, <2>9
  <1> QED  BY <1>1, <1>2, <1>3 DEF Core1

(* A worker writes the register only when the window has not marked it, and clears *)
(* no mark but its own.                                                            *)
LEMMA WorkInv == ASSUME IInv, NEW w \in Workers, Work(w)  PROVE IInv'
  <1> USE DEF IInv, WorkerKeeps, flags, display, ghosts
  <1>1. CASE Look(w) \/ GiveUp(w)
    <2>1. worker' \in [Workers -> Transfers \cup {"idle", "clear"}] /\ activity' = activity
      BY <1>1 DEF Look, GiveUp, TypeOK
    <2>2. TypeOK'
      BY <1>1, <2>1 DEF TypeOK, Look, GiveUp
    <2>3. MarkedFirst' /\ ClearedLast'
      BY <1>1 DEF MarkedFirst, ClearedLast, Look, GiveUp
    <2>4. MarkOwned'
      BY <1>1 DEF MarkOwned, Transfers, Look, GiveUp, TypeOK
    <2> QED  BY <2>2, <2>3, <2>4
  <1>2. ASSUME NEW act \in Transfers, Enter(w, act)  PROVE IInv'
    <2>1. /\ worker' = [worker EXCEPT ![w] = act] /\ worker[w] = "clear"
          /\ activity' = IF activity = "WebUiSync" THEN activity ELSE act
      BY <1>2 DEF Enter, Registered
    <2>2. TypeOK'
      BY <1>2, <2>1 DEF TypeOK, Enter
    <2>3. MarkedFirst' /\ ClearedLast'
      BY <1>2, <2>1 DEF MarkedFirst, ClearedLast, Enter
    <2>4. MarkOwned'
      BY <1>2, <2>1 DEF MarkOwned, Transfers, TypeOK
    <2> QED  BY <2>2, <2>3, <2>4
  <1>3. CASE Leave(w)
    <2>1. /\ worker' = [worker EXCEPT ![w] = "idle"] /\ worker[w] \in Transfers
          /\ activity' = IF activity = worker[w] THEN "Idle" ELSE activity
      BY <1>3 DEF Leave, ClearIf
    <2>2. TypeOK'
      BY <1>3, <2>1 DEF TypeOK, Leave
    <2>3. MarkedFirst' /\ ClearedLast'
      BY <1>3, <2>1 DEF MarkedFirst, ClearedLast, Leave, Transfers
    <2>4. MarkOwned'
      BY <2>1 DEF MarkOwned, Transfers, TypeOK
    <2> QED  BY <2>2, <2>3, <2>4
  <1> QED  BY <1>1, <1>2, <1>3 DEF Work

LEMMA TickInv == IInv /\ (Tick \/ PowerPanel) => IInv'
  <1> SUFFICES ASSUME IInv, Tick \/ PowerPanel  PROVE IInv'
    OBVIOUS
  <1> USE DEF IInv, flags, ghosts
  <1>1. UNCHANGED <<ready, core1, activity, worker>>
    BY DEF Tick, PowerPanel
  <1>2. CASE Tick
    <2>1. deadline' \in Past .. ColdWindow /\ slot' \in Never .. ColdWindow /\ owed' \in Never .. ColdWindow
      BY <1>2, WindowAssumption DEF Tick, TypeOK, Older, Past, Never
    <2> QED  BY <1>1, <1>2, <2>1, Untouched DEF Tick, TypeOK
  <1>3. CASE PowerPanel
    BY <1>1, <1>3, Untouched DEF PowerPanel, TypeOK
  <1> QED  BY <1>2, <1>3

LEMMA StepInv == IInv /\ [Next]_vars => IInv'
  <1> SUFFICES ASSUME IInv, [Next]_vars  PROVE IInv'
    OBVIOUS
  <1>1. CASE Web
    BY <1>1, WebInv
  <1>2. CASE Core1
    BY <1>2, Core1Inv
  <1>3. ASSUME NEW w \in Workers, Work(w)  PROVE IInv'
    BY <1>3, WorkInv
  <1>4. CASE Tick \/ PowerPanel
    BY <1>4, TickInv
  <1>5. CASE UNCHANGED vars
    BY <1>5, Untouched DEF IInv, TypeOK, vars, flags, display, ghosts
  <1> QED  BY <1>1, <1>2, <1>3, <1>4, <1>5 DEF Next

LEMMA AlwaysInv == Spec => []IInv
  BY InitInv, StepInv, PTL DEF Spec

(* Every variable keeps its type; in particular no more commands wait than the     *)
(* arbiter's queue has room for, and no window is longer than the longest.         *)
THEOREM WindowTypeCorrect == Spec => []TypeOK
  <1>1. IInv => TypeOK
    BY DEF IInv
  <1> QED  BY <1>1, AlwaysInv, PTL

(* While the window is open the register says so, and a transfer in the register   *)
(* is one that is going on, for any number of workers.                             *)
THEOREM RegisterAlwaysTruthful == Spec => []RegisterTruthful
  <1>1. IInv => RegisterTruthful
    BY DEF IInv, MarkedFirst, MarkOwned, RegisterTruthful
  <1> QED  BY <1>1, AlwaysInv, PTL

--------------------------------------------------------------------------------
(* The window a browser was granted.  A handler that has written the deadline has  *)
(* not yet asked for it; until then, and unless the last request was lost, what    *)
(* the arbiter holds reaches as far as the deadline and as the grants.             *)
Writing == {"mark", "request", "ask", "submit"}
Reaches ==
    /\ web.at \in Writing => deadline <= web.window
    /\ ~lost /\ web.at \notin Writing => deadline <= Covered
    /\ ~lost /\ web.at \in {"register", "covered"} => web.window <= Covered
Owing == ~raced /\ ~lost => owed <= Covered

(* The atomics tell the next handler of the window that is owed; or nothing is up  *)
(* and only a long window can be asked for.                                        *)
Told == hasDeadline /\ SyncWanted /\ owed <= deadline
Down == ~SyncWanted /\ core1 = "loop" /\ queue = <<>> /\ slot = Never

(* What a handler that did not meet the reset knows at each of its steps.          *)
Handled ==
    /\ Resetting => At("idle") /\ queue = <<>> /\ slot = Never
    /\ core1 = "reset5" => ~requested
    /\ At("idle") => owed = Never \/ Told \/ Resetting \/ Down
    /\ At("active") => owed = Never \/ Told \/ web.window = ColdWindow
    /\ At("has") => owed = Never \/ (Told /\ web.active) \/ web.window = ColdWindow
    /\ At("left") => hasDeadline /\ (owed = Never \/ owed <= deadline \/ web.window = ColdWindow)
    /\ web.at \in {"deadline"} \cup Writing => owed <= web.window
    /\ web.at \in Writing => deadline = web.window
    /\ web.at \in {"request", "ask", "submit"} => hasDeadline
    /\ At("submit") => requested
    /\ web.at \in {"register", "covered"} =>
          hasDeadline /\ owed <= deadline /\ web.window < deadline

WindowInv == Reaches /\ Owing /\ (raced \/ Handled)

(* The numbers behind the variables.                                               *)
LEMMA Numbers ==
    ASSUME TypeOK
    PROVE  /\ TailWindow \in Nat /\ ColdWindow \in Nat /\ 0 < TailWindow /\ TailWindow < ColdWindow
           /\ deadline \in Int /\ -1 <= deadline /\ deadline <= ColdWindow
           /\ slot \in Nat /\ owed \in Nat /\ owed <= ColdWindow
           /\ Covered \in Nat
           /\ web.window \in {TailWindow, ColdWindow} /\ web.active \in BOOLEAN
           /\ queue \in Seq(Windows)
  <1>1. /\ TailWindow \in Nat /\ ColdWindow \in Nat /\ 0 < TailWindow /\ TailWindow < ColdWindow
        /\ deadline \in Int /\ -1 <= deadline /\ deadline <= ColdWindow
        /\ slot \in Nat /\ owed \in Nat /\ owed <= ColdWindow
        /\ queue \in Seq(Windows)
    BY WindowAssumption DEF TypeOK, Past, Never
  <1>2. web.window \in {TailWindow, ColdWindow} /\ web.active \in BOOLEAN
    BY DEF TypeOK, Windows
  <1>3. Covered \in Nat
    BY <1>1 DEF Covered, Last, Windows
  <1> QED  BY <1>1, <1>2, <1>3

LEMMA InitWindow == Init => WindowInv
  <1> SUFFICES ASSUME Init  PROVE WindowInv
    OBVIOUS
  <1>1. Covered = 0 /\ owed = 0 /\ deadline = -1 /\ web.at = "idle" /\ core1 = "loop"
    BY DEF Init, Covered, Never, Past
  <1>2. Reaches /\ Owing
    BY <1>1 DEF Reaches, Owing, Writing
  <1>3. Handled
    BY <1>1 DEF Handled, Never, At, Resetting, Writing
  <1> QED  BY <1>2, <1>3 DEF WindowInv

LEMMA WebWindow == IInv /\ WindowInv /\ Web => WindowInv'
  <1> SUFFICES ASSUME IInv, WindowInv, Web  PROVE WindowInv'
    OBVIOUS
  <1>0. /\ TailWindow \in Nat /\ ColdWindow \in Nat /\ 0 < TailWindow /\ TailWindow < ColdWindow
        /\ deadline \in Int /\ -1 <= deadline /\ deadline <= ColdWindow
        /\ slot \in Nat /\ owed \in Nat /\ owed <= ColdWindow
        /\ Covered \in Nat
        /\ web.window \in {TailWindow, ColdWindow} /\ web.active \in BOOLEAN
        /\ queue \in Seq(Windows)
        /\ web \in Handlers
        /\ Reaches /\ Owing /\ (raced \/ Handled)
    <2>1. TypeOK
      BY DEF IInv
    <2>2. web \in Handlers
      BY DEF IInv, TypeOK, Handlers
    <2> QED  BY <2>1, <2>2, Numbers DEF WindowInv
  <1> USE DEF At, Goto, HandlerKeeps, Resetting, SyncWanted, Never, Margin, Handlers, flags,
     display, ghosts
  <1>1. ASSUME NEW d \in Windows, Ask(d)  PROVE WindowInv'
    <2>0. Covered' = Covered /\ lost' = lost
      BY <1>1 DEF Ask, Covered
    <2>1. Reaches'
      BY <1>0, <1>1, <2>0 DEF Ask, Reaches, Writing
    <2>2. raced' \/ ~raced \/ (owed = 0 /\ slot = 0 /\ queue = <<>>)
      BY <1>1 DEF Ask
    <2>3. Owing'
      BY <1>0, <1>1, <2>0, <2>2 DEF Ask, Owing
    <2>4. raced' \/ Handled'
      <3>1. CASE raced /\ ~raced'
        BY <1>0, <1>1, <2>2, <3>1 DEF Ask, Handled, Told, Down, Writing
      <3>2. CASE ~raced /\ ~raced'
        BY <1>0, <1>1, <3>2 DEF Ask, Handled, Told, Down, Writing, Windows
      <3> QED  BY <3>1, <3>2
    <2> QED  BY <2>1, <2>3, <2>4 DEF WindowInv
  <1>2. CASE ReadActive
    <2>0. Covered' = Covered /\ raced' = raced /\ lost' = lost
      BY <1>2 DEF ReadActive, Covered
    <2>1. Reaches'
      BY <1>0, <1>2, <2>0 DEF ReadActive, Reaches, Writing
    <2>2. Owing'
      BY <1>0, <1>2, <2>0 DEF ReadActive, Reaches, Owing
    <2>3. raced' \/ Handled'
      <3> SUFFICES ASSUME Handled  PROVE Handled'
        BY <1>0, <2>0
      <3> QED  BY <1>0, <1>2 DEF ReadActive, Handled, Told, Down, Writing
    <2> QED  BY <2>1, <2>2, <2>3 DEF WindowInv
  <1>3. CASE ReadHasDeadline
    <2>0. Covered' = Covered /\ raced' = raced /\ lost' = lost
      BY <1>3 DEF ReadHasDeadline, Covered
    <2>1. Reaches'
      BY <1>0, <1>3, <2>0 DEF ReadHasDeadline, Reaches, Writing
    <2>2. Owing'
      BY <1>0, <1>3, <2>0 DEF ReadHasDeadline, Reaches, Owing
    <2>3. raced' \/ Handled'
      <3> SUFFICES ASSUME Handled  PROVE Handled'
        BY <1>0, <2>0
      <3> QED  BY <1>0, <1>3 DEF ReadHasDeadline, Handled, Told, Down, Writing
    <2> QED  BY <2>1, <2>2, <2>3 DEF WindowInv
  <1>4. CASE ReadDeadline
    <2>0. Covered' = Covered /\ raced' = raced /\ lost' = lost
      BY <1>4 DEF ReadDeadline, Covered
    <2>1. Reaches'
      BY <1>0, <1>4, <2>0 DEF ReadDeadline, Reaches, Writing
    <2>2. Owing'
      BY <1>0, <1>4, <2>0 DEF ReadDeadline, Reaches, Owing
    <2>3. raced' \/ Handled'
      <3> SUFFICES ASSUME Handled  PROVE Handled'
        BY <1>0, <2>0
      <3> QED  BY <1>0, <1>4 DEF ReadDeadline, Handled, Told, Down, Writing
    <2> QED  BY <2>1, <2>2, <2>3 DEF WindowInv
  <1>5. CASE WriteDeadline
    <2>0. Covered' = Covered /\ raced' = raced /\ lost' = lost
      BY <1>5 DEF WriteDeadline, Covered
    <2>1. Reaches'
      BY <1>0, <1>5, <2>0 DEF WriteDeadline, Reaches, Writing
    <2>2. Owing'
      BY <1>0, <1>5, <2>0 DEF WriteDeadline, Reaches, Owing
    <2>3. raced' \/ Handled'
      <3> SUFFICES ASSUME Handled  PROVE Handled'
        BY <1>0, <2>0
      <3> QED  BY <1>0, <1>5 DEF WriteDeadline, Handled, Told, Down, Writing
    <2> QED  BY <2>1, <2>2, <2>3 DEF WindowInv
  <1>6. CASE WriteHasDeadline
    <2>0. Covered' = Covered /\ raced' = raced /\ lost' = lost
      BY <1>6 DEF WriteHasDeadline, Covered
    <2>1. Reaches'
      BY <1>0, <1>6, <2>0 DEF WriteHasDeadline, Reaches, Writing
    <2>2. Owing'
      BY <1>0, <1>6, <2>0 DEF WriteHasDeadline, Reaches, Owing
    <2>3. raced' \/ Handled'
      <3> SUFFICES ASSUME Handled  PROVE Handled'
        BY <1>0, <2>0
      <3> QED  BY <1>0, <1>6 DEF WriteHasDeadline, Handled, Told, Down, Writing
    <2> QED  BY <2>1, <2>2, <2>3 DEF WindowInv
  <1>7. CASE MarkActivity
    <2>0. Covered' = Covered /\ raced' = raced /\ lost' = lost
      BY <1>7 DEF MarkActivity, Covered
    <2>1. Reaches'
      BY <1>0, <1>7, <2>0 DEF MarkActivity, Reaches, Writing
    <2>2. Owing'
      BY <1>0, <1>7, <2>0 DEF MarkActivity, Reaches, Owing
    <2>3. raced' \/ Handled'
      <3> SUFFICES ASSUME Handled  PROVE Handled'
        BY <1>0, <2>0
      <3> QED  BY <1>0, <1>7 DEF MarkActivity, Handled, Told, Down, Writing
    <2> QED  BY <2>1, <2>2, <2>3 DEF WindowInv
  <1>8. CASE MarkRequested
    <2>0. Covered' = Covered /\ raced' = raced /\ lost' = lost
      BY <1>8 DEF MarkRequested, Covered
    <2>1. Reaches'
      BY <1>0, <1>8, <2>0 DEF MarkRequested, Reaches, Writing
    <2>2. Owing'
      BY <1>0, <1>8, <2>0 DEF MarkRequested, Reaches, Owing
    <2>3. raced' \/ Handled'
      <3> SUFFICES ASSUME Handled  PROVE Handled'
        BY <1>0, <2>0
      <3> QED  BY <1>0, <1>8 DEF MarkRequested, Handled, Told, Down, Writing
    <2> QED  BY <2>1, <2>2, <2>3 DEF WindowInv
  <1>9. CASE Submit
    <2>0. raced' = raced /\ web.at = "submit" /\ web'.at = "idle" /\ web'.window = web.window
      BY <1>0, <1>9 DEF Submit
    <2>1. CASE lost' = TRUE /\ UNCHANGED <<queue, owed>>
      <3>1. Reaches' /\ Owing'
        BY <2>0, <2>1 DEF Reaches, Owing, Writing
      <3>2. raced' \/ Handled'
        BY <1>0, <1>9, <2>0, <2>1 DEF Submit, Handled, Told, Writing
      <3> QED  BY <3>1, <3>2 DEF WindowInv
    <2>2. CASE lost' # TRUE \/ ~UNCHANGED <<queue, owed>>
      <3>1. queue' = Append(queue, web.window) /\ lost' = FALSE
            /\ owed' = IF owed < web.window THEN web.window ELSE owed
        BY <1>9, <2>2 DEF Submit
      <3>2. Covered' = web.window
        BY <1>0, <3>1, AppendProperties DEF Covered, Last, Windows
      <3>3. Reaches' /\ (raced \/ owed <= web.window)
        BY <1>0, <1>9, <2>0, <3>2 DEF Submit, Reaches, Handled, Writing
      <3>4. Owing'
        BY <1>0, <2>0, <3>1, <3>2, <3>3 DEF Owing
      <3>5. raced' \/ Handled'
        BY <1>0, <1>9, <2>0, <3>1, <3>3 DEF Submit, Handled, Told, Writing
      <3> QED  BY <3>3, <3>4, <3>5 DEF WindowInv
    <2> QED  BY <2>1, <2>2
  <1> QED
    BY <1>1, <1>2, <1>3, <1>4, <1>5, <1>6, <1>7, <1>8, <1>9 DEF Web

(* Core 1 takes the window over from the queue, and takes it down only when        *)
(* nothing is left of it.                                                          *)
LEMMA Core1Window == IInv /\ WindowInv /\ Core1 => WindowInv'
  <1> SUFFICES ASSUME IInv, WindowInv, Core1  PROVE WindowInv'
    OBVIOUS
  <1>0. /\ TailWindow \in Nat /\ ColdWindow \in Nat /\ 0 < TailWindow
        /\ deadline \in Int /\ slot \in Nat /\ owed \in Nat /\ Covered \in Nat
        /\ web.window \in {TailWindow, ColdWindow} /\ web.active \in BOOLEAN
        /\ queue \in Seq(Windows)
        /\ core1 \in {"loop", "ready", "reset1", "reset2", "reset3", "reset4", "reset5"}
        /\ ClearedLast /\ Reaches /\ Owing /\ (raced \/ Handled)
    <2>1. TypeOK /\ core1 \in {"loop", "ready", "reset1", "reset2", "reset3", "reset4",
       "reset5"}
      BY DEF IInv, TypeOK
    <2> QED  BY <2>1, Numbers DEF WindowInv, IInv
  <1> USE DEF At, Resetting, SyncWanted, Never, Past, flags, display, ghosts
  <1>1. CASE Update
    <2>0. /\ core1 = "loop" /\ queue' = <<>> /\ slot' = Covered
          /\ UNCHANGED <<requested, ready, hasDeadline, deadline, web, owed, lost>>
          /\ \/ core1' \in {"loop", "ready"} /\ (core1' = "loop" \/ Covered # 0) /\ raced' = raced
             \/ core1' = "reset1" /\ Covered = 0 /\ (raced' \/ (~raced /\ web.at = "idle"))
      <3>1. raced \in BOOLEAN
        BY DEF IInv, TypeOK
      <3>2. CASE Covered = 0 /\ shown
        <4>1. /\ core1 = "loop" /\ core1' = "reset1" /\ queue' = <<>> /\ slot' = Covered
              /\ UNCHANGED <<requested, ready, hasDeadline, deadline, web, owed, lost>>
          BY <1>1, <3>2 DEF Update, Covered, Expired
        <4>2. raced' = (raced \/ web.at # "idle")
          BY <1>1, <3>2, Zenon DEF Update, Covered, Expired
        <4> QED  BY <3>2, <4>1, <4>2
      <3>3. CASE ~(Covered = 0 /\ shown)
        BY <1>1, <3>1, <3>3 DEF Update, Covered, Expired
      <3> QED  BY <3>2, <3>3
    <2>1. Covered' = Covered
      BY <2>0 DEF Covered
    <2>2. Reaches' /\ Owing'
      BY <1>0, <2>0, <2>1 DEF Reaches, Owing, Writing
    <2>3. raced' \/ Handled'
      <3> SUFFICES ASSUME ~raced', Handled  PROVE Handled'
        BY <1>0, <2>0
      <3>1. CASE core1' \in {"loop", "ready"}
        <4>1. Down => Covered = 0
          BY DEF Down, Covered
        <4> QED  BY <1>0, <2>0, <3>1, <4>1 DEF Handled, Told, Down, Writing
      <3>2. CASE core1' = "reset1"
        BY <1>0, <2>0, <3>2 DEF Handled, Writing
      <3> QED  BY <2>0, <3>1, <3>2
    <2> QED  BY <2>2, <2>3 DEF WindowInv
  <1>2. CASE Activated
    <2>1. /\ core1 = "ready" /\ core1' = "loop" /\ ready' = TRUE /\ Covered' = Covered
          /\ UNCHANGED <<requested, hasDeadline, deadline, queue, slot, web, owed, lost, raced>>
      BY <1>2 DEF Activated, Covered
    <2>2. Reaches' /\ Owing'
      BY <2>1 , <1>0 DEF Reaches, Owing, Writing
    <2>3. raced' \/ Handled'
      BY <1>0, <2>1 DEF Handled, Told, Down, Writing
    <2> QED  BY <2>2, <2>3 DEF WindowInv
  <1>3. CASE Reset
    <2>1. /\ Resetting /\ Covered' = Covered
          /\ core1' \in {"loop", "reset2", "reset3", "reset4", "reset5"}
          /\ core1' = "reset5" => core1 = "reset4"
          /\ core1' = "loop" => core1 = "reset5"
          /\ deadline' \in {deadline, -1}
          /\ core1 = "reset4" => ~requested'
          /\ (ready' => ready) /\ (requested' => requested)
          /\ UNCHANGED <<queue, slot, web, owed, lost, raced>>
      BY <1>0, <1>3 DEF Reset, Covered
    <2>2. Reaches'
      BY <1>0, <2>1 DEF Reaches, Writing
    <2>3. Owing'
      BY <1>0, <2>1 DEF Owing
    <2>4. raced' \/ Handled'
      <3> SUFFICES ASSUME Handled  PROVE Handled'
        BY <1>0, <2>1
      <3>1. web.at = "idle" /\ queue = <<>> /\ slot = 0
        BY <2>1 DEF Handled
      <3> QED  BY <1>0, <2>1, <3>1 DEF Handled, Down, Writing, ClearedLast
    <2> QED  BY <2>2, <2>3, <2>4 DEF WindowInv
  <1> QED  BY <1>1, <1>2, <1>3 DEF Core1

(* The workers, and the panel's power, have no part in it; time shortens what is   *)
(* left of the window and what is owed alike.                                      *)
LEMMA Elsewhere ==
    ASSUME WindowInv,
           UNCHANGED <<requested, ready, hasDeadline, deadline, queue, slot, web, core1, ghosts>>
    PROVE  WindowInv'
  BY DEF WindowInv, Reaches, Owing, Handled, Told, Down, Covered, At, Resetting, SyncWanted,
     Writing, ghosts

LEMMA TickWindow == IInv /\ WindowInv /\ Tick => WindowInv'
  <1> SUFFICES ASSUME IInv, WindowInv, Tick  PROVE WindowInv'
    OBVIOUS
  <1>0. /\ deadline \in Int /\ -1 <= deadline /\ slot \in Nat /\ owed \in Nat /\ Covered \in Nat
        /\ Reaches /\ Owing /\ (raced \/ Handled)
    BY Numbers DEF WindowInv, IInv
  <1>1. /\ web.at = "idle" /\ web'.at = "idle"
        /\ deadline' = IF deadline > -1 THEN deadline - 1 ELSE deadline
        /\ owed' = IF owed > 0 THEN owed - 1 ELSE owed
        /\ slot' = IF slot > 0 THEN slot - 1 ELSE slot
        /\ UNCHANGED <<requested, ready, hasDeadline, queue, core1, lost, raced>>
    BY DEF Tick, Older, At, Past, Never, flags
  <1>2. Covered' = Covered \/ Covered' = IF Covered > 0 THEN Covered - 1 ELSE Covered
    BY <1>1 DEF Covered
  <1>3. Reaches' /\ Owing'
    BY <1>0, <1>1, <1>2 DEF Reaches, Owing, Writing
  <1>4. raced' \/ Handled'
    <2> SUFFICES ASSUME Handled  PROVE Handled'
      BY <1>0, <1>1
    <2> QED  BY <1>0, <1>1 DEF Handled, Told, Down, At, Resetting, SyncWanted, Never, Writing
  <1> QED  BY <1>3, <1>4 DEF WindowInv

LEMMA StepWindow == IInv /\ WindowInv /\ [Next]_vars => WindowInv'
  <1> SUFFICES ASSUME IInv, WindowInv, [Next]_vars  PROVE WindowInv'
    OBVIOUS
  <1>1. CASE PowerPanel \/ UNCHANGED vars
    BY <1>1, Elsewhere DEF PowerPanel, vars, flags, display
  <1>2. ASSUME NEW w \in Workers, Work(w)  PROVE WindowInv'
    BY <1>2, Elsewhere DEF Work, Look, GiveUp, Enter, Leave, WorkerKeeps, flags, display
  <1> QED  BY <1>1, <1>2, WebWindow, Core1Window, TickWindow DEF Next

(* A browser that was granted a window has it for as long as it asked; the only    *)
(* exceptions are a lost command and a request made while the last window is being *)
(* taken down.                                                                     *)
THEOREM NoWindowShortened == Spec => []ShortenedOnlyInReset
  <1>1. IInv /\ WindowInv => ShortenedOnlyInReset
    <2> SUFFICES ASSUME TypeOK, Owing  PROVE ShortenedOnlyInReset
      BY DEF IInv, WindowInv
    <2> QED  BY Numbers DEF Owing, ShortenedOnlyInReset, NeverShortened, Margin
  <1>2. Spec => []WindowInv
    BY InitWindow, StepWindow, AlwaysInv, PTL DEF Spec
  <1> QED  BY <1>1, <1>2, AlwaysInv, PTL
================================================================================
